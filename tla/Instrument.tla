------------------------------ MODULE Instrument ------------------------------
(***************************************************************************)
(* Engine::processBlock with its voices and its resonance: Keyboard and    *)
(* ResonanceEngine composed.  A NoteOn event runs onSelfNoteOn, then       *)
(* VoicePool::noteOn, then onPlayedNoteOn, which sees the keys, the pedal  *)
(* and the voice counter as the first two left them.                       *)
(***************************************************************************)
EXTENDS Keyboard

CONSTANTS
  Kin,      \* the harmonically related pairs of notes
  Budgets   \* limits of the number of resonances the GUI may set

ASSUME InstrumentAssumption ==
  /\ IsFiniteSet(Notes)
  /\ Kin \subseteq Notes \X Notes
  /\ Budgets \subseteq 1..64 /\ Budgets # {}

VARIABLES reso, budget, enabled

INSTANCE ResonanceEngine

resoVars == <<reso, budget, enabled>>
allVars == <<vars, resoVars>>

InstrumentInit == Init /\ ResonanceInit

Undamped(down, p) == {n \in Notes : down[n] \/ p > kDamperBiteCC}
Sampled == {n \in Notes : bank[n] # "none"}
Hollow == {n \in Notes : bank[n] = "mute"}
\* hasActiveMainVoice, for all notes.
HasMainVoice(counts) == {n \in Notes : counts[n] > 0}

StrikeKey(n, c) ==
  /\ NoteOn(n, c)
  /\ Strike(n, Undamped(held', cc), HasMainVoice(count'), Sampled, Hollow)
  /\ UNCHANGED <<budget, enabled>>

\* Events the resonance learns of only through the dampers, at the next block.
OtherEvent ==
  /\ \/ \E n \in Notes, c \in Channels : NoteOff(n, c)
     \/ \E p \in PedalPositions : Sustain(p)
     \/ AllNotesOff
     \/ \E s \in Slots : VoiceEnds(s)
  /\ UNCHANGED resoVars

RenderBlock ==
  /\ Render(Undamped(held, cc))
  /\ UNCHANGED <<vars, budget, enabled>>

ReloadAll(b) ==
  /\ Reload(b)
  /\ Silence
  /\ UNCHANGED <<budget, enabled>>

\* The controls of the GUI.
Adjust ==
  /\ \/ \E b \in Budgets : SetMaxVoices(b) /\ UNCHANGED <<reso, enabled>>
     \/ \E on \in BOOLEAN : SetEnabled(on) /\ UNCHANGED <<reso, budget>>
  /\ UNCHANGED vars

InstrumentNext ==
  \/ \E n \in Notes, c \in Channels : StrikeKey(n, c)
  \/ OtherEvent
  \/ RenderBlock
  \/ \E b \in Banks : ReloadAll(b)
  \/ Adjust

InstrumentSpec == InstrumentInit /\ [][InstrumentNext]_allVars
-----------------------------------------------------------------------------
\* The types of the keys, the voices and the resonances.
AllTypesOK == TypeOK /\ ResonanceTypeOK

\* Rule 5.5.1: a string sounds through its main voice or through resonance,
\* never both (but for the few milliseconds of a fade that has begun).
NeverBoth ==
  \A n \in Notes : reso[n] = "on" => \A s \in Slots : ~Sounding(s, n)

\* A resonance that fades (rule B, budget, pedal, cache rebuild) is not
\* excited again before it has ended.
FadeIsFinal == [][\A n \in Notes : reso[n] = "fade" => reso'[n] # "on"]_allVars

\* The resonance budget: a strike leaves no more sounding resonances than
\* the limit in force, even when the limit was lowered before, and it fades
\* those of other strings only while there are more (resonances that already
\* die away do not push out the ones that sound).  One more fades in vain at
\* most, and only for a string whose head has no frames.
BudgetKept ==
  [][\A n \in Notes, c \in Channels :
       StrikeKey(n, c) /\ enabled =>
         /\ Cardinality(Live(reso')) <= budget
         /\ (\E m \in Live(reso) \ {n} : reso'[m] = "fade") =>
              \/ Cardinality(Live(reso')) = budget
              \/ /\ Cardinality(Live(reso')) = budget - 1
                 /\ \E m \in Hollow \ {n} : reso'[m] = "off"]_allVars
=============================================================================
