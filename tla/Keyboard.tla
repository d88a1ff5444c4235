------------------------------- MODULE Keyboard -------------------------------
(***************************************************************************)
(* The path of a note on the audio thread: the drain loop of               *)
(* Engine::processBlock (engine.cpp), the NoteHoldTracker (which channels  *)
(* hold a key), PedalState (which dampers are lifted) and the VoicePool    *)
(* (which slot sounds which note).                                         *)
(*                                                                         *)
(* One action is one MIDI event, or the end of a voice in processBlock.    *)
(* Levels are not modelled: where findSlot takes the quietest of a class   *)
(* of slots, any slot of the class may be taken.                           *)
(*                                                                         *)
(* The definitions DampPlaying, RankLoudest, AnyHolder, LiftNothing and    *)
(* ReloadRinging are faulty variants of the ones that follow.              *)
(***************************************************************************)
EXTENDS Integers, FiniteSets

CONSTANTS
  Notes, Channels,
  Slots,           \* the slots of the pool
  PedalPositions,  \* CC64 values the pedal may send
  None

kPedalDownThreshold == 64
kDamperBiteCC == 8

ASSUME KeyboardAssumption ==
  /\ IsFiniteSet(Slots)
  /\ PedalPositions \subseteq 0..127
  /\ None \notin Notes

VARIABLES
  mask,     \* NoteHoldTracker: the channels that hold a key
  held, cc, \* PedalState
  midi, phase, pending,   \* Voice, by slot; midi outlives the tone
  count,    \* note_active_count_
  bank      \* what the bank has for a note: nothing, an empty head, a tone

keyVars  == <<mask, held, cc>>
poolVars == <<midi, phase, pending, count>>
vars == <<keyVars, poolVars, bank>>

Banks == [Notes -> {"none", "mute", "tone"}]

Init ==
  /\ mask = [n \in Notes |-> {}]
  /\ held = [n \in Notes |-> FALSE]
  /\ cc = 0
  /\ midi = [s \in Slots |-> None]
  /\ phase = [s \in Slots |-> "free"]
  /\ pending = [s \in Slots |-> FALSE]
  /\ count = [n \in Notes |-> 0]
  /\ bank \in Banks

-----------------------------------------------------------------------------
Sounding(s, n) == phase[s] # "free" /\ midi[s] = n

\* A count never goes below zero.
Less(c, k) == IF c > k THEN c - k ELSE 0

-----------------------------------------------------------------------------
(* Key down. *)

DampPlaying(n) == {s \in Slots : phase[s] = "play" /\ midi[s] = n}

\* The voices a retrigger of n damps, the releasing ones included.
Damped(n) == {s \in Slots : Sounding(s, n)}

RankLoudest(s, off, down) ==
  IF phase[s] = "free" \/ s \in off THEN 1
  ELSE IF phase[s] = "release" THEN 2 ELSE 3

\* findSlot: free, else releasing, else not held by a finger, else any.
Rank(s, off, down) ==
  IF phase[s] = "free" \/ s \in off THEN 1
  ELSE IF phase[s] = "release" THEN 2
  ELSE IF ~down[midi[s]] THEN 3 ELSE 4

FindSlot(off, down) ==
  {s \in Slots : \A t \in Slots : Rank(s, off, down) <= Rank(t, off, down)}

\* VoicePool::noteOn: damp what sounds the note, take slot s (damping what it
\* sounds), start the tone; a head without frames does not start.
StartIn(s, n) ==
  LET off   == Damped(n)
      stole == phase[s] # "free" /\ s \notin off
      less  == [m \in Notes |->
                  Less(count[m], (IF m = n THEN Cardinality(off) ELSE 0)
                               + (IF stole /\ m = midi[s] THEN 1 ELSE 0))]
      rings == bank[n] = "tone"
  IN /\ phase' = [t \in Slots |-> IF t = s
                                  THEN IF rings THEN "play" ELSE "free"
                                  ELSE IF t \in off THEN "free" ELSE phase[t]]
     /\ pending' = [t \in Slots |-> pending[t] /\ t # s /\ t \notin off]
     /\ midi' = [midi EXCEPT ![s] = n]
     /\ count' = [less EXCEPT ![n] = @ + (IF rings THEN 1 ELSE 0)]

\* MidiEvent::NoteOn: only the first holder lifts the damper, every one
\* strikes; a note the bank does not have is silent.
NoteOn(n, c) ==
  /\ mask' = [mask EXCEPT ![n] = @ \cup {c}]
  /\ held' = [held EXCEPT ![n] = @ \/ mask[n] = {}]
  /\ IF bank[n] = "none" THEN UNCHANGED poolVars
     ELSE \E s \in FindSlot(Damped(n), held') : StartIn(s, n)
  /\ UNCHANGED <<cc, bank>>

-----------------------------------------------------------------------------
(* Key up. *)

AnyHolder(n, c) == c \in mask[n]

\* NoteHoldTracker::noteOff returns true: c held the key, and nobody else.
LastHolder(n, c) == mask[n] = {c}

\* MidiEvent::NoteOff (and a NoteOn of velocity 0): the last holder drops the
\* damper, or leaves the voices to the pedal.
NoteOff(n, c) ==
  /\ mask' = [mask EXCEPT ![n] = @ \ {c}]
  /\ LET sounds == {s \in Slots : phase[s] = "play" /\ midi[s] = n} IN
     \/ /\ ~LastHolder(n, c)
        /\ UNCHANGED <<held, phase, pending>>
     \/ /\ LastHolder(n, c) /\ cc > kDamperBiteCC
        /\ held' = [held EXCEPT ![n] = FALSE]
        /\ pending' = [s \in Slots |-> pending[s] \/ s \in sounds]
        /\ UNCHANGED phase
     \/ /\ LastHolder(n, c) /\ cc <= kDamperBiteCC
        /\ held' = [held EXCEPT ![n] = FALSE]
        /\ phase' = [s \in Slots |->
                       IF s \in sounds THEN "release" ELSE phase[s]]
        /\ UNCHANGED pending
  /\ UNCHANGED <<cc, midi, count, bank>>

-----------------------------------------------------------------------------
(* The pedal and the panic button. *)

LiftNothing == /\ pending' = [s \in Slots |-> pending[s] /\ phase[s] # "play"]
               /\ UNCHANGED phase

\* releasePendingNotes: release what waits for the pedal, unless its key is
\* down again.
ReleasePendingNotes ==
  /\ pending' = [s \in Slots |-> pending[s] /\ phase[s] # "play"]
  /\ phase' = [s \in Slots |->
                 IF phase[s] = "play" /\ pending[s] /\ ~held[midi[s]]
                 THEN "release" ELSE phase[s]]

\* MidiEvent::Sustain: the pending voices are looked at when the pedal crosses
\* the threshold upwards, and only then.
Sustain(p) ==
  /\ cc' = p
  /\ \/ /\ cc >= kPedalDownThreshold /\ p < kPedalDownThreshold
        /\ ReleasePendingNotes
     \/ /\ ~(cc >= kPedalDownThreshold /\ p < kPedalDownThreshold)
        /\ UNCHANGED <<phase, pending>>
  /\ UNCHANGED <<mask, held, midi, count, bank>>

AllNotesOff ==
  /\ mask' = [n \in Notes |-> {}]
  /\ held' = [n \in Notes |-> FALSE]
  /\ phase' = [s \in Slots |-> IF phase[s] = "play" THEN "release"
                                                    ELSE phase[s]]
  /\ UNCHANGED <<cc, midi, pending, count, bank>>

-----------------------------------------------------------------------------
(* The end of a voice, and a new bank. *)

\* VoicePool::processBlock: the tone is played out, released, or dry.
VoiceEnds(s) ==
  /\ phase[s] # "free"
  /\ phase' = [phase EXCEPT ![s] = "free"]
  /\ count' = [count EXCEPT ![midi[s]] = Less(@, 1)]
  /\ UNCHANGED <<keyVars, midi, pending, bank>>

ReloadRinging(b) ==
  /\ bank' = b
  /\ UNCHANGED <<keyVars, poolVars>>

\* Engine::reloadBank: the pool is stopped hard; keys and pedal stay as the
\* events drained so far left them.
Reload(b) ==
  /\ phase' = [s \in Slots |-> "free"]
  /\ pending' = [s \in Slots |-> FALSE]
  /\ count' = [n \in Notes |-> 0]
  /\ bank' = b
  /\ UNCHANGED <<keyVars, midi>>

Next ==
  \/ \E n \in Notes, c \in Channels : NoteOn(n, c) \/ NoteOff(n, c)
  \/ \E p \in PedalPositions : Sustain(p)
  \/ AllNotesOff
  \/ \E s \in Slots : VoiceEnds(s)
  \/ \E b \in Banks : Reload(b)

Spec == Init /\ [][Next]_vars
-----------------------------------------------------------------------------
(* Properties. *)

TypeOK ==
  /\ mask \in [Notes -> SUBSET Channels]
  /\ held \in [Notes -> BOOLEAN]
  /\ cc \in PedalPositions \cup {0}
  /\ midi \in [Slots -> Notes \cup {None}]
  /\ \A s \in Slots : phase[s] # "free" => midi[s] \in Notes
  /\ phase \in [Slots -> {"free", "play", "release"}]
  /\ pending \in [Slots -> BOOLEAN]
  /\ count \in [Notes -> Nat]
  /\ bank \in Banks

\* Rule 5.5.1 of the pool: a note has at most one voice that sounds, in
\* whatever state, through retriggers, steals and overlapping channels.
OneVoicePerNote ==
  \A s, t \in Slots :
    phase[s] # "free" /\ phase[t] # "free" /\ midi[s] = midi[t] => s = t

\* The counter behind hasActiveMainVoice counts the voices of the note: no
\* path out of the sounding state forgets it or counts twice.
CountTrue ==
  \A n \in Notes : count[n] = Cardinality({s \in Slots : Sounding(s, n)})

\* The two records of a key agree: PedalState holds a damper up exactly while
\* the tracker knows a channel that holds the key.
HeldAgrees == \A n \in Notes : held[n] <=> mask[n] # {}

\* A voice that is not being released either has a finger on its key or waits
\* for the pedal, never both and never neither.
PendingExact ==
  \A s \in Slots : phase[s] = "play" => (pending[s] <=> ~held[midi[s]])

\* engine.cpp: no voice outlives the bank it plays from; what sounds is a tone
\* of the bank loaded now.
VoicesBacked == \A s \in Slots : phase[s] # "free" => bank[midi[s]] = "tone"

\* The inductive invariant.
KeyInv ==
  /\ TypeOK
  /\ OneVoicePerNote
  /\ CountTrue
  /\ HeldAgrees
  /\ PendingExact
  /\ VoicesBacked

\* voice.h, pedal_state.h: when neither key nor pedal lifts the damper, the
\* voice is being released.
StringsUndamped ==
  \A s \in Slots :
    phase[s] = "play" => held[midi[s]] \/ cc > kDamperBiteCC

\* The voice of a key under a finger is stolen only when every slot sounds
\* such a key.
StealSpares ==
  [][\A s \in Slots :
       midi'[s] # midi[s] /\ phase[s] = "play" /\ held[midi[s]] =>
         \A t \in Slots : phase[t] = "play" /\ held[midi[t]]]_vars
=============================================================================
