--------------------------- MODULE ResonanceEngine ---------------------------
(***************************************************************************)
(* Sympathetic resonance (resonance_engine.cpp, the states of              *)
(* resonance_voice.cpp): one slot per note that is silent, sounds, or      *)
(* fades out for good.  Gains are not modelled: whether a string is        *)
(* excited strongly enough, and which sounding slot is the quietest, is    *)
(* left open.  The keys, the pedal and the main voices belong to Keyboard; *)
(* here they are parameters of the actions.                                *)
(*                                                                         *)
(* MayExciteFading, FadeNothing and ExcessWithDying are faulty variants of *)
(* the definitions that follow them.                                       *)
(***************************************************************************)
EXTENDS Integers, FiniteSets

CONSTANTS
  Notes,
  Kin,       \* pairs <<n, m>>: harmonicProximity(n, m) is not negligible
  Budgets    \* values setMaxVoices may be given (it clamps them to 1..64)

VARIABLES
  reso,      \* "off", "on", or "fade" (is_fading_out_), by note
  budget,    \* max_voices_
  enabled

ResonanceInit ==
  /\ reso = [n \in Notes |-> "off"]
  /\ budget \in Budgets
  /\ enabled \in BOOLEAN

Live(r) == {n \in Notes : r[n] = "on"}

FadeNothing(n) == reso

\* onSelfNoteOn (rule B): the string is struck, its resonance fades.
FadeSelf(n) == [reso EXCEPT ![n] = IF @ = "on" THEN "fade" ELSE @]

MayExciteFading(r, m, n, undamped, sounding) ==
  m # n /\ <<m, n>> \in Kin /\ m \in undamped /\ m \notin sounding

\* The eligibility filter of onPlayedNoteOn for string m when n is struck.
MayExcite(r, m, n, undamped, sounding) ==
  /\ m # n /\ <<m, n>> \in Kin
  /\ m \in undamped
  /\ r[m] # "fade"
  /\ m \notin sounding

ExcessWithDying(r, started) ==
  Cardinality({m \in Notes : r[m] # "off"} \cup started) - budget

\* How many resonances are over the budget; those that fade do not count.
Excess(r, started) == Cardinality(Live(r) \cup started) - budget

\* How many sounding resonances a strike may fade.  Before a string starts the
\* quietest makes room for it if the budget is spent; that a string has nothing
\* to sound is found out only then (vain), and leaves one fewer than there may
\* be, once those over a lowered budget are gone.
Cuts(r, started, vain) ==
  LET surplus == Cardinality(Live(r)) - budget
      spare   == IF vain # {} /\ Cardinality(vain) > surplus THEN {0, 1} ELSE {0}
  IN  {IF Excess(r, started) + k > 0 THEN Excess(r, started) + k ELSE 0 : k \in spare}

\* onSelfNoteOn(n), then onPlayedNoteOn(n) with enforceVoiceBudget: strings
\* that are silent, eligible and sampled may start, a hollow one only if its
\* file goes on behind a head without frames; sounding ones fade until the
\* budget is kept.
Strike(n, undamped, sounding, sampled, hollow) ==
  LET r == FadeSelf(n)
      silent == {m \in sampled : /\ r[m] # "on"
                                 /\ MayExcite(r, m, n, undamped, sounding)}
  IN \/ /\ ~enabled
        /\ reso' = r
     \/ /\ enabled
        /\ \E started \in SUBSET silent :
             \E cut \in SUBSET (Live(r) \cup started) :
               /\ Cardinality(cut) \in Cuts(r, started, (silent \cap hollow) \ started)
               /\ reso' = [m \in Notes |->
                             IF m \in cut THEN "fade"
                             ELSE IF m \in started THEN "on" ELSE r[m]]

\* processBlock: a damped string fades, and so does one whose excitation has
\* decayed or whose cache is to be rebuilt; a voice ends when its fade or its
\* sample does.
Render(undamped) ==
  \E r \in [Notes -> {"off", "on", "fade"}] :
    /\ \A n \in Notes :
         CASE reso[n] = "off"  -> r[n] = "off"
           [] reso[n] = "fade" -> r[n] # "on"
           [] reso[n] = "on"   -> r[n] = "on" => n \in undamped
    /\ reso' = r

\* reloadBank: ResonanceEngine::reset.
Silence == reso' = [n \in Notes |-> "off"]

SetMaxVoices(b) == budget' = b
SetEnabled(on) == enabled' = on

ResonanceTypeOK ==
  /\ reso \in [Notes -> {"off", "on", "fade"}]
  /\ budget \in Budgets
  /\ enabled \in BOOLEAN
=============================================================================
