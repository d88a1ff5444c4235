------------------------------- MODULE MainVoice -------------------------------
(***************************************************************************)
(* One voice of the pool from its start to its last frame (voice.cpp):     *)
(* the head in memory, then the ring through the reader's window, under    *)
(* three ramps (onset, release, underrun), and the damping tail that is    *)
(* left behind when the slot is taken.  Positions count half frames, so    *)
(* that a step of 1, 2 or 4 is a pitch ratio of 1/2, 1 or 2.  A ramp is    *)
(* the number of samples it has left; gains and pan are not modelled.      *)
(*                                                                         *)
(* HoldAtEnd is a faulty variant of the definition that follows it.        *)
(***************************************************************************)
EXTENDS SampleReader

CONSTANTS
  HeadFrames, \* head_frames of a streamed file; a short one is all head
  RampLength, \* samples of every ramp and of the damping tail
  Steps       \* values of pos_inc_, in half frames

VARIABLES
  active,
  pos, inc,   \* position_, pos_inc_
  head,       \* frames in memory: HeadFrames, or Total when fully loaded
  rd,         \* reader_
  onset,      \* samples until onset_gain_ is 1
  rel,        \* releasing_: samples until rel_gain_ is 0, or NoRamp
  under,      \* underrun_fading_ likewise
  tail,       \* damp_buf_: its first frame, the samples left of it
  block       \* process(): "out", "opened", or "played" a sample or more

vars == <<active, pos, inc, head, rd, onset, rel, under, tail, block>>

NoRamp == -1
NoTail == [from |-> 0, left |-> 0]
Frame == pos \div 2
\* Bound of the position; a voice has faded out before it comes there.
LastPos == 2 * Total + 4 * RampLength + 4

Init ==
  /\ active = FALSE /\ pos = 0 /\ inc \in Steps /\ head = HeadFrames
  /\ rd = NoRing /\ onset = 0 /\ rel = NoRamp /\ under = NoRamp
  /\ tail = NoTail /\ block = "out"

\* start: the tail of the note that had the slot goes on sounding.
Start(short, step) ==
  /\ block = "out" /\ ~active
  /\ active' = TRUE /\ pos' = 0 /\ inc' = step
  /\ head' = IF short THEN Total ELSE HeadFrames
  /\ rd' \in IF short THEN {NoRing} ELSE Begin(HeadFrames)
  /\ onset' = RampLength /\ rel' = NoRamp /\ under' = NoRamp
  /\ UNCHANGED <<tail, block>>

Release ==
  /\ block = "out" /\ active /\ rel = NoRamp
  /\ rel' = RampLength
  /\ UNCHANGED <<active, pos, inc, head, rd, onset, under, tail, block>>

\* prepareDamp: the next frames, from the head or popped from the ring, will
\* fade out under the note that takes over; the ring is given back.
PrepareDamp ==
  /\ block = "out" /\ active
  /\ tail' = IF Frame < head
             THEN [from |-> Frame, left |-> Least(RampLength, head - Frame)]
             ELSE IF rd.ring
             THEN [from |-> rd.r, left |-> Least(RampLength, Available(rd))]
             ELSE NoTail
  /\ active' = FALSE /\ rd' = NoRing /\ rel' = NoRamp
  /\ UNCHANGED <<pos, inc, head, onset, under, block>>

HardStop ==
  /\ block = "out"
  /\ active' = FALSE /\ rd' = NoRing /\ rel' = NoRamp /\ under' = NoRamp
  /\ tail' = NoTail
  /\ UNCHANGED <<pos, inc, head, onset, block>>
-----------------------------------------------------------------------------
(* process *)

OpenBlock ==
  /\ block = "out" /\ (active \/ tail.left > 0)
  /\ block' = "opened"
  /\ UNCHANGED <<active, pos, inc, head, rd, onset, rel, under, tail>>

\* The last frame of the head is interpolated through the window already.
InHead == Frame < head - 1

\* The first sample behind the head seeds the window; the worker may write
\* before the window is moved.
Windows ==
  IF Seeded(rd) THEN {rd}
  ELSE LET open == Seed(rd, head - 1) IN {open} \cup Delivered(open)

\* What a sample leaves of a ramp.
Less(ramp) == IF ramp > 0 THEN ramp - 1 ELSE ramp
TailMoves ==
  tail' = IF tail.left > 1 THEN [from |-> tail.from + 1, left |-> tail.left - 1]
          ELSE NoTail

HoldAtEnd(window) ==
  LET moved == Advance(window, Frame)
      empty == RingEmpty(moved, Frame) /\ rd.off < Total
  IN /\ rd' = moved
     /\ under' = Less(IF empty /\ under = NoRamp THEN RampLength ELSE under)

\* From the window, or on the last frame heard while an empty ring, at the end
\* of the sample or before it, fades the voice out.
FromRing(window) ==
  LET moved == Advance(window, Frame)
  IN /\ rd' = moved
     /\ under' = Less(IF RingEmpty(moved, Frame) /\ under = NoRamp
                      THEN RampLength ELSE under)

\* A sample of the voice, in the head or behind it, and its ramps.
PlaySample ==
  /\ block # "out" /\ block' = "played" /\ active
  /\ \/ InHead /\ UNCHANGED <<rd, under>>
     \/ /\ ~InHead /\ rd.ring
        /\ \E window \in Windows : FromRing(window)
  /\ pos' = Least(pos + inc, LastPos)
  /\ onset' = Less(onset) /\ rel' = Less(rel)
  /\ active' = (rel' # 0 /\ under' # 0)
  /\ TailMoves
  /\ UNCHANGED <<inc, head>>

\* Behind the head without a ring: the voice is over.
PlayPastHead ==
  /\ block # "out" /\ block' = "played" /\ active /\ ~InHead /\ ~rd.ring
  /\ active' = FALSE
  /\ TailMoves
  /\ UNCHANGED <<pos, inc, head, rd, onset, rel, under>>

\* The tail plays on when its note has ended.
PlayTail ==
  /\ block # "out" /\ block' = "played" /\ ~active /\ tail.left > 0
  /\ TailMoves
  /\ UNCHANGED <<active, pos, inc, head, rd, onset, rel, under>>

\* A block has one sample or more.
CloseBlock ==
  /\ block = "played"
  /\ block' = "out"
  /\ rd' \in IF active /\ rd.ring THEN Refill(rd) ELSE {NoRing}
  /\ UNCHANGED <<active, pos, inc, head, onset, rel, under, tail>>

Sample == PlaySample \/ PlayPastHead \/ PlayTail

Worker ==
  /\ rd.ring /\ rd' \in Delivered(rd)
  /\ UNCHANGED <<active, pos, inc, head, onset, rel, under, tail, block>>

Next ==
  \/ \E short \in BOOLEAN, step \in Steps : Start(short, step)
  \/ Release \/ PrepareDamp \/ HardStop
  \/ OpenBlock \/ Sample \/ CloseBlock \/ Worker

\* The device calls for blocks; no key need move and no worker need ever read.
Fairness == WF_vars(OpenBlock \/ Sample \/ CloseBlock)

Spec == Init /\ [][Next]_vars /\ Fairness
-----------------------------------------------------------------------------
TypeOK ==
  /\ active \in BOOLEAN /\ block \in {"out", "opened", "played"}
  /\ pos \in 0..LastPos /\ inc \in Steps /\ head \in {HeadFrames, Total}
  /\ rd \in Readers
  /\ onset \in 0..RampLength /\ {rel, under} \subseteq -1..RampLength
  /\ tail \in [from : 0..LastPos, left : 0..RampLength]

\* What is heard is what the position says: behind the head, until the ring
\* runs empty, a sample lies between two neighbouring frames of the file that
\* are at most one frame late (when the ring was empty as the window opened).
InPlace ==
  [][PlaySample /\ ~InHead /\ under' = NoRamp =>
       /\ rd'.lo \in {Frame - 1, Frame}
       /\ rd'.hi \in {rd'.lo, rd'.lo + 1}]_vars

\* Every note ends: with the sample or in an underrun, whatever the workers
\* do, though no key is released.
VoiceEnds == active ~> ~active

\* The tail of a note that loses its slot goes on where the note stood: from
\* the last frame heard at the latest, two frames ahead at the earliest
\* (comment voice.cpp:20).
TailJoins ==
  [][PrepareDamp /\ under = NoRamp /\ tail'.left > 0 =>
       tail'.from - Frame \in -1..2]_vars
=============================================================================
