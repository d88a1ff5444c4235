------------------------------- MODULE ResoVoice -------------------------------
(***************************************************************************)
(* One resonance voice (resonance_voice.cpp) with what its engine does to  *)
(* it per block (resonance_engine.cpp: processBlock): it starts behind the *)
(* attack, in the resonance buffer, in the head of a short file or at once *)
(* in the ring, and lives as long as its single gain does.  Positions      *)
(* count half frames.  Gains are levels: 0 is below kResonanceGainEpsilon, *)
(* 1 above it but below kResonanceTargetEpsilon.  A ramp is known by the   *)
(* samples it has left.                                                    *)
(*                                                                         *)
(* KeepResidue is a faulty variant of the definition that follows it.      *)
(***************************************************************************)
EXTENDS SampleReader

CONSTANTS
  First,      \* resonance_start_frame
  Buffer,     \* resonance_frames of the cached buffer
  SlowRamp,   \* kResonanceRampMs in samples
  FastRamp,   \* kResonanceFadeOutMs and kUnderrunFadeMs in samples
  Loudest,    \* the highest gain level
  Steps       \* values of pos_inc_, in half frames

VARIABLES
  active,
  source,      \* "cache", "stream" (a rebuild has withdrawn the buffers), "full"
  pos, inc,    \* position_, pos_inc_
  rd,          \* reader_
  gain, target, left,   \* gain_, target_gain_, samples until it is reached
  fading,      \* is_fading_out_
  under,       \* underrun_fading_: samples until underrun_gain_ is 0, or NoRamp
  block        \* process(): "out", "opened", or "played" a sample or more

vars == <<active, source, pos, inc, rd, gain, target, left, fading, under,
          block>>

NoRamp == -1
Frame == pos \div 2
TargetEpsilon == 1
LastPos == 2 * Total + 8     \* bound of the position, which none outlives
Most(a, b) == IF a > b THEN a ELSE b

Init ==
  /\ active = FALSE /\ source = "cache" /\ pos = 0 /\ inc \in Steps
  /\ rd = NoRing /\ gain = 0 /\ target = 0 /\ left = 0
  /\ fading = FALSE /\ under = NoRamp /\ block = "out"

\* Frames from the buffer, and the first one behind it.
Cached == IF source = "cache" THEN Least(Buffer, Total - First) ELSE 0
ResEnd == First + Cached

\* start: the ring follows the buffer; if nothing follows, it is born ended.
Start(from, step, level) ==
  /\ block = "out" /\ ~active
  /\ active' = TRUE /\ source' = from
  /\ pos' = 2 * First /\ inc' = step
  /\ gain' = 0 /\ target' = level /\ left' = SlowRamp
  /\ fading' = FALSE /\ under' = NoRamp
  /\ rd' \in IF from = "full" THEN {NoRing}
             ELSE IF ResEnd' >= Total THEN BeginEofOnly(ResEnd')
             ELSE Begin(ResEnd')
  /\ UNCHANGED block

\* addExcitation, which the engine keeps from voices that fade.
AddExcitation(more) ==
  /\ block = "out" /\ active /\ ~fading
  /\ Least(gain + more, Loudest) > target
  /\ target' = Least(gain + more, Loudest) /\ left' = SlowRamp
  /\ UNCHANGED <<active, source, pos, inc, rd, gain, fading, under, block>>

\* fadeOut: the string is struck, or over the budget.
FadeOut ==
  /\ block = "out" /\ active /\ ~fading
  /\ target' = 0 /\ fading' = TRUE /\ left' = FastRamp
  /\ UNCHANGED <<active, source, pos, inc, rd, gain, under, block>>

HardStop ==
  /\ block = "out"
  /\ active' = FALSE /\ rd' = NoRing /\ under' = NoRamp /\ fading' = FALSE
  /\ gain' = 0 /\ target' = 0 /\ left' = 0
  /\ UNCHANGED <<source, pos, inc, block>>
-----------------------------------------------------------------------------
(* processBlock *)

\* The target as it was once: a residue stays (comment resonance_voice.cpp:116).
KeepResidue(level) ==
  target' = level /\ left' = SlowRamp /\ fading' = (level <= TargetEpsilon)

\* setTargetGain: below the threshold the aim is silence itself.
SetTargetGain(level) ==
  /\ target' = IF level <= TargetEpsilon THEN 0 ELSE level
  /\ left' = SlowRamp /\ fading' = (level <= TargetEpsilon)

\* The block begins: a recache fades the voice fast; otherwise its target
\* decays and follows the damper, but for a voice that fades already.
OpenBlock ==
  /\ block = "out" /\ active
  /\ block' = "opened"
  /\ \/ fading /\ UNCHANGED <<target, left, fading>>
     \/ ~fading /\ target' = 0 /\ fading' = TRUE /\ left' = FastRamp
     \/ ~fading /\ \E level \in 0..target : SetTargetGain(level)
  /\ UNCHANGED <<active, source, pos, inc, rd, gain, under>>

\* The frame is in memory; the last one of the buffer belongs to the window.
InMemory ==
  IF source = "full" THEN Frame < Total ELSE Frame < ResEnd - 1 /\ Cached > 1

Windows ==
  IF Seeded(rd) THEN {rd}
  ELSE LET open == Seed(rd, ResEnd - 1) IN {open} \cup Delivered(open)

\* The gain is nearer to its target, or there.
RampMoves ==
  /\ left' = IF left > 0 THEN left - 1 ELSE 0
  /\ gain' \in IF left <= 1 THEN {target}
               ELSE Least(gain, target) .. Most(gain, target)

\* At the end of the ring's file the last frame is held, and the window still
\* moves by one frame a sample.
Held(moved) ==
  IF ~(RingEmpty(moved, Frame) /\ moved.eof) THEN moved
  ELSE [moved EXCEPT !.hi = moved.lo, !.idx = @ + 1]

\* The position has passed the file, and the ring is empty for good.
PastEnd == pos + inc >= 2 * Total /\ rd'.eof /\ Available(rd') = 0

Survives == ~(PastEnd \/ under' = 0 \/ (fading /\ gain' = 0))

\* A sample behind the memory: the voice is over when the window it holds
\* reaches the end of the file, and fades when the ring is empty before that.
FromRing(window) ==
  LET moved == Advance(window, Frame)
      held == RingEmpty(moved, Frame) /\ moved.eof
      fade == IF RingEmpty(moved, Frame) /\ ~moved.eof /\ under = NoRamp
              THEN FastRamp ELSE under
  IN /\ rd' = Held(moved)
     /\ under' = IF fade > 0 THEN fade - 1 ELSE fade
     /\ active' = (Survives /\ ~(held /\ rd'.idx >= Total - 1))

PlaySample ==
  /\ block # "out" /\ block' = "played" /\ active
  /\ RampMoves
  /\ \/ InMemory /\ UNCHANGED <<rd, under>> /\ active' = Survives
     \/ /\ ~InMemory /\ rd.ring
        /\ \E window \in Windows : FromRing(window)
  /\ pos' = Least(pos + inc, LastPos)
  /\ UNCHANGED <<source, inc, target, fading>>

\* Behind the memory without a ring: the voice is over.
PlayPastMemory ==
  /\ block # "out" /\ block' = "played" /\ active /\ ~InMemory /\ ~rd.ring
  /\ active' = FALSE
  /\ UNCHANGED <<source, pos, inc, rd, gain, target, left, fading, under>>

CloseBlock ==
  /\ block = "played"
  /\ block' = "out"
  /\ rd' \in IF active /\ rd.ring THEN Refill(rd) ELSE {NoRing}
  /\ UNCHANGED <<active, source, pos, inc, gain, target, left, fading, under>>

Sample == PlaySample \/ PlayPastMemory

Worker ==
  /\ rd.ring /\ rd' \in Delivered(rd)
  /\ UNCHANGED <<active, source, pos, inc, gain, target, left, fading, under,
                 block>>

Next ==
  \/ \E from \in {"cache", "stream", "full"}, step \in Steps,
        level \in 1..Loudest : Start(from, step, level)
  \/ \E more \in 1..Loudest : AddExcitation(more)
  \/ FadeOut \/ HardStop
  \/ OpenBlock \/ Sample \/ CloseBlock \/ Worker

\* As for a main voice: the device calls for blocks.
Fairness == WF_vars(OpenBlock \/ Sample \/ CloseBlock)

Spec == Init /\ [][Next]_vars /\ Fairness
-----------------------------------------------------------------------------
TypeOK ==
  /\ {active, fading} \subseteq BOOLEAN /\ block \in {"out", "opened", "played"}
  /\ source \in {"cache", "stream", "full"}
  /\ pos \in 0..LastPos /\ inc \in Steps /\ rd \in Readers
  /\ {gain, target} \subseteq 0..Loudest /\ left \in 0..SlowRamp
  /\ under \in -1..FastRamp

\* A resonance that fades is on its way to silence, and no later block makes
\* the way longer: it cannot hang on just below the threshold that made it
\* fade (comment resonance_voice.cpp:116).
FadeRuns ==
  /\ [](active /\ fading => target = 0 /\ left > 0)
  /\ [][active /\ fading /\ active' => fading' /\ left' <= left]_vars

\* Behind the memory, until the ring runs empty, a sample lies between two
\* neighbouring frames of the file that are at most one frame late; past the
\* end, the last frame is held.
InPlace ==
  [][PlaySample /\ ~InMemory /\ under' = NoRamp =>
       /\ rd'.lo \in {Frame - 1, Frame, Total - 1}
       /\ rd'.hi \in {rd'.lo, rd'.lo + 1}]_vars

\* A resonance ends with its file, whatever the workers do.
VoiceEnds == active ~> ~active
=============================================================================
