----------------------------- MODULE SampleReader -----------------------------
(***************************************************************************)
(* StreamedSampleReader as its voices see it (streamed_reader.cpp): the    *)
(* window of two frames between which a voice interpolates, fed from a     *)
(* ring.  A frame is its number in the file, so that the window shows      *)
(* which part of the file is heard; -1 is the unseeded index.  A reader is *)
(* a record:                                                               *)
(*   ring       it holds a ring            off   file_request_off_         *)
(*   pend       stream_pending_            r, w  first frame not yet       *)
(*   c          read cursor as committed         popped, not yet written   *)
(*   idx, lo, hi   ring_lo_idx_ and the frames of the window               *)
(*   eof        the ring's end mark                                        *)
(*                                                                         *)
(* The worker's side of the ring is StreamEngine's; here it writes what    *)
(* was asked for, in order and at any time, or never.                      *)
(***************************************************************************)
EXTENDS Integers

CONSTANTS
  Total,      \* frames of the file
  Capacity,   \* frames of the ring
  Threshold   \* refill threshold

NoRing == [ring |-> FALSE, off |-> 0, pend |-> FALSE, r |-> 0, w |-> 0,
           c |-> 0, idx |-> -1, lo |-> 0, hi |-> 0, eof |-> FALSE]

Least(a, b) == IF a < b THEN a ELSE b

\* Whatever is asked for, the queue of requests may be full: then the offset
\* stays, and refill repeats the request.
Asked(rd, want) ==
  {rd} \cup (IF want > 0 THEN {[rd EXCEPT !.off = @ + want, !.pend = TRUE]}
             ELSE {})

\* begin: a ring, unless the pool is empty, and the first request.
Begin(first) ==
  {NoRing} \cup Asked([NoRing EXCEPT !.ring = TRUE, !.off = first, !.r = first,
                                     !.w = first, !.c = first],
                      Least(Capacity, Total - first))

\* beginEofOnly: nothing follows the buffer.
BeginEofOnly(first) ==
  {NoRing, [NoRing EXCEPT !.ring = TRUE, !.off = first, !.r = first,
                          !.w = first, !.c = first, !.eof = TRUE]}

Seeded(rd) == rd.idx # -1
Available(rd) == rd.w - rd.r

\* The window opens on the last frame in memory and the ring's first; without
\* one, the second is a copy of the first.
Seed(rd, last) ==
  LET open == [rd EXCEPT !.idx = last, !.lo = last, !.hi = last]
  IN IF Available(rd) > 0 THEN [open EXCEPT !.hi = rd.r, !.r = @ + 1] ELSE open

\* A faulty advance, which counts the move that failed.
AdvanceBlindly(rd, target) ==
  LET k == target - rd.idx
  IN IF k <= 0 THEN rd
     ELSE IF k <= Available(rd)
     THEN [rd EXCEPT !.idx = target, !.r = @ + k, !.hi = rd.r + k - 1,
                     !.lo = IF k = 1 THEN rd.hi ELSE rd.r + k - 2]
     ELSE LET last == IF Available(rd) = 0 THEN rd.hi ELSE rd.w - 1
          IN [rd EXCEPT !.idx = @ + Available(rd) + 1, !.r = rd.w,
                        !.lo = last, !.hi = last]

\* advance: the window moves frame by frame to the target, or as far as the
\* ring holds; the failing move has overwritten lo by hi, but not counted.
Advance(rd, target) ==
  LET k == target - rd.idx
  IN IF k <= 0 THEN rd
     ELSE IF k <= Available(rd)
     THEN [rd EXCEPT !.idx = target, !.r = @ + k, !.hi = rd.r + k - 1,
                     !.lo = IF k = 1 THEN rd.hi ELSE rd.r + k - 2]
     ELSE LET last == IF Available(rd) = 0 THEN rd.hi ELSE rd.w - 1
          IN [rd EXCEPT !.idx = @ + Available(rd), !.r = rd.w,
                        !.lo = last, !.hi = last]

\* The advance came to an empty ring.
RingEmpty(rd, target) == rd.idx < target

\* The block is over: the cursor is committed, and refill asks for what fits.
Refill(rd) ==
  LET seen == [rd EXCEPT !.c = rd.r,
                         !.pend = @ /\ Available(rd) < Capacity \div 2]
  IN IF ~seen.pend /\ Available(rd) < Threshold
     THEN Asked(seen, Least(Capacity - Available(rd), Total - rd.off))
     ELSE {seen}

\* External to the reader: the worker publishes frames it was asked for.
Delivered(rd) ==
  {[rd EXCEPT !.w = k, !.eof = @ \/ k = Total] :
     k \in rd.w + 1 .. Least(rd.off, rd.c + Capacity)}

Readers ==
  [ring : BOOLEAN, off : 0..Total, pend : BOOLEAN, r : 0..Total, w : 0..Total,
   c : 0..Total, idx : -1..Total, lo : 0..Total, hi : 0..Total, eof : BOOLEAN]
=============================================================================
