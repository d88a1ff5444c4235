------------------------------ MODULE PcmChannel ------------------------------
(***************************************************************************)
(* What streaming promises to a voice, without rings, requests, workers or *)
(* generations: a private bounded line that delivers the frames of the     *)
(* voice's file one after the other, from the first on, and never more     *)
(* than the file has.  A line may be cut at any time (steal, fade).        *)
(***************************************************************************)
EXTENDS Integers, Sequences

CONSTANTS Lines, Capacity, Lengths

VARIABLES
  open,    \* whether the line is connected to a file
  size,    \* frames the file has
  sent,    \* frames put on the line so far
  line     \* file positions of the frames on the line

vars == <<open, size, sent, line>>

Init ==
  /\ open = [l \in Lines |-> FALSE]
  /\ size = [l \in Lines |-> 0]
  /\ sent = [l \in Lines |-> 0]
  /\ line = [l \in Lines |-> <<>>]

Connect(l, n) ==
  /\ ~open[l]
  /\ open' = [open EXCEPT ![l] = TRUE]
  /\ size' = [size EXCEPT ![l] = n]
  /\ sent' = [sent EXCEPT ![l] = 0]
  /\ line' = [line EXCEPT ![l] = <<>>]

\* The next n frames of the file, as a whole.
Deliver(l, n) ==
  /\ open[l]
  /\ Len(line[l]) + n <= Capacity
  /\ sent[l] + n <= size[l]
  /\ line' = [line EXCEPT ![l] = @ \o [i \in 1..n |-> sent[l] + i - 1]]
  /\ sent' = [sent EXCEPT ![l] = @ + n]
  /\ UNCHANGED <<open, size>>

Hear(l) ==
  /\ open[l] /\ line[l] # <<>>
  /\ line' = [line EXCEPT ![l] = Tail(@)]
  /\ UNCHANGED <<open, size, sent>>

Cut(l) ==
  /\ open[l]
  /\ open' = [open EXCEPT ![l] = FALSE]
  /\ size' = [size EXCEPT ![l] = 0]
  /\ sent' = [sent EXCEPT ![l] = 0]
  /\ line' = [line EXCEPT ![l] = <<>>]

Next ==
  \E l \in Lines :
    \/ \E n \in Lengths : Connect(l, n)
    \/ \E n \in 1..Capacity : Deliver(l, n)
    \/ Hear(l)
    \/ Cut(l)

Spec == Init /\ [][Next]_vars
=============================================================================
