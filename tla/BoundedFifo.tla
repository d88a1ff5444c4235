----------------------------- MODULE BoundedFifo -----------------------------
(***************************************************************************)
(* What the MIDI queue promises: a line of at most Size places.  A sender  *)
(* takes the last place, then fills it; the listener hears the first place *)
(* once it is filled.  A call is refused only when every place is taken.   *)
(***************************************************************************)
EXTENDS Integers, Sequences

CONSTANTS Producers, Size, MaxEvents

VARIABLES
  line,      \* the places taken: whose call, its number, whether it is filled
  answered,  \* the number of calls of a producer that got a place or a refusal
  heard      \* what the listener has heard

fifoVars == <<line, answered, heard>>

Filling(p) == \E i \in 1..Len(line) : line[i].from = p /\ ~line[i].ready

FifoInit ==
  /\ line = <<>>
  /\ answered = [p \in Producers |-> 0]
  /\ heard = <<>>

Answer(p) ==
  /\ answered[p] < MaxEvents
  /\ answered' = [answered EXCEPT ![p] = @ + 1]

TakePlace(p) ==
  /\ ~Filling(p) /\ Len(line) < Size
  /\ Answer(p)
  /\ line' = Append(line, [from |-> p, nr |-> answered[p] + 1, ready |-> FALSE])
  /\ UNCHANGED heard

Refuse(p) ==
  /\ ~Filling(p) /\ Len(line) = Size
  /\ Answer(p)
  /\ UNCHANGED <<line, heard>>

Fill(i) ==
  /\ ~line[i].ready
  /\ line' = [line EXCEPT ![i].ready = TRUE]
  /\ UNCHANGED <<answered, heard>>

Hear ==
  /\ line # <<>> /\ line[1].ready
  /\ heard' = Append(heard, <<line[1].from, line[1].nr>>)
  /\ line' = Tail(line)
  /\ UNCHANGED answered

FifoNext ==
  \/ \E p \in Producers : TakePlace(p) \/ Refuse(p)
  \/ \E i \in 1..Len(line) : Fill(i)
  \/ Hear

FifoSpec == FifoInit /\ [][FifoNext]_fifoVars
=============================================================================
