------------------------------ MODULE MidiQueue ------------------------------
(***************************************************************************)
(* The queue of MIDI events (midi_queue.h): the MIDI callback, the GUI and *)
(* the main thread push, the audio thread pops.  A cell carries a sequence *)
(* number: pos when it is free for position pos, pos + 1 when the event of *)
(* position pos is in it.                                                  *)
(*                                                                         *)
(* One action is one access to shared memory.  An event is the producer    *)
(* and the number of its call.                                             *)
(*                                                                         *)
(* LookStuck, TakeUnpublished and FreeSameLap are faulty variants of the   *)
(* definitions that follow them.                                           *)
(***************************************************************************)
EXTENDS Integers, Sequences

CONSTANTS
  Producers,
  Size,       \* MIDI_Q_SIZE
  MaxEvents,  \* bound: calls of one producer
  None

\* With a single cell "free for the next lap" and "filled" are one number.
ASSUME QueueAssumption ==
  /\ Size \in Nat \ {0, 1}
  /\ MaxEvents \in Nat
  /\ None \notin Producers \X (1..MaxEvents)

VARIABLES
  seq, cell,    \* Cell::seq, Cell::e
  w, r,         \* w_, r_
  pc, pos,      \* a producer in push: where it is, its local pos
  sent,         \* the calls a producer has made
  cpc, out,     \* the audio thread in pop: where it is, what it copied
  heard         \* history: the events it has popped

prodVars == <<pc, pos, sent>>
consVars == <<cpc, out, heard>>
vars == <<seq, cell, w, r, prodVars, consVars>>

Cells == 0..(Size - 1)
At(k) == k % Size
Events == Producers \X (1..MaxEvents)

Init ==
  /\ seq = [i \in Cells |-> i]
  /\ cell = [i \in Cells |-> None]
  /\ w = 0 /\ r = 0
  /\ pc = [p \in Producers |-> "idle"]
  /\ pos = [p \in Producers |-> 0]
  /\ sent = [p \in Producers |-> 0]
  /\ cpc = "idle" /\ out = None
  /\ heard = <<>>

-----------------------------------------------------------------------------
(* push *)

Go(p, from, to) == pc[p] = from /\ pc' = [pc EXCEPT ![p] = to]

Push(p) ==
  /\ sent[p] < MaxEvents
  /\ Go(p, "idle", "look")
  /\ sent' = [sent EXCEPT ![p] = @ + 1]
  /\ pos' = [pos EXCEPT ![p] = w]
  /\ UNCHANGED <<seq, cell, w, r, consVars>>

LookStuck(p) ==
  LET s == seq[At(pos[p])] IN
  /\ s <= pos[p]
  /\ Go(p, "look", IF s = pos[p] THEN "claim" ELSE "idle")
  /\ UNCHANGED <<seq, cell, w, r, pos, sent, consVars>>

\* The cell at pos: free; of the lap before, so the queue is full and the
\* event is dropped; or somebody else's by now.
Look(p) ==
  LET s == seq[At(pos[p])] IN
  /\ \/ s = pos[p] /\ Go(p, "look", "claim") /\ UNCHANGED pos
     \/ s < pos[p] /\ Go(p, "look", "idle") /\ UNCHANGED pos
     \/ s > pos[p] /\ Go(p, "look", "look") /\ pos' = [pos EXCEPT ![p] = w]
  /\ UNCHANGED <<seq, cell, w, r, sent, consVars>>

\* compare_exchange_weak: claims the cell if w_ is still pos.
Claim(p) ==
  /\ w = pos[p]
  /\ Go(p, "claim", "write")
  /\ w' = w + 1
  /\ UNCHANGED <<seq, cell, r, pos, sent, consVars>>

\* It fails when w_ has moved, or for no reason, and reloads pos.
ClaimFails(p) ==
  /\ Go(p, "claim", "look")
  /\ pos' = [pos EXCEPT ![p] = w]
  /\ UNCHANGED <<seq, cell, w, r, sent, consVars>>

Write(p) ==
  /\ Go(p, "write", "publish")
  /\ cell' = [cell EXCEPT ![At(pos[p])] = <<p, sent[p]>>]
  /\ UNCHANGED <<seq, w, r, pos, sent, consVars>>

Publish(p) ==
  /\ Go(p, "publish", "idle")
  /\ seq' = [seq EXCEPT ![At(pos[p])] = pos[p] + 1]
  /\ UNCHANGED <<cell, w, r, pos, sent, consVars>>

-----------------------------------------------------------------------------
(* pop *)

TakeUnpublished ==
  /\ cpc = "idle" /\ w > r
  /\ cpc' = "copy"
  /\ UNCHANGED <<seq, cell, w, r, prodVars, out, heard>>

\* The first cell is published; otherwise pop returns false.
Take ==
  /\ cpc = "idle" /\ seq[At(r)] >= r + 1
  /\ cpc' = "copy"
  /\ UNCHANGED <<seq, cell, w, r, prodVars, out, heard>>

Copy ==
  /\ cpc = "copy"
  /\ cpc' = "free"
  /\ out' = cell[At(r)]
  /\ UNCHANGED <<seq, cell, w, r, prodVars, heard>>

FreeSameLap ==
  /\ cpc = "free"
  /\ cpc' = "idle"
  /\ seq' = [seq EXCEPT ![At(r)] = r + 1]
  /\ r' = r + 1
  /\ heard' = Append(heard, out)
  /\ UNCHANGED <<cell, w, prodVars, out>>

\* The cell is free for the next lap; only this thread knows r_.
Free ==
  /\ cpc = "free"
  /\ cpc' = "idle"
  /\ seq' = [seq EXCEPT ![At(r)] = r + Size]
  /\ r' = r + 1
  /\ heard' = Append(heard, out)
  /\ UNCHANGED <<cell, w, prodVars, out>>

Produce(p) ==
  Push(p) \/ Look(p) \/ Claim(p) \/ ClaimFails(p) \/ Write(p) \/ Publish(p)

Consume == Take \/ Copy \/ Free

Next == (\E p \in Producers : Produce(p)) \/ Consume

Spec == Init /\ [][Next]_vars

\* Threads run on; a weak compare-exchange that could succeed again and again
\* succeeds; the audio thread drains the queue in every block.
Fairness ==
  /\ \A p \in Producers :
       /\ WF_vars(Look(p)) /\ WF_vars(ClaimFails(p))
       /\ WF_vars(Write(p)) /\ WF_vars(Publish(p))
       /\ SF_vars(Claim(p))
  /\ WF_vars(Consume)

FairSpec == Spec /\ Fairness
-----------------------------------------------------------------------------
(* Properties. *)

Writers == {p \in Producers : pc[p] \in {"write", "publish"}}

TypeOK ==
  /\ seq \in [Cells -> Nat]
  /\ cell \in [Cells -> Events \cup {None}]
  /\ w \in Nat /\ r \in Nat
  /\ pc \in [Producers -> {"idle", "look", "claim", "write", "publish"}]
  /\ pos \in [Producers -> Nat]
  /\ sent \in [Producers -> 0..MaxEvents]
  /\ cpc \in {"idle", "copy", "free"}
  /\ out \in Events \cup {None}
  /\ heard \in Seq(Events)

\* midi_queue.h: producers never contend for one cell, and none writes the
\* cell the audio thread is copying (no torn event).
Exclusive ==
  /\ \A p, q \in Writers : At(pos[p]) = At(pos[q]) => p = q
  /\ cpc # "idle" => \A p \in Writers : At(pos[p]) # At(r)

\* The state of each cell of the window of positions that r_ opens.
WindowInv ==
  /\ r <= w /\ w <= r + Size
  /\ \A k \in r..(r + Size - 1) :
       IF k >= w THEN seq[At(k)] = k
       ELSE \/ /\ seq[At(k)] = k + 1
               /\ cell[At(k)] \in Events
            \/ /\ seq[At(k)] = k
               /\ \E p \in Writers : pos[p] = k

\* Where the producers are; one that found its cell free may still claim it.
ProducerInv ==
  /\ \A p \in Producers :
       /\ pos[p] <= w
       /\ pc[p] # "idle" => sent[p] > 0
       /\ pc[p] = "claim" => pos[p] < r + Size
       /\ pc[p] \in {"write", "publish"} =>
            /\ r <= pos[p] /\ pos[p] < w
            /\ seq[At(pos[p])] = pos[p]
       /\ pc[p] = "publish" => cell[At(pos[p])] = <<p, sent[p]>>
  /\ \A p, q \in Writers : pos[p] = pos[q] => p = q

ConsumerInv ==
  /\ cpc # "idle" => r < w /\ seq[At(r)] = r + 1
  /\ cpc = "free" => out = cell[At(r)]

\* The inductive invariant.
QueueInv == TypeOK /\ WindowInv /\ ProducerInv /\ ConsumerInv

-----------------------------------------------------------------------------
(* The queue as a line of places. *)

\* The producer that has claimed position k and not yet published.
Claimant(k) == CHOOSE p \in Writers : pos[p] = k

Place(k) ==
  IF seq[At(k)] = k + 1
  THEN [from |-> cell[At(k)][1], nr |-> cell[At(k)][2], ready |-> TRUE]
  ELSE [from |-> Claimant(k), nr |-> sent[Claimant(k)], ready |-> FALSE]

line == [i \in 1..(w - r) |-> Place(r + i - 1)]

answered == [p \in Producers |->
               IF pc[p] \in {"look", "claim"} THEN sent[p] - 1 ELSE sent[p]]

Fifo == INSTANCE BoundedFifo

\* The queue is a bounded FIFO: the events of a producer are heard in the
\* order of its calls, each at most once and unmixed, and a call is refused
\* only when all places are taken.
KeepsLine == Fifo!FifoSpec

Heard(e) == \E i \in 1..Len(heard) : heard[i] = e
InLine(e) == \E i \in 1..Len(line) : <<line[i].from, line[i].nr>> = e

\* Every call of push ends, and an event that got a place is heard: a producer
\* that is slow to publish holds the others back, but not for good.
Arrives ==
  \A e \in Events :
    sent[e[1]] >= e[2] ~> Heard(e) \/ (answered[e[1]] >= e[2] /\ ~InLine(e))
=============================================================================
