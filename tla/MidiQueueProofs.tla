--------------------------- MODULE MidiQueueProofs ---------------------------
(***************************************************************************)
(* Proofs about the MIDI queue, for any number of producers and calls and  *)
(* any size of two or more: no two threads ever touch one cell at a time,  *)
(* and the queue is a bounded FIFO.                                        *)
(***************************************************************************)
EXTENDS MidiQueue, SequenceTheorems, TLAPS

-----------------------------------------------------------------------------
(* Positions and cells. *)

LEMMA ModRange ==
  ASSUME NEW n \in Nat \ {0}, NEW k \in Nat
  PROVE  k % n \in 0..(n - 1)
  OBVIOUS

LEMMA DivMod ==
  ASSUME NEW n \in Nat \ {0}, NEW k \in Nat
  PROVE  k = n * (k \div n) + (k % n) /\ k \div n \in Int
  OBVIOUS

LEMMA SmallMultiple ==
  ASSUME NEW n \in Nat \ {0}, NEW d \in Int, n * d < n, 0 - n < n * d
  PROVE  d = 0
  OBVIOUS

\* Two positions less than a lap apart that share a cell are the same.
LEMMA SameCell ==
  ASSUME NEW a \in Nat, NEW b \in Nat, At(a) = At(b), a < b + Size, b < a + Size
  PROVE  a = b
<1> USE QueueAssumption
<1>1. PICK x \in Int, y \in Int, c \in 0..(Size - 1) :
        a = Size * x + c /\ b = Size * y + c
  <2>1. PICK x \in Int, c \in 0..(Size - 1) : a = Size * x + c /\ c = a % Size
    BY DivMod, ModRange
  <2>2. PICK y \in Int : b = Size * y + (b % Size)
    BY DivMod
  <2> QED
    BY <2>1, <2>2 DEF At
<1>2. Size * (x - y) = a - b
  BY <1>1
<1>3. x - y = 0
  BY <1>1, <1>2, SmallMultiple
<1>4. a - b = Size * 0
  BY <1>2, <1>3
<1> QED
  BY <1>4

\* A lap further the cell is the same.
LEMMA NextLap ==
  ASSUME NEW k \in Nat
  PROVE  At(k + Size) = At(k) /\ At(k) \in Cells
<1> USE QueueAssumption
<1>1. PICK x \in Int, c \in 0..(Size - 1) : k = Size * x + c /\ c = k % Size
  BY DivMod, ModRange
<1>2. PICK y \in Int, d \in 0..(Size - 1) :
        k + Size = Size * y + d /\ d = (k + Size) % Size
  <2>1. k + Size \in Nat
    OBVIOUS
  <2> QED
    BY <2>1, DivMod, ModRange
<1>3. Size * (y - x - 1) = c - d
  BY <1>1, <1>2
<1>4. y - x - 1 = 0
  BY <1>1, <1>2, <1>3, SmallMultiple
<1>5. c - d = Size * 0
  BY <1>3, <1>4
<1>6. c = d
  BY <1>5
<1> QED
  BY <1>1, <1>2, <1>6 DEF At, Cells

\* The positions of the first lap are the cells.
LEMMA FirstLap ==
  ASSUME NEW k \in 0..(Size - 1)
  PROVE  At(k) = k
<1> USE QueueAssumption
<1>1. k \in Nat
  OBVIOUS
<1>2. PICK x \in Int, c \in 0..(Size - 1) : k = Size * x + c /\ c = k % Size
  BY <1>1, DivMod, ModRange
<1>3. Size * x = k - c
  <2>1. ASSUME NEW y \in Int, k = y + c
        PROVE  y = k - c
    BY <1>1, <2>1
  <2> QED
    BY <1>2, <2>1
<1>4. x = 0
  <2>1. k - c < Size /\ 0 - Size < k - c
    BY <1>1
  <2> QED
    BY <1>2, <1>3, <2>1, SmallMultiple
<1>5. k - c = Size * 0
  BY <1>3, <1>4
<1> QED
  BY <1>1, <1>2, <1>5 DEF At

\* Every position before the window shares its cell with one in the window.
LEMMA WindowCovers ==
  ASSUME NEW k \in Nat, NEW b \in Nat, k < b
  PROVE  \E j \in b..(b + Size - 1) : At(j) = At(k)
<1> USE QueueAssumption
<1>1. PICK x \in Int, c \in 0..(Size - 1) : k = Size * x + c /\ c = k % Size
  BY DivMod, ModRange
<1>2. PICK y \in Int, d \in 0..(Size - 1) : b = Size * y + d
  BY DivMod, ModRange
<1>3. PICK z \in {y, y + 1} : Size * z + c \in b..(b + Size - 1)
  <2>1. CASE c >= d
    BY <1>2, <2>1
  <2>2. CASE c < d
    <3>1. Size * (y + 1) = Size * y + Size
      BY <1>2
    <3> QED
      BY <1>2, <2>2, <3>1
  <2> QED
    BY <2>1, <2>2
<1>4. (Size * z + c) % Size = c
  <2>1. Size * z + c \in Nat
    BY <1>3
  <2>2. PICK u \in Int, e \in 0..(Size - 1) :
          Size * z + c = Size * u + e /\ e = (Size * z + c) % Size
    BY <2>1, DivMod, ModRange
  <2>3. Size * (u - z) = c - e
    BY <1>3, <2>2
  <2>4. u - z = 0
    BY <1>3, <2>2, <2>3, SmallMultiple
  <2>5. c - e = Size * 0
    BY <2>3, <2>4
  <2> QED
    BY <2>2, <2>5
<1> QED
  BY <1>1, <1>3, <1>4 DEF At

-----------------------------------------------------------------------------
(* The inductive invariant. *)

\* What a producer in the window owns: its cell is in no other position.
LEMMA Apart ==
  ASSUME QueueInv, NEW j \in r..(r + Size - 1), NEW k \in r..(r + Size - 1),
         At(j) = At(k)
  PROVE  j = k
<1>1. r \in Nat /\ Size \in Nat
  BY QueueAssumption DEF QueueInv, TypeOK
<1>2. j \in Nat /\ k \in Nat /\ j < k + Size /\ k < j + Size
  BY <1>1
<1> QED
  BY <1>2, SameCell

\* A step of producer p that touches no cell and claims none.
LEMMA LocalStep ==
  ASSUME QueueInv, NEW p \in Producers,
         UNCHANGED <<seq, cell, w, r, consVars>>,
         pc[p] \in {"idle", "look", "claim"},
         NEW to \in {"idle", "look", "claim"},
         NEW at \in Nat, at <= w,
         NEW calls \in 0..MaxEvents,
         pc' = [pc EXCEPT ![p] = to],
         pos' = [pos EXCEPT ![p] = at],
         sent' = [sent EXCEPT ![p] = calls],
         to # "idle" => calls > 0,
         to = "claim" => at < r + Size
  PROVE  QueueInv'
<1>0. TypeOK /\ WindowInv /\ ProducerInv /\ ConsumerInv
  BY DEF QueueInv
<1>1. TypeOK'
  BY <1>0 DEF TypeOK, consVars
<1>2. \A q \in Producers :
        /\ q # p => pc'[q] = pc[q] /\ pos'[q] = pos[q] /\ sent'[q] = sent[q]
        /\ pc'[p] = to /\ pos'[p] = at /\ sent'[p] = calls
  BY <1>0 DEF TypeOK
<1>3. Writers' = Writers /\ \A q \in Writers : pos'[q] = pos[q] /\ q # p
  BY <1>2 DEF Writers
<1>4. WindowInv'
  BY <1>0, <1>3 DEF WindowInv
<1>5. ProducerInv'
  BY <1>0, <1>2, <1>3 DEF ProducerInv
<1>6. ConsumerInv'
  BY <1>0 DEF ConsumerInv, consVars
<1> QED
  BY <1>1, <1>4, <1>5, <1>6 DEF QueueInv

\* A producer that finds the cell of its position free is within the window.
LEMMA FoundFree ==
  ASSUME QueueInv, NEW p \in Producers, seq[At(pos[p])] = pos[p]
  PROVE  pos[p] < r + Size
<1>0. /\ pos[p] \in Nat /\ w \in Nat /\ r \in Nat /\ pos[p] <= w
      /\ w <= r + Size /\ r <= w
      /\ Size \in Nat /\ Size > 1
  BY QueueAssumption DEF QueueInv, TypeOK, ProducerInv, WindowInv
<1> SUFFICES ASSUME pos[p] = r + Size PROVE FALSE
  BY <1>0
<1>1. At(pos[p]) = At(r)
  BY <1>0, NextLap
<1>2. w > r /\ r \in r..(r + Size - 1)
  BY <1>0
<1>3. seq[At(r)] = r \/ seq[At(r)] = r + 1
  BY <1>0, <1>2 DEF QueueInv, WindowInv
<1> QED
  BY <1>0, <1>1, <1>3

LEMMA PushKeeps ==
  ASSUME QueueInv, NEW p \in Producers, Push(p)
  PROVE  QueueInv'
<1>1. /\ w \in Nat /\ w <= w /\ sent[p] + 1 \in 0..MaxEvents /\ sent[p] + 1 > 0
      /\ pc[p] = "idle"
  BY QueueAssumption DEF QueueInv, TypeOK, Push, Go
<1>2. /\ UNCHANGED <<seq, cell, w, r, consVars>>
      /\ pc' = [pc EXCEPT ![p] = "look"]
      /\ pos' = [pos EXCEPT ![p] = w]
      /\ sent' = [sent EXCEPT ![p] = sent[p] + 1]
  BY DEF Push, Go
<1> QED
  BY <1>1, <1>2, LocalStep

LEMMA LookKeeps ==
  ASSUME QueueInv, NEW p \in Producers, Look(p) \/ ClaimFails(p)
  PROVE  QueueInv'
<1>1. /\ w \in Nat /\ pos[p] \in Nat /\ pos[p] <= w /\ w <= w
      /\ sent[p] \in 0..MaxEvents
      /\ pos = [pos EXCEPT ![p] = pos[p]]
      /\ sent = [sent EXCEPT ![p] = sent[p]]
  BY DEF QueueInv, TypeOK, ProducerInv
<1>2. /\ UNCHANGED <<seq, cell, w, r, consVars>>
      /\ sent' = [sent EXCEPT ![p] = sent[p]]
      /\ pc[p] \in {"look", "claim"}
      /\ sent[p] > 0
  BY <1>1 DEF Look, ClaimFails, Go, QueueInv, ProducerInv
<1>3. CASE /\ pc' = [pc EXCEPT ![p] = "claim"]
           /\ pos' = [pos EXCEPT ![p] = pos[p]]
           /\ seq[At(pos[p])] = pos[p]
  BY <1>1, <1>2, <1>3, LocalStep, FoundFree
<1>4. CASE /\ pc' = [pc EXCEPT ![p] = "idle"]
           /\ pos' = [pos EXCEPT ![p] = pos[p]]
  BY <1>1, <1>2, <1>4, LocalStep
<1>5. CASE /\ pc' = [pc EXCEPT ![p] = "look"]
           /\ pos' = [pos EXCEPT ![p] = w]
  BY <1>1, <1>2, <1>5, LocalStep
<1> QED
  BY <1>1, <1>3, <1>4, <1>5 DEF Look, ClaimFails, Go

LEMMA ClaimKeeps ==
  ASSUME QueueInv, NEW p \in Producers, Claim(p)
  PROVE  QueueInv'
<1>0. TypeOK /\ WindowInv /\ ProducerInv /\ ConsumerInv
  BY DEF QueueInv
<1>1. /\ w = pos[p] /\ pc[p] = "claim" /\ w < r + Size /\ sent[p] > 0
      /\ pc' = [pc EXCEPT ![p] = "write"] /\ w' = w + 1
      /\ UNCHANGED <<seq, cell, r, pos, sent, consVars>>
      /\ w \in Nat /\ r \in Nat /\ Size \in Nat /\ r <= w
  BY <1>0, QueueAssumption DEF Claim, Go, ProducerInv, TypeOK, WindowInv
<1>2. TypeOK'
  BY <1>0, <1>1 DEF TypeOK, consVars
<1>3. /\ pc'[p] = "write"
      /\ \A q \in Producers : q # p => pc'[q] = pc[q]
      /\ Writers' = Writers \cup {p} /\ p \notin Writers
  BY <1>0, <1>1 DEF TypeOK, Writers
<1>4. seq[At(w)] = w
  BY <1>0, <1>1 DEF WindowInv
<1>5. WindowInv'
  <2>1. r <= w' /\ w' <= r + Size
    BY <1>1
  <2>2. ASSUME NEW k \in r..(r + Size - 1)
        PROVE  IF k >= w' THEN seq[At(k)] = k
               ELSE \/ /\ seq[At(k)] = k + 1
                       /\ cell[At(k)] \in Events
                    \/ /\ seq[At(k)] = k
                       /\ \E q \in Writers' : pos[q] = k
    <3>1. CASE k = w
      BY <1>1, <1>3, <1>4, <3>1
    <3>2. CASE k # w
      BY <1>0, <1>1, <1>3, <3>2 DEF WindowInv
    <3> QED
      BY <3>1, <3>2
  <2> QED
    BY <1>1, <2>1, <2>2 DEF WindowInv
<1>6. ProducerInv'
  <2>1. ASSUME NEW q \in Producers
        PROVE  /\ pos[q] <= w'
               /\ pc'[q] # "idle" => sent[q] > 0
               /\ pc'[q] = "claim" => pos[q] < r + Size
               /\ pc'[q] \in {"write", "publish"} =>
                    /\ r <= pos[q] /\ pos[q] < w'
                    /\ seq[At(pos[q])] = pos[q]
               /\ pc'[q] = "publish" => cell[At(pos[q])] = <<q, sent[q]>>
    <3>1. CASE q = p
      BY <1>1, <1>3, <1>4, <3>1
    <3>2. CASE q # p
      <4>1. pos[q] <= w /\ pos[q] \in Nat
        BY <1>0 DEF ProducerInv, TypeOK
      <4>2. pos[q] <= w'
        BY <1>1, <4>1
      <4> QED
        BY <1>0, <1>1, <1>3, <3>2, <4>1, <4>2 DEF ProducerInv
    <3> QED
      BY <3>1, <3>2
  <2>2. \A q \in Writers : pos[q] < w /\ pos[q] \in Nat
    BY <1>0 DEF ProducerInv, Writers, TypeOK
  <2>3. \A q, s \in Writers' : pos[q] = pos[s] => q = s
    BY <1>0, <1>1, <1>3, <2>2 DEF ProducerInv
  <2> QED
    BY <1>1, <2>1, <2>3 DEF ProducerInv
<1>7. ConsumerInv'
  BY <1>0, <1>1 DEF ConsumerInv, consVars
<1> QED
  BY <1>2, <1>5, <1>6, <1>7 DEF QueueInv

LEMMA WriteKeeps ==
  ASSUME QueueInv, NEW p \in Producers, Write(p)
  PROVE  QueueInv'
<1>0. TypeOK /\ WindowInv /\ ProducerInv /\ ConsumerInv
  BY DEF QueueInv
<1> DEFINE here == At(pos[p])
<1>1. /\ pc[p] = "write" /\ pc' = [pc EXCEPT ![p] = "publish"]
      /\ cell' = [cell EXCEPT ![here] = <<p, sent[p]>>]
      /\ UNCHANGED <<seq, w, r, pos, sent, cpc, out, heard>>
  BY DEF Write, Go, consVars
<1>2. /\ pos[p] \in Nat /\ r \in Nat /\ w \in Nat /\ Size \in Nat
      /\ r <= pos[p] /\ pos[p] < w /\ w <= r + Size
      /\ pos[p] \in r..(r + Size - 1)
      /\ seq[here] = pos[p] /\ sent[p] \in 1..MaxEvents
      /\ here \in Cells
  <2>1. pos[p] \in Nat /\ r \in Nat /\ w \in Nat /\ Size \in Nat
    BY <1>0, QueueAssumption DEF TypeOK
  <2>2. /\ r <= pos[p] /\ pos[p] < w /\ w <= r + Size
        /\ seq[here] = pos[p]
    BY <1>0, <1>1 DEF ProducerInv, WindowInv
  <2>3. sent[p] \in 1..MaxEvents
    <3>1. sent[p] > 0
      BY <1>0, <1>1 DEF ProducerInv
    <3>2. sent[p] \in 0..MaxEvents
      BY <1>0 DEF TypeOK
    <3> QED
      BY <3>1, <3>2, QueueAssumption
  <2>4. here \in Cells
    BY <2>1, NextLap
  <2> HIDE DEF here
  <2> QED
    BY <2>1, <2>2, <2>3, <2>4
<1>3. /\ pc'[p] = "publish"
      /\ \A q \in Producers : q # p => pc'[q] = pc[q]
      /\ Writers' = Writers /\ p \in Writers
  BY <1>0, <1>1 DEF TypeOK, Writers
<1>4. /\ cell'[here] = <<p, sent[p]>> /\ <<p, sent[p]>> \in Events
      /\ \A i \in Cells : i # here => cell'[i] = cell[i]
  BY <1>0, <1>1, <1>2 DEF TypeOK, Events
<1> HIDE DEF here
<1>5. TypeOK'
  BY <1>0, <1>1, <1>4 DEF TypeOK
<1>6. \A k \in Nat : At(k) \in Cells
  BY NextLap
<1>7. WindowInv'
  BY <1>0, <1>1, <1>2, <1>3, <1>4, <1>6 DEF WindowInv
<1>8. ProducerInv'
  <2>1. ASSUME NEW q \in Producers, pc'[q] = "publish"
        PROVE  cell'[At(pos[q])] = <<q, sent[q]>>
    <3>1. CASE q = p
      BY <1>4, <3>1 DEF here
    <3>2. CASE q # p
      <4>1. /\ pc[q] = "publish" /\ q \in Writers
            /\ pos[q] \in Nat /\ r <= pos[q] /\ pos[q] < w
            /\ cell[At(pos[q])] = <<q, sent[q]>>
        BY <1>0, <1>3, <2>1, <3>2 DEF ProducerInv, Writers, TypeOK
      <4>2. pos[q] # pos[p]
        BY <1>0, <1>3, <3>2, <4>1 DEF ProducerInv
      <4>3. At(pos[q]) # here
        BY <1>2, <4>1, <4>2, Apart DEF here
      <4> QED
        BY <1>4, <1>6, <4>1, <4>3
    <3> QED
      BY <3>1, <3>2
  <2> QED
    BY <1>0, <1>1, <1>3, <2>1 DEF ProducerInv
<1>9. ConsumerInv'
  <2>1. CASE cpc = "idle"
    BY <1>1, <2>1 DEF ConsumerInv
  <2>2. CASE cpc # "idle"
    <3>1. r \in Nat /\ At(r) \in Cells /\ At(r) # here
      <4>1. seq[At(r)] = r + 1 /\ r \in r..(r + Size - 1)
        BY <1>0, <1>2, <2>2 DEF ConsumerInv
      <4>2. At(r) = here => r = pos[p]
        BY <1>2, <4>1, Apart DEF here
      <4> QED
        BY <1>2, <1>6, <4>1, <4>2
    <3> QED
      BY <1>0, <1>1, <1>4, <3>1 DEF ConsumerInv
  <2> QED
    BY <2>1, <2>2
<1> QED
  BY <1>5, <1>7, <1>8, <1>9 DEF QueueInv

LEMMA PublishKeeps ==
  ASSUME QueueInv, NEW p \in Producers, Publish(p)
  PROVE  QueueInv'
<1>0. TypeOK /\ WindowInv /\ ProducerInv /\ ConsumerInv
  BY DEF QueueInv
<1> DEFINE here == At(pos[p])
<1>1. /\ pc[p] = "publish" /\ pc' = [pc EXCEPT ![p] = "idle"]
      /\ seq' = [seq EXCEPT ![here] = pos[p] + 1]
      /\ UNCHANGED <<cell, w, r, pos, sent, cpc, out, heard>>
  BY DEF Publish, Go, consVars
<1>2. /\ pos[p] \in Nat /\ r \in Nat /\ w \in Nat /\ Size \in Nat
      /\ r <= pos[p] /\ pos[p] < w /\ w <= r + Size
      /\ pos[p] \in r..(r + Size - 1)
      /\ seq[here] = pos[p] /\ cell[here] = <<p, sent[p]>>
      /\ <<p, sent[p]>> \in Events
      /\ here \in Cells
  <2>1. pos[p] \in Nat /\ r \in Nat /\ w \in Nat /\ Size \in Nat
    BY <1>0, QueueAssumption DEF TypeOK
  <2>2. /\ r <= pos[p] /\ pos[p] < w /\ w <= r + Size
        /\ seq[here] = pos[p] /\ cell[here] = <<p, sent[p]>>
    BY <1>0, <1>1 DEF ProducerInv, WindowInv
  <2>3. <<p, sent[p]>> \in Events
    <3>1. sent[p] > 0
      BY <1>0, <1>1 DEF ProducerInv
    <3>2. sent[p] \in 0..MaxEvents
      BY <1>0 DEF TypeOK
    <3>3. sent[p] \in 1..MaxEvents
      BY <3>1, <3>2, QueueAssumption
    <3> QED
      BY <3>3 DEF Events
  <2>4. here \in Cells
    BY <2>1, NextLap
  <2> HIDE DEF here
  <2> QED
    BY <2>1, <2>2, <2>3, <2>4
<1>3. /\ pc'[p] = "idle"
      /\ \A q \in Producers : q # p => pc'[q] = pc[q]
      /\ Writers' = Writers \ {p} /\ p \in Writers
  BY <1>0, <1>1 DEF TypeOK, Writers
<1>4. /\ seq'[here] = pos[p] + 1
      /\ \A i \in Cells : i # here => seq'[i] = seq[i]
  BY <1>0, <1>1, <1>2 DEF TypeOK
<1> HIDE DEF here
<1>5. TypeOK'
  BY <1>0, <1>1, <1>2 DEF TypeOK
<1>6. \A k \in Nat : At(k) \in Cells
  BY NextLap
<1>7. WindowInv'
  <2>1. ASSUME NEW k \in r..(r + Size - 1)
        PROVE  IF k >= w THEN seq'[At(k)] = k
               ELSE \/ /\ seq'[At(k)] = k + 1
                       /\ cell[At(k)] \in Events
                    \/ /\ seq'[At(k)] = k
                       /\ \E q \in Writers' : pos[q] = k
    <3>1. CASE k = pos[p]
      BY <1>2, <1>4, <3>1 DEF here
    <3>2. CASE k # pos[p]
      <4>1. At(k) # here /\ At(k) \in Cells
        BY <1>2, <1>6, <3>2, Apart DEF here
      <4>2. seq'[At(k)] = seq[At(k)]
        BY <1>4, <4>1
      <4> QED
        BY <1>0, <1>3, <3>2, <4>2 DEF WindowInv
    <3> QED
      BY <3>1, <3>2
  <2> QED
    BY <1>0, <1>1, <2>1 DEF WindowInv
<1>8. ProducerInv'
  <2>1. ASSUME NEW q \in Writers'
        PROVE  seq'[At(pos[q])] = pos[q]
    <3>1. /\ q \in Writers /\ q # p
          /\ pos[q] \in Nat /\ r <= pos[q] /\ pos[q] < w
          /\ seq[At(pos[q])] = pos[q]
      BY <1>0, <1>3, <2>1 DEF ProducerInv, Writers, TypeOK
    <3>2. pos[q] # pos[p]
      BY <1>0, <1>3, <3>1 DEF ProducerInv
    <3>3. At(pos[q]) # here
      BY <1>2, <3>1, <3>2, Apart DEF here
    <3> QED
      BY <1>4, <1>6, <3>1, <3>3
  <2>2. \A q \in Producers :
          /\ pos[q] <= w
          /\ pc'[q] # "idle" => sent[q] > 0
          /\ pc'[q] = "claim" => pos[q] < r + Size
          /\ pc'[q] \in {"write", "publish"} => r <= pos[q] /\ pos[q] < w
          /\ pc'[q] = "publish" => cell[At(pos[q])] = <<q, sent[q]>>
    BY <1>0, <1>3 DEF ProducerInv
  <2>3. \A q, s \in Writers' : pos[q] = pos[s] => q = s
    BY <1>0, <1>3 DEF ProducerInv
  <2> QED
    BY <1>1, <2>1, <2>2, <2>3 DEF ProducerInv, Writers
<1>9. ConsumerInv'
  <2>1. CASE cpc = "idle"
    BY <1>1, <2>1 DEF ConsumerInv
  <2>2. CASE cpc # "idle"
    <3>1. r \in Nat /\ At(r) \in Cells /\ At(r) # here
      <4>1. seq[At(r)] = r + 1 /\ r \in r..(r + Size - 1)
        BY <1>0, <1>2, <2>2 DEF ConsumerInv
      <4>2. At(r) = here => r = pos[p]
        BY <1>2, <4>1, Apart DEF here
      <4> QED
        BY <1>2, <1>6, <4>1, <4>2
    <3> QED
      BY <1>0, <1>1, <1>4, <3>1 DEF ConsumerInv
  <2> QED
    BY <2>1, <2>2
<1> QED
  BY <1>5, <1>7, <1>8, <1>9 DEF QueueInv

LEMMA TakeCopyKeeps ==
  ASSUME QueueInv, Take \/ Copy
  PROVE  QueueInv'
<1>0. TypeOK /\ WindowInv /\ ProducerInv /\ ConsumerInv
  BY DEF QueueInv
<1>1. /\ UNCHANGED <<seq, cell, w, r, pc, pos, sent, heard>>
      /\ r \in Nat /\ w \in Nat /\ Size \in Nat /\ Size > 1
  BY <1>0, QueueAssumption DEF Take, Copy, prodVars, TypeOK
<1>2. Writers' = Writers
  BY <1>1 DEF Writers
<1>3. WindowInv' /\ ProducerInv'
  BY <1>0, <1>1, <1>2 DEF WindowInv, ProducerInv
<1>4. CASE Take
  <2>1. r < w /\ seq[At(r)] = r + 1
    BY <1>0, <1>1, <1>4 DEF Take, WindowInv
  <2>2. ConsumerInv'
    BY <1>1, <1>4, <2>1 DEF Take, ConsumerInv
  <2>3. TypeOK'
    BY <1>0, <1>1, <1>4 DEF Take, TypeOK
  <2> QED
    BY <1>3, <2>2, <2>3 DEF QueueInv
<1>5. CASE Copy
  <2>1. ConsumerInv'
    BY <1>0, <1>1, <1>5 DEF Copy, ConsumerInv
  <2>2. TypeOK'
    BY <1>0, <1>1, <1>5, NextLap DEF Copy, TypeOK
  <2> QED
    BY <1>3, <2>1, <2>2 DEF QueueInv
<1> QED
  BY <1>4, <1>5

LEMMA FreeKeeps ==
  ASSUME QueueInv, Free
  PROVE  QueueInv'
<1>0. TypeOK /\ WindowInv /\ ProducerInv /\ ConsumerInv
  BY DEF QueueInv
<1> DEFINE here == At(r)
<1>1. /\ cpc = "free" /\ cpc' = "idle" /\ r' = r + 1
      /\ seq' = [seq EXCEPT ![here] = r + Size]
      /\ heard' = Append(heard, out)
      /\ UNCHANGED <<cell, w, pc, pos, sent, out>>
      /\ r \in Nat /\ w \in Nat /\ Size \in Nat /\ Size > 1
      /\ r < w /\ w <= r + Size /\ seq[here] = r + 1 /\ out = cell[here]
      /\ here \in Cells
  BY <1>0, NextLap, QueueAssumption
     DEF Free, prodVars, TypeOK, ConsumerInv, WindowInv
<1>2. /\ seq'[here] = r + Size
      /\ \A i \in Cells : i # here => seq'[i] = seq[i]
  BY <1>0, <1>1 DEF TypeOK
<1>3. out \in Events
  BY <1>0, <1>1 DEF WindowInv
<1> HIDE DEF here
<1>4. TypeOK'
  <2>1. heard' \in Seq(Events)
    BY <1>0, <1>1, <1>3 DEF TypeOK
  <2> QED
    BY <1>0, <1>1, <2>1 DEF TypeOK
<1>5. Writers' = Writers
  BY <1>1 DEF Writers
<1>6. \A k \in Nat : At(k) \in Cells /\ At(k + Size) = At(k)
  BY NextLap
<1>7. WindowInv'
  <2>1. ASSUME NEW k \in r'..(r' + Size - 1)
        PROVE  IF k >= w THEN seq'[At(k)] = k
               ELSE \/ /\ seq'[At(k)] = k + 1
                       /\ cell[At(k)] \in Events
                    \/ /\ seq'[At(k)] = k
                       /\ \E q \in Writers : pos[q] = k
    <3>1. CASE k = r + Size
      BY <1>1, <1>2, <1>6, <3>1 DEF here
    <3>2. CASE k # r + Size
      <4>1. k \in r..(r + Size - 1) /\ r \in r..(r + Size - 1) /\ k # r
        BY <1>1, <3>2
      <4>2. At(k) # here /\ At(k) \in Cells
        BY <1>1, <1>6, <4>1, Apart DEF here
      <4>3. seq'[At(k)] = seq[At(k)]
        BY <1>2, <4>2
      <4> QED
        BY <1>0, <4>1, <4>3 DEF WindowInv
    <3> QED
      BY <3>1, <3>2
  <2> QED
    BY <1>1, <1>5, <2>1 DEF WindowInv
<1>8. ProducerInv'
  <2>1. ASSUME NEW q \in Writers
        PROVE  r' <= pos[q] /\ seq'[At(pos[q])] = pos[q]
    <3>1. /\ pos[q] \in Nat /\ r <= pos[q] /\ pos[q] < w
          /\ seq[At(pos[q])] = pos[q]
      BY <1>0, <2>1 DEF ProducerInv, Writers, TypeOK
    <3>2. pos[q] # r
      BY <1>1, <3>1 DEF here
    <3>3. At(pos[q]) # here /\ At(pos[q]) \in Cells
      <4>1. pos[q] \in r..(r + Size - 1) /\ r \in r..(r + Size - 1)
        BY <1>1, <3>1
      <4> QED
        BY <1>6, <3>1, <3>2, <4>1, Apart DEF here
    <3> QED
      BY <1>1, <1>2, <3>1, <3>2, <3>3
  <2>2. ASSUME NEW q \in Producers, pc[q] = "claim"
        PROVE  pos[q] < r' + Size
    BY <1>0, <1>1, <2>2 DEF ProducerInv, TypeOK
  <2> QED
    BY <1>0, <1>1, <1>5, <2>1, <2>2 DEF ProducerInv, Writers
<1>9. ConsumerInv'
  BY <1>1 DEF ConsumerInv
<1> QED
  BY <1>4, <1>7, <1>8, <1>9 DEF QueueInv

LEMMA QueueInit == Init => QueueInv
<1> SUFFICES ASSUME Init PROVE QueueInv
  OBVIOUS
<1> USE QueueAssumption DEF Init
<1>1. Size \in Nat /\ Size > 1
  OBVIOUS
<1>2. TypeOK
  BY <1>1 DEF TypeOK, Cells
<1>3. WindowInv
  <2>1. ASSUME NEW k \in 0..(Size - 1)
        PROVE  At(k) = k /\ At(k) \in Cells
    BY <1>1, <2>1, FirstLap DEF Cells
  <2> QED
    BY <1>1, <2>1 DEF WindowInv
<1>4. ProducerInv /\ ConsumerInv
  BY DEF ProducerInv, ConsumerInv, Writers
<1> QED
  BY <1>2, <1>3, <1>4 DEF QueueInv

LEMMA QueueNext == QueueInv /\ [Next]_vars => QueueInv'
<1> SUFFICES ASSUME QueueInv, [Next]_vars PROVE QueueInv'
  OBVIOUS
<1>1. ASSUME NEW p \in Producers, Produce(p) PROVE QueueInv'
  BY <1>1, PushKeeps, LookKeeps, ClaimKeeps, WriteKeeps, PublishKeeps DEF Produce
<1>2. CASE Consume
  BY <1>2, TakeCopyKeeps, FreeKeeps DEF Consume
<1>3. CASE UNCHANGED vars
  BY <1>3 DEF vars, prodVars, consVars, QueueInv, TypeOK, WindowInv, ProducerInv,
              ConsumerInv, Writers
<1> QED
  BY <1>1, <1>2, <1>3 DEF Next

\* The inductive invariant, for every number of producers and every size.
THEOREM QueueCorrect == Spec => []QueueInv
<1> QED
  BY QueueInit, QueueNext, PTL DEF Spec

\* No two producers write one cell, and none the cell that is being copied.
THEOREM NoTornEvent == Spec => []Exclusive
<1>1. QueueInv => Exclusive
  <2> SUFFICES ASSUME QueueInv PROVE Exclusive
    OBVIOUS
  <2>1. ASSUME NEW p \in Writers
        PROVE  pos[p] \in r..(r + Size - 1) /\ seq[At(pos[p])] = pos[p]
    BY QueueAssumption DEF QueueInv, TypeOK, ProducerInv, WindowInv, Writers
  <2>2. \A p, q \in Writers : At(pos[p]) = At(pos[q]) => p = q
    BY <2>1, Apart DEF QueueInv, ProducerInv
  <2>3. cpc # "idle" => \A p \in Writers : At(pos[p]) # At(r)
    <3> SUFFICES ASSUME cpc # "idle", NEW p \in Writers, At(pos[p]) = At(r)
                 PROVE  FALSE
      OBVIOUS
    <3>1. r \in r..(r + Size - 1) /\ seq[At(r)] = r + 1
      BY QueueAssumption DEF QueueInv, ConsumerInv, TypeOK
    <3>2. pos[p] = r
      BY <2>1, <3>1, Apart
    <3> QED
      BY <2>1, <3>1, <3>2
  <2> QED
    BY <2>2, <2>3 DEF Exclusive
<1> QED
  BY <1>1, QueueCorrect, PTL

-----------------------------------------------------------------------------
(* The queue is a bounded FIFO. *)

\* A claimed position has one claimant, which is a writer.
LEMMA ClaimantIs ==
  ASSUME QueueInv, NEW p \in Writers, NEW k, pos[p] = k
  PROVE  Claimant(k) = p
<1>1. \A q, s \in Writers : pos[q] = pos[s] => q = s
  BY DEF QueueInv, ProducerInv
<1>2. Claimant(k) \in Writers /\ pos[Claimant(k)] = k
  BY Zenon DEF Claimant
<1> QED
  BY <1>1, <1>2

LEMMA ClaimantThen ==
  ASSUME QueueInv', NEW p \in Writers', NEW k, pos'[p] = k
  PROVE  Claimant(k)' = p
<1>1. \A q, s \in Writers' : pos'[q] = pos'[s] => q = s
  BY DEF QueueInv, ProducerInv
<1> DEFINE c == CHOOSE q \in Writers' : pos'[q] = k
<1>2. c \in Writers' /\ pos'[c] = k
  BY Zenon
<1> HIDE DEF c
<1>3. c = p
  BY <1>1, <1>2
<1> QED
  BY <1>3 DEF Claimant, c

\* The places of the line, one by one.
LEMMA LinePlaces ==
  ASSUME QueueInv
  PROVE  /\ w - r \in 0..Size /\ Len(line) = w - r
         /\ line \in Seq([from : Producers, nr : 1..MaxEvents, ready : BOOLEAN])
         /\ \A k \in r..(w - 1) :
              \/ /\ seq[At(k)] = k + 1 /\ cell[At(k)] \in Events
                 /\ Place(k) = [from |-> cell[At(k)][1], nr |-> cell[At(k)][2],
                                ready |-> TRUE]
              \/ /\ seq[At(k)] = k
                 /\ \E p \in Writers :
                      /\ pos[p] = k
                      /\ Place(k) = [from |-> p, nr |-> sent[p], ready |-> FALSE]
         /\ \A p \in Producers \ Writers : ~Fifo!Filling(p)
<1>0. TypeOK /\ WindowInv /\ ProducerInv
  BY DEF QueueInv
<1>1. /\ r \in Nat /\ w \in Nat /\ Size \in Nat /\ r <= w /\ w <= r + Size
      /\ w - r \in 0..Size
  BY <1>0, QueueAssumption DEF TypeOK, WindowInv
<1>2. ASSUME NEW k \in r..(w - 1)
      PROVE  \/ /\ seq[At(k)] = k + 1 /\ cell[At(k)] \in Events
                /\ Place(k) = [from |-> cell[At(k)][1], nr |-> cell[At(k)][2],
                               ready |-> TRUE]
             \/ /\ seq[At(k)] = k
                /\ \E p \in Writers :
                     /\ pos[p] = k
                     /\ Place(k) = [from |-> p, nr |-> sent[p], ready |-> FALSE]
  <2>1. k \in r..(r + Size - 1) /\ ~(k >= w)
    BY <1>1
  <2>2. CASE seq[At(k)] = k + 1 /\ cell[At(k)] \in Events
    BY <2>2 DEF Place
  <2>3. CASE seq[At(k)] = k /\ \E p \in Writers : pos[p] = k
    <3>1. PICK p \in Writers : pos[p] = k
      BY <2>3
    <3>2. Claimant(k) = p
      BY <3>1, ClaimantIs
    <3>3. seq[At(k)] # k + 1
      BY <1>1, <2>3
    <3> QED
      BY <2>3, <3>1, <3>2, <3>3 DEF Place
  <2> QED
    BY <1>0, <2>1, <2>2, <2>3 DEF WindowInv
<1>3. \A k \in r..(w - 1) :
        Place(k) \in [from : Producers, nr : 1..MaxEvents, ready : BOOLEAN]
  <2>1. ASSUME NEW p \in Writers
        PROVE  p \in Producers /\ sent[p] \in 1..MaxEvents
    <3>1. p \in Producers /\ sent[p] \in 0..MaxEvents
      BY <1>0 DEF Writers, TypeOK
    <3>2. sent[p] > 0
      BY <1>0 DEF Writers, ProducerInv
    <3> QED
      BY <3>1, <3>2, QueueAssumption
  <2>2. \A e \in Events : e[1] \in Producers /\ e[2] \in 1..MaxEvents
    BY DEF Events
  <2> SUFFICES ASSUME NEW k \in r..(w - 1)
               PROVE  Place(k) \in [from : Producers, nr : 1..MaxEvents,
                                    ready : BOOLEAN]
    OBVIOUS
  <2>3. CASE /\ cell[At(k)] \in Events
             /\ Place(k) = [from |-> cell[At(k)][1], nr |-> cell[At(k)][2],
                            ready |-> TRUE]
    BY <2>2, <2>3
  <2>4. CASE \E p \in Writers : Place(k) = [from |-> p, nr |-> sent[p],
                                            ready |-> FALSE]
    BY <2>1, <2>4
  <2> QED
    BY <1>2, <2>3, <2>4
<1>4. \A i \in 1..(w - r) : r + i - 1 \in r..(w - 1)
  BY <1>1
<1>5. /\ line \in Seq([from : Producers, nr : 1..MaxEvents, ready : BOOLEAN])
      /\ Len(line) = w - r
  BY <1>1, <1>3, <1>4 DEF line
<1>6. ASSUME NEW p \in Producers \ Writers
      PROVE  ~Fifo!Filling(p)
  <2> SUFFICES ASSUME NEW i \in 1..Len(line), line[i].from = p, ~line[i].ready
               PROVE  FALSE
    BY DEF Fifo!Filling
  <2>1. line[i] = Place(r + i - 1) /\ r + i - 1 \in r..(w - 1)
    BY <1>4, <1>5 DEF line
  <2> QED
    BY <1>2, <2>1
<1> QED
  BY <1>1, <1>2, <1>5, <1>6

\* A place that a step does not touch.
LEMMA SamePlace ==
  ASSUME QueueInv, QueueInv', NEW k \in r..(w - 1),
         seq'[At(k)] = seq[At(k)], cell'[At(k)] = cell[At(k)] \/ seq[At(k)] = k,
         \A p \in Writers : pos[p] = k =>
           p \in Writers' /\ pos'[p] = k /\ sent'[p] = sent[p]
  PROVE  Place(k)' = Place(k)
<1>1. k \in Int /\ k + 1 # k
  BY DEF QueueInv, TypeOK
<1>2. CASE /\ seq[At(k)] = k + 1
           /\ Place(k) = [from |-> cell[At(k)][1], nr |-> cell[At(k)][2],
                          ready |-> TRUE]
  BY <1>1, <1>2 DEF Place
<1>3. CASE seq[At(k)] = k /\
           \E p \in Writers : /\ pos[p] = k
                              /\ Place(k) = [from |-> p, nr |-> sent[p],
                                             ready |-> FALSE]
  <2>1. PICK p \in Writers : /\ pos[p] = k
                             /\ Place(k) = [from |-> p, nr |-> sent[p],
                                            ready |-> FALSE]
    BY <1>3
  <2>2. Claimant(k)' = p /\ sent'[p] = sent[p]
    BY <2>1, ClaimantThen
  <2> QED
    BY <1>1, <1>3, <2>1, <2>2 DEF Place
<1> QED
  BY <1>2, <1>3, LinePlaces

\* The numbers of a state, in one place.
LEMMA Numbers ==
  ASSUME QueueInv
  PROVE  /\ r \in Nat /\ w \in Nat /\ Size \in Nat /\ Size > 1
         /\ r <= w /\ w <= r + Size
         /\ \A p \in Producers :
              /\ pos[p] \in Nat /\ pos[p] <= w
              /\ sent[p] \in 0..MaxEvents
              /\ pc[p] # "idle" => sent[p] \in 1..MaxEvents
<1>1. r \in Nat /\ w \in Nat /\ Size \in Nat /\ Size > 1
  BY QueueAssumption DEF QueueInv, TypeOK
<1>2. r <= w /\ w <= r + Size
  BY DEF QueueInv, WindowInv
<1>3. ASSUME NEW p \in Producers
      PROVE  /\ pos[p] \in Nat /\ pos[p] <= w
             /\ sent[p] \in 0..MaxEvents
             /\ pc[p] # "idle" => sent[p] \in 1..MaxEvents
  <2>1. pos[p] \in Nat /\ sent[p] \in 0..MaxEvents
    BY DEF QueueInv, TypeOK
  <2>2. pos[p] <= w /\ (pc[p] # "idle" => sent[p] > 0)
    BY DEF QueueInv, ProducerInv
  <2> QED
    BY <2>1, <2>2, QueueAssumption
<1> QED
  BY <1>1, <1>2, <1>3

\* The i-th place, before and after a step.
LEMMA PlaceNow ==
  ASSUME NEW i \in 1..(w - r), NEW k, k = r + i - 1
  PROVE  line[i] = Place(k)
  BY DEF line

LEMMA PlaceThen ==
  ASSUME NEW i \in 1..(w' - r'), NEW k, k = r' + i - 1
  PROVE  line'[i] = Place(k)'
  BY DEF line, Place, Claimant

LEMMA LineThen == line' = [i \in 1..(w' - r') |-> line'[i]]
  BY DEF line

\* A step that leaves every place alone.
LEMMA SameLine ==
  ASSUME QueueInv, UNCHANGED <<w, r>>,
         \A k \in r..(w - 1) : Place(k)' = Place(k)
  PROVE  line' = line
<1>1. ASSUME NEW i \in 1..(w - r)
      PROVE  line'[i] = line[i]
  <2>1. PICK k \in r..(w - 1) : k = r + i - 1
    BY Numbers
  <2> QED
    BY <2>1, PlaceNow, PlaceThen
<1>2. line = [i \in 1..(w - r) |-> line[i]]
  BY DEF line
<1> QED
  BY <1>1, <1>2, LineThen

\* The counter of answered calls, for the producer that steps and the others.
LEMMA AnsweredNow ==
  /\ answered = [q \in Producers |-> answered[q]]
  /\ \A q \in Producers :
       answered[q] = IF pc[q] \in {"look", "claim"} THEN sent[q] - 1 ELSE sent[q]
  BY DEF answered

LEMMA AnsweredThen ==
  /\ answered' = [q \in Producers |-> answered'[q]]
  /\ \A q \in Producers :
       answered'[q] = IF pc'[q] \in {"look", "claim"} THEN sent'[q] - 1
                      ELSE sent'[q]
  BY DEF answered

LEMMA OneAnswered ==
  ASSUME QueueInv, NEW p \in Producers, pc[p] \in {"look", "claim"},
         NEW to \in {"idle", "write"}, pc' = [pc EXCEPT ![p] = to],
         UNCHANGED sent
  PROVE  /\ answered[p] < MaxEvents /\ answered[p] + 1 = sent[p]
         /\ answered' = [answered EXCEPT ![p] = @ + 1]
<1>1. sent[p] \in 1..MaxEvents
  BY Numbers
<1>2. /\ pc'[p] = to
      /\ \A q \in Producers : q # p => pc'[q] = pc[q]
  BY DEF QueueInv, TypeOK
<1>3. answered[p] < MaxEvents /\ answered[p] + 1 = sent[p] /\ answered'[p] = sent[p]
  BY <1>1, <1>2, AnsweredNow, AnsweredThen, QueueAssumption
<1>4. \A q \in Producers : q # p => answered'[q] = answered[q]
  BY <1>2, AnsweredNow, AnsweredThen
<1> QED
  BY <1>3, <1>4, AnsweredNow, AnsweredThen

\* The steps of a producer that the line does not see: the call, a look at a
\* free or taken cell, a compare-exchange that fails, the write of the event.
LEMMA HiddenSteps ==
  ASSUME QueueInv, QueueInv', NEW p \in Producers,
         \/ Push(p) \/ ClaimFails(p) \/ Write(p)
         \/ Look(p) /\ pc'[p] # "idle"
  PROVE  UNCHANGED <<line, answered, heard>>
<1>0. /\ TypeOK
      /\ UNCHANGED <<w, r, seq, heard>>
  BY DEF QueueInv, Push, ClaimFails, Write, Look, consVars
<1>1. ASSUME NEW q \in Writers
      PROVE  q \in Writers' /\ pos'[q] = pos[q] /\ sent'[q] = sent[q]
  BY <1>0, <1>1 DEF Writers, Push, ClaimFails, Write, Look, Go, TypeOK
<1>2. \A k \in r..(w - 1) : cell'[At(k)] = cell[At(k)] \/ seq[At(k)] = k
  <2>1. CASE UNCHANGED cell
    BY <2>1
  <2>2. CASE Write(p)
    <3>1. /\ p \in Writers /\ pos[p] \in r..(r + Size - 1)
          /\ seq[At(pos[p])] = pos[p]
          /\ cell' = [cell EXCEPT ![At(pos[p])] = <<p, sent[p]>>]
      <4>1. pc[p] = "write" /\ cell' = [cell EXCEPT ![At(pos[p])] = <<p, sent[p]>>]
        BY <2>2 DEF Write, Go
      <4>2. r <= pos[p] /\ pos[p] < w /\ seq[At(pos[p])] = pos[p]
        BY <4>1 DEF QueueInv, ProducerInv
      <4> QED
        BY <4>1, <4>2, Numbers DEF Writers
    <3> SUFFICES ASSUME NEW k \in r..(w - 1), At(k) = At(pos[p])
                 PROVE  seq[At(k)] = k
      BY <1>0, <3>1, NextLap DEF TypeOK
    <3>2. k \in r..(r + Size - 1)
      BY Numbers
    <3> QED
      BY <3>1, <3>2, Apart
  <2> QED
    BY <2>1, <2>2 DEF Push, ClaimFails, Look
<1>3. \A k \in r..(w - 1) : Place(k)' = Place(k)
  BY <1>0, <1>1, <1>2, SamePlace
<1>4. line' = line
  BY <1>0, <1>3, SameLine
<1>5. answered' = answered
  <2> SUFFICES ASSUME NEW q \in Producers
               PROVE  answered'[q] = answered[q]
    BY AnsweredNow, AnsweredThen
  <2>1. CASE q = p
    <3>1. sent[p] \in 0..MaxEvents
      BY Numbers
    <3>2. CASE Push(p)
      <4>1. /\ pc[p] = "idle" /\ pc'[p] = "look" /\ sent'[p] = sent[p] + 1
        BY <1>0, <3>2 DEF Push, Go, TypeOK
      <4> QED
        BY <2>1, <3>1, <4>1, AnsweredNow, AnsweredThen
    <3>3. CASE UNCHANGED sent
      <4>1. pc[p] \in {"look", "claim"} <=> pc'[p] \in {"look", "claim"}
        BY <1>0, <3>3 DEF Push, ClaimFails, Write, Look, Go, TypeOK
      <4> QED
        BY <2>1, <3>3, <4>1, AnsweredNow, AnsweredThen
    <3> QED
      BY <3>2, <3>3 DEF ClaimFails, Write, Look
  <2>2. CASE q # p
    <3>1. pc'[q] = pc[q] /\ sent'[q] = sent[q]
      BY <1>0, <2>2 DEF Push, ClaimFails, Write, Look, Go, TypeOK
    <3> QED
      BY <3>1, AnsweredNow, AnsweredThen
  <2> QED
    BY <2>1, <2>2
<1> QED
  BY <1>0, <1>4, <1>5

\* A call that is refused: the window is full.
LEMMA RefuseStep ==
  ASSUME QueueInv, QueueInv', NEW p \in Producers, Look(p), pc'[p] = "idle"
  PROVE  Fifo!Refuse(p)
<1>0. /\ r \in Nat /\ w \in Nat /\ Size \in Nat /\ r <= w /\ w <= r + Size
      /\ pos[p] \in Nat /\ pos[p] <= w
  BY Numbers
<1>1. /\ seq[At(pos[p])] < pos[p] /\ pc[p] = "look"
      /\ pc' = [pc EXCEPT ![p] = "idle"]
      /\ UNCHANGED <<seq, cell, w, r, pos, sent, heard>>
  BY DEF Look, Go, QueueInv, TypeOK, consVars
<1>2. \A k \in r..(r + Size - 1) : seq[At(k)] \in {k, k + 1}
  BY DEF QueueInv, WindowInv
<1>3. w = r + Size
  <2>1. CASE pos[p] < r
    <3>1. PICK j \in r..(r + Size - 1) : At(j) = At(pos[p])
      BY <1>0, <2>1, WindowCovers
    <3>2. seq[At(pos[p])] \in {j, j + 1}
      BY <1>2, <3>1
    <3> QED
      BY <1>0, <1>1, <2>1, <3>2
  <2>2. CASE pos[p] \in r..(r + Size - 1)
    <3>1. seq[At(pos[p])] \in {pos[p], pos[p] + 1}
      BY <1>2, <2>2
    <3> QED
      BY <1>0, <1>1, <3>1
  <2> QED
    BY <1>0, <2>1, <2>2
<1>4. Len(line) = Size /\ ~Fifo!Filling(p)
  <2>1. p \notin Writers
    BY <1>1 DEF Writers
  <2> QED
    BY <1>0, <1>3, <2>1, LinePlaces
<1>5. line' = line
  <2>1. Writers' = Writers
    BY <1>1 DEF Writers, QueueInv, TypeOK
  <2>2. \A k \in r..(w - 1) : Place(k)' = Place(k)
    BY <1>1, <2>1, SamePlace
  <2> QED
    BY <1>1, <2>2, SameLine
<1>6. /\ answered[p] < MaxEvents
      /\ answered' = [answered EXCEPT ![p] = @ + 1]
  BY <1>1, OneAnswered
<1> QED
  BY <1>1, <1>4, <1>5, <1>6 DEF Fifo!Refuse, Fifo!Answer

\* A sequence with one more element.
LEMMA AppendIs ==
  ASSUME NEW S, NEW s \in Seq(S), NEW e, NEW n \in Nat, Len(s) = n, NEW f,
         f = [i \in 1..(n + 1) |-> f[i]],
         \A i \in 1..n : f[i] = s[i], f[n + 1] = e
  PROVE  f = Append(s, e)
<1>1. s = [i \in 1..n |-> s[i]]
  OBVIOUS
<1>2. Append(s, e) = [i \in 1..(n + 1) |-> IF i = n + 1 THEN e ELSE s[i]]
  BY <1>1
<1> QED
  BY <1>2

\* A claim takes the last place.
LEMMA ClaimStep ==
  ASSUME QueueInv, QueueInv', NEW p \in Producers, Claim(p)
  PROVE  Fifo!TakePlace(p)
<1>0. /\ r \in Nat /\ w \in Nat /\ Size \in Nat /\ r <= w /\ w <= r + Size
  BY Numbers
<1>1. /\ w = pos[p] /\ pc[p] = "claim" /\ w < r + Size
      /\ pc' = [pc EXCEPT ![p] = "write"] /\ w' = w + 1
      /\ UNCHANGED <<seq, cell, r, pos, sent, heard>>
  BY DEF QueueInv, ProducerInv, Claim, Go, consVars
<1>2. Writers' = Writers \cup {p} /\ p \notin Writers
  BY <1>1 DEF Writers, QueueInv, TypeOK
<1>3. \A k \in r..(w - 1) : Place(k)' = Place(k)
  BY <1>1, <1>2, SamePlace
<1>4. ASSUME NEW k, k = w
      PROVE  Place(k)' = [from |-> p, nr |-> sent[p], ready |-> FALSE]
  <2>1. Claimant(k)' = p
    BY <1>1, <1>2, <1>4, ClaimantThen
  <2>2. seq[At(k)] = k
    BY <1>0, <1>1, <1>4 DEF QueueInv, WindowInv
  <2>3. k + 1 # k
    BY <1>0, <1>4
  <2> QED
    BY <1>1, <2>1, <2>2, <2>3 DEF Place
<1>5. ~Fifo!Filling(p) /\ Len(line) < Size /\ Len(line) = w - r
  BY <1>0, <1>1, <1>2, LinePlaces
<1>6. /\ answered[p] < MaxEvents /\ answered[p] + 1 = sent[p]
      /\ answered' = [answered EXCEPT ![p] = @ + 1]
  BY <1>1, OneAnswered
<1>7. line' = Append(line, [from |-> p, nr |-> answered[p] + 1,
                            ready |-> FALSE])
  <2>1. ASSUME NEW i \in 1..(w - r)
        PROVE  line'[i] = line[i]
    <3>1. PICK k \in r..(w - 1) : k = r + i - 1
      BY <1>0
    <3>2. line[i] = Place(k)
      BY <3>1, PlaceNow
    <3>3. i \in 1..(w' - r') /\ k = r' + i - 1
      BY <1>0, <1>1, <3>1
    <3>4. line'[i] = Place(k)'
      BY <3>3, PlaceThen
    <3> QED
      BY <1>3, <3>1, <3>2, <3>4
  <2>2. line'[w - r + 1] = [from |-> p, nr |-> answered[p] + 1, ready |-> FALSE]
    <3>1. PICK k, i : k = w /\ i = w - r + 1
      OBVIOUS
    <3>2. i \in 1..(w' - r') /\ k = r' + i - 1
      BY <1>0, <1>1, <3>1
    <3>3. line'[i] = Place(k)'
      BY <3>2, PlaceThen
    <3>4. Place(k)' = [from |-> p, nr |-> sent[p], ready |-> FALSE]
      BY <1>4, <3>1
    <3> QED
      BY <1>6, <3>1, <3>3, <3>4
  <2>3. line' = [i \in 1..(w - r + 1) |-> line'[i]]
    BY <1>0, <1>1, LineThen
  <2>4. w - r \in Nat
    BY <1>0
  <2> HIDE DEF line
  <2> QED
    BY <1>5, <2>1, <2>2, <2>3, <2>4, LinePlaces, AppendIs
<1> QED
  BY <1>1, <1>5, <1>6, <1>7 DEF Fifo!TakePlace, Fifo!Answer

\* A place that becomes ready.
LEMMA MadeReady ==
  ASSUME NEW x, NEW y
  PROVE  [[from |-> x, nr |-> y, ready |-> FALSE] EXCEPT !.ready = TRUE]
         = [from |-> x, nr |-> y, ready |-> TRUE]
<1>1. \A t, u : [[from |-> x, nr |-> y, ready |-> t] EXCEPT !.ready = u]
                = [from |-> x, nr |-> y, ready |-> u]
  OBVIOUS
<1>2. PICK t, u : t = FALSE /\ u = TRUE
  BY Zenon
<1>3. [[from |-> x, nr |-> y, ready |-> t] EXCEPT !.ready = u]
      = [from |-> x, nr |-> y, ready |-> u]
  BY <1>1, Zenon
<1> QED
  BY <1>2, <1>3, Zenon

\* A publication fills the place.
LEMMA PublishStep ==
  ASSUME QueueInv, QueueInv', NEW p \in Producers, Publish(p)
  PROVE  \E i \in 1..Len(line) : Fifo!Fill(i)
<1>0. /\ r \in Nat /\ w \in Nat /\ Size \in Nat /\ r <= w /\ w <= r + Size
  BY Numbers
<1>1. /\ pc[p] = "publish" /\ pc' = [pc EXCEPT ![p] = "idle"]
      /\ seq' = [seq EXCEPT ![At(pos[p])] = pos[p] + 1]
      /\ UNCHANGED <<cell, w, r, pos, sent, heard>>
  BY DEF Publish, Go, consVars
<1>2. /\ p \in Writers
      /\ \A q \in Writers : q # p => q \in Writers'
  BY <1>1 DEF Writers, QueueInv, TypeOK
<1>3. /\ pos[p] \in r..(w - 1) /\ seq[At(pos[p])] = pos[p]
      /\ cell[At(pos[p])] = <<p, sent[p]>>
  BY <1>0, <1>1, Numbers DEF QueueInv, ProducerInv
<1>4. PICK k \in r..(w - 1) : k = pos[p]
  BY <1>3
<1>5. k \in Nat /\ k + 1 # k /\ At(k) \in Cells
  BY <1>0, NextLap
<1>6. /\ seq'[At(k)] = k + 1
      /\ \A j \in Cells : j # At(k) => seq'[j] = seq[j]
  BY <1>1, <1>4, <1>5 DEF QueueInv, TypeOK
<1>7. Place(k) = [from |-> p, nr |-> sent[p], ready |-> FALSE]
  <2>1. Claimant(k) = p
    BY <1>2, <1>4, ClaimantIs
  <2> QED
    BY <1>3, <1>4, <1>5, <2>1 DEF Place
<1>8. Place(k)' = [from |-> p, nr |-> sent[p], ready |-> TRUE]
  <2>1. cell'[At(k)] = <<p, sent[p]>> /\ seq'[At(k)] = k + 1
    BY <1>1, <1>3, <1>4, <1>6
  <2>2. cell'[At(k)][1] = p /\ cell'[At(k)][2] = sent[p]
    BY <2>1
  <2> QED
    BY <2>1, <2>2 DEF Place
<1>9. \A j \in r..(w - 1) : j # k => Place(j)' = Place(j)
  <2> SUFFICES ASSUME NEW j \in r..(w - 1), j # k
               PROVE  Place(j)' = Place(j)
    OBVIOUS
  <2>1. j \in r..(r + Size - 1) /\ k \in r..(r + Size - 1) /\ j \in Nat
    BY <1>0
  <2>2. At(j) # At(k) /\ At(j) \in Cells
    BY <2>1, Apart, NextLap
  <2>3. seq'[At(j)] = seq[At(j)]
    BY <1>6, <2>2
  <2>4. \A q \in Writers : pos[q] = j => q # p
    BY <1>4
  <2> QED
    BY <1>1, <1>2, <2>3, <2>4, SamePlace
<1>10. PICK i \in 1..(w - r) : i = k - r + 1
  BY <1>0, <1>4
<1>11. line[i] = Place(k) /\ line'[i] = Place(k)'
  BY <1>0, <1>1, <1>10, PlaceNow, PlaceThen
<1>12. ASSUME NEW n \in 1..(w - r), n # i
       PROVE  line'[n] = line[n]
  <2>1. PICK j \in r..(w - 1) : j = r + n - 1
    BY <1>0
  <2>2. j # k
    BY <1>0, <1>10, <1>12, <2>1
  <2>3. line[n] = Place(j)
    BY <2>1, PlaceNow
  <2>4. line'[n] = Place(j)'
    BY <1>1, <2>1, PlaceThen
  <2> QED
    BY <1>9, <2>2, <2>3, <2>4
<1>13. /\ Len(line) = w - r /\ line = [n \in 1..(w - r) |-> line[n]]
       /\ line' = [n \in 1..(w - r) |-> line'[n]]
  BY <1>1, LinePlaces, LineThen DEF line
<1>14. line' = [line EXCEPT ![i].ready = TRUE]
  <2> HIDE DEF line
  <2>1. line'[i] = [line[i] EXCEPT !.ready = TRUE]
    <3>1. PICK a, b, y : a = line[i] /\ b = line'[i] /\ y = sent[p]
      OBVIOUS
    <3>2. a = [from |-> p, nr |-> y, ready |-> FALSE]
      BY <1>7, <1>11, <3>1
    <3>3. b = [from |-> p, nr |-> y, ready |-> TRUE]
      BY <1>8, <1>11, <3>1
    <3>4. [[from |-> p, nr |-> y, ready |-> FALSE] EXCEPT !.ready = TRUE]
          = [from |-> p, nr |-> y, ready |-> TRUE]
      BY MadeReady
    <3>5. b = [a EXCEPT !.ready = TRUE]
      BY <3>2, <3>3, <3>4, Zenon
    <3> QED
      BY <3>1, <3>5
  <2>2. line' = [line EXCEPT ![i] = [line[i] EXCEPT !.ready = TRUE]]
    BY <1>12, <1>13, <2>1
  <2> QED
    BY <2>2
<1>15. answered' = answered
  <2>1. \A q \in Producers : answered'[q] = answered[q]
    BY <1>1, AnsweredNow, AnsweredThen DEF QueueInv, TypeOK
  <2> QED
    BY <2>1, AnsweredNow, AnsweredThen
<1>16. ~line[i].ready /\ i \in 1..Len(line)
  BY <1>7, <1>11, <1>13
<1> QED
  BY <1>1, <1>14, <1>15, <1>16 DEF Fifo!Fill

\* A sequence without its first element.
LEMMA TailIs ==
  ASSUME NEW S, NEW s \in Seq(S), NEW n \in Nat, Len(s) = n + 1, NEW f,
         f = [i \in 1..n |-> f[i]],
         \A i \in 1..n : f[i] = s[i + 1]
  PROVE  f = Tail(s)
<1>1. /\ Tail(s) \in Seq(S) /\ Len(Tail(s)) = n
      /\ \A i \in 1..n : Tail(s)[i] = s[i + 1]
  <2>1. s # <<>>
    OBVIOUS
  <2> QED
    BY <2>1, HeadTailProperties
<1>2. PICK t : t = Tail(s)
  OBVIOUS
<1>3. t = [i \in 1..n |-> t[i]]
  <2>1. t \in Seq(S) /\ Len(t) = n
    BY <1>1, <1>2
  <2> QED
    BY <2>1
<1> QED
  BY <1>1, <1>2, <1>3

\* The end of pop hears the first place.
LEMMA FreeStep ==
  ASSUME QueueInv, QueueInv', Free
  PROVE  Fifo!Hear
<1>0. /\ r \in Nat /\ w \in Nat /\ Size \in Nat /\ r <= w /\ w <= r + Size
  BY Numbers
<1>1. /\ cpc = "free" /\ heard' = Append(heard, out) /\ r' = r + 1
      /\ seq' = [seq EXCEPT ![At(r)] = r + Size]
      /\ UNCHANGED <<cell, w, pc, pos, sent>>
  BY DEF Free, prodVars
<1>2. r < w /\ seq[At(r)] = r + 1 /\ out = cell[At(r)]
  BY <1>1 DEF QueueInv, ConsumerInv
<1>3. PICK h \in r..(w - 1) : h = r
  BY <1>0, <1>2
<1>4. /\ Place(h) = [from |-> out[1], nr |-> out[2], ready |-> TRUE]
      /\ out \in Events
  <2>1. h + 1 # h
    BY <1>0
  <2> QED
    BY <1>2, <1>3, <2>1, LinePlaces
<1>5. ASSUME NEW j \in r'..(w' - 1)
      PROVE  Place(j)' = Place(j) /\ j \in r..(w - 1)
  <2>1. /\ j \in r..(r + Size - 1) /\ h \in r..(r + Size - 1) /\ j # h
        /\ j \in Nat /\ j \in r..(w - 1)
    BY <1>0, <1>1, <1>3
  <2>2. At(j) # At(h) /\ At(j) \in Cells
    BY <2>1, Apart, NextLap
  <2>3. seq'[At(j)] = seq[At(j)]
    BY <1>1, <1>3, <2>2 DEF QueueInv, TypeOK
  <2>4. Writers' = Writers
    BY <1>1 DEF Writers
  <2> QED
    BY <1>1, <2>1, <2>3, <2>4, SamePlace
<1>6. PICK n \in Nat : n = w' - r' /\ w - r = n + 1
  BY <1>0, <1>1, <1>2
<1>7. /\ Len(line) = n + 1 /\ line' = [i \in 1..n |-> line'[i]]
      /\ line \in Seq([from : Producers, nr : 1..MaxEvents, ready : BOOLEAN])
  BY <1>6, LinePlaces, LineThen
<1>8. line[1] = [from |-> out[1], nr |-> out[2], ready |-> TRUE]
  <2>1. PICK i \in 1..(w - r) : i = 1
    BY <1>6
  <2>2. line[i] = Place(h)
    BY <1>0, <1>3, <2>1, PlaceNow
  <2> QED
    BY <1>4, <2>1, <2>2
<1>9. ASSUME NEW i \in 1..n
      PROVE  line'[i] = line[i + 1]
  <2>1. PICK j \in r'..(w' - 1) : j = r' + i - 1
    BY <1>0, <1>1, <1>6
  <2>2. line'[i] = Place(j)'
    BY <1>6, <2>1, PlaceThen
  <2>3. PICK m \in 1..(w - r) : m = i + 1
    BY <1>6
  <2>4. line[m] = Place(j)
    BY <1>0, <1>1, <2>1, <2>3, PlaceNow
  <2> QED
    BY <1>5, <2>2, <2>3, <2>4
<1>10. line' = Tail(line) /\ line # <<>>
  <2> HIDE DEF line
  <2>1. line' = Tail(line)
    BY <1>7, <1>9, TailIs
  <2>2. line # <<>>
    BY <1>7
  <2> QED
    BY <2>1, <2>2
<1>11. answered' = answered
  BY <1>1, AnsweredNow, AnsweredThen
<1>12. out = <<out[1], out[2]>>
  BY <1>4 DEF Events
<1>13. line[1].ready /\ line[1].from = out[1] /\ line[1].nr = out[2]
  BY <1>8
<1>14. heard' = Append(heard, <<line[1].from, line[1].nr>>)
  BY <1>1, <1>12, <1>13
<1> QED
  BY <1>10, <1>11, <1>13, <1>14 DEF Fifo!Hear

\* The rest of pop, and the steps of others, leave the line alone.
LEMMA QuietSteps ==
  ASSUME QueueInv, QueueInv', Take \/ Copy \/ UNCHANGED vars
  PROVE  UNCHANGED <<line, answered, heard>>
<1>1. UNCHANGED <<seq, cell, w, r, pc, pos, sent, heard>>
  BY DEF Take, Copy, vars, prodVars, consVars
<1>2. Writers' = Writers
  BY <1>1 DEF Writers
<1>3. \A k \in r..(w - 1) : Place(k)' = Place(k)
  BY <1>1, <1>2, SamePlace
<1>4. line' = line
  BY <1>1, <1>3, SameLine
<1>5. answered' = answered
  BY <1>1, AnsweredNow, AnsweredThen
<1> QED
  BY <1>1, <1>4, <1>5

LEMMA LineInit == Init => Fifo!FifoInit
<1> SUFFICES ASSUME Init PROVE Fifo!FifoInit
  OBVIOUS
<1>1. line = <<>>
  <2>1. QueueInv /\ w - r = 0
    BY QueueInit DEF Init
  <2>2. Len(line) = 0
    BY <2>1, LinePlaces
  <2>3. line \in Seq([from : Producers, nr : 1..MaxEvents, ready : BOOLEAN])
    BY <2>1, LinePlaces
  <2> HIDE DEF line
  <2> QED
    BY <2>2, <2>3
<1>2. answered = [p \in Producers |-> 0]
  <2>1. \A p \in Producers : answered[p] = 0
    BY AnsweredNow DEF Init
  <2> QED
    BY <2>1, AnsweredNow
<1> QED
  BY <1>1, <1>2 DEF Init, Fifo!FifoInit

LEMMA LineNext ==
  QueueInv /\ QueueInv' /\ [Next]_vars => [Fifo!FifoNext]_<<line, answered, heard>>
<1> SUFFICES ASSUME QueueInv, QueueInv', [Next]_vars
             PROVE  [Fifo!FifoNext]_<<line, answered, heard>>
  OBVIOUS
<1>1. ASSUME NEW p \in Producers, Produce(p)
      PROVE  Fifo!FifoNext \/ UNCHANGED <<line, answered, heard>>
  <2>1. CASE Push(p) \/ ClaimFails(p) \/ Write(p) \/ (Look(p) /\ pc'[p] # "idle")
    BY <2>1, HiddenSteps
  <2>2. CASE Look(p) /\ pc'[p] = "idle"
    BY <2>2, RefuseStep DEF Fifo!FifoNext
  <2>3. CASE Claim(p)
    BY <2>3, ClaimStep DEF Fifo!FifoNext
  <2>4. CASE Publish(p)
    BY <2>4, PublishStep DEF Fifo!FifoNext
  <2> QED
    BY <1>1, <2>1, <2>2, <2>3, <2>4 DEF Produce
<1>2. CASE Free
  BY <1>2, FreeStep DEF Fifo!FifoNext
<1>3. CASE Take \/ Copy \/ UNCHANGED vars
  BY <1>3, QuietSteps
<1> QED
  BY <1>1, <1>2, <1>3 DEF Next, Consume

\* The queue implements the bounded FIFO: every access to shared memory is a
\* step of the line of places or leaves the line as it is.
THEOREM QueueIsFifo == Spec => KeepsLine
<1>1. Init => Fifo!FifoInit
  BY LineInit
<1>2. QueueInv /\ QueueInv' /\ [Next]_vars => [Fifo!FifoNext]_Fifo!fifoVars
  BY LineNext DEF Fifo!fifoVars
<1> QED
  BY <1>1, <1>2, QueueCorrect, PTL DEF Spec, KeepsLine, Fifo!FifoSpec
=============================================================================
