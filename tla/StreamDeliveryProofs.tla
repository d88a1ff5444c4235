------------------------- MODULE StreamDeliveryProofs -------------------------
(***************************************************************************)
(* When no refill threshold exceeds half a ring: a voice finds its own     *)
(* file in its ring, gapless and in order; no worker waits on a full       *)
(* ring; and the engine implements the abstract lines of PcmChannel.       *)
(***************************************************************************)
EXTENDS StreamEngineProofs

\* The frames on the way and the readers that wait for them are untouched.
SameFrames == UNCHANGED <<data, gen, ring, file, reqOff, pending, got, cur, taken>>

\* A step of one worker leaves the locals of the others alone.
LEMMA OtherWorkers ==
  ASSUME TypeInv, NEW w \in Workers, WorkerStep(w), NEW u \in Workers, u # w
  PROVE  /\ pc'[u] = pc[u] /\ req'[u] = req[u] /\ off'[u] = off[u]
         /\ remain'[u] = remain[u] /\ chunk'[u] = chunk[u]
         /\ hitEof'[u] = hitEof[u]
<1> USE DEF TypeInv, TypeOK, WorkerTypes
<1>1. CASE Finish(w) \/ StoreEof(w)
  BY <1>1 DEF Finish, StoreEof, NextRound, Goto
<1>2. CASE TakeRequest(w) \/ LeaveLoop(w) \/ SizeChunk(w) \/ ReadFile(w)
  BY <1>2 DEF TakeRequest, LeaveLoop, SizeChunk, ReadFile, Goto
<1>3. CASE LockRing(w) \/ AbandonLock(w) \/ WriteFresh(w) \/ DropStale(w)
           \/ ExitWorker(w)
  BY <1>3 DEF LockRing, AbandonLock, WriteFresh, DropStale, ExitWorker, Goto
<1>4. CASE Publish(w)
  BY <1>4 DEF Publish, Goto
<1> QED
  BY <1>1, <1>2, <1>3, <1>4 DEF WorkerStep

\* A worker's own step without effect on the rings: it keeps what it carries,
\* or gives it up.
LEMMA FlightLocal ==
  ASSUME IInv, NEW w \in Workers, WorkerStep(w), queue' = queue, SameFrames,
         Carrying(w)' => /\ Carrying(w) /\ UNCHANGED req
                         /\ off'[w] = off[w] /\ remain'[w] = remain[w],
         \A v \in Voices : Carrying(w)' /\ req'[w].ring = ring[v] => Serving(v, w)'
  PROVE  FlightInv'
<1> USE DEF IInv, FlightInv, SameFrames
<1>1. \A u \in Workers : u # w =>
        /\ pc'[u] = pc[u] /\ req'[u] = req[u] /\ off'[u] = off[u]
        /\ remain'[u] = remain[u] /\ chunk'[u] = chunk[u] /\ hitEof'[u] = hitEof[u]
  BY OtherWorkers DEF BasicInv, StampInv, OwnerInv
<1>2. \A u \in Workers : Carrying(u)' => Carrying(u) /\ req'[u] = req[u]
  BY <1>1 DEF Carrying, Current
<1>3. QueueInv'
  BY DEF QueueInv, Accounted, Delivered, TakenBy, Current
<1>4. WorkInv'
  <2>1. ASSUME NEW v \in Voices, NEW u \in Workers, u # w,
               Carrying(u)', req'[u].ring = ring'[v]
        PROVE  Serving(v, u)'
    <3>1. Serving(v, u)
      BY <1>2, <2>1 DEF WorkInv
    <3> QED
      BY <1>1, <2>1, <3>1 DEF Serving, Accounted, Delivered, TakenBy
  <2> QED
    BY <2>1 DEF WorkInv
<1>5. UniqueInv'
  BY <1>2 DEF UniqueInv, Current
<1>6. OffsetInv'
  BY DEF OffsetInv, Delivered, TakenBy
<1>7. InOrder'
  BY DEF InOrder, TakenBy
<1> QED
  BY <1>3, <1>4, <1>5, <1>6, <1>7

\* The steps of a worker that only give a request up, or end a round.
LEMMA FlightDrop ==
  ASSUME IInv, NEW w \in Workers,
         \/ LeaveLoop(w) \/ AbandonLock(w) \/ DropStale(w) \/ Finish(w)
         \/ StoreEof(w) \/ ExitWorker(w)
  PROVE  FlightInv'
<1> USE DEF IInv, BasicInv, StampInv, OwnerInv, TypeInv, TypeOK, WorkerTypes
<1>1. pc'[w] \in {"idle", "finish", "eof", "exited"}
  BY DEF LeaveLoop, AbandonLock, DropStale, Finish, StoreEof, ExitWorker, NextRound, Goto
<1>2. ~Carrying(w)'
  BY <1>1 DEF Carrying
<1>3. queue' = queue /\ SameFrames
  BY DEF LeaveLoop, AbandonLock, DropStale, Finish, StoreEof, ExitWorker,
     SameFrames, ringVars, readerVars, voiceVars
<1>4. WorkerStep(w)
  BY DEF WorkerStep
<1> QED
  BY <1>2, <1>3, <1>4, FlightLocal

\* A request was made for space that is still free: the chunk is all of it.
LEMMA FlightSize ==
  ASSUME IInv, NEW w \in Workers, SizeChunk(w)
  PROVE  FlightInv'
<1> USE DEF IInv, BasicInv, StampInv, OwnerInv, TypeInv, TypeOK
<1>1. /\ pc[w] = "loop" /\ pc' = [pc EXCEPT ![w] = "read"]
      /\ chunk' = [chunk EXCEPT ![w] =
                     AtMost(remain[w], Capacity - Len(data[req[w].ring]))]
      /\ UNCHANGED <<req, off, remain, hitEof>>
  BY DEF SizeChunk, Goto
<1>2. queue' = queue /\ SameFrames /\ WorkerStep(w)
  BY DEF SizeChunk, SameFrames, ringVars, readerVars, voiceVars, WorkerStep
<1>3. Carrying(w)' => Carrying(w)
  BY <1>1, <1>2 DEF Carrying, Current, SameFrames, WorkerTypes
<1>4. ASSUME NEW v \in Voices, Carrying(w)', req'[w].ring = ring[v]
      PROVE  Serving(v, w)'
  <2>1. Serving(v, w)
    BY <1>1, <1>3, <1>4 DEF FlightInv, WorkInv
  <2>2. req[w].ring \in Rings
    BY <1>1 DEF WorkerTypes, Request
  <2>3. Len(data[req[w].ring]) \in Nat /\ remain[w] \in Nat
    BY <2>2, LenProperties DEF RingTypes, WorkerTypes
  <2>4. Len(data[req[w].ring]) + remain[w] <= Capacity
    BY <1>1, <1>4, <2>1 DEF Serving, Accounted
  <2>5. AtMost(remain[w], Capacity - Len(data[req[w].ring])) = remain[w]
    BY <2>3, <2>4, StreamAssumption DEF AtMost
  <2> QED
    BY <1>1, <1>2, <2>1, <2>5
       DEF Serving, Accounted, Delivered, TakenBy, SameFrames, WorkerTypes
<1> QED
  BY <1>1, <1>2, <1>3, <1>4, FlightLocal

\* A read that returns frames proves that the request starts where the ring
\* ends; a short one reached the readable end of the file.
LEMMA FlightRead ==
  ASSUME IInv, NEW w \in Workers, ReadFile(w)
  PROVE  FlightInv'
<1> USE DEF IInv, BasicInv, StampInv, OwnerInv, TypeInv, TypeOK
<1>1. PICK readable : readable = IF off[w] < req[w].file.disk
                      THEN AtMost(chunk[w], req[w].file.disk - off[w]) ELSE 0
  OBVIOUS
<1>2. /\ pc[w] = "read"
      /\ UNCHANGED <<req, off, remain>>
      /\ \/ pc' = [pc EXCEPT ![w] = "finish"]
         \/ /\ readable > 0
            /\ hitEof' = [hitEof EXCEPT ![w] = readable < chunk[w]]
            /\ chunk' = [chunk EXCEPT ![w] = readable]
            /\ pc' = [pc EXCEPT ![w] = "lock"]
  BY <1>1 DEF ReadFile, Goto
<1>3. queue' = queue /\ SameFrames /\ WorkerStep(w)
  BY DEF ReadFile, SameFrames, ringVars, readerVars, voiceVars, WorkerStep
<1>4. Carrying(w)' => Carrying(w)
  BY <1>2, <1>3 DEF Carrying, Current, SameFrames, WorkerTypes
<1>5. ASSUME NEW v \in Voices, Carrying(w)', req'[w].ring = ring[v]
      PROVE  Serving(v, w)'
  <2>1. Serving(v, w)
    BY <1>2, <1>4, <1>5 DEF FlightInv, WorkInv
  <2>2. /\ readable > 0
        /\ hitEof' = [hitEof EXCEPT ![w] = readable < chunk[w]]
        /\ chunk' = [chunk EXCEPT ![w] = readable]
        /\ pc' = [pc EXCEPT ![w] = "lock"]
    BY <1>2, <1>5 DEF Carrying, WorkerTypes
  <2>3. /\ req[w] \in Request /\ off[w] \in Nat /\ chunk[w] \in Nat
        /\ chunk[w] = remain[w] /\ req[w].file = file[v]
    BY <1>2, <2>1 DEF WorkerTypes, Serving
  <2>4. req[w].file.disk \in Nat
    BY <2>3, StreamAssumption DEF Request
  <2>5. /\ off[w] < file[v].disk
        /\ readable = AtMost(chunk[w], file[v].disk - off[w])
        /\ file[v].disk \in Nat
    BY <1>1, <2>2, <2>3, <2>4
  <2>6. off[w] = Delivered(v)
    BY <2>1, <2>3, <2>5 DEF Serving, Accounted
  <2>7. IF readable < chunk[w] THEN off[w] + readable >= file[v].disk
                               ELSE readable = remain[w]
    BY <2>3, <2>5 DEF AtMost
  <2>8. /\ chunk'[w] = readable /\ pc'[w] = "lock"
        /\ (hitEof'[w] <=> readable < chunk[w])
    BY <2>2 DEF WorkerTypes
  <2> QED
    BY <1>2, <1>3, <2>1, <2>6, <2>7, <2>8
       DEF Serving, Accounted, Delivered, TakenBy, SameFrames
<1> QED
  BY <1>2, <1>3, <1>4, <1>5, FlightLocal

LEMMA FlightLock ==
  ASSUME IInv, NEW w \in Workers, LockRing(w) \/ WriteFresh(w)
  PROVE  FlightInv'
<1> USE DEF IInv, BasicInv, StampInv, OwnerInv, TypeInv, TypeOK
<1>1. /\ pc[w] \in {"lock", "write"} /\ pc'[w] \in {"write", "copy"}
      /\ UNCHANGED <<req, off, remain, chunk, hitEof>>
  BY DEF LockRing, WriteFresh, Goto, WorkerTypes
<1>2. queue' = queue /\ SameFrames /\ WorkerStep(w)
  BY DEF LockRing, WriteFresh, SameFrames, ringVars, readerVars, voiceVars, WorkerStep
<1>3. Carrying(w)' => Carrying(w)
  BY <1>1, <1>2 DEF Carrying, Current, SameFrames
<1>4. ASSUME NEW v \in Voices, Carrying(w)', req'[w].ring = ring[v]
      PROVE  Serving(v, w)'
  <2>1. Serving(v, w)
    BY <1>1, <1>3, <1>4 DEF FlightInv, WorkInv
  <2> QED
    BY <1>1, <1>2, <2>1 DEF Serving, Accounted, Delivered, TakenBy, SameFrames
<1> QED
  BY <1>1, <1>2, <1>3, <1>4, FlightLocal

\* What was in the queue is now carried by a worker.
LEMMA FlightTake ==
  ASSUME IInv, NEW w \in Workers, TakeRequest(w)
  PROVE  FlightInv'
<1> USE DEF IInv, BasicInv, StampInv, OwnerInv, FlightInv
<1>1. /\ queue \in Seq(Request) /\ Len(queue) \in Nat \ {0}
      /\ DOMAIN queue = 1..Len(queue)
      /\ DOMAIN queue' = 1..(Len(queue) - 1)
      /\ \A i \in 1..(Len(queue) - 1) : queue'[i] = queue[i + 1]
      /\ req' = [req EXCEPT ![w] = queue[1]]
      /\ off' = [off EXCEPT ![w] = queue[1].off]
      /\ remain' = [remain EXCEPT ![w] = queue[1].n]
  BY TakeFacts
<1>2. SameFrames /\ WorkerStep(w) /\ pc[w] = "idle" /\ pc'[w] = "loop"
  BY DEF TakeRequest, SameFrames, ringVars, readerVars, voiceVars, WorkerStep, Goto,
     TypeInv, TypeOK, WorkerTypes
<1>3. /\ req'[w] = queue[1] /\ off'[w] = queue[1].off /\ remain'[w] = queue[1].n
      /\ 1 \in DOMAIN queue
  BY <1>1 DEF TypeInv, TypeOK, WorkerTypes
<1>4. \A u \in Workers : u # w =>
        /\ pc'[u] = pc[u] /\ req'[u] = req[u] /\ off'[u] = off[u]
        /\ remain'[u] = remain[u] /\ chunk'[u] = chunk[u] /\ hitEof'[u] = hitEof[u]
  BY <1>2, OtherWorkers
<1>5. \A i \in DOMAIN queue' : i + 1 \in DOMAIN queue /\ queue'[i] = queue[i + 1]
  BY <1>1
<1>6. QueueInv'
  BY <1>2, <1>5 DEF QueueInv, Accounted, Delivered, TakenBy, Current, SameFrames
<1>7. \A u \in Workers : u # w /\ Carrying(u)' => Carrying(u)
  BY <1>2, <1>4 DEF Carrying, Current, SameFrames
<1>8. Carrying(w)' => Current(queue[1])
  BY <1>2, <1>3 DEF Carrying, Current, SameFrames
<1>9. WorkInv'
  <2>1. ASSUME NEW v \in Voices, NEW u \in Workers, u # w,
               Carrying(u)', req'[u].ring = ring'[v]
        PROVE  Serving(v, u)'
    <3>1. Serving(v, u)
      BY <1>2, <1>4, <1>7, <2>1 DEF WorkInv, SameFrames
    <3> QED
      BY <1>2, <1>4, <3>1, <2>1 DEF Serving, Accounted, Delivered, TakenBy, SameFrames
  <2>2. ASSUME NEW v \in Voices, Carrying(w)', req'[w].ring = ring'[v]
        PROVE  Serving(v, w)'
    <3>1. Accounted(v, queue[1].off, queue[1].n) /\ queue[1].file = file[v]
      BY <1>2, <1>3, <1>8, <2>2 DEF QueueInv, SameFrames
    <3> QED
      BY <1>2, <1>3, <3>1 DEF Serving, Accounted, Delivered, TakenBy, SameFrames
  <2> QED
    BY <2>1, <2>2 DEF WorkInv
<1>10. UniqueInv'
  <2>1. ASSUME NEW i \in DOMAIN queue', NEW j \in DOMAIN queue',
               Current(queue[i])', Current(queue[j])',
               queue'[i].ring = queue'[j].ring
        PROVE  i = j
    <3>1. i + 1 = j + 1
      BY <1>2, <1>5, <2>1 DEF UniqueInv, Current, SameFrames
    <3> QED
      BY <1>1, <3>1
  <2>2. ASSUME NEW u \in Workers, NEW x \in Workers, Carrying(u)', Carrying(x)',
               req'[u].ring = req'[x].ring
        PROVE  u = x
    <3>1. CASE u # w /\ x # w
      BY <1>4, <1>7, <2>2, <3>1 DEF UniqueInv
    <3>2. CASE u = w /\ x # w
      BY <1>3, <1>4, <1>7, <1>8, <2>2, <3>2 DEF UniqueInv
    <3>3. CASE u # w /\ x = w
      BY <1>3, <1>4, <1>7, <1>8, <2>2, <3>3 DEF UniqueInv
    <3> QED
      BY <3>1, <3>2, <3>3
  <2>3. ASSUME NEW i \in DOMAIN queue', NEW u \in Workers,
               Current(queue[i])', Carrying(u)', queue'[i].ring = req'[u].ring
        PROVE  FALSE
    <3>1. i + 1 \in DOMAIN queue /\ queue'[i] = queue[i + 1] /\ i + 1 # 1
          /\ Current(queue[i + 1])
      BY <1>1, <1>2, <1>5, <2>3 DEF Current, SameFrames
    <3>2. CASE u # w
      BY <1>4, <1>7, <2>3, <3>1, <3>2 DEF UniqueInv
    <3>3. CASE u = w
      BY <1>3, <1>8, <2>3, <3>1, <3>3 DEF UniqueInv
    <3> QED
      BY <3>2, <3>3
  <2> QED
    BY <2>1, <2>2, <2>3 DEF UniqueInv
<1>11. OffsetInv' /\ InOrder'
  BY <1>2 DEF OffsetInv, InOrder, Delivered, TakenBy, SameFrames
<1> QED
  BY <1>6, <1>9, <1>10, <1>11

\* The frames pushed are the next ones of the voice's file, and the request
\* they answer is then done with: nothing is left, or the file is.
LEMMA FlightPublish ==
  ASSUME IInv, NEW w \in Workers, Publish(w)
  PROVE  FlightInv'
<1> USE DEF IInv, BasicInv, StampInv, OwnerInv, FlightInv
<1>1. PICK r \in Rings, g \in Nat, from \in Nat, wrote \in Nat :
        Published(w, r, g, from, wrote)
  BY PublishStep
<1>2. /\ pc[w] = "copy" /\ remain[w] > 0 /\ WorkerStep(w)
      /\ UNCHANGED <<inUse, gen, queue, req, readerVars, voiceVars>>
      /\ pc' = [pc EXCEPT ![w] = IF hitEof[w] \/ from + wrote >= req[w].file.len
                                 THEN "finish" ELSE "loop"]
  BY <1>1 DEF Publish, Published, TypeInv, ChunkInv, Goto, WorkerStep
<1>3. /\ req[w] \in Request /\ remain[w] \in Nat /\ off[w] \in Nat /\ chunk[w] \in Nat
      /\ \A q \in Rings : Len(data[q]) \in Nat /\ data[q] \in Seq(Frame)
      /\ gen[r] \in Nat
  BY <1>2, LenProperties DEF TypeInv, TypeOK, WorkerTypes, RingTypes
<1>4. ASSUME NEW v \in Voices, ring[v] = r
      PROVE  Carrying(w) /\ Serving(v, w) /\ g = gen[r]
  <2>1. inUse[r]
    BY <1>4 DEF RingOwnership
  <2>2. Current(req[w])
    BY <1>1, <1>2, <2>1 DEF LockInv, Published
  <2>3. Carrying(w)
    BY <1>2, <2>2 DEF Carrying
  <2> QED
    BY <1>1, <1>4, <2>2, <2>3 DEF WorkInv, Published, Current
<1>5. ASSUME NEW v \in Voices, ring[v] = r
      PROVE  /\ wrote = chunk[w]
             /\ Accounted(v, from, remain[w])
             /\ from = Delivered(v) /\ file[v].disk <= file[v].len
             /\ req[w].file = file[v]
             /\ IF hitEof[w] THEN from + wrote >= file[v].disk
                             ELSE wrote = remain[w]
  <2>1. Serving(v, w)
    BY <1>4, <1>5
  <2>2. Len(data[r]) + remain[w] <= Capacity /\ chunk[w] <= remain[w]
    BY <1>2, <1>5, <2>1 DEF Serving, Accounted, TypeInv, ChunkInv
  <2>3. wrote = chunk[w]
    BY <1>1, <1>3, <2>2, StreamAssumption DEF Published, AtMost
  <2>4. file[v].disk <= file[v].len
    BY <1>3, <2>1, StreamAssumption DEF Serving, Request
  <2> QED
    BY <1>1, <1>2, <2>1, <2>3, <2>4 DEF Serving, Published
<1>6. ~Carrying(w)'
  <2>1. CASE \E v \in Voices : ring[v] = r
    <3>1. PICK v \in Voices : ring[v] = r
      BY <2>1
    <3>2. CASE hitEof[w] \/ from + wrote >= req[w].file.len
      BY <1>2, <3>2 DEF Carrying, TypeInv, TypeOK, WorkerTypes
    <3>3. CASE ~(hitEof[w] \/ from + wrote >= req[w].file.len)
      <4>1. remain'[w] = remain[w] - wrote
        BY <1>1 DEF Published, TypeInv, TypeOK, WorkerTypes
      <4>2. wrote = remain[w]
        BY <1>5, <3>1, <3>3
      <4> QED
        BY <1>3, <4>1, <4>2 DEF Carrying
    <3> QED
      BY <3>2, <3>3
  <2>2. CASE ~\E v \in Voices : ring[v] = r
    <3>1. ~inUse[r]
      BY <2>2 DEF RingOwnership
    <3>2. ~Current(req[w])
      BY <1>1, <1>2, <3>1 DEF GenInv, Stamped, Busy, Published
    <3> QED
      BY <1>2, <3>2 DEF Carrying, Current
  <2> QED
    BY <2>1, <2>2
<1>7. \A u \in Workers : u # w =>
        /\ pc'[u] = pc[u] /\ req'[u] = req[u] /\ off'[u] = off[u]
        /\ remain'[u] = remain[u] /\ chunk'[u] = chunk[u] /\ hitEof'[u] = hitEof[u]
  BY <1>2, OtherWorkers
<1>8. \A u \in Workers : Carrying(u)' => u # w /\ Carrying(u)
  BY <1>2, <1>6, <1>7 DEF Carrying, Current
<1>9. \A q \in Rings : q # r => data'[q] = data[q]
  BY <1>1 DEF Published, TypeInv, TypeOK, RingTypes
<1>10. QueueInv'
  <2>1. ASSUME NEW v \in Voices, NEW i \in DOMAIN queue, Current(queue[i]),
               queue[i].ring = ring[v]
        PROVE  /\ Accounted(v, queue[i].off, queue[i].n)'
               /\ queue[i].file = file[v]
    <3>1. queue[i] \in Request
      BY ElementOfSeq, LenProperties DEF TypeInv, TypeOK, QueueTypes
    <3>2. ring[v] \in Rings
      BY <2>1, <3>1 DEF Request
    <3>3. ring[v] # r
      BY <1>1, <1>4, <2>1 DEF UniqueInv, Published
    <3>4. Accounted(v, queue[i].off, queue[i].n) /\ queue[i].file = file[v]
      BY <2>1 DEF QueueInv
    <3> QED
      BY <1>2, <1>9, <3>2, <3>3, <3>4
         DEF Accounted, Delivered, TakenBy, readerVars, voiceVars
  <2> QED
    BY <1>2, <2>1 DEF QueueInv, Current, Accounted, Delivered, TakenBy, readerVars,
       voiceVars
<1>11. WorkInv'
  <2>1. ASSUME NEW v \in Voices, NEW u \in Workers, Carrying(u)', req'[u].ring = ring'[v]
        PROVE  Serving(v, u)'
    <3>1. u # w /\ Carrying(u) /\ req[u].ring = ring[v]
      BY <1>2, <1>8, <2>1 DEF readerVars
    <3>2. req[u] \in Request
      BY <3>1 DEF Carrying, TypeInv, TypeOK, WorkerTypes
    <3>3. ring[v] \in Rings
      BY <3>1, <3>2 DEF Request
    <3>4. ring[v] # r
      BY <1>1, <1>4, <3>1 DEF UniqueInv, Published
    <3>5. Serving(v, u)
      BY <3>1 DEF WorkInv
    <3> QED
      BY <1>2, <1>7, <1>9, <3>1, <3>3, <3>4, <3>5
         DEF Serving, Accounted, Delivered, TakenBy, readerVars, voiceVars
  <2> QED
    BY <2>1 DEF WorkInv
<1>12. UniqueInv'
  BY <1>2, <1>8 DEF UniqueInv, Current
<1>13. OffsetInv'
  <2>1. ASSUME NEW v \in Voices, ring[v] # None
        PROVE  \/ reqOff[v] = Delivered(v)'
               \/ reqOff[v] >= file[v].disk
               \/ pending[v] /\ Len(data'[ring[v]]) < HalfCapacity
    <3>1. ring[v] \in Rings
      BY <2>1 DEF TypeInv, TypeOK, VoiceTypes
    <3>2. CASE ring[v] # r
      BY <1>2, <1>9, <2>1, <3>1, <3>2
         DEF OffsetInv, Delivered, TakenBy, readerVars, voiceVars
    <3>3. CASE ring[v] = r
      <4>1. Len(data'[r]) = Len(data[r]) + wrote
        BY <1>1 DEF Published, TypeInv, TypeOK, RingTypes
      <4>2. got[v] \in Nat /\ TakenBy(v) \in Nat /\ file[v].disk \in Nat /\ file[v].len \in Nat
        BY <1>3, <1>5, <3>3, StreamAssumption
           DEF TypeInv, TypeOK, VoiceTypes, TakenBy, Request
      <4>3. Delivered(v)' = from + wrote
        <5>1. from = got[v] - TakenBy(v) + Len(data[r])
          BY <1>5, <3>3 DEF Delivered
        <5>2. Delivered(v)' = got[v] - TakenBy(v) + Len(data'[r])
          BY <1>2, <3>3 DEF Delivered, TakenBy, readerVars, voiceVars
        <5> QED
          BY <1>3, <4>1, <4>2, <5>1, <5>2
      <4>4. from + remain[w] = reqOff[v] /\ wrote <= remain[w]
        BY <1>1, <1>5, <3>3 DEF Accounted, Published
      <4>5. CASE hitEof[w]
        BY <1>3, <1>5, <3>3, <4>2, <4>4, <4>5
      <4>6. CASE ~hitEof[w]
        BY <1>3, <1>5, <3>3, <4>2, <4>3, <4>4, <4>6
      <4> QED
        BY <4>5, <4>6
    <3> QED
      BY <3>2, <3>3
  <2> QED
    BY <1>2, <2>1 DEF OffsetInv, readerVars
<1>14. InOrder'
  <2>1. ASSUME NEW v \in Voices, ring[v] # None, NEW i \in 1..Len(data'[ring[v]])
        PROVE  data'[ring[v]][i] =
                 [gen |-> gen[ring[v]], pos |-> got[v] - TakenBy(v) + i - 1]
    <3>1. ring[v] \in Rings
      BY <2>1 DEF TypeInv, TypeOK, VoiceTypes
    <3>2. CASE ring[v] # r
      BY <1>9, <2>1, <3>1, <3>2 DEF InOrder
    <3>3. CASE ring[v] = r
      <4>1. /\ data'[r] = data[r] \o Pushed(g, from, wrote)
            /\ Len(data'[r]) = Len(data[r]) + wrote
        BY <1>1 DEF Published, TypeInv, TypeOK, RingTypes
      <4>2. i \in 1..(Len(data[r]) + wrote) /\ Len(data[r]) \in Nat /\ i \in Int
        BY <1>3, <2>1, <3>3, <4>1
      <4>3. data'[r][i] = IF i <= Len(data[r]) THEN data[r][i]
                          ELSE [gen |-> g, pos |-> from + (i - Len(data[r])) - 1]
        <5>1. PICK s \in Seq(Frame) : s = data[r]
          BY <1>3
        <5>2. i \in 1..(Len(s) + wrote)
          BY <4>2, <5>1
        <5>3. (s \o Pushed(g, from, wrote))[i] =
                IF i <= Len(s) THEN s[i]
                               ELSE [gen |-> g, pos |-> from + (i - Len(s)) - 1]
          <6> HIDE DEF IInv, BasicInv, StampInv, OwnerInv, FlightInv
          <6> QED
            BY <5>2, PushedFrame
        <5> QED
          BY <4>1, <5>1, <5>3
      <4>4. CASE i <= Len(data[r])
        <5>1. i \in 1..Len(data[r])
          BY <4>2, <4>4
        <5>2. data[r][i] = [gen |-> gen[r], pos |-> got[v] - TakenBy(v) + i - 1]
          BY <2>1, <3>3, <5>1 DEF InOrder
        <5> QED
          BY <3>3, <4>3, <4>4, <5>2
      <4>5. CASE i > Len(data[r])
        <5>1. from = got[v] - TakenBy(v) + Len(data[r]) /\ g = gen[r]
          BY <1>4, <1>5, <3>3 DEF Delivered
        <5>2. got[v] \in Nat /\ TakenBy(v) \in Nat
          BY DEF TypeInv, TypeOK, VoiceTypes, TakenBy
        <5>3. from + (i - Len(data[r])) - 1 = got[v] - TakenBy(v) + i - 1
          BY <4>2, <5>1, <5>2
        <5> QED
          BY <3>3, <4>2, <4>3, <4>5, <5>1, <5>3
      <4> QED
        BY <4>2, <4>4, <4>5
    <3> QED
      BY <3>2, <3>3
  <2> QED
    BY <1>2, <2>1 DEF InOrder, TakenBy, readerVars, voiceVars
<1> QED
  BY <1>10, <1>11, <1>12, <1>13, <1>14

LEMMA HalfFacts == HalfCapacity \in Nat /\ HalfCapacity > 0
BY StreamAssumption DEF HalfCapacity

\* No request of an earlier owner is current when a ring changes hands.
LEMMA NothingCurrent ==
  ASSUME IInv, NEW r \in Rings, ~inUse[r]
  PROVE  /\ \A i \in DOMAIN queue : Current(queue[i]) => queue[i].ring # r
         /\ \A w \in Workers : Carrying(w) => req[w].ring # r
BY DEF IInv, BasicInv, StampInv, GenInv, Stamped, Busy, Carrying

\* A step of the audio thread leaves what the workers carry as it is.
LEMMA SameCarrying ==
  ASSUME UNCHANGED <<gen, workerVars>>, NEW w \in Workers
  PROVE  Carrying(w)' <=> Carrying(w)
BY DEF Carrying, Current, workerVars

\* A voice that starts with a ring.
LEMMA FlightStart ==
  ASSUME IInv, NEW v \in Voices, NEW f \in Files, NEW r \in Rings,
         NEW n \in Nat, Acquired(v, f, r, n)
  PROVE  FlightInv'
<1> USE DEF IInv, BasicInv, StampInv, OwnerInv, FlightInv
<1>1. /\ ring[v] = None /\ cur = None /\ ~inUse[r] /\ got[v] = 0
      /\ n = AtMost(Capacity, f.len)
      /\ data' = [data EXCEPT ![r] = <<>>]
      /\ ring' = [ring EXCEPT ![v] = r] /\ file' = [file EXCEPT ![v] = f]
      /\ RequestRead(v, r, f, 0, n)
      /\ UNCHANGED <<gen, workerVars, got, cur, taken>>
  BY DEF Acquired, TypeInv, ReaderInv
<1>2. /\ \A u \in Voices : u # v =>
           /\ ring'[u] = ring[u] /\ file'[u] = file[u] /\ ring[u] # r
           /\ reqOff'[u] = reqOff[u] /\ pending'[u] = pending[u]
      /\ ring'[v] = r /\ file'[v] = f
  BY <1>1 DEF RequestRead, Sent, Unsent, RingOwnership, TypeInv, TypeOK, VoiceTypes
<1>3. /\ data'[r] = <<>> /\ \A q \in Rings : q # r => data'[q] = data[q]
      /\ Len(data'[r]) = 0
  BY <1>1 DEF TypeInv, TypeOK, RingTypes
<1>4. /\ \A i \in DOMAIN queue : Current(queue[i]) => queue[i].ring # r
      /\ \A w \in Workers : Carrying(w) => req[w].ring # r
  BY <1>1, NothingCurrent
<1>5. /\ DOMAIN queue = 1..Len(queue) /\ Len(queue) \in Nat
      /\ \A i \in DOMAIN queue : queue[i] \in Request /\ queue[i].ring \in Rings
  <2>1. /\ DOMAIN queue = 1..Len(queue) /\ Len(queue) \in Nat
        /\ \A i \in DOMAIN queue : queue[i] \in Request
    BY ElementOfSeq, LenProperties DEF TypeInv, TypeOK, QueueTypes
  <2> QED
    BY <2>1 DEF Request
<1>6. \A w \in Workers : Carrying(w) => req[w].ring \in Rings
  BY DEF Carrying, TypeInv, TypeOK, WorkerTypes, Request
<1>7. \A w \in Workers : Carrying(w)' <=> Carrying(w)
  BY <1>1, SameCarrying
<1>8. UNCHANGED <<pc, req, off, remain, chunk, hitEof>>
  BY <1>1 DEF workerVars
<1>9. TakenBy(v)' = 0 /\ \A u \in Voices : TakenBy(u)' = TakenBy(u)
  BY <1>1, StreamAssumption DEF TakenBy
<1>10. n <= Capacity /\ f.disk \in Nat
  BY <1>1, StreamAssumption DEF AtMost
<1>11. WorkInv'
  <2>1. ASSUME NEW u \in Voices, NEW w \in Workers, Carrying(w)', req'[w].ring = ring'[u]
        PROVE  Serving(u, w)'
    <3>1. Carrying(w) /\ req[w].ring # r /\ req[w].ring \in Rings
      BY <1>4, <1>6, <1>7, <2>1
    <3>2. u # v /\ ring[u] = req[w].ring
      BY <1>2, <1>8, <2>1, <3>1
    <3>3. Serving(u, w)
      BY <3>1, <3>2 DEF WorkInv
    <3> QED
      BY <1>1, <1>2, <1>3, <1>8, <3>1, <3>2, <3>3
         DEF Serving, Accounted, Delivered, TakenBy
  <2> QED
    BY <2>1 DEF WorkInv
<1>12. InOrder'
  <2>1. ASSUME NEW u \in Voices, ring'[u] # None, NEW i \in 1..Len(data'[ring'[u]])
        PROVE  data'[ring'[u]][i] =
                 [gen |-> gen[ring'[u]], pos |-> got[u] - TakenBy(u) + i - 1]
    <3>1. u # v
      BY <1>2, <1>3, <2>1
    <3>2. ring[u] \in Rings /\ ring[u] # r /\ ring'[u] = ring[u]
      BY <1>2, <2>1, <3>1 DEF TypeInv, TypeOK, VoiceTypes
    <3> QED
      BY <1>3, <2>1, <3>2 DEF InOrder
  <2> QED
    BY <1>1, <1>9, <2>1 DEF InOrder
<1>13. CASE queue' = queue /\ reqOff' = [reqOff EXCEPT ![v] = 0]
            /\ pending' = [pending EXCEPT ![v] = FALSE]
  <2>1. QueueInv'
    <3>1. ASSUME NEW u \in Voices, NEW i \in DOMAIN queue, Current(queue[i]),
                 queue[i].ring = ring'[u]
          PROVE  Accounted(u, queue[i].off, queue[i].n)' /\ queue[i].file = file'[u]
      <4>1. u # v /\ ring[u] = queue[i].ring /\ ring[u] \in Rings /\ ring[u] # r
        BY <1>2, <1>4, <1>5, <3>1
      <4> QED
        BY <1>1, <1>2, <1>3, <1>13, <3>1, <4>1
           DEF QueueInv, Accounted, Delivered, TakenBy
    <3> QED
      BY <1>1, <1>13, <3>1 DEF QueueInv, Current, Accounted, Delivered, TakenBy
  <2>2. UniqueInv'
    BY <1>1, <1>7, <1>8, <1>13 DEF UniqueInv, Current
  <2>3. OffsetInv'
    <3>1. ASSUME NEW u \in Voices, ring'[u] # None
          PROVE  \/ reqOff'[u] = Delivered(u)'
                 \/ reqOff'[u] >= file'[u].disk
                 \/ pending'[u] /\ Len(data'[ring'[u]]) < HalfCapacity
      <4>1. CASE u = v
        BY <1>1, <1>2, <1>3, <1>9, <1>13, <4>1
           DEF Delivered, TypeInv, TypeOK, VoiceTypes
      <4>2. CASE u # v
        <5>1. ring[u] \in Rings /\ ring[u] # r
          BY <1>2, <3>1, <4>2 DEF TypeInv, TypeOK, VoiceTypes
        <5> QED
          BY <1>1, <1>2, <1>3, <3>1, <4>2, <5>1 DEF OffsetInv, Delivered, TakenBy
      <4> QED
        BY <4>1, <4>2
    <3> QED
      BY <3>1 DEF OffsetInv
  <2> QED
    BY <1>11, <1>12, <2>1, <2>2, <2>3
<1>14. ASSUME NEW q \in Request,
              q.ring = r, q.file = f, q.off = 0, q.n = n, q.gen = gen[r],
              queue' \in Seq(Request), Len(queue') = Len(queue) + 1,
              \A i \in 1..Len(queue) : queue'[i] = queue[i],
              queue'[Len(queue) + 1] = q,
              reqOff' = [reqOff EXCEPT ![v] = 0 + n],
              pending' = [pending EXCEPT ![v] = TRUE]
       PROVE  FlightInv'
  <2>1. DOMAIN queue' = 1..(Len(queue) + 1)
    BY <1>14, LenProperties
  <2>2. \A i \in DOMAIN queue' : i \in DOMAIN queue \/ i = Len(queue) + 1
    BY <1>5, <2>1
  <2>3. \A i \in DOMAIN queue : i \in DOMAIN queue' /\ queue'[i] = queue[i]
                                /\ i # Len(queue) + 1
    BY <1>5, <1>14, <2>1
  <2>4. /\ reqOff'[v] = n /\ pending'[v] = TRUE
    BY <1>14 DEF TypeInv, TypeOK, VoiceTypes
  <2>5. QueueInv'
    <3>1. ASSUME NEW u \in Voices, NEW i \in DOMAIN queue', Current(queue[i])',
                 queue'[i].ring = ring'[u]
          PROVE  Accounted(u, queue[i].off, queue[i].n)' /\ queue'[i].file = file'[u]
      <4>1. CASE i \in DOMAIN queue
        <5>1. queue'[i] = queue[i] /\ Current(queue[i])
          BY <1>1, <2>3, <3>1, <4>1 DEF Current
        <5>2. u # v /\ ring[u] = queue[i].ring /\ ring[u] \in Rings /\ ring[u] # r
          BY <1>2, <1>4, <1>5, <3>1, <4>1, <5>1
        <5> QED
          BY <1>1, <1>2, <1>3, <3>1, <4>1, <5>1, <5>2
             DEF QueueInv, Accounted, Delivered, TakenBy
      <4>2. CASE i = Len(queue) + 1
        <5>1. u = v
          BY <1>2, <1>14, <3>1, <4>2
        <5> QED
          BY <1>1, <1>2, <1>3, <1>9, <1>10, <1>14, <2>4, <4>2, <5>1, HalfFacts
             DEF Accounted, Delivered
      <4> QED
        BY <2>2, <4>1, <4>2
    <3> QED
      BY <3>1 DEF QueueInv
  <2>6. UniqueInv'
    <3>1. ASSUME NEW i \in DOMAIN queue', NEW j \in DOMAIN queue',
                 Current(queue[i])', Current(queue[j])', queue'[i].ring = queue'[j].ring
          PROVE  i = j
      <4>1. CASE i \in DOMAIN queue /\ j \in DOMAIN queue
        BY <1>1, <2>3, <3>1, <4>1 DEF UniqueInv, Current
      <4>2. CASE i \in DOMAIN queue /\ j = Len(queue) + 1
        BY <1>1, <1>4, <1>14, <2>3, <3>1, <4>2 DEF Current
      <4>3. CASE i = Len(queue) + 1 /\ j \in DOMAIN queue
        BY <1>1, <1>4, <1>14, <2>3, <3>1, <4>3 DEF Current
      <4> QED
        BY <2>2, <4>1, <4>2, <4>3
    <3>2. ASSUME NEW i \in DOMAIN queue', NEW w \in Workers,
                 Current(queue[i])', Carrying(w)', queue'[i].ring = req'[w].ring
          PROVE  FALSE
      <4>1. Carrying(w) /\ req[w].ring # r /\ queue'[i].ring = req[w].ring
        BY <1>4, <1>7, <1>8, <3>2
      <4>2. CASE i \in DOMAIN queue
        <5>1. queue'[i] = queue[i] /\ Current(queue[i])
          BY <1>1, <2>3, <3>2, <4>2 DEF Current
        <5> QED
          BY <4>1, <4>2, <5>1 DEF UniqueInv
      <4>3. CASE i = Len(queue) + 1
        BY <1>14, <4>1, <4>3
      <4> QED
        BY <2>2, <4>2, <4>3
    <3>3. \A u, w \in Workers : Carrying(u)' /\ Carrying(w)' /\ req'[u].ring = req'[w].ring
                                  => u = w
      BY <1>7, <1>8 DEF UniqueInv
    <3> QED
      BY <3>1, <3>2, <3>3 DEF UniqueInv
  <2>7. OffsetInv'
    <3>1. ASSUME NEW u \in Voices, ring'[u] # None
          PROVE  \/ reqOff'[u] = Delivered(u)'
                 \/ reqOff'[u] >= file'[u].disk
                 \/ pending'[u] /\ Len(data'[ring'[u]]) < HalfCapacity
      <4>1. CASE u = v
        BY <1>2, <1>3, <2>4, <4>1, HalfFacts
      <4>2. CASE u # v
        <5>1. ring[u] \in Rings /\ ring[u] # r
          BY <1>2, <3>1, <4>2 DEF TypeInv, TypeOK, VoiceTypes
        <5> QED
          BY <1>1, <1>2, <1>3, <3>1, <4>2, <5>1 DEF OffsetInv, Delivered, TakenBy
      <4> QED
        BY <4>1, <4>2
    <3> QED
      BY <3>1 DEF OffsetInv
  <2> QED
    BY <1>11, <1>12, <2>5, <2>6, <2>7
<1>15. \/ /\ queue' = queue
          /\ reqOff' = [reqOff EXCEPT ![v] = 0]
          /\ pending' = [pending EXCEPT ![v] = FALSE]
       \/ \E q \in Request :
            /\ q.ring = r /\ q.file = f /\ q.off = 0 /\ q.n = n
            /\ q.gen = gen[r]
            /\ queue' \in Seq(Request) /\ Len(queue') = Len(queue) + 1
            /\ \A i \in 1..Len(queue) : queue'[i] = queue[i]
            /\ queue'[Len(queue) + 1] = q
            /\ reqOff' = [reqOff EXCEPT ![v] = 0 + n]
            /\ pending' = [pending EXCEPT ![v] = TRUE]
  <2>1. TypeInv /\ 0 \in Nat
    OBVIOUS
  <2>2. RequestRead(v, r, f, 0, n)
    BY <1>1
  <2> HIDE DEF IInv, BasicInv, StampInv, OwnerInv, FlightInv
  <2> QED
    BY <2>1, <2>2, RequestFacts, Zenon
<1> QED
  BY <1>13, <1>14, <1>15

\* A voice that gives its ring back.
LEMMA FlightRelease ==
  ASSUME IInv, NEW v \in Voices, ReleaseRing(v), cur \in {None, v},
         cur' = None, taken' = 0, UNCHANGED <<queue, workerVars>>,
         \A q \in Rings : q # ring[v] => data'[q] = data[q]
  PROVE  FlightInv'
<1> USE DEF IInv, BasicInv, StampInv, OwnerInv, FlightInv
<1>1. /\ \A u \in Voices : u # v =>
           /\ ring'[u] = ring[u] /\ file'[u] = file[u] /\ reqOff'[u] = reqOff[u]
           /\ pending'[u] = pending[u] /\ got'[u] = got[u]
           /\ (ring[u] # None => ring[u] # ring[v])
      /\ ring'[v] = None
  BY DEF ReleaseRing, RingOwnership, TypeInv, TypeOK, VoiceTypes
<1>2. \A u \in Voices : u # v => TakenBy(u) = 0 /\ TakenBy(u)' = 0
  BY StreamAssumption DEF TakenBy
<1>3. \A q \in Rings : /\ q # ring[v] => gen'[q] = gen[q]
                       /\ q = ring[v] => gen'[q] = gen[q] + 1
                       /\ gen[q] \in Nat
  BY DEF ReleaseRing, TypeInv, TypeOK, RingTypes
<1>4. ASSUME NEW i \in DOMAIN queue, Current(queue[i])'
      PROVE  Current(queue[i]) /\ queue[i].ring # ring[v] /\ queue[i].ring \in Rings
  <2>1. queue[i] \in Request
    BY ElementOfSeq, LenProperties DEF TypeInv, TypeOK, QueueTypes
  <2>2. queue[i].ring \in Rings /\ queue[i].gen \in Nat
    BY <2>1 DEF Request
  <2>3. queue[i].gen <= gen[queue[i].ring]
    BY DEF GenInv, Stamped
  <2> QED
    BY <1>3, <1>4, <2>2, <2>3 DEF Current
<1>5. ASSUME NEW w \in Workers, Carrying(w)'
      PROVE  Carrying(w) /\ req[w].ring # ring[v] /\ req[w].ring \in Rings
  <2>1. req[w] \in Request
    BY <1>5 DEF Carrying, TypeInv, TypeOK, WorkerTypes, workerVars
  <2>2. req[w].ring \in Rings /\ req[w].gen \in Nat
    BY <2>1 DEF Request
  <2>3. req[w].gen <= gen[req[w].ring]
    BY <1>5 DEF GenInv, Stamped, Busy, Carrying, workerVars
  <2> QED
    BY <1>3, <1>5, <2>2, <2>3 DEF Current, Carrying, workerVars
<1>6. ASSUME NEW u \in Voices, ring'[u] # None
      PROVE  u # v /\ ring[u] \in Rings /\ ring[u] # ring[v]
             /\ data'[ring[u]] = data[ring[u]] /\ gen'[ring[u]] = gen[ring[u]]
  <2>1. u # v /\ ring[u] # ring[v] /\ ring[u] \in Rings
    BY <1>1, <1>6 DEF TypeInv, TypeOK, VoiceTypes
  <2> QED
    BY <1>3, <2>1
<1>7. None \notin Rings
  BY StreamAssumption
<1>8. QueueInv'
  <2>1. ASSUME NEW u \in Voices, NEW i \in DOMAIN queue, Current(queue[i])',
               queue[i].ring = ring'[u]
        PROVE  Accounted(u, queue[i].off, queue[i].n)' /\ queue[i].file = file'[u]
    <3>1. /\ u # v /\ ring[u] = queue[i].ring /\ Current(queue[i])
          /\ data'[ring[u]] = data[ring[u]]
      BY <1>1, <1>4, <1>6, <1>7, <2>1
    <3>2. Accounted(u, queue[i].off, queue[i].n) /\ queue[i].file = file[u]
      BY <3>1 DEF QueueInv
    <3> QED
      BY <1>1, <1>2, <3>1, <3>2 DEF Accounted, Delivered
  <2> QED
    BY <2>1 DEF QueueInv, Current, Accounted, Delivered, TakenBy
<1>9. WorkInv'
  <2>1. ASSUME NEW u \in Voices, NEW w \in Workers, Carrying(w)', req'[w].ring = ring'[u]
        PROVE  Serving(u, w)'
    <3>1. /\ u # v /\ ring[u] = req[w].ring /\ Carrying(w)
          /\ data'[ring[u]] = data[ring[u]]
          /\ UNCHANGED <<pc, req, off, remain, chunk, hitEof>>
      BY <1>1, <1>5, <1>6, <1>7, <2>1 DEF workerVars
    <3>2. Serving(u, w)
      BY <3>1 DEF WorkInv
    <3> QED
      BY <1>1, <1>2, <3>1, <3>2 DEF Serving, Accounted, Delivered
  <2> QED
    BY <2>1 DEF WorkInv
<1>10. UniqueInv'
  BY <1>4, <1>5 DEF UniqueInv, workerVars
<1>11. OffsetInv'
  <2>1. ASSUME NEW u \in Voices, ring'[u] # None
        PROVE  \/ reqOff'[u] = Delivered(u)'
               \/ reqOff'[u] >= file'[u].disk
               \/ pending'[u] /\ Len(data'[ring'[u]]) < HalfCapacity
    BY <1>1, <1>2, <1>6, <2>1 DEF OffsetInv, Delivered
  <2> QED
    BY <2>1 DEF OffsetInv
<1>12. InOrder'
  <2>1. ASSUME NEW u \in Voices, ring'[u] # None, NEW i \in 1..Len(data'[ring'[u]])
        PROVE  data'[ring'[u]][i] =
                 [gen |-> gen'[ring'[u]], pos |-> got'[u] - TakenBy(u)' + i - 1]
    BY <1>1, <1>2, <1>6, <2>1 DEF InOrder
  <2> QED
    BY <2>1 DEF InOrder, TakenBy
<1> QED
  BY <1>8, <1>9, <1>10, <1>11, <1>12

\* Inside a block the frames popped stay in the ring and are counted twice,
\* in got and in taken; a voice without a ring has no frames under way.
LEMMA FlightBlock ==
  ASSUME IInv, NEW v \in Voices,
         \/ OpenBlock(v) \/ PopFrame(v) \/ RingEmpty(v)
  PROVE  FlightInv'
<1> USE DEF IInv, BasicInv, StampInv, OwnerInv, FlightInv
<1>1. UNCHANGED <<data, gen, queue, workerVars, readerVars>>
  BY DEF OpenBlock, PopFrame, RingEmpty, ringVars
<1>2. UNCHANGED <<pc, req, off, remain, chunk, hitEof, ring, file, reqOff, pending>>
  BY <1>1 DEF workerVars, readerVars
<1>3. \A u \in Voices : got'[u] - TakenBy(u)' = got[u] - TakenBy(u)
  BY StreamAssumption
     DEF OpenBlock, PopFrame, RingEmpty, TakenBy, TypeInv, TypeOK, VoiceTypes, ReaderInv
<1>4. \A u \in Voices : Delivered(u)' = Delivered(u)
  BY <1>1, <1>2, <1>3 DEF Delivered
<1>5. QueueInv' /\ WorkInv' /\ UniqueInv' /\ OffsetInv'
  BY <1>1, <1>2, <1>4
     DEF QueueInv, WorkInv, Serving, UniqueInv, OffsetInv, Accounted, Carrying, Current
<1>6. InOrder'
  BY <1>1, <1>2, <1>3 DEF InOrder
<1> QED
  BY <1>5, <1>6

\* The end of a block: the commit removes what was taken, and a refill is
\* sent only when no request of this ownership is under way.
LEMMA FlightClose ==
  ASSUME SmallThreshold, IInv, NEW v \in Voices, CloseBlock(v)
  PROVE  FlightInv'
<1> USE DEF IInv, BasicInv, StampInv, OwnerInv, FlightInv
<1>1. PICK r \in Rings, n \in Nat, f \in Files, from \in Nat :
        Closed(v, r, n, f, from) /\ Refilled(v, r, n, f, from)
  BY CloseFacts
<1>2. /\ cur = v /\ ring[v] = r /\ taken = n /\ file[v] = f /\ reqOff[v] = from
      /\ n <= Len(data[r]) /\ n <= got[v]
      /\ cur' = None /\ taken' = 0
      /\ UNCHANGED <<gen, threshold, workerVars, ring, file, got>>
  BY <1>1 DEF Closed
<1>3. /\ Len(data'[r]) = Len(data[r]) - n
      /\ \A i \in 1..(Len(data[r]) - n) : data'[r][i] = data[r][n + i]
      /\ \A q \in Rings : q # r => data'[q] = data[q]
  BY <1>1 DEF Closed, TypeInv, TypeOK, RingTypes
<1>4. Len(data[r]) \in Nat /\ got[v] \in Nat /\ f.disk \in Nat /\ f.len \in Nat
  BY LenProperties, StreamAssumption DEF TypeInv, TypeOK, RingTypes, VoiceTypes
<1>5. PICK avail \in Nat : avail = Len(data[r]) - n
  <2>1. Len(data[r]) - n \in Nat
    BY <1>2, <1>4
  <2> QED
    BY <2>1
<1>6. \A u \in Voices : u # v => ring[u] # r /\ TakenBy(u) = 0 /\ TakenBy(u)' = 0
  BY <1>2, StreamAssumption DEF TakenBy, RingOwnership
<1>7. TakenBy(v) = n /\ TakenBy(v)' = 0
  BY <1>2, StreamAssumption DEF TakenBy
<1>8. Delivered(v)' = Delivered(v) /\ Delivered(v) = got[v] - n + Len(data[r])
  <2>1. Delivered(v) = got[v] - n + Len(data[r])
    BY <1>2, <1>7 DEF Delivered
  <2>2. Delivered(v)' = got[v] - 0 + (Len(data[r]) - n)
    BY <1>2, <1>3, <1>7 DEF Delivered
  <2> QED
    BY <1>4, <2>1, <2>2
<1>9. UNCHANGED <<pc, req, off, remain, chunk, hitEof>>
  BY <1>2 DEF workerVars
<1>10. \A u \in Voices : u # v => reqOff'[u] = reqOff[u] /\ pending'[u] = pending[u]
  BY <1>1 DEF Refilled, TypeInv, TypeOK, VoiceTypes
<1>11. \A u \in Voices : ring[u] \in Rings /\ u # v =>
          data'[ring[u]] = data[ring[u]] /\ Delivered(u)' = Delivered(u)
  BY <1>2, <1>3, <1>6 DEF Delivered
<1>12. /\ DOMAIN queue = 1..Len(queue) /\ Len(queue) \in Nat
       /\ \A i \in DOMAIN queue : queue[i].ring \in Rings
  <2>1. /\ DOMAIN queue = 1..Len(queue) /\ Len(queue) \in Nat
        /\ \A i \in DOMAIN queue : queue[i] \in Request
    BY ElementOfSeq, LenProperties DEF TypeInv, TypeOK, QueueTypes
  <2> QED
    BY <2>1 DEF Request
<1>13. \A w \in Workers : Carrying(w) => req[w].ring \in Rings
  BY DEF Carrying, TypeInv, TypeOK, WorkerTypes, Request
<1>14. \A w \in Workers : Carrying(w)' <=> Carrying(w)
  BY <1>2, SameCarrying
<1>15. InOrder'
  <2>1. ASSUME NEW u \in Voices, ring[u] # None, NEW i \in 1..Len(data'[ring[u]])
        PROVE  data'[ring[u]][i] =
                 [gen |-> gen[ring[u]], pos |-> got[u] - TakenBy(u)' + i - 1]
    <3>1. CASE u = v
      <4>1. i \in 1..(Len(data[r]) - n) /\ n + i \in 1..Len(data[r])
        BY <1>2, <1>3, <1>4, <2>1, <3>1
      <4>2. data[r][n + i] = [gen |-> gen[r], pos |-> got[v] - n + (n + i) - 1]
        BY <1>2, <1>7, <2>1, <3>1, <4>1 DEF InOrder
      <4>3. got[v] - n + (n + i) - 1 = got[v] - 0 + i - 1
        BY <1>4, <4>1
      <4> QED
        BY <1>2, <1>3, <1>7, <3>1, <4>1, <4>2, <4>3
    <3>2. CASE u # v
      <4>1. ring[u] \in Rings
        BY <2>1 DEF TypeInv, TypeOK, VoiceTypes
      <4> QED
        BY <1>6, <1>11, <2>1, <3>2, <4>1 DEF InOrder
    <3> QED
      BY <3>1, <3>2
  <2> QED
    BY <1>2, <2>1 DEF InOrder, TakenBy
\* A request for the voice's ring that is under way keeps pending set.
<1>16. ASSUME NEW k \in Nat, NEW m \in Nat, Accounted(v, k, m),
              reqOff' = reqOff,
              pending' = [pending EXCEPT ![v] = pending[v] /\ avail < HalfCapacity]
       PROVE  Accounted(v, k, m)'
  <2>1. avail < HalfCapacity /\ avail + m <= Capacity /\ pending[v]
    BY <1>2, <1>4, <1>5, <1>16, HalfFacts, StreamAssumption DEF Accounted
  <2>2. pending'[v]
    BY <1>16, <2>1 DEF TypeInv, TypeOK, VoiceTypes
  <2> QED
    BY <1>2, <1>3, <1>5, <1>8, <1>16, <2>1, <2>2 DEF Accounted
<1>17. CASE queue' = queue /\ reqOff' = reqOff
            /\ pending' = [pending EXCEPT ![v] = pending[v] /\ avail < HalfCapacity]
  <2>1. QueueInv'
    <3>1. ASSUME NEW u \in Voices, NEW i \in DOMAIN queue, Current(queue[i]),
                 queue[i].ring = ring[u]
          PROVE  Accounted(u, queue[i].off, queue[i].n)' /\ queue[i].file = file[u]
      <4>1. queue[i] \in Request
        BY ElementOfSeq, <1>12 DEF TypeInv, TypeOK, QueueTypes
      <4>2. PICK k \in Nat, m \in Nat : k = queue[i].off /\ m = queue[i].n
        BY <4>1 DEF Request
      <4>3. Accounted(u, k, m) /\ queue[i].file = file[u]
        BY <3>1, <4>2 DEF QueueInv, Accounted
      <4>4. Accounted(u, k, m)'
        <5>1. CASE u = v
          BY <1>16, <1>17, <4>3, <5>1
        <5>2. CASE u # v
          BY <1>2, <1>10, <1>11, <1>12, <3>1, <4>3, <5>2 DEF Accounted
        <5> QED
          BY <5>1, <5>2
      <4> QED
        BY <1>17, <4>2, <4>3, <4>4 DEF Accounted
    <3> QED
      BY <1>2, <1>17, <3>1 DEF QueueInv, Current, Accounted
  <2>2. WorkInv'
    <3>1. ASSUME NEW u \in Voices, NEW w \in Workers, Carrying(w), req[w].ring = ring[u]
          PROVE  Serving(u, w)'
      <4>1. Serving(u, w)
        BY <3>1 DEF WorkInv
      <4>2. PICK k \in Nat, m \in Nat : k = off[w] /\ m = remain[w]
        BY DEF TypeInv, TypeOK, WorkerTypes
      <4>3. Accounted(u, k, m)
        BY <4>1, <4>2 DEF Serving, Accounted
      <4>4. Accounted(u, k, m)'
        <5>1. CASE u = v
          BY <1>16, <1>17, <4>3, <5>1
        <5>2. CASE u # v
          BY <1>2, <1>10, <1>11, <1>13, <3>1, <4>3, <5>2 DEF Accounted
        <5> QED
          BY <5>1, <5>2
      <4>5. Delivered(u)' = Delivered(u)
        BY <1>8, <1>11, <1>13, <3>1
      <4> QED
        BY <1>2, <1>9, <4>1, <4>2, <4>4, <4>5 DEF Serving, Accounted
    <3> QED
      BY <1>2, <1>9, <1>14, <3>1 DEF WorkInv
  <2>3. UniqueInv'
    BY <1>2, <1>9, <1>14, <1>17 DEF UniqueInv, Current
  <2>4. OffsetInv'
    <3>1. ASSUME NEW u \in Voices, ring[u] # None
          PROVE  \/ reqOff[u] = Delivered(u)'
                 \/ reqOff[u] >= file[u].disk
                 \/ pending'[u] /\ Len(data'[ring[u]]) < HalfCapacity
      <4>1. CASE u = v
        <5>1. CASE pending[v] /\ Len(data[r]) < HalfCapacity
          <6>1. avail < HalfCapacity
            BY <1>4, <1>5, <5>1, HalfFacts
          <6> QED
            BY <1>2, <1>3, <1>5, <1>17, <4>1, <5>1, <6>1 DEF TypeInv, TypeOK, VoiceTypes
        <5>2. CASE ~(pending[v] /\ Len(data[r]) < HalfCapacity)
          BY <1>2, <1>8, <3>1, <4>1, <5>2 DEF OffsetInv
        <5> QED
          BY <5>1, <5>2
      <4>2. CASE u # v
        <5>1. ring[u] \in Rings
          BY <3>1 DEF TypeInv, TypeOK, VoiceTypes
        <5> QED
          BY <1>10, <1>11, <3>1, <4>2, <5>1 DEF OffsetInv
      <4> QED
        BY <4>1, <4>2
    <3> QED
      BY <1>2, <1>17, <3>1 DEF OffsetInv
  <2> QED
    BY <1>15, <2>1, <2>2, <2>3, <2>4

<1>18. CASE /\ queue' = queue /\ reqOff' = [reqOff EXCEPT ![v] = from]
            /\ pending' = [pending EXCEPT ![v] = FALSE]
            /\ ~(pending[v] /\ avail < HalfCapacity)
  <2>1. reqOff' = reqOff
    BY <1>2, <1>18 DEF TypeInv, TypeOK, VoiceTypes
  <2>2. (pending[v] /\ avail < HalfCapacity) = FALSE
    BY <1>18
  <2>3. pending' = [pending EXCEPT ![v] = pending[v] /\ avail < HalfCapacity]
    BY <1>18, <2>2
  <2> QED
    BY <1>17, <1>18, <2>1, <2>3
<1>19. ASSUME NEW q \in Request,
              ~(pending[v] /\ avail < HalfCapacity), avail < threshold, from < f.len,
              q.ring = r, q.file = f, q.off = from,
              q.n = AtMost(Capacity - avail, f.len - from), q.gen = gen[r],
              queue' \in Seq(Request), Len(queue') = Len(queue) + 1,
              \A i \in 1..Len(queue) : queue'[i] = queue[i],
              queue'[Len(queue) + 1] = q,
              reqOff' = [reqOff EXCEPT ![v] = from + q.n],
              pending' = [pending EXCEPT ![v] = TRUE]
       PROVE  FlightInv'
  <2>1. ~(pending[v] /\ Len(data[r]) < HalfCapacity)
    BY <1>4, <1>5, <1>19, HalfFacts
  <2>2. /\ \A i \in DOMAIN queue : Current(queue[i]) => queue[i].ring # r
        /\ \A w \in Workers : Carrying(w) => req[w].ring # r
    BY <1>2, <2>1 DEF QueueInv, WorkInv, Serving, Accounted
  <2>3. /\ avail < HalfCapacity /\ q.n \in Nat /\ avail + q.n <= Capacity
        /\ reqOff'[v] = from + q.n /\ pending'[v] = TRUE
        /\ Len(data'[r]) = avail
    <3>1. avail < HalfCapacity
      BY <1>19, HalfFacts, StreamAssumption
         DEF SmallThreshold, TypeInv, TypeOK, QueueTypes
    <3>2. q.n \in Nat
      BY DEF Request
    <3>3. avail + q.n <= Capacity
      BY <1>4, <1>19, <3>2, StreamAssumption DEF AtMost
    <3> QED
      BY <1>3, <1>5, <1>19, <3>1, <3>2, <3>3 DEF TypeInv, TypeOK, VoiceTypes
  <2>4. from = Delivered(v) \/ from >= f.disk
    BY <1>2, <2>1, StreamAssumption DEF OffsetInv
  <2>5. DOMAIN queue' = 1..(Len(queue) + 1)
    BY <1>19, LenProperties
  <2>6. \A i \in DOMAIN queue' : i \in DOMAIN queue \/ i = Len(queue) + 1
    BY <1>12, <2>5
  <2>7. \A i \in DOMAIN queue : i \in DOMAIN queue' /\ queue'[i] = queue[i]
                                /\ i # Len(queue) + 1
    BY <1>12, <1>19, <2>5
  <2>8. QueueInv'
    <3>1. ASSUME NEW u \in Voices, NEW i \in DOMAIN queue', Current(queue[i])',
                 queue'[i].ring = ring[u]
          PROVE  Accounted(u, queue[i].off, queue[i].n)' /\ queue'[i].file = file[u]
      <4>1. CASE i \in DOMAIN queue
        <5>1. queue'[i] = queue[i] /\ Current(queue[i])
          BY <1>2, <2>7, <3>1, <4>1 DEF Current
        <5>2. u # v /\ ring[u] = queue[i].ring /\ ring[u] \in Rings
          BY <1>2, <1>12, <2>2, <3>1, <4>1, <5>1
        <5> QED
          BY <1>2, <1>10, <1>11, <3>1, <4>1, <5>1, <5>2 DEF QueueInv, Accounted
      <4>2. CASE i = Len(queue) + 1
        <5>1. u = v
          BY <1>6, <1>19, <3>1, <4>2
        <5> QED
          BY <1>2, <1>8, <1>19, <2>3, <2>4, <4>2, <5>1 DEF Accounted
      <4> QED
        BY <2>6, <4>1, <4>2
    <3> QED
      BY <1>2, <3>1 DEF QueueInv
  <2>9. WorkInv'
    <3>1. ASSUME NEW u \in Voices, NEW w \in Workers, Carrying(w), req[w].ring = ring[u]
          PROVE  Serving(u, w)'
      <4>1. u # v /\ ring[u] \in Rings
        BY <1>2, <1>13, <2>2, <3>1
      <4>2. Serving(u, w)
        BY <3>1 DEF WorkInv
      <4> QED
        BY <1>2, <1>9, <1>10, <1>11, <4>1, <4>2 DEF Serving, Accounted
    <3> QED
      BY <1>2, <1>9, <1>14, <3>1 DEF WorkInv
  <2>10. UniqueInv'
    <3>1. ASSUME NEW i \in DOMAIN queue', NEW j \in DOMAIN queue',
                 Current(queue[i])', Current(queue[j])', queue'[i].ring = queue'[j].ring
          PROVE  i = j
      <4>1. CASE i \in DOMAIN queue /\ j \in DOMAIN queue
        BY <1>2, <2>7, <3>1, <4>1 DEF UniqueInv, Current
      <4>2. CASE i \in DOMAIN queue /\ j = Len(queue) + 1
        BY <1>2, <1>19, <2>2, <2>7, <3>1, <4>2 DEF Current
      <4>3. CASE i = Len(queue) + 1 /\ j \in DOMAIN queue
        BY <1>2, <1>19, <2>2, <2>7, <3>1, <4>3 DEF Current
      <4> QED
        BY <2>6, <4>1, <4>2, <4>3
    <3>2. ASSUME NEW i \in DOMAIN queue', NEW w \in Workers,
                 Current(queue[i])', Carrying(w)', queue'[i].ring = req'[w].ring
          PROVE  FALSE
      <4>1. Carrying(w) /\ req[w].ring # r /\ queue'[i].ring = req[w].ring
        BY <1>9, <1>14, <2>2, <3>2
      <4>2. CASE i \in DOMAIN queue
        <5>1. queue'[i] = queue[i] /\ Current(queue[i])
          BY <1>2, <2>7, <3>2, <4>2 DEF Current
        <5> QED
          BY <4>1, <4>2, <5>1 DEF UniqueInv
      <4>3. CASE i = Len(queue) + 1
        BY <1>19, <4>1, <4>3
      <4> QED
        BY <2>6, <4>2, <4>3
    <3>3. \A u, w \in Workers : Carrying(u)' /\ Carrying(w)' /\ req'[u].ring = req'[w].ring
                                  => u = w
      BY <1>9, <1>14 DEF UniqueInv
    <3> QED
      BY <3>1, <3>2, <3>3 DEF UniqueInv
  <2>11. OffsetInv'
    <3>1. ASSUME NEW u \in Voices, ring[u] # None
          PROVE  \/ reqOff'[u] = Delivered(u)'
                 \/ reqOff'[u] >= file[u].disk
                 \/ pending'[u] /\ Len(data'[ring[u]]) < HalfCapacity
      <4>1. CASE u = v
        BY <1>2, <2>3, <4>1
      <4>2. CASE u # v
        <5>1. ring[u] \in Rings
          BY <3>1 DEF TypeInv, TypeOK, VoiceTypes
        <5> QED
          BY <1>10, <1>11, <3>1, <4>2, <5>1 DEF OffsetInv
      <4> QED
        BY <4>1, <4>2
    <3> QED
      BY <1>2, <3>1 DEF OffsetInv
  <2> QED
    BY <1>15, <2>8, <2>9, <2>10, <2>11
<1> QED
  <2>1. Refilled(v, r, n, f, from)
    BY <1>1
  <2> HIDE DEF IInv, BasicInv, StampInv, OwnerInv, FlightInv
  <2> QED
    BY <1>5, <1>17, <1>18, <1>19, <2>1 DEF Refilled

-----------------------------------------------------------------------------
(* The theorems. *)

\* The steps that touch no ring, no request and no ring's voice.
LEMMA FlightQuiet ==
  ASSUME IInv,
         UNCHANGED <<data, gen, queue, workerVars, ring, reqOff, pending, got,
                     cur, taken>>,
         \A v \in Voices : ring[v] # None => file'[v] = file[v]
  PROVE  FlightInv'
<1> USE DEF IInv, BasicInv, StampInv, OwnerInv, FlightInv
<1>1. UNCHANGED <<pc, req, off, remain, chunk, hitEof>>
  BY DEF workerVars
<1>2. \A i \in DOMAIN queue : queue[i].ring # None
  <2>1. \A i \in DOMAIN queue : queue[i] \in Request
    BY ElementOfSeq, LenProperties DEF TypeInv, TypeOK, QueueTypes
  <2>2. \A i \in DOMAIN queue : queue[i].ring \in Rings
    BY <2>1 DEF Request
  <2> QED
    BY <2>2, StreamAssumption
<1>3. \A w \in Workers : Carrying(w) => req[w].ring # None
  BY StreamAssumption DEF Carrying, TypeInv, TypeOK, WorkerTypes, Request
<1>4. QueueInv' /\ WorkInv'
  BY <1>1, <1>2, <1>3
     DEF QueueInv, WorkInv, Serving, Accounted, Delivered, TakenBy, Carrying, Current
<1>5. UniqueInv' /\ OffsetInv' /\ InOrder'
  BY <1>1 DEF UniqueInv, OffsetInv, InOrder, Delivered, TakenBy, Carrying, Current
<1> QED
  BY <1>4, <1>5

LEMMA FlightNext ==
  ASSUME SmallThreshold, IInv, [Next]_vars
  PROVE  IInv'
<1> USE DEF IInv
<1>1. BasicInv'
  BY BasicNext
<1>2. ASSUME NEW w \in Workers, WorkerStep(w) PROVE FlightInv'
  BY <1>2, FlightTake, FlightDrop, FlightSize, FlightRead, FlightLock, FlightPublish
     DEF WorkerStep
<1>3. ASSUME NEW v \in Voices, AudioStep(v) PROVE FlightInv'
  <2>1. ASSUME NEW f \in Files, StartVoice(v, f) PROVE FlightInv'
    <3>1. CASE /\ ring[v] = None /\ file' = [file EXCEPT ![v] = f]
               /\ UNCHANGED <<ringVars, queue, threshold, run, workerVars, ring,
                              reqOff, pending, verdict, got, cur, taken>>
      <4>1. \A u \in Voices : ring[u] # None => file'[u] = file[u]
        BY <3>1 DEF BasicInv, StampInv, OwnerInv, TypeInv, TypeOK, VoiceTypes
      <4> QED
        BY <3>1, <4>1, FlightQuiet DEF ringVars
    <3>2. ASSUME NEW r \in Rings, NEW n \in Nat, Acquired(v, f, r, n)
          PROVE  FlightInv'
      BY <3>2, FlightStart
    <3> QED
      BY <2>1, <3>1, <3>2, StartFacts DEF BasicInv, StampInv, OwnerInv
  <2>2. CASE EndVoice(v)
    BY <2>2, FlightRelease
       DEF EndVoice, BasicInv, StampInv, OwnerInv, TypeInv, ReaderInv
  <2>3. CASE CloseAndEnd(v)
    <3>1. \A q \in Rings : q # ring[v] => data'[q] = data[q]
      BY <2>3 DEF CloseAndEnd, Commit, BasicInv, StampInv, OwnerInv, TypeInv, TypeOK,
         RingTypes
    <3> QED
      BY <2>3, <3>1, FlightRelease DEF CloseAndEnd
  <2>4. CASE CloseBlock(v)
    BY <2>4, FlightClose
  <2> QED
    BY <1>3, <2>1, <2>2, <2>3, <2>4, FlightBlock DEF AudioStep
<1>4. ASSUME Stop \/ (\E t \in Thresholds : SetThreshold(t)) \/ UNCHANGED vars
      PROVE  FlightInv'
  BY <1>4, FlightQuiet DEF Stop, SetThreshold, ringVars, readerVars, voiceVars, vars
<1>5. FlightInv'
  BY <1>2, <1>3, <1>4 DEF Next
<1> QED
  BY <1>1, <1>5

LEMMA FlightInit == Init => IInv
<1> SUFFICES ASSUME Init PROVE IInv
  OBVIOUS
<1>1. OwnerInv
  <2>1. RingOwnership
    BY StreamAssumption DEF Init, RingOwnership
  <2> QED
    BY <2>1, TypeInit DEF OwnerInv
<1>2. DOMAIN queue = {}
  BY DEF Init
<1>3. \A w \in Workers : pc[w] = "idle"
  BY DEF Init
<1>4. GenInv /\ LockInv
  BY <1>2, <1>3 DEF GenInv, Busy, LockInv, Writing
<1>5. QueueInv /\ WorkInv /\ UniqueInv
  BY <1>2, <1>3 DEF QueueInv, WorkInv, UniqueInv, Carrying
<1>6. OffsetInv /\ InOrder
  BY StreamAssumption DEF Init, OffsetInv, InOrder
<1> QED
  BY <1>1, <1>4, <1>5, <1>6 DEF IInv, BasicInv, StampInv, FlightInv

\* The inductive invariant holds for every instance whose refill thresholds
\* are at most half a ring.
THEOREM StreamInvariantHolds == SmallThreshold => (Spec => []IInv)
<1> SUFFICES ASSUME SmallThreshold PROVE Spec => []IInv
  OBVIOUS
<1>1. Init => IInv
  BY FlightInit
<1>2. IInv /\ [Next]_vars => IInv'
  BY FlightNext
<1> QED
  BY <1>1, <1>2, PTL DEF Spec

\* A voice never finds a frame of an earlier owner in its ring, none is lost,
\* repeated or out of order, whatever the workers and the other voices do.
THEOREM InOrderCorrect == SmallThreshold => (Spec => []InOrder)
<1>1. IInv => InOrder
  BY DEF IInv, FlightInv
<1> QED
  BY <1>1, StreamInvariantHolds, PTL

\* No worker is ever held up by the full ring of a voice that still plays.
THEOREM NoWaitCorrect == SmallThreshold => (Spec => []NoWaitOnFullRing)
<1>1. IInv => NoWaitOnFullRing
  <2> SUFFICES ASSUME IInv, NEW w \in Workers, pc[w] = "loop", Current(req[w])
               PROVE  Len(data[req[w].ring]) + remain[w] <= Capacity
    BY DEF NoWaitOnFullRing
  <2> USE DEF IInv, BasicInv, StampInv, OwnerInv, TypeInv, TypeOK
  <2>1. req[w] \in Request
    BY DEF WorkerTypes
  <2>2. req[w].ring \in Rings
    BY <2>1 DEF Request
  <2>3. /\ Len(data[req[w].ring]) \in Nat /\ Len(data[req[w].ring]) <= Capacity
        /\ remain[w] \in Nat
    BY <2>2, LenProperties DEF RingTypes, WorkerTypes
  <2>4. CASE remain[w] = 0
    BY <2>3, <2>4, StreamAssumption
  <2>5. CASE remain[w] # 0
    <3>1. inUse[req[w].ring]
      BY DEF GenInv, Stamped, Busy
    <3>2. PICK v \in Voices : ring[v] = req[w].ring
      BY <2>2, <3>1 DEF RingOwnership
    <3>3. Serving(v, w)
      BY <2>3, <2>5, <3>2 DEF FlightInv, WorkInv, Carrying
    <3> QED
      BY <3>2, <3>3 DEF Serving, Accounted
  <2> QED
    BY <2>4, <2>5
<1> QED
  BY <1>1, StreamInvariantHolds, PTL

-----------------------------------------------------------------------------
(* What a chunk holds. *)

\* What a worker has read is of its file, and it has read something.
ReadInv ==
  \A w \in Workers : pc[w] \in {"lock", "write", "copy"} =>
    /\ chunk[w] > 0
    /\ off[w] + chunk[w] <= req[w].file.disk

LEMMA ReadKeeps ==
  ASSUME TypeInv, ReadInv, [Next]_vars
  PROVE  ReadInv'
<1> USE DEF TypeInv, TypeOK, ReadInv, WorkerTypes, Goto, NextRound
<1>1. ASSUME NEW w \in Workers, WorkerStep(w)
      PROVE  ReadInv'
  <2>1. ASSUME NEW u \in Workers, u # w
        PROVE  /\ pc'[u] = pc[u] /\ chunk'[u] = chunk[u]
               /\ off'[u] = off[u] /\ req'[u] = req[u]
    BY <1>1, <2>1, OtherWorkers
  <2>2. SUFFICES ASSUME pc'[w] \in {"lock", "write", "copy"}
                 PROVE  chunk'[w] > 0 /\ off'[w] + chunk'[w] <= req'[w].file.disk
    BY <2>1
  <2>3. CASE ReadFile(w)
    <3>1. req[w] \in Request /\ pc[w] = "read"
      BY <2>3 DEF ReadFile
    <3>2. PICK d \in Nat : d = req[w].file.disk
      BY <3>1, StreamAssumption DEF Request
    <3>3. PICK o \in Nat, c \in Nat : o = off[w] /\ c = chunk[w]
      OBVIOUS
    <3> DEFINE n == IF o < d THEN AtMost(c, d - o) ELSE 0
    <3>4. n \in Nat /\ (n > 0 => o + n <= d)
      BY <3>2, <3>3 DEF AtMost
    <3>5. pc'[w] = "lock" /\ n > 0 /\ chunk' = [chunk EXCEPT ![w] = n]
          /\ off' = off /\ req' = req
      BY <2>2, <2>3, <3>1, <3>2, <3>3 DEF ReadFile
    <3> HIDE DEF n
    <3> QED
      BY <3>2, <3>3, <3>4, <3>5
  <2>4. CASE LockRing(w) \/ WriteFresh(w)
    BY <2>4 DEF LockRing, WriteFresh
  <2>5. ~ReadFile(w) /\ ~LockRing(w) /\ ~WriteFresh(w) => FALSE
    BY <1>1, <2>2 DEF WorkerStep, TakeRequest, LeaveLoop, SizeChunk, AbandonLock,
       DropStale, Publish, Finish, StoreEof, ExitWorker
  <2> QED
    BY <2>3, <2>4, <2>5
<1>2. CASE UNCHANGED workerVars
  BY <1>2 DEF workerVars
<1>3. ASSUME NEW v \in Voices, AudioStep(v)
      PROVE  UNCHANGED workerVars
  BY <1>3 DEF AudioStep, StartVoice, EndVoice, OpenBlock, PopFrame, RingEmpty,
     CloseBlock, CloseAndEnd, workerVars
<1> QED
  BY <1>1, <1>2, <1>3 DEF Next, Stop, SetThreshold, vars

-----------------------------------------------------------------------------
(* The line of a voice. *)

\* The n positions from the g-th on.
Stretch(g, n) == [i \in 1..n |-> g + i - 1]

\* It is a sequence of n numbers.
LEMMA StretchFacts ==
  ASSUME NEW g \in Nat, NEW n \in Nat
  PROVE  Stretch(g, n) \in Seq(Nat) /\ Len(Stretch(g, n)) = n
<1>1. Stretch(g, n) \in [1..n -> Nat]
  BY DEF Stretch
<1> QED
  BY <1>1 DEF Stretch

\* Hearing one leaves the stretch from the next on.
LEMMA StretchTail ==
  ASSUME NEW g \in Nat, NEW n \in Nat, n > 0
  PROVE  Tail(Stretch(g, n)) = Stretch(g + 1, n - 1)
<1>1. Stretch(g, n) \in Seq(Nat) /\ Len(Stretch(g, n)) = n /\ Stretch(g, n) # <<>>
  BY StretchFacts
<1>2. /\ Tail(Stretch(g, n)) \in Seq(Nat)
      /\ Len(Tail(Stretch(g, n))) = n - 1
      /\ \A i \in 1..(n - 1) : Tail(Stretch(g, n))[i] = Stretch(g, n)[i + 1]
  BY <1>1, HeadTailProperties
<1>3. Stretch(g + 1, n - 1) \in Seq(Nat) /\ Len(Stretch(g + 1, n - 1)) = n - 1
  BY StretchFacts
<1>4. \A i \in 1..(n - 1) : Stretch(g, n)[i + 1] = Stretch(g + 1, n - 1)[i]
  BY DEF Stretch
<1>5. \A i \in 1..(n - 1) : Tail(Stretch(g, n))[i] = Stretch(g + 1, n - 1)[i]
  BY <1>2, <1>4
<1> QED
  BY <1>2, <1>3, <1>5, SeqEqual

\* A delivery of the m that follow makes it longer by m.
LEMMA StretchGrows ==
  ASSUME NEW g \in Nat, NEW n \in Nat, NEW m \in Nat
  PROVE  Stretch(g, n + m) = Stretch(g, n) \o Stretch(g + n, m)
<1>1. /\ Stretch(g, n) \in Seq(Nat) /\ Len(Stretch(g, n)) = n
      /\ Stretch(g + n, m) \in Seq(Nat) /\ Len(Stretch(g + n, m)) = m
      /\ Stretch(g, n + m) \in Seq(Nat) /\ Len(Stretch(g, n + m)) = n + m
  <2>1. g + n \in Nat /\ n + m \in Nat
    OBVIOUS
  <2> QED
    BY <2>1, StretchFacts
<1>2. /\ Stretch(g, n) \o Stretch(g + n, m) \in Seq(Nat)
      /\ Len(Stretch(g, n) \o Stretch(g + n, m)) = n + m
      /\ \A i \in 1..(n + m) : (Stretch(g, n) \o Stretch(g + n, m))[i] =
           IF i <= n THEN Stretch(g, n)[i] ELSE Stretch(g + n, m)[i - n]
  BY <1>1, ConcatProperties
<1>3. \A i \in 1..(n + m) :
        (IF i <= n THEN Stretch(g, n)[i] ELSE Stretch(g + n, m)[i - n])
          = Stretch(g, n + m)[i]
  BY DEF Stretch
<1>4. \A i \in 1..(n + m) :
        (Stretch(g, n) \o Stretch(g + n, m))[i] = Stretch(g, n + m)[i]
  BY <1>2, <1>3
<1> QED
  BY <1>1, <1>2, <1>4, SeqEqual

Positions(s) == [i \in 1..Len(s) |-> s[i].pos]

\* Frames in order, without the first t of them.
LEMMA LineFrom ==
  ASSUME NEW d \in Seq(Frame), NEW x, NEW g \in Nat, NEW t \in Nat,
         t <= Len(d), t <= g,
         \A i \in 1..Len(d) : d[i] = [gen |-> x, pos |-> g - t + i - 1]
  PROVE  Positions(Drop(d, t)) = Stretch(g, Len(d) - t)
<1>1. PICK m \in Nat : m = Len(d)
  BY LenProperties
<1>2. t \in 0..Len(d)
  BY <1>1
<1>3. /\ Len(Drop(d, t)) = m - t
      /\ \A i \in 1..(m - t) : Drop(d, t)[i] = d[t + i]
  BY <1>1, <1>2, DropFacts
<1>4. \A i \in 1..(m - t) : Drop(d, t)[i].pos = g + i - 1
  <2> TAKE i \in 1..(m - t)
  <2>1. d[t + i] = [gen |-> x, pos |-> g - t + (t + i) - 1]
    BY <1>1
  <2> QED
    BY <1>3, <2>1
<1> QED
  BY <1>1, <1>3, <1>4 DEF Stretch, Positions

-----------------------------------------------------------------------------
(* The refinement. *)

\* How many frames wait for a voice that it has not taken.
Span(v) == Len(data[ring[v]]) - TakenBy(v)

LEMMA LineNow ==
  ASSUME IInv, NEW v \in Voices, Connected(v)
  PROVE  /\ Span(v) \in Nat /\ Span(v) <= Capacity
         /\ got[v] \in Nat /\ file[v] \in Files
         /\ Len(OnLine(v)) = Span(v)
         /\ OnLine(v) = Stretch(got[v], Span(v))
<1> USE DEF IInv, BasicInv, StampInv, OwnerInv, TypeInv, TypeOK, Connected
<1>1. ring[v] \in Rings /\ got[v] \in Nat /\ file[v] \in Files
  BY DEF VoiceTypes, ReaderInv
<1>2. PICK d \in Seq(Frame), g \in Nat :
        d = data[ring[v]] /\ g = got[v] /\ Len(d) <= Capacity
  BY <1>1 DEF RingTypes
<1>3. PICK t \in Nat : t = TakenBy(v) /\ t <= Len(d) /\ t <= g
  BY <1>2, LenProperties, StreamAssumption DEF TakenBy, VoiceTypes, ReaderInv
<1>4. PICK x : \A i \in 1..Len(d) : d[i] = [gen |-> x, pos |-> g - t + i - 1]
  <2>1. \A i \in 1..Len(d) : d[i] = [gen |-> gen[ring[v]], pos |-> g - t + i - 1]
    BY <1>2, <1>3 DEF FlightInv, InOrder
  <2> QED
    BY <2>1
<1>5. Positions(Drop(d, t)) = Stretch(g, Len(d) - t)
  BY <1>3, <1>4, LineFrom
<1>6. OnLine(v) = Stretch(g, Len(d) - t) /\ Span(v) = Len(d) - t
  BY <1>2, <1>3, <1>5 DEF OnLine, Span, Positions
<1>7. Len(d) - t \in Nat /\ Len(d) - t <= Capacity
  BY <1>2, <1>3, LenProperties, StreamAssumption
<1> QED
  BY <1>1, <1>2, <1>6, <1>7, StretchFacts

LEMMA LineThen ==
  ASSUME IInv', NEW v \in Voices, Connected(v)'
  PROVE  /\ Span(v)' \in Nat /\ Span(v)' <= Capacity
         /\ got'[v] \in Nat /\ file'[v] \in Files
         /\ Len(OnLine(v)') = Span(v)'
         /\ OnLine(v)' = Stretch(got'[v], Span(v)')
<1> USE DEF IInv, BasicInv, StampInv, OwnerInv, TypeInv, TypeOK, Connected
<1>1. ring'[v] \in Rings /\ got'[v] \in Nat /\ file'[v] \in Files
  BY DEF VoiceTypes, ReaderInv
<1>2. PICK d \in Seq(Frame), g \in Nat :
        d = data'[ring'[v]] /\ g = got'[v] /\ Len(d) <= Capacity
  BY <1>1 DEF RingTypes
<1>3. PICK t \in Nat : t = TakenBy(v)' /\ t <= Len(d) /\ t <= g
  BY <1>2, LenProperties, StreamAssumption DEF TakenBy, VoiceTypes, ReaderInv
<1>4. PICK x : \A i \in 1..Len(d) : d[i] = [gen |-> x, pos |-> g - t + i - 1]
  <2>1. \A i \in 1..Len(d) : d[i] = [gen |-> gen'[ring'[v]], pos |-> g - t + i - 1]
    BY <1>2, <1>3 DEF FlightInv, InOrder
  <2> QED
    BY <2>1
<1>5. Positions(Drop(d, t)) = Stretch(g, Len(d) - t)
  BY <1>3, <1>4, LineFrom
<1>6. OnLine(v)' = Stretch(g, Len(d) - t) /\ Span(v)' = Len(d) - t
  BY <1>2, <1>3, <1>5 DEF OnLine, Span, Drop, Positions
<1>7. Len(d) - t \in Nat /\ Len(d) - t <= Capacity
  BY <1>2, <1>3, LenProperties, StreamAssumption
<1> QED
  BY <1>1, <1>2, <1>6, <1>7, StretchFacts

\* What the mapping says of one voice.
Size(v) == IF Connected(v) THEN file[v].disk ELSE 0
SentTo(v) == IF Connected(v) THEN got[v] + Len(OnLine(v)) ELSE 0

\* A step that a voice does not notice.
Same(v) ==
  /\ ring'[v] = ring[v]
  /\ ring[v] # None => file'[v] = file[v] /\ got'[v] = got[v] /\ Span(v)' = Span(v)

LEMMA LineStays ==
  ASSUME IInv, IInv', NEW v \in Voices, Same(v)
  PROVE  /\ Connected(v)' = Connected(v) /\ Size(v)' = Size(v)
         /\ SentTo(v)' = SentTo(v) /\ OnLine(v)' = OnLine(v)
<1>1. Connected(v)' = Connected(v)
  BY DEF Same, Connected
<1>2. CASE ~Connected(v)
  BY <1>1, <1>2 DEF Size, SentTo, OnLine
<1>3. CASE Connected(v)
  <2>1. /\ OnLine(v) = Stretch(got[v], Span(v)) /\ Len(OnLine(v)) = Span(v)
        /\ OnLine(v)' = Stretch(got'[v], Span(v)') /\ Len(OnLine(v)') = Span(v)'
    BY <1>1, <1>3, LineNow, LineThen
  <2>2. file'[v] = file[v] /\ got'[v] = got[v] /\ Span(v)' = Span(v)
    BY <1>3 DEF Same, Connected
  <2>3. OnLine(v)' = OnLine(v)
    BY <2>1, <2>2
  <2> QED
    BY <1>1, <1>3, <2>2, <2>3 DEF Size, SentTo
<1> QED
  BY <1>2, <1>3

\* The mapped variables, as Channel reads them.
OpenLines == [v \in Voices |-> Connected(v)]
Sizes == [v \in Voices |-> Size(v)]
SentLines == [v \in Voices |-> SentTo(v)]
LinesNow == [v \in Voices |-> OnLine(v)]

LEMMA LinesStay ==
  ASSUME IInv, IInv', \A v \in Voices : Same(v)
  PROVE  UNCHANGED Channel!vars
<1>1. \A v \in Voices :
        /\ Connected(v)' = Connected(v) /\ Size(v)' = Size(v)
        /\ SentTo(v)' = SentTo(v) /\ OnLine(v)' = OnLine(v)
  BY LineStays
<1>2. /\ OpenLines' = OpenLines /\ Sizes' = Sizes
      /\ SentLines' = SentLines /\ LinesNow' = LinesNow
  BY <1>1, Zenon DEF OpenLines, Sizes, SentLines, LinesNow
<1> QED
  BY <1>2 DEF Channel!vars, OpenLines, Sizes, SentLines, LinesNow, Size, SentTo

\* A step that only one voice notices.
LEMMA OneLine ==
  ASSUME IInv, IInv', NEW v \in Voices, \A u \in Voices \ {v} : Same(u)
  PROVE  /\ OpenLines[v] = Connected(v) /\ Sizes[v] = Size(v)
         /\ SentLines[v] = SentTo(v) /\ LinesNow[v] = OnLine(v)
         /\ OpenLines' = [OpenLines EXCEPT ![v] = Connected(v)']
         /\ Sizes' = [Sizes EXCEPT ![v] = Size(v)']
         /\ SentLines' = [SentLines EXCEPT ![v] = SentTo(v)']
         /\ LinesNow' = [LinesNow EXCEPT ![v] = OnLine(v)']
<1>1. \A u \in Voices \ {v} :
        /\ Connected(u)' = Connected(u) /\ Size(u)' = Size(u)
        /\ SentTo(u)' = SentTo(u) /\ OnLine(u)' = OnLine(u)
  BY LineStays
<1> HIDE DEF Connected, Size, SentTo, OnLine
<1>2. /\ OpenLines[v] = Connected(v)
      /\ OpenLines' = [OpenLines EXCEPT ![v] = Connected(v)']
  BY <1>1, Zenon DEF OpenLines
<1>3. Sizes[v] = Size(v) /\ Sizes' = [Sizes EXCEPT ![v] = Size(v)']
  BY <1>1, Zenon DEF Sizes
<1>4. SentLines[v] = SentTo(v) /\ SentLines' = [SentLines EXCEPT ![v] = SentTo(v)']
  BY <1>1, Zenon DEF SentLines
<1>5. LinesNow[v] = OnLine(v) /\ LinesNow' = [LinesNow EXCEPT ![v] = OnLine(v)']
  BY <1>1, Zenon DEF LinesNow
<1> QED
  BY <1>2, <1>3, <1>4, <1>5

LEMMA LineDelivers ==
  ASSUME IInv, IInv', NEW v \in Voices, \A u \in Voices \ {v} : Same(u),
         NEW n \in 1..Capacity,
         ring[v] # None, ring'[v] = ring[v], file'[v] = file[v], got'[v] = got[v],
         Span(v)' = Span(v) + n, got[v] + Span(v) + n <= file[v].disk
  PROVE  Channel!Deliver(v, n)
<1>1. Connected(v) /\ Connected(v)'
  BY DEF Connected
<1>2. PICK g \in Nat, m \in Nat :
        /\ g = got[v] /\ m = Span(v) /\ m + n <= Capacity
        /\ OnLine(v) = Stretch(g, m) /\ Len(OnLine(v)) = m
        /\ OnLine(v)' = Stretch(g, m + n) /\ Len(OnLine(v)') = m + n
  BY <1>1, LineNow, LineThen
<1>3. SentTo(v) = g + m /\ SentTo(v)' = SentTo(v) + n
  BY <1>1, <1>2 DEF SentTo
<1>4. Size(v)' = Size(v) /\ SentTo(v) + n <= Size(v)
  BY <1>1, <1>2, <1>3 DEF Size
<1>5. OnLine(v)' = OnLine(v) \o Stretch(SentTo(v), n)
  <2>1. n \in Nat
    BY StreamAssumption
  <2>2. Stretch(g, m + n) = Stretch(g, m) \o Stretch(g + m, n)
    BY <2>1, StretchGrows
  <2> QED
    BY <1>2, <1>3, <2>2
<1>6. /\ OpenLines[v] /\ Len(LinesNow[v]) + n <= Capacity
      /\ SentLines[v] + n <= Sizes[v]
      /\ LinesNow' = [LinesNow EXCEPT ![v] = @ \o Stretch(SentLines[v], n)]
      /\ SentLines' = [SentLines EXCEPT ![v] = @ + n]
  BY <1>1, <1>2, <1>3, <1>4, <1>5, OneLine
<1>7. OpenLines' = OpenLines /\ Sizes' = Sizes
  <2>1. OpenLines' = [OpenLines EXCEPT ![v] = OpenLines[v]]
    BY <1>1, <1>6, OneLine, Zenon
  <2>2. Sizes' = [Sizes EXCEPT ![v] = Sizes[v]]
    BY <1>4, OneLine
  <2> QED
    BY <2>1, <2>2, Zenon DEF OpenLines, Sizes
<1> QED
  BY <1>6, <1>7 DEF Channel!Deliver, OpenLines, Sizes, SentLines, LinesNow, Size,
     SentTo, Stretch

LEMMA LineHears ==
  ASSUME IInv, IInv', NEW v \in Voices, \A u \in Voices \ {v} : Same(u),
         ring[v] # None, ring'[v] = ring[v], file'[v] = file[v],
         got'[v] = got[v] + 1, Span(v)' = Span(v) - 1
  PROVE  Channel!Hear(v)
<1>1. Connected(v) /\ Connected(v)'
  BY DEF Connected
<1>2. PICK g \in Nat, m \in Nat \ {0} :
        /\ g = got[v] /\ m = Span(v)
        /\ OnLine(v) = Stretch(g, m) /\ Len(OnLine(v)) = m
        /\ OnLine(v)' = Stretch(g + 1, m - 1) /\ Len(OnLine(v)') = m - 1
  BY <1>1, LineNow, LineThen
<1>3. OnLine(v) # <<>> /\ OnLine(v)' = Tail(OnLine(v))
  BY <1>2, StretchTail
<1>4. SentTo(v)' = SentTo(v) /\ Size(v)' = Size(v)
  BY <1>1, <1>2 DEF SentTo, Size
<1>5. /\ OpenLines[v] /\ LinesNow[v] # <<>>
      /\ LinesNow' = [LinesNow EXCEPT ![v] = Tail(@)]
  BY <1>1, <1>3, OneLine
<1>6. OpenLines' = OpenLines /\ Sizes' = Sizes /\ SentLines' = SentLines
  <2>1. OpenLines' = [OpenLines EXCEPT ![v] = OpenLines[v]]
    BY <1>1, <1>5, OneLine, Zenon
  <2>2. /\ Sizes' = [Sizes EXCEPT ![v] = Sizes[v]]
        /\ SentLines' = [SentLines EXCEPT ![v] = SentLines[v]]
    BY <1>4, OneLine
  <2> QED
    BY <2>1, <2>2, Zenon DEF OpenLines, Sizes, SentLines
<1> QED
  BY <1>5, <1>6 DEF Channel!Hear, OpenLines, Sizes, SentLines, LinesNow, Size, SentTo

LEMMA LineConnects ==
  ASSUME IInv, IInv', NEW v \in Voices, \A u \in Voices \ {v} : Same(u),
         NEW f \in Files, ring[v] = None, ring'[v] # None, file'[v] = f,
         got'[v] = 0, Span(v)' = 0
  PROVE  Channel!Connect(v, f.disk)
<1>1. ~Connected(v) /\ Connected(v)'
  BY DEF Connected
<1>2. OnLine(v)' = Stretch(0, 0) /\ Len(OnLine(v)') = 0
  BY <1>1, LineThen
<1>3. OnLine(v)' = <<>> /\ SentTo(v)' = 0 /\ Size(v)' = f.disk
  BY <1>1, <1>2, StretchFacts DEF SentTo, Size
<1>4. /\ ~OpenLines[v]
      /\ Sizes' = [Sizes EXCEPT ![v] = f.disk]
      /\ SentLines' = [SentLines EXCEPT ![v] = 0]
      /\ LinesNow' = [LinesNow EXCEPT ![v] = <<>>]
  BY <1>1, <1>3, OneLine
<1>5. OpenLines' = [OpenLines EXCEPT ![v] = TRUE]
  <2>1. Connected(v)' = TRUE
    BY <1>1, Zenon
  <2> QED
    BY <2>1, OneLine, Zenon
<1> QED
  BY <1>4, <1>5 DEF Channel!Connect, OpenLines, Sizes, SentLines, LinesNow, Size, SentTo

LEMMA LineIsCut ==
  ASSUME IInv, IInv', NEW v \in Voices, \A u \in Voices \ {v} : Same(u),
         ring[v] # None, ring'[v] = None
  PROVE  Channel!Cut(v)
<1>1. Connected(v) /\ ~Connected(v)'
  BY DEF Connected
<1>2. OnLine(v)' = <<>> /\ SentTo(v)' = 0 /\ Size(v)' = 0
  BY <1>1 DEF SentTo, Size, OnLine
<1>3. /\ OpenLines[v]
      /\ Sizes' = [Sizes EXCEPT ![v] = 0]
      /\ SentLines' = [SentLines EXCEPT ![v] = 0]
      /\ LinesNow' = [LinesNow EXCEPT ![v] = <<>>]
  BY <1>1, <1>2, OneLine
<1>4. OpenLines' = [OpenLines EXCEPT ![v] = FALSE]
  <2>1. Connected(v)' = FALSE
    BY DEF Connected
  <2> QED
    BY <2>1, OneLine, Zenon
<1> QED
  BY <1>3, <1>4 DEF Channel!Cut, OpenLines, Sizes, SentLines, LinesNow, Size, SentTo

LEMMA NothingHeard ==
  ASSUME UNCHANGED <<data, ring, file, got, cur, taken>>, NEW v \in Voices
  PROVE  Same(v)
BY DEF Same, Span, TakenBy

LEMMA PublishDelivers ==
  ASSUME IInv, IInv', ReadInv, NEW w \in Workers, Publish(w)
  PROVE  [Channel!Next]_Channel!vars
<1> USE DEF IInv, BasicInv, StampInv, OwnerInv, TypeInv, TypeOK
<1>1. PICK r \in Rings, g \in Nat, from \in Nat, wrote \in Nat :
        Published(w, r, g, from, wrote)
  BY PublishStep
<1>2. pc[w] = "copy" /\ UNCHANGED <<ring, file, got, cur, taken>>
  BY DEF Publish, readerVars, voiceVars
<1>3. data \in [Rings -> Seq(Frame)] /\ data' = [data EXCEPT ![r] = data'[r]]
      /\ Len(data'[r]) = Len(data[r]) + wrote
  BY <1>1 DEF Published, RingTypes
<1>4. ASSUME NEW u \in Voices, ring[u] # r
      PROVE  Same(u)
  BY <1>2, <1>3, <1>4 DEF Same, Span, TakenBy, VoiceTypes
<1>5. CASE \A u \in Voices : ring[u] # r
  BY <1>4, <1>5, LinesStay
<1>6. ASSUME NEW v \in Voices, ring[v] = r
      PROVE  [Channel!Next]_Channel!vars
  <2>1. \A u \in Voices \ {v} : Same(u)
    BY <1>4, <1>6, StreamAssumption DEF RingOwnership
  <2>2. Carrying(w)
    <3>1. inUse[r]
      BY <1>6 DEF RingOwnership
    <3>2. Current(req[w])
      BY <1>1, <1>2, <3>1 DEF LockInv, Published
    <3> QED
      BY <1>2, <3>2 DEF Carrying, ChunkInv
  <2>3. Serving(v, w)
    BY <1>1, <1>6, <2>2 DEF FlightInv, WorkInv, Published
  <2>4. PICK m \in Nat, c \in Nat, n \in Nat :
          m = Len(data[r]) /\ c = chunk[w] /\ n = remain[w]
    BY <1>3, LenProperties DEF WorkerTypes
  <2>5. m + n <= Capacity /\ c <= n /\ c > 0
    BY <1>2, <1>6, <2>3, <2>4 DEF Serving, Accounted, ChunkInv, ReadInv
  <2>6. wrote = c /\ wrote \in 1..Capacity
    <3>1. wrote = AtMost(c, Capacity - m)
      BY <1>1, <2>4 DEF Published
    <3> QED
      BY <2>4, <2>5, <3>1, StreamAssumption DEF AtMost
  <2>7. from + wrote <= file[v].disk /\ from = Delivered(v)
    BY <1>1, <1>2, <2>3, <2>4, <2>6 DEF Serving, ReadInv, Published
  <2>8. got[v] \in Nat /\ TakenBy(v) \in Nat
    BY DEF VoiceTypes, TakenBy
  <2>9. Span(v) = m - TakenBy(v) /\ Span(v)' = m + wrote - TakenBy(v)
    <3>1. TakenBy(v)' = TakenBy(v) /\ ring'[v] = r
      BY <1>2, <1>6 DEF TakenBy
    <3>2. Len(data'[r]) = m + wrote
      BY <1>3, <2>4
    <3> QED
      BY <2>4, <1>6, <2>8, <3>1, <3>2 DEF Span
  <2>10. Span(v)' = Span(v) + wrote
    BY <2>8, <2>9, <2>4
  <2>11. from = got[v] - TakenBy(v) + m
    BY <1>6, <2>4, <2>7 DEF Delivered
  <2>12. got[v] + Span(v) + wrote = from + wrote
    BY <2>4, <2>8, <2>9, <2>11
  <2>13. ring[v] # None
    BY <1>6, StreamAssumption
  <2>14. Channel!Deliver(v, wrote)
    BY <1>2, <2>1, <2>6, <2>7, <2>10, <2>12, <2>13, LineDelivers
  <2> QED
    BY <2>6, <2>14 DEF Channel!Next
<1> QED
  BY <1>5, <1>6

LEMMA StartDelivers ==
  ASSUME IInv, IInv', NEW v \in Voices, NEW f \in Files, StartVoice(v, f)
  PROVE  [Channel!Next]_Channel!vars
<1> USE DEF IInv, BasicInv, StampInv, OwnerInv, TypeInv, TypeOK
<1>1. CASE /\ ring[v] = None /\ file' = [file EXCEPT ![v] = f]
           /\ UNCHANGED <<data, ring, got, cur, taken>>
  <2>1. \A u \in Voices : Same(u)
    BY <1>1 DEF Same, Span, TakenBy, VoiceTypes
  <2> QED
    BY <2>1, LinesStay
<1>2. ASSUME NEW r \in Rings, NEW n \in Nat, Acquired(v, f, r, n)
      PROVE  [Channel!Next]_Channel!vars
  <2>1. /\ ring[v] = None /\ cur = None /\ mode[v] = "idle" /\ ~inUse[r]
        /\ data' = [data EXCEPT ![r] = <<>>]
        /\ ring' = [ring EXCEPT ![v] = r] /\ file' = [file EXCEPT ![v] = f]
        /\ UNCHANGED <<got, cur, taken>>
    BY <1>2 DEF Acquired
  <2>2. \A u \in Voices : ring[u] # r
    BY <2>1 DEF RingOwnership
  <2>3. \A u \in Voices \ {v} : Same(u)
    BY <2>1, <2>2 DEF Same, Span, TakenBy, VoiceTypes, RingTypes
  <2>4. ring'[v] = r /\ file'[v] = f /\ got'[v] = 0 /\ r # None
    BY <2>1, StreamAssumption DEF VoiceTypes, ReaderInv
  <2>5. Span(v)' = 0
    <3>1. data'[ring'[v]] = <<>> /\ TakenBy(v)' = 0
      BY <2>1, <2>4, StreamAssumption DEF TakenBy, RingTypes
    <3> QED
      BY <3>1 DEF Span
  <2>6. Channel!Connect(v, f.disk)
    BY <2>1, <2>3, <2>4, <2>5, LineConnects
  <2> QED
    BY <2>6 DEF Channel!Next
<1> QED
  BY <1>1, <1>2, StartFacts DEF ringVars

\* The ring goes back, at the end of a block or between two.
LEMMA ReleaseCuts ==
  ASSUME IInv, IInv', NEW v \in Voices, ReleaseRing(v),
         cur = None \/ cur = v, cur' = None, taken' = 0,
         \A r \in Rings : r # ring[v] => data'[r] = data[r]
  PROVE  [Channel!Next]_Channel!vars
<1> USE DEF IInv, BasicInv, StampInv, OwnerInv, TypeInv, TypeOK
<1>1. /\ ring' = [ring EXCEPT ![v] = None] /\ file' = [file EXCEPT ![v] = None]
      /\ got' = [got EXCEPT ![v] = 0]
  BY DEF ReleaseRing
<1>2. ASSUME NEW u \in Voices, u # v
      PROVE  Same(u)
  <2>1. ring'[u] = ring[u] /\ file'[u] = file[u] /\ got'[u] = got[u]
    BY <1>1, <1>2 DEF VoiceTypes
  <2>2. TakenBy(u)' = TakenBy(u)
    BY <1>2, StreamAssumption DEF TakenBy
  <2>3. ring[u] # None => data'[ring[u]] = data[ring[u]]
    BY <1>2 DEF VoiceTypes, RingOwnership
  <2> QED
    BY <2>1, <2>2, <2>3 DEF Same, Span
<1>3. ring'[v] = None
  BY <1>1 DEF VoiceTypes
<1>4. CASE ring[v] = None
  BY <1>2, <1>3, <1>4, LinesStay DEF Same
<1>5. CASE ring[v] # None
  BY <1>2, <1>3, <1>5, LineIsCut DEF Channel!Next
<1> QED
  BY <1>4, <1>5

LEMMA BlockHears ==
  ASSUME IInv, IInv', NEW v \in Voices,
         OpenBlock(v) \/ PopFrame(v) \/ RingEmpty(v) \/ CloseBlock(v)
  PROVE  [Channel!Next]_Channel!vars
<1> USE DEF IInv, BasicInv, StampInv, OwnerInv, TypeInv, TypeOK
<1>1. CASE OpenBlock(v)
  <2>1. \A u \in Voices : Same(u)
    BY <1>1, StreamAssumption
       DEF OpenBlock, Same, Span, TakenBy, ReaderInv, ringVars, readerVars
  <2> QED
    BY <2>1, LinesStay
<1>2. CASE RingEmpty(v)
  BY <1>2, NothingHeard, LinesStay DEF RingEmpty, ringVars, readerVars
<1>3. CASE PopFrame(v)
  <2>1. /\ cur = v /\ cur' = v /\ taken' = taken + 1
        /\ got' = [got EXCEPT ![v] = @ + 1]
        /\ UNCHANGED <<data, ring, file>>
    BY <1>3 DEF PopFrame, ringVars, readerVars
  <2>2. \A u \in Voices \ {v} : Same(u)
    BY <2>1 DEF Same, Span, TakenBy, VoiceTypes
  <2>3. ring[v] # None /\ got'[v] = got[v] + 1
    BY <2>1, StreamAssumption DEF ReaderInv, VoiceTypes
  <2>4. PICK m \in Nat, t \in Nat : m = Len(data[ring[v]]) /\ t = taken
    <3>1. data[ring[v]] \in Seq(Frame)
      BY <2>3 DEF VoiceTypes, RingTypes
    <3> QED
      BY <3>1, LenProperties DEF VoiceTypes
  <2>5. Span(v) = m - t /\ Span(v)' = m - (t + 1)
    BY <2>1, <2>4 DEF Span, TakenBy
  <2>6. Span(v)' = Span(v) - 1
    BY <2>4, <2>5
  <2>7. Channel!Hear(v)
    BY <2>1, <2>2, <2>3, <2>6, LineHears
  <2> QED
    BY <2>7 DEF Channel!Next
<1>4. CASE CloseBlock(v)
  <2>1. PICK r \in Rings, n \in Nat, f \in Files, from \in Nat :
          Closed(v, r, n, f, from)
    BY <1>4, CloseFacts
  <2>2. /\ cur = v /\ r = ring[v] /\ n = taken /\ cur' = None
        /\ data' = [data EXCEPT ![r] = Drop(@, n)]
        /\ Len(Drop(data[r], n)) = Len(data[r]) - n
        /\ UNCHANGED <<ring, file, got>>
    BY <2>1 DEF Closed
  <2>3. \A u \in Voices \ {v} : ring[u] # r
    BY <2>2, StreamAssumption DEF RingOwnership
  <2>4. \A u \in Voices \ {v} : Same(u)
    BY <2>2, <2>3, StreamAssumption DEF Same, Span, TakenBy, VoiceTypes, RingTypes
  <2>5. Span(v)' = Span(v)
    <3>1. Len(data'[r]) = Len(data[r]) - n
      BY <2>2 DEF RingTypes
    <3>2. PICK m \in Nat : m = Len(data[r])
      BY LenProperties DEF RingTypes
    <3>3. TakenBy(v) = n /\ TakenBy(v)' = 0
      BY <2>2, StreamAssumption DEF TakenBy
    <3> QED
      BY <2>2, <3>1, <3>2, <3>3 DEF Span
  <2>6. Same(v)
    BY <2>2, <2>5 DEF Same
  <2> QED
    BY <2>4, <2>6, LinesStay
<1> QED
  BY <1>1, <1>2, <1>3, <1>4

\* Every step of the engine is one of the line, or none.
LEMMA DeliveryNext ==
  ASSUME IInv, IInv', ReadInv, [Next]_vars
  PROVE  [Channel!Next]_Channel!vars
<1>1. ASSUME NEW w \in Workers, WorkerStep(w), ~Publish(w)
      PROVE  UNCHANGED <<data, ring, file, got, cur, taken>>
  BY <1>1 DEF WorkerStep, TakeRequest, LeaveLoop, SizeChunk, ReadFile, LockRing,
     AbandonLock, WriteFresh, DropStale, Finish, StoreEof, ExitWorker, ringVars,
     readerVars, voiceVars
<1>2. ASSUME NEW w \in Workers, WorkerStep(w)
      PROVE  [Channel!Next]_Channel!vars
  BY <1>1, <1>2, PublishDelivers, NothingHeard, LinesStay
<1>3. ASSUME NEW v \in Voices, AudioStep(v)
      PROVE  [Channel!Next]_Channel!vars
  <2>1. CASE EndVoice(v)
    BY <2>1, ReleaseCuts
       DEF EndVoice, IInv, BasicInv, StampInv, OwnerInv, TypeInv, ReaderInv
  <2>2. CASE CloseAndEnd(v)
    <3>1. \A q \in Rings : q # ring[v] => data'[q] = data[q]
      BY <2>2 DEF CloseAndEnd, Commit, IInv, BasicInv, StampInv, OwnerInv, TypeInv,
         TypeOK, RingTypes
    <3> QED
      BY <2>2, <3>1, ReleaseCuts DEF CloseAndEnd
  <2> QED
    BY <1>3, <2>1, <2>2, StartDelivers, BlockHears DEF AudioStep
<1>4. CASE UNCHANGED <<data, ring, file, got, cur, taken>>
  BY <1>4, NothingHeard, LinesStay
<1>5. CASE Stop \/ (\E t \in Thresholds : SetThreshold(t)) \/ UNCHANGED vars
  BY <1>4, <1>5 DEF Stop, SetThreshold, ringVars, readerVars, voiceVars, vars
<1> QED
  BY <1>2, <1>3, <1>5 DEF Next

\* stream_engine.h: whatever rings, requests and workers do, a voice hears its
\* file as if through a private line that delivers it frame by frame, from the
\* first on, and never more of it than can be read.
THEOREM EngineDelivers == SmallThreshold => (Spec => Delivery)
<1> SUFFICES ASSUME SmallThreshold PROVE Spec => Delivery
  OBVIOUS
<1>1. Init => Channel!Init
  BY DEF Init, Channel!Init, Connected, OnLine
<1>2. Init => ReadInv
  BY DEF Init, ReadInv
<1>3. IInv /\ ReadInv /\ [Next]_vars => ReadInv'
  BY ReadKeeps DEF IInv, BasicInv, StampInv, OwnerInv
<1>4. IInv /\ IInv' /\ ReadInv /\ [Next]_vars => [Channel!Next]_Channel!vars
  BY DeliveryNext
<1>5. Spec => []IInv
  BY StreamInvariantHolds
<1> QED
  BY <1>1, <1>2, <1>3, <1>4, <1>5, PTL DEF Spec, Delivery, Channel!Spec
=============================================================================
