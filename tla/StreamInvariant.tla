---------------------------- MODULE StreamInvariant ----------------------------
(***************************************************************************)
(* The inductive invariant behind RingOwnership, InOrder and               *)
(* NoWaitOnFullRing of StreamEngine.  The last two need every refill       *)
(* threshold to be at most half a ring (SmallThreshold), which is what     *)
(* Engine::recomputeRefillThreshold sets for blocks up to Capacity / 8.    *)
(***************************************************************************)
EXTENDS StreamEngine

SmallThreshold == \A t \in Thresholds : t <= HalfCapacity

-----------------------------------------------------------------------------
(* Bookkeeping of the readers and the workers. *)

Busy(w) == pc[w] \notin {"idle", "exited"}
Writing(w) == pc[w] \in {"write", "copy"}

\* A slot without a tone has no ring and no file; the voice in process() has
\* a ring and took no more than the ring holds.
ReaderInv ==
  /\ \A v \in Voices : mode[v] = "idle" => /\ ring[v] = None /\ got[v] = 0
                                           /\ ~pending[v] /\ reqOff[v] = 0
  /\ \A v \in Voices : ring[v] = None => reqOff[v] = 0 /\ ~pending[v]
                                         /\ got[v] = 0
  /\ \A v \in Voices : mode[v] # "idle" => file[v] \in Files
  /\ cur # None => ring[cur] # None /\ taken <= Len(data[ring[cur]])
                   /\ taken <= got[cur]
  /\ cur = None => taken = 0

ChunkInv ==
  \A w \in Workers : pc[w] \in {"read", "lock", "write", "copy"} =>
    chunk[w] <= remain[w] /\ remain[w] > 0

\* A request carries the generation of a present or past owner.
Stamped(q) == q.gen <= gen[q.ring] /\ (Current(q) => inUse[q.ring])

GenInv ==
  /\ \A i \in DOMAIN queue : Stamped(queue[i])
  /\ \A w \in Workers : Busy(w) => Stamped(req[w])

\* The producer lock: held by the worker that writes, and a worker that has
\* seen a current generation under it can only be surprised by a release,
\* not by a new owner.
LockInv ==
  /\ \A w \in Workers : Writing(w) => producers[req[w].ring] = 1
  /\ \A u, w \in Workers :
       Writing(u) /\ Writing(w) /\ req[u].ring = req[w].ring => u = w
  /\ \A w \in Workers :
       pc[w] = "copy" => Current(req[w]) \/ ~inUse[req[w].ring]

TypeInv  == TypeOK /\ ReaderInv /\ ChunkInv
OwnerInv == TypeInv /\ RingOwnership
StampInv == OwnerInv /\ GenInv
BasicInv == StampInv /\ LockInv

-----------------------------------------------------------------------------
(* The frames under way. *)

\* File position of the frame that is to be appended to a voice's ring next.
Delivered(v) == got[v] - TakenBy(v) + Len(data[ring[v]])

\* What the reader knows of a request for n frames from `from' on that has
\* not been served.
Accounted(v, from, n) ==
  /\ pending[v]
  /\ Len(data[ring[v]]) < HalfCapacity
  /\ Len(data[ring[v]]) + n <= Capacity
  /\ from + n = reqOff[v]
  /\ from = Delivered(v) \/ from >= file[v].disk

Carrying(w) ==
  /\ pc[w] \in {"loop", "read", "lock", "write", "copy"}
  /\ remain[w] > 0
  /\ Current(req[w])

QueueInv ==
  \A v \in Voices, i \in DOMAIN queue :
    Current(queue[i]) /\ queue[i].ring = ring[v] =>
      Accounted(v, queue[i].off, queue[i].n) /\ queue[i].file = file[v]

\* A worker knows where in the file, and of how much, until it has pushed.
Serving(v, w) ==
  /\ Accounted(v, off[w], remain[w])
  /\ req[w].file = file[v]
  /\ pc[w] = "read" => chunk[w] = remain[w]
  /\ pc[w] \in {"lock", "write", "copy"} =>
       /\ off[w] = Delivered(v)
       /\ IF hitEof[w] THEN off[w] + chunk[w] >= file[v].disk
                       ELSE chunk[w] = remain[w]

WorkInv ==
  \A v \in Voices, w \in Workers :
    Carrying(w) /\ req[w].ring = ring[v] => Serving(v, w)

\* At most one unserved request per ring.
UniqueInv ==
  /\ \A i, j \in DOMAIN queue :
       Current(queue[i]) /\ Current(queue[j]) /\ queue[i].ring = queue[j].ring
         => i = j
  /\ \A u, w \in Workers :
       Carrying(u) /\ Carrying(w) /\ req[u].ring = req[w].ring => u = w
  /\ \A i \in DOMAIN queue, w \in Workers :
       ~(Current(queue[i]) /\ Carrying(w) /\ queue[i].ring = req[w].ring)

\* Where the next request will start: behind what was delivered, behind the
\* readable end of the file, or not before the pending one is answered.
OffsetInv ==
  \A v \in Voices : ring[v] # None =>
    \/ reqOff[v] = Delivered(v)
    \/ reqOff[v] >= file[v].disk
    \/ pending[v] /\ Len(data[ring[v]]) < HalfCapacity

FlightInv == QueueInv /\ WorkInv /\ UniqueInv /\ OffsetInv /\ InOrder

\* The whole: inductive when SmallThreshold holds.
IInv == BasicInv /\ FlightInv
=============================================================================
