----------------------------- MODULE StreamEngine -----------------------------
(***************************************************************************)
(* Disk streaming of one StreamEngine pool: the ring buffers, the request  *)
(* queue, the worker threads (stream_engine.cpp) and, on the audio thread, *)
(* the StreamedSampleReader of every voice (streamed_reader.cpp) with the  *)
(* empty-ring policy of Voice::process (voice.cpp).                        *)
(*                                                                         *)
(* A ring is the sequence of frames between its cursors r_ and w_ ; the    *)
(* audio thread commits r_ once per block, so frames it popped in the open *)
(* block are still counted (`taken').  A frame is a file position together *)
(* with the ownership generation of the request that read it: what a voice *)
(* plays is judged by where the frame comes from, not by its samples.      *)
(* File offsets are counted from the first frame behind the RAM head.      *)
(*                                                                         *)
(* The definitions LeaveLoopDeaf, WriteFreshUnchecked, FirstFreeUnclaimed, *)
(* RequestReadSkipping, WantedWholeRing, StillPendingNever and             *)
(* RingEmptyWaits are faulty variants of the ones that follow them; the    *)
(* properties must reject each.                                            *)
(***************************************************************************)
EXTENDS Integers, Sequences

CONSTANTS
  Voices,       \* voice slots that share this pool (each has one reader)
  Workers,      \* stream worker threads
  NumRings,     \* rings of the pool
  Capacity,     \* ring_capacity_frames
  Thresholds,   \* refill thresholds Engine::recomputeRefillThreshold may set
  QueueCap,     \* StreamRequestQueue::kCap
  BlockFrames,  \* most frames one process() call can consume
  Files,        \* records [len, disk]: frames announced, frames readable
  MaxGen,       \* bound: ownership periods of one ring
  ReadMayFail,  \* whether readSampleRange may report an invalid read
  None

Rings == 1..NumRings

ASSUME StreamAssumption ==
  /\ NumRings \in Nat \ {0}
  /\ Capacity \in Nat /\ Capacity >= 2
  /\ Thresholds \subseteq Nat /\ Thresholds # {}
  /\ QueueCap \in Nat \ {0}
  /\ BlockFrames \in Nat \ {0}
  /\ MaxGen \in Nat
  /\ ReadMayFail \in BOOLEAN
  /\ Files \subseteq [len : Nat \ {0}, disk : Nat]
  /\ \A f \in Files : f.disk <= f.len
  /\ None \notin Voices /\ None \notin Rings /\ None \notin Files

VARIABLES
  data, eof, inUse, gen, producers,          \* RingHandle
  queue, threshold, run,                     \* StreamEngine
  pc, req, off, remain, chunk, hitEof,       \* locals of workerLoop
  ring, file, reqOff, pending,               \* StreamedSampleReader
  mode, verdict, got,                        \* Voice; got: frames popped so far
  cur, taken                                 \* the voice in process(), its pops

ringVars   == <<data, eof, inUse, gen, producers>>
workerVars == <<pc, req, off, remain, chunk, hitEof>>
readerVars == <<ring, file, reqOff, pending>>
voiceVars  == <<mode, verdict, got, cur, taken>>
vars == <<ringVars, queue, threshold, run, workerVars, readerVars, voiceVars>>

-----------------------------------------------------------------------------
Frame   == [gen : Nat, pos : Nat]
Request == [ring : Rings, file : Files, off : Nat, n : Nat,
            last : BOOLEAN, gen : Nat]

HalfCapacity == Capacity \div 2
AtMost(a, b) == IF a <= b THEN a ELSE b

\* The request still belongs to the current owner of its ring.
Current(q) == q.gen = gen[q.ring]

\* The frames from the i-th on of a ring's content.
Drop(s, n) == SubSeq(s, n + 1, Len(s))

Init ==
  /\ data = [r \in Rings |-> <<>>]
  /\ eof = [r \in Rings |-> FALSE]
  /\ inUse = [r \in Rings |-> FALSE]
  /\ gen = [r \in Rings |-> 0]
  /\ producers = [r \in Rings |-> 0]
  /\ queue = <<>>
  /\ threshold \in Thresholds
  /\ run = TRUE
  /\ pc = [w \in Workers |-> "idle"]
  /\ req = [w \in Workers |-> None]
  /\ off = [w \in Workers |-> 0]
  /\ remain = [w \in Workers |-> 0]
  /\ chunk = [w \in Workers |-> 0]
  /\ hitEof = [w \in Workers |-> FALSE]
  /\ ring = [v \in Voices |-> None]
  /\ file = [v \in Voices |-> None]
  /\ reqOff = [v \in Voices |-> 0]
  /\ pending = [v \in Voices |-> FALSE]
  /\ mode = [v \in Voices |-> "idle"]
  /\ verdict = [v \in Voices |-> "none"]
  /\ got = [v \in Voices |-> 0]
  /\ cur = None
  /\ taken = 0

-----------------------------------------------------------------------------
(* The worker threads. *)

Goto(w, label) == pc' = [pc EXCEPT ![w] = label]

\* The end of one round of the outer loop: its locals go out of scope.
NextRound(w) ==
  /\ Goto(w, "idle")
  /\ req' = [req EXCEPT ![w] = None]
  /\ off' = [off EXCEPT ![w] = 0]
  /\ remain' = [remain EXCEPT ![w] = 0]
  /\ chunk' = [chunk EXCEPT ![w] = 0]
  /\ hitEof' = [hitEof EXCEPT ![w] = FALSE]

TakeRequest(w) ==
  /\ pc[w] = "idle"
  /\ run
  /\ queue # <<>>
  /\ req' = [req EXCEPT ![w] = Head(queue)]
  /\ off' = [off EXCEPT ![w] = Head(queue).off]
  /\ remain' = [remain EXCEPT ![w] = Head(queue).n]
  /\ hitEof' = [hitEof EXCEPT ![w] = FALSE]
  /\ queue' = Tail(queue)
  /\ Goto(w, "loop")
  /\ UNCHANGED <<ringVars, threshold, run, chunk, readerVars, voiceVars>>

LeaveLoopDeaf(w) ==
  /\ pc[w] = "loop"
  /\ remain[w] = 0 \/ ~Current(req[w])
  /\ Goto(w, "finish")
  /\ UNCHANGED <<ringVars, queue, threshold, run, req, off, remain, chunk,
                 hitEof, readerVars, voiceVars>>

\* The head of the chunk loop.  A full ring makes the worker sleep and come
\* back: no step.
LeaveLoop(w) ==
  /\ pc[w] = "loop"
  /\ remain[w] = 0 \/ ~run \/ ~Current(req[w])
  /\ Goto(w, "finish")
  /\ UNCHANGED <<ringVars, queue, threshold, run, req, off, remain, chunk,
                 hitEof, readerVars, voiceVars>>

SizeChunk(w) ==
  /\ pc[w] = "loop"
  /\ remain[w] > 0 /\ run /\ Current(req[w])
  /\ Len(data[req[w].ring]) < Capacity
  /\ chunk' = [chunk EXCEPT ![w] =
                 AtMost(remain[w], Capacity - Len(data[req[w].ring]))]
  /\ Goto(w, "read")
  /\ UNCHANGED <<ringVars, queue, threshold, run, req, off, remain, hitEof,
                 readerVars, voiceVars>>

\* readSampleRange: what the file still has of the chunk, or an invalid read.
ReadFile(w) ==
  LET readable == IF off[w] < req[w].file.disk
                  THEN AtMost(chunk[w], req[w].file.disk - off[w]) ELSE 0
  IN /\ pc[w] = "read"
     /\ \/ /\ ReadMayFail
           /\ Goto(w, "finish")
           /\ UNCHANGED <<chunk, hitEof>>
        \/ /\ readable = 0
           /\ hitEof' = [hitEof EXCEPT ![w] = TRUE]
           /\ Goto(w, "finish")
           /\ UNCHANGED chunk
        \/ /\ readable > 0
           /\ hitEof' = [hitEof EXCEPT ![w] = readable < chunk[w]]
           /\ chunk' = [chunk EXCEPT ![w] = readable]
           /\ Goto(w, "lock")
     /\ UNCHANGED <<ringVars, queue, threshold, run, req, off, remain,
                    readerVars, voiceVars>>

LockRing(w) ==
  /\ pc[w] = "lock"
  /\ producers[req[w].ring] = 0
  /\ producers' = [producers EXCEPT ![req[w].ring] = 1]
  /\ Goto(w, "write")
  /\ UNCHANGED <<data, eof, inUse, gen, queue, threshold, run, req, off,
                 remain, chunk, hitEof, readerVars, voiceVars>>

\* Shutdown while another worker holds the ring: give the request up.
AbandonLock(w) ==
  /\ pc[w] = "lock"
  /\ producers[req[w].ring] # 0 /\ ~run
  /\ hitEof' = [hitEof EXCEPT ![w] = FALSE]
  /\ Goto(w, "finish")
  /\ UNCHANGED <<ringVars, queue, threshold, run, req, off, remain, chunk,
                 readerVars, voiceVars>>

WriteFreshUnchecked(w) ==
  /\ pc[w] = "write"
  /\ Goto(w, "copy")
  /\ UNCHANGED <<ringVars, queue, threshold, run, req, off, remain, chunk,
                 hitEof, readerVars, voiceVars>>

\* Under the producer lock: re-check the generation before writing.
WriteFresh(w) ==
  /\ pc[w] = "write"
  /\ Current(req[w])
  /\ Goto(w, "copy")
  /\ UNCHANGED <<ringVars, queue, threshold, run, req, off, remain, chunk,
                 hitEof, readerVars, voiceVars>>

DropStale(w) ==
  /\ pc[w] = "write"
  /\ ~Current(req[w])
  /\ producers' = [producers EXCEPT ![req[w].ring] = 0]
  /\ hitEof' = [hitEof EXCEPT ![w] = FALSE]
  /\ Goto(w, "finish")
  /\ UNCHANGED <<data, eof, inUse, gen, queue, threshold, run, req, off,
                 remain, chunk, readerVars, voiceVars>>

\* RingHandle::push (it truncates to the free space), unlock, advance.
Publish(w) ==
  LET r == req[w].ring
      wrote == AtMost(chunk[w], Capacity - Len(data[r]))
      atEnd == hitEof[w] \/ off[w] + wrote >= req[w].file.len
  IN /\ pc[w] = "copy"
     /\ data' = [data EXCEPT ![r] = @ \o
                   [i \in 1..wrote |-> [gen |-> req[w].gen,
                                        pos |-> off[w] + i - 1]]]
     /\ producers' = [producers EXCEPT ![r] = 0]
     /\ off' = [off EXCEPT ![w] = @ + wrote]
     /\ remain' = [remain EXCEPT ![w] = @ - wrote]
     /\ hitEof' = [hitEof EXCEPT ![w] = atEnd]
     /\ chunk' = [chunk EXCEPT ![w] = 0]
     /\ Goto(w, IF atEnd THEN "finish" ELSE "loop")
     /\ UNCHANGED <<eof, inUse, gen, queue, threshold, run, req, readerVars,
                    voiceVars>>

\* The generation check of the EOF mark and the store are two accesses, and
\* no lock is held over them.
Finish(w) ==
  /\ pc[w] = "finish"
  /\ IF hitEof[w] /\ req[w].last /\ Current(req[w])
     THEN /\ Goto(w, "eof")
          /\ UNCHANGED <<req, off, remain, chunk, hitEof>>
     ELSE NextRound(w)
  /\ UNCHANGED <<ringVars, queue, threshold, run, readerVars, voiceVars>>

StoreEof(w) ==
  /\ pc[w] = "eof"
  /\ eof' = [eof EXCEPT ![req[w].ring] = TRUE]
  /\ NextRound(w)
  /\ UNCHANGED <<data, inUse, gen, producers, queue, threshold, run,
                 readerVars, voiceVars>>

ExitWorker(w) ==
  /\ pc[w] = "idle" /\ ~run
  /\ Goto(w, "exited")
  /\ UNCHANGED <<ringVars, queue, threshold, run, req, off, remain, chunk,
                 hitEof, readerVars, voiceVars>>

WorkerStep(w) ==
  \/ TakeRequest(w) \/ LeaveLoop(w) \/ SizeChunk(w) \/ ReadFile(w)
  \/ LockRing(w) \/ AbandonLock(w) \/ WriteFresh(w) \/ DropStale(w)
  \/ Publish(w) \/ Finish(w) \/ StoreEof(w) \/ ExitWorker(w)

-----------------------------------------------------------------------------
(* The audio thread: the readers of the voices and their blocks. *)

\* acquireRing scans the pool in order.
FirstFreeUnclaimed(r) == \A q \in 1..(r - 1) : inUse[q]

FirstFree(r) == ~inUse[r] /\ \A q \in 1..(r - 1) : inUse[q]

\* A request that went into the queue, and one that found it full: begin()
\* and refill() then advance the offset, or leave it for the next block.
Sent(v, r, f, from, n) ==
  /\ queue' = Append(queue,
                [ring |-> r, file |-> f, off |-> from, n |-> n,
                 last |-> from + n >= f.len, gen |-> gen[r]])
  /\ reqOff' = [reqOff EXCEPT ![v] = from + n]
  /\ pending' = [pending EXCEPT ![v] = TRUE]

Unsent(v, from) ==
  /\ queue' = queue
  /\ reqOff' = [reqOff EXCEPT ![v] = from]
  /\ pending' = [pending EXCEPT ![v] = FALSE]

RequestReadSkipping(v, r, f, from, n) ==
  IF Len(queue) < QueueCap THEN Sent(v, r, f, from, n)
                           ELSE Unsent(v, from + n)

RequestRead(v, r, f, from, n) ==
  IF Len(queue) < QueueCap THEN Sent(v, r, f, from, n) ELSE Unsent(v, from)

\* Voice::start with StreamedSampleReader::begin: acquire a ring (waiting for
\* a write in progress to end), reset it, ask for the first frames.
StartVoice(v, f) ==
  /\ cur = None
  /\ mode[v] = "idle"
  /\ mode' = [mode EXCEPT ![v] = "play"]
  /\ file' = [file EXCEPT ![v] = f]
  /\ \/ /\ \A r \in Rings : inUse[r]
        /\ UNCHANGED <<ringVars, queue, ring, reqOff, pending>>
     \/ \E r \in Rings :
          /\ FirstFree(r) /\ producers[r] = 0
          /\ gen[r] < MaxGen
          /\ inUse' = [inUse EXCEPT ![r] = TRUE]
          /\ data' = [data EXCEPT ![r] = <<>>]
          /\ eof' = [eof EXCEPT ![r] = FALSE]
          /\ ring' = [ring EXCEPT ![v] = r]
          /\ RequestRead(v, r, f, 0, AtMost(Capacity, f.len))
          /\ UNCHANGED <<gen, producers>>
  /\ UNCHANGED <<threshold, run, workerVars, verdict, got, cur, taken>>

\* StreamedSampleReader::release with releaseRing: the generation bump makes
\* every request of this ownership stale; the cursors are left for acquire.
ReleaseRing(v) ==
  /\ inUse' = [r \in Rings |-> inUse[r] /\ r # ring[v]]
  /\ gen' = [r \in Rings |-> IF r = ring[v] THEN gen[r] + 1 ELSE gen[r]]
  /\ ring' = [ring EXCEPT ![v] = None]
  /\ file' = [file EXCEPT ![v] = None]
  /\ reqOff' = [reqOff EXCEPT ![v] = 0]
  /\ pending' = [pending EXCEPT ![v] = FALSE]
  /\ mode' = [mode EXCEPT ![v] = "idle"]
  /\ verdict' = [verdict EXCEPT ![v] = "none"]
  /\ got' = [got EXCEPT ![v] = 0]

\* prepareDamp (retrigger, steal), hardStop, or the end of a voice that got
\* no ring.  The frames prepareDamp pops for its fade are the ring's content.
EndVoice(v) ==
  /\ cur = None
  /\ mode[v] # "idle"
  /\ ReleaseRing(v)
  /\ UNCHANGED <<data, eof, producers, queue, threshold, run, workerVars,
                 cur, taken>>

OpenBlock(v) ==
  /\ cur = None
  /\ ring[v] # None
  /\ cur' = v
  /\ taken' = 0
  /\ UNCHANGED <<ringVars, queue, threshold, run, workerVars, readerVars,
                 mode, verdict, got>>

\* popFrameRaw: the block's snapshot of w_ is renewed when it is used up, so
\* a pop succeeds exactly when the ring holds a frame not yet taken.
PopFrame(v) ==
  /\ cur = v
  /\ taken < BlockFrames
  /\ taken < Len(data[ring[v]])
  /\ taken' = taken + 1
  /\ got' = [got EXCEPT ![v] = @ + 1]
  /\ UNCHANGED <<ringVars, queue, threshold, run, workerVars, readerVars,
                 mode, verdict, cur>>

RingEmptyWaits(v) ==
  /\ cur = v
  /\ taken < BlockFrames
  /\ taken = Len(data[ring[v]])
  /\ mode[v] = "play"
  /\ UNCHANGED vars

\* advance() = RingEmpty: the fade starts, classified by cleanEnd().
RingEmpty(v) ==
  /\ cur = v
  /\ taken < BlockFrames
  /\ taken = Len(data[ring[v]])
  /\ mode[v] = "play"
  /\ mode' = [mode EXCEPT ![v] = "fade"]
  /\ verdict' = [verdict EXCEPT ![v] =
                   IF reqOff[v] >= file[v].len THEN "end" ELSE "underrun"]
  /\ UNCHANGED <<ringVars, queue, threshold, run, workerVars, readerVars,
                 got, cur, taken>>

\* endBlock: commit r_.
Commit(v) == data' = [data EXCEPT ![ring[v]] = Drop(@, taken)]

\* As much as fits into the ring now.
WantedWholeRing(avail, left) == AtMost(Capacity, left)

Wanted(avail, left) == AtMost(Capacity - avail, left)

\* stream_pending_ holds until the ring was filled to its half.
StillPendingNever(v, avail) == FALSE

StillPending(v, avail) == pending[v] /\ avail < HalfCapacity

\* StreamedSampleReader::refill on a ring that holds avail frames.
Refill(v, avail) ==
  LET left == file[v].len - reqOff[v]
  IN IF ~StillPending(v, avail) /\ avail < threshold /\ left > 0
     THEN RequestRead(v, ring[v], file[v], reqOff[v], Wanted(avail, left))
     ELSE /\ pending' = [pending EXCEPT ![v] = StillPending(v, avail)]
          /\ UNCHANGED <<queue, reqOff>>

\* The end of process() for a voice that plays on.  Behind the head (got > 0)
\* a block moves the position by at least one frame.
CloseBlock(v) ==
  /\ cur = v
  /\ taken > 0 \/ got[v] = 0 \/ mode[v] = "fade"
  /\ Commit(v)
  /\ Refill(v, Len(data[ring[v]]) - taken)
  /\ cur' = None
  /\ taken' = 0
  /\ UNCHANGED <<eof, inUse, gen, producers, threshold, run, workerVars,
                 ring, file, mode, verdict, got>>

\* The end of process() for a voice whose fade or release ramp reached zero.
CloseAndEnd(v) ==
  /\ cur = v
  /\ Commit(v)
  /\ ReleaseRing(v)
  /\ cur' = None
  /\ taken' = 0
  /\ UNCHANGED <<eof, producers, queue, threshold, run, workerVars>>

-----------------------------------------------------------------------------
(* Control: setBlockSize (audio stopped) and shutdown. *)

SetThreshold(t) ==
  /\ cur = None
  /\ threshold' = t
  /\ UNCHANGED <<ringVars, queue, run, workerVars, readerVars, voiceVars>>

Stop ==
  /\ run
  /\ run' = FALSE
  /\ UNCHANGED <<ringVars, queue, threshold, workerVars, readerVars,
                 voiceVars>>

AudioStep(v) ==
  \/ \E f \in Files : StartVoice(v, f)
  \/ EndVoice(v) \/ OpenBlock(v) \/ PopFrame(v) \/ RingEmpty(v)
  \/ CloseBlock(v) \/ CloseAndEnd(v)

Next ==
  \/ \E w \in Workers : WorkerStep(w)
  \/ \E v \in Voices : AudioStep(v)
  \/ \E t \in Thresholds : SetThreshold(t)
  \/ Stop

Spec == Init /\ [][Next]_vars
-----------------------------------------------------------------------------
(* Properties. *)

RingTypes ==
  /\ data \in [Rings -> Seq(Frame)]
  /\ \A r \in Rings : Len(data[r]) <= Capacity
  /\ eof \in [Rings -> BOOLEAN]
  /\ inUse \in [Rings -> BOOLEAN]
  /\ gen \in [Rings -> Nat]
  /\ producers \in [Rings -> {0, 1}]

QueueTypes ==
  /\ queue \in Seq(Request) /\ Len(queue) <= QueueCap
  /\ threshold \in Thresholds
  /\ run \in BOOLEAN

WorkerTypes ==
  /\ pc \in [Workers -> {"idle", "loop", "read", "lock", "write", "copy",
                         "finish", "eof", "exited"}]
  /\ req \in [Workers -> Request \cup {None}]
  /\ \A w \in Workers : pc[w] \notin {"idle", "exited"} => req[w] \in Request
  /\ off \in [Workers -> Nat]
  /\ remain \in [Workers -> Nat]
  /\ chunk \in [Workers -> Nat]
  /\ hitEof \in [Workers -> BOOLEAN]

VoiceTypes ==
  /\ ring \in [Voices -> Rings \cup {None}]
  /\ file \in [Voices -> Files \cup {None}]
  /\ reqOff \in [Voices -> Nat]
  /\ pending \in [Voices -> BOOLEAN]
  /\ mode \in [Voices -> {"idle", "play", "fade"}]
  /\ verdict \in [Voices -> {"none", "end", "underrun"}]
  /\ got \in [Voices -> Nat]
  /\ cur \in Voices \cup {None}
  /\ taken \in Nat

\* The types; no ring is filled beyond its capacity, nor the queue.
TypeOK == RingTypes /\ QueueTypes /\ WorkerTypes /\ VoiceTypes

\* A ring of the pool is in use exactly while one voice holds it: no ring is
\* shared (it is a single-consumer channel) and none is leaked.
RingOwnership ==
  /\ \A r \in Rings : inUse[r] <=> \E v \in Voices : ring[v] = r
  /\ \A u, v \in Voices : ring[u] = ring[v] /\ ring[u] # None => u = v

TakenBy(v) == IF cur = v THEN taken ELSE 0

\* What a voice finds in its ring is its own file, gapless and in order, from
\* the frame it plays next: no frame of an earlier owner's request, none
\* lost, repeated or swapped.
InOrder ==
  \A v \in Voices : ring[v] # None =>
    LET r == ring[v] IN
    \A i \in 1..Len(data[r]) :
      data[r][i] = [gen |-> gen[r], pos |-> got[v] - TakenBy(v) + i - 1]

\* A request was sized for free space that is still there when a worker
\* serves it: no worker sleeps on a full ring, which would tie it to the
\* pace of one voice while the requests of the others wait.
NoWaitOnFullRing ==
  \A w \in Workers :
    pc[w] = "loop" /\ Current(req[w]) =>
      Len(data[req[w].ring]) + remain[w] <= Capacity

\* stream_engine.h: when a ring holds less than the threshold and the file is
\* not played out, a refill is sent.  After a block ends with the ring below
\* the threshold, the rest of the file not yet requested, nothing in flight
\* for the ring and room in the queue, there is a request.
InFlight(r) ==
  \/ \E i \in DOMAIN queue : queue[i].ring = r /\ Current(queue[i])
  \/ \E w \in Workers : /\ pc[w] \notin {"idle", "exited"}
                        /\ req[w].ring = r /\ Current(req[w])

RefillSent ==
  [][\A v \in Voices :
       /\ CloseBlock(v)
       /\ Len(data[ring[v]]) - taken < threshold
       /\ reqOff[v] < file[v].len
       /\ Len(queue) < QueueCap
       /\ run /\ ~ReadMayFail
       => InFlight(ring[v])']_vars

-----------------------------------------------------------------------------
(* The abstract line every voice is promised. *)

Connected(v) == ring[v] # None

\* The positions of the frames in a voice's ring it has not taken yet.
OnLine(v) ==
  IF Connected(v)
  THEN LET rest == Drop(data[ring[v]], TakenBy(v))
       IN [i \in 1..Len(rest) |-> rest[i].pos]
  ELSE <<>>

Channel == INSTANCE PcmChannel WITH
  Lines   <- Voices,
  Lengths <- {f.disk : f \in Files},
  open    <- [v \in Voices |-> Connected(v)],
  size    <- [v \in Voices |-> IF Connected(v) THEN file[v].disk ELSE 0],
  sent    <- [v \in Voices |-> IF Connected(v) THEN got[v] + Len(OnLine(v))
                               ELSE 0],
  line    <- [v \in Voices |-> OnLine(v)]

\* Every voice hears its file through such a line (refinement).
Delivery == Channel!Spec

-----------------------------------------------------------------------------
(* Liveness. *)

\* A worker thread is scheduled and its reads return.
WorkerFairness == \A w \in Workers : WF_vars(WorkerStep(w))

\* The device calls back as long as it runs; pos_inc_ > 0 makes every voice
\* consume frames in block after block, and a fade lasts 5 ms.
Consume(v) == PopFrame(v) \/ RingEmpty(v)
FadeEnds(v) == mode[v] = "fade" /\ CloseAndEnd(v)
AudioFairness ==
  \A v \in Voices : /\ WF_vars(OpenBlock(v)) /\ WF_vars(CloseBlock(v))
                    /\ SF_vars(Consume(v)) /\ SF_vars(FadeEnds(v))

\* A voice gives its ring back even when no worker serves it any more: the
\* audio thread alone is scheduled.
RingReturned ==
  AudioFairness => \A v \in Voices : ring[v] # None ~> ring[v] = None

\* stop() joins although the audio device may already be silent: a worker
\* that waits for room in a full ring, or for another worker's lock, leaves.
\* Only the workers are scheduled.
StopJoins == WorkerFairness => (~run ~> \A w \in Workers : pc[w] = "exited")
=============================================================================
