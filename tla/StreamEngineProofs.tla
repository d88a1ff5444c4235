-------------------------- MODULE StreamEngineProofs --------------------------
(***************************************************************************)
(* Proofs about StreamEngine for every pool size, every number of voices   *)
(* and workers, every ring capacity and every file length: its types, one  *)
(* owner to a ring at a time, and a voice that finds its own file in its   *)
(* ring, in order.                                                         *)
(***************************************************************************)
EXTENDS StreamInvariant, SequenceTheorems, TLAPS

USE DEF Rings

-----------------------------------------------------------------------------
(* Sequence facts about ring content and the request queue. *)

\* What a commit leaves of a ring's content.
LEMMA DropFacts ==
  ASSUME NEW S, NEW s \in Seq(S), NEW n \in 0..Len(s)
  PROVE  /\ Drop(s, n) \in Seq(S)
         /\ Len(Drop(s, n)) = Len(s) - n
         /\ \A i \in 1..(Len(s) - n) : Drop(s, n)[i] = s[n + i]
<1>1. \A i \in (n + 1)..Len(s) : s[i] \in S
  BY ElementOfSeq
<1>2. /\ SubSeq(s, n + 1, Len(s)) \in Seq(S)
      /\ Len(SubSeq(s, n + 1, Len(s))) = IF n + 1 <= Len(s) THEN Len(s) - (n + 1) + 1 ELSE 0
      /\ \A i \in 1..(Len(s) - (n + 1) + 1) : SubSeq(s, n + 1, Len(s))[i] = s[n + 1 + i - 1]
  BY <1>1, SubSeqProperties, LenProperties
<1>3. Len(s) \in Nat
  BY LenProperties
<1> QED
  BY <1>2, <1>3 DEF Drop

\* The frames one push appends.
Pushed(g, from, n) == [i \in 1..n |-> [gen |-> g, pos |-> from + i - 1]]

LEMMA PushFacts ==
  ASSUME NEW s \in Seq(Frame), NEW g \in Nat, NEW from \in Nat, NEW n \in Nat
  PROVE  /\ s \o Pushed(g, from, n) \in Seq(Frame)
         /\ Len(s \o Pushed(g, from, n)) = Len(s) + n
         /\ \A i \in 1..Len(s) : (s \o Pushed(g, from, n))[i] = s[i]
         /\ \A i \in (Len(s) + 1)..(Len(s) + n) :
              (s \o Pushed(g, from, n))[i] =
                [gen |-> g, pos |-> from + (i - Len(s)) - 1]
<1>1. Pushed(g, from, n) \in [1..n -> Frame]
  BY DEF Pushed, Frame
<1>2. /\ Pushed(g, from, n) \in Seq(Frame)
      /\ Len(Pushed(g, from, n)) = n
  BY <1>1
<1>3. Len(s) \in Nat
  BY LenProperties
<1>4. /\ s \o Pushed(g, from, n) \in Seq(Frame)
      /\ Len(s \o Pushed(g, from, n)) = Len(s) + n
      /\ \A i \in 1..(Len(s) + n) : (s \o Pushed(g, from, n))[i] =
           IF i <= Len(s) THEN s[i] ELSE Pushed(g, from, n)[i - Len(s)]
  BY <1>2, ConcatProperties
<1>5. \A i \in 1..n : Pushed(g, from, n)[i] = [gen |-> g, pos |-> from + i - 1]
  BY DEF Pushed
<1> QED
  BY <1>3, <1>4, <1>5

\* Frame by frame.
LEMMA PushedFrame ==
  ASSUME NEW s \in Seq(Frame), NEW g \in Nat, NEW from \in Nat, NEW n \in Nat,
         NEW k \in 1..(Len(s) + n)
  PROVE  (s \o Pushed(g, from, n))[k] =
           IF k <= Len(s) THEN s[k]
                          ELSE [gen |-> g, pos |-> from + (k - Len(s)) - 1]
<1>1. Len(s) \in Nat
  BY LenProperties
<1>2. /\ Pushed(g, from, n) \in Seq(Frame)
      /\ Len(Pushed(g, from, n)) = n
  <2>1. Pushed(g, from, n) \in [1..n -> Frame]
    BY DEF Pushed, Frame
  <2> QED
    BY <2>1
<1>3. (s \o Pushed(g, from, n))[k] =
        IF k <= Len(s) THEN s[k] ELSE Pushed(g, from, n)[k - Len(s)]
  BY <1>2, ConcatProperties
<1>4. ASSUME k > Len(s)
      PROVE  Pushed(g, from, n)[k - Len(s)] =
               [gen |-> g, pos |-> from + (k - Len(s)) - 1]
  <2>1. k - Len(s) \in 1..n
    BY <1>1, <1>4
  <2> QED
    BY <2>1 DEF Pushed
<1> QED
  BY <1>1, <1>3, <1>4

-----------------------------------------------------------------------------
(* Types, readers and chunks. *)

LEMMA TypeInit == Init => TypeInv
<1> SUFFICES ASSUME Init PROVE TypeInv
  OBVIOUS
<1> USE StreamAssumption DEF Init
<1>1. <<>> \in Seq(Frame) /\ <<>> \in Seq(Request) /\ Len(<<>>) = 0
  OBVIOUS
<1>2. TypeOK
  BY <1>1 DEF TypeOK, RingTypes, QueueTypes, WorkerTypes, VoiceTypes
<1>3. ReaderInv /\ ChunkInv
  BY DEF ReaderInv, ChunkInv
<1> QED
  BY <1>2, <1>3 DEF TypeInv

\* The steps of a worker leave the voices alone, and the ring under the
\* voice in process() only grows.
LEMMA WorkerKeepsReaders ==
  ASSUME TypeInv, UNCHANGED <<readerVars, voiceVars>>,
         \A r \in Rings : Len(data'[r]) >= Len(data[r])
  PROVE  VoiceTypes' /\ ReaderInv'
<1>1. VoiceTypes'
  BY DEF TypeInv, TypeOK, VoiceTypes, readerVars, voiceVars
<1>2. ASSUME cur # None, ring[cur] # None
      PROVE  Len(data'[ring[cur]]) >= Len(data[ring[cur]])
  BY <1>2 DEF TypeInv, TypeOK, VoiceTypes
<1>3. \A r \in Rings : data[r] \in Seq(Frame) /\ Len(data[r]) \in Nat
  BY LenProperties DEF TypeInv, TypeOK, RingTypes
<1>4. ReaderInv'
  BY <1>2, <1>3 DEF TypeInv, TypeOK, VoiceTypes, ReaderInv, readerVars, voiceVars
<1> QED
  BY <1>1, <1>4

LEMMA TypeTake ==
  ASSUME TypeInv, NEW w \in Workers, TakeRequest(w)
  PROVE  TypeInv'
<1> USE DEF TypeInv, TypeOK, TakeRequest
<1>1. /\ Head(queue) \in Request /\ Tail(queue) \in Seq(Request)
      /\ Len(Tail(queue)) = Len(queue) - 1 /\ Len(queue) \in Nat
  BY HeadTailProperties, LenProperties DEF QueueTypes
<1>2. Head(queue).off \in Nat /\ Head(queue).n \in Nat
  BY <1>1 DEF Request
<1>3. QueueTypes'
  BY <1>1, StreamAssumption DEF QueueTypes
<1>4. WorkerTypes'
  BY <1>1, <1>2 DEF WorkerTypes, Goto
<1>5. RingTypes'
  BY DEF RingTypes, ringVars
<1>6. VoiceTypes' /\ ReaderInv'
  <2>1. \A r \in Rings : Len(data'[r]) >= Len(data[r])
    BY LenProperties DEF RingTypes, ringVars
  <2> QED
    BY <2>1, WorkerKeepsReaders
<1>7. ChunkInv'
  BY DEF ChunkInv, Goto, WorkerTypes
<1> QED
  BY <1>3, <1>4, <1>5, <1>6, <1>7

\* A step of a worker on its own locals.
LEMMA LocalStep ==
  ASSUME TypeInv, WorkerTypes', ChunkInv',
         UNCHANGED <<ringVars, queue, threshold, run, readerVars, voiceVars>>
  PROVE  TypeInv'
<1>1. RingTypes' /\ QueueTypes'
  BY DEF TypeInv, TypeOK, RingTypes, QueueTypes, ringVars
<1>2. \A r \in Rings : Len(data'[r]) >= Len(data[r])
  BY LenProperties DEF TypeInv, TypeOK, RingTypes, ringVars
<1> QED
  BY <1>1, <1>2, WorkerKeepsReaders DEF TypeInv, TypeOK

LEMMA TypeNextRound ==
  ASSUME WorkerTypes, ChunkInv, NEW w \in Workers, NextRound(w)
  PROVE  WorkerTypes' /\ ChunkInv'
BY DEF NextRound, Goto, WorkerTypes, ChunkInv

LEMMA TypeLocal ==
  ASSUME TypeInv, NEW w \in Workers,
         \/ LeaveLoop(w) \/ SizeChunk(w) \/ ReadFile(w) \/ AbandonLock(w)
         \/ WriteFresh(w) \/ Finish(w) \/ ExitWorker(w)
  PROVE  TypeInv'
<1> USE DEF TypeInv, TypeOK
<1>1. CASE LeaveLoop(w)
  <2>1. WorkerTypes' /\ ChunkInv'
    BY <1>1 DEF LeaveLoop, Goto, WorkerTypes, ChunkInv
  <2> QED
    BY <1>1, <2>1, LocalStep DEF LeaveLoop
<1>2. CASE SizeChunk(w)
  <2>1. req[w] \in Request
    BY <1>2 DEF SizeChunk, WorkerTypes
  <2>2. req[w].ring \in Rings
    BY <2>1 DEF Request
  <2>3. Len(data[req[w].ring]) \in Nat /\ Capacity \in Nat
    BY <2>2, LenProperties, StreamAssumption DEF RingTypes
  <2>4. /\ AtMost(remain[w], Capacity - Len(data[req[w].ring])) \in Nat
        /\ AtMost(remain[w], Capacity - Len(data[req[w].ring])) <= remain[w]
    BY <1>2, <2>3 DEF SizeChunk, AtMost, WorkerTypes
  <2>5. WorkerTypes' /\ ChunkInv'
    BY <1>2, <2>1, <2>4 DEF SizeChunk, Goto, WorkerTypes, ChunkInv
  <2> QED
    BY <1>2, <2>5, LocalStep DEF SizeChunk
<1>3. CASE ReadFile(w)
  <2> DEFINE readable == IF off[w] < req[w].file.disk
                         THEN AtMost(chunk[w], req[w].file.disk - off[w]) ELSE 0
  <2>1. req[w] \in Request
    BY <1>3 DEF ReadFile, WorkerTypes
  <2>2. req[w].file.disk \in Nat
    BY <2>1, StreamAssumption DEF Request
  <2>3. readable \in Nat /\ readable <= chunk[w]
    BY <1>3, <2>2 DEF AtMost, WorkerTypes, ReadFile
  <2>4. /\ \/ chunk' = chunk
           \/ readable > 0 /\ chunk' = [chunk EXCEPT ![w] = readable]
        /\ Goto(w, "finish") \/ Goto(w, "lock")
        /\ pc[w] = "read"
        /\ UNCHANGED <<ringVars, queue, threshold, run, req, off, remain,
                       readerVars, voiceVars>>
    BY <1>3 DEF ReadFile
  <2>5. hitEof' \in [Workers -> BOOLEAN]
    <3>1. hitEof' = hitEof \/ hitEof' = [hitEof EXCEPT ![w] = TRUE]
          \/ hitEof' = [hitEof EXCEPT ![w] = readable < chunk[w]]
      BY <1>3 DEF ReadFile
    <3>2. (readable < chunk[w]) \in BOOLEAN
      OBVIOUS
    <3> HIDE DEF readable
    <3> QED
      BY <3>1, <3>2, Zenon DEF WorkerTypes
  <2>6. WorkerTypes'
    BY <2>1, <2>3, <2>4, <2>5 DEF WorkerTypes, Goto
  <2>7. ChunkInv'
    BY <2>3, <2>4 DEF WorkerTypes, Goto, ChunkInv
  <2> QED
    BY <2>4, <2>6, <2>7, LocalStep
<1>4. CASE AbandonLock(w)
  <2>1. WorkerTypes' /\ ChunkInv'
    BY <1>4 DEF AbandonLock, Goto, WorkerTypes, ChunkInv
  <2> QED
    BY <1>4, <2>1, LocalStep DEF AbandonLock
<1>5. CASE WriteFresh(w)
  <2>1. WorkerTypes' /\ ChunkInv'
    BY <1>5 DEF WriteFresh, Goto, WorkerTypes, ChunkInv
  <2> QED
    BY <1>5, <2>1, LocalStep DEF WriteFresh
<1>6. CASE Finish(w)
  <2>1. CASE NextRound(w)
    BY <1>6, <2>1, TypeNextRound, LocalStep DEF Finish
  <2>2. CASE ~NextRound(w)
    <3>1. WorkerTypes' /\ ChunkInv'
      BY <1>6, <2>2 DEF Finish, Goto, WorkerTypes, ChunkInv
    <3> QED
      BY <1>6, <3>1, LocalStep DEF Finish
  <2> QED
    BY <2>1, <2>2
<1>7. CASE ExitWorker(w)
  <2>1. WorkerTypes' /\ ChunkInv'
    BY <1>7 DEF ExitWorker, Goto, WorkerTypes, ChunkInv
  <2> QED
    BY <1>7, <2>1, LocalStep DEF ExitWorker
<1> QED
  BY <1>1, <1>2, <1>3, <1>4, <1>5, <1>6, <1>7

LEMMA TypeRingStep ==
  ASSUME TypeInv, NEW w \in Workers,
         LockRing(w) \/ DropStale(w) \/ StoreEof(w)
  PROVE  TypeInv'
<1> USE DEF TypeInv, TypeOK
<1>1. req[w] \in Request
  BY DEF LockRing, DropStale, StoreEof, WorkerTypes
<1>2. req[w].ring \in Rings
  BY <1>1 DEF Request
<1>3. QueueTypes'
  BY DEF LockRing, DropStale, StoreEof, QueueTypes
<1>4. RingTypes' /\ data' = data
  BY <1>2 DEF LockRing, DropStale, StoreEof, RingTypes
<1>5. WorkerTypes' /\ ChunkInv'
  BY TypeNextRound DEF LockRing, DropStale, StoreEof, Goto, WorkerTypes, ChunkInv
<1>6. VoiceTypes' /\ ReaderInv'
  <2>1. \A r \in Rings : Len(data'[r]) >= Len(data[r])
    BY <1>4, LenProperties DEF RingTypes
  <2> QED
    BY <2>1, WorkerKeepsReaders DEF LockRing, DropStale, StoreEof
<1> QED
  BY <1>3, <1>4, <1>5, <1>6

\* What Publish does: the ring, and the frames from..from+wrote-1 it gets.
Published(w, r, g, from, wrote) ==
  /\ r = req[w].ring /\ g = req[w].gen /\ from = off[w]
  /\ wrote = AtMost(chunk[w], Capacity - Len(data[r]))
  /\ wrote <= remain[w] /\ wrote <= chunk[w]
  /\ Len(data[r]) + wrote <= Capacity
  /\ data' = [data EXCEPT ![r] = @ \o Pushed(g, from, wrote)]
  /\ data[r] \o Pushed(g, from, wrote) \in Seq(Frame)
  /\ Len(data[r] \o Pushed(g, from, wrote)) = Len(data[r]) + wrote
  /\ off' = [off EXCEPT ![w] = @ + wrote]
  /\ remain' = [remain EXCEPT ![w] = @ - wrote]
  /\ hitEof' = [hitEof EXCEPT ![w] =
                  hitEof[w] \/ off[w] + wrote >= req[w].file.len]

LEMMA PublishStep ==
  ASSUME TypeInv, NEW w \in Workers, Publish(w)
  PROVE  \E r \in Rings, g \in Nat, from \in Nat, wrote \in Nat :
           Published(w, r, g, from, wrote)
<1> USE DEF TypeInv, TypeOK
<1>1. /\ req[w] \in Request /\ pc[w] = "copy"
      /\ chunk[w] \in Nat /\ remain[w] \in Nat /\ off[w] \in Nat
      /\ chunk[w] <= remain[w]
  BY DEF Publish, WorkerTypes, ChunkInv
<1>2. req[w].ring \in Rings /\ req[w].gen \in Nat
  BY <1>1 DEF Request
<1>3. PICK r \in Rings, g \in Nat, from \in Nat :
        r = req[w].ring /\ g = req[w].gen /\ from = off[w]
  BY <1>1, <1>2
<1>4. data[r] \in Seq(Frame) /\ Len(data[r]) \in Nat /\ Len(data[r]) <= Capacity
  BY <1>3, LenProperties DEF RingTypes
<1>5. PICK wrote \in Nat :
        /\ wrote = AtMost(chunk[w], Capacity - Len(data[r]))
        /\ wrote <= remain[w] /\ wrote <= chunk[w]
        /\ Len(data[r]) + wrote <= Capacity
  BY <1>1, <1>4, StreamAssumption DEF AtMost
<1>6. /\ data[r] \o Pushed(g, from, wrote) \in Seq(Frame)
      /\ Len(data[r] \o Pushed(g, from, wrote)) = Len(data[r]) + wrote
  <2>1. \A s \in Seq(Frame) : /\ s \o Pushed(g, from, wrote) \in Seq(Frame)
                              /\ Len(s \o Pushed(g, from, wrote)) = Len(s) + wrote
    BY PushFacts
  <2> QED
    BY <1>4, <2>1
<1>7. /\ data' = [data EXCEPT ![r] = @ \o Pushed(g, from, wrote)]
      /\ off' = [off EXCEPT ![w] = @ + wrote]
      /\ remain' = [remain EXCEPT ![w] = @ - wrote]
      /\ hitEof' = [hitEof EXCEPT ![w] =
                      hitEof[w] \/ off[w] + wrote >= req[w].file.len]
  BY <1>3, <1>5 DEF Publish, Pushed
<1> QED
  BY <1>3, <1>5, <1>6, <1>7 DEF Published

LEMMA TypePublish ==
  ASSUME TypeInv, NEW w \in Workers, Publish(w)
  PROVE  TypeInv'
<1> USE DEF TypeInv, TypeOK
<1>0. PICK r \in Rings, g \in Nat, from \in Nat, wrote \in Nat :
        Published(w, r, g, from, wrote)
  BY PublishStep
<1>1. /\ r = req[w].ring
      /\ wrote <= remain[w]
      /\ Len(data[r]) + wrote <= Capacity
      /\ data' = [data EXCEPT ![r] = @ \o Pushed(g, from, wrote)]
      /\ data[r] \o Pushed(g, from, wrote) \in Seq(Frame)
      /\ Len(data[r] \o Pushed(g, from, wrote)) = Len(data[r]) + wrote
      /\ off' = [off EXCEPT ![w] = @ + wrote]
      /\ remain' = [remain EXCEPT ![w] = @ - wrote]
      /\ hitEof' = [hitEof EXCEPT ![w] =
                      hitEof[w] \/ off[w] + wrote >= req[w].file.len]
  BY <1>0 DEF Published
<1>2. /\ pc[w] = "copy" /\ (Goto(w, "finish") \/ Goto(w, "loop"))
      /\ chunk' = [chunk EXCEPT ![w] = 0]
      /\ producers' = [producers EXCEPT ![r] = 0]
      /\ UNCHANGED <<eof, inUse, gen, queue, threshold, run, req, readerVars,
                     voiceVars>>
  BY <1>1 DEF Publish
<1>3. RingTypes'
  BY <1>1, <1>2 DEF RingTypes
<1>4. QueueTypes'
  BY <1>2 DEF QueueTypes
<1>5. WorkerTypes'
  <2>1. hitEof' \in [Workers -> BOOLEAN]
    <3>1. (hitEof[w] \/ off[w] + wrote >= req[w].file.len) \in BOOLEAN
      OBVIOUS
    <3> QED
      BY <1>1, <3>1, Zenon DEF WorkerTypes
  <2>2. off[w] + wrote \in Nat /\ remain[w] - wrote \in Nat
    BY <1>1 DEF WorkerTypes
  <2> QED
    BY <1>1, <1>2, <2>1, <2>2 DEF WorkerTypes, Goto
<1>6. ChunkInv'
  BY <1>1, <1>2 DEF ChunkInv, WorkerTypes, Goto
<1>7. VoiceTypes' /\ ReaderInv'
  <2>1. \A q \in Rings : Len(data[q]) \in Nat
    BY LenProperties DEF RingTypes
  <2>2. \A q \in Rings : Len(data'[q]) >= Len(data[q])
    BY <1>1, <2>1 DEF RingTypes
  <2> QED
    BY <1>2, <2>2, WorkerKeepsReaders
<1> QED
  BY <1>3, <1>4, <1>5, <1>6, <1>7

-----------------------------------------------------------------------------
(* The steps of the audio thread leave the locals of the workers alone. *)

\* What requestRead leaves behind.
LEMMA RequestTypes ==
  ASSUME TypeInv, NEW v \in Voices, NEW r \in Rings, NEW f \in Files,
         NEW from \in Nat, NEW n \in Nat,
         RequestRead(v, r, f, from, n)
  PROVE  /\ queue' \in Seq(Request) /\ Len(queue') <= QueueCap
         /\ reqOff' \in [Voices -> Nat]
         /\ pending' \in [Voices -> BOOLEAN]
<1> USE DEF TypeInv, TypeOK
<1> DEFINE q == [ring |-> r, file |-> f, off |-> from, n |-> n,
                 last |-> from + n >= f.len, gen |-> gen[r]]
<1>1. q \in Request
  <2>1. gen[r] \in Nat
    BY DEF RingTypes
  <2>2. (from + n >= f.len) \in BOOLEAN
    OBVIOUS
  <2> QED
    BY <2>1, <2>2 DEF Request
<1>2. /\ queue \in Seq(Request) /\ Len(queue) <= QueueCap
      /\ Len(queue) \in Nat
      /\ reqOff \in [Voices -> Nat] /\ pending \in [Voices -> BOOLEAN]
  BY LenProperties DEF QueueTypes, VoiceTypes
<1>3. CASE Len(queue) < QueueCap
  <2>1. /\ queue' = Append(queue, q)
        /\ reqOff' = [reqOff EXCEPT ![v] = from + n]
        /\ pending' = [pending EXCEPT ![v] = TRUE]
    BY <1>3 DEF RequestRead, Sent, Unsent
  <2> HIDE DEF q
  <2>2. queue' \in Seq(Request) /\ Len(queue') = Len(queue) + 1
    BY <1>1, <1>2, <2>1, AppendProperties
  <2> QED
    BY <1>2, <1>3, <2>1, <2>2, StreamAssumption
<1>4. CASE ~(Len(queue) < QueueCap)
  BY <1>2, <1>4 DEF RequestRead, Sent, Unsent
<1> QED
  BY <1>3, <1>4

LEMMA VoiceStep ==
  ASSUME TypeInv, UNCHANGED workerVars
  PROVE  WorkerTypes' /\ ChunkInv'
BY DEF TypeInv, TypeOK, WorkerTypes, ChunkInv, workerVars

LEMMA TypeStart ==
  ASSUME TypeInv, NEW v \in Voices, NEW f \in Files, StartVoice(v, f)
  PROVE  TypeInv'
<1> USE DEF TypeInv, TypeOK
<1>1. WorkerTypes' /\ ChunkInv'
  BY VoiceStep DEF StartVoice
<1>2. /\ mode' = [mode EXCEPT ![v] = "play"] /\ file' = [file EXCEPT ![v] = f]
      /\ mode[v] = "idle" /\ cur = None
      /\ UNCHANGED <<threshold, run, verdict, got, cur, taken>>
  BY DEF StartVoice
<1>3. CASE UNCHANGED <<ringVars, queue, ring, reqOff, pending>>
  <2>1. RingTypes' /\ QueueTypes'
    BY <1>2, <1>3 DEF RingTypes, QueueTypes, ringVars
  <2>2. VoiceTypes' /\ ReaderInv'
    BY <1>2, <1>3 DEF VoiceTypes, ReaderInv, ringVars
  <2> QED
    BY <1>1, <2>1, <2>2
<1>4. ASSUME NEW r \in Rings, inUse' = [inUse EXCEPT ![r] = TRUE],
             data' = [data EXCEPT ![r] = <<>>], eof' = [eof EXCEPT ![r] = FALSE],
             ring' = [ring EXCEPT ![v] = r],
             RequestRead(v, r, f, 0, AtMost(Capacity, f.len)),
             UNCHANGED <<gen, producers>>
      PROVE  TypeInv'
  <2>1. AtMost(Capacity, f.len) \in Nat
    BY StreamAssumption DEF AtMost
  <2>2. /\ queue' \in Seq(Request) /\ Len(queue') <= QueueCap
        /\ reqOff' \in [Voices -> Nat] /\ pending' \in [Voices -> BOOLEAN]
    BY <1>4, <2>1, RequestTypes
  <2>3. \A u \in Voices : u # v => reqOff'[u] = reqOff[u] /\ pending'[u] = pending[u]
    BY <1>4 DEF RequestRead, Sent, Unsent, VoiceTypes
  <2>4. RingTypes'
    <3>1. <<>> \in Seq(Frame) /\ Len(<<>>) = 0
      OBVIOUS
    <3> QED
      BY <1>4, <3>1, StreamAssumption DEF RingTypes
  <2>5. QueueTypes'
    BY <1>2, <2>2 DEF QueueTypes
  <2>6. VoiceTypes'
    BY <1>2, <1>4, <2>2 DEF VoiceTypes
  <2>7. ReaderInv'
    BY <1>2, <1>4, <2>3, StreamAssumption DEF ReaderInv, VoiceTypes
  <2> QED
    BY <1>1, <2>4, <2>5, <2>6, <2>7
<1> QED
  BY <1>3, <1>4 DEF StartVoice

LEMMA ReleaseTypes ==
  ASSUME TypeInv, NEW v \in Voices, ReleaseRing(v)
  PROVE  /\ inUse' \in [Rings -> BOOLEAN] /\ gen' \in [Rings -> Nat]
         /\ ring' \in [Voices -> Rings \cup {None}]
         /\ file' \in [Voices -> Files \cup {None}]
         /\ reqOff' \in [Voices -> Nat] /\ pending' \in [Voices -> BOOLEAN]
         /\ mode' \in [Voices -> {"idle", "play", "fade"}]
         /\ verdict' \in [Voices -> {"none", "end", "underrun"}]
         /\ got' \in [Voices -> Nat]
<1> USE DEF TypeInv, TypeOK
<1>1. inUse' \in [Rings -> BOOLEAN]
  <2>1. \A r \in Rings : (inUse[r] /\ r # ring[v]) \in BOOLEAN
    OBVIOUS
  <2> QED
    BY <2>1, Zenon DEF ReleaseRing
<1>2. gen' \in [Rings -> Nat]
  <2>1. \A r \in Rings : (IF r = ring[v] THEN gen[r] + 1 ELSE gen[r]) \in Nat
    BY DEF RingTypes
  <2> QED
    BY <2>1 DEF ReleaseRing
<1>3. /\ ring' \in [Voices -> Rings \cup {None}]
      /\ file' \in [Voices -> Files \cup {None}]
      /\ reqOff' \in [Voices -> Nat] /\ pending' \in [Voices -> BOOLEAN]
      /\ mode' \in [Voices -> {"idle", "play", "fade"}]
      /\ verdict' \in [Voices -> {"none", "end", "underrun"}]
      /\ got' \in [Voices -> Nat]
  BY DEF ReleaseRing, VoiceTypes
<1> QED
  BY <1>1, <1>2, <1>3

LEMMA TypeEnd ==
  ASSUME TypeInv, NEW v \in Voices, EndVoice(v)
  PROVE  TypeInv'
<1> USE DEF TypeInv, TypeOK
<1>1. ReleaseRing(v) /\ cur = None
      /\ UNCHANGED <<data, eof, producers, queue, threshold, run, workerVars,
                     cur, taken>>
  BY DEF EndVoice
<1>2. RingTypes' /\ QueueTypes' /\ VoiceTypes'
  BY <1>1, ReleaseTypes DEF RingTypes, QueueTypes, VoiceTypes
<1>3. WorkerTypes' /\ ChunkInv'
  BY <1>1, VoiceStep
<1>4. ReaderInv'
  BY <1>1 DEF ReaderInv, ReleaseRing, VoiceTypes
<1> QED
  BY <1>2, <1>3, <1>4

\* What a commit leaves of the ring of the voice in process().
LEMMA CommitFacts ==
  ASSUME TypeInv, NEW v \in Voices, cur = v, Commit(v)
  PROVE  \E r \in Rings, n \in Nat :
           /\ r = ring[v] /\ n = taken /\ n <= Len(data[r])
           /\ data' = [data EXCEPT ![r] = Drop(@, n)]
           /\ Drop(data[r], n) \in Seq(Frame)
           /\ Len(Drop(data[r], n)) = Len(data[r]) - n
           /\ \A i \in 1..(Len(data[r]) - n) : Drop(data[r], n)[i] = data[r][n + i]
<1> USE DEF TypeInv, TypeOK
<1>1. PICK r \in Rings, n \in Nat : r = ring[v] /\ n = taken /\ n <= Len(data[r])
  BY StreamAssumption DEF ReaderInv, VoiceTypes
<1>2. \A s \in Seq(Frame) : n \in 0..Len(s) =>
        /\ Drop(s, n) \in Seq(Frame) /\ Len(Drop(s, n)) = Len(s) - n
        /\ \A i \in 1..(Len(s) - n) : Drop(s, n)[i] = s[n + i]
  BY DropFacts
<1>3. data[r] \in Seq(Frame) /\ n \in 0..Len(data[r])
  BY <1>1, LenProperties DEF RingTypes
<1>4. data' = [data EXCEPT ![r] = Drop(@, n)]
  BY <1>1 DEF Commit, Drop
<1> QED
  BY <1>1, <1>2, <1>3, <1>4

LEMMA TypeBlock ==
  ASSUME TypeInv, NEW v \in Voices,
         OpenBlock(v) \/ PopFrame(v) \/ RingEmpty(v)
  PROVE  TypeInv'
<1> USE DEF TypeInv, TypeOK
<1>1. WorkerTypes' /\ ChunkInv'
  BY VoiceStep DEF OpenBlock, PopFrame, RingEmpty
<1>2. RingTypes' /\ QueueTypes'
  BY DEF OpenBlock, PopFrame, RingEmpty, RingTypes, QueueTypes, ringVars
<1>3. VoiceTypes'
  <2>1. CASE OpenBlock(v)
    BY <2>1 DEF OpenBlock, VoiceTypes, readerVars
  <2>2. CASE PopFrame(v)
    BY <2>2 DEF PopFrame, VoiceTypes, readerVars
  <2>3. CASE RingEmpty(v)
    BY <2>3 DEF RingEmpty, VoiceTypes, readerVars
  <2> QED
    BY <2>1, <2>2, <2>3
<1>4. \A r \in Rings : Len(data[r]) \in Nat
  BY LenProperties DEF RingTypes
<1>5. ReaderInv'
  BY <1>4, StreamAssumption
     DEF OpenBlock, PopFrame, RingEmpty, ReaderInv, VoiceTypes, readerVars, ringVars
<1> QED
  BY <1>1, <1>2, <1>3, <1>5

LEMMA TypeCloseAndEnd ==
  ASSUME TypeInv, NEW v \in Voices, CloseAndEnd(v)
  PROVE  TypeInv'
<1> USE DEF TypeInv, TypeOK
<1>1. ReleaseRing(v) /\ cur = v /\ cur' = None /\ taken' = 0 /\ Commit(v)
      /\ UNCHANGED <<eof, producers, queue, threshold, run, workerVars>>
  BY DEF CloseAndEnd
<1>2. RingTypes'
  <2>1. PICK r \in Rings, n \in Nat :
           /\ data' = [data EXCEPT ![r] = Drop(@, n)]
           /\ Drop(data[r], n) \in Seq(Frame)
           /\ Len(Drop(data[r], n)) = Len(data[r]) - n
           /\ n <= Len(data[r])
    BY <1>1, CommitFacts
  <2>2. \A q \in Rings : Len(data[q]) \in Nat
    BY LenProperties DEF RingTypes
  <2>3. inUse' \in [Rings -> BOOLEAN] /\ gen' \in [Rings -> Nat]
    BY <1>1, ReleaseTypes
  <2>4. /\ data' \in [Rings -> Seq(Frame)]
        /\ \A q \in Rings : Len(data'[q]) <= Capacity
    BY <2>1, <2>2, StreamAssumption DEF RingTypes
  <2> QED
    BY <1>1, <2>3, <2>4 DEF RingTypes
<1>3. QueueTypes' /\ VoiceTypes'
  BY <1>1, ReleaseTypes DEF QueueTypes, VoiceTypes
<1>4. WorkerTypes' /\ ChunkInv'
  BY <1>1, VoiceStep
<1>5. ReaderInv'
  BY <1>1 DEF ReaderInv, ReleaseRing, VoiceTypes
<1> QED
  BY <1>2, <1>3, <1>4, <1>5

\* What refill leaves behind on a ring that holds avail frames.
LEMMA RefillTypes ==
  ASSUME TypeInv, NEW v \in Voices, ring[v] # None, NEW avail \in 0..Capacity,
         Refill(v, avail)
  PROVE  /\ queue' \in Seq(Request) /\ Len(queue') <= QueueCap
         /\ reqOff' \in [Voices -> Nat] /\ pending' \in [Voices -> BOOLEAN]
<1> USE DEF TypeInv, TypeOK
<1> DEFINE left  == file[v].len - reqOff[v]
           still == StillPending(v, avail)
<1>1. PICK r \in Rings, f \in Files, from \in Nat :
        r = ring[v] /\ f = file[v] /\ from = reqOff[v]
  BY DEF VoiceTypes, ReaderInv
<1>2. still \in BOOLEAN
  BY DEF StillPending
<1>3. f.len \in Nat /\ left = f.len - from
  BY <1>1, StreamAssumption
<1> HIDE DEF still
<1>4. CASE ~still /\ avail < threshold /\ left > 0
  <2>1. PICK n \in Nat : n = AtMost(Capacity - avail, left)
    BY <1>1, <1>3, <1>4, StreamAssumption DEF AtMost
  <2>2. RequestRead(v, r, f, from, n)
    BY <1>1, <1>4, <2>1 DEF Refill, still, Wanted, RequestRead, Sent, Unsent
  <2> QED
    BY <2>2, RequestTypes
<1>5. CASE ~(~still /\ avail < threshold /\ left > 0)
  <2>1. pending' = [pending EXCEPT ![v] = still] /\ UNCHANGED <<queue, reqOff>>
    BY <1>5 DEF Refill, still
  <2>2. pending' \in [Voices -> BOOLEAN]
    BY <1>2, <2>1, Zenon DEF VoiceTypes
  <2> QED
    BY <2>1, <2>2 DEF VoiceTypes, QueueTypes
<1> QED
  BY <1>4, <1>5

\* Refill touches the entry of its own voice only.
LEMMA RefillOthers ==
  ASSUME TypeInv, NEW v \in Voices, NEW avail, Refill(v, avail),
         NEW u \in Voices, u # v
  PROVE  reqOff'[u] = reqOff[u] /\ pending'[u] = pending[u]
BY DEF Refill, Wanted, StillPending, RequestRead, Sent, Unsent, TypeInv, TypeOK, VoiceTypes

LEMMA TypeCloseBlock ==
  ASSUME TypeInv, NEW v \in Voices, CloseBlock(v)
  PROVE  TypeInv'
<1> USE DEF TypeInv, TypeOK
<1>1. /\ cur = v /\ Commit(v) /\ cur' = None /\ taken' = 0
      /\ UNCHANGED <<eof, inUse, gen, producers, threshold, run, workerVars,
                     ring, file, mode, verdict, got>>
  BY DEF CloseBlock
<1>2. PICK r \in Rings, n \in Nat :
        /\ r = ring[v] /\ n = taken /\ n <= Len(data[r])
        /\ data' = [data EXCEPT ![r] = Drop(@, n)]
        /\ Drop(data[r], n) \in Seq(Frame)
        /\ Len(Drop(data[r], n)) = Len(data[r]) - n
  BY <1>1, CommitFacts
<1>3. \A q \in Rings : Len(data[q]) \in Nat
  BY LenProperties DEF RingTypes
<1>4. PICK avail \in 0..Capacity : avail = Len(data[r]) - n
  <2>1. Len(data[r]) - n \in 0..Capacity
    BY <1>2, <1>3, StreamAssumption DEF RingTypes
  <2> QED
    BY <2>1
<1>5. Refill(v, avail)
  BY <1>2, <1>4 DEF CloseBlock, Refill, Wanted, StillPending, RequestRead, Sent, Unsent
<1>6. ring[v] # None
  BY <1>1, StreamAssumption DEF ReaderInv
<1>7. /\ queue' \in Seq(Request) /\ Len(queue') <= QueueCap
      /\ reqOff' \in [Voices -> Nat] /\ pending' \in [Voices -> BOOLEAN]
  BY <1>5, <1>6, RefillTypes
<1>8. RingTypes'
  BY <1>1, <1>2, <1>3, StreamAssumption DEF RingTypes
<1>9. QueueTypes' /\ VoiceTypes'
  BY <1>1, <1>7 DEF QueueTypes, VoiceTypes
<1>10. WorkerTypes' /\ ChunkInv'
  BY <1>1, VoiceStep
<1>11. ReaderInv'
  <2>1. \A u \in Voices : u # v => reqOff'[u] = reqOff[u] /\ pending'[u] = pending[u]
    BY <1>5, RefillOthers
  <2> QED
    BY <1>1, <1>6, <2>1 DEF ReaderInv
<1> QED
  BY <1>8, <1>9, <1>10, <1>11

LEMMA TypeControl ==
  ASSUME TypeInv, Stop \/ \E t \in Thresholds : SetThreshold(t)
  PROVE  TypeInv'
<1> USE DEF TypeInv, TypeOK
<1>1. /\ UNCHANGED <<ringVars, queue, workerVars, readerVars, voiceVars>>
      /\ threshold' \in Thresholds /\ run' \in BOOLEAN
  BY DEF Stop, SetThreshold, QueueTypes
<1>2. WorkerTypes' /\ ChunkInv'
  BY <1>1, VoiceStep
<1>3. \A r \in Rings : Len(data'[r]) >= Len(data[r])
  BY <1>1, LenProperties DEF RingTypes, ringVars
<1>4. RingTypes' /\ QueueTypes'
  BY <1>1 DEF RingTypes, QueueTypes, ringVars
<1> QED
  BY <1>1, <1>2, <1>3, <1>4, WorkerKeepsReaders

LEMMA TypeStutter ==
  ASSUME TypeInv, UNCHANGED vars
  PROVE  TypeInv'
<1> USE DEF TypeInv, TypeOK, vars
<1>1. WorkerTypes' /\ ChunkInv'
  BY VoiceStep
<1>2. \A r \in Rings : Len(data'[r]) >= Len(data[r])
  BY LenProperties DEF RingTypes, ringVars
<1>3. RingTypes' /\ QueueTypes'
  BY DEF RingTypes, QueueTypes, ringVars
<1> QED
  BY <1>1, <1>2, <1>3, WorkerKeepsReaders

LEMMA TypeNext == TypeInv /\ [Next]_vars => TypeInv'
<1> SUFFICES ASSUME TypeInv, [Next]_vars PROVE TypeInv'
  OBVIOUS
<1>1. ASSUME NEW w \in Workers, WorkerStep(w) PROVE TypeInv'
  BY <1>1, TypeTake, TypeLocal, TypeRingStep, TypePublish DEF WorkerStep
<1>2. ASSUME NEW v \in Voices, AudioStep(v) PROVE TypeInv'
  BY <1>2, TypeStart, TypeEnd, TypeBlock, TypeCloseBlock, TypeCloseAndEnd
     DEF AudioStep
<1>3. CASE Stop \/ \E t \in Thresholds : SetThreshold(t)
  BY <1>3, TypeControl
<1>4. CASE UNCHANGED vars
  BY <1>4, TypeStutter
<1> QED
  BY <1>1, <1>2, <1>3, <1>4 DEF Next

\* Every variable keeps its type, no ring overflows, the request queue stays
\* within kCap, and a reader and a worker keep their own books straight.
THEOREM StreamTypes == Spec => []TypeInv
<1>1. Init => TypeInv
  BY TypeInit
<1>2. TypeInv /\ [Next]_vars => TypeInv'
  BY TypeNext
<1> QED
  BY <1>1, <1>2, PTL DEF Spec

\* In particular the type invariant the runs check: a push never overfills a
\* ring, a request never overfills the queue.
THEOREM TypeCorrect == Spec => []TypeOK
<1>1. TypeInv => TypeOK
  BY DEF TypeInv
<1> QED
  BY <1>1, StreamTypes, PTL

-----------------------------------------------------------------------------
(* Ownership of the rings. *)

LEMMA ReleaseOwnership ==
  ASSUME OwnerInv, NEW v \in Voices, ReleaseRing(v)
  PROVE  RingOwnership'
<1> USE DEF OwnerInv, TypeInv, TypeOK, RingOwnership
<1>1. ring' = [ring EXCEPT ![v] = None]
      /\ \A r \in Rings : inUse'[r] <=> inUse[r] /\ r # ring[v]
  BY DEF ReleaseRing
<1>2. ring \in [Voices -> Rings \cup {None}] /\ None \notin Rings
  BY StreamAssumption DEF VoiceTypes
<1>3. \A u \in Voices : ring'[u] = IF u = v THEN None ELSE ring[u]
  BY <1>1, <1>2
<1>4. ASSUME NEW r \in Rings PROVE inUse'[r] <=> \E u \in Voices : ring'[u] = r
  <2>1. CASE r = ring[v]
    BY <1>1, <1>2, <1>3, <2>1
  <2>2. CASE r # ring[v]
    BY <1>1, <1>2, <1>3, <2>2
  <2> QED
    BY <2>1, <2>2
<1>5. \A u, x \in Voices : ring'[u] = ring'[x] /\ ring'[u] # None => u = x
  BY <1>3
<1> QED
  BY <1>4, <1>5

LEMMA StartOwnership ==
  ASSUME OwnerInv, NEW v \in Voices, NEW f \in Files, StartVoice(v, f)
  PROVE  RingOwnership'
<1> USE DEF OwnerInv, TypeInv, TypeOK, RingOwnership
<1>1. ring[v] = None /\ None \notin Rings
  BY StreamAssumption DEF StartVoice, ReaderInv
<1>2. CASE UNCHANGED <<ringVars, ring>>
  BY <1>2 DEF ringVars
<1>3. ASSUME NEW r \in Rings, FirstFree(r), inUse' = [inUse EXCEPT ![r] = TRUE],
             ring' = [ring EXCEPT ![v] = r]
      PROVE  RingOwnership'
  <2>1. ~inUse[r] /\ \A u \in Voices : ring[u] # r
    BY <1>3 DEF FirstFree
  <2>2. \A u \in Voices : ring'[u] = IF u = v THEN r ELSE ring[u]
    BY <1>3 DEF VoiceTypes
  <2>3. \A q \in Rings : inUse'[q] = IF q = r THEN TRUE ELSE inUse[q]
    BY <1>3 DEF RingTypes
  <2>4. ASSUME NEW q \in Rings PROVE inUse'[q] <=> \E u \in Voices : ring'[u] = q
    <3>1. CASE q = r
      <4>1. inUse'[q] /\ ring'[v] = q
        BY <2>2, <2>3, <3>1
      <4> QED
        BY <4>1
    <3>2. CASE q # r
      <4>1. (inUse'[q] <=> inUse[q]) /\ (inUse[q] <=> \E u \in Voices : ring[u] = q)
        BY <2>3, <3>2
      <4>2. \A u \in Voices : ring'[u] = q <=> ring[u] = q
        BY <1>1, <2>2, <3>2
      <4> QED
        BY <4>1, <4>2
    <3> QED
      BY <3>1, <3>2
  <2>5. \A u, x \in Voices : ring'[u] = ring'[x] /\ ring'[u] # None => u = x
    BY <2>1, <2>2
  <2> QED
    BY <2>4, <2>5
<1> QED
  BY <1>2, <1>3 DEF StartVoice, ringVars

LEMMA OwnerNext == OwnerInv /\ [Next]_vars => OwnerInv'
<1> SUFFICES ASSUME OwnerInv, [Next]_vars PROVE RingOwnership'
  BY TypeNext DEF OwnerInv
<1>1. ASSUME NEW w \in Workers, WorkerStep(w) PROVE RingOwnership'
  <2>1. UNCHANGED <<inUse, ring>>
    BY <1>1 DEF WorkerStep, TakeRequest, LeaveLoop, SizeChunk, ReadFile, LockRing,
         AbandonLock, WriteFresh, DropStale, Publish, Finish, StoreEof, ExitWorker,
         ringVars, readerVars
  <2> QED
    BY <2>1 DEF OwnerInv, RingOwnership
<1>2. ASSUME NEW v \in Voices, AudioStep(v) PROVE RingOwnership'
  <2>1. ASSUME NEW f \in Files, StartVoice(v, f) PROVE RingOwnership'
    BY <2>1, StartOwnership
  <2>2. CASE EndVoice(v) \/ CloseAndEnd(v)
    BY <2>2, ReleaseOwnership DEF EndVoice, CloseAndEnd
  <2>3. CASE OpenBlock(v) \/ PopFrame(v) \/ RingEmpty(v) \/ CloseBlock(v)
    BY <2>3 DEF OwnerInv, RingOwnership, OpenBlock, PopFrame, RingEmpty,
         CloseBlock, ringVars, readerVars
  <2> QED
    BY <1>2, <2>1, <2>2, <2>3 DEF AudioStep
<1>3. CASE Stop \/ (\E t \in Thresholds : SetThreshold(t)) \/ UNCHANGED vars
  BY <1>3 DEF OwnerInv, RingOwnership, Stop, SetThreshold, ringVars, readerVars, vars
<1> QED
  BY <1>1, <1>2, <1>3 DEF Next

\* No ring is ever shared by two voices, handed out twice or leaked: a ring of
\* the pool is in use exactly while one voice holds it.
THEOREM OwnershipCorrect == Spec => []RingOwnership
<1>1. Init => OwnerInv
  <2>1. Init => RingOwnership
    BY StreamAssumption DEF Init, RingOwnership
  <2> QED
    BY <2>1, TypeInit DEF OwnerInv
<1>2. OwnerInv /\ [Next]_vars => OwnerInv'
  BY OwnerNext
<1>3. OwnerInv => RingOwnership
  BY DEF OwnerInv
<1> QED
  BY <1>1, <1>2, <1>3, PTL DEF Spec

-----------------------------------------------------------------------------
(* The request queue. *)

\* What requestRead does, by cases.
LEMMA RequestFacts ==
  ASSUME TypeInv, NEW v \in Voices, NEW r \in Rings, NEW f \in Files,
         NEW from \in Nat, NEW n \in Nat,
         RequestRead(v, r, f, from, n)
  PROVE  \/ /\ queue' = queue
            /\ reqOff' = [reqOff EXCEPT ![v] = from]
            /\ pending' = [pending EXCEPT ![v] = FALSE]
         \/ \E q \in Request :
              /\ q.ring = r /\ q.file = f /\ q.off = from /\ q.n = n
              /\ q.gen = gen[r]
              /\ queue' \in Seq(Request) /\ Len(queue') = Len(queue) + 1
              /\ \A i \in 1..Len(queue) : queue'[i] = queue[i]
              /\ queue'[Len(queue) + 1] = q
              /\ reqOff' = [reqOff EXCEPT ![v] = from + n]
              /\ pending' = [pending EXCEPT ![v] = TRUE]
<1>1. CASE Len(queue) < QueueCap
  <2>1. gen[r] \in Nat /\ (from + n >= f.len) \in BOOLEAN
    BY DEF TypeInv, TypeOK, RingTypes
  <2>2. PICK q : q = [ring |-> r, file |-> f, off |-> from, n |-> n,
                      last |-> from + n >= f.len, gen |-> gen[r]]
    OBVIOUS
  <2>3. q \in Request
    BY <2>1, <2>2 DEF Request
  <2>4. /\ q.ring = r /\ q.file = f /\ q.off = from /\ q.n = n /\ q.gen = gen[r]
    BY <2>2
  <2>5. /\ queue' = Append(queue, q)
        /\ reqOff' = [reqOff EXCEPT ![v] = from + n]
        /\ pending' = [pending EXCEPT ![v] = TRUE]
    BY <1>1, <2>2 DEF RequestRead, Sent, Unsent
  <2>6. /\ queue' \in Seq(Request) /\ Len(queue') = Len(queue) + 1
        /\ \A i \in 1..Len(queue) : queue'[i] = queue[i]
        /\ queue'[Len(queue) + 1] = q
    BY <2>3, <2>5, AppendProperties DEF TypeInv, TypeOK, QueueTypes
  <2> QED
    BY <2>3, <2>4, <2>5, <2>6
<1>2. CASE ~(Len(queue) < QueueCap)
  BY <1>2 DEF RequestRead, Sent, Unsent
<1> QED
  BY <1>1, <1>2

\* What a worker takes, and what it leaves.
LEMMA TakeFacts ==
  ASSUME TypeInv, NEW w \in Workers, TakeRequest(w)
  PROVE  /\ queue \in Seq(Request) /\ Len(queue) \in Nat \ {0}
         /\ DOMAIN queue = 1..Len(queue)
         /\ queue' \in Seq(Request) /\ Len(queue') = Len(queue) - 1
         /\ DOMAIN queue' = 1..(Len(queue) - 1)
         /\ \A i \in 1..(Len(queue) - 1) : queue'[i] = queue[i + 1]
         /\ req' = [req EXCEPT ![w] = queue[1]]
         /\ off' = [off EXCEPT ![w] = queue[1].off]
         /\ remain' = [remain EXCEPT ![w] = queue[1].n]
<1>1. queue \in Seq(Request) /\ queue # <<>> /\ queue' = Tail(queue)
  BY DEF TypeInv, TypeOK, QueueTypes, TakeRequest
<1>2. Len(queue) \in Nat /\ DOMAIN queue = 1..Len(queue) /\ Len(queue) # 0
  BY <1>1, LenProperties, EmptySeq
<1>3. /\ queue' \in Seq(Request) /\ Len(queue') = Len(queue) - 1
      /\ \A i \in 1..(Len(queue) - 1) : queue'[i] = queue[i + 1]
  BY <1>1, <1>2, HeadTailProperties
<1>4. DOMAIN queue' = 1..(Len(queue) - 1)
  BY <1>3, LenProperties
<1>5. Head(queue) = queue[1]
  BY <1>1, <1>2
<1> QED
  BY <1>1, <1>2, <1>3, <1>4, <1>5 DEF TakeRequest

\* What a starting voice does to its ring and to the queue.
Acquired(v, f, r, n) ==
  /\ mode[v] = "idle" /\ ring[v] = None /\ cur = None
  /\ ~inUse[r] /\ producers[r] = 0
  /\ n = AtMost(Capacity, f.len)
  /\ inUse' = [inUse EXCEPT ![r] = TRUE]
  /\ data' = [data EXCEPT ![r] = <<>>]
  /\ ring' = [ring EXCEPT ![v] = r]
  /\ file' = [file EXCEPT ![v] = f]
  /\ mode' = [mode EXCEPT ![v] = "play"]
  /\ RequestRead(v, r, f, 0, n)
  /\ UNCHANGED <<gen, producers, threshold, run, workerVars, verdict, got, cur,
                 taken>>

LEMMA StartFacts ==
  ASSUME TypeInv, NEW v \in Voices, NEW f \in Files, StartVoice(v, f)
  PROVE  \/ /\ ring[v] = None /\ mode[v] = "idle" /\ cur = None
            /\ mode' = [mode EXCEPT ![v] = "play"]
            /\ file' = [file EXCEPT ![v] = f]
            /\ UNCHANGED <<ringVars, queue, threshold, run, workerVars, ring,
                           reqOff, pending, verdict, got, cur, taken>>
         \/ \E r \in Rings, n \in Nat : Acquired(v, f, r, n)
<1>1. ring[v] = None /\ mode[v] = "idle" /\ cur = None
      /\ mode' = [mode EXCEPT ![v] = "play"] /\ file' = [file EXCEPT ![v] = f]
      /\ UNCHANGED <<threshold, run, workerVars, verdict, got, cur, taken>>
  BY DEF TypeInv, ReaderInv, StartVoice
<1>2. PICK n \in Nat : n = AtMost(Capacity, f.len)
  BY StreamAssumption DEF AtMost
<1>3. CASE UNCHANGED <<ringVars, queue, ring, reqOff, pending>>
  BY <1>1, <1>3
<1>4. ASSUME NEW r \in Rings, FirstFree(r), producers[r] = 0,
             inUse' = [inUse EXCEPT ![r] = TRUE],
             data' = [data EXCEPT ![r] = <<>>], ring' = [ring EXCEPT ![v] = r],
             RequestRead(v, r, f, 0, AtMost(Capacity, f.len)),
             UNCHANGED <<gen, producers>>
      PROVE  Acquired(v, f, r, n)
  <2>1. RequestRead(v, r, f, 0, n)
    BY <1>2, <1>4 DEF RequestRead, Sent, Unsent
  <2> QED
    BY <1>1, <1>2, <1>4, <2>1 DEF Acquired, FirstFree
<1> QED
  BY <1>1, <1>3, <1>4 DEF StartVoice

\* What the end of a block does when the voice plays on.
Closed(v, r, n, f, from) ==
  /\ cur = v /\ r = ring[v] /\ n = taken /\ f = file[v] /\ from = reqOff[v]
  /\ inUse[r] /\ mode[v] # "idle"
  /\ n <= Len(data[r]) /\ n <= got[v]
  /\ data' = [data EXCEPT ![r] = Drop(@, n)]
  /\ Drop(data[r], n) \in Seq(Frame)
  /\ Len(Drop(data[r], n)) = Len(data[r]) - n
  /\ \A i \in 1..(Len(data[r]) - n) : Drop(data[r], n)[i] = data[r][n + i]
  /\ cur' = None /\ taken' = 0
  /\ UNCHANGED <<eof, inUse, gen, producers, threshold, run, workerVars, ring,
                 file, mode, verdict, got>>

\* Whether it sent a request.
Refilled(v, r, n, f, from) ==
  LET avail == Len(data[r]) - n
      still == pending[v] /\ avail < HalfCapacity
  IN \/ /\ queue' = queue /\ reqOff' = reqOff
        /\ pending' = [pending EXCEPT ![v] = still]
     \/ /\ queue' = queue /\ reqOff' = [reqOff EXCEPT ![v] = from]
        /\ pending' = [pending EXCEPT ![v] = FALSE]
        /\ ~still
     \/ \E q \in Request :
          /\ ~still /\ avail < threshold /\ from < f.len
          /\ q.ring = r /\ q.file = f /\ q.off = from
          /\ q.n = AtMost(Capacity - avail, f.len - from)
          /\ q.gen = gen[r]
          /\ queue' \in Seq(Request) /\ Len(queue') = Len(queue) + 1
          /\ \A i \in 1..Len(queue) : queue'[i] = queue[i]
          /\ queue'[Len(queue) + 1] = q
          /\ reqOff' = [reqOff EXCEPT ![v] = from + q.n]
          /\ pending' = [pending EXCEPT ![v] = TRUE]

LEMMA CloseFacts ==
  ASSUME OwnerInv, NEW v \in Voices, CloseBlock(v)
  PROVE  \E r \in Rings, n \in Nat, f \in Files, from \in Nat :
           Closed(v, r, n, f, from) /\ Refilled(v, r, n, f, from)
<1> USE DEF OwnerInv, TypeInv, TypeOK
<1>1. /\ cur = v /\ Commit(v) /\ cur' = None /\ taken' = 0
      /\ UNCHANGED <<eof, inUse, gen, producers, threshold, run, workerVars,
                     ring, file, mode, verdict, got>>
  BY DEF CloseBlock
<1>2. PICK r \in Rings, n \in Nat :
        /\ r = ring[v] /\ n = taken /\ n <= Len(data[r])
        /\ data' = [data EXCEPT ![r] = Drop(@, n)]
        /\ Drop(data[r], n) \in Seq(Frame)
        /\ Len(Drop(data[r], n)) = Len(data[r]) - n
        /\ \A i \in 1..(Len(data[r]) - n) : Drop(data[r], n)[i] = data[r][n + i]
  BY <1>1, CommitFacts
<1>3. ring[v] # None /\ mode[v] # "idle" /\ n <= got[v] /\ inUse[r]
  BY <1>1, <1>2, StreamAssumption DEF ReaderInv, RingOwnership
<1>4. PICK f \in Files, from \in Nat : f = file[v] /\ from = reqOff[v]
  BY <1>3 DEF ReaderInv, VoiceTypes
<1>5. Closed(v, r, n, f, from)
  BY <1>1, <1>2, <1>3, <1>4 DEF Closed
<1>6. Len(data[r]) \in Nat /\ Len(data[r]) <= Capacity /\ f.len \in Nat
  BY <1>2, LenProperties, StreamAssumption DEF RingTypes
<1>7. PICK avail \in Nat : avail = Len(data[r]) - n /\ avail <= Capacity
  <2>1. PICK m \in Nat : m = Len(data[r])
    BY <1>6
  <2>2. m - n \in Nat /\ m - n <= Capacity
    BY <1>2, <1>6, <2>1, StreamAssumption
  <2> QED
    BY <2>1, <2>2
<1>8. Refill(v, avail)
  BY <1>2, <1>7 DEF CloseBlock, Refill, Wanted, StillPending, RequestRead, Sent, Unsent
<1>9. CASE ~(pending[v] /\ avail < HalfCapacity) /\ avail < threshold /\ f.len - from > 0
  <2>1. PICK k \in Nat : k = AtMost(Capacity - avail, f.len - from)
    <3>1. Capacity - avail \in Nat /\ f.len - from \in Nat
      BY <1>6, <1>7, <1>9, StreamAssumption
    <3> QED
      BY <3>1 DEF AtMost
  <2>2. RequestRead(v, r, f, from, k)
    BY <1>2, <1>4, <1>8, <1>9, <2>1 DEF Refill, Wanted, StillPending, RequestRead, Sent, Unsent
  <2>3. \/ /\ queue' = queue
           /\ reqOff' = [reqOff EXCEPT ![v] = from]
           /\ pending' = [pending EXCEPT ![v] = FALSE]
        \/ \E q \in Request :
             /\ q.ring = r /\ q.file = f /\ q.off = from /\ q.n = k
             /\ q.gen = gen[r]
             /\ queue' \in Seq(Request) /\ Len(queue') = Len(queue) + 1
             /\ \A i \in 1..Len(queue) : queue'[i] = queue[i]
             /\ queue'[Len(queue) + 1] = q
             /\ reqOff' = [reqOff EXCEPT ![v] = from + k]
             /\ pending' = [pending EXCEPT ![v] = TRUE]
    BY <2>2, RequestFacts
  <2>4. from < f.len
    BY <1>6, <1>9
  <2> QED
    BY <1>5, <1>7, <1>9, <2>1, <2>3, <2>4 DEF Refilled
<1>10. CASE ~(~(pending[v] /\ avail < HalfCapacity) /\ avail < threshold /\ f.len - from > 0)
  <2>1. pending' = [pending EXCEPT ![v] = pending[v] /\ avail < HalfCapacity]
        /\ UNCHANGED <<queue, reqOff>>
    BY <1>4, <1>8, <1>10 DEF Refill, StillPending
  <2> QED
    BY <1>5, <1>7, <2>1 DEF Refilled
<1> QED
  BY <1>9, <1>10

-----------------------------------------------------------------------------
(* Generations and the producer lock. *)

\* A worker never touches a generation or the ownership of a ring.
LEMMA WorkerKeepsGen ==
  ASSUME NEW w \in Workers, WorkerStep(w)
  PROVE  UNCHANGED <<gen, inUse, readerVars, voiceVars>>
BY DEF WorkerStep, TakeRequest, LeaveLoop, SizeChunk, ReadFile, LockRing,
   AbandonLock, WriteFresh, DropStale, Publish, Finish, StoreEof, ExitWorker,
   ringVars

LEMMA GenWorker ==
  ASSUME StampInv, NEW w \in Workers, WorkerStep(w)
  PROVE  GenInv'
<1> USE DEF StampInv, GenInv, Stamped, Current
<1>1. UNCHANGED <<gen, inUse>>
  BY WorkerKeepsGen
<1>2. CASE TakeRequest(w)
  <2>1. /\ Len(queue) \in Nat \ {0} /\ DOMAIN queue = 1..Len(queue)
        /\ DOMAIN queue' = 1..(Len(queue) - 1)
        /\ \A i \in 1..(Len(queue) - 1) : queue'[i] = queue[i + 1]
    BY <1>2, TakeFacts DEF OwnerInv
  <2>2. ASSUME NEW i \in DOMAIN queue' PROVE Stamped(queue[i])'
    <3>1. i + 1 \in DOMAIN queue /\ queue'[i] = queue[i + 1]
      BY <2>1
    <3> QED
      BY <1>1, <3>1
  <2>3. req' = [req EXCEPT ![w] = queue[1]] /\ 1 \in DOMAIN queue
    BY <1>2, TakeFacts DEF OwnerInv
  <2>4. \A u \in Workers : u # w => pc'[u] = pc[u]
    BY <1>2 DEF TakeRequest, Goto, OwnerInv, TypeInv, TypeOK, WorkerTypes
  <2>5. \A u \in Workers : Busy(u)' => Stamped(req[u])'
    BY <1>1, <2>3, <2>4 DEF Busy, OwnerInv, TypeInv, TypeOK, WorkerTypes
  <2> QED
    BY <2>2, <2>5
<1>3. ASSUME ~TakeRequest(w)
      PROVE  /\ queue' = queue
             /\ \A u \in Workers : pc'[u] \notin {"idle", "exited"} =>
                  pc[u] \notin {"idle", "exited"} /\ req'[u] = req[u]
  <2>1. CASE NextRound(w) /\ (Finish(w) \/ StoreEof(w))
    BY <2>1 DEF NextRound, Goto, Finish, StoreEof, OwnerInv, TypeInv, TypeOK, WorkerTypes
  <2>2. CASE ~(NextRound(w) /\ (Finish(w) \/ StoreEof(w)))
    BY <1>3, <2>2 DEF WorkerStep, LeaveLoop, SizeChunk, ReadFile, LockRing,
       AbandonLock, WriteFresh, DropStale, Publish, Finish, StoreEof, ExitWorker, Goto,
       OwnerInv, TypeInv, TypeOK, WorkerTypes
  <2> QED
    BY <2>1, <2>2
<1>4. CASE ~TakeRequest(w)
  <2>1. \A i \in DOMAIN queue' : Stamped(queue[i])'
    BY <1>1, <1>3, <1>4
  <2>2. \A u \in Workers : Busy(u)' => Stamped(req[u])'
    BY <1>1, <1>3, <1>4 DEF Busy
  <2> QED
    BY <2>1, <2>2
<1> QED
  BY <1>2, <1>4

\* A release makes every request of its ownership stale.
LEMMA GenRelease ==
  ASSUME StampInv, NEW v \in Voices, ReleaseRing(v), UNCHANGED <<queue, workerVars>>
  PROVE  GenInv'
<1> USE DEF StampInv, OwnerInv, TypeInv, TypeOK, GenInv
<1>1. ASSUME NEW q \in Request, Stamped(q) PROVE Stamped(q)'
  <2>1. q.ring \in Rings /\ q.gen \in Nat
    BY DEF Request
  <2>2. /\ gen'[q.ring] = IF q.ring = ring[v] THEN gen[q.ring] + 1 ELSE gen[q.ring]
        /\ inUse'[q.ring] <=> (inUse[q.ring] /\ q.ring # ring[v])
    BY <2>1 DEF ReleaseRing
  <2>3. gen[q.ring] \in Nat
    BY <2>1 DEF RingTypes
  <2> QED
    BY <1>1, <2>1, <2>2, <2>3 DEF Stamped, Current
<1>2. \A i \in DOMAIN queue : queue[i] \in Request
  BY ElementOfSeq, LenProperties DEF QueueTypes
<1>3. \A w \in Workers : Busy(w) => req[w] \in Request
  BY DEF Busy, WorkerTypes
<1>4. ASSUME NEW i \in DOMAIN queue PROVE Stamped(queue[i])'
  <2>1. PICK q \in Request : q = queue[i]
    BY <1>2
  <2> QED
    BY <1>1, <2>1 DEF Stamped, Current
<1>5. ASSUME NEW w \in Workers, Busy(w)' PROVE Stamped(req[w])'
  <2>1. Busy(w) /\ req' = req
    BY <1>5 DEF Busy, workerVars
  <2>2. PICK q \in Request : q = req[w]
    BY <1>3, <2>1
  <2> QED
    BY <1>1, <2>1, <2>2 DEF Stamped, Current
<1> QED
  BY <1>4, <1>5

\* A new request carries the current generation of a ring in use.
LEMMA GenRequest ==
  ASSUME StampInv, NEW r \in Rings, inUse'[r], UNCHANGED <<gen, workerVars>>,
         \A q \in Rings : inUse[q] => inUse'[q],
         \/ queue' = queue
         \/ \E q \in Request :
              /\ q.ring = r /\ q.gen = gen[r]
              /\ queue' \in Seq(Request) /\ Len(queue') = Len(queue) + 1
              /\ \A i \in 1..Len(queue) : queue'[i] = queue[i]
              /\ queue'[Len(queue) + 1] = q
  PROVE  GenInv'
<1> USE DEF StampInv, OwnerInv, TypeInv, TypeOK, GenInv, Stamped, Current
<1>1. /\ Len(queue) \in Nat /\ DOMAIN queue = 1..Len(queue)
      /\ \A i \in DOMAIN queue : queue[i] \in Request
  BY ElementOfSeq, LenProperties DEF QueueTypes
<1>2. \A w \in Workers : Busy(w) => req[w] \in Request
  BY DEF Busy, WorkerTypes
<1>3. \A q \in Request : q.ring \in Rings /\ q.gen \in Nat
  BY DEF Request
<1>4. ASSUME NEW w \in Workers, Busy(w)' PROVE Stamped(req[w])'
  BY <1>2, <1>3, <1>4 DEF Busy, workerVars
<1>5. CASE queue' = queue
  BY <1>1, <1>3, <1>4, <1>5
<1>6. ASSUME NEW q \in Request, q.ring = r, q.gen = gen[r],
             queue' \in Seq(Request), Len(queue') = Len(queue) + 1,
             \A i \in 1..Len(queue) : queue'[i] = queue[i],
             queue'[Len(queue) + 1] = q
      PROVE  GenInv'
  <2>1. DOMAIN queue' = 1..(Len(queue) + 1)
    BY <1>6, LenProperties
  <2>2. ASSUME NEW i \in DOMAIN queue' PROVE Stamped(queue[i])'
    <3>1. CASE i \in DOMAIN queue
      BY <1>1, <1>3, <1>6, <3>1
    <3>2. CASE i = Len(queue) + 1
      BY <1>3, <1>6, <3>2 DEF RingTypes
    <3> QED
      BY <1>1, <2>1, <3>1, <3>2
  <2> QED
    BY <1>4, <2>2
<1> QED
  BY <1>5, <1>6

LEMMA LockWorker ==
  ASSUME BasicInv, NEW w \in Workers, WorkerStep(w)
  PROVE  LockInv'
<1> USE DEF BasicInv, StampInv, OwnerInv, TypeInv, TypeOK, LockInv, Writing, Current
<1>1. UNCHANGED <<gen, inUse>>
  BY WorkerKeepsGen
<1>2. \A u \in Workers : Writing(u) => req[u].ring \in Rings
  BY DEF WorkerTypes, Request
<1>3. CASE LockRing(w)
  <2>1. req[w] \in Request
    BY <1>3 DEF LockRing, WorkerTypes
  <2>2. req[w].ring \in Rings
    BY <2>1 DEF Request
  <2> QED
    BY <1>1, <1>2, <1>3, <2>2 DEF LockRing, Goto, WorkerTypes, RingTypes
<1>4. CASE WriteFresh(w)
  BY <1>1, <1>4 DEF WriteFresh, Goto, WorkerTypes, ringVars
<1>5. CASE DropStale(w) \/ Publish(w)
  <2>1. /\ pc[w] \in {"write", "copy"} /\ req' = req
        /\ producers' = [producers EXCEPT ![req[w].ring] = 0]
        /\ Goto(w, "finish") \/ Goto(w, "loop")
    BY <1>5 DEF DropStale, Publish
  <2> QED
    BY <1>1, <1>2, <2>1 DEF Goto, WorkerTypes, RingTypes
<1>6. CASE ~(LockRing(w) \/ WriteFresh(w) \/ DropStale(w) \/ Publish(w))
  <2>1. producers' = producers
    BY <1>6 DEF WorkerStep, TakeRequest, LeaveLoop, SizeChunk, ReadFile,
       AbandonLock, Finish, StoreEof, ExitWorker, ringVars
  <2>2. \A u \in Workers : Writing(u)' =>
          Writing(u) /\ req'[u] = req[u] /\ pc'[u] = pc[u]
    BY <1>6 DEF WorkerStep, TakeRequest, LeaveLoop, SizeChunk, ReadFile,
       AbandonLock, Finish, StoreEof, ExitWorker, NextRound, Goto, WorkerTypes
  <2> QED
    BY <1>1, <2>1, <2>2
<1> QED
  BY <1>3, <1>4, <1>5, <1>6

\* A release may surprise the worker that writes: its ring is then free.
LEMMA LockRelease ==
  ASSUME BasicInv, NEW v \in Voices, ReleaseRing(v),
         UNCHANGED <<producers, workerVars>>
  PROVE  LockInv'
<1> USE DEF BasicInv, StampInv, OwnerInv, TypeInv, TypeOK, LockInv, Writing, Current
<1>1. UNCHANGED <<pc, req, producers>>
  BY DEF workerVars
<1>2. \A u \in Workers : Writing(u) => req[u].ring \in Rings
  BY DEF WorkerTypes, Request
<1>3. \A r \in Rings :
        /\ gen'[r] = IF r = ring[v] THEN gen[r] + 1 ELSE gen[r]
        /\ inUse'[r] <=> (inUse[r] /\ r # ring[v])
  BY DEF ReleaseRing
<1> QED
  BY <1>1, <1>2, <1>3

\* A ring is acquired only while nobody writes into it.
LEMMA LockStart ==
  ASSUME BasicInv, NEW v \in Voices, NEW f \in Files, NEW r \in Rings,
         NEW n \in Nat, Acquired(v, f, r, n)
  PROVE  LockInv'
<1> USE DEF BasicInv, StampInv, OwnerInv, TypeInv, TypeOK, LockInv, Writing, Current
<1>1. UNCHANGED <<pc, req, producers, gen>> /\ inUse' = [inUse EXCEPT ![r] = TRUE]
      /\ producers[r] = 0
  BY DEF Acquired, workerVars
<1>2. \A u \in Workers : Writing(u) => req[u].ring \in Rings
  BY DEF WorkerTypes, Request
<1> QED
  BY <1>1, <1>2 DEF RingTypes

LEMMA BasicNext == BasicInv /\ [Next]_vars => BasicInv'
<1> SUFFICES ASSUME BasicInv, [Next]_vars PROVE GenInv' /\ LockInv'
  BY OwnerNext DEF BasicInv, StampInv
<1> USE DEF BasicInv, StampInv
<1>1. ASSUME NEW w \in Workers, WorkerStep(w) PROVE GenInv' /\ LockInv'
  BY <1>1, GenWorker, LockWorker
<1>2. ASSUME NEW v \in Voices, AudioStep(v) PROVE GenInv' /\ LockInv'
  <2>1. ASSUME NEW f \in Files, StartVoice(v, f) PROVE GenInv' /\ LockInv'
    <3>1. CASE UNCHANGED <<ringVars, queue, workerVars>>
      BY <3>1 DEF GenInv, Stamped, Current, Busy, LockInv, Writing, ringVars, workerVars
    <3>2. ASSUME NEW r \in Rings, NEW n \in Nat, Acquired(v, f, r, n)
          PROVE  GenInv' /\ LockInv'
      <4>1. /\ inUse' = [inUse EXCEPT ![r] = TRUE]
            /\ RequestRead(v, r, f, 0, n)
            /\ UNCHANGED <<gen, workerVars>>
        BY <3>2 DEF Acquired
      <4>2. inUse'[r] /\ \A q \in Rings : inUse[q] => inUse'[q]
        BY <4>1 DEF OwnerInv, TypeInv, TypeOK, RingTypes
      <4>3. \/ queue' = queue
            \/ \E q \in Request :
                 /\ q.ring = r /\ q.gen = gen[r]
                 /\ queue' \in Seq(Request) /\ Len(queue') = Len(queue) + 1
                 /\ \A i \in 1..Len(queue) : queue'[i] = queue[i]
                 /\ queue'[Len(queue) + 1] = q
        <5>1. \/ /\ queue' = queue
                 /\ reqOff' = [reqOff EXCEPT ![v] = 0]
                 /\ pending' = [pending EXCEPT ![v] = FALSE]
              \/ \E q \in Request :
                   /\ q.ring = r /\ q.file = f /\ q.off = 0 /\ q.n = n
                   /\ q.gen = gen[r]
                   /\ queue' \in Seq(Request) /\ Len(queue') = Len(queue) + 1
                   /\ \A i \in 1..Len(queue) : queue'[i] = queue[i]
                   /\ queue'[Len(queue) + 1] = q
                   /\ reqOff' = [reqOff EXCEPT ![v] = 0 + n]
                   /\ pending' = [pending EXCEPT ![v] = TRUE]
          BY <4>1, RequestFacts, Zenon DEF OwnerInv
        <5> QED
          BY <5>1
      <4> QED
        BY <3>2, <4>1, <4>2, <4>3, GenRequest, LockStart
    <3> QED
      BY <2>1, <3>1, <3>2, StartFacts DEF OwnerInv
  <2>2. CASE EndVoice(v) \/ CloseAndEnd(v)
    BY <2>2, GenRelease, LockRelease DEF EndVoice, CloseAndEnd
  <2>3. CASE OpenBlock(v) \/ PopFrame(v) \/ RingEmpty(v)
    BY <2>3 DEF OpenBlock, PopFrame, RingEmpty, GenInv, Stamped, Current, Busy,
       LockInv, Writing, ringVars, workerVars
  <2>4. CASE CloseBlock(v)
    <3>1. PICK r \in Rings, n \in Nat, f \in Files, from \in Nat :
            Closed(v, r, n, f, from) /\ Refilled(v, r, n, f, from)
      BY <2>4, CloseFacts
    <3>2. inUse'[r] /\ UNCHANGED <<gen, inUse, producers, workerVars>>
      BY <3>1 DEF Closed
    <3>3. \/ queue' = queue
          \/ \E q \in Request :
               /\ q.ring = r /\ q.gen = gen[r]
               /\ queue' \in Seq(Request) /\ Len(queue') = Len(queue) + 1
               /\ \A i \in 1..Len(queue) : queue'[i] = queue[i]
               /\ queue'[Len(queue) + 1] = q
      BY <3>1 DEF Refilled
    <3>4. GenInv'
      BY <3>2, <3>3, GenRequest
    <3>5. LockInv'
      BY <3>2 DEF LockInv, Writing, Current, workerVars
    <3> QED
      BY <3>4, <3>5
  <2> QED
    BY <1>2, <2>1, <2>2, <2>3, <2>4 DEF AudioStep
<1>3. CASE Stop \/ (\E t \in Thresholds : SetThreshold(t)) \/ UNCHANGED vars
  BY <1>3 DEF GenInv, Stamped, Current, Busy, LockInv, Writing, Stop, SetThreshold,
     ringVars, workerVars, vars
<1> QED
  BY <1>1, <1>2, <1>3 DEF Next
=============================================================================
