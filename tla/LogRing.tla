-------------------------------- MODULE LogRing -------------------------------
(***************************************************************************)
(* The log (log.cpp, log_subscriber.cpp): the audio thread puts entries    *)
(* into a ring without a lock; a thread flushes them in batches to the     *)
(* file and, after giving the lock back, to the subscribers; other threads *)
(* write directly.  The subscriber of the GUI keeps the last entries in a  *)
(* circular buffer of its own.                                             *)
(*                                                                         *)
(* An entry of the audio thread is its number, one of another thread is 0. *)
(* PublishFirst is a faulty variant of the definition that follows it.     *)
(***************************************************************************)
EXTENDS Integers, Sequences, FiniteSets

CONSTANTS
  RT_BUFFER_SIZE, Batch, \* 1024 and 64 in the code
  kCapacity,             \* of the GUI's buffer (256)
  MaxCalls, MaxTalk      \* bounds: calls of logRT and of log

Torn == -1    \* an entry that is being written

VARIABLES
  cells, wIdx, rIdx, dropped, \* rt_buffer_, rt_write_idx_, rt_read_idx_
  calls, rt,          \* calls of logRT so far; where the audio thread is
  mutex,              \* log_mutex_: "free", "flush", "talk"
  flush, pos, limit, pending, \* flushRTBuffer and its locals
  talk, talked,       \* another thread in vlog; its calls
  file,               \* lines written
  told,               \* ghost: all that subscribers were told
  buf, head, size     \* LogRingBuffer

ringVars == <<cells, wIdx, rIdx, dropped>>
flushVars == <<flush, pos, limit, pending>>
viewVars == <<told, buf, head, size>>
vars == <<ringVars, calls, rt, mutex, flushVars, talk, talked, file, viewVars>>

Cell(i) == i % RT_BUFFER_SIZE

Init ==
  /\ cells = [c \in 0..RT_BUFFER_SIZE - 1 |-> Torn]
  /\ wIdx = 0 /\ rIdx = 0 /\ dropped = 0
  /\ calls = 0 /\ rt = "out" /\ mutex = "free"
  /\ flush = "out" /\ pos = 0 /\ limit = 0 /\ pending = <<>>
  /\ talk = "out" /\ talked = 0 /\ file = <<>>
  /\ told = <<>> /\ buf = [i \in 0..kCapacity - 1 |-> Torn]
  /\ head = 0 /\ size = 0
-----------------------------------------------------------------------------
(* vlogRT on the audio thread. *)

LogRT ==
  /\ rt = "out" /\ calls < MaxCalls
  /\ calls' = calls + 1
  /\ IF wIdx - rIdx >= RT_BUFFER_SIZE
     THEN dropped' = dropped + 1 /\ UNCHANGED <<cells, rt>>
     ELSE /\ rt' = "write" /\ cells' = [cells EXCEPT ![Cell(wIdx)] = Torn]
          /\ UNCHANGED dropped
  /\ UNCHANGED <<wIdx, rIdx, mutex, flushVars, talk, talked, file, viewVars>>

FillEntry ==
  /\ rt = "write"
  /\ cells' = [cells EXCEPT ![Cell(wIdx)] = calls] /\ rt' = "publish"
  /\ UNCHANGED <<wIdx, rIdx, dropped, calls, mutex, flushVars, talk, talked,
                 file, viewVars>>

PublishFirst ==
  /\ rt \in {"write", "publish"}
  /\ wIdx' = wIdx + 1 /\ rt' = "out"
  /\ UNCHANGED <<cells, rIdx, dropped, calls, mutex, flushVars, talk, talked,
                 file, viewVars>>

PublishEntry ==
  /\ rt = "publish"
  /\ wIdx' = wIdx + 1 /\ rt' = "out"
  /\ UNCHANGED <<cells, rIdx, dropped, calls, mutex, flushVars, talk, talked,
                 file, viewVars>>
-----------------------------------------------------------------------------
(* flushRTBuffer, a hundred times a second. *)

LockLog ==
  /\ flush = "out" /\ mutex = "free"
  /\ mutex' = "flush" /\ flush' = "copy"
  /\ pos' = rIdx /\ limit' = wIdx /\ pending' = <<>>
  /\ UNCHANGED <<ringVars, calls, rt, talk, talked, file, viewVars>>

CopyEntry ==
  /\ flush = "copy" /\ pos < limit /\ Len(pending) < Batch
  /\ file' = Append(file, cells[Cell(pos)])
  /\ pending' = Append(pending, cells[Cell(pos)])
  /\ pos' = pos + 1
  /\ UNCHANGED <<ringVars, calls, rt, mutex, flush, limit, talk, talked,
                 viewVars>>

\* The cells are given back once the whole batch has been copied.
ReleaseCells ==
  /\ flush = "copy" /\ (pos = limit \/ Len(pending) = Batch)
  /\ rIdx' = pos /\ mutex' = "free"
  /\ flush' = IF pending = <<>> THEN "out" ELSE "notify"
  /\ UNCHANGED <<cells, wIdx, dropped, calls, rt, pos, limit, pending, talk,
                 talked, file, viewVars>>

\* LogRingBuffer::push: the oldest gives way.
Push(line) ==
  /\ told' = Append(told, line)
  /\ buf' = [buf EXCEPT ![head] = line]
  /\ head' = (head + 1) % kCapacity
  /\ size' = IF size < kCapacity THEN size + 1 ELSE size

\* The subscribers are told outside the lock, under one of their own.
LockSubscribers ==
  /\ flush = "notify"
  /\ flush' = "tell"
  /\ UNCHANGED <<ringVars, calls, rt, mutex, pos, limit, pending, talk, talked,
                 file, viewVars>>

TellEntry ==
  /\ flush = "tell" /\ pending # <<>>
  /\ Push(pending[1])
  /\ pending' = Tail(pending)
  /\ flush' = IF Len(pending) = 1 THEN "out" ELSE "tell"
  /\ UNCHANGED <<ringVars, calls, rt, mutex, pos, limit, talk, talked, file>>

\* vlog of any other thread.
Log ==
  /\ talk = "out" /\ talked < MaxTalk /\ mutex = "free"
  /\ file' = Append(file, 0)
  /\ talk' = "notify" /\ talked' = talked + 1
  /\ UNCHANGED <<ringVars, calls, rt, mutex, flushVars, viewVars>>

NotifyLine ==
  /\ talk = "notify" /\ flush # "tell"
  /\ Push(0)
  /\ talk' = "out"
  /\ UNCHANGED <<ringVars, calls, rt, mutex, flushVars, talked, file>>

Rt == LogRT \/ FillEntry \/ PublishEntry
Flusher == LockLog \/ CopyEntry \/ ReleaseCells
           \/ LockSubscribers \/ TellEntry
Next == Rt \/ Flusher \/ Log \/ NotifyLine

Spec == Init /\ [][Next]_vars
-----------------------------------------------------------------------------
\* LogRingBuffer::snapshot: up to n entries, oldest first.
Snapshot(n) ==
  LET len == IF n < size THEN n ELSE size
      start == (head - size + kCapacity) % kCapacity
      from == IF size > n THEN (start + size - n) % kCapacity ELSE start
  IN  [i \in 1..len |-> buf[(from + i - 1) % kCapacity]]

\* The lines of the audio thread: their places in the file, and the ring's
\* places of those not yet copied.
Mine == {i \in DOMAIN file : file[i] # 0}
Copied == IF flush = "copy" THEN pos ELSE rIdx
Waiting == Copied .. wIdx - 1
Entry(k) == cells[Cell(k)]

\* Every call of the audio thread is accounted for: written to the file, in
\* the ring, being written, or dropped and counted; whole, once, in order.
LinesAccounted ==
  /\ \A i \in Mine : file[i] \in 1..calls
  /\ \A k \in Waiting : Entry(k) \in 1..calls
  /\ \A i, j \in Mine : i < j => file[i] < file[j]
  /\ \A i \in Mine, k \in Waiting : file[i] < Entry(k)
  /\ \A k, l \in Waiting : k < l => Entry(k) < Entry(l)
  /\ Cardinality(Mine) + (wIdx - Copied) + dropped + (IF rt = "out" THEN 0 ELSE 1)
       = calls

\* The log page shows the latest lines the subscribers were told, in order.
ShowsLatest ==
  \A n \in 0..kCapacity + 1 :
    Snapshot(n) = SubSeq(told, Len(told) - Len(Snapshot(n)) + 1, Len(told))
      /\ Len(Snapshot(n)) \in {n, Len(told), kCapacity}
=============================================================================
