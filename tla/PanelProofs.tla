------------------------------ MODULE PanelProofs ------------------------------
(***************************************************************************)
(* Proofs about what the user sees and keeps: the lines of the log and its *)
(* page, the settings on disk, the panel through the load of a bank, and   *)
(* its pace.  For any sizes of ring and buffer, delays, lists of banks,    *)
(* budgets and frame times.                                                *)
(***************************************************************************)
EXTENDS PartsProofs

-----------------------------------------------------------------------------
(* Remainders.                                                             *)

LEMMA ModRange ==
  ASSUME NEW n \in Nat \ {0}, NEW k \in Nat
  PROVE  k % n \in 0..(n - 1)
  OBVIOUS

LEMMA DivMod ==
  ASSUME NEW n \in Nat \ {0}, NEW k \in Nat
  PROVE  k = n * (k \div n) + (k % n) /\ k \div n \in Int
  OBVIOUS

LEMMA SmallMultiple ==
  ASSUME NEW n \in Nat \ {0}, NEW d \in Int, n * d < n, 0 - n < n * d
  PROVE  d = 0
  OBVIOUS

LEMMA Distribute ==
  ASSUME NEW n \in Int, NEW x \in Int, NEW y \in Int
  PROVE  n * (x - y) = n * x - n * y /\ n * (x + y) = n * x + n * y /\ n * 0 = 0
  OBVIOUS

\* The remainder is the only one that fits.
LEMMA OneRemainder ==
  ASSUME NEW n \in Nat \ {0}, NEW k \in Nat, NEW q \in Int, NEW r \in 0..(n - 1),
         k = n * q + r
  PROVE  k % n = r
<1>1. PICK x \in Int, c \in 0..(n - 1) : k = n * x + c /\ c = k % n
  BY DivMod, ModRange
<1>2. n * (x - q) = n * x - n * q /\ n * x \in Int /\ n * q \in Int
  BY Distribute
<1>3. k = n * x + c
  BY <1>1
<1>4. n * (x - q) = r - c
  BY <1>2, <1>3
<1>5. x - q = 0
  BY <1>4, SmallMultiple
<1>6. n * (x - q) = 0
  BY <1>5
<1>7. r = c
  BY <1>4, <1>6
<1> QED
  BY <1>1, <1>7

\* Numbers less than n apart that leave the same remainder are the same.
LEMMA SameRemainder ==
  ASSUME NEW n \in Nat \ {0}, NEW a \in Nat, NEW b \in Nat,
         a % n = b % n, a < b + n, b < a + n
  PROVE  a = b
<1>1. PICK x \in Int, c \in 0..(n - 1) : a = n * x + c /\ c = a % n
  BY DivMod, ModRange
<1>2. PICK y \in Int : b = n * y + c
  BY <1>1, DivMod
<1>3. n * (x - y) = a - b
  BY <1>1, <1>2
<1>4. x - y = 0
  BY <1>3, SmallMultiple
<1>5. a - b = n * 0
  BY <1>3, <1>4
<1> QED
  BY <1>5

\* A remainder may be taken on the way.
LEMMA SumRemainder ==
  ASSUME NEW n \in Nat \ {0}, NEW a \in Nat, NEW b \in Nat
  PROVE  ((a % n) + b) % n = (a + b) % n
<1>1. PICK x \in Int, c \in 0..(n - 1) : a = n * x + c /\ c = a % n
  BY DivMod, ModRange
<1>2. c + b \in Nat /\ a + b \in Nat
  BY <1>1
<1>3. PICK y \in Int, d \in 0..(n - 1) : c + b = n * y + d /\ d = (c + b) % n
  BY <1>2, DivMod, ModRange
<1>4. a + b = n * (x + y) + d
  <2>1. n * (x + y) = n * x + n * y /\ n * x \in Int /\ n * y \in Int
    BY Distribute
  <2>2. a = n * x + c
    BY <1>1
  <2>3. c + b = n * y + d
    BY <1>3
  <2> QED
    BY <2>1, <2>2, <2>3
<1>5. PICK q \in Int : a + b = n * q + d
  BY <1>4
<1>6. (a + b) % n = d
  BY <1>2, <1>5, OneRemainder
<1> QED
  BY <1>1, <1>3, <1>6

LEMMA LapRemainder ==
  ASSUME NEW n \in Nat \ {0}, NEW a \in Nat
  PROVE  (a + n) % n = a % n
<1>1. PICK x \in Int, c \in 0..(n - 1) : a = n * x + c /\ c = a % n
  BY DivMod, ModRange
<1>2. a + n = n * (x + 1) + c
  <2>1. n * (x + 1) = n * x + n * 1 /\ n * 1 = n /\ n * x \in Int
    BY Distribute
  <2>2. a = n * x + c
    BY <1>1
  <2> QED
    BY <2>1, <2>2
<1>3. (a + n) \in Nat /\ \E q \in Int : a + n = n * q + c
  BY <1>2
<1>4. (a + n) % n = c
  BY <1>3, OneRemainder
<1> QED
  BY <1>1, <1>4

LEMMA FirstRemainder ==
  ASSUME NEW n \in Nat \ {0}
  PROVE  0 % n = 0
<1>1. 0 = n * 0 + 0
  OBVIOUS
<1> QED
  BY <1>1, OneRemainder

-----------------------------------------------------------------------------
(* LogRing: calls become lines.                                            *)

\* One of the calls may not have ended.
Begun == IF rt = "out" THEN 0 ELSE 1

\* What is copied is published, and the ring is never longer than its cells.
RingInv ==
  /\ wIdx \in Nat /\ rIdx \in Nat /\ dropped \in Nat /\ calls \in Nat
  /\ rt \in {"out", "write", "publish"}
  /\ cells \in [0..(RT_BUFFER_SIZE - 1) -> Int] /\ file \in Seq(Int)
  /\ Lines!Copied \in rIdx..wIdx /\ wIdx <= rIdx + RT_BUFFER_SIZE
  /\ flush = "copy" => limit \in lpos..wIdx
  /\ rt # "out" => wIdx < rIdx + RT_BUFFER_SIZE /\ calls > 0
  /\ rt = "publish" => Lines!Entry(wIdx) = calls

\* Lines in the file and behind them in the ring are of calls that have ended,
\* in their order.
OrderInv ==
  /\ \A i \in Lines!Mine : file[i] \in 1..(calls - Begun)
  /\ \A k \in Lines!Waiting : Lines!Entry(k) \in 1..(calls - Begun)
  /\ \A i, j \in Lines!Mine : i < j => file[i] < file[j]
  /\ \A i \in Lines!Mine, k \in Lines!Waiting : file[i] < Lines!Entry(k)
  /\ \A k, l \in Lines!Waiting : k < l => Lines!Entry(k) < Lines!Entry(l)

NumberInv ==
  /\ IsFiniteSet(Lines!Mine)
  /\ Cardinality(Lines!Mine) + (wIdx - Lines!Copied) + dropped + Begun = calls

LogInv == RingInv /\ OrderInv /\ NumberInv

\* The cell that is written is none of those that wait.
LEMMA WrittenApart ==
  ASSUME RingInv, wIdx < rIdx + RT_BUFFER_SIZE, NEW k \in Lines!Waiting
  PROVE  /\ Lines!Cell(k) # Lines!Cell(wIdx)
         /\ {Lines!Cell(k), Lines!Cell(wIdx)} \subseteq 0..(RT_BUFFER_SIZE - 1)
<1>1. k \in Nat /\ wIdx \in Nat /\ k < wIdx /\ wIdx < k + RT_BUFFER_SIZE
  BY LogAssumption DEF RingInv, Lines!Waiting
<1>2. k < wIdx + RT_BUFFER_SIZE
  BY <1>1, LogAssumption
<1>3. Lines!Cell(k) # Lines!Cell(wIdx)
  BY <1>1, <1>2, LogAssumption, SameRemainder DEF Lines!Cell
<1> QED
  BY <1>1, <1>3, LogAssumption, ModRange DEF Lines!Cell

\* A line of another thread is none of the audio thread's, a copied one is.
LEMMA MineGrows ==
  ASSUME file \in Seq(Int), NEW line \in Int, file' = Append(file, line),
         IsFiniteSet(Lines!Mine)
  PROVE  /\ Lines!Mine' = IF line = 0 THEN Lines!Mine
                          ELSE Lines!Mine \cup {Len(file) + 1}
         /\ file' \in Seq(Int) /\ file'[Len(file) + 1] = line
         /\ \A i \in Lines!Mine : i < Len(file) + 1 /\ file'[i] = file[i]
         /\ IsFiniteSet(Lines!Mine')
         /\ Cardinality(Lines!Mine') =
              Cardinality(Lines!Mine) + IF line = 0 THEN 0 ELSE 1
<1>1. /\ file' \in Seq(Int) /\ Len(file') = Len(file) + 1 /\ Len(file) \in Nat
      /\ file'[Len(file) + 1] = line
      /\ \A i \in 1..Len(file) : file'[i] = file[i]
  OBVIOUS
<1>2. Lines!Mine = {i \in 1..Len(file) : file[i] # 0}
  BY DEF Lines!Mine
<1>3. Lines!Mine' = {i \in 1..(Len(file) + 1) : file'[i] # 0}
  BY <1>1 DEF Lines!Mine
<1>4. Lines!Mine' = IF line = 0 THEN Lines!Mine ELSE Lines!Mine \cup {Len(file) + 1}
  BY <1>1, <1>2, <1>3
<1>5. Len(file) + 1 \notin Lines!Mine
  BY <1>1, <1>2
<1>6. IsFiniteSet(Lines!Mine') /\ Cardinality(Lines!Mine') =
        Cardinality(Lines!Mine) + IF line = 0 THEN 0 ELSE 1
  <2>1. Cardinality(Lines!Mine) \in Nat
    BY FS_CardinalityType
  <2>2. CASE line = 0
    BY <1>4, <2>1, <2>2
  <2>3. CASE line # 0
    <3>1. Lines!Mine' = Lines!Mine \cup {Len(file) + 1}
      BY <1>4, <2>3
    <3> QED
      BY <1>5, <2>3, <3>1, FS_AddElement
  <2> QED
    BY <2>2, <2>3
<1> QED
  BY <1>1, <1>2, <1>4, <1>6

\* The audio thread: a call is dropped and counted, or its entry is written
\* where nothing waits, and waits behind all others once it is published.
LEMMA AudioThreadKeeps ==
  ASSUME LogInv, Lines!Rt
  PROVE  LogInv'
<1> USE LogAssumption DEF LogInv, Lines!flushVars, Lines!viewVars
<1>0. /\ Cardinality(Lines!Mine) \in Nat /\ Lines!Copied \in Nat
      /\ wIdx \in Nat /\ dropped \in Nat /\ calls \in Nat
      /\ Cardinality(Lines!Mine) + (wIdx - Lines!Copied) + dropped + Begun = calls
      /\ IsFiniteSet(Lines!Mine) /\ Begun \in 0..1
  BY FS_CardinalityType DEF NumberInv, RingInv, Begun
<1>1. CASE Lines!LogRT /\ wIdx - rIdx >= RT_BUFFER_SIZE
  <2>1. /\ rt = "out" /\ calls' = calls + 1 /\ dropped' = dropped + 1
        /\ UNCHANGED <<cells, rt, wIdx, rIdx, file, flush, lpos, limit>>
    BY <1>1 DEF Lines!LogRT
  <2>2. /\ Lines!Waiting' = Lines!Waiting /\ Lines!Mine' = Lines!Mine
        /\ Lines!Copied' = Lines!Copied /\ Begun' = 0 /\ Begun = 0
        /\ \A k : Lines!Entry(k)' = Lines!Entry(k)
    BY <2>1 DEF Lines!Waiting, Lines!Mine, Lines!Copied, Begun, Lines!Entry, Lines!Cell
  <2>3. RingInv'
    BY <2>1, <2>2 DEF RingInv
  <2>4. OrderInv'
    <3>1. \A n \in 1..(calls - Begun) : n \in 1..(calls' - Begun')
      BY <2>1, <2>2 DEF RingInv
    <3> QED
      BY <2>1, <2>2, <3>1 DEF OrderInv
  <2>5. NumberInv'
    BY <1>0, <2>1, <2>2 DEF NumberInv
  <2> QED
    BY <2>3, <2>4, <2>5
<1>2. ASSUME NEW line \in Int, cells' = [cells EXCEPT ![Lines!Cell(wIdx)] = line],
             wIdx < rIdx + RT_BUFFER_SIZE,
             UNCHANGED <<wIdx, rIdx, file, flush, lpos, limit>>
      PROVE  /\ cells' \in [0..(RT_BUFFER_SIZE - 1) -> Int]
             /\ Lines!Entry(wIdx)' = line
             /\ Lines!Waiting' = Lines!Waiting /\ Lines!Mine' = Lines!Mine
             /\ Lines!Copied' = Lines!Copied
             /\ \A k \in Lines!Waiting : Lines!Entry(k)' = Lines!Entry(k)
  <2>1. Lines!Cell(wIdx) \in 0..(RT_BUFFER_SIZE - 1)
    BY ModRange DEF Lines!Cell, RingInv
  <2>2. Lines!Waiting' = Lines!Waiting /\ Lines!Mine' = Lines!Mine
          /\ Lines!Copied' = Lines!Copied
    BY <1>2 DEF Lines!Waiting, Lines!Mine, Lines!Copied
  <2>3. ASSUME NEW k \in Lines!Waiting PROVE Lines!Entry(k)' = Lines!Entry(k)
    <3>1. /\ Lines!Cell(k) # Lines!Cell(wIdx)
          /\ Lines!Cell(k) \in 0..(RT_BUFFER_SIZE - 1)
      BY <1>2, WrittenApart
    <3> QED
      BY <1>2, <3>1 DEF RingInv, Lines!Entry, Lines!Cell
  <2> QED
    BY <1>2, <2>1, <2>2, <2>3 DEF RingInv, Lines!Entry, Lines!Cell
<1>3. CASE Lines!LogRT /\ ~(wIdx - rIdx >= RT_BUFFER_SIZE)
  <2>1. /\ rt = "out" /\ rt' = "write" /\ calls' = calls + 1 /\ calls' \in Nat
        /\ cells' = [cells EXCEPT ![Lines!Cell(wIdx)] = Lines!Torn]
        /\ wIdx < rIdx + RT_BUFFER_SIZE
        /\ UNCHANGED <<dropped, wIdx, rIdx, file, flush, lpos, limit>>
    BY <1>3 DEF Lines!LogRT, RingInv
  <2>2. Lines!Torn \in Int
    BY DEF Lines!Torn
  <2>3. /\ cells' \in [0..(RT_BUFFER_SIZE - 1) -> Int]
        /\ Lines!Waiting' = Lines!Waiting /\ Lines!Mine' = Lines!Mine
        /\ Lines!Copied' = Lines!Copied
        /\ \A k \in Lines!Waiting : Lines!Entry(k)' = Lines!Entry(k)
    BY <1>2, <2>1, <2>2
  <2>4. calls' - Begun' = calls - Begun /\ Begun' = Begun + 1
    BY <2>1 DEF Begun, RingInv
  <2>5. RingInv'
    BY <2>1, <2>3 DEF RingInv
  <2>6. OrderInv'
    BY <2>1, <2>3, <2>4 DEF OrderInv
  <2>7. NumberInv'
    BY <1>0, <2>1, <2>3, <2>4 DEF NumberInv
  <2> QED
    BY <2>5, <2>6, <2>7
<1>4. CASE Lines!FillEntry
  <2>1. /\ rt = "write" /\ rt' = "publish" /\ calls \in Int
        /\ cells' = [cells EXCEPT ![Lines!Cell(wIdx)] = calls]
        /\ wIdx < rIdx + RT_BUFFER_SIZE
        /\ UNCHANGED <<calls, dropped, wIdx, rIdx, file, flush, lpos, limit>>
    BY <1>4 DEF Lines!FillEntry, RingInv
  <2>3. /\ cells' \in [0..(RT_BUFFER_SIZE - 1) -> Int]
        /\ Lines!Entry(wIdx)' = calls
        /\ Lines!Waiting' = Lines!Waiting /\ Lines!Mine' = Lines!Mine
        /\ Lines!Copied' = Lines!Copied
        /\ \A k \in Lines!Waiting : Lines!Entry(k)' = Lines!Entry(k)
    BY <1>2, <2>1
  <2>4. Begun' = Begun
    BY <2>1 DEF Begun
  <2>5. RingInv'
    BY <2>1, <2>3 DEF RingInv, Lines!Entry, Lines!Cell
  <2>6. OrderInv'
    BY <2>1, <2>3, <2>4 DEF OrderInv
  <2>7. NumberInv'
    BY <2>1, <2>3, <2>4 DEF NumberInv
  <2> QED
    BY <2>5, <2>6, <2>7
<1>5. CASE Lines!PublishEntry
  <2>1. /\ rt = "publish" /\ rt' = "out" /\ wIdx' = wIdx + 1
        /\ UNCHANGED <<cells, calls, dropped, rIdx, file, flush, lpos, limit>>
    BY <1>5 DEF Lines!PublishEntry
  <2>2. /\ Lines!Copied' = Lines!Copied /\ Lines!Mine' = Lines!Mine
        /\ Lines!Waiting' = Lines!Waiting \cup {wIdx}
        /\ \A k \in Lines!Waiting : k < wIdx /\ k \in Int
    BY <2>1 DEF Lines!Copied, Lines!Mine, Lines!Waiting, RingInv
  <2>3. Begun' = 0 /\ Begun = 1 /\ calls - Begun < calls /\ calls \in Nat
    BY <2>1 DEF Begun, RingInv
  <2>4. Lines!Entry(wIdx) = calls /\ calls > 0
    BY <2>1 DEF RingInv
  <2>5. \A k : Lines!Entry(k)' = Lines!Entry(k)
    BY <2>1 DEF Lines!Entry, Lines!Cell
  <2>6. RingInv'
    BY <2>1, <2>2 DEF RingInv
  <2>7. OrderInv'
    <3>1. \A i \in Lines!Mine : file[i] \in 1..calls /\ file[i] < calls
      BY <2>3 DEF OrderInv
    <3>2. \A k \in Lines!Waiting : /\ Lines!Entry(k) \in 1..calls
                                   /\ Lines!Entry(k) < calls
      BY <2>3 DEF OrderInv
    <3>3. \A i \in Lines!Mine' : i \in Lines!Mine /\ file'[i] = file[i]
      BY <2>1, <2>2
    <3>4. ASSUME NEW k \in Lines!Waiting'
          PROVE  \/ k \in Lines!Waiting /\ Lines!Entry(k)' = Lines!Entry(k)
                 \/ k = wIdx /\ Lines!Entry(k)' = calls
      <4>1. CASE k \in Lines!Waiting
        BY <2>5, <4>1
      <4>2. CASE k = wIdx
        BY <2>4, <2>5, <4>2
      <4> QED
        BY <2>2, <4>1, <4>2
    <3>5. calls' - Begun' = calls
      BY <2>1, <2>3
    <3>6. /\ \A i \in Lines!Mine' : file'[i] \in 1..(calls' - Begun')
          /\ \A k \in Lines!Waiting' : Lines!Entry(k)' \in 1..(calls' - Begun')
          /\ \A i, j \in Lines!Mine' : i < j => file'[i] < file'[j]
          /\ \A i \in Lines!Mine', k \in Lines!Waiting' : file'[i] < Lines!Entry(k)'
      BY <2>3, <2>4, <3>1, <3>2, <3>3, <3>4, <3>5 DEF OrderInv
    <3>7. ASSUME NEW k \in Lines!Waiting', NEW l \in Lines!Waiting', k < l
          PROVE  Lines!Entry(k)' < Lines!Entry(l)'
      <4>1. k \in Lines!Waiting /\ Lines!Entry(k)' = Lines!Entry(k)
        BY <2>2, <3>4, <3>7 DEF RingInv
      <4> QED
        BY <3>2, <3>4, <3>7, <4>1 DEF OrderInv
    <3> QED
      BY <3>6, <3>7 DEF OrderInv
  <2>8. NumberInv'
    BY <1>0, <2>1, <2>2, <2>3 DEF NumberInv
  <2> QED
    BY <2>6, <2>7, <2>8
<1> QED
  BY <1>1, <1>3, <1>4, <1>5 DEF Lines!Rt

\* The flusher and the other threads: a line that is copied leaves the ring for
\* the end of the file; cells are given back only behind it.
LEMMA OthersKeep ==
  ASSUME LogInv, Lines!Flusher \/ Lines!Log \/ Lines!NotifyLine
  PROVE  LogInv'
<1> USE LogAssumption DEF LogInv, Lines!ringVars, Lines!flushVars, Lines!viewVars
<1>1. ASSUME UNCHANGED <<cells, wIdx, dropped, calls, rt, file>>,
             Lines!Copied' = Lines!Copied, rIdx' \in rIdx..Lines!Copied,
             flush' = "copy" => limit' \in lpos'..wIdx
      PROVE  LogInv'
  <2>1. Lines!Mine' = Lines!Mine /\ Lines!Waiting' = Lines!Waiting /\ Begun' = Begun
          /\ \A k : Lines!Entry(k)' = Lines!Entry(k)
    BY <1>1 DEF Lines!Mine, Lines!Waiting, Begun, Lines!Entry, Lines!Cell
  <2>2. RingInv'
    <3>1. Lines!Entry(wIdx)' = Lines!Entry(wIdx)
      BY <1>1 DEF Lines!Entry, Lines!Cell
    <3>2. PICK r \in rIdx..Lines!Copied : rIdx' = r
      BY <1>1
    <3>3. /\ wIdx' \in Nat /\ dropped' \in Nat /\ calls' \in Nat
          /\ rt' \in {"out", "write", "publish"}
          /\ cells' \in [0..(RT_BUFFER_SIZE - 1) -> Int] /\ file' \in Seq(Int)
          /\ flush' = "copy" => limit' \in lpos'..wIdx'
      BY <1>1 DEF RingInv
    <3>4. /\ r \in Nat /\ Lines!Copied \in r..wIdx
          /\ wIdx <= r + RT_BUFFER_SIZE
          /\ rt # "out" => wIdx < r + RT_BUFFER_SIZE /\ calls > 0
      BY DEF RingInv
    <3>5. rt' = "publish" => Lines!Entry(wIdx)' = calls'
      BY <1>1, <3>1 DEF RingInv
    <3> QED
      BY <1>1, <3>2, <3>3, <3>4, <3>5 DEF RingInv
  <2>3. OrderInv'
    BY <1>1, <2>1 DEF OrderInv
  <2>4. NumberInv'
    BY <1>1, <2>1 DEF NumberInv
  <2> QED
    BY <2>2, <2>3, <2>4
<1>2. CASE Lines!LockLog
  BY <1>1, <1>2 DEF Lines!LockLog, Lines!Copied, RingInv
<1>3. CASE Lines!ReleaseCells
  BY <1>1, <1>3 DEF Lines!ReleaseCells, Lines!Copied, RingInv
<1>4. CASE Lines!LockSubscribers \/ Lines!TellEntry \/ Lines!NotifyLine
  BY <1>1, <1>4 DEF Lines!LockSubscribers, Lines!TellEntry, Lines!NotifyLine,
       Lines!Push, Lines!Copied, RingInv
<1>5. CASE Lines!Log
  <2>1. /\ file' = Append(file, 0)
        /\ UNCHANGED <<cells, wIdx, rIdx, dropped, calls, rt, flush, lpos, limit>>
    BY <1>5 DEF Lines!Log
  <2>2. /\ Lines!Waiting' = Lines!Waiting /\ Lines!Copied' = Lines!Copied
        /\ Begun' = Begun /\ \A k : Lines!Entry(k)' = Lines!Entry(k)
    BY <2>1 DEF Lines!Waiting, Lines!Copied, Begun, Lines!Entry, Lines!Cell
  <2>3. /\ Lines!Mine' = Lines!Mine /\ file' \in Seq(Int)
        /\ \A i \in Lines!Mine : file'[i] = file[i]
    <3> DEFINE line == 0
    <3>1. line = 0 /\ line \in Int /\ file' = Append(file, line)
      BY <2>1
    <3> HIDE DEF line
    <3> QED
      BY <3>1, MineGrows DEF RingInv, NumberInv
  <2>4. RingInv'
    BY <2>1, <2>2, <2>3 DEF RingInv
  <2>5. OrderInv'
    BY <2>1, <2>2, <2>3 DEF OrderInv
  <2>6. NumberInv'
    BY <2>1, <2>2, <2>3 DEF NumberInv
  <2> QED
    BY <2>4, <2>5, <2>6
<1>6. CASE Lines!CopyEntry
  <2> DEFINE line == Lines!Entry(lpos)
  <2>1. /\ flush = "copy" /\ lpos < limit /\ lpos' = lpos + 1
        /\ file' = Append(file, line)
        /\ UNCHANGED <<cells, wIdx, rIdx, dropped, calls, rt, flush, limit>>
    BY <1>6 DEF Lines!CopyEntry, Lines!Entry
  <2>2. /\ Lines!Copied = lpos /\ Lines!Copied' = lpos + 1
        /\ lpos \in Lines!Waiting /\ lpos \in Nat /\ limit \in Nat
        /\ Lines!Waiting' = Lines!Waiting \ {lpos}
        /\ \A k \in Lines!Waiting' : lpos < k
    <3>1. /\ Lines!Copied = lpos /\ Lines!Copied' = lpos + 1
          /\ lpos \in Nat /\ limit \in Nat /\ wIdx \in Nat /\ lpos < wIdx
      BY <2>1 DEF Lines!Copied, RingInv
    <3>2. /\ Lines!Waiting = lpos..(wIdx - 1)
          /\ Lines!Waiting' = (lpos + 1)..(wIdx - 1)
      BY <2>1, <3>1 DEF Lines!Waiting
    <3> QED
      BY <3>1, <3>2
  <2>3. Begun' = Begun /\ \A k : Lines!Entry(k)' = Lines!Entry(k)
    BY <2>1 DEF Begun, Lines!Entry, Lines!Cell
  <2>4. line \in 1..(calls - Begun)
    BY <2>2 DEF OrderInv
  <2>5. /\ Lines!Mine' = Lines!Mine \cup {Len(file) + 1}
        /\ file' \in Seq(Int) /\ file'[Len(file) + 1] = line
        /\ \A i \in Lines!Mine : i < Len(file) + 1 /\ file'[i] = file[i]
        /\ IsFiniteSet(Lines!Mine')
        /\ Cardinality(Lines!Mine') = Cardinality(Lines!Mine) + 1
    <3>1. line \in Int /\ line # 0
      BY <2>4 DEF RingInv, Begun
    <3> HIDE DEF line
    <3> QED
      BY <2>1, <3>1, MineGrows DEF RingInv, NumberInv
  <2>6. RingInv'
    BY <2>1, <2>2, <2>3, <2>5 DEF RingInv
  <2>7. OrderInv'
    <3>1. \A i \in Lines!Mine : file[i] < line
      BY <2>2 DEF OrderInv
    <3>2. \A k \in Lines!Waiting' : k \in Lines!Waiting /\ line < Lines!Entry(k)
      BY <2>2 DEF OrderInv, Lines!Waiting
    <3>3. \A i \in Lines!Mine' : i \in Lines!Mine \/ i = Len(file) + 1
      BY <2>5
    <3>4. \A i \in Lines!Mine : i \in 1..Len(file) /\ Len(file) \in Nat
      BY DEF Lines!Mine, RingInv
    <3> HIDE DEF line
    <3> QED
      BY <2>1, <2>3, <2>4, <2>5, <3>1, <3>2, <3>3, <3>4 DEF OrderInv
  <2>8. NumberInv'
    <3>1. Cardinality(Lines!Mine) \in Nat
      BY FS_CardinalityType DEF NumberInv
    <3> QED
      BY <2>1, <2>2, <2>3, <2>5, <3>1 DEF NumberInv, RingInv
  <2> QED
    BY <2>6, <2>7, <2>8
<1> QED
  BY <1>2, <1>3, <1>4, <1>5, <1>6 DEF Lines!Flusher

\* The buffer of the log page is a window on the end of what was told.
ViewInv ==
  /\ pending \in Seq(Int) /\ told \in Seq(Int)
  /\ buf \in [0..(kCapacity - 1) -> Int]
  /\ head = Len(told) % kCapacity
  /\ size = IF Len(told) < kCapacity THEN Len(told) ELSE kCapacity
  /\ \A j \in 1..Len(told) : Len(told) - size < j => buf[(j - 1) % kCapacity] = told[j]

\* The oldest line gives way, and no other.
LEMMA PushKeeps ==
  ASSUME ViewInv, NEW line \in Int, Lines!Push(line), pending' \in Seq(Int)
  PROVE  ViewInv'
<1> USE LogAssumption
<1>0. PICK L \in Nat : L = Len(told)
  BY DEF ViewInv
<1> DEFINE Held(m) == IF m < kCapacity THEN m ELSE kCapacity
<1>1. told' = Append(told, line)
  BY DEF Lines!Push
<1>2. /\ told' \in Seq(Int) /\ Len(told') = L + 1 /\ told'[L + 1] = line
      /\ \A j \in 1..L : told'[j] = told[j]
  <2>1. told \in Seq(Int)
    BY DEF ViewInv
  <2> QED
    BY <1>0, <1>1, <2>1
<1>3. head \in 0..(kCapacity - 1) /\ buf' = [buf EXCEPT ![head] = line]
  BY <1>0, ModRange DEF ViewInv, Lines!Push
<1>4. head' = (L + 1) % kCapacity
  <2>1. ((L % kCapacity) + 1) % kCapacity = (L + 1) % kCapacity
    BY SumRemainder
  <2> QED
    BY <1>0, <2>1 DEF ViewInv, Lines!Push
<1>5. size = Held(L) /\ size' = Held(L + 1)
  BY <1>0 DEF ViewInv, Lines!Push
<1>6. ASSUME NEW j \in 1..(L + 1), L + 1 - Held(L + 1) < j
      PROVE  buf'[(j - 1) % kCapacity] = told'[j]
  <2>1. CASE j = L + 1
    <3>1. (j - 1) % kCapacity = head
      BY <1>0, <2>1 DEF ViewInv
    <3> QED
      BY <1>2, <1>3, <2>1, <3>1 DEF ViewInv
  <2>2. CASE j # L + 1
    <3>1. j \in 1..L /\ L - Held(L) < j
      BY <1>6, <2>2
    <3>2. j - 1 \in Nat /\ j - 1 < L /\ L < (j - 1) + kCapacity
      BY <1>6, <3>1
    <3>3. j - 1 < L + kCapacity
      BY <3>2
    <3>4. (j - 1) % kCapacity # head
      <4>1. (j - 1) % kCapacity # L % kCapacity
        <5>1. PICK a \in Nat : a = j - 1
          BY <3>2
        <5>2. a # L /\ a < L + kCapacity /\ L < a + kCapacity
          BY <3>2, <3>3, <5>1
        <5>3. a % kCapacity # L % kCapacity
          BY <5>2, SameRemainder
        <5> QED
          BY <5>1, <5>3
      <4> QED
        BY <1>0, <4>1 DEF ViewInv
    <3>5. (j - 1) % kCapacity \in 0..(kCapacity - 1)
      BY <3>2, ModRange
    <3>6. buf'[(j - 1) % kCapacity] = buf[(j - 1) % kCapacity]
      BY <1>3, <3>4, <3>5 DEF ViewInv
    <3>7. buf[(j - 1) % kCapacity] = told[j]
      BY <1>0, <1>5, <3>1 DEF ViewInv
    <3> QED
      BY <1>2, <3>1, <3>6, <3>7
  <2> QED
    BY <2>1, <2>2
<1>7. buf' \in [0..(kCapacity - 1) -> Int]
  BY <1>3 DEF ViewInv
<1>8. ASSUME NEW j \in 1..Len(told'), Len(told') - size' < j
      PROVE  buf'[(j - 1) % kCapacity] = told'[j]
  BY <1>2, <1>5, <1>6, <1>8
<1> HIDE DEF Held
<1>9. /\ size' = IF Len(told') < kCapacity THEN Len(told') ELSE kCapacity
      /\ head' = Len(told') % kCapacity
  BY <1>2, <1>4, <1>5 DEF Held
<1> QED
  BY <1>2, <1>7, <1>8, <1>9 DEF ViewInv

LEMMA ViewKeeps ==
  ASSUME RingInv, ViewInv, Lines!Next
  PROVE  ViewInv'
<1> USE LogAssumption DEF Lines!flushVars, Lines!viewVars
<1>1. ASSUME UNCHANGED <<told, buf, head, size>>, pending' \in Seq(Int)
      PROVE  ViewInv'
  BY <1>1 DEF ViewInv
<1>2. CASE Lines!Rt \/ Lines!Log \/ Lines!ReleaseCells \/ Lines!LockSubscribers
  BY <1>1, <1>2 DEF Lines!Rt, Lines!LogRT, Lines!FillEntry, Lines!PublishEntry,
       Lines!Log, Lines!ReleaseCells, Lines!LockSubscribers, ViewInv
<1>3. CASE Lines!LockLog
  BY <1>1, <1>3 DEF Lines!LockLog
<1>4. CASE Lines!CopyEntry
  <2>1. lpos \in Nat
    BY <1>4 DEF Lines!CopyEntry, Lines!Copied, RingInv
  <2>2. cells[Lines!Cell(lpos)] \in Int
    BY <2>1, ModRange DEF RingInv, Lines!Cell
  <2> QED
    BY <1>1, <1>4, <2>2 DEF Lines!CopyEntry, ViewInv
<1>5. CASE Lines!TellEntry
  <2>1. /\ pending # <<>> /\ Lines!Push(pending[1]) /\ pending' = Tail(pending)
    BY <1>5 DEF Lines!TellEntry
  <2>2. pending[1] \in Int /\ Tail(pending) \in Seq(Int)
    BY <2>1 DEF ViewInv
  <2> QED
    BY <2>1, <2>2, PushKeeps
<1>6. CASE Lines!NotifyLine
  <2>1. Lines!Push(0) /\ pending' = pending
    BY <1>6 DEF Lines!NotifyLine
  <2>2. pending' \in Seq(Int)
    BY <2>1 DEF ViewInv
  <2> QED
    BY <2>1, <2>2, PushKeeps
<1> QED
  BY <1>2, <1>3, <1>4, <1>5, <1>6 DEF Lines!Next, Lines!Flusher

\* A snapshot starts where the last of the lines told that it has room for are.
LEMMA SnapshotShows ==
  ASSUME ViewInv, NEW n \in 0..(kCapacity + 1)
  PROVE  /\ Lines!Snapshot(n) = SubSeq(told, Len(told) - Len(Lines!Snapshot(n)) + 1,
                                       Len(told))
         /\ Len(Lines!Snapshot(n)) \in {n, Len(told), kCapacity}
<1> USE LogAssumption
<1> DEFINE L     == Len(told)
           K     == kCapacity
           len   == IF n < size THEN n ELSE size
           start == (head - size + K) % K
           from  == IF size > n THEN (start + size - n) % K ELSE start
<1>1. /\ L \in Nat /\ n \in Nat /\ K \in Nat \ {0} /\ size \in Nat
      /\ size <= L /\ size <= K /\ (size = L \/ size = K)
      /\ len \in Nat /\ len <= size /\ (len = n \/ len = size)
  <2>1. L \in Nat /\ n \in Nat /\ K \in Nat \ {0} /\ size = IF L < K THEN L ELSE K
    BY DEF ViewInv
  <2>2. size \in Nat /\ size <= L /\ size <= K /\ (size = L \/ size = K)
    BY <2>1
  <2> QED
    BY <2>1, <2>2
<1>2. Lines!Snapshot(n) = [i \in 1..len |-> buf[(from + i - 1) % K]]
  BY DEF Lines!Snapshot
<1>3. start = (L - size) % K
  <2>1. K - size \in Nat /\ L - size \in Nat /\ L + (K - size) = (L - size) + K
    BY <1>1
  <2>2. ((L % K) + (K - size)) % K = (L + (K - size)) % K
    BY <1>1, <2>1, SumRemainder
  <2>3. ((L - size) + K) % K = (L - size) % K
    BY <1>1, <2>1, LapRemainder
  <2>4. L % K \in Nat /\ head = L % K
    BY <1>1, ModRange DEF ViewInv
  <2>5. head - size + K = (L % K) + (K - size)
    BY <1>1, <2>4
  <2> QED
    BY <2>1, <2>2, <2>3, <2>5
<1>4. from = (L - len) % K
  <2>1. CASE size > n
    <3>1. L - size \in Nat /\ size - n \in Nat /\ (L - size) + (size - n) = L - n
          /\ len = n
      BY <1>1, <2>1
    <3>2. (((L - size) % K) + (size - n)) % K = (L - n) % K
      <4>1. (((L - size) % K) + (size - n)) % K = ((L - size) + (size - n)) % K
        BY <1>1, <3>1, SumRemainder
      <4> QED
        BY <3>1, <4>1
    <3>3. start \in Nat /\ start + size - n = start + (size - n)
      <4>1. (L - size) % K \in 0..(K - 1)
        BY <1>1, <3>1, ModRange
      <4>2. start \in Nat
        BY <1>3, <4>1
      <4> HIDE DEF start
      <4> QED
        BY <1>1, <4>2
    <3> HIDE DEF start
    <3> QED
      BY <1>3, <2>1, <3>1, <3>2, <3>3
  <2>2. CASE ~(size > n)
    <3>1. len = size
      BY <1>1, <2>2
    <3> HIDE DEF start, len
    <3> QED
      BY <1>3, <2>2, <3>1
  <2> QED
    BY <2>1, <2>2
<1> HIDE DEF start, from, len
<1>5. ASSUME NEW i \in 1..len
      PROVE  buf[(from + i - 1) % K] = told[L - len + i]
  <2>1. L - len \in Nat /\ i - 1 \in Nat /\ (L - len) + (i - 1) = (L - len + i) - 1
    BY <1>1
  <2>2. (((L - len) % K) + (i - 1)) % K = ((L - len + i) - 1) % K
    <3>1. (((L - len) % K) + (i - 1)) % K = ((L - len) + (i - 1)) % K
      BY <1>1, <2>1, SumRemainder
    <3> QED
      BY <2>1, <3>1
  <2>3. from \in Nat /\ from + i - 1 = from + (i - 1)
    <3>1. (L - len) % K \in 0..(K - 1)
      BY <1>1, <2>1, ModRange
    <3>2. from \in Nat
      BY <1>4, <3>1
    <3> QED
      BY <1>1, <3>2
  <2>4. (from + i - 1) % K = ((L - len + i) - 1) % K
    BY <1>4, <2>2, <2>3
  <2>5. L - len + i \in 1..L /\ L - size < L - len + i
    BY <1>1
  <2>6. buf[((L - len + i) - 1) % K] = told[L - len + i]
    BY <2>5 DEF ViewInv
  <2> QED
    BY <2>4, <2>6
<1>6. Len(Lines!Snapshot(n)) = len
  BY <1>1, <1>2
<1>7. Lines!Snapshot(n) = [i \in 1..len |-> told[L - len + i]]
  BY <1>2, <1>5
<1>8. SubSeq(told, L - len + 1, L) = [i \in 1..len |-> told[L - len + i]]
  <2>1. told \in Seq(Int) /\ Len(told) = L
    BY <1>1 DEF ViewInv
  <2>2. PICK a \in 0..L : a = L - len
    BY <1>1
  <2>3. L - a = len
    BY <1>1, <2>2
  <2>4. SubSeq(told, a + 1, L) = [i \in 1..(L - a) |-> told[a + i]]
    BY <2>1
  <2> QED
    BY <2>2, <2>3, <2>4
<1> QED
  BY <1>1, <1>6, <1>7, <1>8

\* LogRing: for any sizes of ring, batch and buffer, every call of the audio
\* thread is written once, in order and whole, or counted as dropped; and the
\* log page shows the end of what was told.
THEOREM LinesAreAccounted == Lines!Spec => []LinesAccounted
<1> USE LogAssumption
<1> DEFINE Inv == LogInv /\ ViewInv
<1>1. Lines!Init => Inv
  <2> SUFFICES ASSUME Lines!Init PROVE LogInv /\ ViewInv
    OBVIOUS
  <2>1. Lines!Mine = {} /\ Lines!Copied = 0 /\ Lines!Waiting = {} /\ Begun = 0
    BY DEF Lines!Init, Lines!Mine, Lines!Copied, Lines!Waiting, Begun
  <2>2. LogInv
    BY <2>1, FS_EmptySet DEF Lines!Init, LogInv, RingInv, OrderInv, NumberInv, Lines!Torn
  <2>3. ViewInv
    BY FirstRemainder DEF Lines!Init, ViewInv, Lines!Torn
  <2> QED
    BY <2>2, <2>3
<1>2. Inv /\ [Lines!Next]_(Lines!vars) => Inv'
  <2> SUFFICES ASSUME LogInv, ViewInv, [Lines!Next]_(Lines!vars)
               PROVE  LogInv' /\ ViewInv'
    OBVIOUS
  <2>1. CASE Lines!Next
    BY <2>1, AudioThreadKeeps, OthersKeep, ViewKeeps DEF Lines!Next, LogInv
  <2>2. CASE UNCHANGED Lines!vars
    <3> USE <2>2 DEF Lines!vars, Lines!ringVars, Lines!flushVars, Lines!viewVars
    <3>1. Lines!Mine' = Lines!Mine /\ Lines!Waiting' = Lines!Waiting /\ Begun' = Begun
            /\ Lines!Copied' = Lines!Copied /\ \A k : Lines!Entry(k)' = Lines!Entry(k)
            /\ Lines!Entry(wIdx)' = Lines!Entry(wIdx)
      BY DEF Lines!Mine, Lines!Waiting, Begun, Lines!Entry, Lines!Cell, Lines!Copied
    <3>2. RingInv'
      BY <3>1 DEF LogInv, RingInv
    <3>3. OrderInv'
      BY <3>1 DEF LogInv, OrderInv
    <3>4. NumberInv' /\ ViewInv'
      BY <3>1 DEF LogInv, NumberInv, ViewInv
    <3> QED
      BY <3>2, <3>3, <3>4 DEF LogInv
  <2> QED
    BY <2>1, <2>2
<1>3. Inv => LinesAccounted
  <2> SUFFICES ASSUME LogInv, ViewInv PROVE Lines!LinesAccounted /\ Lines!ShowsLatest
    BY DEF LinesAccounted
  <2>1. \A m \in 1..(calls - Begun) : m \in 1..calls
    BY DEF LogInv, RingInv, Begun
  <2>2. Lines!LinesAccounted
    <3>1. /\ \A i \in Lines!Mine : file[i] \in 1..calls
          /\ \A k \in Lines!Waiting : Lines!Entry(k) \in 1..calls
      BY <2>1 DEF LogInv, OrderInv
    <3> QED
      BY <3>1 DEF LogInv, OrderInv, NumberInv, Begun, Lines!LinesAccounted,
           Lines!Cardinality, Cardinality
  <2>3. Lines!ShowsLatest
    BY SnapshotShows DEF Lines!ShowsLatest
  <2> QED
    BY <2>2, <2>3
<1> QED
  BY <1>1, <1>2, <1>3, PTL DEF Lines!Spec

-----------------------------------------------------------------------------
(* Settings: from a change to the disk.                                    *)

\* A save that is not the last of the run began with the state the frame
\* compares with from then on.
SavingInv ==
  at \in {"open", "good", "short"} /\ ~final => last = st /\ since = None

\* While no save has failed, the frame compares with what is on the disk, and
\* the debouncer has run as long as anything has been unsaved.
DebounceInv ==
  /\ since = None \/ since \in 0 .. Delay
  /\ unsaved \in Nat
  /\ at = "frame" /\ ~failed =>
       /\ ~Saver!Differs(last, saved)
       /\ since = None => unsaved = 0
       /\ since # None => unsaved <= since + 1

SaverInv == SavingInv /\ DebounceInv

\* The window does not count, whatever it is set to.
LEMMA WindowIgnored ==
  ASSUME NEW a, NEW b, NEW w
  PROVE  Saver!Differs([a EXCEPT !.window = w], b) <=> Saver!Differs(a, b)
<1>1. [[a EXCEPT !.window = w] EXCEPT !.window = 0] = [a EXCEPT !.window = 0]
  OBVIOUS
<1> QED
  BY <1>1 DEF Saver!Differs

\* The end of a frame: a state that differs starts the debouncer, or finds it
\* running.
LEMMA EndFrameKeeps ==
  ASSUME SaverInv, Saver!EndFrame
  PROVE  SaverInv'
<1> USE SaverAssumption DEF SaverInv
<1> DEFINE s   == Saver!Mirrored
           age == Saver!Touched(Saver!Differs(s, last))
           due == age # None /\ age > Delay
<1>1. /\ at = "frame" /\ st' = s
      /\ last' = IF due THEN s ELSE [last EXCEPT !.window = s.window]
      /\ since' = IF due THEN None ELSE age
      /\ at' = IF due THEN "open" ELSE "frame"
      /\ unsaved' = IF ~Saver!Differs(s, saved) THEN 0
                    ELSE Saver!Least(unsaved + 1, Delay + 3)
      /\ UNCHANGED <<final, saved, failed>>
  BY DEF Saver!EndFrame
<1>2. unsaved' \in Nat /\ unsaved' <= unsaved + 1
  BY <1>1 DEF DebounceInv, Saver!Least
<1>3. age = IF since # None THEN since + 1
            ELSE IF Saver!Differs(s, last) THEN 0 ELSE None
  BY DEF Saver!Touched
<1>4. SavingInv'
  BY <1>1 DEF SavingInv
<1>5. since' = None \/ since' \in 0 .. Delay
  BY <1>1, <1>3 DEF DebounceInv
<1>6. ASSUME at' = "frame", ~failed
      PROVE  /\ ~Saver!Differs(last', saved')
             /\ since' = None => unsaved' = 0
             /\ since' # None => unsaved' <= since' + 1
  <2>1. ~due /\ since' = age /\ last' = [last EXCEPT !.window = s.window]
    BY <1>1, <1>6
  <2>2. ~Saver!Differs(last, saved)
    BY <1>1, <1>6 DEF DebounceInv
  <2>3. ~Saver!Differs(last', saved')
    BY <1>1, <2>1, <2>2, WindowIgnored
  <2>4. since' = None => unsaved' = 0
    <3>1. SUFFICES ASSUME since' = None PROVE unsaved' = 0
      OBVIOUS
    <3>2. ~Saver!Differs(s, last)
      BY <1>3, <2>1, <3>1 DEF DebounceInv
    <3>3. ~Saver!Differs(s, saved)
      BY <2>2, <3>2 DEF Saver!Differs
    <3> QED
      BY <1>1, <3>3
  <2>5. since' # None => unsaved' <= since' + 1
    BY <1>1, <1>2, <1>3, <1>6, <2>1 DEF DebounceInv
  <2> QED
    BY <2>3, <2>4, <2>5
<1> HIDE DEF s, age, due
<1> QED
  BY <1>1, <1>2, <1>4, <1>5, <1>6 DEF DebounceInv

\* A save that returns has put st where it is compared with, or has failed.
LEMMA ReturnKeeps ==
  ASSUME SaverInv, at \in {"open", "good", "short"}, NEW done \in BOOLEAN,
         Saver!SaveReturns(done)
  PROVE  SaverInv'
<1> USE SaverAssumption DEF SaverInv
<1>1. CASE final /\ Saver!Gone
  BY <1>1 DEF Saver!Gone, SavingInv, DebounceInv
<1>2. CASE ~(final /\ Saver!Gone)
  <2>1. /\ ~final /\ at' = "frame" /\ failed' = ~done
        /\ saved' = IF done THEN st ELSE saved
        /\ unsaved' = IF done THEN 0 ELSE unsaved
        /\ UNCHANGED <<st, last, since, final>>
    BY <1>2 DEF Saver!SaveReturns, Saver!memory
  <2>2. last = st /\ since = None
    BY <2>1 DEF SavingInv
  <2> QED
    BY <2>1, <2>2 DEF SavingInv, DebounceInv, Saver!Differs
<1> QED
  BY <1>1, <1>2

\* Settings: for any texts, files, pages and delays, a change is on its way to
\* the disk before the delay is over by a frame, however many follow it.
THEOREM ChangesAreSaved == Saver!Spec => []ChangeSaved
<1> USE SaverAssumption DEF SaverInv
<1>1. Saver!Init => SaverInv
  BY DEF Saver!Init, SavingInv, DebounceInv
<1>2. SaverInv /\ [Saver!Next]_(Saver!vars) => SaverInv'
  <2> SUFFICES ASSUME SaverInv, [Saver!Next]_(Saver!vars) PROVE SaverInv'
    OBVIOUS
  <2>1. CASE Saver!Start
    BY <2>1 DEF Saver!Start, SavingInv, DebounceInv, Saver!Differs
  <2>2. CASE Saver!Edit
    BY <2>2 DEF Saver!Edit, Saver!ghosts, SavingInv, DebounceInv
  <2>3. CASE Saver!Quit
    BY <2>3 DEF Saver!Quit, SavingInv, DebounceInv
  <2>4. CASE Saver!CannotOpen \/ Saver!DropShort \/ Saver!RenameOk \/ Saver!RenameFails
    <3>1. \E done \in BOOLEAN : Saver!SaveReturns(done)
      BY <2>4 DEF Saver!CannotOpen, Saver!DropShort, Saver!RenameOk, Saver!RenameFails
    <3> QED
      BY <2>4, <3>1, ReturnKeeps
         DEF Saver!CannotOpen, Saver!DropShort, Saver!RenameOk, Saver!RenameFails
  <2>5. CASE Saver!WriteTmp
    BY <2>5 DEF Saver!WriteTmp, Saver!memory, Saver!ghosts, SavingInv, DebounceInv
  <2>6. CASE Saver!Crash
    BY <2>6 DEF Saver!Crash, Saver!Gone, SavingInv, DebounceInv
  <2>7. CASE UNCHANGED Saver!vars
    BY <2>7 DEF Saver!vars, Saver!memory, Saver!ghosts, SavingInv, DebounceInv
  <2> QED
    BY <2>1, <2>2, <2>4, <2>3, <2>5, <2>6, <2>7, EndFrameKeeps DEF Saver!Next
<1>3. SaverInv => ChangeSaved
  BY DEF DebounceInv, ChangeSaved, Saver!ChangeSaved
<1> QED
  BY <1>1, <1>2, <1>3, PTL DEF Saver!Spec

-----------------------------------------------------------------------------
(* Settings: what a start finds.                                           *)

StageStates ==
  [enabled : BOOLEAN, choice : {-1} \cup Nat, value : {None} \cup Int]
Stages == [enabled : BOOLEAN, choice : 0 .. 1, value : 0 .. 3]

\* What may be loaded, and what the program runs with.
Loadings ==
  [bank : Text, mask : SUBSET {0, 1}, block : Int, page : Int, glow : 0 .. 3,
   window : {1}, dsp : StageStates, defaults : StageStates]
States ==
  [bank : Text, mask : SUBSET {0, 1}, block : {2, 3}, page : Int, glow : 0 .. 3,
   window : {0, 1}, dsp : StageStates, defaults : StageStates]

LEMMA ChannelsAre == Saver!MidiChannels = {0, 1}
BY DEF Saver!MidiChannels

LEMMA StagesAre == Stages \subseteq StageStates
BY DEF Stages, StageStates

\* A number has a nearest decimal.
LEMMA DecimalIs ==
  ASSUME NEW v \in Int
  PROVE  /\ Saver!Decimal(v) \in Decimals /\ Saver!Decimal(v) \in Int
         /\ \A e \in Decimals : Saver!Far(Saver!Decimal(v), v) <= Saver!Far(e, v)
<1> DEFINE F == {Saver!Far(e, v) : e \in Decimals}
<1>1. Decimals \subseteq Int /\ 0 \in Decimals
  BY SaverAssumption
<1>2. F \subseteq Nat
  BY <1>1 DEF Saver!Far
<1>3. Saver!Far(0, v) \in F
  BY <1>1
<1> HIDE DEF F
<1>4. PICK n \in F : \A k \in F : n <= k
  BY <1>2, <1>3, LeastNatural
<1>5. PICK d \in Decimals : n = Saver!Far(d, v)
  BY DEF F
<1>6. \A e \in Decimals : Saver!Far(d, v) <= Saver!Far(e, v)
  BY <1>4, <1>5 DEF F
<1>7. /\ Saver!Decimal(v) \in Decimals
      /\ \A e \in Decimals : Saver!Far(Saver!Decimal(v), v) <= Saver!Far(e, v)
  BY <1>6 DEF Saver!Decimal
<1> QED
  BY <1>1, <1>7

\* It lies within the limits that the number lies within, since they are
\* decimals themselves.
LEMMA DecimalWithin ==
  ASSUME NEW v \in 0 .. 3
  PROVE  Saver!Decimal(v) \in 0 .. 3
<1>1. PICK d \in Int : d = Saver!Decimal(v)
  BY DecimalIs
<1>2. 0 \in Decimals /\ 3 \in Decimals
  BY SaverAssumption DEF Saver!KnobMax
<1>3. Saver!Far(d, v) <= Saver!Far(0, v) /\ Saver!Far(d, v) <= Saver!Far(3, v)
  BY <1>1, <1>2, DecimalIs
<1>4. d \in 0 .. 3
  BY <1>3 DEF Saver!Far
<1> QED
  BY <1>1, <1>4

\* What a save and a start leave of a stage, and of the state.
WrittenStage(d) ==
  [d EXCEPT !.value = IF d.value = None THEN None ELSE Saver!Decimal(d.value)]
Written(s) ==
  [s EXCEPT !.window = 1, !.glow = Saver!Decimal(s.glow),
            !.dsp = WrittenStage(s.dsp), !.defaults = WrittenStage(s.defaults)]

LEMMA WrittenStageIs ==
  ASSUME NEW d \in StageStates
  PROVE  /\ WrittenStage(d) \in StageStates
         /\ WrittenStage(d) = [enabled |-> d.enabled, choice |-> d.choice,
                               value |-> WrittenStage(d).value]
         /\ Saver!SameStage(WrittenStage(d), d)
         /\ d \in Stages => WrittenStage(d) \in Stages
<1>1. PICK w : w = WrittenStage(d)
  OBVIOUS
<1>2. PICK v \in {None} \cup Int : v = d.value
  BY DEF StageStates
<1>3. w = [d EXCEPT !.value = w.value]
      /\ w.value = IF v = None THEN None ELSE Saver!Decimal(v)
  BY <1>1, <1>2 DEF WrittenStage, StageStates
<1>4. w.value \in {None} \cup Int
  BY <1>3, DecimalIs
<1>5. Saver!Told(w.value, v)
  BY <1>3, DecimalIs DEF Saver!Told
<1>6. w \in StageStates
  BY <1>3, <1>4 DEF StageStates
<1>7. ASSUME d \in Stages PROVE w \in Stages
  <2>1. v \in 0 .. 3
    BY <1>2, <1>7 DEF Stages
  <2>2. v # None
    BY <2>1, SaverAssumption
  <2>3. w.value \in 0 .. 3
    BY <1>3, <2>1, <2>2, DecimalWithin
  <2> QED
    BY <1>3, <1>7, <2>3 DEF Stages
<1>8. w = [enabled |-> d.enabled, choice |-> d.choice, value |-> w.value]
  BY <1>3 DEF StageStates
<1> QED
  BY <1>1, <1>2, <1>3, <1>5, <1>6, <1>7, <1>8 DEF Saver!SameStage

\* A key gives what belongs behind it, or the default.
LEMMA ReadIs ==
  ASSUME NEW kv, Saver!Legible(kv), NEW k, NEW d
  PROVE  Saver!Read(kv, k, d) \in Saver!ValueOf(k) \cup {d}
BY DEF Saver!Legible, Saver!Read

LEMMA ReadBIs ==
  ASSUME NEW kv, NEW k, NEW d \in BOOLEAN
  PROVE  Saver!ReadB(kv, k, d) \in BOOLEAN
BY DEF Saver!ReadB

LEMMA SectionIs ==
  ASSUME NEW kv, Saver!Legible(kv)
  PROVE  /\ Saver!Section(kv, Saver!DspKeys) \in StageStates
         /\ Saver!Section(kv, Saver!DefaultsKeys) \in StageStates
<1>1. ASSUME NEW keys \in {Saver!DspKeys, Saver!DefaultsKeys}
      PROVE  Saver!Section(kv, keys) \in StageStates
  <2>1. /\ Saver!ValueOf(keys.choice) = Nat
        /\ Saver!ValueOf(keys.value) = Int
    <3>1. CASE keys = Saver!DspKeys
      BY <3>1 DEF Saver!ValueOf, Saver!DspKeys, Saver!DefaultsKeys
    <3>2. CASE keys = Saver!DefaultsKeys
      BY <3>2 DEF Saver!ValueOf, Saver!DspKeys, Saver!DefaultsKeys
    <3> QED
      BY <3>1, <3>2
  <2>2. /\ Saver!ReadB(kv, keys.enabled, FALSE) \in BOOLEAN
        /\ Saver!Read(kv, keys.choice, -1) \in Nat \cup {-1}
        /\ Saver!Read(kv, keys.value, None) \in Int \cup {None}
    BY <2>1, ReadIs, ReadBIs
  <2> QED
    BY <2>2 DEF Saver!Section, StageStates
<1> QED
  BY <1>1

LEMMA LoadIs ==
  ASSUME NEW kv, Saver!Legible(kv)
  PROVE  Saver!Load(kv) \in Loadings
<1> DEFINE l == Saver!Load(kv)
           dsp == Saver!Section(kv, Saver!DspKeys)
           w == Saver!Read(kv, "window_w", 1)
<1>1. /\ Saver!ValueOf("bank_path") = Text
      /\ Saver!ValueOf("midi_channel_mask") = SUBSET {0, 1}
      /\ Saver!ValueOf("window_w") = {i \in Int : i < 2}
      /\ Saver!ValueOf("audio_block_size") = Int
      /\ Saver!ValueOf("config_page") = Int
      /\ Saver!ValueOf("wave_glow") = Int
      /\ Saver!ValueOf("agc_target") = Int
  BY ChannelsAre DEF Saver!ValueOf, Saver!DspKeys, Saver!DefaultsKeys, Text
<1>2. l.bank \in Text
  <2>1. l.bank = IF "bank_path" \in DOMAIN kv
                 THEN Saver!Decode(kv["bank_path"]) ELSE <<>>
    BY DEF Saver!Load
  <2>2. "bank_path" \in DOMAIN kv => kv["bank_path"] \in Text
    BY <1>1 DEF Saver!Legible
  <2>3. <<>> \in Text
    BY DEF Text
  <2> QED
    BY <2>1, <2>2, <2>3, DecodeTypes
<1>3. l.mask \in SUBSET {0, 1}
  <2>1. Saver!Read(kv, "midi_channel_mask", None) \in (SUBSET {0, 1}) \cup {None}
    BY <1>1, ReadIs
  <2>2. PICK m, o : /\ m = Saver!Read(kv, "midi_channel_mask", None)
                    /\ o = Saver!Read(kv, "midi_channel", -1)
    OBVIOUS
  <2>3. Saver!MaskOf(kv) = IF m # None THEN m
                           ELSE IF o \in {0, 1} THEN {o} ELSE {0, 1}
    BY <2>2, ChannelsAre DEF Saver!MaskOf
  <2>4. Saver!MaskOf(kv) \in SUBSET {0, 1}
    <3>1. CASE m # None
      BY <2>1, <2>2, <2>3, <3>1
    <3>2. CASE m = None /\ o \in {0, 1}
      BY <2>3, <3>2
    <3>3. CASE m = None /\ o \notin {0, 1}
      BY <2>3, <3>3
    <3> QED
      BY <3>1, <3>2, <3>3
  <2>5. l.mask = Saver!MaskOf(kv)
    BY DEF Saver!Load
  <2> QED
    BY <2>4, <2>5
<1>4. l.block \in Int /\ l.page \in Int
  <2>1. /\ Saver!Read(kv, "audio_block_size", 2) \in Int
        /\ Saver!Read(kv, "config_page", 0) \in Int
    BY <1>1, ReadIs
  <2> QED
    BY <2>1 DEF Saver!Load, Saver!Defaults
<1>5. l.glow \in 0 .. 3
  <2>1. PICK g \in Int : g = Saver!Read(kv, "wave_glow", 0)
    BY <1>1, ReadIs
  <2>2. Saver!Sane(g) \in 0 .. 3
    BY DEF Saver!Sane, Saver!Clamp, Saver!Least, Saver!GlowMax
  <2> QED
    BY <2>1, <2>2 DEF Saver!Load, Saver!Defaults
<1>6. l.window \in {1}
  <2>1. w \in {i \in Int : i < 2}
    BY <1>1, ReadIs
  <2>2. l.window = IF w < 1 THEN 1 ELSE w
    BY DEF Saver!Load
  <2> QED
    BY <2>1, <2>2
<1>7. dsp \in StageStates /\ l.defaults \in StageStates
  BY SectionIs DEF Saver!Load
<1>8. l.dsp \in StageStates
  <2>1. PICK d \in StageStates : d = dsp
    BY <1>7
  <2>2. /\ Saver!Read(kv, "agc_target", d.value) \in Int \cup {None}
        /\ Saver!ReadB(kv, "agc_enabled", d.enabled) \in BOOLEAN
    <3>1. Saver!Read(kv, "agc_target", d.value) \in Int \cup {d.value}
      BY <1>1, ReadIs
    <3>2. d.value \in {None} \cup Int /\ d.enabled \in BOOLEAN
      BY DEF StageStates
    <3> QED
      BY <3>1, <3>2, ReadBIs
  <2>3. Saver!Migrated(kv, d) \in StageStates
    BY <2>2 DEF Saver!Migrated, StageStates
  <2>4. l.dsp = IF kv["schema_version"] < 5 THEN Saver!Migrated(kv, d) ELSE d
    BY <2>1 DEF Saver!Load
  <2> QED
    BY <2>3, <2>4
<1>9. l = [bank |-> l.bank, mask |-> l.mask, block |-> l.block, page |-> l.page,
           glow |-> l.glow, window |-> l.window, dsp |-> l.dsp,
           defaults |-> l.defaults]
  BY DEF Saver!Load
<1>10. l \in Loadings
  <2> HIDE DEF l
  <2> QED
    BY <1>2, <1>3, <1>4, <1>5, <1>6, <1>7, <1>8, <1>9 DEF Loadings
<1> QED
  BY <1>10

\* What the file of a save has behind its keys.
SavedKeys(s) ==
  {"schema_version", "bank_path", "midi_channel_mask", "audio_block_size",
   "config_page", "wave_glow", "window_w", "dsp.enabled", "defaults.enabled"}
    \cup (IF s.dsp.choice >= 0 THEN {"dsp.choice"} ELSE {})
    \cup (IF s.dsp.value # None THEN {"dsp.value"} ELSE {})
    \cup (IF s.defaults.choice >= 0 THEN {"defaults.choice"} ELSE {})
    \cup (IF s.defaults.value # None THEN {"defaults.value"} ELSE {})

Holds(f, s) ==
  /\ DOMAIN f = SavedKeys(s)
  /\ f["schema_version"] = 7
  /\ f["bank_path"] = Saver!Escape(s.bank) \o <<"q">>
  /\ f["midi_channel_mask"] = s.mask
  /\ f["audio_block_size"] = s.block
  /\ f["config_page"] = s.page
  /\ f["wave_glow"] = Saver!Decimal(s.glow)
  /\ f["window_w"] = s.window
  /\ f["dsp.enabled"] = s.dsp.enabled
  /\ f["defaults.enabled"] = s.defaults.enabled
  /\ "dsp.choice" \in DOMAIN f => f["dsp.choice"] = s.dsp.choice
  /\ "dsp.value" \in DOMAIN f => f["dsp.value"] = Saver!Decimal(s.dsp.value)
  /\ "defaults.choice" \in DOMAIN f => f["defaults.choice"] = s.defaults.choice
  /\ "defaults.value" \in DOMAIN f => f["defaults.value"] = Saver!Decimal(s.defaults.value)

LEMMA SavedIs ==
  ASSUME NEW s
  PROVE  Holds(Saver!Saved(s), s)
<1>0. PICK f : f = Saver!Saved(s)
  OBVIOUS
<1>1. DOMAIN f = SavedKeys(s)
  BY <1>0
     DEF Saver!Saved, Saver!SectionKeys, Saver!DspKeys, Saver!DefaultsKeys, SavedKeys
<1>2. ASSUME NEW k \in SavedKeys(s)
      PROVE  f[k] =
               CASE k = "schema_version"    -> 7
                 [] k = "bank_path"         -> Saver!Escape(s.bank) \o <<"q">>
                 [] k = "midi_channel_mask" -> s.mask
                 [] k = "audio_block_size"  -> s.block
                 [] k = "config_page"       -> s.page
                 [] k = "wave_glow"         -> Saver!Decimal(s.glow)
                 [] k = "window_w"          -> s.window
                 [] k = "dsp.enabled"       -> s.dsp.enabled
                 [] k = "dsp.choice"        -> s.dsp.choice
                 [] k = "dsp.value"         -> Saver!Decimal(s.dsp.value)
                 [] k = "defaults.enabled"  -> s.defaults.enabled
                 [] k = "defaults.choice"   -> s.defaults.choice
                 [] k = "defaults.value"    -> Saver!Decimal(s.defaults.value)
  BY <1>0, <1>1 DEF Saver!Saved
<1>3. {"schema_version", "bank_path", "midi_channel_mask", "audio_block_size",
       "config_page", "wave_glow", "window_w", "dsp.enabled", "defaults.enabled"}
        \subseteq SavedKeys(s)
  BY DEF SavedKeys
<1>4. Holds(f, s)
  BY <1>1, <1>2, <1>3 DEF Holds
<1> QED
  BY <1>0, <1>4

LEMMA SavedLegible ==
  ASSUME NEW s \in States
  PROVE  Saver!Legible(Saver!Saved(s))
<1>0. PICK f : f = Saver!Saved(s)
  OBVIOUS
<1>1. Holds(f, s)
  BY <1>0, SavedIs
<1> USE DEF Holds
<1>2. ASSUME NEW k \in DOMAIN f
      PROVE  f[k] \in Saver!ValueOf(k) \/ (f[k] = None /\ k # "bank_path")
  <2>1. k \in SavedKeys(s) /\ s.bank \in Text /\ s.mask \in SUBSET {0, 1}
        /\ s.dsp \in StageStates /\ s.defaults \in StageStates
    BY <1>1, <1>2 DEF States
  <2> USE DEF Saver!ValueOf, Saver!DspKeys, Saver!DefaultsKeys
  <2>2. CASE k = "bank_path"
    <3>1. <<"q">> \in Text
      BY DEF Text, Saver!Characters
    <3>3. Saver!Escape(s.bank) \in Text
      <4>1. Len(s.bank) \in 0 .. Len(s.bank)
        BY <2>1 DEF Text
      <4> QED
        BY <2>1, <4>1, EscapedTypes DEF Saver!Escape
    <3>2. f[k] \in Text
      BY <1>1, <2>2, <3>1, <3>3 DEF Text
    <3>4. Saver!ValueOf("bank_path") = Text
      BY DEF Text
    <3> QED
      BY <2>2, <3>2, <3>4
  <2>3. CASE k = "midi_channel_mask"
    BY <1>1, <2>1, <2>3, ChannelsAre
  <2>4. CASE k \in {"schema_version", "audio_block_size", "config_page", "wave_glow"}
    <3>1. Saver!Decimal(s.glow) \in Int
      BY DecimalIs DEF States
    <3> QED
      BY <1>1, <2>4, <3>1 DEF States
  <2>5. CASE k = "window_w"
    BY <1>1, <2>5 DEF States
  <2>6. CASE k \in {"dsp.enabled", "defaults.enabled"}
    BY <1>1, <2>1, <2>6 DEF StageStates
  <2>7. CASE k \in {"dsp.choice", "defaults.choice"}
    <3>1. f[k] \in Nat
      BY <1>1, <2>1, <2>7 DEF StageStates, SavedKeys
    <3> QED
      BY <2>7, <3>1
  <2>8. CASE k \in {"dsp.value", "defaults.value"}
    <3>1. \A d \in StageStates : d.value # None => Saver!Decimal(d.value) \in Int
      BY DecimalIs DEF StageStates
    <3>2. f[k] \in Int
      BY <1>1, <2>1, <2>8, <3>1 DEF SavedKeys
    <3> QED
      BY <2>8, <3>2
  <2> QED
    BY <2>1, <2>2, <2>3, <2>4, <2>5, <2>6, <2>7, <2>8 DEF SavedKeys
<1> QED
  BY <1>0, <1>2 DEF Saver!Legible

LEMMA SectionBack ==
  ASSUME NEW s \in States
  PROVE  /\ Saver!Section(Saver!Saved(s), Saver!DspKeys) = WrittenStage(s.dsp)
         /\ Saver!Section(Saver!Saved(s), Saver!DefaultsKeys) = WrittenStage(s.defaults)
<1>0. PICK f : f = Saver!Saved(s)
  OBVIOUS
<1>1. Holds(f, s)
  BY <1>0, SavedIs
<1> USE DEF Holds
<1>2. s.dsp \in StageStates /\ s.defaults \in StageStates
  BY DEF States
<1>3. /\ Saver!ReadB(f, "dsp.enabled", FALSE) = s.dsp.enabled
      /\ Saver!Read(f, "dsp.choice", -1) = s.dsp.choice
      /\ Saver!Read(f, "dsp.value", None) = WrittenStage(s.dsp).value
  <2>1. PICK d \in StageStates : d = s.dsp
    BY <1>2
  <2>2. /\ d.enabled \in BOOLEAN /\ d.enabled # None
        /\ d.choice \in {-1} \cup Nat /\ d.choice # None
    BY SaverAssumption DEF StageStates
  <2>3. Saver!ReadB(f, "dsp.enabled", FALSE) = d.enabled
    BY <1>1, <2>1, <2>2 DEF Saver!ReadB, SavedKeys
  <2>4. Saver!Read(f, "dsp.choice", -1) = d.choice
    <3>1. "dsp.choice" \in DOMAIN f <=> d.choice >= 0
      BY <1>1, <2>1 DEF SavedKeys
    <3>2. d.choice = -1 \/ d.choice >= 0
      BY <2>2
    <3>3. "dsp.choice" \in DOMAIN f => f["dsp.choice"] = d.choice
      BY <1>1, <2>1
    <3> QED
      BY <2>2, <3>1, <3>2, <3>3 DEF Saver!Read
  <2>5. Saver!Read(f, "dsp.value", None) = WrittenStage(d).value
    <3>1. "dsp.value" \in DOMAIN f <=> d.value # None
      BY <1>1, <2>1 DEF SavedKeys
    <3>2. "dsp.value" \in DOMAIN f => f["dsp.value"] = Saver!Decimal(d.value)
      BY <1>1, <2>1
    <3>3. WrittenStage(d).value = IF d.value = None THEN None ELSE Saver!Decimal(d.value)
      BY DEF WrittenStage, StageStates
    <3>4. d.value # None => Saver!Decimal(d.value) # None
      BY DecimalIs, SaverAssumption DEF StageStates
    <3> QED
      BY <3>1, <3>2, <3>3, <3>4 DEF Saver!Read
  <2> QED
    BY <2>1, <2>3, <2>4, <2>5
<1>4. /\ Saver!ReadB(f, "defaults.enabled", FALSE) = s.defaults.enabled
      /\ Saver!Read(f, "defaults.choice", -1) = s.defaults.choice
      /\ Saver!Read(f, "defaults.value", None) = WrittenStage(s.defaults).value
  <2>1. PICK d \in StageStates : d = s.defaults
    BY <1>2
  <2>2. /\ d.enabled \in BOOLEAN /\ d.enabled # None
        /\ d.choice \in {-1} \cup Nat /\ d.choice # None
    BY SaverAssumption DEF StageStates
  <2>3. Saver!ReadB(f, "defaults.enabled", FALSE) = d.enabled
    BY <1>1, <2>1, <2>2 DEF Saver!ReadB, SavedKeys
  <2>4. Saver!Read(f, "defaults.choice", -1) = d.choice
    <3>1. "defaults.choice" \in DOMAIN f <=> d.choice >= 0
      BY <1>1, <2>1 DEF SavedKeys
    <3>2. d.choice = -1 \/ d.choice >= 0
      BY <2>2
    <3>3. "defaults.choice" \in DOMAIN f => f["defaults.choice"] = d.choice
      BY <1>1, <2>1
    <3> QED
      BY <2>2, <3>1, <3>2, <3>3 DEF Saver!Read
  <2>5. Saver!Read(f, "defaults.value", None) = WrittenStage(d).value
    <3>1. "defaults.value" \in DOMAIN f <=> d.value # None
      BY <1>1, <2>1 DEF SavedKeys
    <3>2. "defaults.value" \in DOMAIN f => f["defaults.value"] = Saver!Decimal(d.value)
      BY <1>1, <2>1
    <3>3. WrittenStage(d).value = IF d.value = None THEN None ELSE Saver!Decimal(d.value)
      BY DEF WrittenStage, StageStates
    <3>4. d.value # None => Saver!Decimal(d.value) # None
      BY DecimalIs, SaverAssumption DEF StageStates
    <3> QED
      BY <3>1, <3>2, <3>3, <3>4 DEF Saver!Read
  <2> QED
    BY <2>1, <2>3, <2>4, <2>5
<1>5. ASSUME NEW d \in StageStates
      PROVE  WrittenStage(d) = [enabled |-> d.enabled, choice |-> d.choice,
                                value |-> WrittenStage(d).value]
  BY WrittenStageIs
<1>6. Saver!Section(f, Saver!DspKeys) = WrittenStage(s.dsp)
  BY <1>2, <1>3, <1>5 DEF Saver!Section, Saver!DspKeys
<1>7. Saver!Section(f, Saver!DefaultsKeys) = WrittenStage(s.defaults)
  BY <1>2, <1>4, <1>5 DEF Saver!Section, Saver!DefaultsKeys
<1> QED
  BY <1>0, <1>6, <1>7

\* A state with another page and other numbers, field by field.
Refill(s, p, g, d, e) ==
  [s EXCEPT !.page = p, !.window = 1, !.glow = g, !.dsp = d, !.defaults = e]

LEMMA Refilled ==
  ASSUME NEW s \in States, NEW p, NEW g, NEW d, NEW e
  PROVE  Refill(s, p, g, d, e)
           = [bank |-> s.bank, mask |-> s.mask, block |-> s.block, page |-> p,
              glow |-> g, window |-> 1, dsp |-> d, defaults |-> e]
<1>1. PICK a : a = [s EXCEPT !.page = p]
  OBVIOUS
<1>2. a = [bank |-> s.bank, mask |-> s.mask, block |-> s.block, page |-> p,
           glow |-> s.glow, window |-> s.window, dsp |-> s.dsp, defaults |-> s.defaults]
  BY <1>1 DEF States
<1>3. PICK b : b = [a EXCEPT !.window = 1]
  OBVIOUS
<1>4. b = [bank |-> s.bank, mask |-> s.mask, block |-> s.block, page |-> p,
           glow |-> s.glow, window |-> 1, dsp |-> s.dsp, defaults |-> s.defaults]
  BY <1>2, <1>3
<1>5. PICK c : c = [b EXCEPT !.glow = g]
  OBVIOUS
<1>6. c = [bank |-> s.bank, mask |-> s.mask, block |-> s.block, page |-> p,
           glow |-> g, window |-> 1, dsp |-> s.dsp, defaults |-> s.defaults]
  BY <1>4, <1>5
<1>7. PICK x : x = [c EXCEPT !.dsp = d]
  OBVIOUS
<1>8. x = [bank |-> s.bank, mask |-> s.mask, block |-> s.block, page |-> p,
           glow |-> g, window |-> 1, dsp |-> d, defaults |-> s.defaults]
  BY <1>6, <1>7
<1>9. [x EXCEPT !.defaults = e]
        = [bank |-> s.bank, mask |-> s.mask, block |-> s.block, page |-> p,
           glow |-> g, window |-> 1, dsp |-> d, defaults |-> e]
  BY <1>8
<1> QED
  BY <1>1, <1>3, <1>5, <1>7, <1>9 DEF Refill

LEMMA WrittenIs ==
  ASSUME NEW s \in States
  PROVE  Written(s)
           = [bank |-> s.bank, mask |-> s.mask, block |-> s.block, page |-> s.page,
              glow |-> Saver!Decimal(s.glow), window |-> 1,
              dsp |-> WrittenStage(s.dsp), defaults |-> WrittenStage(s.defaults)]
<1>1. PICK g, d, e : /\ g = Saver!Decimal(s.glow)
                     /\ d = WrittenStage(s.dsp) /\ e = WrittenStage(s.defaults)
  OBVIOUS
<1>2. PICK a : a = [s EXCEPT !.window = 1]
  OBVIOUS
<1>3. a = [bank |-> s.bank, mask |-> s.mask, block |-> s.block, page |-> s.page,
           glow |-> s.glow, window |-> 1, dsp |-> s.dsp, defaults |-> s.defaults]
  BY <1>2 DEF States
<1>4. PICK b : b = [a EXCEPT !.glow = g]
  OBVIOUS
<1>5. b = [bank |-> s.bank, mask |-> s.mask, block |-> s.block, page |-> s.page,
           glow |-> g, window |-> 1, dsp |-> s.dsp, defaults |-> s.defaults]
  BY <1>3, <1>4
<1>6. PICK c : c = [b EXCEPT !.dsp = d]
  OBVIOUS
<1>7. c = [bank |-> s.bank, mask |-> s.mask, block |-> s.block, page |-> s.page,
           glow |-> g, window |-> 1, dsp |-> d, defaults |-> s.defaults]
  BY <1>5, <1>6
<1>8. [c EXCEPT !.defaults = e]
        = [bank |-> s.bank, mask |-> s.mask, block |-> s.block, page |-> s.page,
           glow |-> g, window |-> 1, dsp |-> d, defaults |-> e]
  BY <1>7
<1> QED
  BY <1>1, <1>2, <1>4, <1>6, <1>8 DEF Written

\* A save that is loaded is the state it was made from, the window restored and
\* the numbers as they were written.
LEMMA LoadBack ==
  ASSUME NEW s \in States
  PROVE  /\ Saver!Loadable(Saver!Saved(s))
         /\ Saver!Load(Saver!Saved(s)) = Written(s)
<1>0. PICK f : f = Saver!Saved(s)
  OBVIOUS
<1>1. Holds(f, s)
  BY <1>0, SavedIs
<1> USE DEF Holds
<1>2. Saver!Loadable(f)
  BY <1>1 DEF Saver!Loadable, SavedKeys
<1> DEFINE l == Saver!Load(f)
<1>3. l.bank = s.bank
  <2>1. "bank_path" \in DOMAIN f
    BY <1>1 DEF SavedKeys
  <2>2. l.bank = Saver!Decode(f["bank_path"])
    BY <2>1 DEF Saver!Load
  <2>3. s.bank \in Text
    BY DEF States
  <2> QED
    BY <1>1, <2>2, <2>3, TextComesBack
<1>4. l.mask = s.mask
  <2>1. s.mask # None
    BY SaverAssumption, ChannelsAre DEF States
  <2>2. Saver!Read(f, "midi_channel_mask", None) = s.mask
    BY <1>1, <2>1 DEF Saver!Read, SavedKeys
  <2>3. l.mask = Saver!MaskOf(f)
    BY DEF Saver!Load
  <2> QED
    BY <2>1, <2>2, <2>3 DEF Saver!MaskOf
<1>5. l.block = s.block /\ l.page = s.page
  <2>1. s.block # None /\ s.page # None
    BY SaverAssumption DEF States
  <2>2. ASSUME NEW d PROVE /\ Saver!Read(f, "audio_block_size", d) = s.block
                           /\ Saver!Read(f, "config_page", d) = s.page
    BY <1>1, <2>1 DEF Saver!Read, SavedKeys
  <2> QED
    BY <2>2 DEF Saver!Load
<1>6. l.glow = Saver!Decimal(s.glow)
  <2>1. PICK g \in 0 .. 3 : g = Saver!Decimal(s.glow)
    BY DecimalWithin DEF States
  <2>2. g # None
    BY SaverAssumption
  <2>3. ASSUME NEW d PROVE Saver!Read(f, "wave_glow", d) = g
    BY <1>1, <2>1, <2>2 DEF Saver!Read, SavedKeys
  <2>4. Saver!Sane(g) = g
    BY DEF Saver!Sane, Saver!Clamp, Saver!Least, Saver!GlowMax
  <2>5. l.glow = Saver!Sane(Saver!Read(f, "wave_glow", Saver!Defaults.glow))
    BY DEF Saver!Load
  <2> QED
    BY <2>1, <2>3, <2>4, <2>5
<1>7. l.window = 1
  <2>1. l \in Loadings
    BY <1>0, SavedLegible, LoadIs
  <2> HIDE DEF l
  <2> QED
    BY <2>1 DEF Loadings
<1>8. l.dsp = WrittenStage(s.dsp) /\ l.defaults = WrittenStage(s.defaults)
  <2>1. ~(f["schema_version"] < 5)
    BY <1>1
  <2> QED
    BY <1>0, <2>1, SectionBack DEF Saver!Load
<1>9. l \in Loadings
  BY <1>0, SavedLegible, LoadIs
<1> HIDE DEF l
<1>10. l = [bank |-> l.bank, mask |-> l.mask, block |-> l.block, page |-> l.page,
            glow |-> l.glow, window |-> l.window, dsp |-> l.dsp,
            defaults |-> l.defaults]
  BY <1>9 DEF Loadings
<1>11. Written(s)
         = [bank |-> s.bank, mask |-> s.mask, block |-> s.block, page |-> s.page,
            glow |-> Saver!Decimal(s.glow), window |-> 1,
            dsp |-> WrittenStage(s.dsp), defaults |-> WrittenStage(s.defaults)]
  BY WrittenIs
<1>12. l = Written(s)
  BY <1>3, <1>4, <1>5, <1>6, <1>7, <1>8, <1>10, <1>11
<1> QED
  BY <1>0, <1>2, <1>12 DEF l

-----------------------------------------------------------------------------
(* Settings: every step keeps what the next start relies on.               *)

\* The last completed save is what stands in the file, and its stage is one
\* that set() leaves alone; from the end of a frame to the end of the save the
\* state mirrors the stage; a temporary file that is renamed holds the state.
KeptInv ==
  /\ st \in States /\ stage \in Stages /\ edits \in Nat
  /\ Saver!Legible(json)
  /\ kept # None =>
       kept \in States /\ kept.dsp \in Stages /\ json = Saver!Saved(kept)
  /\ at \in {"open", "good", "short"} => st.dsp = stage
  /\ at = "good" => jsonTmp = Saver!Saved(st)

LEMMA DefaultsAre ==
  /\ Saver!Defaults \in Loadings /\ Saver!Defaults \in States
  /\ Saver!Factory \in Stages
<1>1. Saver!Blank \in StageStates
  BY DEF Saver!Blank, StageStates
<1>2. Saver!Factory \in Stages
  BY DEF Saver!Factory, Stages
<1>3. <<>> \in Text
  BY DEF Text
<1> QED
  BY <1>1, <1>2, <1>3, ChannelsAre DEF Saver!Defaults, Loadings, States

\* What main() does with what it has loaded.
LEMMA RunsWith ==
  ASSUME NEW loaded \in Loadings, NEW glow \in {None, 2, 4}
  PROVE  LET s == Saver!Validated(Saver!Override(loaded, glow))
         IN  /\ s \in States /\ s.dsp = loaded.dsp
             /\ Saver!PageChecked(s) \in States
<1> DEFINE o == Saver!Override(loaded, glow)
           s == Saver!Validated(o)
<1>1. o \in Loadings /\ o.dsp = loaded.dsp
  BY DEF Saver!Override, Saver!Sane, Saver!Clamp, Saver!Least, Saver!GlowMax, Loadings
<1> HIDE DEF o
<1>2. Saver!Clamp(o.block, 2, 3) \in {2, 3}
  <2>1. o.block \in Int
    BY <1>1 DEF Loadings
  <2> QED
    BY <2>1 DEF Saver!Clamp, Saver!Least
<1>3. s = [o EXCEPT !.block = Saver!Clamp(o.block, 2, 3)]
  BY DEF Saver!Validated, Saver!BlockMin, Saver!BlockMax
<1> HIDE DEF s
<1>4. s \in States /\ s.dsp = o.dsp
  BY <1>1, <1>2, <1>3 DEF Loadings, States
<1>5. Saver!PageChecked(s) \in States
  BY <1>4 DEF Saver!PageChecked, States
<1> QED
  BY <1>1, <1>4, <1>5 DEF s, o

\* set() clamps what the page takes over.
LEMMA StageFrom ==
  ASSUME NEW d \in StageStates
  PROVE  /\ Saver!Apply(d, Saver!Factory) \in Stages
         /\ d \in Stages => Saver!Apply(d, Saver!Factory) = d /\ d # Saver!Blank
<1> DEFINE a == Saver!Apply(d, Saver!Factory)
<1>1. a.enabled = d.enabled /\ d.enabled \in BOOLEAN
  BY DEF Saver!Apply, StageStates
<1>2. a.choice = IF d.choice \in 0 .. 1 THEN d.choice ELSE 0
  BY DEF Saver!Apply, Saver!StageChoices, Saver!Factory
<1>3. a.value = IF d.value = None THEN 0 ELSE Saver!Clamp(d.value, 0, 3)
  BY DEF Saver!Apply, Saver!KnobMax, Saver!Factory
<1>4. a = [enabled |-> a.enabled, choice |-> a.choice, value |-> a.value]
  BY DEF Saver!Apply
<1>5. PICK v \in {None} \cup Int : v = d.value
  BY DEF StageStates
<1> HIDE DEF a
<1>6. a.value \in 0 .. 3
  BY <1>3, <1>5 DEF Saver!Clamp, Saver!Least
<1>7. a \in Stages
  BY <1>1, <1>2, <1>4, <1>6 DEF Stages
<1>8. ASSUME d \in Stages
      PROVE  a = d /\ d # Saver!Blank
  <2>1. d.choice \in 0 .. 1 /\ v \in 0 .. 3
    BY <1>5, <1>8 DEF Stages
  <2>2. Saver!Clamp(v, 0, 3) = v /\ v # None
    BY <2>1, SaverAssumption DEF Saver!Clamp, Saver!Least
  <2>3. a = [enabled |-> d.enabled, choice |-> d.choice, value |-> d.value]
    BY <1>1, <1>2, <1>3, <1>4, <1>5, <2>1, <2>2
  <2>4. d = [enabled |-> d.enabled, choice |-> d.choice, value |-> d.value]
    BY DEF StageStates
  <2>5. Saver!Blank.choice = -1
    BY DEF Saver!Blank
  <2> QED
    BY <2>1, <2>3, <2>4, <2>5
<1> QED
  BY <1>7, <1>8 DEF a

LEMMA StartKeeps ==
  ASSUME KeptInv, Saver!Start
  PROVE  KeptInv'
<1> DEFINE loaded == IF Saver!Loadable(json) THEN Saver!Load(json) ELSE Saver!Defaults
<1>1. loaded \in Loadings
  BY LoadIs, DefaultsAre DEF KeptInv
<1>2. PICK glow \in {None, 2, 4} :
        LET s == Saver!Validated(Saver!Override(loaded, glow))
        IN  /\ edits' = IF glow = None THEN edits ELSE edits + 1
            /\ stage' = IF loaded.dsp = Saver!Blank THEN Saver!Factory
                        ELSE Saver!Apply(s.dsp, Saver!Factory)
            /\ st' = Saver!PageChecked(s)
  BY DEF Saver!Start, Saver!GlowMax
<1> HIDE DEF loaded
<1>3. st' \in States
  BY <1>1, <1>2, RunsWith
<1>4. stage' \in Stages
  <2>1. loaded.dsp \in StageStates
    BY <1>1 DEF Loadings
  <2> QED
    BY <1>1, <1>2, <2>1, RunsWith, StageFrom, DefaultsAre
<1>5. edits' \in Nat
  BY <1>2 DEF KeptInv
<1>6. UNCHANGED <<json, jsonTmp, kept>> /\ at' = "frame"
  BY DEF Saver!Start, Saver!disk
<1> QED
  BY <1>3, <1>4, <1>5, <1>6 DEF KeptInv

LEMMA EditKeeps ==
  ASSUME KeptInv, Saver!Edit
  PROVE  KeptInv'
<1> USE DEF KeptInv
<1>1. /\ at' = "frame" /\ edits' = edits + 1
      /\ UNCHANGED <<json, jsonTmp, kept>>
  BY DEF Saver!Edit, Saver!disk
<1>2. st' \in States /\ stage' \in Stages
  <2>1. CASE Saver!PickTab
    <3>1. PICK p \in 0 .. Tabs - 1 : st' = [st EXCEPT !.page = p]
      BY <2>1 DEF Saver!PickTab
    <3>2. p \in Int
      OBVIOUS
    <3> QED
      BY <2>1, <3>1, <3>2 DEF Saver!PickTab, States
  <2>2. CASE Saver!PickSetting
    <3>1. CASE \E text \in Texts : st' = [st EXCEPT !.bank = text]
      BY <2>2, <3>1, SaverAssumption DEF Saver!PickSetting, States, Text
    <3>2. CASE \E c \in {0, 1} : st' = [st EXCEPT !.mask = (@ \ {c}) \cup ({c} \ @)]
      <4>1. PICK c \in {0, 1} :
              st' = [st EXCEPT !.mask = (st.mask \ {c}) \cup ({c} \ st.mask)]
        BY <3>2
      <4>2. (st.mask \ {c}) \cup ({c} \ st.mask) \in SUBSET {0, 1}
        BY DEF States
      <4>3. UNCHANGED stage
        BY <2>2 DEF Saver!PickSetting
      <4>4. PICK m \in SUBSET {0, 1} : m = (st.mask \ {c}) \cup ({c} \ st.mask)
        BY <4>2
      <4>5. [st EXCEPT !.mask = m] \in States
        BY DEF States
      <4> QED
        BY <4>1, <4>3, <4>4, <4>5
    <3>3. CASE \E n \in {2, 3} : st' = [st EXCEPT !.block = n]
      BY <2>2, <3>3 DEF Saver!PickSetting, States
    <3> QED
      BY <2>2, <3>1, <3>2, <3>3, ChannelsAre
         DEF Saver!PickSetting, Saver!BlockMin, Saver!BlockMax
  <2>3. CASE Saver!TurnKnob
    <3>1. \/ \E v \in 0 .. 3 : stage' = [stage EXCEPT !.value = v]
          \/ stage' = [stage EXCEPT !.enabled = ~stage.enabled]
          \/ \E c \in 0 .. 2 - 1 : stage' = [stage EXCEPT !.choice = c]
      BY <2>3 DEF Saver!TurnKnob, Saver!KnobMax, Saver!StageChoices
    <3>2. /\ \A v \in 0 .. 3 : [stage EXCEPT !.value = v] \in Stages
          /\ \A c \in 0 .. 1 : [stage EXCEPT !.choice = c] \in Stages
      BY DEF Stages
    <3>3. [stage EXCEPT !.enabled = ~stage.enabled] \in Stages
      BY DEF Stages
    <3>4. stage' \in Stages
      BY <3>1, <3>2, <3>3
    <3> QED
      BY <2>3, <3>4 DEF Saver!TurnKnob
  <2>4. CASE Saver!SetUserProfile
    BY <2>4, StagesAre DEF Saver!SetUserProfile, States
  <2>5. CASE Saver!ResetToFactory
    <3>1. stage' \in Stages
      BY <2>5 DEF Saver!ResetToFactory, Stages
    <3> QED
      BY <2>5, <3>1, StagesAre DEF Saver!ResetToFactory, States
  <2>6. CASE Saver!MoveWindow
    <3>1. PICK w \in {0, 1} : w = st.window
      BY DEF States
    <3>2. st' = [st EXCEPT !.window = 1 - w]
      BY <2>6, <3>1 DEF Saver!MoveWindow
    <3>3. 1 - w \in {0, 1}
      OBVIOUS
    <3> QED
      BY <2>6, <3>2, <3>3 DEF Saver!MoveWindow, States
  <2> QED
    BY <2>1, <2>2, <2>3, <2>4, <2>5, <2>6 DEF Saver!Edit
<1> QED
  BY <1>1, <1>2

LEMMA MirrorKeeps ==
  ASSUME KeptInv, Saver!EndFrame \/ Saver!Quit
  PROVE  KeptInv'
<1> USE DEF KeptInv
<1>1. /\ st' \in States /\ st'.dsp = stage
  <2>1. Saver!Mirrored \in States /\ Saver!Mirrored.dsp = stage
    BY StagesAre DEF Saver!Mirrored, States
  <2>2. CASE Saver!EndFrame
    BY <2>1, <2>2 DEF Saver!EndFrame
  <2>3. CASE Saver!Quit
    <3>1. st' = [Saver!Mirrored EXCEPT !.defaults = stage]
      BY <2>3 DEF Saver!Quit
    <3> QED
      BY <2>1, <3>1, StagesAre DEF States
  <2> QED
    BY <2>2, <2>3
<1>2. /\ at' \in {"open", "frame"}
      /\ UNCHANGED <<stage, json, jsonTmp, kept, edits>>
  BY DEF Saver!EndFrame, Saver!Quit, Saver!disk
<1> QED
  BY <1>1, <1>2

\* A save, or the process, comes to an end: what the state promises of the file
\* does not depend on it.
LEMMA EndKeepsFile ==
  ASSUME KeptInv, NEW done \in BOOLEAN, Saver!SaveReturns(done) \/ Saver!Gone
  PROVE  st' \in States /\ stage' \in Stages /\ at' \in {"off", "frame"}
BY DefaultsAre DEF Saver!SaveReturns, Saver!Gone, Saver!memory, KeptInv

LEMMA SaveKeeps ==
  ASSUME KeptInv,
         \/ Saver!CannotOpen \/ Saver!WriteTmp \/ Saver!DropShort
         \/ Saver!RenameOk \/ Saver!RenameFails \/ Saver!Crash
  PROVE  KeptInv'
<1>1. CASE Saver!CannotOpen \/ Saver!DropShort \/ Saver!RenameFails \/ Saver!Crash
  <2>1. st' \in States /\ stage' \in Stages /\ at' \in {"off", "frame"}
    BY <1>1, EndKeepsFile
       DEF Saver!CannotOpen, Saver!DropShort, Saver!RenameFails, Saver!Crash
  <2>2. UNCHANGED <<json, kept, edits>>
    BY <1>1 DEF Saver!CannotOpen, Saver!DropShort, Saver!RenameFails, Saver!Crash,
                Saver!disk
  <2> QED
    BY <2>1, <2>2 DEF KeptInv
<1>2. CASE Saver!WriteTmp
  BY <1>2 DEF Saver!WriteTmp, Saver!memory, KeptInv
<1>3. CASE Saver!RenameOk
  <2>1. st' \in States /\ stage' \in Stages /\ at' \in {"off", "frame"}
    BY <1>3, EndKeepsFile DEF Saver!RenameOk
  <2>2. json' = Saver!Saved(st) /\ kept' = st /\ edits' = edits
    BY <1>3 DEF Saver!RenameOk, KeptInv
  <2>3. Saver!Legible(json')
    BY <2>2, SavedLegible DEF KeptInv
  <2>4. st \in States /\ st.dsp \in Stages
    BY <1>3 DEF Saver!RenameOk, KeptInv
  <2> QED
    BY <2>1, <2>2, <2>3, <2>4 DEF KeptInv
<1> QED
  BY <1>1, <1>2, <1>3

LEMMA KeptStep == KeptInv /\ [Saver!Next]_(Saver!vars) => KeptInv'
<1>1. CASE UNCHANGED Saver!vars
  BY <1>1 DEF Saver!vars, Saver!memory, Saver!disk, KeptInv
<1> QED
  BY <1>1, StartKeeps, EditKeeps, MirrorKeeps, SaveKeeps DEF Saver!Next

\* What a start after a save finds: all but the page is as it was written.
Found(s) ==
  /\ edits' = edits => st' = [Written(s) EXCEPT !.page = st'.page]
  /\ stage' = WrittenStage(s.dsp)

LEMMA StartFinds ==
  ASSUME KeptInv, Saver!Start, kept # None
  PROVE  Found(kept)
<1>1. PICK k \in States : k = kept /\ k.dsp \in Stages /\ json = Saver!Saved(k)
  BY DEF KeptInv
<1>2. PICK loaded : loaded = Written(k)
  OBVIOUS
<1>3. loaded = IF Saver!Loadable(json) THEN Saver!Load(json) ELSE Saver!Defaults
  BY <1>1, <1>2, LoadBack
<1>4. loaded \in Loadings /\ loaded.dsp = WrittenStage(k.dsp) /\ loaded.block = k.block
  <2>1. loaded \in Loadings
    BY <1>1, <1>2, LoadBack, LoadIs, SavedLegible
  <2> QED
    BY <1>2, <2>1 DEF Written, States
<1>5. PICK glow \in {None, 2, 4} :
        LET s == Saver!Validated(Saver!Override(loaded, glow))
        IN  /\ edits' = IF glow = None THEN edits ELSE edits + 1
            /\ stage' = IF loaded.dsp = Saver!Blank THEN Saver!Factory
                        ELSE Saver!Apply(s.dsp, Saver!Factory)
            /\ st' = Saver!PageChecked(s)
  BY <1>3 DEF Saver!Start, Saver!GlowMax
<1>6. stage' = WrittenStage(k.dsp)
  <2>1. WrittenStage(k.dsp) \in StageStates /\ WrittenStage(k.dsp) \in Stages
    BY <1>1, StagesAre, WrittenStageIs
  <2> QED
    BY <1>1, <1>4, <1>5, <2>1, RunsWith, StageFrom
<1>7. ASSUME edits' = edits
      PROVE  st' = [loaded EXCEPT !.page = st'.page]
  <2>1. glow = None
    BY <1>5, <1>7 DEF KeptInv
  <2>2. Saver!Override(loaded, glow) = loaded
    BY <2>1 DEF Saver!Override
  <2>3. Saver!Clamp(loaded.block, 2, 3) = loaded.block
    <3>1. PICK n \in {2, 3} : n = loaded.block
      BY <1>4 DEF States
    <3>2. Saver!Clamp(n, 2, 3) = n
      BY DEF Saver!Clamp, Saver!Least
    <3> QED
      BY <3>1, <3>2
  <2>4. Saver!Validated(loaded) = loaded
    BY <1>4, <2>3 DEF Saver!Validated, Saver!BlockMin, Saver!BlockMax, Loadings
  <2>5. st' = Saver!PageChecked(loaded)
    BY <1>5, <2>2, <2>4
  <2> QED
    BY <1>4, <2>5 DEF Saver!PageChecked, Loadings
<1> QED
  BY <1>1, <1>2, <1>6, <1>7 DEF Found

\* A state that comes back as it was written is the one that was saved, each of
\* its numbers told.
Back(s) ==
  /\ edits' = edits =>
       /\ st' = [s EXCEPT !.page = st'.page, !.window = 1, !.glow = st'.glow,
                          !.dsp = st'.dsp, !.defaults = st'.defaults]
       /\ Saver!Told(st'.glow, s.glow)
       /\ Saver!SameStage(st'.dsp, s.dsp)
       /\ Saver!SameStage(st'.defaults, s.defaults)
  /\ Saver!SameStage(stage', s.dsp)

LEMMA FoundIsBack ==
  ASSUME NEW s \in States, Found(s)
  PROVE  Back(s)
<1>1. s.dsp \in StageStates /\ s.defaults \in StageStates
  BY DEF States
<1>2. /\ Saver!SameStage(WrittenStage(s.dsp), s.dsp)
      /\ Saver!SameStage(WrittenStage(s.defaults), s.defaults)
  BY <1>1, WrittenStageIs
<1>3. Saver!Told(Saver!Decimal(s.glow), s.glow)
  <2>1. PICK g \in 0 .. 3 : g = s.glow
    BY DEF States
  <2>2. g \in Int /\ g # None
    BY SaverAssumption
  <2> QED
    BY <2>1, <2>2, DecimalIs DEF Saver!Told
<1>4. ASSUME edits' = edits
      PROVE  /\ st' = [s EXCEPT !.page = st'.page, !.window = 1, !.glow = st'.glow,
                                !.dsp = st'.dsp, !.defaults = st'.defaults]
             /\ st'.glow = Saver!Decimal(s.glow) /\ st'.dsp = WrittenStage(s.dsp)
             /\ st'.defaults = WrittenStage(s.defaults)
  <2>1. st' = [Written(s) EXCEPT !.page = st'.page]
    BY <1>4 DEF Found
  <2>2. PICK p, g, d, e : /\ p = st'.page /\ g = Saver!Decimal(s.glow)
                          /\ d = WrittenStage(s.dsp) /\ e = WrittenStage(s.defaults)
    OBVIOUS
  <2>3. st' = [bank |-> s.bank, mask |-> s.mask, block |-> s.block, page |-> p,
               glow |-> g, window |-> 1, dsp |-> d, defaults |-> e]
    BY <2>1, <2>2, WrittenIs
  <2>4. st'.glow = g /\ st'.dsp = d /\ st'.defaults = e
    BY <2>3
  <2>5. st' = Refill(s, p, g, d, e)
    BY <2>3, Refilled
  <2> QED
    BY <2>2, <2>4, <2>5 DEF Refill
<1> QED
  BY <1>2, <1>3, <1>4 DEF Back, Found

\* However saves fail, fill the disk or are cut by a crash, a start comes up with
\* what the last completed save held, every number within the digits it is
\* written with: no text is changed by escaping it and reading it back, no field
\* is lost with another, and no number moves twice.
THEOREM SettingsAreKept == Saver!Spec => SettingsKept
<1>1. Saver!Init => KeptInv
  BY DefaultsAre, SaverAssumption DEF Saver!Init, KeptInv
<1>2. KeptInv /\ [Saver!Next]_(Saver!vars)
        => [(at = "off" /\ at' = "frame" /\ kept # None) => Back(kept)]_(Saver!vars)
  <2> SUFFICES ASSUME KeptInv, Saver!Next, at = "off", at' = "frame", kept # None
               PROVE  Back(kept)
    OBVIOUS
  <2>1. Saver!Start
    BY DEF Saver!Next, Saver!Edit, Saver!EndFrame, Saver!Quit, Saver!CannotOpen,
           Saver!WriteTmp, Saver!DropShort, Saver!RenameOk, Saver!RenameFails,
           Saver!Crash
  <2>2. kept \in States
    BY DEF KeptInv
  <2> QED
    BY <2>1, <2>2, StartFinds, FoundIsBack
<1> QED
  BY <1>1, <1>2, KeptStep, PTL DEF Saver!Spec, SettingsKept, Saver!SettingsKept, Back

-----------------------------------------------------------------------------
(* Panel: from a request to its report.                                    *)

Marks == [cut : BOOLEAN, unlicensed : BOOLEAN]

\* Where the thread is decides what may be read: the mark is up while it works;
\* what it leaves behind, once it has loaded, is about the bank it was sent for.
ReloadInv ==
  /\ thread \in {"none", "load", "store", "tell", "leave", "over"}
  /\ inProgress \in BOOLEAN /\ donePending \in BOOLEAN
  /\ inProgress <=> thread \in {"load", "store", "tell", "leave"}
  /\ dir \in Screen!Dirs \cup {None}
  /\ flags \in Marks /\ progress \in Marks
  /\ thread # "none" => dir # None
  /\ thread = "load" => progress = Screen!Nothing
  /\ dir # None /\ thread # "load" =>
       /\ progress.cut = (OutcomeOf[dir] = "cut")
       /\ progress.unlicensed = (OutcomeOf[dir] = "unlicensed")
       /\ (bank # None) = Screen!Good(dir)
  /\ dir # None /\ thread \in {"tell", "leave", "over", "none"} => ok = Screen!Good(dir)

\* What the panel shows once the report has been taken, and the layer once it
\* has been acted upon.
ShownInv ==
  dir # None /\ thread \in {"leave", "over", "none"} /\ ~donePending =>
    /\ flags.cut = (OutcomeOf[dir] = "cut")
    /\ flags.unlicensed => OutcomeOf[dir] = "unlicensed"
    /\ gPc # "told" => (Screen!Good(dir) => layer # "default")

\* A layer that has left its default does not come back to it, so that a
\* change within a frame is still one at its end.
LayerInv ==
  /\ layer \in {"default", "third", "user"}
  /\ layerAge \in Nat \cup {None}
  /\ gPc \in {"boot", "input"} => layer = prevLayer
  /\ layer = "default" => prevLayer = "default"
  /\ layerAge = None /\ layer = prevLayer => asked = layer

\* The reel stands on a bank, or on the first row of an empty list.
ReelInv ==
  /\ path \in Screen!Dirs \cup {None}
  /\ DOMAIN reel = {"pos", "target", "dragging", "armed"}
  /\ {reel.pos, reel.target} \subseteq DOMAIN Banks \cup {1}

BootInv ==
  /\ gPc = "boot" => thread = "none" /\ dir = None
  /\ thread = "none" /\ dir # None => gPc \in {"close", "gone"}

PanelInv == ReloadInv /\ ShownInv /\ LayerInv /\ ReelInv /\ BootInv

LEMMA ThreadKeeps ==
  ASSUME PanelInv, Screen!Thread
  PROVE  PanelInv'
<1> USE ScreenAssumption DEF PanelInv, Marks, Screen!gui, Screen!layers
<1>0. LayerInv' /\ ReelInv'
  BY DEF Screen!Thread, Screen!LoadBank, Screen!StoreOk, Screen!TellDone,
       Screen!ClearProgress, LayerInv, ReelInv
<1>1. CASE Screen!LoadBank
  <2>1. progress' = Screen!Raised(Screen!Nothing, dir)
    BY <1>1 DEF Screen!LoadBank, ReloadInv
  <2>2. /\ progress' \in Marks
        /\ progress'.cut = (OutcomeOf[dir] = "cut")
        /\ progress'.unlicensed = (OutcomeOf[dir] = "unlicensed")
    BY <2>1 DEF Screen!Raised, Screen!Nothing
  <2>3. ReloadInv'
    BY <1>1, <2>2 DEF Screen!LoadBank, ReloadInv, Screen!Good
  <2> QED
    BY <1>0, <1>1, <2>3 DEF Screen!LoadBank, ShownInv, BootInv
<1>2. CASE Screen!StoreOk
  BY <1>0, <1>2 DEF Screen!StoreOk, ReloadInv, ShownInv, BootInv
<1>3. CASE Screen!TellDone
  BY <1>0, <1>3 DEF Screen!TellDone, ReloadInv, ShownInv, BootInv
<1>4. CASE Screen!ClearProgress
  BY <1>0, <1>4 DEF Screen!ClearProgress, ReloadInv, ShownInv, BootInv, Screen!Good
<1> QED
  BY <1>1, <1>2, <1>3, <1>4 DEF Screen!Thread

\* A request, or its refusal, whatever it is for.
LEMMA RequestKeeps ==
  ASSUME ReloadInv, ShownInv, NEW d \in Screen!Dirs, Screen!Request(d),
         layer' = layer, gPc \in {"input", "boot"}, gPc' # "told"
  PROVE  ReloadInv' /\ ShownInv' /\ (thread' # "none" \/ UNCHANGED <<thread, dir>>)
<1> USE ScreenAssumption DEF Screen!Request, Marks
<1>1. CASE inProgress
  BY <1>1 DEF ReloadInv, ShownInv, Screen!shared
<1>2. CASE ~inProgress
  <2>1. flags' \in Marks /\ progress' = Screen!Nothing /\ Screen!Nothing \in Marks
    BY <1>2 DEF ReloadInv, Screen!Nothing
  <2>2. ReloadInv'
    BY <1>2, <2>1 DEF ReloadInv
  <2> QED
    BY <1>2, <2>2 DEF ShownInv
<1> QED
  BY <1>1, <1>2

\* The pages, with whatever the user does on them.
LEMMA PagesKeep ==
  ASSUME PanelInv, Screen!RunPages
  PROVE  PanelInv'
<1> USE ScreenAssumption DEF PanelInv, Marks
<1>0. /\ gPc = "input" /\ gPc' = "poll"
      /\ UNCHANGED <<prevLayer, layerAge, asked, open>>
  BY DEF Screen!RunPages
<1>1. ASSUME UNCHANGED Screen!shared, flags' = flags
      PROVE  (ReloadInv' /\ ShownInv' /\ BootInv') \/ layer' # layer
  BY <1>0, <1>1 DEF Screen!shared, ReloadInv, ShownInv, BootInv
<1>2. ASSUME layer' = layer
      PROVE  LayerInv'
  BY <1>0, <1>2 DEF LayerInv
<1>3. CASE Screen!DragReel \/ Screen!DropReel \/ Screen!TapReel
  <2>1. ReelInv'
    BY <1>3 DEF ReelInv, Screen!DragReel, Screen!DropReel, Screen!TapReel
  <2> QED
    BY <1>1, <1>2, <1>3, <2>1 DEF Screen!DragReel, Screen!DropReel, Screen!TapReel
<1>4. CASE Screen!GlideReel
  <2> DEFINE p == reel.pos + IF reel.target > reel.pos THEN 1 ELSE -1
  <2>1. /\ reel.pos # reel.target /\ layer' = layer
        /\ reel' = [reel EXCEPT !.pos = p, !.armed = @ /\ ~(p = reel.target)]
        /\ \/ path' = Banks[p] /\ Screen!Request(Banks[p])
           \/ UNCHANGED <<path, flags, Screen!shared>>
    BY <1>4 DEF Screen!GlideReel
  <2>2. p \in DOMAIN Banks /\ Banks[p] \in Screen!Dirs
    BY <2>1 DEF ReelInv, Screen!Dirs
  <2>3. ReelInv'
    <3>1. path' \in Screen!Dirs \cup {None}
      BY <2>1, <2>2 DEF ReelInv
    <3> HIDE DEF p
    <3> QED
      BY <2>1, <2>2, <3>1 DEF ReelInv
  <2> HIDE DEF p
  <2>4. CASE Screen!Request(Banks[p])
    BY <1>0, <1>2, <2>1, <2>2, <2>3, <2>4, RequestKeeps DEF BootInv
  <2>5. CASE UNCHANGED <<path, flags, Screen!shared>>
    BY <1>0, <1>1, <1>2, <2>1, <2>3, <2>5
  <2> QED
    BY <2>1, <2>4, <2>5
<1>5. CASE Screen!PickBank \/ Screen!PickReload
  <2>1. PICK d \in Screen!Dirs : Screen!Request(d)
    BY <1>5 DEF Screen!PickBank, Screen!PickReload, Screen!Dirs, ReelInv
  <2>2. layer' = layer /\ ReelInv'
    BY <1>5 DEF Screen!PickBank, Screen!PickReload, ReelInv, Screen!Dirs
  <2> QED
    BY <1>0, <1>2, <2>1, <2>2, RequestKeeps DEF BootInv
<1>6. CASE Screen!TurnLayer
  BY <1>0, <1>6 DEF Screen!TurnLayer, Screen!gui, Screen!shared, ReloadInv,
       ShownInv, LayerInv, ReelInv, BootInv
<1>7. CASE Screen!PickTab \/ Screen!NoGesture
  BY <1>0, <1>1, <1>2, <1>7 DEF Screen!PickTab, Screen!NoGesture, Screen!gui, ReelInv
<1>8. CASE Screen!Acknowledge
  BY <1>0, <1>2, <1>8 DEF Screen!Acknowledge, Screen!shared, ReloadInv, ShownInv,
       ReelInv, BootInv
<1> QED
  BY <1>3, <1>4, <1>5, <1>6, <1>7, <1>8 DEF Screen!RunPages

\* The rest of a frame, the start and the end of the program.
LEMMA FrameKeeps ==
  ASSUME PanelInv, Screen!Frame
  PROVE  PanelInv'
<1> USE ScreenAssumption DEF PanelInv, Marks
<1>1. CASE Screen!Boot
  <2>1. /\ gPc = "boot" /\ gPc' \in {"input", "quit"}
        /\ UNCHANGED <<layer, prevLayer, layerAge, asked, path, reel>>
        /\ UNCHANGED <<Screen!shared, flags>> \/ (path # None /\ Screen!Request(path))
    BY <1>1 DEF Screen!Boot, Screen!layers
  <2>2. LayerInv' /\ ReelInv'
    BY <2>1 DEF LayerInv, ReelInv
  <2>3. CASE UNCHANGED <<Screen!shared, flags>>
    BY <2>1, <2>2, <2>3 DEF ReloadInv, ShownInv, BootInv, Screen!shared
  <2>4. CASE path # None /\ Screen!Request(path)
    <3>1. path \in Screen!Dirs
      BY <2>4 DEF ReelInv
    <3>2. ~inProgress
      BY <2>1 DEF ReloadInv, BootInv
    <3> QED
      BY <2>1, <2>2, <2>4, <3>1, <3>2, RequestKeeps DEF BootInv, Screen!Request
  <2> QED
    BY <2>1, <2>3, <2>4
<1>2. CASE Screen!RunPages
  BY <1>2, PagesKeep
<1>3. CASE Screen!Poll
  <2>1. ReloadInv'
    BY <1>3 DEF Screen!Poll, ReloadInv
  <2>3. LayerInv' /\ ReelInv' /\ BootInv'
    BY <1>3 DEF Screen!Poll, Screen!layers, LayerInv, ReelInv, BootInv
  <2>2. ShownInv'
    <3>1. CASE donePending
      <4>1. flags' = progress /\ gPc' = "told" /\ UNCHANGED <<dir, thread>>
        BY <1>3, <3>1 DEF Screen!Poll
      <4> QED
        BY <4>1 DEF ReloadInv, ShownInv
    <3>2. CASE ~donePending
      BY <1>3, <3>2 DEF Screen!Poll, Screen!layers, ShownInv
    <3> QED
      BY <3>1, <3>2
  <2> QED
    BY <2>1, <2>2, <2>3
<1>4. CASE Screen!Report
  BY <1>4 DEF Screen!Report, Screen!gui, Screen!shared, ReloadInv, ShownInv,
       LayerInv, ReelInv, BootInv
<1>5. CASE Screen!EndFrame
  <2>1. LayerInv'
    BY <1>5 DEF Screen!EndFrame, Screen!LayerDebounce, LayerInv
  <2> QED
    BY <1>5, <2>1 DEF Screen!EndFrame, Screen!shared, ReloadInv, ShownInv, ReelInv,
         BootInv
<1>6. CASE Screen!JoinReload
  BY <1>6 DEF Screen!JoinReload, Screen!gui, Screen!layers, ReloadInv, ShownInv,
       LayerInv, ReelInv, BootInv
<1>7. CASE Screen!CloseDevices
  BY <1>7 DEF Screen!CloseDevices, Screen!gui, Screen!layers, Screen!shared,
       ReloadInv, ShownInv, LayerInv, ReelInv, BootInv
<1> QED
  BY <1>1, <1>2, <1>3, <1>4, <1>5, <1>6, <1>7 DEF Screen!Frame

\* app_context.cpp: whatever is requested between the end of a load and the
\* frame that reports it, the panel at rest shows what became of the last one.
THEOREM LastIsReported == Screen!Spec => []ReportsLast
<1>1. Screen!Init => PanelInv
  <2> SUFFICES ASSUME Screen!Init
               PROVE  PanelInv
    OBVIOUS
  <2>1. ReloadInv
    BY ScreenAssumption DEF Screen!Init, ReloadInv, Marks, Screen!Nothing
  <2>2. ShownInv /\ LayerInv /\ BootInv
    BY ScreenAssumption DEF Screen!Init, ShownInv, LayerInv, BootInv
  <2>3. ReelInv
    BY DEF Screen!Init, ReelInv
  <2> QED
    BY <2>1, <2>2, <2>3 DEF PanelInv
<1>2. PanelInv /\ [Screen!Next]_(Screen!vars) => PanelInv'
  <2>1. CASE Screen!Next
    BY <2>1, ThreadKeeps, FrameKeeps DEF Screen!Next
  <2>2. CASE UNCHANGED Screen!vars
    BY <2>2 DEF PanelInv, ReloadInv, ShownInv, LayerInv, ReelInv, BootInv,
         Screen!vars, Screen!gui, Screen!layers, Screen!shared
  <2> QED
    BY <2>1, <2>2
<1>3. PanelInv => ReportsLast
  BY DEF PanelInv, ReloadInv, ShownInv, LayerInv, ReportsLast, Screen!ReportsLast
<1> QED
  BY <1>1, <1>2, <1>3, PTL DEF Screen!Spec

-----------------------------------------------------------------------------
(* FramePace: rest and glow.                                               *)

PaceTypes ==
  /\ {touchAge, quiet, calm, applied, chrome} \subseteq Nat
  /\ {budget, want, cur, over, under, dear, cheap} \subseteq Nat

\* The pace counts as quiet no more than what has passed since the last sound
\* and since the last touch.
RestInv ==
  /\ quiet <= calm /\ quiet <= touchAge /\ quiet <= IdleHold
  /\ NeverLazy

\* The glow counts no more than the length of the stretch it is in, and it is
\* below its floor only where the user has put it.
GlowInv ==
  /\ over <= dear /\ under <= cheap
  /\ budget = 0 => over = 0 /\ under = 0
  /\ cur <= want /\ (cur = want \/ cur >= Pace!kMinScale)

LEMMA PaceTypesKeep ==
  ASSUME PaceTypes, Pace!Next
  PROVE  PaceTypes'
<1> USE PaceAssumption DEF PaceTypes
<1>1. CASE Pace!Frame
  <2>1. PICK touched \in BOOLEAN, live \in BOOLEAN, missed \in {0, 1, Hitch} :
          LET dt == applied + missed IN
          /\ late' = missed
          /\ Pace!GlowStep(dt)
          /\ Pace!SaverStep(touched, dt)
          /\ Pace!PaceStep(Pace!Busy(live), dt)
          /\ calm' = IF touched \/ live THEN 0
                     ELSE IF dt >= Hitch THEN calm
                     ELSE Pace!Upto(calm + dt, Pace!Longest)
    BY <1>1 DEF Pace!Frame
  <2> DEFINE dt == applied + missed
  <2>2. dt \in Nat
    OBVIOUS
  <2>3. {touchAge', chrome'} \subseteq Nat
    BY <2>1, <2>2 DEF Pace!SaverStep, Pace!Upto
  <2>4. {quiet', applied', calm'} \subseteq Nat
    BY <2>1, <2>2 DEF Pace!PaceStep, Pace!Upto, Pace!Longest
  <2>5. {budget', want', cur', over', under', dear', cheap'} \subseteq Nat
    BY <2>1, <2>2 DEF Pace!GlowStep, Pace!Upto, Pace!TooDear, Pace!CheapAgain,
         Pace!InBand, Pace!Lower, Pace!Raise, Pace!kMinScale
  <2> QED
    BY <2>3, <2>4, <2>5
<1>2. CASE Pace!TurnGlow
  BY <1>2 DEF Pace!TurnGlow, Pace!panelVars
<1> QED
  BY <1>1, <1>2 DEF Pace!Next

\* A frame that sees a touch, a sound or a movement begins both counts anew.
LEMMA RestKeeps ==
  ASSUME PaceTypes, RestInv, Pace!Next
  PROVE  RestInv'
<1> USE PaceAssumption DEF PaceTypes, RestInv, NeverLazy, Pace!NeverLazy
<1>1. CASE Pace!Frame
  <2>1. PICK touched \in BOOLEAN, live \in BOOLEAN, missed \in {0, 1, Hitch} :
          LET dt == applied + missed IN
          /\ late' = missed
          /\ Pace!GlowStep(dt)
          /\ Pace!SaverStep(touched, dt)
          /\ Pace!PaceStep(Pace!Busy(live), dt)
          /\ calm' = IF touched \/ live THEN 0
                     ELSE IF dt >= Hitch THEN calm
                     ELSE Pace!Upto(calm + dt, Pace!Longest)
    BY <1>1 DEF Pace!Frame
  <2> DEFINE dt == applied + missed
  <2>2. dt \in Nat
    OBVIOUS
  <2>3. touchAge' = IF touched THEN 0 ELSE Pace!Upto(touchAge + dt, SaverWait + 1)
    BY <2>1 DEF Pace!SaverStep
  <2>4. CASE Pace!Busy(live)
    <3>1. quiet' = 0 /\ applied' = Fast
      BY <2>1, <2>4 DEF Pace!PaceStep
    <3> QED
      BY <2>1, <2>2, <2>3, <3>1, PaceTypesKeep
  <2>5. CASE ~Pace!Busy(live)
    <3>1. ~live /\ chrome' # 1 /\ ~(touchAge' < TouchHold)
      BY <2>5 DEF Pace!Busy
    <3>2. ~touched
      BY <2>3, <3>1
    <3>3. quiet' = quiet \/ (dt < Hitch /\ quiet' = Pace!Upto(quiet + dt, IdleHold))
      BY <2>1, <2>2, <2>5 DEF Pace!PaceStep
    <3>4. calm' = IF dt >= Hitch THEN calm ELSE Pace!Upto(calm + dt, Pace!Longest)
      BY <2>1, <3>1, <3>2
    <3>5. quiet' <= calm' /\ quiet' <= touchAge' /\ quiet' <= IdleHold
      BY <2>2, <2>3, <3>2, <3>3, <3>4 DEF Pace!Upto, Pace!Longest
    <3>6. applied' > Fast => quiet' >= IdleHold
      BY <2>1, <2>5 DEF Pace!PaceStep
    <3> QED
      BY <3>1, <3>5, <3>6, PaceTypesKeep
  <2> QED
    BY <2>4, <2>5
<1>2. CASE Pace!TurnGlow
  BY <1>2 DEF Pace!TurnGlow, Pace!panelVars
<1> QED
  BY <1>1, <1>2 DEF Pace!Next

\* One frame of the glow: what SteadyGlow says of it, and the counts.
LEMMA GlowKeeps ==
  ASSUME PaceTypes, GlowInv, Pace!Next
  PROVE  /\ GlowInv'
         /\ want' = want =>
              /\ cur' < cur => dear' >= OverHold
              /\ cur' > cur => cheap' >= UnderHold
              /\ cur' # cur => Pace!kMinScale <= cur' /\ cur' <= want
<1> USE PaceAssumption DEF PaceTypes, GlowInv, Pace!kMinScale
<1>1. ASSUME NEW dt \in Nat, Pace!GlowStep(dt)
      PROVE  /\ GlowInv'
             /\ cur' < cur => dear' >= OverHold
             /\ cur' > cur => cheap' >= UnderHold
             /\ cur' # cur => Pace!kMinScale <= cur' /\ cur' <= want
  <2>1. /\ UNCHANGED <<budget, want>>
        /\ dear' = IF Pace!Over(ema') THEN Pace!Upto(dear + dt, OverHold) ELSE 0
        /\ cheap' = IF Pace!Cheap(ema') THEN Pace!Upto(cheap + dt, UnderHold) ELSE 0
    BY <1>1 DEF Pace!GlowStep
  <2>2. CASE budget = 0
    BY <1>1, <2>1, <2>2 DEF Pace!GlowStep, Pace!Upto
  <2>3. CASE budget # 0 /\ Pace!Over(ema')
    <3>1. Pace!TooDear(dt)
      BY <1>1, <2>3 DEF Pace!GlowStep
    <3>2. cur > 15 => Pace!Lower(cur) \in Nat /\ Pace!Lower(cur) < cur /\ Pace!Lower(cur) >= 15
      BY DEF Pace!Lower
    <3> HIDE DEF Pace!kMinScale
    <3>3. Pace!kMinScale = 15
      BY DEF Pace!kMinScale
    <3> QED
      BY <2>1, <2>3, <3>1, <3>2, <3>3 DEF Pace!TooDear, Pace!Upto
  <2>4. CASE budget # 0 /\ ~Pace!Over(ema') /\ Pace!Cheap(ema') /\ cur < want
    <3>1. Pace!CheapAgain(dt)
      BY <1>1, <2>4 DEF Pace!GlowStep
    <3>2. Pace!Raise(cur) \in cur..want
      BY <2>4 DEF Pace!Raise, Pace!Upto
    <3>3. cur >= 15
      BY <2>4
    <3> QED
      BY <2>1, <2>4, <3>1, <3>2, <3>3 DEF Pace!CheapAgain, Pace!Upto
  <2>5. CASE budget # 0 /\ ~Pace!Over(ema') /\ ~(Pace!Cheap(ema') /\ cur < want)
    BY <1>1, <2>1, <2>5 DEF Pace!GlowStep, Pace!InBand, Pace!Upto
  <2> QED
    BY <2>2, <2>3, <2>4, <2>5
<1>2. CASE Pace!Frame
  <2>1. PICK missed \in {0, 1, Hitch} : Pace!GlowStep(applied + missed)
    BY <1>2 DEF Pace!Frame
  <2> QED
    BY <1>1, <2>1
<1>3. CASE Pace!TurnGlow
  BY <1>3 DEF Pace!TurnGlow, Pace!panelVars
<1> QED
  BY <1>2, <1>3 DEF Pace!Next

PaceInv == PaceTypes /\ RestInv /\ GlowInv

LEMMA PaceInvariant == Pace!Spec => []PaceInv
<1>1. Pace!Init => PaceInv
  BY PaceAssumption DEF Pace!Init, PaceInv, PaceTypes, RestInv, GlowInv,
       NeverLazy, Pace!NeverLazy
<1>2. PaceInv /\ [Pace!Next]_(Pace!vars) => PaceInv'
  <2>1. CASE Pace!Next
    BY <2>1, PaceTypesKeep, RestKeeps, GlowKeeps DEF PaceInv
  <2>2. CASE UNCHANGED Pace!vars
    BY <2>2 DEF PaceInv, PaceTypes, RestInv, GlowInv, NeverLazy, Pace!NeverLazy,
         Pace!vars, Pace!panelVars, Pace!glowVars
  <2> QED
    BY <2>1, <2>2
<1> QED
  BY <1>1, <1>2, PTL DEF Pace!Spec

\* PaceControl::step: whatever the frames take, the panel is slow only when
\* nothing has moved, sounded or been touched for the whole hold.
THEOREM RestsBeforeSlow == Pace!Spec => []NeverLazy
<1>1. PaceInv => NeverLazy
  BY DEF PaceInv, RestInv
<1> QED
  BY <1>1, PaceInvariant, PTL

\* GlowAuto::step: for any budget and any sequence of frame times the glow
\* changes only after an unbroken stretch, within its limits.
THEOREM GlowIsSteady == Pace!Spec => SteadyGlow
<1>1. PaceInv /\ [Pace!Next]_(Pace!vars) =>
        [want' = want =>
           /\ cur' < cur => dear' >= OverHold
           /\ cur' > cur => cheap' >= UnderHold
           /\ cur' # cur => Pace!kMinScale <= cur' /\ cur' <= want]_(Pace!vars)
  BY GlowKeeps DEF PaceInv
<1> QED
  BY <1>1, PaceInvariant, PTL DEF Pace!Spec, SteadyGlow, Pace!SteadyGlow
=============================================================================
