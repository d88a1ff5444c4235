------------------------------ MODULE PartsProofs ------------------------------
(***************************************************************************)
(* Proofs about what the program takes in: the impulse responses and their *)
(* swap under the audio thread, the bank from its directory into memory,   *)
(* the sample files it is read from, a text read back from the settings,   *)
(* and the notes of the MIDI ports.  For any bodies and sample rates,      *)
(* files and budgets, lengths and headers, texts, devices and channels.    *)
(***************************************************************************)
EXTENDS Parts, FiniteSetTheorems, WellFoundedInduction, SequenceTheorems, TLAPS

\* A set of numbers that is not empty has a least one.
LEMMA LeastNatural ==
  ASSUME NEW T, T \subseteq Nat, T # {}
  PROVE  \E k \in T : \A j \in T : k <= j
<1>1. IsWellFoundedOn(OpToRel(<, Nat), Nat)
  BY NatLessThanWellFounded
<1>2. PICK k \in T : \A j \in T : ~(<<j, k>> \in OpToRel(<, Nat))
  BY <1>1, WFMin
<1>3. \A j \in T : ~(j < k)
  BY <1>2 DEF OpToRel
<1> QED
  BY <1>3

\* Induction over the numbers up to n, for a set that takes in each number
\* behind those it has.
LEMMA Climbs ==
  ASSUME NEW n \in Nat, NEW T,
         \A m \in 0 .. n : (\A k \in 0 .. (m - 1) : k \in T) => m \in T
  PROVE  0 .. n \subseteq T
<1> DEFINE Rest == (0 .. n) \ T
<1>1. SUFFICES ASSUME Rest # {} PROVE FALSE
  OBVIOUS
<1>2. Rest \subseteq Nat
  OBVIOUS
<1>3. PICK m \in Rest : \A k \in Rest : m <= k
  <2> HIDE DEF Rest
  <2> QED
    BY <1>1, <1>2, LeastNatural
<1>4. \A k \in 0 .. (m - 1) : k \in 0 .. n /\ ~(m <= k)
  BY <1>3
<1>5. \A k \in 0 .. (m - 1) : k \in T
  BY <1>3, <1>4
<1> QED
  BY <1>3, <1>5

-----------------------------------------------------------------------------
(* Convolver: the slot that is written is not read.                        *)

\* Both slots are there and one of them is active; a block that reads has
\* announced its slot; a device that stands has no block.
ReadersInv ==
  /\ active \in Response!Slots
  /\ block \in {"out", "loaded", "reading"}
  /\ block = "reading" => seen = use
  /\ ~running => block = "out"
  /\ gui = "write" => ~(block \in {"loaded", "reading"} /\ use = Response!Inactive)

\* Unless the audio thread is held up between its load and its announcement,
\* a slot that is about to be written stays without a reader.
LEMMA ReadersKeep ==
  ASSUME ~Preempted, ReadersInv, [Response!Next]_(Response!vars)
  PROVE  ReadersInv'
<1> USE DEF ReadersInv, Response!Inactive, Response!Slots, Response!audioVars, Response!guiVars
<1>1. ASSUME NEW c \in Choices, Response!selectChoice(c)
      PROVE  ReadersInv'
  BY <1>1 DEF Response!selectChoice, Response!Rebuild
<1>2. ASSUME NEW k \in Knobs, Response!Set(k)
      PROVE  ReadersInv'
  BY <1>2 DEF Response!Set, Response!Rebuild
<1>3. CASE Response!SlotLeft
  BY <1>3 DEF Response!SlotLeft
<1>4. CASE Response!Publish
  BY <1>4 DEF Response!Publish
<1>5. CASE Response!SetEnabled \/ Response!StopDevice \/ Response!StartDevice
  BY <1>5 DEF Response!SetEnabled, Response!StopDevice, Response!StartDevice
<1>6. ASSUME NEW r \in Rates, Response!Prepare(r)
      PROVE  ReadersInv'
  BY <1>6 DEF Response!Prepare, Response!Rebuild
<1>7. CASE Response!LoadActive \/ Response!Announce \/ Response!LeaveSlot
  BY <1>7 DEF Response!LoadActive, Response!Announce, Response!LeaveSlot
<1>8. CASE UNCHANGED Response!vars
  BY <1>8 DEF Response!vars
<1> QED
  BY <1>1, <1>2, <1>3, <1>4, <1>5, <1>6, <1>7, <1>8 DEF Response!Next

\* convolver.h:5: the slot the GUI thread writes is never the one a block reads.
THEOREM SlotIsAlone ==
  ASSUME ~Preempted
  PROVE  Response!Spec => []SlotAlone
<1>1. Response!Init => ReadersInv
  BY DEF Response!Init, ReadersInv, Response!Slots
<1>2. ReadersInv /\ [Response!Next]_(Response!vars) => ReadersInv'
  BY ReadersKeep
<1>3. ReadersInv => SlotAlone
  BY DEF ReadersInv, SlotAlone, Response!SlotAlone
<1> QED
  BY <1>1, <1>2, <1>3, PTL DEF Response!Spec
-----------------------------------------------------------------------------
(* The response in force. *)

\* What panel and device ask for.
Asked == [choice |-> choice, rate |-> rate, knob |-> knob]

\* The base belongs to the chosen body at the rate of now; a response on its
\* way is the one asked for, and so is the active one when none is.
ForceInv ==
  /\ active \in Response!Slots /\ DOMAIN ir = Response!Slots
  /\ base = Response!Body(choice, rate)
  /\ gui \in {"idle", "wait", "write"}
  /\ gui \in {"wait", "write"} => tmp = Asked
  /\ gui = "idle" => ir[active] = Asked

LEMMA ForceKeeps ==
  ASSUME ForceInv, [Response!Next]_(Response!vars)
  PROVE  ForceInv'
<1> USE DEF ForceInv, Asked, Response!Body, Response!Inactive, Response!Slots, Response!audioVars, Response!guiVars
<1>1. ASSUME NEW c \in Choices, Response!selectChoice(c)
      PROVE  ForceInv'
  BY <1>1 DEF Response!selectChoice, Response!Rebuild, Response!Shaped
<1>2. ASSUME NEW k \in Knobs, Response!Set(k)
      PROVE  ForceInv'
  BY <1>2 DEF Response!Set, Response!Rebuild, Response!Shaped
<1>3. CASE Response!SlotLeft
  BY <1>3 DEF Response!SlotLeft
<1>4. CASE Response!Publish
  <2>1. active' \in {0, 1} /\ ir' = [ir EXCEPT ![active'] = tmp]
    BY <1>4 DEF Response!Publish
  <2>2. DOMAIN ir' = {0, 1} /\ ir'[active'] = tmp
    BY <2>1
  <2> QED
    BY <1>4, <2>1, <2>2 DEF Response!Publish
<1>5. CASE Response!SetEnabled \/ Response!StopDevice \/ Response!StartDevice
  BY <1>5 DEF Response!SetEnabled, Response!StopDevice, Response!StartDevice
<1>6. ASSUME NEW r \in Rates, Response!Prepare(r)
      PROVE  ForceInv'
  BY <1>6 DEF Response!Prepare, Response!Rebuild, Response!Shaped
<1>7. CASE Response!LoadActive \/ Response!Announce \/ Response!LeaveSlot
  BY <1>7 DEF Response!LoadActive, Response!Announce, Response!LeaveSlot
<1>8. CASE UNCHANGED Response!vars
  BY <1>8 DEF Response!vars
<1> QED
  BY <1>1, <1>2, <1>3, <1>4, <1>5, <1>6, <1>7, <1>8 DEF Response!Next

\* When the GUI thread is done, what sounds is what panel and device ask for,
\* across every choice, knob, block size and rate.
THEOREM AskedIsInForce == Response!Spec => []InForce
<1>1. Response!Init => ForceInv
  BY DEF Response!Init, ForceInv, Asked, Response!Body, Response!Shaped, Response!Slots
<1>2. ForceInv /\ [Response!Next]_(Response!vars) => ForceInv'
  BY ForceKeeps
<1>3. ForceInv => InForce
  BY DEF ForceInv, InForce, Response!InForce, Asked
<1> QED
  BY <1>1, <1>2, <1>3, PTL DEF Response!Spec

-----------------------------------------------------------------------------
(* BankLoader: files become layers.                                        *)

Ascends(s) == \A i, j \in DOMAIN s : i < j => s[i] < s[j]

LEMMA EmptyOrder ==
  ASSUME NEW S \in SUBSET Nat, IsFiniteSet(S), Cardinality(S) = 0
  PROVE  \E s \in [1..Cardinality(S) -> S] : Ascends(s)
<1> DEFINE s == [i \in 1..0 |-> 0]
<1>1. s \in [1..0 -> S] /\ Ascends(s)
  BY DEF Ascends
<1> QED
  BY <1>1

\* Any finite set of numbers can be put in order: by taking its least to the
\* front of the others in order.
LEMMA OrderExists ==
  ASSUME NEW S \in SUBSET Nat, IsFiniteSet(S)
  PROVE  \E s \in [1..Cardinality(S) -> S] : Ascends(s)
<1> DEFINE Fails(n) == \E R \in SUBSET Nat :
             /\ IsFiniteSet(R) /\ Cardinality(R) = n
             /\ ~ \E s \in [1..n -> R] : Ascends(s)
           T == {n \in Nat : Fails(n)}
<1>1. SUFFICES ASSUME T # {} PROVE FALSE
  <2>1. Cardinality(S) \in Nat
    BY FS_CardinalityType
  <2> QED
    BY <1>1, <2>1
<1>2. PICK n \in T : \A k \in T : n <= k
  <2>1. T \subseteq Nat
    OBVIOUS
  <2> HIDE DEF T
  <2> QED
    BY <1>1, <2>1, LeastNatural
<1>3. PICK R \in SUBSET Nat : /\ IsFiniteSet(R) /\ Cardinality(R) = n
                              /\ ~ \E s \in [1..n -> R] : Ascends(s)
  BY <1>2
<1>4. n \in Nat /\ n # 0
  BY <1>2, <1>3, EmptyOrder
<1>5. PICK x \in R : \A y \in R : x <= y
  <2>1. R # {} /\ R \subseteq Nat
    BY <1>3, <1>4, FS_EmptySet
  <2> QED
    BY <2>1, LeastNatural
<1>6. /\ R \ {x} \in SUBSET Nat /\ IsFiniteSet(R \ {x})
      /\ Cardinality(R \ {x}) = n - 1
  BY <1>3, <1>4, <1>5, FS_RemoveElement
<1>7. PICK s \in [1..(n - 1) -> R \ {x}] : Ascends(s)
  <2>1. n - 1 \in Nat /\ ~(n <= n - 1)
    BY <1>4
  <2>2. ~Fails(n - 1)
    BY <1>2, <2>1
  <2> QED
    BY <1>6, <2>2
<1> DEFINE t == [i \in 1..n |-> IF i = 1 THEN x ELSE s[i - 1]]
<1>8. t \in [1..n -> R]
  <2>1. ASSUME NEW i \in 1..n PROVE t[i] \in R
    <3>1. CASE i = 1
      BY <1>5, <3>1
    <3>2. CASE i # 1
      BY <1>4, <1>7, <3>2
    <3> QED
      BY <3>1, <3>2
  <2> QED
    BY <2>1
<1>9. Ascends(t)
  <2> SUFFICES ASSUME NEW i \in 1..n, NEW j \in 1..n, i < j PROVE t[i] < t[j]
    BY DEF Ascends
  <2>1. j # 1 /\ j - 1 \in 1..(n - 1) /\ t[j] = s[j - 1]
    BY <1>4
  <2>2. s[j - 1] \in R /\ s[j - 1] # x
    BY <1>7, <2>1
  <2>3. CASE i = 1
    <3>1. t[i] = x /\ x \in Nat /\ s[j - 1] \in Nat
      BY <1>3, <1>5, <2>2, <2>3
    <3>2. x <= s[j - 1] /\ x # s[j - 1]
      BY <1>5, <2>2
    <3>3. x < s[j - 1]
      BY <3>1, <3>2
    <3> HIDE DEF t
    <3> QED
      BY <2>1, <3>1, <3>3
  <2>4. CASE i # 1
    <3>1. i - 1 \in 1..(n - 1) /\ i - 1 < j - 1 /\ t[i] = s[i - 1]
      BY <1>4, <2>4
    <3> QED
      BY <1>7, <2>1, <3>1 DEF Ascends
  <2> QED
    BY <2>3, <2>4
<1> HIDE DEF t
<1> QED
  BY <1>3, <1>8, <1>9

\* What is put in the order of the scan ascends and is of the set.
LEMMA InOrderIs ==
  ASSUME NEW S \in SUBSET Nat, IsFiniteSet(S)
  PROVE  /\ Loader!InOrder(S) \in [1..Cardinality(S) -> S]
         /\ Cardinality(S) \in Nat
         /\ Ascends(Loader!InOrder(S))
<1>1. Loader!Cardinality(S) = Cardinality(S)
  BY DEF Loader!Cardinality, Cardinality
<1>2. Loader!InOrder(S) = CHOOSE s \in [1..Cardinality(S) -> S] : Ascends(s)
  BY <1>1 DEF Loader!InOrder, Ascends
<1>3. \E s \in [1..Cardinality(S) -> S] : Ascends(s)
  BY OrderExists
<1> QED
  BY <1>2, <1>3, FS_CardinalityType

\* What does not fall from one step to the next does not fall at all.
LEMMA StepsRise ==
  ASSUME NEW n \in Nat, NEW f \in [1..n -> Nat],
         \A i \in 1..(n - 1) : f[i] <= f[i + 1],
         NEW i \in 1..n, NEW j \in 1..n, i <= j
  PROVE  f[i] <= f[j]
<1> DEFINE T == {k \in i..n : ~(f[i] <= f[k])}
<1>1. SUFFICES ASSUME T # {} PROVE FALSE
  <2>1. j \in i..n
    OBVIOUS
  <2>2. j \in i..n /\ ~(f[i] <= f[j]) => j \in T
    OBVIOUS
  <2> QED
    BY <1>1, <2>1, <2>2
<1>2. PICK k \in T : \A l \in T : k <= l
  <2>1. T \subseteq Nat
    OBVIOUS
  <2> HIDE DEF T
  <2> QED
    BY <1>1, <2>1, LeastNatural
<1>3. k \in i..n /\ k # i /\ f[k] \in Nat /\ f[i] \in Nat
  BY <1>2
<1>4. k - 1 \in i..n /\ k - 1 \in 1..(n - 1) /\ ~(k <= k - 1) /\ (k - 1) + 1 = k
  BY <1>3
<1>5. f[i] <= f[k - 1]
  BY <1>2, <1>4
<1>6. f[k - 1] <= f[k] /\ f[k - 1] \in Nat
  BY <1>4
<1>7. f[i] <= f[k]
  BY <1>3, <1>5, <1>6
<1> QED
  BY <1>2, <1>7

\* A higher velocity selects no earlier layer, and one there is.
LEMMA SlotsRise ==
  ASSUME NEW n \in Nat \ {0}, NEW v \in 0..127, NEW w \in 0..127, v <= w
  PROVE  /\ Loader!SlotOf(v, n) \in 1..n /\ Loader!SlotOf(w, n) \in 1..n
         /\ Loader!SlotOf(v, n) <= Loader!SlotOf(w, n)
<1>1. CASE n <= 1
  BY <1>1 DEF Loader!SlotOf
<1>2. CASE ~(n <= 1)
  <2>1. PICK z \in Nat : z = n - 1
    OBVIOUS
  <2>2. \A x, y \in 0..127 : x <= y => x * z <= y * z
    OBVIOUS
  <2>3. v * z \in Nat /\ w * z \in Nat /\ v * z <= w * z /\ w * z <= 127 * z
    <3>1. v * z \in Nat /\ w * z \in Nat
      OBVIOUS
    <3>2. w <= 127 /\ 127 \in 0..127
      OBVIOUS
    <3>3. v * z <= w * z
      BY <2>2
    <3>4. w * z <= 127 * z
      BY <2>2, <3>2
    <3> QED
      BY <3>1, <3>3, <3>4
  <2>4. \A x \in 0..127 : 2 * x * z = 2 * (x * z)
    BY SMTT(30)
  <2>5. PICK p \in Nat, q \in Nat : p = v * z /\ q = w * z
    BY <2>3
  <2>6. p <= q /\ q <= 127 * z
    BY <2>3, <2>5
  <2>7. /\ (2 * p + 127) \div 254 \in 0..z /\ (2 * q + 127) \div 254 \in 0..z
        /\ (2 * p + 127) \div 254 <= (2 * q + 127) \div 254
    BY <2>6
  <2>8. /\ Loader!SlotOf(v, n) = 1 + (2 * p + 127) \div 254
        /\ Loader!SlotOf(w, n) = 1 + (2 * q + 127) \div 254
    BY <1>2, <2>1, <2>4, <2>5 DEF Loader!SlotOf
  <2> QED
    BY <2>1, <2>7, <2>8
<1> QED
  BY <1>1, <1>2

-----------------------------------------------------------------------------

(* The bank itself. *)

Scanned == DOMAIN files
ToSetOf(s) == {s[i] : i \in DOMAIN s}
OfNote(m) == {i \in Scanned : files[i].midi = m}

FilesInv ==
  /\ files \in Seq(Samples) /\ bLayer \in Nat
  /\ Loader!FormatOf(bDir) = "packed" =>
       \A i \in 1..(Len(files) - 1) : files[i].rms <= files[i + 1].rms

\* The layers of a note are its own files, and none is quieter than the last.
NotesInv ==
  \A m \in Loader!Midis :
    /\ notes[m] \in Seq(OfNote(m))
    /\ \A i \in 1..(Len(notes[m]) - 1) :
         files[notes[m][i]].rms <= files[notes[m][i + 1]].rms

\* No buffer before the bank is there, and none but for a note's nearest layer.
BufferInv ==
  /\ phase \in {"scan", "heads"} => \A m \in Loader!Midis : notes[m] = <<>>
  /\ \A i \in Scanned : buffer[i] > 0 =>
       \E m \in Loader!Midis :
         notes[m] # <<>> /\ i = notes[m][Loader!Nearest(notes[m])]

LoaderInv == FilesInv /\ NotesInv /\ BufferInv

\* Files have a loudness and a place.
LEMMA FileFacts ==
  ASSUME FilesInv
  PROVE  /\ Scanned = 1..Len(files) /\ Len(files) \in Nat /\ IsFiniteSet(Scanned)
         /\ \A i \in Scanned : files[i].rms \in Nat /\ files[i].midi \in Loader!Midis
<1>1. Scanned = 1..Len(files) /\ Len(files) \in Nat
  BY DEF FilesInv, Scanned
<1>2. \A i \in Scanned : files[i] \in Samples
  BY <1>1 DEF FilesInv
<1>3. IsFiniteSet(1..Len(files))
  BY <1>1, FS_Interval
<1> QED
  BY <1>1, <1>2, <1>3, BankAssumption DEF Loader!Midis

\* The nearest of some layers is one of them.
LEMMA NearestIs ==
  ASSUME FilesInv, NEW ids \in Seq(Scanned), ids # <<>>
  PROVE  Loader!Nearest(ids) \in 1..Len(ids)
<1> DEFINE far(i) == IF files[ids[i]].rms < bLayer THEN bLayer - files[ids[i]].rms
                     ELSE files[ids[i]].rms - bLayer
           D == {far(i) : i \in 1..Len(ids)}
<1>1. Len(ids) \in Nat /\ Len(ids) # 0
  OBVIOUS
<1>2. ASSUME NEW i \in 1..Len(ids) PROVE far(i) \in Nat
  <2>1. ids[i] \in Scanned
    OBVIOUS
  <2>2. files[ids[i]].rms \in Nat /\ bLayer \in Nat
    BY <2>1, FileFacts DEF FilesInv
  <2> QED
    BY <2>2
<1> HIDE DEF far
<1>3. PICK d \in D : \A e \in D : d <= e
  <2>1. D \subseteq Nat
    BY <1>2
  <2>2. 1 \in 1..Len(ids)
    BY <1>1
  <2>3. far(1) \in D
    BY <2>2
  <2> HIDE DEF D
  <2> QED
    BY <2>1, <2>3, LeastNatural
<1> DEFINE T == {i \in 1..Len(ids) : far(i) = d}
<1>4. PICK k \in T : \A l \in T : k <= l
  <2>0. PICK i \in 1..Len(ids) : far(i) = d
    BY <1>3
  <2>1. T \subseteq Nat /\ i \in T
    BY <2>0
  <2> HIDE DEF T
  <2> QED
    BY <2>1, LeastNatural
<1>5. \A j \in 1..Len(ids) : far(k) <= far(j)
  BY <1>3, <1>4
<1>6. ASSUME NEW j \in 1..(k - 1) PROVE far(j) > far(k)
  <2>1. k \in 1..Len(ids) /\ j \in 1..Len(ids) /\ ~(k <= j)
    BY <1>1, <1>4
  <2>2. far(j) # d /\ far(k) = d
    BY <1>4, <2>1
  <2>3. far(k) \in Nat /\ far(j) \in Nat /\ far(k) <= far(j)
    BY <1>2, <1>5, <2>1
  <2> QED
    BY <2>2, <2>3
<1>7. k \in 1..Len(ids)
  BY <1>4
<1>8. Loader!Nearest(ids) = CHOOSE i \in 1..Len(ids) :
                              /\ \A j \in 1..Len(ids) : far(i) <= far(j)
                              /\ \A j \in 1..(i - 1) : far(j) > far(i)
  BY DEF Loader!Nearest, far
<1> HIDE DEF T, D
<1> QED
  BY <1>5, <1>6, <1>7, <1>8

\* What is nearest stays so as long as the files and the loudness do.
LEMMA SameNearest ==
  ASSUME UNCHANGED <<files, bLayer>>, NEW ids
  PROVE  Loader!Nearest(ids)' = Loader!Nearest(ids)
BY DEF Loader!Nearest

\* The files that were read, as far as they are committed, are of the scan.
LEMMA CommittedAre ==
  ASSUME FilesInv
  PROVE  ToSetOf(SubSeq(Loader!Read, 1, Loader!Committed)) \subseteq Scanned
<1> DEFINE S == {i \in Scanned : prepared[i] # None}
           n == Cardinality(S)
<1>1. S \in SUBSET Nat /\ IsFiniteSet(S)
  BY FileFacts, FS_Subset
<1>2. Loader!Read = Loader!InOrder(S)
  BY DEF Loader!Read, Scanned
<1>3. Loader!Read \in [1..n -> S] /\ n \in Nat
  BY <1>1, <1>2, InOrderIs
<1> HIDE DEF n
<1>4. Loader!Read \in Seq(Scanned) /\ Len(Loader!Read) = n
  BY <1>3
<1>5. Loader!Committed \in 0..n
  <2> DEFINE spent == {k \in 0..Len(Loader!Read) :
                         bBudget > 0 /\ Loader!Taken[k] >= bBudget}
  <2>1. spent \subseteq 0..n /\ spent \subseteq Nat
    BY <1>3, <1>4
  <2>2. Loader!Committed = IF spent = {} THEN Len(Loader!Read)
                           ELSE CHOOSE k \in spent : \A l \in spent : k <= l
    BY DEF Loader!Committed
  <2> HIDE DEF spent
  <2>3. spent # {} => \E k \in spent : \A l \in spent : k <= l
    BY <2>1, LeastNatural
  <2>4. CASE spent = {}
    BY <1>3, <1>4, <2>2, <2>4
  <2>5. CASE spent # {}
    <3>1. Loader!Committed \in spent
      BY <2>2, <2>3, <2>5
    <3> QED
      BY <2>1, <3>1
  <2> QED
    BY <2>4, <2>5
<1> QED
  BY <1>3, <1>4, <1>5 DEF ToSetOf

\* The layers of a note, in the order of the scan or of their loudness.
LEMMA LayersSorted ==
  ASSUME FilesInv, NEW ids, ToSetOf(ids) \subseteq Scanned,
         NEW m \in Loader!Midis, NEW s \in Loader!ByLoudness(Loader!Layered(m, ids))
  PROVE  /\ s \in Seq(OfNote(m))
         /\ \A i \in 1..(Len(s) - 1) : files[s[i]].rms <= files[s[i + 1]].rms
<1> DEFINE S == {i \in ToSetOf(ids) : files[i].midi = m}
           l == Loader!Layered(m, ids)
           n == Cardinality(S)
<1>1. S \in SUBSET Nat /\ IsFiniteSet(S) /\ S \subseteq OfNote(m)
  BY FileFacts, FS_Subset DEF OfNote
<1>2. l = Loader!InOrder(S)
  BY DEF Loader!Layered, Loader!ToSet, ToSetOf
<1>3. l \in [1..n -> S] /\ n \in Nat /\ Ascends(l)
  BY <1>1, <1>2, InOrderIs
<1> HIDE DEF l, n, S
<1>4. l \in Seq(OfNote(m)) /\ Len(l) = n
  <2>1. l \in [1..n -> OfNote(m)]
    BY <1>1, <1>3
  <2> QED
    BY <1>3, <2>1
<1>5. CASE Loader!FormatOf(bDir) = "packed"
  <2>1. s = l
    BY <1>5 DEF Loader!ByLoudness, l
  <2>2. ASSUME NEW i \in 1..(n - 1) PROVE files[l[i]].rms <= files[l[i + 1]].rms
    <3> DEFINE f == [j \in 1..Len(files) |-> files[j].rms]
    <3>1. f \in [1..Len(files) -> Nat]
      BY FileFacts
    <3>2. \A j \in 1..(Len(files) - 1) : f[j] <= f[j + 1]
      BY <1>5, FileFacts DEF FilesInv
    <3>3. i \in 1..n /\ i + 1 \in 1..n /\ i < i + 1
      BY <1>3
    <3>4. /\ l[i] \in 1..Len(files) /\ l[i + 1] \in 1..Len(files)
          /\ l[i] < l[i + 1]
      BY <1>1, <1>3, <3>3, FileFacts DEF OfNote, Ascends
    <3>5. l[i] <= l[i + 1] /\ Len(files) \in Nat
      BY <3>4, FileFacts
    <3> HIDE DEF f
    <3>6. f[l[i]] <= f[l[i + 1]]
      BY <3>1, <3>2, <3>4, <3>5, StepsRise
    <3> QED
      BY <3>4, <3>6 DEF f
  <2> QED
    BY <1>4, <2>1, <2>2
<1>6. CASE Loader!FormatOf(bDir) # "packed"
  <2>1. /\ s \in [1..Len(l) -> Loader!ToSet(l)]
        /\ \A i \in 1..(Len(l) - 1) : files[s[i]].rms <= files[s[i + 1]].rms
    BY <1>6 DEF Loader!ByLoudness, l
  <2>2. Loader!ToSet(l) \subseteq OfNote(m)
    BY <1>4 DEF Loader!ToSet
  <2>3. s \in [1..n -> OfNote(m)]
    BY <1>4, <2>1, <2>2
  <2>4. s \in Seq(OfNote(m)) /\ Len(s) = n
    BY <1>3, <2>3
  <2> QED
    BY <1>4, <2>1, <2>4
<1> QED
  BY <1>5, <1>6

LEMMA LoaderInit == Loader!Init => LoaderInv
<1> USE BankAssumption
<1> SUFFICES ASSUME Loader!Init PROVE LoaderInv
  OBVIOUS
<1>1. PICK n \in 1..MaxFiles : files \in [1..n -> Samples]
  BY DEF Loader!Init
<1>2. files \in Seq(Samples) /\ Len(files) = n
  BY <1>1
<1>3. FilesInv
  BY <1>2 DEF Loader!Init, FilesInv
<1>4. NotesInv /\ BufferInv
  <2>1. \A m \in Loader!Midis : notes[m] = <<>>
    BY DEF Loader!Init
  <2>2. \A i \in Scanned : buffer[i] = 0
    BY <1>1, <1>2 DEF Loader!Init, Scanned
  <2>3. NotesInv
    <3>1. \A m : <<>> \in Seq(OfNote(m)) /\ 1..(Len(<<>>) - 1) = {}
      OBVIOUS
    <3> QED
      BY <2>1, <3>1 DEF NotesInv
  <2>4. BufferInv
    BY <2>1, <2>2 DEF BufferInv
  <2> QED
    BY <2>3, <2>4
<1> QED
  BY <1>3, <1>4 DEF LoaderInv

\* A step that touches neither bank nor buffers.
LEMMA BankStays ==
  ASSUME LoaderInv, UNCHANGED <<bDir, files, bLayer, notes, buffer>>,
         phase \in {"scan", "heads"} \/ UNCHANGED phase
  PROVE  LoaderInv'
<1>1. /\ Scanned' = Scanned /\ \A m : OfNote(m)' = OfNote(m)
      /\ \A ids : Loader!Nearest(ids)' = Loader!Nearest(ids)
  BY SameNearest DEF Scanned, OfNote
<1>2. FilesInv'
  BY DEF LoaderInv, FilesInv, Loader!FormatOf
<1>3. NotesInv'
  BY <1>1 DEF LoaderInv, NotesInv
<1>4. BufferInv'
  BY <1>1 DEF LoaderInv, BufferInv
<1> QED
  BY <1>2, <1>3, <1>4 DEF LoaderInv

LEMMA MergeKeeps ==
  ASSUME LoaderInv, Loader!Merge
  PROVE  LoaderInv'
<1> DEFINE ids == SubSeq(Loader!Read, 1, Loader!Committed)
<1>1. /\ UNCHANGED <<bDir, files, bLayer, buffer>> /\ phase = "heads"
      /\ phase' \in {"done", "cache"}
      /\ \A m \in Loader!Midis : notes'[m] \in Loader!ByLoudness(Loader!Layered(m, ids))
  BY DEF Loader!Merge
<1>2. ToSetOf(ids) \subseteq Scanned
  BY CommittedAre DEF LoaderInv
<1> HIDE DEF ids
<1>3. Scanned' = Scanned /\ \A m : OfNote(m)' = OfNote(m)
  BY <1>1 DEF Scanned, OfNote
<1>4. FilesInv'
  BY <1>1 DEF LoaderInv, FilesInv, Loader!FormatOf
<1>5. NotesInv'
  <2>1. ASSUME NEW m \in Loader!Midis
        PROVE  /\ notes'[m] \in Seq(OfNote(m))
               /\ \A i \in 1..(Len(notes'[m]) - 1) :
                    files[notes'[m][i]].rms <= files[notes'[m][i + 1]].rms
    BY <1>1, <1>2, LayersSorted DEF LoaderInv
  <2> QED
    BY <1>1, <1>3, <2>1 DEF NotesInv
<1>6. BufferInv'
  <2>1. \A i \in Scanned : ~(buffer[i] > 0)
    BY <1>1 DEF LoaderInv, BufferInv
  <2> QED
    BY <1>1, <1>3, <2>1 DEF BufferInv
<1> QED
  BY <1>4, <1>5, <1>6 DEF LoaderInv

LEMMA CacheKeeps ==
  ASSUME LoaderInv, Loader!BuildCache
  PROVE  LoaderInv'
<1> DEFINE resonant == {notes[m][Loader!Nearest(notes[m])] :
                          m \in {n \in Loader!Midis : notes[n] # <<>>}}
<1>1. UNCHANGED <<bDir, files, bLayer, notes>> /\ phase = "cache" /\ phase' = "done"
  BY DEF Loader!BuildCache
<1>2. \A i \in Scanned : i \in resonant \/ buffer'[i] = 0
  BY DEF Loader!BuildCache, Scanned
<1>3. /\ Scanned' = Scanned /\ \A m : OfNote(m)' = OfNote(m)
      /\ \A ids : Loader!Nearest(ids)' = Loader!Nearest(ids)
  BY <1>1, SameNearest DEF Scanned, OfNote
<1>4. FilesInv' /\ NotesInv'
  BY <1>1, <1>3 DEF LoaderInv, FilesInv, Loader!FormatOf, NotesInv
<1>5. BufferInv'
  <2>1. ASSUME NEW i \in Scanned, buffer'[i] > 0
        PROVE  \E m \in Loader!Midis :
                 notes[m] # <<>> /\ i = notes[m][Loader!Nearest(notes[m])]
    <3>1. i \in resonant
      BY <1>2, <2>1
    <3> QED
      BY <3>1
  <2>2. \A m : Loader!Nearest(notes[m])' = Loader!Nearest(notes[m])
    BY <1>1 DEF Loader!Nearest
  <2> QED
    BY <1>1, <1>3, <2>1, <2>2 DEF BufferInv
<1> QED
  BY <1>4, <1>5 DEF LoaderInv

\* BankLoader: whatever files, budgets and workers there are, a key struck harder
\* plays no quieter sample, and at most the nearest layer of a note resonates.
THEOREM HarderIsLouder == Loader!Spec => []LouderIsLouder
<1>1. LoaderInv /\ [Loader!Next]_(Loader!vars) => LoaderInv'
  <2> SUFFICES ASSUME LoaderInv, [Loader!Next]_(Loader!vars) PROVE LoaderInv'
    OBVIOUS
  <2>1. CASE Loader!Scan
    BY <2>1, BankStays DEF Loader!Scan
  <2>2. ASSUME NEW w \in Workers, Loader!Work(w) PROVE LoaderInv'
    BY <2>2, BankStays DEF Loader!Work, Loader!TakeIndex, Loader!Weigh, Loader!ReadHead
  <2>3. CASE UNCHANGED Loader!vars
    BY <2>3, BankStays DEF Loader!vars
  <2> QED
    BY <2>1, <2>2, <2>3, MergeKeeps, CacheKeeps DEF Loader!Next
<1>2. ASSUME LoaderInv, NEW m \in Loader!Midis, notes[m] # <<>>,
             NEW v \in 0..127, NEW w \in 0..127, v < w
      PROVE  files[Loader!Played(m, v)].rms <= files[Loader!Played(m, w)].rms
  <2>1. PICK n \in Nat \ {0} : notes[m] \in Seq(OfNote(m)) /\ n = Len(notes[m])
    BY <1>2 DEF LoaderInv, NotesInv
  <2> DEFINE f == [i \in 1..n |-> files[notes[m][i]].rms]
  <2>2. f \in [1..n -> Nat]
    BY <1>2, <2>1, FileFacts DEF LoaderInv, OfNote
  <2>3. \A i \in 1..(n - 1) : f[i] <= f[i + 1]
    BY <1>2, <2>1 DEF LoaderInv, NotesInv
  <2>4. /\ Loader!SlotOf(v, n) \in 1..n /\ Loader!SlotOf(w, n) \in 1..n
        /\ Loader!SlotOf(v, n) <= Loader!SlotOf(w, n)
    <3>1. v <= w
      BY <1>2
    <3> QED
      BY <2>1, <3>1, SlotsRise
  <2> HIDE DEF f
  <2>5. f[Loader!SlotOf(v, n)] <= f[Loader!SlotOf(w, n)]
    BY <2>1, <2>2, <2>3, <2>4, StepsRise
  <2> QED
    BY <2>1, <2>4, <2>5 DEF f, Loader!Played
<1>3. ASSUME LoaderInv, NEW m \in Loader!Midis, NEW i \in Loader!ToSet(notes[m]),
             buffer[i] > 0
      PROVE  i = notes[m][Loader!Nearest(notes[m])]
  <2>1. i \in OfNote(m)
    BY <1>3 DEF Loader!ToSet, LoaderInv, NotesInv
  <2>2. PICK k \in Loader!Midis :
          notes[k] # <<>> /\ i = notes[k][Loader!Nearest(notes[k])]
    BY <1>3, <2>1 DEF LoaderInv, BufferInv, OfNote
  <2>3. notes[k] \in Seq(OfNote(k))
    BY <1>3 DEF LoaderInv, NotesInv
  <2>4. notes[k] \in Seq(Scanned)
    BY <2>3 DEF OfNote
  <2>5. Loader!Nearest(notes[k]) \in 1..Len(notes[k])
    BY <1>3, <2>2, <2>4, NearestIs DEF LoaderInv
  <2>6. i \in OfNote(k)
    BY <2>2, <2>3, <2>5
  <2> QED
    BY <2>1, <2>2, <2>6 DEF OfNote
<1>4. LoaderInv => LouderIsLouder
  <2> DEFINE probes == {0, 1, 31, 32, 63, 64, 95, 96, 126, 127}
  <2>1. probes \subseteq 0..127
    OBVIOUS
  <2>2. LoaderInv => Loader!LouderIsLouder
    <3>1. Loader!LouderIsLouder <=>
            (Loader!Loaded => \A m \in Loader!Midis : notes[m] # <<>> =>
               \A v, w \in probes : v < w =>
                 files[Loader!Played(m, v)].rms <= files[Loader!Played(m, w)].rms)
      BY DEF Loader!LouderIsLouder
    <3> HIDE DEF probes
    <3> QED
      BY <1>2, <2>1, <3>1
  <2>3. LoaderInv => Loader!OneBuffer
    BY <1>3 DEF Loader!OneBuffer
  <2> QED
    BY <2>2, <2>3 DEF LouderIsLouder
<1> QED
  BY <1>1, <1>4, LoaderInit, PTL DEF Loader!Spec

-----------------------------------------------------------------------------
(* BankLoader: what a complete bank has in it.                             *)

LEMMA SumsExist ==
  ASSUME NEW h, NEW n \in Nat
  PROVE  \E g : g = [k \in 0 .. n |-> IF k = 0 THEN 0 ELSE g[k - 1] + h[k]]
<1> DEFINE Upto(m) == \E g : g = [k \in 0 .. m |-> IF k = 0 THEN 0 ELSE g[k - 1] + h[k]]
<1>1. Upto(0)
  <2> DEFINE g == [k \in 0 .. 0 |-> 0]
  <2>1. g = [k \in 0 .. 0 |-> IF k = 0 THEN 0 ELSE g[k - 1] + h[k]]
    OBVIOUS
  <2> HIDE DEF g
  <2> QED
    BY <2>1
<1>2. ASSUME NEW m \in Nat, Upto(m)
      PROVE  Upto(m + 1)
  <2>1. PICK g : g = [k \in 0 .. m |-> IF k = 0 THEN 0 ELSE g[k - 1] + h[k]]
    BY <1>2
  <2> HIDE DEF Upto
  <2>0. m \in 0 .. (m + 1) /\ m + 1 \in 0 .. (m + 1) /\ m # m + 1 /\ m + 1 # 0
        /\ (m + 1) - 1 = m
    OBVIOUS
  <2> DEFINE e == [k \in 0 .. (m + 1) |-> IF k = m + 1 THEN g[m] + h[m + 1] ELSE g[k]]
             f == [k \in 0 .. (m + 1) |-> IF k = 0 THEN 0 ELSE e[k - 1] + h[k]]
  <2>2. ASSUME NEW k \in 0 .. (m + 1)
        PROVE  e[k] = f[k]
    <3>1. CASE k = 0
      <4>1. e[0] = g[0] /\ f[0] = 0
        BY <3>1
      <4>2. g[0] = 0
        BY <2>1
      <4> QED
        BY <3>1, <4>1, <4>2
    <3>2. CASE k = m + 1
      <4>1. e[m + 1] = g[m] + h[m + 1] /\ e[m] = g[m]
        BY <2>0
      <4>2. f[m + 1] = e[m] + h[m + 1]
        <5> HIDE DEF e
        <5> QED
          BY <2>0
      <4> QED
        BY <3>2, <4>1, <4>2
    <3>3. CASE k # 0 /\ k # m + 1
      <4>1. k \in 1 .. m /\ k - 1 \in 0 .. m
        BY <3>3
      <4>2. e[k] = g[k] /\ e[k - 1] = g[k - 1]
        BY <4>1
      <4>3. f[k] = e[k - 1] + h[k]
        BY <4>1
      <4>4. g[k] = g[k - 1] + h[k]
        BY <2>1, <4>1
      <4> QED
        BY <4>2, <4>3, <4>4
    <3> QED
      BY <3>1, <3>2, <3>3
  <2>3. e = f
    <3>1. DOMAIN e = DOMAIN f
      OBVIOUS
    <3> QED
      BY <2>2, <3>1
  <2> HIDE DEF e
  <2> QED
    BY <2>3 DEF Upto
<1>3. Upto(n)
  <2> DEFINE T == {m \in 0 .. n : Upto(m)}
  <2> HIDE DEF Upto
  <2>1. ASSUME NEW m \in 0 .. n, \A k \in 0 .. (m - 1) : k \in T
        PROVE  m \in T
    <3>1. CASE m = 0
      BY <1>1, <3>1
    <3>2. CASE m # 0
      <4>1. m - 1 \in Nat /\ m - 1 \in 0 .. (m - 1) /\ (m - 1) + 1 = m
        BY <3>2
      <4>2. Upto((m - 1) + 1)
        BY <1>2, <2>1, <4>1
      <4> QED
        BY <4>1, <4>2
    <3> QED
      BY <3>1, <3>2
  <2>2. 0 .. n \subseteq T
    <3> HIDE DEF T
    <3> QED
      BY <2>1, Climbs
  <2> QED
    BY <2>2
<1> QED
  BY <1>3

LEMMA SumsAre ==
  ASSUME NEW n \in Nat, NEW h \in [1 .. n -> Int]
  PROVE  /\ Loader!Sums(h)[0] = 0
         /\ \A k \in 1 .. n : Loader!Sums(h)[k] = Loader!Sums(h)[k - 1] + h[k]
         /\ \A k \in 0 .. n : Loader!Sums(h)[k] \in Int
<1> DEFINE s == Loader!Sums(h)
<1>0. Len(h) = n
  OBVIOUS
<1>1. s = CHOOSE g : g = [k \in 0 .. n |-> IF k = 0 THEN 0 ELSE g[k - 1] + h[k]]
  BY <1>0 DEF Loader!Sums
<1>2. s = [k \in 0 .. n |-> IF k = 0 THEN 0 ELSE s[k - 1] + h[k]]
  <2> HIDE DEF s
  <2> QED
    BY <1>1, SumsExist, Zenon
<1> HIDE DEF s
<1>3. s[0] = 0
  BY <1>2
<1>4. \A k \in 1 .. n : s[k] = s[k - 1] + h[k]
  BY <1>2
<1>5. \A k \in 0 .. n : s[k] \in Int
  <2> DEFINE T == {k \in 0 .. n : s[k] \in Int}
  <2>1. ASSUME NEW m \in 0 .. n, \A k \in 0 .. (m - 1) : k \in T
        PROVE  m \in T
    <3>1. CASE m = 0
      BY <1>3, <3>1
    <3>2. CASE m # 0
      <4>1. m - 1 \in 0 .. (m - 1) /\ m \in 1 .. n
        BY <3>2
      <4>2. s[m - 1] \in Int /\ h[m] \in Int
        BY <2>1, <4>1
      <4> QED
        BY <1>4, <4>1, <4>2
    <3> QED
      BY <3>1, <3>2
  <2>2. 0 .. n \subseteq T
    <3> HIDE DEF T
    <3> QED
      BY <2>1, Climbs
  <2> QED
    BY <2>2
<1> QED
  BY <1>3, <1>4, <1>5 DEF s

LEMMA SumsAtZero ==
  ASSUME NEW n \in Nat, NEW h, Len(h) = n
  PROVE  Loader!Sums(h)[0] = 0
<1> DEFINE s == Loader!Sums(h)
<1>1. s = CHOOSE g : g = [k \in 0 .. n |-> IF k = 0 THEN 0 ELSE g[k - 1] + h[k]]
  BY DEF Loader!Sums
<1>2. s = [k \in 0 .. n |-> IF k = 0 THEN 0 ELSE s[k - 1] + h[k]]
  <2> HIDE DEF s
  <2> QED
    BY <1>1, SumsExist, Zenon
<1> HIDE DEF s
<1> QED
  BY <1>2 DEF s

\* One number that grows by d lets the sum grow by d.
LEMMA SumsGrow ==
  ASSUME NEW n \in Nat, NEW f \in [1 .. n -> Int], NEW g \in [1 .. n -> Int],
         NEW j \in 1 .. n, NEW d \in Int, g[j] = f[j] + d,
         \A i \in 1 .. n : i # j => g[i] = f[i]
  PROVE  Loader!Sums(g)[n] = Loader!Sums(f)[n] + d
<1>1. PICK a, b : a = Loader!Sums(f) /\ b = Loader!Sums(g)
  OBVIOUS
<1>2. /\ a[0] = 0 /\ b[0] = 0
      /\ \A k \in 1 .. n : a[k] = a[k - 1] + f[k] /\ b[k] = b[k - 1] + g[k]
      /\ \A k \in 0 .. n : a[k] \in Int /\ b[k] \in Int
  BY <1>1, SumsAre
<1> DEFINE T == {k \in 0 .. n : b[k] = a[k] + (IF k < j THEN 0 ELSE d)}
<1>3. ASSUME NEW m \in 0 .. n, \A k \in 0 .. (m - 1) : k \in T
      PROVE  m \in T
  <2>1. CASE m = 0
    BY <1>2, <2>1
  <2>2. CASE m # 0
    <3>1. m - 1 \in 0 .. (m - 1) /\ m - 1 \in 0 .. n /\ m \in 1 .. n
      BY <2>2
    <3>2. b[m - 1] = a[m - 1] + (IF m - 1 < j THEN 0 ELSE d)
      BY <1>3, <3>1
    <3>3. a[m] = a[m - 1] + f[m] /\ b[m] = b[m - 1] + g[m]
      BY <1>2, <3>1
    <3>4. PICK p \in Int, q \in Int, u \in Int, v \in Int :
            p = a[m - 1] /\ q = b[m - 1] /\ u = f[m] /\ v = g[m]
      BY <1>2, <3>1
    <3>5. v = IF m = j THEN u + d ELSE u
      BY <3>1, <3>4
    <3>6. q + v = (p + u) + (IF m < j THEN 0 ELSE d)
      <4>1. q = p + (IF m - 1 < j THEN 0 ELSE d)
        BY <3>2, <3>4
      <4>2. CASE m = j
        <5>1. m - 1 < j /\ ~(m < j)
          BY <4>2
        <5> QED
          BY <3>5, <4>1, <4>2, <5>1
      <4>3. CASE m < j
        <5>1. m - 1 < j /\ m # j
          BY <4>3
        <5> QED
          BY <3>5, <4>1, <4>3, <5>1
      <4>4. CASE j < m
        <5>1. ~(m - 1 < j) /\ ~(m < j) /\ m # j
          BY <4>4
        <5> QED
          BY <3>5, <4>1, <5>1
      <4> QED
        BY <4>2, <4>3, <4>4
    <3> QED
      BY <3>3, <3>4, <3>6
  <2> QED
    BY <2>1, <2>2
<1>4. 0 .. n \subseteq T
  <2> HIDE DEF T
  <2> QED
    BY <1>3, Climbs
<1>5. n \in T /\ ~(n < j)
  BY <1>4
<1> QED
  BY <1>1, <1>5

LEMMA SumsOfNone ==
  ASSUME NEW n \in Nat, NEW f \in [1 .. n -> Int], \A i \in 1 .. n : f[i] = 0
  PROVE  Loader!Sums(f)[n] = 0
<1>1. PICK a : a = Loader!Sums(f)
  OBVIOUS
<1>2. a[0] = 0 /\ \A k \in 1 .. n : a[k] = a[k - 1] + f[k]
  BY <1>1, SumsAre
<1> DEFINE T == {k \in 0 .. n : a[k] = 0}
<1>3. ASSUME NEW m \in 0 .. n, \A k \in 0 .. (m - 1) : k \in T
      PROVE  m \in T
  <2>1. CASE m = 0
    BY <1>2, <2>1
  <2>2. CASE m # 0
    <3>1. m - 1 \in 0 .. (m - 1) /\ m \in 1 .. n
      BY <2>2
    <3> QED
      BY <1>2, <1>3, <3>1
  <2> QED
    BY <2>1, <2>2
<1>4. 0 .. n \subseteq T
  <2> HIDE DEF T
  <2> QED
    BY <1>3, Climbs
<1> QED
  BY <1>1, <1>4

\* What is put in the order of the scan is the whole set.
LEMMA InOrderHasAll ==
  ASSUME NEW S \in SUBSET Nat, IsFiniteSet(S), NEW x \in S
  PROVE  \E k \in 1 .. Cardinality(S) : Loader!InOrder(S)[k] = x
<1> DEFINE n == Cardinality(S)
           s == Loader!InOrder(S)
<1>1. n \in Nat /\ s \in [1 .. n -> S] /\ Ascends(s)
  BY InOrderIs
<1> HIDE DEF n, s
<1>2. s \in Injection(1 .. n, S)
  <2>1. ASSUME NEW i \in 1 .. n, NEW j \in 1 .. n, s[i] = s[j]
        PROVE  i = j
    <3>1. s[i] \in Nat /\ s[j] \in Nat
      BY <1>1
    <3>2. ~(i < j) /\ ~(j < i)
      BY <1>1, <2>1, <3>1 DEF Ascends
    <3> QED
      BY <3>2
  <2> QED
    BY <1>1, <2>1 DEF Injection, IsInjective
<1>3. Cardinality(1 .. n) = n
  BY <1>1, FS_Interval
<1>4. s \in Surjection(1 .. n, S)
  BY <1>1, <1>2, <1>3, FS_Injection DEF n
<1> QED
  BY <1>1, <1>4 DEF Surjection, n, s

\* What the heads of some files take.
HeadsIn(fs, S) ==
  Loader!Sums([i \in 1 .. Len(fs) |-> IF i \in S THEN Loader!HeadOf(fs[i]) ELSE 0])[Len(fs)]

LEMMA HeadsAre ==
  ASSUME NEW fs \in Seq(Samples)
  PROVE  /\ \A i \in 1 .. Len(fs) : Loader!HeadOf(fs[i]) \in Nat
         /\ HeadsIn(fs, {}) = 0
         /\ \A S \in SUBSET (1 .. Len(fs)) : HeadsIn(fs, S) \in Int
         /\ HeadsIn(fs, 1 .. Len(fs))
              = Loader!Sums([i \in 1 .. Len(fs) |-> Loader!HeadOf(fs[i])])[Len(fs)]
<1>0. PICK n \in Nat : n = Len(fs)
  OBVIOUS
<1>1. ASSUME NEW i \in 1 .. n PROVE Loader!HeadOf(fs[i]) \in Nat
  <2>1. fs[i] \in Samples
    BY <1>0
  <2> QED
    BY <2>1, BankAssumption DEF Loader!HeadOf
<1>2. ASSUME NEW S
      PROVE  [i \in 1 .. n |-> IF i \in S THEN Loader!HeadOf(fs[i]) ELSE 0] \in [1 .. n -> Int]
  BY <1>1
<1>3. HeadsIn(fs, {}) = 0
  <2> DEFINE f == [i \in 1 .. n |-> IF i \in {} THEN Loader!HeadOf(fs[i]) ELSE 0]
  <2>1. f \in [1 .. n -> Int] /\ \A i \in 1 .. n : f[i] = 0
    OBVIOUS
  <2>2. HeadsIn(fs, {}) = Loader!Sums(f)[n]
    BY <1>0 DEF HeadsIn
  <2> HIDE DEF f
  <2> QED
    BY <2>1, <2>2, SumsOfNone
<1>4. ASSUME NEW S PROVE HeadsIn(fs, S) \in Int
  <2> DEFINE f == [i \in 1 .. n |-> IF i \in S THEN Loader!HeadOf(fs[i]) ELSE 0]
  <2>1. f \in [1 .. n -> Int]
    BY <1>2
  <2>2. HeadsIn(fs, S) = Loader!Sums(f)[n]
    BY <1>0 DEF HeadsIn
  <2>3. n \in 0 .. n
    OBVIOUS
  <2> HIDE DEF f
  <2> QED
    BY <2>1, <2>2, <2>3, SumsAre
<1>5. HeadsIn(fs, 1 .. n) = Loader!Sums([i \in 1 .. n |-> Loader!HeadOf(fs[i])])[n]
  <2> DEFINE f == [i \in 1 .. n |-> IF i \in 1 .. n THEN Loader!HeadOf(fs[i]) ELSE 0]
             g == [i \in 1 .. n |-> Loader!HeadOf(fs[i])]
  <2>1. f = g
    OBVIOUS
  <2>2. HeadsIn(fs, 1 .. n) = Loader!Sums(f)[n]
    BY <1>0 DEF HeadsIn
  <2> HIDE DEF f
  <2> QED
    BY <2>1, <2>2
<1> QED
  BY <1>0, <1>1, <1>3, <1>4, <1>5

LEMMA HeadsGrow ==
  ASSUME NEW fs \in Seq(Samples), NEW S, NEW j \in 1 .. Len(fs), j \notin S
  PROVE  HeadsIn(fs, S \cup {j}) = HeadsIn(fs, S) + Loader!HeadOf(fs[j])
<1>0. PICK n \in Nat : n = Len(fs)
  OBVIOUS
<1>1. \A i \in 1 .. n : Loader!HeadOf(fs[i]) \in Nat
  BY <1>0, HeadsAre
<1> DEFINE f == [i \in 1 .. n |-> IF i \in S THEN Loader!HeadOf(fs[i]) ELSE 0]
           g == [i \in 1 .. n |-> IF i \in S \cup {j} THEN Loader!HeadOf(fs[i]) ELSE 0]
           d == Loader!HeadOf(fs[j])
<1>2. f \in [1 .. n -> Int] /\ g \in [1 .. n -> Int]
  BY <1>1
<1>3. d \in Int /\ j \in 1 .. n
  BY <1>0, <1>1
<1>4. f[j] = 0 /\ g[j] = d
  BY <1>3
<1>5. \A i \in 1 .. n : i # j => g[i] = f[i]
  OBVIOUS
<1>6. HeadsIn(fs, S) = Loader!Sums(f)[n] /\ HeadsIn(fs, S \cup {j}) = Loader!Sums(g)[n]
  BY <1>0 DEF HeadsIn
<1> HIDE DEF f, g, d
<1>7. g[j] = f[j] + d
  BY <1>3, <1>4
<1>8. Loader!Sums(g)[n] = Loader!Sums(f)[n] + d
  BY <1>2, <1>3, <1>5, <1>7, SumsGrow
<1> QED
  BY <1>6, <1>8 DEF d

-----------------------------------------------------------------------------
(* The workers, and what they have let in. *)

Doing(i, what) == \E w \in Workers : task[w] = [file |-> i, at |-> what]
Weighed == {i \in Scanned : i < next /\ ~Doing(i, "weigh")}
Accepted == {i \in Weighed : prepared[i] # None \/ Doing(i, "read")}

\* No head takes more than half the budget.
SmallHeads == \A i \in Scanned : 2 * Loader!HeadOf(files[i]) <= bBudget \/ bBudget = 0

\* Each file is in the hands of one worker at most, and of none once it is read.
TasksInv ==
  /\ next \in 1 .. (Len(files) + 1)
  /\ DOMAIN task = Workers /\ DOMAIN prepared = Scanned
  /\ \A w \in Workers :
       task[w] # None => task[w] \in [file : 1 .. (next - 1), at : {"weigh", "read"}]
  /\ \A v, w \in Workers :
       v # w /\ task[v] # None /\ task[w] # None => task[v].file # task[w].file
  /\ \A i \in Scanned : prepared[i] # None =>
       i < next /\ \A w \in Workers : task[w] # None => task[w].file # i
  /\ Loader!Whole => \A i \in Scanned : prepared[i] \in {None, Loader!HeadOf(files[i])}

\* What was counted is what was announced; as long as nobody was turned away all
\* that was weighed is let in, and who was turned away found the budget spent.
WeightInv ==
  /\ bBudget \in Nat
  /\ Loader!Whole =>
       /\ bBudget > 0 => approx = HeadsIn(files, Weighed)
       /\ \/ Accepted = Weighed
          \/ /\ bBudget > 0 /\ approx > 2 * bBudget
             /\ SmallHeads => 2 * HeadsIn(files, Accepted) > 3 * bBudget

ReadingInv == TasksInv /\ WeightInv

LEMMA ReadingInit == Loader!Init => ReadingInv
<1> SUFFICES ASSUME Loader!Init PROVE ReadingInv
  OBVIOUS
<1>1. PICK n \in 1 .. MaxFiles : files \in [1 .. n -> Samples]
  BY DEF Loader!Init
<1>2. n \in Nat /\ files \in Seq(Samples) /\ Len(files) = n /\ Scanned = 1 .. n
  BY <1>1, BankAssumption DEF Scanned
<1>3. /\ next = 1 /\ task = [w \in Workers |-> None] /\ approx = 0
      /\ prepared = [i \in Scanned |-> None]
  BY <1>2 DEF Loader!Init
<1>4. TasksInv
  BY <1>2, <1>3 DEF TasksInv
<1>5. Weighed = {}
  BY <1>2, <1>3 DEF Weighed
<1>6. Accepted = {}
  BY <1>5 DEF Accepted
<1>7. bBudget \in Nat
  BY BankAssumption DEF Loader!Init
<1>8. HeadsIn(files, Weighed) = 0
  BY <1>2, <1>5, HeadsAre
<1> QED
  BY <1>3, <1>4, <1>5, <1>6, <1>7, <1>8 DEF ReadingInv, WeightInv

\* A file has a number, and a task is not none.
LEMMA TaskIs ==
  ASSUME NEW i \in Scanned, FilesInv, NEW what \in {"weigh", "read"}
  PROVE  [file |-> i, at |-> what] # None /\ i \in Nat
<1>1. i \in Nat
  BY FileFacts
<1>2. [file |-> i, at |-> what] \in [file : Nat, at : {"weigh", "read"}]
  BY <1>1
<1> QED
  BY <1>1, <1>2, BankAssumption

LEMMA TakeKeeps ==
  ASSUME FilesInv, ReadingInv, NEW w \in Workers, Loader!TakeIndex(w)
  PROVE  ReadingInv'
<1> USE DEF ReadingInv
<1>1. /\ task[w] = None /\ next <= Len(files)
      /\ task' = [task EXCEPT ![w] = [file |-> next, at |-> "weigh"]]
      /\ next' = next + 1
      /\ UNCHANGED <<files, bBudget, approx, prepared>>
  BY DEF Loader!TakeIndex
<1>2. /\ Scanned' = Scanned /\ Scanned = 1 .. Len(files) /\ Len(files) \in Nat
      /\ next \in 1 .. (Len(files) + 1) /\ next \in Scanned
  BY <1>1, FileFacts DEF Scanned, TasksInv
<1>3. /\ task'[w] = [file |-> next, at |-> "weigh"]
      /\ \A u \in Workers : u # w => task'[u] = task[u]
  BY <1>1 DEF TasksInv
<1>4. TasksInv'
  <2>1. \A u \in Workers : u # w /\ task[u] # None => task[u].file < next
    BY <1>2 DEF TasksInv
  <2>2. prepared[next] = None
    BY <1>2 DEF TasksInv
  <2>3. /\ next' \in 1 .. (Len(files') + 1)
        /\ DOMAIN task' = Workers /\ DOMAIN prepared' = Scanned'
    BY <1>1, <1>2 DEF TasksInv
  <2>4. ASSUME NEW u \in Workers, task'[u] # None
        PROVE  task'[u] \in [file : 1 .. (next' - 1), at : {"weigh", "read"}]
    <3>1. CASE u = w
      BY <1>1, <1>2, <1>3, <3>1
    <3>2. CASE u # w
      <4>1. task[u] \in [file : 1 .. (next - 1), at : {"weigh", "read"}]
        BY <1>3, <2>4, <3>2 DEF TasksInv
      <4> QED
        BY <1>1, <1>2, <1>3, <3>2, <4>1
    <3> QED
      BY <3>1, <3>2
  <2>5. ASSUME NEW u \in Workers, NEW v \in Workers, u # v, task'[u] # None, task'[v] # None
        PROVE  task'[u].file # task'[v].file
    BY <1>2, <1>3, <2>1, <2>5 DEF TasksInv
  <2>6. ASSUME NEW i \in Scanned, prepared[i] # None
        PROVE  i < next' /\ \A u \in Workers : task'[u] # None => task'[u].file # i
    BY <1>1, <1>2, <1>3, <2>2, <2>6 DEF TasksInv
  <2>7. Loader!Whole' => Loader!Whole
    BY <1>1 DEF Loader!Whole
  <2> QED
    BY <1>1, <1>2, <2>3, <2>4, <2>5, <2>6, <2>7 DEF TasksInv
<1>5. ASSUME NEW i \in Scanned
      PROVE  /\ Doing(i, "weigh")' <=> Doing(i, "weigh") \/ i = next
             /\ Doing(i, "read")' <=> Doing(i, "read")
  <2>1. [file |-> i, at |-> "weigh"] # None /\ [file |-> i, at |-> "read"] # None
    BY TaskIs
  <2>2. [file |-> next, at |-> "weigh"] # [file |-> i, at |-> "read"]
    OBVIOUS
  <2>3. [file |-> next, at |-> "weigh"] = [file |-> i, at |-> "weigh"] <=> i = next
    OBVIOUS
  <2> QED
    BY <1>1, <1>3, <2>1, <2>2, <2>3 DEF Doing
<1>6. Weighed' = Weighed
  BY <1>1, <1>2, <1>5 DEF Weighed
<1>7. Accepted' = Accepted
  BY <1>1, <1>5, <1>6 DEF Accepted, Weighed
<1>8. WeightInv'
  BY <1>1, <1>2, <1>6, <1>7 DEF WeightInv, Loader!Whole, SmallHeads
<1> QED
  BY <1>4, <1>8

LEMMA WeighKeeps ==
  ASSUME FilesInv, ReadingInv, NEW w \in Workers, Loader!Weigh(w)
  PROVE  ReadingInv'
<1> USE DEF ReadingInv
<1>1. PICK f : f = task[w].file
  OBVIOUS
<1>2. /\ task[w] = [file |-> f, at |-> "weigh"] /\ task[w] # None
      /\ f \in Scanned /\ f \in Nat /\ f < next
      /\ Scanned' = Scanned /\ Scanned = 1 .. Len(files) /\ Len(files) \in Nat
      /\ files \in Seq(Samples)
  <2>1. task[w] \in [file : 1 .. (next - 1), at : {"weigh", "read"}]
        /\ task[w].at = "weigh" /\ task[w] # None
    BY DEF Loader!Weigh, TasksInv
  <2>2. next \in 1 .. (Len(files) + 1) /\ Scanned = 1 .. Len(files) /\ Len(files) \in Nat
    BY FileFacts DEF TasksInv
  <2>3. UNCHANGED files
    BY DEF Loader!Weigh
  <2> QED
    BY <1>1, <2>1, <2>2, <2>3 DEF Scanned, FilesInv
<1> DEFINE weight == approx + Loader!HeadOf(files[f])
           known == files[f].is # "headerless"
           refused == ~(known /\ ~Loader!Refused(weight))
<1>3. /\ approx' = IF known /\ bBudget > 0 THEN weight ELSE approx
      /\ task' = [task EXCEPT ![w] = IF refused THEN None
                                     ELSE [file |-> f, at |-> "read"]]
      /\ UNCHANGED <<files, bBudget, next, prepared>>
  <2>1. [task[w] EXCEPT !.at = "read"] = [file |-> f, at |-> "read"]
    BY <1>2
  <2>2. /\ approx' = IF known /\ bBudget > 0 THEN weight ELSE approx
        /\ task' = [task EXCEPT ![w] = IF known /\ ~Loader!Refused(weight)
                                       THEN [task[w] EXCEPT !.at = "read"] ELSE None]
        /\ UNCHANGED <<files, bBudget, next, prepared>>
    BY <1>1 DEF Loader!Weigh
  <2> HIDE DEF known, weight
  <2> QED
    BY <2>1, <2>2
<1>4. /\ task'[w] = IF refused THEN None ELSE [file |-> f, at |-> "read"]
      /\ \A u \in Workers : u # w => task'[u] = task[u]
  BY <1>3 DEF TasksInv
<1>5. PICK h \in Nat : h = Loader!HeadOf(files[f])
  BY <1>2, HeadsAre
<1>6. /\ \A u \in Workers : u # w => task[u] = None \/ task[u].file # f
      /\ prepared[f] = None
  BY <1>2 DEF TasksInv
<1>7. TasksInv'
  <2>1. /\ next' \in 1 .. (Len(files') + 1)
        /\ DOMAIN task' = Workers /\ DOMAIN prepared' = Scanned'
    BY <1>2, <1>3 DEF TasksInv
  <2>2. ASSUME NEW u \in Workers, task'[u] # None
        PROVE  /\ task[u] # None /\ task'[u].file = task[u].file
               /\ task'[u] \in [file : 1 .. (next' - 1), at : {"weigh", "read"}]
    <3>1. CASE u = w
      <4>1. task'[u] = [file |-> f, at |-> "read"]
        BY <1>4, <2>2, <3>1
      <4>2. f \in 1 .. (next' - 1)
        BY <1>2, <1>3 DEF TasksInv
      <4> QED
        BY <1>2, <3>1, <4>1, <4>2
    <3>2. CASE u # w
      <4>1. task'[u] = task[u]
        BY <1>4, <3>2
      <4> QED
        BY <1>3, <2>2, <4>1 DEF TasksInv
    <3> QED
      BY <3>1, <3>2
  <2>3. ASSUME NEW u \in Workers, NEW v \in Workers, u # v, task'[u] # None, task'[v] # None
        PROVE  task'[u].file # task'[v].file
    BY <2>2, <2>3 DEF TasksInv
  <2>4. ASSUME NEW i \in Scanned, prepared[i] # None
        PROVE  i < next /\ \A u \in Workers : task'[u] # None => task'[u].file # i
    BY <2>2, <2>4 DEF TasksInv
  <2>5. Loader!Whole' => Loader!Whole
    BY <1>3 DEF Loader!Whole
  <2> QED
    BY <1>2, <1>3, <2>1, <2>2, <2>3, <2>4, <2>5 DEF TasksInv
<1>8. ASSUME NEW i \in Scanned
      PROVE  /\ Doing(i, "weigh")' <=> Doing(i, "weigh") /\ i # f
             /\ Doing(i, "read")' <=> Doing(i, "read") \/ (i = f /\ ~refused)
  <2>1. [file |-> i, at |-> "weigh"] # None /\ [file |-> i, at |-> "read"] # None
    BY TaskIs
  <2>2. /\ [file |-> f, at |-> "read"] # [file |-> i, at |-> "weigh"]
        /\ [file |-> f, at |-> "weigh"] # [file |-> i, at |-> "read"]
        /\ [file |-> f, at |-> "read"] = [file |-> i, at |-> "read"] <=> i = f
        /\ [file |-> f, at |-> "weigh"] = [file |-> i, at |-> "weigh"] <=> i = f
    OBVIOUS
  <2>3. \A u \in Workers : u # w => task[u] # [file |-> f, at |-> "weigh"]
    BY <1>2, <1>6
  <2> HIDE DEF refused
  <2>4. Doing(i, "weigh")' <=> Doing(i, "weigh") /\ i # f
    BY <1>2, <1>3, <1>4, <1>6, <2>1, <2>2, <2>3 DEF Doing
  <2>5. Doing(i, "read")' <=> Doing(i, "read") \/ (i = f /\ ~refused)
    BY <1>2, <1>3, <1>4, <2>1, <2>2 DEF Doing
  <2> QED
    BY <2>4, <2>5
<1>9. f \notin Weighed /\ Weighed' = Weighed \cup {f}
  <2>1. Doing(f, "weigh")
    BY <1>2 DEF Doing
  <2> QED
    BY <1>2, <1>3, <1>8, <2>1 DEF Weighed
<1>10. Accepted' = IF refused THEN Accepted ELSE Accepted \cup {f}
  <2>1. ~Doing(f, "read")
    BY <1>2, <1>6, TaskIs DEF Doing
  <2>2. f \notin Accepted
    BY <1>9 DEF Accepted
  <2> HIDE DEF refused
  <2>3. CASE refused
    BY <1>2, <1>3, <1>6, <1>8, <1>9, <2>1, <2>3 DEF Accepted, Weighed
  <2>4. CASE ~refused
    BY <1>2, <1>3, <1>6, <1>8, <1>9, <2>1, <2>4 DEF Accepted, Weighed
  <2> QED
    BY <2>3, <2>4
<1>11. HeadsIn(files, Weighed') = HeadsIn(files, Weighed) + h
  BY <1>2, <1>5, <1>9, HeadsGrow
<1>12. PICK b \in Nat, a \in Int, v \in Int :
         b = bBudget /\ a = HeadsIn(files, Accepted) /\ v = HeadsIn(files, Weighed)
  <2>1. Accepted \in SUBSET (1 .. Len(files)) /\ Weighed \in SUBSET (1 .. Len(files))
    BY <1>2 DEF Accepted, Weighed
  <2> QED
    BY <1>2, <2>1, HeadsAre DEF WeightInv
<1>13. Loader!Whole => known /\ (bBudget' > 0 => approx' = HeadsIn(files', Weighed'))
  <2> SUFFICES ASSUME Loader!Whole
               PROVE  known /\ (bBudget' > 0 => approx' = HeadsIn(files', Weighed'))
    OBVIOUS
  <2>1. known
    BY <1>2 DEF Loader!Whole, Scanned
  <2>2. bBudget > 0 => approx = HeadsIn(files, Weighed)
    BY DEF WeightInv
  <2> QED
    BY <1>3, <1>5, <1>11, <2>1, <2>2
<1>14. ASSUME Loader!Whole
       PROVE  \/ Accepted' = Weighed'
              \/ /\ b > 0 /\ approx' > 2 * b
                 /\ SmallHeads => 2 * HeadsIn(files, Accepted') > 3 * b
  <2>1. CASE ~refused
    <3>1. CASE Accepted = Weighed
      BY <1>9, <1>10, <2>1, <3>1
    <3>2. CASE b > 0 /\ approx > 2 * b
      <4>1. ~(approx + h > 2 * b)
        BY <1>5, <1>12, <1>13, <1>14, <2>1, <3>2 DEF Loader!Refused
      <4>2. approx = v
        BY <1>12, <1>14, <3>2 DEF WeightInv
      <4> QED
        BY <1>12, <1>5, <3>2, <4>1, <4>2
    <3> QED
      BY <1>12, <1>14, <3>1, <3>2 DEF WeightInv
  <2>2. CASE refused
    <3>1. b > 0 /\ v = approx /\ approx' = v + h /\ v + h > 2 * b
      <4>1. b > 0 /\ approx + h > 2 * b
        BY <1>5, <1>12, <1>13, <1>14, <2>2 DEF Loader!Refused
      <4> QED
        BY <1>3, <1>5, <1>12, <1>13, <1>14, <4>1 DEF WeightInv
    <3>2. ASSUME SmallHeads PROVE 2 * a > 3 * b
      <4>1. 2 * h <= b
        BY <1>2, <1>5, <1>12, <3>1, <3>2 DEF SmallHeads
      <4>2. CASE Accepted = Weighed
        <5>1. a = v
          BY <1>12, <4>2
        <5> HIDE DEF refused, weight, known
        <5> QED
          BY <3>1, <4>1, <5>1
      <4>3. CASE 2 * HeadsIn(files, Accepted) > 3 * bBudget
        BY <1>12, <4>3
      <4> QED
        BY <1>14, <3>2, <4>2, <4>3 DEF WeightInv
    <3>3. Accepted' = Accepted
      BY <1>10, <2>2
    <3> QED
      BY <1>12, <3>1, <3>2, <3>3
  <2> QED
    BY <2>1, <2>2
<1>15. WeightInv'
  BY <1>2, <1>3, <1>12, <1>13, <1>14 DEF WeightInv, Loader!Whole, SmallHeads
<1> QED
  BY <1>7, <1>15

LEMMA ReadKeeps ==
  ASSUME FilesInv, ReadingInv, NEW w \in Workers, Loader!ReadHead(w)
  PROVE  ReadingInv'
<1> USE DEF ReadingInv
<1>1. PICK f : f = task[w].file
  OBVIOUS
<1>2. /\ task[w] = [file |-> f, at |-> "read"] /\ task[w] # None
      /\ f \in Scanned /\ f \in Nat /\ f < next
      /\ Scanned' = Scanned /\ Scanned = 1 .. Len(files) /\ Len(files) \in Nat
      /\ files \in Seq(Samples)
  <2>1. task[w] \in [file : 1 .. (next - 1), at : {"weigh", "read"}]
        /\ task[w].at = "read" /\ task[w] # None
    BY DEF Loader!ReadHead, TasksInv
  <2>2. next \in 1 .. (Len(files) + 1) /\ Scanned = 1 .. Len(files) /\ Len(files) \in Nat
    BY FileFacts DEF TasksInv
  <2>3. UNCHANGED files
    BY DEF Loader!ReadHead
  <2> QED
    BY <1>1, <2>1, <2>2, <2>3 DEF Scanned, FilesInv
<1>3. /\ task' = [task EXCEPT ![w] = None]
      /\ \E p : /\ prepared' = [prepared EXCEPT ![f] = p]
                /\ files[f].is = "whole" => p = Loader!HeadOf(files[f])
      /\ UNCHANGED <<files, bBudget, next, approx>>
  <2>1. PICK p : /\ p = CASE files[f].is = "bad"   -> None
                          [] files[f].is = "short" -> Loader!HeadOf(files[f]) - 1
                          [] OTHER                 -> Loader!HeadOf(files[f])
                 /\ prepared' = [prepared EXCEPT ![f] = p]
    BY <1>1 DEF Loader!ReadHead
  <2>2. files[f].is = "whole" => p = Loader!HeadOf(files[f])
    BY <2>1
  <2> QED
    BY <2>1, <2>2 DEF Loader!ReadHead
<1>4. task'[w] = None /\ \A u \in Workers : u # w => task'[u] = task[u]
  BY <1>3 DEF TasksInv
<1>5. PICK p : /\ prepared' = [prepared EXCEPT ![f] = p]
               /\ files[f].is = "whole" => p = Loader!HeadOf(files[f])
  BY <1>3
<1>6. /\ prepared'[f] = p /\ \A i \in Scanned : i # f => prepared'[i] = prepared[i]
      /\ DOMAIN prepared' = Scanned
  BY <1>2, <1>5 DEF TasksInv
<1>7. TasksInv'
  <2>1. \A u \in Workers : task'[u] # None => u # w /\ task'[u] = task[u]
    BY <1>4
  <2>2. ASSUME NEW i \in Scanned, prepared'[i] # None
        PROVE  i < next /\ \A u \in Workers : task'[u] # None => task'[u].file # i
    <3>1. CASE i = f
      BY <1>2, <2>1, <3>1 DEF TasksInv
    <3>2. CASE i # f
      BY <1>6, <2>1, <2>2, <3>2 DEF TasksInv
    <3> QED
      BY <3>1, <3>2
  <2>3. Loader!Whole' => \A i \in Scanned : prepared'[i] \in {None, Loader!HeadOf(files[i])}
    BY <1>2, <1>3, <1>5, <1>6 DEF TasksInv, Loader!Whole, Scanned
  <2>4. DOMAIN task' = Workers
    BY <1>3 DEF TasksInv
  <2> QED
    BY <1>2, <1>3, <1>6, <2>1, <2>2, <2>3, <2>4 DEF TasksInv
<1>8. ASSUME NEW i \in Scanned
      PROVE  /\ Doing(i, "weigh")' <=> Doing(i, "weigh")
             /\ Doing(i, "read") <=> Doing(i, "read")' \/ i = f
  <2>1. [file |-> i, at |-> "weigh"] # None /\ [file |-> i, at |-> "read"] # None
    BY TaskIs
  <2>2. /\ [file |-> f, at |-> "read"] # [file |-> i, at |-> "weigh"]
        /\ [file |-> f, at |-> "read"] = [file |-> i, at |-> "read"] <=> i = f
    OBVIOUS
  <2> QED
    BY <1>2, <1>4, <2>1, <2>2 DEF Doing
<1>9. Weighed' = Weighed
  BY <1>2, <1>3, <1>8 DEF Weighed
<1>10. Loader!Whole => Accepted' = Accepted
  <2> SUFFICES ASSUME Loader!Whole PROVE Accepted' = Accepted
    OBVIOUS
  <2>1. p # None
    <3>1. p \in Nat
      BY <1>2, <1>5, HeadsAre DEF Loader!Whole, Scanned
    <3> QED
      BY <3>1, BankAssumption
  <2>2. \A i \in Scanned : (prepared'[i] # None \/ Doing(i, "read")')
                             <=> (prepared[i] # None \/ Doing(i, "read"))
    BY <1>6, <1>8, <2>1
  <2> QED
    BY <1>2, <1>9, <2>2 DEF Accepted, Weighed
<1>11. Loader!Whole' = Loader!Whole /\ SmallHeads' = SmallHeads
  BY <1>2, <1>3 DEF Loader!Whole, SmallHeads
<1>12. WeightInv'
  BY <1>3, <1>9, <1>10, <1>11 DEF WeightInv
<1> QED
  BY <1>7, <1>12

\* A step without workers.
LEMMA ReadingStays ==
  ASSUME ReadingInv, UNCHANGED <<files, bBudget, next, task, approx, prepared>>
  PROVE  ReadingInv'
<1>1. /\ Scanned' = Scanned /\ Weighed' = Weighed /\ Accepted' = Accepted
      /\ Loader!Whole' = Loader!Whole /\ SmallHeads' = SmallHeads
  BY DEF Scanned, Weighed, Accepted, Doing, Loader!Whole, SmallHeads
<1>2. TasksInv'
  BY <1>1 DEF ReadingInv, TasksInv
<1>3. WeightInv'
  BY <1>1 DEF ReadingInv, WeightInv
<1> QED
  BY <1>2, <1>3 DEF ReadingInv

-----------------------------------------------------------------------------
(* The bank put together. *)

\* A bank put together from some files has just these.
LEMMA BankHas ==
  ASSUME FilesInv, NEW ids, ToSetOf(ids) \subseteq Scanned,
         NEW m \in Loader!Midis, NEW s \in Loader!ByLoudness(Loader!Layered(m, ids))
  PROVE  Loader!ToSet(s) = {i \in ToSetOf(ids) : files[i].midi = m}
<1> DEFINE S == {i \in ToSetOf(ids) : files[i].midi = m}
           l == Loader!Layered(m, ids)
           n == Cardinality(S)
<1>1. S \in SUBSET Nat /\ IsFiniteSet(S)
  BY FileFacts, FS_Subset
<1>2. l = Loader!InOrder(S)
  BY DEF Loader!Layered, Loader!ToSet, ToSetOf
<1> HIDE DEF S
<1>3. /\ l \in [1 .. n -> S] /\ n \in Nat
      /\ \A x \in S : \E k \in 1 .. n : l[k] = x
  BY <1>1, <1>2, InOrderIs, InOrderHasAll
<1> HIDE DEF l, n
<1>4. Loader!ToSet(l) = S
  BY <1>3 DEF Loader!ToSet
<1>5. Loader!ToSet(s) = Loader!ToSet(l)
  <2>1. s \in Loader!ByLoudness(l)
    BY DEF l
  <2>2. CASE Loader!FormatOf(bDir) = "packed"
    BY <2>1, <2>2 DEF Loader!ByLoudness
  <2>3. CASE Loader!FormatOf(bDir) # "packed"
    <3>1. s \in {p \in [1 .. Len(l) -> Loader!ToSet(l)] :
                  /\ Loader!ToSet(p) = Loader!ToSet(l)
                  /\ \A i \in 1 .. (Len(l) - 1) : files[p[i]].rms <= files[p[i + 1]].rms}
      BY <2>1, <2>3 DEF Loader!ByLoudness
    <3> QED
      BY <3>1
  <2> QED
    BY <2>2, <2>3
<1> QED
  BY <1>4, <1>5 DEF S

ReadSet == {i \in Scanned : prepared[i] # None}

\* The files that were read, in the order of the scan, and what the first of
\* them take together.
First(k) == {Loader!Read[i] : i \in 1 .. k}

LEMMA ReadIsOrdered ==
  ASSUME FilesInv
  PROVE  /\ Cardinality(ReadSet) \in Nat /\ Len(Loader!Read) = Cardinality(ReadSet)
         /\ Loader!Read \in [1 .. Cardinality(ReadSet) -> ReadSet]
         /\ Ascends(Loader!Read)
         /\ \A x \in ReadSet : \E k \in 1 .. Cardinality(ReadSet) : Loader!Read[k] = x
<1>1. ReadSet \in SUBSET Nat /\ IsFiniteSet(ReadSet)
  BY FileFacts, FS_Subset DEF ReadSet
<1>2. Loader!Read = Loader!InOrder(ReadSet)
  BY DEF Loader!Read, ReadSet, Scanned
<1> DEFINE n == Cardinality(ReadSet)
<1>3. /\ n \in Nat /\ Loader!Read \in [1 .. n -> ReadSet] /\ Ascends(Loader!Read)
      /\ \A x \in ReadSet : \E k \in 1 .. n : Loader!Read[k] = x
  BY <1>1, <1>2, InOrderIs, InOrderHasAll
<1>4. Len(Loader!Read) = n
  <2> HIDE DEF n
  <2> QED
    BY <1>3
<1> QED
  BY <1>3, <1>4

LEMMA TakenAre ==
  ASSUME FilesInv, TasksInv, Loader!Whole
  PROVE  \A k \in 0 .. Cardinality(ReadSet) : Loader!Taken[k] = HeadsIn(files, First(k))
<1> DEFINE n == Cardinality(ReadSet)
<1>1. PICK r : r = Loader!Read
  OBVIOUS
<1>2. /\ n \in Nat /\ Len(r) = n /\ r \in [1 .. n -> ReadSet] /\ Ascends(r)
  BY <1>1, ReadIsOrdered
<1> HIDE DEF n
<1>3. \A i \in ReadSet : /\ i \in 1 .. Len(files) /\ i \in Nat
                         /\ prepared[i] = Loader!HeadOf(files[i])
                         /\ prepared[i] \in Nat
  <2> SUFFICES ASSUME NEW i \in ReadSet
               PROVE  /\ i \in 1 .. Len(files) /\ i \in Nat
                      /\ prepared[i] = Loader!HeadOf(files[i]) /\ prepared[i] \in Nat
    OBVIOUS
  <2>1. i \in 1 .. Len(files) /\ prepared[i] # None
    BY FileFacts DEF ReadSet
  <2>2. Loader!HeadOf(files[i]) \in Nat
    BY <2>1, HeadsAre DEF FilesInv
  <2>3. prepared[i] = Loader!HeadOf(files[i])
    BY <2>1, FileFacts DEF TasksInv
  <2> QED
    BY <2>1, <2>2, <2>3
<1> DEFINE h == [k \in 1 .. n |-> prepared[r[k]]]
<1>4. h \in [1 .. n -> Int] /\ Loader!Taken = Loader!Sums(h)
  BY <1>1, <1>2, <1>3 DEF Loader!Taken
<1> HIDE DEF h
<1>5. PICK t : t = Loader!Sums(h)
  OBVIOUS
<1>6. t[0] = 0 /\ \A k \in 1 .. n : t[k] = t[k - 1] + h[k]
  BY <1>2, <1>4, <1>5, SumsAre
<1> DEFINE T == {k \in 0 .. n : t[k] = HeadsIn(files, First(k))}
<1>7. ASSUME NEW k \in 0 .. n, \A l \in 0 .. (k - 1) : l \in T
      PROVE  k \in T
  <2>1. CASE k = 0
    <3>1. First(0) = {}
      BY DEF First
    <3> QED
      BY <1>6, <2>1, <3>1, HeadsAre DEF FilesInv
  <2>2. CASE k # 0
    <3>1. k \in 1 .. n /\ k - 1 \in 0 .. (k - 1)
      BY <2>2
    <3>2. t[k - 1] = HeadsIn(files, First(k - 1))
      BY <1>7, <3>1
    <3>3. r[k] \in ReadSet
      BY <1>2, <3>1
    <3>4. First(k) = First(k - 1) \cup {r[k]}
      <4>1. 1 .. k = (1 .. (k - 1)) \cup {k}
        BY <3>1
      <4> QED
        BY <1>1, <4>1 DEF First
    <3>5. r[k] \notin First(k - 1)
      <4>1. ASSUME NEW i \in 1 .. (k - 1) PROVE r[i] # r[k]
        <5>1. i \in 1 .. n /\ i < k
          BY <1>2, <3>1
        <5>2. r[i] < r[k] /\ r[i] \in Nat /\ r[k] \in Nat
          BY <1>2, <1>3, <3>1, <5>1 DEF Ascends
        <5> QED
          BY <5>2
      <4> QED
        BY <1>1, <4>1 DEF First
    <3>6. HeadsIn(files, First(k)) = HeadsIn(files, First(k - 1)) + Loader!HeadOf(files[r[k]])
      BY <1>3, <3>3, <3>4, <3>5, HeadsGrow DEF FilesInv
    <3>7. h[k] = Loader!HeadOf(files[r[k]])
      BY <1>3, <3>1, <3>3 DEF h
    <3>8. t[k] = t[k - 1] + h[k]
      BY <1>6, <3>1
    <3> QED
      BY <3>1, <3>2, <3>6, <3>7, <3>8
  <2> QED
    BY <2>1, <2>2
<1>8. 0 .. n \subseteq T
  <2> HIDE DEF T
  <2> QED
    BY <1>2, <1>7, Climbs
<1> QED
  BY <1>4, <1>5, <1>8 DEF n

\* What is left out once the budget is spent.
LEMMA CommittedIs ==
  ASSUME FilesInv
  PROVE  /\ Loader!Committed \in 0 .. Cardinality(ReadSet)
         /\ \A k \in 0 .. Cardinality(ReadSet) :
              bBudget > 0 /\ Loader!Taken[k] >= bBudget => Loader!Committed <= k
<1> DEFINE n == Cardinality(ReadSet)
<1>1. n \in Nat /\ Len(Loader!Read) = n
  BY ReadIsOrdered
<1> HIDE DEF n
<1> DEFINE spent == {k \in 0 .. n : bBudget > 0 /\ Loader!Taken[k] >= bBudget}
<1>2. Loader!Committed = IF spent = {} THEN n
                         ELSE CHOOSE k \in spent : \A l \in spent : k <= l
  BY <1>1 DEF Loader!Committed
<1>3. spent \subseteq 0 .. n /\ spent \subseteq Nat
  OBVIOUS
<1>4. \A k \in 0 .. n : bBudget > 0 /\ Loader!Taken[k] >= bBudget => k \in spent
  OBVIOUS
<1> HIDE DEF spent
<1>5. spent # {} => \E k \in spent : \A l \in spent : k <= l
  BY <1>3, LeastNatural
<1>6. CASE spent = {}
  BY <1>1, <1>2, <1>4, <1>6 DEF n
<1>7. CASE spent # {}
  <2>1. Loader!Committed \in spent /\ \A l \in spent : Loader!Committed <= l
    BY <1>2, <1>5, <1>7
  <2> QED
    BY <1>3, <1>4, <2>1 DEF n
<1> QED
  BY <1>6, <1>7

\* The bank of a merge has the files committed, and no other.
LEMMA MergedAre ==
  ASSUME FilesInv, Loader!Merge, NEW i \in Scanned
  PROVE  Loader!InBank(i)' <=> i \in First(Loader!Committed)
<1> DEFINE ids == SubSeq(Loader!Read, 1, Loader!Committed)
<1>1. ToSetOf(ids) \subseteq Scanned
  BY CommittedAre
<1>2. \A m \in Loader!Midis : notes'[m] \in Loader!ByLoudness(Loader!Layered(m, ids))
  BY DEF Loader!Merge
<1>3. ToSetOf(ids) = First(Loader!Committed)
  <2>0. PICK r, n, c :
          r = Loader!Read /\ n = Cardinality(ReadSet) /\ c = Loader!Committed
    OBVIOUS
  <2>1. n \in Nat /\ r \in [1 .. n -> ReadSet] /\ c \in Nat /\ c <= n
    BY <2>0, ReadIsOrdered, CommittedIs
  <2>2. Len(r) = n /\ r \in Seq(ReadSet)
    BY <2>1
  <2>3. DOMAIN SubSeq(r, 1, c) = 1 .. c /\ \A k \in 1 .. c : SubSeq(r, 1, c)[k] = r[k]
    BY <2>1, <2>2
  <2>4. ToSetOf(SubSeq(r, 1, c)) = {r[k] : k \in 1 .. c}
    BY <2>3 DEF ToSetOf
  <2> QED
    BY <2>0, <2>4 DEF First
<1> HIDE DEF ids
<1>4. \A m \in Loader!Midis :
        Loader!ToSet(notes'[m]) = {k \in ToSetOf(ids) : files[k].midi = m}
  BY <1>1, <1>2, BankHas
<1>5. files[i].midi \in Loader!Midis
  BY FileFacts
<1>6. Loader!InBank(i)' <=> \E m \in Loader!Midis : i \in Loader!ToSet(notes'[m])
  BY DEF Loader!InBank, Loader!ToSet
<1> QED
  BY <1>3, <1>4, <1>5, <1>6

\* What BankComplete promises of a bank.
Complete ==
  Loader!Whole /\ SmallHeads =>
    /\ ~truncated => \A i \in Scanned : Loader!InBank(i)
    /\ (bBudget = 0 \/ Loader!Heads <= 2 * bBudget) =>
         \A i, j \in Scanned : i < j /\ Loader!InBank(j) => Loader!InBank(i)

CompleteInv ==
  /\ phase \in {"scan", "heads"} => total = 0
  /\ phase = "cache" \/ Loader!Loaded => Complete

\* When all workers are done, all was let in, or the budget was spent on what was.
LEMMA AllRead ==
  ASSUME FilesInv, ReadingInv, Loader!Merge, Loader!Whole, SmallHeads
  PROVE  \/ ReadSet = Scanned
         \/ /\ bBudget > 0 /\ Loader!Heads > 2 * bBudget
            /\ 2 * HeadsIn(files, ReadSet) > 3 * bBudget
<1>1. next > Len(files) /\ \A w \in Workers : task[w] = None
  BY DEF Loader!Merge
<1>2. Scanned = 1 .. Len(files) /\ Len(files) \in Nat /\ files \in Seq(Samples)
  BY FileFacts DEF FilesInv
<1>3. ASSUME NEW i \in Scanned PROVE ~Doing(i, "weigh") /\ ~Doing(i, "read")
  BY <1>1, TaskIs DEF Doing
<1>4. Weighed = Scanned
  BY <1>1, <1>2, <1>3 DEF Weighed, ReadingInv, TasksInv
<1>5. Accepted = ReadSet
  BY <1>3, <1>4 DEF Accepted, ReadSet
<1>6. HeadsIn(files, Scanned) = Loader!Heads
  BY <1>2, HeadsAre DEF Loader!Heads, Scanned
<1> QED
  BY <1>4, <1>5, <1>6 DEF ReadingInv, WeightInv

LEMMA MergeCompletes ==
  ASSUME FilesInv, ReadingInv, Loader!Merge, phase' = "cache"
  PROVE  Complete'
<1>1. /\ UNCHANGED <<files, bBudget>>
      /\ truncated' = (Loader!Committed < Len(Loader!Read))
      /\ Loader!Committed # 0
  BY DEF Loader!Merge, Loader!ReportCut
<1>2. /\ Scanned' = Scanned /\ Loader!Whole' = Loader!Whole
      /\ SmallHeads' = SmallHeads /\ Loader!Heads' = Loader!Heads
  BY <1>1 DEF Scanned, Loader!Whole, SmallHeads, Loader!Heads
<1>3. PICK r, n, c :
        r = Loader!Read /\ n = Cardinality(ReadSet) /\ c = Loader!Committed
  OBVIOUS
<1>4. /\ n \in Nat /\ Len(r) = n /\ r \in [1 .. n -> ReadSet] /\ Ascends(r)
      /\ \A x \in ReadSet : \E k \in 1 .. n : r[k] = x
      /\ c \in 0 .. n
      /\ \A k \in 0 .. n : bBudget > 0 /\ Loader!Taken[k] >= bBudget => c <= k
  BY <1>3, ReadIsOrdered, CommittedIs
<1>5. \A i \in Scanned : Loader!InBank(i)' <=> \E k \in 1 .. c : r[k] = i
  BY <1>3, MergedAre DEF First
<1>9. ASSUME ~truncated' PROVE c = n
  <2>1. ~(Loader!Committed < Len(Loader!Read))
    BY <1>1, <1>9
  <2>2. ~(c < n)
    BY <1>3, <1>4, <2>1
  <2>3. c \in Nat /\ n \in Nat /\ c <= n
    BY <1>4
  <2> QED
    BY <2>2, <2>3
<1> SUFFICES ASSUME Loader!Whole, SmallHeads
             PROVE  /\ ~truncated' => \A i \in Scanned : Loader!InBank(i)'
                    /\ (bBudget = 0 \/ Loader!Heads <= 2 * bBudget) =>
                         \A i, j \in Scanned :
                           i < j /\ Loader!InBank(j)' => Loader!InBank(i)'
  BY <1>1, <1>2 DEF Complete
<1>6. ASSUME ~truncated' PROVE ReadSet = Scanned
  <2> SUFFICES ASSUME bBudget > 0, 2 * HeadsIn(files, ReadSet) > 3 * bBudget PROVE FALSE
    BY AllRead
  <2>1. c = n
    BY <1>6, <1>9
  <2>2. n \in 1 .. n /\ n - 1 \in 0 .. n /\ n \in 0 .. n
    BY <1>1, <1>3, <1>4, <2>1
  <2>3. First(n) = ReadSet
    BY <1>3, <1>4 DEF First
  <2>4. First(n) = First(n - 1) \cup {r[n]} /\ r[n] \notin First(n - 1)
    <3>1. 1 .. n = (1 .. (n - 1)) \cup {n}
      BY <2>2
    <3>2. ASSUME NEW i \in 1 .. (n - 1) PROVE r[i] # r[n]
      <4>1. i \in 1 .. n /\ i < n
        BY <1>4
      <4>2. r[i] < r[n]
        BY <1>4, <2>2, <4>1 DEF Ascends
      <4>3. r[i] \in ReadSet /\ r[n] \in ReadSet
        BY <1>4, <2>2, <4>1
      <4>4. PICK a \in Nat, d \in Nat : a = r[i] /\ d = r[n]
        BY <4>3, FileFacts DEF ReadSet
      <4> QED
        BY <4>2, <4>4
    <3> QED
      BY <1>3, <3>1, <3>2 DEF First
  <2>5. r[n] \in 1 .. Len(files) /\ files[r[n]] \in Samples /\ files \in Seq(Samples)
    <3>1. r[n] \in 1 .. Len(files)
      BY <1>4, <2>2, FileFacts DEF ReadSet
    <3> QED
      BY <3>1 DEF FilesInv
  <2>6. PICK b \in Nat, h \in Nat, x \in Int, y \in Int :
          /\ b = bBudget /\ h = Loader!HeadOf(files[r[n]])
          /\ x = HeadsIn(files, First(n)) /\ y = HeadsIn(files, First(n - 1))
    <3>1. bBudget \in Nat
      BY DEF ReadingInv, WeightInv
    <3>2. Loader!HeadOf(files[r[n]]) \in Nat
      BY <2>5, HeadsAre
    <3>3. First(n) \in SUBSET (1 .. Len(files)) /\ First(n - 1) \in SUBSET (1 .. Len(files))
      BY <2>3, <2>4, FileFacts DEF ReadSet
    <3>4. HeadsIn(files, First(n)) \in Int /\ HeadsIn(files, First(n - 1)) \in Int
      BY <2>5, <3>3, HeadsAre
    <3> QED
      BY <3>1, <3>2, <3>4
  <2>7. x = y + h
    BY <2>4, <2>5, <2>6, HeadsGrow
  <2>8. 2 * h <= b /\ b > 0 /\ 2 * x > 3 * b
    <3>1. r[n] \in Scanned
      BY <2>5, FileFacts
    <3> QED
      BY <2>3, <2>6, <3>1 DEF SmallHeads
  <2>9. y >= b
    BY <2>7, <2>8
  <2>10. Loader!Taken[n - 1] = y
    BY <1>3, <2>2, <2>6, TakenAre DEF ReadingInv
  <2>11. c <= n - 1
    BY <1>4, <2>2, <2>6, <2>8, <2>9, <2>10
  <2> QED
    BY <1>4, <2>1, <2>11
<1>7. ASSUME ~truncated', NEW i \in Scanned
      PROVE  Loader!InBank(i)'
  <2>1. c = n
    BY <1>7, <1>9
  <2> QED
    BY <1>4, <1>5, <1>6, <1>7, <2>1
<1>8. ASSUME bBudget = 0 \/ Loader!Heads <= 2 * bBudget,
             NEW i \in Scanned, NEW j \in Scanned, i < j, Loader!InBank(j)'
      PROVE  Loader!InBank(i)'
  <2>1. ReadSet = Scanned
    <3>1. ASSUME bBudget > 0, Loader!Heads > 2 * bBudget PROVE FALSE
      <4>1. Loader!Heads \in Int /\ bBudget \in Nat
        BY HeadsAre, FileFacts DEF FilesInv, Loader!Heads, ReadingInv, WeightInv, Scanned
      <4> QED
        BY <1>8, <3>1, <4>1
    <3> QED
      BY <3>1, AllRead
  <2>2. PICK k \in 1 .. c : r[k] = j
    BY <1>5, <1>8
  <2>3. PICK l \in 1 .. n : r[l] = i
    BY <1>4, <1>8, <2>1
  <2>4. i \in Nat /\ j \in Nat /\ k \in 1 .. n
    BY <1>4, FileFacts
  <2>5. ~(k < l) /\ k # l
    <3>1. k < l => r[k] < r[l]
      BY <1>4, <2>4 DEF Ascends
    <3> QED
      BY <1>8, <2>2, <2>3, <2>4, <3>1
  <2>6. l \in 1 .. c
    BY <1>4, <2>4, <2>5
  <2> QED
    BY <1>5, <2>3, <2>6
<1> QED
  BY <1>7, <1>8

\* A step that leaves the bank as it is.
LEMMA CompleteStays ==
  ASSUME CompleteInv, UNCHANGED <<files, bBudget, notes, truncated, total>>,
         \/ UNCHANGED phase
         \/ phase \in {"scan", "heads"} /\ phase' \in {"heads", "done"}
         \/ phase = "cache" /\ phase' = "done"
  PROVE  CompleteInv'
<1>1. Complete' = Complete
  BY DEF Complete, Loader!Whole, SmallHeads, Loader!InBank, Loader!Heads, Scanned
<1>2. phase \in {"scan", "heads"} /\ phase' \in {"heads", "done"} => total' = 0
  BY DEF CompleteInv
<1> QED
  BY <1>1, <1>2 DEF CompleteInv, Loader!Loaded

\* BankLoader: however its workers interleave and whatever the budget is, a bank
\* that does not call itself cut off has every sample of its directory, and below
\* twice the budget the samples it has are the first of the scan.
THEOREM BanksAreComplete == Loader!Spec => []BankComplete
<1> DEFINE Inv == FilesInv /\ ReadingInv /\ CompleteInv
<1>1. Loader!Init => Inv
  BY LoaderInit, ReadingInit DEF LoaderInv, Loader!Init, CompleteInv, Loader!Loaded
<1>2. Inv /\ [Loader!Next]_(Loader!vars) => Inv'
  <2> SUFFICES ASSUME Inv, [Loader!Next]_(Loader!vars) PROVE Inv'
    OBVIOUS
  <2>1. FilesInv'
    <3>1. UNCHANGED <<bDir, files, bLayer>>
      BY DEF Loader!Next, Loader!Scan, Loader!Work, Loader!TakeIndex, Loader!Weigh,
             Loader!ReadHead, Loader!Merge, Loader!BuildCache, Loader!vars
    <3> QED
      BY <3>1 DEF FilesInv, Loader!FormatOf
  <2>2. CASE Loader!Scan
    <3>1. ReadingInv'
      BY <2>2, ReadingStays DEF Loader!Scan
    <3>2. CompleteInv'
      BY <2>2, CompleteStays DEF Loader!Scan
    <3> QED
      BY <2>1, <3>1, <3>2
  <2>3. ASSUME NEW w \in Workers, Loader!Work(w) PROVE Inv'
    <3>1. ReadingInv'
      BY <2>3, TakeKeeps, WeighKeeps, ReadKeeps DEF Loader!Work
    <3>2. CompleteInv'
      BY <2>3, CompleteStays
         DEF Loader!Work, Loader!TakeIndex, Loader!Weigh, Loader!ReadHead
    <3> QED
      BY <2>1, <3>1, <3>2
  <2>4. CASE Loader!Merge
    <3>1. ReadingInv'
      BY <2>4, ReadingStays DEF Loader!Merge
    <3>2. CASE phase' = "cache"
      BY <2>1, <2>4, <3>1, <3>2, MergeCompletes DEF CompleteInv
    <3>3. CASE phase' # "cache"
      <4>1. phase' = "done" /\ Loader!Committed = 0 /\ total' = Loader!Taken[0]
        BY <2>4, <3>3 DEF Loader!Merge
      <4>2. Loader!Taken[0] = 0
        BY SumsAtZero DEF Loader!Taken
      <4>3. CompleteInv'
        BY <4>1, <4>2 DEF CompleteInv, Loader!Loaded
      <4> QED
        BY <2>1, <3>1, <4>3
    <3> QED
      BY <3>2, <3>3
  <2>5. CASE Loader!BuildCache
    <3>1. ReadingInv'
      BY <2>5, ReadingStays DEF Loader!BuildCache
    <3>2. CompleteInv'
      BY <2>5, CompleteStays DEF Loader!BuildCache
    <3> QED
      BY <2>1, <3>1, <3>2
  <2>6. CASE UNCHANGED Loader!vars
    <3>1. ReadingInv'
      BY <2>6, ReadingStays DEF Loader!vars
    <3>2. CompleteInv'
      BY <2>6, CompleteStays DEF Loader!vars
    <3> QED
      BY <2>1, <3>1, <3>2
  <2> QED
    BY <2>2, <2>3, <2>4, <2>5, <2>6 DEF Loader!Next
<1>3. Inv => BankComplete
  <2> SUFFICES ASSUME Inv PROVE Loader!BankComplete
    BY DEF BankComplete
  <2>1. SmallHeads <=> (\A i \in DOMAIN files : 2 * Loader!HeadOf(files[i]) <= bBudget
                                              \/ bBudget = 0)
    BY DEF SmallHeads, Scanned
  <2> QED
    BY <2>1 DEF CompleteInv, Complete, Loader!BankComplete, Scanned
<1> QED
  BY <1>1, <1>2, <1>3, PTL DEF Loader!Spec

-----------------------------------------------------------------------------
(* SampleFile: ranges of a file.                                           *)

\* Nobody reads a file before it is peeked at, and a peek tells the frames of
\* a file whose header can be read.
PeekInv ==
  /\ wav \in Disk!Files
  /\ off \in Nat
  /\ peeked = Disk!Untold => off = 0
  /\ peeked # Disk!Untold => peeked = Disk!Frames /\ Disk!Parsed

JoinInv == frames = [i \in 1..off |-> i - 1]

DiskInv == PeekInv /\ JoinInv

\* A file holds a whole number of frames.
LEMMA WholeFrames ==
  ASSUME PeekInv
  PROVE  Disk!Frames \in Nat
<1>1. wav.promised \in Nat /\ wav.present \in Nat
  BY DiskAssumption DEF PeekInv, Disk!Files
<1>2. Disk!DataBytes \in Nat
  BY <1>1 DEF Disk!DataBytes, Disk!Smaller
<1>3. \A n \in Nat : n \div FrameBytes \in Nat
  BY DiskAssumption
<1> QED
  BY <1>1, <1>2, <1>3 DEF Disk!Frames

\* A range that is valid has the frames that follow its first, each by its number.
LEMMA RangeInOrder ==
  ASSUME NEW first \in Nat, NEW count \in Nat, PeekInv,
         Disk!ReadSampleRange(first, count).valid
  PROVE  \E n \in Nat : Disk!ReadSampleRange(first, count) = Disk!Read(first, n)
<1> DEFINE rest == Disk!Frames - first
<1>1. first < Disk!Frames => rest \in Nat /\ Disk!Smaller(count, rest) \in Nat
  BY WholeFrames DEF Disk!Smaller
<1>2. ~Disk!Invalid.valid
  BY DEF Disk!Invalid
<1>3. first >= Disk!Frames \/ first < Disk!Frames
  BY WholeFrames
<1>4. Disk!ReadSampleRange(first, count) \in
        {Disk!Read(first, 0), Disk!Read(first, Disk!Smaller(count, rest)), Disk!Invalid}
  BY DEF Disk!ReadSampleRange, Disk!BlobRange, Disk!WavRange
<1>5. first >= Disk!Frames =>
        Disk!ReadSampleRange(first, count) \in {Disk!Read(first, 0), Disk!Invalid}
  BY DEF Disk!ReadSampleRange, Disk!BlobRange, Disk!WavRange
<1> HIDE DEF rest
<1> QED
  BY <1>1, <1>2, <1>3, <1>4, <1>5

\* SampleFile: of any file, however its header lies and however the bytes fall
\* into frames, ranges of any length join to the file read as a whole.
THEOREM RangesAreJoined == Disk!Spec => []RangesJoin
<1> USE DiskAssumption
<1>1. Disk!Init => DiskInv
  BY DEF Disk!Init, DiskInv, PeekInv, JoinInv, Disk!Untold
<1>2. DiskInv /\ [Disk!Next]_(Disk!vars) => DiskInv'
  <2> SUFFICES ASSUME DiskInv, [Disk!Next]_(Disk!vars) PROVE DiskInv'
    OBVIOUS
  <2> USE DEF DiskInv
  <2>1. CASE Disk!Peek
    <3>1. Disk!Frames' = Disk!Frames /\ Disk!Parsed' = Disk!Parsed
      BY <2>1 DEF Disk!Peek, Disk!Frames, Disk!Parsed, Disk!DataBytes
    <3> QED
      BY <2>1, <3>1 DEF Disk!Peek, PeekInv, JoinInv
  <2>2. ASSUME NEW count \in 1..MaxCount, Disk!ReadOn(count) PROVE DiskInv'
    <3>0. count \in Nat /\ off \in Nat
      BY DEF PeekInv
    <3>1. PICK n \in Nat : Disk!ReadSampleRange(off, count) = Disk!Read(off, n)
      BY <2>2, <3>0, RangeInOrder DEF Disk!ReadOn
    <3>2. /\ frames' = frames \o [i \in 1..n |-> off + i - 1]
          /\ off' = off + n
          /\ UNCHANGED <<wav, peeked>> /\ peeked # Disk!Untold
      BY <2>2, <3>1 DEF Disk!ReadOn, Disk!Read
    <3>3. frames' = [i \in 1..off + n |-> i - 1]
      BY <3>0, <3>2 DEF JoinInv
    <3>4. Disk!Frames' = Disk!Frames /\ Disk!Parsed' = Disk!Parsed
      BY <3>2 DEF Disk!Frames, Disk!Parsed, Disk!DataBytes
    <3> QED
      BY <3>0, <3>2, <3>3, <3>4 DEF PeekInv, JoinInv
  <2>3. CASE UNCHANGED Disk!vars
    <3>1. Disk!Frames' = Disk!Frames /\ Disk!Parsed' = Disk!Parsed
      BY <2>3 DEF Disk!vars, Disk!Frames, Disk!Parsed, Disk!DataBytes
    <3> QED
      BY <2>3, <3>1 DEF Disk!vars, PeekInv, JoinInv
  <2> QED
    BY <2>1, <2>2, <2>3 DEF Disk!Next
<1>3. DiskInv => RangesJoin
  <2> SUFFICES ASSUME DiskInv PROVE Disk!RangesJoin
    BY DEF RangesJoin
  <2>1. CASE wav.kind = "wav" /\ peeked # Disk!Untold
    <3>1. peeked = Disk!Frames /\ Disk!Parsed /\ off \in Nat /\ Disk!Frames \in Nat
      BY <2>1, WholeFrames DEF DiskInv, PeekInv
    <3>2. Disk!Frames = Disk!Smaller(wav.promised, wav.present) \div FrameBytes
      BY <2>1 DEF Disk!Frames, Disk!DataBytes
    <3>3. Len(Disk!ReadWav.frames) = Disk!Frames
      BY <3>1, <3>2 DEF Disk!ReadWav, Disk!Read
    <3>4. ASSUME off < peeked PROVE Disk!ReadSampleRange(off, 1).frames = <<off>>
      <4>1. Disk!ReadSampleRange(off, 1) = Disk!Read(off, 1)
        BY <2>1, <3>1, <3>4 DEF Disk!ReadSampleRange, Disk!WavRange, Disk!Smaller
      <4> QED
        BY <3>1, <4>1 DEF Disk!Read
    <3> QED
      BY <3>1, <3>3, <3>4 DEF Disk!RangesJoin, DiskInv, JoinInv
  <2> QED
    BY <2>1 DEF DiskInv, JoinInv, Disk!RangesJoin
<1> QED
  BY <1>1, <1>2, <1>3, PTL DEF Disk!Spec

-----------------------------------------------------------------------------
(* Settings: a text on its way into the file and back.                     *)

Text == Seq(Saver!Characters)

LEMMA EscapedIs ==
  ASSUME NEW c \in Saver!Characters
  PROVE  Saver!Escaped(c) \in Text
<1>1. {"q", "b", "n", "u", "H"} \subseteq Saver!Characters
  BY DEF Saver!Characters
<1> USE DEF Saver!Escaped, Text
<1>2. CASE c = "q"
  BY <1>1, <1>2
<1>3. CASE c = "b"
  BY <1>1, <1>3
<1>4. CASE c = "l"
  BY <1>1, <1>4
<1>5. CASE c = "c"
  BY <1>1, <1>5
<1>6. CASE c \notin {"q", "b", "l", "c"}
  BY <1>6
<1> QED
  BY <1>2, <1>3, <1>4, <1>5, <1>6

\* Character by character, the escaped text is there.
LEMMA EscapedExists ==
  ASSUME NEW t \in Text
  PROVE  \E g : g = [i \in 0 .. Len(t) |->
                       IF i = 0 THEN <<>> ELSE g[i - 1] \o Saver!Escaped(t[i])]
<1> DEFINE Upto(n) == \E g : g = [i \in 0 .. n |->
                        IF i = 0 THEN <<>> ELSE g[i - 1] \o Saver!Escaped(t[i])]
<1>1. Upto(0)
  <2> DEFINE g == [i \in 0 .. 0 |-> <<>>]
  <2>1. g = [i \in 0 .. 0 |->
               IF i = 0 THEN <<>> ELSE g[i - 1] \o Saver!Escaped(t[i])]
    OBVIOUS
  <2> HIDE DEF g
  <2> QED
    BY <2>1
<1>2. ASSUME NEW n \in Nat, Upto(n)
      PROVE  Upto(n + 1)
  <2>1. PICK g : g = [i \in 0 .. n |->
                        IF i = 0 THEN <<>> ELSE g[i - 1] \o Saver!Escaped(t[i])]
    BY <1>2
  <2> HIDE DEF Upto
  <2>0. n \in 0 .. (n + 1) /\ n + 1 \in 0 .. (n + 1) /\ n # n + 1 /\ n + 1 # 0
        /\ (n + 1) - 1 = n
    OBVIOUS
  <2> DEFINE h == [i \in 0 .. (n + 1) |->
                     IF i = n + 1 THEN g[n] \o Saver!Escaped(t[n + 1]) ELSE g[i]]
             k == [i \in 0 .. (n + 1) |->
                     IF i = 0 THEN <<>> ELSE h[i - 1] \o Saver!Escaped(t[i])]
  <2>2. ASSUME NEW i \in 0 .. (n + 1)
        PROVE  h[i] = k[i]
    <3>1. CASE i = 0
      <4>1. h[0] = g[0] /\ k[0] = <<>>
        BY <3>1
      <4>2. g[0] = <<>>
        BY <2>1
      <4> QED
        BY <3>1, <4>1, <4>2
    <3>2. CASE i = n + 1
      <4>1. h[n + 1] = g[n] \o Saver!Escaped(t[n + 1])
        BY <2>0
      <4>2. h[n] = g[n]
        BY <2>0
      <4>3. k[n + 1] = h[n] \o Saver!Escaped(t[n + 1])
        <5> HIDE DEF h
        <5> QED
          BY <2>0
      <4> QED
        BY <3>2, <4>1, <4>2, <4>3
    <3>3. CASE i # 0 /\ i # n + 1
      <4>1. i \in 1 .. n /\ i - 1 \in 0 .. n
        BY <3>3
      <4>2. h[i] = g[i] /\ h[i - 1] = g[i - 1]
        BY <4>1
      <4>3. k[i] = h[i - 1] \o Saver!Escaped(t[i])
        BY <4>1
      <4>4. g[i] = g[i - 1] \o Saver!Escaped(t[i])
        BY <2>1, <4>1
      <4> QED
        BY <4>2, <4>3, <4>4
    <3> QED
      BY <3>1, <3>2, <3>3
  <2>3. h = k
    <3>1. DOMAIN h = DOMAIN k
      OBVIOUS
    <3> QED
      BY <2>2, <3>1
  <2> HIDE DEF h
  <2> QED
    BY <2>3
<1>3. ASSUME NEW n \in Nat
      PROVE  Upto(n)
  <2> DEFINE T == {m \in 0 .. n : Upto(m)}
  <2> HIDE DEF Upto
  <2>1. ASSUME NEW m \in 0 .. n, \A k \in 0 .. (m - 1) : k \in T
        PROVE  m \in T
    <3>1. CASE m = 0
      BY <1>1, <3>1
    <3>2. CASE m # 0
      <4>1. m - 1 \in Nat /\ m - 1 \in 0 .. (m - 1) /\ (m - 1) + 1 = m
        BY <3>2
      <4>2. Upto(m - 1)
        BY <2>1, <4>1
      <4>3. Upto((m - 1) + 1)
        BY <1>2, <4>1, <4>2
      <4> QED
        BY <4>1, <4>3
    <3> QED
      BY <3>1, <3>2
  <2>2. 0 .. n \subseteq T
    <3> HIDE DEF T
    <3> QED
      BY <2>1, Climbs
  <2> QED
    BY <2>2
<1>4. Len(t) \in Nat
  BY DEF Text
<1> QED
  BY <1>3, <1>4

LEMMA EscapedToIs ==
  ASSUME NEW t \in Text
  PROVE  /\ Saver!EscapedTo(t)[0] = <<>>
         /\ \A i \in 1 .. Len(t) : Saver!EscapedTo(t)[i]
              = Saver!EscapedTo(t)[i - 1] \o Saver!Escaped(t[i])
<1> DEFINE f == Saver!EscapedTo(t)
<1>1. f = CHOOSE g : g = [i \in 0 .. Len(t) |->
                       IF i = 0 THEN <<>> ELSE g[i - 1] \o Saver!Escaped(t[i])]
  BY DEF Saver!EscapedTo
<1>2. f = [i \in 0 .. Len(t) |->
                       IF i = 0 THEN <<>> ELSE f[i - 1] \o Saver!Escaped(t[i])]
  <2> HIDE DEF f
  <2> QED
    BY <1>1, EscapedExists, Zenon
<1> HIDE DEF f
<1>3. Len(t) \in Nat
  BY DEF Text
<1>4. f[0] = <<>>
  BY <1>2, <1>3
<1>5. ASSUME NEW i \in 1 .. Len(t)
      PROVE  f[i] = f[i - 1] \o Saver!Escaped(t[i])
  <2>1. i \in 0 .. Len(t) /\ i # 0
    BY <1>3
  <2> QED
    BY <1>2, <2>1
<1> QED
  BY <1>4, <1>5 DEF f

\* What stands at the i-th place and behind it, when f is what stands behind.
DecodedAt(j, f, i) ==
  IF i > Len(j) \/ j[i] = "q" THEN <<>>
  ELSE IF j[i] = "b" /\ i < Len(j)
    THEN Saver!Unescaped(j, i + 1)[1] \o f[i + 1 + Saver!Unescaped(j, i + 1)[2]]
    ELSE <<j[i]>> \o f[i + 1]

LEMMA UnescapedIs ==
  ASSUME NEW j \in Text, NEW i \in 1 .. Len(j)
  PROVE  /\ Saver!Unescaped(j, i)[1] \in Text
         /\ Saver!Unescaped(j, i)[2] \in {1, 2}
<1>1. j[i] \in Saver!Characters /\ "l" \in Saver!Characters /\ "c" \in Saver!Characters
  BY DEF Text, Saver!Characters
<1> USE DEF Saver!Unescaped, Text
<1>2. CASE j[i] = "n"
  BY <1>1, <1>2
<1>3. CASE j[i] = "u" /\ i < Len(j) /\ j[i + 1] = "H"
  BY <1>1, <1>3
<1>4. CASE j[i] # "n" /\ ~(j[i] = "u" /\ i < Len(j) /\ j[i + 1] = "H")
  BY <1>1, <1>4
<1> QED
  BY <1>2, <1>3, <1>4

\* Only what stands behind the place matters.
LEMMA DecodedAtDepends ==
  ASSUME NEW j \in Text, NEW i \in Nat \ {0}, NEW f, NEW g,
         \A k \in (i + 1) .. (i + 3) : k <= Len(j) + 3 => f[k] = g[k]
  PROVE  DecodedAt(j, f, i) = DecodedAt(j, g, i)
<1>1. PICK n \in Nat : n = Len(j)
  BY DEF Text
<1>2. CASE i > n \/ j[i] = "q"
  BY <1>1, <1>2 DEF DecodedAt
<1>3. CASE ~(i > n \/ j[i] = "q") /\ ~(j[i] = "b" /\ i < n)
  <2>1. f[i + 1] = g[i + 1]
    BY <1>1, <1>3
  <2> QED
    BY <1>1, <1>3, <2>1 DEF DecodedAt
<1>4. CASE ~(i > n \/ j[i] = "q") /\ j[i] = "b" /\ i < n
  <2>1. i + 1 \in 1 .. n
    BY <1>4
  <2>2. PICK m \in {1, 2} : m = Saver!Unescaped(j, i + 1)[2]
    BY <1>1, <2>1, UnescapedIs
  <2>3. f[i + 1 + m] = g[i + 1 + m]
    BY <1>1, <1>4
  <2> QED
    BY <1>1, <1>4, <2>2, <2>3 DEF DecodedAt
<1> QED
  BY <1>2, <1>3, <1>4

LEMMA DecodedExists ==
  ASSUME NEW j \in Text
  PROVE  \E g : g = [i \in 1 .. Len(j) + 3 |-> DecodedAt(j, g, i)]
<1>0. PICK n \in Nat : n = Len(j) + 3
  BY DEF Text
<1> DEFINE From(m) == \E g : g = [i \in (n + 1 - m) .. n |-> DecodedAt(j, g, i)]
<1>1. From(0)
  <2> DEFINE g == [i \in (n + 1 - 0) .. n |-> <<>>]
  <2>1. g = [i \in (n + 1 - 0) .. n |-> DecodedAt(j, g, i)]
    <3>1. (n + 1 - 0) .. n = {}
      OBVIOUS
    <3> QED
      BY <3>1
  <2> HIDE DEF g
  <2> QED
    BY <2>1
<1>2. ASSUME NEW m \in 0 .. n, m < n, From(m)
      PROVE  From(m + 1)
  <2>1. PICK lo \in 1 .. n : lo = n + 1 - (m + 1) /\ lo + 1 = n + 1 - m
    BY <1>2
  <2>2. PICK g : g = [i \in (lo + 1) .. n |-> DecodedAt(j, g, i)]
    BY <1>2, <2>1
  <2> DEFINE h == [i \in lo .. n |-> IF i = lo THEN DecodedAt(j, g, lo) ELSE g[i]]
             k == [i \in lo .. n |-> DecodedAt(j, h, i)]
  <2> HIDE DEF From
  <2>3. ASSUME NEW i \in lo .. n
        PROVE  h[i] = k[i]
    <3>1. \A x \in (i + 1) .. (i + 3) : x <= Len(j) + 3 => h[x] = g[x]
      BY <1>0
    <3>2. DecodedAt(j, h, i) = DecodedAt(j, g, i)
      <4>1. i \in Nat \ {0}
        OBVIOUS
      <4> HIDE DEF h
      <4> QED
        BY <3>1, <4>1, DecodedAtDepends
    <3>3. h[i] = DecodedAt(j, g, i)
      <4>1. CASE i = lo
        BY <4>1
      <4>2. CASE i # lo
        <5>1. i \in (lo + 1) .. n
          BY <4>2
        <5>2. g[i] = DecodedAt(j, g, i)
          BY <2>2, <5>1
        <5> QED
          BY <4>2, <5>2
      <4> QED
        BY <4>1, <4>2
    <3>4. k[i] = DecodedAt(j, h, i)
      <4> HIDE DEF h
      <4> QED
        OBVIOUS
    <3> QED
      BY <3>2, <3>3, <3>4
  <2>4. h = k
    <3>1. DOMAIN h = DOMAIN k
      OBVIOUS
    <3> QED
      BY <2>3, <3>1
  <2> HIDE DEF h
  <2>5. h = [i \in (n + 1 - (m + 1)) .. n |-> DecodedAt(j, h, i)]
    BY <2>1, <2>4
  <2> QED
    BY <2>5 DEF From
<1>3. From(n)
  <2> DEFINE T == {m \in 0 .. n : From(m)}
  <2> HIDE DEF From
  <2>1. ASSUME NEW m \in 0 .. n, \A k \in 0 .. (m - 1) : k \in T
        PROVE  m \in T
    <3>1. CASE m = 0
      BY <1>1, <3>1
    <3>2. CASE m # 0
      <4>1. m - 1 \in 0 .. n /\ m - 1 < n /\ m - 1 \in 0 .. (m - 1)
            /\ (m - 1) + 1 = m
        BY <3>2
      <4>2. From(m - 1)
        BY <2>1, <4>1
      <4>3. From((m - 1) + 1)
        BY <1>2, <4>1, <4>2
      <4> QED
        BY <4>1, <4>3
    <3> QED
      BY <3>1, <3>2
  <2>2. 0 .. n \subseteq T
    <3> HIDE DEF T
    <3> QED
      BY <2>1, Climbs
  <2> QED
    BY <2>2
<1>4. PICK g : g = [i \in (n + 1 - n) .. n |-> DecodedAt(j, g, i)]
  BY <1>3
<1>5. n + 1 - n = 1
  OBVIOUS
<1> QED
  BY <1>0, <1>4, <1>5

LEMMA DecodedFromIs ==
  ASSUME NEW j \in Text, NEW i \in 1 .. Len(j) + 3
  PROVE  Saver!DecodedFrom(j)[i] = DecodedAt(j, Saver!DecodedFrom(j), i)
<1> DEFINE f == Saver!DecodedFrom(j)
<1>1. f = CHOOSE g : g = [x \in 1 .. Len(j) + 3 |-> DecodedAt(j, g, x)]
  BY DEF Saver!DecodedFrom, DecodedAt
<1>2. f = [x \in 1 .. Len(j) + 3 |-> DecodedAt(j, f, x)]
  <2> HIDE DEF f
  <2> QED
    BY <1>1, DecodedExists, Zenon
<1> HIDE DEF f
<1>3. f[i] = DecodedAt(j, f, i)
  BY <1>2
<1> QED
  BY <1>3 DEF f

\* What is read back is a text, wherever the reading begins.
LEMMA DecodeTypes ==
  ASSUME NEW j \in Text
  PROVE  Saver!Decode(j) \in Text
<1>0. PICK n \in Nat : n = Len(j)
  BY DEF Text
<1>1. PICK f : f = Saver!DecodedFrom(j)
  OBVIOUS
<1>2. ASSUME NEW i \in 1 .. n + 3, \A k \in (i + 1) .. n + 3 : f[k] \in Text
      PROVE  f[i] \in Text
  <2>1. f[i] = DecodedAt(j, f, i)
    BY <1>0, <1>1, DecodedFromIs
  <2>2. CASE i > n \/ j[i] = "q"
    BY <1>0, <2>1, <2>2 DEF DecodedAt, Text
  <2>3. CASE ~(i > n \/ j[i] = "q") /\ ~(j[i] = "b" /\ i < n)
    <3>1. f[i + 1] \in Text /\ <<j[i]>> \in Text
      BY <1>0, <1>2, <2>3 DEF Text
    <3>2. f[i] = <<j[i]>> \o f[i + 1]
      BY <1>0, <2>1, <2>3 DEF DecodedAt
    <3> QED
      BY <3>1, <3>2 DEF Text
  <2>4. CASE ~(i > n \/ j[i] = "q") /\ j[i] = "b" /\ i < n
    <3>1. i + 1 \in 1 .. n
      BY <2>4
    <3>2. PICK u \in Text, m \in {1, 2} :
             u = Saver!Unescaped(j, i + 1)[1] /\ m = Saver!Unescaped(j, i + 1)[2]
      BY <1>0, <3>1, UnescapedIs
    <3>3. f[i + 1 + m] \in Text
      BY <1>2, <2>4
    <3>4. f[i] = u \o f[i + 1 + m]
      BY <1>0, <2>1, <2>4, <3>2 DEF DecodedAt
    <3> QED
      BY <3>2, <3>3, <3>4 DEF Text
  <2> QED
    BY <2>2, <2>3, <2>4
<1> DEFINE T == {m \in 0 .. (n + 2) : f[n + 3 - m] \in Text}
<1>3. ASSUME NEW m \in 0 .. (n + 2), \A k \in 0 .. (m - 1) : k \in T
      PROVE  m \in T
  <2>1. ASSUME NEW k \in (n + 3 - m + 1) .. n + 3
        PROVE  f[k] \in Text
    <3>1. n + 3 - k \in 0 .. (m - 1) /\ n + 3 - (n + 3 - k) = k
      OBVIOUS
    <3>2. n + 3 - k \in T
      BY <1>3, <3>1
    <3> QED
      BY <3>1, <3>2
  <2>2. n + 3 - m \in 1 .. n + 3
    OBVIOUS
  <2>3. f[n + 3 - m] \in Text
    BY <1>2, <2>1, <2>2
  <2> QED
    BY <2>3
<1>4. f[1] \in Text
  <2>1. n + 2 \in Nat /\ n + 3 - (n + 2) = 1 /\ n + 2 \in 0 .. (n + 2)
    OBVIOUS
  <2>2. 0 .. (n + 2) \subseteq T
    <3> HIDE DEF T
    <3> QED
      BY <1>3, <2>1, Climbs
  <2> QED
    BY <2>1, <2>2
<1> QED
  BY <1>1, <1>4 DEF Saver!Decode

-----------------------------------------------------------------------------
(* The way back. *)

\* Every escaped beginning of a text is a text.
LEMMA EscapedTypes ==
  ASSUME NEW t \in Text
  PROVE  \A i \in 0 .. Len(t) : Saver!EscapedTo(t)[i] \in Text
<1>0. PICK n \in Nat : n = Len(t)
  BY DEF Text
<1>1. PICK f : f = Saver!EscapedTo(t)
  OBVIOUS
<1>2. f[0] \in Text
  <2>1. f[0] = <<>>
    BY <1>1, EscapedToIs
  <2> QED
    BY <2>1 DEF Text
<1>3. ASSUME NEW i \in 1 .. n, f[i - 1] \in Text
      PROVE  f[i] \in Text
  <2>1. f[i] = f[i - 1] \o Saver!Escaped(t[i])
    BY <1>0, <1>1, EscapedToIs
  <2>2. Saver!Escaped(t[i]) \in Text
    BY <1>0, EscapedIs DEF Text
  <2> QED
    BY <1>3, <2>1, <2>2 DEF Text
<1> DEFINE T == {m \in 0 .. n : f[m] \in Text}
<1>4. ASSUME NEW m \in 0 .. n, \A k \in 0 .. (m - 1) : k \in T
      PROVE  m \in T
  <2>1. CASE m = 0
    BY <1>2, <2>1
  <2>2. CASE m # 0
    <3>1. m \in 1 .. n /\ m - 1 \in 0 .. (m - 1)
      BY <2>2
    <3>2. f[m - 1] \in Text
      BY <1>4, <3>1
    <3> QED
      BY <1>3, <3>1, <3>2
  <2> QED
    BY <2>1, <2>2
<1>5. \A i \in 0 .. n : f[i] \in Text
  <2>1. 0 .. n \subseteq T
    <3> HIDE DEF T
    <3> QED
      BY <1>4, Climbs
  <2> QED
    BY <2>1
<1> QED
  BY <1>0, <1>1, <1>5

\* b is a and behind it e.
Extends(a, b, e) ==
  /\ Len(b) = Len(a) + Len(e)
  /\ \A k \in 1 .. Len(a) : b[k] = a[k]
  /\ \A k \in 1 .. Len(e) : b[Len(a) + k] = e[k]

\* It is a beginning of the next, which goes on with the escaped character.
LEMMA EscapedGrows ==
  ASSUME NEW t \in Text, NEW i \in 1 .. Len(t),
         NEW f, f = Saver!EscapedTo(t)
  PROVE  Extends(f[i - 1], f[i], Saver!Escaped(t[i]))
<1>1. PICK a, e : a = f[i - 1] /\ e = Saver!Escaped(t[i])
  OBVIOUS
<1>2. Len(t) \in Nat /\ i - 1 \in 0 .. Len(t) /\ t[i] \in Saver!Characters
  BY DEF Text
<1>3. a \in Text /\ e \in Text /\ f[i] = a \o e
  BY <1>1, <1>2, EscapedTypes, EscapedIs, EscapedToIs
<1>4. PICK x \in Nat, y \in Nat : x = Len(a) /\ y = Len(e)
  BY <1>3 DEF Text
<1>5. /\ Len(a \o e) = Len(a) + Len(e)
      /\ \A k \in 1 .. Len(a) + Len(e) :
           (a \o e)[k] = IF k <= Len(a) THEN a[k] ELSE e[k - Len(a)]
  BY <1>3, ConcatProperties DEF Text
<1>6. /\ Len(f[i]) = x + y
      /\ \A k \in 1 .. x + y : f[i][k] = IF k <= x THEN a[k] ELSE e[k - x]
  BY <1>3, <1>4, <1>5
<1>7. \A k \in 1 .. x : f[i][k] = a[k]
  BY <1>6
<1>8. ASSUME NEW k \in 1 .. y
      PROVE  f[i][x + k] = e[k]
  <2>1. x + k \in 1 .. x + y /\ ~(x + k <= x) /\ (x + k) - x = k
    OBVIOUS
  <2> QED
    BY <1>6, <2>1
<1> QED
  BY <1>1, <1>4, <1>6, <1>7, <1>8 DEF Extends

\* And a beginning of the whole.
LEMMA EscapedStays ==
  ASSUME NEW t \in Text, NEW i \in 0 .. Len(t),
         NEW f, f = Saver!EscapedTo(t)
  PROVE  /\ Len(f[i]) <= Len(Saver!Escape(t))
         /\ \A k \in 1 .. Len(f[i]) : Saver!Escape(t)[k] = f[i][k]
<1>0. PICK n \in Nat : n = Len(t)
  BY DEF Text
<1>1. f = Saver!EscapedTo(t)
  OBVIOUS
<1>2. \A m \in 0 .. n : f[m] \in Text /\ Len(f[m]) \in Nat
  BY <1>0, <1>1, EscapedTypes DEF Text
<1> DEFINE Begins(a, x) == /\ Len(a) <= Len(x)
                          /\ \A k \in 1 .. Len(a) : x[k] = a[k]
<1>3. ASSUME NEW m \in 1 .. n, Begins(f[m], f[n])
      PROVE  Begins(f[m - 1], f[n])
  <2>1. m - 1 \in 0 .. n /\ m \in 0 .. n /\ n \in 0 .. n
    OBVIOUS
  <2>2. PICK x \in Nat, y \in Nat, z \in Nat :
           x = Len(f[m - 1]) /\ y = Len(f[m]) /\ z = Len(f[n])
    BY <1>2, <2>1
  <2>3. PICK e : e = Saver!Escaped(t[m])
    OBVIOUS
  <2>4. Len(e) \in Nat
    BY <1>0, <2>3, EscapedIs DEF Text
  <2>5. y = x + Len(e) /\ \A k \in 1 .. x : f[m][k] = f[m - 1][k]
    <3>1. m \in 1 .. Len(t)
      BY <1>0
    <3>2. Extends(f[m - 1], f[m], e)
      BY <1>1, <2>3, <3>1, EscapedGrows
    <3> QED
      BY <2>2, <2>3, <3>2 DEF Extends
  <2>8. y <= z /\ \A k \in 1 .. y : f[n][k] = f[m][k]
    BY <1>3, <2>2
  <2>6. x <= y /\ y <= z /\ \A k \in 1 .. y : f[n][k] = f[m][k]
    BY <2>4, <2>5, <2>8
  <2>7. \A k \in 1 .. x : k \in 1 .. y
    BY <2>6
  <2> QED
    BY <2>2, <2>5, <2>6, <2>7
<1> DEFINE T == {m \in 0 .. n : Begins(f[n - m], f[n])}
<1>4. ASSUME NEW m \in 0 .. n, \A k \in 0 .. (m - 1) : k \in T
      PROVE  m \in T
  <2>1. CASE m = 0
    <3>1. n - m = n /\ n \in 0 .. n
      BY <2>1
    <3>2. Begins(f[n], f[n])
      BY <1>2, <3>1
    <3> QED
      BY <3>1, <3>2
  <2>2. CASE m # 0
    <3>1. m - 1 \in 0 .. (m - 1) /\ n - (m - 1) \in 1 .. n
          /\ (n - (m - 1)) - 1 = n - m
      BY <2>2
    <3> HIDE DEF Begins
    <3>2. Begins(f[n - (m - 1)], f[n])
      BY <1>4, <3>1
    <3> QED
      BY <1>3, <3>1, <3>2
  <2> QED
    BY <2>1, <2>2
<1>5. n - i \in 0 .. n /\ n - (n - i) = i
  BY <1>0
<1>6. Begins(f[i], f[n])
  <2> HIDE DEF Begins
  <2>1. 0 .. n \subseteq T
    <3> HIDE DEF T
    <3> QED
      BY <1>4, Climbs
  <2> QED
    BY <1>5, <2>1
<1>7. Saver!Escape(t) = f[n]
  BY <1>0, <1>1 DEF Saver!Escape
<1> QED
  BY <1>1, <1>6, <1>7

\* What stands behind a backslash, and what stands for itself.
LEMMA DecodedEscape ==
  ASSUME NEW j \in Text, NEW i \in 1 .. Len(j), i < Len(j), j[i] = "b", NEW f
  PROVE  DecodedAt(j, f, i)
           = Saver!Unescaped(j, i + 1)[1] \o f[i + 1 + Saver!Unescaped(j, i + 1)[2]]
<1>1. ~(i > Len(j) \/ j[i] = "q")
  BY DEF Text
<1> QED
  BY <1>1, Zenon DEF DecodedAt

LEMMA DecodedPlain ==
  ASSUME NEW j \in Text, NEW i \in 1 .. Len(j), j[i] # "b", j[i] # "q", NEW f
  PROVE  DecodedAt(j, f, i) = <<j[i]>> \o f[i + 1]
<1>1. ~(i > Len(j) \/ j[i] = "q")
  BY DEF Text
<1> QED
  BY <1>1, Zenon DEF DecodedAt

\* What one escaped character stands for, wherever it stands.
LEMMA DecodesOne ==
  ASSUME NEW j \in Text, NEW c \in Saver!Characters, NEW i \in Nat \ {0},
         i + Len(Saver!Escaped(c)) <= Len(j),
         \A k \in 1 .. Len(Saver!Escaped(c)) : j[i + (k - 1)] = Saver!Escaped(c)[k]
  PROVE  Saver!DecodedFrom(j)[i]
           = <<c>> \o Saver!DecodedFrom(j)[i + Len(Saver!Escaped(c))]
<1>0. PICK n \in Nat : n = Len(j)
  BY DEF Text
<1>1. PICK f : f = Saver!DecodedFrom(j)
  OBVIOUS
<1>2. PICK e : e = Saver!Escaped(c)
  OBVIOUS
<1>3. i + Len(e) <= n /\ \A k \in 1 .. Len(e) : j[i + (k - 1)] = e[k]
  BY <1>0, <1>2
<1>4. ASSUME i \in 1 .. n
      PROVE  f[i] = DecodedAt(j, f, i)
  BY <1>0, <1>1, <1>4, DecodedFromIs
<1>5. ASSUME NEW x, e = <<"b", x>>
      PROVE  /\ i \in 1 .. n /\ i < n /\ i + 1 \in 1 .. n
             /\ j[i] = "b" /\ j[i + 1] = x /\ i + Len(e) = i + 1 + 1
  <2>1. Len(e) = 2 /\ e[1] = "b" /\ e[2] = x
    BY <1>5
  <2>2. i + (1 - 1) = i /\ i + (2 - 1) = i + 1 /\ 1 \in 1 .. 2 /\ 2 \in 1 .. 2
    OBVIOUS
  <2>3. j[i] = "b" /\ j[i + 1] = x
    BY <1>3, <2>1, <2>2
  <2> QED
    BY <1>3, <2>1, <2>3
<1>7. CASE c \in {"q", "b"}
  <2>1. e = <<"b", c>>
    BY <1>2, <1>7 DEF Saver!Escaped
  <2>2. /\ i \in 1 .. n /\ i < n /\ i + 1 \in 1 .. n
        /\ j[i] = "b" /\ j[i + 1] = c /\ i + Len(e) = i + 1 + 1
    BY <1>5, <2>1
  <2>3. Saver!Unescaped(j, i + 1) = <<<<c>>, 1>>
    BY <1>7, <2>2 DEF Saver!Unescaped
  <2>4. DecodedAt(j, f, i) = <<c>> \o f[i + 1 + 1]
    <3>1. i \in 1 .. Len(j) /\ i < Len(j) /\ j[i] = "b"
      BY <1>0, <2>2, <2>3
    <3>2. DecodedAt(j, f, i)
            = Saver!Unescaped(j, i + 1)[1] \o f[i + 1 + Saver!Unescaped(j, i + 1)[2]]
      BY <3>1, DecodedEscape
    <3>3. /\ Saver!Unescaped(j, i + 1)[1] = <<c>>
          /\ Saver!Unescaped(j, i + 1)[2] = 1
      BY <2>3
    <3> QED
      BY <3>2, <3>3
  <2> QED
    BY <1>1, <1>2, <1>4, <2>2, <2>4
<1>8. CASE c = "l"
  <2>1. e = <<"b", "n">>
    BY <1>2, <1>8 DEF Saver!Escaped
  <2>2. /\ i \in 1 .. n /\ i < n /\ i + 1 \in 1 .. n
        /\ j[i] = "b" /\ j[i + 1] = "n" /\ i + Len(e) = i + 1 + 1
    BY <1>5, <2>1
  <2>3. Saver!Unescaped(j, i + 1) = <<<<c>>, 1>>
    BY <1>8, <2>2 DEF Saver!Unescaped
  <2>4. DecodedAt(j, f, i) = <<c>> \o f[i + 1 + 1]
    <3>1. i \in 1 .. Len(j) /\ i < Len(j) /\ j[i] = "b"
      BY <1>0, <2>2, <2>3
    <3>2. DecodedAt(j, f, i)
            = Saver!Unescaped(j, i + 1)[1] \o f[i + 1 + Saver!Unescaped(j, i + 1)[2]]
      BY <3>1, DecodedEscape
    <3>3. /\ Saver!Unescaped(j, i + 1)[1] = <<c>>
          /\ Saver!Unescaped(j, i + 1)[2] = 1
      BY <2>3
    <3> QED
      BY <3>2, <3>3
  <2> QED
    BY <1>1, <1>2, <1>4, <2>2, <2>4
<1>9. CASE c = "c"
  <2>1. e = <<"b", "u", "H">>
    BY <1>2, <1>9 DEF Saver!Escaped
  <2>2. Len(e) = 3 /\ e[1] = "b" /\ e[2] = "u" /\ e[3] = "H"
    BY <2>1
  <2>3. /\ i + (1 - 1) = i /\ i + (2 - 1) = i + 1 /\ i + (3 - 1) = i + 1 + 1
        /\ 1 \in 1 .. 3 /\ 2 \in 1 .. 3 /\ 3 \in 1 .. 3
    OBVIOUS
  <2>4. j[i] = "b" /\ j[i + 1] = "u" /\ j[i + 1 + 1] = "H"
    BY <1>3, <2>2, <2>3
  <2>5. /\ i \in 1 .. n /\ i < n /\ i + 1 \in 1 .. n /\ i + 1 < n
        /\ i + Len(e) = i + 1 + 2
    BY <1>3, <2>2
  <2>6. Saver!Unescaped(j, i + 1) = <<<<c>>, 2>>
    BY <1>0, <1>9, <2>4, <2>5 DEF Saver!Unescaped
  <2>7. DecodedAt(j, f, i) = <<c>> \o f[i + 1 + 2]
    <3>1. i \in 1 .. Len(j) /\ i < Len(j) /\ j[i] = "b"
      BY <1>0, <2>4, <2>5, <2>6
    <3>2. DecodedAt(j, f, i)
            = Saver!Unescaped(j, i + 1)[1] \o f[i + 1 + Saver!Unescaped(j, i + 1)[2]]
      BY <3>1, DecodedEscape
    <3>3. /\ Saver!Unescaped(j, i + 1)[1] = <<c>>
          /\ Saver!Unescaped(j, i + 1)[2] = 2
      BY <2>6
    <3> QED
      BY <3>2, <3>3
  <2> QED
    BY <1>1, <1>2, <1>4, <2>5, <2>7
<1>10. CASE c \notin {"q", "b", "l", "c"}
  <2>1. e = <<c>>
    BY <1>2, <1>10 DEF Saver!Escaped
  <2>2. Len(e) = 1 /\ e[1] = c /\ 1 \in 1 .. 1 /\ i + (1 - 1) = i
    BY <2>1
  <2>3. j[i] = c /\ i \in 1 .. n
    BY <1>3, <2>2
  <2>4. DecodedAt(j, f, i) = <<c>> \o f[i + 1]
    BY <1>0, <1>10, <2>3, DecodedPlain
  <2> QED
    BY <1>1, <1>2, <1>4, <2>2, <2>3, <2>4
<1> QED
  BY <1>7, <1>8, <1>9, <1>10

\* The text behind its i-th character.
Behind(t, i) == [k \in 1 .. (Len(t) - i) |-> t[i + k]]

LEMMA BehindGrows ==
  ASSUME NEW t \in Text, NEW i \in 1 .. Len(t)
  PROVE  Behind(t, i - 1) = <<t[i]>> \o Behind(t, i)
<1>0. PICK n \in Nat : n = Len(t)
  BY DEF Text
<1>1. PICK m \in Nat : m = n - i /\ n - (i - 1) = m + 1
  <2>1. n - i \in Nat /\ n - (i - 1) = (n - i) + 1
    BY <1>0
  <2> QED
    BY <2>1
<1>2. Behind(t, i) \in Text /\ Len(Behind(t, i)) = m
  <2>1. \A k \in 1 .. m : t[i + k] \in Saver!Characters
    BY <1>0, <1>1 DEF Text
  <2> QED
    BY <1>0, <1>1, <2>1 DEF Behind, Text
<1>3. Behind(t, i - 1) \in Text /\ Len(Behind(t, i - 1)) = m + 1
  <2>1. \A k \in 1 .. (m + 1) : t[(i - 1) + k] \in Saver!Characters
    BY <1>0, <1>1 DEF Text
  <2> QED
    BY <1>0, <1>1, <2>1 DEF Behind, Text
<1>4. <<t[i]>> \in Text /\ Len(<<t[i]>>) = 1
  BY <1>0 DEF Text
<1> DEFINE c == <<t[i]>> \o Behind(t, i)
<1>5. /\ c \in Text /\ Len(c) = 1 + m
      /\ \A k \in 1 .. 1 + m : c[k] =
            IF k <= 1 THEN <<t[i]>>[k] ELSE Behind(t, i)[k - 1]
  BY <1>2, <1>4, ConcatProperties DEF Text
<1>6. ASSUME NEW k \in 1 .. (m + 1)
      PROVE  Behind(t, i - 1)[k] = c[k]
  <2>1. Behind(t, i - 1)[k] = t[(i - 1) + k]
    BY <1>0, <1>1 DEF Behind
  <2>2. CASE k = 1
    <3>1. c[k] = t[i]
      BY <1>5, <2>2
    <3> QED
      BY <2>1, <2>2, <3>1
  <2>3. CASE k # 1
    <3>1. k - 1 \in 1 .. m /\ i + (k - 1) = (i - 1) + k
      BY <2>3
    <3>2. c[k] = Behind(t, i)[k - 1]
      BY <1>5, <2>3
    <3>3. Behind(t, i)[k - 1] = t[i + (k - 1)]
      BY <1>0, <1>1, <3>1 DEF Behind
    <3> QED
      BY <2>1, <3>1, <3>2, <3>3
  <2> QED
    BY <2>2, <2>3
<1> HIDE DEF c
<1>7. Behind(t, i - 1) = c
  BY <1>3, <1>5, <1>6 DEF Text
<1> QED
  BY <1>7 DEF c

\* jsonEscape() and parseFlatJson(): a text comes back from the file as it went
\* into it, whatever quotes, backslashes and control characters it holds.
THEOREM TextComesBack ==
  ASSUME NEW t \in Text
  PROVE  Saver!Decode(Saver!Escape(t) \o <<"q">>) = t
<1>0. PICK n \in Nat : n = Len(t)
  BY DEF Text
<1>1. PICK f : f = Saver!EscapedTo(t)
  OBVIOUS
<1>2. \A m \in 0 .. n : f[m] \in Text /\ Len(f[m]) \in Nat
  BY <1>0, <1>1, EscapedTypes DEF Text
<1>3. Saver!Escape(t) = f[n] /\ f[n] \in Text
  BY <1>0, <1>1, <1>2 DEF Saver!Escape
<1>4. PICK z \in Nat : z = Len(f[n])
  BY <1>3 DEF Text
<1>5. PICK j : j = Saver!Escape(t) \o <<"q">>
  OBVIOUS
<1>6. /\ j \in Text /\ Len(j) = z + 1
      /\ \A k \in 1 .. z : j[k] = f[n][k]
      /\ j[z + 1] = "q"
  <2>1. <<"q">> \in Text
    BY DEF Text, Saver!Characters
  <2>2. /\ j \in Text /\ Len(j) = z + 1
        /\ \A k \in 1 .. z + 1 : j[k] = IF k <= z THEN f[n][k] ELSE <<"q">>[k - z]
    BY <1>3, <1>4, <1>5, <2>1, ConcatProperties DEF Text
  <2>3. z + 1 \in 1 .. z + 1 /\ ~(z + 1 <= z) /\ (z + 1) - z = 1
    OBVIOUS
  <2>4. \A k \in 1 .. z : k \in 1 .. z + 1 /\ k <= z
    OBVIOUS
  <2> QED
    BY <2>2, <2>3, <2>4
<1>7. PICK d : d = Saver!DecodedFrom(j)
  OBVIOUS
<1> DEFINE Back(i) == d[Len(f[i]) + 1] = Behind(t, i)
<1>8. Back(n)
  <2>1. z + 1 \in 1 .. Len(j) + 3
    BY <1>6
  <2>2. d[z + 1] = DecodedAt(j, d, z + 1)
    BY <1>6, <1>7, <2>1, DecodedFromIs
  <2>3. d[z + 1] = <<>>
    BY <1>6, <2>2 DEF DecodedAt
  <2>4. Behind(t, n) = <<>>
    BY <1>0 DEF Behind
  <2> QED
    BY <1>4, <2>3, <2>4
<1>9. ASSUME NEW i \in 1 .. n, Back(i)
      PROVE  Back(i - 1)
  <2>1. PICK a, b, e : a = f[i - 1] /\ b = f[i] /\ e = Saver!Escaped(t[i])
    OBVIOUS
  <2>2. i - 1 \in 0 .. n /\ i \in 0 .. n /\ t[i] \in Saver!Characters
    BY <1>0 DEF Text
  <2>3. PICK x \in Nat, y \in Nat, l \in Nat : x = Len(a) /\ y = Len(b) /\ l = Len(e)
    <3>1. a \in Text /\ b \in Text
      BY <1>2, <2>1, <2>2
    <3>2. e \in Text
      BY <2>1, <2>2, EscapedIs
    <3> QED
      BY <3>1, <3>2 DEF Text
  <2>4. y = x + l /\ \A k \in 1 .. l : b[x + k] = e[k]
    <3>1. t \in Text /\ i \in 1 .. Len(t) /\ f = Saver!EscapedTo(t)
      BY <1>0, <1>1
    <3>2. Extends(f[i - 1], f[i], Saver!Escaped(t[i]))
      BY <3>1, EscapedGrows
    <3>3. y = x + l
      BY <2>1, <2>3, <3>2 DEF Extends
    <3>4. ASSUME NEW k \in 1 .. l PROVE b[x + k] = e[k]
      BY <2>1, <2>3, <3>2 DEF Extends
    <3> QED
      BY <3>3, <3>4
  <2>5. y <= z /\ \A k \in 1 .. y : f[n][k] = b[k]
    <3>1. i \in 0 .. Len(t)
      BY <1>0, <2>2
    <3>2. /\ Len(f[i]) <= Len(Saver!Escape(t))
          /\ \A k \in 1 .. Len(f[i]) : Saver!Escape(t)[k] = f[i][k]
      BY <1>1, <3>1, EscapedStays
    <3> QED
      BY <1>3, <1>4, <2>1, <2>3, <3>2
  <2>6. ASSUME NEW k \in 1 .. l
        PROVE  j[(x + 1) + (k - 1)] = e[k]
    <3>1. (x + 1) + (k - 1) = x + k /\ x + k \in 1 .. y /\ x + k \in 1 .. z
      BY <2>4, <2>5
    <3> QED
      BY <1>6, <2>4, <2>5, <3>1
  <2>7. (x + 1) + l <= z + 1 /\ x + 1 \in Nat \ {0}
    BY <2>4, <2>5
  <2>8. d[x + 1] = <<t[i]>> \o d[x + 1 + l]
    BY <1>6, <1>7, <2>1, <2>2, <2>3, <2>6, <2>7, DecodesOne
  <2>9. d[x + 1 + l] = Behind(t, i)
    <3>1. y + 1 = x + 1 + l
      BY <2>4
    <3> QED
      BY <1>9, <2>1, <2>3, <3>1
  <2>10. Behind(t, i - 1) = <<t[i]>> \o Behind(t, i)
    BY <1>0, BehindGrows
  <2> QED
    BY <2>1, <2>3, <2>8, <2>9, <2>10
<1> HIDE DEF Back
<1> DEFINE T == {m \in 0 .. n : Back(n - m)}
<1>10. ASSUME NEW m \in 0 .. n, \A k \in 0 .. (m - 1) : k \in T
       PROVE  m \in T
  <2>1. CASE m = 0
    <3>1. n - m = n
      BY <2>1
    <3> QED
      BY <1>8, <3>1
  <2>2. CASE m # 0
    <3>1. m - 1 \in 0 .. (m - 1) /\ n - (m - 1) \in 1 .. n
          /\ (n - (m - 1)) - 1 = n - m
      BY <2>2
    <3>2. Back(n - (m - 1))
      BY <1>10, <3>1
    <3> QED
      BY <1>9, <3>1, <3>2
  <2> QED
    BY <2>1, <2>2
<1>11. Back(0)
  <2>1. 0 .. n \subseteq T
    <3> HIDE DEF T
    <3> QED
      BY <1>10, Climbs
  <2>2. n \in 0 .. n /\ n - n = 0
    OBVIOUS
  <2> QED
    BY <2>1, <2>2
<1>12. d[1] = Behind(t, 0)
  <2>1. f[0] = <<>>
    BY <1>1, EscapedToIs
  <2>2. Len(f[0]) + 1 = 1
    BY <2>1
  <2> QED
    BY <1>11, <2>2 DEF Back
<1>13. Behind(t, 0) = t
  <2>1. Behind(t, 0) = [k \in 1 .. n |-> t[k]]
    BY <1>0 DEF Behind
  <2> QED
    BY <1>0, <2>1 DEF Text
<1> QED
  BY <1>5, <1>7, <1>12, <1>13 DEF Saver!Decode

-----------------------------------------------------------------------------
(* MidiInput: ports and notes.                                             *)

PortTypes ==
  /\ ports \in Seq(Devices) /\ listed \in Seq(Devices)
  /\ opened \in Devices \cup {None}
  /\ pGui \in {"start", "idle", "open"}
  /\ down \subseteq Devices \X Channels
  /\ held \subseteq Channels /\ lost \subseteq Channels
  /\ rx = None \/ rx \in Messages

\* Nothing arrives while no port is open, and none is when one is opened.
OpenInv ==
  /\ opened = None => rx = None
  /\ pGui \in {"start", "open"} => opened = None
  /\ pGui = "open" /\ ~swapped =>
       pick.idx \in DOMAIN ports /\ ports[pick.idx] = pick.want
  /\ opened # None /\ ~swapped => opened = pShown

\* The release that is on its way, and the press.
Releasing == IF rx # None /\ rx.kind \in {"off", "on_0"} THEN {rx.ch} ELSE {}
Pressing == IF rx # None /\ rx.kind = "on" THEN {rx.ch} ELSE {}

\* Every note the engine holds is still played, or its release is on its way or
\* lost; and a press on its way is one of these too.
HeldInv ==
  /\ held \subseteq Ports!Played \cup lost \cup Releasing
  /\ Pressing \subseteq Ports!Played \cup lost

PortsInv == PortTypes /\ OpenInv /\ HeldInv

\* The player's side: devices come and go, keys go down and up.
LEMMA PlayerKeeps ==
  ASSUME PortsInv, Ports!Plug \/ Ports!Unplug \/ Ports!Play
  PROVE  PortsInv'
<1> USE PortsAssumption DEF PortsInv, Ports!panel, Ports!input
<1>1. CASE Ports!Plug
  <2>1. PICK d \in Devices : ports' \in {Append(ports, d), <<d>> \o ports}
    BY <1>1 DEF Ports!Plug
  <2>2. Append(ports, d) \in Seq(Devices) /\ <<d>> \o ports \in Seq(Devices)
    BY DEF PortTypes
  <2>3. PortTypes'
    BY <1>1, <2>1, <2>2 DEF Ports!Plug, PortTypes
  <2> QED
    BY <1>1, <2>3 DEF Ports!Plug, OpenInv, HeldInv, Ports!Played, Releasing, Pressing
<1>2. CASE Ports!Unplug
  <2>1. PICK i \in DOMAIN ports :
          /\ ports' = SubSeq(ports, 1, i - 1) \o SubSeq(ports, i + 1, Len(ports))
          /\ down' = {k \in down : k[1] # ports[i]}
          /\ lost' = lost \cup IF ports[i] = opened THEN Ports!Played ELSE {}
          /\ swapped' = TRUE
          /\ UNCHANGED <<Ports!panel, Ports!input, rx, held>>
    BY <1>2 DEF Ports!Unplug
  <2>2. Ports!Played \subseteq Ports!Played' \cup lost'
    BY <2>1 DEF Ports!Played, PortTypes
  <2>3. PortTypes'
    <3>1. ports' \in Seq(Devices)
      BY <2>1 DEF PortTypes
    <3>2. lost' \subseteq Channels
      BY <2>1 DEF PortTypes, Ports!Played
    <3> QED
      BY <2>1, <3>1, <3>2 DEF PortTypes
  <2>4. HeldInv'
    BY <2>1, <2>2 DEF HeldInv, Releasing, Pressing
  <2> QED
    BY <2>1, <2>3, <2>4 DEF OpenInv
<1>3. CASE Ports!Play
  <2>1. PICK i \in DOMAIN ports, c \in Channels :
          /\ \/ /\ <<ports[i], c>> \notin down
                /\ down' = down \cup {<<ports[i], c>>}
                /\ Ports!Message(ports[i], c, "on")
             \/ /\ <<ports[i], c>> \in down
                /\ down' = down \ {<<ports[i], c>>}
                /\ Ports!Message(ports[i], c, "off") \/ Ports!Message(ports[i], c, "on_0")
             \/ Ports!Message(ports[i], c, "all_off") /\ UNCHANGED down
          /\ UNCHANGED <<ports, swapped, Ports!panel, Ports!input, held, lost>>
    BY <1>3 DEF Ports!Play
  <2>2. ports[i] \in Devices
    BY DEF PortTypes
  <2>3. PortTypes'
    BY <2>1, <2>2 DEF PortTypes, Ports!Message, Messages
  <2>4. OpenInv'
    BY <2>1, <2>2 DEF OpenInv, Ports!Message
  <2>5. HeldInv'
    <3>1. CASE ports[i] # opened
      BY <2>1, <3>1 DEF HeldInv, Ports!Message, Ports!Played, Releasing, Pressing
    <3>2. CASE ports[i] = opened
      <4>1. rx = None /\ rx' \in Messages /\ rx'.ch = c
        BY <2>1, <3>2 DEF Ports!Message, Messages
      <4>2. Ports!Played \subseteq Ports!Played' \cup Releasing'
        BY <2>1, <3>2, <4>1 DEF Ports!Message, Ports!Played, Releasing
      <4>3. Pressing' \subseteq Ports!Played'
        BY <2>1, <3>2, <4>1 DEF Ports!Message, Ports!Played, Pressing
      <4> QED
        BY <2>1, <4>1, <4>2, <4>3 DEF HeldInv, Releasing
    <3> QED
      BY <3>1, <3>2
  <2> QED
    BY <2>3, <2>4, <2>5
<1> QED
  BY <1>1, <1>2, <1>3

\* The callback takes a release off its way only by ending the note or by
\* putting it among those that are lost.
LEMMA CallbackKeeps ==
  ASSUME PortsInv, Ports!Filter \/ Ports!Send
  PROVE  PortsInv'
<1> USE PortsAssumption DEF PortsInv, Ports!panel, Ports!input, Ports!player
<1>1. rx # None /\ rx \in Messages
  BY DEF Ports!Filter, Ports!Send, PortTypes
<1>2. CASE Ports!Filter
  <2>1. PortTypes'
    BY <1>1, <1>2 DEF Ports!Filter, PortTypes, Messages
  <2>2. OpenInv'
    BY <1>2 DEF Ports!Filter, OpenInv
  <2>3. HeldInv'
    <3>1. CASE rx' = None
      <4>1. lost' = IF rx.kind \in {"off", "on_0"} THEN lost \cup ({rx.ch} \cap held)
                    ELSE lost
        BY <1>1, <1>2, <3>1 DEF Ports!Filter, Messages
      <4>2. Releasing \cap held \subseteq lost' /\ lost \subseteq lost'
        BY <4>1 DEF Releasing
      <4> QED
        BY <1>2, <3>1, <4>2
           DEF Ports!Filter, HeldInv, Ports!Played, Releasing, Pressing
    <3>2. CASE rx' # None
      <4>1. rx' = [rx EXCEPT !.at = "send"] /\ UNCHANGED lost
        BY <1>2, <3>2 DEF Ports!Filter
      <4>2. rx'.kind = rx.kind /\ rx'.ch = rx.ch
        BY <1>1, <4>1 DEF Messages
      <4> QED
        BY <1>1, <1>2, <3>2, <4>1, <4>2
           DEF Ports!Filter, HeldInv, Ports!Played, Releasing, Pressing
    <3> QED
      BY <3>1, <3>2
  <2> QED
    BY <2>1, <2>2, <2>3
<1>3. CASE Ports!Send
  <2>1. PortTypes'
    BY <1>1, <1>3 DEF Ports!Send, PortTypes, Messages, Ports!Effect
  <2>2. OpenInv'
    BY <1>3 DEF Ports!Send, OpenInv
  <2>3. HeldInv'
    BY <1>1, <1>3 DEF Ports!Send, Ports!Effect, HeldInv, Ports!Played, Releasing,
         Pressing, Messages
  <2> QED
    BY <2>1, <2>2, <2>3
<1> QED
  BY <1>2, <1>3

\* The panel closes a port only between two callbacks, and gives every note
\* that sounds up for lost.
LEMMA PanelKeeps ==
  ASSUME PortsInv,
         \/ Ports!InitFromState \/ Ports!Rescan \/ Ports!PickNone
         \/ Ports!PickPort \/ Ports!OpenPicked \/ Ports!SwitchChannel
  PROVE  PortsInv'
<1> USE PortsAssumption DEF PortsInv, Ports!player, Ports!input
<1>0. opened = None => Ports!Played = {}
  BY DEF Ports!Played, PortTypes
<1>1. CASE Ports!InitFromState
  <2> DEFINE fits == {i \in DOMAIN ports : <<pShown, ports[i]>> \in Within}
  <2>1. /\ pGui = "start" /\ pGui' = "idle" /\ opened = None /\ rx = None
        /\ UNCHANGED <<Ports!player, listed, wanted, pick, rx, held, lost>>
    BY <1>1 DEF Ports!InitFromState, OpenInv
  <2>2. held \subseteq lost
    BY <1>0, <2>1 DEF HeldInv, Releasing
  <2>3. \/ opened' = None
        \/ \E i \in DOMAIN ports : opened' = ports[i] /\ pShown' = ports[i]
    <3>1. PICK refusing \in SUBSET fits :
            IF fits = {} THEN UNCHANGED <<Ports!input, pShown>>
            ELSE /\ mask' = wanted
                 /\ IF refusing = fits
                    THEN Ports!Opens(0, TRUE) /\ UNCHANGED pShown
                    ELSE LET i == CHOOSE i \in fits \ refusing :
                                    \A j \in fits \ refusing : i <= j
                         IN  Ports!Opens(i, FALSE) /\ pShown' = ports[i]
      BY <1>1 DEF Ports!InitFromState
    <3>2. CASE fits = {} \/ refusing = fits
      BY <2>1, <3>1, <3>2 DEF Ports!Opens
    <3>3. CASE fits # {} /\ refusing # fits
      <4> DEFINE i == CHOOSE i \in fits \ refusing : \A j \in fits \ refusing : i <= j
      <4>0. \A x \in DOMAIN ports : x \in Nat
        BY DEF PortTypes
      <4>1. fits \ refusing # {} /\ fits \ refusing \in SUBSET Nat
        BY <3>3, <4>0
      <4>2. \E k \in fits \ refusing : \A j \in fits \ refusing : k <= j
        BY <4>1, LeastNatural
      <4>3. i \in fits \ refusing
        BY <4>2
      <4>4. Ports!Opens(i, FALSE) /\ pShown' = ports[i]
        BY <3>1, <3>3
      <4> HIDE DEF i
      <4> QED
        BY <4>3, <4>4 DEF Ports!Opens
    <3> QED
      BY <3>2, <3>3
  <2>4. PortTypes'
    BY <2>1, <2>3 DEF PortTypes
  <2> QED
    BY <2>1, <2>2, <2>3, <2>4 DEF OpenInv, HeldInv, Releasing, Pressing
<1>2. CASE Ports!Rescan \/ Ports!SwitchChannel
  BY <1>2 DEF Ports!Rescan, Ports!SwitchChannel, PortTypes, OpenInv, HeldInv,
       Ports!Played, Releasing, Pressing
<1>3. ASSUME Ports!close, opened' = None, UNCHANGED <<rx, down>>
      PROVE  /\ held' \subseteq lost' /\ rx' = None
             /\ held' \subseteq Channels /\ lost' \subseteq Channels
  BY <1>0, <1>3 DEF Ports!close, HeldInv, Releasing, PortTypes
<1>4. CASE Ports!PickNone
  BY <1>3, <1>4 DEF Ports!PickNone, PortTypes, OpenInv, HeldInv, Releasing, Pressing
<1>5. CASE Ports!PickPort
  <2>1. PICK k \in DOMAIN listed :
          IF Ports!IndexOf(listed[k], ports) # 0
          THEN /\ Ports!close
               /\ opened' = None /\ engine' = FALSE /\ mask' = wanted
               /\ pGui' = "open"
               /\ pick' = [want |-> listed[k], idx |-> Ports!IndexOf(listed[k], ports)]
               /\ swapped' = FALSE
               /\ UNCHANGED listed
          ELSE /\ listed' = ports
               /\ UNCHANGED <<Ports!input, pGui, pick, held, lost, swapped>>
    BY <1>5 DEF Ports!PickPort
  <2>2. pGui = "idle" /\ UNCHANGED <<ports, down, pShown, wanted, rx>>
    BY <1>5 DEF Ports!PickPort
  <2>3. CASE Ports!IndexOf(listed[k], ports) # 0
    <3>1. /\ Ports!IndexOf(listed[k], ports) \in DOMAIN ports
          /\ ports[Ports!IndexOf(listed[k], ports)] = listed[k]
      BY <2>3 DEF Ports!IndexOf
    <3>2. pick'.idx \in DOMAIN ports' /\ ports'[pick'.idx] = pick'.want
      BY <2>1, <2>2, <2>3, <3>1
    <3> QED
      BY <1>3, <2>1, <2>2, <2>3, <3>2
         DEF PortTypes, OpenInv, HeldInv, Releasing, Pressing
  <2>4. CASE Ports!IndexOf(listed[k], ports) = 0
    BY <2>1, <2>2, <2>4 DEF PortTypes, OpenInv, HeldInv, Ports!Played, Releasing,
         Pressing
  <2> QED
    BY <2>3, <2>4
<1>6. CASE Ports!OpenPicked
  <2>1. /\ pGui = "open" /\ pGui' = "idle" /\ opened = None /\ rx = None
        /\ pShown' = IF opened' # None THEN pick.want ELSE pShown
        /\ UNCHANGED <<ports, down, swapped, mask, listed, wanted, rx, held, lost>>
    BY <1>6 DEF Ports!OpenPicked, OpenInv
  <2>2. held \subseteq lost
    BY <1>0, <2>1 DEF HeldInv, Releasing
  <2>3. \/ opened' = None
        \/ /\ opened' \in Devices
           /\ pick.idx \in DOMAIN ports => opened' = ports[pick.idx]
    BY <1>6 DEF Ports!OpenPicked, Ports!Opens, PortTypes
  <2>4. PortTypes'
    BY <2>1, <2>3 DEF PortTypes
  <2> QED
    BY <2>1, <2>2, <2>3, <2>4 DEF OpenInv, HeldInv, Releasing, Pressing
<1> QED
  BY <1>1, <1>2, <1>4, <1>5, <1>6

\* MidiInput: however devices, ports and channels change under the player's
\* hands, a note hangs only if its release had no way to arrive, and the panel
\* names the port that is open.
THEOREM NotesAreEnded == Ports!Spec => []NotesEnd
<1>1. Ports!Init => PortsInv
  <2> SUFFICES ASSUME Ports!Init PROVE PortsInv
    OBVIOUS
  <2>1. PICK d \in Devices : ports \in {<<>>, <<d>>}
    BY DEF Ports!Init
  <2>2. <<>> \in Seq(Devices) /\ <<d>> \in Seq(Devices)
    OBVIOUS
  <2>3. PortTypes
    BY <2>1, <2>2 DEF Ports!Init, PortTypes
  <2>4. OpenInv /\ HeldInv
    BY PortsAssumption DEF Ports!Init, OpenInv, HeldInv, Releasing, Pressing
  <2> QED
    BY <2>3, <2>4 DEF PortsInv
<1>2. PortsInv /\ [Ports!Next]_(Ports!vars) => PortsInv'
  <2>1. CASE Ports!Next
    BY <2>1, PlayerKeeps, CallbackKeeps, PanelKeeps DEF Ports!Next
  <2>2. CASE UNCHANGED Ports!vars
    BY <2>2 DEF Ports!vars, PortsInv, PortTypes, OpenInv, HeldInv, Ports!Played,
         Releasing, Pressing
  <2> QED
    BY <2>1, <2>2
<1>3. PortsInv => NotesEnd
  BY DEF PortsInv, OpenInv, HeldInv, Releasing, NotesEnd, Ports!NotesEnd, Ports!RightPort
<1> QED
  BY <1>1, <1>2, <1>3, PTL DEF Ports!Spec
=============================================================================
