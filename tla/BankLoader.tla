------------------------------ MODULE BankLoader ------------------------------
(***************************************************************************)
(* How a bank comes from its directory into memory: the format is told     *)
(* from what the directory holds (bank_index.cpp, ithaca_bank.cpp), the    *)
(* heads of the samples are read by a pool of workers and merged in the    *)
(* order of the scan under a memory budget, each note's layers are put in  *)
(* order of loudness and one of them gets a resonance buffer               *)
(* (sample_store.cpp); a key then selects a layer (patch_manager.cpp).     *)
(*                                                                         *)
(* A sample file is a record: its midi note, its length in frames, its     *)
(* loudness, and whether it is "whole", "short" (truncated: its head is a  *)
(* frame shorter than announced), "bad" (its data cannot be read) or       *)
(* "headerless" (nor can its header).  A frame is the unit of memory too.  *)
(*                                                                         *)
(* RefusedAtBudget and KeepOrder are faulty variants of the definitions    *)
(* that follow them.                                                       *)
(***************************************************************************)
EXTENDS Integers, Sequences, FiniteSets, SequencesExt

CONSTANTS
  Samples,     \* sample files a directory may hold
  Directories, \* what scanBank may meet: see FormatOf
  MaxFiles,    \* bound of a scan
  Budgets,     \* RAM budgets; 0 is none
  Preload,     \* preload_ms in frames
  Window,      \* resonance_window_ms in frames
  Layers,      \* loudness the resonance may ask for
  Workers, None

VARIABLES
  dir, files, budget, layer,   \* the directory, its scan, the configuration
  phase,      \* BankLoadProgress::phase, and where loadBank ends
  next,       \* the shared index of parallelFor
  task,       \* what each worker works on
  approx,     \* approx_bytes
  prepared,   \* frames in memory of each file read; None: not ok
  notes,      \* the bank: layers of each note, as indexes of files
  total,      \* total_bytes
  truncated, licence,          \* progress->truncated, license_invalid
  buffer      \* frames of each file's resonance buffer

vars == <<dir, files, budget, layer, phase, next, task, approx, prepared,
          notes, total, truncated, licence, buffer>>

Midis == {s.midi : s \in Samples}
Lesser(a, b) == IF a < b THEN a ELSE b

\* scanBank: a packed file before note folders before flat files, of which
\* the more frequent kind decides.
FormatOf(d) ==
  CASE d.packed # "none"     -> "packed"
    [] d.folders             -> "dynamic"
    [] d.fixed + d.extended = 0 -> "unknown"
    [] d.fixed >= d.extended -> "fixed"
    [] OTHER                 -> "extended"

Init ==
  /\ dir \in Directories
  /\ files \in UNION {[1..n -> Samples] : n \in 1..MaxFiles}
  /\ FormatOf(dir) = "packed" =>   \* the baker has sorted them and left out
       /\ \A i \in 1..Len(files) - 1 : files[i].rms <= files[i + 1].rms
       /\ \A i \in 1..Len(files) : files[i].is = "whole"    \* the unreadable
  /\ budget \in Budgets /\ layer \in Layers
  /\ phase = "scan" /\ next = 1
  /\ task = [w \in Workers |-> None]
  /\ approx = 0 /\ prepared = [i \in 1..Len(files) |-> None]
  /\ notes = [m \in Midis |-> <<>>] /\ total = 0
  /\ truncated = FALSE /\ licence = "asked for by none"
  /\ buffer = [i \in 1..Len(files) |-> 0]

\* openIthacaBank: sizes, hashes and ranges are checked first, the licence of
\* an encrypted bank last.
OpenPacked == dir.packed = "ok"

\* loadBank dispatches on the format; what it cannot load is an empty bank.
Scan ==
  /\ phase = "scan"
  /\ phase' = IF \/ FormatOf(dir) \in {"fixed", "dynamic"}
                 \/ FormatOf(dir) = "packed" /\ OpenPacked
              THEN "heads" ELSE "done"
  /\ licence' = IF dir.packed = "unlicensed" THEN "invalid" ELSE licence
  /\ UNCHANGED <<dir, files, budget, layer, next, task, approx, prepared, notes,
                 total, truncated, buffer>>
-----------------------------------------------------------------------------
(* The workers of parallelFor. *)

TakeIndex(w) ==
  /\ phase = "heads" /\ task[w] = None /\ next <= Len(files)
  /\ task' = [task EXCEPT ![w] = [file |-> next, at |-> "weigh"]]
  /\ next' = next + 1
  /\ UNCHANGED <<dir, files, budget, layer, phase, approx, prepared, notes,
                 total, truncated, licence, buffer>>

\* A file that fits twice into the preload is kept in memory as a whole.
FullyLoaded(s) == s.frames <= 2 * Preload
HeadOf(s) == IF FullyLoaded(s) THEN s.frames ELSE Preload

\* The guard against memory running out while heads are read in parallel.
RefusedAtBudget(weight) == budget > 0 /\ weight > budget
Refused(weight) == budget > 0 /\ weight > 2 * budget

\* A file without a header is let go; any other is weighed by what its header
\* announces, and counts when it is refused as well.
Weigh(w) ==
  /\ task[w] # None /\ task[w].at = "weigh"
  /\ LET s      == files[task[w].file]
         weight == approx + HeadOf(s)
         known  == s.is # "headerless"
     IN /\ approx' = IF known /\ budget > 0 THEN weight ELSE approx
        /\ task' = [task EXCEPT ![w] = IF known /\ ~Refused(weight)
                                       THEN [@ EXCEPT !.at = "read"] ELSE None]
  /\ UNCHANGED <<dir, files, budget, layer, phase, next, prepared, notes, total,
                 truncated, licence, buffer>>

\* The head is read; each worker writes its own element.
ReadHead(w) ==
  /\ task[w] # None /\ task[w].at = "read"
  /\ LET s == files[task[w].file]
     IN prepared' = [prepared EXCEPT ![task[w].file] =
                       CASE s.is = "bad"   -> None
                         [] s.is = "short" -> HeadOf(s) - 1
                         [] OTHER          -> HeadOf(s)]
  /\ task' = [task EXCEPT ![w] = None]
  /\ UNCHANGED <<dir, files, budget, layer, phase, next, approx, notes, total,
                 truncated, licence, buffer>>
-----------------------------------------------------------------------------
(* One thread again. *)

\* Files in the order of the scan.
InOrder(ids) ==
  CHOOSE s \in [1..Cardinality(ids) -> ids] : \A i, j \in DOMAIN s : i < j => s[i] < s[j]

Read == InOrder({i \in DOMAIN files : prepared[i] # None})

\* What the first k of some numbers are together.
Sums(numbers) ==
  LET sum[k \in 0..Len(numbers)] == IF k = 0 THEN 0 ELSE sum[k - 1] + numbers[k]
  IN  sum

\* What the first k of the prepared samples take.
Taken == LET read == Read IN Sums([k \in 1..Len(read) |-> prepared[read[k]]])

\* commitSample for each in the order of the scan, until the budget is spent.
Committed ==
  LET taken == Taken
      spent == {k \in 0..Len(Read) : budget > 0 /\ taken[k] >= budget}
  IN IF spent = {} THEN Len(Read) ELSE CHOOSE k \in spent : \A l \in spent : k <= l

\* A bank that was cut off says so.
ReportCut == truncated' = (Committed < Len(Read))

Layered(m, ids) == InOrder({i \in ToSet(ids) : files[i].midi = m})

\* sortBankSlotsByRms, for directories: the index of a packed bank has its
\* order already.  Layers of one loudness come in any order.
KeepOrder(ids) == {ids}
ByLoudness(ids) ==
  IF FormatOf(dir) = "packed" THEN {ids}
  ELSE {p \in [1..Len(ids) -> ToSet(ids)] :
          /\ ToSet(p) = ToSet(ids)
          /\ \A i \in 1..Len(ids) - 1 : files[p[i]].rms <= files[p[i + 1]].rms}

Merge ==
  /\ phase = "heads" /\ next > Len(files) /\ \A w \in Workers : task[w] = None
  /\ LET ids == SubSeq(Read, 1, Committed)
     IN \E bank \in [Midis -> UNION {ByLoudness(Layered(m, ids)) : m \in Midis}] :
          /\ \A m \in Midis : bank[m] \in ByLoudness(Layered(m, ids))
          /\ notes' = bank
  /\ total' = Taken[Committed] /\ ReportCut
  /\ phase' = IF Committed = 0 THEN "done" ELSE "cache"
  /\ UNCHANGED <<dir, files, budget, layer, next, task, approx, prepared,
                 licence, buffer>>

\* nearestSlotByRms: the first of the layers nearest to the loudness wanted.
Nearest(ids) ==
  LET far(i) == IF files[ids[i]].rms < layer THEN layer - files[ids[i]].rms
                ELSE files[ids[i]].rms - layer
  IN CHOOSE i \in 1..Len(ids) :
       /\ \A j \in 1..Len(ids) : far(i) <= far(j)
       /\ \A j \in 1..(i - 1) : far(j) > far(i)

\* buildResonanceCache: a window of the nearest layer behind its attack, which
\* ends within the head, if the layer is streamed and can be read; every other
\* buffer is given back.
BuildCache ==
  /\ phase = "cache"
  /\ LET wanted == {notes[m][Nearest(notes[m])] :
                      m \in {n \in Midis : notes[n] # <<>>}}
     IN \E failed \in SUBSET wanted, attack \in [wanted -> 0..Preload] :
          buffer' = [i \in DOMAIN files |->
                       IF i \in wanted \ failed /\ ~FullyLoaded(files[i])
                       THEN Lesser(Window, files[i].frames - attack[i]) ELSE 0]
  /\ phase' = "done"
  /\ UNCHANGED <<dir, files, budget, layer, next, task, approx, prepared, notes,
                 total, truncated, licence>>

Work(w) == TakeIndex(w) \/ Weigh(w) \/ ReadHead(w)

Next == Scan \/ (\E w \in Workers : Work(w)) \/ Merge \/ BuildCache

Spec == Init /\ [][Next]_vars
-----------------------------------------------------------------------------
\* slotIndexForVelocity: the velocities 0..127 spread over the layers, rounded.
SlotOf(velocity, n) == IF n <= 1 THEN 1
                       ELSE 1 + (2 * velocity * (n - 1) + 127) \div 254

\* selectVoice: the layer of a recorded note; the loaders give a layer only
\* one variant, so that the round robin has no choice.
Played(m, velocity) == notes[m][SlotOf(velocity, Len(notes[m]))]

TypeOK ==
  /\ phase \in {"scan", "heads", "cache", "done"}
  /\ next \in 1..MaxFiles + 1
  /\ \A w \in Workers :
       task[w] = None
       \/ task[w] \in [file : DOMAIN files, at : {"weigh", "read"}]
  /\ {approx, total} \subseteq Nat
  /\ truncated \in BOOLEAN
  /\ \A i \in DOMAIN files : buffer[i] \in 0..Window

Loaded == phase = "done" /\ total > 0
Whole == \A i \in DOMAIN files : files[i].is = "whole"
InBank(i) == \E m \in Midis : i \in ToSet(notes[m])
Heads == Sums([i \in DOMAIN files |-> HeadOf(files[i])])[Len(files)]

\* However the workers interleave, and whichever files the guard refuses, a
\* bank that says it is complete has every sample of its directory; and as long
\* as all heads are below twice the budget, so that none is refused, the samples
\* it has are those that come first in the scan (comments sample_store.cpp:57
\* and 388).  A head takes at most half the budget, and none of them fails.
BankComplete ==
  Loaded /\ Whole /\ (\A i \in DOMAIN files : 2 * HeadOf(files[i]) <= budget
                                          \/ budget = 0) =>
    /\ ~truncated => \A i \in DOMAIN files : InBank(i)
    /\ (budget = 0 \/ Heads <= 2 * budget) =>
         \A i, j \in DOMAIN files : i < j /\ InBank(j) => InBank(i)

\* A key struck harder never plays a quieter sample, in directories as in
\* packed banks.
LouderIsLouder ==
  Loaded =>
    \A m \in Midis : notes[m] # <<>> =>
      \A v, w \in {0, 1, 31, 32, 63, 64, 95, 96, 126, 127} : v < w =>
        files[Played(m, v)].rms <= files[Played(m, w)].rms

\* One layer of a note at most keeps a resonance buffer, and it is the one
\* nearest to the loudness asked for.
OneBuffer ==
  Loaded =>
    \A m \in Midis : \A i \in ToSet(notes[m]) :
      buffer[i] > 0 => i = notes[m][Nearest(notes[m])]
=============================================================================
