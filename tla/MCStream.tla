------------------------------- MODULE MCStream -------------------------------
(* Small instances of StreamEngine for TLC. *)
EXTENDS StreamInvariant, TLC

\* One file twice as long as the ring.
LongFile == {[len |-> 8, disk |-> 8]}
\* One that leaves room for two requests behind the first.
LongerFile == {[len |-> 10, disk |-> 10]}
\* A file that fits, one that does not, one cut short on the disk.
MixedFiles == {[len |-> 3, disk |-> 3], [len |-> 6, disk |-> 6],
               [len |-> 6, disk |-> 5]}
AnyOrder == Permutations(Workers) \cup Permutations(Voices)
=============================================================================
