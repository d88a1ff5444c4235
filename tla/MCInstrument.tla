----------------------------- MODULE MCInstrument -----------------------------
(* A small instance of Instrument for TLC. *)
EXTENDS Instrument, TLC

\* A pedal with all three zones: on the strings, half way, down.
Half == {0, 40, 127}
\* Every string answers to every other.
AllKin == Notes \X Notes
AnyKey == Permutations(Notes) \cup Permutations(Slots)
=============================================================================
