------------------------------ MODULE MCKeyboard ------------------------------
(* Small instances of Keyboard for TLC. *)
EXTENDS Keyboard, TLC

\* A pedal that is a switch, and one that stops half way.
OnOff == {0, 127}
Half  == {0, 40, 127}
AnyKey == Permutations(Notes) \cup Permutations(Channels) \cup Permutations(Slots)
=============================================================================
