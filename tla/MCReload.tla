------------------------------- MODULE MCReload -------------------------------
(***************************************************************************)
(* Two layers to switch between.                                           *)
(***************************************************************************)
EXTENDS BankReload
=============================================================================
