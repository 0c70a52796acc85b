------------------------------ MODULE Absence ------------------------------
(***************************************************************************)
(* What the modules of the algorithms share: the value of an Option that   *)
(* holds none.                                                             *)
(***************************************************************************)
CONSTANT None
=============================================================================
