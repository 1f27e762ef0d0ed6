-------------------------- MODULE MCProjectTransaction --------------------------
(***************************************************************************)
(* Instances of ProjectTransaction for TLC.                                *)
(***************************************************************************)
EXTENDS ProjectTransaction

CONSTANTS p1, p2, p3, a, b
=============================================================================
