--------------------------- MODULE MCInputDispatcher ---------------------------
(***************************************************************************)
(* Instances of InputDispatcher for TLC.                                   *)
(***************************************************************************)
EXTENDS InputDispatcher, TLC

CONSTANTS w1, w2, e1, s1

\* Two writes, an end of input and a signal.
Kinds == [o \in Op |-> IF o = e1 THEN "eof" ELSE IF o = s1 THEN "signal" ELSE "write"]
=============================================================================
