---------------------------- MODULE MCProcessOutput ----------------------------
(***************************************************************************)
(* Instances of ProcessOutput for TLC.                                     *)
(***************************************************************************)
EXTENDS ProcessOutput, TLC

CONSTANTS p1, p2, r1, r2

\* Both clients read the first process, one byte or two at a time.
Readers == [r \in Reader |-> p1]
ReadSizes == [r \in Reader |-> IF r = r1 THEN 1 ELSE 2]
=============================================================================
