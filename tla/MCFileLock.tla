------------------------------ MODULE MCFileLock ------------------------------
(***************************************************************************)
(* Instances of FileLock for TLC.                                          *)
(***************************************************************************)
EXTENDS FileLock, TLC

CONSTANTS p1, p2, p3, t1, t2, t3, t4

\* Two tasks in each of two processes.
Shared == (t1 :> p1) @@ (t2 :> p1) @@ (t3 :> p2) @@ (t4 :> p2)

\* Every task has a process of its own.
Apart == [t \in Task |-> IF t = t1 THEN p1 ELSE IF t = t2 THEN p2 ELSE p3]
=============================================================================
