------------------------- MODULE MCExecutionService -------------------------
(***************************************************************************)
(* Instances of ExecutionService for TLC.                                  *)
(***************************************************************************)
EXTENDS ExecutionService, TLC

CONSTANTS h1, h2, c1, c2, c3, r1, d1, d2, o1, o2

\* Both sessions configured with one ownerId, so that they share keys.
SharedOwner == [h \in Host |-> o1]

\* The default: every service makes up an ownerId of its own.
OwnOwner == (h1 :> o1) @@ (h2 :> o2)

\* Calls are interchangeable, and so are sessions that share an owner.
Symmetry == Permutations(Call) \cup Permutations(Host)
=============================================================================
