--------------------------- MODULE MCProcessManager ---------------------------
(***************************************************************************)
(* Instances of ProcessManager for TLC.                                    *)
(***************************************************************************)
EXTENDS ProcessManager, TLC

CONSTANTS c1, c2, r1, r2, d1, d2

Ask(r, d) == [id |-> r, payload |-> d]

\* The second call repeats the request of the first, with its payload or with
\* another one, or makes a request of its own.
Repeats ==
    (c1 :> {Ask(r1, d1)}) @@ (c2 :> {Ask(r1, d1), Ask(r1, d2), Ask(r2, d1)})
=============================================================================
