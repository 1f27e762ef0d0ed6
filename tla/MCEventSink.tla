------------------------------ MODULE MCEventSink ------------------------------
(***************************************************************************)
(* Instances of EventSink for TLC.                                         *)
(***************************************************************************)
EXTENDS EventSink, TLC

CONSTANTS r1, r2, s1, s2

\* A run of three events and one of a single event.
Finishes == [r \in Run |-> IF r = r1 THEN 2 ELSE 0]
=============================================================================
