--------------------------- MODULE MCRemoteInvocation ---------------------------
(***************************************************************************)
(* Instances of RemoteInvocation for TLC.                                  *)
(***************************************************************************)
EXTENDS RemoteInvocation

CONSTANTS c1, c2
=============================================================================
