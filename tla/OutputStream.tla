----------------------------- MODULE OutputStream ------------------------------
(***************************************************************************)
(* What reading the output of a process promises, whatever records it is   *)
(* kept in: a stream of bytes of which the latest are kept, and clients    *)
(* that receive it in order, each byte once, and are told of every gap.    *)
(***************************************************************************)
EXTENDS Integers

CONSTANTS Proc, Reader, Of, MaxBufferBytes

VARIABLES
    total,   \* total[p]: bytes that process p has written
    kept,    \* kept[p]: where those begin that are kept
    got,     \* got[r]: bytes that client r received
    lost     \* lost[r]: bytes it was told are gone

vars == <<total, kept, got, lost>>

At(r) == got[r] + lost[r]

\* The bytes between a client at a and the first byte that is kept.
Gap(k, a) == IF a < k THEN k - a ELSE 0

\* Process p writes.  Bytes are given up only for the limit, never the latest.
Writes(p) ==
    /\ total'[p] > total[p] /\ kept'[p] >= kept[p]
    /\ kept'[p] > kept[p] => total'[p] - kept[p] > MaxBufferBytes
    /\ total'[p] - kept'[p] \in 1..MaxBufferBytes

\* Client r is answered: the gap is what is gone and no more, and what follows
\* it is not empty unless the client has come to the end.
Receives(r) ==
    LET p == Of[r] IN
    /\ lost'[r] = lost[r] + Gap(kept'[p], At(r))
    /\ got'[r] >= got[r]
    /\ got'[r] + lost'[r] <= total'[p]
    /\ got'[r] > got[r] \/ got'[r] + lost'[r] = total'[p]

Init ==
    /\ total = [p \in Proc |-> 0] /\ kept = [p \in Proc |-> 0]
    /\ got = [r \in Reader |-> 0] /\ lost = [r \in Reader |-> 0]

Next ==
    /\ \A p \in Proc : Writes(p) \/ (total'[p] = total[p] /\ kept'[p] = kept[p])
    /\ \A r \in Reader : Receives(r) \/ (got'[r] = got[r] /\ lost'[r] = lost[r])

Spec == Init /\ [][Next]_vars
=============================================================================
