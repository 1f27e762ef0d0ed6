------------------------ MODULE ExecutionServiceProofs ------------------------
(***************************************************************************)
(* Theorems about ExecutionService, for any number of sessions, calls,     *)
(* requests and owners and any limit.                                      *)
(***************************************************************************)
EXTENDS ExecutionService, TLAPS, FiniteSetTheorems, SequenceTheorems

-----------------------------------------------------------------------------
(* Type correctness *)

Statuses == {"none", "running", "deleted"} \cup Terminal

\* Deleting rows and orphaned keys keeps both tables well-typed.
LEMMA CleanExpiredType ==
    ASSUME TypeOK, NEW table \in [Call -> Statuses], NEW gone, CleanExpired(table, gone)
    PROVE  /\ stored' \in [Call -> Statuses]
           /\ key' \in [Owner -> [Request -> Call \cup {None}]]
  BY DEF TypeOK, CleanExpired, Deleted, Statuses, Terminal, Settled, WithoutOrphans

LEMMA CreateRunType ==
    ASSUME TypeOK, NEW c \in Call, NEW status \in {"running", "failed"},
           CreateRun(c, status)
    PROVE  /\ stored' \in [Call -> Statuses]
           /\ key' \in [Owner -> [Request -> Call \cup {None}]]
<1>1. [stored EXCEPT ![c] = status] \in [Call -> Statuses]
  BY DEF TypeOK, Statuses, Terminal, Settled
<1> QED
  BY <1>1, CleanExpiredType DEF CreateRun

LEMMA ReleaseSlotType ==
    ASSUME TypeOK, NEW c \in Call, ReleaseSlot(c)
    PROVE  slot' \in [Call -> BOOLEAN] /\ reserved' \in [Host -> Int]
<1>1. slot' \in [Call -> BOOLEAN]
  BY DEF TypeOK, ReleaseSlot
<1>2. reserved \in [Host -> Int] /\ (at[c] \in Host => reserved[at[c]] - 1 \in Int)
  BY DEF TypeOK
<1>3. [reserved EXCEPT ![at[c]] = @ - 1] \in [Host -> Int]
  BY <1>2
<1>4. reserved' \in [Host -> Int]
  BY <1>2, <1>3 DEF ReleaseSlot
<1> QED
  BY <1>1, <1>4

LEMMA AbortType ==
    ASSUME TypeOK, NEW c \in Call, NEW reason \in {"cancel", "timeout"}, Abort(c, reason)
    PROVE  /\ aborted' \in [Call -> {"no", "cancel", "timeout"}]
           /\ winner' \in [Call -> {"none", "value", "invalid", "throw", "abort"}]
<1>1. aborted' \in [Call -> {"no", "cancel", "timeout"}]
  BY DEF TypeOK, Abort
<1>2. winner' \in [Call -> {"none", "value", "invalid", "throw", "abort"}]
  BY DEF TypeOK, Abort
<1> QED
  BY <1>1, <1>2

\* A statement of the gate moves its call alone, and touches no session, row or
\* event.
LEMMA GateMoves ==
    ASSUME NEW c \in Call, Gate(c)
    PROVE  /\ pc[c] \in InGate
           /\ \E to \in {"replace", "get", "resolving", "rejected", "duplicate"} :
                 /\ pc' = [pc EXCEPT ![c] = to]
                 /\ seen' = [seen EXCEPT ![c] = IF to \in InGate THEN @ ELSE None]
           /\ UNCHANGED <<memVars, at, req, digest, slot, raceVars, unsaved, events, stored>>
  BY DEF Gate, GateInsert, GateReplace, GateWriteFails, GateStale, GateConflict, GateDuplicate,
         Duplicate, GateGet, Record, GateGoes, InGate

\* What a statement of the gate tells its call.
LEMMA GateTells ==
    ASSUME NEW c \in Call, Gate(c)
    PROVE  \/ UNCHANGED <<joined, result>>
           \/ /\ seen[c] \in Rows(stored)
              /\ joined' = [joined EXCEPT ![c] = seen[c]]
              /\ pc' = [pc EXCEPT ![c] = "duplicate"]
              /\ \/ pc[c] = "check" /\ digest[seen[c]] = digest[c] /\ UNCHANGED result
                 \/ /\ pc[c] = "get"
                    /\ result' = [result EXCEPT ![c] =
                          IF stored[seen[c]] \in Settled THEN stored[seen[c]] ELSE "failed"]
  BY DEF Gate, GateInsert, GateReplace, GateWriteFails, GateStale, GateConflict, GateDuplicate,
         Duplicate, GateGet, Record, GateGoes

LEMMA StatusOfType == \A c \in Call : StatusOf(c) \in Settled
  BY DEF StatusOf, Settled

\* The final event of a run is its result, so the type of events needs this.
FinalizedHasResult == \A c \in Call : pc[c] = "finalized" => result[c] \in Settled

LEMMA InitType == Init => TypeOK /\ FinalizedHasResult
  BY RequestAssumption DEF Init, TypeOK, FinalizedHasResult

LEMMA NextType == TypeOK /\ FinalizedHasResult /\ [Next]_vars => TypeOK'
<1> SUFFICES ASSUME TypeOK, FinalizedHasResult, [Next]_vars
             PROVE  TypeOK'
  OBVIOUS
<1> USE DEF TypeOK
<1>1. ASSUME NEW h \in Host, Open(h)
      PROVE  TypeOK'
  <2>1. [c \in Call |-> IF c \in Orphans THEN "interrupted" ELSE stored[c]]
            \in [Call -> Statuses]
    BY DEF Statuses, Terminal, Settled
  <2>2. /\ stored' \in [Call -> Statuses]
        /\ key' \in [Owner -> [Request -> Call \cup {None}]]
    BY <1>1, <2>1, CleanExpiredType DEF Open
  <2> QED
    BY <1>1, <2>2 DEF Open, idVars, raceVars, outVars, Statuses
<1>2. ASSUME NEW h \in Host, CloseBegin(h) \/ CloseEnd(h) \/ Die(h)
      PROVE  TypeOK'
  <2>1. CASE CloseBegin(h)
    <3>1. svc' \in [Host -> {"down", "open", "closing", "closed", "dead"}]
      BY <2>1 DEF CloseBegin
    <3>2. reserved' \in [Host -> Int]
      BY <2>1 DEF CloseBegin
    <3>3. aborted' \in [Call -> {"no", "cancel", "timeout"}]
      BY <2>1 DEF CloseBegin, AbortAll
    <3>4. winner' \in [Call -> {"none", "value", "invalid", "throw", "abort"}]
      BY <2>1 DEF CloseBegin, AbortAll
    <3> QED
      BY <2>1, <3>1, <3>2, <3>3, <3>4 DEF CloseBegin, idVars, outVars, dbVars
  <2>2. CASE CloseEnd(h)
    BY <2>2 DEF CloseEnd, idVars, raceVars, outVars, dbVars
  <2>3. CASE Die(h)
    <3>1. slot' \in [Call -> BOOLEAN]
      BY <2>3 DEF Die
    <3>2. timer' \in [Call -> BOOLEAN]
      BY <2>3 DEF Die
    <3>3. linked' \in [Call -> BOOLEAN]
      BY <2>3 DEF Die
    <3>4. pc' \in [Call -> InFlight \cup
               {"idle", "ended", "refused", "failed", "joined", "lost"}]
      BY <2>3 DEF Die
    <3>5. reserved' \in [Host -> Int]
      BY <2>3 DEF Die
    <3>6. aborted' \in [Call -> {"no", "cancel", "timeout"}]
      BY <2>3 DEF Die
    <3>7. winner' \in [Call -> {"none", "value", "invalid", "throw", "abort"}]
      BY <2>3 DEF Die
    <3>8. svc' \in [Host -> {"down", "open", "closing", "closed", "dead"}]
      BY <2>3 DEF Die
    <3>9. active' \in [Host -> SUBSET Call]
      BY <2>3 DEF Die
    <3> QED
      BY <2>3, <3>1, <3>2, <3>3, <3>4, <3>5, <3>6, <3>7, <3>8, <3>9 DEF Die, idVars, outVars, dbVars
  <2> QED
    BY <1>2, <2>1, <2>2, <2>3
<1>3. ASSUME NEW h \in Host, NEW c \in Call, NEW r \in Request \cup {None},
             NEW d \in Digest \cup {None}, Start(h, c, r, d)
      PROVE  TypeOK'
  <2> USE DEF Called, memVars, raceVars, outVars, dbVars
  <2>1. CASE StartRejected(h, c, r, d)
    BY <2>1 DEF StartRejected
  <2>2. CASE StartUnkeyed(h, c, r, d)
    BY <2>2 DEF StartUnkeyed, Reserve, InFlight
  <2>3. CASE GateRead(h, c, r, d)
    <3>1. key[OwnerOf[h]][r] \in Call \cup {None}
      BY <1>3, <2>3, OwnerAssumption DEF GateRead
    <3>2. seen' \in [Call -> Call \cup {None}]
      BY <2>3, <3>1 DEF GateRead
    <3>3. pc' = [pc EXCEPT ![c] = "insert"] \/ pc' = [pc EXCEPT ![c] = "check"]
      BY <2>3 DEF GateRead
    <3>4. pc' \in [Call -> InFlight \cup
               {"idle", "ended", "refused", "failed", "joined", "lost"}]
      BY <3>3 DEF InFlight, InGate
    <3> QED
      BY <2>3, <3>2, <3>4 DEF GateRead, Reserve
  <2> QED
    BY <1>3, <2>1, <2>2, <2>3 DEF Start
<1>4. ASSUME NEW c \in Call,
             \/ ThrowRejected(c) \/ ReturnDuplicate(c) \/ ThrowUnregistered(c)
      PROVE  TypeOK'
  <2>1. ReleaseSlot(c)
    BY <1>4 DEF ThrowRejected, ReturnDuplicate, ThrowUnregistered, Refuse
  <2>2. slot' \in [Call -> BOOLEAN] /\ reserved' \in [Host -> Int]
    BY <2>1, ReleaseSlotType
  <2>3. /\ pc' = [pc EXCEPT ![c] = "refused"] \/ pc' = [pc EXCEPT ![c] = "joined"]
        /\ UNCHANGED <<svc, active, idVars, raceVars, outVars, dbVars>>
    BY <1>4 DEF ThrowRejected, ReturnDuplicate, ThrowUnregistered, Refuse
  <2>4. pc' \in [Call -> InFlight \cup
               {"idle", "ended", "refused", "failed", "joined", "lost"}]
    BY <2>3
  <2> QED
    BY <2>2, <2>3, <2>4 DEF idVars, raceVars, outVars, dbVars
<1>5. ASSUME NEW c \in Call, FailMissing(c) \/ FailInvalid(c)
      PROVE  TypeOK'
  <2>1. FailTicket(c) /\ (CreateRun(c, "failed") \/ UNCHANGED dbVars)
    BY <1>5 DEF FailMissing, FailInvalid
  <2>2. /\ stored' \in [Call -> {"none", "running", "deleted"} \cup Terminal]
        /\ key' \in [Owner -> [Request -> Call \cup {None}]]
    BY <2>1, CreateRunType DEF dbVars, Statuses
  <2>3. slot' \in [Call -> BOOLEAN] /\ reserved' \in [Host -> Int]
    BY <2>1, ReleaseSlotType DEF FailTicket
  <2>4. /\ result' \in [Call -> {"pending"} \cup Settled]
        /\ events' \in [Call -> Seq({"running"} \cup Settled)]
    BY <2>1 DEF FailTicket, Settled
  <2> QED
    BY <2>1, <2>2, <2>3, <2>4 DEF FailTicket, idVars, raceVars
<1>6. ASSUME NEW c \in Call, Register(c)
      PROVE  TypeOK'
  <2>1. /\ stored' \in [Call -> {"none", "running", "deleted"} \cup Terminal]
        /\ key' \in [Owner -> [Request -> Call \cup {None}]]
    BY <1>6, CreateRunType DEF Register, Statuses
  <2>2. /\ aborted' \in [Call -> {"no", "cancel", "timeout"}]
        /\ winner' \in [Call -> {"none", "value", "invalid", "throw", "abort"}]
        /\ linked' \in [Call -> BOOLEAN]
        /\ timer' \in [Call -> BOOLEAN]
    BY <1>6 DEF Register, WireController
  <2>3. slot' \in [Call -> BOOLEAN] /\ reserved' \in [Host -> Int]
    BY <1>6, ReleaseSlotType DEF Register
  <2>4. events' \in [Call -> Seq({"running"} \cup Settled)]
    BY <1>6 DEF Register
  <2> QED
    BY <1>6, <2>1, <2>2, <2>3, <2>4 DEF Register, InFlight, idVars
<1>7. ASSUME NEW c \in Call,
             \/ \E how \in {"value", "invalid", "throw"} : ActionSettles(c, how)
             \/ TimerFires(c)
             \/ \E reason \in {"cancel", "timeout"} : SignalAborts(c, reason)
             \/ Cancel(c)
      PROVE  TypeOK'
  <2>1. /\ aborted' \in [Call -> {"no", "cancel", "timeout"}]
        /\ winner' \in [Call -> {"none", "value", "invalid", "throw", "abort"}]
    <3>1. CASE \E how \in {"value", "invalid", "throw"} : ActionSettles(c, how)
      BY <3>1 DEF ActionSettles
    <3>2. CASE \E reason \in {"cancel", "timeout"} : Abort(c, reason)
      BY <3>2, AbortType
    <3> QED
      BY <1>7, <3>1, <3>2 DEF TimerFires, SignalAborts, Cancel
  <2>2. linked' \in [Call -> BOOLEAN]
    BY <1>7 DEF ActionSettles, TimerFires, SignalAborts, Cancel
  <2>4. timer' \in [Call -> BOOLEAN]
    BY <1>7 DEF ActionSettles, TimerFires, SignalAborts, Cancel
  <2>3. UNCHANGED <<memVars, pc, idVars, slot, outVars, dbVars>>
    BY <1>7 DEF ActionSettles, TimerFires, SignalAborts, Cancel, Abort
  <2> QED
    BY <2>1, <2>2, <2>3, <2>4 DEF memVars, idVars, outVars, dbVars
<1>8. ASSUME NEW c \in Call, Settle(c)
      PROVE  TypeOK'
  <2>1. linked' \in [Call -> BOOLEAN]
    BY <1>8 DEF Settle
  <2>3. timer' \in [Call -> BOOLEAN]
    BY <1>8 DEF Settle
  <2>4. unsaved' \in [Call -> BOOLEAN]
    BY <1>8 DEF Settle
  <2>5. StatusOf(c) \in Settled /\ "failed" \in Settled
    BY StatusOfType DEF Settled
  <2>2. result' \in [Call -> {"pending"} \cup Settled]
    <3>1. result' = [result EXCEPT ![c] = StatusOf(c)] \/ result' = [result EXCEPT ![c] = "failed"]
      BY <1>8 DEF Settle
    <3> QED
      BY <2>5, <3>1
  <2>6. stored' \in [Call -> {"none", "running", "deleted"} \cup Terminal]
    <3>1. \/ UNCHANGED stored
          \/ stored' = [stored EXCEPT ![c] = StatusOf(c)]
      <4>1. [stored EXCEPT ![c] = stored[c]] = stored
        OBVIOUS
      <4>2. CASE UNCHANGED stored
        BY <4>2
      <4>3. CASE UpdateRun(c, StatusOf(c))
        BY <4>1, <4>3 DEF UpdateRun
      <4> QED
        BY <1>8, <4>2, <4>3 DEF Settle
    <3> QED
      BY <2>5, <3>1 DEF Terminal
  <2>7. pc' \in [Call -> InFlight \cup
               {"idle", "ended", "refused", "failed", "joined", "lost"}]
    BY <1>8 DEF Settle, InFlight
  <2>8. UNCHANGED <<memVars, idVars, slot, aborted, winner, events, key>>
    BY <1>8 DEF Settle
  <2> QED
    BY <2>1, <2>2, <2>3, <2>4, <2>6, <2>7, <2>8 DEF memVars, idVars
<1>9. ASSUME NEW c \in Call, Conclude(c)
      PROVE  TypeOK'
  <2>0. result[c] \in {"running"} \cup Settled
    BY <1>9 DEF Conclude, FinalizedHasResult
  <2>1. events' \in [Call -> Seq({"running"} \cup Settled)]
    <3>1. events[c] \in Seq({"running"} \cup Settled)
      OBVIOUS
    <3>2. Append(events[c], result[c]) \in Seq({"running"} \cup Settled)
      BY <2>0, <3>1
    <3> QED
      BY <1>9, <3>2 DEF Conclude
  <2>2. /\ active' \in [Host -> SUBSET Call]
        /\ aborted' \in [Call -> {"no", "cancel", "timeout"}]
        /\ winner' \in [Call -> {"none", "value", "invalid", "throw", "abort"}]
        /\ pc' \in [Call -> InFlight \cup
               {"idle", "ended", "refused", "failed", "joined", "lost"}]
    BY <1>9 DEF Conclude
  <2> QED
    BY <1>9, <2>1, <2>2 DEF Conclude, idVars, dbVars
<1>10. ASSUME NEW h \in Host, NEW gone \in SUBSET Call, ClearRuns(h, gone)
       PROVE  TypeOK'
  BY <1>10 DEF ClearRuns, Deleted, Rows, WithoutOrphans, memVars, idVars, raceVars,
               outVars, Settled, Terminal
<1>11. ASSUME NEW h \in Host, NEW o \in Owner, NEW r \in Request, ExpireKey(h, o, r)
       PROVE  TypeOK'
  BY <1>11 DEF ExpireKey, memVars, idVars, raceVars, outVars
<1>12. CASE UNCHANGED vars
  BY <1>12 DEF vars, memVars, idVars, raceVars, outVars, dbVars
<1>13. ASSUME NEW c \in Call, Gate(c)
       PROVE  TypeOK'
  <2>1. key' \in [Owner -> [Request -> Call \cup {None}]]
    <3>1. UNCHANGED key \/ key' = [key EXCEPT ![OwnerOf[at[c]]][req[c]] = c]
      BY <1>13 DEF Gate, GateInsert, GateReplace, GateWriteFails, GateStale, GateConflict,
                   GateDuplicate, Duplicate, GateGet, Record
    <3>2. key \in [Owner -> [Request -> Call \cup {None}]]
      OBVIOUS
    <3>3. CASE key' = [key EXCEPT ![OwnerOf[at[c]]][req[c]] = c]
      <4> DEFINE o == OwnerOf[at[c]]
                 row == [key[o] EXCEPT ![req[c]] = c]
      <4>1. key' = [key EXCEPT ![o] = row]
        BY <3>3
      <4>2. o \in Owner => row \in [Request -> Call \cup {None}]
        BY <3>2
      <4> HIDE DEF row, o
      <4> QED
        BY <3>2, <4>1, <4>2
    <3> QED
      BY <3>1, <3>2, <3>3
  <2>2. pc' \in [Call -> InFlight \cup
               {"idle", "ended", "refused", "failed", "joined", "lost"}]
    BY <1>13, GateMoves DEF InFlight, InGate
  <2>3. seen' \in [Call -> Call \cup {None}]
    <3>1. seen' = [seen EXCEPT ![c] = seen[c]] \/ seen' = [seen EXCEPT ![c] = None]
      BY <1>13, GateMoves
    <3>2. seen \in [Call -> Call \cup {None}]
      OBVIOUS
    <3> QED
      BY <3>1, <3>2
  <2>4. joined' \in [Call -> Call \cup {None}] /\ result' \in [Call -> {"pending"} \cup Settled]
    <3>1. /\ joined \in [Call -> Call \cup {None}]
          /\ result \in [Call -> {"pending"} \cup Settled]
      OBVIOUS
    <3>2. /\ \/ joined' = joined
             \/ \E run \in Call : joined' = [joined EXCEPT ![c] = run]
          /\ \/ result' = result
             \/ \E st \in Settled : result' = [result EXCEPT ![c] = st]
      <4>1. "failed" \in Settled
        BY DEF Settled
      <4>2. CASE UNCHANGED <<joined, result>>
        BY <4>2
      <4>3. CASE ~UNCHANGED <<joined, result>>
        BY <1>13, <4>1, <4>3, GateTells DEF Rows
      <4> QED
        BY <4>2, <4>3
    <3>3. joined' \in [Call -> Call \cup {None}]
      BY <3>1, <3>2
    <3>4. result' \in [Call -> {"pending"} \cup Settled]
      BY <3>1, <3>2
    <3> QED
      BY <3>3, <3>4
  <2>5. UNCHANGED <<memVars, at, req, digest, slot, raceVars, unsaved, events, stored>>
    BY <1>13, GateMoves
  <2> QED
    BY <2>1, <2>2, <2>3, <2>4, <2>5 DEF memVars, raceVars
<1> QED
  BY <1>1, <1>2, <1>3, <1>4, <1>5, <1>6, <1>7, <1>8, <1>9, <1>10, <1>11, <1>12, <1>13 DEF Next

LEMMA NextFinalized ==
    TypeOK /\ FinalizedHasResult /\ [Next]_vars => FinalizedHasResult'
<1> SUFFICES ASSUME TypeOK, FinalizedHasResult, [Next]_vars
             PROVE  FinalizedHasResult'
  OBVIOUS
<1> USE DEF TypeOK, FinalizedHasResult
<1>1. CASE UNCHANGED <<pc, result>>
  BY <1>1
<1>2. ASSUME NEW h \in Host, Die(h)
      PROVE  FinalizedHasResult'
  BY <1>2 DEF Die, outVars
<1>3. ASSUME NEW h \in Host, NEW c \in Call, NEW r, NEW d, Start(h, c, r, d)
      PROVE  FinalizedHasResult'
  BY <1>3 DEF Start, StartRejected, StartUnkeyed, GateRead, Reserve, Called, outVars
<1>7. ASSUME NEW c \in Call, Gate(c)
      PROVE  FinalizedHasResult'
  <2>1. UNCHANGED result \/ \E y : result' = [result EXCEPT ![c] = y]
    BY <1>7, GateTells
  <2>2. pc[c] \in InGate /\ \E to \in {"replace", "get", "resolving", "rejected", "duplicate"} :
            pc' = [pc EXCEPT ![c] = to]
    BY <1>7, GateMoves
  <2> QED
    BY <2>1, <2>2
<1>4. ASSUME NEW c \in Call,
             \/ ThrowRejected(c) \/ ReturnDuplicate(c) \/ ThrowUnregistered(c)
             \/ FailMissing(c) \/ FailInvalid(c) \/ Register(c) \/ Conclude(c)
      PROVE  FinalizedHasResult'
  BY <1>4 DEF ThrowRejected, ReturnDuplicate, ThrowUnregistered, FailMissing, FailInvalid,
              Register, Conclude, Refuse, FailTicket, outVars
<1>5. ASSUME NEW c \in Call, Settle(c)
      PROVE  FinalizedHasResult'
  BY <1>5, StatusOfType DEF Settle, Settled
<1>6. ASSUME \/ \E h \in Host : Open(h) \/ CloseBegin(h) \/ CloseEnd(h)
             \/ \E c \in Call :
                  \/ \E how \in {"value", "invalid", "throw"} : ActionSettles(c, how)
                  \/ TimerFires(c)
                  \/ \E reason \in {"cancel", "timeout"} : SignalAborts(c, reason)
                  \/ Cancel(c)
             \/ \E h \in Host, gone \in SUBSET Call : ClearRuns(h, gone)
             \/ \E h \in Host, o \in Owner, r \in Request : ExpireKey(h, o, r)
             \/ UNCHANGED vars
      PROVE  UNCHANGED <<pc, result>>
  BY <1>6 DEF Open, CloseBegin, CloseEnd, ActionSettles, TimerFires, SignalAborts, Cancel,
              Abort, ClearRuns, ExpireKey, vars, outVars
<1> QED
  BY <1>1, <1>2, <1>3, <1>4, <1>5, <1>6, <1>7 DEF Next

TypeInv == TypeOK /\ FinalizedHasResult

LEMMA TypeInvariant == Spec => []TypeInv
<1>1. Init => TypeInv
  BY InitType DEF TypeInv
<1>2. TypeInv /\ [Next]_vars => TypeInv'
  BY NextType, NextFinalized DEF TypeInv
<1> QED
  BY <1>1, <1>2, PTL DEF Spec

\* Every reachable state is well-typed.
THEOREM TypeCorrect == Spec => []TypeOK
  BY TypeInvariant, PTL DEF TypeInv

-----------------------------------------------------------------------------
(* The inductive invariant *)

Reserving == InGate \cup {"resolving", "rejected", "duplicate"}

\* Where a call is made and what its session is doing.
PlaceInv ==
    \A c \in Call :
        /\ pc[c] = "idle" <=> at[c] = None
        /\ at[c] \in Host => svc[at[c]] # "down"
        /\ pc[c] \in InFlight => ProcessAlive(at[c])
        /\ pc[c] = "lost" => svc[at[c]] = "dead"
        /\ pc[c] = "racing" => StorageOpen(at[c]) /\ c \in active[at[c]]

\* A slot is held in exactly the stages between reservation and release.
SlotInv == \A c \in Call : slot[c] <=> pc[c] \in Reserving

ActiveInv ==
    \A h \in Host : \A c \in active[h] : at[c] = h /\ pc[c] \in {"racing", "finalized"}

\* The starts of a session that hold a slot.
Holders(h) == {c \in Call : slot[c] /\ at[c] = h}

CountInv ==
    \A h \in Host :
        /\ svc[h] = "down" => reserved[h] = 0
        /\ svc[h] = "open" => /\ reserved[h] = Cardinality(Holders(h))
                             /\ Cardinality(active[h]) + reserved[h] <= MaxActiveRuns

\* How the answer to a call and the row of its run may stand to each other.
Untold(c) == result[c] = "pending" /\ ~unsaved[c]
ToldOfFailure(c) == result[c] = "failed" /\ unsaved[c]

StoryAt(c) ==
    /\ pc[c] \in InGate \cup {"idle", "resolving", "rejected", "refused"} =>
          stored[c] = "none" /\ joined[c] = None /\ Untold(c)
    /\ pc[c] \in {"duplicate", "joined"} => stored[c] = "none" /\ joined[c] # None
    /\ pc[c] = "racing" =>
          stored[c] \in {"running", "deleted"} /\ joined[c] = None /\ Untold(c)
    /\ pc[c] \in {"finalized", "ended", "failed"} => joined[c] = None
    /\ stored[c] = "none" => joined[c] # None \/ pc[c] = "failed" \/ Untold(c)
    /\ stored[c] = "running" =>
          \/ Untold(c) /\ pc[c] \in {"racing", "lost"}
          \/ ToldOfFailure(c)
    /\ stored[c] = "interrupted" =>
          svc[at[c]] = "dead" /\ (Untold(c) \/ ToldOfFailure(c))
    /\ stored[c] \in Settled => result[c] = stored[c]

StoryInv == \A c \in Call : StoryAt(c)

IInv == TypeInv /\ PlaceInv /\ SlotInv /\ ActiveInv /\ CountInv /\ StoryInv

-----------------------------------------------------------------------------
(* Preservation *)

\* Steps that move no call and change no session and no set of active runs.
Still == UNCHANGED <<svc, active, pc, at>>

LEMMA NextPlace == IInv /\ [Next]_vars => PlaceInv'
<1> SUFFICES ASSUME IInv, [Next]_vars
             PROVE  PlaceInv'
  OBVIOUS
<1> USE HostAssumption DEF IInv, TypeInv, TypeOK, PlaceInv, ProcessAlive, StorageOpen
<1>1. CASE Still
  BY <1>1 DEF Still
<1>2. ASSUME NEW h \in Host, Open(h)
      PROVE  PlaceInv'
  BY <1>2 DEF Open, idVars
<1>3. ASSUME NEW h \in Host, CloseBegin(h)
      PROVE  PlaceInv'
  BY <1>3 DEF CloseBegin, idVars
<1>4. ASSUME NEW h \in Host, CloseEnd(h)
      PROVE  PlaceInv'
  BY <1>4 DEF CloseEnd, idVars
<1>5. ASSUME NEW h \in Host, Die(h)
      PROVE  PlaceInv'
  BY <1>5 DEF Die, InFlight, InGate
<1>6. ASSUME NEW h \in Host, NEW c \in Call, NEW r, NEW d, Start(h, c, r, d)
      PROVE  PlaceInv'
  <2>1. /\ Called(h, c, r, d)
        /\ pc' \in {[pc EXCEPT ![c] = x] :
                     x \in {"refused", "resolving", "insert", "check"}}
        /\ UNCHANGED <<svc, active>>
    BY <1>6 DEF Start, StartRejected, StartUnkeyed, GateRead, Reserve, Called, memVars
  <2> QED
    BY <2>1 DEF Called
<1>12. ASSUME NEW c \in Call, Gate(c)
       PROVE  PlaceInv'
  <2>1. /\ pc[c] \in InGate
        /\ pc' \in {[pc EXCEPT ![c] = x] :
                     x \in {"replace", "get", "resolving", "rejected", "duplicate"}}
        /\ UNCHANGED <<svc, active, at>>
    BY <1>12, GateMoves DEF memVars
  <2> QED
    BY <2>1 DEF InGate, InFlight
<1>7. ASSUME NEW c \in Call,
             \/ ThrowRejected(c) \/ ReturnDuplicate(c) \/ ThrowUnregistered(c)
             \/ FailMissing(c) \/ FailInvalid(c)
      PROVE  PlaceInv'
  <2>1. /\ pc[c] \in Reserving
        /\ pc' \in {[pc EXCEPT ![c] = x] : x \in {"refused", "joined", "failed"}}
        /\ UNCHANGED <<svc, active, at>>
    BY <1>7 DEF ThrowRejected, ReturnDuplicate, ThrowUnregistered, FailMissing, FailInvalid,
                Refuse, FailTicket, Reserving, idVars
  <2> QED
    BY <2>1 DEF Reserving, InFlight, InGate
<1>8. ASSUME NEW c \in Call, Register(c)
      PROVE  PlaceInv'
  BY <1>8 DEF Register, idVars, InFlight
<1>9. ASSUME NEW c \in Call, Settle(c)
      PROVE  PlaceInv'
  BY <1>9 DEF Settle, memVars, idVars, InFlight
<1>10. ASSUME NEW c \in Call, Conclude(c)
       PROVE  PlaceInv'
  BY <1>10 DEF Conclude, idVars, InFlight
<1>11. ASSUME \/ \E c \in Call :
                   \/ \E how \in {"value", "invalid", "throw"} : ActionSettles(c, how)
                   \/ TimerFires(c)
                   \/ \E reason \in {"cancel", "timeout"} : SignalAborts(c, reason)
                   \/ Cancel(c)
              \/ \E h \in Host, gone \in SUBSET Call : ClearRuns(h, gone)
              \/ \E h \in Host, o \in Owner, r \in Request : ExpireKey(h, o, r)
              \/ UNCHANGED vars
       PROVE  Still
  BY <1>11 DEF ActionSettles, TimerFires, SignalAborts, Cancel, Abort, ClearRuns, ExpireKey,
               vars, memVars, idVars, Still
<1> QED
  BY <1>1, <1>2, <1>3, <1>4, <1>5, <1>6, <1>7, <1>8, <1>9, <1>10, <1>11, <1>12 DEF Next

LEMMA NextSlot == IInv /\ [Next]_vars => SlotInv'
<1> SUFFICES ASSUME IInv, [Next]_vars
             PROVE  SlotInv'
  OBVIOUS
<1> USE DEF IInv, TypeInv, TypeOK, SlotInv, Reserving, InGate
<1>1. CASE UNCHANGED <<pc, slot>>
  BY <1>1
<1>2. ASSUME NEW h \in Host, Die(h)
      PROVE  SlotInv'
  BY <1>2 DEF Die, InFlight
<1>3. ASSUME NEW h \in Host, NEW c \in Call, NEW r, NEW d, Start(h, c, r, d)
      PROVE  SlotInv'
  <2>1. CASE StartRejected(h, c, r, d)
    BY <2>1 DEF StartRejected, Called
  <2>2. CASE Reserve(h, c, r, d) /\ \E x \in Reserving : pc' = [pc EXCEPT ![c] = x]
    BY <2>2 DEF Reserve, Called
  <2> QED
    BY <1>3, <2>1, <2>2 DEF Start, StartUnkeyed, GateRead
<1>7. ASSUME NEW c \in Call, Gate(c)
      PROVE  SlotInv'
  <2>1. pc[c] \in Reserving /\ UNCHANGED slot /\ \E x \in Reserving : pc' = [pc EXCEPT ![c] = x]
    BY <1>7, GateMoves
  <2> QED
    BY <2>1
<1>4. ASSUME NEW c \in Call,
             \/ ThrowRejected(c) \/ ReturnDuplicate(c) \/ ThrowUnregistered(c)
             \/ FailMissing(c) \/ FailInvalid(c) \/ Register(c)
      PROVE  SlotInv'
  <2>1. /\ ReleaseSlot(c)
        /\ pc' \in {[pc EXCEPT ![c] = x] : x \in {"refused", "joined", "failed", "racing"}}
    BY <1>4 DEF ThrowRejected, ReturnDuplicate, ThrowUnregistered, FailMissing, FailInvalid,
                Register, Refuse, FailTicket
  <2> QED
    BY <2>1 DEF ReleaseSlot
<1>5. ASSUME NEW c \in Call, Settle(c) \/ Conclude(c)
      PROVE  SlotInv'
  <2>1. /\ pc[c] \notin Reserving /\ UNCHANGED slot
        /\ \E x \in {"finalized", "ended"} : pc' = [pc EXCEPT ![c] = x]
    BY <1>5 DEF Settle, Conclude
  <2> QED
    BY <2>1
<1>6. ASSUME \/ \E h \in Host : Open(h) \/ CloseBegin(h) \/ CloseEnd(h)
             \/ \E c \in Call :
                  \/ \E how \in {"value", "invalid", "throw"} : ActionSettles(c, how)
                  \/ TimerFires(c)
                  \/ \E reason \in {"cancel", "timeout"} : SignalAborts(c, reason)
                  \/ Cancel(c)
             \/ \E h \in Host, gone \in SUBSET Call : ClearRuns(h, gone)
             \/ \E h \in Host, o \in Owner, r \in Request : ExpireKey(h, o, r)
             \/ UNCHANGED vars
      PROVE  UNCHANGED <<pc, slot>>
  BY <1>6 DEF Open, CloseBegin, CloseEnd, ActionSettles, TimerFires, SignalAborts, Cancel,
              Abort, ClearRuns, ExpireKey, vars
<1> QED
  BY <1>1, <1>2, <1>3, <1>4, <1>5, <1>6, <1>7 DEF Next

LEMMA NextActive == IInv /\ [Next]_vars => ActiveInv'
<1> SUFFICES ASSUME IInv, [Next]_vars
             PROVE  ActiveInv'
  OBVIOUS
<1> USE HostAssumption DEF IInv, TypeInv, TypeOK, ActiveInv
<1>1. CASE UNCHANGED <<active, pc, at>>
  BY <1>1
<1>2. ASSUME NEW h \in Host, CloseEnd(h)
      PROVE  ActiveInv'
  BY <1>2 DEF CloseEnd, idVars
<1>3. ASSUME NEW h \in Host, Die(h)
      PROVE  ActiveInv'
  BY <1>3 DEF Die, idVars
<1>4. ASSUME NEW h \in Host, NEW c \in Call, NEW r, NEW d, Start(h, c, r, d)
      PROVE  ActiveInv'
  <2>1. /\ Called(h, c, r, d)
        /\ \E x : pc' = [pc EXCEPT ![c] = x]
        /\ UNCHANGED active
    BY <1>4 DEF Start, StartRejected, StartUnkeyed, GateRead, Reserve, memVars
  <2> QED
    BY <2>1 DEF Called
<1>10. ASSUME NEW c \in Call, Gate(c)
       PROVE  ActiveInv'
  <2>1. /\ pc[c] \in InGate
        /\ \E x : pc' = [pc EXCEPT ![c] = x]
        /\ UNCHANGED <<active, at>>
    BY <1>10, GateMoves DEF memVars
  <2> QED
    BY <2>1 DEF InGate
<1>5. ASSUME NEW c \in Call,
             \/ ThrowRejected(c) \/ ReturnDuplicate(c) \/ ThrowUnregistered(c)
             \/ FailMissing(c) \/ FailInvalid(c)
      PROVE  ActiveInv'
  <2>1. /\ pc[c] \in Reserving
        /\ \E x : pc' = [pc EXCEPT ![c] = x]
        /\ UNCHANGED <<active, at>>
    BY <1>5 DEF ThrowRejected, ReturnDuplicate, ThrowUnregistered, FailMissing, FailInvalid,
                Refuse, FailTicket, Reserving, idVars
  <2> QED
    BY <2>1 DEF Reserving, InGate
<1>6. ASSUME NEW c \in Call, Register(c)
      PROVE  ActiveInv'
  BY <1>6 DEF Register, idVars
<1>7. ASSUME NEW c \in Call, Settle(c)
      PROVE  ActiveInv'
  BY <1>7 DEF Settle, memVars, idVars
<1>8. ASSUME NEW c \in Call, Conclude(c)
      PROVE  ActiveInv'
  BY <1>8 DEF Conclude, idVars
<1>9. ASSUME \/ \E h \in Host : Open(h) \/ CloseBegin(h)
             \/ \E c \in Call :
                  \/ \E how \in {"value", "invalid", "throw"} : ActionSettles(c, how)
                  \/ TimerFires(c)
                  \/ \E reason \in {"cancel", "timeout"} : SignalAborts(c, reason)
                  \/ Cancel(c)
             \/ \E h \in Host, gone \in SUBSET Call : ClearRuns(h, gone)
             \/ \E h \in Host, o \in Owner, r \in Request : ExpireKey(h, o, r)
             \/ UNCHANGED vars
      PROVE  UNCHANGED <<active, pc, at>>
  BY <1>9 DEF Open, CloseBegin, ActionSettles, TimerFires, SignalAborts, Cancel,
              Abort, ClearRuns, ExpireKey, vars, memVars, idVars
<1> QED
  BY <1>1, <1>2, <1>3, <1>4, <1>5, <1>6, <1>7, <1>8, <1>9, <1>10 DEF Next

\* The sets that the quota counts are finite.
LEMMA QuotaSetsFinite ==
    ASSUME TypeOK, NEW h \in Host
    PROVE  /\ IsFiniteSet(active[h]) /\ Cardinality(active[h]) \in Nat
           /\ IsFiniteSet(Holders(h)) /\ Cardinality(Holders(h)) \in Nat
<1>1. active[h] \in SUBSET Call /\ Holders(h) \in SUBSET Call
  BY DEF TypeOK, Holders
<1> QED
  BY <1>1, CallAssumption, FS_Subset, FS_CardinalityType

\* Leaving start() gives back one place of one session.
LEMMA ReleaseCounts ==
    ASSUME IInv, NEW c \in Call, pc[c] \in Reserving, ReleaseSlot(c), UNCHANGED <<svc, at>>,
           NEW h \in Host
    PROVE  /\ at[c] # h => Holders(h)' = Holders(h) /\ reserved'[h] = reserved[h]
           /\ at[c] = h => /\ Holders(h)' = Holders(h) \ {c} /\ c \in Holders(h)
                          /\ reserved'[h] = reserved[h] - 1
                          /\ Cardinality(Holders(h)') = Cardinality(Holders(h)) - 1
<1>1. slot[c] /\ slot' = [slot EXCEPT ![c] = FALSE]
  BY DEF IInv, SlotInv, ReleaseSlot
<1>2. reserved' = [reserved EXCEPT ![at[c]] = @ - 1]
  BY <1>1 DEF ReleaseSlot
<1>3. slot \in [Call -> BOOLEAN] /\ at' = at
  BY DEF IInv, TypeInv, TypeOK
<1>4. CASE at[c] # h
  <2>1. Holders(h)' = Holders(h)
    BY <1>1, <1>3, <1>4 DEF Holders
  <2>2. reserved'[h] = reserved[h]
    BY <1>2, <1>4 DEF IInv, TypeInv, TypeOK
  <2> QED
    BY <1>4, <2>1, <2>2
<1>5. CASE at[c] = h
  <2>1. Holders(h)' = Holders(h) \ {c} /\ c \in Holders(h)
    BY <1>1, <1>3, <1>5 DEF Holders
  <2>2. reserved'[h] = reserved[h] - 1
    BY <1>2, <1>5 DEF IInv, TypeInv, TypeOK
  <2>3. Cardinality(Holders(h) \ {c}) = Cardinality(Holders(h)) - 1
    BY <2>1, QuotaSetsFinite, FS_RemoveElement DEF IInv, TypeInv
  <2> QED
    BY <1>5, <2>1, <2>2, <2>3
<1> QED
  BY <1>4, <1>5

\* What the quota says of one session.
CountsAt(h) ==
    /\ svc[h] = "down" => reserved[h] = 0
    /\ svc[h] = "open" => /\ reserved[h] = Cardinality(Holders(h))
                         /\ Cardinality(active[h]) + reserved[h] <= MaxActiveRuns

\* A session whose quota variables stay and that does not open keeps its counts.
LEMMA SameCounts ==
    ASSUME IInv, NEW h \in Host, svc'[h] = svc[h], reserved'[h] = reserved[h],
           active'[h] = active[h], Holders(h)' = Holders(h)
    PROVE  CountsAt(h)'
  BY DEF IInv, CountInv, CountsAt

LEMMA NextCount == IInv /\ [Next]_vars => CountInv'
<1> SUFFICES ASSUME IInv, [Next]_vars, NEW g \in Host
             PROVE  CountsAt(g)'
  BY DEF CountInv, CountsAt
<1>t. TypeOK
  BY DEF IInv, TypeInv
<1>f. /\ IsFiniteSet(active[g]) /\ Cardinality(active[g]) \in Nat
      /\ IsFiniteSet(Holders(g)) /\ Cardinality(Holders(g)) \in Nat
      /\ reserved[g] \in Int /\ MaxActiveRuns \in Nat
  BY <1>t, QuotaSetsFinite, MaxAssumption DEF TypeOK
<1>1. CASE UNCHANGED <<svc, reserved, active, slot, at>>
  BY <1>1, SameCounts DEF Holders
<1>2. ASSUME NEW h \in Host, Open(h)
      PROVE  CountsAt(g)'
  <2>0. svc' = [svc EXCEPT ![h] = "open"] /\ UNCHANGED <<reserved, active, slot, at>>
    BY <1>2 DEF Open, idVars
  <2>1. CASE g # h
    <3>1. svc'[g] = svc[g]
      BY <1>t, <2>0, <2>1 DEF TypeOK
    <3> QED
      BY <2>0, <3>1, SameCounts DEF Holders
  <2>2. CASE g = h
    <3>1. svc[g] = "down" /\ svc'[g] = "open" /\ reserved[g] = 0
      BY <1>t, <1>2, <2>0, <2>2 DEF Open, TypeOK, IInv, CountInv
    <3>2. Holders(g) = {} /\ active[g] = {}
      BY <1>t, <3>1 DEF TypeOK, IInv, PlaceInv, ActiveInv, Holders
    <3>3. Holders(g)' = {} /\ active'[g] = {} /\ reserved'[g] = 0
      BY <2>0, <3>1, <3>2 DEF Holders
    <3>4. Cardinality({}) = 0
      BY FS_EmptySet
    <3> QED
      BY <1>f, <3>1, <3>3, <3>4 DEF CountsAt
  <2> QED
    BY <2>1, <2>2
<1>3. ASSUME NEW h \in Host, CloseBegin(h) \/ CloseEnd(h) \/ Die(h)
      PROVE  CountsAt(g)'
  <2>1. CASE g # h
    <3>1. svc'[g] = svc[g] /\ reserved'[g] = reserved[g] /\ active'[g] = active[g]
      BY <1>t, <1>3, <2>1 DEF TypeOK, CloseBegin, CloseEnd, Die
    <3>2. Holders(g)' = Holders(g)
      <4>1. CASE UNCHANGED <<slot, at>>
        BY <4>1 DEF Holders
      <4>2. CASE Die(h)
        BY <2>1, <4>2 DEF Die, Holders, idVars
      <4> QED
        BY <1>3, <4>1, <4>2 DEF CloseBegin, CloseEnd, idVars
    <3> QED
      BY <3>1, <3>2, SameCounts
  <2>2. CASE g = h
    <3>1. svc'[g] \in {"closing", "closed", "dead"}
      BY <1>t, <1>3, <2>2 DEF TypeOK, CloseBegin, CloseEnd, Die
    <3> QED
      BY <3>1 DEF CountsAt
  <2> QED
    BY <2>1, <2>2
<1>4. ASSUME NEW h \in Host, NEW c \in Call, NEW r, NEW d, Start(h, c, r, d)
      PROVE  CountsAt(g)'
  <2>0. ~slot[c] /\ at[c] = None /\ at' = [at EXCEPT ![c] = h]
    BY <1>t, <1>4 DEF IInv, PlaceInv, SlotInv, Reserving, InGate, TypeOK, Start, StartRejected,
                StartUnkeyed, GateRead, Reserve, Called
  <2>1. CASE StartRejected(h, c, r, d)
    <3>1. UNCHANGED <<svc, reserved, active, slot>>
      BY <2>1 DEF StartRejected, memVars
    <3>2. Holders(g)' = Holders(g)
      BY <1>t, <2>0, <3>1, HostAssumption DEF Holders, TypeOK
    <3> QED
      BY <3>1, <3>2, SameCounts
  <2>2. CASE Reserve(h, c, r, d)
    <3>1. /\ svc[h] = "open" /\ ~Full(h)
          /\ reserved' = [reserved EXCEPT ![h] = @ + 1]
          /\ slot' = [slot EXCEPT ![c] = TRUE]
          /\ UNCHANGED <<svc, active>>
      BY <2>2 DEF Reserve
    <3>2. CASE g # h
      <4>1. Holders(g)' = Holders(g)
        BY <1>t, <2>0, <3>1, <3>2, HostAssumption DEF Holders, TypeOK
      <4>2. reserved'[g] = reserved[g]
        BY <1>t, <3>1, <3>2 DEF TypeOK
      <4> QED
        BY <3>1, <4>1, <4>2, SameCounts
    <3>3. CASE g = h
      <4>1. Holders(g)' = Holders(g) \cup {c} /\ c \notin Holders(g)
        BY <1>t, <2>0, <3>1, <3>3, HostAssumption DEF Holders, TypeOK
      <4>2. Cardinality(Holders(g)') = Cardinality(Holders(g)) + 1
        BY <1>f, <4>1, FS_AddElement
      <4>3. reserved'[g] = reserved[g] + 1 /\ svc[g] = "open"
        BY <1>t, <3>1, <3>3 DEF TypeOK
      <4>4. reserved[g] = Cardinality(Holders(g)) /\ Cardinality(active[g]) + reserved[g] < MaxActiveRuns
        BY <1>f, <3>1, <3>3 DEF IInv, CountInv, Full
      <4> QED
        BY <1>f, <3>1, <4>2, <4>3, <4>4 DEF CountsAt
    <3> QED
      BY <3>2, <3>3
  <2> QED
    BY <1>4, <2>1, <2>2 DEF Start, StartUnkeyed, GateRead
<1>5. ASSUME NEW c \in Call,
             \/ ThrowRejected(c) \/ ReturnDuplicate(c) \/ ThrowUnregistered(c)
             \/ FailMissing(c) \/ FailInvalid(c)
      PROVE  CountsAt(g)'
  <2>1. /\ pc[c] \in Reserving /\ ReleaseSlot(c)
        /\ UNCHANGED <<svc, active, at>>
    BY <1>5 DEF ThrowRejected, ReturnDuplicate, ThrowUnregistered, FailMissing, FailInvalid,
                Refuse, FailTicket, Reserving, idVars
  <2>2. CASE at[c] # g
    BY <2>1, <2>2, ReleaseCounts, SameCounts
  <2>3. CASE at[c] = g
    <3>1. /\ reserved'[g] = reserved[g] - 1
          /\ Cardinality(Holders(g)') = Cardinality(Holders(g)) - 1
      BY <2>1, <2>3, ReleaseCounts
    <3>2. svc[g] # "down"
      BY <2>3 DEF IInv, PlaceInv
    <3> QED
      BY <1>f, <2>1, <3>1, <3>2 DEF CountsAt, IInv, CountInv
  <2> QED
    BY <2>2, <2>3
<1>6. ASSUME NEW c \in Call, Register(c)
      PROVE  CountsAt(g)'
  <2>1. /\ pc[c] \in Reserving /\ ReleaseSlot(c)
        /\ active' = [active EXCEPT ![at[c]] = @ \cup {c}]
        /\ UNCHANGED <<svc, at>>
    BY <1>6 DEF Register, Reserving, idVars
  <2>2. CASE at[c] # g
    <3>1. active'[g] = active[g]
      BY <1>t, <2>1, <2>2 DEF TypeOK
    <3> QED
      BY <2>1, <2>2, <3>1, ReleaseCounts, SameCounts
  <2>3. CASE at[c] = g
    <3>1. /\ reserved'[g] = reserved[g] - 1
          /\ Cardinality(Holders(g)') = Cardinality(Holders(g)) - 1
      BY <2>1, <2>3, ReleaseCounts
    <3>2. svc[g] # "down"
      BY <2>3 DEF IInv, PlaceInv
    <3>3. Cardinality(active'[g]) <= Cardinality(active[g]) + 1 /\ Cardinality(active'[g]) \in Nat
      <4>1. active'[g] = active[g] \cup {c}
        BY <1>t, <2>1, <2>3 DEF TypeOK
      <4>2. Cardinality(active[g] \cup {c}) \in {Cardinality(active[g]), Cardinality(active[g]) + 1}
        BY <1>f, FS_AddElement
      <4> QED
        BY <1>f, <4>1, <4>2
    <3> QED
      BY <1>f, <2>1, <3>1, <3>2, <3>3 DEF CountsAt, IInv, CountInv
  <2> QED
    BY <2>2, <2>3
<1>7. ASSUME NEW c \in Call, Conclude(c)
      PROVE  CountsAt(g)'
  <2>1. /\ active' = [active EXCEPT ![at[c]] = @ \ {c}]
        /\ UNCHANGED <<svc, reserved, slot, at>>
    BY <1>7 DEF Conclude, idVars
  <2>2. active'[g] = active[g] \/ active'[g] = active[g] \ {c}
    BY <1>t, <2>1 DEF TypeOK
  <2>3. Cardinality(active'[g]) <= Cardinality(active[g]) /\ Cardinality(active'[g]) \in Nat
    <3>1. IsFiniteSet(active[g] \ {c}) /\ Cardinality(active[g] \ {c}) <= Cardinality(active[g])
      <4>1. active[g] \ {c} \in SUBSET active[g]
        OBVIOUS
      <4> QED
        BY <1>f, <4>1, FS_Subset
    <3>2. Cardinality(active[g] \ {c}) \in Nat
      BY <3>1, FS_CardinalityType
    <3>3. Cardinality(active[g]) <= Cardinality(active[g])
      BY <1>f
    <3> QED
      BY <1>f, <2>2, <3>1, <3>2, <3>3
  <2>4. Holders(g)' = Holders(g)
    BY <2>1 DEF Holders
  <2> QED
    BY <1>f, <2>1, <2>3, <2>4 DEF CountsAt, IInv, CountInv
<1>8. ASSUME \/ \E c \in Call :
                  \/ \E how \in {"value", "invalid", "throw"} : ActionSettles(c, how)
                  \/ TimerFires(c)
                  \/ \E reason \in {"cancel", "timeout"} : SignalAborts(c, reason)
                  \/ Cancel(c) \/ Settle(c) \/ Gate(c)
             \/ \E h \in Host, gone \in SUBSET Call : ClearRuns(h, gone)
             \/ \E h \in Host, o \in Owner, r \in Request : ExpireKey(h, o, r)
             \/ UNCHANGED vars
      PROVE  UNCHANGED <<svc, reserved, active, slot, at>>
  BY <1>8, GateMoves DEF ActionSettles, TimerFires, SignalAborts, Cancel, Settle, Abort, ClearRuns,
              ExpireKey, vars, memVars, idVars
<1> QED
  BY <1>1, <1>2, <1>3, <1>4, <1>5, <1>6, <1>7, <1>8 DEF Next

\* A clean-up changes a row only by deleting it once it is terminal.
LEMMA CleanExpiredRows ==
    ASSUME NEW table \in [Call -> Statuses], NEW gone, CleanExpired(table, gone), NEW c \in Call
    PROVE  stored'[c] = table[c] \/ (stored'[c] = "deleted" /\ table[c] \in Terminal)
<1>1. stored' = Deleted(table, gone) /\ gone \subseteq Expirable(table)
  BY DEF CleanExpired
<1>2. CASE c \in gone
  BY <1>1, <1>2 DEF Deleted, Expirable
<1>3. CASE c \notin gone
  BY <1>1, <1>3 DEF Deleted
<1> QED
  BY <1>2, <1>3

LEMMA CreateRunRows ==
    ASSUME TypeOK, NEW c \in Call, NEW status \in {"running", "failed"},
           CreateRun(c, status)
    PROVE  /\ stored'[c] = status
           /\ \A d \in Call \ {c} :
                 stored'[d] = stored[d] \/ (stored'[d] = "deleted" /\ stored[d] \in Terminal)
<1> DEFINE table == [stored EXCEPT ![c] = status]
<1>1. table \in [Call -> Statuses] /\ table[c] = status /\ \A d \in Call \ {c} : table[d] = stored[d]
  BY DEF TypeOK, Statuses, Terminal, Settled
<1>2. PICK gone \in SUBSET (Call \ {c}) : CleanExpired(table, gone)
  BY DEF CreateRun
<1>3. stored'[c] = table[c]
  BY <1>2 DEF CleanExpired, Deleted
<1> HIDE DEF table
<1> QED
  BY <1>1, <1>2, <1>3, CleanExpiredRows

\* A call that is not touched keeps its story when its row is deleted.
LEMMA SameStory ==
    ASSUME IInv, NEW c \in Call,
           UNCHANGED <<svc, at>>, pc'[c] = pc[c], joined'[c] = joined[c],
           result'[c] = result[c], unsaved'[c] = unsaved[c],
           \/ stored'[c] = stored[c]
           \/ stored'[c] = "deleted" /\ stored[c] \in Terminal \cup {"running"}
    PROVE  StoryAt(c)'
  BY DEF IInv, StoryInv, StoryAt, Untold, ToldOfFailure, Terminal, Settled

LEMMA NextStory == IInv /\ [Next]_vars => StoryInv'
<1> SUFFICES ASSUME IInv, [Next]_vars, NEW x \in Call
             PROVE  StoryAt(x)'
  BY DEF StoryInv
<1>t. TypeOK
  BY DEF IInv, TypeInv
<1>s. StoryAt(x)
  BY DEF IInv, StoryInv
<1>1. CASE UNCHANGED <<svc, at, pc, joined, result, unsaved, stored>>
  BY <1>1, SameStory
<1>2. ASSUME NEW h \in Host, Open(h)
      PROVE  StoryAt(x)'
  <2> DEFINE table == [c \in Call |-> IF c \in Orphans THEN "interrupted" ELSE stored[c]]
  <2>1. table \in [Call -> Statuses]
    BY <1>t DEF TypeOK, Statuses, Terminal, Settled
  <2>2. PICK gone \in SUBSET Call : CleanExpired(table, gone)
    BY <1>2 DEF Open
  <2>3. stored'[x] = table[x] \/ (stored'[x] = "deleted" /\ table[x] \in Terminal)
    BY <2>1, <2>2, CleanExpiredRows
  <2>4. /\ svc[h] = "down" /\ svc' = [svc EXCEPT ![h] = "open"]
        /\ UNCHANGED <<at, pc, joined, result, unsaved>>
    BY <1>2 DEF Open, idVars, outVars
  <2>5. x \in Orphans => svc[at[x]] = "dead" /\ at[x] \in Host /\ stored[x] = "running"
    BY <1>t, <1>s DEF Orphans, ProcessAlive, TypeOK, IInv, PlaceInv, StoryAt
  <2>6. svc[at[x]] = "dead" /\ at[x] \in Host => svc'[at[x]] = "dead"
    BY <1>t, <2>4 DEF TypeOK
  <2>7. stored[x] = "interrupted" => at[x] \in Host
    BY <1>t, <1>s DEF TypeOK, IInv, PlaceInv, StoryAt
  <2>8. \/ stored'[x] = stored[x]
        \/ stored'[x] = "interrupted" /\ x \in Orphans
        \/ stored'[x] = "deleted" /\ stored[x] \in Terminal \cup {"running"}
    BY <2>3, <2>5
  <2> QED
    BY <1>s, <2>4, <2>5, <2>6, <2>7, <2>8
       DEF StoryAt, Untold, ToldOfFailure, Terminal, Settled, IInv, PlaceInv, InFlight, ProcessAlive
<1>3. ASSUME NEW h \in Host, CloseBegin(h) \/ CloseEnd(h)
      PROVE  StoryAt(x)'
  <2>1. /\ svc[h] # "dead" /\ \E y : svc' = [svc EXCEPT ![h] = y]
        /\ UNCHANGED <<at, pc, joined, result, unsaved, stored>>
    BY <1>3 DEF CloseBegin, CloseEnd, idVars, outVars, dbVars
  <2>2. svc[at[x]] = "dead" => svc'[at[x]] = "dead"
    BY <1>t, <2>1 DEF TypeOK
  <2> QED
    BY <1>s, <2>1, <2>2 DEF StoryAt, Untold, ToldOfFailure, InGate
<1>4. ASSUME NEW h \in Host, Die(h)
      PROVE  StoryAt(x)'
  <2>0. UNCHANGED <<at, joined, result, unsaved, stored>>
    BY <1>4 DEF Die, idVars, outVars, dbVars
  <2>1. pc'[x] = pc[x] \/ (pc[x] \in InFlight /\ pc'[x] = "lost")
    BY <1>4 DEF Die
  <2>2. svc[at[x]] = "dead" => svc'[at[x]] = "dead"
    BY <1>t, <1>4 DEF TypeOK, Die
  <2> QED
    BY <1>s, <2>0, <2>1, <2>2 DEF StoryAt, Untold, ToldOfFailure, InFlight, InGate
<1>5. ASSUME NEW h \in Host, NEW c \in Call, NEW r \in Request \cup {None}, NEW d, Start(h, c, r, d)
      PROVE  StoryAt(x)'
  <2>1. /\ pc[c] = "idle" /\ at[c] = None
        /\ at' = [at EXCEPT ![c] = h]
        /\ UNCHANGED <<svc, joined, result, unsaved, stored>>
        /\ \E p \in {"refused", "resolving", "insert", "check"} : pc' = [pc EXCEPT ![c] = p]
    BY <1>t, <1>5 DEF Start, StartRejected, StartUnkeyed, GateRead, Reserve, Called,
                memVars, outVars, dbVars, IInv, PlaceInv, TypeOK
  <2>2. CASE x = c
    <3>1. stored[x] = "none" /\ joined[x] = None /\ Untold(x)
      BY <1>s, <2>1, <2>2 DEF StoryAt
    <3>2. pc'[x] \in InGate \cup {"refused", "resolving"}
      BY <1>t, <2>1, <2>2 DEF TypeOK, InGate
    <3> QED
      BY <2>1, <3>1, <3>2 DEF StoryAt, Untold, Settled, InGate
  <2>3. CASE x # c
    <3>1. pc'[x] = pc[x] /\ at'[x] = at[x]
      BY <1>t, <2>1, <2>3 DEF TypeOK
    <3> QED
      BY <1>s, <2>1, <3>1 DEF StoryAt, Untold, ToldOfFailure, InGate
  <2> QED
    BY <2>2, <2>3
<1>13. ASSUME NEW c \in Call, Gate(c)
       PROVE  StoryAt(x)'
  <2>1. /\ pc[c] \in InGate
        /\ \E to \in {"replace", "get", "resolving", "rejected", "duplicate"} :
              pc' = [pc EXCEPT ![c] = to]
        /\ UNCHANGED <<svc, at, unsaved, stored>>
    BY <1>13, GateMoves DEF memVars
  <2>2. \/ UNCHANGED <<joined, result>> /\ pc' # [pc EXCEPT ![c] = "duplicate"]
        \/ /\ joined' = [joined EXCEPT ![c] = seen[c]] /\ seen[c] \in Call
           /\ pc' = [pc EXCEPT ![c] = "duplicate"]
           /\ UNCHANGED result \/ \E y : result' = [result EXCEPT ![c] = y]
    <3>1. CASE UNCHANGED <<joined, result>>
      BY <1>t, <1>13, <2>1, <3>1 DEF TypeOK, Gate, GateInsert, GateReplace, GateWriteFails,
            GateStale, GateConflict, GateDuplicate, Duplicate, GateGet, Record, GateGoes, Rows
    <3> QED
      BY <1>13, <3>1, GateTells DEF Rows
  <2>3. CASE x # c
    <3>1. pc'[x] = pc[x] /\ joined'[x] = joined[x] /\ result'[x] = result[x]
      BY <1>t, <2>1, <2>2, <2>3 DEF TypeOK
    <3> QED
      BY <2>1, <3>1, SameStory
  <2>4. CASE x = c
    <3>1. stored[x] = "none" /\ joined[x] = None /\ Untold(x)
      BY <1>s, <2>1, <2>4 DEF StoryAt
    <3>2. \/ /\ joined'[x] = joined[x] /\ result'[x] = result[x]
             /\ pc'[x] \in {"replace", "get", "resolving", "rejected"}
          \/ joined'[x] \in Call /\ pc'[x] = "duplicate"
      BY <1>t, <2>1, <2>2, <2>4 DEF TypeOK
    <3>3. stored'[x] = "none" /\ ~unsaved'[x]
      BY <2>1, <3>1 DEF Untold
    <3> QED
      BY <3>1, <3>2, <3>3, CallAssumption DEF StoryAt, Untold, Settled, InGate
  <2> QED
    BY <2>3, <2>4
<1>6. ASSUME NEW c \in Call, ThrowRejected(c) \/ ReturnDuplicate(c) \/ ThrowUnregistered(c)
      PROVE  StoryAt(x)'
  <2>1. UNCHANGED <<svc, at, joined, result, unsaved, stored>>
    BY <1>6 DEF ThrowRejected, ReturnDuplicate, ThrowUnregistered, Refuse, idVars, outVars, dbVars
  <2>2. CASE x # c
    BY <1>t, <1>6, <2>1, <2>2, SameStory
       DEF ThrowRejected, ReturnDuplicate, ThrowUnregistered, Refuse, TypeOK
  <2>3. CASE x = c /\ pc[c] = "duplicate" /\ pc'[c] = "joined"
    BY <1>s, <2>1, <2>3 DEF StoryAt, Untold, ToldOfFailure, InGate
  <2>4. CASE x = c /\ pc[c] \in {"rejected", "resolving"} /\ pc'[c] = "refused"
    BY <1>s, <2>1, <2>4 DEF StoryAt, Untold, ToldOfFailure, InGate
  <2> QED
    BY <1>t, <1>6, <2>2, <2>3, <2>4
       DEF ThrowRejected, ReturnDuplicate, ThrowUnregistered, Refuse, TypeOK
<1>7. ASSUME NEW c \in Call, FailMissing(c) \/ FailInvalid(c)
      PROVE  StoryAt(x)'
  <2>1. /\ pc[c] = "resolving" /\ FailTicket(c)
        /\ CreateRun(c, "failed") \/ UNCHANGED stored
    BY <1>7 DEF FailMissing, FailInvalid, dbVars
  <2>2. /\ pc' = [pc EXCEPT ![c] = "failed"]
        /\ result' = [result EXCEPT ![c] = "failed"]
        /\ UNCHANGED <<svc, at, joined, unsaved>>
    BY <2>1 DEF FailTicket, idVars
  <2>3. /\ stored'[c] = "failed" \/ stored'[c] = stored[c]
        /\ x # c => stored'[x] = stored[x] \/ (stored'[x] = "deleted" /\ stored[x] \in Terminal)
    <3>1. CASE CreateRun(c, "failed")
      BY <3>1, <1>t, CreateRunRows
    <3>2. CASE UNCHANGED stored
      BY <3>2
    <3> QED
      BY <2>1, <3>1, <3>2
  <2>4. CASE x # c
    BY <1>t, <2>2, <2>3, <2>4, SameStory DEF TypeOK
  <2>5. CASE x = c
    <3>1. stored[c] = "none" /\ joined[c] = None
      BY <1>s, <2>1, <2>5 DEF StoryAt
    <3>2. pc'[c] = "failed" /\ result'[c] = "failed"
      BY <1>t, <2>2 DEF TypeOK
    <3> QED
      BY <2>2, <2>3, <2>5, <3>1, <3>2 DEF StoryAt, Settled, InGate
  <2> QED
    BY <2>4, <2>5
<1>8. ASSUME NEW c \in Call, Register(c)
      PROVE  StoryAt(x)'
  <2>1. /\ pc[c] = "resolving" /\ CreateRun(c, "running")
        /\ pc' = [pc EXCEPT ![c] = "racing"]
        /\ UNCHANGED <<svc, at, joined, result, unsaved>>
    BY <1>8 DEF Register, idVars
  <2>2. /\ stored'[c] = "running"
        /\ x # c => stored'[x] = stored[x] \/ (stored'[x] = "deleted" /\ stored[x] \in Terminal)
    BY <2>1, <1>t, CreateRunRows
  <2>3. CASE x # c
    BY <1>t, <2>1, <2>2, <2>3, SameStory DEF TypeOK
  <2>4. CASE x = c
    <3>1. joined[c] = None /\ Untold(c)
      BY <1>s, <2>1, <2>4 DEF StoryAt
    <3>2. pc'[c] = "racing"
      BY <1>t, <2>1 DEF TypeOK
    <3> QED
      BY <2>1, <2>2, <2>4, <3>1, <3>2 DEF StoryAt, Untold, Settled, InGate
  <2> QED
    BY <2>3, <2>4
<1>9. ASSUME NEW c \in Call, Settle(c)
      PROVE  StoryAt(x)'
  <2>1. /\ pc[c] = "racing" /\ pc' = [pc EXCEPT ![c] = "finalized"]
        /\ UNCHANGED <<svc, at, joined>>
        /\ \/ /\ UpdateRun(c, StatusOf(c))
              /\ result' = [result EXCEPT ![c] = StatusOf(c)]
              /\ UNCHANGED unsaved
           \/ /\ unsaved' = [unsaved EXCEPT ![c] = TRUE]
              /\ result' = [result EXCEPT ![c] = "failed"]
              /\ UNCHANGED stored
    BY <1>9 DEF Settle, memVars, idVars
  <2>2. CASE x # c
    <3>1. /\ pc'[x] = pc[x] /\ result'[x] = result[x] /\ unsaved'[x] = unsaved[x]
          /\ stored'[x] = stored[x]
      BY <1>t, <2>1, <2>2 DEF TypeOK, UpdateRun
    <3> QED
      BY <2>1, <3>1, SameStory
  <2>3. CASE x = c
    <3>1. stored[c] \in {"running", "deleted"} /\ joined[c] = None /\ Untold(c)
      BY <1>s, <2>1, <2>3 DEF StoryAt
    <3>2. StorageOpen(at[c]) /\ StatusOf(c) \in Settled
      BY <2>1, StatusOfType DEF IInv, PlaceInv
    <3>3. pc'[c] = "finalized" /\ joined'[c] = None
      BY <1>t, <2>1, <3>1 DEF TypeOK
    <3>4. \/ result'[c] = StatusOf(c) /\ stored'[c] \in {StatusOf(c), "deleted"}
          \/ result'[c] = "failed" /\ unsaved'[c] /\ stored'[c] = stored[c]
      BY <1>t, <2>1, <3>1, <3>2 DEF TypeOK, UpdateRun
    <3> QED
      BY <2>3, <3>1, <3>2, <3>3, <3>4 DEF StoryAt, ToldOfFailure, Settled, InGate
  <2> QED
    BY <2>2, <2>3
<1>10. ASSUME NEW c \in Call, Conclude(c)
       PROVE  StoryAt(x)'
  <2>1. pc[c] = "finalized" /\ pc' = [pc EXCEPT ![c] = "ended"]
    BY <1>10 DEF Conclude
  <2>2. pc'[x] = pc[x] \/ (pc[x] = "finalized" /\ pc'[x] = "ended")
    BY <1>t, <2>1 DEF TypeOK
  <2>3. UNCHANGED <<svc, at, joined, unsaved, stored>>
    BY <1>10 DEF Conclude, idVars, dbVars
  <2>4. UNCHANGED result
    BY <1>10 DEF Conclude
  <2> QED
    BY <1>s, <2>2, <2>3, <2>4 DEF StoryAt, Untold, ToldOfFailure, InGate
<1>11. ASSUME NEW h \in Host, NEW gone \in SUBSET Call, ClearRuns(h, gone)
       PROVE  StoryAt(x)'
  <2>1. stored'[x] = stored[x] \/ (stored'[x] = "deleted" /\ stored[x] \in Terminal \cup {"running"})
    BY <1>11 DEF ClearRuns, Deleted, Rows
  <2> QED
    BY <1>11, <2>1, SameStory DEF ClearRuns, memVars, idVars, outVars
<1>12. ASSUME \/ \E c \in Call :
                   \/ \E how \in {"value", "invalid", "throw"} : ActionSettles(c, how)
                   \/ TimerFires(c)
                   \/ \E reason \in {"cancel", "timeout"} : SignalAborts(c, reason)
                   \/ Cancel(c)
              \/ \E h \in Host, o \in Owner, r \in Request : ExpireKey(h, o, r)
              \/ UNCHANGED vars
       PROVE  UNCHANGED <<svc, at, pc, joined, result, unsaved, stored>>
  BY <1>12 DEF ActionSettles, TimerFires, SignalAborts, Cancel, Abort, ExpireKey, vars, memVars,
               idVars, outVars, dbVars
<1> QED
  BY <1>1, <1>2, <1>3, <1>4, <1>5, <1>6, <1>7, <1>8, <1>9, <1>10, <1>11, <1>12, <1>13 DEF Next

LEMMA InitInvariant == Init => IInv
<1> SUFFICES ASSUME Init
             PROVE  IInv
  OBVIOUS
<1>1. TypeInv
  BY InitType DEF TypeInv
<1>2. PlaceInv
  BY HostAssumption DEF Init, PlaceInv, InFlight, InGate
<1>3. SlotInv
  BY DEF Init, SlotInv, Reserving, InGate
<1>4. ActiveInv /\ CountInv
  BY DEF Init, ActiveInv, CountInv
<1>5. StoryInv
  BY DEF Init, StoryInv, StoryAt, Untold, Terminal, Settled
<1> QED
  BY <1>1, <1>2, <1>3, <1>4, <1>5 DEF IInv

LEMMA Invariance == Spec => []IInv
<1>1. IInv /\ [Next]_vars => IInv'
  <2> SUFFICES ASSUME IInv, [Next]_vars
               PROVE  IInv'
    OBVIOUS
  <2>1. TypeInv'
    BY NextType, NextFinalized DEF IInv, TypeInv
  <2>2. PlaceInv' /\ SlotInv' /\ ActiveInv' /\ CountInv' /\ StoryInv'
    BY NextPlace, NextSlot, NextActive, NextCount, NextStory
  <2> QED
    BY <2>1, <2>2 DEF IInv
<1> QED
  BY InitInvariant, <1>1, PTL DEF Spec

-----------------------------------------------------------------------------
(* Theorems *)

\* reservedSlots counts exactly the starts that hold a slot, whatever path they
\* leave start() by, and runs and reservations never exceed maxActiveRuns.
THEOREM QuotaIsKept == Spec => []QuotaHolds
<1>1. IInv => QuotaHolds
  BY DEF IInv, CountInv, QuotaHolds, Holders
<1> QED
  BY Invariance, <1>1, PTL

\* As long as the process that started a run lives, a row that says "running"
\* has its entry in activeRuns, or the store refused its final status.
THEOREM RunsAreSupervised == Spec => []RunningIsSupervised
<1>1. IInv => RunningIsSupervised
  BY DEF IInv, PlaceInv, StoryInv, StoryAt, Untold, ToldOfFailure, ProcessAlive,
         RunningIsSupervised
<1> QED
  BY Invariance, <1>1, PTL

\* A settled run whose update did not fail has in its row the status its caller
\* was told, unless the row was deleted.
THEOREM ResultsAreRecorded == Spec => []ResultMatchesRecord
<1>1. IInv => ResultMatchesRecord
  <2> SUFFICES ASSUME IInv, NEW c \in Call, joined[c] = None, pc[c] # "failed",
                      result[c] # "pending", ~unsaved[c]
               PROVE  stored[c] \in {result[c], "deleted"}
    BY DEF ResultMatchesRecord
  <2>1. stored[c] \notin {"none", "running", "interrupted"}
    BY DEF IInv, StoryInv, StoryAt, Untold, ToldOfFailure
  <2>2. stored[c] \in {"none", "running", "deleted"} \cup Terminal
    BY DEF IInv, TypeInv, TypeOK
  <2>3. stored[c] \in Settled => result[c] = stored[c]
    BY DEF IInv, StoryInv, StoryAt
  <2> QED
    BY <2>1, <2>2, <2>3 DEF Terminal
<1> QED
  BY Invariance, <1>1, PTL

\* Recovery interrupts only rows of dead processes, and never one whose caller
\* was told of a success.
THEOREM ReapingIsConservative == Spec => []OnlyTheDeadAreInterrupted
<1>1. IInv => OnlyTheDeadAreInterrupted
  BY DEF IInv, StoryInv, StoryAt, Untold, ToldOfFailure, OnlyTheDeadAreInterrupted
<1> QED
  BY Invariance, <1>1, PTL

-----------------------------------------------------------------------------
(* Events *)

\* What has been announced of a call's run, by the stage of the call.
EventsAt(c) ==
    /\ pc[c] \in Reserving \cup {"idle", "refused", "joined"} =>
          events[c] = <<>>
    /\ pc[c] \in {"racing", "finalized"} => events[c] = <<"running">>
    /\ pc[c] = "lost" => events[c] \in {<<>>, <<"running">>}
    /\ pc[c] = "ended" =>
          events[c] = <<"running", result[c]>> /\ result[c] \in Settled
    /\ pc[c] = "failed" => events[c] = <<"failed">> /\ result[c] = "failed"

EventInv == \A c \in Call : EventsAt(c)

\* A call whose stage, result and events a step leaves alone keeps its events.
LEMMA SameEvents ==
    ASSUME NEW c \in Call, EventsAt(c),
           pc'[c] = pc[c], result'[c] = result[c], events'[c] = events[c]
    PROVE  EventsAt(c)'
  BY DEF EventsAt

LEMMA AppendToOne ==
    ASSUME NEW S, NEW a \in S, NEW b \in S
    PROVE  Append(<<a>>, b) = <<a, b>>
<1> DEFINE s == Append(<<a>>, b)
           t == <<a, b>>
<1>1. s \in Seq(S) /\ t \in Seq(S)
  OBVIOUS
<1>2. Len(s) = 2 /\ s[1] = a /\ s[2] = b
  OBVIOUS
<1>3. Len(t) = 2 /\ t[1] = a /\ t[2] = b
  OBVIOUS
<1> HIDE DEF s, t
<1>4. \A i \in 1 .. Len(s) : s[i] = t[i]
  BY <1>2, <1>3
<1>5. s = t
  BY <1>1, <1>2, <1>3, <1>4, SeqEqual
<1> QED
  BY <1>5 DEF s, t

LEMMA NextEvents == IInv /\ EventInv /\ [Next]_vars => EventInv'
<1> SUFFICES ASSUME IInv, EventInv, [Next]_vars, NEW x \in Call
             PROVE  EventsAt(x)'
  BY DEF EventInv
<1>t. TypeOK
  BY DEF IInv, TypeInv
<1>e. EventsAt(x)
  BY DEF EventInv
<1>1. CASE UNCHANGED <<pc, result, events>>
  BY <1>1, <1>e, SameEvents
<1>2. ASSUME NEW h \in Host, Die(h)
      PROVE  EventsAt(x)'
  <2>1. UNCHANGED <<result, events>>
    BY <1>2 DEF Die, outVars
  <2>2. pc'[x] = pc[x] \/ (pc[x] \in InFlight /\ pc'[x] = "lost")
    BY <1>2 DEF Die
  <2> QED
    BY <1>e, <2>1, <2>2 DEF EventsAt, InFlight, Reserving, InGate
<1>3. ASSUME NEW h \in Host, NEW c \in Call, NEW r \in Request \cup {None},
             NEW d \in Digest \cup {None},
             Start(h, c, r, d)
      PROVE  EventsAt(x)'
  <2>1. /\ pc[c] = "idle" /\ UNCHANGED <<events, result>>
        /\ \E p \in {"refused", "resolving", "insert", "check"} : pc' = [pc EXCEPT ![c] = p]
    BY <1>3 DEF Start, StartRejected, StartUnkeyed, GateRead, Reserve, Called, outVars
  <2>2. CASE x = c
    BY <1>t, <1>e, <2>1, <2>2 DEF EventsAt, TypeOK, Reserving, InGate
  <2>3. CASE x # c
    BY <1>t, <1>e, <2>1, <2>3, SameEvents DEF TypeOK
  <2> QED
    BY <2>2, <2>3
<1>10. ASSUME NEW c \in Call, Gate(c)
       PROVE  EventsAt(x)'
  <2>1. /\ pc[c] \in InGate /\ UNCHANGED events
        /\ \E p \in {"replace", "get", "resolving", "rejected", "duplicate"} :
              pc' = [pc EXCEPT ![c] = p]
        /\ UNCHANGED result \/ (\E y : result' = [result EXCEPT ![c] = y])
    BY <1>10, GateMoves, GateTells
  <2>2. CASE x = c
    BY <1>t, <1>e, <2>1, <2>2 DEF EventsAt, TypeOK, Reserving, InGate
  <2>3. CASE x # c
    BY <1>t, <1>e, <2>1, <2>3, SameEvents DEF TypeOK
  <2> QED
    BY <2>2, <2>3
<1>4. ASSUME NEW c \in Call, ThrowRejected(c) \/ ReturnDuplicate(c) \/ ThrowUnregistered(c)
      PROVE  EventsAt(x)'
  <2>1. /\ pc[c] \in {"rejected", "duplicate", "resolving"}
        /\ \E p \in {"refused", "joined"} : pc' = [pc EXCEPT ![c] = p]
        /\ UNCHANGED <<result, events>>
    BY <1>4 DEF ThrowRejected, ReturnDuplicate, ThrowUnregistered, Refuse, outVars
  <2>2. CASE x = c
    BY <1>t, <1>e, <2>1, <2>2 DEF EventsAt, TypeOK, Reserving, InGate
  <2>3. CASE x # c
    BY <1>t, <1>e, <2>1, <2>3, SameEvents DEF TypeOK
  <2> QED
    BY <2>2, <2>3
<1>5. ASSUME NEW c \in Call, FailMissing(c) \/ FailInvalid(c)
      PROVE  EventsAt(x)'
  <2>1. pc[c] = "resolving" /\ FailTicket(c)
    BY <1>5 DEF FailMissing, FailInvalid
  <2>2. CASE x = c
    <3>1. events[c] = <<>>
      BY <1>e, <2>1, <2>2 DEF EventsAt, Reserving
    <3>2. pc'[c] = "failed" /\ result'[c] = "failed" /\ events'[c] = Append(<<>>, "failed")
      BY <1>t, <2>1, <3>1 DEF FailTicket, TypeOK
    <3> QED
      BY <2>2, <3>2 DEF EventsAt, Reserving, InGate
  <2>3. CASE x # c
    BY <1>t, <1>e, <2>1, <2>3, SameEvents DEF TypeOK, FailTicket
  <2> QED
    BY <2>2, <2>3
<1>6. ASSUME NEW c \in Call, Register(c)
      PROVE  EventsAt(x)'
  <2>1. /\ pc[c] = "resolving" /\ pc' = [pc EXCEPT ![c] = "racing"]
        /\ events' = [events EXCEPT ![c] = Append(@, "running")]
        /\ UNCHANGED result
    BY <1>6 DEF Register
  <2>2. CASE x = c
    <3>1. events[c] = <<>>
      BY <1>e, <2>1, <2>2 DEF EventsAt, Reserving
    <3>2. pc'[c] = "racing" /\ events'[c] = Append(<<>>, "running")
      BY <1>t, <2>1, <3>1 DEF TypeOK
    <3> QED
      BY <2>2, <3>2 DEF EventsAt, Reserving, InGate
  <2>3. CASE x # c
    BY <1>t, <1>e, <2>1, <2>3, SameEvents DEF TypeOK
  <2> QED
    BY <2>2, <2>3
<1>7. ASSUME NEW c \in Call, Settle(c)
      PROVE  EventsAt(x)'
  <2>1. /\ pc[c] = "racing" /\ pc' = [pc EXCEPT ![c] = "finalized"]
        /\ \E y : result' = [result EXCEPT ![c] = y]
        /\ UNCHANGED events
    BY <1>7 DEF Settle
  <2>2. CASE x = c
    BY <1>t, <1>e, <2>1, <2>2 DEF EventsAt, TypeOK, Reserving, InGate
  <2>3. CASE x # c
    BY <1>t, <1>e, <2>1, <2>3, SameEvents DEF TypeOK
  <2> QED
    BY <2>2, <2>3
<1>8. ASSUME NEW c \in Call, Conclude(c)
      PROVE  EventsAt(x)'
  <2>1. /\ pc[c] = "finalized" /\ pc' = [pc EXCEPT ![c] = "ended"]
        /\ events' = [events EXCEPT ![c] = Append(@, result[c])]
        /\ UNCHANGED result
    BY <1>8 DEF Conclude
  <2>2. CASE x = c
    <3>1. events[c] = <<"running">> /\ result[c] \in Settled
      BY <1>e, <2>1, <2>2 DEF EventsAt, IInv, TypeInv, FinalizedHasResult
    <3>2. pc'[c] = "ended" /\ events'[c] = Append(<<"running">>, result[c])
      BY <1>t, <2>1, <3>1 DEF TypeOK
    <3>3. "running" \in {"running"} \cup Settled /\ result[c] \in {"running"} \cup Settled
      BY <3>1
    <3>4. events'[c] = <<"running", result[c]>>
      BY <3>2, <3>3, AppendToOne
    <3> QED
      BY <2>1, <2>2, <3>1, <3>2, <3>4 DEF EventsAt, Reserving, InGate
  <2>3. CASE x # c
    BY <1>t, <1>e, <2>1, <2>3, SameEvents DEF TypeOK
  <2> QED
    BY <2>2, <2>3
<1>9. ASSUME \/ \E h \in Host : Open(h) \/ CloseBegin(h) \/ CloseEnd(h)
             \/ \E c \in Call :
                  \/ \E how \in {"value", "invalid", "throw"} : ActionSettles(c, how)
                  \/ TimerFires(c)
                  \/ \E reason \in {"cancel", "timeout"} : SignalAborts(c, reason)
                  \/ Cancel(c)
             \/ \E h \in Host, gone \in SUBSET Call : ClearRuns(h, gone)
             \/ \E h \in Host, o \in Owner, r \in Request : ExpireKey(h, o, r)
             \/ UNCHANGED vars
      PROVE  UNCHANGED <<pc, result, events>>
  BY <1>9 DEF Open, CloseBegin, CloseEnd, ActionSettles, TimerFires, SignalAborts, Cancel,
              Abort, ClearRuns, ExpireKey, vars, outVars
<1> QED
  BY <1>1, <1>2, <1>3, <1>4, <1>5, <1>6, <1>7, <1>8, <1>9, <1>10 DEF Next

\* Subscribers of a run see it end once: the final status event is the last one,
\* is emitted once and says what the result says.
THEOREM RunsEndOnce == Spec => []OneFinalEvent
<1>1. Init => EventInv
  BY DEF Init, EventInv, EventsAt
<1>2. IInv /\ EventInv => OneFinalEvent
  <2> SUFFICES ASSUME IInv, EventInv, NEW c \in Call
               PROVE  LET final == {i \in DOMAIN events[c] : events[c][i] # "running"} IN
                      IF pc[c] \in {"failed", "ended"}
                      THEN final = {Len(events[c])} /\ events[c][Len(events[c])] = result[c]
                      ELSE final = {}
    BY DEF OneFinalEvent
  <2> DEFINE final == {i \in DOMAIN events[c] : events[c][i] # "running"}
  <2>e. EventsAt(c)
    BY DEF EventInv
  <2>1. CASE pc[c] = "failed"
    <3>1. events[c] = <<"failed">> /\ result[c] = "failed"
      BY <2>e, <2>1 DEF EventsAt
    <3>2. Len(events[c]) = 1 /\ DOMAIN events[c] = {1} /\ events[c][1] = "failed"
      BY <3>1
    <3> QED
      BY <2>1, <3>1, <3>2
  <2>2. CASE pc[c] = "ended"
    <3>1. events[c] = <<"running", result[c]>> /\ result[c] # "running"
      BY <2>e, <2>2 DEF EventsAt, Settled
    <3>2. /\ Len(events[c]) = 2 /\ DOMAIN events[c] = {1, 2}
          /\ events[c][1] = "running" /\ events[c][2] = result[c]
      BY <3>1
    <3>3. final = {2}
      BY <3>1, <3>2
    <3> QED
      BY <2>2, <3>2, <3>3
  <2>3. CASE pc[c] \notin {"failed", "ended"}
    <3>1. pc[c] \in InFlight \cup {"idle", "refused", "joined", "lost"}
      BY <2>3 DEF IInv, TypeInv, TypeOK
    <3>2. events[c] \in {<<>>, <<"running">>}
      BY <2>e, <3>1 DEF EventsAt, InFlight, Reserving
    <3>3. \A i \in DOMAIN events[c] : events[c][i] = "running"
      BY <3>2
    <3> QED
      BY <2>3, <3>3
  <2> QED
    BY <2>1, <2>2, <2>3
<1> QED
  BY Invariance, <1>1, <1>2, NextEvents, PTL DEF Spec

-----------------------------------------------------------------------------
(* What a call was made with, and the calls that join its run *)

\* The result of a call does not change once it is told, nor the result of a
\* duplicate, which is told when it joins.
ToldOnce(c) == result'[c] = result[c] \/ (result[c] = "pending" /\ joined[c] = None)

\* A call that was made stays made, where and with what it was.
LEMMA MadeOnce ==
    ASSUME IInv, [Next]_vars, NEW x \in Call, pc[x] # "idle"
    PROVE  /\ pc'[x] # "idle" /\ at'[x] = at[x] /\ req'[x] = req[x]
           /\ digest'[x] = digest[x]
           /\ joined'[x] = joined[x] \/ Gate(x)
           /\ ToldOnce(x)
<1>t. TypeOK
  BY DEF IInv, TypeInv
<1>s. StoryAt(x)
  BY DEF IInv, StoryInv
<1> USE DEF ToldOnce
<1>1. CASE UNCHANGED <<pc, at, req, digest, joined, result>>
  BY <1>1
<1>2. ASSUME NEW h \in Host, Die(h)
      PROVE  /\ pc'[x] # "idle" /\ UNCHANGED <<at, req, digest, joined, result>>
  BY <1>2 DEF Die, outVars
<1>3. ASSUME NEW h \in Host, NEW c \in Call, NEW r \in Request \cup {None},
             NEW d \in Digest \cup {None},
             Start(h, c, r, d)
      PROVE  /\ pc'[x] = pc[x] /\ at'[x] = at[x] /\ req'[x] = req[x]
             /\ digest'[x] = digest[x] /\ joined'[x] = joined[x] /\ result'[x] = result[x]
  <2>1. x # c
    BY <1>3 DEF Start, StartRejected, StartUnkeyed, GateRead, Reserve, Called
  <2> QED
    BY <1>t, <1>3, <2>1
       DEF Start, StartRejected, StartUnkeyed, GateRead, Reserve, Called, outVars, TypeOK
<1>4. ASSUME NEW c \in Call,
             \/ ThrowRejected(c) \/ ReturnDuplicate(c) \/ ThrowUnregistered(c)
             \/ Register(c) \/ Conclude(c)
      PROVE  pc'[x] # "idle" /\ UNCHANGED <<at, req, digest, joined, result>>
  BY <1>t, <1>4 DEF ThrowRejected, ReturnDuplicate, ThrowUnregistered, Refuse, Register,
                    Conclude, idVars, outVars, TypeOK
<1>5. ASSUME NEW c \in Call, FailMissing(c) \/ FailInvalid(c) \/ Settle(c)
      PROVE  /\ pc'[x] # "idle" /\ UNCHANGED <<at, req, digest, joined>>
             /\ x # c => result'[x] = result[x]
             /\ pc[c] \in {"resolving", "racing"}
  BY <1>t, <1>5 DEF FailMissing, FailInvalid, FailTicket, Settle, idVars, TypeOK
<1>6. ASSUME NEW c \in Call, FailMissing(c) \/ FailInvalid(c) \/ Settle(c)
      PROVE  ToldOnce(x)
  BY <1>5, <1>6, <1>s DEF StoryAt, Untold
<1>7. ASSUME NEW c \in Call, Gate(c)
      PROVE  /\ pc'[x] # "idle" /\ UNCHANGED <<at, req, digest>>
             /\ joined'[x] = joined[x] \/ x = c
             /\ ToldOnce(x)
  <2>1. /\ pc[c] \in InGate /\ UNCHANGED <<at, req, digest>>
        /\ \E p \in {"replace", "get", "resolving", "rejected", "duplicate"} :
              pc' = [pc EXCEPT ![c] = p]
    BY <1>7, GateMoves
  <2>2. /\ UNCHANGED joined \/ (\E y : joined' = [joined EXCEPT ![c] = y])
        /\ UNCHANGED result \/ (\E y : result' = [result EXCEPT ![c] = y])
    BY <1>7, GateTells
  <2>3. pc'[x] # "idle"
    BY <1>t, <2>1 DEF TypeOK
  <2>4. joined'[x] = joined[x] \/ x = c
    BY <1>t, <2>2 DEF TypeOK
  <2>5. x = c => result[x] = "pending" /\ joined[x] = None
    BY <1>s, <2>1 DEF StoryAt, Untold
  <2>6. x # c => result'[x] = result[x]
    BY <1>t, <2>2 DEF TypeOK
  <2> QED
    BY <2>1, <2>3, <2>4, <2>5, <2>6
<1>9. ASSUME \/ \E h \in Host : Open(h) \/ CloseBegin(h) \/ CloseEnd(h)
             \/ \E c \in Call :
                  \/ \E how \in {"value", "invalid", "throw"} : ActionSettles(c, how)
                  \/ TimerFires(c)
                  \/ \E reason \in {"cancel", "timeout"} : SignalAborts(c, reason)
                  \/ Cancel(c)
             \/ \E h \in Host, gone \in SUBSET Call : ClearRuns(h, gone)
             \/ \E h \in Host, o \in Owner, r \in Request : ExpireKey(h, o, r)
             \/ UNCHANGED vars
      PROVE  UNCHANGED <<pc, at, req, digest, joined, result>>
  BY <1>9 DEF Open, CloseBegin, CloseEnd, ActionSettles, TimerFires, SignalAborts, Cancel,
              Abort, ClearRuns, ExpireKey, vars, idVars, outVars
<1> QED
  BY <1>1, <1>2, <1>3, <1>4, <1>5, <1>6, <1>7, <1>9 DEF Next

\* Run k was made for request r in scope o.
MadeFor(k, o, r) ==
    k \in Call /\ pc[k] # "idle" /\ at[k] \in Host /\ OwnerOf[at[k]] = o /\ req[k] = r

\* Every key names a run made for it, and so does what a gate read of one,
\* however stale it is; a duplicate holds what its run was made with, and an
\* answer of that run.
KeyInv == \A o \in Owner, r \in Request : key[o][r] # None => MadeFor(key[o][r], o, r)

SeenAt(c) ==
    /\ pc[c] \in {"check", "replace", "get"} => seen[c] # None
    /\ pc[c] \in InGate => at[c] \in Host /\ req[c] \in Request
    /\ seen[c] # None => /\ pc[c] \in {"check", "replace", "get"}
                        /\ MadeFor(seen[c], OwnerOf[at[c]], req[c])
    /\ pc[c] = "get" => digest[seen[c]] = digest[c]

SeenInv == \A c \in Call : SeenAt(c)

JoinAt(c) ==
    joined[c] # None =>
        /\ pc[c] # "idle" /\ at[c] \in Host
        /\ MadeFor(joined[c], OwnerOf[at[c]], req[c])
        /\ digest[joined[c]] = digest[c]
        /\ result[c] \notin {"pending", "failed"} => result[joined[c]] = result[c]

JoinInv == \A c \in Call : JoinAt(c)

\* A step that changes keys drops some, or writes the one of a call that starts.
LEMMA KeyStep ==
    ASSUME IInv, [Next]_vars, NEW o \in Owner, NEW r \in Request
    PROVE  \/ key'[o][r] \in {key[o][r], None}
           \/ MadeFor(key[o][r], o, r)'
<1>t. TypeOK
  BY DEF IInv, TypeInv
<1>1. ASSUME NEW table, NEW gone, CleanExpired(table, gone)
      PROVE  key'[o][r] \in {key[o][r], None}
  BY <1>1 DEF CleanExpired, WithoutOrphans
<1>2. ASSUME NEW h \in Host, Open(h)
      PROVE  key'[o][r] \in {key[o][r], None}
  BY <1>1, <1>2 DEF Open
<1>3. ASSUME NEW c \in Call, FailMissing(c) \/ FailInvalid(c) \/ Register(c)
      PROVE  key'[o][r] \in {key[o][r], None}
  <2>1. CASE \E status \in {"failed", "running"} : CreateRun(c, status)
    BY <1>1, <2>1 DEF CreateRun
  <2>2. CASE UNCHANGED dbVars
    BY <2>2 DEF dbVars
  <2> QED
    BY <1>3, <2>1, <2>2 DEF FailMissing, FailInvalid, Register
<1>4. ASSUME NEW c \in Call, Gate(c)
      PROVE  \/ key'[o][r] \in {key[o][r], None}
             \/ MadeFor(key[o][r], o, r)'
  <2>1. CASE key'[o][r] = key[o][r]
    BY <2>1
  <2>2. CASE key'[o][r] # key[o][r]
    <3>1. /\ key' = [key EXCEPT ![OwnerOf[at[c]]][req[c]] = c]
          /\ pc' = [pc EXCEPT ![c] = "resolving"]
          /\ UNCHANGED <<at, req>>
      BY <1>4, <2>2 DEF Gate, GateInsert, GateReplace, GateWriteFails, GateStale, GateConflict,
                        GateDuplicate, Duplicate, GateGet, Record, GateGoes
    <3>2. o = OwnerOf[at[c]] /\ r = req[c] /\ key'[o][r] = c
      BY <1>t, <2>2, <3>1 DEF TypeOK
    <3>3. pc'[c] = "resolving" /\ at'[c] = at[c] /\ req'[c] = req[c]
      BY <1>t, <3>1 DEF TypeOK
    <3>4. at[c] \in Host
      <4>1. pc[c] # "idle"
        BY <1>4, GateMoves DEF InGate
      <4> QED
        BY <1>t, <4>1 DEF TypeOK, IInv, PlaceInv
    <3> QED
      BY <3>2, <3>3, <3>4 DEF MadeFor
  <2> QED
    BY <2>1, <2>2
<1>5. ASSUME NEW h \in Host, NEW gone \in SUBSET Call, ClearRuns(h, gone)
      PROVE  key'[o][r] \in {key[o][r], None}
  BY <1>5 DEF ClearRuns, WithoutOrphans
<1>6. ASSUME NEW h \in Host, NEW p \in Owner, NEW q \in Request, ExpireKey(h, p, q)
      PROVE  key'[o][r] \in {key[o][r], None}
  BY <1>t, <1>6 DEF ExpireKey, TypeOK
<1>7. ASSUME \/ \E h \in Host : CloseBegin(h) \/ CloseEnd(h) \/ Die(h)
             \/ \E h \in Host, c \in Call, q \in Request \cup {None}, d \in Digest \cup {None} :
                  Start(h, c, q, d)
             \/ \E c \in Call :
                  \/ ThrowRejected(c) \/ ReturnDuplicate(c) \/ ThrowUnregistered(c)
                  \/ \E how \in {"value", "invalid", "throw"} : ActionSettles(c, how)
                  \/ TimerFires(c)
                  \/ \E reason \in {"cancel", "timeout"} : SignalAborts(c, reason)
                  \/ Cancel(c) \/ Settle(c) \/ Conclude(c)
             \/ UNCHANGED vars
      PROVE  UNCHANGED key
  BY <1>7 DEF CloseBegin, CloseEnd, Die, Start, StartRejected, StartUnkeyed, GateRead, Reserve,
              ThrowRejected, ReturnDuplicate, ThrowUnregistered, ActionSettles, TimerFires,
              SignalAborts, Cancel, Abort, Settle, Conclude, vars, dbVars
<1> QED
  BY <1>2, <1>3, <1>4, <1>5, <1>6, <1>7 DEF Next

LEMMA NextKeys == IInv /\ KeyInv /\ [Next]_vars => KeyInv'
<1> SUFFICES ASSUME IInv, KeyInv, [Next]_vars, NEW o \in Owner, NEW r \in Request,
                    key'[o][r] # None
             PROVE  MadeFor(key[o][r], o, r)'
  BY DEF KeyInv
<1>1. CASE key'[o][r] = key[o][r]
  <2>1. MadeFor(key[o][r], o, r)
    BY <1>1 DEF KeyInv
  <2> QED
    BY <1>1, <2>1, MadeOnce DEF MadeFor
<1> QED
  BY <1>1, KeyStep

\* What run k was made for it stays made for.
LEMMA StaysMade ==
    ASSUME IInv, [Next]_vars, NEW k, NEW o, NEW r, MadeFor(k, o, r)
    PROVE  MadeFor(k, o, r)' /\ digest'[k] = digest[k]
  BY MadeOnce DEF MadeFor

\* The variables of the gate of one call change in its start(), in its own gate
\* and with the death of its session alone.
LEMMA SeenStep ==
    ASSUME IInv, [Next]_vars, NEW x \in Call
    PROVE  \/ UNCHANGED <<pc[x], at[x], req[x], digest[x], seen[x]>>
           \/ \E h \in Host, r \in Request \cup {None}, d \in Digest \cup {None} : Start(h, x, r, d)
           \/ Gate(x)
           \/ pc'[x] \notin InGate /\ seen'[x] = None
           \/ pc[x] \notin InGate /\ pc'[x] \notin InGate /\ seen' = seen
<1>t. TypeOK
  BY DEF IInv, TypeInv
<1>1. ASSUME NEW h \in Host, Die(h)
      PROVE  \/ UNCHANGED <<pc[x], at[x], req[x], digest[x], seen[x]>>
             \/ pc'[x] \notin InGate /\ seen'[x] = None
  <2>1. UNCHANGED <<at, req, digest>>
    BY <1>1 DEF Die
  <2>2. CASE at[x] # h
    <3>1. pc'[x] = pc[x] /\ seen'[x] = seen[x]
      BY <1>t, <1>1, <2>2 DEF Die, TypeOK
    <3> QED
      BY <2>1, <3>1
  <2>3. CASE at[x] = h
    BY <1>t, <1>1, <2>3 DEF Die, TypeOK, InFlight, InGate
  <2> QED
    BY <2>2, <2>3
<1>2. ASSUME NEW h \in Host, NEW c \in Call, NEW r \in Request \cup {None},
             NEW d \in Digest \cup {None}, Start(h, c, r, d), x # c
      PROVE  UNCHANGED <<pc[x], at[x], req[x], digest[x], seen[x]>>
  BY <1>t, <1>2 DEF Start, StartRejected, StartUnkeyed, GateRead, Reserve, Called, TypeOK
<1>3. ASSUME NEW c \in Call, Gate(c), x # c
      PROVE  UNCHANGED <<pc[x], at[x], req[x], digest[x], seen[x]>>
  <2>1. /\ \E y : pc' = [pc EXCEPT ![c] = y]
        /\ \E y : seen' = [seen EXCEPT ![c] = y]
        /\ UNCHANGED <<at, req, digest>>
    BY <1>3, GateMoves
  <2> QED
    BY <1>t, <1>3, <2>1 DEF TypeOK
<1>4. ASSUME NEW c \in Call,
             \/ ThrowRejected(c) \/ ReturnDuplicate(c) \/ ThrowUnregistered(c)
             \/ FailMissing(c) \/ FailInvalid(c) \/ Register(c) \/ Settle(c) \/ Conclude(c)
      PROVE  \/ UNCHANGED <<pc[x], at[x], req[x], digest[x], seen[x]>>
             \/ pc[x] \notin InGate /\ pc'[x] \notin InGate /\ seen' = seen
  <2>1. /\ pc[c] \notin InGate /\ UNCHANGED idVars
        /\ \E p \in {"refused", "joined", "failed", "racing", "finalized", "ended"} :
              pc' = [pc EXCEPT ![c] = p]
    BY <1>4 DEF ThrowRejected, ReturnDuplicate, ThrowUnregistered, FailMissing, FailInvalid,
                Refuse, FailTicket, Register, Settle, Conclude, InGate
  <2> QED
    BY <1>t, <2>1 DEF idVars, InGate, TypeOK
<1>5. ASSUME \/ \E h \in Host : Open(h) \/ CloseBegin(h) \/ CloseEnd(h)
             \/ \E c \in Call :
                  \/ \E how \in {"value", "invalid", "throw"} : ActionSettles(c, how)
                  \/ TimerFires(c)
                  \/ \E reason \in {"cancel", "timeout"} : SignalAborts(c, reason)
                  \/ Cancel(c)
             \/ \E h \in Host, gone \in SUBSET Call : ClearRuns(h, gone)
             \/ \E h \in Host, o \in Owner, r \in Request : ExpireKey(h, o, r)
             \/ UNCHANGED vars
      PROVE  UNCHANGED <<pc, at, req, digest, seen>>
  BY <1>5 DEF Open, CloseBegin, CloseEnd, ActionSettles, TimerFires, SignalAborts, Cancel,
              Abort, ClearRuns, ExpireKey, vars, idVars
<1> QED
  BY <1>1, <1>2, <1>3, <1>4, <1>5 DEF Next

LEMMA NextSeen == IInv /\ KeyInv /\ SeenInv /\ [Next]_vars => SeenInv'
<1> SUFFICES ASSUME IInv, KeyInv, SeenInv, [Next]_vars, NEW x \in Call
             PROVE  SeenAt(x)'
  BY DEF SeenInv
<1>t. TypeOK
  BY DEF IInv, TypeInv
<1>s. SeenAt(x)
  BY DEF SeenInv
<1>k. PICK k, o, r : k = seen[x] /\ o = OwnerOf[at[x]] /\ r = req[x]
  OBVIOUS
<1>m. k # None => MadeFor(k, o, r) /\ MadeFor(k, o, r)' /\ digest'[k] = digest[k]
  BY <1>s, <1>k, StaysMade DEF SeenAt
<1>1. CASE UNCHANGED <<pc[x], at[x], req[x], digest[x], seen[x]>>
  BY <1>1, <1>s, <1>k, <1>m DEF SeenAt
<1>2. ASSUME NEW h \in Host, NEW q \in Request \cup {None}, NEW d \in Digest \cup {None},
             Start(h, x, q, d)
      PROVE  SeenAt(x)'
  <2>1. seen[x] = None
    BY <1>s, <1>2 DEF SeenAt, Start, StartRejected, StartUnkeyed, GateRead, Reserve, Called
  <2>2. CASE GateRead(h, x, q, d)
    <3>1. /\ at'[x] = h /\ req'[x] = q /\ q \in Request /\ OwnerOf[h] \in Owner
          /\ seen'[x] = key[OwnerOf[h]][q]
          /\ pc'[x] = IF key[OwnerOf[h]][q] = None THEN "insert" ELSE "check"
      BY <1>t, <2>2, OwnerAssumption DEF GateRead, Reserve, Called, TypeOK
    <3>2. PICK n : n = key[OwnerOf[h]][q]
      OBVIOUS
    <3>3. n # None => MadeFor(n, OwnerOf[h], q)
      BY <3>1, <3>2 DEF KeyInv
    <3>4. n # None => MadeFor(n, OwnerOf[h], q)'
      BY <3>3, StaysMade
    <3> QED
      BY <3>1, <3>2, <3>4 DEF SeenAt, InGate
  <2>3. CASE StartRejected(h, x, q, d) \/ StartUnkeyed(h, x, q, d)
    <3>1. pc'[x] \in {"refused", "resolving"} /\ seen'[x] = seen[x]
      BY <1>t, <2>3 DEF StartRejected, StartUnkeyed, Reserve, Called, TypeOK
    <3> QED
      BY <2>1, <3>1 DEF SeenAt, InGate
  <2> QED
    BY <1>2, <2>2, <2>3 DEF Start
<1>3. CASE Gate(x)
  <2>1. /\ pc[x] \in InGate /\ at'[x] = at[x] /\ req'[x] = req[x] /\ digest'[x] = digest[x]
    BY <1>3, GateMoves
  <2>2. PICK to \in {"replace", "get", "resolving", "rejected", "duplicate"} :
            /\ pc' = [pc EXCEPT ![x] = to]
            /\ seen' = [seen EXCEPT ![x] = IF to \in InGate THEN @ ELSE None]
    BY <1>3, GateMoves
  <2>3. pc'[x] = to /\ seen'[x] = IF to \in InGate THEN seen[x] ELSE None
    BY <1>t, <2>2 DEF TypeOK
  <2>4. CASE to \notin InGate
    BY <2>3, <2>4 DEF SeenAt, InGate
  <2>5. CASE to \in InGate
    <3>1. to \in {"replace", "get"}
      BY <2>2, <2>5 DEF InGate
    <3>2. pc[x] = "check" /\ (to = "get" => digest[seen[x]] = digest[x])
      BY <1>t, <1>3, <2>3, <3>1 DEF TypeOK, Gate, GateInsert, GateReplace, GateWriteFails,
            GateStale, GateConflict, GateDuplicate, Duplicate, GateGet, Record, GateGoes
    <3>3. k # None /\ seen'[x] = k
      BY <1>s, <1>k, <2>3, <2>5, <3>2 DEF SeenAt
    <3> QED
      BY <1>s, <1>k, <1>m, <2>1, <2>3, <3>1, <3>2, <3>3 DEF SeenAt, InGate
  <2> QED
    BY <2>4, <2>5
<1>4. CASE pc'[x] \notin InGate /\ seen'[x] = None
  BY <1>4 DEF SeenAt, InGate
<1>5. CASE pc[x] \notin InGate /\ pc'[x] \notin InGate /\ seen' = seen
  BY <1>5, <1>s DEF SeenAt, InGate
<1> QED
  BY <1>1, <1>2, <1>3, <1>4, <1>5, SeenStep

\* A call that is not made yet joins nothing.
LEMMA IdleJoinsNone ==
    ASSUME IInv, [Next]_vars, NEW x \in Call, pc[x] = "idle"
    PROVE  joined'[x] = joined[x]
<1>t. TypeOK
  BY DEF IInv, TypeInv
<1>1. ASSUME NEW c \in Call, Gate(c)
      PROVE  joined'[x] = joined[x]
  <2>1. x # c
    BY <1>1, GateMoves DEF InGate
  <2> QED
    BY <1>t, <1>1, <2>1, GateTells DEF TypeOK
<1>2. ASSUME \/ \E h \in Host : Open(h) \/ CloseBegin(h) \/ CloseEnd(h) \/ Die(h)
             \/ \E h \in Host, c \in Call, r \in Request \cup {None}, d \in Digest \cup {None} :
                  Start(h, c, r, d)
             \/ \E c \in Call :
                  \/ ThrowRejected(c) \/ ReturnDuplicate(c) \/ ThrowUnregistered(c)
                  \/ FailMissing(c) \/ FailInvalid(c) \/ Register(c)
                  \/ \E how \in {"value", "invalid", "throw"} : ActionSettles(c, how)
                  \/ TimerFires(c)
                  \/ \E reason \in {"cancel", "timeout"} : SignalAborts(c, reason)
                  \/ Cancel(c) \/ Settle(c) \/ Conclude(c)
             \/ \E h \in Host, gone \in SUBSET Call : ClearRuns(h, gone)
             \/ \E h \in Host, o \in Owner, r \in Request : ExpireKey(h, o, r)
             \/ UNCHANGED vars
      PROVE  UNCHANGED joined
  BY <1>2 DEF Open, CloseBegin, CloseEnd, Die, Start, StartRejected, StartUnkeyed, GateRead,
              Reserve, ThrowRejected, ReturnDuplicate, ThrowUnregistered,
              Refuse, FailMissing, FailInvalid, FailTicket, Register, ActionSettles, TimerFires,
              SignalAborts, Cancel, Abort, Settle, Conclude, ClearRuns, ExpireKey, vars, idVars
<1> QED
  BY <1>1, <1>2 DEF Next

\* A step by which a call becomes a duplicate is a statement of its gate.
LEMMA NextJoins == IInv /\ KeyInv /\ SeenInv /\ JoinInv /\ [Next]_vars => JoinInv'
<1> SUFFICES ASSUME IInv, KeyInv, SeenInv, JoinInv, [Next]_vars, NEW x \in Call
             PROVE  JoinAt(x)'
  BY DEF JoinInv
<1>t. TypeOK
  BY DEF IInv, TypeInv
<1>1. CASE pc[x] # "idle" /\ joined'[x] = joined[x]
  <2>1. JoinAt(x)
    BY DEF JoinInv
  <2>2. /\ pc'[x] # "idle" /\ at'[x] = at[x] /\ req'[x] = req[x]
        /\ digest'[x] = digest[x] /\ ToldOnce(x)
    BY <1>1, MadeOnce
  <2>3. CASE joined[x] = None
    BY <1>1, <2>3 DEF JoinAt
  <2>4. CASE joined[x] # None
    <3> DEFINE run == joined[x]
    <3>1. /\ at[x] \in Host /\ MadeFor(run, OwnerOf[at[x]], req[x])
          /\ digest[run] = digest[x]
          /\ result[x] \notin {"pending", "failed"} => result[run] = result[x]
      BY <2>1, <2>4 DEF JoinAt
    <3>2. run \in Call /\ pc[run] # "idle"
      BY <3>1 DEF MadeFor
    <3> HIDE DEF run
    <3>3. /\ pc'[run] # "idle" /\ at'[run] = at[run] /\ req'[run] = req[run]
          /\ digest'[run] = digest[run] /\ ToldOnce(run)
      BY <3>2, MadeOnce
    <3>4. result'[x] = result[x]
      BY <2>2, <2>4 DEF ToldOnce
    <3>5. result'[x] \notin {"pending", "failed"} => result'[run] = result'[x]
      BY <3>1, <3>3, <3>4 DEF ToldOnce
    <3>6. joined'[x] = run
      BY <1>1 DEF run
    <3> QED
      BY <2>2, <3>1, <3>2, <3>3, <3>5, <3>6 DEF JoinAt, MadeFor
  <2> QED
    BY <2>3, <2>4
<1>2. CASE Gate(x) /\ joined'[x] # joined[x]
  <2>1. joined[x] = None /\ Untold(x)
    BY <1>2, GateMoves DEF IInv, StoryInv, StoryAt
  <2>2. PICK run : run = seen[x]
    OBVIOUS
  <2>3. /\ run \in Rows(stored) /\ joined'[x] = run /\ digest[run] = digest[x]
        /\ \/ result'[x] \in {"pending", "failed"}
           \/ stored[run] \in Settled /\ result'[x] = stored[run]
    <3>1. SeenAt(x)
      BY DEF SeenInv
    <3>2. /\ run \in Rows(stored) /\ joined'[x] = run
          /\ (pc[x] = "check" /\ digest[run] = digest[x]) \/ pc[x] = "get"
          /\ \/ result'[x] = result[x]
             \/ result'[x] = IF stored[run] \in Settled THEN stored[run] ELSE "failed"
      BY <1>t, <1>2, <2>2, GateTells DEF TypeOK
    <3>3. digest[run] = digest[x]
      BY <2>2, <3>1, <3>2 DEF SeenAt
    <3> QED
      BY <2>1, <3>2, <3>3 DEF Untold
  <2>4. run \in Call /\ run # None
    BY <2>3, CallAssumption DEF Rows
  <2>5. MadeFor(run, OwnerOf[at[x]], req[x]) /\ at[x] \in Host
    BY <1>2, <2>2, <2>4, GateMoves DEF SeenInv, SeenAt
  <2>6. stored[run] \in Settled => result[run] = stored[run]
    BY <2>4 DEF IInv, StoryInv, StoryAt
  <2>7. /\ pc'[run] # "idle" /\ at'[run] = at[run] /\ req'[run] = req[run]
        /\ digest'[run] = digest[run] /\ ToldOnce(run)
    BY <2>4, <2>5, MadeOnce DEF MadeFor
  <2>8. result'[x] \notin {"pending", "failed"} => result'[run] = result'[x]
    BY <2>3, <2>6, <2>7 DEF ToldOnce, Settled
  <2>9. /\ pc'[x] # "idle" /\ at'[x] = at[x] /\ req'[x] = req[x] /\ digest'[x] = digest[x]
    BY <1>2, GateMoves, MadeOnce DEF InGate
  <2> QED
    BY <2>3, <2>5, <2>7, <2>8, <2>9 DEF JoinAt, MadeFor
<1>3. CASE pc[x] = "idle"
  <2>1. joined[x] = None
    BY <1>3 DEF IInv, StoryInv, StoryAt
  <2>2. joined'[x] = joined[x]
    BY <1>3, IdleJoinsNone
  <2> QED
    BY <2>1, <2>2 DEF JoinAt
<1> QED
  BY <1>1, <1>2, <1>3, MadeOnce

\* A duplicate joins a run made for the same scope, request and digest, and a
\* replayed answer other than a failure is the answer of that run.
THEOREM ReplaysAreSound == Spec => []ReplayIsSound
<1>1. Init => KeyInv /\ SeenInv /\ JoinInv
  BY DEF Init, KeyInv, SeenInv, SeenAt, InGate, JoinInv, JoinAt
<1>2. IInv /\ KeyInv /\ SeenInv /\ JoinInv /\ [Next]_vars => KeyInv' /\ SeenInv' /\ JoinInv'
  BY NextKeys, NextSeen, NextJoins
<1>3. JoinInv => ReplayIsSound
  BY DEF JoinInv, JoinAt, MadeFor, ReplayIsSound
<1> QED
  BY Invariance, <1>1, <1>2, <1>3, PTL DEF Spec

-----------------------------------------------------------------------------
(* Refinement of RunLifecycle *)

\* What the starter of a run was told, as the refinement maps it.
Told(c) == IF joined[c] = None THEN result[c] ELSE "pending"

\* A step takes one run along its lifecycle, or leaves its row and its answer.
Follows(c) ==
    \/ Lifecycle!Moves(c, stored'[c], Told(c)')
    \/ stored'[c] = stored[c] /\ Told(c)' = Told(c)

\* A run that is told nothing and whose row stays or is deleted follows.
LEMMA BystanderFollows ==
    ASSUME NEW c \in Call, joined'[c] = joined[c], result'[c] = result[c],
           \/ stored'[c] = stored[c]
           \/ stored'[c] = "deleted" /\ stored[c] \in Terminal \cup {"running"}
    PROVE  Follows(c)
  BY DEF Follows, Told, Lifecycle!Moves, Lifecycle!Present, Lifecycle!Answer, Terminal, Settled

LEMMA EveryRunFollows ==
    ASSUME IInv, [Next]_vars, NEW x \in Call
    PROVE  Follows(x)
<1>t. TypeOK
  BY DEF IInv, TypeInv
<1>s. StoryAt(x)
  BY DEF IInv, StoryInv
<1>1. CASE UNCHANGED <<joined, result, stored>>
  BY <1>1, BystanderFollows
<1>2. ASSUME NEW h \in Host, Open(h)
      PROVE  Follows(x)
  <2> DEFINE table == [c \in Call |-> IF c \in Orphans THEN "interrupted" ELSE stored[c]]
  <2>1. table \in [Call -> Statuses]
    BY <1>t DEF TypeOK, Statuses, Terminal, Settled
  <2>2. PICK gone \in SUBSET Call : CleanExpired(table, gone)
    BY <1>2 DEF Open
  <2>3. stored'[x] = table[x] \/ (stored'[x] = "deleted" /\ table[x] \in Terminal)
    BY <2>1, <2>2, CleanExpiredRows
  <2>4. joined'[x] = joined[x] /\ result'[x] = result[x]
    BY <1>2 DEF Open, idVars, outVars
  <2>5. CASE stored'[x] = "interrupted" /\ x \in Orphans
    BY <2>4, <2>5 DEF Orphans, Follows, Told, Lifecycle!Moves
  <2>6. CASE \/ stored'[x] = stored[x]
             \/ stored'[x] = "deleted" /\ stored[x] \in Terminal \cup {"running"}
    BY <2>4, <2>6, BystanderFollows
  <2> QED
    BY <2>3, <2>5, <2>6 DEF Orphans
<1>3. ASSUME NEW h \in Host, NEW c \in Call, NEW r \in Request \cup {None},
             NEW d \in Digest \cup {None}, Start(h, c, r, d)
      PROVE  Follows(x)
  BY <1>1, <1>3 DEF Start, StartRejected, StartUnkeyed, GateRead, Reserve, Called, outVars, dbVars
<1>9. ASSUME NEW c \in Call, Gate(c)
      PROVE  Follows(x)
  <2>1. stored' = stored /\ pc[c] \in InGate
    BY <1>9, GateMoves
  <2>2. CASE UNCHANGED <<joined, result>>
    BY <2>1, <2>2, BystanderFollows
  <2>3. CASE /\ joined' = [joined EXCEPT ![c] = seen[c]] /\ seen[c] \in Call
             /\ UNCHANGED result \/ \E y : result' = [result EXCEPT ![c] = y]
    <3>1. CASE x # c
      BY <1>t, <2>1, <2>3, <3>1, BystanderFollows DEF TypeOK
    <3>2. CASE x = c
      <4>1. joined'[x] = seen[x] /\ seen[x] # None
        BY <1>t, <2>3, <3>2, CallAssumption DEF TypeOK
      <4>2. Told(x) = "pending" /\ Told(x)' = "pending"
        BY <1>s, <2>1, <3>2, <4>1 DEF StoryAt, Untold, Told
      <4> QED
        BY <2>1, <4>2 DEF Follows
    <3> QED
      BY <3>1, <3>2
  <2> QED
    BY <1>9, <2>2, <2>3, GateTells DEF Rows
<1>4. ASSUME NEW c \in Call, FailMissing(c) \/ FailInvalid(c)
      PROVE  Follows(x)
  <2>1. /\ pc[c] = "resolving" /\ FailTicket(c)
        /\ CreateRun(c, "failed") \/ UNCHANGED stored
    BY <1>4 DEF FailMissing, FailInvalid, dbVars
  <2>2. result' = [result EXCEPT ![c] = "failed"] /\ UNCHANGED joined
    BY <2>1 DEF FailTicket, idVars
  <2>3. /\ stored'[c] = "failed" \/ stored'[c] = stored[c]
        /\ x # c => stored'[x] = stored[x] \/ (stored'[x] = "deleted" /\ stored[x] \in Terminal)
    <3>1. CASE CreateRun(c, "failed")
      BY <3>1, <1>t, CreateRunRows
    <3>2. CASE UNCHANGED stored
      BY <3>2
    <3> QED
      BY <2>1, <3>1, <3>2
  <2>4. CASE x # c
    BY <1>t, <2>2, <2>3, <2>4, BystanderFollows DEF TypeOK
  <2>5. CASE x = c
    <3>1. stored[c] = "none" /\ joined[c] = None /\ Told(c) = "pending"
      BY <1>s, <2>1, <2>5 DEF StoryAt, Untold, Told
    <3>2. Told(c)' = "failed"
      BY <1>t, <2>2, <3>1 DEF TypeOK, Told
    <3> QED
      BY <2>3, <2>5, <3>1, <3>2 DEF Follows, Told, Lifecycle!Moves
  <2> QED
    BY <2>4, <2>5
<1>5. ASSUME NEW c \in Call, Register(c)
      PROVE  Follows(x)
  <2>1. /\ pc[c] = "resolving" /\ CreateRun(c, "running")
        /\ UNCHANGED <<joined, result>>
    BY <1>5 DEF Register, idVars
  <2>2. /\ stored'[c] = "running"
        /\ x # c => stored'[x] = stored[x] \/ (stored'[x] = "deleted" /\ stored[x] \in Terminal)
    BY <2>1, <1>t, CreateRunRows
  <2>3. CASE x # c
    BY <2>1, <2>2, <2>3, BystanderFollows
  <2>4. CASE x = c
    BY <1>s, <2>1, <2>2, <2>4 DEF StoryAt, Follows, Told, Lifecycle!Moves
  <2> QED
    BY <2>3, <2>4
<1>6. ASSUME NEW c \in Call, Settle(c)
      PROVE  Follows(x)
  <2>1. /\ pc[c] = "racing" /\ UNCHANGED joined
        /\ \/ /\ UpdateRun(c, StatusOf(c))
              /\ result' = [result EXCEPT ![c] = StatusOf(c)]
           \/ /\ result' = [result EXCEPT ![c] = "failed"]
              /\ UNCHANGED stored
    BY <1>6 DEF Settle, idVars
  <2>2. CASE x # c
    <3>1. stored'[x] = stored[x] /\ result'[x] = result[x]
      BY <1>t, <2>1, <2>2 DEF TypeOK, UpdateRun
    <3> QED
      BY <2>1, <3>1, BystanderFollows
  <2>3. CASE x = c
    <3>1. stored[c] \in {"running", "deleted"} /\ joined[c] = None /\ Told(c) = "pending"
      BY <1>s, <2>1, <2>3 DEF StoryAt, Untold, Told
    <3>2. StorageOpen(at[c]) /\ StatusOf(c) \in Settled
      BY <2>1, StatusOfType DEF IInv, PlaceInv
    <3>3. \/ /\ Told(c)' = StatusOf(c)
             /\ stored'[c] = IF stored[c] = "running" THEN StatusOf(c) ELSE "deleted"
          \/ Told(c)' = "failed" /\ stored'[c] = stored[c]
      BY <1>t, <2>1, <3>1, <3>2 DEF TypeOK, UpdateRun, Told
    <3> QED
      BY <2>3, <3>1, <3>2, <3>3
         DEF Follows, Told, Lifecycle!Moves, Lifecycle!Answer, Settled
  <2> QED
    BY <2>2, <2>3
<1>7. ASSUME NEW h \in Host, NEW gone \in SUBSET Call, ClearRuns(h, gone)
      PROVE  Follows(x)
  <2>1. stored'[x] = stored[x] \/ (stored'[x] = "deleted" /\ stored[x] \in Terminal \cup {"running"})
    BY <1>7 DEF ClearRuns, Deleted, Rows
  <2> QED
    BY <1>7, <2>1, BystanderFollows DEF ClearRuns, idVars, outVars
<1>8. ASSUME \/ \E h \in Host : CloseBegin(h) \/ CloseEnd(h) \/ Die(h)
             \/ \E c \in Call :
                  \/ ThrowRejected(c) \/ ReturnDuplicate(c) \/ ThrowUnregistered(c)
                  \/ \E how \in {"value", "invalid", "throw"} : ActionSettles(c, how)
                  \/ TimerFires(c)
                  \/ \E reason \in {"cancel", "timeout"} : SignalAborts(c, reason)
                  \/ Cancel(c) \/ Conclude(c)
             \/ \E h \in Host, o \in Owner, r \in Request : ExpireKey(h, o, r)
             \/ UNCHANGED vars
      PROVE  UNCHANGED <<joined, result, stored>>
  BY <1>8 DEF CloseBegin, CloseEnd, Die, ThrowRejected, ReturnDuplicate, ThrowUnregistered,
              Refuse, ActionSettles, TimerFires, SignalAborts, Cancel, Abort, Conclude,
              ExpireKey, vars, idVars, outVars, dbVars
<1> QED
  BY <1>1, <1>2, <1>3, <1>4, <1>5, <1>6, <1>7, <1>8, <1>9 DEF Next

\* The service implements RunLifecycle: whatever the hosts do to the rows and
\* the answers of any number of runs, each run reaches one terminal status and
\* keeps it until its row is deleted, in agreement with what its caller was told.
THEOREM RunsFollowTheirLifecycle == Spec => RefinesLifecycle
<1>1. Init => Lifecycle!Init
  BY DEF Init, Lifecycle!Init
<1>2. IInv /\ [Next]_vars => [Lifecycle!Next]_Lifecycle!vars
  BY EveryRunFollows DEF Follows, Told, Lifecycle!Next
<1> QED
  BY Invariance, <1>1, <1>2, PTL DEF Spec, RefinesLifecycle, Lifecycle!Spec
=============================================================================
