------------------------- MODULE ProcessManagerProofs -------------------------
(***************************************************************************)
(* Theorems about ProcessManager, for any number of starts and requests    *)
(* and any quota.                                                          *)
(***************************************************************************)
EXTENDS ProcessManager, TLAPS, FiniteSetTheorems

-----------------------------------------------------------------------------
(* The inductive invariant *)

\* A call that was made knows its request.
MadeInv == \A c \in Call : pc[c] # "idle" => req[c] \in [id : Request, payload : Payload]

\* Stages at which start() has its reservation to settle.
Working == {"lookup", "saving", "spawning", "aborting", "updating", "cancelling", "failing",
            "recording"}

\* The record, the spawn and the child of a call.
RecordAt(c) ==
    /\ pc[c] \in {"idle", "init", "joined", "lookup"} => state[c] = "absent"
    /\ state[c] = "absent" => spawn[c] = "none" /\ ~handle[c]
    /\ pc[c] \in {"saving", "spawning"} => ~handle[c] /\ state[c] # "absent"
    /\ pc[c] = "saving" => spawn[c] = "none" /\ state[c] \in Active
    /\ pc[c] = "spawning" /\ os[c] = "alive" => state[c] \in Active
    /\ pc[c] = "spawning" => spawn[c] \in {"done", "threw"}
    /\ spawn[c] \in {"none", "threw"} <=> os[c] = "none"
    /\ os[c] = "exited" => state[c] \in Ended
    /\ state[c] = "running" =>
          pc[c] \in {"updating", "recording", "returned"} /\ os[c] # "none"

\* The termination of a child: SIGKILL ends every one that was begun.
TerminationAt(c) ==
    /\ term[c] = "killed" => killed[c]
    /\ pc[c] = "aborting" /\ os[c] = "alive" => term[c] # "none" \/ killed[c]
    /\ os[c] = "alive" =>
          \/ state[c] \in Active
          \/ spawn[c] = "done" /\ ~handle[c]
          \/ term[c] # "none" \/ killed[c]

\* The timers of a process that runs and has a limit.
TimerAt(c) ==
    state[c] = "running" /\ pc[c] # "updating" /\ shutdown # "done" /\ IsLimited(c)
        => timer[c]

ProcessInv == \A c \in Call : RecordAt(c) /\ TerminationAt(c) /\ TimerAt(c)

\* A reservation is held by the one call that works on its request, until that
\* call settles it or shutdown() rejects all.
HolderInv ==
    \A r \in Request : reserved[r] # None =>
        pc[reserved[r]] \in Working /\ req[reserved[r]].id = r

HeldInv ==
    \A c \in Call : pc[c] \in Working => reserved[req[c].id] = c \/ shutdown = "done"

SoleInv ==
    \A c, d \in Call :
        pc[c] \in Working /\ pc[d] \in Working /\ req[c].id = req[d].id => c = d

ReservedInv == HolderInv /\ HeldInv /\ SoleInv

\* Process k was recorded for the request of call c, with its payload.
IsReceipt(k, c) ==
    /\ pc[c] # "idle" /\ recorded[req[c].id] = k
    /\ req[k].payload = req[c].payload

\* A receipt is written once, and is what every answer to its request says.
ReceiptInv ==
    /\ \A r \in Request : recorded[r] # None =>
          pc[recorded[r]] # "idle" /\ req[recorded[r]].id = r
    /\ \A c \in Call :
          /\ pc[c] \in Working \ {"lookup"} => recorded[req[c].id] = None
          /\ settled[c] \in Call => IsReceipt(settled[c], c)
          /\ answer[c] \in Call => IsReceipt(answer[c], c)

\* A call that joined another one made the same request and will be served.
JoinInv ==
    \A c \in Call : pc[c] = "joined" =>
        /\ owner[c] \in Call /\ pc[owner[c]] # "idle"
        /\ req[owner[c]].id = req[c].id /\ req[owner[c]].payload = req[c].payload
        /\ reserved[req[c].id] = owner[c] \/ settled[owner[c]] # "none"

IInv == TypeOK /\ MadeInv /\ ProcessInv /\ ReservedInv /\ ReceiptInv /\ JoinInv

-----------------------------------------------------------------------------
(* Type correctness *)

Labels == {"idle", "init", "joined", "lookup", "saving", "spawning", "aborting", "updating",
           "cancelling", "failing", "recording", "returned"}

\* What start() returns has the type of an answer, and moves the call.
LEMMA ReturnType ==
    ASSUME TypeOK, NEW c \in Call, NEW value \in Call \cup {"none", "error"}, Return(c, value)
    PROVE  pc' \in [Call -> Labels] /\ answer' \in [Call -> Call \cup {"none", "error"}]
  BY DEF TypeOK, Return, Goto, Answer, Labels

\* Settling a reservation keeps the table and what it was settled with typed.
LEMMA SettleType ==
    ASSUME TypeOK, NEW c \in Call, NEW value \in Call \cup {"error"}, Settle(c, value)
    PROVE  /\ reserved' \in [Request -> Call \cup {None}]
           /\ settled' \in [Call -> Call \cup {"none", "error"}]
<1>1. reserved' \in [Request -> Call \cup {None}]
  BY DEF TypeOK, Settle
<1>2. settled' \in [Call -> Call \cup {"none", "error"}]
  BY DEF TypeOK, Settle
<1> QED
  BY <1>1, <1>2

\* A catch block gives a record without a final state one.
LEMMA CatchType ==
    ASSUME TypeOK, NEW c \in Call, NEW label \in {"cancelling", "failing"}, NEW final \in Ended,
           Catch(c, label, final)
    PROVE  pc' \in [Call -> Labels] /\ state' \in [Call -> {"absent"} \cup Active \cup Ended]
<1>1. pc' \in [Call -> Labels]
  BY DEF TypeOK, Catch, Goto, Labels
<1>2. state' \in [Call -> {"absent"} \cup Active \cup Ended]
  BY DEF TypeOK, Catch
<1> QED
  BY <1>1, <1>2

LEMMA NextType == TypeOK /\ MadeInv /\ JoinInv /\ [Next]_vars => TypeOK'
<1> SUFFICES ASSUME TypeOK, MadeInv, JoinInv, [Next]_vars
             PROVE  TypeOK'
  OBVIOUS
<1> USE CallAssumption, AsksAssumption
    DEF TypeOK, MadeInv, callVars, tableVars, recordVars, driverVars, shutVars, Goto, Answer, Return,
        Settle, Catch, End, StartTermination, StopBegins, Ended, Active
<1>1. ASSUME NEW c \in Call, NEW request \in Asks[c], Begin(c, request)
      PROVE  TypeOK'
  BY <1>1 DEF Begin
<1>2. ASSUME NEW c \in Call, Reserve(c)
      PROVE  TypeOK'
  <2>1. pc' \in [Call -> Labels]
    BY <1>2 DEF Reserve, Labels
  <2>2. answer' \in [Call -> Call \cup {"none", "error"}]
    BY <1>2 DEF Reserve
  <2>3. reserved' \in [Request -> Call \cup {None}]
    BY <1>2 DEF Reserve
  <2>4. owner' \in [Call -> Call \cup {None}]
    <3>1. reserved[req[c].id] \in Call \cup {None}
      BY <1>2 DEF Reserve
    <3> QED
      BY <1>2, <3>1 DEF Reserve
  <2> QED
    BY <1>2, <2>1, <2>2, <2>3, <2>4 DEF Reserve, Labels
<1>3. ASSUME NEW c \in Call, JoinReturns(c)
      PROVE  TypeOK'
  <2>1. settled[owner[c]] \in Call \cup {"none", "error"}
    BY <1>3 DEF JoinReturns, JoinInv
  <2>2. Return(c, settled[owner[c]])
    BY <1>3 DEF JoinReturns
  <2> QED
    BY <1>3, <2>1, <2>2, ReturnType DEF JoinReturns, Labels
<1>4. ASSUME NEW c \in Call, Lookup(c)
      PROVE  TypeOK'
  <2> DEFINE known == recorded[req[c].id]
  <2>0. req[c].id \in Request /\ known \in Call \cup {None}
    BY <1>4 DEF Lookup
  <2>1. ASSUME NEW value \in Call \cup {"error"}, Settle(c, value), Return(c, value),
               UNCHANGED state
        PROVE  TypeOK'
    BY <1>4, <2>1, ReturnType, SettleType DEF Lookup, Labels
  <2>2. CASE state' = [state EXCEPT ![c] = "starting"] /\ Goto(c, "saving")
                /\ UNCHANGED <<answer, reserved, settled>>
    BY <1>4, <2>2 DEF Lookup
  <2> QED
    BY <1>4, <2>0, <2>1, <2>2 DEF Lookup
<1>5. ASSUME NEW c \in Call, Saved(c)
      PROVE  TypeOK'
  <2>1. pc' \in [Call -> Labels]
    BY <1>5 DEF Saved, Labels
  <2>2. state' \in [Call -> {"absent"} \cup Active \cup Ended]
    BY <1>5 DEF Saved
  <2>3. timer' \in [Call -> BOOLEAN]
    BY <1>5 DEF Saved
  <2>4. spawn' \in [Call -> {"none", "done", "threw", "reaped"}]
    BY <1>5 DEF Saved
  <2>5. os' \in [Call -> {"none", "alive", "stillborn", "exited"}]
    BY <1>5 DEF Saved
  <2> QED
    BY <1>5, <2>1, <2>2, <2>3, <2>4, <2>5 DEF Saved, Labels
<1>6. ASSUME NEW c \in Call, SpawnReturns(c)
      PROVE  TypeOK'
  <2>1. pc' \in [Call -> Labels]
    BY <1>6 DEF SpawnReturns, Labels
  <2>2. state' \in [Call -> {"absent"} \cup Active \cup Ended]
    BY <1>6 DEF SpawnReturns
  <2>3. term' \in [Call -> {"none", "grace", "killed"}]
    BY <1>6 DEF SpawnReturns
  <2> QED
    BY <1>6, <2>1, <2>2, <2>3 DEF SpawnReturns, Labels
<1>7. ASSUME NEW c \in Call, SpawnThrows(c)
      PROVE  TypeOK'
  <2>1. \E label \in {"cancelling", "failing"}, final \in Ended : Catch(c, label, final)
    BY <1>7 DEF SpawnThrows
  <2> QED
    BY <1>7, <2>1, CatchType DEF SpawnThrows, Labels
<1>8. ASSUME NEW c \in Call, TimerFires(c)
      PROVE  TypeOK'
  <2>1. timer' \in [Call -> BOOLEAN] /\ stopping' \in [Call -> BOOLEAN]
    BY <1>8 DEF TimerFires
  <2>2. state' \in [Call -> {"absent"} \cup Active \cup Ended]
    BY <1>8 DEF TimerFires
  <2> QED
    BY <1>8, <2>1, <2>2 DEF TimerFires
<1>9. ASSUME NEW c \in Call, ShutdownStops(c)
      PROVE  TypeOK'
  <2>1. timer' \in [Call -> BOOLEAN] /\ target' \in Call \cup {None}
    BY <1>9 DEF ShutdownStops
  <2>2. state' \in [Call -> {"absent"} \cup Active \cup Ended]
    BY <1>9 DEF ShutdownStops
  <2> QED
    BY <1>9, <2>1, <2>2 DEF ShutdownStops
<1>10. ASSUME NEW c \in Call,
             \/ Abort(c) \/ Updated(c) \/ ReapAbandoned(c) \/ OwnerStops(c)
             \/ StopPersisted(c) \/ Kill(c) \/ TerminationEnds(c)
      PROVE  TypeOK'
  <2>1. CASE Abort(c)
    BY <2>1 DEF Abort
  <2>2. CASE Updated(c)
    BY <2>2 DEF Updated, IsLimited
  <2>3. CASE ReapAbandoned(c)
    BY <2>3 DEF ReapAbandoned
  <2>4. CASE OwnerStops(c)
    BY <2>4 DEF OwnerStops
  <2>5. CASE StopPersisted(c)
    BY <2>5 DEF StopPersisted
  <2>6. CASE Kill(c)
    BY <2>6 DEF Kill
  <2>7. CASE TerminationEnds(c)
    BY <2>7 DEF TerminationEnds
  <2> QED
    BY <1>10, <2>1, <2>2, <2>3, <2>4, <2>5, <2>6, <2>7
<1>11. ASSUME NEW c \in Call,
             \/ Terminated(c) \/ AbandonSpawn(c)
      PROVE  TypeOK'
  BY <1>11 DEF Terminated, AbandonSpawn
<1>12. ASSUME NEW c \in Call,
             \/ Recorded(c) \/ Throw(c)
      PROVE  TypeOK'
  <2>1. CASE Recorded(c)
    BY <2>1 DEF Recorded
  <2>2. CASE Throw(c)
    BY <2>2 DEF Throw
  <2> QED
    BY <1>12, <2>1, <2>2
<1>13. ASSUME NEW c \in Call,
             \/ ChildFails(c) \/ ProcessExits(c)
      PROVE  TypeOK'
  <2>1. CASE ChildFails(c)
    BY <2>1 DEF ChildFails
  <2>2. CASE ProcessExits(c)
    BY <2>2 DEF ProcessExits
  <2> QED
    BY <1>13, <2>1, <2>2
<1>14. CASE \/ ShutdownBegins \/ ShutdownTerminates \/ ShutdownStopped \/ ShutdownEnds
          \/ UNCHANGED vars
  <2>1. CASE ShutdownBegins
    BY <2>1 DEF ShutdownBegins
  <2>2. CASE ShutdownTerminates
    BY <2>2 DEF ShutdownTerminates
  <2>3. CASE ShutdownStopped
    BY <2>3 DEF ShutdownStopped
  <2>4. CASE ShutdownEnds
    BY <2>4 DEF ShutdownEnds
  <2>5. CASE UNCHANGED vars
    BY <2>5 DEF vars
  <2> QED
    BY <1>14, <2>1, <2>2, <2>3, <2>4, <2>5
<1> QED
  BY <1>1, <1>2, <1>3, <1>4, <1>5, <1>6, <1>7, <1>8, <1>9, <1>10, <1>11, <1>12, <1>13,
     <1>14 DEF Next, StartStep

-----------------------------------------------------------------------------
(* Preservation *)

\* Seen from the reservations and receipts, the steps between the lookup and
\* the receipt are alike, and so are those of the driver, the timers and stop().
InnerStep(c) ==
    /\ pc[c] \in Working \ {"lookup"}
    /\ \E label \in Working \ {"lookup"} : Goto(c, label)
    /\ UNCHANGED <<req, owner, answer, tableVars, shutdown>>

OtherStep ==
    /\ UNCHANGED <<pc, req, owner, answer, tableVars>>
    /\ shutdown' = "done" <=> shutdown = "done"
    /\ shutdown' = "no" => shutdown = "no"

LEMMA StartSteps ==
    ASSUME IInv, [Next]_vars
    PROVE  \/ \E c \in Call : \E request \in Asks[c] : Begin(c, request)
           \/ \E c \in Call :
                \/ Reserve(c) \/ JoinReturns(c) \/ Lookup(c) \/ InnerStep(c)
                \/ Recorded(c) \/ Throw(c)
           \/ ShutdownEnds
           \/ OtherStep
<1>1. ASSUME NEW c \in Call,
             \/ Saved(c) \/ SpawnReturns(c) \/ SpawnThrows(c) \/ Terminated(c) \/ Updated(c)
             \/ AbandonSpawn(c)
      PROVE  InnerStep(c)
  BY <1>1 DEF Saved, SpawnReturns, SpawnThrows, Terminated, Updated, AbandonSpawn, Catch,
              InnerStep, Working, callVars, shutVars
<1>2. ASSUME \/ \E c \in Call :
                  \/ Abort(c) \/ ReapAbandoned(c) \/ OwnerStops(c) \/ TimerFires(c)
                  \/ StopPersisted(c) \/ ShutdownStops(c) \/ ChildFails(c)
                  \/ ProcessExits(c) \/ Kill(c) \/ TerminationEnds(c)
             \/ ShutdownBegins \/ ShutdownTerminates \/ ShutdownStopped
             \/ UNCHANGED vars
      PROVE  OtherStep
  BY <1>2 DEF Abort, ReapAbandoned, OwnerStops, TimerFires, StopPersisted, ShutdownStops,
              ChildFails, ProcessExits, Kill, TerminationEnds, ShutdownBegins,
              ShutdownTerminates, ShutdownStopped, vars, OtherStep, callVars, shutVars
<1> QED
  BY <1>1, <1>2 DEF Next, StartStep

LEMMA NextMade == IInv /\ [Next]_vars => MadeInv'
<1> SUFFICES ASSUME IInv, [Next]_vars
             PROVE  MadeInv'
  OBVIOUS
<1> USE DEF IInv, TypeOK, MadeInv, callVars, Goto, Return
<1>1. ASSUME NEW c \in Call, NEW request \in Asks[c], Begin(c, request)
      PROVE  MadeInv'
  BY <1>1, AsksAssumption DEF Begin
<1>2. ASSUME NEW c \in Call,
             \/ Reserve(c) \/ JoinReturns(c) \/ Lookup(c) \/ InnerStep(c)
             \/ Recorded(c) \/ Throw(c)
      PROVE  MadeInv'
  BY <1>2 DEF Reserve, JoinReturns, Lookup, InnerStep, Recorded, Throw, Working
<1>3. CASE ShutdownEnds \/ OtherStep
  BY <1>3 DEF ShutdownEnds, OtherStep
<1> QED
  BY <1>1, <1>2, <1>3, StartSteps

LEMMA NextRecord == IInv /\ [Next]_vars => \A x \in Call : RecordAt(x)'
<1> SUFFICES ASSUME IInv, [Next]_vars, NEW x \in Call
             PROVE  RecordAt(x)'
  OBVIOUS
<1> USE DEF TypeOK, callVars, tableVars, recordVars, driverVars, shutVars, Goto, Answer, Return,
        Settle, Catch, End, StartTermination, StopBegins, Ended, Active,
        RecordAt, ProcessInv, IInv
<1>1. ASSUME NEW c \in Call, NEW request \in Asks[c], Begin(c, request)
      PROVE  RecordAt(x)'
  BY <1>1 DEF Begin
<1>2. ASSUME NEW c \in Call,
             \/ Reserve(c) \/ JoinReturns(c)
      PROVE  RecordAt(x)'
  BY <1>2 DEF Reserve, JoinReturns
<1>3. ASSUME NEW c \in Call, Lookup(c)
      PROVE  RecordAt(x)'
  <2>1. CASE x # c
    BY <1>3, <2>1 DEF Lookup
  <2>2. CASE x = c
    BY <1>3, <2>2 DEF Lookup
  <2> QED
    BY <2>1, <2>2
<1>4. ASSUME NEW c \in Call, Saved(c)
      PROVE  RecordAt(x)'
  BY <1>4 DEF Saved
<1>5. ASSUME NEW c \in Call, SpawnReturns(c)
      PROVE  RecordAt(x)'
  BY <1>5 DEF SpawnReturns
<1>6. ASSUME NEW c \in Call,
             \/ SpawnThrows(c) \/ Terminated(c) \/ AbandonSpawn(c)
      PROVE  RecordAt(x)'
  BY <1>6 DEF SpawnThrows, Terminated, AbandonSpawn
<1>7. ASSUME NEW c \in Call,
             \/ Updated(c) \/ Recorded(c) \/ Throw(c)
      PROVE  RecordAt(x)'
  BY <1>7 DEF Updated, Recorded, Throw
<1>8. ASSUME NEW c \in Call, ReapAbandoned(c)
      PROVE  RecordAt(x)'
  BY <1>8 DEF ReapAbandoned
<1>9. ASSUME NEW c \in Call,
             \/ OwnerStops(c) \/ TimerFires(c) \/ ShutdownStops(c)
      PROVE  RecordAt(x)'
  BY <1>9 DEF OwnerStops, TimerFires, ShutdownStops
<1>10. ASSUME NEW c \in Call,
             \/ ChildFails(c) \/ ProcessExits(c)
      PROVE  RecordAt(x)'
  BY <1>10 DEF ChildFails, ProcessExits
<1>11. ASSUME \/ \E c \in Call :
                  \/ Abort(c) \/ StopPersisted(c) \/ Kill(c) \/ TerminationEnds(c)
             \/ ShutdownBegins \/ ShutdownTerminates \/ ShutdownStopped \/ ShutdownEnds \/ UNCHANGED vars
      PROVE  UNCHANGED <<pc, state, handle, spawn, os>>
  BY <1>11 DEF Abort, StopPersisted, Kill, TerminationEnds, ShutdownBegins, ShutdownTerminates,
             ShutdownStopped, ShutdownEnds, vars
<1>12. CASE UNCHANGED <<pc, state, handle, spawn, os>>
  BY <1>12
<1> QED
  BY <1>1, <1>2, <1>3, <1>4, <1>5, <1>6, <1>7, <1>8, <1>9, <1>10, <1>11, <1>12 DEF Next, StartStep

LEMMA NextTermination == IInv /\ [Next]_vars => \A x \in Call : TerminationAt(x)'
<1> SUFFICES ASSUME IInv, [Next]_vars, NEW x \in Call
             PROVE  TerminationAt(x)'
  OBVIOUS
<1> USE DEF TypeOK, callVars, tableVars, recordVars, driverVars, shutVars, Goto, Answer, Return,
        Settle, Catch, End, StartTermination, StopBegins, Ended, Active,
        RecordAt, TerminationAt, ProcessInv, IInv
<1>1. ASSUME NEW c \in Call, NEW request \in Asks[c], Begin(c, request)
      PROVE  TerminationAt(x)'
  BY <1>1 DEF Begin
<1>2. ASSUME NEW c \in Call,
             \/ Reserve(c) \/ JoinReturns(c) \/ Lookup(c)
      PROVE  TerminationAt(x)'
  BY <1>2 DEF Reserve, JoinReturns, Lookup
<1>3. ASSUME NEW c \in Call, Saved(c)
      PROVE  TerminationAt(x)'
  BY <1>3 DEF Saved
<1>4. ASSUME NEW c \in Call, SpawnReturns(c)
      PROVE  TerminationAt(x)'
  <2>1. CASE x # c
    BY <1>4, <2>1 DEF SpawnReturns
  <2>2. CASE x = c
    BY <1>4, <2>2 DEF SpawnReturns
  <2> QED
    BY <2>1, <2>2
<1>5. ASSUME NEW c \in Call,
             \/ SpawnThrows(c) \/ Terminated(c) \/ AbandonSpawn(c)
      PROVE  TerminationAt(x)'
  BY <1>5 DEF SpawnThrows, Terminated, AbandonSpawn
<1>6. ASSUME NEW c \in Call,
             \/ Updated(c) \/ Recorded(c) \/ Throw(c)
      PROVE  TerminationAt(x)'
  BY <1>6 DEF Updated, Recorded, Throw
<1>7. ASSUME NEW c \in Call,
             \/ ReapAbandoned(c) \/ StopPersisted(c)
      PROVE  TerminationAt(x)'
  BY <1>7 DEF ReapAbandoned, StopPersisted
<1>8. ASSUME NEW c \in Call,
             \/ OwnerStops(c) \/ TimerFires(c) \/ ShutdownStops(c)
      PROVE  TerminationAt(x)'
  BY <1>8 DEF OwnerStops, TimerFires, ShutdownStops
<1>9. ASSUME NEW c \in Call, ChildFails(c)
      PROVE  TerminationAt(x)'
  BY <1>9 DEF ChildFails
<1>10. ASSUME NEW c \in Call, ProcessExits(c)
      PROVE  TerminationAt(x)'
  BY <1>10 DEF ProcessExits
<1>11. ASSUME NEW c \in Call,
             \/ Kill(c) \/ TerminationEnds(c)
      PROVE  TerminationAt(x)'
  BY <1>11 DEF Kill, TerminationEnds
<1>12. ASSUME \/ \E c \in Call :
                  \/ Abort(c)
             \/ ShutdownBegins \/ ShutdownStopped \/ ShutdownEnds \/ UNCHANGED vars
      PROVE  UNCHANGED <<pc, state, handle, spawn, os, term, killed>>
  BY <1>12 DEF Abort, ShutdownBegins, ShutdownStopped, ShutdownEnds, vars
<1>13. CASE ShutdownTerminates
  BY <1>13 DEF ShutdownTerminates
<1>14. CASE UNCHANGED <<pc, state, handle, spawn, os, term, killed>>
  BY <1>14
<1> QED
  BY <1>1, <1>2, <1>3, <1>4, <1>5, <1>6, <1>7, <1>8, <1>9, <1>10, <1>11, <1>12, <1>13,
     <1>14 DEF Next, StartStep

LEMMA NextTimer == IInv /\ [Next]_vars => \A x \in Call : TimerAt(x)'
<1> SUFFICES ASSUME IInv, [Next]_vars, NEW x \in Call
             PROVE  TimerAt(x)'
  OBVIOUS
<1> USE DEF TypeOK, callVars, tableVars, recordVars, driverVars, shutVars, Goto, Answer, Return,
        Settle, Catch, End, StartTermination, StopBegins, Ended, Active,
        RecordAt, TimerAt, IsLimited, ProcessInv, IInv
<1>1. ASSUME NEW c \in Call, NEW request \in Asks[c], Begin(c, request)
      PROVE  TimerAt(x)'
  BY <1>1 DEF Begin
<1>2. ASSUME NEW c \in Call,
             \/ Reserve(c) \/ JoinReturns(c) \/ Lookup(c)
      PROVE  TimerAt(x)'
  BY <1>2 DEF Reserve, JoinReturns, Lookup
<1>3. ASSUME NEW c \in Call, Saved(c)
      PROVE  TimerAt(x)'
  BY <1>3 DEF Saved
<1>4. ASSUME NEW c \in Call, SpawnReturns(c)
      PROVE  TimerAt(x)'
  BY <1>4 DEF SpawnReturns
<1>5. ASSUME NEW c \in Call,
             \/ SpawnThrows(c) \/ Terminated(c) \/ AbandonSpawn(c)
      PROVE  TimerAt(x)'
  BY <1>5 DEF SpawnThrows, Terminated, AbandonSpawn
<1>6. ASSUME NEW c \in Call, Updated(c)
      PROVE  TimerAt(x)'
  BY <1>6 DEF Updated
<1>7. ASSUME NEW c \in Call,
             \/ Recorded(c) \/ Throw(c)
      PROVE  TimerAt(x)'
  BY <1>7 DEF Recorded, Throw
<1>8. ASSUME NEW c \in Call,
             \/ OwnerStops(c) \/ TimerFires(c)
      PROVE  TimerAt(x)'
  BY <1>8 DEF OwnerStops, TimerFires
<1>9. ASSUME NEW c \in Call, ShutdownStops(c)
      PROVE  TimerAt(x)'
  BY <1>9 DEF ShutdownStops
<1>10. ASSUME NEW c \in Call,
             \/ ChildFails(c) \/ ProcessExits(c)
      PROVE  TimerAt(x)'
  BY <1>10 DEF ChildFails, ProcessExits
<1>11. ASSUME \/ \E c \in Call :
                  \/ Abort(c) \/ StopPersisted(c) \/ Kill(c) \/ TerminationEnds(c)
                  \/ ReapAbandoned(c)
             \/ ShutdownBegins \/ ShutdownTerminates \/ ShutdownStopped \/ UNCHANGED vars
      PROVE  UNCHANGED <<pc, req, state, timer>> /\ (shutdown = "done" => shutdown' = "done")
  BY <1>11 DEF Abort, StopPersisted, Kill, TerminationEnds, ReapAbandoned, ShutdownBegins,
             ShutdownTerminates, ShutdownStopped, vars
<1>12. CASE ShutdownEnds
  BY <1>12 DEF ShutdownEnds
<1>13. CASE UNCHANGED <<pc, req, state, timer>> /\ (shutdown = "done" => shutdown' = "done")
  BY <1>13
<1> QED
  BY <1>1, <1>2, <1>3, <1>4, <1>5, <1>6, <1>7, <1>8, <1>9, <1>10, <1>11, <1>12, <1>13 DEF Next, StartStep

LEMMA NextReserved == IInv /\ [Next]_vars => ReservedInv'
<1> SUFFICES ASSUME IInv, [Next]_vars
             PROVE  ReservedInv'
  OBVIOUS
<1> USE CallAssumption, AsksAssumption
    DEF TypeOK, callVars, tableVars, shutVars, Goto, Answer, Return, Settle, Working, IInv, MadeInv, ReservedInv, HolderInv, HeldInv, SoleInv
<1>1. ASSUME NEW c \in Call, NEW request \in Asks[c], Begin(c, request)
      PROVE  ReservedInv'
  <2>1. HolderInv'
    BY <1>1 DEF Begin
  <2>2. HeldInv'
    BY <1>1 DEF Begin
  <2>3. SoleInv'
    BY <1>1 DEF Begin
  <2> QED
    BY <2>1, <2>2, <2>3
<1>2. ASSUME NEW c \in Call, Reserve(c)
      PROVE  ReservedInv'
  <2>1. HolderInv'
    BY <1>2 DEF Reserve
  <2>2. HeldInv'
    BY <1>2 DEF Reserve
  <2>3. SoleInv'
    BY <1>2 DEF Reserve
  <2> QED
    BY <2>1, <2>2, <2>3
<1>3. ASSUME NEW c \in Call, JoinReturns(c)
      PROVE  ReservedInv'
  <2>1. HolderInv'
    BY <1>3 DEF JoinReturns
  <2>2. HeldInv'
    BY <1>3 DEF JoinReturns
  <2>3. SoleInv'
    BY <1>3 DEF JoinReturns
  <2> QED
    BY <2>1, <2>2, <2>3
<1>4. ASSUME NEW c \in Call, Lookup(c)
      PROVE  ReservedInv'
  <2>1. HolderInv'
    BY <1>4 DEF Lookup
  <2>2. HeldInv'
    BY <1>4 DEF Lookup
  <2>3. SoleInv'
    BY <1>4 DEF Lookup
  <2> QED
    BY <2>1, <2>2, <2>3
<1>5. ASSUME NEW c \in Call, InnerStep(c)
      PROVE  ReservedInv'
  <2>1. HolderInv'
    BY <1>5 DEF InnerStep
  <2>2. HeldInv'
    BY <1>5 DEF InnerStep
  <2>3. SoleInv'
    BY <1>5 DEF InnerStep
  <2> QED
    BY <2>1, <2>2, <2>3
<1>6. ASSUME NEW c \in Call, Recorded(c)
      PROVE  ReservedInv'
  <2>1. HolderInv'
    BY <1>6 DEF Recorded
  <2>2. HeldInv'
    BY <1>6 DEF Recorded
  <2>3. SoleInv'
    BY <1>6 DEF Recorded
  <2> QED
    BY <2>1, <2>2, <2>3
<1>7. ASSUME NEW c \in Call, Throw(c)
      PROVE  ReservedInv'
  <2>1. HolderInv'
    BY <1>7 DEF Throw
  <2>2. HeldInv'
    BY <1>7 DEF Throw
  <2>3. SoleInv'
    BY <1>7 DEF Throw
  <2> QED
    BY <2>1, <2>2, <2>3
<1>8. CASE ShutdownEnds
  <2>1. HolderInv'
    BY <1>8 DEF ShutdownEnds
  <2>2. HeldInv'
    BY <1>8 DEF ShutdownEnds
  <2>3. SoleInv'
    BY <1>8 DEF ShutdownEnds
  <2> QED
    BY <2>1, <2>2, <2>3
<1>9. CASE OtherStep
  <2>1. HolderInv'
    BY <1>9 DEF OtherStep
  <2>2. HeldInv'
    BY <1>9 DEF OtherStep
  <2>3. SoleInv'
    BY <1>9 DEF OtherStep
  <2> QED
    BY <2>1, <2>2, <2>3
<1> QED
  BY <1>1, <1>2, <1>3, <1>4, <1>5, <1>6, <1>7, <1>8, <1>9, StartSteps

LEMMA NextReceipt == IInv /\ [Next]_vars => ReceiptInv'
<1> SUFFICES ASSUME IInv, [Next]_vars
             PROVE  ReceiptInv'
  OBVIOUS
<1> USE CallAssumption, AsksAssumption
    DEF TypeOK, callVars, tableVars, shutVars, Goto, Answer, Return, Settle, Working, IInv, MadeInv, ReservedInv, HolderInv, HeldInv, SoleInv, ReceiptInv, JoinInv, IsReceipt
<1>1. ASSUME NEW c \in Call, NEW request \in Asks[c], Begin(c, request)
      PROVE  ReceiptInv'
  BY <1>1 DEF Begin
<1>2. ASSUME NEW c \in Call, Reserve(c)
      PROVE  ReceiptInv'
  BY <1>2 DEF Reserve
<1>3. ASSUME NEW c \in Call, JoinReturns(c)
      PROVE  ReceiptInv'
  BY <1>3 DEF JoinReturns
<1>4. ASSUME NEW c \in Call, Lookup(c)
      PROVE  ReceiptInv'
  BY <1>4 DEF Lookup
<1>5. ASSUME NEW c \in Call, InnerStep(c)
      PROVE  ReceiptInv'
  BY <1>5 DEF InnerStep
<1>6. ASSUME NEW c \in Call, Recorded(c)
      PROVE  ReceiptInv'
  BY <1>6 DEF Recorded
<1>7. ASSUME NEW c \in Call, Throw(c)
      PROVE  ReceiptInv'
  BY <1>7 DEF Throw
<1>8. CASE ShutdownEnds
  BY <1>8 DEF ShutdownEnds
<1>9. CASE OtherStep
  BY <1>9 DEF OtherStep
<1> QED
  BY <1>1, <1>2, <1>3, <1>4, <1>5, <1>6, <1>7, <1>8, <1>9, StartSteps

LEMMA NextJoin == IInv /\ [Next]_vars => JoinInv'
<1> SUFFICES ASSUME IInv, [Next]_vars
             PROVE  JoinInv'
  OBVIOUS
<1> USE CallAssumption, AsksAssumption
    DEF TypeOK, callVars, tableVars, shutVars, Goto, Answer, Return, Settle, Working, IInv, MadeInv, ReservedInv, HolderInv, HeldInv, SoleInv, ReceiptInv, JoinInv
<1>1. ASSUME NEW c \in Call, NEW request \in Asks[c], Begin(c, request)
      PROVE  JoinInv'
  BY <1>1 DEF Begin
<1>2. ASSUME NEW c \in Call, Reserve(c)
      PROVE  JoinInv'
  BY <1>2 DEF Reserve
<1>3. ASSUME NEW c \in Call, JoinReturns(c)
      PROVE  JoinInv'
  BY <1>3 DEF JoinReturns
<1>4. ASSUME NEW c \in Call, Lookup(c)
      PROVE  JoinInv'
  BY <1>4 DEF Lookup
<1>5. ASSUME NEW c \in Call, InnerStep(c)
      PROVE  JoinInv'
  BY <1>5 DEF InnerStep
<1>6. ASSUME NEW c \in Call, Recorded(c)
      PROVE  JoinInv'
  BY <1>6 DEF Recorded
<1>7. ASSUME NEW c \in Call, Throw(c)
      PROVE  JoinInv'
  BY <1>7 DEF Throw
<1>8. CASE ShutdownEnds
  BY <1>8 DEF ShutdownEnds
<1>9. CASE OtherStep
  BY <1>9 DEF OtherStep
<1> QED
  BY <1>1, <1>2, <1>3, <1>4, <1>5, <1>6, <1>7, <1>8, <1>9, StartSteps

LEMMA InitInvariant == Init => IInv
<1> SUFFICES ASSUME Init
             PROVE  IInv
  OBVIOUS
<1> USE CallAssumption DEF Init
<1>1. TypeOK
  BY DEF TypeOK
<1>2. MadeInv
  BY DEF MadeInv
<1>3. ProcessInv
  BY DEF ProcessInv, RecordAt, TerminationAt, TimerAt, Active, Ended
<1>4. ReservedInv
  BY DEF ReservedInv, HolderInv, HeldInv, SoleInv, Working
<1>5. ReceiptInv
  BY DEF ReceiptInv, Working
<1>6. JoinInv
  BY DEF JoinInv
<1> QED
  BY <1>1, <1>2, <1>3, <1>4, <1>5, <1>6 DEF IInv

LEMMA Invariance == Spec => []IInv
<1>1. IInv /\ [Next]_vars => IInv'
  <2> SUFFICES ASSUME IInv, [Next]_vars
               PROVE  IInv'
    OBVIOUS
  <2>1. TypeOK' /\ MadeInv' /\ ReservedInv' /\ ReceiptInv' /\ JoinInv'
    BY NextType, NextMade, NextReserved, NextReceipt, NextJoin DEF IInv
  <2>2. ProcessInv'
    BY NextRecord, NextTermination, NextTimer DEF ProcessInv
  <2> QED
    BY <2>1, <2>2 DEF IInv
<1> QED
  BY InitInvariant, <1>1, PTL DEF Spec

-----------------------------------------------------------------------------
(* Theorems *)

\* The record of a process tells the truth: what is said to run has a child that
\* has not exited, and if it was given a limit above zero, a timer that bounds its
\* life is armed until shutdown().
THEOREM RecordsAreTrue == Spec => []RecordIsTrue
<1>1. IInv => RecordIsTrue
  <2> SUFFICES ASSUME IInv
               PROVE  RecordIsTrue
    OBVIOUS
  <2>1. RunningIsAlive
    BY DEF IInv, ProcessInv, RecordAt, RunningIsAlive, TypeOK, Ended
  <2>2. RunningIsBounded
    BY DEF IInv, ProcessInv, TimerAt, RunningIsBounded
  <2> QED
    BY <2>1, <2>2 DEF IInv, RecordIsTrue
<1> QED
  BY Invariance, <1>1, PTL

\* A child that is alive has a record that has not ended, or its start has yet
\* to deal with it, or it is being terminated, or was sent SIGKILL.
THEOREM NoChildIsForgotten == Spec => []NoOrphan
<1>1. IInv => NoOrphan
  BY DEF IInv, ProcessInv, TerminationAt, NoOrphan
<1> QED
  BY Invariance, <1>1, PTL

\* A request that is sent again gets the process of the first start of it that
\* succeeded, however the starts interleave with each other and with shutdown().
THEOREM RequestsAreServedOnce == Spec => []OneProcessPerRequest
<1>1. IInv => OneProcessPerRequest
  BY DEF IInv, ReceiptInv, IsReceipt, OneProcessPerRequest
<1> QED
  BY Invariance, <1>1, PTL

\* A call that joined another one finds its reservation in the table or settled.
THEOREM JoinedCallsAreServed == Spec => []JoinedIsServed
<1>1. IInv => JoinedIsServed
  BY DEF IInv, JoinInv, JoinedIsServed
<1> QED
  BY Invariance, <1>1, PTL

-----------------------------------------------------------------------------
(* The quota *)

Processes == {c \in Call : state[c] \in Active}

\* Only a start that passed the check adds to the processes that count.
LEMMA ProcessesGrow ==
    ASSUME IInv, [Next]_vars
    PROVE  \/ Processes' \subseteq Processes
           \/ \E c \in Call : Processes' \subseteq Processes \cup {c} /\ WithinQuota
<1> USE DEF IInv, TypeOK, Processes, Active, Ended, recordVars
<1>1. ASSUME NEW c \in Call, Lookup(c)
      PROVE  \/ Processes' \subseteq Processes
             \/ Processes' \subseteq Processes \cup {c} /\ WithinQuota
  BY <1>1 DEF Lookup
<1>2. ASSUME NEW c \in Call,
             \/ Saved(c) \/ SpawnThrows(c) \/ Terminated(c) \/ AbandonSpawn(c)
      PROVE  Processes' \subseteq Processes
  BY <1>2 DEF Saved, SpawnThrows, Terminated, AbandonSpawn, Catch, End
<1>3. ASSUME NEW c \in Call, SpawnReturns(c)
      PROVE  Processes' \subseteq Processes
  BY <1>3 DEF SpawnReturns
<1>4. ASSUME NEW c \in Call,
             \/ OwnerStops(c) \/ TimerFires(c) \/ ShutdownStops(c)
             \/ ChildFails(c) \/ ProcessExits(c)
      PROVE  Processes' \subseteq Processes
  BY <1>4 DEF OwnerStops, TimerFires, ShutdownStops, StopBegins, ChildFails, ProcessExits, End
<1>5. ASSUME \/ \E c \in Call :
                  \/ \E request \in Asks[c] : Begin(c, request)
                  \/ Abort(c) \/ Reserve(c) \/ JoinReturns(c) \/ Updated(c) \/ Recorded(c)
                  \/ Throw(c) \/ ReapAbandoned(c) \/ StopPersisted(c) \/ Kill(c)
                  \/ TerminationEnds(c)
             \/ ShutdownBegins \/ ShutdownTerminates \/ ShutdownStopped \/ ShutdownEnds
             \/ UNCHANGED vars
      PROVE  UNCHANGED state
  BY <1>5 DEF Begin, Abort, Reserve, JoinReturns, Updated, Recorded, Throw, ReapAbandoned,
              StopPersisted, Kill, TerminationEnds, ShutdownBegins, ShutdownTerminates,
              ShutdownStopped, ShutdownEnds, vars
<1> QED
  BY <1>1, <1>2, <1>3, <1>4, <1>5 DEF Next, StartStep

\* Starting, running and stopping processes never exceed the quota, whatever
\* starts run at the same time.
THEOREM QuotaIsKept == Spec => []QuotaHolds
<1>1. Init => QuotaHolds
  <2> SUFFICES ASSUME Init
               PROVE  QuotaHolds
    OBVIOUS
  <2>1. {c \in Call : state[c] \in Active} = {}
    BY DEF Init, Active
  <2> QED
    BY <2>1, FS_EmptySet, MaxActiveAssumption DEF QuotaHolds
<1>2. IInv /\ QuotaHolds /\ [Next]_vars => QuotaHolds'
  <2> SUFFICES ASSUME IInv, QuotaHolds, [Next]_vars
               PROVE  Cardinality(Processes') <= MaxActive
    BY DEF QuotaHolds, Processes
  <2>1. IsFiniteSet(Processes) /\ Cardinality(Processes) \in Nat
    BY CallAssumption, FS_Subset, FS_CardinalityType DEF Processes
  <2>2. CASE Processes' \subseteq Processes
    BY <2>1, <2>2, FS_Subset, FS_CardinalityType, MaxActiveAssumption DEF QuotaHolds, Processes
  <2>3. ASSUME NEW c \in Call, Processes' \subseteq Processes \cup {c}, WithinQuota
        PROVE  Cardinality(Processes') <= MaxActive
    <3>1. Cardinality(Processes) < MaxActive
      BY <2>3 DEF WithinQuota, ActiveCount, Processes
    <3>2. /\ IsFiniteSet(Processes \cup {c})
          /\ Cardinality(Processes \cup {c}) \in Nat
          /\ Cardinality(Processes \cup {c}) <= Cardinality(Processes) + 1
      <4> HIDE DEF Processes
      <4>1. /\ IsFiniteSet(Processes \cup {c})
            /\ \/ Cardinality(Processes \cup {c}) = Cardinality(Processes)
               \/ Cardinality(Processes \cup {c}) = Cardinality(Processes) + 1
        BY <2>1, FS_AddElement
      <4> QED
        BY <2>1, <4>1
    <3>3. Cardinality(Processes') \in Nat /\ Cardinality(Processes') <= Cardinality(Processes \cup {c})
      BY <2>3, <3>2, FS_Subset, FS_CardinalityType
    <3> QED
      BY <2>1, <3>1, <3>2, <3>3, MaxActiveAssumption
  <2> QED
    BY <2>2, <2>3, ProcessesGrow
<1> QED
  BY Invariance, <1>1, <1>2, PTL DEF Spec
=============================================================================
