-------------------------- MODULE HostLifecycleProofs --------------------------
(***************************************************************************)
(* What HostLifecycle promises, proved for any packages, actions, calls    *)
(* and attempts to initialise: what is in use is held, and the sub-runs of *)
(* a root are counted.                                                     *)
(***************************************************************************)
EXTENDS HostLifecycle, FiniteSetTheorems, TLAPS

-----------------------------------------------------------------------------
(* The inductive invariant *)

\* A call that was made has a root that was made; one that waits for the
\* initialisation is its own.
MadeInv ==
  \A c \in Calls :
    /\ call[c].at \notin {"no", "refused"} =>
          call[c].root \in Calls /\ call[call[c].root].at # "no"
    /\ call[c].at = "initialising" => call[c].root = c
    /\ call[c].at \in InFlight => call[c].target \in Runtimes

Ready == \E t \in Tasks : task[t].at = "ready"

\* A task that may still open something, or has, holds the lock; one that rolls
\* back closes what is registered, and has closed it before it goes on.
TaskInv ==
  /\ initialized => Ready
  /\ ~lazy /\ closing # "no" => Ready
  /\ \A t \in Tasks :
       /\ task[t].at \in {"loading", "warming", "doomed", "ready"} /\ closing # "done" => lock
       /\ task[t].at \in {"rollback", "targets", "failed"} =>
             \A r \in registered : runtime[r].closer # Nobody
       /\ task[t].at = "targets" => RuntimesClosedBy(t) /\ registered = {}

\* close() goes through the runtimes once.
ClosingInv ==
  /\ closing \notin {"no", "preparations"} /\ ~lazy =>
       \A r \in registered : runtime[r].closer # Nobody
  /\ closing \in {"targets", "done"} =>
       RuntimesClosedBy(HostClose) /\ (~lazy => registered = {})
  /\ closing # "no" => closed

\* A runtime is closed once, by whom the state of that one says, and closing
\* it ends what was opened; a service that takes runs has its storages.
RuntimeAt(r) ==
  /\ (~lazy \/ closing = "no") /\ runtime[r].storage # "none" => r \in registered \/ runtime[r].closer # Nobody
  /\ runtime[r].closer = HostClose => closing \notin {"no", "preparations"}
  /\ runtime[r].closer \in Tasks => task[runtime[r].closer].at \in {"rollback", "targets", "failed"}
  /\ runtime[r].shutting # "no" <=> runtime[r].closer # Nobody
  /\ runtime[r].shutting \in {"service", "done"} =>
        runtime[r].storage # "opening" /\ runtime[r].service \notin {"building", "ready"}
  /\ runtime[r].shutting = "done" => runtime[r].storage # "open"
  /\ runtime[r].service = "ready" => runtime[r].storage = "open" /\ (closing # "done" => global)
  /\ runtime[r].service # "none" => Ready
RuntimeInv == \A r \in Runtimes : RuntimeAt(r)

\* A call in flight was let in by an initialised host; its runtime is
\* registered, then closed by close(), which waits for the run.
CallAt(c) ==
  /\ call[c].at = "initialising" /\ call[c].task = Nobody => Ready
  /\ call[c].at = "ended" => Ready
  /\ call[c].at \in InFlight =>
       /\ Ready
       /\ closing \in {"no", "preparations"} => call[c].target \in registered
       /\ closing \notin {"no", "preparations"} =>
             call[c].at # "preparing" /\ runtime[call[c].target].closer = HostClose
  /\ call[c].at = "running" =>
       /\ closing \notin {"targets", "done"}
       /\ runtime[call[c].target].storage = "open" /\ global
       /\ runtime[call[c].target].shutting # "done"
CallInv == \A c \in Calls : CallAt(c)

Covered ==
  /\ TaskInv /\ ClosingInv /\ RuntimeInv /\ CallInv
  /\ StorageUnderLock
FactoryInv == ~lazy => NotRetried

IInv == TypeOK /\ MadeInv /\ FactoryInv /\ (NotRetried => Covered)

-----------------------------------------------------------------------------
(* Type correctness *)

TaskState == [at : {"no", "loading", "warming", "doomed", "ready", "rollback", "targets", "failed"},
              warms : SUBSET Runtimes]
RuntimeState == [closer : Tasks \cup {Nobody, HostClose},
                 storage : {"none", "opening", "open", "shut"},
                 service : {"none", "building", "ready", "shut"},
                 shutting : {"no", "pending", "service", "done"}]
CallState == [at : {"no", "initialising", "preparing", "opening", "running", "ended", "aborted", "refused"},
              root : Calls \cup {Nobody}, stack : SUBSET Actions,
              target : Runtimes \cup {Nobody}, task : Tasks \cup {Nobody}]

FlagsOK ==
  /\ lazy \in BOOLEAN
  /\ closed \in BOOLEAN /\ initialized \in BOOLEAN /\ lock \in BOOLEAN /\ global \in BOOLEAN
  /\ initPromise \in Tasks \cup {Nobody}
  /\ closing \in {"no", "preparations", "runtimes", "targets", "done"}
RegisteredOK ==
  registered \subseteq Runtimes /\ \A r1, r2 \in registered : r1[1] = r2[1] => r1 = r2

LEMMA TypeParts ==
  TypeOK <=> /\ FlagsOK /\ RegisteredOK
             /\ task \in [Tasks -> TaskState] /\ runtime \in [Runtimes -> RuntimeState]
             /\ call \in [Calls -> CallState] /\ subRuns \in [Calls -> 0..MaxSubRuns]
  BY DEF TypeOK, FlagsOK, RegisteredOK, TaskState, RuntimeState, CallState

LEMMA NextTypeParts ==
  TypeOK' <=> /\ FlagsOK' /\ RegisteredOK'
              /\ task' \in [Tasks -> TaskState] /\ runtime' \in [Runtimes -> RuntimeState]
              /\ call' \in [Calls -> CallState] /\ subRuns' \in [Calls -> 0..MaxSubRuns]
  BY DEF TypeOK, FlagsOK, RegisteredOK, TaskState, RuntimeState, CallState

\* Closing runtimes gives them their closer.
LEMMA CloseRuntimesType ==
  ASSUME TypeOK, NEW who \in Tasks \cup {HostClose}
  PROVE  CloseRuntimes(who) \in [Runtimes -> RuntimeState]
<1>1. runtime \in [Runtimes -> RuntimeState]
  BY TypeParts
<1>2. ASSUME NEW r \in Runtimes
      PROVE  [runtime[r] EXCEPT !.closer = who, !.shutting = "pending"] \in RuntimeState
  BY <1>1 DEF RuntimeState
<1> QED
  BY <1>1, <1>2 DEF CloseRuntimes

\* A call that is answered gives back its slot, if it has one.
LEMMA SettleType ==
  ASSUME TypeOK, NEW c \in Calls, NEW how \in {"refused", "ended", "aborted"}, Settle(c, how)
  PROVE  call' \in [Calls -> CallState] /\ subRuns' \in [Calls -> 0..MaxSubRuns]
<1>1. /\ call \in [Calls -> CallState] /\ subRuns \in [Calls -> 0..MaxSubRuns]
      /\ call[c].root \in Calls \cup {Nobody} /\ MaxSubRuns \in Nat
  BY TypeParts, HostAssumption DEF CallState
<1>2. call' \in [Calls -> CallState]
  BY <1>1 DEF Settle, CallState
<1>3. ASSUME NEW root \in Calls
      PROVE  Released(root) \in [Calls -> 0..MaxSubRuns]
  BY <1>1 DEF Released
<1> QED
  BY <1>1, <1>2, <1>3 DEF Settle, IsChild

LEMMA BeginRollbackType ==
  ASSUME TypeOK, NEW t \in Tasks, BeginRollback(t)
  PROVE  task' \in [Tasks -> TaskState] /\ runtime' \in [Runtimes -> RuntimeState] /\ initialized' = FALSE
<1>1. task \in [Tasks -> TaskState]
  BY TypeParts
<1> QED
  BY <1>1, CloseRuntimesType DEF BeginRollback, TaskState

\* Explicit packages get a runtime of the task; none of them had one.
LEMMA BeginInitType ==
  ASSUME TypeOK, NEW t \in Tasks, BeginInit(t)
  PROVE  /\ FlagsOK' /\ RegisteredOK'
         /\ task' \in [Tasks -> TaskState] /\ runtime' \in [Runtimes -> RuntimeState]
<1>1. /\ FlagsOK /\ RegisteredOK
      /\ task \in [Tasks -> TaskState] /\ runtime \in [Runtimes -> RuntimeState]
  BY TypeParts
<1>2. CASE BeginRollback(t) /\ lock' \in {lock, TRUE} /\ UNCHANGED registered
  BY <1>1, <1>2, BeginRollbackType DEF FlagsOK, RegisteredOK, BeginInit
<1>3. CASE /\ lock' = TRUE
           /\ \A r \in registered : r[1] \notin Explicit
           /\ registered' = registered \cup Explicit \X {t}
           /\ task' = [task EXCEPT ![t].at = "loading"]
           /\ UNCHANGED <<initialized, runtime>>
  <2>1. FlagsOK'
    BY <1>1, <1>3 DEF FlagsOK, BeginInit
  <2>2. RegisteredOK'
    BY <1>1, <1>3 DEF RegisteredOK, Runtimes
  <2>3. task' \in [Tasks -> TaskState] /\ runtime' \in [Runtimes -> RuntimeState]
    BY <1>1, <1>3 DEF TaskState
  <2> QED
    BY <2>1, <2>2, <2>3
<1> QED
  BY <1>2, <1>3 DEF BeginInit

LEMMA NextType == TypeOK /\ MadeInv /\ [Next]_vars => TypeOK'
<1> SUFFICES ASSUME TypeOK, MadeInv, [Next]_vars
             PROVE  TypeOK'
  OBVIOUS
<1> USE NextTypeParts DEF hostVars
<1>0. /\ FlagsOK /\ RegisteredOK
      /\ task \in [Tasks -> TaskState] /\ runtime \in [Runtimes -> RuntimeState]
      /\ call \in [Calls -> CallState] /\ subRuns \in [Calls -> 0..MaxSubRuns]
  BY TypeParts
<1>1. CASE Create
  BY <1>0, <1>1, BeginInitType DEF Create
<1>2. CASE Close \/ CloseTargets \/ CloseEnds \/ GlobalConfig
  BY <1>0, <1>2 DEF Close, CloseTargets, CloseEnds, GlobalConfig, FlagsOK, RegisteredOK
<1>3. CASE ClosePreparations
  BY <1>0, <1>3, CloseRuntimesType DEF ClosePreparations, FlagsOK, RegisteredOK
<1>4. ASSUME NEW t \in Tasks, Load(t)
      PROVE  TypeOK'
  <2> DEFINE all == registered \cup {r \in Linked \X {t} : \A s \in registered : s[1] # r[1]}
  <2>1. RegisteredOK' /\ all \subseteq Runtimes
    BY <1>0, <1>4 DEF Load, RegisteredOK, Runtimes
  <2>2. task' \in [Tasks -> TaskState]
    BY <1>0, <1>4, <2>1 DEF Load, TaskState
  <2>3. runtime' \in [Runtimes -> RuntimeState]
    <3>1. ASSUME NEW r \in Runtimes
          PROVE  [runtime[r] EXCEPT !.storage = "opening"] \in RuntimeState
      BY <1>0 DEF RuntimeState
    <3> QED
      BY <1>0, <1>4, <3>1 DEF Load
  <2> QED
    BY <1>0, <1>4, <2>1, <2>2, <2>3 DEF Load, FlagsOK
<1>5. ASSUME NEW t \in Tasks, Warmed(t) \/ RollbackTargets(t) \/ RollbackEnds(t)
      PROVE  TypeOK'
  <2>1. task' \in [Tasks -> TaskState]
    BY <1>0, <1>5 DEF Warmed, RollbackTargets, RollbackEnds, TaskState
  <2> QED
    BY <1>0, <1>5, <2>1 DEF Warmed, RollbackTargets, RollbackEnds, FlagsOK, RegisteredOK
<1>6. ASSUME NEW t \in Tasks, InitFails(t)
      PROVE  TypeOK'
  BY <1>0, <1>6, BeginRollbackType DEF InitFails, FlagsOK, RegisteredOK
<1>7. ASSUME NEW r \in Runtimes, OpenStorage(r) \/ BuildService(r) \/ StopService(r) \/ ShutStorage(r)
      PROVE  TypeOK'
  <2>1. runtime' \in [Runtimes -> RuntimeState]
    BY <1>0, <1>7 DEF OpenStorage, BuildService, StopService, ShutStorage, RuntimeState
  <2> QED
    BY <1>0, <1>7, <2>1 DEF OpenStorage, BuildService, StopService, ShutStorage, FlagsOK, RegisteredOK
<1>8. ASSUME NEW c \in Calls, Resume(c)
      PROVE  TypeOK'
  <2>1. call' \in [Calls -> CallState]
    BY <1>0, <1>8 DEF Resume, Targets, RegisteredOK, CallState
  <2> QED
    BY <1>0, <1>8, <2>1 DEF Resume, FlagsOK, RegisteredOK
<1>9. ASSUME NEW c \in Calls, PreparationFails(c) \/ RunEnds(c) \/ RunIsCut(c)
      PROVE  TypeOK'
  BY <1>0, <1>9, SettleType DEF PreparationFails, RunEnds, RunIsCut, FlagsOK, RegisteredOK
<1>10. ASSUME NEW c \in Calls, Prepared(c)
       PROVE  TypeOK'
  <2>1. runtime' \in [Runtimes -> RuntimeState]
    BY <1>0, <1>10 DEF Prepared, RuntimeState
  <2>2. call' \in [Calls -> CallState] /\ subRuns' \in [Calls -> 0..MaxSubRuns]
    BY <1>0, <1>10, SettleType DEF Prepared, CallState
  <2> QED
    BY <1>0, <1>10, <2>1, <2>2 DEF Prepared, FlagsOK, RegisteredOK
<1>11. ASSUME NEW c \in Calls, StartRun(c)
       PROVE  TypeOK'
  <2>1. call' \in [Calls -> CallState] /\ subRuns' \in [Calls -> 0..MaxSubRuns]
    BY <1>0, <1>11, SettleType DEF StartRun, CallState
  <2> QED
    BY <1>0, <1>11, <2>1 DEF StartRun, FlagsOK, RegisteredOK
<1>12. ASSUME NEW c \in Calls, NEW a \in Actions, Start(c, a)
       PROVE  TypeOK'
  <2>1. call' \in [Calls -> CallState]
    BY <1>0, <1>12 DEF Start, CallState, FlagsOK
  <2>2. CASE UNCHANGED <<hostVars, global, runtime>>
    BY <1>0, <1>12, <2>1, <2>2 DEF Start, FlagsOK, RegisteredOK
  <2>3. CASE \E t \in Tasks : BeginInit(t)
    BY <1>0, <1>12, <2>1, <2>3, BeginInitType DEF Start
  <2> QED
    BY <1>12, <2>2, <2>3 DEF Start
<1>13. ASSUME NEW c \in Calls, NEW d \in Calls, NEW a \in Actions, Invoke(c, d, a)
       PROVE  TypeOK'
  <2>1. call[c].root \in Calls
    BY <1>13 DEF Invoke, MadeInv
  <2>2. call' \in [Calls -> CallState]
    BY <1>0, <1>13, <2>1 DEF Invoke, Targets, RegisteredOK, CallState
  <2>3. subRuns' \in [Calls -> 0..MaxSubRuns]
    BY <1>0, <1>13, <2>1, HostAssumption DEF Invoke, WithinQuota
  <2> QED
    BY <1>0, <1>13, <2>2, <2>3 DEF Invoke, FlagsOK, RegisteredOK
<1>14. CASE UNCHANGED vars
  BY <1>0, <1>14 DEF vars, FlagsOK, RegisteredOK
<1> QED
  BY <1>1, <1>2, <1>3, <1>4, <1>5, <1>6, <1>7, <1>8, <1>9, <1>10, <1>11, <1>12, <1>13, <1>14
     DEF Next

-----------------------------------------------------------------------------
(* Calls and their roots *)

\* A call moves on: refused before it was in flight, let in, or one await
\* further.
Moves(c) ==
  /\ \/ /\ call[c].at = "initialising"
        /\ \/ call' = [call EXCEPT ![c].at = "refused"]
           \/ \E r \in Runtimes : call' = [call EXCEPT ![c].at = "preparing", ![c].target = r]
     \/ call[c].at = "preparing" /\ call' = [call EXCEPT ![c].at = "opening"]
     \/ call[c].at = "opening" /\ call' = [call EXCEPT ![c].at = "running"]
  /\ UNCHANGED subRuns
Settles(c) == call[c].at \in InFlight /\ \E how \in {"refused", "ended", "aborted"} : Settle(c, how)
Begins(c) ==
  /\ Fresh(c)
  /\ \/ call' = [call EXCEPT ![c].at = "refused"]
     \/ \E a \in Actions, t \in Tasks \cup {Nobody} :
           /\ t = Nobody => initialized
           /\ call' = [call EXCEPT ![c] = [at |-> "initialising", root |-> c, stack |-> {a},
                                           target |-> Nobody, task |-> t]]
  /\ UNCHANGED subRuns

LEMMA CallSteps ==
  ASSUME TypeOK, [Next]_vars
  PROVE  \/ UNCHANGED <<call, subRuns>>
         \/ \E c \in Calls : Moves(c) \/ Settles(c) \/ Begins(c)
         \/ \E c, d \in Calls, a \in Actions : Invoke(c, d, a)
<1>0. registered \subseteq Runtimes /\ initPromise \in Tasks \cup {Nobody}
  BY DEF TypeOK
<1>1. ASSUME \/ Create \/ Close \/ ClosePreparations \/ CloseTargets \/ CloseEnds \/ GlobalConfig
             \/ UNCHANGED vars
      PROVE  UNCHANGED <<call, subRuns>>
  BY <1>1 DEF Create, Close, ClosePreparations, CloseTargets, CloseEnds, GlobalConfig, vars
<1>2. ASSUME NEW t \in Tasks,
             Load(t) \/ Warmed(t) \/ InitFails(t) \/ RollbackTargets(t) \/ RollbackEnds(t)
      PROVE  UNCHANGED <<call, subRuns>>
  BY <1>2 DEF Load, Warmed, InitFails, RollbackTargets, RollbackEnds
<1>3. ASSUME NEW r \in Runtimes, OpenStorage(r) \/ BuildService(r) \/ StopService(r) \/ ShutStorage(r)
      PROVE  UNCHANGED <<call, subRuns>>
  BY <1>3 DEF OpenStorage, BuildService, StopService, ShutStorage
<1>4. ASSUME NEW c \in Calls, Resume(c)
      PROVE  Moves(c)
  BY <1>0, <1>4 DEF Resume, Moves, Targets
<1>5. ASSUME NEW c \in Calls, PreparationFails(c) \/ RunEnds(c) \/ RunIsCut(c)
      PROVE  Settles(c)
  BY <1>5 DEF PreparationFails, RunEnds, RunIsCut, Settles, InFlight
<1>6. ASSUME NEW c \in Calls, Prepared(c) \/ StartRun(c)
      PROVE  Moves(c) \/ Settles(c)
  BY <1>6 DEF Prepared, StartRun, Moves, Settles, InFlight
<1>7. ASSUME NEW c \in Calls, NEW a \in Actions, Start(c, a)
      PROVE  Begins(c)
  BY <1>0, <1>7, HostAssumption DEF Start, Begins
<1> QED
  BY <1>1, <1>2, <1>3, <1>4, <1>5, <1>6, <1>7 DEF Next

\* A call that was made stays made, with its root.
LEMMA CallsStay ==
  ASSUME TypeOK, [Next]_vars, NEW x \in Calls, call[x].at # "no"
  PROVE  call'[x].at # "no" /\ call'[x].root = call[x].root
<1> USE DEF TypeOK
<1>1. ASSUME NEW c \in Calls, Moves(c) \/ Settles(c)
      PROVE  call'[x].at # "no" /\ call'[x].root = call[x].root
  <2>1. ASSUME NEW how \in {"refused", "ended", "aborted"}, Settle(c, how)
        PROVE  call'[x].at # "no" /\ call'[x].root = call[x].root
    BY <2>1 DEF Settle
  <2>2. CASE Moves(c)
    BY <2>2 DEF Moves
  <2> QED
    BY <1>1, <2>1, <2>2 DEF Settles
<1>2. ASSUME NEW c \in Calls, Begins(c)
      PROVE  call'[x].at # "no" /\ call'[x].root = call[x].root
  BY <1>2 DEF Begins, Fresh
<1>3. ASSUME NEW c \in Calls, NEW d \in Calls, NEW a \in Actions, Invoke(c, d, a)
      PROVE  call'[x].at # "no" /\ call'[x].root = call[x].root
  BY <1>3 DEF Invoke, Fresh
<1> QED
  BY <1>1, <1>2, <1>3, CallSteps

LEMMA NextMade == TypeOK /\ MadeInv /\ [Next]_vars => MadeInv'
<1> SUFFICES ASSUME TypeOK, MadeInv, [Next]_vars, NEW x \in Calls
             PROVE  /\ call'[x].at \notin {"no", "refused"} =>
                          call'[x].root \in Calls /\ call'[call'[x].root].at # "no"
                    /\ call'[x].at = "initialising" => call'[x].root = x
                    /\ call'[x].at \in InFlight => call'[x].target \in Runtimes
  BY DEF MadeInv, InFlight
<1> DEFINE Goal == /\ call'[x].at \notin {"no", "refused"} =>
                          call'[x].root \in Calls /\ call[call'[x].root].at # "no"
                   /\ call'[x].at = "initialising" => call'[x].root = x
                   /\ call'[x].at \in InFlight => call'[x].target \in Runtimes
<1> USE DEF InFlight
<1>0. call \in [Calls -> CallState] /\ registered \subseteq Runtimes
  BY TypeParts DEF RegisteredOK
<1>1. ASSUME NEW c \in Calls, Moves(c)
      PROVE  Goal
  BY <1>0, <1>1 DEF Moves, MadeInv, CallState
<1>2. ASSUME NEW c \in Calls, Settles(c)
      PROVE  Goal
  BY <1>0, <1>2 DEF Settles, Settle, MadeInv, CallState
<1>3. ASSUME NEW c \in Calls, Begins(c), c # x
      PROVE  Goal
  BY <1>0, <1>3 DEF Begins, MadeInv, CallState
<1>4. ASSUME NEW c \in Calls, NEW d \in Calls, NEW a \in Actions, Invoke(c, d, a)
      PROVE  Goal
  BY <1>0, <1>4 DEF Invoke, Targets, MadeInv, CallState
<1>5. ASSUME Begins(x)
      PROVE  /\ call'[x].at \notin {"no", "refused"} => call'[x].root = x
             /\ call'[x].at \notin InFlight
  <2>1. CASE call' = [call EXCEPT ![x].at = "refused"]
    BY <1>0, <2>1 DEF CallState
  <2>2. ASSUME NEW a \in Actions, NEW t \in Tasks \cup {Nobody},
               call' = [call EXCEPT ![x] = [at |-> "initialising", root |-> x, stack |-> {a},
                                            target |-> Nobody, task |-> t]]
        PROVE  call'[x].at = "initialising" /\ call'[x].root = x
    BY <1>0, <2>2
  <2> QED
    BY <1>5, <2>1, <2>2 DEF Begins
<1>6. ASSUME UNCHANGED call
      PROVE  Goal
  BY <1>6 DEF MadeInv
<1> QED
  BY <1>1, <1>2, <1>3, <1>4, <1>5, <1>6, CallSteps, CallsStay

\* The nested calls of a root that hold a slot.
Nested(root) == {c \in Calls : IsChild(c) /\ call[c].root = root /\ call[c].at \in InFlight}

LEMMA NestedFinite ==
  \A root : IsFiniteSet(Nested(root)) /\ Cardinality(Nested(root)) \in Nat
<1> SUFFICES ASSUME NEW root
             PROVE  IsFiniteSet(Nested(root)) /\ Cardinality(Nested(root)) \in Nat
  OBVIOUS
<1>1. Nested(root) \subseteq 1..MaxCalls /\ IsFiniteSet(1..MaxCalls)
  BY FS_Interval, HostAssumption DEF Nested, Calls
<1> QED
  BY <1>1, FS_Subset, FS_CardinalityType

\* Who holds a slot changes when a nested call begins or is answered, only.
SlotsStay == UNCHANGED subRuns /\ \A root \in Calls : Nested(root)' = Nested(root)
SlotTaken(d, k) ==
  /\ d \notin Nested(k) /\ subRuns[k] < MaxSubRuns
  /\ subRuns' = [subRuns EXCEPT ![k] = @ + 1]
  /\ Nested(k)' = Nested(k) \cup {d}
  /\ \A root \in Calls : root # k => Nested(root)' = Nested(root)
SlotGiven(d, k) ==
  /\ d \in Nested(k)
  /\ subRuns' = Released(k)
  /\ Nested(k)' = Nested(k) \ {d}
  /\ \A root \in Calls : root # k => Nested(root)' = Nested(root)

LEMMA NestedSteps ==
  ASSUME TypeOK, MadeInv, [Next]_vars
  PROVE  SlotsStay \/ \E d, k \in Calls : SlotTaken(d, k) \/ SlotGiven(d, k)
<1>0. call \in [Calls -> CallState] /\ Nobody \notin Calls
  BY TypeParts, HostAssumption DEF Calls
<1> USE DEF InFlight
<1> DEFINE holds(c, root) == /\ call[c].root \notin {Nobody, c} /\ call[c].root = root
                             /\ call[c].at \in InFlight
           held(c, root) == /\ call'[c].root \notin {Nobody, c} /\ call'[c].root = root
                            /\ call'[c].at \in InFlight
<1>a. \A root : Nested(root) = {c \in Calls : holds(c, root)}
  BY DEF Nested, IsChild
<1>b. \A root \in Calls : Nested(root)' = {c \in Calls : held(c, root)}
  BY DEF Nested, IsChild
<1> HIDE DEF holds, held
<1>1. ASSUME UNCHANGED <<call, subRuns>>
      PROVE  SlotsStay
  BY <1>a, <1>b, <1>1 DEF holds, held, SlotsStay
<1>2. ASSUME NEW c \in Calls, Moves(c)
      PROVE  SlotsStay
  <2>1. call[c].at = "initialising" => call[c].root = c
    BY DEF MadeInv
  <2>2. ASSUME NEW x \in Calls, NEW root \in Calls
        PROVE  held(x, root) <=> holds(x, root)
    BY <1>0, <1>2, <2>1 DEF Moves, CallState, holds, held
  <2> QED
    BY <1>a, <1>b, <1>2, <2>2 DEF Moves, SlotsStay
<1>3. ASSUME NEW c \in Calls, Begins(c)
      PROVE  SlotsStay
  <2>1. \A x \in Calls : x # c => call'[x] = call[x]
    BY <1>0, <1>3 DEF Begins
  <2>2. call[c].at \notin InFlight
    BY <1>3 DEF Begins, Fresh
  <2>3. call'[c].at \notin InFlight
    <3>1. CASE call' = [call EXCEPT ![c].at = "refused"]
      BY <1>0, <3>1 DEF CallState
    <3>2. ASSUME NEW a \in Actions, NEW t \in Tasks \cup {Nobody},
                 call' = [call EXCEPT ![c] = [at |-> "initialising", root |-> c, stack |-> {a},
                                              target |-> Nobody, task |-> t]]
          PROVE  call'[c].at \notin InFlight
      BY <1>0, <3>2
    <3> QED
      BY <1>3, <3>1, <3>2 DEF Begins
  <2>4. ASSUME NEW x \in Calls, NEW root \in Calls
        PROVE  held(x, root) <=> holds(x, root)
    BY <2>1, <2>2, <2>3 DEF holds, held
  <2> QED
    BY <1>a, <1>b, <1>3, <2>4 DEF Begins, SlotsStay
<1>4. ASSUME NEW c \in Calls, Settles(c)
      PROVE  SlotsStay \/ \E k \in Calls : SlotGiven(c, k)
  <2>1. /\ \A x \in Calls : x # c => call'[x] = call[x]
        /\ call[c].at \in InFlight /\ call'[c].at \notin InFlight
        /\ subRuns' = IF IsChild(c) THEN Released(call[c].root) ELSE subRuns
    BY <1>0, <1>4 DEF Settles, Settle, CallState
  <2>2. ASSUME NEW x \in Calls, NEW root \in Calls
        PROVE  held(x, root) <=> holds(x, root) /\ x # c
    BY <2>1 DEF holds, held
  <2>3. \A root \in Calls : Nested(root)' = Nested(root) \ {c}
    BY <1>a, <1>b, <2>2
  <2>4. CASE IsChild(c)
    <3>0. PICK k \in Calls : k = call[c].root
      BY <1>0, <2>4 DEF IsChild, CallState
    <3>1. c \in Nested(k) /\ subRuns' = Released(k)
      BY <1>a, <2>1, <2>4, <3>0 DEF IsChild, holds
    <3>2. \A root \in Calls : root # k => c \notin Nested(root)
      BY <1>a, <3>0 DEF holds
    <3>3. \A root \in Calls : root # k => Nested(root)' = Nested(root)
      BY <2>3, <3>2
    <3> QED
      BY <2>3, <3>1, <3>3 DEF SlotGiven
  <2>5. CASE ~IsChild(c)
    BY <1>a, <2>1, <2>3, <2>5 DEF IsChild, holds, SlotsStay
  <2> QED
    BY <2>4, <2>5
<1>5. ASSUME NEW c \in Calls, NEW d \in Calls, NEW a \in Actions, Invoke(c, d, a)
      PROVE  SlotsStay \/ \E k \in Calls : SlotTaken(d, k)
  <2>1. \A x \in Calls : x # d => call'[x] = call[x]
    BY <1>0, <1>5 DEF Invoke
  <2>2. call[d].at \notin InFlight /\ call[d].at = "no"
    BY <1>5 DEF Invoke, Fresh
  <2>3. CASE call' = [call EXCEPT ![d].at = "refused"] /\ UNCHANGED subRuns
    <3>1. call'[d].at \notin InFlight
      BY <1>0, <2>3 DEF CallState
    <3>2. ASSUME NEW x \in Calls, NEW root \in Calls
          PROVE  held(x, root) <=> holds(x, root)
      BY <2>1, <2>2, <3>1 DEF holds, held
    <3> QED
      BY <1>a, <1>b, <2>3, <3>2 DEF SlotsStay
  <2>4. ASSUME NEW r,
               call' = [call EXCEPT ![d] = [at |-> "preparing", root |-> call[c].root, target |-> r,
                                            stack |-> call[c].stack \cup {a}, task |-> Nobody]],
               WithinQuota(call[c].root),
               subRuns' = [subRuns EXCEPT ![call[c].root] = @ + 1]
        PROVE  \E k \in Calls : SlotTaken(d, k)
    <3>0. PICK k \in Calls : k = call[c].root
      BY <1>5 DEF Invoke, MadeInv
    <3>1. call[k].at # "no"
      BY <1>5, <3>0 DEF Invoke, MadeInv
    <3>2. call'[d].at \in InFlight /\ call'[d].root = k /\ k # d
      BY <1>0, <2>2, <2>4, <3>0, <3>1
    <3>3. ASSUME NEW x \in Calls, NEW root \in Calls
          PROVE  held(x, root) <=> holds(x, root) \/ (x = d /\ root = k)
      BY <1>0, <2>1, <2>2, <3>2 DEF holds, held
    <3>4. d \notin Nested(k)
      BY <1>a, <2>2 DEF holds
    <3>5. /\ Nested(k)' = Nested(k) \cup {d}
          /\ \A root \in Calls : root # k => Nested(root)' = Nested(root)
      <4>1. Nested(k)' = {x \in Calls : held(x, k)} /\ Nested(k) = {x \in Calls : holds(x, k)}
        BY <1>a, <1>b
      <4>2. Nested(k)' = Nested(k) \cup {d}
        BY <3>3, <4>1
      <4>3. ASSUME NEW root \in Calls, root # k
            PROVE  Nested(root)' = Nested(root)
        <5>1. \A x \in Calls : held(x, root) <=> holds(x, root)
          BY <3>3, <4>3
        <5> QED
          BY <1>a, <1>b, <5>1
      <4> QED
        BY <4>2, <4>3
    <3>6. subRuns[k] < MaxSubRuns /\ subRuns' = [subRuns EXCEPT ![k] = @ + 1]
      BY <2>4, <3>0 DEF WithinQuota
    <3> QED
      BY <3>4, <3>5, <3>6 DEF SlotTaken
  <2> QED
    BY <1>5, <2>3, <2>4 DEF Invoke
<1> QED
  BY <1>1, <1>2, <1>3, <1>4, <1>5, CallSteps

LEMMA NextSubRuns == TypeOK /\ MadeInv /\ SubRunsCounted /\ [Next]_vars => SubRunsCounted'
<1> SUFFICES ASSUME TypeOK, MadeInv, SubRunsCounted, [Next]_vars
             PROVE  SubRunsCounted'
  OBVIOUS
<1>1. /\ SubRunsCounted <=> \A root \in Calls : subRuns[root] = Cardinality(Nested(root))
      /\ SubRunsCounted' <=> \A root \in Calls : subRuns'[root] = Cardinality(Nested(root)')
  BY DEF SubRunsCounted, Nested
<1>2. subRuns \in [Calls -> 0..MaxSubRuns] /\ MaxSubRuns \in Nat
  BY HostAssumption DEF TypeOK
<1>3. CASE SlotsStay
  BY <1>1, <1>3 DEF SlotsStay
<1>4. ASSUME NEW d \in Calls, NEW k \in Calls, SlotTaken(d, k)
      PROVE  SubRunsCounted'
  <2>1. Cardinality(Nested(k)') = Cardinality(Nested(k)) + 1
    BY <1>4, NestedFinite, FS_AddElement DEF SlotTaken
  <2> QED
    BY <1>1, <1>2, <1>4, <2>1 DEF SlotTaken
<1>5. ASSUME NEW d \in Calls, NEW k \in Calls, SlotGiven(d, k)
      PROVE  SubRunsCounted'
  <2>1. Cardinality(Nested(k)') = Cardinality(Nested(k)) - 1
    BY <1>5, NestedFinite, FS_RemoveElement DEF SlotGiven
  <2>2. Cardinality(Nested(k)') \in Nat
    BY <1>5, NestedFinite, FS_Subset, FS_CardinalityType DEF SlotGiven
  <2>3. subRuns[k] = Cardinality(Nested(k)) /\ Cardinality(Nested(k)) \in Nat
    BY <1>1, NestedFinite
  <2>4. subRuns' = [subRuns EXCEPT ![k] = IF @ <= 1 THEN 0 ELSE @ - 1]
    BY <1>5 DEF SlotGiven, Released
  <2>5. subRuns'[k] = Cardinality(Nested(k)')
    BY <1>2, <2>1, <2>2, <2>3, <2>4
  <2> QED
    BY <1>1, <1>2, <1>5, <2>4, <2>5 DEF SlotGiven
<1> QED
  BY <1>3, <1>4, <1>5, NestedSteps

-----------------------------------------------------------------------------
(* What is in use is held, while the initialisation is not retried *)

\* An initialisation begins, and may fail at once or later.
Loads(t) ==
  /\ task[t].at = "no" /\ lock' = TRUE
  /\ registered' = registered \cup Explicit \X {t}
  /\ task' = [task EXCEPT ![t].at = "loading"]
  /\ UNCHANGED <<lazy, closed, initialized, closing, global, runtime>>
Fails(t) ==
  /\ task[t].at \in {"no", "loading", "doomed", "warming"} /\ lock' \in {lock, TRUE}
  /\ BeginRollback(t)
  /\ UNCHANGED <<lazy, closed, closing, global, registered>>
\* The host, its tasks and its runtimes are as they were.
HostStays == UNCHANGED <<lazy, closed, initialized, lock, global, registered, task, closing, runtime>>
CallStays == UNCHANGED <<call, subRuns>>

LEMMA HostSteps ==
  ASSUME TypeOK, [Next]_vars
  PROVE  \/ \E t \in Tasks : \/ (Loads(t) \/ Fails(t)) /\ (CallStays \/ \E c \in Calls : Begins(c))
                             \/ Load(t) \/ Warmed(t) \/ RollbackTargets(t) \/ RollbackEnds(t)
         \/ Close \/ ClosePreparations \/ CloseTargets \/ CloseEnds \/ GlobalConfig
         \/ \E r \in Runtimes : OpenStorage(r) \/ BuildService(r) \/ StopService(r) \/ ShutStorage(r)
         \/ \E c \in Calls : Resume(c) \/ Prepared(c) \/ StartRun(c)
         \/ HostStays /\ (CallStays \/ \E c \in Calls : Begins(c) \/ Settles(c))
         \/ HostStays /\ \E c, d \in Calls, a \in Actions : Invoke(c, d, a)
<1> USE DEF hostVars, HostStays, CallStays
<1>1. ASSUME NEW t \in Tasks, BeginInit(t)
      PROVE  Loads(t) \/ Fails(t)
  BY <1>1 DEF BeginInit, Loads, Fails
<1>2. CASE Create
  BY <1>1, <1>2 DEF Create
<1>3. ASSUME NEW t \in Tasks, InitFails(t)
      PROVE  Fails(t) /\ CallStays
  BY <1>3 DEF InitFails, Fails
<1>4. ASSUME NEW c \in Calls, PreparationFails(c) \/ RunEnds(c) \/ RunIsCut(c)
      PROVE  HostStays /\ Settles(c)
  BY <1>4 DEF PreparationFails, RunEnds, RunIsCut, Settles, InFlight
<1>5. ASSUME NEW c \in Calls, NEW a \in Actions, Start(c, a)
      PROVE  Begins(c) /\ (HostStays \/ \E t \in Tasks : BeginInit(t))
  BY <1>5, HostAssumption DEF Start, Begins, TypeOK
<1>6. ASSUME NEW c \in Calls, NEW d \in Calls, NEW a \in Actions, Invoke(c, d, a)
      PROVE  HostStays
  BY <1>6 DEF Invoke
<1>7. ASSUME UNCHANGED vars
      PROVE  HostStays /\ CallStays
  BY <1>7 DEF vars
<1> QED
  BY <1>1, <1>2, <1>3, <1>4, <1>5, <1>6, <1>7 DEF Next

\* Of the runtimes, the end of a preparation touches the service at most.
LEMMA PreparedAt ==
  ASSUME TypeOK, NEW c \in Calls, Prepared(c)
  PROVE  /\ \A r \in Runtimes : /\ runtime'[r].closer = runtime[r].closer
                                /\ runtime'[r].storage = runtime[r].storage
                                /\ runtime'[r].shutting = runtime[r].shutting
         /\ UNCHANGED <<lazy, closed, closing, initialized, lock, global, registered, task>>
<1>1. runtime \in [Runtimes -> RuntimeState]
  BY TypeParts
<1> QED
  BY <1>1 DEF Prepared, hostVars, RuntimeState

\* A service that is ready takes the run, or the call is refused.
LEMMA StartRunAt ==
  ASSUME TypeOK, NEW c \in Calls, StartRun(c), NEW x \in Calls
  PROVE  /\ HostStays
         /\ \/ call'[x] = call[x]
            \/ call'[x].at = "refused"
            \/ /\ call[x].at = "opening" /\ call'[x].at = "running"
               /\ runtime[call[x].target].service = "ready"
               /\ call'[x].target = call[x].target /\ call'[x].task = call[x].task
<1>1. call \in [Calls -> CallState]
  BY TypeParts
<1> QED
  BY <1>1 DEF StartRun, Settle, HostStays, hostVars, CallState

\* The one attempt that was made.
LEMMA OneTask ==
  ASSUME NotRetried, NEW t \in Tasks, task[t].at # "no"
  PROVE  \A u \in Tasks : u # t => task[u].at = "no"
  BY DEF NotRetried

\* Until it is ready nothing is prepared, built or running.
LEMMA BeforeReady ==
  ASSUME NotRetried', TypeOK, Covered, NEW t \in Tasks, Fails(t) \/ Loads(t)
  PROVE  /\ ~Ready /\ ~Ready'
         /\ \A u \in Tasks : u # t => task[u].at = "no" /\ task'[u].at = "no"
         /\ \A r \in Runtimes : runtime[r].service = "none"
         /\ \A c \in Calls : call[c].at \notin InFlight
         /\ initialized' = FALSE
<1>1. /\ task'[t].at \in {"rollback", "loading"} /\ task[t].at \in {"no", "loading", "doomed", "warming"}
      /\ \A u \in Tasks : u # t => task'[u] = task[u]
  BY TypeParts DEF Fails, Loads, BeginRollback, TaskState
<1>2. \A u \in Tasks : u # t => task[u].at = "no" /\ task'[u].at = "no"
  BY <1>1 DEF NotRetried
<1>3. ~Ready /\ ~Ready'
  BY <1>1, <1>2 DEF Ready
<1>4. initialized' = FALSE
  BY <1>3 DEF Covered, TaskInv, Fails, Loads, BeginRollback, TypeOK
<1> QED
  BY <1>2, <1>3, <1>4 DEF Covered, RuntimeInv, RuntimeAt, CallInv, CallAt

LEMMA CloseRuntimesAt ==
  ASSUME TypeOK, NEW who \in Tasks \cup {HostClose}, runtime' = CloseRuntimes(who), NEW x \in Runtimes
  PROVE  \/ /\ x \in registered /\ runtime[x].closer = Nobody
            /\ runtime'[x].closer = who /\ runtime'[x].shutting = "pending"
            /\ runtime'[x].storage = runtime[x].storage /\ runtime'[x].service = runtime[x].service
         \/ ~(x \in registered /\ runtime[x].closer = Nobody) /\ runtime'[x] = runtime[x]
  BY TypeParts DEF CloseRuntimes, RuntimeState

\* A runtime is closed once, after what it opened, and is not opened behind that.
\* A runtime is closed once, after what it opened, and is not opened behind that.
\* A runtime is closed once, after what it opened, and is not opened behind that.
\* A runtime is closed once, after what it opened, and is not opened behind that.
LEMMA NextRuntime ==
  ASSUME TypeOK, MadeInv, NotRetried, NotRetried', Covered, [Next]_vars, NEW x \in Runtimes
  PROVE  RuntimeAt(x)'
<1>0. /\ FlagsOK /\ registered \subseteq Runtimes
      /\ task \in [Tasks -> TaskState] /\ runtime \in [Runtimes -> RuntimeState]
      /\ call \in [Calls -> CallState]
  BY TypeParts DEF RegisteredOK
<1>a. \A u \in Tasks : Fails(u) \/ Loads(u) =>
        /\ ~Ready /\ ~Ready' /\ initialized' = FALSE
        /\ \A v \in Tasks : v # u => task[v].at = "no" /\ task'[v].at = "no"
        /\ \A r \in Runtimes : runtime[r].service = "none"
        /\ \A c \in Calls : call[c].at \notin InFlight
  BY BeforeReady
<1>b. \A who \in Tasks \cup {HostClose} : runtime' = CloseRuntimes(who) =>
        \A r \in Runtimes :
          \/ /\ r \in registered /\ runtime[r].closer = Nobody
             /\ runtime'[r].closer = who /\ runtime'[r].shutting = "pending"
             /\ runtime'[r].storage = runtime[r].storage /\ runtime'[r].service = runtime[r].service
          \/ ~(r \in registered /\ runtime[r].closer = Nobody) /\ runtime'[r] = runtime[r]
  BY CloseRuntimesAt
<1>c. HostClose \notin Tasks \cup {Nobody} /\ Nobody \notin Tasks
  BY HostAssumption DEF HostClose
<1> USE <1>0, <1>c DEF hostVars, HostStays, CallStays, FlagsOK, TaskState, RuntimeState,
        TaskInv, ClosingInv, RuntimeInv, RuntimeAt, Ready, Covered, RuntimesClosedBy
<1>1. ASSUME NEW t \in Tasks, Loads(t)
      PROVE  RuntimeAt(x)'
  BY <1>1, <1>a DEF Loads
<1>2. ASSUME NEW t \in Tasks, Fails(t)
      PROVE  RuntimeAt(x)'
  <2>1. /\ runtime' = CloseRuntimes(t) /\ task'[t].at = "rollback"
        /\ UNCHANGED <<lazy, closed, closing, global, registered>>
    BY <1>2 DEF Fails, BeginRollback
  <2>2. runtime[x].closer \notin Tasks /\ runtime[x].service = "none"
    <3>1. \A u \in Tasks : task[u].at \notin {"rollback", "targets", "failed"}
      BY <1>2, <1>a DEF Fails
    <3> QED
      BY <1>2, <1>a, <3>1
  <2> QED
    BY <2>1, <2>2, <1>b
<1>3. ASSUME NEW t \in Tasks, Load(t)
      PROVE  RuntimeAt(x)'
  BY <1>3, OneTask DEF Load
<1>4. ASSUME NEW t \in Tasks, Warmed(t)
      PROVE  RuntimeAt(x)'
  BY <1>4, OneTask DEF Warmed
<1>5. ASSUME NEW t \in Tasks, RollbackTargets(t)
      PROVE  RuntimeAt(x)'
  BY <1>5, OneTask DEF RollbackTargets
<1>6. ASSUME NEW t \in Tasks, RollbackEnds(t)
      PROVE  RuntimeAt(x)'
  BY <1>6, OneTask DEF RollbackEnds
<1>7. CASE Close \/ GlobalConfig
  BY <1>7 DEF Close, Held, GlobalConfig
<1>8. CASE ClosePreparations
  <2>1. /\ runtime' = CloseRuntimes(HostClose) /\ closing' = "runtimes" /\ closing = "preparations"
        /\ UNCHANGED <<lazy, closed, global, registered, task>>
    BY <1>8 DEF ClosePreparations
  <2> QED
    BY <2>1, <1>b
<1>9. CASE CloseTargets
  BY <1>9 DEF CloseTargets
<1>10. CASE CloseEnds
  BY <1>10 DEF CloseEnds
<1>11. ASSUME NEW r \in Runtimes, OpenStorage(r)
      PROVE  RuntimeAt(x)'
  BY <1>11 DEF OpenStorage
<1>12. ASSUME NEW r \in Runtimes, BuildService(r)
      PROVE  RuntimeAt(x)'
  BY <1>12 DEF BuildService
<1>13. ASSUME NEW r \in Runtimes, StopService(r)
      PROVE  RuntimeAt(x)'
  BY <1>13 DEF StopService
<1>14. ASSUME NEW r \in Runtimes, ShutStorage(r)
      PROVE  RuntimeAt(x)'
  BY <1>14 DEF ShutStorage
<1>15. ASSUME NEW c \in Calls, Prepared(c)
      PROVE  RuntimeAt(x)'
  <2>1. Ready
    BY <1>15 DEF Prepared, CallInv, CallAt, InFlight
  <2>2. UNCHANGED <<lazy, closed, closing, registered, task, global>>
    BY <1>15 DEF Prepared
  <2>3. \/ runtime' = runtime
        \/ /\ runtime' = [runtime EXCEPT ![call[c].target].service = "building"]
           /\ runtime[call[c].target].closer = Nobody /\ runtime[call[c].target].service = "none"
        \/ runtime' = [runtime EXCEPT ![call[c].target].service = runtime[call[c].target].service]
    BY <1>15 DEF Prepared
  <2> QED
    BY <2>1, <2>2, <2>3
<1>16. CASE HostStays \/ \E c \in Calls : Resume(c) \/ StartRun(c)
  <2>1. HostStays
    BY <1>16 DEF Resume, StartRun
  <2> QED
    BY <2>1
<1> QED
  BY <1>1, <1>2, <1>3, <1>4, <1>5, <1>6, <1>7, <1>8, <1>9, <1>10, <1>11, <1>12,
     <1>13, <1>14, <1>15, <1>16, HostSteps

\* Tasks hold the lock, or have everything closed.
LEMMA NextTasks ==
  ASSUME TypeOK, MadeInv, NotRetried, NotRetried', Covered, [Next]_vars
  PROVE  TaskInv'
<1>0. /\ FlagsOK /\ registered \subseteq Runtimes
      /\ task \in [Tasks -> TaskState] /\ runtime \in [Runtimes -> RuntimeState]
      /\ call \in [Calls -> CallState]
  BY TypeParts DEF RegisteredOK
<1>a. \A u \in Tasks : Fails(u) \/ Loads(u) =>
        /\ ~Ready /\ ~Ready' /\ initialized' = FALSE
        /\ \A v \in Tasks : v # u => task[v].at = "no" /\ task'[v].at = "no"
        /\ \A r \in Runtimes : runtime[r].service = "none"
        /\ \A c \in Calls : call[c].at \notin InFlight
  BY BeforeReady
<1>b. \A who \in Tasks \cup {HostClose} : runtime' = CloseRuntimes(who) =>
        \A r \in Runtimes :
          \/ /\ r \in registered /\ runtime[r].closer = Nobody
             /\ runtime'[r].closer = who /\ runtime'[r].shutting = "pending"
             /\ runtime'[r].storage = runtime[r].storage /\ runtime'[r].service = runtime[r].service
          \/ ~(r \in registered /\ runtime[r].closer = Nobody) /\ runtime'[r] = runtime[r]
  BY CloseRuntimesAt
<1>c. HostClose \notin Tasks \cup {Nobody} /\ Nobody \notin Tasks
  BY HostAssumption DEF HostClose
<1> USE <1>0, <1>c DEF hostVars, HostStays, CallStays, FlagsOK, TaskState, RuntimeState,
        TaskInv, ClosingInv, RuntimeInv, RuntimeAt, Ready, Covered, RuntimesClosedBy
<1>1. ASSUME NEW t \in Tasks, Loads(t)
      PROVE  TaskInv'
  <2>1. task'[t].at = "loading" /\ lock' /\ UNCHANGED <<lazy, closing>>
    BY <1>1 DEF Loads
  <2> QED
    BY <1>1, <2>1, <1>a
<1>2. ASSUME NEW t \in Tasks, Fails(t)
      PROVE  TaskInv'
  <2>1. /\ runtime' = CloseRuntimes(t) /\ task'[t].at = "rollback"
        /\ UNCHANGED <<lazy, closing, registered>>
    BY <1>2 DEF Fails, BeginRollback
  <2>2. \A r \in registered : runtime'[r].closer # Nobody
    BY <2>1, <1>b
  <2>3. /\ ~Ready /\ ~Ready' /\ initialized' = FALSE
        /\ \A u \in Tasks : u # t => task'[u].at = "no"
    BY <1>2, <1>a
  <2> QED
    BY <2>1, <2>2, <2>3
<1>3. ASSUME NEW t \in Tasks, Load(t)
      PROVE  TaskInv'
  BY <1>3, OneTask DEF Load
<1>4. ASSUME NEW t \in Tasks, Warmed(t)
      PROVE  TaskInv'
  BY <1>4, OneTask DEF Warmed
<1>5. ASSUME NEW t \in Tasks, RollbackTargets(t)
      PROVE  TaskInv'
  BY <1>5, OneTask DEF RollbackTargets
<1>6. ASSUME NEW t \in Tasks, RollbackEnds(t)
      PROVE  TaskInv'
  BY <1>6, OneTask DEF RollbackEnds
<1>7. CASE Close \/ GlobalConfig
  BY <1>7 DEF Close, Held, GlobalConfig
<1>8. CASE ClosePreparations
  <2>1. /\ runtime' = CloseRuntimes(HostClose) /\ closing' = "runtimes" /\ closing = "preparations"
        /\ UNCHANGED <<lazy, closed, initialized, lock, registered, task>>
    BY <1>8 DEF ClosePreparations
  <2>2. \A r \in registered : runtime'[r].closer # Nobody
    BY <2>1, <1>b
  <2>3. \A t \in Tasks, r \in Runtimes : runtime'[r].closer = t => runtime'[r] = runtime[r]
    BY <2>1, <1>b
  <2> QED
    BY <2>1, <2>2, <2>3
<1>9. CASE CloseTargets
  BY <1>9 DEF CloseTargets
<1>10. CASE CloseEnds
  BY <1>10 DEF CloseEnds
<1>11. ASSUME NEW r \in Runtimes, OpenStorage(r)
      PROVE  TaskInv'
  BY <1>11 DEF OpenStorage
<1>12. ASSUME NEW r \in Runtimes, BuildService(r)
      PROVE  TaskInv'
  <2>1. /\ \A q \in Runtimes : runtime'[q].closer = runtime[q].closer /\ runtime'[q].shutting = runtime[q].shutting
        /\ UNCHANGED <<lazy, closing, initialized, lock, registered, task>>
    BY <1>12 DEF BuildService
  <2> QED
    BY <2>1
<1>13. ASSUME NEW r \in Runtimes, StopService(r)
      PROVE  TaskInv'
  BY <1>13 DEF StopService
<1>14. ASSUME NEW r \in Runtimes, ShutStorage(r)
      PROVE  TaskInv'
  BY <1>14 DEF ShutStorage
<1>15. ASSUME NEW c \in Calls, Prepared(c)
      PROVE  TaskInv'
  <2>1. /\ \A q \in Runtimes : runtime'[q].closer = runtime[q].closer /\ runtime'[q].shutting = runtime[q].shutting
        /\ UNCHANGED <<lazy, closing, initialized, lock, registered, task>>
    BY <1>15, PreparedAt
  <2> QED
    BY <2>1
<1>16. CASE HostStays \/ \E c \in Calls : Resume(c) \/ StartRun(c)
  <2>1. HostStays
    BY <1>16 DEF Resume, StartRun
  <2> QED
    BY <2>1
<1> QED
  BY <1>1, <1>2, <1>3, <1>4, <1>5, <1>6, <1>7, <1>8, <1>9, <1>10, <1>11, <1>12,
     <1>13, <1>14, <1>15, <1>16, HostSteps

\* close() leaves no runtime open.
LEMMA NextClosing ==
  ASSUME TypeOK, MadeInv, NotRetried, NotRetried', Covered, [Next]_vars
  PROVE  ClosingInv'
<1>0. /\ FlagsOK /\ registered \subseteq Runtimes
      /\ task \in [Tasks -> TaskState] /\ runtime \in [Runtimes -> RuntimeState]
      /\ call \in [Calls -> CallState]
  BY TypeParts DEF RegisteredOK
<1>a. \A u \in Tasks : Fails(u) \/ Loads(u) =>
        /\ ~Ready /\ ~Ready' /\ initialized' = FALSE
        /\ \A v \in Tasks : v # u => task[v].at = "no" /\ task'[v].at = "no"
        /\ \A r \in Runtimes : runtime[r].service = "none"
        /\ \A c \in Calls : call[c].at \notin InFlight
  BY BeforeReady
<1>b. \A who \in Tasks \cup {HostClose} : runtime' = CloseRuntimes(who) =>
        \A r \in Runtimes :
          \/ /\ r \in registered /\ runtime[r].closer = Nobody
             /\ runtime'[r].closer = who /\ runtime'[r].shutting = "pending"
             /\ runtime'[r].storage = runtime[r].storage /\ runtime'[r].service = runtime[r].service
          \/ ~(r \in registered /\ runtime[r].closer = Nobody) /\ runtime'[r] = runtime[r]
  BY CloseRuntimesAt
<1>c. HostClose \notin Tasks \cup {Nobody} /\ Nobody \notin Tasks
  BY HostAssumption DEF HostClose
<1> USE <1>0, <1>c DEF hostVars, HostStays, CallStays, FlagsOK, TaskState, RuntimeState,
        TaskInv, ClosingInv, RuntimeInv, RuntimeAt, Ready, Covered, RuntimesClosedBy
<1>1. ASSUME NEW t \in Tasks, Loads(t)
      PROVE  ClosingInv'
  BY <1>1, <1>a DEF Loads
<1>2. ASSUME NEW t \in Tasks, Fails(t)
      PROVE  ClosingInv'
  <2>1. /\ runtime' = CloseRuntimes(t)
        /\ UNCHANGED <<lazy, closed, closing, registered>>
    BY <1>2 DEF Fails, BeginRollback
  <2>2. \A r \in registered : runtime[r].closer # Nobody => runtime'[r].closer # Nobody
    BY <2>1, <1>b
  <2>3. \A r \in Runtimes : runtime'[r].closer = HostClose => runtime'[r] = runtime[r]
    BY <2>1, <1>b
  <2> QED
    BY <2>1, <2>2, <2>3
<1>3. ASSUME NEW t \in Tasks, Load(t)
      PROVE  ClosingInv'
  BY <1>3, OneTask DEF Load
<1>4. ASSUME NEW t \in Tasks, Warmed(t)
      PROVE  ClosingInv'
  BY <1>4, OneTask DEF Warmed
<1>5. ASSUME NEW t \in Tasks, RollbackTargets(t)
      PROVE  ClosingInv'
  BY <1>5, OneTask DEF RollbackTargets
<1>6. ASSUME NEW t \in Tasks, RollbackEnds(t)
      PROVE  ClosingInv'
  BY <1>6, OneTask DEF RollbackEnds
<1>7. CASE Close \/ GlobalConfig
  BY <1>7 DEF Close, Held, GlobalConfig
<1>8. CASE ClosePreparations
  <2>1. /\ runtime' = CloseRuntimes(HostClose) /\ closing' = "runtimes"
        /\ UNCHANGED <<lazy, closed, registered>>
    BY <1>8 DEF ClosePreparations
  <2>2. \A r \in registered : runtime'[r].closer # Nobody
    BY <2>1, <1>b
  <2> QED
    BY <1>8, <2>1, <2>2 DEF ClosePreparations
<1>9. CASE CloseTargets
  BY <1>9 DEF CloseTargets
<1>10. CASE CloseEnds
  BY <1>10 DEF CloseEnds
<1>11. ASSUME NEW r \in Runtimes, OpenStorage(r)
      PROVE  ClosingInv'
  BY <1>11 DEF OpenStorage
<1>12. ASSUME NEW r \in Runtimes, BuildService(r)
      PROVE  ClosingInv'
  BY <1>12 DEF BuildService
<1>13. ASSUME NEW r \in Runtimes, StopService(r)
      PROVE  ClosingInv'
  BY <1>13 DEF StopService
<1>14. ASSUME NEW r \in Runtimes, ShutStorage(r)
      PROVE  ClosingInv'
  BY <1>14 DEF ShutStorage
<1>15. ASSUME NEW c \in Calls, Prepared(c)
      PROVE  ClosingInv'
  BY <1>15 DEF Prepared
<1>16. CASE HostStays \/ \E c \in Calls : Resume(c) \/ StartRun(c)
  <2>1. HostStays
    BY <1>16 DEF Resume, StartRun
  <2> QED
    BY <2>1
<1> QED
  BY <1>1, <1>2, <1>3, <1>4, <1>5, <1>6, <1>7, <1>8, <1>9, <1>10, <1>11, <1>12,
     <1>13, <1>14, <1>15, <1>16, HostSteps

\* Storages are open under the lock.
LEMMA NextStorage ==
  ASSUME TypeOK, MadeInv, NotRetried, NotRetried', Covered, [Next]_vars
  PROVE  StorageUnderLock'
<1>0. /\ FlagsOK /\ registered \subseteq Runtimes
      /\ task \in [Tasks -> TaskState] /\ runtime \in [Runtimes -> RuntimeState]
      /\ call \in [Calls -> CallState]
  BY TypeParts DEF RegisteredOK
<1>a. \A u \in Tasks : Fails(u) \/ Loads(u) =>
        /\ ~Ready /\ ~Ready' /\ initialized' = FALSE
        /\ \A v \in Tasks : v # u => task[v].at = "no" /\ task'[v].at = "no"
        /\ \A r \in Runtimes : runtime[r].service = "none"
        /\ \A c \in Calls : call[c].at \notin InFlight
  BY BeforeReady
<1>b. \A who \in Tasks \cup {HostClose} : runtime' = CloseRuntimes(who) =>
        \A r \in Runtimes :
          \/ /\ r \in registered /\ runtime[r].closer = Nobody
             /\ runtime'[r].closer = who /\ runtime'[r].shutting = "pending"
             /\ runtime'[r].storage = runtime[r].storage /\ runtime'[r].service = runtime[r].service
          \/ ~(r \in registered /\ runtime[r].closer = Nobody) /\ runtime'[r] = runtime[r]
  BY CloseRuntimesAt
<1>c. HostClose \notin Tasks \cup {Nobody} /\ Nobody \notin Tasks
  BY HostAssumption DEF HostClose
<1> USE <1>0, <1>c DEF hostVars, HostStays, CallStays, FlagsOK, TaskState, RuntimeState,
        StorageUnderLock, TaskInv, ClosingInv, RuntimeInv, RuntimeAt, Ready, Covered, RuntimesClosedBy
<1>1. ASSUME NEW t \in Tasks, Loads(t)
      PROVE  StorageUnderLock'
  BY <1>1, <1>a DEF Loads
<1>2. ASSUME NEW t \in Tasks, Fails(t)
      PROVE  StorageUnderLock'
  <2>1. runtime' = CloseRuntimes(t) /\ lock' \in {lock, TRUE} /\ UNCHANGED <<lazy, closing>>
    BY <1>2 DEF Fails, BeginRollback
  <2>2. \A r \in Runtimes : runtime'[r].storage = runtime[r].storage
    BY <2>1, <1>b
  <2> QED
    BY <2>1, <2>2
<1>3. ASSUME NEW t \in Tasks, Load(t)
      PROVE  StorageUnderLock'
  BY <1>3, OneTask DEF Load
<1>4. ASSUME NEW t \in Tasks, Warmed(t)
      PROVE  StorageUnderLock'
  BY <1>4, OneTask DEF Warmed
<1>5. ASSUME NEW t \in Tasks, RollbackTargets(t)
      PROVE  StorageUnderLock'
  BY <1>5, OneTask DEF RollbackTargets
<1>6. ASSUME NEW t \in Tasks, RollbackEnds(t)
      PROVE  StorageUnderLock'
  BY <1>6, OneTask DEF RollbackEnds
<1>7. CASE Close \/ GlobalConfig
  BY <1>7 DEF Close, Held, GlobalConfig
<1>8. CASE ClosePreparations
  BY <1>8 DEF ClosePreparations
<1>9. CASE CloseTargets
  BY <1>9 DEF CloseTargets
<1>10. CASE CloseEnds
  <2>1. lazy \/ (Ready /\ registered = {} /\ RuntimesClosedBy(HostClose))
    BY <1>10 DEF CloseEnds
  <2>2. Ready => \A r \in Runtimes : runtime[r].closer \notin Tasks
    BY DEF NotRetried
  <2>3. ~lazy => \A r \in Runtimes : runtime[r].storage \notin {"opening", "open"}
    BY <2>1, <2>2
  <2> QED
    BY <1>10, <2>3 DEF CloseEnds
<1>11. ASSUME NEW r \in Runtimes, OpenStorage(r)
      PROVE  StorageUnderLock'
  BY <1>11 DEF OpenStorage
<1>12. ASSUME NEW r \in Runtimes, BuildService(r)
      PROVE  StorageUnderLock'
  BY <1>12 DEF BuildService
<1>13. ASSUME NEW r \in Runtimes, StopService(r)
      PROVE  StorageUnderLock'
  BY <1>13 DEF StopService
<1>14. ASSUME NEW r \in Runtimes, ShutStorage(r)
      PROVE  StorageUnderLock'
  BY <1>14 DEF ShutStorage
<1>15. ASSUME NEW c \in Calls, Prepared(c)
      PROVE  StorageUnderLock'
  BY <1>15 DEF Prepared
<1>16. CASE HostStays \/ \E c \in Calls : Resume(c) \/ StartRun(c)
  <2>1. HostStays
    BY <1>16 DEF Resume, StartRun
  <2> QED
    BY <2>1
<1> QED
  BY <1>1, <1>2, <1>3, <1>4, <1>5, <1>6, <1>7, <1>8, <1>9, <1>10, <1>11, <1>12,
     <1>13, <1>14, <1>15, <1>16, HostSteps

\* A call that begins waits for an initialisation, unless that is over.
LEMMA BeginsAt ==
  ASSUME TypeOK, NEW c \in Calls, Begins(c), NEW x \in Calls
  PROVE  \/ call'[x] = call[x]
         \/ call'[x].at = "refused"
         \/ call'[x].at = "initialising" /\ (call'[x].task = Nobody => initialized)
<1>0. call \in [Calls -> CallState]
  BY TypeParts
<1>1. CASE x # c
  BY <1>0, <1>1 DEF Begins
<1>2. CASE x = c /\ call' = [call EXCEPT ![c].at = "refused"]
  BY <1>0, <1>2 DEF CallState
<1>3. ASSUME x = c, NEW a \in Actions, NEW t \in Tasks \cup {Nobody}, t = Nobody => initialized,
             call' = [call EXCEPT ![c] = [at |-> "initialising", root |-> c, stack |-> {a},
                                          target |-> Nobody, task |-> t]]
      PROVE  call'[x].at = "initialising" /\ (call'[x].task = Nobody => initialized)
  BY <1>0, <1>3
<1> QED
  BY <1>1, <1>2, <1>3 DEF Begins

\* A run has what it writes to.
LEMMA NextCall ==
  ASSUME TypeOK, MadeInv, NotRetried, NotRetried', Covered, [Next]_vars, NEW x \in Calls
  PROVE  CallAt(x)'
<1>0. /\ FlagsOK /\ registered \subseteq Runtimes
      /\ task \in [Tasks -> TaskState] /\ runtime \in [Runtimes -> RuntimeState]
      /\ call \in [Calls -> CallState]
  BY TypeParts DEF RegisteredOK
<1>a. \A u \in Tasks : Fails(u) \/ Loads(u) =>
        /\ ~Ready /\ ~Ready' /\ initialized' = FALSE
        /\ \A v \in Tasks : v # u => task[v].at = "no" /\ task'[v].at = "no"
        /\ \A r \in Runtimes : runtime[r].service = "none"
        /\ \A c \in Calls : call[c].at \notin InFlight
  BY BeforeReady
<1>b. \A who \in Tasks \cup {HostClose} : runtime' = CloseRuntimes(who) =>
        \A r \in Runtimes :
          \/ /\ r \in registered /\ runtime[r].closer = Nobody
             /\ runtime'[r].closer = who /\ runtime'[r].shutting = "pending"
             /\ runtime'[r].storage = runtime[r].storage /\ runtime'[r].service = runtime[r].service
          \/ ~(r \in registered /\ runtime[r].closer = Nobody) /\ runtime'[r] = runtime[r]
  BY CloseRuntimesAt
<1>c. HostClose \notin Tasks \cup {Nobody} /\ Nobody \notin Tasks
  BY HostAssumption DEF HostClose
<1>d. \A c \in Calls : Begins(c) =>
        \/ call'[x] = call[x]
        \/ call'[x].at = "refused"
        \/ call'[x].at = "initialising" /\ (call'[x].task = Nobody => initialized)
  BY BeginsAt
<1> USE <1>0, <1>c DEF hostVars, HostStays, CallStays, FlagsOK, TaskState, RuntimeState, CallState,
        TaskInv, ClosingInv, RuntimeInv, RuntimeAt, CallInv, CallAt, MadeInv, InFlight, Ready, Covered, RuntimesClosedBy
<1>1. ASSUME NEW t \in Tasks, Loads(t), CallStays \/ \E c \in Calls : Begins(c)
      PROVE  CallAt(x)'
  <2>1. ~initialized /\ ~Ready /\ \A c \in Calls : call[c].at \notin InFlight
    BY <1>1, <1>a
  <2>2. \/ call'[x] = call[x]
        \/ call'[x].at = "refused"
        \/ call'[x].at = "initialising" /\ call'[x].task # Nobody
    BY <1>1, <1>d, <2>1
  <2> QED
    BY <2>1, <2>2
<1>2. ASSUME NEW t \in Tasks, Fails(t), CallStays \/ \E c \in Calls : Begins(c)
      PROVE  CallAt(x)'
  <2>1. ~initialized /\ ~Ready /\ \A c \in Calls : call[c].at \notin InFlight
    BY <1>2, <1>a
  <2>2. \/ call'[x] = call[x]
        \/ call'[x].at = "refused"
        \/ call'[x].at = "initialising" /\ call'[x].task # Nobody
    BY <1>2, <1>d, <2>1
  <2> QED
    BY <2>1, <2>2
<1>3. ASSUME NEW t \in Tasks, Load(t)
      PROVE  CallAt(x)'
  BY <1>3, OneTask DEF Load
<1>4. ASSUME NEW t \in Tasks, Warmed(t)
      PROVE  CallAt(x)'
  BY <1>4, OneTask DEF Warmed
<1>5. ASSUME NEW t \in Tasks, RollbackTargets(t)
      PROVE  CallAt(x)'
  BY <1>5, OneTask DEF RollbackTargets
<1>6. ASSUME NEW t \in Tasks, RollbackEnds(t)
      PROVE  CallAt(x)'
  BY <1>6, OneTask DEF RollbackEnds
<1>7. CASE Close \/ GlobalConfig
  BY <1>7 DEF Close, Held, GlobalConfig
<1>8. CASE ClosePreparations
  <2>1. /\ runtime' = CloseRuntimes(HostClose) /\ closing' = "runtimes" /\ closing = "preparations"
        /\ UNCHANGED <<lazy, closed, global, registered, task, call>> /\ call[x].at # "preparing"
    BY <1>8 DEF ClosePreparations
  <2>2. \A r \in Runtimes : Ready => runtime[r].closer \notin Tasks
    BY DEF NotRetried
  <2>3. /\ runtime'[call[x].target].closer = HostClose \/ call[x].target \notin registered \/ ~Ready
        /\ call[x].at \in InFlight => runtime'[call[x].target].storage = runtime[call[x].target].storage
        /\ runtime[call[x].target].closer = Nobody \/ call[x].at \notin InFlight
    BY <2>1, <2>2, <1>b
  <2>4. call[x].at \in InFlight => runtime'[call[x].target].shutting \in {"pending", runtime[call[x].target].shutting}
    BY <2>1, <1>b
  <2> QED
    BY <2>1, <2>3, <2>4
<1>9. CASE CloseTargets
  BY <1>9 DEF CloseTargets
<1>10. CASE CloseEnds
  BY <1>10 DEF CloseEnds
<1>11. ASSUME NEW r \in Runtimes, OpenStorage(r)
      PROVE  CallAt(x)'
  BY <1>11 DEF OpenStorage
<1>12. ASSUME NEW r \in Runtimes, BuildService(r)
      PROVE  CallAt(x)'
  BY <1>12 DEF BuildService
<1>13. ASSUME NEW r \in Runtimes, StopService(r)
      PROVE  CallAt(x)'
  BY <1>13 DEF StopService
<1>14. ASSUME NEW r \in Runtimes, ShutStorage(r)
      PROVE  CallAt(x)'
  BY <1>14 DEF ShutStorage
<1>15. ASSUME NEW c \in Calls, Prepared(c)
      PROVE  CallAt(x)'
  <2>1. UNCHANGED <<lazy, closed, closing, registered, task, global>>
    BY <1>15 DEF Prepared
  <2>2. \A r \in Runtimes : /\ runtime'[r].closer = runtime[r].closer /\ runtime'[r].storage = runtime[r].storage
                            /\ runtime'[r].shutting = runtime[r].shutting
    BY <1>15, PreparedAt
  <2>3. \/ call'[x] = call[x]
        \/ /\ call[x].at = "preparing" /\ call'[x].at \in {"opening", "refused"}
           /\ call'[x].target = call[x].target /\ call'[x].task = call[x].task
    BY <1>15 DEF Prepared, Settle
  <2> QED
    BY <2>1, <2>2, <2>3
<1>16. ASSUME NEW c \in Calls, Resume(c)
      PROVE  CallAt(x)'
  BY <1>16 DEF Resume, Targets
<1>17. ASSUME NEW c \in Calls, StartRun(c)
      PROVE  CallAt(x)'
  <2>1. /\ HostStays
        /\ \/ call'[x] = call[x]
           \/ call'[x].at = "refused"
           \/ /\ call[x].at = "opening" /\ call'[x].at = "running"
              /\ runtime[call[x].target].service = "ready"
              /\ call'[x].target = call[x].target /\ call'[x].task = call[x].task
    BY <1>17, StartRunAt
  <2> QED
    BY <2>1
<1>18. ASSUME HostStays, NEW c \in Calls, Begins(c)
      PROVE  CallAt(x)'
  BY <1>18 DEF Begins, Fresh
<1>19. ASSUME HostStays, NEW c \in Calls, Settles(c)
      PROVE  CallAt(x)'
  BY <1>19 DEF Settles, Settle
<1>20. ASSUME HostStays, NEW c \in Calls, NEW d \in Calls, NEW a \in Actions, Invoke(c, d, a)
      PROVE  CallAt(x)'
  <2>1. Ready /\ Ready' /\ Nobody \notin Tasks
    BY <1>20 DEF Invoke
  <2>2. CASE call' = [call EXCEPT ![d].at = "refused"]
    BY <1>20, <2>1, <2>2
  <2>3. ASSUME ~closed, NEW r \in Targets(a),
               call' = [call EXCEPT ![d] = [at |-> "preparing", root |-> call[c].root, target |-> r,
                                            stack |-> call[c].stack \cup {a}, task |-> Nobody]]
        PROVE  CallAt(x)'
    <3>1. closing' = "no" /\ registered' = registered /\ r \in registered
      BY <1>20, <2>3 DEF Targets
    <3>2. CASE x = d
      BY <2>1, <2>3, <3>1, <3>2
    <3>3. CASE x # d
      BY <1>20, <2>1, <2>3, <3>1, <3>3
    <3> QED
      BY <3>2, <3>3
  <2> QED
    BY <1>20, <2>2, <2>3 DEF Invoke
<1>21. CASE HostStays /\ CallStays
  BY <1>21 DEF vars
<1> QED
  BY <1>1, <1>2, <1>3, <1>4, <1>5, <1>6, <1>7, <1>8, <1>9, <1>10, <1>11, <1>12,
     <1>13, <1>14, <1>15, <1>16, <1>17, <1>18, <1>19, <1>20, <1>21, HostSteps

\* A task that was begun stays so, and a host of the factory begins one.
LEMMA TasksStay ==
  ASSUME TypeOK, [Next]_vars
  PROVE  /\ \A t \in Tasks : task[t].at # "no" => task'[t].at # "no"
         /\ lazy' = lazy
<1>0. task \in [Tasks -> TaskState]
  BY TypeParts
<1>1. ASSUME NEW t \in Tasks,
             Loads(t) \/ Fails(t) \/ Load(t) \/ Warmed(t) \/ RollbackTargets(t) \/ RollbackEnds(t)
      PROVE  (\A u \in Tasks : task[u].at # "no" => task'[u].at # "no") /\ lazy' = lazy
  <2>1. CASE Load(t)
    BY <1>0, <2>1 DEF Load
  <2>2. CASE Loads(t) \/ Fails(t) \/ Warmed(t) \/ RollbackTargets(t) \/ RollbackEnds(t)
    BY <1>0, <2>2 DEF Loads, Fails, BeginRollback, Warmed, RollbackTargets, RollbackEnds, TaskState
  <2> QED
    BY <1>1, <2>1, <2>2
<1>2. ASSUME Close \/ ClosePreparations \/ CloseTargets \/ CloseEnds \/ GlobalConfig \/ HostStays
      PROVE  task' = task /\ lazy' = lazy
  BY <1>2 DEF Close, ClosePreparations, CloseTargets, CloseEnds, GlobalConfig, HostStays, hostVars
<1>3. ASSUME NEW r \in Runtimes, OpenStorage(r) \/ BuildService(r) \/ StopService(r) \/ ShutStorage(r)
      PROVE  task' = task /\ lazy' = lazy
  BY <1>3 DEF OpenStorage, BuildService, StopService, ShutStorage, hostVars
<1>4. ASSUME NEW c \in Calls, Resume(c) \/ Prepared(c) \/ StartRun(c)
      PROVE  task' = task /\ lazy' = lazy
  BY <1>4 DEF Resume, Prepared, StartRun, hostVars
<1> QED
  BY <1>1, <1>2, <1>3, <1>4, HostSteps

LEMMA NextFactory == TypeOK /\ FactoryInv /\ [Next]_vars => FactoryInv'
<1> SUFFICES ASSUME TypeOK, FactoryInv, [Next]_vars
             PROVE  FactoryInv'
  OBVIOUS
<1>0. task \in [Tasks -> TaskState] /\ lazy' = lazy
  BY TypeParts, TasksStay
<1>1. ASSUME NEW t \in Tasks, BeginInit(t), \A u \in Tasks : task[u].at = "no"
      PROVE  NotRetried'
  BY <1>0, <1>1 DEF BeginInit, BeginRollback, NotRetried, TaskState
<1>2. CASE Create
  BY <1>1, <1>2 DEF Create, FactoryInv
<1>3. ASSUME NEW c \in Calls, NEW a \in Actions, Start(c, a)
      PROVE  FactoryInv'
  BY <1>0, <1>3 DEF Start, Held, FactoryInv, NotRetried, hostVars
<1>4. ASSUME \A t \in Tasks : task'[t].at # "no" => task[t].at # "no"
      PROVE  FactoryInv'
  BY <1>0, <1>4 DEF FactoryInv, NotRetried
<1>5. ASSUME NEW t \in Tasks,
             Load(t) \/ Warmed(t) \/ InitFails(t) \/ RollbackTargets(t) \/ RollbackEnds(t)
      PROVE  \A u \in Tasks : task'[u].at # "no" => task[u].at # "no"
  BY <1>0, <1>5 DEF Load, Warmed, InitFails, BeginRollback, RollbackTargets, RollbackEnds, TaskState
<1>6. ASSUME \/ Close \/ ClosePreparations \/ CloseTargets \/ CloseEnds \/ GlobalConfig
             \/ UNCHANGED vars
      PROVE  task' = task
  BY <1>6 DEF Close, ClosePreparations, CloseTargets, CloseEnds, GlobalConfig, hostVars, vars
<1>7. ASSUME NEW r \in Runtimes, OpenStorage(r) \/ BuildService(r) \/ StopService(r) \/ ShutStorage(r)
      PROVE  task' = task
  BY <1>7 DEF OpenStorage, BuildService, StopService, ShutStorage, hostVars
<1>8. ASSUME NEW c \in Calls,
             \/ Resume(c) \/ PreparationFails(c) \/ Prepared(c) \/ StartRun(c)
             \/ RunEnds(c) \/ RunIsCut(c)
             \/ \E d \in Calls, a \in Actions : Invoke(c, d, a)
      PROVE  task' = task
  BY <1>8 DEF Resume, PreparationFails, Prepared, StartRun, RunEnds, RunIsCut, Invoke, hostVars
<1> QED
  BY <1>2, <1>3, <1>4, <1>5, <1>6, <1>7, <1>8 DEF Next

-----------------------------------------------------------------------------
(* The theorems *)

LEMMA InitInvariant == Init => IInv /\ SubRunsCounted
<1> SUFFICES ASSUME Init
             PROVE  IInv /\ SubRunsCounted
  OBVIOUS
<1>1. TypeOK
  <2>1. FlagsOK /\ RegisteredOK
    BY DEF Init, FlagsOK, RegisteredOK
  <2>2. task \in [Tasks -> TaskState]
    BY DEF Init, TaskState
  <2>3. runtime \in [Runtimes -> RuntimeState]
    BY DEF Init, RuntimeState, NoRuntimeState
  <2>4. call \in [Calls -> CallState]
    BY DEF Init, CallState, NoCallState
  <2>5. subRuns \in [Calls -> 0..MaxSubRuns]
    BY HostAssumption DEF Init
  <2> QED
    BY <2>1, <2>2, <2>3, <2>4, <2>5, TypeParts
<1>2. \A root : Nested(root) = {}
  BY DEF Init, Nested, NoCallState, IsChild
<1>3. SubRunsCounted
  BY <1>2, FS_EmptySet DEF Init, SubRunsCounted, Nested
<1>4. MadeInv /\ FactoryInv
  BY DEF Init, MadeInv, NoCallState, InFlight, FactoryInv, NotRetried
<1>5. TaskInv /\ ClosingInv /\ CallInv /\ StorageUnderLock
  BY DEF Init, TaskInv, ClosingInv, CallInv, CallAt, NoCallState, NoRuntimeState, InFlight,
         StorageUnderLock
<1>6. RuntimeInv
  BY HostAssumption DEF Init, RuntimeInv, RuntimeAt, NoRuntimeState, HostClose
<1> QED
  BY <1>1, <1>3, <1>4, <1>5, <1>6 DEF IInv, Covered

LEMMA NextInvariant == IInv /\ [Next]_vars => IInv'
<1> SUFFICES ASSUME IInv, [Next]_vars
             PROVE  IInv'
  OBVIOUS
<1>1. TypeOK /\ MadeInv /\ FactoryInv /\ (NotRetried => Covered)
  BY DEF IInv
<1>2. TypeOK' /\ MadeInv' /\ FactoryInv'
  BY <1>1, NextType, NextMade, NextFactory
<1>3. NotRetried' => NotRetried
  BY <1>1, TasksStay DEF NotRetried
<1>4. NotRetried' => TaskInv' /\ ClosingInv' /\ StorageUnderLock'
  BY <1>1, <1>3, NextTasks, NextClosing, NextStorage
<1>5. NotRetried' => \A r \in Runtimes : RuntimeAt(r)'
  BY <1>1, <1>3, NextRuntime
<1>6. NotRetried' => \A c \in Calls : CallAt(c)'
  BY <1>1, <1>3, NextCall
<1> QED
  BY <1>2, <1>4, <1>5, <1>6 DEF IInv, Covered, RuntimeInv, CallInv

LEMMA Invariance == Spec => [](IInv /\ SubRunsCounted)
<1>1. IInv => TypeOK /\ MadeInv
  BY DEF IInv
<1>2. (IInv /\ SubRunsCounted) /\ [Next]_vars => (IInv /\ SubRunsCounted)'
  BY <1>1, NextInvariant, NextSubRuns
<1> QED
  BY <1>2, InitInvariant, PTL DEF Spec

LEMMA RunsAreCovered == ASSUME TypeOK, Covered PROVE RunsOnlyWhileOpen
<1> SUFFICES ASSUME NEW c \in Calls, call[c].at = "running"
             PROVE  runtime[call[c].target].storage = "open" /\ global /\ lock
  BY DEF RunsOnlyWhileOpen
<1>1. /\ Ready /\ closing # "done"
      /\ runtime[call[c].target].storage = "open" /\ global
  BY DEF Covered, CallInv, CallAt, InFlight
<1>2. lock
  BY <1>1 DEF Covered, TaskInv, Ready
<1> QED
  BY <1>1, <1>2

\* What is in use is held, for any packages, calls and awaits: until a lazy host
\* retries its initialisation, no run outlives its storages and the lock.  The
\* storages of a host of the factory are open only under the lock, and those of a
\* lazy host until it is closed (host.ts:506-640, 2183-2238).
THEOREM HostCoversUse == Spec => []UseIsCovered
<1>1. IInv => UseIsCovered
  BY RunsAreCovered DEF IInv, Covered, UseIsCovered
<1> QED
  BY <1>1, Invariance, PTL

\* A host of the factory never retries: what it opens is under the lock, and
\* what its runs write to is there, without any condition (host.ts:468-490).
THEOREM FactoryHostIsCovered == Spec => [](~lazy => UseIsCovered /\ StorageUnderLock /\ RunsOnlyWhileOpen)
<1>1. IInv => (~lazy => UseIsCovered /\ StorageUnderLock /\ RunsOnlyWhileOpen)
  BY RunsAreCovered DEF IInv, Covered, FactoryInv, UseIsCovered
<1> QED
  BY <1>1, Invariance, PTL

\* The counter of a root is the number of its nested calls in flight, so that
\* none keeps a slot or gives one back twice (invocation/policy.ts:283-346).
THEOREM SlotsAreCounted == Spec => []SubRunsCounted
  BY Invariance, PTL
==============================================================================
