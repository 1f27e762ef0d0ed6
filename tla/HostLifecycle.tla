--------------------------- MODULE HostLifecycle ---------------------------
(***************************************************************************)
(* The host (host/host.ts) and the package runtimes it owns               *)
(* (package/runtime.ts): how the data directory lock, the package storages, *)
(* the shared global storage and the execution services come up and go     *)
(* down while calls are dispatched, prepared, nested and closed upon.      *)
(*                                                                         *)
(* A host is an owner (recoverOrphans is not false).  It is made by the    *)
(* factory, which gives it to its user when it is initialised, or, when    *)
(* lazy, by the deprecated constructor, and is then initialised by its     *)
(* first call.  The synchronous part of a function is one step; what an    *)
(* await separates are several.  A run is what ExecutionService models and  *)
(* is running or over here.                                                *)
(***************************************************************************)
EXTENDS Naturals, FiniteSets

CONSTANTS
  Explicit,    \* packages named in the options
  Linked,      \* packages found after the first await of the initialisation
  Actions,     \* actions of those packages
  Home(_),     \* the package of an action
  MaxCalls,    \* calls that may ever be made, of a user or of an action (bound)
  Tasks,       \* attempts to initialise (bound)
  MaxSubRuns, MaxCallDepth,
  Nobody

ASSUME HostAssumption ==
  /\ MaxCalls \in Nat /\ MaxSubRuns \in Nat \ {0} /\ MaxCallDepth \in Nat \ {0}
  /\ \A a \in Actions : Home(a) \in Explicit \cup Linked
  /\ Nobody \notin 1..MaxCalls /\ Nobody \notin (Explicit \cup Linked) \X Tasks
  /\ Nobody \notin Tasks /\ "close" \notin Tasks \cup {Nobody}

VARIABLES
  lazy,        \* made by the constructor, not by the factory
  closed, initialized, initPromise, lock, global,
  registered,  \* this.runtimes
  task,        \* where each performInitialization stands
  closing,     \* where close() stands
  runtime,
  call,        \* stack is its callStack, without order: the cycle check keeps it free of
               \* repetitions; root is the call whose sub-runs it counts among
  subRuns      \* policy.activeSubRunsPerRoot

vars == <<lazy, closed, initialized, initPromise, lock, global, registered, task,
          closing, runtime, call, subRuns>>
hostVars == <<lazy, closed, initialized, initPromise, lock, registered, task, closing>>

Calls == 1..MaxCalls
Runtimes == (Explicit \cup Linked) \X Tasks
HostClose == "close"

\* Every variable has its type, one runtime is registered for a package
\* (host.ts:630-664), and no root has more sub-runs than its quota
\* (invocation/policy.ts:283-346).
TypeOK ==
  /\ lazy \in BOOLEAN
  /\ closed \in BOOLEAN /\ initialized \in BOOLEAN /\ lock \in BOOLEAN /\ global \in BOOLEAN
  /\ initPromise \in Tasks \cup {Nobody}
  /\ registered \subseteq Runtimes
  /\ \A r1, r2 \in registered : r1[1] = r2[1] => r1 = r2
  /\ task \in [Tasks -> [at : {"no", "loading", "warming", "doomed", "ready", "rollback",
                              "targets", "failed"},
                        warms : SUBSET Runtimes]]
  /\ closing \in {"no", "preparations", "runtimes", "targets", "done"}
  /\ runtime \in [Runtimes -> [closer : Tasks \cup {Nobody, HostClose},
                               storage : {"none", "opening", "open", "shut"},
                               service : {"none", "building", "ready", "shut"},
                               shutting : {"no", "pending", "service", "done"}]]
  /\ call \in [Calls -> [at : {"no", "initialising", "preparing", "opening", "running",
                               "ended", "aborted", "refused"},
                         root : Calls \cup {Nobody}, stack : SUBSET Actions,
                         target : Runtimes \cup {Nobody}, task : Tasks \cup {Nobody}]]
  /\ subRuns \in [Calls -> 0..MaxSubRuns]

NoRuntimeState == [closer |-> Nobody, storage |-> "none", service |-> "none", shutting |-> "no"]
NoCallState == [at |-> "no", root |-> Nobody, stack |-> {}, target |-> Nobody, task |-> Nobody]

Init ==
  /\ lazy \in BOOLEAN
  /\ closed = FALSE /\ initialized = FALSE /\ lock = FALSE /\ global = FALSE
  /\ initPromise = Nobody /\ registered = {} /\ closing = "no"
  /\ task = [t \in Tasks |-> [at |-> "no", warms |-> {}]]
  /\ runtime = [r \in Runtimes |-> NoRuntimeState]
  /\ call = [c \in Calls |-> NoCallState]
  /\ subRuns = [c \in Calls |-> 0]

\* The user holds the host: from the start, or when create() has returned it.
Held == lazy \/ initialized

(***************************************************************************)
(* Closing runtimes, by a failed initialisation or by close()              *)
(***************************************************************************)
\* runtime.close() returns at once when somebody else has called it before.
CloseRuntimes(who) ==
  [r \in Runtimes |->
     IF r \in registered /\ runtime[r].closer = Nobody
     THEN [runtime[r] EXCEPT !.closer = who, !.shutting = "pending"]
     ELSE runtime[r]]

RuntimesClosedBy(who) ==
  \A r \in Runtimes : runtime[r].closer = who => runtime[r].shutting = "done"

\* What has begun to open is waited for, then the service stops taking runs.
StopService(r) ==
  /\ runtime[r].shutting = "pending"
  /\ runtime[r].storage # "opening" /\ runtime[r].service # "building"
  /\ runtime' = [runtime EXCEPT ![r].shutting = "service",
                                ![r].service = IF @ = "ready" THEN "shut" ELSE @]
  /\ UNCHANGED <<hostVars, global, call, subRuns>>

\* Mutant: the storage is closed without waiting for the runs.
ShutStorageAtOnce(r) ==
  /\ runtime[r].shutting = "service"
  /\ runtime' = [runtime EXCEPT ![r].shutting = "done",
                                ![r].storage = IF @ = "open" THEN "shut" ELSE @]
  /\ UNCHANGED <<hostVars, global, call, subRuns>>

\* Once the runs are over the storage is closed.
ShutStorage(r) ==
  /\ runtime[r].shutting = "service"
  /\ \A c \in Calls : ~(call[c].at = "running" /\ call[c].target = r)
  /\ runtime' = [runtime EXCEPT ![r].shutting = "done",
                                ![r].storage = IF @ = "open" THEN "shut" ELSE @]
  /\ UNCHANGED <<hostVars, global, call, subRuns>>

(***************************************************************************)
(* Initialisation                                                          *)
(***************************************************************************)
BeginRollback(t) ==
  /\ task' = [task EXCEPT ![t].at = "rollback"]
  /\ initialized' = FALSE
  /\ runtime' = CloseRuntimes(t)

\* Up to the first await; a failure in here leaves initPromise set, because
\* the assignment of the rejected promise comes last.
BeginInit(t) ==
  /\ task[t].at = "no" /\ initPromise' = t
  /\ \/ /\ lock' = TRUE
        /\ \A r \in registered : r[1] \notin Explicit
        /\ registered' = registered \cup Explicit \X {t}
        /\ task' = [task EXCEPT ![t].at = "loading"]
        /\ UNCHANGED <<initialized, runtime>>
     \/ /\ lock' \in {lock, TRUE}
        /\ BeginRollback(t)
        /\ UNCHANGED registered
  /\ UNCHANGED <<lazy, closed, closing, global>>

\* The factory initialises the host it makes once, and throws if that fails.
Create ==
  /\ ~lazy /\ \A t \in Tasks : task[t].at = "no"
  /\ \E t \in Tasks : BeginInit(t)
  /\ UNCHANGED <<call, subRuns>>

\* registerLinkedPackages, then prewarmManagedRuntimes; a runtime that is
\* closed by now refuses, but only after all of them have been asked.
Load(t) ==
  LET all == registered \cup {r \in Linked \X {t} : \A s \in registered : s[1] # r[1]}
      live == {r \in all : runtime[r].closer = Nobody} IN
  /\ task[t].at = "loading"
  /\ task' = [task EXCEPT ![t] = [at |-> IF live = all THEN "warming" ELSE "doomed",
                                 warms |-> all]]
  /\ registered' = all
  /\ runtime' = [r \in Runtimes |->
       IF r \in live /\ runtime[r].storage = "none"
       THEN [runtime[r] EXCEPT !.storage = "opening"] ELSE runtime[r]]
  /\ UNCHANGED <<lazy, closed, initialized, initPromise, lock, global, closing, call, subRuns>>

OpenStorage(r) ==
  /\ runtime[r].storage = "opening"
  /\ \E end \in {"open", "none"} : runtime' = [runtime EXCEPT ![r].storage = end]
  /\ UNCHANGED <<hostVars, global, call, subRuns>>

Warmed(t) ==
  /\ task[t].at = "warming"
  /\ \A r \in task[t].warms : runtime[r].storage \in {"open", "shut"}
  /\ task' = [task EXCEPT ![t].at = "ready"]
  /\ initialized' = TRUE
  /\ global' = (global \/ task[t].warms # {})
  /\ UNCHANGED <<lazy, closed, initPromise, lock, registered, closing, runtime, call, subRuns>>

InitFails(t) ==
  /\ \/ task[t].at \in {"loading", "doomed"}
     \/ task[t].at = "warming" /\ \E r \in task[t].warms : runtime[r].storage = "none"
  /\ BeginRollback(t)
  /\ initPromise' = Nobody
  /\ UNCHANGED <<lazy, closed, lock, global, registered, closing, call, subRuns>>

RollbackTargets(t) ==
  /\ task[t].at = "rollback" /\ RuntimesClosedBy(t)
  /\ task' = [task EXCEPT ![t].at = "targets"]
  /\ registered' = {}
  /\ UNCHANGED <<lazy, closed, initialized, initPromise, lock, global, closing, runtime, call, subRuns>>

RollbackEnds(t) ==
  /\ task[t].at = "targets"
  /\ task' = [task EXCEPT ![t].at = "failed"]
  /\ global' = FALSE /\ lock' = FALSE /\ closed' = TRUE
  /\ UNCHANGED <<lazy, initialized, initPromise, registered, closing, runtime, call, subRuns>>

(***************************************************************************)
(* close()                                                                 *)
(***************************************************************************)
Close ==
  /\ Held /\ ~closed /\ closing = "no"
  /\ closed' = TRUE /\ closing' = "preparations"
  /\ UNCHANGED <<lazy, initialized, initPromise, lock, global, registered, task, runtime, call, subRuns>>

ClosePreparations ==
  /\ closing = "preparations"
  /\ \A c \in Calls : call[c].at # "preparing"
  /\ closing' = "runtimes"
  /\ runtime' = CloseRuntimes(HostClose)
  /\ UNCHANGED <<lazy, closed, initialized, initPromise, lock, global, registered, task, call, subRuns>>

CloseTargets ==
  /\ closing = "runtimes" /\ RuntimesClosedBy(HostClose)
  /\ closing' = "targets"
  /\ registered' = {}
  /\ UNCHANGED <<lazy, closed, initialized, initPromise, lock, global, task, runtime, call, subRuns>>

CloseEnds ==
  /\ closing = "targets"
  /\ closing' = "done"
  /\ global' = FALSE /\ lock' = FALSE
  /\ UNCHANGED <<lazy, closed, initialized, initPromise, registered, task, runtime, call, subRuns>>

\* A call of the management port for "global": ensureInitialized lets it
\* through for ever once the host has been initialised.
GlobalConfig ==
  /\ Held /\ initialized
  /\ global' = TRUE
  /\ UNCHANGED <<hostVars, runtime, call, subRuns>>

(***************************************************************************)
(* Calls                                                                   *)
(***************************************************************************)
\* checkSubRunQuota, acquireSubRun
WithinQuota(root) == subRuns[root] < MaxSubRuns

Targets(a) == {r \in registered : r[1] = Home(a)}
InFlight == {"preparing", "opening", "running"}
\* Calls are alike and are numbered as they are made.
Fresh(c) == call[c].at = "no" /\ \A d \in Calls : d < c => call[d].at # "no"
IsChild(c) == call[c].root \notin {Nobody, c}

\* releaseSubRun
Released(root) == [subRuns EXCEPT ![root] = IF @ <= 1 THEN 0 ELSE @ - 1]

\* The call is answered; the invoker's finally gives the slot back.
Settle(c, how) ==
  /\ call' = [call EXCEPT ![c].at = how]
  /\ subRuns' = IF IsChild(c) THEN Released(call[c].root) ELSE subRuns

\* startAction, up to its await of the initialisation.
Start(c, a) ==
  /\ Held /\ Fresh(c)
  /\ LET begun(t) == [call EXCEPT ![c] = [at |-> "initialising", root |-> c, stack |-> {a},
                                          target |-> Nobody, task |-> t]] IN
     \/ /\ initialized /\ call' = begun(Nobody)
        /\ UNCHANGED <<hostVars, global, runtime>>
     \/ /\ ~initialized /\ closed
        /\ call' = [call EXCEPT ![c].at = "refused"]
        /\ UNCHANGED <<hostVars, global, runtime>>
     \/ /\ ~initialized /\ ~closed /\ initPromise # Nobody
        /\ call' = begun(initPromise)
        /\ UNCHANGED <<hostVars, global, runtime>>
     \/ /\ ~initialized /\ ~closed /\ initPromise = Nobody
        /\ \E t \in Tasks : BeginInit(t) /\ call' = begun(t)
  /\ UNCHANGED subRuns

\* startAction from there, and dispatchLocalInvocation up to the preparation.
Resume(c) ==
  LET t == call[c].task IN
  /\ call[c].at = "initialising"
  /\ t \in Tasks => task[t].at \in {"ready", "failed"}
  /\ LET targets == UNION {Targets(a) : a \in call[c].stack} IN
     IF closed \/ targets = {} \/ (t # Nobody /\ task[t].at = "failed")
     THEN call' = [call EXCEPT ![c].at = "refused"]
     ELSE \E r \in targets : call' = [call EXCEPT ![c].at = "preparing", ![c].target = r]
  /\ UNCHANGED <<hostVars, global, runtime, subRuns>>

\* ctx.actions.invoke, up to the preparation of its target.  What an action left
\* behind may call it after the run, as long as the signal is not aborted.
Invoke(c, d, a) ==
  LET root == call[c].root IN
  /\ call[c].at \in {"running", "ended"} /\ Fresh(d)
  /\ IF \/ closed \/ Targets(a) = {}
        \/ Cardinality(call[c].stack) >= MaxCallDepth \/ a \in call[c].stack
        \/ ~WithinQuota(root)
     THEN call' = [call EXCEPT ![d].at = "refused"] /\ UNCHANGED subRuns
     ELSE /\ subRuns' = [subRuns EXCEPT ![root] = @ + 1]
          /\ \E r \in Targets(a) :
               call' = [call EXCEPT ![d] = [at |-> "preparing", root |-> root, target |-> r,
                                            stack |-> call[c].stack \cup {a}, task |-> Nobody]]
  /\ UNCHANGED <<hostVars, global, runtime>>

\* Mutant: a failed preparation returns before the try whose finally releases.
PreparationFailsKeepingSlot(c) ==
  /\ call[c].at = "preparing"
  /\ call' = [call EXCEPT ![c].at = "refused"]
  /\ UNCHANGED <<hostVars, global, runtime, subRuns>>

\* The preparation of the package ends; the preparer may fail, the caller may
\* have cancelled, the deadline may have passed.
PreparationFails(c) ==
  /\ call[c].at = "preparing"
  /\ Settle(c, "refused")
  /\ UNCHANGED <<hostVars, global, runtime>>

\* The host is looked at again, then runtime.startInvocation looks at itself.
Prepared(c) ==
  LET r == call[c].target IN
  /\ call[c].at = "preparing"
  /\ IF closed \/ runtime[r].closer # Nobody
     THEN Settle(c, "refused") /\ UNCHANGED runtime
     ELSE /\ call' = [call EXCEPT ![c].at = "opening"]
          /\ runtime' = [runtime EXCEPT ![r].service = IF @ = "none" THEN "building" ELSE @]
          /\ UNCHANGED subRuns
  /\ UNCHANGED <<hostVars, global>>

\* buildExecutionService: the storage is awaited, the host's global storage is
\* taken, and opened if it is not.
BuildService(r) ==
  /\ runtime[r].service = "building" /\ runtime[r].storage # "opening"
  /\ \/ /\ runtime[r].storage = "open"
        /\ runtime' = [runtime EXCEPT ![r].service = "ready"]
        /\ global' = TRUE
     \/ /\ runtime' = [runtime EXCEPT ![r].service = "none"]
        /\ UNCHANGED global
  /\ UNCHANGED <<hostVars, call, subRuns>>

\* Mutant: a service that was shut meanwhile is still waited for.
StartRunOnlyWhenReady(c) ==
  /\ call[c].at = "opening" /\ runtime[call[c].target].service = "ready"
  /\ call' = [call EXCEPT ![c].at = "running"]
  /\ UNCHANGED <<hostVars, global, runtime, subRuns>>

\* service.start, which refuses when the service is closing, or for reasons of
\* its own.
StartRun(c) ==
  LET r == call[c].target IN
  /\ call[c].at = "opening" /\ runtime[r].service # "building"
  /\ \/ /\ runtime[r].service = "ready"
        /\ call' = [call EXCEPT ![c].at = "running"]
        /\ UNCHANGED subRuns
     \/ Settle(c, "refused")
  /\ UNCHANGED <<hostVars, global, runtime>>

\* The action settles, or its run is cancelled or times out.
RunEnds(c) ==
  /\ call[c].at = "running"
  /\ \E how \in {"ended", "aborted"} : Settle(c, how)
  /\ UNCHANGED <<hostVars, global, runtime>>

\* Mutant: only root runs are aborted by the closing service.
RunIsCutAtRoot(c) == ~IsChild(c) /\ call[c].at = "running"
  /\ runtime[call[c].target].shutting = "service"
  /\ Settle(c, "aborted")
  /\ UNCHANGED <<hostVars, global, runtime>>

\* The closing service aborts its runs and gives them a grace time.
RunIsCut(c) ==
  /\ call[c].at = "running" /\ runtime[call[c].target].shutting = "service"
  /\ Settle(c, "aborted")
  /\ UNCHANGED <<hostVars, global, runtime>>

Next ==
  \/ Create \/ Close \/ ClosePreparations \/ CloseTargets \/ CloseEnds \/ GlobalConfig
  \/ \E t \in Tasks : Load(t) \/ Warmed(t) \/ InitFails(t) \/ RollbackTargets(t) \/ RollbackEnds(t)
  \/ \E r \in Runtimes : OpenStorage(r) \/ BuildService(r) \/ StopService(r) \/ ShutStorage(r)
  \/ \E c \in Calls : \/ Resume(c) \/ PreparationFails(c) \/ Prepared(c) \/ StartRun(c)
                      \/ RunEnds(c) \/ RunIsCut(c)
                      \/ \E a \in Actions : Start(c, a) \/ \E d \in Calls : Invoke(c, d, a)

Spec == Init /\ [][Next]_vars

\* Every await of the host and of its storages ends, a preparation is told to
\* stop and does, and the grace time of a closing service passes.  Nothing is
\* assumed of the user, nor that an action ends by itself.
FairSpec ==
  /\ Spec
  /\ WF_vars(ClosePreparations) /\ WF_vars(CloseTargets) /\ WF_vars(CloseEnds)
  /\ \A t \in Tasks : WF_vars(Load(t) \/ Warmed(t) \/ InitFails(t) \/ RollbackTargets(t) \/ RollbackEnds(t))
  /\ \A r \in Runtimes : WF_vars(OpenStorage(r) \/ BuildService(r) \/ StopService(r) \/ ShutStorage(r))
  /\ \A c \in Calls : WF_vars(Resume(c) \/ Prepared(c) \/ StartRun(c) \/ RunIsCut(c))

(***************************************************************************)
(* Properties                                                              *)
(***************************************************************************)
\* A package database is opened, and stays open, only under the data directory
\* lock, however an initialisation that fails half way, its roll back, close()
\* and calls that still open a service overlap.  This is so of a host of the
\* factory, and of a lazy one until it is closed: performInitialization never
\* looks at isClosed, and a lazy host that is closed during its first
\* initialisation opens storages when close() has given the lock back.
StorageUnderLock ==
  ~lazy \/ closing = "no" =>
    ((\E r \in Runtimes : runtime[r].storage \in {"opening", "open"}) => lock)

\* No run outlives what it writes to: its package storage, the global storage
\* and the lock are all still there, whatever close() has already done.
RunsOnlyWhileOpen ==
  \A c \in Calls : call[c].at = "running" =>
    runtime[call[c].target].storage = "open" /\ global /\ lock

\* No call has retried an initialisation that failed; on a lazy host it may,
\* while the roll back that is about to give up the lock still runs.
NotRetried ==
  \A t, u \in Tasks : task[t].at # "no" /\ task[u].at # "no" => t = u

\* What is in use is held: the state is well-typed, and lock, storages and runs
\* come and go in the order the two properties before require (host.ts:2183),
\* until a lazy host retries its initialisation; for its storages, until it is
\* closed, too.
UseIsCovered == TypeOK /\ (NotRetried => StorageUnderLock /\ RunsOnlyWhileOpen)

\* The sub-run counter of a root is the number of its nested calls in flight:
\* no outcome of a nested call keeps a slot or gives one back twice.
SubRunsCounted ==
  \A root \in Calls :
    subRuns[root] = Cardinality({c \in Calls : IsChild(c) /\ call[c].root = root
                                              /\ call[c].at \in InFlight})

\* close() returns, whatever is being prepared, opened or running.
CloseReturns == (closing # "no") ~> (closing = "done")

\* A call that has begun is started or refused, also when the host closes.
CallsAreAnswered ==
  \A c \in Calls : (call[c].at \in {"initialising", "preparing", "opening"})
                     ~> (call[c].at \in {"running", "ended", "aborted", "refused"})

=============================================================================
