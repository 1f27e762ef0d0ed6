---------------------------- MODULE ProcessManager ----------------------------
(***************************************************************************)
(* Managed processes: start, stop and shutdown of process/                 *)
(* process-manager.ts with its reservation table and quota, over the node  *)
(* driver of process/process-driver.ts and the operating system.           *)
(*                                                                         *)
(* A Call is one start(); the process it creates has a fresh id, so it is  *)
(* named by the call.  An action is what runs between two awaits.  The     *)
(* metadata store answers and does not fail, as the in-memory one, which   *)
(* is the only one, does not.  Input, output data and the reasons why a    *)
(* process ended are left out.                                             *)
(***************************************************************************)
EXTENDS Integers, FiniteSets

CONSTANTS
    Call,       \* invocations of start()
    Request,    \* request ids
    Payload,    \* hashes of the launch specification and limits
    Asks,       \* Asks[c]: the requests, with their payload, that a call may make
    MaxActive,  \* quotas.maxActiveProcessesPerHost
    Signalled,  \* calls whose caller may abort them
    Limited,    \* payloads whose idle or lifetime limit is above zero
    None        \* no call

ASSUME CallAssumption == IsFiniteSet(Call) /\ Call \cap {None, "none", "error"} = {}
ASSUME AsksAssumption == Asks \in [Call -> SUBSET [id : Request, payload : Payload]]
ASSUME MaxActiveAssumption == MaxActive \in Nat \ {0}
ASSUME SignalledAssumption == Signalled \subseteq Call
ASSUME LimitedAssumption == Limited \subseteq Payload

VARIABLES
    pc,         \* pc[c]: the await at which start() stands
    req,        \* req[c]: request id and payload of the call
    aborted,    \* aborted[c]: the caller's signal is aborted
    owner,      \* owner[c]: the call whose reservation a joined call awaits
    settled,    \* settled[c]: what the reservation of the call was settled with
    answer,     \* answer[c]: the process start() returned, or "error"
    reserved,   \* reserved[r]: reservation of the request, by its call
    recorded,   \* recorded[r]: start receipt in the store
    state,      \* state[c]: info.state
    handle,     \* handle[c]: the record has its driver handle
    timer,      \* timer[c]: the idle timer, the lifetime timer or both are armed
    stopping,   \* stopping[c]: a stop() is about to call driver.terminate
    spawn,      \* spawn[c]: how driver.spawn stands
    os,         \* os[c]: the child process
    term,       \* term[c]: phase of the driver's terminate
    killed,     \* killed[c]: SIGKILL was sent
    shutdown,   \* stage of shutdown()
    targets,    \* the processes it has still to stop
    target      \* the one it is stopping

callVars == <<req, aborted, owner, answer>>
tableVars == <<reserved, settled, recorded>>
recordVars == <<state, handle, timer>>
driverVars == <<spawn, os, term, killed>>
shutVars == <<shutdown, targets, target>>
vars == <<pc, callVars, tableVars, recordVars, stopping, driverVars, shutVars>>

Active == {"starting", "running", "stopping"}
Ended == {"exited", "failed"}

Goto(c, label) == pc' = [pc EXCEPT ![c] = label]
Answer(c, value) == answer' = [answer EXCEPT ![c] = value]
Return(c, value) == Goto(c, "returned") /\ Answer(c, value)

\* commit and reject of ReservationTable: only the first of them finds the entry.
Settle(c, value) ==
    LET r == req[c].id IN
    /\ reserved' = [reserved EXCEPT ![r] = IF @ = c THEN None ELSE @]
    /\ settled' = [settled EXCEPT ![c] = IF reserved[r] = c THEN value ELSE @]

-----------------------------------------------------------------------------
(* start(): the reservation, the lookup and the quota *)

Begin(c, request) ==
    /\ pc[c] = "idle"
    /\ Goto(c, "init")
    /\ req' = [req EXCEPT ![c] = request]
    /\ UNCHANGED <<aborted, owner, answer, tableVars, recordVars, stopping, driverVars,
                   shutVars>>

Abort(c) ==
    /\ c \in Signalled /\ ~aborted[c] /\ pc[c] \notin {"idle", "returned"}
    /\ aborted' = [aborted EXCEPT ![c] = TRUE]
    /\ UNCHANGED <<pc, req, owner, answer, tableVars, recordVars, stopping, driverVars,
                   shutVars>>

\* ensureInitialized returned: assertNotShutdown and reserveRequest.
Reserve(c) ==
    /\ pc[c] = "init"
    /\ LET r == req[c].id holder == reserved[req[c].id] IN
       \/ shutdown # "no" /\ Return(c, "error") /\ UNCHANGED <<owner, reserved>>
       \/ /\ shutdown = "no" /\ holder = None
          /\ reserved' = [reserved EXCEPT ![r] = c]
          /\ Goto(c, "lookup") /\ UNCHANGED <<owner, answer>>
       \/ /\ shutdown = "no" /\ holder # None /\ req[holder].payload = req[c].payload
          /\ owner' = [owner EXCEPT ![c] = holder]
          /\ Goto(c, "joined") /\ UNCHANGED <<answer, reserved>>
       \/ /\ shutdown = "no" /\ holder # None /\ req[holder].payload # req[c].payload
          /\ Return(c, "error") /\ UNCHANGED <<owner, reserved>>
    /\ UNCHANGED <<req, aborted, settled, recorded, recordVars, stopping, driverVars,
                   shutVars>>

JoinReturns(c) ==
    /\ pc[c] = "joined" /\ settled[owner[c]] # "none"
    /\ Return(c, settled[owner[c]])
    /\ UNCHANGED <<req, aborted, owner, tableVars, recordVars, stopping, driverVars,
                   shutVars>>

\* Mutant: the quota counts the processes that run.
RunningCount == Cardinality({d \in Call : state[d] = "running"})

\* checkSpawnQuotas: starting, running and stopping processes count.
ActiveCount == Cardinality({d \in Call : state[d] \in Active})

WithinQuota == ActiveCount < MaxActive

\* getRequest returned: a recorded start answers, else the quota decides.
Lookup(c) ==
    /\ pc[c] = "lookup"
    /\ LET known == recorded[req[c].id] IN
       \/ /\ known # None /\ req[known].payload = req[c].payload
          /\ Settle(c, known) /\ Return(c, known)
          /\ UNCHANGED state
       \/ /\ \/ known # None /\ req[known].payload # req[c].payload
             \/ known = None /\ ~WithinQuota
          /\ Settle(c, "error") /\ Return(c, "error")
          /\ UNCHANGED state
       \/ /\ known = None /\ WithinQuota
          /\ state' = [state EXCEPT ![c] = "starting"]
          /\ Goto(c, "saving")
          /\ UNCHANGED <<answer, reserved, settled>>
    /\ UNCHANGED <<req, aborted, owner, recorded, handle, timer, stopping, driverVars,
                   shutVars>>

-----------------------------------------------------------------------------
(* start(): the spawn *)

\* The catch block of the spawn: "cancelling" or "failing", and the final state
\* of a record that has none yet.
Catch(c, label, final) ==
    /\ Goto(c, label)
    /\ state' = [state EXCEPT ![c] = IF @ \in Ended THEN @ ELSE final]

\* handleProcessError and handleProcessExit, which do nothing to a record that
\* has ended.
End(c, final) ==
    /\ state' = [state EXCEPT ![c] = IF @ \in Active THEN final ELSE @]
    /\ timer' = [timer EXCEPT ![c] = @ /\ state[c] \notin Active]

\* saveProcess returned: the driver spawns the child within the call, or throws
\* after it reported the fault; a caller that gave up gets no child.
Saved(c) ==
    /\ pc[c] = "saving"
    /\ \/ /\ aborted[c] /\ Catch(c, "cancelling", "exited")
          /\ UNCHANGED <<timer, spawn, os>>
       \/ /\ ~aborted[c] /\ Goto(c, "spawning")
          /\ spawn' = [spawn EXCEPT ![c] = "done"]
          /\ \E child \in {"alive", "stillborn"} : os' = [os EXCEPT ![c] = child]
          /\ UNCHANGED <<state, timer>>
       \/ /\ ~aborted[c] /\ Goto(c, "spawning")
          /\ spawn' = [spawn EXCEPT ![c] = "threw"]
          /\ End(c, "failed")
          /\ UNCHANGED os
    /\ UNCHANGED <<callVars, tableVars, handle, stopping, term, killed, shutVars>>

\* The signal wins the race against the spawn; the spawn goes on.
AbandonSpawn(c) ==
    /\ pc[c] = "spawning" /\ aborted[c]
    /\ Catch(c, "cancelling", "exited")
    /\ UNCHANGED <<callVars, tableVars, handle, timer, stopping, driverVars, shutVars>>

\* driver.terminate: there is nothing to do without a pid or after the exit, and
\* a termination under way is joined.
StartTermination(c) ==
    term' = [term EXCEPT ![c] = IF os[c] = "alive" /\ @ = "none" THEN "grace" ELSE @]

\* Mutant: nobody looks at a spawn that was given up.
ForgetAbandoned(c) ==
    /\ spawn[c] = "done" /\ ~handle[c] /\ pc[c] \in {"cancelling", "returned"}
    /\ spawn' = [spawn EXCEPT ![c] = "reaped"]
    /\ UNCHANGED <<pc, callVars, tableVars, recordVars, stopping, os, term, killed,
                   shutVars>>

\* The handler left behind by the race terminates what was spawned after all.
ReapAbandoned(c) ==
    /\ spawn[c] = "done" /\ ~handle[c] /\ pc[c] \in {"cancelling", "returned"}
    /\ spawn' = [spawn EXCEPT ![c] = "reaped"]
    /\ StartTermination(c)
    /\ UNCHANGED <<pc, callVars, tableVars, recordVars, stopping, os, killed, shutVars>>

\* Mutant: the state that was reached during the spawn is overwritten.
SpawnReturnsRunning(c) ==
    /\ pc[c] = "spawning" /\ spawn[c] = "done"
    /\ handle' = [handle EXCEPT ![c] = TRUE]
    /\ state' = [state EXCEPT ![c] = "running"]
    /\ Goto(c, "updating")
    /\ UNCHANGED <<callVars, tableVars, timer, stopping, driverVars, shutVars>>

\* spawn() resolved: an aborted start terminates its process; another becomes
\* "running" unless it has already left "starting".
SpawnReturns(c) ==
    /\ pc[c] = "spawning" /\ spawn[c] = "done"
    /\ handle' = [handle EXCEPT ![c] = TRUE]
    /\ \/ /\ aborted[c] /\ Goto(c, "aborting")
          /\ StartTermination(c)
          /\ UNCHANGED state
       \/ /\ ~aborted[c] /\ state[c] = "starting"
          /\ state' = [state EXCEPT ![c] = "running"]
          /\ Goto(c, "updating") /\ UNCHANGED term
       \/ /\ ~aborted[c] /\ state[c] # "starting" /\ Goto(c, "recording")
          /\ UNCHANGED <<state, term>>
    /\ UNCHANGED <<callVars, tableVars, timer, stopping, spawn, os, killed, shutVars>>

SpawnThrows(c) ==
    /\ pc[c] = "spawning" /\ spawn[c] = "threw"
    /\ IF aborted[c] THEN Catch(c, "cancelling", "exited") ELSE Catch(c, "failing", "failed")
    /\ UNCHANGED <<callVars, tableVars, handle, timer, stopping, driverVars, shutVars>>

\* The process of an aborted start is terminated, or its termination timed out.
Terminated(c) ==
    /\ pc[c] = "aborting" /\ term[c] = "none"
    /\ Catch(c, "cancelling", "exited")
    /\ UNCHANGED <<callVars, tableVars, handle, timer, stopping, driverVars, shutVars>>

\* startIdleTimer and startLifetimeTimer: a limit that is not above zero, which
\* nothing refuses, arms no timer.
IsLimited(c) == req[c].payload \in Limited

\* "running" is persisted: the timers start, whatever the state is now.
Updated(c) ==
    /\ pc[c] = "updating"
    /\ timer' = [timer EXCEPT ![c] = IsLimited(c)]
    /\ Goto(c, "recording")
    /\ UNCHANGED <<callVars, tableVars, state, handle, stopping, driverVars, shutVars>>

\* Mutant: the reservation goes before the receipt is there.
CommitFirst(c) ==
    /\ pc[c] = "recording"
    /\ Settle(c, c) /\ Return(c, c)
    /\ UNCHANGED <<req, aborted, owner, recorded, recordVars, stopping, driverVars,
                   shutVars>>

\* recordRequest returned: the receipt is stored and the joined calls are told.
Recorded(c) ==
    /\ pc[c] = "recording"
    /\ recorded' = [recorded EXCEPT ![req[c].id] = c]
    /\ Settle(c, c) /\ Return(c, c)
    /\ UNCHANGED <<req, aborted, owner, recordVars, stopping, driverVars, shutVars>>

\* Mutant: the joined calls are not told.
ThrowAlone(c) ==
    /\ pc[c] \in {"cancelling", "failing"}
    /\ Return(c, "error")
    /\ reserved' = [reserved EXCEPT ![req[c].id] = IF @ = c THEN None ELSE @]
    /\ UNCHANGED <<req, aborted, owner, settled, recorded, recordVars, stopping,
                   driverVars, shutVars>>

\* The state of a cancelled or failed start is persisted: the error is thrown.
Throw(c) ==
    /\ pc[c] \in {"cancelling", "failing"}
    /\ Settle(c, "error") /\ Return(c, "error")
    /\ UNCHANGED <<req, aborted, owner, recorded, recordVars, stopping, driverVars,
                   shutVars>>

-----------------------------------------------------------------------------
(* stop() and its callers *)

\* stop() of a process that has not ended, up to its await.
StopBegins(c) ==
    /\ state' = [state EXCEPT ![c] = "stopping"]
    /\ timer' = [timer EXCEPT ![c] = FALSE]

OwnerStops(c) ==
    /\ state[c] \in Active /\ ~stopping[c]
    /\ StopBegins(c)
    /\ stopping' = [stopping EXCEPT ![c] = TRUE]
    /\ UNCHANGED <<pc, callVars, tableVars, handle, driverVars, shutVars>>

\* handleIdleTimeout and handleLifetimeTimeout.
TimerFires(c) ==
    /\ timer[c]
    /\ \/ /\ state[c] \in Ended
          /\ timer' = [timer EXCEPT ![c] = FALSE]
          /\ UNCHANGED <<state, stopping>>
       \/ /\ state[c] \in Active /\ StopBegins(c)
          /\ stopping' = [stopping EXCEPT ![c] = TRUE]
    /\ UNCHANGED <<pc, callVars, tableVars, handle, driverVars, shutVars>>

\* The state is persisted: terminate is called if there is a handle by now.
\* Two stop() calls that wait at the same time are one.
StopPersisted(c) ==
    /\ stopping[c]
    /\ stopping' = [stopping EXCEPT ![c] = FALSE]
    /\ \/ handle[c] /\ StartTermination(c)
       \/ ~handle[c] /\ UNCHANGED term
    /\ UNCHANGED <<pc, callVars, tableVars, recordVars, spawn, os, killed, shutVars>>

\* shutdown() picks its targets once ...
ShutdownBegins ==
    /\ shutdown = "no"
    /\ shutdown' = "next"
    /\ targets' = {c \in Call : state[c] \in Active}
    /\ UNCHANGED <<pc, callVars, tableVars, recordVars, stopping, driverVars, target>>

\* ... stops them one after the other ...
ShutdownStops(c) ==
    /\ shutdown = "next" /\ c \in targets
    /\ targets' = targets \ {c}
    /\ \/ /\ state[c] \in Ended
          /\ UNCHANGED <<state, timer, shutdown, target>>
       \/ /\ state[c] \in Active /\ StopBegins(c)
          /\ shutdown' = "persisting" /\ target' = c
    /\ UNCHANGED <<pc, callVars, tableVars, handle, stopping, driverVars>>

ShutdownTerminates ==
    /\ shutdown = "persisting"
    /\ \/ handle[target] /\ StartTermination(target) /\ shutdown' = "terminating"
       \/ ~handle[target] /\ shutdown' = "next" /\ UNCHANGED term
    /\ UNCHANGED <<pc, callVars, tableVars, recordVars, stopping, spawn, os, killed,
                   targets, target>>

ShutdownStopped ==
    /\ shutdown = "terminating" /\ term[target] = "none"
    /\ shutdown' = "next"
    /\ UNCHANGED <<pc, callVars, tableVars, recordVars, stopping, driverVars, targets,
                   target>>

\* ... clears the timers of all records and rejects all reservations.
ShutdownEnds ==
    /\ shutdown = "next" /\ targets = {}
    /\ shutdown' = "done"
    /\ timer' = [c \in Call |-> FALSE]
    /\ settled' = [c \in Call |-> IF \E r \in Request : reserved[r] = c
                                  THEN "error" ELSE settled[c]]
    /\ reserved' = [r \in Request |-> None]
    /\ UNCHANGED <<pc, callVars, recorded, state, handle, stopping, driverVars, targets,
                   target>>

-----------------------------------------------------------------------------
(* The driver and the process *)

\* The error event of a child that could not be created (ENOENT).
ChildFails(c) ==
    /\ os[c] = "stillborn"
    /\ os' = [os EXCEPT ![c] = "exited"]
    /\ End(c, "failed")
    /\ UNCHANGED <<pc, callVars, tableVars, handle, stopping, spawn, term, killed,
                   shutVars>>

\* The exit event; a termination of the process is over then.
ProcessExits(c) ==
    /\ os[c] = "alive"
    /\ os' = [os EXCEPT ![c] = "exited"]
    /\ End(c, "exited")
    /\ term' = [term EXCEPT ![c] = "none"]
    /\ killed' = [killed EXCEPT ![c] = FALSE]
    /\ UNCHANGED <<pc, callVars, tableVars, handle, stopping, spawn, shutVars>>

\* Mutant: the process that ignored SIGTERM is left alone.
GiveUpAfterGrace(c) ==
    /\ term[c] = "grace"
    /\ term' = [term EXCEPT ![c] = "none"]
    /\ UNCHANGED <<pc, callVars, tableVars, recordVars, stopping, spawn, os, killed,
                   shutVars>>

\* The grace period is over and the process has not ended: SIGKILL.
Kill(c) ==
    /\ term[c] = "grace"
    /\ term' = [term EXCEPT ![c] = "killed"]
    /\ killed' = [killed EXCEPT ![c] = TRUE]
    /\ UNCHANGED <<pc, callVars, tableVars, recordVars, stopping, spawn, os, shutVars>>

\* The process has not ended within the deadline.
TerminationEnds(c) ==
    /\ term[c] = "killed"
    /\ term' = [term EXCEPT ![c] = "none"]
    /\ UNCHANGED <<pc, callVars, tableVars, recordVars, stopping, spawn, os, killed,
                   shutVars>>

-----------------------------------------------------------------------------
(* Specification *)

Init ==
    /\ pc = [c \in Call |-> "idle"]
    /\ req = [c \in Call |-> None]
    /\ aborted = [c \in Call |-> FALSE]
    /\ owner = [c \in Call |-> None]
    /\ settled = [c \in Call |-> "none"]
    /\ answer = [c \in Call |-> "none"]
    /\ reserved = [r \in Request |-> None]
    /\ recorded = [r \in Request |-> None]
    /\ state = [c \in Call |-> "absent"]
    /\ handle = [c \in Call |-> FALSE]
    /\ timer = [c \in Call |-> FALSE]
    /\ stopping = [c \in Call |-> FALSE]
    /\ spawn = [c \in Call |-> "none"]
    /\ os = [c \in Call |-> "none"]
    /\ term = [c \in Call |-> "none"]
    /\ killed = [c \in Call |-> FALSE]
    /\ shutdown = "no"
    /\ targets = {}
    /\ target = None

StartStep(c) ==
    \/ Reserve(c) \/ JoinReturns(c) \/ Lookup(c) \/ Saved(c)
    \/ SpawnReturns(c) \/ SpawnThrows(c) \/ Terminated(c)
    \/ Updated(c) \/ Recorded(c) \/ Throw(c)

Next ==
    \/ \E c \in Call :
        \/ \E request \in Asks[c] : Begin(c, request)
        \/ Abort(c) \/ StartStep(c)
        \/ AbandonSpawn(c) \/ ReapAbandoned(c)
        \/ OwnerStops(c) \/ TimerFires(c) \/ StopPersisted(c) \/ ShutdownStops(c)
        \/ ChildFails(c) \/ ProcessExits(c) \/ Kill(c) \/ TerminationEnds(c)
    \/ ShutdownBegins \/ ShutdownTerminates \/ ShutdownStopped \/ ShutdownEnds

\* The store answers, the timers of a termination fire, and a process that was
\* sent SIGKILL exits.  Nothing is assumed of callers, of other processes or of
\* shutdown().
Fairness ==
    \A c \in Call :
        /\ WF_vars(StopPersisted(c))
        /\ WF_vars(Kill(c))
        /\ WF_vars(killed[c] /\ ProcessExits(c))

Spec == Init /\ [][Next]_vars
FairSpec == Spec /\ Fairness

-----------------------------------------------------------------------------
(* Properties *)

\* Every variable has its type, and what names a call names one.
TypeOK ==
    /\ pc \in [Call -> {"idle", "init", "joined", "lookup", "saving", "spawning", "aborting",
                        "updating", "cancelling", "failing", "recording", "returned"}]
    /\ req \in [Call -> [id : Request, payload : Payload] \cup {None}]
    /\ {aborted, handle, timer, stopping, killed} \subseteq [Call -> BOOLEAN]
    /\ owner \in [Call -> Call \cup {None}]
    /\ settled \in [Call -> Call \cup {"none", "error"}]
    /\ answer \in [Call -> Call \cup {"none", "error"}]
    /\ reserved \in [Request -> Call \cup {None}]
    /\ recorded \in [Request -> Call \cup {None}]
    /\ state \in [Call -> {"absent"} \cup Active \cup Ended]
    /\ spawn \in [Call -> {"none", "done", "threw", "reaped"}]
    /\ os \in [Call -> {"none", "alive", "stillborn", "exited"}]
    /\ term \in [Call -> {"none", "grace", "killed"}]
    /\ shutdown \in {"no", "next", "persisting", "terminating", "done"}
    /\ targets \subseteq Call /\ target \in Call \cup {None}

\* The quota counts every process from the moment its start passed the check,
\* whatever starts run at the same time (quotas.ts:17, process-manager.ts:377-420).
QuotaHolds == Cardinality({c \in Call : state[c] \in Active}) <= MaxActive

\* A request that is sent again, at the same time or later, gets the process of
\* the first start that succeeded: there is no second one.
OneProcessPerRequest ==
    \A c, d \in Call :
        /\ answer[c] \in Call /\ answer[d] \in Call /\ req[c].id = req[d].id
        => answer[c] = answer[d] /\ req[c].payload = req[d].payload

\* No child is forgotten: one that is alive has a record that has not ended, or
\* its start has yet to deal with it, or it is being terminated, or was sent
\* SIGKILL (process-manager.ts:449-476, 824-879).
NoOrphan ==
    \A c \in Call : os[c] = "alive" =>
        \/ state[c] \in Active
        \/ pc[c] \in {"spawning", "cancelling"} \/ (spawn[c] = "done" /\ ~handle[c])
        \/ term[c] # "none" \/ killed[c]

\* A process that is said to run does: "running" never outlives or replaces the
\* exit or the failure that the driver reported, before, during or after the
\* await of the spawn (process-manager.ts:490).
RunningIsAlive ==
    \A c \in Call : state[c] = "running" =>
        os[c] = "alive" \/ os[c] = "stillborn"

\* A process that was given a limit above zero does not run on unnoticed: once
\* start() has persisted "running" a timer that bounds its life is armed, until
\* shutdown() clears it.  Without such a limit nothing bounds it
\* (process-manager.ts:916, 948).
RunningIsBounded ==
    \A c \in Call :
        /\ state[c] = "running" /\ pc[c] # "updating" /\ shutdown # "done"
        /\ IsLimited(c)
        => timer[c]

\* The record of a process is well-typed and tells the truth: what is said to
\* run is alive, and bounded by a timer if it has a limit.
RecordIsTrue == TypeOK /\ RunningIsAlive /\ RunningIsBounded

\* A call that joined another one is not left waiting: its reservation is in the
\* table, or it was settled on whatever path the other call ended
\* (reservation-table.ts:40, process-manager.ts:538-551).
JoinedIsServed ==
    \A c \in Call : pc[c] = "joined" =>
        reserved[req[c].id] = owner[c] \/ settled[owner[c]] # "none"

\* A child that a stop() found with its handle dies, even when it ignores
\* SIGTERM, and its record reaches a final state.
StoppedDies ==
    \A c \in Call : (stopping[c] /\ handle[c] /\ os[c] = "alive")
                        ~> (os[c] = "exited" /\ state[c] \in Ended)

\* process-manager.ts:277: shutdown() stops all managed processes.
ShutdownStopsAll ==
    shutdown = "done" =>
        \A c \in Call : pc[c] \in {"idle", "returned"} => os[c] # "alive" \/ killed[c]
==============================================================================
