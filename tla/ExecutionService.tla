--------------------------- MODULE ExecutionService ---------------------------
(***************************************************************************)
(* DefaultExecutionService (packages/core/src/execution/service.ts), the   *)
(* finalizer of runtime/run-persistence.ts and the run and idempotency     *)
(* tables of storage/sqlite-runs.ts, for several host processes that share *)
(* one package database.                                                   *)
(*                                                                         *)
(* A Call is one invocation of start().  A call creates at most one run,   *)
(* under a fresh uuid, so the run it creates is named by the call.  Inside *)
(* a process an action of this module is what runs between two awaits.     *)
(* The idempotency gate is the exception: it runs several statements on    *)
(* the shared database without an await and outside one transaction, so it *)
(* has a step per statement, and only other processes run in between.      *)
(***************************************************************************)
EXTENDS Integers, Sequences, FiniteSets

CONSTANTS
    Host,           \* host sessions: one process, one service, one storage handle
    Call,           \* invocations of start()
    Request,        \* idempotency request ids
    Digest,         \* digests of input, config and timeout
    Owner,          \* idempotency scopes
    OwnerOf,        \* options.ownerId of the service of each session
    MaxActiveRuns,  \* options.maxActiveRuns
    Timed,          \* calls with context.timeoutMs
    Signalled,      \* calls with context.signal
    None            \* absent host, request or run

ASSUME CallAssumption == IsFiniteSet(Call) /\ None \notin Call
ASSUME HostAssumption == None \notin Host
ASSUME RequestAssumption == None \notin Request
ASSUME OwnerAssumption == OwnerOf \in [Host -> Owner]
ASSUME MaxAssumption == MaxActiveRuns \in Nat \ {0}
ASSUME ContextAssumption == Timed \subseteq Call /\ Signalled \subseteq Call

VARIABLES
    svc,        \* svc[h]: stage of the session's life
    reserved,   \* reserved[h]: reservedSlots
    active,     \* active[h]: keys of activeRuns
    pc,         \* pc[c]: where the call stands in start() and raceExecution()
    at,         \* at[c]: session the call was made on
    req,        \* req[c]: context.requestId
    digest,     \* digest[c]: the digest computed by the gate
    seen,       \* seen[c]: run named by the key row the gate has read
    slot,       \* slot[c]: hasReservedSlot
    joined,     \* joined[c]: the run whose ticket a duplicate was given
    aborted,    \* aborted[c]: reason the controller was aborted with, if it was
    winner,     \* winner[c]: how Promise.race settled
    timer,      \* timer[c]: finalizer.timeoutTimer is armed
    linked,     \* linked[c]: the caller's signal has the onAbort listener
    unsaved,    \* unsaved[c]: finalizer.persistError
    result,     \* result[c]: what the result promise resolved to, as a run status
    events,     \* events[c]: status events emitted for the run
    stored,     \* stored[c]: status of the run's row
    key         \* key[o][r]: row of idempotency_keys

memVars == <<svc, reserved, active>>
idVars == <<at, req, digest, seen, joined>>
raceVars == <<aborted, winner, timer, linked>>
outVars == <<unsaved, result, events>>
dbVars == <<stored, key>>
vars == <<memVars, pc, idVars, slot, raceVars, outVars, dbVars>>

-----------------------------------------------------------------------------
(* Statuses and derived state *)

Settled == {"success", "failed", "cancelled", "timed_out"}
Terminal == Settled \cup {"interrupted"}

\* Calls between two statements of checkAndRecordIdempotency or of the look-up of
\* the run it names.
InGate == {"insert", "check", "replace", "get"}

\* Calls whose start() or raceExecution() has code left to run.
InFlight == InGate \cup {"resolving", "rejected", "duplicate", "racing", "finalized"}

\* No call of the session is between two statements of its gate: the event loop
\* may run something else.
Idle(h) == \A c \in Call : at[c] = h => pc[c] \notin InGate

\* Rows present in a runs table.
Rows(table) == {c \in Call : table[c] \in {"running"} \cup Terminal}

\* The session's storage handle is open; it closes with the package runtime.
StorageOpen(h) == svc[h] \in {"open", "closing"}

\* The session's process runs (process.kill(pid, 0) succeeds).
ProcessAlive(h) == svc[h] \in {"open", "closing", "closed"}

\* "DELETE FROM idempotency_keys WHERE run_id NOT IN (SELECT id FROM runs)".
WithoutOrphans(keys, table) ==
    [o \in Owner |-> [r \in Request |->
        IF keys[o][r] \in Rows(table) THEN keys[o][r] ELSE None]]

\* Rows the retention policy may delete: terminal ones only.
Expirable(table) == {c \in Call : table[c] \in Terminal}

Deleted(table, gone) ==
    [c \in Call |-> IF c \in gone THEN "deleted" ELSE table[c]]

\* cleanExpiredRuns: the policy picks `gone`; orphaned keys go only if rows did.
CleanExpired(table, gone) ==
    /\ gone \subseteq Expirable(table)
    /\ stored' = Deleted(table, gone)
    /\ key' = IF gone = {} THEN key ELSE WithoutOrphans(key, stored')

\* storage.createRun: the INSERT, then at times an opportunistic clean-up, whose
\* age and count limits never reach the row just written.
CreateRun(c, status) ==
    \E gone \in SUBSET (Call \ {c}) :
        CleanExpired([stored EXCEPT ![c] = status], gone)

\* releaseSlot, the once-only closure of start().
ReleaseSlot(c) ==
    /\ slot' = [slot EXCEPT ![c] = FALSE]
    /\ reserved' = IF slot[c] THEN [reserved EXCEPT ![at[c]] = @ - 1] ELSE reserved

\* Bodies the calls below share: a start() that throws, and one that returns
\* a ticket for a run that failed before it ran.
Refuse(c) ==
    /\ pc' = [pc EXCEPT ![c] = "refused"]
    /\ ReleaseSlot(c)
    /\ UNCHANGED <<svc, active, idVars, raceVars, outVars>>

\* Mutant: the failed status is not announced.
FailTicketSilently(c) ==
    /\ pc' = [pc EXCEPT ![c] = "failed"]
    /\ ReleaseSlot(c)
    /\ result' = [result EXCEPT ![c] = "failed"]
    /\ UNCHANGED <<svc, active, idVars, raceVars, unsaved, events>>

FailTicket(c) ==
    /\ pc' = [pc EXCEPT ![c] = "failed"]
    /\ ReleaseSlot(c)
    /\ result' = [result EXCEPT ![c] = "failed"]
    /\ events' = [events EXCEPT ![c] = Append(@, "failed")]
    /\ UNCHANGED <<svc, active, idVars, raceVars, unsaved>>

-----------------------------------------------------------------------------
(* Sessions *)

\* A session opens the database as a holder: the storage constructor runs
\* recoverDeadSessionRuns, which interrupts the running rows of sessions whose
\* process is gone, then cleanExpiredRuns.
\* Mutants: liveness not probed; rows of any status taken.
OrphansBySession == {c \in Call : stored[c] = "running"}
OrphansOfAnyStatus == {c \in Rows(stored) : ~ProcessAlive(at[c])}

Orphans == {c \in Call : stored[c] = "running" /\ ~ProcessAlive(at[c])}

Open(h) ==
    /\ svc[h] = "down"
    /\ svc' = [svc EXCEPT ![h] = "open"]
    /\ \E gone \in SUBSET Call :
        CleanExpired([c \in Call |-> IF c \in Orphans THEN "interrupted" ELSE stored[c]],
                     gone)
    /\ UNCHANGED <<reserved, active, pc, idVars, slot, raceVars, outVars>>

\* Mutant: close() waits without aborting.
AbortNone(h) == UNCHANGED <<aborted, winner>>

AbortAll(h) ==
    /\ aborted' = [c \in Call |->
          IF c \in active[h] /\ aborted[c] = "no" THEN "cancel" ELSE aborted[c]]
    /\ winner' = [c \in Call |->
          IF c \in active[h] /\ winner[c] = "none" THEN "abort" ELSE winner[c]]

\* close(), up to its await: refuse new work, forget reservations, abort all.
CloseBegin(h) ==
    /\ svc[h] = "open"
    /\ svc' = [svc EXCEPT ![h] = "closing"]
    /\ reserved' = [reserved EXCEPT ![h] = 0]
    /\ AbortAll(h)
    /\ UNCHANGED <<active, pc, idVars, slot, timer, linked, outVars, dbVars>>

\* close(), after its await: every result awaited has settled.  An aborted run
\* settles in microtasks, so the grace timer never fires first.  The package
\* runtime closes the storage handle next.
\* Mutant: close() does not await the results.
CloseEndAtOnce(h) ==
    /\ svc[h] = "closing"
    /\ svc' = [svc EXCEPT ![h] = "closed"]
    /\ active' = [active EXCEPT ![h] = {}]
    /\ UNCHANGED <<reserved, pc, idVars, slot, raceVars, outVars, dbVars>>

CloseEnd(h) ==
    /\ svc[h] = "closing"
    /\ \A c \in active[h] : pc[c] # "racing"
    /\ svc' = [svc EXCEPT ![h] = "closed"]
    /\ active' = [active EXCEPT ![h] = {}]
    /\ UNCHANGED <<reserved, pc, idVars, slot, raceVars, outVars, dbVars>>

\* The process exits or is killed; what it held in memory is gone, and the calls
\* it had not answered are lost.
Die(h) ==
    LET here == {c \in Call : at[c] = h}
        inFlight == {c \in here : pc[c] \in InFlight}
    IN
    /\ ProcessAlive(h)
    /\ svc' = [svc EXCEPT ![h] = "dead"]
    /\ reserved' = [reserved EXCEPT ![h] = 0]
    /\ active' = [active EXCEPT ![h] = {}]
    /\ pc' = [c \in Call |-> IF c \in inFlight THEN "lost" ELSE pc[c]]
    /\ seen' = [c \in Call |-> IF c \in here THEN None ELSE seen[c]]
    /\ slot' = [c \in Call |-> c \notin here /\ slot[c]]
    /\ aborted' = [c \in Call |-> IF c \in here THEN "no" ELSE aborted[c]]
    /\ winner' = [c \in Call |-> IF c \in here THEN "none" ELSE winner[c]]
    /\ timer' = [c \in Call |-> c \notin here /\ timer[c]]
    /\ linked' = [c \in Call |-> c \notin here /\ linked[c]]
    /\ UNCHANGED <<at, req, digest, joined, outVars, dbVars>>

-----------------------------------------------------------------------------
(* start(), up to the await of the idempotency gate *)

Called(h, c, r, d) ==
    /\ pc[c] = "idle"
    /\ ProcessAlive(h)
    /\ at' = [at EXCEPT ![c] = h]
    /\ req' = [req EXCEPT ![c] = r]
    /\ digest' = [digest EXCEPT ![c] = d]

\* Mutant: reservations are not counted.
FullOfRuns(h) == Cardinality(active[h]) >= MaxActiveRuns

Full(h) == Cardinality(active[h]) + reserved[h] >= MaxActiveRuns

\* SERVICE_CLOSED or EXECUTION_CONCURRENCY_LIMIT.
StartRejected(h, c, r, d) ==
    /\ Called(h, c, r, d)
    /\ svc[h] # "open" \/ Full(h)
    /\ pc' = [pc EXCEPT ![c] = "refused"]
    /\ UNCHANGED <<memVars, seen, joined, slot, raceVars, outVars, dbVars>>

\* reservedSlots++ and the call of checkIdempotencyGate.
Reserve(h, c, r, d) ==
    /\ Called(h, c, r, d)
    /\ svc[h] = "open" /\ ~Full(h)
    /\ reserved' = [reserved EXCEPT ![h] = @ + 1]
    /\ slot' = [slot EXCEPT ![c] = TRUE]
    /\ UNCHANGED <<svc, active, joined, raceVars, outVars, dbVars>>

\* Without a request id there is no gate.
StartUnkeyed(h, c, r, d) ==
    /\ r = None
    /\ Reserve(h, c, r, d)
    /\ pc' = [pc EXCEPT ![c] = "resolving"]
    /\ UNCHANGED seen

\* checkAndRecordIdempotency, its first SELECT: the key row.
GateRead(h, c, r, d) ==
    /\ r # None
    /\ Reserve(h, c, r, d)
    /\ seen' = [seen EXCEPT ![c] = key[OwnerOf[h]][r]]
    /\ pc' = [pc EXCEPT ![c] = IF key[OwnerOf[h]][r] = None THEN "insert" ELSE "check"]

Start(h, c, r, d) ==
    \/ StartRejected(h, c, r, d)
    \/ StartUnkeyed(h, c, r, d)
    \/ GateRead(h, c, r, d)

-----------------------------------------------------------------------------
(* The idempotency gate, after the key row was read *)

GateGoes(c, to) ==
    /\ pc' = [pc EXCEPT ![c] = to]
    /\ seen' = [seen EXCEPT ![c] = IF to \in InGate THEN @ ELSE None]
    /\ UNCHANGED <<memVars, at, req, digest, slot, raceVars, unsaved, events, stored>>

\* The write of the caller's key, and "new" as the answer.
Record(c) ==
    /\ key' = [key EXCEPT ![OwnerOf[at[c]]][req[c]] = c]
    /\ GateGoes(c, "resolving")
    /\ UNCHANGED <<joined, result>>

\* There was no key row: the INSERT, if there still is none.
GateInsert(c) ==
    /\ pc[c] = "insert"
    /\ key[OwnerOf[at[c]]][req[c]] = None
    /\ Record(c)

\* There was a key row but its run was not in the runs table: DELETE and INSERT
\* in one transaction, whatever the key row says by now.
GateReplace(c) ==
    /\ pc[c] = "replace"
    /\ Record(c)

\* The write throws out of start(): another session's row is in the way (UNIQUE),
\* or the database stayed busy.
GateWriteFails(c) ==
    /\ pc[c] \in {"insert", "replace"}
    /\ GateGoes(c, "rejected")
    /\ UNCHANGED <<joined, result, key>>

\* The second SELECT: is the run that the key row named in the runs table?
GateStale(c) ==
    /\ pc[c] = "check"
    /\ seen[c] \notin Rows(stored)
    /\ GateGoes(c, "replace")
    /\ UNCHANGED <<joined, result, key>>

\* "conflict": same request, other digest.
GateConflict(c) ==
    /\ pc[c] = "check"
    /\ seen[c] \in Rows(stored)
    /\ digest[seen[c]] # digest[c]
    /\ GateGoes(c, "rejected")
    /\ UNCHANGED <<joined, result, key>>

\* "duplicate": the ticket of a run active here, or a look-up of the row.
Duplicate(c) ==
    /\ pc[c] = "check"
    /\ seen[c] \in Rows(stored)
    /\ IF seen[c] \in active[at[c]]
       THEN /\ joined' = [joined EXCEPT ![c] = seen[c]]
            /\ GateGoes(c, "duplicate")
       ELSE /\ GateGoes(c, "get")
            /\ UNCHANGED joined
    /\ UNCHANGED <<result, key>>

\* Mutant: Duplicate, the digests not compared.
GateDuplicate(c) ==
    /\ Duplicate(c)
    /\ digest[seen[c]] = digest[c]

\* get(): a ticket made from the row as it is now, or, when another session has
\* deleted the row, a run of the caller's own that no key names.
GateGet(c) ==
    /\ pc[c] = "get"
    /\ IF seen[c] \in Rows(stored)
       THEN /\ joined' = [joined EXCEPT ![c] = seen[c]]
            /\ result' = [result EXCEPT ![c] =
                  IF stored[seen[c]] \in Settled THEN stored[seen[c]] ELSE "failed"]
            /\ GateGoes(c, "duplicate")
       ELSE /\ GateGoes(c, "resolving")
            /\ UNCHANGED <<joined, result>>
    /\ UNCHANGED key

Gate(c) ==
    \/ GateInsert(c) \/ GateReplace(c) \/ GateWriteFails(c)
    \/ GateStale(c) \/ GateConflict(c) \/ GateDuplicate(c) \/ GateGet(c)

-----------------------------------------------------------------------------
(* start(), after the gate and after the action was resolved *)

\* The gate threw: IDEMPOTENCY_CONFLICT, or the error of its write.
ThrowRejected(c) ==
    /\ pc[c] = "rejected"
    /\ Refuse(c)
    /\ UNCHANGED dbVars

ReturnDuplicate(c) ==
    /\ pc[c] = "duplicate"
    /\ pc' = [pc EXCEPT ![c] = "joined"]
    /\ ReleaseSlot(c)
    /\ UNCHANGED <<svc, active, idVars, raceVars, outVars, dbVars>>

\* failTicketForMissingAction: its row is created whether or not the service
\* is closing, and an unavailable store makes start() throw.
FailMissing(c) ==
    /\ pc[c] = "resolving"
    /\ StorageOpen(at[c])
    /\ CreateRun(c, "failed")
    /\ FailTicket(c)

\* resolveExecutionTarget threw, the service is closing, or the row could not
\* be written (RUN_REPOSITORY_UNAVAILABLE).
ThrowUnregistered(c) ==
    /\ pc[c] = "resolving"
    /\ Refuse(c)
    /\ UNCHANGED dbVars

\* Input that is not JSON or fails the schema: tryCreateRun swallows errors.
FailInvalid(c) ==
    /\ pc[c] = "resolving"
    /\ svc[at[c]] = "open"
    /\ CreateRun(c, "failed") \/ UNCHANGED dbVars
    /\ FailTicket(c)

\* The controller as start() leaves it: aborted at once by a signal already
\* aborted, or by a deadline already past; otherwise listening and timed.
WireController(c, reason, listens, armed) ==
    /\ \/ reason = "no" /\ listens = (c \in Signalled) /\ armed = (c \in Timed)
       \/ /\ reason \in {"cancel", "timeout"} /\ c \in Signalled /\ ~listens
          /\ armed => c \in Timed
       \/ /\ reason = "timeout" /\ c \in Timed /\ ~armed
          /\ listens = (c \in Signalled)
    /\ aborted' = [aborted EXCEPT ![c] = reason]
    /\ winner' = [winner EXCEPT ![c] = IF reason = "no" THEN "none" ELSE "abort"]
    /\ linked' = [linked EXCEPT ![c] = listens]
    /\ timer' = [timer EXCEPT ![c] = armed]

\* The running row, the controller, the race and the entry of activeRuns.
Register(c) ==
    /\ pc[c] = "resolving"
    /\ svc[at[c]] = "open"
    /\ CreateRun(c, "running")
    /\ pc' = [pc EXCEPT ![c] = "racing"]
    /\ \E reason \in {"no", "cancel", "timeout"}, listens, armed \in BOOLEAN :
        WireController(c, reason, listens, armed)
    /\ active' = [active EXCEPT ![at[c]] = @ \cup {c}]
    /\ ReleaseSlot(c)
    /\ events' = [events EXCEPT ![c] = Append(@, "running")]
    /\ UNCHANGED <<svc, idVars, unsaved, result>>

-----------------------------------------------------------------------------
(* raceExecution() and the finalizer *)

\* The action's promise settles first: a value, an output that fails its
\* checks, or an error.
ActionSettles(c, how) ==
    /\ pc[c] = "racing"
    /\ winner[c] = "none"
    /\ winner' = [winner EXCEPT ![c] = how]
    /\ UNCHANGED <<memVars, pc, idVars, slot, aborted, timer, linked, outVars, dbVars>>

\* controller.abort(reason): the first abort counts, and it wins the race
\* unless the race has settled.
Abort(c, reason) ==
    /\ aborted' = [aborted EXCEPT ![c] = IF @ = "no" THEN reason ELSE @]
    /\ winner' = [winner EXCEPT ![c] = IF @ = "none" THEN "abort" ELSE @]
    /\ UNCHANGED <<memVars, pc, idVars, slot, outVars, dbVars>>

\* The timeout timer.  Timers run after microtasks, so never between the end
\* of the race and the finalizer.
TimerFires(c) ==
    /\ pc[c] = "racing"
    /\ timer[c] /\ winner[c] = "none"
    /\ Abort(c, "timeout")
    /\ timer' = [timer EXCEPT ![c] = FALSE]
    /\ UNCHANGED linked

\* The caller's signal (client gone, parent aborted, deadline of a parent).
SignalAborts(c, reason) ==
    /\ pc[c] = "racing"
    /\ linked[c]
    /\ Abort(c, reason)
    /\ linked' = [linked EXCEPT ![c] = FALSE]
    /\ UNCHANGED timer

\* cancel(runId) of an active run, answered "requested".
\* Mutant: the entry of activeRuns goes at once.
CancelAndForget(c) ==
    /\ \E h \in Host : c \in active[h]
    /\ aborted' = [aborted EXCEPT ![c] = IF @ = "no" THEN "cancel" ELSE @]
    /\ winner' = [winner EXCEPT ![c] = IF @ = "none" THEN "abort" ELSE @]
    /\ linked' = [linked EXCEPT ![c] = FALSE]
    /\ active' = [active EXCEPT ![at[c]] = @ \ {c}]
    /\ UNCHANGED <<svc, reserved, pc, idVars, slot, timer, outVars, dbVars>>

Cancel(c) ==
    /\ \E h \in Host : c \in active[h]
    /\ Abort(c, "cancel")
    /\ linked' = [linked EXCEPT ![c] = FALSE]
    /\ UNCHANGED timer

\* What cancel(runId) answers on a session.
CancelAnswer(h, c) ==
    IF c \in active[h] THEN "requested"
    ELSE IF c \in Rows(stored) THEN "already_terminal"
    ELSE "not_found"

\* The status raceExecution() and classifyExecutionError() settle on.
StatusOf(c) ==
    IF winner[c] = "value" THEN "success"
    ELSE IF winner[c] = "invalid" \/ aborted[c] = "no" THEN "failed"
    ELSE IF aborted[c] = "timeout" THEN "timed_out"
    ELSE "cancelled"

\* finalize(): the guarded UPDATE, a silent no-op on closed storage; a failure
\* of the store becomes persistError and the caller sees a failed result.
UpdateRun(c, status) ==
    stored' = [stored EXCEPT ![c] =
        IF @ = "running" /\ StorageOpen(at[c]) THEN status ELSE @]

\* Mutant: the abort is not raced, only the action ends the run.
ReadyWithAction(c) == winner[c] \in {"value", "invalid", "throw"}

Ready(c) == winner[c] # "none"

Settle(c) ==
    /\ pc[c] = "racing"
    /\ Ready(c)
    /\ pc' = [pc EXCEPT ![c] = "finalized"]
    /\ timer' = [timer EXCEPT ![c] = FALSE]
    /\ linked' = [linked EXCEPT ![c] = FALSE]
    /\ \/ /\ UpdateRun(c, StatusOf(c))
          /\ result' = [result EXCEPT ![c] = StatusOf(c)]
          /\ UNCHANGED unsaved
       \/ /\ StorageOpen(at[c])
          /\ unsaved' = [unsaved EXCEPT ![c] = TRUE]
          /\ result' = [result EXCEPT ![c] = "failed"]
          /\ UNCHANGED stored
    /\ UNCHANGED <<memVars, idVars, slot, aborted, winner, events, key>>

\* The then and finally handlers: the final status event, then the entry goes,
\* and with it the last reference to the controller.
Conclude(c) ==
    /\ pc[c] = "finalized"
    /\ pc' = [pc EXCEPT ![c] = "ended"]
    /\ events' = [events EXCEPT ![c] = Append(@, result[c])]
    /\ active' = [active EXCEPT ![at[c]] = @ \ {c}]
    /\ aborted' = [aborted EXCEPT ![c] = "no"]
    /\ winner' = [winner EXCEPT ![c] = "none"]
    /\ UNCHANGED <<svc, reserved, idVars, slot, timer, linked, unsaved, result, dbVars>>

-----------------------------------------------------------------------------
(* Housekeeping by any holder *)

\* clearRuns deletes rows whatever their status, and every orphaned key.
ClearRuns(h, gone) ==
    /\ StorageOpen(h)
    /\ gone \subseteq Rows(stored)
    /\ stored' = Deleted(stored, gone)
    /\ key' = WithoutOrphans(key, stored')
    /\ UNCHANGED <<memVars, pc, idVars, slot, raceVars, outVars>>

\* cleanExpiredState drops keys past IDEMPOTENCY_RETENTION_MS.
ExpireKey(h, o, r) ==
    /\ StorageOpen(h)
    /\ key' = [key EXCEPT ![o][r] = None]
    /\ UNCHANGED <<memVars, pc, idVars, slot, raceVars, outVars, stored>>

-----------------------------------------------------------------------------
(* Specification *)

Init ==
    /\ svc = [h \in Host |-> "down"]
    /\ reserved = [h \in Host |-> 0]
    /\ active = [h \in Host |-> {}]
    /\ pc = [c \in Call |-> "idle"]
    /\ at = [c \in Call |-> None]
    /\ req = [c \in Call |-> None]
    /\ digest = [c \in Call |-> None]
    /\ seen = [c \in Call |-> None]
    /\ slot = [c \in Call |-> FALSE]
    /\ joined = [c \in Call |-> None]
    /\ aborted = [c \in Call |-> "no"]
    /\ winner = [c \in Call |-> "none"]
    /\ timer = [c \in Call |-> FALSE]
    /\ linked = [c \in Call |-> FALSE]
    /\ unsaved = [c \in Call |-> FALSE]
    /\ result = [c \in Call |-> "pending"]
    /\ events = [c \in Call |-> <<>>]
    /\ stored = [c \in Call |-> "none"]
    /\ key = [o \in Owner |-> [r \in Request |-> None]]

Next ==
    \/ \E h \in Host : Open(h) \/ Die(h)
    \/ \E h \in Host : Idle(h) /\ (CloseBegin(h) \/ CloseEnd(h))
    \/ \E h \in Host, c \in Call : Idle(h) /\
        \/ Start(h, c, None, None)
        \/ \E r \in Request, d \in Digest : Start(h, c, r, d)
    \/ \E c \in Call : Gate(c)
    \/ \E c \in Call : Idle(at[c]) /\
        \/ ThrowRejected(c)
        \/ ReturnDuplicate(c)
        \/ FailMissing(c)
        \/ ThrowUnregistered(c)
        \/ FailInvalid(c)
        \/ Register(c)
        \/ \E how \in {"value", "invalid", "throw"} : ActionSettles(c, how)
        \/ TimerFires(c)
        \/ \E reason \in {"cancel", "timeout"} : SignalAborts(c, reason)
        \/ Cancel(c)
        \/ Settle(c)
        \/ Conclude(c)
    \/ \E h \in Host, gone \in SUBSET Call : Idle(h) /\ ClearRuns(h, gone)
    \/ \E h \in Host, o \in Owner, r \in Request : Idle(h) /\ ExpireKey(h, o, r)

\* The event loop of a live process runs the statements of the gate to their end
\* and then the microtasks that are due.  Nothing is assumed of actions,
\* resolvers, timers or callers.
Fairness ==
    /\ \A c \in Call :
        /\ WF_vars(Gate(c))
        /\ WF_vars(Idle(at[c]) /\ Settle(c))
        /\ WF_vars(Idle(at[c]) /\ Conclude(c))
    /\ \A h \in Host : WF_vars(Idle(h) /\ CloseEnd(h))

Spec == Init /\ [][Next]_vars
FairSpec == Spec /\ Fairness

-----------------------------------------------------------------------------
(* Properties *)

\* Every variable has its type, and what names a session or a run names one.
TypeOK ==
    /\ svc \in [Host -> {"down", "open", "closing", "closed", "dead"}]
    /\ reserved \in [Host -> Int]
    /\ active \in [Host -> SUBSET Call]
    /\ pc \in [Call -> InFlight \cup
               {"idle", "ended", "refused", "failed", "joined", "lost"}]
    /\ at \in [Call -> Host \cup {None}]
    /\ req \in [Call -> Request \cup {None}]
    /\ digest \in [Call -> Digest \cup {None}]
    /\ seen \in [Call -> Call \cup {None}]
    /\ slot \in [Call -> BOOLEAN]
    /\ joined \in [Call -> Call \cup {None}]
    /\ aborted \in [Call -> {"no", "cancel", "timeout"}]
    /\ winner \in [Call -> {"none", "value", "invalid", "throw", "abort"}]
    /\ timer \in [Call -> BOOLEAN]
    /\ linked \in [Call -> BOOLEAN]
    /\ unsaved \in [Call -> BOOLEAN]
    /\ result \in [Call -> {"pending"} \cup Settled]
    /\ events \in [Call -> Seq({"running"} \cup Settled)]
    /\ stored \in [Call -> {"none", "running", "deleted"} \cup Terminal]
    /\ key \in [Owner -> [Request -> Call \cup {None}]]

\* While a session accepts work, reservedSlots counts exactly the starts that
\* hold a slot, on every path out of start(), and the service never holds more
\* than maxActiveRuns runs and reservations (service.ts:274-289).
QuotaHolds ==
    \A h \in Host : svc[h] = "open" =>
        /\ reserved[h] = Cardinality({c \in Call : slot[c] /\ at[c] = h})
        /\ Cardinality(active[h]) + reserved[h] <= MaxActiveRuns

\* A row that says "running" has a supervisor: as long as the process that
\* started the run lives, even when its service has closed, the run is in
\* activeRuns or the store refused its final status.  No run hangs in the
\* table behind a graceful close.
RunningIsSupervised ==
    \A c \in Call : stored[c] = "running" /\ ProcessAlive(at[c]) =>
        c \in active[at[c]] \/ unsaved[c]

\* What the caller was told is what the table says: a settled run whose update
\* did not fail has that very status in its row, unless the row was deleted,
\* whatever recovery, clean-up and close did meanwhile.
ResultMatchesRecord ==
    \A c \in Call :
        /\ joined[c] = None /\ pc[c] # "failed"
        /\ result[c] # "pending" /\ ~unsaved[c]
        => stored[c] \in {result[c], "deleted"}

\* Conservative reaping: a row becomes "interrupted" only when the process of
\* its run is dead and its caller was not told that it succeeded.
OnlyTheDeadAreInterrupted ==
    \A c \in Call : stored[c] = "interrupted" =>
        svc[at[c]] = "dead" /\ result[c] # "success"

\* A duplicate joins a run made for the same scope, request and digest, and a
\* replayed answer other than a failure is the answer of that run.
ReplayIsSound ==
    \A c \in Call : joined[c] # None =>
        LET run == joined[c] IN
        /\ req[run] = req[c] /\ digest[run] = digest[c]
        /\ OwnerOf[at[run]] = OwnerOf[at[c]]
        /\ result[c] \notin {"pending", "failed"} => result[run] = result[c]

\* Subscribers see each run end once: a final status event is emitted once, as
\* the last status event, and says what the result says.
OneFinalEvent ==
    \A c \in Call : LET final == {i \in DOMAIN events[c] : events[c][i] # "running"} IN
        IF pc[c] \in {"failed", "ended"}
        THEN final = {Len(events[c])} /\ events[c][Len(events[c])] = result[c]
        ELSE final = {}

\* A run that was aborted settles and leaves activeRuns, unless its process
\* dies, even when the action ignores the signal.
AbortedRunsEnd ==
    \A c \in Call : (pc[c] = "racing" /\ aborted[c] # "no")
                        ~> (pc[c] \in {"ended", "lost"})

\* close() returns, whatever the actions it aborted do.
CloseReturns ==
    \A h \in Host : (svc[h] = "closing") ~> (svc[h] \in {"closed", "dead"})

\* Each run evolves as RunLifecycle promises: a row reaches one terminal status
\* and keeps it until it is deleted, in agreement with the caller's result.
Lifecycle == INSTANCE RunLifecycle
    WITH Run <- Call, record <- stored,
         outcome <- [c \in Call |-> IF joined[c] = None THEN result[c] ELSE "pending"]

RefinesLifecycle == Lifecycle!Spec

\* docs/reference/http-api.md: an idempotency key guards against executing a
\* resent request again.
AtMostOneExecution ==
    \A c, d \in Call :
        /\ c # d /\ req[c] # None /\ req[c] = req[d] /\ digest[c] = digest[d]
        /\ at[c] = at[d]
        => ~(events[c] # <<>> /\ events[d] # <<>>
             /\ events[c][1] = "running" /\ events[d][1] = "running")

\* docs/reference/http-api.md: RUN_ALREADY_FINISHED is the answer to cancelling
\* a run that is in a terminal status.
AlreadyFinishedIsTerminal ==
    \A h \in Host, c \in Call :
        svc[h] = "open" /\ CancelAnswer(h, c) = "already_terminal"
            => stored[c] \in Terminal
=============================================================================
