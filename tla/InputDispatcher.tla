---------------------------- MODULE InputDispatcher ----------------------------
(***************************************************************************)
(* The input queue of one managed process: process/input-dispatcher.ts and *)
(* the handlers of process/process-manager.ts and process/control.ts that  *)
(* share the process record with it.                                       *)
(*                                                                         *)
(* An action is what runs between two awaits.  A receipt is written to the *)
(* metadata store when recordRequest is called and the caller resumes any  *)
(* time later, so receipt[o] is what operation() answers.  The operations  *)
(* are the requests that passed the deduplication of ProcessManager.       *)
(***************************************************************************)
EXTENDS Integers, Sequences

CONSTANTS
    Op,         \* requests to write or control
    Kind,       \* what each asks for: "write", "eof", or "signal" for the rest
    MaxEpoch    \* bound on the number of takeovers

ASSUME KindAssumption == Kind \in [Op -> {"write", "eof", "signal"}]
ASSUME MaxEpochAssumption == MaxEpoch \in Nat

VARIABLES
    state,       \* info.state; "ended" for exited and failed
    control,     \* info.control
    handle,      \* proc.handle is set
    inputClosed, \* proc.inputClosed
    idleTimer,   \* proc.idleTimer is armed
    outputOpen,  \* ~info.outputClosed
    evicted,     \* the record has left the table of processes
    epoch,       \* proc.cancelEpoch
    queue,       \* proc.inputQueue
    opEpoch,     \* opEpoch[o]: cancelEpoch of the queued operation
    receipt,     \* receipt[o]: state of the stored receipt
    entering,    \* operations whose "queued" receipt is being persisted
    wakes,       \* operations whose dispatchNext microtask is due
    at,          \* the await at which dispatchNext stands
    current,     \* the operation it holds
    pushed,      \* history: operations in the order they were queued
    delivered,   \* history: operations in the order the driver got them
    freeCount    \* history: how many it had got when control was last free

procVars == <<state, control, handle, inputClosed, idleTimer, outputOpen, evicted>>
queueVars == <<epoch, queue, opEpoch>>
historyVars == <<pushed, delivered, freeCount>>
vars == <<procVars, queueVars, receipt, entering, wakes, at, current, historyVars>>

Live == state # "ended"
Final == {"completed", "failed", "unknown"}

-----------------------------------------------------------------------------
(* Entering the queue *)

\* enqueueWrite and enqueueControl up to their await: a process that is being
\* stopped still accepts.
Enqueue(o) ==
    /\ receipt[o] = "none" /\ ~evicted
    /\ control # "quarantined" /\ Live
    /\ Kind[o] = "write" => ~inputClosed
    /\ receipt' = [receipt EXCEPT ![o] = "queued"]
    /\ entering' = entering \cup {o}
    /\ UNCHANGED <<procVars, queueVars, wakes, at, current, historyVars>>

\* Mutant: the operation is queued and nobody is told.
PushSilently(o) ==
    /\ o \in entering
    /\ entering' = entering \ {o}
    /\ queue' = Append(queue, o)
    /\ opEpoch' = [opEpoch EXCEPT ![o] = epoch]
    /\ pushed' = Append(pushed, o)
    /\ UNCHANGED <<procVars, epoch, receipt, wakes, at, current, delivered, freeCount>>

\* After it: nothing is checked again.
Push(o) ==
    /\ o \in entering
    /\ entering' = entering \ {o}
    /\ queue' = Append(queue, o)
    /\ opEpoch' = [opEpoch EXCEPT ![o] = epoch]
    /\ wakes' = wakes \cup {o}
    /\ pushed' = Append(pushed, o)
    /\ UNCHANGED <<procVars, epoch, receipt, at, current, delivered, freeCount>>

-----------------------------------------------------------------------------
(* The dispatch loop *)

\* The head of q after the loop dropped what was queued under an older epoch.
Fresh(q) ==
    LET current_epoch(o) == opEpoch[o] = epoch IN
    IF \E i \in DOMAIN q : current_epoch(q[i])
    THEN SubSeq(q, CHOOSE i \in DOMAIN q : /\ current_epoch(q[i])
                                           /\ \A j \in 1..(i - 1) : ~current_epoch(q[j]),
                Len(q))
    ELSE <<>>

\* One turn of the while loop, up to its first await.
Loop(q) ==
    /\ queue' = Fresh(q)
    /\ \/ /\ queue' = <<>>
          /\ at' = "idle"
          /\ UNCHANGED <<current, receipt>>
       \/ /\ queue' # <<>> /\ control \in {"quarantined", "closed"}
          /\ at' = "revoked"
          /\ current' = Head(queue')
          /\ receipt' = [receipt EXCEPT ![Head(queue')] = "failed"]
       \/ /\ queue' # <<>> /\ control = "free"
          /\ at' = "dispatching"
          /\ current' = Head(queue')
          /\ receipt' = [receipt EXCEPT ![Head(queue')] = "dispatching"]

\* proc.inputQueue.shift().
Shifted == IF queue = <<>> THEN <<>> ELSE Tail(queue)

\* The check behind most awaits: the operation was not taken over.
StillMine == queue # <<>> /\ Head(queue) = current /\ opEpoch[current] = epoch

\* The microtask; dispatchNext returns at once if another one is dispatching.
Wake(o) ==
    /\ o \in wakes
    /\ wakes' = wakes \ {o}
    /\ \/ at = "idle" /\ queue # <<>> /\ Loop(queue)
       \/ ~(at = "idle" /\ queue # <<>>) /\ UNCHANGED <<queue, at, current, receipt>>
    /\ UNCHANGED <<procVars, epoch, opEpoch, entering, historyVars>>

\* The "dispatching" receipt is stored: the driver is called without a look at
\* what happened meanwhile.
CallDriver ==
    /\ at = "dispatching" /\ handle
    /\ at' = "driver"
    /\ delivered' = Append(delivered, current)
    /\ freeCount' = IF control = "free" THEN freeCount + 1 ELSE freeCount
    /\ UNCHANGED <<procVars, queueVars, receipt, entering, wakes, current, pushed>>

\* Mutant: a write that failed is settled like any other operation.
FailAndGoOn ==
    \/ ~StillMine /\ Loop(queue) /\ UNCHANGED <<epoch, opEpoch>>
    \/ /\ StillMine
       /\ receipt' = [receipt EXCEPT ![current] = IF Kind[current] = "write"
                                                  THEN "unknown" ELSE "failed"]
       /\ at' = "settle"
       /\ UNCHANGED <<queueVars, current>>

\* The catch blocks: what a write did is unknown, a control action failed.
Fail ==
    \/ ~StillMine /\ Loop(queue) /\ UNCHANGED <<epoch, opEpoch>>
    \/ /\ StillMine /\ Kind[current] = "write"
       /\ receipt' = [receipt EXCEPT ![current] = "unknown"]
       /\ at' = "unknown"
       /\ UNCHANGED <<queueVars, current>>
    \/ /\ StillMine /\ Kind[current] # "write"
       /\ receipt' = [receipt EXCEPT ![current] = "failed"]
       /\ at' = "settle"
       /\ UNCHANGED <<queueVars, current>>

\* A process that has not been spawned has no handle; a driver may reject.
DriverFails ==
    /\ \/ at = "dispatching" /\ ~handle
       \/ at = "driver"
    /\ Fail
    /\ UNCHANGED <<procVars, entering, wakes, historyVars>>

\* Mutant: the answer of the driver is believed without the check.
CompleteAlways ==
    /\ at = "driver"
    /\ at' = "settle"
    /\ receipt' = [receipt EXCEPT ![current] = "completed"]
    /\ UNCHANGED <<procVars, queueVars, entering, wakes, current, historyVars>>

\* The driver took the input.
DriverReturns ==
    /\ at = "driver"
    /\ \/ /\ ~StillMine /\ Loop(queue)
          /\ UNCHANGED <<idleTimer, inputClosed>>
       \/ /\ StillMine /\ Kind[current] = "eof"
          /\ inputClosed' = TRUE
          /\ at' = "eof"
          /\ UNCHANGED <<idleTimer, queue, current, receipt>>
       \/ /\ StillMine /\ Kind[current] # "eof"
          /\ receipt' = [receipt EXCEPT ![current] = "completed"]
          /\ idleTimer' = (idleTimer \/ Live)
          /\ at' = "settle"
          /\ UNCHANGED <<inputClosed, queue, current>>
    /\ UNCHANGED <<state, control, handle, outputOpen, evicted, epoch, opEpoch,
                   entering, wakes, historyVars>>

\* inputClosed is persisted: the idle timer is armed before the check.
EofPersisted ==
    /\ at = "eof"
    /\ idleTimer' = (idleTimer \/ Live)
    /\ \/ ~StillMine /\ Loop(queue)
       \/ /\ StillMine
          /\ receipt' = [receipt EXCEPT ![current] = "completed"]
          /\ at' = "settle"
          /\ UNCHANGED <<queue, current>>
    /\ UNCHANGED <<state, control, handle, inputClosed, outputOpen, evicted, epoch,
                   opEpoch, entering, wakes, historyVars>>

\* Mutant: the operation stays in the queue.
SettledWithoutShift ==
    /\ at \in {"settle", "revoked"}
    /\ Loop(queue)
    /\ UNCHANGED <<procVars, epoch, opEpoch, entering, wakes, historyVars>>

\* The final receipt is stored: whatever is first in the queue is shifted out.
Settled ==
    /\ at \in {"settle", "revoked"}
    /\ Loop(Shifted)
    /\ UNCHANGED <<procVars, epoch, opEpoch, entering, wakes, historyVars>>

-----------------------------------------------------------------------------
(* Losing control *)

\* takeoverQueue: everything in q fails, under a new epoch.
Takeover(q) ==
    /\ epoch' = epoch + 1
    /\ receipt' = [o \in Op |-> IF \E i \in DOMAIN q : q[i] = o THEN "failed" ELSE receipt[o]]
    /\ queue' = <<>>
    /\ UNCHANGED opEpoch

\* The "unknown" receipt is stored: the head is shifted and the process is
\* quarantined, unless it is quarantined or closed already.
QuarantineBegins ==
    /\ at = "unknown"
    /\ at' = "quarantine"
    /\ \/ control = "free" /\ control' = "quarantined" /\ Takeover(Shifted)
       \/ control # "free" /\ queue' = Shifted /\ UNCHANGED <<control, epoch, opEpoch, receipt>>
    /\ UNCHANGED <<state, handle, inputClosed, idleTimer, outputOpen, evicted,
                   entering, wakes, current, historyVars>>

\* The break behind it leaves the loop with whatever was queued meanwhile.
QuarantineEnds ==
    /\ at = "quarantine"
    /\ at' = "idle"
    /\ UNCHANGED <<procVars, queueVars, receipt, entering, wakes, current, historyVars>>

\* stop(), called by an owner, by shutdown() or by a timer, up to its await.
Stop ==
    /\ Live /\ epoch < MaxEpoch
    /\ Takeover(queue)
    /\ state' = "stopping" /\ control' = "closed" /\ idleTimer' = FALSE
    /\ UNCHANGED <<handle, inputClosed, outputOpen, evicted, entering, wakes, at,
                   current, historyVars>>

IdleTimeout == idleTimer /\ Stop

\* spawn() resolves: start() turns "starting" into "running", no other state.
Spawned ==
    /\ ~handle /\ Live
    /\ handle' = TRUE
    /\ \/ state = "starting" /\ state' = "running" /\ idleTimer' = TRUE
       \/ state # "starting" /\ UNCHANGED <<state, idleTimer>>
    /\ UNCHANGED <<control, inputClosed, outputOpen, evicted, queueVars, receipt,
                   entering, wakes, at, current, historyVars>>

\* maybeEvictProcess.
Evict(st, open) == evicted' = (evicted \/ (st = "ended" /\ ~open /\ queue = <<>>))

\* handleProcessExit: what is queued stays queued.
Exit ==
    /\ handle /\ Live
    /\ state' = "ended" /\ control' = "closed" /\ idleTimer' = FALSE
    /\ UNCHANGED <<handle, inputClosed, outputOpen, evicted, queueVars, receipt,
                   entering, wakes, at, current, historyVars>>

\* handleOutputClosed, or the drain timer in its place.
OutputClosed ==
    /\ handle /\ outputOpen
    /\ outputOpen' = FALSE
    /\ Evict(state, FALSE)
    /\ UNCHANGED <<state, control, handle, inputClosed, idleTimer, queueVars, receipt,
                   entering, wakes, at, current, historyVars>>

\* handleProcessError.
Fault ==
    /\ handle /\ Live
    /\ state' = "ended" /\ control' = "closed" /\ idleTimer' = FALSE
    /\ outputOpen' = FALSE
    /\ Evict("ended", FALSE)
    /\ UNCHANGED <<handle, inputClosed, queueVars, receipt, entering, wakes, at,
                   current, historyVars>>

-----------------------------------------------------------------------------
(* Specification *)

Init ==
    /\ state = "starting" /\ control = "free" /\ handle = FALSE
    /\ inputClosed = FALSE /\ idleTimer = FALSE
    /\ outputOpen = TRUE /\ evicted = FALSE
    /\ epoch = 0 /\ queue = <<>>
    /\ opEpoch = [o \in Op |-> 0]
    /\ receipt = [o \in Op |-> "none"]
    /\ entering = {} /\ wakes = {}
    /\ at = "idle" /\ current \in Op
    /\ pushed = <<>> /\ delivered = <<>> /\ freeCount = 0

Next ==
    \/ \E o \in Op : Enqueue(o) \/ Push(o) \/ Wake(o)
    \/ CallDriver \/ DriverReturns \/ DriverFails
    \/ EofPersisted \/ Settled \/ QuarantineBegins \/ QuarantineEnds
    \/ Spawned \/ Stop \/ IdleTimeout \/ Exit \/ OutputClosed \/ Fault

\* The store answers, microtasks run, a spawned process is handed over, and a
\* driver call returns or fails: the child reads its input, or exits.
Fairness ==
    /\ \A o \in Op : WF_vars(Push(o)) /\ WF_vars(Wake(o))
    /\ WF_vars(CallDriver) /\ WF_vars(DriverReturns \/ DriverFails)
    /\ WF_vars(EofPersisted) /\ WF_vars(Settled)
    /\ WF_vars(QuarantineBegins) /\ WF_vars(QuarantineEnds)

Spec == Init /\ [][Next]_vars
FairSpec == Spec /\ Fairness

-----------------------------------------------------------------------------
(* Properties *)

\* Every variable has its type, and the operations in the queue carry the
\* epoch of the process: the comparison of epochs in dispatchNext
\* (input-dispatcher.ts:208) never drops an operation without a receipt.
TypeOK ==
    /\ state \in {"starting", "running", "stopping", "ended"}
    /\ control \in {"free", "quarantined", "closed"}
    /\ {handle, inputClosed, idleTimer, outputOpen, evicted} \subseteq BOOLEAN
    /\ epoch \in 0..(MaxEpoch + 1)
    /\ queue \in Seq(Op) /\ pushed \in Seq(Op) /\ delivered \in Seq(Op)
    /\ opEpoch \in [Op -> 0..epoch]
    /\ receipt \in [Op -> {"none", "queued", "dispatching"} \cup Final]
    /\ entering \subseteq Op /\ wakes \subseteq Op
    /\ at \in {"idle", "revoked", "dispatching", "driver", "eof", "settle",
               "unknown", "quarantine"}
    /\ current \in Op
    /\ freeCount \in 0..Len(delivered)
    /\ \A i \in DOMAIN queue : opEpoch[queue[i]] = epoch

\* The child receives each input at most once and in the order of the queue,
\* with whatever takeovers, shifts and new operations happen at the awaits.
DeliveredInOrder ==
    \A i, j \in DOMAIN delivered : i < j =>
        \E m, n \in DOMAIN pushed : m < n /\ pushed[m] = delivered[i] /\ pushed[n] = delivered[j]

\* Once control is lost to stop, exit, fault or quarantine, at most the one
\* operation whose dispatch was being recorded still reaches the driver.
AtMostOneAfterControl == Len(delivered) <= freeCount + 1

\* The queue is served as one serial stream, well-typed and in epoch, to which
\* losing control adds at most one operation.
SerialDelivery == TypeOK /\ DeliveredInOrder /\ AtMostOneAfterControl

\* After a write whose outcome is unknown the child receives nothing more: what
\* follows a possibly half-written input is never sent (input-dispatcher.ts:239).
UncertainInputIsLast ==
    [][(\E o \in Op : receipt[o] = "unknown") => delivered' = delivered]_vars

\* A verdict of takeover stands: an operation that stop or quarantine failed is
\* not turned into a completed one by the answer of a driver or a store that
\* comes later (input-dispatcher.ts:230, 242, 277, 288, 300).
FailureIsFinal ==
    [][\A o \in Op : receipt[o] = "failed" => receipt'[o] = "failed"]_vars

\* As long as nobody takes control away, every accepted operation is settled.
Answered ==
    \A o \in Op : (receipt[o] = "queued")
                      ~> (receipt[o] \in Final \/ control # "free")

\* input-dispatcher.ts:88 and 169: takeover marks the operations that wait for
\* dispatch as failed; one that completed keeps its receipt.
CompletedIsFinal ==
    [][\A o \in Op : receipt[o] = "completed" => receipt'[o] = "completed"]_vars
=============================================================================
