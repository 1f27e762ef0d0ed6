----------------------------- MODULE ProcessOutput -----------------------------
(***************************************************************************)
(* The output of managed processes, from the pipe to the reader: the log   *)
(* with its cursors and long polls (process/output-log.ts), the end of a   *)
(* process and of its output (process/process-manager.ts), the child of    *)
(* the driver with its own timers (process/process-driver.ts), and the     *)
(* cache of the logs of ended processes (process/terminal-output-cache.ts).*)
(*                                                                         *)
(* Bytes are counted, not spelled: record number i of process p ends       *)
(* behind the first sent[p][i] bytes of its output.  A cursor is a record  *)
(* number, from 0, and an offset in that record.                           *)
(***************************************************************************)
EXTENDS Integers, Sequences, FiniteSets, FiniteSetsExt

CONSTANTS
    Proc,            \* managed processes
    Reader,          \* clients that read output
    Of,              \* the process a client reads
    MaxRead,         \* maxBytes of its reads
    ChunkSize,       \* sizes of what a child writes at once
    MaxBufferBytes,  \* limit of one log
    MaxWaiters,      \* limit of pending reads of one log
    MaxChunks        \* bound on the number of writes of a child

ASSUME ProcessOutputAssumption ==
    /\ Of \in [Reader -> Proc]
    /\ MaxRead \in [Reader -> Nat \ {0}]
    /\ ChunkSize \subseteq Nat \ {0}
    /\ {MaxBufferBytes, MaxWaiters} \subseteq Nat \ {0}
    /\ MaxChunks \in Nat

VARIABLES
    sent,         \* every record ever appended, by where it ends
    earliest,     \* earliestCursor: the records before it were trimmed
    logClosed,    \* outputClosedState of the log
    state,        \* info.state
    infoClosed,   \* info.outputClosed
    queued,       \* input of the process is not settled yet
    managerTimer, \* proc.drainTimer
    known,        \* the process is in the table of the manager
    shutDown,     \* shutdown() of the manager has cleared the timers
    exited,       \* instance.exited of the driver
    streamClosed, \* instance.outputClosed of the driver
    terminating,  \* instance.terminationPromise
    driverTimer,  \* instance.drainTimer
    retained,     \* processes whose log is in the cache of ended ones
    cursor,       \* the cursor of a client
    phase,        \* what it does: "idle", "waiting", or why it stopped
    got,          \* history: the number of bytes it received
    lost          \* history: the number of bytes it was told are gone

logVars == <<sent, earliest, logClosed>>
procVars == <<state, infoClosed, queued, managerTimer, known, shutDown>>
driverVars == <<exited, streamClosed, terminating, driverTimer>>
readerVars == <<cursor, phase, got, lost>>
outputVars == <<logVars, procVars, driverVars, retained, readerVars>>

Ended(p) == state[p] = "ended"

-----------------------------------------------------------------------------
(* The log of one process: s are its records, e is its earliest cursor *)

Cursor(q, o) == [seq |-> q, off |-> o]
TailCursor(s) == Cursor(Len(s), 0)
Before(c, d) == c.seq < d.seq \/ (c.seq = d.seq /\ c.off < d.off)

\* Where record q starts in the whole output, and where a cursor is in it.
Start(s, q) == IF q = 0 THEN 0 ELSE s[q]
Size(s, q) == Start(s, q + 1) - Start(s, q)
Position(s, c) == Start(s, c.seq) + c.off

\* The bytes of the log from a cursor on.
Bytes(s, c) == Start(s, Len(s)) - Position(s, c)

\* Mutant: the last record goes as a whole, too.
TrimmedByRecords(s, e) ==
    LET from(q) == IF q = e.seq THEN e ELSE Cursor(q, 0)
        first == Min({q \in e.seq..Len(s) : q = Len(s) \/ Bytes(s, from(q)) <= MaxBufferBytes})
    IN  from(first)

\* The loop of append: whole records go, and the head of the last one.
Trimmed(s, e) ==
    LET from(q) == IF q = e.seq THEN e ELSE Cursor(q, 0)
        first == Min({q \in e.seq..(Len(s) - 1) :
                        Bytes(s, from(q)) <= MaxBufferBytes \/ q = Len(s) - 1})
        overflow == Bytes(s, from(first)) - MaxBufferBytes
    IN  IF overflow > 0 THEN Cursor(first, from(first).off + overflow) ELSE from(first)

\* Mutant: a record that is split is not resumed.
ReadFromWithoutOffset(s, c, max) ==
    LET before(q) == IF q = c.seq THEN 0 ELSE Start(s, q) - Position(s, c)
        last == Max({q \in c.seq..(Len(s) - 1) : before(q) < max})
    IN  IF c = TailCursor(s) THEN [next |-> c, taken |-> 0]
        ELSE [next  |-> Cursor(last + 1, 0), taken |-> Min({before(last + 1), max})]

\* read, from a cursor that is not behind: at most max bytes, record by record.
\* It stops in the last record it reaches, or at the head of the next one.
ReadFrom(s, c, max) ==
    LET start(q)  == IF q = c.seq THEN c.off ELSE 0
        before(q) == IF q = c.seq THEN 0 ELSE Start(s, q) - Position(s, c)
        last == Max({q \in c.seq..(Len(s) - 1) : before(q) < max})
        stop == start(last) + Min({Size(s, last) - start(last), max - before(last)})
    IN  IF c = TailCursor(s) THEN [next |-> c, taken |-> 0]
        ELSE [next  |-> IF stop >= Size(s, last) THEN Cursor(last + 1, 0) ELSE Cursor(last, stop),
              taken |-> before(last) + stop - start(last)]

\* Where a read begins: a cursor that has fallen behind skips the gap, and a
\* client that asks for an error is given the same place to go on from.
Begin(e, c) == IF Before(c, e) THEN e ELSE c

\* The clients in R are answered by a read of the log (s, e, closed).
Answer(R, s, e, closed) ==
    \E res \in {[r \in R |-> ReadFrom(s, Begin(e, cursor[r]), MaxRead[r])]} :
        /\ cursor' = [r \in Reader |-> IF r \in R THEN res[r].next ELSE cursor[r]]
        /\ got' = [r \in Reader |-> IF r \in R THEN got[r] + res[r].taken ELSE got[r]]
        /\ lost' = [r \in Reader |->
                       IF r \in R THEN lost[r] + Position(s, Begin(e, cursor[r]))
                                              - Position(s, cursor[r])
                       ELSE lost[r]]
        /\ phase' = [r \in Reader |->
                        IF r \notin R THEN phase[r]
                        ELSE IF closed /\ res[r].next = TailCursor(s) THEN "eof" ELSE "idle"]

Waiters(p) == {r \in Reader : Of[r] = p /\ phase[r] = "waiting"}

\* closeOutput, with notifyWaiters.
CloseOutput(p) ==
    /\ logClosed' = [logClosed EXCEPT ![p] = TRUE]
    /\ IF logClosed[p] THEN UNCHANGED readerVars ELSE Answer(Waiters(p), sent[p], earliest[p], TRUE)
    /\ UNCHANGED <<sent, earliest>>

\* The driver hands over a chunk: append, with notifyWaiters.
Data(p, n) ==
    /\ ~streamClosed[p] /\ Len(sent[p]) < MaxChunks
    /\ LET s == Append(sent[p], Start(sent[p], Len(sent[p])) + n)
           e == IF Bytes(s, earliest[p]) > MaxBufferBytes
                THEN Trimmed(s, earliest[p]) ELSE earliest[p]
       IN  /\ sent' = [sent EXCEPT ![p] = s]
           /\ earliest' = [earliest EXCEPT ![p] = e]
           /\ Answer(Waiters(p), s, e, logClosed[p])
    /\ UNCHANGED <<logClosed, procVars, driverVars, retained>>

-----------------------------------------------------------------------------
(* The cache of the logs of ended processes *)

\* The time of a log is over, or it makes room for the log of another process.
Forget(p) ==
    /\ p \in retained
    /\ retained' = retained \ {p}
    /\ UNCHANGED <<logVars, procVars, driverVars, readerVars>>

-----------------------------------------------------------------------------
(* The end of a process.  The operators say what a callback does to the     *)
(* manager; the actions below are the events of the driver and its timers.  *)

\* maybeEvictProcess, with dispose: st and closed are the state and outputClosed
\* of the process, gone whether the driver's child has exited and closed.
MaybeEvict(p, st, closed, gone) ==
    IF st = "ended" /\ closed /\ ~queued[p]
    THEN /\ known' = [known EXCEPT ![p] = FALSE]
         /\ retained' = retained \cup {p}
         /\ terminating' = [terminating EXCEPT ![p] = @ \/ ~gone]
    ELSE UNCHANGED <<known, retained, terminating>>

\* handleOutputClosed.
OutputClosed(p) ==
    /\ managerTimer' = [managerTimer EXCEPT ![p] = FALSE]
    /\ CloseOutput(p)
    /\ infoClosed' = [infoClosed EXCEPT ![p] = @ \/ ~logClosed[p]]
    /\ MaybeEvict(p, state[p], infoClosed'[p], exited[p])
    /\ UNCHANGED <<state, queued, shutDown>>

\* markOutputClosed of the driver.
MarkOutputClosed(p) ==
    /\ streamClosed' = [streamClosed EXCEPT ![p] = TRUE]
    /\ driverTimer' = [driverTimer EXCEPT ![p] = FALSE]
    /\ OutputClosed(p)

\* Mutant: the driver leaves the drain timer to the manager.
ChildExitWithoutTimer(p) ==
    /\ ~exited[p]
    /\ exited' = [exited EXCEPT ![p] = TRUE]
    /\ state' = [state EXCEPT ![p] = "ended"]
    /\ managerTimer' = [managerTimer EXCEPT ![p] = @ \/ ~Ended(p)]
    /\ UNCHANGED <<infoClosed, queued, known, shutDown, streamClosed, terminating,
                   driverTimer, logVars, retained, readerVars>>

\* The child exits: markExited with handleProcessExit, and the driver's timer.
ChildExit(p) ==
    /\ ~exited[p]
    /\ exited' = [exited EXCEPT ![p] = TRUE]
    /\ driverTimer' = [driverTimer EXCEPT ![p] = @ \/ (~terminating[p] /\ ~streamClosed[p])]
    /\ state' = [state EXCEPT ![p] = "ended"]
    /\ managerTimer' = [managerTimer EXCEPT ![p] = @ \/ ~Ended(p)]
    /\ UNCHANGED <<infoClosed, queued, known, shutDown, streamClosed, terminating,
                   logVars, retained, readerVars>>

\* The last holder of the pipes closes them: the close event.
StreamsClose(p) ==
    /\ exited[p] /\ ~streamClosed[p]
    /\ MarkOutputClosed(p)
    /\ UNCHANGED exited

\* The driver's drain timer fires.
DriverDrain(p) ==
    /\ driverTimer[p]
    /\ MarkOutputClosed(p)
    /\ UNCHANGED exited

\* The manager's drain timer fires: a log that is closed already is left alone.
ManagerDrain(p) ==
    /\ managerTimer[p]
    /\ managerTimer' = [managerTimer EXCEPT ![p] = FALSE]
    /\ IF logClosed[p]
       THEN UNCHANGED <<logVars, readerVars, infoClosed, known, retained, terminating>>
       ELSE /\ CloseOutput(p)
            /\ infoClosed' = [infoClosed EXCEPT ![p] = TRUE]
            /\ MaybeEvict(p, state[p], TRUE, exited[p] /\ streamClosed[p])
    /\ UNCHANGED <<state, queued, shutDown, exited, streamClosed, driverTimer>>

\* The driver reports that there is no child: handleProcessError, then the exit
\* and the end of output of the same event.
Fault(p) ==
    /\ ~exited[p] /\ sent[p] = <<>>
    /\ exited' = [exited EXCEPT ![p] = TRUE]
    /\ streamClosed' = [streamClosed EXCEPT ![p] = TRUE]
    /\ driverTimer' = [driverTimer EXCEPT ![p] = FALSE]
    /\ state' = [state EXCEPT ![p] = "ended"]
    /\ infoClosed' = [infoClosed EXCEPT ![p] = @ \/ ~Ended(p)]
    /\ managerTimer' = [managerTimer EXCEPT ![p] = FALSE]
    /\ CloseOutput(p)
    /\ MaybeEvict(p, "ended", infoClosed'[p], TRUE)
    /\ UNCHANGED <<queued, shutDown>>

\* start() is cancelled or fails behind its spawn: the log is closed, and
\* info.outputClosed is not set.
AbandonStart(p) ==
    /\ state[p] = "starting"
    /\ state' = [state EXCEPT ![p] = "ended"]
    /\ CloseOutput(p)
    /\ terminating' = [terminating EXCEPT ![p] = ~exited[p] \/ ~streamClosed[p]]
    /\ UNCHANGED <<infoClosed, queued, managerTimer, known, shutDown, exited, streamClosed,
                   driverTimer, retained>>

Started(p) ==
    /\ state[p] = "starting"
    /\ state' = [state EXCEPT ![p] = "running"]
    /\ UNCHANGED <<infoClosed, queued, managerTimer, known, shutDown, logVars, driverVars,
                   retained, readerVars>>

\* stop() reaches the driver.
Terminate(p) ==
    /\ state[p] = "running" /\ ~terminating[p]
    /\ terminating' = [terminating EXCEPT ![p] = TRUE]
    /\ UNCHANGED <<exited, streamClosed, driverTimer, logVars, procVars, retained, readerVars>>

\* The second phase of terminate takes the drain timer over.
TerminationWaits(p) ==
    /\ terminating[p] /\ driverTimer[p]
    /\ driverTimer' = [driverTimer EXCEPT ![p] = FALSE]
    /\ UNCHANGED <<exited, streamClosed, terminating, logVars, procVars, retained, readerVars>>

\* It ends when the child is gone, or closes the output at its deadline.  The
\* dispose that a late end of output calls for finds this termination.
TerminationEnds(p) ==
    /\ terminating[p]
    /\ IF streamClosed[p]
       THEN /\ terminating' = [terminating EXCEPT ![p] = FALSE]
            /\ UNCHANGED <<exited, streamClosed, driverTimer, logVars, procVars,
                           retained, readerVars>>
       ELSE MarkOutputClosed(p) /\ UNCHANGED exited

\* The end of shutdown(), once, after its calls of stop(): it clears the drain
\* timer of every process in the table, of those too that have ended.
Shutdown ==
    /\ ~shutDown
    /\ shutDown' = TRUE
    /\ managerTimer' = [p \in Proc |-> managerTimer[p] /\ ~known[p]]
    /\ UNCHANGED <<state, infoClosed, queued, known, logVars, driverVars, retained,
                   readerVars>>

\* Input is queued, and settled, by the dispatcher.
QueueInput(p) ==
    /\ ~Ended(p) /\ known[p] /\ ~queued[p]
    /\ queued' = [queued EXCEPT ![p] = TRUE]
    /\ UNCHANGED <<state, infoClosed, managerTimer, known, shutDown, logVars, driverVars,
                   retained, readerVars>>

SettleInput(p) ==
    /\ queued[p]
    /\ queued' = [queued EXCEPT ![p] = FALSE]
    /\ UNCHANGED <<state, infoClosed, managerTimer, known, shutDown, logVars, driverVars,
                   retained, readerVars>>

-----------------------------------------------------------------------------
(* Clients: ProcessManager.read *)

\* The log is in the table or in the cache.
Found(p) == known[p] \/ p \in retained

AtTail(r) == cursor[r] = TailCursor(sent[Of[r]])

\* There is something to tell: output, a gap, or the end.
Read(r) ==
    /\ phase[r] = "idle"
    /\ ~AtTail(r) \/ logClosed[Of[r]]
    /\ Found(Of[r])
    /\ Answer({r}, sent[Of[r]], earliest[Of[r]], logClosed[Of[r]])
    /\ UNCHANGED <<logVars, procVars, driverVars, retained>>

\* Mutant: the client is registered without a look at the end of output.
WaitAnyway(r) ==
    /\ phase[r] = "idle" /\ AtTail(r)
    /\ Cardinality(Waiters(Of[r])) < MaxWaiters
    /\ Found(Of[r])
    /\ phase' = [phase EXCEPT ![r] = "waiting"]
    /\ UNCHANGED <<logVars, procVars, driverVars, retained, cursor, got, lost>>

\* There is not: the client is registered, while there is room.
Wait(r) ==
    /\ phase[r] = "idle" /\ AtTail(r) /\ ~logClosed[Of[r]]
    /\ Cardinality(Waiters(Of[r])) < MaxWaiters
    /\ Found(Of[r])
    /\ phase' = [phase EXCEPT ![r] = "waiting"]
    /\ UNCHANGED <<logVars, procVars, driverVars, retained, cursor, got, lost>>

\* The log is gone: OUTPUT_UNAVAILABLE.
ReadUnavailable(r) ==
    /\ phase[r] = "idle" /\ ~Found(Of[r])
    /\ phase' = [phase EXCEPT ![r] = "unavailable"]
    /\ UNCHANGED <<logVars, procVars, driverVars, retained, cursor, got, lost>>

\* The wait times out, with a last read, or is aborted.
WaitEnds(r) ==
    /\ phase[r] = "waiting"
    /\ \/ Answer({r}, sent[Of[r]], earliest[Of[r]], logClosed[Of[r]])
       \/ phase' = [phase EXCEPT ![r] = "idle"] /\ UNCHANGED <<cursor, got, lost>>
    /\ UNCHANGED <<logVars, procVars, driverVars, retained>>

-----------------------------------------------------------------------------
(* Specification *)

OutputInit ==
    /\ sent = [p \in Proc |-> <<>>]
    /\ earliest = [p \in Proc |-> Cursor(0, 0)]
    /\ logClosed = [p \in Proc |-> FALSE]
    /\ state = [p \in Proc |-> "starting"]
    /\ infoClosed = [p \in Proc |-> FALSE]
    /\ queued = [p \in Proc |-> FALSE]
    /\ managerTimer = [p \in Proc |-> FALSE]
    /\ known = [p \in Proc |-> TRUE]
    /\ shutDown = FALSE
    /\ exited = [p \in Proc |-> FALSE]
    /\ streamClosed = [p \in Proc |-> FALSE]
    /\ terminating = [p \in Proc |-> FALSE]
    /\ driverTimer = [p \in Proc |-> FALSE]
    /\ retained = {}
    /\ cursor = [r \in Reader |-> Cursor(0, 0)]
    /\ phase = [r \in Reader |-> "idle"]
    /\ got = [r \in Reader |-> 0] /\ lost = [r \in Reader |-> 0]

OutputNext ==
    \/ \E p \in Proc :
          \/ \E n \in ChunkSize : Data(p, n)
          \/ Started(p) \/ AbandonStart(p) \/ Fault(p)
          \/ QueueInput(p) \/ SettleInput(p)
          \/ ChildExit(p) \/ StreamsClose(p) \/ DriverDrain(p) \/ ManagerDrain(p)
          \/ Terminate(p) \/ TerminationWaits(p) \/ TerminationEnds(p)
          \/ Forget(p)
    \/ Shutdown
    \/ \E r \in Reader : Read(r) \/ Wait(r) \/ ReadUnavailable(r) \/ WaitEnds(r)

\* Clients go on reading, an armed timer fires, of the manager or of the driver,
\* and a termination comes to its end, at its deadline at the latest.
OutputFairness ==
    /\ \A r \in Reader : WF_outputVars(Read(r) \/ ReadUnavailable(r))
    /\ \A p \in Proc : /\ WF_outputVars(ManagerDrain(p)) /\ WF_outputVars(DriverDrain(p))
                       /\ WF_outputVars(TerminationEnds(p))

\* The dispatcher, and a child that is terminated, come to an end, too.
DrainingFairness ==
    \A p \in Proc : /\ WF_outputVars(SettleInput(p))
                    /\ WF_outputVars(ChildExit(p) /\ terminating[p])

OutputSpec == OutputInit /\ [][OutputNext]_outputVars
OutputFairSpec == OutputSpec /\ OutputFairness
DrainingSpec == OutputFairSpec /\ DrainingFairness

-----------------------------------------------------------------------------
(* Properties *)

\* Every variable has its type, a log never keeps more than its limit
\* (output-log.ts:191), and the earliest cursor is a place in the log.
OutputTypeOK ==
    /\ sent \in [Proc -> Seq(Nat)]
    /\ earliest \in [Proc -> [seq : Nat, off : Nat]]
    /\ state \in [Proc -> {"starting", "running", "ended"}]
    /\ {logClosed, infoClosed, queued, managerTimer, known, exited, streamClosed,
        terminating, driverTimer} \subseteq [Proc -> BOOLEAN]
    /\ retained \subseteq Proc /\ shutDown \in BOOLEAN
    /\ cursor \in [Reader -> [seq : Nat, off : Nat]]
    /\ phase \in [Reader -> {"idle", "waiting", "eof", "unavailable"}]
    /\ got \in [Reader -> Nat] /\ lost \in [Reader -> Nat]
    /\ \A p \in Proc : /\ \A q \in 1..Len(sent[p]) : Size(sent[p], q - 1) \in ChunkSize
                       /\ Bytes(sent[p], earliest[p]) \in 0..MaxBufferBytes
                       /\ ~Before(TailCursor(sent[p]), earliest[p])
    /\ \A r \in Reader : ~Before(TailCursor(sent[Of[r]]), cursor[r])

\* Up to its cursor, a client has received every byte exactly once, or was told
\* that it is gone: whatever is trimmed, split or appended between its reads.
\* The log stays well-typed and within its limit (output-log.ts:182-226).
NothingLostSilently ==
    /\ OutputTypeOK
    /\ \A r \in Reader : got[r] + lost[r] = Position(sent[Of[r]], cursor[r])

\* The log is a stream: it gives up bytes for its limit only, a gap that a client
\* is told of is what was trimmed and no more, and an answer leads on
\* (output-log.ts:190-215, 254-365).
Stream == INSTANCE OutputStream WITH
    total <- [p \in Proc |-> Start(sent[p], Len(sent[p]))],
    kept <- [p \in Proc |-> Position(sent[p], earliest[p])]

RefinesStream == Stream!Spec

\* A pending read has nothing to wait for but what comes next: the check of the
\* log and the registration leave no gap (output-log.ts:381), and no more of
\* them wait than the limit allows.
NoLostWakeUp ==
    \A r \in Reader : phase[r] = "waiting" =>
        /\ AtTail(r) /\ ~logClosed[Of[r]]
        /\ Cardinality(Waiters(Of[r])) <= MaxWaiters

\* Once its process ended, a client that goes on reading comes to the end of
\* output or is told that the output is gone: the end of output does not depend
\* on who still holds the pipes (process-manager.ts:1033, process-driver.ts:571),
\* nor on the timer of the manager, which shutdown() may clear
\* (process-manager.ts:314).
ReadingEnds ==
    \A r \in Reader : state[Of[r]] = "ended" ~> phase[r] \in {"eof", "unavailable"}

\* process-manager.ts:1193: when the process has ended and its output is closed,
\* its record is removed from memory; with input that is not settled yet, that
\* is only put off (process-manager.ts:1203).
EndedIsEvicted ==
    \A p \in Proc : (state[p] = "ended" /\ logClosed[p]) ~> ~known[p]
=============================================================================
