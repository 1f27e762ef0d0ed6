------------------------------- MODULE EventSink -------------------------------
(***************************************************************************)
(* The broadcaster of run events, runtime/events.ts: a bounded buffer for  *)
(* each run, subscribers that replay it and then follow a queue of their   *)
(* own, and the eviction of whole runs; and the clients of the HTTP event  *)
(* stream that resume it, server/routes/runs.ts.                           *)
(*                                                                         *)
(* Events are their sequence numbers.  Event FinishAt[r] of run r is its   *)
(* finish; what follows are log calls of a handler that still runs.  An    *)
(* action of a subscriber is what its generator does from one next() to    *)
(* the following yield or await.                                           *)
(***************************************************************************)
EXTENDS Integers, Sequences, FiniteSets

CONSTANTS
    Run, Sub,
    FinishAt,        \* FinishAt[r]: sequence number of the finish of r
    LateEvents,      \* bound on the events behind it
    MaxEventsPerRun, \* entries of one buffer
    MaxRuns,         \* buffers
    QueueSize,       \* entries of a subscriber's queue
    MaxSubscriptions,\* bound on the subscriptions of one client
    ByEventId        \* clients resume with Last-Event-ID; or else by sequence

ASSUME EventSinkAssumption ==
    /\ IsFiniteSet(Run) /\ Run # {}
    /\ FinishAt \in [Run -> Nat]
    /\ {MaxEventsPerRun, MaxRuns, QueueSize} \subseteq Nat \ {0}
    /\ {LateEvents, MaxSubscriptions} \subseteq Nat
    /\ ByEventId \in BOOLEAN

VARIABLES
    globalEventSeq, \* the last eventId given
    ids,       \* eventId of every event emitted, by run
    runs,      \* runs that have a buffer
    from,      \* from[r]: its first entry; the last one is the newest event
    terminal,  \* isTerminal of the buffer
    evictedRuns,
    listeners, \* number of the set of listeners of r in the table, or 0
    setOf,     \* setOf[s]: number of the set subscriber s is a member of, or 0
    nextSet,   \* numbers given to sets of listeners
    run,       \* the run a subscriber follows
    phase,     \* its generator: "idle", "replay", "live", "cleanup" or "ended"
    last,      \* its lastYieldedSequence
    replay,    \* the entries of its snapshot that are left
    queue,     \* its liveQueue
    done,      \* its channel is done
    subscriptions, \* how often it subscribed
    received,  \* history: the events the client received
    dropped,   \* history: events that were dropped before it could read them
    lostRuns   \* history: runs that were evicted

sinkVars == <<globalEventSeq, ids, runs, from, terminal, evictedRuns, lostRuns>>
subVars == <<run, phase, last, replay, queue, done, setOf, subscriptions, received, dropped>>
vars == <<sinkVars, listeners, nextSet, subVars>>

Emitted(r) == Len(ids[r])
Finished(r) == Emitted(r) > FinishAt[r]

-----------------------------------------------------------------------------
(* The broadcaster *)

\* evictOldestRun: a terminal run first, the one that was used longest ago as
\* far as the clock tells.
Evictable ==
    IF \E r \in runs : terminal[r] THEN {r \in runs : terminal[r]} ELSE runs

Members(g) == {s \in Sub : g # 0 /\ setOf[s] = g}

\* receive, for every listener of r; the ones of an evicted run v are done.
Deliver(r, n, v) ==
    LET gone == {s \in Members(listeners[r]) : done[s]}
                   \cup UNION {Members(listeners[w]) : w \in v}
        to == Members(listeners[r]) \ gone
        full(s) == Len(queue[s]) >= QueueSize
    IN  /\ queue' = [s \in Sub |-> IF s \notin to THEN queue[s]
                       ELSE Append(IF full(s) THEN Tail(queue[s]) ELSE queue[s], n)]
        /\ dropped' = [s \in Sub |-> IF s \in to /\ full(s)
                                     THEN dropped[s] \cup {Head(queue[s])} ELSE dropped[s]]
        /\ done' = [s \in Sub |-> done[s] \/ \E w \in v : s \in Members(listeners[w])]

\* emit: evicts a run when r needs a buffer and there is no room, with clear.
Emit(r) ==
    LET n == Emitted(r)
        needs == r \notin runs
    IN  /\ n <= FinishAt[r] + LateEvents
        /\ globalEventSeq' = globalEventSeq + 1
        /\ ids' = [ids EXCEPT ![r] = Append(@, globalEventSeq + 1)]
        /\ \E v \in IF needs /\ Cardinality(runs) >= MaxRuns
                    THEN {{w} : w \in Evictable} ELSE {{}} :
              /\ runs' = (runs \ v) \cup {r}
              /\ evictedRuns' = (evictedRuns \cup v) \ (IF needs THEN {r} ELSE {})
              /\ lostRuns' = lostRuns \cup v
              /\ listeners' = [w \in Run |-> IF w \in v THEN 0 ELSE listeners[w]]
              /\ Deliver(r, n, v)
        /\ from' = [from EXCEPT ![r] = IF needs THEN n
                                       ELSE IF n + 1 - @ > MaxEventsPerRun THEN @ + 1 ELSE @]
        /\ terminal' = [terminal EXCEPT ![r] = (~needs /\ @) \/ n = FinishAt[r]]
        /\ UNCHANGED <<nextSet, run, phase, last, replay, setOf, subscriptions, received>>

\* Bound: the owner of the sink acts once, and before a run was evicted.
OwnerMayAct == lostRuns = {}

\* clear: the owner of the sink forgets a run.
Clear(r) ==
    /\ OwnerMayAct
    /\ runs' = runs \ {r}
    /\ evictedRuns' = evictedRuns \cup {r} /\ lostRuns' = lostRuns \cup {r}
    /\ listeners' = [listeners EXCEPT ![r] = 0]
    /\ done' = [s \in Sub |-> done[s] \/ s \in Members(listeners[r])]
    /\ UNCHANGED <<globalEventSeq, ids, from, terminal, nextSet, run, phase, last, replay,
                   queue, setOf, subscriptions, received, dropped>>

\* close: all subscribers are told that it is over; what the sink holds stays.
Close ==
    /\ OwnerMayAct
    /\ lostRuns' = Run
    /\ listeners' = [r \in Run |-> 0]
    /\ done' = [s \in Sub |-> done[s] \/ \E r \in Run : s \in Members(listeners[r])]
    /\ UNCHANGED <<globalEventSeq, ids, runs, from, terminal, evictedRuns, nextSet, run,
                   phase, last, replay, queue, setOf, subscriptions, received, dropped>>

-----------------------------------------------------------------------------
(* A subscription *)

\* Mutant: the snapshot is taken and the listener is not registered.
Unregistered(s, r) ==
    /\ setOf' = setOf
    /\ UNCHANGED <<listeners, nextSet>>

\* The listener joins the set of r, or a new one.
Registered(s, r) ==
    /\ setOf' = [setOf EXCEPT ![s] = IF listeners[r] # 0 THEN listeners[r] ELSE nextSet]
    /\ IF listeners[r] # 0 THEN UNCHANGED <<listeners, nextSet>>
       ELSE listeners' = [listeners EXCEPT ![r] = nextSet] /\ nextSet' = nextSet + 1

\* The generator runs to its snapshot: everything behind the sequence c.  A
\* run that was evicted has nothing to tell.
Subscribe(s, r, c) ==
    /\ subscriptions' = [subscriptions EXCEPT ![s] = @ + 1]
    /\ run' = [run EXCEPT ![s] = r]
    /\ last' = [last EXCEPT ![s] = c]
    /\ queue' = [queue EXCEPT ![s] = <<>>]
    /\ IF r \in evictedRuns
       THEN /\ phase' = [phase EXCEPT ![s] = "ended"]
            /\ done' = [done EXCEPT ![s] = TRUE]
            /\ UNCHANGED <<replay, setOf, listeners, nextSet, dropped>>
       ELSE /\ phase' = [phase EXCEPT ![s] = "replay"]
            /\ done' = [done EXCEPT ![s] = FALSE]
            /\ replay' = [replay EXCEPT ![s] = IF r \notin runs THEN <<>>
                             ELSE [i \in 1..(Emitted(r) - from[r]) |-> from[r] + i - 1]]
            /\ dropped' = [dropped EXCEPT ![s] = @ \cup
                             {n \in 0..(Emitted(r) - 1) : r \notin runs \/ n < from[r]}]
            /\ Registered(s, r)
    /\ UNCHANGED <<sinkVars, received>>

Connect(s, r) ==
    /\ phase[s] = "idle" /\ subscriptions[s] = 0
    /\ Subscribe(s, r, -1)

\* Mutant: a client resumes with an event id where a sequence is expected.
ResumeById(s) == ids[run[s]][Cardinality(received[s])]

\* The event that a client resumes behind is the last one it received.  The id
\* of the stream is the eventId, and a number is taken for a sequence.
\* Every id the sink gives is a number: a cursor that is none, behind which a
\* subscriber would hear nothing, is one that no client got from it.
ResumeCursor(s) ==
    LET newest == CHOOSE n \in received[s] : \A k \in received[s] : k <= n
    IN  IF ByEventId THEN ids[run[s]][newest + 1] ELSE newest

Reconnect(s) ==
    /\ phase[s] = "ended" /\ subscriptions[s] < MaxSubscriptions
    /\ received[s] # {} /\ FinishAt[run[s]] \notin received[s]
    /\ Subscribe(s, run[s], ResumeCursor(s))

\* Mutant: an event is yielded whatever was yielded before.
YieldAgain(s, n) ==
    /\ last' = [last EXCEPT ![s] = n]
    /\ received' = [received EXCEPT ![s] = @ \cup {n}]
    /\ phase' = [phase EXCEPT ![s] = IF n = FinishAt[run[s]] THEN "cleanup" ELSE @]

\* isDeliverable and yield; the subscription ends behind a finish.
Yield(s, n) ==
    IF n > last[s]
    THEN /\ last' = [last EXCEPT ![s] = n]
         /\ received' = [received EXCEPT ![s] = @ \cup {n}]
         /\ phase' = [phase EXCEPT ![s] = IF n = FinishAt[run[s]] THEN "cleanup" ELSE @]
    ELSE UNCHANGED <<last, received, phase>>

Replay(s) ==
    /\ phase[s] = "replay" /\ replay[s] # <<>>
    /\ replay' = [replay EXCEPT ![s] = Tail(@)]
    /\ Yield(s, Head(replay[s]))
    /\ UNCHANGED <<sinkVars, listeners, nextSet, run, queue, done, setOf, subscriptions, dropped>>

\* The snapshot is exhausted: a run that is over has only the queue left.
Replayed(s) ==
    /\ phase[s] = "replay" /\ replay[s] = <<>>
    /\ phase' = [phase EXCEPT ![s] = "live"]
    /\ done' = [done EXCEPT ![s] = @ \/ (run[s] \in runs /\ terminal[run[s]])]
    /\ UNCHANGED <<sinkVars, listeners, nextSet, run, last, replay, queue, setOf,
                   subscriptions, received, dropped>>

Follow(s) ==
    /\ phase[s] = "live" /\ queue[s] # <<>>
    /\ queue' = [queue EXCEPT ![s] = Tail(@)]
    /\ Yield(s, Head(queue[s]))
    /\ UNCHANGED <<sinkVars, listeners, nextSet, run, replay, done, setOf, subscriptions, dropped>>

\* Nothing is left and the channel is done.
FollowEnds(s) ==
    /\ phase[s] = "live" /\ queue[s] = <<>> /\ done[s]
    /\ phase' = [phase EXCEPT ![s] = "cleanup"]
    /\ UNCHANGED <<sinkVars, listeners, nextSet, run, last, replay, queue, done, setOf,
                   subscriptions, received, dropped>>

\* The connection breaks: the consumer returns the generator at its yield, or
\* the signal terminates the channel.
Disconnect(s) ==
    /\ phase[s] \in {"replay", "live"} /\ received[s] # {}
    /\ phase' = [phase EXCEPT ![s] = "cleanup"]
    /\ done' = [done EXCEPT ![s] = TRUE]
    /\ UNCHANGED <<sinkVars, listeners, nextSet, run, last, replay, queue, setOf,
                   subscriptions, received, dropped>>

\* cleanup: an empty set goes from the table, with whatever set is there now.
Cleanup(s) ==
    /\ phase[s] = "cleanup"
    /\ phase' = [phase EXCEPT ![s] = "ended"]
    /\ setOf' = [setOf EXCEPT ![s] = 0]
    /\ listeners' = IF Members(setOf[s]) = {s}
                    THEN [listeners EXCEPT ![run[s]] = 0] ELSE listeners
    /\ UNCHANGED <<sinkVars, nextSet, run, last, replay, queue, done, subscriptions,
                   received, dropped>>

-----------------------------------------------------------------------------
(* Specification *)

Init ==
    /\ globalEventSeq = 0 /\ ids = [r \in Run |-> <<>>]
    /\ runs = {} /\ evictedRuns = {} /\ lostRuns = {}
    /\ from = [r \in Run |-> 0]
    /\ terminal = [r \in Run |-> FALSE]
    /\ listeners = [r \in Run |-> 0] /\ nextSet = 1
    /\ setOf = [s \in Sub |-> 0]
    /\ run = [s \in Sub |-> CHOOSE r \in Run : TRUE]
    /\ phase = [s \in Sub |-> "idle"]
    /\ last = [s \in Sub |-> -1]
    /\ replay = [s \in Sub |-> <<>>] /\ queue = [s \in Sub |-> <<>>]
    /\ done = [s \in Sub |-> FALSE]
    /\ subscriptions = [s \in Sub |-> 0]
    /\ received = [s \in Sub |-> {}] /\ dropped = [s \in Sub |-> {}]

Next ==
    \/ \E r \in Run : Emit(r) \/ Clear(r)
    \/ Close
    \/ \E s \in Sub :
          \/ \E r \in Run : Connect(s, r)
          \/ Reconnect(s) \/ Replay(s) \/ Replayed(s) \/ Follow(s) \/ FollowEnds(s)
          \/ Disconnect(s) \/ Cleanup(s)

\* Clients read on, and a generator that returns cleans up.
Fairness ==
    \A s \in Sub : WF_vars(Replay(s) \/ Replayed(s) \/ Follow(s) \/ FollowEnds(s) \/ Cleanup(s))

Spec == Init /\ [][Next]_vars
FairSpec == Spec /\ Fairness

-----------------------------------------------------------------------------
(* Properties *)

\* Every variable has its type, and buffers and queues stay within their limits
\* whatever is emitted.
TypeOK ==
    /\ globalEventSeq \in Nat /\ ids \in [Run -> Seq(Nat)] /\ from \in [Run -> Nat]
    /\ runs \subseteq Run /\ evictedRuns \subseteq Run /\ lostRuns \subseteq Run
    /\ terminal \in [Run -> BOOLEAN] /\ done \in [Sub -> BOOLEAN]
    /\ run \in [Sub -> Run]
    /\ nextSet \in Nat \ {0}
    /\ listeners \in [Run -> 0..(nextSet - 1)] /\ setOf \in [Sub -> 0..(nextSet - 1)]
    /\ phase \in [Sub -> {"idle", "replay", "live", "cleanup", "ended"}]
    /\ Cardinality(runs) <= MaxRuns
    /\ \A r \in runs : Emitted(r) - from[r] \in 1..MaxEventsPerRun
    /\ \A s \in Sub : Len(queue[s]) <= QueueSize

\* Events come in order, and none comes twice, across the replay, the queue
\* that fills meanwhile, and reconnections.
InOrderOnce ==
    [][\A s \in Sub : \A n \in received'[s] \ received[s] :
          \A k \in received[s] : k < n]_vars

\* Nothing is skipped: an event before the last one a client received has been
\* received, or a full buffer, a full queue or an eviction dropped it; and
\* buffers and queues keep to their limits (events.ts:54-76, 118-132).
NothingSkipped ==
    /\ TypeOK
    /\ \A s \in Sub : \A n \in received[s] :
          \A k \in 0..n : k \in received[s] \cup dropped[s]

\* A client that subscribed comes to the end once the run has finished: the
\* finish is not missed between the snapshot and the registration, and a full
\* queue drops older events for it.  Excepted are runs that were evicted or
\* cleared, and a sink that was closed: the generators that end then take the new
\* set of a run out of the table (events.ts:207); and handlers that still log:
\* their events may push the finish out of a queue.
FollowedToTheEnd ==
    \A s \in Sub : (phase[s] \in {"replay", "live"} /\ Finished(run[s]))
                       ~> (\/ phase[s] = "ended"
                           \/ run[s] \in lostRuns
                           \/ Emitted(run[s]) > FinishAt[run[s]] + 1)

\* docs/reference/http-api.md:444-445: a client that reconnects with the id of
\* the last event it received gets what follows that event.
ResumesBehindCursor ==
    \A s \in Sub : subscriptions[s] > 1 /\ phase[s] = "replay" => last[s] \in received[s]
=============================================================================
