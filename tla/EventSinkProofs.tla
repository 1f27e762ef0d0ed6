---------------------------- MODULE EventSinkProofs ----------------------------
(***************************************************************************)
(* What EventSink promises a client, proved for any runs and subscribers,  *)
(* any limits of buffers and queues, and any number of reconnections.      *)
(***************************************************************************)
EXTENDS EventSink, FiniteSetTheorems, TLAPS

-----------------------------------------------------------------------------
(* The inductive invariant *)

\* The variables of the clients that TypeOK leaves to the invariant.
ClientTypes ==
  /\ last \in [Sub -> Int]
  /\ replay \in [Sub -> Seq(Nat)] /\ queue \in [Sub -> Seq(Nat)]
  /\ subscriptions \in [Sub -> Nat]
  /\ received \in [Sub -> SUBSET Nat] /\ dropped \in [Sub -> SUBSET Nat]

\* An event id is at least as large as the place of its event in the run.
StampInv ==
  \A r \in Run :
    /\ Emitted(r) <= globalEventSeq
    /\ \A k \in 1..Emitted(r) : ids[r][k] >= k

\* A set of listeners belongs to one run, and its members follow that run.
SetInv ==
  /\ \A r, w \in Run : listeners[r] # 0 /\ listeners[r] = listeners[w] => r = w
  /\ \A s \in Sub, r \in Run : setOf[s] # 0 /\ setOf[s] = listeners[r] => run[s] = r

PhaseInv ==
  \A s \in Sub :
    /\ phase[s] \in {"idle", "ended"} => setOf[s] = 0
    /\ phase[s] = "idle" => received[s] = {} /\ replay[s] = <<>> /\ queue[s] = <<>>
    /\ phase[s] = "live" => replay[s] = <<>>

\* The entries of a sequence of events.
Entries(q) == {q[i] : i \in 1..Len(q)}

\* What a subscriber has or is going to read was emitted by its run; what it has
\* is not behind its lastYieldedSequence.
EmittedInv ==
  \A s \in Sub :
    \A n \in received[s] \cup Entries(replay[s]) \cup Entries(queue[s]) : n < Emitted(run[s])

OrderInv ==
  \A s \in Sub :
    /\ \A n \in received[s] : n <= last[s]
    /\ received[s] # {} => \E n \in received[s] : \A k \in received[s] : k <= n

InOrderInv ==
  TypeOK /\ ClientTypes /\ StampInv /\ SetInv /\ PhaseInv /\ EmittedInv /\ OrderInv

\* Events that are accounted for: the client has them, or they were dropped.
Known(s) == received[s] \cup dropped[s]

\* Everything before an entry of q is in K or is an earlier entry.
Prior(q, K) ==
  \A i \in 1..Len(q) : \A k \in 0..(q[i] - 1) : k \in K \/ \E j \in 1..(i - 1) : q[j] = k

\* No gap before what a subscriber is going to read; nothing is missing as long
\* as it is a member of the listeners of its run; and its position is one of
\* an event it received.
GapInv ==
  \A s \in Sub :
    /\ Prior(replay[s], Known(s))
    /\ Prior(queue[s], Known(s) \cup Entries(replay[s]))
Listening(s) == setOf[s] # 0 /\ ~done[s] /\ setOf[s] = listeners[run[s]]
LiveInv ==
  \A s \in Sub :
    Listening(s) =>
      0..(Emitted(run[s]) - 1) \subseteq Known(s) \cup Entries(replay[s]) \cup Entries(queue[s])
CursorInv ==
  \A s \in Sub :
    /\ last[s] = -1 \/ last[s] \in received[s]
    /\ \A n \in received[s] : 0..n \subseteq Known(s)

NoGapInv == GapInv /\ LiveInv /\ CursorInv

-----------------------------------------------------------------------------
(* Sequences of events *)

\* An event goes to the end of a queue.
LEMMA AppendEntries ==
  ASSUME NEW q \in Seq(Nat), NEW n \in Nat
  PROVE  /\ Append(q, n) \in Seq(Nat) /\ Len(Append(q, n)) = Len(q) + 1
         /\ Entries(Append(q, n)) = Entries(q) \cup {n}
<1>1. Append(q, n) \in Seq(Nat) /\ Len(Append(q, n)) = Len(q) + 1
  OBVIOUS
<1>2. \A i \in 1..Len(q) : Append(q, n)[i] = q[i]
  OBVIOUS
<1>3. Append(q, n)[Len(q) + 1] = n
  OBVIOUS
<1>4. 1..(Len(q) + 1) = 1..Len(q) \cup {Len(q) + 1}
  OBVIOUS
<1> QED BY <1>1, <1>2, <1>3, <1>4 DEF Entries

\* The first event of a queue is taken.
LEMMA TailEntries ==
  ASSUME NEW q \in Seq(Nat), q # <<>>
  PROVE  /\ Head(q) \in Nat /\ Tail(q) \in Seq(Nat)
         /\ Len(q) >= 1 /\ Len(Tail(q)) = Len(q) - 1
         /\ \A i \in 1..Len(Tail(q)) : Tail(q)[i] = q[i + 1]
         /\ Entries(q) = {Head(q)} \cup Entries(Tail(q))
<1>1. Head(q) \in Nat /\ Tail(q) \in Seq(Nat) /\ Len(q) \in Nat /\ Len(q) >= 1
  OBVIOUS
<1>2. Len(Tail(q)) = Len(q) - 1 /\ Head(q) = q[1]
  OBVIOUS
<1>3. \A i \in 1..Len(Tail(q)) : Tail(q)[i] = q[i + 1]
  OBVIOUS
<1>4. \A i \in 1..Len(q) : i = 1 \/ (i - 1 \in 1..Len(Tail(q)) /\ (i - 1) + 1 = i)
  BY <1>1, <1>2
<1>5. \A i \in 1..Len(Tail(q)) : i + 1 \in 1..Len(q)
  BY <1>1, <1>2
<1>6. Entries(q) \subseteq {Head(q)} \cup Entries(Tail(q))
  <2> SUFFICES ASSUME NEW i \in 1..Len(q)
               PROVE  q[i] \in {Head(q)} \cup Entries(Tail(q))
    BY DEF Entries
  <2>1. CASE i = 1
    BY <2>1, <1>2
  <2>2. CASE i # 1
    <3>1. i - 1 \in 1..Len(Tail(q)) /\ Tail(q)[i - 1] = q[i]
      BY <2>2, <1>3, <1>4
    <3> QED BY <3>1 DEF Entries
  <2> QED BY <2>1, <2>2
<1>7. Head(q) \in Entries(q)
  BY <1>1, <1>2 DEF Entries
<1>8. Entries(Tail(q)) \subseteq Entries(q)
  BY <1>3, <1>5 DEF Entries
<1> QED BY <1>1, <1>2, <1>3, <1>6, <1>7, <1>8

\* What is accounted for stays so.
LEMMA PriorMore ==
  ASSUME NEW q, NEW K, NEW L, K \subseteq L, Prior(q, K)
  PROVE  Prior(q, L)
BY DEF Prior

\* The first entry leaves nothing behind, and the rest waits for it.
LEMMA PriorTail ==
  ASSUME NEW q \in Seq(Nat), q # <<>>, NEW K, Prior(q, K)
  PROVE  /\ 0..(Head(q) - 1) \subseteq K
         /\ Prior(Tail(q), K \cup {Head(q)})
<1>1. Len(q) \in Nat /\ Len(q) >= 1 /\ Head(q) = q[1] /\ Len(Tail(q)) = Len(q) - 1
  OBVIOUS
<1>2. 0..(Head(q) - 1) \subseteq K
  <2>1. 1 \in 1..Len(q) /\ ~ \E j \in 1..(1 - 1) : TRUE
    BY <1>1
  <2> QED BY <2>1, <1>1 DEF Prior
<1>3. ASSUME NEW i \in 1..Len(Tail(q)), NEW k \in 0..(Tail(q)[i] - 1)
      PROVE  k \in K \cup {Head(q)} \/ \E j \in 1..(i - 1) : Tail(q)[j] = k
  <2>1. i + 1 \in 1..Len(q) /\ Tail(q)[i] = q[i + 1]
    BY <1>1, TailEntries
  <2>2. k \in K \/ \E j \in 1..((i + 1) - 1) : q[j] = k
    BY <2>1 DEF Prior
  <2>3. ASSUME NEW j \in 1..((i + 1) - 1), q[j] = k, j # 1
        PROVE  \E h \in 1..(i - 1) : Tail(q)[h] = k
    <3>1. j - 1 \in 1..(i - 1) /\ j - 1 \in 1..Len(Tail(q)) /\ (j - 1) + 1 = j
      BY <2>3, <1>1
    <3>2. Tail(q)[j - 1] = q[j]
      BY <3>1, TailEntries
    <3> QED BY <3>1, <3>2, <2>3
  <2> QED BY <2>2, <2>3, <1>1
<1> QED BY <1>2, <1>3 DEF Prior

\* An event joins a queue when everything before it is accounted for.
LEMMA PriorAppend ==
  ASSUME NEW q \in Seq(Nat), NEW n \in Nat, NEW K, Prior(q, K),
         0..(n - 1) \subseteq K \cup Entries(q)
  PROVE  Prior(Append(q, n), K)
<1> SUFFICES ASSUME NEW i \in 1..Len(Append(q, n)), NEW k \in 0..(Append(q, n)[i] - 1)
             PROVE  k \in K \/ \E j \in 1..(i - 1) : Append(q, n)[j] = k
  BY DEF Prior
<1>1. Len(q) \in Nat /\ Len(Append(q, n)) = Len(q) + 1 /\ Append(q, n)[Len(q) + 1] = n
  OBVIOUS
<1>2. \A j \in 1..Len(q) : Append(q, n)[j] = q[j]
  OBVIOUS
<1>3. CASE i \in 1..Len(q)
  <2>1. k \in K \/ \E j \in 1..(i - 1) : q[j] = k
    BY <1>2, <1>3 DEF Prior
  <2>2. \A j \in 1..(i - 1) : j \in 1..Len(q)
    BY <1>1, <1>3
  <2> QED BY <2>1, <2>2, <1>2
<1>4. CASE i = Len(q) + 1
  <2>1. k \in K \cup Entries(q) /\ i - 1 = Len(q)
    BY <1>1, <1>4
  <2> QED BY <2>1, <1>2 DEF Entries
<1> QED BY <1>1, <1>3, <1>4

-----------------------------------------------------------------------------
(* The steps, as one subscriber sees them *)

\* An event n of its run reaches s, which may lose the oldest one in its queue.
Takes(s, r, n) ==
  /\ s \in Members(listeners[r]) /\ ~done[s]
  /\ \/ /\ Len(queue[s]) < QueueSize
        /\ queue'[s] = Append(queue[s], n) /\ dropped'[s] = dropped[s]
     \/ /\ Len(queue[s]) >= QueueSize
        /\ queue'[s] = Append(Tail(queue[s]), n)
        /\ dropped'[s] = dropped[s] \cup {Head(queue[s])}

\* An event passes s by: it is no listener, or its channel is done.
Misses(s, r) ==
  /\ queue'[s] = queue[s] /\ dropped'[s] = dropped[s]
  /\ s \in Members(listeners[r]) => done'[s]

\* Sets of listeners only ever leave the table.
ListenersLeave == listeners' \in [Run -> Nat] /\ \A w \in Run : listeners'[w] \in {0, listeners[w]}

\* What emit does to the buffers, the listeners and the subscribers.
LEMMA EmitStep ==
  ASSUME TypeOK, ClientTypes, NEW r \in Run, Emit(r)
  PROVE  /\ globalEventSeq' = globalEventSeq + 1
         /\ ids' = [ids EXCEPT ![r] = Append(@, globalEventSeq + 1)]
         /\ runs' \subseteq Run /\ evictedRuns' \subseteq Run /\ lostRuns' \subseteq Run
         /\ Cardinality(runs') <= MaxRuns
         /\ runs' \subseteq runs \cup {r}
         /\ listeners' \in [Run -> 0..(nextSet - 1)] /\ ListenersLeave
         /\ DOMAIN queue' = Sub /\ DOMAIN dropped' = Sub
         /\ queue' = [s \in Sub |-> queue'[s]] /\ dropped' = [s \in Sub |-> dropped'[s]]
         /\ done' \in [Sub -> BOOLEAN]
         /\ \A s \in Sub : Takes(s, r, Emitted(r)) \/ Misses(s, r)
         /\ \A s \in Sub : done[s] => done'[s]
<1> DEFINE needs == r \notin runs
<1>1. PICK v \in IF needs /\ Cardinality(runs) >= MaxRuns
                 THEN {{w} : w \in Evictable} ELSE {{}} :
              /\ runs' = (runs \ v) \cup {r}
              /\ evictedRuns' = (evictedRuns \cup v) \ (IF needs THEN {r} ELSE {})
              /\ lostRuns' = lostRuns \cup v
              /\ listeners' = [w \in Run |-> IF w \in v THEN 0 ELSE listeners[w]]
              /\ Deliver(r, Emitted(r), v)
  BY DEF Emit
<1>2. IsFiniteSet(runs) /\ Cardinality(runs) \in Nat /\ Cardinality(runs) <= MaxRuns
      /\ runs \subseteq Run /\ MaxRuns \in Nat
  BY EventSinkAssumption, FS_Subset, FS_CardinalityType DEF TypeOK
<1>3. v \subseteq runs /\ IsFiniteSet(runs \ v)
  BY <1>2, FS_Subset DEF Evictable
<1>4. Cardinality(runs') <= MaxRuns
  <2>1. CASE ~needs
    <3>1. v = {} /\ runs' = runs
      BY <2>1, <1>1
    <3> QED BY <3>1, <1>2
  <2>2. CASE needs /\ ~(Cardinality(runs) >= MaxRuns)
    <3>1. v = {} /\ runs' = runs \cup {r}
      BY <2>2, <1>1
    <3>2. Cardinality(runs') = Cardinality(runs) + 1
      BY <3>1, <2>2, <1>2, FS_AddElement
    <3> QED BY <3>2, <2>2, <1>2
  <2>3. CASE needs /\ Cardinality(runs) >= MaxRuns
    <3>1. PICK w \in Evictable : v = {w}
      BY <2>3
    <3>2. w \in runs /\ runs' = (runs \ {w}) \cup {r} /\ r \notin runs \ {w}
      BY <3>1, <1>1, <2>3 DEF Evictable
    <3>3. IsFiniteSet(runs \ {w}) /\ Cardinality(runs \ {w}) = Cardinality(runs) - 1
      BY <3>2, <1>2, FS_RemoveElement
    <3>4. Cardinality(runs') = Cardinality(runs \ {w}) + 1
      BY <3>2, <3>3, FS_AddElement
    <3> QED BY <3>3, <3>4, <1>2
  <2> QED BY <2>1, <2>2, <2>3
<1>5. listeners' \in [Run -> 0..(nextSet - 1)] /\ ListenersLeave
  BY <1>1 DEF TypeOK, ListenersLeave
<1> DEFINE gone == {s \in Members(listeners[r]) : done[s]} \cup UNION {Members(listeners[w]) : w \in v}
           to == Members(listeners[r]) \ gone
           full(s) == Len(queue[s]) >= QueueSize
<1>6. /\ queue' = [s \in Sub |-> IF s \notin to THEN queue[s]
                       ELSE Append(IF full(s) THEN Tail(queue[s]) ELSE queue[s], Emitted(r))]
      /\ dropped' = [s \in Sub |-> IF s \in to /\ full(s)
                                     THEN dropped[s] \cup {Head(queue[s])} ELSE dropped[s]]
      /\ done' = [s \in Sub |-> done[s] \/ \E w \in v : s \in Members(listeners[w])]
  BY <1>1 DEF Deliver
<1>7. ASSUME NEW s \in Sub
      PROVE  Takes(s, r, Emitted(r)) \/ Misses(s, r)
  <2>0. Len(queue[s]) \in Nat /\ QueueSize \in Nat
    BY EventSinkAssumption DEF ClientTypes
  <2>1. CASE s \in to /\ full(s)
    <3>1. queue'[s] = Append(Tail(queue[s]), Emitted(r)) /\ dropped'[s] = dropped[s] \cup {Head(queue[s])}
      BY <2>1, <1>6
    <3>2. s \in Members(listeners[r]) /\ ~done[s] /\ Len(queue[s]) >= QueueSize
      BY <2>1
    <3> QED BY <3>1, <3>2 DEF Takes
  <2>2. CASE s \in to /\ ~full(s)
    <3>1. queue'[s] = Append(queue[s], Emitted(r)) /\ dropped'[s] = dropped[s]
      BY <2>2, <1>6
    <3>2. s \in Members(listeners[r]) /\ ~done[s] /\ Len(queue[s]) < QueueSize
      BY <2>2, <2>0
    <3> QED BY <3>1, <3>2 DEF Takes
  <2>3. CASE s \notin to
    <3>1. queue'[s] = queue[s] /\ dropped'[s] = dropped[s]
      BY <2>3, <1>6
    <3>2. s \in Members(listeners[r]) => done'[s]
      BY <2>3, <1>6
    <3> QED BY <3>1, <3>2 DEF Misses
  <2> QED BY <2>1, <2>2, <2>3
<1>8. done' \in [Sub -> BOOLEAN] /\ \A s \in Sub : done[s] => done'[s]
  BY <1>6 DEF TypeOK
<1>9. /\ DOMAIN queue' = Sub /\ DOMAIN dropped' = Sub
      /\ queue' = [s \in Sub |-> queue'[s]] /\ dropped' = [s \in Sub |-> dropped'[s]]
  BY <1>6
<1>10. /\ runs' \subseteq Run /\ evictedRuns' \subseteq Run /\ lostRuns' \subseteq Run
       /\ runs' \subseteq runs \cup {r}
  BY <1>1, <1>2, <1>3 DEF TypeOK
<1>11. globalEventSeq' = globalEventSeq + 1 /\ ids' = [ids EXCEPT ![r] = Append(@, globalEventSeq + 1)]
  BY DEF Emit
<1> QED BY <1>4, <1>5, <1>7, <1>8, <1>9, <1>10, <1>11

\* s reads nothing, and no event reaches it.
Quiet(s) ==
  /\ ids' = ids /\ run'[s] = run[s] /\ last'[s] = last[s]
  /\ replay'[s] = replay[s] /\ queue'[s] = queue[s]
  /\ received'[s] = received[s] /\ dropped'[s] = dropped[s]
  /\ Listening(s)' => Listening(s)

LEMMA ClientSteps ==
  ASSUME TypeOK, ClientTypes, Next, NEW s \in Sub
  PROVE  \/ Quiet(s)
         \/ \E r \in Run : Emit(r) \/ Connect(s, r)
         \/ Reconnect(s) \/ Replay(s) \/ Follow(s)
<1>1. ASSUME NEW r \in Run, Clear(r)
      PROVE  Quiet(s)
  BY <1>1 DEF Clear, Quiet, Listening, TypeOK
<1>2. CASE Close
  BY <1>2 DEF Close, Quiet, Listening, TypeOK
<1>3. ASSUME NEW u \in Sub, NEW r \in Run, NEW c, Subscribe(u, r, c), u # s
      PROVE  Quiet(s)
  <2>1. /\ ids' = ids /\ run'[s] = run[s] /\ last'[s] = last[s]
        /\ replay'[s] = replay[s] /\ queue'[s] = queue[s]
        /\ received'[s] = received[s]
    BY <1>3 DEF Subscribe, sinkVars, TypeOK, ClientTypes
  <2>4. dropped'[s] = dropped[s] /\ done'[s] = done[s]
    <3>1. CASE r \in evictedRuns
      BY <1>3, <3>1 DEF Subscribe, TypeOK
    <3>2. CASE r \notin evictedRuns
      <4>1. /\ done' = [done EXCEPT ![u] = FALSE]
            /\ dropped' = [dropped EXCEPT ![u] = @ \cup
                             {n \in 0..(Emitted(r) - 1) : r \notin runs \/ n < from[r]}]
        BY <1>3, <3>2 DEF Subscribe
      <4> QED BY <4>1, <1>3 DEF TypeOK, ClientTypes
    <3> QED BY <3>1, <3>2
  <2>2. setOf'[s] = setOf[s] /\ (listeners'[run[s]] = listeners[run[s]] \/ listeners'[run[s]] = nextSet)
    BY <1>3 DEF Subscribe, Registered, TypeOK
  <2>3. setOf[s] # nextSet
    BY DEF TypeOK
  <2> QED BY <2>1, <2>2, <2>3, <2>4 DEF Quiet, Listening
<1>4. ASSUME NEW u \in Sub, u # s,
             (\E r \in Run : Connect(u, r)) \/ Reconnect(u) \/ Replay(u) \/ Follow(u)
      PROVE  Quiet(s)
  <2>1. ASSUME NEW r \in Run, Connect(u, r) PROVE Quiet(s)
    BY <1>3, <1>4, <2>1 DEF Connect
  <2>2. CASE Reconnect(u)
    <3>1. run[u] \in Run
      BY DEF TypeOK
    <3> QED BY <1>3, <1>4, <2>2, <3>1 DEF Reconnect
  <2>3. CASE Replay(u)
    BY <2>3, <1>4 DEF Replay, Yield, Quiet, Listening, sinkVars, TypeOK, ClientTypes
  <2>4. CASE Follow(u)
    BY <2>4, <1>4 DEF Follow, Yield, Quiet, Listening, sinkVars, TypeOK, ClientTypes
  <2> QED BY <1>4, <2>1, <2>2, <2>3, <2>4
<1>5. ASSUME NEW u \in Sub, Replayed(u) \/ FollowEnds(u) \/ Disconnect(u) \/ Cleanup(u)
      PROVE  Quiet(s)
  <2>1. CASE Replayed(u)
    BY <2>1 DEF Replayed, Quiet, Listening, sinkVars, TypeOK
  <2>2. CASE FollowEnds(u)
    BY <2>2 DEF FollowEnds, Quiet, Listening, sinkVars
  <2>3. CASE Disconnect(u)
    BY <2>3 DEF Disconnect, Quiet, Listening, sinkVars, TypeOK
  <2>4. CASE Cleanup(u)
    <3>1. setOf'[s] \in {0, setOf[s]} /\ listeners'[run[s]] \in {0, listeners[run[s]]}
      BY <2>4 DEF Cleanup, TypeOK
    <3> QED BY <3>1, <2>4 DEF Cleanup, Quiet, Listening, sinkVars
  <2> QED BY <1>5, <2>1, <2>2, <2>3, <2>4
<1> QED BY <1>1, <1>2, <1>4, <1>5 DEF Next

-----------------------------------------------------------------------------
(* Types and limits *)

LEMMA EmitTypes ==
  ASSUME TypeOK, ClientTypes, NEW r \in Run, Emit(r)
  PROVE  TypeOK' /\ ClientTypes'
<1>1. /\ globalEventSeq' = globalEventSeq + 1
      /\ ids' = [ids EXCEPT ![r] = Append(@, globalEventSeq + 1)]
      /\ runs' \subseteq Run /\ evictedRuns' \subseteq Run /\ lostRuns' \subseteq Run
      /\ Cardinality(runs') <= MaxRuns
      /\ runs' \subseteq runs \cup {r}
      /\ listeners' \in [Run -> 0..(nextSet - 1)]
      /\ queue' = [s \in Sub |-> queue'[s]] /\ dropped' = [s \in Sub |-> dropped'[s]]
      /\ done' \in [Sub -> BOOLEAN]
      /\ \A s \in Sub : Takes(s, r, Emitted(r)) \/ Misses(s, r)
  BY EmitStep
<1>2. /\ from' = [from EXCEPT ![r] = IF r \notin runs THEN Emitted(r)
                       ELSE IF Emitted(r) + 1 - @ > MaxEventsPerRun THEN @ + 1 ELSE @]
      /\ terminal' = [terminal EXCEPT ![r] = (r \in runs /\ @) \/ Emitted(r) = FinishAt[r]]
      /\ UNCHANGED <<nextSet, run, phase, last, replay, setOf, subscriptions, received>>
  BY DEF Emit
<1>3. ids[r] \in Seq(Nat) /\ globalEventSeq \in Nat /\ Emitted(r) \in Nat /\ from[r] \in Nat
      /\ MaxEventsPerRun \in Nat \ {0} /\ QueueSize \in Nat \ {0}
  BY EventSinkAssumption DEF TypeOK, Emitted
<1>4. /\ ids' \in [Run -> Seq(Nat)] /\ Len(ids'[r]) = Emitted(r) + 1
      /\ \A w \in Run \ {r} : ids'[w] = ids[w]
  <2>1. Append(ids[r], globalEventSeq + 1) \in Seq(Nat)
        /\ Len(Append(ids[r], globalEventSeq + 1)) = Emitted(r) + 1
    BY <1>3, AppendEntries DEF Emitted
  <2> QED BY <2>1, <1>1 DEF TypeOK
<1>5. from' \in [Run -> Nat]
  BY <1>2, <1>3 DEF TypeOK
<1>6. ASSUME NEW w \in runs'
      PROVE  Emitted(w)' - from'[w] \in 1..MaxEventsPerRun
  <2>1. w \in Run
    BY <1>1, <1>6
  <2>2. CASE w # r
    <3>1. w \in runs /\ from'[w] = from[w] /\ Emitted(w)' = Emitted(w)
      BY <2>1, <2>2, <1>1, <1>2, <1>4 DEF Emitted, TypeOK
    <3> QED BY <3>1 DEF TypeOK
  <2>3. CASE w = r /\ r \notin runs
    <3>1. from'[r] = Emitted(r) /\ Emitted(r)' = Emitted(r) + 1
      BY <2>3, <1>2, <1>4 DEF Emitted, TypeOK
    <3> QED BY <3>1, <2>3, <1>3
  <2>4. CASE w = r /\ r \in runs
    <3>1. from'[r] = IF Emitted(r) + 1 - from[r] > MaxEventsPerRun THEN from[r] + 1 ELSE from[r]
      BY <2>4, <1>2 DEF TypeOK
    <3>2. Emitted(r)' = Emitted(r) + 1
      BY <1>4 DEF Emitted
    <3>3. Emitted(r) - from[r] \in 1..MaxEventsPerRun
      BY <2>4 DEF TypeOK
    <3>4. CASE Emitted(r) + 1 - from[r] > MaxEventsPerRun
      <4>1. from'[r] = from[r] + 1
        BY <3>1, <3>4
      <4>2. Emitted(r)' - from'[r] = Emitted(r) - from[r]
        BY <4>1, <3>2, <1>3
      <4> QED BY <4>2, <3>3, <2>4
    <3>5. CASE ~(Emitted(r) + 1 - from[r] > MaxEventsPerRun)
      <4>1. from'[r] = from[r]
        BY <3>1, <3>5
      <4> QED BY <4>1, <3>2, <3>3, <3>5, <2>4, <1>3
    <3> QED BY <3>4, <3>5
  <2> QED BY <2>2, <2>3, <2>4
<1>7. ASSUME NEW s \in Sub
      PROVE  queue'[s] \in Seq(Nat) /\ Len(queue'[s]) <= QueueSize /\ dropped'[s] \in SUBSET Nat
  <2>1. queue[s] \in Seq(Nat) /\ Len(queue[s]) <= QueueSize /\ dropped[s] \in SUBSET Nat
    BY DEF TypeOK, ClientTypes
  <2>2. CASE Misses(s, r)
    BY <2>1, <2>2 DEF Misses
  <2>3. CASE Takes(s, r, Emitted(r)) /\ Len(queue[s]) < QueueSize
    <3>1. queue'[s] = Append(queue[s], Emitted(r)) /\ dropped'[s] = dropped[s]
      BY <2>3, <2>1, <1>3 DEF Takes
    <3>2. queue'[s] \in Seq(Nat) /\ Len(queue'[s]) = Len(queue[s]) + 1
      BY <3>1, <2>1, <1>3, AppendEntries
    <3>3. Len(queue[s]) \in Nat
      BY <2>1
    <3> QED BY <3>1, <3>2, <3>3, <2>1, <2>3, <1>3
  <2>4. CASE Takes(s, r, Emitted(r)) /\ ~(Len(queue[s]) < QueueSize)
    <3>1. queue[s] # <<>>
      BY <2>1, <2>4, <1>3
    <3>2. Head(queue[s]) \in Nat /\ Tail(queue[s]) \in Seq(Nat) /\ Len(Tail(queue[s])) = Len(queue[s]) - 1
      BY <3>1, <2>1, TailEntries
    <3>3. queue'[s] = Append(Tail(queue[s]), Emitted(r)) /\ dropped'[s] = dropped[s] \cup {Head(queue[s])}
      BY <2>4 DEF Takes
    <3>4. queue'[s] \in Seq(Nat) /\ Len(queue'[s]) = Len(queue[s])
      BY <3>2, <3>3, <1>3, <2>1, AppendEntries
    <3> QED BY <3>2, <3>3, <3>4, <2>1
  <2> QED BY <1>1, <2>2, <2>3, <2>4
<1>8. queue' \in [Sub -> Seq(Nat)] /\ dropped' \in [Sub -> SUBSET Nat]
  BY <1>1, <1>7
<1>9. globalEventSeq' \in Nat /\ terminal' \in [Run -> BOOLEAN]
  <2>1. globalEventSeq' \in Nat
    BY <1>1, <1>3
  <2>2. ((r \in runs /\ terminal[r]) \/ Emitted(r) = FinishAt[r]) \in BOOLEAN
    OBVIOUS
  <2> QED BY <2>1, <2>2, <1>2 DEF TypeOK
<1>10. TypeOK'
  BY <1>1, <1>2, <1>4, <1>5, <1>6, <1>7, <1>9 DEF TypeOK
<1> QED BY <1>2, <1>8, <1>10 DEF ClientTypes

LEMMA SubscribeTypes ==
  ASSUME TypeOK, ClientTypes, NEW s \in Sub, NEW r \in Run, NEW c \in Int, Subscribe(s, r, c)
  PROVE  TypeOK' /\ ClientTypes'
<1>1. QueueSize \in Nat /\ Emitted(r) \in Nat /\ from[r] \in Nat
  BY EventSinkAssumption DEF TypeOK, Emitted
<1>2. nextSet' \in Nat \ {0} /\ listeners' \in [Run -> 0..(nextSet' - 1)]
      /\ setOf' \in [Sub -> 0..(nextSet' - 1)]
  <2>1. CASE r \in evictedRuns
    BY <2>1 DEF Subscribe, TypeOK
  <2>2. CASE r \notin evictedRuns /\ listeners[r] # 0
    <3>1. nextSet' = nextSet /\ listeners' = listeners
          /\ setOf' = [setOf EXCEPT ![s] = listeners[r]]
      BY <2>2 DEF Subscribe, Registered
    <3> QED BY <3>1 DEF TypeOK
  <2>3. CASE r \notin evictedRuns /\ listeners[r] = 0
    <3>1. nextSet' = nextSet + 1 /\ listeners' = [listeners EXCEPT ![r] = nextSet]
          /\ setOf' = [setOf EXCEPT ![s] = nextSet]
      BY <2>3 DEF Subscribe, Registered
    <3>2. nextSet \in 0..(nextSet' - 1) /\ nextSet' \in Nat \ {0}
          /\ 0..(nextSet - 1) \subseteq 0..(nextSet' - 1)
      BY <3>1 DEF TypeOK
    <3> QED BY <3>1, <3>2 DEF TypeOK
  <2> QED BY <2>1, <2>2, <2>3
<1>3. done' \in [Sub -> BOOLEAN]
      /\ phase' \in [Sub -> {"idle", "replay", "live", "cleanup", "ended"}]
  BY DEF Subscribe, TypeOK
<1>4. UNCHANGED <<sinkVars, received>> /\ run' = [run EXCEPT ![s] = r]
      /\ subscriptions' = [subscriptions EXCEPT ![s] = @ + 1]
      /\ last' = [last EXCEPT ![s] = c] /\ queue' = [queue EXCEPT ![s] = <<>>]
  BY DEF Subscribe
<1>5. queue' \in [Sub -> Seq(Nat)] /\ \A u \in Sub : Len(queue'[u]) <= QueueSize
  BY <1>1, <1>4 DEF TypeOK, ClientTypes
<1>6. replay' \in [Sub -> Seq(Nat)]
  <2>1. CASE r \in evictedRuns
    BY <2>1 DEF Subscribe, ClientTypes
  <2>2. CASE r \notin evictedRuns
    <3> DEFINE snapshot == IF r \notin runs THEN <<>>
                           ELSE [i \in 1..(Emitted(r) - from[r]) |-> from[r] + i - 1]
    <3>1. replay' = [replay EXCEPT ![s] = snapshot]
      BY <2>2 DEF Subscribe
    <3>2. CASE r \notin runs
      BY <3>1, <3>2 DEF ClientTypes
    <3>3. CASE r \in runs
      <4>1. Emitted(r) - from[r] \in Nat
        BY <3>3, <1>1, EventSinkAssumption DEF TypeOK
      <4>2. snapshot \in Seq(Nat)
        BY <4>1, <3>3, <1>1
      <4> HIDE DEF snapshot
      <4> QED BY <4>2, <3>1 DEF ClientTypes
    <3> QED BY <3>2, <3>3
  <2> QED BY <2>1, <2>2
<1>7. dropped' \in [Sub -> SUBSET Nat]
  <2>1. CASE r \in evictedRuns
    BY <2>1 DEF Subscribe, ClientTypes
  <2>2. CASE r \notin evictedRuns
    <3> DEFINE missed == {n \in 0..(Emitted(r) - 1) : r \notin runs \/ n < from[r]}
    <3>1. dropped' = [dropped EXCEPT ![s] = @ \cup missed]
      BY <2>2 DEF Subscribe
    <3>2. missed \in SUBSET Nat
      BY <1>1
    <3> HIDE DEF missed
    <3> QED BY <3>1, <3>2 DEF ClientTypes
  <2> QED BY <2>1, <2>2
<1>8. TypeOK'
  BY <1>2, <1>3, <1>4, <1>5 DEF TypeOK, sinkVars, Emitted
<1> QED BY <1>4, <1>5, <1>6, <1>7, <1>8 DEF ClientTypes

\* The cursor of a client is a sequence number or an event id, and is not before
\* anything it received.
LEMMA CursorIsBehind ==
  ASSUME InOrderInv, NEW s \in Sub, Reconnect(s)
  PROVE  /\ ResumeCursor(s) \in Int
         /\ \A k \in received[s] : k <= ResumeCursor(s)
         /\ ~ByEventId => ResumeCursor(s) \in received[s]
<1> DEFINE newest == CHOOSE n \in received[s] : \A k \in received[s] : k <= n
<1>1. received[s] # {} /\ received[s] \subseteq Nat /\ run[s] \in Run
  BY DEF Reconnect, InOrderInv, TypeOK, ClientTypes
<1>2. \E n \in received[s] : \A k \in received[s] : k <= n
  BY <1>1 DEF InOrderInv, OrderInv
<1>3. newest \in received[s] /\ \A k \in received[s] : k <= newest
  BY <1>2
<1>4. ResumeCursor(s) = IF ByEventId THEN ids[run[s]][newest + 1] ELSE newest
  BY DEF ResumeCursor
<1> HIDE DEF newest
<1>5. newest \in Nat /\ newest < Emitted(run[s])
  BY <1>1, <1>3 DEF InOrderInv, EmittedInv
<1>6. ids[run[s]] \in Seq(Nat) /\ Emitted(run[s]) \in Nat
  BY <1>1 DEF InOrderInv, TypeOK, Emitted
<1>7. newest + 1 \in 1..Emitted(run[s])
  BY <1>5, <1>6
<1>8. ids[run[s]][newest + 1] \in Nat /\ ids[run[s]][newest + 1] >= newest + 1
  BY <1>1, <1>6, <1>7 DEF InOrderInv, StampInv, Emitted
<1>9. CASE ByEventId
  BY <1>1, <1>3, <1>4, <1>5, <1>8, <1>9
<1>10. CASE ~ByEventId
  BY <1>3, <1>4, <1>5, <1>10
<1> QED BY <1>9, <1>10

LEMMA YieldTypes ==
  ASSUME TypeOK, ClientTypes, NEW s \in Sub, NEW n \in Nat, Yield(s, n)
  PROVE  /\ last' \in [Sub -> Int] /\ received' \in [Sub -> SUBSET Nat]
         /\ phase' \in [Sub -> {"idle", "replay", "live", "cleanup", "ended"}]
<1>1. CASE n > last[s]
  <2>1. /\ last' = [last EXCEPT ![s] = n] /\ received' = [received EXCEPT ![s] = @ \cup {n}]
        /\ phase' = [phase EXCEPT ![s] = IF n = FinishAt[run[s]] THEN "cleanup" ELSE @]
    BY <1>1 DEF Yield
  <2>2. n \in Int
    OBVIOUS
  <2>3. last' \in [Sub -> Int]
    BY <2>1, <2>2 DEF ClientTypes
  <2>4. received' \in [Sub -> SUBSET Nat]
    BY <2>1 DEF ClientTypes
  <2>5. phase' \in [Sub -> {"idle", "replay", "live", "cleanup", "ended"}]
    BY <2>1 DEF TypeOK
  <2> QED BY <2>3, <2>4, <2>5
<1>2. CASE ~(n > last[s])
  BY <1>2 DEF Yield, TypeOK, ClientTypes
<1> QED BY <1>1, <1>2

LEMMA TypeStep ==
  ASSUME InOrderInv, Next
  PROVE  TypeOK' /\ ClientTypes'
<1>0. TypeOK /\ ClientTypes /\ QueueSize \in Nat
  BY EventSinkAssumption DEF InOrderInv
<1>1. ASSUME NEW r \in Run, Emit(r) PROVE TypeOK' /\ ClientTypes'
  BY <1>0, <1>1, EmitTypes
<1>2. ASSUME NEW r \in Run, Clear(r) PROVE TypeOK' /\ ClientTypes'
  <2>1. runs' \subseteq runs /\ IsFiniteSet(runs)
    BY <1>0, <1>2, EventSinkAssumption, FS_Subset DEF Clear, TypeOK
  <2>2. Cardinality(runs') <= Cardinality(runs) /\ Cardinality(runs) \in Nat
        /\ Cardinality(runs') \in Nat
    BY <2>1, FS_Subset, FS_CardinalityType
  <2>3. Cardinality(runs') <= MaxRuns /\ \A w \in runs' : w \in runs
    BY <2>1, <2>2, <1>0, EventSinkAssumption DEF TypeOK
  <2>4. done' \in [Sub -> BOOLEAN] /\ listeners' \in [Run -> 0..(nextSet - 1)]
    BY <1>0, <1>2 DEF Clear, TypeOK
  <2> QED BY <1>0, <1>2, <2>3, <2>4 DEF Clear, TypeOK, ClientTypes, Emitted
<1>3. CASE Close
  <2>1. done' \in [Sub -> BOOLEAN] /\ listeners' \in [Run -> 0..(nextSet - 1)]
    BY <1>0, <1>3 DEF Close, TypeOK
  <2> QED BY <1>0, <1>3, <2>1 DEF Close, TypeOK, ClientTypes, Emitted
<1>4. ASSUME NEW s \in Sub, NEW r \in Run, Connect(s, r) PROVE TypeOK' /\ ClientTypes'
  <2>1. -1 \in Int /\ Subscribe(s, r, -1)
    BY <1>4 DEF Connect
  <2> QED BY <1>0, <2>1, SubscribeTypes
<1>5. ASSUME NEW s \in Sub, Reconnect(s) PROVE TypeOK' /\ ClientTypes'
  <2>1. ResumeCursor(s) \in Int
    BY <1>5, CursorIsBehind
  <2>2. run[s] \in Run /\ Subscribe(s, run[s], ResumeCursor(s))
    BY <1>0, <1>5 DEF Reconnect, TypeOK
  <2> QED BY <1>0, <2>1, <2>2, SubscribeTypes
<1>6. ASSUME NEW s \in Sub, Replay(s) PROVE TypeOK' /\ ClientTypes'
  <2>1. Head(replay[s]) \in Nat /\ Tail(replay[s]) \in Seq(Nat)
    BY <1>0, <1>6, TailEntries DEF Replay, ClientTypes
  <2>2. last' \in [Sub -> Int] /\ received' \in [Sub -> SUBSET Nat]
        /\ phase' \in [Sub -> {"idle", "replay", "live", "cleanup", "ended"}]
    BY <1>0, <1>6, <2>1, YieldTypes DEF Replay
  <2> QED BY <1>0, <1>6, <2>1, <2>2 DEF Replay, TypeOK, ClientTypes, sinkVars, Emitted
<1>7. ASSUME NEW s \in Sub, Follow(s) PROVE TypeOK' /\ ClientTypes'
  <2>1. Head(queue[s]) \in Nat /\ Tail(queue[s]) \in Seq(Nat) /\ Len(queue[s]) \in Nat
        /\ Len(Tail(queue[s])) = Len(queue[s]) - 1
    BY <1>0, <1>7, TailEntries DEF Follow, ClientTypes
  <2>2. last' \in [Sub -> Int] /\ received' \in [Sub -> SUBSET Nat]
        /\ phase' \in [Sub -> {"idle", "replay", "live", "cleanup", "ended"}]
    BY <1>0, <1>7, <2>1, YieldTypes DEF Follow
  <2>3. queue' \in [Sub -> Seq(Nat)] /\ \A u \in Sub : Len(queue'[u]) <= QueueSize
    <3>1. queue' = [queue EXCEPT ![s] = Tail(queue[s])] /\ Len(queue[s]) <= QueueSize
      BY <1>0, <1>7 DEF Follow, TypeOK
    <3>2. Len(Tail(queue[s])) <= QueueSize
      BY <3>1, <2>1, <1>0
    <3>3. queue' \in [Sub -> Seq(Nat)]
      BY <3>1, <2>1, <1>0 DEF ClientTypes
    <3>4. ASSUME NEW u \in Sub PROVE Len(queue'[u]) <= QueueSize
      BY <3>1, <3>2, <1>0 DEF TypeOK, ClientTypes
    <3> QED BY <3>3, <3>4
  <2> QED BY <1>0, <1>7, <2>2, <2>3 DEF Follow, TypeOK, ClientTypes, sinkVars, Emitted
<1>8. ASSUME NEW s \in Sub, Replayed(s) PROVE TypeOK' /\ ClientTypes'
  <2>1. run[s] \in runs => terminal[run[s]] \in BOOLEAN
    BY <1>0 DEF TypeOK
  <2>2. done' \in [Sub -> BOOLEAN]
    BY <1>0, <1>8, <2>1 DEF Replayed, TypeOK
  <2> QED BY <1>0, <1>8, <2>2 DEF Replayed, TypeOK, ClientTypes, sinkVars, Emitted
<1>9. ASSUME NEW s \in Sub, FollowEnds(s) PROVE TypeOK' /\ ClientTypes'
  BY <1>0, <1>9 DEF FollowEnds, TypeOK, ClientTypes, sinkVars, Emitted
<1>10. ASSUME NEW s \in Sub, Disconnect(s) PROVE TypeOK' /\ ClientTypes'
  BY <1>0, <1>10 DEF Disconnect, TypeOK, ClientTypes, sinkVars, Emitted
<1>11. ASSUME NEW s \in Sub, Cleanup(s) PROVE TypeOK' /\ ClientTypes'
  BY <1>0, <1>11 DEF Cleanup, TypeOK, ClientTypes, sinkVars, Emitted
<1> QED BY <1>1, <1>2, <1>3, <1>4, <1>5, <1>6, <1>7, <1>8, <1>9, <1>10, <1>11 DEF Next

-----------------------------------------------------------------------------
(* Stamps, sets of listeners and phases *)

LEMMA StampStep ==
  ASSUME InOrderInv, Next
  PROVE  StampInv'
<1>0. TypeOK /\ ClientTypes /\ StampInv /\ globalEventSeq \in Nat /\ ids \in [Run -> Seq(Nat)]
  BY DEF InOrderInv, TypeOK
<1>1. CASE ids' = ids /\ globalEventSeq' = globalEventSeq
  BY <1>0, <1>1 DEF StampInv, Emitted
<1>2. ASSUME NEW r \in Run, Emit(r) PROVE StampInv'
  <2>1. globalEventSeq' = globalEventSeq + 1
        /\ ids' = [ids EXCEPT ![r] = Append(@, globalEventSeq + 1)]
    BY <1>0, <1>2, EmitStep
  <2> SUFFICES ASSUME NEW w \in Run
               PROVE  /\ Len(ids'[w]) <= globalEventSeq'
                      /\ \A k \in 1..Len(ids'[w]) : ids'[w][k] >= k
    BY DEF StampInv, Emitted
  <2>2. Len(ids[w]) \in Nat /\ Len(ids[w]) <= globalEventSeq /\ ids[w] \in Seq(Nat)
        /\ \A k \in 1..Len(ids[w]) : ids[w][k] >= k
    BY <1>0 DEF StampInv, Emitted
  <2>3. CASE w # r
    <3>1. ids'[w] = ids[w]
      BY <2>1, <2>3, <1>0
    <3> QED BY <3>1, <2>1, <2>2, <1>0
  <2>4. CASE w = r
    <3>1. ids'[w] = Append(ids[w], globalEventSeq + 1)
      BY <2>1, <2>4, <1>0
    <3>2. Len(ids'[w]) = Len(ids[w]) + 1
      BY <3>1, <2>2
    <3>3. ASSUME NEW k \in 1..(Len(ids[w]) + 1)
          PROVE  ids'[w][k] >= k
      <4>1. CASE k \in 1..Len(ids[w])
        BY <4>1, <3>1, <2>2
      <4>2. CASE k = Len(ids[w]) + 1
        <5>1. ids'[w][k] = globalEventSeq + 1
          BY <4>2, <3>1, <2>2
        <5> QED BY <5>1, <4>2, <2>2, <1>0
      <4> QED BY <4>1, <4>2, <2>2
    <3> QED BY <3>2, <3>3, <2>1, <2>2, <1>0
  <2> QED BY <2>3, <2>4
<1>3. Next => (ids' = ids /\ globalEventSeq' = globalEventSeq) \/ \E r \in Run : Emit(r)
  <2>1. ASSUME NEW r \in Run, Clear(r) PROVE ids' = ids /\ globalEventSeq' = globalEventSeq
    BY <2>1 DEF Clear
  <2>2. Close => ids' = ids /\ globalEventSeq' = globalEventSeq
    BY DEF Close
  <2>3. ASSUME NEW s \in Sub, NEW r \in Run, Connect(s, r)
        PROVE  ids' = ids /\ globalEventSeq' = globalEventSeq
    BY <2>3 DEF Connect, Subscribe, sinkVars
  <2>4. ASSUME NEW s \in Sub,
               Reconnect(s) \/ Replay(s) \/ Replayed(s) \/ Follow(s) \/ FollowEnds(s)
                 \/ Disconnect(s) \/ Cleanup(s)
        PROVE  ids' = ids /\ globalEventSeq' = globalEventSeq
    BY <2>4 DEF Reconnect, Subscribe, Replay, Replayed, Follow, FollowEnds, Disconnect,
                Cleanup, sinkVars
  <2> QED BY <2>1, <2>2, <2>3, <2>4 DEF Next
<1> QED BY <1>1, <1>2, <1>3

\* Who registers joins the set of its run, or starts a new one.
LEMMA SubscribeSets ==
  ASSUME TypeOK, ClientTypes, SetInv, PhaseInv, NEW s \in Sub, NEW r \in Run, NEW c,
         Subscribe(s, r, c),
         phase[s] \in {"idle", "ended"}
  PROVE  SetInv' /\ PhaseInv'
<1>1. setOf[s] = 0 /\ run' = [run EXCEPT ![s] = r] /\ queue' = [queue EXCEPT ![s] = <<>>]
      /\ received' = received
  BY DEF PhaseInv, Subscribe
<1>2. CASE r \in evictedRuns
  <2>1. phase' = [phase EXCEPT ![s] = "ended"]
        /\ UNCHANGED <<replay, setOf, listeners, nextSet, dropped>>
    BY <1>2 DEF Subscribe
  <2> QED BY <1>1, <2>1 DEF SetInv, PhaseInv, TypeOK
<1>3. CASE r \notin evictedRuns
  <2>1. phase' = [phase EXCEPT ![s] = "replay"] /\ Registered(s, r)
    BY <1>3 DEF Subscribe
  <2>2. \A u \in Sub \ {s} : replay'[u] = replay[u] /\ queue'[u] = queue[u]
                             /\ phase'[u] = phase[u] /\ run'[u] = run[u] /\ setOf'[u] = setOf[u]
    <3>1. ASSUME NEW u \in Sub \ {s} PROVE replay'[u] = replay[u]
      BY <1>3 DEF Subscribe, ClientTypes
    <3>2. ASSUME NEW u \in Sub \ {s} PROVE setOf'[u] = setOf[u]
      BY <2>1 DEF Registered, TypeOK
    <3> QED BY <3>1, <3>2, <2>1, <1>1 DEF TypeOK, ClientTypes
  <2>3. phase'[s] = "replay" /\ run'[s] = r
    BY <2>1, <1>1 DEF TypeOK
  <2>4. PhaseInv'
    BY <1>1, <2>2, <2>3 DEF PhaseInv
  <2>5. CASE listeners[r] # 0
    <3>1. setOf' = [setOf EXCEPT ![s] = listeners[r]] /\ listeners' = listeners
      BY <2>1, <2>5 DEF Registered
    <3> QED BY <3>1, <2>2, <2>3, <2>4, <2>5 DEF SetInv, TypeOK
  <2>6. CASE listeners[r] = 0
    <3>1. setOf' = [setOf EXCEPT ![s] = nextSet] /\ listeners' = [listeners EXCEPT ![r] = nextSet]
      BY <2>1, <2>6 DEF Registered
    <3>2. /\ \A w \in Run : listeners[w] # nextSet
          /\ \A u \in Sub : setOf[u] # nextSet
      BY DEF TypeOK
    <3>3. listeners'[r] = nextSet /\ setOf'[s] = nextSet
          /\ \A w \in Run \ {r} : listeners'[w] = listeners[w]
      BY <3>1 DEF TypeOK
    <3> QED BY <3>2, <3>3, <2>2, <2>3, <2>4 DEF SetInv
  <2> QED BY <2>5, <2>6
<1> QED BY <1>2, <1>3

LEMMA SetStep ==
  ASSUME InOrderInv, Next
  PROVE  SetInv' /\ PhaseInv'
<1>0. TypeOK /\ ClientTypes /\ SetInv /\ PhaseInv
  BY DEF InOrderInv
<1>1. ASSUME NEW r \in Run, Emit(r) PROVE SetInv' /\ PhaseInv'
  <2>1. UNCHANGED <<run, phase, replay, setOf, received>>
    BY <1>1 DEF Emit
  <2>2. ListenersLeave /\ \A s \in Sub : Takes(s, r, Emitted(r)) \/ Misses(s, r)
    BY <1>0, <1>1, EmitStep
  <2>3. \A s \in Sub : phase[s] = "idle" => queue'[s] = queue[s]
    BY <2>2, <1>0 DEF PhaseInv, Takes, Misses, Members
  <2> QED BY <1>0, <2>1, <2>2, <2>3 DEF SetInv, PhaseInv, ListenersLeave
<1>2. ASSUME NEW r \in Run, Clear(r) PROVE SetInv' /\ PhaseInv'
  BY <1>0, <1>2 DEF Clear, SetInv, PhaseInv, TypeOK
<1>3. CASE Close
  BY <1>0, <1>3 DEF Close, SetInv, PhaseInv
<1>4. ASSUME NEW s \in Sub, NEW r \in Run, Connect(s, r) PROVE SetInv' /\ PhaseInv'
  BY <1>0, <1>4, SubscribeSets DEF Connect
<1>5. ASSUME NEW s \in Sub, Reconnect(s) PROVE SetInv' /\ PhaseInv'
  <2>1. run[s] \in Run
    BY <1>0 DEF TypeOK
  <2> QED BY <1>0, <1>5, <2>1, SubscribeSets DEF Reconnect
<1>6. ASSUME NEW s \in Sub, Replay(s) PROVE SetInv' /\ PhaseInv'
  BY <1>0, <1>6 DEF Replay, Yield, SetInv, PhaseInv, TypeOK, ClientTypes
<1>7. ASSUME NEW s \in Sub, Follow(s) PROVE SetInv' /\ PhaseInv'
  BY <1>0, <1>7 DEF Follow, Yield, SetInv, PhaseInv, TypeOK, ClientTypes
<1>8. ASSUME NEW s \in Sub, Replayed(s) PROVE SetInv' /\ PhaseInv'
  BY <1>0, <1>8 DEF Replayed, SetInv, PhaseInv, TypeOK
<1>9. ASSUME NEW s \in Sub, FollowEnds(s) PROVE SetInv' /\ PhaseInv'
  BY <1>0, <1>9 DEF FollowEnds, SetInv, PhaseInv, TypeOK
<1>10. ASSUME NEW s \in Sub, Disconnect(s) PROVE SetInv' /\ PhaseInv'
  BY <1>0, <1>10 DEF Disconnect, SetInv, PhaseInv, TypeOK
<1>11. ASSUME NEW s \in Sub, Cleanup(s) PROVE SetInv' /\ PhaseInv'
  BY <1>0, <1>11 DEF Cleanup, SetInv, PhaseInv, TypeOK
<1> QED BY <1>1, <1>2, <1>3, <1>4, <1>5, <1>6, <1>7, <1>8, <1>9, <1>10, <1>11 DEF Next

-----------------------------------------------------------------------------
(* What a client reads was emitted, and comes in order *)

\* What a generator does with an event: one that is not behind is left out.
LEMMA YieldEffect ==
  ASSUME TypeOK, ClientTypes, NEW s \in Sub, NEW n \in Nat, Yield(s, n)
  PROVE  \/ /\ n > last[s] /\ last'[s] = n
            /\ received'[s] = received[s] \cup {n}
         \/ /\ n <= last[s] /\ last'[s] = last[s]
            /\ received'[s] = received[s]
BY DEF Yield, TypeOK, ClientTypes

\* What a subscription starts with.
LEMMA SubscribeEffect ==
  ASSUME TypeOK, ClientTypes, NEW s \in Sub, NEW r \in Run, NEW c, Subscribe(s, r, c)
  PROVE  /\ ids' = ids /\ run'[s] = r /\ last'[s] = c /\ queue'[s] = <<>>
         /\ received'[s] = received[s] /\ dropped[s] \subseteq dropped'[s]
         /\ \/ replay'[s] = replay[s] /\ done'[s]
            \/ /\ ~done'[s]
               /\ r \notin runs => replay'[s] = <<>> /\ 0..(Emitted(r) - 1) \subseteq dropped'[s]
               /\ r \in runs =>
                    /\ replay'[s] = [i \in 1..(Emitted(r) - from[r]) |-> from[r] + i - 1]
                    /\ \A k \in 0..(Emitted(r) - 1) : k < from[r] => k \in dropped'[s]
<1>1. /\ ids' = ids /\ run'[s] = r /\ last'[s] = c /\ queue'[s] = <<>>
      /\ received'[s] = received[s]
  BY DEF Subscribe, sinkVars, TypeOK, ClientTypes
<1>2. CASE r \in evictedRuns
  <2>1. replay'[s] = replay[s] /\ done'[s] /\ dropped'[s] = dropped[s]
    BY <1>2 DEF Subscribe, TypeOK
  <2> QED BY <1>1, <2>1
<1>3. CASE r \notin evictedRuns
  <2> DEFINE missed == {n \in 0..(Emitted(r) - 1) : r \notin runs \/ n < from[r]}
             snapshot == IF r \notin runs THEN <<>>
                         ELSE [i \in 1..(Emitted(r) - from[r]) |-> from[r] + i - 1]
  <2>1. /\ done' = [done EXCEPT ![s] = FALSE]
        /\ replay' = [replay EXCEPT ![s] = snapshot]
        /\ dropped' = [dropped EXCEPT ![s] = @ \cup missed]
    BY <1>3 DEF Subscribe
  <2>2. ~done'[s] /\ replay'[s] = snapshot /\ dropped'[s] = dropped[s] \cup missed
    BY <2>1 DEF TypeOK, ClientTypes
  <2>3. r \notin runs => 0..(Emitted(r) - 1) \subseteq missed
    OBVIOUS
  <2>4. \A k \in 0..(Emitted(r) - 1) : k < from[r] => k \in missed
    OBVIOUS
  <2> QED BY <1>1, <2>2, <2>3, <2>4
<1> QED BY <1>2, <1>3

LEMMA EmittedStep ==
  ASSUME InOrderInv, Next
  PROVE  EmittedInv'
<1> SUFFICES ASSUME NEW s \in Sub,
                    NEW n \in received'[s] \cup Entries(replay'[s]) \cup Entries(queue'[s])
             PROVE  n < Len(ids'[run'[s]])
  BY DEF EmittedInv, Emitted
<1> DEFINE All == received[s] \cup Entries(replay[s]) \cup Entries(queue[s])
<1>0. /\ TypeOK /\ ClientTypes /\ run[s] \in Run
      /\ received[s] \subseteq Nat
      /\ \A k \in received[s] : k < Emitted(run[s])
      /\ \A k \in Entries(replay[s]) : k < Emitted(run[s])
      /\ \A k \in Entries(queue[s]) : k < Emitted(run[s])
      /\ replay[s] \in Seq(Nat) /\ queue[s] \in Seq(Nat)
  BY DEF InOrderInv, EmittedInv, TypeOK, ClientTypes
<1>1. CASE Quiet(s)
  BY <1>0, <1>1 DEF Quiet, Emitted
<1>2. ASSUME NEW r \in Run, Emit(r) PROVE n < Len(ids'[run'[s]])
  <2>1. ids' = [ids EXCEPT ![r] = Append(@, globalEventSeq + 1)] /\ globalEventSeq \in Nat
        /\ (Takes(s, r, Emitted(r)) \/ Misses(s, r))
    BY <1>0, <1>2, EmitStep DEF TypeOK
  <2>2. run' = run /\ replay' = replay /\ received' = received
    BY <1>2 DEF Emit
  <2>3. ids[run[s]] \in Seq(Nat) /\ ids[r] \in Seq(Nat) /\ Emitted(r) \in Nat /\ Emitted(run[s]) \in Nat
    BY <1>0 DEF TypeOK, Emitted
  <2>4. Len(ids'[r]) = Emitted(r) + 1
    BY <2>1, <2>3, <1>0, AppendEntries DEF TypeOK, Emitted
  <2>5. Emitted(run[s]) <= Len(ids'[run[s]]) /\ Len(ids'[run[s]]) \in Nat
    <3>1. CASE run[s] = r
      BY <3>1, <2>3, <2>4
    <3>2. CASE run[s] # r
      BY <3>2, <2>1, <2>3, <1>0 DEF Emitted, TypeOK
    <3> QED BY <3>1, <3>2
  <2>6. ASSUME n \in All PROVE n < Len(ids'[run[s]])
    <3>1. n < Emitted(run[s]) /\ n \in Nat
      <4>1. \A k \in Entries(replay[s]) \cup Entries(queue[s]) : k \in Nat
        BY <1>0 DEF Entries
      <4> QED BY <4>1, <2>6, <1>0
    <3> QED BY <3>1, <2>3, <2>5
  <2>7. CASE Misses(s, r)
    <3>1. n \in All
      BY <2>7, <2>2 DEF Misses
    <3> QED BY <3>1, <2>2, <2>6 DEF Emitted
  <2>8. CASE Takes(s, r, Emitted(r))
    <3>1. run[s] = r
      BY <2>8, <1>0 DEF Takes, Members, InOrderInv, SetInv
    <3>2. Entries(queue'[s]) \subseteq Entries(queue[s]) \cup {Emitted(r)}
      <4>1. CASE queue'[s] = Append(queue[s], Emitted(r))
        BY <4>1, <1>0, <2>3, AppendEntries
      <4>2. CASE queue'[s] = Append(Tail(queue[s]), Emitted(r)) /\ Len(queue[s]) >= QueueSize
        <5>1. queue[s] # <<>>
          BY <4>2, <1>0, EventSinkAssumption
        <5>2. Tail(queue[s]) \in Seq(Nat) /\ Entries(Tail(queue[s])) \subseteq Entries(queue[s])
          BY <5>1, <1>0, TailEntries
        <5> QED BY <5>2, <4>2, <2>3, AppendEntries
      <4> QED BY <4>1, <4>2, <2>8 DEF Takes
    <3>3. n \in All \/ n = Emitted(r)
      BY <3>2, <2>2
    <3>4. Emitted(r) < Len(ids'[r])
      BY <2>3, <2>4
    <3> QED BY <3>1, <3>3, <3>4, <2>2, <2>6 DEF Emitted
  <2> QED BY <2>1, <2>7, <2>8
<1>3. ASSUME NEW r \in Run, NEW c, Subscribe(s, r, c), All = {} \/ r = run[s]
      PROVE  n < Len(ids'[run'[s]])
  <2>1. ids' = ids /\ run'[s] = r /\ queue'[s] = <<>> /\ received'[s] = received[s]
        /\ (replay'[s] = replay[s] \/ (r \notin runs /\ replay'[s] = <<>>)
             \/ (r \in runs /\ replay'[s] = [i \in 1..(Emitted(r) - from[r]) |-> from[r] + i - 1]))
    BY <1>0, <1>3, SubscribeEffect
  <2>2. Entries(<<>>) = {}
    BY DEF Entries
  <2>3. CASE n \in All
    BY <2>3, <2>1, <1>0, <1>3 DEF Emitted
  <2>4. CASE r \in runs /\ replay'[s] = [i \in 1..(Emitted(r) - from[r]) |-> from[r] + i - 1]
             /\ n \in Entries(replay'[s])
    <3>1. Emitted(r) \in Nat /\ from[r] \in Nat /\ Emitted(r) - from[r] \in Nat
      <4>1. Emitted(r) - from[r] \in 1..MaxEventsPerRun /\ ids[r] \in Seq(Nat) /\ from[r] \in Nat
        BY <2>4, <1>0 DEF TypeOK
      <4>2. Emitted(r) \in Nat
        BY <4>1 DEF Emitted
      <4> QED BY <4>1, <4>2, EventSinkAssumption
    <3>2. Len(replay'[s]) = Emitted(r) - from[r]
      BY <2>4, <3>1
    <3>3. PICK i \in 1..(Emitted(r) - from[r]) : n = replay'[s][i]
      BY <2>4, <3>2 DEF Entries
    <3>4. n = from[r] + i - 1
      BY <2>4, <3>3
    <3>5. n < Emitted(r)
      BY <3>1, <3>3, <3>4
    <3> QED BY <3>5, <2>1 DEF Emitted
  <2> QED BY <2>1, <2>2, <2>3, <2>4
<1>4. ASSUME NEW r \in Run, Connect(s, r) PROVE n < Len(ids'[run'[s]])
  <2>1. All = {}
    BY <1>4 DEF Connect, InOrderInv, PhaseInv, Entries
  <2> QED BY <2>1, <1>3, <1>4 DEF Connect
<1>5. CASE Reconnect(s)
  BY <1>0, <1>3, <1>5 DEF Reconnect
<1>6. CASE Replay(s)
  <2>1. Head(replay[s]) \in Nat /\ Entries(replay[s]) = {Head(replay[s])} \cup Entries(Tail(replay[s]))
    BY <1>0, <1>6, TailEntries DEF Replay
  <2>2. received'[s] \subseteq received[s] \cup {Head(replay[s])}
    BY <1>0, <1>6, <2>1, YieldEffect DEF Replay
  <2>3. replay'[s] = Tail(replay[s]) /\ ids' = ids /\ run' = run /\ queue' = queue
    BY <1>0, <1>6 DEF Replay, sinkVars, ClientTypes
  <2> QED BY <2>1, <2>2, <2>3, <1>0 DEF Emitted
<1>7. CASE Follow(s)
  <2>1. Head(queue[s]) \in Nat /\ Entries(queue[s]) = {Head(queue[s])} \cup Entries(Tail(queue[s]))
    BY <1>0, <1>7, TailEntries DEF Follow
  <2>2. received'[s] \subseteq received[s] \cup {Head(queue[s])}
    BY <1>0, <1>7, <2>1, YieldEffect DEF Follow
  <2>3. queue'[s] = Tail(queue[s]) /\ ids' = ids /\ run' = run /\ replay' = replay
    BY <1>0, <1>7 DEF Follow, sinkVars, ClientTypes
  <2> QED BY <2>1, <2>2, <2>3, <1>0 DEF Emitted
<1> QED BY <1>0, <1>1, <1>2, <1>4, <1>5, <1>6, <1>7, ClientSteps

\* What is new to a client comes behind everything it has.
NewIsLast(s) == \A n \in received'[s] \ received[s] : \A k \in received[s] : k < n

LEMMA OrderStep ==
  ASSUME InOrderInv, Next
  PROVE  OrderInv' /\ \A s \in Sub : NewIsLast(s)
<1> SUFFICES ASSUME NEW s \in Sub
             PROVE  /\ \A n \in received'[s] : n <= last'[s]
                    /\ received'[s] # {} => \E n \in received'[s] : \A k \in received'[s] : k <= n
                    /\ NewIsLast(s)
  BY DEF OrderInv
<1>0. /\ TypeOK /\ ClientTypes /\ run[s] \in Run /\ received[s] \subseteq Nat /\ last[s] \in Int
      /\ replay[s] \in Seq(Nat) /\ queue[s] \in Seq(Nat)
      /\ \A n \in received[s] : n <= last[s]
      /\ received[s] # {} => \E n \in received[s] : \A k \in received[s] : k <= n
  BY DEF InOrderInv, OrderInv, TypeOK, ClientTypes
<1>1. CASE received'[s] = received[s] /\ last'[s] = last[s]
  BY <1>0, <1>1 DEF NewIsLast
<1>2. ASSUME NEW r \in Run, Emit(r) PROVE received'[s] = received[s] /\ last'[s] = last[s]
  BY <1>2 DEF Emit
<1>3. ASSUME NEW r \in Run, Connect(s, r)
      PROVE  received'[s] = {}
  BY <1>0, <1>3, SubscribeEffect DEF Connect, InOrderInv, PhaseInv
<1>4. CASE Reconnect(s)
  <2>1. \A k \in received[s] : k <= ResumeCursor(s)
    BY <1>4, CursorIsBehind
  <2>2. received'[s] = received[s] /\ last'[s] = ResumeCursor(s)
    BY <1>0, <1>4, SubscribeEffect DEF Reconnect
  <2> QED BY <1>0, <2>1, <2>2 DEF NewIsLast
<1>5. ASSUME NEW n \in Nat, n > last[s], last'[s] = n, received'[s] = received[s] \cup {n}
      PROVE  /\ \A k \in received'[s] : k <= last'[s]
             /\ received'[s] # {} => \E m \in received'[s] : \A k \in received'[s] : k <= m
             /\ NewIsLast(s)
  <2>1. \A k \in received[s] : k < n
    BY <1>0, <1>5
  <2>2. \A k \in received'[s] : k <= n
    BY <2>1, <1>0, <1>5
  <2> QED BY <2>1, <2>2, <1>0, <1>5 DEF NewIsLast
<1>6. CASE Replay(s)
  <2>1. Head(replay[s]) \in Nat /\ Yield(s, Head(replay[s]))
    BY <1>0, <1>6, TailEntries DEF Replay
  <2> QED BY <2>1, <1>0, <1>1, <1>5, YieldEffect
<1>7. CASE Follow(s)
  <2>1. Head(queue[s]) \in Nat /\ Yield(s, Head(queue[s]))
    BY <1>0, <1>7, TailEntries DEF Follow
  <2> QED BY <2>1, <1>0, <1>1, <1>5, YieldEffect
<1>8. CASE Quiet(s)
  BY <1>1, <1>8 DEF Quiet
<1>9. CASE received'[s] = {}
  BY <1>9 DEF NewIsLast
<1> QED BY <1>0, <1>1, <1>2, <1>3, <1>4, <1>6, <1>7, <1>8, <1>9, ClientSteps

-----------------------------------------------------------------------------
(* Nothing is skipped *)

LEMMA NoEntries == Entries(<<>>) = {} /\ \A K : Prior(<<>>, K)
BY DEF Entries, Prior

\* What the three invariants say of one subscriber, for the values they will have.
LEMMA GapEmit ==
  ASSUME InOrderInv, NoGapInv, NEW r \in Run, Emit(r)
  PROVE  NoGapInv'
<1> SUFFICES ASSUME NEW s \in Sub
             PROVE  /\ Prior(replay'[s], Known(s)')
                    /\ Prior(queue'[s], Known(s)' \cup Entries(replay'[s]))
                    /\ Listening(s)' => 0..(Emitted(run[s])' - 1) \subseteq
                          Known(s)' \cup Entries(replay'[s]) \cup Entries(queue'[s])
                    /\ last'[s] = -1 \/ last'[s] \in received'[s]
                    /\ \A n \in received'[s] : 0..n \subseteq Known(s)'
  <2>1. run' = run
    BY DEF Emit
  <2> QED BY <2>1 DEF NoGapInv, GapInv, LiveInv, CursorInv, Emitted
<1> DEFINE n == Emitted(r)
           K == Known(s)
           R == replay[s]
           Q == queue[s]
<1>0. /\ TypeOK /\ ClientTypes /\ run[s] \in Run
      /\ R \in Seq(Nat) /\ Q \in Seq(Nat) /\ n \in Nat
  <2>1. TypeOK /\ ClientTypes
    BY DEF InOrderInv
  <2>2. ids[r] \in Seq(Nat) /\ run[s] \in Run
    BY <2>1 DEF TypeOK
  <2>3. R \in Seq(Nat) /\ Q \in Seq(Nat)
    BY <2>1 DEF ClientTypes
  <2> QED BY <2>1, <2>2, <2>3 DEF Emitted
<1>6. /\ Prior(R, K) /\ Prior(Q, K \cup Entries(R))
      /\ Listening(s) => 0..(Emitted(run[s]) - 1) \subseteq K \cup Entries(R) \cup Entries(Q)
      /\ last[s] = -1 \/ last[s] \in received[s]
      /\ \A m \in received[s] : 0..m \subseteq K
  BY DEF NoGapInv, GapInv, LiveInv, CursorInv
<1>1. UNCHANGED <<run, last, replay, setOf, received>>
  BY DEF Emit
<1>2. /\ ids' = [ids EXCEPT ![r] = Append(@, globalEventSeq + 1)]
      /\ listeners'[run[s]] \in {0, listeners[run[s]]}
      /\ done[s] => done'[s]
      /\ Takes(s, r, n) \/ Misses(s, r)
  BY <1>0, EmitStep DEF ListenersLeave
<1>3. Listening(s)' => Listening(s)
  BY <1>1, <1>2 DEF Listening
<1>4. CASE Misses(s, r)
  <2>1. Q = queue'[s] /\ K = Known(s)'
    BY <1>4, <1>1 DEF Misses, Known
  <2>2. Listening(s)' => run[s] # r
    BY <1>1, <1>3, <1>4 DEF Misses, Members, Listening
  <2>3. run[s] # r => Emitted(run[s])' = Emitted(run[s])
    BY <1>0, <1>1, <1>2 DEF Emitted, TypeOK
  <2> QED BY <1>0, <1>1, <1>3, <1>6, <2>1, <2>2, <2>3
<1>5. CASE Takes(s, r, n)
  <2>1. run[s] = r /\ Listening(s)
    BY <1>5, <1>0 DEF Takes, Members, InOrderInv, SetInv, Listening
  <2>2. Emitted(run[s])' = n + 1
    <3>1. ids[r] \in Seq(Nat) /\ globalEventSeq + 1 \in Nat
      BY <1>0 DEF TypeOK
    <3>2. ids'[run'[s]] = Append(ids[r], globalEventSeq + 1)
      BY <2>1, <1>0, <1>1, <1>2 DEF TypeOK
    <3> QED BY <3>1, <3>2, AppendEntries DEF Emitted
  <2>3. 0..(n - 1) \subseteq K \cup Entries(R) \cup Entries(Q)
    BY <1>6, <2>1
  <2>4. 0..((n + 1) - 1) = 0..(n - 1) \cup {n}
    BY <1>0
  <2>5. CASE queue'[s] = Append(Q, n) /\ dropped'[s] = dropped[s]
    <3>1. Known(s)' = K
      BY <2>5, <1>1 DEF Known
    <3>2. Prior(queue'[s], K \cup Entries(R))
      <4> DEFINE L == K \cup Entries(R)
      <4>1. Q \in Seq(Nat) /\ n \in Nat /\ Prior(Q, L) /\ 0..(n - 1) \subseteq L \cup Entries(Q)
        BY <2>3, <1>0, <1>6
      <4> HIDE DEF L, n
      <4>2. Prior(Append(Q, n), L)
        BY <4>1, PriorAppend
      <4> QED BY <4>2, <2>5 DEF L
    <3>3. Entries(queue'[s]) = Entries(Q) \cup {n}
      BY <2>5, <1>0, AppendEntries
    <3> QED BY <3>1, <3>2, <3>3, <2>2, <2>3, <2>4, <1>0, <1>1, <1>6
  <2>6. CASE Len(Q) >= QueueSize /\ queue'[s] = Append(Tail(Q), n)
             /\ dropped'[s] = dropped[s] \cup {Head(Q)}
    <3>1. Q # <<>>
      BY <2>6, <1>0, EventSinkAssumption
    <3>2. Tail(Q) \in Seq(Nat) /\ Entries(Q) = {Head(Q)} \cup Entries(Tail(Q))
      BY <3>1, <1>0, TailEntries
    <3>3. Known(s)' = K \cup {Head(Q)}
      BY <2>6, <1>1 DEF Known
    <3>4. Prior(Tail(Q), Known(s)' \cup Entries(R))
      <4>1. Prior(Tail(Q), (K \cup Entries(R)) \cup {Head(Q)})
        BY <3>1, <1>0, <1>6, PriorTail
      <4>2. (K \cup Entries(R)) \cup {Head(Q)} \subseteq Known(s)' \cup Entries(R)
        BY <3>3
      <4> QED BY <4>1, <4>2, PriorMore
    <3>5. 0..(n - 1) \subseteq (Known(s)' \cup Entries(R)) \cup Entries(Tail(Q))
      BY <2>3, <3>2, <3>3
    <3>6. Prior(queue'[s], Known(s)' \cup Entries(R))
      <4> DEFINE L == Known(s)' \cup Entries(R)
      <4>1. Tail(Q) \in Seq(Nat) /\ n \in Nat /\ Prior(Tail(Q), L)
            /\ 0..(n - 1) \subseteq L \cup Entries(Tail(Q))
        BY <3>2, <3>4, <3>5, <1>0
      <4> HIDE DEF L, n
      <4>2. Prior(Append(Tail(Q), n), L)
        BY <4>1, PriorAppend
      <4> QED BY <4>2, <2>6 DEF L
    <3>7. Entries(queue'[s]) = Entries(Tail(Q)) \cup {n}
      BY <2>6, <3>2, <1>0, AppendEntries
    <3>8. Prior(R, Known(s)')
      BY <3>3, <1>6, PriorMore
    <3> QED BY <3>3, <3>5, <3>6, <3>7, <3>8, <2>2, <2>4, <1>0, <1>1, <1>6
  <2> QED BY <1>5, <2>5, <2>6 DEF Takes
<1> QED BY <1>2, <1>4, <1>5

\* A snapshot has everything that its subscriber may still read.
LEMMA SnapshotIsWhole ==
  ASSUME NEW first \in Nat, NEW n \in Nat, first <= n, NEW K, 0..(first - 1) \subseteq K,
         NEW q, q = [i \in 1..(n - first) |-> first + i - 1]
  PROVE  Prior(q, K) /\ 0..(n - 1) \subseteq K \cup Entries(q)
<1>1. Len(q) = n - first /\ n - first \in Nat /\ \A i \in 1..Len(q) : q[i] = first + i - 1
  OBVIOUS
<1>2. Prior(q, K)
  <2> SUFFICES ASSUME NEW i \in 1..Len(q), NEW k \in 0..(q[i] - 1), k \notin K
               PROVE  \E j \in 1..(i - 1) : q[j] = k
    BY DEF Prior
  <2>1. q[i] = first + i - 1 /\ k >= first /\ k < q[i]
    BY <1>1
  <2>2. (k - first) + 1 \in 1..(i - 1) /\ (k - first) + 1 \in 1..Len(q)
    BY <1>1, <2>1
  <2>3. q[(k - first) + 1] = k
    BY <1>1, <2>2
  <2> QED BY <2>2, <2>3
<1>3. ASSUME NEW k \in 0..(n - 1), k \notin K
      PROVE  k \in Entries(q)
  <2>1. (k - first) + 1 \in 1..Len(q)
    BY <1>1, <1>3
  <2>2. q[(k - first) + 1] = k
    BY <1>1, <2>1
  <2> QED BY <2>1, <2>2 DEF Entries
<1> QED BY <1>2, <1>3

\* A new subscription: its client has everything up to its cursor.
LEMMA GapSubscribe ==
  ASSUME TypeOK, ClientTypes, NEW s \in Sub, NEW r \in Run, NEW c, Subscribe(s, r, c),
         Prior(replay[s], Known(s))
  PROVE  /\ Known(s) \subseteq Known(s)' /\ received'[s] = received[s] /\ last'[s] = c
         /\ Prior(replay'[s], Known(s)')
         /\ Prior(queue'[s], Known(s)' \cup Entries(replay'[s]))
         /\ Listening(s)' => 0..(Emitted(run[s])' - 1) \subseteq
                Known(s)' \cup Entries(replay'[s]) \cup Entries(queue'[s])
<1>1. /\ ids' = ids /\ run'[s] = r /\ last'[s] = c /\ queue'[s] = <<>>
      /\ received'[s] = received[s] /\ dropped[s] \subseteq dropped'[s]
      /\ \/ replay'[s] = replay[s] /\ done'[s]
         \/ /\ ~done'[s]
            /\ r \notin runs => replay'[s] = <<>> /\ 0..(Emitted(r) - 1) \subseteq dropped'[s]
            /\ r \in runs =>
                 /\ replay'[s] = [i \in 1..(Emitted(r) - from[r]) |-> from[r] + i - 1]
                 /\ \A k \in 0..(Emitted(r) - 1) : k < from[r] => k \in dropped'[s]
  BY SubscribeEffect
<1>2. Known(s) \subseteq Known(s)'
  BY <1>1 DEF Known
<1>3. Prior(queue'[s], Known(s)' \cup Entries(replay'[s]))
  BY <1>1, NoEntries
<1>4. Emitted(run[s])' = Emitted(r)
  BY <1>1 DEF Emitted
<1>5. CASE replay'[s] = replay[s] /\ done'[s]
  <2>1. Prior(replay'[s], Known(s)')
    BY <1>2, <1>5, PriorMore
  <2>2. ~Listening(s)'
    BY <1>5 DEF Listening
  <2> QED BY <1>1, <1>2, <1>3, <2>1, <2>2
<1>6. CASE r \notin runs /\ replay'[s] = <<>> /\ 0..(Emitted(r) - 1) \subseteq dropped'[s]
  <2>1. 0..(Emitted(r) - 1) \subseteq Known(s)'
    BY <1>6 DEF Known
  <2> QED BY <1>1, <1>2, <1>3, <1>4, <1>6, <2>1, NoEntries
<1>7. CASE /\ r \in runs
           /\ replay'[s] = [i \in 1..(Emitted(r) - from[r]) |-> from[r] + i - 1]
           /\ \A k \in 0..(Emitted(r) - 1) : k < from[r] => k \in dropped'[s]
  <2>1. from[r] \in Nat /\ Emitted(r) \in Nat /\ from[r] <= Emitted(r)
    <3>1. Emitted(r) - from[r] \in 1..MaxEventsPerRun /\ ids[r] \in Seq(Nat) /\ from[r] \in Nat
      BY <1>7 DEF TypeOK
    <3>2. Emitted(r) \in Nat
      BY <3>1 DEF Emitted
    <3> QED BY <3>1, <3>2, EventSinkAssumption
  <2>2. 0..(from[r] - 1) \subseteq Known(s)'
    <3>1. \A k \in 0..(from[r] - 1) : k \in 0..(Emitted(r) - 1) /\ k < from[r]
      BY <2>1
    <3>2. 0..(from[r] - 1) \subseteq dropped'[s]
      BY <3>1, <1>7
    <3> QED BY <3>2 DEF Known
  <2>3. ASSUME NEW first \in Nat, NEW n \in Nat, first = from[r], n = Emitted(r), NEW K, K = Known(s)'
        PROVE  Prior(replay'[s], K) /\ 0..(n - 1) \subseteq K \cup Entries(replay'[s])
    <3>1. first <= n /\ 0..(first - 1) \subseteq K
          /\ replay'[s] = [i \in 1..(n - first) |-> first + i - 1]
      BY <2>1, <2>2, <2>3, <1>7
    <3> QED BY <3>1, SnapshotIsWhole
  <2>4. Prior(replay'[s], Known(s)')
        /\ 0..(Emitted(r) - 1) \subseteq Known(s)' \cup Entries(replay'[s])
    BY <2>1, <2>3
  <2> QED BY <1>1, <1>2, <1>3, <1>4, <2>4
<1> QED BY <1>1, <1>5, <1>6, <1>7

LEMMA GapStep ==
  ASSUME InOrderInv, NoGapInv, ~ByEventId, Next
  PROVE  NoGapInv'
<1>1. ASSUME NEW r \in Run, Emit(r) PROVE NoGapInv'
  BY <1>1, GapEmit
<1>2. ASSUME \A r \in Run : ~Emit(r)
      PROVE  NoGapInv'
  <2> SUFFICES ASSUME NEW s \in Sub
               PROVE  /\ Prior(replay'[s], Known(s)')
                      /\ Prior(queue'[s], Known(s)' \cup Entries(replay'[s]))
                      /\ Listening(s)' => 0..(Emitted(run[s])' - 1) \subseteq
                            Known(s)' \cup Entries(replay'[s]) \cup Entries(queue'[s])
                      /\ last'[s] = -1 \/ last'[s] \in received'[s]
                      /\ \A n \in received'[s] : 0..n \subseteq Known(s)'
    BY DEF NoGapInv, GapInv, LiveInv, CursorInv, Emitted
  <2> DEFINE K == Known(s)
             R == replay[s]
             Q == queue[s]
  <2>0. TypeOK /\ ClientTypes /\ run[s] \in Run /\ R \in Seq(Nat) /\ Q \in Seq(Nat)
        /\ received[s] \subseteq Nat /\ last[s] \in Int
    BY DEF InOrderInv, TypeOK, ClientTypes
  <2>1. /\ Prior(R, K) /\ Prior(Q, K \cup Entries(R))
        /\ Listening(s) => 0..(Emitted(run[s]) - 1) \subseteq K \cup Entries(R) \cup Entries(Q)
        /\ last[s] = -1 \/ last[s] \in received[s]
        /\ \A n \in received[s] : 0..n \subseteq K
    BY DEF NoGapInv, GapInv, LiveInv, CursorInv
  <2>2. CASE Quiet(s)
    <3>1. K = Known(s)' /\ (Listening(s)' => Listening(s)) /\ Emitted(run[s])' = Emitted(run[s])
      BY <2>2 DEF Quiet, Known, Emitted
    <3> QED BY <3>1, <2>1, <2>2 DEF Quiet
  <2>3. ASSUME NEW r \in Run, NEW c, Subscribe(s, r, c), c = -1 \/ c \in received[s]
        PROVE  /\ Prior(replay'[s], Known(s)')
               /\ Prior(queue'[s], Known(s)' \cup Entries(replay'[s]))
               /\ Listening(s)' => 0..(Emitted(run[s])' - 1) \subseteq
                     Known(s)' \cup Entries(replay'[s]) \cup Entries(queue'[s])
               /\ last'[s] = -1 \/ last'[s] \in received'[s]
               /\ \A n \in received'[s] : 0..n \subseteq Known(s)'
    <3>1. /\ Known(s) \subseteq Known(s)' /\ received'[s] = received[s] /\ last'[s] = c
          /\ Prior(replay'[s], Known(s)')
          /\ Prior(queue'[s], Known(s)' \cup Entries(replay'[s]))
          /\ Listening(s)' => 0..(Emitted(run[s])' - 1) \subseteq
                Known(s)' \cup Entries(replay'[s]) \cup Entries(queue'[s])
      BY <2>0, <2>1, <2>3, GapSubscribe
    <3> QED BY <3>1, <2>1, <2>3
  <2>4. ASSUME NEW r \in Run, Connect(s, r) PROVE Subscribe(s, r, -1)
    BY <2>4 DEF Connect
  <2>5. Reconnect(s) => Subscribe(s, run[s], ResumeCursor(s)) /\ ResumeCursor(s) \in received[s]
    BY CursorIsBehind, ~ByEventId DEF Reconnect
  \* What a generator reads has everything before it, and is known from then on.
  <2>6. ASSUME NEW n \in Nat, Yield(s, n), 0..(n - 1) \subseteq K, dropped'[s] = dropped[s]
        PROVE  /\ K \cup {n} \subseteq Known(s)'
               /\ last'[s] = -1 \/ last'[s] \in received'[s]
               /\ \A m \in received'[s] : 0..m \subseteq Known(s)'
    <3>1. CASE n > last[s] /\ last'[s] = n /\ received'[s] = received[s] \cup {n}
      <4>1. K \cup {n} \subseteq Known(s)'
        BY <3>1, <2>6 DEF Known
      <4>2. 0..n = 0..(n - 1) \cup {n}
        OBVIOUS
      <4> QED BY <3>1, <4>1, <4>2, <2>1, <2>6
    <3>2. CASE n <= last[s] /\ last'[s] = last[s] /\ received'[s] = received[s]
      <4>1. Known(s)' = K
        BY <3>2, <2>6 DEF Known
      <4>2. last[s] # -1 /\ n \in 0..last[s]
        BY <3>2, <2>0
      <4>3. n \in K
        BY <4>2, <2>1
      <4> QED BY <4>1, <4>3, <3>2, <2>1
    <3> QED BY <3>1, <3>2, <2>0, <2>6, YieldEffect
  <2>7. CASE Replay(s)
    <3>1. R # <<>> /\ Yield(s, Head(R)) /\ replay'[s] = Tail(R) /\ queue'[s] = Q
          /\ dropped'[s] = dropped[s] /\ ids' = ids
          /\ run'[s] = run[s] /\ Listening(s)' = Listening(s)
      BY <2>0, <2>7 DEF Replay, sinkVars, ClientTypes, Listening
    <3>2. Head(R) \in Nat /\ Tail(R) \in Seq(Nat) /\ Entries(R) = {Head(R)} \cup Entries(Tail(R))
      BY <3>1, <2>0, TailEntries
    <3>3. 0..(Head(R) - 1) \subseteq K /\ Prior(Tail(R), K \cup {Head(R)})
      BY <3>1, <2>0, <2>1, PriorTail
    <3>4. /\ K \cup {Head(R)} \subseteq Known(s)'
          /\ last'[s] = -1 \/ last'[s] \in received'[s]
          /\ \A m \in received'[s] : 0..m \subseteq Known(s)'
      BY <3>1, <3>2, <3>3, <2>6
    <3>5. Prior(Tail(R), Known(s)')
      BY <3>3, <3>4, PriorMore
    <3>6. K \cup Entries(R) \subseteq Known(s)' \cup Entries(Tail(R))
      BY <3>2, <3>4
    <3>7. Prior(Q, Known(s)' \cup Entries(Tail(R)))
      BY <3>6, <2>1, PriorMore
    <3>8. Emitted(run[s])' = Emitted(run[s])
      BY <3>1 DEF Emitted
    <3> QED BY <3>1, <3>4, <3>5, <3>6, <3>7, <3>8, <2>1
  <2>8. CASE Follow(s)
    <3>1. Q # <<>> /\ Yield(s, Head(Q)) /\ queue'[s] = Tail(Q) /\ replay'[s] = R /\ R = <<>>
          /\ dropped'[s] = dropped[s] /\ ids' = ids
          /\ run'[s] = run[s] /\ Listening(s)' = Listening(s)
      BY <2>0, <2>8 DEF Follow, sinkVars, ClientTypes, Listening, InOrderInv, PhaseInv
    <3>2. Head(Q) \in Nat /\ Tail(Q) \in Seq(Nat) /\ Entries(Q) = {Head(Q)} \cup Entries(Tail(Q))
      BY <3>1, <2>0, TailEntries
    <3>3. Entries(R) = {} /\ Entries(replay'[s]) = {} /\ Prior(Q, K)
      <4>1. Entries(R) = {} /\ Entries(replay'[s]) = {}
        BY <3>1, NoEntries
      <4> QED BY <4>1, <2>1, PriorMore
    <3>4. 0..(Head(Q) - 1) \subseteq K /\ Prior(Tail(Q), K \cup {Head(Q)})
      BY <3>1, <3>3, <2>0, PriorTail
    <3>5. /\ K \cup {Head(Q)} \subseteq Known(s)'
          /\ last'[s] = -1 \/ last'[s] \in received'[s]
          /\ \A m \in received'[s] : 0..m \subseteq Known(s)'
      BY <3>1, <3>2, <3>4, <2>6
    <3>6. Prior(Tail(Q), Known(s)' \cup Entries(replay'[s]))
      BY <3>4, <3>5, PriorMore
    <3>7. Prior(replay'[s], Known(s)')
      BY <3>1, NoEntries
    <3>8. Emitted(run[s])' = Emitted(run[s])
      BY <3>1 DEF Emitted
    <3> QED BY <3>1, <3>2, <3>3, <3>5, <3>6, <3>7, <3>8, <2>1
  <2> QED BY <1>2, <2>0, <2>2, <2>3, <2>4, <2>5, <2>7, <2>8, ClientSteps
<1> QED BY <1>1, <1>2

-----------------------------------------------------------------------------
(* Theorems *)

LEMMA InitInv ==
  ASSUME Init
  PROVE  InOrderInv /\ NoGapInv
<1>1. Cardinality({}) = 0 /\ Len(<<>>) = 0
  BY FS_EmptySet
<1>2. (CHOOSE r \in Run : TRUE) \in Run
  BY EventSinkAssumption
<1>3. /\ MaxRuns \in Nat \ {0} /\ QueueSize \in Nat \ {0}
  BY EventSinkAssumption
<1>4. TypeOK
  BY <1>1, <1>2, <1>3 DEF Init, TypeOK, Emitted
<1>5. ClientTypes
  BY DEF Init, ClientTypes
<1>6. StampInv /\ SetInv /\ PhaseInv
  BY <1>1 DEF Init, StampInv, SetInv, PhaseInv, Emitted
<1>7. EmittedInv /\ OrderInv
  BY <1>1, NoEntries DEF Init, EmittedInv, OrderInv
<1>8. NoGapInv
  BY NoEntries DEF Init, NoGapInv, GapInv, LiveInv, CursorInv, Listening
<1> QED BY <1>4, <1>5, <1>6, <1>7, <1>8 DEF InOrderInv

LEMMA StutterInv ==
  ASSUME UNCHANGED vars
  PROVE  /\ InOrderInv => InOrderInv'
         /\ NoGapInv => NoGapInv'
<1> USE DEF vars, sinkVars, subVars
<1>1. InOrderInv => InOrderInv'
  BY DEF InOrderInv, TypeOK, ClientTypes, StampInv, SetInv, PhaseInv, EmittedInv, OrderInv, Emitted
<1>2. NoGapInv => NoGapInv'
  BY DEF NoGapInv, GapInv, LiveInv, CursorInv, Listening, Known, Emitted
<1> QED BY <1>1, <1>2

LEMMA NextInOrder ==
  ASSUME InOrderInv, [Next]_vars
  PROVE  InOrderInv'
<1>1. CASE Next
  BY <1>1, TypeStep, StampStep, SetStep, EmittedStep, OrderStep DEF InOrderInv
<1> QED BY <1>1, StutterInv

LEMMA AlwaysInOrder == Spec => []InOrderInv
BY InitInv, NextInOrder, PTL DEF Spec

\* Buffers and queues keep to their limits, and every variable to its type.
THEOREM LimitsHold == Spec => []TypeOK
<1>1. InOrderInv => TypeOK
  BY DEF InOrderInv
<1> QED BY <1>1, AlwaysInOrder, PTL

\* Whatever a client resumes with, a sequence number or an event id, it is given
\* events in the order of their numbers and none of them twice (events.ts:219-281).
THEOREM EventsComeInOrder == Spec => InOrderOnce
<1>1. ASSUME InOrderInv, [Next]_vars
      PROVE  [\A s \in Sub : NewIsLast(s)]_vars
  <2>1. CASE Next
    BY <1>1, <2>1, OrderStep
  <2>2. CASE UNCHANGED vars
    BY <2>2
  <2> QED BY <1>1, <2>1, <2>2
<1>2. [\A s \in Sub : NewIsLast(s)]_vars
        => [\A s \in Sub : \A n \in received'[s] \ received[s] :
               \A k \in received[s] : k < n]_vars
  BY DEF NewIsLast
<1>3. Spec => [][\A s \in Sub : NewIsLast(s)]_vars
  BY <1>1, AlwaysInOrder, PTL DEF Spec
<1> QED BY <1>2, <1>3, PTL DEF InOrderOnce

\* The invariant of clients that resume by sequence number.
LEMMA AlwaysNoGap ==
  ASSUME ~ByEventId
  PROVE  Spec => [](InOrderInv /\ NoGapInv)
<1>1. Init => InOrderInv /\ NoGapInv
  BY InitInv
<1>2. (InOrderInv /\ NoGapInv) /\ [Next]_vars => (InOrderInv /\ NoGapInv)'
  BY NextInOrder, GapStep, StutterInv, ~ByEventId
<1> QED BY <1>1, <1>2, PTL DEF Spec

\* A client that resumes with the number of the last event it received misses no
\* event without a trace: what it does not get was dropped by a full buffer, a
\* full queue or an eviction (events.ts:54-76, 118-132, 230-281).
THEOREM NoEventIsSkipped ==
  ASSUME ~ByEventId
  PROVE  Spec => []NothingSkipped
<1>1. InOrderInv /\ NoGapInv => NothingSkipped
  BY DEF InOrderInv, NoGapInv, CursorInv, Known, NothingSkipped
<1> QED BY <1>1, AlwaysNoGap, ~ByEventId, PTL

\* What is still to come: a subscriber that is among the listeners of its run
\* has every event of the run, is going to read it, or it was dropped.
ListenersAreServed ==
  \A s \in Sub :
    setOf[s] # 0 /\ setOf[s] = listeners[run[s]] /\ ~done[s] =>
      0..(Emitted(run[s]) - 1) \subseteq
          received[s] \cup dropped[s] \cup Entries(replay[s]) \cup Entries(queue[s])

\* No event falls between the snapshot of a subscription and its registration,
\* or between its replay and its queue (events.ts:118-132, 230-281).
THEOREM ListenersMissNothing ==
  ASSUME ~ByEventId
  PROVE  Spec => []ListenersAreServed
<1>1. InOrderInv /\ NoGapInv => ListenersAreServed
  BY DEF NoGapInv, LiveInv, Listening, Known, ListenersAreServed
<1> QED BY <1>1, AlwaysNoGap, ~ByEventId, PTL
=============================================================================
