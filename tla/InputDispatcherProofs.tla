------------------------- MODULE InputDispatcherProofs -------------------------
(***************************************************************************)
(* What InputDispatcher promises of the input queue of one process, proved *)
(* for any set of requests and any number of takeovers: the child receives *)
(* one stream in the order of the queue, losing control adds at most one   *)
(* operation to it, nothing follows an input whose outcome is unknown, and *)
(* a verdict of takeover stands.                                           *)
(***************************************************************************)
EXTENDS InputDispatcher, SequenceTheorems, TLAPS

-----------------------------------------------------------------------------
(* The inductive invariant *)

\* What has left the queue, by shift or by takeover: the queue is what is left
\* of the operations pushed.
Gone == Len(pushed) - Len(queue)
Removed(o) == \E m \in 1..Gone : pushed[m] = o
Before(o, p) == \E m, n \in DOMAIN pushed : m < n /\ pushed[m] = o /\ pushed[n] = p

\* No operation is pushed twice, and one that waits for its receipt has not
\* been pushed.
PushInv ==
    /\ \A m, n \in DOMAIN pushed : pushed[m] = pushed[n] => m = n
    /\ \A m \in DOMAIN pushed : receipt[pushed[m]] # "none" /\ pushed[m] \notin entering
    /\ \A o \in entering : receipt[o] = "queued"

\* The queue is the end of what was pushed.
QueueInv ==
    /\ Len(queue) <= Len(pushed)
    /\ \A i \in DOMAIN queue : queue[i] = pushed[Gone + i]

\* The operation dispatchNext holds is the head of the queue or has left it.
AtHead == queue # <<>> /\ Head(queue) = current
CurrentInv ==
    at \notin {"idle", "quarantine"} => Removed(current) \/ AtHead

\* What the driver got has left the queue or is in dispatchNext's hands, and it
\* is before what dispatchNext is about to hand over.
DeliveredInv ==
    /\ \A i \in DOMAIN delivered :
          \/ Removed(delivered[i])
          \/ at \in {"driver", "eof", "settle", "unknown"} /\ delivered[i] = current
    /\ at = "dispatching" => \A i \in DOMAIN delivered : Before(delivered[i], current)

\* Only the operation whose dispatch was being recorded when control was lost
\* is handed over afterwards.
ControlInv ==
    /\ control = "free" => epoch = 0
    /\ control = "free" \/ at = "dispatching" => Len(delivered) = freeCount

\* An input with an unknown outcome keeps the loop from dispatching.
UnknownInv ==
    \A o \in Op : receipt[o] = "unknown" =>
        at = "unknown" \/ (control # "free" /\ at # "dispatching")

\* What waits in the queue has no final receipt, but for a head whose receipt
\* has just been written and that is about to be shifted.
ReceiptInv ==
    \A i \in DOMAIN queue :
        \/ receipt[queue[i]] \in {"queued", "dispatching"}
        \/ i = 1 /\ queue[i] = current /\ at \in {"settle", "revoked", "unknown"}

\* As long as nobody has taken control away, dispatchNext works on the head of
\* the queue, or a microtask is due for it, and an operation leaves the queue
\* with a final receipt only.
InQueue(o) == \E i \in DOMAIN queue : queue[i] = o
ServedInv ==
    control = "free" =>
        /\ at \notin {"revoked", "quarantine"}
        /\ at # "idle" => AtHead
        /\ at = "settle" => receipt[current] \in Final
        /\ at = "idle" /\ queue # <<>> => wakes # {}
        /\ \A o \in Op : receipt[o] \in {"queued", "dispatching"} => o \in entering \/ InQueue(o)

IInv ==
    /\ SerialDelivery
    /\ PushInv /\ QueueInv /\ CurrentInv /\ DeliveredInv
    /\ ControlInv /\ UnknownInv /\ ReceiptInv /\ ServedInv

-----------------------------------------------------------------------------
(* The steps, seen from the queue *)

\* The queue after a turn of the loop, without the epochs.
TurnTo(q) ==
    /\ queue' = q
    /\ \/ /\ q = <<>>
          /\ at' = "idle"
          /\ UNCHANGED <<current, receipt>>
       \/ /\ q # <<>> /\ control # "free"
          /\ at' = "revoked" /\ current' = Head(q)
          /\ receipt' = [receipt EXCEPT ![Head(q)] = "failed"]
       \/ /\ q # <<>> /\ control = "free"
          /\ at' = "dispatching" /\ current' = Head(q)
          /\ receipt' = [receipt EXCEPT ![Head(q)] = "dispatching"]

\* The loop goes on with what is queued, or with what is left after a shift.
Turn ==
    /\ \/ at = "idle" /\ TurnTo(queue)
       \/ at \in {"dispatching", "driver", "eof"} /\ ~StillMine /\ TurnTo(queue)
       \/ at \in {"settle", "revoked"} /\ TurnTo(Shifted)
    /\ UNCHANGED <<control, epoch, opEpoch, entering, historyVars>>

\* The driver's answer is noted for the operation at the head of the queue.
Hold ==
    /\ at \in {"dispatching", "driver", "eof"} /\ StillMine
    /\ \/ at = "driver" /\ at' = "eof" /\ UNCHANGED receipt
       \/ at' = "unknown" /\ receipt' = [receipt EXCEPT ![current] = "unknown"]
       \/ at' = "settle"
          /\ \E final \in {"completed", "failed"} : receipt' = [receipt EXCEPT ![current] = final]
    /\ UNCHANGED <<control, queueVars, current, entering, historyVars>>

\* Steps the queue does not see, but for the loss of control.
Quiet ==
    /\ control' \in {control, "closed"}
    /\ UNCHANGED <<queueVars, receipt, entering, at, current, historyVars>>

\* The loop drops nothing when every queued operation carries the epoch.
LEMMA FreshQueue ==
    ASSUME NEW q \in Seq(Op), \A i \in DOMAIN q : opEpoch[q[i]] = epoch
    PROVE  Fresh(q) = q
<1>1. CASE q = <<>>
  BY <1>1 DEF Fresh
<1>2. CASE q # <<>>
  <2> DEFINE first(i) == /\ opEpoch[q[i]] = epoch
                         /\ \A j \in 1..(i - 1) : ~(opEpoch[q[j]] = epoch)
  <2>1. 1 \in DOMAIN q /\ first(1)
    BY <1>2
  <2>2. \A i \in DOMAIN q : first(i) => i = 1
    BY <1>2
  <2>3. (CHOOSE i \in DOMAIN q : first(i)) = 1
    BY <2>1, <2>2
  <2>4. SubSeq(q, 1, Len(q)) = q
    OBVIOUS
  <2> QED
    BY <2>1, <2>3, <2>4 DEF Fresh
<1> QED
  BY <1>1, <1>2

\* What is left after a shift is typed and in epoch like the queue.
LEMMA ShiftedQueue ==
    ASSUME TypeOK
    PROVE  /\ Shifted \in Seq(Op)
           /\ \A i \in DOMAIN Shifted : opEpoch[Shifted[i]] = epoch
           /\ queue # <<>> => /\ Len(Shifted) = Len(queue) - 1
                              /\ \A i \in DOMAIN Shifted : i + 1 \in DOMAIN queue /\ Shifted[i] = queue[i + 1]
  BY DEF TypeOK, Shifted

LEMMA LoopTurns ==
    ASSUME TypeOK, NEW q \in {queue, Shifted}, Loop(q)
    PROVE  TurnTo(q)
<1>1. Fresh(q) = q
  BY FreshQueue, ShiftedQueue DEF TypeOK
<1> QED
  BY <1>1 DEF Loop, TurnTo

\* Every step is one of those the lemmas below look at.
LEMMA QueueSteps ==
    ASSUME TypeOK, [Next]_vars
    PROVE  \/ \E o \in Op : Enqueue(o) \/ Push(o)
           \/ Turn \/ Hold \/ CallDriver \/ QuarantineBegins \/ QuarantineEnds \/ Stop \/ Quiet
<1> USE DEF queueVars, historyVars, procVars
<1>1. ASSUME NEW o \in Op, Wake(o)
      PROVE  Turn \/ Quiet
  BY <1>1, LoopTurns DEF Wake, Turn, Quiet
<1>2. CASE DriverReturns
  BY <1>2, LoopTurns DEF DriverReturns, Turn, Hold
<1>3. CASE DriverFails
  BY <1>3, LoopTurns DEF DriverFails, Fail, Turn, Hold
<1>4. CASE EofPersisted
  BY <1>4, LoopTurns DEF EofPersisted, Turn, Hold
<1>5. CASE Settled
  BY <1>5, LoopTurns DEF Settled, Turn
<1>6. CASE Spawned \/ Exit \/ OutputClosed \/ Fault \/ UNCHANGED vars
  BY <1>6 DEF Spawned, Exit, OutputClosed, Fault, vars, Quiet
<1> QED
  BY <1>1, <1>2, <1>3, <1>4, <1>5, <1>6 DEF Next, IdleTimeout

-----------------------------------------------------------------------------
(* Each part is kept by every step *)

LEMMA NextType == TypeOK /\ ControlInv /\ [Next]_vars => TypeOK'
<1> SUFFICES ASSUME TypeOK, ControlInv, [Next]_vars
             PROVE  TypeOK'
  OBVIOUS
<1> USE MaxEpochAssumption
    DEF TypeOK, ControlInv, Final, queueVars, historyVars, procVars
<1>1. /\ state' \in {"starting", "running", "stopping", "ended"}
      /\ {handle', inputClosed', idleTimer', outputOpen', evicted'} \subseteq BOOLEAN
      /\ wakes' \subseteq Op
  BY DEF Next, vars, Enqueue, Push, Wake, CallDriver, DriverReturns, DriverFails, EofPersisted,
         Settled, QuarantineBegins, QuarantineEnds, Spawned, Stop, IdleTimeout, Exit,
         OutputClosed, Fault, Evict, Live
<1> DEFINE Queued ==
      /\ epoch \in 0..(MaxEpoch + 1)
      /\ queue \in Seq(Op)
      /\ opEpoch \in [Op -> 0..epoch]
      /\ \A k \in DOMAIN queue : opEpoch[queue[k]] = epoch
    Loops ==
      /\ control \in {"free", "quarantined", "closed"}
      /\ receipt \in [Op -> {"none", "queued", "dispatching"} \cup Final]
      /\ entering \subseteq Op
      /\ at \in {"idle", "revoked", "dispatching", "driver", "eof", "settle",
                 "unknown", "quarantine"}
      /\ current \in Op
    Histories ==
      pushed \in Seq(Op) /\ delivered \in Seq(Op) /\ freeCount \in 0..Len(delivered)
<1>2. ASSUME NEW o \in Op, Enqueue(o)
      PROVE  (Queued /\ Loops /\ Histories)'
  <2>1. Queued'
    BY <1>2 DEF Enqueue
  <2>2. Loops'
    BY <1>2 DEF Enqueue
  <2>3. Histories'
    BY <1>2 DEF Enqueue
  <2> QED
    BY <2>1, <2>2, <2>3
<1>3. ASSUME NEW o \in Op, Push(o)
      PROVE  (Queued /\ Loops /\ Histories)'
  <2>1. Queued'
    <3>1. queue' = Append(queue, o) /\ opEpoch' = [opEpoch EXCEPT ![o] = epoch]
          /\ epoch' = epoch
      BY <1>3 DEF Push
    <3>2. opEpoch' \in [Op -> 0..epoch] /\ queue' \in Seq(Op)
      BY <3>1
    <3>3. ASSUME NEW k \in DOMAIN queue'
          PROVE  opEpoch'[queue'[k]] = epoch
      <4>1. CASE k \in DOMAIN queue
        <5>1. queue'[k] = queue[k] /\ queue[k] \in Op
          BY <3>1, <4>1
        <5> QED
          BY <3>1, <4>1, <5>1
      <4>2. CASE k \notin DOMAIN queue
        <5>1. queue'[k] = o
          BY <3>1, <4>2
        <5> QED
          BY <3>1, <5>1
      <4> QED
        BY <4>1, <4>2
    <3> QED
      BY <3>1, <3>2, <3>3
  <2>2. Loops'
    BY <1>3 DEF Push
  <2>3. Histories'
    BY <1>3 DEF Push
  <2> QED
    BY <2>1, <2>2, <2>3
<1>4. ASSUME Turn
      PROVE  (Queued /\ Loops /\ Histories)'
  <2>1. Queued'
    BY <1>4, ShiftedQueue DEF Turn, TurnTo
  <2>2. Loops'
    <3>1. PICK q \in {queue, Shifted} : TurnTo(q)
      BY <1>4 DEF Turn
    <3>2. q \in Seq(Op) /\ (q # <<>> => Head(q) \in Op)
      BY ShiftedQueue
    <3>3. control' \in {"free", "quarantined", "closed"} /\ entering' \subseteq Op
      BY <1>4 DEF Turn
    <3>4. receipt' \in [Op -> {"none", "queued", "dispatching"} \cup Final]
      BY <3>1, <3>2 DEF TurnTo
    <3> QED
      BY <3>1, <3>2, <3>3, <3>4 DEF TurnTo
  <2>3. Histories'
    BY <1>4, ShiftedQueue DEF Turn, TurnTo
  <2> QED
    BY <2>1, <2>2, <2>3
<1>5. ASSUME Hold
      PROVE  (Queued /\ Loops /\ Histories)'
  <2>1. Queued'
    BY <1>5 DEF Hold
  <2>2. Loops'
    BY <1>5 DEF Hold
  <2>3. Histories'
    BY <1>5 DEF Hold
  <2> QED
    BY <2>1, <2>2, <2>3
<1>6. ASSUME CallDriver
      PROVE  (Queued /\ Loops /\ Histories)'
  <2>1. Queued'
    BY <1>6 DEF CallDriver
  <2>2. Loops'
    BY <1>6 DEF CallDriver
  <2>3. Histories'
    BY <1>6 DEF CallDriver
  <2> QED
    BY <2>1, <2>2, <2>3
<1>7. ASSUME QuarantineBegins
      PROVE  (Queued /\ Loops /\ Histories)'
  <2>1. Queued'
    <3>1. CASE control = "free"
      BY <1>7, <3>1 DEF QuarantineBegins, Takeover
    <3>2. CASE control # "free"
      BY <1>7, <3>2, ShiftedQueue DEF QuarantineBegins
    <3> QED
      BY <3>1, <3>2
  <2>2. Loops'
    BY <1>7, ShiftedQueue DEF QuarantineBegins, Takeover
  <2>3. Histories'
    BY <1>7, ShiftedQueue DEF QuarantineBegins, Takeover
  <2> QED
    BY <2>1, <2>2, <2>3
<1>8. ASSUME QuarantineEnds
      PROVE  (Queued /\ Loops /\ Histories)'
  <2>1. Queued'
    BY <1>8 DEF QuarantineEnds
  <2>2. Loops'
    BY <1>8 DEF QuarantineEnds
  <2>3. Histories'
    BY <1>8 DEF QuarantineEnds
  <2> QED
    BY <2>1, <2>2, <2>3
<1>9. ASSUME Stop
      PROVE  (Queued /\ Loops /\ Histories)'
  <2>1. Queued'
    BY <1>9 DEF Stop, Takeover
  <2>2. Loops'
    BY <1>9 DEF Stop, Takeover
  <2>3. Histories'
    BY <1>9 DEF Stop, Takeover
  <2> QED
    BY <2>1, <2>2, <2>3
<1>10. ASSUME Quiet
      PROVE  (Queued /\ Loops /\ Histories)'
  <2>1. Queued'
    BY <1>10 DEF Quiet
  <2>2. Loops'
    BY <1>10 DEF Quiet
  <2>3. Histories'
    BY <1>10 DEF Quiet
  <2> QED
    BY <2>1, <2>2, <2>3
<1>11. (Queued /\ Loops /\ Histories)'
  BY <1>2, <1>3, <1>4, <1>5, <1>6, <1>7, <1>8, <1>9, <1>10, QueueSteps
<1> QED
  BY <1>1, <1>11

\* A queued operation was pushed, and what has left the queue comes before it.
LEMMA QueuedIsPushed ==
    ASSUME TypeOK, QueueInv, NEW k \in DOMAIN queue
    PROVE  /\ Gone \in Nat /\ Gone + k \in DOMAIN pushed /\ queue[k] = pushed[Gone + k]
           /\ \A o \in Op : Removed(o) => Before(o, queue[k])
<1>1. Gone \in Nat /\ Gone + k \in DOMAIN pushed /\ queue[k] = pushed[Gone + k]
  BY DEF TypeOK, QueueInv, Gone
<1>2. ASSUME NEW o \in Op, Removed(o)
      PROVE  Before(o, queue[k])
  <2>1. PICK m \in 1..Gone : pushed[m] = o
    BY <1>2 DEF Removed
  <2>2. m \in DOMAIN pushed /\ m < Gone + k
    BY <1>1 DEF TypeOK
  <2> QED
    BY <1>1, <2>1, <2>2 DEF Before
<1> QED
  BY <1>1, <1>2

\* A suffix of the queue, which a shift or nothing has shortened.
IsRest(q) ==
    /\ q \in Seq(Op)
    /\ \E d \in {0, 1} :
          /\ Len(q) = Len(queue) - d
          /\ \A i \in DOMAIN q : i + d \in DOMAIN queue /\ q[i] = queue[i + d]

LEMMA ShiftedIsRest ==
    ASSUME TypeOK
    PROVE  IsRest(queue) /\ IsRest(Shifted)
<1>1. IsRest(queue)
  BY DEF IsRest, TypeOK
<1>2. CASE queue = <<>>
  BY <1>1, <1>2 DEF Shifted
<1>3. CASE queue # <<>>
  <2>1. /\ Shifted \in Seq(Op) /\ Len(Shifted) = Len(queue) - 1
        /\ \A i \in DOMAIN Shifted : i + 1 \in DOMAIN queue /\ Shifted[i] = queue[i + 1]
    BY <1>3, ShiftedQueue
  <2>2. 1 \in {0, 1}
    OBVIOUS
  <2>3. IsRest(Shifted)
    BY <2>1, <2>2 DEF IsRest
  <2> QED
    BY <1>1, <2>3
<1> QED
  BY <1>1, <1>2, <1>3

\* Appending adds one place at the end.
LEMMA AppendAdds ==
    ASSUME NEW S, NEW s \in Seq(S), NEW e \in S, NEW t, t = Append(s, e)
    PROVE  /\ Len(t) = Len(s) + 1 /\ t \in Seq(S)
           /\ \A m \in DOMAIN s : m \in DOMAIN t /\ t[m] = s[m]
           /\ t[Len(s) + 1] = e
           /\ DOMAIN t = DOMAIN s \cup {Len(s) + 1}
  OBVIOUS

\* Pushing adds one operation at the end of the queue and of the history.
LEMMA PushAppends ==
    ASSUME TypeOK, NEW o \in Op, Push(o)
    PROVE  /\ Len(pushed') = Len(pushed) + 1 /\ pushed' \in Seq(Op)
           /\ \A m \in DOMAIN pushed : m \in DOMAIN pushed' /\ pushed'[m] = pushed[m]
           /\ pushed'[Len(pushed) + 1] = o
           /\ Len(queue') = Len(queue) + 1 /\ queue' \in Seq(Op)
           /\ \A m \in DOMAIN queue : m \in DOMAIN queue' /\ queue'[m] = queue[m]
           /\ queue'[Len(queue) + 1] = o
           /\ DOMAIN pushed' = DOMAIN pushed \cup {Len(pushed) + 1}
           /\ DOMAIN queue' = DOMAIN queue \cup {Len(queue) + 1}
<1>1. pushed' = Append(pushed, o) /\ queue' = Append(queue, o)
  BY DEF Push
<1>2. pushed \in Seq(Op) /\ queue \in Seq(Op)
  BY DEF TypeOK
<1> QED
  BY <1>1, <1>2, AppendAdds

LEMMA NextPush == TypeOK /\ PushInv /\ QueueInv /\ [Next]_vars => PushInv'
<1> SUFFICES ASSUME TypeOK, PushInv, QueueInv, [Next]_vars
             PROVE  PushInv'
  OBVIOUS
<1>0. /\ pushed \in Seq(Op) /\ queue \in Seq(Op) /\ entering \subseteq Op /\ current \in Op
      /\ receipt \in [Op -> {"none", "queued", "dispatching"} \cup Final]
  BY DEF TypeOK
<1> USE <1>0 DEF PushInv, Final, queueVars, historyVars, procVars
<1>1. ASSUME NEW o \in Op, Enqueue(o)
      PROVE  PushInv'
  BY <1>1 DEF Enqueue
<1>2. ASSUME NEW o \in Op, Push(o)
      PROVE  PushInv'
  <2>1. /\ o \in entering /\ entering' = entering \ {o} /\ UNCHANGED receipt
        /\ receipt[o] # "none" /\ \A m \in DOMAIN pushed : pushed[m] # o
    BY <1>2 DEF Push
  <2>2. \A m, n \in DOMAIN pushed' : pushed'[m] = pushed'[n] => m = n
    BY <2>1, <1>2, PushAppends
  <2>3. \A m \in DOMAIN pushed' : receipt'[pushed'[m]] # "none" /\ pushed'[m] \notin entering'
    BY <2>1, <1>2, PushAppends
  <2> QED
    BY <2>1, <2>2, <2>3
<1>3. CASE Turn
  <2>1. PICK q \in {queue, Shifted} : TurnTo(q)
    BY <1>3 DEF Turn
  <2>2. q # <<>> => \E k \in DOMAIN queue : Head(q) = queue[k]
    BY ShiftedIsRest DEF IsRest
  <2>3. q # <<>> => Head(q) \in Op /\ Head(q) \notin entering
    BY <2>2, QueuedIsPushed
  <2>4. UNCHANGED <<entering, pushed>>
    BY <1>3 DEF Turn
  <2>5. /\ \A o \in entering : receipt'[o] = receipt[o]
        /\ \A o \in Op : receipt'[o] # receipt[o] => receipt'[o] # "none"
    BY <2>1, <2>3 DEF TurnTo
  <2> QED
    BY <2>4, <2>5
<1>4. CASE Hold
  BY <1>4, QueuedIsPushed DEF Hold, StillMine
<1>5. CASE CallDriver \/ QuarantineEnds \/ Quiet
  BY <1>5 DEF CallDriver, QuarantineEnds, Quiet
<1>6. CASE QuarantineBegins
  <2>1. CASE control # "free"
    BY <1>6, <2>1 DEF QuarantineBegins
  <2>2. CASE control = "free"
    <3>1. \A k \in DOMAIN Shifted : \E n \in DOMAIN queue : Shifted[k] = queue[n]
      BY ShiftedIsRest DEF IsRest
    <3>2. \A k \in DOMAIN Shifted : Shifted[k] \notin entering
      BY <3>1, QueuedIsPushed
    <3> QED
      BY <1>6, <2>2, <3>2 DEF QuarantineBegins, Takeover
  <2> QED
    BY <2>1, <2>2
<1>7. CASE Stop
  BY <1>7, QueuedIsPushed DEF Stop, Takeover
<1> QED
  BY <1>1, <1>2, <1>3, <1>4, <1>5, <1>6, <1>7, QueueSteps

LEMMA NextQueue == TypeOK /\ QueueInv /\ [Next]_vars => QueueInv'
<1> SUFFICES ASSUME TypeOK, QueueInv, [Next]_vars
             PROVE  QueueInv'
  OBVIOUS
<1>0. pushed \in Seq(Op) /\ queue \in Seq(Op)
  BY DEF TypeOK
<1> USE <1>0 DEF Gone, queueVars, historyVars, procVars
<1>1. ASSUME NEW o \in Op, Enqueue(o)
      PROVE  QueueInv'
  BY <1>1 DEF Enqueue, QueueInv
<1>2. ASSUME NEW o \in Op, Push(o)
      PROVE  QueueInv'
  <2>1. ASSUME NEW i \in DOMAIN queue'
        PROVE  queue'[i] = pushed'[Gone' + i]
    <3>1. Gone' = Gone
      <4>1. Len(pushed') = Len(pushed) + 1 /\ Len(queue') = Len(queue) + 1
        BY <1>2, PushAppends
      <4>2. Len(pushed) \in Nat /\ Len(queue) \in Nat
        OBVIOUS
      <4> QED
        BY <4>1, <4>2
    <3>2. CASE i \in DOMAIN queue
      BY <1>2, <3>1, <3>2, PushAppends, QueuedIsPushed
    <3>3. CASE i = Len(queue) + 1
      BY <1>2, <3>1, <3>3, PushAppends
    <3> QED
      BY <1>2, <3>2, <3>3, PushAppends
  <2> QED
    BY <1>2, <2>1, PushAppends DEF QueueInv
<1>3. CASE Turn
  <2>1. PICK q \in {queue, Shifted} : queue' = q
    BY <1>3 DEF Turn, TurnTo
  <2>2. pushed' = pushed
    BY <1>3 DEF Turn
  <2> QED
    BY <2>1, <2>2, ShiftedIsRest DEF QueueInv, IsRest
<1>4. CASE Hold
  BY <1>4 DEF Hold, QueueInv
<1>5. CASE CallDriver \/ QuarantineEnds \/ Quiet
  BY <1>5 DEF QueueInv, CallDriver, QuarantineEnds, Quiet
<1>6. CASE QuarantineBegins
  <2>1. queue' \in {<<>>, Shifted} /\ pushed' = pushed
    BY <1>6 DEF QuarantineBegins, Takeover
  <2> QED
    BY <2>1, ShiftedIsRest DEF QueueInv, IsRest
<1>7. CASE Stop
  BY <1>7 DEF QueueInv, Stop, Takeover
<1> QED
  BY <1>1, <1>2, <1>3, <1>4, <1>5, <1>6, <1>7, QueueSteps

LEMMA NextControl == TypeOK /\ ControlInv /\ [Next]_vars => ControlInv'
<1> SUFFICES ASSUME TypeOK, ControlInv, [Next]_vars
             PROVE  ControlInv'
  OBVIOUS
<1> USE DEF TypeOK, ControlInv, queueVars, historyVars, procVars
<1>1. ASSUME NEW o \in Op, Enqueue(o) \/ Push(o)
      PROVE  ControlInv'
  BY <1>1 DEF Enqueue, Push
<1>2. CASE Turn \/ Hold
  BY <1>2 DEF Turn, TurnTo, Hold
<1>3. CASE CallDriver
  BY <1>3 DEF CallDriver
<1>4. CASE QuarantineBegins \/ QuarantineEnds \/ Stop \/ Quiet
  BY <1>4 DEF QuarantineBegins, QuarantineEnds, Stop, Quiet, Takeover
<1> QED
  BY <1>1, <1>2, <1>3, <1>4, QueueSteps

LEMMA NextAfterControl ==
    TypeOK /\ ControlInv /\ AtMostOneAfterControl /\ [Next]_vars => AtMostOneAfterControl'
<1> SUFFICES ASSUME TypeOK, ControlInv, AtMostOneAfterControl, [Next]_vars
             PROVE  AtMostOneAfterControl'
  OBVIOUS
<1> USE DEF TypeOK, ControlInv, AtMostOneAfterControl, queueVars, historyVars, procVars
<1>1. ASSUME NEW o \in Op, Enqueue(o) \/ Push(o)
      PROVE  AtMostOneAfterControl'
  BY <1>1 DEF Enqueue, Push
<1>2. CASE CallDriver
  BY <1>2 DEF CallDriver
<1>3. CASE Turn \/ Hold \/ QuarantineBegins \/ QuarantineEnds \/ Stop \/ Quiet
  BY <1>3 DEF Turn, Hold, QuarantineBegins, QuarantineEnds, Stop, Quiet
<1> QED
  BY <1>1, <1>2, <1>3, QueueSteps

LEMMA NextUnknown == TypeOK /\ UnknownInv /\ [Next]_vars => UnknownInv'
<1> SUFFICES ASSUME TypeOK, UnknownInv, [Next]_vars
             PROVE  UnknownInv'
  OBVIOUS
<1> USE DEF TypeOK, UnknownInv, queueVars, historyVars, procVars
<1>1. ASSUME NEW o \in Op, Enqueue(o) \/ Push(o)
      PROVE  UnknownInv'
  BY <1>1 DEF Enqueue, Push
<1>2. CASE Turn
  BY <1>2 DEF Turn, TurnTo
<1>3. CASE Hold
  BY <1>3 DEF Hold
<1>4. CASE CallDriver \/ QuarantineEnds \/ Quiet
  BY <1>4 DEF CallDriver, QuarantineEnds, Quiet
<1>5. CASE QuarantineBegins \/ Stop
  BY <1>5 DEF QuarantineBegins, Stop, Takeover
<1> QED
  BY <1>1, <1>2, <1>3, <1>4, <1>5, QueueSteps

\* The queue changes at its end by a push, and else by losing its head or all.
LEMMA QueueChanges ==
    ASSUME TypeOK, [Next]_vars
    PROVE  \/ \E o \in Op : Push(o)
           \/ queue' \in {queue, Shifted, <<>>} /\ pushed' = pushed
<1> USE DEF queueVars, historyVars, procVars
<1>1. ASSUME NEW o \in Op, Enqueue(o)
      PROVE  queue' = queue /\ pushed' = pushed
  BY <1>1 DEF Enqueue
<1>2. CASE Turn \/ Hold \/ CallDriver \/ QuarantineEnds \/ Quiet
  BY <1>2 DEF Turn, TurnTo, Hold, CallDriver, QuarantineEnds, Quiet
<1>3. CASE QuarantineBegins \/ Stop
  BY <1>3 DEF QuarantineBegins, Stop, Takeover
<1> QED
  BY <1>1, <1>2, <1>3, QueueSteps

\* What has left the queue stays out, the order of the pushes stands, and the
\* head of the queue stays first or leaves.
LEMMA HistoryGrows ==
    ASSUME TypeOK, QueueInv, [Next]_vars
    PROVE  /\ \A o : Removed(o) => Removed(o)'
           /\ \A o, p : Before(o, p) => Before(o, p)'
           /\ queue # <<>> => \A o : o = Head(queue) => \/ Removed(o)'
                                                        \/ queue' # <<>> /\ Head(queue') = o
           /\ queue # <<>> /\ queue' \in {Shifted, <<>>} /\ pushed' = pushed =>
                 \A o : o = Head(queue) => Removed(o)'
<1>0. /\ pushed \in Seq(Op) /\ queue \in Seq(Op) /\ Gone \in Nat
      /\ Len(pushed) = Gone + Len(queue) /\ Len(queue) \in Nat
  BY DEF TypeOK, QueueInv, Gone
<1>1. ASSUME NEW o \in Op, Push(o)
      PROVE  /\ Gone' = Gone
             /\ \A m \in DOMAIN pushed : m \in DOMAIN pushed' /\ pushed'[m] = pushed[m]
             /\ queue # <<>> => queue' # <<>> /\ Head(queue') = Head(queue)
             /\ pushed' # pushed
  <2>1. Gone' = Gone
    BY <1>0, <1>1, PushAppends DEF Gone
  <2>2. queue # <<>> => queue' # <<>> /\ Head(queue') = Head(queue)
    BY <1>0, <1>1, PushAppends
  <2>3. pushed' # pushed
    BY <1>0, <1>1, PushAppends
  <2> QED
    BY <1>1, <2>1, <2>2, <2>3, PushAppends
<1>2. ASSUME queue' \in {queue, Shifted, <<>>}, pushed' = pushed
      PROVE  /\ Gone' \in Nat /\ Gone <= Gone'
             /\ queue # <<>> => queue' = queue \/ Gone < Gone'
             /\ queue # <<>> /\ queue' \in {Shifted, <<>>} => Gone < Gone'
  <2>1. CASE queue' = queue
    <3>1. queue # <<>> => Shifted # queue
      BY ShiftedQueue, <1>0
    <3> QED
      BY <1>0, <1>2, <2>1, <3>1 DEF Gone
  <2>2. CASE queue' = <<>>
    BY <1>0, <1>2, <2>2 DEF Gone
  <2>3. CASE queue' = Shifted /\ queue # <<>>
    BY <1>0, <1>2, <2>3, ShiftedQueue DEF Gone
  <2>4. CASE queue' = Shifted /\ queue = <<>>
    BY <1>0, <1>2, <2>4 DEF Gone, Shifted
  <2> QED
    BY <1>2, <2>1, <2>2, <2>3, <2>4
<1>3. queue # <<>> => 1 + Gone \in DOMAIN pushed /\ pushed[1 + Gone] = Head(queue)
  BY <1>0, QueuedIsPushed
<1>4. ASSUME NEW o \in Op, Push(o)
      PROVE  /\ \A x : Removed(x) => Removed(x)'
             /\ \A x, p : Before(x, p) => Before(x, p)'
  <2>1. 1..Gone \subseteq DOMAIN pushed
    BY <1>0
  <2> QED
    BY <1>1, <1>4, <2>1 DEF Removed, Before
<1>5. ASSUME queue' \in {queue, Shifted, <<>>}, pushed' = pushed
      PROVE  /\ \A x : Removed(x) => Removed(x)'
             /\ \A x, p : Before(x, p) => Before(x, p)'
  BY <1>0, <1>2, <1>5 DEF Removed, Before
<1>6. ASSUME queue' \in {queue, Shifted, <<>>}, pushed' = pushed, queue # <<>>, Gone < Gone',
             NEW o, o = Head(queue)
      PROVE  Removed(o)'
  <2>1. 1 + Gone \in 1..Gone' /\ pushed'[1 + Gone] = o
    BY <1>0, <1>2, <1>3, <1>6
  <2> QED
    BY <2>1, <1>6 DEF Removed
<1> QED
  BY <1>1, <1>2, <1>4, <1>5, <1>6, QueueChanges

LEMMA NextCurrent == TypeOK /\ QueueInv /\ CurrentInv /\ [Next]_vars => CurrentInv'
<1> SUFFICES ASSUME TypeOK, QueueInv, CurrentInv, [Next]_vars
             PROVE  CurrentInv'
  OBVIOUS
<1> USE DEF queueVars, historyVars, procVars
<1>1. CASE Turn
  BY <1>1 DEF Turn, TurnTo, CurrentInv, AtHead
<1>2. ASSUME current' = current,
             at \in {"idle", "quarantine"} => at' \in {"idle", "quarantine"}
      PROVE  CurrentInv'
  <2>1. Removed(current) \/ AtHead => \A o : o = current => Removed(o)' \/ (queue' # <<>> /\ Head(queue') = o)
    BY HistoryGrows DEF AtHead
  <2>2. \A o : o = current => (Removed(o)' => Removed(current)')
    BY <1>2 DEF Removed
  <2> QED
    BY <1>2, <2>1, <2>2 DEF CurrentInv, AtHead
<1>3. ASSUME NEW o \in Op, Enqueue(o) \/ Push(o)
      PROVE  CurrentInv'
  BY <1>2, <1>3 DEF Enqueue, Push
<1>4. CASE Hold \/ CallDriver \/ QuarantineEnds \/ QuarantineBegins \/ Stop \/ Quiet
  BY <1>2, <1>4 DEF Hold, CallDriver, QuarantineEnds, QuarantineBegins, Stop, Quiet
<1> QED
  BY <1>1, <1>3, <1>4, QueueSteps

LEMMA NextDelivered ==
    TypeOK /\ QueueInv /\ CurrentInv /\ DeliveredInv /\ DeliveredInOrder /\ [Next]_vars
        => DeliveredInv' /\ DeliveredInOrder'
<1> SUFFICES ASSUME TypeOK, QueueInv, CurrentInv, DeliveredInv, DeliveredInOrder, [Next]_vars
             PROVE  DeliveredInv' /\ DeliveredInOrder'
  OBVIOUS
<1> USE DEF queueVars, historyVars, procVars
<1>0. /\ delivered \in Seq(Op) /\ QueueInv'
      /\ \A o : Removed(o) => Removed(o)'
      /\ \A o, p : Before(o, p) => Before(o, p)'
  BY HistoryGrows, NextQueue DEF TypeOK
<1> DEFINE WasRemoved(o) == \E m \in 1..Gone' : pushed'[m] = o
           WasBefore(o, p) == \E m, n \in DOMAIN pushed' : m < n /\ pushed'[m] = o /\ pushed'[n] = p
<1>a. /\ \A o : Removed(o) => WasRemoved(o)
      /\ \A o, p : Before(o, p) => WasBefore(o, p)
  BY <1>0 DEF Removed, Before
<1>b. DeliveredInOrder' <=> \A i, j \in DOMAIN delivered' :
                               i < j => WasBefore(delivered'[i], delivered'[j])
  BY DEF DeliveredInOrder
<1>c. DeliveredInv' <=>
      /\ \A i \in DOMAIN delivered' :
            \/ WasRemoved(delivered'[i])
            \/ at' \in {"driver", "eof", "settle", "unknown"} /\ delivered'[i] = current'
      /\ at' = "dispatching" => \A i \in DOMAIN delivered' : WasBefore(delivered'[i], current')
  BY DEF DeliveredInv, Removed, Before
<1>d. DeliveredInOrder <=> \A i, j \in DOMAIN delivered :
                               i < j => Before(delivered[i], delivered[j])
  BY DEF DeliveredInOrder, Before
<1> HIDE DEF WasRemoved, WasBefore
<1>1. ASSUME delivered' = delivered
      PROVE  DeliveredInOrder'
  BY <1>a, <1>b, <1>d, <1>1
<1>2. ASSUME delivered' = delivered, at' # "dispatching", current' = current,
             \/ at \notin {"driver", "eof", "settle", "unknown"}
             \/ at' \in {"driver", "eof", "settle", "unknown"}
             \/ WasRemoved(current)
      PROVE  DeliveredInv'
  BY <1>a, <1>c, <1>2 DEF DeliveredInv
<1>3. ASSUME delivered' = delivered, UNCHANGED <<at, current>>
      PROVE  DeliveredInv'
  BY <1>a, <1>c, <1>3 DEF DeliveredInv
<1>4. ASSUME NEW o \in Op, Enqueue(o) \/ Push(o)
      PROVE  DeliveredInv' /\ DeliveredInOrder'
  BY <1>1, <1>3, <1>4 DEF Enqueue, Push
<1>5. CASE Stop \/ Quiet
  BY <1>1, <1>3, <1>5 DEF Stop, Quiet
<1>6. CASE Hold \/ QuarantineEnds
  BY <1>1, <1>2, <1>6 DEF Hold, QuarantineEnds
<1>7. CASE QuarantineBegins
  <2>1. queue' \in {Shifted, <<>>} /\ pushed' = pushed /\ current' = current
    BY <1>7 DEF QuarantineBegins, Takeover
  <2>2. \A o : o = current => Removed(o)'
    BY <1>0, <1>7, <2>1, HistoryGrows DEF CurrentInv, AtHead, QuarantineBegins
  <2>3. WasRemoved(current)
    BY <2>2 DEF Removed, WasRemoved
  <2> QED
    BY <1>1, <1>2, <1>7, <2>1, <2>3 DEF QuarantineBegins
<1>8. CASE CallDriver
  <2>1. /\ at = "dispatching" /\ at' = "driver" /\ current' = current
        /\ delivered' = Append(delivered, current)
    BY <1>8 DEF CallDriver
  <2>2. \A i \in DOMAIN delivered' :
           (i \in DOMAIN delivered /\ delivered'[i] = delivered[i]) \/ delivered'[i] = current
    BY <1>0, <2>1
  <2>3. DeliveredInv'
    BY <1>a, <1>c, <2>1, <2>2 DEF DeliveredInv
  <2>4. ASSUME NEW i \in DOMAIN delivered', NEW j \in DOMAIN delivered', i < j
        PROVE  /\ i \in DOMAIN delivered /\ delivered'[i] = delivered[i]
               /\ (j \in DOMAIN delivered /\ delivered'[j] = delivered[j]) \/ delivered'[j] = current
    BY <1>0, <2>1, <2>4
  <2>5. \A i \in DOMAIN delivered : Before(delivered[i], current)
    BY <2>1 DEF DeliveredInv
  <2>6. ASSUME NEW i \in DOMAIN delivered', NEW j \in DOMAIN delivered', i < j
        PROVE  WasBefore(delivered'[i], delivered'[j])
    BY <1>a, <1>d, <2>4, <2>5, <2>6
  <2> QED
    BY <1>b, <2>3, <2>6
<1>9. CASE Turn
  <2>1. delivered' = delivered /\ at' \in {"idle", "revoked", "dispatching"} /\ pushed' = pushed
    BY <1>9 DEF Turn, TurnTo
  <2>2. \/ at \in {"dispatching", "driver", "eof"} /\ ~StillMine
        \/ at \in {"settle", "revoked"} /\ queue' = Shifted
        \/ at = "idle"
    BY <1>9 DEF Turn, TurnTo
  <2>3. StillMine <=> AtHead
    BY <1>0 DEF StillMine, AtHead, TypeOK
  <2>4. at \in {"driver", "eof", "settle"} => \A o : o = current => Removed(o) \/ Removed(o)'
    BY <2>1, <2>2, <2>3, HistoryGrows DEF CurrentInv, AtHead
  <2>5. at \in {"driver", "eof", "settle"} => WasRemoved(current)
    BY <1>a, <2>4 DEF Removed, WasRemoved
  <2>6. \A i \in DOMAIN delivered : WasRemoved(delivered[i])
    BY <1>a, <2>2, <2>5 DEF DeliveredInv
  <2>7. ASSUME at' = "dispatching", NEW i \in DOMAIN delivered
        PROVE  WasBefore(delivered[i], current')
    <3>1. queue' # <<>> /\ current' = Head(queue') /\ queue' \in Seq(Op) /\ pushed' \in Seq(Op)
      BY <1>9, <2>1, <2>7, ShiftedQueue DEF Turn, TurnTo, TypeOK
    <3>2. Gone' \in Nat /\ Len(pushed') = Gone' + Len(queue') /\ pushed'[Gone' + 1] = current'
      BY <1>0, <3>1 DEF QueueInv, Gone
    <3>3. Gone' + 1 \in DOMAIN pushed' /\ 1..Gone' \subseteq DOMAIN pushed'
      <4>1. Len(queue') \in Nat \ {0} /\ Len(pushed') \in Nat
        BY <3>1
      <4>2. DOMAIN pushed' = 1..Len(pushed')
        BY <3>1
      <4>3. ASSUME NEW len \in Nat \ {0}, NEW gone \in Nat, NEW all \in Nat, all = gone + len
            PROVE  gone + 1 \in 1..all /\ 1..gone \subseteq 1..all
        BY <4>3
      <4> QED
        BY <3>2, <4>1, <4>2, <4>3
    <3>4. PICK m \in 1..Gone' : pushed'[m] = delivered[i]
      BY <2>6 DEF WasRemoved
    <3>5. m < Gone' + 1
      <4>1. ASSUME NEW gone \in Nat, NEW k \in 1..gone
            PROVE  k < gone + 1
        OBVIOUS
      <4> QED
        BY <3>2, <3>4, <4>1
    <3>6. m \in DOMAIN pushed'
      BY <3>3
    <3> QED
      BY <3>2, <3>3, <3>4, <3>5, <3>6 DEF WasBefore
  <2> QED
    BY <1>1, <1>c, <2>1, <2>6, <2>7
<1> QED
  BY <1>4, <1>5, <1>6, <1>7, <1>8, <1>9, QueueSteps

\* No operation is in the queue twice.
LEMMA QueuedOnce ==
    ASSUME TypeOK, PushInv, QueueInv, NEW i \in DOMAIN queue, NEW j \in DOMAIN queue,
           queue[i] = queue[j]
    PROVE  i = j
<1>1. /\ Gone \in Nat /\ i \in Nat /\ j \in Nat
      /\ Gone + i \in DOMAIN pushed /\ Gone + j \in DOMAIN pushed
      /\ pushed[Gone + i] = pushed[Gone + j]
  <2>1. i \in Nat /\ j \in Nat
    BY DEF TypeOK
  <2>2. Gone \in Nat /\ Gone + i \in DOMAIN pushed /\ pushed[Gone + i] = queue[i]
    BY QueuedIsPushed
  <2>3. Gone + j \in DOMAIN pushed /\ pushed[Gone + j] = queue[j]
    BY QueuedIsPushed
  <2> QED
    BY <2>1, <2>2, <2>3
<1>2. Gone + i = Gone + j
  BY <1>1 DEF PushInv
<1> QED
  BY <1>1, <1>2

\* What the loop turns to has no final receipt.
LEMMA TurnsToPending ==
    ASSUME TypeOK, ReceiptInv, Turn
    PROVE  \E q \in {queue, Shifted} :
              /\ TurnTo(q)
              /\ \A i \in DOMAIN q : receipt[q[i]] \in {"queued", "dispatching"}
<1>1. CASE at \in {"idle", "dispatching", "driver", "eof"} /\ TurnTo(queue)
  BY <1>1 DEF ReceiptInv
<1>2. CASE TurnTo(Shifted) /\ queue = <<>>
  <2>1. Shifted = <<>>
    BY <1>2 DEF Shifted
  <2> QED
    BY <1>2, <2>1
<1>3. CASE TurnTo(Shifted) /\ queue # <<>>
  <2>1. ASSUME NEW i \in DOMAIN Shifted
        PROVE  receipt[Shifted[i]] \in {"queued", "dispatching"}
    <3>1. i + 1 \in DOMAIN queue /\ Shifted[i] = queue[i + 1] /\ i + 1 # 1
      BY <1>3, ShiftedQueue
    <3> QED
      BY <3>1 DEF ReceiptInv
  <2> QED
    BY <1>3, <2>1
<1> QED
  BY <1>1, <1>2, <1>3 DEF Turn

LEMMA NextReceipts == TypeOK /\ PushInv /\ QueueInv /\ ReceiptInv /\ [Next]_vars => ReceiptInv'
<1> SUFFICES ASSUME TypeOK, PushInv, QueueInv, ReceiptInv, [Next]_vars
             PROVE  ReceiptInv'
  OBVIOUS
<1> USE DEF queueVars, historyVars, procVars
<1>0. /\ queue \in Seq(Op) /\ pushed \in Seq(Op) /\ current \in Op /\ entering \subseteq Op
      /\ receipt \in [Op -> {"none", "queued", "dispatching"} \cup Final]
  BY DEF TypeOK
<1>1. ASSUME NEW o \in Op, Enqueue(o)
      PROVE  ReceiptInv'
  BY <1>0, <1>1 DEF Enqueue, ReceiptInv
<1>2. ASSUME NEW o \in Op, Push(o)
      PROVE  ReceiptInv'
  <2>1. o \in entering /\ receipt[o] = "queued" /\ UNCHANGED <<receipt, at, current>>
    BY <1>2 DEF Push, PushInv
  <2> QED
    BY <1>2, <2>1, PushAppends DEF ReceiptInv
<1>3. CASE Turn
  <2>1. PICK q \in {queue, Shifted} :
           TurnTo(q) /\ \A i \in DOMAIN q : receipt[q[i]] \in {"queued", "dispatching"}
    BY <1>3, TurnsToPending
  <2>2. ASSUME NEW i \in DOMAIN q
        PROVE  q[i] \in Op /\ (q[i] = Head(q) => i = 1) /\ q # <<>>
    <3>1. q \in Seq(Op)
      BY ShiftedQueue, <1>0
    <3>2. PICK d \in {0, 1} : \A k \in DOMAIN q : k + d \in DOMAIN queue /\ q[k] = queue[k + d]
      BY ShiftedIsRest DEF IsRest
    <3>3. 1 \in DOMAIN q /\ Head(q) = q[1] /\ q[i] \in Op /\ i \in Nat
      BY <3>1
    <3>4. q[i] = q[1] => i + d = 1 + d
      BY <3>2, <3>3, QueuedOnce
    <3> QED
      BY <3>3, <3>4
  <2> QED
    BY <1>0, <2>1, <2>2 DEF TurnTo, ReceiptInv
<1>4. CASE Hold
  <2>1. /\ queue' = queue /\ queue # <<>> /\ Head(queue) = current /\ current' = current
        /\ \A i \in DOMAIN queue : receipt[queue[i]] \in {"queued", "dispatching"}
        /\ \/ UNCHANGED receipt
           \/ /\ at' \in {"settle", "unknown"}
              /\ \A o \in Op : o # current => receipt'[o] = receipt[o]
    BY <1>0, <1>4 DEF Hold, StillMine, ReceiptInv
  <2>2. ASSUME NEW i \in DOMAIN queue
        PROVE  queue[i] \in Op /\ (queue[i] = current => i = 1)
    <3>1. 1 \in DOMAIN queue /\ queue[1] = current
      BY <1>0, <2>1
    <3> QED
      BY <1>0, <3>1, QueuedOnce
  <2> QED
    BY <2>1, <2>2 DEF ReceiptInv
<1>5. CASE CallDriver \/ QuarantineEnds \/ Quiet
  BY <1>5 DEF CallDriver, QuarantineEnds, Quiet, ReceiptInv
<1>6. CASE QuarantineBegins
  <2>1. CASE queue' = <<>>
    BY <2>1 DEF ReceiptInv
  <2>2. CASE queue' = Shifted /\ queue = <<>>
    BY <2>2 DEF Shifted, ReceiptInv
  <2>3. CASE queue' = Shifted /\ queue # <<>> /\ UNCHANGED receipt
    <3>1. ASSUME NEW i \in DOMAIN Shifted
          PROVE  receipt[Shifted[i]] \in {"queued", "dispatching"}
      <4>1. i + 1 \in DOMAIN queue /\ Shifted[i] = queue[i + 1] /\ i + 1 # 1
        BY <2>3, ShiftedQueue
      <4> QED
        BY <4>1 DEF ReceiptInv
    <3> QED
      BY <2>3, <3>1 DEF ReceiptInv
  <2> QED
    BY <1>6, <2>1, <2>2, <2>3 DEF QuarantineBegins, Takeover
<1>7. CASE Stop
  BY <1>7 DEF Stop, Takeover, ReceiptInv
<1> QED
  BY <1>1, <1>2, <1>3, <1>4, <1>5, <1>6, <1>7, QueueSteps

\* A microtask that is due for an idle queue is used for a turn of the loop.
LEMMA WakesTurn ==
    ASSUME TypeOK, [Next]_vars, at = "idle", queue # <<>>
    PROVE  Turn \/ wakes \subseteq wakes'
<1> USE DEF queueVars, historyVars, procVars
<1>1. ASSUME NEW o \in Op, Wake(o)
      PROVE  Turn
  BY <1>1, LoopTurns DEF Wake, Turn
<1>2. ASSUME NEW o \in Op, Enqueue(o) \/ Push(o)
      PROVE  wakes \subseteq wakes'
  BY <1>2 DEF Enqueue, Push
<1>3. CASE UNCHANGED wakes
  BY <1>3
<1> QED
  BY <1>1, <1>2, <1>3 DEF Next, vars, CallDriver, DriverReturns, DriverFails, EofPersisted, Settled,
     QuarantineBegins, QuarantineEnds, Spawned, Stop, IdleTimeout, Exit, OutputClosed, Fault

\* The loop turns to what is left: nothing that waits has gone.
LEMMA TurnServes ==
    ASSUME TypeOK, ServedInv, Turn, control = "free"
    PROVE  ServedInv'
<1>1. /\ queue \in Seq(Op) /\ entering' = entering
      /\ receipt \in [Op -> {"none", "queued", "dispatching"} \cup Final]
  BY DEF TypeOK, Turn
<1>2. StillMine <=> AtHead
  BY <1>1 DEF StillMine, AtHead, TypeOK
<1>3. PICK q \in {queue, Shifted} :
         /\ TurnTo(q)
         /\ \/ q = queue
            \/ q = Shifted /\ AtHead /\ receipt[current] \in Final
  BY <1>2 DEF Turn, ServedInv
<1>4. ASSUME NEW o \in Op, receipt[o] \in {"queued", "dispatching"}, o \notin entering
      PROVE  \E i \in DOMAIN q : q[i] = o
  <2>1. PICK i \in DOMAIN queue : queue[i] = o
    BY <1>4 DEF ServedInv, InQueue
  <2>2. CASE q = Shifted /\ AtHead /\ receipt[current] \in Final
    <3>1. o # current /\ queue # <<>> /\ queue[1] = current /\ Shifted = Tail(queue)
      BY <1>1, <1>4, <2>2 DEF AtHead, Final, Shifted
    <3>2. i \in 1..Len(queue) /\ i # 1 /\ Len(queue) \in Nat
      BY <1>1, <2>1, <3>1
    <3>3. i - 1 \in DOMAIN Shifted /\ Shifted[i - 1] = queue[i]
      BY <1>1, <3>1, <3>2
    <3> QED
      BY <2>1, <2>2, <3>3
  <2> QED
    BY <1>3, <2>1, <2>2
<1>5. q \in Seq(Op) /\ (q # <<>> => Head(q) \in Op /\ 1 \in DOMAIN q /\ q[1] = Head(q))
  BY <1>1, ShiftedQueue
<1>6. \A o \in Op : receipt'[o] \in {"queued", "dispatching"} =>
                      o \in entering' \/ \E i \in DOMAIN queue' : queue'[i] = o
  BY <1>1, <1>3, <1>4, <1>5 DEF TurnTo
<1> QED
  BY <1>3, <1>6 DEF TurnTo, ServedInv, AtHead, InQueue

LEMMA NextServed == TypeOK /\ PushInv /\ ServedInv /\ [Next]_vars => ServedInv'
<1> SUFFICES ASSUME TypeOK, PushInv, ServedInv, [Next]_vars
             PROVE  ServedInv'
  OBVIOUS
<1> SUFFICES ASSUME control = "free", control' = "free"
             PROVE  ServedInv'
  <2>1. control' = control \/ control' \in {"quarantined", "closed"}
    BY QueueSteps DEF Enqueue, Push, procVars, Turn, Hold, CallDriver, QuarantineBegins,
                      QuarantineEnds, Stop, Quiet
  <2> QED
    BY <2>1 DEF ServedInv
<1> USE DEF queueVars, historyVars, procVars
<1>0. /\ queue \in Seq(Op) /\ current \in Op
      /\ receipt \in [Op -> {"none", "queued", "dispatching"} \cup Final]
  BY DEF TypeOK
<1>1. ASSUME NEW o \in Op, Enqueue(o)
      PROVE  ServedInv'
  BY <1>0, <1>1 DEF Enqueue, ServedInv, AtHead, InQueue, Final
<1>2. ASSUME NEW o \in Op, Push(o)
      PROVE  ServedInv'
  <2>1. /\ queue' = Append(queue, o) /\ entering' = entering \ {o} /\ wakes' = wakes \cup {o}
        /\ UNCHANGED <<receipt, at, current, control>>
    BY <1>2 DEF Push
  <2>2. /\ \A i \in DOMAIN queue : i \in DOMAIN queue' /\ queue'[i] = queue[i]
        /\ Len(queue) + 1 \in DOMAIN queue' /\ queue'[Len(queue) + 1] = o
        /\ queue # <<>> => queue' # <<>> /\ Head(queue') = Head(queue)
    BY <1>0, <2>1
  <2>3. \A p \in Op : InQueue(p) \/ p = o => InQueue(p)'
    BY <2>2 DEF InQueue
  <2> QED
    BY <2>1, <2>2, <2>3 DEF ServedInv, AtHead
<1>3. CASE Turn
  BY <1>3, TurnServes
<1>4. CASE Hold
  BY <1>0, <1>4 DEF Hold, ServedInv, AtHead, InQueue, Final
<1>5. CASE CallDriver
  BY <1>5 DEF CallDriver, ServedInv, AtHead, InQueue
<1>6. CASE QuarantineEnds \/ QuarantineBegins \/ Stop
  BY <1>6 DEF QuarantineEnds, QuarantineBegins, Stop, ServedInv
<1>7. CASE Quiet
  BY <1>3, <1>7, WakesTurn DEF Quiet, ServedInv, AtHead, InQueue
<1> QED
  BY <1>1, <1>2, <1>3, <1>4, <1>5, <1>6, <1>7, QueueSteps

-----------------------------------------------------------------------------
(* The theorems *)

LEMMA InitInvariant == Init => IInv
<1> SUFFICES ASSUME Init
             PROVE  IInv
  OBVIOUS
<1> USE DEF Init
<1>1. TypeOK
  <2>1. {handle, inputClosed, idleTimer, outputOpen, evicted} \subseteq BOOLEAN
    OBVIOUS
  <2>2. queue \in Seq(Op) /\ Len(delivered) = 0 /\ DOMAIN queue = {}
    OBVIOUS
  <2>3. epoch \in 0..(MaxEpoch + 1) /\ opEpoch \in [Op -> 0..epoch] /\ freeCount \in 0..0
    BY MaxEpochAssumption
  <2> QED
    BY <2>1, <2>2, <2>3 DEF TypeOK
<1>2. DeliveredInOrder /\ DeliveredInv /\ CurrentInv
  BY DEF DeliveredInOrder, DeliveredInv, CurrentInv
<1>3. AtMostOneAfterControl /\ ControlInv
  BY DEF AtMostOneAfterControl, ControlInv
<1>4. PushInv /\ QueueInv /\ UnknownInv /\ ReceiptInv
  BY DEF PushInv, QueueInv, UnknownInv, ReceiptInv
<1>5. ServedInv
  BY DEF ServedInv
<1> QED
  BY <1>1, <1>2, <1>3, <1>4, <1>5 DEF IInv, SerialDelivery

LEMMA Invariance == Spec => []IInv
<1>1. IInv /\ [Next]_vars => IInv'
  BY NextType, NextPush, NextQueue, NextCurrent, NextDelivered, NextControl, NextAfterControl,
     NextUnknown, NextReceipts, NextServed DEF IInv, SerialDelivery
<1> QED
  BY InitInvariant, <1>1, PTL DEF Spec

\* The child is served one serial stream: it gets each operation at most once
\* and in the order of the queue, and once control is lost at most the one
\* operation whose dispatch was being recorded (input-dispatcher.ts:190-306).
THEOREM InputIsSerial == Spec => []SerialDelivery
<1>1. IInv => SerialDelivery
  BY DEF IInv
<1> QED
  BY Invariance, <1>1, PTL

\* Nothing is sent after an input whose outcome is unknown: the loop is kept
\* from dispatching until control is gone, and then for ever.
THEOREM NothingAfterUncertainInput == Spec => UncertainInputIsLast
<1>1. IInv /\ [Next]_vars
         => [(\E o \in Op : receipt[o] = "unknown") => delivered' = delivered]_vars
  <2> SUFFICES ASSUME IInv, [Next]_vars, NEW o \in Op, receipt[o] = "unknown"
               PROVE  delivered' = delivered
    OBVIOUS
  <2> USE DEF queueVars, historyVars, procVars
  <2>1. ~CallDriver
    BY DEF IInv, UnknownInv, CallDriver
  <2>2. ASSUME NEW p \in Op, Enqueue(p) \/ Push(p)
        PROVE  delivered' = delivered
    BY <2>2 DEF Enqueue, Push
  <2>3. CASE Turn \/ Hold \/ QuarantineBegins \/ QuarantineEnds \/ Stop \/ Quiet
    BY <2>3 DEF Turn, Hold, QuarantineBegins, QuarantineEnds, Stop, Quiet
  <2> QED
    BY <2>1, <2>2, <2>3, QueueSteps DEF IInv, SerialDelivery
<1> QED
  BY Invariance, <1>1, PTL DEF Spec, UncertainInputIsLast

\* The verdict of a takeover stands, whatever driver or store answer later:
\* what has a final receipt is not in the queue, or about to be shifted.
THEOREM FailureStands == Spec => FailureIsFinal
<1>1. IInv /\ [Next]_vars
         => [\A o \in Op : receipt[o] = "failed" => receipt'[o] = "failed"]_vars
  <2> SUFFICES ASSUME IInv, [Next]_vars, NEW o \in Op, receipt[o] = "failed"
               PROVE  receipt'[o] = "failed"
    OBVIOUS
  <2> USE DEF queueVars, historyVars, procVars
  <2>0. /\ TypeOK /\ ReceiptInv /\ PushInv /\ QueueInv
        /\ receipt \in [Op -> {"none", "queued", "dispatching"} \cup Final] /\ queue \in Seq(Op)
    BY DEF IInv, SerialDelivery, TypeOK
  <2>1. ASSUME NEW p \in Op, Enqueue(p) \/ Push(p)
        PROVE  receipt'[o] = "failed"
    BY <2>0, <2>1 DEF Enqueue, Push
  <2>2. CASE Turn
    <3>1. PICK q \in {queue, Shifted} :
             TurnTo(q) /\ \A i \in DOMAIN q : receipt[q[i]] \in {"queued", "dispatching"}
      BY <2>0, <2>2, TurnsToPending
    <3>2. q # <<>> => Head(q) # o
      BY <2>0, <3>1, ShiftedQueue
    <3> QED
      BY <2>0, <3>1, <3>2 DEF TurnTo
  <2>3. CASE Hold
    <3>1. current # o
      BY <2>0, <2>3 DEF Hold, StillMine, ReceiptInv
    <3> QED
      BY <2>0, <2>3, <3>1 DEF Hold
  <2>4. CASE CallDriver \/ QuarantineBegins \/ QuarantineEnds \/ Stop \/ Quiet
    BY <2>0, <2>4 DEF CallDriver, QuarantineBegins, QuarantineEnds, Stop, Quiet, Takeover
  <2> QED
    BY <2>0, <2>1, <2>2, <2>3, <2>4, QueueSteps
<1> QED
  BY Invariance, <1>1, PTL DEF Spec, FailureIsFinal

\* An operation that was accepted and not taken over waits for its receipt to
\* be stored, or in the queue while dispatchNext works on it or is due.
AcceptedIsServed ==
    \A o \in Op : receipt[o] = "queued" /\ control = "free" =>
        o \in entering \/ (InQueue(o) /\ (wakes # {} \/ at # "idle"))

\* While nobody takes control away, no operation is forgotten: none leaves the
\* queue before its final receipt, and the queue is never left without a turn
\* of the loop to come (input-dispatcher.ts:190-306).
THEOREM NothingIsForgotten == Spec => []AcceptedIsServed
<1>1. IInv => AcceptedIsServed
  <2> SUFFICES ASSUME IInv, NEW o \in Op, receipt[o] = "queued", control = "free"
               PROVE  o \in entering \/ (InQueue(o) /\ (wakes # {} \/ at # "idle"))
    BY DEF AcceptedIsServed
  <2>1. InQueue(o) => queue # <<>>
    BY DEF InQueue
  <2> QED
    BY <2>1 DEF IInv, ServedInv
<1> QED
  BY Invariance, <1>1, PTL
=============================================================================
