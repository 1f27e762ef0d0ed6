----------------------------- MODULE ClientProofs -----------------------------
(***************************************************************************)
(* Theorems about what clients are told, for any clients: the callers on   *)
(* another host (RemoteInvocation), and the readers of the output of a     *)
(* process (ProcessOutput).  The two specifications share no state; what   *)
(* belongs to the second has a name of its own.                            *)
(***************************************************************************)
EXTENDS RemoteInvocation, ProcessOutput, FiniteSetTheorems, WellFoundedInduction,
        NaturalsInduction, TLAPS

-----------------------------------------------------------------------------
(* The inductive invariant of the calls *)

\* The start at the remote host: it is answered when it was handled, there is a
\* run if it was accepted, and a failed one at most if not.  Only a run has an id.
StartInv(c) ==
    /\ post[c] # "handled" => answer[c] = "none"
    /\ answer[c] = "none" => run[c] = "none"
    /\ answer[c] = "accepted" => run[c] # "none"
    /\ id[c] # "none" => run[c] # "none"

\* What a call has done by the time it stands at a place.
PlaceInv(c) ==
    /\ pc[c] \in {"idle", "discovering"} => post[c] = "none"
    /\ pc[c] \in {"idle", "discovering", "starting", "looking_up"} => id[c] = "none"
    /\ pc[c] \in Waiting \union {"answered"} \union Cancelling => id[c] # "none"
    /\ pc[c] \in Cancelling <=> ask[c] # "none" /\ pc[c] # "done"
    /\ pc[c] = "answered" => result[c] # "none"

\* What the client learnt of the run is true and stays true: services are closed
\* only when no call is left that could mistake their refusal for an answer.
NewsInv(c) ==
    /\ result[c] \in Terminal => run[c] = result[c]
    /\ ask[c] # "none" => ask[c] # "refused" /\ id[c] # "none"
    /\ ask[c] = "finished" => run[c] \in Terminal
    /\ closed => closing /\ pc[c] \in {"idle", "done"}

\* What a call that is over has told.
ToldInv(c) ==
    pc[c] = "done" =>
        /\ told[c].kind = "success" => run[c] = "success"
        /\ ~told[c].resultUnknown =>
              run[c] \in Terminal \/ (run[c] = "none" /\ post[c] # "sent")
        /\ id[c] = "real" /\ run[c] = "running" => ask[c] # "none" \/ result[c] = "lost"

CallInv(c) == StartInv(c) /\ PlaceInv(c) /\ NewsInv(c) /\ ToldInv(c)

IInv == TypeOK /\ \A c \in Call : CallInv(c)

-----------------------------------------------------------------------------
(* Type correctness *)

Places == {"idle", "discovering", "starting", "looking_up", "answered", "done"}
              \union Waiting \union Cancelling

Answers == [kind : {"nothing", "success", "failed", "cancelled", "closed"},
            resultUnknown : BOOLEAN]

\* Whatever a caller is told, and however a call moves on, is well-typed.
LEMMA TellType ==
    ASSUME TypeOK, NEW c \in Call, NEW unknown \in BOOLEAN,
           NEW kind \in {"success", "failed", "cancelled", "closed"},
           Tell(c, kind, unknown)
    PROVE  pc' \in [Call -> Places] /\ told' \in [Call -> Answers]
<1>1. [kind |-> kind, resultUnknown |-> unknown] \in Answers
  BY DEF Answers
<1> QED
  BY <1>1 DEF TypeOK, Tell, Places, Answers

LEMMA GotoType ==
    ASSUME TypeOK, NEW c \in Call, NEW place \in Places, Goto(c, place)
    PROVE  pc' \in [Call -> Places] /\ told' \in [Call -> Answers]
  BY DEF TypeOK, Goto, Places, Answers

\* The steps that end a call, or only move it on.
LEMMA PlaceStepType ==
    ASSUME TypeOK, pc' \in [Call -> Places], told' \in [Call -> Answers],
           UNCHANGED <<aborted, id, result, remoteVars, closing, closed>>
    PROVE  TypeOK'
  BY DEF TypeOK, Places, Answers, remoteVars

\* Cancelling asks the remote host, or learns that the services are closed.
LEMMA SendCancelType ==
    ASSUME TypeOK, NEW c \in Call, NEW place \in Cancelling, SendCancel(c, place),
           id' \in [Call -> {"none", "real", "made_up"}]
    PROVE  TypeOK'
<1>1. pc' \in [Call -> Places] /\ told' \in [Call -> Answers]
  BY GotoType DEF SendCancel, Places, Cancelling
<1>2. ask' \in [Call -> {"none", "sent", "refused", "requested", "finished", "not_found"}]
  BY DEF TypeOK, SendCancel
<1> QED
  BY <1>1, <1>2 DEF TypeOK, SendCancel, Places, Answers

LEMMA NextType == IInv /\ [Next]_vars => TypeOK'
<1> SUFFICES ASSUME IInv, [Next]_vars
             PROVE  TypeOK'
  OBVIOUS
<1>0. TypeOK /\ \A c \in Call : StartInv(c)
  BY DEF IInv, CallInv
<1>1. ASSUME NEW c \in Call,
             \/ Invoke(c) \/ DiscoveryFails(c) \/ Rejected(c) \/ LookupFails(c)
             \/ TellResult(c) \/ CancelAnswered(c) \/ CancelFails(c)
      PROVE  TypeOK'
  <2>1. /\ \/ pc' = [pc EXCEPT ![c] = "discovering"] /\ UNCHANGED told
           \/ \E kind \in {"success", "failed", "cancelled", "closed"}, unknown \in BOOLEAN :
                 Tell(c, kind, unknown)
        /\ UNCHANGED <<aborted, id, result, remoteVars, closing, closed>>
    BY <1>1 DEF Invoke, DiscoveryFails, Rejected, LookupFails, TellResult, CancelAnswered,
                CancelFails, Goto
  <2>2. pc' \in [Call -> Places] /\ told' \in [Call -> Answers]
    BY <1>0, <2>1, TellType DEF TypeOK, Places, Answers
  <2> QED
    BY <1>0, <2>1, <2>2, PlaceStepType
<1>2. ASSUME NEW c \in Call, PostStart(c)
      PROVE  TypeOK'
  BY <1>0, <1>2 DEF TypeOK, PostStart, Goto
<1>3. ASSUME NEW c \in Call, Accepted(c)
      PROVE  TypeOK'
  BY <1>0, <1>3 DEF TypeOK, Accepted, Goto, Waiting, remoteVars
<1>4. ASSUME NEW c \in Call, StartUnanswered(c)
      PROVE  TypeOK'
  BY <1>0, <1>4, GotoType, PlaceStepType DEF StartUnanswered, Places
<1>5. ASSUME NEW c \in Call, Lookup(c)
      PROVE  TypeOK'
  <2>1. CASE Recorded(c)
    <3>1. SendCancel(c, "cancelling_found") /\ id' = [id EXCEPT ![c] = "real"]
      BY <1>5, <2>1 DEF Lookup
    <3>2. id' \in [Call -> {"none", "real", "made_up"}]
      BY <1>0, <3>1 DEF TypeOK
    <3> QED
      BY <1>0, <3>1, <3>2, SendCancelType DEF Cancelling
  <2>2. CASE ~Recorded(c)
    BY <1>0, <1>5, <2>2, TellType, PlaceStepType DEF Lookup
  <2> QED
    BY <2>1, <2>2
<1>6. ASSUME NEW c \in Call,
             \/ FinishEvent(c) \/ StreamEnds(c) \/ TimeIsUp(c) \/ Look(c) \/ LookFails(c)
      PROVE  TypeOK'
  <2>1. /\ \E place \in {"answered", "polling", "last_look"} : Goto(c, place)
        /\ \/ UNCHANGED result
           \/ \E value \in {"lost"} \union Terminal : result' = [result EXCEPT ![c] = value]
        /\ UNCHANGED <<aborted, id, remoteVars, closing, closed>>
    BY <1>6 DEF FinishEvent, StreamEnds, TimeIsUp, Look, LookFails, Got, Terminal
  <2>2. pc' \in [Call -> Places] /\ told' \in [Call -> Answers]
    BY <1>0, <2>1, GotoType DEF Places, Waiting
  <2>3. result' \in [Call -> {"none", "lost"} \union Terminal]
    BY <1>0, <2>1 DEF TypeOK
  <2> QED
    BY <1>0, <2>1, <2>2, <2>3 DEF TypeOK, Places, Answers, remoteVars
<1>7. ASSUME NEW c \in Call, StopWaiting(c)
      PROVE  TypeOK'
  BY <1>0, <1>7, SendCancelType DEF TypeOK, StopWaiting, Cancelling
<1>8. ASSUME NEW c \in Call, Abort(c)
      PROVE  TypeOK'
  BY <1>0, <1>8 DEF TypeOK, Abort, remoteVars
<1>9. ASSUME NEW c \in Call, HandleStart(c)
      PROVE  TypeOK'
  <2>1. answer[c] = "none" /\ run[c] = "none" /\ id[c] = "none"
    BY <1>0, <1>9 DEF HandleStart, StartInv, TypeOK
  <2>2. /\ post' \in [Call -> {"none", "sent", "handled"}]
        /\ answer' \in [Call -> {"none", "accepted", "rejected"}]
        /\ run' \in [Call -> {"none", "running"} \union Terminal]
    <3>1. \E row \in {"none", "running", "failed"} : run' = [run EXCEPT ![c] = row]
      BY <1>0, <1>9, <2>1 DEF TypeOK, HandleStart
    <3>2. run' \in [Call -> {"none", "running"} \union Terminal]
      BY <1>0, <3>1 DEF TypeOK, Terminal
    <3> QED
      BY <1>0, <1>9, <3>2 DEF TypeOK, HandleStart
  <2>3. \A d \in Call : answer'[d] = "rejected" => run'[d] \in {"none", "failed"}
    BY <1>0, <1>9, <2>1 DEF TypeOK, HandleStart
  <2> QED
    BY <1>0, <1>9, <2>2, <2>3 DEF TypeOK, HandleStart, clientVars
<1>10. ASSUME NEW c \in Call, HandleCancel(c)
       PROVE  TypeOK'
  BY <1>0, <1>10 DEF TypeOK, HandleCancel, clientVars
<1>11. ASSUME NEW c \in Call, RunEnds(c)
       PROVE  TypeOK'
  BY <1>0, <1>11 DEF TypeOK, RunEnds, clientVars
<1>12. CASE Close \/ CloseServices \/ UNCHANGED vars
  BY <1>0, <1>12 DEF TypeOK, Close, CloseServices, vars, clientVars, remoteVars
<1> QED
  BY <1>1, <1>2, <1>3, <1>4, <1>5, <1>6, <1>7, <1>8, <1>9, <1>10, <1>11, <1>12
  DEF Next, ClientStep

-----------------------------------------------------------------------------
(* The calls do not meet: a step of one leaves what the others rest on *)

CallStep(c) ==
    \/ Invoke(c) \/ ClientStep(c) \/ Abort(c)
    \/ HandleStart(c) \/ HandleCancel(c) \/ RunEnds(c)

StateOf(c) == <<pc[c], id[c], result[c], told[c], post[c], answer[c], ask[c], run[c]>>

LEMMA OneCallMoves ==
    ASSUME TypeOK, NEW c \in Call, NEW d \in Call, c # d, CallStep(c)
    PROVE  UNCHANGED <<StateOf(d), closing, closed>>
<1> USE DEF TypeOK, StateOf, clientVars, remoteVars
<1>1. CASE \/ Invoke(c) \/ DiscoveryFails(c) \/ PostStart(c) \/ Rejected(c) \/ Accepted(c)
           \/ StartUnanswered(c)
  BY <1>1 DEF Invoke, DiscoveryFails, PostStart, Rejected, Accepted, StartUnanswered, Tell, Goto
<1>2. CASE Lookup(c) \/ LookupFails(c) \/ StopWaiting(c)
  BY <1>2 DEF Lookup, LookupFails, StopWaiting, SendCancel, Tell, Goto
<1>3. CASE FinishEvent(c) \/ StreamEnds(c) \/ TimeIsUp(c) \/ Look(c) \/ LookFails(c)
  BY <1>3 DEF FinishEvent, StreamEnds, TimeIsUp, Look, LookFails, Got, Goto
<1>4. CASE TellResult(c)
  BY <1>4 DEF TellResult, Tell
<1>5. CASE CancelAnswered(c)
  BY <1>5 DEF CancelAnswered, Tell
<1>6. CASE CancelFails(c) \/ Abort(c) \/ HandleStart(c) \/ HandleCancel(c) \/ RunEnds(c)
  BY <1>6 DEF CancelFails, Tell, Abort, HandleStart, HandleCancel, RunEnds
<1> QED
  BY <1>1, <1>2, <1>3, <1>4, <1>5, <1>6 DEF CallStep, ClientStep

LEMMA UntouchedCall ==
    ASSUME NEW d \in Call, CallInv(d), UNCHANGED <<StateOf(d), closing, closed>>
    PROVE  CallInv(d)'
  BY DEF CallInv, StartInv, PlaceInv, NewsInv, ToldInv, StateOf

-----------------------------------------------------------------------------
(* A call keeps its part of the invariant *)

\* Before there is an answer to the start.
LEMMA StartKeeps ==
    ASSUME TypeOK, NEW c \in Call, CallInv(c),
           \/ Invoke(c) \/ DiscoveryFails(c) \/ PostStart(c) \/ Rejected(c) \/ Accepted(c)
           \/ StartUnanswered(c)
    PROVE  CallInv(c)'
<1> USE DEF TypeOK, CallInv, StartInv, PlaceInv, NewsInv, ToldInv, Tell, Goto, remoteVars,
            Waiting, Cancelling, Terminal
<1>1. CASE Invoke(c)
  <2>1. /\ post[c] = "none" /\ id[c] = "none" /\ ask[c] = "none" /\ answer[c] = "none"
        /\ run[c] = "none"
    BY <1>1 DEF Invoke
  <2>2. CASE closing /\ Tell(c, "closed", FALSE)
    BY <1>1, <2>1, <2>2 DEF Invoke
  <2>3. CASE ~closing /\ aborted[c] /\ Tell(c, "cancelled", FALSE)
    BY <1>1, <2>1, <2>3 DEF Invoke
  <2>4. CASE ~Aborted(c) /\ Goto(c, "discovering")
    BY <1>1, <2>1, <2>4 DEF Invoke, Aborted
  <2> QED
    BY <1>1, <2>2, <2>3, <2>4 DEF Invoke
<1>2. CASE DiscoveryFails(c)
  BY <1>2 DEF DiscoveryFails
<1>3. CASE PostStart(c)
  BY <1>3 DEF PostStart
<1>4. CASE Rejected(c)
  BY <1>4 DEF Rejected
<1>5. CASE Accepted(c)
  BY <1>5 DEF Accepted
<1>6. CASE StartUnanswered(c)
  BY <1>6 DEF StartUnanswered
<1> QED
  BY <1>1, <1>2, <1>3, <1>4, <1>5, <1>6

\* While the call looks for the run or waits for it.
LEMMA WaitKeeps ==
    ASSUME TypeOK, NEW c \in Call, CallInv(c),
           \/ Lookup(c) \/ LookupFails(c) \/ FinishEvent(c) \/ StreamEnds(c)
           \/ TimeIsUp(c) \/ Look(c) \/ LookFails(c) \/ StopWaiting(c)
    PROVE  CallInv(c)'
<1> USE DEF TypeOK, CallInv, StartInv, PlaceInv, NewsInv, ToldInv, Tell, Goto, Got, remoteVars,
            Waiting, Cancelling, Terminal
<1>1. CASE Lookup(c)
  BY <1>1 DEF Lookup, SendCancel, Recorded
<1>2. CASE LookupFails(c)
  BY <1>2 DEF LookupFails
<1>3. CASE FinishEvent(c)
  BY <1>3 DEF FinishEvent
<1>4. CASE StreamEnds(c)
  BY <1>4 DEF StreamEnds
<1>5. CASE TimeIsUp(c)
  BY <1>5 DEF TimeIsUp
<1>6. CASE Look(c)
  BY <1>6 DEF Look
<1>7. CASE LookFails(c)
  BY <1>7 DEF LookFails
<1>8. CASE StopWaiting(c)
  BY <1>8 DEF StopWaiting, SendCancel
<1> QED
  BY <1>1, <1>2, <1>3, <1>4, <1>5, <1>6, <1>7, <1>8

\* When it tells its caller, and whatever happens around it.
LEMMA EndKeeps ==
    ASSUME TypeOK, NEW c \in Call, CallInv(c),
           \/ TellResult(c) \/ CancelAnswered(c) \/ CancelFails(c) \/ Abort(c)
           \/ HandleStart(c) \/ HandleCancel(c) \/ RunEnds(c)
    PROVE  CallInv(c)'
<1> USE DEF TypeOK, CallInv, StartInv, PlaceInv, NewsInv, ToldInv, Tell, clientVars, remoteVars,
            Waiting, Cancelling, Terminal
<1>1. CASE TellResult(c)
  BY <1>1 DEF TellResult
<1>2. CASE CancelAnswered(c)
  <2>1. UNCHANGED <<id[c], result[c], post[c], answer[c], ask[c], run[c], closing, closed>>
    BY <1>2 DEF CancelAnswered
  <2>2. /\ pc'[c] = "done" /\ ask[c] # "none" /\ id[c] # "none"
        /\ told'[c].kind # "success"
        /\ ~told'[c].resultUnknown => ask[c] = "finished"
    BY <1>2 DEF CancelAnswered
  <2> QED
    BY <2>1, <2>2, <1>2 DEF CancelAnswered
<1>3. CASE CancelFails(c)
  BY <1>3 DEF CancelFails
<1>4. CASE Abort(c)
  BY <1>4 DEF Abort
<1>5. CASE HandleStart(c)
  BY <1>5 DEF HandleStart
<1>6. CASE HandleCancel(c)
  BY <1>6 DEF HandleCancel
<1>7. CASE RunEnds(c)
  BY <1>7 DEF RunEnds
<1> QED
  BY <1>1, <1>2, <1>3, <1>4, <1>5, <1>6, <1>7

LEMMA NextCall == IInv /\ [Next]_vars => \A d \in Call : CallInv(d)'
<1> SUFFICES ASSUME IInv, [Next]_vars, NEW d \in Call
             PROVE  CallInv(d)'
  OBVIOUS
<1>0. TypeOK /\ CallInv(d)
  BY DEF IInv
<1>1. ASSUME NEW c \in Call, CallStep(c)
      PROVE  CallInv(d)'
  <2>1. CASE c = d
    BY <1>0, <1>1, <2>1, StartKeeps, WaitKeeps, EndKeeps DEF CallStep, ClientStep
  <2>2. CASE c # d
    BY <1>0, <1>1, <2>2, OneCallMoves, UntouchedCall
  <2> QED
    BY <2>1, <2>2
<1>2. CASE Close \/ CloseServices
  BY <1>0, <1>2 DEF Close, CloseServices, CallInv, StartInv, PlaceInv, NewsInv, ToldInv,
                    clientVars, remoteVars
<1>3. CASE UNCHANGED vars
  BY <1>0, <1>3, UntouchedCall DEF vars, clientVars, remoteVars, StateOf
<1> QED
  BY <1>1, <1>2, <1>3 DEF Next, CallStep

-----------------------------------------------------------------------------
(* The theorems about the calls *)

LEMMA InitInv == Init => IInv
<1> SUFFICES ASSUME Init
             PROVE  IInv
  OBVIOUS
<1>1. TypeOK
  <2>1. [kind |-> "nothing", resultUnknown |-> FALSE] \in Answers
    BY DEF Answers
  <2> QED
    BY <2>1 DEF Init, TypeOK, Answers
<1>2. ASSUME NEW c \in Call
      PROVE  CallInv(c)
  BY DEF Init, CallInv, StartInv, PlaceInv, NewsInv, ToldInv, Waiting, Cancelling, Terminal
<1> QED
  BY <1>1, <1>2 DEF IInv

LEMMA Invariance == Spec => []IInv
<1>1. IInv /\ [Next]_vars => IInv'
  BY NextType, NextCall DEF IInv
<1> QED
  BY InitInv, <1>1, PTL DEF Spec

\* What a caller is told can be relied on, and no unknown result is told as known,
\* whatever is lost, late or cut short between the hosts.
THEOREM CallersAreToldTheTruth == Spec => []HonestOutcome
<1>1. IInv => HonestOutcome
  BY DEF IInv, CallInv, ToldInv, HonestOutcome
<1> QED
  BY <1>1, Invariance, PTL

\* A run that a call knows of and gives up is asked to stop.
THEOREM NoRunIsLeftBehind == Spec => []AbandonedIsCancelled
<1>1. IInv => AbandonedIsCancelled
  BY DEF IInv, CallInv, ToldInv, NewsInv, AbandonedIsCancelled
<1> QED
  BY <1>1, Invariance, PTL

-----------------------------------------------------------------------------
(* The inductive invariant of the output of processes *)

\* Records are not empty: each starts before every later one.
Growing(s) == \A i, j \in 0..Len(s) : i < j => Start(s, i) < Start(s, j)

\* A cursor stands before a byte of the log, or at its tail.
Place(s, c) ==
    \/ c = TailCursor(s)
    \/ c.seq < Len(s) /\ c.off < Size(s, c.seq)

LogInv(p) ==
    /\ \A q \in 1..Len(sent[p]) : Size(sent[p], q - 1) \in ChunkSize
    /\ Growing(sent[p])
    /\ Place(sent[p], earliest[p])
    /\ Bytes(sent[p], earliest[p]) <= MaxBufferBytes

\* What a client was given and told to be gone is all that lies before its
\* cursor; a client that waits is at the tail of a log that goes on.
ReaderInv(r) ==
    /\ Place(sent[Of[r]], cursor[r])
    /\ got[r] + lost[r] = Position(sent[Of[r]], cursor[r])
    /\ phase[r] = "waiting" => AtTail(r) /\ ~logClosed[Of[r]]

WaitersInv(p) ==
    IsFiniteSet(Waiters(p)) /\ Cardinality(Waiters(p)) <= MaxWaiters

\* The log of a process that ended is closed or will be, by a timer unless
\* shutdown() cleared it; a process leaves the table when it ended and its
\* output is closed.
TableInv(p) ==
    /\ Ended(p) => logClosed[p] \/ managerTimer[p] \/ shutDown
    /\ infoClosed[p] => logClosed[p]
    /\ ~known[p] => Ended(p) /\ infoClosed[p]

\* The last thing a client was told is true.
VerdictInv(r) ==
    /\ phase[r] = "eof" => logClosed[Of[r]]
    /\ phase[r] = "unavailable" => ~known[Of[r]]

CursorType == [seq : Nat, off : Nat]
Phases == {"idle", "waiting", "eof", "unavailable"}

LogTypes ==
    /\ sent \in [Proc -> Seq(Nat)]
    /\ earliest \in [Proc -> CursorType]
    /\ logClosed \in [Proc -> BOOLEAN]

ReaderTypes ==
    /\ cursor \in [Reader -> CursorType] /\ phase \in [Reader -> Phases]
    /\ got \in [Reader -> Nat] /\ lost \in [Reader -> Nat]

TableTypes ==
    /\ state \in [Proc -> {"starting", "running", "ended"}]
    /\ infoClosed \in [Proc -> BOOLEAN] /\ known \in [Proc -> BOOLEAN]
    /\ retained \subseteq Proc

TimerTypes ==
    /\ queued \in [Proc -> BOOLEAN] /\ managerTimer \in [Proc -> BOOLEAN]
    /\ exited \in [Proc -> BOOLEAN] /\ streamClosed \in [Proc -> BOOLEAN]
    /\ terminating \in [Proc -> BOOLEAN] /\ driverTimer \in [Proc -> BOOLEAN]
    /\ shutDown \in BOOLEAN

LogPart == LogTypes /\ \A p \in Proc : LogInv(p)
ReaderPart ==
    /\ ReaderTypes
    /\ \A r \in Reader : ReaderInv(r)
    /\ \A p \in Proc : WaitersInv(p)
TablePart == TableTypes /\ TimerTypes /\ \A p \in Proc : TableInv(p)

OutputInv ==
    LogPart /\ ReaderPart /\ TablePart /\ \A r \in Reader : VerdictInv(r)

-----------------------------------------------------------------------------
(* Least and greatest elements *)

LEMMA LeastExists ==
    ASSUME NEW S \in SUBSET Nat, S # {}
    PROVE  \E x \in S : \A y \in S : x <= y
<1>1. \E x \in S : \A y \in S : ~(<<y, x>> \in OpToRel(<, Nat))
  BY NatLessThanWellFounded, WFMin
<1>2. OpToRel(<, Nat) = {ss \in Nat \X Nat : ss[1] < ss[2]}
  BY DEF OpToRel
<1>3. PICK x \in S : \A y \in S : ~(<<y, x>> \in {ss \in Nat \X Nat : ss[1] < ss[2]})
  BY <1>1, <1>2
<1>4. \A y \in S : ~(y < x)
  BY <1>3
<1> QED
  BY <1>4

LEMMA MinIs ==
    ASSUME NEW S \in SUBSET Nat, S # {}
    PROVE  Min(S) \in S /\ \A y \in S : Min(S) <= y
BY LeastExists DEF Min

LEMMA MinOfTwo ==
    ASSUME NEW a \in Nat, NEW b \in Nat
    PROVE  Min({a, b}) = IF a <= b THEN a ELSE b
<1>1. {a, b} \in SUBSET Nat /\ {a, b} # {}
  OBVIOUS
<1> QED
  BY <1>1, MinIs

LEMMA MaxIs ==
    ASSUME NEW S \in SUBSET Nat, S # {}, NEW n \in Nat, \A x \in S : x <= n
    PROVE  Max(S) \in S /\ \A y \in S : y <= Max(S)
<1> DEFINE T == {n - x : x \in S}
<1>1. T \in SUBSET Nat
  OBVIOUS
<1>2. T # {}
  OBVIOUS
<1>3. PICK t \in T : \A y \in T : t <= y
  BY <1>1, <1>2, LeastExists
<1>4. PICK x \in S : t = n - x
  OBVIOUS
<1>5. ASSUME NEW y \in S
      PROVE  y <= x
  <2>1. n - y \in T
    OBVIOUS
  <2> QED
    BY <1>3, <1>4, <2>1
<1>6. \E z \in S : \A y \in S : z >= y
  BY <1>5
<1> QED
  BY <1>6 DEF Max

-----------------------------------------------------------------------------
(* Places in a log *)

LEMMA StartType ==
    ASSUME NEW s \in Seq(Nat), NEW q \in 0..Len(s)
    PROVE  Start(s, q) \in Nat
BY DEF Start

LEMMA PlaceIsIn ==
    ASSUME NEW s \in Seq(Nat), Growing(s), NEW c \in [seq : Nat, off : Nat], Place(s, c)
    PROVE  /\ c.seq \in 0..Len(s)
           /\ Position(s, c) \in Nat
           /\ Bytes(s, c) \in Nat
           /\ Bytes(s, c) = 0 <=> c = TailCursor(s)
           /\ ~Before(TailCursor(s), c)
<1>1. Len(s) \in Nat
  OBVIOUS
<1>2. c.seq \in 0..Len(s)
  BY <1>1 DEF Place, TailCursor, Cursor
<1>3. Start(s, c.seq) \in Nat /\ Start(s, Len(s)) \in Nat
  BY <1>1, <1>2, StartType
<1>4. CASE c = TailCursor(s)
  BY <1>1, <1>3, <1>4 DEF TailCursor, Cursor, Position, Bytes, Before
<1>5. CASE c # TailCursor(s)
  <2>1. c.seq < Len(s) /\ c.off < Size(s, c.seq)
    BY <1>5 DEF Place
  <2>2. c.seq + 1 \in 0..Len(s)
    BY <1>1, <2>1
  <2>3. Start(s, c.seq + 1) \in Nat /\ Start(s, c.seq + 1) <= Start(s, Len(s))
    BY <1>1, <1>3, <2>1, <2>2, StartType DEF Growing
  <2>4. Bytes(s, c) \in Nat /\ Bytes(s, c) # 0
    BY <1>3, <2>1, <2>3 DEF Bytes, Position, Size
  <2>5. ~Before(TailCursor(s), c)
    BY <1>1, <2>1 DEF Before, TailCursor, Cursor
  <2> QED
    BY <1>2, <1>3, <1>5, <2>4, <2>5 DEF Position
<1> QED
  BY <1>4, <1>5

\* A cursor that is before another one has a position before it.
LEMMA BeforeIsBefore ==
    ASSUME NEW s \in Seq(Nat), Growing(s),
           NEW c \in [seq : Nat, off : Nat], Place(s, c),
           NEW d \in [seq : Nat, off : Nat], Place(s, d), Before(c, d)
    PROVE  Position(s, c) < Position(s, d)
<1>1. c.seq \in 0..Len(s) /\ d.seq \in 0..Len(s) /\ Len(s) \in Nat
  BY PlaceIsIn
<1>2. Start(s, c.seq) \in Nat /\ Start(s, d.seq) \in Nat
  BY <1>1, StartType
<1>3. CASE c.seq = d.seq
  BY <1>1, <1>2, <1>3 DEF Before, Position
<1>4. CASE c.seq < d.seq
  <2>1. c.seq < Len(s) /\ c.off < Size(s, c.seq)
    BY <1>1, <1>4 DEF Place, TailCursor, Cursor
  <2>2. Start(s, c.seq + 1) \in Nat /\ Start(s, c.seq + 1) <= Start(s, d.seq)
    <3>1. c.seq + 1 \in 0..Len(s) /\ c.seq + 1 <= d.seq
      BY <1>1, <1>4
    <3> QED
      BY <1>1, <1>2, <3>1, StartType DEF Growing
  <2> QED
    BY <1>2, <2>1, <2>2 DEF Position, Size
<1> QED
  BY <1>1, <1>3, <1>4 DEF Before

\* Where a read begins lies at the cursor of the client or behind it.
LEMMA BeginPlace ==
    ASSUME NEW s \in Seq(Nat), Growing(s),
           NEW c \in [seq : Nat, off : Nat], Place(s, c),
           NEW e \in [seq : Nat, off : Nat], Place(s, e)
    PROVE  /\ Begin(e, c) \in [seq : Nat, off : Nat]
           /\ Place(s, Begin(e, c))
           /\ Stream!Gap(Position(s, e), Position(s, c)) \in Nat
           /\ Position(s, Begin(e, c))
                 = Position(s, c) + Stream!Gap(Position(s, e), Position(s, c))
<1>1. Position(s, c) \in Nat /\ Position(s, e) \in Nat
  BY PlaceIsIn
<1>2. CASE Before(c, e)
  BY <1>1, <1>2, BeforeIsBefore DEF Begin, Stream!Gap
<1>3. CASE ~Before(c, e)
  <2>1. c = e \/ Before(e, c)
    BY <1>3 DEF Before
  <2>2. Position(s, e) <= Position(s, c)
    BY <1>1, <2>1, BeforeIsBefore
  <2> QED
    BY <1>1, <1>3, <2>2 DEF Begin, Stream!Gap
<1> QED
  BY <1>2, <1>3

\* The log with a record of n bytes more.
Longer(s, n) == Append(s, Start(s, Len(s)) + n)

\* An appended record is a new end of the log, and no place moves.
LEMMA AppendKeeps ==
    ASSUME NEW s \in Seq(Nat), Growing(s), NEW n \in Nat \ {0}
    PROVE  /\ Longer(s, n) \in Seq(Nat) /\ Growing(Longer(s, n))
           /\ Len(Longer(s, n)) = Len(s) + 1
           /\ \A q \in 0..Len(s) : Start(Longer(s, n), q) = Start(s, q)
           /\ Start(Longer(s, n), Len(Longer(s, n))) = Start(s, Len(s)) + n
           /\ \A c \in [seq : Nat, off : Nat] :
                 Place(s, c) => /\ Place(Longer(s, n), c) /\ c # TailCursor(Longer(s, n))
                                /\ Position(Longer(s, n), c) = Position(s, c)
<1> DEFINE t == Longer(s, n)
<1>1. Len(s) \in Nat /\ Start(s, Len(s)) \in Nat
  BY StartType
<1>2. Start(s, Len(s)) + n \in Nat
  BY <1>1
<1>3. /\ t \in Seq(Nat) /\ Len(t) = Len(s) + 1
      /\ \A q \in 1..Len(s) : t[q] = s[q]
      /\ t[Len(s) + 1] = Start(s, Len(s)) + n
  BY <1>1, <1>2 DEF Longer
<1> HIDE DEF t
<1>4. ASSUME NEW q \in 0..Len(s)
      PROVE  Start(t, q) = Start(s, q)
  BY <1>1, <1>3 DEF Start
<1>5. Start(t, Len(t)) = Start(s, Len(s)) + n
  BY <1>1, <1>2, <1>3 DEF Start
<1>6. Growing(t)
  <2> SUFFICES ASSUME NEW i \in 0..Len(t), NEW j \in 0..Len(t), i < j
               PROVE  Start(t, i) < Start(t, j)
    BY DEF Growing
  <2>1. i \in 0..Len(s) /\ Start(s, i) \in Nat /\ Start(t, i) = Start(s, i)
    BY <1>1, <1>3, <1>4, StartType
  <2>2. CASE j \in 0..Len(s)
    BY <1>4, <2>1, <2>2 DEF Growing
  <2>3. CASE j = Len(t)
    <3>1. Start(s, i) <= Start(s, Len(s))
      BY <1>1, <2>1 DEF Growing
    <3> QED
      BY <1>1, <1>5, <2>1, <2>3, <3>1
  <2> QED
    BY <1>1, <1>3, <2>2, <2>3
<1>7. ASSUME NEW c \in [seq : Nat, off : Nat], Place(s, c)
      PROVE  /\ Place(t, c) /\ c # TailCursor(t)
             /\ Position(t, c) = Position(s, c)
  <2>1. c.seq \in 0..Len(s)
    BY <1>7, PlaceIsIn
  <2>2. c.seq < Len(t) /\ c # TailCursor(t)
    BY <1>1, <1>3, <2>1 DEF TailCursor, Cursor
  <2>3. c.off < Size(t, c.seq)
    <3>1. CASE c = TailCursor(s)
      <4>1. c.seq = Len(s) /\ c.off = 0
        BY <3>1 DEF TailCursor, Cursor
      <4>2. Size(t, c.seq) = n
        BY <1>1, <1>3, <1>4, <1>5, <4>1 DEF Size
      <4> QED
        BY <4>1, <4>2
    <3>2. CASE c # TailCursor(s)
      <4>1. c.seq < Len(s) /\ c.off < Size(s, c.seq)
        BY <1>7, <3>2 DEF Place
      <4>2. c.seq + 1 \in 0..Len(s)
        BY <1>1, <2>1, <4>1
      <4> QED
        BY <1>4, <2>1, <4>1, <4>2 DEF Size
    <3> QED
      BY <3>1, <3>2
  <2> QED
    BY <1>4, <2>1, <2>2, <2>3 DEF Place, Position
<1> QED
  BY <1>3, <1>4, <1>5, <1>6, <1>7 DEF t

\* What is trimmed lies before the new earliest place, and what is left is
\* within the limit.
LEMMA TrimmedPlace ==
    ASSUME NEW s \in Seq(Nat), Growing(s),
           NEW e \in [seq : Nat, off : Nat], Place(s, e),
           Bytes(s, e) > MaxBufferBytes
    PROVE  /\ Trimmed(s, e) \in [seq : Nat, off : Nat]
           /\ Place(s, Trimmed(s, e))
           /\ Bytes(s, Trimmed(s, e)) <= MaxBufferBytes
           /\ Bytes(s, Trimmed(s, e)) > 0
           /\ Position(s, e) < Position(s, Trimmed(s, e))
<1> DEFINE from(q) == IF q = e.seq THEN e ELSE Cursor(q, 0)
           Q == {q \in e.seq..(Len(s) - 1) :
                     Bytes(s, from(q)) <= MaxBufferBytes \/ q = Len(s) - 1}
           first == Min(Q)
           overflow == Bytes(s, from(first)) - MaxBufferBytes
<1>1. Trimmed(s, e) = IF overflow > 0
                      THEN Cursor(first, from(first).off + overflow) ELSE from(first)
  BY DEF Trimmed
<1>2. Len(s) \in Nat /\ MaxBufferBytes \in Nat \ {0}
  BY ProcessOutputAssumption
<1>3. Bytes(s, e) \in Nat /\ Bytes(s, e) # 0 /\ Position(s, e) \in Nat
  BY <1>2, PlaceIsIn
<1>4. e.seq < Len(s) /\ e.off < Size(s, e.seq) /\ e.seq \in Nat
  BY <1>3, PlaceIsIn DEF Place
<1>5. Len(s) - 1 \in Q
  BY <1>2, <1>4
<1>6. Q \in SUBSET Nat
  BY <1>2, <1>4
<1>7. first \in Q
  BY <1>5, <1>6, MinIs
<1>8. first \in Nat /\ e.seq <= first /\ first < Len(s)
  BY <1>2, <1>4, <1>7
<1>9. Bytes(s, from(first)) <= MaxBufferBytes \/ first = Len(s) - 1
  BY <1>7
<1> HIDE DEF Q, first
<1>10. from(first) \in [seq : Nat, off : Nat] /\ from(first).seq = first
  BY <1>8 DEF Cursor
<1>11. Place(s, from(first))
  <2>1. Start(s, first) < Start(s, first + 1)
    BY <1>2, <1>8 DEF Growing
  <2>2. Start(s, first) \in Nat /\ Start(s, first + 1) \in Nat
    BY <1>2, <1>8, StartType
  <2> QED
    BY <1>4, <1>8, <2>1, <2>2 DEF Place, Cursor, Size
<1>12. Position(s, from(first)) \in Nat /\ Bytes(s, from(first)) \in Nat
  BY <1>10, <1>11, PlaceIsIn
<1>13. Position(s, from(first)) + Bytes(s, from(first)) = Start(s, Len(s))
  BY <1>2, <1>12, StartType DEF Bytes
<1>14. Position(s, e) + Bytes(s, e) = Start(s, Len(s))
  BY <1>2, <1>3, StartType DEF Bytes
<1> HIDE DEF from
<1>15. CASE overflow > 0
  <2> DEFINE new == Cursor(first, from(first).off + overflow)
  <2>1. Trimmed(s, e) = new
    BY <1>1, <1>15
  <2>2. overflow \in Nat /\ overflow # 0
    BY <1>2, <1>12, <1>15
  <2>3. new \in [seq : Nat, off : Nat] /\ new.seq = first
           /\ new.off = from(first).off + overflow
    BY <1>8, <1>10, <2>2 DEF Cursor
  <2>4. Position(s, new) = Position(s, from(first)) + overflow
    <3>1. Start(s, first) \in Nat
      BY <1>2, <1>8, StartType
    <3> QED
      BY <1>10, <2>2, <2>3, <3>1 DEF Position
  <2>5. Bytes(s, new) = MaxBufferBytes
    BY <1>2, <1>12, <1>13, <2>2, <2>4, StartType DEF Bytes
  <2>6. first + 1 = Len(s)
    BY <1>2, <1>9, <1>15, <1>12
  <2>7. Start(s, first) \in Nat /\ Start(s, Len(s)) \in Nat
    BY <1>2, <1>8, StartType
  <2>8. new.off < Size(s, first)
    BY <1>2, <2>3, <2>5, <2>6, <2>7 DEF Bytes, Position, Size
  <2>9. Position(s, e) < Position(s, new)
    BY <1>2, <1>3, <1>12, <1>13, <1>14, <2>2, <2>4
  <2> QED
    BY <1>2, <1>8, <2>1, <2>3, <2>5, <2>8, <2>9 DEF Place
<1>16. CASE ~(overflow > 0)
  <2>1. Trimmed(s, e) = from(first)
    BY <1>1, <1>16
  <2>2. Bytes(s, from(first)) <= MaxBufferBytes
    BY <1>2, <1>12, <1>16
  <2>3. Bytes(s, from(first)) # 0
    <3>1. TailCursor(s).seq = Len(s)
      BY DEF TailCursor, Cursor
    <3>2. from(first) # TailCursor(s)
      BY <1>2, <1>8, <1>10, <3>1
    <3> QED
      BY <1>10, <1>11, <3>2, PlaceIsIn
  <2> QED
    BY <1>2, <1>3, <1>10, <1>11, <1>12, <1>13, <1>14, <2>1, <2>2, <2>3
<1> QED
  BY <1>15, <1>16

\* A read goes from its place to a later one, over the bytes it returns.
LEMMA ReadFromPlace ==
    ASSUME NEW s \in Seq(Nat), Growing(s),
           NEW c \in [seq : Nat, off : Nat], Place(s, c), NEW max \in Nat \ {0}
    PROVE  /\ ReadFrom(s, c, max).next \in [seq : Nat, off : Nat]
           /\ Place(s, ReadFrom(s, c, max).next)
           /\ ReadFrom(s, c, max).taken \in 0..max
           /\ Position(s, ReadFrom(s, c, max).next)
                 = Position(s, c) + ReadFrom(s, c, max).taken
           /\ c # TailCursor(s) => ReadFrom(s, c, max).taken > 0
           /\ c = TailCursor(s) => ReadFrom(s, c, max).next = c
<1> DEFINE start(q)  == IF q = c.seq THEN c.off ELSE 0
           before(q) == IF q = c.seq THEN 0 ELSE Start(s, q) - Position(s, c)
           Q == {q \in c.seq..(Len(s) - 1) : before(q) < max}
           last == Max(Q)
           stop == start(last) + Min({Size(s, last) - start(last), max - before(last)})
           next == IF stop >= Size(s, last) THEN Cursor(last + 1, 0) ELSE Cursor(last, stop)
           taken == before(last) + stop - start(last)
<1>1. ReadFrom(s, c, max) = IF c = TailCursor(s) THEN [next |-> c, taken |-> 0]
                            ELSE [next |-> next, taken |-> taken]
  BY DEF ReadFrom
<1>2. Len(s) \in Nat /\ Position(s, c) \in Nat
  BY PlaceIsIn
<1>3. CASE c = TailCursor(s)
  BY <1>1, <1>2, <1>3
<1>4. CASE c # TailCursor(s)
  <2>1. c.seq < Len(s) /\ c.off < Size(s, c.seq) /\ c.seq \in Nat /\ c.off \in Nat
    BY <1>4 DEF Place
  <2>2. c.seq \in Q
    BY <1>2, <2>1
  <2>3. Q \in SUBSET Nat /\ \A q \in Q : q <= Len(s)
    BY <1>2, <2>1
  <2>4. last \in Q
    BY <1>2, <2>2, <2>3, MaxIs
  <2>5. last \in Nat /\ c.seq <= last /\ last < Len(s) /\ before(last) < max
    BY <1>2, <2>1, <2>4
  <2> HIDE DEF Q, last
  <2>6. Start(s, last) \in Nat /\ Start(s, last + 1) \in Nat
           /\ Start(s, last) < Start(s, last + 1)
    BY <1>2, <2>5, StartType DEF Growing
  <2>7. Size(s, last) \in Nat /\ Start(s, last + 1) = Start(s, last) + Size(s, last)
    BY <2>6 DEF Size
  <2>8. start(last) \in Nat /\ start(last) < Size(s, last)
    BY <2>1, <2>6, <2>7 DEF Size
  <2>9. /\ before(last) \in Nat
        /\ Start(s, last) + start(last) = Position(s, c) + before(last)
    <3>1. CASE last = c.seq
      BY <1>2, <2>1, <2>6, <3>1 DEF Position
    <3>2. CASE last # c.seq
      <4>1. c.seq + 1 \in 0..Len(s) /\ c.seq + 1 <= last /\ c.seq \in 0..Len(s)
        BY <1>2, <2>1, <2>5, <3>2
      <4>2. Start(s, c.seq + 1) <= Start(s, last) /\ Start(s, c.seq + 1) \in Nat
               /\ Start(s, c.seq) \in Nat
        <5>1. last \in 0..Len(s) /\ (c.seq + 1 = last \/ c.seq + 1 < last)
          BY <1>2, <2>5, <4>1
        <5> QED
          BY <2>6, <4>1, <5>1, StartType DEF Growing
      <4>3. Position(s, c) < Start(s, last)
        BY <2>1, <2>6, <4>2 DEF Position, Size
      <4> QED
        BY <1>2, <2>6, <3>2, <4>3
    <3> QED
      BY <3>1, <3>2
  <2> DEFINE room == Size(s, last) - start(last)
             rest == max - before(last)
             more == Min({room, rest})
  <2>10. room \in Nat /\ room # 0 /\ rest \in Nat /\ rest # 0
    BY <2>5, <2>7, <2>8, <2>9
  <2>11. more = IF room <= rest THEN room ELSE rest
    BY <2>10, MinOfTwo
  <2>12. stop = start(last) + more
    OBVIOUS
  <2> HIDE DEF start, before, more
  <2>13. more \in Nat /\ more # 0 /\ more <= room /\ more <= rest
    BY <2>10, <2>11
  <2>14. stop \in Nat /\ stop <= Size(s, last)
    BY <2>7, <2>8, <2>12, <2>13
  <2>15. taken = before(last) + more /\ taken \in 0..max /\ taken > 0
    BY <2>5, <2>8, <2>9, <2>12, <2>13
  <2> HIDE DEF stop, taken
  <2>16. Start(s, last) + stop = Position(s, c) + taken
    <3>1. Start(s, last) + stop = (Start(s, last) + start(last)) + more
      BY <2>6, <2>8, <2>12, <2>13
    <3>2. Position(s, c) + taken = (Position(s, c) + before(last)) + more
      BY <1>2, <2>9, <2>13, <2>15
    <3> QED
      BY <2>9, <3>1, <3>2
  <2>17. /\ next \in [seq : Nat, off : Nat]
         /\ Place(s, next)
         /\ Position(s, next) = Start(s, last) + stop
    <3>1. CASE stop >= Size(s, last)
      <4>1. next = Cursor(last + 1, 0) /\ stop = Size(s, last)
        BY <2>7, <2>14, <3>1
      <4>2. Position(s, next) = Start(s, last + 1)
        BY <2>6, <4>1 DEF Position, Cursor
      <4>3. CASE last + 1 = Len(s)
        BY <2>5, <2>7, <4>1, <4>2, <4>3 DEF Place, TailCursor, Cursor
      <4>4. CASE last + 1 < Len(s)
        <5>1. /\ last + 1 \in 0..Len(s) /\ last + 2 \in 0..Len(s)
              /\ last + 1 < last + 2 /\ (last + 1) + 1 = last + 2
          BY <1>2, <2>5, <4>4
        <5>2. Start(s, last + 1) < Start(s, last + 2) /\ Start(s, last + 2) \in Nat
          BY <5>1, StartType DEF Growing
        <5> QED
          BY <2>5, <2>6, <2>7, <4>1, <4>2, <4>4, <5>1, <5>2 DEF Place, Size, Cursor
      <4> QED
        BY <1>2, <2>5, <4>3, <4>4
    <3>2. CASE ~(stop >= Size(s, last))
      <4>1. next = Cursor(last, stop)
        BY <3>2
      <4> QED
        BY <2>5, <2>7, <2>14, <3>2, <4>1 DEF Place, Position, Cursor
    <3> QED
      BY <3>1, <3>2
  <2> QED
    BY <1>1, <1>4, <2>15, <2>16, <2>17
<1> QED
  BY <1>3, <1>4

-----------------------------------------------------------------------------
(* Answers *)

\* Clients that are answered go on to a later place, and every byte up to it is
\* received or told to be gone; the others stand still.
LEMMA AnswerMoves ==
    ASSUME ReaderTypes, NEW R \in SUBSET Reader,
           NEW s \in Seq(Nat), Growing(s), NEW e \in CursorType, Place(s, e),
           \A r \in R : Place(s, cursor[r]),
           NEW over \in BOOLEAN, Answer(R, s, e, over)
    PROVE  /\ ReaderTypes'
           /\ \A r \in R :
                 /\ Place(s, cursor'[r])
                 /\ got'[r] + lost'[r] - Position(s, cursor'[r])
                       = got[r] + lost[r] - Position(s, cursor[r])
                 /\ phase'[r] \in {"idle", "eof"}
                 /\ phase'[r] = "eof" => over
           /\ \A r \in Reader \ R :
                 /\ cursor'[r] = cursor[r] /\ phase'[r] = phase[r]
                 /\ got'[r] = got[r] /\ lost'[r] = lost[r]
           /\ \A r \in R :
                 /\ lost'[r] = lost[r] + Stream!Gap(Position(s, e), Position(s, cursor[r]))
                 /\ got'[r] >= got[r]
                 /\ got'[r] > got[r] \/ cursor'[r] = TailCursor(s)
<1> DEFINE res == [r \in R |-> ReadFrom(s, Begin(e, cursor[r]), MaxRead[r])]
           skip(r) == Stream!Gap(Position(s, e), Position(s, cursor[r]))
<1>1. /\ cursor' = [r \in Reader |-> IF r \in R THEN res[r].next ELSE cursor[r]]
      /\ got' = [r \in Reader |-> IF r \in R THEN got[r] + res[r].taken ELSE got[r]]
      /\ lost' = [r \in Reader |->
                     IF r \in R THEN lost[r] + Position(s, Begin(e, cursor[r]))
                                            - Position(s, cursor[r])
                     ELSE lost[r]]
      /\ phase' = [r \in Reader |->
                      IF r \notin R THEN phase[r]
                      ELSE IF over /\ res[r].next = TailCursor(s) THEN "eof" ELSE "idle"]
  <2>1. PICK f \in {res} :
           /\ cursor' = [r \in Reader |-> IF r \in R THEN f[r].next ELSE cursor[r]]
           /\ got' = [r \in Reader |-> IF r \in R THEN got[r] + f[r].taken ELSE got[r]]
           /\ lost' = [r \in Reader |->
                          IF r \in R THEN lost[r] + Position(s, Begin(e, cursor[r]))
                                                 - Position(s, cursor[r])
                          ELSE lost[r]]
           /\ phase' = [r \in Reader |->
                           IF r \notin R THEN phase[r]
                           ELSE IF over /\ f[r].next = TailCursor(s)
                                THEN "eof" ELSE "idle"]
    BY DEF Answer
  <2>2. f = res
    BY <2>1
  <2> QED
    BY Zenon, <2>1, <2>2
<1>2. ASSUME NEW r \in R
      PROVE  /\ res[r].next \in CursorType
             /\ Place(s, res[r].next)
             /\ res[r].taken \in Nat
             /\ skip(r) \in Nat
             /\ Position(s, res[r].next) = Position(s, cursor[r]) + skip(r) + res[r].taken
             /\ Position(s, cursor[r]) \in Nat
             /\ res[r].taken > 0 \/ res[r].next = TailCursor(s)
             /\ Position(s, Begin(e, cursor[r])) = Position(s, cursor[r]) + skip(r)
  <2> DEFINE b == Begin(e, cursor[r])
             max == MaxRead[r]
  <2>1. cursor[r] \in [seq : Nat, off : Nat] /\ Place(s, cursor[r])
    BY DEF ReaderTypes, CursorType
  <2>2. /\ b \in [seq : Nat, off : Nat] /\ Place(s, b)
        /\ skip(r) \in Nat /\ Position(s, b) = Position(s, cursor[r]) + skip(r)
    BY <2>1, BeginPlace DEF CursorType
  <2>3. max \in Nat \ {0}
    BY ProcessOutputAssumption
  <2>4. res[r] = ReadFrom(s, b, max)
    OBVIOUS
  <2>5. Position(s, b) \in Nat /\ Position(s, cursor[r]) \in Nat
    BY <2>1, <2>2, PlaceIsIn
  <2> HIDE DEF res, b, max, skip
  <2>7. /\ res[r].next \in [seq : Nat, off : Nat]
        /\ Place(s, res[r].next)
        /\ res[r].taken \in 0..max
        /\ Position(s, res[r].next) = Position(s, b) + res[r].taken
        /\ b # TailCursor(s) => res[r].taken > 0
        /\ b = TailCursor(s) => res[r].next = TailCursor(s)
    BY <2>2, <2>3, <2>4, ReadFromPlace
  <2>8. res[r].taken \in Nat
    BY <2>3, <2>7
  <2> QED
    BY <2>2, <2>5, <2>7, <2>8 DEF CursorType, b
<1>3. lost' = [r \in Reader |-> IF r \in R THEN lost[r] + skip(r) ELSE lost[r]]
  <2>1. ASSUME NEW r \in R
        PROVE  lost[r] + Position(s, Begin(e, cursor[r])) - Position(s, cursor[r])
                  = lost[r] + skip(r)
    <3> DEFINE u == Position(s, Begin(e, cursor[r]))
               v == Position(s, cursor[r])
    <3>1. lost[r] \in Nat
      BY DEF ReaderTypes
    <3>2. v \in Nat /\ skip(r) \in Nat /\ u = v + skip(r)
      BY <1>2
    <3> HIDE DEF u, v, skip
    <3>3. lost[r] + u - v = lost[r] + skip(r)
      BY <3>1, <3>2
    <3> QED
      BY <3>3 DEF u, v
  <2> QED
    BY <1>1, <2>1
<1> HIDE DEF res, skip
<1>4. ReaderTypes'
  <2>1. cursor' \in [Reader -> CursorType]
    BY <1>1, <1>2 DEF ReaderTypes
  <2>2. phase' \in [Reader -> Phases]
    BY <1>1 DEF ReaderTypes, Phases
  <2>3. got' \in [Reader -> Nat]
    BY <1>1, <1>2 DEF ReaderTypes
  <2>4. lost' \in [Reader -> Nat]
    BY <1>2, <1>3 DEF ReaderTypes
  <2> QED
    BY <2>1, <2>2, <2>3, <2>4 DEF ReaderTypes
<1>5. ASSUME NEW r \in R
      PROVE  /\ Place(s, cursor'[r])
             /\ got'[r] + lost'[r] - Position(s, cursor'[r])
                   = got[r] + lost[r] - Position(s, cursor[r])
             /\ phase'[r] \in {"idle", "eof"}
             /\ phase'[r] = "eof" => over
             /\ lost'[r] = lost[r] + skip(r)
             /\ got'[r] >= got[r]
             /\ got'[r] > got[r] \/ cursor'[r] = TailCursor(s)
  <2>1. cursor'[r] = res[r].next /\ got'[r] = got[r] + res[r].taken /\ lost'[r] = lost[r] + skip(r)
    BY <1>1, <1>3
  <2>2. got[r] \in Nat /\ lost[r] \in Nat
    BY DEF ReaderTypes
  <2>3. got'[r] + lost'[r] - Position(s, cursor'[r])
           = got[r] + lost[r] - Position(s, cursor[r])
    BY <1>2, <2>1, <2>2
  <2>4. phase'[r] \in {"idle", "eof"} /\ (phase'[r] = "eof" => over)
    BY <1>1
  <2> QED
    BY <1>2, <2>1, <2>2, <2>3, <2>4
<1>6. ASSUME NEW r \in Reader \ R
      PROVE  /\ cursor'[r] = cursor[r] /\ phase'[r] = phase[r]
             /\ got'[r] = got[r] /\ lost'[r] = lost[r]
  BY <1>1
<1> QED
  BY <1>4, <1>5, <1>6 DEF skip

\* The stream of bytes that a log is: where it ends, and where it begins.
Total(p) == Start(sent[p], Len(sent[p]))
Kept(p) == Position(sent[p], earliest[p])

\* What a step may do to the streams, and to the clients, in their terms.
StreamsGrow ==
    \A p \in Proc :
        \/ Total(p)' = Total(p) /\ Kept(p)' = Kept(p)
        \/ /\ Total(p)' > Total(p) /\ Kept(p)' >= Kept(p)
           /\ Kept(p)' > Kept(p) => Total(p)' - Kept(p) > MaxBufferBytes
           /\ Total(p)' - Kept(p)' \in 1..MaxBufferBytes

Received(r) ==
    /\ lost'[r] = lost[r] + Stream!Gap(Kept(Of[r])', got[r] + lost[r])
    /\ got'[r] >= got[r]
    /\ got'[r] + lost'[r] <= Total(Of[r])'
    /\ got'[r] > got[r] \/ got'[r] + lost'[r] = Total(Of[r])'

ReadersMove ==
    \A r \in Reader : Received(r) \/ (got'[r] = got[r] /\ lost'[r] = lost[r])

\* Fewer waiting clients are fewer to count.
LEMMA FewerWaiters ==
    ASSUME NEW p \in Proc, WaitersInv(p), Waiters(p)' \subseteq Waiters(p)
    PROVE  WaitersInv(p)'
<1>1. /\ IsFiniteSet(Waiters(p)') /\ Cardinality(Waiters(p)') <= Cardinality(Waiters(p))
      /\ Cardinality(Waiters(p)') \in Nat /\ Cardinality(Waiters(p)) \in Nat
  BY FS_Subset, FS_CardinalityType DEF WaitersInv
<1>2. MaxWaiters \in Nat
  BY ProcessOutputAssumption
<1> QED
  BY <1>1, <1>2 DEF WaitersInv

\* The readers of p that are in R are answered from its new log; readers who
\* are not answered wait for nothing that is there.
LEMMA AnswerKeeps ==
    ASSUME LogPart, ReaderPart, LogPart', NEW p \in Proc,
           NEW R \in SUBSET {r \in Reader : Of[r] = p},
           Answer(R, sent'[p], earliest'[p], logClosed'[p]),
           \A q \in Proc \ {p} : sent'[q] = sent[q] /\ logClosed'[q] = logClosed[q],
           \A c \in CursorType : Place(sent[p], c) =>
               Place(sent'[p], c) /\ Position(sent'[p], c) = Position(sent[p], c),
           Waiters(p) \subseteq R \/ (sent' = sent /\ logClosed' = logClosed)
    PROVE  /\ ReaderPart' /\ ReadersMove
           /\ \A r \in R :
                 phase'[r] \in {"idle", "eof"} /\ (phase'[r] = "eof" => logClosed'[p])
           /\ \A r \in Reader \ R : phase'[r] = phase[r]
<1> DEFINE s == sent'[p]
           e == earliest'[p]
           over == logClosed'[p]
<1>0. Answer(R, s, e, over)
  OBVIOUS
<1>1. s \in Seq(Nat) /\ Growing(s) /\ e \in CursorType /\ Place(s, e) /\ over \in BOOLEAN
  BY DEF LogPart, LogTypes, LogInv
<1> HIDE DEF e
<1>2. \A r \in R : Place(s, cursor[r])
  BY DEF ReaderPart, ReaderTypes, ReaderInv
<1>3. /\ ReaderTypes'
      /\ \A r \in R :
            /\ Place(s, cursor'[r])
            /\ got'[r] + lost'[r] - Position(s, cursor'[r])
                  = got[r] + lost[r] - Position(s, cursor[r])
            /\ phase'[r] \in {"idle", "eof"}
            /\ phase'[r] = "eof" => over
      /\ \A r \in Reader \ R :
            /\ cursor'[r] = cursor[r] /\ phase'[r] = phase[r]
            /\ got'[r] = got[r] /\ lost'[r] = lost[r]
      /\ \A r \in R :
            /\ lost'[r] = lost[r] + Stream!Gap(Position(s, e), Position(s, cursor[r]))
            /\ got'[r] >= got[r]
            /\ got'[r] > got[r] \/ cursor'[r] = TailCursor(s)
  BY <1>0, <1>1, <1>2, AnswerMoves DEF ReaderPart
<1>4. ASSUME NEW r \in Reader
      PROVE  ReaderInv(r)'
  <2>1. Of[r] \in Proc /\ cursor[r] \in CursorType /\ ReaderInv(r)
           /\ got[r] \in Nat /\ lost[r] \in Nat
    BY ProcessOutputAssumption DEF ReaderPart, ReaderTypes
  <2>2. CASE r \in R
    <3>1. Of[r] = p /\ sent'[Of[r]] = s
      BY <2>2
    <3>2. got[r] + lost[r] = Position(s, cursor[r])
      BY <2>1, <2>2 DEF ReaderInv
    <3>3. Position(s, cursor'[r]) \in Nat
      BY <1>1, <1>3, <2>2, PlaceIsIn DEF ReaderTypes, CursorType
    <3>4. got'[r] \in Nat /\ lost'[r] \in Nat
      BY <1>3 DEF ReaderTypes
    <3>5. got'[r] + lost'[r] = Position(s, cursor'[r])
      BY <1>3, <2>1, <2>2, <3>2, <3>3, <3>4
    <3> QED
      BY <1>3, <2>2, <3>1, <3>5 DEF ReaderInv
  <2>3. CASE r \notin R /\ Of[r] = p
    <3>1. Place(s, cursor[r]) /\ Position(s, cursor[r]) = Position(sent[p], cursor[r])
      BY <2>1, <2>3 DEF ReaderInv
    <3>2. phase[r] = "waiting" => s = sent[p] /\ over = logClosed[p]
      BY <2>3 DEF Waiters
    <3> QED
      BY <1>3, <2>1, <2>3, <3>1, <3>2 DEF ReaderInv, AtTail
  <2>4. CASE r \notin R /\ Of[r] # p
    BY <1>3, <2>1, <2>4 DEF ReaderInv, AtTail
  <2> QED
    BY <2>2, <2>3, <2>4
<1>5. ASSUME NEW q \in Proc
      PROVE  WaitersInv(q)'
  <2>1. Waiters(q)' \subseteq Waiters(q)
    BY <1>3 DEF Waiters
  <2> QED
    BY <2>1, FewerWaiters DEF ReaderPart
<1>6. ASSUME NEW r \in R
      PROVE  Received(r)
  <2>1. Of[r] = p /\ cursor[r] \in CursorType /\ Place(sent[p], cursor[r])
           /\ got[r] + lost[r] = Position(sent[p], cursor[r])
    BY DEF ReaderPart, ReaderTypes, ReaderInv
  <2>2. Position(s, cursor[r]) = got[r] + lost[r] /\ Kept(Of[r])' = Position(s, e)
    BY <2>1 DEF Kept, e
  <2>3. /\ cursor'[r] \in [seq : Nat, off : Nat] /\ Place(s, cursor'[r])
        /\ got'[r] + lost'[r] = Position(s, cursor'[r])
    BY <1>3, <1>4, <2>1 DEF ReaderTypes, CursorType, ReaderInv
  <2>4. /\ Position(s, cursor'[r]) \in Nat /\ Bytes(s, cursor'[r]) \in Nat
        /\ cursor'[r] = TailCursor(s) => Bytes(s, cursor'[r]) = 0
    BY <1>1, <2>3, PlaceIsIn
  <2>5. Total(Of[r])' = Start(s, Len(s)) /\ Start(s, Len(s)) \in Nat
    BY <1>1, <2>1, StartType DEF Total
  <2>6. /\ got'[r] + lost'[r] <= Total(Of[r])'
        /\ cursor'[r] = TailCursor(s) => got'[r] + lost'[r] = Total(Of[r])'
    BY <2>3, <2>4, <2>5 DEF Bytes
  <2> QED
    BY <1>3, <2>2, <2>6 DEF Received
<1>7. ReadersMove
  BY <1>3, <1>6 DEF ReadersMove
<1> QED
  BY <1>3, <1>4, <1>5, <1>7 DEF ReaderPart

-----------------------------------------------------------------------------
(* The log *)

\* What a step does to the verdicts of clients: a new one is true.
NewVerdicts ==
    \A r \in Reader :
       /\ phase'[r] = "eof" => phase[r] = "eof" \/ logClosed'[Of[r]]
       /\ phase'[r] = "unavailable" => phase[r] = "unavailable" \/ ~known[Of[r]]

\* A log that was closed stays closed.
ClosedStays == \A p \in Proc : logClosed[p] => logClosed'[p]

LogStep ==
    /\ LogPart' /\ ReaderPart'
    /\ NewVerdicts /\ ClosedStays
    /\ StreamsGrow /\ ReadersMove

\* The log stays within its limit and its earliest cursor a place in it, and
\* every place in it is where it was.
LEMMA DataLog ==
    ASSUME LogPart, ReaderPart, NEW p \in Proc, NEW n \in ChunkSize, Data(p, n)
    PROVE  LogStep
<1> DEFINE old == sent[p]
           s == Longer(old, n)
           e == IF Bytes(s, earliest[p]) > MaxBufferBytes
                THEN Trimmed(s, earliest[p]) ELSE earliest[p]
<1>1. /\ sent' = [sent EXCEPT ![p] = s]
      /\ earliest' = [earliest EXCEPT ![p] = e]
      /\ Answer(Waiters(p), s, e, logClosed[p])
      /\ logClosed' = logClosed
  BY DEF Data, Longer
<1>2. /\ old \in Seq(Nat) /\ Growing(old) /\ earliest[p] \in CursorType
      /\ Place(old, earliest[p])
      /\ \A q \in 1..Len(old) : Size(old, q - 1) \in ChunkSize
  BY DEF LogPart, LogTypes, LogInv
<1>3. n \in Nat \ {0} /\ MaxBufferBytes \in Nat
  BY ProcessOutputAssumption
<1>4. /\ s \in Seq(Nat) /\ Growing(s) /\ Len(s) = Len(old) + 1
      /\ \A q \in 0..Len(old) : Start(s, q) = Start(old, q)
      /\ Start(s, Len(s)) = Start(old, Len(old)) + n
      /\ \A c \in CursorType :
            Place(old, c) => Place(s, c) /\ Position(s, c) = Position(old, c)
  BY <1>2, <1>3, AppendKeeps DEF CursorType
<1> HIDE DEF s
<1>5. ASSUME NEW q \in 1..Len(s)
      PROVE  Size(s, q - 1) \in ChunkSize
  <2>1. Len(old) \in Nat /\ Start(old, Len(old)) \in Nat
    BY <1>2, StartType
  <2>2. CASE q \in 1..Len(old)
    <3>1. q - 1 \in 0..Len(old) /\ (q - 1) + 1 = q /\ q \in 0..Len(old)
      BY <2>1, <2>2
    <3> QED
      BY <1>2, <1>4, <2>2, <3>1 DEF Size
  <2>3. CASE q = Len(s)
    <3>1. q - 1 = Len(old) /\ (q - 1) + 1 = Len(s) /\ Len(old) \in 0..Len(old)
      BY <1>4, <2>1, <2>3
    <3>2. Size(s, q - 1) = Start(s, Len(s)) - Start(old, Len(old))
      BY <1>4, <3>1 DEF Size
    <3>3. Size(s, q - 1) = n
      BY <1>3, <1>4, <2>1, <3>2
    <3> QED
      BY <3>3
  <2> QED
    BY <1>4, <2>1, <2>2, <2>3
<1>6. e \in CursorType /\ Place(s, e) /\ Bytes(s, e) <= MaxBufferBytes
  <2>1. earliest[p] \in [seq : Nat, off : Nat] /\ Place(s, earliest[p])
    BY <1>2, <1>4 DEF CursorType
  <2>2. CASE Bytes(s, earliest[p]) > MaxBufferBytes
    BY <1>4, <2>1, <2>2, TrimmedPlace DEF CursorType
  <2>3. CASE ~(Bytes(s, earliest[p]) > MaxBufferBytes)
    <3>1. Bytes(s, earliest[p]) \in Nat
      BY <1>4, <2>1, PlaceIsIn
    <3> QED
      BY <1>3, <2>1, <2>3, <3>1 DEF CursorType
  <2> QED
    BY <2>2, <2>3
<1> HIDE DEF e
<1>7. sent'[p] = s /\ earliest'[p] = e /\ logClosed'[p] = logClosed[p]
  BY <1>1 DEF LogPart, LogTypes
<1>8. \A q \in Proc \ {p} : sent'[q] = sent[q] /\ earliest'[q] = earliest[q]
                              /\ logClosed'[q] = logClosed[q]
  BY <1>1 DEF LogPart, LogTypes
<1>9. LogTypes'
  BY <1>1, <1>4, <1>6 DEF LogPart, LogTypes
<1>10. ASSUME NEW q \in Proc
       PROVE  LogInv(q)'
  <2>1. CASE q = p
    BY <1>4, <1>5, <1>6, <1>7, <2>1 DEF LogInv
  <2>2. CASE q # p
    BY <1>8, <2>2 DEF LogInv, LogPart
  <2> QED
    BY <2>1, <2>2
<1>11. LogPart'
  BY <1>9, <1>10 DEF LogPart
<1>12. Waiters(p) \in SUBSET {r \in Reader : Of[r] = p}
  BY DEF Waiters
<1>13. /\ ReaderPart' /\ ReadersMove
       /\ \A r \in Waiters(p) : phase'[r] \in {"idle", "eof"} /\ (phase'[r] = "eof" => logClosed[p])
       /\ \A r \in Reader \ Waiters(p) : phase'[r] = phase[r]
  <2>1. Answer(Waiters(p), sent'[p], earliest'[p], logClosed'[p])
    BY Zenon, <1>1, <1>7
  <2> QED
    BY <1>1, <1>4, <1>7, <1>8, <1>11, <1>12, <2>1, AnswerKeeps
<1>14. NewVerdicts
  BY <1>1, <1>12, <1>13 DEF NewVerdicts
<1>15. StreamsGrow
  <2>1. ASSUME NEW q \in Proc, q # p
        PROVE  Total(q)' = Total(q) /\ Kept(q)' = Kept(q)
    BY <1>8, <2>1 DEF Total, Kept
  <2>2. /\ Total(p)' = Start(s, Len(s)) /\ Total(p) = Start(old, Len(old))
        /\ Kept(p)' = Position(s, e) /\ Kept(p) = Position(old, earliest[p])
    BY <1>7 DEF Total, Kept
  <2>3. Start(old, Len(old)) \in Nat
    BY <1>2, StartType
  <2>4. Position(s, earliest[p]) = Kept(p) /\ Place(s, earliest[p])
           /\ earliest[p] \in [seq : Nat, off : Nat]
    BY <1>2, <1>4, <2>2 DEF CursorType
  <2>5. /\ Position(s, e) \in Nat /\ Bytes(s, e) \in Nat
        /\ Bytes(s, e) = 0 => e = TailCursor(s)
        /\ Position(s, earliest[p]) \in Nat /\ Bytes(s, earliest[p]) \in Nat
    BY <1>4, <1>6, <2>4, PlaceIsIn DEF CursorType
  <2>6. /\ Bytes(s, e) = Total(p)' - Kept(p)'
        /\ Bytes(s, earliest[p]) = Total(p)' - Kept(p)
    BY <2>2, <2>4 DEF Bytes
  <2>7. Total(p)' > Total(p) /\ Total(p)' \in Nat
    BY <1>3, <1>4, <2>2, <2>3
  <2>8. CASE Bytes(s, earliest[p]) > MaxBufferBytes
    <3>1. e = Trimmed(s, earliest[p])
      BY <2>8 DEF e
    <3>2. Position(s, earliest[p]) < Position(s, e) /\ Bytes(s, e) > 0
      BY <1>4, <2>4, <2>8, <3>1, TrimmedPlace DEF CursorType
    <3>3. Total(p)' - Kept(p)' \in 1..MaxBufferBytes
      BY <1>3, <1>6, <2>5, <2>6, <3>2
    <3>4. Kept(p)' >= Kept(p) /\ Total(p)' - Kept(p) > MaxBufferBytes
      BY <2>2, <2>4, <2>5, <2>6, <2>8, <3>2
    <3> QED
      BY <2>1, <2>7, <3>3, <3>4 DEF StreamsGrow
  <2>9. CASE ~(Bytes(s, earliest[p]) > MaxBufferBytes)
    <3>1. e = earliest[p]
      BY <2>9 DEF e
    <3>2. Kept(p)' = Kept(p) /\ Kept(p) \in Nat
      BY <2>2, <2>4, <2>5, <3>1
    <3>3. Bytes(s, e) # 0
      BY <1>2, <1>3, <1>4, <3>1, <2>5, AppendKeeps DEF CursorType, s
    <3>4. Total(p)' - Kept(p)' \in 1..MaxBufferBytes
      BY <1>3, <1>6, <2>5, <2>6, <3>3
    <3> QED
      BY <2>1, <2>7, <3>2, <3>4 DEF StreamsGrow
  <2> QED
    BY <2>8, <2>9
<1> QED
  BY <1>1, <1>11, <1>13, <1>14, <1>15 DEF LogStep, ClosedStays

\* The end of output is told to all that wait for it.
LEMMA CloseLog ==
    ASSUME LogPart, ReaderPart, NEW p \in Proc, CloseOutput(p)
    PROVE  LogStep /\ logClosed'[p]
<1>1. /\ logClosed' = [logClosed EXCEPT ![p] = TRUE]
      /\ sent' = sent /\ earliest' = earliest
  BY DEF CloseOutput
<1>2. logClosed'[p] /\ \A q \in Proc \ {p} : logClosed'[q] = logClosed[q]
  BY <1>1 DEF LogPart, LogTypes
<1>3. LogPart'
  BY <1>1 DEF LogPart, LogTypes, LogInv
<1>4. ClosedStays
  BY <1>2 DEF ClosedStays
<1>5. ReaderPart' /\ NewVerdicts /\ ReadersMove
  <2>1. CASE logClosed[p]
    <3>1. UNCHANGED <<cursor, phase, got, lost>> /\ logClosed' = logClosed
      BY <1>1, <2>1 DEF CloseOutput, readerVars, LogPart, LogTypes
    <3> QED
      BY <1>1, <3>1 DEF ReaderPart, ReaderTypes, ReaderInv, AtTail, WaitersInv, Waiters,
                        NewVerdicts, ReadersMove
  <2>2. CASE ~logClosed[p]
    <3>1. Answer(Waiters(p), sent[p], earliest[p], TRUE)
      BY <2>2 DEF CloseOutput
    <3>2. Waiters(p) \in SUBSET {r \in Reader : Of[r] = p}
      BY DEF Waiters
    <3>3. logClosed'[p] = TRUE
      BY <1>1 DEF LogPart, LogTypes
    <3>4. Answer(Waiters(p), sent'[p], earliest'[p], logClosed'[p])
      BY Zenon, <1>1, <3>1, <3>3
    <3>5. /\ \A q \in Proc \ {p} : sent'[q] = sent[q] /\ logClosed'[q] = logClosed[q]
          /\ \A c \in CursorType : Place(sent[p], c) =>
                Place(sent'[p], c) /\ Position(sent'[p], c) = Position(sent[p], c)
      BY <1>1, <1>2
    <3>6. /\ ReaderPart' /\ ReadersMove
          /\ \A r \in Waiters(p) : phase'[r] \in {"idle", "eof"}
          /\ \A r \in Reader \ Waiters(p) : phase'[r] = phase[r]
      BY <1>3, <3>2, <3>4, <3>5, AnswerKeeps
    <3> QED
      BY <1>2, <3>2, <3>6 DEF NewVerdicts
  <2> QED
    BY <2>1, <2>2
<1>6. StreamsGrow
  BY <1>1 DEF StreamsGrow, Total, Kept
<1> QED
  BY <1>2, <1>3, <1>4, <1>5, <1>6 DEF LogStep

\* A client is answered from the log as it is.
LEMMA ReadLog ==
    ASSUME LogPart, ReaderPart, NEW r \in Reader, UNCHANGED logVars,
           Answer({r}, sent[Of[r]], earliest[Of[r]], logClosed[Of[r]])
    PROVE  LogStep
<1> DEFINE p == Of[r]
<1>1. p \in Proc
  BY ProcessOutputAssumption
<1>2. sent' = sent /\ earliest' = earliest /\ logClosed' = logClosed
  BY DEF logVars
<1>3. LogPart'
  BY <1>2 DEF LogPart, LogTypes, LogInv
<1>4. {r} \in SUBSET {x \in Reader : Of[x] = p}
  OBVIOUS
<1>5. /\ ReaderPart' /\ ReadersMove
      /\ \A x \in {r} : phase'[x] \in {"idle", "eof"} /\ (phase'[x] = "eof" => logClosed[p])
      /\ \A x \in Reader \ {r} : phase'[x] = phase[x]
  <2>1. Answer({r}, sent'[p], earliest'[p], logClosed'[p])
    BY <1>2
  <2> QED
    BY <1>1, <1>2, <1>3, <1>4, <2>1, AnswerKeeps
<1>6. StreamsGrow
  BY <1>2 DEF StreamsGrow, Total, Kept
<1> QED
  BY <1>2, <1>3, <1>5, <1>6 DEF LogStep, NewVerdicts, ClosedStays

LEMMA SameLog ==
    ASSUME LogPart, ReaderPart, UNCHANGED <<logVars, readerVars>>
    PROVE  LogStep
BY DEF LogStep, logVars, readerVars, LogPart, LogTypes, LogInv, ReaderPart, ReaderTypes,
       ReaderInv, AtTail, WaitersInv, Waiters, NewVerdicts, ClosedStays,
       StreamsGrow, Total, Kept, ReadersMove

\* A client that is registered makes one more that waits.
LEMMA WaitLog ==
    ASSUME LogPart, ReaderPart, NEW r \in Reader, Wait(r)
    PROVE  LogStep
<1> DEFINE p == Of[r]
<1>1. /\ phase[r] = "idle" /\ AtTail(r) /\ ~logClosed[p]
      /\ Cardinality(Waiters(p)) < MaxWaiters
      /\ phase' = [phase EXCEPT ![r] = "waiting"]
      /\ UNCHANGED <<sent, earliest, logClosed, cursor, got, lost>>
  BY DEF Wait, logVars
<1>2. p \in Proc
  BY ProcessOutputAssumption
<1>3. phase \in [Reader -> Phases]
  BY DEF ReaderPart, ReaderTypes
<1>4. LogPart'
  BY <1>1 DEF LogPart, LogTypes, LogInv
<1>5. ReaderTypes'
  BY <1>1 DEF ReaderPart, ReaderTypes, Phases
<1>6. ASSUME NEW x \in Reader
      PROVE  ReaderInv(x)'
  BY <1>1, <1>3 DEF ReaderPart, ReaderInv, AtTail
<1>7. ASSUME NEW q \in Proc
      PROVE  WaitersInv(q)'
  <2>1. CASE q = p
    <3>1. Waiters(p)' = Waiters(p) \cup {r} /\ r \notin Waiters(p)
      BY <1>1, <1>3 DEF Waiters
    <3>2. IsFiniteSet(Waiters(p))
      BY <1>2 DEF ReaderPart, WaitersInv
    <3>3. IsFiniteSet(Waiters(p)') /\ Cardinality(Waiters(p)') = Cardinality(Waiters(p)) + 1
      BY <3>1, <3>2, FS_AddElement
    <3>4. Cardinality(Waiters(p)) \in Nat /\ MaxWaiters \in Nat
      BY <3>2, FS_CardinalityType, ProcessOutputAssumption
    <3> QED
      BY <1>1, <2>1, <3>3, <3>4 DEF WaitersInv
  <2>2. CASE q # p
    <3>1. Waiters(q)' = Waiters(q)
      BY <1>1, <1>3, <2>2 DEF Waiters
    <3> QED
      BY <3>1 DEF ReaderPart, WaitersInv
  <2> QED
    BY <2>1, <2>2
<1>8. NewVerdicts /\ ClosedStays /\ StreamsGrow /\ ReadersMove
  BY <1>1, <1>3 DEF NewVerdicts, ClosedStays, StreamsGrow, Total, Kept, ReadersMove
<1> QED
  BY <1>4, <1>5, <1>6, <1>7, <1>8 DEF LogStep, ReaderPart

\* A client stops to wait, or to read.
LEMMA StopLog ==
    ASSUME LogPart, ReaderPart, NEW r \in Reader, NEW how \in {"idle", "unavailable"},
           UNCHANGED logVars, UNCHANGED <<cursor, got, lost>>,
           phase' = [phase EXCEPT ![r] = how],
           how = "unavailable" => ~known[Of[r]]
    PROVE  LogStep
<1>1. UNCHANGED <<sent, earliest, logClosed, cursor, got, lost>>
  BY DEF logVars
<1>2. phase \in [Reader -> Phases]
  BY DEF ReaderPart, ReaderTypes
<1>3. LogPart'
  BY <1>1 DEF LogPart, LogTypes, LogInv
<1>4. ReaderTypes'
  BY <1>1 DEF ReaderPart, ReaderTypes, Phases
<1>5. ASSUME NEW x \in Reader
      PROVE  ReaderInv(x)'
  BY <1>1, <1>2 DEF ReaderPart, ReaderInv, AtTail
<1>6. ASSUME NEW q \in Proc
      PROVE  WaitersInv(q)'
  <2>1. Waiters(q)' \subseteq Waiters(q)
    BY <1>2 DEF Waiters
  <2> QED
    BY <2>1, FewerWaiters DEF ReaderPart
<1>7. NewVerdicts /\ ClosedStays /\ StreamsGrow /\ ReadersMove
  BY <1>1, <1>2 DEF NewVerdicts, ClosedStays, StreamsGrow, Total, Kept, ReadersMove
<1> QED
  BY <1>3, <1>4, <1>5, <1>6, <1>7 DEF LogStep, ReaderPart

-----------------------------------------------------------------------------
(* The steps *)

\* A step of a client, or of the child that writes, leaves the table alone.
SameTable == UNCHANGED <<procVars, driverVars, retained>>

LEMMA LogSteps ==
    ASSUME LogPart, ReaderPart, OutputNext
    PROVE  \/ LogStep /\ SameTable
           \/ \E p \in Proc :
                \/ Started(p) \/ AbandonStart(p) \/ Fault(p)
                \/ QueueInput(p) \/ SettleInput(p)
                \/ ChildExit(p) \/ StreamsClose(p) \/ DriverDrain(p) \/ ManagerDrain(p)
                \/ Terminate(p) \/ TerminationWaits(p) \/ TerminationEnds(p)
                \/ Forget(p)
           \/ Shutdown
<1>1. ASSUME NEW p \in Proc, NEW n \in ChunkSize, Data(p, n)
      PROVE  LogStep /\ SameTable
  BY <1>1, DataLog DEF Data, SameTable
<1>2. ASSUME NEW r \in Reader, Read(r)
      PROVE  LogStep /\ SameTable
  BY <1>2, ReadLog DEF Read, SameTable
<1>3. ASSUME NEW r \in Reader, Wait(r)
      PROVE  LogStep /\ SameTable
  BY <1>3, WaitLog DEF Wait, SameTable
<1>4. ASSUME NEW r \in Reader, ReadUnavailable(r)
      PROVE  LogStep /\ SameTable
  <2>1. ~known[Of[r]]
    BY <1>4 DEF ReadUnavailable, Found
  <2> QED
    BY <1>4, <2>1, StopLog DEF ReadUnavailable, SameTable
<1>5. ASSUME NEW r \in Reader, WaitEnds(r)
      PROVE  LogStep /\ SameTable
  <2>1. CASE Answer({r}, sent[Of[r]], earliest[Of[r]], logClosed[Of[r]])
    BY <1>5, <2>1, ReadLog DEF WaitEnds, SameTable
  <2>2. CASE phase' = [phase EXCEPT ![r] = "idle"] /\ UNCHANGED <<cursor, got, lost>>
    BY <1>5, <2>2, StopLog DEF WaitEnds, SameTable
  <2> QED
    BY <1>5, <2>1, <2>2 DEF WaitEnds
<1> QED
  BY <1>1, <1>2, <1>3, <1>4, <1>5 DEF OutputNext

\* A process leaves the table when it ended and its output is closed.
LEMMA EvictType ==
    ASSUME TableTypes, TimerTypes, NEW p \in Proc, NEW st, NEW over, NEW gone,
           MaybeEvict(p, st, over, gone)
    PROVE  /\ known' \in [Proc -> BOOLEAN] /\ retained' \subseteq Proc
           /\ terminating' \in [Proc -> BOOLEAN]
           /\ \A q \in Proc : ~known[q] => ~known'[q]
           /\ \A q \in Proc : ~known'[q] => ~known[q] \/ (q = p /\ st = "ended" /\ over)
<1> USE DEF TableTypes, TimerTypes
<1>1. CASE st = "ended" /\ over /\ ~queued[p]
  <2>1. /\ known' = [known EXCEPT ![p] = FALSE]
        /\ retained' = retained \cup {p}
        /\ terminating' = [terminating EXCEPT ![p] = @ \/ ~gone]
    BY <1>1 DEF MaybeEvict
  <2>2. (terminating[p] \/ ~gone) \in BOOLEAN
    OBVIOUS
  <2> QED
    BY <1>1, <2>1, <2>2
<1>2. CASE ~(st = "ended" /\ over /\ ~queued[p])
  BY <1>2 DEF MaybeEvict
<1> QED
  BY <1>1, <1>2

\* A process that has left the table does not come back.
GoneStays == \A p \in Proc : ~known[p] => ~known'[p]

TableStep == LogStep /\ TablePart' /\ GoneStays

\* The record of a process follows its log: it is closed after the log, and
\* leaves the table after both.
LEMMA TableKeeps ==
    ASSUME TablePart, ClosedStays, TableTypes', TimerTypes', shutDown => shutDown',
           \A p \in Proc : infoClosed'[p] => infoClosed[p] \/ logClosed'[p],
           \A p \in Proc : infoClosed[p] => infoClosed'[p],
           \A p \in Proc : Ended(p) => state'[p] = "ended",
           \A p \in Proc : state'[p] = "ended" =>
               \/ logClosed'[p] \/ managerTimer'[p] \/ shutDown'
               \/ Ended(p) /\ (managerTimer[p] => managerTimer'[p]),
           \A p \in Proc : ~known'[p] => ~known[p] \/ (state'[p] = "ended" /\ infoClosed'[p])
    PROVE  TablePart'
BY DEF TablePart, TableInv, ClosedStays, Ended

LEMMA MarkStep ==
    ASSUME LogPart, ReaderPart, TablePart, NEW p \in Proc,
           MarkOutputClosed(p), exited' = exited
    PROVE  TableStep
<1> USE DEF TableTypes, TimerTypes
<1>1. /\ streamClosed' = [streamClosed EXCEPT ![p] = TRUE]
      /\ driverTimer' = [driverTimer EXCEPT ![p] = FALSE]
      /\ managerTimer' = [managerTimer EXCEPT ![p] = FALSE]
      /\ CloseOutput(p)
      /\ infoClosed' = [infoClosed EXCEPT ![p] = @ \/ ~logClosed[p]]
      /\ MaybeEvict(p, state[p], infoClosed'[p], exited[p])
      /\ state' = state /\ queued' = queued /\ shutDown' = shutDown
  BY DEF MarkOutputClosed, OutputClosed
<1>2. LogStep /\ logClosed'[p]
  BY <1>1, CloseLog
<1>3. TableTypes /\ TimerTypes /\ logClosed \in [Proc -> BOOLEAN]
  BY DEF TablePart, LogPart, LogTypes
<1>4. (infoClosed[p] \/ ~logClosed[p]) \in BOOLEAN
  OBVIOUS
<1>5. infoClosed' \in [Proc -> BOOLEAN]
  BY <1>1, <1>3, <1>4
<1>6. /\ known' \in [Proc -> BOOLEAN] /\ retained' \subseteq Proc
      /\ terminating' \in [Proc -> BOOLEAN]
      /\ \A q \in Proc : ~known[q] => ~known'[q]
      /\ \A q \in Proc : ~known'[q] => ~known[q] \/ (q = p /\ state[p] = "ended" /\ infoClosed'[p])
  BY <1>1, <1>3, EvictType
<1>7. TableTypes' /\ TimerTypes'
  BY <1>1, <1>3, <1>5, <1>6
<1>8. \A q \in Proc : infoClosed'[q] => infoClosed[q] \/ logClosed'[q]
  BY <1>1, <1>2, <1>3
<1>9. \A q \in Proc : infoClosed[q] => infoClosed'[q]
  BY <1>1, <1>3
<1>10. TablePart'
  BY <1>1, <1>2, <1>6, <1>7, <1>8, <1>9, TableKeeps DEF LogStep, Ended
<1> QED
  BY <1>2, <1>6, <1>10 DEF TableStep, GoneStays

LEMMA FaultStep ==
    ASSUME LogPart, ReaderPart, TablePart, NEW p \in Proc, Fault(p)
    PROVE  TableStep
<1> USE DEF TableTypes, TimerTypes
<1>1. /\ exited' = [exited EXCEPT ![p] = TRUE]
      /\ streamClosed' = [streamClosed EXCEPT ![p] = TRUE]
      /\ driverTimer' = [driverTimer EXCEPT ![p] = FALSE]
      /\ state' = [state EXCEPT ![p] = "ended"]
      /\ infoClosed' = [infoClosed EXCEPT ![p] = @ \/ ~Ended(p)]
      /\ managerTimer' = [managerTimer EXCEPT ![p] = FALSE]
      /\ CloseOutput(p)
      /\ MaybeEvict(p, "ended", infoClosed'[p], TRUE)
      /\ queued' = queued /\ shutDown' = shutDown
  BY DEF Fault
<1>2. LogStep /\ logClosed'[p]
  BY <1>1, CloseLog
<1>3. TableTypes /\ TimerTypes
  BY DEF TablePart
<1>4. (infoClosed[p] \/ ~Ended(p)) \in BOOLEAN
  BY DEF Ended
<1>5. infoClosed' \in [Proc -> BOOLEAN]
  BY <1>1, <1>3, <1>4
<1>6. /\ known' \in [Proc -> BOOLEAN] /\ retained' \subseteq Proc
      /\ terminating' \in [Proc -> BOOLEAN]
      /\ \A q \in Proc : ~known[q] => ~known'[q]
      /\ \A q \in Proc : ~known'[q] => ~known[q] \/ (q = p /\ infoClosed'[p])
  BY <1>1, <1>3, EvictType
<1>7. TableTypes' /\ TimerTypes'
  BY <1>1, <1>3, <1>5, <1>6
<1>8. \A q \in Proc : infoClosed'[q] => infoClosed[q] \/ logClosed'[q]
  BY <1>1, <1>2, <1>3
<1>9. \A q \in Proc : infoClosed[q] => infoClosed'[q]
  BY <1>1, <1>3
<1>10. \A q \in Proc : Ended(q) => state'[q] = "ended"
  BY <1>1, <1>3 DEF Ended
<1>11. state'[p] = "ended"
  BY <1>1, <1>3
<1>12. \A q \in Proc : state'[q] = "ended" =>
            \/ logClosed'[q] \/ managerTimer'[q]
            \/ Ended(q) /\ (managerTimer[q] => managerTimer'[q])
  BY <1>1, <1>2, <1>3 DEF Ended
<1>13. TablePart'
  BY <1>1, <1>2, <1>6, <1>7, <1>8, <1>9, <1>10, <1>11, <1>12, TableKeeps DEF LogStep
<1> QED
  BY <1>2, <1>6, <1>13 DEF TableStep, GoneStays

LEMMA ManagerDrainStep ==
    ASSUME LogPart, ReaderPart, TablePart, NEW p \in Proc, ManagerDrain(p)
    PROVE  TableStep
<1> USE DEF TableTypes, TimerTypes
<1>1. TableTypes /\ TimerTypes
  BY DEF TablePart
<1>2. /\ managerTimer' = [managerTimer EXCEPT ![p] = FALSE]
      /\ UNCHANGED <<state, queued, shutDown, exited, streamClosed, driverTimer>>
  BY DEF ManagerDrain
<1>3. CASE logClosed[p]
  <2>1. UNCHANGED <<logVars, readerVars, infoClosed, known, retained, terminating>>
    BY <1>3 DEF ManagerDrain
  <2>2. LogStep
    BY <2>1, SameLog
  <2>3. \A q \in Proc : state'[q] = "ended" =>
             \/ logClosed'[q] \/ managerTimer'[q]
             \/ Ended(q) /\ (managerTimer[q] => managerTimer'[q])
    BY <1>1, <1>2, <1>3, <2>1 DEF Ended, logVars
  <2>4. TablePart'
    BY <1>1, <1>2, <2>1, <2>2, <2>3, TableKeeps DEF LogStep, Ended
  <2> QED
    BY <2>1, <2>2, <2>4 DEF TableStep, GoneStays
<1>4. CASE ~logClosed[p]
  <2>1. /\ CloseOutput(p)
        /\ infoClosed' = [infoClosed EXCEPT ![p] = TRUE]
        /\ MaybeEvict(p, state[p], TRUE, exited[p] /\ streamClosed[p])
    BY <1>4 DEF ManagerDrain
  <2>2. LogStep /\ logClosed'[p]
    BY <2>1, CloseLog
  <2>3. /\ known' \in [Proc -> BOOLEAN] /\ retained' \subseteq Proc
        /\ terminating' \in [Proc -> BOOLEAN]
        /\ \A q \in Proc : ~known[q] => ~known'[q]
        /\ \A q \in Proc : ~known'[q] => ~known[q] \/ (q = p /\ state[p] = "ended")
    BY <1>1, <2>1, EvictType
  <2>4. infoClosed' \in [Proc -> BOOLEAN]
    BY <1>1, <2>1
  <2>5. TableTypes' /\ TimerTypes'
    BY <1>1, <1>2, <2>3, <2>4
  <2>6. \A q \in Proc : infoClosed'[q] => infoClosed[q] \/ logClosed'[q]
    BY <1>1, <2>1, <2>2
  <2>7. infoClosed'[p] /\ \A q \in Proc : infoClosed[q] => infoClosed'[q]
    BY <1>1, <2>1
  <2>8. \A q \in Proc : state'[q] = "ended" =>
             \/ logClosed'[q] \/ managerTimer'[q]
             \/ Ended(q) /\ (managerTimer[q] => managerTimer'[q])
    BY <1>1, <1>2, <2>2 DEF Ended
  <2>9. TablePart'
    BY <1>2, <2>2, <2>3, <2>5, <2>6, <2>7, <2>8, TableKeeps DEF LogStep, Ended
  <2> QED
    BY <2>2, <2>3, <2>9 DEF TableStep, GoneStays
<1> QED
  BY <1>3, <1>4

LEMMA AbandonStep ==
    ASSUME LogPart, ReaderPart, TablePart, NEW p \in Proc, AbandonStart(p)
    PROVE  TableStep
<1> USE DEF TableTypes, TimerTypes
<1>1. /\ state' = [state EXCEPT ![p] = "ended"]
      /\ CloseOutput(p)
      /\ terminating' = [terminating EXCEPT ![p] = ~exited[p] \/ ~streamClosed[p]]
      /\ UNCHANGED <<infoClosed, queued, managerTimer, known, shutDown, exited, streamClosed,
                     driverTimer, retained>>
  BY DEF AbandonStart
<1>2. TableTypes /\ TimerTypes
  BY DEF TablePart
<1>3. LogStep /\ logClosed'[p]
  BY <1>1, CloseLog
<1>4. (~exited[p] \/ ~streamClosed[p]) \in BOOLEAN
  OBVIOUS
<1>5. TableTypes' /\ TimerTypes'
  BY <1>1, <1>2, <1>4
<1>6. \A q \in Proc : Ended(q) => state'[q] = "ended"
  BY <1>1, <1>2 DEF Ended
<1>7. \A q \in Proc : state'[q] = "ended" =>
           \/ logClosed'[q] \/ managerTimer'[q]
           \/ Ended(q) /\ (managerTimer[q] => managerTimer'[q])
  BY <1>1, <1>2, <1>3 DEF Ended
<1>8. TablePart'
  BY <1>1, <1>3, <1>5, <1>6, <1>7, TableKeeps DEF LogStep
<1> QED
  BY <1>1, <1>3, <1>8 DEF TableStep, GoneStays

\* The steps that touch neither the log nor its clients.
LEMMA QuietStep ==
    ASSUME LogPart, ReaderPart, TablePart, NEW p \in Proc,
           \/ Started(p) \/ ChildExit(p) \/ Terminate(p) \/ TerminationWaits(p)
           \/ QueueInput(p) \/ SettleInput(p) \/ Forget(p)
    PROVE  TableStep
<1> USE DEF TableTypes, TimerTypes, procVars, driverVars
<1>1. TableTypes /\ TimerTypes
  BY DEF TablePart
<1>2. UNCHANGED <<logVars, readerVars, infoClosed, known, shutDown>>
  BY DEF Started, ChildExit, Terminate, TerminationWaits, QueueInput, SettleInput, Forget
<1>3. LogStep
  BY <1>2, SameLog
<1>4. TableTypes' /\ TimerTypes' /\ \A q \in Proc : Ended(q) => state'[q] = "ended"
  <2>1. CASE Started(p) \/ Terminate(p) \/ TerminationWaits(p)
    BY <1>1, <2>1 DEF Started, Terminate, TerminationWaits, Ended
  <2>2. CASE QueueInput(p) \/ SettleInput(p) \/ Forget(p)
    BY <1>1, <2>2 DEF QueueInput, SettleInput, Forget, Ended
  <2>3. CASE ChildExit(p)
    <3>1. /\ exited' = [exited EXCEPT ![p] = TRUE]
          /\ driverTimer' = [driverTimer EXCEPT ![p] = @ \/ (~terminating[p] /\ ~streamClosed[p])]
          /\ state' = [state EXCEPT ![p] = "ended"]
          /\ managerTimer' = [managerTimer EXCEPT ![p] = @ \/ ~Ended(p)]
          /\ UNCHANGED <<infoClosed, queued, known, shutDown, streamClosed, terminating,
                         retained>>
      BY <2>3 DEF ChildExit
    <3>2. /\ (driverTimer[p] \/ (~terminating[p] /\ ~streamClosed[p])) \in BOOLEAN
          /\ (managerTimer[p] \/ ~Ended(p)) \in BOOLEAN
      OBVIOUS
    <3> QED
      BY <1>1, <3>1, <3>2 DEF Ended
  <2> QED
    BY <2>1, <2>2, <2>3
<1>5. \A q \in Proc : state'[q] = "ended" =>
          \/ managerTimer'[q]
          \/ Ended(q) /\ (managerTimer[q] => managerTimer'[q])
  <2>1. CASE Started(p) \/ Terminate(p) \/ TerminationWaits(p)
    BY <1>1, <2>1 DEF Started, Terminate, TerminationWaits, Ended
  <2>2. CASE QueueInput(p) \/ SettleInput(p) \/ Forget(p)
    BY <2>2 DEF QueueInput, SettleInput, Forget, Ended
  <2>3. CASE ChildExit(p)
    <3>1. /\ state' = [state EXCEPT ![p] = "ended"]
          /\ managerTimer' = [managerTimer EXCEPT ![p] = @ \/ ~Ended(p)]
      BY <2>3 DEF ChildExit
    <3>2. (managerTimer[p] \/ ~Ended(p)) \in BOOLEAN
      OBVIOUS
    <3> QED
      BY <1>1, <3>1, <3>2 DEF Ended
  <2> QED
    BY <2>1, <2>2, <2>3
<1>6. TablePart'
  BY <1>2, <1>3, <1>4, <1>5, TableKeeps DEF LogStep
<1> QED
  BY <1>2, <1>3, <1>6 DEF TableStep, GoneStays

LEMMA ShutdownStep ==
    ASSUME LogPart, ReaderPart, TablePart, Shutdown
    PROVE  TableStep
<1>1. TableTypes /\ TimerTypes
  BY DEF TablePart
<1>2. /\ shutDown' = TRUE
      /\ managerTimer' = [p \in Proc |-> managerTimer[p] /\ ~known[p]]
      /\ UNCHANGED <<state, infoClosed, queued, known, logVars, driverVars, retained,
                     readerVars>>
  BY DEF Shutdown
<1>3. LogStep
  BY <1>2, SameLog
<1>4. managerTimer' \in [Proc -> BOOLEAN]
  BY <1>2
<1>5. TableTypes' /\ TimerTypes'
  BY <1>1, <1>2, <1>4 DEF TableTypes, TimerTypes, driverVars
<1>6. TablePart'
  BY <1>2, <1>3, <1>5, TableKeeps DEF LogStep, Ended
<1> QED
  BY <1>2, <1>3, <1>6 DEF TableStep, GoneStays

-----------------------------------------------------------------------------
(* Every step keeps the invariant *)

LEMMA InitOutputInv == OutputInit => OutputInv
<1> SUFFICES ASSUME OutputInit
             PROVE  OutputInv
  OBVIOUS
<1> USE DEF OutputInit
<1>1. LogTypes /\ ReaderTypes /\ TableTypes /\ TimerTypes
  <2>1. LogTypes /\ ReaderTypes
    BY DEF LogTypes, ReaderTypes, CursorType, Phases, Cursor
  <2>2. TableTypes
    BY DEF TableTypes
  <2>3. shutDown \in BOOLEAN
    OBVIOUS
  <2> QED
    BY <2>1, <2>2, <2>3 DEF TimerTypes
<1>2. ASSUME NEW p \in Proc
      PROVE  LogInv(p) /\ TableInv(p) /\ WaitersInv(p)
  <2>1. sent[p] = <<>> /\ Len(sent[p]) = 0 /\ earliest[p] = Cursor(0, 0)
    OBVIOUS
  <2>2. Growing(sent[p]) /\ Place(sent[p], earliest[p])
    BY <2>1 DEF Growing, Place, TailCursor
  <2>3. Bytes(sent[p], earliest[p]) = 0
    BY <2>1 DEF Bytes, Position, Start, Cursor
  <2>4. Bytes(sent[p], earliest[p]) <= MaxBufferBytes /\ 0 <= MaxWaiters
    BY <2>3, ProcessOutputAssumption
  <2>5. Waiters(p) = {}
    BY DEF Waiters
  <2> QED
    BY <2>1, <2>2, <2>4, <2>5, FS_EmptySet DEF LogInv, TableInv, WaitersInv, Ended
<1>3. ASSUME NEW r \in Reader
      PROVE  ReaderInv(r) /\ VerdictInv(r)
  <2>1. Of[r] \in Proc
    BY ProcessOutputAssumption
  <2>2. sent[Of[r]] = <<>> /\ Len(sent[Of[r]]) = 0 /\ cursor[r] = Cursor(0, 0)
    BY <2>1
  <2>3. Place(sent[Of[r]], cursor[r])
    BY <2>2 DEF Place, TailCursor
  <2>4. Position(sent[Of[r]], cursor[r]) = 0
    BY <2>2 DEF Position, Start, Cursor
  <2> QED
    BY <2>3, <2>4 DEF ReaderInv, VerdictInv
<1> QED
  BY <1>1, <1>2, <1>3 DEF OutputInv, LogPart, ReaderPart, TablePart

LEMMA OutputStep ==
    ASSUME OutputInv, OutputNext
    PROVE  TableStep
<1> USE DEF OutputInv
<1>1. CASE LogStep /\ SameTable
  <2>1. TablePart' /\ GoneStays
    BY <1>1 DEF SameTable, procVars, driverVars, LogStep, ClosedStays, TablePart, TableTypes,
                TimerTypes, TableInv, Ended, GoneStays
  <2> QED
    BY <1>1, <2>1 DEF TableStep
<1>2. ASSUME NEW p \in Proc,
             \/ StreamsClose(p) \/ DriverDrain(p) \/ TerminationEnds(p)
      PROVE  TableStep
  <2>1. CASE MarkOutputClosed(p) /\ exited' = exited
    BY <2>1, MarkStep
  <2>2. CASE TerminationEnds(p) /\ streamClosed[p]
    <3>1. /\ terminating' = [terminating EXCEPT ![p] = FALSE]
          /\ UNCHANGED <<exited, streamClosed, driverTimer, logVars, procVars,
                         retained, readerVars>>
      BY <2>2 DEF TerminationEnds
    <3>2. LogStep
      BY <3>1, SameLog
    <3>3. TablePart' /\ GoneStays
      BY <3>1, <3>2 DEF procVars, LogStep, ClosedStays, TablePart, TableTypes,
                        TimerTypes, TableInv, Ended, GoneStays
    <3> QED
      BY <3>2, <3>3 DEF TableStep
  <2> QED
    BY <1>2, <2>1, <2>2 DEF StreamsClose, DriverDrain, TerminationEnds
<1>3. ASSUME NEW p \in Proc,
             \/ Started(p) \/ AbandonStart(p) \/ Fault(p)
             \/ QueueInput(p) \/ SettleInput(p)
             \/ ChildExit(p) \/ ManagerDrain(p)
             \/ Terminate(p) \/ TerminationWaits(p) \/ Forget(p)
      PROVE  TableStep
  BY <1>3, AbandonStep, FaultStep, ManagerDrainStep, QuietStep
<1> QED
  BY <1>1, <1>2, <1>3, LogSteps, ShutdownStep

LEMMA OutputKeeps ==
    ASSUME OutputInv, [OutputNext]_outputVars
    PROVE  OutputInv' /\ LogStep /\ GoneStays
<1>1. CASE OutputNext
  <2>1. TableStep
    BY <1>1, OutputStep
  <2>2. ASSUME NEW r \in Reader
        PROVE  VerdictInv(r)'
    <3>1. Of[r] \in Proc /\ VerdictInv(r)
      BY ProcessOutputAssumption DEF OutputInv
    <3> QED
      BY <2>1, <3>1 DEF TableStep, LogStep, NewVerdicts, ClosedStays, GoneStays, VerdictInv
  <2> QED
    BY <2>1, <2>2 DEF TableStep, LogStep, OutputInv
<1>2. CASE UNCHANGED outputVars
  <2>1. LogStep
    BY <1>2, SameLog DEF outputVars, OutputInv
  <2>2. TablePart' /\ GoneStays /\ \A r \in Reader : VerdictInv(r)'
    BY <1>2 DEF outputVars, logVars, procVars, driverVars, readerVars, OutputInv, TablePart,
                TableTypes, TimerTypes, TableInv, Ended, GoneStays, VerdictInv
  <2> QED
    BY <2>1, <2>2 DEF LogStep, OutputInv
<1> QED
  BY <1>1, <1>2

\* The invariant holds in every state (output-log.ts, process-manager.ts:1033-1226).
THEOREM OutputInvariance == OutputSpec => []OutputInv
<1>1. OutputInv /\ [OutputNext]_outputVars => OutputInv'
  BY OutputKeeps
<1> QED
  BY InitOutputInv, <1>1, PTL DEF OutputSpec

-----------------------------------------------------------------------------
(* The theorems about the output *)

LEMMA OutputTypes == OutputInv => OutputTypeOK
<1> SUFFICES ASSUME OutputInv
             PROVE  OutputTypeOK
  OBVIOUS
<1>1. LogTypes /\ ReaderTypes /\ TableTypes /\ TimerTypes
  BY DEF OutputInv, LogPart, ReaderPart, TablePart
<1>2. ASSUME NEW p \in Proc
      PROVE  /\ \A q \in 1..Len(sent[p]) : Size(sent[p], q - 1) \in ChunkSize
             /\ Bytes(sent[p], earliest[p]) \in 0..MaxBufferBytes
             /\ ~Before(TailCursor(sent[p]), earliest[p])
  <2>1. LogInv(p) /\ sent[p] \in Seq(Nat) /\ earliest[p] \in [seq : Nat, off : Nat]
    BY <1>1 DEF OutputInv, LogPart, LogTypes, CursorType
  <2>2. Bytes(sent[p], earliest[p]) \in Nat /\ ~Before(TailCursor(sent[p]), earliest[p])
    BY <2>1, PlaceIsIn DEF LogInv
  <2>3. MaxBufferBytes \in Nat
    BY ProcessOutputAssumption
  <2> QED
    BY <2>1, <2>2, <2>3 DEF LogInv
<1>3. ASSUME NEW r \in Reader
      PROVE  ~Before(TailCursor(sent[Of[r]]), cursor[r])
  <2>1. Of[r] \in Proc
    BY ProcessOutputAssumption
  <2>2. /\ sent[Of[r]] \in Seq(Nat) /\ Growing(sent[Of[r]])
        /\ cursor[r] \in [seq : Nat, off : Nat] /\ Place(sent[Of[r]], cursor[r])
    BY <1>1, <2>1 DEF OutputInv, LogPart, LogTypes, LogInv, ReaderPart, ReaderTypes,
                      ReaderInv, CursorType
  <2> QED
    BY <2>2, PlaceIsIn
<1> QED
  BY <1>1, <1>2, <1>3 DEF OutputTypeOK, LogTypes, ReaderTypes, TableTypes, TimerTypes,
                          CursorType, Phases

\* Every byte before the cursor of a client was received once, or the client was
\* told that it is gone, and the log is within its limit (output-log.ts:182-226).
THEOREM EveryByteIsAccountedFor == OutputSpec => []NothingLostSilently
<1>1. OutputInv => NothingLostSilently
  BY OutputTypes DEF OutputInv, ReaderPart, ReaderInv, NothingLostSilently
<1> QED
  BY OutputInvariance, <1>1, PTL

\* A pending read is at the tail of an open log, among as many as may wait
\* (output-log.ts:381-420).
THEOREM WaitsAreNotMissed == OutputSpec => []NoLostWakeUp
<1>1. OutputInv => NoLostWakeUp
  <2> SUFFICES ASSUME OutputInv, NEW r \in Reader, phase[r] = "waiting"
               PROVE  /\ AtTail(r) /\ ~logClosed[Of[r]]
                      /\ Cardinality(Waiters(Of[r])) <= MaxWaiters
    BY DEF NoLostWakeUp
  <2>1. Of[r] \in Proc
    BY ProcessOutputAssumption
  <2> QED
    BY <2>1 DEF OutputInv, ReaderPart, ReaderInv, WaitersInv
<1> QED
  BY OutputInvariance, <1>1, PTL

\* Who was told of the end has read from a closed log; who was told that the
\* output is gone has asked when its process had ended and its log was closed.
VerdictsAreTrue ==
    \A r \in Reader :
        /\ phase[r] = "eof" => logClosed[Of[r]]
        /\ phase[r] = "unavailable" => Ended(Of[r]) /\ logClosed[Of[r]]

\* The last thing a client of the output is told is true
\* (process-manager.ts:777-819, 1193-1226).
THEOREM ReadersAreToldTheTruth == OutputSpec => []VerdictsAreTrue
<1>1. OutputInv => VerdictsAreTrue
  <2> SUFFICES ASSUME OutputInv, NEW r \in Reader
               PROVE  /\ phase[r] = "eof" => logClosed[Of[r]]
                      /\ phase[r] = "unavailable" => Ended(Of[r]) /\ logClosed[Of[r]]
    BY DEF VerdictsAreTrue
  <2>1. Of[r] \in Proc
    BY ProcessOutputAssumption
  <2> QED
    BY <2>1 DEF OutputInv, TablePart, TableInv, VerdictInv
<1> QED
  BY OutputInvariance, <1>1, PTL

\* How far the driver is with the end of output: without the pipes, or with its
\* own timer or a termination that will close them.
DrainAt(p) ==
    /\ Ended(p) => logClosed[p] \/ exited[p]
    /\ streamClosed[p] => logClosed[p]
    /\ exited[p] /\ ~streamClosed[p] => driverTimer[p] \/ terminating[p]

DrainInv == \A p \in Proc : DrainAt(p)

\* A termination that the removal from the table calls for is not one less.
LEMMA EvictKeepsTermination ==
    ASSUME TimerTypes, NEW p \in Proc, NEW st, NEW over, NEW gone,
           MaybeEvict(p, st, over, gone)
    PROVE  \A q \in Proc : terminating[q] => terminating'[q]
BY DEF MaybeEvict, TimerTypes

\* What the driver reports at the end of output.
LEMMA MarkDrains ==
    ASSUME LogPart, ReaderPart, TablePart, DrainInv, NEW p \in Proc,
           MarkOutputClosed(p), exited' = exited
    PROVE  DrainInv'
<1>1. /\ streamClosed' = [streamClosed EXCEPT ![p] = TRUE]
      /\ driverTimer' = [driverTimer EXCEPT ![p] = FALSE]
      /\ CloseOutput(p)
      /\ MaybeEvict(p, state[p], infoClosed'[p], exited[p])
      /\ state' = state
  BY DEF MarkOutputClosed, OutputClosed
<1>2. TimerTypes
  BY DEF TablePart
<1>3. ClosedStays /\ logClosed'[p]
  BY <1>1, CloseLog DEF LogStep
<1>4. \A q \in Proc : terminating[q] => terminating'[q]
  BY <1>1, <1>2, EvictKeepsTermination
<1> QED
  BY <1>1, <1>2, <1>3, <1>4 DEF DrainInv, DrainAt, Ended, ClosedStays, TimerTypes

LEMMA DrainStep ==
    ASSUME OutputInv, DrainInv, OutputNext
    PROVE  DrainInv'
<1> USE DEF DrainInv, DrainAt, Ended, ClosedStays
<1>1. LogPart /\ ReaderPart /\ TablePart /\ TableTypes /\ TimerTypes /\ ClosedStays
  BY OutputStep DEF OutputInv, TablePart, TableStep, LogStep
<1>2. CASE LogStep /\ SameTable
  BY <1>1, <1>2 DEF SameTable, procVars, driverVars
<1>3. CASE Shutdown
  BY <1>1, <1>3 DEF Shutdown, logVars, driverVars
<1>4. ASSUME NEW p \in Proc,
             \/ StreamsClose(p) \/ DriverDrain(p) \/ TerminationEnds(p)
      PROVE  DrainInv'
  <2>1. CASE MarkOutputClosed(p) /\ exited' = exited
    BY <1>1, <2>1, MarkDrains
  <2>2. CASE TerminationEnds(p) /\ streamClosed[p]
    BY <1>1, <2>2 DEF TerminationEnds, TimerTypes, logVars, procVars
  <2> QED
    BY <1>4, <2>1, <2>2 DEF StreamsClose, DriverDrain, TerminationEnds
<1>5. ASSUME NEW p \in Proc, Fault(p)
      PROVE  DrainInv'
  <2>1. /\ exited' = [exited EXCEPT ![p] = TRUE]
        /\ streamClosed' = [streamClosed EXCEPT ![p] = TRUE]
        /\ driverTimer' = [driverTimer EXCEPT ![p] = FALSE]
        /\ state' = [state EXCEPT ![p] = "ended"]
        /\ CloseOutput(p)
        /\ MaybeEvict(p, "ended", infoClosed'[p], TRUE)
    BY <1>5 DEF Fault
  <2>2. logClosed'[p] /\ \A q \in Proc : terminating[q] => terminating'[q]
    BY <1>1, <2>1, CloseLog, EvictKeepsTermination
  <2> QED
    BY <1>1, <2>1, <2>2 DEF TimerTypes, TableTypes
<1>6. ASSUME NEW p \in Proc, AbandonStart(p)
      PROVE  DrainInv'
  <2>1. logClosed'[p]
    BY <1>1, <1>6, CloseLog DEF AbandonStart
  <2> QED
    BY <1>1, <1>6, <2>1 DEF AbandonStart, TimerTypes, TableTypes
<1>7. ASSUME NEW p \in Proc, ManagerDrain(p)
      PROVE  DrainInv'
  <2>1. \A q \in Proc : terminating[q] => terminating'[q]
    BY <1>1, <1>7, EvictKeepsTermination DEF ManagerDrain
  <2> QED
    BY <1>1, <1>7, <2>1 DEF ManagerDrain
<1>8. ASSUME NEW p \in Proc, ChildExit(p)
      PROVE  DrainInv'
  BY <1>1, <1>8 DEF ChildExit, logVars, TimerTypes, TableTypes
<1>9. ASSUME NEW p \in Proc,
             \/ Started(p) \/ Terminate(p) \/ TerminationWaits(p)
             \/ QueueInput(p) \/ SettleInput(p) \/ Forget(p)
      PROVE  DrainInv'
  BY <1>1, <1>9 DEF Started, Terminate, TerminationWaits, QueueInput, SettleInput, Forget,
                    logVars, procVars, driverVars, TimerTypes, TableTypes
<1> QED
  BY <1>1, <1>2, <1>3, <1>4, <1>5, <1>6, <1>7, <1>8, <1>9, LogSteps

\* What the ends of output rest on, for a client of a process that has ended: the
\* log is closed and the client does not wait, or the driver has its own timer or
\* a termination under way, and the manager its timer unless shutdown() cleared it.
EndIsDue ==
    \A r \in Reader :
        Ended(Of[r]) =>
            \/ logClosed[Of[r]] /\ phase[r] # "waiting"
            \/ /\ driverTimer[Of[r]] \/ terminating[Of[r]]
               /\ managerTimer[Of[r]] \/ shutDown

\* A client of a process that has ended does not wait, or for what is due, be the
\* manager shut down or not (process-manager.ts:304-318, 1033-1048, 1193-1226,
\* process-driver.ts:571-577, 839-906, output-log.ts:223-230).
THEOREM TheEndIsDue == OutputSpec => []EndIsDue
<1>1. OutputInit => DrainInv
  BY DEF OutputInit, DrainInv, DrainAt, Ended
<1>2. OutputInv /\ DrainInv /\ [OutputNext]_outputVars => DrainInv'
  BY DrainStep DEF DrainInv, DrainAt, Ended, outputVars, logVars, procVars, driverVars
<1>3. OutputInv /\ DrainInv => EndIsDue
  <2> SUFFICES ASSUME OutputInv, DrainInv, NEW r \in Reader, Ended(Of[r])
               PROVE  \/ logClosed[Of[r]] /\ phase[r] # "waiting"
                      \/ /\ driverTimer[Of[r]] \/ terminating[Of[r]]
                         /\ managerTimer[Of[r]] \/ shutDown
    BY DEF EndIsDue
  <2>1. Of[r] \in Proc
    BY ProcessOutputAssumption
  <2>2. logClosed[Of[r]] \/ managerTimer[Of[r]] \/ shutDown
    BY <2>1 DEF OutputInv, TablePart, TableInv
  <2>3. logClosed[Of[r]] \/ driverTimer[Of[r]] \/ terminating[Of[r]]
    BY <2>1 DEF DrainInv, DrainAt
  <2>4. phase[r] = "waiting" => ~logClosed[Of[r]]
    BY <2>1 DEF OutputInv, ReaderPart, ReaderInv
  <2> QED
    BY <2>2, <2>3, <2>4
<1> QED
  BY OutputInvariance, <1>1, <1>2, <1>3, PTL DEF OutputSpec

LEMMA StreamInit == OutputInit => Stream!Init
<1> SUFFICES ASSUME OutputInit
             PROVE  Stream!Init
  OBVIOUS
<1>1. ASSUME NEW p \in Proc
      PROVE  /\ Start(sent[p], Len(sent[p])) = 0
             /\ Position(sent[p], earliest[p]) = 0
  BY DEF OutputInit, Start, Position, Cursor
<1> QED
  BY <1>1 DEF OutputInit, Stream!Init

LEMMA StreamNext ==
    ASSUME StreamsGrow, ReadersMove
    PROVE  Stream!Next
<1>1. ASSUME NEW p \in Proc
      PROVE  /\ Stream!Writes(p) <=>
                   /\ Total(p)' > Total(p) /\ Kept(p)' >= Kept(p)
                   /\ Kept(p)' > Kept(p) => Total(p)' - Kept(p) > MaxBufferBytes
                   /\ Total(p)' - Kept(p)' \in 1..MaxBufferBytes
  BY DEF Stream!Writes, Total, Kept
<1>2. ASSUME NEW r \in Reader
      PROVE  Received(r) => Stream!Receives(r)
  <2>1. Of[r] \in Proc
    BY ProcessOutputAssumption
  <2> QED
    BY <2>1 DEF Received, Stream!Receives, Stream!At, Total, Kept
<1> QED
  BY <1>1, <1>2 DEF StreamsGrow, ReadersMove, Stream!Next, Total, Kept

\* The log with its cursors implements a stream of which the latest bytes are
\* kept: every step is one of the stream, or leaves it as it is
\* (output-log.ts:172-230, 254-365, 424-482).
THEOREM TheLogIsAStream == OutputSpec => RefinesStream
<1>1. OutputInv /\ [OutputNext]_outputVars => [Stream!Next]_Stream!vars
  BY OutputKeeps, StreamNext DEF LogStep
<1> QED
  BY OutputInvariance, StreamInit, <1>1, PTL DEF OutputSpec, RefinesStream, Stream!Spec
=============================================================================
