---------------------------- MODULE RemoteInvocation ----------------------------
(***************************************************************************)
(* Calls of actions of a remote host (invocation/remote.ts) over the HTTP  *)
(* client (client/actions.ts, service/remote.ts, service/remote-polling.ts).*)
(* A call discovers the action, posts a start with a fresh request id,     *)
(* waits for the result by stream and then by polling, and owes its caller *)
(* an honest answer: resultUnknown is FALSE only when the remote run is    *)
(* over or never was.  Requests and answers are lost or late, answers are  *)
(* cut short, the caller aborts, and the executor closes, at any moment.   *)
(*                                                                         *)
(* The remote host is external: a start creates one run or is rejected,    *)
(* a run ends when it likes, a cancel of a running run only asks it.       *)
(***************************************************************************)
EXTENDS Naturals

CONSTANT Call   \* calls through one executor

VARIABLES
    pc,       \* where the call is
    aborted,  \* the signal of its caller
    id,       \* the run id it holds: "none", "real", or "made_up"
    result,   \* what waitForRunCompletion returned
    told,     \* what the caller is told: kind and resultUnknown
    post,     \* the start request: "none", "sent", "handled"
    answer,   \* the answer to it: "none", "accepted", "rejected"
    ask,      \* the cancel request: "none", "sent", or its outcome
    run,      \* the run at the remote host
    closing,  \* isClosed of the executor, its closeController is aborted
    closed    \* isClosed of the services it holds

clientVars == <<pc, aborted, id, result, told>>
remoteVars == <<post, answer, ask, run>>
vars == <<clientVars, remoteVars, closing, closed>>

\* AbortSignal.any of the caller's signal and the one of close().
Aborted(c) == aborted[c] \/ closing

\* "unclear" is a failure with the code NETWORK_ERROR, TIMEOUT or SERVICE_CLOSED.
Terminal == {"success", "failed", "unclear"}
Waiting == {"streaming", "polling", "last_look"}
Cancelling == {"cancelling", "cancelling_found"}

\* A run the lookup by request id and a cancel of the real id find.
Recorded(c) == run[c] # "none"

-----------------------------------------------------------------------------
(* The answer to the caller *)

Tell(c, kind, resultUnknown) ==
    /\ pc' = [pc EXCEPT ![c] = "done"]
    /\ told' = [told EXCEPT ![c] = [kind |-> kind, resultUnknown |-> resultUnknown]]

Goto(c, place) == pc' = [pc EXCEPT ![c] = place] /\ UNCHANGED told

Got(c, value) ==
    /\ Goto(c, "answered")
    /\ result' = [result EXCEPT ![c] = value]

-----------------------------------------------------------------------------
(* Before the remote host knows of the call *)

Invoke(c) ==
    /\ pc[c] = "idle"
    /\ \/ closing /\ Tell(c, "closed", FALSE)
       \/ ~closing /\ aborted[c] /\ Tell(c, "cancelled", FALSE)
       \/ ~Aborted(c) /\ Goto(c, "discovering")
    /\ UNCHANGED <<aborted, id, result, remoteVars, closing, closed>>

\* The description of the action, or its contract, stops the call: an error, an
\* abort, the timer of ten seconds.
DiscoveryFails(c) ==
    /\ pc[c] = "discovering"
    /\ Tell(c, IF Aborted(c) THEN "cancelled" ELSE "failed", FALSE)
    /\ UNCHANGED <<aborted, id, result, remoteVars, closing, closed>>

PostStart(c) ==
    /\ pc[c] = "discovering"
    /\ ~Aborted(c)
    /\ Goto(c, "starting")
    /\ post' = [post EXCEPT ![c] = "sent"]
    /\ UNCHANGED <<aborted, id, result, answer, ask, run, closing, closed>>

-----------------------------------------------------------------------------
(* The answer to the start, or none *)

Rejected(c) ==
    /\ pc[c] = "starting" /\ answer[c] = "rejected"
    /\ Tell(c, "failed", FALSE)
    /\ UNCHANGED <<aborted, id, result, remoteVars, closing, closed>>

\* The body of a 202 that breaks off parses as null, and the client answers with a
\* run id of its own (client/actions.ts).
Accepted(c) ==
    /\ pc[c] = "starting" /\ answer[c] = "accepted"
    /\ Goto(c, "streaming")
    /\ \E held \in {"real", "made_up"} : id' = [id EXCEPT ![c] = held]
    /\ UNCHANGED <<aborted, result, remoteVars, closing, closed>>

\* Lost, aborted, or over the time limit: the start may still be handled.
StartUnanswered(c) ==
    /\ pc[c] = "starting"
    /\ Goto(c, "looking_up")
    /\ UNCHANGED <<aborted, id, result, remoteVars, closing, closed>>

\* cancelRunWithBoundedTimeout: a closed service refuses before it sends.
SendCancel(c, place) ==
    /\ Goto(c, place)
    /\ ask' = [ask EXCEPT ![c] = IF closed THEN "refused" ELSE "sent"]
    /\ UNCHANGED <<aborted, result, post, answer, run, closing, closed>>

\* Mutant: a start that left no record never happened.
LookupTrusted(c) ==
    /\ pc[c] = "looking_up"
    /\ IF Recorded(c)
       THEN SendCancel(c, "cancelling_found") /\ id' = [id EXCEPT ![c] = "real"]
       ELSE /\ Tell(c, "failed", FALSE)
            /\ UNCHANGED <<aborted, id, result, remoteVars, closing, closed>>

Lookup(c) ==
    /\ pc[c] = "looking_up"
    /\ IF Recorded(c)
       THEN SendCancel(c, "cancelling_found") /\ id' = [id EXCEPT ![c] = "real"]
       ELSE /\ Tell(c, "failed", TRUE)
            /\ UNCHANGED <<aborted, id, result, remoteVars, closing, closed>>

\* An error of the query, or its timer.
LookupFails(c) ==
    /\ pc[c] = "looking_up"
    /\ Tell(c, "failed", TRUE)
    /\ UNCHANGED <<aborted, id, result, remoteVars, closing, closed>>

-----------------------------------------------------------------------------
(* Waiting for the result: waitForRunCompletion and pollRunCompletion *)

FinishEvent(c) ==
    /\ pc[c] = "streaming" /\ id[c] = "real" /\ run[c] \in Terminal
    /\ Got(c, run[c])
    /\ UNCHANGED <<aborted, id, remoteVars, closing, closed>>

\* The stream ends or fails: what is left of the time goes to polling.
StreamEnds(c) ==
    /\ pc[c] = "streaming"
    /\ IF closed THEN Got(c, "unclear") ELSE Goto(c, "polling") /\ UNCHANGED result
    /\ UNCHANGED <<aborted, id, remoteVars, closing, closed>>

\* Mutant: polling has no limit.
TimeIsUpForStream(c) ==
    /\ pc[c] = "streaming"
    /\ Goto(c, "last_look") /\ UNCHANGED result
    /\ UNCHANGED <<aborted, id, remoteVars, closing, closed>>

\* maxWaitMs: a stream that used it up is followed by one last look.
TimeIsUp(c) ==
    /\ \/ pc[c] = "streaming" /\ Goto(c, "last_look") /\ UNCHANGED result
       \/ pc[c] = "polling" /\ Got(c, "lost")
    /\ UNCHANGED <<aborted, id, remoteVars, closing, closed>>

\* runs.get: a run id nobody knows reads as a run that is not over.
Look(c) ==
    /\ pc[c] \in {"polling", "last_look"}
    /\ LET over == id[c] = "real" /\ run[c] \in Terminal
       IN  \/ closed /\ Got(c, "unclear")
           \/ ~closed /\ over /\ Got(c, run[c])
           \/ ~closed /\ ~over /\ pc[c] = "last_look" /\ Got(c, "lost")
    /\ UNCHANGED <<aborted, id, remoteVars, closing, closed>>

\* An error of runs.get ends the wait.
LookFails(c) ==
    /\ pc[c] \in {"polling", "last_look"}
    /\ Got(c, "lost")
    /\ UNCHANGED <<aborted, id, remoteVars, closing, closed>>

\* The listener of the signal, or the check after the result has come.
StopWaiting(c) ==
    /\ pc[c] \in Waiting \union {"answered"} /\ Aborted(c)
    /\ SendCancel(c, "cancelling")
    /\ UNCHANGED id

\* A wait that ran out of time or failed is told as unknown; so is every failure
\* that reads like one of the network, whoever raised it.
TellResult(c) ==
    /\ pc[c] = "answered" /\ ~Aborted(c)
    /\ CASE result[c] = "success" -> Tell(c, "success", FALSE)
         [] result[c] = "failed" -> Tell(c, "failed", FALSE)
         [] OTHER -> Tell(c, "failed", TRUE)
    /\ UNCHANGED <<aborted, id, result, remoteVars, closing, closed>>

-----------------------------------------------------------------------------
(* The answer to the cancel *)

\* Only a run that had already finished has a known end.
CancelAnswered(c) ==
    /\ pc[c] \in Cancelling /\ ask[c] \in {"requested", "finished", "not_found"}
    /\ Tell(c, IF ask[c] = "not_found" \/ ~Aborted(c) THEN "failed" ELSE "cancelled",
            ask[c] # "finished")
    /\ UNCHANGED <<aborted, id, result, remoteVars, closing, closed>>

\* The cancel fails or its timer fires; it may still be handled.
CancelFails(c) ==
    /\ pc[c] \in Cancelling
    /\ Tell(c, "failed", TRUE)
    /\ UNCHANGED <<aborted, id, result, remoteVars, closing, closed>>

-----------------------------------------------------------------------------
(* The caller, the executor, and the remote host *)

Abort(c) ==
    /\ pc[c] # "done" /\ ~aborted[c]
    /\ aborted' = [aborted EXCEPT ![c] = TRUE]
    /\ UNCHANGED <<pc, id, result, told, remoteVars, closing, closed>>

Close ==
    /\ ~closing
    /\ closing' = TRUE
    /\ UNCHANGED <<clientVars, remoteVars, closed>>

\* Mutant: the services go first.
CloseServicesAtOnce ==
    /\ closing /\ ~closed
    /\ closed' = TRUE
    /\ UNCHANGED <<clientVars, remoteVars, closing>>

\* Promise.allSettled of the pending calls comes before service.close().
CloseServices ==
    /\ closing /\ ~closed
    /\ \A c \in Call : pc[c] \in {"idle", "done"}
    /\ closed' = TRUE
    /\ UNCHANGED <<clientVars, remoteVars, closing>>

\* The remote host starts a run or rejects the call: before it has a row, or with
\* the row of a run that failed its validation.
HandleStart(c) ==
    /\ post[c] = "sent"
    /\ post' = [post EXCEPT ![c] = "handled"]
    /\ \/ /\ run' = [run EXCEPT ![c] = "running"]
          /\ answer' = [answer EXCEPT ![c] = "accepted"]
       \/ /\ \E row \in {"none", "failed"} : run' = [run EXCEPT ![c] = row]
          /\ answer' = [answer EXCEPT ![c] = "rejected"]
    /\ UNCHANGED <<clientVars, ask, closing, closed>>

HandleCancel(c) ==
    /\ ask[c] = "sent"
    /\ ask' = [ask EXCEPT ![c] = CASE id[c] = "made_up" -> "not_found"
                                   [] id[c] = "real" /\ run[c] = "running" -> "requested"
                                   [] OTHER -> "finished"]
    /\ UNCHANGED <<clientVars, post, answer, run, closing, closed>>

RunEnds(c) ==
    /\ run[c] = "running"
    /\ \E outcome \in Terminal : run' = [run EXCEPT ![c] = outcome]
    /\ UNCHANGED <<clientVars, post, answer, ask, closing, closed>>

-----------------------------------------------------------------------------
Init ==
    /\ pc = [c \in Call |-> "idle"]
    /\ aborted = [c \in Call |-> FALSE]
    /\ id = [c \in Call |-> "none"]
    /\ result = [c \in Call |-> "none"]
    /\ told = [c \in Call |-> [kind |-> "nothing", resultUnknown |-> FALSE]]
    /\ post = [c \in Call |-> "none"]
    /\ answer = [c \in Call |-> "none"]
    /\ ask = [c \in Call |-> "none"]
    /\ run = [c \in Call |-> "none"]
    /\ closing = FALSE
    /\ closed = FALSE

\* What the code does once a call is made.
ClientStep(c) ==
    \/ DiscoveryFails(c) \/ PostStart(c)
    \/ Rejected(c) \/ Accepted(c) \/ StartUnanswered(c) \/ Lookup(c) \/ LookupFails(c)
    \/ FinishEvent(c) \/ StreamEnds(c) \/ TimeIsUp(c) \/ Look(c) \/ LookFails(c)
    \/ StopWaiting(c) \/ TellResult(c) \/ CancelAnswered(c) \/ CancelFails(c)

Next ==
    \/ \E c \in Call :
        \/ Invoke(c) \/ ClientStep(c) \/ Abort(c)
        \/ HandleStart(c) \/ HandleCancel(c) \/ RunEnds(c)
    \/ Close \/ CloseServices

Spec == Init /\ [][Next]_vars

\* The timers of a call, and the steps it takes by itself.
Bounded(c) ==
    \/ DiscoveryFails(c) \/ StartUnanswered(c) \/ LookupFails(c) \/ TimeIsUp(c)
    \/ Look(c) \/ CancelFails(c) \/ StopWaiting(c) \/ TellResult(c)

\* Every wait has a timer of the code or a limit of the HTTP client.  Nothing is
\* promised of the network or of the remote host, not even that they fail.
FairSpec ==
    /\ Spec
    /\ \A c \in Call : WF_vars(Bounded(c))

-----------------------------------------------------------------------------
(* Properties *)

\* Every variable has its type, and a start that was rejected leaves no run that
\* could succeed (invocation/remote.ts:486-525).
TypeOK ==
    /\ pc \in [Call -> {"idle", "discovering", "starting", "looking_up", "answered", "done"}
                          \union Waiting \union Cancelling]
    /\ aborted \in [Call -> BOOLEAN]
    /\ id \in [Call -> {"none", "real", "made_up"}]
    /\ result \in [Call -> {"none", "lost"} \union Terminal]
    /\ told \in [Call -> [kind : {"nothing", "success", "failed", "cancelled", "closed"},
                          resultUnknown : BOOLEAN]]
    /\ post \in [Call -> {"none", "sent", "handled"}]
    /\ answer \in [Call -> {"none", "accepted", "rejected"}]
    /\ ask \in [Call -> {"none", "sent", "refused", "requested", "finished", "not_found"}]
    /\ run \in [Call -> {"none", "running"} \union Terminal]
    /\ closing \in BOOLEAN /\ closed \in BOOLEAN
    /\ \A c \in Call : answer[c] = "rejected" => run[c] \in {"none", "failed"}

\* A caller that is told a result, or told that nothing is unknown, can rely on it
\* for good: the remote run is over, as told, or there never will be one.
HonestOutcome ==
    /\ TypeOK
    /\ \A c \in Call :
          pc[c] = "done" =>
            /\ told[c].kind = "success" => run[c] = "success"
            /\ ~told[c].resultUnknown =>
                 run[c] \in Terminal \/ (run[c] = "none" /\ post[c] # "sent")

\* A call does not leave a run behind that it knows of: when it is over and the run
\* is not, it has asked the run to stop, unless the waiting itself failed.  It
\* relies on close() keeping the services open for the calls it interrupts.
AbandonedIsCancelled ==
    \A c \in Call :
        pc[c] = "done" /\ id[c] = "real" /\ run[c] = "running" =>
            ask[c] \notin {"none", "refused"} \/ result[c] = "lost"

\* Every call is answered, whatever the network and the remote host do; close(),
\* which waits for the pending calls, depends on it.
CallsSettle == \A c \in Call : pc[c] = "discovering" ~> pc[c] = "done"
=============================================================================
