----------------------------- MODULE RunLifecycle -----------------------------
(***************************************************************************)
(* What the run table and the result of a run promise, whoever executes    *)
(* the run, recovers it or cleans up after it: the state diagram of        *)
(* docs/architecture/runtime.md, with the rows and results the code gives. *)
(* A step changes any number of runs; each moves as its lifecycle allows.  *)
(***************************************************************************)
CONSTANT Run

VARIABLES
    record,   \* record[r]: status of the row of the run
    outcome   \* outcome[r]: what the starter of the run was told

vars == <<record, outcome>>

Answer == {"success", "failed", "cancelled", "timed_out"}
Present == {"running", "interrupted"} \cup Answer

\* Moves of one run, from its row and outcome to the next ones.
Moves(r, row, told) ==
    \* The row is created, running.
    \/ record[r] = "none" /\ row = "running" /\ told = outcome[r]
    \* The run fails before it runs, with or without a row.
    \/ /\ record[r] = "none" /\ outcome[r] = "pending"
       /\ row \in {"none", "failed"} /\ told = "failed"
    \* It ends: row and answer agree.
    \/ /\ record[r] = "running" /\ outcome[r] = "pending"
       /\ row \in Answer /\ told = row
    \* It ends, and its row was deleted under it.
    \/ /\ record[r] = "deleted" /\ outcome[r] = "pending"
       /\ row = "deleted" /\ told \in Answer
    \* The store refuses the final status: the caller is told of a failure.
    \/ /\ outcome[r] = "pending"
       /\ row = record[r] /\ told = "failed"
       /\ row \in {"running", "deleted"}
    \* Its process died: recovery settles the row, nobody is told.
    \/ record[r] = "running" /\ row = "interrupted" /\ told = outcome[r]
    \* Its row is deleted.
    \/ record[r] \in Present /\ row = "deleted" /\ told = outcome[r]

Init ==
    /\ record = [r \in Run |-> "none"]
    /\ outcome = [r \in Run |-> "pending"]

Next ==
    \A r \in Run :
        \/ Moves(r, record'[r], outcome'[r])
        \/ record'[r] = record[r] /\ outcome'[r] = outcome[r]

Spec == Init /\ [][Next]_vars
=============================================================================
