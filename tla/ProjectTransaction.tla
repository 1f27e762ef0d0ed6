--------------------------- MODULE ProjectTransaction ---------------------------
(***************************************************************************)
(* Changes of the dependencies of a project: the commands "ad add",        *)
(* "ad remove" and "ad run" (cli/src/commands), the journal of snapshots   *)
(* and its recovery (project/transactions.ts), and the first installation  *)
(* (project/dependencies.ts).  Every command is a process of its own, and  *)
(* may die between any two steps.                                          *)
(*                                                                         *)
(* A tracked file is the set of dependencies it names.  "package" stands   *)
(* for package.json and the lock files of the package manager, which is    *)
(* external.  The lock of the project is one step here: FileLock models    *)
(* it; a dead holder never stands in the way.  A package manager dies with *)
(* the command that spawned it: one that outlives a killed command, and    *)
(* writes after the lock was taken over, is not modelled.                  *)
(***************************************************************************)
EXTENDS Naturals, Sequences, FiniteSets

CONSTANTS
    Proc,        \* processes, one command each
    Dep,         \* dependencies
    Nobody,      \* the lock has no holder
    MaxCrashes   \* bound on the number of processes that die

ASSUME ProjectTransactionAssumption ==
    /\ Nobody \notin Proc
    /\ MaxCrashes \in Nat

VARIABLES
    pc,       \* where a command is
    cmd,      \* what it does: kind, dependency, whether it may install
    read,     \* the manifest it read
    source,   \* the journal entry it restores
    left,     \* the next tracked file it restores
    lock,     \* holder of .actiondock/project.lock
    files,    \* the tracked files
    modules,  \* node_modules
    journal,  \* status and snapshot of the transaction of a process
    torn,     \* an entry of the journal cannot be parsed
    good,     \* history: the tracked files after the last committed change
    kept      \* history: dependencies reported as added, and not removed since

procVars == <<pc, cmd, read, source, left>>
diskVars == <<lock, files, modules, journal, torn>>
vars == <<procVars, diskVars, good, kept>>

\* SNAPSHOT_TRACKED_FILES, in its order.
Tracked == <<"package", "manifest", "lockfile">>
File == {"package", "manifest", "lockfile"}

Over == {"done", "failed", "crashed"}
Pending == {p \in Proc : journal[p].status = "pending"}
HeldByOther(p) == lock \notin {p, Nobody} /\ pc[lock] # "crashed"

-----------------------------------------------------------------------------
(* Helpers *)

Goto(p, place) == pc' = [pc EXCEPT ![p] = place]

\* safeReleaseFileLockSync removes only a lock of one's own.
Release(p) == lock' = IF lock = p THEN Nobody ELSE lock

\* Every way out of a command under the lock goes through releaseLock.
Leave(p, place) == Goto(p, place) /\ Release(p)

\* hasPendingTransactions: nothing is pending while another process works, and an
\* entry that cannot be parsed ends the search where it happens to be listed.
Noticed(p) ==
    {b \in BOOLEAN :
        \/ b /\ Pending # {} /\ ~HeldByOther(p)
        \/ ~b /\ (Pending = {} \/ HeldByOther(p) \/ torn)}

CloseEntry(j) == journal' = [journal EXCEPT ![j].status = "closed"]

-----------------------------------------------------------------------------
(* Recovery before a command: prepareProjectManifestRoot, ad run *)

Start(p) ==
    /\ pc[p] = "idle"
    /\ \E kind \in {"add", "remove", "run"}, d \in Dep, install \in BOOLEAN :
          cmd' = [cmd EXCEPT ![p] = [kind |-> kind, dep |-> d, install |-> install]]
    /\ Goto(p, "check")
    /\ UNCHANGED <<read, source, left, diskVars, good, kept>>

\* ad run reports a pending transaction it may not install for; ad add and
\* ad remove find out under the lock.
Check(p) ==
    /\ pc[p] = "check"
    /\ \E pending \in Noticed(p) :
          Goto(p, IF ~pending THEN "read"
                  ELSE IF cmd[p].kind = "run" /\ ~cmd[p].install THEN "failed"
                  ELSE "recover")
    /\ UNCHANGED <<cmd, read, source, left, diskVars, good, kept>>

\* A busy lock is no error: there is nothing to recover.
LockToRecover(p) ==
    /\ pc[p] = "recover"
    /\ IF HeldByOther(p)
       THEN Goto(p, "read") /\ UNCHANGED lock
       ELSE Goto(p, "scan") /\ lock' = p
    /\ UNCHANGED <<cmd, read, source, left, files, modules, journal, torn, good, kept>>

Scan(p) ==
    /\ pc[p] = "scan"
    /\ \/ /\ Pending = {}
          /\ Leave(p, "read")
          /\ UNCHANGED <<source, left>>
       \/ /\ Pending # {} /\ ~cmd[p].install
          /\ Leave(p, "failed")
          /\ UNCHANGED <<source, left>>
       \/ /\ cmd[p].install
          /\ \E j \in Pending : source' = [source EXCEPT ![p] = j]
          /\ left' = [left EXCEPT ![p] = 1]
          /\ Goto(p, "restore") /\ UNCHANGED lock
    /\ UNCHANGED <<cmd, read, files, modules, journal, torn, good, kept>>

\* Mutant: the lock file of the project is not restored.
RestoreSome(p) ==
    /\ pc[p] \in {"restore", "roll_back"}
    /\ LET f == Tracked[left[p]]
       IN  files' = IF f = "lockfile" THEN files
                    ELSE [files EXCEPT ![f] = journal[source[p]].snapshot[f]]
    /\ left' = [left EXCEPT ![p] = @ + 1]
    /\ IF left[p] < Len(Tracked) THEN UNCHANGED pc
       ELSE Goto(p, IF pc[p] = "restore" THEN "reinstall" ELSE "discard")
    /\ UNCHANGED <<cmd, read, source, lock, modules, journal, torn, good, kept>>

\* One file at a time, for the recovery and for a rollback.
Restore(p) ==
    /\ pc[p] \in {"restore", "roll_back"}
    /\ LET f == Tracked[left[p]]
       IN  files' = [files EXCEPT ![f] = journal[source[p]].snapshot[f]]
    /\ left' = [left EXCEPT ![p] = @ + 1]
    /\ IF left[p] < Len(Tracked) THEN UNCHANGED pc
       ELSE Goto(p, IF pc[p] = "restore" THEN "reinstall" ELSE "discard")
    /\ UNCHANGED <<cmd, read, source, lock, modules, journal, torn, good, kept>>

\* runFrozenInstall; when it fails the entry stays pending.
Reinstall(p) ==
    /\ pc[p] = "reinstall"
    /\ \/ modules' = files["package"] /\ Goto(p, "discard") /\ UNCHANGED lock
       \/ Leave(p, "failed") /\ UNCHANGED modules
    /\ UNCHANGED <<cmd, read, source, left, files, journal, torn, good, kept>>

\* The entry is marked and removed; a recovery looks for the next one, a rollback
\* is the end of its command.
Discard(p) ==
    /\ pc[p] = "discard"
    /\ CloseEntry(source[p])
    /\ IF source[p] = p
       THEN Leave(p, "failed")
       ELSE Goto(p, "scan") /\ UNCHANGED lock
    /\ UNCHANGED <<cmd, read, source, left, files, modules, torn, good, kept>>

-----------------------------------------------------------------------------
(* beginTransaction *)

\* The manifest is read before the lock is taken.  ad run reads it to see whether
\* there is anything to install.
Read(p) ==
    /\ pc[p] = "read"
    /\ read' = [read EXCEPT ![p] = files["manifest"]]
    /\ Goto(p, CASE cmd[p].kind = "run" -> IF files["manifest"] = {} THEN "done" ELSE "ensure"
                 [] cmd[p].kind = "remove" /\ cmd[p].dep \notin files["manifest"] -> "failed"
                 [] OTHER -> "begin")
    /\ UNCHANGED <<cmd, source, left, diskVars, good, kept>>

Begin(p) ==
    /\ pc[p] = "begin"
    /\ IF HeldByOther(p)
       THEN Goto(p, "failed") /\ UNCHANGED lock
       ELSE Goto(p, "open") /\ lock' = p
    /\ UNCHANGED <<cmd, read, source, left, files, modules, journal, torn, good, kept>>

TakeSnapshot(p) ==
    /\ Goto(p, IF cmd[p].kind = "add" THEN "install" ELSE "save")
    /\ journal' = [journal EXCEPT ![p] = [status |-> "pending", snapshot |-> files]]
    /\ UNCHANGED lock

\* Mutant: the lock alone is enough to begin.
OpenUnchecked(p) ==
    /\ pc[p] = "open"
    /\ TakeSnapshot(p)
    /\ UNCHANGED <<cmd, read, source, left, files, modules, torn, good, kept>>

Open(p) ==
    /\ pc[p] = "open"
    /\ \E pending \in Noticed(p) :
          IF pending
          THEN Leave(p, "failed") /\ UNCHANGED journal
          ELSE TakeSnapshot(p)
    /\ UNCHANGED <<cmd, read, source, left, files, modules, torn, good, kept>>

-----------------------------------------------------------------------------
(* The changes of ad add and ad remove *)

RollBack(p) ==
    /\ Goto(p, "roll_back")
    /\ source' = [source EXCEPT ![p] = p]
    /\ left' = [left EXCEPT ![p] = 1]

\* The package manager may fail after it has changed things.
Install(p) ==
    /\ pc[p] = "install"
    /\ \E f \in BOOLEAN, m \in BOOLEAN :
          /\ files' = IF f THEN [files EXCEPT !["package"] = @ \union {cmd[p].dep}] ELSE files
          /\ modules' = IF m THEN modules \union {cmd[p].dep} ELSE modules
          /\ \/ f /\ m /\ Goto(p, "save") /\ UNCHANGED <<source, left>>
             \/ RollBack(p)
    /\ UNCHANGED <<cmd, read, lock, journal, torn, good, kept>>

Save(p) ==
    /\ pc[p] = "save"
    /\ files' = [files EXCEPT !["manifest"] =
                    IF cmd[p].kind = "add" THEN read[p] \union {cmd[p].dep}
                    ELSE read[p] \ {cmd[p].dep}]
    /\ Goto(p, "save_lockfile")
    /\ UNCHANGED <<cmd, read, source, left, lock, modules, journal, torn, good, kept>>

\* ad add writes every package of the graph of its manifest.
SaveLockfile(p) ==
    /\ pc[p] = "save_lockfile"
    /\ files' = [files EXCEPT !["lockfile"] =
                    IF cmd[p].kind = "add" THEN @ \union read[p] \union {cmd[p].dep}
                    ELSE @ \ {cmd[p].dep}]
    /\ Goto(p, IF cmd[p].kind = "add" THEN "commit" ELSE "uninstall")
    /\ UNCHANGED <<cmd, read, source, left, lock, modules, journal, torn, good, kept>>

\* A failed uninstall is a warning.
Uninstall(p) ==
    /\ pc[p] = "uninstall"
    /\ \/ /\ files' = [files EXCEPT !["package"] = @ \ {cmd[p].dep}]
          /\ modules' = modules \ {cmd[p].dep}
       \/ UNCHANGED <<files, modules>>
    /\ Goto(p, "commit")
    /\ UNCHANGED <<cmd, read, source, left, lock, journal, torn, good, kept>>

\* Anything thrown in between: an unusable package, a version conflict, a full disk.
Throw(p) ==
    /\ pc[p] \in {"save", "save_lockfile", "uninstall"}
    /\ RollBack(p)
    /\ UNCHANGED <<cmd, read, diskVars, good, kept>>

\* Mutant: a cancelled command keeps the lock as long as it lives.
CancelHolding(p) ==
    /\ pc[p] \in {"install", "uninstall", "commit"}
    /\ Goto(p, "failed")
    /\ UNCHANGED <<cmd, read, source, left, diskVars, good, kept>>

\* rollbackAndRethrow: a cancelled command leaves its transaction to the next one,
\* and so does one that cannot write that it has committed.
Cancel(p) ==
    /\ pc[p] \in {"install", "uninstall", "commit"}
    /\ Leave(p, "failed")
    /\ UNCHANGED <<cmd, read, source, left, files, modules, journal, torn, good, kept>>

Commit(p) ==
    /\ pc[p] = "commit"
    /\ CloseEntry(p)
    /\ Leave(p, "done")
    /\ good' = files
    /\ kept' = IF cmd[p].kind = "add" THEN kept \union {cmd[p].dep} ELSE kept \ {cmd[p].dep}
    /\ UNCHANGED <<cmd, read, source, left, files, modules, torn>>

-----------------------------------------------------------------------------
(* ensureProjectDependencies: the first installation before ad run *)

Ensure(p) ==
    /\ pc[p] = "ensure"
    /\ \/ /\ files["package"] \subseteq modules
          /\ Goto(p, "done") /\ UNCHANGED lock
       \/ /\ ~(files["package"] \subseteq modules)
          /\ \E pending \in Noticed(p) :
                IF modules # {} \/ ~cmd[p].install \/ pending \/ HeldByOther(p)
                THEN Goto(p, "failed") /\ UNCHANGED lock
                ELSE Goto(p, "ensure_locked") /\ lock' = p
    /\ UNCHANGED <<cmd, read, source, left, files, modules, journal, torn, good, kept>>

\* An installation that fails may leave some of the packages behind.
EnsureLocked(p) ==
    /\ pc[p] = "ensure_locked"
    /\ \E pending \in Noticed(p) :
          LET ready == files["package"] \subseteq modules
          IN  \/ ~pending /\ ready /\ Leave(p, "done") /\ UNCHANGED modules
              \/ /\ ~pending /\ ~ready /\ modules = {}
                 /\ Leave(p, "done") /\ modules' = files["package"]
              \/ Leave(p, "failed") /\ UNCHANGED modules
              \/ /\ ~pending /\ ~ready /\ modules = {}
                 /\ Leave(p, "failed") /\ modules' \in SUBSET files["package"]
    /\ UNCHANGED <<cmd, read, source, left, files, journal, torn, good, kept>>

-----------------------------------------------------------------------------
(* Death *)

\* The process dies, and a package manager that it runs with it.
Crash(p) ==
    /\ pc[p] \notin Over \union {"idle"}
    /\ Cardinality({q \in Proc : pc[q] = "crashed"}) < MaxCrashes
    /\ Goto(p, "crashed")
    /\ UNCHANGED <<cmd, read, source, left, diskVars, good, kept>>

\* transaction.json is written in place: when a transaction begins, and when it is
\* committed, rolled back or recovered, which counts as done from then on.
CrashTearing(p) ==
    /\ pc[p] \in {"open", "commit", "discard"}
    /\ pc[p] = "open" => FALSE \in Noticed(p)
    /\ Cardinality({q \in Proc : pc[q] = "crashed"}) < MaxCrashes
    /\ Goto(p, "crashed")
    /\ torn' = TRUE
    /\ IF pc[p] = "open" THEN UNCHANGED journal
       ELSE CloseEntry(IF pc[p] = "commit" THEN p ELSE source[p])
    /\ good' = IF pc[p] = "commit" THEN files ELSE good
    /\ UNCHANGED <<cmd, read, source, left, lock, files, modules, kept>>

-----------------------------------------------------------------------------
Init ==
    /\ pc = [p \in Proc |-> "idle"]
    /\ cmd = [p \in Proc |-> [kind |-> "none", dep |-> Nobody, install |-> TRUE]]
    /\ read = [p \in Proc |-> {}]
    /\ source = [p \in Proc |-> p]
    /\ left = [p \in Proc |-> 1]
    /\ lock = Nobody
    /\ \E d \in SUBSET Dep :
          /\ files = [f \in File |-> d]
          /\ modules \in {{}, d}
          /\ kept = d
    /\ good = files
    /\ journal = [p \in Proc |-> [status |-> "none", snapshot |-> files]]
    /\ torn = FALSE

\* What a command does by itself, or within the time limit of
\* ensureProjectDependencies.
OwnStep(p) ==
    \/ Check(p) \/ LockToRecover(p) \/ Scan(p) \/ Restore(p) \/ Discard(p)
    \/ Read(p) \/ Begin(p) \/ Open(p) \/ Save(p) \/ SaveLockfile(p) \/ Commit(p)
    \/ Ensure(p) \/ EnsureLocked(p)

\* What it leaves to a package manager, and the ways out.
Step(p) ==
    \/ OwnStep(p)
    \/ Install(p) \/ Uninstall(p) \/ Reinstall(p) \/ Throw(p) \/ Cancel(p)

Next == \E p \in Proc : Start(p) \/ Step(p) \/ Crash(p) \/ CrashTearing(p)

Spec == Init /\ [][Next]_vars

\* A command goes on with what it does by itself.  Nothing is assumed of a package
\* manager that it started without a limit: it may never come back.
FairSpec == Spec /\ \A p \in Proc : WF_vars(OwnStep(p))

-----------------------------------------------------------------------------
(* Properties *)

\* Every variable has its type, and at most one transaction is pending as long
\* as no journal is torn (transactions.ts:238-283).
TypeOK ==
    /\ pc \in [Proc -> {"idle", "check", "recover", "scan", "restore", "reinstall", "discard",
                          "read", "begin", "open", "install", "save", "save_lockfile", "uninstall",
                          "commit", "roll_back", "ensure", "ensure_locked"} \union Over]
    /\ read \in [Proc -> SUBSET Dep]
    /\ source \in [Proc -> Proc]
    /\ left \in [Proc -> 1..(Len(Tracked) + 1)]
    /\ lock \in Proc \union {Nobody}
    /\ files \in [File -> SUBSET Dep] /\ good \in [File -> SUBSET Dep]
    /\ modules \subseteq Dep /\ kept \subseteq Dep
    /\ torn \in BOOLEAN
    /\ ~torn => Cardinality(Pending) <= 1

\* A change of the dependencies happens as a whole or not at all: whenever no
\* command holds the lock and nothing is left to recover, package.json, manifest
\* and lock file are those of the last committed change, whoever died where.  With
\* a journal that is torn (transactions.ts:206-213) this is so for two commands;
\* four may lose a change.
AllOrNothing ==
    /\ TypeOK
    /\ (lock = Nobody \/ pc[lock] = "crashed") /\ Pending = {} => files = good

\* Mixed files are never lost sight of: a transaction is begun only on files that
\* are those of the last committed change, so its snapshot never keeps half of
\* another one.  Past a torn journal this is so for two commands, not for three.
SnapshotsAreGood ==
    \A p \in Proc : journal[p].status = "pending" /\ pc[p] # "crashed" /\ lock = p
        => journal[p].snapshot = good

\* What was reported as added stays in the manifest until it is reported removed
\* (add.ts: the exclusive lock and the snapshot protect the change).
CommittedStays ==
    (lock = Nobody \/ pc[lock] = "crashed") /\ Pending = {} => kept \subseteq files["manifest"]

\* The calls of a package manager without a time limit (add.ts:104, remove.ts:125,
\* transactions.ts:178).
AwaitsManager(p) == pc[p] \in {"install", "uninstall", "reinstall"}

\* Every command that takes the lock of the project gives it back, by whatever way
\* it ends, unless its process dies or its package manager never comes back.
LockIsReturned ==
    \A p \in Proc :
        []<>~AwaitsManager(p) => (lock = p ~> lock # p \/ pc[p] = "crashed")
=============================================================================
