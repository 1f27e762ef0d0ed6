------------------------------- MODULE FileLock -------------------------------
(***************************************************************************)
(* The lock directory of packages/core/src/storage/file-lock.ts, behind    *)
(* the registry lock, the project lock and the data directory lock.        *)
(*                                                                         *)
(* Every system call on the lock directory, its metadata file or the       *)
(* reclaim guard is an action: processes interleave between any two.       *)
(* Time enters as two facts, whether the lock and the guard were last      *)
(* touched more than staleMs ago.  A process that lives is never suspended *)
(* for that long between two calls, and its heartbeat is on time.          *)
(***************************************************************************)
EXTENDS Integers, FiniteSets

CONSTANTS
    Task,           \* callers of acquireFileLock and acquireFileLockSync
    Process,        \* their processes
    ProcessOf,      \* the process of each task
    Sync,           \* tasks that acquire synchronously
    Releasing,      \* tasks that release what they hold; the others keep it
    Mortal,         \* processes that may die
    MtimeFirst,     \* options.mtimeFirst: a fresh lock is never stale
    Leftover,       \* what dead processes may have left before the start
    Ghost,          \* a holder of before the start, dead
    None            \* no metadata

ASSUME NoneAssumption == None \notin Task /\ Ghost \notin Task /\ None # Ghost
ASSUME ProcessAssumption == ProcessOf \in [Task -> Process]
ASSUME OptionAssumption ==
    /\ Sync \subseteq Task /\ Releasing \subseteq Task /\ Mortal \subseteq Process
    /\ MtimeFirst \in BOOLEAN
    /\ Leftover \subseteq {"dir", "file", "guard"}

VARIABLES
    alive,      \* alive[p]
    pc,         \* pc[t]: the call that comes next
    old,        \* old[t]: the age of the lock as last seen is beyond staleMs
    reclaiming, \* reclaiming[t]: inside the try that the guard protects
    outcome,    \* outcome[t]: what the acquisition will end with
    late,       \* late[t]: the deadline has passed
    activePath, \* activePath[p]: activeLockPaths has the path
    lock,       \* the lock path: its kind, the token in metadata.json, the tmp files
    lockOld,    \* its mtime is beyond staleMs
    guard,      \* the reclaim directory exists
    guardOld    \* its age is beyond staleMs

taskVars == <<old, reclaiming, outcome, late>>
fsVars == <<lock, lockOld, guard, guardOld>>
vars == <<alive, pc, taskVars, activePath, fsVars>>

Holders == Task \cup {Ghost}
NoLock == [kind |-> "absent", meta |-> None, tmp |-> {}]
EmptyDir == [kind |-> "dir", meta |-> None, tmp |-> {}]

Goto(t, label) == pc' = [pc EXCEPT ![t] = label]

\* The process that a token's metadata names is not running.
Dead(token) == ~(token \in Task /\ alive[ProcessOf[token]])

\* checkIsReclaimGuardActive.  Its read of reclaim.json and its stat see the
\* same age, so the answer is that of the last of them.
\* Mutant: a guard is active as long as it exists.
GuardExists == guard

GuardActive == guard /\ ~guardOld

\* checkIsStaleLock, once the metadata is read.
Stale(t) ==
    IF lock.meta = None THEN old[t]
    ELSE IF lock.meta \in Task /\ ProcessOf[lock.meta] = ProcessOf[t]
    THEN ~activePath[ProcessOf[t]]
    ELSE Dead(lock.meta)

-----------------------------------------------------------------------------
(* acquireLockMachine: the attempt to create the lock *)

Begin(t) ==
    /\ pc[t] = "idle"
    /\ Goto(t, "probe")
    /\ late' = [late EXCEPT ![t] = FALSE]
    /\ outcome' = [outcome EXCEPT ![t] = "none"]
    /\ UNCHANGED <<alive, old, reclaiming, activePath, fsVars>>

\* acquireTimeoutMs runs out.
Deadline(t) ==
    /\ t \notin Sync
    /\ pc[t] \notin {"idle", "held", "failed", "dead"} /\ ~late[t]
    /\ late' = [late EXCEPT ![t] = TRUE]
    /\ UNCHANGED <<alive, pc, old, reclaiming, outcome, activePath, fsVars>>

\* A synchronous caller gives up at an active guard, an asynchronous one goes
\* on to see whether the lock is stale.
ProbeGuard(t) ==
    /\ pc[t] = "probe"
    /\ \/ ~GuardActive /\ Goto(t, "mkdir")
       \/ GuardActive /\ t \in Sync /\ Goto(t, "failed")
       \/ GuardActive /\ t \notin Sync /\ Goto(t, "stat")
    /\ UNCHANGED <<alive, taskVars, activePath, fsVars>>

\* Mutant: mkdir with "recursive" does not mind a directory that exists.
MakeLockRecursive(t) ==
    /\ pc[t] = "mkdir"
    /\ lock' = IF lock.kind = "absent" THEN EmptyDir ELSE lock
    /\ lockOld' = FALSE
    /\ activePath' = [activePath EXCEPT ![ProcessOf[t]] = TRUE]
    /\ Goto(t, "tmp")
    /\ UNCHANGED <<alive, taskVars, guard, guardOld>>

MakeLock(t) ==
    /\ pc[t] = "mkdir"
    /\ \/ /\ lock.kind = "absent"
          /\ lock' = EmptyDir
          /\ lockOld' = FALSE
          /\ activePath' = [activePath EXCEPT ![ProcessOf[t]] = TRUE]
          /\ Goto(t, "tmp")
       \/ /\ lock.kind # "absent"
          /\ Goto(t, "stat")
          /\ UNCHANGED <<activePath, lock, lockOld>>
    /\ UNCHANGED <<alive, taskVars, guard, guardOld>>

\* The sleep before the next attempt, or the error: at once for a synchronous
\* caller, past the deadline for an asynchronous one.
Retry(t) ==
    /\ pc[t] = "retry"
    /\ Goto(t, IF t \in Sync \/ late[t] THEN "failed" ELSE "probe")
    /\ UNCHANGED <<alive, taskVars, activePath, fsVars>>

-----------------------------------------------------------------------------
(* Is the lock stale?  Asked before the guard is taken and again under it *)

NotStale(t) ==
    /\ outcome' = [outcome EXCEPT ![t] = IF reclaiming[t] THEN "failed" ELSE @]
    /\ Goto(t, IF reclaiming[t] THEN "unguard" ELSE "retry")

\* Mutant: the option mtimeFirst is ignored.
StatLockOfAnyAge(t) ==
    /\ pc[t] = "stat"
    /\ old' = [old EXCEPT ![t] = lockOld]
    /\ \/ /\ lock.kind = "absent"
          /\ Goto(t, IF reclaiming[t] THEN "isdir" ELSE "retry")
          /\ UNCHANGED outcome
       \/ lock.kind # "absent" /\ Goto(t, "judge") /\ UNCHANGED outcome
    /\ UNCHANGED <<alive, reclaiming, late, activePath, fsVars>>

\* The stat: a lock that is gone counts as stale only under the guard.
StatLock(t) ==
    /\ pc[t] = "stat"
    /\ old' = [old EXCEPT ![t] = lockOld]
    /\ \/ /\ lock.kind = "absent"
          /\ Goto(t, IF reclaiming[t] THEN "isdir" ELSE "retry")
          /\ UNCHANGED outcome
       \/ lock.kind # "absent" /\ MtimeFirst /\ ~lockOld /\ NotStale(t)
       \/ /\ lock.kind # "absent" /\ ~(MtimeFirst /\ ~lockOld)
          /\ Goto(t, "judge")
          /\ UNCHANGED outcome
    /\ UNCHANGED <<alive, reclaiming, late, activePath, fsVars>>

\* The read of the metadata and the verdict.
JudgeLock(t) ==
    /\ pc[t] = "judge"
    /\ \/ Stale(t) /\ Goto(t, IF reclaiming[t] THEN "isdir" ELSE "guard") /\ UNCHANGED outcome
       \/ ~Stale(t) /\ NotStale(t)
    /\ UNCHANGED <<alive, old, reclaiming, late, activePath, fsVars>>

-----------------------------------------------------------------------------
(* tryAcquireReclaimGuard.  The two calls of rm on the guard are one step *)

MakeGuard(t, next) ==
    /\ ~guard
    /\ guard' = TRUE /\ guardOld' = FALSE
    /\ Goto(t, next)

TakeGuard(t) ==
    /\ pc[t] = "guard"
    /\ \/ MakeGuard(t, "guardinfo")
       \/ guard /\ Goto(t, "guardcheck") /\ UNCHANGED <<guard, guardOld>>
    /\ UNCHANGED <<alive, taskVars, activePath, lock, lockOld>>

CheckGuard(t) ==
    /\ pc[t] = "guardcheck"
    /\ Goto(t, IF GuardActive THEN "retry" ELSE "breakguard")
    /\ UNCHANGED <<alive, taskVars, activePath, fsVars>>

BreakGuard(t) ==
    /\ pc[t] = "breakguard"
    /\ guard' = FALSE /\ guardOld' = FALSE
    /\ Goto(t, "reguard")
    /\ UNCHANGED <<alive, taskVars, activePath, lock, lockOld>>

RetakeGuard(t) ==
    /\ pc[t] = "reguard"
    /\ \/ MakeGuard(t, "reguardinfo")
       \/ guard /\ Goto(t, "retry") /\ UNCHANGED <<guard, guardOld>>
    /\ UNCHANGED <<alive, taskVars, activePath, lock, lockOld>>

\* reclaim.json.  When the guard was broken meanwhile the write fails: the first
\* attempt throws that error, the second is given up.
WriteGuardInfo(t) ==
    /\ pc[t] \in {"guardinfo", "reguardinfo"}
    /\ \/ guard /\ Goto(t, "stat") /\ reclaiming' = [reclaiming EXCEPT ![t] = TRUE]
       \/ /\ ~guard /\ UNCHANGED reclaiming
          /\ Goto(t, IF pc[t] = "guardinfo" THEN "failed" ELSE "retry")
    /\ UNCHANGED <<alive, old, outcome, late, activePath, fsVars>>

\* Mutant: no finally, the guard stays and the attempt counts as open.
LeaveGuard(t) ==
    /\ pc[t] = "unguard"
    /\ Goto(t, IF outcome[t] = "none" THEN "retry" ELSE outcome[t])
    /\ UNCHANGED <<alive, taskVars, activePath, fsVars>>

\* The finally: the guard goes, whoever made it.
Unguard(t) ==
    /\ pc[t] = "unguard"
    /\ guard' = FALSE /\ guardOld' = FALSE
    /\ reclaiming' = [reclaiming EXCEPT ![t] = FALSE]
    /\ Goto(t, IF outcome[t] = "none" THEN "retry" ELSE outcome[t])
    /\ UNCHANGED <<alive, old, outcome, late, activePath, lock, lockOld>>

-----------------------------------------------------------------------------
(* The takeover: a directory is claimed as it is, a file is replaced *)

LookAtKind(t) ==
    /\ pc[t] = "isdir"
    /\ Goto(t, IF lock.kind = "dir" THEN "tmp" ELSE "unlink")
    /\ UNCHANGED <<alive, taskVars, activePath, fsVars>>

UnlinkFile(t) ==
    /\ pc[t] = "unlink"
    /\ lock' = IF lock.kind = "file" THEN NoLock ELSE lock
    /\ lockOld' = (lockOld /\ lock.kind # "file")
    /\ Goto(t, "remkdir")
    /\ UNCHANGED <<alive, taskVars, activePath, guard, guardOld>>

RemakeLock(t) ==
    /\ pc[t] = "remkdir"
    /\ \/ /\ lock.kind = "absent"
          /\ lock' = EmptyDir /\ lockOld' = FALSE
          /\ Goto(t, "tmp")
       \/ lock.kind # "absent" /\ Goto(t, "unguard") /\ UNCHANGED <<lock, lockOld>>
    /\ UNCHANGED <<alive, taskVars, activePath, guard, guardOld>>

-----------------------------------------------------------------------------
(* The metadata: a tmp file, its rename, and the read that verifies the token *)

\* A failed takeover leaves the lock; a failed creation removes it.
Fail(t) ==
    /\ outcome' = [outcome EXCEPT ![t] = "failed"]
    /\ Goto(t, IF reclaiming[t] THEN "unguard" ELSE "rm")
    /\ activePath' = IF reclaiming[t] THEN activePath
                     ELSE [activePath EXCEPT ![ProcessOf[t]] = FALSE]

WriteTmp(t) ==
    /\ pc[t] = "tmp"
    /\ \/ /\ lock.kind = "dir"
          /\ lock' = [lock EXCEPT !.tmp = @ \cup {t}]
          /\ lockOld' = FALSE
          /\ Goto(t, "rename")
          /\ UNCHANGED <<outcome, activePath>>
       \/ lock.kind # "dir" /\ Fail(t) /\ UNCHANGED <<lock, lockOld>>
    /\ UNCHANGED <<alive, old, reclaiming, late, guard, guardOld>>

RenameTmp(t) ==
    /\ pc[t] = "rename"
    /\ \/ /\ t \in lock.tmp
          /\ lock' = [lock EXCEPT !.meta = t, !.tmp = @ \ {t}]
          /\ lockOld' = FALSE
          /\ Goto(t, "verify")
          /\ UNCHANGED <<outcome, activePath>>
       \/ t \notin lock.tmp /\ Fail(t) /\ UNCHANGED <<lock, lockOld>>
    /\ UNCHANGED <<alive, old, reclaiming, late, guard, guardOld>>

Verify(t) ==
    /\ pc[t] = "verify"
    /\ \/ /\ lock.meta = t
          /\ outcome' = [outcome EXCEPT ![t] = "held"]
          /\ Goto(t, IF reclaiming[t] THEN "unguard" ELSE "held")
          /\ activePath' = [activePath EXCEPT ![ProcessOf[t]] = TRUE]
       \/ lock.meta # t /\ Fail(t)
    /\ UNCHANGED <<alive, old, reclaiming, late, fsVars>>

-----------------------------------------------------------------------------
(* release() and safeReleaseMachine, and the removal after a failed creation *)

Release(t) ==
    /\ pc[t] = "held" /\ t \in Releasing
    /\ activePath' = [activePath EXCEPT ![ProcessOf[t]] = FALSE]
    /\ Goto(t, "release")
    /\ UNCHANGED <<alive, taskVars, fsVars>>

\* A lock with the token of another is left alone, one without metadata is not.
CheckToken(t) ==
    /\ pc[t] = "release"
    /\ Goto(t, IF lock.meta \in {t, None} THEN "rm" ELSE "idle")
    /\ UNCHANGED <<alive, taskVars, activePath, fsVars>>

RemoveContents(t) ==
    /\ pc[t] = "rm"
    /\ lock' = IF lock.kind = "dir" THEN EmptyDir ELSE NoLock
    /\ lockOld' = FALSE
    /\ Goto(t, "rmdir")
    /\ UNCHANGED <<alive, taskVars, activePath, guard, guardOld>>

RemoveDir(t) ==
    /\ pc[t] = "rmdir"
    /\ lock' = IF lock = EmptyDir THEN NoLock ELSE lock
    /\ lockOld' = (lockOld /\ lock # EmptyDir)
    /\ Goto(t, IF outcome[t] = "failed" THEN "failed" ELSE "idle")
    /\ UNCHANGED <<alive, taskVars, activePath, guard, guardOld>>

-----------------------------------------------------------------------------
(* The environment *)

Die(p) ==
    /\ p \in Mortal /\ alive[p]
    /\ alive' = [alive EXCEPT ![p] = FALSE]
    /\ activePath' = [activePath EXCEPT ![p] = FALSE]
    /\ pc' = [t \in Task |-> IF ProcessOf[t] = p THEN "dead" ELSE pc[t]]
    /\ reclaiming' = [t \in Task |-> ProcessOf[t] # p /\ reclaiming[t]]
    /\ UNCHANGED <<old, outcome, late, fsVars>>

\* Tasks that touched the lock less than staleMs ago: they are between two
\* calls on it, or hold it with a heartbeat.
Touching(t) ==
    \/ pc[t] \in {"tmp", "rename", "verify", "rm", "rmdir", "release"}
    \/ pc[t] \in {"held", "unguard"} /\ outcome[t] = "held" /\ t \notin Sync

LockAges ==
    /\ lock.kind # "absent" /\ ~lockOld
    /\ \A t \in Task : ~Touching(t)
    /\ lockOld' = TRUE
    /\ UNCHANGED <<alive, pc, taskVars, activePath, lock, guard, guardOld>>

GuardAges ==
    /\ guard /\ ~guardOld
    /\ \A t \in Task : ~reclaiming[t] /\ pc[t] \notin {"guardinfo", "reguardinfo"}
    /\ guardOld' = TRUE
    /\ UNCHANGED <<alive, pc, taskVars, activePath, lock, lockOld, guard>>

-----------------------------------------------------------------------------
(* Specification *)

\* A dead process may have left a directory, with metadata or without, a lock
\* file of an older version, or a guard.
Init ==
    /\ alive = [p \in Process |-> TRUE]
    /\ pc = [t \in Task |-> "idle"]
    /\ old = [t \in Task |-> FALSE]
    /\ reclaiming = [t \in Task |-> FALSE]
    /\ outcome = [t \in Task |-> "none"]
    /\ late = [t \in Task |-> FALSE]
    /\ activePath = [p \in Process |-> FALSE]
    /\ \/ lock = NoLock
       \/ "dir" \in Leftover /\ \E m \in {None, Ghost} : lock = [EmptyDir EXCEPT !.meta = m]
       \/ "file" \in Leftover /\ lock = [kind |-> "file", meta |-> Ghost, tmp |-> {}]
    /\ guard \in {FALSE, "guard" \in Leftover}
    /\ lockOld \in {FALSE, lock.kind # "absent"}
    /\ guardOld \in {FALSE, guard}

Step(t) ==
    \/ ProbeGuard(t) \/ MakeLock(t) \/ Retry(t)
    \/ StatLock(t) \/ JudgeLock(t)
    \/ TakeGuard(t) \/ CheckGuard(t) \/ BreakGuard(t) \/ RetakeGuard(t)
    \/ WriteGuardInfo(t) \/ Unguard(t)
    \/ LookAtKind(t) \/ UnlinkFile(t) \/ RemakeLock(t)
    \/ WriteTmp(t) \/ RenameTmp(t) \/ Verify(t)
    \/ CheckToken(t) \/ RemoveContents(t) \/ RemoveDir(t)

Next ==
    \/ \E t \in Task : Begin(t) \/ Deadline(t) \/ Step(t) \/ Release(t)
    \/ \E p \in Process : Die(p)
    \/ LockAges
    \/ GuardAges

\* Live processes go on, holders finish their work, and time passes.
Fairness ==
    /\ \A t \in Task : WF_vars(Step(t)) /\ WF_vars(Release(t))
    /\ WF_vars(LockAges) /\ WF_vars(GuardAges)

Spec == Init /\ [][Next]_vars
FairSpec == Spec /\ Fairness

-----------------------------------------------------------------------------
(* Properties *)

\* Every variable has its type, and a takeover is open only between the guard
\* and its removal.
TypeOK ==
    /\ alive \in [Process -> BOOLEAN]
    /\ pc \in [Task -> {"idle", "probe", "mkdir", "stat", "judge", "guard", "guardcheck",
                        "breakguard", "reguard", "guardinfo", "reguardinfo", "isdir",
                        "unlink", "remkdir", "tmp", "rename", "verify", "unguard", "retry",
                        "held", "release", "rm", "rmdir", "failed", "dead"}]
    /\ old \in [Task -> BOOLEAN]
    /\ reclaiming \in [Task -> BOOLEAN]
    /\ outcome \in [Task -> {"none", "held", "failed"}]
    /\ late \in [Task -> BOOLEAN]
    /\ activePath \in [Process -> BOOLEAN]
    /\ lock \in [kind : {"absent", "dir", "file"}, meta : Holders \cup {None}, tmp : SUBSET Task]
    /\ lockOld \in BOOLEAN /\ guard \in BOOLEAN /\ guardOld \in BOOLEAN
    /\ \A t \in Task : reclaiming[t] =>
          pc[t] \in {"stat", "judge", "isdir", "unlink", "remkdir", "tmp", "rename",
                    "verify", "unguard"}

\* withFileLock runs one function at a time: no two live tasks are past a
\* successful acquisition and before their release.
MutualExclusion ==
    \A s, t \in Task : pc[s] = "held" /\ pc[t] = "held" => s = t

\* The lock directory and its metadata stay the holder's until it releases:
\* no failed attempt, reclaim or late release of another removes or overwrites
\* them (what isLockHeld and the rival's check of the pid rely on).
HolderIsRecorded ==
    \A t \in Task : pc[t] = "held" => lock.kind = "dir" /\ lock.meta = t

Acquiring(t) == pc[t] \notin {"idle", "held", "release", "rm", "rmdir", "failed", "dead"}

\* Neither a lock nor a guard left by a dead process blocks the others for ever:
\* while a task tries, some task gets the lock or those that try give up.
DeadDoNotBlock ==
    (\E t \in Task : Acquiring(t))
        ~> ((\E t \in Task : pc[t] = "held") \/ \A t \in Task : ~Acquiring(t))

\* registry/lock.ts: an asynchronous acquisition that fails has waited for
\* acquireTimeoutMs, time enough to see a leftover lock reclaimed.
FailsOnlyLate ==
    \A t \in Task \ Sync : pc[t] = "failed" => late[t]
=============================================================================
