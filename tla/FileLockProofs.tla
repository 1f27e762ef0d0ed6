---------------------------- MODULE FileLockProofs ----------------------------
(***************************************************************************)
(* What the file lock guarantees for any number of tasks and processes.    *)
(*                                                                         *)
(* The registry lock among live processes: asynchronous tasks with         *)
(* mtimeFirst that release what they hold, nothing left over, nobody dies. *)
(* There the heartbeat keeps the lock from ever looking stale, so that the *)
(* reclaim guard is never taken and mkdir alone decides.                   *)
(*                                                                         *)
(* Its types, whoever dies and whatever is left over.                      *)
(*                                                                         *)
(* The takeover of a lock somebody left behind: tasks of any kind that     *)
(* keep what they get.  The guard decides among those that reclaim, and    *)
(* each of them looks at the lock again under it.                          *)
(***************************************************************************)
EXTENDS FileLock, TLAPS

Calm == Sync = {} /\ Mortal = {} /\ Leftover = {} /\ MtimeFirst = TRUE

\* A task in one of these stages has made the lock directory.
Owning == {"tmp", "rename", "verify", "held", "release", "rm", "rmdir"}
Waiting == {"idle", "probe", "mkdir", "stat", "retry", "failed"}

Written(t) == [kind |-> "dir", meta |-> t, tmp |-> {}]
HalfWritten(t) == [kind |-> "dir", meta |-> None, tmp |-> {t}]

\* No reclaim has begun and nothing looks stale.
QuietInv ==
    /\ pc \in [Task -> Owning \cup Waiting]
    /\ reclaiming = [t \in Task |-> FALSE]
    /\ outcome \in [Task -> {"none", "held"}]
    /\ lockOld = FALSE /\ guard = FALSE

\* The lock directory is there exactly while a task owns it, with the contents
\* that the owner has written so far.
OwnerInv ==
    /\ \A s, t \in Task : pc[s] \in Owning /\ pc[t] \in Owning => s = t
    /\ (\A t \in Task : pc[t] \notin Owning) => lock = NoLock
    /\ \A t \in Task :
          /\ pc[t] \in {"tmp", "rmdir"} => lock = EmptyDir
          /\ pc[t] = "rename" => lock = HalfWritten(t)
          /\ pc[t] \in {"verify", "held", "release", "rm"} => lock = Written(t)
          /\ pc[t] = "held" => outcome[t] = "held"

CalmInv == QuietInv /\ OwnerInv

-----------------------------------------------------------------------------
(* The invariant is inductive *)

LEMMA CalmInit ==
    ASSUME Calm, Init
    PROVE  CalmInv
<1> DEFINE had(what) == what \in Leftover
<1>1. lock = NoLock /\ guard = FALSE
  <2>1. ~had("dir") /\ ~had("file") /\ ~had("guard")
    BY DEF Calm
  <2>2. ~had("dir") /\ ~had("file") => lock = NoLock
    BY Zenon DEF Init
  <2>3. guard \in {FALSE, had("guard")}
    BY DEF Init
  <2>4. had("guard") = FALSE
    BY <2>1
  <2> QED
    BY <2>1, <2>2, <2>3, <2>4, Zenon
<1>2. lockOld = FALSE
  BY <1>1 DEF Init, NoLock
<1>3. QuietInv
  BY <1>1, <1>2 DEF Init, QuietInv, Owning, Waiting
<1>4. OwnerInv
  BY <1>1 DEF Init, OwnerInv, Owning
<1> QED
  BY <1>3, <1>4 DEF CalmInv

\* While the lock directory exists its owner has just touched it.
LEMMA NeverOld ==
    ASSUME Calm, CalmInv
    PROVE  ~LockAges
<1>1. SUFFICES ASSUME LockAges
               PROVE  FALSE
  OBVIOUS
<1>2. lock # NoLock
  BY <1>1 DEF LockAges, NoLock
<1>3. PICK t \in Task : pc[t] \in Owning
  BY <1>2 DEF CalmInv, OwnerInv
<1>4. pc[t] = "held" => outcome[t] = "held" /\ t \notin Sync
  BY DEF Calm, CalmInv, OwnerInv
<1>5. Touching(t)
  BY <1>3, <1>4 DEF Touching, Owning
<1> QED
  BY <1>1, <1>5 DEF LockAges

\* A step of a task that owns nothing, before and after, and does not touch the
\* lock.
LEMMA WaitingStep ==
    ASSUME Calm, CalmInv,
           NEW t \in Task, NEW next \in Waiting,
           pc[t] \in Waiting, Goto(t, next),
           outcome' \in [Task -> {"none", "held"}],
           \A s \in Task : s # t => outcome'[s] = outcome[s],
           UNCHANGED <<reclaiming, fsVars>>
    PROVE  CalmInv'
<1>1. pc' \in [Task -> Owning \cup Waiting] /\ Owning \cap Waiting = {}
  BY DEF CalmInv, QuietInv, Goto, Owning, Waiting
<1>2. pc'[t] \in Waiting /\ \A s \in Task : s # t => pc'[s] = pc[s]
  BY DEF CalmInv, QuietInv, Goto
<1>3. QuietInv'
  BY <1>1 DEF CalmInv, QuietInv, fsVars
<1>4. \A s \in Task : pc'[s] \in Owning => s # t /\ pc'[s] = pc[s]
  BY <1>1, <1>2
<1>5. lock' = lock
  BY DEF fsVars
<1>6. \A r, s \in Task : pc'[r] \in Owning /\ pc'[s] \in Owning => r = s
  BY <1>4 DEF CalmInv, OwnerInv
<1>7. (\A s \in Task : pc'[s] \notin Owning) => lock' = NoLock
  BY <1>1, <1>2, <1>5 DEF CalmInv, OwnerInv
<1>8. ASSUME NEW s \in Task, pc'[s] \in Owning
      PROVE  /\ pc'[s] \in {"tmp", "rmdir"} => lock' = EmptyDir
             /\ pc'[s] = "rename" => lock' = HalfWritten(s)
             /\ pc'[s] \in {"verify", "held", "release", "rm"} => lock' = Written(s)
             /\ pc'[s] = "held" => outcome'[s] = "held"
  BY <1>4, <1>5, <1>8 DEF CalmInv, OwnerInv
<1>9. OwnerInv'
  BY <1>6, <1>7, <1>8 DEF OwnerInv, Owning, EmptyDir, HalfWritten, Written
<1> QED
  BY <1>3, <1>9 DEF CalmInv

\* A step that leaves one task as the only owner, with what it has written.
LEMMA OwningStep ==
    ASSUME Calm, CalmInv,
           NEW t \in Task, NEW next \in Owning,
           \A s \in Task : pc[s] \in Owning => s = t,
           Goto(t, next),
           outcome' \in [Task -> {"none", "held"}],
           next \in {"tmp", "rmdir"} => lock' = EmptyDir,
           next = "rename" => lock' = HalfWritten(t),
           next \in {"verify", "held", "release", "rm"} => lock' = Written(t),
           next = "held" => outcome'[t] = "held",
           lockOld' = FALSE,
           UNCHANGED <<reclaiming, guard>>
    PROVE  CalmInv'
<1>1. pc' \in [Task -> Owning \cup Waiting]
  BY DEF CalmInv, QuietInv, Goto
<1>2. pc'[t] = next /\ \A s \in Task : s # t => pc'[s] = pc[s]
  BY DEF CalmInv, QuietInv, Goto
<1>3. QuietInv'
  BY <1>1 DEF CalmInv, QuietInv
<1>4. \A s \in Task : pc'[s] \in Owning => s = t
  BY <1>2
<1>5. pc'[t] \in Owning
  BY <1>2
<1>6. ASSUME NEW s \in Task
      PROVE  /\ pc'[s] \in {"tmp", "rmdir"} => lock' = EmptyDir
             /\ pc'[s] = "rename" => lock' = HalfWritten(s)
             /\ pc'[s] \in {"verify", "held", "release", "rm"} => lock' = Written(s)
             /\ pc'[s] = "held" => outcome'[s] = "held"
  <2>1. CASE s = t
    BY <1>2, <2>1
  <2>2. CASE s # t
    BY <1>4, <2>2 DEF Owning
  <2> QED
    BY <2>1, <2>2
<1>7. OwnerInv'
  BY <1>4, <1>5, <1>6 DEF OwnerInv, EmptyDir, HalfWritten, Written
<1> QED
  BY <1>3, <1>7 DEF CalmInv

\* Owners and the others take different steps; a task that owns the lock is the
\* only one.
LEMMA OwnerIsAlone ==
    ASSUME CalmInv, NEW t \in Task, pc[t] \in Owning
    PROVE  \A s \in Task : pc[s] \in Owning => s = t
  BY DEF CalmInv, OwnerInv

LEMMA NextCalm ==
    ASSUME Calm, CalmInv, Next
    PROVE  CalmInv'
<1> USE Calm, CalmInv
<1>1. /\ outcome \in [Task -> {"none", "held"}] /\ pc \in [Task -> Owning \cup Waiting]
      /\ lockOld = FALSE /\ guard = FALSE /\ \A t \in Task : reclaiming[t] = FALSE
  BY DEF CalmInv, QuietInv
<1>2. ASSUME NEW t \in Task, Begin(t) PROVE CalmInv'
  <2>1. /\ pc[t] \in Waiting /\ Goto(t, "probe") /\ "probe" \in Waiting
        /\ UNCHANGED <<reclaiming, fsVars>>
    BY <1>2 DEF Begin, Waiting
  <2>2. /\ outcome' \in [Task -> {"none", "held"}]
        /\ \A s \in Task : s # t => outcome'[s] = outcome[s]
    BY <1>1, <1>2 DEF Begin
  <2> QED
    BY <2>1, <2>2, WaitingStep
<1>3. ASSUME NEW t \in Task, Deadline(t) PROVE CalmInv'
  BY <1>3 DEF Deadline, CalmInv, QuietInv, OwnerInv, fsVars, Owning, Written, HalfWritten
<1>4. ASSUME NEW t \in Task, ProbeGuard(t) PROVE CalmInv'
  <2>1. /\ pc[t] \in Waiting /\ Goto(t, "mkdir") /\ "mkdir" \in Waiting
        /\ UNCHANGED <<outcome, reclaiming, fsVars>>
    BY <1>1, <1>4 DEF ProbeGuard, GuardActive, Waiting, taskVars
  <2> QED
    BY <1>1, <2>1, WaitingStep
<1>5. ASSUME NEW t \in Task, MakeLock(t) PROVE CalmInv'
  <2>1. /\ pc[t] = "mkdir" /\ "stat" \in Waiting /\ "tmp" \in Owning /\ pc[t] \in Waiting
        /\ UNCHANGED <<outcome, reclaiming, guard, guardOld>>
    BY <1>5 DEF MakeLock, Waiting, Owning, taskVars
  <2>2. CASE lock.kind = "absent"
    <3>1. \A s \in Task : pc[s] \notin Owning
      BY <2>2 DEF CalmInv, OwnerInv, Owning, EmptyDir, HalfWritten, Written
    <3>2. lock' = EmptyDir /\ lockOld' = FALSE /\ Goto(t, "tmp")
      BY <1>5, <2>2 DEF MakeLock
    <3> QED
      BY <1>1, <2>1, <3>1, <3>2, OwningStep
  <2>3. CASE lock.kind # "absent"
    <3>1. Goto(t, "stat") /\ UNCHANGED fsVars
      BY <1>5, <2>1, <2>3 DEF MakeLock, fsVars
    <3> QED
      BY <1>1, <2>1, <3>1, WaitingStep
  <2> QED
    BY <2>2, <2>3
<1>6. ASSUME NEW t \in Task, Retry(t) PROVE CalmInv'
  <2>1. PICK next \in Waiting : Goto(t, next)
    BY <1>6 DEF Retry, Waiting
  <2>2. pc[t] \in Waiting /\ UNCHANGED <<outcome, reclaiming, fsVars>>
    BY <1>6 DEF Retry, Waiting, taskVars
  <2> QED
    BY <1>1, <2>1, <2>2, WaitingStep
\* The lock is fresh: with mtimeFirst its metadata is not even read.
<1>7. ASSUME NEW t \in Task, StatLock(t) PROVE CalmInv'
  <2>1. /\ pc[t] \in Waiting /\ "retry" \in Waiting
        /\ UNCHANGED <<reclaiming, fsVars>>
    BY <1>7 DEF StatLock, Waiting
  <2>2. ~(MtimeFirst /\ ~lockOld) = FALSE /\ reclaiming[t] = FALSE
    BY <1>1 DEF Calm
  <2>3. Goto(t, "retry")
    BY <1>7, <2>2 DEF StatLock, NotStale
  <2>4. outcome' = outcome
    BY <1>1, <1>7, <2>2 DEF StatLock, NotStale
  <2> QED
    BY <1>1, <2>1, <2>3, <2>4, WaitingStep
<1>8. ASSUME NEW t \in Task, WriteTmp(t) PROVE CalmInv'
  <2>1. /\ pc[t] = "tmp" /\ pc[t] \in Owning /\ "rename" \in Owning
        /\ UNCHANGED <<reclaiming, guard>>
    BY <1>8 DEF WriteTmp, Owning
  <2>2. lock = EmptyDir
    BY <2>1 DEF CalmInv, OwnerInv
  <2>3. lock.kind = "dir" /\ [lock EXCEPT !.tmp = @ \cup {t}] = HalfWritten(t)
    BY <2>2 DEF EmptyDir, HalfWritten
  <2>4. lock' = HalfWritten(t) /\ lockOld' = FALSE /\ Goto(t, "rename") /\ outcome' = outcome
    BY <1>8, <2>3 DEF WriteTmp
  <2> QED
    BY <1>1, <2>1, <2>4, OwnerIsAlone, OwningStep
<1>9. ASSUME NEW t \in Task, RenameTmp(t) PROVE CalmInv'
  <2>1. /\ pc[t] = "rename" /\ pc[t] \in Owning /\ "verify" \in Owning
        /\ UNCHANGED <<reclaiming, guard>>
    BY <1>9 DEF RenameTmp, Owning
  <2>2. lock = HalfWritten(t)
    BY <2>1 DEF CalmInv, OwnerInv
  <2>3. t \in lock.tmp /\ lock.tmp \ {t} = {}
    BY <2>2 DEF HalfWritten
  <2>4. lockOld' = FALSE /\ Goto(t, "verify") /\ outcome' = outcome
    BY <1>9, <2>3 DEF RenameTmp
  <2>5. lock' = [lock EXCEPT !.meta = t, !.tmp = {}]
    BY <1>9, <2>3 DEF RenameTmp
  <2>6. lock' = Written(t)
    BY <2>2, <2>5 DEF HalfWritten, Written
  <2> QED
    BY <1>1, <2>1, <2>4, <2>6, OwnerIsAlone, OwningStep
<1>10. ASSUME NEW t \in Task, Verify(t) PROVE CalmInv'
  <2>1. /\ pc[t] = "verify" /\ pc[t] \in Owning /\ "held" \in Owning
        /\ UNCHANGED <<reclaiming, guard, lock>> /\ lockOld' = FALSE
    BY <1>1, <1>10 DEF Verify, Owning, fsVars
  <2>2. lock = Written(t)
    BY <2>1 DEF CalmInv, OwnerInv
  <2>3. lock.meta = t /\ reclaiming[t] = FALSE
    BY <1>1, <2>2 DEF Written
  <2>4. outcome' = [outcome EXCEPT ![t] = "held"] /\ Goto(t, "held")
    BY <1>10, <2>3 DEF Verify
  <2>5. outcome' \in [Task -> {"none", "held"}] /\ outcome'[t] = "held"
    BY <1>1, <2>4
  <2> QED
    BY <2>1, <2>2, <2>4, <2>5, OwnerIsAlone, OwningStep
<1>11. ASSUME NEW t \in Task, Release(t) PROVE CalmInv'
  <2>1. /\ pc[t] = "held" /\ pc[t] \in Owning /\ "release" \in Owning
        /\ Goto(t, "release") /\ UNCHANGED <<outcome, reclaiming, guard, lock>> /\ lockOld' = FALSE
    BY <1>1, <1>11 DEF Release, Owning, fsVars, taskVars
  <2>2. lock = Written(t)
    BY <2>1 DEF CalmInv, OwnerInv
  <2> QED
    BY <1>1, <2>1, <2>2, OwnerIsAlone, OwningStep
<1>12. ASSUME NEW t \in Task, CheckToken(t) PROVE CalmInv'
  <2>1. /\ pc[t] = "release" /\ pc[t] \in Owning /\ "rm" \in Owning
        /\ UNCHANGED <<outcome, reclaiming, guard, lock>> /\ lockOld' = FALSE
    BY <1>1, <1>12 DEF CheckToken, Owning, fsVars, taskVars
  <2>2. lock = Written(t) /\ lock.meta \in {t, None}
    BY <2>1 DEF CalmInv, OwnerInv, Written
  <2>3. Goto(t, "rm")
    BY <1>12, <2>2 DEF CheckToken
  <2> QED
    BY <1>1, <2>1, <2>2, <2>3, OwnerIsAlone, OwningStep
<1>13. ASSUME NEW t \in Task, RemoveContents(t) PROVE CalmInv'
  <2>1. /\ pc[t] = "rm" /\ pc[t] \in Owning /\ "rmdir" \in Owning /\ Goto(t, "rmdir")
        /\ UNCHANGED <<outcome, reclaiming, guard>> /\ lockOld' = FALSE
    BY <1>13 DEF RemoveContents, Owning, taskVars
  <2>2. lock.kind = "dir"
    BY <2>1 DEF CalmInv, OwnerInv, Written
  <2>3. lock' = EmptyDir
    BY <1>13, <2>2 DEF RemoveContents
  <2> QED
    BY <1>1, <2>1, <2>3, OwnerIsAlone, OwningStep
<1>14. ASSUME NEW t \in Task, RemoveDir(t) PROVE CalmInv'
  <2>1. /\ pc[t] = "rmdir" /\ pc[t] \in Owning /\ outcome[t] # "failed"
        /\ UNCHANGED <<outcome, reclaiming, guard>> /\ lockOld' = FALSE
    BY <1>1, <1>14 DEF RemoveDir, Owning, taskVars
  <2>2. Goto(t, "idle")
    BY <1>14, <2>1 DEF RemoveDir
  <2>3. lock = EmptyDir
    BY <2>1 DEF CalmInv, OwnerInv
  <2>4. lock' = NoLock
    BY <1>14, <2>3 DEF RemoveDir
  <2>5. QuietInv'
    BY <1>1, <2>1, <2>2 DEF CalmInv, QuietInv, Goto, Waiting
  <2>6. \A s \in Task : pc'[s] \notin Owning
    BY <1>1, <2>1, <2>2, OwnerIsAlone DEF Goto, Owning
  <2>7. OwnerInv'
    BY <2>4, <2>6 DEF OwnerInv, Owning
  <2> QED
    BY <2>5, <2>7 DEF CalmInv
\* The stages of a reclaim are never reached.
<1>15. ASSUME NEW t \in Task
       PROVE  ~( \/ JudgeLock(t) \/ TakeGuard(t) \/ CheckGuard(t) \/ BreakGuard(t)
                 \/ RetakeGuard(t) \/ WriteGuardInfo(t) \/ Unguard(t)
                 \/ LookAtKind(t) \/ UnlinkFile(t) \/ RemakeLock(t) )
  <2>1. pc[t] \notin {"judge", "guard", "guardcheck", "breakguard", "reguard", "guardinfo",
                      "reguardinfo", "unguard", "isdir", "unlink", "remkdir"}
    BY <1>1 DEF Owning, Waiting
  <2> QED
    BY <2>1 DEF JudgeLock, TakeGuard, CheckGuard, BreakGuard, RetakeGuard, WriteGuardInfo,
                Unguard, LookAtKind, UnlinkFile, RemakeLock
<1>16. ~LockAges /\ ~GuardAges /\ \A p \in Process : ~Die(p)
  BY <1>1, NeverOld DEF GuardAges, Die, Calm
<1>17. ASSUME NEW t \in Task, Step(t) PROVE CalmInv'
  BY <1>4, <1>5, <1>6, <1>7, <1>8, <1>9, <1>10, <1>12, <1>13, <1>14, <1>15, <1>17 DEF Step
<1> QED
  BY <1>2, <1>3, <1>11, <1>16, <1>17 DEF Next

LEMMA StutterCalm ==
    ASSUME CalmInv, UNCHANGED vars
    PROVE  CalmInv'
  BY DEF CalmInv, QuietInv, OwnerInv, vars, taskVars, fsVars, Owning, Waiting

LEMMA AlwaysCalm ==
    ASSUME Calm
    PROVE  Spec => []CalmInv
<1>1. Init => CalmInv
  BY CalmInit
<1>2. CalmInv /\ [Next]_vars => CalmInv'
  BY NextCalm, StutterCalm
<1> QED
  BY <1>1, <1>2, PTL DEF Spec

-----------------------------------------------------------------------------
(* The properties *)

\* withFileLock on the registry lock runs one function at a time, whatever the
\* number of processes and of tasks in each, as long as nobody dies.
THEOREM RegistryLockIsExclusive ==
    ASSUME Calm
    PROVE  Spec => []MutualExclusion
<1>1. CalmInv => MutualExclusion
  BY DEF CalmInv, OwnerInv, MutualExclusion, Owning
<1> QED
  BY <1>1, AlwaysCalm, PTL

\* In the same setting metadata.json names the holder from the acquisition until
\* its release: no attempt or late release of another touches it.
THEOREM RegistryLockNamesItsHolder ==
    ASSUME Calm
    PROVE  Spec => []HolderIsRecorded
<1>1. CalmInv => HolderIsRecorded
  BY DEF CalmInv, OwnerInv, HolderIsRecorded, Written
<1> QED
  BY <1>1, AlwaysCalm, PTL

-----------------------------------------------------------------------------
(* The takeover of what a dead process left, by tasks that live and keep   *)
(* the lock: hosts on a data directory.  A guard is not among what it left.*)

Takeover == Mortal = {} /\ Releasing = {} /\ "guard" \notin Leftover

\* It holds the lock, or has all it takes to: the directory that it made, or
\* the metadata under the guard.
Owner(t) ==
    \/ pc[t] = "held"
    \/ pc[t] = "unguard" /\ outcome[t] = "held"
    \/ pc[t] \in {"tmp", "rename", "verify"} /\ ~reclaiming[t]

Guarding(t) == reclaiming[t] \/ pc[t] = "guardinfo"

\* The lock was last seen stale, and still looks so.
LooksStale == MtimeFirst \/ lock.meta = None => lockOld

StageInv ==
    /\ alive = [p \in Process |-> TRUE]
    /\ \A t \in Task :
          /\ pc[t] \notin {"release", "rm", "rmdir", "dead"}
          /\ outcome[t] = "held" => pc[t] \in {"held", "unguard"}
          /\ pc[t] \in {"isdir", "unlink", "remkdir", "unguard"} => reclaiming[t]

\* Before anybody has the lock the guard was not given back: it is a mutual
\* exclusion of its own.
GuardInv ==
    /\ ~guardOld
    /\ guard <=> \E t \in Task : Guarding(t)
    /\ \A s, t \in Task : Guarding(s) /\ Guarding(t) => s = t
    /\ \A t \in Task :
          /\ pc[t] \notin {"breakguard", "reguard", "reguardinfo", "unguard"}
          /\ pc[t] = "guardcheck" => guard

\* Nothing was left, and nothing was made yet.
NothingThere ==
    /\ lock = NoLock /\ ~guard
    /\ \A t \in Task : pc[t] \in {"idle", "probe", "mkdir", "stat", "retry", "failed"}

\* What was left is as it was found.
AsFound ==
    /\ lock.kind \in {"dir", "file"} /\ lock.meta \in {None, Ghost} /\ lock.tmp = {}
    /\ lock.kind = "file" => lock.meta = Ghost
    /\ \A t \in Task :
          /\ pc[t] \notin {"remkdir", "tmp", "rename", "verify"}
          /\ pc[t] = "judge" => (old[t] => lockOld) /\ (MtimeFirst => lockOld)
          /\ pc[t] = "judge" /\ reclaiming[t] /\ lock.meta = None => old[t]
          /\ pc[t] \in {"guard", "guardcheck"} \/ Guarding(t) => LooksStale
          /\ pc[t] = "unlink" => lock.kind = "file"

\* The task under the guard replaces it.
Claims(r) ==
    /\ reclaiming[r]
    /\ \/ pc[r] = "remkdir" /\ lock = NoLock
       \/ pc[r] = "tmp" /\ lock.kind = "dir" /\ lock.meta \in {None, Ghost} /\ lock.tmp = {}
       \/ pc[r] = "rename" /\ lock.kind = "dir" /\ lock.meta \in {None, Ghost} /\ lock.tmp = {r}
       \/ pc[r] = "verify" /\ lock.kind = "dir" /\ lock.meta = r /\ lock.tmp = {}

Unowned == \A t \in Task : ~Owner(t)
UnownedInv ==
    Unowned =>
        GuardInv /\ (NothingThere \/ AsFound \/ \E r \in Task : Claims(r))

\* Once a task owns the lock it never looks stale under the guard, not even to a
\* task that broke the guard of another.
OwnedBy(o) ==
    /\ \A t \in Task : Owner(t) => t = o
    /\ lock.kind = "dir" /\ activePath[ProcessOf[o]]
    /\ pc[o] = "tmp" => lock.meta = None
    /\ pc[o] = "rename" => lock.meta = None /\ o \in lock.tmp
    /\ pc[o] \in {"verify", "held", "unguard"} => lock.meta = o
    /\ lockOld => lock.meta = o
    /\ \A t \in Task \ {o} : reclaiming[t] =>
          /\ pc[t] \in {"stat", "judge", "remkdir", "unguard"}
          /\ pc[t] = "judge" /\ old[t] => lock.meta = o
OwnedInv == \A o \in Task : Owner(o) => OwnedBy(o)

TakeoverInv == TypeOK /\ StageInv /\ UnownedInv /\ OwnedInv

-----------------------------------------------------------------------------
(* Types *)

LockRecords == [kind : {"absent", "dir", "file"}, meta : Holders \cup {None}, tmp : SUBSET Task]

\* What the calls on the lock directory leave there.
LEMMA LockTypes ==
    /\ NoLock \in LockRecords /\ EmptyDir \in LockRecords
    /\ \A m \in {None, Ghost} : [EmptyDir EXCEPT !.meta = m] \in LockRecords
    /\ \A l \in LockRecords, t \in Task :
          /\ [l EXCEPT !.tmp = @ \cup {t}] \in LockRecords
          /\ [l EXCEPT !.meta = t, !.tmp = @ \ {t}] \in LockRecords
<1> USE DEF LockRecords, NoLock, EmptyDir, Holders
<1>1. NoLock \in LockRecords /\ EmptyDir \in LockRecords
  OBVIOUS
<1>2. ASSUME NEW m \in {None, Ghost} PROVE [EmptyDir EXCEPT !.meta = m] \in LockRecords
  OBVIOUS
<1>3. ASSUME NEW l \in LockRecords, NEW t \in Task
      PROVE  /\ [l EXCEPT !.tmp = @ \cup {t}] \in LockRecords
             /\ [l EXCEPT !.meta = t, !.tmp = @ \ {t}] \in LockRecords
  OBVIOUS
<1> QED
  BY <1>1, <1>2, <1>3

LEMMA InitTypes ==
    ASSUME Init
    PROVE  TypeOK
<1>1. \/ lock = NoLock
      \/ \E m \in {None, Ghost} : lock = [EmptyDir EXCEPT !.meta = m]
      \/ lock = [kind |-> "file", meta |-> Ghost, tmp |-> {}]
  BY Zenon DEF Init
<1>2. [kind |-> "file", meta |-> Ghost, tmp |-> {}] \in LockRecords
  BY DEF LockRecords, Holders
<1>3. lock \in LockRecords
  BY <1>1, <1>2, LockTypes
<1>4. guard \in BOOLEAN /\ lockOld \in BOOLEAN /\ guardOld \in BOOLEAN
  <2>1. guard \in {FALSE, "guard" \in Leftover} /\ lockOld \in {FALSE, lock.kind # "absent"}
        /\ guardOld \in {FALSE, guard}
    BY DEF Init
  <2>2. ("guard" \in Leftover) \in BOOLEAN /\ (lock.kind # "absent") \in BOOLEAN
    OBVIOUS
  <2> QED
    BY <2>1, <2>2
<1>5. /\ alive \in [Process -> BOOLEAN] /\ activePath \in [Process -> BOOLEAN]
      /\ pc = [t \in Task |-> "idle"] /\ outcome = [t \in Task |-> "none"]
      /\ old \in [Task -> BOOLEAN] /\ reclaiming = [t \in Task |-> FALSE]
      /\ late \in [Task -> BOOLEAN]
  BY DEF Init
<1> QED
  BY <1>3, <1>4, <1>5 DEF TypeOK, LockRecords

LEMMA NextTypes ==
    ASSUME TypeOK, Next
    PROVE  TypeOK'
<1>a. lock \in LockRecords
  BY DEF TypeOK, LockRecords
<1>b. ASSUME NEW t \in Task
      PROVE  /\ [lock EXCEPT !.tmp = @ \cup {t}] \in LockRecords
             /\ [lock EXCEPT !.meta = t, !.tmp = @ \ {t}] \in LockRecords
  <2> HIDE DEF LockRecords
  <2> QED
    BY <1>a, LockTypes
<1> USE ProcessAssumption DEF TypeOK
<1>0. lock \in LockRecords /\ (lock' \in LockRecords => lock' \in
        [kind : {"absent", "dir", "file"}, meta : Holders \cup {None}, tmp : SUBSET Task])
  BY DEF LockRecords
<1>1. ASSUME NEW t \in Task, Begin(t) PROVE TypeOK'
  BY <1>1 DEF Begin, Goto, taskVars, fsVars
<1>2. ASSUME NEW t \in Task, Deadline(t) PROVE TypeOK'
  BY <1>2 DEF Deadline, Goto, taskVars, fsVars
<1>3. ASSUME NEW t \in Task, Release(t) PROVE TypeOK'
  BY <1>3 DEF Release, Goto, taskVars, fsVars
<1>4. ASSUME NEW t \in Task, ProbeGuard(t) PROVE TypeOK'
  BY <1>4 DEF ProbeGuard, Goto, taskVars, fsVars
<1>5. ASSUME NEW t \in Task, MakeLock(t) PROVE TypeOK'
  <2>1. lock' \in LockRecords
    BY <1>5, <1>0, LockTypes DEF MakeLock
  <2> QED
    BY <1>5, <1>0, <2>1 DEF MakeLock, Goto, taskVars, fsVars
<1>6. ASSUME NEW t \in Task, Retry(t) PROVE TypeOK'
  BY <1>6 DEF Retry, Goto, taskVars, fsVars
<1>7. ASSUME NEW t \in Task, StatLock(t) PROVE TypeOK'
  BY <1>7 DEF StatLock, Goto, NotStale, taskVars, fsVars
<1>8. ASSUME NEW t \in Task, JudgeLock(t) PROVE TypeOK'
  BY <1>8 DEF JudgeLock, Goto, NotStale, taskVars, fsVars
<1>9. ASSUME NEW t \in Task, TakeGuard(t) PROVE TypeOK'
  BY <1>9 DEF TakeGuard, Goto, MakeGuard, taskVars, fsVars
<1>10. ASSUME NEW t \in Task, CheckGuard(t) PROVE TypeOK'
  BY <1>10 DEF CheckGuard, Goto, taskVars, fsVars
<1>11. ASSUME NEW t \in Task, BreakGuard(t) PROVE TypeOK'
  BY <1>11 DEF BreakGuard, Goto, taskVars, fsVars
<1>12. ASSUME NEW t \in Task, RetakeGuard(t) PROVE TypeOK'
  BY <1>12 DEF RetakeGuard, Goto, MakeGuard, taskVars, fsVars
<1>13. ASSUME NEW t \in Task, WriteGuardInfo(t) PROVE TypeOK'
  BY <1>13 DEF WriteGuardInfo, Goto, taskVars, fsVars
<1>14. ASSUME NEW t \in Task, Unguard(t) PROVE TypeOK'
  BY <1>14 DEF Unguard, Goto, taskVars, fsVars
<1>15. ASSUME NEW t \in Task, LookAtKind(t) PROVE TypeOK'
  BY <1>15 DEF LookAtKind, Goto, taskVars, fsVars
<1>16. ASSUME NEW t \in Task, UnlinkFile(t) PROVE TypeOK'
  <2>1. lock' \in LockRecords
    BY <1>16, <1>0, LockTypes DEF UnlinkFile
  <2> QED
    BY <1>16, <1>0, <2>1 DEF UnlinkFile, Goto, taskVars, fsVars
<1>17. ASSUME NEW t \in Task, RemakeLock(t) PROVE TypeOK'
  <2>1. lock' \in LockRecords
    BY <1>17, <1>0, LockTypes DEF RemakeLock
  <2> QED
    BY <1>17, <1>0, <2>1 DEF RemakeLock, Goto, taskVars, fsVars
<1>18. ASSUME NEW t \in Task, WriteTmp(t) PROVE TypeOK'
  <2>1. lock' \in LockRecords
    <3>1. lock' = lock \/ lock' = [lock EXCEPT !.tmp = @ \cup {t}]
      BY <1>18 DEF WriteTmp
    <3> QED
      BY <3>1, <1>a, <1>b
  <2>2. /\ outcome' \in [Task -> {"none", "held", "failed"}]
        /\ activePath' \in [Process -> BOOLEAN] /\ lockOld' \in BOOLEAN
    BY <1>18 DEF WriteTmp, Fail
  <2>3. pc' = [pc EXCEPT ![t] = pc'[t]] /\ pc'[t] \in {"rename", "unguard", "rm"}
        /\ (pc'[t] = "rm" => ~reclaiming[t])
    BY <1>18 DEF WriteTmp, Fail, Goto
  <2> QED
    BY <1>18, <1>0, <2>1, <2>2, <2>3 DEF WriteTmp
<1>19. ASSUME NEW t \in Task, RenameTmp(t) PROVE TypeOK'
  <2>1. lock' \in LockRecords
    <3>1. lock' = lock \/ lock' = [lock EXCEPT !.meta = t, !.tmp = @ \ {t}]
      BY <1>19 DEF RenameTmp
    <3> QED
      BY <3>1, <1>a, <1>b
  <2> QED
    BY <1>19, <1>0, <2>1 DEF RenameTmp, Goto, Fail, taskVars, fsVars
<1>20. ASSUME NEW t \in Task, Verify(t) PROVE TypeOK'
  BY <1>20 DEF Verify, Goto, Fail, taskVars, fsVars
<1>21. ASSUME NEW t \in Task, CheckToken(t) PROVE TypeOK'
  BY <1>21 DEF CheckToken, Goto, taskVars, fsVars
<1>22. ASSUME NEW t \in Task, RemoveContents(t) PROVE TypeOK'
  <2>1. lock' \in LockRecords
    BY <1>22, <1>0, LockTypes DEF RemoveContents
  <2> QED
    BY <1>22, <1>0, <2>1 DEF RemoveContents, Goto, taskVars, fsVars
<1>23. ASSUME NEW t \in Task, RemoveDir(t) PROVE TypeOK'
  <2>1. lock' \in LockRecords
    BY <1>23, <1>0, LockTypes DEF RemoveDir
  <2> QED
    BY <1>23, <1>0, <2>1 DEF RemoveDir, Goto, taskVars, fsVars
<1>24. ASSUME NEW p \in Process, Die(p) PROVE TypeOK'
  BY <1>24 DEF Die, fsVars
<1>25. CASE LockAges
  BY <1>25 DEF LockAges, taskVars
<1>26. CASE GuardAges
  BY <1>26 DEF GuardAges, taskVars
<1> QED
  BY <1>1, <1>2, <1>3, <1>4, <1>5, <1>6, <1>7, <1>8, <1>9, <1>10, <1>11, <1>12, <1>13, <1>14, <1>15, <1>16, <1>17, <1>18, <1>19, <1>20, <1>21, <1>22, <1>23, <1>24, <1>25, <1>26 DEF Next, Step

\* Whoever dies where, and whatever was left, every variable keeps to its type, and
\* a takeover is open only between the guard and its removal (file-lock.ts:434-441).
THEOREM LockIsWellFormed == Spec => []TypeOK
<1>1. TypeOK /\ UNCHANGED vars => TypeOK'
  BY DEF TypeOK, vars, taskVars, fsVars
<1> QED
  BY <1>1, InitTypes, NextTypes, PTL DEF Spec

-----------------------------------------------------------------------------
(* The takeover, stage by stage *)

\* An owner stays the owner, whatever the others try.
LEMMA OwnedStep ==
    ASSUME Takeover, TypeOK, StageInv, NEW o \in Task, Owner(o), OwnedBy(o), Next
    PROVE  Owner(o)' /\ OwnedBy(o)' /\ StageInv'
<1> USE NoneAssumption, ProcessAssumption DEF Takeover, TypeOK, StageInv, Owner, OwnedBy,
        Holders, Goto, taskVars, fsVars
<1>1. ASSUME NEW t \in Task, Begin(t) PROVE Owner(o)' /\ OwnedBy(o)' /\ StageInv'
  BY <1>1 DEF Begin
<1>2. ASSUME NEW t \in Task, Deadline(t) PROVE Owner(o)' /\ OwnedBy(o)' /\ StageInv'
  BY <1>2 DEF Deadline
<1>3. ASSUME NEW t \in Task, Release(t) PROVE Owner(o)' /\ OwnedBy(o)' /\ StageInv'
  BY <1>3 DEF Release
<1>4. ASSUME NEW t \in Task, ProbeGuard(t) PROVE Owner(o)' /\ OwnedBy(o)' /\ StageInv'
  BY <1>4 DEF ProbeGuard, GuardActive
<1>5. ASSUME NEW t \in Task, MakeLock(t) PROVE Owner(o)' /\ OwnedBy(o)' /\ StageInv'
  BY <1>5 DEF MakeLock, EmptyDir
<1>6. ASSUME NEW t \in Task, Retry(t) PROVE Owner(o)' /\ OwnedBy(o)' /\ StageInv'
  BY <1>6 DEF Retry
<1>7. ASSUME NEW t \in Task, StatLock(t) PROVE Owner(o)' /\ OwnedBy(o)' /\ StageInv'
  BY <1>7 DEF StatLock, NotStale
<1>8. ASSUME NEW t \in Task, JudgeLock(t) PROVE Owner(o)' /\ OwnedBy(o)' /\ StageInv'
  BY <1>8 DEF JudgeLock, NotStale, Stale, Dead
<1>9. ASSUME NEW t \in Task, TakeGuard(t) PROVE Owner(o)' /\ OwnedBy(o)' /\ StageInv'
  BY <1>9 DEF TakeGuard, MakeGuard
<1>10. ASSUME NEW t \in Task, CheckGuard(t) PROVE Owner(o)' /\ OwnedBy(o)' /\ StageInv'
  BY <1>10 DEF CheckGuard, GuardActive
<1>11. ASSUME NEW t \in Task, BreakGuard(t) PROVE Owner(o)' /\ OwnedBy(o)' /\ StageInv'
  BY <1>11 DEF BreakGuard
<1>12. ASSUME NEW t \in Task, RetakeGuard(t) PROVE Owner(o)' /\ OwnedBy(o)' /\ StageInv'
  BY <1>12 DEF RetakeGuard, MakeGuard
<1>13. ASSUME NEW t \in Task, WriteGuardInfo(t) PROVE Owner(o)' /\ OwnedBy(o)' /\ StageInv'
  BY <1>13 DEF WriteGuardInfo
<1>14. ASSUME NEW t \in Task, Unguard(t) PROVE Owner(o)' /\ OwnedBy(o)' /\ StageInv'
  BY <1>14 DEF Unguard
<1>15. ASSUME NEW t \in Task, LookAtKind(t) PROVE Owner(o)' /\ OwnedBy(o)' /\ StageInv'
  BY <1>15 DEF LookAtKind
<1>16. ASSUME NEW t \in Task, UnlinkFile(t) PROVE Owner(o)' /\ OwnedBy(o)' /\ StageInv'
  BY <1>16 DEF UnlinkFile, NoLock
<1>17. ASSUME NEW t \in Task, RemakeLock(t) PROVE Owner(o)' /\ OwnedBy(o)' /\ StageInv'
  BY <1>17 DEF RemakeLock, EmptyDir, NoLock
<1>18. ASSUME NEW t \in Task, WriteTmp(t) PROVE Owner(o)' /\ OwnedBy(o)' /\ StageInv'
  BY <1>18 DEF WriteTmp, Fail
<1>19. ASSUME NEW t \in Task, RenameTmp(t) PROVE Owner(o)' /\ OwnedBy(o)' /\ StageInv'
  <2>1. t \in lock.tmp
    BY <1>19 DEF RenameTmp, Fail
  <2>2. /\ pc[t] = "rename" /\ pc' = [pc EXCEPT ![t] = "verify"] /\ lockOld' = FALSE
        /\ UNCHANGED <<alive, old, reclaiming, late, guard, guardOld, outcome, activePath>>
    BY <1>19, <2>1 DEF RenameTmp
  <2>3. lock'.kind = lock.kind /\ lock'.meta = t /\ t = o
    BY <1>19, <2>1 DEF RenameTmp
  <2> QED
    BY <2>2, <2>3
<1>20. ASSUME NEW t \in Task, Verify(t) PROVE Owner(o)' /\ OwnedBy(o)' /\ StageInv'
  BY <1>20 DEF Verify, Fail
<1>21. ASSUME NEW t \in Task, CheckToken(t) PROVE Owner(o)' /\ OwnedBy(o)' /\ StageInv'
  BY <1>21 DEF CheckToken
<1>22. ASSUME NEW t \in Task, RemoveContents(t) PROVE Owner(o)' /\ OwnedBy(o)' /\ StageInv'
  BY <1>22 DEF RemoveContents, EmptyDir, NoLock
<1>23. ASSUME NEW t \in Task, RemoveDir(t) PROVE Owner(o)' /\ OwnedBy(o)' /\ StageInv'
  BY <1>23 DEF RemoveDir, EmptyDir, NoLock
<1>24. ASSUME NEW p \in Process, Die(p) PROVE Owner(o)' /\ OwnedBy(o)' /\ StageInv'
  BY <1>24 DEF Die
<1>25. CASE LockAges
  BY <1>25 DEF LockAges, Touching
<1>26. CASE GuardAges
  BY <1>26 DEF GuardAges
<1> QED
  BY <1>1, <1>2, <1>3, <1>4, <1>5, <1>6, <1>7, <1>8, <1>9, <1>10, <1>11, <1>12, <1>13, <1>14, <1>15, <1>16, <1>17, <1>18, <1>19, <1>20, <1>21, <1>22, <1>23, <1>24, <1>25, <1>26 DEF Next, Step

\* Where nothing was left the first to make the directory owns it.
LEMMA NothingStep ==
    ASSUME Takeover, TypeOK, StageInv, Unowned, GuardInv, NothingThere, Next
    PROVE  StageInv' /\ ((Unowned /\ GuardInv /\ NothingThere)' \/ \E o \in Task : (Owner(o) /\ OwnedBy(o))')
<1> USE NoneAssumption, ProcessAssumption DEF Takeover, TypeOK, StageInv, Unowned, Owner, OwnedBy,
        GuardInv, Guarding, NothingThere, LooksStale, Holders, Goto, taskVars, fsVars
<1>1. ASSUME NEW t \in Task, Begin(t) PROVE StageInv' /\ ((Unowned /\ GuardInv /\ NothingThere)' \/ \E o \in Task : (Owner(o) /\ OwnedBy(o))')
  BY <1>1 DEF Begin
<1>2. ASSUME NEW t \in Task, Deadline(t) PROVE StageInv' /\ ((Unowned /\ GuardInv /\ NothingThere)' \/ \E o \in Task : (Owner(o) /\ OwnedBy(o))')
  BY <1>2 DEF Deadline
<1>3. ASSUME NEW t \in Task, Release(t) PROVE StageInv' /\ ((Unowned /\ GuardInv /\ NothingThere)' \/ \E o \in Task : (Owner(o) /\ OwnedBy(o))')
  BY <1>3 DEF Release
<1>4. ASSUME NEW t \in Task, ProbeGuard(t) PROVE StageInv' /\ ((Unowned /\ GuardInv /\ NothingThere)' \/ \E o \in Task : (Owner(o) /\ OwnedBy(o))')
  BY <1>4 DEF ProbeGuard, GuardActive
<1>5. ASSUME NEW t \in Task, MakeLock(t) PROVE StageInv' /\ ((Unowned /\ GuardInv /\ NothingThere)' \/ \E o \in Task : (Owner(o) /\ OwnedBy(o))')
  BY <1>5 DEF MakeLock, EmptyDir
<1>6. ASSUME NEW t \in Task, Retry(t) PROVE StageInv' /\ ((Unowned /\ GuardInv /\ NothingThere)' \/ \E o \in Task : (Owner(o) /\ OwnedBy(o))')
  BY <1>6 DEF Retry
<1>7. ASSUME NEW t \in Task, StatLock(t) PROVE StageInv' /\ ((Unowned /\ GuardInv /\ NothingThere)' \/ \E o \in Task : (Owner(o) /\ OwnedBy(o))')
  <2>1. lock.kind = "absent" /\ ~reclaiming[t]
    BY DEF NoLock
  <2> QED
    BY <1>7, <2>1 DEF StatLock
<1>8. ASSUME NEW t \in Task, JudgeLock(t) PROVE StageInv' /\ ((Unowned /\ GuardInv /\ NothingThere)' \/ \E o \in Task : (Owner(o) /\ OwnedBy(o))')
  BY <1>8 DEF JudgeLock, NotStale, Stale, Dead
<1>9. ASSUME NEW t \in Task, TakeGuard(t) PROVE StageInv' /\ ((Unowned /\ GuardInv /\ NothingThere)' \/ \E o \in Task : (Owner(o) /\ OwnedBy(o))')
  BY <1>9 DEF TakeGuard, MakeGuard
<1>10. ASSUME NEW t \in Task, CheckGuard(t) PROVE StageInv' /\ ((Unowned /\ GuardInv /\ NothingThere)' \/ \E o \in Task : (Owner(o) /\ OwnedBy(o))')
  BY <1>10 DEF CheckGuard, GuardActive
<1>11. ASSUME NEW t \in Task, BreakGuard(t) PROVE StageInv' /\ ((Unowned /\ GuardInv /\ NothingThere)' \/ \E o \in Task : (Owner(o) /\ OwnedBy(o))')
  BY <1>11 DEF BreakGuard
<1>12. ASSUME NEW t \in Task, RetakeGuard(t) PROVE StageInv' /\ ((Unowned /\ GuardInv /\ NothingThere)' \/ \E o \in Task : (Owner(o) /\ OwnedBy(o))')
  BY <1>12 DEF RetakeGuard, MakeGuard
<1>13. ASSUME NEW t \in Task, WriteGuardInfo(t) PROVE StageInv' /\ ((Unowned /\ GuardInv /\ NothingThere)' \/ \E o \in Task : (Owner(o) /\ OwnedBy(o))')
  BY <1>13 DEF WriteGuardInfo
<1>14. ASSUME NEW t \in Task, Unguard(t) PROVE StageInv' /\ ((Unowned /\ GuardInv /\ NothingThere)' \/ \E o \in Task : (Owner(o) /\ OwnedBy(o))')
  BY <1>14 DEF Unguard
<1>15. ASSUME NEW t \in Task, LookAtKind(t) PROVE StageInv' /\ ((Unowned /\ GuardInv /\ NothingThere)' \/ \E o \in Task : (Owner(o) /\ OwnedBy(o))')
  BY <1>15 DEF LookAtKind
<1>16. ASSUME NEW t \in Task, UnlinkFile(t) PROVE StageInv' /\ ((Unowned /\ GuardInv /\ NothingThere)' \/ \E o \in Task : (Owner(o) /\ OwnedBy(o))')
  BY <1>16 DEF UnlinkFile, NoLock
<1>17. ASSUME NEW t \in Task, RemakeLock(t) PROVE StageInv' /\ ((Unowned /\ GuardInv /\ NothingThere)' \/ \E o \in Task : (Owner(o) /\ OwnedBy(o))')
  BY <1>17 DEF RemakeLock, EmptyDir, NoLock
<1>18. ASSUME NEW t \in Task, WriteTmp(t) PROVE StageInv' /\ ((Unowned /\ GuardInv /\ NothingThere)' \/ \E o \in Task : (Owner(o) /\ OwnedBy(o))')
  BY <1>18 DEF WriteTmp, Fail
<1>19. ASSUME NEW t \in Task, RenameTmp(t) PROVE StageInv' /\ ((Unowned /\ GuardInv /\ NothingThere)' \/ \E o \in Task : (Owner(o) /\ OwnedBy(o))')
  BY <1>19 DEF RenameTmp, Fail
<1>20. ASSUME NEW t \in Task, Verify(t) PROVE StageInv' /\ ((Unowned /\ GuardInv /\ NothingThere)' \/ \E o \in Task : (Owner(o) /\ OwnedBy(o))')
  BY <1>20 DEF Verify, Fail
<1>21. ASSUME NEW t \in Task, CheckToken(t) PROVE StageInv' /\ ((Unowned /\ GuardInv /\ NothingThere)' \/ \E o \in Task : (Owner(o) /\ OwnedBy(o))')
  BY <1>21 DEF CheckToken
<1>22. ASSUME NEW t \in Task, RemoveContents(t) PROVE StageInv' /\ ((Unowned /\ GuardInv /\ NothingThere)' \/ \E o \in Task : (Owner(o) /\ OwnedBy(o))')
  BY <1>22 DEF RemoveContents, EmptyDir, NoLock
<1>23. ASSUME NEW t \in Task, RemoveDir(t) PROVE StageInv' /\ ((Unowned /\ GuardInv /\ NothingThere)' \/ \E o \in Task : (Owner(o) /\ OwnedBy(o))')
  BY <1>23 DEF RemoveDir, EmptyDir, NoLock
<1>24. ASSUME NEW p \in Process, Die(p) PROVE StageInv' /\ ((Unowned /\ GuardInv /\ NothingThere)' \/ \E o \in Task : (Owner(o) /\ OwnedBy(o))')
  BY <1>24 DEF Die
<1>25. CASE LockAges
  BY <1>25 DEF LockAges, Touching
<1>26. CASE GuardAges
  BY <1>26 DEF GuardAges
<1> QED
  BY <1>1, <1>2, <1>3, <1>4, <1>5, <1>6, <1>7, <1>8, <1>9, <1>10, <1>11, <1>12, <1>13, <1>14, <1>15, <1>16, <1>17, <1>18, <1>19, <1>20, <1>21, <1>22, <1>23, <1>24, <1>25, <1>26 DEF Next, Step

\* What was left is claimed under the guard only.
LEMMA FoundStep ==
    ASSUME Takeover, TypeOK, StageInv, Unowned, GuardInv, AsFound, Next
    PROVE  StageInv' /\ Unowned' /\ GuardInv' /\ (AsFound' \/ \E r \in Task : Claims(r)')
<1> USE NoneAssumption, ProcessAssumption DEF Takeover, TypeOK, StageInv, Unowned, Owner, OwnedBy,
        GuardInv, Guarding, AsFound, Claims, LooksStale, Holders, Goto, taskVars, fsVars
<1>1. ASSUME NEW t \in Task, Begin(t) PROVE StageInv' /\ Unowned' /\ GuardInv' /\ (AsFound' \/ \E r \in Task : Claims(r)')
  BY <1>1 DEF Begin
<1>2. ASSUME NEW t \in Task, Deadline(t) PROVE StageInv' /\ Unowned' /\ GuardInv' /\ (AsFound' \/ \E r \in Task : Claims(r)')
  BY <1>2 DEF Deadline
<1>3. ASSUME NEW t \in Task, Release(t) PROVE StageInv' /\ Unowned' /\ GuardInv' /\ (AsFound' \/ \E r \in Task : Claims(r)')
  BY <1>3 DEF Release
<1>4. ASSUME NEW t \in Task, ProbeGuard(t) PROVE StageInv' /\ Unowned' /\ GuardInv' /\ (AsFound' \/ \E r \in Task : Claims(r)')
  BY <1>4 DEF ProbeGuard, GuardActive
<1>5. ASSUME NEW t \in Task, MakeLock(t) PROVE StageInv' /\ Unowned' /\ GuardInv' /\ (AsFound' \/ \E r \in Task : Claims(r)')
  BY <1>5 DEF MakeLock, EmptyDir
<1>6. ASSUME NEW t \in Task, Retry(t) PROVE StageInv' /\ Unowned' /\ GuardInv' /\ (AsFound' \/ \E r \in Task : Claims(r)')
  BY <1>6 DEF Retry
<1>7. ASSUME NEW t \in Task, StatLock(t) PROVE StageInv' /\ Unowned' /\ GuardInv' /\ (AsFound' \/ \E r \in Task : Claims(r)')
  BY <1>7 DEF StatLock, NotStale
<1>8. ASSUME NEW t \in Task, JudgeLock(t) PROVE StageInv' /\ Unowned' /\ GuardInv' /\ (AsFound' \/ \E r \in Task : Claims(r)')
  BY <1>8 DEF JudgeLock, NotStale, Stale, Dead
<1>9. ASSUME NEW t \in Task, TakeGuard(t) PROVE StageInv' /\ Unowned' /\ GuardInv' /\ (AsFound' \/ \E r \in Task : Claims(r)')
  BY <1>9 DEF TakeGuard, MakeGuard
<1>10. ASSUME NEW t \in Task, CheckGuard(t) PROVE StageInv' /\ Unowned' /\ GuardInv' /\ (AsFound' \/ \E r \in Task : Claims(r)')
  BY <1>10 DEF CheckGuard, GuardActive
<1>11. ASSUME NEW t \in Task, BreakGuard(t) PROVE StageInv' /\ Unowned' /\ GuardInv' /\ (AsFound' \/ \E r \in Task : Claims(r)')
  BY <1>11 DEF BreakGuard
<1>12. ASSUME NEW t \in Task, RetakeGuard(t) PROVE StageInv' /\ Unowned' /\ GuardInv' /\ (AsFound' \/ \E r \in Task : Claims(r)')
  BY <1>12 DEF RetakeGuard, MakeGuard
<1>13. ASSUME NEW t \in Task, WriteGuardInfo(t) PROVE StageInv' /\ Unowned' /\ GuardInv' /\ (AsFound' \/ \E r \in Task : Claims(r)')
  BY <1>13 DEF WriteGuardInfo
<1>14. ASSUME NEW t \in Task, Unguard(t) PROVE StageInv' /\ Unowned' /\ GuardInv' /\ (AsFound' \/ \E r \in Task : Claims(r)')
  BY <1>14 DEF Unguard
<1>15. ASSUME NEW t \in Task, LookAtKind(t) PROVE StageInv' /\ Unowned' /\ GuardInv' /\ (AsFound' \/ \E r \in Task : Claims(r)')
  BY <1>15 DEF LookAtKind
<1>16. ASSUME NEW t \in Task, UnlinkFile(t) PROVE StageInv' /\ Unowned' /\ GuardInv' /\ (AsFound' \/ \E r \in Task : Claims(r)')
  BY <1>16 DEF UnlinkFile, NoLock
<1>17. ASSUME NEW t \in Task, RemakeLock(t) PROVE StageInv' /\ Unowned' /\ GuardInv' /\ (AsFound' \/ \E r \in Task : Claims(r)')
  BY <1>17 DEF RemakeLock, EmptyDir, NoLock
<1>18. ASSUME NEW t \in Task, WriteTmp(t) PROVE StageInv' /\ Unowned' /\ GuardInv' /\ (AsFound' \/ \E r \in Task : Claims(r)')
  BY <1>18 DEF WriteTmp, Fail
<1>19. ASSUME NEW t \in Task, RenameTmp(t) PROVE StageInv' /\ Unowned' /\ GuardInv' /\ (AsFound' \/ \E r \in Task : Claims(r)')
  BY <1>19 DEF RenameTmp, Fail
<1>20. ASSUME NEW t \in Task, Verify(t) PROVE StageInv' /\ Unowned' /\ GuardInv' /\ (AsFound' \/ \E r \in Task : Claims(r)')
  BY <1>20 DEF Verify, Fail
<1>21. ASSUME NEW t \in Task, CheckToken(t) PROVE StageInv' /\ Unowned' /\ GuardInv' /\ (AsFound' \/ \E r \in Task : Claims(r)')
  BY <1>21 DEF CheckToken
<1>22. ASSUME NEW t \in Task, RemoveContents(t) PROVE StageInv' /\ Unowned' /\ GuardInv' /\ (AsFound' \/ \E r \in Task : Claims(r)')
  BY <1>22 DEF RemoveContents, EmptyDir, NoLock
<1>23. ASSUME NEW t \in Task, RemoveDir(t) PROVE StageInv' /\ Unowned' /\ GuardInv' /\ (AsFound' \/ \E r \in Task : Claims(r)')
  BY <1>23 DEF RemoveDir, EmptyDir, NoLock
<1>24. ASSUME NEW p \in Process, Die(p) PROVE StageInv' /\ Unowned' /\ GuardInv' /\ (AsFound' \/ \E r \in Task : Claims(r)')
  BY <1>24 DEF Die
<1>25. CASE LockAges
  BY <1>25 DEF LockAges, Touching
<1>26. CASE GuardAges
  BY <1>26 DEF GuardAges
<1> QED
  BY <1>1, <1>2, <1>3, <1>4, <1>5, <1>6, <1>7, <1>8, <1>9, <1>10, <1>11, <1>12, <1>13, <1>14, <1>15, <1>16, <1>17, <1>18, <1>19, <1>20, <1>21, <1>22, <1>23, <1>24, <1>25, <1>26 DEF Next, Step

\* The claim succeeds, unless another makes the directory between the removal of
\* an old lock file and the attempt to replace it.
LEMMA ClaimStep ==
    ASSUME Takeover, TypeOK, StageInv, Unowned, GuardInv,
           NEW r \in Task, Claims(r), Next
    PROVE  StageInv' /\ ((Unowned /\ GuardInv /\ Claims(r))' \/ \E o \in Task : (Owner(o) /\ OwnedBy(o))')
<1> USE NoneAssumption, ProcessAssumption DEF Takeover, TypeOK, StageInv, Unowned, Owner, OwnedBy,
        GuardInv, Guarding, Claims, LooksStale, Holders, Goto, taskVars, fsVars
<1>1. ASSUME NEW t \in Task, Begin(t) PROVE StageInv' /\ ((Unowned /\ GuardInv /\ Claims(r))' \/ \E o \in Task : (Owner(o) /\ OwnedBy(o))')
  BY <1>1 DEF Begin
<1>2. ASSUME NEW t \in Task, Deadline(t) PROVE StageInv' /\ ((Unowned /\ GuardInv /\ Claims(r))' \/ \E o \in Task : (Owner(o) /\ OwnedBy(o))')
  BY <1>2 DEF Deadline
<1>3. ASSUME NEW t \in Task, Release(t) PROVE StageInv' /\ ((Unowned /\ GuardInv /\ Claims(r))' \/ \E o \in Task : (Owner(o) /\ OwnedBy(o))')
  BY <1>3 DEF Release
<1>4. ASSUME NEW t \in Task, ProbeGuard(t) PROVE StageInv' /\ ((Unowned /\ GuardInv /\ Claims(r))' \/ \E o \in Task : (Owner(o) /\ OwnedBy(o))')
  BY <1>4 DEF ProbeGuard, GuardActive
<1>5. ASSUME NEW t \in Task, MakeLock(t) PROVE StageInv' /\ ((Unowned /\ GuardInv /\ Claims(r))' \/ \E o \in Task : (Owner(o) /\ OwnedBy(o))')
  BY <1>5 DEF MakeLock, EmptyDir
<1>6. ASSUME NEW t \in Task, Retry(t) PROVE StageInv' /\ ((Unowned /\ GuardInv /\ Claims(r))' \/ \E o \in Task : (Owner(o) /\ OwnedBy(o))')
  BY <1>6 DEF Retry
<1>7. ASSUME NEW t \in Task, StatLock(t) PROVE StageInv' /\ ((Unowned /\ GuardInv /\ Claims(r))' \/ \E o \in Task : (Owner(o) /\ OwnedBy(o))')
  BY <1>7 DEF StatLock, NotStale
<1>8. ASSUME NEW t \in Task, JudgeLock(t) PROVE StageInv' /\ ((Unowned /\ GuardInv /\ Claims(r))' \/ \E o \in Task : (Owner(o) /\ OwnedBy(o))')
  BY <1>8 DEF JudgeLock, NotStale, Stale, Dead
<1>9. ASSUME NEW t \in Task, TakeGuard(t) PROVE StageInv' /\ ((Unowned /\ GuardInv /\ Claims(r))' \/ \E o \in Task : (Owner(o) /\ OwnedBy(o))')
  BY <1>9 DEF TakeGuard, MakeGuard
<1>10. ASSUME NEW t \in Task, CheckGuard(t) PROVE StageInv' /\ ((Unowned /\ GuardInv /\ Claims(r))' \/ \E o \in Task : (Owner(o) /\ OwnedBy(o))')
  BY <1>10 DEF CheckGuard, GuardActive
<1>11. ASSUME NEW t \in Task, BreakGuard(t) PROVE StageInv' /\ ((Unowned /\ GuardInv /\ Claims(r))' \/ \E o \in Task : (Owner(o) /\ OwnedBy(o))')
  BY <1>11 DEF BreakGuard
<1>12. ASSUME NEW t \in Task, RetakeGuard(t) PROVE StageInv' /\ ((Unowned /\ GuardInv /\ Claims(r))' \/ \E o \in Task : (Owner(o) /\ OwnedBy(o))')
  BY <1>12 DEF RetakeGuard, MakeGuard
<1>13. ASSUME NEW t \in Task, WriteGuardInfo(t) PROVE StageInv' /\ ((Unowned /\ GuardInv /\ Claims(r))' \/ \E o \in Task : (Owner(o) /\ OwnedBy(o))')
  BY <1>13 DEF WriteGuardInfo
<1>14. ASSUME NEW t \in Task, Unguard(t) PROVE StageInv' /\ ((Unowned /\ GuardInv /\ Claims(r))' \/ \E o \in Task : (Owner(o) /\ OwnedBy(o))')
  BY <1>14 DEF Unguard
<1>15. ASSUME NEW t \in Task, LookAtKind(t) PROVE StageInv' /\ ((Unowned /\ GuardInv /\ Claims(r))' \/ \E o \in Task : (Owner(o) /\ OwnedBy(o))')
  BY <1>15 DEF LookAtKind
<1>16. ASSUME NEW t \in Task, UnlinkFile(t) PROVE StageInv' /\ ((Unowned /\ GuardInv /\ Claims(r))' \/ \E o \in Task : (Owner(o) /\ OwnedBy(o))')
  BY <1>16 DEF UnlinkFile, NoLock
<1>17. ASSUME NEW t \in Task, RemakeLock(t) PROVE StageInv' /\ ((Unowned /\ GuardInv /\ Claims(r))' \/ \E o \in Task : (Owner(o) /\ OwnedBy(o))')
  BY <1>17 DEF RemakeLock, EmptyDir, NoLock
<1>18. ASSUME NEW t \in Task, WriteTmp(t) PROVE StageInv' /\ ((Unowned /\ GuardInv /\ Claims(r))' \/ \E o \in Task : (Owner(o) /\ OwnedBy(o))')
  BY <1>18 DEF WriteTmp, Fail
<1>19. ASSUME NEW t \in Task, RenameTmp(t) PROVE StageInv' /\ ((Unowned /\ GuardInv /\ Claims(r))' \/ \E o \in Task : (Owner(o) /\ OwnedBy(o))')
  <2>1. t = r /\ t \in lock.tmp
    BY <1>19 DEF RenameTmp, Fail
  <2>2. /\ pc[t] = "rename" /\ pc' = [pc EXCEPT ![t] = "verify"]
        /\ UNCHANGED <<alive, old, reclaiming, late, guard, guardOld, outcome, activePath>>
    BY <1>19, <2>1 DEF RenameTmp
  <2>3. lock'.kind = lock.kind /\ lock'.meta = t /\ lock'.tmp = lock.tmp \ {t}
    <3>1. lock' = [lock EXCEPT !.meta = t, !.tmp = @ \ {t}]
      BY <1>19, <2>1 DEF RenameTmp
    <3>2. lock'.kind = lock.kind /\ lock'.meta = t
      BY <3>1
    <3>3. lock = [kind |-> lock.kind, meta |-> lock.meta, tmp |-> lock.tmp]
      BY DEF TypeOK
    <3>4. lock' = [kind |-> lock.kind, meta |-> t, tmp |-> lock.tmp \ {t}]
      BY <3>1, <3>3, Zenon
    <3>5. lock'.tmp = lock.tmp \ {t}
      BY <3>4
    <3> QED
      BY <3>2, <3>5
  <2>4. lock.tmp = {r} /\ lock.kind = "dir"
    BY <2>1, <2>2
  <2>5. lock'.tmp = {}
    <3>1. \A u : u \notin lock'.tmp
      BY <2>1, <2>3, <2>4
    <3> QED
      BY <3>1
  <2> QED
    BY <2>1, <2>2, <2>3, <2>4, <2>5
<1>20. ASSUME NEW t \in Task, Verify(t) PROVE StageInv' /\ ((Unowned /\ GuardInv /\ Claims(r))' \/ \E o \in Task : (Owner(o) /\ OwnedBy(o))')
  BY <1>20 DEF Verify, Fail
<1>21. ASSUME NEW t \in Task, CheckToken(t) PROVE StageInv' /\ ((Unowned /\ GuardInv /\ Claims(r))' \/ \E o \in Task : (Owner(o) /\ OwnedBy(o))')
  BY <1>21 DEF CheckToken
<1>22. ASSUME NEW t \in Task, RemoveContents(t) PROVE StageInv' /\ ((Unowned /\ GuardInv /\ Claims(r))' \/ \E o \in Task : (Owner(o) /\ OwnedBy(o))')
  BY <1>22 DEF RemoveContents, EmptyDir, NoLock
<1>23. ASSUME NEW t \in Task, RemoveDir(t) PROVE StageInv' /\ ((Unowned /\ GuardInv /\ Claims(r))' \/ \E o \in Task : (Owner(o) /\ OwnedBy(o))')
  BY <1>23 DEF RemoveDir, EmptyDir, NoLock
<1>24. ASSUME NEW p \in Process, Die(p) PROVE StageInv' /\ ((Unowned /\ GuardInv /\ Claims(r))' \/ \E o \in Task : (Owner(o) /\ OwnedBy(o))')
  BY <1>24 DEF Die
<1>25. CASE LockAges
  BY <1>25 DEF LockAges, Touching
<1>26. CASE GuardAges
  BY <1>26 DEF GuardAges
<1> QED
  BY <1>1, <1>2, <1>3, <1>4, <1>5, <1>6, <1>7, <1>8, <1>9, <1>10, <1>11, <1>12, <1>13, <1>14, <1>15, <1>16, <1>17, <1>18, <1>19, <1>20, <1>21, <1>22, <1>23, <1>24, <1>25, <1>26 DEF Next, Step

LEMMA TakeoverInit ==
    ASSUME Takeover, Init
    PROVE  TakeoverInv
<1>1. TypeOK
  BY InitTypes
<1>2. /\ alive = [p \in Process |-> TRUE] /\ pc = [t \in Task |-> "idle"]
      /\ old = [t \in Task |-> FALSE] /\ reclaiming = [t \in Task |-> FALSE]
      /\ outcome = [t \in Task |-> "none"]
  BY DEF Init
<1>3. StageInv
  BY <1>2 DEF StageInv
<1>4. \A t \in Task : ~Owner(t) /\ ~Guarding(t)
  BY <1>2 DEF Owner, Guarding
<1>5. ~guard /\ ~guardOld
  <2>1. guard \in {FALSE, "guard" \in Leftover} /\ guardOld \in {FALSE, guard}
    BY DEF Init
  <2>2. ("guard" \in Leftover) = FALSE
    BY DEF Takeover
  <2> QED
    BY <2>1, <2>2
<1>6. GuardInv
  BY <1>2, <1>4, <1>5 DEF GuardInv
<1>7. \/ lock = NoLock
      \/ \E m \in {None, Ghost} : lock = [EmptyDir EXCEPT !.meta = m]
      \/ lock = [kind |-> "file", meta |-> Ghost, tmp |-> {}]
  BY Zenon DEF Init
<1>8. CASE lock = NoLock
  BY <1>2, <1>3, <1>4, <1>5, <1>6, <1>8, <1>1
     DEF TakeoverInv, UnownedInv, OwnedInv, Unowned, NothingThere
<1>9. CASE /\ lock.kind \in {"dir", "file"} /\ lock.meta \in {None, Ghost} /\ lock.tmp = {}
           /\ lock.kind = "file" => lock.meta = Ghost
  <2>1. AsFound
    BY <1>2, <1>4, <1>9 DEF AsFound
  <2> QED
    BY <2>1, <1>1, <1>3, <1>4, <1>6 DEF TakeoverInv, UnownedInv, OwnedInv, Unowned
<1>10. ASSUME NEW m \in {None, Ghost}, lock = [EmptyDir EXCEPT !.meta = m]
       PROVE  lock.kind = "dir" /\ lock.meta = m /\ lock.tmp = {}
  BY <1>10 DEF EmptyDir
<1> QED
  BY <1>7, <1>8, <1>9, <1>10

LEMMA TakeoverNext ==
    ASSUME Takeover, TakeoverInv, Next
    PROVE  TakeoverInv'
<1>1. TypeOK' /\ TypeOK /\ StageInv
  BY NextTypes DEF TakeoverInv
<1>2. ASSUME NEW o \in Task, (Owner(o) /\ OwnedBy(o))'
      PROVE  UnownedInv' /\ OwnedInv'
  <2>1. \A t \in Task : Owner(t)' => t = o
    BY <1>2 DEF OwnedBy
  <2>2. OwnedInv'
    BY <1>2, <2>1 DEF OwnedInv
  <2> QED
    BY <1>2, <2>2 DEF UnownedInv, Unowned
<1>3. CASE \E o \in Task : Owner(o)
  <2>1. PICK o \in Task : Owner(o) /\ OwnedBy(o)
    BY <1>3 DEF TakeoverInv, OwnedInv
  <2>2. Owner(o)' /\ OwnedBy(o)' /\ StageInv'
    BY <2>1, <1>1, OwnedStep
  <2> QED
    BY <2>2, <1>1, <1>2 DEF TakeoverInv
<1>4. CASE Unowned
  <2>1. GuardInv /\ (NothingThere \/ AsFound \/ \E r \in Task : Claims(r))
    BY <1>4 DEF TakeoverInv, UnownedInv, Unowned
  <2>2. StageInv' /\ ( \/ Unowned' /\ GuardInv' /\ (NothingThere' \/ AsFound' \/ \E r \in Task : Claims(r)')
                       \/ \E o \in Task : (Owner(o) /\ OwnedBy(o))' )
    BY <2>1, <1>1, <1>4, NothingStep, FoundStep, ClaimStep
  <2>3. CASE \E o \in Task : (Owner(o) /\ OwnedBy(o))'
    BY <2>2, <2>3, <1>1, <1>2 DEF TakeoverInv
  <2>4. CASE Unowned' /\ GuardInv' /\ (NothingThere' \/ AsFound' \/ \E r \in Task : Claims(r)')
    BY <2>2, <2>4, <1>1 DEF TakeoverInv, UnownedInv, OwnedInv, Unowned
  <2> QED
    BY <2>2, <2>3, <2>4
<1> QED
  BY <1>3, <1>4 DEF Unowned

LEMMA AlwaysTakeover ==
    ASSUME Takeover
    PROVE  Spec => []TakeoverInv
<1>1. TakeoverInv /\ UNCHANGED vars => TakeoverInv'
  BY DEF TakeoverInv, TypeOK, StageInv, UnownedInv, Unowned, OwnedInv, OwnedBy, Owner,
         GuardInv, Guarding, NothingThere, AsFound, LooksStale, Claims, vars, taskVars, fsVars
<1>2. TakeoverInv /\ [Next]_vars => TakeoverInv'
  BY <1>1, TakeoverNext
<1> QED
  BY <1>2, TakeoverInit, PTL DEF Spec

\* Any number of hosts meet a lock that a dead one left, in any shape, or none:
\* at most one of them gets it, however their checks, guards and claims
\* interleave, as long as none of them dies or gives the lock back and no
\* guard was left (file-lock.ts:343-441).
THEOREM TakeoverIsExclusive ==
    ASSUME Takeover
    PROVE  Spec => []MutualExclusion
<1>1. TakeoverInv => MutualExclusion
  BY DEF TakeoverInv, OwnedInv, OwnedBy, Owner, MutualExclusion
<1> QED
  BY <1>1, AlwaysTakeover, PTL

\* And the lock is recorded as the one of the host that got it.
THEOREM TakeoverNamesItsHolder ==
    ASSUME Takeover
    PROVE  Spec => []HolderIsRecorded
<1>1. TakeoverInv => HolderIsRecorded
  BY DEF TakeoverInv, OwnedInv, OwnedBy, Owner, HolderIsRecorded
<1> QED
  BY <1>1, AlwaysTakeover, PTL
=============================================================================
