----------------------- MODULE ProjectTransactionProofs -----------------------
(***************************************************************************)
(* Changes of a project happen as a whole or not at all, for any number of *)
(* commands and of deaths, as long as every entry of the journal can be    *)
(* read.  The lock makes one command at a time work on the tracked files,  *)
(* and a single pending entry holds what the last commit left.             *)
(***************************************************************************)
EXTENDS ProjectTransaction, FiniteSetTheorems, TLAPS

Content == [File -> SUBSET Dep]
Entry == [status : {"none", "pending", "closed"}, snapshot : Content]

\* The stages in which a command holds the lock.
Working == {"scan", "restore", "reinstall", "discard", "open", "install", "save",
            "save_lockfile", "uninstall", "commit", "roll_back", "ensure_locked"}

\* The stages in which it changes the project under an entry of its own.
Changing == {"install", "save", "save_lockfile", "uninstall", "commit"}

\* The stages in which it brings back a snapshot.
Restoring == {"restore", "roll_back"}
Restored == {"reinstall", "discard"}

\* What TypeOK says of single variables, and the types of the others.
PlaceTypes ==
    /\ pc \in [Proc -> {"idle", "check", "recover", "read", "begin", "ensure"}
                          \union Working \union Over]
    /\ source \in [Proc -> Proc]
    /\ left \in [Proc -> 1..4]
    /\ \A p \in Proc : pc[p] \in Restoring => left[p] \in 1..3
    /\ lock \in Proc \union {Nobody}

CmdTypes ==
    /\ cmd \in [Proc -> [kind : {"none", "add", "remove", "run"}, dep : Dep \union {Nobody},
                         install : BOOLEAN]]
    /\ \A p \in Proc : pc[p] # "idle" => cmd[p].dep \in Dep
    /\ read \in [Proc -> SUBSET Dep]

DataTypes ==
    /\ files \in Content /\ good \in Content
    /\ modules \subseteq Dep /\ kept \subseteq Dep
    /\ journal \in [Proc -> Entry]
    /\ torn \in BOOLEAN

Types == PlaceTypes /\ CmdTypes /\ DataTypes

\* The lock of the project: who works has it, and who has it works or is dead.
LockInv ==
    \A p \in Proc :
        /\ pc[p] \in Working => lock = p
        /\ lock = p => pc[p] \in Working \union {"crashed"}

\* The journal has one pending entry at most, with the files of the last commit;
\* the files are those of the last commit when it has none.
JournalInv ==
    /\ \A p, q \in Pending : p = q
    /\ \A p \in Pending : journal[p].snapshot = good
    /\ Pending = {} => files = good

\* The entry a command works under is pending, and the files it has already
\* brought back are those of the snapshot.
ProgressInv ==
    \A p \in Proc :
        /\ pc[p] \in Changing => p \in Pending
        /\ pc[p] \in Restoring \union Restored => source[p] \in Pending
        /\ pc[p] \in Restoring =>
              \A i \in 1..3 : i < left[p] => files[Tracked[i]] = good[Tracked[i]]
        /\ pc[p] \in Restored => files = good

IInv == Types /\ LockInv /\ (~torn => JournalInv /\ ProgressInv)

-----------------------------------------------------------------------------
(* The helpers *)

\* The tracked files are three, one after the other.
LEMMA TrackedFiles ==
  /\ Len(Tracked) = 3 /\ \A i \in 1..3 : Tracked[i] \in File
  /\ \A f \in File : \E i \in 1..3 : Tracked[i] = f
  BY DEF Tracked, File

\* What a file names, and the files after one of them has changed.
LEMMA FilesOf ==
  \A c \in Content, f \in File : c[f] \in SUBSET Dep
  BY DEF Content

LEMMA FilesWith ==
  \A c \in Content, f \in File, d \in SUBSET Dep : [c EXCEPT ![f] = d] \in Content
  BY DEF Content

\* A set with at most one element has no more than one.
LEMMA AtMostOne ==
  ASSUME NEW S, \A x, y \in S : x = y
  PROVE  Cardinality(S) <= 1
<1>1. CASE S = {}
  BY <1>1, FS_EmptySet
<1>2. CASE S # {}
  <2>1. PICK x \in S : TRUE
    BY <1>2
  <2>2. S = {x}
    BY <2>1
  <2> QED BY <2>2, FS_Singleton
<1> QED BY <1>1, <1>2

-----------------------------------------------------------------------------
(* The invariant *)

LEMMA InitIInv ==
  ASSUME Init
  PROVE  IInv
<1> USE ProjectTransactionAssumption DEF Init
<1>1. PlaceTypes
  BY DEF PlaceTypes, Restoring
<1>2. CmdTypes
  BY DEF CmdTypes
<1>3. DataTypes
  <2>1. PICK d \in SUBSET Dep : files = [f \in File |-> d] /\ modules \in {{}, d} /\ kept = d
    OBVIOUS
  <2>2. files \in Content /\ modules \subseteq Dep /\ kept \subseteq Dep
    BY <2>1 DEF Content
  <2> QED BY <2>2 DEF DataTypes, Entry
<1>4. LockInv
  BY DEF LockInv, Working
<1>5. JournalInv /\ ProgressInv
  BY DEF JournalInv, ProgressInv, Pending, Changing, Restoring, Restored
<1> QED BY <1>1, <1>2, <1>3, <1>4, <1>5 DEF IInv, Types

\* Every step keeps the types: of the places and the lock,
LEMMA StepPlaces ==
  ASSUME NEW p \in Proc, PlaceTypes, Start(p) \/ Step(p) \/ Crash(p) \/ CrashTearing(p)
  PROVE  PlaceTypes'
<1> USE TrackedFiles, ProjectTransactionAssumption
<1> USE DEF PlaceTypes, Working, Restoring, Over, Pending
<1>1. CASE Start(p)
  BY <1>1 DEF Start, Goto, diskVars
<1>2. CASE Check(p)
  BY <1>2 DEF Check, Goto, diskVars
<1>3. CASE LockToRecover(p)
  BY <1>3 DEF LockToRecover, Goto, HeldByOther
<1>4. CASE Scan(p)
  BY <1>4 DEF Scan, Goto, Leave, Release
<1>5. CASE Restore(p)
  BY <1>5 DEF Restore, Goto
<1>6. CASE Reinstall(p)
  BY <1>6 DEF Reinstall, Goto, Leave, Release
<1>7. CASE Discard(p)
  BY <1>7 DEF Discard, Goto, Leave, Release, CloseEntry
<1>8. CASE Read(p)
  BY <1>8 DEF Read, Goto, diskVars
<1>9. CASE Begin(p)
  BY <1>9 DEF Begin, Goto, HeldByOther
<1>10. CASE Open(p)
  BY <1>10 DEF Open, Goto, Leave, Release, TakeSnapshot, Noticed, HeldByOther
<1>11. CASE Install(p)
  BY <1>11 DEF Install, Goto, RollBack
<1>12. CASE Save(p)
  BY <1>12 DEF Save, Goto
<1>13. CASE SaveLockfile(p)
  BY <1>13 DEF SaveLockfile, Goto
<1>14. CASE Uninstall(p)
  BY <1>14 DEF Uninstall, Goto
<1>15. CASE Throw(p)
  BY <1>15 DEF Throw, Goto, RollBack, diskVars
<1>16. CASE Cancel(p)
  BY <1>16 DEF Cancel, Goto, Leave, Release
<1>17. CASE Commit(p)
  BY <1>17 DEF Commit, Goto, Leave, Release, CloseEntry
<1>18. CASE Ensure(p)
  BY <1>18 DEF Ensure, Goto, HeldByOther, Noticed
<1>19. CASE EnsureLocked(p)
  BY <1>19 DEF EnsureLocked, Goto, Leave, Release, Noticed
<1>20. CASE Crash(p)
  BY <1>20 DEF Crash, Goto, diskVars
<1>21. CASE CrashTearing(p)
  BY <1>21 DEF CrashTearing, Goto, CloseEntry, diskVars
<1> QED BY <1>1, <1>2, <1>3, <1>4, <1>5, <1>6, <1>7, <1>8, <1>9, <1>10, <1>11, <1>12, <1>13, <1>14, <1>15, <1>16, <1>17, <1>18, <1>19, <1>20, <1>21 DEF Step, OwnStep

\* of the commands,
LEMMA StepCommands ==
  ASSUME NEW p \in Proc, Types, Start(p) \/ Step(p) \/ Crash(p) \/ CrashTearing(p)
  PROVE  CmdTypes'
<1> USE FilesOf, ProjectTransactionAssumption
<1> USE DEF Types, PlaceTypes, CmdTypes, DataTypes, Working, Over, File
<1>1. CASE Start(p)
  BY <1>1 DEF Start, Goto, diskVars
<1>2. CASE Check(p)
  BY <1>2 DEF Check, Goto, diskVars
<1>3. CASE LockToRecover(p)
  BY <1>3 DEF LockToRecover, Goto, HeldByOther
<1>4. CASE Scan(p)
  BY <1>4 DEF Scan, Goto, Leave, Release
<1>5. CASE Restore(p)
  BY <1>5 DEF Restore, Goto
<1>6. CASE Reinstall(p)
  BY <1>6 DEF Reinstall, Goto, Leave, Release
<1>7. CASE Discard(p)
  BY <1>7 DEF Discard, Goto, Leave, Release, CloseEntry
<1>8. CASE Read(p)
  BY <1>8 DEF Read, Goto, diskVars
<1>9. CASE Begin(p)
  BY <1>9 DEF Begin, Goto, HeldByOther
<1>10. CASE Open(p)
  BY <1>10 DEF Open, Goto, Leave, Release, TakeSnapshot, Noticed, HeldByOther
<1>11. CASE Install(p)
  BY <1>11 DEF Install, Goto, RollBack
<1>12. CASE Save(p)
  BY <1>12 DEF Save, Goto
<1>13. CASE SaveLockfile(p)
  BY <1>13 DEF SaveLockfile, Goto
<1>14. CASE Uninstall(p)
  BY <1>14 DEF Uninstall, Goto
<1>15. CASE Throw(p)
  BY <1>15 DEF Throw, Goto, RollBack, diskVars
<1>16. CASE Cancel(p)
  BY <1>16 DEF Cancel, Goto, Leave, Release
<1>17. CASE Commit(p)
  BY <1>17 DEF Commit, Goto, Leave, Release, CloseEntry
<1>18. CASE Ensure(p)
  BY <1>18 DEF Ensure, Goto, HeldByOther, Noticed
<1>19. CASE EnsureLocked(p)
  BY <1>19 DEF EnsureLocked, Goto, Leave, Release, Noticed
<1>20. CASE Crash(p)
  BY <1>20 DEF Crash, Goto, diskVars
<1>21. CASE CrashTearing(p)
  BY <1>21 DEF CrashTearing, Goto, CloseEntry, diskVars
<1> QED BY <1>1, <1>2, <1>3, <1>4, <1>5, <1>6, <1>7, <1>8, <1>9, <1>10, <1>11, <1>12, <1>13, <1>14, <1>15, <1>16, <1>17, <1>18, <1>19, <1>20, <1>21 DEF Step, OwnStep

\* and of what is on the disk.
LEMMA StepData ==
  ASSUME NEW p \in Proc, Types, Start(p) \/ Step(p) \/ Crash(p) \/ CrashTearing(p)
  PROVE  DataTypes'
<1> USE TrackedFiles, FilesOf, FilesWith
<1> USE DEF Types, PlaceTypes, CmdTypes, DataTypes, Entry, Restoring, File
<1>1. CASE Start(p)
  BY <1>1 DEF Start, Goto, diskVars
<1>2. CASE Check(p)
  BY <1>2 DEF Check, Goto, diskVars
<1>3. CASE LockToRecover(p)
  BY <1>3 DEF LockToRecover, Goto, HeldByOther
<1>4. CASE Scan(p)
  BY <1>4 DEF Scan, Goto, Leave, Release
<1>5. CASE Restore(p)
  BY <1>5 DEF Restore, Goto
<1>6. CASE Reinstall(p)
  BY <1>6 DEF Reinstall, Goto, Leave, Release
<1>7. CASE Discard(p)
  BY <1>7 DEF Discard, Goto, Leave, Release, CloseEntry
<1>8. CASE Read(p)
  BY <1>8 DEF Read, Goto, diskVars
<1>9. CASE Begin(p)
  BY <1>9 DEF Begin, Goto, HeldByOther
<1>10. CASE Open(p)
  BY <1>10 DEF Open, Goto, Leave, Release, TakeSnapshot, Noticed, HeldByOther
<1>11. CASE Install(p)
  <2>1. PICK f \in BOOLEAN, m \in BOOLEAN :
           /\ files' = IF f THEN [files EXCEPT !["package"] = @ \union {cmd[p].dep}] ELSE files
           /\ modules' = IF m THEN modules \union {cmd[p].dep} ELSE modules
    BY <1>11 DEF Install
  <2>2. cmd[p].dep \in Dep
    BY <1>11 DEF Install
  <2>3. files["package"] \union {cmd[p].dep} \in SUBSET Dep
    BY <2>2
  <2>4. files' \in Content
    BY <2>1, <2>3
  <2> QED BY <1>11, <2>1, <2>2, <2>4 DEF Install
<1>12. CASE Save(p)
  <2>1. cmd[p].dep \in Dep /\ read[p] \in SUBSET Dep
    BY <1>12 DEF Save
  <2>2. files' \in Content
    BY <1>12, <2>1 DEF Save
  <2> QED BY <1>12, <2>2 DEF Save
<1>13. CASE SaveLockfile(p)
  BY <1>13 DEF SaveLockfile, Goto
<1>14. CASE Uninstall(p)
  <2>1. cmd[p].dep \in Dep /\ files["package"] \ {cmd[p].dep} \in SUBSET Dep
    BY <1>14 DEF Uninstall
  <2>2. files' \in Content
    <3>1. CASE files' = files
      BY <3>1
    <3>2. CASE files' = [files EXCEPT !["package"] = files["package"] \ {cmd[p].dep}]
      BY <2>1, <3>2
    <3> QED BY <1>14, <3>1, <3>2 DEF Uninstall
  <2> QED BY <1>14, <2>2 DEF Uninstall
<1>15. CASE Throw(p)
  BY <1>15 DEF Throw, Goto, RollBack, diskVars
<1>16. CASE Cancel(p)
  BY <1>16 DEF Cancel, Goto, Leave, Release
<1>17. CASE Commit(p)
  BY <1>17 DEF Commit, Goto, Leave, Release, CloseEntry
<1>18. CASE Ensure(p)
  BY <1>18 DEF Ensure, Goto, HeldByOther, Noticed
<1>19. CASE EnsureLocked(p)
  BY <1>19 DEF EnsureLocked, Goto, Leave, Release, Noticed
<1>20. CASE Crash(p)
  BY <1>20 DEF Crash, Goto, diskVars
<1>21. CASE CrashTearing(p)
  <2>1. journal' \in [Proc -> Entry]
    <3>1. journal' = journal \/ \E j \in Proc : journal' = [journal EXCEPT ![j].status = "closed"]
      BY <1>21 DEF CrashTearing, CloseEntry
    <3>2. ASSUME NEW j \in Proc PROVE [journal EXCEPT ![j].status = "closed"] \in [Proc -> Entry]
      OBVIOUS
    <3> QED BY <3>1, <3>2
  <2> QED BY <1>21, <2>1 DEF CrashTearing
<1> QED BY <1>1, <1>2, <1>3, <1>4, <1>5, <1>6, <1>7, <1>8, <1>9, <1>10, <1>11, <1>12, <1>13, <1>14, <1>15, <1>16, <1>17, <1>18, <1>19, <1>20, <1>21 DEF Step, OwnStep

\* A command takes the lock only when nobody alive has it, and gives back its own
\* on every way out.
LEMMA StepLock ==
  ASSUME NEW p \in Proc, PlaceTypes, LockInv, Start(p) \/ Step(p) \/ Crash(p) \/ CrashTearing(p)
  PROVE  LockInv'
<1> USE ProjectTransactionAssumption
<1> USE DEF PlaceTypes, LockInv, Working, Restoring, Over
<1>1. CASE Start(p)
  BY <1>1 DEF Start, Goto, diskVars
<1>2. CASE Check(p)
  BY <1>2 DEF Check, Goto, diskVars
<1>3. CASE LockToRecover(p)
  BY <1>3 DEF LockToRecover, Goto, HeldByOther
<1>4. CASE Scan(p)
  BY <1>4 DEF Scan, Goto, Leave, Release
<1>5. CASE Restore(p)
  BY <1>5 DEF Restore, Goto
<1>6. CASE Reinstall(p)
  BY <1>6 DEF Reinstall, Goto, Leave, Release
<1>7. CASE Discard(p)
  BY <1>7 DEF Discard, Goto, Leave, Release, CloseEntry
<1>8. CASE Read(p)
  BY <1>8 DEF Read, Goto, diskVars
<1>9. CASE Begin(p)
  BY <1>9 DEF Begin, Goto, HeldByOther
<1>10. CASE Open(p)
  BY <1>10 DEF Open, Goto, Leave, Release, TakeSnapshot, Noticed, HeldByOther
<1>11. CASE Install(p)
  BY <1>11 DEF Install, Goto, RollBack
<1>12. CASE Save(p)
  BY <1>12 DEF Save, Goto
<1>13. CASE SaveLockfile(p)
  BY <1>13 DEF SaveLockfile, Goto
<1>14. CASE Uninstall(p)
  BY <1>14 DEF Uninstall, Goto
<1>15. CASE Throw(p)
  BY <1>15 DEF Throw, Goto, RollBack, diskVars
<1>16. CASE Cancel(p)
  BY <1>16 DEF Cancel, Goto, Leave, Release
<1>17. CASE Commit(p)
  BY <1>17 DEF Commit, Goto, Leave, Release, CloseEntry
<1>18. CASE Ensure(p)
  BY <1>18 DEF Ensure, Goto, HeldByOther, Noticed
<1>19. CASE EnsureLocked(p)
  BY <1>19 DEF EnsureLocked, Goto, Leave, Release, Noticed
<1>20. CASE Crash(p)
  BY <1>20 DEF Crash, Goto, diskVars
<1>21. CASE CrashTearing(p)
  BY <1>21 DEF CrashTearing, Goto, CloseEntry, diskVars
<1> QED BY <1>1, <1>2, <1>3, <1>4, <1>5, <1>6, <1>7, <1>8, <1>9, <1>10, <1>11, <1>12, <1>13, <1>14, <1>15, <1>16, <1>17, <1>18, <1>19, <1>20, <1>21 DEF Step, OwnStep

\* Only a command on committed files begins a transaction; it ends with the files
\* committed, or back in place.
LEMMA StepJournal ==
  ASSUME NEW p \in Proc, Types, LockInv, ~torn, JournalInv, ProgressInv, Start(p) \/ Step(p) \/ Crash(p) \/ CrashTearing(p), ~torn'
  PROVE  JournalInv'
<1> USE DEF Types, PlaceTypes, DataTypes, Entry, LockInv, Working, Restoring, Restored, Changing, Over, JournalInv, ProgressInv, Pending
<1>1. CASE Start(p)
  BY <1>1 DEF Start, Goto, diskVars
<1>2. CASE Check(p)
  BY <1>2 DEF Check, Goto, diskVars
<1>3. CASE LockToRecover(p)
  BY <1>3 DEF LockToRecover, Goto, HeldByOther
<1>4. CASE Scan(p)
  BY <1>4 DEF Scan, Goto, Leave, Release
<1>5. CASE Restore(p)
  BY <1>5 DEF Restore, Goto
<1>6. CASE Reinstall(p)
  BY <1>6 DEF Reinstall, Goto, Leave, Release
<1>7. CASE Discard(p)
  BY <1>7 DEF Discard, Goto, Leave, Release, CloseEntry
<1>8. CASE Read(p)
  BY <1>8 DEF Read, Goto, diskVars
<1>9. CASE Begin(p)
  BY <1>9 DEF Begin, Goto, HeldByOther
<1>10. CASE Open(p)
  BY <1>10 DEF Open, Goto, Leave, Release, TakeSnapshot, Noticed, HeldByOther
<1>11. CASE Install(p)
  BY <1>11 DEF Install, Goto, RollBack
<1>12. CASE Save(p)
  BY <1>12 DEF Save, Goto
<1>13. CASE SaveLockfile(p)
  BY <1>13 DEF SaveLockfile, Goto
<1>14. CASE Uninstall(p)
  BY <1>14 DEF Uninstall, Goto
<1>15. CASE Throw(p)
  BY <1>15 DEF Throw, Goto, RollBack, diskVars
<1>16. CASE Cancel(p)
  BY <1>16 DEF Cancel, Goto, Leave, Release
<1>17. CASE Commit(p)
  BY <1>17 DEF Commit, Goto, Leave, Release, CloseEntry
<1>18. CASE Ensure(p)
  BY <1>18 DEF Ensure, Goto, HeldByOther, Noticed
<1>19. CASE EnsureLocked(p)
  BY <1>19 DEF EnsureLocked, Goto, Leave, Release, Noticed
<1>20. CASE Crash(p)
  BY <1>20 DEF Crash, Goto, diskVars
<1>21. CASE CrashTearing(p)
  BY <1>21 DEF CrashTearing, Goto, CloseEntry, diskVars
<1> QED BY <1>1, <1>2, <1>3, <1>4, <1>5, <1>6, <1>7, <1>8, <1>9, <1>10, <1>11, <1>12, <1>13, <1>14, <1>15, <1>16, <1>17, <1>18, <1>19, <1>20, <1>21 DEF Step, OwnStep

\* No command disturbs the work of another one.
LEMMA StepProgress ==
  ASSUME NEW p \in Proc, Types, LockInv, ~torn, JournalInv, ProgressInv, Start(p) \/ Step(p) \/ Crash(p) \/ CrashTearing(p), ~torn'
  PROVE  ProgressInv'
<1> USE DEF Types, PlaceTypes, DataTypes, Entry, LockInv, Working, Restoring, Restored, Changing, Over, JournalInv, ProgressInv, Pending
<1>1. CASE Start(p)
  BY <1>1 DEF Start, Goto, diskVars
<1>2. CASE Check(p)
  BY <1>2 DEF Check, Goto, diskVars
<1>3. CASE LockToRecover(p)
  BY <1>3 DEF LockToRecover, Goto, HeldByOther
<1>4. CASE Scan(p)
  BY <1>4 DEF Scan, Goto, Leave, Release
<1>5. CASE Restore(p)
  <2>1. pc[p] \in Restoring /\ left[p] \in 1..3 /\ source[p] \in Pending
    BY <1>5 DEF Restore
  <2>2. journal[source[p]].snapshot = good
    BY <2>1
  <2>3. files' = [files EXCEPT ![Tracked[left[p]]] = good[Tracked[left[p]]]]
    BY <1>5, <2>2 DEF Restore
  <2>4. \A i \in 1..3 : i < left'[p] => files'[Tracked[i]] = good[Tracked[i]]
    BY <1>5, <2>1, <2>3, TrackedFiles DEF Restore, Content
  <2>5. left[p] = 3 => files' = good
    <3>1. SUFFICES ASSUME left[p] = 3 PROVE \A f \in File : files'[f] = good[f]
      BY <2>3 DEF Content
    <3>2. left'[p] = 4
      BY <1>5, <3>1 DEF Restore
    <3> QED BY <2>4, <3>2, TrackedFiles
  <2>6. \A q \in Proc : pc[q] \in Working => q = p
    BY <2>1
  <2>7. Pending' = Pending /\ good' = good /\ source' = source
    BY <1>5 DEF Restore
  <2>8. \A q \in Proc : q # p => pc'[q] = pc[q]
    BY <1>5 DEF Restore, Goto
  <2>9. pc'[p] = IF left[p] < 3 THEN pc[p] ELSE IF pc[p] = "restore" THEN "reinstall" ELSE "discard"
    BY <1>5, TrackedFiles DEF Restore, Goto
  <2>10. ASSUME NEW q \in Proc, q # p
         PROVE  pc'[q] \notin Changing \union Restoring \union Restored
    BY <2>6, <2>8, <2>10
  <2> QED BY <2>1, <2>4, <2>5, <2>7, <2>9, <2>10 DEF ProgressInv
<1>6. CASE Reinstall(p)
  BY <1>6 DEF Reinstall, Goto, Leave, Release
<1>7. CASE Discard(p)
  BY <1>7 DEF Discard, Goto, Leave, Release, CloseEntry
<1>8. CASE Read(p)
  BY <1>8 DEF Read, Goto, diskVars
<1>9. CASE Begin(p)
  BY <1>9 DEF Begin, Goto, HeldByOther
<1>10. CASE Open(p)
  BY <1>10 DEF Open, Goto, Leave, Release, TakeSnapshot, Noticed, HeldByOther
<1>11. CASE Install(p)
  BY <1>11 DEF Install, Goto, RollBack
<1>12. CASE Save(p)
  BY <1>12 DEF Save, Goto
<1>13. CASE SaveLockfile(p)
  BY <1>13 DEF SaveLockfile, Goto
<1>14. CASE Uninstall(p)
  BY <1>14 DEF Uninstall, Goto
<1>15. CASE Throw(p)
  BY <1>15 DEF Throw, Goto, RollBack, diskVars
<1>16. CASE Cancel(p)
  BY <1>16 DEF Cancel, Goto, Leave, Release
<1>17. CASE Commit(p)
  BY <1>17 DEF Commit, Goto, Leave, Release, CloseEntry
<1>18. CASE Ensure(p)
  BY <1>18 DEF Ensure, Goto, HeldByOther, Noticed
<1>19. CASE EnsureLocked(p)
  BY <1>19 DEF EnsureLocked, Goto, Leave, Release, Noticed
<1>20. CASE Crash(p)
  BY <1>20 DEF Crash, Goto, diskVars
<1>21. CASE CrashTearing(p)
  BY <1>21 DEF CrashTearing, Goto, CloseEntry, diskVars
<1> QED BY <1>1, <1>2, <1>3, <1>4, <1>5, <1>6, <1>7, <1>8, <1>9, <1>10, <1>11, <1>12, <1>13, <1>14, <1>15, <1>16, <1>17, <1>18, <1>19, <1>20, <1>21 DEF Step, OwnStep

-----------------------------------------------------------------------------
(* The theorems *)

LEMMA NextIInv ==
  ASSUME IInv, [Next]_vars
  PROVE  IInv'
<1>1. CASE UNCHANGED vars
  BY <1>1 DEF vars, procVars, diskVars, IInv, Types, PlaceTypes, CmdTypes, DataTypes, LockInv,
     JournalInv, ProgressInv, Pending
<1>2. ASSUME NEW p \in Proc, Start(p) \/ Step(p) \/ Crash(p) \/ CrashTearing(p)
      PROVE  IInv'
  <2>1. PlaceTypes' /\ CmdTypes' /\ DataTypes'
    BY <1>2, StepPlaces, StepCommands, StepData DEF IInv, Types
  <2>2. LockInv'
    BY <1>2, StepLock DEF IInv, Types
  <2>3. torn \in BOOLEAN /\ (torn => torn')
    BY <1>2 DEF IInv, Types, DataTypes, Start, Step, OwnStep, Check, LockToRecover, Scan, Restore, Reinstall,
       Discard, Read, Begin, Open, Install, Save, SaveLockfile, Uninstall, Throw, Cancel, Commit,
       Ensure, EnsureLocked, Crash, CrashTearing, diskVars
  <2>4. ~torn' => JournalInv' /\ ProgressInv'
    BY <1>2, <2>3, StepJournal, StepProgress DEF IInv
  <2> QED BY <2>1, <2>2, <2>4 DEF IInv, Types
<1> QED BY <1>1, <1>2 DEF Next

LEMMA InvariantHolds == Spec => []IInv
  BY InitIInv, NextIInv, PTL DEF Spec

\* Every variable has its type, and at most one transaction of the project is
\* pending as long as no entry of the journal is torn: transactions.ts:238-283, for
\* any number of commands, dependencies and deaths.
THEOREM OneTransactionAtATime == Spec => []TypeOK
<1>1. ASSUME IInv
      PROVE  TypeOK
  <2>1. ~torn => Cardinality(Pending) <= 1
    BY <1>1, AtMostOne DEF IInv, JournalInv
  <2> QED BY <1>1, <2>1, TrackedFiles DEF IInv, Types, PlaceTypes, CmdTypes, DataTypes, TypeOK,
             Content, Working, Over
<1> QED BY InvariantHolds, <1>1, PTL

\* As long as every entry of the journal can be read, a change of the dependencies
\* happens as a whole or not at all, whoever dies where (transactions.ts:238-430).
THEOREM ChangesAreWhole == Spec => [](~torn => AllOrNothing)
<1>1. ASSUME IInv, TypeOK, ~torn
      PROVE  AllOrNothing
  BY <1>1 DEF IInv, JournalInv, AllOrNothing
<1> QED BY InvariantHolds, OneTransactionAtATime, <1>1, PTL

\* In the same setting no snapshot holds half of another change
\* (transactions.ts:246-281).
THEOREM SnapshotsAreWhole == Spec => [](~torn => SnapshotsAreGood)
<1>1. ASSUME IInv, ~torn
      PROVE  SnapshotsAreGood
  BY <1>1 DEF IInv, JournalInv, SnapshotsAreGood, Pending
<1> QED BY InvariantHolds, <1>1, PTL

=============================================================================
