------------------------ MODULE UpdatePipelineProofs ------------------------
(***************************************************************************)
(* The update pipeline keeps the version manager sound, whatever work      *)
(* overlaps, for any verdicts, admin operations and bounds: what the runs  *)
(* of UpdatePipeline show on small instances, proved for all of them.      *)
(***************************************************************************)
EXTENDS UpdatePipeline, TLAPS

-----------------------------------------------------------------------------
(* The methods of the version manager: what each preserves, for every     *)
(* number of versions, builds, archived binaries and every threshold.      *)

\* The parts of the invariant that speak of the manager alone.
RepoSound(m) ==
    /\ m.head \in m.branches
    /\ m.rollback_ref \in m.branches \cup {None}
    /\ m.worktrees \subseteq m.branches \ {m.head}

LockSound(m) ==
    /\ m.mem.consecutive_failures >= MaxFailures => m.mem.locked
    /\ m.disk.consecutive_failures >= MaxFailures => m.disk.locked

DiskSound(m) ==
    \/ m.disk.pending_version \notin m.branches \cup {None}
    \/ /\ m.disk.pending_version = m.mem.pending_version
       /\ m.disk.pending_attempt = m.mem.pending_attempt
       /\ m.disk.locked = m.mem.locked
       /\ m.mem.consecutive_failures \in {0, m.disk.consecutive_failures}

Sound(m) ==
    /\ m \in VersionManager
    /\ RepoSound(m) /\ LockSound(m) /\ DiskSound(m)

\* n is as sound as m, can still be rolled back if m can, and is still locked
\* if m is.
Keeps(m, n) ==
    /\ Sound(n)
    /\ CanRollback(m) => CanRollback(n)
    /\ Locked(m) => Locked(n)

USE DEF Versions, Binaries, Builds, NoBuild

-----------------------------------------------------------------------------
(* Field by field.                                                         *)

LEMMA FieldTypes ==
    ASSUME NEW m \in VersionManager
    PROVE  /\ m.branches \subseteq Versions
           /\ m.head \in Versions
           /\ m.rollback_ref \in Versions \cup {None}
           /\ m.worktrees \subseteq Versions
           /\ m.output \in [Versions -> Binaries]
           /\ m.binary \in Binaries
           /\ m.rollback_binary \in Binaries
           /\ m.archive \in [Versions -> Binaries]
           /\ m.mem \in PersistedState
           /\ m.disk \in PersistedState
    BY DEF VersionManager

LEMMA PersistedTypes ==
    ASSUME NEW s \in PersistedState
    PROVE  /\ s.pending_version \in Versions \cup {None}
           /\ s.pending_attempt \in Nat
           /\ s.consecutive_failures \in Nat
           /\ s.locked \in BOOLEAN
    BY DEF PersistedState

LEMMA DefaultType == DefaultState \in PersistedState
    BY DEF DefaultState, PersistedState

LEMMA FreshSound == Sound(FreshManager)
  <1>1. FreshManager \in VersionManager
    <2>1. 0 \in Versions
      BY VersionAssumption
    <2> QED
      BY <2>1, DefaultType DEF FreshManager, VersionManager
  <1>2. RepoSound(FreshManager)
    BY DEF FreshManager, RepoSound
  <1>3. LockSound(FreshManager) /\ DiskSound(FreshManager)
    BY VersionAssumption DEF FreshManager, DefaultState, LockSound, DiskSound
  <1> QED
    BY <1>1, <1>2, <1>3 DEF Sound

LEMMA KeepsTransitive ==
    ASSUME NEW m, NEW n, NEW o, Keeps(m, n), Keeps(n, o)
    PROVE  Keeps(m, o)
    BY DEF Keeps

LEMMA KeepsReflexive ==
    ASSUME NEW m, Sound(m)
    PROVE  Keeps(m, m)
    BY DEF Keeps

\* Every change of the in-memory fields is followed by persist_state, which
\* leaves the file equal to memory.
LEMMA PersistKeeps ==
    ASSUME NEW m, Sound(m), NEW s \in PersistedState,
           s.consecutive_failures >= MaxFailures => s.locked,
           m.mem.locked => s.locked
    PROVE  Keeps(m, PersistState([m EXCEPT !.mem = s]))
  <1> DEFINE n == PersistState([m EXCEPT !.mem = s])
  <1>1. n \in VersionManager
    BY DEF Sound, VersionManager, PersistState
  <1>2. /\ n.mem = s /\ n.disk = s
        /\ n.branches = m.branches /\ n.head = m.head
        /\ n.rollback_ref = m.rollback_ref /\ n.worktrees = m.worktrees
    BY DEF Sound, VersionManager, PersistState
  <1>3. RepoSound(n)
    BY <1>2 DEF Sound, RepoSound
  <1>4. LockSound(n) /\ DiskSound(n)
    BY <1>2 DEF LockSound, DiskSound
  <1> QED
    BY <1>1, <1>2, <1>3, <1>4 DEF Sound, Keeps, CanRollback, Locked

-----------------------------------------------------------------------------
(* The methods that change the in-memory fields.                           *)

LEMMA ReusePendingKeeps ==
    ASSUME NEW m, Sound(m)
    PROVE  Keeps(m, ReusePending(m))
  <1> DEFINE s == [m.mem EXCEPT !.pending_attempt = @ + 1]
  <1>1. m \in VersionManager /\ m.mem \in PersistedState
    BY FieldTypes DEF Sound
  <1>2. /\ s \in PersistedState
        /\ s.consecutive_failures = m.mem.consecutive_failures
        /\ s.locked = m.mem.locked
    BY <1>1, PersistedTypes DEF PersistedState
  <1>3. ReusePending(m) = PersistState([m EXCEPT !.mem = s])
    BY DEF ReusePending
  <1> HIDE DEF s
  <1> QED
    BY <1>2, <1>3, PersistKeeps DEF Sound, LockSound

LEMMA MarkPendingKeeps ==
    ASSUME NEW m, Sound(m), NEW v \in Versions
    PROVE  Keeps(m, MarkPending(m, v))
  <1> DEFINE s == [m.mem EXCEPT !.pending_version = v]
  <1>1. m \in VersionManager /\ m.mem \in PersistedState
    BY FieldTypes DEF Sound
  <1>2. /\ s \in PersistedState
        /\ s.consecutive_failures = m.mem.consecutive_failures
        /\ s.locked = m.mem.locked
    BY <1>1, PersistedTypes DEF PersistedState
  <1>3. MarkPending(m, v) = PersistState([m EXCEPT !.mem = s])
    BY DEF MarkPending
  <1> HIDE DEF s
  <1> QED
    BY <1>2, <1>3, PersistKeeps DEF Sound, LockSound

LEMMA ClearPendingKeeps ==
    ASSUME NEW m, Sound(m)
    PROVE  Keeps(m, ClearPending(m))
  <1> DEFINE s == [m.mem EXCEPT !.pending_version = None,
                                !.pending_attempt = 0,
                                !.consecutive_failures = 0]
  <1>1. m \in VersionManager /\ m.mem \in PersistedState
    BY FieldTypes DEF Sound
  <1>2. /\ s \in PersistedState
        /\ s.consecutive_failures = 0
        /\ s.locked = m.mem.locked
    BY <1>1, PersistedTypes DEF PersistedState
  <1>3. ClearPending(m) = PersistState([m EXCEPT !.mem = s])
    BY DEF ClearPending
  <1> HIDE DEF s
  <1> QED
    BY <1>2, <1>3, PersistKeeps, VersionAssumption

LEMMA RecordFailureKeeps ==
    ASSUME NEW m, Sound(m)
    PROVE  Keeps(m, RecordFailure(m))
  <1> DEFINE f == m.mem.consecutive_failures + 1
             s == [m.mem EXCEPT !.consecutive_failures = f,
                                !.locked = @ \/ f >= MaxFailures]
  <1>1. m \in VersionManager /\ m.mem \in PersistedState
    BY FieldTypes DEF Sound
  <1>2. f \in Nat
    BY <1>1, PersistedTypes
  <1>3. s \in PersistedState
    BY <1>1, <1>2, PersistedTypes DEF PersistedState
  <1>4. /\ s.consecutive_failures = f
        /\ s.locked = (m.mem.locked \/ f >= MaxFailures)
    BY <1>1 DEF PersistedState
  <1>5. RecordFailure(m) = PersistState([m EXCEPT !.mem = s])
    BY DEF RecordFailure
  <1> HIDE DEF s
  <1> QED
    BY <1>3, <1>4, <1>5, PersistKeeps

\* Unlock is the one method that may lift the lock.
LEMMA UnlockSound ==
    ASSUME NEW m, Sound(m)
    PROVE  /\ Sound(Unlock(m))
           /\ CanRollback(m) => CanRollback(Unlock(m))
  <1> DEFINE n == Unlock(m)
  <1>1. m \in VersionManager /\ m.mem \in PersistedState
    BY FieldTypes DEF Sound
  <1>2. n \in VersionManager
    BY <1>1 DEF Unlock, PersistState, VersionManager, PersistedState
  <1>3. /\ n.mem = n.disk /\ n.mem.consecutive_failures = 0
        /\ n.branches = m.branches /\ n.head = m.head
        /\ n.rollback_ref = m.rollback_ref /\ n.worktrees = m.worktrees
    BY <1>1 DEF Unlock, PersistState, VersionManager, PersistedState
  <1>4. RepoSound(n)
    BY <1>3 DEF Sound, RepoSound
  <1>5. LockSound(n) /\ DiskSound(n)
    BY <1>3, VersionAssumption DEF LockSound, DiskSound
  <1> QED
    BY <1>2, <1>3, <1>4, <1>5 DEF Sound, CanRollback

\* A restart keeps the lock unless the state file names a lost branch.
LEMMA RestoreStateSound ==
    ASSUME NEW m, Sound(m)
    PROVE  /\ Sound(RestoreState(m))
           /\ \/ m.disk.pending_version \notin m.branches \cup {None}
              \/ RestoreState(m).mem.locked = m.mem.locked
  <1> DEFINE n == RestoreState(m)
             usable == m.disk.pending_version \in m.branches \cup {None}
  <1>1. m \in VersionManager /\ m.disk \in PersistedState
    BY FieldTypes DEF Sound
  <1>2. /\ n.disk = m.disk
        /\ n.mem = IF usable THEN m.disk ELSE DefaultState
        /\ n.branches = m.branches /\ n.head = m.head
        /\ n.rollback_ref = m.rollback_ref /\ n.worktrees = m.worktrees
    BY <1>1 DEF RestoreState, VersionManager
  <1>3. n \in VersionManager
    BY <1>1, DefaultType DEF RestoreState, VersionManager
  <1>4. RepoSound(n)
    BY <1>2 DEF Sound, RepoSound
  <1>5. LockSound(n)
    BY <1>2, VersionAssumption DEF Sound, LockSound, DefaultState
  <1>6. DiskSound(n)
    BY <1>2 DEF DiskSound
  <1>7. usable => n.mem.locked = m.mem.locked
    BY <1>2 DEF Sound, DiskSound
  <1> QED
    BY <1>3, <1>4, <1>5, <1>6, <1>7 DEF Sound

-----------------------------------------------------------------------------
(* The methods that change what git and the file system hold.              *)

\* What a change of the other fields has to respect.
LEMMA FilesKeep ==
    ASSUME NEW m, Sound(m), NEW n \in VersionManager,
           n.mem = m.mem, n.disk = m.disk, n.branches = m.branches,
           n.head = m.head, n.rollback_ref = m.rollback_ref,
           n.worktrees \subseteq m.branches \ {m.head}
    PROVE  Keeps(m, n)
    BY DEF Sound, RepoSound, LockSound, DiskSound, Keeps, CanRollback, Locked

LEMMA AllocateVersionKeeps ==
    ASSUME NEW m, Sound(m), NEW v \in Versions
    PROVE  Keeps(m, AllocateVersion(m, v))
  <1> DEFINE s == [m.mem EXCEPT !.pending_version = v, !.pending_attempt = 1]
             n == AllocateVersion(m, v)
  <1>1. m \in VersionManager /\ m.mem \in PersistedState
    BY FieldTypes DEF Sound
  <1>2. /\ s \in PersistedState
        /\ s.consecutive_failures = m.mem.consecutive_failures
        /\ s.locked = m.mem.locked
    BY <1>1, PersistedTypes DEF PersistedState
  <1>3. n = [m EXCEPT !.branches = @ \cup {v}, !.mem = s, !.disk = s]
    BY <1>1 DEF AllocateVersion, PersistState, VersionManager
  <1> HIDE DEF s
  <1>4. n \in VersionManager
    <2>1. (m.branches \cup {v}) \in SUBSET Versions
      BY <1>1, FieldTypes
    <2> HIDE DEF n
    <2> QED
      BY <1>1, <1>2, <1>3, <2>1 DEF VersionManager
  <1>5. /\ n.mem = s /\ n.disk = s
        /\ n.branches = m.branches \cup {v} /\ n.head = m.head
        /\ n.rollback_ref = m.rollback_ref /\ n.worktrees = m.worktrees
    BY <1>1, <1>3 DEF VersionManager
  <1>6. RepoSound(n)
    BY <1>5 DEF Sound, RepoSound
  <1>7. LockSound(n) /\ DiskSound(n)
    BY <1>2, <1>5 DEF Sound, LockSound, DiskSound
  <1> QED
    BY <1>2, <1>4, <1>5, <1>6, <1>7 DEF Sound, Keeps, CanRollback, Locked

LEMMA CleanupWorktreeFields ==
    ASSUME NEW m \in VersionManager, NEW v \in Versions
    PROVE  /\ CleanupWorktree(m, v) \in VersionManager
           /\ CleanupWorktree(m, v).worktrees = m.worktrees \ {v}
           /\ CleanupWorktree(m, v).mem = m.mem
           /\ CleanupWorktree(m, v).disk = m.disk
           /\ CleanupWorktree(m, v).branches = m.branches
           /\ CleanupWorktree(m, v).head = m.head
           /\ CleanupWorktree(m, v).rollback_ref = m.rollback_ref
    BY VersionAssumption DEF CleanupWorktree, VersionManager

LEMMA CleanupWorktreeKeeps ==
    ASSUME NEW m, Sound(m), NEW v \in Versions
    PROVE  Keeps(m, CleanupWorktree(m, v))
    BY CleanupWorktreeFields, FilesKeep DEF Sound, RepoSound

LEMMA CommitVersionSourceKeeps ==
    ASSUME NEW m, Sound(m), NEW v \in Versions, NEW copied \in BOOLEAN
    PROVE  Keeps(m, CommitVersionSource(m, v, copied))
  <1> DEFINE c == CleanupWorktree(m, v)
             n == [c EXCEPT !.worktrees = @ \cup {v}]
  <1>1. Keeps(m, c) /\ Sound(c)
    BY CleanupWorktreeKeeps DEF Keeps
  <1> HIDE DEF c
  <1>2. CASE CanAddWorktree(c, v) /\ copied
    <2>1. c \in VersionManager
      BY <1>1 DEF Sound
    <2>2. n \in VersionManager
      BY <2>1 DEF VersionManager
    <2>3. /\ n.mem = c.mem /\ n.disk = c.disk /\ n.branches = c.branches
          /\ n.head = c.head /\ n.rollback_ref = c.rollback_ref
          /\ n.worktrees = c.worktrees \cup {v}
      BY <2>1 DEF VersionManager
    <2>4. n.worktrees \subseteq c.branches \ {c.head}
      BY <1>1, <1>2, <2>3 DEF CanAddWorktree, Sound, RepoSound
    <2>5. Keeps(c, n)
      BY <1>1, <2>2, <2>3, <2>4, FilesKeep
    <2> QED
      BY <1>1, <1>2, <2>5, KeepsTransitive DEF CommitVersionSource, c
  <1>3. CASE ~(CanAddWorktree(c, v) /\ copied)
    BY <1>1, <1>3 DEF CommitVersionSource, c
  <1> QED
    BY <1>2, <1>3

LEMMA ArchiveBinaryKeeps ==
    ASSUME NEW m, Sound(m), NEW v \in Versions
    PROVE  Keeps(m, ArchiveBinary(m, v))
  <1>1. CASE m.binary = NoBuild
    BY <1>1, KeepsReflexive DEF ArchiveBinary
  <1>2. CASE m.binary # NoBuild
    <2> DEFINE written == [m EXCEPT !.archive[v] = m.binary]
               pruned == Pruned(written, v)
               kept == [w \in Versions |-> IF w \in pruned THEN NoBuild
                                           ELSE written.archive[w]]
               n == [written EXCEPT !.archive = kept]
    <2>1. m \in VersionManager /\ m.binary \in Binaries
      BY FieldTypes DEF Sound
    <2>2. written \in VersionManager
      BY <2>1 DEF VersionManager
    <2>3. /\ written.mem = m.mem /\ written.disk = m.disk
          /\ written.branches = m.branches /\ written.head = m.head
          /\ written.rollback_ref = m.rollback_ref
          /\ written.worktrees = m.worktrees
      BY <2>1 DEF VersionManager
    <2>4. ArchiveBinary(m, v) = n
      BY <1>2 DEF ArchiveBinary
    <2> HIDE DEF written, pruned
    <2>5. kept \in [Versions -> Binaries]
      BY <2>2, FieldTypes
    <2> HIDE DEF kept
    <2>6. n \in VersionManager
      BY <2>2, <2>5 DEF VersionManager
    <2>7. /\ n.mem = m.mem /\ n.disk = m.disk
          /\ n.branches = m.branches /\ n.head = m.head
          /\ n.rollback_ref = m.rollback_ref
          /\ n.worktrees = m.worktrees
      BY <2>2, <2>3 DEF VersionManager
    <2> HIDE DEF n
    <2> QED
      BY <2>4, <2>6, <2>7, FilesKeep DEF Sound, RepoSound
  <1> QED
    BY <1>1, <1>2

LEMMA InstallOutputKeeps ==
    ASSUME NEW m, Sound(m), NEW v \in Versions
    PROVE  Keeps(m, InstallOutput(m, v))
  <1>1. CASE m.output[v] = NoBuild
    BY <1>1, KeepsReflexive DEF InstallOutput
  <1>2. CASE m.output[v] # NoBuild
    <2> DEFINE n == InstallBinary(m, m.output[v])
    <2>1. m \in VersionManager /\ m.output[v] \in Binaries
      BY FieldTypes DEF Sound
    <2>2. /\ n \in VersionManager
          /\ n.mem = m.mem /\ n.disk = m.disk
          /\ n.branches = m.branches /\ n.head = m.head
          /\ n.rollback_ref = m.rollback_ref
          /\ n.worktrees = m.worktrees
      BY <2>1 DEF InstallBinary, VersionManager
    <2>3. InstallOutput(m, v) = ArchiveBinary(n, v)
      BY <1>2 DEF InstallOutput
    <2> HIDE DEF n
    <2>4. Keeps(m, n)
      BY <2>2, FilesKeep DEF Sound, RepoSound
    <2>5. Keeps(n, ArchiveBinary(n, v))
      BY <2>4, ArchiveBinaryKeeps DEF Keeps
    <2> QED
      BY <2>3, <2>4, <2>5, KeepsTransitive
  <1> QED
    BY <1>1, <1>2

-----------------------------------------------------------------------------
(* Switching, rolling back, deleting branches.                             *)

LEMMA SwitchToKeeps ==
    ASSUME NEW m, Sound(m), NEW v \in Versions, v \in m.branches
    PROVE  Keeps(m, SwitchTo(m, v)) /\ CanRollback(SwitchTo(m, v))
  <1> DEFINE c == CleanupWorktree(m, v)
             n == SwitchTo(m, v)
  <1>1. m \in VersionManager /\ c \in VersionManager
    BY CleanupWorktreeFields DEF Sound
  <1>2. /\ m.binary \in Binaries /\ m.head \in Versions
        /\ c.mem \in PersistedState /\ c.rollback_binary \in Binaries
    BY <1>1, FieldTypes
  <1>3. /\ c.mem = m.mem /\ c.disk = m.disk /\ c.branches = m.branches
        /\ c.worktrees = m.worktrees \ {v}
    BY <1>1, CleanupWorktreeFields
  <1>4. n = [c EXCEPT
            !.rollback_binary = IF m.binary # NoBuild THEN m.binary ELSE @,
            !.head = v, !.rollback_ref = m.head,
            !.mem = [c.mem EXCEPT !.consecutive_failures = 0]]
    BY <1>1 DEF SwitchTo, VersionManager
  <1> HIDE DEF c
  <1>5. [c.mem EXCEPT !.consecutive_failures = 0] \in PersistedState
    BY <1>2 DEF PersistedState
  <1>6. n \in VersionManager
    BY <1>1, <1>2, <1>4, <1>5 DEF VersionManager
  <1>7. /\ n.branches = m.branches /\ n.head = v /\ n.rollback_ref = m.head
        /\ n.worktrees = m.worktrees \ {v}
        /\ n.disk = m.disk
        /\ n.mem = [c.mem EXCEPT !.consecutive_failures = 0]
    BY <1>1, <1>3, <1>4 DEF VersionManager
  <1> HIDE DEF n
  <1>8. /\ n.mem.consecutive_failures = 0
        /\ n.mem.locked = m.mem.locked
        /\ n.mem.pending_version = m.mem.pending_version
        /\ n.mem.pending_attempt = m.mem.pending_attempt
    BY <1>2, <1>3, <1>7 DEF PersistedState
  <1>9. RepoSound(n)
    BY <1>7 DEF Sound, RepoSound
  <1>10. LockSound(n) /\ DiskSound(n)
    BY <1>7, <1>8, VersionAssumption DEF Sound, LockSound, DiskSound
  <1>11. CanRollback(n)
    BY <1>7 DEF Sound, RepoSound, CanRollback
  <1>12. Keeps(m, n) /\ CanRollback(n)
    BY <1>6, <1>8, <1>9, <1>10, <1>11 DEF Sound, Keeps, Locked
  <1> QED
    BY <1>12 DEF n

LEMMA RollbackKeeps ==
    ASSUME NEW m, Sound(m), CanRollback(m)
    PROVE  Keeps(m, Rollback(m))
  <1> DEFINE r == m.rollback_ref
             c == CleanupWorktree(m, r)
             n == Rollback(m)
  <1>1. m \in VersionManager /\ r \in Versions
    BY FieldTypes DEF Sound, CanRollback
  <1>2. /\ c \in VersionManager
        /\ c.mem = m.mem /\ c.disk = m.disk /\ c.branches = m.branches
        /\ c.rollback_ref = r /\ c.worktrees = m.worktrees \ {r}
    BY <1>1, CleanupWorktreeFields
  <1>3. m.rollback_binary \in Binaries /\ c.binary \in Binaries
    BY <1>1, <1>2, FieldTypes
  <1>4. n = [c EXCEPT !.head = r,
                     !.binary = IF m.rollback_binary # NoBuild
                                THEN m.rollback_binary ELSE @]
    BY DEF Rollback
  <1> HIDE DEF c
  <1>5. n \in VersionManager
    BY <1>1, <1>2, <1>3, <1>4 DEF VersionManager
  <1>6. /\ n.mem = m.mem /\ n.disk = m.disk /\ n.branches = m.branches
        /\ n.head = r /\ n.rollback_ref = r
        /\ n.worktrees = m.worktrees \ {r}
    BY <1>2, <1>4 DEF VersionManager
  <1> HIDE DEF n
  <1>7. RepoSound(n)
    BY <1>6 DEF Sound, RepoSound, CanRollback
  <1>8. LockSound(n) /\ DiskSound(n)
    BY <1>6 DEF Sound, LockSound, DiskSound
  <1>9. Keeps(m, n)
    BY <1>5, <1>6, <1>7, <1>8 DEF Sound, Keeps, Locked, CanRollback
  <1> QED
    BY <1>9 DEF n

LEMMA CleanupOldVersionsKeeps ==
    ASSUME NEW m, Sound(m), NEW keep
    PROVE  Keeps(m, CleanupOldVersions(m, keep))
  <1> DEFINE gone == Removable(m, keep) \ m.worktrees
             n == CleanupOldVersions(m, keep)
  <1>1. gone \subseteq m.branches \ ({m.head, m.rollback_ref} \cup m.worktrees)
    BY DEF Removable
  <1>2. m \in VersionManager
    BY DEF Sound
  <1>3. n = [m EXCEPT !.branches = @ \ gone]
    BY DEF CleanupOldVersions
  <1> HIDE DEF gone
  <1>4. n \in VersionManager
    BY <1>2, <1>3 DEF VersionManager
  <1>5. /\ n.mem = m.mem /\ n.disk = m.disk /\ n.branches = m.branches \ gone
        /\ n.head = m.head /\ n.rollback_ref = m.rollback_ref
        /\ n.worktrees = m.worktrees
    BY <1>2, <1>3 DEF VersionManager
  <1> HIDE DEF n
  <1>6. RepoSound(n)
    BY <1>1, <1>5 DEF Sound, RepoSound
  <1>7. LockSound(n) /\ DiskSound(n)
    BY <1>5 DEF Sound, LockSound, DiskSound
  <1>8. CanRollback(m) => CanRollback(n)
    BY <1>1, <1>5 DEF CanRollback
  <1>9. Keeps(m, n)
    BY <1>4, <1>5, <1>6, <1>7, <1>8 DEF Sound, Keeps, Locked
  <1> QED
    BY <1>9 DEF n

-----------------------------------------------------------------------------
(* The pipeline.                                                           *)

HIDE DEF Versions, Binaries, Builds, NoBuild

\* The inductive invariant.  RepoSafe is not inductive by itself: a rollback
\* after a failed hand-over needs a hand-over to imply a rollback target, and
\* LockHolds needs the state file to agree with memory (DiskSound).
IInv ==
    /\ TypeOK
    /\ Sound(vm)
    /\ swap # SwapIdle => CanRollback(vm)

\* The lock survives a step, or the step may lift it.
LockStep ==
    \/ Locked(vm) => Locked(vm')
    \/ vm' = Unlock(vm)
    \/ /\ vm' = RestoreState(vm)
       /\ vm.disk.pending_version \notin vm.branches \cup {None}

\* What every step establishes.
StepOK == IInv' /\ LockStep

\* A step that keeps the manager and leaves the hand-over alone or ends it
\* only has the types of the other variables left to show.
LEMMA StepByKeeps ==
    ASSUME IInv, Keeps(vm, vm'), TypeOK',
           swap' # SwapIdle => (swap' = swap \/ CanRollback(vm'))
    PROVE  StepOK
    BY DEF StepOK, IInv, Keeps, LockStep

LEMMA QueueTypes ==
    ASSUME NEW S, NEW q \in Seq(S), NEW x \in S
    PROVE  Append(q, x) \in Seq(S)
    OBVIOUS

LEMMA InitOK == Init => IInv
  <1> SUFFICES ASSUME Init PROVE IInv
    OBVIOUS
  <1>1. Sound(vm)
    BY FreshSound DEF Init
  <1>2. TypeOK
    <2>1. vm \in VersionManager
      BY <1>1 DEF Sound
    <2>2. judged \in [Builds -> Verdicts \cup {"untested"}]
      BY DEF Init
    <2>3. builds \in 0..MaxBuilds
      BY VersionAssumption DEF Init
    <2>4. /\ compileQ \in Seq(Versions) /\ testQ \in Seq(Versions)
          /\ resultQ \in Seq(CompileResults)
          /\ verdictQ \in Seq(TestResults)
      BY DEF Init
    <2>5. swap \in HotSwapStates
      BY DEF Init, HotSwapStates
    <2>6. registered \subseteq Services /\ spawned \in Binaries
      BY DEF Init, Binaries
    <2>7. compiling \in Versions \cup {None} /\ probation \in Versions \cup {None}
      BY DEF Init
    <2> QED
      BY <2>1, <2>2, <2>3, <2>4, <2>5, <2>6, <2>7 DEF TypeOK
  <1> QED
    BY <1>1, <1>2 DEF Init, IInv

-----------------------------------------------------------------------------
(* Submission and compilation.                                             *)

LEMMA SubmitUpdateOK ==
    ASSUME IInv, SubmitUpdate
    PROVE  StepOK
  <1> USE DEF IInv
  <1>1. \E v \in Versions, copied \in BOOLEAN : \E m :
          /\ Keeps(vm, m)
          /\ vm' = CommitVersionSource(m, v, copied)
          /\ compileQ' = compileQ \/ compileQ' = Append(compileQ, v)
    <2>1. PICK copied \in BOOLEAN :
            \/ Pending(vm) # None
                 /\ Dispatch(ReusePending(vm), Pending(vm), copied)
            \/ \E v \in Versions : Dispatch(AllocateVersion(vm, v), v, copied)
      BY DEF SubmitUpdate
    <2>2. CASE Pending(vm) # None
                 /\ Dispatch(ReusePending(vm), Pending(vm), copied)
      <3>1. Pending(vm) \in Versions
        BY <2>2, FieldTypes, PersistedTypes DEF Pending, Sound
      <3>2. Keeps(vm, ReusePending(vm))
        BY ReusePendingKeeps
      <3> QED
        BY <2>2, <3>1, <3>2 DEF Dispatch
    <2>3. CASE \E v \in Versions : Dispatch(AllocateVersion(vm, v), v, copied)
      <3>1. PICK v \in Versions : Dispatch(AllocateVersion(vm, v), v, copied)
        BY <2>3
      <3>2. Keeps(vm, AllocateVersion(vm, v))
        BY AllocateVersionKeeps
      <3> QED
        BY <3>1, <3>2 DEF Dispatch
    <2> QED
      BY <2>1, <2>2, <2>3
  <1>2. Keeps(vm, vm')
    <2>1. PICK v \in Versions, copied \in BOOLEAN : \E m :
            Keeps(vm, m) /\ vm' = CommitVersionSource(m, v, copied)
      BY <1>1
    <2>2. PICK m : Keeps(vm, m) /\ vm' = CommitVersionSource(m, v, copied)
      BY <2>1
    <2>3. Keeps(m, CommitVersionSource(m, v, copied))
      BY <2>2, CommitVersionSourceKeeps DEF Keeps
    <2> QED
      BY <2>2, <2>3, KeepsTransitive
  <1>3. compileQ' \in Seq(Versions)
    BY <1>1, QueueTypes DEF TypeOK
  <1>4. TypeOK' /\ swap' = swap
    BY <1>2, <1>3 DEF SubmitUpdate, TypeOK, Keeps, Sound
  <1> QED
    BY <1>2, <1>4, StepByKeeps

LEMMA CompilerReceiveOK ==
    ASSUME IInv, CompilerReceive
    PROVE  StepOK
  <1> USE DEF IInv
  <1>1. vm' = vm /\ swap' = swap
    BY DEF CompilerReceive
  <1>2. Head(compileQ) \in Versions /\ compileQ' \in Seq(Versions)
    BY DEF CompilerReceive, TypeOK
  <1> DEFINE r == [version |-> Head(compileQ), success |-> FALSE]
  <1>3. /\ r \in CompileResults
        /\ resultQ' = resultQ \/ resultQ' = Append(resultQ, r)
    BY <1>2 DEF CompilerReceive, CompileResults
  <1> HIDE DEF r
  <1>4. resultQ' \in Seq(CompileResults)
    BY <1>3, QueueTypes DEF TypeOK
  <1>5. compiling' \in Versions \cup {None}
    BY <1>2 DEF CompilerReceive, TypeOK
  <1>6. TypeOK'
    BY <1>1, <1>2, <1>4, <1>5 DEF CompilerReceive, TypeOK
  <1> QED
    BY <1>1, <1>6, KeepsReflexive, StepByKeeps

LEMMA CompilerFinishOK ==
    ASSUME IInv, CompilerFinish
    PROVE  StepOK
  <1> USE DEF IInv
  <1>1. PICK success \in BOOLEAN :
          /\ success => builds < MaxBuilds
          /\ resultQ' = Append(resultQ, [version |-> compiling,
                                         success |-> success])
          /\ builds' = IF success THEN builds + 1 ELSE builds
          /\ vm' = IF success
                   THEN [vm EXCEPT !.output[compiling] = builds + 1] ELSE vm
    BY DEF CompilerFinish
  <1>2. compiling \in Versions
    BY DEF CompilerFinish, TypeOK
  <1>3. resultQ' \in Seq(CompileResults)
    <2>1. [version |-> compiling, success |-> success] \in CompileResults
      BY <1>2 DEF CompileResults
    <2> QED
      BY <1>1, <2>1 DEF TypeOK
  <1>4. builds' \in 0..MaxBuilds
    BY <1>1, VersionAssumption DEF TypeOK
  <1>5. Keeps(vm, vm')
    <2>1. CASE success
      <3>1. builds + 1 \in Binaries
        <4>1. builds \in 0..MaxBuilds /\ builds < MaxBuilds
          BY <1>1, <2>1 DEF TypeOK
        <4> QED
          BY <4>1, VersionAssumption DEF Binaries, Builds
      <3>2. vm' \in VersionManager
        BY <1>1, <1>2, <2>1, <3>1 DEF TypeOK, VersionManager
      <3>3. /\ vm'.mem = vm.mem /\ vm'.disk = vm.disk
            /\ vm'.branches = vm.branches /\ vm'.head = vm.head
            /\ vm'.rollback_ref = vm.rollback_ref
            /\ vm'.worktrees = vm.worktrees
        BY <1>1, <2>1 DEF TypeOK, VersionManager
      <3> QED
        BY <3>2, <3>3, FilesKeep DEF Sound, RepoSound
    <2>2. CASE ~success
      BY <1>1, <2>2, KeepsReflexive
    <2> QED
      BY <2>1, <2>2
  <1>6. TypeOK' /\ swap' = swap
    BY <1>3, <1>4, <1>5 DEF CompilerFinish, TypeOK, Keeps, Sound
  <1> QED
    BY <1>5, <1>6, StepByKeeps

-----------------------------------------------------------------------------
(* The results Boot handles.                                               *)

\* A switch leaves a rollback target behind; a refused one changes nothing.
LEMMA FinalizeOK ==
    ASSUME NEW m, Sound(m), NEW v \in Versions,
           swap \in HotSwapStates, spawned \in Binaries,
           swap # SwapIdle => CanRollback(m),
           FinalizeVersionSwitch(m, v)
    PROVE  /\ Keeps(m, vm')
           /\ swap' \in HotSwapStates /\ spawned' \in Binaries
           /\ swap' # SwapIdle => CanRollback(vm')
  <1>1. CASE vm' = m /\ UNCHANGED <<swap, spawned>>
    BY <1>1, KeepsReflexive
  <1>2. CASE v \in m.branches
    <2> DEFINE switched == SwitchTo(m, v)
    <2>1. Keeps(m, switched) /\ CanRollback(switched) /\ Sound(switched)
      BY <1>2, SwitchToKeeps DEF Keeps
    <2>2. m.head \in Versions
      BY FieldTypes DEF Sound
    <2>3. ResolveBinaryForVersion(switched, v) \in Binaries
      BY <2>1, FieldTypes DEF Sound, ResolveBinaryForVersion
    <2>4. Keeps(switched, Rollback(switched))
      BY <2>1, RollbackKeeps
    <2>5. Keeps(m, Rollback(switched)) /\ CanRollback(Rollback(switched))
      BY <2>1, <2>4, KeepsTransitive DEF Keeps
    <2> HIDE DEF switched
    <2>6. \/ vm' = m /\ UNCHANGED <<swap, spawned>>
          \/ vm' = switched /\ UNCHANGED <<swap, spawned>>
          \/ /\ vm' = switched
             /\ swap' = [new |-> v, old |-> m.head]
             /\ spawned' = ResolveBinaryForVersion(switched, v)
          \/ vm' = Rollback(switched) /\ UNCHANGED <<swap, spawned>>
      BY DEF FinalizeVersionSwitch, switched
    <2>7. [new |-> v, old |-> m.head] \in HotSwapStates
      BY <2>2 DEF HotSwapStates
    <2> QED
      BY <2>1, <2>3, <2>5, <2>6, <2>7, KeepsReflexive
  <1> QED
    BY <1>1, <1>2 DEF FinalizeVersionSwitch

LEMMA HandleCompileResultOK ==
    ASSUME IInv, HandleCompileResult
    PROVE  StepOK
  <1> USE DEF IInv
  <1> DEFINE v == Head(resultQ).version
  <1>1. v \in Versions /\ resultQ' \in Seq(CompileResults)
    <2>1. Head(resultQ) \in CompileResults
      BY DEF HandleCompileResult, TypeOK
    <2> QED
      BY <2>1 DEF HandleCompileResult, TypeOK, CompileResults
  <1>2. CompileFailed(v) \/ CompileSucceeded(v)
    BY DEF HandleCompileResult
  <1> HIDE DEF v
  <1>3. /\ Keeps(vm, vm') /\ testQ' \in Seq(Versions)
        /\ swap' \in HotSwapStates /\ spawned' \in Binaries
        /\ swap' # SwapIdle => CanRollback(vm')
    <2>1. CASE CompileFailed(v)
      <3> DEFINE a == CleanupWorktree(vm, v)
                 b == MarkPending(a, v)
                 c == RecordFailure(b)
      <3>1. Keeps(vm, a)
        BY <1>1, CleanupWorktreeKeeps
      <3> HIDE DEF a
      <3>2. Keeps(a, b)
        BY <1>1, <3>1, MarkPendingKeeps DEF Keeps
      <3> HIDE DEF b
      <3>3. Keeps(b, c)
        BY <3>2, RecordFailureKeeps DEF Keeps
      <3> HIDE DEF c
      <3>4. vm' = c /\ UNCHANGED <<testQ, swap, spawned>>
        BY <2>1 DEF CompileFailed, a, b, c
      <3>5. Keeps(vm, c)
        BY <3>1, <3>2, <3>3, KeepsTransitive
      <3> QED
        BY <3>4, <3>5 DEF TypeOK, Keeps
    <2>2. CASE CompileSucceeded(v)
      <3> DEFINE a == ClearPending(vm)
                 b == InstallOutput(a, v)
                 c == CleanupWorktree(b, v)
      <3>1. Keeps(vm, a)
        BY ClearPendingKeeps
      <3> HIDE DEF a
      <3>2. Keeps(a, b)
        BY <1>1, <3>1, InstallOutputKeeps DEF Keeps
      <3> HIDE DEF b
      <3>3. Keeps(b, c)
        BY <1>1, <3>2, CleanupWorktreeKeeps DEF Keeps
      <3> HIDE DEF c
      <3>4. \/ vm' = c /\ testQ' = Append(testQ, v) /\ UNCHANGED <<swap, spawned>>
            \/ FinalizeVersionSwitch(c, v) /\ UNCHANGED testQ
        BY <2>2 DEF CompileSucceeded, a, b, c
      <3>5. Keeps(vm, c)
        BY <3>1, <3>2, <3>3, KeepsTransitive
      <3>6. CASE vm' = c /\ testQ' = Append(testQ, v) /\ UNCHANGED <<swap, spawned>>
        BY <1>1, <3>5, <3>6 DEF TypeOK, Keeps
      <3>7. CASE FinalizeVersionSwitch(c, v) /\ UNCHANGED testQ
        <4>1. /\ Keeps(c, vm')
              /\ swap' \in HotSwapStates /\ spawned' \in Binaries
              /\ swap' # SwapIdle => CanRollback(vm')
          BY <1>1, <3>5, <3>7, FinalizeOK DEF TypeOK, Keeps
        <4> QED
          BY <3>5, <3>7, <4>1, KeepsTransitive DEF TypeOK
      <3> QED
        BY <3>4, <3>6, <3>7
    <2> QED
      BY <1>2, <2>1, <2>2
  <1>4. TypeOK'
    BY <1>1, <1>3 DEF HandleCompileResult, TypeOK, Keeps, Sound
  <1> QED
    BY <1>3, <1>4, StepByKeeps

LEMMA JudgeTestOK ==
    ASSUME IInv, JudgeTest
    PROVE  StepOK
  <1> USE DEF IInv
  <1>1. PICK verdict \in Verdicts :
          /\ verdictQ' = Append(verdictQ, [version |-> Head(testQ),
                                           verdict |-> verdict])
          /\ judged' = [b \in Builds |->
                            IF b = vm.binary THEN verdict ELSE judged[b]]
    BY DEF JudgeTest
  <1>2. Head(testQ) \in Versions /\ testQ' \in Seq(Versions)
    BY DEF JudgeTest, TypeOK
  <1>3. verdictQ' \in Seq(TestResults)
    <2>1. [version |-> Head(testQ), verdict |-> verdict] \in TestResults
      BY <1>2 DEF TestResults
    <2> QED
      BY <1>1, <2>1 DEF TypeOK
  <1>4. judged' \in [Builds -> Verdicts \cup {"untested"}]
    BY <1>1 DEF TypeOK
  <1>5. TypeOK' /\ vm' = vm /\ swap' = swap
    BY <1>2, <1>3, <1>4 DEF JudgeTest, TypeOK
  <1> QED
    BY <1>5, KeepsReflexive, StepByKeeps

LEMMA HandleTestResultOK ==
    ASSUME IInv, HandleTestResult
    PROVE  StepOK
  <1> USE DEF IInv
  <1> DEFINE v == Head(verdictQ).version
  <1>1. v \in Versions /\ verdictQ' \in Seq(TestResults)
    <2>1. Head(verdictQ) \in TestResults
      BY DEF HandleTestResult, TypeOK
    <2> QED
      BY <2>1 DEF HandleTestResult, TypeOK, TestResults
  <1>2. \/ FinalizeVersionSwitch(vm, v) /\ UNCHANGED probation
        \/ probation' = v /\ UNCHANGED <<vm, swap, spawned>>
        \/ vm' = RecordFailure(vm) /\ UNCHANGED <<swap, spawned, probation>>
    BY DEF HandleTestResult
  <1> HIDE DEF v
  <1>3. /\ Keeps(vm, vm') /\ probation' \in Versions \cup {None}
        /\ swap' \in HotSwapStates /\ spawned' \in Binaries
        /\ swap' # SwapIdle => CanRollback(vm')
    <2>1. CASE FinalizeVersionSwitch(vm, v) /\ UNCHANGED probation
      BY <1>1, <2>1, FinalizeOK DEF TypeOK
    <2>2. CASE probation' = v /\ UNCHANGED <<vm, swap, spawned>>
      BY <1>1, <2>2, KeepsReflexive DEF TypeOK
    <2>3. CASE vm' = RecordFailure(vm) /\ UNCHANGED <<swap, spawned, probation>>
      BY <2>3, RecordFailureKeeps DEF TypeOK, Keeps
    <2> QED
      BY <1>2, <2>1, <2>2, <2>3
  <1>4. TypeOK'
    BY <1>1, <1>3 DEF HandleTestResult, TypeOK, Keeps, Sound
  <1> QED
    BY <1>3, <1>4, StepByKeeps

LEMMA CheckProbationOK ==
    ASSUME IInv, CheckProbation
    PROVE  StepOK
  <1> USE DEF IInv
  <1>1. probation \in Versions
    BY DEF CheckProbation, TypeOK
  <1>2. testQ' \in Seq(Versions)
    BY <1>1, QueueTypes DEF CheckProbation, TypeOK
  <1>3. TypeOK' /\ vm' = vm /\ swap' = swap
    BY <1>2 DEF CheckProbation, TypeOK
  <1> QED
    BY <1>3, KeepsReflexive, StepByKeeps

-----------------------------------------------------------------------------
(* Hand-over, admin operations, failures.                                  *)

LEMMA SwapHandshakeOK ==
    ASSUME IInv, SwapHandshake
    PROVE  StepOK
  <1> USE DEF IInv
  <1>1. TypeOK' /\ vm' = vm /\ swap' = SwapIdle
    BY DEF SwapHandshake, pipelineVars, TypeOK, HotSwapStates
  <1> QED
    BY <1>1, KeepsReflexive, StepByKeeps

LEMMA SwapTimeoutOK ==
    ASSUME IInv, SwapTimeout
    PROVE  StepOK
  <1> USE DEF IInv
  <1>1. swap # SwapIdle /\ swap' = SwapIdle /\ vm' = Rollback(vm)
    BY DEF SwapTimeout
  <1>2. Keeps(vm, vm')
    BY <1>1, RollbackKeeps
  <1>3. ResolveBinaryForVersion(vm, swap.old) \in Binaries
    <2>1. swap.old \in Versions
      BY <1>1 DEF TypeOK, HotSwapStates
    <2> QED
      BY <2>1, FieldTypes DEF TypeOK, ResolveBinaryForVersion
  <1>4. spawned' \in Binaries
    BY <1>3 DEF SwapTimeout, TypeOK
  <1>5. TypeOK'
    BY <1>1, <1>2, <1>4
       DEF SwapTimeout, pipelineVars, TypeOK, HotSwapStates, Keeps, Sound
  <1> QED
    BY <1>1, <1>2, <1>5, StepByKeeps

LEMMA AdminForceRollbackOK ==
    ASSUME IInv, AdminForceRollback
    PROVE  StepOK
  <1> USE DEF IInv
  <1>1. Keeps(vm, vm') /\ spawned' \in Binaries
    <2>1. CASE CanRollback(vm) /\ AdminReplaced(Rollback(vm))
      <3> DEFINE m == Rollback(vm)
      <3>1. Keeps(vm, m)
        BY <2>1, RollbackKeeps
      <3>2. m.head \in Versions /\ m.archive \in [Versions -> Binaries]
        BY <3>1, FieldTypes DEF Keeps, Sound
      <3>3. /\ vm' = m
            /\ spawned' = ResolveBinaryForVersion(m, m.head) \/ spawned' = spawned
        BY <2>1 DEF AdminReplaced
      <3> HIDE DEF m
      <3> QED
        BY <3>1, <3>2, <3>3 DEF ResolveBinaryForVersion, TypeOK
    <2>2. CASE \E v \in vm.branches : AdminReplaced(SwitchTo(vm, v))
      <3>1. PICK v \in vm.branches : AdminReplaced(SwitchTo(vm, v))
        BY <2>2
      <3> DEFINE m == SwitchTo(vm, v)
      <3>2. v \in Versions
        BY FieldTypes DEF TypeOK
      <3>3. Keeps(vm, m)
        BY <3>2, SwitchToKeeps
      <3>4. m.head \in Versions /\ m.archive \in [Versions -> Binaries]
        BY <3>3, FieldTypes DEF Keeps, Sound
      <3>5. /\ vm' = m
            /\ spawned' = ResolveBinaryForVersion(m, m.head) \/ spawned' = spawned
        BY <3>1 DEF AdminReplaced
      <3> HIDE DEF m
      <3> QED
        BY <3>3, <3>4, <3>5 DEF ResolveBinaryForVersion, TypeOK
    <2> QED
      BY <2>1, <2>2 DEF AdminForceRollback
  <1>2. TypeOK' /\ swap' = swap
    BY <1>1 DEF AdminForceRollback, pipelineVars, TypeOK, Keeps, Sound
  <1> QED
    BY <1>1, <1>2, StepByKeeps

LEMMA AdminCleanupVersionsOK ==
    ASSUME IInv, AdminCleanupVersions
    PROVE  StepOK
  <1> USE DEF IInv
  <1>1. Keeps(vm, vm')
    BY CleanupOldVersionsKeeps DEF AdminCleanupVersions
  <1>2. TypeOK' /\ swap' = swap
    BY <1>1 DEF AdminCleanupVersions, pipelineVars, TypeOK, Keeps, Sound
  <1> QED
    BY <1>1, <1>2, StepByKeeps

LEMMA AdminUnlockVersionOK ==
    ASSUME IInv, AdminUnlockVersion
    PROVE  StepOK
  <1> USE DEF IInv
  <1>1. vm' = Unlock(vm) /\ Sound(vm') /\ (CanRollback(vm) => CanRollback(vm'))
    BY UnlockSound DEF AdminUnlockVersion
  <1>2. TypeOK' /\ swap' = swap
    BY <1>1 DEF AdminUnlockVersion, pipelineVars, TypeOK, Sound
  <1> QED
    BY <1>1, <1>2 DEF StepOK, LockStep

LEMMA ServiceLostOK ==
    ASSUME IInv, NEW s \in Services, ServiceLost(s)
    PROVE  StepOK
  <1> USE DEF IInv
  <1>1. /\ compileQ' = compileQ \/ compileQ' = <<>>
        /\ compiling' = compiling \/ compiling' = None
        /\ testQ' = testQ \/ testQ' = <<>>
        /\ registered' \subseteq registered
    BY DEF ServiceLost
  <1>2. /\ compileQ' \in Seq(Versions) /\ testQ' \in Seq(Versions)
        /\ compiling' \in Versions \cup {None}
        /\ registered' \subseteq Services
    <2>1. <<>> \in Seq(Versions)
      OBVIOUS
    <2> QED
      BY <1>1, <2>1 DEF TypeOK
  <1>3. TypeOK' /\ vm' = vm /\ swap' = swap
    BY <1>2 DEF ServiceLost, TypeOK
  <1> QED
    BY <1>3, KeepsReflexive, StepByKeeps

LEMMA ServiceRegistersOK ==
    ASSUME IInv, NEW s \in Services, ServiceRegisters(s)
    PROVE  StepOK
  <1> USE DEF IInv
  <1>1. TypeOK' /\ vm' = vm /\ swap' = swap
    BY DEF ServiceRegisters, pipelineVars, TypeOK
  <1> QED
    BY <1>1, KeepsReflexive, StepByKeeps

LEMMA RestartOK ==
    ASSUME IInv, Restart
    PROVE  StepOK
  <1> USE DEF IInv
  <1>1. vm' = RestoreState(vm) /\ swap' = SwapIdle
    BY DEF Restart
  <1>2. /\ Sound(vm')
        /\ \/ vm.disk.pending_version \notin vm.branches \cup {None}
           \/ vm'.mem.locked = vm.mem.locked
    BY <1>1, RestoreStateSound
  <1>3. spawned' \in Binaries
    BY FieldTypes DEF Restart, ResolveBinary, TypeOK
  <1>4. TypeOK'
    BY <1>2, <1>3 DEF Restart, TypeOK, HotSwapStates, Sound
  <1> QED
    BY <1>1, <1>2, <1>4 DEF StepOK, LockStep, Locked

-----------------------------------------------------------------------------
(* The theorems.                                                           *)

LEMMA StutterOK ==
    ASSUME IInv, UNCHANGED vars
    PROVE  StepOK
  <1> USE DEF IInv
  <1>1. TypeOK' /\ vm' = vm /\ swap' = swap
    BY DEF vars, pipelineVars, TypeOK
  <1> QED
    BY <1>1, KeepsReflexive, StepByKeeps

LEMMA NextOK ==
    ASSUME IInv, [Next]_vars
    PROVE  StepOK
  <1>1. CASE SubmitUpdate
    BY <1>1, SubmitUpdateOK
  <1>2. CASE CompilerReceive
    BY <1>2, CompilerReceiveOK
  <1>3. CASE CompilerFinish
    BY <1>3, CompilerFinishOK
  <1>4. CASE HandleCompileResult
    BY <1>4, HandleCompileResultOK
  <1>5. CASE JudgeTest
    BY <1>5, JudgeTestOK
  <1>6. CASE HandleTestResult
    BY <1>6, HandleTestResultOK
  <1>7. CASE CheckProbation
    BY <1>7, CheckProbationOK
  <1>8. CASE SwapHandshake
    BY <1>8, SwapHandshakeOK
  <1>9. CASE SwapTimeout
    BY <1>9, SwapTimeoutOK
  <1>10. CASE AdminForceRollback
    BY <1>10, AdminForceRollbackOK
  <1>11. CASE AdminCleanupVersions
    BY <1>11, AdminCleanupVersionsOK
  <1>12. CASE AdminUnlockVersion
    BY <1>12, AdminUnlockVersionOK
  <1>13. CASE \E s \in Services : ServiceLost(s) \/ ServiceRegisters(s)
    BY <1>13, ServiceLostOK, ServiceRegistersOK
  <1>14. CASE Restart
    BY <1>14, RestartOK
  <1>15. CASE UNCHANGED vars
    BY <1>15, StutterOK
  <1> QED
    BY <1>1, <1>2, <1>3, <1>4, <1>5, <1>6, <1>7, <1>8, <1>9, <1>10, <1>11,
       <1>12, <1>13, <1>14, <1>15 DEF Next

LEMMA Invariance == Spec => []IInv
  <1>1. Init => IInv
    BY InitOK
  <1>2. IInv /\ [Next]_vars => IInv'
    BY NextOK DEF StepOK
  <1> QED
    BY <1>1, <1>2, PTL DEF Spec

\* Type correctness: every field of the manager, every queue and every
\* observation keeps its type through all handlers.
THEOREM TypeCorrect == Spec => []TypeOK
  <1>1. IInv => TypeOK
    BY DEF IInv
  <1> QED
    BY <1>1, Invariance, PTL

\* The live version and the rollback target always have a branch, a worktree
\* is never the one checked out, and a hand-over can be rolled back, however
\* updates, cleanups, rollbacks and restarts interleave.
THEOREM RepoSafety == Spec => []RepoSafe
  <1>1. IInv => RepoSafe
    BY DEF IInv, Sound, RepoSound, RepoSafe
  <1> QED
    BY <1>1, Invariance, PTL

\* The lockout holds at the threshold, in memory and on disk.
THEOREM Lockout == Spec => []LockedAtThreshold
  <1>1. IInv => LockedAtThreshold
    BY DEF IInv, Sound, LockSound, LockedAtThreshold
  <1> QED
    BY <1>1, Invariance, PTL

\* version_state.json is what a restart needs, between any two handlers.
THEOREM RestartFaithful == Spec => []RestartRestores
  <1>1. IInv => RestartRestores
    BY DEF IInv, Sound, DiskSound, RestartRestores
  <1> QED
    BY <1>1, Invariance, PTL

\* Only the admin's unlock lifts the lock, or a restart that finds the
\* pending version's branch gone.
THEOREM LockKept == Spec => LockHolds
  <1>1. IInv /\ [Next]_vars =>
          [ vm.mem.locked /\ ~vm'.mem.locked =>
              \/ vm' = Unlock(vm)
              \/ /\ vm' = RestoreState(vm)
                 /\ vm.disk.pending_version \notin vm.branches \cup {None} ]_vars
    BY NextOK DEF StepOK, LockStep, Locked
  <1> QED
    BY <1>1, Invariance, PTL DEF Spec, LockHolds

=============================================================================
