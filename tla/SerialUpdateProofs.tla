------------------------- MODULE SerialUpdateProofs -------------------------
(***************************************************************************)
(* What one update at a time buys (Overlap = FALSE): no worktree leaks,    *)
(* the pending version can always be built again, the hand-over agrees     *)
(* with what git has checked out, and only a build that the judge passed   *)
(* is switched to.  The runs of the serial pipeline show this on small     *)
(* instances, and runs with overlapping work show it lost; here it is      *)
(* proved for every bound.                                                 *)
(***************************************************************************)
EXTENDS UpdatePipelineProofs

-----------------------------------------------------------------------------
(* What the manager's methods change, field by field.                      *)

\* What git and the file system hold for the pipeline.
Files(m) == <<m.branches, m.head, m.rollback_ref, m.worktrees, m.output, m.binary, m.archive>>

\* The methods that change memory and persist it.
LEMMA MemoryFields ==
    ASSUME NEW m \in VersionManager, NEW v \in Versions
    PROVE  /\ Files(ReusePending(m)) = Files(m)
           /\ Pending(ReusePending(m)) = Pending(m)
           /\ ReusePending(m).disk = ReusePending(m).mem
           /\ Files(MarkPending(m, v)) = Files(m)
           /\ Pending(MarkPending(m, v)) = v
           /\ MarkPending(m, v).disk = MarkPending(m, v).mem
           /\ Files(ClearPending(m)) = Files(m)
           /\ Pending(ClearPending(m)) = None
           /\ ClearPending(m).disk = ClearPending(m).mem
           /\ Files(RecordFailure(m)) = Files(m)
           /\ Pending(RecordFailure(m)) = Pending(m)
           /\ RecordFailure(m).disk = RecordFailure(m).mem
           /\ Files(Unlock(m)) = Files(m)
           /\ Pending(Unlock(m)) = Pending(m)
           /\ Unlock(m).disk = Unlock(m).mem
  <1>1. m.mem \in PersistedState
    BY FieldTypes
  <1> QED
    BY <1>1 DEF ReusePending, MarkPending, ClearPending, RecordFailure, Unlock,
                PersistState, VersionManager, PersistedState, Pending, Files

\* A new version gets its branch and becomes the pending one, on disk too.
LEMMA AllocateFields ==
    ASSUME NEW m \in VersionManager, NEW v \in Versions
    PROVE  LET n == AllocateVersion(m, v)
           IN  /\ n.branches = m.branches \cup {v}
               /\ n.head = m.head /\ n.rollback_ref = m.rollback_ref
               /\ n.worktrees = m.worktrees
               /\ Pending(n) = v /\ n.disk = n.mem
  <1>1. m.mem \in PersistedState
    BY FieldTypes
  <1> QED
    BY <1>1 DEF AllocateVersion, PersistState, VersionManager, PersistedState, Pending

\* Committing the source adds at most the worktree of that version.
LEMMA CommitFields ==
    ASSUME NEW m \in VersionManager, NEW v \in Versions, NEW copied
    PROVE  LET n == CommitVersionSource(m, v, copied)
           IN  /\ n.branches = m.branches
               /\ n.head = m.head /\ n.rollback_ref = m.rollback_ref
               /\ n.worktrees \subseteq m.worktrees \cup {v}
               /\ n.mem = m.mem /\ n.disk = m.disk
  BY CleanupWorktreeFields DEF CommitVersionSource, VersionManager

\* A switch moves HEAD and the rollback ref and frees the branch.
LEMMA SwitchFields ==
    ASSUME NEW m \in VersionManager, NEW v \in Versions
    PROVE  LET n == SwitchTo(m, v)
           IN  /\ n.branches = m.branches
               /\ n.head = v /\ n.rollback_ref = m.head
               /\ n.worktrees = m.worktrees \ {v}
               /\ Pending(n) = Pending(m) /\ n.disk = m.disk
               /\ n.archive = m.archive
  <1>1. m.mem \in PersistedState
    BY FieldTypes
  <1> QED
    BY <1>1 DEF SwitchTo, CleanupWorktree, VersionManager, PersistedState, Pending

\* A switch yields a manager.
LEMMA SwitchType ==
    ASSUME NEW m \in VersionManager, NEW v \in Versions
    PROVE  SwitchTo(m, v) \in VersionManager
  <1>1. m.mem \in PersistedState /\ m.binary \in Binaries /\ m.head \in Versions
    BY FieldTypes
  <1>2. [m.mem EXCEPT !.consecutive_failures = 0] \in PersistedState
    BY <1>1 DEF PersistedState
  <1> QED
    BY <1>1, <1>2 DEF SwitchTo, CleanupWorktree, VersionManager, Binaries

\* A rollback moves HEAD to the rollback ref, which stays as it is.
LEMMA RollbackFields ==
    ASSUME NEW m \in VersionManager
    PROVE  LET n == Rollback(m)
           IN  /\ n.branches = m.branches
               /\ n.head = m.rollback_ref /\ n.rollback_ref = m.rollback_ref
               /\ n.worktrees = m.worktrees \ {m.rollback_ref}
               /\ n.mem = m.mem /\ n.disk = m.disk
  BY DEF Rollback, CleanupWorktree, VersionManager

\* The build of v is installed, and archived as it is installed.
LEMMA InstallFields ==
    ASSUME NEW m \in VersionManager, NEW v \in Versions
    PROVE  LET n == InstallOutput(m, v)
           IN  /\ n.branches = m.branches
               /\ n.head = m.head /\ n.rollback_ref = m.rollback_ref
               /\ n.worktrees = m.worktrees
               /\ n.mem = m.mem /\ n.disk = m.disk
               /\ m.output[v] \in Builds => n.binary = m.output[v] /\ n.archive[v] = n.binary
  <1>1. ASSUME m.output[v] # NoBuild
        PROVE  LET n == InstallOutput(m, v)
               IN  /\ n.branches = m.branches
                   /\ n.head = m.head /\ n.rollback_ref = m.rollback_ref
                   /\ n.worktrees = m.worktrees
                   /\ n.mem = m.mem /\ n.disk = m.disk
                   /\ n.binary = m.output[v] /\ n.archive[v] = n.binary
    <2> DEFINE b == m.output[v]
               i == InstallBinary(m, b)
               written == [i EXCEPT !.archive[v] = b]
               pruned == Pruned(written, v)
               kept == [w \in Versions |-> IF w \in pruned THEN NoBuild
                                           ELSE written.archive[w]]
    <2>1. i \in VersionManager /\ i.binary = b
      BY FieldTypes DEF InstallBinary, VersionManager
    <2>2. written.archive[v] = b
      BY <2>1 DEF VersionManager
    <2>3. v \notin pruned
      BY DEF Pruned
    <2>4. InstallOutput(m, v) = [written EXCEPT !.archive = kept]
      BY <1>1, <2>1 DEF InstallOutput, ArchiveBinary
    <2> HIDE DEF pruned
    <2>5. kept[v] = b
      BY <2>2, <2>3
    <2> HIDE DEF kept
    <2> QED
      BY <2>1, <2>4, <2>5 DEF InstallBinary, VersionManager
  <1>2. m.output[v] = NoBuild => InstallOutput(m, v) = m
    BY DEF InstallOutput
  <1>3. NoBuild \notin Builds
    BY VersionAssumption DEF NoBuild, Builds
  <1> QED
    BY <1>1, <1>2, <1>3

\* A switch that is made, refused or taken back: what it leaves alone.
LEMMA FinalizeFields ==
    ASSUME NEW m \in VersionManager, NEW v \in Versions,
           FinalizeVersionSwitch(m, v)
    PROVE  /\ vm'.branches = m.branches
           /\ vm'.worktrees \subseteq m.worktrees
           /\ Pending(vm') = Pending(m) /\ vm'.disk = m.disk
           /\ \/ vm'.head = m.head /\ vm'.rollback_ref = m.rollback_ref
              \/ vm'.head \in {v, m.head} /\ vm'.rollback_ref = m.head
           /\ vm'.head # m.head => v \in m.branches
           /\ \/ UNCHANGED <<swap, spawned>>
              \/ /\ swap' = [new |-> v, old |-> m.head]
                 /\ vm'.head = v /\ vm'.rollback_ref = m.head
                 /\ spawned' = m.archive[v]
  <1> DEFINE n == SwitchTo(m, v)
  <1>1. /\ n \in VersionManager => Rollback(n).branches = n.branches
                /\ Rollback(n).head = n.rollback_ref
                /\ Rollback(n).rollback_ref = n.rollback_ref
                /\ Rollback(n).worktrees \subseteq n.worktrees
                /\ Rollback(n).mem = n.mem /\ Rollback(n).disk = n.disk
    BY RollbackFields
  <1>2. /\ n.branches = m.branches
        /\ n.head = v /\ n.rollback_ref = m.head
        /\ n.worktrees \subseteq m.worktrees
        /\ Pending(n) = Pending(m) /\ n.disk = m.disk
        /\ n.archive = m.archive
    BY SwitchFields
  <1>3. n \in VersionManager
    BY SwitchType
  <1>4. \/ vm' = m /\ UNCHANGED <<swap, spawned>>
        \/ v \in m.branches /\ vm' = n /\ UNCHANGED <<swap, spawned>>
        \/ /\ v \in m.branches
           /\ vm' = n /\ swap' = [new |-> v, old |-> m.head] /\ spawned' = n.archive[v]
        \/ v \in m.branches /\ vm' = Rollback(n) /\ UNCHANGED <<swap, spawned>>
    BY DEF FinalizeVersionSwitch, ResolveBinaryForVersion
  <1> HIDE DEF n
  <1> QED
    BY <1>1, <1>2, <1>3, <1>4 DEF Pending

-----------------------------------------------------------------------------
(* One update at a time: the version being compiled is the pending one.    *)

CompilesPending ==
    /\ compileQ # <<>> =>
          compileQ = <<Pending(vm)>> /\ compiling = None /\ resultQ = <<>>
    /\ compiling # None => compiling = Pending(vm) /\ resultQ = <<>>
    /\ resultQ # <<>> => Len(resultQ) = 1 /\ Head(resultQ).version = Pending(vm)

OneAttempt ==
    /\ NoWorktreeLeak
    /\ CompilesPending
    /\ Pending(vm) \in {None, vm.disk.pending_version}

\* A step that leaves the compiler and the pending version alone.
Elsewhere ==
    /\ UNCHANGED <<compileQ, compiling, resultQ>>
    /\ vm'.worktrees \subseteq vm.worktrees
    /\ Pending(vm') = Pending(vm)
    /\ vm'.disk.pending_version \in {vm.disk.pending_version, Pending(vm)}

\* Such a step keeps the attempt as it is.
LEMMA ElsewhereOK ==
    ASSUME OneAttempt, Elsewhere
    PROVE  OneAttempt'
  BY DEF OneAttempt, Elsewhere, CompilesPending, NoWorktreeLeak

\* Without a pending version there is no worktree.
LEMMA NoneLeft ==
    ASSUME IInv, OneAttempt, Pending(vm) = None
    PROVE  vm.worktrees = {}
  BY FieldTypes, VersionAssumption DEF IInv, TypeOK, OneAttempt, NoWorktreeLeak, Versions

\* A submission makes one version pending, the one it was or a new number,
\* and at most adds its worktree and its request.
LEMMA SubmitFields ==
    ASSUME IInv, SubmitUpdate
    PROVE  \E v \in Versions :
              /\ compileQ' \in {compileQ, Append(compileQ, v)}
              /\ vm'.worktrees \subseteq vm.worktrees \cup {v}
              /\ Pending(vm') = v /\ vm'.disk = vm'.mem
              /\ vm'.head = vm.head /\ vm'.rollback_ref = vm.rollback_ref
              /\ \/ Pending(vm) = v /\ vm'.branches = vm.branches
                 \/ /\ Pending(vm) = None /\ vm'.branches = vm.branches \cup {v}
                    /\ \A b \in vm.branches : b < v
  <1>1. vm \in VersionManager
    BY DEF IInv, TypeOK
  <1>2. PICK copied \in BOOLEAN :
          \/ /\ Pending(vm) # None
             /\ Dispatch(ReusePending(vm), Pending(vm), copied)
          \/ /\ Pending(vm) = None
             /\ \E v \in Versions :
                  /\ IsNextVersion(vm, v)
                  /\ Dispatch(AllocateVersion(vm, v), v, copied)
    BY DEF SubmitUpdate
  <1>3. CASE /\ Pending(vm) # None
             /\ Dispatch(ReusePending(vm), Pending(vm), copied)
    <2> DEFINE m == ReusePending(vm)
               v == Pending(vm)
    <2>1. v \in Versions
      BY <1>1, <1>3, FieldTypes, PersistedTypes DEF Pending
    <2>2. m \in VersionManager
      BY <1>1, ReusePendingKeeps DEF IInv, Keeps, Sound
    <2>3. Files(m) = Files(vm) /\ Pending(m) = v /\ m.disk = m.mem
      BY <1>1, <2>1, MemoryFields
    <2>4. vm' = CommitVersionSource(m, v, copied)
          /\ compileQ' \in {compileQ, Append(compileQ, v)}
      BY <1>3 DEF Dispatch
    <2> HIDE DEF m, v
    <2> QED
      BY <2>1, <2>2, <2>3, <2>4, CommitFields DEF Files, Pending, v
  <1>4. CASE /\ Pending(vm) = None
             /\ \E v \in Versions :
                  /\ IsNextVersion(vm, v)
                  /\ Dispatch(AllocateVersion(vm, v), v, copied)
    <2>1. PICK v \in Versions :
                  /\ IsNextVersion(vm, v)
                  /\ Dispatch(AllocateVersion(vm, v), v, copied)
      BY <1>4
    <2> DEFINE m == AllocateVersion(vm, v)
    <2>2. m \in VersionManager
      BY AllocateVersionKeeps DEF IInv, Keeps, Sound
    <2>3. /\ m.branches = vm.branches \cup {v}
          /\ m.head = vm.head /\ m.rollback_ref = vm.rollback_ref
          /\ m.worktrees = vm.worktrees
          /\ Pending(m) = v /\ m.disk = m.mem
      BY <1>1, AllocateFields
    <2>4. vm' = CommitVersionSource(m, v, copied)
          /\ compileQ' \in {compileQ, Append(compileQ, v)}
      BY <2>1 DEF Dispatch
    <2> HIDE DEF m
    <2> QED
      BY <1>4, <2>1, <2>2, <2>3, <2>4, CommitFields DEF Pending, IsNextVersion
  <1> QED
    BY <1>2, <1>3, <1>4

\* A submission finds the pipeline empty, and its version becomes the pending
\* one before it is sent.
LEMMA SubmitOneAttempt ==
    ASSUME ~Overlap, IInv, OneAttempt, SubmitUpdate
    PROVE  OneAttempt'
  <1>1. /\ compileQ = <<>> /\ compiling = None /\ resultQ = <<>>
        /\ UNCHANGED <<compiling, resultQ>>
    BY DEF SubmitUpdate, MayStart, PipelineEmpty
  <1>2. PICK v \in Versions :
              /\ compileQ' \in {compileQ, Append(compileQ, v)}
              /\ vm'.worktrees \subseteq vm.worktrees \cup {v}
              /\ Pending(vm') = v /\ vm'.disk = vm'.mem
              /\ Pending(vm) \in {v, None}
    BY SubmitFields
  <1>3. vm.worktrees \subseteq {v}
    BY <1>2, NoneLeft DEF OneAttempt, NoWorktreeLeak
  <1>4. compileQ' \in {<<>>, <<v>>}
    BY <1>1, <1>2
  <1> QED
    BY <1>1, <1>2, <1>3, <1>4 DEF OneAttempt, CompilesPending, NoWorktreeLeak, Pending

\* The compiler's steps move the version along.
LEMMA CompilerOneAttempt ==
    ASSUME IInv, OneAttempt, CompilerReceive \/ CompilerFinish
    PROVE  OneAttempt'
  <1>1. CASE CompilerReceive
    <2>1. /\ compileQ = <<Pending(vm)>> /\ compiling = None /\ resultQ = <<>>
          /\ compileQ' = Tail(compileQ) /\ compiling' = Head(compileQ)
          /\ resultQ' = resultQ /\ vm' = vm
      BY <1>1 DEF CompilerReceive, OneAttempt, CompilesPending
    <2>2. compileQ' = <<>> /\ compiling' = Pending(vm)
      BY <2>1
    <2> QED
      BY <2>1, <2>2 DEF OneAttempt, CompilesPending, NoWorktreeLeak
  <1>2. CASE CompilerFinish
    <2>1. PICK success \in BOOLEAN :
            /\ resultQ' = Append(resultQ, [version |-> compiling, success |-> success])
            /\ vm' = IF success THEN [vm EXCEPT !.output[compiling] = builds + 1]
                     ELSE vm
      BY <1>2 DEF CompilerFinish
    <2>2. /\ compileQ = <<>> /\ compiling = Pending(vm) /\ resultQ = <<>>
          /\ compileQ' = compileQ /\ compiling' = None
      BY <1>2 DEF CompilerFinish, OneAttempt, CompilesPending
    <2>3. /\ vm'.worktrees = vm.worktrees /\ vm'.mem = vm.mem /\ vm'.disk = vm.disk
      BY <2>1 DEF IInv, TypeOK, VersionManager
    <2>4. Len(resultQ') = 1 /\ Head(resultQ').version = Pending(vm)
      BY <2>1, <2>2
    <2> QED
      BY <2>2, <2>3, <2>4 DEF OneAttempt, CompilesPending, NoWorktreeLeak, Pending
  <1> QED
    BY <1>1, <1>2

\* The failure of a compilation, and its success: no worktree is left.
LEMMA CompileFailedFields ==
    ASSUME Sound(vm), NEW v \in Versions, CompileFailed(v)
    PROVE  /\ vm'.worktrees = vm.worktrees \ {v}
           /\ Pending(vm') = v /\ vm'.disk = vm'.mem
           /\ vm'.branches = vm.branches /\ vm'.head = vm.head
           /\ vm'.rollback_ref = vm.rollback_ref
  <1> DEFINE a == CleanupWorktree(vm, v)
             b == MarkPending(a, v)
             c == RecordFailure(b)
  <1>1. vm' = c
    BY DEF CompileFailed
  <1>2. /\ a \in VersionManager /\ a.worktrees = vm.worktrees \ {v}
        /\ a.branches = vm.branches /\ a.head = vm.head
        /\ a.rollback_ref = vm.rollback_ref
    BY CleanupWorktreeFields DEF Sound
  <1>3. Sound(a)
    BY CleanupWorktreeKeeps DEF Keeps
  <1> HIDE DEF a
  <1>4. b \in VersionManager
    BY <1>3, MarkPendingKeeps DEF Keeps, Sound
  <1>5. Files(b) = Files(a) /\ Pending(b) = v
    BY <1>2, MemoryFields
  <1> HIDE DEF b
  <1>6. Files(c) = Files(b) /\ Pending(c) = Pending(b) /\ c.disk = c.mem
    BY <1>4, MemoryFields
  <1> QED
    BY <1>1, <1>2, <1>5, <1>6 DEF Files

\* The manager that CompileSucceeded has before it asks the judge.
Ready(v) == CleanupWorktree(InstallOutput(ClearPending(vm), v), v)

\* By then the worktree is gone, nothing is pending, and the binary
\* installed is the one archived for v, if the compiler's output was there.
LEMMA ReadyFields ==
    ASSUME Sound(vm), NEW v \in Versions
    PROVE  /\ Sound(Ready(v))
           /\ Ready(v).worktrees = vm.worktrees \ {v}
           /\ Pending(Ready(v)) = None /\ Ready(v).disk = Ready(v).mem
           /\ Ready(v).branches = vm.branches /\ Ready(v).head = vm.head
           /\ Ready(v).rollback_ref = vm.rollback_ref
           /\ vm.output[v] \in Builds =>
                Ready(v).binary \in Builds /\ Ready(v).archive[v] = Ready(v).binary
  <1> DEFINE a == ClearPending(vm)
             b == InstallOutput(a, v)
             c == CleanupWorktree(b, v)
  <1>1. Sound(a)
    BY ClearPendingKeeps DEF Keeps
  <1>2. Files(a) = Files(vm) /\ Pending(a) = None /\ a.disk = a.mem
    BY MemoryFields DEF Sound
  <1> HIDE DEF a
  <1>3. Sound(b)
    BY <1>1, InstallOutputKeeps DEF Keeps
  <1>4. /\ b.branches = a.branches
        /\ b.head = a.head /\ b.rollback_ref = a.rollback_ref
        /\ b.worktrees = a.worktrees
        /\ b.mem = a.mem /\ b.disk = a.disk
        /\ a.output[v] \in Builds => b.binary = a.output[v] /\ b.archive[v] = b.binary
    BY <1>1, InstallFields DEF Sound
  <1> HIDE DEF b
  <1>5. Sound(c)
    BY <1>3, CleanupWorktreeKeeps DEF Keeps
  <1>6. /\ c.worktrees = b.worktrees \ {v} /\ c.mem = b.mem /\ c.disk = b.disk
        /\ c.branches = b.branches /\ c.head = b.head
        /\ c.rollback_ref = b.rollback_ref
        /\ c.binary = b.binary /\ c.archive = b.archive
    BY <1>3 DEF Sound, CleanupWorktree, VersionManager
  <1>7. Ready(v) = c
    BY DEF Ready, a, b
  <1> HIDE DEF c
  <1> QED
    BY <1>2, <1>4, <1>5, <1>6, <1>7 DEF Files, Pending

\* The successful compilation: handed to the judge, or switched to untested.
LEMMA SucceededFields ==
    ASSUME Sound(vm), NEW v \in Versions, CompileSucceeded(v)
    PROVE  /\ vm'.worktrees \subseteq vm.worktrees \ {v}
           /\ Pending(vm') = None /\ vm'.disk.pending_version = None
           /\ vm'.branches = vm.branches
           /\ \/ vm'.head = vm.head /\ vm'.rollback_ref = vm.rollback_ref
              \/ vm'.head \in {v, vm.head} /\ vm'.rollback_ref = vm.head
           /\ \/ testQ' = Append(testQ, v) /\ vm' = Ready(v) /\ UNCHANGED <<swap, spawned>>
              \/ /\ "judge" \notin registered
                 /\ UNCHANGED testQ
                 /\ \/ UNCHANGED <<swap, spawned>>
                    \/ /\ swap' = [new |-> v, old |-> vm.head]
                       /\ vm'.head = v /\ vm'.rollback_ref = vm.head
  <1>1. \/ /\ vm' = Ready(v)
           /\ testQ' = Append(testQ, v)
           /\ UNCHANGED <<swap, spawned>>
        \/ /\ "judge" \notin registered
           /\ FinalizeVersionSwitch(Ready(v), v)
           /\ UNCHANGED testQ
    BY DEF CompileSucceeded, Ready
  <1>2. Ready(v).disk.pending_version = None /\ Ready(v) \in VersionManager
    BY ReadyFields DEF Pending, Sound
  <1> QED
    BY <1>1, <1>2, ReadyFields, FinalizeFields

\* A result, good or bad, is the pending version's and removes its worktree.
LEMMA ResultOneAttempt ==
    ASSUME IInv, OneAttempt, HandleCompileResult
    PROVE  OneAttempt'
  <1> DEFINE v == Head(resultQ).version
  <1>1. v = Pending(vm) /\ compileQ = <<>> /\ compiling = None /\ Len(resultQ) = 1
    BY DEF HandleCompileResult, OneAttempt, CompilesPending
  <1>2. v \in Versions
    <2>1. Head(resultQ) \in CompileResults
      BY DEF HandleCompileResult, IInv, TypeOK
    <2> QED
      BY <2>1 DEF CompileResults
  <1>3. resultQ' = <<>> /\ UNCHANGED <<compileQ, compiling>>
    BY <1>1 DEF HandleCompileResult, IInv, TypeOK
  <1>4. CompileFailed(v) \/ CompileSucceeded(v)
    BY DEF HandleCompileResult
  <1> HIDE DEF v
  <1>5. vm'.worktrees = {} /\ Pending(vm') \in {None, vm'.disk.pending_version}
    BY <1>1, <1>2, <1>4, CompileFailedFields, SucceededFields
       DEF IInv, OneAttempt, NoWorktreeLeak, Pending
  <1> QED
    BY <1>1, <1>3, <1>5 DEF OneAttempt, CompilesPending, NoWorktreeLeak

\* A restart forgets the pending version only if its branch, and so its
\* worktree, is gone.
LEMMA RestartOneAttempt ==
    ASSUME IInv, OneAttempt, Restart
    PROVE  OneAttempt'
  <1>1. /\ compileQ' = <<>> /\ compiling' = None /\ resultQ' = <<>>
        /\ vm' = RestoreState(vm)
    BY DEF Restart
  <1>2. /\ vm'.disk = vm.disk /\ vm'.worktrees = vm.worktrees
        /\ vm'.mem = IF vm.disk.pending_version \in vm.branches \cup {None}
                     THEN vm.disk ELSE DefaultState
    BY <1>1 DEF IInv, TypeOK, RestoreState, VersionManager
  <1>3. CASE vm.disk.pending_version \in vm.branches \cup {None}
    BY <1>1, <1>2, <1>3 DEF IInv, Sound, DiskSound, OneAttempt, CompilesPending,
       NoWorktreeLeak, Pending
  <1>4. CASE vm.disk.pending_version \notin vm.branches \cup {None}
    <2>1. vm.worktrees \subseteq vm.branches /\ vm.worktrees \subseteq {Pending(vm)}
      BY DEF IInv, Sound, RepoSound, OneAttempt, NoWorktreeLeak
    <2>2. vm.worktrees = {}
      BY <1>4, <2>1, NoneLeft DEF OneAttempt
    <2> QED
      BY <1>1, <1>2, <1>4, <2>2
         DEF OneAttempt, CompilesPending, NoWorktreeLeak, Pending, DefaultState
  <1> QED
    BY <1>3, <1>4

\* The other steps, a verdict and a switch among them, are elsewhere.
LEMMA OtherOneAttempt ==
    ASSUME IInv, OneAttempt,
           \/ JudgeTest \/ HandleTestResult \/ CheckProbation
           \/ SwapHandshake \/ SwapTimeout \/ AdminForceRollback
           \/ AdminCleanupVersions \/ AdminUnlockVersion
           \/ \E s \in Services : ServiceRegisters(s)
           \/ UNCHANGED vars
    PROVE  OneAttempt'
  <1>1. CASE vm' = vm /\ UNCHANGED <<compileQ, compiling, resultQ>>
    BY <1>1, ElsewhereOK DEF Elsewhere
  <1>2. CASE JudgeTest \/ CheckProbation \/ SwapHandshake \/ UNCHANGED vars
             \/ \E s \in Services : ServiceRegisters(s)
    BY <1>1, <1>2 DEF JudgeTest, CheckProbation, SwapHandshake, ServiceRegisters,
       vars, pipelineVars
  <1>3. CASE HandleTestResult
    <2> DEFINE v == Head(verdictQ).version
    <2>1. v \in Versions
      <3>1. Head(verdictQ) \in TestResults
        BY <1>3 DEF HandleTestResult, IInv, TypeOK
      <3> QED
        BY <3>1 DEF TestResults
    <2>2. FinalizeVersionSwitch(vm, v) \/ vm' = vm \/ vm' = RecordFailure(vm)
      BY <1>3 DEF HandleTestResult
    <2> HIDE DEF v
    <2>3. Elsewhere
      BY <1>3, <2>1, <2>2, FinalizeFields, MemoryFields
         DEF HandleTestResult, Elsewhere, IInv, TypeOK, Files, Pending
    <2> QED
      BY <2>3, ElsewhereOK
  <1>4. CASE SwapTimeout
    BY <1>4, RollbackFields, ElsewhereOK
       DEF SwapTimeout, Elsewhere, pipelineVars, IInv, TypeOK, Pending
  <1>5. CASE AdminForceRollback
    <2>1. PICK v \in Versions : vm' \in {Rollback(vm), SwitchTo(vm, v)}
      BY <1>5, FieldTypes DEF AdminForceRollback, AdminReplaced, IInv, TypeOK, CanRollback
    <2> QED
      BY <1>5, <2>1, RollbackFields, SwitchFields, ElsewhereOK
         DEF AdminForceRollback, Elsewhere, pipelineVars, IInv, TypeOK, Pending
  <1>6. CASE AdminCleanupVersions
    <2>1. /\ vm'.worktrees = vm.worktrees /\ vm'.mem = vm.mem /\ vm'.disk = vm.disk
      BY <1>6 DEF AdminCleanupVersions, CleanupOldVersions, IInv, TypeOK, VersionManager
    <2> QED
      BY <1>6, <2>1, ElsewhereOK DEF AdminCleanupVersions, Elsewhere, pipelineVars, Pending
  <1>7. CASE AdminUnlockVersion
    BY <1>7, MemoryFields, ElsewhereOK, VersionAssumption
       DEF AdminUnlockVersion, Elsewhere, pipelineVars, IInv, TypeOK, Files, Pending, Versions
  <1> QED
    BY <1>2, <1>3, <1>4, <1>5, <1>6, <1>7

\* A lost compiler forgets its work.
LEMMA ServiceLostOneAttempt ==
    ASSUME OneAttempt, NEW s \in Services, ServiceLost(s)
    PROVE  OneAttempt'
  BY DEF ServiceLost, OneAttempt, CompilesPending, NoWorktreeLeak

\* Every step, one update at a time.
LEMMA OneAttemptStep ==
    ASSUME ~Overlap, IInv, OneAttempt, [Next]_vars
    PROVE  OneAttempt'
  BY SubmitOneAttempt, CompilerOneAttempt, ResultOneAttempt, RestartOneAttempt,
     OtherOneAttempt, ServiceLostOneAttempt DEF Next

\* At first nothing is pending.
LEMMA OneAttemptInit == Init => OneAttempt
  BY DEF Init, FreshManager, DefaultState, OneAttempt, NoWorktreeLeak, CompilesPending, Pending

\* The invariant of the serial pipeline.
LEMMA OneAttemptAlways ==
    ASSUME ~Overlap
    PROVE  Spec => []OneAttempt
  <1>1. IInv /\ OneAttempt /\ [Next]_vars => OneAttempt'
    BY OneAttemptStep
  <1> QED
    BY <1>1, OneAttemptInit, Invariance, PTL DEF Spec

\* With one update at a time, no build directory is left behind: whatever
\* fails or restarts, a worktree exists only for the pending version, whose
\* next attempt replaces it.
THEOREM NoLeak ==
    ASSUME ~Overlap
    PROVE  Spec => []NoWorktreeLeak
  <1>1. OneAttempt => NoWorktreeLeak
    BY DEF OneAttempt
  <1> QED
    BY <1>1, OneAttemptAlways, PTL

-----------------------------------------------------------------------------
(* The pending version is one that was never switched to.                  *)

\* A version that left the compiler with a build: it is behind the pending one.
Compiled == vm.branches \ {Pending(vm)}
CompiledResults == [version : Compiled, verdict : Verdicts]

TestedCompiled ==
    /\ testQ \in Seq(Compiled)
    /\ verdictQ \in Seq(CompiledResults)
    /\ probation \in Compiled \cup {None}

PendingFresh ==
    /\ Pending(vm) # None => Pending(vm) \in vm.branches \ {vm.head, vm.rollback_ref}
    /\ vm.disk.pending_version = Pending(vm)

\* The version a submission would build was never switched to.
NeverSwitched == PendingFresh /\ TestedCompiled

\* The operator rolls back and unlocks, and does nothing else.
RecoveryOnly == "force_version" \notin AdminOps /\ "cleanup" \notin AdminOps

\* Sequences over a set are sequences over a wider one; what they lose and
\* gain stays in it.
LEMMA SeqWider ==
    ASSUME NEW S, NEW T, S \subseteq T
    PROVE  /\ Seq(S) \subseteq Seq(T)
           /\ \A q \in Seq(S), x \in T : Append(q, x) \in Seq(T)
           /\ \A q \in Seq(S) : q # <<>> => Tail(q) \in Seq(T) /\ Head(q) \in T
           /\ <<>> \in Seq(T)
  <1>1. Seq(S) \subseteq Seq(T)
    <2>1. SUFFICES ASSUME NEW q \in Seq(S) PROVE q \in Seq(T)
      OBVIOUS
    <2>2. q \in [1..Len(q) -> T] /\ Len(q) \in Nat
      <3>1. q \in [1..Len(q) -> S] /\ Len(q) \in Nat
        OBVIOUS
      <3> QED
        BY <3>1
    <2> QED
      BY <2>2
  <1> QED
    BY <1>1

\* Messages move along, are lost, or name a version that is behind.
LEMMA TestedMoves ==
    ASSUME TestedCompiled, Compiled \subseteq Compiled',
           \/ testQ' \in {testQ, <<>>}
           \/ testQ # <<>> /\ testQ' = Tail(testQ)
           \/ \E v \in Compiled' : testQ' = Append(testQ, v),
           \/ verdictQ' \in {verdictQ, <<>>}
           \/ verdictQ # <<>> /\ verdictQ' = Tail(verdictQ)
           \/ \E v \in Compiled', verdict \in Verdicts :
                 verdictQ' = Append(verdictQ, [version |-> v, verdict |-> verdict]),
           probation' \in {probation, None} \cup Compiled'
    PROVE  TestedCompiled'
  <1>1. testQ' \in Seq(Compiled')
    BY SeqWider DEF TestedCompiled
  <1>2. CompiledResults \subseteq CompiledResults'
    BY DEF CompiledResults
  <1>3. \A v \in Compiled', verdict \in Verdicts :
          [version |-> v, verdict |-> verdict] \in CompiledResults'
    BY DEF CompiledResults
  <1>4. \/ verdictQ' \in {verdictQ, <<>>}
        \/ verdictQ # <<>> /\ verdictQ' = Tail(verdictQ)
        \/ \E x \in CompiledResults' : verdictQ' = Append(verdictQ, x)
    BY <1>3
  <1>5. verdictQ' \in Seq(CompiledResults')
    BY <1>2, <1>4, SeqWider DEF TestedCompiled
  <1> QED
    BY <1>1, <1>5 DEF TestedCompiled

\* A step that keeps the branches and the pending version and does not check
\* the latter out.
KeepsFresh ==
    /\ vm'.branches = vm.branches
    /\ Pending(vm') = Pending(vm)
    /\ vm'.disk.pending_version \in {vm.disk.pending_version, Pending(vm)}
    /\ Pending(vm) # None => vm'.head # Pending(vm) /\ vm'.rollback_ref # Pending(vm)

\* Such a step keeps the pending version fresh and the versions behind it.
LEMMA KeepsFreshOK ==
    ASSUME NeverSwitched, KeepsFresh
    PROVE  PendingFresh' /\ Compiled' = Compiled
  BY DEF NeverSwitched, PendingFresh, KeepsFresh, Compiled, Pending

\* The manager is left alone.
LEMMA SameManager ==
    ASSUME NeverSwitched, vm' = vm
    PROVE  KeepsFresh
  BY DEF NeverSwitched, PendingFresh, KeepsFresh, Pending

\* A submission takes the pending version again, or a number no branch has.
LEMMA SubmitFresh ==
    ASSUME ~Overlap, IInv, NeverSwitched, SubmitUpdate
    PROVE  NeverSwitched'
  <1>1. PICK v \in Versions :
              /\ Pending(vm') = v /\ vm'.disk = vm'.mem
              /\ vm'.head = vm.head /\ vm'.rollback_ref = vm.rollback_ref
              /\ \/ Pending(vm) = v /\ vm'.branches = vm.branches
                 \/ /\ Pending(vm) = None /\ vm'.branches = vm.branches \cup {v}
                    /\ \A b \in vm.branches : b < v
    BY SubmitFields
  <1>2. /\ vm.head \in vm.branches /\ vm.rollback_ref \in vm.branches \cup {None}
        /\ vm.branches \subseteq Versions
    BY FieldTypes DEF IInv, Sound, RepoSound
  <1>3. v # None /\ v \in Int
    BY VersionAssumption DEF Versions
  <1>4. Pending(vm) = None => v \notin vm.branches
    <2>1. \A b \in Versions : b < v => b # v
      BY <1>3 DEF Versions
    <2> QED
      BY <1>1, <1>2, <1>3, <2>1
  <1>5. PendingFresh'
    BY <1>1, <1>2, <1>3, <1>4 DEF NeverSwitched, PendingFresh, Pending
  <1>6. testQ' = <<>> /\ verdictQ' = <<>> /\ probation' = probation
    BY DEF SubmitUpdate, MayStart, PipelineEmpty
  <1>7. Compiled \subseteq Compiled'
    BY <1>1, <1>3, <1>4 DEF Compiled
  <1>8. TestedCompiled'
    BY <1>6, <1>7, TestedMoves DEF NeverSwitched
  <1> QED
    BY <1>5, <1>8 DEF NeverSwitched

\* A success leaves no version pending; a failure keeps it pending.
LEMMA ResultFresh ==
    ASSUME IInv, OneAttempt, NeverSwitched, HandleCompileResult
    PROVE  NeverSwitched'
  <1> DEFINE v == Head(resultQ).version
  <1>1. v = Pending(vm) /\ v \in Versions
    <2>1. Head(resultQ) \in CompileResults
      BY DEF HandleCompileResult, IInv, TypeOK
    <2> QED
      BY <2>1 DEF CompileResults, HandleCompileResult, OneAttempt, CompilesPending
  <1>2. CompileFailed(v) \/ CompileSucceeded(v)
    BY DEF HandleCompileResult
  <1>3. UNCHANGED <<verdictQ, probation>>
    BY DEF HandleCompileResult
  <1> HIDE DEF v
  <1>4. v # None
    BY <1>1, VersionAssumption DEF Versions
  <1>5. v \in vm.branches
    BY <1>1, <1>4 DEF NeverSwitched, PendingFresh
  <1>6. CASE CompileFailed(v)
    <2>1. /\ Pending(vm') = v /\ vm'.disk = vm'.mem
          /\ vm'.branches = vm.branches /\ vm'.head = vm.head
          /\ vm'.rollback_ref = vm.rollback_ref
      BY <1>1, <1>6, CompileFailedFields DEF IInv
    <2>2. KeepsFresh
      BY <1>1, <1>4, <2>1 DEF KeepsFresh, NeverSwitched, PendingFresh, Pending
    <2>3. testQ' = testQ
      BY <1>6 DEF CompileFailed
    <2> QED
      BY <1>3, <2>2, <2>3, KeepsFreshOK, TestedMoves DEF NeverSwitched
  <1>7. CASE CompileSucceeded(v)
    <2>1. /\ Pending(vm') = None /\ vm'.disk.pending_version = None
          /\ vm'.branches = vm.branches
          /\ testQ' \in {testQ, Append(testQ, v)}
      BY <1>1, <1>7, SucceededFields DEF IInv
    <2>2. Compiled \subseteq Compiled' /\ v \in Compiled'
      <3>1. None \notin Versions /\ vm.branches \subseteq Versions
        BY FieldTypes, VersionAssumption DEF IInv, Sound, Versions
      <3> QED
        BY <1>4, <1>5, <2>1, <3>1 DEF Compiled
    <2>3. PendingFresh'
      BY <2>1 DEF PendingFresh
    <2> QED
      BY <1>3, <2>1, <2>2, <2>3, TestedMoves DEF NeverSwitched
  <1> QED
    BY <1>2, <1>6, <1>7

\* A verdict switches to a version behind the pending one.
LEMMA VerdictFresh ==
    ASSUME IInv, NeverSwitched, HandleTestResult
    PROVE  NeverSwitched'
  <1> DEFINE v == Head(verdictQ).version
  <1>1. v \in Compiled /\ Compiled \subseteq Versions
    <2>1. Head(verdictQ) \in CompiledResults
      BY SeqWider DEF HandleTestResult, NeverSwitched, TestedCompiled
    <2> QED
      BY <2>1, FieldTypes DEF CompiledResults, Compiled, IInv, TypeOK
  <1>2. /\ \/ FinalizeVersionSwitch(vm, v) /\ probation' = probation
           \/ probation' = v /\ vm' = vm
           \/ vm' = RecordFailure(vm) /\ probation' = probation
        /\ verdictQ # <<>> /\ verdictQ' = Tail(verdictQ) /\ testQ' = testQ
    BY DEF HandleTestResult
  <1> HIDE DEF v
  <1>3. KeepsFresh
    BY <1>1, <1>2, FinalizeFields, MemoryFields, SameManager
       DEF KeepsFresh, NeverSwitched, PendingFresh, IInv, TypeOK, Files, Pending, Compiled
  <1> QED
    BY <1>1, <1>2, <1>3, KeepsFreshOK, TestedMoves DEF NeverSwitched

\* The judge answers for the version it was asked about.
LEMMA JudgeFresh ==
    ASSUME NeverSwitched, JudgeTest
    PROVE  NeverSwitched'
  <1>1. PICK verdict \in Verdicts :
           verdictQ' = Append(verdictQ, [version |-> Head(testQ), verdict |-> verdict])
    BY DEF JudgeTest
  <1>2. Head(testQ) \in Compiled
    BY DEF JudgeTest, NeverSwitched, TestedCompiled
  <1> QED
    BY <1>1, <1>2, SameManager, KeepsFreshOK, TestedMoves DEF NeverSwitched, JudgeTest

\* A restart reads the pending version back: its branch is still there.
LEMMA RestartFresh ==
    ASSUME IInv, NeverSwitched, Restart
    PROVE  NeverSwitched'
  <1>1. vm' = RestoreState(vm)
    BY DEF Restart
  <1>2. vm.disk.pending_version \in vm.branches \cup {None}
    BY DEF NeverSwitched, PendingFresh
  <1>3. /\ vm'.disk = vm.disk /\ vm'.branches = vm.branches
        /\ vm'.head = vm.head /\ vm'.rollback_ref = vm.rollback_ref
        /\ vm'.mem = vm.disk
    BY <1>1, <1>2 DEF IInv, TypeOK, RestoreState, VersionManager
  <1>4. KeepsFresh
    BY <1>3 DEF NeverSwitched, PendingFresh, KeepsFresh, Pending
  <1> QED
    BY <1>4, KeepsFreshOK, TestedMoves DEF NeverSwitched, Restart

\* The other steps: a rollback goes to the rollback ref, never the pending
\* version.
LEMMA OtherFresh ==
    ASSUME RecoveryOnly, IInv, OneAttempt, NeverSwitched,
           \/ CompilerReceive \/ CompilerFinish \/ CheckProbation
           \/ SwapHandshake \/ SwapTimeout \/ AdminForceRollback
           \/ AdminCleanupVersions \/ AdminUnlockVersion
           \/ \E s \in Services : ServiceLost(s) \/ ServiceRegisters(s)
           \/ UNCHANGED vars
    PROVE  NeverSwitched'
  <1>1. /\ \/ testQ' \in {testQ, <<>>}
           \/ probation # None /\ testQ' = Append(testQ, probation)
        /\ verdictQ' = verdictQ /\ probation' \in {probation, None}
    BY DEF CompilerReceive, CompilerFinish, CheckProbation, SwapHandshake, SwapTimeout,
       AdminForceRollback, AdminCleanupVersions, AdminUnlockVersion, ServiceLost,
       ServiceRegisters, vars, pipelineVars
  <1>2. KeepsFresh
    <2>1. CASE CompilerReceive \/ CheckProbation \/ SwapHandshake \/ UNCHANGED vars
               \/ \E s \in Services : ServiceLost(s) \/ ServiceRegisters(s)
      BY <2>1, SameManager DEF CompilerReceive, CheckProbation, SwapHandshake,
         ServiceLost, ServiceRegisters, vars
    <2>2. CASE CompilerFinish
      <3>1. \/ vm' = vm
            \/ vm' = [vm EXCEPT !.output[compiling] = builds + 1]
        BY <2>2 DEF CompilerFinish
      <3>2. /\ vm'.branches = vm.branches /\ vm'.mem = vm.mem /\ vm'.disk = vm.disk
            /\ vm'.head = vm.head /\ vm'.rollback_ref = vm.rollback_ref
        BY <3>1 DEF IInv, TypeOK, VersionManager
      <3> QED
        BY <3>2 DEF KeepsFresh, NeverSwitched, PendingFresh, Pending
    <2>3. CASE SwapTimeout
      BY <2>3, RollbackFields
         DEF SwapTimeout, KeepsFresh, NeverSwitched, PendingFresh, Pending, IInv, TypeOK
    <2>4. CASE AdminForceRollback
      <3>1. vm' = Rollback(vm)
        BY <2>4 DEF AdminForceRollback, AdminReplaced, RecoveryOnly
      <3> QED
        BY <3>1, RollbackFields DEF KeepsFresh, NeverSwitched, PendingFresh, Pending, IInv, TypeOK
    <2>5. CASE AdminUnlockVersion
      BY <2>5, MemoryFields, VersionAssumption
         DEF AdminUnlockVersion, KeepsFresh, NeverSwitched, PendingFresh, Pending,
             IInv, TypeOK, Files, Versions
    <2>6. ~AdminCleanupVersions
      BY DEF AdminCleanupVersions, RecoveryOnly
    <2> QED
      BY <2>1, <2>2, <2>3, <2>4, <2>5, <2>6
  <1>3. probation # None => probation \in Compiled
    BY DEF NeverSwitched, TestedCompiled
  <1> QED
    BY <1>1, <1>2, <1>3, KeepsFreshOK, TestedMoves DEF NeverSwitched

\* Every step, for an operator that only recovers.
LEMMA FreshStep ==
    ASSUME ~Overlap, RecoveryOnly, IInv, OneAttempt, NeverSwitched, [Next]_vars
    PROVE  NeverSwitched'
  BY SubmitFresh, ResultFresh, VerdictFresh, JudgeFresh, RestartFresh, OtherFresh DEF Next

\* At first there is only V0, and nothing is pending.
LEMMA FreshInit == Init => NeverSwitched
  BY DEF Init, FreshManager, DefaultState, NeverSwitched, PendingFresh, TestedCompiled, Pending

\* With one update at a time and an operator who only rolls back and unlocks,
\* the pending version has a branch that is not checked out: the submission
\* that reuses it gets its worktree, after any failures, rollbacks, restarts.
THEOREM PendingCanBuild ==
    ASSUME ~Overlap, RecoveryOnly
    PROVE  Spec => []PendingBuildable
  <1>1. IInv /\ OneAttempt /\ NeverSwitched /\ [Next]_vars => NeverSwitched'
    BY FreshStep
  <1>2. NeverSwitched => PendingBuildable
    BY DEF NeverSwitched, PendingFresh, PendingBuildable, CanAddWorktree
  <1> QED
    BY <1>1, <1>2, FreshInit, Invariance, OneAttemptAlways, PTL DEF Spec

-----------------------------------------------------------------------------
(* The stages of an update.                                                *)

\* The stages of an update exclude each other.
OneStage ==
    /\ compileQ # <<>> \/ compiling # None \/ resultQ # <<>> =>
          testQ = <<>> /\ verdictQ = <<>> /\ swap = SwapIdle
    /\ testQ # <<>> => Len(testQ) = 1 /\ verdictQ = <<>> /\ swap = SwapIdle
    /\ verdictQ # <<>> => Len(verdictQ) = 1 /\ swap = SwapIdle
    /\ probation = None

\* What each stage has made sure of: the output of a successful build is
\* there, the binary tested is the one archived for its version, and a pass
\* is the verdict on the archived binary.
Gates ==
    /\ resultQ # <<>> /\ Head(resultQ).success =>
          vm.output[Head(resultQ).version] \in Builds
    /\ testQ # <<>> => vm.archive[Head(testQ)] = vm.binary /\ vm.binary \in Builds
    /\ verdictQ # <<>> /\ Head(verdictQ).verdict = "pass" =>
          Passed(vm.archive[Head(verdictQ).version])

StagesInv == OneStage /\ SwapMatchesRepo /\ Gates

\* Between two updates.
LEMMA BetweenUpdates ==
    ASSUME PipelineEmpty', probation' = None, swap' = SwapIdle \/ SwapMatchesRepo'
    PROVE  StagesInv'
  BY DEF PipelineEmpty, StagesInv, OneStage, SwapMatchesRepo, Gates

\* The only message of a queue.
LEMMA SingleHead ==
    ASSUME NEW S, NEW q \in Seq(S), Len(q) = 1, NEW rest, rest = Tail(q)
    PROVE  rest = <<>> /\ Head(q) \in S
  <1>1. q # <<>>
    OBVIOUS
  <1> QED
    BY <1>1

\* Submissions, and the operator's rollback and cleanup, wait for the end.
LEMMA StartStages ==
    ASSUME ~Overlap, StagesInv,
           SubmitUpdate \/ AdminForceRollback \/ AdminCleanupVersions
    PROVE  StagesInv'
  <1>1. /\ PipelineEmpty /\ swap = SwapIdle /\ swap' = swap
        /\ probation = None /\ probation' = None
        /\ UNCHANGED <<compiling, resultQ, testQ, verdictQ>>
    BY DEF SubmitUpdate, AdminForceRollback, AdminCleanupVersions, MayStart,
       pipelineVars, StagesInv, OneStage
  <1> QED
    BY <1>1 DEF PipelineEmpty, StagesInv, OneStage, SwapMatchesRepo, Gates

\* The compiler leaves its build in the worktree before it reports.
LEMMA CompilerStages ==
    ASSUME IInv, OneAttempt, StagesInv, CompilerReceive \/ CompilerFinish
    PROVE  StagesInv'
  <1>1. /\ testQ = <<>> /\ verdictQ = <<>> /\ swap = SwapIdle /\ probation = None
        /\ UNCHANGED <<testQ, verdictQ, swap, probation>>
        /\ resultQ = <<>>
    BY DEF CompilerReceive, CompilerFinish, StagesInv, OneStage, OneAttempt, CompilesPending
  <1>2. resultQ' # <<>> /\ Head(resultQ').success =>
          vm'.output[Head(resultQ').version] \in Builds
    <2>1. CASE CompilerReceive
      BY <1>1, <2>1 DEF CompilerReceive, OneAttempt, CompilesPending
    <2>2. CASE CompilerFinish
      <3>1. PICK success \in BOOLEAN :
              /\ success => builds < MaxBuilds
              /\ resultQ' = Append(resultQ, [version |-> compiling, success |-> success])
              /\ vm' = IF success THEN [vm EXCEPT !.output[compiling] = builds + 1]
                       ELSE vm
        BY <2>2 DEF CompilerFinish
      <3>2. Head(resultQ') = [version |-> compiling, success |-> success]
        BY <1>1, <3>1
      <3>3. compiling \in Versions
        BY <2>2 DEF CompilerFinish, IInv, TypeOK
      <3>4. success => vm'.output[compiling] = builds + 1
        BY <3>1, <3>3 DEF IInv, TypeOK, VersionManager
      <3>5. success => builds + 1 \in Builds
        BY <3>1, VersionAssumption DEF IInv, TypeOK, Builds
      <3> QED
        BY <3>2, <3>4, <3>5
    <2> QED
      BY <2>1, <2>2
  <1> QED
    BY <1>1, <1>2 DEF StagesInv, OneStage, SwapMatchesRepo, Gates

\* The result handler installs and archives the build it sends to the judge.
LEMMA ResultStages ==
    ASSUME IInv, OneAttempt, StagesInv, HandleCompileResult
    PROVE  StagesInv'
  <1> DEFINE v == Head(resultQ).version
  <1>1. /\ v = Pending(vm) /\ compileQ = <<>> /\ compiling = None
        /\ Len(resultQ) = 1
    BY DEF HandleCompileResult, OneAttempt, CompilesPending
  <1>2. v \in Versions /\ resultQ' = <<>>
    <2>1. Head(resultQ) \in CompileResults /\ resultQ' = <<>>
      BY <1>1, SingleHead DEF HandleCompileResult, IInv, TypeOK
    <2> QED
      BY <2>1 DEF CompileResults
  <1>3. /\ testQ = <<>> /\ verdictQ = <<>> /\ swap = SwapIdle /\ probation = None
        /\ UNCHANGED <<compileQ, compiling, verdictQ, probation>>
    BY DEF HandleCompileResult, StagesInv, OneStage
  <1>4. \/ CompileFailed(v)
        \/ CompileSucceeded(v) /\ vm.output[v] \in Builds
    BY DEF HandleCompileResult, StagesInv, Gates
  <1> HIDE DEF v
  <1>5. CASE CompileFailed(v)
    <2>1. PipelineEmpty' /\ swap' = SwapIdle
      BY <1>1, <1>2, <1>3, <1>5 DEF CompileFailed, PipelineEmpty
    <2> QED
      BY <1>3, <2>1, BetweenUpdates
  <1>6. CASE CompileSucceeded(v) /\ vm.output[v] \in Builds
    <2>1. \/ testQ' = Append(testQ, v) /\ vm' = Ready(v) /\ swap' = swap
          \/ /\ testQ' = testQ
             /\ \/ swap' = swap
                \/ /\ swap' = [new |-> v, old |-> vm.head]
                   /\ vm'.head = v /\ vm'.rollback_ref = vm.head
      BY <1>2, <1>6, SucceededFields DEF IInv
    <2>2. CASE testQ' = Append(testQ, v) /\ vm' = Ready(v) /\ swap' = swap
      <3>1. vm'.binary \in Builds /\ vm'.archive[v] = vm'.binary
        BY <1>2, <1>6, <2>2, ReadyFields DEF IInv
      <3>2. Len(testQ') = 1 /\ Head(testQ') = v
        BY <1>3, <2>2
      <3> QED
        BY <1>1, <1>2, <1>3, <2>2, <3>1, <3>2
           DEF StagesInv, OneStage, SwapMatchesRepo, Gates
    <2>3. CASE testQ' = testQ /\ swap' = swap
      <3>1. PipelineEmpty'
        BY <1>1, <1>2, <1>3, <2>3 DEF PipelineEmpty
      <3> QED
        BY <1>3, <2>3, <3>1, BetweenUpdates
    <2>4. CASE /\ testQ' = testQ /\ swap' = [new |-> v, old |-> vm.head]
               /\ vm'.head = v /\ vm'.rollback_ref = vm.head
      <3>1. PipelineEmpty' /\ SwapMatchesRepo'
        BY <1>1, <1>2, <1>3, <2>4 DEF PipelineEmpty, SwapMatchesRepo
      <3> QED
        BY <1>3, <3>1, BetweenUpdates
    <2> QED
      BY <2>1, <2>2, <2>3, <2>4
  <1> QED
    BY <1>4, <1>5, <1>6

\* The judge's verdict is on the archived build of the version it names.
LEMMA JudgeStages ==
    ASSUME IInv, StagesInv, JudgeTest
    PROVE  StagesInv'
  <1> DEFINE v == Head(testQ)
  <1>1. /\ Len(testQ) = 1 /\ verdictQ = <<>> /\ swap = SwapIdle /\ probation = None
        /\ compileQ = <<>> /\ compiling = None /\ resultQ = <<>>
        /\ vm.archive[v] = vm.binary /\ vm.binary \in Builds
    BY DEF JudgeTest, StagesInv, OneStage, Gates
  <1>2. testQ' = <<>>
    BY <1>1, SingleHead DEF JudgeTest, IInv, TypeOK
  <1>3. PICK verdict \in Verdicts :
          /\ verdictQ' = Append(verdictQ, [version |-> v, verdict |-> verdict])
          /\ judged' = [b \in Builds |-> IF b = vm.binary THEN verdict ELSE judged[b]]
    BY DEF JudgeTest
  <1>4. Len(verdictQ') = 1 /\ Head(verdictQ') = [version |-> v, verdict |-> verdict]
    BY <1>1, <1>3
  <1>5. UNCHANGED <<vm, compileQ, compiling, resultQ, swap, probation>>
    BY DEF JudgeTest
  <1> HIDE DEF v
  <1>6. verdict = "pass" => judged'[vm.archive[v]] = "pass"
    BY <1>1, <1>3
  <1>7. OneStage' /\ SwapMatchesRepo'
    BY <1>1, <1>2, <1>4, <1>5 DEF OneStage, SwapMatchesRepo
  <1>8. Gates'
    BY <1>1, <1>2, <1>4, <1>5, <1>6 DEF Gates, Passed
  <1> QED
    BY <1>7, <1>8 DEF StagesInv

\* The switch that a verdict allows is of a version whose archived binary passed.
LEMMA VerdictFields ==
    ASSUME "soft_fail" \notin Verdicts, IInv, StagesInv, HandleTestResult
    PROVE  /\ PipelineEmpty' /\ swap = SwapIdle /\ probation' = None
           /\ \/ swap' = swap
              \/ SwapMatchesRepo' /\ Passed(spawned')
  <1> DEFINE v == Head(verdictQ).version
             verdict == Head(verdictQ).verdict
  <1>1. /\ Len(verdictQ) = 1 /\ testQ = <<>> /\ swap = SwapIdle /\ probation = None
        /\ compileQ = <<>> /\ compiling = None /\ resultQ = <<>>
        /\ verdict = "pass" => Passed(vm.archive[v])
    BY DEF HandleTestResult, StagesInv, OneStage, Gates
  <1>2. verdictQ' = <<>> /\ v \in Versions /\ verdict \in Verdicts
    <2>1. Head(verdictQ) \in TestResults /\ verdictQ' = <<>>
      BY <1>1, SingleHead DEF HandleTestResult, IInv, TypeOK
    <2> QED
      BY <2>1 DEF TestResults
  <1>3. /\ UNCHANGED <<compileQ, compiling, resultQ, testQ>>
        /\ \/ verdict = "pass" /\ FinalizeVersionSwitch(vm, v) /\ probation' = probation
           \/ verdict = "soft_fail"
           \/ swap' = swap /\ probation' = probation
    BY DEF HandleTestResult
  <1> HIDE DEF v, verdict
  <1>4. PipelineEmpty' /\ probation' = None
    BY <1>1, <1>2, <1>3 DEF PipelineEmpty
  <1>5. CASE verdict = "pass" /\ FinalizeVersionSwitch(vm, v)
    BY <1>1, <1>2, <1>4, <1>5, FinalizeFields DEF SwapMatchesRepo, IInv, TypeOK
  <1> QED
    BY <1>1, <1>2, <1>3, <1>4, <1>5

\* The handler of the verdict ends the update or begins the hand-over.
LEMMA VerdictStages ==
    ASSUME "soft_fail" \notin Verdicts, IInv, StagesInv, HandleTestResult
    PROVE  StagesInv'
  BY VerdictFields, BetweenUpdates

\* A hand-over ends, or Boot stops: nothing is left in the pipeline.
LEMMA EndStages ==
    ASSUME StagesInv, SwapHandshake \/ SwapTimeout \/ Restart
    PROVE  StagesInv'
  <1>1. PipelineEmpty' /\ probation' = None /\ swap' = SwapIdle
    BY DEF SwapHandshake, SwapTimeout, Restart, pipelineVars, PipelineEmpty,
       StagesInv, OneStage
  <1> QED
    BY <1>1, BetweenUpdates

\* Services come and go, the operator unlocks: the gates are unaffected.
LEMMA OtherStages ==
    ASSUME IInv, StagesInv,
           \/ CheckProbation \/ AdminUnlockVersion
           \/ \E s \in Services : ServiceLost(s) \/ ServiceRegisters(s)
           \/ UNCHANGED vars
    PROVE  StagesInv'
  <1>1. /\ vm' = vm \/ vm' = Unlock(vm)
        /\ UNCHANGED <<swap, probation, judged, resultQ, verdictQ>>
        /\ compileQ' \in {compileQ, <<>>} /\ compiling' \in {compiling, None}
        /\ testQ' \in {testQ, <<>>}
    BY DEF CheckProbation, AdminUnlockVersion, ServiceLost, ServiceRegisters, vars,
       pipelineVars, StagesInv, OneStage
  <1>2. Files(vm') = Files(vm)
    <2>1. 0 \in Versions
      BY VersionAssumption DEF Versions
    <2> QED
      BY <1>1, <2>1, MemoryFields DEF IInv, TypeOK
  <1> QED
    BY <1>1, <1>2 DEF Files, StagesInv, OneStage, SwapMatchesRepo, Gates, Passed

\* Every step, one update at a time and without soft failures.
LEMMA StagesStep ==
    ASSUME ~Overlap, "soft_fail" \notin Verdicts,
           IInv, OneAttempt, StagesInv, [Next]_vars
    PROVE  StagesInv'
  BY StartStages, CompilerStages, ResultStages, JudgeStages, VerdictStages,
     EndStages, OtherStages DEF Next

\* At first no update is under way.
LEMMA StagesInit == Init => StagesInv
  BY DEF Init, StagesInv, OneStage, SwapMatchesRepo, Gates

\* The stages as an invariant.
LEMMA StagesAlways ==
    ASSUME ~Overlap, "soft_fail" \notin Verdicts
    PROVE  Spec => []StagesInv
  <1>1. IInv /\ OneAttempt /\ StagesInv /\ [Next]_vars => StagesInv'
    BY StagesStep
  <1> QED
    BY <1>1, StagesInit, Invariance, OneAttemptAlways, PTL DEF Spec

\* With one update at a time and a judge that, as shipped, never fails
\* softly, the hand-over under way is the last switch git knows: the version
\* awaited is checked out, the one to go back to is the rollback ref.
THEOREM SwapAgrees ==
    ASSUME ~Overlap, "soft_fail" \notin Verdicts
    PROVE  Spec => []SwapMatchesRepo
  <1>1. StagesInv => SwapMatchesRepo
    BY DEF StagesInv
  <1> QED
    BY <1>1, StagesAlways, PTL

\* A hand-over begins with a verdict, or without a judge.
LEMMA GateStep ==
    ASSUME "soft_fail" \notin Verdicts, IInv, StagesInv, [Next]_vars
    PROVE  [ swap' # swap /\ swap' # SwapIdle =>
                Passed(spawned') \/ "judge" \notin registered ]_vars
  <1>1. CASE HandleTestResult
    BY <1>1, VerdictFields
  <1>2. CASE HandleCompileResult
    <2>1. Head(resultQ).version \in Versions
      <3>1. Head(resultQ) \in CompileResults
        BY <1>2 DEF HandleCompileResult, IInv, TypeOK
      <3> QED
        BY <3>1 DEF CompileResults
    <2>2. \/ CompileFailed(Head(resultQ).version)
          \/ CompileSucceeded(Head(resultQ).version)
      BY <1>2 DEF HandleCompileResult
    <2> QED
      BY <2>1, <2>2, SucceededFields DEF CompileFailed, IInv
  <1> QED
    BY <1>1, <1>2 DEF Next, SubmitUpdate, CompilerReceive, CompilerFinish, JudgeTest,
       CheckProbation, SwapHandshake, SwapTimeout, AdminForceRollback,
       AdminCleanupVersions, AdminUnlockVersion, ServiceLost, ServiceRegisters,
       Restart, vars

\* Under the same conditions every version switch starts a build that the
\* judge passed, unless no judge is registered.
THEOREM PassedOnly ==
    ASSUME ~Overlap, "soft_fail" \notin Verdicts
    PROVE  Spec => OnlyPassedBuildsSwitch
  <1>1. IInv /\ StagesInv /\ [Next]_vars =>
          [ swap' # swap /\ swap' # SwapIdle =>
                Passed(spawned') \/ "judge" \notin registered ]_vars
    BY GateStep
  <1> QED
    BY <1>1, Invariance, StagesAlways, PTL DEF Spec, OnlyPassedBuildsSwitch

=============================================================================
