--------------------------- MODULE UpdatePipeline ---------------------------
(***************************************************************************)
(* The update pipeline of Boot (crates/boot/src/microkernel.rs) with the   *)
(* compiler and judge services: submission, compilation, verdict, version  *)
(* switch, hand-over to a new peripheral, rollback, the admin operations   *)
(* and the restart of Boot.                                                *)
(*                                                                         *)
(* Boot handles one message at a time, so each handler is one step that    *)
(* composes the operators of VersionOps in the order of the code.  The     *)
(* hand-over is kept to what it does to versions and binaries; its         *)
(* processes and messages are the subject of HotSwap.                      *)
(***************************************************************************)
EXTENDS VersionOps, Sequences

CONSTANTS
    Verdicts,      \* verdicts the judge can reach
    AdminOps,      \* the admin operations an operator uses
    Overlap,       \* may work start while other work is in flight?
    MaxAttempts,   \* bound on the attempt counter of a pending version
    FailureCap,    \* bound on the failure counter
    MaxQueue       \* bound on the length of each queue

AllVerdicts == {"pass", "soft_fail", "hard_fail"}
AllAdminOps == {"rollback", "force_version", "cleanup", "unlock"}

ASSUME PipelineAssumption ==
    /\ Verdicts \subseteq AllVerdicts
    /\ AdminOps \subseteq AllAdminOps
    /\ Overlap \in BOOLEAN
    /\ MaxAttempts \in Nat
    /\ FailureCap \in Nat
    /\ MaxQueue \in Nat

VARIABLES
    vm,           \* the version manager
    registered,   \* services present in the router's peer table
    compileQ,     \* CompileRequests on their way to the compiler
    compiling,    \* version the compiler is building
    resultQ,      \* CompileResults on their way to Boot
    testQ,        \* TestRequests on their way to the judge
    verdictQ,     \* TestResults on their way to Boot
    swap,         \* Microkernel::hot_swap
    probation,    \* version in Microkernel::probation
    spawned,      \* build the last started peripheral runs
    builds,       \* builds finished so far
    judged        \* observation: the judge's last verdict on each build

pipelineVars == <<compileQ, compiling, resultQ, testQ, verdictQ>>
vars == <<vm, registered, pipelineVars, swap, probation, spawned, builds, judged>>

Services == {"compiler", "judge"}
SwapIdle == [new |-> None, old |-> None]
HotSwapStates == {SwapIdle} \cup [new : Versions, old : Versions]
CompileResults == [version : Versions, success : BOOLEAN]
TestResults == [version : Versions, verdict : Verdicts]

TypeOK ==
    /\ vm \in VersionManager
    /\ registered \subseteq Services
    /\ compileQ \in Seq(Versions)
    /\ compiling \in Versions \cup {None}
    /\ resultQ \in Seq(CompileResults)
    /\ testQ \in Seq(Versions)
    /\ verdictQ \in Seq(TestResults)
    /\ swap \in HotSwapStates
    /\ probation \in Versions \cup {None}
    /\ spawned \in Binaries
    /\ builds \in 0..MaxBuilds
    /\ judged \in [Builds -> Verdicts \cup {"untested"}]

Init ==
    /\ vm = FreshManager
    /\ registered = Services
    /\ compileQ = <<>> /\ compiling = None /\ resultQ = <<>>
    /\ testQ = <<>> /\ verdictQ = <<>>
    /\ swap = SwapIdle
    /\ probation = None
    /\ spawned = NoBuild
    /\ builds = 0
    /\ judged = [b \in Builds |-> "untested"]

PipelineEmpty ==
    /\ compileQ = <<>> /\ compiling = None /\ resultQ = <<>>
    /\ testQ = <<>> /\ verdictQ = <<>>

\* When new work may begin.  With Overlap, at any time: the agent gave up
\* waiting (agent.rs) or was itself replaced while its update was in flight.
MayStart == Overlap \/ (PipelineEmpty /\ swap = SwapIdle)

-----------------------------------------------------------------------------
(* SubmitUpdate.                                                           *)

\* The tail of the handler once version v is reserved in manager m: commit
\* the submitted source (git may refuse the branch, the source may be
\* unreadable) and send a CompileRequest if the compiler is there to take it.
\* A refusal leaves the version pending and, if committed, its worktree.
Dispatch(m, v, copied) ==
    LET committed == CommitVersionSource(m, v, copied)
    IN  /\ vm' = committed
        /\ compileQ' = IF v \in committed.worktrees /\ "compiler" \in registered
                       THEN Append(compileQ, v) ELSE compileQ

\* A locked manager refuses every submission, which changes nothing.
SubmitUpdate ==
    /\ MayStart
    /\ ~Locked(vm)
    /\ Len(compileQ) < MaxQueue
    /\ \E copied \in BOOLEAN :
        \/ /\ Pending(vm) # None
           /\ vm.mem.pending_attempt < MaxAttempts
           /\ Dispatch(ReusePending(vm), Pending(vm), copied)
        \/ /\ Pending(vm) = None
           /\ \E v \in Versions :
                /\ IsNextVersion(vm, v)
                /\ Dispatch(AllocateVersion(vm, v), v, copied)
    /\ UNCHANGED <<registered, compiling, resultQ, testQ, verdictQ, swap,
                   probation, spawned, builds, judged>>

-----------------------------------------------------------------------------
(* The compiler service.                                                   *)

\* A request that arrives during a build is answered with a failure.
CompilerReceive ==
    /\ compileQ # <<>>
    /\ compileQ' = Tail(compileQ)
    /\ \/ /\ compiling = None
          /\ compiling' = Head(compileQ)
          /\ UNCHANGED resultQ
       \/ /\ compiling # None
          /\ Len(resultQ) < MaxQueue
          /\ resultQ' = Append(resultQ, [version |-> Head(compileQ),
                                         success |-> FALSE])
          /\ UNCHANGED compiling
    /\ UNCHANGED <<vm, registered, testQ, verdictQ, swap, probation, spawned,
                   builds, judged>>

\* cargo fails, or leaves a new build in the worktree it was started in; a
\* worktree removed under it makes it fail.
CompilerFinish ==
    /\ compiling # None
    /\ Len(resultQ) < MaxQueue
    /\ \E success \in BOOLEAN :
        /\ success => /\ compiling \in vm.worktrees
                      /\ builds < MaxBuilds
        /\ resultQ' = Append(resultQ, [version |-> compiling,
                                       success |-> success])
        /\ builds' = IF success THEN builds + 1 ELSE builds
        /\ vm' = IF success THEN [vm EXCEPT !.output[compiling] = builds + 1]
                 ELSE vm
    /\ compiling' = None
    /\ UNCHANGED <<registered, compileQ, testQ, verdictQ, swap, probation,
                   spawned, judged>>

-----------------------------------------------------------------------------
(* finalize_version_switch.                                                *)

\* Mutant: the version to go back to is read from the rollback ref.
FinalizeFromRollbackRef(m, v) ==
    /\ v \in m.branches
    /\ vm' = SwitchTo(m, v)
    /\ swap' = [new |-> v, old |-> m.rollback_ref]
    /\ spawned' = ResolveBinaryForVersion(vm', v)

\* The switch is refused (capability escalation, a migration that cannot
\* commit, a branch that is gone), or made; once made, the new version's
\* archived binary is started and its handshake awaited, unless there is no
\* binary at all, or it cannot be started and the version is rolled back.
FinalizeVersionSwitch(m, v) ==
    \/ vm' = m /\ UNCHANGED <<swap, spawned>>
    \/ /\ v \in m.branches
       /\ LET switched == SwitchTo(m, v)
          IN  \/ /\ switched.binary = NoBuild
                 /\ vm' = switched
                 /\ UNCHANGED <<swap, spawned>>
              \/ /\ switched.binary # NoBuild
                 /\ vm' = switched
                 /\ swap' = [new |-> v, old |-> m.head]
                 /\ spawned' = ResolveBinaryForVersion(switched, v)
              \/ /\ switched.binary # NoBuild
                 /\ vm' = Rollback(switched)
                 /\ UNCHANGED <<swap, spawned>>

-----------------------------------------------------------------------------
(* CompileResult.                                                          *)

CompileFailed(v) ==
    /\ vm.mem.consecutive_failures < FailureCap
    /\ vm' = RecordFailure(MarkPending(CleanupWorktree(vm, v), v))
    /\ UNCHANGED <<testQ, swap, spawned>>

\* The build output, if it is still there, is installed and archived.  With
\* no judge to ask, the version is switched to untested.
CompileSucceeded(v) ==
    LET ready == CleanupWorktree(InstallOutput(ClearPending(vm), v), v)
    IN  \/ /\ "judge" \in registered
           /\ Len(testQ) < MaxQueue
           /\ vm' = ready
           /\ testQ' = Append(testQ, v)
           /\ UNCHANGED <<swap, spawned>>
        \/ /\ "judge" \notin registered
           /\ FinalizeVersionSwitch(ready, v)
           /\ UNCHANGED testQ

HandleCompileResult ==
    /\ resultQ # <<>>
    /\ resultQ' = Tail(resultQ)
    /\ IF Head(resultQ).success THEN CompileSucceeded(Head(resultQ).version)
       ELSE CompileFailed(Head(resultQ).version)
    /\ UNCHANGED <<registered, compileQ, compiling, verdictQ, probation, builds,
                   judged>>

-----------------------------------------------------------------------------
(* The judge service and TestResult.                                       *)

\* The judge runs whatever binary is installed when it gets to the request.
JudgeTest ==
    /\ testQ # <<>>
    /\ Len(verdictQ) < MaxQueue
    /\ testQ' = Tail(testQ)
    /\ \E verdict \in Verdicts :
        /\ verdictQ' = Append(verdictQ, [version |-> Head(testQ),
                                         verdict |-> verdict])
        /\ judged' = [b \in Builds |-> IF b = vm.binary THEN verdict ELSE judged[b]]
    /\ UNCHANGED <<vm, registered, compileQ, compiling, resultQ, swap, probation,
                   spawned, builds>>

HandleTestResult ==
    /\ verdictQ # <<>>
    /\ verdictQ' = Tail(verdictQ)
    /\ LET v == Head(verdictQ).version
           verdict == Head(verdictQ).verdict
       IN  \/ /\ verdict = "pass"
              /\ FinalizeVersionSwitch(vm, v)
              /\ UNCHANGED probation
           \/ /\ verdict = "soft_fail"
              /\ probation' = v
              /\ UNCHANGED <<vm, swap, spawned>>
           \/ /\ verdict = "hard_fail"
              /\ vm.mem.consecutive_failures < FailureCap
              /\ vm' = RecordFailure(vm)
              /\ UNCHANGED <<swap, spawned, probation>>
    /\ UNCHANGED <<registered, compileQ, compiling, resultQ, testQ, builds, judged>>

\* An expired probation asks the judge again, about the installed binary.
CheckProbation ==
    /\ probation # None
    /\ probation' = None
    /\ \/ /\ "judge" \in registered
          /\ Len(testQ) < MaxQueue
          /\ testQ' = Append(testQ, probation)
       \/ /\ "judge" \notin registered
          /\ UNCHANGED testQ
    /\ UNCHANGED <<vm, registered, compileQ, compiling, resultQ, verdictQ, swap,
                   spawned, builds, judged>>

-----------------------------------------------------------------------------
(* The hand-over to the new peripheral, as versions and binaries see it.   *)

SwapHandshake ==
    /\ swap # SwapIdle
    /\ swap' = SwapIdle
    /\ UNCHANGED <<vm, registered, pipelineVars, probation, spawned, builds, judged>>

\* check_hot_swap after the timeout: the manager goes back to the rollback
\* ref (set by the switch that began the swap, so there is one), the process
\* to the version the swap remembers.
SwapTimeout ==
    /\ swap # SwapIdle
    /\ swap' = SwapIdle
    /\ vm' = Rollback(vm)
    /\ \/ spawned' = ResolveBinaryForVersion(vm, swap.old)
       \/ UNCHANGED spawned
    /\ UNCHANGED <<registered, pipelineVars, probation, builds, judged>>

-----------------------------------------------------------------------------
(* Admin operations.                                                       *)

\* The peripheral of the version gone back to is started (or fails to be).
AdminReplaced(m) ==
    /\ vm' = m
    /\ \/ spawned' = ResolveBinaryForVersion(m, m.head)
       \/ UNCHANGED spawned

AdminForceRollback ==
    /\ MayStart
    /\ \/ /\ "rollback" \in AdminOps
          /\ CanRollback(vm)
          /\ AdminReplaced(Rollback(vm))
       \/ /\ "force_version" \in AdminOps
          /\ \E v \in vm.branches : AdminReplaced(SwitchTo(vm, v))
    /\ UNCHANGED <<registered, pipelineVars, swap, probation, builds, judged>>

AdminCleanupVersions ==
    /\ MayStart
    /\ "cleanup" \in AdminOps
    /\ \E keep \in 0..MaxVersion : vm' = CleanupOldVersions(vm, keep)
    /\ UNCHANGED <<registered, pipelineVars, swap, probation, spawned, builds,
                   judged>>

AdminUnlockVersion ==
    /\ "unlock" \in AdminOps
    /\ vm' = Unlock(vm)
    /\ UNCHANGED <<registered, pipelineVars, swap, probation, spawned, builds,
                   judged>>

-----------------------------------------------------------------------------
(* Failures of the services and of Boot.                                   *)

\* The router drops a peer whose connection ends or whose lease dies.  The
\* compiler forgets its work; the judge still answers a request it has
\* already read.
ServiceLost(s) ==
    /\ s \in registered
    /\ registered' = registered \ {s}
    /\ IF s = "compiler"
       THEN compileQ' = <<>> /\ compiling' = None /\ UNCHANGED testQ
       ELSE /\ UNCHANGED <<compileQ, compiling>>
            /\ testQ' \in {testQ, <<>>}
    /\ UNCHANGED <<vm, resultQ, verdictQ, swap, probation, spawned, builds, judged>>

ServiceRegisters(s) ==
    /\ s \in Services \ registered
    /\ registered' = registered \cup {s}
    /\ UNCHANGED <<vm, pipelineVars, swap, probation, spawned, builds, judged>>

\* Boot stops and starts again: messages and memory are lost, the manager's
\* fields come back from version_state.json, and the peripheral is started
\* from the installed binary.
Restart ==
    /\ vm' = RestoreState(vm)
    /\ registered' = Services
    /\ compileQ' = <<>> /\ compiling' = None /\ resultQ' = <<>>
    /\ testQ' = <<>> /\ verdictQ' = <<>>
    /\ swap' = SwapIdle
    /\ probation' = None
    /\ spawned' = ResolveBinary(vm)
    /\ UNCHANGED <<builds, judged>>

-----------------------------------------------------------------------------

Next ==
    \/ SubmitUpdate
    \/ CompilerReceive
    \/ CompilerFinish
    \/ HandleCompileResult
    \/ JudgeTest
    \/ HandleTestResult
    \/ CheckProbation
    \/ SwapHandshake
    \/ SwapTimeout
    \/ AdminForceRollback
    \/ AdminCleanupVersions
    \/ AdminUnlockVersion
    \/ \E s \in Services : ServiceLost(s) \/ ServiceRegisters(s)
    \/ Restart

Spec == Init /\ [][Next]_vars

-----------------------------------------------------------------------------
(* Properties.                                                             *)

\* What git holds is consistent: the live version and the rollback target
\* always have a branch, worktrees only exist for other branches than the
\* one checked out in source/, and a swap under way can be rolled back
\* (cleanup_old_versions against switch_to, rollback and the worktrees).
RepoSafe ==
    /\ vm.head \in vm.branches
    /\ vm.rollback_ref \in vm.branches \cup {None}
    /\ vm.worktrees \subseteq vm.branches \ {vm.head}
    /\ swap # SwapIdle => CanRollback(vm)

\* The lockout: as many recorded failures as the threshold and the manager
\* is locked, in memory and in what a restart would read back.
LockedAtThreshold ==
    /\ vm.mem.consecutive_failures >= MaxFailures => vm.mem.locked
    /\ vm.disk.consecutive_failures >= MaxFailures => vm.disk.locked

\* What a restart would restore: version_state.json differs from memory only
\* in a failure counter that a switch has reset, unless it names a pending
\* version whose branch is gone.
RestartRestores ==
    \/ vm.disk.pending_version \notin vm.branches \cup {None}
    \/ /\ vm.disk.pending_version = vm.mem.pending_version
       /\ vm.disk.pending_attempt = vm.mem.pending_attempt
       /\ vm.disk.locked = vm.mem.locked
       /\ vm.mem.consecutive_failures \in {0, vm.disk.consecutive_failures}

\* The lock is lifted only by the admin's unlock, or by a restart whose
\* state file names a pending version that no longer has a branch.
LockHolds ==
    [][ vm.mem.locked /\ ~vm'.mem.locked =>
            \/ vm' = Unlock(vm)
            \/ /\ vm' = RestoreState(vm)
               /\ vm.disk.pending_version \notin vm.branches \cup {None} ]_vars

\* With one update at a time, a worktree exists only for the version that is
\* being attempted: no build directory is left behind for good.
NoWorktreeLeak == vm.worktrees \subseteq {Pending(vm)}

\* With one update at a time, the hand-over and the version manager agree:
\* the version awaited is checked out and the one to go back to is the
\* rollback target.
SwapMatchesRepo ==
    swap # SwapIdle => vm.head = swap.new /\ vm.rollback_ref = swap.old

Passed(b) == b \in Builds /\ judged[b] = "pass"

\* The explicit gates: a binary started by a version switch has been passed
\* by the judge, unless no judge is registered.
OnlyPassedBuildsSwitch ==
    [][ swap' # swap /\ swap' # SwapIdle =>
            Passed(spawned') \/ "judge" \notin registered ]_vars

\* A pending version can be attempted again: its branch exists and is not
\* the one checked out, so the next submission gets a worktree.
PendingBuildable ==
    Pending(vm) # None => CanAddWorktree(vm, Pending(vm))

\* The explicit gates again: what runs as the peripheral is never a build
\* whose last verdict was a hard fail.
NeverRunsRejectedBuild ==
    spawned \in Builds => judged[spawned] # "hard_fail"

\* binary.rollback is the previous good binary: after a failed hand-over the
\* installed binary is the one archived for the version gone back to.
RollbackRestoresBinary ==
    [][ swap # SwapIdle /\ swap' = SwapIdle /\ vm'.head # vm.head
            /\ vm.archive[vm'.head] # NoBuild
            => vm'.binary = vm.archive[vm'.head] ]_vars

=============================================================================
