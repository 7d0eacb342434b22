----------------------------- MODULE VersionOps -----------------------------
(***************************************************************************)
(* The version manager of Boot (crates/boot/src/version.rs).               *)
(*                                                                         *)
(* A VersionManager value is the record `m`: what git and the file system  *)
(* hold (branches, HEAD, the rollback ref, build worktrees, the binaries)  *)
(* and what the process holds in memory (pending version, failure counter, *)
(* lock) together with the copy of the latter in version_state.json.       *)
(* Each public method is an operator from a manager value to a manager     *)
(* value; the handlers of the microkernel compose them, in the order of    *)
(* the code, within one step.                                              *)
(*                                                                         *)
(* A binary is named by the build that produced it: builds are numbered in *)
(* the order the compiler finishes them, and NoBuild stands for a file     *)
(* that does not exist (Boot then falls back to the seed binary).          *)
(***************************************************************************)
EXTENDS Integers, FiniteSets

CONSTANTS
    None,          \* no version (an Option that is None, a ref that is unset)
    MaxVersion,    \* bound: versions are V0 .. V<MaxVersion>
    MaxBuilds,     \* bound: builds the compiler may finish
    MaxFailures,   \* MAX_CONSECUTIVE_FAILURES (3 in the code)
    MaxArchived    \* MAX_ARCHIVED_BINARIES (10 in the code)

ASSUME VersionAssumption ==
    /\ MaxVersion \in Nat
    /\ MaxBuilds \in Nat
    /\ MaxFailures \in Nat \ {0}
    /\ MaxArchived \in Nat \ {0}
    /\ None \notin Nat

NoBuild == 0
Versions == 0..MaxVersion
Builds == 1..MaxBuilds
Binaries == Builds \cup {NoBuild}

\* The fields of version_state.json.
PersistedState ==
    [pending_version : Versions \cup {None},
     pending_attempt : Nat,
     consecutive_failures : Nat,
     locked : BOOLEAN]

DefaultState ==
    [pending_version |-> None,
     pending_attempt |-> 0,
     consecutive_failures |-> 0,
     locked |-> FALSE]

VersionManager ==
    [branches : SUBSET Versions,            \* refs/heads/V*
     head : Versions,                       \* branch checked out in source/
     rollback_ref : Versions \cup {None},   \* refs/reloopy/rollback
     worktrees : SUBSET Versions,           \* worktrees/<version> exists
     output : [Versions -> Binaries],       \* build output in a worktree
     binary : Binaries,                     \* peripheral/binary
     rollback_binary : Binaries,            \* peripheral/binary.rollback
     archive : [Versions -> Binaries],      \* binaries/<version>/
     mem : PersistedState,                  \* the manager's own fields
     disk : PersistedState]                 \* version_state.json

\* A fresh installation: init_repo_if_needed leaves V0 checked out, and
\* nothing has been compiled yet.
FreshManager ==
    [branches |-> {0}, head |-> 0, rollback_ref |-> None,
     worktrees |-> {}, output |-> [v \in Versions |-> NoBuild],
     binary |-> NoBuild, rollback_binary |-> NoBuild,
     archive |-> [v \in Versions |-> NoBuild],
     mem |-> DefaultState, disk |-> DefaultState]

Locked(m) == m.mem.locked
Pending(m) == m.mem.pending_version

-----------------------------------------------------------------------------
(* Persistence of the in-memory fields.                                    *)

PersistState(m) == [m EXCEPT !.disk = m.mem]

\* Mutant: the lock is not read back.
RestoreStateUnlocked(m) == [m EXCEPT !.mem = [m.disk EXCEPT !.locked = FALSE]]

\* A state file whose pending version has lost its branch is dropped whole:
\* the early return leaves every field at its default.
RestoreState(m) ==
    LET usable == m.disk.pending_version \in m.branches \cup {None}
    IN  [m EXCEPT !.mem = IF usable THEN m.disk ELSE DefaultState]

-----------------------------------------------------------------------------
(* Allocation and the pending version.                                     *)

\* v is the number next_version_number computes: one above the largest
\* existing V branch, 1 if there is none above V0.
IsNextVersion(m, v) ==
    /\ v \in 1..MaxVersion
    /\ \A b \in m.branches : b < v
    /\ v = 1 \/ v - 1 \in m.branches

\* reuse_pending_or_allocate, its two successful outcomes.
ReusePending(m) ==
    PersistState([m EXCEPT !.mem.pending_attempt = @ + 1])

AllocateVersion(m, v) ==
    PersistState([m EXCEPT !.branches = @ \cup {v},
                           !.mem.pending_version = v,
                           !.mem.pending_attempt = 1])

MarkPending(m, v) ==
    PersistState([m EXCEPT !.mem.pending_version = v])

\* Mutants: the change stays in memory; the version stays pending.
ClearPendingInMemory(m) ==
    [m EXCEPT !.mem = [DefaultState EXCEPT !.locked = m.mem.locked]]
ClearAttemptsOnly(m) ==
    PersistState([m EXCEPT !.mem.pending_attempt = 0,
                           !.mem.consecutive_failures = 0])

ClearPending(m) ==
    PersistState([m EXCEPT !.mem.pending_version = None,
                           !.mem.pending_attempt = 0,
                           !.mem.consecutive_failures = 0])

\* Mutant: locked one failure too late.
RecordFailureLate(m) ==
    LET failures == m.mem.consecutive_failures + 1
    IN  PersistState(
            [m EXCEPT !.mem.consecutive_failures = failures,
                      !.mem.locked = @ \/ failures > MaxFailures])

RecordFailure(m) ==
    LET failures == m.mem.consecutive_failures + 1
    IN  PersistState(
            [m EXCEPT !.mem.consecutive_failures = failures,
                      !.mem.locked = @ \/ failures >= MaxFailures])

Unlock(m) ==
    PersistState([m EXCEPT !.mem.locked = FALSE,
                           !.mem.consecutive_failures = 0])

-----------------------------------------------------------------------------
(* Build worktrees.                                                        *)

\* Mutant: the build output goes, the worktree stays registered.
CleanupOutputOnly(m, v) == [m EXCEPT !.output[v] = NoBuild]

CleanupWorktree(m, v) ==
    [m EXCEPT !.worktrees = @ \ {v}, !.output[v] = NoBuild]

\* `git worktree add` refuses a branch that does not exist and one that is
\* checked out in the main working tree.
CanAddWorktree(m, v) == v \in m.branches /\ v # m.head

\* commit_version_source: an older worktree of v goes first; the new one
\* stays only if git accepts it and the submitted source can be copied.
CommitVersionSource(m, v, copied) ==
    LET cleaned == CleanupWorktree(m, v)
    IN  IF CanAddWorktree(cleaned, v) /\ copied
        THEN [cleaned EXCEPT !.worktrees = @ \cup {v}]
        ELSE cleaned

-----------------------------------------------------------------------------
(* Binaries.                                                               *)

\* The compile-result handler copies the build output over peripheral/binary.
InstallBinary(m, b) == [m EXCEPT !.binary = b]

Archived(m) == {v \in Versions : m.archive[v] # NoBuild}

\* prune_old_archives: the oldest archives beyond the limit go, except the
\* one just written.
Pruned(m, keep) ==
    LET archived == Archived(m)
        excess == Cardinality(archived) - MaxArchived
    IN  {v \in archived :
            v # keep /\ Cardinality({w \in archived : w < v}) < excess}

ArchiveBinary(m, v) ==
    LET written == [m EXCEPT !.archive[v] = m.binary]
        pruned == Pruned(written, v)
    IN  IF m.binary = NoBuild THEN m
        ELSE [written EXCEPT !.archive =
                 [w \in Versions |-> IF w \in pruned THEN NoBuild ELSE @[w]]]

\* Mutant: archived before the new build is installed.
InstallArchivedFirst(m, v) == InstallBinary(ArchiveBinary(m, v), m.output[v])

\* What the compile-result handler does with the build of v: install it, then
\* archive it under v; nothing if the output is gone.
InstallOutput(m, v) ==
    IF m.output[v] = NoBuild THEN m
    ELSE ArchiveBinary(InstallBinary(m, m.output[v]), v)

\* resolve_binary_for_version and resolve_binary; NoBuild is the seed.
ResolveBinaryForVersion(m, v) == m.archive[v]
ResolveBinary(m) == m.binary

-----------------------------------------------------------------------------
(* Switching and rolling back.                                             *)

\* Mutant: the version left is not remembered.
SwitchKeepsRollbackRef(m, v) ==
    [CleanupWorktree(m, v) EXCEPT
        !.rollback_binary = IF m.binary # NoBuild THEN m.binary ELSE @,
        !.head = v,
        !.mem.consecutive_failures = 0]

\* Mutant: a switch lifts the lock with the counter.
SwitchUnlocks(m, v) ==
    [CleanupWorktree(m, v) EXCEPT
        !.rollback_binary = IF m.binary # NoBuild THEN m.binary ELSE @,
        !.head = v,
        !.rollback_ref = m.head,
        !.mem.consecutive_failures = 0,
        !.mem.locked = FALSE]

\* switch_to: back up the binary, free the branch, check it out, remember
\* the old branch.  The counter is reset in memory only, the lock kept.
SwitchTo(m, v) ==
    [CleanupWorktree(m, v) EXCEPT
        !.rollback_binary = IF m.binary # NoBuild THEN m.binary ELSE @,
        !.head = v,
        !.rollback_ref = m.head,
        !.mem.consecutive_failures = 0]

CanRollback(m) == m.rollback_ref \in m.branches

\* rollback: the rollback ref itself is left as it is.
Rollback(m) ==
    [CleanupWorktree(m, m.rollback_ref) EXCEPT
        !.head = m.rollback_ref,
        !.binary = IF m.rollback_binary # NoBuild
                   THEN m.rollback_binary ELSE @]

-----------------------------------------------------------------------------
(* Deleting old branches.                                                  *)

\* Mutant: the rollback target is a candidate too.
RemovableRollback(m, keep) ==
    LET candidates == m.branches \ {m.head}
    IN  {v \in candidates :
            Cardinality({w \in candidates : w < v}) + keep
                < Cardinality(candidates)}

\* Candidates are every branch but the current and the rollback one; the
\* oldest beyond `keep` go, and git keeps those a worktree has checked out.
Removable(m, keep) ==
    LET candidates == m.branches \ {m.head, m.rollback_ref}
    IN  {v \in candidates :
            Cardinality({w \in candidates : w < v}) + keep
                < Cardinality(candidates)}

CleanupOldVersions(m, keep) ==
    [m EXCEPT !.branches = @ \ (Removable(m, keep) \ m.worktrees)]

=============================================================================
