# A TLA+ model of Boot and the peripheral it supervises

This project models the part of the program that lets an agent change itself
and survive it: Boot (`crates/boot`), the compiler and judge services
(`crates/services`), and the peripheral process (`crates/peripheral`) as Boot
sees it. Paths below are relative to the repository root.

1. [The system](#1-the-system)
2. [The modules](#2-the-modules)
3. [What each run checks](#3-what-each-run-checks)
4. [Bounds and fairness](#4-bounds-and-fairness)
5. [What is proved](#5-what-is-proved)
6. [Where code and documents disagree](#6-where-code-and-documents-disagree)
7. [What is not modelled](#7-what-is-not-modelled)
8. [Plan](#8-plan)

## 1. The system

Boot is a microkernel: one task owns all of its state and handles one message
at a time, or one tick of its timers (`microkernel.rs:295-326`). Everything else
is a process that talks to Boot over a Unix socket through Boot's router. The
peripheral is the agent; it submits changed versions of its own source, and Boot
has them compiled, tested, and, if they pass, puts the new build in its place.

| Component (source) | State it keeps | Operations | What makes it correct |
|---|---|---|---|
| Version manager (`boot/src/version.rs`) | git branches `V<n>`, HEAD of `source/`, ref `refs/reloopy/rollback`, build worktrees, `binary`, `binary.rollback`, archived binaries; pending version, attempt, failure counter and lock, in memory and in `version_state.json` | allocate or reuse a version, commit its source, mark/clear pending, record a failure, unlock, switch, roll back, clean up, archive, restore at start | the live version and the rollback target exist; a lock survives restarts; no build directory leaks; the state file says what memory says; a rollback restores the previous binary |
| Update pipeline (`boot/src/microkernel.rs` handlers) | `hot_swap`, `probation`, messages under way | SubmitUpdate, CompileResult, TestResult, probation, admin rollback, cleanup, unlock | only tested builds are switched to; repeated failures lock; a hand-over can always be undone |
| Peripheral hand-over (`microkernel.rs`, `ipc.rs`, `peripheral/src/main.rs`) | `peripheral_child`, `hot_swap`'s child, the router's entry, the pending rollback context | replace, Hello/Welcome, timeout, lease death, admin rollback, shutdown | one peripheral at a time, none orphaned, every hand-over ends, a rolled-back peripheral is told why |
| IPC router (`boot/src/ipc.rs`) | identity → connection id and bounded channel; the queue to Boot | register, remove own, force-remove, send, broadcast | a stale connection does not evict its successor; who has an entry has a lease, or is about to; a slow peer does not stop the others for good |
| Lease manager (`boot/src/lease.rs`) | deadline, missed renewals, probation flag per peer | register, renew, check, set probation | a silent peer is found dead; a probationer's deadline ends with the probation |
| Runlevel manager (`runlevel.rs`) | current level, crash streak | transition, record a crash | a full streak of crashes degrades Normal; a return to Normal gives the full allowance again |
| Resource monitor (`resource.rs`) | consecutive hard violations per peer | check a report, forget a peer | what is held against a peer ends with its lease |
| State store (`state.rs`) | one file per key, snapshot, write-ahead log | set, snapshot, migrate, recover | after a crash the state is that before or after the migration |
| Capability manager (`capability.rs`) | none: it reads `capabilities.json` of two versions | escalation check at a switch; no check at an operator's forced switch or a rollback | no chain of versions gains a right that no version had which the operator put in place |
| Constitution (`constitution.rs`) | `invariants.json`, `benchmarks.json`, `amendments.log`, counter | signed amendment, read, restart | amendment ids are unique; the documents stay usable |
| Judge (`services/judge`) | the documents it has loaded | load, connect, test, score, spawn a candidate | it decides by the tests; it comes back whatever an amendment did |
| Protocol registry (`protocol.rs`) | message types and version, in memory and in `messages.json` | extend, load | what was accepted stays; a changed type raises the major version |
| Compiler (`services/compiler`) | the build in progress | request, busy refusal, result | one build at a time; every request is answered |
| Agent and its tools (`peripheral/src/agent.rs`, `tools.rs`, `source.rs`, `main.rs`) | conversation, rollback context, channel of update results; the source tree | input, reset, tool calls, edits, submit, wait, time out | an answer belongs to the submission that waits; an edit changes what it names |
| Audit, admin web, CLIs, LLM client, memory tools, wire format | logs, sessions, notes | I/O | (left aside, see section 7) |

How they interact on the main path:

    agent --SubmitUpdate--> Boot --CompileRequest--> compiler
                            Boot <--CompileResult--- compiler      (build installed, archived)
                            Boot --TestRequest-----> judge
                            Boot <--TestResult------ judge         (switch, kill old, spawn new)
    new peripheral --Hello-> Boot --Welcome, RollbackContext, Shutdown-->

Beside this path run the timers of Boot (leases, resources, probation, the
hand-over's timeout), the requests of operators (rollback, cleanup, unlock,
runlevel, shutdown, amendments) and those of the peers (heartbeats,
subscriptions, protocol extensions).

What is hard here: Boot does not wait between those messages, so a second
submission, a cleanup, a rollback, the loss of a service, a restart or a timer
may come between any two of them; the compiler, the judge and Boot share files
(worktree, `peripheral/binary`, the constitution); processes are named by the
identity `peripheral`, which passes from one connection to the next; Boot waits
for a router whose channels are bounded; the agent waits for an answer that may
be late, lost, or another's; and half of the state is on disk, half in memory.
The hazards are listed at their lines in `PROJECT.json`, with the properties
that would catch them.

## 2. The modules

| Module | Models | Extends |
|---|---|---|
| `VersionOps` | the version manager: one record, one operator per method | Integers, FiniteSets |
| `UpdatePipeline` | the handlers of Boot and the two services, as a state machine over a version manager | `VersionOps` |
| `UpdatePipelineProofs` | lemmas about the methods, and what the pipeline keeps whatever is under way | `UpdatePipeline`, TLAPS |
| `SerialUpdateProofs` | what it keeps with one update at a time | `UpdatePipelineProofs` |
| `HotSwap` | the hand-over: processes, connections, handles, handshake, timeout, shutdown | Integers, Sequences, FiniteSets |
| `HotSwapProofs` | that orderly hand-overs are safe | `HotSwap`, SequenceTheorems, TLAPS |
| `IpcRouter` | the router actor and its connection tasks, with their bounded channels | Integers, Sequences, FiniteSets |
| `Supervision` | leases, violations, runlevels, probation, events and shutdown, over the router | `IpcRouter` |
| `SupervisionProofs` | what router and supervisor keep | `Supervision`, TLAPS |
| `AtomicStore` | what the state store promises | |
| `StateStore` | values, snapshot, log, migrations and recovery, write by write | instance of `AtomicStore` |
| `StateStoreProofs` | that it keeps the promise | `StateStore`, TLAPS |
| `Constitution` | amendments of the two documents, the log, and the judge that reads them | Integers, Sequences, FiniteSets, Functions |
| `Protocol` | the registry of message types, in memory and on disk | Integers, FiniteSets |
| `Capability` | what versions declare and the escalation check | Integers, FiniteSets |
| `Governance` | the three before, composed with Boot's restarts and version switches | `Constitution`, `Protocol`, `Capability` |
| `GovernanceProofs` | what governance keeps, and sums over finite sets | `Governance`, FiniteSetTheorems, TLAPS |
| `SourceFile` | the agent's edits as operators on sequences of pieces | Integers, Sequences, FiniteSets |
| `SourceFileProofs` | that edits are exact, in files of any length | `SourceFile`, SequenceTheorems, FiniteSetTheorems, TLAPS |
| `Agent` | the conversation, its tools, its submissions, the dispatching task, and Boot as it answers | `SourceFile` |
| `AgentProofs` | that answers and commits belong to their submission, types and edits | `Agent`, `SourceFileProofs` |
| `MCUpdatePipeline`, `MCHotSwap`, `MCSupervision`, `MCGovernance`, `MCAgent` | the sets the configurations choose from | their modules |

**VersionOps.** A `VersionManager` is a record: `branches`, `head` and
`rollback_ref` are what git holds, `worktrees` and `output` the build directories
and what cargo left in them, `binary`, `rollback_binary` and `archive` the files
in the peripheral directory, `mem` the manager's fields and `disk` their copy in
`version_state.json`. A binary is named by the build that made it (builds are
numbered), `NoBuild` by a file that does not exist. Every method that changes
state is an operator from record to record. Where a method persists, the operator
does (`PersistState`); where it does not (`SwitchTo`'s reset of the failure
counter), it does not.

**UpdatePipeline.** Queues between Boot and the services hold versions, results
and verdicts. An action is a handler: it takes the message, composes the
operators of `VersionOps` in the order of the code, and sends. `SubmitUpdate` is
the handler of a submission up to the CompileRequest; `CompilerReceive` and
`CompilerFinish` are the compiler's loop; `HandleCompileResult` installs and
archives the build and asks the judge, or switches at once when there is none;
`JudgeTest` tests whatever lies at `peripheral/binary` when it gets to the
request; `HandleTestResult` switches, puts on probation or records a failure;
`FinalizeVersionSwitch` has three outcomes (refused, switched and spawned,
switched and rolled back because nothing could be spawned). `SwapHandshake` and
`SwapTimeout` are what `HotSwap` looks like from the version manager. `Restart`
loses memory and messages and reads `version_state.json` back; `ServiceLost` is the
end of a service's connection or of its lease. `judged` is an observation: the
last verdict on each build; nothing reads it but the properties.

A submission to a locked manager changes nothing and is not an action. Refusals
that change nothing (a runlevel that forbids updates, a rollback without target)
likewise.

**HotSwap.** `proc` is the life of each process (`unborn`, `starting`,
`connecting`, `serving`, `exited`, and `deaf`: told to shut down when nobody
listened for the notification yet, it runs on without reading). `child` and
`swapChild` are Boot's two handles, `peer` is the process behind the router's
entry `peripheral`, `outbox` the messages in each connection. `Connect` registers
a connection before Boot has handled its Hello, as `handle_connection` does;
`HandleHello` sends Welcome, rollback context and Shutdown in that order to
whatever connection the identity names when they are sent, then kills
`peripheral_child` and takes over the new handle. `Replace` is
`replace_peripheral`: kill, forget connection and lease, spawn. `Shutdown` is
`initiate_shutdown` seen from the processes: it ends Boot's loop (`running`), and
processes that are still there notice that Boot is gone (`Abandoned`).
`RunCandidate` and `KillCandidate` are the process the judge runs to test a build,
which finds Boot's own socket. The constant `Environments` lists the sets of
disturbances that may occur together; a behaviour chooses one (`disturbances`)
at the start and keeps it, so that one run covers orderly and disturbed
hand-overs, and a property can say which of them it is about (`Orderly`).

**IpcRouter and Supervision.** `link`, `owner` and `outbox` are the connections,
`routed` is the routing table, `bootQ` the queue to Boot. A command to the router
takes effect when it is sent, because every sender waits for the effect or does
not depend on it; the one exception is what the model keeps, the deliveries that
Boot still waits for (`sending`). `Deliver` needs room in the channel of a client
that is still there: otherwise the router is `Blocked`, and no connection, removal
or further delivery happens until there is. `Supervision` puts Boot's handlers
over it. A handler is one step that changes Boot's state and queues its messages;
the next handler begins when they are delivered (`Idle`). `CheckLeases` is
`check_all`, `HandleDead` the handling of one dead peer in `check_leases`; a
deadline is a choice, since a lease that is not renewed between two ticks may be
late at the second. A client's first message is its Hello and makes the entry
(`Connect`), its later ones are heartbeats (`Forward`). `lease`, `violations`,
`manager` (level and crashes), `subscribers`, `probation` are Boot's tables. A
session (`Sessions`) is a client such as the command line or the admin web, which
sends requests and no heartbeat. `inputs` is chosen at the start like
`disturbances` above.

**AtomicStore and StateStore.** `StateStore` has the files (`files`, `snapshot`,
`log`), the memory (`cache`), and where Boot is (`at`, the `write` under way, the
keys still `todo`). `fs::write` is two steps, a truncation and a fill, and `Crash`
may come before, between and after any of them. `AtomicStore` has the contents
`db` and changes a migration's keys all at once. The refinement maps `db` to
`Effective`: the snapshot while the log asks for a rollback, else the cache, or
what a start would load. Two weak spots of the code are part of the promise, so
that they are visible: a value being set when Boot stops is lost together with
the old one, and a key that a rolled-back migration has *created* comes back at
the next restart (`leftover`), since `restore_from_snapshot` removes no file.
`plan.md:428` promises more (back to the state before the migration). Boot's own
migrations (`microkernel.rs:1128-1130`) commit without transforming a key;
`Transform` and `Abort` are the interface `MigrationTransaction` offers.

**Constitution, Protocol, Capability, Governance.** The documents are functions
from ids to entries, of which only what the judge tells apart is kept: a test of
a type it knows, one of a type it does not know (which always fails), one it
cannot read; of a dimension the weight and the minimum. `ProposeAmendment`
changes the document, then the counter, then the log, and the log may fail; a
restart counts the lines of the log. The judge loads one document and then the
other and connects, as `run_service` does, and `Passes` is `build_test_result`,
with the weighted score as a fraction. Weights are any numbers, also negative
ones, since `DimensionSpec` and the amendments check none (`TotalWeight` may be
zero or less, and `Overall` is 0 then, as in `benchmark.rs:76`); they are integers,
which stand for multiples of some unit. `ProposeExtension` changes memory first,
then the file, then the log, with a failure after either. `SwitchVersion` compares
with the version that runs and goes on when a file cannot be read; `Rollback` and
`ForceVersion`, the operator's switch to any branch (`microkernel.rs:2199`), ask
nothing. `granted` observes what the operator has put in place: the version Boot
was started with and those it was forced to. The three
subjects share nothing but Boot's restarts, so a behaviour is about one
(`subject`).

**SourceFile and Agent.** A file is a sequence of pieces of text and line ends.
`EditLines`, `ReadLines` and `Replaced` are the tools with their refusals, and
`Matches` counts as Rust's `matches(..).count()` does, from the left and without
overlaps. `Agent` runs tool calls one after the other; `SubmitUpdate` and
`TakeResult` or `TimeOut` are the two halves of `submit_and_wait_result`, between
which everything else may happen. `Dispatch` is the task that takes the messages
of Boot and waits for room in the channel of results. Boot handles a submission
some time after it was sent, reading the source tree as it is *then*, and answers
once or not at all. `NewProcess` is a hand-over or a rollback: the process before
is killed, unless it is one whose handle Boot has dropped (`microkernel.rs:1216`
and `:2231`). `BootRestarts` loses what Boot had to handle and starts a process
without killing the one before: `spawn_peripheral` sets no `kill_on_drop`, and a
peripheral whose connection closes serves on at a port of its own
(`main.rs:206-265`). `others` says whether there are such older processes, and
whether one is connected (it may have been about to connect when Boot came back);
they edit the same tree (`StrayEdits`) and, when connected, submit it
(`StraySubmits`), and the results go to the agent, which has the entry.
`gaveUp`, `answer` and `misread` are observations.

## 3. What each run checks

Runs that pass:

| Run | Question | Properties |
|---|---|---|
| `Serial` | one update at a time, rollbacks, unlocks, lost services, restarts | `TypeOK`; `NoWorktreeLeak`; `SwapMatchesRepo`: hand-over and repository name the same two versions; `PendingBuildable`: a pending version can be attempted again; `OnlyPassedBuildsSwitch`: a switch starts a build the judge has passed |
| `Overlap` | submissions and every admin operation at any moment of an update in flight, every verdict, probation | `RepoSafe`: live version, rollback target, worktrees and hand-over agree with the branches; `LockedAtThreshold`; `RestartRestores`: the state file says what memory says; `LockHolds`: only the unlock, or a restart that finds the pending branch gone, lifts the lock |
| `HotSwap` | hand-overs with crashes of processes and a shutdown of Boot at any moment; in some behaviours with everything that may disturb them | `TypeOK`; for orderly ones `OneAliveWhenOrderly`: no split brain, `NoOrphan`, `AwaitedHandshake`: only the process waited for completes a hand-over, `ServingKnowsRollback`, `HandshakeEnds` and `ShutdownLeavesNone` (liveness); for all `SwapResolves` (liveness) |
| `Supervision` | two peers that connect, reconnect, renew, stop reading and die, over bounded channels | `TypeOK`; `OpenIsRouted`: the cleanup of an old connection never takes the entry of its successor; `NormalNoStreak`; `TightLeaseOnProbation`; `ViolationsEndWithLease`; `ConnectedIsWatched`: whoever is in the routing table has a lease, or its Hello is still on the way; `SilentPeerForgotten`, `ShutdownEnds` (liveness) |
| `StateStore` | a stop of Boot between any two file writes | `TypeOK`; `CacheOnDisk`: outside migrations nothing lives in memory only; `SnapshotUsable`: recovery finds a whole snapshot, or Boot could not start; `MigrationsAtomic`: the store implements `AtomicStore` |
| `Governance` | amendments, extensions and switches with failed writes, unreadable files and restarts | `TypeOK`; `AmendmentIdsUnique`; `VerdictFollowsTests`: benchmarks that can be met refuse no build that passes the tests, whatever weights with a positive sum were amended; `NoEscalation`: no chain of switches goes beyond what the operator put in place; `AcceptedDurable`; `BreakingRaisesMajor`; `JudgeServes` (liveness) |
| `Agent` | edits and submissions against a Boot that answers late, once or never, shuts the agent down, replaces it or restarts, beside older processes nobody has killed | `TypeOK`; `AnswerMatches`; `CommittedAsSubmitted`; `EditsExact`: an edit by lines changes these lines and no other, what is read can be written back, an edit by text has one place |

Several properties hold only under a condition that the property itself names,
because the code does not promise more:

- `Serial`'s are properties of one update at a time. With overlapping updates
  they fail: a worktree is left by a submission that overtook another, the
  verdict may be about a build that a later compilation has replaced. The agent's
  own loop submits one update and waits, but it gives up after 300 s while Boot
  goes on, so overlaps can be reached.
- `AnswerMatches` and `CommittedAsSubmitted` hold until an answer was left
  waiting, by a timeout, a shutdown or a new process (`gaveUp`). After a timeout
  the late answer stays in the channel and is given to the next submission, whose
  own answer goes to the one after it; nothing compares the versions
  (`agent.rs:266`). A Shutdown is put into the same channel and taken for the
  answer (`main.rs:219`). They also except older processes: a process that a
  restart of Boot has left, or a hand-over forgotten, edits the tree while the
  agent's submission waits (`others # "none"`), and one that is connected has its
  results sent to the agent (`others = "connected"`).
- `AmendmentIdsUnique` holds until a write of the log fails: the counter has moved
  then, and a restart counts the lines. `NoEscalation` holds until a
  `capabilities.json` cannot be read: the check then fails *open*
  (`microkernel.rs:1119`). Its limit is what the operator has put in place, not
  the first version alone: `force_version` switches to any branch without a check
  (`microkernel.rs:2199`), also to one whose switch was refused for escalation,
  since the refusal leaves the branch (`microkernel.rs:1114`).
  `VerdictFollowsTests` asks for weights with a positive sum: weights may be
  amended to cancel each other, and a build that passes every test is refused
  then, as its overall score is 0. `AcceptedDurable` says nothing of refused extensions,
  and rightly: one that was refused because a write failed is in memory, and the
  next one that is accepted carries it to the file.
- `ViolationsEndWithLease` excepts replacements of the peripheral: the new
  process inherits the violations counted for the identity
  (`microkernel.rs:1605`).
- `SilentPeerForgotten` and `ShutdownEnds` except a client that has stopped
  reading (`stuck`): one full channel stops the router's loop and with it Boot,
  the five seconds of the shutdown's grace period included (`ipc.rs:314`).

Other facts about the code that the models show and no property claims: the
rollback context is looked for at the first input only (`agent.rs:144`), so one
that comes later is never put into the conversation; a partial amendment stops the
judge until the entry is amended again, and updates meanwhile go untested, since
Boot finds no judge; an amendment reaches the judge at its next connection; a
second Hello of a peer registers a new lease and so ends the tight deadline of a
probation that goes on (`lease.rs:80`); a log line of an extension has the new
version as its old one (`protocol.rs:228`); an edit that replaces lines by a text
without a final line end joins it with the line that follows.

The violation runs are the subject of section 6.

Every property of a passing run has a mutant in `PROJECT.json`: an operator that
changes one definition of the model the way a slip in the code would, and that
the run then reports. The mutated forms stand beside the definitions they mutate
and are marked as mutants.

## 4. Bounds and fairness

| Bound | Meaning | Values | Why it is enough |
|---|---|---|---|
| `MaxVersion` | versions beyond V0 | 2, 3 | three versions can be live, target and pending at once |
| `MaxBuilds` | successful builds | 3; 1 in `Overlap` | a build to run, one to go back to, one rejected |
| `MaxFailures` | `MAX_CONSECUTIVE_FAILURES` | 2 (code: 3) | a count below, at and, with `FailureCap`, beyond the threshold |
| `MaxArchived` | `MAX_ARCHIVED_BINARIES` | 2 (code: 10) | below the number of builds in `Serial`, so archives are pruned |
| `MaxAttempts` | attempts of one pending version | 2, 3 | first attempt and retries; the counter has no other effect |
| `FailureCap` | the failure counter | 2, 3 | reaches the threshold; the lock is absorbing beyond it |
| `MaxQueue` | messages in a queue | 1, 2 | a waiting request behind one in work; a lone one in `Overlap` |
| `MaxProcs` | processes spawned | 4 | an old process, a new one, its replacement, and one after that |
| `Environments` | what may disturb a hand-over | crashes only; everything but the judge; crashes and the judge | orderly behaviours, and each disturbance together with all that interact with it |
| `Peers`, `Sessions` | identities | the peripheral and one session | two, so that one can be dead, silent or stuck while the other goes on |
| `MaxConns` | connections at a time | 2 | an old connection of an identity and its successor |
| `OutboundSize`, `BootQueueSize` | channel sizes | 1 (code: 64, 256) | a channel is empty, in use and full; only "full" has an effect |
| `MaxMissed`, `CrashThreshold`, `HardThreshold` | thresholds | 2 | one below, one at the threshold; a count stops at it, beyond it nothing changes |
| `Scenarios` | inputs that may occur together in `Supervision` | six sets | each hazard with the inputs it needs: blocked router with reports, with events, with a shutdown; replacement during probation with reports; requests with crashes |
| `Tests`, `Dimensions` | entries of the documents | 2 tests; a measured, a constant and an unknown dimension | the three kinds of dimension the scorer knows |
| `Weights`, `Minima` | amended numbers | {-1, 0, 1}, {100} | negative, no and some weight, so that a sum is positive, zero (also by cancelling) or negative; the highest minimum that can be met |
| `MaxAmendments` | amendments | 3 | two entries changed and one changed back; three ids |
| `MaxMajor`, `MaxMinor` | protocol version | 3, 2 | a breaking and a compatible extension after a failed one |
| `Items`, `MaxChildren` | what capabilities name | 1, 1 | every escalation is the gain of one item or one right; read, write and ipc are given together, commands and children with them |
| `MaxForced` | capabilities the operator forces | 1 | the first version and one that was put beside it |
| `Texts`, `MaxLen`, `Contents` | source text | one piece, 1 piece, 4 contents of up to 3 pieces | the file is empty, a text or a line end; `EditsExact` looks at the file with each of the contents behind it, up to three lines with and without a final end |
| `MaxCalls`, `MaxSubmissions` | tool calls of a reply, submissions | 2, 2 | an edit behind a submission; an answer that reaches the next submission; of older processes one submission is under way at a time |
| `ResultSlots` | channel of update results | 1 (code: 4) | the channel is empty and full |

`Overlap` takes every verdict and operation and pays for it with one build: the
four properties it checks do not depend on which build is where. `StateStore` has
two keys and two values: one key is migrated while the other, or none, existed
before, and a value differs from the one it replaces or does not.
A judge reaches `soft_fail` only when it compares with the score of an earlier
update; the shipped judge keeps none, so `ShippedVerdicts` leaves it out and
`Overlap` puts it in.

**Fairness** is assumed for liveness only.

- `HotSwap`, weak fairness: Boot's loop handles the messages that wait
  (`HandleHello`), its timers tick (`SwapTimeout`, `LeaseDead`), a connection task
  notices that its process is gone (`Disconnect`), and a running process connects
  and reads (`ProcStep`). The loop is a `select!` over a channel and intervals
  whose branches stay ready until they are taken, and the others are tasks and
  processes of their own. Updates, the operator and crashes are under no
  obligation. `SwapResolves` is what the 60 s timeout is for: that the process
  waited for may hang, crash, or lose its entry changes nothing for it.
- `Supervision`, weak fairness of the router's deliveries, of clients that read,
  of the handling of a dead peer and of the end of a shutdown; strong fairness of
  the lease check `CheckSilent`: Boot is between two handlers again and again, not
  always, and `select!` chooses at random among the branches that are ready, so
  the tick is not passed over forever.
- `Governance`, weak fairness of the judge's loading and strong fairness of its
  connecting: the judge retries forever, and does not find Boot restarting at
  every attempt.

The other specifications have no fairness and their properties are all safety.

## 5. What is proved

`UpdatePipelineProofs` proves, for all values of the constants that satisfy
`VersionAssumption` and `PipelineAssumption` (the numbers are naturals, the
thresholds positive, `None` is no number, verdicts and operations are among the
known ones):

| Theorem | Statement |
|---|---|
| `TypeCorrect` | `Spec => []TypeOK` |
| `RepoSafety` | `Spec => []RepoSafe` |
| `Lockout` | `Spec => []LockedAtThreshold` |
| `RestartFaithful` | `Spec => []RestartRestores` |
| `LockKept` | `Spec => LockHolds` (an action property) |

They hold with `Overlap` TRUE as well as FALSE, with every set of verdicts and of
admin operations, any number of versions and any thresholds, where the runs have
two or three of each.

The argument is one inductive invariant,

    IInv == TypeOK /\ Sound(vm) /\ (swap # SwapIdle => CanRollback(vm))

`Sound(m)` says of a manager that it has its type, that its repository is
consistent (`RepoSound`), that the lock follows the counter in memory and on disk
(`LockSound`), and that disk and memory agree (`DiskSound`). The last conjunct of
`IInv` is needed because `SwapTimeout` rolls back without asking: it must be known
that the target is still there. The invariant is inductive because each *method* of
the version manager keeps `Sound`; the first section proves that once per
method, as lemmas, together with the relation `Keeps(m, n)` (the method removes
neither the rollback target nor the lock) from which the last conjunct and
`LockKept` follow. The handlers are compositions of the methods, so their steps
are short: each names the methods it goes through.

`RepoSound` has to carry the separation of worktrees and HEAD, which is what makes
`git checkout` in `switch_to` and `rollback` succeed and `cleanup_old_versions`
keep what a worktree has checked out. `CleanupOldVersions` keeps it only because
HEAD and the rollback target are not candidates: the mutant `RemovableRollback`
shows that without this the invariant fails.

`SerialUpdateProofs` adds what only holds with one update at a time. The
hypotheses are those of the run `Serial`, each where it is needed, and nothing is
assumed of the bounds:

| Theorem | Hypotheses | Statement |
|---|---|---|
| `NoLeak` | `~Overlap` | `Spec => []NoWorktreeLeak` |
| `PendingCanBuild` | `~Overlap`, the operator only rolls back and unlocks (`RecoveryOnly`) | `Spec => []PendingBuildable` |
| `SwapAgrees` | `~Overlap`, no soft failures | `Spec => []SwapMatchesRepo` |
| `PassedOnly` | `~Overlap`, no soft failures | `Spec => OnlyPassedBuildsSwitch` (an action property) |

`~Overlap` is the agent that waits for its answer; the judge as shipped never
fails softly; and `force_version` and `cleanup` are left out where they would
remove or check out the pending version, as they may. The invariants relate the
queues to the version manager. `OneAttempt`: whatever is being compiled is the
pending version, which is in the state file as well, so the restart that loses the
message still finds the worktree it has to replace. `NeverSwitched`: the pending
version is neither the live one nor the rollback target, because what waits for
the judge, for its verdict or on probation is a version that has left the compiler.
`StagesInv`: the stages of an update exclude each other, and each has made sure of
something the next one relies on: the output of a build that succeeded is there,
the binary under test is the one archived for its version, and a pass is the
verdict on that archived binary. Each of the three was checked by TLC on the
instance of `Serial` first.

`StateStoreProofs` proves, for any keys and values (`StoreAssumption`: they differ
from the two markers `Absent` and `Torn`):

| Theorem | Statement |
|---|---|
| `TypeCorrect` | `Spec => []TypeOK` |
| `Recoverable` | `Spec => []SnapshotUsable` |
| `Durable` | `Spec => []CacheOnDisk` |
| `Refinement` | `Spec => MigrationsAtomic`, that is `Spec => Atomic!Spec` |

The inductive invariant `IInv` has three parts beside the type: what Boot is doing
and what the log says go together (`LogSound`), a file is torn only while it is
being written (`WriteSound`), and cache, files and snapshot agree as far as each
phase needs (`CacheSound`: for instance, while a migration is open every key of
the snapshot is in the cache, and while a restore runs every key already done is
in its file). The refinement then goes action by action: setting a value is a
`StartWrite` and a `Set`, logging BEGIN is `Begin`, logging COMMIT is `Commit`,
leaving the transaction is `Rollback`, a stop is one of the two stops or nothing,
and the rest, recovery included, changes nothing a reader could see.

`SupervisionProofs` proves, for any identities, channel sizes, thresholds and
scenarios (`RouterAssumption`: sizes are positive and the identities finite;
`SupervisionAssumption`: thresholds are positive, the peripheral is an identity
that is no session, `None` is no lease):

| Theorem | Statement |
|---|---|
| `TypeCorrect` | `Spec => []TypeOK`: also that no channel overflows |
| `CurrentStaysRouted` | `Spec => []OpenIsRouted` |
| `NoStreakInNormal` | `Spec => []NormalNoStreak` |
| `NoTightLeaseWithout` | `Spec => []TightLeaseOnProbation` |
| `ViolationsForgotten` | `Spec => []ViolationsEndWithLease` |
| `NobodyUnwatched` | `Spec => []ConnectedIsWatched` |

The router and Boot share only the table and two queues, so the invariant is a
conjunction `RouterInv /\ BootInv`, and a step of one side keeps the other's half
by UNCHANGED. `RouterInv` adds to the types and `OpenIsRouted` that a connection in
use has an identity (`Owned`): without it `RemovePeer` could not be told to leave
other connections alone, and `Forward` could queue a message from nobody. The
handlers that evict go through one lemma (`ForceRemoveKeeps`), those that only
queue messages through another (`RouterUntouched`). `NobodyUnwatched` goes on from
there: a Hello stays in the queue until it is at its head (`HelloWaits`), a handler
that takes it leaves a lease or no entry, and what ends a lease (a death, a
replacement) takes the entry with it in the same handler (`EndWatched`).

`GovernanceProofs` proves, for any documents, message types, capabilities and
bounds:

| Theorem | Statement |
|---|---|
| `TypeCorrect` | `Spec => []TypeOK` |
| `NothingEscalates` | `Spec => []NoEscalation` |
| `AcceptedKept` | `Spec => []AcceptedDurable` |
| `ChangesRaiseMajor` | `Spec => BreakingRaisesMajor` (an action property) |
| `IdsUnique` | `Spec => []AmendmentIdsUnique` |
| `VerdictsFollow` | `Spec => []VerdictFollowsTests` |

Each needs a strengthening of its own. `Bounded`: the version a rollback goes back
to, not only the one that runs, is within what one version had that the operator
put in place; "at most" compares what is effective, since a whitelist counts only
where its grant is allowed, and is transitive. `Behind`: the file never has what
memory lacks, and where they differ memory is a major version ahead; this is why a
refused extension carried along later is still announced by the version.
`LogCounts`: while every write of the log has succeeded, the counter is the number
of its lines and the i-th line has the id i. `JudgeInv`: a judge that connects has
read its benchmarks, so every entry has its numbers. The verdict then needs the
weighted sum, a fold over the dimensions: a sum of integers is one
(`SumOfNumbers`), and a multiple of every part is that multiple of the sum
(`SumOfMultiples`). A build that passes every test has the full score in each
dimension, so its weighted sum is the sum of the weights, negative ones included,
and its overall score is 100 % whenever that sum is positive; the hypothesis
`Attainable` of the property asks just for that.

`HotSwapProofs` proves, for any number of processes and any sets of disturbances
(`HotSwapAssumption`: at least one process, `NoProc` is no number, `Environments`
holds sets of known disturbances):

| Theorem | Statement |
|---|---|
| `TypeCorrect` | `Spec => []TypeOK` |
| `NoSplitBrain` | `Spec => []OneAliveWhenOrderly` |
| `HandlesAll` | `Spec => []NoOrphan` |
| `AwaitedCompletes` | `Spec => []AwaitedHandshake` |
| `RollbackTold` | `Spec => []ServingKnowsRollback` |

The last four are about orderly behaviours (crashes and a shutdown of Boot at any
moment, nothing else) and need four facts together. `Handles`: only the handle
that fits the state of the hand-over is in use, and every live process is under a
handle. `Awaited`: while Boot waits, the only Hello in its queue is that of the
process in `swapChild`, which has connected. `Connected`: a process stands behind
the router's entry from its connection on, and one that waits for Boot has a
message before it or its Hello in the queue; without it a Welcome might go to
another connection than that of the Hello. `Untold`: while a rollback has not
been told, no live process has been welcomed.

`SourceFileProofs` proves, for files and texts of any length over any pieces (no
assumption, and no behaviour: these are theorems about the operators):

| Theorem | Statement |
|---|---|
| `LineEdit` | an edit of the lines from `start` to `end` leaves the lines before and behind as they were, with the new ones between them |
| `LineBack` | a line that is read and put back restores the file, but for a missing end of the last line |
| `CountIsPlaces` | the count from the left that `edit_file` looks at is the number of places of the text, if it does not overlap itself |

`LineEdit` asks that the new text ends its last line, and that the file does when
lines are added behind it: section 3 says what happens otherwise. A line is
told by the set of places where lines end, so the proofs move sets of numbers;
that two different places have different ranks among them replaces counting.

`AgentProofs` proves, for any file, any texts, channel size and number of
submissions (`AgentAssumption`: the numbers are naturals, the texts are sequences,
and the file at the start is no longer than `MaxLen`):

| Theorem | Statement |
|---|---|
| `TypeCorrect` | `Spec => []TypeOK` |
| `AnswersMatch` | `Spec => []AnswerMatches` |
| `CommitsSubmitted` | `Spec => []CommittedAsSubmitted` |
| `EditsAreExact` | `Spec => []EditsExact` |

The agent takes the oldest result without looking at its identity, so the
invariant of the answers has to say that there is no other. While no answer has
been left waiting and no older process is connected, the last submission is in one
place at most: in the mail, being built, or as one answer in one of the two queues
(`OnePlace`); the queues hold no other answer (`Kinds`); and when the agent does
not wait, there is none at all (`Quiet`). The mail carries the file as it is,
because the agent edits it only when `Quiet` holds, as long as no older process
edits beside it; a restart of Boot empties mail and queues together, so it needs
no exception of its own. `TypeCorrect` needs to know that while calls are being
made there is one at hand (`CallAtHand`), and that what edits leave is text;
`EditsAreExact` is the theorems above for the texts a behaviour reaches.

**Inductions.** The library's induction theorems take an operator as a parameter,
which the provers here cannot instantiate. Where a proof goes over data (sums over
sets, counts of matches, numbers) it uses that strict inclusion is well founded on
the finite subsets of a set: of the sets that would break the claim there is a
smallest one (`LeastNumber` and `Downward` in `SourceFileProofs`, `SubsetInduction`
in `GovernanceProofs`). Recursive functions and folds are shown to exist first
(`SumsExist`, `MatchesIsCount`), as they are a CHOOSE.

**Only model-checked.** Every safety invariant and action property that a passing
run checks is stated by a theorem. What is left is liveness (`SwapResolves`,
`HandshakeEnds`, `ShutdownLeavesNone`, `SilentPeerForgotten`, `ShutdownEnds`,
`JudgeServes`), which needs fairness and ENABLED and is out of the prover's reach,
and the five properties that runs find violated.

## 6. Where code and documents disagree

Each violation run checks one property that a document, a comment or a test of
the repository states, and finds a behaviour of the code that breaks it.

| Run | Stated | What the code does |
|---|---|---|
| `RejectedBuildRuns` | the agent changes itself only through explicit gates (`README.md:130`) | a build is copied over `peripheral/binary` before it is tested (`microkernel.rs:858`) and stays there after a hard fail; the next start of Boot runs it |
| `RollbackBinary` | `binary.rollback` is the previous good binary (`version.rs:50`, test at `:1852`) | `switch_to` copies `binary` when the new build is already there (`version.rs:973`); a rollback reinstalls the build it leaves. The process spawned after a timeout is the archived one, so this shows at the next restart |
| `NewPeripheralShutdown` | the Shutdown goes only to the old peripheral (`microkernel.rs:547`) | it is addressed to an identity that the new connection has taken over (`microkernel.rs:548`) |
| `CandidateEvicts` | the judge starts the new version in a sandbox (`plan.md:273`), at a socket named by `RELOOPY_SOCKET` (`README.md:146`) | it sets `LOOPY_SOCK` (`judge/src/invariant.rs:105`); the candidate connects to Boot as `peripheral` and takes the entry of the one that serves |
| `CliDegrades` | crashes degrade Normal to Safe (`runlevel.rs:57`) | the leases of command-line sessions that have ended run out and count as crashes (`microkernel.rs:1482`) |

Further disagreements of the same kind, visible in the models and without a run:

- Three failed updates are to lock (`plan.md:121`), but a successful compilation
  clears the counter (`version.rs:755`), so updates that compile and then fail the
  judge never add up.
- A locked manager needs human intervention (`version.rs:661`), but a restart
  whose pending branch is gone drops the whole state file, the lock with it
  (`version.rs:330`). `LockHolds` is what remains true, and is proved.
- No two instances are alive (`plan.md:102`), but an admin rollback during a
  hand-over overlooks the process held in `hot_swap` (`microkernel.rs:2229`).
- The same document's single instance is lost when Boot restarts: it does not kill
  the old process (`microkernel.rs:1507`), which serves on at another port and
  edits the same tree (`others` in `Agent`).
- Boot is to raise the level by itself: from Normal to Evolve when the system is
  idle and uses less than half of its resources, from Safe to Normal when a
  recovery check passes (`runlevel.rs:57` and `:60`, `plan.md:234` and `:237`). It
  never does: `can_enter_evolve` (`runlevel.rs:148`) has no caller but a test, and
  nothing in the event loop leaves Safe but a request. In `Supervision` only
  `RunlevelRequest` raises the level.
- Self-modification belongs to Evolve (`plan.md:229`, `allows_evolution` at
  `runlevel.rs:37`), but `handle_submit_update` refuses in Halt and Safe only
  (`microkernel.rs:653`), and `allows_evolution` is not called.
- The first message of a connection must be a Hello (`ipc.rs:346`), but any
  message registers its sender, and a Hello whose payload does not parse is
  dropped after that (`microkernel.rs:441`): an entry without a lease. The
  repository's own clients begin with a valid Hello, and `ConnectedIsWatched` is
  about them.
- A new instance is started after the grace period of a lease (`plan.md:107`), but
  `check_leases` drops the peer and starts nothing (`microkernel.rs:1473`).

## 7. What is not modelled

- *Failures of git and of the file system*, except those the code has a path for
  and that leave state behind: an unreadable submission, a worktree git refuses,
  a process that cannot be spawned, a refused capability or migration, a failed
  write of the amendment log, of `messages.json` or of its log, an unreadable
  `capabilities.json`. The rest is logged and ignored by the code.
- *A crash of Boot inside a handler*, except in `StateStore`. `Restart` comes between
  two handlers of the pipeline and of governance; a document of the constitution
  torn by a stop inside `fs::write` is left out.
- *Signatures.* A proposal of an amendment is one whose signature is valid; for an
  extension validity is an input.
- *Progress and audit messages*, which change nothing in Boot. Their deliveries are
  `BroadcastToSubscribers` in `Supervision`.
- *Sizes of numbers.* An offset at the largest integer, which would overflow in
  `offset + 1` of the range edit, and scores as floating point: percentages are
  integers and the overall score a fraction.
- *Details of text.* `SourceFile` leaves out the cap on the number of lines a
  reading call may ask for, and carriage returns.
- *The judge as a child of Boot.* Boot spawns and supervises the compiler and the
  admin web only (`microkernel.rs:1549-1578`); the judge is started by hand, so
  `registered` may lose it for any length of time.
- *The audit service, the web and terminal front ends, the LLM client, the
  memory tools, search and listing, the wire format, the memory writer*: I/O or
  serialisation with no state of the protocol in it. The peripheral's schema
  migrations are identities in this version of the code.

## 8. Plan

Done: the version manager and the update pipeline with its inductive invariant,
the hand-over, the state store with its refinement, router and supervision,
governance, the agent and its edits; a theorem for every safety property of these.

Next, in this order:

1. A crash inside the handlers of `UpdatePipeline`: the writes of
   `HandleCompileResult` and `FinalizeVersionSwitch` as steps of their own, and
   which of the theorems above survive it.
2. What `HotSwap` assumes of the router, as a refinement by `IpcRouter`.
3. The steps under the liveness properties that are safety: what a tick of each
   timer brings nearer, as action properties with proofs.
