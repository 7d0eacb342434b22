------------------------------- MODULE HotSwap -------------------------------
(***************************************************************************)
(* The hand-over between peripheral processes: Boot's child handles and    *)
(* hot_swap state, the router's entry for the identity "peripheral", the   *)
(* handshake, its timeout, the operator's rollback and the lease           *)
(* (crates/boot/src/microkernel.rs, ipc.rs; the process side is            *)
(* crates/peripheral/src/main.rs and ipc_client.rs).                       *)
(*                                                                         *)
(* Boot, the router's connection tasks and each process run concurrently:  *)
(* a connection is registered before Boot has seen its Hello, and messages *)
(* to a process wait in its connection.  Processes are numbered in the     *)
(* order they are spawned; MaxProcs bounds how many are.                   *)
(***************************************************************************)
EXTENDS Integers, Sequences, FiniteSets

CONSTANTS
    NoProc,         \* an empty handle or an absent router entry
    MaxProcs,       \* bound: processes Boot may spawn
    Environments    \* bound: the sets of disturbances that may occur together

AllDisturbances ==
    {"crash",           \* a process may die by itself
     "eager_finalize",  \* a verdict may arrive during a handshake
     "eager_admin",     \* the operator may roll back during a handshake
     "early_lease_tick", \* a lease may be found dead while a Hello is queued
     "judge"}           \* the judge may run a build under test

ASSUME HotSwapAssumption ==
    /\ MaxProcs \in Nat \ {0}
    /\ NoProc \notin Nat
    /\ Environments \subseteq SUBSET AllDisturbances

Procs == 1..MaxProcs

VARIABLES
    proc,         \* state of each process
    child,        \* Microkernel::peripheral_child
    waiting,      \* is hot_swap WaitingForNewHandshake?
    swapChild,    \* the child held by that state
    peer,         \* process whose connection the router calls "peripheral"
    helloQ,       \* Hellos on their way to Boot
    outbox,       \* messages to each process, in its connection
    lease,        \* is there a lease for "peripheral"?
    context,      \* is pending_rollback_context set?
    running,      \* is Boot in its event loop?
    candidate,    \* the process the judge runs to test a build
    disturbances  \* what may happen, besides orderly updates, in this behaviour

state ==
    <<proc, child, waiting, swapChild, peer, helloQ, outbox, lease, context, running, candidate>>
vars == <<state, disturbances>>

\* "deaf": told to shut down before the web server listened for it (the
\* notification is lost), the process keeps running without reading messages.
ProcStates == {"unborn", "starting", "connecting", "serving", "deaf", "exited"}
Messages == {"welcome", "rollback_context", "shutdown"}

TypeOK ==
    /\ proc \in [Procs -> ProcStates]
    /\ child \in Procs \cup {NoProc}
    /\ waiting \in BOOLEAN
    /\ swapChild \in Procs \cup {NoProc}
    /\ peer \in Procs \cup {NoProc}
    /\ helloQ \in Seq(Procs)
    /\ outbox \in [Procs -> Seq(Messages)]
    /\ lease \in BOOLEAN
    /\ context \in BOOLEAN
    /\ running \in BOOLEAN
    /\ candidate \in Procs \cup {NoProc}
    /\ disturbances \in Environments

\* Boot has started and spawned its first peripheral.
Init ==
    /\ proc = [p \in Procs |-> IF p = 1 THEN "starting" ELSE "unborn"]
    /\ child = 1
    /\ waiting = FALSE /\ swapChild = NoProc
    /\ peer = NoProc
    /\ helloQ = <<>>
    /\ outbox = [p \in Procs |-> <<>>]
    /\ lease = FALSE
    /\ context = FALSE
    /\ running = TRUE
    /\ candidate = NoProc
    /\ disturbances \in Environments

Live == {p \in Procs : proc[p] \notin {"unborn", "exited"}}
Unborn == {p \in Procs : proc[p] = "unborn"}

\* The processes after Boot has killed handle c; NoProc kills nothing.
Killed(procs, c) == [p \in Procs |-> IF p = c THEN "exited" ELSE procs[p]]

-----------------------------------------------------------------------------
(* The peripheral process and its connection.                              *)

\* Mutant: the Hello is forwarded under the entry it is about to replace.
ConnectAnnouncesPrevious(p) ==
    /\ proc[p] = "starting"
    /\ proc' = [proc EXCEPT ![p] = "connecting"]
    /\ peer' = p
    /\ helloQ' = Append(helloQ, peer)
    /\ UNCHANGED <<child, waiting, swapChild, outbox, lease, context>>

\* handle_connection: the identity is taken over by the new connection, then
\* the Hello is forwarded to Boot.
Connect(p) ==
    /\ proc[p] = "starting"
    /\ proc' = [proc EXCEPT ![p] = "connecting"]
    /\ peer' = p
    /\ helloQ' = Append(helloQ, p)
    /\ UNCHANGED <<child, waiting, swapChild, outbox, lease, context>>

\* The next message reaches the process, which gives up if the first one is
\* not its Welcome.
Receive(p) ==
    /\ proc[p] \in {"connecting", "serving"}
    /\ outbox[p] # <<>>
    /\ outbox' = [outbox EXCEPT ![p] = Tail(@)]
    /\ LET msg == Head(outbox[p])
       IN  \/ /\ proc[p] = "connecting"
              /\ proc' = [proc EXCEPT ![p] = IF msg = "welcome" THEN "serving" ELSE "exited"]
           \/ /\ proc[p] = "serving" /\ msg = "shutdown"
              /\ \E after \in {"exited", "deaf"} :
                    proc' = [proc EXCEPT ![p] = after]
           \/ /\ proc[p] = "serving" /\ msg # "shutdown"
              /\ UNCHANGED proc
    /\ UNCHANGED <<child, waiting, swapChild, peer, helloQ, lease, context>>

\* A process dies by itself: a bad configuration, a panic, a kill from outside.
Crash(p) ==
    /\ "crash" \in disturbances
    /\ p \in Live
    /\ proc' = [proc EXCEPT ![p] = "exited"]
    /\ UNCHANGED <<child, waiting, swapChild, peer, helloQ, outbox, lease, context>>

\* Boot is gone, and its socket with it: a process that had not finished its
\* handshake cannot, and exits.  One that serves goes on.
Abandoned(p) ==
    /\ ~running
    /\ proc[p] = "starting" \/ (proc[p] = "connecting" /\ outbox[p] = <<>>)
    /\ proc' = [proc EXCEPT ![p] = "exited"]
    /\ UNCHANGED <<child, waiting, swapChild, peer, helloQ, outbox, lease, context>>

\* The reader task of a dead process's connection removes the router entry,
\* if it still is that connection's.
Disconnect ==
    /\ peer # NoProc
    /\ proc[peer] = "exited"
    /\ peer' = NoProc
    /\ UNCHANGED <<proc, child, waiting, swapChild, helloQ, outbox, lease, context>>

-----------------------------------------------------------------------------
(* The judge, which runs the build it tests as a process of its own.       *)

\* spawn_candidate: the path of the test's socket is passed as LOOPY_SOCK,
\* the process reads RELOOPY_SOCKET and so goes to Boot's socket.
RunCandidate(p) ==
    /\ "judge" \in disturbances
    /\ candidate = NoProc
    /\ ~waiting /\ helloQ = <<>>
    /\ child # NoProc /\ proc[child] = "serving"
    /\ p \in Unborn /\ \A q \in Unborn : p <= q
    /\ proc' = [proc EXCEPT ![p] = "starting"]
    /\ candidate' = p
    /\ UNCHANGED <<child, waiting, swapChild, peer, helloQ, outbox, lease, context>>

\* No connection to the test's socket within 5 s: the process is killed.
KillCandidate ==
    /\ candidate # NoProc
    /\ proc' = Killed(proc, candidate)
    /\ candidate' = NoProc
    /\ UNCHANGED <<child, waiting, swapChild, peer, helloQ, outbox, lease, context>>

-----------------------------------------------------------------------------
(* Boot.                                                                   *)

\* Mutant: the current process is not killed.
ReplaceAlive(c, p) ==
    /\ p \in Unborn /\ \A q \in Unborn : p <= q
    /\ proc' = [proc EXCEPT ![p] = "starting"]
    /\ peer' = NoProc
    /\ lease' = FALSE

\* replace_peripheral(c): kill the process of handle c, forget connection
\* and lease, then spawn p.
Replace(c, p) ==
    /\ p \in Unborn /\ \A q \in Unborn : p <= q
    /\ proc' = [Killed(proc, c) EXCEPT ![p] = "starting"]
    /\ peer' = NoProc
    /\ lease' = FALSE

\* The same, when the spawn fails.
ReplaceFails(c) ==
    /\ proc' = Killed(proc, c)
    /\ peer' = NoProc
    /\ lease' = FALSE

\* An update was submitted by a peripheral that serves; with the
\* disturbance, its verdict may come when another hand-over has begun.
MayFinalize ==
    /\ candidate = NoProc
    /\ \/ "eager_finalize" \in disturbances
       \/ /\ ~waiting
          /\ helloQ = <<>>
          /\ child # NoProc
          /\ proc[child] = "serving"

\* finalize_version_switch, from the point where the version is switched: a
\* handle held by an unfinished swap is dropped without killing its process.
\* A spawn that fails is rolled back, and nothing else is spawned.
FinalizeSwitch ==
    /\ MayFinalize
    /\ child' = NoProc
    /\ \/ \E p \in Procs :
            /\ Replace(child, p)
            /\ waiting' = TRUE
            /\ swapChild' = p
            /\ UNCHANGED context
       \/ /\ ReplaceFails(child)
          /\ context' = TRUE
          /\ UNCHANGED <<waiting, swapChild>>
    /\ UNCHANGED <<helloQ, outbox>>

\* Mutant: only a hand-over is welcomed.
AnswerHandoverOnly ==
    IF waiting THEN <<"welcome", "shutdown">> ELSE <<>>

\* What handle_hello sends, in this order.
HelloAnswer ==
    <<"welcome">>
        \o (IF context THEN <<"rollback_context">> ELSE <<>>)
        \o (IF waiting THEN <<"shutdown">> ELSE <<>>)

\* handle_hello.  What is sent goes to the connection registered when it is
\* sent, whichever Hello it answers; if there is none, the Welcome fails and
\* the handle taken from the swap is lost.
HandleHello ==
    /\ helloQ # <<>>
    /\ helloQ' = Tail(helloQ)
    /\ lease' = TRUE
    /\ \/ /\ peer = NoProc
          /\ swapChild' = NoProc
          /\ UNCHANGED <<proc, child, waiting, outbox, context>>
       \/ /\ peer # NoProc
          /\ outbox' = [outbox EXCEPT ![peer] = @ \o HelloAnswer]
          /\ context' = FALSE
          /\ waiting' = FALSE
          /\ swapChild' = NoProc
          /\ proc' = IF waiting THEN Killed(proc, child) ELSE proc
          /\ child' = IF waiting THEN swapChild ELSE child
    /\ UNCHANGED peer

\* Mutants: the state stays WaitingForNewHandshake; the process waited for is
\* not taken over before the replacement kills its handle.
TimeoutStillWaiting ==
    /\ waiting
    /\ context' = TRUE
    /\ \/ \E p \in Procs : Replace(swapChild, p) /\ child' = p
       \/ ReplaceFails(swapChild) /\ child' = NoProc
    /\ UNCHANGED <<waiting, swapChild, helloQ, outbox>>
TimeoutForgetsChild ==
    /\ waiting
    /\ waiting' = FALSE
    /\ swapChild' = NoProc
    /\ context' = TRUE
    /\ \/ \E p \in Procs : Replace(child, p) /\ child' = p
       \/ ReplaceFails(child) /\ child' = NoProc
    /\ UNCHANGED <<helloQ, outbox>>

\* check_hot_swap: no handshake in time.  The process waited for takes the
\* place of peripheral_child, is killed, and the old version's is spawned.
SwapTimeout ==
    /\ waiting
    /\ waiting' = FALSE
    /\ swapChild' = NoProc
    /\ context' = TRUE
    /\ \/ \E p \in Procs : Replace(swapChild, p) /\ child' = p
       \/ ReplaceFails(swapChild) /\ child' = NoProc
    /\ UNCHANGED <<helloQ, outbox>>

\* Mutant: the running peripheral is left in place.
AdminKeepsPeripheral ==
    /\ "eager_admin" \in disturbances \/ (~waiting /\ helloQ = <<>>)
    /\ context' = TRUE
    /\ UNCHANGED <<proc, child, waiting, swapChild, peer, helloQ, outbox, lease>>

\* handle_admin_force_rollback, once the version manager has gone back.  It
\* does not look at hot_swap.
AdminForceRollback ==
    /\ "eager_admin" \in disturbances \/ (~waiting /\ helloQ = <<>>)
    /\ context' = TRUE
    /\ \/ \E p \in Procs : Replace(child, p) /\ child' = p
       \/ ReplaceFails(child) /\ child' = NoProc
    /\ UNCHANGED <<waiting, swapChild, helloQ, outbox>>

\* check_leases: a peripheral that renews no more is dropped from the
\* router; its handle is kept and nothing is spawned.  A process whose
\* connection was taken over still renews.
LeaseDead ==
    /\ lease
    /\ "early_lease_tick" \in disturbances \/ helloQ = <<>>
    /\ \A p \in Procs : proc[p] # "serving" /\ proc[p] # "deaf"
    /\ peer # NoProc => outbox[peer] = <<>>
    /\ lease' = FALSE
    /\ peer' = NoProc
    /\ UNCHANGED <<proc, child, waiting, swapChild, helloQ, outbox, context>>

\* Mutant: peripheral_child is not killed.
ShutdownTellsOnly ==
    /\ child' = NoProc
    /\ outbox' = IF peer = NoProc THEN outbox
                 ELSE [outbox EXCEPT ![peer] = Append(@, "shutdown")]
    /\ UNCHANGED <<proc, waiting, swapChild, peer, helloQ, lease, context>>

\* initiate_shutdown: every peer is sent a Shutdown and the process of
\* peripheral_child is killed.  A process waited for in hot_swap is not.
InitiateShutdown ==
    /\ proc' = Killed(proc, child)
    /\ child' = NoProc
    /\ outbox' = IF peer = NoProc THEN outbox
                 ELSE [outbox EXCEPT ![peer] = Append(@, "shutdown")]
    /\ UNCHANGED <<waiting, swapChild, peer, helloQ, lease, context>>

-----------------------------------------------------------------------------

BootStep ==
    /\ running
    /\ \/ HandleHello
       \/ SwapTimeout
       \/ LeaseDead
       \/ FinalizeSwitch
       \/ AdminForceRollback
    /\ UNCHANGED <<running, candidate>>

Shutdown ==
    running /\ running' = FALSE /\ InitiateShutdown /\ UNCHANGED candidate

ProcStep(p) ==
    (Connect(p) \/ Receive(p) \/ Abandoned(p)) /\ UNCHANGED <<running, candidate>>

JudgeStep ==
    /\ KillCandidate \/ \E p \in Procs : running /\ RunCandidate(p)
    /\ UNCHANGED running

Next ==
    /\ \/ BootStep
       \/ Shutdown
       \/ JudgeStep
       \/ Disconnect /\ UNCHANGED <<running, candidate>>
       \/ \E p \in Procs :
            ProcStep(p) \/ (Crash(p) /\ UNCHANGED <<running, candidate>>)
    /\ UNCHANGED disturbances

Spec == Init /\ [][Next]_vars

\* Boot's loop handles messages and its timers tick; connection tasks end;
\* a process that runs makes progress.  Updates, the operator and crashes
\* are under no obligation.
Fairness ==
    /\ WF_state(running /\ HandleHello /\ UNCHANGED <<running, candidate>>)
    /\ WF_state(running /\ SwapTimeout /\ UNCHANGED <<running, candidate>>)
    /\ WF_state(running /\ LeaseDead /\ UNCHANGED <<running, candidate>>)
    /\ WF_state(Disconnect /\ UNCHANGED <<running, candidate>>)
    /\ \A p \in Procs : WF_state(ProcStep(p))

FairSpec == Spec /\ Fairness

-----------------------------------------------------------------------------
(* Properties.                                                             *)

\* Hand-overs run to their end before the next verdict, rollback or lease
\* check; processes may crash.
Orderly == disturbances \subseteq {"crash"}

\* No split brain: at most one peripheral process is alive, so no two work
\* on the one source directory (kill before spawn in replace_peripheral).
OneAlive == \A p, q \in Live : p = q
OneAliveWhenOrderly == Orderly => OneAlive

\* Boot holds a handle on every process it has spawned and not killed: none
\* outlives its replacement unseen.
NoOrphan == Orderly => Live \subseteq {child, swapChild}

\* A hand-over is only completed by the process it waits for: the next Hello
\* and the connection its answer goes to are not those of another process.
AwaitedHandshake ==
    Orderly /\ waiting /\ helloQ # <<>> =>
        Head(helloQ) = swapChild /\ peer \in {swapChild, NoProc}

\* The peripheral that serves after a rollback has been told of it: the
\* rollback context does not stay behind in Boot.
ServingKnowsRollback ==
    Orderly /\ context => \A p \in Live : proc[p] # "serving"

\* A hand-over ends, by the handshake, by the timeout or by the end of Boot,
\* whatever disturbs it.
SwapResolves == waiting ~> (~waiting \/ ~running)

\* A process that was spawned does not wait for its Welcome forever.
HandshakeEnds ==
    \A p \in Procs :
        (Orderly /\ proc[p] = "connecting") ~> proc[p] # "connecting"

\* When Boot is shut down no peripheral stays behind: not the one it has told
\* and killed, nor one that was being waited for.
ShutdownLeavesNone == (Orderly /\ ~running) ~> Live = {}

\* A build is tested in a sandbox: the process the judge runs does not take
\* the place of the peripheral that serves.
TestedApart == candidate # NoProc => peer # candidate

\* "Send only to old peripheral": Boot sends no Shutdown to the process it
\* keeps as its peripheral.
PeripheralKept ==
    child # NoProc =>
        \A i \in 1..Len(outbox[child]) : outbox[child][i] # "shutdown"

=============================================================================
