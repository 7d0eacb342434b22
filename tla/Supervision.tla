----------------------------- MODULE Supervision -----------------------------
(***************************************************************************)
(* Boot as supervisor of its peers: leases (crates/boot/src/lease.rs),     *)
(* resource violations (resource.rs), the runlevel (runlevel.rs), event    *)
(* subscriptions, probation and shutdown, as the event loop of             *)
(* microkernel.rs drives them over the router.                             *)
(*                                                                         *)
(* Boot runs one handler at a time and waits for the router in each: a     *)
(* handler is one step that queues its messages in "sending", and the next *)
(* begins when they are delivered.  Time is left out: a lease that is not  *)
(* renewed between two ticks may be late at the second.  A count that is   *)
(* only compared with a threshold stops there.                             *)
(***************************************************************************)
EXTENDS IpcRouter

CONSTANTS
    Peripheral,      \* the identity "peripheral"
    Sessions,        \* identities of short sessions, which send no heartbeat
    MaxMissed,       \* LeaseConfig::max_renewals_missed
    CrashThreshold,  \* CRASH_THRESHOLD_FOR_SAFE
    HardThreshold,   \* HARD_VIOLATION_THRESHOLD
    Scenarios        \* bound: the sets of inputs that may occur together

AllInputs ==
    {"sessions",   \* sessions connect besides the peers that stay
     "stuck",      \* a client may stop reading its socket
     "reports",    \* a health report may be unreadable or a violation
     "events",     \* peers subscribe to events
     "levels",     \* peers request runlevels other than Halt
     "shutdown",   \* Halt, an admin's shutdown, SIGTERM
     "probation",  \* a verdict may be a soft fail
     "replace"}    \* the peripheral may be replaced

Leases ==
    [missed : 0..(MaxMissed - 1), probation : BOOLEAN, reported : BOOLEAN]

ASSUME SupervisionAssumption ==
    /\ Scenarios \subseteq SUBSET AllInputs
    /\ Peripheral \in Peers \ Sessions
    /\ Sessions \subseteq Peers
    /\ MaxMissed \in Nat \ {0}
    /\ CrashThreshold \in Nat \ {0}
    /\ HardThreshold \in Nat \ {0}
    /\ None \notin Leases

VARIABLES
    lease,        \* LeaseManager::leases
    violations,   \* ResourceMonitor::consecutive_violations
    manager,      \* RunlevelManager
    subscribers,  \* Microkernel::event_subscribers
    probation,    \* is Microkernel::probation set?
    dying,        \* dead peers the current lease check has still to handle
    phase,        \* the event loop, the grace period after it, or the end
    inputs        \* the inputs that occur in this behaviour

bootVars == <<lease, violations, manager, subscribers, probation, dying, phase>>
state == <<routerVars, bootVars>>
vars == <<state, inputs>>

Runlevels == {"halt", "safe", "normal", "evolve"}
Managers == [current : Runlevels, crashes : 0..CrashThreshold]

TypeOK ==
    /\ RouterTypeOK
    /\ lease \in [Peers -> Leases \cup {None}]
    /\ violations \in [Peers -> 0..HardThreshold]
    /\ manager \in Managers
    /\ subscribers \subseteq Peers
    /\ probation \in BOOLEAN
    /\ dying \subseteq Peers
    /\ phase \in {"running", "draining", "stopped"}
    /\ inputs \in Scenarios

Init ==
    /\ RouterInit
    /\ lease = [p \in Peers |-> None]
    /\ violations = [p \in Peers |-> 0]
    /\ manager = [current |-> "normal", crashes |-> 0]
    /\ subscribers = {}
    /\ probation = FALSE
    /\ dying = {}
    /\ phase = "running"
    /\ inputs \in Scenarios

Leased == {p \in Peers : lease[p] # None}
Routed == {p \in Peers : routed[p] # None}

\* Boot is at its select!, between two handlers.
Idle == phase = "running" /\ sending = <<>> /\ dying = {}

\* Someone speaks as p on a connection.
Speaks(p) == \E c \in Conns : Talking(c) /\ owner[c] = p

\* A session sends Boot a request: requests are what sessions are for.
Asks(p) == p \in Sessions /\ Speaks(p)

Capped(n, max) == IF n < max THEN n ELSE max

-----------------------------------------------------------------------------
(* Runlevels.                                                              *)

\* is_valid_transition
IsValidTransition(from, to) ==
    \/ to = "halt"
    \/ <<from, to>> \in
            {<<"safe", "normal">>, <<"normal", "safe">>, <<"normal", "evolve">>,
             <<"evolve", "normal">>, <<"evolve", "safe">>}

\* Mutant: the count of crashes survives the return to Normal.
TransitionKeepsCrashes(m, to) ==
    IF IsValidTransition(m.current, to) THEN [m EXCEPT !.current = to] ELSE m

\* RunlevelManager::transition; the same level is accepted and changes nothing.
Transition(m, to) ==
    IF m.current = to \/ ~IsValidTransition(m.current, to) THEN m
    ELSE [current |-> to, crashes |-> IF to = "normal" THEN 0 ELSE m.crashes]

\* record_crash, and the transition it suggests.
RecordCrash(m) ==
    LET counted == [m EXCEPT !.crashes = Capped(@ + 1, CrashThreshold)]
    IN  IF counted.crashes >= CrashThreshold /\ m.current = "normal"
        THEN Transition(counted, "safe") ELSE counted

\* broadcast_runlevel_change, when the level has changed.
Announced(before, after, to) ==
    IF before.current = after.current THEN {<<>>} ELSE Orders(to)

-----------------------------------------------------------------------------
(* Messages of the peers.                                                  *)

NewLease == [missed |-> 0, probation |-> FALSE, reported |-> FALSE]

\* handle_hello: a Hello whose capabilities do not fit its identity evicts
\* that identity; any other registers a new lease, whatever there was.
HandleHello ==
    /\ Idle
    /\ bootQ # <<>> /\ Head(bootQ).kind = "hello"
    /\ bootQ' = Tail(bootQ)
    /\ LET p == Head(bootQ).from
       IN  \/ /\ ForceRemove({p})
              /\ UNCHANGED <<lease, sending>>
           \/ /\ lease' = [lease EXCEPT ![p] = NewLease]
              /\ sending' = <<p>>
              /\ UNCHANGED <<routed, link, outbox>>
    /\ UNCHANGED <<owner, stuck, violations, manager, subscribers, probation, dying, phase>>

\* What a renewal reports; nothing counts as a violation when it cannot be read.
Health == {"ok"} \cup (IF "reports" \in inputs THEN {"none", "hard"} ELSE {})

\* check_health: a hard violation is counted, any other report forgets them.
Checked(p, health) ==
    CASE health = "hard" -> Capped(violations[p] + 1, HardThreshold)
      [] health = "ok"   -> 0
      [] health = "none" -> violations[p]

\* handle_lease_renew: without a lease the renewal is ignored; the violation
\* that reaches the threshold degrades the system and clears the count.
HandleLeaseRenew ==
    /\ Idle
    /\ bootQ # <<>> /\ Head(bootQ).kind = "renew"
    /\ bootQ' = Tail(bootQ)
    /\ LET p == Head(bootQ).from
       IN  \/ /\ p \notin Leased
              /\ UNCHANGED <<sending, lease, violations, manager>>
           \/ /\ p \in Leased
              /\ \E health \in Health :
                    LET count == Checked(p, health)
                        degrade == health # "none" /\ count >= HardThreshold
                        after == IF degrade THEN Transition(manager, "safe") ELSE manager
                    IN  /\ lease' = [lease EXCEPT ![p] =
                                        [@ EXCEPT !.missed = 0, !.reported = health # "none"]]
                        /\ violations' = [violations EXCEPT ![p] = IF degrade THEN 0 ELSE count]
                        /\ manager' = after
                        /\ \E order \in Announced(manager, after, Routed) :
                                sending' = Append(order, p)
    /\ UNCHANGED <<link, owner, routed, outbox, stuck, subscribers, probation, dying, phase>>

\* handle_event_subscribe
EventSubscribe(p) ==
    /\ "events" \in inputs
    /\ Idle /\ Asks(p)
    /\ subscribers' = subscribers \cup {p}
    /\ sending' = <<p>>
    /\ UNCHANGED <<link, owner, routed, outbox, stuck, bootQ,
                   lease, violations, manager, probation, dying, phase>>

\* initiate_shutdown, after the messages "first": Shutdown goes to every
\* peer, the children are killed and the event loop ends.
InitiateShutdown(first) ==
    /\ \E order \in Orders(Routed) : sending' = first \o order
    /\ phase' = "draining"

\* handle_runlevel_request: the answer, the announcement, and for Halt the
\* shutdown.
RunlevelRequest(p, to) ==
    /\ (IF to = "halt" THEN "shutdown" ELSE "levels") \in inputs
    /\ Idle /\ Asks(p)
    /\ LET after == Transition(manager, to)
           accepted == after.current = to
       IN  /\ manager' = after
           /\ \E order \in (IF accepted THEN Orders(Routed) ELSE {<<>>}) :
                IF to = "halt" THEN InitiateShutdown(<<p>> \o order)
                ELSE sending' = <<p>> \o order /\ UNCHANGED phase
    /\ UNCHANGED <<link, owner, routed, outbox, stuck, bootQ,
                   lease, violations, subscribers, probation, dying>>

\* handle_admin_shutdown, or SIGTERM, which nobody is answered.
AdminShutdown ==
    /\ "shutdown" \in inputs
    /\ Idle
    /\ \/ \E p \in Peers : Asks(p) /\ InitiateShutdown(<<p>>)
       \/ InitiateShutdown(<<>>)
    /\ UNCHANGED <<link, owner, routed, outbox, stuck, bootQ,
                   lease, violations, manager, subscribers, probation, dying>>

\* broadcast_to_subscribers, when a build or a test makes progress.
BroadcastToSubscribers ==
    /\ Idle /\ subscribers # {}
    /\ sending' \in Orders(subscribers)
    /\ UNCHANGED <<link, owner, routed, outbox, stuck, bootQ, bootVars>>

-----------------------------------------------------------------------------
(* Ticks of the event loop.                                                *)

\* Mutant: a deadline that was missed is not counted.
CheckLeasesUncounted(late, dead) ==
    /\ Idle
    /\ late \subseteq Leased
    /\ dead \subseteq {p \in late : lease[p].missed + 1 >= MaxMissed}
    /\ dying' = dead
    /\ UNCHANGED <<routerVars, lease, violations, manager, subscribers, probation, phase>>

\* check_all: the leases of "late" have run out, and those of "dead" beyond
\* the grace period.
CheckLeases(late, dead) ==
    /\ Idle
    /\ late \subseteq Leased
    /\ dead \subseteq {p \in late : lease[p].missed + 1 >= MaxMissed}
    /\ lease' = [p \in Peers |->
                    IF p \in late
                    THEN [lease[p] EXCEPT !.missed = Capped(@ + 1, MaxMissed - 1)]
                    ELSE lease[p]]
    /\ dying' = dead
    /\ UNCHANGED <<routerVars, violations, manager, subscribers, probation, phase>>

\* Mutant: the violations of the dead peer stay.
DeadKeepsViolations(p) ==
    /\ phase = "running" /\ sending = <<>>
    /\ p \in dying
    /\ dying' = dying \ {p}
    /\ ForceRemove({p})
    /\ lease' = [lease EXCEPT ![p] = None]
    /\ subscribers' = subscribers \ {p}
    /\ manager' = RecordCrash(manager)
    /\ sending' \in Announced(manager, manager', Routed \ {p})
    /\ UNCHANGED <<owner, stuck, bootQ, violations, probation, phase>>

\* Mutant: the lease goes and the entry in the routing table stays.
DeadKeepsRoute(p) ==
    /\ phase = "running" /\ sending = <<>>
    /\ p \in dying
    /\ dying' = dying \ {p}
    /\ lease' = [lease EXCEPT ![p] = None]
    /\ violations' = [violations EXCEPT ![p] = 0]
    /\ subscribers' = subscribers \ {p}
    /\ manager' = RecordCrash(manager)
    /\ sending' \in Announced(manager, manager', Routed)
    /\ UNCHANGED <<link, owner, routed, outbox, stuck, bootQ, probation, phase>>

\* check_leases, for a peer declared dead: it is evicted and forgotten, and
\* counts as a crash, which may degrade the system.
HandleDead(p) ==
    /\ phase = "running" /\ sending = <<>>
    /\ p \in dying
    /\ dying' = dying \ {p}
    /\ ForceRemove({p})
    /\ lease' = [lease EXCEPT ![p] = None]
    /\ violations' = [violations EXCEPT ![p] = 0]
    /\ subscribers' = subscribers \ {p}
    /\ manager' = RecordCrash(manager)
    /\ sending' \in Announced(manager, manager', Routed \ {p})
    /\ UNCHANGED <<owner, stuck, bootQ, probation, phase>>

\* check_resource_based_transitions: the average over the reported health is
\* too high for Evolve.
CheckResourceBasedTransitions ==
    /\ Idle
    /\ manager.current = "evolve"
    /\ \E p \in Leased : lease[p].reported
    /\ manager' = Transition(manager, "normal")
    /\ sending' \in Announced(manager, manager', Routed)
    /\ UNCHANGED <<link, owner, routed, outbox, stuck, bootQ,
                   lease, violations, subscribers, probation, dying, phase>>

-----------------------------------------------------------------------------
(* Versions: what updates do to the peripheral's entries.                  *)

SetProbation(on) ==
    IF Peripheral \in Leased
    THEN [lease EXCEPT ![Peripheral] = [@ EXCEPT !.probation = on]]
    ELSE lease

\* handle_test_result, soft fail: the serving peripheral goes on probation.
StartProbation ==
    /\ "probation" \in inputs
    /\ Idle
    /\ probation' = TRUE
    /\ lease' = SetProbation(TRUE)
    /\ sending' = <<Peripheral>>
    /\ UNCHANGED <<link, owner, routed, outbox, stuck, bootQ,
                   violations, manager, subscribers, dying, phase>>

\* Mutant: the lease stays tight.
EndProbationOnly ==
    /\ Idle /\ probation
    /\ probation' = FALSE
    /\ sending' \in {<<>>, <<Peripheral>>}
    /\ UNCHANGED <<link, owner, routed, outbox, stuck, bootQ,
                   lease, violations, manager, subscribers, dying, phase>>

\* check_probation: the period is over; the peripheral is told if the judge
\* cannot be asked.
CheckProbation ==
    /\ Idle /\ probation
    /\ probation' = FALSE
    /\ lease' = SetProbation(FALSE)
    /\ sending' \in {<<>>, <<Peripheral>>}
    /\ UNCHANGED <<link, owner, routed, outbox, stuck, bootQ,
                   violations, manager, subscribers, dying, phase>>

\* replace_peripheral: its process is killed and its entry and lease go; its
\* violations and its subscription stay.
ReplacePeripheral ==
    /\ "replace" \in inputs
    /\ Idle
    /\ routed' = Unrouted({Peripheral})
    /\ link' = [c \in Conns |->
                    IF owner[c] = Peripheral /\ Talking(c) THEN "closed" ELSE link[c]]
    /\ outbox' = [c \in Conns |-> IF owner[c] = Peripheral THEN 0 ELSE outbox[c]]
    /\ stuck' = {c \in stuck : owner[c] # Peripheral}
    /\ lease' = [lease EXCEPT ![Peripheral] = None]
    /\ UNCHANGED <<owner, bootQ, sending,
                   violations, manager, subscribers, probation, dying, phase>>

\* The grace period of run: Boot asks the router for its peers until there
\* are none or five seconds have passed; it waits for each answer.
Stop ==
    /\ phase = "draining" /\ sending = <<>>
    /\ phase' = "stopped"
    /\ UNCHANGED <<routerVars, lease, violations, manager, subscribers, probation, dying>>

-----------------------------------------------------------------------------

Client(c) ==
    /\ phase # "stopped"
    /\ \/ Read(c) \/ Close(c) \/ RemovePeer(c)
       \/ "stuck" \in inputs /\ Stick(c)
       \/ owner[c] \notin Sessions /\ Forward(c)
       \/ \E p \in Peers : (p \in Sessions => "sessions" \in inputs) /\ Connect(p, c)
    /\ UNCHANGED bootVars

RouterDelivers == phase # "stopped" /\ Deliver /\ UNCHANGED bootVars

BootStep ==
    \/ HandleHello
    \/ HandleLeaseRenew
    \/ \E p \in Peers : EventSubscribe(p) \/ HandleDead(p)
    \/ \E p \in Peers, to \in Runlevels : RunlevelRequest(p, to)
    \/ \E late, dead \in SUBSET Peers : CheckLeases(late, dead)
    \/ AdminShutdown
    \/ BroadcastToSubscribers
    \/ CheckResourceBasedTransitions
    \/ StartProbation
    \/ CheckProbation
    \/ ReplacePeripheral
    \/ Stop

Next ==
    /\ RouterDelivers \/ BootStep \/ \E c \in Conns : Client(c)
    /\ UNCHANGED inputs

Spec == Init /\ [][Next]_vars

\* Nobody will renew p's lease: no connection of it speaks and no message of
\* it is on its way.
Silent(p) ==
    /\ ~Speaks(p)
    /\ \A i \in 1..Len(bootQ) : bootQ[i].from # p

\* A lease check at which every silent peer is late, and dead once it may be.
CheckSilent ==
    \E late, dead \in SUBSET Peers :
        /\ CheckLeases(late, dead)
        /\ \A p \in Leased : Silent(p) =>
                p \in late /\ (lease[p].missed + 1 >= MaxMissed => p \in dead)

\* The router and the connection tasks run; Boot takes its messages and its
\* ticks come; time passes, so that a silent lease runs out; a client that is
\* not stuck reads.  select! chooses at random among what is ready: a tick or
\* a message is not passed over forever, though what makes Boot busy may come
\* at any rate.
Fairness ==
    /\ WF_state(RouterDelivers)
    /\ \A c \in Conns : WF_state(Read(c) /\ phase # "stopped" /\ UNCHANGED bootVars)
    /\ SF_state(CheckSilent)
    /\ \A p \in Peers : WF_state(HandleDead(p))
    /\ WF_state(Stop)

FairSpec == Spec /\ Fairness

-----------------------------------------------------------------------------
(* Properties.                                                             *)

\* In Normal the streak of crashes is below the threshold: an operator's
\* return to Normal gives the system its full allowance of crashes again
\* (runlevel.rs:103), and no crash that reaches it is passed over.
NormalNoStreak == manager.current = "normal" => manager.crashes < CrashThreshold

\* A lease is tight only while there is a probation: neither its end, nor a
\* replacement or a reconnection meanwhile, leaves a peripheral with a
\* probationer's deadline (microkernel.rs:977 and 1285).
TightLeaseOnProbation ==
    Peripheral \in Leased /\ lease[Peripheral].probation => probation

\* What is held against a peer ends with its lease: one that comes back does
\* not start near the limit (microkernel.rs:1476).  A replacement of the
\* peripheral is the exception: replace_peripheral drops the lease and keeps
\* the count for the next version.
ViolationsEndWithLease ==
    "replace" \notin inputs =>
        \A p \in Peers : violations[p] > 0 => p \in Leased

\* Whoever is in the routing table is watched: its identity has a lease, or
\* its Hello is still on the way to Boot.  No death, eviction, replacement or
\* reconnection, in whatever order Boot comes to their messages, leaves an
\* entry that no lease check will ever look at (microkernel.rs:464, 1474 and
\* 1605, ipc.rs:348).
ConnectedIsWatched ==
    \A p \in Peers :
        routed[p] # None =>
            \/ p \in Leased
            \/ \E i \in 1..Len(bootQ) : bootQ[i] = [from |-> p, kind |-> "hello"]

\* A peer that went without a word is found dead and forgotten, unless it
\* comes back, the system stops, or a client that does not read blocks Boot.
SilentPeerForgotten ==
    \A p \in Peers :
        (p \in Leased /\ Silent(p)) ~>
            (p \notin Leased \/ ~Silent(p) \/ phase # "running" \/ stuck # {})

\* A shutdown that has begun ends, unless a client does not read: the five
\* seconds of the grace period do not bound the wait for the router.
ShutdownEnds == (phase = "draining") ~> (phase = "stopped" \/ stuck # {})

\* A session that ended is not a crash of the system: that its lease runs out
\* does not degrade it ("normal -> safe: consecutive crashes after rollback",
\* runlevel.rs:57).
SessionEndIsNoCrash ==
    [][\A p \in Sessions : HandleDead(p) => manager'.current = manager.current]_vars

=============================================================================
