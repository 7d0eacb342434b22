--------------------------- MODULE SupervisionProofs ---------------------------
(***************************************************************************)
(* What Boot's supervision keeps holds for any peers, channel sizes and    *)
(* thresholds.  The router and the connection tasks on one side and Boot's *)
(* handlers on the other share only the routing table and two queues: the  *)
(* invariant of the router and that of Boot are proved side by side.       *)
(***************************************************************************)
EXTENDS Supervision, FiniteSetTheorems, SequenceTheorems, TLAPS

\* A connection in use has said who it is.
Owned == \A c \in Conns : link[c] # "free" => owner[c] \in Peers
RouterInv == RouterTypeOK /\ Owned /\ OpenIsRouted

BootTypeOK ==
    /\ lease \in [Peers -> Leases \cup {None}]
    /\ violations \in [Peers -> 0..HardThreshold]
    /\ manager \in Managers
    /\ subscribers \subseteq Peers
    /\ probation \in BOOLEAN
    /\ dying \subseteq Peers
    /\ phase \in {"running", "draining", "stopped"}
    /\ inputs \in Scenarios
BootInv ==
    /\ BootTypeOK
    /\ NormalNoStreak
    /\ TightLeaseOnProbation
    /\ ViolationsEndWithLease

-----------------------------------------------------------------------------
(* Operators.                                                              *)

\* An order of a set of identities is a sequence of identities.
LEMMA OrdersAreSequences ==
  ASSUME NEW S \in SUBSET Peers
  PROVE  Orders(S) \subseteq Seq(Peers)
<1>1. Cardinality(S) \in Nat
  BY RouterAssumption, FS_Subset, FS_CardinalityType
<1>2. SUFFICES ASSUME NEW s \in Orders(S) PROVE s \in Seq(Peers)
  OBVIOUS
<1>3. s \in [1..Cardinality(S) -> Peers]
  BY DEF Orders
<1> QED
  BY <1>1, <1>3

\* An announcement is empty or an order of the identities.
LEMMA AnnouncedIsSequences ==
  ASSUME NEW before, NEW after, NEW S \in SUBSET Peers
  PROVE  Announced(before, after, S) \subseteq Seq(Peers)
<1>1. <<>> \in Seq(Peers)
  OBVIOUS
<1>2. Announced(before, after, S) = {<<>>} \/ Announced(before, after, S) = Orders(S)
  BY DEF Announced
<1> QED
  BY <1>1, <1>2, OrdersAreSequences

\* What a handler queues for one peer, or for none.
LEMMA ShortSequences ==
  /\ <<>> \in Seq(Peers)
  /\ \A p \in Peers : <<p>> \in Seq(Peers)
  OBVIOUS

\* Changing the level keeps the streak of crashes below the threshold in
\* Normal, and so does a crash.
Streak(m) == m.current = "normal" => m.crashes < CrashThreshold

LEMMA TransitionKeeps ==
  ASSUME NEW m \in Managers, NEW to \in Runlevels, Streak(m)
  PROVE  Transition(m, to) \in Managers /\ Streak(Transition(m, to))
  BY SupervisionAssumption DEF Transition, Managers, Streak

\* A crash that completes the streak in Normal leaves Normal.
LEMMA RecordCrashKeeps ==
  ASSUME NEW m \in Managers, Streak(m)
  PROVE  RecordCrash(m) \in Managers /\ Streak(RecordCrash(m))
<1> DEFINE crashes == Capped(m.crashes + 1, CrashThreshold)
           counted == [current |-> m.current, crashes |-> crashes]
<1>1. crashes \in 0..CrashThreshold
  BY SupervisionAssumption DEF Capped, Managers
<1>2. counted = [m EXCEPT !.crashes = Capped(@ + 1, CrashThreshold)]
  BY DEF Managers
<1>3. counted \in Managers
  BY <1>1 DEF Managers
<1>4. CASE crashes >= CrashThreshold /\ m.current = "normal"
  <2>1. RecordCrash(m) = Transition(counted, "safe")
    BY <1>2, <1>4 DEF RecordCrash
  <2>2. Transition(counted, "safe") = [current |-> "safe", crashes |-> crashes]
    BY <1>4 DEF Transition, IsValidTransition
  <2> QED
    BY <1>1, <2>1, <2>2 DEF Managers, Streak, Runlevels
<1>5. CASE ~(crashes >= CrashThreshold /\ m.current = "normal")
  <2>1. RecordCrash(m) = counted
    BY <1>2, <1>5 DEF RecordCrash
  <2> QED
    BY <1>1, <1>3, <1>5, <2>1, SupervisionAssumption DEF Streak
<1> QED
  BY <1>4, <1>5

-----------------------------------------------------------------------------
(* The router and the connection tasks.                                    *)

\* At the start there is no connection.
LEMMA RouterInitInv == RouterInit => RouterInv
  BY RouterAssumption
     DEF RouterInit, RouterInv, RouterTypeOK, Owned, OpenIsRouted, LinkStates

\* force_remove_peer takes the entries and with them the connections.
LEMMA ForceRemoveKeeps ==
  ASSUME RouterInv, NEW S \in SUBSET Peers, ForceRemove(S),
         UNCHANGED <<owner, stuck>>,
         bootQ' \in Seq([from : Peers, kind : Kinds]), sending' \in Seq(Peers)
  PROVE  RouterInv'
<1> USE DEF RouterInv, RouterTypeOK
<1>1. link' \in [Conns -> LinkStates] /\ routed' \in [Peers -> Conns \cup {None}]
  BY DEF ForceRemove, Evicted, Unrouted, LinkStates
<1>2. outbox' \in [Conns -> 0..OutboundSize]
  BY RouterAssumption DEF ForceRemove, Drained
<1>3. Owned'
  BY DEF Owned, ForceRemove, Evicted
<1>4. OpenIsRouted'
  BY RouterAssumption DEF OpenIsRouted, Owned, ForceRemove, Evicted, Unrouted, LinkStates
<1> QED
  BY <1>1, <1>2, <1>3, <1>4

\* The connection that takes an identity over evicts the one before it.
LEMMA ConnectKeeps ==
  ASSUME RouterInv, NEW p \in Peers, NEW c \in Conns, Connect(p, c)
  PROVE  RouterInv'
<1> USE DEF RouterInv, RouterTypeOK
<1>1. /\ link[c] = "free"
      /\ link' = [Evicted({p}) EXCEPT ![c] = "open"]
      /\ owner' = [owner EXCEPT ![c] = p]
      /\ routed' = [routed EXCEPT ![p] = c]
      /\ outbox' = Drained({p})
      /\ bootQ' = Append(bootQ, [from |-> p, kind |-> "hello"])
      /\ stuck' = stuck /\ sending' = sending
  BY DEF Connect, Free
<1>2. link' \in [Conns -> LinkStates] /\ owner' \in [Conns -> Peers \cup {None}]
  BY <1>1 DEF Evicted, LinkStates
<1>3. routed' \in [Peers -> Conns \cup {None}]
  BY <1>1
<1>4. outbox' \in [Conns -> 0..OutboundSize]
  BY <1>1, RouterAssumption DEF Drained
<1>5. bootQ' \in Seq([from : Peers, kind : Kinds])
  BY <1>1 DEF Kinds
<1>6. \A d \in Conns \ {c} :
          link'[d] = IF link[d] = "open" /\ routed[p] = d THEN "evicted" ELSE link[d]
  BY <1>1 DEF Evicted
<1>7. Owned'
  BY <1>1, <1>6 DEF Owned
<1>8. OpenIsRouted'
  <2> SUFFICES ASSUME NEW d \in Conns, link'[d] = "open" PROVE routed'[owner'[d]] = d
    BY DEF OpenIsRouted
  <2>1. CASE d = c
    BY <1>1, <2>1
  <2>2. CASE d # c
    <3>1. link[d] = "open" /\ routed[p] # d
      BY <1>6, <2>2
    <3>2. routed[owner[d]] = d /\ owner[d] \in Peers
      BY <3>1 DEF OpenIsRouted, Owned
    <3> QED
      BY <1>1, <2>2, <3>1, <3>2
  <2> QED
    BY <2>1, <2>2
<1> QED
  BY <1>1, <1>2, <1>3, <1>4, <1>5, <1>7, <1>8

\* A message to a client is put into its channel only when there is room.
LEMMA DeliverKeeps ==
  ASSUME RouterInv, Deliver
  PROVE  RouterInv'
<1> USE DEF RouterInv, RouterTypeOK
<1> DEFINE p == Head(sending)
           c == routed[p]
<1>1. /\ sending # <<>> /\ ~Blocked
      /\ sending' = Tail(sending)
      /\ outbox' = IF c # None /\ link[c] = "open"
                   THEN [outbox EXCEPT ![c] = @ + 1] ELSE outbox
      /\ UNCHANGED <<link, owner, routed, stuck, bootQ>>
  BY DEF Deliver
<1>2. p \in Peers /\ sending' \in Seq(Peers)
  BY <1>1
<1>3. outbox' \in [Conns -> 0..OutboundSize]
  <2>1. CASE c # None /\ link[c] = "open"
    <3>1. c \in Conns /\ outbox[c] # OutboundSize
      BY <1>1, <1>2, <2>1 DEF Blocked
    <3> QED
      BY <1>1, <2>1, <3>1, RouterAssumption
  <2>2. CASE ~(c # None /\ link[c] = "open")
    BY <1>1, <2>2
  <2> QED
    BY <2>1, <2>2
<1>4. Owned' /\ OpenIsRouted'
  BY <1>1 DEF Owned, OpenIsRouted
<1> QED
  BY <1>1, <1>2, <1>3, <1>4

\* What clients and their tasks do; RemovePeer drops an entry of its own only.
LEMMA ClientKeeps ==
  ASSUME RouterInv, NEW c \in Conns, Client(c)
  PROVE  RouterInv'
<1> USE DEF RouterInv, RouterTypeOK
<1>1. CASE Read(c)
  BY <1>1, RouterAssumption DEF Read, Owned, OpenIsRouted
<1>2. CASE Close(c)
  <2>1. /\ link' \in [Conns -> LinkStates]
        /\ outbox' \in [Conns -> 0..OutboundSize]
    BY <1>2, RouterAssumption DEF Close, LinkStates
  <2> QED
    BY <1>2, <2>1 DEF Close, Talking, Owned, OpenIsRouted
<1>3. CASE RemovePeer(c)
  <2>1. /\ link[c] = "closed"
        /\ link' = [link EXCEPT ![c] = "free"]
        /\ owner' = [owner EXCEPT ![c] = None]
        /\ routed' = [p \in Peers |-> IF routed[p] = c THEN None ELSE routed[p]]
        /\ UNCHANGED <<outbox, stuck, bootQ, sending>>
    BY <1>3 DEF RemovePeer
  <2>2. /\ link' \in [Conns -> LinkStates]
        /\ owner' \in [Conns -> Peers \cup {None}]
        /\ routed' \in [Peers -> Conns \cup {None}]
    BY <2>1 DEF LinkStates
  <2>3. Owned' /\ OpenIsRouted'
    BY <2>1 DEF Owned, OpenIsRouted
  <2> QED
    BY <2>1, <2>2, <2>3
<1>4. CASE Stick(c)
  BY <1>4 DEF Stick, Owned, OpenIsRouted
<1>5. CASE Forward(c)
  <2>1. [from |-> owner[c], kind |-> "renew"] \in [from : Peers, kind : Kinds]
    BY <1>5 DEF Forward, Talking, Owned, Kinds
  <2>2. bootQ' \in Seq([from : Peers, kind : Kinds])
    BY <1>5, <2>1 DEF Forward
  <2> QED
    BY <1>5, <2>2 DEF Forward, Owned, OpenIsRouted
<1>6. CASE \E p \in Peers : Connect(p, c)
  BY <1>6, ConnectKeeps
<1> QED
  BY <1>1, <1>2, <1>3, <1>4, <1>5, <1>6 DEF Client

-----------------------------------------------------------------------------
(* Boot's handlers.                                                        *)

Inv == RouterInv /\ BootInv

\* At the start there is no lease.
LEMMA BootInitInv == Init => BootInv
<1> SUFFICES ASSUME Init PROVE BootInv
  OBVIOUS
<1>1. lease \in [Peers -> Leases \cup {None}] /\ violations \in [Peers -> 0..HardThreshold]
  BY SupervisionAssumption DEF Init
<1>2. manager \in Managers /\ NormalNoStreak
  BY SupervisionAssumption DEF Init, Managers, Runlevels, NormalNoStreak
<1>3. TightLeaseOnProbation /\ ViolationsEndWithLease
  BY SupervisionAssumption DEF Init, TightLeaseOnProbation, ViolationsEndWithLease, Leased
<1> QED
  BY <1>1, <1>2, <1>3 DEF Init, BootInv, BootTypeOK

\* A handler that leaves the connections alone keeps the router's invariant
\* when what it queues are messages to identities.
LEMMA RouterUntouched ==
  ASSUME RouterInv, UNCHANGED <<link, owner, routed, outbox, stuck>>,
         bootQ' \in Seq([from : Peers, kind : Kinds]), sending' \in Seq(Peers)
  PROVE  RouterInv'
  BY DEF RouterInv, RouterTypeOK, Owned, OpenIsRouted

\* The next message to Boot names an identity.
LEMMA TailOfBootQ ==
  ASSUME RouterInv, bootQ # <<>>
  PROVE  /\ Head(bootQ).from \in Peers
         /\ Tail(bootQ) \in Seq([from : Peers, kind : Kinds])
<1>1. bootQ \in Seq([from : Peers, kind : Kinds])
  BY DEF RouterInv, RouterTypeOK
<1>2. /\ Head(bootQ) \in [from : Peers, kind : Kinds]
      /\ Tail(bootQ) \in Seq([from : Peers, kind : Kinds])
  BY <1>1, HeadTailProperties
<1> QED
  BY <1>2

\* What a handler does to the leases cannot break Boot's invariant when leases
\* only go with their violations.
LEMMA LeasesKept ==
  ASSUME BootInv, UNCHANGED <<subscribers, phase, inputs, manager>>,
         dying' \in SUBSET Peers, probation' \in BOOLEAN,
         lease' \in [Peers -> Leases \cup {None}],
         \A p \in Peers : lease'[p] = None <=> lease[p] = None,
         lease[Peripheral] # None => (lease'[Peripheral].probation => probation'),
         UNCHANGED violations
  PROVE  BootInv'
  BY SupervisionAssumption
     DEF BootInv, BootTypeOK, NormalNoStreak, TightLeaseOnProbation,
         ViolationsEndWithLease, Leased

\* A Hello evicts its identity or gives it a new lease.
LEMMA HelloKeeps ==
  ASSUME Inv, HandleHello, UNCHANGED inputs
  PROVE  Inv'
<1> USE DEF Inv
<1> DEFINE p == Head(bootQ).from
<1>1. /\ bootQ # <<>> /\ p \in Peers
      /\ bootQ' \in Seq([from : Peers, kind : Kinds])
      /\ UNCHANGED <<owner, stuck, violations, manager, subscribers, probation,
                     dying, phase, inputs>>
  BY TailOfBootQ DEF HandleHello
<1>2. CASE ForceRemove({p}) /\ UNCHANGED <<lease, sending>>
  <2>1. RouterInv'
    <3>1. sending' \in Seq(Peers)
      BY <1>2 DEF RouterInv, RouterTypeOK
    <3> QED
      BY <1>1, <1>2, <3>1, ForceRemoveKeeps
  <2>2. BootInv'
    BY <1>1, <1>2
       DEF BootInv, BootTypeOK, NormalNoStreak, TightLeaseOnProbation,
           ViolationsEndWithLease, Leased
  <2> QED
    BY <2>1, <2>2
<1>3. CASE /\ lease' = [lease EXCEPT ![p] = NewLease]
           /\ sending' = <<p>>
           /\ UNCHANGED <<routed, link, outbox>>
  <2>1. RouterInv'
    BY <1>1, <1>3, RouterUntouched
  <2>2. NewLease \in Leases /\ ~NewLease.probation
    BY SupervisionAssumption DEF NewLease, Leases
  <2>3. BootTypeOK'
    BY <1>1, <1>3, <2>2 DEF BootInv, BootTypeOK
  <2>4. NormalNoStreak'
    BY <1>1 DEF BootInv, NormalNoStreak
  <2>5. TightLeaseOnProbation' /\ ViolationsEndWithLease'
    BY <1>1, <1>3, <2>2, SupervisionAssumption
       DEF BootInv, BootTypeOK, TightLeaseOnProbation, ViolationsEndWithLease, Leased
  <2> QED
    BY <2>1, <2>3, <2>4, <2>5 DEF BootInv
<1> QED
  BY <1>2, <1>3 DEF HandleHello

\* A renewal counts violations against a peer that has a lease.
LEMMA LeaseRenewKeeps ==
  ASSUME Inv, HandleLeaseRenew, UNCHANGED inputs
  PROVE  Inv'
<1> USE DEF Inv
<1> DEFINE p == Head(bootQ).from
<1>1. /\ bootQ # <<>> /\ p \in Peers
      /\ bootQ' \in Seq([from : Peers, kind : Kinds])
      /\ UNCHANGED <<link, owner, routed, outbox, stuck>>
      /\ UNCHANGED <<subscribers, probation, dying, phase, inputs>>
  BY TailOfBootQ DEF HandleLeaseRenew
<1>2. CASE p \notin Leased /\ UNCHANGED <<sending, lease, violations, manager>>
  <2>1. sending' \in Seq(Peers)
    BY <1>2 DEF RouterInv, RouterTypeOK
  <2>2. RouterInv'
    BY <1>1, <2>1, RouterUntouched
  <2>3. BootInv'
    BY <1>1, <1>2
       DEF BootInv, BootTypeOK, NormalNoStreak, TightLeaseOnProbation,
           ViolationsEndWithLease, Leased
  <2> QED
    BY <2>2, <2>3
<1>3. CASE p \in Leased
  <2>1. PICK health \in Health :
          LET count == Checked(p, health)
              degrade == health # "none" /\ count >= HardThreshold
              after == IF degrade THEN Transition(manager, "safe") ELSE manager
          IN  /\ lease' = [lease EXCEPT ![p] =
                              [@ EXCEPT !.missed = 0, !.reported = health # "none"]]
              /\ violations' = [violations EXCEPT ![p] = IF degrade THEN 0 ELSE count]
              /\ manager' = after
              /\ \E order \in Announced(manager, after, Routed) :
                      sending' = Append(order, p)
    BY <1>3 DEF HandleLeaseRenew
  <2> DEFINE count == Checked(p, health)
             degrade == health # "none" /\ count >= HardThreshold
  <2>2. lease[p] \in Leases
    BY <1>1, <1>3 DEF BootInv, BootTypeOK, Leased
  <2>3. count \in 0..HardThreshold
    <3>1. violations[p] \in 0..HardThreshold
      BY <1>1 DEF BootInv, BootTypeOK
    <3>2. health \in {"ok", "none", "hard"}
      BY DEF Health
    <3> QED
      BY <3>1, <3>2, SupervisionAssumption DEF Checked, Capped
  <2>4. manager' \in Managers /\ Streak(manager')
    BY <2>1, TransitionKeeps
       DEF BootInv, BootTypeOK, NormalNoStreak, Streak, Runlevels
  <2>5. sending' \in Seq(Peers)
    <3>1. PICK order \in Announced(manager, manager', Routed) : sending' = Append(order, p)
      BY <2>1
    <3>2. order \in Seq(Peers)
      BY AnnouncedIsSequences DEF Routed
    <3> QED
      BY <1>1, <3>1, <3>2
  <2>6. RouterInv'
    BY <1>1, <2>5, RouterUntouched
  <2> DEFINE renewed == [lease[p] EXCEPT !.missed = 0, !.reported = health # "none"]
  <2>7. /\ lease' = [lease EXCEPT ![p] = renewed]
        /\ renewed \in Leases /\ renewed.probation = lease[p].probation
    <3>1. lease' = [lease EXCEPT ![p] = renewed]
      BY <1>1, <2>1 DEF BootInv, BootTypeOK
    <3>2. (health # "none") \in BOOLEAN /\ 0 \in 0..(MaxMissed - 1)
      BY SupervisionAssumption
    <3> QED
      BY <2>2, <3>1, <3>2 DEF Leases
  <2>8. lease' \in [Peers -> Leases \cup {None}]
    BY <1>1, <2>7 DEF BootInv, BootTypeOK
  <2>9. violations' = [violations EXCEPT ![p] = IF degrade THEN 0 ELSE count]
    BY <2>1
  <2>10. violations' \in [Peers -> 0..HardThreshold]
    BY <1>1, <2>3, <2>9, SupervisionAssumption DEF BootInv, BootTypeOK
  <2>11. TightLeaseOnProbation'
    BY <1>1, <1>3, <2>7, SupervisionAssumption
       DEF BootInv, BootTypeOK, TightLeaseOnProbation, Leased
  <2>12. ViolationsEndWithLease'
    <3> SUFFICES ASSUME "replace" \notin inputs, NEW q \in Peers, violations'[q] > 0
                 PROVE  lease'[q] # None
      BY <1>1 DEF ViolationsEndWithLease, Leased
    <3>1. CASE q = p
      BY <1>1, <2>7, <3>1, SupervisionAssumption DEF BootInv, BootTypeOK
    <3>2. CASE q # p
      <4>1. violations'[q] = violations[q] /\ lease'[q] = lease[q]
        BY <1>1, <2>7, <2>9, <3>2 DEF BootInv, BootTypeOK
      <4> QED
        BY <4>1 DEF BootInv, ViolationsEndWithLease, Leased
    <3> QED
      BY <3>1, <3>2
  <2>13. BootTypeOK'
    BY <1>1, <2>4, <2>8, <2>10 DEF BootInv, BootTypeOK
  <2>14. NormalNoStreak'
    BY <2>4 DEF NormalNoStreak, Streak
  <2> QED
    BY <2>6, <2>11, <2>12, <2>13, <2>14 DEF BootInv
<1> QED
  BY <1>2, <1>3 DEF HandleLeaseRenew

\* A subscription.
LEMMA EventSubscribeKeeps ==
  ASSUME Inv, NEW p \in Peers, EventSubscribe(p), UNCHANGED inputs
  PROVE  Inv'
<1>1. /\ subscribers' \subseteq Peers /\ sending' = <<p>>
      /\ UNCHANGED <<link, owner, routed, outbox, stuck, bootQ, lease, violations,
                     manager, probation, dying, phase, inputs>>
  BY DEF EventSubscribe, Inv, BootInv, BootTypeOK
<1>2. RouterInv'
  BY <1>1, RouterUntouched DEF Inv, RouterInv, RouterTypeOK
<1>3. BootInv'
  BY <1>1 DEF Inv, BootInv, BootTypeOK, NormalNoStreak, TightLeaseOnProbation,
              ViolationsEndWithLease, Leased
<1> QED
  BY <1>2, <1>3 DEF Inv

\* A shutdown queues its messages after the answer.
LEMMA ShutdownQueues ==
  ASSUME NEW first \in Seq(Peers), InitiateShutdown(first)
  PROVE  sending' \in Seq(Peers) /\ phase' \in {"running", "draining", "stopped"}
<1>1. PICK order \in Orders(Routed) : sending' = first \o order
  BY DEF InitiateShutdown
<1>2. order \in Seq(Peers)
  BY OrdersAreSequences DEF Routed
<1> QED
  BY <1>1, <1>2 DEF InitiateShutdown

\* A requested change of the runlevel, or the shutdown of Halt.
LEMMA RunlevelRequestKeeps ==
  ASSUME Inv, NEW p \in Peers, NEW to \in Runlevels, RunlevelRequest(p, to),
         UNCHANGED inputs
  PROVE  Inv'
<1> DEFINE after == Transition(manager, to)
<1>1. /\ manager' = after
      /\ \E order \in (IF after.current = to THEN Orders(Routed) ELSE {<<>>}) :
            IF to = "halt" THEN InitiateShutdown(<<p>> \o order)
            ELSE sending' = <<p>> \o order /\ UNCHANGED phase
      /\ UNCHANGED <<link, owner, routed, outbox, stuck, bootQ, lease, violations,
                     subscribers, probation, dying, inputs>>
  BY DEF RunlevelRequest
<1>2. after \in Managers /\ Streak(after)
  BY TransitionKeeps DEF Inv, BootInv, BootTypeOK, NormalNoStreak, Streak
<1>3. sending' \in Seq(Peers) /\ phase' \in {"running", "draining", "stopped"}
  <2>1. PICK order \in (IF after.current = to THEN Orders(Routed) ELSE {<<>>}) :
            IF to = "halt" THEN InitiateShutdown(<<p>> \o order)
            ELSE sending' = <<p>> \o order /\ UNCHANGED phase
    BY <1>1
  <2>2. order \in Seq(Peers)
    <3>1. order \in Orders(Routed) \/ order = <<>>
      BY <2>1
    <3>2. Orders(Routed) \subseteq Seq(Peers)
      BY OrdersAreSequences DEF Routed
    <3>3. CASE order = <<>>
      BY <3>3, ShortSequences, Zenon
    <3> QED
      BY <3>1, <3>2, <3>3, Zenon
  <2>3. <<p>> \o order \in Seq(Peers)
    BY <2>2
  <2>4. CASE to = "halt"
    BY <2>1, <2>3, <2>4, ShutdownQueues
  <2>5. CASE to # "halt"
    BY <2>1, <2>3, <2>5 DEF Inv, BootInv, BootTypeOK
  <2> QED
    BY <2>4, <2>5
<1>4. RouterInv'
  BY <1>1, <1>3, RouterUntouched DEF Inv, RouterInv, RouterTypeOK
<1>5. BootInv'
  BY <1>1, <1>2, <1>3
     DEF Inv, BootInv, BootTypeOK, NormalNoStreak, Streak, TightLeaseOnProbation,
         ViolationsEndWithLease, Leased
<1> QED
  BY <1>4, <1>5 DEF Inv

\* A shutdown by an admin or by SIGTERM.
LEMMA AdminShutdownKeeps ==
  ASSUME Inv, AdminShutdown, UNCHANGED inputs
  PROVE  Inv'
<1>1. UNCHANGED <<link, owner, routed, outbox, stuck, bootQ, lease, violations,
                  manager, subscribers, probation, dying, inputs>>
  BY DEF AdminShutdown
<1>2. sending' \in Seq(Peers) /\ phase' \in {"running", "draining", "stopped"}
  <2>1. CASE InitiateShutdown(<<>>)
    <3>1. <<>> \in Seq(Peers)
      BY ShortSequences
    <3> QED
      BY <2>1, <3>1, ShutdownQueues, Zenon
  <2>2. ASSUME NEW p \in Peers, InitiateShutdown(<<p>>)
        PROVE  sending' \in Seq(Peers) /\ phase' \in {"running", "draining", "stopped"}
    <3>1. <<p>> \in Seq(Peers)
      BY ShortSequences
    <3> QED
      BY <2>2, <3>1, ShutdownQueues, Zenon
  <2> QED
    BY <2>1, <2>2 DEF AdminShutdown
<1>3. RouterInv'
  BY <1>1, <1>2, RouterUntouched DEF Inv, RouterInv, RouterTypeOK
<1>4. BootInv'
  BY <1>1, <1>2
     DEF Inv, BootInv, BootTypeOK, NormalNoStreak, TightLeaseOnProbation,
         ViolationsEndWithLease, Leased
<1> QED
  BY <1>3, <1>4 DEF Inv

\* An event goes to the subscribers and changes nothing else.
LEMMA BroadcastKeeps ==
  ASSUME Inv, BroadcastToSubscribers, UNCHANGED inputs
  PROVE  Inv'
<1>1. UNCHANGED <<link, owner, routed, outbox, stuck, bootQ, bootVars, inputs>>
  BY DEF BroadcastToSubscribers
<1>2. sending' \in Seq(Peers)
  BY OrdersAreSequences DEF BroadcastToSubscribers, Inv, BootInv, BootTypeOK
<1>3. RouterInv'
  BY <1>1, <1>2, RouterUntouched DEF Inv, RouterInv, RouterTypeOK
<1>4. BootInv'
  BY <1>1
     DEF Inv, BootInv, BootTypeOK, NormalNoStreak, TightLeaseOnProbation,
         ViolationsEndWithLease, Leased, bootVars
<1> QED
  BY <1>3, <1>4 DEF Inv

\* Counting missed deadlines neither gives nor takes a lease.
LEMMA CheckLeasesKeeps ==
  ASSUME Inv, NEW late \in SUBSET Peers, NEW dead \in SUBSET Peers,
         CheckLeases(late, dead), UNCHANGED inputs
  PROVE  Inv'
<1>1. /\ late \subseteq Leased
      /\ lease' = [p \in Peers |->
                      IF p \in late
                      THEN [lease[p] EXCEPT !.missed = Capped(@ + 1, MaxMissed - 1)]
                      ELSE lease[p]]
      /\ dying' = dead
      /\ UNCHANGED <<routerVars, violations, manager, subscribers, probation, phase, inputs>>
  BY DEF CheckLeases
<1>2. \A p \in late : /\ lease'[p] \in Leases
                      /\ lease'[p].probation = lease[p].probation
  <2> TAKE p \in late
  <2>1. lease[p] \in Leases
    BY <1>1 DEF Leased, Inv, BootInv, BootTypeOK
  <2>2. Capped(lease[p].missed + 1, MaxMissed - 1) \in 0..(MaxMissed - 1)
    BY <2>1, SupervisionAssumption DEF Capped, Leases
  <2>3. lease'[p] = [lease[p] EXCEPT !.missed = Capped(@ + 1, MaxMissed - 1)]
    BY <1>1
  <2> QED
    BY <2>1, <2>2, <2>3 DEF Leases
<1>3. \A p \in Peers \ late : lease'[p] = lease[p]
  BY <1>1
<1>4. RouterInv'
  BY <1>1 DEF routerVars, Inv, RouterInv, RouterTypeOK, Owned, OpenIsRouted
<1>5. BootInv'
  <2>1. lease' \in [Peers -> Leases \cup {None}]
    BY <1>1, <1>2, <1>3 DEF Inv, BootInv, BootTypeOK
  <2>2. \A p \in Peers : lease'[p] = None <=> lease[p] = None
    BY <1>1, <1>2, <1>3, SupervisionAssumption DEF Leased
  <2>3. lease'[Peripheral].probation => lease[Peripheral].probation
    BY <1>2, <1>3, SupervisionAssumption
  <2>4. TightLeaseOnProbation' /\ ViolationsEndWithLease'
    BY <1>1, <2>2, <2>3, SupervisionAssumption
       DEF Inv, BootInv, TightLeaseOnProbation, ViolationsEndWithLease, Leased
  <2> QED
    BY <1>1, <2>1, <2>4 DEF Inv, BootInv, BootTypeOK, NormalNoStreak
<1> QED
  BY <1>4, <1>5 DEF Inv

\* A dead peer loses its entry, its lease and its violations together.
LEMMA HandleDeadKeeps ==
  ASSUME Inv, NEW p \in Peers, HandleDead(p), UNCHANGED inputs
  PROVE  Inv'
<1>1. /\ dying' = dying \ {p}
      /\ ForceRemove({p})
      /\ lease' = [lease EXCEPT ![p] = None]
      /\ violations' = [violations EXCEPT ![p] = 0]
      /\ subscribers' = subscribers \ {p}
      /\ manager' = RecordCrash(manager)
      /\ sending' \in Announced(manager, manager', Routed \ {p})
      /\ UNCHANGED <<owner, stuck, bootQ, probation, phase, inputs>>
  BY DEF HandleDead
<1>2. manager' \in Managers /\ Streak(manager')
  BY <1>1, RecordCrashKeeps DEF Inv, BootInv, BootTypeOK, NormalNoStreak, Streak
<1>3. sending' \in Seq(Peers)
  <2>1. Routed \ {p} \in SUBSET Peers
    BY DEF Routed
  <2> QED
    BY <1>1, <2>1, AnnouncedIsSequences
<1>4. RouterInv'
  <2>1. bootQ' \in Seq([from : Peers, kind : Kinds])
    BY <1>1 DEF Inv, RouterInv, RouterTypeOK
  <2> QED
    BY <1>1, <1>3, <2>1, ForceRemoveKeeps DEF Inv
<1>5. BootTypeOK'
  BY <1>1, <1>2, SupervisionAssumption DEF Inv, BootInv, BootTypeOK
<1>6. TightLeaseOnProbation' /\ ViolationsEndWithLease'
  BY <1>1, SupervisionAssumption
     DEF Inv, BootInv, BootTypeOK, TightLeaseOnProbation, ViolationsEndWithLease, Leased
<1> QED
  BY <1>2, <1>4, <1>5, <1>6 DEF Inv, BootInv, NormalNoStreak, Streak

\* Leaving Evolve for Normal clears the crashes.
LEMMA ResourceCheckKeeps ==
  ASSUME Inv, CheckResourceBasedTransitions, UNCHANGED inputs
  PROVE  Inv'
<1>1. /\ manager' = Transition(manager, "normal")
      /\ sending' \in Announced(manager, manager', Routed)
      /\ UNCHANGED <<link, owner, routed, outbox, stuck, bootQ, lease, violations,
                     subscribers, probation, dying, phase, inputs>>
  BY DEF CheckResourceBasedTransitions
<1>2. manager' \in Managers /\ Streak(manager')
  BY <1>1, TransitionKeeps
     DEF Inv, BootInv, BootTypeOK, NormalNoStreak, Streak, Runlevels
<1>3. sending' \in Seq(Peers)
  BY <1>1, AnnouncedIsSequences DEF Routed
<1>4. RouterInv'
  BY <1>1, <1>3, RouterUntouched DEF Inv, RouterInv, RouterTypeOK
<1>5. BootInv'
  BY <1>1, <1>2
     DEF Inv, BootInv, BootTypeOK, NormalNoStreak, Streak, TightLeaseOnProbation,
         ViolationsEndWithLease, Leased
<1> QED
  BY <1>4, <1>5 DEF Inv

\* The deadline of the peripheral's lease is tightened or restored.
LEMMA SetProbationKeeps ==
  ASSUME Inv, NEW on \in BOOLEAN, lease' = SetProbation(on)
  PROVE  /\ lease' \in [Peers -> Leases \cup {None}]
         /\ \A p \in Peers : lease'[p] = None <=> lease[p] = None
         /\ lease[Peripheral] # None => lease'[Peripheral].probation = on
<1>1. CASE Peripheral \in Leased
  <2> DEFINE tuned == [lease[Peripheral] EXCEPT !.probation = on]
  <2>1. lease[Peripheral] \in Leases
    BY <1>1 DEF Leased, Inv, BootInv, BootTypeOK
  <2>2. tuned \in Leases /\ tuned.probation = on
    BY <2>1 DEF Leases
  <2>3. lease' = [lease EXCEPT ![Peripheral] = tuned]
    BY <1>1 DEF SetProbation
  <2> HIDE DEF tuned
  <2> QED
    BY <1>1, <2>2, <2>3, SupervisionAssumption DEF Leased, Inv, BootInv, BootTypeOK
<1>2. CASE Peripheral \notin Leased
  BY <1>2, SupervisionAssumption DEF SetProbation, Leased, Inv, BootInv, BootTypeOK
<1> QED
  BY <1>1, <1>2

\* A probation and the tight lease begin and end together.
LEMMA ProbationKeeps ==
  ASSUME Inv, StartProbation \/ CheckProbation, UNCHANGED inputs
  PROVE  Inv'
<1>1. PICK on \in BOOLEAN :
        /\ probation' = on
        /\ lease' = SetProbation(on)
        /\ sending' \in {<<>>, <<Peripheral>>}
        /\ UNCHANGED <<link, owner, routed, outbox, stuck, bootQ, violations,
                       manager, subscribers, dying, phase, inputs>>
  BY DEF StartProbation, CheckProbation
<1>2. sending' \in Seq(Peers)
  BY <1>1, ShortSequences, SupervisionAssumption, Zenon
<1>3. RouterInv'
  BY <1>1, <1>2, RouterUntouched DEF Inv, RouterInv, RouterTypeOK
<1>4. BootInv'
  <2>1. /\ lease' \in [Peers -> Leases \cup {None}]
        /\ \A p \in Peers : lease'[p] = None <=> lease[p] = None
        /\ lease[Peripheral] # None => lease'[Peripheral].probation = on
    BY <1>1, SetProbationKeeps
  <2> QED
    BY <1>1, <2>1, LeasesKept DEF Inv, BootInv, BootTypeOK
<1> QED
  BY <1>3, <1>4 DEF Inv

\* A replacement closes the peripheral's connections and drops its entry.
LEMMA ReplaceKeeps ==
  ASSUME Inv, ReplacePeripheral, UNCHANGED inputs
  PROVE  Inv'
<1>1. /\ "replace" \in inputs
      /\ routed' = Unrouted({Peripheral})
      /\ link' = [c \in Conns |->
                      IF owner[c] = Peripheral /\ Talking(c) THEN "closed" ELSE link[c]]
      /\ outbox' = [c \in Conns |-> IF owner[c] = Peripheral THEN 0 ELSE outbox[c]]
      /\ stuck' = {c \in stuck : owner[c] # Peripheral}
      /\ lease' = [lease EXCEPT ![Peripheral] = None]
      /\ UNCHANGED <<owner, bootQ, sending, violations, manager, subscribers,
                     probation, dying, phase, inputs>>
  BY DEF ReplacePeripheral
<1>2. RouterTypeOK'
  <2>1. link' \in [Conns -> LinkStates] /\ outbox' \in [Conns -> 0..OutboundSize]
    BY <1>1, RouterAssumption DEF Inv, RouterInv, RouterTypeOK, LinkStates
  <2>2. routed' \in [Peers -> Conns \cup {None}]
    BY <1>1 DEF Unrouted, Inv, RouterInv, RouterTypeOK
  <2> QED
    BY <1>1, <2>1, <2>2 DEF Inv, RouterInv, RouterTypeOK
<1>3. Owned' /\ OpenIsRouted'
  BY <1>1, SupervisionAssumption
     DEF Inv, RouterInv, Owned, OpenIsRouted, Talking, Unrouted
<1>4. BootInv'
  BY <1>1, SupervisionAssumption
     DEF Inv, BootInv, BootTypeOK, NormalNoStreak, TightLeaseOnProbation,
         ViolationsEndWithLease, Leased
<1> QED
  BY <1>2, <1>3, <1>4 DEF Inv, RouterInv

\* Stopping, or doing nothing.
LEMMA UntouchedKeeps ==
  ASSUME Inv, UNCHANGED <<routerVars, lease, violations, manager, subscribers,
                          probation, dying, inputs>>,
         phase' \in {"running", "draining", "stopped"}
  PROVE  Inv'
  BY DEF Inv, RouterInv, RouterTypeOK, Owned, OpenIsRouted, routerVars,
         BootInv, BootTypeOK, NormalNoStreak, TightLeaseOnProbation,
         ViolationsEndWithLease, Leased

\* A step of the router or of a connection touches nothing of Boot.
LEMMA RouterStepKeeps ==
  ASSUME Inv, RouterInv', UNCHANGED <<bootVars, inputs>>
  PROVE  Inv'
  BY DEF Inv, BootInv, BootTypeOK, NormalNoStreak, TightLeaseOnProbation,
         ViolationsEndWithLease, Leased, bootVars

\* Every step keeps the invariant.
LEMMA InvNext == Inv /\ [Next]_vars => Inv'
<1> SUFFICES ASSUME Inv, [Next]_vars PROVE Inv'
  OBVIOUS
<1>1. CASE UNCHANGED vars
  <2>1. UNCHANGED <<routerVars, bootVars, inputs>>
    BY <1>1 DEF vars, state
  <2> QED
    BY <2>1, UntouchedKeeps DEF bootVars, Inv, BootInv, BootTypeOK
<1>2. CASE RouterDelivers /\ UNCHANGED inputs
  BY <1>2, DeliverKeeps, RouterStepKeeps DEF RouterDelivers, Inv
<1>3. CASE (\E c \in Conns : Client(c)) /\ UNCHANGED inputs
  BY <1>3, ClientKeeps, RouterStepKeeps DEF Client, Inv
<1>4. CASE BootStep /\ UNCHANGED inputs
  <2>1. CASE HandleHello
    BY <1>4, <2>1, HelloKeeps
  <2>2. CASE HandleLeaseRenew
    BY <1>4, <2>2, LeaseRenewKeeps
  <2>3. CASE \E p \in Peers : EventSubscribe(p) \/ HandleDead(p)
    BY <1>4, <2>3, EventSubscribeKeeps, HandleDeadKeeps
  <2>4. CASE \E p \in Peers, to \in Runlevels : RunlevelRequest(p, to)
    BY <1>4, <2>4, RunlevelRequestKeeps
  <2>5. CASE \E late, dead \in SUBSET Peers : CheckLeases(late, dead)
    BY <1>4, <2>5, CheckLeasesKeeps
  <2>6. CASE AdminShutdown
    BY <1>4, <2>6, AdminShutdownKeeps
  <2>7. CASE BroadcastToSubscribers
    BY <1>4, <2>7, BroadcastKeeps
  <2>8. CASE CheckResourceBasedTransitions
    BY <1>4, <2>8, ResourceCheckKeeps
  <2>9. CASE StartProbation \/ CheckProbation
    BY <1>4, <2>9, ProbationKeeps
  <2>10. CASE ReplacePeripheral
    BY <1>4, <2>10, ReplaceKeeps
  <2>11. CASE Stop
    BY <1>4, <2>11, UntouchedKeeps DEF Stop
  <2> QED
    BY <1>4, <2>1, <2>2, <2>3, <2>4, <2>5, <2>6, <2>7, <2>8, <2>9, <2>10, <2>11
       DEF BootStep
<1> QED
  BY <1>1, <1>2, <1>3, <1>4 DEF Next

-----------------------------------------------------------------------------
(* Theorems.                                                               *)

\* The invariant holds.
LEMMA InvAlways == Spec => []Inv
<1>1. Init => Inv
  BY RouterInitInv, BootInitInv DEF Init, Inv
<1> QED
  BY <1>1, InvNext, PTL DEF Spec

\* The state of router and supervisor stays within its types, for any
\* identities, channel sizes and thresholds: no channel or count overflows.
THEOREM TypeCorrect == Spec => []TypeOK
<1>1. Inv => TypeOK
  BY DEF Inv, RouterInv, BootInv, BootTypeOK, TypeOK
<1> QED
  BY <1>1, InvAlways, PTL

\* A connection that was not superseded keeps its entry in the routing table,
\* whatever older connections of its identity still clean up (ipc.rs:278).
THEOREM CurrentStaysRouted == Spec => []OpenIsRouted
<1>1. Inv => OpenIsRouted
  BY DEF Inv, RouterInv
<1> QED
  BY <1>1, InvAlways, PTL

\* Normal always has a full count of crashes left before it degrades
\* (runlevel.rs:57 and 103).
THEOREM NoStreakInNormal == Spec => []NormalNoStreak
<1>1. Inv => NormalNoStreak
  BY DEF Inv, BootInv
<1> QED
  BY <1>1, InvAlways, PTL

\* No lease keeps a probationer's deadline without a probation
\* (microkernel.rs:977 and 1285).
THEOREM NoTightLeaseWithout == Spec => []TightLeaseOnProbation
<1>1. Inv => TightLeaseOnProbation
  BY DEF Inv, BootInv
<1> QED
  BY <1>1, InvAlways, PTL

\* Violations are forgotten with the lease of the peer, except across a
\* replacement (microkernel.rs:1476).
THEOREM ViolationsForgotten == Spec => []ViolationsEndWithLease
<1>1. Inv => ViolationsEndWithLease
  BY DEF Inv, BootInv
<1> QED
  BY <1>1, InvAlways, PTL

-----------------------------------------------------------------------------
(* Nobody in the routing table is unwatched.                               *)

HelloOf(p) == [from |-> p, kind |-> "hello"]
Announces(p) == \E i \in 1..Len(bootQ) : bootQ[i] = HelloOf(p)

\* A Hello on its way stays there when Boot takes another message, or when a
\* message is put behind it.
LEMMA HelloWaits ==
  ASSUME RouterInv, NEW p \in Peers, Announces(p)
  PROVE  /\ bootQ' = bootQ => Announces(p)'
         /\ \A new \in [from : Peers, kind : Kinds] :
                bootQ' = Append(bootQ, new) => Announces(p)'
         /\ bootQ' = Tail(bootQ) /\ Head(bootQ) # HelloOf(p) => Announces(p)'
<1>1. bootQ \in Seq([from : Peers, kind : Kinds])
  BY DEF RouterInv, RouterTypeOK
<1>2. PICK i \in 1..Len(bootQ) : bootQ[i] = HelloOf(p)
  BY DEF Announces
<1>3. bootQ' = bootQ => Announces(p)'
  BY <1>2 DEF Announces, HelloOf
<1>4. ASSUME NEW new \in [from : Peers, kind : Kinds], bootQ' = Append(bootQ, new)
      PROVE  Announces(p)'
  <2>1. i \in 1..Len(bootQ') /\ bootQ'[i] = HelloOf(p)
    BY <1>1, <1>2, <1>4
  <2> QED
    BY <2>1 DEF Announces, HelloOf
<1>5. ASSUME bootQ' = Tail(bootQ), Head(bootQ) # HelloOf(p)
      PROVE  Announces(p)'
  <2>1. bootQ # <<>> /\ i # 1
    BY <1>1, <1>2, <1>5
  <2>2. i - 1 \in 1..Len(bootQ') /\ bootQ'[i - 1] = HelloOf(p)
    BY <1>1, <1>2, <1>5, <2>1
  <2> QED
    BY <2>2 DEF Announces, HelloOf
<1> QED
  BY <1>3, <1>4, <1>5

\* A connection that takes an identity announces it.
LEMMA ConnectAnnounces ==
  ASSUME RouterInv, NEW p \in Peers, NEW c \in Conns, Connect(p, c)
  PROVE  Announces(p)'
<1>1. bootQ' = Append(bootQ, HelloOf(p)) /\ bootQ \in Seq([from : Peers, kind : Kinds])
  BY DEF Connect, HelloOf, RouterInv, RouterTypeOK
<1>2. /\ Len(bootQ') = Len(bootQ) + 1
      /\ bootQ'[Len(bootQ) + 1] = HelloOf(p)
      /\ Len(bootQ) + 1 \in 1..Len(bootQ')
  BY <1>1 DEF HelloOf
<1> QED
  BY <1>2 DEF Announces, HelloOf

\* A step that gives nobody an entry, takes no lease and leaves the queue.
LEMMA StillWatched ==
  ASSUME Inv, ConnectedIsWatched, bootQ' = bootQ,
         \A p \in Peers : routed'[p] # None => routed[p] # None,
         \A p \in Peers : routed'[p] # None /\ lease[p] # None => lease'[p] # None
  PROVE  ConnectedIsWatched'
<1> SUFFICES ASSUME NEW p \in Peers, routed'[p] # None
             PROVE  p \in Leased' \/ Announces(p)'
  BY DEF ConnectedIsWatched, Announces, HelloOf
<1>1. p \in Leased \/ Announces(p)
  BY DEF ConnectedIsWatched, Announces, HelloOf
<1>2. CASE p \in Leased
  BY <1>2 DEF Leased
<1>3. CASE Announces(p)
  BY <1>3, HelloWaits DEF Inv
<1> QED
  BY <1>1, <1>2, <1>3

\* What clients do: a new entry comes with a Hello, and a heartbeat waits
\* behind the Hellos before it.
LEMMA ClientWatched ==
  ASSUME Inv, ConnectedIsWatched, NEW c \in Conns, Client(c)
  PROVE  ConnectedIsWatched'
<1>1. lease' = lease
  BY DEF Client, bootVars
<1>2. CASE Read(c) \/ Close(c) \/ RemovePeer(c) \/ Stick(c)
  <2>1. bootQ' = bootQ /\ \A p \in Peers : routed'[p] # None => routed[p] # None
    BY <1>2 DEF Read, Close, RemovePeer, Stick, Inv, RouterInv, RouterTypeOK
  <2> QED
    BY <1>1, <2>1, StillWatched
<1>3. CASE Forward(c)
  <2> DEFINE new == [from |-> owner[c], kind |-> "renew"]
  <2>1. new \in [from : Peers, kind : Kinds] /\ bootQ' = Append(bootQ, new) /\ routed' = routed
    BY <1>3 DEF Forward, Talking, Inv, RouterInv, Owned, Kinds
  <2> HIDE DEF new
  <2> SUFFICES ASSUME NEW p \in Peers, routed'[p] # None
               PROVE  p \in Leased' \/ Announces(p)'
    BY DEF ConnectedIsWatched, Announces, HelloOf
  <2>2. p \in Leased \/ Announces(p)
    BY <2>1 DEF ConnectedIsWatched, Announces, HelloOf
  <2>3. p \in Leased => p \in Leased'
    BY <1>1 DEF Leased
  <2>4. Announces(p) => Announces(p)'
    BY <2>1, HelloWaits DEF Inv
  <2> QED
    BY <2>2, <2>3, <2>4
<1>4. ASSUME NEW p \in Peers, Connect(p, c)
      PROVE  ConnectedIsWatched'
  <2> DEFINE new == [from |-> p, kind |-> "hello"]
  <2>1. /\ new \in [from : Peers, kind : Kinds] /\ bootQ' = Append(bootQ, new)
        /\ routed' = [routed EXCEPT ![p] = c]
    BY <1>4 DEF Connect, Kinds
  <2> HIDE DEF new
  <2>2. Announces(p)'
    BY <1>4, ConnectAnnounces DEF Inv
  <2> SUFFICES ASSUME NEW q \in Peers, routed'[q] # None
               PROVE  q \in Leased' \/ Announces(q)'
    BY DEF ConnectedIsWatched, Announces, HelloOf
  <2>3. CASE q = p
    BY <2>2, <2>3
  <2>4. CASE q # p
    <3>1. q \in Leased \/ Announces(q)
      BY <2>1, <2>4 DEF ConnectedIsWatched, Announces, HelloOf, Inv, RouterInv, RouterTypeOK
    <3>2. q \in Leased => q \in Leased'
      BY <1>1 DEF Leased
    <3>3. Announces(q) => Announces(q)'
      BY <2>1, HelloWaits DEF Inv
    <3> QED
      BY <3>1, <3>2, <3>3
  <2> QED
    BY <2>3, <2>4
<1> QED
  BY <1>2, <1>3, <1>4 DEF Client

\* A Hello that Boot takes leaves a lease, or no entry.
LEMMA HelloWatched ==
  ASSUME Inv, ConnectedIsWatched, HandleHello
  PROVE  ConnectedIsWatched'
<1> DEFINE p == Head(bootQ).from
<1>1. p \in Peers /\ bootQ' = Tail(bootQ)
  BY TailOfBootQ DEF HandleHello, Inv
<1>2. \/ ForceRemove({p}) /\ lease' = lease
      \/ lease' = [lease EXCEPT ![p] = NewLease] /\ routed' = routed
  BY DEF HandleHello
<1> SUFFICES ASSUME NEW q \in Peers, routed'[q] # None
             PROVE  q \in Leased' \/ Announces(q)'
  BY DEF ConnectedIsWatched, Announces, HelloOf
<1>3. CASE q = p
  <2>1. ~ForceRemove({p})
    BY <1>3 DEF ForceRemove, Unrouted
  <2>2. lease'[p] = NewLease
    BY <1>1, <1>2, <2>1 DEF Inv, BootInv, BootTypeOK
  <2>3. NewLease # None
    <3>1. NewLease \in Leases
      BY SupervisionAssumption DEF NewLease, Leases
    <3> QED
      BY <3>1, SupervisionAssumption
  <2> QED
    BY <1>3, <2>2, <2>3 DEF Leased
<1>4. CASE q # p
  <2>1. routed[q] # None
    BY <1>2, <1>4 DEF ForceRemove, Unrouted
  <2>2. lease'[q] = lease[q]
    BY <1>2, <1>4 DEF Inv, BootInv, BootTypeOK
  <2>3. q \in Leased \/ Announces(q)
    BY <2>1 DEF ConnectedIsWatched, Announces, HelloOf
  <2>4. Announces(q) => Announces(q)'
    <3>1. Head(bootQ) # HelloOf(q)
      BY <1>4 DEF HelloOf
    <3> QED
      BY <1>1, <3>1, HelloWaits DEF Inv
  <2> QED
    BY <2>2, <2>3, <2>4 DEF Leased
<1> QED
  BY <1>3, <1>4

\* A renewal takes no lease and no Hello.
LEMMA RenewalWatched ==
  ASSUME Inv, ConnectedIsWatched, HandleLeaseRenew
  PROVE  ConnectedIsWatched'
<1> DEFINE p == Head(bootQ).from
<1>1. bootQ' = Tail(bootQ) /\ routed' = routed /\ Head(bootQ).kind = "renew"
  BY DEF HandleLeaseRenew
<1>2. \A q \in Peers : lease[q] # None => lease'[q] # None
  <2>1. p \in Peers
    BY TailOfBootQ DEF HandleLeaseRenew, Inv
  <2>2. CASE lease' = lease
    BY <2>2
  <2>3. CASE lease' # lease
    <3>1. p \in Leased
      BY <2>3 DEF HandleLeaseRenew
    <3>2. PICK health \in Health :
            lease' = [lease EXCEPT ![p] = [@ EXCEPT !.missed = 0, !.reported = health # "none"]]
      BY <2>3 DEF HandleLeaseRenew
    <3> DEFINE renewed == [lease[p] EXCEPT !.missed = 0, !.reported = health # "none"]
    <3>3. lease' = [lease EXCEPT ![p] = renewed]
      BY <2>1, <3>2 DEF Inv, BootInv, BootTypeOK
    <3>4. renewed \in Leases
      <4>1. lease[p] \in Leases
        BY <2>1, <3>1 DEF Leased, Inv, BootInv, BootTypeOK
      <4>2. (health # "none") \in BOOLEAN /\ 0 \in 0..(MaxMissed - 1)
        BY SupervisionAssumption
      <4> QED
        BY <4>1, <4>2 DEF Leases
    <3> HIDE DEF renewed
    <3> QED
      BY <2>1, <3>3, <3>4, SupervisionAssumption DEF Inv, BootInv, BootTypeOK
  <2> QED
    BY <2>2, <2>3
<1> SUFFICES ASSUME NEW q \in Peers, routed'[q] # None
             PROVE  q \in Leased' \/ Announces(q)'
  BY DEF ConnectedIsWatched, Announces, HelloOf
<1>3. q \in Leased \/ Announces(q)
  BY <1>1 DEF ConnectedIsWatched, Announces, HelloOf
<1>4. Announces(q) => Announces(q)'
  <2>1. Head(bootQ) # HelloOf(q)
    BY <1>1 DEF HelloOf
  <2> QED
    BY <1>1, <2>1, HelloWaits DEF Inv
<1> QED
  BY <1>2, <1>3, <1>4 DEF Leased

\* A lease that goes takes the entry with it: death and replacement.
LEMMA EndWatched ==
  ASSUME Inv, ConnectedIsWatched, NEW p \in Peers,
         lease' = [lease EXCEPT ![p] = None], routed' = Unrouted({p}), bootQ' = bootQ
  PROVE  ConnectedIsWatched'
<1>1. \A q \in Peers : routed'[q] # None => q # p /\ routed[q] # None
  BY DEF Unrouted
<1>2. \A q \in Peers : routed'[q] # None /\ lease[q] # None => lease'[q] # None
  BY <1>1 DEF Inv, BootInv, BootTypeOK
<1> QED
  BY <1>1, <1>2, StillWatched

\* Every step keeps every entry watched.
LEMMA WatchedNext ==
  Inv /\ ConnectedIsWatched /\ [Next]_vars => ConnectedIsWatched'
<1> SUFFICES ASSUME Inv, ConnectedIsWatched, [Next]_vars PROVE ConnectedIsWatched'
  OBVIOUS
<1>1. CASE UNCHANGED <<routed, lease, bootQ>>
  BY <1>1, StillWatched
<1>2. CASE \E c \in Conns : Client(c)
  BY <1>2, ClientWatched
<1>3. CASE HandleHello
  BY <1>3, HelloWatched
<1>4. CASE HandleLeaseRenew
  BY <1>4, RenewalWatched
<1>5. CASE \E p \in Peers : HandleDead(p)
  BY <1>5, EndWatched DEF HandleDead, ForceRemove
<1>6. CASE ReplacePeripheral
  BY <1>6, EndWatched, SupervisionAssumption DEF ReplacePeripheral
<1>7. ASSUME NEW late \in SUBSET Peers, NEW dead \in SUBSET Peers, CheckLeases(late, dead)
      PROVE  ConnectedIsWatched'
  <2>1. /\ late \subseteq Leased
        /\ lease' = [p \in Peers |->
                        IF p \in late
                        THEN [lease[p] EXCEPT !.missed = Capped(@ + 1, MaxMissed - 1)]
                        ELSE lease[p]]
        /\ routed' = routed /\ bootQ' = bootQ
    BY <1>7 DEF CheckLeases, routerVars
  <2>2. ASSUME NEW p \in late PROVE lease'[p] # None
    <3> DEFINE missed == Capped(lease[p].missed + 1, MaxMissed - 1)
    <3>1. lease[p] \in Leases
      BY <2>1 DEF Leased, Inv, BootInv, BootTypeOK
    <3>2. missed \in 0..(MaxMissed - 1)
      BY <3>1, SupervisionAssumption DEF Capped, Leases
    <3>3. lease'[p] = [lease[p] EXCEPT !.missed = missed]
      BY <2>1
    <3> HIDE DEF missed
    <3>4. lease'[p] \in Leases
      BY <3>1, <3>2, <3>3 DEF Leases
    <3> QED
      BY <3>4, SupervisionAssumption
  <2>3. \A p \in Peers : lease[p] # None => lease'[p] # None
    BY <2>1, <2>2
  <2> QED
    BY <2>1, <2>3, StillWatched
<1>8. CASE StartProbation \/ CheckProbation
  <2>1. PICK on \in BOOLEAN : lease' = SetProbation(on)
    BY <1>8 DEF StartProbation, CheckProbation
  <2>2. \A p \in Peers : lease'[p] = None <=> lease[p] = None
    BY <2>1, SetProbationKeeps
  <2>3. routed' = routed /\ bootQ' = bootQ
    BY <1>8 DEF StartProbation, CheckProbation
  <2> QED
    BY <2>2, <2>3, StillWatched
<1> QED
  BY <1>1, <1>2, <1>3, <1>4, <1>5, <1>6, <1>7, <1>8
     DEF Next, vars, state, routerVars, bootVars, RouterDelivers, Deliver, BootStep,
         EventSubscribe, RunlevelRequest, AdminShutdown, BroadcastToSubscribers,
         CheckResourceBasedTransitions, Stop

\* Whoever is in the routing table has a lease, or its Hello is still on the
\* way to Boot (microkernel.rs:464, 1474 and 1605): for any identities and
\* channel sizes there is no entry whose death nobody would find.
THEOREM NobodyUnwatched == Spec => []ConnectedIsWatched
<1>1. Init => ConnectedIsWatched
  BY DEF Init, RouterInit, ConnectedIsWatched
<1> QED
  BY <1>1, WatchedNext, InvAlways, PTL DEF Spec

=============================================================================
