------------------------------ MODULE IpcRouter ------------------------------
(***************************************************************************)
(* The router actor and the tasks of its connections (crates/boot/src/     *)
(* ipc.rs): who is registered under an identity, the bounded channel of    *)
(* each connection, the queue of messages to Boot, and the deliveries the  *)
(* router still has to make for Boot, which waits for them.                *)
(*                                                                         *)
(* The command queue is first in, first out, and every sender of a command *)
(* waits for its effect or does not depend on it: a command takes effect   *)
(* when it is sent, except that none does while a delivery is blocked.     *)
(* A client's socket buffer counts as part of its channel, and a message   *)
(* to a client is only counted.                                            *)
(***************************************************************************)
EXTENDS Integers, Sequences, FiniteSets

CONSTANTS
    Peers,          \* identities
    MaxConns,       \* bound: connections open at a time
    OutboundSize,   \* PEER_OUTBOUND_CHANNEL_SIZE
    BootQueueSize,  \* BOOT_MESSAGE_CHANNEL_SIZE
    None            \* no connection, no identity, no lease

Conns == 1..MaxConns

ASSUME RouterAssumption ==
    /\ IsFiniteSet(Peers)
    /\ MaxConns \in Nat
    /\ OutboundSize \in Nat \ {0}
    /\ BootQueueSize \in Nat \ {0}
    /\ None \notin Peers \cup Conns

VARIABLES
    link,      \* state of each connection
    owner,     \* identity of its first message
    routed,    \* the routing table: connection of each identity
    outbox,    \* messages waiting in each connection
    stuck,     \* connections whose client does not read
    bootQ,     \* messages on their way to Boot
    sending    \* identities the router still has to deliver to for Boot

routerVars == <<link, owner, routed, outbox, stuck, bootQ, sending>>

\* "evicted": no longer registered, so nothing is written to it, while its
\* reader task goes on forwarding what the client sends.  "closed": the
\* client is gone and the reader task has not noticed yet.
LinkStates == {"free", "open", "evicted", "closed"}
Kinds == {"hello", "renew"}

RouterTypeOK ==
    /\ link \in [Conns -> LinkStates]
    /\ owner \in [Conns -> Peers \cup {None}]
    /\ routed \in [Peers -> Conns \cup {None}]
    /\ outbox \in [Conns -> 0..OutboundSize]
    /\ stuck \subseteq Conns
    /\ bootQ \in Seq([from : Peers, kind : Kinds])
    /\ sending \in Seq(Peers)

RouterInit ==
    /\ link = [c \in Conns |-> "free"]
    /\ owner = [c \in Conns |-> None]
    /\ routed = [p \in Peers |-> None]
    /\ outbox = [c \in Conns |-> 0]
    /\ stuck = {}
    /\ bootQ = <<>>
    /\ sending = <<>>

Free == {c \in Conns : link[c] = "free"}
Talking(c) == link[c] \in {"open", "evicted"}

\* The router waits for room in the channel of a client that is still there.
Blocked ==
    /\ sending # <<>>
    /\ LET c == routed[Head(sending)]
       IN  c # None /\ link[c] = "open" /\ outbox[c] = OutboundSize

\* The orders in which a map of identities may be walked.
Orders(S) ==
    {s \in [1..Cardinality(S) -> S] : \A i, j \in DOMAIN s : s[i] = s[j] => i = j}

\* The connections after the entries of identities S have been dropped.
Evicted(S) ==
    [c \in Conns |->
        IF link[c] = "open" /\ \E p \in S : routed[p] = c THEN "evicted" ELSE link[c]]

\* The table without identities S (ForceRemovePeer).
Unrouted(S) == [p \in Peers |-> IF p \in S THEN None ELSE routed[p]]

\* The channels of connections that are no longer registered are drained by
\* their writer tasks and dropped.
Drained(S) ==
    [c \in Conns |-> IF \E p \in S : routed[p] = c THEN 0 ELSE outbox[c]]

\* force_remove_peer for every identity of S.
ForceRemove(S) ==
    /\ routed' = Unrouted(S)
    /\ link' = Evicted(S)
    /\ outbox' = Drained(S)

-----------------------------------------------------------------------------

\* handle_connection: the first message names the identity, which the new
\* connection takes over; then that message goes to Boot.
Connect(p, c) ==
    /\ ~Blocked
    /\ c \in Free /\ \A d \in Free : c <= d
    /\ Len(bootQ) < BootQueueSize
    /\ link' = [Evicted({p}) EXCEPT ![c] = "open"]
    /\ owner' = [owner EXCEPT ![c] = p]
    /\ routed' = [routed EXCEPT ![p] = c]
    /\ outbox' = Drained({p})
    /\ bootQ' = Append(bootQ, [from |-> p, kind |-> "hello"])
    /\ UNCHANGED <<stuck, sending>>

\* The reader task forwards a heartbeat, under the identity it carries and
\* whether or not the connection is still the registered one.
Forward(c) ==
    /\ Talking(c)
    /\ Len(bootQ) < BootQueueSize
    /\ bootQ' = Append(bootQ, [from |-> owner[c], kind |-> "renew"])
    /\ UNCHANGED <<link, owner, routed, outbox, stuck, sending>>

\* The writer task hands a message to the client, which reads it.
Read(c) ==
    /\ link[c] = "open" /\ c \notin stuck
    /\ outbox[c] > 0
    /\ outbox' = [outbox EXCEPT ![c] = @ - 1]
    /\ UNCHANGED <<link, owner, routed, stuck, bootQ, sending>>

\* A client stops reading its socket; its heartbeats may go on.
Stick(c) ==
    /\ link[c] = "open"
    /\ stuck' = stuck \cup {c}
    /\ UNCHANGED <<link, owner, routed, outbox, bootQ, sending>>

\* A client ends its session or dies.
Close(c) ==
    /\ Talking(c)
    /\ link' = [link EXCEPT ![c] = "closed"]
    /\ outbox' = [outbox EXCEPT ![c] = 0]
    /\ stuck' = stuck \ {c}
    /\ UNCHANGED <<owner, routed, bootQ, sending>>

\* Mutant: the entry is removed whatever connection it is.
RemoveAnyPeer(c) ==
    /\ ~Blocked
    /\ link[c] = "closed"
    /\ link' = [link EXCEPT ![c] = "free"]
    /\ owner' = [owner EXCEPT ![c] = None]
    /\ routed' = [routed EXCEPT ![owner[c]] = None]
    /\ UNCHANGED <<outbox, stuck, bootQ, sending>>

\* The reader task meets the end of its socket: RemovePeer takes the entry
\* out of the table if it still is this connection's.
RemovePeer(c) ==
    /\ ~Blocked
    /\ link[c] = "closed"
    /\ link' = [link EXCEPT ![c] = "free"]
    /\ owner' = [owner EXCEPT ![c] = None]
    /\ routed' = [p \in Peers |-> IF routed[p] = c THEN None ELSE routed[p]]
    /\ UNCHANGED <<outbox, stuck, bootQ, sending>>

\* Mutants: the channel has no bound; the delivery waits for a connection.
DeliverUnbounded ==
    /\ sending # <<>>
    /\ sending' = Tail(sending)
    /\ LET c == routed[Head(sending)]
       IN  outbox' = IF c # None /\ link[c] = "open"
                     THEN [outbox EXCEPT ![c] = @ + 1] ELSE outbox
    /\ UNCHANGED <<link, owner, routed, stuck, bootQ>>
DeliverConnected ==
    /\ sending # <<>>
    /\ ~Blocked
    /\ routed[Head(sending)] # None
    /\ sending' = Tail(sending)
    /\ LET c == routed[Head(sending)]
       IN  outbox' = IF link[c] = "open"
                     THEN [outbox EXCEPT ![c] = @ + 1] ELSE outbox
    /\ UNCHANGED <<link, owner, routed, stuck, bootQ>>

\* SendTo, or one step of Broadcast: the message is put into the channel, or
\* fails because there is no entry or the client is gone.
Deliver ==
    /\ sending # <<>>
    /\ ~Blocked
    /\ sending' = Tail(sending)
    /\ LET c == routed[Head(sending)]
       IN  outbox' = IF c # None /\ link[c] = "open"
                     THEN [outbox EXCEPT ![c] = @ + 1] ELSE outbox
    /\ UNCHANGED <<link, owner, routed, stuck, bootQ>>

-----------------------------------------------------------------------------

\* The identity of a connection that is open and was not superseded or
\* evicted is routed to it: the cleanup of an old connection never takes the
\* entry of the connection that replaced it (the conn_id of ipc.rs:278).
OpenIsRouted == \A c \in Conns : link[c] = "open" => routed[owner[c]] = c

=============================================================================
