------------------------------ MODULE Capability ------------------------------
(***************************************************************************)
(* Capabilities of peripheral versions (crates/boot/src/capability.rs):    *)
(* what capabilities.json of a version declares, and the check that a new  *)
(* version asks for no more than the one it replaces.                      *)
(*                                                                         *)
(* Boot only reads these files: they are put there from outside.           *)
(***************************************************************************)
EXTENDS Integers, FiniteSets

CONSTANTS
    Items,      \* paths, hosts, commands and endpoints
    MaxChildren \* bound of max_child_processes

ASSUME CapabilityAssumption == MaxChildren \in Nat

Grants == [allowed : BOOLEAN, whitelist : SUBSET Items]
Capabilities ==
    [read : SUBSET Items, write : SUBSET Items, network : Grants, exec : Grants,
     ipc : SUBSET Items, children : 0..MaxChildren]

NoGrant == [allowed |-> FALSE, whitelist |-> {}]

\* Capabilities::default, those of a version that declares none.
DefaultCapabilities ==
    [read |-> {}, write |-> {}, network |-> NoGrant, exec |-> NoGrant,
     ipc |-> {}, children |-> 0]

\* Mutant: a grant the old version has is not compared.
GrantEscalatesOnce(old, new) == new.allowed /\ ~old.allowed

\* A whitelist only counts where the grant is allowed.
GrantEscalates(old, new) ==
    new.allowed /\ (~old.allowed \/ ~(new.whitelist \subseteq old.whitelist))

\* detect_escalations finds something.
Escalates(old, new) ==
    \/ ~(new.read \subseteq old.read)
    \/ ~(new.write \subseteq old.write)
    \/ GrantEscalates(old.network, new.network)
    \/ GrantEscalates(old.exec, new.exec)
    \/ ~(new.ipc \subseteq old.ipc)
    \/ new.children > old.children

=============================================================================
