------------------------------- MODULE Protocol -------------------------------
(***************************************************************************)
(* The protocol registry (crates/boot/src/protocol.rs): the message types  *)
(* Boot knows and the version of the protocol, in memory and in            *)
(* messages.json, which extensions negotiated with the peers change.       *)
(***************************************************************************)
EXTENDS Integers, FiniteSets

CONSTANTS
    CoreTypes,      \* message types of default_registry
    NewTypes,       \* message types an extension may add
    Schemas,        \* contents of a message type
    CoreSchema,     \* the contents the core types have at first
    NoType,         \* the message type is not registered
    MaxMajor, MaxMinor \* bounds of the version

ASSUME ProtocolAssumption ==
    /\ CoreSchema \in Schemas
    /\ NoType \notin Schemas
    /\ CoreTypes \cap NewTypes = {}
    /\ MaxMajor \in Nat \ {0} /\ MaxMinor \in Nat

VARIABLES
    registry,   \* ProtocolManager::registry
    file,       \* messages.json
    accepted    \* the message types of extensions answered as accepted

protocolVars == <<registry, file, accepted>>

Types == CoreTypes \cup NewTypes
Registries ==
    [major : 1..MaxMajor, minor : 0..MaxMinor, messages : [Types -> Schemas \cup {NoType}]]

ProtocolTypeOK ==
    /\ registry \in Registries
    /\ file \in Registries
    /\ accepted \subseteq Types

\* default_registry, written when there is no file.
DefaultRegistry ==
    [major |-> 1, minor |-> 0,
     messages |-> [t \in Types |-> IF t \in CoreTypes THEN CoreSchema ELSE NoType]]

ProtocolInit ==
    /\ registry = DefaultRegistry
    /\ file = DefaultRegistry
    /\ accepted = {}

Known(reg) == {t \in Types : reg.messages[t] # NoType}

\* bump_version
BumpVersion(reg, breaking) ==
    IF breaking THEN [reg EXCEPT !.major = @ + 1, !.minor = 0]
    ELSE [reg EXCEPT !.minor = @ + 1]

\* Mutant: only a proposal that says so is breaking.
IsBreakingAsSaid(reg, types, breaking) == breaking

\* A proposal that changes a known type is breaking whatever it says.
IsBreaking(reg, types, breaking) == breaking \/ types \cap Known(reg) # {}

\* The registry with the proposed types, at its next version.
Extended(reg, types, schema, breaking) ==
    [BumpVersion(reg, IsBreaking(reg, types, breaking)) EXCEPT
        !.messages = [t \in Types |-> IF t \in types THEN schema ELSE @[t]]]

\* Mutant: the registry is written before the types are inserted.
ProposeWritesFirst(types, schema, breaking, signed) ==
    /\ types # {}
    /\ IsBreaking(registry, types, breaking) => signed
    /\ registry' = Extended(registry, types, schema, breaking)
    /\ registry'.major <= MaxMajor /\ registry'.minor <= MaxMinor
    /\ file' = [registry' EXCEPT !.messages = registry.messages]
    /\ accepted' = accepted \cup types

\* propose_extension, when it is not refused; "signed" says that it carries
\* a valid signature.  The registry in memory is changed first.  If the file
\* or, after it, the log cannot be written the proposer is told that the
\* extension was refused.
ProposeExtension(types, schema, breaking, signed) ==
    /\ types # {}
    /\ IsBreaking(registry, types, breaking) => signed
    /\ registry' = Extended(registry, types, schema, breaking)
    /\ registry'.major <= MaxMajor /\ registry'.minor <= MaxMinor
    /\ \/ UNCHANGED <<file, accepted>>
       \/ file' = registry' /\ UNCHANGED accepted
       \/ file' = registry' /\ accepted' = accepted \cup types

\* load_or_create_registry, when Boot starts again.
LoadRegistry ==
    /\ registry' = file
    /\ UNCHANGED <<file, accepted>>

=============================================================================
