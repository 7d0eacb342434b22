------------------------------ MODULE Governance ------------------------------
(***************************************************************************)
(* What changes the rules peripherals live by: amendments of the           *)
(* constitution and the judge that applies it, extensions of the protocol, *)
(* and the capabilities of the version that runs.  Boot handles proposals  *)
(* one at a time, and may stop and start again between them                *)
(* (crates/boot/src/microkernel.rs).                                       *)
(*                                                                         *)
(* A behaviour is about one of the subjects, whose state is otherwise      *)
(* independent; what they share is Boot and its restarts.                  *)
(***************************************************************************)
EXTENDS Constitution, Protocol, Capability

CONSTANTS
    Versions,        \* what the capabilities of a version may be
    InitialTests, InitialDimensions, InitialOverall,  \* the operator's documents
    Unreadable,      \* capabilities.json cannot be read
    MaxForced        \* bound: capabilities the operator puts in place later

ASSUME GovernanceAssumption ==
    /\ Versions \subseteq Capabilities /\ DefaultCapabilities \in Versions
    /\ Unreadable \notin Capabilities /\ MaxForced \in Nat
    /\ InitialTests \in Invariants
    /\ InitialDimensions \in [Dimensions -> DimensionEntries \cup {Absent}]
    /\ InitialOverall \in Minima

VARIABLES
    granted,     \* capabilities of the versions the operator put in place
    current,     \* capabilities of the version that runs
    previous,    \* those of the version a rollback restores
    unchecked,   \* has a version run whose capabilities could not be compared?
    subject      \* what this behaviour is about

capabilityVars == <<granted, current, previous, unchecked>>
state == <<constitutionVars, protocolVars, capabilityVars>>
vars == <<state, subject>>

Subjects == {"constitution", "protocol", "capabilities"}
Declared == Versions \cup {Unreadable}

TypeOK ==
    /\ ConstitutionTypeOK
    /\ ProtocolTypeOK
    /\ granted \subseteq Versions
    /\ current \in Declared
    /\ previous \in Declared
    /\ unchecked \in BOOLEAN
    /\ subject \in Subjects

Init ==
    /\ subject \in Subjects
    /\ ConstitutionInit(InitialTests, InitialDimensions, InitialOverall)
    /\ ProtocolInit
    /\ current \in IF subject = "capabilities" THEN Versions ELSE {DefaultCapabilities}
    /\ previous = current
    /\ granted = {current}
    /\ unchecked = FALSE

-----------------------------------------------------------------------------

\* check_escalation: it fails when either file cannot be read.
CheckFails(old, new) == Unreadable \in {old, new}

\* finalize_version_switch, when the switch is not refused: a check that
\* fails is logged, and the switch goes on.
SwitchVersion(new) ==
    /\ ~CheckFails(current, new) => ~Escalates(current, new)
    /\ current' = new
    /\ previous' = current
    /\ unchecked' = (unchecked \/ CheckFails(current, new))
    /\ UNCHANGED granted

\* A rollback asks nothing of the capabilities.
Rollback ==
    /\ current' = previous
    /\ UNCHANGED <<granted, previous, unchecked>>

\* handle_admin_force_rollback with a version, which may be any branch, even
\* one whose switch was refused: nothing is asked of its capabilities, and a
\* rollback restores the version before.
ForceVersion(new) ==
    /\ current' = new
    /\ previous' = current
    /\ granted' = granted \cup ({new} \ {Unreadable})
    /\ Cardinality(granted') <= MaxForced + 1
    /\ unchecked' = (unchecked \/ new = Unreadable)

\* Boot stops and starts again: it counts the amendments and loads the
\* registry.  The judge loses its connection.
Restart ==
    /\ \/ /\ subject = "constitution"
          /\ CountExistingAmendments
          /\ judge' = IF judge.phase \in {"loaded", "serving"}
                      THEN [judge EXCEPT !.phase = "down"] ELSE judge
          /\ UNCHANGED protocolVars
       \/ /\ subject = "protocol"
          /\ LoadRegistry
          /\ UNCHANGED constitutionVars
    /\ UNCHANGED capabilityVars

Amendment ==
    /\ subject = "constitution"
    /\ ProposeAmendment
    /\ UNCHANGED <<protocolVars, capabilityVars>>

LoadStep ==
    /\ subject = "constitution"
    /\ LoadInvariants \/ LoadBenchmarks
    /\ UNCHANGED <<protocolVars, capabilityVars>>

ConnectStep ==
    /\ subject = "constitution"
    /\ JudgeConnects
    /\ UNCHANGED <<protocolVars, capabilityVars>>

LostStep ==
    /\ subject = "constitution"
    /\ JudgeLost
    /\ UNCHANGED <<protocolVars, capabilityVars>>

Extension ==
    /\ subject = "protocol"
    /\ \E types \in SUBSET Types, schema \in Schemas, breaking, signed \in BOOLEAN :
          ProposeExtension(types, schema, breaking, signed)
    /\ UNCHANGED <<constitutionVars, capabilityVars>>

VersionStep ==
    /\ subject = "capabilities"
    /\ \/ Rollback
       \/ \E new \in Declared : SwitchVersion(new) \/ ForceVersion(new)
    /\ UNCHANGED <<constitutionVars, protocolVars>>

Next ==
    /\ \/ Amendment
       \/ LoadStep
       \/ ConnectStep
       \/ LostStep
       \/ Extension
       \/ VersionStep
       \/ Restart
    /\ UNCHANGED subject

Spec == Init /\ [][Next]_vars

\* The judge's loop goes on, and does not find Boot gone each time it
\* connects.
Fairness == WF_state(LoadStep) /\ SF_state(ConnectStep)

FairSpec == Spec /\ Fairness

-----------------------------------------------------------------------------
(* Properties.                                                             *)

\* No two amendments of the log have one id, over any restarts of Boot, as
\* long as no write of the log has failed.
AmendmentIdsUnique ==
    unlogged \/ \A i, j \in 1..Len(amendments) : amendments[i] = amendments[j] => i = j

\* Benchmarks can be met: everything they ask for is measured, the weights
\* have a positive sum, and no minimum is above 100.  (An amendment may make
\* weights that cancel each other; the overall score is 0 then.)
Attainable(marks) ==
    LET dims == marks.dimensions
    IN  /\ \A n \in Listed(dims) : n \in FollowTests \cup AlwaysFull /\ dims[n].min <= 100
        /\ TotalWeight(dims) > 0
        /\ marks.overall <= 100

\* The benchmarks refuse no build that passes all tests, whatever amendments
\* have made of the weights and minima, as long as they can be met.
VerdictFollowsTests ==
    judge.phase = "serving" /\ Attainable(judge.benchmarks) =>
        \A build \in SUBSET Tests :
            Passes(judge.tests, judge.benchmarks, build)
                <=> Listed(judge.tests) = Passed(judge.tests, build)

\* What capabilities let a version do.
Effective(caps) ==
    [read |-> caps.read, write |-> caps.write, ipc |-> caps.ipc,
     network |-> IF caps.network.allowed THEN caps.network.whitelist ELSE {},
     exec |-> IF caps.exec.allowed THEN caps.exec.whitelist ELSE {},
     connects |-> caps.network.allowed, executes |-> caps.exec.allowed,
     children |-> caps.children]

AtMost(a, b) ==
    /\ a.read \subseteq b.read /\ a.write \subseteq b.write /\ a.ipc \subseteq b.ipc
    /\ a.network \subseteq b.network /\ a.exec \subseteq b.exec
    /\ a.connects => b.connects
    /\ a.executes => b.executes
    /\ a.children <= b.children

\* No chain of updates, rollbacks and forced switches gives a version more
\* than one version had that the operator put in place, by starting Boot with
\* it or by forcing Boot to it, as long as every capabilities.json could be read.
NoEscalation ==
    unchecked \/ \E grant \in granted : AtMost(Effective(current), Effective(grant))

\* The types of an extension that was answered as accepted are in the file,
\* whatever has failed before or since.
AcceptedDurable == accepted \subseteq Known(file)

\* The file's contents of a type never change without a new major version,
\* even if the change reaches the file with a later extension.
BreakingRaisesMajor ==
    [][\A t \in Known(file) :
          file'.messages[t] # file.messages[t] => file'.major > file.major]_vars

\* Once the documents stay readable, the judge serves again and again: one
\* that met a partial amendment recovers when the document is amended anew.
Readable == ReadableTests(invariants) /\ ReadableBenchmarks(benchmarks)
JudgeServes ==
    subject = "constitution" => []<>(judge.phase = "serving" \/ ~Readable)

=============================================================================
