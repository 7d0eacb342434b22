--------------------------- MODULE GovernanceProofs ---------------------------
(***************************************************************************)
(* What Boot promises about amendments, extensions and capabilities holds  *)
(* for any documents, message types, capabilities and bounds.              *)
(***************************************************************************)
EXTENDS Governance, FiniteSetTheorems, TLAPS

-----------------------------------------------------------------------------
(* Capabilities: a version that was checked is at most the one before it,  *)
(* and "at most" carries over from version to version.                     *)

\* A version that passes the check grants at most what the one before it does.
LEMMA NoEscalationIsAtMost ==
  ASSUME NEW old \in Capabilities, NEW new \in Capabilities, ~Escalates(old, new)
  PROVE  AtMost(Effective(new), Effective(old))
  BY DEF Escalates, GrantEscalates, AtMost, Effective, Capabilities, Grants

\* At most, from version to version.
LEMMA AtMostTransitive ==
  ASSUME NEW a \in Capabilities, NEW b \in Capabilities, NEW c \in Capabilities,
         AtMost(Effective(a), Effective(b)), AtMost(Effective(b), Effective(c))
  PROVE  AtMost(Effective(a), Effective(c))
  BY CapabilityAssumption DEF AtMost, Effective, Capabilities, Grants

\* A version grants at most what it grants.
LEMMA AtMostReflexive ==
  ASSUME NEW a \in Capabilities
  PROVE  AtMost(Effective(a), Effective(a))
  BY CapabilityAssumption DEF AtMost, Effective, Capabilities, Grants

\* Some version the operator put in place grants at least these capabilities.
Granted(caps) == \E grant \in granted : AtMost(Effective(caps), Effective(grant))

\* The inductive invariant: the version to go back to is bounded as well.
Bounded ==
    ~unchecked =>
        /\ {current, previous} \subseteq Versions
        /\ Granted(current) /\ Granted(previous)
CapabilityInv ==
    /\ granted \subseteq Versions /\ {current, previous} \subseteq Declared
    /\ unchecked \in BOOLEAN
    /\ Bounded

\* The operator put the version in place that Boot is started with.
LEMMA CapabilityInit == Init => CapabilityInv
<1> SUFFICES ASSUME Init PROVE CapabilityInv
  OBVIOUS
<1>1. current \in Versions /\ previous = current /\ granted = {current} /\ unchecked = FALSE
  BY GovernanceAssumption DEF Init
<1>2. Granted(current)
  BY <1>1, GovernanceAssumption, AtMostReflexive DEF Granted
<1> QED
  BY <1>1, <1>2 DEF CapabilityInv, Bounded, Declared

\* A switch goes to a version that asks for no more than one which is granted.
LEMMA SwitchKeeps ==
  ASSUME CapabilityInv, NEW new \in Declared, SwitchVersion(new)
  PROVE  CapabilityInv'
<1> USE GovernanceAssumption DEF CapabilityInv, Bounded, Declared
<1>1. CASE CheckFails(current, new)
  BY <1>1 DEF SwitchVersion
<1>2. CASE ~CheckFails(current, new)
  <2>1. new \in Versions /\ current \in Versions /\ ~Escalates(current, new)
    BY <1>2 DEF SwitchVersion, CheckFails
  <2>2. AtMost(Effective(new), Effective(current))
    BY <2>1, NoEscalationIsAtMost
  <2>3. ~unchecked => Granted(new)
    <3> SUFFICES ASSUME ~unchecked PROVE Granted(new)
      OBVIOUS
    <3>1. PICK grant \in granted : AtMost(Effective(current), Effective(grant))
      BY DEF Granted
    <3>2. AtMost(Effective(new), Effective(grant))
      BY <2>1, <2>2, <3>1, AtMostTransitive
    <3> QED
      BY <3>2 DEF Granted
  <2>4. /\ current' = new /\ previous' = current /\ granted' = granted
        /\ unchecked' = unchecked
    BY <1>2 DEF SwitchVersion
  <2> QED
    BY <2>1, <2>3, <2>4 DEF Granted
<1> QED
  BY <1>1, <1>2

\* What is forced is granted from then on.
LEMMA ForceKeeps ==
  ASSUME CapabilityInv, NEW new \in Declared, ForceVersion(new)
  PROVE  CapabilityInv'
<1> USE GovernanceAssumption DEF CapabilityInv, Bounded, Declared
<1>1. /\ current' = new /\ previous' = current
      /\ granted' = granted \cup ({new} \ {Unreadable})
      /\ unchecked' = (unchecked \/ new = Unreadable)
  BY DEF ForceVersion
<1>2. CASE unchecked'
  BY <1>1, <1>2
<1>3. CASE ~unchecked'
  <2>1. new \in Versions /\ ~unchecked /\ granted' = granted \cup {new}
    BY <1>1, <1>3
  <2>2. AtMost(Effective(new), Effective(new))
    BY <2>1, AtMostReflexive
  <2>3. Granted(new)'
    BY <2>1, <2>2 DEF Granted
  <2>4. Granted(current) /\ current \in Versions
    BY <2>1
  <2>5. Granted(previous)'
    BY <1>1, <2>1, <2>4 DEF Granted
  <2>6. Granted(current)'
    BY <1>1, <2>3 DEF Granted
  <2> QED
    BY <1>1, <2>1, <2>4, <2>5, <2>6
<1> QED
  BY <1>1, <1>2, <1>3

\* A switch goes to a checked version or a forced one, a rollback to one that
\* ran before.
LEMMA CapabilityNext == CapabilityInv /\ [Next]_vars => CapabilityInv'
<1> SUFFICES ASSUME CapabilityInv, [Next]_vars PROVE CapabilityInv'
  OBVIOUS
<1>1. ASSUME NEW new \in Declared, SwitchVersion(new) PROVE CapabilityInv'
  BY <1>1, SwitchKeeps
<1>2. ASSUME NEW new \in Declared, ForceVersion(new) PROVE CapabilityInv'
  BY <1>2, ForceKeeps
<1>3. CASE Rollback
  BY <1>3 DEF Rollback, CapabilityInv, Bounded, Granted
<1>4. CASE UNCHANGED capabilityVars
  BY <1>4 DEF capabilityVars, CapabilityInv, Bounded, Granted
<1> QED
  BY <1>1, <1>2, <1>3, <1>4
     DEF Next, vars, state, Amendment, LoadStep, ConnectStep, LostStep, Extension,
         VersionStep, Restart

\* No chain of updates, rollbacks and forced switches gives a version more
\* than one the operator put in place had, for any capabilities, as long as
\* every capabilities.json was read.
THEOREM NothingEscalates == Spec => []NoEscalation
<1>1. CapabilityInv => NoEscalation
  BY DEF CapabilityInv, Bounded, Granted, NoEscalation
<1> QED
  BY <1>1, CapabilityInit, CapabilityNext, PTL DEF Spec

-----------------------------------------------------------------------------
(* The protocol registry: the file may lag behind memory, and by no more   *)
(* than extensions that raise the version.                                 *)

Behind ==
    /\ file.major <= registry.major
    /\ \A t \in Known(file) :
          /\ t \in Known(registry)
          /\ registry.messages[t] # file.messages[t] => file.major < registry.major
ProtocolInv ==
    /\ ProtocolTypeOK
    /\ Behind
    /\ accepted \subseteq Known(file)

\* At the start memory and file agree.
LEMMA ProtocolInitInv == Init => ProtocolInv
  BY ProtocolAssumption
     DEF Init, ProtocolInit, ProtocolInv, ProtocolTypeOK, Behind, Known,
         DefaultRegistry, Registries, Types

\* An extension changes known types under a new major version only.
LEMMA ExtendedRegistry ==
  ASSUME NEW reg \in Registries, NEW types \in SUBSET Types, NEW schema \in Schemas,
         NEW breaking \in BOOLEAN, NEW ext, ext = Extended(reg, types, schema, breaking),
         ext.major <= MaxMajor, ext.minor <= MaxMinor
  PROVE  /\ ext \in Registries
         /\ reg.major <= ext.major
         /\ Known(ext) = Known(reg) \cup types
         /\ \A t \in Known(reg) :
               ext.messages[t] # reg.messages[t] => reg.major < ext.major
<1> DEFINE raises == IsBreaking(reg, types, breaking)
           messages == [t \in Types |-> IF t \in types THEN schema ELSE reg.messages[t]]
<1>1. /\ reg.major \in Nat /\ reg.minor \in Nat /\ 1 <= reg.major
      /\ reg.messages \in [Types -> Schemas \cup {NoType}]
      /\ reg = [major |-> reg.major, minor |-> reg.minor, messages |-> reg.messages]
  BY ProtocolAssumption DEF Registries
<1>3. CASE raises
  <2>1. BumpVersion(reg, raises) =
          [major |-> reg.major + 1, minor |-> 0, messages |-> reg.messages]
    BY <1>1, <1>3 DEF BumpVersion
  <2>2. ext = [major |-> reg.major + 1, minor |-> 0, messages |-> messages]
    BY <2>1 DEF Extended
  <2>3. messages \in [Types -> Schemas \cup {NoType}] /\ ext.messages = messages
    BY <1>1, <2>2
  <2>4. ext \in Registries
    BY <1>1, <2>2, <2>3, ProtocolAssumption DEF Registries
  <2>5. Known(ext) = Known(reg) \cup types
    BY <1>1, <2>3, ProtocolAssumption DEF Known
  <2> QED
    BY <1>1, <2>2, <2>4, <2>5
<1>4. CASE ~raises
  <2>1. BumpVersion(reg, raises) =
          [major |-> reg.major, minor |-> reg.minor + 1, messages |-> reg.messages]
    BY <1>1, <1>4 DEF BumpVersion
  <2>2. ext = [major |-> reg.major, minor |-> reg.minor + 1, messages |-> messages]
    BY <2>1 DEF Extended
  <2>3. messages \in [Types -> Schemas \cup {NoType}] /\ ext.messages = messages
    BY <1>1, <2>2
  <2>4. ext \in Registries
    BY <1>1, <2>2, <2>3, ProtocolAssumption DEF Registries
  <2>5. Known(ext) = Known(reg) \cup types
    BY <1>1, <2>3, ProtocolAssumption DEF Known
  <2>6. \A t \in Known(reg) : ext.messages[t] = reg.messages[t]
    BY <1>1, <1>4, <2>3 DEF Known, IsBreaking
  <2> QED
    BY <1>1, <2>2, <2>4, <2>5, <2>6
<1> QED
  BY <1>3, <1>4

\* An extension, a failed write or a restart keeps the file behind memory.
LEMMA ProtocolStep ==
  ASSUME ProtocolInv, NEW types \in SUBSET Types, NEW schema \in Schemas,
         NEW breaking \in BOOLEAN, NEW signed \in BOOLEAN,
         ProposeExtension(types, schema, breaking, signed)
  PROVE  /\ ProtocolInv'
         /\ \A t \in Known(file) :
               file'.messages[t] # file.messages[t] => file'.major > file.major
<1>1. /\ registry' \in Registries
      /\ registry.major <= registry'.major
      /\ Known(registry') = Known(registry) \cup types
      /\ \A t \in Known(registry) :
            registry'.messages[t] # registry.messages[t] => registry.major < registry'.major
  <2>1. /\ registry \in Registries
        /\ registry' = Extended(registry, types, schema, breaking)
        /\ registry'.major <= MaxMajor /\ registry'.minor <= MaxMinor
    BY DEF ProposeExtension, ProtocolInv, ProtocolTypeOK
  <2> QED
    BY <2>1, ExtendedRegistry
<1>2. file' = file \/ file' = registry'
  BY DEF ProposeExtension
<1>3. /\ registry \in Registries /\ file \in Registries
      /\ registry.major \in Int /\ file.major \in Int /\ registry'.major \in Int
  BY <1>1, ProtocolAssumption DEF ProtocolInv, ProtocolTypeOK, Registries
<1>4. Behind'
  BY <1>1, <1>2, <1>3 DEF ProtocolInv, Behind
<1>5. (accepted \subseteq Known(file))'
  BY <1>1 DEF ProposeExtension, ProtocolInv, Behind
<1>6. accepted' \subseteq Types
  BY DEF ProposeExtension, ProtocolInv, ProtocolTypeOK
<1> QED
  BY <1>1, <1>2, <1>3, <1>4, <1>5, <1>6 DEF ProtocolInv, ProtocolTypeOK, Behind

\* The other components leave the registry alone.
LEMMA ProtocolNext ==
  ProtocolInv /\ [Next]_vars =>
      /\ ProtocolInv'
      /\ \A t \in Known(file) :
            file'.messages[t] # file.messages[t] => file'.major > file.major
<1> SUFFICES ASSUME ProtocolInv, [Next]_vars
             PROVE  /\ ProtocolInv'
                    /\ \A t \in Known(file) :
                          file'.messages[t] # file.messages[t] => file'.major > file.major
  OBVIOUS
<1>1. CASE Extension
  BY <1>1, ProtocolStep DEF Extension
<1>2. CASE LoadRegistry
  BY <1>2, ProtocolAssumption
     DEF LoadRegistry, ProtocolInv, ProtocolTypeOK, Behind, Registries, Known
<1>3. CASE UNCHANGED protocolVars
  BY <1>3 DEF protocolVars, ProtocolInv, ProtocolTypeOK, Behind, Known
<1> QED
  BY <1>1, <1>2, <1>3
     DEF Next, vars, state, Amendment, LoadStep, ConnectStep, LostStep, VersionStep,
         Restart

\* The types of an accepted extension are in the file from then on, whatever
\* writes have failed and however often Boot has started again.
THEOREM AcceptedKept == Spec => []AcceptedDurable
<1>1. ProtocolInv => AcceptedDurable
  BY DEF ProtocolInv, AcceptedDurable
<1> QED
  BY <1>1, ProtocolInitInv, ProtocolNext, PTL DEF Spec

\* The contents of a known type change in the file under a new major version
\* only, even when the change is written with a later extension.
THEOREM ChangesRaiseMajor == Spec => BreakingRaisesMajor
<1>1. ProtocolInv /\ [Next]_vars =>
        [\A t \in Known(file) :
            file'.messages[t] # file.messages[t] => file'.major > file.major]_vars
  BY ProtocolNext
<1> QED
  BY <1>1, ProtocolInitInv, ProtocolNext, PTL DEF Spec, BreakingRaisesMajor

-----------------------------------------------------------------------------
(* The log of amendments.                                                  *)

\* Until a write of the log fails, the log counts the amendments.
LogCounts ==
    /\ counter \in Nat
    /\ amendments \in Seq(Nat)
    /\ unlogged \in BOOLEAN
    /\ ~unlogged => /\ counter = Len(amendments)
                    /\ \A i \in 1..Len(amendments) : amendments[i] = i

\* An amendment takes the next identifier; a restart reads the log back.
LEMMA LogNext == LogCounts /\ [Next]_vars => LogCounts'
<1> SUFFICES ASSUME LogCounts, [Next]_vars PROVE LogCounts'
  OBVIOUS
<1> USE DEF LogCounts
<1>1. CASE ProposeAmendment
  <2>1. counter' = counter + 1
    BY <1>1 DEF ProposeAmendment
  <2>2. CASE amendments' = Append(amendments, counter') /\ unlogged' = unlogged
    BY <2>1, <2>2
  <2>3. CASE amendments' = amendments /\ unlogged' = TRUE
    BY <2>1, <2>3
  <2> QED
    BY <1>1, <2>2, <2>3 DEF ProposeAmendment
<1>2. CASE CountExistingAmendments
  BY <1>2 DEF CountExistingAmendments
<1>3. CASE UNCHANGED documentVars
  BY <1>3 DEF documentVars
<1> QED
  BY <1>1, <1>2, <1>3
     DEF Next, vars, state, constitutionVars, Amendment, LoadStep, ConnectStep,
         LostStep, Extension, VersionStep, Restart, LoadInvariants, LoadBenchmarks,
         JudgeConnects, JudgeLost

\* No two amendments of the log have one id, over any number of amendments
\* and restarts, as long as no write of the log has failed.
THEOREM IdsUnique == Spec => []AmendmentIdsUnique
<1>1. Init => LogCounts
  <2> SUFFICES ASSUME Init PROVE LogCounts
    OBVIOUS
  <2>1. counter = 0 /\ amendments = <<>> /\ unlogged \in BOOLEAN
    BY DEF Init, ConstitutionInit
  <2>2. <<>> \in Seq(Nat) /\ Len(<<>>) = 0
    OBVIOUS
  <2> QED
    BY <2>1, <2>2 DEF LogCounts
<1>2. LogCounts => AmendmentIdsUnique
  BY DEF LogCounts, AmendmentIdsUnique
<1> QED
  BY <1>1, <1>2, LogNext, PTL DEF Spec

-----------------------------------------------------------------------------
(* Type correctness.  The counter and the log need the number of amendments *)
(* that were applied as their bound.                                       *)

DocumentInv ==
    /\ ConstitutionTypeOK
    /\ counter <= amended
    /\ Len(amendments) <= amended

\* The documents at the start are well formed.
LEMMA DocumentInitInv == Init => DocumentInv
<1> SUFFICES ASSUME Init PROVE DocumentInv
  OBVIOUS
<1>1. /\ invariants = InitialTests
      /\ benchmarks = [dimensions |-> InitialDimensions, overall |-> InitialOverall]
      /\ judge = [phase |-> "down", tests |-> invariants, benchmarks |-> benchmarks]
      /\ amendments = <<>>
  BY DEF Init, ConstitutionInit
<1>2. <<>> \in Seq(1..MaxAmendments) /\ Len(<<>>) = 0
  OBVIOUS
<1>3. invariants \in Invariants /\ benchmarks \in Benchmarks
  BY <1>1, GovernanceAssumption DEF Benchmarks
<1>4. judge \in [phase : Phases, tests : Invariants, benchmarks : Benchmarks]
  BY <1>1, <1>3 DEF Phases
<1>5. amendments \in Seq(1..MaxAmendments) /\ Len(amendments) = 0
  BY <1>1, <1>2
<1>6. counter = 0 /\ amended = 0 /\ unlogged \in BOOLEAN
  BY DEF Init, ConstitutionInit
<1>7. 0 \in 0..MaxAmendments
  BY ConstitutionAssumption
<1> QED
  BY <1>3, <1>4, <1>5, <1>6, <1>7 DEF DocumentInv, ConstitutionTypeOK

\* An amendment leaves a document.
LEMMA AmendedDocuments ==
  ASSUME invariants \in Invariants, benchmarks \in Benchmarks, ApplyAmendment
  PROVE  invariants' \in Invariants /\ benchmarks' \in Benchmarks
<1>1. InvariantAmendments(invariants) \subseteq Invariants
  BY DEF InvariantAmendments, Edits, Invariants
<1>2. BenchmarkAmendments(benchmarks) \subseteq Benchmarks
  <2>1. benchmarks.dimensions \in [Dimensions -> DimensionEntries \cup {Absent}]
    BY DEF Benchmarks
  <2>2. \A n \in Dimensions : Edits(benchmarks.dimensions, n, DimensionEntries)
            \subseteq [Dimensions -> DimensionEntries \cup {Absent}]
    BY <2>1 DEF Edits
  <2> QED
    BY <2>2 DEF BenchmarkAmendments, Benchmarks
<1> QED
  BY <1>1, <1>2 DEF ApplyAmendment

\* Amendments, loads and connections keep the documents well formed.
LEMMA DocumentNext == DocumentInv /\ [Next]_vars => DocumentInv'
<1> SUFFICES ASSUME DocumentInv, [Next]_vars PROVE DocumentInv'
  OBVIOUS
<1> USE ConstitutionAssumption DEF DocumentInv, ConstitutionTypeOK, Phases
<1>1. CASE ProposeAmendment
  <2>1. invariants' \in Invariants /\ benchmarks' \in Benchmarks
    BY <1>1, AmendedDocuments DEF ProposeAmendment
  <2>2. /\ counter' = counter + 1 /\ amended' = amended + 1
        /\ amended' \in 0..MaxAmendments /\ counter' \in 1..MaxAmendments
        /\ judge' = judge
    BY <1>1 DEF ProposeAmendment
  <2>3. /\ amendments' \in Seq(1..MaxAmendments) /\ Len(amendments') <= amended'
        /\ unlogged' \in BOOLEAN
    <3>1. CASE amendments' = Append(amendments, counter') /\ unlogged' = unlogged
      BY <2>2, <3>1
    <3>2. CASE amendments' = amendments /\ unlogged' = TRUE
      BY <2>2, <3>2
    <3> QED
      BY <1>1, <3>1, <3>2 DEF ProposeAmendment
  <2> QED
    BY <2>1, <2>2, <2>3
<1>2. CASE CountExistingAmendments /\ judge' \in {judge, [judge EXCEPT !.phase = "down"]}
  <2>1. Len(amendments) \in 0..MaxAmendments
    OBVIOUS
  <2> QED
    BY <1>2, <2>1 DEF CountExistingAmendments
<1>3. CASE UNCHANGED documentVars /\ UNCHANGED judge
  BY <1>3 DEF documentVars
<1>4. CASE LoadInvariants \/ LoadBenchmarks
  BY <1>4 DEF LoadInvariants, LoadBenchmarks, documentVars
<1>5. CASE JudgeConnects \/ JudgeLost
  BY <1>5 DEF JudgeConnects, JudgeLost, documentVars
<1> QED
  BY <1>1, <1>2, <1>3, <1>4, <1>5
     DEF Next, vars, state, constitutionVars, Amendment, LoadStep, ConnectStep,
         LostStep, Extension, VersionStep, Restart

\* Every variable keeps its type, for all documents, registries, capabilities
\* and bounds.
THEOREM TypeCorrect == Spec => []TypeOK
<1> DEFINE GInv == DocumentInv /\ ProtocolInv /\ CapabilityInv /\ subject \in Subjects
<1>1. Init => GInv
  BY DocumentInitInv, ProtocolInitInv, CapabilityInit DEF Init
<1>2. GInv /\ [Next]_vars => GInv'
  <2>1. subject \in Subjects /\ [Next]_vars => subject' \in Subjects
    BY DEF Next, vars
  <2> QED
    BY <2>1, DocumentNext, ProtocolNext, CapabilityNext
<1>3. GInv => TypeOK
  BY DEF DocumentInv, ProtocolInv, CapabilityInv, TypeOK
<1> QED
  BY <1>1, <1>2, <1>3, PTL DEF Spec

-----------------------------------------------------------------------------
(* Sums over finite sets.  FoldFunction takes a member chosen by CHOOSE     *)
(* after another, and an induction over the subsets of a finite set has the *)
(* form of a set Good of them that contains {} and what these steps reach.  *)

\* What a sum over s leaves to add after its first member.
Rest(s) == s \ {CHOOSE x \in s : TRUE}

\* Without its first member a finite set is smaller by one.
LEMMA RestSmaller ==
  ASSUME NEW s, IsFiniteSet(s), s # {}
  PROVE  /\ (CHOOSE x \in s : TRUE) \in s
         /\ Rest(s) \subseteq s /\ Rest(s) # s /\ IsFiniteSet(Rest(s))
         /\ Cardinality(s) \in Nat /\ Cardinality(Rest(s)) = Cardinality(s) - 1
<1> DEFINE x == CHOOSE y \in s : TRUE
<1>1. x \in s
  OBVIOUS
<1> HIDE DEF x
<1>2. Rest(s) = s \ {x}
  BY DEF Rest, x
<1>3. IsFiniteSet(s \ {x}) /\ Cardinality(s \ {x}) = Cardinality(s) - 1
  BY <1>1, FS_RemoveElement
<1> QED
  BY <1>1, <1>2, <1>3, FS_CardinalityType DEF x

\* Induction over the subsets of a finite set.
LEMMA SubsetInduction ==
  ASSUME NEW S, IsFiniteSet(S), NEW Good, {} \in Good,
         \A s \in (SUBSET S) \ {{}} : Rest(s) \in Good => s \in Good
  PROVE  SUBSET S \subseteq Good
<1> DEFINE Bad == (SUBSET S) \ Good
           R == StrictSubsetOrdering(S)
<1>1. SUFFICES ASSUME Bad # {}
               PROVE  FALSE
  OBVIOUS
<1>2. \A s \in SUBSET S : IsFiniteSet(s)
  BY FS_Subset
<1>3. PICK s \in Bad : \A t \in Bad : ~(<<t, s>> \in R)
  <2>1. Bad \subseteq FiniteSubsetsOf(S)
    BY <1>2 DEF FiniteSubsetsOf
  <2>2. IsWellFoundedOn(R, FiniteSubsetsOf(S))
    BY FS_StrictSubsetOrderingWellFounded
  <2> HIDE DEF Bad
  <2> QED
    BY <1>1, <2>1, <2>2, WFMin
<1>4. s \in (SUBSET S) \ {{}} /\ s \notin Good
  OBVIOUS
<1>5. Rest(s) \subseteq s /\ Rest(s) # s
  BY <1>2, <1>4, RestSmaller
<1>6. <<Rest(s), s>> \in R
  BY <1>4, <1>5 DEF StrictSubsetOrdering
<1> QED
  BY <1>3, <1>4, <1>5, <1>6

\* The sums g of f over the subsets.
SumStep(f, g, s) ==
    IF s = {} THEN 0 ELSE f[CHOOSE x \in s : TRUE] + g[Rest(s)]
Sums(f, S, g) == g = [s \in SUBSET S |-> SumStep(f, g, s)]

\* There are such sums: the recursion ends, as the rest is smaller.
LEMMA SumsExist ==
  ASSUME NEW S, IsFiniteSet(S), NEW f \in [S -> Int]
  PROVE  \E g : Sums(f, S, g)
<1> DEFINE Small(k) == {s \in SUBSET S : Cardinality(s) <= k}
           Upto(k, g) == \A s \in Small(k) : g[s] = SumStep(f, g, s)
           Good == {s \in SUBSET S : \E g \in [Small(Cardinality(s)) -> Int] :
                                        Upto(Cardinality(s), g)}
<1>1. \A s \in SUBSET S : IsFiniteSet(s) /\ Cardinality(s) \in Nat /\ Cardinality(s) <= Cardinality(S)
  BY FS_Subset, FS_CardinalityType
<1>2. \A s \in SUBSET S : Cardinality(s) <= 0 => s = {}
  BY <1>1, FS_EmptySet
<1>3. {} \in Good
  <2> DEFINE h == [s \in Small(0) |-> 0]
  <2>1. h \in [Small(0) -> Int]
    OBVIOUS
  <2>2. Upto(0, h)
    BY <1>2 DEF SumStep
  <2>3. Cardinality({}) = 0
    BY FS_EmptySet
  <2> HIDE DEF h, Small
  <2> QED
    BY <2>1, <2>2, <2>3
<1>4. ASSUME NEW s \in (SUBSET S) \ {{}}, Rest(s) \in Good
      PROVE  s \in Good
  <2> DEFINE k == Cardinality(Rest(s))
             n == Cardinality(s)
  <2>1. k \in Nat /\ n = k + 1
    BY <1>1, <1>4, RestSmaller
  <2>2. PICK g \in [Small(k) -> Int] : Upto(k, g)
    BY <1>4
  <2> HIDE DEF k, n
  <2> DEFINE h == [t \in Small(n) |-> SumStep(f, g, t)]
  <2>3. \A t \in Small(n) : t # {} =>
            Rest(t) \in Small(k) /\ (CHOOSE x \in t : TRUE) \in S
    BY <1>1, <2>1, RestSmaller
  <2>4. \A t \in Small(k) : t \in Small(n) /\ h[t] = g[t]
    BY <1>1, <2>1, <2>2
  <2>5. h \in [Small(n) -> Int]
    <3>1. ASSUME NEW t \in Small(n)
          PROVE  SumStep(f, g, t) \in Int
      <4>1. CASE t = {}
        BY <4>1 DEF SumStep
      <4>2. CASE t # {}
        <5>1. g[Rest(t)] \in Int /\ f[CHOOSE x \in t : TRUE] \in Int
          BY <2>3, <4>2
        <5> QED
          BY <4>2, <5>1 DEF SumStep
      <4> QED
        BY <4>1, <4>2
    <3> HIDE DEF Small
    <3> QED
      BY <3>1
  <2>6. Upto(n, h)
    <3>1. ASSUME NEW t \in Small(n)
          PROVE  h[t] = SumStep(f, h, t)
      <4>1. h[t] = SumStep(f, g, t)
        OBVIOUS
      <4>2. t # {} => h[Rest(t)] = g[Rest(t)]
        BY <2>3, <2>4
      <4> HIDE DEF h
      <4> QED
        BY <4>1, <4>2 DEF SumStep
    <3> HIDE DEF h, Small
    <3> QED
      BY <3>1
  <2> HIDE DEF h, Small
  <2> QED
    BY <2>5, <2>6 DEF n
<1>5. S \in Good
  <2> HIDE DEF Good
  <2> QED
    BY <1>3, <1>4, SubsetInduction
<1>6. Small(Cardinality(S)) = SUBSET S
  BY <1>1
<1>7. PICK g \in [SUBSET S -> Int] : \A s \in SUBSET S : g[s] = SumStep(f, g, s)
  <2> HIDE DEF Small
  <2> QED
    BY <1>5, <1>6
<1> QED
  BY <1>7 DEF Sums

\* The sum of the library is one of them.
LEMMA SumIsSums ==
  ASSUME NEW S, IsFiniteSet(S), NEW f \in [S -> Int]
  PROVE  \E g : /\ \A s \in SUBSET S : g[s] = SumStep(f, g, s)
                /\ SumFunction(f) = g[S]
<1>1. DOMAIN f = S
  OBVIOUS
<1>2. SumFunction(f) = SumFunctionOnSet(f, S)
  BY <1>1 DEF SumFunction
<1>3. SumFunctionOnSet(f, S) = (CHOOSE g : Sums(f, S, g))[S]
  BY Zenon DEF SumFunctionOnSet, FoldFunctionOnSet, MapThenFoldSet, Sums, SumStep, Rest
<1>4. PICK g : Sums(f, S, g) /\ SumFunction(f) = g[S]
  BY <1>2, <1>3, SumsExist, Zenon
<1>5. \A s \in SUBSET S : g[s] = SumStep(f, g, s)
  BY <1>4 DEF Sums
<1> QED
  BY <1>4, <1>5

\* A sum of numbers is one.
LEMMA SumOfNumbers ==
  ASSUME NEW S, IsFiniteSet(S), NEW f \in [S -> Int]
  PROVE  SumFunction(f) \in Int
<1>1. PICK g : /\ \A s \in SUBSET S : g[s] = SumStep(f, g, s)
               /\ SumFunction(f) = g[S]
  BY SumIsSums
<1> DEFINE Good == {s \in SUBSET S : g[s] \in Int}
<1>2. {} \in Good
  BY <1>1 DEF SumStep
<1>3. ASSUME NEW s \in (SUBSET S) \ {{}}, Rest(s) \in Good
      PROVE  s \in Good
  <2>1. g[s] = f[CHOOSE x \in s : TRUE] + g[Rest(s)]
    BY <1>1 DEF SumStep
  <2>2. f[CHOOSE x \in s : TRUE] \in Int /\ g[Rest(s)] \in Int
    BY <1>3
  <2> QED
    BY <2>1, <2>2
<1>4. S \in Good
  <2> HIDE DEF Good
  <2> QED
    BY <1>2, <1>3, SubsetInduction
<1> QED
  BY <1>1, <1>4

\* Multiples of numbers sum up to the multiple of their sum.
LEMMA SumOfMultiples ==
  ASSUME NEW S, IsFiniteSet(S), NEW f \in [S -> Int], NEW c \in Nat
  PROVE  SumFunction([x \in S |-> c * f[x]]) = c * SumFunction(f)
<1> DEFINE h == [x \in S |-> c * f[x]]
<1>1. h \in [S -> Int]
  OBVIOUS
<1>2. PICK g : /\ \A s \in SUBSET S : g[s] = SumStep(f, g, s)
               /\ SumFunction(f) = g[S]
  BY SumIsSums
<1>3. PICK k : /\ \A s \in SUBSET S : k[s] = SumStep(h, k, s)
               /\ SumFunction(h) = k[S]
  <2> HIDE DEF h
  <2> QED
    BY <1>1, SumIsSums
<1> DEFINE Good == {s \in SUBSET S : g[s] \in Int /\ k[s] = c * g[s]}
<1>4. {} \in Good
  <2>1. g[{}] = 0 /\ k[{}] = 0
    <3> HIDE DEF h
    <3> QED
      BY <1>2, <1>3 DEF SumStep
  <2>2. c * 0 = 0
    OBVIOUS
  <2> QED
    BY <2>1, <2>2
<1>5. ASSUME NEW s \in (SUBSET S) \ {{}}, Rest(s) \in Good
      PROVE  s \in Good
  <2> DEFINE x == CHOOSE y \in s : TRUE
  <2>1. x \in S
    OBVIOUS
  <2>2. g[s] = f[x] + g[Rest(s)] /\ k[s] = h[x] + k[Rest(s)]
    BY <1>2, <1>3 DEF SumStep
  <2> HIDE DEF x
  <2>3. /\ f[x] \in Int /\ h[x] = c * f[x]
        /\ g[Rest(s)] \in Int /\ k[Rest(s)] = c * g[Rest(s)]
    BY <1>5, <2>1
  <2>4. \A a, b \in Int : c * a + c * b = c * (a + b)
    OBVIOUS
  <2>5. g[s] \in Int /\ k[s] = c * g[s]
    <3> HIDE DEF Good, h
    <3> QED
      BY <2>2, <2>3, <2>4
  <2> QED
    BY <2>5
<1>6. S \in Good
  <2> HIDE DEF Good
  <2> QED
    BY <1>4, <1>5, SubsetInduction
<1> QED
  BY <1>2, <1>3, <1>6

-----------------------------------------------------------------------------
(* The verdict: the score of a build that passes every test is full in all  *)
(* measured dimensions, so its weighted sum is the weights' sum times it.   *)

\* A build that passes all tests gets the full score where something is
\* measured.
LEMMA FullScore ==
  ASSUME NEW tests \in Invariants, NEW build, Listed(tests) = Passed(tests, build),
         NEW name \in FollowTests \cup AlwaysFull
  PROVE  RawScore(name, tests, build) = Total(tests) /\ Total(tests) \in Nat \ {0}
<1>1. IsFiniteSet(Listed(tests))
  BY ConstitutionAssumption, FS_Subset DEF Listed, Invariants
<1>2. Total(tests) \in Nat \ {0}
  BY <1>1, FS_CardinalityType, FS_EmptySet DEF Total
<1>3. Cardinality(Listed(tests) \ Passed(tests, build)) = 0
  <2>1. Listed(tests) \ Passed(tests, build) = {}
    OBVIOUS
  <2> QED
    BY <2>1, FS_EmptySet
<1>4. Total(tests) - Cardinality(Listed(tests) \ Passed(tests, build)) = Total(tests)
  BY <1>2, <1>3
<1>5. FollowTests \cap AlwaysFull = {}
  BY DEF FollowTests, AlwaysFull
<1>6. CASE name \in FollowTests
  BY <1>2, <1>4, <1>6 DEF RawScore
<1>7. CASE name \in AlwaysFull
  BY <1>2, <1>5, <1>7 DEF RawScore
<1> QED
  BY <1>6, <1>7

\* The readable dimensions have numbers.
LEMMA ReadDimensions ==
  ASSUME NEW marks \in Benchmarks, ReadableBenchmarks(marks),
         NEW n \in Listed(marks.dimensions)
  PROVE  marks.dimensions[n].weight \in Int /\ marks.dimensions[n].min \in Int
<1>1. marks.dimensions \in [Dimensions -> DimensionEntries \cup {Absent}]
  BY DEF Benchmarks
<1>2. n \in Dimensions /\ marks.dimensions[n] # Absent /\ marks.dimensions[n] # Partial
  BY <1>1 DEF Listed, ReadableBenchmarks
<1>3. marks.dimensions[n] \in [weight : Weights, min : Minima]
  BY <1>1, <1>2 DEF DimensionEntries
<1> QED
  BY <1>3, ConstitutionAssumption

\* The overall score of a build that passes all tests is the full one,
\* whatever the weights, as long as their sum is positive.
LEMMA FullOverall ==
  ASSUME NEW tests \in Invariants, NEW marks \in Benchmarks, ReadableBenchmarks(marks),
         Attainable(marks), NEW build, Listed(tests) = Passed(tests, build)
  PROVE  LET overall == Overall(tests, marks, build)
         IN  overall.of \in Nat /\ overall.sum = overall.of
<1> DEFINE dims == marks.dimensions
           S == Listed(dims)
           f == [n \in S |-> dims[n].weight]
           parts == [n \in S |-> RawScore(n, tests, build) * dims[n].weight]
           c == Total(tests)
<1>1. IsFiniteSet(S)
  <2>1. dims \in [Dimensions -> DimensionEntries \cup {Absent}]
    BY DEF Benchmarks
  <2>2. S \subseteq Dimensions
    BY <2>1 DEF Listed
  <2> QED
    BY <2>2, ConstitutionAssumption, FS_Subset
<1>2. SumFunction(f) > 0
  BY DEF Attainable, TotalWeight
<1>3. \A n \in S : n \in FollowTests \cup AlwaysFull
  BY DEF Attainable
<1>4. \A n \in S : dims[n].weight \in Int
  BY ReadDimensions
<1>5. c \in Nat
  <2>1. "task_correctness" \in FollowTests
    BY DEF FollowTests
  <2> QED
    BY <2>1, FullScore
<1>6. \A n \in S : RawScore(n, tests, build) = c
  BY <1>3, FullScore
<1>7. parts = [n \in S |-> c * f[n]]
  BY <1>6
<1>8. f \in [S -> Int]
  BY <1>4
<1>9. Overall(tests, marks, build) =
           IF SumFunction(f) <= 0 THEN [sum |-> 0, of |-> 1]
           ELSE [sum |-> SumFunction(parts), of |-> SumFunction(f) * c]
  BY DEF Overall, TotalWeight
<1> HIDE DEF S, f, parts, c
<1>10. SumFunction(f) \in Nat /\ ~(SumFunction(f) <= 0)
  BY <1>1, <1>2, <1>8, SumOfNumbers
<1>11. SumFunction(parts) = c * SumFunction(f)
  BY <1>1, <1>5, <1>7, <1>8, SumOfMultiples
<1>12. c * SumFunction(f) = SumFunction(f) * c /\ SumFunction(f) * c \in Nat
  BY <1>5, <1>10
<1> QED
  BY <1>9, <1>10, <1>11, <1>12

\* The full score meets every minimum up to 100.
LEMMA FullMeets ==
  ASSUME NEW m \in Int, m <= 100, NEW t \in Nat
  PROVE  100 * t >= m * t
<1>1. PICK d \in Nat : 100 = m + d
  <2>1. 100 - m \in Nat /\ 100 = m + (100 - m)
    OBVIOUS
  <2> QED
    BY <2>1
<1>2. 100 * t = m * t + d * t
  <2>1. (m + d) * t = m * t + d * t
    OBVIOUS
  <2> QED
    BY <1>1, <2>1
<1>3. d * t \in Nat /\ m * t \in Int
  OBVIOUS
<1> QED
  BY <1>2, <1>3

\* Benchmarks that can be met refuse no build that passes all tests.
LEMMA BenchmarksAgree ==
  ASSUME NEW tests \in Invariants, NEW marks \in Benchmarks, ReadableBenchmarks(marks),
         Attainable(marks), NEW build, Listed(tests) = Passed(tests, build)
  PROVE  Passes(tests, marks, build)
<1> DEFINE overall == Overall(tests, marks, build)
<1>1. overall.of \in Nat /\ overall.sum = overall.of
  BY FullOverall
<1>2. marks.overall \in Int /\ marks.overall <= 100
  BY ConstitutionAssumption DEF Benchmarks, ReadableBenchmarks, Attainable
<1>3. 100 * overall.sum >= marks.overall * overall.of
  <2> HIDE DEF overall
  <2> QED
    BY <1>1, <1>2, FullMeets
<1>4. ASSUME NEW n \in Listed(marks.dimensions)
      PROVE  100 * RawScore(n, tests, build) >= marks.dimensions[n].min * Total(tests)
  <2>1. n \in FollowTests \cup AlwaysFull /\ marks.dimensions[n].min <= 100
    BY DEF Attainable
  <2>2. RawScore(n, tests, build) = Total(tests) /\ Total(tests) \in Nat
    BY <2>1, FullScore
  <2>3. marks.dimensions[n].min \in Int
    BY ReadDimensions
  <2> QED
    BY <2>1, <2>2, <2>3, FullMeets
<1> QED
  BY <1>3, <1>4 DEF Passes

\* The inductive invariant: a judge that connects has read its benchmarks.
JudgeInv ==
    /\ DocumentInv
    /\ judge.phase \in {"loaded", "serving"} => ReadableBenchmarks(judge.benchmarks)

\* Only a judge that has read its benchmarks gets past loading them.
LEMMA JudgeNext == JudgeInv /\ [Next]_vars => JudgeInv'
<1> SUFFICES ASSUME JudgeInv, [Next]_vars PROVE JudgeInv'
  OBVIOUS
<1>1. DocumentInv'
  BY DocumentNext DEF JudgeInv
<1>2. judge \in [phase : Phases, tests : Invariants, benchmarks : Benchmarks]
  BY DEF JudgeInv, DocumentInv, ConstitutionTypeOK
<1>3. CASE UNCHANGED judge
  BY <1>1, <1>3 DEF JudgeInv, ReadableBenchmarks
<1>4. CASE judge' = [judge EXCEPT !.phase = "down"]
  BY <1>1, <1>2, <1>4 DEF JudgeInv
<1>5. CASE LoadInvariants
  BY <1>1, <1>2, <1>5 DEF JudgeInv, LoadInvariants
<1>6. CASE LoadBenchmarks
  BY <1>1, <1>2, <1>6 DEF JudgeInv, LoadBenchmarks, ReadableBenchmarks
<1>7. CASE JudgeConnects
  BY <1>1, <1>2, <1>7 DEF JudgeConnects, JudgeInv, ReadableBenchmarks
<1> QED
  BY <1>1, <1>3, <1>4, <1>5, <1>6, <1>7
     DEF Next, vars, state, constitutionVars, Amendment, LoadStep, ConnectStep,
         LostStep, Extension, VersionStep, Restart, ProposeAmendment, JudgeLost

\* The benchmarks refuse no build that passes all tests, for any tests, and
\* whatever numbers amendments have made of the weights and minima, negative
\* ones included, as long as they can be met: what is listed is measured, the
\* weights have a positive sum, and no minimum is above 100.
THEOREM VerdictsFollow == Spec => []VerdictFollowsTests
<1>1. Init => JudgeInv
  <2> SUFFICES ASSUME Init PROVE JudgeInv
    OBVIOUS
  <2>1. judge.phase = "down"
    BY DEF Init, ConstitutionInit
  <2> QED
    BY <2>1, DocumentInitInv DEF JudgeInv
<1>2. JudgeInv => VerdictFollowsTests
  <2> SUFFICES ASSUME JudgeInv, judge.phase = "serving", Attainable(judge.benchmarks),
                      NEW build
               PROVE  Passes(judge.tests, judge.benchmarks, build)
                        <=> Listed(judge.tests) = Passed(judge.tests, build)
    BY DEF VerdictFollowsTests
  <2>1. /\ judge.tests \in Invariants /\ judge.benchmarks \in Benchmarks
        /\ ReadableBenchmarks(judge.benchmarks)
    BY DEF JudgeInv, DocumentInv, ConstitutionTypeOK
  <2>2. CASE Listed(judge.tests) = Passed(judge.tests, build)
    BY <2>1, <2>2, BenchmarksAgree
  <2>3. CASE Listed(judge.tests) # Passed(judge.tests, build)
    BY <2>3 DEF Passes
  <2> QED
    BY <2>2, <2>3
<1> QED
  BY <1>1, <1>2, JudgeNext, PTL DEF Spec
=============================================================================
