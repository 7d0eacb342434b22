----------------------------- MODULE Constitution -----------------------------
(***************************************************************************)
(* The constitution (crates/boot/src/constitution.rs): two documents, the  *)
(* tests and the benchmarks, that signed amendments change, and the judge  *)
(* service (crates/services/judge/src), which reads both when it starts a  *)
(* connection and decides by what it has read.                             *)
(*                                                                         *)
(* Boot and the judge are processes of their own and share only the files. *)
(* Scores and thresholds are percentages; a score that depends on the      *)
(* tests is kept as a fraction.                                            *)
(***************************************************************************)
EXTENDS Integers, Sequences, FiniteSets, Functions

CONSTANTS
    Tests,          \* ids of invariant tests
    Dimensions,     \* names of benchmark dimensions
    Weights, Minima, \* the numbers an amendment may set, which nothing checks
    Absent, Partial, \* no entry; an entry or number the judge cannot read
    MaxAmendments   \* bound: amendments applied in a behaviour

ASSUME ConstitutionAssumption ==
    /\ IsFiniteSet(Tests) /\ IsFiniteSet(Dimensions)
    /\ Weights \subseteq Int /\ Minima \subseteq Int
    /\ MaxAmendments \in Nat
    /\ Absent \notin Int /\ Partial \notin Int

VARIABLES
    invariants,  \* invariants.json: an entry for each test
    benchmarks,  \* benchmarks.json: an entry for each dimension, the overall minimum
    counter,     \* ConstitutionManager::amendment_counter
    amendments,  \* amendments.log: the ids in it
    judge,       \* the judge: its phase and what it has loaded
    amended,     \* how many amendments were applied (bound)
    unlogged     \* has an amendment been applied and not logged?

documentVars == <<invariants, benchmarks, counter, amendments, amended, unlogged>>
constitutionVars == <<documentVars, judge>>

\* A test of a type the judge does not know is readable, and always fails.
TestEntries == {"known", "unknown", Partial}
DimensionEntries == [weight : Weights, min : Minima] \cup {Partial}

Invariants == [Tests -> TestEntries \cup {Absent}]
Benchmarks ==
    [dimensions : [Dimensions -> DimensionEntries \cup {Absent}],
     overall : Minima \cup {Partial}]

Phases == {"down", "loading", "loaded", "serving"}

ConstitutionTypeOK ==
    /\ invariants \in Invariants
    /\ benchmarks \in Benchmarks
    /\ counter \in 0..MaxAmendments
    /\ amendments \in Seq(1..MaxAmendments)
    /\ judge \in [phase : Phases, tests : Invariants, benchmarks : Benchmarks]
    /\ amended \in 0..MaxAmendments
    /\ unlogged \in BOOLEAN

\* The documents the operator has put there, which Boot never writes itself,
\* and a judge that has just been started.
ConstitutionInit(tests, dimensions, overall) ==
    /\ invariants = tests
    /\ benchmarks = [dimensions |-> dimensions, overall |-> overall]
    /\ counter = 0
    /\ amendments = <<>>
    /\ judge = [phase |-> "down", tests |-> tests, benchmarks |-> benchmarks]
    /\ amended = 0
    /\ unlogged = FALSE

-----------------------------------------------------------------------------
(* Amendments.                                                             *)

\* add_*, remove_* and modify_* of entry id of a document; what is merged
\* into an entry may make it any other entry.
Edits(doc, id, entries) ==
    IF doc[id] = Absent THEN {[doc EXCEPT ![id] = e] : e \in entries}
    ELSE {[doc EXCEPT ![id] = e] : e \in entries \cup {Absent}}

\* apply_invariant_amendment
InvariantAmendments(doc) == UNION {Edits(doc, t, TestEntries) : t \in Tests}

\* apply_benchmark_amendment
BenchmarkAmendments(doc) ==
    {[doc EXCEPT !.dimensions = d] :
        d \in UNION {Edits(doc.dimensions, n, DimensionEntries) : n \in Dimensions}}
    \cup {[doc EXCEPT !.overall = m] : m \in Minima \cup {Partial}}

\* apply_amendment: one of the files is written.
ApplyAmendment ==
    \/ invariants' \in InvariantAmendments(invariants) /\ UNCHANGED benchmarks
    \/ benchmarks' \in BenchmarkAmendments(benchmarks) /\ UNCHANGED invariants

\* propose_amendment with a valid signature: any other proposal changes
\* nothing.  The counter moves before the log is written; if that fails the
\* proposer is refused, and the document stays amended.
ProposeAmendment ==
    /\ amended < MaxAmendments
    /\ amended' = amended + 1
    /\ ApplyAmendment
    /\ counter' = counter + 1
    /\ \/ amendments' = Append(amendments, counter') /\ UNCHANGED unlogged
       \/ unlogged' = TRUE /\ UNCHANGED amendments
    /\ UNCHANGED judge

\* Mutant: the counter starts at zero.
RestartAtZero ==
    /\ counter' = 0
    /\ UNCHANGED <<invariants, benchmarks, amendments, amended, unlogged>>

\* Mutant: the end of the last line counts as a line.
CountLastEnd ==
    /\ counter' = Len(amendments) + 1
    /\ UNCHANGED <<invariants, benchmarks, amendments, amended, unlogged>>

\* ConstitutionManager::new counts the lines of the log.
CountExistingAmendments ==
    /\ counter' = Len(amendments)
    /\ UNCHANGED <<invariants, benchmarks, amendments, amended, unlogged>>

-----------------------------------------------------------------------------
(* The judge: run_service, again and again.                                *)

\* InvariantsConfig::load and BenchmarksConfig::load read every field.
ReadableTests(doc) == \A t \in Tests : doc[t] # Partial
ReadableBenchmarks(doc) ==
    doc.overall # Partial /\ \A n \in Dimensions : doc.dimensions[n] # Partial

\* Mutant: a document that cannot be read ends the service.
LoadInvariantsOnce ==
    /\ judge.phase = "down"
    /\ judge' = [judge EXCEPT !.phase = IF ReadableTests(invariants) THEN "loading" ELSE "ended",
                              !.tests = invariants]
    /\ UNCHANGED documentVars

\* If the document cannot be read, the service waits and starts again.
LoadInvariants ==
    /\ judge.phase = "down"
    /\ ReadableTests(invariants)
    /\ judge' = [judge EXCEPT !.phase = "loading", !.tests = invariants]
    /\ UNCHANGED documentVars

LoadBenchmarks ==
    /\ judge.phase = "loading"
    /\ judge' = IF ReadableBenchmarks(benchmarks)
                THEN [judge EXCEPT !.phase = "loaded", !.benchmarks = benchmarks]
                ELSE [judge EXCEPT !.phase = "down"]
    /\ UNCHANGED documentVars

\* Connected, and the Welcome has come.
JudgeConnects ==
    /\ judge.phase = "loaded"
    /\ judge' = [judge EXCEPT !.phase = "serving"]
    /\ UNCHANGED documentVars

\* The connection fails or is lost.
JudgeLost ==
    /\ judge.phase \in {"loaded", "serving"}
    /\ judge' = [judge EXCEPT !.phase = "down"]
    /\ UNCHANGED documentVars

-----------------------------------------------------------------------------
(* The verdict of a judge that has read the documents tests and marks.     *)

Listed(doc) == {id \in DOMAIN doc : doc[id] # Absent}

\* run_all: a test passes if the judge knows its type and the build, the
\* tests of a known type it would pass, passes it.
Passed(tests, build) == {t \in Listed(tests) \cap build : tests[t] = "known"}

\* raw_scores: the scores a build gets, times the number of tests; nothing
\* else is measured, and a dimension that is not measured scores 0.
FollowTests == {"protocol_compliance", "task_correctness"}
AlwaysFull == {"response_latency", "resource_efficiency"}
Total(tests) == IF Listed(tests) = {} THEN 1 ELSE Cardinality(Listed(tests))
RawScore(name, tests, build) ==
    CASE name \in FollowTests ->
            Total(tests) - Cardinality(Listed(tests) \ Passed(tests, build))
      [] name \in AlwaysFull -> Total(tests)
      [] OTHER -> 0

\* Mutant: the weighted sum is divided by the number of dimensions.
OverallAsMean(tests, marks, build) ==
    LET dims == marks.dimensions
        parts == [n \in Listed(dims) |-> RawScore(n, tests, build) * dims[n].weight]
    IN  [sum |-> SumFunction(parts), of |-> Cardinality(Listed(dims)) * Total(tests)]

\* The sum of the weights, which may be of either sign.
TotalWeight(dims) == SumFunction([n \in Listed(dims) |-> dims[n].weight])

\* BenchmarkScorer::score, the overall score as a fraction: 0 unless the
\* weights have a positive sum.
Overall(tests, marks, build) ==
    LET dims == marks.dimensions
        parts == [n \in Listed(dims) |-> RawScore(n, tests, build) * dims[n].weight]
        weights == TotalWeight(dims)
    IN  IF weights <= 0 THEN [sum |-> 0, of |-> 1]
        ELSE [sum |-> SumFunction(parts), of |-> weights * Total(tests)]

\* build_test_result, without an older score to compare with: no SoftFail.
Passes(tests, marks, build) ==
    LET overall == Overall(tests, marks, build)
    IN  /\ Listed(tests) = Passed(tests, build)
        /\ \A n \in Listed(marks.dimensions) :
              100 * RawScore(n, tests, build) >= marks.dimensions[n].min * Total(tests)
        /\ 100 * overall.sum >= marks.overall * overall.of

=============================================================================
