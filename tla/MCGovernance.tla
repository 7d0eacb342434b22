----------------------------- MODULE MCGovernance -----------------------------
(* An instance of Governance for TLC.                                         *)
EXTENDS Governance

TwoTests == {"hello", "echo"}
ThreeDimensions == {"task_correctness", "response_latency", "kindness"}
OneTest == [t \in TwoTests |-> IF t = "hello" THEN "known" ELSE Absent]
OneDimension ==
    [n \in ThreeDimensions |->
        IF n = "task_correctness" THEN [weight |-> 1, min |-> 100] ELSE Absent]

AnyWeights == -1..1

\* Every grant of network, the other categories with and without everything.
SomeCapabilities ==
    {c \in Capabilities :
        /\ c.read = c.write /\ c.ipc = c.read
        /\ c.exec \in {NoGrant, [allowed |-> TRUE, whitelist |-> c.read]}
        /\ c.children = 0 <=> c.read = {}}
=============================================================================
