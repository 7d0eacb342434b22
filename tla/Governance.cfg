SPECIFICATION FairSpec
CONSTANTS
    Tests <- TwoTests
    Dimensions <- ThreeDimensions
    Weights <- AnyWeights
    Minima = {100}
    Absent = Absent
    Partial = Partial
    MaxAmendments = 3
    CoreTypes = {"Hello"}
    NewTypes = {"Ping"}
    Schemas = {"s1", "s2"}
    CoreSchema = "s1"
    NoType = NoType
    MaxMajor = 3
    MaxMinor = 2
    Items = {"a"}
    MaxChildren = 1
    Versions <- SomeCapabilities
    InitialTests <- OneTest
    InitialDimensions <- OneDimension
    InitialOverall = 100
    Unreadable = Unreadable
    MaxForced = 1
INVARIANTS TypeOK AmendmentIdsUnique VerdictFollowsTests NoEscalation AcceptedDurable
PROPERTIES BreakingRaisesMajor JudgeServes
\* Boot and the judge may go on without a proposal.
CHECK_DEADLOCK FALSE
