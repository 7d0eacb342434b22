SPECIFICATION Spec
CONSTANTS
    Texts = {"a"}
    NL = NL
    Contents <- SomeContents
    InitialFile <- SomeFile
    ResultSlots = 1
    MaxLen = 1
    MaxCalls = 2
    MaxSubmissions = 2
INVARIANTS TypeOK AnswerMatches CommittedAsSubmitted EditsExact
