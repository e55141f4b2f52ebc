SPECIFICATION MCSpec
CONSTANTS
    DocsSources = {"guide.rst"}
    IssueSources = {"7"}
    Contents <- MCContents
    MaxCheckouts = 1
    MaxTokens = 4
    Overlap = 1
    MinTokens = 2
    MergeTokens = 2
    Requests = {"r1"}
    Queries = {"q1", "q2"}
    OverFetch = 2
    FuseTo = 3
    RerankTo = 3
    TopK = 2
    RrfK = 60
    MaxTurns = 2
    MaxEvents = 3
    Tools = {"search"}
    MaxQueue = 2
CHECK_DEADLOCK FALSE
INVARIANTS
    TypesOK
    SourcesAreSearchable
    AgreedOrderKept
    ExpansionKeepsRank
    HitsAreRead
    AnswersAreTheirs
    OneTurnAtATime
    VisibleIsReady
PROPERTIES
    DenseTextIsItsOwn
    InputComesBack
