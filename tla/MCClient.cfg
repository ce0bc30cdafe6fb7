\* Two connections after one another, sizes and fields at the limits.
CONSTANTS
    MAX_PLAYERS = 4
    MAX_FIELDS = 1
    FIELD_NAME_MAX = 3
    FIELD_VALUE_MAX = 2
    GID_MAX = 1
    SDP_MAX = 2
    CANDIDATE_MAX = 1
    Sizes = {0, 1, 3, 5}
    Names <- SomeNames
    Values <- SomeValues
    Gids <- SomeGids
    Sdps <- SomeSdps
    MaxConns = 2
    MaxQueue = 1
SPECIFICATION FairClientSpec
INVARIANTS Identity RefusedOnlyIfEarly MalformedOnlyIf
PROPERTIES AttemptsResolve EndingsReported
