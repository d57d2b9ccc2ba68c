CONSTANTS
    MaxTags = 3
    MaxTagBytes = 2
    MaxMessages = 3
    MaxRoleBytes = 1
    MaxContentBytes = 2
    MaxIdentityBytes = 2
    MaxTools = 2
    MaxToolText = 3
    MaxFields = 2
    MaxFilters = 1
    MaxOrderBy = 1
    MaxStringBytes = 2
    MaxJsonBytes = 2
    MaxSegments = 1
    MaxSegmentBytes = 1
    DefaultLimit = 2
    MaxLimit = 3
    MaxOffset = 8
    MaxPlugins = 2
    MaxUrls = 1
SPECIFICATION Spec
INVARIANTS
    UnmarkedTraceIsWhole
    SessionsDoNotMix
    SecretsAreNotStored
    ExchangesAreReassembled
    QueriesAreAnswered
    RoutesAreUnambiguous
    AcceptedConfigHolds
    OnlyMeantUsersEnter
CHECK_DEADLOCK FALSE
