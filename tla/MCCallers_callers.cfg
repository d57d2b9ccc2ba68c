\* Two requests of two browsers; two logins at a time for three names and a
\* table for two; a key of the gateway and two of another plugin share two
\* cache entries.
CONSTANTS
    Tasks = {t1, t2}
    Browsers = {b1, b2}
    StateTtl = 1
    SessionTtl = 1
    BatchSize = 1
    MaxStates = 1
    MaxSessions = 2
    MaxLate = 1
    MaxTime = 2
    Names = {b1, b2, c}
    MaxFailures = 2
    Window = 2
    Lockout = 2
    MaxTracked = 2
    LoginTime = 3
    Keys = {1, 2, 3}
    OtherKeys = {2, 3}
    Capacity = 2
    DefaultTTL = 1
    MaxEntryTTL = 2
    IdentityTTL = 2
    Timeout = 1
    Users = {1}
    Invokers = {w1, w2}
    MaxChanges = 1
    PluginTime = 4
SPECIFICATION MCSpec
SYMMETRY Symmetry
INVARIANTS
    OrderIsLru
    AttributionIsRecent
    TriesAreBounded
    StateRedeemedOnce
    EndedSessionsAreRefused
PROPERTIES
    LockHolds
    SessionsEndForAReason
CHECK_DEADLOCK FALSE
