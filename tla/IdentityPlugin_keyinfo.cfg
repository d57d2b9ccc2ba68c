\* A gateway that answers without an info object.
CONSTANTS
    Keys = {1, 2, 3}
    OtherKeys = {2, 3}
    Capacity = 2
    DefaultTTL = 1
    MaxEntryTTL = 2
    IdentityTTL = 2
    Timeout = 1
    Users = {1}
    Invokers = {w1, w2}
    MaxChanges = 2
    MaxTime = 5
SPECIFICATION Spec
INVARIANT
    CachedIsGenuine
