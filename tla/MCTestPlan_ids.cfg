CONSTANTS
    SupportCode <- MCSupportCode
    Wrappers <- MCWrappers
    MaxCalls = 3
    Pickles <- MCPickles
    Filters <- MCFilters
    MaxShards = 3
SPECIFICATION Spec
INVARIANT
    CanonicalIdsInOrder
