\* Three keys, without a limit and with a limit of two records.
SPECIFICATION Spec
CONSTANTS
    Key = {k1, k2, k3}
    Value = {v1, v2}
    Tag = tag
    MaxAge = 2
    MaxCounts <- MCMaxCounts
INVARIANTS
    TypeOK
    RingLinked
    Bounded
PROPERTIES
    ImplementsList
