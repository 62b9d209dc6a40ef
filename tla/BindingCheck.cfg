SPECIFICATION Spec
CONSTANTS
    Names <- MCNames
    Types <- MCTypes
    Values <- MCValues
    MaxParams = 3
INVARIANTS
    PositionalIsExact
    NamedLikePositional
    NullLikeEmpty
CHECK_DEADLOCK FALSE
