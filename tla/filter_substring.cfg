CONSTANTS
    Nil = Nil
    Filters <- AllFilters
    Alphabet <- AllCharacters
    Names <- SomeNames
    Values <- SomeValues
    INT64_MAX = 11
    MaxProps = 2
SPECIFICATION FilterSpec
INVARIANTS SubstringsInOrder
CHECK_DEADLOCK FALSE
