CONSTANTS
    Nil = Nil
    Filters <- AllFilters
    Alphabet <- AllCharacters
    Names <- SomeNames
    Values <- SomeValues
    INT64_MAX = 11
    MaxProps = 2
    Error = Error
    Uint63s <- SomeUint63s
    Texts = {"filter", "invalid"}
    InvalidTexts = {"invalid"}
    Printed <- SomePrinted
    AllProps <- SomeProps
    Garbled <- SomeSlipped
    FirstGarbled <- AllSlipped
    PROTO_VERSION = 2
    Address = "address"
    Now = 9
SPECIFICATION WireSpec
INVARIANTS RoundTrip NormalForm MatchesMeaning
INVARIANTS AcceptedIfWellFormed FieldsFreedOnce ResponsesWellFormed PublishedReachesReaders
CHECK_DEADLOCK FALSE
