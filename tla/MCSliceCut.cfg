SPECIFICATION Spec
CONSTANTS
    Docs <- AllDocs
    Requests <- SomeRequests
    Unlimited = Unlimited
    Size = 5
    MaxNodes = 4
    MaxDepth = 2
INVARIANT TypeOK
INVARIANT EveryNodeAccounted
INVARIANT SliceStandsAlone
INVARIANT LimitsAreExact
\* A slice that is cut or refused is the end.
CHECK_DEADLOCK FALSE
