SPECIFICATION ProjectionSpec
CONSTANTS
    Docs <- MCDocs
    Requests <- MCRequests
    Unlimited = Unlimited
    None = None
INVARIANT AdjacentPairsAreCompared
\* A projection is the end.
CHECK_DEADLOCK FALSE
