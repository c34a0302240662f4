SPECIFICATION ProjectionSpec
CONSTANTS
    Docs <- MCDocs
    Requests <- MCRequests
    Unlimited = Unlimited
    None = None
INVARIANT ProjectionTypeOK
INVARIANT ClaimsAreHonest
INVARIANT FillsTheParent
INVARIANT NothingOwedIsLost
INVARIANT ExactLayoutIsQuiet
\* A projection is the end.
CHECK_DEADLOCK FALSE
