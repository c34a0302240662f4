SPECIFICATION LiveSpec
CONSTANTS
    Page = Page
    A = A
    B = B
    F = F
    Elsewhere = Elsewhere
    Gone = Gone
    Missing = Missing
    Malformed = Malformed
    Sections = {A, B}
    Frames = {F}
    Files <- MCFiles
    IdsPerRead = 1
    MaxSaves = 1
INVARIANT TypeOK
INVARIANT OneVersion
INVARIANT OutcomeHasCause
INVARIANT ListingIsExact
PROPERTY Terminates
\* A listing that is written or refused is the end.
CHECK_DEADLOCK FALSE
