SPECIFICATION Spec
CONSTANTS
    Docs <- NestedDocs
    Requests <- NestedRequests
    Unlimited = Unlimited
    Size = 4
    MaxNodes = 4
    MaxDepth = 2
INVARIANT EachIdOnce
\* A slice that is cut or refused is the end.
CHECK_DEADLOCK FALSE
