SPECIFICATION Spec
CONSTANTS
    p1 = p1
    p2 = p2
    x1 = x1
    r1 = r1
    r2 = r2
    red = red
    blue = blue
    Procs = {p1, p2}
    Paths = {x1}
    Out <- OnePath
    Roots = {r1, r2}
    Requests <- BothRoots
    Designs <- SomeDesigns
    Absent = Absent
    Faults = {misfiled}
    Inodes = {i1, i2}
    NoFile = NoFile
    Torn = Torn
    MaxVersion = 1
INVARIANT TypeOK
INVARIANT OneVersion
PROPERTY Terminates
INVARIANT UnsharedWhole
PROPERTY CapturesAreKept
PROPERTY ImplementsAtomicCapture
\* Every invocation ends and the designer may stop saving.
CHECK_DEADLOCK FALSE
