SPECIFICATION GateSpec
CONSTANTS
    None = None
    Stranger = Stranger
    Shared = Shared
    Slices <- MCSlices
    FilesFor <- MCFiles
    SettingsFor <- MCSettings
INVARIANT GateTypeOK
INVARIANT MatchIsFaithful
INVARIANT ReportIsRight
INVARIANT EveryAnswerIsItsOwn
INVARIANT TextIsSeen
INVARIANT DerivedFrameStaysClose
\* A verdict or a refusal is the end.
CHECK_DEADLOCK FALSE
