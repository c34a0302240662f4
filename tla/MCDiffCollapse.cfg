SPECIFICATION DiffSpec
CONSTANTS
    Docs <- MCDocs
    Requests <- MCRequests
    Unlimited = Unlimited
    MeasuredFiles <- FilesOf
    Settings <- MCSettings
    None = None
    Slices = {}
    FilesFor <- NoneFor
    SettingsFor <- NoneFor
INVARIANT CollapseHasOneChild
\* A verdict or a refusal is the end.
CHECK_DEADLOCK FALSE
