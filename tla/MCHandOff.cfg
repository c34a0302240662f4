SPECIFICATION Spec
CONSTANTS
    Snapshots <- MCSnapshots
    Owes <- MCOwes
    Requests <- MCRequests
    Answers <- MCAnswers
    Clock = {1, 2}
    Current = 1
    File = "this"
    LastVersion = 1
    MaxEdits = 2
    NoFile = NoFile
    Torn = Torn
    None = None
INVARIANT HandOffTypeOK
INVARIANT IdNamesTheDesign
PROPERTY FreshMeansCurrent
PROPERTY AcceptedOnItsOwnExam
