SPECIFICATION Spec
CONSTANTS
    None = None
    Inputs <- MCInputs
INVARIANT FactsTypeOK
INVARIANT ConversionIsWhole
INVARIANT RunsAreTheOverrides
INVARIANT EqualHashEqualDesign
INVARIANT NodeFactsHold
INVARIANT GroupsAreAnswered
INVARIANT EveryArtboardAnswered
INVARIANT ReportIsWhole
INVARIANT QuietListsAgree
\* A run that was reported or refused is the end.
CHECK_DEADLOCK FALSE
