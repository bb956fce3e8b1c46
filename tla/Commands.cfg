SPECIFICATION Spec
CONSTANTS
    Program <- Programs
    RetryMax = 2
    MaxRounds = 1
    MaxMoves = 2
INVARIANTS
    NothingUnconfirmed
    NoEndsIt
    OnlyTheNamed
    ReportsTruth
    LocalFailureChangesNothing
PROPERTIES
    MissIsTrue
    CommandEnds
