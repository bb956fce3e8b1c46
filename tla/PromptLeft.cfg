SPECIFICATION Spec
CONSTANTS
    Program <- Programs
    RetryMax = 1
    MaxRounds = 1
    MaxMoves = 1
INVARIANT NoEndsIt
