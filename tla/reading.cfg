CONSTANTS
    Letters <- MCLetters
    Alphabets <- MCAlphabets
    MaxLate = 1
SPECIFICATION Spec
INVARIANTS
    AcceptedIsWritten
    WritingsAreReadTheSame
    EveryStopHasItsCause
CHECK_DEADLOCK FALSE
