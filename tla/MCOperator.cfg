\* A ring of three seconds that is gone round more than twice; a log of four lines
\* that is cut twice.
CONSTANTS
    Window = 3
    By = {1, 2}
    MaxSecond = 7
    MaxHits = 2
    MaxLines = 4
    MaxRotations = 2
SPECIFICATION OperatorSpec
CHECK_DEADLOCK FALSE
INVARIANTS
    CountIsWindow
    BucketsAreWindow
    TailFaithful
PROPERTIES
    TailComplete
