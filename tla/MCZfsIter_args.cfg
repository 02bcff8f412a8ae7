SPECIFICATION IterSpec
CONSTANTS
    Others = {"x1", "x2"}
    Extras <- SomeExtras
    MaxItems = 2
INVARIANTS CallbackGetsArgs
CHECK_DEADLOCK FALSE
