SPECIFICATION Spec
CONSTANTS
    Intervals = {10, 60, 200, 600, 7200}
    Initial = 10
    Longest = 600
    Second = 2
    Delay = 2
INVARIANTS
    StopIsPrompt
PROPERTIES
    BackoffIsSane
CHECK_DEADLOCK FALSE
