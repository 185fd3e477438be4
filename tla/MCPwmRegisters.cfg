CONSTANTS
    Commands <- MCCommands
    Neutral <- MCNeutral
    Phases = {0, 1}
    StartTimes = {0, 3}
    Horizon = 9
    Timings <- MCTimings
SPECIFICATION Spec
INVARIANTS IndInv PatternIsKept
PROPERTIES NoWordSkipped ContinuesExactly ImplementsDelay
CHECK_DEADLOCK FALSE
