CONSTANTS
    Designs <- TheDesigns
    Tunings = {0, 1}
    MaxSets = 2
    LastInterrupt = 3
    Periods = {1, 2, 3}
SPECIFICATION ControlSpec
INVARIANTS LoopsRunOnPresent OverwrittenAreDead
PROPERTIES ContinuesControl
CHECK_DEADLOCK FALSE
