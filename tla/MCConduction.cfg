CONSTANTS
    Diodes <- MCDiodes
    Circuits <- MCCircuits
    Cuts = {3, 13}
    MaxPatterns = 6
    Step = 12
    Interval = 14
    Period = 13
    MaxCommutations = 2
    LocatorIterations = 5
    Horizon = 28
SPECIFICATION Spec
INVARIANTS ReturnsConsistent LocatesFirst
PROPERTIES EndsOrFails
