CONSTANTS
    None = None
    Modes = {"on", "off"}
    Ratios = {1, 2}
    Points = {1, 2}
    Steps = {1, 2}
    Circuits <- TheCircuits
    Switched = {"bridge"}
    Transforming = {"bridge", "link"}
    Reached = {"link"}
    Matrix <- TheMatrix
    Inside <- InsideRegion
    Deflates <- DoesDeflate
    Skips = TRUE
    Cache = 2
    MaxFactors = 2
    MaxParams = 1
    MaxRevision = 4
    Window = 3
    Sweeps = 2
    Inputs <- TheInputs
    Values <- TheValues
    Horizon = 7
    MaxChanges = 2
    MaxRestarts = 1
SPECIFICATION Spec
CHECK_DEADLOCK FALSE
INVARIANTS StepsArePresent NothingLost ClosesOnGrid PredictsPresentPlant
