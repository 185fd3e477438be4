CONSTANTS
    Designs <- TheDesigns
    Values = {0, 1}
    Starts = {0, 1, 2}
    LastTime = 6
SPECIFICATION SamplerSpec
INVARIANTS MeasurementsAreOfWindows
PROPERTIES ContinuesSampling
CHECK_DEADLOCK FALSE
