CONSTANTS
    a = a  b = b  c = c  x = x
    Units <- TheUnits
    BlackBoxes = {x}
    Continuous = {c}
    Unfiltered = {b}
    Windowed = {b, c}
    Connected = {a, b}
    Clocks <- TheClocks
    Events <- TheEvents
    Start = 0
    Final = 6
    LogPeriod = 2
    Requested = {6}
    MaxRequests = 1
    Resumed = FALSE
    StopOnTrip = FALSE
    Limited = TRUE
    Faulty = TRUE
SPECIFICATION FairSpec
INVARIANTS IndInv SamplesAgree WindowsMeetNoJump RowsOnGrid
PROPERTIES ImplementsInstants Terminates
CHECK_DEADLOCK FALSE
