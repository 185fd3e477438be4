CONSTANTS
    a = a  b = b  d = d  x = x
    Units <- TheUnits
    BlackBoxes = {x}
    Continuous = {d}
    Unfiltered = {b}
    Windowed = {a, d}
    Connected = {a, b}
    Clocks <- TheClocks
    Loads <- TheLoads
    Computation <- TheComputation
    Events <- TheEvents
    Start = 0
    End = 10
    OutputPeriod = 2
    StopChoices = {TRUE, FALSE}
    Orders <- TheOrders
SPECIFICATION Spec
INVARIANTS PlantIsFollowed
PROPERTIES SamplesArePresent ImplementsInstants ImplementsUnits
CHECK_DEADLOCK FALSE
