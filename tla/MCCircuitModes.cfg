CONSTANTS
    None = None
    Nodes = 3
    Prime = 32749
    Circuits <- TheCircuits
    Ratios = {2, 3}
    Given <- TheGiven
    Supplied <- TheSupply
    Cache = 2
    MaxCommands = 3
    MaxSteps = 1
SPECIFICATION Spec
CHECK_DEADLOCK FALSE
INVARIANTS StatesFit
PROPERTIES ModesAreSolvable JumpsConserve
