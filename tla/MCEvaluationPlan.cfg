CONSTANTS
    Integrator = Integrator  Gain = Gain  Held = Held  Circuit = Circuit  View = View
    Models <- MCModels
SPECIFICATION EvaluationSpec
INVARIANTS ReadsArePresent PlanIsPresent
