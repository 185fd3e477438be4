CONSTANTS
    Cases <- TheCases
    Checked <- Both
    Configured <- All
    Horizon = 11
CHECK_DEADLOCK FALSE
SPECIFICATION SupervisionSpec
PROPERTIES RampGovernsTrips HoldTrips
