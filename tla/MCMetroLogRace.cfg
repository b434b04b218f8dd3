SPECIFICATION Spec
CONSTANTS
    Running <- TwoSections
    Threshold = 0
    MaxTrains = 2
INVARIANTS
    LogComplete
