SPECIFICATION Spec
CONSTANTS
    Running <- TwoSections
    Threshold = 0
    MaxTrains = 3
PROPERTIES
    ClearanceHeld
