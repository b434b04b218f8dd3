SPECIFICATION Spec
CONSTANTS
    Running <- TwoSections
    Threshold = 0
    MaxTrains = 5
CONSTRAINT Simulating
VIEW WithoutLog
INVARIANTS
    TypeOK
    OverloadBound
    PickNonEmpty
    Recorded
    ListedTrainsWait
PROPERTIES
    LineSpec
