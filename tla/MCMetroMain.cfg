SPECIFICATION FairMSpec
CONSTANTS
    Running <- OneSection
    Threshold = 0
    MaxTrains = 2
VIEW WithoutWaiting
INVARIANTS
    MTypeOK
    PassingOrder
    NoLateArrival
PROPERTIES
    Terminates
