SPECIFICATION FairSpec
CONSTANTS
    Running <- TwoSections
    Threshold = 2
    MaxTrains = 10000
VIEW Lengths
PROPERTIES
    ClearanceEnds
    NoStarvation
