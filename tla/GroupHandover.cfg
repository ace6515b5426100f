CONSTANTS
    A = A  B = B  main = main
    Devices = {A, B}
    Circuits = {main}
    NoCircuit = NoCircuit
    Unknown = Unknown
    NoReading = NoReading
    IdRank <- MCRank
    Parent <- MCParent
    Cap <- MCCap
    CircuitsOf <- MCCircuitsOf
    MaxPower <- MCMaxPower
    Capacity <- MCCapacity
    Reserve = 1
    Full = 5
    SocHysteresis = 2
    Selected = A
    Groups <- MCGroups
    Goals <- MCGoals
    SocLevels = {2, 4}
    Tolerance = 1
    MaxEvents = 2
SPECIFICATION Spec
CHECK_DEADLOCK FALSE
INVARIANT GroupSafe
PROPERTIES GroupSettles PauseStopsMembers
