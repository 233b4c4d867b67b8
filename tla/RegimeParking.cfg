SPECIFICATION Spec
CONSTANTS
    Vars = {x0, x1}
    Mature = 2
    SimNum = 1
    SimDen = 2
    CandidateMaxAge = 1
    ParkWindow = 1
    ParkPasses = 1
    MaxRegimes = 1
SYMMETRY VarSymmetry
INVARIANT ParkingEarned
