SPECIFICATION Spec
CONSTANTS
    Vars = {x0, x1}
    Mature = 3
    SimNum = 1
    SimDen = 2
    CandidateMaxAge = 2
    ParkWindow = 2
    ParkPasses = 2
    MaxRegimes = 3
SYMMETRY VarSymmetry
INVARIANTS TypeOK ConfirmedByFailures CandidatesBounded
