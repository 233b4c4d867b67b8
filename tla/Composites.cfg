SPECIFICATION JointSpec
CONSTANTS
    Vars = {a, b, c}
    InitialVisible = 1
    MaxVisible = 2
    MinSize = 1
    DensNum = 2
    DensDen = 5
    MinPasses = 1
    Ids = {i1, i2}
SYMMETRY Symmetry
INVARIANT AbsorbedBacked
PROPERTY CoveredOnEvidence
