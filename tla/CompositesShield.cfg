SPECIFICATION JointSpec
CONSTANTS
    Vars = {a, b, c, d}
    InitialVisible = 1
    MaxVisible = 1
    MinSize = 3
    DensNum = 2
    DensDen = 5
    MinPasses = 0
    Ids = {i1}
SYMMETRY Symmetry
PROPERTY CoveredExcluded
