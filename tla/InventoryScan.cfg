SPECIFICATION FairSpec
CONSTANTS
    r1 = r1
    r2 = r2
    a = a
    b = b
    c = c
    d = d
    Roots <- MCRoots
    File <- MCFile
    Under <- MCUnder
    Faulty <- MCFaulty
    Workers = 2
    BatchSize = 2
    QueueMax = 2
INVARIANTS RecordedWhole
PROPERTIES CutByTwoInterrupts ScanEnds
