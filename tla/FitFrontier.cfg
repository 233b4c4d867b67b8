SPECIFICATION Spec
CONSTANTS
    low = low
    sum = sum
    product = product
    a = a
    here = here
    there = there
    Hyps = {low, sum, product}
    Sources = {a}
    Src <- MCSrc
    Unfitted = low
    Contexts = {here, there}
    NoContext = nowhere
    PromoteAfter = 2
    DiscoverAfter = 2
    MatchesNeeded = 1
    WeakStreak = 2
    StrongCap = 2
    PreserveCap = 1
SYMMETRY MCSymmetry
VIEW MCView
INVARIANTS
    OfThisFit
    OpenIsUnsettled
PROPERTIES
    CollapseStable
