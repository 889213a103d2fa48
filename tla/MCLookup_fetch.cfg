SPECIFICATION Spec
CONSTANTS
    Call = {c1, c2}
    Target = {1, 2}
    Node = {1, 2, 3}
    Distance <- Opposite
    k = 2
    NoFinder = NoFinder
INVARIANT
    FlagMeansWaiting
