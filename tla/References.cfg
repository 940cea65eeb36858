CONSTANTS
    Site = {h, p, q}
    Home = h
    MaxEnum = 3
    Alpha = 2
    MaxDepth = 4
    Lease = 8
    Update = 4
    MaxDelay = 1
    MaxTime = 18
    Annotations <- MixedAnnotations
SPECIFICATION Spec
INVARIANTS
    NoDangling
    WeightConserved
    ListsExact
PROPERTY
    Reclaimed
CHECK_DEADLOCK FALSE
