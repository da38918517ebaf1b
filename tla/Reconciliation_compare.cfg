CONSTANTS
    Models <- MCModels
    Owner <- MCOwner
    Usages <- MCUsages
    Buckets = 3
    BucketsPerPage = 2
    MaxBilled = 2
    MaxStored = 3
SPECIFICATION Spec
INVARIANTS TypeOK FetchIsBracketed VerdictsAreJustified
PROPERTY FetchEnds
