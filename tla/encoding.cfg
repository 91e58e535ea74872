\* Every primitive with every register.
SPECIFICATION Spec
CONSTANTS
    StackLimit = 40960
    Indices <- MCIndices
    Displacements <- MCDisplacements
    Immediates <- MCImmediates
    Followers <- MCFollowers
    MaxPrimitives = 2
INVARIANTS
    CodeIsWhatWasMeant
CHECK_DEADLOCK FALSE
