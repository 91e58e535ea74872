\* Every declaration: types that the solver decides exactly, calls, branches, matches.
SPECIFICATION Spec
CONSTANTS
    TypeFunctions <- MCTypeFunctions
    Universe <- MCUniverse
    Variables <- MCVariables
    OpenValues <- MCOpenValues
    Parameters <- MCParameters
    Programs <- SoundPrograms
    Exact <- ExactTypes
INVARIANTS
    AcceptedIsIncluded
    RejectedHasCounterexample
    InferredWithinBounds
    ResultIsSubstituted
    OneSolution
    NeverAborts
    MatchCanSucceed
CHECK_DEADLOCK FALSE
