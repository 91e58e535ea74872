SPECIFICATION Spec
CONSTANTS
    small = small
    large = large
    String = String
    TypeName = TypeName
    TypeUnion = TypeUnion
    NoClass = NoClass
    Size = {large}
    Capacity = 3
    Class = {TypeUnion}
    SizeOf <- Sizes
    ConstructorCreates <- NothingCreated
    FreshMark <- ZeroedBlock
    MaxHandles = 2
    MaxFields = 1
    MaxSlots = 1
    MaxRoots = 1
INVARIANTS
    NoDanglingReference
    CollectionIsComplete
CHECK_DEADLOCK FALSE
