SPECIFICATION FairSpec
CONSTANTS
    small = small
    large = large
    String = String
    TypeName = TypeName
    TypeUnion = TypeUnion
    NoClass = NoClass
    Size = {small, large}
    Capacity = 1
    Class = {String, TypeName, TypeUnion}
    SizeOf <- Sizes
    ConstructorCreates <- NameIsCreated
    FreshMark <- AnyBlock
    MaxHandles = 2
    MaxFields = 1
    MaxSlots = 1
    MaxRoots = 1
INVARIANTS TypeOK FreeListsSound NoCrash UndisturbedInv
PROPERTIES ImplementsManagedMemory CollectionEnds
CHECK_DEADLOCK FALSE
