SPECIFICATION Spec
CONSTANTS
    Labels = {alt, end}
    Locations = {here, there}
    NoLocation = NoLocation
    Sizes = {3}
    Jumps <- MCJumps
    MaxWords = 15
INVARIANTS
    TypeOK
    JumpsLand
    CodeStartsAtEnter
    LocationsAreOrdered
    LocationsAreFound
    Layout
CHECK_DEADLOCK FALSE
