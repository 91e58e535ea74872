SPECIFICATION Spec
CONSTANTS
    Program = {"recursion", "nested", "branches", "matches", "nestedMatch", "inBlock", "noElse"}
    Block <- MCBlock
    Main = "main"
    Hole = "hole"
    Native = "print"
    Code <- MCCode
    HoleCallees <- MCHoleCallees
    CodeStart <- MCCodeStart
    NumLocals <- MCNumLocals
    Val = {crash, one}
    Crash = crash
    NoEnvironment = NoEnvironment
    None = None
    Nodes <- MCNodes
    Height <- MCHeight
    MaxDepth = 6
    MaxEvals = 3
CHECK_DEADLOCK FALSE
INVARIANTS ScopesNest CheckedMeansChecked FramesTileTheStack RegistersAreCurrent
PROPERTY ImplementsActivations
