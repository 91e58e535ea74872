\* Functions of all kinds of expressions, patterns and statements.
SPECIFICATION FairSpec
CONSTANTS
    Programs <- MCFunctions
    Globals <- MCGlobals
    Strings <- MCStrings
INVARIANTS
    CodeMeansTheText
PROPERTY EveryProgramEnds
