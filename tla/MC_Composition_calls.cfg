CONSTANTS
    Operations = {"expected", "status"}
    CallerIDs <- MCAllCallers
    TypeNames <- MCTypeNames
    Spelled <- MCSpelled
    FileNames <- MCFileNames
    SourceKeys <- MCSourceKeys
    MaxFiles = 2
SPECIFICATION Spec
INVARIANT ExpectedResultContract
