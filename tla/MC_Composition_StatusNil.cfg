CONSTANTS
    Operations = {"status"}
    CallerIDs <- MCControllerCallers
    TypeNames <- MCTypeNames
    Spelled <- MCSpelled
    FileNames <- MCFileNames
    SourceKeys <- MCSourceKeys
    MaxFiles = 2
SPECIFICATION Spec
INVARIANT ResultContract
