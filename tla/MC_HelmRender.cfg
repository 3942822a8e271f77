CONSTANTS
    Chars <- MCChars
    MaxLen = 3
    MaxFiles = 2
    IgnoreSuffixes <- MCIgnoreSuffixes
SPECIFICATION Spec
INVARIANT FilterSound
CHECK_DEADLOCK FALSE
