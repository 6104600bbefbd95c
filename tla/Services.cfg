\* Three rows of six columns with one tab stop each, and lines of up to two
\* characters, so that a tab and what follows it flow over the next row and an
\* answer may fill its row; two lines of history.  Maps of up to four entries
\* with pages of two bytes.  Images and kernels of both classes.  Declarations
\* of functions, members, instances, objects and tables.
CONSTANTS
    WIDTH = 6
    HEIGHT = 3
    TAB_WIDTH = 6
    MAXPROMPT = 4
    prompt_ <- MCPrompt
    Greeting <- MCGreeting
    Answer <- MCAnswer
    Characters <- MCCharacters
    MaxHistory = 2
    MaxSlips = 2
    PAGE_SIZE = 2
    SIZE_MAX = 7
    Maps <- WholePages
    After <- ZerosAfter
    Files <- MCFiles
    DemangledName <- MCDemangledName
    SourceName <- MCSourceName
    SIZEOF_LONG_DOUBLE = 16
    Declarations <- MCDeclarations
SPECIFICATION MCSpec
INVARIANTS
    ScreenShowsLine
    
    
    AddressesNamed
    
