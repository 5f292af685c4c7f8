CONSTANTS
    MaxTableRows = 4
    MaxTableCols = 3
    MaxTableCells = 8
    MaxGridBytes = 30
    MaxCrops = 2
    MaxArea = 3
    MaxInlineBytes = 3
    Pages <- MCPages
    OtslBodies <- MCOtslBodies
    InlineKids <- MCInlineKids
    KeyValues <- MCKeyValues
    Shots <- MCShots
    HtmlTables <- MCHtmlTables
    Chunks <- MCChunks
    Region <- MCRegion
    MaxMarkupDepth = 5
    MaxLatexColumns = 6
SPECIFICATION Spec
INVARIANTS
    TreeIsSound
    TextKeptOnce
    OrderKept
    CropsAccounted
    GridsAreSound
    CutTablesTold
    BlocksAreUnique
    CaptionsBelong
CHECK_DEADLOCK FALSE
