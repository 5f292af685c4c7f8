CONSTANTS
    MaxTableRows = 4
    MaxTableCols = 2
    MaxTableCells = 10
    MaxGridBytes = 30
    MaxCrops = 2
    MaxArea = 3
    MaxInlineBytes = 3
    Pages <- MCWidePages
    OtslBodies <- MCOtslBodies
    InlineKids <- MCInlineKids
    KeyValues <- MCKeyValues
    Shots <- MCShots
    HtmlTables <- MCHtmlTables
    Chunks <- MCChunks
    Region <- MCRegion
    MaxMarkupDepth = 5
    MaxLatexColumns = 6
SPECIFICATION Spec
INVARIANT DroppedCellsTold
CHECK_DEADLOCK FALSE
