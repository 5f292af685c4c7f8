CONSTANTS
    MaxTableRows = 4
    MaxTableCols = 3
    MaxTableCells = 8
    MaxGridBytes = 30
    MaxCrops = 2
    MaxArea = 3
    MaxInlineBytes = 3
    Pages <- MCDotsPages
    OtslBodies <- MCOtslBodies
    InlineKids <- MCInlineKids
    KeyValues <- MCKeyValues
    Shots <- MCShots
    HtmlTables <- MCHtmlTables
    Chunks <- MCChunks
    Region <- MCRegion
    MaxMarkupDepth = 5
    MaxLatexColumns = 6
SPECIFICATION Spec
INVARIANT BlockIsOneItem
CHECK_DEADLOCK FALSE
