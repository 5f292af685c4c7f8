CONSTANTS
    MaxTableRows = 4
    MaxTableCols = 3
    MaxTableCells = 8
    MaxGridBytes = 30
    MaxCrops = 2
    MaxArea = 3
    MaxInlineBytes = 3
    Pages <- MCFloatPages
    OtslBodies <- MCOtslBodies
    InlineKids <- MCInlineKids
    KeyValues <- MCKeyValues
    Shots <- MCShots
    HtmlTables <- MCHtmlTables
    Chunks <- MCChunks
    Region <- MCRegion
    MaxMarkupDepth = 5
    MaxLatexColumns = 6
SPECIFICATION Spec
INVARIANT CodeCaptionsKept
CHECK_DEADLOCK FALSE
