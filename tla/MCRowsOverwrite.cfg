SPECIFICATION JobsSlice
CONSTANTS
    Jobs = {"feeds", "mail"}
    Fields = {"schedule", "timeoutMs", "onFailure", "retry"}
    Declared <- MCDeclared
    Picks <- MCPicks
    Rows <- MCRows
    MaxSaves = 2
    MaxActs = 3
PROPERTIES
    OthersLeftAlone
CHECK_DEADLOCK FALSE
