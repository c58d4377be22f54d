SPECIFICATION MCSpec
CONSTANTS
    NoText = NoText
    NoChoice = NoChoice
    NoMessages = NoMessages
    NoUsage = NoUsage
    NoIndex = NoIndex
    NoList = NoList
    NoId = NoId
    Prompt <- MCPrompt
    Cases <- MCCases
    MaxEventLines = 3
    MaxLine = 2
    MaxPings = 2
    Posts <- MCPosts
    Server = "srv"
    Pushes <- MCPushes
    MaxPushes = 3
    FilterFee = 2
    CallHold = 5
INVARIANTS StreamIsWhole EndIsTold RequestKept CallRecordedOnce OnlyAllowedTools
CHECK_DEADLOCK FALSE
