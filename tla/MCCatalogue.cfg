SPECIFICATION Spec
CONSTANTS
    NoList = NoList
    NoKey = NoKey
    NoProc = NoProc
    NoRead = NoRead
    Written <- MCWritten
    MaxPerMinute = 3
    MaxRouterSteps = 6
    MaxDestinations = 2
    MaxHeaderValues = 2
    MaxStepPrompt = 2
    MaxRoutePrompt = 2
    PerM = 2
    Providers <- MCProviders
    PlatformKeys = {"swiss"}
    Prepaid = TRUE
    GatewayFee = 1
    Inside = {"vllm"}
    Unreadable = {"x y"}
    acme = acme
    Org = acme
    Procs = {p1, p2}
    MaxConns = 2
    KeyIds = {"k3", "k4", "k5", "k6"}
    Setups <- MCSetups
INVARIANTS NamesHold KeyStaysHome NoRefund ChainEnforced OneLive
PROPERTIES HoldersFinish
CHECK_DEADLOCK FALSE
