SPECIFICATION DesktopSpec
CONSTANTS
    w1 = w1
    w2 = w2
    w3 = w3
    o1 = o1
    o2 = o2
    NoWindow = NoWindow
    NoOutput = NoOutput
    NoWorkspace = NoWorkspace
    Window <- Windows
    Output <- Outputs
    Connected <- Outputs
    NumWs = 1
    PadName <- NoPads
    Layer <- NoLayers
    DefaultLayout = "tile"
    Events <- Grabs
    Rules <- FloatRules
    NewWindowMaster = FALSE
    OverviewLayout = "auto"
    Animated = TRUE
    Centre <- SideBySide
    FocusFollowsMouse = TRUE
    Button <- Buttons
    BackAndForth = TRUE
SYMMETRY AllWindows
INVARIANTS
    GrabSafe
PROPERTIES
    DropExchanges
