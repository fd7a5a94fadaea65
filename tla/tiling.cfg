SPECIFICATION TilingSpec
CONSTANTS
    w1 = w1
    w2 = w2
    w3 = w3
    o1 = o1
    o2 = o2
    NoWindow = NoWindow
    NoOutput = NoOutput
    NoWorkspace = NoWorkspace
    Window <- Windows
    Output <- Outputs
    Connected <- Outputs
    NumWs = 2
    PadName <- NoPads
    Layer <- NoLayers
    DefaultLayout = "tile"
    Events <- Commands
    Rules <- AllRules
    NewWindowMaster = TRUE
    BackAndForth = FALSE
SYMMETRY AllWindows
ACTION_CONSTRAINT TilingBound
INVARIANTS
    TypeOK
    Lists
    LastFocusedOwned
    ScreenRight
PROPERTIES
    KeepsPlacement
