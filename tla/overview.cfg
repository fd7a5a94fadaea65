SPECIFICATION GridSpec
CONSTANTS
    w1 = w1
    w2 = w2
    w3 = w3
    o1 = o1
    o2 = o2
    NoWindow = NoWindow
    NoOutput = NoOutput
    NoWorkspace = NoWorkspace
    Window <- TwoWindows
    Output <- Outputs
    Connected <- Outputs
    NumWs = 3
    PadName <- NoPads
    Layer <- NoLayers
    DefaultLayout = "tile"
    Events <- Grid
    Rules <- FloatRules
    NewWindowMaster = FALSE
    OverviewLayout = "equal_grid"
    Animated = TRUE
    Centre <- SideBySide
    FocusFollowsMouse = FALSE
    Button <- LeftButton
    BackAndForth = TRUE
SYMMETRY BothWindows
ACTION_CONSTRAINT GridBound
INVARIANTS
    Restored
