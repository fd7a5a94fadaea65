SPECIFICATION DesktopSpec
CONSTANTS
    w1 = w1
    w2 = w2
    w3 = w3
    o1 = o1
    o2 = o2
    NoWindow = NoWindow
    NoOutput = NoOutput
    NoWorkspace = NoWorkspace
    Window <- TwoWindows
    Output <- OneOutput
    Connected <- OneOutput
    NumWs = 2
    PadName <- NoPads
    Layer <- NoLayers
    DefaultLayout = "tile"
    Events <- ThumbnailClicks
    Rules <- NoRules
    NewWindowMaster = FALSE
    OverviewLayout = "auto"
    Animated = TRUE
    Centre <- SideBySide
    FocusFollowsMouse = FALSE
    Button <- LeftButton
    BackAndForth = TRUE
SYMMETRY BothWindows
PROPERTIES
    ThumbnailFocuses
