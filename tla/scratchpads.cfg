SPECIFICATION PadsSpec
CONSTANTS
    w1 = w1
    w2 = w2
    w3 = w3
    o1 = o1
    o2 = o2
    NoWindow = NoWindow
    NoOutput = NoOutput
    NoWorkspace = NoWorkspace
    Window <- Windows
    Output <- Outputs
    Connected <- OneOutput
    NumWs = 2
    PadName <- NoPads
    Layer <- NoLayers
    DefaultLayout = "tile"
    Events <- PadsAndHotplug
    Rules <- NoRules
    NewWindowMaster = FALSE
    BackAndForth = TRUE
SYMMETRY AllWindows
INVARIANTS
    NoOrphans
    PadWhole
PROPERTIES
    PadsKeepPlacement
