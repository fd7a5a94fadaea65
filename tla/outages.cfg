SPECIFICATION Spec
CONSTANTS
    w1 = w1
    w2 = w2
    w3 = w3
    o1 = o1
    o2 = o2
    NoWindow = NoWindow
    NoOutput = NoOutput
    NoWorkspace = NoWorkspace
    Window <- TwoWindows
    Output <- Outputs
    Connected <- Outputs
    NumWs = 2
    PadName <- OneNamedPad
    Layer <- NoLayers
    DefaultLayout = "tile"
    Events <- Outages
    Rules <- NoRules
    NewWindowMaster = FALSE
    BackAndForth = TRUE
SYMMETRY BothWindows
INVARIANTS
    OutputPointers
CHECK_DEADLOCK FALSE
