SPECIFICATION DesksSpec
CONSTANTS
    w1 = w1
    w2 = w2
    w3 = w3
    o1 = o1
    o2 = o2
    NoWindow = NoWindow
    NoOutput = NoOutput
    NoWorkspace = NoWorkspace
    Window <- TwoWindows
    Output <- Outputs
    Connected <- Outputs
    NumWs = 2
    PadName <- NoPads
    Layer <- OneLayer
    DefaultLayout = "tile"
    Events <- ShellEvents
    Rules <- FloatRules
    NewWindowMaster = FALSE
    l1 = l1
    X11 <- FirstX11
    BackAndForth = TRUE
ACTION_CONSTRAINT DesksBound
INVARIANTS
    FocusMapped
PROPERTIES
    KeyboardReturns
