SPECIFICATION Spec
CONSTANTS
    Parts = {"tray"}
    w1 = w1
    w2 = w2
    a1 = a1
    a2 = a2
    c1 = c1
    c2 = c2
    o1 = o1
    o2 = o2
    m1 = m1
    Nobody = Nobody
    Nothing = Nothing
    Setup <- ThreeSetups
    Ratio <- TwoRatios
    MaxTiles = 4
    Surface <- TwoSurfaces
    Effects <- TwoEffects
    Remaps = FALSE
    App <- TwoApps
    WellKnown <- OneApp
    Address = {1, 2}
    MaxInbox = 2
    MaxCalls = 2
    LateReleases = TRUE
    TrayBar <- TwoMonitors
    TrayStart <- TwoStarts
    Display <- TwoMonitors
    Client <- TwoClients
    NumSpaces = 2
    BarConfig <- BarConfigs
    Manager <- OneManager
    Monitor <- TwoMonitors
    MaxCount = 2
    MaxHandles = 3
VIEW View
INVARIANTS
    OwnLook
