SPECIFICATION Spec
CONSTANTS
    Services = {"scripts"}
    k1 = k1
    a = a
    esc = esc
    vt = vt
    l1 = l1
    l2 = l2
    s1 = s1
    s2 = s2
    t1 = t1
    t2 = t2
    h1 = h1
    h2 = h2
    NoKey = NoKey
    NoLock = NoLock
    StaleLock = StaleLock
    Null = Null
    Keyboards <- OneKeyboard
    Key <- Keys
    VtKey <- VtKeys
    Escape = esc
    Config <- Configs
    LockObject <- TwoLocks
    Screen <- TwoScreens
    Timer <- TwoTimers
    Handle <- TwoHandles
    Period <- Periods
    OwnCalls <- PauseOwn
    Requests <- SomeRequests
    ReadCap = 3
    WriteCap = 6
    SocketCap = 4
    Event <- TwoEvents
    AppId <- TwoAppIds
    ConfigHooks <- OpenHooks
    ConfigRules <- FootRules
    RemovesPassed = TRUE
    MaxHooks = 3
    MaxRules = 4
    MaxWalks = 2
    Monitor <- TwoMonitors
    Corner <- TwoCorners
    NoMonitor = NoMonitor
    NoCorner = NoCorner
    CornerSettings <- SomeSettings
PROPERTIES
    RulesInvoked
