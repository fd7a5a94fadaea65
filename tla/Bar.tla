-------------------------------- MODULE Bar --------------------------------
(***************************************************************************)
(* The status bars (src/bar.cpp): what they were drawn with, against what   *)
(* the desktop is.  Nothing is drawn when the desktop changes: the code that *)
(* changes it marks the bars that care dirty, and the next frame of their   *)
(* output, or a tick if a clock is configured, draws them.  The desktop is  *)
(* reduced to what a bar shows: active and occupied workspaces, and the     *)
(* last focused window, whose title it is.                                  *)
(***************************************************************************)
EXTENDS Naturals, FiniteSets

CONSTANTS
    Display,      \* outputs
    Client,      \* windows
    NumSpaces,   \* workspaces of an output
    BarConfig,   \* [per_output, modules]
    Nothing       \* no window, no output

Space == 1..NumSpaces
Global == "global"
Place == Display \cup {Global}      \* out->bar of each output, and server->global_bar

ASSUME BarAssumption ==
    /\ Nothing \notin Display \cup Client /\ Global \notin Display /\ Nothing # Global
    /\ NumSpaces \in Nat \ {0}

Anywhere == [out |-> Nothing, ws |-> 1]

VARIABLES
    desktop,     \* [lit, active, home, front]: outputs, active_workspace, where
                 \* each window is, last_focused
    bars,        \* [Place -> [target, dirty, shown]], target = Nothing: no bar
    bar_config

barVars == <<desktop, bars, bar_config>>

Modules == bar_config.modules
Ticking == "clock" \in Modules

\* the windows of a workspace, mapped ones only
Clients(d, o, s) == { c \in Client : d.home[c] = [out |-> o, ws |-> s] }

\* what a bar of output o shows when it is drawn: workspace_occupancy_bits,
\* module_refresh and bar_hash
Facts(d, config, o) ==
    [active   |-> IF "workspaces" \in config.modules THEN d.active[o] ELSE 1,
     occupied |-> IF "workspaces" \in config.modules
                  THEN { s \in Space : Clients(d, o, s) # {} } ELSE {},
     title    |-> IF "window_title" \in config.modules
                  THEN d.front[o][d.active[o]] ELSE Nothing]
Blank == [active |-> 1, occupied |-> {}, title |-> Nothing]

\* bar_redraw
Drawn(d, config, o) == [target |-> o, dirty |-> FALSE, shown |-> Facts(d, config, o)]
NoBar == [target |-> Nothing, dirty |-> FALSE, shown |-> Blank]

\* redraw_if_cares, for the bars in places
Told(places, modules) ==
    [p \in Place |->
        IF p \in places /\ bars[p].target # Nothing /\ modules \cap Modules # {}
        THEN [bars[p] EXCEPT !.dirty = TRUE] ELSE bars[p]]

\* bar_notify_windows_changed, bar_notify_focus_change, bar_notify_workspace_change
WindowsChanged == Told(Place, {"workspaces", "window_title"})
FocusChanged == Told(Place, {"window_title"})
WorkspaceChangedOwn(o) ==    \* mutant: a global bar is not told
    Told({o}, {"workspaces", "window_title"})
WorkspaceChanged(o) == Told({o, Global}, {"workspaces", "window_title"})

\* bar_apply_config: every bar is torn down, and drawn anew.  A global bar goes
\* to the named, the focused or the first output
Recreated(d, config) ==
    IF config.per_output
    THEN { [p \in Place |-> IF p \in d.lit THEN Drawn(d, config, p) ELSE NoBar] }
    ELSE { [p \in Place |-> IF p = Global /\ o # Nothing THEN Drawn(d, config, o) ELSE NoBar] :
             o \in IF d.lit = {} THEN {Nothing} ELSE d.lit }

BarTypeOK ==
    /\ desktop.lit \subseteq Display /\ desktop.active \in [Display -> Space]
    /\ desktop.home \in [Client -> [out : Display \cup {Nothing}, ws : Space]]
    /\ desktop.front \in [Display -> [Space -> Client \cup {Nothing}]]
    /\ bar_config \in BarConfig
    /\ bars \in [Place -> [target : Display \cup {Nothing}, dirty : BOOLEAN,
                   shown : [active : Space, occupied : SUBSET Space, title : Client \cup {Nothing}]]]

BarInit ==
    /\ desktop = [lit |-> Display, active |-> [o \in Display |-> 1],
                  home |-> [c \in Client |-> Anywhere],
                  front |-> [o \in Display |-> [s \in Space |-> Nothing]]]
    /\ bar_config \in BarConfig
    /\ bars \in Recreated(desktop, bar_config)

----------------------------------------------------------------------------
(* What changes the desktop, and whom it tells *)

\* a window that gets the focus is the last focused one of its workspace
Fronted(d, c) ==
    IF c = Nothing THEN d ELSE [d EXCEPT !.front[d.home[c].out][d.home[c].ws] = c]
\* a window that leaves its workspace is not remembered there
Unfronted(d, c) ==
    [d EXCEPT !.front = [o \in Display |-> [s \in Space |-> IF @[o][s] = c THEN Nothing ELSE @[o][s]]]]
\* the window that is focused on the active workspace of o, if it has any
Nexts(d, o) ==
    LET s == d.active[o]
    IN  IF d.front[o][s] # Nothing THEN {d.front[o][s]}
        ELSE IF Clients(d, o, s) = {} THEN {Nothing} ELSE Clients(d, o, s)

\* mutant: the workspace is not converted to its index
HousedOneBased(d, c, o, s) == [d EXCEPT !.home[c] = [out |-> o, ws |-> s + 1]]

\* the output and the workspace of a window are set
Housed(d, c, o, s) == [d EXCEPT !.home[c] = [out |-> o, ws |-> s]]

\* a rule may put it on a workspace that is not active: it gets no focus there
OpenClient(c, o, s) ==
    LET d == Housed(desktop, c, o, s)
    IN  /\ desktop.home[c] = Anywhere /\ o \in desktop.lit
        /\ desktop' = IF s = desktop.active[o] THEN Fronted(d, c) ELSE d
        /\ bars' = WindowsChanged
        /\ UNCHANGED bar_config

\* the focus moves on if the window had it
CloseClient(c) ==
    LET o == desktop.home[c].out
        without == [Unfronted(desktop, c) EXCEPT !.home[c] = Anywhere]
    IN  /\ desktop.home[c] # Anywhere
        /\ \E n \in {Nothing} \cup IF o = Nothing THEN {} ELSE Nexts(without, o) :
            desktop' = Fronted(without, n)
        /\ bars' = WindowsChanged
        /\ UNCHANGED bar_config

\* focus_toplevel of another window
FocusClient(c) ==
    /\ desktop.home[c].out \in desktop.lit
    /\ desktop' = Fronted(desktop, c)
    /\ bars' = FocusChanged
    /\ UNCHANGED bar_config

SwitchSpace(o, s) ==
    /\ o \in desktop.lit /\ desktop.active[o] # s
    /\ LET d == [desktop EXCEPT !.active[o] = s]
       IN  \E n \in Nexts(d, o) : desktop' = Fronted(d, n)
    /\ bars' = WorkspaceChanged(o)
    /\ UNCHANGED bar_config

\* the pills a bar shows for facts f: the active and the occupied workspaces
Pills(f) == { s \in Space : s = f.active \/ s \in f.occupied }
NthPill(pills, n) == CHOOSE s \in pills : Cardinality({ r \in pills : r < s }) = n

\* bar_handle_button: the pill under the cursor is the one that is there if the
\* bar is drawn now, and not the one that was drawn (smart_workspaces)
ClickPill(p, s) ==
    LET o == bars[p].target
        now == Pills(Facts(desktop, bar_config, o))
        n == Cardinality({ r \in Pills(bars[p].shown) : r < s })
    IN  /\ o # Nothing /\ "workspaces" \in Modules
        /\ s \in Pills(bars[p].shown) /\ n < Cardinality(now)
        /\ SwitchSpace(o, NthPill(now, n))

\* workspace::move_to tells the bars that another window has the focus, if one
\* has; nobody is told that the occupied workspaces changed
MoveClient(c, s) ==
    LET o == desktop.home[c].out
        d == Housed(Unfronted(desktop, c), c, o, s)
    IN  /\ o \in desktop.lit /\ desktop.home[c].ws # s
        /\ \E n \in Nexts(d, o) :
            /\ desktop' = Fronted(d, n)
            /\ bars' = IF n = Nothing THEN bars ELSE FocusChanged
        /\ UNCHANGED bar_config

\* move_to_monitor focuses the window again
SendClient(c, o) ==
    LET old == desktop.home[c].out
        d == Housed(Unfronted(desktop, c), c, o, desktop.active[o])
    IN  /\ {old, o} \subseteq desktop.lit /\ old # o
        /\ \E n \in Nexts(d, old) : desktop' = Fronted(Fronted(d, n), c)
        /\ bars' = FocusChanged
        /\ UNCHANGED bar_config

\* output_destroy: only a global bar on it is built again.  The windows go to
\* another output, whose bar is not told
UnplugDisplay(o) ==
    /\ o \in desktop.lit
    /\ \E r \in IF desktop.lit = {o} THEN {Nothing} ELSE desktop.lit \ {o} :
        LET there == { c \in Client : desktop.home[c].out = o }
            d == [desktop EXCEPT !.lit = @ \ {o}, !.front[o] = [s \in Space |-> Nothing],
                    !.active[o] = 1,
                    !.home = [c \in Client |-> IF c \in there THEN [@[c] EXCEPT !.out = r] ELSE @[c]]]
            rest == [bars EXCEPT ![o] = NoBar]
        IN  /\ desktop' = d
            /\ IF bars[Global].target = o THEN bars' \in Recreated([d EXCEPT !.home = desktop.home], bar_config)
                                          ELSE bars' = rest
    /\ UNCHANGED bar_config

\* server_new_output: the bars are drawn before the windows without an output
\* are adopted
PlugDisplay(o) ==
    LET orphans == { c \in Client : desktop.home[c] # Anywhere /\ desktop.home[c].out = Nothing }
        d == [desktop EXCEPT !.lit = @ \cup {o}]
    IN  /\ o \notin desktop.lit
        /\ desktop' = [d EXCEPT !.home =
                         [c \in Client |-> IF c \in orphans THEN [@[c] EXCEPT !.out = o] ELSE @[c]]]
        /\ bars' \in Recreated(d, bar_config)
        /\ UNCHANGED bar_config

----------------------------------------------------------------------------
(* What draws *)

\* bar_predraw_output, before each frame of an output
Frame(o) ==
    /\ o \in desktop.lit
    /\ bars' = [p \in Place |-> IF p \in {o, Global} /\ bars[p].target = o /\ bars[p].dirty
                                THEN Drawn(desktop, bar_config, o) ELSE bars[p]]
    /\ UNCHANGED <<desktop, bar_config>>

\* bar_tick_cb
TickBar(p) ==
    /\ Ticking /\ bars[p].target # Nothing
    /\ bars' = [bars EXCEPT ![p] = Drawn(desktop, bar_config, bars[p].target)]
    /\ UNCHANGED <<desktop, bar_config>>

\* nnwm.bar.update draws every bar that hosts the module
UpdateModule ==
    /\ "custom" \in Modules
    /\ bars' = [p \in Place |-> IF bars[p].target = Nothing THEN NoBar
                                ELSE Drawn(desktop, bar_config, bars[p].target)]
    /\ UNCHANGED <<desktop, bar_config>>

ReloadBars ==
    /\ bar_config' \in BarConfig
    /\ bars' \in Recreated(desktop, bar_config')
    /\ UNCHANGED desktop

BarNext ==
    \/ \E c \in Client :
        \/ \E o \in Display : SendClient(c, o) \/ \E s \in Space : OpenClient(c, o, s)
        \/ CloseClient(c) \/ FocusClient(c)
        \/ \E s \in Space : MoveClient(c, s)
    \/ \E s \in Space : \/ \E o \in Display : SwitchSpace(o, s)
                        \/ \E p \in Place : ClickPill(p, s)
    \/ \E o \in Display : UnplugDisplay(o) \/ PlugDisplay(o) \/ Frame(o)
    \/ \E p \in Place : TickBar(p)
    \/ UpdateModule \/ ReloadBars

----------------------------------------------------------------------------
(* Properties *)

Outdated(p) ==
    bars[p].target # Nothing /\ bars[p].shown # Facts(desktop, bar_config, bars[p].target)

\* Operations that change the windows of a workspace and tell no bar
Silent ==
    \/ \E c \in Client : \/ \E s \in Space : MoveClient(c, s)
                        \/ \E o \in Display : SendClient(c, o)
    \/ \E o \in Display : UnplugDisplay(o) \/ PlugDisplay(o)

\* Every other change of what a bar shows is followed by a notification of that
\* bar, which stays until the bar is drawn: no other step leaves a bar outdated
\* and not dirty (bar_notify_*, redraw_if_cares, bar_predraw_output)
BarsTold ==
    [][\/ desktop' = desktop /\ bars' = bars
       \/ \A p \in Place :
            Outdated(p)' /\ ~bars'[p].dirty => Outdated(p) /\ ~bars[p].dirty
       \/ Silent]_barVars

\* A click on a pill of a bar that waits for no frame switches to the workspace
\* the pill stands for: clicks switch to the correct workspace, and the layout
\* is computed again so that the hit-test matches what is rendered
\* (bar_handle_button)
PillClicks ==
    [][\A p \in Place, s \in Space :
        ClickPill(p, s) /\ ~bars[p].dirty => desktop'.active[bars[p].target] = s]_barVars
============================================================================
