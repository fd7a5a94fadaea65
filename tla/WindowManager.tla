--------------------------- MODULE WindowManager ---------------------------
(***************************************************************************)
(* The callbacks of nnwm that move windows between outputs, workspaces and *)
(* scratchpads and pass the keyboard focus around: xdg-shell lifecycle     *)
(* (xdg_shell.cpp), user actions (actions.cpp), outputs coming and going   *)
(* (output.cpp), clicks and foreign-toplevel requests.  One step is one    *)
(* callback; the event loop may run them in any order.                     *)
(***************************************************************************)
EXTENDS WmState

CONSTANTS
    Connected,         \* the monitors connected when nnwm starts
    Events,            \* the kinds of event that occur in this instance
    Rules,             \* what a window rule may say, see RuleType
    NewWindowMaster,   \* config->new_window_master
    BackAndForth,      \* config->workspace_back_and_forth
    NoWorkspace        \* "the rule names no workspace"

RuleType ==
    [on : SUBSET Flag, off : SUBSET Flag, workspace : WS \cup {NoWorkspace},
     monitor : Output \cup {NoOutput}, focused : BOOLEAN]

ASSUME RuleAssumption == Rules \subseteq RuleType /\ NoWorkspace \notin WS
ASSUME ConfigAssumption == {NewWindowMaster, BackAndForth} \subseteq BOOLEAN

ASSUME ConnectedAssumption == Connected \subseteq Output /\ IsFiniteSet(Connected)

VARIABLE server

vars == <<server>>

Orders(S) ==
    {f \in [1 .. Cardinality(S) -> S] : IsInjective(f)}

\* wlr_backend_start announces the connected monitors, in some order, before
\* a client is served: each goes to the head of the list, the first is focused.
StartWith(monitors) ==
    \E order \in Orders(monitors) :
        server = [toplevels |-> <<>>,
                  win |-> [w \in Window |-> NewToplevelState],
                  outputs |-> order,
                  out |-> [o \in Output |-> NewOutputState],
                  focused_output |-> IF order = <<>> THEN NoOutput
                                     ELSE order[Len(order)],
                  kb_focus |-> NoWindow, shown_pads |-> {}, crashed |-> FALSE]
Init == StartWith(Connected)

----------------------------------------------------------------------------
(* Workspaces *)

OnActiveWorkspace(s, t) ==
    \/ "sticky" \in t.flags
    \/ t.output # NoOutput /\ s.out[t.output].active_workspace = t.workspace

Sweep(s, S) ==
    [s EXCEPT !.win = [w \in Window |->
        IF w \in S
        THEN [s.win[w] EXCEPT !.enabled = OnActiveWorkspace(s, s.win[w])]
        ELSE s.win[w]]]

SweepPads(s) == Sweep(s, Linked(s))   \* mutant: scratchpads are not skipped

\* switch_to's sweep over the nodes: scratchpad windows are skipped.
SweepVisibility(s) == Sweep(s, {w \in Linked(s) : ~s.win[w].in_scratchpad})

\* workspace::switch_to, on the focused output.
SwitchTo(s, to) ==
    LET o == s.focused_output
        active == s.out[o].active_workspace
        ws == IF to = active /\ BackAndForth
              THEN s.out[o].prev_workspace ELSE to
        t == SweepVisibility([s EXCEPT !.out[o].prev_workspace = active,
                                       !.out[o].active_workspace = ws])
        last == t.out[o].last_focused[ws]
        next == IF /\ last # NoWindow
                   /\ t.win[last].output = o /\ t.win[last].workspace = ws
                THEN last
                ELSE Or(FirstIn(t, Tiled(t, o)), FirstIn(t, Floats(t, o)))
    IN  IF o = NoOutput \/ s.crashed THEN s
        ELSE IF ws = active THEN s
        ELSE IF last # NoWindow /\ t.win[last].life = "free" THEN Crash(t)
        ELSE ArrangeOutput(FocusOrClear(t, next), o)

\* workspace::move_to.  A window taken out of a scratchpad keeps its name.
MoveToWorkspace(s, ws) ==
    LET w == FocusedToplevel(s)
        o == s.win[w].output
        t == ForgetFocus(s, o, w)
        moved == [t.win[w] EXCEPT
                     !.in_scratchpad = FALSE, !.tree = "windows",
                     !.workspace = ws,
                     !.enabled = IF o = NoOutput THEN @
                                 ELSE s.out[o].active_workspace = ws]
        u == [t EXCEPT !.win[w] = moved]
    IN  IF w = NoWindow THEN s
        ELSE IF ~s.win[w].in_scratchpad /\ s.win[w].workspace = ws THEN s
        ELSE IF o = NoOutput THEN u
        ELSE ArrangeOutput(FocusActive(u, o), o)

----------------------------------------------------------------------------
(* Monitors *)

\* monitor::focus_next and focus_prev: the first tiled window gets the focus.
FocusMonitor(s, step) ==
    LET o == s.focused_output
        next == CycleOutput(s, o, step)
    IN  IF o = NoOutput THEN s
        ELSE IF next = NoOutput THEN s
        ELSE FocusOrClear([s EXCEPT !.focused_output = next],
                          FirstIn(s, Tiled(s, next)))

\* move_to_monitor
MoveToMonitor(s, step) ==
    LET w == FocusedToplevel(s)
        src == s.win[w].output
        dst == CycleOutput(s, src, step)
        t == ForgetFocus(s, src, w)
        moved == [t.win[w] EXCEPT
                     !.output = dst, !.enabled = TRUE,
                     !.workspace = s.out[dst].active_workspace]
        u == [t EXCEPT !.win[w] = moved]
        v == FocusOrClear(u, FirstIn(u, Tiled(u, src)))
        x == FocusToplevel([v EXCEPT !.focused_output = dst], w)
    IN  IF w = NoWindow THEN s
        ELSE IF src = NoOutput THEN s
        ELSE IF dst = NoOutput THEN s
        ELSE Arrange(x, {src, dst})

----------------------------------------------------------------------------
(* Scratchpads *)

\* scratchpad::move_to (p = Global) and named_scratchpad::move_to
MoveToScratchpad(s, p) ==
    LET w == FocusedToplevel(s)
        o == s.win[w].output
        t == ForgetFocus(s, o, w)
        moved == [t.win[w] EXCEPT
                     !.in_scratchpad = TRUE,
                     !.scratchpad_name = IF p = Global THEN @ ELSE p,
                     !.flags = @ \ {"floating"}, !.tree = p,
                     !.enabled = p \in s.shown_pads]
        u == [t EXCEPT !.win[w] = moved]
    IN  IF w = NoWindow THEN s
        ELSE IF s.win[w].in_scratchpad THEN s
        ELSE IF o = NoOutput THEN u
        ELSE ArrangeOutput(FocusActive(u, o), o)

\* scratchpad::toggle (p = Global) and named_scratchpad::toggle
ToggleScratchpad(s, p) ==
    LET shown == [s EXCEPT !.shown_pads = @ \cup {p},
                           !.win = [w \in Window |->
                                IF w \in InPad(s, p)
                                THEN [s.win[w] EXCEPT !.enabled = TRUE]
                                ELSE s.win[w]]]
        hidden == [s EXCEPT !.shown_pads = @ \ {p}]
    IN  IF p \notin s.shown_pads
        THEN FocusToplevel(shown, FirstIn(shown, InPad(shown, p)))
        ELSE IF PadOutput(s) = NoOutput THEN hidden
        ELSE FocusActive(hidden, PadOutput(s))

----------------------------------------------------------------------------
(* Window state, layouts, focus and stack order *)

\* toggle_float, do_toggle_fullscreen, do_toggle_fake_fullscreen, toggle_sticky
ToggleFlag(s, w, f) ==
    ArrangeOutput([s EXCEPT !.win[w].flags =
                       IF f \in @ THEN @ \ {f} ELSE @ \cup {f}],
                  s.win[w].output)

\* layout::set_layout, which does not look at the scratchpad.
SetLayout(s, mode) ==
    LET o == s.focused_output
    IN  IF o = NoOutput THEN s
        ELSE ArrangeOutput(
               [s EXCEPT !.out[o].layout_mode[s.out[o].active_workspace] = mode],
               o)

\* layout::toggle_*: only the float layout has a way back.  An open scratchpad
\* toggles its own layout instead.
ToggleLayout(s, mode) ==
    LET o == s.focused_output
    IN  IF PadShown(s) \/ o = NoOutput THEN s
        ELSE SetLayout(s, IF mode = "float" /\ ActiveLayout(s, o) = "float"
                          THEN "tile" ELSE mode)

\* layout::next and prev, to the neighbour in a list the user configures.
CycleLayout(s, mode) == IF PadShown(s) THEN s ELSE SetLayout(s, mode)

\* The windows that the focus commands walk: an open scratchpad's, else the
\* tiled ones of the focused output.
Walked(s) ==
    IF PadShown(s) THEN InPad(s, Global)
    ELSE IF s.focused_output = NoOutput THEN {} ELSE Tiled(s, s.focused_output)
WalkedFloats(s) ==
    IF PadShown(s) \/ s.focused_output = NoOutput THEN {}
    ELSE Floats(s, s.focused_output)

\* next_in_S / previous_in_S of the focused window, around the end of the list.
Following(s, S) ==
    LET cur == FocusedToplevel(s)
    IN  Or(IF cur = NoWindow THEN NoWindow ELSE NextIn(s, S, cur), FirstIn(s, S))
Preceding(s, S) ==
    LET cur == FocusedToplevel(s)
    IN  Or(IF cur = NoWindow THEN NoWindow ELSE PrevIn(s, S, cur), LastIn(s, S))

FocusLeft(s) == FocusToplevel(s, FirstIn(s, Walked(s)))
FocusRight(s) ==
    LET cur == FocusedToplevel(s)
    IN  IF cur = NoWindow THEN s ELSE FocusToplevel(s, NextIn(s, Walked(s), cur))
FocusNext(s) ==
    IF FocusedToplevel(s) = NoWindow THEN s
    ELSE FocusToplevel(s, Following(s, Walked(s)))
FocusPrev(s) ==
    IF FocusedToplevel(s) = NoWindow THEN s
    ELSE FocusToplevel(s, Preceding(s, Walked(s)))
FocusNextFloat(s) == FocusToplevel(s, Following(s, WalkedFloats(s)))
FocusPrevFloat(s) == FocusToplevel(s, Preceding(s, WalkedFloats(s)))

\* focus::mode_toggle goes back and forth between floating and tiled windows.
FocusOtherMode(s) ==
    LET cur == FocusedToplevel(s)
        floating == cur # NoWindow /\ "floating" \in s.win[cur].flags
    IN  IF PadShown(s) THEN s
        ELSE FocusToplevel(s, FirstIn(s, IF floating THEN Walked(s)
                                         ELSE WalkedFloats(s)))

PutBefore(s, w, v) == Before(Without(s.toplevels, w), w, v)
PutAfter(s, w, v) == After(Without(s.toplevels, w), w, v)

\* mutant: the second window is not moved
ExchangeHalf(s, w, v) == [s.toplevels EXCEPT ![PlaceOf(s, w)] = v]
Exchange(s, w, v) ==
    [s.toplevels EXCEPT ![PlaceOf(s, w)] = v, ![PlaceOf(s, v)] = w]

\* The tail of the swaps: w has moved to its new place in seq.
Restack(s, seq, w) ==
    ArrangeOutput(FocusToplevel([s EXCEPT !.toplevels = seq], w), s.focused_output)

\* No swap but cycle does anything without a focused window that is not floating.
Swappable(s) ==
    LET cur == FocusedToplevel(s)
    IN  /\ s.focused_output # NoOutput
        /\ cur # NoWindow
        /\ "floating" \notin s.win[cur].flags

\* swap::left.  Alone of all, it does not test the result of ws_first.
SwapLeft(s) ==
    LET cur == FocusedToplevel(s)
        first == FirstIn(s, Tiled(s, s.focused_output))
    IN  IF ~Swappable(s) \/ cur = first THEN s
        ELSE IF first = NoWindow THEN Crash(s)
        ELSE Restack(s, PutBefore(s, cur, first), cur)

SwapRight(s) ==
    LET cur == FocusedToplevel(s)
        T == Tiled(s, s.focused_output)
        first == FirstIn(s, T)
        next == NextIn(s, T, cur)
    IN  IF ~Swappable(s) \/ first = NoWindow THEN s
        ELSE IF cur # first THEN Restack(s, PutBefore(s, cur, first), cur)
        ELSE IF next = NoWindow THEN s
        ELSE Restack(s, PutAfter(s, cur, next), cur)

SwapNext(s) ==
    LET cur == FocusedToplevel(s)
        T == Tiled(s, s.focused_output)
        next == NextIn(s, T, cur)
        first == FirstIn(s, T)
    IN  IF ~Swappable(s) THEN s
        ELSE IF next # NoWindow THEN Restack(s, PutAfter(s, cur, next), cur)
        ELSE IF first \in {NoWindow, cur} THEN s
        ELSE Restack(s, PutBefore(s, cur, first), cur)

SwapPrev(s) ==
    LET cur == FocusedToplevel(s)
        T == Tiled(s, s.focused_output)
        prev == PrevIn(s, T, cur)
        last == LastIn(s, T)
    IN  IF ~Swappable(s) THEN s
        ELSE IF prev # NoWindow THEN Restack(s, PutBefore(s, cur, prev), cur)
        ELSE IF last \in {NoWindow, cur} THEN s
        ELSE Restack(s, PutAfter(s, cur, last), cur)

SwapMaster(s) ==
    LET cur == FocusedToplevel(s)
        first == FirstIn(s, Tiled(s, s.focused_output))
    IN  IF ~Swappable(s) \/ first \in {NoWindow, cur} THEN s
        ELSE Restack(s, Exchange(s, cur, first), cur)

\* cycle: the last tiled window becomes the first, and is focused.
Cycle(s) ==
    LET cur == FocusedToplevel(s)
        T == Tiled(s, s.focused_output)
        first == FirstIn(s, T)
        last == LastIn(s, T)
    IN  IF \/ s.focused_output = NoOutput
           \/ cur # NoWindow /\ "floating" \in s.win[cur].flags
           \/ first = last
        THEN s
        ELSE Restack(s, PutBefore(s, last, first), last)

----------------------------------------------------------------------------
(* Life of a window *)

\* apply_window_rules: the monitor of a rule overrides its workspace.
ApplyRule(s, t, rule) ==
    LET o == rule.monitor
        u == [t EXCEPT !.flags = (@ \cup rule.on) \ rule.off,
                       !.workspace = IF rule.workspace = NoWorkspace
                                     THEN @ ELSE rule.workspace]
    IN  IF o \notin Live(s) THEN u
        ELSE [u EXCEPT !.output = o,
                       !.workspace = s.out[o].active_workspace]

\* A window that declares a parent is made floating after the rules have run.
Mapped(s, w, rule, dialog) ==
    LET o == s.focused_output
        t == [s.win[w] EXCEPT
                 !.life = "linked", !.output = o,
                 !.workspace = IF o = NoOutput THEN 0
                               ELSE s.out[o].active_workspace]
        u == ApplyRule(s, t, rule)
    IN  IF dialog THEN [u EXCEPT !.flags = @ \cup {"floating"}] ELSE u

\* xdg_toplevel_map.  An open scratchpad swallows the new window.
MapToplevel(s, w, rule, dialog) ==
    LET new == Mapped(s, w, rule, dialog)
        hidden == [new EXCEPT !.in_scratchpad = TRUE, !.tree = Global,
                              !.flags = @ \ {"floating"}]
        list == IF NewWindowMaster THEN <<w>> \o s.toplevels
                ELSE Append(s.toplevels, w)
        t == [s EXCEPT !.win[w] = new, !.toplevels = list]
        u == [s EXCEPT !.win[w] = hidden, !.toplevels = list]
    IN  IF PadShown(s) THEN FocusToplevel(u, w)
        ELSE ArrangeOutput(
               FocusToplevel(IF rule.focused /\ new.output # NoOutput
                             THEN SwitchTo(t, new.workspace) ELSE t, w),
               new.output)

Unlink(s, w) ==
    [s EXCEPT !.toplevels = Without(@, w), !.win[w].life = "unlinked"]

\* xdg_toplevel_unmap of a scratchpad window: last_focused is not looked at.
UnmapScratch(s, w) ==
    LET o == s.win[w].output
        t == Unlink(s, w)
        next == FirstIn(t, {v \in Linked(t) : t.win[v].in_scratchpad})
    IN  IF s.kb_focus # w \/ ~PadShown(s) THEN t
        ELSE IF next # NoWindow THEN FocusToplevel(t, next)
        ELSE IF o # NoOutput THEN FocusActive(t, o)
        ELSE t

(***************************************************************************)
(* xdg_toplevel_unmap of any other window.  The keyboard passes on from    *)
(* the window its workspace remembers as focused, and is dropped when      *)
(* another one goes.                                                       *)
(***************************************************************************)
UnmapOrdinary(s, w) ==
    LET o == s.win[w].output
        ws == s.win[w].workspace
        T == Tiled(s, o)
        was_focused == s.out[o].last_focused[ws] = w
        neighbour == IF "floating" \in s.win[w].flags THEN NoWindow
                     ELSE Or(NextIn(s, T, w), PrevIn(s, T, w))
        t == Unlink(ForgetFocus(s, o, w), w)
        next == IF was_focused
                THEN Or(neighbour, Or(FirstIn(t, Tiled(t, o)),
                                      FirstIn(t, Floats(t, o))))
                ELSE NoWindow
    IN  IF o = NoOutput THEN t ELSE ArrangeOutput(FocusOrClear(t, next), o)

UnmapToplevel(s, w) ==
    IF s.win[w].in_scratchpad THEN UnmapScratch(s, w) ELSE UnmapOrdinary(s, w)

\* handle_xdg_toplevel_destroy; the seat drops a focused surface that dies.
DestroyToplevel(s, w) ==
    [s EXCEPT !.win[w] = NewToplevelState,
              !.kb_focus = IF @ = w THEN NoWindow ELSE @]

----------------------------------------------------------------------------
(* Outputs come and go *)

RehostNothing(s, S, o) == s   \* mutant: no window moves

\* Windows move in a loop over server->toplevels: only linked ones are seen.
Rehost(s, S, o) ==
    [s EXCEPT !.win = [w \in Window |->
                          IF w \in Linked(s) \cap S
                          THEN [s.win[w] EXCEPT !.output = o] ELSE s.win[w]]]

OnOutput(s, o) == {w \in Window : s.win[w].output = o}
NoneOrphaned(s) == {}   \* mutant: a new output adopts nothing
Orphans(s) == {w \in Linked(s) : s.win[w].output \notin Live(s)}

\* server_new_output
NewOutput(s, o) ==
    LET t == [s EXCEPT !.outputs = <<o>> \o @, !.out[o] = NewOutputState,
                       !.focused_output = IF @ = NoOutput THEN o ELSE @]
    IN  IF Orphans(t) = {} THEN t ELSE Arrange(Rehost(t, Orphans(t), o), {o})

\* output_destroy
OutputDestroy(s, o) ==
    LET t == [s EXCEPT !.outputs = Without(@, o)]
        u == [t EXCEPT !.focused_output = IF @ = o THEN FirstOutput(t) ELSE @]
    IN  ArrangeOutput(Rehost(u, OnOutput(s, o), u.focused_output),
                      u.focused_output)

Lit(s) == {o \in Live(s) : s.out[o].on}

\* output_manager_apply of a configuration that turns the connected o off / on.
DisableOutput(s, o) ==
    LET t == [s EXCEPT !.out[o].on = FALSE]
        to == Earliest(t.outputs, {i \in DOMAIN t.outputs : t.outputs[i] \in Lit(t)},
                       NoOutput)
        u == [t EXCEPT !.focused_output = IF @ = o THEN to ELSE @]
    IN  Arrange(Rehost(u, OnOutput(s, o), to), Lit(t))
EnableOutput(s, o) ==
    LET t == [s EXCEPT !.out[o].on = TRUE] IN Arrange(t, Lit(t))

\* server_session_active, on the way back from another VT.
SessionActive(s) ==
    IF s.outputs = <<>> THEN s
    ELSE Arrange(Rehost(s, Orphans(s), FirstOutput(s)), Live(s))

----------------------------------------------------------------------------
(* Pointer and client requests *)

Shown(s, w) ==
    /\ w \in Linked(s)
    /\ s.win[w].enabled
    /\ s.win[w].tree = "windows" \/ s.win[w].tree \in s.shown_pads

\* tab_toplevel_at.  The tab bar has one tab for each tiled window, but the
\* window of a tab is looked up among others: sticky ones of other workspaces
\* are missed, those in a scratchpad are not.
Tabs(s, o) ==
    LET listed == {w \in Range(s.toplevels) :
                      /\ s.win[w].output = o
                      /\ s.win[w].workspace = s.out[o].active_workspace
                      /\ s.win[w].flags \subseteq {"sticky"}}
        Rank(w) == Cardinality({i \in Places(s, listed) : i <= PlaceOf(s, w)})
    IN  {w \in listed : Rank(w) <= Cardinality(Tiled(s, o))}

\* Windows a click can land on: on the window, or on its tab in the tab bar.
OnScreen(s) == {w \in Window : Shown(s, w)}
InTabBar(s) == UNION {Tabs(s, o) : o \in {p \in Lit(s) : ActiveLayout(s, p) = "tabbed"}}
Clickable(s) == OnScreen(s) \cup InTabBar(s)

\* foreign_handle_request_activate: the workspace switched is the focused
\* output's, whichever output the window is on.
ForeignActivate(s, w) ==
    LET o == s.win[w].output
        ws == s.win[w].workspace
    IN  IF o = NoOutput THEN s
        ELSE FocusToplevel(IF ws # s.out[o].active_workspace
                           THEN SwitchTo(s, ws) ELSE s, w)

----------------------------------------------------------------------------
(* Events *)

Occurs(event) == event \in Events /\ ~server.crashed

(* Clients *)

New(w) ==
    /\ ~server.crashed
    /\ server.win[w].life = "free"
    /\ server' = [server EXCEPT !.win[w].life = "fresh"]

\* A client may map a window it has unmapped ("remap").
Map(w, rule, dialog) ==
    /\ ~server.crashed
    /\ \/ server.win[w].life = "fresh"
       \/ server.win[w].life = "unlinked" /\ Occurs("remap")
    /\ dialog => Occurs("dialog")
    /\ server' = MapToplevel(server, w, rule, dialog)

Unmap(w, at) ==
    /\ ~server.crashed
    /\ w \in Linked(server)
    /\ at \in UnderCursor(server)
    /\ server' = PointerRefresh(UnmapToplevel(server, w), at)

Destroy(w) ==
    /\ ~server.crashed
    /\ server.win[w].life \in {"fresh", "unlinked"}
    /\ server' = DestroyToplevel(server, w)

\* xdg_toplevel_request_fullscreen: no test that the window is mapped.
RequestFullscreen(w) ==
    /\ Occurs("request_fullscreen")
    /\ server.win[w].life # "free"
    /\ server' = ToggleFlag(server, w, "fullscreen")

Activate(w) ==
    /\ Occurs("activate")
    /\ w \in Linked(server)
    /\ server' = ForeignActivate(server, w)

(* The user *)

Click(w) ==
    /\ Occurs("click")
    /\ w \in Clickable(server)
    /\ server' = FocusToplevel(server, w)

Hover(at) ==
    /\ Occurs("hover")
    /\ at \in UnderCursor(server)
    /\ server' = PointerRefresh(server, at)

Switch(ws) == Occurs("switch") /\ server' = SwitchTo(server, ws)
\* mutant: the one-based workspace of the Lua call is not converted
SendToOneBased(ws) ==
    Occurs("move_to") /\ server' = MoveToWorkspace(server, ws + 1)
SendToWorkspace(ws) ==
    Occurs("move_to") /\ server' = MoveToWorkspace(server, ws)
FocusOtherMonitor(step) ==
    Occurs("monitor_focus") /\ server' = FocusMonitor(server, step)
SendToMonitor(step) ==
    Occurs("monitor_move") /\ server' = MoveToMonitor(server, step)

Hide(p) ==
    /\ Occurs(IF p = Global THEN "scratchpad" ELSE "named")
    /\ server' = MoveToScratchpad(server, p)
TogglePad(p) ==
    /\ Occurs(IF p = Global THEN "scratchpad" ELSE "named")
    /\ server' = ToggleScratchpad(server, p)

Toggle(flag) ==
    /\ Occurs(flag)
    /\ FocusedToplevel(server) # NoWindow
    /\ server' = ToggleFlag(server, FocusedToplevel(server), flag)

ChooseLayout(mode) ==
    /\ Occurs("layout") /\ Occurs(mode)
    /\ \/ server' = SetLayout(server, mode)
       \/ server' = ToggleLayout(server, mode)
       \/ server' = CycleLayout(server, mode)

MoveFocus ==
    /\ Occurs("focus")
    /\ \/ server' = FocusLeft(server)
       \/ server' = FocusRight(server)
       \/ server' = FocusNext(server)
       \/ server' = FocusPrev(server)
       \/ server' = FocusNextFloat(server)
       \/ server' = FocusPrevFloat(server)
       \/ server' = FocusOtherMode(server)

Reorder ==
    /\ Occurs("swap")
    /\ \/ server' = SwapLeft(server)
       \/ server' = SwapRight(server)
       \/ server' = SwapNext(server)
       \/ server' = SwapPrev(server)
       \/ server' = SwapMaster(server)
       \/ server' = Cycle(server)

(* Monitors and the session *)

Plug(o) ==
    /\ Occurs("plug")
    /\ o \notin Live(server)
    /\ server' = NewOutput(server, o)

Unplug(o) ==
    /\ Occurs("unplug")
    /\ o \in Live(server)
    /\ server' = OutputDestroy(server, o)

TurnOff(o) ==
    /\ Occurs("disable")
    /\ o \in Lit(server)
    /\ server' = DisableOutput(server, o)

TurnOn(o) ==
    /\ Occurs("disable")
    /\ o \in Live(server) \ Lit(server)
    /\ server' = EnableOutput(server, o)

Resume == Occurs("vt") /\ server' = SessionActive(server)

ClientStep ==
    \E w \in Window :
        \/ New(w)
        \/ \E rule \in Rules, dialog \in BOOLEAN : Map(w, rule, dialog)
        \/ Destroy(w)
        \/ RequestFullscreen(w)
        \/ Activate(w)

PointerStep ==
    \/ \E w \in Window, at \in Output \cup {NoOutput} : Unmap(w, at)
    \/ \E w \in Window : Click(w)
    \/ \E at \in Output \cup {NoOutput} : Hover(at)

UserStep ==
    \/ \E ws \in WS : Switch(ws) \/ SendToWorkspace(ws)
    \/ \E step \in {"next", "prev"} :
           FocusOtherMonitor(step) \/ SendToMonitor(step)
    \/ \E p \in Pad : Hide(p) \/ TogglePad(p)
    \/ \E flag \in Flag : Toggle(flag)
    \/ \E mode \in Layout : ChooseLayout(mode)
    \/ MoveFocus
    \/ Reorder

MonitorStep ==
    \/ \E o \in Output : Plug(o) \/ Unplug(o) \/ TurnOff(o) \/ TurnOn(o)
    \/ Resume

Next == ClientStep \/ PointerStep \/ UserStep \/ MonitorStep

Spec == Init /\ [][Next]_vars

----------------------------------------------------------------------------
(* What holds of the state *)

win == server.win
out == server.out

\* The fields of struct nnwm_server, nnwm_toplevel and nnwm_output hold values
\* of their types.
TypeOK == server \in ServerState

(***************************************************************************)
(* server->toplevels holds every mapped window, once, and no other object, *)
(* and server->outputs no monitor twice, however windows are inserted,     *)
(* swapped and unlinked: a list walk meets each window exactly once.       *)
(***************************************************************************)
Lists ==
    /\ Range(server.toplevels) = Linked(server)
    /\ IsInjective(server.toplevels)
    /\ IsInjective(server.outputs)

(***************************************************************************)
(* A mapped window never refers to an output that is gone, nor does        *)
(* focused_output, through any order of unplugging, plugging, VT switches, *)
(* maps and moves.                                                         *)
(***************************************************************************)
OutputPointers ==
    /\ \A w \in Linked(server) : win[w].output \in Live(server) \cup {NoOutput}
    /\ server.focused_output \in Live(server) \cup {NoOutput}

(***************************************************************************)
(* While a monitor is connected, a connected one is focused and every      *)
(* mapped window is on a connected one: output_destroy, server_new_output  *)
(* and the VT resume hand every window on, in any order.                   *)
(***************************************************************************)
NoOrphans ==
    server.outputs # <<>> =>
        /\ server.focused_output \in Live(server)
        /\ \A w \in Linked(server) : win[w].output \in Live(server)

(***************************************************************************)
(* last_focused of a connected output names a mapped window of that output *)
(* and workspace: the callbacks that dereference it without a test (every  *)
(* tabbed arrange, every fallback of the focus) never meet a window that   *)
(* was unmapped, freed or moved elsewhere.                                 *)
(***************************************************************************)
LastFocusedOwned ==
    \A o \in Live(server), ws \in WS :
        LET w == out[o].last_focused[ws]
        IN  w # NoWindow => /\ w \in Linked(server)
                            /\ win[w].output = o
                            /\ win[w].workspace = ws

\* The keyboard is on a mapped window or on none, also after unmapping.
FocusMapped == server.kb_focus \in Window => server.kb_focus \in Linked(server)

(***************************************************************************)
(* The window with the keyboard is the one its workspace remembers: coming *)
(* back to the workspace, or losing a neighbour, finds it again.           *)
(***************************************************************************)
FocusTracked ==
    LET w == server.kb_focus
    IN  w \in Window /\ win[w].output # NoOutput =>
            out[win[w].output].last_focused[win[w].workspace] = w

\* What is typed goes to a window on the screen, never to a hidden workspace,
\* a tab in the back or a closed scratchpad.
FocusVisible == server.kb_focus \in Window => Shown(server, server.kb_focus)

(***************************************************************************)
(* A workspace shows its own windows and no other workspace's; what hides  *)
(* a window of the active workspace is only that it is a tab in the back.  *)
(***************************************************************************)
OnlyActiveShown ==
    \A w \in Linked(server) :
        /\ win[w].output # NoOutput
        /\ ~win[w].in_scratchpad
        => LET o == win[w].output
           IN  /\ Shown(server, w) => OnActive(server, w, o)
               /\ OnActive(server, w, o) /\ ~Shown(server, w) =>
                      ActiveLayout(server, o) = "tabbed" /\ w \in Tiled(server, o)

\* A tabbed workspace with tiled windows shows exactly one of them.
OneTabShown ==
    \A o \in Live(server) :
        /\ ActiveLayout(server, o) = "tabbed"
        /\ Tiled(server, o) # {}
        => \E w \in Tiled(server, o) :
               \A v \in Tiled(server, o) : Shown(server, v) <=> v = w

\* The screen is right: one tab in front, the workspace's windows and no others,
\* and the keyboard on one of them, which the workspace remembers, whatever layouts
\* and flags are changed.
ScreenRight == OneTabShown /\ FocusVisible /\ OnlyActiveShown /\ FocusTracked

(***************************************************************************)
(* Windows in a scratchpad hang in its tree and in no other, and an open   *)
(* scratchpad shows all its windows: none stays hidden inside it after     *)
(* windows were moved in, taken out or mapped while it was open or closed. *)
(***************************************************************************)
PadWhole ==
    \A w \in Linked(server) :
        /\ win[w].in_scratchpad <=> win[w].tree # "windows"
        /\ win[w].tree \in server.shown_pads => Shown(server, w)

----------------------------------------------------------------------------
(***************************************************************************)
(* The window manager keeps the promise of Placement: a callback moves the *)
(* focused window and no other, one monitor's windows move on together     *)
(* when it is unplugged, and none is lost or left behind.                  *)
(***************************************************************************)
Home(w) ==
    LET t == win[w]
    IN  CASE t.life # "linked" -> <<"closed">>
          [] t.life = "linked" /\ t.in_scratchpad -> <<"pad", t.tree>>
          [] OTHER -> <<"on", t.output, t.workspace>>

P == INSTANCE Placement WITH home <- [w \in Window |-> Home(w)],
                             focus <- server.kb_focus,
                             monitors <- Live(server)

KeepsPlacement == P!Spec

============================================================================
