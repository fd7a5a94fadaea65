------------------------------ MODULE Overview ------------------------------
(***************************************************************************)
(* The overview, in which every workspace of every monitor is a slot of a  *)
(* grid, and the commands that go by direction, in the overview and        *)
(* outside it (focus::dir, focus::move_dir and toggle_overview of          *)
(* actions.cpp, exit_overview of nnwm.cpp).                                *)
(*                                                                         *)
(* Windows have no coordinates here: the window that find_dir_target picks *)
(* in a direction is any of those it looks at.  Monitors have, so the one  *)
(* next in a direction is computed.                                        *)
(***************************************************************************)
EXTENDS WindowManager, Integers

CONSTANTS
    OverviewLayout,   \* config->overview.layout
    Animated,         \* built with scenefx, and animation.enabled
    Centre            \* the centre of each monitor in the output layout

Direction == {"left", "right", "up", "down"}

ASSUME GridAssumption ==
    OverviewLayout \in {"horizontal", "vertical", "equal_grid", "auto"}
ASSUME AnimatedAssumption == Animated \in BOOLEAN
ASSUME CentreAssumption == Centre \in [Output -> Int \X Int]

Backward(dir) == dir \in {"left", "up"}

----------------------------------------------------------------------------
(* The grid of slots (ov_geom_compute) *)

Cols ==
    CASE OverviewLayout = "horizontal" -> NumWs
      [] OverviewLayout = "vertical" -> 1
      [] OverviewLayout = "equal_grid" -> Min({c \in 1 .. NumWs : c * c >= NumWs})
      [] OTHER -> IF NumWs % 2 = 0 THEN NumWs \div 2 ELSE NumWs

ColOf(ws) == ws % Cols
RowOf(ws) == ws \div Cols

\* The slot beside ws, or NoWorkspace at the edge of the grid.
SlotBeside(ws, dir) ==
    CASE dir = "left" /\ ColOf(ws) > 0 -> ws - 1
      [] dir = "right" /\ ColOf(ws) < Cols - 1 /\ ws + 1 < NumWs -> ws + 1
      [] dir = "up" /\ RowOf(ws) > 0 -> ws - Cols
      [] dir = "down" /\ ws + Cols < NumWs -> ws + Cols
      [] OTHER -> NoWorkspace

\* The slot on which another monitor's grid is entered: across the edge, in the
\* row or the column of its active workspace.
EntrySlot(ws, dir) ==
    LET row == {v \in WS : RowOf(v) = RowOf(ws)}
        col == {v \in WS : ColOf(v) = ColOf(ws)}
    IN  CASE dir = "left" -> Max(row)
          [] dir = "right" -> Min(row)
          [] dir = "up" -> Max(col)
          [] dir = "down" -> Min(col)

----------------------------------------------------------------------------
(* The monitor next to o in a direction *)

Distance(i, j) == IF i < j THEN j - i ELSE i - j

\* How far p lies from o in the direction, and to the side of it.
Ahead(o, p, dir) ==
    LET a == Centre[o]
        b == Centre[p]
    IN  CASE dir = "left" -> a[1] - b[1]
          [] dir = "right" -> b[1] - a[1]
          [] dir = "up" -> a[2] - b[2]
          [] dir = "down" -> b[2] - a[2]
Aside(o, p, dir) ==
    LET i == IF dir \in {"left", "right"} THEN 2 ELSE 1
    IN  Distance(Centre[o][i], Centre[p][i])

\* The first in server->outputs of the nearest ones of S.
NextTo(s, o, dir, S) ==
    LET C == {p \in S \ {o} : Ahead(o, p, dir) > 0}
        Nearer(p, q) == \/ Ahead(o, p, dir) < Ahead(o, q, dir)
                        \/ /\ Ahead(o, p, dir) = Ahead(o, q, dir)
                           /\ Aside(o, p, dir) < Aside(o, q, dir)
        N == {p \in C : \A q \in C : ~Nearer(q, p)}
    IN  Earliest(s.outputs, {i \in DOMAIN s.outputs : s.outputs[i] \in N}, NoOutput)

----------------------------------------------------------------------------
(* In and out of the overview *)

InOverview(s) == {o \in Live(s) : Overviewed(s, o)}

ExitUnswept(s, o) ==   \* mutant: only what the layout arranges comes back
    LET t == Arrange([s EXCEPT !.out[o].overview = "off"], {o})
    IN  IF o # s.focused_output THEN t
        ELSE FocusOrClear(t, Or(FirstIn(t, Tiled(t, o)), FirstIn(t, Floats(t, o))))

(***************************************************************************)
(* exit_overview.  Every window of every monitor is shown or hidden by its *)
(* workspace, then this monitor's are arranged, and the focused monitor    *)
(* gives the keyboard to one of its windows.                               *)
(***************************************************************************)
ExitOverview(s, o) ==
    LET t == Arrange(SweepVisibility([s EXCEPT !.out[o].overview = "off"]), {o})
        ws == t.out[o].active_workspace
        last == t.out[o].last_focused[ws]
        next == IF /\ last # NoWindow
                   /\ t.win[last].output = o /\ t.win[last].workspace = ws
                THEN last
                ELSE Or(FirstIn(t, Tiled(t, o)), FirstIn(t, Floats(t, o)))
    IN  IF o # s.focused_output \/ t.crashed THEN t
        ELSE IF last # NoWindow /\ t.win[last].life = "free" THEN Crash(t)
        ELSE FocusOrClear(t, next)

\* exit_overview of the monitors of O, in the order of server->outputs.
ExitEach(s, O) ==
    LET after[i \in 0 .. Len(s.outputs)] ==
            IF i = 0 THEN s
            ELSE IF s.outputs[i] \in O THEN ExitOverview(after[i - 1], s.outputs[i])
            ELSE after[i - 1]
    IN  after[Len(s.outputs)]

\* begin_exit_overview: an animation that is already running is cut short.
BeginExit(s) ==
    LET fading == IF Animated THEN {o \in InOverview(s) : s.out[o].overview = "on"}
                  ELSE {}
        t == [s EXCEPT !.out = [o \in Output |->
                  IF o \in fading THEN [s.out[o] EXCEPT !.overview = "leaving"]
                  ELSE s.out[o]]]
    IN  ExitEach(t, InOverview(s) \ fading)

(***************************************************************************)
(* toggle_overview.  begin_exit_overview loops over all outputs and is     *)
(* called once for each, so with two outputs nothing is left to animate.   *)
(***************************************************************************)
ToggleOverview(s) ==
    LET entered == [s EXCEPT !.out = [o \in Output |->
                       IF o \in Live(s) THEN [s.out[o] EXCEPT !.overview = "on"]
                       ELSE s.out[o]]]
    IN  IF s.focused_output = NoOutput THEN s
        ELSE IF Overviewed(s, s.focused_output)
        THEN IF Len(s.outputs) > 1 THEN BeginExit(BeginExit(s)) ELSE BeginExit(s)
        ELSE RenderOverview(entered, Live(s))

\* ov_switch_ws: unlike switch_to it leaves prev_workspace as it is.
ShowSlot(s, o, ws) ==
    IF s.out[o].active_workspace = ws THEN s
    ELSE SweepVisibility([s EXCEPT !.out[o].active_workspace = ws])

\* The slot ws of o becomes the active one, its first tiled window the focused.
LandOn(s, o, ws) ==
    LET t == ShowSlot([s EXCEPT !.focused_output = o], o, ws)
    IN  RenderOverview(FocusOrClear(t, FirstIn(t, Tiled(t, o))), {o})

----------------------------------------------------------------------------
(* focus::dir *)

FocusSlot(s, dir) ==
    LET o == s.focused_output
        beside == SlotBeside(s.out[o].active_workspace, dir)
        next == NextTo(s, o, dir, InOverview(s))
    IN  IF beside # NoWorkspace THEN LandOn(s, o, beside)
        ELSE IF next = NoOutput THEN s
        ELSE LandOn(s, next, EntrySlot(s.out[next].active_workspace, dir))

\* The tab before or after the focused one; scratchpad windows are not skipped.
TabBeside(s, o, dir) ==
    LET cur == FocusedToplevel(s)
        tabs == {w \in Linked(s) : /\ OnActive(s, w, o)
                                   /\ "floating" \notin s.win[w].flags}
    IN  IF cur = NoWindow THEN NoWindow
        ELSE IF ~Backward(dir) THEN NextIn(s, tabs, cur)
        ELSE IF cur \in tabs THEN PrevIn(s, tabs, cur)
        ELSE NoWindow

\* What find_dir_target chooses from, and whether focus::dir calls it.
DirTargets(s, o, w) ==
    {v \in Linked(s) \ {w} : /\ OnActive(s, v, o)
                             /\ "floating" \notin s.win[v].flags
                             /\ ~s.win[v].in_scratchpad}
Searches(s, o) ==
    LET cur == FocusedToplevel(s)
    IN  /\ cur # NoWindow
        /\ s.win[cur].output = o
        /\ ActiveLayout(s, o) # "tabbed"

\* Onto the next monitor: its remembered window unless that is floating, else
\* the nearer end of its tiled windows, else one that is fullscreen.
EnterOutput(s, o, dir) ==
    LET ws == s.out[o].active_workspace
        last == s.out[o].last_focused[ws]
        remembered == /\ last # NoWindow
                      /\ s.win[last].output = o /\ s.win[last].workspace = ws
                      /\ "floating" \notin s.win[last].flags
        full == {w \in Linked(s) :
                    /\ s.win[w].output = o /\ s.win[w].workspace = ws
                    /\ s.win[w].flags \cap {"fullscreen", "fake_fullscreen"} # {}}
        end == IF Backward(dir) THEN LastIn(s, Tiled(s, o)) ELSE FirstIn(s, Tiled(s, o))
        t == [s EXCEPT !.focused_output = o]
    IN  IF last # NoWindow /\ s.win[last].life = "free" THEN Crash(t)
        ELSE FocusOrClear(t, IF remembered THEN last ELSE Or(end, FirstIn(s, full)))

\* near is the window find_dir_target returns.
FocusDir(s, dir, near) ==
    LET o == s.focused_output
        pad == InPad(s, Global)
        next == NextTo(s, o, dir, Live(s))
        tab == TabBeside(s, o, dir)
    IN  IF o = NoOutput THEN s
        ELSE IF Overviewed(s, o) THEN FocusSlot(s, dir)
        ELSE IF PadShown(s)
        THEN FocusToplevel(s, IF Backward(dir) THEN Preceding(s, pad)
                              ELSE Following(s, pad))
        ELSE IF ActiveLayout(s, o) = "tabbed" /\ tab # NoWindow
        THEN FocusToplevel(s, tab)
        ELSE IF near # NoWindow THEN FocusToplevel(s, near)
        ELSE IF next = NoOutput THEN s
        ELSE EnterOutput(s, next, dir)

----------------------------------------------------------------------------
(* focus::move_dir *)

(***************************************************************************)
(* To the slot beside.  The window has the keyboard, so focus_toplevel     *)
(* returns at once and the slot it lands on does not remember it.          *)
(***************************************************************************)
MoveToSlot(s, w, dir) ==
    LET o == s.focused_output
        ws == SlotBeside(s.win[w].workspace, dir)
        t == ForgetFocus(s, o, w)
        u == ShowSlot([t EXCEPT !.win[w].workspace = ws], o, ws)
        v == [u EXCEPT !.win[w].enabled = TRUE]
    IN  IF ws = NoWorkspace THEN s
        ELSE ArrangeOutput(FocusToplevel(v, w), o)

MoveToNextOutput(s, w, dir) ==
    LET src == s.focused_output
        dst == NextTo(s, src, dir, Live(s))
        t == ForgetFocus(s, src, w)
        u == [t EXCEPT !.win[w] = [t.win[w] EXCEPT
                  !.output = dst, !.enabled = TRUE,
                  !.workspace = s.out[dst].active_workspace]]
        v == FocusOrClear(u, FirstIn(u, Tiled(u, src)))
        x == FocusToplevel([v EXCEPT !.focused_output = dst], w)
    IN  IF dst = NoOutput THEN s ELSE Arrange(x, {src, dst})

MoveDir(s, dir, near) ==
    LET o == s.focused_output
        w == FocusedToplevel(s)
    IN  IF o = NoOutput \/ w = NoWindow THEN s
        ELSE IF "floating" \in s.win[w].flags THEN s
        ELSE IF Overviewed(s, o) THEN MoveToSlot(s, w, dir)
        ELSE IF near # NoWindow
        THEN ArrangeOutput([s EXCEPT !.toplevels = Exchange(s, w, near)], o)
        ELSE MoveToNextOutput(s, w, dir)

----------------------------------------------------------------------------
(* Events *)

\* A binding, a hot corner, the bar or a script.
Overview ==
    Occurs("overview") /\ server' = ToggleOverview(server)

\* Escape and Return in the overview.
LeaveOverview ==
    /\ ~server.crashed
    /\ server.focused_output # NoOutput
    /\ Overviewed(server, server.focused_output)
    /\ server' = BeginExit(server)

\* overview_frame_update, on the frame with which the exit animation ends.
Faded(o) ==
    /\ ~server.crashed
    /\ o \in Lit(server)
    /\ server.out[o].overview = "leaving"
    /\ server' = ExitOverview(server, o)

\* The commands, and the arrow keys in the overview.
FocusTowards(dir) ==
    /\ Occurs("focus_dir")
    /\ server.focused_output # NoOutput
    /\ \E near \in {NoWindow} \cup
             (IF Searches(server, server.focused_output)
              THEN DirTargets(server, server.focused_output, FocusedToplevel(server))
              ELSE {}) :
           server' = FocusDir(server, dir, near)

MoveTowards(dir) ==
    /\ Occurs("move_dir")
    /\ server.focused_output # NoOutput
    /\ FocusedToplevel(server) # NoWindow
    /\ \E near \in {NoWindow} \cup
             DirTargets(server, server.focused_output, FocusedToplevel(server)) :
           server' = MoveDir(server, dir, near)

OverviewStep ==
    \/ Overview
    \/ LeaveOverview
    \/ \E o \in Output : Faded(o)
    \/ \E dir \in Direction : FocusTowards(dir) \/ MoveTowards(dir)

----------------------------------------------------------------------------
(***************************************************************************)
(* Out of the overview everything is back: each workspace shows its own    *)
(* windows, floating ones included, and a keyboard on the focused monitor  *)
(* is on a visible window, whatever was focused, moved, dropped, mapped or *)
(* unmapped inside, and however the animations of the monitors interleave. *)
(***************************************************************************)
Restored ==
    InOverview(server) = {} =>
        /\ OnlyActiveShown
        /\ FocusedToplevel(server) # NoWindow =>
               \/ win[server.kb_focus].output # server.focused_output
               \/ FocusVisible

============================================================================
