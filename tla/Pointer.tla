------------------------------- MODULE Pointer -------------------------------
(***************************************************************************)
(* The pointer: moving, resizing and tile-dragging windows with Super or   *)
(* at a client's request, and dragging and clicking in the overview        *)
(* (cursor.cpp, the interactive part of xdg_shell.cpp).  A grab lives over *)
(* many events, and any callback of WindowManager and Overview may run     *)
(* between two of them.                                                    *)
(*                                                                         *)
(* The pointer has no coordinates.  Where an event depends on the place,   *)
(* what is there (the monitor at, the window under it, the slot) is chosen *)
(* anew: besides the mouse, scripts and changes of focus move the cursor.  *)
(***************************************************************************)
EXTENDS Overview

CONSTANTS
    FocusFollowsMouse,   \* config->focus_follows_mouse
    Button               \* the buttons of the mouse

ASSUME FollowAssumption == FocusFollowsMouse \in BOOLEAN
ASSUME ButtonAssumption == "left" \in Button

VARIABLE pointer

desktopVars == <<server, pointer>>

PointerState ==
    [mode : {"passthrough", "move", "resize", "tile_drag"},
     grabbed : Window \cup {NoWindow},          \* grabbed_toplevel
     target : Window \cup {NoWindow},           \* tile_drag_target
     target_output : Output \cup {NoOutput},    \* tile_drag_target_output
     dragged : Window \cup {NoWindow},          \* overview_drag_toplevel
     held : SUBSET Button]                      \* the buttons that are down

PointerInit ==
    pointer = [mode |-> "passthrough", grabbed |-> NoWindow, target |-> NoWindow,
               target_output |-> NoOutput, dragged |-> NoWindow, held |-> {}]

Freed(s, w) == w # NoWindow /\ s.win[w].life = "free"

----------------------------------------------------------------------------
(* Grabs *)

\* tile_drop_border_hide
NoTarget(p) == [p EXCEPT !.target = NoWindow, !.target_output = NoOutput]

\* reset_cursor_mode: only a tile drag forgets its target.
ResetMode(p) ==
    [(IF p.mode = "tile_drag" THEN NoTarget(p) ELSE p)
        EXCEPT !.mode = "passthrough", !.grabbed = NoWindow]

\* begin_interactive: the target of an earlier tile drag is left as it is.
Grab(p, w, mode) == [p EXCEPT !.mode = mode, !.grabbed = w]

\* A window that is moved or resized floats from then on.
Loosened(s, w) ==
    IF "floating" \in s.win[w].flags THEN s
    ELSE ArrangeOutput([s EXCEPT !.win[w].flags = @ \cup {"floating"}],
                       s.win[w].output)

----------------------------------------------------------------------------
(* process_cursor_motion, with the cursor on the monitor at *)

\* The windows a tile drag can be over: any layout's, on any monitor.
DropTargets(s, p) ==
    {w \in Linked(s) \ {p.grabbed} : /\ "floating" \notin s.win[w].flags
                                     /\ ~s.win[w].in_scratchpad
                                     /\ s.win[w].enabled}

\* process_cursor_move: the window goes to the monitor under the cursor, and
\* last_focused of the workspace it leaves is not emptied.
MoveMotion(s, w, at) ==
    IF Freed(s, w) THEN Crash(s)
    ELSE IF at \in {NoOutput, s.win[w].output} THEN s
    ELSE [s EXCEPT !.win[w].output = at,
                   !.win[w].workspace = s.out[at].active_workspace]

\* A window that gets the focus because the pointer moved onto it.
FreeMotion(s, at, hover) ==
    LET t == IF at # NoOutput /\ FocusFollowsMouse
             THEN [s EXCEPT !.focused_output = at] ELSE PointerRefresh(s, at)
    IN  IF InOverview(s) # {} \/ ~FocusFollowsMouse THEN t
        ELSE FocusToplevel(t, hover)

MotionServer(s, p, at, hover) ==
    IF p.dragged # NoWindow THEN s
    ELSE CASE p.mode = "move" -> MoveMotion(s, p.grabbed, at)
           [] p.mode = "resize" -> IF Freed(s, p.grabbed) THEN Crash(s) ELSE s
           [] p.mode = "tile_drag" -> s
           [] OTHER -> FreeMotion(s, at, hover)

\* mutant: a target that is not under the cursor any more is kept
MotionKept(s, p, at, under) ==
    IF p.mode # "tile_drag" \/ p.dragged # NoWindow \/ under = NoWindow THEN p
    ELSE [p EXCEPT !.target = under, !.target_output = NoOutput]

\* process_tile_drag_motion
MotionPointer(s, p, at, under) ==
    IF p.mode # "tile_drag" \/ p.dragged # NoWindow THEN p
    ELSE IF under # NoWindow
    THEN [p EXCEPT !.target = under, !.target_output = NoOutput]
    ELSE IF at \in {NoOutput, s.win[p.grabbed].output} THEN NoTarget(p)
    ELSE [p EXCEPT !.target = NoWindow, !.target_output = at]

----------------------------------------------------------------------------
(* The release that ends a tile drag *)

ArrangeAll(s, O) ==
    IF O \subseteq Live(s) \cup {NoOutput} THEN Arrange(s, O \ {NoOutput}) ELSE Crash(s)

\* mutant: the other window stays where it was
SwapHomesHalf(s, w, v) ==
    [s EXCEPT !.toplevels = Exchange(s, w, v),
              !.win[w].output = s.win[v].output,
              !.win[w].workspace = s.win[v].workspace]

\* The windows exchange their places in the list and, when they differ, their
\* monitors and workspaces.
SwapHomes(s, w, v) ==
    [s EXCEPT !.toplevels = Exchange(s, w, v),
              !.win[w].output = s.win[v].output,
              !.win[w].workspace = s.win[v].workspace,
              !.win[v].output = s.win[w].output,
              !.win[v].workspace = s.win[w].workspace]

DropTile(s, p) ==
    LET w == p.grabbed
        src == s.win[w].output
        dst == IF p.target # NoWindow THEN s.win[p.target].output ELSE p.target_output
        t == IF p.target # NoWindow THEN SwapHomes(s, w, p.target)
             ELSE IF dst \in {NoOutput, src} THEN s
             ELSE [s EXCEPT !.win[w].output = dst,
                            !.win[w].workspace = s.out[dst].active_workspace]
    IN  IF {w, p.target} \ {NoWindow} \subseteq Linked(s)
        THEN ArrangeAll(FocusToplevel(t, w), {src, dst}) ELSE Crash(s)

----------------------------------------------------------------------------
(* Buttons in the overview *)

\* overview_toplevel_at: what can be hit on o, and in the slot ws of it.
Thumbnails(s, o) == {w \in Linked(s) : s.win[w].output = o /\ ~s.win[w].in_scratchpad}
InSlot(s, o, ws) ==
    {w \in Thumbnails(s, o) : s.win[w].workspace = ws \/ "sticky" \in s.win[w].flags}

(***************************************************************************)
(* A window dropped on the slot ws of the monitor at, or (NoWorkspace)     *)
(* between the slots.  Every monitor is rendered, in overview or not.      *)
(***************************************************************************)
DropThumbnail(s, w, at, ws) ==
    LET src == s.win[w].output
        moved == at # src \/ ws \notin {NoWorkspace, s.win[w].workspace}
        forgotten == [v \in WS |-> IF s.out[src].last_focused[v] = w THEN NoWindow
                                   ELSE s.out[src].last_focused[v]]
        t == IF moved /\ src # NoOutput
             THEN [s EXCEPT !.out[src].last_focused = forgotten] ELSE s
        u == [t EXCEPT !.win[w].output = at,
                       !.win[w].workspace = IF ws = NoWorkspace THEN @ ELSE ws]
    IN  IF Freed(s, w) THEN Crash(s) ELSE RenderOverview(u, Live(s))

(***************************************************************************)
(* A click: the release of a button that dragged nothing, over the slot ws *)
(* of the monitor at and the window hit in it.                             *)
(***************************************************************************)
ClickSlot(s, at, ws, hit) ==
    LET t == ExitEach([s EXCEPT !.focused_output = at], InOverview(s))
        u == IF ws # NoWorkspace /\ (hit = NoWindow \/ ws # t.out[at].active_workspace)
             THEN SwitchTo(t, ws) ELSE t
    IN  FocusToplevel(u, hit)

----------------------------------------------------------------------------
(* Events *)

MotionWindows(s, p) ==
    {NoWindow} \cup (IF p.mode = "tile_drag" THEN DropTargets(s, p)
                     ELSE OnScreen(s))

Moved(at, w) ==
    /\ Occurs("motion")
    /\ at \in UnderCursor(server)
    /\ w \in MotionWindows(server, pointer)
    /\ server' = MotionServer(server, pointer, at, w)
    /\ pointer' = MotionPointer(server, pointer, at, w)

\* unmap ends a grab of the window, and moves the pointer by nothing at the end.
Unmapped(w, at, under) ==
    LET p == IF pointer.grabbed = w THEN ResetMode(pointer) ELSE pointer
        s == UnmapToplevel(server, w)
    IN  /\ ~server.crashed
        /\ w \in Linked(server)
        /\ pointer.dragged = w => Occurs("unmap_dragged")
        /\ at \in UnderCursor(server)
        /\ under \in {NoWindow} \cup (IF p.mode = "tile_drag" THEN DropTargets(s, p)
                                      ELSE {})
        /\ server' = MotionServer(s, p, at, NoWindow)
        /\ pointer' = MotionPointer(s, p, at, under)

Pressed(b) == [pointer EXCEPT !.held = @ \cup {b}]
Released(b) == [pointer EXCEPT !.held = @ \ {b}]

\* The frame that marks where a tile would drop is in front of the windows.
Covered == pointer.target # NoWindow \/ pointer.target_output # NoOutput
Under == IF Covered THEN {} ELSE OnScreen(server)

Outside == InOverview(server) = {} \/ UnderCursor(server) \ InOverview(server) # {}

\* A press outside the overview: on a window or a tab, or on none.
Press(b, w) ==
    /\ Occurs("click") /\ Outside
    /\ b \notin pointer.held
    /\ w \in Under \cup InTabBar(server) \cup {NoWindow}
    /\ server' = FocusToplevel(server, w)
    /\ pointer' = Pressed(b)

\* With Super held: move, tile-drag or resize.
SuperPress(b, w) ==
    LET s == FocusToplevel(server, w)
    IN  /\ Occurs("grab") /\ Outside
        /\ b \notin pointer.held
        /\ w \in Under
        /\ \/ /\ b = "left"
              /\ server' = s
              /\ pointer' = Grab(Pressed(b), w,
                                 IF "floating" \in s.win[w].flags THEN "move"
                                 ELSE "tile_drag")
           \/ /\ b = "right"
              /\ server' = Loosened(s, w)
              /\ pointer' = Grab(Pressed(b), w, "resize")

\* xdg_toplevel_request_move and request_resize.  A client asks while a press
\* on its window is down; nothing checks that it does.
ClientGrab(w, mode) ==
    /\ \/ /\ Occurs("request_move")
          /\ w \in Linked(server)
          /\ pointer.mode = "passthrough" /\ pointer.held # {}
       \/ Occurs("stray_request") /\ server.win[w].life # "free"
    /\ server' = Loosened(server, w)
    /\ pointer' = Grab(pointer, w, mode)

\* The release of any button ends a grab.
Release(b) ==
    /\ ~server.crashed /\ Outside
    /\ b \in pointer.held
    /\ server' = IF pointer.mode = "tile_drag" THEN DropTile(server, pointer) ELSE server
    /\ pointer' = IF pointer.mode = "passthrough" THEN Released(b)
                  ELSE ResetMode(Released(b))

\* A window that something was dropped on gets the keyboard (on_drag_destroy).
DragAndDrop(w) ==
    /\ Occurs("click")
    /\ w \in Under
    /\ server' = FocusToplevel(server, w)
    /\ UNCHANGED pointer

\* The left button starts to drag a window; any other press is swallowed.
OverviewPress(b, at, hit) ==
    /\ Occurs("thumbnails")
    /\ at \in InOverview(server)
    /\ b \notin pointer.held
    /\ hit \in {NoWindow} \cup (IF b = "left" THEN Thumbnails(server, at) ELSE {})
    /\ pointer' = [Pressed(b) EXCEPT !.dragged = IF hit = NoWindow THEN @ ELSE hit]
    /\ UNCHANGED server

\* The release drops what is dragged, or is a click.  A grab is not ended.  A
\* drop on another monitor leaves the keyboard on the window and focused_output
\* where it was.
OverviewRelease(b, at, ws, hit) ==
    /\ ~server.crashed
    /\ at \in InOverview(server)
    /\ b \in pointer.held
    /\ hit # NoWindow => ws # NoWorkspace /\ hit \in InSlot(server, at, ws)
    /\ pointer.dragged # NoWindow /\ at # server.win[pointer.dragged].output =>
           Occurs("drop_elsewhere")
    /\ server' = IF pointer.dragged # NoWindow
                 THEN DropThumbnail(server, pointer.dragged, at, ws)
                 ELSE ClickSlot(server, at, ws, hit)
    /\ pointer' = [Released(b) EXCEPT !.dragged = NoWindow]

ButtonStep ==
    \E b \in Button :
        \/ \E w \in Window \cup {NoWindow} : Press(b, w)
        \/ \E w \in Window : SuperPress(b, w)
        \/ Release(b)
        \/ \E at \in Output, hit \in Window \cup {NoWindow} :
              \/ OverviewPress(b, at, hit)
              \/ \E ws \in WS \cup {NoWorkspace} : OverviewRelease(b, at, ws, hit)

GrabStep ==
    \/ ButtonStep
    \/ \E w \in Window, mode \in {"move", "resize"} : ClientGrab(w, mode)
    \/ \E w \in Window : DragAndDrop(w)
    \/ \E at \in Output \cup {NoOutput}, w \in Window \cup {NoWindow} : Moved(at, w)
    \/ \E w \in Window, at \in Output \cup {NoOutput}, v \in Window \cup {NoWindow} :
           Unmapped(w, at, v)

\* The callbacks that know nothing of the pointer.
OtherStep ==
    /\ ClientStep \/ UserStep \/ MonitorStep \/ OverviewStep
    /\ UNCHANGED pointer

DesktopInit == Init /\ PointerInit
DesktopNext == GrabStep \/ OtherStep
DesktopSpec == DesktopInit /\ [][DesktopNext]_desktopVars

----------------------------------------------------------------------------
\* The grabbed window and the drop target are mapped windows.
GrabbedMapped ==
    /\ pointer \in PointerState
    /\ pointer.mode = "passthrough" <=> pointer.grabbed = NoWindow
    /\ pointer.grabbed # NoWindow => pointer.grabbed \in Linked(server)
    /\ pointer.target # NoWindow => /\ pointer.mode = "tile_drag"
                                    /\ pointer.target \in Linked(server)
    /\ pointer.dragged \in Linked(server) \cup {NoWindow}

\* A window follows the pointer only while a button is held.
GrabHeld == pointer.mode # "passthrough" => pointer.held # {}

(***************************************************************************)
(* What a grab points at is there when the release comes, though clients   *)
(* may unmap and destroy windows at any moment of the drag, and no order   *)
(* of presses, releases, requests and unmapping leaves the pointer stuck   *)
(* to a window.                                                            *)
(***************************************************************************)
GrabSafe == GrabbedMapped /\ GrabHeld

(***************************************************************************)
(* A tile drag that ends on another window exchanges the two: their places *)
(* in the order of the tiles, their monitors and their workspaces.  No     *)
(* other window moves, whatever happened since the drag began.             *)
(***************************************************************************)
DropExchanges ==
    [][LET w == pointer.grabbed
           v == pointer.target
           Spot(s, u) == <<PlaceOf(s, u), s.win[u].output, s.win[u].workspace>>
       IN  /\ pointer.mode = "tile_drag" /\ pointer'.mode = "passthrough"
           /\ w \in Linked(server')
           => /\ v # NoWindow => /\ Spot(server', w) = Spot(server, v)
                                 /\ Spot(server', v) = Spot(server, w)
              /\ \A u \in Linked(server) \ {w, v} :
                     Spot(server', u) = Spot(server, u)]_desktopVars

============================================================================
