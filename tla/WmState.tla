------------------------------ MODULE WmState ------------------------------
(***************************************************************************)
(* The state that the callbacks of nnwm share (struct nnwm_server, with    *)
(* its nnwm_toplevel and nnwm_output lists) and the helpers they are built *)
(* from: the list walks of nnwm.cpp, focus_toplevel and arrange_windows.   *)
(*                                                                         *)
(* nnwm runs on one wl_event_loop thread.  A callback calls helpers that   *)
(* change the state in turn and read what the previous one left, so a      *)
(* helper is an operator from a server state s to a server state, and a    *)
(* callback (module WindowManager) is a composition of them.               *)
(*                                                                         *)
(* Geometry, drawing, client configure events and the Lua hooks are left   *)
(* out: none of them changes the state below.                              *)
(*                                                                         *)
(* A definition marked "mutant" is no part of the model: it is the bug in  *)
(* the definition after it that shows a property of the runs can fail.     *)
(***************************************************************************)
EXTENDS Naturals, Sequences, FiniteSets, SequencesExt

CONSTANTS
    Window,        \* memory slots of nnwm_toplevel objects
    Output,        \* monitors that may be plugged in
    Layer,         \* layer-shell surfaces (bars, launchers, notifications)
    NumWs,         \* config->workspace_count
    PadName,       \* names of the named scratchpads
    NoWindow,      \* a null nnwm_toplevel pointer
    NoOutput,      \* a null nnwm_output pointer
    DefaultLayout  \* config->workspace_default_layouts

Flag == {"floating", "fullscreen", "fake_fullscreen", "sticky"}
Layout == {"tile", "tabbed", "scroll", "float"}

ASSUME WsAssumption == NumWs \in Nat \ {0}
ASSUME NullAssumption ==
    /\ NoWindow \notin Window \cup Layer /\ Layer \cap Window = {}
    /\ NoOutput \notin Output
ASSUME LayoutAssumption == DefaultLayout \in Layout

WS == 0 .. NumWs - 1

\* scratchpad_name of a window: the empty string stands for the global one.
Global == "global"
Pad == PadName \cup {Global}

ASSUME PadAssumption == Global \notin PadName /\ "windows" \notin Pad

(***************************************************************************)
(* A window is free (no object), fresh (created, never mapped), linked (in *)
(* server->toplevels) or unlinked (unmapped, object not yet deleted).      *)
(* tree is the scene tree the window's node hangs in, enabled the node's   *)
(* own flag: it shows when both are enabled.                               *)
(***************************************************************************)
Toplevel ==
    [life : {"free", "fresh", "linked", "unlinked"},
     output : Output \cup {NoOutput}, workspace : WS, flags : SUBSET Flag,
     in_scratchpad : BOOLEAN, scratchpad_name : Pad,
     tree : Pad \cup {"windows"}, enabled : BOOLEAN]

OutputState ==
    [active_workspace : WS, prev_workspace : WS,
     last_focused : [WS -> Window \cup {NoWindow}],
     layout_mode : [WS -> Layout], on : BOOLEAN,
     overview : {"off", "on", "leaving"}]

(***************************************************************************)
(* crashed is set by a null or freed pointer being dereferenced: what the  *)
(* program does from there on is undefined, and the model stops.           *)
(***************************************************************************)
ServerState ==
    [toplevels : Seq(Window), win : [Window -> Toplevel],
     outputs : Seq(Output), out : [Output -> OutputState],
     focused_output : Output \cup {NoOutput},
     kb_focus : Window \cup Layer \cup {NoWindow},
     shown_pads : SUBSET Pad, crashed : BOOLEAN]

NewToplevelState ==
    [life |-> "free", output |-> NoOutput, workspace |-> 0, flags |-> {},
     in_scratchpad |-> FALSE, scratchpad_name |-> Global,
     tree |-> "windows", enabled |-> TRUE]

NewOutputState ==
    [active_workspace |-> 0, prev_workspace |-> 0,
     last_focused |-> [ws \in WS |-> NoWindow],
     layout_mode |-> [ws \in WS |-> DefaultLayout], on |-> TRUE,
     overview |-> "off"]

----------------------------------------------------------------------------
(* Lists and membership *)

Linked(s) == {w \in Window : s.win[w].life = "linked"}
Live(s) == Range(s.outputs)

\* wl_list_remove of x, and wl_list_insert before / after x.
IndexIn(seq, x) == CHOOSE i \in DOMAIN seq : seq[i] = x
Without(seq, x) == RemoveAt(seq, IndexIn(seq, x))
Before(seq, w, x) == InsertAt(seq, IndexIn(seq, x), w)
After(seq, w, x) == InsertAt(seq, IndexIn(seq, x) + 1, w)

\* The entry of seq at the least / greatest position in I, null if I is empty.
Earliest(seq, I, null) ==
    IF \E i \in I : \A j \in I : i <= j
    THEN seq[CHOOSE i \in I : \A j \in I : i <= j] ELSE null
Latest(seq, I, null) ==
    IF \E i \in I : \A j \in I : j <= i
    THEN seq[CHOOSE i \in I : \A j \in I : j <= i] ELSE null

Places(s, S) == {i \in DOMAIN s.toplevels : s.toplevels[i] \in S}
PlaceOf(s, w) == IndexIn(s.toplevels, w)

FirstIn(s, S) == Earliest(s.toplevels, Places(s, S), NoWindow)
LastIn(s, S) == Latest(s.toplevels, Places(s, S), NoWindow)
NextIn(s, S, w) ==
    Earliest(s.toplevels, {i \in Places(s, S) : i > PlaceOf(s, w)}, NoWindow)
PrevIn(s, S, w) ==
    Latest(s.toplevels, {i \in Places(s, S) : i < PlaceOf(s, w)}, NoWindow)

\* out->overview: "leaving" while the exit animation runs (ov_anim_exiting).
Overviewed(s, o) == s.out[o].overview # "off"

OnActive(s, w, o) ==
    /\ s.win[w].output = o
    /\ \/ s.win[w].workspace = s.out[o].active_workspace
       \/ "sticky" \in s.win[w].flags

\* WS_TILED and WS_FLOAT: the windows that ws_first .. ws_last_float walk.
Tiled(s, o) ==
    {w \in Linked(s) : /\ OnActive(s, w, o)
                       /\ s.win[w].flags \subseteq {"sticky"}
                       /\ ~s.win[w].in_scratchpad}
Floats(s, o) ==
    {w \in Linked(s) : OnActive(s, w, o) /\ "floating" \in s.win[w].flags}

InPad(s, p) ==
    {w \in Linked(s) : s.win[w].in_scratchpad /\ s.win[w].scratchpad_name = p}

PadShown(s) == Global \in s.shown_pads

FirstToplevel(s) == FirstIn(s, Window)   \* mutant: not the focused one

\* get_focused_toplevel
FocusedToplevel(s) ==
    IF s.kb_focus \in Window /\ s.kb_focus \in Linked(s) THEN s.kb_focus
    ELSE NoWindow

Or(w, alternative) == IF w # NoWindow THEN w ELSE alternative

Crash(s) == [s EXCEPT !.crashed = TRUE]

----------------------------------------------------------------------------
(* arrange_windows *)

\* mutant: the remembered window is not compared with the workspace
FrontRemembered(s, o) ==
    Or(s.out[o].last_focused[s.out[o].active_workspace], FirstIn(s, Tiled(s, o)))

(***************************************************************************)
(* The window a tabbed or scrolling layout puts in front.  last_focused is *)
(* dereferenced before it is compared, and in_scratchpad is not looked at. *)
(***************************************************************************)
FrontWindow(s, o) ==
    LET ws == s.out[o].active_workspace
        w == s.out[o].last_focused[ws]
    IN  IF /\ w # NoWindow
           /\ s.win[w].output = o /\ s.win[w].workspace = ws
           /\ s.win[w].flags \subseteq {"sticky"}
        THEN w ELSE FirstIn(s, Tiled(s, o))

ActiveLayout(s, o) == s.out[o].layout_mode[s.out[o].active_workspace]

\* The float layout turns every window it owns into a floating one for good.
ArrangeWindow(s, w) ==
    LET t == s.win[w]
        o == t.output
    IN  IF /\ ActiveLayout(s, o) = "float"
           /\ OnActive(s, w, o) /\ ~t.in_scratchpad
           /\ t.flags \cap {"fullscreen", "fake_fullscreen"} = {}
        THEN [t EXCEPT !.flags = @ \cup {"floating"}, !.enabled = TRUE]
        ELSE IF ActiveLayout(s, o) # "float" /\ w \in Tiled(s, o)
        THEN [t EXCEPT !.enabled = ActiveLayout(s, o) = "tabbed"
                                      => FrontWindow(s, o) = w]
        ELSE t

\* render_overview arranges every workspace in turn, for the picture of it in
\* its slot, and then hides the windows themselves.
PicturedWindow(s, w) ==
    LET t == s.win[w]
        loose == \E ws \in WS :
                    /\ s.out[t.output].layout_mode[ws] = "float"
                    /\ ws = t.workspace \/ "sticky" \in t.flags
                    /\ t.flags \cap {"fullscreen", "fake_fullscreen"} = {}
    IN  IF t.in_scratchpad THEN t
        ELSE [t EXCEPT !.enabled = FALSE,
                       !.flags = IF loose THEN @ \cup {"floating"} ELSE @]

\* A layout that puts a window in front reads a freed one in one of WSs.
FreedFront(s, o, WSs) ==
    \E ws \in WSs : LET w == s.out[o].last_focused[ws]
                    IN  /\ s.out[o].layout_mode[ws] \in {"tabbed", "scroll"}
                        /\ w # NoWindow /\ s.win[w].life = "free"

\* arrange_windows on each output of O.  Outputs share no window.
Arrange(s, O) ==
    [s EXCEPT !.win = [w \in Window |->
                 IF w \notin Linked(s) \/ s.win[w].output \notin O THEN s.win[w]
                 ELSE IF Overviewed(s, s.win[w].output) THEN PicturedWindow(s, w)
                 ELSE ArrangeWindow(s, w)],
              !.crashed = @ \/ \E o \in O :
                  FreedFront(s, o, IF Overviewed(s, o) THEN WS
                                   ELSE {s.out[o].active_workspace})]

\* render_overview on each output of O, whether it is in overview mode or not.
RenderOverview(s, O) ==
    [s EXCEPT !.win = [w \in Window |->
                 IF w \in Linked(s) /\ s.win[w].output \in O
                 THEN PicturedWindow(s, w) ELSE s.win[w]],
              !.crashed = @ \/ \E o \in O : FreedFront(s, o, WS)]

ArrangeOutput(s, o) ==
    IF o = NoOutput THEN s
    ELSE IF o \notin Live(s) THEN Crash(s) ELSE Arrange(s, {o})

----------------------------------------------------------------------------
(* Keyboard focus *)

\* wlr_seat_keyboard_clear_focus
ClearFocus(s) == [s EXCEPT !.kb_focus = NoWindow]

(***************************************************************************)
(* focus_toplevel.  A window that already has the keyboard is left as it   *)
(* is: neither focused_output nor last_focused is brought up to date.      *)
(***************************************************************************)
FocusToplevel(s, w) ==
    IF w = NoWindow \/ s.crashed THEN s
    ELSE IF s.win[w].life = "free" THEN Crash(s)
    ELSE IF s.kb_focus = w THEN s
    ELSE LET o == s.win[w].output
             ws == s.win[w].workspace
             t == [s EXCEPT !.kb_focus = w]
         IN  IF o = NoOutput THEN t
             ELSE IF o \notin Live(s) THEN Crash(t)
             ELSE LET u == [t EXCEPT !.focused_output = o,
                                     !.out[o].last_focused[ws] = w]
                  IN  IF \/ s.out[o].layout_mode[ws] \in {"tabbed", "scroll"}
                         \/ Overviewed(s, o)
                      THEN ArrangeOutput(u, o) ELSE u

FocusIfAny(s, w) == FocusToplevel(s, w)   \* mutant: the focus is not cleared

\* if (next) focus_toplevel(next); else wlr_seat_keyboard_clear_focus(seat)
FocusOrClear(s, w) == IF w = NoWindow THEN ClearFocus(s) ELSE FocusToplevel(s, w)

(***************************************************************************)
(* "The last focused window of the active workspace, else its first tiled  *)
(* one": the fallback most callbacks use.  last_focused is not validated.  *)
(***************************************************************************)
FocusActive(s, o) ==
    FocusOrClear(s, Or(s.out[o].last_focused[s.out[o].active_workspace],
                       FirstIn(s, Tiled(s, o))))

ForgetNothing(s, o, w) == s   \* mutant: the pointer is kept

\* last_focused is emptied where it points at w, as before w moves away.
ForgetFocus(s, o, w) ==
    IF o # NoOutput /\ s.out[o].last_focused[s.win[w].workspace] = w
    THEN [s EXCEPT !.out[o].last_focused[s.win[w].workspace] = NoWindow]
    ELSE s

----------------------------------------------------------------------------
(* Outputs *)

FirstOutput(s) == IF s.outputs = <<>> THEN NoOutput ELSE s.outputs[1]

\* output_cycle: the neighbour of o in server->outputs, null when o is alone.
CycleOutput(s, o, step) ==
    LET n == Len(s.outputs)
        i == CHOOSE k \in 1 .. n : s.outputs[k] = o
    IN  IF n <= 1 THEN NoOutput
        ELSE IF step = "next" THEN s.outputs[IF i = n THEN 1 ELSE i + 1]
        ELSE s.outputs[IF i = 1 THEN n ELSE i - 1]

\* The output that scratchpads open on.
PadOutput(s) ==
    IF s.focused_output = NoOutput THEN FirstOutput(s) ELSE s.focused_output

(***************************************************************************)
(* The tail of process_cursor_motion when nothing is dragged: with no      *)
(* window holding the keyboard (a layer surface is none), the output under *)
(* the cursor (at, null when the cursor is on none) becomes the focused    *)
(* one.                                                                    *)
(***************************************************************************)
PointerRefresh(s, at) ==
    IF at # NoOutput /\ s.kb_focus \notin Window
    THEN [s EXCEPT !.focused_output = at] ELSE s

UnderCursor(s) == {o \in Live(s) : s.out[o].on} \cup {NoOutput}

============================================================================
