------------------------------- MODULE Shells -------------------------------
(***************************************************************************)
(* The other shells beside xdg-shell: XWayland windows (src/xwayland.cpp), *)
(* which share the lists and the focus of WindowManager but not its        *)
(* callbacks, and layer surfaces (src/layer_shell.cpp), which take the     *)
(* keyboard from windows and give it back.  Not modelled are geometry      *)
(* (configure requests), the urgent hint and override-redirect surfaces,   *)
(* which no other part refers to.                                          *)
(***************************************************************************)
EXTENDS WindowManager

CONSTANT X11    \* the slots of windows that come from XWayland

ASSUME X11Assumption == X11 \subseteq Window

VARIABLE layers   \* server->layer_surfaces

shellsVars == <<server, layers>>

(***************************************************************************)
(* life is free, fresh, mapped or unmapped.  output is kept when the output *)
(* goes: it is compared, never followed.  interactive says whether          *)
(* keyboard_interactivity is other than "none".                             *)
(***************************************************************************)
NoSurface == [life |-> "free", output |-> NoOutput, interactive |-> FALSE]

LayersInit == layers = [l \in Layer |-> NoSurface]

----------------------------------------------------------------------------
(* XWayland *)

(***************************************************************************)
(* xwayland_surface_map.  Every map makes a new scene tree among the       *)
(* windows, also for a window that is in a scratchpad; a window with a     *)
(* parent floats before the rules have run.                                *)
(***************************************************************************)
MapXwayland(s, w, rule, child) ==
    LET parent == IF child THEN {"floating"} ELSE {}
        t == [s EXCEPT !.win[w].flags = @ \cup parent,
                       !.win[w].tree = "windows", !.win[w].enabled = TRUE]
    IN  MapToplevel(t, w, rule, FALSE)

XwaylandMap(w, rule, child) ==
    /\ ~server.crashed
    /\ \/ server.win[w].life = "fresh"
       \/ server.win[w].life = "unlinked" /\ Occurs("remap")
    /\ child => Occurs("dialog")
    /\ server' = MapXwayland(server, w, rule, child)

\* xwayland_surface_unmap does to the shared state what xdg_toplevel_unmap does.
XwaylandUnmap(w, at) == Unmap(w, at)

\* xwayland_surface_destroy
XwaylandDestroy(w) == Destroy(w)

\* xwayland_surface_request_fullscreen toggles, whatever the client asked for.
\* A window that is not mapped may have no scene tree to raise: left out.
XwaylandFullscreen(w) ==
    /\ Occurs("request_fullscreen")
    /\ w \in Linked(server)
    /\ server' = ToggleFlag(server, w, "fullscreen")

----------------------------------------------------------------------------
(* Layer surfaces *)

\* arrange_layers looks the output up among the live ones.
ArrangeLayers(s, o) == Arrange(s, {o} \cap Live(s))

\* wlr_seat_keyboard_notify_enter, if the surface is interactive
Entered(s, l, interactive) ==
    IF interactive THEN [s EXCEPT !.kb_focus = l] ELSE s

\* mutant: the first window of the list, wherever it is
ReturnedFirst(s) == FocusToplevel(s, FirstIn(s, Linked(s)))

\* The keyboard goes to last_focused of the active workspace of the focused
\* output, or to its first tiled window; with neither it stays where it is.
Returned(s) ==
    LET o == s.focused_output
    IN  FocusToplevel(s, Or(s.out[o].last_focused[s.out[o].active_workspace],
                            FirstIn(s, Tiled(s, o))))

\* server_new_layer_surface, for an output the client names or leaves to nnwm
NewLayer(l) ==
    /\ Occurs("layers")
    /\ layers[l].life = "free"
    /\ \E o \in Live(server) \cup {PadOutput(server)} :
           layers' = [layers EXCEPT ![l] = [NoSurface EXCEPT !.life = "fresh", !.output = o]]
    /\ UNCHANGED server

\* layer_surface_map
MapLayer(l, interactive) ==
    /\ Occurs("layers")
    /\ layers[l].life \in {"fresh", "unmapped"}
    /\ layers' = [layers EXCEPT ![l].life = "mapped", ![l].interactive = interactive]
    /\ server' = Entered(ArrangeLayers(server, layers[l].output), l, interactive)

\* layer_surface_commit of a mapped surface: an interactive one takes the
\* keyboard back with every commit.
CommitLayer(l, interactive) ==
    /\ Occurs("layers")
    /\ layers[l].life = "mapped"
    /\ layers' = [layers EXCEPT ![l].interactive = interactive]
    /\ server' = Entered(ArrangeLayers(server, layers[l].output), l, interactive)

\* layer_surface_unmap does not ask whether the surface had the keyboard.
UnmapLayer(l, at) ==
    /\ Occurs("layers")
    /\ layers[l].life = "mapped"
    /\ at \in UnderCursor(server)
    /\ layers' = [layers EXCEPT ![l].life = "unmapped"]
    /\ LET s == ArrangeLayers(server, layers[l].output)
       IN  server' = PointerRefresh(IF s.focused_output = NoOutput THEN s
                                    ELSE Returned(s), at)

\* layer_surface_destroy; the seat drops a focused surface that dies.
DestroyLayer(l) ==
    /\ Occurs("layers")
    /\ layers[l].life \in {"fresh", "unmapped"}
    /\ layers' = [layers EXCEPT ![l] = NoSurface]
    /\ server' = ArrangeLayers([server EXCEPT !.kb_focus = IF @ = l THEN NoWindow ELSE @],
                               layers[l].output)

----------------------------------------------------------------------------
XwaylandStep ==
    \E w \in X11 :
        \/ New(w)
        \/ \E rule \in Rules, child \in BOOLEAN : XwaylandMap(w, rule, child)
        \/ \E at \in Output \cup {NoOutput} : XwaylandUnmap(w, at)
        \/ XwaylandFullscreen(w)
        \/ XwaylandDestroy(w)

XdgStep ==
    \E w \in Window \ X11 :
        \/ New(w)
        \/ \E rule \in Rules, dialog \in BOOLEAN : Map(w, rule, dialog)
        \/ \E at \in Output \cup {NoOutput} : Unmap(w, at)
        \/ RequestFullscreen(w)
        \/ Destroy(w)

LayerStep ==
    \E l \in Layer :
        \/ NewLayer(l)
        \/ \E interactive \in BOOLEAN : MapLayer(l, interactive) \/ CommitLayer(l, interactive)
        \/ \E at \in Output \cup {NoOutput} : UnmapLayer(l, at)
        \/ DestroyLayer(l)

WindowStep ==
    \/ XwaylandStep \/ XdgStep
    \/ \E w \in Window : Click(w)
    \/ \E at \in Output \cup {NoOutput} : Hover(at)
    \/ UserStep

ShellsInit == Init /\ LayersInit
ShellsNext ==
    \/ LayerStep
    \/ WindowStep /\ UNCHANGED layers
ShellsSpec == ShellsInit /\ [][ShellsNext]_shellsVars

----------------------------------------------------------------------------
(***************************************************************************)
(* A launcher that closes gives the keyboard back: if it had it and there  *)
(* are tiled windows, one of the active workspace that is on the screen    *)
(* gets it, whatever was mapped, unmapped, moved or switched meanwhile.    *)
(***************************************************************************)
KeyboardReturns ==
    [][\A l \in Layer :
          /\ layers[l].life = "mapped" /\ layers'[l].life = "unmapped"
          /\ server.kb_focus = l
          /\ server.focused_output # NoOutput
          /\ Tiled(server, server.focused_output) # {}
          => LET w == server'.kb_focus
                 o == server.focused_output
             IN  /\ w \in Window /\ server'.win[w].output = o
                 /\ Shown(server', w) /\ OnActive(server', w, o)]_shellsVars

(***************************************************************************)
(* Comment in layer_shell.cpp:105, "Restore keyboard focus ... when a      *)
(* keyboard-interactive layer surface (e.g. rofi) unmaps": a notification  *)
(* that closes leaves the keyboard alone.  The code does not keep it.      *)
(***************************************************************************)
OnlyInteractiveReturns ==
    [][\A l \in Layer :
          /\ layers[l].life = "mapped" /\ layers'[l].life = "unmapped"
          /\ ~layers[l].interactive
          => server'.kb_focus = server.kb_focus]_shellsVars

=============================================================================
