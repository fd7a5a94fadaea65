------------------------------ MODULE Animation ------------------------------
(***************************************************************************)
(* Animations of a build with SceneFX (src/nnwm.cpp, switch_to in           *)
(* src/actions.cpp, output_frame in src/output.cpp): what the frames do to  *)
(* the scene nodes of tiled windows on one output, against what the layout  *)
(* and the workspaces want of them.  Only tiled windows: the loops skip the *)
(* floating and the fullscreen ones.                                        *)
(*                                                                         *)
(* A position is one of: none, the window was never arranged; home, where   *)
(* the layout puts it; mid, somewhere else on the output; off, outside it.  *)
(***************************************************************************)
EXTENDS Naturals, FiniteSets

CONSTANTS
    Surface,    \* windows
    Effects,    \* configurations: [on, open, close, layout, switch], the styles
    Remaps      \* whether a window that was unmapped may be mapped again

VARIABLES
    wins,       \* [Surface -> its animation]
    fading,     \* server->dying_toplevels
    shown,      \* output->active_workspace
    fx          \* cfg->fx.animation

animationVars == <<wins, fading, shown, fx>>

Position == {"none", "home", "mid", "off"}
Desk == {1, 2}

\* node: its scene node is enabled.  geo, hide, from, to, cur: geo_anim,
\* geo_then_hide and the rectangles.  fade: fade_anim
NewWin == [life |-> "new", ws |-> 1, node |-> TRUE, geo |-> FALSE, hide |-> FALSE,
           from |-> "none", to |-> "none", cur |-> "none", fade |-> FALSE, dying |-> FALSE]

Mapped(w) == wins[w].life = "mapped"
OnShown(W, s) == { w \in Surface : W[w].life = "mapped" /\ W[w].ws = s }
MappedOn(s) == OnShown(wins, s)

AnimationTypeOK ==
    /\ wins \in [Surface -> [life : {"new", "mapped", "unmapped"}, ws : Desk, node : BOOLEAN,
                             geo : BOOLEAN, hide : BOOLEAN, from : Position, to : Position,
                             cur : Position, fade : BOOLEAN, dying : BOOLEAN]]
    /\ fading \subseteq Surface /\ shown \in Desk /\ fx \in Effects

AnimationInit ==
    /\ wins = [w \in Surface |-> NewWin]
    /\ fading = {} /\ shown = 1 /\ fx \in Effects

----------------------------------------------------------------------------
\* tl_set_geometry: the layout wants r at home, which is a new place if moved
SetGeometry(r, moved) ==
    LET changed == r.cur # "home" \/ moved
        at == IF r.cur = "none" THEN (IF fx.open \in {"fade", "none"} THEN "home" ELSE "mid")
              ELSE IF r.cur = "home" THEN "mid" ELSE r.cur
    IN  IF fx.on /\ changed /\ (r.cur = "none" \/ fx.layout # "none")
        THEN [r EXCEPT !.geo = TRUE, !.hide = FALSE, !.from = at, !.cur = at, !.to = "home"]
        ELSE [r EXCEPT !.geo = FALSE, !.cur = "home", !.to = "home"]

\* arrange_windows, where the layout has a new place for the windows of moved
Arrange(W, s, moved) ==
    [w \in Surface |-> IF w \in OnShown(W, s) THEN SetGeometry(W[w], w \in moved) ELSE W[w]]

\* tl_open_anim: the rectangle is only set by the arrangement that follows
OpenAnim(r) ==
    IF ~fx.on THEN r
    ELSE [r EXCEPT !.fade = @ \/ fx.open \notin {"scale", "none"},
                   !.geo = @ /\ fx.open \notin {"fade", "none"},
                   !.cur = IF fx.open \in {"fade", "none"} THEN r.to ELSE @]

\* tl_close_anim
CloseAnim(r) ==
    IF ~fx.on \/ fx.close = "none" THEN [r EXCEPT !.dying = FALSE]
    ELSE IF fx.close = "slide"
    THEN [r EXCEPT !.dying = TRUE, !.fade = TRUE, !.geo = TRUE, !.hide = FALSE,
                   !.from = r.cur, !.to = "mid"]
    ELSE [r EXCEPT !.dying = TRUE, !.fade = @ \/ fx.close # "scale"]

\* xdg_toplevel_map.  A window that was mapped before is taken as it is: only
\* the creation of a window clears dying
Map(w) ==
    /\ wins[w].life = "new" \/ (Remaps /\ wins[w].life = "unmapped")
    /\ \E moved \in SUBSET MappedOn(shown) :
        wins' = Arrange([wins EXCEPT ![w] = [OpenAnim(@) EXCEPT !.life = "mapped", !.ws = shown]],
                        shown, moved)
    /\ UNCHANGED <<fading, shown, fx>>

\* xdg_toplevel_unmap
Unmap(w) ==
    /\ Mapped(w)
    /\ LET r == [CloseAnim(wins[w]) EXCEPT !.life = "unmapped"]
       IN  /\ \E moved \in SUBSET MappedOn(shown) : wins' = Arrange([wins EXCEPT ![w] = r], shown, moved)
           /\ fading' = IF r.dying THEN fading \cup {w} ELSE fading
    /\ UNCHANGED <<shown, fx>>

\* mutant: an animation that is over was already forgotten
DestroyFading(w) ==
    /\ wins[w].life = "unmapped"
    /\ fading' = IF wins[w].fade THEN fading \ {w} ELSE fading
    /\ wins' = [wins EXCEPT ![w] = NewWin]
    /\ UNCHANGED <<shown, fx>>

\* handle_xdg_toplevel_destroy; the same model value is then another window
Destroy(w) ==
    /\ wins[w].life = "unmapped"
    /\ fading' = IF wins[w].dying THEN fading \ {w} ELSE fading
    /\ wins' = [wins EXCEPT ![w] = NewWin]
    /\ UNCHANGED <<shown, fx>>

\* any other change of the layout
Rearrange ==
    /\ \E moved \in SUBSET MappedOn(shown) : wins' = Arrange(wins, shown, moved)
    /\ UNCHANGED <<fading, shown, fx>>

\* workspace::move_to of a window on the active workspace
MoveWin(w, s) ==
    /\ w \in MappedOn(shown) /\ s # shown
    /\ \E moved \in SUBSET (MappedOn(shown) \ {w}) :
        wins' = Arrange([wins EXCEPT ![w].ws = s, ![w].node = FALSE], shown, moved)
    /\ UNCHANGED <<fading, shown, fx>>

\* The animation of a switch from workspace old to s
SlideOut(r) == [r EXCEPT !.node = TRUE, !.geo = TRUE, !.hide = TRUE, !.from = r.cur, !.to = "off"]
SlideIn(r) == [r EXCEPT !.geo = TRUE, !.hide = FALSE, !.from = "off", !.cur = "off"]
FadeOut(r) == [r EXCEPT !.node = TRUE, !.fade = TRUE, !.hide = TRUE]
FadeIn(r) == [r EXCEPT !.fade = TRUE]

Animated(W, old, s) ==
    [w \in Surface |->
        CASE w \in OnShown(W, old) /\ fx.switch = "slide" -> SlideOut(W[w])
          [] w \in OnShown(W, s) /\ fx.switch = "slide"   -> SlideIn(W[w])
          [] w \in OnShown(W, old) /\ fx.switch = "fade"  -> FadeOut(W[w])
          [] w \in OnShown(W, s) /\ fx.switch = "fade"    -> FadeIn(W[w])
          [] OTHER -> W[w]]

\* mutant: hiding is left to the animation
SweptShown(W, s) == [w \in Surface |-> IF w \in OnShown(W, s) THEN [W[w] EXCEPT !.node = TRUE] ELSE W[w]]

\* the sweep of switch_to: whatever moves, what is on the workspace is shown
Swept(W, s) == [w \in Surface |-> IF W[w].life = "mapped" THEN [W[w] EXCEPT !.node = (W[w].ws = s)]
                                                         ELSE W[w]]

\* workspace::switch_to
SwitchDesk(s) ==
    /\ s # shown /\ shown' = s
    /\ LET W == Arrange(Swept(wins, s), s, {})
       IN  wins' = IF fx.on THEN Animated(W, shown, s) ELSE W
    /\ UNCHANGED <<fading, fx>>

\* animate_step_one, at whose time the animations of ends are over
GeoStep(r, ends) ==
    LET cur == IF ends THEN r.to ELSE "mid"
        inside == r.ws = shown /\ cur # "off"
    IN  IF ~r.geo THEN r
        ELSE IF ~ends THEN [r EXCEPT !.cur = cur, !.node = inside]
        ELSE IF r.hide THEN [r EXCEPT !.geo = FALSE, !.node = FALSE, !.cur = r.from]
        ELSE [r EXCEPT !.geo = FALSE, !.cur = cur, !.node = inside /\ ~(r.dying /\ ~r.fade)]
FadeStep(r, ends) ==
    IF r.fade /\ ends THEN [r EXCEPT !.fade = FALSE, !.node = @ /\ ~(r.dying /\ ~r.geo)] ELSE r
Step(r, ends) == FadeStep(GeoStep(r, "geo" \in ends), "fade" \in ends)

\* output_frame: animate_step
AnimationFrame ==
    /\ \E ends \in [Surface -> SUBSET {"geo", "fade"}] :
        wins' = [w \in Surface |-> IF Mapped(w) \/ w \in fading THEN Step(wins[w], ends[w]) ELSE wins[w]]
    /\ UNCHANGED <<fading, shown, fx>>

Configure == fx' \in Effects /\ UNCHANGED <<wins, fading, shown>>

AnimationNext ==
    \/ \E w \in Surface : Map(w) \/ Unmap(w) \/ Destroy(w) \/ \E s \in Desk : MoveWin(w, s)
    \/ \E s \in Desk : SwitchDesk(s)
    \/ Rearrange \/ AnimationFrame \/ Configure

----------------------------------------------------------------------------
(* Properties *)

AtRest(w) == ~wins[w].geo /\ ~wins[w].fade

\* However animations are interrupted, by switches, arrangements and reloads,
\* what they leave when they are over is what the layout wants: the windows of
\* the active workspace are shown where the layout puts them, the others are
\* hidden (geo_then_hide, animate_step_one, tl_set_geometry, switch_to)
Settled ==
    \A w \in Surface : Mapped(w) /\ AtRest(w) =>
        /\ wins[w].node <=> wins[w].ws = shown
        /\ wins[w].ws = shown => wins[w].cur = "home"

\* The windows that fade out are unmapped ones that were not destroyed: the
\* frames follow no pointer to another (dying_toplevels, dying)
FadingUnmapped == \A w \in fading : wins[w].life = "unmapped"

\* A window that faded out is not left on the screen
FadedHidden == \A w \in fading : AtRest(w) => ~wins[w].node

\* Switching workspaces slides the windows of the old one off the screen, as
\* CHANGELOG.md:1141 says: they are visible while they slide (switch_to,
\* animate_step_one)
SlidesOut ==
    \A w \in Surface :
        Mapped(w) /\ wins[w].geo /\ wins[w].hide /\ wins[w].cur # "off" => wins[w].node
============================================================================
