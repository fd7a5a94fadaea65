------------------------------ MODULE MCScreen ------------------------------
(* Instances for TLC of what is shown: Layouts, Animation, Bar and Tray, and   *)
(* ExtWorkspace, whose clients are panels.  As in MCServices, a behaviour is  *)
(* one of one of them, while the others stay in an initial state.             *)
EXTENDS Layouts, Animation, Bar, Tray, ExtWorkspace

CONSTANTS w1, w2, a1, a2, c1, c2, o1, o2, m1,
          Parts   \* the components the run is about
VARIABLE part     \* the component that moves

\* screens whose sizes do not divide evenly, with a panel, gaps and tab bars
ThreeSetups == {
    [screen |-> Box(0, 0, 15, 13), area |-> Box(0, 2, 15, 11), inner |-> 1, outer |-> 1,
     smart |-> TRUE, column |-> 50, tabs |-> "top", tab_bar |-> 2, tab_smart |-> TRUE],
    [screen |-> Box(15, 0, 14, 10), area |-> Box(15, 0, 14, 10), inner |-> 0, outer |-> 0,
     smart |-> FALSE, column |-> 100, tabs |-> "left", tab_bar |-> 3, tab_smart |-> TRUE],
    [screen |-> Box(3, 1, 17, 13), area |-> Box(4, 1, 16, 12), inner |-> 2, outer |-> 1,
     smart |-> FALSE, column |-> 30, tabs |-> "bottom", tab_bar |-> 1, tab_smart |-> FALSE] }
TwoRatios == {30, 55}

\* the default styles; windows that slide in and out, and no other animation
Styles(on, open, close, layout, switch) ==
    [on |-> on, open |-> open, close |-> close, layout |-> layout, switch |-> switch]
TwoEffects == {
    Styles(TRUE, "fade_scale", "fade", "tween", "slide"),
    Styles(TRUE, "slide", "slide", "none", "none") }
DefaultEffects == { Styles(TRUE, "fade_scale", "fade", "tween", "slide") }
TwoSurfaces == {w1, w2}

\* one item under a unique name and one under a well-known name
TwoApps == {a1, a2}
OneApp == {a2}

\* two bars that are told and one that ticks; a global one
TwoClients == {c1, c2}
BarConfigs == {
    [per_output |-> TRUE, modules |-> {"workspaces", "window_title"}],
    [per_output |-> FALSE, modules |-> {"workspaces", "custom"}],
    [per_output |-> TRUE, modules |-> {"workspaces", "window_title", "clock"}] }

OneManager == {m1}
TwoMonitors == {o1, o2}

\* the tray at one place in the first bar; at that one or another in the second
TwoStarts == [b \in TwoMonitors |-> IF b = o1 THEN {0} ELSE {0, 1}]

\* a component that does not move starts in one state
Init ==
    /\ part \in Parts /\ LayoutInit /\ AnimationInit /\ BarInit /\ TrayInit /\ ExtInit
    /\ part # "layouts" => desk.ratio = 55 /\ desk.setup.column = 50
    /\ part # "animation" => fx = Styles(TRUE, "fade_scale", "fade", "tween", "slide")
    /\ part # "bars" => Ticking
    /\ part # "tray" => last_drawn = o1 /\ \A b \in TrayBar : starts[b] = 0
    /\ part # "ext" => count = 1 /\ target = o1 /\ monitors = TwoMonitors
Next ==
    \/ part = "layouts" /\ LayoutNext /\ UNCHANGED <<part, animationVars, barVars, trayVars, extVars>>
    \/ part = "animation" /\ AnimationNext /\ UNCHANGED <<part, desk, barVars, trayVars, extVars>>
    \/ part = "bars" /\ BarNext /\ UNCHANGED <<part, desk, animationVars, trayVars, extVars>>
    \/ part = "tray" /\ TrayNext /\ UNCHANGED <<part, desk, animationVars, barVars, extVars>>
    \/ part = "ext" /\ ExtNext /\ UNCHANGED <<part, desk, animationVars, barVars, trayVars>>
Spec == Init /\ [][Next]_<<part, desk, animationVars, barVars, trayVars, extVars>>

\* Two states are the same if they differ only in what the next drawing of a bar
\* overwrites before it is read: what a bar shows that is to be drawn, and where
\* items are that are not shown, or are to be drawn in every bar
TrayView ==
    LET drawn == TrayBar \ tray_dirty
    IN  <<apps, inbox, [i \in DOMAIN items |->
             IF drawn # {} /\ i \in Visible THEN items[i] ELSE [items[i] EXCEPT !.x = 0]],
          tray_dirty, [b \in drawn |-> <<icons[b], starts[b]>>],
          IF drawn = {} THEN 0 ELSE starts[last_drawn]>>
View == <<part, desk, animationVars, barVars, TrayView, extVars>>

\* No step of any of them stores a value of the wrong type
TypesOK == AnimationTypeOK /\ BarTypeOK /\ TrayTypeOK /\ ExtTypeOK
==============================================================================
