-------------------------- MODULE MCWindowManager --------------------------
(***************************************************************************)
(* Small instances of WindowManager for TLC.  Windows (and, where no rule  *)
(* names one, outputs) are interchangeable, so both are symmetry sets.     *)
(***************************************************************************)
EXTENDS WindowManagerDocs

CONSTANTS w1, w2, w3, o1, o2

Windows == {w1, w2, w3}
TwoWindows == {w1, w2}
Outputs == {o1, o2}
OneOutput == {o1}

NoRule == [on |-> {}, off |-> {}, workspace |-> NoWorkspace,
           monitor |-> NoOutput, focused |-> FALSE]
NoRules == {NoRule}
FloatRule == [NoRule EXCEPT !.on = {"floating"}]
FloatRules == {NoRule, FloatRule}
FocusRule == [NoRule EXCEPT !.workspace = 1, !.focused = TRUE]
AllRules == {NoRule, FloatRule, FocusRule, [FocusRule EXCEPT !.monitor = o1]}

NoPads == {}
NoLayers == {}
OneNamedPad == {"term"}

AllWindows == Permutations(Windows)
BothWindows == Permutations(TwoWindows)
AllWindowsAndOutputs == AllWindows \cup Permutations(Outputs)
BothWindowsAndOutputs == BothWindows \cup Permutations(Outputs)

\* Kinds of event
Tiling == {"switch", "move_to", "monitor_focus", "monitor_move", "focus",
           "swap", "click", "hover"}
Layouts == {"switch", "move_to", "focus", "click", "swap", "floating", "dialog",
            "layout", "tile", "tabbed", "scroll", "float"}
Commands == Tiling \cup Layouts
Flags == {"switch", "move_to", "focus", "click", "layout", "tile", "tabbed",
          "floating", "fullscreen", "fake_fullscreen", "sticky", "dialog",
          "request_fullscreen"}
Hotplug == {"switch", "move_to", "monitor_focus", "monitor_move", "click",
            "hover", "plug", "unplug", "vt", "activate"}
Outages == {"disable", "unplug", "plug", "monitor_focus", "named", "vt", "activate",
            "request_fullscreen"}
Pads == {"switch", "move_to", "focus", "click", "scratchpad"}
PadsAndHotplug == Pads \cup Hotplug

\* Either one monitor with every layout and floating windows, or several where
\* all windows are tiled.
TilingInit == \E monitors \in {OneOutput, Outputs} : StartWith(monitors)
TilingSpec == TilingInit /\ [][Next]_vars
TilingBound ==
    Len(server.outputs) > 1 =>
        /\ \A w \in Window : "floating" \notin server'.win[w].flags
        /\ \A o \in Output : \A s \in 0..(NumWs - 1) : server'.out[o].layout_mode[s] = DefaultLayout
============================================================================
