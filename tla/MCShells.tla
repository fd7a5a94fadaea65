------------------------------ MODULE MCShells ------------------------------
(* Small instances of Shells for TLC. *)
EXTENDS MCWindowManager, Shells

CONSTANT l1

FirstX11 == {w1}
OneLayer == {l1}

ShellEvents == Flags \cup {"layers", "hover", "monitor_focus", "monitor_move"}

\* Bound: flags set at a time, on one window or on several
MaxFlags == 3

\* Either one monitor where every flag is set, or two with layer surfaces and
\* tiled windows.
DesksInit == LayersInit /\ \E monitors \in {OneOutput, Outputs} : StartWith(monitors)
DesksSpec == DesksInit /\ [][ShellsNext]_shellsVars
DesksBound ==
    IF Len(server.outputs) = 1
    THEN /\ UNCHANGED layers
         /\ Cardinality({<<w, f>> \in Window \X Flag : f \in server'.win[w].flags}) <= MaxFlags
    ELSE /\ \A w \in Window : server'.win[w].flags = {}
         /\ \A o \in Output, ws \in WS : server'.out[o].layout_mode[ws] = DefaultLayout
=============================================================================
