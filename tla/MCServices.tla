------------------------------ MODULE MCServices ------------------------------
(* Instances for TLC of the components beside the windows: Keyboard (with the  *)
(* session lock and idle detection), Timers, Ipc, Scripts and HotCorners.  They  *)
(* share no state, so a behaviour is one of one of them, while the others stay *)
(* in an initial state: the instance has the sum of their states, not the      *)
(* product.                                                                    *)
EXTENDS Keyboard, Timers, Ipc, Scripts, HotCorners

CONSTANT Services   \* the components the run is about
VARIABLE service    \* the component that moves

CONSTANTS k1, a, esc, vt, l1, l2, s1, s2, t1, t2, h1, h2

\* one keyboard; a bound and an unbound key, escape, a VT switch
OneKeyboard == {k1}
Keys == {a, esc, vt}
VtKeys == {vt}
Binds(ba, be, on) ==
    [bind |-> [x \in Keys |-> CASE x = a -> ba [] x = esc -> be [] OTHER -> "unbound"],
     repeat_delay |-> on, repeat_rate |-> TRUE, idle_timeout |-> on]
Configs == { Binds("repeat", "unbound", TRUE), Binds("no_repeat", "repeat", FALSE) }
TwoLocks == {l1, l2}
TwoScreens == {s1, s2}

\* two timers; their callbacks pause and resume them, or cancel them
TwoTimers == {t1, t2}
TwoHandles == {h1, h2}
Periods == {1, 2}
PauseOwn == {"pause", "resume"}
CancelOwn == {"cancel"}

\* lines that fit the buffers, one too long, and more replies than they hold
SomeRequests == {<<1>>, <<1, 1>>, <<2, 1>>, <<1, 3, 1>>, <<1, 1, 1>>, <<1, 1, 1, 1>>}

\* a hook; functions may cause another event and hook it; two rules for a kind
\* of window
TwoEvents == {"open", "focus"}
OpenHooks == <<"open">>
TwoAppIds == {"foot", "mpv"}
FootRules == <<"foot", "foot">>

\* two monitors with two corners; corners that wait or act at once, or none do
TwoMonitors == {s1, s2}
TwoCorners == {"TL", "TR"}
DwellOrAtOnce(on) ==
    [size |-> on, does |-> [z \in TwoMonitors \X TwoCorners |->
                              IF z = <<s2, "TR">> THEN "at_once" ELSE "dwell"]]
NoActions == [size |-> TRUE, does |-> [z \in TwoMonitors \X TwoCorners |-> "none"]]
SomeSettings == {DwellOrAtOnce(TRUE), DwellOrAtOnce(FALSE), NoActions}

Init ==
    /\ service \in Services
    /\ SeatInit /\ TimerInit /\ IpcInit /\ ScriptInit /\ CornerInit
    /\ service # "seat" => ~idle_timeout /\ screens = {s1} /\ config.bind[esc] = "repeat"
    /\ service # "ipc" => lines = <<1>>
    /\ service # "corners" => cursor[1] = s1 /\ corner_config = NoActions

Next ==
    \/ service = "seat" /\ SeatNext /\ UNCHANGED <<service, timerVars, ipcVars, scriptVars, cornerVars>>
    \/ service = "timers" /\ TimerNext /\ UNCHANGED <<service, seatVars, ipcVars, scriptVars, cornerVars>>
    \/ service = "ipc" /\ IpcNext /\ UNCHANGED <<service, seatVars, timerVars, scriptVars, cornerVars>>
    \/ service = "scripts" /\ ScriptNext /\ UNCHANGED <<service, seatVars, timerVars, ipcVars, cornerVars>>
    \/ service = "corners" /\ CornerNext /\ UNCHANGED <<service, seatVars, timerVars, ipcVars, scriptVars>>

\* no timer is due in an initial state, so that the fairness of the timers asks
\* nothing of the other components
Spec ==
    /\ Init /\ [][Next]_<<service, seatVars, timerVars, ipcVars, scriptVars, cornerVars>>
    /\ TimerFairness
    /\ service = "ipc" => IpcFairness

\* No step of any of them stores a value of the wrong type
TypesOK == SeatTypeOK /\ TimerTypeOK /\ IpcTypeOK /\ ScriptTypeOK /\ CornerTypeOK
==============================================================================
