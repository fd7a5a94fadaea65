----------------------------- MODULE Placement -----------------------------
(***************************************************************************)
(* What the window manager promises about where windows are.  Every open   *)
(* window is in one place: on a workspace of a monitor, or in a            *)
(* scratchpad.  Only the window that has the keyboard moves, one at a      *)
(* time, except that a monitor that goes away hands all of its windows to  *)
(* one other monitor, workspace by workspace, or, when it was the last, to *)
(* no monitor until one is connected.                                      *)
(***************************************************************************)
CONSTANTS Window, Output, WS, Pad, NoWindow, NoOutput

VARIABLES home, focus, monitors

Closed == <<"closed">>
On(o, ws) == <<"on", o, ws>>
In(p) == <<"pad", p>>

\* Windows are on no monitor only while there is none.
Hosts(M) == IF M = {} THEN {NoOutput} ELSE M
Homes(M) == {On(o, ws) : o \in Hosts(M), ws \in WS} \cup {In(p) : p \in Pad}

Init ==
    /\ home = [w \in Window |-> Closed]
    /\ focus = NoWindow
    /\ monitors \in SUBSET Output

Attend == focus' \in Window \cup {NoWindow}

Open(w) ==
    /\ home[w] = Closed
    /\ \E h \in Homes(monitors) : home' = [home EXCEPT ![w] = h]
    /\ UNCHANGED monitors

Close(w) ==
    /\ home[w] # Closed
    /\ home' = [home EXCEPT ![w] = Closed]
    /\ UNCHANGED monitors

Move(w) ==
    /\ w = focus
    /\ home[w] # Closed
    /\ \E h \in Homes(monitors) : home' = [home EXCEPT ![w] = h]
    /\ UNCHANGED monitors

\* All windows of one host go to another and keep their workspace.
Evacuate(o, to) ==
    home' = [w \in Window |->
                IF \E ws \in WS : home[w] = On(o, ws)
                THEN On(to, CHOOSE ws \in WS : home[w] = On(o, ws))
                ELSE home[w]]

Disconnect(o) ==
    /\ o \in monitors
    /\ monitors' = monitors \ {o}
    /\ \E to \in Hosts(monitors') : Evacuate(o, to)

Connect(o) ==
    /\ o \notin monitors
    /\ monitors' = monitors \cup {o}
    /\ Evacuate(NoOutput, o)

Next ==
    /\ Attend
    /\ \/ \E w \in Window : Open(w) \/ Close(w) \/ Move(w)
       \/ \E o \in Output : Disconnect(o) \/ Connect(o)
       \/ UNCHANGED <<home, monitors>>

Spec == Init /\ [][Next]_<<home, focus, monitors>>

============================================================================
