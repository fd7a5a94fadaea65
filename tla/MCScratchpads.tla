---------------------------- MODULE MCScratchpads ----------------------------
(* WindowManager for TLC, in one of two stories: three windows go in and out   *)
(* of the global scratchpad on a monitor that stays, or two windows live on    *)
(* monitors that are plugged and unplugged.                                    *)
EXTENDS MCWindowManager

VARIABLE story

OnlyGlobal ==
    /\ server'.shown_pads \subseteq {Global}
    /\ \A w \in Window : server'.win[w].tree \in {"windows", Global}

NoPad ==
    /\ server'.shown_pads = {}
    /\ \A w \in Window : server'.win[w].tree = "windows"

Stays ==
    /\ story = "stays"
    /\ ClientStep \/ PointerStep \/ UserStep
    /\ OnlyGlobal

Goes ==
    /\ story = "goes"
    /\ Next
    /\ NoPad
    /\ Cardinality({w \in Window : server'.win[w].life # "free"}) <= 2

\* A scratchpad leaves a dangling pointer in last_focused, and following it ends its
\* story.  The other story is to end nowhere: a crash in it is reported as a deadlock.
Stopped == story = "stays" /\ server.crashed /\ UNCHANGED server

PadsInit == story \in {"stays", "goes"} /\ StartWith(OneOutput)
PadsNext == (Stays \/ Goes \/ Stopped) /\ UNCHANGED story
PadsSpec == PadsInit /\ [][PadsNext]_<<story, server>>

\* Only the window with the keyboard moves, into a scratchpad, out of it, or to
\* another workspace: as in Placement, on the monitor that stays.
PadsKeepPlacement ==
    [][ story = "stays" => [P!Next]_<<[w \in Window |-> Home(w)], server.kb_focus, Live(server)>> ]_server
==============================================================================
