------------------------------ MODULE HotCorners ------------------------------
(***************************************************************************)
(* Hot corners (src/cursor.cpp): a corner of a monitor runs a Lua function *)
(* when the pointer has rested in it.  One timer, one active corner and one *)
(* set of corners that have fired serve all monitors; they are updated by  *)
(* the motions that reach process_hot_corners, which those of a grab do    *)
(* not, while monitors come and go and reloads change what corners do.  A  *)
(* delay passes when the timer fires: how long that takes is left open.    *)
(***************************************************************************)
EXTENDS Naturals

CONSTANTS
    Monitor,      \* monitors; one that was destroyed leaves its address to the next
    Corner,
    NoMonitor, NoCorner,
    CornerSettings   \* what a reload may make of the corners: hot_corner_size > 0, and
                     \* for each monitor and corner its action: "none", "at_once", "dwell"

ASSUME HotCornersAssumption ==
    /\ NoMonitor \notin Monitor /\ NoCorner \notin Corner
    /\ CornerSettings \subseteq
          [size : BOOLEAN, does : [Monitor \X Corner -> {"none", "at_once", "dwell"}]]

VARIABLES
    monitors,           \* server->outputs
    cursor,          \* where the pointer is: a monitor, or none, and a corner of it, or none
    grabbed,         \* motions go to a grab or to a drag in the overview
    corner_config,
    hot_corner,      \* hot_corner_active, _output, _cooldown, _timer (armed)
    spent,           \* the corners that ran since the pointer entered them last
    again,           \* one of them ran a second time
    lost_monitor        \* the timer followed the pointer to a monitor that is gone

cornerVars == <<monitors, cursor, grabbed, corner_config, hot_corner, spent, again, lost_monitor>>

Zone == (Monitor \cup {NoMonitor}) \X (Corner \cup {NoCorner})

CornerTypeOK ==
    /\ monitors \subseteq Monitor
    /\ cursor \in Zone
    /\ grabbed \in BOOLEAN
    /\ corner_config \in CornerSettings
    /\ hot_corner \in [active : Corner \cup {NoCorner}, output : Monitor \cup {NoMonitor},
                       cooldown : SUBSET Corner, armed : BOOLEAN]
    /\ spent \subseteq Monitor \X Corner
    /\ again \in BOOLEAN /\ lost_monitor \in BOOLEAN

CornerInit ==
    /\ monitors = Monitor
    /\ cursor \in Monitor \X {NoCorner}
    /\ grabbed = FALSE
    /\ corner_config \in CornerSettings
    /\ hot_corner = [active |-> NoCorner, output |-> NoMonitor, cooldown |-> {}, armed |-> FALSE]
    /\ spent = {} /\ again = FALSE /\ lost_monitor = FALSE

\* mutant: the corner is left to be entered again, instead of marked
FiredForgets(h) == [h EXCEPT !.armed = FALSE, !.active = NoCorner]

\* hot_corner_timer_cb marks the corner, and runs its function if it has one
Fired(h) == [h EXCEPT !.armed = FALSE, !.cooldown = @ \cup {h.active}]

Runs(zone) == corner_config.does[zone] # "none"

Fire(h, visited) ==
    LET zone == <<h.output, h.active>>
    IN /\ hot_corner' = Fired(h)
       /\ spent' = visited \cup {z \in {zone} : Runs(z)}
       /\ again' = (again \/ (Runs(zone) /\ zone \in visited))

\* process_hot_corners: the pointer is in no corner, in one that has fired and was
\* not seen left, or in one that acts at once, after its delay, or not at all
LeaveCorners(visited) ==
    /\ hot_corner' = [hot_corner EXCEPT !.armed = FALSE, !.active = NoCorner, !.output = NoMonitor,
                                        !.cooldown = @ \ {hot_corner.active}]
    /\ spent' = visited /\ UNCHANGED again

EnterCorner(o, c, visited) ==
    LET entered == [hot_corner EXCEPT !.active = c, !.output = o, !.armed = FALSE]
        does == IF c \in hot_corner.cooldown THEN "none" ELSE corner_config.does[<<o, c>>]
    IN \/ does = "none" /\ hot_corner' = entered /\ spent' = visited /\ UNCHANGED again
       \/ does = "dwell" /\ hot_corner' = [entered EXCEPT !.armed = TRUE]
                         /\ spent' = visited /\ UNCHANGED again
       \/ does = "at_once" /\ Fire(entered, visited)

ProcessHotCorners(o, c, visited) ==
    IF \/ ~corner_config.size \/ o = NoMonitor
       \/ c = hot_corner.active /\ o = hot_corner.output
    THEN spent' = visited /\ UNCHANGED <<hot_corner, again>>
    ELSE IF c = NoCorner THEN LeaveCorners(visited) ELSE EnterCorner(o, c, visited)

\* process_cursor_motion, of a motion the user made
Motion(o, c) ==
    LET visited == IF <<o, c>> = cursor THEN spent ELSE spent \ {<<o, c>>}
    IN /\ ~lost_monitor
       /\ o = NoMonitor => monitors = {} /\ c = NoCorner
       /\ o # NoMonitor => o \in monitors
       /\ cursor' = <<o, c>>
       /\ IF grabbed THEN spent' = visited /\ UNCHANGED <<hot_corner, again>>
                     ELSE ProcessHotCorners(o, c, visited)
       /\ UNCHANGED <<monitors, grabbed, corner_config, lost_monitor>>

DwellTimer ==
    /\ ~lost_monitor /\ hot_corner.armed
    /\ IF hot_corner.output \in monitors
       THEN Fire(hot_corner, spent) /\ UNCHANGED lost_monitor
       ELSE lost_monitor' = TRUE /\ UNCHANGED <<hot_corner, spent, again>>
    /\ UNCHANGED <<monitors, cursor, grabbed, corner_config>>

\* a button that grabs a window, and its release
Grab ==
    /\ ~lost_monitor /\ grabbed' = ~grabbed
    /\ UNCHANGED <<monitors, cursor, corner_config, hot_corner, spent, again, lost_monitor>>

\* the configuration is read again; the state of the corners stays
ReloadCorners ==
    /\ ~lost_monitor /\ corner_config' \in CornerSettings
    /\ UNCHANGED <<monitors, cursor, grabbed, hot_corner, spent, again, lost_monitor>>

\* output_destroy and server_new_output know nothing of corners; wlroots puts the
\* pointer of a monitor that is gone on another one, without a motion
UnplugMonitor(o) ==
    /\ ~lost_monitor /\ o \in monitors
    /\ monitors' = monitors \ {o}
    /\ IF cursor[1] # o THEN UNCHANGED cursor
       ELSE cursor' \in (IF monitors' = {} THEN {NoMonitor} ELSE monitors') \X {NoCorner}
    /\ UNCHANGED <<grabbed, corner_config, hot_corner, spent, again, lost_monitor>>

PlugMonitor(o) ==
    /\ ~lost_monitor /\ o \notin monitors
    /\ monitors' = monitors \cup {o}
    /\ UNCHANGED <<cursor, grabbed, corner_config, hot_corner, spent, again, lost_monitor>>

CornerNext ==
    \/ \E o \in Monitor \cup {NoMonitor}, c \in Corner \cup {NoCorner} : Motion(o, c)
    \/ DwellTimer \/ Grab \/ ReloadCorners
    \/ \E o \in Monitor : UnplugMonitor(o) \/ PlugMonitor(o)

CornerSpec == CornerInit /\ [][CornerNext]_cornerVars

-----------------------------------------------------------------------------

\* "Each corner fires at most once per entry" (CHANGELOG), also when motions are
\* swallowed by a grab, the pointer hops from corner to corner, or a reload or a
\* monitor comes in between.
OncePerEntry == ~again

\* hot_corner_cooldown holds "corners that fired and haven't been left" (nnwm.hpp:367):
\* fails when the pointer goes from a corner to another without a motion in between.
CooldownLeft == hot_corner.cooldown \subseteq {hot_corner.active}

\* A corner runs only while the pointer is in it: fails when a grab takes it away.
RunsUnderPointer ==
    [][ \A z \in spent' \ spent : cursor' = z ]_cornerVars

\* The timer never follows a pointer to a monitor that is gone: fails when the
\* monitor of the active corner is unplugged before the delay has passed.
MonitorAlive == ~lost_monitor

=============================================================================
