---------------------------- MODULE ExtWorkspace ----------------------------
(***************************************************************************)
(* ext-workspace-v1 (src/ext_workspace.cpp): a client that binds the        *)
(* manager gets one group per output and one handle per workspace, and is   *)
(* told which workspace each output shows.  Handles outlive the workspaces  *)
(* they stand for until the client destroys them, groups outlive their      *)
(* output.  An element of Monitor is an output for its whole life; one that *)
(* is plugged again is another element.                                     *)
(***************************************************************************)
EXTENDS Naturals, SequencesExt

CONSTANTS
    Manager,     \* bindings of the global by clients
    Monitor,     \* outputs
    MaxCount,    \* workspaces a configuration may have
    MaxHandles   \* bound: handles in a group

ASSUME ExtAssumption == MaxCount \in Nat \ {0} /\ MaxHandles \in Nat

VARIABLES
    count,      \* config->workspace_count
    monitors,   \* nnwm_server::outputs
    current,    \* active_workspace of each output
    previous,   \* prev_workspace of each output
    target,     \* focused_output
    bound,      \* managers that exist
    groups,     \* for each manager, the outputs it has a group for
    handles,    \* for each manager and output, the handles of the group
    misused     \* a pointer to a freed output was followed

extVars == <<count, monitors, current, previous, target, bound, groups, handles, misused>>

Index == 0 .. MaxCount - 1
\* nnwm_ext_workspace, and the state the client was last sent
HandleState == [index : Index, removed : BOOLEAN, active : BOOLEAN]

ExtTypeOK ==
    /\ count \in 1 .. MaxCount
    /\ monitors \subseteq Monitor /\ target \in Monitor
    /\ current \in [Monitor -> Index] /\ previous \in [Monitor -> Index]
    /\ bound \subseteq Manager
    /\ groups \in [Manager -> SUBSET Monitor]
    /\ handles \in [Manager -> [Monitor -> Seq(HandleState)]]
    /\ misused \in BOOLEAN

ExtInit ==
    /\ count \in 1 .. MaxCount
    /\ monitors \in (SUBSET Monitor) \ {{}}
    /\ target \in monitors
    /\ current = [o \in Monitor |-> 0] /\ previous = [o \in Monitor |-> 0]
    /\ bound = {}
    /\ groups = [m \in Manager |-> {}]
    /\ handles = [m \in Manager |-> [o \in Monitor |-> <<>>]]
    /\ misused = FALSE

\* handles for the workspaces from..n-1, as they are announced
Announced(from, n, active) ==
    [j \in 1 .. n - from |->
        [index |-> from + j - 1, removed |-> FALSE, active |-> active = from + j - 1]]

\* ext_workspace_manager_bind
Bind(m) ==
    /\ m \notin bound
    /\ bound' = bound \cup {m}
    /\ groups' = [groups EXCEPT ![m] = monitors]
    /\ handles' = [handles EXCEPT ![m] = [o \in Monitor |->
                       IF o \in monitors THEN Announced(0, count, current[o]) ELSE <<>>]]
    /\ UNCHANGED <<count, monitors, current, previous, target, misused>>

\* the outputs every walk over the managers' groups reads
Reads == UNION {groups[m] : m \in bound}

\* mutant: only the workspace that is active now
SentActive(h, w) == IF h.index = w THEN [h EXCEPT !.active = TRUE] ELSE h

\* ext_workspace_notify: every handle that is not removed is sent its state
SentState(h, w) == IF h.removed THEN h ELSE [h EXCEPT !.active = (h.index = w)]

Notified(active) ==
    [m \in Manager |-> [o \in Monitor |->
        [i \in DOMAIN handles[m][o] |-> SentState(handles[m][o][i], active[o])]]]

Notify ==
    /\ handles' = Notified(current')
    /\ misused' = (misused \/ ~(Reads \subseteq monitors))

\* workspace::switch_to on the focused output o, with workspace_back_and_forth
Show(o, w) ==
    /\ current' = [current EXCEPT ![o] = w]
    /\ previous' = [previous EXCEPT ![o] = current[o]]
    /\ Notify
    /\ UNCHANGED <<count, monitors, bound, groups>>

SwitchTo(o, w) ==
    /\ w < count
    /\ \/ w # current[o] /\ Show(o, w)
       \/ w = current[o] /\ previous[o] # w /\ Show(o, previous[o])
       \/ /\ w = current[o] /\ previous[o] = w
          /\ UNCHANGED <<count, monitors, current, previous, bound, groups, handles, misused>>

\* ov_switch_ws, which leaves prev_workspace alone
OverviewSwitch(o, w) ==
    /\ o \in monitors /\ w < count /\ w # current[o]
    /\ current' = [current EXCEPT ![o] = w]
    /\ Notify
    /\ UNCHANGED <<count, monitors, previous, target, bound, groups>>

\* the user focuses an output, or switches its workspace
Focus(o) ==
    /\ o \in monitors \ {target}
    /\ target' = o
    /\ UNCHANGED <<count, monitors, current, previous, bound, groups, handles, misused>>

UserSwitch(w) ==
    /\ target \in monitors
    /\ SwitchTo(target, w) /\ UNCHANGED target

\* workspace_handle_activate: the output of the group becomes the focused one
Activate(m, o, i) ==
    /\ m \in bound /\ o \in groups[m] /\ i \in DOMAIN handles[m][o]
    /\ ~handles[m][o][i].removed
    /\ target' = o
    /\ \/ o \in monitors /\ SwitchTo(o, handles[m][o][i].index)
       \/ /\ o \notin monitors
          /\ misused' = TRUE
          /\ UNCHANGED <<count, monitors, current, previous, bound, groups, handles>>

\* workspace_resource_destroy, group_resource_destroy, manager_resource_destroy,
\* by a request of the client or with it
HandleDestroy(m, o, i) ==
    /\ m \in bound /\ o \in groups[m] /\ i \in DOMAIN handles[m][o]
    /\ handles' = [handles EXCEPT ![m][o] = RemoveAt(@, i)]
    /\ UNCHANGED <<count, monitors, current, previous, target, bound, groups, misused>>

GroupDestroy(m, o) ==
    /\ m \in bound /\ o \in groups[m]
    /\ groups' = [groups EXCEPT ![m] = @ \ {o}]
    /\ handles' = [handles EXCEPT ![m][o] = <<>>]
    /\ UNCHANGED <<count, monitors, current, previous, target, bound, misused>>

ManagerDestroy(m) ==
    /\ m \in bound
    /\ bound' = bound \ {m}
    /\ groups' = [groups EXCEPT ![m] = {}]
    /\ handles' = [handles EXCEPT ![m] = [o \in Monitor |-> <<>>]]
    /\ UNCHANGED <<count, monitors, current, previous, target, misused>>

\* lua_reload: outputs are moved to the last workspace there is, then
\* ext_workspace_rebuild removes the handles past it and announces new ones
Clamped(ws, n) == [o \in Monitor |-> IF ws[o] >= n THEN n - 1 ELSE ws[o]]

Marked(h, n) == IF h.index >= n THEN [h EXCEPT !.removed = TRUE] ELSE h

\* mutant: as many as there are
NextIndexByLength(hs) == Len(hs)

NextIndex(hs) ==
    Max({0} \cup {hs[i].index + 1 : i \in {j \in DOMAIN hs : ~hs[j].removed}})

Rebuilt(hs, n, active) ==
    LET kept == [i \in DOMAIN hs |-> Marked(hs[i], n)]
    IN  kept \o Announced(NextIndex(kept), n, active)

ReloadCount(n) ==
    /\ count' = n
    /\ current' = Clamped(current, n)
    /\ previous' = Clamped(previous, n)
    /\ handles' = [m \in Manager |-> [o \in Monitor |->
                     IF o \in groups[m] THEN Rebuilt(handles[m][o], n, current'[o])
                     ELSE <<>>]]
    /\ \A m \in Manager, o \in Monitor : Len(handles'[m][o]) <= MaxHandles
    /\ misused' = (misused \/ \E m \in bound : \E o \in groups[m] \ monitors :
                      Len(handles'[m][o]) > Len(handles[m][o]))
    /\ UNCHANGED <<monitors, target, bound, groups>>

\* output.cpp: nothing tells the managers that an output came or went; the focus
\* moves to another output
Plug(o) ==
    /\ o \notin monitors
    /\ \A m \in bound : o \notin groups[m]
    /\ monitors' = monitors \cup {o}
    /\ current' = [current EXCEPT ![o] = 0] /\ previous' = [previous EXCEPT ![o] = 0]
    /\ UNCHANGED <<count, target, bound, groups, handles, misused>>

Unplug(o) ==
    /\ o \in monitors /\ monitors # {o}
    /\ monitors' = monitors \ {o}
    /\ target' \in IF target = o THEN monitors' ELSE {target}
    /\ UNCHANGED <<count, current, previous, bound, groups, handles, misused>>

ExtNext ==
    \/ \E m \in Manager :
           \/ Bind(m) \/ ManagerDestroy(m)
           \/ \E o \in Monitor :
                  \/ GroupDestroy(m, o)
                  \/ \E i \in DOMAIN handles[m][o] :
                         Activate(m, o, i) \/ HandleDestroy(m, o, i)
    \/ \E w \in Index : UserSwitch(w) \/ \E o \in Monitor : OverviewSwitch(o, w)
    \/ \E o \in Monitor : Focus(o) \/ Plug(o) \/ Unplug(o)
    \/ \E n \in 1 .. MaxCount : ReloadCount(n)

ExtSpec == ExtInit /\ [][ExtNext]_extVars

-----------------------------------------------------------------------------

\* Of the handles of a group that are not removed no two stand for the same
\* workspace and each stands for one that exists: however reloads and the client's
\* destroy requests alternate, an activate request never names a workspace twice
\* or one past the end.
HandlesMatch ==
    \A m \in bound : \A o \in groups[m] :
        LET live == {i \in DOMAIN handles[m][o] : ~handles[m][o][i].removed}
        IN  /\ \A i \in live : handles[m][o][i].index < count
            /\ \A i, j \in live : handles[m][o][i].index = handles[m][o][j].index => i = j

\* The clients show what the outputs show, after a reload too ("handles are rebuilt
\* live", CHANGELOG).
ViewCurrent ==
    \A m \in bound : \A o \in groups[m] : \A i \in DOMAIN handles[m][o] :
        ~handles[m][o][i].removed =>
            handles[m][o][i].active = (current[o] = handles[m][o][i].index)

\* A switch, by the user, a client or the overview, leaves every client showing
\* the workspaces the outputs show, also those a reload moved an output to, of
\* which it was not told.
SwitchesSeen ==
    [][ current' # current /\ <<count, monitors>>' = <<count, monitors>>
        => ViewCurrent' ]_extVars

\* "one workspace group per connected output" (CHANGELOG).
GroupPerOutput == \A m \in bound : groups[m] = monitors

\* No request and no notification follows a pointer to an output that is gone.
OutputsAlive == ~misused

=============================================================================
