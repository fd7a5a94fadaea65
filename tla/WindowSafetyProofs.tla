------------------------- MODULE WindowSafetyProofs -------------------------
(***************************************************************************)
(* What the window manager keeps safe, proved by cases on what a callback  *)
(* can do to the windows (Callback of WindowManagerProofs): no window is   *)
(* left on a monitor that is gone, no remembered pointer goes stale, no    *)
(* pointer that dangles is followed, the keyboard stays on a mapped        *)
(* window, scratchpads are whole, and the callbacks implement Placement.   *)
(*                                                                         *)
(* Some hold only where certain events do not occur: that is part of each  *)
(* statement, and README.md says what goes wrong otherwise.                *)
(***************************************************************************)
EXTENDS WindowManagerProofs

----------------------------------------------------------------------------
(* Where a window that moves goes, field by field *)

\* x is a state in which w may be after the user moved it: to a workspace, to a
\* monitor or to a scratchpad.
Goes(s, w, x) ==
    /\ x.life = "linked"
    /\ x.output \in Live(s) \cup {s.win[w].output}
    /\ \/ /\ x.in_scratchpad = FALSE /\ x.tree = "windows"
          /\ x.scratchpad_name = s.win[w].scratchpad_name
       \/ /\ x.in_scratchpad = s.win[w].in_scratchpad
          /\ x.tree = s.win[w].tree /\ x.enabled = TRUE
          /\ x.scratchpad_name = s.win[w].scratchpad_name
       \/ \E p \in Pad :
             /\ PadEvent(p) \in Events
             /\ x.in_scratchpad = TRUE /\ x.tree = p
             /\ x.scratchpad_name = IF p = Global THEN s.win[w].scratchpad_name
                                    ELSE p
             /\ p \in s.shown_pads => x.enabled = TRUE

\* The user moves a window to a workspace, to a monitor or to a scratchpad.
LEMMA SentFields ==
    ASSUME NEW s, Good(s), NEW t, NEW w, Sends(s, t, w)
    PROVE  \E x \in Toplevel : Puts(s, t, w, x) /\ Goes(s, w, x)
<1> DEFINE x0 == s.win[w]
<1>1. x0 \in Toplevel /\ x0.life = "linked"
  BY DEF Sends, Linked, Good, ServerState
<1>2. CASE SendsToWorkspace(s, t, w)
  <2>1. PICK ws \in WS, b \in BOOLEAN :
           Puts(s, t, w, [x0 EXCEPT !.in_scratchpad = FALSE, !.tree = "windows",
                                    !.workspace = ws, !.enabled = b])
    BY <1>2 DEF SendsToWorkspace
  <2> DEFINE x == [x0 EXCEPT !.in_scratchpad = FALSE, !.tree = "windows",
                             !.workspace = ws, !.enabled = b]
  <2> HIDE DEF x0
  <2>2. /\ x \in Toplevel /\ x.life = "linked" /\ x.output = x0.output
        /\ x.in_scratchpad = FALSE /\ x.tree = "windows"
        /\ x.scratchpad_name = x0.scratchpad_name
    BY <1>1 DEF Toplevel
  <2> HIDE DEF x
  <2>3. Puts(s, t, w, x)
    BY <2>1 DEF x
  <2> QED
    BY <2>2, <2>3 DEF x0, Goes
<1>3. CASE SendsToMonitor(s, t, w)
  <2>1. PICK o \in Live(s), ws \in WS :
           Puts(s, t, w, [x0 EXCEPT !.output = o, !.enabled = TRUE, !.workspace = ws])
    BY <1>3 DEF SendsToMonitor
  <2>2. o \in Output
    BY ListedWindows DEF Good
  <2> DEFINE x == [x0 EXCEPT !.output = o, !.enabled = TRUE, !.workspace = ws]
  <2> HIDE DEF x0
  <2>3. /\ x \in Toplevel /\ x.life = "linked" /\ x.output = o
        /\ x.in_scratchpad = x0.in_scratchpad /\ x.tree = x0.tree
        /\ x.scratchpad_name = x0.scratchpad_name /\ x.enabled = TRUE
    BY <1>1, <2>2 DEF Toplevel
  <2> HIDE DEF x
  <2>4. Puts(s, t, w, x)
    BY <2>1 DEF x
  <2> QED
    BY <2>3, <2>4 DEF x0, Goes
<1>4. ASSUME NEW p \in Pad, Hides(s, t, w, p)
      PROVE  \E x \in Toplevel :
                /\ Puts(s, t, w, x)
                /\ x.life = "linked" /\ x.output = x0.output
                /\ PadEvent(p) \in Events
                /\ x.in_scratchpad = TRUE /\ x.tree = p
                /\ x.scratchpad_name = IF p = Global THEN x0.scratchpad_name ELSE p
                /\ p \in s.shown_pads => x.enabled = TRUE
  <2> DEFINE n == IF p = Global THEN x0.scratchpad_name ELSE p
             e == p \in s.shown_pads
  <2>1. PICK f \in SUBSET Flag :
           Puts(s, t, w, [x0 EXCEPT !.in_scratchpad = TRUE,
                                    !.scratchpad_name = IF p = Global THEN @ ELSE p,
                                    !.flags = f, !.tree = p, !.enabled = e])
    BY <1>4 DEF Hides
  <2> DEFINE y == [x0 EXCEPT !.in_scratchpad = TRUE, !.scratchpad_name = n,
                             !.flags = f, !.tree = p, !.enabled = e]
  <2>2. Puts(s, t, w, y)
    BY <1>1, <2>1 DEF Toplevel
  <2>3. n \in Pad /\ e \in BOOLEAN
    BY <1>1, <1>4 DEF Toplevel
  <2>4. (e = TRUE <=> p \in s.shown_pads)
    OBVIOUS
  <2> HIDE DEF x0, n, e
  <2>5. /\ y \in Toplevel /\ y.life = "linked" /\ y.output = x0.output
        /\ y.in_scratchpad = TRUE /\ y.tree = p /\ y.scratchpad_name = n
        /\ y.enabled = e
    BY <1>1, <2>3 DEF Toplevel
  <2> HIDE DEF y
  <2>6. PadEvent(p) \in Events
    BY <1>4 DEF Hides
  <2> QED
    BY <2>2, <2>4, <2>5, <2>6 DEF n
<1>5. ASSUME NEW p \in Pad, Hides(s, t, w, p)
      PROVE  \E x \in Toplevel : Puts(s, t, w, x) /\ Goes(s, w, x)
  BY <1>4, <1>5 DEF x0, Goes
<1> HIDE DEF x0
<1> QED
  BY <1>2, <1>3, <1>5 DEF Sends

\* A window object that is made or deleted is not mapped and in no scratchpad.
LEMMA MadeFields ==
    ASSUME NEW s, Good(s), NEW t, NEW w \in Window, Makes(s, t, w)
    PROVE  \E x :
              /\ Puts(s, t, w, x)
              /\ x.life \in {"free", "fresh"}
              /\ \/ /\ s.win[w].life = "free"
                    /\ x.in_scratchpad = s.win[w].in_scratchpad
                    /\ x.scratchpad_name = s.win[w].scratchpad_name
                    /\ x.tree = s.win[w].tree /\ x.enabled = s.win[w].enabled
                 \/ /\ x.in_scratchpad = FALSE /\ x.scratchpad_name = Global
                    /\ x.tree = "windows" /\ x.enabled = TRUE
<1> DEFINE x0 == s.win[w]
           x == [x0 EXCEPT !.life = "fresh"]
           n == NewToplevelState
<1>1. x0 \in Toplevel
  BY DEF Good, ServerState
<1>2. /\ n.life = "free" /\ n.in_scratchpad = FALSE
      /\ n.scratchpad_name = Global /\ n.tree = "windows" /\ n.enabled = TRUE
  BY DEF NewToplevelState
<1>3. (Puts(s, t, w, x) /\ x0.life = "free") \/ Puts(s, t, w, n)
  BY DEF Makes
<1> HIDE DEF x0, n
<1>4. /\ x.life = "fresh" /\ x.in_scratchpad = x0.in_scratchpad
      /\ x.scratchpad_name = x0.scratchpad_name
      /\ x.tree = x0.tree /\ x.enabled = x0.enabled
  BY <1>1 DEF Toplevel
<1> HIDE DEF x
<1>5. CASE Puts(s, t, w, x) /\ x0.life = "free"
  <2>1. \E y :
           /\ Puts(s, t, w, y)
           /\ y.life \in {"free", "fresh"}
           /\ x0.life = "free"
           /\ y.in_scratchpad = x0.in_scratchpad
           /\ y.scratchpad_name = x0.scratchpad_name
           /\ y.tree = x0.tree /\ y.enabled = x0.enabled
    BY <1>4, <1>5
  <2> QED
    BY <2>1 DEF x0
<1>6. CASE Puts(s, t, w, n)
  BY <1>2, <1>6
<1> QED
  BY <1>3, <1>5, <1>6

\* A crash changes nothing else.
LEMMA CrashFields ==
    ASSUME NEW s \in ServerState
    PROVE  LET t == Crash(s)
           IN  /\ t.win = s.win /\ t.out = s.out /\ t.outputs = s.outputs
               /\ t.focused_output = s.focused_output /\ t.kb_focus = s.kb_focus
               /\ t.shown_pads = s.shown_pads
               /\ Live(t) = Live(s) /\ Linked(t) = Linked(s)
BY DEF Crash, ServerState, Live, Linked

----------------------------------------------------------------------------
(* No window is left behind *)

\* Windows that move stay on connected monitors, if they move to connected ones.
LEMMA HostedShifts ==
    ASSUME NEW s, NEW t, NEW W, Hosted(s), Shifts(s, t, W),
           \A w \in W \cap Linked(t) : t.win[w].output \in Live(s) \/ Live(s) = {}
    PROVE  Hosted(t)
<1>1. Live(t) = Live(s)
  BY DEF Shifts, Live
<1>2. ASSUME NEW w \in Linked(t), Live(s) # {}
      PROVE  t.win[w].output \in Live(s)
  <2>1. CASE w \in W
    BY <1>2, <2>1
  <2>2. CASE w \notin W
    BY <1>2, <2>2 DEF Shifts, SamePlace, Hosted, Linked
  <2> QED
    BY <2>1, <2>2
<1> QED
  BY <1>1, <1>2 DEF Hosted, Shifts

\* No callback leaves a window on a monitor that is gone.
LEMMA CallbackHosted ==
    ASSUME "disable" \notin Events,
           NEW s, Good(s), Hosted(s), NEW t, Callback(s, t)
    PROVE  Hosted(t)
<1>1. ASSUME NEW x, Stays(s, x)
      PROVE  Hosted(x)
  BY <1>1, HostedShifts DEF Stays, Settles
<1>2. ASSUME NEW w, NEW x, Puts(s, t, w, x),
             x.life = "linked" => x.output \in Live(s) \/ Live(s) = {}
      PROVE  Hosted(t)
  <2>1. t.win[w].life = x.life /\ t.win[w].output = x.output
    BY <1>2 DEF Puts, SamePlace
  <2> QED
    BY <1>2, <2>1, HostedShifts DEF Puts, Settles, Linked
<1>3. CASE Breaks(s, t)
  <2>1. PICK x : Stays(s, x) /\ t = Crash(x)
    BY <1>3 DEF Breaks, Reordered
  <2>2. x \in ServerState /\ Hosted(x)
    BY <1>1, <2>1 DEF Stays, Good
  <2> QED
    BY <2>1, <2>2, CrashFields DEF Hosted
<1>4. ASSUME NEW w \in Window, Sends(s, t, w)
      PROVE  Hosted(t)
  <2>1. PICK x : Puts(s, t, w, x) /\ Goes(s, w, x)
    BY <1>4, SentFields
  <2>2. s.win[w].output \in Live(s) \/ Live(s) = {}
    BY <1>4 DEF Sends, Hosted
  <2> QED
    BY <1>2, <2>1, <2>2 DEF Goes
<1>5. ASSUME NEW w \in Window, Makes(s, t, w)
      PROVE  Hosted(t)
  <2>1. PICK x : Puts(s, t, w, x) /\ x.life \in {"free", "fresh"}
    BY <1>5, MadeFields
  <2> QED
    BY <1>2, <2>1
<1>6. ASSUME NEW w \in Window, Maps(s, t, w)
      PROVE  Hosted(t)
  <2>1. PICK x : Puts(s, t, w, x) /\ Opens(s, w, x)
    BY <1>6 DEF Maps
  <2> QED
    BY <1>2, <2>1 DEF Opens, Hosted
<1>7. ASSUME NEW w \in Window, Unmaps(s, t, w)
      PROVE  Hosted(t)
  <2>1. Shifts(s, t, {w}) /\ t.win[w].life # "linked"
    <3>1. s.win[w] \in Toplevel
      BY DEF Good, ServerState
    <3>2. [s.win[w] EXCEPT !.life = "unlinked"].life = "unlinked"
      BY <3>1 DEF Toplevel
    <3> QED
      BY <1>7, <3>2 DEF Unmaps, Closes, SamePlace
  <2> QED
    BY <2>1, HostedShifts DEF Linked
<1> QED
  BY <1>1, <1>3, <1>4, <1>5, <1>6, <1>7
     DEF Callback, Retains, Reordered, Turns, Plugs, Unplugs, Resumes, TurnsOff

\* The state in which clients are first served.
LEMMA InitFields ==
    ASSUME Init
    PROVE  /\ server.win = [w \in Window |-> NewToplevelState]
           /\ server.out = [o \in Output |-> NewOutputState]
           /\ server.kb_focus = NoWindow /\ server.shown_pads = {}
           /\ server.crashed = FALSE
           /\ \E order \in Orders(Connected) :
                 /\ server.outputs = order
                 /\ server.focused_output = IF order = <<>> THEN NoOutput
                                            ELSE order[Len(order)]
<1>1. PICK order \in Orders(Connected) :
         server = [toplevels |-> <<>>,
                   win |-> [w \in Window |-> NewToplevelState],
                   outputs |-> order,
                   out |-> [o \in Output |-> NewOutputState],
                   focused_output |-> IF order = <<>> THEN NoOutput
                                      ELSE order[Len(order)],
                   kb_focus |-> NoWindow, shown_pads |-> {}, crashed |-> FALSE]
  BY Zenon DEF Init, StartWith
<1> QED
  BY <1>1

\* nnwm starts with one of the connected monitors focused, and no window.
LEMMA InitHosted == Init => Hosted(server)
<1> SUFFICES ASSUME Init
             PROVE  Hosted(server)
  OBVIOUS
<1>1. PICK order \in Orders(Connected) :
         /\ server.outputs = order
         /\ server.win = [w \in Window |-> NewToplevelState]
         /\ server.focused_output = IF order = <<>> THEN NoOutput
                                    ELSE order[Len(order)]
  BY InitFields
<1>2. Linked(server) = {}
  BY <1>1 DEF Linked, NewToplevelState
<1>3. Live(server) # {} => server.focused_output # NoOutput
  <2>1. order \in Seq(Output)
    BY <1>1, InitGood DEF Good, ServerState
  <2>2. Live(server) # {} => order # <<>>
    <3>1. DOMAIN <<>> = {}
      OBVIOUS
    <3> QED
      BY <1>1, <3>1 DEF Live, Range
  <2>3. order # <<>> => order[Len(order)] \in Output
    BY <2>1, EmptySeq, LenProperties
  <2> QED
    BY <1>1, <2>2, <2>3, NullAssumption
<1> QED
  BY <1>2, <1>3, InitGood DEF Hosted, Good, GoodPointers

\* However monitors are plugged and unplugged, VTs switched and windows moved: while
\* a monitor is connected, a connected one is focused and every mapped window is on
\* a connected one.  (Turning all monitors off leaves windows on none.)
THEOREM NoneLeftBehind ==
    ASSUME "disable" \notin Events
    PROVE  Spec => []NoOrphans
<1>1. Init => Hosted(server)
  BY InitHosted
<1>2. Good(server) /\ Hosted(server) /\ [Next]_vars => Hosted(server)'
  <2>1. Good(server) /\ Hosted(server) /\ Next => Hosted(server')
    BY NextCallback, CallbackHosted
  <2>2. Hosted(server) /\ UNCHANGED vars => Hosted(server')
    BY DEF vars
  <2>3. Hosted(server)' <=> Hosted(server')
    OBVIOUS
  <2> QED
    BY <2>1, <2>2, <2>3
<1>3. Good(server) /\ Hosted(server) => NoOrphans
  <2> SUFFICES ASSUME Good(server), Hosted(server), server.outputs # <<>>
               PROVE  NoOrphans
    BY DEF NoOrphans
  <2>1. server.outputs \in Seq(Output)
    BY DEF Good, ServerState
  <2>2. 1 \in DOMAIN server.outputs
    BY <2>1, EmptySeq, LenProperties
  <2>3. Live(server) # {}
    BY <2>2 DEF Live, Range
  <2> QED
    BY <2>3 DEF NoOrphans, Hosted, win
<1> QED
  BY <1>1, <1>2, <1>3, SpecGood, PTL DEF Spec

----------------------------------------------------------------------------
(* Pointers that are followed without a test *)

\* No window is in a scratchpad, and none is open.
Padless(s) ==
    /\ s.shown_pads = {}
    /\ \A w \in Window : s.win[w].in_scratchpad = FALSE

PadsUnused == {"scratchpad", "named"} \cap Events = {}

\* Without scratchpads there is never one.
LEMMA CallbackPadless ==
    ASSUME PadsUnused, "disable" \notin Events,
           NEW s, Good(s), Padless(s), NEW t, Callback(s, t)
    PROVE  Padless(t)
<1>1. \A p \in Pad : PadEvent(p) \notin Events
  BY DEF PadsUnused, PadEvent
<1>2. ASSUME NEW x, Reordered(s, x)
      PROVE  Padless(x)
  BY <1>2 DEF Reordered, Stays, Settles, Shifts, SamePlace, Padless
<1>3. ASSUME NEW w \in Window, NEW x, Puts(s, t, w, x), x.in_scratchpad = FALSE
      PROVE  Padless(t)
  BY <1>3 DEF Puts, Settles, Shifts, SamePlace, Padless
<1>4. CASE Breaks(s, t)
  <2>1. PICK x : Reordered(s, x) /\ t = Crash(x)
    BY <1>4 DEF Breaks
  <2>2. x \in ServerState /\ Padless(x)
    BY <1>2, <2>1 DEF Reordered, Stays, Good
  <2> QED
    BY <2>1, <2>2, CrashFields DEF Padless
<1>5. ASSUME NEW w \in Window, Sends(s, t, w)
      PROVE  Padless(t)
  <2>1. PICK x : Puts(s, t, w, x) /\ Goes(s, w, x)
    BY <1>5, SentFields
  <2>2. x.in_scratchpad \in {FALSE, s.win[w].in_scratchpad}
    BY <1>1, <2>1 DEF Goes
  <2> QED
    BY <1>3, <2>1, <2>2 DEF Padless
<1>6. ASSUME NEW w \in Window, Makes(s, t, w)
      PROVE  Padless(t)
  <2>1. PICK x :
           /\ Puts(s, t, w, x)
           /\ x.life \in {"free", "fresh"}
           /\ \/ /\ s.win[w].life = "free"
                 /\ x.in_scratchpad = s.win[w].in_scratchpad
                 /\ x.scratchpad_name = s.win[w].scratchpad_name
                 /\ x.tree = s.win[w].tree /\ x.enabled = s.win[w].enabled
              \/ /\ x.in_scratchpad = FALSE /\ x.scratchpad_name = Global
                 /\ x.tree = "windows" /\ x.enabled = TRUE
    BY <1>6, MadeFields
  <2>2. x.in_scratchpad = FALSE
    BY <2>1 DEF Padless
  <2> QED
    BY <1>3, <2>1, <2>2
<1>7. ASSUME NEW w \in Window, Maps(s, t, w)
      PROVE  Padless(t)
  BY <1>3, <1>7 DEF Maps, Opens, Padless
<1>8. ASSUME NEW w \in Window, Unmaps(s, t, w)
      PROVE  Padless(t)
  <2>1. s.win[w] \in Toplevel
    BY DEF Good, ServerState
  <2>2. [s.win[w] EXCEPT !.life = "unlinked"].in_scratchpad = FALSE
    BY <2>1 DEF Toplevel, Padless
  <2> QED
    BY <1>8, <2>2 DEF Unmaps, Closes, Shifts, SamePlace, Padless
<1>9. ASSUME NEW S, NEW o, Hands(s, t, S, o)
      PROVE  Padless(t)
  <2>1. ASSUME NEW w \in Window
        PROVE  t.win[w].in_scratchpad = FALSE
    <3>1. s.win[w] \in Toplevel
      BY DEF Good, ServerState
    <3>2. [s.win[w] EXCEPT !.output = o].in_scratchpad = FALSE
      BY <3>1 DEF Toplevel, Padless
    <3> QED
      BY <1>9, <3>2 DEF Hands, Gives, SamePlace, Padless
  <2> QED
    BY <1>9, <2>1 DEF Hands, Gives, Padless
<1> QED
  BY <1>1, <1>2, <1>4, <1>5, <1>6, <1>7, <1>8, <1>9
     DEF Callback, Retains, Turns, Plugs, Unplugs, Resumes, TurnsOff

\* Without scratchpads, and with no monitor turned off, last_focused is kept right, and
\* no callback that follows a pointer meets a bad one but the two that do not look.
LEMMA CallbackRemembers ==
    ASSUME PadsUnused, "disable" \notin Events,
           NEW s, Good(s), Padless(s), Remembered(s), NEW t, Callback(s, t)
    PROVE  /\ Remembered(t)
           /\ {"swap", "request_fullscreen"} \cap Events = {} /\ t.crashed => s.crashed
<1>1. \A p \in Pad : PadEvent(p) \notin Events
  BY DEF PadsUnused, PadEvent
<1>2. Sound(s)
  BY DEF Sound, Good
<1>3. CASE Breaks(s, t)
  <2>1. PICK x : Reordered(s, x) /\ t = Crash(x)
    BY <1>3 DEF Breaks
  <2>2. x \in ServerState /\ Remembered(x)
    BY <1>2, <2>1 DEF Reordered, Stays, Settles, Careful, Good
  <2>3. Remembered(t)
    <3>1. t.win = x.win /\ t.out = x.out /\ Live(t) = Live(x) /\ Linked(t) = Linked(x)
      BY <2>1, <2>2, CrashFields
    <3>2. ASSUME NEW o \in Live(x), NEW ws \in WS
          PROVE  Owns(t, o, ws, t.out[o].last_focused[ws])
      <4>1. Owns(x, o, ws, x.out[o].last_focused[ws])
        BY <2>2 DEF Remembered
      <4> QED
        BY <3>1, <4>1 DEF Owns
    <3> QED
      BY <3>1, <3>2 DEF Remembered
  <2> QED
    BY <1>3, <2>3 DEF Breaks
<1>4. ASSUME NEW w \in Window, Sends(s, t, w) \/ Makes(s, t, w) \/ Maps(s, t, w)
      PROVE  Careful(s, t)
  BY <1>2, <1>4
     DEF Sends, SendsToWorkspace, SendsToMonitor, Hides, Makes, Maps, Puts, Settles
<1>5. ASSUME NEW w \in Window, Unmaps(s, t, w)
      PROVE  Remembered(t) /\ (t.crashed => s.crashed)
  BY <1>2, <1>5 DEF Unmaps, Padless
<1> QED
  BY <1>1, <1>2, <1>3, <1>4, <1>5
     DEF Callback, Retains, Reordered, Stays, Settles, Careful, Turns, Plugs, Unplugs,
         Resumes, Hands, TurnsOff

\* The invariant that the next theorems share.
PointersInv == Good(server) /\ Padless(server) /\ Remembered(server)

\* It is inductive.
LEMMA PointersInvariant ==
    ASSUME PadsUnused, "disable" \notin Events
    PROVE  Spec => []PointersInv
<1>1. Init => PointersInv
  <2> SUFFICES ASSUME Init
               PROVE  PointersInv
    OBVIOUS
  <2>1. /\ server.win = [w \in Window |-> NewToplevelState]
        /\ server.out = [o \in Output |-> NewOutputState]
        /\ server.shown_pads = {}
    BY InitFields
  <2>2. Good(server)
    BY InitGood
  <2>3. Padless(server)
    BY <2>1 DEF Padless, NewToplevelState
  <2>4. Remembered(server)
    <3>1. Live(server) \subseteq Output
      BY <2>2, ListedWindows DEF Good
    <3> QED
      BY <2>1, <3>1 DEF Remembered, Owns, NewOutputState
  <2> QED
    BY <2>2, <2>3, <2>4 DEF PointersInv
<1>2. PointersInv /\ [Next]_vars => PointersInv'
  <2>1. ASSUME PointersInv, Next
        PROVE  Good(server') /\ Padless(server') /\ Remembered(server')
    BY <2>1, NextCallback, CallbackGood, CallbackPadless, CallbackRemembers
       DEF PointersInv
  <2>2. PointersInv /\ UNCHANGED vars => PointersInv'
    BY DEF vars, PointersInv
  <2> QED
    BY <2>1, <2>2 DEF PointersInv
<1> QED
  BY <1>1, <1>2, PTL DEF Spec

\* Without scratchpads, and with no monitor turned off, last_focused of a connected
\* monitor never points at a window that was unmapped, freed or moved elsewhere, for
\* any order of commands, maps, unmaps, hotplug, VT switches and activations.
THEOREM RememberedOwned ==
    ASSUME PadsUnused, "disable" \notin Events
    PROVE  Spec => []LastFocusedOwned
<1>1. PointersInv => LastFocusedOwned
  BY DEF PointersInv, Remembered, Owns, LastFocusedOwned, win, out
<1> QED
  BY <1>1, PointersInvariant, PTL

\* There, no callback but the two that do not look before they dereference, swap::left
\* and xdg_toplevel_request_fullscreen, follows a null or freed pointer.
THEOREM NoBadDereference ==
    ASSUME PadsUnused, {"disable", "swap", "request_fullscreen"} \cap Events = {}
    PROVE  Spec => []~server.crashed
<1>1. Init => ~server.crashed
  <2> SUFFICES ASSUME Init
               PROVE  ~server.crashed
    OBVIOUS
  <2> QED
    BY InitFields
<1>2. PointersInv /\ ~server.crashed /\ [Next]_vars => ~server'.crashed
  <2>1. PointersInv /\ ~server.crashed /\ Next => ~server'.crashed
    BY NextCallback, CallbackRemembers DEF PointersInv
  <2> QED
    BY <2>1 DEF vars
<1>3. Spec => []PointersInv
  BY PointersInvariant
<1>4. (~server.crashed)' <=> ~server'.crashed
  OBVIOUS
<1> QED
  BY <1>1, <1>2, <1>3, <1>4, PTL DEF Spec

\* While a monitor is connected, no callback leaves the keyboard on a window that it
\* unmaps.
LEMMA CallbackOnKeyboard ==
    ASSUME PadsUnused, {"disable", "unplug"} \cap Events = {},
           NEW s, Good(s), Padless(s), Remembered(s), Hosted(s), Live(s) # {},
           OnKeyboard(s), NEW t, Callback(s, t)
    PROVE  OnKeyboard(t) /\ Live(t) # {}
<1>1. \A p \in Pad : PadEvent(p) \notin Events
  BY DEF PadsUnused, PadEvent
<1>2. Sound(s)
  BY DEF Sound, Good
<1>3. ASSUME NEW W, NEW x, Settles(s, x, W)
      PROVE  OnKeyboard(x) /\ Live(x) = Live(s)
  BY <1>2, <1>3 DEF Settles, Careful, Shifts, Live
<1>4. CASE Breaks(s, t)
  <2>1. PICK x : Reordered(s, x) /\ t = Crash(x)
    BY <1>4 DEF Breaks
  <2>2. x \in ServerState /\ OnKeyboard(x) /\ Live(x) = Live(s)
    BY <1>3, <2>1 DEF Reordered, Stays, Good
  <2> QED
    BY <2>1, <2>2, CrashFields DEF OnKeyboard
<1>5. ASSUME NEW w \in Window, Sends(s, t, w) \/ Makes(s, t, w) \/ Maps(s, t, w)
      PROVE  OnKeyboard(t) /\ Live(t) = Live(s)
  <2>1. Settles(s, t, {w})
    BY <1>5
       DEF Sends, SendsToWorkspace, SendsToMonitor, Hides, Makes, Maps, Puts
  <2> QED
    BY <1>3, <2>1
<1>6. ASSUME NEW w \in Window, Unmaps(s, t, w)
      PROVE  OnKeyboard(t) /\ Live(t) = Live(s)
  <2>1. s.win[w].output # NoOutput
    <3>1. s.win[w].output \in Live(s)
      BY <1>6 DEF Unmaps, Hosted
    <3> QED
      BY <3>1, ListedWindows, NullAssumption DEF Good
  <2> QED
    BY <1>2, <1>6, <2>1 DEF Unmaps, Closes, Shifts, Padless, Live
<1>7. ASSUME NEW S, NEW o, Hands(s, t, S, o)
      PROVE  OnKeyboard(t)
  BY <1>2, <1>7 DEF Hands, Careful
<1> QED
  BY <1>1, <1>3, <1>4, <1>5, <1>6, <1>7
     DEF Callback, Retains, Reordered, Stays, Turns, Plugs, Unplugs, Resumes, TurnsOff

\* Without scratchpads and while a monitor is connected, the keyboard is on a mapped
\* window, on a layer surface or on none, whatever is unmapped and whoever has it.
THEOREM KeyboardMapped ==
    ASSUME PadsUnused, {"disable", "unplug"} \cap Events = {}, Connected # {}
    PROVE  Spec => []FocusMapped
<1> DEFINE I == Hosted(server) /\ Live(server) # {} /\ OnKeyboard(server)
<1>1. Init => Hosted(server)
  BY InitHosted
<1>2. Init => Live(server) # {} /\ OnKeyboard(server)
  <2> SUFFICES ASSUME Init
               PROVE  Live(server) # {} /\ OnKeyboard(server)
    OBVIOUS
  <2>1. PICK order \in Orders(Connected) :
           server.outputs = order /\ server.kb_focus = NoWindow
    BY InitFields
  <2>2. Live(server) # {}
    <3>1. Cardinality(Connected) \in Nat /\ Cardinality(Connected) # 0
      BY ConnectedAssumption, FS_CardinalityType, FS_EmptySet
    <3>2. 1 \in DOMAIN order
      BY <2>1, <3>1 DEF Orders
    <3> QED
      BY <2>1, <3>2 DEF Live, Range
  <2> QED
    BY <2>1, <2>2, NullAssumption DEF OnKeyboard
<1>3. PointersInv /\ I /\ [Next]_vars => I'
  <2>1. ASSUME PointersInv, I, Next
        PROVE  Hosted(server') /\ Live(server') # {} /\ OnKeyboard(server')
    BY <2>1, NextCallback, CallbackHosted, CallbackOnKeyboard DEF PointersInv
  <2>2. I /\ UNCHANGED vars => I'
    BY DEF vars
  <2> QED
    BY <2>1, <2>2
<1>4. I => FocusMapped
  BY DEF OnKeyboard, FocusMapped
<1>5. Spec => []PointersInv
  BY PointersInvariant
<1> HIDE DEF I
<1>6. Init => I
  BY <1>1, <1>2 DEF I
<1> QED
  BY <1>3, <1>4, <1>5, <1>6, PTL DEF Spec

----------------------------------------------------------------------------
(* Scratchpads are whole *)

\* What a window in state x has to do with scratchpads, those of S being open: it
\* hangs in the tree that its name says, and is enabled there when that is open.
InOrder(x, S) ==
    /\ x.life \in {"free", "fresh"} =>
          /\ x.in_scratchpad = FALSE /\ x.tree = "windows"
          /\ x.scratchpad_name = Global /\ x.enabled = TRUE
    /\ x.life = "linked" =>
          /\ x.in_scratchpad = FALSE => x.tree = "windows"
          /\ x.in_scratchpad = TRUE =>
                /\ x.tree \in Pad /\ x.scratchpad_name = x.tree
                /\ x.tree \in S => x.enabled = TRUE
          /\ "named" \notin Events => x.scratchpad_name = Global

PadsInOrder(s) ==
    /\ \A w \in Window : InOrder(s.win[w], s.shown_pads)
    /\ "scratchpad" \notin Events => Global \notin s.shown_pads

\* One kind of scratchpad is in use, and no window is mapped again.
OneKind == "remap" \notin Events /\ ~({"scratchpad", "named"} \subseteq Events)

\* A window that stays in its place stays in order, also when it is handed to another
\* monitor.
LEMMA SamePlaceInOrder ==
    ASSUME NEW x \in Toplevel, NEW y, NEW S, InOrder(x, S),
           \/ SamePlace(x, y)
           \/ \E o : SamePlace([x EXCEPT !.output = o], y)
    PROVE  InOrder(y, S)
<1>1. PICK z : /\ SamePlace(z, y)
               /\ z.life = x.life /\ z.in_scratchpad = x.in_scratchpad
               /\ z.scratchpad_name = x.scratchpad_name /\ z.tree = x.tree
               /\ z.enabled = x.enabled
  <2>1. CASE SamePlace(x, y)
    BY <2>1
  <2>2. ASSUME NEW o, SamePlace([x EXCEPT !.output = o], y)
        PROVE  \E z : /\ SamePlace(z, y)
                      /\ z.life = x.life /\ z.in_scratchpad = x.in_scratchpad
                      /\ z.scratchpad_name = x.scratchpad_name /\ z.tree = x.tree
                      /\ z.enabled = x.enabled
    <3> DEFINE z == [x EXCEPT !.output = o]
    <3>1. /\ z.life = x.life /\ z.in_scratchpad = x.in_scratchpad
          /\ z.scratchpad_name = x.scratchpad_name /\ z.tree = x.tree
          /\ z.enabled = x.enabled
      BY DEF Toplevel
    <3> QED
      BY <2>2, <3>1
  <2> QED
    BY <2>1, <2>2
<1>2. x.in_scratchpad \in BOOLEAN
  BY DEF Toplevel
<1> QED
  BY <1>1, <1>2 DEF InOrder, SamePlace

\* Where one window goes to a state that is in order, the others stay as they are.
LEMMA PutsInOrder ==
    ASSUME NEW s, Good(s), PadsInOrder(s), NEW t, NEW w \in Window, NEW x,
           Shifts(s, t, {w}), t.shown_pads = s.shown_pads,
           x.in_scratchpad \in BOOLEAN,
           SamePlace(x, t.win[w]), InOrder(x, s.shown_pads)
    PROVE  PadsInOrder(t)
<1>1. InOrder(t.win[w], s.shown_pads)
  BY DEF InOrder, SamePlace
<1>2. ASSUME NEW v \in Window, v # w
      PROVE  InOrder(t.win[v], s.shown_pads)
  <2>1. s.win[v] \in Toplevel /\ SamePlace(s.win[v], t.win[v])
    BY <1>2 DEF Good, ServerState, Shifts
  <2> QED
    BY <2>1, SamePlaceInOrder DEF PadsInOrder
<1> QED
  BY <1>1, <1>2 DEF PadsInOrder

\* Every callback keeps scratchpads in order.
LEMMA CallbackInOrder ==
    ASSUME OneKind, NEW s, Good(s), PadsInOrder(s), NEW t, Callback(s, t)
    PROVE  PadsInOrder(t)
<1>1. \A w \in Window : s.win[w] \in Toplevel /\ InOrder(s.win[w], s.shown_pads)
  BY DEF Good, ServerState, PadsInOrder
<1>2. ASSUME NEW x, Reordered(s, x)
      PROVE  PadsInOrder(x)
  <2>1. \A w \in Window : SamePlace(s.win[w], x.win[w])
    BY <1>2 DEF Reordered, Stays, Settles, Shifts
  <2>2. \A w \in Window : InOrder(x.win[w], s.shown_pads)
    BY <1>1, <2>1, SamePlaceInOrder
  <2> QED
    BY <1>2, <2>2 DEF Reordered, PadsInOrder
<1>3. CASE Breaks(s, t)
  <2>1. PICK x : Reordered(s, x) /\ t = Crash(x)
    BY <1>3 DEF Breaks
  <2>2. x \in ServerState /\ PadsInOrder(x)
    BY <1>2, <2>1 DEF Reordered, Stays, Good
  <2> QED
    BY <2>1, <2>2, CrashFields DEF PadsInOrder
<1>4. ASSUME NEW p \in Pad, Turns(s, t, p)
      PROVE  PadsInOrder(t)
  <2>1. \A w \in Window : SamePlace(s.win[w], t.win[w])
    BY <1>4 DEF Turns, Stays, Settles, Shifts
  <2>2. \A w \in Window : InOrder(t.win[w], s.shown_pads)
    BY <1>1, <2>1, SamePlaceInOrder
  <2>3. "scratchpad" \notin Events => p # Global
    BY <1>4 DEF Turns, PadEvent
  <2>4. CASE t.shown_pads = s.shown_pads \ {p}
    BY <2>2, <2>4 DEF InOrder, PadsInOrder
  <2>5. CASE /\ t.shown_pads = s.shown_pads \cup {p}
             /\ \A w \in InPad(s, p) : t.win[w].enabled = TRUE
    <3>1. ASSUME NEW w \in Window, t.win[w].life = "linked",
                 t.win[w].in_scratchpad = TRUE, t.win[w].tree = p
          PROVE  t.win[w].enabled = TRUE
      <4>1. /\ s.win[w].life = "linked" /\ s.win[w].in_scratchpad = TRUE
            /\ s.win[w].scratchpad_name = p
        <5>1. /\ s.win[w].life = t.win[w].life
              /\ s.win[w].in_scratchpad = t.win[w].in_scratchpad
              /\ s.win[w].tree = t.win[w].tree
          BY <2>1, <3>1 DEF SamePlace
        <5>2. s.win[w].life = "linked" /\ s.win[w].tree = p
          BY <3>1, <5>1
        <5>3. s.win[w].in_scratchpad = TRUE
          BY <3>1, <5>1
        <5> QED
          BY <1>1, <5>2, <5>3 DEF InOrder
      <4>2. w \in InPad(s, p)
        BY <4>1 DEF InPad, Linked
      <4> QED
        BY <2>5, <4>2
    <3>2. \A w \in Window : InOrder(t.win[w], t.shown_pads)
      BY <2>2, <2>5, <3>1 DEF InOrder
    <3> QED
      BY <2>3, <2>5, <3>2 DEF PadsInOrder
  <2> QED
    BY <1>4, <2>4, <2>5 DEF Turns
<1>5. ASSUME NEW w \in Window, NEW x, Puts(s, t, w, x),
             x.in_scratchpad \in BOOLEAN, InOrder(x, s.shown_pads)
      PROVE  PadsInOrder(t)
  BY <1>5, PutsInOrder DEF Puts, Settles
<1>6. ASSUME NEW w \in Window, Sends(s, t, w)
      PROVE  PadsInOrder(t)
  <2>1. PICK x \in Toplevel : Puts(s, t, w, x) /\ Goes(s, w, x)
    BY <1>6, SentFields
  <2>2. s.win[w].life = "linked" /\ x.in_scratchpad \in BOOLEAN
    BY <1>6, <2>1 DEF Sends, Linked, Toplevel
  <2>3. InOrder(x, s.shown_pads)
    <3>1. CASE x.in_scratchpad = FALSE /\ x.tree = "windows"
               /\ x.scratchpad_name = s.win[w].scratchpad_name
      BY <1>1, <2>1, <2>2, <3>1 DEF InOrder, Goes
    <3>2. CASE x.in_scratchpad = s.win[w].in_scratchpad
               /\ x.tree = s.win[w].tree /\ x.enabled = TRUE
               /\ x.scratchpad_name = s.win[w].scratchpad_name
      BY <1>1, <2>1, <2>2, <3>2 DEF InOrder, Goes
    <3>3. ASSUME NEW p \in Pad, PadEvent(p) \in Events,
                 x.in_scratchpad = TRUE, x.tree = p,
                 x.scratchpad_name = IF p = Global THEN s.win[w].scratchpad_name ELSE p,
                 p \in s.shown_pads => x.enabled = TRUE
          PROVE  InOrder(x, s.shown_pads)
      <4>1. s.win[w].life = "linked" =>
                ("named" \notin Events => s.win[w].scratchpad_name = Global)
        BY <1>1 DEF InOrder
      <4>2. p = Global => "named" \notin Events
        BY <3>3 DEF OneKind, PadEvent
      <4>3. p # Global => "named" \in Events
        BY <3>3 DEF PadEvent
      <4>4. x.scratchpad_name = p /\ x.life = "linked"
        BY <2>1, <2>2, <3>3, <4>1, <4>2 DEF Goes
      <4> QED
        BY <3>3, <4>3, <4>4 DEF InOrder
    <3> QED
      BY <2>1, <3>1, <3>2, <3>3 DEF Goes
  <2> QED
    BY <1>5, <2>1, <2>2, <2>3
<1>7. ASSUME NEW w \in Window, Makes(s, t, w)
      PROVE  PadsInOrder(t)
  <2>1. PICK x :
           /\ Puts(s, t, w, x)
           /\ x.life \in {"free", "fresh"}
           /\ \/ /\ s.win[w].life = "free"
                 /\ x.in_scratchpad = s.win[w].in_scratchpad
                 /\ x.scratchpad_name = s.win[w].scratchpad_name
                 /\ x.tree = s.win[w].tree /\ x.enabled = s.win[w].enabled
              \/ /\ x.in_scratchpad = FALSE /\ x.scratchpad_name = Global
                 /\ x.tree = "windows" /\ x.enabled = TRUE
    BY <1>7, MadeFields
  <2>2. x.in_scratchpad = FALSE /\ InOrder(x, s.shown_pads)
    BY <1>1, <2>1 DEF InOrder
  <2> QED
    BY <1>5, <2>1, <2>2
<1>8. ASSUME NEW w \in Window, Maps(s, t, w)
      PROVE  PadsInOrder(t)
  <2>1. PICK x \in Toplevel : Opens(s, w, x) /\ Puts(s, t, w, x)
    BY <1>8 DEF Maps
  <2>2. s.win[w].life = "fresh"
    BY <1>8 DEF Maps, OneKind
  <2>3. x.in_scratchpad \in BOOLEAN
    BY DEF Toplevel
  <2>4. InOrder(x, s.shown_pads)
    BY <1>1, <2>1, <2>2 DEF Opens, InOrder, Pad
  <2> QED
    BY <1>5, <2>1, <2>3, <2>4
<1>9. ASSUME NEW w \in Window, Unmaps(s, t, w)
      PROVE  PadsInOrder(t)
  <2> DEFINE x == [s.win[w] EXCEPT !.life = "unlinked"]
  <2>1. x.life = "unlinked" /\ x.in_scratchpad \in BOOLEAN
    BY <1>1 DEF Toplevel
  <2>2. Shifts(s, t, {w}) /\ t.shown_pads = s.shown_pads /\ SamePlace(x, t.win[w])
    BY <1>9 DEF Unmaps, Closes
  <2> HIDE DEF x
  <2>3. InOrder(x, s.shown_pads)
    BY <2>1 DEF InOrder
  <2> QED
    BY <2>1, <2>2, <2>3, PutsInOrder
<1>10. ASSUME NEW S, NEW o, Gives(s, t, S, o)
       PROVE  PadsInOrder(t)
  <2>1. \A w \in Window : \/ SamePlace(s.win[w], t.win[w])
                          \/ SamePlace([s.win[w] EXCEPT !.output = o], t.win[w])
    BY <1>10 DEF Gives
  <2>2. \A w \in Window : InOrder(t.win[w], s.shown_pads)
    BY <1>1, <2>1, SamePlaceInOrder
  <2> QED
    BY <1>10, <2>2 DEF Gives, PadsInOrder
<1> QED
  BY <1>2, <1>3, <1>4, <1>6, <1>7, <1>8, <1>9, <1>10
     DEF Callback, Retains, Plugs, Unplugs, TurnsOff, Resumes, Hands

\* While scratchpads of one kind are used, the global one or the named ones, and no
\* window is mapped again: a window in a scratchpad hangs in its tree and in no other,
\* and an open scratchpad shows all its windows, in whatever order it is opened,
\* filled and emptied and windows are mapped into it.
THEOREM PadsWhole ==
    ASSUME OneKind
    PROVE  Spec => []PadWhole
<1>1. Init => PadsInOrder(server)
  BY InitFields DEF PadsInOrder, InOrder, NewToplevelState
<1>2. Good(server) /\ PadsInOrder(server) /\ [Next]_vars => PadsInOrder(server)'
  <2>1. Good(server) /\ PadsInOrder(server) /\ Next => PadsInOrder(server')
    BY NextCallback, CallbackInOrder
  <2>2. PadsInOrder(server) /\ UNCHANGED vars => PadsInOrder(server')
    BY DEF vars
  <2>3. PadsInOrder(server)' <=> PadsInOrder(server')
    OBVIOUS
  <2> QED
    BY <2>1, <2>2, <2>3
<1>3. Good(server) /\ PadsInOrder(server) => PadWhole
  <2> SUFFICES ASSUME Good(server), PadsInOrder(server), NEW w \in Linked(server)
               PROVE  /\ win[w].in_scratchpad <=> win[w].tree # "windows"
                      /\ win[w].tree \in server.shown_pads => Shown(server, w)
    BY DEF PadWhole
  <2>1. /\ w \in Window /\ win[w].life = "linked" /\ win[w].in_scratchpad \in BOOLEAN
        /\ InOrder(win[w], server.shown_pads) /\ server.shown_pads \subseteq Pad
    BY DEF Linked, win, Good, ServerState, Toplevel, PadsInOrder
  <2>2. "windows" \notin Pad
    BY PadAssumption
  <2>3. CASE win[w].in_scratchpad = TRUE
    <3>1. /\ win[w].tree \in Pad
          /\ win[w].tree \in server.shown_pads => win[w].enabled = TRUE
      BY <2>1, <2>3 DEF InOrder
    <3>2. win[w].tree \in server.shown_pads => Shown(server, w)
      BY <3>1 DEF Shown, win
    <3> QED
      BY <2>2, <2>3, <3>1, <3>2
  <2>4. CASE win[w].in_scratchpad = FALSE
    BY <2>1, <2>2, <2>4 DEF InOrder
  <2> QED
    BY <2>1, <2>3, <2>4
<1> QED
  BY <1>1, <1>2, <1>3, SpecGood, PTL DEF Spec

----------------------------------------------------------------------------
(* The callbacks keep the placement of windows *)

\* Home, in any state.
HomeIn(s, w) ==
    LET x == s.win[w]
    IN  CASE x.life # "linked" -> <<"closed">>
          [] x.life = "linked" /\ x.in_scratchpad -> <<"pad", x.tree>>
          [] OTHER -> <<"on", x.output, x.workspace>>
HomesIn(s) == [w \in Window |-> HomeIn(s, w)]

\* A window in a scratchpad hangs in the tree of one.
InTree(x) == x.in_scratchpad = TRUE => x.tree \in Pad
AllInTrees(s) == \A w \in Window : InTree(s.win[w])

\* Nothing else gets the keyboard here.
KeyboardHere(s) == s.kb_focus \in Window \cup {NoWindow}

\* Homes of different kinds, or in different places, differ.
LEMMA HomesDiffer ==
    /\ \A o, ws : P!On(o, ws) # P!Closed
    /\ \A p : P!In(p) # P!Closed
    /\ \A o, ws, p : P!On(o, ws) # P!In(p)
    /\ \A o, ws, q, wt : P!On(o, ws) = P!On(q, wt) => o = q /\ ws = wt
BY DEF P!On, P!In, P!Closed

\* The three cases of HomeIn, in the words of Placement.
LEMMA HomeCases ==
    ASSUME NEW s, NEW w \in Window, s.win[w] \in Toplevel
    PROVE  /\ w \notin Linked(s) => HomeIn(s, w) = P!Closed
           /\ w \in Linked(s) => HomeIn(s, w) # P!Closed
           /\ w \in Linked(s) /\ s.win[w].in_scratchpad = TRUE
                => HomeIn(s, w) = P!In(s.win[w].tree)
           /\ w \in Linked(s) /\ s.win[w].in_scratchpad = FALSE
                => HomeIn(s, w) = P!On(s.win[w].output, s.win[w].workspace)
<1> DEFINE x == s.win[w]
<1>1. x.in_scratchpad = TRUE \/ x.in_scratchpad = FALSE
  BY DEF Toplevel
<1>2. w \in Linked(s) <=> x.life = "linked"
  BY DEF Linked
<1>3. CASE x.life # "linked"
  BY <1>2, <1>3 DEF HomeIn, P!Closed
<1>4. CASE x.life = "linked" /\ x.in_scratchpad = TRUE
  <2>1. HomeIn(s, w) = P!In(x.tree)
    BY <1>4 DEF HomeIn, P!In
  <2> QED
    BY <1>2, <1>4, <2>1, HomesDiffer
<1>5. CASE x.life = "linked" /\ x.in_scratchpad = FALSE
  <2>1. HomeIn(s, w) = P!On(x.output, x.workspace)
    BY <1>5 DEF HomeIn, P!On
  <2> QED
    BY <1>2, <1>5, <2>1, HomesDiffer
<1> QED
  BY <1>1, <1>3, <1>4, <1>5

\* A window that stays in its place has the same home.
LEMMA SameHome ==
    ASSUME NEW s, NEW t, NEW w, SamePlace(s.win[w], t.win[w])
    PROVE  HomeIn(t, w) = HomeIn(s, w)
BY DEF SamePlace, HomeIn

\* Every mapped window is at home on a connected monitor or in a scratchpad.
LEMMA OpenHome ==
    ASSUME NEW s, Good(s), Hosted(s), AllInTrees(s), NEW w \in Linked(s)
    PROVE  HomeIn(s, w) \in P!Homes(Live(s))
<1> DEFINE x == s.win[w]
<1>1. w \in Window /\ x \in Toplevel
  BY DEF Linked, Good, ServerState
<1>2. x.output \in P!Hosts(Live(s))
  BY DEF Hosted, Good, GoodPointers, P!Hosts
<1>3. x.workspace \in WS /\ x.in_scratchpad \in BOOLEAN
  BY <1>1 DEF Toplevel
<1>4. CASE x.in_scratchpad = TRUE
  <2>1. x.tree \in Pad
    BY <1>1, <1>4 DEF AllInTrees, InTree
  <2>2. P!In(x.tree) \in P!Homes(Live(s))
    BY <2>1 DEF P!Homes
  <2> QED
    BY <1>1, <1>4, <2>2, HomeCases
<1>5. CASE x.in_scratchpad = FALSE
  <2>1. P!On(x.output, x.workspace) \in P!Homes(Live(s))
    BY <1>2, <1>3 DEF P!Homes
  <2> QED
    BY <1>1, <1>5, <2>1, HomeCases
<1> QED
  BY <1>3, <1>4, <1>5

\* No callback puts a window into a scratchpad and leaves it in another tree.
LEMMA CallbackInTrees ==
    ASSUME NEW s, Good(s), AllInTrees(s), NEW t, Callback(s, t)
    PROVE  AllInTrees(t)
<1>1. ASSUME NEW x, NEW y, InTree(x), SamePlace(x, y)
      PROVE  InTree(y)
  BY <1>1 DEF InTree, SamePlace
<1>2. ASSUME NEW W, NEW x, Shifts(s, x, W), \A w \in W : InTree(x.win[w])
      PROVE  AllInTrees(x)
  <2>1. \A w \in Window \ W : InTree(x.win[w])
    BY <1>1, <1>2 DEF Shifts, AllInTrees
  <2> QED
    BY <1>2, <2>1 DEF AllInTrees
<1>3. ASSUME NEW x, Stays(s, x)
      PROVE  AllInTrees(x)
  BY <1>2, <1>3 DEF Stays, Settles
<1>4. ASSUME NEW w \in Window, NEW x, Puts(s, t, w, x), InTree(x)
      PROVE  AllInTrees(t)
  <2>1. InTree(t.win[w])
    BY <1>1, <1>4 DEF Puts
  <2> QED
    BY <1>2, <1>4, <2>1 DEF Puts, Settles
<1>5. CASE Breaks(s, t)
  <2>1. PICK x : Stays(s, x) /\ t = Crash(x)
    BY <1>5 DEF Breaks, Reordered
  <2>2. t.win = x.win
    BY <2>1, CrashFields DEF Stays, Good
  <2> QED
    BY <1>3, <2>1, <2>2 DEF AllInTrees
<1>6. ASSUME NEW w \in Window, Sends(s, t, w)
      PROVE  AllInTrees(t)
  <2>1. PICK x : Puts(s, t, w, x) /\ Goes(s, w, x)
    BY <1>6, SentFields
  <2> QED
    BY <1>4, <1>6, <2>1 DEF Goes, InTree, AllInTrees
<1>7. ASSUME NEW w \in Window, Makes(s, t, w)
      PROVE  AllInTrees(t)
  <2>1. PICK x :
           /\ Puts(s, t, w, x)
           /\ x.life \in {"free", "fresh"}
           /\ \/ /\ s.win[w].life = "free"
                 /\ x.in_scratchpad = s.win[w].in_scratchpad
                 /\ x.scratchpad_name = s.win[w].scratchpad_name
                 /\ x.tree = s.win[w].tree /\ x.enabled = s.win[w].enabled
              \/ /\ x.in_scratchpad = FALSE /\ x.scratchpad_name = Global
                 /\ x.tree = "windows" /\ x.enabled = TRUE
    BY <1>7, MadeFields
  <2> QED
    BY <1>4, <1>7, <2>1 DEF InTree, AllInTrees
<1>8. ASSUME NEW w \in Window, Maps(s, t, w)
      PROVE  AllInTrees(t)
  <2>1. PICK x : Puts(s, t, w, x) /\ Opens(s, w, x)
    BY <1>8 DEF Maps
  <2> QED
    BY <1>4, <1>8, <2>1 DEF Opens, InTree, AllInTrees, Pad
<1>9. ASSUME NEW w \in Window, Unmaps(s, t, w)
      PROVE  AllInTrees(t)
  <2> DEFINE x == [s.win[w] EXCEPT !.life = "unlinked"]
  <2>1. s.win[w] \in Toplevel /\ InTree(s.win[w])
    BY DEF Good, ServerState, AllInTrees
  <2>2. InTree(x)
    BY <2>1 DEF InTree, Toplevel
  <2>3. Shifts(s, t, {w}) /\ SamePlace(x, t.win[w])
    BY <1>9 DEF Unmaps, Closes
  <2> HIDE DEF x
  <2> QED
    BY <1>1, <1>2, <2>2, <2>3
<1>10. ASSUME NEW S, NEW o, Gives(s, t, S, o)
       PROVE  AllInTrees(t)
  <2> SUFFICES ASSUME NEW w \in Window
               PROVE  InTree(t.win[w])
    BY DEF AllInTrees
  <2> DEFINE x == [s.win[w] EXCEPT !.output = o]
  <2>1. s.win[w] \in Toplevel /\ InTree(s.win[w])
    BY DEF Good, ServerState, AllInTrees
  <2>2. InTree(x)
    BY <2>1 DEF InTree, Toplevel
  <2>3. SamePlace(s.win[w], t.win[w]) \/ SamePlace(x, t.win[w])
    BY <1>10 DEF Gives
  <2> HIDE DEF x
  <2> QED
    BY <1>1, <2>1, <2>2, <2>3
<1> QED
  BY <1>3, <1>5, <1>6, <1>7, <1>8, <1>9, <1>10
     DEF Callback, Retains, Reordered, Turns, Plugs, Unplugs, TurnsOff, Resumes, Hands

\* The windows of one host move on to another.
Evacuated(s, o, to) ==
    [w \in Window |-> IF \E ws \in WS : HomesIn(s)[w] = P!On(o, ws)
                      THEN P!On(to, CHOOSE ws \in WS : HomesIn(s)[w] = P!On(o, ws))
                      ELSE HomesIn(s)[w]]

\* Handing the windows of a monitor to another is that.
LEMMA GivesEvacuates ==
    ASSUME NEW s, Good(s), NEW t, NEW o, NEW to, Gives(s, t, OnOutput(s, o), to)
    PROVE  HomesIn(t) = Evacuated(s, o, to)
<1> SUFFICES ASSUME NEW w \in Window
             PROVE  HomeIn(t, w) = IF \E ws \in WS : HomeIn(s, w) = P!On(o, ws)
                                   THEN P!On(to, CHOOSE ws \in WS : HomeIn(s, w) = P!On(o, ws))
                                   ELSE HomeIn(s, w)
  BY DEF HomesIn, Evacuated
<1> DEFINE x == s.win[w]
           y == [x EXCEPT !.output = to]
<1>1. x \in Toplevel /\ t.win[w] \in Toplevel
  BY DEF Good, Gives, ServerState
<1>2. x.in_scratchpad \in BOOLEAN /\ x.workspace \in WS
  BY <1>1 DEF Toplevel
<1>3. CASE w \in Linked(s) /\ x.output = o
  <2>1. SamePlace(y, t.win[w])
    BY <1>3 DEF Gives, OnOutput
  <2>2. /\ y.life = x.life /\ y.in_scratchpad = x.in_scratchpad /\ y.tree = x.tree
        /\ y.output = to /\ y.workspace = x.workspace
    BY <1>1 DEF Toplevel
  <2> HIDE DEF y
  <2>3. /\ w \in Linked(t) /\ t.win[w].in_scratchpad = x.in_scratchpad
        /\ t.win[w].tree = x.tree
        /\ t.win[w].output = to /\ t.win[w].workspace = x.workspace
    BY <1>3, <2>1, <2>2 DEF SamePlace, Linked
  <2> HIDE DEF x
  <2>4. CASE x.in_scratchpad = TRUE
    <3>1. HomeIn(s, w) = P!In(x.tree) /\ HomeIn(t, w) = P!In(x.tree)
      BY <1>1, <1>3, <2>3, <2>4, HomeCases DEF x
    <3> QED
      BY <3>1, HomesDiffer
  <2>5. CASE x.in_scratchpad = FALSE
    <3>1. HomeIn(s, w) = P!On(o, x.workspace) /\ HomeIn(t, w) = P!On(to, x.workspace)
      BY <1>1, <1>3, <2>3, <2>5, HomeCases DEF x
    <3>2. (CHOOSE ws \in WS : HomeIn(s, w) = P!On(o, ws)) = x.workspace
      BY <1>2, <3>1, HomesDiffer
    <3> QED
      BY <1>2, <3>1, <3>2
  <2> QED
    BY <1>2, <2>4, <2>5
<1>4. CASE ~(w \in Linked(s) /\ x.output = o)
  <2>1. SamePlace(x, t.win[w])
    BY <1>4 DEF Gives, OnOutput
  <2>2. HomeIn(t, w) = HomeIn(s, w)
    BY <2>1, SameHome
  <2>3. \A ws \in WS : HomeIn(s, w) # P!On(o, ws)
    <3>1. CASE w \notin Linked(s)
      BY <1>1, <3>1, HomeCases, HomesDiffer
    <3>2. CASE w \in Linked(s) /\ x.in_scratchpad = TRUE
      <4>1. HomeIn(s, w) = P!In(x.tree)
        BY <1>1, <3>2, HomeCases
      <4> QED
        BY <4>1, HomesDiffer
    <3>3. CASE w \in Linked(s) /\ x.in_scratchpad = FALSE
      <4>1. HomeIn(s, w) = P!On(x.output, x.workspace) /\ x.output # o
        BY <1>1, <1>4, <3>3, HomeCases
      <4> QED
        BY <4>1, HomesDiffer
    <3> QED
      BY <1>2, <3>1, <3>2, <3>3
  <2> QED
    BY <2>2, <2>3
<1> QED
  BY <1>3, <1>4

\* What Placement allows to happen to the homes and the monitors, between two states
\* of the server.
SameHomes(s, t) == HomesIn(t) = HomesIn(s) /\ Live(t) = Live(s)
NewHome(s, t, w) ==
    HomesIn(t) = [HomesIn(s) EXCEPT ![w] = HomeIn(t, w)] /\ Live(t) = Live(s)
Placed(s, t) ==
    \/ SameHomes(s, t)
    \/ \E w \in Window :
          /\ NewHome(s, t, w)
          /\ \/ /\ HomeIn(s, w) = P!Closed
                /\ HomeIn(t, w) \in P!Homes(Live(s))
             \/ /\ HomeIn(s, w) # P!Closed
                /\ HomeIn(t, w) = P!Closed
             \/ /\ w = s.kb_focus /\ HomeIn(s, w) # P!Closed
                /\ HomeIn(t, w) \in P!Homes(Live(s))
    \/ \E o \in Output \ Live(s) :
          /\ Live(t) = Live(s) \cup {o}
          /\ HomesIn(t) = Evacuated(s, NoOutput, o)
    \/ \E o \in Output \cap Live(s) :
          /\ Live(t) = Live(s) \ {o}
          /\ \E to \in P!Hosts(Live(t)) : HomesIn(t) = Evacuated(s, o, to)

\* Where no window but w moves, only w gets another home.
LEMMA ShiftsHomes ==
    ASSUME NEW s, NEW t, NEW w, Shifts(s, t, {w})
    PROVE  NewHome(s, t, w)
<1>1. \A v \in Window : v # w => HomeIn(t, v) = HomeIn(s, v)
  BY SameHome DEF Shifts
<1>2. Live(t) = Live(s)
  BY DEF Shifts, Live
<1> QED
  BY <1>1, <1>2 DEF NewHome, HomesIn

\* Where none moves, none does.
LEMMA StaysHomes ==
    ASSUME NEW s, NEW t, Shifts(s, t, {})
    PROVE  SameHomes(s, t)
<1>1. \A v \in Window : HomeIn(t, v) = HomeIn(s, v)
  BY SameHome DEF Shifts
<1>2. Live(t) = Live(s)
  BY DEF Shifts, Live
<1> QED
  BY <1>1, <1>2 DEF SameHomes, HomesIn

\* Every callback is a step of Placement.
LEMMA CallbackPlaced ==
    ASSUME "disable" \notin Events,
           NEW s, Good(s), Hosted(s), AllInTrees(s), NEW t, Callback(s, t)
    PROVE  Placed(s, t)
<1>1. Good(t) /\ Hosted(t) /\ AllInTrees(t)
  BY CallbackGood, CallbackHosted, CallbackInTrees
<1>2. \A w \in Window : s.win[w] \in Toplevel /\ t.win[w] \in Toplevel
  BY <1>1 DEF Good, ServerState
<1>3. ASSUME NEW x, Stays(s, x)
      PROVE  SameHomes(s, x)
  BY <1>3, StaysHomes DEF Stays, Settles
<1>4. ASSUME NEW w \in Window, Shifts(s, t, {w})
      PROVE  NewHome(s, t, w) /\ (w \in Linked(t) => HomeIn(t, w) \in P!Homes(Live(s)))
  <2>1. Live(t) = Live(s)
    BY <1>4 DEF Shifts, Live
  <2> QED
    BY <1>1, <1>4, <2>1, ShiftsHomes, OpenHome
<1>5. CASE Breaks(s, t)
  <2>1. PICK x : Stays(s, x) /\ t = Crash(x)
    BY <1>5 DEF Breaks, Reordered
  <2>2. t.win = x.win /\ Live(t) = Live(x)
    BY <2>1, CrashFields DEF Stays, Good
  <2>3. HomesIn(t) = HomesIn(x)
    BY <2>2 DEF HomesIn, HomeIn
  <2>4. SameHomes(s, x)
    BY <1>3, <2>1
  <2> QED
    BY <2>2, <2>3, <2>4 DEF SameHomes, Placed
<1>6. ASSUME NEW w \in Window, Sends(s, t, w)
      PROVE  Placed(s, t)
  <2>1. PICK x : Puts(s, t, w, x) /\ Goes(s, w, x)
    BY <1>6, SentFields
  <2>2. w \in Linked(t) /\ Shifts(s, t, {w})
    BY <2>1 DEF Puts, Settles, SamePlace, Goes, Linked
  <2>3. w = s.kb_focus /\ HomeIn(s, w) # P!Closed
    BY <1>2, <1>6, HomeCases DEF Sends
  <2> QED
    BY <1>4, <2>2, <2>3 DEF Placed
<1>7. ASSUME NEW w \in Window, Makes(s, t, w)
      PROVE  Placed(s, t)
  <2>1. PICK x : Puts(s, t, w, x) /\ x.life \in {"free", "fresh"}
    BY <1>7, MadeFields
  <2>2. w \notin Linked(t) /\ w \notin Linked(s) /\ Shifts(s, t, {w})
    BY <1>7, <2>1 DEF Puts, Settles, SamePlace, Linked, Makes
  <2>3. HomeIn(t, w) = HomeIn(s, w)
    BY <1>2, <2>2, HomeCases
  <2>4. SameHomes(s, t)
    BY <1>4, <2>2, <2>3 DEF NewHome, SameHomes, HomesIn
  <2> QED
    BY <2>4 DEF Placed
<1>8. ASSUME NEW w \in Window, Maps(s, t, w)
      PROVE  Placed(s, t)
  <2>1. PICK x : Puts(s, t, w, x) /\ Opens(s, w, x)
    BY <1>8 DEF Maps
  <2>2. w \in Linked(t) /\ w \notin Linked(s) /\ Shifts(s, t, {w})
    BY <1>8, <2>1 DEF Puts, Settles, SamePlace, Opens, Linked, Maps
  <2>3. HomeIn(s, w) = P!Closed
    BY <1>2, <2>2, HomeCases
  <2> QED
    BY <1>4, <2>2, <2>3 DEF Placed
<1>9. ASSUME NEW w \in Window, Unmaps(s, t, w)
      PROVE  Placed(s, t)
  <2>1. Shifts(s, t, {w}) /\ t.win[w].life = "unlinked"
    <3>1. [s.win[w] EXCEPT !.life = "unlinked"].life = "unlinked"
      BY <1>2 DEF Toplevel
    <3> QED
      BY <1>9, <3>1 DEF Unmaps, Closes, SamePlace
  <2>2. HomeIn(t, w) = P!Closed /\ HomeIn(s, w) # P!Closed
    BY <1>2, <1>9, <2>1, HomeCases DEF Unmaps, Linked
  <2> QED
    BY <1>4, <2>1, <2>2 DEF Placed
<1>10. ASSUME NEW o \in Output, Plugs(s, t, o)
       PROVE  Placed(s, t)
  <2>1. /\ o \in Output \ Live(s) /\ Live(t) = Live(s) \cup {o}
        /\ Gives(s, t, OnOutput(s, NoOutput), o)
    BY <1>10 DEF Plugs, Hands
  <2>2. HomesIn(t) = Evacuated(s, NoOutput, o)
    BY <2>1, GivesEvacuates
  <2> QED
    BY <2>1, <2>2 DEF Placed
<1>11. ASSUME NEW o \in Output, Unplugs(s, t, o)
       PROVE  Placed(s, t)
  <2>1. PICK to \in Live(t) \cup {NoOutput} :
           /\ Hands(s, t, OnOutput(s, o), to)
           /\ to = NoOutput => Live(t) = {}
    BY <1>11 DEF Unplugs
  <2>2. to \in P!Hosts(Live(t))
    BY <2>1 DEF P!Hosts
  <2>3. HomesIn(t) = Evacuated(s, o, to)
    BY <2>1, GivesEvacuates DEF Hands
  <2>4. o \in Output \cap Live(s) /\ Live(t) = Live(s) \ {o}
    BY <1>11 DEF Unplugs
  <2> QED
    BY <2>2, <2>3, <2>4 DEF Placed
<1>12. CASE Resumes(s, t)
  <2>1. PICK to \in Live(s) : Gives(s, t, OnOutput(s, NoOutput), to)
    BY <1>12 DEF Resumes, Hands
  <2>2. \A w \in Linked(s) : s.win[w].output # NoOutput
    <3>1. Live(s) \subseteq Output
      BY ListedWindows DEF Good
    <3> QED
      BY <2>1, <3>1, NullAssumption DEF Hosted
  <2>3. \A w \in Window : SamePlace(s.win[w], t.win[w])
    BY <2>1, <2>2 DEF Gives, OnOutput
  <2>4. \A w \in Window : HomeIn(t, w) = HomeIn(s, w)
    BY <2>3, SameHome
  <2>5. SameHomes(s, t)
    BY <1>12, <2>4 DEF Resumes, SameHomes, HomesIn
  <2> QED
    BY <2>5 DEF Placed
<1>13. ASSUME Stays(s, t)
       PROVE  Placed(s, t)
  BY <1>3, <1>13 DEF Placed
<1> QED
  BY <1>5, <1>6, <1>7, <1>8, <1>9, <1>10, <1>11, <1>12, <1>13
     DEF Callback, Retains, Reordered, Turns, TurnsOff

\* The keyboard is never given to anything but a window here.
LEMMA CallbackKeyboard ==
    ASSUME NEW s, Good(s), KeyboardHere(s), NEW t, Callback(s, t)
    PROVE  KeyboardHere(t)
<1>1. ASSUME NEW W, NEW x, Shifts(s, x, W)
      PROVE  KeyboardHere(x)
  BY <1>1 DEF Shifts, KeyboardHere
<1>2. CASE Breaks(s, t)
  <2>1. PICK x : Stays(s, x) /\ t = Crash(x)
    BY <1>2 DEF Breaks, Reordered
  <2>2. t.kb_focus = x.kb_focus
    BY <2>1, CrashFields DEF Stays, Good
  <2> QED
    BY <1>1, <2>1, <2>2 DEF Stays, Settles, KeyboardHere
<1>3. ASSUME NEW S, NEW o, Gives(s, t, S, o)
      PROVE  KeyboardHere(t)
  BY <1>3 DEF Gives, KeyboardHere
<1>4. ASSUME NEW w \in Window, Sends(s, t, w) \/ Makes(s, t, w) \/ Maps(s, t, w)
      PROVE  \E x : Puts(s, t, w, x)
  BY <1>4, SentFields, MadeFields DEF Maps
<1> QED
  BY <1>1, <1>2, <1>3, <1>4
     DEF Callback, Retains, Reordered, Stays, Settles, Puts, Turns, Unmaps, Closes,
         Plugs, Unplugs, TurnsOff, Resumes, Hands

\* While no monitor is turned off, whatever callback runs: a window moves only when
\* it has the keyboard and the user moves it, one at a time; a monitor that goes
\* away hands its windows to one other, workspace by workspace; every window is
\* always in one place.  The window manager implements Placement.
THEOREM ImplementsPlacement ==
    ASSUME "disable" \notin Events
    PROVE  Spec => KeepsPlacement
<1> DEFINE I == Good(server) /\ Hosted(server) /\ AllInTrees(server)
                /\ KeyboardHere(server)
<1>1. Init => I
  <2>1. Init => AllInTrees(server) /\ KeyboardHere(server)
    BY InitFields DEF AllInTrees, InTree, KeyboardHere, NewToplevelState
  <2> QED
    BY <2>1, InitGood, InitHosted
<1>2. I /\ [Next]_vars => I'
  <2>1. I /\ Next => /\ Good(server') /\ Hosted(server')
                     /\ AllInTrees(server') /\ KeyboardHere(server')
    BY NextCallback, CallbackGood, CallbackHosted, CallbackInTrees, CallbackKeyboard
  <2>2. I /\ UNCHANGED vars => I'
    BY DEF vars
  <2> QED
    BY <2>1, <2>2
<1>3. [w \in Window |-> Home(w)] = HomesIn(server)
  BY DEF Home, HomesIn, HomeIn, win
<1>4. ([w \in Window |-> Home(w)])' = HomesIn(server')
  BY DEF Home, HomesIn, HomeIn, win
<1>5. Init => P!Init
  <2> SUFFICES ASSUME Init
               PROVE  P!Init
    OBVIOUS
  <2>1. \A w \in Window : Home(w) = P!Closed
    BY InitFields DEF Home, win, NewToplevelState, P!Closed
  <2>2. Live(server) \subseteq Output
    BY InitGood, ListedWindows DEF Good
  <2> QED
    BY <2>1, <2>2, InitFields DEF P!Init
<1>6. I /\ I' /\ [Next]_vars => [P!Next]_<<[w \in Window |-> Home(w)], server.kb_focus, Live(server)>>
  <2>1. ASSUME I, I', Next
        PROVE  P!Next
    <3>1. Placed(server, server')
      BY <2>1, NextCallback, CallbackPlaced
    <3>2. P!Attend
      BY <2>1 DEF P!Attend, KeyboardHere
    <3>3. \A w \in Window : HomesIn(server)[w] = HomeIn(server, w)
      BY DEF HomesIn
    <3>4. CASE SameHomes(server, server')
      BY <1>3, <1>4, <3>2, <3>4 DEF P!Next, SameHomes
    <3>5. ASSUME NEW w \in Window, NewHome(server, server', w),
                 HomeIn(server, w) = P!Closed,
                 HomeIn(server', w) \in P!Homes(Live(server))
          PROVE  P!Open(w)
      BY <1>3, <1>4, <3>3, <3>5 DEF P!Open, NewHome
    <3>6. ASSUME NEW w \in Window, NewHome(server, server', w),
                 HomeIn(server, w) # P!Closed,
                 HomeIn(server', w) = P!Closed
          PROVE  P!Close(w)
      BY <1>3, <1>4, <3>3, <3>6 DEF P!Close, NewHome
    <3>7. ASSUME NEW w \in Window, NewHome(server, server', w),
                 w = server.kb_focus, HomeIn(server, w) # P!Closed,
                 HomeIn(server', w) \in P!Homes(Live(server))
          PROVE  P!Move(w)
      BY <1>3, <1>4, <3>3, <3>7 DEF P!Move, NewHome
    <3>8. ASSUME NEW o \in Output \ Live(server),
                 Live(server') = Live(server) \cup {o},
                 HomesIn(server') = Evacuated(server, NoOutput, o)
          PROVE  P!Connect(o)
      BY <1>3, <1>4, <3>8 DEF P!Connect, P!Evacuate, Evacuated
    <3>9. ASSUME NEW o \in Output \cap Live(server),
                 Live(server') = Live(server) \ {o},
                 NEW to \in P!Hosts(Live(server')),
                 HomesIn(server') = Evacuated(server, o, to)
          PROVE  P!Disconnect(o)
      BY <1>3, <1>4, <3>9 DEF P!Disconnect, P!Evacuate, Evacuated
    <3> QED
      BY <3>1, <3>2, <3>4, <3>5, <3>6, <3>7, <3>8, <3>9 DEF Placed, P!Next
  <2>2. UNCHANGED vars => UNCHANGED <<[w \in Window |-> Home(w)], server.kb_focus, Live(server)>>
    BY DEF vars, Home, win, Live
  <2> QED
    BY <2>1, <2>2
<1> HIDE DEF I
<1> QED
  BY <1>1, <1>2, <1>5, <1>6, PTL DEF Spec, KeepsPlacement, P!Spec

============================================================================
