------------------------ MODULE WindowManagerProofs ------------------------
(***************************************************************************)
(* WindowManager keeps its lists and its pointers to outputs in order, for *)
(* any number of windows, monitors, workspaces and scratchpads, any rules  *)
(* and any configuration.  The inductive invariant Good says it of a       *)
(* server state; most handlers are calm (see WmStateProofs) and keep it    *)
(* for that reason, the others have a lemma of their own.                  *)
(***************************************************************************)
EXTENDS WindowManager, WmStateProofs, FiniteSetTheorems

(***************************************************************************)
(* server->toplevels holds the mapped windows, each once; no monitor is    *)
(* listed twice; mapped windows and the focus refer to connected monitors. *)
(* The parts need each other: unlinking a window leaves the list right     *)
(* because it was in it once, an output found from a window or from the    *)
(* focus is in the list because those pointers are good.                   *)
(***************************************************************************)
Good(s) ==
    /\ s \in ServerState
    /\ Holds(s.toplevels, Linked(s))
    /\ IsInjective(s.outputs)
    /\ GoodPointers(s)

\* A calm step keeps the invariant.
LEMMA GoodCalm ==
    ASSUME NEW s, NEW t, Good(s), Calm(s, t)
    PROVE  Good(t)
BY CalmKeeps DEF Good

\* What the invariant says of the focus.
LEMMA GoodFocus ==
    ASSUME NEW s, Good(s)
    PROVE  /\ s \in ServerState /\ s.focused_output \in Live(s) \cup {NoOutput}
           /\ FocusedToplevel(s) \in Linked(s) \cup {NoWindow}
           /\ \A w \in Linked(s) : /\ w \in Window /\ s.win[w].output \in Live(s) \cup {NoOutput}
                                   /\ s.win[w].output \in Output \cup {NoOutput}
BY ListedWindows, FoundWindows DEF Good, GoodPointers, Linked

----------------------------------------------------------------------------
(* Calm handlers *)

\* The visibility sweep of switch_to is calm.
LEMMA CalmSweepVisibility ==
    ASSUME NEW s \in ServerState
    PROVE  Calm(s, SweepVisibility(s))
<1> DEFINE S == {w \in Linked(s) : ~s.win[w].in_scratchpad}
           f == [w \in Window |->
                    IF w \in S
                    THEN [s.win[w] EXCEPT
                             !.enabled = OnActiveWorkspace(s, s.win[w])]
                    ELSE s.win[w]]
<1>1. SweepVisibility(s) = [s EXCEPT !.win = f]
  BY DEF SweepVisibility, Sweep
<1> HIDE DEF S
<1>2. ASSUME NEW w \in Window
      PROVE  f[w] \in Toplevel /\ SamePlace(s.win[w], f[w])
  <2> DEFINE e == OnActiveWorkspace(s, s.win[w])
             x == [s.win[w] EXCEPT !.enabled = e]
  <2>1. e \in BOOLEAN /\ s.win[w] \in Toplevel
    BY DEF OnActiveWorkspace, ServerState
  <2>2. CASE w \notin S
    BY <2>1, <2>2 DEF SamePlace
  <2>3. CASE w \in S
    <3>1. f[w] = x /\ s.win[w].life = "linked" /\ ~s.win[w].in_scratchpad
      BY <2>3 DEF Linked, S
    <3> HIDE DEF e, f, S
    <3> QED
      BY <2>1, <3>1 DEF Toplevel, SamePlace
  <2> QED
    BY <2>2, <2>3
<1>3. f \in [Window -> Toplevel]
  BY <1>2
<1> HIDE DEF f
<1> QED
  BY <1>1, <1>2, <1>3, CalmWin

\* workspace::switch_to
LEMMA CalmSwitchTo ==
    ASSUME NEW s, Good(s), NEW to \in WS
    PROVE  Calm(s, SwitchTo(s, to))
<1> DEFINE o == s.focused_output
           active == s.out[o].active_workspace
           ws == IF to = active /\ BackAndForth
                 THEN s.out[o].prev_workspace ELSE to
           r == [s EXCEPT !.out[o].prev_workspace = active,
                          !.out[o].active_workspace = ws]
           t == SweepVisibility(r)
           last == t.out[o].last_focused[ws]
           next == IF /\ last # NoWindow
                      /\ t.win[last].output = o /\ t.win[last].workspace = ws
                   THEN last
                   ELSE Or(FirstIn(t, Tiled(t, o)), FirstIn(t, Floats(t, o)))
           u == FocusOrClear(t, next)
<1>1. s \in ServerState /\ o \in Live(s) \cup {NoOutput}
  BY GoodFocus
<1>2. CASE o = NoOutput \/ s.crashed \/ ws = active
  <2>1. SwitchTo(s, to) = s
    BY <1>2 DEF SwitchTo
  <2> QED
    BY <1>1, <2>1, CalmSame
<1>3. CASE ~(o = NoOutput \/ s.crashed \/ ws = active)
  <2>1. \/ /\ last # NoWindow /\ t.win[last].life = "free"
           /\ SwitchTo(s, to) = Crash(t)
        \/ SwitchTo(s, to) = ArrangeOutput(u, o)
    <3> HIDE DEF u
    <3>1. SwitchTo(s, to) =
            IF o = NoOutput \/ s.crashed THEN s
            ELSE IF ws = active THEN s
            ELSE IF last # NoWindow /\ t.win[last].life = "free" THEN Crash(t)
            ELSE ArrangeOutput(u, o)
      BY Zenon DEF SwitchTo, u
    <3> QED
      BY <1>3, <3>1
  <2>2. o \in Output
    BY <1>1, <1>3 DEF ServerState
  <2>3. s.out \in [Output -> OutputState] /\ s.out[o] \in OutputState
    BY <1>1, <2>2 DEF ServerState
  <2>4. active \in WS /\ ws \in WS
    BY <2>3 DEF OutputState
  <2> DEFINE g == [s.out EXCEPT ![o].prev_workspace = active,
                                ![o].active_workspace = ws]
  <2>5. r = [s EXCEPT !.out = g]
    BY <1>1, <2>2, <2>3 DEF ServerState
  <2> HIDE DEF active, ws
  <2>6. /\ g \in [Output -> OutputState]
        /\ \A p \in Output : g[p].last_focused = s.out[p].last_focused
    BY <2>2, <2>3, <2>4 DEF OutputState
  <2> HIDE DEF g, r
  <2>7. Calm(s, r) /\ r \in ServerState
    <3>1. \A p \in Live(s) : g[p].last_focused = s.out[p].last_focused
      BY <1>1, <2>6, ListedWindows
    <3> QED
      BY <1>1, <2>5, <2>6, <3>1, CalmOut, CalmKeeps
  <2>8. Calm(s, t) /\ t \in ServerState
    BY <2>7, CalmSweepVisibility, CalmChain, CalmKeeps
  <2>9. o \in Live(t)
    BY <1>1, <1>3, <2>8, CalmKeeps
  <2> HIDE DEF t, o
  <2>10. /\ last \in Window \cup {NoWindow}
         /\ Sound(t) => last \in Linked(t) \cup {NoWindow}
    BY <2>2, <2>4, <2>8, <2>9, FoundWindows DEF Sound, Remembered, Owns
  <2> HIDE DEF last
  <2>11. /\ next \in Window \cup {NoWindow}
         /\ Sound(t) => next \in Linked(t) \cup {NoWindow}
    <3>1. /\ FirstIn(t, Tiled(t, o)) \in Linked(t) \cup {NoWindow}
          /\ FirstIn(t, Floats(t, o)) \in Linked(t) \cup {NoWindow}
          /\ Linked(t) \subseteq Window
      BY <2>8, FoundLinked, FoundWindows DEF Tiled, Floats
    <3> QED
      BY <2>10, <3>1 DEF Or
  <2> HIDE DEF next
  <2>12. Calm(t, u) /\ u \in ServerState /\ o \in Live(u)
    <3>1. Calm(t, u)
      BY <2>8, <2>11, CalmFocusOrClear
    <3> HIDE DEF u
    <3> QED
      BY <2>9, <3>1, CalmKeeps
  <2> HIDE DEF u
  <2>13. Calm(s, ArrangeOutput(u, o))
    <3>1. Calm(u, ArrangeOutput(u, o))
      BY <2>12, CalmArrangeOutput
    <3> QED
      BY <2>8, <2>12, <3>1, CalmChain
  <2>14. ASSUME last # NoWindow, t.win[last].life = "free"
         PROVE  Calm(s, Crash(t))
    <3>1. ~Sound(t)
      BY <2>10, <2>14 DEF Linked
    <3> QED
      BY <2>8, <3>1, CalmCrash, CalmChain
  <2> QED
    BY <2>1, <2>13, <2>14
<1> QED
  BY <1>2, <1>3

\* monitor::focus_next and focus_prev
LEMMA CalmFocusMonitor ==
    ASSUME NEW s, Good(s), NEW step
    PROVE  Calm(s, FocusMonitor(s, step))
<1> DEFINE o == s.focused_output
           next == CycleOutput(s, o, step)
           t == [s EXCEPT !.focused_output = next]
           w == FirstIn(s, Tiled(s, next))
<1>1. s \in ServerState /\ o \in Live(s) \cup {NoOutput}
  BY DEF Good, GoodPointers
<1>2. CASE o = NoOutput \/ next = NoOutput
  BY <1>1, <1>2, CalmSame DEF FocusMonitor
<1>3. CASE o # NoOutput /\ next # NoOutput
  <2>1. next \in Live(s)
    BY <1>1, <1>3, OutputsFound
  <2>2. FocusMonitor(s, step) = FocusOrClear(t, w)
    BY <1>3 DEF FocusMonitor
  <2>3. w \in Linked(s) \cup {NoWindow} /\ w \in Window \cup {NoWindow}
    BY <1>1, FoundLinked, FoundWindows DEF Tiled
  <2> HIDE DEF next, w
  <2>4. Calm(s, t) /\ t \in ServerState /\ Linked(t) = Linked(s)
    BY <1>1, <2>1, CalmFields, CalmKeeps
  <2> HIDE DEF t
  <2>5. Calm(t, FocusOrClear(t, w))
    BY <2>3, <2>4, CalmFocusOrClear
  <2> QED
    BY <2>2, <2>4, <2>5, CalmChain
<1> QED
  BY <1>2, <1>3

\* toggle_float, do_toggle_fullscreen, do_toggle_fake_fullscreen, toggle_sticky:
\* a window that is not mapped may refer to an output that is gone.
LEMMA CalmToggleFlag ==
    ASSUME NEW s, Good(s), NEW w \in Window, NEW f \in Flag
    PROVE  /\ w \in Linked(s) => Calm(s, ToggleFlag(s, w, f))
           /\ \E t : Calm(s, t) /\ (\/ Calm(t, ToggleFlag(s, w, f))
                                    \/ ToggleFlag(s, w, f) = Crash(t))
<1> DEFINE g == IF f \in s.win[w].flags THEN s.win[w].flags \ {f}
                ELSE s.win[w].flags \cup {f}
           x == [s.win[w] EXCEPT !.flags = g]
           t == [s EXCEPT !.win[w] = x]
           o == s.win[w].output
<1>1. s \in ServerState /\ s.win[w] \in Toplevel
  BY DEF Good, ServerState
<1>2. g \in SUBSET Flag
  BY <1>1 DEF Toplevel
<1>3. t = [s EXCEPT !.win[w].flags = IF f \in @ THEN @ \ {f} ELSE @ \cup {f}]
  BY <1>1 DEF ServerState, Toplevel
<1> HIDE DEF g
<1>4. x \in Toplevel /\ SamePlace(s.win[w], x)
  BY <1>1, <1>2 DEF Toplevel, SamePlace
<1> HIDE DEF x
<1>5. Calm(s, t) /\ t \in ServerState /\ Live(t) = Live(s)
  BY <1>1, <1>4, CalmWindow, CalmKeeps
<1>6. ToggleFlag(s, w, f) = ArrangeOutput(t, o)
  <2> HIDE DEF t
  <2> QED
    BY <1>3 DEF ToggleFlag
<1> HIDE DEF t
<1>7. o \in Live(s) \cup {NoOutput} => Calm(t, ArrangeOutput(t, o))
  BY <1>5, CalmArrangeOutput
<1>8. o \notin Live(s) \cup {NoOutput} => ArrangeOutput(t, o) = Crash(t)
  BY <1>5 DEF ArrangeOutput
<1>9. w \in Linked(s) => Calm(s, ToggleFlag(s, w, f))
  BY <1>5, <1>6, <1>7, GoodFocus, CalmChain
<1> QED
  BY <1>5, <1>6, <1>7, <1>8, <1>9

\* layout::set_layout and the layout keys that end in it
LEMMA CalmLayouts ==
    ASSUME NEW s, Good(s), NEW mode \in Layout
    PROVE  /\ Calm(s, SetLayout(s, mode))
           /\ Calm(s, ToggleLayout(s, mode))
           /\ Calm(s, CycleLayout(s, mode))
<1>0. s \in ServerState /\ s.focused_output \in Live(s) \cup {NoOutput}
  BY GoodFocus
<1>1. ASSUME NEW m \in Layout
      PROVE  Calm(s, SetLayout(s, m))
  <2> DEFINE o == s.focused_output
             ws == s.out[o].active_workspace
             g == [s.out EXCEPT ![o].layout_mode[ws] = m]
             t == [s EXCEPT !.out = g]
  <2>1. CASE o = NoOutput
    BY <1>0, <2>1, CalmSame DEF SetLayout
  <2>2. CASE o # NoOutput
    <3>1. o \in Output
      BY <1>0, <2>2 DEF ServerState
    <3>2. s.out[o] \in OutputState /\ s.out \in [Output -> OutputState]
      BY <1>0, <3>1 DEF ServerState
    <3>3. ws \in WS
      BY <3>2 DEF OutputState
    <3>4. t = [s EXCEPT !.out[o].layout_mode[ws] = m]
      BY <1>0 DEF ServerState
    <3>5. SetLayout(s, m) = ArrangeOutput(t, o)
      <4> HIDE DEF t
      <4> QED
        BY <2>2, <3>4 DEF SetLayout
    <3> HIDE DEF ws
    <3>6. [s.out[o] EXCEPT !.layout_mode[ws] = m] \in OutputState
      BY <3>2, <3>3 DEF OutputState
    <3>7. /\ g \in [Output -> OutputState]
          /\ \A p \in Live(s) : g[p].last_focused = s.out[p].last_focused
      BY <1>0, <3>1, <3>2, <3>6, ListedWindows DEF OutputState
    <3> HIDE DEF g
    <3>8. Calm(s, t) /\ t \in ServerState /\ o \in Live(t)
      BY <1>0, <2>2, <3>7, CalmOut, CalmKeeps
    <3> HIDE DEF t
    <3>9. Calm(t, ArrangeOutput(t, o))
      BY <3>8, CalmArrangeOutput
    <3> QED
      BY <3>5, <3>8, <3>9, CalmChain
  <2> QED
    BY <2>1, <2>2
<1>2. "tile" \in Layout
  BY DEF Layout
<1>3. Calm(s, ToggleLayout(s, mode))
  BY <1>0, <1>1, <1>2, CalmSame DEF ToggleLayout
<1> QED
  BY <1>0, <1>1, <1>3, CalmSame DEF CycleLayout

\* focus::left .. focus::mode_toggle
LEMMA CalmFocusCommands ==
    ASSUME NEW s \in ServerState
    PROVE  /\ Calm(s, FocusLeft(s)) /\ Calm(s, FocusRight(s))
           /\ Calm(s, FocusNext(s)) /\ Calm(s, FocusPrev(s))
           /\ Calm(s, FocusNextFloat(s)) /\ Calm(s, FocusPrevFloat(s))
           /\ Calm(s, FocusOtherMode(s))
<1>1. /\ Walked(s) \subseteq Linked(s) /\ WalkedFloats(s) \subseteq Linked(s)
      /\ Linked(s) \subseteq Window
  BY FoundWindows DEF Walked, WalkedFloats, InPad, Tiled, Floats
<1>2. \A S, w : S \subseteq Linked(s) =>
                    /\ FirstIn(s, S) \in Linked(s) \cup {NoWindow}
                    /\ LastIn(s, S) \in Linked(s) \cup {NoWindow}
                    /\ NextIn(s, S, w) \in Linked(s) \cup {NoWindow}
                    /\ PrevIn(s, S, w) \in Linked(s) \cup {NoWindow}
  BY FoundLinked
<1>3. \A w \in Linked(s) \cup {NoWindow} : Calm(s, FocusToplevel(s, w))
  BY <1>1, CalmFocusToplevel
<1>4. \A S : S \subseteq Linked(s) =>
                 /\ Following(s, S) \in Linked(s) \cup {NoWindow}
                 /\ Preceding(s, S) \in Linked(s) \cup {NoWindow}
  <2> SUFFICES ASSUME NEW S, S \subseteq Linked(s)
               PROVE  /\ Following(s, S) \in Linked(s) \cup {NoWindow}
                      /\ Preceding(s, S) \in Linked(s) \cup {NoWindow}
    OBVIOUS
  <2> QED
    BY <1>2 DEF Following, Preceding, Or
<1>5. Calm(s, FocusLeft(s)) /\ Calm(s, FocusRight(s))
  BY <1>1, <1>2, <1>3, CalmSame DEF FocusLeft, FocusRight
<1>6. Calm(s, FocusNext(s)) /\ Calm(s, FocusPrev(s))
  BY <1>1, <1>3, <1>4, CalmSame DEF FocusNext, FocusPrev
<1>7. Calm(s, FocusNextFloat(s)) /\ Calm(s, FocusPrevFloat(s))
  BY <1>1, <1>3, <1>4 DEF FocusNextFloat, FocusPrevFloat
<1>8. Calm(s, FocusOtherMode(s))
  BY <1>1, <1>2, <1>3, CalmSame DEF FocusOtherMode
<1> QED
  BY <1>5, <1>6, <1>7, <1>8

\* foreign_handle_request_activate
LEMMA CalmForeignActivate ==
    ASSUME NEW s, Good(s), NEW w \in Linked(s)
    PROVE  Calm(s, ForeignActivate(s, w))
<1> DEFINE o == s.win[w].output
           ws == s.win[w].workspace
           t == IF ws # s.out[o].active_workspace THEN SwitchTo(s, ws) ELSE s
<1>1. s \in ServerState /\ w \in Window
  BY GoodFocus
<1>2. ws \in WS
  BY <1>1 DEF ServerState, Toplevel
<1>3. Calm(s, t) /\ t \in ServerState /\ Linked(t) = Linked(s)
  BY <1>1, <1>2, CalmSwitchTo, CalmSame, CalmKeeps
<1>4. ForeignActivate(s, w) \in {s, FocusToplevel(t, w)}
  BY DEF ForeignActivate
<1> HIDE DEF t
<1>5. Calm(t, FocusToplevel(t, w))
  BY <1>1, <1>3, CalmFocusToplevel
<1> QED
  BY <1>1, <1>3, <1>4, <1>5, CalmSame, CalmChain

----------------------------------------------------------------------------
(* Handlers that move the focused window *)

\* The windows may change in any way that keeps each life and leaves every
\* mapped window on a live output or on none.
LEMMA GoodWindows ==
    ASSUME NEW s \in ServerState, Holds(s.toplevels, Linked(s)),
           IsInjective(s.outputs),
           s.focused_output \in Live(s) \cup {NoOutput},
           NEW f \in [Window -> Toplevel],
           \A w \in Window : f[w].life = s.win[w].life,
           \A w \in Linked(s) : f[w].output \in Live(s) \cup {NoOutput}
    PROVE  Good([s EXCEPT !.win = f])
<1> DEFINE t == [s EXCEPT !.win = f]
<1>1. /\ t \in ServerState /\ t.toplevels = s.toplevels /\ t.win = f
      /\ t.outputs = s.outputs /\ t.focused_output = s.focused_output
  BY DEF ServerState
<1> HIDE DEF t
<1>2. Linked(t) = Linked(s) /\ Live(t) = Live(s)
  BY <1>1 DEF Linked, Live
<1>3. GoodPointers(t)
  BY <1>1, <1>2 DEF GoodPointers
<1>4. Good(t)
  BY <1>1, <1>2, <1>3 DEF Good
<1> QED
  BY <1>4 DEF t

\* The window w goes to the place that x names; no other window moves.
Puts(s, t, w, x) ==
    /\ Good(t) /\ Settles(s, t, {w})
    /\ t.shown_pads = s.shown_pads
    /\ SamePlace(x, t.win[w])

\* What follows calmly does not matter.
LEMMA PutsCalm ==
    ASSUME NEW s, NEW t, NEW u, NEW w \in Window, NEW x, Puts(s, t, w, x), Calm(t, u)
    PROVE  Puts(s, u, w, x)
<1>1. Good(u)
  BY GoodCalm DEF Puts
<1>2. Settles(s, u, {w})
  BY SettlesCalm DEF Puts, Good
<1>3. SamePlace(x, u.win[w])
  <2>1. SamePlace(x, t.win[w]) /\ SamePlace(t.win[w], u.win[w])
    BY CalmKeeps DEF Puts
  <2> QED
    BY <2>1 DEF SamePlace
<1> QED
  BY <1>1, <1>2, <1>3 DEF Puts, Calm

\* What all these handlers begin with: last_focused forgets the window, and its
\* fields are assigned.
LEMMA MoveBegins ==
    ASSUME NEW s, Good(s), NEW w \in Linked(s), NEW x \in Toplevel,
           x.life = "linked", x.output \in Live(s) \cup {NoOutput}
    PROVE  LET t == [ForgetFocus(s, s.win[w].output, w) EXCEPT !.win[w] = x]
           IN  Puts(s, t, w, x)
<1> DEFINE r == ForgetFocus(s, s.win[w].output, w)
           f == [r.win EXCEPT ![w] = x]
           t == [r EXCEPT !.win[w] = x]
<1>1. s \in ServerState /\ w \in Window /\ s.win[w].output \in Output \cup {NoOutput}
  BY GoodFocus
<1>2. Calm(s, r) /\ Good(r) /\ r \in ServerState
  BY <1>1, CalmForgetFocus, GoodCalm DEF Good
<1>3. Linked(r) = Linked(s) /\ Live(r) = Live(s)
  BY <1>2, CalmKeeps
<1> HIDE DEF r
<1>4. /\ f \in [Window -> Toplevel] /\ f[w] = x
      /\ \A v \in Window : v # w => f[v] = r.win[v]
      /\ t = [r EXCEPT !.win = f]
  BY <1>1, <1>2 DEF ServerState
<1>5. \A v \in Window : f[v].life = r.win[v].life
  BY <1>3, <1>4 DEF Linked
<1> HIDE DEF f
<1>6. Good(t)
  <2>1. \A v \in Linked(r) : f[v].output \in Live(r) \cup {NoOutput}
    BY <1>2, <1>3, <1>4 DEF Good, GoodPointers, Linked
  <2>2. /\ r \in ServerState /\ Holds(r.toplevels, Linked(r)) /\ IsInjective(r.outputs)
        /\ r.focused_output \in Live(r) \cup {NoOutput}
    BY <1>2 DEF Good, GoodPointers
  <2>3. Good([r EXCEPT !.win = f])
    BY <1>4, <1>5, <2>1, <2>2, GoodWindows
  <2> QED
    BY <1>4, <2>3
<1>7. /\ t \in ServerState /\ t.win = f /\ t.outputs = r.outputs /\ t.out = r.out
      /\ t.focused_output = r.focused_output /\ t.kb_focus = r.kb_focus
      /\ t.toplevels = r.toplevels /\ t.shown_pads = r.shown_pads
      /\ t.crashed = r.crashed
  BY <1>2, <1>4 DEF ServerState
<1> HIDE DEF t
<1>8. Settles(r, t, {w})
  <2>1. t.win[w].life = "linked" /\ (Sound(r) => Forgotten(r, w))
    BY <1>1, <1>4, <1>7, FocusForgotten DEF r
  <2> QED
    BY <1>1, <1>2, <1>4, <1>7, <2>1, Replaced
<1>9. Settles(s, t, {w})
  BY <1>2, <1>8, CalmSettles
<1>10. t.shown_pads = s.shown_pads
  BY <1>2, <1>7 DEF Calm
<1>11. SamePlace(x, t.win[w])
  BY <1>4, <1>7 DEF SamePlace
<1>12. Puts(s, t, w, x)
  BY <1>6, <1>9, <1>10, <1>11 DEF Puts
<1> QED
  BY <1>12 DEF t, r

\* The fallback of the focus and the layout that follow are calm.
LEMMA MoveEnds ==
    ASSUME NEW s, Good(s), NEW o \in Live(s)
    PROVE  Calm(s, ArrangeOutput(FocusActive(s, o), o))
<1> DEFINE t == FocusActive(s, o)
<1>1. s \in ServerState /\ o \in Output
  BY ListedWindows DEF Good
<1>2. Calm(s, t)
  BY <1>1, CalmFocusActive
<1> HIDE DEF t
<1>3. Calm(t, ArrangeOutput(t, o))
  BY <1>2, CalmKeeps, CalmArrangeOutput
<1> QED
  BY <1>2, <1>3, CalmChain DEF t

\* workspace::move_to
LEMMA MoveToWorkspaceMoves ==
    ASSUME NEW s, Good(s), NEW ws \in WS
    PROVE  LET w == FocusedToplevel(s)
               t == MoveToWorkspace(s, ws)
           IN  \/ t = s
               \/ /\ w \in Linked(s)
                  /\ \E b \in BOOLEAN :
                        Puts(s, t, w, [s.win[w] EXCEPT
                                           !.in_scratchpad = FALSE, !.tree = "windows",
                                           !.workspace = ws, !.enabled = b])
<1> DEFINE w == FocusedToplevel(s)
           o == s.win[w].output
           r == ForgetFocus(s, o, w)
           b == IF o = NoOutput THEN s.win[w].enabled ELSE s.out[o].active_workspace = ws
           moved == [r.win[w] EXCEPT
                        !.in_scratchpad = FALSE, !.tree = "windows",
                        !.workspace = ws,
                        !.enabled = IF o = NoOutput THEN @
                                    ELSE s.out[o].active_workspace = ws]
           x == [s.win[w] EXCEPT !.in_scratchpad = FALSE, !.tree = "windows",
                                 !.workspace = ws, !.enabled = b]
           u == [r EXCEPT !.win[w] = moved]
           v == FocusActive(u, o)
           t == MoveToWorkspace(s, ws)
<1>1. s \in ServerState /\ w \in Linked(s) \cup {NoWindow}
  BY GoodFocus
<1>2. \/ w = NoWindow /\ t = s
      \/ w # NoWindow /\ t \in {s, u}
      \/ w # NoWindow /\ o # NoOutput /\ t = ArrangeOutput(v, o)
  <2> HIDE DEF u
  <2>1. t = IF w = NoWindow THEN s
            ELSE IF ~s.win[w].in_scratchpad /\ s.win[w].workspace = ws THEN s
            ELSE IF o = NoOutput THEN u
            ELSE ArrangeOutput(v, o)
    BY Zenon DEF MoveToWorkspace, u
  <2> HIDE DEF t, v, o, w
  <2> QED
    BY <2>1
<1> HIDE DEF t
<1>3. CASE w = NoWindow
  BY <1>2, <1>3 DEF t
<1>4. CASE w # NoWindow
  <2>1. /\ w \in Linked(s) /\ w \in Window
        /\ o \in Live(s) \cup {NoOutput} /\ s.win[w] \in Toplevel
    BY <1>1, <1>4, GoodFocus DEF ServerState
  <2>2. r.win = s.win
    BY <1>1, ForgetFocusKeeps
  <2> HIDE DEF w, o
  <2>3. b \in BOOLEAN
    BY <2>1 DEF Toplevel
  <2>4. moved = x
    BY <2>1, <2>2
  <2> HIDE DEF r, b, moved
  <2>5. x \in Toplevel /\ x.life = "linked" /\ x.output = o
    BY <2>1, <2>3 DEF Toplevel, Linked, o
  <2>6. Puts(s, u, w, x)
    <3> HIDE DEF x
    <3> QED
      BY <2>1, <2>4, <2>5, MoveBegins DEF r, o
  <2> HIDE DEF u, x
  <2>7. o # NoOutput => Puts(s, ArrangeOutput(v, o), w, x)
    <3>1. o # NoOutput => Calm(u, ArrangeOutput(v, o))
      BY <2>1, <2>6, MoveEnds DEF Puts, Settles, Shifts, Live
    <3> HIDE DEF v
    <3> QED
      BY <2>1, <2>6, <3>1, PutsCalm
  <2>8. t = s \/ Puts(s, t, w, x)
    BY <1>2, <1>4, <2>6, <2>7
  <2> QED
    BY <2>1, <2>3, <2>8, Zenon DEF x, w, t
<1> QED
  BY <1>3, <1>4

\* scratchpad::move_to and named_scratchpad::move_to
LEMMA MoveToScratchpadMoves ==
    ASSUME NEW s, Good(s), NEW p \in Pad
    PROVE  LET w == FocusedToplevel(s)
               t == MoveToScratchpad(s, p)
           IN  \/ t = s
               \/ /\ w \in Linked(s)
                  /\ \E f \in SUBSET Flag :
                        Puts(s, t, w, [s.win[w] EXCEPT
                                           !.in_scratchpad = TRUE,
                                           !.scratchpad_name = IF p = Global THEN @ ELSE p,
                                           !.flags = f, !.tree = p,
                                           !.enabled = p \in s.shown_pads])
<1> DEFINE w == FocusedToplevel(s)
           o == s.win[w].output
           r == ForgetFocus(s, o, w)
           f == s.win[w].flags \ {"floating"}
           n == IF p = Global THEN s.win[w].scratchpad_name ELSE p
           b == p \in s.shown_pads
           moved == [r.win[w] EXCEPT
                        !.in_scratchpad = TRUE,
                        !.scratchpad_name = IF p = Global THEN @ ELSE p,
                        !.flags = @ \ {"floating"}, !.tree = p,
                        !.enabled = p \in s.shown_pads]
           x == [s.win[w] EXCEPT
                        !.in_scratchpad = TRUE,
                        !.scratchpad_name = IF p = Global THEN @ ELSE p,
                        !.flags = f, !.tree = p,
                        !.enabled = p \in s.shown_pads]
           y == [s.win[w] EXCEPT !.in_scratchpad = TRUE, !.scratchpad_name = n,
                                 !.flags = f, !.tree = p, !.enabled = b]
           u == [r EXCEPT !.win[w] = moved]
           v == FocusActive(u, o)
           t == MoveToScratchpad(s, p)
<1>1. s \in ServerState /\ w \in Linked(s) \cup {NoWindow}
  BY GoodFocus
<1>2. \/ w = NoWindow /\ t = s
      \/ w # NoWindow /\ t \in {s, u}
      \/ w # NoWindow /\ o # NoOutput /\ t = ArrangeOutput(v, o)
  <2> HIDE DEF u
  <2>1. t = IF w = NoWindow THEN s
            ELSE IF s.win[w].in_scratchpad THEN s
            ELSE IF o = NoOutput THEN u
            ELSE ArrangeOutput(v, o)
    BY Zenon DEF MoveToScratchpad, u
  <2> HIDE DEF t, v, o, w
  <2> QED
    BY <2>1
<1> HIDE DEF t
<1>3. CASE w = NoWindow
  BY <1>2, <1>3 DEF t
<1>4. CASE w # NoWindow
  <2>1. /\ w \in Linked(s) /\ w \in Window
        /\ o \in Live(s) \cup {NoOutput} /\ s.win[w] \in Toplevel
    BY <1>1, <1>4, GoodFocus DEF ServerState
  <2>2. r.win = s.win
    BY <1>1, ForgetFocusKeeps
  <2> HIDE DEF w, o
  <2>3. n \in Pad /\ f \in SUBSET Flag /\ b \in BOOLEAN
    BY <2>1 DEF Toplevel
  <2>4. moved = y /\ x = y
    BY <2>1, <2>2 DEF Toplevel
  <2> HIDE DEF r, b, n, f, moved, x
  <2>5. y \in Toplevel /\ y.life = "linked" /\ y.output = o
    BY <2>1, <2>3 DEF Toplevel, Linked, o
  <2>6. Puts(s, u, w, x)
    <3> HIDE DEF y
    <3> QED
      BY <2>1, <2>4, <2>5, MoveBegins DEF r, o
  <2> HIDE DEF u, y
  <2>7. o # NoOutput => Puts(s, ArrangeOutput(v, o), w, x)
    <3>1. o # NoOutput => Calm(u, ArrangeOutput(v, o))
      BY <2>1, <2>6, MoveEnds DEF Puts, Settles, Shifts, Live
    <3> HIDE DEF v
    <3> QED
      BY <2>1, <2>6, <3>1, PutsCalm
  <2>8. t = s \/ Puts(s, t, w, x)
    BY <1>2, <1>4, <2>6, <2>7
  <2> QED
    BY <2>1, <2>3, <2>8, Zenon DEF x, w, t
<1> QED
  BY <1>3, <1>4

\* move_to_monitor
LEMMA MoveToMonitorMoves ==
    ASSUME NEW s, Good(s), NEW step
    PROVE  LET w == FocusedToplevel(s)
               t == MoveToMonitor(s, step)
           IN  \/ t = s
               \/ /\ w \in Linked(s)
                  /\ \E dst \in Live(s), ws \in WS :
                        Puts(s, t, w, [s.win[w] EXCEPT !.output = dst, !.enabled = TRUE,
                                                       !.workspace = ws])
<1> DEFINE w == FocusedToplevel(s)
           src == s.win[w].output
           dst == CycleOutput(s, src, step)
           ws == s.out[dst].active_workspace
           r == ForgetFocus(s, src, w)
           moved == [r.win[w] EXCEPT
                        !.output = dst, !.enabled = TRUE,
                        !.workspace = s.out[dst].active_workspace]
           x == [s.win[w] EXCEPT !.output = dst, !.enabled = TRUE, !.workspace = ws]
           u == [r EXCEPT !.win[w] = moved]
           first == FirstIn(u, Tiled(u, src))
           v == FocusOrClear(u, first)
           g == [v EXCEPT !.focused_output = dst]
           y == FocusToplevel(g, w)
           t == MoveToMonitor(s, step)
<1>1. s \in ServerState /\ w \in Linked(s) \cup {NoWindow}
  BY GoodFocus
<1>2. t = IF w = NoWindow THEN s
          ELSE IF src = NoOutput THEN s
          ELSE IF dst = NoOutput THEN s
          ELSE Arrange(y, {src, dst})
  BY Zenon DEF MoveToMonitor
<1> HIDE DEF t
<1>3. CASE w = NoWindow \/ src = NoOutput \/ dst = NoOutput
  <2>1. t = s
    BY <1>2, <1>3
  <2> QED
    BY <2>1 DEF t
<1>4. CASE ~(w = NoWindow \/ src = NoOutput \/ dst = NoOutput)
  <2>1. /\ w \in Linked(s) /\ w \in Window /\ s.win[w] \in Toplevel
        /\ src \in Live(s)
    BY <1>1, <1>4, GoodFocus DEF ServerState
  <2>2. dst \in Live(s) /\ dst \in Output
    <3>1. CycleOutput(s, src, step) \in Live(s) \cup {NoOutput}
      BY <1>1, <2>1, OutputsFound
    <3> QED
      BY <1>1, <1>4, <3>1, ListedWindows
  <2>3. ws \in WS
    BY <1>1, <2>2 DEF ServerState, OutputState
  <2>4. r.win = s.win
    BY <1>1, ForgetFocusKeeps
  <2> HIDE DEF w, src, dst
  <2>5. moved = x
    BY <2>4
  <2> HIDE DEF r, moved, ws
  <2>6. x \in Toplevel /\ x.life = "linked" /\ x.output = dst
    BY <2>1, <2>2, <2>3 DEF Toplevel, Linked
  <2> HIDE DEF x
  <2>7. Puts(s, u, w, x) /\ w \in Linked(u)
    <3>1. Puts(s, u, w, x)
      BY <2>1, <2>2, <2>5, <2>6, MoveBegins DEF r, src
    <3> QED
      BY <2>1, <2>6, <3>1 DEF Puts, SamePlace, Linked
  <2> HIDE DEF u
  <2>8. u \in ServerState /\ Live(u) = Live(s)
    BY <2>7 DEF Puts, Good, Settles, Shifts, Live
  <2>9. first \in Linked(u) \cup {NoWindow} /\ first \in Window \cup {NoWindow}
    BY <2>8, FoundLinked, FoundWindows DEF Tiled
  <2> HIDE DEF first
  <2>10. Calm(u, v) /\ v \in ServerState /\ Live(v) = Live(s) /\ Linked(v) = Linked(u)
    <3>1. Calm(u, v)
      BY <2>8, <2>9, CalmFocusOrClear
    <3> HIDE DEF v
    <3> QED
      BY <2>8, <3>1, CalmKeeps
  <2> HIDE DEF v
  <2>11. Calm(v, g) /\ g \in ServerState /\ Live(g) = Live(s) /\ Linked(g) = Linked(u)
    <3>1. Calm(v, g)
      BY <2>2, <2>10, CalmFields
    <3> HIDE DEF g
    <3> QED
      BY <2>10, <3>1, CalmKeeps
  <2> HIDE DEF g
  <2>12. Calm(g, y) /\ y \in ServerState /\ Live(y) = Live(s)
    <3>1. Calm(g, y)
      BY <2>1, <2>7, <2>11, CalmFocusToplevel
    <3> HIDE DEF y
    <3> QED
      BY <2>11, <3>1, CalmKeeps
  <2> HIDE DEF y
  <2>13. Calm(y, Arrange(y, {src, dst}))
    BY <2>1, <2>2, <2>12, CalmArrange
  <2>14. Calm(u, Arrange(y, {src, dst}))
    BY <2>10, <2>11, <2>12, <2>13, CalmChain
  <2>15. Puts(s, t, w, x)
    BY <1>2, <1>4, <2>1, <2>7, <2>14, PutsCalm
  <2> QED
    BY <2>1, <2>2, <2>3, <2>15, Zenon DEF x, w, t
<1> QED
  BY <1>3, <1>4

----------------------------------------------------------------------------
(* Handlers that move no window: they open and close scratchpads, or       *)
(* reorder the list                                                        *)

Stays(s, t) == Good(t) /\ Settles(s, t, {})

\* What follows calmly does not matter, and a calm handler is one of these.
LEMMA StaysCalm ==
    ASSUME NEW s, NEW t, NEW u, Stays(s, t), Calm(t, u)
    PROVE  Stays(s, u)
BY GoodCalm, SettlesCalm DEF Stays, Good

\* A calm callback keeps the windows where they are.
LEMMA CalmStays ==
    ASSUME NEW s, NEW t, Good(s), Calm(s, t)
    PROVE  Stays(s, t) /\ t.shown_pads = s.shown_pads
BY GoodCalm DEF Stays, Calm

\* Nothing but which scratchpads are open, or the order of the list, changes.
LEMMA StaysFields ==
    ASSUME NEW s, Good(s), NEW t \in ServerState,
           t.win = s.win, t.out = s.out, t.outputs = s.outputs,
           t.focused_output = s.focused_output, t.kb_focus = s.kb_focus,
           t.crashed = s.crashed, Holds(t.toplevels, Linked(s))
    PROVE  Stays(s, t)
<1>1. Linked(t) = Linked(s) /\ Live(t) = Live(s)
  BY DEF Linked, Live
<1>2. Good(t)
  BY <1>1 DEF Good, GoodPointers
<1>3. Shifts(s, t, {})
  BY DEF Shifts, SamePlace
<1>4. Sound(s) => Careful(s, t)
  <2>1. Remembered(s) => Remembered(t)
    <3>1. \A p, v, x : Owns(t, p, v, x) = Owns(s, p, v, x)
      BY <1>1 DEF Owns
    <3> QED
      BY <1>1, <3>1, Zenon DEF Remembered
  <2>2. OnKeyboard(s) => OnKeyboard(t)
    BY <1>1 DEF OnKeyboard
  <2> QED
    BY <2>1, <2>2 DEF Sound, Careful
<1> QED
  BY <1>2, <1>3, <1>4 DEF Stays, Settles

\* scratchpad::toggle and named_scratchpad::toggle
LEMMA ToggleScratchpadStays ==
    ASSUME NEW s, Good(s), NEW p \in Pad
    PROVE  LET t == ToggleScratchpad(s, p)
           IN  /\ Stays(s, t)
               /\ \/ t.shown_pads = s.shown_pads \ {p}
                  \/ /\ t.shown_pads = s.shown_pads \cup {p}
                     /\ \A w \in InPad(s, p) : t.win[w].enabled = TRUE
<1> DEFINE f == [w \in Window |-> IF w \in InPad(s, p)
                                 THEN [s.win[w] EXCEPT !.enabled = TRUE]
                                 ELSE s.win[w]]
           open == [s EXCEPT !.shown_pads = @ \cup {p}]
           shown == [open EXCEPT !.win = f]
           first == FirstIn(shown, InPad(shown, p))
           hidden == [s EXCEPT !.shown_pads = @ \ {p}]
           o == PadOutput(s)
           t == ToggleScratchpad(s, p)
<1>1. s \in ServerState /\ s.shown_pads \in SUBSET Pad
  BY DEF Good, ServerState
<1>2. shown = [s EXCEPT !.shown_pads = @ \cup {p}, !.win = f]
  BY <1>1 DEF ServerState
<1>3. \/ t = FocusToplevel(shown, first)
      \/ t = hidden
      \/ o # NoOutput /\ t = FocusActive(hidden, o)
  <2> HIDE DEF shown
  <2> QED
    BY <1>2 DEF ToggleScratchpad
<1> HIDE DEF t
<1>4. /\ Stays(s, hidden) /\ hidden \in ServerState
      /\ hidden.shown_pads = s.shown_pads \ {p} /\ Live(hidden) = Live(s)
  <2>1. /\ hidden \in ServerState /\ hidden.win = s.win /\ hidden.out = s.out
        /\ hidden.outputs = s.outputs /\ hidden.focused_output = s.focused_output
        /\ hidden.kb_focus = s.kb_focus /\ hidden.crashed = s.crashed
        /\ hidden.toplevels = s.toplevels /\ hidden.shown_pads = s.shown_pads \ {p}
    BY <1>1 DEF ServerState
  <2> HIDE DEF hidden
  <2> QED
    BY <2>1, StaysFields DEF Good, Live
<1>5. /\ Stays(s, open) /\ open \in ServerState /\ open.win = s.win
      /\ open.shown_pads = s.shown_pads \cup {p}
  <2>1. /\ open \in ServerState /\ open.win = s.win /\ open.out = s.out
        /\ open.outputs = s.outputs /\ open.focused_output = s.focused_output
        /\ open.kb_focus = s.kb_focus /\ open.crashed = s.crashed
        /\ open.toplevels = s.toplevels /\ open.shown_pads = s.shown_pads \cup {p}
    BY <1>1 DEF ServerState
  <2> HIDE DEF open
  <2> QED
    BY <2>1, StaysFields DEF Good
<1>6. /\ f \in [Window -> Toplevel]
      /\ \A w \in Window : SamePlace(s.win[w], f[w])
      /\ \A w \in InPad(s, p) : w \in Window /\ f[w].enabled = TRUE
  <2>1. \A w \in Window : s.win[w] \in Toplevel
    BY <1>1 DEF ServerState
  <2>2. \A w \in Window : [s.win[w] EXCEPT !.enabled = TRUE] \in Toplevel
    BY <2>1, ToplevelFields
  <2> QED
    BY <2>1, <2>2 DEF Toplevel, SamePlace, InPad, Linked
<1> HIDE DEF f, open
<1>7. Calm(open, shown) /\ shown \in ServerState /\ shown.win = f
  <2>1. Calm(open, shown) /\ shown.win = f
    BY <1>5, <1>6, CalmWin DEF ServerState
  <2> QED
    BY <2>1, CalmKeeps
<1> HIDE DEF shown, hidden
<1>8. Calm(shown, FocusToplevel(shown, first))
  <2>1. first \in Linked(shown) \cup {NoWindow} /\ first \in Window \cup {NoWindow}
    BY <1>7, FoundLinked, FoundWindows DEF InPad
  <2> QED
    BY <1>7, <2>1, CalmFocusToplevel
<1>9. CASE t = FocusToplevel(shown, first)
  <2>1. Calm(open, t)
    BY <1>7, <1>8, <1>9, CalmChain
  <2>2. Stays(s, t) /\ t.shown_pads = s.shown_pads \cup {p}
    BY <1>5, <2>1, StaysCalm DEF Calm
  <2>3. ASSUME NEW w \in InPad(s, p)
        PROVE  t.win[w].enabled = TRUE
    <3>1. w \in Window /\ s.win[w].in_scratchpad /\ s.win[w].in_scratchpad \in BOOLEAN
      BY <1>1 DEF InPad, Linked, ServerState, Toplevel
    <3>2. SamePlace(s.win[w], f[w]) /\ SamePlace(f[w], t.win[w])
      BY <1>6, <1>7, <1>8, <1>9, <3>1, CalmKeeps
    <3> QED
      BY <1>6, <3>1, <3>2 DEF SamePlace
  <2> QED
    BY <2>2, <2>3 DEF t
<1>10. CASE t = hidden
  BY <1>4, <1>10 DEF t
<1>11. CASE o # NoOutput /\ t = FocusActive(hidden, o)
  <2>1. o \in Live(s) /\ o \in Output
    BY <1>1, <1>11, OutputsFound, GoodFocus, ListedWindows DEF PadOutput
  <2>2. Calm(hidden, t)
    BY <1>4, <1>11, <2>1, CalmFocusActive
  <2> QED
    BY <1>4, <2>2, StaysCalm DEF t, Calm
<1> QED
  BY <1>3, <1>9, <1>10, <1>11

\* The tail of the swaps.
LEMMA RestackStays ==
    ASSUME NEW s, Good(s), NEW w \in Linked(s),
           NEW seq \in Seq(Window), Holds(seq, Linked(s))
    PROVE  LET t == Restack(s, seq, w)
           IN  Stays(s, t) /\ t.shown_pads = s.shown_pads
<1> DEFINE r == [s EXCEPT !.toplevels = seq]
           u == FocusToplevel(r, w)
           o == s.focused_output
<1>1. s \in ServerState /\ w \in Window /\ o \in Live(s) \cup {NoOutput}
  BY GoodFocus
<1>2. /\ r \in ServerState /\ r.win = s.win /\ r.out = s.out
      /\ r.outputs = s.outputs /\ r.focused_output = s.focused_output
      /\ r.kb_focus = s.kb_focus /\ r.crashed = s.crashed
      /\ r.toplevels = seq /\ r.shown_pads = s.shown_pads
  BY <1>1 DEF ServerState
<1>3. Restack(s, seq, w) = ArrangeOutput(u, o)
  BY DEF Restack
<1> HIDE DEF r, o
<1>4. Stays(s, r) /\ w \in Linked(r) /\ Live(r) = Live(s)
  BY <1>2, StaysFields DEF Live, Linked
<1>5. Calm(r, u)
  BY <1>1, <1>2, <1>4, CalmFocusToplevel
<1> HIDE DEF u
<1>6. Calm(u, ArrangeOutput(u, o))
  BY <1>1, <1>4, <1>5, CalmKeeps, CalmArrangeOutput
<1>7. Calm(r, ArrangeOutput(u, o))
  BY <1>5, <1>6, CalmChain
<1> QED
  BY <1>2, <1>3, <1>4, <1>7, StaysCalm DEF Calm

\* Taking w out and putting it back beside v leaves the same windows listed.
LEMMA MovedBeside ==
    ASSUME NEW s, Good(s), NEW w \in Linked(s), NEW v \in Linked(s), w # v
    PROVE  /\ PutBefore(s, w, v) \in Seq(Window) /\ Holds(PutBefore(s, w, v), Linked(s))
           /\ PutAfter(s, w, v) \in Seq(Window) /\ Holds(PutAfter(s, w, v), Linked(s))
<1> DEFINE L == Linked(s)
           r == Without(s.toplevels, w)
<1>1. s.toplevels \in Seq(Window) /\ IsInjective(s.toplevels) /\ Range(s.toplevels) = L
  BY DEF Good, Holds, ServerState
<1>2. r \in Seq(Window) /\ IsInjective(r) /\ Range(r) = L \ {w}
  BY <1>1, WithoutHolds DEF Holds
<1>3. w \in Window \ Range(r) /\ v \in Range(r) /\ (L \ {w}) \cup {w} = L
  BY <1>2 DEF Linked
<1> HIDE DEF r, L
<1>4. /\ Before(r, w, v) \in Seq(Window) /\ Holds(Before(r, w, v), L)
      /\ After(r, w, v) \in Seq(Window) /\ Holds(After(r, w, v), L)
  BY <1>2, <1>3, BesideHolds
<1> QED
  BY <1>4 DEF PutBefore, PutAfter, r, L

Reordered(s, t) == Stays(s, t) /\ t.shown_pads = s.shown_pads

\* swap::left .. swap::master and cycle
LEMMA ReorderStays ==
    ASSUME NEW s, Good(s)
    PROVE  /\ SwapLeft(s) = Crash(s) \/ Reordered(s, SwapLeft(s))
           /\ Reordered(s, SwapRight(s))
           /\ Reordered(s, SwapNext(s)) /\ Reordered(s, SwapPrev(s))
           /\ Reordered(s, SwapMaster(s)) /\ Reordered(s, Cycle(s))
<1> DEFINE cur == FocusedToplevel(s)
           T == Tiled(s, s.focused_output)
           first == FirstIn(s, T)
           last == LastIn(s, T)
           next == NextIn(s, T, cur)
           prev == PrevIn(s, T, cur)
<1>1. s \in ServerState /\ Range(s.toplevels) = Linked(s) /\ IsInjective(s.toplevels)
  BY DEF Good, Holds
<1>2. /\ first \in Linked(s) \cup {NoWindow} /\ last \in Linked(s) \cup {NoWindow}
      /\ next \in Linked(s) \cup {NoWindow} /\ prev \in Linked(s) \cup {NoWindow}
      /\ cur \in Linked(s) \cup {NoWindow}
      /\ Linked(s) \subseteq Window
  BY <1>1, Walks, FoundWindows
<1>3. /\ first = NoWindow <=> last = NoWindow
      /\ cur \in Linked(s) => next # cur /\ prev # cur
  BY <1>1, WalksAgree
<1>4. \A w, v \in Linked(s) :
          w # v => /\ Reordered(s, Restack(s, PutBefore(s, w, v), w))
                   /\ Reordered(s, Restack(s, PutAfter(s, w, v), w))
  BY <1>2, MovedBeside, RestackStays DEF Reordered
<1>5. \A w, v \in Linked(s) : Reordered(s, Restack(s, Exchange(s, w, v), w))
  <2>1. ASSUME NEW w \in Linked(s), NEW v \in Linked(s)
        PROVE  Reordered(s, Restack(s, Exchange(s, w, v), w))
    <3>1. s.toplevels \in Seq(Window)
      BY <1>1 DEF ServerState
    <3>2. /\ Exchange(s, w, v) \in Seq(Window)
          /\ Holds(Exchange(s, w, v), Linked(s))
      BY <1>1, <3>1, ExchangeHolds DEF Exchange, PlaceOf
    <3> QED
      BY <1>2, <3>2, RestackStays DEF Reordered
  <2> QED
    BY <2>1
<1>6. Swappable(s) => cur \in Linked(s)
  BY <1>2 DEF Swappable
<1>7. Reordered(s, s)
  BY <1>1, CalmSame, CalmStays DEF Reordered
<1>8. SwapLeft(s) = Crash(s) \/ Reordered(s, SwapLeft(s))
  <2>1. SwapLeft(s) = IF ~Swappable(s) \/ cur = first THEN s
                      ELSE IF first = NoWindow THEN Crash(s)
                      ELSE Restack(s, PutBefore(s, cur, first), cur)
    BY Zenon DEF SwapLeft
  <2> HIDE DEF cur, first
  <2> QED
    BY <1>2, <1>4, <1>6, <1>7, <2>1
<1>9. Reordered(s, SwapRight(s))
  <2>1. SwapRight(s) =
            IF ~Swappable(s) \/ first = NoWindow THEN s
            ELSE IF cur # first THEN Restack(s, PutBefore(s, cur, first), cur)
            ELSE IF next = NoWindow THEN s
            ELSE Restack(s, PutAfter(s, cur, next), cur)
    BY Zenon DEF SwapRight
  <2> HIDE DEF cur, first, next
  <2> QED
    BY <1>2, <1>3, <1>4, <1>6, <1>7, <2>1
<1>10. Reordered(s, SwapNext(s))
  <2>1. SwapNext(s) =
            IF ~Swappable(s) THEN s
            ELSE IF next # NoWindow THEN Restack(s, PutAfter(s, cur, next), cur)
            ELSE IF first \in {NoWindow, cur} THEN s
            ELSE Restack(s, PutBefore(s, cur, first), cur)
    BY Zenon DEF SwapNext
  <2> HIDE DEF cur, first, next
  <2> QED
    BY <1>2, <1>3, <1>4, <1>6, <1>7, <2>1
<1>11. Reordered(s, SwapPrev(s))
  <2>1. SwapPrev(s) =
            IF ~Swappable(s) THEN s
            ELSE IF prev # NoWindow THEN Restack(s, PutBefore(s, cur, prev), cur)
            ELSE IF last \in {NoWindow, cur} THEN s
            ELSE Restack(s, PutAfter(s, cur, last), cur)
    BY Zenon DEF SwapPrev
  <2> HIDE DEF cur, last, prev
  <2> QED
    BY <1>2, <1>3, <1>4, <1>6, <1>7, <2>1
<1>12. Reordered(s, SwapMaster(s))
  <2>1. SwapMaster(s) =
            IF ~Swappable(s) \/ first \in {NoWindow, cur} THEN s
            ELSE Restack(s, Exchange(s, cur, first), cur)
    BY Zenon DEF SwapMaster
  <2> HIDE DEF cur, first
  <2> QED
    BY <1>2, <1>5, <1>6, <1>7, <2>1
<1>13. Reordered(s, Cycle(s))
  <2>1. Cycle(s) =
            IF \/ s.focused_output = NoOutput
               \/ cur # NoWindow /\ "floating" \in s.win[cur].flags
               \/ first = last
            THEN s
            ELSE Restack(s, PutBefore(s, last, first), last)
    BY Zenon DEF Cycle
  <2> HIDE DEF cur, first, last
  <2> QED
    BY <1>2, <1>3, <1>4, <1>7, <2>1
<1> QED
  BY <1>8, <1>9, <1>10, <1>11, <1>12, <1>13

----------------------------------------------------------------------------
(* Outputs that come and go *)

\* Windows handed to a live output, or to none, are on a live output or none.
LEMMA RehostKeeps ==
    ASSUME NEW s \in ServerState, Holds(s.toplevels, Linked(s)),
           IsInjective(s.outputs),
           s.focused_output \in Live(s) \cup {NoOutput},
           NEW S, NEW o \in Live(s) \cup {NoOutput},
           \A w \in Linked(s) \ S : s.win[w].output \in Live(s) \cup {NoOutput}
    PROVE  Good(Rehost(s, S, o))
<1> DEFINE f == [w \in Window |->
                    IF w \in Linked(s) \cap S
                    THEN [s.win[w] EXCEPT !.output = o] ELSE s.win[w]]
<1>1. Rehost(s, S, o) = [s EXCEPT !.win = f]
  BY DEF Rehost
<1>2. o \in Output \cup {NoOutput}
  BY ListedWindows
<1>3. ASSUME NEW w \in Window
      PROVE  /\ f[w] \in Toplevel /\ f[w].life = s.win[w].life
             /\ w \in Linked(s) => f[w].output \in Live(s) \cup {NoOutput}
  <2>1. s.win[w] \in Toplevel
    BY DEF ServerState
  <2>2. CASE w \in Linked(s) \cap S
    <3>1. f[w] = [s.win[w] EXCEPT !.output = o]
      BY <2>2
    <3> HIDE DEF f
    <3> QED
      BY <1>2, <2>1, <3>1 DEF Toplevel
  <2>3. CASE w \notin Linked(s) \cap S
    <3>1. f[w] = s.win[w]
      BY <2>3
    <3> HIDE DEF f
    <3> QED
      BY <2>1, <2>3, <3>1
  <2> QED
    BY <2>2, <2>3
<1>4. f \in [Window -> Toplevel] /\ Linked(s) \subseteq Window
  BY <1>3 DEF Linked
<1> HIDE DEF f
<1>5. Good([s EXCEPT !.win = f])
  BY <1>3, <1>4, GoodWindows
<1> QED
  BY <1>1, <1>5

\* The mapped windows of S are handed to o, and no other one moves.
Gives(s, t, S, o) ==
    /\ Good(t)
    /\ t.shown_pads = s.shown_pads
    /\ t.kb_focus \in Window \cup {NoWindow, s.kb_focus}
    /\ \A w \in Window :
          SamePlace(IF w \in Linked(s) \cap S THEN [s.win[w] EXCEPT !.output = o]
                    ELSE s.win[w], t.win[w])

\* Moreover, no pointer is left to them.
Hands(s, t, S, o) == Gives(s, t, S, o) /\ (Sound(s) => Careful(s, t))

\* What follows calmly does not matter.
LEMMA HandsCalm ==
    ASSUME NEW s, NEW t, NEW u, NEW S, NEW o, Gives(s, t, S, o), Calm(t, u)
    PROVE  Gives(s, u, S, o) /\ (Hands(s, t, S, o) => Hands(s, u, S, o))
<1>1. Good(u) /\ u.shown_pads = s.shown_pads
  BY GoodCalm DEF Gives, Calm
<1>2. u.kb_focus \in Window \cup {NoWindow, s.kb_focus}
  BY DEF Gives, Calm, Settles, Shifts
<1>3. Hands(s, t, S, o) => (Sound(s) => Careful(s, u))
  BY DEF Gives, Hands, Calm, Settles, Sound, Careful, Good
<1>4. \A w \in Window : SamePlace(t.win[w], u.win[w])
  BY CalmKeeps
<1>5. \A w \in Window :
          SamePlace(IF w \in Linked(s) \cap S THEN [s.win[w] EXCEPT !.output = o]
                    ELSE s.win[w], u.win[w])
  BY <1>4 DEF Gives, SamePlace
<1> QED
  BY <1>1, <1>2, <1>3, <1>5 DEF Gives, Hands

\* Windows may be handed over that no output remembers.  The list of outputs and
\* what they are like may have changed from s to t.
LEMMA RehostHands ==
    ASSUME NEW s \in ServerState, NEW t \in ServerState, t.win = s.win,
           t.kb_focus \in Window \cup {NoWindow, s.kb_focus},
           t.shown_pads = s.shown_pads,
           Holds(t.toplevels, Linked(t)), IsInjective(t.outputs),
           t.focused_output \in Live(t) \cup {NoOutput},
           NEW S, NEW o \in Live(t) \cup {NoOutput},
           \A w \in Linked(t) \ S : t.win[w].output \in Live(t) \cup {NoOutput}
    PROVE  LET r == Rehost(t, S, o)
           IN  /\ Gives(s, r, S, o)
               /\ /\ t.kb_focus = s.kb_focus /\ t.crashed = s.crashed
                  /\ Sound(s) => /\ Remembered(t)
                                 /\ \A w \in S \cap Window : Forgotten(t, w)
                  => Hands(s, r, S, o)
<1> DEFINE f == [w \in Window |->
                    IF w \in Linked(t) \cap S
                    THEN [t.win[w] EXCEPT !.output = o] ELSE t.win[w]]
           r == Rehost(t, S, o)
<1>1. r = [t EXCEPT !.win = f]
  BY DEF Rehost
<1>2. Good(r)
  BY RehostKeeps
<1>3. /\ r.win = f /\ r.outputs = t.outputs /\ r.out = t.out
      /\ r.kb_focus = t.kb_focus /\ r.shown_pads = s.shown_pads
      /\ r.crashed = t.crashed
  BY <1>1 DEF ServerState
<1>4. Linked(t) = Linked(s) /\ \A w \in Window : w \notin S => r.win[w] = t.win[w]
  BY <1>3 DEF Linked
<1>5. \A w \in Window : f[w].life = t.win[w].life
  <2>1. \A w \in Window : t.win[w] \in Toplevel
    BY DEF ServerState
  <2> QED
    BY <2>1 DEF Toplevel
<1>6. Linked(r) = Linked(t) /\ Live(r) = Live(t)
  BY <1>3, <1>5 DEF Linked, Live
<1>7. \A w \in Window :
          SamePlace(IF w \in Linked(s) \cap S THEN [s.win[w] EXCEPT !.output = o]
                    ELSE s.win[w], r.win[w])
  BY <1>3, <1>4 DEF SamePlace
<1> HIDE DEF r, f
<1>8. Gives(s, r, S, o)
  BY <1>2, <1>3, <1>7 DEF Gives
<1>9. ASSUME t.kb_focus = s.kb_focus, t.crashed = s.crashed, Sound(s),
             Remembered(t), \A w \in S \cap Window : Forgotten(t, w)
      PROVE  Careful(s, r)
  <2>1. Remembered(r)
    <3> SUFFICES ASSUME NEW p \in Live(r), NEW ws \in WS
                 PROVE  Owns(r, p, ws, r.out[p].last_focused[ws])
      BY DEF Remembered
    <3> DEFINE w == r.out[p].last_focused[ws]
    <3>1. p \in Live(t) /\ Owns(t, p, ws, w) /\ w = t.out[p].last_focused[ws]
      BY <1>3, <1>6, <1>9 DEF Remembered
    <3> HIDE DEF w
    <3>2. w # NoWindow => w \in Linked(t) /\ w \in Window /\ w \notin S
      BY <1>9, <3>1 DEF Owns, Forgotten, Linked
    <3> QED
      BY <1>4, <1>6, <3>1, <3>2 DEF Owns, w
  <2> QED
    BY <1>3, <1>4, <1>6, <1>9, <2>1 DEF Careful, OnKeyboard
<1> QED
  BY <1>8, <1>9 DEF Hands, r

\* The windows handed over are told apart only by whether they are mapped.
LEMMA HandsSame ==
    ASSUME NEW s, NEW t, NEW S, NEW T, NEW o, Hands(s, t, S, o),
           Linked(s) \cap S = Linked(s) \cap T
    PROVE  Hands(s, t, T, o)
BY DEF Hands, Gives

\* It maps and unmaps none.
LEMMA HandsLinked ==
    ASSUME NEW s \in ServerState, NEW t, NEW S, NEW o, Gives(s, t, S, o)
    PROVE  Linked(t) = Linked(s)
<1>1. ASSUME NEW w \in Window
      PROVE  t.win[w].life = s.win[w].life
  <2>1. s.win[w] \in Toplevel
    BY DEF ServerState
  <2>2. [s.win[w] EXCEPT !.output = o].life = s.win[w].life
    BY <2>1 DEF Toplevel
  <2> QED
    BY <2>2 DEF Gives, SamePlace
<1> QED
  BY <1>1 DEF Linked

\* While a monitor is connected, a connected one is focused and holds each window.
Hosted(s) ==
    Live(s) # {} => /\ s.focused_output \in Live(s)
                    /\ \A w \in Linked(s) : s.win[w].output \in Live(s)

\* A calm step keeps it.
LEMMA HostedCalm ==
    ASSUME NEW s, NEW t, Hosted(s), Calm(s, t)
    PROVE  Hosted(t)
<1>1. /\ Linked(t) = Linked(s) /\ Live(t) = Live(s)
      /\ \A w \in Linked(s) : t.win[w].output = s.win[w].output
  <2>1. /\ Linked(t) = Linked(s) /\ Live(t) = Live(s)
        /\ \A w \in Window : SamePlace(s.win[w], t.win[w])
    BY CalmKeeps
  <2>2. \A w \in Linked(s) : w \in Window
    BY DEF Linked
  <2> QED
    BY <2>1, <2>2 DEF SamePlace
<1>2. t.focused_output \in Live(s) \cup {s.focused_output}
  BY DEF Calm, Settles, Shifts
<1> QED
  BY <1>1, <1>2 DEF Hosted

\* server_new_output
LEMMA NewOutputHands ==
    ASSUME NEW s, Good(s), NEW o \in Output \ Live(s)
    PROVE  LET t == NewOutput(s, o)
           IN  /\ Live(t) = Live(s) \cup {o}
               /\ Hands(s, t, OnOutput(s, NoOutput), o)
               /\ Hosted(t)
<1> DEFINE list == <<o>> \o s.outputs
           h == [s.out EXCEPT ![o] = NewOutputState]
           fo == IF s.focused_output = NoOutput THEN o ELSE s.focused_output
           t == [s EXCEPT !.outputs = list, !.out = h, !.focused_output = fo]
           r == Rehost(t, Orphans(t), o)
<1>1. s \in ServerState /\ s.outputs \in Seq(Output) /\ s.out \in [Output -> OutputState]
  BY DEF Good, ServerState
<1>2. list \in Seq(Output) /\ IsInjective(list) /\ Range(list) = Live(s) \cup {o}
  BY <1>1, EndsHold DEF Good, Live, Holds
<1>3. h \in [Output -> OutputState]
  <2>1. NewOutputState \in OutputState
    <3>1. 0 \in WS /\ DefaultLayout \in Layout
      BY WsAssumption, LayoutAssumption DEF WS
    <3> QED
      BY <3>1 DEF NewOutputState, OutputState
  <2> QED
    BY <1>1, <2>1
<1>4. fo \in Live(s) \cup {o} /\ fo \in Output
  BY <1>1, ListedWindows DEF Good, GoodPointers
<1>5. /\ t = [s EXCEPT !.outputs = <<o>> \o @, !.out[o] = NewOutputState,
                       !.focused_output = IF @ = NoOutput THEN o ELSE @]
  BY <1>1 DEF ServerState
<1>6. NewOutput(s, o) = IF Orphans(t) = {} THEN t ELSE Arrange(r, {o})
  <2> HIDE DEF t
  <2> QED
    BY <1>5 DEF NewOutput
<1>7. \A p \in Output : h[p] = IF p = o THEN NewOutputState ELSE s.out[p]
  BY <1>1
<1> HIDE DEF list, h, fo
<1>8. /\ t \in ServerState /\ t.outputs = list /\ t.focused_output = fo
      /\ t.win = s.win /\ t.toplevels = s.toplevels /\ t.out = h
      /\ t.kb_focus = s.kb_focus /\ t.shown_pads = s.shown_pads
      /\ t.crashed = s.crashed
  BY <1>1, <1>2, <1>3, <1>4 DEF ServerState
<1> HIDE DEF t
<1>9. /\ Linked(t) = Linked(s) /\ Live(t) = Live(s) \cup {o}
      /\ Live(s) \subseteq Output /\ o # NoOutput /\ NoOutput \notin Live(s)
  BY <1>1, <1>2, <1>8, ListedWindows, NullAssumption DEF Linked, Live
<1>10. /\ Holds(t.toplevels, Linked(t)) /\ IsInjective(t.outputs)
       /\ t.focused_output \in Live(t)
  BY <1>2, <1>4, <1>8, <1>9 DEF Good
<1>11. Linked(s) \cap Orphans(t) = Linked(s) \cap OnOutput(s, NoOutput)
  BY <1>8, <1>9 DEF Orphans, OnOutput, Good, GoodPointers, Linked
<1>12. Sound(s) => /\ Remembered(t)
                   /\ \A w \in Orphans(t) \cap Window : Forgotten(t, w)
  <2> SUFFICES ASSUME Sound(s), NEW p \in Live(t), NEW ws \in WS
               PROVE  /\ Owns(t, p, ws, t.out[p].last_focused[ws])
                      /\ t.out[p].last_focused[ws] \notin Orphans(t) \cap Window
    BY DEF Remembered, Forgotten
  <2>1. CASE p = o
    <3>1. t.out[p].last_focused[ws] = NoWindow
      BY <1>7, <1>8, <2>1 DEF NewOutputState
    <3> QED
      BY <3>1, NullAssumption DEF Owns
  <2>2. CASE p # o
    <3>1. p \in Live(s) /\ t.out[p] = s.out[p]
      BY <1>7, <1>8, <1>9, <2>2
    <3>2. Owns(s, p, ws, t.out[p].last_focused[ws])
      BY <3>1 DEF Sound, Remembered
    <3> QED
      BY <1>8, <1>9, <3>1, <3>2, NullAssumption DEF Owns, Orphans
  <2> QED
    BY <2>1, <2>2
<1>13. Hands(s, r, OnOutput(s, NoOutput), o)
  <2>1. \A w \in Linked(t) \ Orphans(t) :
            t.win[w].output \in Live(t) \cup {NoOutput}
    BY DEF Orphans
  <2>2. Hands(s, r, Orphans(t), o)
    BY <1>1, <1>8, <1>9, <1>10, <1>12, <2>1, RehostHands
  <2> QED
    BY <1>11, <2>2, HandsSame
<1>14. /\ r \in ServerState /\ Live(r) = Live(t)
       /\ r.focused_output = t.focused_output
  BY <1>8, <1>13 DEF Rehost, ServerState, Live, Hands, Gives, Good
<1>15. Linked(r) = Linked(t)
  BY <1>13, <1>9 DEF Hands, Gives, SamePlace, Linked
<1>16. Hosted(r)
  <2>1. ASSUME NEW w \in Linked(r)
        PROVE  r.win[w].output \in Live(r)
    <3>1. w \in Window /\ w \in Linked(t) /\ s.win[w] \in Toplevel
      BY <1>1, <1>15, <2>1 DEF Linked, ServerState
    <3>2. CASE w \in OnOutput(s, NoOutput)
      <4>1. r.win[w].output = o
        BY <1>9, <1>13, <3>1, <3>2 DEF Hands, Gives, SamePlace, Toplevel
      <4> QED
        BY <1>9, <1>14, <4>1
    <3>3. CASE w \notin OnOutput(s, NoOutput)
      BY <1>9, <1>13, <1>14, <3>1, <3>3 DEF Hands, Gives, SamePlace, OnOutput, Good, GoodPointers
    <3> QED
      BY <3>2, <3>3
  <2> QED
    BY <1>10, <1>14, <2>1 DEF Hosted
<1>17. CASE Orphans(t) = {}
  <2>1. r = t
    BY <1>8, <1>17 DEF Rehost, ServerState
  <2> QED
    BY <1>6, <1>9, <1>13, <1>16, <1>17, <2>1
<1>18. CASE Orphans(t) # {}
  <2> HIDE DEF r
  <2>1. Calm(r, Arrange(r, {o}))
    BY <1>9, <1>14, CalmArrange
  <2>2. Hands(s, Arrange(r, {o}), OnOutput(s, NoOutput), o)
    BY <1>13, <2>1, HandsCalm DEF Hands
  <2>3. Hosted(Arrange(r, {o})) /\ Live(Arrange(r, {o})) = Live(r)
    BY <1>16, <2>1, HostedCalm, CalmKeeps
  <2> QED
    BY <1>6, <1>9, <1>14, <1>18, <2>2, <2>3
<1> QED
  BY <1>17, <1>18

\* output_destroy
LEMMA OutputDestroyHands ==
    ASSUME NEW s, Good(s), NEW o \in Live(s)
    PROVE  LET t == OutputDestroy(s, o)
           IN  /\ Live(t) = Live(s) \ {o}
               /\ \E to \in Live(t) \cup {NoOutput} :
                     /\ Hands(s, t, OnOutput(s, o), to)
                     /\ Hosted(s) => Hosted(t) /\ (to = NoOutput => Live(t) = {})
<1> DEFINE list == Without(s.outputs, o)
           t == [s EXCEPT !.outputs = list]
           fo == IF t.focused_output = o THEN FirstOutput(t) ELSE t.focused_output
           u == [t EXCEPT !.focused_output = fo]
           r == Rehost(u, OnOutput(s, o), fo)
<1>1. s \in ServerState /\ s.outputs \in Seq(Output)
  BY DEF Good, ServerState
<1>2. list \in Seq(Output) /\ IsInjective(list) /\ Range(list) = Live(s) \ {o}
  BY <1>1, WithoutHolds DEF Good, Live, Holds
<1>3. OutputDestroy(s, o) = ArrangeOutput(r, fo)
  <2>1. u.focused_output = fo
    BY <1>1 DEF ServerState
  <2>2. u = [t EXCEPT !.focused_output = IF @ = o THEN FirstOutput(t) ELSE @]
    OBVIOUS
  <2> HIDE DEF u, fo
  <2> QED
    BY <2>1, <2>2, Zenon DEF OutputDestroy
<1> HIDE DEF list
<1>4. /\ t \in ServerState /\ t.outputs = list /\ t.win = s.win
      /\ t.toplevels = s.toplevels /\ t.focused_output = s.focused_output
  BY <1>1, <1>2 DEF ServerState
<1> HIDE DEF t
<1>5. Live(t) = Live(s) \ {o}
  BY <1>2, <1>4 DEF Live
<1>6. fo \in Live(t) \cup {NoOutput}
  <2>1. FirstOutput(t) \in Live(t) \cup {NoOutput}
    BY <1>4, OutputsFound
  <2> QED
    BY <1>4, <1>5, <2>1 DEF Good, GoodPointers
<1> HIDE DEF fo
<1>7. /\ u \in ServerState /\ u.outputs = list /\ u.win = s.win
      /\ u.toplevels = s.toplevels /\ u.focused_output = fo /\ u.out = s.out
      /\ u.kb_focus = s.kb_focus /\ u.shown_pads = s.shown_pads
      /\ u.crashed = s.crashed
  <2>1. fo \in Output \cup {NoOutput}
    BY <1>4, <1>6, ListedWindows
  <2> QED
    BY <1>1, <1>4, <2>1 DEF ServerState, t
<1> HIDE DEF u
<1>8. Linked(u) = Linked(s) /\ Live(u) = Live(s) \ {o}
  BY <1>2, <1>7 DEF Linked, Live
<1>9. \A w \in Linked(u) \ OnOutput(s, o) :
          u.win[w].output \in Live(u) \cup {NoOutput}
  BY <1>7, <1>8 DEF Good, GoodPointers, OnOutput, Linked
<1>10. Sound(s) => /\ Remembered(u)
                   /\ \A w \in OnOutput(s, o) \cap Window : Forgotten(u, w)
  <2> SUFFICES ASSUME Sound(s), NEW p \in Live(u), NEW ws \in WS
               PROVE  /\ Owns(u, p, ws, u.out[p].last_focused[ws])
                      /\ u.out[p].last_focused[ws] \notin OnOutput(s, o) \cap Window
    BY DEF Remembered, Forgotten
  <2>1. p \in Live(s) /\ p # o /\ u.out[p] = s.out[p]
    BY <1>7, <1>8
  <2>2. Owns(s, p, ws, u.out[p].last_focused[ws])
    BY <2>1 DEF Sound, Remembered
  <2> QED
    BY <1>7, <1>8, <2>1, <2>2, NullAssumption DEF Owns, OnOutput
<1>11. Hands(s, r, OnOutput(s, o), fo)
  <2>1. /\ Holds(u.toplevels, Linked(u)) /\ IsInjective(u.outputs)
        /\ fo \in Live(u) \cup {NoOutput}
    BY <1>2, <1>5, <1>6, <1>7, <1>8 DEF Good
  <2> QED
    BY <1>1, <1>7, <1>9, <1>10, <2>1, RehostHands
<1>12. /\ r \in ServerState /\ Live(r) = Live(u) /\ r.focused_output = fo
       /\ Linked(r) = Linked(s)
  <2>1. /\ r \in ServerState /\ Live(r) = Live(u)
        /\ r.focused_output = u.focused_output
    BY <1>7, <1>11 DEF Rehost, ServerState, Live, Hands, Gives, Good
  <2>2. Linked(r) = Linked(s)
    BY <1>1, <1>11, HandsLinked DEF Hands
  <2> QED
    BY <1>7, <2>1, <2>2
<1>13. Hosted(s) => Hosted(r) /\ (fo = NoOutput => Live(r) = {})
  <2> SUFFICES ASSUME Hosted(s)
               PROVE  Hosted(r) /\ (fo = NoOutput => Live(r) = {})
    OBVIOUS
  <2>1. Live(r) # {} => fo \in Live(r) /\ fo # NoOutput
    <3>1. fo \in {FirstOutput(t), s.focused_output} /\ s.focused_output \in Live(s)
      BY <1>4 DEF Hosted, fo
    <3>2. Live(r) # {} => FirstOutput(t) # NoOutput
      <4>1. t.outputs = <<>> => Live(t) = {}
        <5>1. DOMAIN <<>> = {}
          OBVIOUS
        <5> QED
          BY <5>1 DEF Live, Range
      <4>2. Live(r) # {} => 1 \in DOMAIN t.outputs /\ t.outputs # <<>>
        <5>1. t.outputs \in Seq(Output)
          BY <1>4 DEF ServerState
        <5> QED
          BY <1>5, <1>8, <1>12, <4>1, <5>1, EmptySeq, LenProperties
      <4> QED
        BY <1>5, <1>8, <1>12, <4>2, ListedWindows, <1>1, NullAssumption DEF FirstOutput, Live, Range
    <3>3. s.focused_output # NoOutput
      BY <1>1, <3>1, ListedWindows, NullAssumption
    <3> QED
      BY <1>4, <1>5, <1>6, <1>8, <1>12, <3>1, <3>2, <3>3
  <2>2. ASSUME NEW w \in Linked(r), Live(r) # {}
        PROVE  r.win[w].output \in Live(r)
    <3>1. w \in Window /\ w \in Linked(s) /\ s.win[w] \in Toplevel
      BY <1>1, <1>12, <2>2 DEF Linked, ServerState
    <3>2. CASE w \in OnOutput(s, o)
      <4>1. r.win[w].output = fo
        BY <1>11, <3>1, <3>2 DEF Hands, Gives, SamePlace, Toplevel
      <4> QED
        BY <2>1, <2>2, <4>1
    <3>3. CASE w \notin OnOutput(s, o)
      BY <1>8, <1>11, <1>12, <3>1, <3>3 DEF Hands, Gives, SamePlace, OnOutput, Hosted
    <3> QED
      BY <3>2, <3>3
  <2> QED
    BY <1>12, <2>1, <2>2 DEF Hosted
<1> HIDE DEF r
<1> DEFINE z == ArrangeOutput(r, fo)
<1>14. Calm(r, z)
  BY <1>5, <1>6, <1>8, <1>12, CalmArrangeOutput
<1>15. Live(z) = Live(s) \ {o} /\ Hands(s, z, OnOutput(s, o), fo)
  BY <1>8, <1>11, <1>12, <1>14, HandsCalm, CalmKeeps DEF Hands
<1>16. Hosted(s) => Hosted(z) /\ (fo = NoOutput => Live(z) = {})
  BY <1>8, <1>12, <1>13, <1>14, <1>15, HostedCalm
<1> HIDE DEF z
<1>17. fo \in Live(z) \cup {NoOutput} /\ OutputDestroy(s, o) = z
  BY <1>3, <1>5, <1>6, <1>15 DEF z
<1> QED
  BY <1>15, <1>16, <1>17

\* The switch that output_manager_apply throws.
LEMMA CalmPower ==
    ASSUME NEW s \in ServerState, NEW o \in Output, NEW b \in BOOLEAN
    PROVE  Calm(s, [s EXCEPT !.out[o].on = b])
<1> DEFINE h == [s.out EXCEPT ![o].on = b]
<1>1. s.out \in [Output -> OutputState] /\ s.out[o] \in OutputState
  BY DEF ServerState
<1>2. /\ h \in [Output -> OutputState]
      /\ \A p \in Live(s) : h[p].last_focused = s.out[p].last_focused
  BY <1>1, ListedWindows DEF OutputState
<1>3. [s EXCEPT !.out[o].on = b] = [s EXCEPT !.out = h]
  BY DEF ServerState
<1> HIDE DEF h
<1> QED
  BY <1>2, <1>3, CalmOut

\* Turning a connected monitor off or on hands its windows over, or none.
LEMMA PowerGives ==
    ASSUME NEW s, Good(s), NEW o \in Live(s)
    PROVE  /\ \E to : Gives(s, DisableOutput(s, o), OnOutput(s, o), to)
           /\ Calm(s, EnableOutput(s, o))
<1> DEFINE t == [s EXCEPT !.out[o].on = FALSE]
           I == {i \in DOMAIN t.outputs : t.outputs[i] \in Lit(t)}
           to == Earliest(t.outputs, I, NoOutput)
           fo == IF t.focused_output = o THEN to ELSE t.focused_output
           u == [t EXCEPT !.focused_output = fo]
           r == Rehost(u, OnOutput(s, o), to)
           on == [s EXCEPT !.out[o].on = TRUE]
<1>1. s \in ServerState /\ o \in Output
  BY ListedWindows DEF Good
<1>2. Calm(s, EnableOutput(s, o))
  <2>1. Calm(s, on) /\ on \in ServerState
    BY <1>1, CalmPower, CalmKeeps
  <2> HIDE DEF on
  <2>2. Calm(on, Arrange(on, Lit(on)))
    BY <2>1, CalmArrange DEF Lit
  <2>3. EnableOutput(s, o) = Arrange(on, Lit(on))
    BY DEF EnableOutput, on
  <2> QED
    BY <2>1, <2>2, <2>3, CalmChain
<1>3. Calm(s, t)
  BY <1>1, CalmPower
<1>4. Good(t) /\ t \in ServerState /\ t.outputs \in Seq(Output)
  <2>1. Good(t)
    BY <1>3, GoodCalm
  <2> QED
    BY <2>1 DEF Good, ServerState
<1>5. /\ t.win = s.win /\ t.shown_pads = s.shown_pads /\ t.kb_focus = s.kb_focus
      /\ t.toplevels = s.toplevels
  BY <1>1 DEF ServerState
<1>6. DisableOutput(s, o) = Arrange(r, Lit(t))
  BY Zenon DEF DisableOutput
<1> HIDE DEF t
<1>7. to \in Live(t) \cup {NoOutput}
  <2>1. I \in SUBSET DOMAIN t.outputs /\ \A i \in I : t.outputs[i] \in Live(t)
    BY DEF Lit
  <2> HIDE DEF I
  <2> QED
    BY <1>4, <2>1, EarliestLatest
<1> HIDE DEF to
<1>8. fo \in Live(t) \cup {t.focused_output} \cup {NoOutput}
  BY <1>7
<1>9. fo \in Live(t) \cup {NoOutput} /\ fo \in Output \cup {NoOutput}
  BY <1>4, <1>8, ListedWindows DEF Good, GoodPointers
<1> HIDE DEF fo
<1>10. /\ u \in ServerState /\ u.outputs = t.outputs /\ u.win = t.win
       /\ u.toplevels = t.toplevels /\ u.focused_output = fo
       /\ u.shown_pads = t.shown_pads /\ u.kb_focus = t.kb_focus
  BY <1>4, <1>9 DEF ServerState
<1> HIDE DEF u
<1>11. Linked(u) = Linked(t) /\ Live(u) = Live(t)
  BY <1>10 DEF Linked, Live
<1>12. Gives(s, r, OnOutput(s, o), to)
  <2>1. /\ Holds(u.toplevels, Linked(u)) /\ IsInjective(u.outputs)
        /\ u.focused_output \in Live(u) \cup {NoOutput}
        /\ to \in Live(u) \cup {NoOutput}
    BY <1>4, <1>7, <1>9, <1>10, <1>11 DEF Good
  <2>2. \A w \in Linked(u) \ OnOutput(s, o) :
            u.win[w].output \in Live(u) \cup {NoOutput}
    BY <1>4, <1>10, <1>11 DEF Good, GoodPointers
  <2> QED
    BY <1>1, <1>5, <1>10, <2>1, <2>2, RehostHands
<1> HIDE DEF r
<1>13. Gives(s, Arrange(r, Lit(t)), OnOutput(s, o), to)
  <2>1. r \in ServerState /\ Live(r) = Live(u)
    BY <1>10, <1>12 DEF Gives, Good, r, Rehost, ServerState, Live
  <2>2. Lit(t) \subseteq Live(r)
    BY <1>11, <2>1 DEF Lit
  <2> QED
    BY <1>12, <2>1, <2>2, CalmArrange, HandsCalm
<1> QED
  BY <1>2, <1>6, <1>13

\* server_session_active
LEMMA SessionActiveHands ==
    ASSUME NEW s, Good(s)
    PROVE  LET t == SessionActive(s)
           IN  \/ t = s
               \/ /\ Live(t) = Live(s) /\ (Hosted(s) => Hosted(t))
                  /\ \E to \in Live(s) : Hands(s, t, OnOutput(s, NoOutput), to)
<1> DEFINE to == FirstOutput(s)
           r == Rehost(s, Orphans(s), to)
           t == Arrange(r, Live(s))
<1>1. s \in ServerState /\ NoOutput \notin Live(s)
  BY ListedWindows, NullAssumption DEF Good
<1>2. CASE s.outputs = <<>>
  BY <1>2 DEF SessionActive
<1>3. CASE s.outputs # <<>>
  <2>1. to \in Live(s)
    <3>1. 1 \in DOMAIN s.outputs
      BY <1>1, <1>3, EmptySeq, LenProperties DEF ServerState
    <3> QED
      BY <1>3, <3>1 DEF FirstOutput, Live, Range
  <2>2. Linked(s) \cap Orphans(s) = Linked(s) \cap OnOutput(s, NoOutput)
    BY <1>1 DEF Orphans, OnOutput, Good, GoodPointers, Linked
  <2>3. Sound(s) => /\ Remembered(s)
                    /\ \A w \in Orphans(s) \cap Window : Forgotten(s, w)
    <3>1. ASSUME Sound(s), NEW p \in Live(s), NEW ws \in WS
          PROVE  s.out[p].last_focused[ws] \notin Orphans(s) \cap Window
      <4>1. Owns(s, p, ws, s.out[p].last_focused[ws])
        BY <3>1 DEF Sound, Remembered
      <4> QED
        BY <3>1, <4>1, NullAssumption DEF Owns, Orphans
    <3> QED
      BY <3>1 DEF Sound, Forgotten
  <2>4. Hands(s, r, OnOutput(s, NoOutput), to)
    <3>1. \A w \in Linked(s) \ Orphans(s) :
              s.win[w].output \in Live(s) \cup {NoOutput}
      BY DEF Orphans
    <3> HIDE DEF to
    <3>2. Hands(s, r, Orphans(s), to)
      BY <1>1, <2>1, <2>3, <3>1, RehostHands DEF Good, GoodPointers
    <3> QED
      BY <2>2, <3>2, HandsSame
  <2>5. /\ r \in ServerState /\ Live(r) = Live(s)
        /\ r.focused_output = s.focused_output
        /\ Linked(r) = Linked(s)
    <3>1. /\ r \in ServerState /\ Live(r) = Live(s)
          /\ r.focused_output = s.focused_output
      BY <1>1, <2>4 DEF Rehost, ServerState, Live, Hands, Gives, Good
    <3> QED
      BY <1>1, <2>4, <3>1, HandsLinked DEF Hands
  <2>6. Hosted(s) => Hosted(r)
    <3>1. ASSUME Hosted(s), NEW w \in Linked(s)
          PROVE  r.win[w].output = s.win[w].output
      <4>1. w \in Window /\ w \notin OnOutput(s, NoOutput)
        BY <1>1, <2>1, <3>1 DEF Hosted, OnOutput, Linked
      <4> QED
        BY <2>4, <4>1 DEF Hands, Gives, SamePlace
    <3> QED
      BY <2>5, <3>1 DEF Hosted
  <2>7. SessionActive(s) = t
    BY <1>3 DEF SessionActive
  <2> HIDE DEF r, to
  <2>8. Calm(r, t)
    BY <2>5, CalmArrange
  <2>9. Hands(s, t, OnOutput(s, NoOutput), to) /\ Live(t) = Live(s)
    BY <2>4, <2>5, <2>8, HandsCalm, CalmKeeps DEF Hands
  <2>10. Hosted(s) => Hosted(t)
    BY <2>6, <2>8, HostedCalm
  <2> HIDE DEF t
  <2> QED
    BY <2>1, <2>7, <2>9, <2>10
<1> QED
  BY <1>2, <1>3

----------------------------------------------------------------------------
(* Life of a window *)

\* Whatever becomes of a window that is not mapped: no pointer leads to it.
LEMMA UnlinkedSettles ==
    ASSUME NEW s \in ServerState, NEW t \in ServerState, NEW w \in Window,
           w \notin Linked(s),
           \A v \in Window : v # w => t.win[v] = s.win[v],
           t.outputs = s.outputs, t.out = s.out,
           t.focused_output = s.focused_output,
           t.kb_focus \in {s.kb_focus, NoWindow}, t.crashed = s.crashed
    PROVE  Settles(s, t, {w})
<1>1. Sound(s) => Forgotten(s, w)
  <2>1. ASSUME Sound(s), NEW o \in Live(s), NEW ws \in WS
        PROVE  Owns(s, o, ws, s.out[o].last_focused[ws])
    BY <2>1 DEF Sound, Remembered
  <2>2. w # NoWindow
    BY NullAssumption
  <2> QED
    BY <2>1, <2>2 DEF Forgotten, Owns
<1>2. Shifts(s, t, {w}) /\ (Sound(s) => Remembered(t))
  BY <1>1, Replaced
<1>3. OnKeyboard(s) => OnKeyboard(t)
  BY NullAssumption DEF OnKeyboard, Linked
<1> QED
  BY <1>2, <1>3 DEF Settles, Careful

\* server_new_xdg_toplevel and the destroy handler: objects that are in no list.
LEMMA NewAndDestroyPuts ==
    ASSUME NEW s, Good(s), NEW w \in Window, w \notin Linked(s)
    PROVE  /\ Puts(s, [s EXCEPT !.win[w].life = "fresh"], w,
                   [s.win[w] EXCEPT !.life = "fresh"])
           /\ Puts(s, DestroyToplevel(s, w), w, NewToplevelState)
<1> DEFINE kb == IF s.kb_focus = w THEN NoWindow ELSE s.kb_focus
<1>1. ASSUME NEW x \in Toplevel, x.life # "linked", NEW k \in {s.kb_focus, NoWindow}
      PROVE  Puts(s, [s EXCEPT !.win[w] = x, !.kb_focus = k], w, x)
  <2> DEFINE t == [s EXCEPT !.win[w] = x, !.kb_focus = k]
             f == [s.win EXCEPT ![w] = x]
  <2>1. s \in ServerState /\ s.win \in [Window -> Toplevel]
    BY DEF Good, ServerState
  <2>2. /\ f \in [Window -> Toplevel] /\ f[w] = x
        /\ \A v \in Window : v # w => f[v] = s.win[v]
    BY <2>1
  <2> HIDE DEF f
  <2>3. /\ t \in ServerState /\ t.win = f /\ t.toplevels = s.toplevels
        /\ t.outputs = s.outputs /\ t.focused_output = s.focused_output
        /\ t.out = s.out /\ t.kb_focus = k /\ t.crashed = s.crashed
        /\ t.shown_pads = s.shown_pads
    BY <2>1, <2>2 DEF ServerState, f
  <2> HIDE DEF t
  <2>4. Linked(t) = Linked(s) /\ Live(t) = Live(s)
    BY <1>1, <2>2, <2>3 DEF Linked, Live
  <2>5. \A v \in Linked(s) : t.win[v] = s.win[v]
    BY <2>2, <2>3 DEF Linked
  <2>6. GoodPointers(t)
    BY <2>3, <2>4, <2>5 DEF Good, GoodPointers
  <2>7. Good(t)
    BY <2>3, <2>4, <2>6 DEF Good
  <2>8. Settles(s, t, {w})
    BY <2>1, <2>2, <2>3, UnlinkedSettles
  <2>9. SamePlace(x, t.win[w])
    BY <2>2, <2>3 DEF SamePlace
  <2>10. Puts(s, t, w, x)
    BY <2>3, <2>7, <2>8, <2>9 DEF Puts
  <2> QED
    BY <2>10 DEF t
<1>2. /\ s \in ServerState /\ s.win[w] \in Toplevel
      /\ s.kb_focus \in Window \cup Layer \cup {NoWindow}
  BY DEF Good, ServerState
<1>3. Puts(s, [s EXCEPT !.win[w].life = "fresh"], w, [s.win[w] EXCEPT !.life = "fresh"])
  <2> DEFINE x == [s.win[w] EXCEPT !.life = "fresh"]
  <2>1. x \in Toplevel /\ x.life # "linked"
    BY <1>2 DEF Toplevel
  <2>2. [s EXCEPT !.win[w].life = "fresh"] =
            [s EXCEPT !.win[w] = x, !.kb_focus = s.kb_focus]
    BY <1>2 DEF ServerState
  <2> HIDE DEF x
  <2>3. Puts(s, [s EXCEPT !.win[w].life = "fresh"], w, x)
    BY <1>1, <2>1, <2>2
  <2> QED
    BY <2>3 DEF x
<1>4. Puts(s, DestroyToplevel(s, w), w, NewToplevelState)
  <2>1. NewToplevelState \in Toplevel /\ NewToplevelState.life # "linked"
    <3>1. 0 \in WS
      BY WsAssumption DEF WS
    <3> QED
      BY <3>1 DEF NewToplevelState, Toplevel, Pad
  <2>2. kb \in {s.kb_focus, NoWindow}
    OBVIOUS
  <2>3. DestroyToplevel(s, w) =
            [s EXCEPT !.win[w] = NewToplevelState, !.kb_focus = kb]
    BY <1>2 DEF DestroyToplevel, ServerState
  <2> HIDE DEF kb
  <2>4. Puts(s, [s EXCEPT !.win[w] = NewToplevelState, !.kb_focus = kb], w, NewToplevelState)
    BY <1>1, <2>1, <2>2
  <2> QED
    BY <2>3, <2>4, Zenon
<1> QED
  BY <1>3, <1>4

\* The window w is unmapped, and no other one moves.
Closes(s, t, w) ==
    /\ Good(t) /\ Shifts(s, t, {w})
    /\ t.shown_pads = s.shown_pads
    /\ SamePlace([s.win[w] EXCEPT !.life = "unlinked"], t.win[w])

\* What precedes and follows calmly does not matter.
LEMMA ClosesCalm ==
    ASSUME NEW s, NEW t, NEW u, NEW w \in Window, Closes(s, t, w), Calm(t, u)
    PROVE  Closes(s, u, w)
<1> DEFINE x == [s.win[w] EXCEPT !.life = "unlinked"]
<1>1. Good(u) /\ Shifts(s, u, {w}) /\ u.shown_pads = s.shown_pads
  BY GoodCalm, ShiftCalm DEF Closes, Calm
<1>2. SamePlace(x, t.win[w]) /\ SamePlace(t.win[w], u.win[w])
  BY CalmKeeps DEF Closes
<1> HIDE DEF x
<1>3. SamePlace(x, u.win[w])
  BY <1>2 DEF SamePlace
<1> QED
  BY <1>1, <1>3 DEF Closes, x

\* A window is taken out of the list of mapped windows.
LEMMA UnlinkCloses ==
    ASSUME NEW s, Good(s), NEW w \in Linked(s)
    PROVE  LET t == Unlink(s, w)
           IN  /\ Closes(s, t, w)
               /\ Linked(t) = Linked(s) \ {w} /\ Live(t) = Live(s)
               /\ t.outputs = s.outputs /\ t.kb_focus = s.kb_focus
               /\ t.crashed = s.crashed
               /\ Sound(s) /\ Forgotten(s, w) => Sound(t)
<1> DEFINE list == Without(s.toplevels, w)
           x == [s.win[w] EXCEPT !.life = "unlinked"]
           t == [s EXCEPT !.toplevels = list, !.win[w] = x]
<1>1. /\ s \in ServerState /\ s.toplevels \in Seq(Window) /\ w \in Window
      /\ s.win \in [Window -> Toplevel] /\ s.win[w] \in Toplevel
  BY DEF Good, ServerState, Linked
<1>2. list \in Seq(Window) /\ Holds(list, Linked(s) \ {w})
  BY <1>1, WithoutHolds DEF Good, Holds
<1>3. x \in Toplevel /\ x.life = "unlinked"
  BY <1>1 DEF Toplevel
<1>4. Unlink(s, w) = t
  BY <1>1 DEF Unlink, ServerState
<1> HIDE DEF list, x
<1>5. /\ t \in ServerState /\ t.toplevels = list /\ t.win[w] = x
      /\ \A v \in Window : v # w => t.win[v] = s.win[v]
      /\ t.outputs = s.outputs /\ t.focused_output = s.focused_output
      /\ t.out = s.out /\ t.kb_focus = s.kb_focus /\ t.crashed = s.crashed
      /\ t.shown_pads = s.shown_pads
  BY <1>1, <1>2, <1>3 DEF ServerState
<1> HIDE DEF t
<1>6. Linked(t) = Linked(s) \ {w} /\ Live(t) = Live(s)
  BY <1>1, <1>3, <1>5 DEF Linked, Live
<1>7. GoodPointers(t)
  BY <1>5, <1>6 DEF Good, GoodPointers, Linked
<1>8. Good(t)
  BY <1>2, <1>5, <1>6, <1>7 DEF Good
<1>9. Shifts(s, t, {w})
  <2>1. \A v \in Window : v # w => SamePlace(s.win[v], t.win[v])
    BY <1>5 DEF SamePlace
  <2> QED
    BY <1>5, <2>1 DEF Shifts
<1>10. SamePlace(x, t.win[w])
  BY <1>5 DEF SamePlace
<1>11. Sound(s) /\ Forgotten(s, w) => Sound(t)
  BY <1>1, <1>5, <1>7, Replaced DEF Sound
<1>12. Closes(s, t, w)
  BY <1>5, <1>8, <1>9, <1>10 DEF Closes, x
<1> QED
  BY <1>4, <1>5, <1>6, <1>11, <1>12

\* A mapped window that is focused has the keyboard.
LEMMA FocusTakesKeyboard ==
    ASSUME NEW s \in ServerState, ~s.crashed, NEW w \in Linked(s)
    PROVE  FocusToplevel(s, w).kb_focus = w
<1> DEFINE o == s.win[w].output
           ws == s.win[w].workspace
           t == [s EXCEPT !.kb_focus = w]
           u == [t EXCEPT !.focused_output = o, !.out[o].last_focused[ws] = w]
<1>1. w \in Window /\ w # NoWindow /\ s.win[w].life # "free"
  BY NullAssumption DEF Linked
<1>2. t.kb_focus = w /\ Crash(t).kb_focus = w /\ u.kb_focus = w
  BY DEF ServerState, Crash
<1>3. ArrangeOutput(u, o).kb_focus = w
  BY DEF ArrangeOutput, Arrange, Crash, ServerState
<1>4. CASE s.kb_focus = w
  BY <1>1, <1>4 DEF FocusToplevel
<1>5. CASE s.kb_focus # w
  <2>1. FocusToplevel(s, w) =
            IF o = NoOutput THEN t
            ELSE IF o \notin Live(s) THEN Crash(t)
            ELSE IF \/ s.out[o].layout_mode[ws] \in {"tabbed", "scroll"}
                    \/ Overviewed(s, o)
            THEN ArrangeOutput(u, o) ELSE u
    BY <1>1, <1>5, Zenon DEF FocusToplevel
  <2> HIDE DEF u, t
  <2> QED
    BY <1>2, <1>3, <2>1
<1> QED
  BY <1>4, <1>5

\* xdg_toplevel_unmap.  Outside a scratchpad, and with pointers that are good, the
\* keyboard is passed on to a window that is still mapped.
LEMMA UnmapCloses ==
    ASSUME NEW s, Good(s), NEW w \in Linked(s)
    PROVE  LET t == UnmapToplevel(s, w)
           IN  /\ Closes(s, t, w)
               /\ Sound(s) /\ ~s.win[w].in_scratchpad =>
                     /\ Remembered(t)
                     /\ t.crashed => s.crashed
                     /\ ~s.crashed /\ s.win[w].output # NoOutput => OnKeyboard(t)
<1> DEFINE o == s.win[w].output
<1>1. /\ s \in ServerState /\ w \in Window
      /\ o \in Live(s) \cup {NoOutput} /\ o \in Output \cup {NoOutput}
  BY DEF Good, GoodPointers, ServerState, Toplevel, Linked
<1>2. Closes(s, UnmapScratch(s, w), w)
  <2> DEFINE t == Unlink(s, w)
             next == FirstIn(t, {v \in Linked(t) : t.win[v].in_scratchpad})
  <2>1. UnmapScratch(s, w) =
            IF s.kb_focus # w \/ ~PadShown(s) THEN t
            ELSE IF next # NoWindow THEN FocusToplevel(t, next)
            ELSE IF o # NoOutput THEN FocusActive(t, o)
            ELSE t
    BY Zenon DEF UnmapScratch
  <2>2. Closes(s, t, w) /\ t \in ServerState /\ Live(t) = Live(s)
    BY UnlinkCloses DEF Good, Closes
  <2> HIDE DEF t
  <2>3. next \in Linked(t) \cup {NoWindow} /\ next \in Window \cup {NoWindow}
    BY <2>2, FoundLinked, FoundWindows
  <2> HIDE DEF next, o
  <2>4. Calm(t, FocusToplevel(t, next))
    BY <2>2, <2>3, CalmFocusToplevel
  <2>5. o # NoOutput => Calm(t, FocusActive(t, o))
    BY <1>1, <2>2, CalmFocusActive
  <2>6. \A x : Calm(t, x) => Closes(s, x, w)
    BY <1>1, <2>2, ClosesCalm
  <2> QED
    BY <2>1, <2>2, <2>4, <2>5, <2>6
<1>3. LET z == UnmapOrdinary(s, w)
      IN  /\ Closes(s, z, w)
          /\ Sound(s) => /\ Remembered(z) /\ (z.crashed => s.crashed)
                         /\ ~s.crashed /\ o # NoOutput => OnKeyboard(z)
  <2> DEFINE ws == s.win[w].workspace
             T == Tiled(s, o)
             was_focused == s.out[o].last_focused[ws] = w
             neighbour == IF "floating" \in s.win[w].flags THEN NoWindow
                          ELSE Or(NextIn(s, T, w), PrevIn(s, T, w))
             r == ForgetFocus(s, o, w)
             t == Unlink(r, w)
             next == IF was_focused
                     THEN Or(neighbour, Or(FirstIn(t, Tiled(t, o)),
                                           FirstIn(t, Floats(t, o))))
                     ELSE NoWindow
             u == FocusOrClear(t, next)
             z == ArrangeOutput(u, o)
  <2>1. UnmapOrdinary(s, w) = IF o = NoOutput THEN t ELSE z
    BY Zenon DEF UnmapOrdinary
  <2>2. Calm(s, r) /\ Good(r) /\ Linked(r) = Linked(s) /\ Live(r) = Live(s)
    BY <1>1, CalmForgetFocus, CalmKeeps, GoodCalm
  <2>3. r.win = s.win /\ r.crashed = s.crashed
    BY <1>1, ForgetFocusKeeps
  <2>4. Sound(s) => Sound(r) /\ Forgotten(r, w)
    BY <1>1, <2>2, CalmKeeps, FocusForgotten
  <2> HIDE DEF r
  <2>5. /\ Closes(r, t, w) /\ Live(t) = Live(s) /\ t.crashed = s.crashed
        /\ Linked(t) = Linked(s) \ {w} /\ Good(t) /\ t \in ServerState
        /\ Sound(s) => Sound(t)
    BY <2>2, <2>3, <2>4, UnlinkCloses DEF Closes, Good
  <2>6. Closes(s, t, w)
    <3>1. Shifts(s, t, {w})
      BY <2>2, <2>3, <2>5 DEF Calm, Settles, Closes, Shifts, SamePlace, Live
    <3> QED
      BY <2>2, <2>3, <2>5, <3>1 DEF Closes, Calm
  <2> HIDE DEF t
  <2>7. neighbour \in Linked(t) \cup {NoWindow}
    <3>1. /\ NextIn(s, T, w) \in Linked(s) \cup {NoWindow}
          /\ PrevIn(s, T, w) \in Linked(s) \cup {NoWindow}
      BY <1>1, FoundLinked DEF Tiled
    <3>2. NextIn(s, T, w) # w /\ PrevIn(s, T, w) # w
      BY <1>1, WalksAgree DEF Good, Holds
    <3> QED
      BY <2>5, <3>1, <3>2 DEF Or
  <2> HIDE DEF neighbour
  <2>8. next \in Linked(t) \cup {NoWindow} /\ next \in Window \cup {NoWindow}
    <3>1. /\ FirstIn(t, Tiled(t, o)) \in Linked(t) \cup {NoWindow}
          /\ FirstIn(t, Floats(t, o)) \in Linked(t) \cup {NoWindow}
      BY <2>5, FoundLinked DEF Tiled, Floats
    <3> QED
      BY <2>5, <2>7, <3>1, FoundWindows DEF Or
  <2> HIDE DEF next
  <2>9. Calm(t, u) /\ u \in ServerState /\ Live(u) = Live(s)
    BY <2>5, <2>8, CalmFocusOrClear, CalmKeeps
  <2>10. ~s.crashed => u.kb_focus \in Linked(t) \cup {NoWindow}
    <3>1. ClearFocus(t).kb_focus = NoWindow
      BY <2>5 DEF ClearFocus, ServerState
    <3> QED
      BY <2>5, <2>8, <3>1, FocusTakesKeyboard DEF FocusOrClear
  <2> HIDE DEF u, o
  <2>11. Calm(u, z)
    BY <1>1, <2>9, CalmArrangeOutput
  <2>12. Calm(t, z)
    BY <2>9, <2>11, CalmChain
  <2>13. Closes(s, z, w)
    BY <1>1, <2>6, <2>12, ClosesCalm
  <2>14. Sound(s) => /\ Remembered(z) /\ (z.crashed => s.crashed)
                     /\ ~s.crashed => OnKeyboard(z)
    <3>1. Sound(s) => Sound(t) /\ Sound(u)
      BY <2>5, <2>9, CalmKeeps
    <3>2. ~s.crashed => OnKeyboard(u)
      BY <2>9, <2>10, CalmKeeps, NullAssumption DEF OnKeyboard, Linked
    <3> QED
      BY <2>5, <2>11, <2>12, <3>1, <3>2 DEF Calm, Settles, Careful
  <2> HIDE DEF z
  <2> QED
    BY <2>1, <2>5, <2>6, <2>13, <2>14 DEF Sound
<1> QED
  BY <1>2, <1>3 DEF UnmapToplevel

\* apply_window_rules leaves a window of the right type on a connected output,
\* and changes nothing about scratchpads.
LEMMA MappedType ==
    ASSUME NEW s, Good(s), NEW w \in Window, NEW rule \in Rules,
           NEW dialog \in BOOLEAN
    PROVE  LET x == Mapped(s, w, rule, dialog)
           IN  /\ x \in Toplevel /\ x.life = "linked"
               /\ x.output \in Live(s) \cup {s.focused_output}
               /\ x.in_scratchpad = s.win[w].in_scratchpad
               /\ x.scratchpad_name = s.win[w].scratchpad_name
               /\ x.tree = s.win[w].tree /\ x.enabled = s.win[w].enabled
<1> DEFINE o == s.focused_output
           ws == IF o = NoOutput THEN 0 ELSE s.out[o].active_workspace
           Maps(x) ==
              /\ x \in Toplevel /\ x.life = "linked"
              /\ x.output \in Live(s) \cup {o}
              /\ x.in_scratchpad = s.win[w].in_scratchpad
              /\ x.scratchpad_name = s.win[w].scratchpad_name
              /\ x.tree = s.win[w].tree /\ x.enabled = s.win[w].enabled
           t == [s.win[w] EXCEPT !.life = "linked", !.output = o, !.workspace = ws]
           m == rule.monitor
           f == (t.flags \cup rule.on) \ rule.off
           n == IF rule.workspace = NoWorkspace THEN t.workspace ELSE rule.workspace
           u == [t EXCEPT !.flags = f, !.workspace = n]
           r == ApplyRule(s, t, rule)
           g == r.flags \cup {"floating"}
           d == [r EXCEPT !.flags = g]
<1>1. s \in ServerState /\ s.win[w] \in Toplevel
  BY DEF Good, ServerState
<1>2. o \in Live(s) \cup {NoOutput} /\ o \in Output \cup {NoOutput}
  BY <1>1, ListedWindows DEF Good, GoodPointers
<1>3. ws \in WS
  BY <1>1, <1>2, WsAssumption DEF ServerState, OutputState, WS
<1>4. /\ rule.on \in SUBSET Flag /\ rule.workspace \in WS \cup {NoWorkspace}
      /\ rule.monitor \in Output \cup {NoOutput}
  BY RuleAssumption DEF RuleType
<1>5. Mapped(s, w, rule, dialog) = IF dialog THEN d ELSE r
  <2> HIDE DEF r
  <2>1. d = [r EXCEPT !.flags = @ \cup {"floating"}]
    OBVIOUS
  <2> HIDE DEF d
  <2> QED
    BY <2>1, Zenon DEF Mapped, r
<1>6. Maps(t)
  <2> HIDE DEF ws, o
  <2> QED
    BY <1>1, <1>2, <1>3 DEF Toplevel
<1>7. r = IF m \notin Live(s) THEN u
          ELSE [u EXCEPT !.output = m, !.workspace = s.out[m].active_workspace]
  <2> HIDE DEF t
  <2>1. u = [t EXCEPT !.flags = (@ \cup rule.on) \ rule.off,
                      !.workspace = IF rule.workspace = NoWorkspace
                                    THEN @ ELSE rule.workspace]
    BY <1>6 DEF Toplevel
  <2> HIDE DEF u
  <2> QED
    BY <2>1, Zenon DEF ApplyRule
<1> HIDE DEF t, o
<1>8. f \in SUBSET Flag /\ n \in WS
  BY <1>4, <1>6 DEF Toplevel
<1> HIDE DEF f, n
<1>9. Maps(u)
  BY <1>2, <1>6, <1>8 DEF Toplevel
<1> HIDE DEF u
<1>10. Maps(r)
  <2>1. CASE m \notin Live(s)
    BY <1>7, <1>9, <2>1
  <2>2. CASE m \in Live(s)
    <3>1. m \in Output
      BY <1>1, <2>2, ListedWindows
    <3>2. s.out[m].active_workspace \in WS
      BY <1>1, <3>1 DEF ServerState, OutputState
    <3> HIDE DEF m
    <3>3. r = [u EXCEPT !.output = m, !.workspace = s.out[m].active_workspace]
      BY <1>7, <2>2
    <3> HIDE DEF r
    <3> QED
      BY <1>9, <2>2, <3>1, <3>2, <3>3 DEF Toplevel
  <2> QED
    BY <2>1, <2>2
<1> HIDE DEF r
<1>11. Maps(d)
  <2>1. g \in SUBSET Flag
    BY <1>10 DEF Toplevel, Flag
  <2> HIDE DEF g
  <2> QED
    BY <1>10, <2>1 DEF Toplevel
<1> QED
  BY <1>5, <1>10, <1>11 DEF o

\* x is a state in which w may be mapped: among the windows of an output, or in the
\* global scratchpad when that is open.
Opens(s, w, x) ==
    /\ x.life = "linked" /\ x.output \in Live(s) \cup {s.focused_output}
    /\ x.scratchpad_name = s.win[w].scratchpad_name /\ x.enabled = s.win[w].enabled
    /\ \/ /\ x.in_scratchpad = s.win[w].in_scratchpad
          /\ x.tree = s.win[w].tree
       \/ /\ x.in_scratchpad = TRUE /\ x.tree = Global
          /\ Global \in s.shown_pads

\* A window in state y is put into the list of mapped windows.
LEMMA LinkPuts ==
    ASSUME NEW s, Good(s), NEW w \in Window, w \notin Linked(s),
           NEW y \in Toplevel, y.life = "linked", y.output \in Live(s) \cup {NoOutput}
    PROVE  LET list == IF NewWindowMaster THEN <<w>> \o s.toplevels
                       ELSE Append(s.toplevels, w)
           IN  Puts(s, [s EXCEPT !.win[w] = y, !.toplevels = list], w, y)
<1> DEFINE list == IF NewWindowMaster THEN <<w>> \o s.toplevels
                   ELSE Append(s.toplevels, w)
           g == [s EXCEPT !.win[w] = y, !.toplevels = list]
<1>1. /\ s \in ServerState /\ s.toplevels \in Seq(Window)
      /\ s.win \in [Window -> Toplevel]
  BY DEF Good, ServerState
<1>2. list \in Seq(Window) /\ Holds(list, Linked(s) \cup {w})
  <2>1. w \in Window \ Range(s.toplevels)
    BY DEF Good, Holds
  <2> QED
    BY <1>1, <2>1, EndsHold DEF Good, Holds
<1> HIDE DEF list
<1>3. /\ g \in ServerState /\ g.toplevels = list /\ g.win[w] = y
      /\ \A p \in Window : p # w => g.win[p] = s.win[p]
      /\ g.outputs = s.outputs /\ g.focused_output = s.focused_output
      /\ g.out = s.out /\ g.kb_focus = s.kb_focus /\ g.crashed = s.crashed
      /\ g.shown_pads = s.shown_pads
  BY <1>1, <1>2 DEF ServerState
<1> HIDE DEF g
<1>4. Linked(g) = Linked(s) \cup {w} /\ Live(g) = Live(s)
  BY <1>3 DEF Linked, Live
<1>5. GoodPointers(g)
  BY <1>3, <1>4 DEF Good, GoodPointers, Linked
<1>6. Good(g)
  BY <1>2, <1>3, <1>4, <1>5 DEF Good
<1>7. Settles(s, g, {w})
  BY <1>1, <1>3, UnlinkedSettles
<1>8. SamePlace(y, g.win[w])
  BY <1>3 DEF SamePlace
<1>9. Puts(s, g, w, y)
  BY <1>3, <1>6, <1>7, <1>8 DEF Puts
<1> QED
  BY <1>9 DEF g, list

\* xdg_toplevel_map
LEMMA MapPuts ==
    ASSUME NEW s, Good(s), NEW w \in Window, w \notin Linked(s),
           NEW rule \in Rules, NEW dialog \in BOOLEAN
    PROVE  \E x \in Toplevel : /\ Opens(s, w, x)
                               /\ Puts(s, MapToplevel(s, w, rule, dialog), w, x)
<1> DEFINE new == Mapped(s, w, rule, dialog)
           hidden == [new EXCEPT !.in_scratchpad = TRUE, !.tree = Global,
                                 !.flags = @ \ {"floating"}]
           list == IF NewWindowMaster THEN <<w>> \o s.toplevels
                   ELSE Append(s.toplevels, w)
           t == [s EXCEPT !.win[w] = new, !.toplevels = list]
           u == [s EXCEPT !.win[w] = hidden, !.toplevels = list]
           v == IF rule.focused /\ new.output # NoOutput
                THEN SwitchTo(t, new.workspace) ELSE t
           x == FocusToplevel(v, w)
           z == ArrangeOutput(x, new.output)
<1>1. MapToplevel(s, w, rule, dialog) = IF PadShown(s) THEN FocusToplevel(u, w) ELSE z
  BY Zenon DEF MapToplevel
<1>2. /\ s \in ServerState /\ s.toplevels \in Seq(Window)
      /\ s.win \in [Window -> Toplevel]
      /\ s.focused_output \in Live(s) \cup {NoOutput}
  BY DEF Good, ServerState, GoodPointers
<1>3. /\ new \in Toplevel /\ new.life = "linked"
      /\ new.output \in Live(s) \cup {NoOutput}
      /\ Opens(s, w, new)
  BY <1>2, MappedType DEF Opens
<1> HIDE DEF new
<1>4. /\ hidden \in Toplevel /\ hidden.life = "linked"
      /\ hidden.output \in Live(s) \cup {NoOutput}
      /\ PadShown(s) => Opens(s, w, hidden)
  <2> DEFINE f == new.flags \ {"floating"}
  <2>1. f \in SUBSET Flag /\ Global \in Pad
    BY <1>3 DEF Toplevel, Pad
  <2>2. hidden = [new EXCEPT !.in_scratchpad = TRUE, !.tree = Global, !.flags = f]
    BY <1>3 DEF Toplevel
  <2> HIDE DEF f, hidden
  <2>3. /\ hidden \in Toplevel /\ hidden.life = "linked"
        /\ hidden.output = new.output /\ hidden.enabled = new.enabled
        /\ hidden.scratchpad_name = new.scratchpad_name
        /\ hidden.in_scratchpad = TRUE /\ hidden.tree = Global
    BY <1>3, <2>1, <2>2 DEF Toplevel
  <2> QED
    BY <1>3, <2>3 DEF Opens, PadShown
<1> HIDE DEF hidden
<1>5. ASSUME NEW y \in Toplevel, y.life = "linked",
             y.output \in Live(s) \cup {NoOutput}
      PROVE  LET g == [s EXCEPT !.win[w] = y, !.toplevels = list]
             IN  /\ Puts(s, g, w, y) /\ g \in ServerState /\ Good(g)
                 /\ w \in Linked(g) /\ Live(g) = Live(s)
  <2> DEFINE g == [s EXCEPT !.win[w] = y, !.toplevels = list]
  <2>1. Puts(s, g, w, y)
    BY <1>5, LinkPuts
  <2> HIDE DEF g
  <2>2. g \in ServerState /\ Good(g) /\ w \in Linked(g) /\ Live(g) = Live(s)
    BY <1>5, <2>1 DEF Puts, Good, Settles, Shifts, SamePlace, Linked, Live
  <2> QED
    BY <2>1, <2>2 DEF g
<1> HIDE DEF list
<1>6. /\ Puts(s, t, w, new) /\ Good(t) /\ w \in Linked(t) /\ Live(t) = Live(s)
      /\ Puts(s, u, w, hidden) /\ u \in ServerState /\ w \in Linked(u)
  BY <1>3, <1>4, <1>5
<1> HIDE DEF t, u
<1>7. Puts(s, FocusToplevel(u, w), w, hidden)
  BY <1>6, CalmFocusToplevel, PutsCalm
<1>8. Calm(t, v)
  <2>1. new.workspace \in WS /\ t \in ServerState
    BY <1>3, <1>6 DEF Toplevel, Good
  <2> QED
    BY <1>6, <2>1, CalmSwitchTo, CalmSame
<1> HIDE DEF v
<1>9. Calm(v, x)
  <2>1. v \in ServerState /\ w \in Linked(v)
    BY <1>6, <1>8, CalmKeeps
  <2> QED
    BY <2>1, CalmFocusToplevel
<1>10. Calm(x, z)
  <2>1. x \in ServerState /\ Live(x) = Live(s)
    BY <1>6, <1>8, <1>9, CalmKeeps
  <2> HIDE DEF x
  <2> QED
    BY <1>3, <2>1, CalmArrangeOutput
<1> HIDE DEF x, z
<1>11. Calm(t, z)
  BY <1>8, <1>9, <1>10, CalmChain
<1>12. Puts(s, z, w, new)
  BY <1>6, <1>11, PutsCalm
<1> QED
  BY <1>1, <1>3, <1>4, <1>7, <1>12

----------------------------------------------------------------------------
(* The specification *)

----------------------------------------------------------------------------
(***************************************************************************)
(* What a callback can do to the windows, for the properties of the        *)
(* specification to be proved by cases: the kinds of step.                 *)
(***************************************************************************)

\* The event that lets the user reach a scratchpad.
PadEvent(p) == IF p = Global THEN "scratchpad" ELSE "named"

\* The two callbacks that dereference a null pointer, whatever came before.
Breaks(s, t) ==
    /\ {"swap", "request_fullscreen"} \cap Events # {}
    /\ \E x : Reordered(s, x) /\ t = Crash(x)

\* A scratchpad is opened, with all its windows, or closed.
Turns(s, t, p) ==
    /\ PadEvent(p) \in Events
    /\ Stays(s, t)
    /\ \/ t.shown_pads = s.shown_pads \ {p}
       \/ /\ t.shown_pads = s.shown_pads \cup {p}
          /\ \A w \in InPad(s, p) : t.win[w].enabled = TRUE

SendsToWorkspace(s, t, w) ==
    \E ws \in WS, b \in BOOLEAN :
        Puts(s, t, w, [s.win[w] EXCEPT !.in_scratchpad = FALSE, !.tree = "windows",
                                       !.workspace = ws, !.enabled = b])
SendsToMonitor(s, t, w) ==
    \E o \in Live(s), ws \in WS :
        Puts(s, t, w, [s.win[w] EXCEPT !.output = o, !.enabled = TRUE,
                                       !.workspace = ws])
Hides(s, t, w, p) ==
    /\ PadEvent(p) \in Events
    /\ \E f \in SUBSET Flag :
          Puts(s, t, w, [s.win[w] EXCEPT
                             !.in_scratchpad = TRUE,
                             !.scratchpad_name = IF p = Global THEN @ ELSE p,
                             !.flags = f, !.tree = p,
                             !.enabled = p \in s.shown_pads])

\* The user moves the window with the keyboard.
Sends(s, t, w) ==
    /\ w \in Linked(s) /\ w = s.kb_focus
    /\ \/ SendsToWorkspace(s, t, w)
       \/ SendsToMonitor(s, t, w)
       \/ \E p \in Pad : Hides(s, t, w, p)

\* A window object is made or deleted.
Makes(s, t, w) ==
    /\ w \notin Linked(s)
    /\ \/ /\ s.win[w].life = "free"
          /\ Puts(s, t, w, [s.win[w] EXCEPT !.life = "fresh"])
       \/ Puts(s, t, w, NewToplevelState)

Maps(s, t, w) ==
    /\ w \notin Linked(s)
    /\ s.win[w].life = "fresh" \/ "remap" \in Events
    /\ \E x \in Toplevel : Opens(s, w, x) /\ Puts(s, t, w, x)

Unmaps(s, t, w) ==
    /\ w \in Linked(s)
    /\ Closes(s, t, w)
    /\ Sound(s) /\ ~s.win[w].in_scratchpad =>
          /\ Remembered(t)
          /\ t.crashed => s.crashed
          /\ s.win[w].output # NoOutput => OnKeyboard(t)

Plugs(s, t, o) ==
    /\ o \in Output \ Live(s)
    /\ Live(t) = Live(s) \cup {o}
    /\ Hands(s, t, OnOutput(s, NoOutput), o)
    /\ Hosted(t)

Unplugs(s, t, o) ==
    /\ "unplug" \in Events
    /\ o \in Live(s)
    /\ Live(t) = Live(s) \ {o}
    /\ \E to \in Live(t) \cup {NoOutput} :
          /\ Hands(s, t, OnOutput(s, o), to)
          /\ Hosted(s) => Hosted(t) /\ (to = NoOutput => Live(t) = {})

Resumes(s, t) ==
    /\ Live(t) = Live(s)
    /\ Hosted(s) => Hosted(t)
    /\ \E to \in Live(s) : Hands(s, t, OnOutput(s, NoOutput), to)

\* Turning a monitor off does not look at what it remembers.
TurnsOff(s, t, o) ==
    /\ "disable" \in Events
    /\ \E to : Gives(s, t, OnOutput(s, o), to)

\* What a callback does that unmaps no window.
Retains(s, t) ==
    \/ Reordered(s, t)
    \/ Breaks(s, t)
    \/ \E p \in Pad : Turns(s, t, p)
    \/ \E w \in Window : Sends(s, t, w) \/ Makes(s, t, w) \/ Maps(s, t, w)
    \/ \E o \in Output : Plugs(s, t, o) \/ Unplugs(s, t, o) \/ TurnsOff(s, t, o)
    \/ Resumes(s, t)

Callback(s, t) == Retains(s, t) \/ \E w \in Window : Unmaps(s, t, w)

\* A calm handler is a callback of the first kind, and so is one that does nothing.
LEMMA CalmCallback ==
    ASSUME NEW s, Good(s)
    PROVE  Reordered(s, s) /\ \A t : Calm(s, t) => Reordered(s, t)
BY CalmStays, CalmSame DEF Reordered, Good

\* What a client does is a callback of one of these kinds.
LEMMA ClientCallbacks ==
    ASSUME Good(server), ClientStep
    PROVE  Retains(server, server')
<1> DEFINE s == server
           t == server'
<1>1. PICK w \in Window :
         \/ New(w)
         \/ \E rule \in Rules, dialog \in BOOLEAN : Map(w, rule, dialog)
         \/ Destroy(w) \/ RequestFullscreen(w) \/ Activate(w)
  BY DEF ClientStep
<1>2. CASE New(w) \/ Destroy(w)
  <2>1. Makes(s, t, w)
    BY <1>2, NewAndDestroyPuts DEF New, Destroy, Linked, Makes
  <2> QED
    BY <2>1 DEF Retains
<1>3. ASSUME NEW rule \in Rules, NEW dialog \in BOOLEAN, Map(w, rule, dialog)
      PROVE  Retains(s, t)
  <2>1. Maps(s, t, w)
    BY <1>3, MapPuts DEF Map, Linked, Maps, Occurs
  <2> QED
    BY <2>1 DEF Retains
<1>4. CASE RequestFullscreen(w)
  <2>1. "fullscreen" \in Flag
    BY DEF Flag
  <2>2. PICK x : Calm(s, x) /\ (Calm(x, t) \/ t = Crash(x))
    BY <1>4, <2>1, CalmToggleFlag DEF RequestFullscreen
  <2>3. "request_fullscreen" \in Events
    BY <1>4 DEF RequestFullscreen, Occurs
  <2>4. Reordered(s, t) \/ Breaks(s, t)
    BY <2>2, <2>3, CalmChain, CalmCallback DEF Breaks
  <2> QED
    BY <2>4 DEF Retains
<1>5. CASE Activate(w)
  BY <1>5, CalmForeignActivate, CalmCallback DEF Activate, Retains
<1> QED
  BY <1>1, <1>2, <1>3, <1>4, <1>5

\* So is what involves the pointer, unmapping included.
LEMMA PointerCallbacks ==
    ASSUME Good(server), PointerStep
    PROVE  Callback(server, server')
<1> DEFINE s == server
           t == server'
<1>1. s \in ServerState
  BY DEF Good
<1>2. ASSUME NEW w \in Window, Click(w)
      PROVE  Reordered(s, t)
  <2>1. w \in Linked(s)
    <3>1. ASSUME NEW o, w \in Tabs(s, o)
          PROVE  w \in Linked(s)
      BY <3>1 DEF Tabs, Good, Holds
    <3> QED
      BY <1>2, <3>1 DEF Click, Clickable, OnScreen, InTabBar, Shown
  <2> QED
    BY <1>1, <1>2, <2>1, CalmFocusToplevel, CalmCallback DEF Click
<1>3. ASSUME NEW at, Hover(at)
      PROVE  Reordered(s, t)
  <2>1. at \in Live(s) \cup {NoOutput}
    BY <1>3 DEF Hover, UnderCursor
  <2> QED
    BY <1>1, <1>3, <2>1, CalmPointerRefresh, CalmCallback DEF Hover
<1>4. ASSUME NEW w \in Window, NEW at, Unmap(w, at)
      PROVE  Unmaps(s, t, w)
  <2> DEFINE u == UnmapToplevel(s, w)
  <2>1. /\ w \in Linked(s) /\ ~s.crashed /\ t = PointerRefresh(u, at)
        /\ at \in Live(s) \cup {NoOutput}
    BY <1>4 DEF Unmap, UnderCursor
  <2>2. /\ Closes(s, u, w)
        /\ Sound(s) /\ ~s.win[w].in_scratchpad =>
              /\ Remembered(u)
              /\ u.crashed => s.crashed
              /\ s.win[w].output # NoOutput => OnKeyboard(u)
    BY <2>1, UnmapCloses
  <2> HIDE DEF u
  <2>3. Good(u) /\ u \in ServerState /\ Live(u) = Live(s)
    BY <2>2 DEF Closes, Good, Shifts, Live
  <2>4. Calm(u, t)
    BY <2>1, <2>3, CalmPointerRefresh
  <2>5. Closes(s, t, w)
    BY <2>2, <2>4, ClosesCalm
  <2>6. Remembered(u) => /\ Remembered(t)
                         /\ OnKeyboard(u) => OnKeyboard(t)
                         /\ t.crashed => u.crashed
    BY <2>3, <2>4 DEF Calm, Settles, Careful, Sound, Good
  <2> QED
    BY <2>1, <2>2, <2>5, <2>6 DEF Unmaps
<1> QED
  BY <1>2, <1>3, <1>4 DEF PointerStep, Retains, Callback

\* So is what the user does.
LEMMA UserCallbacks ==
    ASSUME Good(server), UserStep
    PROVE  Retains(server, server')
<1> DEFINE s == server
           t == server'
<1>1. s \in ServerState
  BY DEF Good
<1>2. Reordered(s, s) /\ \A x : Calm(s, x) => Reordered(s, x)
  BY CalmCallback
<1>3. FocusedToplevel(s) \in Linked(s) => FocusedToplevel(s) = s.kb_focus
  BY NullAssumption DEF FocusedToplevel, Linked
<1>4. \A w \in Linked(s) : Sends(s, t, w) => Retains(s, t)
  BY DEF Retains, Linked
<1>5. ASSUME NEW ws \in WS, Switch(ws)
      PROVE  Retains(s, t)
  BY <1>2, <1>5, CalmSwitchTo DEF Switch, Retains
<1>6. ASSUME NEW ws \in WS, SendToWorkspace(ws)
      PROVE  Retains(s, t)
  <2> DEFINE w == FocusedToplevel(s)
  <2>1. t = s \/ (w \in Linked(s) /\ SendsToWorkspace(s, t, w))
    BY <1>6, MoveToWorkspaceMoves DEF SendToWorkspace, SendsToWorkspace
  <2> HIDE DEF w
  <2>2. w \in Linked(s) => w = s.kb_focus
    BY <1>3 DEF w
  <2> QED
    BY <1>2, <1>4, <2>1, <2>2 DEF Retains, Sends
<1>7. ASSUME NEW step, FocusOtherMonitor(step)
      PROVE  Retains(s, t)
  BY <1>2, <1>7, CalmFocusMonitor DEF FocusOtherMonitor, Retains
<1>8. ASSUME NEW step, SendToMonitor(step)
      PROVE  Retains(s, t)
  <2> DEFINE w == FocusedToplevel(s)
  <2>1. t = s \/ (w \in Linked(s) /\ SendsToMonitor(s, t, w))
    BY <1>8, MoveToMonitorMoves DEF SendToMonitor, SendsToMonitor
  <2> HIDE DEF w
  <2>2. w \in Linked(s) => w = s.kb_focus
    BY <1>3 DEF w
  <2> QED
    BY <1>2, <1>4, <2>1, <2>2 DEF Retains, Sends
<1>9. ASSUME NEW p \in Pad, Hide(p)
      PROVE  Retains(s, t)
  <2> DEFINE w == FocusedToplevel(s)
  <2>1. PadEvent(p) \in Events
    BY <1>9 DEF Hide, Occurs, PadEvent
  <2>2. t = s \/ (w \in Linked(s) /\ Hides(s, t, w, p))
    BY <1>9, <2>1, MoveToScratchpadMoves DEF Hide, Hides
  <2> HIDE DEF w
  <2>3. w \in Linked(s) => w = s.kb_focus
    BY <1>3 DEF w
  <2> QED
    BY <1>2, <1>4, <2>2, <2>3 DEF Retains, Sends
<1>10. ASSUME NEW p \in Pad, TogglePad(p)
       PROVE  Retains(s, t)
  <2>1. PadEvent(p) \in Events /\ t = ToggleScratchpad(s, p)
    BY <1>10 DEF TogglePad, Occurs, PadEvent
  <2>2. Turns(s, t, p)
    BY <2>1, ToggleScratchpadStays DEF Turns
  <2> QED
    BY <2>2 DEF Retains
<1>11. ASSUME NEW flag \in Flag, Toggle(flag)
       PROVE  Retains(s, t)
  <2>1. FocusedToplevel(s) \in Linked(s) /\ FocusedToplevel(s) \in Window
    BY <1>1, <1>11, FoundWindows DEF Toggle
  <2> QED
    BY <1>2, <1>11, <2>1, CalmToggleFlag DEF Toggle, Retains
<1>12. ASSUME NEW mode \in Layout, ChooseLayout(mode)
       PROVE  Retains(s, t)
  BY <1>2, <1>12, CalmLayouts DEF ChooseLayout, Retains
<1>13. CASE MoveFocus
  BY <1>1, <1>2, <1>13, CalmFocusCommands DEF MoveFocus, Retains
<1>14. CASE Reorder
  <2>1. "swap" \in Events
    BY <1>14 DEF Reorder, Occurs
  <2>2. t = Crash(s) \/ Reordered(s, t)
    BY <1>14, ReorderStays DEF Reorder
  <2>3. t = Crash(s) => Breaks(s, t)
    BY <1>2, <2>1 DEF Breaks
  <2> QED
    BY <2>2, <2>3 DEF Retains
<1> QED
  BY <1>5, <1>6, <1>7, <1>8, <1>9, <1>10, <1>11, <1>12, <1>13, <1>14 DEF UserStep

\* So is what happens to monitors and the session.
LEMMA MonitorCallbacks ==
    ASSUME Good(server), MonitorStep
    PROVE  Retains(server, server')
<1> DEFINE s == server
           t == server'
<1>1. ASSUME NEW o \in Output, Plug(o)
      PROVE  Plugs(s, t, o)
  BY <1>1, NewOutputHands DEF Plug, Plugs
<1>2. ASSUME NEW o \in Output, Unplug(o)
      PROVE  Unplugs(s, t, o)
  BY <1>2, OutputDestroyHands DEF Unplug, Unplugs, Occurs
<1>3. ASSUME NEW o \in Output, TurnOff(o)
      PROVE  TurnsOff(s, t, o)
  BY <1>3, PowerGives DEF TurnOff, TurnsOff, Lit, Occurs
<1>4. ASSUME NEW o \in Output, TurnOn(o)
      PROVE  Reordered(s, t)
  BY <1>4, PowerGives, CalmCallback DEF TurnOn
<1>5. ASSUME Resume
      PROVE  Reordered(s, t) \/ Resumes(s, t)
  BY <1>5, SessionActiveHands, CalmCallback DEF Resume, Resumes
<1> QED
  BY <1>1, <1>2, <1>3, <1>4, <1>5 DEF MonitorStep, Retains

\* Every step is one of these.
LEMMA NextCallback ==
    ASSUME Good(server), Next
    PROVE  Callback(server, server')
BY ClientCallbacks, PointerCallbacks, UserCallbacks, MonitorCallbacks DEF Next, Callback

\* Every one of these keeps the lists and the pointers to outputs in order.
LEMMA CallbackGood ==
    ASSUME NEW s, Good(s), NEW t, Callback(s, t)
    PROVE  Good(t)
<1>1. ASSUME NEW x, Good(x)
      PROVE  Good(Crash(x))
  <2> DEFINE c == Crash(x)
  <2>1. /\ c \in ServerState /\ c.win = x.win /\ c.toplevels = x.toplevels
        /\ c.outputs = x.outputs /\ c.focused_output = x.focused_output
    BY <1>1 DEF Good, ServerState, Crash
  <2> HIDE DEF c
  <2>2. Linked(c) = Linked(x) /\ Live(c) = Live(x)
    BY <2>1 DEF Linked, Live
  <2>3. Good(c)
    BY <1>1, <2>1, <2>2 DEF Good, GoodPointers
  <2> QED
    BY <2>3 DEF c
<1>2. CASE Breaks(s, t)
  BY <1>1, <1>2 DEF Breaks, Reordered, Stays
<1>3. ASSUME NEW w, Sends(s, t, w) \/ Makes(s, t, w) \/ Maps(s, t, w)
      PROVE  Good(t)
  BY <1>3 DEF Sends, SendsToWorkspace, SendsToMonitor, Hides, Makes, Maps, Puts
<1>4. ASSUME NEW w, Unmaps(s, t, w)
      PROVE  Good(t)
  BY <1>4 DEF Unmaps, Closes
<1>5. ASSUME NEW o, \/ Plugs(s, t, o) \/ Unplugs(s, t, o) \/ TurnsOff(s, t, o)
                    \/ Resumes(s, t)
      PROVE  Good(t)
  BY <1>5 DEF Plugs, Unplugs, TurnsOff, Resumes, Hands, Gives
<1> QED
  BY <1>2, <1>3, <1>4, <1>5 DEF Callback, Retains, Reordered, Turns, Stays

----------------------------------------------------------------------------
(* The specification *)

\* nnwm starts in order, whatever monitors are connected.
LEMMA InitGood == Init => Good(server)
<1> SUFFICES ASSUME NEW order \in Orders(Connected),
                    server = [toplevels |-> <<>>,
                              win |-> [w \in Window |-> NewToplevelState],
                              outputs |-> order,
                              out |-> [o \in Output |-> NewOutputState],
                              focused_output |-> IF order = <<>> THEN NoOutput
                                                 ELSE order[Len(order)],
                              kb_focus |-> NoWindow, shown_pads |-> {},
                              crashed |-> FALSE]
             PROVE  Good(server)
  BY Zenon DEF Init, StartWith
<1> DEFINE n == Cardinality(Connected)
           fo == IF order = <<>> THEN NoOutput ELSE order[Len(order)]
<1>1. n \in Nat
  BY ConnectedAssumption, FS_CardinalityType
<1>2. order \in [1 .. n -> Output] /\ IsInjective(order)
  BY ConnectedAssumption DEF Orders
<1>3. order \in Seq(Output) /\ Len(order) = n
  BY <1>1, <1>2, IsASeq, LenProperties
<1>4. fo \in Range(order) \cup {NoOutput}
  <2>1. order # <<>> => n \in 1 .. n
    BY <1>1, <1>3, EmptySeq
  <2> QED
    BY <1>2, <1>3, <2>1 DEF Range
<1> HIDE DEF fo, n
<1>5. fo \in Output \cup {NoOutput}
  BY <1>2, <1>4 DEF Range
<1>6. 0 \in WS /\ DefaultLayout \in Layout
  BY WsAssumption, LayoutAssumption DEF WS
<1>7. NewToplevelState \in Toplevel /\ NewToplevelState.life = "free"
  BY <1>6 DEF NewToplevelState, Toplevel, Pad
<1>8. NewOutputState \in OutputState
  BY <1>6 DEF NewOutputState, OutputState
<1>9. /\ server.toplevels = <<>> /\ server.outputs = order
      /\ server.win = [w \in Window |-> NewToplevelState]
      /\ server.focused_output = fo
  BY DEF fo
<1>10. server \in ServerState
  BY <1>3, <1>5, <1>7, <1>8 DEF ServerState, fo
<1>11. Linked(server) = {} /\ Live(server) = Range(order)
  BY <1>7, <1>9 DEF Linked, Live
<1>12. Holds(server.toplevels, Linked(server))
  <2>1. DOMAIN <<>> = {}
    OBVIOUS
  <2>2. IsInjective(<<>>) /\ Range(<<>>) = {}
    BY <2>1 DEF IsInjective, Range
  <2> QED
    BY <1>9, <1>11, <2>2 DEF Holds
<1>13. GoodPointers(server)
  BY <1>4, <1>9, <1>11 DEF GoodPointers
<1> QED
  BY <1>2, <1>9, <1>10, <1>12, <1>13 DEF Good

\* Good is an invariant of every instance, and so every step is a callback.
THEOREM SpecGood == Spec => []Good(server)
<1>1. Init => Good(server)
  BY InitGood
<1>2. Good(server) /\ [Next]_vars => Good(server)'
  <2>1. Good(server) /\ Next => Good(server')
    BY NextCallback, CallbackGood
  <2>2. Good(server)' <=> Good(server')
    OBVIOUS
  <2>3. Good(server) /\ UNCHANGED vars => Good(server')
    BY DEF vars
  <2> QED
    BY <2>1, <2>2, <2>3
<1> QED
  BY <1>1, <1>2, PTL DEF Spec

\* No callback ever stores a value of the wrong type in the shared state.
THEOREM TypeCorrect == Spec => []TypeOK
<1>1. Good(server) => TypeOK
  BY DEF Good, TypeOK
<1> QED
  BY SpecGood, <1>1, PTL

\* Every walk over server->toplevels meets each mapped window exactly once,
\* after any sequence of maps, unmaps, swaps and cycles.
THEOREM ListsCorrect == Spec => []Lists
<1>1. Good(server) => Lists
  BY DEF Good, Holds, Lists
<1> QED
  BY SpecGood, <1>1, PTL

\* Neither a mapped window nor focused_output refers to an output that is gone,
\* in whatever order monitors come, go, are turned off and VTs are switched.
THEOREM OutputPointersCorrect == Spec => []OutputPointers
<1>1. Good(server) => OutputPointers
  BY DEF Good, GoodPointers, OutputPointers, win
<1> QED
  BY SpecGood, <1>1, PTL

============================================================================
