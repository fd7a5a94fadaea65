--------------------------- MODULE PointerProofs ---------------------------
(***************************************************************************)
(* What a grab holds on to is there when it is used (GrabSafe), and the    *)
(* drop of a tile exchanges two windows and moves no other                 *)
(* (DropExchanges).  Both need that the lists and pointers of the window   *)
(* manager stay good (Good of WindowManagerProofs) in the overview and     *)
(* under the pointer too: a drop exchanges two windows that the list       *)
(* holds, and a window that follows the pointer goes to a monitor that is  *)
(* there.                                                                  *)
(***************************************************************************)
EXTENDS Pointer, WindowManagerProofs

----------------------------------------------------------------------------
(* The overview *)

\* Outputs may change in any way that leaves last_focused alone.
LEMMA CalmOutputs ==
    ASSUME NEW s \in ServerState, NEW f \in [Output -> OutputState],
           \A o \in Output : f[o].last_focused = s.out[o].last_focused
    PROVE  Calm(s, [s EXCEPT !.out = f])
<1>1. \A o \in Live(s) : f[o].last_focused = s.out[o].last_focused
  BY ListedWindows
<1> QED
  BY <1>1, CalmOut

\* An output enters the overview, leaves it or is about to.
LEMMA CalmOverview ==
    ASSUME NEW s \in ServerState, NEW O, NEW v \in {"off", "on", "leaving"}
    PROVE  Calm(s, [s EXCEPT !.out = [o \in Output |->
                        IF o \in O THEN [s.out[o] EXCEPT !.overview = v] ELSE s.out[o]]])
<1> DEFINE f == [o \in Output |->
                    IF o \in O THEN [s.out[o] EXCEPT !.overview = v] ELSE s.out[o]]
<1>1. \A o \in Output : s.out[o] \in OutputState
  BY DEF ServerState
<1>2. ASSUME NEW o \in Output
      PROVE  f[o] \in OutputState /\ f[o].last_focused = s.out[o].last_focused
  <2> DEFINE x == [s.out[o] EXCEPT !.overview = v]
  <2>1. x \in OutputState /\ x.last_focused = s.out[o].last_focused
    BY <1>1 DEF OutputState
  <2> HIDE DEF x
  <2>2. f[o] \in {x, s.out[o]}
    BY DEF x
  <2> QED
    BY <1>1, <2>1, <2>2
<1>3. f \in [Output -> OutputState]
  BY <1>2
<1> HIDE DEF f
<1>4. Calm(s, [s EXCEPT !.out = f])
  BY <1>2, <1>3, CalmOutputs
<1> QED
  BY <1>4 DEF f

\* render_overview pictures windows and moves none.
LEMMA CalmRender ==
    ASSUME NEW s \in ServerState, NEW O, Sound(s) => O \subseteq Live(s)
    PROVE  Calm(s, RenderOverview(s, O))
<1> DEFINE f == [w \in Window |->
                    IF w \in Linked(s) /\ s.win[w].output \in O
                    THEN PicturedWindow(s, w) ELSE s.win[w]]
           b == s.crashed \/ \E o \in O : FreedFront(s, o, WS)
           t == [s EXCEPT !.win = f]
<1>1. RenderOverview(s, O) = [t EXCEPT !.crashed = b]
  BY DEF RenderOverview, ServerState
<1>2. \A w \in Window : f[w] \in Toplevel /\ SamePlace(s.win[w], f[w])
  <2>1. \A w \in Window : s.win[w] \in Toplevel /\ SamePlace(s.win[w], s.win[w])
    BY DEF ServerState, SamePlace
  <2> QED
    BY <2>1, ArrangeWindowType
<1>3. f \in [Window -> Toplevel]
  BY <1>2
<1>4. b \in BOOLEAN /\ (Sound(s) /\ b => s.crashed)
  BY NoFreedFront DEF ServerState
<1> HIDE DEF f, b
<1>5. Calm(s, t) /\ t.crashed = s.crashed
  BY <1>2, <1>3, CalmWin DEF ServerState
<1>6. t \in ServerState /\ (Sound(t) => Sound(s))
  <2>1. /\ t \in ServerState /\ t.win = f /\ t.out = s.out /\ t.outputs = s.outputs
        /\ t.focused_output = s.focused_output
    BY <1>3 DEF ServerState
  <2> HIDE DEF t
  <2>2. Linked(t) = Linked(s) /\ Live(t) = Live(s)
    BY <1>5, CalmKeeps
  <2>3. \A w \in Linked(s) : /\ t.win[w].output = s.win[w].output
                             /\ t.win[w].workspace = s.win[w].workspace
    BY <1>2, <2>1 DEF SamePlace, Linked
  <2>4. \A o, ws, w : Owns(t, o, ws, w) => Owns(s, o, ws, w)
    BY <2>1, <2>2, <2>3 DEF Owns
  <2> QED
    BY <2>1, <2>2, <2>3, <2>4 DEF Sound, GoodPointers, Remembered
<1>7. Calm(t, [t EXCEPT !.crashed = b])
  BY <1>4, <1>5, <1>6, CalmFields
<1> HIDE DEF t
<1> QED
  BY <1>1, <1>5, <1>7, CalmChain

\* exit_overview
LEMMA CalmExitOverview ==
    ASSUME NEW s, Good(s), NEW o \in Live(s)
    PROVE  Calm(s, ExitOverview(s, o))
<1> DEFINE f == [p \in Output |-> IF p \in {o} THEN [s.out[p] EXCEPT !.overview = "off"]
                                 ELSE s.out[p]]
           q == [s EXCEPT !.out[o].overview = "off"]
           r == SweepVisibility(q)
           t == Arrange(r, {o})
           ws == t.out[o].active_workspace
           last == t.out[o].last_focused[ws]
           next == IF /\ last # NoWindow
                      /\ t.win[last].output = o /\ t.win[last].workspace = ws
                   THEN last
                   ELSE Or(FirstIn(t, Tiled(t, o)), FirstIn(t, Floats(t, o)))
<1>1. s \in ServerState /\ o \in Output
  BY ListedWindows DEF Good
<1>2. ExitOverview(s, o) = IF o # s.focused_output \/ t.crashed THEN t
                           ELSE IF last # NoWindow /\ t.win[last].life = "free" THEN Crash(t)
                           ELSE FocusOrClear(t, next)
  BY Zenon DEF ExitOverview
<1>3. q = [s EXCEPT !.out = f]
  BY <1>1 DEF ServerState
<1>4. Calm(s, [s EXCEPT !.out = f])
  BY <1>1, CalmOverview
<1> HIDE DEF f, q
<1>5. q \in ServerState /\ Calm(s, q) /\ Live(q) = Live(s)
  BY <1>3, <1>4, CalmKeeps
<1>6. r \in ServerState /\ Calm(s, r) /\ Live(r) = Live(s)
  BY <1>5, CalmSweepVisibility, CalmChain, CalmKeeps
<1> HIDE DEF r
<1>7. t \in ServerState /\ Calm(s, t) /\ Live(t) = Live(s)
  BY <1>6, CalmArrange, CalmChain, CalmKeeps
<1> HIDE DEF t
<1>8. ws \in WS
  BY <1>1, <1>7 DEF ServerState, OutputState
<1> HIDE DEF ws
<1>9. /\ last \in Window \cup {NoWindow}
      /\ Sound(t) => last \in Linked(t) \cup {NoWindow}
  BY <1>1, <1>7, <1>8, FoundWindows DEF Sound, Remembered, Owns
<1> HIDE DEF last
<1>10. /\ next \in Window \cup {NoWindow}
       /\ Sound(t) => next \in Linked(t) \cup {NoWindow}
  <2>1. /\ FirstIn(t, Tiled(t, o)) \in Linked(t) \cup {NoWindow}
        /\ FirstIn(t, Floats(t, o)) \in Linked(t) \cup {NoWindow}
        /\ Linked(t) \subseteq Window
    BY <1>7, FoundLinked, FoundWindows DEF Tiled, Floats
  <2> QED
    BY <1>9, <2>1 DEF Or
<1> HIDE DEF next
<1>11. Calm(s, FocusOrClear(t, next))
  BY <1>7, <1>10, CalmFocusOrClear, CalmChain
<1>12. ASSUME last # NoWindow, t.win[last].life = "free"
       PROVE  Calm(s, Crash(t))
  <2>1. ~Sound(t)
    BY <1>9, <1>12 DEF Linked
  <2> QED
    BY <1>7, <2>1, CalmCrash, CalmChain
<1> QED
  BY <1>2, <1>7, <1>11, <1>12

\* exit_overview of some monitors, one after the other.  What the function computes for
\* the first of them exists, and is calm, since there is no least number of them for
\* which it does not or is not.
LEMMA CalmExitEach ==
    ASSUME NEW s, Good(s), NEW O
    PROVE  Calm(s, ExitEach(s, O))
<1> DEFINE n == Len(s.outputs)
           Exits(f, m) ==
              f = [i \in 0 .. m |->
                     IF i = 0 THEN s
                     ELSE IF s.outputs[i] \in O THEN ExitOverview(f[i - 1], s.outputs[i])
                     ELSE f[i - 1]]
<1>1. /\ s \in ServerState /\ n \in Nat
      /\ \A i \in 1 .. n : s.outputs[i] \in Live(s)
  BY DEF Good, ServerState, Live, Range
<1>2. \A m \in 0 .. n : \E f : Exits(f, m)
  <2> DEFINE B == {m \in 0 .. n : \A f : ~Exits(f, m)}
  <2> SUFFICES ASSUME B # {}
               PROVE  FALSE
    <3> HIDE DEF Exits
    <3> QED
      BY Zenon
  <2>1. B \in SUBSET Nat
    BY <1>1
  <2>2. PICK m \in B : \A j \in B : m <= j
    <3> HIDE DEF B
    <3> QED
      BY <2>1, LeastNatural
  <2>3. CASE m = 0
    <3> DEFINE f == [i \in 0 .. 0 |-> s]
    <3>1. Exits(f, 0)
      OBVIOUS
    <3> QED
      BY <2>2, <2>3, <3>1
  <2>4. CASE m # 0
    <3>1. m \in 0 .. n /\ m - 1 \in 0 .. n /\ m \in 1 .. n /\ ~(m <= m - 1)
      <4>1. m \in 0 .. n
        BY <2>2
      <4> HIDE DEF B
      <4> QED
        BY <1>1, <2>4, <4>1
    <3>2. m - 1 \notin B
      <4> HIDE DEF B
      <4> QED
        BY <2>2, <3>1, Zenon
    <3>3. PICK f : Exits(f, m - 1)
      <4> HIDE DEF Exits
      <4> QED
        BY <3>1, <3>2, Zenon
    <3> DEFINE g == [i \in 0 .. m |->
                       IF i < m THEN f[i]
                       ELSE IF s.outputs[m] \in O THEN ExitOverview(f[m - 1], s.outputs[m])
                       ELSE f[m - 1]]
               h == [i \in 0 .. m |->
                     IF i = 0 THEN s
                     ELSE IF s.outputs[i] \in O THEN ExitOverview(g[i - 1], s.outputs[i])
                     ELSE g[i - 1]]
    <3>4. ASSUME NEW i \in 0 .. m
          PROVE  g[i] = h[i]
      <4>1. CASE i = m
        BY <3>1, <4>1
      <4>2. CASE i # m
        <5>1. i \in 0 .. m - 1 /\ i < m /\ i - 1 < m
          BY <3>1, <4>2
        <5>2. f[i] = IF i = 0 THEN s
                     ELSE IF s.outputs[i] \in O THEN ExitOverview(f[i - 1], s.outputs[i])
                     ELSE f[i - 1]
          BY <3>3, <5>1
        <5>3. i # 0 => g[i - 1] = f[i - 1]
          BY <3>1, <5>1
        <5> QED
          BY <3>1, <5>1, <5>2, <5>3
      <4> QED
        BY <4>1, <4>2
    <3>5. g = h
      BY <3>4
    <3>6. Exits(g, m)
      BY <3>5
    <3> QED
      BY <2>2, <3>6
  <2> QED
    BY <2>3, <2>4
<1>3. PICK f : Exits(f, n) /\ ExitEach(s, O) = f[n]
  <2> DEFINE after == CHOOSE f : Exits(f, n)
  <2>1. ExitEach(s, O) = after[n]
    BY DEF ExitEach
  <2>2. \E f : Exits(f, n)
    BY <1>1, <1>2
  <2> HIDE DEF Exits
  <2>3. Exits(after, n)
    BY <2>2
  <2> QED
    BY <2>1, <2>3
<1>4. \A i \in 0 .. n : Calm(s, f[i])
  <2> DEFINE B == {i \in 0 .. n : ~Calm(s, f[i])}
  <2> SUFFICES ASSUME B # {}
               PROVE  FALSE
    OBVIOUS
  <2>1. B \in SUBSET Nat
    BY <1>1
  <2>2. PICK i \in B : \A j \in B : i <= j
    BY <2>1, LeastNatural
  <2>3. i \in 0 .. n
    BY <2>2
  <2>4. f[i] = IF i = 0 THEN s
               ELSE IF s.outputs[i] \in O THEN ExitOverview(f[i - 1], s.outputs[i])
               ELSE f[i - 1]
    BY <1>3, <2>3
  <2>5. i # 0
    BY <1>1, <2>2, <2>3, <2>4, CalmSame
  <2>6. i - 1 \in 0 .. n /\ i \in 1 .. n /\ Calm(s, f[i - 1])
    BY <1>1, <2>2, <2>3, <2>5
  <2> DEFINE t == f[i - 1]
  <2>7. Good(t) /\ s.outputs[i] \in Live(t) /\ Calm(s, t)
    BY <1>1, <2>6, GoodCalm, CalmKeeps
  <2> HIDE DEF t
  <2>8. Calm(s, ExitOverview(t, s.outputs[i]))
    BY <2>7, CalmExitOverview, CalmChain
  <2>9. f[i] \in {ExitOverview(t, s.outputs[i]), t}
    BY <2>4, <2>5 DEF t
  <2> QED
    BY <2>2, <2>7, <2>8, <2>9
<1>5. n \in 0 .. n
  BY <1>1
<1> QED
  BY <1>3, <1>4, <1>5

\* begin_exit_overview and toggle_overview
LEMMA CalmToggleOverview ==
    ASSUME NEW s, Good(s)
    PROVE  Calm(s, BeginExit(s)) /\ Calm(s, ToggleOverview(s))
<1>1. ASSUME NEW t, Good(t)
      PROVE  Calm(t, BeginExit(t))
  <2> DEFINE fading == IF Animated THEN {o \in InOverview(t) : t.out[o].overview = "on"}
                       ELSE {}
             u == [t EXCEPT !.out = [o \in Output |->
                      IF o \in fading THEN [t.out[o] EXCEPT !.overview = "leaving"]
                      ELSE t.out[o]]]
  <2>1. BeginExit(t) = ExitEach(u, InOverview(t) \ fading)
    BY Zenon DEF BeginExit
  <2> HIDE DEF fading
  <2>2. Calm(t, u)
    BY <1>1, CalmOverview DEF Good
  <2> HIDE DEF u
  <2> QED
    BY <1>1, <2>1, <2>2, GoodCalm, CalmExitEach, CalmChain
<1>2. Calm(s, BeginExit(s)) /\ Good(BeginExit(s))
  BY <1>1, GoodCalm
<1>3. Calm(s, BeginExit(BeginExit(s)))
  BY <1>1, <1>2, CalmChain
<1> DEFINE entered == [s EXCEPT !.out = [o \in Output |->
                          IF o \in Live(s) THEN [s.out[o] EXCEPT !.overview = "on"]
                          ELSE s.out[o]]]
<1>4. Calm(s, RenderOverview(entered, Live(s)))
  <2>1. Calm(s, entered)
    BY CalmOverview DEF Good
  <2> HIDE DEF entered
  <2>2. entered \in ServerState /\ Live(entered) = Live(s)
    BY <2>1, CalmKeeps
  <2> QED
    BY <2>1, <2>2, CalmRender, CalmChain
<1>5. ToggleOverview(s) \in {s, BeginExit(s), BeginExit(BeginExit(s)),
                             RenderOverview(entered, Live(s))}
  <2> HIDE DEF entered
  <2> QED
    BY DEF ToggleOverview, entered
<1> QED
  BY <1>2, <1>3, <1>4, <1>5, CalmSame DEF Good

\* The grid has a column at least.
LEMMA ColsPositive == Cols \in Nat \ {0}
<1>1. NumWs \in Nat /\ NumWs >= 1
  BY WsAssumption
<1>2. CASE OverviewLayout = "equal_grid"
  <2> DEFINE C == {c \in 1 .. NumWs : c * c >= NumWs}
  <2>1. NumWs * NumWs >= NumWs
    BY <1>1
  <2>2. NumWs \in C /\ C \in SUBSET Nat
    BY <1>1, <2>1
  <2>3. PICK c \in C : \A d \in C : c <= d
    BY <2>2, LeastNatural
  <2>4. Min(C) \in C
    BY <2>3 DEF Min
  <2> QED
    BY <1>1, <1>2, <2>4 DEF Cols
<1>3. CASE OverviewLayout \notin {"horizontal", "vertical", "equal_grid"}
  <2>1. NumWs % 2 = 0 => NumWs \div 2 \in Nat \ {0}
    BY <1>1
  <2> QED
    BY <1>1, <1>3, <2>1 DEF Cols
<1> QED
  BY <1>1, <1>2, <1>3 DEF Cols

\* The slot beside another one is a workspace, if it is any.
LEMMA SlotBesideType ==
    ASSUME NEW ws \in WS, NEW dir
    PROVE  SlotBeside(ws, dir) \in WS \cup {NoWorkspace}
<1>1. ws \in Nat /\ ws < NumWs /\ NumWs \in Nat /\ Cols \in Nat \ {0}
  BY WsAssumption, ColsPositive DEF WS
<1>2. CASE dir = "left" /\ ColOf(ws) > 0
  <2>1. ws # 0
    BY <1>1, <1>2 DEF ColOf
  <2>2. ws - 1 \in WS
    BY <1>1, <2>1 DEF WS
  <2> QED
    BY <1>2, <2>2 DEF SlotBeside
<1>3. CASE dir = "right" /\ ColOf(ws) < Cols - 1 /\ ws + 1 < NumWs
  BY <1>1, <1>3 DEF SlotBeside, WS
<1>4. CASE dir = "up" /\ RowOf(ws) > 0
  <2>1. ws >= Cols
    <3> DEFINE c == Cols
    <3>1. c \in Nat \ {0} /\ ws \div c > 0
      BY <1>1, <1>4 DEF RowOf
    <3> HIDE DEF c
    <3> QED
      BY <1>1, <3>1 DEF c
  <2>2. ws - Cols \in WS
    BY <1>1, <2>1 DEF WS
  <2> QED
    BY <1>4, <2>2 DEF SlotBeside
<1>5. CASE dir = "down" /\ ws + Cols < NumWs
  BY <1>1, <1>5 DEF SlotBeside, WS
<1> QED
  BY <1>2, <1>3, <1>4, <1>5 DEF SlotBeside

\* So is the slot on which a grid is entered.
LEMMA EntrySlotType ==
    ASSUME NEW ws \in WS, NEW dir \in Direction
    PROVE  EntrySlot(ws, dir) \in WS
<1>1. WS \in SUBSET Nat /\ NumWs \in Nat
  BY WsAssumption DEF WS
<1>2. ASSUME NEW S \in SUBSET WS, S # {}
      PROVE  Min(S) \in WS /\ Max(S) \in WS
  <2>1. \E x \in S : \A y \in S : x <= y
    BY <1>1, <1>2, LeastNatural
  <2>2. \E x \in S : \A y \in S : x >= y
    <3> DEFINE I == {y + 1 : y \in S}
    <3>1. I \in SUBSET (1 .. NumWs) /\ I # {}
      <4>1. \A y \in S : y + 1 \in 1 .. NumWs
        BY <1>1 DEF WS
      <4> QED
        BY <1>2, <4>1
    <3>2. PICK i \in I : \A j \in I : j <= i
      BY <1>1, <3>1, GreatestNatural
    <3>3. PICK x \in S : i = x + 1
      BY <3>2
    <3>4. \A y \in S : x >= y
      BY <1>1, <3>2, <3>3
    <3> QED
      BY <3>4
  <2> QED
    BY <2>1, <2>2 DEF Min, Max
<1> DEFINE row == {v \in WS : RowOf(v) = RowOf(ws)}
           col == {v \in WS : ColOf(v) = ColOf(ws)}
<1>3. row \in SUBSET WS /\ row # {} /\ col \in SUBSET WS /\ col # {}
  OBVIOUS
<1> HIDE DEF row, col
<1>4. {Max(row), Min(row), Max(col), Min(col)} \subseteq WS
  BY <1>2, <1>3
<1>5. EntrySlot(ws, dir) \in {Max(row), Min(row), Max(col), Min(col)}
  BY DEF EntrySlot, Direction, row, col
<1> QED
  BY <1>4, <1>5

\* A monitor found in a direction is one of those looked at.
LEMMA NextToFound ==
    ASSUME NEW s \in ServerState, NEW o, NEW dir, NEW S
    PROVE  NextTo(s, o, dir, S) \in (Live(s) \cap S) \cup {NoOutput}
<1> DEFINE C == {p \in S \ {o} : Ahead(o, p, dir) > 0}
           Nearer(p, q) == \/ Ahead(o, p, dir) < Ahead(o, q, dir)
                           \/ /\ Ahead(o, p, dir) = Ahead(o, q, dir)
                              /\ Aside(o, p, dir) < Aside(o, q, dir)
           N == {p \in C : \A q \in C : ~Nearer(q, p)}
           I == {i \in DOMAIN s.outputs : s.outputs[i] \in N}
<1>1. NextTo(s, o, dir, S) = Earliest(s.outputs, I, NoOutput)
  BY Zenon DEF NextTo
<1>2. N \subseteq S
  OBVIOUS
<1> HIDE DEF N
<1>3. s.outputs \in Seq(Output) /\ I \in SUBSET DOMAIN s.outputs
  BY DEF ServerState
<1>4. \A i \in I : s.outputs[i] \in Live(s) \cap S
  BY <1>2 DEF Live, Range
<1> HIDE DEF I
<1>5. Earliest(s.outputs, I, NoOutput) \in {s.outputs[i] : i \in I} \cup {NoOutput}
  BY <1>3, EarliestLatest
<1> QED
  BY <1>1, <1>4, <1>5

\* The slot ws is shown, and its first window gets the keyboard.
LEMMA CalmLandOn ==
    ASSUME NEW s \in ServerState, NEW o \in Live(s), NEW ws \in WS
    PROVE  Calm(s, ShowSlot(s, o, ws)) /\ Calm(s, LandOn(s, o, ws))
<1>1. o \in Output
  BY ListedWindows
<1>2. ASSUME NEW q \in ServerState
      PROVE  Calm(q, ShowSlot(q, o, ws))
  <2> DEFINE f == [q.out EXCEPT ![o].active_workspace = ws]
             r == [q EXCEPT !.out = f]
  <2>1. q.out \in [Output -> OutputState] /\ q.out[o] \in OutputState
    BY <1>1, <1>2 DEF ServerState
  <2>2. /\ f \in [Output -> OutputState]
        /\ \A p \in Output : f[p].last_focused = q.out[p].last_focused
    BY <1>1, <2>1 DEF OutputState
  <2>3. ShowSlot(q, o, ws) \in {q, SweepVisibility(r)}
    BY DEF ShowSlot
  <2> HIDE DEF f
  <2>4. Calm(q, r)
    BY <1>2, <2>2, CalmOutputs
  <2> HIDE DEF r
  <2>5. Calm(q, SweepVisibility(r))
    BY <2>4, CalmKeeps, CalmSweepVisibility, CalmChain
  <2> QED
    BY <1>2, <2>3, <2>5, CalmSame
<1> DEFINE q == [s EXCEPT !.focused_output = o]
           t == ShowSlot(q, o, ws)
           w == FirstIn(t, Tiled(t, o))
           u == FocusOrClear(t, w)
<1>3. LandOn(s, o, ws) = RenderOverview(u, {o})
  BY DEF LandOn
<1>4. Calm(s, q) /\ q \in ServerState /\ Live(q) = Live(s)
  BY CalmFields, CalmKeeps
<1> HIDE DEF q
<1>5. Calm(s, t) /\ t \in ServerState /\ Live(t) = Live(s)
  BY <1>2, <1>4, CalmChain, CalmKeeps
<1> HIDE DEF t
<1>6. w \in Linked(t) \cup {NoWindow} /\ w \in Window \cup {NoWindow}
  BY <1>5, FoundLinked, FoundWindows DEF Tiled
<1> HIDE DEF w
<1>7. Calm(s, u) /\ u \in ServerState /\ Live(u) = Live(s)
  BY <1>5, <1>6, CalmFocusOrClear, CalmChain, CalmKeeps
<1> HIDE DEF u
<1>8. Calm(s, RenderOverview(u, {o}))
  BY <1>7, CalmRender, CalmChain
<1> QED
  BY <1>2, <1>3, <1>8

\* focus::dir: a slot, a tab, a window, or another monitor.
LEMMA CalmFocusDir ==
    ASSUME NEW s, Good(s), NEW dir \in Direction,
           NEW near \in Linked(s) \cup {NoWindow}
    PROVE  Calm(s, FocusDir(s, dir, near))
<1> DEFINE o == s.focused_output
           pad == InPad(s, Global)
           next == NextTo(s, o, dir, Live(s))
           tab == TabBeside(s, o, dir)
<1>1. s \in ServerState /\ o \in Live(s) \cup {NoOutput} /\ Linked(s) \subseteq Window
  BY GoodFocus
<1>2. \A w \in Linked(s) \cup {NoWindow} : Calm(s, FocusToplevel(s, w))
  BY <1>1, CalmFocusToplevel
<1>3. ASSUME o # NoOutput
      PROVE  Calm(s, FocusSlot(s, dir))
  <2> DEFINE beside == SlotBeside(s.out[o].active_workspace, dir)
             other == NextTo(s, o, dir, InOverview(s))
             entry == EntrySlot(s.out[other].active_workspace, dir)
  <2>1. o \in Live(s) /\ \A p \in Live(s) : s.out[p].active_workspace \in WS
    BY <1>1, <1>3, ListedWindows DEF ServerState, OutputState
  <2>2. beside \in WS \cup {NoWorkspace}
    BY <2>1, SlotBesideType
  <2>3. other \in Live(s) \cup {NoOutput}
    BY <1>1, NextToFound
  <2>4. other # NoOutput => entry \in WS
    BY <2>1, <2>3, EntrySlotType
  <2>5. FocusSlot(s, dir) = IF beside # NoWorkspace THEN LandOn(s, o, beside)
                            ELSE IF other = NoOutput THEN s
                            ELSE LandOn(s, other, entry)
    BY Zenon DEF FocusSlot
  <2> HIDE DEF beside, other, entry
  <2> QED
    BY <1>1, <2>1, <2>2, <2>3, <2>4, <2>5, CalmLandOn, CalmSame
<1>4. ASSUME next # NoOutput
      PROVE  Calm(s, EnterOutput(s, next, dir))
  <2> DEFINE p == next
             ws == s.out[p].active_workspace
             last == s.out[p].last_focused[ws]
             remembered == /\ last # NoWindow
                           /\ s.win[last].output = p /\ s.win[last].workspace = ws
                           /\ "floating" \notin s.win[last].flags
             full == {w \in Linked(s) :
                         /\ s.win[w].output = p /\ s.win[w].workspace = ws
                         /\ s.win[w].flags \cap {"fullscreen", "fake_fullscreen"} # {}}
             end == IF Backward(dir) THEN LastIn(s, Tiled(s, p)) ELSE FirstIn(s, Tiled(s, p))
             t == [s EXCEPT !.focused_output = p]
             w == IF remembered THEN last ELSE Or(end, FirstIn(s, full))
  <2>1. p \in Live(s) /\ p \in Output
    BY <1>1, <1>4, NextToFound, ListedWindows
  <2>2. EnterOutput(s, p, dir) = IF last # NoWindow /\ s.win[last].life = "free" THEN Crash(t)
                                 ELSE FocusOrClear(t, w)
    BY Zenon DEF EnterOutput
  <2>3. ws \in WS
    BY <1>1, <2>1 DEF ServerState, OutputState
  <2>4. end \in Linked(s) \cup {NoWindow} /\ FirstIn(s, full) \in Linked(s) \cup {NoWindow}
    BY <1>1, FoundLinked DEF Tiled
  <2>5. /\ last \in Window \cup {NoWindow}
        /\ Sound(s) => last \in Linked(s) \cup {NoWindow}
    BY <1>1, <2>1, <2>3, FoundWindows DEF Sound, Remembered, Owns
  <2> HIDE DEF ws, last, end, full
  <2>6. /\ w \in Window \cup {NoWindow}
        /\ Sound(s) => w \in Linked(s) \cup {NoWindow}
    BY <1>1, <2>4, <2>5 DEF Or
  <2> HIDE DEF w
  <2>7. /\ Calm(s, t) /\ t \in ServerState
        /\ Linked(t) = Linked(s) /\ Live(t) = Live(s) /\ (Sound(t) => Sound(s))
    <3>1. Calm(s, t)
      BY <1>1, <2>1, CalmFields
    <3>2. t.win = s.win /\ t.out = s.out
      BY <1>1 DEF ServerState
    <3> HIDE DEF t
    <3>3. t \in ServerState /\ Linked(t) = Linked(s) /\ Live(t) = Live(s)
      BY <3>1, CalmKeeps
    <3>4. \A q, v, x : Owns(t, q, v, x) => Owns(s, q, v, x)
      BY <3>2, <3>3 DEF Owns
    <3> QED
      BY <3>1, <3>2, <3>3, <3>4 DEF Sound, Remembered, Good
  <2> HIDE DEF t
  <2>8. Calm(s, FocusOrClear(t, w))
    BY <2>6, <2>7, CalmFocusOrClear, CalmChain
  <2>9. ASSUME last # NoWindow, s.win[last].life = "free"
        PROVE  Calm(s, Crash(t))
    <3>1. ~Sound(t)
      BY <2>5, <2>7, <2>9 DEF Linked
    <3> QED
      BY <2>7, <3>1, CalmCrash, CalmChain
  <2> QED
    BY <2>2, <2>8, <2>9
<1>5. tab \in Linked(s) \cup {NoWindow}
  <2> DEFINE tabs == {w \in Linked(s) : OnActive(s, w, o) /\ "floating" \notin s.win[w].flags}
             cur == FocusedToplevel(s)
  <2>1. /\ NextIn(s, tabs, cur) \in Linked(s) \cup {NoWindow}
        /\ PrevIn(s, tabs, cur) \in Linked(s) \cup {NoWindow}
    BY <1>1, FoundLinked
  <2>2. tab = IF cur = NoWindow THEN NoWindow
              ELSE IF ~Backward(dir) THEN NextIn(s, tabs, cur)
              ELSE IF cur \in tabs THEN PrevIn(s, tabs, cur)
              ELSE NoWindow
    BY Zenon DEF TabBeside
  <2> QED
    BY <2>1, <2>2
<1>6. /\ Following(s, pad) \in Linked(s) \cup {NoWindow}
      /\ Preceding(s, pad) \in Linked(s) \cup {NoWindow}
  <2>1. pad \subseteq Linked(s)
    BY DEF InPad
  <2> HIDE DEF pad
  <2>2. \A w : /\ FirstIn(s, pad) \in Linked(s) \cup {NoWindow}
               /\ LastIn(s, pad) \in Linked(s) \cup {NoWindow}
               /\ NextIn(s, pad, w) \in Linked(s) \cup {NoWindow}
               /\ PrevIn(s, pad, w) \in Linked(s) \cup {NoWindow}
    BY <1>1, <2>1, FoundLinked
  <2> QED
    BY <2>2 DEF Following, Preceding, Or
<1>7. \/ FocusDir(s, dir, near) = s
      \/ o # NoOutput /\ FocusDir(s, dir, near) = FocusSlot(s, dir)
      \/ next # NoOutput /\ FocusDir(s, dir, near) = EnterOutput(s, next, dir)
      \/ \E w \in Linked(s) \cup {NoWindow} : FocusDir(s, dir, near) = FocusToplevel(s, w)
  <2> DEFINE beside == IF Backward(dir) THEN Preceding(s, pad) ELSE Following(s, pad)
  <2>1. FocusDir(s, dir, near) =
          IF o = NoOutput THEN s
          ELSE IF Overviewed(s, o) THEN FocusSlot(s, dir)
          ELSE IF PadShown(s) THEN FocusToplevel(s, beside)
          ELSE IF ActiveLayout(s, o) = "tabbed" /\ tab # NoWindow
          THEN FocusToplevel(s, tab)
          ELSE IF near # NoWindow THEN FocusToplevel(s, near)
          ELSE IF next = NoOutput THEN s
          ELSE EnterOutput(s, next, dir)
    BY Zenon DEF FocusDir
  <2>2. beside \in Linked(s) \cup {NoWindow}
    BY <1>6
  <2> HIDE DEF beside, next, tab, o
  <2> QED
    BY <1>5, <2>1, <2>2
<1> QED
  BY <1>1, <1>2, <1>3, <1>4, <1>7, CalmSame

\* A handler after which lists and pointers are good, and the same windows are mapped.
Keeps(s, t) == Good(t) /\ Linked(t) = Linked(s) /\ Live(t) = Live(s)

\* A calm one is, and what follows calmly does not matter.
LEMMA KeepsCalm ==
    ASSUME NEW s, Good(s), NEW t, Calm(s, t)
    PROVE  Keeps(s, t) /\ \A q : Keeps(q, s) => Keeps(q, t)
BY GoodCalm, CalmKeeps DEF Keeps

\* The windows may change in any way that keeps each life and leaves every mapped
\* window on a live output or on none.
LEMMA KeepsWindows ==
    ASSUME NEW s, Good(s), NEW f \in [Window -> Toplevel],
           \A w \in Window : f[w].life = s.win[w].life,
           \A w \in Linked(s) : f[w].output \in Live(s) \cup {NoOutput}
    PROVE  Keeps(s, [s EXCEPT !.win = f])
<1> DEFINE t == [s EXCEPT !.win = f]
<1>1. Good(t)
  BY GoodWindows DEF Good, GoodPointers
<1>2. t.win = f /\ t.outputs = s.outputs
  BY DEF Good, ServerState
<1> HIDE DEF t
<1>3. Keeps(s, t)
  BY <1>1, <1>2 DEF Keeps, Linked, Live
<1> QED
  BY <1>3 DEF t

\* So may one window.
LEMMA KeepsWindow ==
    ASSUME NEW s, Good(s), NEW w \in Window, NEW x \in Toplevel,
           x.life = s.win[w].life,
           w \in Linked(s) => x.output \in Live(s) \cup {NoOutput}
    PROVE  Keeps(s, [s EXCEPT !.win[w] = x])
<1> DEFINE f == [s.win EXCEPT ![w] = x]
<1>1. /\ f \in [Window -> Toplevel] /\ f[w] = x
      /\ \A v \in Window : v # w => f[v] = s.win[v]
      /\ [s EXCEPT !.win[w] = x] = [s EXCEPT !.win = f]
  BY DEF Good, ServerState
<1> HIDE DEF f
<1>2. \A v \in Window : f[v].life = s.win[v].life
  BY <1>1
<1>3. \A v \in Linked(s) : f[v].output \in Live(s) \cup {NoOutput}
  BY <1>1 DEF Good, GoodPointers, Linked
<1> QED
  BY <1>1, <1>2, <1>3, KeepsWindows

\* The list may be put in another order.
LEMMA KeepsList ==
    ASSUME NEW s, Good(s), NEW seq \in Seq(Window), Holds(seq, Linked(s))
    PROVE  Keeps(s, [s EXCEPT !.toplevels = seq])
<1> DEFINE t == [s EXCEPT !.toplevels = seq]
<1>1. /\ t \in ServerState /\ t.toplevels = seq /\ t.win = s.win
      /\ t.outputs = s.outputs /\ t.focused_output = s.focused_output
  BY DEF Good, ServerState
<1> HIDE DEF t
<1>2. Linked(t) = Linked(s) /\ Live(t) = Live(s)
  BY <1>1 DEF Linked, Live
<1>3. Keeps(s, t)
  BY <1>1, <1>2 DEF Keeps, Good, GoodPointers
<1> QED
  BY <1>3 DEF t

\* Two windows may exchange their places in it.
LEMMA KeepsExchange ==
    ASSUME NEW s, Good(s), NEW w \in Linked(s), NEW v \in Linked(s)
    PROVE  /\ Exchange(s, w, v) \in Seq(Window)
           /\ Keeps(s, [s EXCEPT !.toplevels = Exchange(s, w, v)])
<1>1. s.toplevels \in Seq(Window) /\ IsInjective(s.toplevels) /\ Range(s.toplevels) = Linked(s)
  BY DEF Good, ServerState, Holds
<1>2. Exchange(s, w, v) \in Seq(Window) /\ Holds(Exchange(s, w, v), Linked(s))
  BY <1>1, ExchangeHolds DEF Exchange, PlaceOf
<1> QED
  BY <1>2, KeepsList

\* A window moves to the slot beside its own.
LEMMA MoveToSlotKeeps ==
    ASSUME NEW s, Good(s), NEW w \in Linked(s), NEW dir, s.focused_output # NoOutput
    PROVE  Keeps(s, MoveToSlot(s, w, dir))
<1> DEFINE o == s.focused_output
           ws == SlotBeside(s.win[w].workspace, dir)
           t == ForgetFocus(s, o, w)
           x == [t.win[w] EXCEPT !.workspace = ws]
           q == [t EXCEPT !.win[w].workspace = ws]
           u == ShowSlot(q, o, ws)
           y == [u.win[w] EXCEPT !.enabled = TRUE]
           v == [u EXCEPT !.win[w].enabled = TRUE]
           z == FocusToplevel(v, w)
<1>1. s \in ServerState /\ w \in Window /\ o \in Live(s) /\ o \in Output
  BY GoodFocus, ListedWindows
<1>2. s.win[w] \in Toplevel /\ ws \in WS \cup {NoWorkspace}
  <2>1. s.win[w] \in Toplevel
    BY <1>1 DEF ServerState
  <2>2. s.win[w].workspace \in WS
    BY <2>1 DEF Toplevel
  <2> QED
    BY <2>1, <2>2, SlotBesideType
<1>3. MoveToSlot(s, w, dir) = IF ws = NoWorkspace THEN s ELSE ArrangeOutput(z, o)
  BY Zenon DEF MoveToSlot
<1> HIDE DEF ws
<1>4. CASE ws = NoWorkspace
  BY <1>1, <1>3, <1>4, CalmSame, KeepsCalm
<1>5. CASE ws # NoWorkspace
  <2>1. Keeps(s, t) /\ t.win = s.win
    BY <1>1, CalmForgetFocus, ForgetFocusKeeps, KeepsCalm
  <2> HIDE DEF t
  <2>2. x \in Toplevel /\ x.life = t.win[w].life /\ x.output = t.win[w].output
    BY <1>2, <1>5, <2>1 DEF Toplevel
  <2>3. q = [t EXCEPT !.win[w] = x]
    BY <1>1, <2>1 DEF Keeps, Good, ServerState
  <2> HIDE DEF x, q
  <2>4. Keeps(t, q)
    BY <1>1, <2>1, <2>2, <2>3, KeepsWindow DEF Keeps, Good, GoodPointers
  <2>5. Good(q) /\ o \in Live(q) /\ Keeps(s, q)
    BY <1>1, <2>1, <2>4 DEF Keeps
  <2>6. Keeps(s, u)
    BY <1>2, <1>5, <2>5, CalmLandOn, KeepsCalm DEF Good
  <2> HIDE DEF u
  <2>7. y \in Toplevel /\ SamePlace(u.win[w], y)
    <3>1. u.win[w] \in Toplevel
      BY <1>1, <2>6 DEF Keeps, Good, ServerState
    <3> QED
      BY <3>1 DEF Toplevel, SamePlace
  <2>8. v = [u EXCEPT !.win[w] = y]
    BY <1>1, <2>6 DEF Keeps, Good, ServerState
  <2> HIDE DEF y, v
  <2>9. Keeps(s, v)
    BY <1>1, <2>6, <2>7, <2>8, CalmWindow, KeepsCalm DEF Keeps, Good
  <2>10. Keeps(s, z)
    BY <1>1, <2>9, CalmFocusToplevel, KeepsCalm DEF Keeps, Good
  <2> HIDE DEF z
  <2>11. Keeps(s, ArrangeOutput(z, o))
    BY <1>1, <2>10, CalmArrangeOutput, KeepsCalm DEF Keeps, Good
  <2> QED
    BY <1>3, <1>5, <2>11
<1> QED
  BY <1>4, <1>5

\* A window moves to the next monitor in a direction.
LEMMA MoveToNextOutputKeeps ==
    ASSUME NEW s, Good(s), NEW w \in Linked(s), NEW dir, s.focused_output # NoOutput
    PROVE  Keeps(s, MoveToNextOutput(s, w, dir))
<1> DEFINE src == s.focused_output
           dst == NextTo(s, src, dir, Live(s))
           ws == s.out[dst].active_workspace
           t == ForgetFocus(s, src, w)
           x == [t.win[w] EXCEPT !.output = dst, !.enabled = TRUE,
                                 !.workspace = s.out[dst].active_workspace]
           u == [t EXCEPT !.win[w] = x]
           first == FirstIn(u, Tiled(u, src))
           v == FocusOrClear(u, first)
           q == [v EXCEPT !.focused_output = dst]
           z == FocusToplevel(q, w)
<1>1. s \in ServerState /\ w \in Window /\ src \in Live(s) /\ src \in Output
  BY GoodFocus, ListedWindows
<1>2. MoveToNextOutput(s, w, dir) = IF dst = NoOutput THEN s ELSE Arrange(z, {src, dst})
  BY Zenon DEF MoveToNextOutput
<1>3. CASE dst = NoOutput
  BY <1>1, <1>2, <1>3, CalmSame, KeepsCalm
<1>4. CASE dst # NoOutput
  <2>1. dst \in Live(s) /\ dst \in Output
    BY <1>1, <1>4, NextToFound, ListedWindows
  <2>2. ws \in WS
    BY <1>1, <2>1 DEF ServerState, OutputState
  <2>3. Keeps(s, t) /\ t.win[w] \in Toplevel
    <3>1. Keeps(s, t)
      BY <1>1, CalmForgetFocus, KeepsCalm
    <3> QED
      BY <1>1, <3>1 DEF Keeps, Good, ServerState
  <2> HIDE DEF t, dst
  <2>4. x \in Toplevel /\ x.life = t.win[w].life /\ x.output = dst
    BY <2>1, <2>2, <2>3 DEF Toplevel
  <2> HIDE DEF x, ws
  <2>5. Keeps(s, u)
    BY <1>1, <2>1, <2>3, <2>4, KeepsWindow DEF Keeps
  <2> HIDE DEF u
  <2>6. first \in Linked(u) \cup {NoWindow} /\ first \in Window \cup {NoWindow}
    BY <2>5, FoundLinked, FoundWindows DEF Tiled, Keeps, Good
  <2> HIDE DEF first
  <2>7. Keeps(s, v)
    BY <2>5, <2>6, CalmFocusOrClear, KeepsCalm DEF Keeps, Good
  <2> HIDE DEF v
  <2>8. Keeps(s, q)
    BY <2>1, <2>7, CalmFields, KeepsCalm DEF Keeps, Good
  <2> HIDE DEF q
  <2>9. Keeps(s, z)
    BY <1>1, <2>8, CalmFocusToplevel, KeepsCalm DEF Keeps, Good
  <2> HIDE DEF z
  <2>10. Keeps(s, Arrange(z, {src, dst}))
    BY <1>1, <2>1, <2>9, CalmArrange, KeepsCalm DEF Keeps, Good
  <2> QED
    BY <1>2, <1>4, <2>10
<1> QED
  BY <1>3, <1>4

\* focus::move_dir
LEMMA MoveDirKeeps ==
    ASSUME NEW s, Good(s), NEW dir, NEW near \in Linked(s) \cup {NoWindow}
    PROVE  Keeps(s, MoveDir(s, dir, near))
<1> DEFINE o == s.focused_output
           w == FocusedToplevel(s)
           q == [s EXCEPT !.toplevels = Exchange(s, w, near)]
<1>1. /\ s \in ServerState /\ o \in Live(s) \cup {NoOutput}
      /\ w \in Linked(s) \cup {NoWindow}
  BY GoodFocus
<1>2. MoveDir(s, dir, near) =
        IF o = NoOutput \/ w = NoWindow THEN s
        ELSE IF "floating" \in s.win[w].flags THEN s
        ELSE IF Overviewed(s, o) THEN MoveToSlot(s, w, dir)
        ELSE IF near # NoWindow THEN ArrangeOutput(q, o)
        ELSE MoveToNextOutput(s, w, dir)
  BY Zenon DEF MoveDir
<1>3. Keeps(s, s)
  BY <1>1, CalmSame, KeepsCalm
<1>4. CASE o = NoOutput \/ w = NoWindow
  BY <1>2, <1>3, <1>4
<1>5. CASE o # NoOutput /\ w # NoWindow
  <2>1. Keeps(s, MoveToSlot(s, w, dir)) /\ Keeps(s, MoveToNextOutput(s, w, dir))
    BY <1>1, <1>5, MoveToSlotKeeps, MoveToNextOutputKeeps
  <2>2. ASSUME near # NoWindow
        PROVE  Keeps(s, ArrangeOutput(q, o))
    <3>1. Keeps(s, q)
      BY <1>1, <1>5, <2>2, KeepsExchange
    <3> HIDE DEF q
    <3> QED
      BY <1>1, <1>5, <3>1, CalmArrangeOutput, KeepsCalm DEF Keeps, Good
  <2> HIDE DEF w, q, o
  <2> QED
    BY <1>2, <1>3, <1>5, <2>1, <2>2
<1> QED
  BY <1>4, <1>5

\* Every step of the overview is one of these.
LEMMA OverviewKeeps ==
    ASSUME Good(server), OverviewStep
    PROVE  Keeps(server, server')
<1> DEFINE s == server
           t == server'
<1>1. \A x : Calm(s, x) => Keeps(s, x)
  BY KeepsCalm
<1>2. CASE Overview \/ LeaveOverview
  BY <1>1, <1>2, CalmToggleOverview DEF Overview, LeaveOverview
<1>3. ASSUME NEW o, Faded(o)
      PROVE  Keeps(s, t)
  BY <1>1, <1>3, CalmExitOverview DEF Faded, Lit
<1>4. ASSUME NEW dir \in Direction, FocusTowards(dir)
      PROVE  Keeps(s, t)
  <2>1. PICK near \in Linked(s) \cup {NoWindow} : t = FocusDir(s, dir, near)
    BY <1>4 DEF FocusTowards, DirTargets
  <2> QED
    BY <1>1, <2>1, CalmFocusDir
<1>5. ASSUME NEW dir \in Direction, MoveTowards(dir)
      PROVE  Keeps(s, t)
  <2>1. PICK near \in Linked(s) \cup {NoWindow} : t = MoveDir(s, dir, near)
    BY <1>5 DEF MoveTowards, DirTargets
  <2> QED
    BY <2>1, MoveDirKeeps
<1> QED
  BY <1>2, <1>3, <1>4, <1>5 DEF OverviewStep

\* No callback but unmap takes a window out of the list.
LEMMA RetainsLinked ==
    ASSUME NEW s, Good(s), NEW t, Retains(s, t)
    PROVE  Good(t) /\ Linked(s) \subseteq Linked(t)
<1>1. Good(t)
  BY CallbackGood DEF Callback
<1>2. s \in ServerState /\ t \in ServerState
  BY <1>1 DEF Good
<1>3. ASSUME NEW W, Shifts(s, t, W), W \cap Linked(s) \subseteq Linked(t)
      PROVE  Linked(s) \subseteq Linked(t)
  BY <1>3 DEF Shifts, SamePlace, Linked
<1>4. ASSUME NEW x, Stays(s, x), t = x \/ t = Crash(x)
      PROVE  Linked(s) \subseteq Linked(t)
  <2>1. x \in ServerState /\ \A w \in Window : x.win[w].life = s.win[w].life
    BY <1>4 DEF Stays, Good, Settles, Shifts, SamePlace
  <2>2. t.win = x.win
    BY <1>4, <2>1 DEF Crash, ServerState
  <2> QED
    BY <2>1, <2>2 DEF Linked
<1>5. ASSUME NEW w \in Window, NEW x, Puts(s, t, w, x), w \notin Linked(s) \/ x.life = "linked"
      PROVE  Linked(s) \subseteq Linked(t)
  BY <1>3, <1>5 DEF Puts, Settles, SamePlace, Linked
<1>6. CASE Reordered(s, t) \/ Breaks(s, t) \/ \E p \in Pad : Turns(s, t, p)
  <2>1. PICK x : Stays(s, x) /\ (t = x \/ t = Crash(x))
    BY <1>6 DEF Reordered, Breaks, Turns
  <2> QED
    BY <1>1, <1>4, <2>1
<1>7. ASSUME NEW w \in Window, Sends(s, t, w)
      PROVE  Linked(s) \subseteq Linked(t)
  <2>1. s.win[w] \in Toplevel /\ s.win[w].life = "linked"
    BY <1>2, <1>7 DEF Sends, Linked, ServerState
  <2>2. PICK x : Puts(s, t, w, x) /\ x.life = "linked"
    <3>1. \A a, b, c : [s.win[w] EXCEPT !.in_scratchpad = FALSE, !.tree = "windows",
                                        !.workspace = a, !.enabled = b].life = "linked"
      BY <2>1 DEF Toplevel
    <3>2. \A a, b, c : [s.win[w] EXCEPT !.output = a, !.enabled = TRUE,
                                        !.workspace = b].life = "linked"
      BY <2>1 DEF Toplevel
    <3>3. \A p, f : [s.win[w] EXCEPT !.in_scratchpad = TRUE,
                                     !.scratchpad_name = IF p = Global THEN @ ELSE p,
                                     !.flags = f, !.tree = p,
                                     !.enabled = p \in s.shown_pads].life = "linked"
      BY <2>1 DEF Toplevel
    <3> QED
      BY <1>7, <3>1, <3>2, <3>3
      DEF Sends, SendsToWorkspace, SendsToMonitor, Hides
  <2> QED
    BY <1>5, <2>2
<1>8. ASSUME NEW w \in Window, Makes(s, t, w) \/ Maps(s, t, w)
      PROVE  Linked(s) \subseteq Linked(t)
  BY <1>5, <1>8 DEF Makes, Maps
<1>9. ASSUME NEW o, Plugs(s, t, o) \/ Unplugs(s, t, o) \/ TurnsOff(s, t, o) \/ Resumes(s, t)
      PROVE  Linked(s) \subseteq Linked(t)
  BY <1>2, <1>9, HandsLinked DEF Plugs, Unplugs, TurnsOff, Resumes, Hands
<1> QED
  BY <1>1, <1>6, <1>7, <1>8, <1>9 DEF Retains

----------------------------------------------------------------------------
(* The pointer's handlers *)

\* Nothing is lost by the crash itself.
LEMMA KeepsCrash ==
    ASSUME NEW s, Good(s)
    PROVE  Keeps(s, Crash(s))
<1> DEFINE t == Crash(s)
<1>1. /\ t \in ServerState /\ t.win = s.win /\ t.toplevels = s.toplevels
      /\ t.outputs = s.outputs /\ t.focused_output = s.focused_output
  BY DEF Crash, Good, ServerState
<1> HIDE DEF t
<1>2. Linked(t) = Linked(s) /\ Live(t) = Live(s)
  BY <1>1 DEF Linked, Live
<1>3. Keeps(s, t)
  BY <1>1, <1>2 DEF Keeps, Good, GoodPointers
<1> QED
  BY <1>3 DEF t

\* begin_interactive makes any window float, one that is not mapped included.
LEMMA LoosenedKeeps ==
    ASSUME NEW s, Good(s), NEW w \in Window
    PROVE  Keeps(s, Loosened(s, w))
<1> DEFINE x == [s.win[w] EXCEPT !.flags = @ \cup {"floating"}]
           t == [s EXCEPT !.win[w] = x]
           o == s.win[w].output
<1>1. s \in ServerState /\ s.win[w] \in Toplevel
  BY DEF Good, ServerState
<1>2. t = [s EXCEPT !.win[w].flags = @ \cup {"floating"}]
  BY <1>1 DEF ServerState, Toplevel
<1>3. x \in Toplevel /\ SamePlace(s.win[w], x)
  BY <1>1 DEF Toplevel, Flag, SamePlace
<1> HIDE DEF x
<1>4. Keeps(s, t)
  BY <1>1, <1>3, CalmWindow, KeepsCalm
<1>5. Loosened(s, w) \in {s, ArrangeOutput(t, o)}
  <2> HIDE DEF t
  <2> QED
    BY <1>2 DEF Loosened
<1> HIDE DEF t
<1>6. o \in Live(s) \cup {NoOutput} => Keeps(s, ArrangeOutput(t, o))
  BY <1>4, CalmArrangeOutput, KeepsCalm DEF Keeps, Good
<1>7. o \notin Live(s) \cup {NoOutput} => Keeps(s, ArrangeOutput(t, o))
  BY <1>4, KeepsCrash DEF ArrangeOutput, Keeps
<1>8. Keeps(s, s)
  BY <1>1, CalmSame, KeepsCalm
<1> QED
  BY <1>5, <1>6, <1>7, <1>8

\* A click in the overview.
LEMMA CalmClickSlot ==
    ASSUME NEW s, Good(s), NEW at \in Live(s), NEW ws \in WS \cup {NoWorkspace},
           NEW hit \in Linked(s) \cup {NoWindow}
    PROVE  Calm(s, ClickSlot(s, at, ws, hit))
<1> DEFINE q == [s EXCEPT !.focused_output = at]
           t == ExitEach(q, InOverview(s))
           u == IF ws # NoWorkspace /\ (hit = NoWindow \/ ws # t.out[at].active_workspace)
                THEN SwitchTo(t, ws) ELSE t
<1>1. ClickSlot(s, at, ws, hit) = FocusToplevel(u, hit)
  BY Zenon DEF ClickSlot
<1>2. s \in ServerState /\ hit \in Window \cup {NoWindow}
  BY DEF Good, Linked
<1>3. Calm(s, q) /\ Good(q)
  BY <1>2, CalmFields, GoodCalm
<1> HIDE DEF q
<1>4. Calm(s, t) /\ Good(t)
  BY <1>3, CalmExitEach, CalmChain, GoodCalm
<1> HIDE DEF t
<1>5. ws \in WS => Calm(s, SwitchTo(t, ws))
  BY <1>4, CalmSwitchTo, CalmChain
<1>6. Calm(s, u)
  BY <1>4, <1>5
<1> HIDE DEF u
<1>7. Calm(u, FocusToplevel(u, hit))
  BY <1>2, <1>6, CalmKeeps, CalmFocusToplevel
<1> QED
  BY <1>1, <1>6, <1>7, CalmChain

\* An unmap takes one window out of the list, and the rest stays good.
LEMMA UnmapLeaves ==
    ASSUME NEW s, Good(s), NEW w \in Linked(s)
    PROVE  LET t == UnmapToplevel(s, w)
           IN  Good(t) /\ Linked(t) = Linked(s) \ {w} /\ Live(t) = Live(s)
<1> DEFINE t == UnmapToplevel(s, w)
<1>1. Closes(s, t, w)
  BY UnmapCloses
<1> HIDE DEF t
<1>2. Good(t) /\ t.outputs = s.outputs
  BY <1>1 DEF Closes, Shifts
<1>3. s.win[w] \in Toplevel
  BY DEF Good, ServerState, Linked
<1>4. t.win[w].life = "unlinked"
  BY <1>1, <1>3 DEF Closes, SamePlace, Toplevel
<1>5. \A v \in Window \ {w} : t.win[v].life = s.win[v].life
  BY <1>1 DEF Closes, Shifts, SamePlace
<1>6. Linked(t) = Linked(s) \ {w} /\ Live(t) = Live(s)
  BY <1>2, <1>4, <1>5 DEF Linked, Live
<1> QED
  BY <1>2, <1>6 DEF t

\* process_cursor_motion: what it drags may be gone, the monitor below it is there.
LEMMA MotionKeeps ==
    ASSUME NEW s, Good(s), NEW p \in PointerState,
           p.mode # "passthrough" => p.grabbed \in Window,
           NEW at \in Live(s) \cup {NoOutput}, NEW hover \in Linked(s) \cup {NoWindow}
    PROVE  Keeps(s, MotionServer(s, p, at, hover))
<1> DEFINE w == p.grabbed
           free == FreeMotion(s, at, hover)
           move == MoveMotion(s, w, at)
<1>1. s \in ServerState /\ hover \in Window \cup {NoWindow} /\ at \in Output \cup {NoOutput}
  BY ListedWindows DEF Good, Linked
<1>2. Keeps(s, s) /\ Keeps(s, Crash(s))
  BY <1>1, CalmSame, KeepsCalm, KeepsCrash
<1>3. Keeps(s, free)
  <2> DEFINE q == [s EXCEPT !.focused_output = at]
             t == IF at # NoOutput /\ FocusFollowsMouse THEN q ELSE PointerRefresh(s, at)
  <2>1. free \in {t, FocusToplevel(t, hover)}
    BY DEF FreeMotion
  <2>2. at # NoOutput => Calm(s, q)
    BY <1>1, CalmFields
  <2>3. Calm(s, PointerRefresh(s, at))
    BY <1>1, CalmPointerRefresh
  <2> HIDE DEF q
  <2>4. Calm(s, t)
    BY <2>2, <2>3
  <2> HIDE DEF t
  <2>5. Calm(s, FocusToplevel(t, hover))
    BY <1>1, <2>4, CalmKeeps, CalmFocusToplevel, CalmChain
  <2> QED
    BY <2>1, <2>4, <2>5, KeepsCalm
<1>4. ASSUME w \in Window
      PROVE  Keeps(s, move)
  <2> DEFINE x == [s.win[w] EXCEPT !.output = at,
                                   !.workspace = s.out[at].active_workspace]
             t == [s EXCEPT !.win[w].output = at,
                            !.win[w].workspace = s.out[at].active_workspace]
  <2>1. move \in {Crash(s), s} \/ (at # NoOutput /\ move = t)
    BY Zenon DEF MoveMotion
  <2>2. ASSUME at # NoOutput
        PROVE  Keeps(s, t)
    <3>1. at \in Live(s) /\ at \in Output
      BY <1>1, <2>2
    <3>2. s.win[w] \in Toplevel /\ s.out[at].active_workspace \in WS
      BY <1>1, <1>4, <3>1 DEF ServerState, OutputState
    <3>3. x \in Toplevel /\ x.life = s.win[w].life /\ x.output = at
      BY <3>1, <3>2 DEF Toplevel
    <3>4. t = [s EXCEPT !.win[w] = x]
      BY <1>1, <1>4 DEF ServerState, Toplevel
    <3> HIDE DEF x, t
    <3> QED
      BY <1>4, <3>1, <3>3, <3>4, KeepsWindow
  <2> HIDE DEF t, move
  <2> QED
    BY <1>2, <2>1, <2>2
<1>5. MotionServer(s, p, at, hover) =
        IF p.dragged # NoWindow THEN s
        ELSE CASE p.mode = "move" -> move
               [] p.mode = "resize" -> IF Freed(s, w) THEN Crash(s) ELSE s
               [] p.mode = "tile_drag" -> s
               [] OTHER -> free
  BY Zenon DEF MotionServer
<1>6. p.mode \in {"passthrough", "move", "resize", "tile_drag"}
  BY DEF PointerState
<1> HIDE DEF free, move
<1>7. MotionServer(s, p, at, hover) \in {s, Crash(s), free}
         \cup (IF p.mode = "move" THEN {move} ELSE {})
  <2> DEFINE c == Crash(s)
  <2> HIDE DEF c
  <2> QED
    BY <1>5, <1>6 DEF c
<1> QED
  BY <1>2, <1>3, <1>4, <1>7

\* After an exchange each of the two is where the other was, and the rest where they were.
LEMMA ExchangePlaces ==
    ASSUME NEW s, Good(s), NEW w \in Linked(s), NEW v \in Linked(s)
    PROVE  LET r == Exchange(s, w, v)
           IN  /\ IndexIn(r, w) = PlaceOf(s, v) /\ IndexIn(r, v) = PlaceOf(s, w)
               /\ \A u \in Linked(s) \ {w, v} : IndexIn(r, u) = PlaceOf(s, u)
<1> DEFINE seq == s.toplevels
           i == IndexIn(seq, w)
           j == IndexIn(seq, v)
           r == [seq EXCEPT ![i] = v, ![j] = w]
           n == Len(seq)
<1>1. seq \in Seq(Window) /\ IsInjective(seq) /\ Range(seq) = Linked(s)
  BY DEF Good, ServerState, Holds
<1>2. r = Exchange(s, w, v)
  BY DEF Exchange, PlaceOf
<1>3. r \in Seq(Window) /\ IsInjective(r) /\ Range(r) = Linked(s)
  BY <1>1, ExchangeHolds DEF Holds
<1>4. n \in Nat /\ DOMAIN seq = 1 .. n
  BY <1>1, LenProperties
<1>5. \A u \in Linked(s) : IndexIn(seq, u) \in 1 .. n /\ seq[IndexIn(seq, u)] = u
  BY <1>1, IndexInFound
<1>6. DOMAIN r = 1 .. n
  BY <1>4
<1>7. Len(r) = n
  BY <1>3, <1>4, <1>6, LenProperties
<1>8. \A u \in Linked(s) : IndexIn(r, u) \in 1 .. n /\ r[IndexIn(r, u)] = u
  BY <1>3, <1>7, IndexInFound
<1>9. /\ r[j] = w
      /\ r[i] = v
      /\ \A k \in 1 .. n : k # i /\ k # j => r[k] = seq[k]
  BY <1>4, <1>5
<1>10. \A k, l \in 1 .. n : r[k] = r[l] => k = l
  BY <1>3, <1>6 DEF IsInjective
<1> HIDE DEF r
<1>11. \A u \in Linked(s), k \in 1 .. n : r[k] = u => IndexIn(r, u) = k
  BY <1>8, <1>10
<1>12. IndexIn(r, w) = j /\ IndexIn(r, v) = i
  BY <1>5, <1>9, <1>11
<1>13. ASSUME NEW u \in Linked(s) \ {w, v}
       PROVE  IndexIn(r, u) = IndexIn(seq, u)
  <2>1. IndexIn(seq, u) # i /\ IndexIn(seq, u) # j
    BY <1>5
  <2> QED
    BY <1>5, <1>9, <1>11, <2>1
<1> QED
  BY <1>2, <1>12, <1>13 DEF PlaceOf

\* Where a window is.
SpotIn(s, w) == <<PlaceOf(s, w), s.win[w].output, s.win[w].workspace>>

\* w goes to where v is, v if it is a window to where w is, and no other moves.
Exchanged(s, t, w, v) ==
    /\ v # NoWindow => SpotIn(t, w) = SpotIn(s, v) /\ SpotIn(t, v) = SpotIn(s, w)
    /\ \A u \in Linked(s) \ {w, v} : SpotIn(t, u) = SpotIn(s, u)

\* The windows stay where they are in a calm handler, and when the program crashes.
LEMMA SameSpots ==
    ASSUME NEW s \in ServerState, NEW t, Calm(s, t) \/ t = Crash(s)
    PROVE  /\ t \in ServerState /\ Linked(t) = Linked(s)
           /\ \A w \in Window : SpotIn(t, w) = SpotIn(s, w)
<1>1. CASE t = Crash(s)
  <2>1. t \in ServerState /\ t.win = s.win /\ t.toplevels = s.toplevels
    BY <1>1 DEF Crash, ServerState
  <2> QED
    BY <2>1 DEF Linked, SpotIn, PlaceOf
<1>2. CASE Calm(s, t)
  <2>1. /\ t \in ServerState /\ Linked(t) = Linked(s) /\ t.toplevels = s.toplevels
        /\ \A w \in Window : SamePlace(s.win[w], t.win[w])
    BY <1>2, CalmKeeps
  <2>2. \A w \in Window : /\ t.win[w].output = s.win[w].output
                          /\ t.win[w].workspace = s.win[w].workspace
    BY <2>1 DEF SamePlace
  <2> QED
    BY <2>1, <2>2 DEF SpotIn, PlaceOf
<1> QED
  BY <1>1, <1>2

\* swap_homes exchanges two windows that are in the list, and the lists stay good.
LEMMA SwapHomesMoves ==
    ASSUME NEW s, Good(s), NEW w \in Linked(s), NEW v \in Linked(s)
    PROVE  LET t == SwapHomes(s, w, v)
           IN  Keeps(s, t) /\ Exchanged(s, t, w, v)
<1> DEFINE t == SwapHomes(s, w, v)
           r == Exchange(s, w, v)
           q == [s EXCEPT !.toplevels = r]
           x == [s.win[w] EXCEPT !.output = s.win[v].output, !.workspace = s.win[v].workspace]
           y == [s.win[v] EXCEPT !.output = s.win[w].output, !.workspace = s.win[w].workspace]
           f == [s.win EXCEPT ![w] = x, ![v] = y]
<1>1. s \in ServerState /\ w \in Window /\ v \in Window
  BY DEF Good, Linked
<1>2. s.win[w] \in Toplevel /\ s.win[v] \in Toplevel
  BY <1>1 DEF ServerState
<1>3. /\ x \in Toplevel /\ x.life = s.win[w].life
      /\ x.output = s.win[v].output /\ x.workspace = s.win[v].workspace
      /\ y \in Toplevel /\ y.life = s.win[v].life
      /\ y.output = s.win[w].output /\ y.workspace = s.win[w].workspace
  BY <1>2 DEF Toplevel
<1>4. Keeps(s, q) /\ q.win = s.win /\ q.toplevels = r
  BY <1>1, KeepsExchange DEF ServerState
<1>5. t = [q EXCEPT !.win = f]
  <2> DEFINE g == [s.win EXCEPT ![w].output = s.win[v].output,
                                ![w].workspace = s.win[v].workspace,
                                ![v].output = s.win[w].output,
                                ![v].workspace = s.win[w].workspace]
  <2>1. t = [q EXCEPT !.win = g]
    <3>1. t = [s EXCEPT !.toplevels = r,
                        !.win[w].output = s.win[v].output,
                        !.win[w].workspace = s.win[v].workspace,
                        !.win[v].output = s.win[w].output,
                        !.win[v].workspace = s.win[w].workspace]
      BY Zenon DEF SwapHomes
    <3> DEFINE a == s.win[v].output
               b == s.win[v].workspace
               c == s.win[w].output
               d == s.win[w].workspace
    <3> HIDE DEF r, t, a, b, c, d
    <3>2. [s EXCEPT !.toplevels = r, !.win[w].output = a, !.win[w].workspace = b,
                    !.win[v].output = c, !.win[v].workspace = d]
            = [q EXCEPT !.win = [s.win EXCEPT ![w].output = a, ![w].workspace = b,
                                              ![v].output = c, ![v].workspace = d]]
      <4>1. q = [s EXCEPT !.toplevels = r] /\ q.win = s.win
        BY <1>4 DEF r
      <4>2. "win" \in DOMAIN q
        BY <1>1 DEF ServerState
      <4> HIDE DEF q
      <4> DEFINE e == [q EXCEPT !.win[w].output = a, !.win[w].workspace = b]
                 h == [q.win EXCEPT ![w].output = a, ![w].workspace = b]
                 k == [h EXCEPT ![v].output = c, ![v].workspace = d]
      <4>3. [s EXCEPT !.toplevels = r, !.win[w].output = a, !.win[w].workspace = b,
                      !.win[v].output = c, !.win[v].workspace = d]
             = [e EXCEPT !.win[v].output = c, !.win[v].workspace = d]
        BY <4>1, Zenon
      <4>4. e = [q EXCEPT !.win = h]
        BY Zenon
      <4>5. k = [s.win EXCEPT ![w].output = a, ![w].workspace = b,
                              ![v].output = c, ![v].workspace = d]
        BY <4>1, Zenon
      <4> HIDE DEF e
      <4>6. [e EXCEPT !.win[v].output = c, !.win[v].workspace = d]
             = [e EXCEPT !.win = [e.win EXCEPT ![v].output = c, ![v].workspace = d]]
        BY Zenon
      <4> HIDE DEF h
      <4>7. e.win = h
        BY <4>2, <4>4, Zenon
      <4>8. [e EXCEPT !.win = [e.win EXCEPT ![v].output = c, ![v].workspace = d]]
              = [e EXCEPT !.win = k]
        BY <4>7, Zenon
      <4> HIDE DEF k
      <4>9. [e EXCEPT !.win = k] = [q EXCEPT !.win = k]
        BY <4>4
      <4> QED
        BY <4>3, <4>5, <4>6, <4>8, <4>9, Zenon
    <3> QED
      BY <3>1, <3>2, Zenon DEF a, b, c, d
  <2>2. g = f
    <3>1. s.win \in [Window -> Toplevel]
      BY <1>1 DEF ServerState
    <3>2. CASE v = w
      BY <1>1, <1>2, <3>1, <3>2 DEF Toplevel
    <3>3. CASE v # w
      BY <1>1, <1>2, <3>1, <3>3 DEF Toplevel
    <3> QED
      BY <3>2, <3>3
  <2> QED
    BY <2>1, <2>2
<1> HIDE DEF x, y
<1>6. /\ f \in [Window -> Toplevel] /\ f[v] = y /\ (v # w => f[w] = x)
      /\ \A u \in Window \ {w, v} : f[u] = s.win[u]
  BY <1>1, <1>3 DEF ServerState
<1> HIDE DEF f, q, r
<1>7. \A u \in Window : f[u].life = s.win[u].life
  BY <1>3, <1>6
<1>8. \A u \in Linked(s) : f[u].output \in Live(s) \cup {NoOutput}
  BY <1>3, <1>6 DEF Good, GoodPointers, Linked
<1>9. Keeps(q, [q EXCEPT !.win = f])
  BY <1>4, <1>6, <1>7, <1>8, KeepsWindows DEF Keeps
<1>10. Keeps(s, t)
  BY <1>4, <1>5, <1>9 DEF Keeps
<1>11. t.win = f /\ t.toplevels = r
  BY <1>4, <1>5 DEF Keeps, Good, ServerState
<1> HIDE DEF t
<1>12. /\ IndexIn(r, w) = PlaceOf(s, v) /\ IndexIn(r, v) = PlaceOf(s, w)
       /\ \A u \in Linked(s) \ {w, v} : IndexIn(r, u) = PlaceOf(s, u)
  BY ExchangePlaces DEF r
<1>13. /\ f[w].output = s.win[v].output /\ f[w].workspace = s.win[v].workspace
       /\ f[v].output = s.win[w].output /\ f[v].workspace = s.win[w].workspace
  BY <1>3, <1>6
<1>14. Exchanged(s, t, w, v)
  BY <1>1, <1>6, <1>11, <1>12, <1>13 DEF Exchanged, SpotIn, PlaceOf, Linked
<1> QED
  BY <1>10, <1>14 DEF t

\* The drop of a tile.  If its monitor was unplugged since, the program crashes.
LEMMA DropTileMoves ==
    ASSUME NEW s, Good(s), NEW p \in PointerState, p.grabbed \in Window
    PROVE  LET t == DropTile(s, p)
           IN  /\ t \in ServerState /\ Linked(t) = Linked(s)
               /\ t.crashed \/ Good(t)
               /\ p.grabbed \in Linked(s) /\ p.target \in Linked(s) \cup {NoWindow}
                    => Exchanged(s, t, p.grabbed, p.target)
<1> DEFINE w == p.grabbed
           v == p.target
           src == s.win[w].output
           dst == IF v # NoWindow THEN s.win[v].output ELSE p.target_output
           x == [s.win[w] EXCEPT !.output = dst, !.workspace = s.out[dst].active_workspace]
           q == IF v # NoWindow THEN SwapHomes(s, w, v)
                ELSE IF dst \in {NoOutput, src} THEN s
                ELSE [s EXCEPT !.win[w].output = dst,
                               !.win[w].workspace = s.out[dst].active_workspace]
           u == FocusToplevel(q, w)
           t == DropTile(s, p)
<1>1. s \in ServerState /\ w \in Window /\ s.win[w] \in Toplevel
  BY DEF Good, ServerState
<1>2. v \in Window \cup {NoWindow} /\ p.target_output \in Output \cup {NoOutput}
  BY DEF PointerState
<1>3. t = IF {w, v} \ {NoWindow} \subseteq Linked(s) THEN ArrangeAll(u, {src, dst})
          ELSE Crash(s)
  BY Zenon DEF DropTile
<1>4. w # NoWindow
  BY <1>1, NullAssumption
<1> HIDE DEF w, v, t
<1>5. CASE ~({w, v} \ {NoWindow} \subseteq Linked(s))
  <2>1. t = Crash(s)
    BY <1>3, <1>5
  <2>2. t \in ServerState /\ Linked(t) = Linked(s) /\ Good(t)
    BY <2>1, KeepsCrash DEF Keeps, Good
  <2>3. ~(w \in Linked(s) /\ v \in Linked(s) \cup {NoWindow})
    BY <1>5
  <2> QED
    BY <2>2, <2>3 DEF t, w, v
<1>6. CASE {w, v} \ {NoWindow} \subseteq Linked(s)
  <2>1. w \in Linked(s) /\ v \in Linked(s) \cup {NoWindow}
    BY <1>2, <1>4, <1>6
  <2>2. /\ src \in Live(s) \cup {NoOutput}
        /\ v # NoWindow => dst \in Live(s) \cup {NoOutput}
        /\ dst \in Output \cup {NoOutput}
    BY <1>2, <2>1, GoodFocus
  <2>3. /\ q \in ServerState /\ Linked(q) = Linked(s) /\ Live(q) = Live(s)
        /\ dst \in Live(s) \cup {NoOutput} => Good(q)
        /\ Exchanged(s, q, w, v)
    <3>1. CASE v # NoWindow
      <4>1. q = SwapHomes(s, w, v)
        BY <3>1
      <4>2. Keeps(s, q) /\ Exchanged(s, q, w, v)
        BY <2>1, <3>1, <4>1, SwapHomesMoves
      <4> QED
        BY <4>2 DEF Keeps, Good
    <3>2. CASE v = NoWindow /\ dst \in {NoOutput, src}
      <4>1. q = s
        BY <3>2
      <4> QED
        BY <1>1, <3>2, <4>1 DEF Exchanged
    <3>3. CASE v = NoWindow /\ dst \notin {NoOutput, src}
      <4>1. dst \in Output
        BY <2>2, <3>3
      <4>2. s.out[dst].active_workspace \in WS
        BY <1>1, <4>1 DEF ServerState, OutputState
      <4>3. x \in Toplevel /\ x.life = s.win[w].life /\ x.output = dst
        BY <1>1, <4>1, <4>2 DEF Toplevel
      <4>4. q = [s EXCEPT !.win[w].output = dst,
                          !.win[w].workspace = s.out[dst].active_workspace]
        BY <3>3
      <4>5. q = [s EXCEPT !.win[w] = x]
        <5> HIDE DEF q, dst
        <5> QED
          BY <1>1, <4>4 DEF ServerState, Toplevel
      <4> HIDE DEF q, x, dst
      <4>6. /\ q \in ServerState /\ q.win = [s.win EXCEPT ![w] = x]
            /\ q.outputs = s.outputs /\ q.toplevels = s.toplevels
        BY <1>1, <4>3, <4>5 DEF ServerState
      <4>7. \A y \in Window : y # w => q.win[y] = s.win[y]
        BY <1>1, <4>6 DEF ServerState
      <4>8. q.win[w].life = s.win[w].life
        BY <1>1, <4>3, <4>6 DEF ServerState
      <4>9. Linked(q) = Linked(s) /\ Live(q) = Live(s)
        BY <4>6, <4>7, <4>8 DEF Linked, Live
      <4>10. Exchanged(s, q, w, v)
        BY <3>3, <4>6, <4>7 DEF Exchanged, SpotIn, PlaceOf, Linked
      <4>11. dst \in Live(s) \cup {NoOutput} => Good(q)
        BY <1>1, <4>3, <4>5, KeepsWindow DEF Keeps
      <4> QED
        BY <4>6, <4>9, <4>10, <4>11
    <3> QED
      BY <3>1, <3>2, <3>3
  <2> HIDE DEF q
  <2>4. Calm(q, u) /\ u \in ServerState /\ Linked(u) = Linked(s) /\ Live(u) = Live(s)
    BY <1>1, <2>1, <2>3, CalmFocusToplevel, CalmKeeps
  <2> HIDE DEF u
  <2>5. t = IF {src, dst} \subseteq Live(u) \cup {NoOutput}
            THEN Arrange(u, {src, dst} \ {NoOutput}) ELSE Crash(u)
    BY <1>3, <1>6 DEF ArrangeAll
  <2> HIDE DEF src, dst
  <2>6. Calm(u, t) \/ t = Crash(u)
    <3>1. {src, dst} \subseteq Live(u) \cup {NoOutput}
             => {src, dst} \ {NoOutput} \subseteq Live(u)
      OBVIOUS
    <3> QED
      BY <2>4, <2>5, <3>1, CalmArrange
  <2>7. t \in ServerState /\ Linked(t) = Linked(s)
    BY <2>4, <2>6, SameSpots
  <2>8. t.crashed \/ Good(t)
    <3>1. CASE dst \in Live(s) \cup {NoOutput}
      <4>1. Good(u) /\ {src, dst} \subseteq Live(u) \cup {NoOutput}
        BY <2>2, <2>3, <2>4, <3>1, GoodCalm
      <4>2. Calm(u, t)
        <5>1. t = Arrange(u, {src, dst} \ {NoOutput})
                 /\ {src, dst} \ {NoOutput} \subseteq Live(u)
          BY <2>5, <4>1
        <5> QED
          BY <2>4, <5>1, CalmArrange
      <4> QED
        BY <4>1, <4>2, GoodCalm
    <3>2. CASE dst \notin Live(s) \cup {NoOutput}
      <4>1. t = Crash(u)
        BY <2>4, <2>5, <3>2
      <4>2. t.crashed
        BY <2>4, <4>1 DEF Crash, ServerState
      <4> QED
        BY <4>2
    <3> QED
      BY <3>1, <3>2
  <2>9. \A y \in Window : SpotIn(t, y) = SpotIn(q, y)
    <3>1. \A y \in Window : SpotIn(u, y) = SpotIn(q, y)
      BY <2>3, <2>4, SameSpots
    <3>2. \A y \in Window : SpotIn(t, y) = SpotIn(u, y)
      BY <2>4, <2>6, SameSpots
    <3> QED
      BY <3>1, <3>2
  <2>10. Exchanged(s, t, w, v)
    BY <1>1, <1>2, <2>3, <2>9 DEF Exchanged, Linked
  <2> QED
    BY <2>7, <2>8, <2>10 DEF t, w, v
<1> QED
  BY <1>5, <1>6

\* A window dropped in the overview, which may have been destroyed since.
LEMMA DropThumbnailKeeps ==
    ASSUME NEW s, Good(s), NEW w \in Window, NEW at \in Live(s),
           NEW ws \in WS \cup {NoWorkspace}
    PROVE  Keeps(s, DropThumbnail(s, w, at, ws))
<1> DEFINE src == s.win[w].output
           moved == at # src \/ ws \notin {NoWorkspace, s.win[w].workspace}
           forgotten == [v \in WS |-> IF s.out[src].last_focused[v] = w THEN NoWindow
                                      ELSE s.out[src].last_focused[v]]
           t == IF moved /\ src # NoOutput
                THEN [s EXCEPT !.out[src].last_focused = forgotten] ELSE s
           u == [t EXCEPT !.win[w].output = at,
                          !.win[w].workspace = IF ws = NoWorkspace THEN @ ELSE ws]
<1>1. s \in ServerState /\ at \in Output /\ s.win[w] \in Toplevel
  BY ListedWindows DEF Good, ServerState
<1>2. DropThumbnail(s, w, at, ws)
         = IF Freed(s, w) THEN Crash(s) ELSE RenderOverview(u, Live(s))
  BY Zenon DEF DropThumbnail
<1>3. Calm(s, t)
  <2> DEFINE g == [s.out EXCEPT ![src] = [s.out[src] EXCEPT !.last_focused = forgotten]]
  <2>1. CASE src = NoOutput \/ ~moved
    BY <1>1, <2>1, CalmSame
  <2>2. ASSUME src # NoOutput
        PROVE  Calm(s, [s EXCEPT !.out[src].last_focused = forgotten])
    <3>1. src \in Output
      BY <1>1, <2>2 DEF Toplevel
    <3>2. s.out[src] \in OutputState /\ s.out \in [Output -> OutputState]
      BY <1>1, <3>1 DEF ServerState
    <3>3. /\ forgotten \in [WS -> Window \cup {NoWindow}]
          /\ \A v \in WS : forgotten[v] \in {NoWindow, s.out[src].last_focused[v]}
      BY <3>2 DEF OutputState
    <3> HIDE DEF forgotten, src
    <3> DEFINE z == [s.out[src] EXCEPT !.last_focused = forgotten]
    <3>4. z \in OutputState /\ z.last_focused = forgotten
      BY <3>2, <3>3 DEF OutputState
    <3>5. [s EXCEPT !.out[src].last_focused = forgotten] = [s EXCEPT !.out = g]
      BY <1>1, <3>1, <3>2 DEF ServerState
    <3> HIDE DEF z
    <3>6. g = [s.out EXCEPT ![src] = z]
      BY DEF z
    <3> HIDE DEF g
    <3>7. g \in [Output -> OutputState] /\ g[src] = z
          /\ \A o \in Output : o # src => g[o] = s.out[o]
      BY <3>1, <3>2, <3>4, <3>6
    <3>8. ASSUME NEW o \in Live(s), NEW v \in WS
          PROVE  \/ g[o].last_focused[v] = s.out[o].last_focused[v]
                 \/ Owns(s, o, v, g[o].last_focused[v])
      <4>1. o \in Output
        BY <1>1, ListedWindows
      <4> QED
        BY <3>3, <3>4, <3>7, <4>1 DEF Owns
    <3> QED
      BY <1>1, <3>5, <3>7, <3>8, CalmOut
  <2> HIDE DEF forgotten, moved
  <2> QED
    BY <2>1, <2>2
<1>4. Keeps(s, t) /\ t \in ServerState /\ t.win = s.win
  <2>1. t.win = s.win
    BY <1>1 DEF ServerState
  <2> HIDE DEF t
  <2> QED
    BY <1>3, <2>1, CalmKeeps, KeepsCalm
<1> HIDE DEF t
<1> DEFINE x == [s.win[w] EXCEPT !.output = at,
                                 !.workspace = IF ws = NoWorkspace THEN @ ELSE ws]
<1>5. x \in Toplevel /\ x.life = s.win[w].life /\ x.output = at
  <2> DEFINE d == IF ws = NoWorkspace THEN s.win[w].workspace ELSE ws
  <2>1. d \in WS
    BY <1>1 DEF Toplevel
  <2>2. x = [s.win[w] EXCEPT !.output = at, !.workspace = d]
    BY <1>1 DEF Toplevel
  <2> HIDE DEF d
  <2> QED
    BY <1>1, <2>1, <2>2 DEF Toplevel
<1>6. u = [t EXCEPT !.win[w] = x]
  BY <1>1, <1>4 DEF ServerState, Toplevel
<1> HIDE DEF x, u
<1>7. Keeps(t, [t EXCEPT !.win[w] = x])
  BY <1>1, <1>4, <1>5, KeepsWindow DEF Keeps
<1>8. Keeps(s, u)
  BY <1>4, <1>6, <1>7 DEF Keeps
<1>9. Keeps(s, RenderOverview(u, Live(s)))
  BY <1>8, CalmRender, KeepsCalm DEF Keeps, Good
<1> QED
  BY <1>2, <1>9, KeepsCrash

----------------------------------------------------------------------------
(* What the pointer holds on to *)

\* A grab has its window, and a pointer without a grab has none.
Grips(p) == p \in PointerState /\ (p.mode = "passthrough" <=> p.grabbed = NoWindow)

\* The windows it points at are among L, the mapped ones, and none is dragged in the
\* overview.
Among(p, L) ==
    /\ p.grabbed \in L \cup {NoWindow}
    /\ p.target # NoWindow => p.mode = "tile_drag" /\ p.target \in L
    /\ p.dragged = NoWindow

\* A button is down while a window is grabbed.
Held(p) == p.mode # "passthrough" => p.held # {}

\* A grab begins, and the one before it has left no target.
LEMMA GrabGrips ==
    ASSUME NEW p, Grips(p), NEW w \in Window, NEW mode \in {"move", "resize", "tile_drag"}
    PROVE  LET q == Grab(p, w, mode)
           IN  /\ Grips(q) /\ q.held = p.held /\ q.mode = mode
               /\ \A L : Among(p, L) /\ p.target = NoWindow /\ w \in L => Among(q, L)
<1> DEFINE q == Grab(p, w, mode)
<1>1. /\ q \in PointerState /\ q.mode = mode /\ q.grabbed = w /\ q.target = p.target
      /\ q.dragged = p.dragged /\ q.held = p.held
  BY DEF Grab, Grips, PointerState
<1> HIDE DEF q
<1>2. w # NoWindow /\ mode # "passthrough"
  BY NullAssumption
<1> QED
  BY <1>1, <1>2 DEF Grips, Among, q

\* Buttons go up and down.
LEMMA ButtonGrips ==
    ASSUME NEW p, Grips(p), NEW b \in Button
    PROVE  LET q == [p EXCEPT !.held = @ \cup {b}]
               r == [p EXCEPT !.held = @ \ {b}]
           IN  /\ Grips(q) /\ q.mode = p.mode /\ q.grabbed = p.grabbed
               /\ q.target = p.target /\ b \in q.held
               /\ Grips(r) /\ r.mode = p.mode /\ r.grabbed = p.grabbed
               /\ \A L : Among(p, L) => Among(q, L) /\ Among(r, L)
<1> DEFINE q == [p EXCEPT !.held = @ \cup {b}]
           r == [p EXCEPT !.held = @ \ {b}]
<1>1. /\ q \in PointerState /\ q.mode = p.mode /\ q.grabbed = p.grabbed
      /\ q.target = p.target /\ q.dragged = p.dragged /\ b \in q.held
  BY DEF Grips, PointerState
<1>2. /\ r \in PointerState /\ r.mode = p.mode /\ r.grabbed = p.grabbed
      /\ r.target = p.target /\ r.dragged = p.dragged
  BY DEF Grips, PointerState
<1> HIDE DEF q, r
<1> QED
  BY <1>1, <1>2 DEF Grips, Among, q, r

\* The end of a grab leaves nothing.
LEMMA ResetGrips ==
    ASSUME NEW p, Grips(p)
    PROVE  LET q == ResetMode(p)
           IN  /\ Grips(q) /\ q.mode = "passthrough"
               /\ \A L, K : Among(p, L) => Among(q, K)
<1> DEFINE r == IF p.mode = "tile_drag" THEN NoTarget(p) ELSE p
           q == [r EXCEPT !.mode = "passthrough", !.grabbed = NoWindow]
<1>1. /\ r \in PointerState /\ r.dragged = p.dragged
      /\ r.target = IF p.mode = "tile_drag" THEN NoWindow ELSE p.target
  BY DEF NoTarget, Grips, PointerState
<1> HIDE DEF r
<1>2. /\ q \in PointerState /\ q.mode = "passthrough" /\ q.grabbed = NoWindow
      /\ q.target = r.target /\ q.dragged = r.dragged
  BY <1>1 DEF PointerState
<1>3. ResetMode(p) = q
  BY DEF ResetMode, r
<1> HIDE DEF q
<1>4. \A L, K : Among(p, L) => Among(q, K)
  BY <1>1, <1>2 DEF Among
<1> QED
  BY <1>2, <1>3, <1>4 DEF Grips

\* Motion changes the target of a tile drag and nothing else.
LEMMA MotionGrips ==
    ASSUME NEW s, NEW p, Grips(p), NEW at \in Output \cup {NoOutput},
           NEW under \in Window \cup {NoWindow}
    PROVE  LET q == MotionPointer(s, p, at, under)
           IN  /\ Grips(q) /\ q.mode = p.mode /\ q.held = p.held
               /\ \A L, K : /\ Among(p, L)
                            /\ p.grabbed \in K \cup {NoWindow}
                            /\ p.mode = "tile_drag" => under \in K \cup {NoWindow}
                            => Among(q, K)
<1> DEFINE q == MotionPointer(s, p, at, under)
           r == [p EXCEPT !.target = under, !.target_output = NoOutput]
           x == NoTarget(p)
           y == [p EXCEPT !.target = NoWindow, !.target_output = at]
<1>1. ASSUME NEW z \in {r, x, y}
      PROVE  /\ z \in PointerState /\ z.mode = p.mode /\ z.grabbed = p.grabbed
             /\ z.target \in {under, NoWindow} /\ z.dragged = p.dragged /\ z.held = p.held
  BY DEF NoTarget, Grips, PointerState
<1>2. /\ p.mode # "tile_drag" \/ p.dragged # NoWindow => q = p
      /\ p.mode = "tile_drag" /\ p.dragged = NoWindow => q \in {r, x, y}
  <2> HIDE DEF r, x, y
  <2> QED
    BY DEF MotionPointer, r, x, y
<1> HIDE DEF q, r, x, y
<1>3. CASE q = p
  <2>1. ASSUME NEW L, NEW K, Among(p, L), p.grabbed \in K \cup {NoWindow},
               p.mode = "tile_drag" => under \in K \cup {NoWindow}
        PROVE  Among(q, K)
    <3>1. CASE p.mode = "tile_drag"
      <4>1. q \in {r, x, y}
        BY <1>2, <2>1, <3>1 DEF Among
      <4> QED
        BY <1>1, <2>1, <3>1, <4>1 DEF Among
    <3>2. CASE p.mode # "tile_drag"
      BY <1>3, <2>1, <3>2 DEF Among
    <3> QED
      BY <3>1, <3>2
  <2> QED
    BY <1>3, <2>1 DEF q
<1>4. CASE q # p
  <2>1. p.mode = "tile_drag" /\ p.dragged = NoWindow /\ q \in {r, x, y}
    BY <1>2, <1>4
  <2>2. /\ q \in PointerState /\ q.mode = p.mode /\ q.grabbed = p.grabbed
        /\ q.target \in {under, NoWindow} /\ q.dragged = p.dragged /\ q.held = p.held
    BY <1>1, <2>1
  <2>3. \A L, K : /\ Among(p, L)
                  /\ p.grabbed \in K \cup {NoWindow}
                  /\ p.mode = "tile_drag" => under \in K \cup {NoWindow}
                  => Among(q, K)
    BY <2>1, <2>2 DEF Among
  <2> QED
    BY <2>2, <2>3 DEF Grips, q
<1> QED
  BY <1>3, <1>4

\* After a crash there are no more steps.
LEMMA CrashEnds == DesktopNext => ~server.crashed
<1>1. ClientStep => ~server.crashed
  BY Zenon DEF ClientStep, New, Map, Destroy, RequestFullscreen, Activate, Occurs
<1>2. UserStep => ~server.crashed
  BY Zenon DEF UserStep, Switch, SendToWorkspace, FocusOtherMonitor, SendToMonitor, Hide,
               TogglePad, Toggle, ChooseLayout, MoveFocus, Reorder, Occurs
<1>3. MonitorStep => ~server.crashed
  BY Zenon DEF MonitorStep, Plug, Unplug, TurnOff, TurnOn, Resume, Occurs
<1>4. OverviewStep => ~server.crashed
  BY Zenon DEF OverviewStep, Overview, LeaveOverview, Faded, FocusTowards, MoveTowards,
               Occurs
<1>5. GrabStep => ~server.crashed
  <2>1. ButtonStep => ~server.crashed
    <3>1. \A b, w : Press(b, w) \/ SuperPress(b, w) => ~server.crashed
      BY Zenon DEF Press, SuperPress, Occurs
    <3>2. \A b : Release(b) => ~server.crashed
      BY Zenon DEF Release
    <3>3. \A b, at, hit, ws : OverviewPress(b, at, hit) \/ OverviewRelease(b, at, ws, hit)
                               => ~server.crashed
      BY Zenon DEF OverviewPress, OverviewRelease, Occurs
    <3> QED
      BY <3>1, <3>2, <3>3, Zenon DEF ButtonStep
  <2> QED
    BY <2>1, Zenon DEF GrabStep, ClientGrab, DragAndDrop, Moved, Unmapped, Occurs
<1> QED
  BY <1>1, <1>2, <1>3, <1>4, <1>5 DEF DesktopNext, OtherStep

\* The server is good until it crashes.
Sane(s) == s \in ServerState /\ (s.crashed \/ Good(s))

\* Clients ask for a grab only with a button down on a window, and no thumbnail is
\* dragged: the cases in which the pointer is known to hold on to what is gone.
Quiet == /\ "stray_request" \notin Events
         /\ "thumbnails" \notin Events \/ InOverview(server) = {}

\* What every step of the desktop does to all this.
Leads ==
    /\ Sane(server') /\ Grips(pointer')
    /\ Quiet /\ Among(pointer, Linked(server)) => Among(pointer', Linked(server'))
    /\ Quiet /\ InOverview(server) = {} /\ Held(pointer) => Held(pointer')

\* What a press, a click or a drop lands on is mapped.
LEMMA PressedMapped ==
    ASSUME NEW s, Good(s)
    PROVE  /\ OnScreen(s) \subseteq Linked(s) /\ InTabBar(s) \subseteq Linked(s)
           /\ \A p : DropTargets(s, p) \subseteq Linked(s)
           /\ \A o, ws : InSlot(s, o, ws) \subseteq Linked(s)
           /\ Linked(s) \subseteq Window
           /\ UnderCursor(s) \subseteq Live(s) \cup {NoOutput}
           /\ Live(s) \subseteq Output
<1>1. ASSUME NEW o
      PROVE  Tabs(s, o) \subseteq Linked(s)
  BY DEF Tabs, Good, Holds
<1>2. InTabBar(s) \subseteq Linked(s)
  BY <1>1 DEF InTabBar
<1>3. OnScreen(s) \subseteq Linked(s)
  BY DEF OnScreen, Shown
<1>4. Live(s) \subseteq Output
  BY ListedWindows DEF Good
<1> QED
  BY <1>2, <1>3, <1>4 DEF DropTargets, InSlot, Thumbnails, Linked, UnderCursor

\* A handler that keeps the windows leads on if the pointer does.
LEMMA KeepsLeads ==
    ASSUME Keeps(server, server') \/ (Sane(server') /\ Linked(server') = Linked(server)),
           Grips(pointer'),
           Quiet /\ Among(pointer, Linked(server)) => Among(pointer', Linked(server)),
           Quiet /\ InOverview(server) = {} /\ Held(pointer) => Held(pointer')
    PROVE  Leads
BY DEF Keeps, Sane, Good, Leads

\* The presses and releases outside the overview
LEMMA PressLeads ==
    ASSUME Good(server), Grips(pointer), NEW b \in Button,
           \/ \E w \in Window \cup {NoWindow} : Press(b, w)
           \/ \E w \in Window : SuperPress(b, w)
           \/ Release(b)
    PROVE  Leads
<1> DEFINE s == server
           p == pointer
<1>1. s \in ServerState /\ Keeps(s, s)
  BY CalmSame, KeepsCalm DEF Good
<1>2. \A w \in Linked(s) \cup {NoWindow} : Keeps(s, FocusToplevel(s, w))
  BY <1>1, CalmFocusToplevel, KeepsCalm DEF Linked
<1>3. ASSUME NEW w \in Window \cup {NoWindow}, Press(b, w)
      PROVE  Leads
  <2>1. w \in Linked(s) \cup {NoWindow} /\ s' = FocusToplevel(s, w) /\ p' = Pressed(b)
    BY <1>3, PressedMapped DEF Press, Under
  <2>2. /\ Grips(p') /\ b \in p'.held
        /\ Among(p, Linked(s)) => Among(p', Linked(s))
    BY <2>1, ButtonGrips DEF Pressed
  <2>3. Keeps(s, s')
    BY <1>2, <2>1
  <2>4. Held(p')
    BY <2>2 DEF Held
  <2> QED
    BY <2>2, <2>3, <2>4, KeepsLeads
<1>4. ASSUME NEW w \in Window, SuperPress(b, w)
      PROVE  Leads
  <2> DEFINE t == FocusToplevel(s, w)
             q == Pressed(b)
  <2>1. w \in Under
    BY <1>4 DEF SuperPress
  <2>2. w \in Linked(s) /\ p.target = NoWindow
    BY <2>1, PressedMapped DEF Under, Covered
  <2>3. Keeps(s, t) /\ Keeps(s, Loosened(t, w))
    <3>1. Keeps(s, t)
      BY <1>2, <2>2
    <3> HIDE DEF t
    <3> QED
      BY <3>1, LoosenedKeeps DEF Keeps
  <2>4. PICK mode \in {"move", "resize", "tile_drag"} :
           s' \in {t, Loosened(t, w)} /\ p' = Grab(q, w, mode)
    <3> DEFINE m == IF "floating" \in t.win[w].flags THEN "move" ELSE "tile_drag"
    <3>1. \/ s' = t /\ p' = Grab(q, w, m)
          \/ s' = Loosened(t, w) /\ p' = Grab(q, w, "resize")
      BY <1>4, Zenon DEF SuperPress
    <3>2. m \in {"move", "resize", "tile_drag"}
      OBVIOUS
    <3> HIDE DEF m, t, q
    <3> QED
      BY <3>1, <3>2
  <2>5. /\ Grips(q) /\ q.target = NoWindow /\ b \in q.held
        /\ Among(p, Linked(s)) => Among(q, Linked(s))
    BY <2>2, ButtonGrips DEF Pressed
  <2> HIDE DEF t, q
  <2>6. /\ Grips(p') /\ b \in p'.held
        /\ Among(p, Linked(s)) => Among(p', Linked(s))
    BY <2>2, <2>4, <2>5, GrabGrips
  <2>7. Held(p') /\ Keeps(s, s')
    BY <2>3, <2>4, <2>6 DEF Held
  <2> QED
    BY <2>6, <2>7, KeepsLeads
<1>5. ASSUME Release(b)
      PROVE  Leads
  <2> DEFINE q == Released(b)
  <2>1. /\ s' = IF p.mode = "tile_drag" THEN DropTile(s, p) ELSE s
        /\ p' = IF p.mode = "passthrough" THEN q ELSE ResetMode(q)
    BY <1>5 DEF Release
  <2>2. /\ Grips(q) /\ q.mode = p.mode
        /\ Among(p, Linked(s)) => Among(q, Linked(s))
    BY ButtonGrips DEF Released
  <2> HIDE DEF q
  <2>3. /\ Grips(p') /\ p'.mode = "passthrough"
        /\ Among(p, Linked(s)) => Among(p', Linked(s))
    BY <2>1, <2>2, ResetGrips
  <2>4. CASE p.mode = "tile_drag"
    <3>1. p \in PointerState /\ p.grabbed \in Window
      BY <2>4 DEF Grips, PointerState
    <3>2. s' = DropTile(s, p)
      BY <2>1, <2>4
    <3>3. Sane(s') /\ Linked(s') = Linked(s)
      BY <3>1, <3>2, DropTileMoves DEF Sane
    <3> QED
      BY <2>3, <3>3, KeepsLeads DEF Held
  <2>5. CASE p.mode # "tile_drag"
    <3>1. Keeps(s, s')
      BY <1>1, <2>1, <2>5
    <3> QED
      BY <2>3, <3>1, KeepsLeads DEF Held
  <2> QED
    BY <2>4, <2>5
<1> QED
  BY <1>3, <1>4, <1>5

\* The presses and releases in the overview
LEMMA ThumbnailLeads ==
    ASSUME Good(server), Grips(pointer), NEW b \in Button, NEW at \in Output,
           NEW hit \in Window \cup {NoWindow},
           \/ OverviewPress(b, at, hit)
           \/ \E ws \in WS \cup {NoWorkspace} : OverviewRelease(b, at, ws, hit)
    PROVE  Leads
<1> DEFINE s == server
           p == pointer
<1>1. s \in ServerState /\ Keeps(s, s)
  BY CalmSame, KeepsCalm DEF Good
<1>2. at \in InOverview(s)
  BY DEF OverviewPress, OverviewRelease
<1>3. at \in Live(s) /\ InOverview(s) # {}
  BY <1>2 DEF InOverview
<1>4. CASE OverviewPress(b, at, hit)
  <2> DEFINE q == Pressed(b)
  <2>1. /\ p' = [q EXCEPT !.dragged = IF hit = NoWindow THEN @ ELSE hit]
        /\ s' = s /\ "thumbnails" \in Events
    BY <1>4 DEF OverviewPress, Occurs
  <2>2. Grips(q)
    BY ButtonGrips DEF Pressed
  <2> HIDE DEF q
  <2>3. Grips(p')
    <3> DEFINE d == IF hit = NoWindow THEN q.dragged ELSE hit
    <3>1. d \in Window \cup {NoWindow} /\ q \in PointerState
      BY <2>2 DEF Grips, PointerState
    <3>2. p' = [q EXCEPT !.dragged = d]
      BY <2>1, <3>1 DEF PointerState
    <3> HIDE DEF d
    <3>3. p' \in PointerState /\ p'.mode = q.mode /\ p'.grabbed = q.grabbed
      BY <3>1, <3>2 DEF PointerState
    <3> QED
      BY <2>2, <3>3 DEF Grips
  <2>4. ~Quiet
    BY <1>3, <2>1 DEF Quiet
  <2>5. Keeps(s, s')
    BY <1>1, <2>1
  <2> QED
    BY <2>3, <2>4, <2>5, KeepsLeads
<1>5. ASSUME NEW ws \in WS \cup {NoWorkspace}, OverviewRelease(b, at, ws, hit)
      PROVE  Leads
  <2> DEFINE q == Released(b)
  <2>1. /\ p' = [q EXCEPT !.dragged = NoWindow]
        /\ s' = IF p.dragged # NoWindow THEN DropThumbnail(s, p.dragged, at, ws)
                ELSE ClickSlot(s, at, ws, hit)
        /\ hit # NoWindow => hit \in InSlot(s, at, ws)
    BY <1>5 DEF OverviewRelease
  <2>2. /\ Grips(q)
        /\ Among(p, Linked(s)) => Among(q, Linked(s))
    BY ButtonGrips DEF Released
  <2> HIDE DEF q
  <2>3. Grips(p') /\ (Among(p, Linked(s)) => Among(p', Linked(s)))
    <3>1. /\ p' \in PointerState /\ p'.mode = q.mode /\ p'.grabbed = q.grabbed
          /\ p'.target = q.target /\ p'.dragged = NoWindow
      BY <2>1, <2>2 DEF Grips, PointerState
    <3> QED
      BY <2>2, <3>1 DEF Grips, Among
  <2>4. CASE p.dragged # NoWindow
    <3>1. p.dragged \in Window
      BY <2>4 DEF Grips, PointerState
    <3>2. Keeps(s, s')
      BY <1>3, <2>1, <2>4, <3>1, DropThumbnailKeeps
    <3> QED
      BY <1>3, <2>3, <3>2, KeepsLeads
  <2>5. CASE p.dragged = NoWindow
    <3>1. hit \in Linked(s) \cup {NoWindow}
      BY <2>1, PressedMapped
    <3>2. Keeps(s, s')
      BY <1>3, <2>1, <2>5, <3>1, CalmClickSlot, KeepsCalm
    <3> QED
      BY <1>3, <2>3, <3>2, KeepsLeads
  <2> QED
    BY <2>4, <2>5
<1> QED
  BY <1>4, <1>5

\* Requests, drops by clients, motion and unmapping
LEMMA GrabLeads ==
    ASSUME Good(server), Grips(pointer),
           \/ \E w \in Window, mode \in {"move", "resize"} : ClientGrab(w, mode)
           \/ \E w \in Window : DragAndDrop(w)
           \/ \E at \in Output \cup {NoOutput}, w \in Window \cup {NoWindow} : Moved(at, w)
    PROVE  Leads
<1> DEFINE s == server
           p == pointer
<1>1. s \in ServerState
  BY DEF Good
<1>2. ASSUME NEW w \in Window, NEW mode \in {"move", "resize"}, ClientGrab(w, mode)
      PROVE  Leads
  <2>1. s' = Loosened(s, w) /\ p' = Grab(p, w, mode)
    BY <1>2 DEF ClientGrab
  <2>2. Keeps(s, s')
    BY <2>1, LoosenedKeeps
  <2>3. /\ Grips(p') /\ p'.held = p.held
        /\ Among(p, Linked(s)) /\ p.target = NoWindow /\ w \in Linked(s)
             => Among(p', Linked(s))
    BY <2>1, GrabGrips
  <2>4. Quiet => w \in Linked(s) /\ p.mode = "passthrough" /\ p.held # {}
    BY <1>2 DEF ClientGrab, Quiet, Occurs
  <2>5. Quiet /\ Among(p, Linked(s)) => Among(p', Linked(s))
    BY <2>3, <2>4 DEF Among
  <2> QED
    BY <2>2, <2>3, <2>4, <2>5, KeepsLeads DEF Held
<1>3. ASSUME NEW w \in Window, DragAndDrop(w)
      PROVE  Leads
  <2>1. w \in Linked(s) /\ s' = FocusToplevel(s, w) /\ p' = p
    BY <1>3, PressedMapped DEF DragAndDrop, Under
  <2>2. Keeps(s, s')
    BY <1>1, <2>1, CalmFocusToplevel, KeepsCalm
  <2> QED
    BY <2>1, <2>2, KeepsLeads
<1>4. ASSUME NEW at \in Output \cup {NoOutput}, NEW w \in Window \cup {NoWindow},
             Moved(at, w)
      PROVE  Leads
  <2>1. /\ at \in Live(s) \cup {NoOutput} /\ w \in Linked(s) \cup {NoWindow}
        /\ s' = MotionServer(s, p, at, w) /\ p' = MotionPointer(s, p, at, w)
    BY <1>4, PressedMapped DEF Moved, MotionWindows
  <2>2. Keeps(s, s')
    BY <2>1, MotionKeeps DEF Grips, PointerState
  <2>3. /\ Grips(p') /\ p'.mode = p.mode /\ p'.held = p.held
        /\ Among(p, Linked(s)) /\ p.grabbed \in Linked(s) \cup {NoWindow}
             => Among(p', Linked(s))
    <3>1. at \in Output \cup {NoOutput} /\ w \in Window \cup {NoWindow}
      OBVIOUS
    <3> QED
      BY <2>1, <3>1, MotionGrips
  <2>4. Among(p, Linked(s)) => p.grabbed \in Linked(s) \cup {NoWindow}
    BY DEF Among
  <2> QED
    BY <2>2, <2>3, <2>4, KeepsLeads DEF Held
<1> QED
  BY <1>2, <1>3, <1>4

\* An unmap ends a grab of the window, and takes the drop target off it.
LEMMA UnmapLeads ==
    ASSUME Good(server), Grips(pointer), NEW w \in Window,
           NEW at \in Output \cup {NoOutput}, NEW under \in Window \cup {NoWindow},
           Unmapped(w, at, under)
    PROVE  Leads /\ w \notin Linked(server')
<1> DEFINE s == server
           q == IF pointer.grabbed = w THEN ResetMode(pointer) ELSE pointer
           u == UnmapToplevel(s, w)
<1>1. /\ w \in Linked(s)
      /\ at \in Live(s) \cup {NoOutput}
      /\ under \in {NoWindow} \cup (IF q.mode = "tile_drag" THEN DropTargets(u, q) ELSE {})
      /\ s' = MotionServer(u, q, at, NoWindow)
      /\ pointer' = MotionPointer(u, q, at, under)
  BY PressedMapped, Zenon DEF Unmapped
<1>2. Good(u) /\ Linked(u) = Linked(s) \ {w} /\ Live(u) = Live(s)
  BY <1>1, UnmapLeaves
<1>3. under \in Linked(u) \cup {NoWindow}
  <2> HIDE DEF u
  <2> QED
    BY <1>1, <1>2, PressedMapped
<1> HIDE DEF u
<1>4. /\ Grips(q)
      /\ q.mode = "passthrough" \/ (q = pointer /\ pointer.grabbed # w)
      /\ Among(pointer, Linked(s)) => /\ Among(q, Linked(s))
                                      /\ q.grabbed \in Linked(u) \cup {NoWindow}
  <2>1. CASE pointer.grabbed = w
    <3>1. q = ResetMode(pointer)
      BY <2>1
    <3>2. /\ Grips(q) /\ q.mode = "passthrough"
          /\ Among(pointer, Linked(s)) => Among(q, Linked(s))
      BY <3>1, ResetGrips
    <3> HIDE DEF q
    <3> QED
      BY <3>2 DEF Grips
  <2>2. CASE pointer.grabbed # w
    BY <1>2, <2>2 DEF Among
  <2> QED
    BY <2>1, <2>2
<1> HIDE DEF q
<1>5. q.mode # "passthrough" => q.grabbed \in Window
  BY <1>4 DEF Grips, PointerState
<1>6. Keeps(u, s')
  BY <1>1, <1>2, <1>4, <1>5, MotionKeeps DEF Grips
<1>7. Sane(s') /\ Linked(s') = Linked(u)
  BY <1>6 DEF Keeps, Good, Sane
<1>8. /\ Grips(pointer') /\ pointer'.mode = q.mode /\ pointer'.held = q.held
      /\ Among(pointer, Linked(s)) => Among(pointer', Linked(u))
  <2>1. /\ Grips(pointer') /\ pointer'.mode = q.mode /\ pointer'.held = q.held
        /\ /\ Among(q, Linked(s)) /\ q.grabbed \in Linked(u) \cup {NoWindow}
           => Among(pointer', Linked(u))
    BY <1>1, <1>3, <1>4, MotionGrips
  <2> QED
    BY <1>4, <2>1
<1>9. Held(pointer) => Held(pointer')
  BY <1>4, <1>8 DEF Held
<1> QED
  BY <1>2, <1>7, <1>8, <1>9 DEF Leads

\* The callbacks that know nothing of the pointer take no window away.
LEMMA OtherLeads ==
    ASSUME Good(server), Grips(pointer), OtherStep
    PROVE  Leads
<1>1. Retains(server, server') \/ Keeps(server, server')
  BY ClientCallbacks, UserCallbacks, MonitorCallbacks, OverviewKeeps DEF OtherStep
<1>2. Good(server') /\ Linked(server) \subseteq Linked(server') /\ pointer' = pointer
  BY <1>1, RetainsLinked DEF Keeps, OtherStep
<1>3. Sane(server')
  BY <1>2 DEF Sane, Good
<1> QED
  BY <1>2, <1>3 DEF Leads, Among

\* Every step of the desktop leads on.
LEMMA DesktopLeads ==
    ASSUME Sane(server), Grips(pointer), [DesktopNext]_desktopVars
    PROVE  Leads
<1>1. CASE UNCHANGED desktopVars
  BY <1>1 DEF Leads, desktopVars
<1>2. CASE DesktopNext
  <2>1. Good(server)
    BY <1>2, CrashEnds DEF Sane
  <2>2. CASE ButtonStep
    BY <2>1, <2>2, PressLeads, ThumbnailLeads DEF ButtonStep
  <2>3. CASE \E w \in Window, at \in Output \cup {NoOutput}, v \in Window \cup {NoWindow} :
                Unmapped(w, at, v)
    BY <2>1, <2>3, UnmapLeads
  <2>4. CASE OtherStep
    BY <2>1, <2>4, OtherLeads
  <2> QED
    BY <1>2, <2>1, <2>2, <2>3, <2>4, GrabLeads DEF DesktopNext, GrabStep
<1> QED
  BY <1>1, <1>2

\* At first no window is mapped, and the pointer is free.
LEMMA DesktopBegins ==
    ASSUME DesktopInit
    PROVE  /\ Sane(server) /\ Grips(pointer)
           /\ Among(pointer, Linked(server)) /\ Held(pointer)
<1>1. Sane(server)
  BY InitGood DEF DesktopInit, Sane, Good
<1>2. /\ pointer \in PointerState /\ pointer.mode = "passthrough"
      /\ pointer.grabbed = NoWindow /\ pointer.target = NoWindow
      /\ pointer.dragged = NoWindow
  BY DEF DesktopInit, PointerInit, PointerState
<1> QED
  BY <1>1, <1>2 DEF Grips, Among, Held

\* A tile drag ends with an exchange, or because its window is unmapped.
LEMMA DropStep ==
    ASSUME Sane(server), Grips(pointer), Among(pointer, Linked(server)), Quiet,
           DesktopNext,
           pointer.mode = "tile_drag", pointer'.mode = "passthrough",
           pointer.grabbed \in Linked(server')
    PROVE  Exchanged(server, server', pointer.grabbed, pointer.target)
<1> DEFINE s == server
           p == pointer
<1>1. Good(s) /\ s \in ServerState
  BY CrashEnds DEF Sane
<1>2. p' # p
  OBVIOUS
<1>3. ASSUME NEW b \in Button, Release(b)
      PROVE  Exchanged(s, s', p.grabbed, p.target)
  <2>1. s' = DropTile(s, p)
    BY <1>3 DEF Release
  <2>2. p \in PointerState /\ p.grabbed \in Window /\ p.grabbed \in Linked(s)
    BY DEF Grips, PointerState, Among
  <2>3. p.target \in Linked(s) \cup {NoWindow}
    BY DEF Among
  <2> QED
    BY <1>1, <2>1, <2>2, <2>3, DropTileMoves
<1>4. ASSUME NEW b \in Button, NEW w \in Window \cup {NoWindow}, Press(b, w)
      PROVE  FALSE
  <2>1. p'.mode = p.mode
    BY <1>4, ButtonGrips DEF Press, Pressed
  <2> QED
    BY <2>1
<1>5. ASSUME NEW b \in Button, NEW w \in Window, SuperPress(b, w)
      PROVE  FALSE
  <2> DEFINE m == IF "floating" \in FocusToplevel(s, w).win[w].flags THEN "move"
                  ELSE "tile_drag"
             q == Pressed(b)
  <2>1. p' = Grab(q, w, m) \/ p' = Grab(q, w, "resize")
    BY <1>5, Zenon DEF SuperPress
  <2>2. m \in {"move", "resize", "tile_drag"} /\ Grips(q)
    BY ButtonGrips DEF Pressed
  <2> HIDE DEF m, q
  <2>3. p'.mode \in {"move", "resize", "tile_drag"}
    BY <2>1, <2>2, GrabGrips
  <2> QED
    BY <2>3
<1>6. ASSUME NEW b \in Button, NEW at \in Output, NEW hit \in Window \cup {NoWindow},
             \/ OverviewPress(b, at, hit)
             \/ \E ws \in WS \cup {NoWorkspace} : OverviewRelease(b, at, ws, hit)
      PROVE  FALSE
  <2>1. ~OverviewPress(b, at, hit)
    BY DEF OverviewPress, Quiet, Occurs
  <2>2. p' = [Released(b) EXCEPT !.dragged = NoWindow]
    BY <1>6, <2>1 DEF OverviewRelease
  <2>3. p'.mode = p.mode
    BY <2>2 DEF Released, Grips, PointerState
  <2> QED
    BY <2>3
<1>7. ASSUME NEW w \in Window, NEW mode \in {"move", "resize"}, ClientGrab(w, mode)
      PROVE  FALSE
  <2>1. p'.mode = mode
    BY <1>7, GrabGrips DEF ClientGrab
  <2> QED
    BY <2>1
<1>8. ASSUME NEW w \in Window, DragAndDrop(w)
      PROVE  FALSE
  BY <1>2, <1>8 DEF DragAndDrop
<1>9. ASSUME NEW at \in Output \cup {NoOutput}, NEW w \in Window \cup {NoWindow},
             Moved(at, w)
      PROVE  FALSE
  <2>1. p' = MotionPointer(s, p, at, w)
    BY <1>9 DEF Moved
  <2>2. p'.mode = p.mode
    BY <2>1, MotionGrips
  <2> QED
    BY <2>2
<1>10. ASSUME NEW w \in Window, NEW at \in Output \cup {NoOutput},
              NEW v \in Window \cup {NoWindow}, Unmapped(w, at, v)
       PROVE  FALSE
  <2>1. w \notin Linked(s')
    BY <1>1, <1>10, UnmapLeads
  <2>2. p.grabbed # w
    BY <2>1
  <2>3. p' = MotionPointer(UnmapToplevel(s, w), p, at, v)
    BY <1>10, <2>2 DEF Unmapped
  <2>4. p'.mode = p.mode
    BY <2>3, MotionGrips
  <2> QED
    BY <2>4
<1>11. CASE OtherStep
  BY <1>2, <1>11 DEF OtherStep
<1> QED
  BY <1>3, <1>4, <1>5, <1>6, <1>7, <1>8, <1>9, <1>10, <1>11
  DEF DesktopNext, GrabStep, ButtonStep

----------------------------------------------------------------------------
(* Theorems *)

\* What the proofs carry along.
DesktopInv == Sane(server) /\ Grips(pointer)
GrabInv == DesktopInv /\ Among(pointer, Linked(server))

(***************************************************************************)
(* In the overview and under the pointer, too, the lists hold every window *)
(* and monitor once and no window is on a monitor that is gone (Lists and  *)
(* OutputPointers), until the program crashes: the theorems on Spec say    *)
(* nothing of these handlers.  No kind of event is excluded.               *)
(***************************************************************************)
THEOREM DesktopCorrect ==
    DesktopSpec => [](TypeOK /\ (server.crashed \/ (Lists /\ OutputPointers)))
<1>1. DesktopInit => DesktopInv
  BY DesktopBegins DEF DesktopInv
<1>2. DesktopInv /\ [DesktopNext]_desktopVars => DesktopInv'
  BY DesktopLeads DEF DesktopInv, Leads
<1>3. DesktopInv => TypeOK /\ (server.crashed \/ (Lists /\ OutputPointers))
  <2>1. ASSUME Good(server)
        PROVE  Lists /\ OutputPointers
    BY <2>1 DEF Good, Holds, GoodPointers, Lists, OutputPointers, win
  <2> QED
    BY <2>1 DEF DesktopInv, Sane, TypeOK
<1> QED
  BY <1>1, <1>2, <1>3, PTL DEF DesktopSpec

(***************************************************************************)
(* The window that is moved, resized or dragged and the one it would drop  *)
(* on are mapped, whatever clients unmap and destroy and whatever monitors *)
(* come and go (GrabbedMapped), if clients ask for a grab only while a     *)
(* button is down on their window and no thumbnail is dragged.             *)
(***************************************************************************)
THEOREM GrabbedStayMapped ==
    ASSUME {"stray_request", "thumbnails"} \cap Events = {}
    PROVE  DesktopSpec => []GrabbedMapped
<1>1. DesktopInit => GrabInv
  BY DesktopBegins DEF GrabInv, DesktopInv
<1>2. GrabInv /\ [DesktopNext]_desktopVars => GrabInv'
  BY DesktopLeads DEF GrabInv, DesktopInv, Leads, Quiet
<1>3. GrabInv => GrabbedMapped
  BY DEF GrabInv, DesktopInv, Grips, Among, GrabbedMapped
<1> QED
  BY <1>1, <1>2, <1>3, PTL DEF DesktopSpec

(***************************************************************************)
(* As long as no monitor is in the overview, and clients ask for a grab    *)
(* only while a button is down on their window, the windows of a grab are  *)
(* mapped and a button holds it (GrabSafe).                                *)
(***************************************************************************)
THEOREM GrabsAreSafe ==
    ASSUME "stray_request" \notin Events
    PROVE  DesktopSpec /\ [](InOverview(server) = {}) => []GrabSafe
<1> DEFINE Outdoors == InOverview(server) = {}
           Inv == GrabInv /\ Held(pointer)
<1>1. DesktopInit => Inv
  BY DesktopBegins DEF GrabInv, DesktopInv
<1>2. Inv /\ Outdoors /\ [DesktopNext]_desktopVars => Inv'
  BY DesktopLeads DEF GrabInv, DesktopInv, Leads, Quiet
<1>3. Inv => GrabSafe
  BY DEF GrabInv, DesktopInv, Grips, Among, Held, GrabSafe, GrabbedMapped, GrabHeld
<1> HIDE DEF Outdoors, Inv
<1>4. DesktopInit /\ [][DesktopNext]_desktopVars /\ []Outdoors => []GrabSafe
  BY <1>1, <1>2, <1>3, PTL
<1> QED
  BY <1>4 DEF DesktopSpec, Outdoors

(***************************************************************************)
(* A tile drag that ends on another window exchanges the two and moves no  *)
(* third one (DropExchanges), whatever happened since it began.            *)
(***************************************************************************)
THEOREM DropsExchange ==
    ASSUME {"stray_request", "thumbnails"} \cap Events = {}
    PROVE  DesktopSpec => DropExchanges
<1> DEFINE Swapped ==
             LET w == pointer.grabbed
                 v == pointer.target
                 Spot(s, u) == <<PlaceOf(s, u), s.win[u].output, s.win[u].workspace>>
             IN  /\ pointer.mode = "tile_drag" /\ pointer'.mode = "passthrough"
                 /\ w \in Linked(server')
                 => /\ v # NoWindow => /\ Spot(server', w) = Spot(server, v)
                                       /\ Spot(server', v) = Spot(server, w)
                    /\ \A u \in Linked(server) \ {w, v} :
                           Spot(server', u) = Spot(server, u)
<1>1. DesktopInit => GrabInv
  BY DesktopBegins DEF GrabInv, DesktopInv
<1>2. GrabInv /\ [DesktopNext]_desktopVars => GrabInv'
  BY DesktopLeads DEF GrabInv, DesktopInv, Leads, Quiet
<1>3. GrabInv /\ [DesktopNext]_desktopVars => [Swapped]_desktopVars
  <2> SUFFICES ASSUME GrabInv, DesktopNext,
                      pointer.mode = "tile_drag", pointer'.mode = "passthrough",
                      pointer.grabbed \in Linked(server')
               PROVE  Swapped
    BY Zenon
  <2>1. Exchanged(server, server', pointer.grabbed, pointer.target)
    BY DropStep DEF GrabInv, DesktopInv, Quiet
  <2> QED
    BY <2>1 DEF Exchanged, SpotIn
<1> HIDE DEF Swapped
<1>4. DesktopSpec => [][Swapped]_desktopVars
  BY <1>1, <1>2, <1>3, PTL DEF DesktopSpec
<1> QED
  BY <1>4 DEF DropExchanges, Swapped

============================================================================
