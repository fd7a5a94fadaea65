------------------------- MODULE WindowScreenProofs -------------------------
(***************************************************************************)
(* What the window manager shows (ScreenRight of WindowManager), proved    *)
(* for windows that are in no scratchpad and not sticky, with layouts,     *)
(* flags, rules, monitors and focus changed in any way.                    *)
(***************************************************************************)
EXTENDS WindowSafetyProofs

----------------------------------------------------------------------------
(* What one monitor shows *)

Mine(s, p) == {w \in Linked(s) : s.win[w].output = p}
LastActive(s, p) == s.out[p].last_focused[s.out[p].active_workspace]

\* What is not tiled shows exactly on its own workspace: enough to arrange from.
Loose(s, p) ==
    \A w \in Mine(s, p) \ Tiled(s, p) :
        s.win[w].enabled = TRUE <=> OnActive(s, w, p)

\* One tiled window is in front, the one that the workspace remembers if it is tiled.
Fronted(s, p) ==
    \E f \in Tiled(s, p) :
        /\ \A v \in Tiled(s, p) : s.win[v].enabled = TRUE <=> v = f
        /\ LastActive(s, p) \in Tiled(s, p) => f = LastActive(s, p)

Pict(s, p) ==
    /\ Loose(s, p)
    /\ ActiveLayout(s, p) = "tabbed" /\ Tiled(s, p) # {} => Fronted(s, p)
    /\ ActiveLayout(s, p) # "tabbed" => \A w \in Tiled(s, p) : s.win[w].enabled = TRUE

\* The same windows in the same states, the same workspace and layouts.
Alike(s, t, p) ==
    /\ Mine(t, p) = Mine(s, p)
    /\ \A w \in Mine(s, p) : t.win[w] = s.win[w]
    /\ t.out[p].active_workspace = s.out[p].active_workspace
    /\ t.out[p].layout_mode = s.out[p].layout_mode

\* Such a monitor shows the same, whatever it remembers, unless that is another tab.
LEMMA AlikePict ==
    ASSUME NEW s, NEW t, NEW p, Alike(s, t, p)
    PROVE  /\ Tiled(t, p) = Tiled(s, p) /\ ActiveLayout(t, p) = ActiveLayout(s, p)
           /\ Loose(s, p) => Loose(t, p)
           /\ \/ ActiveLayout(s, p) # "tabbed"
              \/ LastActive(t, p) \in Tiled(s, p) => LastActive(t, p) = LastActive(s, p)
              => (Pict(s, p) => Pict(t, p))
<1>1. \A w \in Mine(s, p) : OnActive(t, w, p) <=> OnActive(s, w, p)
  BY DEF Alike, OnActive
<1>2. Tiled(s, p) \subseteq Mine(s, p) /\ Tiled(t, p) \subseteq Mine(t, p)
  BY DEF Tiled, Mine, OnActive
<1>3. Tiled(t, p) = Tiled(s, p)
  <2>1. \A w \in Mine(s, p) : w \in Tiled(t, p) <=> w \in Tiled(s, p)
    BY <1>1 DEF Alike, Tiled, Mine
  <2> QED
    BY <1>2, <2>1 DEF Alike
<1>4. ActiveLayout(t, p) = ActiveLayout(s, p)
  BY DEF Alike, ActiveLayout
<1>5. \A w \in Mine(s, p) : t.win[w].enabled = s.win[w].enabled
  BY DEF Alike
<1>6. Mine(t, p) = Mine(s, p)
  BY DEF Alike
<1>7. Loose(s, p) => Loose(t, p)
  BY <1>1, <1>3, <1>5, <1>6 DEF Loose
<1>8. ASSUME LastActive(t, p) \in Tiled(s, p) => LastActive(t, p) = LastActive(s, p),
             Fronted(s, p)
      PROVE  Fronted(t, p)
  <2>1. PICK f \in Tiled(s, p) :
           /\ \A v \in Tiled(s, p) : s.win[v].enabled = TRUE <=> v = f
           /\ LastActive(s, p) \in Tiled(s, p) => f = LastActive(s, p)
    BY <1>8 DEF Fronted
  <2>2. \A v \in Tiled(t, p) : t.win[v].enabled = TRUE <=> v = f
    BY <1>2, <1>3, <1>5, <2>1
  <2> QED
    BY <1>3, <1>8, <2>1, <2>2 DEF Fronted
<1>9. ASSUME Pict(s, p), ActiveLayout(s, p) # "tabbed"
      PROVE  Pict(t, p)
  BY <1>2, <1>3, <1>4, <1>5, <1>7, <1>9 DEF Pict
<1>10. ASSUME Pict(s, p), ActiveLayout(s, p) = "tabbed",
              LastActive(t, p) \in Tiled(s, p) => LastActive(t, p) = LastActive(s, p)
       PROVE  Pict(t, p)
  BY <1>3, <1>4, <1>7, <1>8, <1>10 DEF Pict
<1> QED
  BY <1>3, <1>4, <1>7, <1>9, <1>10

----------------------------------------------------------------------------
(* The state the helpers work on *)

\* A window that is in no scratchpad and not sticky; one that was never mapped shows.
Simple(x) ==
    /\ x.in_scratchpad = FALSE /\ x.tree = "windows" /\ "sticky" \notin x.flags
    /\ x.life \in {"free", "fresh"} => x.enabled = TRUE
Plain(s) ==
    /\ s.shown_pads = {}
    /\ \A w \in Window : Simple(s.win[w])
    /\ \A o \in Output : s.out[o].overview = "off"

\* A layout is tabbed only where there is one monitor: workspace::switch_to enables
\* the tabs in the back of every other one.
NeverTabbed == "tabbed" \notin Events /\ DefaultLayout # "tabbed"
TabsAlone(s) ==
    IF NeverTabbed THEN \A o \in Output, ws \in WS : s.out[o].layout_mode[ws] # "tabbed"
    ELSE \A o \in Live(s), p \in Live(s) : o = p

Base(s) ==
    /\ Good(s) /\ Remembered(s) /\ Hosted(s) /\ Live(s) # {} /\ s.crashed = FALSE
    /\ Plain(s) /\ TabsAlone(s)

\* A calm step that switches no workspace, layout or overview.
Mild(s, t) ==
    /\ Calm(s, t)
    /\ \A w \in Window : "sticky" \in t.win[w].flags => "sticky" \in s.win[w].flags
    /\ \A o \in Output : /\ t.out[o].active_workspace = s.out[o].active_workspace
                         /\ t.out[o].layout_mode = s.out[o].layout_mode
                         /\ t.out[o].overview = s.out[o].overview

\* Moreover, it keeps what a monitor shows, if that was right.
Steady(s, t, p) == (Loose(s, p) => Loose(t, p)) /\ (Pict(s, p) => Pict(t, p))
Tame(s, t) == Mild(s, t) /\ \A p \in Live(s) : Steady(s, t, p)

\* What is assumed of a state, in the words of the lemmas on calm steps.
LEMMA BaseFields ==
    ASSUME NEW s, Base(s)
    PROVE  /\ s \in ServerState /\ Good(s) /\ Sound(s) /\ Remembered(s)
           /\ s.focused_output \in Live(s) /\ Live(s) \subseteq Output
           /\ Linked(s) \subseteq Window /\ Range(s.toplevels) = Linked(s)
           /\ \A w \in Linked(s) : s.win[w].output \in Live(s)
           /\ ~s.crashed
<1>1. s \in ServerState /\ GoodPointers(s)
  BY DEF Base, Good
<1>2. Live(s) \subseteq Output
  BY <1>1, ListedWindows
<1>3. Range(s.toplevels) = Linked(s)
  BY DEF Base, Good, Holds
<1> QED
  BY <1>1, <1>2, <1>3 DEF Base, Sound, Hosted, Linked

\* So does a calm step that keeps windows from being sticky and monitors from being
\* in overview mode, whatever it does to workspaces, and tabs on one monitor.
LEMMA CalmBase ==
    ASSUME NEW s, NEW t, Base(s), Calm(s, t),
           \A w \in Window : "sticky" \in t.win[w].flags => "sticky" \in s.win[w].flags,
           \A o \in Output : t.out[o].overview = s.out[o].overview,
           TabsAlone(t)
    PROVE  Base(t) /\ Live(t) = Live(s) /\ Linked(t) = Linked(s)
<1>1. Good(s) /\ Sound(s)
  BY BaseFields
<1>2. /\ Good(t) /\ Hosted(t) /\ Live(t) = Live(s) /\ Linked(t) = Linked(s)
      /\ t \in ServerState
  BY <1>1, GoodCalm, HostedCalm, CalmKeeps DEF Base
<1>3. Remembered(t) /\ (t.crashed => s.crashed)
  BY <1>1 DEF Calm, Settles, Careful
<1>4. t.crashed = FALSE
  <2>1. t.crashed \in BOOLEAN
    BY <1>2 DEF ServerState
  <2> QED
    BY <1>3, <2>1 DEF Base
<1>5. Plain(t)
  <2>1. t.shown_pads = {}
    BY <1>1 DEF Calm, Base, Plain
  <2>2. \A o \in Output : t.out[o].overview = "off"
    BY DEF Base, Plain
  <2>3. ASSUME NEW w \in Window
        PROVE  Simple(t.win[w])
    <3>1. SamePlace(s.win[w], t.win[w])
      BY <1>1, CalmKeeps
    <3>2. Simple(s.win[w])
      BY DEF Base, Plain
    <3>3. "sticky" \notin t.win[w].flags
      BY <3>2 DEF Simple
    <3> QED
      BY <3>1, <3>2, <3>3 DEF SamePlace, Simple
  <2> QED
    BY <2>1, <2>2, <2>3 DEF Plain
<1> QED
  BY <1>2, <1>3, <1>4, <1>5 DEF Base

\* A mild step keeps it.
LEMMA MildBase ==
    ASSUME NEW s, NEW t, Base(s), Mild(s, t)
    PROVE  Base(t) /\ Live(t) = Live(s) /\ Linked(t) = Linked(s)
<1>1. Live(t) = Live(s)
  BY CalmKeeps DEF Mild
<1>2. TabsAlone(t)
  BY <1>1 DEF Mild, Base, TabsAlone
<1> QED
  BY <1>2, CalmBase DEF Mild

\* So does a tame one.
LEMMA TameBase ==
    ASSUME NEW s, NEW t, Base(s), Tame(s, t)
    PROVE  Base(t) /\ Live(t) = Live(s) /\ Linked(t) = Linked(s)
  BY MildBase DEF Tame

\* Two tame steps make a tame step.
LEMMA TameChain ==
    ASSUME NEW s, NEW t, NEW u, Tame(s, t), Tame(t, u)
    PROVE  Tame(s, u)
<1>1. Calm(s, u)
  BY CalmChain DEF Tame, Mild
<1>2. Live(t) = Live(s)
  BY CalmKeeps DEF Tame, Mild
<1>3. Mild(s, u)
  BY <1>1 DEF Tame, Mild
<1> QED
  BY <1>2, <1>3 DEF Tame, Steady

\* Doing nothing is tame.
LEMMA TameSame ==
    ASSUME NEW s \in ServerState
    PROVE  Tame(s, s)
  BY CalmSame DEF Tame, Mild, Steady

----------------------------------------------------------------------------
(* arrange_windows *)

\* Without sticky windows, a window is on the active workspace of a monitor when it
\* is of that workspace; without scratchpads, it is tiled unless it has a flag.
LEMMA OnActivePlain ==
    ASSUME NEW s, Base(s), NEW w \in Linked(s), NEW p
    PROVE  /\ OnActive(s, w, p) <=> /\ s.win[w].output = p
                                    /\ s.win[w].workspace = s.out[p].active_workspace
           /\ w \in Tiled(s, p) <=> OnActive(s, w, p) /\ s.win[w].flags = {}
<1>1. w \in Window /\ "sticky" \notin s.win[w].flags /\ s.win[w].in_scratchpad = FALSE
  BY BaseFields DEF Base, Plain, Simple
<1>2. s.win[w].flags \subseteq {"sticky"} <=> s.win[w].flags = {}
  BY <1>1
<1> QED
  BY <1>1, <1>2 DEF OnActive, Tiled

\* The window a layout puts in front is a tiled one, the remembered one if that is
\* tiled.
LEMMA FrontTiled ==
    ASSUME NEW s, Base(s), NEW o \in Live(s)
    PROVE  /\ Tiled(s, o) # {} => FrontWindow(s, o) \in Tiled(s, o)
           /\ LastActive(s, o) \in Tiled(s, o) => FrontWindow(s, o) = LastActive(s, o)
<1> DEFINE ws == s.out[o].active_workspace
           w == s.out[o].last_focused[ws]
           f == FirstIn(s, Tiled(s, o))
           test == /\ w # NoWindow
                   /\ s.win[w].output = o /\ s.win[w].workspace = ws
                   /\ s.win[w].flags \subseteq {"sticky"}
<1>1. FrontWindow(s, o) = IF test THEN w ELSE f
  BY DEF FrontWindow
<1>2. LastActive(s, o) = w
  BY DEF LastActive
<1>3. o \in Output /\ s.out[o] \in OutputState /\ ws \in WS
  BY BaseFields DEF ServerState, OutputState
<1>4. Owns(s, o, ws, w)
  BY <1>3, BaseFields DEF Remembered
<1> HIDE DEF w
<1>5. test => w \in Tiled(s, o)
  <2> SUFFICES ASSUME test
               PROVE  w \in Tiled(s, o)
    OBVIOUS
  <2>1. w \in Linked(s) /\ OnActive(s, w, o) /\ w \in Window
    BY <1>4, BaseFields DEF Owns, OnActive
  <2>2. s.win[w].in_scratchpad = FALSE
    BY <2>1 DEF Base, Plain, Simple
  <2> QED
    BY <2>1, <2>2 DEF Tiled
<1>6. ASSUME w \in Tiled(s, o)
      PROVE  test
  <2>1. w \in Linked(s)
    BY <1>6 DEF Tiled
  <2>2. w \in Window /\ w # NoWindow
    BY <2>1, BaseFields, NullAssumption
  <2>3. OnActive(s, w, o) /\ s.win[w].flags = {}
    BY <1>6, <2>1, OnActivePlain
  <2>4. OnActive(s, w, o) <=> s.win[w].output = o /\ s.win[w].workspace = ws
    BY <2>1, OnActivePlain
  <2>5. s.win[w].output = o /\ s.win[w].workspace = ws
    BY <2>3, <2>4, Zenon
  <2> QED
    BY <2>2, <2>3, <2>5
<1>7. ASSUME Tiled(s, o) # {}
      PROVE  f \in Tiled(s, o)
  <2>1. f \in (Range(s.toplevels) \cap Tiled(s, o)) \cup {NoWindow}
    BY BaseFields, Walks
  <2>2. f # NoWindow
    <3>1. PICK v \in Tiled(s, o) : TRUE
      BY <1>7
    <3>2. v \in Range(s.toplevels)
      BY <3>1, BaseFields DEF Tiled
    <3>3. PICK i \in DOMAIN s.toplevels : s.toplevels[i] = v
      BY <3>2 DEF Range
    <3>4. i \in Places(s, Tiled(s, o))
      BY <3>3 DEF Places
    <3>5. /\ s.toplevels \in Seq(Window) /\ NoWindow \notin Window
          /\ Places(s, Tiled(s, o)) \in SUBSET DOMAIN s.toplevels
      BY BaseFields, NullAssumption DEF ServerState, Places
    <3> QED
      BY <3>4, <3>5, EarliestLatestNull DEF FirstIn
  <2> QED
    BY <2>1, <2>2
<1> HIDE DEF test, f
<1> QED
  BY <1>1, <1>2, <1>5, <1>6, <1>7

\* What arrange_windows does to a window of the monitor.
LEMMA ArrangedWindow ==
    ASSUME NEW s, Base(s), NEW w \in Linked(s)
    PROVE  LET x == s.win[w]
               o == x.output
               y == ArrangeWindow(s, w)
           IN  /\ y \in Toplevel /\ SamePlace(x, y)
               /\ "sticky" \in y.flags => "sticky" \in x.flags
               /\ ActiveLayout(s, o) = "float" =>
                     \/ y = x /\ w \notin Tiled(s, o)
                     \/ OnActive(s, w, o) /\ "floating" \in y.flags /\ y.enabled = TRUE
               /\ ActiveLayout(s, o) # "float" /\ w \notin Tiled(s, o) => y = x
               /\ ActiveLayout(s, o) # "float" /\ w \in Tiled(s, o) =>
                     /\ y.flags = x.flags
                     /\ y.enabled = TRUE <=> (ActiveLayout(s, o) = "tabbed"
                                                => FrontWindow(s, o) = w)
<1> DEFINE x == s.win[w]
           o == x.output
           y == ArrangeWindow(s, w)
           f == x.flags \cup {"floating"}
           b == ActiveLayout(s, o) = "tabbed" => FrontWindow(s, o) = w
<1>1. s \in ServerState /\ x \in Toplevel /\ x.in_scratchpad = FALSE
  BY BaseFields DEF ServerState, Base, Plain, Simple
<1>2. y \in Toplevel /\ SamePlace(x, y)
  BY <1>1, ArrangeWindowType
<1>3. f \in SUBSET Flag /\ b \in BOOLEAN
  BY <1>1 DEF Toplevel, Flag
<1>4. w \in Tiled(s, o) <=> OnActive(s, w, o) /\ x.flags = {}
  BY OnActivePlain
<1>5. CASE /\ ActiveLayout(s, o) = "float" /\ OnActive(s, w, o)
           /\ x.flags \cap {"fullscreen", "fake_fullscreen"} = {}
  <2>1. y = [x EXCEPT !.flags = f, !.enabled = TRUE]
    BY <1>1, <1>5 DEF ArrangeWindow
  <2>2. y.flags = f /\ y.enabled = TRUE
    BY <1>1, <1>3, <2>1 DEF Toplevel
  <2> QED
    BY <1>2, <1>5, <2>2
<1>6. CASE /\ ActiveLayout(s, o) = "float"
           /\ ~(/\ OnActive(s, w, o)
                /\ x.flags \cap {"fullscreen", "fake_fullscreen"} = {})
  <2>1. y = x
    BY <1>1, <1>6 DEF ArrangeWindow
  <2>2. w \notin Tiled(s, o)
    BY <1>4, <1>6
  <2> QED
    BY <1>2, <1>6, <2>1, <2>2
<1>7. CASE ActiveLayout(s, o) # "float" /\ w \in Tiled(s, o)
  <2>1. y = [x EXCEPT !.enabled = b]
    BY <1>1, <1>7 DEF ArrangeWindow
  <2>2. y.flags = x.flags /\ y.enabled = b
    BY <1>1, <1>3, <2>1 DEF Toplevel
  <2>3. y.enabled = TRUE <=> b
    BY <1>3, <2>2
  <2> QED
    BY <1>2, <1>7, <2>2, <2>3
<1>8. CASE ActiveLayout(s, o) # "float" /\ w \notin Tiled(s, o)
  <2>1. y = x
    BY <1>1, <1>8 DEF ArrangeWindow
  <2> QED
    BY <1>2, <1>8, <2>1
<1> QED
  BY <1>5, <1>6, <1>7, <1>8

\* arrange_windows of some monitors changes their windows as above, and nothing else.
LEMMA ArrangeFields ==
    ASSUME NEW s, Base(s), NEW O \in SUBSET Live(s)
    PROVE  LET t == Arrange(s, O)
           IN  /\ Calm(s, t) /\ t.out = s.out /\ t.kb_focus = s.kb_focus
               /\ t.focused_output = s.focused_output
               /\ \A w \in Window : w \notin Linked(s) \/ s.win[w].output \notin O
                                       => t.win[w] = s.win[w]
               /\ \A w \in Linked(s) : s.win[w].output \in O
                                          => t.win[w] = ArrangeWindow(s, w)
<1> DEFINE g == [w \in Window |->
                    IF w \notin Linked(s) \/ s.win[w].output \notin O THEN s.win[w]
                    ELSE IF Overviewed(s, s.win[w].output) THEN PicturedWindow(s, w)
                    ELSE ArrangeWindow(s, w)]
           c == s.crashed \/ \E o \in O :
                  FreedFront(s, o, IF Overviewed(s, o) THEN WS
                                   ELSE {s.out[o].active_workspace})
           t == Arrange(s, O)
<1>1. s \in ServerState /\ Linked(s) \subseteq Window
  BY BaseFields
<1>2. t = [s EXCEPT !.win = g, !.crashed = c]
  BY <1>1, Zenon DEF Arrange, ServerState
<1>3. \A w \in Linked(s) : ~Overviewed(s, s.win[w].output)
  BY BaseFields DEF Base, Plain, Overviewed
<1>4. /\ \A w \in Window : w \notin Linked(s) \/ s.win[w].output \notin O
                              => g[w] = s.win[w]
      /\ \A w \in Linked(s) : s.win[w].output \in O => g[w] = ArrangeWindow(s, w)
  BY <1>1, <1>3
<1> HIDE DEF g, c
<1>5. /\ t.out = s.out /\ t.kb_focus = s.kb_focus /\ t.win = g
      /\ t.focused_output = s.focused_output
  BY <1>1, <1>2 DEF ServerState
<1>6. Calm(s, t)
  BY <1>1, CalmArrange
<1> QED
  BY <1>4, <1>5, <1>6

\* A monitor that arrange_windows looks at shows the right windows after it, if those
\* that are not tiled were right.
LEMMA ArrangedPict ==
    ASSUME NEW s, Base(s), NEW O \in SUBSET Live(s), NEW o \in O, Loose(s, o)
    PROVE  Pict(Arrange(s, O), o)
<1> DEFINE t == Arrange(s, O)
<1>1. /\ Calm(s, t) /\ t.out = s.out
      /\ \A w \in Linked(s) : s.win[w].output = o => t.win[w] = ArrangeWindow(s, w)
  BY ArrangeFields
<1> HIDE DEF t
<1>2. /\ Linked(t) = Linked(s) /\ Linked(s) \subseteq Window
      /\ \A w \in Window : SamePlace(s.win[w], t.win[w])
  BY <1>1, CalmKeeps, BaseFields
<1>3. /\ ActiveLayout(t, o) = ActiveLayout(s, o) /\ LastActive(t, o) = LastActive(s, o)
      /\ Mine(t, o) = Mine(s, o)
  BY <1>1, <1>2 DEF ActiveLayout, LastActive, Mine, SamePlace
<1>4. \A w \in Mine(s, o) : /\ "sticky" \notin s.win[w].flags
                            /\ s.win[w].in_scratchpad = FALSE
  BY <1>2 DEF Mine, Base, Plain, Simple
<1>5. \A w \in Mine(s, o) : "sticky" \notin t.win[w].flags
  <2> SUFFICES ASSUME NEW w \in Mine(s, o)
               PROVE  "sticky" \notin t.win[w].flags
    OBVIOUS
  <2>1. w \in Linked(s) /\ t.win[w] = ArrangeWindow(s, w)
    BY <1>1 DEF Mine
  <2>2. "sticky" \in ArrangeWindow(s, w).flags => "sticky" \in s.win[w].flags
    BY <2>1, ArrangedWindow
  <2> QED
    BY <1>4, <2>1, <2>2
<1>6. \A w \in Mine(s, o) : OnActive(t, w, o) <=> OnActive(s, w, o)
  BY <1>1, <1>2, <1>4, <1>5 DEF OnActive, Mine, SamePlace
<1>7. \A w \in Mine(s, o) : /\ w \in Tiled(s, o) <=> OnActive(s, w, o) /\ s.win[w].flags = {}
                            /\ w \in Tiled(t, o) => OnActive(t, w, o) /\ t.win[w].flags = {}
                            /\ OnActive(t, w, o) /\ t.win[w].flags = {} => w \in Tiled(t, o)
  <2> SUFFICES ASSUME NEW w \in Mine(s, o)
               PROVE  /\ w \in Tiled(s, o) <=> OnActive(s, w, o) /\ s.win[w].flags = {}
                      /\ w \in Tiled(t, o) => OnActive(t, w, o) /\ t.win[w].flags = {}
                      /\ OnActive(t, w, o) /\ t.win[w].flags = {} => w \in Tiled(t, o)
    OBVIOUS
  <2>1. w \in Linked(s) /\ w \in Linked(t) /\ w \in Window
    BY <1>2 DEF Mine
  <2>2. "sticky" \notin t.win[w].flags
    BY <1>5
  <2>3. t.win[w].in_scratchpad = FALSE
    BY <1>2, <1>4, <2>1 DEF SamePlace
  <2>4. w \in Tiled(t, o) => OnActive(t, w, o) /\ t.win[w].flags = {}
    BY <2>2 DEF Tiled
  <2>5. OnActive(t, w, o) /\ t.win[w].flags = {} => w \in Tiled(t, o)
    BY <2>1, <2>3 DEF Tiled
  <2> QED
    BY <2>1, <2>4, <2>5, OnActivePlain
<1>8. Tiled(s, o) \subseteq Mine(s, o) /\ Tiled(t, o) \subseteq Mine(t, o)
  BY DEF Tiled, Mine, OnActive
<1>9. \A w \in Mine(s, o) : w \notin Tiled(s, o) => (s.win[w].enabled = TRUE <=> OnActive(s, w, o))
  BY DEF Loose
<1>10. CASE ActiveLayout(s, o) = "float"
  <2>1. ASSUME NEW w \in Mine(s, o)
        PROVE  /\ w \notin Tiled(t, o)
               /\ t.win[w].enabled = TRUE <=> OnActive(t, w, o)
    <3>1. w \in Linked(s) /\ s.win[w].output = o /\ t.win[w] = ArrangeWindow(s, w)
      BY <1>1, <2>1 DEF Mine
    <3>2. \/ t.win[w] = s.win[w] /\ w \notin Tiled(s, o)
          \/ OnActive(s, w, o) /\ "floating" \in t.win[w].flags /\ t.win[w].enabled = TRUE
      BY <1>10, <3>1, ArrangedWindow
    <3>3. CASE t.win[w] = s.win[w] /\ w \notin Tiled(s, o)
      BY <1>6, <1>7, <1>9, <2>1, <3>3
    <3>4. CASE OnActive(s, w, o) /\ "floating" \in t.win[w].flags /\ t.win[w].enabled = TRUE
      BY <1>6, <1>7, <2>1, <3>4
    <3> QED
      BY <3>2, <3>3, <3>4
  <2>2. Loose(t, o) /\ Tiled(t, o) = {}
    BY <1>3, <1>8, <2>1 DEF Loose
  <2>3. Pict(t, o)
    BY <1>3, <1>10, <2>2 DEF Pict
  <2> QED
    BY <2>3 DEF t
<1>11. CASE ActiveLayout(s, o) # "float"
  <2>1. ASSUME NEW w \in Mine(s, o)
        PROVE  /\ t.win[w].flags = s.win[w].flags
               /\ w \notin Tiled(s, o) => t.win[w] = s.win[w]
               /\ w \in Tiled(s, o) =>
                     (t.win[w].enabled = TRUE <=> (ActiveLayout(s, o) = "tabbed"
                                                     => FrontWindow(s, o) = w))
    <3>1. w \in Linked(s) /\ s.win[w].output = o /\ t.win[w] = ArrangeWindow(s, w)
      BY <1>1, <2>1 DEF Mine
    <3>2. /\ ActiveLayout(s, o) # "float" /\ w \notin Tiled(s, o)
                => ArrangeWindow(s, w) = s.win[w]
          /\ ActiveLayout(s, o) # "float" /\ w \in Tiled(s, o) =>
                /\ ArrangeWindow(s, w).flags = s.win[w].flags
                /\ ArrangeWindow(s, w).enabled = TRUE
                      <=> (ActiveLayout(s, o) = "tabbed" => FrontWindow(s, o) = w)
      BY <3>1, ArrangedWindow
    <3>3. CASE w \in Tiled(s, o)
      BY <1>11, <3>1, <3>2, <3>3
    <3>4. CASE w \notin Tiled(s, o)
      BY <1>11, <3>1, <3>2, <3>4
    <3> QED
      BY <3>3, <3>4
  <2>2. Tiled(t, o) = Tiled(s, o)
    BY <1>3, <1>6, <1>7, <1>8, <2>1
  <2>3. Loose(t, o)
    BY <1>3, <1>6, <1>9, <2>1, <2>2 DEF Loose
  <2>4. ActiveLayout(s, o) # "tabbed" => \A w \in Tiled(s, o) : t.win[w].enabled = TRUE
    BY <1>8, <2>1
  <2>5. ASSUME ActiveLayout(s, o) = "tabbed", Tiled(s, o) # {}
        PROVE  Fronted(t, o)
    <3> DEFINE f == FrontWindow(s, o)
    <3>1. f \in Tiled(s, o) /\ (LastActive(s, o) \in Tiled(s, o) => f = LastActive(s, o))
      BY <2>5, FrontTiled
    <3>2. \A v \in Tiled(s, o) : t.win[v].enabled = TRUE <=> v = f
      BY <1>8, <2>1, <2>5
    <3> HIDE DEF f
    <3> QED
      BY <1>3, <2>2, <3>1, <3>2 DEF Fronted
  <2>6. Pict(t, o)
    BY <1>3, <2>2, <2>3, <2>4, <2>5 DEF Pict
  <2> QED
    BY <2>6 DEF t
<1> QED
  BY <1>10, <1>11

\* The window with the keyboard is on the screen, and its workspace remembers it.
KeyboardRight(s) ==
    LET w == s.kb_focus
    IN  w \in Window =>
            /\ w \in Linked(s)
            /\ OnActive(s, w, s.win[w].output)
            /\ s.out[s.win[w].output].last_focused[s.win[w].workspace] = w

\* It stays right where the keyboard does not go to another window, and none is
\* forgotten.
LEMMA KeyboardMild ==
    ASSUME NEW s, NEW t, Base(s), Mild(s, t), KeyboardRight(s),
           t.kb_focus = s.kb_focus,
           \A o \in Output : t.out[o].last_focused = s.out[o].last_focused
    PROVE  KeyboardRight(t)
<1> DEFINE w == s.kb_focus
           o == s.win[w].output
<1> SUFFICES ASSUME w \in Window
             PROVE  KeyboardRight(t)
  BY DEF KeyboardRight
<1>1. /\ w \in Linked(s) /\ OnActive(s, w, o)
      /\ s.out[o].last_focused[s.win[w].workspace] = w
  BY DEF KeyboardRight
<1>2. Base(t) /\ Linked(t) = Linked(s) /\ SamePlace(s.win[w], t.win[w])
  BY MildBase, CalmKeeps DEF Mild
<1>3. o \in Output
  BY <1>1, BaseFields
<1>4. t.win[w].output = o /\ t.win[w].workspace = s.win[w].workspace
  BY <1>2 DEF SamePlace
<1>5. s.win[w].workspace = s.out[o].active_workspace
  <2>1. \A v \in Linked(s) : \A p : OnActive(s, v, p)
           => s.win[v].workspace = s.out[p].active_workspace
    BY OnActivePlain
  <2> QED
    BY <1>1, <2>1
<1>6. t.win[w].workspace = t.out[o].active_workspace
  BY <1>3, <1>4, <1>5 DEF Mild
<1>7. OnActive(t, w, o)
  BY <1>4, <1>6 DEF OnActive
<1>8. t.kb_focus = w
  OBVIOUS
<1> HIDE DEF w, o
<1> QED
  BY <1>1, <1>2, <1>3, <1>4, <1>7, <1>8 DEF KeyboardRight

\* A monitor whose windows do not change, and whose workspace and layouts stay, is
\* kept as it is, unless it remembers another tab.
LEMMA SteadyAlike ==
    ASSUME NEW s, NEW t, Base(s), Mild(s, t), NEW p \in Live(s),
           \A w \in Linked(s) : s.win[w].output = p => t.win[w] = s.win[w]
    PROVE  /\ Loose(s, p) => Loose(t, p)
           /\ \/ ActiveLayout(s, p) # "tabbed"
              \/ LastActive(t, p) \in Tiled(s, p) => LastActive(t, p) = LastActive(s, p)
              => Steady(s, t, p)
<1>1. Linked(t) = Linked(s) /\ Linked(s) \subseteq Window
  BY MildBase, BaseFields
<1>2. \A w \in Window : SamePlace(s.win[w], t.win[w])
  BY CalmKeeps DEF Mild
<1>3. \A w \in Window : t.win[w].output = s.win[w].output
  BY <1>2 DEF SamePlace
<1>4. p \in Output
  BY BaseFields
<1>5. Alike(s, t, p)
  BY <1>1, <1>3, <1>4 DEF Alike, Mine, Mild
<1> QED
  BY <1>5, AlikePict DEF Steady

\* arrange_windows is tame, leaves the focus alone, and makes a monitor show the right
\* windows.
LEMMA TameArrange ==
    ASSUME NEW s, Base(s), NEW O \in SUBSET Live(s)
    PROVE  LET t == Arrange(s, O)
           IN  /\ Tame(s, t) /\ Base(t)
               /\ t.kb_focus = s.kb_focus /\ t.focused_output = s.focused_output
               /\ t.out = s.out
               /\ KeyboardRight(s) => KeyboardRight(t)
               /\ \A o \in O : Loose(s, o) => Pict(t, o)
<1> DEFINE t == Arrange(s, O)
<1>1. /\ Calm(s, t) /\ t.out = s.out /\ t.kb_focus = s.kb_focus
      /\ t.focused_output = s.focused_output
      /\ \A w \in Window : w \notin Linked(s) \/ s.win[w].output \notin O
                              => t.win[w] = s.win[w]
      /\ \A w \in Linked(s) : s.win[w].output \in O
                                 => t.win[w] = ArrangeWindow(s, w)
  BY ArrangeFields
<1>2. \A o \in O : Loose(s, o) => Pict(t, o)
  BY ArrangedPict
<1> HIDE DEF t
<1>3. Mild(s, t)
  <2>1. ASSUME NEW w \in Window, "sticky" \in t.win[w].flags
        PROVE  "sticky" \in s.win[w].flags
    <3>1. CASE w \notin Linked(s) \/ s.win[w].output \notin O
      BY <1>1, <2>1, <3>1
    <3>2. CASE w \in Linked(s) /\ s.win[w].output \in O
      <4>1. t.win[w] = ArrangeWindow(s, w)
        BY <1>1, <3>2
      <4>2. "sticky" \in ArrangeWindow(s, w).flags => "sticky" \in s.win[w].flags
        BY <3>2, ArrangedWindow
      <4> QED
        BY <2>1, <4>1, <4>2
    <3> QED
      BY <3>1, <3>2
  <2> QED
    BY <1>1, <2>1 DEF Mild
<1>4. ASSUME NEW p \in Live(s)
      PROVE  Steady(s, t, p)
  <2>1. CASE p \in O
    BY <1>2, <2>1 DEF Steady, Pict
  <2>2. CASE p \notin O
    <3>1. \A w \in Linked(s) : s.win[w].output = p => t.win[w] = s.win[w]
      BY <1>1, <2>2, BaseFields
    <3>2. LastActive(t, p) = LastActive(s, p)
      BY <1>1 DEF LastActive
    <3> QED
      BY <1>3, <3>1, <3>2, SteadyAlike
  <2> QED
    BY <2>1, <2>2
<1>5. Tame(s, t) /\ Base(t)
  BY <1>3, <1>4, MildBase DEF Tame
<1>6. KeyboardRight(s) => KeyboardRight(t)
  BY <1>1, <1>3, KeyboardMild
<1> QED
  BY <1>1, <1>2, <1>5, <1>6 DEF t

----------------------------------------------------------------------------
(* Focus *)

\* Only the keyboard or the focused output is assigned.
LEMMA TameFields ==
    ASSUME NEW s, Base(s), NEW t, Calm(s, t), t.win = s.win, t.out = s.out
    PROVE  /\ Tame(s, t) /\ Base(t)
           /\ t.kb_focus = s.kb_focus /\ KeyboardRight(s) => KeyboardRight(t)
           /\ t.kb_focus = NoWindow => KeyboardRight(t)
<1>1. Mild(s, t)
  BY DEF Mild
<1>2. ASSUME NEW p \in Live(s)
      PROVE  Steady(s, t, p)
  BY <1>1, SteadyAlike DEF LastActive
<1>3. Base(t) /\ Tame(s, t)
  BY <1>1, <1>2, MildBase DEF Tame
<1>4. t.kb_focus = s.kb_focus /\ KeyboardRight(s) => KeyboardRight(t)
  BY <1>1, KeyboardMild
<1>5. t.kb_focus = NoWindow => KeyboardRight(t)
  BY NullAssumption DEF KeyboardRight
<1> QED
  BY <1>3, <1>4, <1>5

\* wlr_seat_keyboard_notify_enter, or clear_focus.
LEMMA TameKeyboard ==
    ASSUME NEW s, Base(s), NEW w \in Linked(s) \cup {NoWindow}
    PROVE  LET t == [s EXCEPT !.kb_focus = w]
           IN  /\ Tame(s, t) /\ Base(t) /\ t.kb_focus = w
               /\ t.out = s.out /\ t.win = s.win
               /\ t.focused_output = s.focused_output
               /\ w = NoWindow => KeyboardRight(t)
<1> DEFINE t == [s EXCEPT !.kb_focus = w]
<1>1. s \in ServerState /\ w \in Window \cup {NoWindow}
  BY BaseFields
<1>2. Calm(s, t)
  BY <1>1, CalmFields
<1>3. /\ t.kb_focus = w /\ t.out = s.out /\ t.win = s.win
      /\ t.focused_output = s.focused_output
  BY <1>1 DEF ServerState
<1> HIDE DEF t
<1>4. Tame(s, t) /\ Base(t) /\ (w = NoWindow => KeyboardRight(t))
  BY <1>2, <1>3, TameFields
<1> QED
  BY <1>3, <1>4 DEF t

\* The focused output is assigned.
LEMMA TameRefocus ==
    ASSUME NEW s, Base(s), NEW o \in Live(s)
    PROVE  LET t == [s EXCEPT !.focused_output = o]
           IN  /\ Tame(s, t) /\ Base(t) /\ t.kb_focus = s.kb_focus
               /\ t.out = s.out /\ t.win = s.win
               /\ KeyboardRight(s) => KeyboardRight(t)
<1> DEFINE t == [s EXCEPT !.focused_output = o]
<1>1. s \in ServerState
  BY BaseFields
<1>2. Calm(s, t)
  BY <1>1, CalmFields
<1>3. t.kb_focus = s.kb_focus /\ t.out = s.out /\ t.win = s.win
  BY <1>1 DEF ServerState
<1> HIDE DEF t
<1>4. Tame(s, t) /\ Base(t) /\ (KeyboardRight(s) => KeyboardRight(t))
  BY <1>2, <1>3, TameFields
<1> QED
  BY <1>3, <1>4 DEF t

\* last_focused of a workspace is assigned.
Remembers(s, t, o, ws, w) == t = [s EXCEPT !.out[o].last_focused[ws] = w]

\* It tells what is in front of a tabbed one.
LEMMA MildRemember ==
    ASSUME NEW s, Base(s), NEW o \in Live(s), NEW ws \in WS,
           NEW w \in Window \cup {NoWindow}, Owns(s, o, ws, w),
           NEW t, Remembers(s, t, o, ws, w)
    PROVE  /\ Mild(s, t) /\ Base(t) /\ t.win = s.win
           /\ t.kb_focus = s.kb_focus /\ t.focused_output = s.focused_output
           /\ t.out[o].last_focused[ws] = w
           /\ \A p \in Output, v \in WS : p # o \/ v # ws =>
                 t.out[p].last_focused[v] = s.out[p].last_focused[v]
           /\ \A p \in Live(s) : Loose(s, p) => Loose(t, p)
           /\ \A p \in Live(s) :
                 p # o \/ ActiveLayout(s, o) # "tabbed" \/ w = NoWindow
                    => Steady(s, t, p)
<1> DEFINE g == [s.out EXCEPT ![o].last_focused[ws] = w]
<1>1. s \in ServerState /\ Live(s) \subseteq Output
  BY BaseFields
<1>2. s.out \in [Output -> OutputState] /\ s.out[o] \in OutputState
  BY <1>1 DEF ServerState
<1>3. t = [s EXCEPT !.out = g]
  BY <1>1 DEF ServerState, Remembers
<1>4. g \in [Output -> OutputState]
  BY <1>1, <1>2 DEF OutputState
<1>5. \A p \in Output : /\ g[p].active_workspace = s.out[p].active_workspace
                        /\ g[p].layout_mode = s.out[p].layout_mode
                        /\ g[p].overview = s.out[p].overview
  BY <1>1, <1>2 DEF OutputState
<1>6. g[o].last_focused = [s.out[o].last_focused EXCEPT ![ws] = w]
  BY <1>1, <1>2 DEF OutputState
<1>7. \A p \in Output : p # o => g[p] = s.out[p]
  BY <1>1, <1>2
<1>8. s.out[o].last_focused \in [WS -> Window \cup {NoWindow}]
  BY <1>2 DEF OutputState
<1> HIDE DEF g
<1>9. /\ g[o].last_focused[ws] = w
      /\ \A p \in Output, v \in WS : p # o \/ v # ws =>
            g[p].last_focused[v] = s.out[p].last_focused[v]
  BY <1>6, <1>7, <1>8
<1>10. Calm(s, t)
  <2>1. \A p \in Live(s), v \in WS :
           \/ g[p].last_focused[v] = s.out[p].last_focused[v]
           \/ Owns(s, p, v, g[p].last_focused[v])
    <3> SUFFICES ASSUME NEW p \in Live(s), NEW v \in WS
                 PROVE  \/ g[p].last_focused[v] = s.out[p].last_focused[v]
                        \/ Owns(s, p, v, g[p].last_focused[v])
      OBVIOUS
    <3>1. CASE p = o /\ v = ws
      BY <1>9, <3>1
    <3>2. CASE p # o \/ v # ws
      BY <1>1, <1>9, <3>2
    <3> QED
      BY <3>1, <3>2
  <2>2. Calm(s, [s EXCEPT !.out = g])
    BY <1>1, <1>4, <2>1, CalmOut
  <2> QED
    BY <1>3, <2>2
<1>11. /\ t.win = s.win /\ t.kb_focus = s.kb_focus /\ t.out = g
       /\ t.focused_output = s.focused_output
  BY <1>1, <1>3 DEF ServerState
<1>12. Mild(s, t) /\ Base(t)
  BY <1>5, <1>10, <1>11, MildBase DEF Mild
<1>13. ASSUME NEW p \in Live(s)
       PROVE  /\ Loose(s, p) => Loose(t, p)
              /\ p # o \/ ActiveLayout(s, o) # "tabbed" \/ w = NoWindow
                    => Steady(s, t, p)
  <2>1. \A v \in Linked(s) : s.win[v].output = p => t.win[v] = s.win[v]
    BY <1>11
  <2>2. p # o => LastActive(t, p) = LastActive(s, p)
    BY <1>1, <1>7, <1>11 DEF LastActive
  <2>3. w = NoWindow => LastActive(t, o) \in {w, LastActive(s, o)}
    <3>1. s.out[o].active_workspace \in WS
      BY <1>2 DEF OutputState
    <3>2. g[o].active_workspace = s.out[o].active_workspace
      BY <1>1, <1>5
    <3> QED
      BY <1>1, <1>9, <1>11, <3>1, <3>2 DEF LastActive
  <2>4. NoWindow \notin Tiled(s, p)
    BY NullAssumption DEF Tiled, Linked
  <2>5. /\ Loose(s, p) => Loose(t, p)
        /\ \/ ActiveLayout(s, p) # "tabbed"
           \/ LastActive(t, p) \in Tiled(s, p) => LastActive(t, p) = LastActive(s, p)
           => Steady(s, t, p)
    BY <1>12, <2>1, SteadyAlike
  <2>6. CASE p # o
    BY <2>2, <2>5, <2>6
  <2>7. CASE p = o
    BY <2>3, <2>4, <2>5, <2>7
  <2> QED
    BY <2>6, <2>7
<1> QED
  BY <1>1, <1>9, <1>11, <1>12, <1>13

\* focus_toplevel of a window on the screen is tame, and the keyboard is right then.
LEMMA TameFocus ==
    ASSUME NEW s, Base(s), NEW w \in Linked(s), OnActive(s, w, s.win[w].output),
           s.kb_focus = w => KeyboardRight(s)
    PROVE  LET t == FocusToplevel(s, w)
           IN  Tame(s, t) /\ Base(t) /\ KeyboardRight(t)
<1> DEFINE o == s.win[w].output
           ws == s.win[w].workspace
           t == [s EXCEPT !.kb_focus = w]
           q == [t EXCEPT !.focused_output = o]
           u == [q EXCEPT !.out[o].last_focused[ws] = w]
           front == s.out[o].layout_mode[ws] \in {"tabbed", "scroll"}
           f == FocusToplevel(s, w)
<1>1. /\ s \in ServerState /\ w \in Window /\ o \in Live(s) /\ o \in Output
      /\ ~s.crashed /\ w # NoWindow /\ o # NoOutput
  BY BaseFields, NullAssumption
<1>2. CASE s.kb_focus = w
  <2>1. s.win[w].life # "free"
    BY DEF Linked
  <2>2. f = s
    BY <1>1, <1>2, <2>1 DEF FocusToplevel
  <2> QED
    BY <1>1, <1>2, <2>2, TameSame
<1>3. CASE s.kb_focus # w
  <2>1. s.win[w].life # "free"
    BY DEF Linked
  <2>2. s.win[w] \in Toplevel /\ ws \in WS
    BY <1>1 DEF ServerState, Toplevel
  <2>3. ~Overviewed(s, o)
    BY <1>1 DEF Base, Plain, Overviewed
  <2>4. u = [t EXCEPT !.focused_output = o, !.out[o].last_focused[ws] = w]
    OBVIOUS
  <2>5. f = IF front THEN ArrangeOutput(u, o) ELSE u
    <3> HIDE DEF u
    <3>1. f = LET y == [t EXCEPT !.focused_output = o, !.out[o].last_focused[ws] = w]
              IN  IF front \/ Overviewed(s, o) THEN ArrangeOutput(y, o) ELSE y
      BY <1>1, <1>3, <2>1 DEF FocusToplevel
    <3> QED
      BY <2>3, <2>4, <3>1
  <2>6. ws = s.out[o].active_workspace
    BY OnActivePlain
  <2>7. front \/ ActiveLayout(s, o) # "tabbed"
    BY <2>6 DEF ActiveLayout
  <2> HIDE DEF u, q, t, ws, o, front, f
  <2>8. /\ Tame(s, t) /\ Base(t) /\ t.kb_focus = w /\ t.out = s.out /\ t.win = s.win
    BY TameKeyboard DEF t
  <2>9. Live(t) = Live(s) /\ Linked(t) = Linked(s)
    BY <2>8, TameBase
  <2>10. Tame(t, q) /\ Base(q) /\ q.kb_focus = w /\ q.out = s.out /\ q.win = s.win
    BY <1>1, <2>8, <2>9, TameRefocus DEF q
  <2>11. Live(q) = Live(s) /\ Linked(q) = Linked(s)
    BY <2>8, <2>9, <2>10, TameBase
  <2>12. Owns(q, o, ws, w)
    BY <2>10, <2>11 DEF Owns, o, ws
  <2>13. /\ Mild(q, u) /\ Base(u) /\ u.win = q.win /\ u.kb_focus = w
         /\ u.out[o].last_focused[ws] = w
         /\ \A p \in Live(q) : Loose(q, p) => Loose(u, p)
         /\ \A p \in Live(q) : p # o \/ ActiveLayout(q, o) # "tabbed" => Steady(q, u, p)
    <3>1. /\ o \in Live(q) /\ w \in Window \cup {NoWindow}
          /\ Remembers(q, u, o, ws, w)
      BY <1>1, <2>11 DEF u, Remembers
    <3>2. /\ Mild(q, u) /\ Base(u) /\ u.win = q.win
          /\ u.kb_focus = q.kb_focus
          /\ u.out[o].last_focused[ws] = w
          /\ \A p \in Live(q) : Loose(q, p) => Loose(u, p)
          /\ \A p \in Live(q) :
                p # o \/ ActiveLayout(q, o) # "tabbed" \/ w = NoWindow
                   => Steady(q, u, p)
      BY <2>2, <2>10, <2>12, <3>1, MildRemember
    <3> QED
      BY <2>10, <3>2
  <2>14. ActiveLayout(q, o) = ActiveLayout(s, o)
    BY <2>10 DEF ActiveLayout
  <2>15. Live(u) = Live(s) /\ Linked(u) = Linked(s)
    BY <2>10, <2>11, <2>13, MildBase
  <2>16. KeyboardRight(u)
    <3>1. u.win[w] = s.win[w] /\ w \in Linked(u)
      BY <2>10, <2>13, <2>15
    <3>2. u.out[o].active_workspace = s.out[o].active_workspace
      BY <1>1, <2>10, <2>13 DEF Mild
    <3>3. OnActive(u, w, o)
      BY <2>6, <3>1, <3>2 DEF OnActive, o, ws
    <3> QED
      BY <2>13, <3>1, <3>3 DEF KeyboardRight, o, ws
  <2>17. Tame(s, q)
    BY <2>8, <2>10, TameChain
  <2>18. CASE ActiveLayout(s, o) # "tabbed"
    <3>1. Tame(q, u)
      BY <2>13, <2>14, <2>18 DEF Tame
    <3>2. Tame(s, u)
      BY <2>17, <3>1, TameChain
    <3>3. CASE ~front
      <4>1. f = u
        BY <2>5, <3>3
      <4> QED
        BY <2>13, <2>16, <3>2, <4>1 DEF f
    <3>4. CASE front
      <4>1. f = Arrange(u, {o})
        BY <1>1, <2>5, <2>15, <3>4 DEF ArrangeOutput
      <4>2. Tame(u, f) /\ Base(f) /\ (KeyboardRight(u) => KeyboardRight(f))
        BY <1>1, <2>13, <2>15, <4>1, TameArrange
      <4>3. Tame(s, f)
        BY <3>2, <4>2, TameChain
      <4> QED
        BY <2>16, <4>2, <4>3 DEF f
    <3> QED
      BY <3>3, <3>4
  <2>19. CASE ActiveLayout(s, o) = "tabbed"
    <3>1. f = Arrange(u, {o})
      BY <1>1, <2>5, <2>7, <2>15, <2>19 DEF ArrangeOutput
    <3>2. /\ Tame(u, f) /\ Base(f) /\ (KeyboardRight(u) => KeyboardRight(f))
          /\ Loose(u, o) => Pict(f, o)
      BY <1>1, <2>13, <2>15, <3>1, TameArrange
    <3>3. Mild(q, f)
      BY <2>13, <3>2, CalmChain DEF Tame, Mild
    <3>4. ASSUME NEW p \in Live(q)
          PROVE  Steady(q, f, p)
      <4>1. CASE p # o
        <5>1. Steady(q, u, p)
          BY <2>13, <4>1
        <5>2. Steady(u, f, p)
          BY <2>11, <2>15, <3>2 DEF Tame
        <5> QED
          BY <5>1, <5>2 DEF Steady
      <4>2. CASE p = o
        <5>1. Loose(q, o) => Loose(u, o)
          BY <2>13, <4>2
        <5> QED
          BY <3>2, <4>2, <5>1 DEF Steady, Pict
      <4> QED
        BY <4>1, <4>2
    <3>5. Tame(q, f)
      BY <3>3, <3>4 DEF Tame
    <3>6. Tame(s, f)
      BY <2>17, <3>5, TameChain
    <3> QED
      BY <2>16, <3>2, <3>6 DEF f
  <2> QED
    BY <2>18, <2>19
<1> QED
  BY <1>2, <1>3

\* A walk among the windows on the screen of a monitor ends at one of them.
LEMMA WalkOnScreen ==
    ASSUME NEW s, Base(s), NEW o \in Live(s), NEW S,
           S = Tiled(s, o) \/ S = Floats(s, o), NEW v
    PROVE  \A w \in {FirstIn(s, S), LastIn(s, S), NextIn(s, S, v), PrevIn(s, S, v)} :
              \/ w = NoWindow
              \/ w \in Linked(s) /\ w \in S /\ OnActive(s, w, s.win[w].output)
                 /\ s.win[w].output = o
<1>1. \A w \in S : w \in Linked(s) /\ OnActive(s, w, o) /\ s.win[w].output = o
  BY DEF Tiled, Floats, OnActive
<1>2. \A w \in {FirstIn(s, S), LastIn(s, S), NextIn(s, S, v), PrevIn(s, S, v)} :
         w \in S \cup {NoWindow}
  BY BaseFields, Walks
<1> QED
  BY <1>1, <1>2

\* Focusing a window on the screen, or clearing the focus.
LEMMA TameFocusOrClear ==
    ASSUME NEW s, Base(s), NEW w,
           \/ w = NoWindow
           \/ w \in Linked(s) /\ OnActive(s, w, s.win[w].output),
           w # NoWindow /\ s.kb_focus = w => KeyboardRight(s)
    PROVE  LET t == FocusOrClear(s, w)
           IN  Tame(s, t) /\ Base(t) /\ KeyboardRight(t)
<1>1. CASE w = NoWindow
  <2>1. FocusOrClear(s, w) = [s EXCEPT !.kb_focus = NoWindow]
    BY <1>1 DEF FocusOrClear, ClearFocus
  <2> QED
    BY <2>1, TameKeyboard
<1>2. CASE w # NoWindow
  <2>1. FocusOrClear(s, w) = FocusToplevel(s, w)
    BY <1>2 DEF FocusOrClear
  <2> QED
    BY <1>2, <2>1, TameFocus
<1> QED
  BY <1>1, <1>2

\* The fallback to the remembered window of a workspace, while the keyboard is on a
\* window that is not on the screen.
LEMMA TameFocusActive ==
    ASSUME NEW s, Base(s), NEW o \in Live(s),
           KeyboardRight(s) \/ ~OnActive(s, s.kb_focus, o)
    PROVE  LET t == FocusActive(s, o)
           IN  Tame(s, t) /\ Base(t) /\ KeyboardRight(t)
<1> DEFINE last == LastActive(s, o)
           first == FirstIn(s, Tiled(s, o))
           w == Or(last, first)
<1>1. FocusActive(s, o) = FocusOrClear(s, w)
  BY DEF FocusActive, LastActive
<1>2. \/ last = NoWindow
      \/ last \in Linked(s) /\ OnActive(s, last, o) /\ s.win[last].output = o
  <2>1. o \in Output /\ s.out[o] \in OutputState
    BY BaseFields DEF ServerState
  <2>2. s.out[o].active_workspace \in WS
    BY <2>1 DEF OutputState
  <2>3. Owns(s, o, s.out[o].active_workspace, last)
    BY <2>2, BaseFields DEF Remembered, LastActive
  <2> QED
    BY <2>3 DEF Owns, OnActive
<1>3. \/ first = NoWindow
      \/ first \in Linked(s) /\ OnActive(s, first, o) /\ s.win[first].output = o
  BY WalkOnScreen
<1> HIDE DEF last, first
<1>4. \/ w = NoWindow
      \/ w \in Linked(s) /\ OnActive(s, w, o) /\ s.win[w].output = o
  BY <1>2, <1>3 DEF Or
<1> HIDE DEF w
<1> QED
  BY <1>1, <1>4, TameFocusOrClear

\* Emptying last_focused before a window moves.
LEMMA TameForget ==
    ASSUME NEW s, Base(s), NEW w \in Linked(s)
    PROVE  LET t == ForgetFocus(s, s.win[w].output, w)
           IN  Tame(s, t) /\ Base(t)
<1> DEFINE o == s.win[w].output
           ws == s.win[w].workspace
           t == ForgetFocus(s, o, w)
<1>1. /\ s \in ServerState /\ o \in Live(s) /\ w \in Window
  BY BaseFields
<1>2. s.win[w] \in Toplevel /\ ws \in WS
  BY <1>1 DEF ServerState, Toplevel
<1>3. \/ t = s
      \/ t = [s EXCEPT !.out[o].last_focused[ws] = NoWindow]
  BY DEF ForgetFocus
<1> HIDE DEF ws
<1>4. CASE t = s
  BY <1>1, <1>4, TameSame
<1>5. CASE t = [s EXCEPT !.out[o].last_focused[ws] = NoWindow]
  <2>1. Owns(s, o, ws, NoWindow) /\ Remembers(s, t, o, ws, NoWindow)
    BY <1>5 DEF Owns, Remembers
  <2> HIDE DEF t
  <2> HIDE DEF o
  <2>2. /\ Mild(s, t) /\ Base(t)
        /\ \A p \in Live(s) : Steady(s, t, p)
    BY <1>1, <1>2, <2>1, MildRemember
  <2> QED
    BY <2>2 DEF Tame, o, t
<1> QED
  BY <1>3, <1>4, <1>5

----------------------------------------------------------------------------
(* Callbacks *)

\* The screen is right; or is but for the windows of O, that are to be arranged.
Right(s) == Base(s) /\ KeyboardRight(s) /\ \A p \in Live(s) : Pict(s, p)
Nearly(s, O) ==
    /\ Base(s)
    /\ \A p \in Live(s) : Loose(s, p) /\ (p \notin O => Pict(s, p))

\* What tame steps make of it, and arrange_windows.
LEMMA RightTame ==
    ASSUME NEW s, NEW t, Tame(s, t)
    PROVE  /\ Right(s) /\ KeyboardRight(t) => Right(t)
           /\ \A O : Nearly(s, O) => Nearly(t, O)
           /\ Right(s) => \A O : Nearly(s, O)
<1>1. Base(s) => Base(t) /\ Live(t) = Live(s)
  BY TameBase
<1>2. \A p \in Live(s) : Steady(s, t, p)
  BY DEF Tame
<1>3. Right(s) /\ KeyboardRight(t) => Right(t)
  BY <1>1, <1>2 DEF Right, Steady
<1>4. ASSUME NEW O, Nearly(s, O)
      PROVE  Nearly(t, O)
  BY <1>1, <1>2, <1>4 DEF Nearly, Steady
<1>5. Right(s) => \A O : Nearly(s, O)
  BY DEF Right, Nearly, Pict
<1> QED
  BY <1>3, <1>4, <1>5

\* When the windows that are not right are arranged, all are.
LEMMA RightArrange ==
    ASSUME NEW s, NEW O \in SUBSET Live(s), Nearly(s, O), KeyboardRight(s)
    PROVE  Right(Arrange(s, O))
<1> DEFINE t == Arrange(s, O)
<1>1. Base(s)
  BY DEF Nearly
<1>2. /\ Tame(s, t) /\ Base(t) /\ KeyboardRight(t)
      /\ \A o \in O : Loose(s, o) => Pict(t, o)
  BY <1>1, TameArrange
<1> HIDE DEF t
<1>3. Live(t) = Live(s)
  BY <1>1, <1>2, TameBase
<1>4. \A p \in Live(s) : Pict(t, p)
  BY <1>2 DEF Tame, Steady, Nearly
<1>5. Right(t)
  BY <1>2, <1>3, <1>4 DEF Right
<1> QED
  BY <1>5 DEF t

\* The same, of one monitor.
LEMMA RightArrangeOutput ==
    ASSUME NEW s, NEW o \in Live(s), Nearly(s, {o}), KeyboardRight(s)
    PROVE  Right(ArrangeOutput(s, o))
<1>1. o # NoOutput
  BY BaseFields, NullAssumption DEF Nearly
<1>2. ArrangeOutput(s, o) = Arrange(s, {o})
  BY <1>1 DEF ArrangeOutput
<1>3. {o} \in SUBSET Live(s)
  OBVIOUS
<1> QED
  BY <1>2, <1>3, RightArrange

\* Focusing a window on the screen keeps the screen right, and so does doing nothing.
LEMMA RightFocus ==
    ASSUME NEW s, Right(s), NEW w,
           w = NoWindow \/ (w \in Linked(s) /\ OnActive(s, w, s.win[w].output))
    PROVE  Right(FocusToplevel(s, w)) /\ Right(FocusOrClear(s, w))
<1>1. Base(s) /\ KeyboardRight(s)
  BY DEF Right
<1>2. CASE w = NoWindow
  <2>1. FocusToplevel(s, w) = s
    BY <1>2 DEF FocusToplevel
  <2>2. Tame(s, FocusOrClear(s, w)) /\ KeyboardRight(FocusOrClear(s, w))
    BY <1>1, <1>2, TameFocusOrClear
  <2> QED
    BY <2>1, <2>2, RightTame
<1>3. CASE w # NoWindow
  <2>1. Tame(s, FocusToplevel(s, w)) /\ KeyboardRight(FocusToplevel(s, w))
    BY <1>1, <1>3, TameFocus
  <2>2. FocusOrClear(s, w) = FocusToplevel(s, w)
    BY <1>3 DEF FocusOrClear
  <2> QED
    BY <2>1, <2>2, RightTame
<1> QED
  BY <1>2, <1>3

\* The window with the keyboard shows.
LEMMA RightKeyboard ==
    ASSUME NEW s, Right(s), NEW w \in Linked(s), s.kb_focus = w
    PROVE  /\ OnActive(s, w, s.win[w].output)
           /\ s.out[s.win[w].output].last_focused[s.win[w].workspace] = w
           /\ s.win[w].enabled = TRUE
<1> DEFINE o == s.win[w].output
<1>1. w \in Window /\ o \in Live(s)
  BY BaseFields DEF Right
<1>2. OnActive(s, w, o) /\ s.out[o].last_focused[s.win[w].workspace] = w
  BY <1>1 DEF Right, KeyboardRight
<1>3. Pict(s, o) /\ w \in Mine(s, o)
  BY <1>1 DEF Right, Mine
<1>4. s.win[w].enabled = TRUE
  <2>1. CASE w \notin Tiled(s, o)
    BY <1>2, <1>3, <2>1 DEF Pict, Loose
  <2>2. CASE w \in Tiled(s, o) /\ ActiveLayout(s, o) # "tabbed"
    BY <1>3, <2>2 DEF Pict
  <2>3. CASE w \in Tiled(s, o) /\ ActiveLayout(s, o) = "tabbed"
    <3>1. \A v \in Linked(s) : \A p : OnActive(s, v, p)
             => s.win[v].workspace = s.out[p].active_workspace
      BY OnActivePlain DEF Right
    <3>2. LastActive(s, o) = w
      BY <1>2, <3>1 DEF LastActive
    <3>3. Fronted(s, o)
      BY <1>3, <2>3 DEF Pict
    <3> QED
      BY <2>3, <3>2, <3>3 DEF Fronted
  <2> QED
    BY <2>1, <2>2, <2>3
<1> QED
  BY <1>2, <1>4

\* focus::left .. focus::mode_toggle
LEMMA RightFocusCommands ==
    ASSUME NEW s, Right(s)
    PROVE  /\ Right(FocusLeft(s)) /\ Right(FocusRight(s))
           /\ Right(FocusNext(s)) /\ Right(FocusPrev(s))
           /\ Right(FocusNextFloat(s)) /\ Right(FocusPrevFloat(s))
           /\ Right(FocusOtherMode(s))
<1> DEFINE o == s.focused_output
           T == Tiled(s, o)
           F == Floats(s, o)
           Seen(w) == w = NoWindow \/ (w \in Linked(s) /\ OnActive(s, w, s.win[w].output))
<1>1. Base(s) /\ o \in Live(s) /\ o # NoOutput /\ ~PadShown(s)
  BY BaseFields, NullAssumption DEF Right, Base, Plain, PadShown
<1>2. Walked(s) = T /\ WalkedFloats(s) = F
  BY <1>1 DEF Walked, WalkedFloats
<1>3. \A S \in {T, F} : \A v :
         /\ Seen(FirstIn(s, S)) /\ Seen(LastIn(s, S))
         /\ Seen(NextIn(s, S, v)) /\ Seen(PrevIn(s, S, v))
  <2> SUFFICES ASSUME NEW S \in {T, F}, NEW v
               PROVE  /\ Seen(FirstIn(s, S)) /\ Seen(LastIn(s, S))
                      /\ Seen(NextIn(s, S, v)) /\ Seen(PrevIn(s, S, v))
    OBVIOUS
  <2>1. S = Tiled(s, o) \/ S = Floats(s, o)
    OBVIOUS
  <2>2. \A w \in {FirstIn(s, S), LastIn(s, S), NextIn(s, S, v), PrevIn(s, S, v)} : Seen(w)
    BY <1>1, <2>1, WalkOnScreen
  <2> HIDE DEF Seen
  <2> QED
    BY <2>2
<1>4. \A w : Seen(w) => Right(FocusToplevel(s, w))
  BY RightFocus
<1>5. Seen(NoWindow)
  OBVIOUS
<1> HIDE DEF Seen, T, F, o
<1>6. \A S \in {T, F} : Seen(Following(s, S)) /\ Seen(Preceding(s, S))
  BY <1>3, <1>5 DEF Following, Preceding, Or
<1>7. Right(FocusLeft(s))
  BY <1>2, <1>3, <1>4 DEF FocusLeft
<1>8. Right(FocusRight(s))
  BY <1>2, <1>3, <1>4 DEF FocusRight
<1>9. Right(FocusNext(s)) /\ Right(FocusPrev(s))
  BY <1>2, <1>4, <1>6 DEF FocusNext, FocusPrev
<1>10. Right(FocusNextFloat(s)) /\ Right(FocusPrevFloat(s))
  BY <1>2, <1>4, <1>6 DEF FocusNextFloat, FocusPrevFloat
<1>11. Right(FocusOtherMode(s))
  BY <1>2, <1>3, <1>4 DEF FocusOtherMode
<1> QED
  BY <1>7, <1>8, <1>9, <1>10, <1>11

\* A click lands on a window on the screen or on its tab, and both are on an active
\* workspace.
LEMMA RightClick ==
    ASSUME NEW s, Right(s), NEW w \in Clickable(s)
    PROVE  Right(FocusToplevel(s, w))
<1>1. Base(s)
  BY DEF Right
<1>2. w \in Linked(s) /\ OnActive(s, w, s.win[w].output)
  <2>1. CASE w \in OnScreen(s)
    <3>1. w \in Linked(s) /\ s.win[w].enabled
      BY <2>1 DEF OnScreen, Shown
    <3>2. s.win[w] \in Toplevel
      BY <1>1, <3>1, BaseFields DEF ServerState
    <3>3. s.win[w].enabled = TRUE
      BY <3>1, <3>2 DEF Toplevel
    <3>4. s.win[w].output \in Live(s) /\ w \in Mine(s, s.win[w].output)
      BY <1>1, <3>1, BaseFields DEF Mine
    <3>5. Loose(s, s.win[w].output)
      BY <3>4 DEF Right, Pict
    <3>6. w \in Tiled(s, s.win[w].output) => OnActive(s, w, s.win[w].output)
      BY DEF Tiled
    <3> QED
      BY <3>1, <3>3, <3>4, <3>5, <3>6 DEF Loose
  <2>2. CASE w \in InTabBar(s)
    <3>1. PICK o : w \in Tabs(s, o)
      BY <2>2 DEF InTabBar
    <3>2. /\ w \in Range(s.toplevels) /\ s.win[w].output = o
          /\ s.win[w].workspace = s.out[o].active_workspace
      BY <3>1 DEF Tabs
    <3>3. w \in Linked(s)
      BY <1>1, <3>2, BaseFields
    <3> QED
      BY <3>2, <3>3 DEF OnActive
  <2> QED
    BY <2>1, <2>2 DEF Clickable
<1> QED
  BY <1>2, RightFocus

\* The pointer moves to another monitor.
LEMMA RightPointer ==
    ASSUME NEW s, Right(s), NEW at \in Live(s) \cup {NoOutput}
    PROVE  Right(PointerRefresh(s, at))
<1>1. CASE PointerRefresh(s, at) = s
  BY <1>1
<1>2. CASE PointerRefresh(s, at) # s
  <2>1. at \in Live(s) /\ PointerRefresh(s, at) = [s EXCEPT !.focused_output = at]
    BY <1>2 DEF PointerRefresh
  <2>2. LET t == [s EXCEPT !.focused_output = at] IN Tame(s, t) /\ KeyboardRight(t)
    BY <2>1, TameRefocus DEF Right
  <2> QED
    BY <2>1, <2>2, RightTame
<1> QED
  BY <1>1, <1>2

\* monitor::focus_next and focus_prev
LEMMA RightFocusMonitor ==
    ASSUME NEW s, Right(s), NEW step
    PROVE  Right(FocusMonitor(s, step))
<1> DEFINE o == s.focused_output
           next == CycleOutput(s, o, step)
           t == [s EXCEPT !.focused_output = next]
           w == FirstIn(s, Tiled(s, next))
<1>1. Base(s) /\ s \in ServerState /\ o \in Live(s)
  BY BaseFields DEF Right
<1>2. CASE o = NoOutput \/ next = NoOutput
  <2>1. FocusMonitor(s, step) = s
    BY <1>2 DEF FocusMonitor
  <2> QED
    BY <2>1
<1>3. CASE o # NoOutput /\ next # NoOutput
  <2>1. next \in Live(s)
    BY <1>1, <1>3, OutputsFound
  <2>2. FocusMonitor(s, step) = FocusOrClear(t, w)
    BY <1>3 DEF FocusMonitor
  <2>3. w = NoWindow \/ (w \in Linked(s) /\ OnActive(s, w, s.win[w].output))
    BY <1>1, <2>1, WalkOnScreen
  <2> HIDE DEF next, w
  <2>4. /\ Tame(s, t) /\ t.win = s.win /\ t.out = s.out
        /\ KeyboardRight(t)
    BY <1>1, <2>1, TameRefocus DEF Right
  <2> HIDE DEF t
  <2>5. Right(t) /\ Linked(t) = Linked(s)
    BY <1>1, <2>4, RightTame, TameBase
  <2>6. w = NoWindow \/ (w \in Linked(t) /\ OnActive(t, w, t.win[w].output))
    BY <2>3, <2>4, <2>5 DEF OnActive
  <2> QED
    BY <2>2, <2>5, <2>6, RightFocus
<1> QED
  BY <1>2, <1>3

\* One window changes, is mapped or goes: the others are as right as before, and it is
\* right where it is now if it is tiled or shows on its workspace.
LEMMA OneWindow ==
    ASSUME NEW s, NEW u, NEW w, NEW p,
           Linked(u) \ {w} = Linked(s) \ {w},
           \A v \in Linked(s) \ {w} : u.win[v] = s.win[v],
           u.out[p].active_workspace = s.out[p].active_workspace,
           u.out[p].layout_mode = s.out[p].layout_mode,
           w \in Mine(u, p) \ Tiled(u, p) =>
              (u.win[w].enabled = TRUE <=> OnActive(u, w, p))
    PROVE  /\ Loose(s, p) => Loose(u, p)
           /\ /\ w \notin Mine(s, p) \cup Mine(u, p)
              /\ LastActive(u, p) \in Tiled(s, p) => LastActive(u, p) = LastActive(s, p)
              => (Pict(s, p) => Pict(u, p))
<1>1. \A v \in Linked(s) \ {w} : /\ v \in Linked(u)
                                 /\ v \in Mine(u, p) <=> v \in Mine(s, p)
                                 /\ OnActive(u, v, p) <=> OnActive(s, v, p)
  BY DEF Mine, OnActive
<1>2. \A v \in Linked(s) \ {w} : v \in Tiled(u, p) <=> v \in Tiled(s, p)
  BY <1>1 DEF Tiled
<1>3. \A v \in Mine(u, p) : v = w \/ v \in Linked(s) \ {w}
  BY DEF Mine
<1>4. ASSUME Loose(s, p)
      PROVE  Loose(u, p)
  <2> SUFFICES ASSUME NEW v \in Mine(u, p) \ Tiled(u, p)
               PROVE  u.win[v].enabled = TRUE <=> OnActive(u, v, p)
    BY DEF Loose
  <2>1. CASE v = w
    BY <2>1
  <2>2. CASE v # w
    <3>1. v \in Linked(s) \ {w}
      BY <1>3, <2>2
    <3>2. v \in Mine(s, p) \ Tiled(s, p) /\ u.win[v] = s.win[v]
      BY <1>1, <1>2, <3>1
    <3>3. s.win[v].enabled = TRUE <=> OnActive(s, v, p)
      BY <1>4, <3>2 DEF Loose
    <3> QED
      BY <1>1, <3>1, <3>2, <3>3
  <2> QED
    BY <2>1, <2>2
<1>5. ASSUME w \notin Mine(s, p) \cup Mine(u, p),
             LastActive(u, p) \in Tiled(s, p) => LastActive(u, p) = LastActive(s, p),
             Pict(s, p)
      PROVE  Pict(u, p)
  <2>1. \A v \in Mine(s, p) : v \in Linked(s) \ {w}
    BY <1>5 DEF Mine
  <2>2. Mine(u, p) = Mine(s, p)
    BY <1>1, <1>3, <1>5, <2>1
  <2>3. Alike(s, u, p)
    BY <2>1, <2>2 DEF Alike
  <2> QED
    BY <1>5, <2>3, AlikePict
<1> QED
  BY <1>4, <1>5

\* toggle_float and the two fullscreens, of the window with the keyboard.
LEMMA RightToggleFlag ==
    ASSUME NEW s, Right(s), NEW w \in Linked(s), s.kb_focus = w,
           NEW f \in Flag \ {"sticky"}
    PROVE  Right(ToggleFlag(s, w, f))
<1> DEFINE o == s.win[w].output
           g == IF f \in s.win[w].flags THEN s.win[w].flags \ {f}
                ELSE s.win[w].flags \cup {f}
           x == [s.win[w] EXCEPT !.flags = g]
           u == [s EXCEPT !.win[w] = x]
<1>1. /\ Base(s) /\ s \in ServerState /\ w \in Window /\ o \in Live(s)
      /\ KeyboardRight(s)
  BY BaseFields DEF Right
<1>2. s.win \in [Window -> Toplevel] /\ s.win[w] \in Toplevel
  BY <1>1 DEF ServerState
<1>3. g \in SUBSET Flag
  BY <1>2 DEF Toplevel
<1>4. /\ x \in Toplevel /\ SamePlace(s.win[w], x)
      /\ x.flags = g /\ x.enabled = s.win[w].enabled
  BY <1>2, <1>3 DEF Toplevel, SamePlace
<1>5. ToggleFlag(s, w, f) = ArrangeOutput(u, o)
  BY <1>1, <1>2 DEF ToggleFlag, ServerState
<1>6. "sticky" \in g => "sticky" \in s.win[w].flags
  OBVIOUS
<1> HIDE DEF x, g
<1>7. Calm(s, u)
  BY <1>1, <1>4, CalmWindow
<1>8. /\ u.win[w] = x /\ \A v \in Window : v # w => u.win[v] = s.win[v]
      /\ u.out = s.out /\ u.kb_focus = s.kb_focus
  BY <1>1, <1>2 DEF ServerState
<1> HIDE DEF u
<1>9. Mild(s, u)
  <2>1. \A v \in Window : "sticky" \in u.win[v].flags => "sticky" \in s.win[v].flags
    BY <1>4, <1>6, <1>8
  <2> QED
    BY <1>7, <1>8, <2>1 DEF Mild
<1>10. Base(u) /\ Live(u) = Live(s) /\ Linked(u) = Linked(s)
  BY <1>1, <1>9, MildBase
<1>11. KeyboardRight(u)
  BY <1>1, <1>8, <1>9, KeyboardMild
<1>12. u.win[w].enabled = TRUE /\ u.win[w].output = o /\ OnActive(u, w, o)
  <2>1. s.win[w].enabled = TRUE
    BY RightKeyboard
  <2>2. u.win[w].output = o
    BY <1>4, <1>8 DEF SamePlace
  <2>3. OnActive(u, w, o)
    BY <1>1, <1>8, <1>10, <1>11, <2>2 DEF KeyboardRight
  <2> QED
    BY <1>4, <1>8, <2>1, <2>2, <2>3
<1>13. Nearly(u, {o})
  <2>1. ASSUME NEW p \in Live(s)
        PROVE  Loose(u, p) /\ (p # o => Pict(u, p))
    <3>1. Pict(s, p) /\ Loose(s, p)
      BY DEF Right, Pict
    <3>2. w \in Mine(u, p) => p = o
      BY <1>12 DEF Mine
    <3>3. w \in Mine(s, p) => p = o
      BY DEF Mine
    <3>4. LastActive(u, p) = LastActive(s, p)
      BY <1>8 DEF LastActive
    <3>5. \A v \in Linked(s) \ {w} : u.win[v] = s.win[v]
      BY <1>1, <1>8, BaseFields
    <3>6. /\ w \in Mine(u, p) \ Tiled(u, p) =>
                (u.win[w].enabled = TRUE <=> OnActive(u, w, p))
          /\ Linked(u) \ {w} = Linked(s) \ {w}
          /\ u.out[p].active_workspace = s.out[p].active_workspace
          /\ u.out[p].layout_mode = s.out[p].layout_mode
      BY <1>8, <1>10, <1>12, <3>2
    <3>7. /\ Loose(s, p) => Loose(u, p)
          /\ /\ w \notin Mine(s, p) \cup Mine(u, p)
             /\ LastActive(u, p) \in Tiled(s, p) => LastActive(u, p) = LastActive(s, p)
             => (Pict(s, p) => Pict(u, p))
      BY <3>5, <3>6, OneWindow
    <3> QED
      BY <3>1, <3>2, <3>3, <3>4, <3>7
  <2> QED
    BY <1>10, <2>1 DEF Nearly
<1> QED
  BY <1>1, <1>5, <1>10, <1>11, <1>13, RightArrangeOutput

\* layout::set_layout
LEMMA RightSetLayout ==
    ASSUME NEW s, Right(s), NEW mode \in Layout,
           NeverTabbed => mode # "tabbed"
    PROVE  Right(SetLayout(s, mode))
<1> DEFINE o == s.focused_output
           ws == s.out[o].active_workspace
           g == [s.out EXCEPT ![o].layout_mode[ws] = mode]
           u == [s EXCEPT !.out = g]
<1>1. /\ Base(s) /\ s \in ServerState /\ o \in Live(s) /\ o # NoOutput
      /\ Live(s) \subseteq Output /\ KeyboardRight(s)
  BY BaseFields, NullAssumption DEF Right
<1>2. /\ s.out \in [Output -> OutputState] /\ s.out[o] \in OutputState
      /\ ws \in WS
  BY <1>1 DEF ServerState, OutputState
<1>3. SetLayout(s, mode) = ArrangeOutput(u, o)
  BY <1>1 DEF SetLayout, ServerState
<1>4. g \in [Output -> OutputState]
  BY <1>1, <1>2 DEF OutputState
<1>5. \A p \in Output : /\ g[p].active_workspace = s.out[p].active_workspace
                        /\ g[p].last_focused = s.out[p].last_focused
                        /\ g[p].overview = s.out[p].overview
  BY <1>1, <1>2 DEF OutputState
<1>6. \A p \in Output : p # o => g[p] = s.out[p]
  BY <1>1, <1>2
<1>7. g[o].layout_mode = [s.out[o].layout_mode EXCEPT ![ws] = mode]
  BY <1>1, <1>2 DEF OutputState
<1>8. s.out[o].layout_mode \in [WS -> Layout]
  BY <1>2 DEF OutputState
<1> HIDE DEF g
<1>9. Calm(s, u)
  BY <1>1, <1>4, <1>5, CalmOut
<1>10. u.win = s.win /\ u.out = g /\ u.kb_focus = s.kb_focus
  BY <1>1 DEF ServerState
<1> HIDE DEF u
<1>11. Live(u) = Live(s) /\ Linked(u) = Linked(s)
  BY <1>9, CalmKeeps
<1>12. TabsAlone(u)
  <2>1. CASE ~NeverTabbed
    BY <1>1, <1>11, <2>1 DEF TabsAlone, Base
  <2>2. CASE NeverTabbed
    <3>1. \A p \in Output, v \in WS : s.out[p].layout_mode[v] # "tabbed"
      BY <1>1, <2>2 DEF TabsAlone, Base
    <3>2. \A p \in Output, v \in WS : g[p].layout_mode[v] # "tabbed"
      <4> SUFFICES ASSUME NEW p \in Output, NEW v \in WS
                   PROVE  g[p].layout_mode[v] # "tabbed"
        OBVIOUS
      <4>1. CASE p = o
        BY <1>1, <1>7, <1>8, <2>2, <3>1, <4>1
      <4>2. CASE p # o
        BY <1>6, <3>1, <4>2
      <4> QED
        BY <4>1, <4>2
    <3> QED
      BY <1>10, <2>2, <3>2 DEF TabsAlone
  <2> QED
    BY <2>1, <2>2
<1>13. Base(u)
  BY <1>1, <1>5, <1>9, <1>10, <1>12, CalmBase
<1>14. KeyboardRight(u)
  <2> DEFINE w == u.kb_focus
             q == s.win[w].output
  <2> SUFFICES ASSUME w \in Window
               PROVE  KeyboardRight(u)
    BY DEF KeyboardRight
  <2>1. /\ w \in Linked(s) /\ OnActive(s, w, q)
        /\ s.out[q].last_focused[s.win[w].workspace] = w
    BY <1>1, <1>10 DEF KeyboardRight
  <2>2. q \in Output
    BY <1>1, <2>1, BaseFields
  <2> HIDE DEF w, q
  <2>3. OnActive(u, w, q) /\ u.out[q].last_focused[u.win[w].workspace] = w
    BY <1>5, <1>10, <2>1, <2>2 DEF OnActive
  <2> QED
    BY <1>10, <1>11, <2>1, <2>3 DEF KeyboardRight, w, q
<1>15. Nearly(u, {o})
  <2>1. ASSUME NEW p \in Live(s)
        PROVE  Loose(u, p) /\ (p # o => Pict(u, p))
    <3>1. Pict(s, p) /\ Loose(s, p) /\ p \in Output
      BY <1>1 DEF Right, Pict
    <3>2. Mine(u, p) = Mine(s, p)
      BY <1>10, <1>11 DEF Mine
    <3>3. \A w : OnActive(u, w, p) <=> OnActive(s, w, p)
      BY <1>5, <1>10, <3>1 DEF OnActive
    <3>4. Tiled(u, p) = Tiled(s, p)
      BY <1>10, <1>11, <3>3 DEF Tiled
    <3>5. Loose(u, p)
      BY <1>10, <3>1, <3>2, <3>3, <3>4 DEF Loose
    <3>6. p # o => Alike(s, u, p) /\ LastActive(u, p) = LastActive(s, p)
      BY <1>6, <1>10, <3>1, <3>2 DEF Alike, LastActive
    <3> QED
      BY <3>1, <3>5, <3>6, AlikePict
  <2> QED
    BY <1>11, <1>13, <2>1 DEF Nearly
<1>16. Right(ArrangeOutput(u, o))
  BY <1>1, <1>11, <1>14, <1>15, RightArrangeOutput
<1> QED
  BY <1>3, <1>16 DEF u

\* The layout keys.
LEMMA RightLayouts ==
    ASSUME NEW s, Right(s), NEW mode \in Layout,
           NeverTabbed => mode # "tabbed"
    PROVE  /\ Right(SetLayout(s, mode)) /\ Right(ToggleLayout(s, mode))
           /\ Right(CycleLayout(s, mode))
<1>1. Right(SetLayout(s, mode)) /\ Right(SetLayout(s, "tile"))
  BY RightSetLayout DEF Layout
<1> QED
  BY <1>1 DEF ToggleLayout, CycleLayout

\* After the sweep of switch_to a window shows exactly on the active workspace of its
\* monitor.
LEMMA Swept ==
    ASSUME NEW s \in ServerState, NEW w \in Linked(s), ~s.win[w].in_scratchpad,
           "sticky" \notin s.win[w].flags, s.win[w].output \in Output
    PROVE  LET t == SweepVisibility(s)
           IN  /\ t.win[w].enabled = TRUE <=> OnActive(t, w, t.win[w].output)
               /\ t.win[w].flags = s.win[w].flags
<1> DEFINE t == SweepVisibility(s)
           S == {v \in Linked(s) : ~s.win[v].in_scratchpad}
           g == [v \in Window |->
                   IF v \in S
                   THEN [s.win[v] EXCEPT !.enabled = OnActiveWorkspace(s, s.win[v])]
                   ELSE s.win[v]]
           b == OnActiveWorkspace(s, s.win[w])
<1>1. t = [s EXCEPT !.win = g]
  BY Zenon DEF SweepVisibility, Sweep
<1>2. t.win = g /\ t.out = s.out
  BY <1>1, Zenon DEF ServerState
<1>3. w \in Window /\ w \in S /\ s.win[w] \in Toplevel
  BY DEF Linked, ServerState
<1>4. b \in BOOLEAN
  BY DEF OnActiveWorkspace
<1>5. b <=> s.out[s.win[w].output].active_workspace = s.win[w].workspace
  BY NullAssumption DEF OnActiveWorkspace
<1>6. g[w] = [s.win[w] EXCEPT !.enabled = b]
  BY <1>3
<1> HIDE DEF b, g, t, S
<1>7. /\ t.win[w].enabled = b /\ t.win[w].flags = s.win[w].flags
      /\ t.win[w].output = s.win[w].output /\ t.win[w].workspace = s.win[w].workspace
  BY <1>2, <1>3, <1>4, <1>6 DEF Toplevel
<1>8. OnActive(t, w, t.win[w].output) <=>
         s.win[w].workspace = s.out[s.win[w].output].active_workspace
  BY <1>2, <1>7 DEF OnActive
<1>9. t.win[w].enabled = TRUE <=> OnActive(t, w, t.win[w].output)
  BY <1>4, <1>5, <1>7, <1>8
<1> QED
  BY <1>7, <1>9 DEF t

\* workspace::switch_to.  It makes the screen right whatever it was like, and leaves
\* the other monitors on their workspaces.
LEMMA RightSwitchTo ==
    ASSUME NEW s, Base(s), KeyboardRight(s), NEW to \in WS
    PROVE  LET z == SwitchTo(s, to)
           IN  /\ z = s \/ Right(z)
               /\ \A p \in Output \ {s.focused_output} :
                     z.out[p].active_workspace = s.out[p].active_workspace
               /\ ~BackAndForth => z.out[s.focused_output].active_workspace = to
<1> DEFINE o == s.focused_output
           active == s.out[o].active_workspace
           ws == IF to = active /\ BackAndForth
                 THEN s.out[o].prev_workspace ELSE to
           g == [s.out EXCEPT ![o].prev_workspace = active,
                              ![o].active_workspace = ws]
           r == [s EXCEPT !.out[o].prev_workspace = active,
                          !.out[o].active_workspace = ws]
           t == SweepVisibility(r)
           last == t.out[o].last_focused[ws]
           next == IF /\ last # NoWindow
                      /\ t.win[last].output = o /\ t.win[last].workspace = ws
                   THEN last
                   ELSE Or(FirstIn(t, Tiled(t, o)), FirstIn(t, Floats(t, o)))
           u == FocusOrClear(t, next)
           z == SwitchTo(s, to)
<1>1. /\ s \in ServerState /\ o \in Live(s) /\ o # NoOutput /\ ~s.crashed
      /\ Live(s) \subseteq Output /\ o \in Output /\ Linked(s) \subseteq Window
      /\ \A w \in Linked(s) : s.win[w].output \in Live(s)
  BY BaseFields, NullAssumption
<1>2. /\ s.out \in [Output -> OutputState] /\ s.out[o] \in OutputState
      /\ active \in WS /\ ws \in WS
  BY <1>1 DEF ServerState, OutputState
<1>3. z = IF ws = active THEN s
          ELSE IF last # NoWindow /\ t.win[last].life = "free" THEN Crash(t)
          ELSE ArrangeOutput(u, o)
  <2> HIDE DEF u
  <2>1. z = IF o = NoOutput \/ s.crashed THEN s
            ELSE IF ws = active THEN s
            ELSE IF last # NoWindow /\ t.win[last].life = "free" THEN Crash(t)
            ELSE ArrangeOutput(u, o)
    BY Zenon DEF SwitchTo, u
  <2> QED
    BY <1>1, <2>1
<1>4. ~BackAndForth => ws = to
  OBVIOUS
<1>5. CASE ws = active
  <2>1. z = s
    BY <1>3, <1>5
  <2> QED
    BY <1>4, <1>5, <2>1
<1>6. CASE ws # active
  <2>1. r = [s EXCEPT !.out = g]
    BY <1>1, <1>2 DEF ServerState
  <2> HIDE DEF active, ws
  <2>2. /\ g \in [Output -> OutputState]
        /\ \A p \in Output : /\ g[p].last_focused = s.out[p].last_focused
                             /\ g[p].layout_mode = s.out[p].layout_mode
                             /\ g[p].overview = s.out[p].overview
    BY <1>1, <1>2 DEF OutputState
  <2>3. /\ g[o].active_workspace = ws
        /\ \A p \in Output \ {o} : g[p].active_workspace = s.out[p].active_workspace
    BY <1>1, <1>2 DEF OutputState
  <2> HIDE DEF g, r
  <2>4. /\ Calm(s, r) /\ r \in ServerState /\ r.win = s.win /\ r.out = g
        /\ r.kb_focus = s.kb_focus /\ Linked(r) = Linked(s)
    <3>1. \A p \in Live(s) : g[p].last_focused = s.out[p].last_focused
      BY <1>1, <2>2
    <3>2. Calm(s, r)
      BY <1>1, <2>1, <2>2, <3>1, CalmOut
    <3>3. r.win = s.win /\ r.out = g /\ r.kb_focus = s.kb_focus
      BY <1>1, <2>1 DEF ServerState
    <3> QED
      BY <3>2, <3>3, CalmKeeps
  <2>5. Calm(s, t) /\ t.out = g /\ t.kb_focus = s.kb_focus
    <3>1. Calm(r, t)
      BY <2>4, CalmSweepVisibility
    <3>2. Calm(s, t)
      BY <2>4, <3>1, CalmChain
    <3>3. t.out = r.out /\ t.kb_focus = r.kb_focus
      BY <2>4 DEF SweepVisibility, Sweep, ServerState
    <3> QED
      BY <2>4, <3>2, <3>3
  <2>6. /\ Live(t) = Live(s) /\ Linked(t) = Linked(s)
        /\ \A w \in Window : SamePlace(s.win[w], t.win[w])
    BY <2>5, CalmKeeps
  <2>7. \A w \in Linked(s) :
           /\ t.win[w].enabled = TRUE <=> OnActive(t, w, t.win[w].output)
           /\ t.win[w].flags = s.win[w].flags
    <3> SUFFICES ASSUME NEW w \in Linked(s)
                 PROVE  /\ t.win[w].enabled = TRUE <=> OnActive(t, w, t.win[w].output)
                        /\ t.win[w].flags = s.win[w].flags
      OBVIOUS
    <3>1. /\ w \in Linked(r) /\ ~r.win[w].in_scratchpad
          /\ "sticky" \notin r.win[w].flags /\ r.win[w].output \in Output
      BY <1>1, <2>4 DEF Base, Plain, Simple
    <3> QED
      BY <2>4, <3>1, Swept
  <2>8. \A w \in Window \ Linked(s) : t.win[w] = s.win[w]
    BY <2>4 DEF SweepVisibility, Sweep, ServerState
  <2> HIDE DEF t
  <2>9. Base(t)
    <3>1. TabsAlone(t)
      BY <2>2, <2>5, <2>6 DEF Base, TabsAlone
    <3>2. \A w \in Window : "sticky" \in t.win[w].flags => "sticky" \in s.win[w].flags
      BY <2>7, <2>8
    <3>3. \A p \in Output : t.out[p].overview = s.out[p].overview
      BY <2>2, <2>5
    <3> QED
      BY <2>5, <3>1, <3>2, <3>3, CalmBase
  <2>10. Nearly(t, {o})
    <3>1. ASSUME NEW p \in Live(s)
          PROVE  Loose(t, p)
      BY <2>6, <2>7 DEF Loose, Mine
    <3>2. ASSUME NEW p \in Live(s), p # o
          PROVE  Pict(t, p)
      <4>1. p \in Output /\ t.out[p] \in OutputState
        BY <1>1, <2>2, <2>5, <3>2
      <4>2. \A q \in Output, v \in WS : t.out[q].layout_mode[v] # "tabbed"
        BY <1>1, <2>6, <2>9, <3>2 DEF Base, TabsAlone
      <4>3. ActiveLayout(t, p) # "tabbed"
        BY <4>1, <4>2 DEF ActiveLayout, OutputState
      <4>4. \A w \in Tiled(t, p) : w \in Linked(s) /\ OnActive(t, w, p) /\ t.win[w].output = p
        BY <2>6 DEF Tiled, OnActive
      <4> QED
        BY <2>7, <3>1, <4>3, <4>4 DEF Pict
    <3> QED
      BY <2>6, <2>9, <3>1, <3>2 DEF Nearly
  <2>11. \/ last = NoWindow
         \/ last \in Linked(t) /\ t.win[last].output = o /\ OnActive(t, last, o)
    <3>1. Owns(t, o, ws, last)
      BY <1>1, <1>2, <2>6, <2>9, BaseFields DEF Remembered
    <3> HIDE DEF last
    <3> QED
      BY <2>3, <2>5, <3>1 DEF Owns, OnActive
  <2> DEFINE a == FirstIn(t, Tiled(t, o))
             b == FirstIn(t, Floats(t, o))
  <2>12. /\ a = NoWindow \/ (a \in Linked(t) /\ t.win[a].output = o /\ OnActive(t, a, o))
         /\ b = NoWindow \/ (b \in Linked(t) /\ t.win[b].output = o /\ OnActive(t, b, o))
    BY <1>1, <2>6, <2>9, WalkOnScreen
  <2>13. z = ArrangeOutput(u, o)
    <3>1. ~(last # NoWindow /\ t.win[last].life = "free")
      BY <2>11 DEF Linked
    <3> HIDE DEF u, last, z
    <3> QED
      BY <1>3, <1>6, <3>1
  <2> HIDE DEF last, a, b
  <2>14. next = NoWindow \/ (next \in Linked(t) /\ t.win[next].output = o /\ OnActive(t, next, o))
    <3>1. next \in {last, a, b}
      BY DEF Or, a, b
    <3> HIDE DEF next
    <3> QED
      BY <2>11, <2>12, <3>1
  <2> HIDE DEF next
  <2>15. next # NoWindow => t.kb_focus # next
    <3> SUFFICES ASSUME next # NoWindow, s.kb_focus = next
                 PROVE  FALSE
      BY <2>5
    <3>1. next \in Linked(s) /\ next \in Window /\ t.win[next].output = o
      BY <1>1, <2>6, <2>14
    <3>2. s.win[next].output = o /\ s.win[next].workspace = t.win[next].workspace
      BY <2>6, <3>1 DEF SamePlace
    <3>3. OnActive(s, next, o)
      BY <3>1, <3>2 DEF KeyboardRight
    <3>4. s.win[next].workspace = s.out[o].active_workspace
      BY <3>1, <3>3, OnActivePlain
    <3>5. t.win[next].workspace = t.out[o].active_workspace
      BY <2>6, <2>9, <2>14, <3>1, OnActivePlain
    <3> QED
      BY <1>6, <2>3, <2>5, <3>2, <3>4, <3>5 DEF active
  <2>16. Tame(t, u) /\ Base(u) /\ KeyboardRight(u)
    BY <2>9, <2>14, <2>15, TameFocusOrClear
  <2> HIDE DEF u
  <2>17. Nearly(u, {o}) /\ o \in Live(u)
    BY <1>1, <2>6, <2>9, <2>10, <2>16, RightTame, TameBase
  <2>18. Right(z)
    BY <2>13, <2>16, <2>17, RightArrangeOutput
  <2>19. \A p \in Output : z.out[p].active_workspace = t.out[p].active_workspace
    <3>1. \A p \in Output : u.out[p].active_workspace = t.out[p].active_workspace
      BY <2>16 DEF Tame, Mild
    <3>2. z = Arrange(u, {o})
      BY <1>1, <2>13, <2>17 DEF ArrangeOutput
    <3>3. z.out = u.out
      BY <2>16, <2>17, <3>2, TameArrange
    <3> QED
      BY <3>1, <3>3
  <2> QED
    BY <1>1, <1>4, <2>3, <2>5, <2>18, <2>19
<1> QED
  BY <1>5, <1>6

\* server_session_active: no window is to be handed over, and all are arranged.
LEMMA RightSessionActive ==
    ASSUME NEW s, Right(s)
    PROVE  Right(SessionActive(s))
<1> DEFINE t == Rehost(s, Orphans(s), FirstOutput(s))
<1>1. s \in ServerState /\ \A w \in Linked(s) : s.win[w].output \in Live(s)
  BY BaseFields DEF Right
<1>2. Orphans(s) = {}
  BY <1>1 DEF Orphans
<1>3. t = s
  <2>1. [w \in Window |-> IF w \in Linked(s) \cap {}
                          THEN [s.win[w] EXCEPT !.output = FirstOutput(s)]
                          ELSE s.win[w]] = s.win
    BY <1>1 DEF ServerState
  <2>2. [s EXCEPT !.win = s.win] = s
    BY <1>1 DEF ServerState
  <2> QED
    BY <1>2, <2>1, <2>2 DEF Rehost
<1> HIDE DEF t
<1>4. SessionActive(s) = s \/ SessionActive(s) = Arrange(s, Live(s))
  BY <1>3 DEF SessionActive, t
<1>5. Nearly(s, Live(s)) /\ KeyboardRight(s)
  BY DEF Right, Nearly, Pict
<1>6. Right(Arrange(s, Live(s)))
  BY <1>5, RightArrange
<1> QED
  BY <1>4, <1>6

\* server_new_output: no window waits for it.
LEMMA RightNewOutput ==
    ASSUME NEW s, Right(s), NeverTabbed, NEW o \in Output \ Live(s)
    PROVE  Right(NewOutput(s, o))
<1> DEFINE t == [s EXCEPT !.outputs = <<o>> \o @, !.out[o] = NewOutputState,
                          !.focused_output = IF @ = NoOutput THEN o ELSE @]
           x == NewOutput(s, o)
<1>1. /\ Base(s) /\ s \in ServerState /\ Good(s) /\ Sound(s)
      /\ Live(s) \subseteq Output
      /\ \A w \in Linked(s) : s.win[w].output \in Live(s)
  BY BaseFields DEF Right
<1>2. Live(x) = Live(s) \cup {o} /\ Hosted(x) /\ Hands(s, x, OnOutput(s, NoOutput), o)
  BY <1>1, NewOutputHands
<1>3. Good(x) /\ x.shown_pads = s.shown_pads /\ Remembered(x) /\ (x.crashed => s.crashed)
  BY <1>1, <1>2 DEF Hands, Gives, Careful
<1>4. /\ t.win = s.win /\ t.kb_focus = s.kb_focus /\ t.out = [s.out EXCEPT ![o] = NewOutputState]
      /\ t.outputs = <<o>> \o s.outputs
  BY <1>1 DEF ServerState
<1>5. Live(s) \subseteq Live(t)
  <2>1. s.outputs \in Seq(Output) /\ <<o>> \in Seq(Output)
    BY <1>1 DEF ServerState
  <2>2. /\ Len(t.outputs) = 1 + Len(s.outputs)
        /\ \A i \in 1 .. Len(s.outputs) : t.outputs[i + 1] = s.outputs[i]
    BY <1>4, <2>1, ConcatProperties
  <2>3. /\ DOMAIN s.outputs = 1 .. Len(s.outputs) /\ Len(s.outputs) \in Nat
        /\ DOMAIN t.outputs = 1 .. Len(t.outputs)
    BY <1>4, <2>1, ConcatProperties, LenProperties
  <2> SUFFICES ASSUME NEW p \in Live(s)
               PROVE  p \in Live(t)
    OBVIOUS
  <2>4. PICK i \in DOMAIN s.outputs : s.outputs[i] = p
    BY DEF Live, Range
  <2> HIDE DEF t
  <2>5. i + 1 \in DOMAIN t.outputs /\ t.outputs[i + 1] = p
    BY <2>2, <2>3, <2>4
  <2> QED
    BY <2>5 DEF Live, Range
<1>6. x = t
  <2> HIDE DEF t
  <2>1. Linked(t) = Linked(s)
    BY <1>4 DEF Linked
  <2>2. Orphans(t) = {}
    BY <1>1, <1>4, <1>5, <2>1 DEF Orphans
  <2> QED
    BY <2>2 DEF NewOutput, t
<1> HIDE DEF t, x
<1>7. x.win = s.win /\ x.kb_focus = s.kb_focus /\ Linked(x) = Linked(s)
  BY <1>4, <1>6 DEF Linked
<1>8. s.out \in [Output -> OutputState]
  BY <1>1 DEF ServerState
<1>9. x.out[o] = NewOutputState /\ \A p \in Output : p # o => x.out[p] = s.out[p]
  BY <1>4, <1>6, <1>8
<1>10. TabsAlone(x)
  <2>1. \A ws \in WS : NewOutputState.layout_mode[ws] # "tabbed"
    BY DEF NewOutputState, NeverTabbed
  <2>2. \A p \in Output, ws \in WS : s.out[p].layout_mode[ws] # "tabbed"
    BY <1>1 DEF Base, TabsAlone
  <2>3. \A p \in Output, ws \in WS : x.out[p].layout_mode[ws] # "tabbed"
    BY <1>9, <2>1, <2>2
  <2> QED
    BY <2>3 DEF TabsAlone
<1>11. Plain(x)
  <2>1. NewOutputState.overview = "off"
    BY DEF NewOutputState
  <2>2. \A p \in Output : x.out[p].overview = "off"
    BY <1>1, <1>9, <2>1 DEF Base, Plain
  <2> QED
    BY <1>1, <1>3, <1>7, <2>2 DEF Base, Plain
<1>12. x.crashed = FALSE
  <2>1. x.crashed \in BOOLEAN
    BY <1>3 DEF Good, ServerState
  <2> QED
    BY <1>1, <1>3, <2>1 DEF Base
<1>13. Base(x)
  BY <1>2, <1>3, <1>10, <1>11, <1>12 DEF Base
<1>14. KeyboardRight(x)
  <2>1. \A w \in Linked(s) : OnActive(s, w, s.win[w].output) => OnActive(x, w, x.win[w].output)
    BY <1>1, <1>7, <1>9 DEF OnActive
  <2>2. KeyboardRight(s)
    BY DEF Right
  <2>3. \A w \in Linked(s) : x.out[x.win[w].output] = s.out[s.win[w].output]
    BY <1>1, <1>7, <1>9
  <2> QED
    BY <1>7, <2>1, <2>2, <2>3 DEF KeyboardRight
<1>15. ASSUME NEW p \in Live(x)
       PROVE  Pict(x, p)
  <2>1. Mine(x, p) = Mine(s, p)
    BY <1>7 DEF Mine
  <2>2. CASE p = o
    <3>1. Mine(x, o) = {}
      BY <1>1, <2>1, <2>2 DEF Mine
    <3>2. Tiled(x, o) = {}
      BY <3>1 DEF Mine, Tiled, OnActive
    <3> QED
      BY <2>2, <3>1, <3>2 DEF Pict, Loose
  <2>3. CASE p # o
    <3>1. p \in Live(s) /\ p \in Output
      BY <1>1, <1>2, <2>3
    <3>2. x.out[p] = s.out[p]
      BY <1>9, <2>3, <3>1
    <3>3. Alike(s, x, p) /\ LastActive(x, p) = LastActive(s, p)
      BY <1>7, <2>1, <3>2 DEF Alike, LastActive
    <3> QED
      BY <3>1, <3>3, AlikePict DEF Right
  <2> QED
    BY <2>2, <2>3
<1> QED
  BY <1>13, <1>14, <1>15 DEF Right, x

\* The order of the list does not matter to what shows: the tail of the swaps.
LEMMA RightRestack ==
    ASSUME NEW s, Right(s), NEW w \in Linked(s), OnActive(s, w, s.win[w].output),
           NEW seq \in Seq(Window), Holds(seq, Linked(s))
    PROVE  Right(Restack(s, seq, w))
<1> DEFINE q == [s EXCEPT !.toplevels = seq]
           t == FocusToplevel(q, w)
           o == s.focused_output
<1>1. Base(s) /\ KeyboardRight(s) /\ s \in ServerState /\ Good(s) /\ Sound(s) /\ o \in Live(s)
  BY BaseFields DEF Right
<1>2. /\ q.win = s.win /\ q.out = s.out /\ q.outputs = s.outputs
      /\ q.focused_output = s.focused_output /\ q.kb_focus = s.kb_focus
      /\ q.crashed = s.crashed /\ q.shown_pads = s.shown_pads /\ q.toplevels = seq
      /\ q \in ServerState
  BY <1>1 DEF ServerState
<1> HIDE DEF q
<1>3. Stays(s, q) /\ Linked(q) = Linked(s) /\ Live(q) = Live(s)
  BY <1>1, <1>2, StaysFields DEF Linked, Live
<1>4. Good(q) /\ Remembered(q)
  BY <1>1, <1>3 DEF Stays, Settles, Careful
<1>5. Base(q)
  BY <1>1, <1>2, <1>3, <1>4 DEF Base, Hosted, Plain, TabsAlone
<1>6. KeyboardRight(q)
  BY <1>1, <1>2, <1>3 DEF KeyboardRight, OnActive
<1>7. ASSUME NEW p \in Live(q)
      PROVE  Pict(q, p)
  <2>1. Alike(s, q, p) /\ LastActive(q, p) = LastActive(s, p)
    BY <1>2, <1>3 DEF Alike, LastActive, Mine
  <2> QED
    BY <1>3, <2>1, AlikePict DEF Right
<1>8. Right(q)
  BY <1>5, <1>6, <1>7 DEF Right
<1>9. w \in Linked(q) /\ OnActive(q, w, q.win[w].output)
  BY <1>2, <1>3 DEF OnActive
<1>10. Right(t)
  BY <1>8, <1>9, RightFocus
<1>11. Tame(q, t)
  BY <1>5, <1>6, <1>9, TameFocus
<1>12. o \in Live(t)
  BY <1>1, <1>3, <1>5, <1>11, TameBase
<1>13. Restack(s, seq, w) = ArrangeOutput(t, o)
  BY DEF Restack, q
<1> HIDE DEF t, o
<1>14. Nearly(t, {o}) /\ KeyboardRight(t)
  BY <1>10 DEF Right, Nearly, Pict
<1> QED
  BY <1>12, <1>13, <1>14, RightArrangeOutput

\* swap::left .. swap::master and cycle.  The first dereferences a null pointer where
\* there is no tiled window.
LEMMA RightReorder ==
    ASSUME NEW s, Right(s)
    PROVE  /\ SwapLeft(s) = Crash(s) \/ Right(SwapLeft(s))
           /\ Right(SwapRight(s)) /\ Right(SwapNext(s)) /\ Right(SwapPrev(s))
           /\ Right(SwapMaster(s)) /\ Right(Cycle(s))
<1> DEFINE cur == FocusedToplevel(s)
           T == Tiled(s, s.focused_output)
           first == FirstIn(s, T)
           last == LastIn(s, T)
           next == NextIn(s, T, cur)
           prev == PrevIn(s, T, cur)
<1>1. /\ Base(s) /\ Good(s) /\ s \in ServerState /\ s.focused_output \in Live(s)
      /\ Range(s.toplevels) = Linked(s) /\ IsInjective(s.toplevels)
  BY BaseFields DEF Right, Good, Holds
<1>2. /\ first \in Linked(s) \cup {NoWindow} /\ last \in Linked(s) \cup {NoWindow}
      /\ next \in Linked(s) \cup {NoWindow} /\ prev \in Linked(s) \cup {NoWindow}
      /\ cur \in Linked(s) \cup {NoWindow}
      /\ Linked(s) \subseteq Window
  BY <1>1, Walks, FoundWindows
<1>3. /\ first = NoWindow <=> last = NoWindow
      /\ cur \in Linked(s) => next # cur /\ prev # cur
  BY <1>1, WalksAgree
<1>4. /\ cur \in Linked(s) => OnActive(s, cur, s.win[cur].output)
      /\ last \in Linked(s) => OnActive(s, last, s.win[last].output)
  <2>1. cur \in Linked(s) => cur = s.kb_focus
    BY NullAssumption, <1>2 DEF FocusedToplevel
  <2>2. last = NoWindow \/ OnActive(s, last, s.win[last].output)
    BY <1>1, WalkOnScreen
  <2> QED
    BY <1>2, <2>1, <2>2, NullAssumption, RightKeyboard
<1>5. ASSUME NEW w \in Linked(s), NEW v \in Linked(s), OnActive(s, w, s.win[w].output)
      PROVE  /\ w # v => /\ Right(Restack(s, PutBefore(s, w, v), w))
                         /\ Right(Restack(s, PutAfter(s, w, v), w))
             /\ Right(Restack(s, Exchange(s, w, v), w))
  <2>1. w # v => /\ PutBefore(s, w, v) \in Seq(Window) /\ Holds(PutBefore(s, w, v), Linked(s))
                 /\ PutAfter(s, w, v) \in Seq(Window) /\ Holds(PutAfter(s, w, v), Linked(s))
    BY <1>1, MovedBeside
  <2>2. Exchange(s, w, v) \in Seq(Window) /\ Holds(Exchange(s, w, v), Linked(s))
    <3>1. s.toplevels \in Seq(Window)
      BY <1>1 DEF ServerState
    <3> QED
      BY <1>1, <3>1, ExchangeHolds DEF Exchange, PlaceOf
  <2> QED
    BY <1>5, <2>1, <2>2, RightRestack
<1>6. Swappable(s) => cur \in Linked(s)
  BY <1>2 DEF Swappable
<1>7. NoWindow \notin Linked(s)
  BY <1>2, NullAssumption
<1>8. SwapLeft(s) = Crash(s) \/ Right(SwapLeft(s))
  <2>1. SwapLeft(s) = IF ~Swappable(s) \/ cur = first THEN s
                      ELSE IF first = NoWindow THEN Crash(s)
                      ELSE Restack(s, PutBefore(s, cur, first), cur)
    BY Zenon DEF SwapLeft
  <2> HIDE DEF cur, first
  <2> QED
    BY <1>2, <1>4, <1>5, <1>6, <2>1
<1>9. Right(SwapRight(s))
  <2>1. SwapRight(s) =
            IF ~Swappable(s) \/ first = NoWindow THEN s
            ELSE IF cur # first THEN Restack(s, PutBefore(s, cur, first), cur)
            ELSE IF next = NoWindow THEN s
            ELSE Restack(s, PutAfter(s, cur, next), cur)
    BY Zenon DEF SwapRight
  <2> HIDE DEF cur, first, next
  <2> QED
    BY <1>2, <1>3, <1>4, <1>5, <1>6, <2>1
<1>10. Right(SwapNext(s))
  <2>1. SwapNext(s) =
            IF ~Swappable(s) THEN s
            ELSE IF next # NoWindow THEN Restack(s, PutAfter(s, cur, next), cur)
            ELSE IF first \in {NoWindow, cur} THEN s
            ELSE Restack(s, PutBefore(s, cur, first), cur)
    BY Zenon DEF SwapNext
  <2> HIDE DEF cur, first, next
  <2> QED
    BY <1>2, <1>3, <1>4, <1>5, <1>6, <2>1
<1>11. Right(SwapPrev(s))
  <2>1. SwapPrev(s) =
            IF ~Swappable(s) THEN s
            ELSE IF prev # NoWindow THEN Restack(s, PutBefore(s, cur, prev), cur)
            ELSE IF last \in {NoWindow, cur} THEN s
            ELSE Restack(s, PutAfter(s, cur, last), cur)
    BY Zenon DEF SwapPrev
  <2> HIDE DEF cur, last, prev
  <2> QED
    BY <1>2, <1>3, <1>4, <1>5, <1>6, <2>1
<1>12. Right(SwapMaster(s))
  <2>1. SwapMaster(s) =
            IF ~Swappable(s) \/ first \in {NoWindow, cur} THEN s
            ELSE Restack(s, Exchange(s, cur, first), cur)
    BY Zenon DEF SwapMaster
  <2> HIDE DEF cur, first
  <2> QED
    BY <1>2, <1>4, <1>5, <1>6, <2>1
<1>13. Right(Cycle(s))
  <2>1. Cycle(s) =
            IF \/ s.focused_output = NoOutput
               \/ cur # NoWindow /\ "floating" \in s.win[cur].flags
               \/ first = last
            THEN s
            ELSE Restack(s, PutBefore(s, last, first), last)
    BY Zenon DEF Cycle
  <2> HIDE DEF cur, first, last
  <2> QED
    BY <1>2, <1>3, <1>4, <1>5, <2>1
<1> QED
  BY <1>8, <1>9, <1>10, <1>11, <1>12, <1>13

\* One window changes, is mapped or goes; what monitors are like and which of them is
\* focused stays.
OnlyWindow(s, t, w) ==
    /\ \A v \in Window \ {w} : t.win[v] = s.win[v]
    /\ t.outputs = s.outputs /\ t.out = s.out /\ t.focused_output = s.focused_output
    /\ t.shown_pads = s.shown_pads /\ t.crashed = s.crashed

\* What is assumed of a state holds after it.
LEMMA OneBase ==
    ASSUME NEW s, Base(s), NEW t, NEW w \in Window, OnlyWindow(s, t, w),
           Good(t), Remembered(t), Simple(t.win[w]),
           w \in Linked(t) => t.win[w].output \in Live(s)
    PROVE  Base(t) /\ Live(t) = Live(s) /\ Linked(t) \ {w} = Linked(s) \ {w}
<1>1. Live(t) = Live(s)
  BY DEF OnlyWindow, Live
<1>2. Linked(t) \ {w} = Linked(s) \ {w}
  BY DEF OnlyWindow, Linked
<1>3. \A v \in Linked(t) : t.win[v].output \in Live(s)
  <2>1. \A v \in Linked(t) \ {w} : v \in Window \ {w} /\ s.win[v].output \in Live(s)
    BY <1>2, BaseFields DEF Linked
  <2> QED
    BY <2>1 DEF OnlyWindow
<1>4. Hosted(t)
  BY <1>1, <1>3, BaseFields DEF Hosted, OnlyWindow
<1>5. Plain(t)
  BY DEF Base, Plain, OnlyWindow
<1>6. TabsAlone(t)
  BY <1>1 DEF Base, TabsAlone, OnlyWindow
<1> QED
  BY <1>1, <1>2, <1>4, <1>5, <1>6 DEF Base, OnlyWindow

\* The screen is as right as it was, but for the monitors of O that had or have the
\* window.
LEMMA OneNearly ==
    ASSUME NEW s, NEW t, NEW w \in Window, NEW O, Nearly(s, O), Base(t), OnlyWindow(s, t, w),
           w \in Linked(s) => s.win[w].output \in O,
           w \in Linked(t) =>
              /\ t.win[w].output \in O
              /\ \/ t.win[w].enabled = TRUE <=> OnActive(t, w, t.win[w].output)
                 \/ w \in Tiled(t, t.win[w].output)
    PROVE  Nearly(t, O)
<1>1. Live(t) = Live(s)
  BY DEF OnlyWindow, Live
<1>2. Linked(t) \ {w} = Linked(s) \ {w}
  BY DEF OnlyWindow, Linked
<1>3. \A v \in Linked(s) \ {w} : t.win[v] = s.win[v]
  BY DEF OnlyWindow, Linked
<1>4. ASSUME NEW p \in Live(s)
      PROVE  Loose(t, p) /\ (p \notin O => Pict(t, p))
  <2>1. w \in Mine(t, p) => w \in Linked(t) /\ t.win[w].output = p
    BY DEF Mine
  <2>2. w \in Mine(t, p) \ Tiled(t, p) => (t.win[w].enabled = TRUE <=> OnActive(t, w, p))
    BY <2>1
  <2>3. p \notin O => w \notin Mine(s, p) \cup Mine(t, p)
    BY DEF Mine
  <2>4. /\ t.out[p].active_workspace = s.out[p].active_workspace
        /\ t.out[p].layout_mode = s.out[p].layout_mode
        /\ LastActive(t, p) = LastActive(s, p)
    BY DEF OnlyWindow, LastActive
  <2>5. /\ Loose(s, p) => Loose(t, p)
        /\ /\ w \notin Mine(s, p) \cup Mine(t, p)
           /\ LastActive(t, p) \in Tiled(s, p) => LastActive(t, p) = LastActive(s, p)
           => (Pict(s, p) => Pict(t, p))
    BY <1>2, <1>3, <2>2, <2>4, OneWindow
  <2> QED
    BY <2>3, <2>4, <2>5 DEF Nearly
<1> QED
  BY <1>1, <1>4 DEF Nearly

\* The keyboard is as right as it was if it is not on that window.
LEMMA OneKeyboard ==
    ASSUME NEW s, NEW t, NEW w \in Window, OnlyWindow(s, t, w), KeyboardRight(s),
           s.kb_focus # w, t.kb_focus \in {s.kb_focus, NoWindow}
    PROVE  KeyboardRight(t)
<1>1. NoWindow \notin Window
  BY NullAssumption
<1>2. \A v \in Linked(s) \ {w} : v \in Linked(t) /\ t.win[v] = s.win[v]
  BY DEF OnlyWindow, Linked
<1> QED
  BY <1>1, <1>2 DEF KeyboardRight, OnlyWindow, OnActive

\* server_new_xdg_toplevel and the destroy handler.
LEMMA RightObjects ==
    ASSUME NEW s, Right(s), NEW w \in Window, w \notin Linked(s)
    PROVE  /\ s.win[w].life = "free" => Right([s EXCEPT !.win[w].life = "fresh"])
           /\ Right(DestroyToplevel(s, w))
<1> DEFINE x == [s.win[w] EXCEPT !.life = "fresh"]
           a == [s EXCEPT !.win[w].life = "fresh"]
           d == DestroyToplevel(s, w)
<1>1. /\ Base(s) /\ s \in ServerState /\ Good(s) /\ Sound(s) /\ KeyboardRight(s)
      /\ s.win \in [Window -> Toplevel] /\ s.win[w] \in Toplevel
  BY BaseFields DEF Right, ServerState
<1>2. s.kb_focus # w
  BY <1>1 DEF KeyboardRight
<1>3. Puts(s, a, w, x) /\ Puts(s, d, w, NewToplevelState)
  BY <1>1, NewAndDestroyPuts
<1>4. /\ OnlyWindow(s, a, w) /\ a.kb_focus = s.kb_focus /\ a.win[w] = x
  BY <1>1 DEF OnlyWindow, ServerState
<1>5. /\ OnlyWindow(s, d, w) /\ d.kb_focus = s.kb_focus /\ d.win[w] = NewToplevelState
  BY <1>1, <1>2 DEF OnlyWindow, ServerState, DestroyToplevel
<1>6. s.win[w].life = "free" => Simple(x) /\ x.life # "linked"
  BY <1>1 DEF Base, Plain, Simple, Toplevel
<1>7. Simple(NewToplevelState) /\ NewToplevelState.life # "linked"
  BY DEF Simple, NewToplevelState
<1>8. ASSUME NEW t, NEW y, Puts(s, t, w, y), OnlyWindow(s, t, w), t.kb_focus = s.kb_focus,
             t.win[w] = y, Simple(y), y.life # "linked"
      PROVE  Right(t)
  <2>1. Good(t) /\ Remembered(t)
    BY <1>1, <1>8 DEF Puts, Settles, Careful
  <2>2. w \notin Linked(t)
    BY <1>8 DEF Linked
  <2>3. Base(t)
    BY <1>1, <1>8, <2>1, <2>2, OneBase
  <2>4. KeyboardRight(t)
    BY <1>1, <1>2, <1>8, OneKeyboard
  <2>5. Nearly(s, {})
    BY DEF Right, Nearly, Pict
  <2>6. Nearly(t, {})
    BY <1>8, <2>2, <2>3, <2>5, OneNearly
  <2> QED
    BY <2>3, <2>4, <2>6 DEF Right, Nearly
<1> HIDE DEF x, a, d
<1>9. s.win[w].life = "free" => Right(a)
  BY <1>3, <1>4, <1>6, <1>8
<1>10. Right(d)
  BY <1>3, <1>5, <1>7, <1>8
<1> QED
  BY <1>9, <1>10 DEF a, d


\* What the callbacks that move or unmap a window begin with.
LEMMA RightForgets ==
    ASSUME NEW s, Right(s), NEW w \in Linked(s)
    PROVE  LET r == ForgetFocus(s, s.win[w].output, w)
           IN  /\ Tame(s, r) /\ Base(r) /\ Nearly(r, {s.win[w].output})
               /\ r.win = s.win /\ r.outputs = s.outputs /\ r.kb_focus = s.kb_focus
               /\ r.focused_output = s.focused_output
               /\ Live(r) = Live(s) /\ Linked(r) = Linked(s)
               /\ Forgotten(r, w)
               /\ s.kb_focus # w => KeyboardRight(r)
<1> DEFINE o == s.win[w].output
           ws == s.win[w].workspace
           r == ForgetFocus(s, o, w)
<1>1. /\ Base(s) /\ s \in ServerState /\ KeyboardRight(s) /\ o \in Live(s) /\ o # NoOutput
      /\ Live(s) \subseteq Output /\ Linked(s) \subseteq Window
      /\ \A v \in Linked(s) : s.win[v].output \in Live(s)
  BY BaseFields, NullAssumption DEF Right
<1>2. Tame(s, r) /\ Base(r)
  BY <1>1, TameForget
<1>3. /\ r.win = s.win /\ r.outputs = s.outputs /\ r.kb_focus = s.kb_focus
      /\ r.focused_output = s.focused_output
  BY <1>1, ForgetFocusKeeps
<1>4. Live(r) = Live(s) /\ Linked(r) = Linked(s)
  BY <1>3 DEF Live, Linked
<1>5. Sound(r)
  BY <1>2, BaseFields
<1>6. Forgotten(r, w)
  BY <1>1, <1>5, FocusForgotten
<1>7. Nearly(r, {o})
  BY <1>2, RightTame
<1>8. s.kb_focus # w => KeyboardRight(r)
  <2> SUFFICES ASSUME s.kb_focus # w, s.kb_focus \in Window
               PROVE  KeyboardRight(r)
    BY <1>3 DEF KeyboardRight
  <2> DEFINE v == s.kb_focus
             q == s.win[v].output
             wt == s.win[v].workspace
  <2>1. /\ v \in Linked(s) /\ OnActive(s, v, q) /\ s.out[q].last_focused[wt] = v
        /\ q \in Live(s)
    BY <1>1 DEF KeyboardRight
  <2>2. OnActive(r, v, q)
    <3>1. r.out[q].active_workspace = s.out[q].active_workspace
      BY <1>1, <1>2, <2>1 DEF Tame, Mild
    <3> QED
      BY <1>3, <2>1, <3>1 DEF OnActive
  <2>3. r.out[q].last_focused[wt] = v
    <3>1. wt \in WS /\ s.out \in [Output -> OutputState]
      BY <1>1, <2>1 DEF ServerState, Toplevel
    <3>2. CASE r = s
      BY <2>1, <3>2
    <3>3. CASE r # s
      <4>1. /\ s.out[o].last_focused[ws] = w
            /\ r = [s EXCEPT !.out[o].last_focused[ws] = NoWindow]
        BY <1>1, <3>3 DEF ForgetFocus
      <4>2. Owns(s, o, ws, NoWindow) /\ Remembers(s, r, o, ws, NoWindow) /\ ws \in WS
        BY <1>1, <4>1 DEF Owns, Remembers, ServerState, Toplevel
      <4> HIDE DEF r, ws
      <4>3. \A p \in Output, u \in WS : p # o \/ u # ws =>
               r.out[p].last_focused[u] = s.out[p].last_focused[u]
        BY <1>1, <4>2, MildRemember
      <4>4. q # o \/ wt # ws
        BY <2>1, <4>1
      <4>5. r.out[q].last_focused[wt] = s.out[q].last_focused[wt]
        BY <1>1, <2>1, <3>1, <4>3, <4>4
      <4> QED
        BY <2>1, <4>5
    <3> QED
      BY <3>2, <3>3
  <2> HIDE DEF v, q, wt, r
  <2>4. /\ r.kb_focus = v /\ v \in Linked(r) /\ r.win[v].output = q
        /\ r.win[v].workspace = wt
    BY <1>3, <1>4, <2>1 DEF v, q, wt
  <2> QED
    BY <2>2, <2>3, <2>4 DEF KeyboardRight
<1> QED
  BY <1>2, <1>3, <1>4, <1>6, <1>7, <1>8

\* xdg_toplevel_unmap passes the keyboard on to a window on the screen.
LEMMA RightUnmap ==
    ASSUME NEW s, Right(s), NEW w \in Linked(s)
    PROVE  Right(UnmapToplevel(s, w))
<1> DEFINE o == s.win[w].output
           ws == s.win[w].workspace
           T == Tiled(s, o)
           was_focused == s.out[o].last_focused[ws] = w
           neighbour == IF "floating" \in s.win[w].flags THEN NoWindow
                        ELSE Or(NextIn(s, T, w), PrevIn(s, T, w))
           r == ForgetFocus(s, o, w)
           t == Unlink(r, w)
           a == FirstIn(t, Tiled(t, o))
           b == FirstIn(t, Floats(t, o))
           next == IF was_focused THEN Or(neighbour, Or(a, b)) ELSE NoWindow
           u == FocusOrClear(t, next)
           Seen(v) == \/ v = NoWindow
                      \/ v \in Linked(t) /\ OnActive(t, v, t.win[v].output)
<1>1. /\ Base(s) /\ s \in ServerState /\ Good(s) /\ KeyboardRight(s)
      /\ w \in Window /\ o \in Live(s) /\ o # NoOutput
      /\ Linked(s) \subseteq Window /\ Range(s.toplevels) = Linked(s)
      /\ ~s.win[w].in_scratchpad
  BY BaseFields, NullAssumption DEF Right, Base, Plain, Simple
<1>2. UnmapToplevel(s, w) = ArrangeOutput(u, o)
  <2>1. UnmapOrdinary(s, w) = IF o = NoOutput THEN t ELSE ArrangeOutput(u, o)
    BY Zenon DEF UnmapOrdinary
  <2> QED
    BY <1>1, <2>1 DEF UnmapToplevel
<1>3. /\ Tame(s, r) /\ Base(r) /\ Nearly(r, {o}) /\ Forgotten(r, w)
      /\ r.win = s.win /\ Live(r) = Live(s) /\ Linked(r) = Linked(s)
      /\ r.kb_focus = s.kb_focus
      /\ s.kb_focus # w => KeyboardRight(r)
  BY RightForgets
<1>4. \A p \in Output : r.out[p].active_workspace = s.out[p].active_workspace
  BY <1>3 DEF Tame, Mild
<1> HIDE DEF r
<1>5. r \in ServerState /\ Good(r) /\ Sound(r)
  BY <1>3, BaseFields
<1>6. /\ Good(t) /\ Sound(t) /\ Linked(t) = Linked(s) \ {w} /\ Live(t) = Live(s)
      /\ t.kb_focus = s.kb_focus
  BY <1>3, <1>5, UnlinkCloses DEF Closes
<1>7. OnlyWindow(r, t, w) /\ t.win[w] = [s.win[w] EXCEPT !.life = "unlinked"]
  BY <1>1, <1>3, <1>5 DEF OnlyWindow, Unlink, ServerState
<1> HIDE DEF t
<1>8. Base(t) /\ Nearly(t, {o})
  <2>1. Simple(t.win[w])
    <3>1. s.win[w] \in Toplevel /\ Simple(s.win[w])
      BY <1>1 DEF ServerState, Base, Plain
    <3> QED
      BY <1>7, <3>1 DEF Simple, Toplevel
  <2>2. w \notin Linked(t) /\ Remembered(t)
    BY <1>6 DEF Sound
  <2>3. Base(t)
    BY <1>1, <1>3, <1>6, <1>7, <2>1, <2>2, OneBase
  <2> QED
    BY <1>1, <1>3, <1>7, <2>2, <2>3, OneNearly
<1>9. t.kb_focus # w => KeyboardRight(t)
  BY <1>1, <1>3, <1>6, <1>7, OneKeyboard
<1>10. Seen(neighbour)
  <2>1. \A v \in {NextIn(s, T, w), PrevIn(s, T, w)} :
           \/ v = NoWindow
           \/ v \in Linked(s) /\ OnActive(s, v, s.win[v].output) /\ s.win[v].output = o
    BY <1>1, WalkOnScreen
  <2>2. NextIn(s, T, w) # w /\ PrevIn(s, T, w) # w
    BY <1>1, WalksAgree DEF Good, Holds
  <2>3. neighbour \in {NextIn(s, T, w), PrevIn(s, T, w), NoWindow}
    BY DEF Or
  <2>4. \A v \in Linked(t) : t.win[v] = s.win[v]
    BY <1>1, <1>3, <1>6, <1>7 DEF OnlyWindow
  <2>5. t.out[o].active_workspace = s.out[o].active_workspace
    <3>1. o \in Output
      BY <1>1, ListedWindows
    <3> QED
      BY <1>4, <1>7, <3>1 DEF OnlyWindow
  <2>6. \A v : v # w /\ v \in Linked(s) /\ OnActive(s, v, s.win[v].output) /\ s.win[v].output = o
                => v \in Linked(t) /\ OnActive(t, v, t.win[v].output)
    BY <1>6, <2>4, <2>5 DEF OnActive
  <2> HIDE DEF neighbour
  <2> QED
    BY <2>1, <2>2, <2>3, <2>6
<1> HIDE DEF neighbour, was_focused
<1>11. Seen(a) /\ Seen(b)
  BY <1>1, <1>6, <1>8, WalkOnScreen
<1> HIDE DEF a, b
<1>12. Seen(next)
  <2>1. next \in {neighbour, a, b, NoWindow}
    BY DEF Or
  <2> HIDE DEF next
  <2> QED
    BY <1>10, <1>11, <2>1
<1> HIDE DEF next
<1>13. next # NoWindow /\ t.kb_focus = next => KeyboardRight(t)
  BY <1>6, <1>9, <1>12
<1>14. Tame(t, u) /\ Base(u) /\ KeyboardRight(u)
  BY <1>8, <1>12, <1>13, TameFocusOrClear
<1> HIDE DEF u
<1>15. Nearly(u, {o}) /\ o \in Live(u)
  BY <1>1, <1>6, <1>8, <1>14, RightTame, TameBase
<1> QED
  BY <1>2, <1>14, <1>15, RightArrangeOutput


\* What the callbacks that move a window begin with: it is forgotten, and goes to a
\* monitor in state x.
Forgets(s, u, w, x) == u = [ForgetFocus(s, s.win[w].output, w) EXCEPT !.win[w] = x]

\* In state x a window of a connected monitor shows exactly where it is on the screen.
Suits(s, x) ==
    /\ x.life = "linked" /\ x.output \in Live(s) /\ Simple(x)
    /\ x.enabled = TRUE <=> x.workspace = s.out[x.output].active_workspace

\* That is as right as it can be before the two monitors are arranged.
LEMMA RightMoves ==
    ASSUME NEW s, NEW w, NEW x, NEW u,
           Right(s), w \in Linked(s), x \in Toplevel, Suits(s, x), Forgets(s, u, w, x)
    PROVE  /\ Base(u) /\ Nearly(u, {s.win[w].output, x.output})
           /\ u.kb_focus = s.kb_focus
           /\ Live(u) = Live(s) /\ Linked(u) = Linked(s)
           /\ OnActive(u, w, x.output) <=> x.enabled = TRUE
<1> DEFINE o == s.win[w].output
           r == ForgetFocus(s, o, w)
           O == {o, x.output}
<1> USE DEF Suits
<1>1. /\ Base(s) /\ Good(s) /\ s \in ServerState /\ Sound(s) /\ w \in Window
      /\ o \in Live(s) /\ Live(s) \subseteq Output
  BY BaseFields DEF Right
<1>2. /\ Tame(s, r) /\ Base(r) /\ r.win = s.win /\ r.kb_focus = s.kb_focus
      /\ Live(r) = Live(s) /\ Linked(r) = Linked(s)
  BY RightForgets
<1>3. Puts(s, u, w, x)
  <2>1. LET t == [ForgetFocus(s, s.win[w].output, w) EXCEPT !.win[w] = x] IN Puts(s, t, w, x)
    BY <1>1, MoveBegins
  <2> QED
    BY <2>1 DEF Forgets
<1>4. Good(u) /\ Remembered(u)
  BY <1>1, <1>3 DEF Puts, Settles, Careful
<1>5. u = [r EXCEPT !.win[w] = x]
  BY DEF Forgets
<1> HIDE DEF r
<1>6. OnlyWindow(r, u, w) /\ u.win[w] = x /\ u.kb_focus = r.kb_focus
  <2>1. r \in ServerState
    BY <1>2, BaseFields
  <2> QED
    BY <1>1, <1>5, <2>1 DEF OnlyWindow, ServerState
<1>7. Base(u) /\ Live(u) = Live(s)
  BY <1>1, <1>2, <1>4, <1>6, OneBase
<1>8. Linked(u) = Linked(s)
  BY <1>1, <1>2, <1>6 DEF OnlyWindow, Linked
<1>9. OnActive(u, w, x.output) <=> x.enabled = TRUE
  <2>1. x.output \in Output
    BY <1>1
  <2>2. u.out[x.output].active_workspace = s.out[x.output].active_workspace
    BY <1>2, <1>6, <2>1 DEF Tame, Mild, OnlyWindow
  <2> QED
    BY <1>6, <2>2 DEF OnActive, Simple
<1>10. Nearly(u, O)
  <2>1. Nearly(s, O)
    BY DEF Right, Nearly, Pict
  <2>2. Nearly(r, O)
    BY <1>2, <2>1, RightTame
  <2> QED
    BY <1>1, <1>2, <1>6, <1>7, <1>9, <2>2, OneNearly
<1> QED
  BY <1>2, <1>6, <1>7, <1>8, <1>9, <1>10

\* workspace::move_to
LEMMA RightMoveToWorkspace ==
    ASSUME NEW s, Right(s), NEW ws \in WS
    PROVE  Right(MoveToWorkspace(s, ws))
<1> DEFINE w == FocusedToplevel(s)
           o == s.win[w].output
           r == ForgetFocus(s, o, w)
           moved == [r.win[w] EXCEPT
                        !.in_scratchpad = FALSE, !.tree = "windows",
                        !.workspace = ws,
                        !.enabled = IF o = NoOutput THEN @
                                    ELSE s.out[o].active_workspace = ws]
           x == [s.win[w] EXCEPT !.workspace = ws, !.enabled = FALSE]
           u == [r EXCEPT !.win[w] = moved]
           v == FocusActive(u, o)
           z == MoveToWorkspace(s, ws)
<1>1. Base(s) /\ s \in ServerState /\ Good(s)
  BY BaseFields DEF Right
<1>2. z = IF w = NoWindow THEN s
          ELSE IF ~s.win[w].in_scratchpad /\ s.win[w].workspace = ws THEN s
          ELSE IF o = NoOutput THEN u
          ELSE ArrangeOutput(v, o)
  <2> HIDE DEF u
  <2> QED
    BY Zenon DEF MoveToWorkspace, u
<1> HIDE DEF z
<1>3. CASE w = NoWindow \/ s.win[w].workspace = ws
  <2>1. w = NoWindow \/ ~s.win[w].in_scratchpad
    BY <1>1, FoundWindows DEF Base, Plain, Simple
  <2>2. z = s
    BY <1>2, <1>3, <2>1
  <2> QED
    BY <2>2 DEF z
<1>4. CASE w # NoWindow /\ s.win[w].workspace # ws
  <2>1. w \in Linked(s) /\ s.kb_focus = w
    BY <1>1, <1>4, FoundWindows DEF FocusedToplevel
  <2>2. /\ w \in Window /\ o \in Live(s) /\ o # NoOutput
        /\ s.win[w] \in Toplevel /\ Simple(s.win[w])
    BY <1>1, <2>1, BaseFields, NullAssumption DEF ServerState, Base, Plain
  <2>3. s.win[w].workspace = s.out[o].active_workspace
    <3> HIDE DEF w
    <3>1. OnActive(s, w, s.win[w].output)
      BY <2>1, RightKeyboard
    <3> QED
      BY <1>1, <2>1, <3>1, OnActivePlain
  <2>4. r.win = s.win
    BY <1>1, ForgetFocusKeeps
  <2>5. moved = x
    BY <1>4, <2>2, <2>3, <2>4 DEF Simple, Toplevel
  <2>6. /\ x \in Toplevel /\ x.life = "linked" /\ x.output = o /\ Simple(x)
        /\ x.enabled = FALSE /\ x.workspace = ws
    BY <2>1, <2>2 DEF Simple, Toplevel, Linked
  <2>7. x.enabled = TRUE <=> x.workspace = s.out[x.output].active_workspace
    BY <1>4, <2>3, <2>6
  <2>8. z = ArrangeOutput(v, o)
    <3> HIDE DEF v
    <3> QED
      BY <1>2, <1>4, <2>2
  <2> HIDE DEF moved, x
  <2>9. /\ Base(u) /\ Nearly(u, {o}) /\ u.kb_focus = w /\ Live(u) = Live(s)
        /\ ~OnActive(u, w, o)
    <3>1. Forgets(s, u, w, x)
      BY <2>5 DEF Forgets
    <3>2. w \in Linked(s) /\ x \in Toplevel /\ Suits(s, x)
      BY <2>1, <2>2, <2>6, <2>7 DEF Suits
    <3> HIDE DEF u, w
    <3>3. /\ Base(u) /\ Nearly(u, {s.win[w].output, x.output})
          /\ u.kb_focus = s.kb_focus /\ Live(u) = Live(s)
          /\ OnActive(u, w, x.output) <=> x.enabled = TRUE
      BY <3>1, <3>2, RightMoves
    <3>4. {s.win[w].output, x.output} = {o}
      BY <2>6
    <3> QED
      BY <2>1, <2>6, <3>3, <3>4
  <2> HIDE DEF u
  <2>10. Tame(u, v) /\ Base(v) /\ KeyboardRight(v)
    BY <2>2, <2>9, TameFocusActive
  <2> HIDE DEF v
  <2>11. Nearly(v, {o}) /\ o \in Live(v)
    BY <2>2, <2>9, <2>10, RightTame, TameBase
  <2>12. Right(ArrangeOutput(v, o))
    BY <2>10, <2>11, RightArrangeOutput
  <2> QED
    BY <2>8, <2>12 DEF z
<1> QED
  BY <1>3, <1>4

\* The neighbour of a monitor in the list is another one.
LEMMA CycleElsewhere ==
    ASSUME NEW s, Good(s), NEW o \in Live(s), NEW step
    PROVE  CycleOutput(s, o, step) # o
<1> DEFINE n == Len(s.outputs)
           i == CHOOSE k \in 1 .. n : s.outputs[k] = o
<1>1. /\ s.outputs \in Seq(Output) /\ IsInjective(s.outputs) /\ n \in Nat
      /\ DOMAIN s.outputs = 1 .. n
  BY LenProperties DEF Good, ServerState
<1>2. i \in 1 .. n /\ s.outputs[i] = o
  BY <1>1 DEF Live, Range
<1>3. CycleOutput(s, o, step) =
         IF n <= 1 THEN NoOutput
         ELSE IF step = "next" THEN s.outputs[IF i = n THEN 1 ELSE i + 1]
         ELSE s.outputs[IF i = 1 THEN n ELSE i - 1]
  BY Zenon DEF CycleOutput
<1>4. o # NoOutput
  BY ListedWindows, NullAssumption DEF Good
<1> HIDE DEF i, n
<1>5. \A k \in 1 .. n : k # i => s.outputs[k] # o
  BY <1>1, <1>2 DEF IsInjective
<1>6. n > 1 => /\ (IF i = n THEN 1 ELSE i + 1) \in 1 .. n
               /\ (IF i = n THEN 1 ELSE i + 1) # i
               /\ (IF i = 1 THEN n ELSE i - 1) \in 1 .. n
               /\ (IF i = 1 THEN n ELSE i - 1) # i
  BY <1>1, <1>2
<1> QED
  BY <1>1, <1>3, <1>4, <1>5, <1>6

\* A window on the screen is on it after a tame step.
LEMMA TameOnActive ==
    ASSUME NEW s, NEW t, Base(s), Tame(s, t), NEW w \in Linked(s),
           OnActive(s, w, s.win[w].output)
    PROVE  w \in Linked(t) /\ OnActive(t, w, t.win[w].output)
<1>1. /\ Linked(t) = Linked(s) /\ Base(t) /\ w \in Window /\ s.win[w].output \in Output
  BY TameBase, BaseFields
<1>2. s.win[w].workspace = s.out[s.win[w].output].active_workspace
  BY OnActivePlain
<1>3. SamePlace(s.win[w], t.win[w])
  BY <1>1, CalmKeeps DEF Tame, Mild
<1>4. t.out[s.win[w].output].active_workspace = s.out[s.win[w].output].active_workspace
  BY <1>1 DEF Tame, Mild
<1> QED
  BY <1>1, <1>2, <1>3, <1>4 DEF OnActive, SamePlace

\* move_to_monitor
LEMMA RightMoveToMonitor ==
    ASSUME NEW s, Right(s), NEW step
    PROVE  Right(MoveToMonitor(s, step))
<1> DEFINE w == FocusedToplevel(s)
           src == s.win[w].output
           dst == CycleOutput(s, src, step)
           ws == s.out[dst].active_workspace
           r == ForgetFocus(s, src, w)
           moved == [r.win[w] EXCEPT
                        !.output = dst, !.enabled = TRUE,
                        !.workspace = s.out[dst].active_workspace]
           x == [s.win[w] EXCEPT !.output = dst, !.enabled = TRUE, !.workspace = ws]
           u == [r EXCEPT !.win[w] = moved]
           first == FirstIn(u, Tiled(u, src))
           v == FocusOrClear(u, first)
           g == [v EXCEPT !.focused_output = dst]
           y == FocusToplevel(g, w)
           z == MoveToMonitor(s, step)
<1>1. Base(s) /\ s \in ServerState /\ Good(s)
  BY BaseFields DEF Right
<1>2. z = IF w = NoWindow THEN s
          ELSE IF src = NoOutput THEN s
          ELSE IF dst = NoOutput THEN s
          ELSE Arrange(y, {src, dst})
  BY Zenon DEF MoveToMonitor
<1> HIDE DEF z
<1>3. CASE w = NoWindow \/ src = NoOutput \/ dst = NoOutput
  <2>1. z = s
    BY <1>2, <1>3
  <2> QED
    BY <2>1 DEF z
<1>4. CASE ~(w = NoWindow \/ src = NoOutput \/ dst = NoOutput)
  <2>1. w \in Linked(s) /\ s.kb_focus = w
    BY <1>1, <1>4, FoundWindows DEF FocusedToplevel
  <2>2. /\ w \in Window /\ src \in Live(s) /\ s.win[w] \in Toplevel
        /\ Simple(s.win[w])
    BY <1>1, <2>1, BaseFields DEF ServerState, Base, Plain
  <2>3. dst \in Live(s) /\ dst \in Output /\ dst # src
    <3>1. dst \in Live(s) \cup {NoOutput}
      BY <1>1, <2>2, OutputsFound
    <3>2. dst # src
      BY <1>1, <2>2, CycleElsewhere
    <3> QED
      BY <1>1, <1>4, <3>1, <3>2, ListedWindows
  <2>4. ws \in WS
    BY <1>1, <2>3 DEF ServerState, OutputState
  <2>5. r.win = s.win
    BY <1>1, ForgetFocusKeeps
  <2>6. moved = x
    BY <2>5
  <2>7. z = Arrange(y, {src, dst})
    <3> HIDE DEF y, w, src, dst
    <3> QED
      BY <1>2, <1>4
  <2> HIDE DEF src, dst
  <2>8. /\ x \in Toplevel /\ x.life = "linked" /\ x.output = dst /\ Simple(x)
        /\ x.enabled = TRUE /\ x.workspace = ws
    BY <2>1, <2>2, <2>3, <2>4 DEF Simple, Toplevel, Linked
  <2>9. Suits(s, x)
    BY <2>3, <2>8 DEF Suits
  <2>10. Forgets(s, u, w, x)
    BY <2>6 DEF Forgets, src
  <2> HIDE DEF u, w, x
  <2>11. /\ Base(u) /\ Nearly(u, {s.win[w].output, x.output})
         /\ u.kb_focus = s.kb_focus
         /\ Live(u) = Live(s) /\ Linked(u) = Linked(s)
         /\ OnActive(u, w, x.output) <=> x.enabled = TRUE
    <3>1. Right(s) /\ w \in Linked(s) /\ x \in Toplevel /\ Suits(s, x) /\ Forgets(s, u, w, x)
      BY <2>1, <2>8, <2>9, <2>10
    <3> QED
      BY <3>1, RightMoves
  <2>12. /\ Nearly(u, {src, dst}) /\ w \in Linked(u)
         /\ OnActive(u, w, u.win[w].output) /\ u.win[w].output = dst
    BY <2>1, <2>8, <2>11 DEF src, OnActive
  <2>13. first = NoWindow \/ (first \in Linked(u) /\ OnActive(u, first, u.win[first].output)
                                /\ u.win[first].output = src)
    BY <2>2, <2>11, WalkOnScreen
  <2> HIDE DEF first
  <2>14. first # NoWindow => u.kb_focus # first
    BY <2>1, <2>3, <2>11, <2>12, <2>13
  <2>15. Tame(u, v) /\ Base(v) /\ KeyboardRight(v)
    BY <2>11, <2>13, <2>14, TameFocusOrClear
  <2> HIDE DEF v
  <2>16. Live(v) = Live(s) /\ Nearly(v, {src, dst})
    BY <2>11, <2>12, <2>15, TameBase, RightTame
  <2>17. Tame(v, g) /\ Base(g) /\ KeyboardRight(g)
    BY <2>3, <2>15, <2>16, TameRefocus
  <2> HIDE DEF g
  <2>18. Live(g) = Live(s) /\ Nearly(g, {src, dst})
    BY <2>15, <2>16, <2>17, TameBase, RightTame
  <2>19. w \in Linked(v) /\ OnActive(v, w, v.win[w].output)
    BY <2>11, <2>12, <2>15, TameOnActive
  <2>20. w \in Linked(g) /\ OnActive(g, w, g.win[w].output)
    BY <2>15, <2>17, <2>19, TameOnActive
  <2>21. Tame(g, y) /\ Base(y) /\ KeyboardRight(y)
    BY <2>17, <2>20, TameFocus
  <2> HIDE DEF y
  <2>22. Live(y) = Live(s) /\ Nearly(y, {src, dst})
    BY <2>17, <2>18, <2>21, TameBase, RightTame
  <2>23. {src, dst} \in SUBSET Live(y)
    BY <2>2, <2>3, <2>22
  <2>24. Right(Arrange(y, {src, dst}))
    BY <2>21, <2>22, <2>23, RightArrange
  <2> QED
    BY <2>7, <2>24 DEF z
<1> QED
  BY <1>3, <1>4

\* What the rules of the theorem say: none makes a window sticky, one that names a
\* workspace focuses the window, and that switches to the workspace.
RulesShow ==
    \A r \in Rules : /\ "sticky" \notin r.on
                     /\ r.workspace # NoWorkspace => r.focused
                     /\ r.focused => ~BackAndForth

\* apply_window_rules then leaves the window on the active workspace of its monitor,
\* or on one that the focused monitor is about to switch to.
LEMMA MappedSimple ==
    ASSUME RulesShow, NEW s, Base(s), NEW w \in Window, s.win[w].life = "fresh",
           NEW rule \in Rules, NEW dialog \in BOOLEAN
    PROVE  LET x == Mapped(s, w, rule, dialog)
           IN  /\ x \in Toplevel /\ x.life = "linked" /\ x.output \in Live(s)
               /\ Simple(x) /\ x.enabled = TRUE
               /\ \/ x.workspace = s.out[x.output].active_workspace
                  \/ rule.focused /\ x.output = s.focused_output
<1> DEFINE o == s.focused_output
           ws == IF o = NoOutput THEN 0 ELSE s.out[o].active_workspace
           x == Mapped(s, w, rule, dialog)
           t == [s.win[w] EXCEPT !.life = "linked", !.output = o, !.workspace = ws]
           m == rule.monitor
           f == (t.flags \cup rule.on) \ rule.off
           n == IF rule.workspace = NoWorkspace THEN t.workspace ELSE rule.workspace
           u == [t EXCEPT !.flags = f, !.workspace = n]
           r == ApplyRule(s, t, rule)
           d == [r EXCEPT !.flags = @ \cup {"floating"}]
<1>1. /\ s \in ServerState /\ Good(s) /\ o \in Live(s) /\ o \in Output /\ o # NoOutput
      /\ s.win[w] \in Toplevel /\ Simple(s.win[w]) /\ Live(s) \subseteq Output
  <2>1. /\ s \in ServerState /\ Good(s) /\ o \in Live(s) /\ Live(s) \subseteq Output
    BY BaseFields
  <2>2. s.win[w] \in Toplevel
    BY <2>1 DEF ServerState
  <2>3. Simple(s.win[w])
    BY DEF Base, Plain
  <2> QED
    BY <2>1, <2>2, <2>3, NullAssumption
<1>2. /\ x \in Toplevel /\ x.life = "linked" /\ x.output \in Live(s) \cup {o}
      /\ x.in_scratchpad = s.win[w].in_scratchpad
      /\ x.tree = s.win[w].tree /\ x.enabled = s.win[w].enabled
  BY <1>1, MappedType
<1>3. ws = s.out[o].active_workspace /\ ws \in WS
  BY <1>1 DEF ServerState, OutputState
<1>4. /\ rule.on \in SUBSET Flag /\ rule.workspace \in WS \cup {NoWorkspace}
      /\ "sticky" \notin rule.on
      /\ rule.workspace # NoWorkspace => rule.focused
  BY RuleAssumption DEF RuleType, RulesShow
<1>5. x = IF dialog THEN d ELSE r
  <2> HIDE DEF r
  <2>1. d = [r EXCEPT !.flags = @ \cup {"floating"}]
    OBVIOUS
  <2> HIDE DEF d
  <2> QED
    BY <2>1, Zenon DEF Mapped, r
<1>6. t \in Toplevel /\ t.flags = s.win[w].flags /\ t.workspace = ws /\ t.output = o
  <2> HIDE DEF ws, o
  <2> QED
    BY <1>1, <1>3 DEF Toplevel
<1>7. r = IF m \notin Live(s) THEN u
          ELSE [u EXCEPT !.output = m, !.workspace = s.out[m].active_workspace]
  <2> HIDE DEF t
  <2>1. u = [t EXCEPT !.flags = (@ \cup rule.on) \ rule.off,
                      !.workspace = IF rule.workspace = NoWorkspace
                                    THEN @ ELSE rule.workspace]
    BY <1>6 DEF Toplevel
  <2> HIDE DEF u
  <2> QED
    BY <2>1, Zenon DEF ApplyRule
<1> HIDE DEF x, t, o, ws
<1>8. f \in SUBSET Flag /\ n \in WS /\ "sticky" \notin f /\ (n = ws \/ rule.focused)
  <2>1. t.flags \in SUBSET Flag /\ "sticky" \notin t.flags
    BY <1>1, <1>6 DEF Toplevel, Simple
  <2>2. f \in SUBSET Flag /\ "sticky" \notin f
    BY <1>4, <2>1
  <2>3. n \in WS
    BY <1>3, <1>4, <1>6
  <2>4. n = ws \/ rule.focused
    <3>1. n = ws \/ rule.workspace # NoWorkspace
      BY <1>6
    <3> HIDE DEF n
    <3> QED
      BY <1>4, <3>1, Zenon
  <2> QED
    BY <2>2, <2>3, <2>4, Zenon
<1> HIDE DEF f, n
<1>9. u \in Toplevel /\ u.output = o /\ u.workspace = n /\ u.flags = f
  BY <1>6, <1>8 DEF Toplevel
<1> HIDE DEF u
<1>10. /\ r \in Toplevel /\ "sticky" \notin r.flags
       /\ \/ r.workspace = s.out[r.output].active_workspace
          \/ rule.focused /\ r.output = o
  <2>1. CASE m \notin Live(s)
    BY <1>3, <1>7, <1>8, <1>9, <2>1
  <2>2. CASE m \in Live(s)
    <3>1. m \in Output
      BY <1>1, <2>2
    <3>2. s.out[m].active_workspace \in WS
      BY <1>1, <3>1 DEF ServerState, OutputState
    <3> HIDE DEF m
    <3>3. r = [u EXCEPT !.output = m, !.workspace = s.out[m].active_workspace]
      BY <1>7, <2>2
    <3> HIDE DEF r
    <3> QED
      BY <1>8, <1>9, <3>1, <3>2, <3>3 DEF Toplevel
  <2> QED
    BY <2>1, <2>2
<1> HIDE DEF r
<1>11. /\ "sticky" \notin x.flags
       /\ x.workspace = r.workspace /\ x.output = r.output
  <2>1. /\ d.flags = r.flags \cup {"floating"}
        /\ d.workspace = r.workspace /\ d.output = r.output
    BY <1>10 DEF Toplevel
  <2> HIDE DEF d
  <2> QED
    BY <1>5, <1>10, <2>1
<1>12. Simple(x) /\ x.enabled = TRUE
  BY <1>1, <1>2, <1>11 DEF Simple
<1> QED
  BY <1>1, <1>2, <1>10, <1>11, <1>12 DEF o, x

\* xdg_toplevel_map
LEMMA RightMap ==
    ASSUME RulesShow, NEW s, Right(s), NEW w \in Window, s.win[w].life = "fresh",
           NEW rule \in Rules, NEW dialog \in BOOLEAN
    PROVE  Right(MapToplevel(s, w, rule, dialog))
<1> DEFINE new == Mapped(s, w, rule, dialog)
           o == new.output
           list == IF NewWindowMaster THEN <<w>> \o s.toplevels
                   ELSE Append(s.toplevels, w)
           t == [s EXCEPT !.win[w] = new, !.toplevels = list]
           y == IF rule.focused /\ new.output # NoOutput
                THEN SwitchTo(t, new.workspace) ELSE t
           x == FocusToplevel(y, w)
           z == ArrangeOutput(x, o)
<1>1. /\ Base(s) /\ s \in ServerState /\ Good(s) /\ Sound(s) /\ KeyboardRight(s)
      /\ s.focused_output \in Live(s) /\ Live(s) \subseteq Output
  BY BaseFields DEF Right
<1>2. w \notin Linked(s) /\ s.kb_focus # w
  <2>1. w \notin Linked(s)
    BY DEF Linked
  <2> QED
    BY <1>1, <2>1 DEF KeyboardRight
<1>3. MapToplevel(s, w, rule, dialog) = z
  <2>1. ~PadShown(s)
    BY <1>1 DEF Base, Plain, PadShown
  <2> HIDE DEF z
  <2> QED
    BY <2>1, Zenon DEF MapToplevel, z, x, y, t, list, o, new
<1>4. /\ new \in Toplevel /\ new.life = "linked" /\ o \in Live(s)
      /\ Simple(new) /\ new.enabled = TRUE
      /\ \/ new.workspace = s.out[o].active_workspace
         \/ rule.focused /\ o = s.focused_output
  BY <1>1, MappedSimple
<1>5. o # NoOutput /\ o \in Output /\ new.workspace \in WS
  BY <1>1, <1>4, NullAssumption DEF Toplevel
<1> HIDE DEF new
<1>6. Puts(s, t, w, new)
  BY <1>1, <1>2, <1>4, LinkPuts
<1>7. OnlyWindow(s, t, w) /\ t.win[w] = new /\ t.kb_focus = s.kb_focus
  <2> HIDE DEF list
  <2> QED
    BY <1>1, <1>4 DEF OnlyWindow, ServerState
<1> HIDE DEF t, o, list
<1>8. Base(t) /\ Live(t) = Live(s)
  <2>1. Good(t) /\ Remembered(t)
    BY <1>1, <1>6 DEF Puts, Settles, Careful
  <2>2. Simple(t.win[w]) /\ t.win[w].output \in Live(s)
    BY <1>4, <1>7 DEF o
  <2> QED
    BY <1>1, <1>7, <2>1, <2>2, OneBase
<1>9. w \in Linked(t) /\ t.win[w].output = o /\ t.win[w].enabled = TRUE
      /\ t.win[w].workspace = new.workspace
  BY <1>4, <1>7 DEF Linked, o
<1>10. KeyboardRight(t)
  BY <1>1, <1>2, <1>7, OneKeyboard
<1>11. OnActive(t, w, o) => Nearly(t, {o})
  <2>1. Nearly(s, {o})
    BY <1>1, RightTame, TameSame
  <2> QED
    BY <1>2, <1>7, <1>8, <1>9, <2>1, OneNearly
<1>12. t.out = s.out /\ t.focused_output = s.focused_output
  BY <1>7 DEF OnlyWindow
<1>13. /\ y = t \/ Right(y)
       /\ Base(y) /\ KeyboardRight(y) /\ Calm(t, y)
       /\ y.out[o].active_workspace = new.workspace
  <2>1. CASE rule.focused
    <3>1. y = SwitchTo(t, new.workspace)
      BY <1>5, <2>1 DEF o
    <3> HIDE DEF y
    <3>2. /\ y = t \/ Right(y)
          /\ \A p \in Output \ {t.focused_output} :
                y.out[p].active_workspace = t.out[p].active_workspace
          /\ ~BackAndForth => y.out[t.focused_output].active_workspace = new.workspace
      BY <1>5, <1>8, <1>10, <3>1, RightSwitchTo
    <3>3. ~BackAndForth
      BY <2>1 DEF RulesShow
    <3>4. y.out[o].active_workspace = new.workspace
      BY <1>4, <1>5, <1>12, <3>2, <3>3
    <3>5. Calm(t, y)
      BY <1>5, <1>8, <3>1, BaseFields, CalmSwitchTo
    <3> QED
      BY <1>8, <1>10, <3>2, <3>4, <3>5 DEF Right
  <2>2. CASE ~rule.focused
    <3>1. y = t
      BY <2>2, Zenon
    <3> HIDE DEF y
    <3>2. Calm(t, t) /\ t.out[o].active_workspace = new.workspace
      BY <1>4, <1>8, <1>12, <2>2, BaseFields, CalmSame
    <3> QED
      BY <1>8, <1>10, <3>1, <3>2
  <2> QED
    BY <2>1, <2>2
<1> HIDE DEF y
<1>14. /\ w \in Linked(y) /\ Live(y) = Live(s) /\ y.win[w].output = o
       /\ y.win[w].workspace = new.workspace
  <2>1. SamePlace(t.win[w], y.win[w]) /\ Linked(y) = Linked(t) /\ Live(y) = Live(t)
    BY <1>13, CalmKeeps
  <2> QED
    BY <1>8, <1>9, <2>1 DEF SamePlace
<1>15. OnActive(y, w, y.win[w].output)
  BY <1>13, <1>14 DEF OnActive
<1>16. Nearly(y, {o})
  <2>1. CASE y = t
    BY <1>11, <1>14, <1>15, <2>1
  <2>2. CASE Right(y)
    BY <1>13, <2>2, RightTame, TameSame, BaseFields
  <2> QED
    BY <1>13, <2>1, <2>2
<1>17. Tame(y, x) /\ Base(x) /\ KeyboardRight(x)
  BY <1>13, <1>14, <1>15, TameFocus
<1> HIDE DEF x
<1>18. Live(x) = Live(s) /\ Nearly(x, {o})
  BY <1>13, <1>14, <1>16, <1>17, TameBase, RightTame
<1>19. Right(z)
  BY <1>4, <1>17, <1>18, RightArrangeOutput
<1> QED
  BY <1>3, <1>19

----------------------------------------------------------------------------
(* The screen stays right *)

\* What the theorem assumes of an instance: windows enter no scratchpad, are not sticky,
\* are not mapped again and ask for nothing, monitors are plugged in but not taken away,
\* and layouts are tabbed only where there is one.
ScreenAlone ==
    /\ PadsUnused /\ RulesShow
    /\ {"disable", "unplug", "activate", "remap", "request_fullscreen", "sticky"}
          \cap Events = {}
    /\ Connected # {}
    /\ \/ NeverTabbed
       \/ "plug" \notin Events /\ \A o \in Connected, p \in Connected : o = p

\* At first no window is mapped.
LEMMA RightInit ==
    ASSUME ScreenAlone, Init
    PROVE  Right(server)
<1>1. PICK order \in Orders(Connected) :
         /\ server.outputs = order
         /\ server.focused_output = IF order = <<>> THEN NoOutput
                                    ELSE order[Len(order)]
  BY InitFields
<1>2. /\ server.win = [w \in Window |-> NewToplevelState]
      /\ server.out = [o \in Output |-> NewOutputState]
      /\ server.kb_focus = NoWindow /\ server.shown_pads = {}
      /\ server.crashed = FALSE
  BY InitFields
<1>3. Linked(server) = {}
  BY <1>2 DEF Linked, NewToplevelState
<1>4. Live(server) = Connected /\ Live(server) # {}
  <2>1. /\ Cardinality(Connected) \in Nat
        /\ order \in [1 .. Cardinality(Connected) -> Connected] /\ IsInjective(order)
    BY ConnectedAssumption, FS_CardinalityType DEF Orders
  <2>2. Range(order) \subseteq Connected
    BY <2>1 DEF Range
  <2>3. Connected \subseteq Range(order)
    <3>1. order \in Injection(1 .. Cardinality(Connected), Connected)
      BY <2>1 DEF Injection, IsInjective
    <3>2. Cardinality(1 .. Cardinality(Connected)) = Cardinality(Connected)
      BY <2>1, FS_Interval
    <3>3. order \in Surjection(1 .. Cardinality(Connected), Connected)
      BY <3>1, <3>2, ConnectedAssumption, FS_Injection
    <3> QED
      BY <3>3 DEF Surjection, Range
  <2> QED
    BY <1>1, <2>2, <2>3 DEF Live, ScreenAlone
<1>5. \A o \in Output : /\ server.out[o].overview = "off"
                        /\ \A ws \in WS : server.out[o].layout_mode[ws] = DefaultLayout
                        /\ \A ws \in WS : server.out[o].last_focused[ws] = NoWindow
  BY <1>2 DEF NewOutputState
<1>6. Good(server) /\ Hosted(server) /\ Live(server) \subseteq Output
  <2>1. Good(server) /\ Hosted(server)
    BY InitGood, InitHosted
  <2> QED
    BY <2>1, ListedWindows DEF Good
<1>7. Remembered(server)
  BY <1>5, <1>6 DEF Remembered, Owns
<1>8. Plain(server)
  BY <1>2, <1>5 DEF Plain, Simple, NewToplevelState
<1>9. TabsAlone(server)
  BY <1>4, <1>5 DEF TabsAlone, ScreenAlone, NeverTabbed
<1>10. Base(server)
  BY <1>2, <1>4, <1>6, <1>7, <1>8, <1>9 DEF Base
<1>11. KeyboardRight(server)
  BY <1>2, NullAssumption DEF KeyboardRight
<1>12. \A p : Mine(server, p) = {} /\ Tiled(server, p) = {}
  BY <1>3 DEF Mine, Tiled
<1>13. \A p : Pict(server, p)
  BY <1>12 DEF Pict, Loose
<1> QED
  BY <1>10, <1>11, <1>13 DEF Right

\* What the screen shows is right.
LEMMA RightShows ==
    ASSUME NEW s, Right(s), server.win = s.win, server.out = s.out,
           server.kb_focus = s.kb_focus, server.shown_pads = s.shown_pads,
           server.outputs = s.outputs
    PROVE  ScreenRight
<1>1. Linked(server) = Linked(s) /\ Live(server) = Live(s)
  BY DEF Linked, Live
<1>2. \A w, o : /\ OnActive(server, w, o) <=> OnActive(s, w, o)
                /\ Tiled(server, o) = Tiled(s, o)
                /\ ActiveLayout(server, o) = ActiveLayout(s, o)
  BY <1>1, Zenon DEF OnActive, Tiled, ActiveLayout
<1>3. Base(s) /\ KeyboardRight(s)
  BY DEF Right
<1>4. \A w \in Linked(s) : /\ w \in Window /\ s.win[w].output \in Live(s)
                           /\ s.win[w].tree = "windows"
                           /\ s.win[w].enabled \in BOOLEAN
  <2>1. \A w \in Linked(s) : w \in Window /\ s.win[w].output \in Live(s)
    BY <1>3, BaseFields
  <2>2. \A w \in Linked(s) : s.win[w].tree = "windows"
    BY <1>3, <2>1 DEF Base, Plain, Simple
  <2>3. \A w \in Linked(s) : s.win[w].enabled \in BOOLEAN
    BY <1>3, <2>1, BaseFields DEF ServerState, Toplevel
  <2> QED
    BY <2>1, <2>2, <2>3
<1>5. \A w \in Linked(s) : Shown(server, w) <=> s.win[w].enabled = TRUE
  BY <1>1, <1>4, Zenon DEF Shown
<1>6. \A w : Shown(server, w) => w \in Linked(s)
  BY <1>1 DEF Shown
<1>7. OneTabShown
  <2> SUFFICES ASSUME NEW o \in Live(s), ActiveLayout(s, o) = "tabbed", Tiled(s, o) # {}
               PROVE  \E w \in Tiled(s, o) :
                         \A v \in Tiled(s, o) : Shown(server, v) <=> v = w
    BY <1>1, <1>2 DEF OneTabShown
  <2>1. PICK f \in Tiled(s, o) : \A v \in Tiled(s, o) : s.win[v].enabled = TRUE <=> v = f
    BY DEF Right, Pict, Fronted
  <2>2. \A v \in Tiled(s, o) : Shown(server, v) <=> s.win[v].enabled = TRUE
    BY <1>5 DEF Tiled
  <2> QED
    BY <2>1, <2>2
<1>8. FocusVisible
  <2> SUFFICES ASSUME s.kb_focus \in Window
               PROVE  Shown(server, s.kb_focus)
    BY DEF FocusVisible
  <2>1. s.kb_focus \in Linked(s)
    BY <1>3 DEF KeyboardRight
  <2>2. s.win[s.kb_focus].enabled = TRUE
    BY <2>1, RightKeyboard
  <2> QED
    BY <1>5, <2>1, <2>2
<1>9. OnlyActiveShown
  <2>1. ASSUME NEW w \in Linked(s)
        PROVE  LET o == s.win[w].output
               IN  /\ s.win[w].enabled = TRUE => OnActive(s, w, o)
                   /\ OnActive(s, w, o) /\ s.win[w].enabled # TRUE =>
                          ActiveLayout(s, o) = "tabbed" /\ w \in Tiled(s, o)
    <3> DEFINE o == s.win[w].output
    <3>1. o \in Live(s) /\ Pict(s, o) /\ w \in Mine(s, o)
      BY <1>4 DEF Right, Mine
    <3>2. w \in Tiled(s, o) => OnActive(s, w, o)
      BY DEF Tiled
    <3> HIDE DEF o
    <3> QED
      BY <3>1, <3>2 DEF Pict, Loose, o
  <2> QED
    BY <1>1, <1>2, <1>5, <2>1 DEF OnlyActiveShown, win
<1>10. FocusTracked
  BY <1>3 DEF FocusTracked, KeyboardRight, win, out
<1> QED
  BY <1>7, <1>8, <1>9, <1>10 DEF ScreenRight

\* Clients.
LEMMA RightClientStep ==
    ASSUME ScreenAlone, Right(server), ClientStep
    PROVE  Right(server')
<1> DEFINE s == server
           t == server'
<1> HIDE DEF s, t
<1>1. {"activate", "remap", "request_fullscreen"} \cap Events = {} /\ RulesShow
  BY DEF ScreenAlone
<1>2. Right(s)
  BY DEF s
<1>3. PICK w \in Window :
         \/ New(w)
         \/ \E rule \in Rules, dialog \in BOOLEAN : Map(w, rule, dialog)
         \/ Destroy(w)
         \/ RequestFullscreen(w)
         \/ Activate(w)
  BY DEF ClientStep
<1>4. ASSUME New(w)
      PROVE  Right(t)
  <2>1. s.win[w].life = "free" /\ t = [s EXCEPT !.win[w].life = "fresh"]
    BY <1>4 DEF New, s, t
  <2>2. w \notin Linked(s)
    BY <2>1 DEF Linked
  <2> QED
    BY <1>2, <2>1, <2>2, RightObjects
<1>5. ASSUME NEW rule \in Rules, NEW dialog \in BOOLEAN, Map(w, rule, dialog)
      PROVE  Right(t)
  <2>1. s.win[w].life = "fresh" /\ t = MapToplevel(s, w, rule, dialog)
    BY <1>1, <1>5 DEF Map, Occurs, s, t
  <2> QED
    BY <1>1, <1>2, <2>1, RightMap
<1>6. ASSUME Destroy(w)
      PROVE  Right(t)
  <2>1. s.win[w].life \in {"fresh", "unlinked"} /\ t = DestroyToplevel(s, w)
    BY <1>6 DEF Destroy, s, t
  <2>2. w \notin Linked(s)
    BY <2>1 DEF Linked
  <2> QED
    BY <1>2, <2>1, <2>2, RightObjects
<1>7. ~RequestFullscreen(w) /\ ~Activate(w)
  BY <1>1 DEF RequestFullscreen, Activate, Occurs
<1> QED
  BY <1>3, <1>4, <1>5, <1>6, <1>7 DEF t

\* The pointer, wherever it is over a connected monitor.
LEMMA RightPointerStep ==
    ASSUME Right(server), PointerStep
    PROVE  Right(server')
<1> DEFINE s == server
           t == server'
<1> HIDE DEF s, t
<1>1. Right(s)
  BY DEF s
<1>2. \A at \in UnderCursor(s) : at \in Live(s) \cup {NoOutput}
  BY DEF UnderCursor
<1>3. ASSUME NEW w, NEW at, Unmap(w, at)
      PROVE  Right(t)
  <2> DEFINE u == UnmapToplevel(s, w)
  <2> HIDE DEF u
  <2>1. w \in Linked(s) /\ at \in Live(s) \cup {NoOutput} /\ t = PointerRefresh(u, at)
    BY <1>2, <1>3 DEF Unmap, s, t, u
  <2>2. Right(u)
    BY <1>1, <2>1, RightUnmap DEF u
  <2>3. Live(u) = Live(s)
    <3>1. Closes(s, u, w)
      BY <1>1, <2>1, BaseFields, UnmapCloses DEF Right, u
    <3> QED
      BY <3>1 DEF Closes, Shifts, Live
  <2> QED
    BY <2>1, <2>2, <2>3, RightPointer
<1>4. ASSUME NEW w, Click(w)
      PROVE  Right(t)
  <2>1. w \in Clickable(s) /\ t = FocusToplevel(s, w)
    BY <1>4 DEF Click, s, t
  <2> QED
    BY <1>1, <2>1, RightClick
<1>5. ASSUME NEW at, Hover(at)
      PROVE  Right(t)
  <2>1. at \in UnderCursor(s) /\ t = PointerRefresh(s, at)
    BY <1>5 DEF Hover, s, t
  <2> QED
    BY <1>1, <1>2, <2>1, RightPointer
<1> QED
  BY <1>3, <1>4, <1>5 DEF PointerStep, t

\* The user.
LEMMA RightUserStep ==
    ASSUME ScreenAlone, Right(server), UserStep
    PROVE  Right(server') \/ server' = Crash(server)
<1> DEFINE s == server
           t == server'
<1> HIDE DEF s, t
<1>1. /\ {"scratchpad", "named", "sticky"} \cap Events = {}
      /\ NeverTabbed => "tabbed" \notin Events
  BY DEF ScreenAlone, PadsUnused, NeverTabbed
<1>2. Right(s) /\ Base(s) /\ s \in ServerState
  BY BaseFields DEF s, Right
<1>3. ASSUME NEW ws \in WS, Switch(ws) \/ SendToWorkspace(ws)
      PROVE  Right(t)
  <2>1. t = SwitchTo(s, ws) \/ t = MoveToWorkspace(s, ws)
    BY <1>3 DEF Switch, SendToWorkspace, s, t
  <2>2. Right(SwitchTo(s, ws))
    <3>1. SwitchTo(s, ws) = s \/ Right(SwitchTo(s, ws))
      BY <1>2, RightSwitchTo DEF Right
    <3> QED
      BY <1>2, <3>1
  <2>3. Right(MoveToWorkspace(s, ws))
    BY <1>2, RightMoveToWorkspace
  <2> QED
    BY <2>1, <2>2, <2>3
<1>4. ASSUME NEW step, FocusOtherMonitor(step) \/ SendToMonitor(step)
      PROVE  Right(t)
  <2>1. t = FocusMonitor(s, step) \/ t = MoveToMonitor(s, step)
    BY <1>4 DEF FocusOtherMonitor, SendToMonitor, s, t
  <2> QED
    BY <1>2, <2>1, RightFocusMonitor, RightMoveToMonitor
<1>5. \A p : ~Hide(p) /\ ~TogglePad(p)
  BY <1>1 DEF Hide, TogglePad, Occurs
<1>6. ASSUME NEW flag \in Flag, Toggle(flag)
      PROVE  Right(t)
  <2> DEFINE w == FocusedToplevel(s)
  <2> HIDE DEF w
  <2>1. flag \in Flag \ {"sticky"} /\ w # NoWindow /\ t = ToggleFlag(s, w, flag)
    BY <1>1, <1>6 DEF Toggle, Occurs, s, t, w
  <2>2. w \in Linked(s) /\ s.kb_focus = w
    BY <1>2, <2>1, FoundWindows DEF FocusedToplevel, w
  <2> QED
    BY <1>2, <2>1, <2>2, RightToggleFlag
<1>7. ASSUME NEW mode \in Layout, ChooseLayout(mode)
      PROVE  Right(t)
  <2>1. /\ mode \in Events
        /\ t = SetLayout(s, mode) \/ t = ToggleLayout(s, mode) \/ t = CycleLayout(s, mode)
    BY <1>7 DEF ChooseLayout, Occurs, s, t
  <2>2. NeverTabbed => mode # "tabbed"
    BY <1>1, <2>1
  <2> QED
    BY <1>2, <2>1, <2>2, RightLayouts
<1>8. ASSUME MoveFocus
      PROVE  Right(t)
  <2>1. \/ t = FocusLeft(s) \/ t = FocusRight(s)
        \/ t = FocusNext(s) \/ t = FocusPrev(s)
        \/ t = FocusNextFloat(s) \/ t = FocusPrevFloat(s)
        \/ t = FocusOtherMode(s)
    BY <1>8, Zenon DEF MoveFocus, s, t
  <2> QED
    BY <1>2, <2>1, RightFocusCommands
<1>9. ASSUME Reorder
      PROVE  Right(t) \/ t = Crash(s)
  <2>1. \/ t = SwapLeft(s) \/ t = SwapRight(s)
        \/ t = SwapNext(s) \/ t = SwapPrev(s)
        \/ t = SwapMaster(s) \/ t = Cycle(s)
    BY <1>9, Zenon DEF Reorder, s, t
  <2> QED
    BY <1>2, <2>1, RightReorder
<1> QED
  BY <1>3, <1>4, <1>5, <1>6, <1>7, <1>8, <1>9 DEF UserStep, s, t

\* Monitors and the session.
LEMMA RightMonitorStep ==
    ASSUME ScreenAlone, Right(server), MonitorStep
    PROVE  Right(server')
<1> DEFINE s == server
           t == server'
<1> HIDE DEF s, t
<1>1. /\ {"disable", "unplug"} \cap Events = {}
      /\ "plug" \in Events => NeverTabbed
  BY DEF ScreenAlone
<1>2. Right(s)
  BY DEF s
<1>3. \A o : ~Unplug(o) /\ ~TurnOff(o) /\ ~TurnOn(o)
  BY <1>1 DEF Unplug, TurnOff, TurnOn, Occurs
<1>4. ASSUME NEW o \in Output, Plug(o)
      PROVE  Right(t)
  <2>1. NeverTabbed /\ o \notin Live(s) /\ t = NewOutput(s, o)
    BY <1>1, <1>4 DEF Plug, Occurs, s, t
  <2> QED
    BY <1>2, <2>1, RightNewOutput
<1>5. ASSUME Resume
      PROVE  Right(t)
  <2>1. t = SessionActive(s)
    BY <1>5 DEF Resume, s, t
  <2> QED
    BY <1>2, <2>1, RightSessionActive
<1> QED
  BY <1>3, <1>4, <1>5 DEF MonitorStep, t

\* The screen is right, or was when the server crashed.
RightUntilCrash == \E s : Right(s) /\ (server = s \/ server = Crash(s))

\* Windows open, close, move between workspaces and monitors and change layouts and
\* flags in any order: every workspace shows its own windows and no other's, of a tabbed
\* one exactly one, and the keyboard is on a window that shows and that its workspace
\* remembers.
THEOREM ScreenStaysRight ==
    ASSUME ScreenAlone
    PROVE  Spec => []ScreenRight
<1>1. Init => RightUntilCrash
  BY RightInit DEF RightUntilCrash
<1>2. RightUntilCrash /\ [Next]_vars => RightUntilCrash'
  <2>1. RightUntilCrash /\ Next => RightUntilCrash'
    <3> SUFFICES ASSUME RightUntilCrash, Next
                 PROVE  RightUntilCrash'
      OBVIOUS
    <3>1. PICK s : Right(s) /\ (server = s \/ server = Crash(s))
      BY DEF RightUntilCrash
    <3>2. ~server.crashed
      BY DEF Next, ClientStep, PointerStep, UserStep, MonitorStep, New, Map, Destroy,
             RequestFullscreen, Activate, Unmap, Click, Hover, Switch, SendToWorkspace,
             FocusOtherMonitor, SendToMonitor, Hide, TogglePad, Toggle, ChooseLayout,
             MoveFocus, Reorder, Plug, Unplug, TurnOff, TurnOn, Resume, Occurs
    <3>3. s \in ServerState
      BY <3>1, BaseFields DEF Right
    <3>4. Crash(s).crashed = TRUE
      BY <3>3 DEF Crash, ServerState
    <3>5. Right(server)
      BY <3>1, <3>2, <3>4
    <3>6. Right(server') \/ server' = Crash(server)
      BY <3>5, RightClientStep, RightPointerStep, RightUserStep, RightMonitorStep DEF Next
    <3> QED
      BY <3>5, <3>6 DEF RightUntilCrash
  <2>2. RightUntilCrash /\ UNCHANGED vars => RightUntilCrash'
    BY DEF vars, RightUntilCrash
  <2> QED
    BY <2>1, <2>2
<1>3. RightUntilCrash => ScreenRight
  <2> SUFFICES ASSUME NEW s, Right(s), server = s \/ server = Crash(s)
               PROVE  ScreenRight
    BY DEF RightUntilCrash
  <2>1. s \in ServerState
    BY BaseFields DEF Right
  <2>2. /\ server.win = s.win /\ server.out = s.out
        /\ server.kb_focus = s.kb_focus /\ server.shown_pads = s.shown_pads
        /\ server.outputs = s.outputs
    BY <2>1, CrashFields
  <2> QED
    BY <2>2, RightShows
<1> QED
  BY <1>1, <1>2, <1>3, PTL DEF Spec

=============================================================================
