------------------------------ MODULE Layouts ------------------------------
(***************************************************************************)
(* The rectangles of the layouts (arrange_windows_impl, arrange_scratchpad  *)
(* and arrange_named_scratchpad in src/nnwm.cpp) of one workspace, as its   *)
(* windows come and go and its layout, ratio and configuration change.      *)
(* WindowManager says which windows a layout places and which of them are   *)
(* shown; this module says where.  A ratio is a percentage, the rectangle is the  *)
(* window's with its borders, and Animation has what leads to it.           *)
(***************************************************************************)
EXTENDS Integers, FiniteSets

CONSTANTS
    Setup,      \* configurations and screens: [area, screen, inner, outer, smart,
                \* column, tabs, tab_bar, tab_smart]
    Ratio,      \* master ratios, in percent: multiples of the step, min to max
    MaxTiles    \* bound: windows on the workspace, and in the scratchpad

VARIABLE desk   \* one workspace of one output, and the scratchpad

Rect == [x : Int, y : Int, w : Int, h : Int]

\* no size, gap or ratio of the configuration is refused
ASSUME LayoutConstants ==
    /\ Setup \subseteq [screen : Rect, area : Rect, inner : Int, outer : Int,
                        smart : BOOLEAN, column : Int, tab_bar : Int, tab_smart : BOOLEAN,
                        tabs : {"top", "bottom", "left", "right"}]
    /\ Ratio \subseteq Int /\ MaxTiles \in Nat

Box(x, y, w, h) == [x |-> x, y |-> y, w |-> w, h |-> h]
Shrunk(box, gap) == Box(box.x + gap, box.y + gap, box.w - 2 * gap, box.h - 2 * gap)
Turned(box) == Box(box.y, box.x, box.h, box.w)
Nowhere == Box(0, 0, 0, 0)

----------------------------------------------------------------------------
(* The layouts: the rectangle of each of n windows in a box *)

\* a configured gap, 0 around a lone window if gaps are smart
Gap(setup, n, gap) == IF n = 1 /\ setup.smart THEN 0 ELSE gap

\* mutant: the last window of the stack is as high as the others
HTileEven(box, gap, n, ratio) ==
    LET master == (box.w * ratio) \div 100
        each   == (box.h - (n - 2) * gap) \div (n - 1)
    IN  [i \in 1..n |->
            IF n = 1 THEN box
            ELSE IF i = 1 THEN Box(box.x, box.y, master, box.h)
            ELSE Box(box.x + master + gap, box.y + (i - 2) * (each + gap),
                     box.w - (master + gap), each)]

\* master on the left, the others in a column whose last one takes the rest
HTile(box, gap, n, ratio) ==
    LET master == (box.w * ratio) \div 100
        each   == (box.h - (n - 2) * gap) \div (n - 1)
        top(i) == (i - 2) * (each + gap)
    IN  [i \in 1..n |->
            IF n = 1 THEN box
            ELSE IF i = 1 THEN Box(box.x, box.y, master, box.h)
            ELSE Box(box.x + master + gap, box.y + top(i), box.w - (master + gap),
                     IF i < n THEN each ELSE box.h - top(i))]

\* master on top, the others in a row
VTile(box, gap, n, ratio) ==
    LET turned == HTile(Turned(box), gap, n, ratio)
    IN  [i \in 1..n |-> Turned(turned[i])]

\* mutant: a strip is scrolled to its first window
FirstTile(d) == 1

\* the window a strip is scrolled to: last_focused, or the first tiled one
FrontTile(d) == IF d.front = 0 THEN 1 ELSE d.front

\* columns of a fraction of the screen; the front one is centred, unless that
\* would leave a hole before the first.  "scrolled" is out->scroll_offset
HScroll(d) ==
    LET s == d.setup
        pitch == (s.area.w * s.column) \div 100 + s.inner
        middle == s.outer + (FrontTile(d) - 1) * pitch + (pitch - s.inner) \div 2
        scrolled == IF middle > s.area.w \div 2 THEN middle - s.area.w \div 2 ELSE 0
        origin == s.area.x + s.outer - scrolled
    IN  [i \in 1..d.tiles |-> Box(origin + (i - 1) * pitch, s.area.y + s.outer,
                                  pitch - s.inner, s.area.h - 2 * s.outer)]

\* rows of a whole screen; the front one fills it
VScroll(d) ==
    LET s == d.setup
        box == Shrunk(s.area, s.outer)
        origin == box.y - (FrontTile(d) - 1) * (box.h + s.inner)
    IN  [i \in 1..d.tiles |->
            Box(box.x, origin + (i - 1) * (box.h + s.inner), box.w, box.h)]

\* where the tab bar and the content of a tabbed workspace are
TabHeight(d) == IF d.tiles = 1 /\ d.setup.tab_smart THEN 0 ELSE d.setup.tab_bar
TabBox(d) == Shrunk(d.setup.area, Gap(d.setup, d.tiles, d.setup.outer))
Content(d) ==
    LET box == TabBox(d)  bar == TabHeight(d)
    IN  CASE d.setup.tabs = "bottom" -> Box(box.x, box.y, box.w, box.h - bar)
          [] d.setup.tabs = "left"   -> Box(box.x + bar, box.y, box.w - bar, box.h)
          [] d.setup.tabs = "right"  -> Box(box.x, box.y, box.w - bar, box.h)
          [] OTHER                   -> Box(box.x, box.y + bar, box.w, box.h - bar)
TabBar(d) ==
    LET box == TabBox(d)  bar == TabHeight(d)
    IN  CASE d.setup.tabs = "bottom" -> Box(box.x, box.y + box.h - bar, box.w, bar)
          [] d.setup.tabs = "left"   -> Box(box.x, box.y, bar, box.h)
          [] d.setup.tabs = "right"  -> Box(box.x + box.w - bar, box.y, bar, box.h)
          [] OTHER                   -> Box(box.x, box.y, box.w, bar)

----------------------------------------------------------------------------
(* arrange_windows and arrange_scratchpad *)

Tiles(d) ==
    LET box == Shrunk(d.setup.area, Gap(d.setup, d.tiles, d.setup.outer))
        gap == Gap(d.setup, d.tiles, d.setup.inner)
    IN  IF d.layout = "vtile" THEN VTile(box, gap, d.tiles, d.ratio)
        ELSE [i \in 1..d.tiles |->
                IF i \in d.maximize THEN box ELSE HTile(box, gap, d.tiles, d.ratio)[i]]

FramesOf(d) ==
    CASE d.layout = "hscroll" -> HScroll(d)
      [] d.layout = "vscroll" -> VScroll(d)
      [] d.layout = "tabbed"  -> [i \in 1..d.tiles |-> Content(d)]
      [] OTHER                -> Tiles(d)
TabBarOf(d) == IF d.layout = "tabbed" /\ d.tiles > 0 THEN TabBar(d) ELSE Nowhere
Arranged(d) == [d EXCEPT !.frame = FramesOf(d), !.tab_bar = TabBarOf(d)]

\* scratchpads tile the whole screen, with the ratio of the workspace below
PadFrames(d, ratio) ==
    LET box == Shrunk(d.setup.screen, Gap(d.setup, d.padded, d.setup.outer))
        gap == Gap(d.setup, d.padded, d.setup.inner)
    IN  IF d.pad_layout = "htile" THEN HTile(box, gap, d.padded, ratio)
        ELSE VTile(box, gap, d.padded, ratio)
ArrangedPad(d) == [d EXCEPT !.pad_frame = PadFrames(d, d.ratio)]

----------------------------------------------------------------------------
(* What changes a workspace: each operation ends in an arrangement, except   *)
(* that the focus moves nothing in a tiled layout                           *)

LayoutInit ==
    \E s \in Setup, r \in Ratio :
        desk = [setup |-> s, layout |-> "htile", ratio |-> r, tiles |-> 0, front |-> 0,
                maximize |-> {}, frame |-> [i \in {} |-> Nowhere], tab_bar |-> Nowhere,
                padded |-> 0, pad_layout |-> "htile", pad_frame |-> [i \in {} |-> Nowhere]]

\* a window is mapped, moved here or tiled again, before the others or after
\* them, and takes the focus
AddTile ==
    /\ desk.tiles < MaxTiles
    /\ \E i \in {1, desk.tiles + 1} :
        desk' = Arranged([desk EXCEPT !.tiles = @ + 1, !.front = i,
                    !.maximize = { IF j < i THEN j ELSE j + 1 : j \in @ }])

\* one leaves, and the focus goes to another or to a window that is not tiled
RemoveTile ==
    \E i \in 1..desk.tiles, f \in 0..desk.tiles - 1 :
        desk' = Arranged([desk EXCEPT !.tiles = @ - 1, !.front = f,
                    !.maximize = { IF j < i THEN j ELSE j - 1 : j \in @ \ {i} }])

FocusTile ==
    \E i \in 1..desk.tiles :
        LET focused == [desk EXCEPT !.front = i]
        IN  desk' = IF desk.layout \in {"tabbed", "hscroll", "vscroll"}
                    THEN Arranged(focused) ELSE focused

\* toggle_maximize, of the focused window
MaximizeTile ==
    /\ desk.front # 0
    /\ desk' = Arranged([desk EXCEPT !.maximize = IF desk.front \in @ THEN @ \ {desk.front}
                                                                    ELSE @ \cup {desk.front}])

\* master_ratio_grow and master_ratio_shrink: a shown scratchpad keeps its
\* rectangles until it is arranged again
Adjust ==
    \E r \in Ratio :
        /\ \A q \in Ratio : ~(desk.ratio < q /\ q < r) /\ ~(r < q /\ q < desk.ratio)
        /\ desk' = Arranged([desk EXCEPT !.ratio = r])

ChangeLayout ==
    \E l \in {"htile", "vtile", "tabbed", "hscroll", "vscroll"} :
        desk' = Arranged([desk EXCEPT !.layout = l])

\* a reload, a new mode or a panel gives the workspace another place.  Nothing
\* arranges a scratchpad then: the model changes the setup while none is shown
Resetup ==
    /\ desk.padded = 0
    /\ \E s \in Setup : desk' = Arranged([desk EXCEPT !.setup = s])

\* a scratchpad is shown, or its windows or its layout change while it is
ArrangePad ==
    \E n \in 0..MaxTiles, l \in {"htile", "vtile"} :
        desk' = ArrangedPad([desk EXCEPT !.padded = n, !.pad_layout = l])

LayoutNext ==
    \/ AddTile \/ RemoveTile \/ FocusTile \/ MaximizeTile
    \/ Adjust \/ ChangeLayout \/ Resetup \/ ArrangePad

----------------------------------------------------------------------------
(* Properties *)

Within(inner, outer) ==
    /\ outer.x <= inner.x /\ inner.x + inner.w <= outer.x + outer.w
    /\ outer.y <= inner.y /\ inner.y + inner.h <= outer.y + outer.h
Cells(box) == (box.x .. box.x + box.w - 1) \X (box.y .. box.y + box.h - 1)
Holds(box, cell) ==
    /\ box.x <= cell[1] /\ cell[1] < box.x + box.w
    /\ box.y <= cell[2] /\ cell[2] < box.y + box.h

\* what a layout is for: with the gap to their right and below added, the
\* rectangles cover every pixel of the box exactly once
Partition(frames, gap, box) ==
    /\ \A i \in DOMAIN frames :
        Within(frames[i], box) /\ frames[i].w > 0 /\ frames[i].h >= 0
    /\ \A cell \in Cells(box) :
        Cardinality({ i \in DOMAIN frames :
            Holds([frames[i] EXCEPT !.w = @ + gap, !.h = @ + gap], cell) }) = 1

\* The tiles of a workspace, of a scratchpad, and a tab bar with its content
\* neither overlap nor leave a hole, for every number of windows, ratio, gap
\* and rounding (arrange_windows_impl)
TilesFit ==
    /\ desk.layout \in {"htile", "vtile"} /\ desk.tiles > 0 /\ desk.maximize = {} =>
        Partition(desk.frame, Gap(desk.setup, desk.tiles, desk.setup.inner),
                  Shrunk(desk.setup.area, Gap(desk.setup, desk.tiles, desk.setup.outer)))
    /\ desk.layout = "tabbed" /\ desk.tiles > 0 =>
        Partition(IF TabHeight(desk) = 0 THEN <<desk.frame[1]>>
                  ELSE <<desk.frame[1], desk.tab_bar>>, 0, TabBox(desk))
    /\ desk.padded > 0 =>
        Partition(desk.pad_frame, Gap(desk.setup, desk.padded, desk.setup.inner),
                  Shrunk(desk.setup.screen, Gap(desk.setup, desk.padded, desk.setup.outer)))

\* However windows come and go, the window the user works with is wholly on
\* the screen of a scrolling workspace, and its neighbours do not cover it
FrontOnScreen ==
    desk.layout \in {"hscroll", "vscroll"} =>
        /\ desk.front # 0 => Within(desk.frame[desk.front], desk.setup.area)
        /\ \A i \in 1..desk.tiles - 1 : \A cell \in Cells(desk.frame[i]) :
            ~Holds(desk.frame[i + 1], cell)
============================================================================
