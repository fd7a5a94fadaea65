----------------------------- MODULE PointerDocs -----------------------------
(***************************************************************************)
(* What the changelog and the API stubs of nnwm say of the pointer and the *)
(* overview, as properties that the code does not keep.                    *)
(***************************************************************************)
EXTENDS Pointer

\* CHANGELOG.md:748: "clicking a window thumbnail in the overview now focuses
\* it (switching to its workspace if needed) and exits the overview".
ThumbnailFocuses ==
    [][\A b \in Button, at \in Output, ws \in WS :
          LET w == pointer.dragged
          IN  /\ w # NoWindow /\ server.win[w].output = at
              /\ server.win[w].workspace = ws
              /\ OverviewRelease(b, at, ws, w)
              => server'.kb_focus = w /\ ~Overviewed(server', at)]_desktopVars

==============================================================================
