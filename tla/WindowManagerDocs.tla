------------------------- MODULE WindowManagerDocs -------------------------
(***************************************************************************)
(* What the comments, the changelog and the API stubs of nnwm say of the   *)
(* callbacks of WindowManager, as properties.  The code keeps none of      *)
(* them; the README says which kinds of event show it.                     *)
(***************************************************************************)
EXTENDS WindowManager

\* output.cpp:232: windows migrate "so no dangling tl->output pointers survive
\* the delete below".  The loop sees mapped windows; an object that is unmapped
\* keeps its pointer and its client can still ask for fullscreen.
NoDanglingOutput ==
    \A w \in Window : win[w].life # "free" =>
        win[w].output \in Live(server) \cup {NoOutput}

\* CHANGELOG.md:1206: the swaps do not dereference the null that ws_first
\* returns when the focused window is floating "(or no tiled windows existed)".
SwapReturnsEarly == ~server.crashed

\* stubs/nnwm.lua:849: in tabbed mode the tiled windows "share the same content
\* area", so one of them shows, also while another monitor switches workspace.
TabsShareArea == OneTabShown

\* stubs/nnwm.lua:779: "When hidden, focus returns to the previously focused
\* workspace window", so not to a window that was hidden with the scratchpad.
HiddenPadUnfocused ==
    [][\A p \in Pad :
          TogglePad(p) /\ p \notin server'.shown_pads =>
              server'.kb_focus \notin InPad(server', p)]_vars

============================================================================
