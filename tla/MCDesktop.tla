----------------------------- MODULE MCDesktop -----------------------------
(***************************************************************************)
(* Small instances of Pointer (with Overview and WindowManager) for TLC.   *)
(* Monitor o2 is to the right of o1.                                       *)
(***************************************************************************)
EXTENDS MCWindowManager, PointerDocs

SideBySide == [o \in Output |-> IF o = o1 THEN <<0, 0>> ELSE <<2, 0>>]

\* Kinds of event
Grabs == {"grab", "click", "motion", "request_move"}
Grid == {"overview", "focus_dir", "move_dir", "thumbnails"}
ThumbnailClicks == {"overview", "thumbnails"}

LeftButton == {"left"}
Buttons == {"left", "right"}

\* Either one monitor whose thumbnails are dragged and clicked, or two of them.
GridInit == PointerInit /\ \E monitors \in {OneOutput, Outputs} : StartWith(monitors)
GridSpec == GridInit /\ [][DesktopNext]_desktopVars
GridBound == Len(server.outputs) > 1 => pointer'.held = {}
============================================================================
