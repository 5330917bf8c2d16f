---------------------------- MODULE MCFrameLoop ----------------------------
(* Windows of up to three sizes, chains of two images and surfaces of two  *)
(* kinds.                                                                  *)
EXTENDS FrameLoop

(* A surface that takes any extent the window may have (Wayland).          *)
WideCaps == [s \in Sizes |-> [min |-> 1, max |-> 3]]

(* A surface that takes the extent of its window only (Windows, X11).      *)
TightCaps == [s \in Sizes |-> [min |-> s, max |-> s]]

AnySurface == {WideCaps, TightCaps}

WideSurface == {WideCaps}
=============================================================================
