------------------------------- MODULE Screen -------------------------------
(***************************************************************************)
(* egui in reactive mode: a frame is drawn when one was asked for or when  *)
(* the user does something, and after a click another one follows.         *)
(* request_repaint and request_repaint_after are the same here.            *)
(***************************************************************************)
VARIABLES
  repaint,
  focus    \* the part of the GUI that is at work (see Desktop)

Drawn == repaint /\ repaint' = FALSE
Clicked == repaint' = TRUE
RequestRepaint == repaint' = TRUE
=============================================================================
