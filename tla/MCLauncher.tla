----------------------------- MODULE MCLauncher -----------------------------
(* Launcher for TLC.  A tick is five seconds for the grace and the patience *)
(* of a stop, as in the code; the rapid window is one tick instead of two,  *)
(* and three crashes in quick succession are too many instead of five.      *)
EXTENDS Launcher, TLC
==============================================================================
