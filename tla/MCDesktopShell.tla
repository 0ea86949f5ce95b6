--------------------------- MODULE MCDesktopShell ----------------------------
(* Instances of DesktopShell for TLC: the constants are numbers. *)
EXTENDS DesktopShell
=============================================================================
