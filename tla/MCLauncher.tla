----------------------------- MODULE MCLauncher -----------------------------
(* Small instances of Launcher for TLC. *)
EXTENDS Launcher
=============================================================================
