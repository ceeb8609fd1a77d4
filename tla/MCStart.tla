------------------------------ MODULE MCStart ------------------------------
(* Start in two Termux sessions, each of which starts the distro again and  *)
(* again.                                                                   *)
EXTENDS Start
=============================================================================
