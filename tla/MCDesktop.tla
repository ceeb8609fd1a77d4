----------------------------- MODULE MCDesktop -----------------------------
(* Desktop with two runs: one that is shown, and one that comes next to it  *)
(* or after it, and meets what the first has left.                          *)
EXTENDS Desktop
=============================================================================
