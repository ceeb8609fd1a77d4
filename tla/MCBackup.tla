----------------------------- MODULE MCBackup -----------------------------
(* Backup with two names that may be one file, and a .l2s file that comes  *)
(* before them in the walk.                                                *)
EXTENDS Backup

MCWalk == <<".l2s", "a", "b">>
=============================================================================
