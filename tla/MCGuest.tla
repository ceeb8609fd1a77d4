------------------------------ MODULE MCGuest ------------------------------
(* Guest with two sessions that set up a user, two names, and two starts of *)
(* the desktop around a stop.                                               *)
EXTENDS Guest
=============================================================================
