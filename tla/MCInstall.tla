----------------------------- MODULE MCInstall -----------------------------
(* Install with a desktop the edition has and one it has not.              *)
EXTENDS Install

MCDesktops == {"xfce", "kde"}
MCEditions == {"ubuntu-xfce"}
MCDesktopOf == [e \in MCEditions |-> "xfce"]
=============================================================================
