-------------------------- MODULE MCInstallRetry --------------------------
(* InstallRetry with a desktop the edition has and one it has not; the     *)
(* free distro with the second one is what the user keeps installing.      *)
EXTENDS InstallRetry

MCDesktops == {"xfce", "kde"}
MCEditions == {"ubuntu-xfce"}
MCDesktopOf == [e \in MCEditions |-> "xfce"]
MCRepeated == [edition |-> "", de |-> "kde", reinstall |-> FALSE]
=============================================================================
