---------------------------- MODULE InstallRetry ----------------------------
(***************************************************************************)
(* `andronix install` run again and again: the user repeats one command    *)
(* after every crash and failure, which is what each error message tells   *)
(* them to do.  Crashes and failures happen anywhere, any number of times, *)
(* until the phone is calm: the network is back, the disk has room and     *)
(* Android lets Termux run.  Nobody knows when, only that it comes.        *)
(***************************************************************************)
EXTENDS Install

CONSTANT Repeated   \* the command that is run again

ASSUME RepeatedAssumption == Repeated \in Command /\ ~Repeated.reinstall

VARIABLE calm

rvars == <<vars, calm>>

Run == Refuse(Repeated) \/ Refresh(Repeated) \/ StartInstall(Repeated) \/ Steps

Progress == Run /\ UNCHANGED calm

Interrupt == ~calm /\ (StopDownload \/ Stop \/ FailedWrites) /\ UNCHANGED calm

CalmDown == ~calm /\ calm' = TRUE /\ UNCHANGED vars

RetryInit == Init /\ calm = FALSE

RetryNext == Progress \/ Interrupt \/ CalmDown

RetrySpec ==
    /\ RetryInit /\ [][RetryNext]_rvars
    /\ WF_rvars(Progress) /\ WF_rvars(CalmDown)

\* "STAGE in install.conf lets a killed install pick up where it stopped"
\* (DESIGN.md:207): wherever crashes and full disks left it, repeating the
\* command ends with the distro installed and finished, and it stays so; a
\* refresh is all that takes the launcher away, and it puts it back.  Only a
\* command that is refused, over the rootfs of an edition that it installed
\* itself (ANDRONIX_ROOTFS), cannot repair a DE that was not written.
Converges ==
    <>[](/\ Installed
         /\ \/ FinishedBut({"launcher"})
            \/ Misjudged(conf.DE)
            \/ Refused(Repeated) /\ FinishedBut({"launcher", "DE"})
         /\ proc.pc \in Idle => launcher = "ours")
=============================================================================
