--------------------------- MODULE InstallProofs ---------------------------
(* What Install's properties rest on: an inductive invariant that says, for *)
(* every step of an install, what the folder holds when the step is next.  *)
EXTENDS Install, TLAPS

Late == {"packages", "installing", "desktop", "recordDE", "markDesktop",
         "oldLauncher", "unlink", "launcher", "done", "cleanup"}

SetUpStages == {"configured", "desktop", "done"}

\* No folder, nothing in it.  Past its check an install has a folder, and
\* after a delete ("removeRest") there is none.
Deleted ==
    /\ ~dir => conf = NoConf /\ rootfs.state = "absent"
    /\ proc.pc = "removeRest" => ~dir
    /\ proc.pc \notin Idle \cup {"check", "removeRest"} => dir

\* A stage past "extracted" means a whole rootfs that was set up.
StageIsTrue ==
    ~torn /\ conf.STAGE \in SetUpStages => rootfs.state = "whole" /\ rootfs.configured

\* What a running install knows of the rootfs: haveRootfs is still right when
\* it is used, and what this install unpacked is whole.
HaveIsFresh ==
    /\ proc.pc \in {"source", "download", "clear", "extract", "extracted",
                    "configured"} => ~proc.have
    /\ proc.pc \in {"check", "setup"} /\ proc.have => conf.STAGE \in SetUpStages
    /\ /\ proc.pc \in {"check", "source", "download", "clear", "extract", "extracted"}
       /\ ~proc.have /\ ~torn
       => conf.STAGE \notin SetUpStages
    /\ proc.pc \in {"extracted", "configured"} => rootfs.state = "whole"
    /\ proc.pc = "setup" /\ ~proc.have => rootfs.state = "whole" /\ ~torn
    /\ proc.pc = "configured" => rootfs.configured
    /\ proc.pc \in Late => conf.STAGE \in SetUpStages

\* A desktop that came with the image is complete.
ImageComplete ==
    rootfs.state = "whole" /\ rootfs.image.desktop \in Desktops
      => rootfs.pkgs[rootfs.image.desktop] = "full"

Complete(d) == rootfs.pkgs[d] = "full" \/ Misjudged(d)

\* What the steps after the packages have done so far, unwritten aside.
StepsDone ==
    /\ proc.pc \in {"installing", "desktop", "markDesktop"} => proc.cmd.de \in Desktops
    /\ /\ proc.pc \in {"desktop", "recordDE", "markDesktop", "oldLauncher"}
       /\ proc.cmd.de \in Desktops /\ ~torn
       => Complete(proc.cmd.de)
    /\ /\ proc.pc \in {"recordDE", "markDesktop", "oldLauncher"}
       /\ proc.cmd.de \in Desktops
       => rootfs.session = proc.cmd.de
    /\ proc.pc \in {"markDesktop", "oldLauncher"} /\ "DE" \notin unwritten
         => torn \/ conf.DE = proc.cmd.de
    /\ proc.pc \in {"unlink", "launcher", "done"} /\ "DE" \notin unwritten /\ ~torn
         => conf.DE # "" /\ (conf.DE \in Desktops => Complete(conf.DE))
    /\ /\ proc.pc \in {"unlink", "launcher", "done", "cleanup", "ok"}
       /\ conf.DE \in Desktops /\ ~torn /\ {"session", "DE"} \cap unwritten = {}
       => rootfs.session = conf.DE
    /\ proc.pc \in {"unlink", "reUnlink"} => launcher # "foreign"
    /\ proc.pc \in {"launcher", "reLauncher"} => launcher = "none"
    /\ proc.pc = "done" => launcher = "ours"

\* STAGE=done: nothing any later command does takes the finished install
\* apart, short of deleting it.
DoneStays ==
    conf.STAGE = "done" /\ ~torn =>
        /\ "launcher" \notin unwritten => launcher = "ours"
        /\ "DE" \notin unwritten =>
              /\ conf.DE # ""
              /\ conf.DE \in Desktops =>
                    /\ Complete(conf.DE)
                    /\ "session" \notin unwritten => rootfs.session \in Desktops
        /\ proc.pc \notin {"oldLauncher", "unlink", "launcher", "done"}
        /\ proc.pc \in {"check", "setup", "packages", "recordDE"} => proc.cmd.de \in Desktops
        /\ proc.pc = "check" => proc.cmd.edition = installedEdition

FolderInv ==
    /\ Deleted
    /\ StageIsTrue
    /\ HaveIsFresh
    /\ ImageComplete
    /\ StepsDone
    /\ DoneStays

IInv == TypeOK /\ FolderInv

-----------------------------------------------------------------------------
(* Type correctness.                                                       *)

LEMMA EmptyTypes == NoConf \in Conf /\ NoRootFS \in RootFS /\ NoProc \in Proc
<1>1. NoConf \in Conf
  BY DEF NoConf, Conf, Edition
<1>2. NoRootFS \in RootFS
  BY DEF NoRootFS, RootFS, FreeImage, Image, Edition, Desktop
<1>3. NoProc \in Proc
  BY DesktopsAssumption
  DEF NoProc, Proc, Idle, Command, Edition, Desktop, FreeImage, Image
<1> QED
  BY <1>1, <1>2, <1>3

LEMMA ImageTypes ==
    /\ FreeImage \in Image
    /\ \A e \in Editions : ModdedImage(e) \in Image
    /\ \A d \in Desktops : Exported(d) \in Image
  BY DesktopOfAssumption
  DEF FreeImage, ModdedImage, Exported, Image, Edition, Desktop

LEMMA UnpackedType == \A i \in Image : Unpacked(i) \in RootFS
  BY EmptyTypes DEF Unpacked, NoRootFS, RootFS

LEMMA InitType == Init => TypeOK
<1> SUFFICES ASSUME Init PROVE TypeOK
  OBVIOUS
<1>1. ASSUME NEW i \in Image, NEW st \in {"configured", "done"},
             NEW d \in Desktops, NEW have \in {"none", "part", "full"},
             From200(i, st, d, have)
      PROVE  conf \in Conf /\ rootfs \in RootFS
  <2>1. conf \in Conf
    BY <1>1 DEF From200, Conf, Image, Desktop
  <2>2. ASSUME NEW u \in RootFS, NEW x \in {"none", "part", "full"},
               NEW s \in Desktop,
               rootfs = [u EXCEPT !.configured = TRUE, !.pkgs[d] = x, !.session = s]
        PROVE  rootfs \in RootFS
    BY <2>2 DEF RootFS
  <2>3. /\ (IF i.desktop = d THEN "full" ELSE have) \in {"none", "part", "full"}
        /\ (IF st = "done" THEN d ELSE "none") \in Desktop
    BY DEF Desktop
  <2>4. rootfs \in RootFS
    BY <1>1, <2>2, <2>3, UnpackedType DEF From200
  <2> QED
    BY <2>1, <2>4
<1>2. conf \in Conf /\ rootfs \in RootFS
  BY <1>1, EmptyTypes, ImageTypes DEF Init
<1> QED
  BY <1>2, EmptyTypes DEF Init, TypeOK

LEMMA StepType == TypeOK /\ [Next]_vars => TypeOK'
<1> SUFFICES ASSUME TypeOK, [Next]_vars PROVE TypeOK'
  OBVIOUS
<1> USE DEF TypeOK, folder, Unwritten, Return
<1>1. ASSUME NEW c \in Command, Refuse(c) PROVE TypeOK'
  BY <1>1, EmptyTypes DEF Refuse
<1>2. ASSUME NEW c \in Command, Refresh(c) PROVE TypeOK'
  BY <1>2, EmptyTypes DEF Refresh, Proc
<1>3. ASSUME NEW c \in Command, StartInstall(c) PROVE TypeOK'
  BY <1>3, EmptyTypes DEF StartInstall, Proc, Command, Resumable, Exists
<1>4. ASSUME NEW e \in Editions, StartRemoveEdition(e) PROVE TypeOK'
  BY <1>4, EmptyTypes, EditionsAssumption, DesktopOfAssumption DEF StartRemoveEdition, Proc, Command, Edition, Desktop, NoProc
<1>5. CASE Wipe
  BY <1>5, EmptyTypes DEF Wipe, Goto, Proc
<1>6. ASSUME NEW w \in BOOLEAN, CheckPhone(w) PROVE TypeOK'
  BY <1>6 DEF CheckPhone, Goto, Conf, Proc, Command
<1>7. CASE FindSource
  BY <1>7 DEF FindSource, Goto, Proc
<1>8. CASE Download
  BY <1>8 DEF Download, Goto, Proc, Archive
<1>9. CASE ClearRootfs
  BY <1>9, EmptyTypes DEF ClearRootfs, Goto, RootFS, Proc, NoRootFS
<1>10. ASSUME NEW w \in BOOLEAN, Extract(w) PROVE TypeOK'
  BY <1>10, UnpackedType, ImageTypes DEF Extract, Conf, Proc, Archive
<1>11. CASE MarkExtracted
  BY <1>11 DEF MarkExtracted, Goto, Conf, Proc
<1>12. CASE SkipSetup
  BY <1>12 DEF SkipSetup, Goto, Proc
<1>13. CASE Configure
  BY <1>13 DEF Configure, Goto, RootFS, Proc
<1>14. CASE MarkConfigured
  BY <1>14 DEF MarkConfigured, Goto, Conf, Proc
<1>15. CASE BeginPackages
  <2>1. proc' \in Proc
    BY <1>15 DEF BeginPackages, Goto, Proc, AfterPackages
  <2>2. CASE UNCHANGED rootfs
    BY <1>15, <2>1, <2>2 DEF BeginPackages
  <2>3. CASE proc.cmd.de # "none" /\ rootfs' = [rootfs EXCEPT !.pkgs[proc.cmd.de] =
                                        IF @ = "full" THEN @ ELSE "part"]
    <3>1. proc.cmd.de \in Desktops
      BY <2>3 DEF Proc, Command, Desktop
    <3>2. rootfs' \in RootFS
      BY <2>3, <3>1 DEF RootFS
    <3> QED
      BY <1>15, <2>1, <3>2 DEF BeginPackages
  <2> QED
    BY <1>15, <2>2, <2>3 DEF BeginPackages
<1>16. CASE FinishPackages
  BY <1>16 DEF FinishPackages, Goto, RootFS, Proc, AfterPackages, Command, Desktop
<1>17. CASE SetUpDesktop
  BY <1>17 DEF SetUpDesktop, Goto, RootFS, Proc, Command
<1>18. ASSUME NEW w \in BOOLEAN, RecordDesktop(w) PROVE TypeOK'
  BY <1>18 DEF RecordDesktop, Goto, Conf, Proc, Command
<1>19. CASE MarkDesktop
  BY <1>19 DEF MarkDesktop, Goto, Conf, Proc
<1>20. CASE MoveOldLauncher
  BY <1>20 DEF MoveOldLauncher, Goto, Proc
<1>21. CASE WriteLauncher
  BY <1>21 DEF WriteLauncher, Goto, Proc
<1>33. CASE UnlinkLauncher
  BY <1>33 DEF UnlinkLauncher, Goto, Proc
<1>34. CASE RefreshSession
  <2>1. rootfs' \in RootFS
    BY <1>34 DEF RefreshSession, RootFS, Desktop
  <2>2. proc' \in Proc
    BY <1>34, EmptyTypes DEF RefreshSession, Proc, Idle
  <2> QED
    BY <1>34, <2>1, <2>2 DEF RefreshSession
<1>35. CASE CutSession
  BY <1>35, EmptyTypes DEF CutSession, Goto, Proc, Idle, RootFS
<1>36. CASE CutLauncher
  BY <1>36, EmptyTypes DEF CutLauncher, Goto, Proc
<1>37. CASE SkipLauncher
  BY <1>37 DEF SkipLauncher, Goto, Proc
<1>22. ASSUME NEW w \in BOOLEAN, MarkDone(w) PROVE TypeOK'
  BY <1>22 DEF MarkDone, Goto, Conf, Proc
<1>23. CASE CleanUp
  BY <1>23, EmptyTypes DEF CleanUp, Proc, Idle
<1>24. CASE RemoveNothing
  BY <1>24, EmptyTypes DEF RemoveNothing, Proc, Idle
<1>25. CASE StartRemove
  BY <1>25, EmptyTypes DEF StartRemove, Proc
<1>26. CASE DeleteFolder
  BY <1>26, EmptyTypes DEF DeleteFolder, Goto, Proc
<1>27. CASE RemoveRest
  BY <1>27, EmptyTypes DEF RemoveRest, Proc, Idle
<1>28. CASE StopDownload
  BY <1>28, EmptyTypes DEF StopDownload, Archive
<1>29. CASE CutDelete
  <2>1. [rootfs EXCEPT !.state = "torn"] \in RootFS
    BY DEF RootFS
  <2>2. [NoRootFS EXCEPT !.state = "torn"] \in RootFS
    BY EmptyTypes DEF RootFS
  <2>3. rootfs' \in RootFS /\ conf' \in Conf /\ torn' \in BOOLEAN
    BY <1>29, <2>1, <2>2, EmptyTypes DEF CutDelete
  <2> QED
    BY <1>29, <2>3, EmptyTypes DEF CutDelete
<1>30. CASE Stop
  BY <1>30, EmptyTypes DEF Stop
<1>31. CASE Clean
  BY <1>31 DEF Clean
<1>32. CASE UNCHANGED vars
  BY <1>32 DEF vars
<1> QED
  BY <1>1, <1>2, <1>3, <1>4, <1>5, <1>6, <1>7, <1>8, <1>9, <1>10, <1>11, <1>12, <1>13, <1>14, <1>15, <1>16, <1>17, <1>18, <1>19, <1>20, <1>21, <1>22, <1>23, <1>24, <1>25, <1>26, <1>27, <1>28, <1>29, <1>30, <1>31, <1>32, <1>33, <1>34, <1>35, <1>36, <1>37 DEF Next, Steps, Deletes, Crashes, FailedWrites

\* Every value the folder, the launcher, the cache and the running command
\* take is one of the program's.
THEOREM TypeCorrect == Spec => []TypeOK
  BY InitType, StepType, PTL DEF Spec
-----------------------------------------------------------------------------
(* The inductive invariant.                                                *)

LEMMA InitInv == Init => IInv
<1> SUFFICES ASSUME Init PROVE IInv
  OBVIOUS
<1> USE DesktopsAssumption
<1>2. proc.pc = "idle" /\ ~torn
  BY DEF Init, NoProc
<1>1. Deleted
  <2>1. CASE dir = FALSE
    <3>1. conf = NoConf /\ rootfs = NoRootFS
      BY <2>1 DEF Init
    <3> QED
      BY <1>2, <3>1 DEF Deleted, NoRootFS, Idle
  <2>2. CASE dir = TRUE
    BY <1>2, <2>2 DEF Deleted, Idle
  <2> QED
    BY <2>1, <2>2 DEF Init
<1>3. CASE dir = FALSE
  <2>1. conf = NoConf /\ rootfs = NoRootFS
    BY <1>3 DEF Init
  <2> QED
    BY <1>1, <1>2, <2>1, InitType
    DEF IInv, FolderInv, StageIsTrue, HaveIsFresh, ImageComplete, StepsDone,
      DoneStays, NoRootFS, NoConf, FreeImage, SetUpStages, Late
<1>4. ASSUME NEW i \in Image, NEW st \in {"configured", "done"},
             NEW d \in Desktops, NEW have \in {"none", "part", "full"},
             From200(i, st, d, have),
             st = "done" => launcher = "ours" /\ have = "full"
      PROVE  StageIsTrue /\ ImageComplete /\ DoneStays
  <2>1. /\ rootfs.state = "whole" /\ rootfs.configured
        /\ rootfs.image = i
        /\ rootfs.pkgs = [[x \in Desktops |-> IF x = i.desktop THEN "full" ELSE "none"]
                           EXCEPT ![d] = IF i.desktop = d THEN "full" ELSE have]
        /\ st = "done" => rootfs.session = d
        /\ conf.STAGE = st /\ (st = "done" => conf.DE = d)
    BY <1>4 DEF From200, Unpacked, NoRootFS
  <2> QED
    BY <1>2, <1>4, <2>1 DEF StageIsTrue, ImageComplete, DoneStays, Complete
<1>5. CASE dir = TRUE
  <2>1. StageIsTrue /\ ImageComplete /\ DoneStays
    BY <1>4, <1>5, ImageTypes DEF Init
  <2> QED
    BY <1>1, <1>2, <2>1, InitType DEF IInv, FolderInv, HaveIsFresh, StepsDone, Late
<1> QED
  BY <1>3, <1>5 DEF Init

\* A delete that was cut short is marked as torn, or install.conf is gone.
LEMMA CutDeleteLeaves ==
    ASSUME rootfs \in RootFS, CutDelete
    PROVE  /\ ~torn' => conf'.STAGE = ""
           /\ rootfs'.state = "whole" => rootfs' = rootfs
<1>1. ~torn' => conf' = NoConf
  BY Zenon DEF CutDelete
<1>2. NoConf.STAGE = ""
  BY DEF NoConf
<1>3. \/ rootfs' \in {rootfs, NoRootFS}
      \/ rootfs' = [rootfs EXCEPT !.state = "torn"]
      \/ rootfs' = [NoRootFS EXCEPT !.state = "torn"]
  BY DEF CutDelete
<1>4. rootfs'.state = "whole" => rootfs' = rootfs
  <2>1. /\ NoRootFS.state = "absent" /\ [NoRootFS EXCEPT !.state = "torn"].state = "torn"
        /\ [rootfs EXCEPT !.state = "torn"].state = "torn"
    BY DEF NoRootFS, RootFS
  <2> QED
    BY <1>3, <2>1
<1> QED
  BY <1>1, <1>2, <1>4

\* A package run changes nothing but packages, and takes none of those that
\* are there in full.
LEMMA BeginPackagesFields ==
    ASSUME rootfs \in RootFS, BeginPackages
    PROVE  /\ rootfs'.state = rootfs.state /\ rootfs'.image = rootfs.image
           /\ rootfs'.configured = rootfs.configured
           /\ rootfs'.session = rootfs.session
           /\ \A d \in Desktops : rootfs.pkgs[d] = "full" => rootfs'.pkgs[d] = "full"
<1>1. CASE rootfs' = rootfs
  BY <1>1
<1>2. CASE rootfs' = [rootfs EXCEPT !.pkgs[proc.cmd.de] = IF @ = "full" THEN @ ELSE "part"]
  <2>1. /\ rootfs'.state = rootfs.state /\ rootfs'.image = rootfs.image
        /\ rootfs'.configured = rootfs.configured
        /\ rootfs'.session = rootfs.session
    BY <1>2 DEF RootFS
  <2>2. rootfs'.pkgs = [rootfs.pkgs EXCEPT ![proc.cmd.de] = IF @ = "full" THEN @ ELSE "part"]
    BY <1>2 DEF RootFS
  <2>3. \A d \in Desktops : rootfs.pkgs[d] = "full" => rootfs'.pkgs[d] = "full"
    BY <2>2 DEF RootFS
  <2> QED
    BY <2>1, <2>3
<1> QED
  BY <1>1, <1>2 DEF BeginPackages

LEMMA IdleProc ==
  NoProc.pc = "idle" /\ [NoProc EXCEPT !.pc = "ok"].pc = "ok"
BY DEF NoProc

LEMMA GoneTo == \A p \in Proc : [p EXCEPT !.pc = "reSession"].pc = "reSession"
BY DEF Proc

LEMMA StepInv == IInv /\ [Next]_vars => IInv'
<1> SUFFICES ASSUME IInv, [Next]_vars PROVE IInv'
  OBVIOUS
<1>0. TypeOK' /\ conf \in Conf /\ rootfs \in RootFS /\ proc \in Proc
  BY StepType DEF IInv, TypeOK
<1> SUFFICES ASSUME FolderInv PROVE FolderInv'
  BY <1>0 DEF IInv
<1> USE <1>0, DesktopsAssumption
    DEF FolderInv, Deleted, StageIsTrue, HaveIsFresh, ImageComplete, StepsDone,
        DoneStays, SetUpStages, Late, Complete, Misjudged, Idle,
        installedEdition, folder, Goto, Return, Unwritten
<1>1. ASSUME NEW c \in Command, Refuse(c) PROVE FolderInv'
  BY <1>1 DEF Refuse, NoProc
<1>2. ASSUME NEW c \in Command, Refresh(c) PROVE FolderInv'
  BY <1>2 DEF Refresh, NoProc, RootFS, Conf, AlreadyInstalled, Installed, Exists
<1>3. ASSUME NEW c \in Command, StartInstall(c) PROVE FolderInv'
  <2>1. Deleted'
    BY <1>3 DEF StartInstall, NoProc, Resumable, Installed, Exists, Refused, Conf, RootFS
  <2>2. StageIsTrue'
    BY <1>3 DEF StartInstall, NoProc, Resumable, Installed, Exists, Refused, Conf, RootFS
  <2>3. HaveIsFresh'
    BY <1>3 DEF StartInstall, NoProc, Resumable, Installed, Exists, Refused, Conf, RootFS
  <2>4. ImageComplete'
    BY <1>3 DEF StartInstall, NoProc, Resumable, Installed, Exists, Refused, Conf, RootFS
  <2>5. StepsDone'
    BY <1>3 DEF StartInstall, NoProc, Resumable, Installed, Exists, Refused, Conf, RootFS
  <2>6. DoneStays'
    <3>1. /\ UNCHANGED <<dir, conf, rootfs, launcher, torn, unwritten>>
          /\ proc'.pc \in {"wipe", "check"} /\ proc'.cmd.de = c.de /\ proc'.cmd.edition = c.edition
          /\ proc'.pc = "check" => ~(c.reinstall /\ dir)
      BY <1>3 DEF StartInstall, NoProc, Command
    <3>2. ASSUME conf.STAGE = "done", ~torn, proc'.pc = "check"
          PROVE  proc'.cmd.edition = installedEdition /\ proc'.cmd.de \in Desktops
      <4>1. dir /\ Installed
        BY <3>2 DEF Installed, Exists, NoConf
      <4>2. ~Refused(c) /\ ~AlreadyInstalled(c) /\ ~c.reinstall
        BY <1>3, <3>1, <3>2, <4>1 DEF StartInstall
      <4>3. c.de \in Desktop
        BY DEF Command
      <4> QED
        BY <3>1, <4>1, <4>2, <4>3 DEF Refused, AlreadyInstalled, Desktop
    <3> QED
      BY <3>1, <3>2
  <2> QED
    BY <2>1, <2>2, <2>3, <2>4, <2>5, <2>6 DEF FolderInv
<1>4. ASSUME NEW e \in Editions, StartRemoveEdition(e) PROVE FolderInv'
  BY <1>4 DEF StartRemoveEdition, NoProc
<1>5. CASE Wipe
  BY <1>5 DEF Wipe, Conf, RootFS, Proc, NoConf, NoRootFS, NoProc, Exists
<1>6. ASSUME NEW w \in BOOLEAN, CheckPhone(w) PROVE FolderInv'
  BY <1>6 DEF CheckPhone, Conf, RootFS, Proc
<1>7. CASE FindSource
  BY <1>7 DEF FindSource, Conf, RootFS, Proc
<1>8. CASE Download
  BY <1>8 DEF Download, Conf, RootFS, Proc
<1>9. CASE ClearRootfs
  BY <1>9 DEF ClearRootfs, Conf, RootFS, Proc, NoRootFS
<1>10. ASSUME NEW w \in BOOLEAN, Extract(w) PROVE FolderInv'
  BY <1>10 DEF Extract, Conf, RootFS, Proc, Unpacked, NoRootFS
<1>11. CASE MarkExtracted
  BY <1>11 DEF MarkExtracted, Conf, RootFS, Proc
<1>12. CASE SkipSetup
  BY <1>12 DEF SkipSetup, Conf, RootFS, Proc
<1>13. CASE Configure
  BY <1>13 DEF Configure, Conf, RootFS, Proc
<1>14. CASE MarkConfigured
  BY <1>14 DEF MarkConfigured, Conf, RootFS, Proc
<1>15. CASE BeginPackages
  <2>1. /\ proc'.cmd = proc.cmd /\ proc'.have = proc.have
        /\ proc'.pc \in {"recordDE", "desktop", "installing"}
        /\ proc'.pc # "recordDE" => proc.cmd.de \in Desktops
        /\ proc'.pc = "recordDE" => proc.cmd.de = "none"
        /\ proc'.pc = "desktop" => prebuilt(proc.cmd.de)
    BY <1>15 DEF BeginPackages, AfterPackages, Proc, Command, Desktop
  <2>2. /\ rootfs'.state = rootfs.state /\ rootfs'.image = rootfs.image
        /\ rootfs'.configured = rootfs.configured
        /\ rootfs'.session = rootfs.session
        /\ \A d \in Desktops : rootfs.pkgs[d] = "full" => rootfs'.pkgs[d] = "full"
    BY <1>15, BeginPackagesFields
  <2>3. prebuilt(proc.cmd.de) /\ rootfs.state = "whole" => Complete(proc.cmd.de)
    BY <2>1 DEF prebuilt, sessionPresent, moddedImage, RootFS, Image, Desktop
  <2>4. proc.pc = "packages" /\ UNCHANGED <<dir, conf, launcher, torn, unwritten>>
    BY <1>15 DEF BeginPackages
  <2>5. HaveIsFresh'
    BY <2>1, <2>2, <2>4
  <2>6. StepsDone'
    BY <2>1, <2>2, <2>3, <2>4
  <2>7. ImageComplete' /\ DoneStays'
    BY <2>1, <2>2, <2>4
  <2>8. Deleted' /\ StageIsTrue'
    BY <2>1, <2>2, <2>4
  <2> QED
    BY <2>5, <2>6, <2>7, <2>8
<1>16. CASE FinishPackages
  BY <1>16 DEF FinishPackages, Conf, RootFS, Proc, AfterPackages, prebuilt, sessionPresent, moddedImage, Command, Desktop
<1>17. CASE SetUpDesktop
  BY <1>17 DEF SetUpDesktop, Conf, RootFS, Proc, Command, Desktop
<1>18. ASSUME NEW w \in BOOLEAN, RecordDesktop(w) PROVE FolderInv'
  <2>1. Deleted'
    BY <1>18 DEF RecordDesktop, Conf, RootFS, Proc, Command, Desktop
  <2>2. StageIsTrue'
    BY <1>18 DEF RecordDesktop, Conf, RootFS, Proc, Command, Desktop
  <2>3. HaveIsFresh'
    BY <1>18 DEF RecordDesktop, Conf, RootFS, Proc, Command, Desktop
  <2>4. ImageComplete'
    BY <1>18 DEF RecordDesktop, Conf, RootFS, Proc, Command, Desktop
  <2>a. /\ UNCHANGED <<dir, rootfs, launcher, torn>> /\ proc.pc = "recordDE"
        /\ proc'.pc = (IF proc.cmd.de = "none" THEN "oldLauncher" ELSE "markDesktop")
        /\ proc'.cmd = proc.cmd /\ conf'.STAGE = conf.STAGE
        /\ proc.cmd.de \in Desktops \cup {"none"}
        /\ conf'.EDITION = conf.EDITION /\ conf'.PREBUILT = conf.PREBUILT
    BY <1>18 DEF RecordDesktop, Conf, Proc, Command, Desktop
  <2>b. CASE w
    <3>1. conf'.DE = proc.cmd.de /\ unwritten' = unwritten \ {"DE"}
      BY <1>18, <2>b DEF RecordDesktop, Conf
    <3> QED
      BY <2>a, <3>1
  <2>c. CASE ~w
    <3>1. conf' = conf /\ unwritten' = (IF torn THEN unwritten ELSE unwritten \cup {"DE"})
      BY <1>18, <2>c DEF RecordDesktop
    <3> QED
      BY <2>a, <3>1
  <2>5. StepsDone'
    BY <2>b, <2>c
  <2>6. DoneStays'
    BY <2>b, <2>c
  <2> QED
    BY <2>1, <2>2, <2>3, <2>4, <2>5, <2>6 DEF FolderInv
<1>19. CASE MarkDesktop
  BY <1>19 DEF MarkDesktop, Conf, RootFS, Proc, Command, Desktop
<1>20. CASE MoveOldLauncher
  <2>1. Deleted'
    BY <1>20 DEF MoveOldLauncher, Conf, RootFS, Proc, Command, Desktop
  <2>2. StageIsTrue'
    BY <1>20 DEF MoveOldLauncher, Conf, RootFS, Proc, Command, Desktop
  <2>3. HaveIsFresh'
    BY <1>20 DEF MoveOldLauncher, Conf, RootFS, Proc, Command, Desktop
  <2>4. ImageComplete'
    BY <1>20 DEF MoveOldLauncher, Conf, RootFS, Proc, Command, Desktop
  <2>5. StepsDone'
    BY <1>20 DEF MoveOldLauncher, Conf, RootFS, Proc, Command, Desktop
  <2>6. DoneStays'
    BY <1>20 DEF MoveOldLauncher, Conf, RootFS, Proc, Command, Desktop
  <2> QED
    BY <2>1, <2>2, <2>3, <2>4, <2>5, <2>6 DEF FolderInv
<1>21. CASE WriteLauncher
  BY <1>21 DEF WriteLauncher, Conf, RootFS, Proc
<1>33. CASE UnlinkLauncher
  BY <1>33 DEF UnlinkLauncher, Conf, RootFS, Proc
<1>34. CASE RefreshSession
  <2>1. Deleted'
    BY <1>34 DEF RefreshSession, Conf, RootFS, Proc, NoProc, Desktop
  <2>2. StageIsTrue'
    BY <1>34 DEF RefreshSession, Conf, RootFS, Proc, NoProc, Desktop
  <2>3. HaveIsFresh'
    BY <1>34 DEF RefreshSession, Conf, RootFS, Proc, NoProc, Desktop
  <2>4. ImageComplete'
    BY <1>34 DEF RefreshSession, Conf, RootFS, Proc, NoProc, Desktop
  <2>5. StepsDone'
    BY <1>34 DEF RefreshSession, Conf, RootFS, Proc, NoProc, Desktop
  <2>6. DoneStays'
    BY <1>34 DEF RefreshSession, Conf, RootFS, Proc, NoProc, Desktop
  <2> QED
    BY <2>1, <2>2, <2>3, <2>4, <2>5, <2>6 DEF FolderInv
<1>35. CASE CutSession
  <2>0. /\ proc'.pc \in {"idle", "ok"}
        /\ UNCHANGED <<dir, conf, launcher, torn>> /\ dir
    <3>1. proc.pc \in {"desktop", "reSession"} /\ UNCHANGED <<dir, conf, launcher, torn>>
      BY <1>35 DEF CutSession
    <3>2. proc' = NoProc \/ proc' = [NoProc EXCEPT !.pc = "ok"]
      BY <1>35 DEF CutSession
    <3>3. dir
      BY <3>1
    <3>4. proc'.pc \in {"idle", "ok"}
      BY <3>2, IdleProc
    <3> QED
      BY <3>1, <3>3, <3>4
  <2>a. /\ rootfs'.state = rootfs.state /\ rootfs'.image = rootfs.image
        /\ rootfs'.configured = rootfs.configured /\ rootfs'.pkgs = rootfs.pkgs
    BY <1>35 DEF CutSession, RootFS
  <2>b. ~torn => unwritten' = unwritten \cup {"session"}
    BY <1>35 DEF CutSession
  <2>1. Deleted'
    BY <2>0, <2>a, <2>b
  <2>2. StageIsTrue'
    BY <2>0, <2>a, <2>b
  <2>3. HaveIsFresh'
    BY <2>0, <2>a, <2>b
  <2>4. ImageComplete'
    BY <2>0, <2>a, <2>b
  <2>5. StepsDone'
    BY <2>0, <2>a, <2>b
  <2>6. DoneStays'
    BY <2>0, <2>a, <2>b
  <2> QED
    BY <2>1, <2>2, <2>3, <2>4, <2>5, <2>6 DEF FolderInv
<1>36. CASE CutLauncher
  <2>0. /\ proc.pc \in {"launcher", "reLauncher"} /\ proc'.pc \in {"idle", "reSession"}
        /\ UNCHANGED <<dir, conf, rootfs, torn, unwritten>> /\ dir
    <3>1. /\ proc.pc \in {"launcher", "reLauncher"}
          /\ UNCHANGED <<dir, conf, rootfs, torn, unwritten>>
      BY <1>36 DEF CutLauncher
    <3>2. proc' = NoProc \/ proc' = [proc EXCEPT !.pc = "reSession"]
      BY <1>36 DEF CutLauncher
    <3>3. dir
      BY <3>1
    <3>4. proc'.pc \in {"idle", "reSession"}
      BY <3>2, IdleProc, GoneTo
    <3> QED
      BY <3>1, <3>3, <3>4
  <2>a. conf.STAGE = "done" /\ ~torn => "launcher" \in unwritten
    BY <2>0
  <2>1. Deleted'
    BY <2>0, <2>a
  <2>2. StageIsTrue'
    BY <2>0, <2>a
  <2>3. HaveIsFresh'
    BY <2>0, <2>a
  <2>4. ImageComplete'
    BY <2>0, <2>a
  <2>5. StepsDone'
    BY <2>0, <2>a
  <2>6. DoneStays'
    BY <2>0, <2>a
  <2> QED
    BY <2>1, <2>2, <2>3, <2>4, <2>5, <2>6 DEF FolderInv
<1>37. CASE SkipLauncher
  BY <1>37 DEF SkipLauncher, Conf, RootFS, Proc
<1>22. ASSUME NEW w \in BOOLEAN, MarkDone(w) PROVE FolderInv'
  <2>1. Deleted'
    BY <1>22 DEF MarkDone, Conf, RootFS, Proc
  <2>2. StageIsTrue'
    BY <1>22 DEF MarkDone, Conf, RootFS, Proc
  <2>3. HaveIsFresh'
    BY <1>22 DEF MarkDone, Conf, RootFS, Proc
  <2>4. ImageComplete'
    BY <1>22 DEF MarkDone, Conf, RootFS, Proc
  <2>5. StepsDone'
    BY <1>22 DEF MarkDone, Conf, RootFS, Proc
  <2>6. DoneStays'
    <3>1. /\ UNCHANGED <<dir, rootfs, launcher, torn, unwritten>>
          /\ proc.pc = "done" /\ proc'.pc = "cleanup" /\ conf'.DE = conf.DE
          /\ conf'.EDITION = conf.EDITION /\ conf'.PREBUILT = conf.PREBUILT
      BY <1>22 DEF MarkDone, Conf, Proc
    <3> QED
      BY <3>1
  <2> QED
    BY <2>1, <2>2, <2>3, <2>4, <2>5, <2>6 DEF FolderInv
<1>23. CASE CleanUp
  BY <1>23 DEF CleanUp, Conf, RootFS, Proc, NoProc
<1>24. CASE RemoveNothing
  BY <1>24 DEF RemoveNothing, Conf, RootFS, Proc, NoProc
<1>25. CASE StartRemove
  BY <1>25 DEF StartRemove, Conf, RootFS, Proc, NoProc
<1>26. CASE DeleteFolder
  BY <1>26 DEF DeleteFolder, Conf, RootFS, Proc, NoConf, NoRootFS, NoProc, Exists
<1>27. CASE RemoveRest
  BY <1>27 DEF RemoveRest, Conf, RootFS, Proc, NoProc
<1>28. CASE StopDownload
  BY <1>28 DEF StopDownload, Conf, RootFS, Proc, NoProc
<1>29. CASE CutDelete
  <2>1. proc'.pc = "idle" /\ dir'
    BY <1>29 DEF CutDelete, NoProc
  <2>2. /\ ~torn' => conf'.STAGE = ""
        /\ rootfs'.state = "whole" => rootfs' = rootfs
    BY <1>29, CutDeleteLeaves
  <2>3. ImageComplete'
    BY <2>2
  <2> QED
    BY <2>1, <2>2, <2>3
<1>30. CASE Stop
  BY <1>30 DEF Stop, Conf, RootFS, Proc, NoProc
<1>31. CASE Clean
  <2>1. Deleted'
    BY <1>31 DEF Clean, Conf, RootFS, Proc
  <2>2. StageIsTrue'
    BY <1>31 DEF Clean, Conf, RootFS, Proc
  <2>3. HaveIsFresh'
    BY <1>31 DEF Clean, Conf, RootFS, Proc
  <2>4. ImageComplete'
    BY <1>31 DEF Clean, Conf, RootFS, Proc
  <2>5. StepsDone'
    BY <1>31 DEF Clean, Conf, RootFS, Proc
  <2>6. DoneStays'
    BY <1>31 DEF Clean, Conf, RootFS, Proc
  <2> QED
    BY <2>1, <2>2, <2>3, <2>4, <2>5, <2>6 DEF FolderInv
<1>32. CASE UNCHANGED vars
  <2>1. Deleted'
    BY <1>32 DEF vars
  <2>2. StageIsTrue'
    BY <1>32 DEF vars
  <2>3. HaveIsFresh'
    BY <1>32 DEF vars
  <2>4. ImageComplete'
    BY <1>32 DEF vars
  <2>5. StepsDone'
    BY <1>32 DEF vars
  <2>6. DoneStays'
    BY <1>32 DEF vars
  <2> QED
    BY <2>1, <2>2, <2>3, <2>4, <2>5, <2>6 DEF FolderInv
<1> QED
  BY <1>1, <1>2, <1>3, <1>4, <1>5, <1>6, <1>7, <1>8, <1>9, <1>10, <1>11, <1>12, <1>13, <1>14, <1>15, <1>16, <1>17, <1>18, <1>19, <1>20, <1>21, <1>22, <1>23, <1>24, <1>25, <1>26, <1>27, <1>28, <1>29, <1>30, <1>31, <1>32, <1>33, <1>34, <1>35, <1>36, <1>37 DEF Next, Steps, Deletes, Crashes, FailedWrites

\* The invariant, for any desktops and editions.
THEOREM Inductive == Spec => []IInv
  BY InitInv, StepInv, PTL DEF Spec

-----------------------------------------------------------------------------
(* The properties.                                                         *)

\* Whatever was killed, failed or resumed on the way, a folder marked done
\* holds a finished install: STAGE=done can be trusted (common.go:106),
\* except for a delete cut short and a desktop judged prebuilt that is not.
THEOREM DoneFinished == Spec => []DoneIsFinished
<1>1. IInv => DoneIsFinished
  BY DesktopsAssumption
  DEF IInv, FolderInv, StageIsTrue, SetUpStages, DoneStays, Complete,
      DoneIsFinished, FinishedBut, Installed
<1> QED
  BY <1>1, Inductive, PTL

\* A successful install leaves the session script of the desktop it recorded.
THEOREM SessionsMatch == Spec => []SessionMatches
<1>1. IInv => SessionMatches
  BY DEF IInv, FolderInv, StepsDone, SessionMatches
<1> QED
  BY <1>1, Inductive, PTL

\* haveRootfs is read once and used later; no interleaving of crashes and
\* commands makes a later install unpack over a rootfs that was set up.
THEOREM FilesKept == Spec => KeepsFiles
<1>1. IInv /\ [Next]_vars
        => [ (SetUp /\ ~torn /\ rootfs'.state # "whole")
               => proc.pc \in {"wipe", "delete"} ]_vars
  <2> SUFFICES ASSUME IInv, Next, SetUp, ~torn, rootfs'.state # "whole",
                      proc.pc \notin {"wipe", "delete"}
               PROVE  FALSE
    OBVIOUS
  <2>1. rootfs.state = "whole" /\ conf.STAGE \in SetUpStages
    BY DEF IInv, FolderInv, StageIsTrue, SetUpStages, SetUp
  <2>2. UNCHANGED rootfs \/ rootfs'.state = "whole" \/ ClearRootfs
    BY <2>1
    DEF Next, Steps, Deletes, Crashes, folder, IInv, TypeOK, RootFS, Unpacked, NoRootFS,
        Refuse, Refresh, StartInstall, Wipe, CheckPhone, FindSource, Download,
        Extract, MarkExtracted, SkipSetup, Configure, MarkConfigured,
        BeginPackages, FinishPackages, SetUpDesktop, RecordDesktop, MarkDesktop,
        MoveOldLauncher, UnlinkLauncher, WriteLauncher, MarkDone, CleanUp,
        RefreshSession, CutSession, CutLauncher, SkipLauncher, FailedWrites, RemoveNothing,
        StartRemove, StartRemoveEdition, DeleteFolder, RemoveRest, StopDownload,
        CutDelete, Stop, Clean
  <2>3. CASE ClearRootfs
    BY <2>1, <2>3 DEF ClearRootfs, IInv, FolderInv, HaveIsFresh
  <2> QED
    BY <2>1, <2>2, <2>3
<1> QED
  BY <1>1, Inductive, PTL DEF Spec, KeepsFiles

\* While a distro stays installed its edition does too: the check for another
\* edition is made at the start, and nothing after it can undermine it.
THEOREM LabelsStay == Spec => LabelStable
<1>1. IInv /\ [Next]_vars
        => [ (Installed /\ ~torn /\ Installed' /\ ~torn')
               => installedEdition' = installedEdition ]_vars
  <2> SUFFICES ASSUME IInv, Next, Installed, ~torn, Installed', ~torn'
               PROVE  installedEdition' = installedEdition
    OBVIOUS
  <2>1. conf.STAGE = "done" /\ conf'.STAGE = "done"
    BY DEF Installed
  <2>2. conf \in Conf /\ rootfs \in RootFS /\ proc \in Proc
    BY DEF IInv, TypeOK
  <2>3. CASE \E w \in BOOLEAN : CheckPhone(w)
    <3>1. proc.cmd.edition = installedEdition
      BY <2>1, <2>3 DEF CheckPhone, IInv, FolderInv, DoneStays
    <3> QED
      BY <2>2, <2>3, <3>1 DEF CheckPhone, installedEdition, Conf
  <2>4. CASE ClearRootfs \/ \E w \in BOOLEAN : Extract(w)
    BY <2>1, <2>4 DEF ClearRootfs, Extract, IInv, FolderInv, HaveIsFresh, SetUpStages
  <2>5. CASE Wipe \/ DeleteFolder
    <3>1. conf' = NoConf
      BY <2>5 DEF Wipe, DeleteFolder
    <3> QED
      BY <2>1, <3>1 DEF NoConf
  <2>6. CASE CutDelete
    BY <2>1, <2>2, <2>6, CutDeleteLeaves
  <2>7. CASE UNCHANGED conf
             /\ \E c \in Command : Refuse(c) \/ Refresh(c) \/ StartInstall(c)
    BY <2>2, <2>7
    DEF Refuse, Refresh, StartInstall, installedEdition, folder, RootFS
  <2>8. CASE \/ FindSource \/ Download \/ MarkExtracted \/ SkipSetup \/ Configure
             \/ MarkConfigured \/ BeginPackages \/ FinishPackages \/ SetUpDesktop
             \/ (\E w \in BOOLEAN : RecordDesktop(w)) \/ MarkDesktop
             \/ MoveOldLauncher \/ UnlinkLauncher \/ WriteLauncher
             \/ (\E w \in BOOLEAN : MarkDone(w)) \/ CleanUp
             \/ RefreshSession \/ CutSession \/ CutLauncher \/ SkipLauncher
    BY <2>2, <2>8
    DEF FindSource, Download, MarkExtracted, SkipSetup, Configure,
        MarkConfigured, BeginPackages, FinishPackages, SetUpDesktop,
        RecordDesktop, MarkDesktop, MoveOldLauncher, UnlinkLauncher, WriteLauncher,
        MarkDone, CleanUp, RefreshSession, CutSession, CutLauncher, SkipLauncher,
        installedEdition, folder, RootFS, Conf
  <2>9. CASE \/ RemoveNothing \/ StartRemove \/ RemoveRest \/ StopDownload \/ Stop
             \/ Clean \/ \E e \in Editions : StartRemoveEdition(e)
    BY <2>9
    DEF RemoveNothing, StartRemove, StartRemoveEdition, RemoveRest,
        StopDownload, Stop, Clean, installedEdition, folder
  <2> QED
    BY <2>3, <2>4, <2>5, <2>6, <2>7, <2>8, <2>9
    DEF Next, Steps, Deletes, Crashes, FailedWrites, Refuse, Refresh, StartInstall, folder
<1> QED
  BY <1>1, Inductive, PTL DEF Spec, LabelStable

\* No command and no crash loses the launcher of an older installer.
THEOREM OldLaunchersKept == Spec => OldLauncherKept
<1>1. IInv /\ [Next]_vars
        => [ (launcher = "foreign" \/ kept) => (launcher' = "foreign" \/ kept') ]_vars
  <2> SUFFICES ASSUME IInv, Next, launcher = "foreign" \/ kept
               PROVE  launcher' = "foreign" \/ kept'
    OBVIOUS
  <2>1. proc.pc \in {"unlink", "reUnlink", "launcher", "reLauncher"} => launcher # "foreign"
    BY DEF IInv, FolderInv, StepsDone
  <2>2. CASE UNCHANGED <<launcher, kept>>
    BY <2>2
  <2>3. CASE UnlinkLauncher \/ WriteLauncher \/ CutLauncher \/ RemoveRest \/ MoveOldLauncher
    BY <2>1, <2>3 DEF UnlinkLauncher, WriteLauncher, CutLauncher, RemoveRest, MoveOldLauncher
  <2> QED
    BY <2>2, <2>3
    DEF Next, Steps, Deletes, Crashes, FailedWrites, Refuse, Refresh, StartInstall, Wipe, CheckPhone,
        RefreshSession, CutSession, SkipLauncher,
        FindSource, Download, ClearRootfs, Extract, MarkExtracted, SkipSetup,
        Configure, MarkConfigured, BeginPackages, FinishPackages, SetUpDesktop,
        RecordDesktop, MarkDesktop, MarkDone, CleanUp, RemoveNothing,
        StartRemove, StartRemoveEdition, DeleteFolder, StopDownload, CutDelete,
        Stop, Clean
<1> QED
  BY <1>1, Inductive, PTL DEF Spec, OldLauncherKept
=============================================================================
