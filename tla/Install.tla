------------------------------ MODULE Install ------------------------------
(***************************************************************************)
(* One distro's folder, ~/.andronix/distros/<id>, under the commands that  *)
(* create, resume, replace and delete it: `andronix install`, `andronix    *)
(* remove` and `andronix clean`.  One command runs at a time; it can be    *)
(* killed, or fail, between any two of its writes.  A write that fails (a  *)
(* full disk) stops the command only where the code looks at its error.    *)
(*                                                                         *)
(* The folder keeps two things that have to agree across those crashes:    *)
(* install.conf (conf) and the root file system (rootfs).                  *)
(***************************************************************************)
CONSTANTS
    Desktops,   \* the desktops this distro offers, "none" not among them
    Editions,   \* the Modded editions that share this distro's folder
    DesktopOf   \* the desktop each edition comes with (editions.conf)

ASSUME DesktopsAssumption == Desktops \cap {"none", ""} = {}
ASSUME EditionsAssumption == "" \notin Editions
ASSUME DesktopOfAssumption == DesktopOf \in [Editions -> Desktops]

VARIABLES
    dir,        \* whether the distro's folder exists
    conf,       \* install.conf: STAGE, EDITION, PREBUILT, DE
    rootfs,     \* the unpacked system, see RootFS
    launcher,   \* ~/start-<distro>.sh: none, ours, an old installer's, or
                \* cut: there, and empty
    kept,       \* the old installer's launcher was kept under another name
    cache,      \* an archive of this distro is in ~/.andronix/cache
    proc,       \* the running command, see Proc
    torn,       \* history: a delete was cut short and left install.conf
    unwritten   \* history: what a write that was cut, or whose error nobody
                \* looked at, was for (in a folder that is not torn): launcher,
                \* session, DE

folder == <<dir, conf, rootfs>>
vars == <<dir, conf, rootfs, launcher, kept, cache, proc, torn, unwritten>>

-----------------------------------------------------------------------------
(* Data.  An edition is "" for the free one; a key that is not in          *)
(* install.conf reads as "", like a key set to "".                         *)

Edition == Editions \cup {""}
Desktop == Desktops \cup {"none"}

Conf == [STAGE    : {"", "extracted", "configured", "desktop", "done"},
         EDITION  : Edition,
         PREBUILT : {"", "yes", "no"},
         DE       : Desktop \cup {""}]

NoConf == [STAGE |-> "", EDITION |-> "", PREBUILT |-> "", DE |-> ""]

\* What an image contains: the edition whose marker file it carries and the
\* desktop that is already installed in it.
Image == [edition : Edition, desktop : Desktop]

FreeImage == [edition |-> "", desktop |-> "none"]
ModdedImage(e) == [edition |-> e, desktop |-> DesktopOf[e]]
Exported(d) == [edition |-> "", desktop |-> d]

\* state: absent, unpacking (an unfinished unpack), whole, or torn (an
\* unfinished delete).  pkgs[d]: none, part (the session command is there,
\* its packages are not all configured) or full.  session: the desktop the
\* xstartup script starts, "" if the script is empty.
RootFS == [state      : {"absent", "unpacking", "whole", "torn"},
           image      : Image,
           configured : BOOLEAN,
           pkgs       : [Desktops -> {"none", "part", "full"}],
           session    : Desktop \cup {""}]

NoRootFS == [state |-> "absent", image |-> FreeImage, configured |-> FALSE,
             pkgs |-> [d \in Desktops |-> "none"], session |-> "none"]

Command == {c \in [edition : Edition, de : Desktop, reinstall : BOOLEAN] :
              c.edition # "" => c.de = DesktopOf[c.edition]}

Idle == {"idle", "ok", "removed"}

\* pc: the next write of the command ("ok", "removed": the last command
\* returned success).  have: haveRootfs, read once, before the steps.
\* src, image: the source picked for the download.
Proc == [pc : Idle \cup {"wipe", "check", "source", "download", "clear",
                         "extract", "extracted", "setup", "configured",
                         "packages", "installing", "desktop", "recordDE",
                         "markDesktop", "oldLauncher", "unlink", "launcher",
                         "done", "cleanup", "reOld", "reUnlink", "reLauncher",
                         "reSession", "delete", "removeRest"},
         cmd   : Command,
         have  : BOOLEAN,
         src   : {"none", "local", "file", "registry"},
         image : Image]

NoProc == [pc |-> "idle", have |-> FALSE, src |-> "none", image |-> FreeImage,
           cmd |-> [edition |-> "", de |-> "none", reinstall |-> FALSE]]

TypeOK ==
    /\ dir \in BOOLEAN
    /\ conf \in Conf
    /\ rootfs \in RootFS
    /\ launcher \in {"none", "ours", "foreign", "cut"}
    /\ kept \in BOOLEAN
    /\ cache \in BOOLEAN
    /\ proc \in Proc
    /\ torn \in BOOLEAN
    /\ unwritten \subseteq {"launcher", "session", "DE"}

-----------------------------------------------------------------------------
(* What the code derives from the folder.                                  *)

Exists == rootfs.state # "absent"

Installed == Exists /\ conf.STAGE = "done"

\* Mutants: a stage forgotten, the stage not read at all.
ResumableNotDesktop == Exists /\ conf.STAGE \in {"configured", "done"}
ResumableAny == Exists

Resumable == Exists /\ conf.STAGE \in {"configured", "desktop", "done"}

moddedImage == rootfs.image.edition # ""

installedEdition ==
    IF conf.EDITION # "" THEN conf.EDITION ELSE rootfs.image.edition

sessionPresent(d) == d # "none" /\ rootfs.pkgs[d] # "none"

\* Mutant: any session command counts, PREBUILT is not read.
prebuiltAny(d) == sessionPresent(d)

prebuilt(d) ==
    /\ sessionPresent(d)
    /\ \/ conf.PREBUILT = "yes"
       \/ conf.PREBUILT = "" /\ (moddedImage \/ conf.EDITION # "")

\* A rootfs fresh out of an image.
Unpacked(image) ==
    [NoRootFS EXCEPT !.state = "whole", !.image = image,
                     !.pkgs = [d \in Desktops |->
                                 IF d = image.desktop THEN "full" ELSE "none"]]

-----------------------------------------------------------------------------
(* The folder as andronix 2.0.0, which did not write PREBUILT, may have    *)
(* left it: part way through the packages, or finished.                    *)

From200(image, stage, d, have) ==
    /\ conf = [STAGE |-> stage, EDITION |-> image.edition, PREBUILT |-> "",
               DE |-> IF stage = "done" THEN d ELSE ""]
    /\ rootfs = [Unpacked(image) EXCEPT
                   !.configured = TRUE,
                   !.pkgs[d] = IF image.desktop = d THEN "full" ELSE have,
                   !.session = IF stage = "done" THEN d ELSE "none"]

Init ==
    /\ \/ /\ dir = FALSE /\ conf = NoConf /\ rootfs = NoRootFS
          /\ launcher \in {"none", "foreign"}
       \/ /\ dir = TRUE
          /\ \E image \in {FreeImage} \cup {ModdedImage(e) : e \in Editions},
                d \in Desktops :
                \/ /\ \E have \in {"none", "part", "full"} :
                         From200(image, "configured", d, have)
                   /\ launcher = "none"
                \/ From200(image, "done", d, "full") /\ launcher = "ours"
    /\ kept = FALSE
    /\ cache = FALSE
    /\ proc = NoProc
    /\ torn = FALSE
    /\ unwritten = {}

-----------------------------------------------------------------------------
(* `andronix install`: the checks before the steps.                        *)

Goto(pc) == proc' = [proc EXCEPT !.pc = pc]
Unwritten(what) == unwritten' = IF torn THEN unwritten ELSE unwritten \cup {what}
Return(how) == proc' = [NoProc EXCEPT !.pc = how]

\* Mutant: an edition over the free distro is let through.
RefusedNotFree(c) ==
    Installed /\ ~c.reinstall /\ installedEdition # c.edition /\ installedEdition # ""

\* Another edition is installed and --reinstall is missing.
Refused(c) ==
    /\ Installed /\ ~c.reinstall
    /\ installedEdition # c.edition
    /\ c.edition # "" \/ installedEdition # ""

AlreadyInstalled(c) ==
    Installed /\ ~c.reinstall /\ (conf.DE = c.de \/ c.de = "none")

\* "already installed": an error, and nothing changes.
Refuse(c) ==
    /\ proc.pc \in Idle /\ Refused(c)
    /\ proc' = NoProc
    /\ UNCHANGED <<folder, launcher, kept, cache, torn, unwritten>>

\* Nothing to do: refresh the launcher and the session script.
Refresh(c) ==
    /\ proc.pc \in Idle
    /\ ~Refused(c) /\ AlreadyInstalled(c)
    /\ proc' = [NoProc EXCEPT !.pc = "reOld"]
    /\ UNCHANGED <<folder, launcher, kept, cache, torn, unwritten>>

\* Mutant: the session script is left as a crash may have left it.
RefreshSessionNot ==
    /\ proc.pc = "reSession"
    /\ Return("ok")
    /\ UNCHANGED <<folder, launcher, kept, cache, torn, unwritten>>

\* After the launcher (MoveOldLauncher and on), the session script.
RefreshSession ==
    /\ proc.pc = "reSession"
    /\ IF conf.DE \in Desktops
       THEN /\ rootfs' = [rootfs EXCEPT !.session = conf.DE]
            /\ unwritten' = unwritten \ {"session"}
       ELSE UNCHANGED <<rootfs, unwritten>>
    /\ Return("ok")
    /\ UNCHANGED <<dir, conf, launcher, kept, cache, torn>>

\* haveRootfs is read here, before the first step, and never again; that it is
\* a --reinstall matters no more once the folder is gone.
StartInstall(c) ==
    /\ proc.pc \in Idle
    /\ ~Refused(c) /\ ~AlreadyInstalled(c)
    /\ proc' = [NoProc EXCEPT !.pc = IF c.reinstall /\ dir THEN "wipe" ELSE "check",
                              !.cmd = [c EXCEPT !.reinstall = FALSE], !.have = Resumable]
    /\ UNCHANGED <<folder, launcher, kept, cache, torn, unwritten>>

\* --reinstall, confirmed: the whole folder goes before haveRootfs is read.
Wipe ==
    /\ proc.pc = "wipe"
    /\ dir' = FALSE /\ conf' = NoConf /\ rootfs' = NoRootFS
    /\ torn' = FALSE /\ unwritten' = {}
    /\ proc' = [proc EXCEPT !.pc = "check", !.have = FALSE]
    /\ UNCHANGED <<launcher, kept, cache>>

-----------------------------------------------------------------------------
(* The steps of `andronix install`, one action per write that a crash      *)
(* could separate from the next one.  A step with a parameter does not     *)
(* look at the error of a Set: written says whether it had none.           *)

CheckPhone(written) ==
    /\ proc.pc = "check"
    /\ dir' = TRUE
    /\ conf' = IF written THEN [conf EXCEPT !.EDITION = proc.cmd.edition] ELSE conf
    /\ Goto(IF proc.have THEN "setup" ELSE "source")
    /\ UNCHANGED <<rootfs, launcher, kept, cache, torn, unwritten>>

\* ANDRONIX_ROOTFS (an exported rootfs, also of an edition), moddedSource, or
\* pickSource: a tarball (the mirror's, the distro's) or the registry's layers.
FindSource ==
    /\ proc.pc = "source"
    /\ \E s \in {"local", "file", "registry"}, image \in Image :
          /\ \/ /\ s = "local"
                /\ image \in {FreeImage} \cup {Exported(d) : d \in Desktops}
                             \cup {ModdedImage(e) : e \in Editions}
             \/ /\ proc.cmd.edition # ""
                /\ s = "file" /\ image = ModdedImage(proc.cmd.edition)
             \/ /\ proc.cmd.edition = ""
                /\ s # "local" /\ image = FreeImage
          /\ proc' = [proc EXCEPT !.src = s, !.image = image,
                                  !.pc = IF s = "local" THEN "clear" ELSE "download"]
    /\ UNCHANGED <<folder, launcher, kept, cache, torn, unwritten>>

\* The picked source is kept in the cache.
Archive == proc.src \in {"file", "registry"}

Download ==
    /\ proc.pc = "download"
    /\ cache' = (cache \/ Archive)
    /\ Goto("clear")
    /\ UNCHANGED <<folder, launcher, kept, torn, unwritten>>

\* A download that stops leaves no image, only its .part; layers that were
\* complete stay.
StopDownload ==
    /\ proc.pc = "download"
    /\ cache' \in {cache, cache \/ proc.src = "registry"}
    /\ proc' = NoProc
    /\ UNCHANGED <<folder, launcher, kept, torn, unwritten>>

\* Unpacking deletes whatever rootfs is there and starts from nothing.
ClearRootfs ==
    /\ proc.pc = "clear"
    /\ rootfs' = [NoRootFS EXCEPT !.state = "unpacking"]
    /\ Goto("extract")
    /\ UNCHANGED <<dir, conf, launcher, kept, cache, torn, unwritten>>

\* PREBUILT: does the image itself have this command's desktop?
Extract(written) ==
    /\ proc.pc = "extract" /\ (Archive => cache)
    /\ rootfs' = Unpacked(proc.image)
    /\ conf' = IF ~written THEN conf
               ELSE [conf EXCEPT !.PREBUILT =
                       IF proc.cmd.de \in Desktops /\ proc.image.desktop = proc.cmd.de
                       THEN "yes" ELSE "no"]
    /\ proc' = [proc EXCEPT !.pc = "extracted", !.image = FreeImage]
    /\ UNCHANGED <<dir, launcher, kept, cache, torn, unwritten>>

\* Mutant: a stage no reader knows.
MarkUnpacked ==
    /\ proc.pc = "extracted"
    /\ conf' = [conf EXCEPT !.STAGE = "unpacked"] /\ torn' = FALSE
    /\ Goto("setup")
    /\ UNCHANGED <<dir, rootfs, launcher, kept, cache, unwritten>>

MarkExtracted ==
    /\ proc.pc = "extracted"
    /\ conf' = [conf EXCEPT !.STAGE = "extracted"] /\ torn' = FALSE
    /\ Goto("setup")
    /\ UNCHANGED <<dir, rootfs, launcher, kept, cache, unwritten>>

\* "Setting up": a resumed install skips it.
SkipSetup ==
    /\ proc.pc = "setup"
    /\ conf.STAGE # "extracted" /\ proc.have
    /\ Goto("packages")
    /\ UNCHANGED <<folder, launcher, kept, cache, torn, unwritten>>

Configure ==
    /\ proc.pc = "setup"
    /\ ~(conf.STAGE # "extracted" /\ proc.have)
    /\ rootfs' = [rootfs EXCEPT !.configured = TRUE]
    /\ Goto("configured")
    /\ UNCHANGED <<dir, conf, launcher, kept, cache, torn, unwritten>>

MarkConfigured ==
    /\ proc.pc = "configured"
    /\ conf' = [conf EXCEPT !.STAGE = "configured"]
    /\ Goto("packages")
    /\ UNCHANGED <<dir, rootfs, launcher, kept, cache, torn, unwritten>>

AfterPackages == IF proc.cmd.de = "none" THEN "recordDE" ELSE "desktop"

\* The refresh, the upgrade and the package run, up to the point where the
\* package manager may have put the session command in place.
BeginPackages ==
    /\ proc.pc = "packages"
    /\ IF prebuilt(proc.cmd.de) \/ proc.cmd.de = "none"
       THEN Goto(AfterPackages) /\ UNCHANGED rootfs
       ELSE /\ rootfs' = [rootfs EXCEPT !.pkgs[proc.cmd.de] =
                            IF @ = "full" THEN @ ELSE "part"]
            /\ Goto("installing")
    /\ UNCHANGED <<dir, conf, launcher, kept, cache, torn, unwritten>>

FinishPackages ==
    /\ proc.pc = "installing"
    /\ rootfs' = [rootfs EXCEPT !.pkgs[proc.cmd.de] = "full"]
    /\ Goto(AfterPackages)
    /\ UNCHANGED <<dir, conf, launcher, kept, cache, torn, unwritten>>

\* The browser step never fails an install, and leaves nothing modelled.
SetUpDesktop ==
    /\ proc.pc = "desktop"
    /\ rootfs' = [rootfs EXCEPT !.session = proc.cmd.de]
    /\ unwritten' = unwritten \ {"session"}
    /\ Goto("recordDE")
    /\ UNCHANGED <<dir, conf, launcher, kept, cache, torn>>

\* Also of an install without a desktop, by its last step.
RecordDesktop(written) ==
    /\ proc.pc = "recordDE"
    /\ IF written THEN /\ conf' = [conf EXCEPT !.DE = proc.cmd.de]
                       /\ unwritten' = unwritten \ {"DE"}
                  ELSE conf' = conf /\ Unwritten("DE")
    /\ Goto(IF proc.cmd.de = "none" THEN "oldLauncher" ELSE "markDesktop")
    /\ UNCHANGED <<dir, rootfs, launcher, kept, cache, torn>>

MarkDesktop ==
    /\ proc.pc = "markDesktop"
    /\ conf' = [conf EXCEPT !.STAGE = "desktop"]
    /\ Goto("oldLauncher")
    /\ UNCHANGED <<dir, rootfs, launcher, kept, cache, torn, unwritten>>

\* Mutant: the old launcher is deleted instead of renamed.
DropOldLauncher ==
    /\ proc.pc \in {"oldLauncher", "reOld"}
    /\ launcher' = IF launcher \in {"foreign", "cut"} THEN "none" ELSE launcher
    /\ Goto(IF proc.pc = "reOld" THEN "reUnlink" ELSE "unlink")
    /\ UNCHANGED <<folder, kept, cache, torn, unwritten>>

\* WriteLaunchers, at the end of an install and in a refresh: what has not our
\* mark, an old installer's launcher or an empty file, is renamed first.
MoveOldLauncher ==
    /\ proc.pc \in {"oldLauncher", "reOld"}
    /\ launcher' = IF launcher \in {"foreign", "cut"} THEN "none" ELSE launcher
    /\ kept' = (kept \/ launcher = "foreign")
    /\ Goto(IF proc.pc = "reOld" THEN "reUnlink" ELSE "unlink")
    /\ UNCHANGED <<folder, cache, torn, unwritten>>

UnlinkLauncher ==
    /\ proc.pc \in {"unlink", "reUnlink"}
    /\ launcher' = "none"
    /\ IF proc.pc = "reUnlink" THEN Unwritten("launcher") ELSE UNCHANGED unwritten
    /\ Goto(IF proc.pc = "reUnlink" THEN "reLauncher" ELSE "launcher")
    /\ UNCHANGED <<folder, kept, cache, torn>>

WriteLauncher ==
    /\ proc.pc \in {"launcher", "reLauncher"}
    /\ launcher' = "ours" /\ unwritten' = unwritten \ {"launcher"}
    /\ Goto(IF proc.pc = "reLauncher" THEN "reSession" ELSE "done")
    /\ UNCHANGED <<folder, kept, cache, torn>>

MarkDone(written) ==
    /\ proc.pc = "done"
    /\ conf' = IF written THEN [conf EXCEPT !.STAGE = "done"] ELSE conf
    /\ Goto("cleanup")
    /\ UNCHANGED <<dir, rootfs, launcher, kept, cache, torn, unwritten>>

\* The layers go, and the tarball if one was picked: when the download was
\* skipped (a resumed install), src is empty and an old one may stay.
CleanUp ==
    /\ proc.pc = "cleanup"
    /\ cache' \in IF proc.src = "file" THEN {FALSE} ELSE {cache, FALSE}
    /\ Return("ok")
    /\ UNCHANGED <<folder, launcher, kept, torn, unwritten>>

-----------------------------------------------------------------------------
(* `andronix remove <distro>` and `andronix remove <edition>`, confirmed.  *)

\* Nothing there: the distro's leftover downloads go, nothing else.
RemoveNothing ==
    /\ proc.pc \in Idle /\ ~dir
    /\ cache' = FALSE
    /\ Return("removed")
    /\ UNCHANGED <<folder, launcher, kept, torn, unwritten>>

StartRemove ==
    /\ proc.pc \in Idle /\ dir
    /\ proc' = [NoProc EXCEPT !.pc = "delete"]
    /\ UNCHANGED <<folder, launcher, kept, cache, torn, unwritten>>

\* removeEdition deletes only its own edition.
StartRemoveEdition(e) ==
    /\ proc.pc \in Idle /\ dir
    /\ installedEdition = e
    /\ proc' = [NoProc EXCEPT !.pc = "delete", !.cmd.edition = e,
                              !.cmd.de = DesktopOf[e]]
    /\ UNCHANGED <<folder, launcher, kept, cache, torn, unwritten>>

DeleteFolder ==
    /\ proc.pc = "delete"
    /\ dir' = FALSE /\ conf' = NoConf /\ rootfs' = NoRootFS
    /\ torn' = FALSE /\ unwritten' = {}
    /\ Goto("removeRest")
    /\ UNCHANGED <<launcher, kept, cache>>

\* RemoveLaunchers (only ours) and removeCache.
RemoveRest ==
    /\ proc.pc = "removeRest"
    /\ launcher' = IF launcher = "ours" THEN "none" ELSE launcher
    /\ cache' = FALSE
    /\ Return("removed")
    /\ UNCHANGED <<folder, kept, torn, unwritten>>

-----------------------------------------------------------------------------
(* Crashes, failures and the other commands.                               *)

\* The session script is truncated and not written: an install stops there,
\* and so does what is killed; a refresh that failed goes on.
CutSession ==
    /\ \/ proc.pc = "desktop" /\ proc' = NoProc
       \/ proc.pc = "reSession" /\ conf.DE \in Desktops /\ (proc' = NoProc \/ Return("ok"))
    /\ rootfs' = [rootfs EXCEPT !.session = ""]
    /\ Unwritten("session")
    /\ UNCHANGED <<dir, conf, launcher, kept, cache, torn>>

\* The same for the launcher, which was unlinked before.
CutLauncher ==
    /\ \/ proc.pc \in {"launcher", "reLauncher"} /\ proc' = NoProc
       \/ proc.pc = "reLauncher" /\ Goto("reSession")
    /\ launcher' = "cut"
    /\ UNCHANGED <<folder, kept, cache, torn, unwritten>>

\* A rename, or the creation of the launcher, fails: a refresh goes on.
SkipLauncher ==
    /\ proc.pc \in {"reOld", "reLauncher"}
    /\ Goto("reSession")
    /\ UNCHANGED <<folder, launcher, kept, cache, torn, unwritten>>

\* A delete in progress is killed or stops with an error.  Files go in
\* directory order, which is the file system's own: any part may be left.
CutDelete ==
    /\ proc.pc \in {"wipe", "delete"}
    /\ conf' \in {conf, NoConf}
    /\ rootfs' \in {rootfs, NoRootFS}
                   \cup (IF Exists THEN {[rootfs EXCEPT !.state = "torn"],
                                         [NoRootFS EXCEPT !.state = "torn"]} ELSE {})
    /\ torn' = (conf' # NoConf) /\ unwritten' = {}
    /\ proc' = NoProc
    /\ UNCHANGED <<dir, launcher, kept, cache>>

\* Any other step fails, or the process is killed before its next write.
Stop ==
    /\ proc.pc \notin Idle \cup {"wipe", "delete", "download"}
    /\ proc' = NoProc
    /\ UNCHANGED <<folder, launcher, kept, cache, torn, unwritten>>

\* `andronix clean` in another session keeps what was written in the last
\* two minutes, so it may take away what an unpack still reads.
Clean ==
    /\ cache' = FALSE
    /\ UNCHANGED <<folder, launcher, kept, proc, torn, unwritten>>

-----------------------------------------------------------------------------
Steps ==
    \/ Wipe \/ CheckPhone(TRUE) \/ FindSource \/ Download \/ ClearRootfs \/ Extract(TRUE)
    \/ MarkExtracted \/ SkipSetup \/ Configure \/ MarkConfigured
    \/ BeginPackages \/ FinishPackages \/ SetUpDesktop \/ RecordDesktop(TRUE)
    \/ MarkDesktop \/ MoveOldLauncher \/ UnlinkLauncher \/ WriteLauncher
    \/ MarkDone(TRUE) \/ CleanUp \/ RefreshSession

Deletes == DeleteFolder \/ RemoveRest

\* Writes that fail, or are cut.
FailedWrites ==
    \/ CheckPhone(FALSE) \/ Extract(FALSE) \/ RecordDesktop(FALSE) \/ MarkDone(FALSE)
    \/ CutSession \/ CutLauncher \/ SkipLauncher

Crashes == StopDownload \/ CutDelete \/ Stop

Next ==
    \/ \E c \in Command : Refuse(c) \/ Refresh(c) \/ StartInstall(c)
    \/ Steps
    \/ RemoveNothing \/ StartRemove \/ \E e \in Editions : StartRemoveEdition(e)
    \/ Deletes
    \/ Crashes \/ FailedWrites
    \/ Clean

Spec == Init /\ [][Next]_vars

-----------------------------------------------------------------------------
(* Properties.                                                             *)

\* What a finished install has: the whole rootfs, set up, its launcher, and
\* every package and the session of the desktop install.conf names; of these,
\* the parts that no write of except has left out.
FinishedBut(except) ==
    /\ rootfs.state = "whole" /\ rootfs.configured
    /\ "launcher" \notin except => launcher = "ours"
    /\ "DE" \notin except =>
          /\ conf.DE # ""
          /\ conf.DE \in Desktops =>
                /\ rootfs.pkgs[conf.DE] = "full"
                /\ "session" \notin except => rootfs.session \in Desktops

Finished == FinishedBut({})

\* The skip rule for prebuilt images applied to a desktop that did not come
\* with the image.
Misjudged(d) ==
    /\ rootfs.image.desktop # d
    /\ \/ conf.PREBUILT = "yes"
       \/ conf.PREBUILT = "" /\ (rootfs.image.edition # "" \/ conf.EDITION # "")

\* `Installed` (STAGE=done) is what start, list, update and backup trust:
\* whatever was killed on the way there, and however often it was resumed,
\* the folder then holds a finished install (common.go:105, install.go:596).
\* A refresh that was cut, and errors that nobody looked at, are named.
DoneIsFinished ==
    Installed /\ ~torn /\ ~Misjudged(conf.DE) => FinishedBut(unwritten)

SetUp == Exists /\ conf.STAGE \in {"configured", "desktop", "done"}

\* Once a rootfs is set up, only remove and --reinstall take it away: no
\* resumed install and no second desktop unpacks over the user's files
\* (haveRootfs, install.go:216-222 and 393).
KeepsFiles ==
    [][ (SetUp /\ ~torn /\ rootfs'.state # "whole")
          => proc.pc \in {"wipe", "delete"} ]_vars

\* While a distro stays installed, no command changes which edition it is
\* (the check at install.go:180, edition.go:16-19).
LabelStable ==
    [][ (Installed /\ ~torn /\ Installed' /\ ~torn')
          => installedEdition' = installedEdition ]_vars

\* An old installer's launcher is kept, under its own name or renamed, by
\* every command and at every crash (common.go:210-212, 225-234, 253-261).
OldLauncherKept ==
    [][ (launcher = "foreign" \/ kept) => (launcher' = "foreign" \/ kept') ]_vars

\* When `andronix install` returns success, the VNC session script starts the
\* desktop install.conf names, also after a crash between the two writes left
\* them different (install.go:190-195, 588-594), unless one of the two could
\* not be written and nobody looked.
SessionMatches ==
    /\ proc.pc = "ok" /\ ~torn /\ conf.DE \in Desktops
    /\ {"session", "DE"} \cap unwritten = {}
    => rootfs.session = conf.DE
=============================================================================
