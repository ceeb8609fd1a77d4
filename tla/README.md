# The Andronix installer in TLA+

Andronix installs Linux distros on a phone without root: a Go program, `andronix`,
downloads a root file system, unpacks it under `~/.andronix`, sets it up with the
distro's own package manager and starts it through proot. Most of what can go wrong
in it goes wrong *between* two writes: Android kills Termux when memory is short,
mobile data stalls, a package run stops part way, the user runs the same command
again, or runs another one in a second Termux session. The specifications here are about
that: what the files on disk say, at every point a command can stop at, and what the next
command, or the one next to it, makes of them.

| module | what it models | run | proofs |
|---|---|---|---|
| `Install` | one distro's folder under install, resume, replace, remove and clean | `install` | `InstallProofs` |
| `InstallRetry` | the same, one command repeated until it works | `install_retry` | none (liveness) |
| `Download` | one file of the cache: resume, retry, verify, while the server changes | `download` | `ImageProofs` |
| `Extract` | the entries of archives and layers, the links they go through | `extract` | `ImageProofs` |
| `Packs` | the records and packages of dev packs, in one or two sessions | `packs`, `packs_two` | `PacksProofs` |
| `Update` | the self-update, the hand-over, the chain of Modded deltas | `update` | `UpdateProofs` |
| `Backup` | backup and restore, and the links that proot fakes | `backup` | `CommandProofs` |
| `Start` | the bwrap stand-in, the package lock, sound | `start` | `StartProofs` |
| `Desktop` | desktop and desktop stop over one display and one state file | `desktop` | `DesktopProofs` |
| `Guest` | the first user, vncserver-start and vncserver-stop | `guest` | `GuestProofs` |
| `Steps` | the step runner: event loop, goroutines, messages | `steps` | `CommandProofs` |
| `StepList` | what a list of steps promises; `Steps` implements it | (by `steps`) | `CommandProofs` |

Each `MC` module gives the constants their values for TLC. Each `.cfg` belongs to one run of
`PROJECT.json`, which also maps every definition to its lines of source.

    tlc -workers 2 -config Install.cfg MCInstall
    tlapm InstallProofs.tla

Two proof modules hold the proofs of two components each, which do not depend on each other:
`ImageProofs` those of `Download` and `Extract`, `CommandProofs` those of `Backup` and `Steps`.
They extend both, so `Extract` and `Steps` call their specifications `ExtractSpec` and `StepsSpec`,
and what these consist of likewise.


## 1. The system

### Components

**Installer** (`internal/app/install.go`, `common.go`, `edition.go`, `manage.go`,
`cache.go`, `desktop.go`). State: the folder `~/.andronix/distros/<id>` with
`install.conf` (STAGE, EDITION, PREBUILT, DE, ...) and `rootfs/`, the launchers in
`~`, the cache `~/.andronix/cache`. Operations: install (also over what an earlier
install left, also `--reinstall`), remove, remove of an edition, clean. `install.conf`
and `rootfs` are written by separate steps and read together by the next command:
STAGE plus the existence of `rootfs` decide what is skipped (`haveRootfs`,
install.go:216). Hard: a crash between any two of them, a delete that is cut short, a
second desktop over a finished install, two editions that share one folder. Correct
when: STAGE=done means a finished install; nothing but remove and `--reinstall` takes
the user's files; labels say what was unpacked; repeating the command gets there.

**Downloads** (`internal/netx/netx.go`), with **source resolution** (`resolve.go`,
`pickSource`, `moddedSource`) and the **registry client** (`internal/oci`). State: the
file and its `.part`. Operations: ask for size and checksum, five attempts that resume
with a Range request, hash, verify, rename. Hard: the server replaces the file between
two requests, or between two attempts days apart; its caches keep the image for an hour
and the checksum for five minutes (ci/publish-r2.sh:49, 52); clean deletes the `.part`
under a running download. Correct when: what is unpacked is one whole image;
progress is kept; a damaged leftover does not stay in the way.

**Extraction** (`internal/rootfs/extract.go`). State: the tree, the directories
remembered as real, the names this layer wrote. Operations: an entry of each kind, a
whiteout, an opaque whiteout, the next layer. Hard: an archive replaces directories by
links and links by directories and names things through both, and the memory must not
outlive what it says. Correct when: a name leads where the tree says, and the tree is
the image's.

**Dev packs** (`internal/app/pack.go`). State: the record
`/etc/andronix/packs/<id>` of each pack (PACKAGES it brought in, NEEDS it uses,
CHECKED) and the distro's package database. Operations: add, remove, hand a
package over to another pack. Hard: package runs that stop part way, a check that
fails after the packages are in, two packs that share a package, Termux and a shell in
the distro at once with nothing locking the records. Correct when: remove takes out
what packs brought in and nothing else, but what the package manager takes out with it.

**Updates** (`internal/app/update.go`). State: the binary, `self.new`, the helper copied
into each distro, the edition's version and its files. Operations: find, fetch, verify and
rename a build; exec it; refresh the helper; follow the chain of deltas. Hard: a killed
update leaves `self.new`; a mirror's file and its checksums come apart; pre-releases
order otherwise than their numbers; a delta is applied file by file and its version is
written after it. Correct when: the binary is verified and never goes back, and the
files are those of the version on record.

**Backup and restore** (`manage.go`, `internal/rootfs/l2s.go`). State: the files, the archive.
Hard: a hard link in the distro is a symlink by this phone's path to a hidden file; backups
of older installers hold such paths of another phone; the distro may run meanwhile; a restore
may stop part way. Correct when: what is restored reads as what was backed up.

**Start** (`manage.go`, `sound.go`, `internal/rootfs/configure.go`, `internal/termux`). State:
the distro's bwrap and the original beside it, the package lock, PulseAudio and its TCP
module, the install back-off. Several sessions start one distro at once. Correct when: the
original bwrap is kept, a failed install of sound is waited out and not tried by two starts at once, and
sound is open to this phone only.

**X11 desktop session** (`x11.go`, `internal/termux/x11.go`). State: `x11.state`, the display's
socket, the termux-x11 processes, the proot sessions. Operations: desktop, desktop stop, and
what a phone does to processes. No lock: the file is read at the beginning and written much
later. Correct when: a running desktop can be stopped from any session, and takes the server it
started along.

**Guest helpers** (`guest.go`). State: passwd, passwords, homes, sudoers, `/etc/andronix/user`,
`firstboot`; the lock and the socket of a VNC display. Operations: setup-user, vncserver-start,
vncserver-stop. Correct when: who logs in is a whole user, and a VNC server can be found again.

**Step runner** (`internal/ui/steps.go`). State: the model of an event loop, the goroutines of
the steps, and messages on their way. Every command of the above runs under it. Correct when:
steps run in order, one at a time, an error, Ctrl-C or SIGTERM stops the list, and the command ends.

**Compatibility** (`internal/compat`): probes and rules. **proot command line**,
**telemetry and reports**, **tuning, storage, bwrap**, **system calls**, **forms**, the
**command line**, **configuration files**, **package managers**, the shell scripts.
`PROJECT.json` lists each with its files and its status.

### How they interact

A command is one process. `main` picks it, it reads the files it needs, builds a list
of steps and hands it to the step runner; the steps call netx/oci (network), rootfs
(files) and pkgmgr through proot (the distro's packages). Between commands only files
and processes remain. Nothing but the package manager's lock keeps commands apart: two
Termux sessions, or Termux and a shell inside the distro, share `~/.andronix` and
`/etc/andronix` freely, and `clean` in one session guards against an install in another
only by looking at how recently a file was written (cache.go:74).

The models meet where the components do. `Steps` opens what the others take as one thing, their
program counter that goes to the next step, and a `Stop` that comes at any moment: `StepList`, which it
implements, is exactly that. `Download` opens `Install!Download`, `Extract` opens
`Install!Extract`, `Update!Unpack` and `Backup!ExtractEntry`. `Guest` is the setup that
`Desktop` and `Start` run at a first login. The package manager has, in `Install` and
`Packs`, the effects it is used for, on sets of packages.


## 2. The models

### Install

| state | in the code |
|---|---|
| `dir` | the folder exists (`in.Dir`) |
| `conf` | install.conf; a missing key reads as `""` as `conf.Get` does |
| `rootfs` | absent, being unpacked, whole or torn; the image it came from (edition marker and desktop); configured; per desktop whether its packages are there in part or in full; the desktop `xstartup` starts, if it is not empty |
| `launcher`, `kept` | `~/start-<distro>.sh`: none, ours, an older installer's, or cut (there, and empty); whether the older one was renamed |
| `cache` | the image or the layers of this distro |
| `proc` | the running command: its next write, `haveRootfs` as it was read, the source picked |
| `torn` | history: a delete was cut short and left install.conf behind |
| `unwritten` | history: the launcher, session script or DE whose write was cut, or failed with nobody looking |

Every step of `Install` (install.go:257-631) is one action, or one action per write when
it writes twice (`SetUpDesktop`, `RecordDesktop`, `MarkDesktop`). A crash or an error
between two writes is `Stop`; `StopDownload` and `CutDelete` are those inside a download
and a delete, which leave something of their own. Finding a finished install is
`Refuse` or `Refresh`; a refresh then goes through `MoveOldLauncher`, `UnlinkLauncher`, `WriteLauncher` and
`RefreshSession`, and may be killed between any two. `FailedWrites` are the writes that are cut
(`CutSession`, `CutLauncher`) or whose error the code does not look at: an `in.Set` of the steps
(`CheckPhone(FALSE)` and the like) and all of a refresh (`SkipLauncher`). `Clean` may run at any time, in another session. `Init` also
has the folders that version 2.0.0 left, which had no PREBUILT key (install.go:731-736).

Data is reduced to what decides a branch: a desktop's packages are none, part or full;
an image is an edition and a desktop; which distro, CPU or package is out.

### InstallRetry

`Install` with one command repeated. `calm` becomes true at a moment nobody knows, and
then nothing fails any more.

### Packs

`record[p]` is the state file, `installed` the distro's packages, `auto` those that are held as
dependencies only, `proc[s]` the command
of each session with what it has read and not yet written. `Resolutions` are the package
lists a pack may come out as (an optional token that the distro does not have is
dropped). Every read and every write of a record or of the package database is an action
of its own: the rewrite of an heir's record (`Inherit`), which drops its CHECKED line, and
the write that puts it back (`Restore`) are two. Every write of a record may be cut, which leaves an empty
file that reads as added, or fail (`FailRecord`, `FailChecked`, `FailInherit`); only `WriteRecord`'s error is looked at.

`Removals(S)` is what the five package managers may take out when S is removed: what depends on S goes
along (apt, dnf), or refuses the removal (pacman, xbps: `UninstallPart`), or keeps what it needs (apk), and some
orphaned dependencies go too. You install and remove packages at any time, also between what a command reads and what it
does (`InstallYourself`, `RemoveYourself`). `yours`, `brought`, `unrecorded`,
`passed` and `cut` are history: who asked for a package, and what the code is
known not to record. `yours` is a package that you asked for by name when no record and no command had
it as a pack's (`Claimed`). No action reads them.

### Download

`part` and `file` are sequences of chunks; a chunk is an image and its place in it, so a
file that mixes two images, repeats a piece or lacks one is a different sequence. `server`
is the image and the checksum that are served *now*: `Publish` changes either, at any
time, as an upload that replaces both and caches that expire apart do. `kind` is the
source: the mirror's `tarball`, the distro's own (`upstream`), a `modded` image or a
registry `layer`, whose name is its digest. Each request is a step of its own (`Resolve`,
`HeadSize`, `GetSum`, `Request`), and so are `Stat` and `Open`, since the file may go
between them. `gone` is a `.part` that was unlinked while it is open: what is
written then is lost. `mixed` is history and says when nothing can be promised about
unchecked bytes: the image changed after the `.part` was begun, or `clean` ran meanwhile.

Status codes below 500 other than 416 end a download at once; here they are `Kill`, which
has the same effect. Five attempts are `Tries`.

### Extract

`tree` gives every path of a small tree a directory, a link, a file or nothing; `realDirs` and
`written` are the extractor's own. `Walk(links, name)` follows a name component by component through
the paths in `links`, from the root or from where a link is. The code asks its memory before it asks
the file system (`resolveIn`), so the paths it follows are those that are links *and* are not
remembered as directories; `resolve` is the walk that asks the tree alone. A name that leads through too many
links is `Lost`: the entry is only a warning, and what was met before is still remembered. One action per kind of
entry; any entry may come at any time, under any name, so that links end up in the middle of
names and lead in circles. `lower`, `up`, `hidden`, `opaque` are history: what the
image format says the layer is, against which `IsImage` holds the tree. `odd` says that an
entry came that no image tool writes (a path through a link, a path twice, a directory after what is in
it, an entry that was only a warning); from then on only `CacheSafe` is asked for.

### Update

A build stands for the binary, its checksum and its version (`Version`, as
`parseVersion` leaves it). `self` and `tmp` are the binary and `self.new`, `guest` the helper in
the distro, `ver` and `tree` the edition's version on record and its files, `published` how many
deltas the manifest lists. What the resolver, the beta channel or a mirror answers is chosen
anew at each request, so a release may be taken back between two of them. `proc.claim` is the
version the server named, if it did (`binaryVersion` asks the download otherwise). `Exec`
hands over to the build that was installed; `Unpack(f)` is one file of a delta; `CutVersion` is
`os.WriteFile` cut after it truncated. `hasPath` is the loop at update.go:490-504, with
`MaxChain` for its 50. A delta that the manifest lists without a checksum is unpacked as it comes (update.go:528);
the content is then the server's, which the model has for every delta.

### Backup

`dir` gives each name a file, a symlink by a phone's path or by the distro's own, or nothing; names in
`L2S` are link2symlink's hidden files. A symlink may lead to another one: `L2SData` takes any symlink to a symlink to a
file for a faked hard link, as the code does, and `Ordinary` says which are not. `WriteEntry` is one step of `filepath.Walk`,
as the order of `Walk` has it; `Edit` and `HardLink` are the distro at work meanwhile. `ExtractEntry` writes one
entry, or fails to and goes on; `RepairHostLinks` is one walk, which may lose links; `bad` has the names of both. `NewPhone`
takes the archive elsewhere; a backup in `Init` may be an older installer's, from another phone. `Reads` is what a program
in the distro sees through proot, and `View` that for every name; `saved`, `touched` and `bad` are history.

### Start

`bwrap` and `kept` are the distro's `bwrap` and `bwrap.andronix-real`; `Look`, `Repoint`, `Clear`, `Move`
and `PutShim` are `EnsureBwrapShim`, a file operation each. `Sound` and `Due` are the decision to
install PulseAudio, made twice; `Lock` is the `flock`, which goes with its andronix. `Abandons` is a start that is killed, or
that goes on to the login after Ctrl-C or SIGTERM (`LoginAtOnce`): the lock is free, and its apt-get may
go on without it (`adrift`) and get done (`AdriftEnds`). `CheckPulse`,
`ListModules`, `Unload`, `Load` are the daemon and its module, with what the list said kept in
`listed`; a module that asks for a cookie counts as `local`, as in the code. Around them a package upgrade puts the
distro's own bwrap back, the daemon ends, a day passes. `ahead`, `crossed` and `changed` are history.

### Desktop

`at` is where each command is; `session` and `server` the processes, `socket` who made the
display's socket, `file` the run that `x11.state` names. `Look` reads the file; `FindServer`,
`SpawnServer`, `ServerAnswers`, `ServerFails` are the step that starts the server; `Record` writes
the file, or fails to, which the code does not look at; `LeaveSteps` is a SIGTERM in the steps, after which
the desktop goes on and may not know of the server it started (`left`); `Ended`, `StopX11` and `KillServers` are the end. `StopLook` and
`StopRemove` are desktop stop, which shares `KillSession` and `StopX11` with a desktop that gets Ctrl-C.
`ServerUp`, `ServerDies`, `SessionEnds` and `Killed` are the phone. `doomed` holds the pids that
`StopX11` collected before it asks and then kills.

### Guest

`createUser` is an action per command or file: `AddUser`, `SetPassword`, `WriteSudoers`, `SyncSkel`,
`WriteUser`, `RemoveFirstboot`, with `SetupStops` between any two and `CutFile` inside one; several sessions may be in it.
The writes of sudoers, skeleton and user may fail, and the setup goes on, as the code does (`unwritten`, `bare`).
`canSudo` is the distro's DISTRO_SUDO: where it is none, no sudoers file is written.
`CheckDisplay`, `ClearDisplay`, `FillHome`, `GiveUp`, `StartXvnc`, `StartSession` / `NoSocket`, `CheckSession`
are vncserver-start; `StopVNC`, `TermXvnc`, `RemoveFiles` are vncserver-stop. An Xvnc may live on after its SIGTERM
(`survivors`) and end later (`XvncEnds`). `TermuxCloses` ends a server and
leaves its lock and socket. VNC is interleaved while no setup is at work (`Calm`, `Quiet`): a setup writes in
the home of a user that does not log in yet, and the display's files are none of its, so the two
kinds of command do not touch.

### Steps and StepList

`state[i]` is the goroutine of step i (waiting, queued, running, over), `mail` the doneMsg that
the loop has not taken, `idx` and `err` the model's, `quit` a `tea.Quit` on its way. `CtrlC` and
`DoneMsg` come in either order; `Terminate` is a SIGTERM, which bubbletea's own handler turns into a quit without an
error; `RunBroken` is `p.Run` returning an error while a goroutine goes on.
`plain` selects `runPlain`, which is a loop. `StepList` knows steps that begin one after the other and end,
one that fails, and an answer to the caller; `RunsTheList` says that `Steps` does nothing else. The nil that a
SIGTERM brings (`termed`) is mapped to "left", the answer that says nothing of the steps.


## 3. What the runs check

| run | result | distinct states | properties |
|---|---|---|---|
| `install` | holds | 8,996,371 | `DoneIsFinished`, `SessionMatches`, `KeepsFiles`, `LabelStable`, `OldLauncherKept` |
| `install_retry` | holds | 44,378 | `Converges` |
| `download` | holds | 1,594,332 | `UnpacksImage`, `KeepsProgress`, `Recovers` |
| `extract` | holds | 245,096 | `CacheSafe`, `IsImage` |
| `packs` | holds | 2,861,688 | `Owned`, `AddedPassed`, `YoursKept`, `NeedsKept` for one session |
| `packs_two` | violated | | `NeedsKept` for two sessions, section 5 |
| `update` | holds | 1,068,624 | `GuestMatches`, `TreeIsVersion`, `Verified`, `Forward`, `UpToDate` |
| `backup` | holds | 1,422,140 | `RoundTrip`, `Portable`, `RestoreEnds` |
| `start` | holds | 2,591,568 | `SoundIsLocal`, `WaitsOut`, `KeepsOriginal` |
| `desktop` | holds | 1,629,479 | `Reachable`, `OwnServer`, `StopEnds` |
| `guest` | holds | 9,121,752 | `SetUp`, `SudoIsUsers`, `Stoppable` |
| `steps` | holds | 1,393 | `InStep`, `RunsTheList`, `CtrlCLeaves`, `Ends` |

(`install`, `download`, `packs` and `backup` also check their `TypeOK`; the types of all
are proved, section 4. Those of `Extract` are a part of its invariant there.)

- `DoneIsFinished`: STAGE=done and a rootfs, which is all that start, list, update and
  backup look at, mean a whole, configured rootfs with its launcher, its session script and every package of
  its desktop, however many installs were killed on the way. What a write that was cut, or failed unseen, was for is
  left out, part by part (`unwritten`): a refresh that lost the launcher still has to have all the rest.
- `KeepsFiles`: once a rootfs is set up, only remove and `--reinstall` make it less than
  whole. This is what `haveRootfs`, read once before the steps, has to guarantee.
- `LabelStable`: the edition of an installed distro never changes while it stays installed.
- `SessionMatches`: after a success, `xstartup` starts the desktop `install.conf` names, also
  when a crash once came between the two writes and the command found "already installed"; unless one of
  these two writes failed unseen.
- `OldLauncherKept`: an older installer's launcher exists under one of its names, always.
- `Converges`: repeating an install ends in a finished install, from everything a crash or a full disk
  leaves, 2.0.0's folders included. One part may stay undone: an install of the free distro from an exported rootfs
  of an edition (`ANDRONIX_ROOTFS`) whose `DE` could not be written ends at STAGE=done, and from then on the same
  command is refused (install.go:180), so nothing writes the `DE`.
- `UnpacksImage`: with a checksum, the bytes unpacked are that image; without one, they
  are still the whole image, once and in order, as long as the server kept it.
- `KeepsProgress`: a retry continues; bytes of the image it expects are never thrown away.
- `Recovers`: when the server and the network are steady, repeating the command gets the
  image, whatever mixture of images the `.part` was.
- `CacheSafe`: every name resolves with the remembered directories as without them, after any
  archive.
- `IsImage`: at every entry, the tree is the layers laid over each other as the image format defines it.
- `Owned`: a package that some pack brought in is on some record, through failed checks,
  kept packages, handovers, crashes and your own installs (exceptions, by name in `unrecorded`: an add that
  stopped before its record, a retried one, and a record whose write failed, section 6).
- `YoursKept`: no pack command, in any number of sessions, takes out a package you asked for, unless it depends
  on one of that pack's.
- `NeedsKept`: a remove takes out nothing another recorded pack uses, but what depends on what it takes out, or is
  held as a mere dependency.
- `AddedPassed`: a pack reads as added only when its check passed, also after its record
  was rewritten for a handover (exception, by name in `cut`: a record one of whose writes was cut or failed).
- `Verified`: only the build whose checksum was announced to *this* command takes the binary's place.
- `Forward`: no channel but stable replaces the binary by one that is not newer, in the order that
  update.go:299-301 gives, of which `versionCmp` is the code.
- `GuestMatches`: an update that gets to its end leaves the distro with the helper of the binary
  that is then installed, unless the hand-over or the copy failed.
- `TreeIsVersion`: every file of the edition is as the version on record has it, or as the delta has it that
  the next update begins with; what was only a warning is left out.
- `UpToDate`: once nothing fails, repeating the update ends with the newest build and the latest edition.
- `RoundTrip`: a closed backup, restored, reads as the distro did when it began, file by file, through hard links and
  chains of links, but for what changed meanwhile and what is read through an entry that failed (`bad`).
- `Portable`: it holds no `.l2s` file and no host path, and a hard link follows its file.
- `RestoreEnds`: restoring again gets there, whatever the earlier tries left.
- `KeepsOriginal`: the distro's own bwrap is in its place or beside it, wherever a start was killed.
- `SoundIsLocal`: sound that was reported as set up stays limited to this phone, whatever other starts do.
- `WaitsOut`: a start goes to apt-get only when no other start is there, and not within a day of a failed
  install, however the starts interleave between their question and the lock (exception, by name in `ahead`: those past
  the question by then).
- `Reachable`: a live desktop is the one on record, so that desktop stop can end it.
- `OwnServer`: a desktop that ended leaves no server that it started, also when two starts overlapped, unless a
  SIGTERM came while it started one (`left`).
- `StopEnds`: a stop that found a session brings that desktop to its end, unless something is killed.
- `SetUp`: who logs in exists, has a password and the session script; no half-made user, whatever was killed; the first
  boot is over only when there is one (exceptions, by name: a home that could not be filled, a user's file that could not be written).
- `SudoIsUsers`: sudo's user is the one that logs in, and nobody where sudo does not work, unless a write of either failed.
- `Stoppable`: the lock of the display names the Xvnc that runs, unless that one outlived its SIGTERM (`survivors`).
- `InStep`, `RunsTheList`: the event loop's steps are a list of steps, however its messages come; "ok" without a SIGTERM
  means that all of them are done.
- `CtrlCLeaves`, `Ends`: Ctrl-C leaves, whatever the step does; and when the steps end, so does the command.

Each property of a passing run is paired in `PROJECT.json` with a mutant, a plausible bug in one
definition under which it fails: `haveRootfs` that forgets a stage, `O_TRUNC` left out,
a link entry that does not forget the directory it replaces, versions compared by number only, a state
file that is trusted while its proot is gone, an install of sound that is due because it once was. The mutated operators stand before the operators they
replace.

### Bounds

- `Install`: two desktops, one of which the edition has and one it has not, and one
  edition: the smallest instance where a second desktop, a prebuilt desktop, an edition
  over the free distro and the reverse all happen. No bound on the number of commands
  or crashes: the state space is finite as it is. A second edition would only repeat
  the free/edition pair.
- `Packs`: two packs with a shared package, one own package each, one of them optional and dependent on the other
  pack's (`Depends`), so that a remove of one pack takes out a package of the other;
  commands for one pack, for both, and for one pack named twice. Two packs suffice for every
  handover there is between a giver and an heir; chains of handovers through more packs are
  repetitions of it over time, which the run does have. The two-session run has one package that both packs share.
- `Download`: an image of two chunks and one of three, replaced back and forth without
  limit, so that a leftover can be shorter than, as long as and longer than the served
  file, and a cut can come before, inside and at the end. Two attempts have a first, a
  resumed and a last one; more only repeat the middle.
- `Extract`: two directories with a file each, a link by its path from the root and one relative
  to where it is, which may lead in circles; `MaxEntries` = 6 entries over three layers: enough to make a directory, remember it,
  replace it by a link under another name, and write through it. `MaxHops` = 3 links in one name, for
  the code's 40: one more than a path through both links needs.
- `Update`: a release and two of its pre-releases, the older of which has the higher number; three versions
  of an edition, with a file that comes and goes; a chain of two deltas and a short cut listed after it. `MaxChain`
  = 2 is the length of that chain, so the short cut is not needed and not shadowed. Commands, kills, and
  changes of mind of the servers are not bounded.
- `Backup`: two names that may be one file, or a link to the other, and a `.l2s` file that the walk meets first; two contents,
  two phones. Any number of backups, edits and restores. A chain of links has three links in `End`, for the code's 16,
  and the distro makes none longer than two (`Made`); with three names TLC has the chain through a `.l2s` file, and the proof those of
  ordinary links alone.
- `Start`: two starts, each again and again, each with one apt-get adrift at most. `Guest`: two setups, two names, two
  vncserver-starts around a stop, with and without sudo.
- `Desktop`: two desktops, a stop that may be repeated, a server of the user's. Each desktop runs once, so
  that its session and its server go by its name. One SIGTERM in the steps, and the user's server comes up while no
  command is at work (`UserWaits`); the proofs have it at any time.
- `Steps`: four steps: a first, a middle, a next to last and a last one.

The runs `Extract` and `Desktop` let the system stop (all entries done; every command over), so their
`.cfg`s do not check deadlock where TLC would report that. In all others there is always a next command.

### Fairness

- `InstallRetry`: weak fairness of `Progress` (the program takes its next step, and
  the user runs the command again, as every error message says) and of
  `CalmDown` (Termux is not killed for ever, and the user makes room on the disk). No fairness on the environment otherwise.
- `Download`: weak fairness of `Run` only, and `Recovers` says *if* it is calm: nothing
  makes the network calm.
- `Update`, `Backup`: weak fairness of the command's own steps and, in `Update`, of running it again.
  `UpToDate` and `RestoreEnds` speak of the time after `Settle`, which nothing forces.
- `Desktop`: weak fairness of what a command does by itself: the wait that ends with its session, the
  steps of stop, signals and their time-outs. Not of any step of the user or the phone, and not of a
  session's end: that `SIGKILL` ends it is `KillSession`.
- `Steps`: weak fairness per goroutine of its start, and of the loop's taking of `doneMsg` and `quitMsg`. Not of a
  step's end: `Ends` has that as its hypothesis, and `CtrlCLeaves` holds without it.
- No other run assumes fairness.


## 4. What is proved

TLAPS proves these for every value of the constants: any desktops and editions, any packs,
packages and sessions, any images, sizes and number of attempts, any paths, links and layers, any files,
phones and contents of a backup, any number of steps, starts, desktops and setups, any builds, files and deltas.
That is every safety property and every action property of the passing runs.

- **Install**: `TypeCorrect`, `DoneFinished`, `SessionsMatch`, `FilesKept`, `LabelsStay`,
  `OldLaunchersKept`, that is every property of the run `install`. The invariant `IInv` adds
  to the type what the code relies on silently, per program counter: a stage past
  "extracted" means a whole configured rootfs (`StageIsTrue`); haveRootfs, read before
  the steps, is still right when a step uses it (`HaveIsFresh`); a desktop that
  came with its image is complete (`ImageComplete`); what the earlier steps of this command have
  written (`StepsDone`); and that a finished install stays one, but for what a refresh could not write (`DoneStays`).
  `DoneIsFinished` is not inductive without them: it says nothing of a folder whose install is
  still running, or was stopped at STAGE=desktop. They are stated for `~torn`, because a
  delete that was cut short breaks them (section 6).
- **Packs**: `TypeCorrect`, and `YoursStay`: for any number of sessions and any dependencies, `YoursKept`. Its
  invariant says that no record and no command under way names a package of yours among
  those a pack brought in: whatever installs a package, or asks for one by name, while some record or command claims it leaves it the pack's.
  For one session (`OneSession`), also `PackagesOwned` (`Owned`),
  `AddedHavePassed` (`AddedPassed`) and `NeedsStay` (`NeedsKept`). Their invariant `RecordsInv` says that what a command
  has read of the records is still what they say when it writes, although you install and remove meanwhile and writes fail: which
  packages are on whose account, which packages a remove may take out, which heir each of them went
  to, and whether that heir's CHECKED line is to be put back. With a second session none
  of that is so, and `NeedsKept` is violated (section 5); the hypothesis is the code's own assumption that nobody else
  writes the records.
- **Download**: `TypeCorrect`, `ImageUnpacked` (`UnpacksImage`) and `ProgressKept`
  (`KeepsProgress`). `IInv` has the hash compared with the file (`SumIsTrue`), and, while the
  file is unmixed, that the `.part` is a beginning of the served image (`Beginning`), that the
  attempt continues exactly where it ends (`Continues`: the offset asked for is the
  length, `O_APPEND` and 206 go together) and that what leaves the attempts has full length
  (`Complete`).
- **Extract**: `CacheIsSafe` (`CacheSafe`) and `UnpackedIsImage` (`IsImage`), after any number of entries
  of any kind, in any order and under any names. The invariant has three parts beside the types. `Remembered`: no path that is remembered
  is a link now. With it the links a name is followed through are the same with the memory and without, and two walks
  through the same links are one walk, whatever it computes; so the proof needs no induction over
  names. Keeping it is the point of the code: an entry that makes a link, or that deletes, has to forget the
  path and what lies under it. `Ordered`: while nothing odd came, `written` is what the layer lists, and a directory is listed before
  what is in it; so what an entry replaces or hides is of the layers below, and nothing that this layer
  put there. And `IsImage` itself.
- **Backup**: `BackupTypes` (`TypeOK`), `BackupPortable` (`Portable`) and `BackupRoundTrip` (`RoundTrip`). The
  archive is written while the distro runs, and read back an entry at a time. `IInv` says of the first that its names
  are those the walk has passed, once each (`Names1`), and that each entry, unless the file
  was touched meanwhile, holds what the distro read when the backup began (`Archived`), hard links by way of the
  entry that has their file (`Grouped`); of the second, that every entry extracted so far is in its place, unless it
  failed (`Placed`), so that nothing that comes later undoes it. `Old` says of an older installer's archive that it mirrors a distro's
  files as they were where they were made (`Mirrors`), so that its chains, restored link by link, read as they did. `DataFiles` has link2symlink's hidden files be files and not links,
  so that what a hard link leads to is data.
- **Update**: `TypeCorrect`, `GuestCopied`, `EditionWhole`, `BuildVerified`, `NeverBack`: every
  safety property of the run. `IInv` says, per stage, what may be in `self.new`, and that past
  `Verify` it is what was announced and newer; that the delta begun is the one the manifest lists first
  for the version on record, also in a manifest that has grown since (deltas are added at its end); and that
  the files not yet unpacked, `proc.todo`, are those that may still differ.
- **Start**: `FailureIsWaitedOut` (`WaitsOut`), `SoundStaysLocal`, `OriginalKept`. `IInv` relates what each start read (a
  bwrap that was the distro's own, a list of modules, that an install is due) to what is there when it acts on it, other
  starts having acted in between: `LockInv`, `WaitInv`, `SoundInv`, `BwrapInv`.
- **Desktop**: `SessionReachable`, `ServerGoes`. `IInv` says who may name whom: a state file names a run past its
  record; a server that came up and has not died is in the pids that its run will collect, or its run is over.
- **Guest**: `LoginIsWhole`, `SudoFollows`, `LockNamesServer`. `IInv` says what a setup at each of its
  stages has made of its user, which of its writes failed, and that a user once made is never unmade.
- **Steps**: `StepsInStep`, and `ImplementsStepList`: the detailed specification implements the abstract one, the
  event loop's messages mapped to nothing but the beginning and the end of steps and an answer, a SIGTERM's nil to
  leaving. Each
  step of `Steps` is shown to be a step of `StepList` or a stutter, from the same invariant.

All of them also prove their types. The assumptions are the named ASSUMEs of the
modules: "none" is not a desktop or a pack, an edition's desktop is one the distro offers, what a
pack's tokens come out as is a set of packages, directory order has a last element, an image is at least
one chunk, at least one attempt, at least one step, actors of different kinds are different. For `Extract`: with a path
its directories are paths too, no path has a ".." in it (a link's text may), and directories, links and the files of each
layer are different things. For `Backup`: the walk meets each file once. TLC evaluates
them in every run.

Only model-checked:

- `Converges`, `Recovers`, `UpToDate`, `RestoreEnds`, `StopEnds`, `CtrlCLeaves`, `Ends`: liveness under
  fairness is outside the prover.
- What a recursive function computes for every input: that `Walk` ends for every name, that it gives the path the
  file system would. That is induction over data, outside the prover too. The proofs use only that its result depends on nothing but the
  links and the name; an entry whose name leads elsewhere than it says is `odd`.


## 5. Finding

- `packs_two`, `NeedsKept`: docs/packs.md:62 has remove spare what another added pack needs; a remove
  misses the record that an add in another session writes meanwhile (pack.go:455-485), and takes
  the package out.


## 6. Known exceptions

Where the code does less than one would expect of it, met while modelling. Where a history variable is named in brackets,
the model takes the step and the properties leave out what it touches, by that name, and hold everywhere else. Items without one
either break no property, or are not modelled, which is then said.

Install:

- A delete that is cut short, or stops with an error, can leave install.conf with STAGE=done beside half a
  rootfs: `Installed` (common.go:105), "a finished install", holds of it (`torn`). A restore that stops
  part way leaves the same, until it is repeated.
- PREBUILT=yes does not say which desktop was prebuilt: an install of a second desktop that stopped part
  way is taken for a prebuilt one on resume (install.go:720-737), though 435-437 says it mustn't be.
- An install that was not finished may be resumed under another edition's name, which relabels the image
  that is there (install.go:308); the check at 180 looks at finished installs only.
- An install resumed after its download leaves the image in the cache until `clean` (install.go:612), though
  CHANGELOG.md:28 says a finished install deletes it.
- A remove that is killed between the folder and the launchers leaves a launcher; the next remove goes
  another way (manage.go:60-74). Two installs of one distro at once are not kept apart, and not modelled.
- A refresh of a finished install removes the launcher before it writes it, truncates the session script, and looks at no
  error (install.go:191-195, common.go:245-246): killed there, or on a full disk, it leaves STAGE=done without a launcher or with an
  empty one, or an empty `xstartup`, and in the latter case it also reports success (`unwritten`). The next refresh that succeeds
  mends both. An install's own `in.Set("DE", ...)` (592, 598) is not looked at either; repeating the command mends that too, unless
  the rootfs is an edition's and the command refuses (180; see `Converges`).
- A launcher that was cut has no mark, so it is taken for an older installer's: WriteLaunchers renames it to `-old.sh`, and
  RemoveLaunchers leaves it (common.go:224-231, 257).

Download: the distro's own tarball, and a Modded image, go unchecked when no checksum is served
(install.go:905, 803), though CHANGELOG.md:58 and DESIGN.md:81 say that every download is checked.
Two commands may write one `.part`.

Packs: an add that is retried after a failed check, or a pack named twice, drops what the first try
installed from the record (pack.go:384; `unrecorded`). A package run that fails part way, and an add that is killed before its
record, leave packages on no record (`unrecorded`); killed inside the record's two writes, a pack reads as
added unchecked (`cut`). A record is written in place and the errors of `inherit` and `setChecked` are ignored (141, 516): a write
that fails loses the heir's packages, or leaves an empty record that reads as added, and the remove goes on (`unrecorded`, `cut`).
What depends on a removed package goes with it on apt and dnf (485; pkgmgr.go:113-115, 146), also when it is yours or another added pack
needs it, though docs/packs.md:62 says otherwise; so may what that pack found installed as a dependency (apt's `--autoremove`, `-Rns`, `-R`).
A package that you ask for by name while a pack's add is between its list and its package run, or when a record has it already, is the
pack's and goes with it (`Claimed`). apk keeps a removed package that something needs, and then nothing records it.
`inherit` may bring back the record of a pack that another session has just removed.

Extract: an entry that fails is only a warning (extract.go:138), so an unpack on a full disk ends as a success.
`written` is keyed by the entry's name, not by the path it leads to; an opaque whiteout after the layer's own
subdirectories removes what they hold. `Finish` (317-327) sets permissions by the path a directory had.

Update: one update at a time is modelled; two share `self.new`. The comment at update.go:184-185, and
DESIGN.md section 10, have the self-update refresh the copies inside the distros; a later step does, and with
`--self` nothing does. The write of the new version (update.go:566) is not looked at: on a full disk the file is cut and the command
goes on to the next delta; `CutVersion` is the same with a kill, after which there is no version (`ver` = 0) and
updates skip the edition. A delta that is listed without a checksum is not verified (528).

Backup: what changes while the backup runs is `touched`. The error of deleting the old folder is not looked at
(manage.go:357). An ordinary symlink to a symlink to a file is taken for a faked hard link (l2s.go:57-63 asks only at the first
link), so it is restored as a copy of the file, or a hard link to it: it reads as before, and is no link any more, though
the comment at 57-58 means to leave ordinary links alone. An entry that cannot be restored is a warning, and a link that
`RepairHostLinks` cannot make anew is gone; the restore reports success (`bad`).

Desktop: two desktops whose starts overlap, or a start that a stop overlaps, may leave a session that no file names
(`raced`); so does a kill next to the record or a full disk (`lost`). Ctrl-C while the server starts leaves
that server running. `StopX11` ends every termux-x11 there is, also the user's own, though
x11.go:271-272 says that it is left alone; a run that *found* a server does leave it. After a SIGTERM in the steps the desktop goes on
to its session, and may not know that it started a server (x11.go:192; `left`). A pid that is used again is not modelled.

Start: two starts at one bwrap move the stand-in over the original (`crossed`), though DESIGN.md:227 says the
original is kept. Killed between the rename and the link, there is no `/usr/bin/bwrap` until a start finds
none (manage.go:43 calls it self-healing; the original is kept beside). A refused lock counts as a failed
install and backs off for a day (audio.go:84-89), unless there is no room for that file. The apt-get of a start that was killed,
or left by Ctrl-C, may go on without the lock, which the next start then takes (termux.go:118; `adrift`). Ctrl-C, or SIGTERM, in the sound step
does not end the start: the error of RunSteps is ignored, and it goes on to the login (sound.go:27-35).

Guest: two setups at once, or a second setup that stops between sudoers and user, leave sudo for one name and
the login for another (`mixed`). A setup that failed after `useradd` cannot be repeated with the same
name. Two VNC commands that overlap on one display lose the lock (`crossed`). Write errors of
`/etc/sudoers.d/andronix` and `/etc/andronix/user` are not looked at (guest.go:491, 494, 511): on a full disk the first
boot ends with no user (`unwritten`); nor are those of the skeleton (573-576): a user may have no session script (`bare`). Where
DISTRO_SUDO is none (distros/manjaro.conf:39) sudo lets in nobody. An Xvnc that takes more than a second after SIGTERM outlives vncserver-stop,
which removes its lock (`survivors`).

Steps: after Ctrl-C, a done or an error of the step under way that the loop takes first decides what the command returns, so it need not be
"cancelled". After a SIGTERM RunSteps answers nil although steps are left (steps.go:354-358; `termed`), and its callers go on.


## 7. Not modelled, and the plan

Left out for good: screen layout, forms, text, telemetry and reports, probes of the kernel and the
rules over them, proot's argument list and its temporary directories, the parser of the configuration files,
tuning and storage, `Finish`, system calls, the shell scripts: they have no state that two steps of
the program share, or are written once. Left out of the present models: the browser, the token
check of a Modded image, PACK_FILES and PACK_POST of packs, alternative URLs, back-off times, the locale and
the VNC password of a setup, the Linux build that an update fetches.

Next, in this order:

1. Two installs of one distro at once, and two downloads of one `.part`, as a second process in `Install` and
   `Download`, stated as what a lock would have to give.
2. Refinements: an abstract `DistroLife` (absent, partial, finished; only remove goes back) that `Install`
   implements outside torn deletes; a reference-counted package store that one session of `Packs` implements;
   `Download` as the refinement of the step `Install!Download`.
3. `proot`'s temporary directories (proot.go:396-420), which starts of several sessions share.
