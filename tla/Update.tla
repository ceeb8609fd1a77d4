------------------------------ MODULE Update ------------------------------
(***************************************************************************)
(* andronix update (internal/app/update.go): the binary replaces itself,   *)
(* hands over to the new one, which refreshes its copy inside the distro   *)
(* and, on a Modded edition, follows the chain of deltas to the latest.    *)
(* One update at a time; it fails or is killed between any two steps.      *)
(*                                                                         *)
(* A build also stands for its checksum.  What the servers answer is       *)
(* chosen anew at each request: a release may be taken back, and a         *)
(* mirror's file and its SHA256SUMS come apart.                            *)
(***************************************************************************)
EXTENDS Integers, Sequences

CONSTANTS
    Builds,    \* the builds there are
    Version,   \* each build's version, parsed
    Newest,    \* the build served once the servers are steady
    Files,     \* the files of the Modded edition
    Tree,      \* the edition's content per version: 0 is no such file
    Deltas,    \* the deltas, in the order they are added to the manifest
    MaxChain   \* the longest chain that is followed (update.go:490)

Versions == 1 .. Len(Tree)

Delta == [from : Versions, to : Versions]

\* A parsed version (parsedVersion): kind 0 a pre-release with its name and
\* number, 1 a release, 2 a build after a release with its commit count.
Parsed == [num : Nat, kind : 0 .. 2, pre : Nat, n : Nat]

NoBuild == "none"

ASSUME BuildsAssumption ==
    /\ Version \in [Builds -> Parsed] /\ Newest \in Builds
    /\ NoBuild \notin Builds /\ "part" \notin Builds
ASSUME TreeAssumption == Tree \in Seq([Files -> Nat]) /\ Tree # <<>>
ASSUME DeltasAssumption == Deltas \in Seq(Delta) /\ Deltas # <<>>
ASSUME MaxChainAssumption == MaxChain \in Nat

VARIABLES
    self,      \* the binary that is installed
    tmp,       \* self.new: "none", "part" (unfinished), or a whole build
    guest,     \* the copy inside the distro
    ver,       \* EDITION_VERSION; 0: the file was cut, there is none
    tree,      \* the edition's files as they are
    published, \* how many of the deltas the manifest lists
    proc,      \* the command under way
    steady,    \* from here on nothing fails and nothing is published
    begun,     \* history: the version whose delta was begun and not recorded, or 0
    warned,    \* history: files that an unpack could not write, only warned of
    stale      \* history: this command could not hand over, or not copy itself

vars == <<self, tmp, guest, ver, tree, published, proc, steady, begun, warned, stale>>

Stages == {"idle", "resolve", "fetch", "download", "verify", "rename", "exec", "distro",
           "packages", "modded", "delta", "unpack", "tidy"}

Channels == {"default", "stable", "beta"}

Proc == [at : Stages, running : Builds, channel : Channels, only : BOOLEAN,
         want : Builds \cup {NoBuild}, claim : Builds \cup {NoBuild},
         list : 0 .. Len(Deltas), todo : SUBSET Files]

TypeOK ==
    /\ self \in Builds /\ guest \in Builds
    /\ tmp \in Builds \cup {"none", "part"}
    /\ ver \in Versions \cup {0} /\ begun \in Versions \cup {0}
    /\ tree \in [Files -> Nat] /\ warned \subseteq Files
    /\ published \in 1 .. Len(Deltas)
    /\ steady \in BOOLEAN /\ stale \in BOOLEAN
    /\ proc \in Proc

-----------------------------------------------------------------------------
(* Versions.                                                               *)

cmpInt(a, b) == IF a < b THEN -1 ELSE IF a > b THEN 1 ELSE 0

\* Mutant: two pre-releases are told apart by their number alone.
versionCmpNumber(a, b) ==
    IF a.num # b.num THEN cmpInt(a.num, b.num)
    ELSE IF a.kind # b.kind THEN cmpInt(a.kind, b.kind)
    ELSE cmpInt(a.n, b.n)

\* The order of two versions: pre-release, release, builds after it.
versionCmp(a, b) ==
    IF a.num # b.num THEN cmpInt(a.num, b.num)
    ELSE IF a.kind # b.kind THEN cmpInt(a.kind, b.kind)
    ELSE IF a.kind = 0 /\ a.pre # b.pre THEN cmpInt(a.pre, b.pre)
    ELSE IF a.kind # 1 THEN cmpInt(a.n, b.n)
    ELSE 0

-----------------------------------------------------------------------------
(* The chain of deltas.                                                    *)

Listed(n, v) == {i \in 1 .. n : Deltas[i].from = v}

\* Mutant: the last of the deltas from v is taken.
NextDeltaIsLast(i, n, v) == i \in Listed(n, v) /\ \A j \in Listed(n, v) : i >= j

\* The delta the loop finds for version v: the first one listed.
NextDeltaIs(i, n, v) == i \in Listed(n, v) /\ \A j \in Listed(n, v) : i <= j

nextDelta(n, v) == CHOOSE i \in Listed(n, v) : NextDeltaIs(i, n, v)

Latest(n) == Deltas[n].to

\* The chain from version v leads to the latest one, within MaxChain deltas.
hasPath(n, v) ==
    LET at[k \in 0 .. MaxChain] ==
            IF k = 0 THEN v
            ELSE IF Listed(n, at[k - 1]) = {} THEN 0
            ELSE Deltas[nextDelta(n, at[k - 1])].to
    IN  \E k \in 0 .. MaxChain : at[k] = Latest(n)

\* The files a delta adds, changes or removes.
Changed(d) == {f \in Files : Tree[d.from][f] # Tree[d.to][f]}

-----------------------------------------------------------------------------
Idle(b) == [at |-> "idle", running |-> b, channel |-> "default", only |-> FALSE,
            want |-> NoBuild, claim |-> NoBuild, list |-> 0, todo |-> {}]

Init ==
    /\ self \in Builds /\ guest = self
    /\ tmp = "none" /\ steady = FALSE
    /\ ver = Deltas[1].from /\ tree = Tree[ver]
    /\ published = 1 /\ proc = Idle(self)
    /\ begun = 0 /\ warned = {} /\ stale = FALSE

edition == <<ver, tree, begun, warned>>
binary == <<self, tmp>>

\* What happens outside: the next delta is listed; the trouble ends.
Publish ==
    /\ ~steady /\ published < Len(Deltas)
    /\ published' = published + 1
    /\ UNCHANGED <<binary, guest, edition, proc, steady, stale>>

Settle ==
    /\ ~steady /\ steady' = TRUE
    /\ UNCHANGED <<binary, guest, edition, published, proc, stale>>

\* Update: the command line says which channel, and which half of the work.
Start(c, only, noSelf) ==
    /\ proc.at = "idle"
    /\ steady => c = "default" /\ ~only /\ ~noSelf
    /\ proc' = [Idle(self) EXCEPT !.at = IF noSelf THEN "distro" ELSE "resolve",
                                  !.channel = c, !.only = only]
    /\ stale' = FALSE
    /\ UNCHANGED <<binary, guest, edition, published, steady>>

\* A step returns an error, or the command is killed.  The file it was
\* writing is left as it is.
Stop ==
    /\ proc.at # "idle" /\ ~steady
    /\ proc' = Idle(self)
    /\ UNCHANGED <<binary, guest, edition, published, steady, stale>>

-----------------------------------------------------------------------------
(* selfUpdate.                                                             *)

\* Mutant: nothing newer ends the command.
AfterSelfEnds == Idle(self)

\* Past the self-update: the distros, in this process.
AfterSelf == IF proc.only THEN Idle(self) ELSE [proc EXCEPT !.at = "distro"]

\* The beta or the release the resolver names, with its version, or the
\* checksum the mirror lists, with none.  A build that is installed already, or
\* is not newer than this one (unless the channel is stable), is skipped.
Resolve ==
    /\ proc.at = "resolve"
    /\ \E b \in IF steady THEN {Newest} ELSE Builds, named \in BOOLEAN :
          /\ proc.channel = "beta" => named
          /\ proc' = IF \/ b = self
                        \/ named /\ proc.channel # "stable"
                                 /\ versionCmp(Version[b], Version[proc.running]) <= 0
                     THEN AfterSelf
                     ELSE [proc EXCEPT !.at = "fetch", !.want = b,
                                       !.claim = IF named THEN b ELSE NoBuild]
    /\ UNCHANGED <<binary, guest, edition, published, steady, stale>>

\* The loop over the urls: what an earlier update left is removed, and the
\* download begins.
BeginFetch ==
    /\ proc.at = "fetch"
    /\ tmp' = "part" /\ proc' = [proc EXCEPT !.at = "download"]
    /\ UNCHANGED <<self, guest, edition, published, steady, stale>>

\* The first url that answers is the download, whatever it served; the last
\* one that fails ends the step, and nothing is left.
Fetched ==
    /\ proc.at = "download"
    /\ \/ \E b \in IF steady THEN {proc.want} ELSE Builds :
             tmp' = b /\ proc' = [proc EXCEPT !.at = "verify"]
       \/ ~steady /\ tmp' = "none" /\ proc' = Idle(self)
    /\ UNCHANGED <<self, guest, edition, published, steady, stale>>

\* Mutant: the checksum is compared only when the resolver named a version.
VerifyNamed ==
    /\ proc.at = "verify"
    /\ \/ proc.claim # NoBuild /\ tmp # proc.want /\ tmp' = "none" /\ proc' = Idle(self)
       \/ /\ proc.claim = NoBuild \/ tmp = proc.want
          /\ proc' = [proc EXCEPT !.at = "rename"] /\ UNCHANGED tmp
    /\ UNCHANGED <<self, guest, edition, published, steady, stale>>

\* A download that is not the build announced is removed.  Where no
\* version was named, the build is asked for its own; it may not answer.
Verify ==
    /\ proc.at = "verify"
    /\ \/ tmp # proc.want /\ tmp' = "none" /\ proc' = Idle(self)
       \/ /\ tmp = proc.want /\ proc.claim = NoBuild /\ proc.channel # "stable"
          /\ ~steady \/ versionCmp(Version[tmp], Version[proc.running]) <= 0
          /\ tmp' = "none" /\ proc' = AfterSelf
       \/ /\ tmp = proc.want
          /\ \/ proc.claim # NoBuild \/ proc.channel = "stable"
             \/ versionCmp(Version[tmp], Version[proc.running]) > 0
          /\ proc' = [proc EXCEPT !.at = "rename"] /\ UNCHANGED tmp
    /\ UNCHANGED <<self, guest, edition, published, steady, stale>>

\* The new build takes the place of the old one, in one step, or cannot.
Rename ==
    /\ proc.at = "rename"
    /\ tmp' = "none"
    /\ \/ /\ self' = tmp
          /\ proc' = IF proc.only THEN Idle(self') ELSE [proc EXCEPT !.at = "exec"]
       \/ ~steady /\ UNCHANGED self /\ proc' = Idle(self)
    /\ UNCHANGED <<guest, edition, published, steady, stale>>

\* Mutant: the old process goes on with the distros itself.
ExecNot ==
    /\ proc.at = "exec"
    /\ proc' = [proc EXCEPT !.at = "distro"]
    /\ UNCHANGED <<binary, guest, edition, published, steady, stale>>

\* The new binary does the rest (--no-self), or this one when it cannot start.
Exec ==
    /\ proc.at = "exec"
    /\ \/ proc' = [proc EXCEPT !.at = "distro", !.running = self] /\ UNCHANGED stale
       \/ ~steady /\ proc' = [proc EXCEPT !.at = "distro"] /\ stale' = TRUE
    /\ UNCHANGED <<binary, guest, edition, published, steady>>

-----------------------------------------------------------------------------
(* The distro.                                                             *)

\* The copy of this process's build goes into the distro; an error is not
\* looked at.
InstallSelf ==
    /\ proc.at = "distro"
    /\ proc' = [proc EXCEPT !.at = "packages"]
    /\ \/ guest' = proc.running /\ UNCHANGED stale
       \/ ~steady /\ stale' = TRUE /\ UNCHANGED guest
    /\ UNCHANGED <<binary, edition, published, steady>>

\* The distro's packages and browser: the package manager's work.  The Modded
\* step is there only when the edition has a version.
Packages ==
    /\ proc.at = "packages"
    /\ proc' = [proc EXCEPT !.at = IF ver = 0 THEN "tidy" ELSE "modded"]
    /\ UNCHANGED <<binary, guest, edition, published, steady, stale>>

\* moddedUpdate reads the manifest: nothing to do, no way there, or the chain.
ReadManifest ==
    /\ proc.at = "modded"
    /\ proc' = IF ver = Latest(published) THEN [proc EXCEPT !.at = "tidy"]
               ELSE IF hasPath(published, ver)
                    THEN [proc EXCEPT !.at = "delta", !.list = published]
               ELSE Idle(self)
    /\ UNCHANGED <<binary, guest, edition, published, steady, stale>>

\* Without a manifest the step is skipped.
NoManifest ==
    /\ proc.at = "modded" /\ ~steady
    /\ proc' = [proc EXCEPT !.at = "tidy"]
    /\ UNCHANGED <<binary, guest, edition, published, steady, stale>>

\* The next delta of the chain is downloaded, matches its checksum and is
\* opened (if not, that is Stop); or there is none left.  The manifest gives a
\* checksum for every delta: one that has none is unpacked as it came, and
\* the extractor is all that looks at it.
NextDelta ==
    /\ proc.at = "delta"
    /\ IF ver = Latest(proc.list)
       THEN proc' = [proc EXCEPT !.at = "tidy"] /\ UNCHANGED begun
       ELSE \E i \in 1 .. proc.list :
                /\ NextDeltaIs(i, proc.list, ver)
                /\ proc' = [proc EXCEPT !.at = "unpack", !.todo = Changed(Deltas[i])]
                /\ begun' = Deltas[i].to
    /\ UNCHANGED <<binary, guest, ver, tree, warned, published, steady, stale>>

\* The extractor writes, or removes, one file; one that it cannot write is
\* a warning in the log.
Unpack(f) ==
    /\ proc.at = "unpack" /\ f \in proc.todo
    /\ proc' = [proc EXCEPT !.todo = @ \ {f}]
    /\ \/ tree' = [tree EXCEPT ![f] = Tree[begun][f]] /\ warned' = warned \ {f}
       \/ ~steady /\ warned' = warned \cup {f} /\ UNCHANGED tree
    /\ UNCHANGED <<binary, guest, ver, begun, published, steady, stale>>

\* setModdedVersion, after the unpack.
setModdedVersion ==
    /\ proc.at = "unpack" /\ proc.todo = {}
    /\ ver' = begun /\ begun' = 0
    /\ proc' = [proc EXCEPT !.at = "delta"]
    /\ UNCHANGED <<binary, guest, tree, warned, published, steady, stale>>

\* It is killed inside its os.WriteFile, which truncates first.
CutVersion ==
    /\ proc.at = "unpack" /\ proc.todo = {} /\ ~steady
    /\ ver' = 0 /\ proc' = Idle(self)
    /\ UNCHANGED <<binary, guest, tree, begun, warned, published, steady, stale>>

\* The last step: "Everything is up to date."
Tidy ==
    /\ proc.at = "tidy"
    /\ proc' = Idle(self)
    /\ UNCHANGED <<binary, guest, edition, published, steady, stale>>

-----------------------------------------------------------------------------
Work ==
    \/ Resolve \/ BeginFetch \/ Fetched \/ Verify \/ Rename \/ Exec
    \/ InstallSelf \/ Packages \/ ReadManifest \/ NextDelta
    \/ \E f \in Files : Unpack(f)
    \/ setModdedVersion \/ Tidy

Begin == \E c \in Channels, only \in BOOLEAN, noSelf \in BOOLEAN : Start(c, only, noSelf)

Next == Begin \/ Work \/ NoManifest \/ CutVersion \/ Stop \/ Publish \/ Settle

\* The program goes on, and the user repeats the command, which is what its
\* errors say; nothing makes the servers or the phone behave.
Spec == Init /\ [][Next]_vars /\ WF_vars(Begin \/ Work)

-----------------------------------------------------------------------------
(* Properties.                                                             *)

\* The order of versions as update.go:299-301 gives it, written out.
Older(a, b) ==
    \/ a.num < b.num
    \/ a.num = b.num /\ a.kind < b.kind
    \/ /\ a.num = b.num /\ a.kind = 0 /\ b.kind = 0
       /\ a.pre < b.pre \/ (a.pre = b.pre /\ a.n < b.n)
    \/ a.num = b.num /\ a.kind = 2 /\ b.kind = 2 /\ a.n < b.n

\* The binary is only ever replaced by the build whose checksum was announced,
\* whatever the mirrors served and whatever an earlier update left behind.
Verified == [][self' # self => self' = proc.want]_vars

\* An update never goes back, unless the stable channel is asked for
\* (update.go:250-252), whether the server named a version or the build did.
Forward == [][self' # self /\ proc.channel # "stable" => Older(Version[self], Version[self'])]_vars

\* A full update that gets to its end leaves the distro with the helper of the
\* binary that is installed, unless the hand-over or the copy failed.
GuestMatches == proc.at = "tidy" /\ ~stale => guest = self

\* The edition's files are those of the version on record, except where the
\* delta from that version, which the next update applies again, was begun;
\* and except for what the log warns of.  Crashes, retries and new deltas in the
\* manifest do not change this.
TreeIsVersion ==
    ver # 0 => \A f \in Files \ warned :
        \/ tree[f] = Tree[ver][f]
        \/ /\ begun # 0 /\ tree[f] = Tree[begun][f]
           /\ \E i \in Listed(published, ver) :
                 Deltas[i].to = begun /\ \A j \in Listed(published, ver) : i <= j

\* Once the servers are steady and nothing fails, repeating the update ends
\* with a build that is not older than theirs and the latest edition, if the
\* edition still has its version and a chain leads there.
UpToDate ==
    [](steady => <>(/\ ~Older(Version[self], Version[Newest])
                    /\ (ver # 0 /\ hasPath(published, ver)) => ver = Latest(published)))
=============================================================================
