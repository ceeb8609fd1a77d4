------------------------------- MODULE Packs -------------------------------
(***************************************************************************)
(* Dev packs: `andronix pack add` and `andronix pack remove` inside one    *)
(* distro.  A pack is a list of the distro's packages; the file            *)
(* /etc/andronix/packs/<id> records which of them the pack brought in, so  *)
(* that remove takes out those and no other.  Two sessions may run pack    *)
(* commands at once (Termux and a shell inside the distro): the package    *)
(* manager locks its own database, nothing locks the records.              *)
(***************************************************************************)
EXTENDS Naturals, Sequences

CONSTANTS
    Packs,        \* the packs' ids
    Packages,     \* the distro's packages
    Depends,      \* what a package depends on, through others too
    Resolutions,  \* the package lists a pack's tokens can come out as
    Rank,         \* a pack's place in directory order
    Commands,     \* the lists of packs a command can be left with to do
    Sessions      \* the shells pack commands run in

ASSUME DependsAssumption == Depends \in [Packages -> SUBSET Packages]
ASSUME ResolutionsAssumption == Resolutions \in [Packs -> SUBSET SUBSET Packages]
ASSUME CommandsAssumption == Commands \subseteq Seq(Packs)
ASSUME RankAssumption ==
    /\ Rank \in [Packs -> Nat]
    /\ \A S \in SUBSET Packs :
          S # {} => \E last \in S : \A p \in S : Rank[p] <= Rank[last]
ASSUME NoPackAssumption == "none" \notin Packs

VARIABLES
    installed,   \* the packages that are installed
    auto,        \* those the package manager holds as dependencies only
    record,      \* the state file of each pack
    proc,        \* the command of each session
    yours,       \* history: you, or the image, asked for them by name, and no
                 \* record or running command had them as a pack's
    brought,     \* history: installed by name by a pack command
    unrecorded,  \* history: brought in by an add that stopped before its record
                 \* or had found them there; dropped from a record by a later
                 \* add; or on a record, or meant for one, whose write failed
    passed,      \* history: the packs whose check passed since their record
    cut          \* history: the packs whose record lost its CHECKED line

packages == <<installed, auto>>
history == <<yours, brought, unrecorded, passed, cut>>
vars == <<packages, record, proc, history>>

-----------------------------------------------------------------------------
Record == [there : BOOLEAN, packages : SUBSET Packages, needs : SUBSET Packages,
           checked : {"", "yes", "no"}]

NoRecord == [there |-> FALSE, packages |-> {}, needs |-> {}, checked |-> ""]
EmptyRecord == [NoRecord EXCEPT !.there = TRUE]

\* todo: the packs the command still has to do, the first one under way.
\* pkgs, fresh: what add resolved, and what of it was missing.  For remove,
\* pkgs is the record's PACKAGES, keep[q] the pack that gets q ("none": q
\* goes), pending the ones still to hand over, heir and checked the record
\* being rewritten.
Proc == [pc      : {"idle", "had", "install", "record", "uncheck", "check",
                    "keep", "inherit", "restore", "uninstall", "forget"},
         todo    : Seq(Packs),
         pkgs    : SUBSET Packages,
         fresh   : SUBSET Packages,
         keep    : [Packages -> Packs \cup {"none"}],
         pending : SUBSET Packages,
         heir    : Packs \cup {"none"},
         checked : {"", "yes", "no"}]

NoProc == [pc |-> "idle", todo |-> <<>>, pkgs |-> {}, fresh |-> {},
           keep |-> [q \in Packages |-> "none"], pending |-> {},
           heir |-> "none", checked |-> ""]

TypeOK ==
    /\ installed \subseteq Packages /\ auto \subseteq Packages
    /\ record \in [Packs -> Record]
    /\ proc \in [Sessions -> Proc]
    /\ \A s \in Sessions :
          /\ proc[s].pc # "idle" => proc[s].todo # <<>>
          /\ proc[s].pc = "restore" => proc[s].heir # "none"
          /\ \A q \in proc[s].pending : proc[s].keep[q] # "none"
    /\ yours \subseteq Packages /\ brought \subseteq Packages
    /\ unrecorded \subseteq Packages
    /\ passed \subseteq Packs /\ cut \subseteq Packs

added(p) == record[p].there /\ record[p].checked # "no"

failed(p) == record[p].there /\ record[p].checked = "no"

\* A record without its file reads as empty; setChecked then does nothing.
setChecked(p, value) ==
    record' = [record EXCEPT ![p].checked = IF record[p].there THEN value ELSE @]

Pack(s) == Head(proc[s].todo)

\* Mutant: the end of the list is not seen.
NextPackAlways(s, pc) ==
    proc' = [proc EXCEPT ![s] = [NoProc EXCEPT !.pc = pc, !.todo = Tail(proc[s].todo)]]

\* The next pack of the command, whose first step is pc.
NextPack(s, pc) ==
    proc' = [proc EXCEPT ![s] =
               IF Tail(proc[s].todo) = <<>> THEN NoProc
               ELSE [NoProc EXCEPT !.pc = pc, !.todo = Tail(proc[s].todo)]]

Goto(s, pc) == proc' = [proc EXCEPT ![s].pc = pc]

End(s) == proc' = [proc EXCEPT ![s] = NoProc]

-----------------------------------------------------------------------------
(* The package managers: apt, dnf, pacman, apk and xbps.                   *)

Brings(S) == UNION {Depends[q] : q \in S}

Dependents(S) == {q \in installed \ S : Depends[q] \cap S # {}}

\* Dependencies that nothing asked for by name depends on, once gone is out.
Orphans(gone) == {q \in auto \ gone : q \notin Brings(installed \ (gone \cup auto))}

\* What goes when S is removed: apt and dnf take what depends on it too (pacman
\* and xbps refuse that), apk leaves what something else depends on; with it go
\* some dependencies that nothing needs any more.
Removals(S) ==
    UNION {{gone \cup orphans : orphans \in SUBSET Orphans(gone)} :
             gone \in {S \cup Dependents(S), S \ Brings(installed \ S)}}

\* gone leaves; S is nobody's any more, also what apk still holds of it.
Uninstalled(gone, S) ==
    /\ installed' = installed \ gone
    /\ auto' = (auto \cup (S \cap installed)) \ gone
    /\ yours' = yours \ (gone \cup S) /\ brought' = brought \ (gone \cup S)
    /\ unrecorded' = unrecorded \ (gone \cup S)

-----------------------------------------------------------------------------
Init ==
    /\ installed \in {S \in SUBSET Packages : Brings(S) \subseteq S}
    /\ auto \in SUBSET installed
    /\ record = [p \in Packs |-> NoRecord]
    /\ proc = [s \in Sessions |-> NoProc]
    /\ yours = installed \ auto
    /\ brought = {} /\ unrecorded = {}
    /\ passed = {} /\ cut = {}

-----------------------------------------------------------------------------
(* pack add                                                                *)

\* Packs that are added already are taken off the list first.
StartAdd(s) ==
    /\ proc[s].pc = "idle"
    /\ \E todo \in Commands \ {<<>>} :
          /\ \A i \in DOMAIN todo : ~added(todo[i])
          /\ proc' = [proc EXCEPT ![s] = [NoProc EXCEPT !.pc = "had", !.todo = todo]]
    /\ UNCHANGED <<packages, record, history>>

\* Mutant: everything the pack names is recorded as brought in.
ReadNothing(s) ==
    /\ proc[s].pc = "had"
    /\ \E pkgs \in Resolutions[Pack(s)] :
          proc' = [proc EXCEPT ![s].pc = "install", ![s].pkgs = pkgs, ![s].fresh = pkgs]
    /\ UNCHANGED <<packages, record, history>>

\* fresh is what FilterInstalled didn't list, read before the package run.
ReadHad(s) ==
    /\ proc[s].pc = "had"
    /\ \E pkgs \in Resolutions[Pack(s)] :
          proc' = [proc EXCEPT ![s].pc = "install", ![s].pkgs = pkgs,
                               ![s].fresh = pkgs \ installed]
    /\ UNCHANGED <<packages, record, history>>

\* pacman (--needed) leaves what is there a dependency; the others mark it as
\* asked for by name.
InstallPackages(s) ==
    LET pkgs == proc[s].pkgs IN
    /\ proc[s].pc = "install"
    /\ installed' = installed \cup pkgs \cup Brings(pkgs)
    /\ \E named \in {pkgs, pkgs \ installed} :
          auto' = (auto \cup (Brings(pkgs) \ installed)) \ named
    /\ brought' = brought \cup (pkgs \ installed)
    /\ unrecorded' = unrecorded \cup ((pkgs \ installed) \ proc[s].fresh)
    /\ Goto(s, "record")
    /\ UNCHANGED <<record, yours, passed, cut>>

\* The package run stops part way: add fails, nothing is recorded.
InstallPart(s) ==
    LET pkgs == proc[s].pkgs IN
    /\ proc[s].pc = "install"
    /\ \E part \in SUBSET ((pkgs \cup Brings(pkgs)) \ installed) :
          /\ installed' = installed \cup part
          /\ auto' = auto \cup (part \ pkgs)
          /\ brought' = brought \cup (part \cap pkgs)
          /\ unrecorded' = unrecorded \cup (part \cap pkgs)
    /\ End(s)
    /\ UNCHANGED <<record, yours, passed, cut>>

\* The files and PACK_POST are in: write the record, over an older one.
WriteRecord(s) ==
    LET p == Pack(s)
        dropped == {q \in record[p].packages \ proc[s].fresh :
                    \A o \in Packs \ {p} : q \notin record[o].packages}
    IN  /\ proc[s].pc = "record"
        /\ record' = [record EXCEPT ![p] = [there |-> TRUE, packages |-> proc[s].fresh,
                                            needs |-> proc[s].pkgs, checked |-> ""]]
        /\ unrecorded' = unrecorded \cup (dropped \cap brought)
        /\ passed' = passed \ {p} /\ cut' = cut \ {p}
        /\ Goto(s, "uncheck")
        /\ UNCHANGED <<packages, yours, brought>>

\* CHECKED=no until the check passes.
Uncheck(s) ==
    /\ proc[s].pc = "uncheck"
    /\ setChecked(Pack(s), "no")
    /\ Goto(s, "check")
    /\ UNCHANGED <<packages, history>>

CheckPasses(s) ==
    /\ proc[s].pc = "check" /\ proc[s].pkgs \subseteq installed
    /\ setChecked(Pack(s), "yes")
    /\ passed' = passed \cup {Pack(s)}
    /\ NextPack(s, "had")
    /\ UNCHANGED <<packages, yours, brought, unrecorded, cut>>

\* It fails, or hangs for ten minutes: the command stops here.
CheckFails(s) ==
    /\ proc[s].pc = "check"
    /\ setChecked(Pack(s), "no")
    /\ End(s)
    /\ UNCHANGED <<packages, history>>

-----------------------------------------------------------------------------
(* pack remove                                                             *)

\* Packs that are neither added nor failed are taken off the list first.
StartRemove(s) ==
    /\ proc[s].pc = "idle"
    /\ \E todo \in Commands \ {<<>>} :
          /\ \A i \in DOMAIN todo : added(todo[i]) \/ failed(todo[i])
          /\ proc' = [proc EXCEPT ![s] = [NoProc EXCEPT !.pc = "keep", !.todo = todo]]
    /\ UNCHANGED <<packages, record, history>>

\* Mutant: only what the other packs brought in is kept.
UsersOwned(p, q) == {o \in Packs \ {p} : q \in record[o].packages}

\* The other packs that installed or use q; the last one read wins.
Users(p, q) == {o \in Packs \ {p} : q \in record[o].packages \cup record[o].needs}

Heir(p, q) ==
    IF Users(p, q) = {} THEN "none"
    ELSE CHOOSE last \in Users(p, q) : \A o \in Users(p, q) : Rank[o] <= Rank[last]

\* Mutant: kept packages are not handed over.
ReadKeepOnly(s) ==
    LET p == Pack(s)
    IN  /\ proc[s].pc = "keep"
        /\ proc' = [proc EXCEPT ![s].pc = "uninstall", ![s].pkgs = record[p].packages,
                                ![s].keep = [q \in Packages |-> Heir(p, q)]]
        /\ UNCHANGED <<packages, record, history>>

ReadKeep(s) ==
    LET p == Pack(s)
        keep == [q \in Packages |-> Heir(p, q)]
        pending == {q \in record[p].packages : keep[q] # "none"}
    IN  /\ proc[s].pc = "keep"
        /\ proc' = [proc EXCEPT ![s].pc = IF pending = {} THEN "uninstall" ELSE "inherit",
                                ![s].pkgs = record[p].packages,
                                ![s].keep = keep, ![s].pending = pending]
        /\ UNCHANGED <<packages, record, history>>

\* inherit: rewrite the heir's record with q in it.  The rewrite drops its
\* CHECKED line, which a second write puts back.
Inherit(s) ==
    /\ proc[s].pc = "inherit"
    /\ \E q \in proc[s].pending :
          LET heir == proc[s].keep[q]
              left == proc[s].pending \ {q}
              have == q \in record[heir].packages
              checked == record[heir].checked
          IN  /\ record' = IF have THEN record
                           ELSE [record EXCEPT ![heir].there = TRUE,
                                               ![heir].packages = @ \cup {q},
                                               ![heir].checked = ""]
              /\ proc' = [proc EXCEPT
                            ![s].pending = left, ![s].heir = heir, ![s].checked = checked,
                            ![s].pc = IF ~have /\ checked # "" THEN "restore"
                                      ELSE IF left = {} THEN "uninstall" ELSE "inherit"]
    /\ UNCHANGED <<packages, history>>

GoOnRemoving(s) == Goto(s, IF proc[s].pending = {} THEN "uninstall" ELSE "inherit")

\* Mutant: the heir's CHECKED comes back as yes whatever it was.
RestoreYes(s) ==
    /\ proc[s].pc = "restore"
    /\ setChecked(proc[s].heir, "yes")
    /\ GoOnRemoving(s)
    /\ UNCHANGED <<packages, history>>

Restore(s) ==
    /\ proc[s].pc = "restore"
    /\ setChecked(proc[s].heir, proc[s].checked)
    /\ GoOnRemoving(s)
    /\ UNCHANGED <<packages, history>>

\* The packages that go: nobody else's, and still installed.
Drop(s) == {q \in proc[s].pkgs : proc[s].keep[q] = "none"} \cap installed

Uninstall(s) ==
    /\ proc[s].pc = "uninstall"
    /\ \E gone \in Removals(Drop(s)) : Uninstalled(gone, Drop(s))
    /\ Goto(s, "forget")
    /\ UNCHANGED <<record, passed, cut>>

\* The package run refuses, or stops part way: remove fails, the record stays.
UninstallPart(s) ==
    /\ proc[s].pc = "uninstall"
    /\ \E gone \in Removals(Drop(s)) : \E part \in SUBSET gone : Uninstalled(part, part)
    /\ End(s)
    /\ UNCHANGED <<record, passed, cut>>

DeleteRecord(s) ==
    /\ proc[s].pc = "forget"
    /\ record' = [record EXCEPT ![Pack(s)] = NoRecord]
    /\ passed' = passed \ {Pack(s)} /\ cut' = cut \ {Pack(s)}
    /\ NextPack(s, "keep")
    /\ UNCHANGED <<packages, yours, brought, unrecorded>>

-----------------------------------------------------------------------------
(* What else happens.                                                      *)

\* A step fails, or the command is killed before its next write.
Stop(s) ==
    LET p == Pack(s)
    IN  /\ proc[s].pc # "idle"
        /\ unrecorded' = IF proc[s].pc = "record"
                         THEN unrecorded \cup (proc[s].fresh \cap brought) ELSE unrecorded
        /\ cut' = cut \cup (IF proc[s].pc = "uncheck" THEN {p}
                            ELSE IF proc[s].pc = "restore" THEN {proc[s].heir} ELSE {})
        /\ End(s)
        /\ UNCHANGED <<packages, record, yours, brought, passed>>

\* Records are written in place.  A write that was cut leaves an empty file, one
\* that failed before it the old record; only add's own record (FailRecord) has
\* its error looked at, so the others may also go on.
FailWrite(p, left, new) ==
    /\ record' = [record EXCEPT ![p] = left]
    /\ unrecorded' = unrecorded \cup
                        (brought \cap (new \cup (record[p].packages \ left.packages)))
    /\ cut' = cut \cup {p}

FailRecord(s) ==
    LET p == Pack(s)
    IN  /\ proc[s].pc = "record"
        /\ FailWrite(p, EmptyRecord, proc[s].fresh)
        /\ End(s)
        /\ UNCHANGED <<packages, yours, brought, passed>>

FailChecked(s) ==
    /\ \E p \in Packs :
          /\ \/ /\ proc[s].pc \in {"uncheck", "check"} /\ p = Pack(s)
                /\ \/ End(s)
                   \/ proc[s].pc = "uncheck" /\ Goto(s, "check")
                   \/ /\ proc[s].pc = "check" /\ proc[s].pkgs \subseteq installed
                      /\ NextPack(s, "had")
             \/ /\ proc[s].pc = "restore" /\ p = proc[s].heir
                /\ End(s) \/ GoOnRemoving(s)
          /\ record[p].there
          /\ \E left \in {record[p], EmptyRecord} : FailWrite(p, left, {})
    /\ UNCHANGED <<packages, yours, brought, passed>>

FailInherit(s) ==
    /\ proc[s].pc = "inherit"
    /\ \E q \in proc[s].pending :
          LET heir == proc[s].keep[q]
              left == proc[s].pending \ {q}
              checked == record[heir].checked
          IN  /\ q \notin record[heir].packages
              /\ \E rec \in {record[heir], EmptyRecord} : FailWrite(heir, rec, {q})
              /\ \/ End(s)
                 \/ proc' = [proc EXCEPT
                               ![s].pending = left, ![s].heir = heir, ![s].checked = checked,
                               ![s].pc = IF checked # "" THEN "restore"
                                         ELSE IF left = {} THEN "uninstall" ELSE "inherit"]
    /\ UNCHANGED <<packages, yours, brought, passed>>

\* A package some record, or a command that runs, counts as a pack's.
Claimed(q) ==
    \/ \E p \in Packs : q \in record[p].packages
    \/ \E s \in Sessions : q \in proc[s].pkgs

\* You install or remove a package yourself, at any time.
InstallYourself(q) ==
    /\ q \notin installed \ auto
    /\ installed' = installed \cup {q} \cup Depends[q]
    /\ auto' = (auto \cup (Depends[q] \ installed)) \ {q}
    /\ yours' = IF Claimed(q) THEN yours ELSE yours \cup {q}
    /\ UNCHANGED <<record, proc, brought, unrecorded, passed, cut>>

RemoveYourself(q) ==
    /\ q \in installed
    /\ \E gone \in Removals({q}) : Uninstalled(gone, {q})
    /\ UNCHANGED <<record, proc, passed, cut>>

Add(s) ==
    \/ StartAdd(s) \/ ReadHad(s) \/ InstallPackages(s) \/ InstallPart(s)
    \/ WriteRecord(s) \/ Uncheck(s) \/ CheckPasses(s) \/ CheckFails(s)

Remove(s) ==
    \/ StartRemove(s) \/ ReadKeep(s) \/ Inherit(s) \/ Restore(s)
    \/ Uninstall(s) \/ UninstallPart(s) \/ DeleteRecord(s)

FailedWrites(s) == FailRecord(s) \/ FailChecked(s) \/ FailInherit(s)

Next ==
    \/ \E s \in Sessions : Add(s) \/ Remove(s) \/ Stop(s) \/ FailedWrites(s)
    \/ \E q \in Packages : InstallYourself(q) \/ RemoveYourself(q)

Spec == Init /\ [][Next]_vars

-----------------------------------------------------------------------------
(* Properties.                                                             *)

\* Every package a pack brought in is listed by the record of some pack, so a
\* remove will take it out, through every failed check, kept package, handover
\* and crash, and whatever you install and remove meanwhile: only an add that
\* never got to its record, or wrote it over an older one, and a write of a
\* record that failed, lose a package (pack.go:118-119, 428-430, 522-525).
Owned ==
    \A q \in brought \ unrecorded :
        \/ \E p \in Packs : q \in record[p].packages
        \/ \E s \in Sessions : proc[s].pc = "record" /\ q \in proc[s].fresh

\* A package you asked for by name, when no pack had it, goes with a pack remove
\* only if it depends on a package of that pack (pack.go:353-354, 485).
YoursKept ==
    [][ \A q \in yours \ yours' :
          proc' # proc => \E s \in Sessions : /\ proc[s].pc = "uninstall"
                                             /\ q \in Dependents(Drop(s)) ]_vars

\* A remove takes out no package that another pack with a record uses, but what
\* depends on a package it takes out, or is only held as a dependency, and the
\* package manager therefore takes out with it (pack.go:397-399, 485).
NeedsKept ==
    [][ \A s \in Sessions, p \in Packs :
          proc[s].pc = "uninstall" /\ proc'[s].pc # "uninstall" /\ p # Pack(s)
            => (record[p].needs \cap installed) \ (Dependents(Drop(s)) \cup auto)
                 \subseteq installed' ]_vars

\* A pack counts as added only once its check has passed, also after its
\* record was rewritten to take over another pack's package (pack.go:112), as
\* long as no write of its record failed.
AddedPassed ==
    \A p \in Packs \ cut :
        added(p) => \/ p \in passed
                    \/ \E s \in Sessions :
                          \/ proc[s].pc = "uncheck" /\ Pack(s) = p
                          \/ proc[s].pc = "restore" /\ proc[s].heir = p
=============================================================================
