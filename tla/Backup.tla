------------------------------ MODULE Backup ------------------------------
(***************************************************************************)
(* backup and restore (internal/app/manage.go) over the files of one       *)
(* distro, and the links that proot fakes (internal/rootfs/l2s.go): a hard *)
(* link inside the distro is a symlink to a .l2s file, by the path it has  *)
(* on this phone.  A backup is meant to be portable, so it holds neither.  *)
(* The distro may run during a backup; both commands fail, or are killed,  *)
(* between any two files.                                                  *)
(***************************************************************************)
EXTENDS Naturals, Sequences, SequencesExt

CONSTANTS
    Walk,     \* the files in the order filepath.Walk visits them
    L2S,      \* those that are link2symlink's own
    Phones,   \* where the distro may be: the host path of its rootfs
    Data      \* what a file may contain

Names == ToSet(Walk)

NoName == "-"

ASSUME WalkAssumption == Walk \in Seq(Names) /\ IsInjective(Walk) /\ Walk # <<>> /\ L2S \subseteq Names
ASSUME PhonesAssumption == {"guest", "-"} \cap Phones = {} /\ NoName \notin Names

None == [kind |-> "none", data |-> "-", to |-> "-", by |-> "-"]
File(c) == [kind |-> "file", data |-> c, to |-> "-", by |-> "-"]
\* A symlink: by a host path (a phone of Phones), or "guest": by the path
\* it has inside the distro.
Link(n, by) == [kind |-> "link", data |-> "-", to |-> n, by |-> by]
Hard(n) == [kind |-> "hard", data |-> "-", to |-> n, by |-> "-"]

Plain == {None} \cup {File(c) : c \in Data}
Links == [kind : {"link"}, data : {"-"}, to : Names, by : Phones \cup {"guest"}]
Entry == [name : Names, what : Plain \cup Links \cup {Hard(n) : n \in Names}]

VARIABLES
    phone,     \* this phone
    dir,       \* the distro's files
    archive,   \* the backup: its entries, whether it was closed, and whether
               \* (history) this installer wrote it, or one from before
    proc,      \* the command under way, and how far its walk is
    written,   \* data file -> the name its data has in the archive; none
               \* while no backup runs
    steady,    \* from here on nothing fails, and the backup is restored
    saved,     \* history: what the files read as when the backup began
    touched,   \* history: the files that changed while it ran
    bad        \* history: the files the restore under way only warned about

vars == <<phone, dir, archive, proc, written, steady, saved, touched, bad>>

NoArchive == [entries |-> <<>>, closed |-> FALSE, portable |-> FALSE]

Stages == {"idle", "backup", "delete", "extract", "repair", "restored"}

TypeOK ==
    /\ phone \in Phones
    /\ dir \in [Names -> Plain \cup Links]
    /\ archive \in [entries : Seq(Entry), closed : BOOLEAN, portable : BOOLEAN]
    /\ proc \in [at : Stages, n : 1 .. Len(Walk) + 1]
    /\ written \in [Names -> Names \cup {NoName}]
    /\ saved \in [Names \ L2S -> Plain \cup Links]
    /\ steady \in BOOLEAN
    /\ touched \subseteq Names /\ bad \subseteq Names

Idle == [at |-> "idle", n |-> 1]
NothingWritten == [g \in Names |-> NoName]

-----------------------------------------------------------------------------
(* link2symlink.                                                           *)

\* One link further; the end of a chain of at most three (of the code's 16).
Hop(d, n) == IF d[n].kind = "link" THEN d[n].to ELSE n
End(d, n) == Hop(d, Hop(d, Hop(d, n)))
Way(d, n) == {n, Hop(d, n), Hop(d, Hop(d, n)), End(d, n)}

\* An ordinary symlink, to what is neither a symlink nor link2symlink's.
Ordinary(d, n) == d[n].kind = "link" /\ d[n].to \notin L2S /\ d[d[n].to].kind # "link"

\* L2SData: the data file a symlink leads to, whichever phone's path it names.
\* Only the first link is asked whether it leads into link2symlink's storage:
\* any symlink to a symlink to a file passes.
L2SData(n) ==
    IF dir[n].kind = "link" /\ ~Ordinary(dir, n) /\ dir[End(dir, n)].kind = "file"
    THEN End(dir, n) ELSE NoName

\* Mutant: a host path is known by this phone's alone.
GuestTargetHere(e) == IF e.by = phone THEN Link(e.to, "guest") ELSE e

\* GuestTarget: any phone's path of a rootfs becomes the path inside it.
GuestTarget(e) == Link(e.to, "guest")

\* What RepairHostLinks makes of an entry: a link by a host path goes by this
\* phone's into link2symlink's storage, and by the guest's path elsewhere.
Repaired(e) ==
    IF e.kind # "link" \/ e.by = "guest" THEN e
    ELSE IF e.to \in L2S THEN Link(e.to, phone)
    ELSE GuestTarget(e)

\* What a program in the distro reads under a name: the file that its links
\* lead to; an ordinary link is read as one.
Reads(d, n, here) ==
    IF d[n].kind # "link" THEN d[n]
    ELSE IF \E m \in Way(d, n) : d[m].kind = "link" /\ d[m].by \notin {"guest", here} THEN None
    ELSE IF Ordinary(d, n) THEN Link(d[n].to, "guest")
    ELSE IF d[End(d, n)].kind = "link" THEN None ELSE d[End(d, n)]

View == [n \in Names \ L2S |-> Reads(dir, n, phone)]

-----------------------------------------------------------------------------
\* A backup of an installer from before backups were portable, made on another
\* phone: the files there were, in the order of the walk, .l2s files and host
\* paths as they were there.
OldBackup(d, a) ==
    \E k \in 0 .. Len(Walk) : \E at \in [1 .. k -> 1 .. Len(Walk)] :
        /\ \A i, j \in 1 .. k : i < j => at[i] < at[j]
        /\ {Walk[at[i]] : i \in 1 .. k} = {n \in Names : d[n] # None}
        /\ a = [entries |-> [i \in 1 .. k |-> [name |-> Walk[at[i]], what |-> d[Walk[at[i]]]]],
                closed |-> TRUE, portable |-> FALSE]

\* A distro's files where they were made: link2symlink's links go by this
\* phone's path, the others by either, and no chain is longer than two.
Made(d, here) ==
    \A n \in Names : d[n].kind = "link" =>
        /\ n \notin L2S /\ d[n].to # n /\ d[Hop(d, Hop(d, n))].kind # "link"
        /\ IF d[n].to \in L2S THEN d[n].by = here /\ d[d[n].to].kind = "file"
           ELSE d[n].by \in {here, "guest"}

Init ==
    /\ phone \in Phones
    /\ \E d \in [Names -> Plain \cup Links] : \E here \in Phones :
          /\ Made(d, here)
          /\ \/ /\ here = phone /\ dir = d /\ archive = NoArchive
                /\ saved = [n \in Names \ L2S |-> None]
             \/ /\ here # phone /\ dir = [n \in Names |-> None] /\ OldBackup(d, archive)
                /\ saved = [n \in Names \ L2S |-> Reads(d, n, here)]
    /\ proc = Idle /\ written = NothingWritten
    /\ steady = FALSE /\ touched = {} /\ bad = {}

Settle ==
    /\ ~steady /\ archive.closed
    /\ steady' = TRUE
    /\ UNCHANGED <<phone, dir, archive, proc, written, saved, touched, bad>>

\* Another phone, with nothing but the backup.
NewPhone ==
    /\ proc.at = "idle" /\ ~steady
    /\ phone' \in Phones \ {phone}
    /\ dir' = [n \in Names |-> None]
    /\ UNCHANGED <<archive, proc, written, steady, saved, touched, bad>>

\* The files that are read through one of S.
Through(S) == {m \in Names : Way(dir, m) \cap S # {}}

Deleted == "deleted"

\* The user works in the distro: writes a file, where its links lead, or
\* deletes it; makes a hard link (proot: the file becomes a .l2s file and two
\* symlinks to it).
Edit(n, c) ==
    /\ proc.at \in {"idle", "backup"} /\ ~steady
    /\ n \notin L2S /\ dir[n] # None
    /\ IF c = Deleted THEN dir[n].to \notin L2S /\ dir' = [dir EXCEPT ![n] = None]
       ELSE LET g == L2SData(n) IN dir' = [dir EXCEPT ![IF g # NoName THEN g ELSE n] = File(c)]
    /\ touched' = IF proc.at = "backup" THEN touched \cup Through(Way(dir, n)) ELSE touched
    /\ UNCHANGED <<phone, archive, proc, written, steady, saved, bad>>

HardLink(n, m, g) ==
    /\ proc.at \in {"idle", "backup"} /\ ~steady
    /\ n \notin L2S /\ m \notin L2S /\ g \in L2S
    /\ dir[n].kind = "file" /\ dir[m] = None /\ dir[g] = None
    /\ dir' = [dir EXCEPT ![g] = dir[n], ![n] = Link(g, phone), ![m] = Link(g, phone)]
    /\ touched' = IF proc.at = "backup" THEN touched \cup Through({n, m, g}) ELSE touched
    /\ UNCHANGED <<phone, archive, proc, written, steady, saved, bad>>

-----------------------------------------------------------------------------
(* Backup.                                                                 *)

\* os.Create truncates what has this name.
StartBackup ==
    /\ proc.at = "idle" /\ ~steady /\ \E n \in Names : dir[n] # None
    /\ proc' = [at |-> "backup", n |-> 1]
    /\ archive' = [NoArchive EXCEPT !.portable = TRUE] /\ written' = NothingWritten
    /\ saved' = View /\ touched' = {}
    /\ UNCHANGED <<phone, dir, steady, bad>>

\* Mutant: a link is written as it is here.
BackedUpAsIs(n) ==
    LET g == L2SData(n) IN
    IF g = NoName THEN dir[n] ELSE IF written[g] = NoName THEN dir[g] ELSE Hard(written[g])

\* What the archive gets for a file: the data for the first name of a group, a
\* hard link to that name for the others; a link by its guest path.
BackedUp(n) ==
    LET g == L2SData(n) IN
    IF g = NoName THEN IF dir[n].kind = "link" THEN GuestTarget(dir[n]) ELSE dir[n]
    ELSE IF written[g] = NoName THEN dir[g] ELSE Hard(written[g])

WriteEntry ==
    /\ proc.at = "backup" /\ proc.n <= Len(Walk)
    /\ proc' = [proc EXCEPT !.n = @ + 1]
    /\ LET n == Walk[proc.n]
           g == L2SData(n)
       IN  IF n \in L2S \/ dir[n] = None THEN UNCHANGED <<archive, written>>
           ELSE /\ archive' = [archive EXCEPT !.entries = Append(@, [name |-> n, what |-> BackedUp(n)])]
                /\ written' = IF g # NoName /\ written[g] = NoName
                              THEN [written EXCEPT ![g] = n] ELSE written
    /\ UNCHANGED <<phone, dir, steady, saved, touched, bad>>

CloseBackup ==
    /\ proc.at = "backup" /\ proc.n > Len(Walk)
    /\ archive' = [archive EXCEPT !.closed = TRUE]
    /\ proc' = Idle /\ written' = NothingWritten
    /\ UNCHANGED <<phone, dir, steady, saved, touched, bad>>

\* An error (a full disk, a file that changed its size): out is removed.
FailBackup ==
    /\ proc.at = "backup" /\ ~steady
    /\ archive' = NoArchive /\ proc' = Idle /\ written' = NothingWritten
    /\ UNCHANGED <<phone, dir, steady, saved, touched, bad>>

-----------------------------------------------------------------------------
(* Restore.                                                                *)

\* Mutant: it does not replace what is there.
StartRestoreNew ==
    /\ proc.at = "idle" /\ (archive.entries # <<>> \/ archive.closed)
    /\ \A n \in Names : dir[n] = None
    /\ proc' = [at |-> "delete", n |-> 1]
    /\ UNCHANGED <<phone, dir, archive, written, steady, saved, touched, bad>>

\* The first entry says which distro; the user agrees to replace it.
StartRestore ==
    /\ proc.at = "idle" /\ (archive.entries # <<>> \/ archive.closed)
    /\ proc' = [at |-> "delete", n |-> 1]
    /\ UNCHANGED <<phone, dir, archive, written, steady, saved, touched, bad>>

\* rootfs.Remove; its error is not looked at.
DeleteOld ==
    /\ proc.at = "delete"
    /\ \E left \in IF steady THEN {{}} ELSE SUBSET {n \in Names : dir[n] # None} :
          dir' = [n \in Names |-> IF n \in left THEN dir[n] ELSE None]
    /\ proc' = [proc EXCEPT !.at = "extract"]
    /\ UNCHANGED <<phone, archive, written, steady, saved, touched, bad>>

\* Mutant: a hard link is left to the file system.
ExtractedHard(what) == what

\* A file for an entry; a hard link is a copy where Android refuses links.
Extracted(what) == IF what.kind = "hard" THEN dir[what.to] ELSE what

\* An entry that fails is a warning that nobody sees, and leaves what was there,
\* nothing, or some of the file; so does a hard link to one that failed.
ExtractEntry ==
    /\ proc.at = "extract" /\ proc.n <= Len(archive.entries)
    /\ proc' = [proc EXCEPT !.n = @ + 1]
    /\ LET e == archive.entries[proc.n]
           copied == e.what.kind = "hard" /\ e.what.to \in bad
       IN  \/ /\ ~copied
              /\ dir' = [dir EXCEPT ![e.name] = Extracted(e.what)]
              /\ bad' = bad
           \/ /\ copied \/ ~steady
              /\ \E rest \in {dir[e.name]} \cup Plain : dir' = [dir EXCEPT ![e.name] = rest]
              /\ bad' = bad \cup {e.name}
    /\ UNCHANGED <<phone, archive, written, steady, saved, touched>>

\* The end of the archive; of one that was never closed, an error.
EndExtract ==
    /\ proc.at = "extract" /\ proc.n > Len(archive.entries)
    /\ IF archive.closed THEN proc' = [proc EXCEPT !.at = "repair"] /\ bad' = bad
       ELSE proc' = Idle /\ bad' = {}
    /\ UNCHANGED <<phone, dir, archive, written, steady, saved, touched>>

\* RepairHostLinks removes a link that is wrong here and makes it anew, which
\* may fail unseen; then the helper and the launcher (Install's).
RepairHostLinks ==
    /\ proc.at = "repair"
    /\ \E lost \in IF steady THEN {{}} ELSE SUBSET {n \in Names : Repaired(dir[n]) # dir[n]} :
          /\ dir' = [n \in Names |-> IF n \in lost THEN None ELSE Repaired(dir[n])]
          /\ bad' = bad \cup lost
    /\ proc' = [proc EXCEPT !.at = "restored"]
    /\ UNCHANGED <<phone, archive, written, steady, saved, touched>>

EndRestore ==
    /\ proc.at = "restored"
    /\ proc' = Idle /\ bad' = {}
    /\ UNCHANGED <<phone, dir, archive, written, steady, saved, touched>>

\* Killed, or an error of a step: what was written stays.
Stop ==
    /\ proc.at # "idle" /\ ~steady
    /\ proc' = Idle /\ written' = NothingWritten /\ bad' = {}
    /\ UNCHANGED <<phone, dir, archive, steady, saved, touched>>

-----------------------------------------------------------------------------
User ==
    \/ \E n \in Names, c \in Data \cup {Deleted} : Edit(n, c)
    \/ \E n, m \in Names, g \in L2S : HardLink(n, m, g)
    \/ NewPhone \/ Settle

RunBackup == StartBackup \/ WriteEntry \/ CloseBackup \/ FailBackup

RunRestore ==
    \/ StartRestore \/ DeleteOld \/ ExtractEntry \/ EndExtract
    \/ RepairHostLinks \/ EndRestore

Next == User \/ RunBackup \/ RunRestore \/ Stop

\* Once steady, the command goes on, or the user restores again.
Spec == Init /\ [][Next]_vars /\ WF_vars(WriteEntry \/ CloseBackup \/ RunRestore)

-----------------------------------------------------------------------------
(* Properties.                                                             *)

\* A backup that was closed, restored on any phone, reads as the distro read
\* when the backup began, file by file, hard links, chains of links and all;
\* except what changed during it, and what is read through an entry that this
\* restore only warned about.  It is so for backups with another phone's links,
\* and where the old folder could not be deleted.
RoundTrip ==
    proc.at = "restored" =>
        \A n \in (Names \ L2S) \ touched :
            saved[n] # None /\ Way(dir, n) \cap bad = {} => saved[n] \in {dir[n], View[n]}

\* DESIGN.md, section 11: "Backups are portable (section 5): no .l2s files or
\* host paths".  A backup of this installer names no phone, and its hard links
\* lead to a file that comes before them in the archive.
Portable ==
    archive.portable => \A i \in DOMAIN archive.entries :
        LET e == archive.entries[i] IN
        /\ e.name \notin L2S /\ e.what.by \notin Phones
        /\ e.what.kind = "hard" =>
              \E j \in 1 .. i - 1 : archive.entries[j].name = e.what.to
                                  /\ archive.entries[j].what.kind = "file"

\* Once nothing fails any more, restoring a closed backup again gets to the end,
\* whatever earlier tries left behind.
RestoreEnds == steady ~> proc.at = "restored"
=============================================================================
