------------------------------ MODULE Download ------------------------------
(***************************************************************************)
(* One file of ~/.andronix/cache: how `andronix install` finds, downloads, *)
(* resumes, verifies and uses it.  An interrupted download leaves its      *)
(* bytes in <file>.part, which the next try, or the next command, appends  *)
(* to; meanwhile the server may have put another image under the same URL, *)
(* and its caches keep the image and its checksum for different times.     *)
(***************************************************************************)
EXTENDS Naturals, Sequences

CONSTANTS
    Versions,   \* the images the server has under this URL, one at a time
    Size,       \* how many chunks each one has
    Tries       \* attempts of one download (5, netx.go:90)

ASSUME VersionsAssumption == "none" \notin Versions
ASSUME SizeAssumption == Size \in [Versions -> Nat \ {0}]
ASSUME TriesAssumption == Tries \in Nat \ {0}

VARIABLES
    kind,     \* which kind of source this file has
    server,   \* the image and the checksum that are served now
    part,     \* <file>.part
    file,     \* the file itself
    proc,     \* the running install, see Proc
    calm,     \* from now on the server and the network stay as they are
    mixed     \* history: since the .part was begun, the server's image
              \* changed, or `clean` ran while a download was under way

vars == <<kind, server, part, file, proc, calm, mixed>>

-----------------------------------------------------------------------------
Kinds == {"tarball", "upstream", "modded", "layer"}

Checksum == Versions \cup {"none"}

\* A chunk is known by the image it is from and its place there.
Chunk == Versions \X (Nat \ {0})

Image(v) == [i \in 1..Size[v] |-> <<v, i>>]

File == [there : BOOLEAN, bytes : Seq(Chunk)]

NoFile == [there |-> FALSE, bytes |-> <<>>]

\* size: the expected size, 0 when unknown; sha: the expected checksum,
\* "none" when there is none.  have: how far into the file the attempt is.
\* status, from: the response, and the image it carries.  gone: the open
\* .part was deleted.  sum: whether the finished .part has checksum sha.
Proc == [pc     : {"idle", "resolve", "head", "sum", "get", "request", "open",
                   "body", "hash", "check", "rename", "unpack"},
         size   : Nat,
         sha    : Checksum,
         try    : 1..Tries,
         have   : Nat,
         status : {0, 200, 206},
         from   : Checksum,
         gone   : BOOLEAN,
         sum    : BOOLEAN]

NoProc == [pc |-> "idle", size |-> 0, sha |-> "none", try |-> 1, have |-> 0,
           status |-> 0, from |-> "none", gone |-> FALSE, sum |-> FALSE]

TypeOK ==
    /\ kind \in Kinds
    /\ server \in [file : Versions, sum : Checksum]
    /\ part \in File /\ file \in File
    /\ proc \in Proc /\ (proc.pc \in {"open", "body"} => proc.from \in Versions)
    /\ calm \in BOOLEAN /\ mixed \in BOOLEAN

\* Layers are named by their digest: theirs never change.
Init ==
    /\ kind \in Kinds
    /\ server \in [file : Versions, sum : Checksum]
    /\ kind = "layer" => server.sum = server.file
    /\ part = NoFile /\ file = NoFile
    /\ proc = NoProc
    /\ calm = FALSE /\ mixed = FALSE

Goto(pc) == proc' = [proc EXCEPT !.pc = pc]

Busy == proc.pc # "idle"

-----------------------------------------------------------------------------
(* pickSource and moddedSource: the expected size and checksum.  They are  *)
(* requests of their own; the server may change in between.                *)

\* A layer that is already there is used as it is.
Start ==
    /\ ~Busy
    /\ CASE kind = "tarball"  -> \E pc \in {"resolve", "head"} : Goto(pc)
         [] kind = "upstream" -> Goto("head")
         [] kind = "modded"   -> Goto("sum")
         [] kind = "layer"    ->
              proc' = [NoProc EXCEPT !.size = Size[server.file], !.sha = server.sum,
                                     !.pc = IF file = [there |-> TRUE, bytes |-> Image(server.sum)]
                                            THEN "unpack" ELSE "get"]
    /\ mixed' = (mixed /\ part.there)
    /\ UNCHANGED <<kind, server, part, file, calm>>

\* The API's answer has the checksum; without one the mirror's is used.
Resolve ==
    /\ proc.pc = "resolve"
    /\ proc' = [proc EXCEPT !.pc = "head", !.sha = server.sum]
    /\ UNCHANGED <<kind, server, part, file, calm, mixed>>

\* HEAD: the size that is served, which the API's answer may override.
\* The distro's own server may not say.
HeadSize ==
    /\ proc.pc = "head"
    /\ \E size \in {Size[server.file]}
                   \cup (IF proc.sha # "none" THEN {Size[proc.sha]} ELSE {})
                   \cup (IF kind = "upstream" THEN {0} ELSE {}) :
          proc' = [proc EXCEPT !.size = size,
                               !.pc = IF proc.sha = "none" THEN "sum" ELSE "get"]
    /\ UNCHANGED <<kind, server, part, file, calm, mixed>>

\* A mirror's tarball without a checksum is not used (the registry is); the
\* distro's own, and a Modded one, then go unchecked.
GetSum ==
    /\ proc.pc = "sum"
    /\ proc' = IF kind = "tarball" /\ server.sum = "none" THEN NoProc
               ELSE [proc EXCEPT !.pc = "get", !.sha = server.sum]
    /\ UNCHANGED <<kind, server, part, file, calm, mixed>>

\* The request fails: only the distro's own tarball is then used unchecked.
NoSum ==
    /\ proc.pc = "sum" /\ ~calm /\ kind = "upstream"
    /\ Goto("get")
    /\ UNCHANGED <<kind, server, part, file, calm, mixed>>

-----------------------------------------------------------------------------
(* netx.Download: one attempt.                                             *)

\* Mutant: a complete file is taken for one that is too long.
StatOrEqual ==
    LET have == Len(part.bytes)
        long == proc.size > 0 /\ have >= proc.size
    IN  /\ proc.pc = "get"
        /\ part' = IF long THEN NoFile ELSE part
        /\ proc' = [proc EXCEPT !.have = IF long THEN 0 ELSE have, !.pc = "request"]
        /\ UNCHANGED <<kind, server, file, calm, mixed>>

\* The size of what is there: complete, too long, or to be continued.
Stat ==
    LET have == Len(part.bytes)
        long == proc.size > 0 /\ have > proc.size
    IN  /\ proc.pc = "get"
        /\ part' = IF long THEN NoFile ELSE part
        /\ proc' = [proc EXCEPT !.have = IF long THEN 0 ELSE have,
                                !.pc = IF proc.size > 0 /\ have = proc.size
                                       THEN "hash" ELSE "request"]
        /\ UNCHANGED <<kind, server, file, calm, mixed>>

\* Range from have on: the rest (206), nothing left (416), or the server
\* ignores it and sends everything (200).
Request ==
    LET rest == proc.have < Size[server.file]
    IN  /\ proc.pc = "request"
        /\ \/ /\ proc.have > 0 /\ rest
              /\ proc' = [proc EXCEPT !.pc = "open", !.status = 206, !.from = server.file]
           \/ /\ proc.have > 0 /\ ~rest
              /\ Goto("hash")
           \/ proc' = [proc EXCEPT !.pc = "open", !.status = 200, !.from = server.file,
                                   !.have = 0]
        /\ UNCHANGED <<kind, server, part, file, calm, mixed>>

\* Mutant: the file is not truncated for a full response.
OpenAppend ==
    /\ proc.pc = "open"
    /\ part' = [there |-> TRUE, bytes |-> part.bytes]
    /\ Goto("body")
    /\ UNCHANGED <<kind, server, file, calm, mixed>>

\* O_APPEND for 206, O_TRUNC for 200; a .part that is gone is created.
Open ==
    /\ proc.pc = "open"
    /\ part' = [there |-> TRUE, bytes |-> IF proc.status = 206 THEN part.bytes ELSE <<>>]
    /\ Goto("body")
    /\ UNCHANGED <<kind, server, file, calm, mixed>>

Write ==
    /\ proc.pc = "body" /\ proc.have < Size[proc.from]
    /\ part' = IF proc.gone THEN part
               ELSE [part EXCEPT !.bytes = Append(@, <<proc.from, proc.have + 1>>)]
    /\ proc' = [proc EXCEPT !.have = @ + 1]
    /\ UNCHANGED <<kind, server, file, calm, mixed>>

\* Mutant: no attempt is the last one.
NextTryAlways ==
    proc' = [proc EXCEPT !.pc = "get", !.try = @ + 1, !.have = 0, !.status = 0,
                         !.from = "none", !.gone = FALSE]

\* The next attempt, or the last one failed.
NextTry ==
    proc' = IF proc.try < Tries
            THEN [proc EXCEPT !.pc = "get", !.try = @ + 1, !.have = 0, !.status = 0,
                              !.from = "none", !.gone = FALSE]
            ELSE NoProc

\* The response ends; less than expected is an error.
End ==
    /\ proc.pc = "body" /\ proc.have = Size[proc.from]
    /\ IF proc.have < proc.size
       THEN NextTry
       ELSE proc' = [proc EXCEPT !.pc = "hash", !.status = 0, !.from = "none", !.gone = FALSE]
    /\ UNCHANGED <<kind, server, part, file, calm, mixed>>

\* No answer, a server error, a cut or stalled connection, a failed write.
Break ==
    /\ proc.pc \in {"request", "open", "body"} /\ ~calm
    /\ NextTry
    /\ UNCHANGED <<kind, server, part, file, calm, mixed>>

-----------------------------------------------------------------------------
(* The finished download.                                                  *)

\* FileSHA256 of the .part, by its name.
Hash ==
    /\ proc.pc = "hash"
    /\ proc' = IF part.there
               THEN [proc EXCEPT !.pc = "check", !.have = 0,
                       !.sum = (proc.sha # "none" /\ part.bytes = Image(proc.sha))]
               ELSE NoProc
    /\ UNCHANGED <<kind, server, part, file, calm, mixed>>

\* Mutant: the damaged file is not deleted.
CheckOnly ==
    /\ proc.pc = "check"
    /\ IF proc.sha # "none" /\ ~proc.sum THEN proc' = NoProc ELSE Goto("rename")
    /\ UNCHANGED <<kind, server, part, file, calm, mixed>>

\* A damaged download is deleted, and the command stops.
Check ==
    /\ proc.pc = "check"
    /\ IF proc.sha # "none" /\ ~proc.sum
       THEN part' = NoFile /\ proc' = NoProc
       ELSE UNCHANGED part /\ Goto("rename")
    /\ UNCHANGED <<kind, server, file, calm, mixed>>

Rename ==
    /\ proc.pc = "rename"
    /\ IF part.there
       THEN file' = part /\ part' = NoFile /\ Goto("unpack")
       ELSE UNCHANGED <<part, file>> /\ proc' = NoProc
    /\ UNCHANGED <<kind, server, calm, mixed>>

\* The steps after it.  A finished install deletes the file, one that
\* stops leaves it.
Unpack ==
    /\ proc.pc = "unpack"
    /\ file' \in {file, NoFile}
    /\ proc' = NoProc
    /\ UNCHANGED <<kind, server, part, calm, mixed>>

-----------------------------------------------------------------------------
(* The surroundings.                                                       *)

\* The command is killed, or a request is refused (an error below 500), or a
\* source is not there and another one is used.
Kill ==
    /\ Busy /\ ~calm
    /\ proc' = NoProc
    /\ UNCHANGED <<kind, server, part, file, calm, mixed>>

\* Another image, or another checksum, is served from now on.
Publish ==
    /\ ~calm /\ kind # "layer"
    /\ \/ \E v \in Versions \ {server.file} :
             /\ server' = [server EXCEPT !.file = v]
             /\ mixed' = (mixed \/ part.there \/ Busy)
       \/ \E v \in Checksum \ {server.sum} :
             server' = [server EXCEPT !.sum = v] /\ UNCHANGED mixed
    /\ UNCHANGED <<kind, part, file, proc, calm>>

\* `andronix clean` in another session: what was not written to for two
\* minutes goes, also a .part that a new attempt has just measured.
Clean ==
    /\ ~calm
    /\ part' \in {part, NoFile} /\ file' \in {file, NoFile}
    /\ proc' = [proc EXCEPT !.gone = @ \/ (proc.pc = "body" /\ part.there /\ ~part'.there)]
    /\ mixed' = (mixed \/ Busy)
    /\ UNCHANGED <<kind, server, calm>>

\* Nothing else fails; the checksum is that of the image, if there is one.
CalmDown ==
    /\ ~calm
    /\ server.sum = server.file \/ (server.sum = "none" /\ kind # "tarball")
    /\ calm' = TRUE
    /\ UNCHANGED <<kind, server, part, file, proc, mixed>>

-----------------------------------------------------------------------------
Run ==
    \/ Start \/ Resolve \/ HeadSize \/ GetSum
    \/ Stat \/ Request \/ Open \/ Write \/ End
    \/ Hash \/ Check \/ Rename \/ Unpack

Next == Run \/ NoSum \/ Break \/ Kill \/ Publish \/ Clean \/ CalmDown

Spec == Init /\ [][Next]_vars

\* The program keeps taking its steps, and the user repeats the command.
FairSpec == Spec /\ WF_vars(Run)

-----------------------------------------------------------------------------
(* Properties.                                                             *)

\* What is unpacked is the image its checksum names; and without a checksum
\* the resumed pieces still make up the whole image, once, in order, through
\* every cut, retry and kill, as long as the server's file stays the same
\* (README.md:53, netx.go:106-177).
UnpacksImage ==
    proc.pc = "unpack" /\ file.there =>
        /\ proc.sha # "none" => file.bytes = Image(proc.sha)
        /\ proc.sha = "none" /\ ~mixed => file.bytes = Image(server.file)

\* A retry continues: bytes of the served image that are already there are
\* not thrown away by a command that expects that image, unless the server
\* sends everything again (netx.go:85, 111-117, 131-137).
KeepsStep ==
    part.there /\ ~mixed /\ proc.status # 200
      /\ proc.size \in {0, Size[server.file]} /\ proc.sha \in {"none", server.file}
      /\ proc' # proc /\ ~mixed'
    => file' = part \/ (part'.there /\ Len(part.bytes) <= Len(part'.bytes))

KeepsProgress == [][KeepsStep]_vars

\* Whatever an interrupted download left, and of whichever images: once the
\* network and the server are steady, repeating the command gets the image
\* (install.go:361: "Run the same command again to download it fresh.").
Recovers ==
    calm /\ server.sum # "none"
      ~> proc.pc = "unpack" /\ file = [there |-> TRUE, bytes |-> Image(server.file)]
=============================================================================
