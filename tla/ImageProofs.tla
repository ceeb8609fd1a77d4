---------------------------- MODULE ImageProofs ----------------------------
(***************************************************************************)
(* Proofs about the image of a distro.  Download, for any images and       *)
(* sizes: a resumed download is the whole image.  Extract, for any paths,  *)
(* links and layers: the directories that it remembers lead no name        *)
(* astray, and layers unpack to the image that their format defines.       *)
(***************************************************************************)
EXTENDS Download, Extract, TLAPS

-----------------------------------------------------------------------------
(* The inductive invariant.                                                *)

\* Between attempts nothing is open; an open .part is there or was deleted.
Opened ==
    /\ ~part.there => part.bytes = <<>>
    /\ proc.pc = "body" => proc.gone \/ part.there
    /\ proc.pc # "body" => ~proc.gone

\* An idle command knows nothing, and one looking for the checksum has none.
Rest ==
    /\ proc.pc = "idle" => proc = NoProc
    /\ proc.pc \in {"resolve", "sum"} => proc.sha = "none"

\* Finished, at its checksum's image: what the last steps rely on.
SumIsTrue ==
    /\ kind = "layer" => server.sum = server.file
    /\ /\ proc.pc = "check" \/ (proc.pc = "rename" /\ proc.sha # "none")
       /\ part.there /\ (proc.pc = "check" => proc.sum)
       => proc.sha # "none" /\ part.bytes = Image(proc.sha)
    /\ proc.pc = "unpack" /\ file.there /\ proc.sha # "none"
         => file.bytes = Image(proc.sha)

\* The .part is a beginning of the served image.
Beginning ==
    /\ Len(part.bytes) <= Size[server.file]
    /\ \A i \in 1..Len(part.bytes) : part.bytes[i] = <<server.file, i>>

\* The attempt goes on where the .part ends.
Continues ==
    /\ proc.pc = "request" => proc.have = Len(part.bytes)
    /\ proc.pc \in {"open", "body"} => proc.from = server.file
    /\ proc.pc = "open" => /\ proc.status = 206 => proc.have = Len(part.bytes)
                           /\ proc.status # 206 => proc.status = 200 /\ proc.have = 0
    /\ proc.pc = "body" => ~proc.gone /\ part.there /\ proc.have = Len(part.bytes)

Fits == proc.size \in {0, Size[server.file]} /\ proc.sha \in {"none", server.file}

\* Past the attempts, a command that expects the served image has it.
Complete ==
    /\ proc.sha = "none" => proc.size \in {0, Size[server.file]}
    /\ proc.pc \in {"hash", "check", "rename"} /\ Fits /\ part.there
         => part.bytes = Image(server.file)
    /\ proc.pc = "check" /\ Fits /\ part.there /\ proc.sha # "none" => proc.sum
    /\ proc.pc = "unpack" /\ file.there /\ proc.sha = "none"
         => file.bytes = Image(server.file)

Unmixed == ~mixed => Beginning /\ Continues /\ Complete

IInv == TypeOK /\ Opened /\ Rest /\ SumIsTrue /\ Unmixed

-----------------------------------------------------------------------------
(* Type correctness.                                                       *)

LEMMA EmptyTypes == NoProc \in Proc /\ NoProc.pc = "idle" /\ NoFile \in File
  BY TriesAssumption DEF NoProc, Proc, Checksum, NoFile, File

LEMMA NextTryType ==
    ASSUME proc \in Proc, NextTry
    PROVE  proc' \in Proc /\ proc'.pc \notin {"open", "body"}
<1>1. CASE proc.try < Tries
  <2>1. proc.try + 1 \in 1..Tries /\ "none" \in Checksum
    BY <1>1, TriesAssumption DEF Proc, Checksum
  <2>2. proc' = [proc EXCEPT !.pc = "get", !.try = proc.try + 1, !.have = 0,
                             !.status = 0, !.from = "none", !.gone = FALSE]
    BY <1>1 DEF NextTry
  <2> QED
    BY <2>1, <2>2 DEF Proc
<1>2. CASE ~(proc.try < Tries)
  BY <1>2, EmptyTypes DEF NextTry
<1> QED
  BY <1>1, <1>2

LEMMA TypeStep == TypeOK /\ [Next]_vars => TypeOK'
<1> SUFFICES ASSUME TypeOK, [Next]_vars PROVE TypeOK'
  OBVIOUS
<1>t. /\ proc \in Proc /\ part \in File /\ file \in File
      /\ server.file \in Versions /\ server.sum \in Checksum
      /\ Size[server.file] \in Nat
  BY SizeAssumption DEF TypeOK
<1>r. TypeOK' <=> /\ kind' \in Kinds /\ server' \in [file : Versions, sum : Checksum]
                  /\ part' \in File /\ file' \in File /\ proc' \in Proc
                  /\ proc'.pc \in {"open", "body"} => proc'.from \in Versions
                  /\ calm' \in BOOLEAN /\ mixed' \in BOOLEAN
  BY DEF TypeOK
<1>1. CASE UNCHANGED vars
  BY <1>1 DEF vars, TypeOK
<1>2. CASE Start
  <2>1. CASE kind = "layer"
    <3> DEFINE pc == IF file = [there |-> TRUE, bytes |-> Image(server.sum)]
                     THEN "unpack" ELSE "get"
    <3>1. proc' = [NoProc EXCEPT !.size = Size[server.file], !.sha = server.sum,
                                 !.pc = pc]
      BY <1>2, <2>1 DEF Start
    <3>2. pc \in {"unpack", "get"}
      OBVIOUS
    <3> HIDE DEF pc
    <3>3. proc' \in Proc /\ proc'.pc \notin {"open", "body"}
      BY <3>1, <3>2, <1>t, EmptyTypes DEF Proc
    <3> QED
      BY <1>2, <3>3, <1>r DEF Start, TypeOK
  <2>2. CASE kind # "layer"
    <3>1. \E pc \in {"resolve", "head", "sum"} : proc' = [proc EXCEPT !.pc = pc]
      BY <1>2, <2>2 DEF Start, Goto, Kinds, TypeOK
    <3>2. proc' \in Proc /\ proc'.pc \notin {"open", "body"}
      BY <3>1, <1>t DEF Proc
    <3> QED
      BY <1>2, <3>2, <1>r DEF Start, TypeOK
  <2> QED
    BY <2>1, <2>2
<1>3. CASE Resolve \/ GetSum \/ NoSum
  <2>1. \/ proc' = NoProc
        \/ \E pc \in {"head", "get"}, sha \in Checksum :
              proc' = [proc EXCEPT !.pc = pc, !.sha = sha]
        \/ proc' = [proc EXCEPT !.pc = "get"]
    BY <1>3, <1>t DEF Resolve, GetSum, NoSum, Goto
  <2>2. ASSUME NEW pc \in {"head", "get"}, NEW sha \in Checksum,
               proc' = [proc EXCEPT !.pc = pc, !.sha = sha]
        PROVE  proc' \in Proc /\ proc'.pc \notin {"open", "body"}
    BY <2>2, <1>t DEF Proc
  <2>3. ASSUME proc' = [proc EXCEPT !.pc = "get"]
        PROVE  proc' \in Proc /\ proc'.pc \notin {"open", "body"}
    BY <2>3, <1>t DEF Proc
  <2>4. proc' \in Proc /\ proc'.pc \notin {"open", "body"}
    BY <2>1, <2>2, <2>3, EmptyTypes
  <2> QED
    BY <1>3, <2>4, <1>r DEF Resolve, GetSum, NoSum, TypeOK
<1>4. CASE HeadSize
  <2>1. proc.sha # "none" => Size[proc.sha] \in Nat
    BY <1>t, SizeAssumption DEF Proc, Checksum
  <2>2. PICK size \in Nat, pc \in {"sum", "get"} :
              proc' = [proc EXCEPT !.size = size, !.pc = pc]
    BY <1>4, <1>t, <2>1 DEF HeadSize
  <2>3. proc' \in Proc /\ proc'.pc \notin {"open", "body"}
    BY <2>2, <1>t DEF Proc
  <2> QED
    BY <1>4, <2>3, <1>r DEF HeadSize, TypeOK
<1>5. CASE Stat
  <2>1. Len(part.bytes) \in Nat
    BY <1>t DEF File
  <2>2. PICK have \in Nat, pc \in {"hash", "request"} :
              proc' = [proc EXCEPT !.have = have, !.pc = pc]
    BY <1>5, <2>1 DEF Stat
  <2>3. proc' \in Proc /\ proc'.pc \notin {"open", "body"}
    BY <2>2, <1>t DEF Proc
  <2> QED
    BY <1>5, <2>3, <1>r, EmptyTypes DEF Stat, TypeOK
<1>6. CASE Request
  <2>1. CASE Goto("hash")
    <3>1. proc' \in Proc /\ proc'.pc = "hash"
      BY <1>t, <2>1 DEF Goto, Proc
    <3> QED
      BY <1>6, <3>1, <1>r DEF Request, TypeOK
  <2>2. CASE ~Goto("hash")
    <3>1. PICK status \in {200, 206}, have \in Nat :
             proc' = [proc EXCEPT !.pc = "open", !.status = status, !.from = server.file,
                                  !.have = have]
      <4>1. proc.have \in Nat /\ proc = [proc EXCEPT !.have = proc.have]
        BY <1>t DEF Proc
      <4>2. [proc EXCEPT !.pc = "open", !.status = 206, !.from = server.file]
              = [proc EXCEPT !.pc = "open", !.status = 206, !.from = server.file,
                             !.have = proc.have]
        BY <1>t DEF Proc
      <4> QED
        BY <1>6, <2>2, <4>1, <4>2 DEF Request
    <3>2. server.file \in Checksum
      BY <1>t DEF Checksum
    <3>3. proc' \in Proc
      BY <3>1, <3>2, <1>t DEF Proc
    <3>4. proc'.from = server.file
      BY <3>1, <1>t DEF Proc
    <3> QED
      BY <1>6, <3>3, <3>4, <1>t, <1>r DEF Request, TypeOK
  <2> QED
    BY <2>1, <2>2
<1>7. CASE Open
  <2>1. proc' \in Proc /\ proc'.from = proc.from
    BY <1>7, <1>t DEF Open, Goto, Proc
  <2>2. part' \in File
    BY <1>7, <1>t DEF Open, File
  <2> QED
    BY <1>7, <2>1, <2>2, <1>r DEF Open, TypeOK
<1>8. CASE Write
  <2> DEFINE chunk == <<proc.from, proc.have + 1>>
  <2>1. chunk \in Chunk
    BY <1>8, <1>t DEF Write, Proc, Chunk, TypeOK
  <2>2. part' = part \/ part' = [part EXCEPT !.bytes = Append(part.bytes, chunk)]
    BY <1>8 DEF Write
  <2> HIDE DEF chunk
  <2>3. Append(part.bytes, chunk) \in Seq(Chunk)
    BY <2>1, <1>t DEF File
  <2>4. part' \in File
    BY <2>2, <2>3, <1>t DEF File
  <2>5. proc.have + 1 \in Nat
    BY <1>t DEF Proc
  <2>6. proc' \in Proc /\ proc'.from = proc.from /\ proc'.pc = proc.pc
    BY <1>8, <2>5, <1>t DEF Write, Proc
  <2> QED
    BY <1>8, <2>4, <2>6, <1>r DEF Write, TypeOK
<1>9. CASE End
  <2>1. CASE NextTry
    BY <1>9, <2>1, <1>t, <1>r, NextTryType DEF End, TypeOK
  <2>2. CASE proc' = [proc EXCEPT !.pc = "hash", !.status = 0, !.from = "none",
                                  !.gone = FALSE]
    <3>1. proc' \in Proc /\ proc'.pc = "hash"
      BY <2>2, <1>t DEF Proc, Checksum
    <3> QED
      BY <1>9, <3>1, <1>r DEF End, TypeOK
  <2> QED
    BY <1>9, <2>1, <2>2 DEF End
<1>10. CASE Break
  BY <1>10, <1>t, <1>r, NextTryType DEF Break, TypeOK
<1>11. CASE Hash
  <2> DEFINE sum == proc.sha # "none" /\ part.bytes = Image(proc.sha)
  <2>1. \/ proc' = NoProc
        \/ proc' = [proc EXCEPT !.pc = "check", !.have = 0, !.sum = TRUE]
        \/ proc' = [proc EXCEPT !.pc = "check", !.have = 0, !.sum = FALSE]
    <3>1. sum = TRUE \/ sum = FALSE
      OBVIOUS
    <3>2. proc' = NoProc \/ proc' = [proc EXCEPT !.pc = "check", !.have = 0, !.sum = sum]
      BY <1>11 DEF Hash
    <3> HIDE DEF sum
    <3> QED
      BY <3>1, <3>2
  <2>2. CASE proc' = NoProc
    BY <1>11, <2>2, <1>r, EmptyTypes DEF Hash, TypeOK
  <2>3. ASSUME NEW sum1 \in BOOLEAN,
               proc' = [proc EXCEPT !.pc = "check", !.have = 0, !.sum = sum1]
        PROVE  proc' \in Proc /\ proc'.pc \notin {"open", "body"}
    BY <2>3, <1>t DEF Proc
  <2> QED
    BY <1>11, <2>1, <2>2, <2>3, <1>r DEF Hash, TypeOK
<1>12. CASE Check \/ Rename \/ Unpack \/ Kill
  <2>1. proc' = NoProc \/ \E pc \in {"rename", "unpack"} : proc' = [proc EXCEPT !.pc = pc]
    BY <1>12 DEF Check, Rename, Unpack, Kill, Goto
  <2>2. proc' \in Proc /\ proc'.pc \notin {"open", "body"}
    BY <2>1, <1>t, EmptyTypes DEF Proc
  <2> QED
    BY <1>12, <2>2, <1>r, EmptyTypes DEF Check, Rename, Unpack, Kill, TypeOK
<1>13. CASE Publish \/ CalmDown
  BY <1>13, <1>t DEF Publish, CalmDown, TypeOK
<1>14. CASE Clean
  <2>1. \E gone \in BOOLEAN : proc' = [proc EXCEPT !.gone = gone]
    BY <1>14, <1>t DEF Clean, Proc
  <2>2. proc' \in Proc /\ proc'.pc = proc.pc /\ proc'.from = proc.from
    BY <2>1, <1>t DEF Proc
  <2> QED
    BY <1>14, <2>2, <1>r, EmptyTypes DEF Clean, TypeOK
<1> QED
  BY <1>1, <1>2, <1>3, <1>4, <1>5, <1>6, <1>7, <1>8, <1>9, <1>10, <1>11,
     <1>12, <1>13, <1>14 DEF Next, Run

\* Every value of every variable stays in its set: in particular the attempt
\* counter, and that a .part only ever holds chunks of images.
THEOREM TypeCorrect == Spec => []TypeOK
<1>1. Init => TypeOK
  BY EmptyTypes DEF Init, TypeOK
<1> QED
  BY <1>1, TypeStep, PTL DEF Spec

-----------------------------------------------------------------------------
(* What each step does to the fields of proc.                              *)

LEMMA GotoFields ==
    ASSUME proc \in Proc, NEW pc, Goto(pc)
    PROVE  /\ proc'.pc = pc /\ proc'.size = proc.size /\ proc'.sha = proc.sha
           /\ proc'.have = proc.have /\ proc'.status = proc.status
           /\ proc'.from = proc.from /\ proc'.gone = proc.gone /\ proc'.sum = proc.sum
  BY DEF Goto, Proc

LEMMA NoProcFields ==
    /\ NoProc.pc = "idle" /\ NoProc.size = 0 /\ NoProc.sha = "none" /\ ~NoProc.gone
  BY DEF NoProc

LEMMA StartFields ==
    ASSUME TypeOK, Rest, Start
    PROVE  /\ ~proc'.gone
           /\ \/ /\ kind = "layer" /\ proc'.sha = server.sum
                 /\ proc'.size = Size[server.file]
                 /\ \/ proc'.pc = "get"
                    \/ proc'.pc = "unpack" /\ file.bytes = Image(server.sum)
              \/ /\ proc'.pc \in {"resolve", "head", "sum"}
                 /\ proc'.sha = "none" /\ proc'.size = 0
<1>1. proc = NoProc /\ proc \in Proc
  BY DEF Start, Busy, Rest, TypeOK
<1>2. CASE kind = "layer"
  <2> DEFINE pc == IF file = [there |-> TRUE, bytes |-> Image(server.sum)]
                   THEN "unpack" ELSE "get"
  <2>1. proc' = [NoProc EXCEPT !.size = Size[server.file], !.sha = server.sum, !.pc = pc]
    BY <1>2 DEF Start
  <2>2. pc = "get" \/ (pc = "unpack" /\ file.bytes = Image(server.sum))
    OBVIOUS
  <2> HIDE DEF pc
  <2>3. /\ proc'.pc = pc /\ proc'.sha = server.sum /\ proc'.size = Size[server.file]
        /\ ~proc'.gone
    BY <2>1 DEF NoProc
  <2> QED
    BY <1>2, <2>2, <2>3
<1>3. CASE kind # "layer"
  <2>1. \E pc \in {"resolve", "head", "sum"} : Goto(pc)
    BY <1>3 DEF Start, Kinds, TypeOK
  <2> QED
    BY <1>1, <2>1, GotoFields, NoProcFields
<1> QED
  BY <1>2, <1>3

Find == Resolve \/ HeadSize \/ GetSum \/ NoSum

LEMMA FindFields ==
    ASSUME TypeOK, Rest, Find
    PROVE  /\ UNCHANGED <<kind, server, part, file, calm, mixed>>
           /\ proc.pc \in {"resolve", "head", "sum"}
           /\ \/ proc' = NoProc
              \/ /\ proc'.pc \in {"head", "sum", "get"} /\ proc'.gone = proc.gone
                 /\ proc'.sha = "none" =>
                      proc.sha = "none" /\ proc'.size \in {proc.size, 0, Size[server.file]}
                 /\ proc'.pc = "sum" => proc'.sha = "none"
<1>t. proc \in Proc
  BY DEF TypeOK
<1>1. CASE Resolve
  BY <1>1, <1>t DEF Resolve, Proc, Rest
<1>2. CASE HeadSize
  <2>1. PICK size :
          /\ proc.sha = "none" => size \in {0, Size[server.file]}
          /\ proc' = [proc EXCEPT !.size = size,
                                  !.pc = IF proc.sha = "none" THEN "sum" ELSE "get"]
    BY <1>2 DEF HeadSize
  <2>2. /\ proc'.size = size /\ proc'.sha = proc.sha /\ proc'.gone = proc.gone
        /\ proc'.pc \in {"sum", "get"} /\ (proc'.pc = "sum" => proc.sha = "none")
    BY <2>1, <1>t DEF Proc
  <2> QED
    BY <1>2, <2>1, <2>2 DEF HeadSize
<1>3. CASE GetSum
  BY <1>3, <1>t DEF GetSum, Proc, Rest
<1>4. CASE NoSum
  BY <1>4, <1>t, GotoFields DEF NoSum, Rest
<1> QED
  BY <1>1, <1>2, <1>3, <1>4 DEF Find

LEMMA StatFields ==
    ASSUME TypeOK, Stat
    PROVE  /\ UNCHANGED <<kind, server, file, calm, mixed>>
           /\ proc.pc = "get" /\ proc'.pc \in {"hash", "request"}
           /\ proc'.size = proc.size /\ proc'.sha = proc.sha /\ proc'.gone = proc.gone
           /\ \/ /\ part' = part /\ proc'.have = Len(part.bytes)
                 /\ proc'.pc = "hash" => proc.size > 0 /\ Len(part.bytes) = proc.size
              \/ /\ part' = NoFile /\ proc'.have = 0 /\ proc'.pc = "request"
                 /\ proc.size > 0 /\ Len(part.bytes) > proc.size
<1>1. proc \in Proc /\ part \in File /\ Len(part.bytes) \in Nat /\ proc.size \in Nat
  BY DEF TypeOK, File, Proc
<1> DEFINE long == proc.size > 0 /\ Len(part.bytes) > proc.size
           have == IF long THEN 0 ELSE Len(part.bytes)
           pc == IF proc.size > 0 /\ Len(part.bytes) = proc.size THEN "hash" ELSE "request"
<1>2. proc' = [proc EXCEPT !.have = have, !.pc = pc] /\ part' = IF long THEN NoFile ELSE part
  BY DEF Stat
<1>3. long => pc = "request"
  BY <1>1
<1>4. pc = "hash" => proc.size > 0 /\ Len(part.bytes) = proc.size
  OBVIOUS
<1>5. pc \in {"hash", "request"}
  OBVIOUS
<1> HIDE DEF pc
<1>6. /\ proc'.have = have /\ proc'.pc = pc
      /\ proc'.size = proc.size /\ proc'.sha = proc.sha /\ proc'.gone = proc.gone
  BY <1>1, <1>2 DEF Proc
<1> QED
  BY <1>2, <1>3, <1>4, <1>5, <1>6 DEF Stat

LEMMA RequestFields ==
    ASSUME TypeOK, Request
    PROVE  /\ UNCHANGED <<kind, server, part, file, calm, mixed>>
           /\ proc.pc = "request"
           /\ proc'.size = proc.size /\ proc'.sha = proc.sha /\ proc'.gone = proc.gone
           /\ \/ /\ proc'.pc = "open" /\ proc'.status = 206
                 /\ proc'.from = server.file /\ proc'.have = proc.have
              \/ proc'.pc = "hash" /\ proc.have >= Size[server.file]
              \/ /\ proc'.pc = "open" /\ proc'.status = 200
                 /\ proc'.from = server.file /\ proc'.have = 0
<1>1. proc \in Proc /\ proc.have \in Nat /\ Size[server.file] \in Nat
  BY SizeAssumption DEF TypeOK, Proc
<1>2. CASE proc' = [proc EXCEPT !.pc = "open", !.status = 206, !.from = server.file]
  BY <1>1, <1>2 DEF Request, Proc
<1>3. CASE ~(proc.have < Size[server.file]) /\ Goto("hash")
  BY <1>1, <1>3, GotoFields DEF Request
<1>4. CASE proc' = [proc EXCEPT !.pc = "open", !.status = 200, !.from = server.file,
                                !.have = 0]
  BY <1>1, <1>4 DEF Request, Proc
<1> QED
  BY <1>2, <1>3, <1>4 DEF Request

LEMMA WriteFields ==
    ASSUME TypeOK, Write
    PROVE  /\ proc'.pc = "body" /\ proc'.have = proc.have + 1 /\ proc'.from = proc.from
           /\ proc'.size = proc.size /\ proc'.sha = proc.sha /\ proc'.gone = proc.gone
  BY DEF Write, TypeOK, Proc

LEMMA NextTryFields ==
    ASSUME TypeOK, NextTry
    PROVE  \/ proc' = NoProc
           \/ /\ proc'.pc = "get" /\ ~proc'.gone
              /\ proc'.size = proc.size /\ proc'.sha = proc.sha
<1>1. CASE proc.try < Tries
  BY <1>1 DEF NextTry, TypeOK, Proc
<1>2. CASE ~(proc.try < Tries)
  BY <1>2 DEF NextTry
<1> QED
  BY <1>1, <1>2

LEMMA EndFields ==
    ASSUME TypeOK, End
    PROVE  /\ UNCHANGED <<kind, server, part, file, calm, mixed>>
           /\ proc.pc = "body" /\ proc.have = Size[proc.from]
           /\ \/ proc' = NoProc
              \/ /\ proc'.pc \in {"get", "hash"} /\ ~proc'.gone
                 /\ proc'.size = proc.size /\ proc'.sha = proc.sha
<1>1. CASE NextTry
  BY <1>1, NextTryFields DEF End
<1>2. CASE proc' = [proc EXCEPT !.pc = "hash", !.status = 0, !.from = "none",
                                !.gone = FALSE]
  BY <1>2 DEF End, TypeOK, Proc
<1> QED
  BY <1>1, <1>2 DEF End

LEMMA HashFields ==
    ASSUME TypeOK, Hash
    PROVE  /\ UNCHANGED <<kind, server, part, file, calm, mixed>>
           /\ proc.pc = "hash"
           /\ \/ proc' = NoProc
              \/ /\ proc'.pc = "check" /\ part.there
                 /\ proc'.size = proc.size /\ proc'.sha = proc.sha /\ proc'.gone = proc.gone
                 /\ proc'.sum <=> proc.sha # "none" /\ part.bytes = Image(proc.sha)
<1>1. CASE ~part.there
  BY <1>1 DEF Hash
<1>2. CASE part.there
  <2> DEFINE sum == proc.sha # "none" /\ part.bytes = Image(proc.sha)
  <2>1. proc' = [proc EXCEPT !.pc = "check", !.have = 0, !.sum = sum]
    BY <1>2 DEF Hash
  <2> HIDE DEF sum
  <2>2. /\ proc'.pc = "check" /\ proc'.size = proc.size /\ proc'.sha = proc.sha
        /\ proc'.gone = proc.gone /\ proc'.sum = sum
    BY <2>1 DEF TypeOK, Proc
  <2> QED
    BY <1>2, <2>2 DEF Hash, sum
<1> QED
  BY <1>1, <1>2

LEMMA CleanFields ==
    ASSUME TypeOK, Clean
    PROVE  /\ proc'.pc = proc.pc /\ proc'.size = proc.size /\ proc'.sha = proc.sha
           /\ proc'.sum = proc.sum
           /\ proc.pc # "body" => proc' = proc
           /\ proc'.gone <=> proc.gone \/ (proc.pc = "body" /\ part.there /\ ~part'.there)
<1> DEFINE gone == proc.gone \/ (proc.pc = "body" /\ part.there /\ ~part'.there)
<1>1. proc' = [proc EXCEPT !.gone = gone] /\ proc.gone \in BOOLEAN
  BY DEF Clean, TypeOK, Proc
<1>2. proc.pc # "body" => gone = proc.gone
  BY <1>1
<1> HIDE DEF gone
<1>3. /\ proc'.pc = proc.pc /\ proc'.size = proc.size /\ proc'.sha = proc.sha
      /\ proc'.sum = proc.sum /\ proc'.gone = gone
      /\ gone = proc.gone => proc' = proc
  BY <1>1 DEF TypeOK, Proc
<1> QED
  BY <1>2, <1>3 DEF gone

-----------------------------------------------------------------------------
(* The invariant is inductive.                                             *)

LEMMA InitInv == Init => IInv
<1> SUFFICES ASSUME Init PROVE IInv
  OBVIOUS
<1>1. TypeOK
  BY EmptyTypes DEF Init, TypeOK
<1>2. Opened /\ Rest /\ SumIsTrue
  BY DEF Init, Opened, Rest, SumIsTrue, NoFile, NoProc
<1>3. Unmixed
  <2>1. Len(part.bytes) = 0 /\ Size[server.file] \in Nat
    BY <1>1, SizeAssumption DEF Init, NoFile, TypeOK
  <2> QED
    BY <2>1 DEF Init, Unmixed, Beginning, Continues, Complete, NoProc, NoFile
<1> QED
  BY <1>1, <1>2, <1>3 DEF IInv

LEMMA OpenedStep == IInv /\ Next => Opened'
<1> SUFFICES ASSUME IInv, Next PROVE Opened'
  OBVIOUS
<1>t. TypeOK /\ Opened /\ Rest /\ proc \in Proc /\ part \in File
  BY DEF IInv, TypeOK
<1>1. CASE Start
  BY <1>1, <1>t, StartFields DEF Start, Opened
<1>2. CASE Find
  BY <1>2, <1>t, FindFields, NoProcFields DEF Opened
<1>3. CASE Stat
  BY <1>3, <1>t, StatFields DEF Opened, NoFile
<1>4. CASE Request
  BY <1>4, <1>t, RequestFields DEF Opened
<1>5. CASE Open
  <2>1. part'.there /\ (~part'.there => part'.bytes = <<>>)
    BY <1>5 DEF Open
  <2>2. proc'.pc = "body"
    BY <1>5, <1>t, GotoFields DEF Open
  <2> QED
    BY <2>1, <2>2 DEF Opened
<1>6. CASE Write
  <2>1. proc.pc = "body" /\ (proc.gone \/ part.there)
    BY <1>6, <1>t DEF Write, Opened
  <2>2. part' = part \/ (~proc.gone /\ part'.there = part.there)
    BY <1>6, <1>t DEF Write, File
  <2> QED
    BY <1>6, <1>t, <2>1, <2>2, WriteFields DEF Opened
<1>7. CASE End
  BY <1>7, <1>t, EndFields, NoProcFields DEF Opened
<1>8. CASE Break
  BY <1>8, <1>t, NextTryFields, NoProcFields DEF Break, Opened
<1>9. CASE Hash
  BY <1>9, <1>t, HashFields, NoProcFields DEF Opened
<1>10. CASE Check \/ Rename \/ Unpack \/ Kill
  <2>1. proc' = NoProc \/ Goto("rename") \/ Goto("unpack")
    BY <1>10 DEF Check, Rename, Unpack, Kill
  <2>2. part' = part \/ part' = NoFile
    BY <1>10 DEF Check, Rename, Unpack, Kill
  <2>3. proc.pc # "body" \/ Kill
    BY <1>10 DEF Check, Rename, Unpack
  <2>4. ~proc'.gone /\ proc'.pc # "body"
    BY <1>t, <2>1, <2>3, GotoFields, NoProcFields DEF Opened, Kill
  <2> QED
    BY <1>t, <2>2, <2>4 DEF Opened, NoFile
<1>11. CASE Publish \/ CalmDown
  BY <1>11, <1>t DEF Publish, CalmDown, Opened
<1>12. CASE Clean
  BY <1>12, <1>t, CleanFields DEF Clean, Opened, NoFile
<1> QED
  BY <1>1, <1>2, <1>3, <1>4, <1>5, <1>6, <1>7, <1>8, <1>9, <1>10, <1>11, <1>12
  DEF Next, Run, Find

LEMMA RestStep == IInv /\ Next => Rest'
<1> SUFFICES ASSUME IInv, Next PROVE Rest'
  OBVIOUS
<1>t. TypeOK /\ Rest /\ proc \in Proc
  BY DEF IInv, TypeOK
<1>1. CASE Start
  BY <1>1, <1>t, StartFields DEF Rest
<1>2. CASE Find \/ Stat \/ Request \/ Write \/ End \/ Hash
  BY <1>2, <1>t, FindFields, StatFields, RequestFields, WriteFields, EndFields, HashFields,
     NoProcFields DEF Rest
<1>3. CASE Open
  BY <1>3, <1>t, GotoFields DEF Open, Rest
<1>4. CASE Break
  BY <1>4, <1>t, NextTryFields, NoProcFields DEF Break, Rest
<1>5. CASE Check \/ Rename \/ Unpack \/ Kill
  <2>1. proc' = NoProc \/ Goto("rename") \/ Goto("unpack")
    BY <1>5 DEF Check, Rename, Unpack, Kill
  <2> QED
    BY <1>t, <2>1, GotoFields, NoProcFields DEF Rest
<1>6. CASE Publish \/ CalmDown
  BY <1>6, <1>t DEF Publish, CalmDown, Rest
<1>7. CASE Clean
  BY <1>7, <1>t, CleanFields DEF Rest
<1> QED
  BY <1>1, <1>2, <1>3, <1>4, <1>5, <1>6, <1>7 DEF Next, Run, Find

LEMMA SumStep == IInv /\ Next => SumIsTrue'
<1> SUFFICES ASSUME IInv, Next PROVE SumIsTrue'
  OBVIOUS
<1>t. TypeOK /\ Rest /\ SumIsTrue /\ proc \in Proc /\ part \in File /\ file \in File
  BY DEF IInv, TypeOK
<1>1. CASE Start
  BY <1>1, <1>t, StartFields DEF Start, SumIsTrue
<1>2. CASE Find
  BY <1>2, <1>t, FindFields, NoProcFields DEF SumIsTrue
<1>3. CASE Stat
  BY <1>3, <1>t, StatFields DEF SumIsTrue
<1>4. CASE Request
  BY <1>4, <1>t, RequestFields DEF SumIsTrue
<1>5. CASE Open
  BY <1>5, <1>t, GotoFields DEF Open, SumIsTrue
<1>6. CASE Write
  BY <1>6, <1>t, WriteFields DEF Write, SumIsTrue
<1>7. CASE End
  BY <1>7, <1>t, EndFields, NoProcFields DEF SumIsTrue
<1>8. CASE Break
  BY <1>8, <1>t, NextTryFields, NoProcFields DEF Break, SumIsTrue
<1>9. CASE Hash
  BY <1>9, <1>t, HashFields, NoProcFields DEF SumIsTrue
<1>10. CASE Check
  <2>1. CASE proc.sha # "none" /\ ~proc.sum
    BY <1>10, <2>1, <1>t, NoProcFields DEF Check, SumIsTrue
  <2>2. CASE ~(proc.sha # "none" /\ ~proc.sum)
    <3>1. UNCHANGED <<kind, server, part, file>> /\ Goto("rename")
      BY <1>10, <2>2 DEF Check
    <3> QED
      BY <1>10, <2>2, <3>1, <1>t, GotoFields DEF Check, SumIsTrue
  <2> QED
    BY <2>1, <2>2
<1>11. CASE Rename
  <2>1. CASE part.there
    BY <1>11, <2>1, <1>t, GotoFields DEF Rename, SumIsTrue
  <2>2. CASE ~part.there
    BY <1>11, <2>2, <1>t, NoProcFields DEF Rename, SumIsTrue
  <2> QED
    BY <2>1, <2>2
<1>12. CASE Unpack \/ Kill
  BY <1>12, <1>t, NoProcFields DEF Unpack, Kill, SumIsTrue
<1>13. CASE Publish \/ CalmDown
  BY <1>13, <1>t DEF Publish, CalmDown, SumIsTrue
<1>14. CASE Clean
  BY <1>14, <1>t, CleanFields DEF Clean, SumIsTrue, NoFile
<1> QED
  BY <1>1, <1>2, <1>3, <1>4, <1>5, <1>6, <1>7, <1>8, <1>9, <1>10, <1>11, <1>12,
     <1>13, <1>14 DEF Next, Run, Find

\* A beginning of full length is the image.
LEMMA Whole ==
    ASSUME part \in File, Size[server.file] \in Nat, Beginning,
           Len(part.bytes) = Size[server.file]
    PROVE  part.bytes = Image(server.file)
<1>1. part.bytes \in Seq(Chunk)
  BY DEF File
<1>2. part.bytes = [i \in 1..Len(part.bytes) |-> part.bytes[i]]
  BY <1>1
<1>3. \A i \in 1..Len(part.bytes) : part.bytes[i] = <<server.file, i>>
  BY DEF Beginning
<1>4. part.bytes = [i \in 1..Size[server.file] |-> <<server.file, i>>]
  BY <1>2, <1>3
<1> QED
  BY <1>4 DEF Image

LEMMA UnmixedStep == IInv /\ Next => Unmixed'
<1> SUFFICES ASSUME IInv, Next, ~mixed' PROVE Beginning' /\ Continues' /\ Complete'
  BY DEF Unmixed
<1>t. /\ TypeOK /\ Opened /\ Rest /\ SumIsTrue
      /\ proc \in Proc /\ part \in File /\ file \in File
      /\ Len(part.bytes) \in Nat /\ Size[server.file] \in Nat \ {0}
      /\ server.file \in Versions /\ server.file # "none"
  BY SizeAssumption, VersionsAssumption DEF IInv, TypeOK, File
<1>m. ~mixed => Beginning /\ Continues /\ Complete
  BY DEF IInv, Unmixed
<1>1. CASE Start
  <2>1. UNCHANGED <<kind, server, part, file>> /\ (part.there => ~mixed)
    BY <1>1 DEF Start
  <2>2. Beginning
    <3>1. CASE part.there
      BY <1>m, <2>1, <3>1
    <3>2. CASE ~part.there
      <4>1. part.bytes = <<>>
        BY <1>t, <3>2 DEF Opened
      <4>2. Len(part.bytes) = 0
        BY <4>1
      <4> QED
        BY <1>t, <4>2 DEF Beginning
    <3> QED
      BY <3>1, <3>2
  <2>3. Beginning'
    BY <2>1, <2>2 DEF Beginning
  <2>4. /\ proc'.pc \in {"get", "unpack", "resolve", "head", "sum"}
        /\ proc'.sha = "none" => proc'.size = 0 /\ proc'.pc # "unpack"
    BY <1>1, <1>t, StartFields DEF SumIsTrue
  <2>5. Continues' /\ Complete'
    BY <2>4 DEF Continues, Complete
  <2> QED
    BY <2>3, <2>5
<1>2. CASE Find
  <2>1. /\ UNCHANGED <<server, part, file, mixed>>
        /\ proc'.pc \in {"idle", "head", "sum", "get"}
    BY <1>2, <1>t, FindFields, NoProcFields
  <2>2. Beginning' /\ Continues'
    BY <1>m, <2>1 DEF Beginning, Continues
  <2>3. proc'.sha = "none" => proc'.size \in {0, Size[server.file]}
    BY <1>2, <1>t, <1>m, <2>1, FindFields, NoProcFields DEF Complete
  <2> QED
    BY <2>1, <2>2, <2>3 DEF Complete
<1>3. CASE Stat
  <2>1. UNCHANGED <<server, file, mixed>>
    BY <1>3 DEF Stat
  <2>2. Beginning /\ Continues /\ Complete
    BY <1>m, <2>1
  <2>3. Beginning'
    <3>1. CASE part' = part
      BY <2>1, <2>2, <3>1 DEF Beginning
    <3>2. CASE part' = NoFile
      <4>1. Len(part'.bytes) = 0
        BY <3>2 DEF NoFile
      <4> QED
        BY <1>t, <2>1, <4>1 DEF Beginning
    <3> QED
      BY <1>3, <1>t, <3>1, <3>2, StatFields
  <2>4. Continues'
    <3>1. proc'.pc \in {"hash", "request"}
      BY <1>3, <1>t, StatFields
    <3>2. proc'.have = Len(part'.bytes)
      BY <1>3, <1>t, StatFields DEF NoFile
    <3> QED
      BY <3>1, <3>2 DEF Continues
  <2>5. proc'.pc = "hash" /\ Fits' => part'.bytes = Image(server'.file)
    <3> SUFFICES ASSUME proc'.pc = "hash", Fits' PROVE part'.bytes = Image(server'.file)
      OBVIOUS
    <3>1. part' = part /\ Len(part.bytes) = Size[server.file]
      BY <1>3, <1>t, <2>1, StatFields DEF Fits
    <3> QED
      BY <1>t, <2>1, <2>2, <3>1, Whole DEF Image
  <2>6. proc'.sha = "none" => proc'.size \in {0, Size[server'.file]}
    BY <1>3, <1>t, <2>1, <2>2, StatFields DEF Complete
  <2>7. proc'.pc \in {"hash", "request"}
    BY <1>3, <1>t, StatFields
  <2> QED
    BY <2>3, <2>4, <2>5, <2>6, <2>7 DEF Complete
<1>4. CASE Request
  <2>1. UNCHANGED <<server, part, file, mixed>> /\ proc.pc = "request"
    BY <1>4 DEF Request
  <2>2. Beginning /\ Continues /\ Complete
    BY <1>m, <2>1
  <2>3. Beginning'
    BY <2>1, <2>2 DEF Beginning
  <2>4. Continues'
    BY <1>4, <1>t, <2>1, <2>2, RequestFields DEF Continues
  <2>5. proc'.pc = "hash" => part'.bytes = Image(server'.file)
    <3> SUFFICES ASSUME proc'.pc = "hash" PROVE part'.bytes = Image(server'.file)
      OBVIOUS
    <3>1. Len(part.bytes) = Size[server.file]
      BY <1>4, <1>t, <2>1, <2>2, RequestFields DEF Continues, Beginning
    <3> QED
      BY <1>t, <2>1, <2>2, <3>1, Whole DEF Image
  <2>6. proc'.sha = "none" => proc'.size \in {0, Size[server'.file]}
    BY <1>4, <1>t, <2>1, <2>2, RequestFields DEF Complete
  <2>7. proc'.pc \in {"hash", "open"}
    BY <1>4, <1>t, RequestFields
  <2> QED
    BY <2>3, <2>4, <2>5, <2>6, <2>7 DEF Complete
<1>5. CASE Open
  <2>1. UNCHANGED <<server, file, mixed>> /\ proc.pc = "open" /\ part'.there
    BY <1>5 DEF Open
  <2>2. Beginning /\ Continues /\ Complete
    BY <1>m, <2>1
  <2>3. /\ proc'.pc = "body" /\ proc'.have = proc.have /\ proc'.from = server.file
        /\ proc'.sha = proc.sha /\ proc'.size = proc.size /\ ~proc'.gone
    BY <1>5, <1>t, <2>1, <2>2, GotoFields DEF Open, Continues, Opened
  <2>4. Beginning' /\ proc.have = Len(part'.bytes)
    <3>1. CASE proc.status = 206
      <4>1. part'.bytes = part.bytes
        BY <1>5, <3>1 DEF Open
      <4> QED
        BY <2>1, <2>2, <3>1, <4>1 DEF Beginning, Continues
    <3>2. CASE proc.status # 206
      <4>1. Len(part'.bytes) = 0
        BY <1>5, <3>2 DEF Open
      <4> QED
        BY <1>t, <2>1, <2>2, <3>2, <4>1 DEF Beginning, Continues
    <3> QED
      BY <3>1, <3>2
  <2> QED
    BY <2>1, <2>2, <2>3, <2>4 DEF Continues, Complete
<1>6. CASE Write
  <2>1. UNCHANGED <<server, file, mixed>> /\ proc.pc = "body" /\ proc.have < Size[proc.from]
    BY <1>6 DEF Write
  <2>2. Beginning /\ Continues /\ Complete
    BY <1>m, <2>1
  <2>3. /\ proc.from = server.file /\ proc.have = Len(part.bytes)
        /\ ~proc.gone /\ part.there
    BY <2>1, <2>2 DEF Continues
  <2>4. part'.there /\ part'.bytes = Append(part.bytes, <<server.file, Len(part.bytes) + 1>>)
    BY <1>6, <1>t, <2>3 DEF Write, File
  <2>5. /\ Len(part'.bytes) = Len(part.bytes) + 1
        /\ \A i \in 1..Len(part.bytes) : part'.bytes[i] = part.bytes[i]
        /\ part'.bytes[Len(part.bytes) + 1] = <<server.file, Len(part.bytes) + 1>>
    BY <1>t, <2>4 DEF File
  <2>6. Beginning'
    <3>1. Len(part.bytes) \in Nat /\ Size[server.file] \in Nat
      BY <1>t
    <3>2. Len(part'.bytes) <= Size[server'.file]
      BY <2>1, <2>3, <2>5, <3>1
    <3>3. ASSUME NEW i \in 1..Len(part'.bytes) PROVE part'.bytes[i] = <<server'.file, i>>
      <4>1. CASE i = Len(part.bytes) + 1
        BY <2>1, <2>5, <4>1
      <4>2. CASE i # Len(part.bytes) + 1
        <5>1. i \in 1..Len(part.bytes)
          BY <2>5, <3>1, <4>2
        <5>2. part'.bytes[i] = part.bytes[i]
          BY <2>5, <5>1
        <5>3. part.bytes[i] = <<server.file, i>>
          BY <2>2, <5>1 DEF Beginning
        <5> QED
          BY <2>1, <5>2, <5>3
      <4> QED
        BY <4>1, <4>2
    <3> QED
      BY <3>2, <3>3 DEF Beginning
  <2>7. Continues' /\ Complete'
    BY <1>6, <1>t, <2>1, <2>2, <2>3, <2>4, <2>5, WriteFields DEF Continues, Complete
  <2> QED
    BY <2>6, <2>7
<1>7. CASE End
  <2>1. UNCHANGED <<server, part, file, mixed>> /\ proc.pc = "body"
    BY <1>7 DEF End
  <2>2. Beginning /\ Continues /\ Complete
    BY <1>m, <2>1
  <2>3. part.bytes = Image(server.file)
    <3>1. Len(part.bytes) = Size[server.file]
      BY <1>7, <1>t, <2>1, <2>2, EndFields DEF Continues
    <3> QED
      BY <1>t, <2>2, <3>1, Whole
  <2>4. /\ proc'.pc \in {"idle", "get", "hash"}
        /\ proc'.sha = "none" => proc'.size \in {0, Size[server.file]}
    BY <1>7, <1>t, <2>2, EndFields, NoProcFields DEF Complete
  <2>5. Beginning' /\ part'.bytes = Image(server'.file)
    BY <2>1, <2>2, <2>3 DEF Beginning, Image
  <2> QED
    BY <2>1, <2>4, <2>5 DEF Continues, Complete
<1>8. CASE Break
  <2>1. UNCHANGED <<server, part, file, mixed>>
    BY <1>8 DEF Break
  <2>2. Beginning /\ Complete
    BY <1>m, <2>1
  <2>3. /\ proc'.pc \in {"idle", "get"}
        /\ proc'.sha = "none" => proc'.size \in {0, Size[server.file]}
    BY <1>8, <1>t, <2>2, NextTryFields, NoProcFields DEF Break, Complete
  <2>4. Beginning'
    BY <2>1, <2>2 DEF Beginning
  <2> QED
    BY <2>1, <2>3, <2>4 DEF Continues, Complete
<1>9. CASE Hash
  <2>1. UNCHANGED <<server, part, file, mixed>> /\ proc.pc = "hash"
    BY <1>9 DEF Hash
  <2>2. Beginning /\ Complete
    BY <1>m, <2>1
  <2>3. Beginning'
    BY <2>1, <2>2 DEF Beginning
  <2>4. CASE proc' = NoProc
    BY <2>3, <2>4, NoProcFields DEF Continues, Complete
  <2>5. CASE proc' # NoProc
    <3>1. /\ proc'.pc = "check" /\ part.there
          /\ proc'.size = proc.size /\ proc'.sha = proc.sha
          /\ proc'.sum <=> proc.sha # "none" /\ part.bytes = Image(proc.sha)
      BY <1>9, <1>t, <2>5, HashFields
    <3> QED
      BY <1>t, <2>1, <2>2, <2>3, <3>1 DEF Continues, Complete, Fits, Image
  <2> QED
    BY <2>4, <2>5
<1>10. CASE Check
  <2>1. UNCHANGED <<server, file, mixed>> /\ proc.pc = "check"
    BY <1>10 DEF Check
  <2>2. Beginning /\ Complete
    BY <1>m, <2>1
  <2>3. CASE part' = NoFile /\ proc' = NoProc
    <3>1. Len(part'.bytes) = 0
      BY <2>3 DEF NoFile
    <3>2. Beginning'
      BY <1>t, <2>1, <3>1 DEF Beginning
    <3> QED
      BY <2>3, <3>2, NoProcFields DEF Continues, Complete
  <2>4. CASE UNCHANGED part /\ Goto("rename")
    <3>1. proc'.pc = "rename" /\ proc'.size = proc.size /\ proc'.sha = proc.sha
      BY <1>t, <2>4, GotoFields
    <3>2. Beginning' /\ Complete'
      BY <2>1, <2>2, <2>4, <3>1 DEF Beginning, Complete, Fits, Image
    <3> QED
      BY <3>1, <3>2 DEF Continues
  <2> QED
    BY <1>10, <2>3, <2>4 DEF Check
<1>11. CASE Rename
  <2>1. UNCHANGED <<server, mixed>> /\ proc.pc = "rename"
    BY <1>11 DEF Rename
  <2>2. Beginning /\ Complete
    BY <1>m, <2>1
  <2>3. CASE part.there
    <3>1. file' = part /\ part' = NoFile /\ Goto("unpack")
      BY <1>11, <2>3 DEF Rename
    <3>2. proc'.pc = "unpack" /\ proc'.size = proc.size /\ proc'.sha = proc.sha
      BY <1>t, <3>1, GotoFields
    <3>3. Beginning'
      <4>1. Len(part'.bytes) = 0
        BY <3>1 DEF NoFile
      <4> QED
        BY <1>t, <2>1, <4>1 DEF Beginning
    <3>4. proc.sha = "none" => file'.bytes = Image(server.file)
      BY <2>1, <2>2, <2>3, <3>1 DEF Complete, Fits
    <3> QED
      BY <2>1, <2>2, <3>2, <3>3, <3>4 DEF Continues, Complete, Image
  <2>4. CASE ~part.there
    <3>1. UNCHANGED part /\ proc' = NoProc
      BY <1>11, <2>4 DEF Rename
    <3>2. Beginning'
      BY <2>1, <2>2, <3>1 DEF Beginning
    <3> QED
      BY <3>1, <3>2, NoProcFields DEF Continues, Complete
  <2> QED
    BY <2>3, <2>4
<1>12. CASE Unpack \/ Kill
  <2>1. UNCHANGED <<server, part, mixed>> /\ proc' = NoProc
    BY <1>12 DEF Unpack, Kill
  <2>2. Beginning'
    BY <1>m, <2>1 DEF Beginning
  <2> QED
    BY <2>1, <2>2, NoProcFields DEF Continues, Complete
<1>13. CASE Publish
  <2>1. UNCHANGED <<part, file, proc>> /\ ~mixed
    <3>1. UNCHANGED <<part, file, proc>>
      BY <1>13 DEF Publish
    <3>2. mixed' = (mixed \/ part.there \/ Busy) \/ mixed' = mixed
      BY <1>13 DEF Publish
    <3>3. ~mixed
      <4> SUFFICES ASSUME mixed PROVE FALSE
        OBVIOUS
      <4> QED
        BY <3>2
    <3> QED
      BY <3>1, <3>3
  <2>2. Beginning /\ Continues /\ Complete
    BY <1>m, <2>1
  <2>3. CASE server'.file = server.file
    BY <2>1, <2>2, <2>3 DEF Beginning, Continues, Complete, Fits, Image
  <2>4. CASE server'.file # server.file
    <3>1. ~part.there /\ ~Busy /\ server'.file \in Versions
      BY <1>13, <2>4, <1>t DEF Publish, TypeOK
    <3>2. proc = NoProc /\ Len(part.bytes) = 0
      BY <1>t, <3>1 DEF Busy, Rest, Opened
    <3>3. Beginning'
      BY <2>1, <3>1, <3>2, SizeAssumption DEF Beginning
    <3> QED
      BY <2>1, <3>2, <3>3, NoProcFields DEF Continues, Complete
  <2> QED
    BY <2>3, <2>4
<1>14. CASE Clean
  <2>1. /\ ~mixed /\ ~Busy /\ UNCHANGED server
        /\ part' \in {part, NoFile}
    BY <1>14 DEF Clean
  <2>2. proc' = NoProc
    BY <1>14, <1>t, <2>1, CleanFields DEF Busy, Rest
  <2>3. Beginning'
    <3>1. CASE part' = part
      BY <1>m, <2>1, <3>1 DEF Beginning
    <3>2. CASE part' = NoFile
      <4>1. Len(part'.bytes) = 0
        BY <3>2 DEF NoFile
      <4> QED
        BY <1>t, <2>1, <4>1 DEF Beginning
    <3> QED
      BY <2>1, <3>1, <3>2
  <2> QED
    BY <2>2, <2>3, NoProcFields DEF Continues, Complete
<1>15. CASE CalmDown
  BY <1>15, <1>m DEF CalmDown, Beginning, Continues, Complete, Fits, Image
<1> QED
  BY <1>1, <1>2, <1>3, <1>4, <1>5, <1>6, <1>7, <1>8, <1>9, <1>10, <1>11, <1>12,
     <1>13, <1>14, <1>15 DEF Next, Run, Find

LEMMA StepInv == IInv /\ [Next]_vars => IInv'
<1> SUFFICES ASSUME IInv, [Next]_vars PROVE IInv'
  OBVIOUS
<1>1. TypeOK'
  BY TypeStep DEF IInv
<1>2. CASE Next
  BY <1>1, <1>2, OpenedStep, RestStep, SumStep, UnmixedStep DEF IInv
<1>3. CASE UNCHANGED vars
  BY <1>1, <1>3 DEF vars, IInv, Opened, Rest, SumIsTrue, Unmixed, Beginning,
     Continues, Complete, Fits, Image
<1> QED
  BY <1>2, <1>3

-----------------------------------------------------------------------------
(* What follows.                                                           *)

\* The .part is a beginning of the served image that the attempt continues,
\* and a finished one is the image the command expects (netx.go:106-177,
\* install.go:354-364).
THEOREM Inductive == Spec => []IInv
  BY InitInv, StepInv, PTL DEF Spec

\* Whatever is cut, retried, killed, replaced on the server or cleaned: what
\* is unpacked is the whole image, for any images, sizes and attempts.
THEOREM ImageUnpacked == Spec => []UnpacksImage
<1>1. IInv => UnpacksImage
  BY DEF IInv, SumIsTrue, Unmixed, Complete, UnpacksImage
<1> QED
  BY <1>1, Inductive, PTL

\* Bytes of the expected image that are there are not thrown away.
LEMMA KeepsAction == IInv /\ [Next]_vars => [KeepsStep]_vars
<1> SUFFICES ASSUME IInv, Next, part.there, ~mixed, ~mixed', proc.status # 200, Fits,
                    proc' # proc
             PROVE  file' = part \/ (part'.there /\ Len(part.bytes) <= Len(part'.bytes))
  BY DEF KeepsStep, Fits
<1>t. /\ TypeOK /\ Opened /\ Rest /\ Beginning /\ Continues /\ Complete
      /\ proc \in Proc /\ part \in File
      /\ Len(part.bytes) \in Nat /\ Size[server.file] \in Nat \ {0}
  BY SizeAssumption DEF IInv, Unmixed, TypeOK, File
<1>s. part' = part => part'.there /\ Len(part.bytes) <= Len(part'.bytes)
  BY <1>t
<1>1. CASE Start \/ Find \/ Request \/ End \/ Break \/ Hash \/ Unpack \/ Kill \/ Publish
           \/ CalmDown
  <2>1. part' = part
    BY <1>1 DEF Start, Find, Resolve, HeadSize, GetSum, NoSum, Request, End, Break,
       Hash, Unpack, Kill, Publish, CalmDown
  <2> QED
    BY <1>s, <2>1
<1>2. CASE Stat
  <2>1. part' = part
    BY <1>2, <1>t, StatFields DEF Fits, Beginning
  <2> QED
    BY <1>s, <2>1
<1>3. CASE Open
  <2>1. proc.status = 206
    BY <1>3, <1>t DEF Open, Continues
  <2>2. part'.there /\ part'.bytes = part.bytes
    BY <1>3, <2>1 DEF Open
  <2> QED
    BY <1>t, <2>2
<1>4. CASE Write
  <2> DEFINE chunk == <<proc.from, proc.have + 1>>
  <2>1. chunk \in Chunk
    BY <1>4, <1>t DEF Write, Proc, Chunk, TypeOK
  <2>2. part' = part \/ part' = [part EXCEPT !.bytes = Append(part.bytes, chunk)]
    BY <1>4 DEF Write
  <2> HIDE DEF chunk
  <2>3. Len(Append(part.bytes, chunk)) = Len(part.bytes) + 1
    BY <1>t, <2>1 DEF File
  <2>4. CASE part' = [part EXCEPT !.bytes = Append(part.bytes, chunk)]
    <3>1. part'.there /\ part'.bytes = Append(part.bytes, chunk)
      BY <1>t, <2>4 DEF File
    <3> QED
      BY <1>t, <2>3, <3>1
  <2> QED
    BY <1>s, <2>2, <2>4
<1>5. CASE Check
  <2>1. ~(proc.sha # "none" /\ ~proc.sum)
    BY <1>5, <1>t DEF Check, Complete
  <2>2. part' = part
    BY <1>5, <2>1 DEF Check
  <2> QED
    BY <1>s, <2>2
<1>6. CASE Rename
  BY <1>6 DEF Rename
<1>7. CASE Clean
  <2>1. ~Busy
    BY <1>7 DEF Clean
  <2>2. proc' = proc
    BY <1>7, <1>t, <2>1, CleanFields DEF Busy
  <2> QED
    BY <2>2
<1> QED
  BY <1>1, <1>2, <1>3, <1>4, <1>5, <1>6, <1>7 DEF Next, Run, Find

\* A retry continues a download instead of starting it again, for any images,
\* sizes and attempts (netx.go:85, 111-117, 131-137; install.go:359-364).
THEOREM ProgressKept == Spec => KeepsProgress
  BY Inductive, KeepsAction, PTL DEF Spec, KeepsProgress

-----------------------------------------------------------------------------
(* Unpacking.  Paths first.                                                *)

Nodes == {"none", "dir"} \cup DOMAIN Target \cup ToSet(Files)

\* A prefix, name by name.
LEMMA PrefixFacts ==
    ASSUME NEW p \in Paths, NEW q \in Paths \cup {<<>>}
    PROVE  /\ p \in Seq(Parts) /\ q \in Seq(Parts) /\ Len(p) \in Nat \ {0} /\ Len(q) \in Nat
           /\ IsPrefix(q, p) <=> (Len(q) <= Len(p) /\ \A i \in 1 .. Len(q) : q[i] = p[i])
           /\ IsPrefix(q, p) /\ Len(q) = Len(p) => q = p
           /\ IsPrefix(q, p) /\ q # p => Len(q) < Len(p)
<1>p. p \in Seq(Parts) /\ p # <<>>
  BY PathsAssumption
<1>q. q \in Seq(Parts)
  <2>1. CASE q = <<>>
    BY <2>1
  <2>2. CASE q \in Paths
    BY <2>2, PathsAssumption
  <2> QED
    BY <2>1, <2>2
<1>1. p \in Seq(Parts) /\ q \in Seq(Parts) /\ Len(p) \in Nat /\ Len(q) \in Nat
  BY <1>p, <1>q
<1>2. Len(p) # 0
  BY <1>p
<1>3. ASSUME Len(q) <= Len(p)
      PROVE  (SubSeq(q, 1, Len(q)) = SubSeq(p, 1, Len(q))) <=> \A i \in 1 .. Len(q) : q[i] = p[i]
  BY <1>1, <1>3
<1>4. IsPrefix(q, p) <=> (Len(q) <= Len(p) /\ \A i \in 1 .. Len(q) : q[i] = p[i])
  BY <1>3 DEF IsPrefix
<1>5. Len(q) = Len(p) /\ (\A i \in 1 .. Len(q) : q[i] = p[i]) => q = p
  BY <1>1
<1> QED
  BY <1>1, <1>2, <1>4, <1>5

LEMMA AboveFacts ==
    ASSUME NEW p \in Paths
    PROVE  /\ p \in Above(p) /\ Above(p) \subseteq Paths /\ Above(<<>>) = {}
           /\ \A q \in Paths : q \in Above(p) <=> IsPrefix(q, p)
           /\ \A q \in Above(p) : Above(q) \subseteq Above(p)
           /\ \A q \in Above(p), r \in Above(p) : Len(q) <= Len(r) => q \in Above(r)
<1>1. p \in Above(p)
  BY PrefixFacts DEF Above
<1>2. ASSUME NEW q \in Paths PROVE ~IsPrefix(q, <<>>)
  <2>1. Len(q) \in Nat \ {0}
    BY PrefixFacts
  <2> QED
    BY <2>1 DEF IsPrefix
<1>3. ASSUME NEW q \in Above(p), NEW r \in Above(q) PROVE r \in Above(p)
  <2>1. q \in Paths /\ r \in Paths /\ IsPrefix(q, p) /\ IsPrefix(r, q)
    BY <1>3 DEF Above
  <2>2. Len(r) \in Nat /\ Len(q) \in Nat /\ Len(p) \in Nat
    BY <2>1, PrefixFacts
  <2>3. IsPrefix(r, p)
    BY <2>1, <2>2, PrefixFacts
  <2> QED
    BY <2>1, <2>3 DEF Above
<1>4. ASSUME NEW q \in Above(p), NEW r \in Above(p), Len(q) <= Len(r) PROVE q \in Above(r)
  <2>1. q \in Paths /\ r \in Paths /\ IsPrefix(q, p) /\ IsPrefix(r, p)
    BY DEF Above
  <2>2. Len(r) \in Nat /\ Len(q) \in Nat /\ Len(p) \in Nat
    BY <2>1, PrefixFacts
  <2>3. IsPrefix(q, r)
    BY <1>4, <2>1, <2>2, PrefixFacts
  <2> QED
    BY <2>1, <2>3 DEF Above
<1> QED
  BY <1>1, <1>2, <1>3, <1>4 DEF Above

\* The directory of a name.
LEMMA FrontFacts ==
    ASSUME NEW p \in Paths
    PROVE  /\ Len(p) = 1 => Above(Front(p)) = {} /\ Above(p) = {p}
           /\ Len(p) # 1 => Front(p) \in Paths /\ Front(p) \in Above(p) /\ Front(p) # p
           /\ Above(Front(p)) = Above(p) \ {p}
<1>1. p \in Seq(Parts) /\ Len(p) \in Nat \ {0}
  BY PrefixFacts
<1>2. CASE Len(p) = 1
  <2>1. Front(p) = <<>>
    BY <1>1, <1>2 DEF Front
  <2>2. Above(Front(p)) = {}
    BY <2>1, AboveFacts
  <2>3. ASSUME NEW q \in Above(p), q # p PROVE FALSE
    <3>1. q \in Paths /\ IsPrefix(q, p)
      BY DEF Above
    <3> QED
      BY <1>1, <1>2, <2>3, <3>1, PrefixFacts
  <2> QED
    BY <1>2, <2>2, <2>3, AboveFacts
<1>3. CASE Len(p) # 1
  <2>0. \A n \in Nat \ {0} : n # 1 => n - 1 \in 1 .. n
    OBVIOUS
  <2>1. Len(p) - 1 \in 1 .. Len(p)
    BY <1>1, <1>3, <2>0
  <2>2. Front(p) \in Paths
    <3>1. \A k \in 1 .. Len(p) : SubSeq(p, 1, k) \in Paths
      BY PathsAssumption
    <3>2. SubSeq(p, 1, Len(p) - 1) \in Paths
      BY <2>1, <3>1
    <3> QED
      BY <3>2 DEF Front
  <2>3. Len(Front(p)) = Len(p) - 1 /\ \A i \in 1 .. Len(p) - 1 : Front(p)[i] = p[i]
    BY <1>1, <2>1 DEF Front
  <2>4. IsPrefix(Front(p), p) /\ Front(p) # p
    BY <1>1, <2>2, <2>3, PrefixFacts
  <2>5. Front(p) \in Above(p)
    BY <2>2, <2>4 DEF Above
  <2>6. Above(Front(p)) = Above(p) \ {p}
    <3>1. ASSUME NEW q \in Above(p), q # p PROVE q \in Above(Front(p))
      <4>1. q \in Paths /\ IsPrefix(q, p)
        BY DEF Above
      <4>2. Len(q) < Len(p) /\ Len(q) \in Nat
        BY <3>1, <4>1, PrefixFacts
      <4>3. Len(q) <= Len(Front(p))
        BY <1>1, <2>3, <4>2
      <4> QED
        BY <2>5, <4>3, AboveFacts
    <3>2. p \notin Above(Front(p))
      <4>1. ~IsPrefix(p, Front(p))
        BY <1>1, <2>2, <2>3, PrefixFacts
      <4> QED
        BY <4>1 DEF Above
    <3>3. Above(Front(p)) \subseteq Above(p)
      BY <2>5, AboveFacts
    <3> QED
      BY <3>1, <3>2, <3>3
  <2> QED
    BY <1>3, <2>2, <2>4, <2>5, <2>6
<1> QED
  BY <1>2, <1>3

-----------------------------------------------------------------------------
(* The inductive invariant.                                                *)

ExtractTypes ==
    /\ tree \in [Paths -> Nodes] /\ up \in [Paths -> Nodes]
    /\ layer \in DOMAIN Files

\* What is remembered is no link, now.
Remembered == \A d \in realDirs \cap Paths : ~IsLink(tree[d])

\* A layer as image tools write them has each path after its directory, and
\* written is what it has so far.
Ordered ==
    ~odd => /\ written = {p \in Paths : up[p] # "none"}
            /\ \A p \in Paths : up[p] # "none" => \A q \in Above(p) \ {p} : up[q] = "dir"

ExtractInv == ExtractTypes /\ Remembered /\ Ordered /\ IsImage

LEMMA NodeFacts ==
    /\ "none" \in Nodes /\ "dir" \in Nodes
    /\ ~IsLink("none") /\ ~IsLink("dir")
    /\ \A x \in ToSet(Files) : x \in Nodes /\ ~IsLink(x) /\ x \notin {"none", "dir"}
    /\ \A l \in DOMAIN Target : l \in Nodes /\ IsLink(l) /\ l \notin {"none", "dir"}
    /\ Len(Files) \in Nat \ {0} /\ DOMAIN Files = 1 .. Len(Files)
    /\ \A i \in DOMAIN Files : Files[i] \in ToSet(Files)
<1>1. Files \in Seq(ToSet(Files)) /\ Files # <<>>
  BY FilesAssumption
<1>2. Len(Files) \in Nat \ {0} /\ DOMAIN Files = 1 .. Len(Files)
  BY <1>1
<1>3. \A i \in DOMAIN Files : Files[i] \in ToSet(Files)
  BY DEF ToSet
<1>4. /\ "none" \notin DOMAIN Target /\ "dir" \notin DOMAIN Target
      /\ "none" \notin ToSet(Files) /\ "dir" \notin ToSet(Files)
      /\ \A x \in ToSet(Files) : x \notin DOMAIN Target
  BY FilesAssumption
<1> QED
  BY <1>2, <1>3, <1>4 DEF Nodes, IsLink

\* Only directories are remembered on the way.
LEMMA ResolvedDirs ==
    ASSUME NEW name, NEW cache
    PROVE  \A d \in resolveIn(name, cache).dirs : d \in Paths /\ tree[d] = "dir"
  BY DEF resolveIn

\* What is remembered leads nowhere else, as it hides no link.
LEMMA SafeCache == Remembered => CacheSafe
<1> SUFFICES ASSUME Remembered, NEW name \in Paths
             PROVE  resolve(name).path = resolveIn(name, {}).path
  BY DEF CacheSafe
<1>1. {p \in Paths : IsLink(tree[p])} \ realDirs = {p \in Paths : IsLink(tree[p])} \ {}
  BY DEF Remembered
<1> QED
  BY <1>1 DEF resolve, resolveIn

-----------------------------------------------------------------------------
(* The layer, as the format has it.                                        *)

LEMMA LayeredSame ==
    ASSUME NEW p \in Paths, lower' = lower, up'[p] = up[p],
           \A q \in Above(p) : q \in hidden' <=> q \in hidden,
           \A q \in (Above(p) \ {p}) \cup {<<>>} : q \in opaque' <=> q \in opaque,
           \A q \in Above(p) \ {p} : up'[q] \in {"none", "dir"} <=> up[q] \in {"none", "dir"}
    PROVE  Layered(p)' = Layered(p)
<1>1. (\E q \in Above(p) : q \in hidden') <=> (\E q \in Above(p) : q \in hidden)
  OBVIOUS
<1>2. (\E q \in (Above(p) \ {p}) \cup {<<>>} : q \in opaque')
      <=> (\E q \in (Above(p) \ {p}) \cup {<<>>} : q \in opaque)
  OBVIOUS
<1>3. (\E q \in Above(p) \ {p} : up'[q] \notin {"none", "dir"})
      <=> (\E q \in Above(p) \ {p} : up[q] \notin {"none", "dir"})
  OBVIOUS
<1> QED
  BY <1>1, <1>2, <1>3 DEF Layered

\* A name that is listed where the format allows it has nothing under it yet,
\* and its directories are the layer's.
LEMMA ListedFacts ==
    ASSUME ExtractInv, NEW name \in Paths, Proper(name)
    PROVE  /\ ~odd /\ up[name] = "none"
           /\ \A q \in Above(name) \ {name} : up[q] = "dir"
           /\ \A p \in Paths : name \in Above(p) => up[p] = "none"
<1>1. ~odd /\ up[name] = "none" /\ Listed(name)
  BY DEF Proper
<1>2. \A p \in Paths : up[p] # "none" => \A q \in Above(p) \ {p} : up[q] = "dir"
  BY <1>1 DEF ExtractInv, Ordered
<1>3. ASSUME NEW q \in Above(name), q # name PROVE up[q] = "dir"
  <2>1. Len(name) # 1
    BY <1>3, FrontFacts
  <2>2. Front(name) \in Paths /\ up[Front(name)] = "dir" /\ q \in Above(Front(name))
    BY <1>1, <1>3, <2>1, FrontFacts DEF Listed
  <2> QED
    BY <1>2, <2>2
<1>4. ASSUME NEW p \in Paths, name \in Above(p) PROVE up[p] = "none"
  BY <1>1, <1>2, <1>4
<1> QED
  BY <1>1, <1>3, <1>4

LEMMA OrderedStep ==
    ASSUME ExtractInv, NEW name \in Paths, NEW node \in Nodes \ {"none"}, Proper(name),
           up' = [up EXCEPT ![name] = node], written' = written \cup {name}, odd' = odd
    PROVE  /\ Ordered' /\ up' \in [Paths -> Nodes] /\ up'[name] = node
           /\ \A q \in Paths : q # name => up'[q] = up[q]
<1>1. /\ up' \in [Paths -> Nodes] /\ up'[name] = node
      /\ \A q \in Paths : q # name => up'[q] = up[q]
  BY DEF ExtractInv, ExtractTypes
<1>2. /\ ~odd /\ up[name] = "none"
      /\ \A q \in Above(name) \ {name} : up[q] = "dir"
      /\ \A p \in Paths : Above(p) \subseteq Paths
  BY ListedFacts, AboveFacts
<1>3. /\ written = {p \in Paths : up[p] # "none"}
      /\ \A p \in Paths : up[p] # "none" => \A q \in Above(p) \ {p} : up[q] = "dir"
  BY <1>2 DEF ExtractInv, Ordered
<1>4. written' = {p \in Paths : up'[p] # "none"}
  BY <1>1, <1>2, <1>3
<1>5. ASSUME NEW p \in Paths, up'[p] # "none", NEW q \in Above(p), q # p PROVE up'[q] = "dir"
  BY <1>1, <1>2, <1>3, <1>5
<1> QED
  BY <1>1, <1>4, <1>5 DEF Ordered

\* From here on nothing is compared with the format.
LEMMA OddStep ==
    ASSUME Odd, tree' \in [Paths -> Nodes], layer' \in DOMAIN Files, Remembered'
    PROVE  ExtractInv'
<1>1. odd' /\ up' \in [Paths -> Nodes]
  BY NodeFacts DEF Odd, Nothing
<1> QED
  BY <1>1 DEF ExtractInv, ExtractTypes, Ordered, IsImage

LEMMA WarnedStep ==
    ASSUME ExtractInv, NEW dirs, \A d \in dirs : d \in Paths /\ tree[d] = "dir",
           Warned(dirs), layer' = layer
    PROVE  ExtractInv'
<1>1. Odd /\ tree' = tree /\ realDirs' = realDirs \cup dirs
  BY DEF Warned
<1>2. Remembered'
  BY <1>1, NodeFacts DEF ExtractInv, Remembered
<1> QED
  BY <1>1, <1>2, OddStep DEF ExtractInv, ExtractTypes

LEMMA InitExtractInv == ExtractInit => ExtractInv
<1> SUFFICES ASSUME ExtractInit PROVE ExtractInv
  OBVIOUS
<1>1. ExtractTypes
  BY NodeFacts DEF ExtractInit, ExtractTypes, Nothing
<1>2. Remembered
  BY DEF ExtractInit, Remembered
<1>3. \A p \in Paths : up[p] = "none" /\ lower[p] = "none" /\ tree[p] = "none"
  BY DEF ExtractInit, Nothing
<1>4. Ordered
  BY <1>3 DEF ExtractInit, Ordered
<1>5. IsImage
  BY <1>3 DEF IsImage, Layered
<1> QED
  BY <1>1, <1>2, <1>4, <1>5 DEF ExtractInv

-----------------------------------------------------------------------------
(* The entries.                                                            *)

LEMMA DirEntryStep ==
    ASSUME ExtractInv, NEW name \in Paths, DirEntry(name)
    PROVE  ExtractInv'
<1> DEFINE to == resolve(name)
<1>1. layer' = layer /\ \A d \in to.dirs : d \in Paths /\ tree[d] = "dir"
  BY ResolvedDirs DEF DirEntry, Counts, resolve
<1>2. CASE Warned(to.dirs)
  BY <1>1, <1>2, WarnedStep
<1>3. CASE /\ tree' = MkdirAll(tree, to.path)
           /\ realDirs' = realDirs \cup to.dirs \cup {to.path}
           /\ written' = written \cup {name}
           /\ Lists(name, "dir", to.path = name)
  <2>1. PICK at : at = to.path
    OBVIOUS
  <2>2. \A q \in Paths : tree'[q] = IF q \in Above(at) THEN "dir" ELSE tree[q]
    BY <1>3, <2>1 DEF MkdirAll
  <2>3. tree' \in [Paths -> Nodes]
    BY <1>3, <2>1, NodeFacts DEF MkdirAll, ExtractInv, ExtractTypes
  <2>4. Remembered'
    <3>1. ASSUME NEW d \in realDirs' \cap Paths PROVE ~IsLink(tree'[d])
      <4>1. d \in realDirs \/ d \in to.dirs \/ d = at
        BY <1>3, <2>1
      <4>2. d = at => d \in Above(at)
        BY AboveFacts
      <4>3. d \in realDirs => ~IsLink(tree[d])
        BY DEF ExtractInv, Remembered
      <4> QED
        BY <1>1, <2>2, <4>1, <4>2, <4>3, NodeFacts
    <3> QED
      BY <3>1 DEF Remembered
  <2>5. CASE Odd
    BY <1>1, <2>3, <2>4, <2>5, OddStep DEF ExtractInv, ExtractTypes
  <2>6. CASE /\ Proper(name) /\ at = name
             /\ up' = [up EXCEPT ![name] = "dir"] /\ UNCHANGED <<lower, hidden, opaque, odd>>
    <3>1. /\ Ordered' /\ up' \in [Paths -> Nodes] /\ up'[name] = "dir"
          /\ \A q \in Paths : q # name => up'[q] = up[q]
      BY <1>3, <2>6, NodeFacts, OrderedStep
    <3>2. /\ ~odd /\ up[name] = "none"
          /\ \A q \in Above(name) \ {name} : up[q] = "dir"
      BY <2>6, ListedFacts
    <3>3. ASSUME NEW p \in Paths PROVE tree'[p] = Layered(p)'
      <4>1. CASE p \in Above(name)
        <5>1. up'[p] = "dir"
          BY <3>1, <3>2, <4>1
        <5> QED
          BY <2>2, <2>6, <4>1, <5>1 DEF Layered
      <4>2. CASE p \notin Above(name)
        <5>1. p # name /\ Above(p) \subseteq Paths
          BY <4>2, AboveFacts
        <5>2. Layered(p)' = Layered(p)
          BY <2>6, <3>1, <3>2, <5>1, LayeredSame
        <5> QED
          BY <2>2, <2>6, <3>2, <4>2, <5>2 DEF ExtractInv, IsImage
      <4> QED
        BY <4>1, <4>2
    <3> QED
      BY <1>1, <2>3, <2>4, <3>1, <3>3 DEF ExtractInv, ExtractTypes, IsImage
  <2> QED
    BY <1>3, <2>1, <2>5, <2>6 DEF Lists
<1> QED
  BY <1>2, <1>3 DEF DirEntry

\* An entry that is no directory: what lands is a file or a link, and a link
\* is no longer remembered.
LEMMA LandsStep ==
    ASSUME ExtractInv, NEW name \in Paths, NEW at, NEW node \in Nodes \ {"dir"}, NEW forgotten,
           \A d \in at.dirs : d \in Paths /\ tree[d] = "dir",
           IsLink(node) => at.path \in forgotten,
           Lands(name, at, node, forgotten)
    PROVE  ExtractInv'
<1>1. layer' = layer
  BY DEF Lands, Counts
<1>2. CASE Warned(at.dirs)
  BY <1>1, <1>2, WarnedStep
<1>3. CASE /\ tree' = [removeAll(MkdirAll(tree, Front(at.path)), at.path) EXCEPT ![at.path] = node]
           /\ realDirs' = (realDirs \cup at.dirs) \ forgotten
           /\ written' = written \cup {name}
           /\ Lists(name, node, at.path = name /\ node # "none")
  <2>1. PICK to : to = at.path
    OBVIOUS
  <2>2. \A q \in Paths : tree'[q] = IF q = to THEN node
                                    ELSE IF IsPrefix(to, q) THEN "none"
                                    ELSE IF q \in Above(Front(to)) THEN "dir" ELSE tree[q]
    BY <1>3, <2>1 DEF removeAll, MkdirAll
  <2>3. tree' \in [Paths -> Nodes]
    <3>1. \A q \in Paths : tree'[q] \in Nodes
      BY <2>2, NodeFacts DEF ExtractInv, ExtractTypes
    <3>2. tree' = [q \in Paths |-> tree'[q]]
      BY <1>3 DEF removeAll
    <3> QED
      BY <3>1, <3>2
  <2>4. Remembered'
    <3>1. ASSUME NEW d \in realDirs' \cap Paths PROVE ~IsLink(tree'[d])
      <4>1. d \in realDirs \/ d \in at.dirs
        BY <1>3
      <4>2. ~IsLink(tree[d])
        BY <4>1, NodeFacts DEF ExtractInv, Remembered
      <4>3. d = to => ~IsLink(node)
        BY <1>3, <2>1
      <4> QED
        BY <2>2, <4>2, <4>3, NodeFacts
    <3> QED
      BY <3>1 DEF Remembered
  <2>5. CASE Odd
    BY <1>1, <2>3, <2>4, <2>5, OddStep DEF ExtractInv, ExtractTypes
  <2>6. CASE /\ Proper(name) /\ to = name /\ node # "none"
             /\ up' = [up EXCEPT ![name] = node] /\ UNCHANGED <<lower, hidden, opaque, odd>>
    <3>1. /\ Ordered' /\ up' \in [Paths -> Nodes] /\ up'[name] = node
          /\ \A q \in Paths : q # name => up'[q] = up[q]
      BY <1>3, <2>6, OrderedStep
    <3>2. /\ ~odd /\ up[name] = "none"
          /\ \A q \in Above(name) \ {name} : up[q] = "dir"
          /\ \A p \in Paths : name \in Above(p) => up[p] = "none"
      BY <2>6, ListedFacts
    <3>3. ASSUME NEW p \in Paths PROVE tree'[p] = Layered(p)'
      <4>1. CASE p = name
        BY <2>2, <2>6, <3>1, <4>1 DEF Layered
      <4>2. CASE p # name /\ name \in Above(p)
        <5>1. IsPrefix(name, p) /\ up'[p] = "none" /\ up'[name] \notin {"none", "dir"}
          BY <2>6, <3>1, <3>2, <4>2, AboveFacts
        <5> QED
          BY <2>2, <2>6, <4>2, <5>1 DEF Layered
      <4>3. CASE p # name /\ p \in Above(name)
        <5>1. p \in Above(Front(name)) /\ ~IsPrefix(name, p) /\ up'[p] = "dir"
          <6>1. ~IsPrefix(name, p)
            BY <4>3, PrefixFacts DEF Above
          <6> QED
            BY <3>1, <3>2, <4>3, <6>1, FrontFacts
        <5> QED
          BY <2>2, <2>6, <4>3, <5>1 DEF Layered
      <4>4. CASE p \notin Above(name) /\ name \notin Above(p)
        <5>1. /\ p # name /\ Above(p) \subseteq Paths /\ ~IsPrefix(name, p)
              /\ p \notin Above(Front(name))
          BY <4>4, AboveFacts, FrontFacts
        <5>2. Layered(p)' = Layered(p)
          BY <2>6, <3>1, <3>2, <4>4, <5>1, LayeredSame
        <5> QED
          BY <2>2, <2>6, <3>2, <5>1, <5>2 DEF ExtractInv, IsImage
      <4> QED
        BY <4>1, <4>2, <4>3, <4>4
    <3> QED
      BY <1>1, <2>3, <2>4, <3>1, <3>3 DEF ExtractInv, ExtractTypes, IsImage
  <2> QED
    BY <1>3, <2>1, <2>5, <2>6 DEF Lists
<1> QED
  BY <1>2, <1>3 DEF Lands

LEMMA PlaceDirs ==
    ASSUME NEW name, NEW dirs, \A d \in dirs : d \in Paths /\ tree[d] = "dir"
    PROVE  \A d \in Place(name, dirs).dirs : d \in Paths /\ tree[d] = "dir"
<1>1. \A d \in resolveIn(Front(name), realDirs \cup dirs).dirs : d \in Paths /\ tree[d] = "dir"
  BY ResolvedDirs
<1> QED
  BY <1>1 DEF Place

LEMMA FileEntryStep ==
    ASSUME ExtractInv, NEW name \in Paths, FileEntry(name)
    PROVE  ExtractInv'
<1>1. Files[layer] \in Nodes \ {"dir"} /\ ~IsLink(Files[layer])
  BY NodeFacts DEF ExtractInv, ExtractTypes
<1>2. \A d \in Place(name, {}).dirs : d \in Paths /\ tree[d] = "dir"
  BY PlaceDirs
<1> QED
  BY <1>1, <1>2, LandsStep DEF FileEntry

LEMMA LinkEntryStep ==
    ASSUME ExtractInv, NEW name \in Paths, NEW l \in DOMAIN Target, LinkEntry(name, l)
    PROVE  ExtractInv'
<1>1. l \in Nodes \ {"dir"}
  BY NodeFacts
<1>2. \A d \in Place(name, {}).dirs : d \in Paths /\ tree[d] = "dir"
  BY PlaceDirs
<1> QED
  BY <1>1, <1>2, LandsStep DEF LinkEntry

LEMMA HardEntryStep ==
    ASSUME ExtractInv, NEW name \in Paths, NEW target \in Paths, HardEntry(name, target)
    PROVE  ExtractInv'
<1> DEFINE from == resolve(target)
           at == Place(name, from.dirs)
           node == IF tree[from.path] \in ToSet(Files) /\ ~IsPrefix(at.path, from.path)
                   THEN tree[from.path] ELSE "none"
<1>1. \A d \in from.dirs : d \in Paths /\ tree[d] = "dir"
  BY ResolvedDirs DEF resolve
<1>2. \A d \in at.dirs : d \in Paths /\ tree[d] = "dir"
  BY <1>1, PlaceDirs
<1>3. node \in Nodes \ {"dir"} /\ ~IsLink(node)
  BY NodeFacts
<1>4. CASE Counts /\ Warned(from.dirs)
  BY <1>1, <1>4, WarnedStep DEF Counts
<1>5. CASE Lands(name, at, node, {})
  BY <1>2, <1>3, <1>5, LandsStep
<1> QED
  BY <1>4, <1>5 DEF HardEntry

LEMMA WhiteoutStep ==
    ASSUME ExtractInv, NEW name \in Paths, Whiteout(name)
    PROVE  ExtractInv'
<1> DEFINE to == resolve(Front(name))
<1>1. layer' = layer /\ \A d \in to.dirs : d \in Paths /\ tree[d] = "dir"
  BY ResolvedDirs DEF Whiteout, Counts, resolve
<1>2. CASE Warned(to.dirs)
  BY <1>1, <1>2, WarnedStep
<1>3. ASSUME NEW p, p = Append(to.path, Last(name)),
             tree' = removeAll(tree, p), realDirs' = realDirs \cup to.dirs, written' = written,
             IF Proper(name) /\ p = name
             THEN hidden' = hidden \cup {name} /\ UNCHANGED <<lower, up, opaque, odd>>
             ELSE Odd
      PROVE  ExtractInv'
  <2>1. \A q \in Paths : tree'[q] = IF IsPrefix(p, q) THEN "none" ELSE tree[q]
    BY <1>3 DEF removeAll
  <2>2. tree' \in [Paths -> Nodes]
    BY <1>3, NodeFacts DEF removeAll, ExtractInv, ExtractTypes
  <2>3. Remembered'
    BY <1>1, <1>3, <2>1, NodeFacts DEF ExtractInv, Remembered
  <2>4. CASE Odd
    BY <1>1, <2>2, <2>3, <2>4, OddStep DEF ExtractInv, ExtractTypes
  <2>5. CASE /\ Proper(name) /\ p = name
             /\ hidden' = hidden \cup {name} /\ UNCHANGED <<lower, up, opaque, odd>>
    <3>1. ~odd /\ \A q \in Paths : name \in Above(q) => up[q] = "none"
      BY <2>5, ListedFacts
    <3>2. ASSUME NEW q \in Paths PROVE tree'[q] = Layered(q)'
      <4>1. CASE IsPrefix(name, q)
        <5>1. name \in Above(q) /\ up'[q] = "none" /\ name \in hidden'
          BY <2>5, <3>1, <4>1, AboveFacts
        <5> QED
          BY <2>1, <2>5, <4>1, <5>1 DEF Layered
      <4>2. CASE ~IsPrefix(name, q)
        <5>1. name \notin Above(q)
          BY <4>2, AboveFacts
        <5>2. Layered(q)' = Layered(q)
          BY <2>5, <5>1, LayeredSame
        <5> QED
          BY <2>1, <2>5, <3>1, <4>2, <5>2 DEF ExtractInv, IsImage
      <4> QED
        BY <4>1, <4>2
    <3>3. Ordered'
      BY <1>3, <2>5 DEF ExtractInv, Ordered
    <3> QED
      BY <1>1, <2>2, <2>3, <2>5, <3>2, <3>3 DEF ExtractInv, ExtractTypes, IsImage
  <2> QED
    BY <1>3, <2>4, <2>5
<1> QED
  BY <1>2, <1>3 DEF Whiteout

\* The entry of a directory that q is, or is under.
LEMMA ChildFacts ==
    ASSUME NEW q \in Paths, NEW dir \in Paths \cup {<<>>}, Len(q) > Len(dir), IsPrefix(dir, q)
    PROVE  /\ \E c \in Paths : /\ c = SubSeq(q, 1, Len(dir) + 1) /\ c \in Above(q)
                              /\ c # dir /\ IsPrefix(dir, c)
           /\ dir \in (Above(q) \ {q}) \cup {<<>>}
<1> DEFINE k == Len(dir) + 1
           c == SubSeq(q, 1, k)
<1>1. /\ q \in Seq(Parts) /\ dir \in Seq(Parts) /\ Len(q) \in Nat \ {0} /\ Len(dir) \in Nat
      /\ \A i \in 1 .. Len(dir) : dir[i] = q[i]
  BY PrefixFacts
<1>2. k \in 1 .. Len(q)
  BY <1>1
<1>3. c \in Paths
  BY <1>2, PathsAssumption
<1>4. Len(c) = k /\ \A i \in 1 .. k : c[i] = q[i]
  BY <1>1, <1>2
<1> HIDE DEF c
<1>5. IsPrefix(c, q)
  BY <1>1, <1>2, <1>3, <1>4, PrefixFacts
<1>6. IsPrefix(dir, c) /\ c # dir
  <2>1. Len(dir) <= Len(c) /\ \A i \in 1 .. Len(dir) : dir[i] = c[i]
    BY <1>1, <1>4
  <2> QED
    BY <1>1, <1>3, <1>4, <2>1, PrefixFacts
<1>7. dir \in (Above(q) \ {q}) \cup {<<>>}
  BY <1>1 DEF Above
<1>8. c = SubSeq(q, 1, Len(dir) + 1) /\ c \in Above(q)
  BY <1>3, <1>5 DEF Above, c
<1> QED
  BY <1>3, <1>6, <1>7, <1>8

LEMMA OpaqueStep ==
    ASSUME ExtractInv, NEW dir \in Paths \cup {<<>>}, Opaque(dir)
    PROVE  ExtractInv'
<1> DEFINE to == resolve(dir)
           Goes(at) == {q \in Paths : Len(q) > Len(at) /\ IsPrefix(at, q)
                                        /\ SubSeq(q, 1, Len(at) + 1) \notin written}
<1>1. layer' = layer /\ \A d \in to.dirs : d \in Paths /\ tree[d] = "dir"
  BY ResolvedDirs DEF Opaque, Counts, resolve
<1>2. CASE Warned(to.dirs)
  BY <1>1, <1>2, WarnedStep
<1>3. ASSUME NEW at, at = to.path,
             tree' = [q \in Paths |-> IF q \in Goes(at) THEN "none" ELSE tree[q]],
             realDirs' = realDirs \cup to.dirs, written' = written,
             IF /\ ~odd /\ at = dir /\ (dir = <<>> \/ up[dir] = "dir")
                /\ \A q \in Paths : up[q] = "dir" => q = dir \/ ~IsPrefix(dir, q)
             THEN opaque' = opaque \cup {dir} /\ UNCHANGED <<lower, up, hidden, odd>>
             ELSE Odd
      PROVE  ExtractInv'
  <2>1. \A q \in Paths : tree'[q] = IF q \in Goes(at) THEN "none" ELSE tree[q]
    BY <1>3
  <2>2. tree' \in [Paths -> Nodes]
    BY <1>3, NodeFacts DEF ExtractInv, ExtractTypes
  <2>3. Remembered'
    BY <1>1, <1>3, <2>1, NodeFacts DEF ExtractInv, Remembered
  <2>4. CASE Odd
    BY <1>1, <2>2, <2>3, <2>4, OddStep DEF ExtractInv, ExtractTypes
  <2>5. CASE /\ ~odd /\ at = dir
             /\ \A q \in Paths : up[q] = "dir" => q = dir \/ ~IsPrefix(dir, q)
             /\ opaque' = opaque \cup {dir} /\ UNCHANGED <<lower, up, hidden, odd>>
    <3>1. /\ written = {p \in Paths : up[p] # "none"}
          /\ \A p \in Paths : up[p] # "none" => \A q \in Above(p) \ {p} : up[q] = "dir"
          /\ \A p \in Paths : tree[p] = Layered(p)
      BY <2>5 DEF ExtractInv, Ordered, IsImage
    <3>2. ASSUME NEW q \in Paths PROVE tree'[q] = Layered(q)'
      <4>1. CASE ~(Len(q) > Len(dir) /\ IsPrefix(dir, q))
        <5>1. dir \notin (Above(q) \ {q}) \cup {<<>>}
          <6>1. CASE dir = <<>>
            <7>1. Len(q) > Len(dir) /\ IsPrefix(dir, q)
              BY <6>1, PrefixFacts
            <7> QED
              BY <4>1, <7>1
          <6>2. CASE dir # <<>>
            <7>1. ASSUME dir \in Above(q) \ {q} PROVE FALSE
              BY <4>1, <7>1, PrefixFacts DEF Above
            <7> QED
              BY <6>2, <7>1
          <6> QED
            BY <6>1, <6>2
        <5>2. Layered(q)' = Layered(q)
          BY <2>5, <5>1, LayeredSame
        <5> QED
          BY <2>1, <2>5, <3>1, <4>1, <5>2
      <4>2. CASE Len(q) > Len(dir) /\ IsPrefix(dir, q)
        <5>1. PICK c \in Paths : /\ c = SubSeq(q, 1, Len(dir) + 1) /\ c \in Above(q)
                                 /\ c # dir /\ IsPrefix(dir, c)
          BY <4>2, ChildFacts
        <5>2. dir \in (Above(q) \ {q}) \cup {<<>>}
          BY <4>2, ChildFacts
        <5>3. CASE c \notin written
          <6>1. tree'[q] = "none"
            BY <2>1, <2>5, <4>2, <5>1, <5>3
          <6>2. up[q] = "none"
            BY <3>1, <5>1, <5>3
          <6>3. Layered(q)' = "none"
            BY <2>5, <5>2, <6>2 DEF Layered
          <6> QED
            BY <6>1, <6>3
        <5>4. CASE c \in written
          <6>1. tree'[q] = Layered(q)
            BY <2>1, <2>5, <3>1, <5>1, <5>4
          <6>2. up[c] \notin {"none", "dir"}
            BY <2>5, <3>1, <5>1, <5>4
          <6>3. CASE q = c
            BY <2>5, <6>1, <6>2, <6>3 DEF Layered
          <6>4. CASE q # c
            <7>1. up[q] = "none"
              BY <3>1, <5>1, <6>2, <6>4
            <7>2. Layered(q) = "none" /\ Layered(q)' = "none"
              BY <2>5, <5>1, <6>2, <6>4, <7>1 DEF Layered
            <7> QED
              BY <6>1, <7>2
          <6> QED
            BY <6>3, <6>4
        <5> QED
          BY <5>3, <5>4
      <4> QED
        BY <4>1, <4>2
    <3>3. Ordered'
      BY <1>3, <2>5 DEF ExtractInv, Ordered
    <3> QED
      BY <1>1, <2>2, <2>3, <2>5, <3>2, <3>3 DEF ExtractInv, ExtractTypes, IsImage
  <2> QED
    BY <1>3, <2>4, <2>5
<1> QED
  BY <1>2, <1>3 DEF Opaque

LEMMA NextLayerStep == ExtractInv /\ NextLayer => ExtractInv'
<1> SUFFICES ASSUME ExtractInv, NextLayer PROVE ExtractInv'
  OBVIOUS
<1>1. tree' = tree /\ realDirs' = realDirs /\ written' = {} /\ layer' \in DOMAIN Files
  BY NodeFacts DEF NextLayer, ExtractInv, ExtractTypes
<1>2. Remembered'
  BY <1>1 DEF ExtractInv, Remembered
<1>3. CASE odd /\ UNCHANGED seen
  BY <1>1, <1>2, <1>3 DEF seen, ExtractInv, ExtractTypes, Ordered, IsImage
<1>4. CASE /\ lower' = tree /\ up' = Nothing /\ hidden' = {} /\ opaque' = {}
  <2>1. \A p \in Paths : up'[p] = "none"
    BY <1>4 DEF Nothing
  <2>2. up' \in [Paths -> Nodes]
    BY <1>4, NodeFacts DEF Nothing
  <2>3. \A p \in Paths : Layered(p)' = tree[p]
    BY <1>4, <2>1, AboveFacts DEF Layered
  <2>4. Ordered'
    BY <1>1, <2>1 DEF Ordered
  <2> QED
    BY <1>1, <1>2, <2>2, <2>3, <2>4 DEF ExtractInv, ExtractTypes, IsImage
<1> QED
  BY <1>3, <1>4 DEF NextLayer

\* The invariant of unpacking, for any paths, links, layers and bounds.
THEOREM ExtractInductive == ExtractSpec => []ExtractInv
<1>1. ExtractInv /\ [ExtractNext]_extractVars => ExtractInv'
  <2> SUFFICES ASSUME ExtractInv, [ExtractNext]_extractVars PROVE ExtractInv'
    OBVIOUS
  <2>1. CASE UNCHANGED extractVars
    <3>1. \A p \in Paths : Layered(p)' = Layered(p)
      BY <2>1 DEF extractVars, seen, Layered
    <3> QED
      BY <2>1, <3>1 DEF extractVars, seen, ExtractInv, ExtractTypes, Remembered, Ordered, IsImage
  <2>2. CASE ExtractNext
    BY <2>2, DirEntryStep, FileEntryStep, WhiteoutStep, LinkEntryStep, HardEntryStep,
       OpaqueStep, NextLayerStep DEF ExtractNext
  <2> QED
    BY <2>1, <2>2
<1> QED
  BY InitExtractInv, <1>1, PTL DEF ExtractSpec

\* extract.go may trust the directories it remembers: no archive can make one a
\* link behind its back, so no name leads elsewhere than without them.
THEOREM CacheIsSafe == ExtractSpec => []CacheSafe
  BY ExtractInductive, SafeCache, PTL DEF ExtractInv

\* Layers as image tools write them unpack to the image their format defines.
THEOREM UnpackedIsImage == ExtractSpec => []IsImage
  BY ExtractInductive, PTL DEF ExtractInv
=============================================================================
