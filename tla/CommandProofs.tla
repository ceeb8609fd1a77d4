--------------------------- MODULE CommandProofs ---------------------------
(***************************************************************************)
(* Proofs about the commands that go file by file, and what runs them.     *)
(* Backup, for any files, phones and contents: its types, that a backup is *)
(* portable, and that it comes back as it was.  Steps, the runner of both  *)
(* commands' steps, for every number of steps: its types, that the steps   *)
(* are where idx says, and that RunSteps implements StepList.              *)
(***************************************************************************)
EXTENDS Backup, Steps, TLAPS

-----------------------------------------------------------------------------
(* The inductive invariant.                                                *)

Entries == archive.entries

\* What a name may have.
Content == Plain \cup Links

\* The data that entry i stands for is a file's, and is c.
DataAt(i, c) == Entries[i].what = c /\ c.kind = "file"

\* link2symlink's files are data, on this phone and in an archive.
DataFiles ==
    /\ \A g \in L2S : dir[g].kind # "link"
    /\ \A i \in DOMAIN Entries : Entries[i].name \in L2S => Entries[i].what.kind = "file"

\* An archive has a name once, and no hard links if it is an old one; while it
\* is written, its names are those the walk has passed.
Names1 ==
    /\ Len(Entries) <= Len(Walk)
    /\ proc.at = "backup" => Len(Entries) < proc.n
    /\ \A i, j \in DOMAIN Entries : Entries[i].name = Entries[j].name => i = j
    /\ ~archive.portable => \A i \in DOMAIN Entries : Entries[i].what.kind # "hard"
    /\ proc.at = "backup" =>
          /\ archive.portable /\ ~archive.closed
          /\ \A i \in DOMAIN Entries : \E k \in 1 .. proc.n - 1 : Entries[i].name = Walk[k]

\* The files of d, made at the phone here, are what the archive has and what
\* was read.
Mirrors(d, here) ==
    /\ Made(d, here)
    /\ \A i \in DOMAIN Entries : Entries[i].what = d[Entries[i].name]
    /\ \A n \in Names : d[n] # None => \E i \in DOMAIN Entries : Entries[i].name = n
    /\ \A n \in Names \ L2S : saved[n] = Reads(d, n, here)

\* An old archive has a distro's files as they were where they were made.
Old ==
    archive.closed /\ ~archive.portable =>
        \E d \in [Names -> Content], here \in Phones : Mirrors(d, here)

\* A backup holds what n read as, in its own entry or in the one that this
\* leads to; a link by the path it has inside the distro.
Holds(n) ==
    \E i \in DOMAIN Entries :
        /\ Entries[i].name = n
        /\ LET w == Entries[i].what IN
           \/ w.kind = "file" /\ saved[n] = w
           \/ w.kind = "link" /\ w.to \notin L2S /\ saved[n] = w /\ w = Link(w.to, "guest")
           \/ /\ w.kind = "hard"
              /\ \E j \in 1 .. i - 1 : Entries[j].name = w.to /\ DataAt(j, saved[n])

\* The files a backup answers for.
Kept == {n \in (Names \ L2S) \ touched : saved[n] # None}

\* They read as they did when the backup began.
Reading == proc.at = "backup" => \A n \in Kept : View[n] = saved[n]

\* The archive holds them: all of them once it is closed, and those that the
\* walk has passed before.
Archived ==
    /\ archive.closed /\ archive.portable => \A n \in Kept : Holds(n)
    /\ proc.at = "backup" =>
          \A k \in 1 .. proc.n - 1 : Walk[k] \in Kept => Holds(Walk[k])

\* The data of a data file that was written is under the name kept for it,
\* as long as the backup answers for a file that shares it.
Grouped ==
    proc.at = "backup" => \A g \in Names : written[g] # NoName =>
        \E j \in DOMAIN Entries :
            /\ Entries[j].name = written[g] /\ Entries[j].what.kind = "file"
            /\ (\E n \in Kept : L2SData(n) = g) => Entries[j].what = dir[g]

\* What a restore has extracted is what the archive says, but for the entries
\* that failed.
Placed(i) ==
    LET e == Entries[i] IN
    e.name \notin bad =>
        /\ e.what.kind # "hard" => dir[e.name] = e.what
        /\ e.what.kind = "hard" =>
              \A j \in 1 .. i - 1 :
                  Entries[j].name = e.what.to /\ Entries[j].what.kind = "file"
                    => dir[e.name] = Entries[j].what

Unpacked ==
    /\ proc.at = "delete" => proc.n = 1
    /\ proc.at = "extract" => \A i \in DOMAIN Entries : i < proc.n => Placed(i)
    /\ proc.at = "repair" => archive.closed /\ \A i \in DOMAIN Entries : Placed(i)

IInv ==
    /\ TypeOK /\ RoundTrip /\ Portable
    /\ DataFiles /\ Names1 /\ Old /\ Reading /\ Archived /\ Grouped /\ Unpacked

-----------------------------------------------------------------------------
(* What the walk and the entries are.                                      *)

LEMMA WalkFacts ==
    /\ Len(Walk) \in Nat \ {0} /\ DOMAIN Walk = 1 .. Len(Walk)
    /\ \A k \in 1 .. Len(Walk) : Walk[k] \in Names
    /\ \A i, j \in 1 .. Len(Walk) : Walk[i] = Walk[j] => i = j
    /\ \A n \in Names : \E k \in 1 .. Len(Walk) : Walk[k] = n
    /\ L2S \subseteq Names
<1>1. /\ Walk \in Seq(Names) /\ Walk # <<>> /\ L2S \subseteq Names
      /\ \A i, j \in DOMAIN Walk : Walk[i] = Walk[j] => i = j
  BY WalkAssumption DEF IsInjective
<1>2. Len(Walk) \in Nat \ {0} /\ DOMAIN Walk = 1 .. Len(Walk)
  BY <1>1
<1>3. Names = {Walk[k] : k \in 1 .. Len(Walk)}
  BY <1>2 DEF Names, ToSet
<1> QED
  BY <1>1, <1>2, <1>3

LEMMA LinkFacts ==
    \A n, by : /\ Link(n, by).kind = "link" /\ Link(n, by).to = n /\ Link(n, by).by = by
               /\ n \in Names /\ by \in Phones \cup {"guest"} => Link(n, by) \in Content
  BY DEF Link, Content, Links

LEMMA FileFacts ==
    \A c : /\ File(c).kind = "file" /\ File(c) # None
           /\ c \in Data => File(c) \in Plain /\ File(c) \in Content
  BY DEF File, None, Plain, Content

LEMMA NoneFacts == None.kind = "none" /\ None \in Plain /\ None \in Content
  BY DEF None, Plain, Content

LEMMA HardFacts ==
    \A n : Hard(n).kind = "hard" /\ Hard(n).to = n /\ Hard(n).by = "-"
  BY DEF Hard

LEMMA ContentFacts ==
    \A e \in Content :
        /\ e.kind \in {"none", "file", "link"}
        /\ e.kind = "none" <=> e = None
        /\ e.kind = "link" => e.to \in Names /\ e.by \in Phones \cup {"guest"}
        /\ e.kind # "link" => e.by = "-" /\ e \in Plain
<1> SUFFICES ASSUME NEW e \in Content
             PROVE  /\ e.kind \in {"none", "file", "link"}
                    /\ e.kind = "none" <=> e = None
                    /\ e.kind = "link" => e.to \in Names /\ e.by \in Phones \cup {"guest"}
                    /\ e.kind # "link" => e.by = "-" /\ e \in Plain
  OBVIOUS
<1>1. CASE e = None
  <2>1. None.kind = "none" /\ None.by = "-"
    BY DEF None
  <2> QED
    BY <1>1, <2>1, NoneFacts
<1>2. CASE e \in {File(c) : c \in Data}
  <2>1. PICK c \in Data : e = File(c)
    BY <1>2
  <2>2. File(c).kind = "file" /\ File(c).by = "-"
    BY DEF File
  <2> QED
    BY <2>1, <2>2, FileFacts
<1>3. CASE e \in Links
  <2>1. e.kind = "link" /\ e.to \in Names /\ e.by \in Phones \cup {"guest"}
    BY <1>3 DEF Links
  <2> QED
    BY <2>1, NoneFacts
<1> QED
  BY <1>1, <1>2, <1>3 DEF Content, Plain

LEMMA PlainFacts == \A e \in Plain : e.kind \in {"none", "file"} /\ e \in Content
<1> SUFFICES ASSUME NEW e \in Plain PROVE e.kind \in {"none", "file"} /\ e \in Content
  OBVIOUS
<1>1. e = None \/ \E c \in Data : e = File(c)
  BY DEF Plain
<1> QED
  BY <1>1, NoneFacts, FileFacts

\* What an entry may hold.
LEMMA EntryFacts ==
    ASSUME NEW n \in Names, NEW w
    PROVE  /\ w \in Content => [name |-> n, what |-> w] \in Entry
           /\ \A m \in Names : w = Hard(m) => [name |-> n, what |-> w] \in Entry
  BY DEF Entry, Content

LEMMA EntryParts ==
    \A e \in Entry : /\ e.name \in Names
                     /\ \/ e.what \in Content
                        \/ e.what.kind = "hard" /\ e.what.to \in Names
<1> SUFFICES ASSUME NEW e \in Entry
             PROVE  /\ e.name \in Names
                    /\ \/ e.what \in Content
                       \/ e.what.kind = "hard" /\ e.what.to \in Names
  OBVIOUS
<1>1. e.name \in Names /\ e.what \in Content \cup {Hard(n) : n \in Names}
  BY DEF Entry, Content
<1>2. CASE e.what \in {Hard(n) : n \in Names}
  <2>1. PICK n \in Names : e.what = Hard(n)
    BY <1>2
  <2> QED
    BY <1>1, <2>1, HardFacts
<1> QED
  BY <1>1, <1>2

LEMMA NoNameFacts == NoName \notin Names /\ "guest" \notin Phones /\ "-" \notin Phones
  BY PhonesAssumption

LEMMA NothingFacts == NothingWritten \in [Names -> Names \cup {NoName}]
                      /\ \A g \in Names : NothingWritten[g] = NoName
  BY DEF NothingWritten

\* TypeOK, with the entries by their parts.
LEMMA Types ==
    ASSUME TypeOK
    PROVE  /\ phone \in Phones /\ dir \in [Names -> Content]
           /\ archive \in [entries : Seq(Entry), closed : BOOLEAN, portable : BOOLEAN]
           /\ Entries \in Seq(Entry) /\ Len(Entries) \in Nat
           /\ DOMAIN Entries = 1 .. Len(Entries)
           /\ \A i \in DOMAIN Entries : Entries[i] \in Entry /\ Entries[i].name \in Names
           /\ archive.closed \in BOOLEAN /\ archive.portable \in BOOLEAN
           /\ proc \in [at : Stages, n : 1 .. Len(Walk) + 1]
           /\ proc.at \in Stages /\ proc.n \in 1 .. Len(Walk) + 1 /\ proc.n \in Nat
           /\ written \in [Names -> Names \cup {NoName}]
           /\ saved \in [Names \ L2S -> Content]
           /\ touched \subseteq Names /\ bad \subseteq Names
<1>1. /\ phone \in Phones /\ dir \in [Names -> Content]
      /\ written \in [Names -> Names \cup {NoName}] /\ saved \in [Names \ L2S -> Content]
      /\ archive \in [entries : Seq(Entry), closed : BOOLEAN, portable : BOOLEAN]
      /\ proc \in [at : Stages, n : 1 .. Len(Walk) + 1]
      /\ touched \subseteq Names /\ bad \subseteq Names
  BY DEF TypeOK, Content
<1>2. Entries \in Seq(Entry) /\ archive.closed \in BOOLEAN /\ archive.portable \in BOOLEAN
  BY <1>1 DEF Entries
<1>3. /\ Len(Entries) \in Nat /\ DOMAIN Entries = 1 .. Len(Entries)
      /\ \A i \in DOMAIN Entries : Entries[i] \in Entry
  BY <1>2
<1>4. proc.at \in Stages /\ proc.n \in 1 .. Len(Walk) + 1 /\ proc.n \in Nat
  BY <1>1, WalkFacts
<1> QED
  BY <1>1, <1>2, <1>3, <1>4, EntryParts

\* Where links lead.
LEMMA WayFacts ==
    ASSUME NEW d \in [Names -> Content], NEW n \in Names
    PROVE  /\ Hop(d, n) \in Names /\ Hop(d, Hop(d, n)) \in Names /\ End(d, n) \in Names
           /\ n \in Way(d, n) /\ Hop(d, n) \in Way(d, n) /\ Hop(d, Hop(d, n)) \in Way(d, n)
           /\ End(d, n) \in Way(d, n) /\ Way(d, n) \subseteq Names
           /\ d[n].kind = "link" => d[n].to \in Names /\ d[n].to \in Way(d, n)
           /\ d[n].kind # "link" => Hop(d, n) = n /\ End(d, n) = n /\ Way(d, n) = {n}
<1>1. \A m \in Names : d[m].kind = "link" => d[m].to \in Names
  BY ContentFacts
<1>2. \A m \in Names : Hop(d, m) \in Names
  BY <1>1 DEF Hop
<1>3. d[n].kind = "link" => Hop(d, n) = d[n].to
  BY DEF Hop
<1>4. d[n].kind # "link" => Hop(d, n) = n
  BY DEF Hop
<1>5. Way(d, n) = {n, Hop(d, n), Hop(d, Hop(d, n)), End(d, n)} /\ End(d, n) = Hop(d, Hop(d, Hop(d, n)))
  BY DEF Way, End
<1> QED
  BY <1>1, <1>2, <1>3, <1>4, <1>5

\* Two states of the files that agree along the way of n read n alike.
LEMMA SameWay ==
    ASSUME NEW d, NEW e, NEW n, NEW here, \A m \in Way(d, n) : e[m] = d[m]
    PROVE  /\ Way(e, n) = Way(d, n) /\ End(e, n) = End(d, n)
           /\ e[n] = d[n] /\ e[End(d, n)] = d[End(d, n)]
           /\ Ordinary(e, n) = Ordinary(d, n)
           /\ Reads(e, n, here) = Reads(d, n, here)
<1> DEFINE a == Hop(d, n)
           b == Hop(d, a)
           c == Hop(d, b)
<1>1. Way(d, n) = {n, a, b, c} /\ End(d, n) = c
  BY DEF Way, End
<1>2. e[n] = d[n] /\ e[a] = d[a] /\ e[b] = d[b] /\ e[c] = d[c]
  BY <1>1
<1>3. Hop(e, n) = a /\ Hop(e, a) = b /\ Hop(e, b) = c
  BY <1>2 DEF Hop
<1>4. Way(e, n) = {n, a, b, c} /\ End(e, n) = c
  BY <1>3 DEF Way, End
<1>5. d[n].kind = "link" => a = d[n].to
  BY DEF Hop
<1>6. Ordinary(e, n) = Ordinary(d, n)
  BY <1>2, <1>5 DEF Ordinary
<1> HIDE DEF a, b, c
<1>7. (\E m \in Way(e, n) : e[m].kind = "link" /\ e[m].by \notin {"guest", here})
        <=> (\E m \in Way(d, n) : d[m].kind = "link" /\ d[m].by \notin {"guest", here})
  BY <1>1, <1>4
<1>8. Reads(e, n, here) = Reads(d, n, here)
  BY <1>1, <1>2, <1>4, <1>6, <1>7 DEF Reads
<1> QED
  BY <1>1, <1>2, <1>4, <1>6, <1>8

\* The data file that n leads to.
LEMMA L2SDataFacts ==
    ASSUME TypeOK, NEW n \in Names
    PROVE  IF dir[n].kind = "link" /\ ~Ordinary(dir, n) /\ dir[End(dir, n)].kind = "file"
           THEN /\ L2SData(n) = End(dir, n) /\ L2SData(n) \in Names /\ L2SData(n) # NoName
                /\ L2SData(n) \in Way(dir, n)
           ELSE L2SData(n) = NoName
<1>1. End(dir, n) \in Names /\ End(dir, n) \in Way(dir, n)
  BY Types, WayFacts
<1> QED
  BY <1>1, NoNameFacts DEF L2SData

LEMMA ReadsFacts ==
    ASSUME NEW d \in [Names -> Content], NEW n \in Names, NEW here
    PROVE  /\ Reads(d, n, here) \in Content
           /\ d[n].kind # "link" => Reads(d, n, here) = d[n]
           /\ d[n] = None => Reads(d, n, here) = None
           /\ d[n].kind = "link" /\ (\A m \in Way(d, n) : d[m].kind = "link" => d[m].by \in {"guest", here}) =>
                 Reads(d, n, here) = IF Ordinary(d, n) THEN Link(d[n].to, "guest")
                                     ELSE IF d[End(d, n)].kind = "link" THEN None ELSE d[End(d, n)]
           /\ d[n].kind = "link" /\ Reads(d, n, here) # None =>
                 IF Ordinary(d, n) THEN Reads(d, n, here) = Link(d[n].to, "guest")
                 ELSE d[End(d, n)].kind = "file" /\ Reads(d, n, here) = d[End(d, n)]
<1>1. d[n] \in Content /\ d[End(d, n)] \in Content /\ (d[n].kind = "link" => d[n].to \in Names)
  BY WayFacts, ContentFacts
<1>2. d[n].kind = "link" => Link(d[n].to, "guest") \in Content
  BY <1>1, LinkFacts
<1>3. None \in Content /\ None.kind = "none"
  BY NoneFacts
<1>4. d[End(d, n)].kind \in {"none", "file", "link"} /\ (d[End(d, n)].kind = "none" <=> d[End(d, n)] = None)
  BY <1>1, ContentFacts
<1>5. Reads(d, n, here) =
        IF d[n].kind # "link" THEN d[n]
        ELSE IF \E m \in Way(d, n) : d[m].kind = "link" /\ d[m].by \notin {"guest", here} THEN None
        ELSE IF Ordinary(d, n) THEN Link(d[n].to, "guest")
        ELSE IF d[End(d, n)].kind = "link" THEN None ELSE d[End(d, n)]
  BY DEF Reads
<1>6. Reads(d, n, here) \in Content
  BY <1>1, <1>2, <1>3, <1>5
<1>7. d[n].kind # "link" => Reads(d, n, here) = d[n]
  BY <1>5
<1>8. d[n] = None => Reads(d, n, here) = None
  BY <1>3, <1>7
<1>9. d[n].kind = "link" /\ (\A m \in Way(d, n) : d[m].kind = "link" => d[m].by \in {"guest", here}) =>
        Reads(d, n, here) = IF Ordinary(d, n) THEN Link(d[n].to, "guest")
                            ELSE IF d[End(d, n)].kind = "link" THEN None ELSE d[End(d, n)]
  BY <1>5
<1>10. d[n].kind = "link" /\ Reads(d, n, here) # None =>
         IF Ordinary(d, n) THEN Reads(d, n, here) = Link(d[n].to, "guest")
         ELSE d[End(d, n)].kind = "file" /\ Reads(d, n, here) = d[End(d, n)]
  BY <1>4, <1>5
<1> QED
  BY <1>6, <1>7, <1>8, <1>9, <1>10

LEMMA ViewFacts ==
    ASSUME TypeOK
    PROVE  /\ View \in [Names \ L2S -> Content]
           /\ \A n \in Names \ L2S : View[n] = Reads(dir, n, phone)
<1>1. \A n \in Names \ L2S : Reads(dir, n, phone) \in Content
  BY Types, ReadsFacts
<1> QED
  BY <1>1 DEF View

-----------------------------------------------------------------------------
(* What carries the invariant through the steps that leave parts alone.    *)

\* The conjuncts that are about the archive and the backup under way.
Lasting == Portable /\ Names1 /\ Old /\ Reading /\ Archived /\ Grouped

LEMMA HoldsStays ==
    ASSUME UNCHANGED <<archive, saved>>
    PROVE  /\ \A n : Holds(n)' <=> Holds(n)
           /\ \A d, here : Mirrors(d, here)' <=> Mirrors(d, here)
           /\ Old' <=> Old
<1>1. Entries' = Entries /\ saved' = saved
  BY DEF Entries
<1>2. ASSUME NEW n PROVE Holds(n)' <=> Holds(n)
  BY <1>1 DEF Holds, DataAt
<1>3. ASSUME NEW d, NEW here PROVE Mirrors(d, here)' <=> Mirrors(d, here)
  BY <1>1 DEF Mirrors
<1> QED
  BY <1>2, <1>3 DEF Old

\* No backup runs after the step, and it left the archive as it was.
LEMMA Still ==
    ASSUME IInv, UNCHANGED <<archive, saved, touched>>, TypeOK', proc'.at # "backup",
           \A g \in L2S : dir'[g].kind # "link"
    PROVE  DataFiles' /\ Lasting'
<1>1. Entries' = Entries /\ Kept' = Kept
  BY DEF Entries, Kept
<1>2. DataFiles'
  BY <1>1 DEF IInv, DataFiles
<1>3. Portable'
  BY <1>1 DEF IInv, Portable
<1>4. Names1'
  BY <1>1 DEF IInv, Names1
<1>5. Reading' /\ Grouped'
  BY DEF Reading, Grouped
<1>6. Archived'
  <2>1. archive'.closed /\ archive'.portable => \A n \in Kept' : Holds(n)'
    BY <1>1, HoldsStays DEF IInv, Archived
  <2> QED
    BY <2>1 DEF Archived
<1>7. Old'
  BY HoldsStays DEF IInv
<1> QED
  BY <1>2, <1>3, <1>4, <1>5, <1>6, <1>7 DEF Lasting

\* Nor does a restore.
LEMMA Calm ==
    ASSUME IInv, UNCHANGED <<archive, saved, touched>>, TypeOK', proc'.at = "idle",
           \A g \in L2S : dir'[g].kind # "link"
    PROVE  IInv'
<1>1. RoundTrip' /\ Unpacked'
  BY DEF RoundTrip, Unpacked
<1> QED
  BY <1>1, Still DEF IInv, Lasting

\* The archive is empty and open, and no command runs.
LEMMA Fresh ==
    ASSUME archive.entries = <<>>, ~archive.closed, TypeOK, proc.at = "idle",
           \A g \in L2S : dir[g].kind # "link"
    PROVE  IInv
<1>1. Entries = <<>> /\ DOMAIN Entries = {} /\ Len(Entries) = 0
  BY DEF Entries
<1>2. RoundTrip /\ Unpacked /\ Reading /\ Grouped
  BY DEF RoundTrip, Unpacked, Reading, Grouped
<1>3. Portable /\ DataFiles
  BY <1>1 DEF Portable, DataFiles, Entries
<1>4. Names1
  BY <1>1, WalkFacts DEF Names1
<1>5. Archived /\ Old
  BY DEF Archived, Old
<1> QED
  BY <1>2, <1>3, <1>4, <1>5 DEF IInv

\* The same of the state after a step.
LEMMA FreshNext ==
    ASSUME archive'.entries = <<>>, ~archive'.closed, TypeOK', proc'.at = "idle",
           \A g \in L2S : dir'[g].kind # "link"
    PROVE  IInv'
<1>1. Entries' = <<>> /\ DOMAIN Entries' = {} /\ Len(Entries') = 0
  BY DEF Entries
<1>2. RoundTrip' /\ Unpacked' /\ Reading' /\ Grouped'
  BY DEF RoundTrip, Unpacked, Reading, Grouped
<1>3. Portable' /\ DataFiles'
  BY <1>1 DEF Portable, DataFiles, Entries
<1>4. Names1'
  BY <1>1, WalkFacts DEF Names1
<1>5. Archived' /\ Old'
  BY DEF Archived, Old
<1> QED
  BY <1>2, <1>3, <1>4, <1>5 DEF IInv

\* What a program in the distro does during a backup: what is read through what
\* it changed is touched, and so the files the backup answers for are as they
\* were.
LEMMA UserStep ==
    ASSUME IInv, proc.at = "backup", UNCHANGED <<phone, archive, proc, written, saved>>,
           touched \subseteq touched', TypeOK',
           \A g \in L2S : dir'[g].kind # "link",
           \A m \in Kept' : \A k \in Way(dir, m) : dir'[k] = dir[k]
    PROVE  IInv'
<1> USE DEF IInv
<1>1. Entries' = Entries /\ Kept' \subseteq Kept /\ Kept \subseteq Names \ L2S
  BY DEF Entries, Kept
<1>2. RoundTrip' /\ Unpacked' /\ Portable' /\ Names1' /\ DataFiles'
  BY <1>1 DEF RoundTrip, Unpacked, Portable, Names1, DataFiles
<1>3. Reading'
  <2>1. ASSUME NEW m \in Kept' PROVE View'[m] = saved'[m]
    <3>1. m \in Names \ L2S /\ View[m] = saved[m]
      BY <1>1 DEF Reading
    <3>2. View'[m] = Reads(dir', m, phone') /\ View[m] = Reads(dir, m, phone)
      BY <3>1, ViewFacts DEF View
    <3>3. Reads(dir', m, phone') = Reads(dir, m, phone)
      BY SameWay
    <3> QED
      BY <3>1, <3>2, <3>3
  <2> QED
    BY <2>1 DEF Reading
<1>4. Archived' /\ Old'
  <2>1. (\A n : Holds(n)' <=> Holds(n)) /\ Old'
    BY HoldsStays
  <2> QED
    BY <1>1, <2>1 DEF Archived
<1>5. Grouped'
  <2>1. ASSUME NEW g \in Names, written'[g] # NoName
        PROVE  \E j \in DOMAIN Entries' :
                 /\ Entries'[j].name = written'[g] /\ Entries'[j].what.kind = "file"
                 /\ (\E n \in Kept' : L2SData(n)' = g) => Entries'[j].what = dir'[g]
    <3>1. PICK j \in DOMAIN Entries :
             /\ Entries[j].name = written[g] /\ Entries[j].what.kind = "file"
             /\ (\E n \in Kept : L2SData(n) = g) => Entries[j].what = dir[g]
      BY <2>1 DEF Grouped
    <3>2. ASSUME NEW n \in Kept', L2SData(n)' = g PROVE L2SData(n) = g /\ dir'[g] = dir[g]
      <4>1. g # NoName /\ n \in Names
        BY <1>1, NoNameFacts
      <4>2. /\ dir'[n].kind = "link" /\ ~Ordinary(dir', n) /\ dir'[End(dir', n)].kind = "file"
            /\ g = End(dir', n)
        BY <3>2, <4>1 DEF L2SData
      <4>3. /\ End(dir', n) = End(dir, n) /\ dir'[n] = dir[n] /\ dir'[End(dir, n)] = dir[End(dir, n)]
            /\ Ordinary(dir', n) = Ordinary(dir, n)
        BY SameWay
      <4> QED
        BY <4>2, <4>3 DEF L2SData
    <3> QED
      BY <1>1, <3>1, <3>2
  <2> QED
    BY <2>1 DEF Grouped
<1> QED
  BY <1>2, <1>3, <1>4, <1>5

\* Nothing but steady changes.
LEMMA Steadied ==
    ASSUME IInv, steady' \in BOOLEAN,
           UNCHANGED <<phone, dir, archive, proc, written, saved, touched, bad>>
    PROVE  IInv'
<1>1. Entries' = Entries /\ Kept' = Kept /\ View' = View
  BY DEF Entries, Kept, View
<1>2. TypeOK'
  BY DEF IInv, TypeOK
<1>3. RoundTrip' /\ Portable' /\ DataFiles' /\ Names1' /\ Reading'
  BY <1>1 DEF IInv, RoundTrip, Portable, DataFiles, Names1, Reading, Kept
<1>4. Archived' /\ Old'
  <2>1. (\A n : Holds(n)' <=> Holds(n)) /\ Old'
    BY HoldsStays DEF IInv
  <2> QED
    BY <1>1, <2>1 DEF IInv, Archived
<1>5. Grouped'
  <2>1. \A n : L2SData(n)' = L2SData(n)
    BY DEF L2SData
  <2> QED
    BY <1>1, <2>1 DEF IInv, Grouped
<1>6. Unpacked'
  <2>1. \A i : Placed(i)' <=> Placed(i)
    BY <1>1 DEF Placed
  <2> QED
    BY <1>1, <2>1 DEF IInv, Unpacked
<1> QED
  BY <1>2, <1>3, <1>4, <1>5, <1>6 DEF IInv

-----------------------------------------------------------------------------
(* The initial states.                                                     *)

\* An archive of the files there were, at a phone where the distro was made.
LEMMA OldFacts ==
    ASSUME NEW d \in [Names -> Content], NEW a, OldBackup(d, a)
    PROVE  /\ a \in [entries : Seq(Entry), closed : BOOLEAN, portable : BOOLEAN]
           /\ a.closed /\ ~a.portable
           /\ Len(a.entries) \in Nat /\ Len(a.entries) <= Len(Walk)
           /\ DOMAIN a.entries = 1 .. Len(a.entries)
           /\ \A i, j \in DOMAIN a.entries : a.entries[i].name = a.entries[j].name => i = j
           /\ \A i \in DOMAIN a.entries : /\ a.entries[i].name \in Names
                                          /\ a.entries[i].what = d[a.entries[i].name]
                                          /\ a.entries[i].what # None
           /\ \A n \in Names : d[n] # None => \E i \in DOMAIN a.entries : a.entries[i].name = n
<1>0. PICK k \in 0 .. Len(Walk) : \E at \in [1 .. k -> 1 .. Len(Walk)] :
         /\ \A i, j \in 1 .. k : i < j => at[i] < at[j]
         /\ {Walk[at[i]] : i \in 1 .. k} = {n \in Names : d[n] # None}
         /\ a = [entries |-> [i \in 1 .. k |-> [name |-> Walk[at[i]], what |-> d[Walk[at[i]]]]],
                 closed |-> TRUE, portable |-> FALSE]
  BY DEF OldBackup
<1>1. PICK at \in [1 .. k -> 1 .. Len(Walk)] :
         /\ \A i, j \in 1 .. k : i < j => at[i] < at[j]
         /\ {Walk[at[i]] : i \in 1 .. k} = {n \in Names : d[n] # None}
         /\ a = [entries |-> [i \in 1 .. k |-> [name |-> Walk[at[i]], what |-> d[Walk[at[i]]]]],
                 closed |-> TRUE, portable |-> FALSE]
  BY <1>0
<1> DEFINE w(i) == Walk[at[i]]
           s == [i \in 1 .. k |-> [name |-> w(i), what |-> d[w(i)]]]
<1>2. /\ k \in Nat /\ k <= Len(Walk) /\ Len(Walk) \in Nat
      /\ \A i \in 1 .. k : at[i] \in 1 .. Len(Walk) /\ w(i) \in Names /\ d[w(i)] # None
  <2>1. Len(Walk) \in Nat /\ \A i \in 1 .. k : at[i] \in 1 .. Len(Walk)
    BY WalkFacts
  <2>2. \A i \in 1 .. k : w(i) \in {n \in Names : d[n] # None}
    BY <1>1
  <2> QED
    BY <2>1, <2>2
<1>3. a.entries = s /\ a.closed = TRUE /\ a.portable = FALSE
  BY <1>1
<1>4. \A i \in 1 .. k : [name |-> w(i), what |-> d[w(i)]] \in Entry
  <2>1. ASSUME NEW i \in 1 .. k PROVE [name |-> w(i), what |-> d[w(i)]] \in Entry
    <3>1. w(i) \in Names /\ d[w(i)] \in Content
      BY <1>2
    <3> HIDE DEF w
    <3> QED
      BY <3>1, EntryFacts
  <2> QED
    BY <2>1
<1>5. s \in Seq(Entry) /\ Len(s) = k /\ DOMAIN s = 1 .. k
  <2> HIDE DEF w
  <2> QED
    BY <1>2, <1>4
<1>6. \A i \in 1 .. k : s[i].name = w(i) /\ s[i].what = d[w(i)]
  <2> HIDE DEF w
  <2> QED
    OBVIOUS
<1>7. \A i, j \in 1 .. k : w(i) = w(j) => i = j
  <2>1. ASSUME NEW i \in 1 .. k, NEW j \in 1 .. k, w(i) = w(j) PROVE i = j
    <3>1. at[i] = at[j]
      BY <2>1, <1>2, WalkFacts
    <3>2. at[i] \in Nat /\ ~(i < j) /\ ~(j < i)
      BY <3>1, <1>1, <1>2
    <3> QED
      BY <3>2, <1>2
  <2> QED
    BY <2>1
<1>8. \A n \in Names : d[n] # None => \E i \in 1 .. k : w(i) = n
  <2>1. ASSUME NEW n \in Names, d[n] # None PROVE \E i \in 1 .. k : w(i) = n
    <3>1. n \in {Walk[at[i]] : i \in 1 .. k}
      BY <1>1, <2>1
    <3> QED
      BY <3>1
  <2> QED
    BY <2>1
<1>9. a \in [entries : Seq(Entry), closed : BOOLEAN, portable : BOOLEAN]
  <2>1. a = [entries |-> s, closed |-> TRUE, portable |-> FALSE]
    BY <1>1
  <2> HIDE DEF s
  <2> QED
    BY <2>1, <1>5
<1> HIDE DEF s, w
<1>10. /\ DOMAIN a.entries = 1 .. k /\ Len(a.entries) = k
       /\ \A i \in 1 .. k : a.entries[i].name = w(i) /\ a.entries[i].what = d[w(i)]
  BY <1>3, <1>5, <1>6
<1>11. \A i, j \in 1 .. k : a.entries[i].name = a.entries[j].name => i = j
  BY <1>7, <1>10
<1>12. \A i \in 1 .. k : /\ a.entries[i].name \in Names
                         /\ a.entries[i].what = d[a.entries[i].name]
                         /\ a.entries[i].what # None
  BY <1>2, <1>10
<1>13. \A n \in Names : d[n] # None => \E i \in 1 .. k : a.entries[i].name = n
  BY <1>8, <1>10
<1> QED
  BY <1>2, <1>3, <1>9, <1>10, <1>11, <1>12, <1>13

LEMMA IdleFacts == Idle.at = "idle" /\ Idle \in [at : Stages, n : 1 .. Len(Walk) + 1]
  BY WalkFacts DEF Idle, Stages

LEMMA NoArchiveFacts ==
    /\ NoArchive \in [entries : Seq(Entry), closed : BOOLEAN, portable : BOOLEAN]
    /\ NoArchive.entries = <<>> /\ NoArchive.closed = FALSE
<1>1. <<>> \in Seq(Entry)
  OBVIOUS
<1> QED
  BY <1>1 DEF NoArchive

LEMMA InitTypes ==
    ASSUME phone \in Phones, dir \in [Names -> Content], proc = Idle,
           archive \in [entries : Seq(Entry), closed : BOOLEAN, portable : BOOLEAN],
           written = NothingWritten, saved \in [Names \ L2S -> Content],
           steady = FALSE, touched = {}, bad = {}
    PROVE  TypeOK
  BY IdleFacts, NothingFacts DEF TypeOK, Content

LEMMA InitIInv == Init => IInv
<1> SUFFICES ASSUME Init PROVE IInv
  OBVIOUS
<1>1. PICK d \in [Names -> Content], here \in Phones :
         /\ Made(d, here)
         /\ \/ /\ here = phone /\ dir = d /\ archive = NoArchive
               /\ saved = [n \in Names \ L2S |-> None]
            \/ /\ here # phone /\ dir = [n \in Names |-> None] /\ OldBackup(d, archive)
               /\ saved = [n \in Names \ L2S |-> Reads(d, n, here)]
  BY DEF Init, Content
<1>2. /\ phone \in Phones /\ proc = Idle /\ written = NothingWritten
      /\ steady = FALSE /\ touched = {} /\ bad = {} /\ proc.at = "idle"
  BY IdleFacts DEF Init
<1>3. L2S \subseteq Names
  BY WalkFacts
<1>4. CASE /\ dir = d /\ archive = NoArchive
           /\ saved = [n \in Names \ L2S |-> None]
  <2>1. TypeOK
    BY <1>2, <1>4, InitTypes, NoArchiveFacts, NoneFacts
  <2>2. \A g \in L2S : dir[g].kind # "link"
    BY <1>1, <1>3, <1>4 DEF Made
  <2> QED
    BY <1>2, <1>4, <2>1, <2>2, Fresh, NoArchiveFacts
<1>5. CASE /\ dir = [n \in Names |-> None] /\ OldBackup(d, archive)
           /\ saved = [n \in Names \ L2S |-> Reads(d, n, here)]
  <2>1. /\ archive \in [entries : Seq(Entry), closed : BOOLEAN, portable : BOOLEAN]
        /\ archive.closed /\ ~archive.portable
        /\ Len(Entries) \in Nat /\ Len(Entries) <= Len(Walk)
        /\ DOMAIN Entries = 1 .. Len(Entries)
        /\ \A i, j \in DOMAIN Entries : Entries[i].name = Entries[j].name => i = j
        /\ \A i \in DOMAIN Entries : /\ Entries[i].name \in Names
                                     /\ Entries[i].what = d[Entries[i].name]
                                     /\ Entries[i].what # None
        /\ \A n \in Names : d[n] # None => \E i \in DOMAIN Entries : Entries[i].name = n
    BY <1>5, OldFacts DEF Entries
  <2>2. saved \in [Names \ L2S -> Content] /\ dir \in [Names -> Content]
    BY <1>5, ReadsFacts, NoneFacts
  <2>3. TypeOK
    BY <1>2, <2>1, <2>2, InitTypes
  <2>4. \A i \in DOMAIN Entries : Entries[i].what \in Content /\ Entries[i].what.kind \in {"file", "link"}
    BY <2>1, ContentFacts
  <2>5. DataFiles
    <3>1. \A g \in L2S : dir[g].kind # "link"
      BY <1>3, <1>5, NoneFacts
    <3>2. \A i \in DOMAIN Entries : Entries[i].name \in L2S => Entries[i].what.kind = "file"
      BY <1>1, <1>3, <2>1, <2>4 DEF Made
    <3> QED
      BY <3>1, <3>2 DEF DataFiles
  <2>6. Names1
    BY <1>2, <2>1, <2>4 DEF Names1
  <2>7. Archived
    BY <1>2, <2>1 DEF Archived
  <2>8. Mirrors(d, here)
    BY <1>1, <1>5, <2>1 DEF Mirrors
  <2>9. Old
    BY <2>8 DEF Old
  <2>10. RoundTrip /\ Portable /\ Reading /\ Grouped /\ Unpacked
    BY <1>2, <2>1 DEF RoundTrip, Portable, Reading, Grouped, Unpacked
  <2> QED
    BY <2>3, <2>5, <2>6, <2>7, <2>9, <2>10 DEF IInv
<1> QED
  BY <1>1, <1>4, <1>5

-----------------------------------------------------------------------------
(* The user's steps, and what only ends a command.                         *)

LEMMA SettleStep == IInv /\ Settle => IInv'
  BY Steadied DEF Settle

LEMMA NewPhoneStep == IInv /\ NewPhone => IInv'
<1> SUFFICES ASSUME IInv, NewPhone PROVE IInv'
  OBVIOUS
<1>1. dir' \in [Names -> Content] /\ \A g \in L2S : dir'[g].kind # "link"
  BY NoneFacts, WalkFacts DEF NewPhone
<1>2. TypeOK'
  BY <1>1 DEF IInv, NewPhone, TypeOK, Content
<1> QED
  BY <1>1, <1>2, Calm DEF NewPhone

\* The user changes only what is not link2symlink's link, and what the change
\* is read through is touched.
LEMMA UserChange ==
    ASSUME IInv, NEW S, proc.at \in {"idle", "backup"},
           UNCHANGED <<phone, archive, proc, written, steady, saved, bad>>,
           dir' \in [Names -> Content], \A g \in L2S : dir'[g].kind # "link",
           \A m \in Names \ S : dir'[m] = dir[m],
           touched' = IF proc.at = "backup" THEN touched \cup Through(S) ELSE touched
    PROVE  IInv'
<1>1. TypeOK'
  BY DEF IInv, TypeOK, Content, Through
<1>2. CASE proc.at # "backup"
  BY <1>1, <1>2, Calm
<1>3. CASE proc.at = "backup"
  <2>1. ASSUME NEW m \in Kept', NEW k \in Way(dir, m) PROVE dir'[k] = dir[k]
    <3>1. m \in Names /\ Way(dir, m) \cap S = {}
      BY <1>3, <2>1 DEF Kept, Through
    <3>2. k \in Names
      BY <3>1, <2>1, Types, WayFacts DEF IInv
    <3> QED
      BY <2>1, <3>1, <3>2
  <2> QED
    BY <1>1, <1>3, <2>1, UserStep
<1> QED
  BY <1>2, <1>3

LEMMA EditStep ==
    ASSUME IInv, NEW n \in Names, NEW c \in Data \cup {Deleted}, Edit(n, c)
    PROVE  IInv'
<1>1. /\ TypeOK /\ n \notin L2S /\ proc.at \in {"idle", "backup"} /\ L2S \subseteq Names
      /\ UNCHANGED <<phone, archive, proc, written, steady, saved, bad>>
      /\ \A h \in L2S : dir[h].kind # "link"
      /\ touched' = IF proc.at = "backup" THEN touched \cup Through(Way(dir, n)) ELSE touched
  BY WalkFacts DEF Edit, IInv, DataFiles
<1>2. dir \in [Names -> Content] /\ n \in Way(dir, n)
  BY <1>1, Types, WayFacts
<1>3. PICK t \in Way(dir, n), new \in Plain : dir' = [dir EXCEPT ![t] = new]
  <2>1. CASE c = Deleted
    BY <1>2, <2>1, NoneFacts DEF Edit
  <2>2. CASE c # Deleted
    <3>1. File(c) \in Plain
      BY <2>2, FileFacts
    <3>2. L2SData(n) # NoName => L2SData(n) \in Way(dir, n)
      BY <1>1, L2SDataFacts
    <3> QED
      BY <1>2, <2>2, <3>1, <3>2 DEF Edit
  <2> QED
    BY <2>1, <2>2
<1>4. t \in Names /\ new \in Content /\ new.kind # "link"
  BY <1>2, <1>3, WayFacts, PlainFacts
<1>5. /\ dir' \in [Names -> Content] /\ \A h \in L2S : dir'[h].kind # "link"
      /\ \A m \in Names \ Way(dir, n) : dir'[m] = dir[m]
  BY <1>1, <1>2, <1>3, <1>4
<1> QED
  BY <1>1, <1>5, UserChange

LEMMA HardLinkStep ==
    ASSUME IInv, NEW n \in Names, NEW m \in Names, NEW g \in L2S, HardLink(n, m, g)
    PROVE  IInv'
<1>1. /\ TypeOK /\ n \notin L2S /\ m \notin L2S /\ L2S \subseteq Names
      /\ proc.at \in {"idle", "backup"}
      /\ UNCHANGED <<phone, archive, proc, written, steady, saved, bad>>
      /\ dir[n].kind = "file" /\ phone \in Phones
      /\ dir' = [dir EXCEPT ![g] = dir[n], ![n] = Link(g, phone), ![m] = Link(g, phone)]
      /\ \A h \in L2S : dir[h].kind # "link"
      /\ touched' = IF proc.at = "backup" THEN touched \cup Through({n, m, g}) ELSE touched
  BY WalkFacts, Types DEF HardLink, IInv, DataFiles
<1>2. dir \in [Names -> Content] /\ g \in Names /\ Link(g, phone) \in Content
  BY <1>1, Types, LinkFacts
<1>3. /\ dir' \in [Names -> Content] /\ \A h \in L2S : dir'[h].kind # "link"
      /\ \A x \in Names \ {n, m, g} : dir'[x] = dir[x]
  BY <1>1, <1>2
<1> QED
  BY <1>1, <1>3, UserChange

-----------------------------------------------------------------------------
(* Backup.                                                                 *)

LEMMA StartBackupStep == IInv /\ StartBackup => IInv'
<1> SUFFICES ASSUME IInv, StartBackup PROVE IInv'
  OBVIOUS
<1>1. /\ archive'.entries = <<>> /\ archive'.closed = FALSE /\ archive'.portable = TRUE
      /\ archive' \in [entries : Seq(Entry), closed : BOOLEAN, portable : BOOLEAN]
  <2>1. archive' = [NoArchive EXCEPT !.portable = TRUE]
    BY DEF StartBackup
  <2> HIDE DEF NoArchive
  <2> QED
    BY <2>1, NoArchiveFacts
<1>2. proc'.at = "backup" /\ proc'.n = 1 /\ proc' \in [at : Stages, n : 1 .. Len(Walk) + 1]
  BY WalkFacts DEF StartBackup, Stages
<1>3. UNCHANGED <<phone, dir, steady, bad>> /\ saved' = View /\ touched' = {} /\ written' = NothingWritten
  BY DEF StartBackup
<1>4. View' = View
  BY <1>3 DEF View
<1>5. TypeOK'
  <2>1. View \in [Names \ L2S -> Plain \cup Links]
    BY ViewFacts DEF IInv, Content
  <2> QED
    BY <1>1, <1>2, <1>3, <2>1, NothingFacts DEF IInv, TypeOK
<1>6. Entries' = <<>> /\ DOMAIN Entries' = {} /\ Len(Entries') = 0
  BY <1>1 DEF Entries
<1>7. DataFiles' /\ Portable'
  BY <1>3, <1>6 DEF IInv, DataFiles, Portable, Entries
<1>8. Names1'
  BY <1>1, <1>2, <1>6, WalkFacts DEF Names1
<1>9. Reading' /\ Old'
  BY <1>1, <1>3, <1>4 DEF Reading, Old
<1>10. Archived'
  BY <1>1, <1>2 DEF Archived
<1>11. Grouped'
  BY <1>3, NothingFacts DEF Grouped
<1>12. RoundTrip' /\ Unpacked'
  BY <1>2 DEF RoundTrip, Unpacked
<1> QED
  BY <1>5, <1>7, <1>8, <1>9, <1>10, <1>11, <1>12 DEF IInv

\* What a file is written as.
LEMMA BackedUpFacts ==
    ASSUME IInv, proc.at = "backup", NEW n \in Names \ L2S, dir[n] # None
    PROVE  LET g == L2SData(n)
               w == BackedUp(n)
           IN  \/ /\ g = NoName /\ dir[n].kind = "link"
                  /\ w = Link(dir[n].to, "guest") /\ w \in Content /\ w.kind = "link" /\ w.by = "guest"
               \/ /\ g = NoName /\ dir[n].kind = "file"
                  /\ w = dir[n] /\ w \in Content /\ w.by = "-"
               \/ /\ g \in Names /\ g # NoName
                  /\ written[g] = NoName
                  /\ w = dir[g] /\ w \in Content /\ w.kind = "file" /\ w.by = "-"
               \/ /\ g \in Names /\ g # NoName
                  /\ written[g] \in Names /\ written[g] # NoName
                  /\ w = Hard(written[g]) /\ w.kind = "hard" /\ w.to = written[g] /\ w.by = "-"
<1> DEFINE g == L2SData(n)
           w == BackedUp(n)
<1>1. dir[n] \in Content /\ dir[n].kind \in {"file", "link"} /\ TypeOK
  BY Types, ContentFacts DEF IInv
<1>2. CASE g = NoName
  <2>1. CASE dir[n].kind = "link"
    <3>1. w = Link(dir[n].to, "guest")
      BY <1>2, <2>1 DEF BackedUp, GuestTarget
    <3>2. dir[n].to \in Names
      BY <1>1, <2>1, ContentFacts
    <3> QED
      BY <1>2, <2>1, <3>1, <3>2, LinkFacts
  <2>2. CASE dir[n].kind = "file"
    <3>1. w = dir[n] /\ w.by = "-"
      BY <1>1, <1>2, <2>2, ContentFacts DEF BackedUp
    <3> QED
      BY <1>1, <1>2, <2>2, <3>1
  <2> QED
    BY <1>1, <2>1, <2>2
<1>3. CASE g # NoName
  <2>1. g \in Names /\ dir[g].kind = "file"
    BY <1>1, <1>3, L2SDataFacts
  <2>2. dir[g] \in Content /\ written[g] \in Names \cup {NoName}
    BY <1>1, <2>1, Types
  <2>3. w = IF written[g] = NoName THEN dir[g] ELSE Hard(written[g])
    BY <1>3 DEF BackedUp
  <2>4. dir[g].by = "-"
    BY <2>1, <2>2, ContentFacts
  <2> HIDE DEF g, w
  <2>5. CASE written[g] = NoName
    BY <1>3, <2>1, <2>2, <2>3, <2>4, <2>5 DEF g, w
  <2>6. CASE written[g] # NoName
    BY <1>3, <2>1, <2>2, <2>3, <2>6, HardFacts DEF g, w
  <2> QED
    BY <2>5, <2>6
<1> QED
  BY <1>2, <1>3

LEMMA SkipStep ==
    ASSUME IInv, WriteEntry, Walk[proc.n] \in L2S \/ dir[Walk[proc.n]] = None
    PROVE  IInv'
<1>1. /\ UNCHANGED <<phone, dir, archive, written, steady, saved, touched, bad>>
      /\ proc.at = "backup" /\ proc.n <= Len(Walk) /\ proc' = [proc EXCEPT !.n = @ + 1]
  BY DEF WriteEntry
<1>2. /\ TypeOK /\ proc.n \in 1 .. Len(Walk) /\ Len(Walk) \in Nat
      /\ proc \in [at : Stages, n : 1 .. Len(Walk) + 1]
  BY <1>1, Types, WalkFacts DEF IInv
<1>3. proc'.at = "backup" /\ proc'.n = proc.n + 1 /\ proc' \in [at : Stages, n : 1 .. Len(Walk) + 1]
  BY <1>1, <1>2
<1>4. /\ Entries' = Entries /\ Kept' = Kept /\ View' = View
      /\ (\A n : (Holds(n)' <=> Holds(n)) /\ L2SData(n)' = L2SData(n)) /\ Old'
  BY <1>1, HoldsStays DEF IInv, Entries, Kept, View, L2SData
<1>5. TypeOK'
  BY <1>1, <1>3 DEF IInv, TypeOK
<1>6. RoundTrip' /\ Unpacked'
  BY <1>3 DEF RoundTrip, Unpacked
<1>7. Portable' /\ DataFiles'
  BY <1>1, <1>4 DEF IInv, Portable, DataFiles
<1>8. Names1'
  BY <1>1, <1>2, <1>3, <1>4, Types DEF IInv, Names1
<1>9. Reading'
  BY <1>1, <1>4 DEF IInv, Reading
<1>10. Walk[proc.n] \notin Kept
  <2>1. ASSUME Walk[proc.n] \in Kept PROVE FALSE
    <3>1. Walk[proc.n] \in Names \ L2S /\ dir[Walk[proc.n]] = None
      BY <2>1 DEF Kept
    <3>2. View[Walk[proc.n]] # None
      BY <1>1, <2>1 DEF IInv, Reading, Kept
    <3>3. View[Walk[proc.n]] = Reads(dir, Walk[proc.n], phone) /\ dir \in [Names -> Content]
      BY <1>2, <3>1, ViewFacts, Types
    <3>4. Reads(dir, Walk[proc.n], phone) = None
      BY <3>1, <3>3, ReadsFacts
    <3> QED
      BY <3>2, <3>3, <3>4
  <2> QED
    BY <2>1
<1>11. Archived'
  <2>1. \A k \in 1 .. proc'.n - 1 : k \in 1 .. proc.n - 1 \/ k = proc.n
    BY <1>2, <1>3
  <2> QED
    BY <1>1, <1>4, <1>10, <2>1 DEF IInv, Archived
<1>12. Grouped'
  BY <1>1, <1>4 DEF IInv, Grouped
<1> QED
  BY <1>4, <1>5, <1>6, <1>7, <1>8, <1>9, <1>11, <1>12 DEF IInv

LEMMA EntryStep ==
    ASSUME IInv, WriteEntry, Walk[proc.n] \notin L2S, dir[Walk[proc.n]] # None
    PROVE  IInv'
<1>n. PICK n \in Names \ L2S : n = Walk[proc.n] /\ dir[n] # None
  BY Types, WalkFacts DEF IInv, WriteEntry
<1> DEFINE w == BackedUp(n)
           g == L2SData(n)
           L == Len(Entries)
<1>1. /\ UNCHANGED <<phone, dir, steady, saved, touched, bad>>
      /\ proc.at = "backup" /\ proc.n <= Len(Walk) /\ proc' = [proc EXCEPT !.n = @ + 1]
      /\ archive' = [archive EXCEPT !.entries = Append(@, [name |-> n, what |-> w])]
      /\ written' = IF g # NoName /\ written[g] = NoName THEN [written EXCEPT ![g] = n] ELSE written
  BY <1>n DEF WriteEntry
<1>2. /\ TypeOK /\ proc.n \in 1 .. Len(Walk) /\ Len(Walk) \in Nat
      /\ proc \in [at : Stages, n : 1 .. Len(Walk) + 1] /\ n \in Names \ L2S
      /\ L \in Nat /\ DOMAIN Entries = 1 .. L /\ Entries \in Seq(Entry)
      /\ archive \in [entries : Seq(Entry), closed : BOOLEAN, portable : BOOLEAN]
      /\ written \in [Names -> Names \cup {NoName}]
  BY <1>1, Types, WalkFacts DEF IInv
<1>3. proc'.at = "backup" /\ proc'.n = proc.n + 1 /\ proc' \in [at : Stages, n : 1 .. Len(Walk) + 1]
  BY <1>1, <1>2
<1>w. \/ /\ g = NoName /\ dir[n].kind = "link"
         /\ w = Link(dir[n].to, "guest") /\ w \in Content /\ w.kind = "link" /\ w.by = "guest"
      \/ /\ g = NoName /\ dir[n].kind = "file"
         /\ w = dir[n] /\ w \in Content /\ w.by = "-"
      \/ /\ g \in Names /\ g # NoName
         /\ written[g] = NoName
         /\ w = dir[g] /\ w \in Content /\ w.kind = "file" /\ w.by = "-"
      \/ /\ g \in Names /\ g # NoName
         /\ written[g] \in Names /\ written[g] # NoName
         /\ w = Hard(written[g]) /\ w.kind = "hard" /\ w.to = written[g] /\ w.by = "-"
  BY <1>1, <1>2, <1>n, BackedUpFacts
<1>d. dir' = dir /\ written' \in [Names -> Names \cup {NoName}]
  <2> HIDE DEF g, w
  <2> QED
    BY <1>1, <1>2, <1>w
<1>4. /\ Kept' = Kept /\ View' = View /\ \A x : L2SData(x)' = L2SData(x)
  BY <1>1 DEF Kept, View, L2SData
<1>g. Kept \subseteq (Names \ L2S)
  BY DEF Kept
<1> HIDE DEF g, w, L
<1>5. [name |-> n, what |-> w] \in Entry
  BY <1>2, <1>w, EntryFacts
<1>6. /\ archive'.closed = archive.closed /\ archive'.portable = archive.portable
      /\ archive' \in [entries : Seq(Entry), closed : BOOLEAN, portable : BOOLEAN]
      /\ Entries' = Append(Entries, [name |-> n, what |-> w])
  <2> DEFINE e == [name |-> n, what |-> w]
  <2>1. archive' = [archive EXCEPT !.entries = Append(@, e)] /\ e \in Entry
    BY <1>1, <1>5
  <2> HIDE DEF e
  <2>2. Append(Entries, e) \in Seq(Entry)
    BY <1>2, <2>1
  <2> QED
    BY <1>2, <2>1, <2>2 DEF Entries, e
<1>7. /\ DOMAIN Entries' = 1 .. L + 1 /\ Len(Entries') = L + 1
      /\ Entries'[L + 1].name = n /\ Entries'[L + 1].what = w
      /\ \A i \in DOMAIN Entries : Entries'[i] = Entries[i] /\ i \in DOMAIN Entries' /\ i # L + 1
      /\ \A i \in DOMAIN Entries' : i \in DOMAIN Entries \/ i = L + 1
      /\ L + 1 \in DOMAIN Entries'
  BY <1>2, <1>5, <1>6 DEF L
<1>8. TypeOK'
  BY <1>1, <1>3, <1>6, <1>d DEF IInv, TypeOK
<1>9. RoundTrip' /\ Unpacked'
  BY <1>3 DEF RoundTrip, Unpacked
<1>10. DataFiles'
  BY <1>2, <1>7, <1>d DEF IInv, DataFiles
<1>11. Reading'
  BY <1>1, <1>4 DEF IInv, Reading
<1>12. ASSUME g \in Names, written[g] # NoName
       PROVE  \E j \in DOMAIN Entries :
                 /\ Entries[j].name = written[g] /\ Entries[j].what.kind = "file"
                 /\ (\E x \in Kept : L2SData(x) = g) => Entries[j].what = dir[g]
  BY <1>1, <1>12 DEF IInv, Grouped
<1>13. Portable'
  <2>1. ASSUME NEW i \in DOMAIN Entries'
        PROVE  /\ Entries'[i].name \notin L2S /\ Entries'[i].what.by \notin Phones
               /\ Entries'[i].what.kind = "hard" =>
                     \E j \in 1 .. i - 1 : Entries'[j].name = Entries'[i].what.to
                                         /\ Entries'[j].what.kind = "file"
    <3>1. CASE i \in DOMAIN Entries
      <4>1. /\ Entries[i].name \notin L2S /\ Entries[i].what.by \notin Phones
            /\ Entries[i].what.kind = "hard" =>
                  \E j \in 1 .. i - 1 : Entries[j].name = Entries[i].what.to
                                      /\ Entries[j].what.kind = "file"
        BY <1>1, <3>1 DEF IInv, Portable, Names1, Entries
      <4>2. \A j \in 1 .. i - 1 : j \in DOMAIN Entries
        BY <1>2, <3>1
      <4> QED
        BY <1>7, <3>1, <4>1, <4>2
    <3>2. CASE i = L + 1
      <4>1. w.kind = "hard" => g \in Names /\ written[g] # NoName /\ w.to = written[g]
        BY <1>w
      <4>2. w.by \notin Phones
        BY <1>w, NoNameFacts
      <4>3. \A j \in DOMAIN Entries : j \in 1 .. i - 1
        BY <1>2, <3>2
      <4> QED
        BY <1>2, <1>7, <1>12, <3>2, <4>1, <4>2, <4>3
    <3> QED
      BY <1>7, <3>1, <3>2
  <2> QED
    BY <2>1 DEF Portable, Entries
<1>14. Names1'
  <2>1. /\ \A i, j \in DOMAIN Entries : Entries[i].name = Entries[j].name => i = j
        /\ archive.portable /\ ~archive.closed /\ L < proc.n
        /\ \A i \in DOMAIN Entries : \E k \in 1 .. proc.n - 1 : Entries[i].name = Walk[k]
    BY <1>1 DEF IInv, Names1, L
  <2>2. \A i \in DOMAIN Entries : Entries[i].name # n
    BY <1>2, <1>n, <2>1, WalkFacts
  <2>3. \A i, j \in DOMAIN Entries' : Entries'[i].name = Entries'[j].name => i = j
    BY <1>7, <2>1, <2>2
  <2>4. \A i \in DOMAIN Entries' : \E k \in 1 .. proc'.n - 1 : Entries'[i].name = Walk[k]
    <3>1. \A i \in DOMAIN Entries : \E k \in 1 .. proc'.n - 1 : Entries'[i].name = Walk[k]
      BY <1>2, <1>3, <1>7, <2>1
    <3>2. proc.n \in 1 .. proc'.n - 1 /\ Entries'[L + 1].name = Walk[proc.n]
      BY <1>2, <1>3, <1>7, <1>n
    <3> QED
      BY <1>7, <3>1, <3>2
  <2>5. Len(Entries') <= Len(Walk) /\ Len(Entries') < proc'.n
    BY <1>2, <1>3, <1>7, <2>1
  <2> QED
    BY <1>6, <2>1, <2>3, <2>4, <2>5 DEF Names1
\* What the archive holds it still holds.
<1>15. ASSUME NEW x, Holds(x) PROVE Holds(x)'
  <2>1. saved' = saved
    BY <1>1
  <2>2. PICK i \in DOMAIN Entries :
          /\ Entries[i].name = x
          /\ LET v == Entries[i].what IN
             \/ v.kind = "file" /\ saved[x] = v
             \/ v.kind = "link" /\ v.to \notin L2S /\ saved[x] = v /\ v = Link(v.to, "guest")
             \/ /\ v.kind = "hard"
                /\ \E j \in 1 .. i - 1 : Entries[j].name = v.to /\ DataAt(j, saved[x])
    BY <1>15 DEF Holds
  <2>3. \A j \in DOMAIN Entries : \A c : DataAt(j, c)' <=> Entries[j].what = c' /\ c'.kind = "file"
    BY <1>7 DEF DataAt
  <2>4. \A j \in 1 .. i - 1 : j \in DOMAIN Entries
    BY <1>2
  <2> QED
    BY <1>7, <2>1, <2>2, <2>4 DEF Holds, DataAt
\* And it holds the file that was just written.
<1>16. ASSUME n \in Kept PROVE Holds(n)'
  <2>1. View[n] = saved[n] /\ saved[n] # None /\ saved' = saved /\ dir \in [Names -> Content]
    BY <1>1, <1>2, <1>16, Types DEF IInv, Reading, Kept
  <2>2. Reads(dir, n, phone) = saved[n]
    BY <1>2, <2>1, ViewFacts
  <2>3. dir[n].kind = "link" =>
           IF Ordinary(dir, n) THEN saved[n] = Link(dir[n].to, "guest")
           ELSE dir[End(dir, n)].kind = "file" /\ saved[n] = dir[End(dir, n)]
    BY <1>2, <2>1, <2>2, ReadsFacts
  <2>g. IF dir[n].kind = "link" /\ ~Ordinary(dir, n) THEN saved[n] = dir[g] ELSE g = NoName
    BY <1>2, <2>3, L2SDataFacts DEF g
  <2>4. CASE g = NoName /\ dir[n].kind = "link"
    <3>1. Ordinary(dir, n)
      BY <1>2, <2>3, <2>4, L2SDataFacts DEF g
    <3>2. w.kind = "link" /\ w.to = dir[n].to /\ w.to \notin L2S /\ w = Link(w.to, "guest") /\ saved'[n] = w
      BY <1>w, <2>1, <2>3, <2>4, <3>1, LinkFacts DEF Ordinary
    <3> QED
      BY <1>7, <3>2 DEF Holds
  <2>5. CASE g = NoName /\ dir[n].kind = "file"
    <3>1. w = dir[n] /\ saved'[n] = w
      BY <1>2, <1>w, <2>1, <2>2, <2>5, ReadsFacts
    <3> QED
      BY <1>7, <2>5, <3>1 DEF Holds
  <2>6. CASE g \in Names /\ written[g] = NoName
    <3>1. w = dir[g] /\ w.kind = "file" /\ saved'[n] = w
      BY <1>w, <2>1, <2>g, <2>6, NoNameFacts
    <3> QED
      BY <1>7, <3>1 DEF Holds
  <2>7. CASE g \in Names /\ written[g] # NoName
    <3>1. w.kind = "hard" /\ w.to = written[g] /\ saved'[n] = dir[g]
      BY <1>w, <2>1, <2>g, <2>7, NoNameFacts
    <3>2. PICK j \in DOMAIN Entries :
             /\ Entries[j].name = written[g] /\ Entries[j].what.kind = "file"
             /\ Entries[j].what = dir[g]
      BY <1>12, <1>16, <2>7 DEF g
    <3>3. j \in 1 .. (L + 1) - 1 /\ Entries'[j] = Entries[j]
      BY <1>2, <1>7
    <3>4. DataAt(j, saved[n])'
      BY <3>1, <3>2, <3>3 DEF DataAt
    <3> QED
      BY <1>7, <3>1, <3>2, <3>3, <3>4 DEF Holds
  <2> QED
    BY <1>w, <2>4, <2>5, <2>6, <2>7
<1>17. Archived'
  <2>1. \A k \in 1 .. proc'.n - 1 : k \in 1 .. proc.n - 1 \/ k = proc.n
    BY <1>2, <1>3
  <2>2. ASSUME NEW k \in 1 .. proc'.n - 1, Walk[k] \in Kept PROVE Holds(Walk[k])'
    <3>1. CASE k = proc.n
      BY <1>16, <1>n, <2>2, <3>1
    <3>2. CASE k \in 1 .. proc.n - 1
      <4>1. Holds(Walk[k])
        BY <1>1, <2>2, <3>2 DEF IInv, Archived
      <4> QED
        BY <1>15, <4>1
    <3> QED
      BY <2>1, <3>1, <3>2
  <2>3. ~archive'.closed
    BY <1>1, <1>6 DEF IInv, Names1
  <2> QED
    BY <1>4, <2>2, <2>3 DEF Archived
<1>18. Grouped'
  <2>1. ASSUME NEW h \in Names, written'[h] # NoName
        PROVE  \E j \in DOMAIN Entries' :
                 /\ Entries'[j].name = written'[h] /\ Entries'[j].what.kind = "file"
                 /\ (\E x \in Kept' : L2SData(x)' = h) => Entries'[j].what = dir'[h]
    <3>1. CASE h = g /\ written[g] = NoName
      <4>1. written'[h] = n /\ w = dir[g] /\ w.kind = "file"
        BY <1>1, <1>2, <1>w, <2>1, <3>1, NoNameFacts
      <4> QED
        BY <1>7, <1>d, <3>1, <4>1
    <3>2. CASE ~(h = g /\ written[g] = NoName)
      <4>1. written'[h] = written[h]
        BY <1>1, <1>2, <3>2
      <4>2. PICK j \in DOMAIN Entries :
               /\ Entries[j].name = written[h] /\ Entries[j].what.kind = "file"
               /\ (\E x \in Kept : L2SData(x) = h) => Entries[j].what = dir[h]
        BY <1>1, <2>1, <4>1 DEF IInv, Grouped
      <4> QED
        BY <1>4, <1>7, <1>d, <4>1, <4>2
    <3> QED
      BY <3>1, <3>2
  <2> QED
    BY <2>1 DEF Grouped
<1>19. Old'
  BY <1>1, <1>6 DEF IInv, Names1, Old
<1> QED
  BY <1>8, <1>9, <1>10, <1>11, <1>13, <1>14, <1>17, <1>18, <1>19 DEF IInv

LEMMA CloseBackupStep == IInv /\ CloseBackup => IInv'
<1> SUFFICES ASSUME IInv, CloseBackup PROVE IInv'
  OBVIOUS
<1>1. /\ UNCHANGED <<phone, dir, steady, saved, touched, bad>> /\ written' = NothingWritten
      /\ proc.at = "backup" /\ proc.n > Len(Walk) /\ proc' = Idle
      /\ archive' = [archive EXCEPT !.closed = TRUE]
  BY DEF CloseBackup
<1>2. /\ TypeOK /\ archive \in [entries : Seq(Entry), closed : BOOLEAN, portable : BOOLEAN]
      /\ proc'.at = "idle" /\ proc.n \in Nat
  BY <1>1, Types, IdleFacts DEF IInv
<1>3. /\ Entries' = Entries /\ archive'.portable = archive.portable /\ Kept' = Kept
      /\ archive' \in [entries : Seq(Entry), closed : BOOLEAN, portable : BOOLEAN]
  BY <1>1, <1>2 DEF Entries, Kept
<1>4. TypeOK'
  BY <1>1, <1>3, IdleFacts, NothingFacts DEF IInv, TypeOK
<1>5. Archived'
  <2>1. ASSUME NEW n \in Kept PROVE Holds(n)'
    <3>1. PICK k \in 1 .. Len(Walk) : Walk[k] = n
      BY WalkFacts DEF Kept
    <3>2. k \in 1 .. proc.n - 1
      BY <1>1, <1>2, WalkFacts
    <3>3. Holds(n)
      BY <1>1, <3>1, <3>2 DEF IInv, Archived
    <3> QED
      BY <1>1, <1>3, <3>3 DEF Holds, DataAt
  <2> QED
    BY <1>2, <1>3, <2>1 DEF Archived
<1>6. RoundTrip' /\ Unpacked' /\ Reading' /\ Grouped'
  BY <1>2 DEF RoundTrip, Unpacked, Reading, Grouped
<1>7. Portable' /\ Names1' /\ DataFiles' /\ Old'
  <2>1. Portable'
    BY <1>3 DEF IInv, Portable, Entries
  <2>2. Names1' /\ DataFiles'
    BY <1>1, <1>2, <1>3 DEF IInv, Names1, DataFiles
  <2>3. Old'
    BY <1>1, <1>3 DEF IInv, Names1, Old
  <2> QED
    BY <2>1, <2>2, <2>3
<1> QED
  BY <1>4, <1>5, <1>6, <1>7 DEF IInv

LEMMA FailBackupStep == IInv /\ FailBackup => IInv'
<1> SUFFICES ASSUME IInv, FailBackup PROVE IInv'
  OBVIOUS
<1>1. /\ archive' = NoArchive /\ proc' = Idle /\ written' = NothingWritten
      /\ UNCHANGED <<phone, dir, steady, saved, touched, bad>>
  BY DEF FailBackup
<1>2. TypeOK' /\ proc'.at = "idle"
  BY <1>1, IdleFacts, NoArchiveFacts, NothingFacts DEF IInv, TypeOK
<1>3. archive'.entries = <<>> /\ ~archive'.closed
  BY <1>1, NoArchiveFacts
<1>4. \A g \in L2S : dir'[g].kind # "link"
  BY <1>1 DEF IInv, DataFiles
<1> QED
  BY <1>2, <1>3, <1>4, FreshNext

-----------------------------------------------------------------------------
(* Restore.                                                                *)

\* The steps of a restore, and what ends one.
LEMMA RestoreTypes ==
    ASSUME TypeOK, proc' \in [at : Stages, n : 1 .. Len(Walk) + 1],
           dir' \in [Names -> Content], bad' \subseteq Names,
           UNCHANGED <<phone, archive, written, steady, saved, touched>>
    PROVE  TypeOK'
  BY DEF TypeOK, Content

LEMMA StartRestoreStep == IInv /\ StartRestore => IInv'
<1> SUFFICES ASSUME IInv, StartRestore PROVE IInv'
  OBVIOUS
<1>1. /\ UNCHANGED <<phone, dir, archive, written, steady, saved, touched, bad>>
      /\ proc'.at = "delete" /\ proc'.n = 1 /\ proc' \in [at : Stages, n : 1 .. Len(Walk) + 1]
  BY WalkFacts DEF StartRestore, Stages
<1>2. TypeOK' /\ \A g \in L2S : dir'[g].kind # "link"
  BY <1>1, Types, RestoreTypes DEF IInv, DataFiles
<1>3. DataFiles' /\ Lasting'
  BY <1>1, <1>2, Still
<1>4. RoundTrip' /\ Unpacked'
  BY <1>1 DEF RoundTrip, Unpacked
<1> QED
  BY <1>2, <1>3, <1>4 DEF IInv, Lasting

LEMMA DeleteOldStep == IInv /\ DeleteOld => IInv'
<1> SUFFICES ASSUME IInv, DeleteOld PROVE IInv'
  OBVIOUS
<1>1. /\ UNCHANGED <<phone, archive, written, steady, saved, touched, bad>>
      /\ proc.at = "delete" /\ proc' = [proc EXCEPT !.at = "extract"]
      /\ \E left : dir' = [n \in Names |-> IF n \in left THEN dir[n] ELSE None]
  BY DEF DeleteOld
<1>2. /\ TypeOK /\ proc \in [at : Stages, n : 1 .. Len(Walk) + 1] /\ proc.n = 1
      /\ dir \in [Names -> Content] /\ L2S \subseteq Names /\ bad \subseteq Names
      /\ DOMAIN Entries = 1 .. Len(Entries) /\ Len(Entries) \in Nat
      /\ \A g \in L2S : dir[g].kind # "link"
  BY <1>1, Types, WalkFacts DEF IInv, Unpacked, DataFiles
<1>3. proc'.at = "extract" /\ proc'.n = 1 /\ proc' \in [at : Stages, n : 1 .. Len(Walk) + 1]
  BY <1>1, <1>2 DEF Stages
<1>4. dir' \in [Names -> Content] /\ \A g \in L2S : dir'[g].kind # "link"
  BY <1>1, <1>2, NoneFacts
<1>5. TypeOK'
  BY <1>1, <1>2, <1>3, <1>4, RestoreTypes
<1>6. DataFiles' /\ Lasting'
  BY <1>1, <1>3, <1>4, <1>5, Still
<1>7. RoundTrip' /\ Unpacked'
  <2>1. DOMAIN Entries' = 1 .. Len(Entries)
    BY <1>1, <1>2 DEF Entries
  <2>2. \A i \in DOMAIN Entries' : ~(i < proc'.n)
    BY <1>2, <1>3, <2>1
  <2> QED
    BY <1>3, <2>2 DEF RoundTrip, Unpacked
<1> QED
  BY <1>5, <1>6, <1>7 DEF IInv, Lasting

LEMMA ExtractEntryStep == IInv /\ ExtractEntry => IInv'
<1> SUFFICES ASSUME IInv, ExtractEntry PROVE IInv'
  OBVIOUS
<1> DEFINE k == proc.n
           e == Entries[k]
           x == Extracted(e.what)
<1>1. /\ UNCHANGED <<phone, archive, written, steady, saved, touched>>
      /\ proc.at = "extract" /\ k <= Len(Entries) /\ proc' = [proc EXCEPT !.n = @ + 1]
  BY DEF ExtractEntry, Entries
<1>2. /\ TypeOK /\ proc \in [at : Stages, n : 1 .. Len(Walk) + 1] /\ k \in DOMAIN Entries
      /\ dir \in [Names -> Content] /\ L2S \subseteq Names /\ k \in Nat \ {0}
      /\ DOMAIN Entries = 1 .. Len(Entries) /\ Len(Entries) \in Nat /\ Len(Walk) \in Nat
      /\ Len(Entries) <= Len(Walk) /\ Entries' = Entries /\ bad \subseteq Names
      /\ \A g \in L2S : dir[g].kind # "link"
  BY <1>1, Types, WalkFacts DEF IInv, DataFiles, Names1, Entries
<1>3. /\ e.name \in Names
      /\ e.what.kind # "hard" => x = e.what /\ e.what \in Content
      /\ e.what.kind = "hard" => e.what.to \in Names /\ x = dir[e.what.to]
  <2>1. e \in Entry
    BY <1>2, Types
  <2>2. e.name \in Names /\ (e.what \in Content \/ (e.what.kind = "hard" /\ e.what.to \in Names))
    BY <2>1, EntryParts
  <2>3. e.what \in Content => e.what.kind # "hard"
    BY ContentFacts
  <2>4. x = IF e.what.kind = "hard" THEN dir[e.what.to] ELSE e.what
    BY DEF Extracted
  <2> HIDE DEF x, e
  <2>5. CASE e.what.kind = "hard"
    BY <2>2, <2>3, <2>4, <2>5
  <2>6. CASE e.what.kind # "hard"
    BY <2>2, <2>4, <2>6
  <2> QED
    BY <2>2, <2>5, <2>6
<1>4. x \in Content
  BY <1>2, <1>3
<1>5. e.name \in L2S => x.kind # "link"
  BY <1>2, <1>3 DEF IInv, DataFiles
\* Either it is there as it should be, or it is warned about.
<1>b. PICK y \in Content :
         /\ dir' = [dir EXCEPT ![e.name] = y]
         /\ e.name \in L2S => y.kind # "link"
         /\ \/ bad' = bad /\ y = x /\ ~(e.what.kind = "hard" /\ e.what.to \in bad)
            \/ bad' = bad \cup {e.name}
  <2>1. CASE /\ dir' = [dir EXCEPT ![e.name] = x] /\ bad' = bad
             /\ ~(e.what.kind = "hard" /\ e.what.to \in bad)
    BY <1>4, <1>5, <2>1
  <2>2. CASE /\ \E rest \in {dir[e.name]} \cup Plain : dir' = [dir EXCEPT ![e.name] = rest]
             /\ bad' = bad \cup {e.name}
    <3>1. PICK rest \in {dir[e.name]} \cup Plain : dir' = [dir EXCEPT ![e.name] = rest]
      BY <2>2
    <3> HIDE DEF e, x
    <3>2. rest \in Content /\ (e.name \in L2S => rest.kind # "link")
      BY <1>2, <1>3, PlainFacts
    <3> QED
      BY <2>2, <3>1, <3>2
  <2> QED
    BY <2>1, <2>2 DEF ExtractEntry, Entries
<1> HIDE DEF x, e
<1>6. /\ dir' \in [Names -> Content] /\ \A g \in L2S : dir'[g].kind # "link"
      /\ dir'[e.name] = y /\ \A n \in Names : n # e.name => dir'[n] = dir[n]
  BY <1>2, <1>3, <1>b
<1>7. proc'.at = "extract" /\ proc'.n = k + 1 /\ proc' \in [at : Stages, n : 1 .. Len(Walk) + 1]
  BY <1>1, <1>2
<1>8. TypeOK'
  <2>1. bad' \subseteq Names
    BY <1>2, <1>3, <1>b
  <2> QED
    BY <1>1, <1>2, <1>6, <1>7, <2>1, RestoreTypes
<1>9. DataFiles' /\ Lasting'
  BY <1>1, <1>6, <1>7, <1>8, Still
<1>10. Unpacked'
  <2>1. ASSUME NEW i \in DOMAIN Entries, i < k PROVE Placed(i)'
    <3>1. Placed(i) /\ Entries[i].name # e.name /\ Entries[i].name \in Names
      BY <1>1, <1>2, <2>1, Types DEF IInv, Unpacked, Names1, e
    <3>2. dir'[Entries[i].name] = dir[Entries[i].name] /\ (Entries[i].name \in bad => Entries[i].name \in bad')
      BY <1>6, <1>b, <3>1
    <3> QED
      BY <1>2, <3>1, <3>2 DEF Placed
  <2>2. ASSUME NEW i \in DOMAIN Entries, i = k PROVE Placed(i)'
    <3>1. Entries'[i] = e /\ Entries[i] = e
      BY <1>2, <2>2 DEF e
    <3>2. CASE e.name \in bad'
      BY <3>1, <3>2 DEF Placed
    <3>3. CASE e.name \notin bad'
      <4>0. y = x /\ ~(e.what.kind = "hard" /\ e.what.to \in bad)
        BY <1>b, <3>3
      <4>1. e.what.kind # "hard" => dir'[e.name] = e.what
        BY <1>3, <1>6, <4>0
      <4>2. ASSUME e.what.kind = "hard", NEW j \in 1 .. i - 1,
                   Entries[j].name = e.what.to, Entries[j].what.kind = "file"
            PROVE  dir'[e.name] = Entries[j].what
        <5>1. j \in DOMAIN Entries /\ j < k
          BY <1>2, <2>2, <4>2
        <5>2. Placed(j)
          BY <1>1, <5>1 DEF IInv, Unpacked
        <5>3. dir[e.what.to] = Entries[j].what
          BY <4>0, <4>2, <5>2 DEF Placed
        <5> QED
          BY <1>3, <1>6, <4>0, <4>2, <5>3
      <4> QED
        BY <1>2, <3>1, <4>1, <4>2 DEF Placed
    <3> QED
      BY <3>2, <3>3
  <2>3. \A i \in DOMAIN Entries' : i < proc'.n => i \in DOMAIN Entries /\ (i < k \/ i = k)
    BY <1>2, <1>7
  <2> QED
    BY <1>7, <2>1, <2>2, <2>3 DEF Unpacked
<1>11. RoundTrip'
  BY <1>7 DEF RoundTrip
<1> QED
  BY <1>8, <1>9, <1>10, <1>11 DEF IInv, Lasting

LEMMA EndExtractStep == IInv /\ EndExtract => IInv'
<1> SUFFICES ASSUME IInv, EndExtract PROVE IInv'
  OBVIOUS
<1>1. /\ UNCHANGED <<phone, dir, archive, written, steady, saved, touched>>
      /\ proc.at = "extract" /\ proc.n > Len(Entries)
      /\ IF archive.closed THEN proc' = [proc EXCEPT !.at = "repair"] /\ bad' = bad
         ELSE proc' = Idle /\ bad' = {}
  BY DEF EndExtract, Entries
<1>2. /\ TypeOK /\ proc \in [at : Stages, n : 1 .. Len(Walk) + 1] /\ proc.n \in Nat
      /\ dir' \in [Names -> Content] /\ Entries' = Entries /\ bad' \subseteq Names
      /\ DOMAIN Entries = 1 .. Len(Entries) /\ Len(Entries) \in Nat
      /\ \A g \in L2S : dir'[g].kind # "link"
  BY <1>1, Types DEF IInv, DataFiles, Entries
<1>3. CASE archive.closed
  <2>1. proc'.at = "repair" /\ proc' \in [at : Stages, n : 1 .. Len(Walk) + 1]
    BY <1>1, <1>2, <1>3 DEF Stages
  <2>2. TypeOK'
    BY <1>1, <1>2, <2>1, RestoreTypes
  <2>3. DataFiles' /\ Lasting'
    BY <1>1, <1>2, <2>1, <2>2, Still
  <2>4. Unpacked'
    <3>1. \A i \in DOMAIN Entries : i < proc.n
      BY <1>1, <1>2
    <3>2. \A i \in DOMAIN Entries : Placed(i)
      BY <1>1, <3>1 DEF IInv, Unpacked
    <3>3. \A i \in DOMAIN Entries' : Placed(i)'
      BY <1>1, <1>2, <1>3, <3>2 DEF Placed
    <3> QED
      BY <1>1, <1>3, <2>1, <3>3 DEF Unpacked
  <2>5. RoundTrip'
    BY <2>1 DEF RoundTrip
  <2> QED
    BY <2>2, <2>3, <2>4, <2>5 DEF IInv, Lasting
<1>4. CASE ~archive.closed
  <2>1. proc'.at = "idle" /\ proc' \in [at : Stages, n : 1 .. Len(Walk) + 1]
    BY <1>1, <1>4, IdleFacts
  <2>2. TypeOK'
    BY <1>1, <1>2, <2>1, RestoreTypes
  <2> QED
    BY <1>1, <1>2, <2>1, <2>2, Calm
<1> QED
  BY <1>3, <1>4

\* The link a repaired one is, and that data stays data.
LEMMA RepairedFacts ==
    ASSUME NEW e \in Content, phone \in Phones
    PROVE  /\ Repaired(e) \in Content
           /\ e.kind # "link" => Repaired(e) = e
           /\ e.kind = "link" =>
                /\ e.to \in Names /\ Repaired(e).kind = "link" /\ Repaired(e).to = e.to
                /\ Repaired(e).by \in {"guest", phone}
                /\ e.to \notin L2S => Repaired(e) = Link(e.to, "guest")
<1>1. e.kind = "link" => e.to \in Names
  BY ContentFacts
<1>2. e.kind = "link" /\ e.by = "guest" => e = Link(e.to, "guest")
  BY ContentFacts, NoneFacts, FileFacts DEF Content, Plain, Links, Link
<1> QED
  BY <1>1, <1>2, LinkFacts DEF Repaired, GuestTarget

\* An old archive's files, where they are all there and repaired: a file reads
\* as it did where it was made.
LEMMA RepairedOld ==
    ASSUME NEW d \in [Names -> Content], NEW here \in Phones, Made(d, here),
           NEW f \in [Names -> Content], phone \in Phones,
           NEW B, \A m \in Names \ B : d[m] # None => f[m] = Repaired(d[m]),
           NEW n \in Names, Reads(d, n, here) # None, Way(f, n) \cap B = {}
    PROVE  Reads(d, n, here) \in {f[n], Reads(f, n, phone)}
<1>1. /\ n \in Way(d, n) /\ n \in Way(f, n) /\ n \notin B
      /\ d[n] \in Content /\ d[n] # None /\ f[n] = Repaired(d[n])
  <2>1. n \in Way(d, n) /\ n \in Way(f, n) /\ n \notin B
    BY WayFacts
  <2>2. d[n] \in Content /\ d[n] # None
    BY ReadsFacts
  <2> QED
    BY <2>1, <2>2
<1>2. CASE d[n].kind # "link"
  BY <1>1, <1>2, RepairedFacts, ReadsFacts
<1>3. CASE d[n].kind = "link" /\ Ordinary(d, n)
  BY <1>1, <1>3, RepairedFacts, ReadsFacts DEF Ordinary
<1>4. CASE d[n].kind = "link" /\ ~Ordinary(d, n)
  <2> DEFINE a == Hop(d, n)
             b == Hop(d, a)
             c == Hop(d, b)
  <2>1. /\ c = End(d, n) /\ a \in Names /\ b \in Names /\ c \in Names
        /\ Way(d, n) = {n, a, b, c}
    BY WayFacts DEF End, Way
  <2>2. d[c].kind = "file" /\ Reads(d, n, here) = d[c]
    BY <1>1, <1>4, <2>1, ReadsFacts
  \* One link after another is as it was: none of them leads nowhere.
  <2>3. \A m \in Names : (d[m] # None /\ m \notin B) =>
           /\ f[m].kind = d[m].kind /\ Hop(f, m) = Hop(d, m)
           /\ f[m].kind = "link" => f[m].by \in {"guest", phone} /\ f[m].to = d[m].to
    <3>1. ASSUME NEW m \in Names, d[m] # None, m \notin B
          PROVE  /\ f[m].kind = d[m].kind /\ Hop(f, m) = Hop(d, m)
                 /\ f[m].kind = "link" => f[m].by \in {"guest", phone} /\ f[m].to = d[m].to
      <4>1. f[m] = Repaired(d[m]) /\ d[m] \in Content
        BY <3>1
      <4> QED
        BY <4>1, RepairedFacts DEF Hop
    <3> QED
      BY <3>1
  <2>4. \A m \in Names : d[m] = None => Hop(d, m) = m
    BY NoneFacts DEF Hop
  <2>5. d[c] # None
    BY <2>2, NoneFacts
  <2>6. d[b] # None
    BY <2>1, <2>4, <2>5
  <2>7. d[a] # None
    BY <2>1, <2>4, <2>6
  <2> HIDE DEF a, b, c
  <2>8. Hop(f, n) = a
    BY <1>1, <2>3 DEF a
  <2>9. a \notin B
    BY <2>8, WayFacts
  <2>10. Hop(f, a) = b
    BY <2>1, <2>3, <2>7, <2>9 DEF b
  <2>11. b \notin B
    BY <2>8, <2>10, WayFacts
  <2>12. Hop(f, b) = c
    BY <2>1, <2>3, <2>6, <2>11 DEF c
  <2>13. End(f, n) = c /\ Way(f, n) = {n, a, b, c}
    BY <2>8, <2>10, <2>12 DEF End, Way
  <2>14. c \notin B
    BY <2>13
  <2>15. f[c] = d[c]
    BY <2>1, <2>2, <2>5, <2>14, RepairedFacts
  <2>16. \A m \in Way(f, n) : f[m].kind = "link" => f[m].by \in {"guest", phone}
    BY <1>1, <2>1, <2>3, <2>5, <2>6, <2>7, <2>9, <2>11, <2>13, <2>14
  <2>17. f[n].kind = "link" /\ ~Ordinary(f, n)
    <3>1. f[n].kind = "link" /\ f[n].to = d[n].to /\ d[n].to = a
      BY <1>1, <1>4, <2>3 DEF a, Hop
    <3>2. f[a].kind = d[a].kind
      BY <2>1, <2>3, <2>7, <2>9
    <3> QED
      BY <1>4, <3>1, <3>2 DEF Ordinary
  <2>18. Reads(f, n, phone) = f[c]
    BY <2>2, <2>13, <2>15, <2>16, <2>17, ReadsFacts
  <2> QED
    BY <2>2, <2>15, <2>18
<1> QED
  BY <1>2, <1>3, <1>4

LEMMA RepairHostLinksStep == IInv /\ RepairHostLinks => IInv'
<1> SUFFICES ASSUME IInv, RepairHostLinks PROVE IInv'
  OBVIOUS
<1>1. PICK lost \in SUBSET {n \in Names : Repaired(dir[n]) # dir[n]} :
         /\ UNCHANGED <<phone, archive, written, steady, saved, touched>>
         /\ proc.at = "repair" /\ proc' = [proc EXCEPT !.at = "restored"]
         /\ dir' = [n \in Names |-> IF n \in lost THEN None ELSE Repaired(dir[n])]
         /\ bad' = bad \cup lost
  BY DEF RepairHostLinks
<1>2. /\ TypeOK /\ proc \in [at : Stages, n : 1 .. Len(Walk) + 1]
      /\ dir \in [Names -> Content] /\ L2S \subseteq Names /\ phone \in Phones /\ bad \subseteq Names
      /\ \A g \in L2S : dir[g].kind # "link"
      /\ \A i \in DOMAIN Entries : Entries[i] \in Entry /\ Entries[i].name \in Names
      /\ DOMAIN Entries = 1 .. Len(Entries) /\ Len(Entries) \in Nat
  BY <1>1, Types, WalkFacts DEF IInv, DataFiles
<1>3. /\ dir' \in [Names -> Content] /\ \A g \in L2S : dir'[g].kind # "link"
      /\ \A n \in Names \ bad' : dir'[n] = Repaired(dir[n])
  BY <1>1, <1>2, RepairedFacts, NoneFacts
<1>4. proc'.at = "restored" /\ proc' \in [at : Stages, n : 1 .. Len(Walk) + 1]
  BY <1>1, <1>2 DEF Stages
<1>5. TypeOK'
  <2>1. bad' \subseteq Names
    BY <1>1, <1>2
  <2> QED
    BY <1>1, <1>2, <1>3, <1>4, <2>1, RestoreTypes
<1>6. DataFiles' /\ Lasting'
  BY <1>1, <1>3, <1>4, <1>5, Still
<1>7. Unpacked'
  BY <1>4 DEF Unpacked
<1>8. archive.closed /\ \A i \in DOMAIN Entries : Placed(i)
  BY <1>1 DEF IInv, Unpacked
<1>9. ASSUME NEW n \in Kept, Way(dir', n) \cap bad' = {} PROVE saved[n] \in {dir'[n], View'[n]}
  <2>1. n \in Names \ L2S /\ n \notin bad' /\ n \notin bad /\ saved[n] # None
    BY <1>1, <1>3, <1>9, WayFacts DEF Kept
  <2>2. CASE archive.portable
    <3>1. PICK i \in DOMAIN Entries :
            /\ Entries[i].name = n
            /\ LET w == Entries[i].what IN
               \/ w.kind = "file" /\ saved[n] = w
               \/ w.kind = "link" /\ w.to \notin L2S /\ saved[n] = w /\ w = Link(w.to, "guest")
               \/ /\ w.kind = "hard"
                  /\ \E j \in 1 .. i - 1 : Entries[j].name = w.to /\ DataAt(j, saved[n])
      BY <1>8, <1>9, <2>2 DEF IInv, Archived, Holds
    <3> DEFINE w == Entries[i].what
    <3>2. Placed(i) /\ dir[n] \in Content /\ dir'[n] = Repaired(dir[n])
      BY <1>2, <1>3, <1>8, <2>1
    <3>3. CASE w.kind = "file" /\ saved[n] = w
      BY <1>2, <2>1, <3>1, <3>2, <3>3, RepairedFacts DEF Placed
    <3>4. CASE w.kind = "link" /\ w.to \notin L2S /\ saved[n] = w /\ w = Link(w.to, "guest")
      <4>1. dir[n] = w
        BY <2>1, <3>1, <3>2, <3>4 DEF Placed
      <4> QED
        BY <1>2, <3>2, <3>4, <4>1, RepairedFacts
    <3>5. CASE w.kind = "hard" /\ \E j \in 1 .. i - 1 : Entries[j].name = w.to /\ DataAt(j, saved[n])
      <4>1. dir[n] = saved[n] /\ saved[n].kind = "file"
        BY <2>1, <3>1, <3>2, <3>5 DEF Placed, DataAt
      <4> QED
        BY <1>2, <3>2, <4>1, RepairedFacts
    <3> QED
      BY <3>1, <3>3, <3>4, <3>5
  <2>3. CASE ~archive.portable
    <3>1. PICK d \in [Names -> Content], here \in Phones : Mirrors(d, here)
      BY <1>8, <2>3 DEF IInv, Old
    <3>2. ASSUME NEW m \in Names \ bad', d[m] # None PROVE dir'[m] = Repaired(d[m])
      <4>1. PICK i \in DOMAIN Entries : Entries[i].name = m
        BY <3>1, <3>2 DEF Mirrors
      <4>2. Entries[i].what = d[m] /\ Entries[i].what.kind # "hard"
        BY <2>3, <3>1, <4>1 DEF Mirrors, IInv, Names1
      <4>3. dir[m] = d[m]
        BY <1>1, <1>8, <3>2, <4>1, <4>2 DEF Placed
      <4> QED
        BY <1>3, <3>2, <4>3
    <3>3. saved[n] = Reads(d, n, here) /\ Made(d, here)
      BY <2>1, <3>1 DEF Mirrors
    <3>4. saved[n] \in {dir'[n], Reads(dir', n, phone)}
      BY <1>2, <1>3, <1>9, <2>1, <3>2, <3>3, RepairedOld
    <3>5. View'[n] = Reads(dir', n, phone)
      BY <1>1, <2>1 DEF View
    <3> QED
      BY <3>4, <3>5
  <2> QED
    BY <2>2, <2>3
<1>10. RoundTrip'
  BY <1>1, <1>9 DEF RoundTrip, Kept
<1> QED
  BY <1>5, <1>6, <1>7, <1>10 DEF IInv, Lasting

LEMMA IdleStep == IInv /\ (EndRestore \/ Stop) => IInv'
<1> SUFFICES ASSUME IInv, EndRestore \/ Stop PROVE IInv'
  OBVIOUS
<1>1. /\ UNCHANGED <<phone, dir, archive, steady, saved, touched>> /\ bad' = {}
      /\ written' \in {written, NothingWritten}
      /\ proc'.at = "idle" /\ proc' \in [at : Stages, n : 1 .. Len(Walk) + 1]
  BY IdleFacts DEF EndRestore, Stop
<1>2. TypeOK' /\ \A g \in L2S : dir'[g].kind # "link"
  BY <1>1, NothingFacts DEF IInv, DataFiles, TypeOK
<1> QED
  BY <1>1, <1>2, Calm

-----------------------------------------------------------------------------
(* The theorems.                                                           *)

LEMMA NextIInv == IInv /\ [Next]_vars => IInv'
<1> SUFFICES ASSUME IInv, [Next]_vars PROVE IInv'
  OBVIOUS
<1>1. CASE User
  BY <1>1, EditStep, HardLinkStep, NewPhoneStep, SettleStep DEF User
<1>2. CASE RunBackup
  <2>1. CASE WriteEntry
    BY <2>1, SkipStep, EntryStep
  <2> QED
    BY <1>2, <2>1, StartBackupStep, CloseBackupStep, FailBackupStep DEF RunBackup
<1>3. CASE RunRestore
  BY <1>3, StartRestoreStep, DeleteOldStep, ExtractEntryStep, EndExtractStep,
     RepairHostLinksStep, IdleStep DEF RunRestore
<1>4. CASE Stop
  BY <1>4, IdleStep
<1>5. CASE UNCHANGED vars
  <2>1. steady' \in BOOLEAN
    BY <1>5 DEF vars, IInv, TypeOK
  <2> QED
    BY <1>5, <2>1, Steadied DEF vars
<1> QED
  BY <1>1, <1>2, <1>3, <1>4, <1>5 DEF Next

\* The invariant of backup and restore, for any files, phones and contents.
THEOREM BackupInductive == Spec => []IInv
  BY InitIInv, NextIInv, PTL DEF Spec

\* The types: a restore never runs past the archive, and no entry names a file
\* that the walk does not have.
THEOREM BackupTypes == Spec => []TypeOK
  BY BackupInductive, PTL DEF IInv

\* manage.go's backup, restored on any phone, reads as the distro read when the
\* backup began, hard links and chains of links and all, except what changed
\* during it and what is read through an entry the restore only warned about.
THEOREM BackupRoundTrip == Spec => []RoundTrip
  BY BackupInductive, PTL DEF IInv

\* A backup names no phone and none of link2symlink's files, and its hard links
\* lead to data that comes before them.
THEOREM BackupPortable == Spec => []Portable
  BY BackupInductive, PTL DEF IInv

-----------------------------------------------------------------------------
(* The step runner.                                                        *)

Halted == \E i \in StepIds : state[i] = "over" /\ ended[i] = "error"

\* What RunSteps relies on when it answers: the way out without an error is
\* only taken past the last step or at a SIGTERM, and a failure is a step's.
Answers ==
    /\ quit /\ err = "none" => idx = N + 1 \/ termed
    /\ result = "ok" => idx = N + 1 \/ termed
    /\ err = "failed" \/ result = "failed" => Halted

StepsInv == StepsTypeOK /\ InStep /\ Answers

LEMMA StepsInitInv == StepsInit => StepsInv
<1>1. StepsInit => StepsTypeOK
    <2>1. StepsInit => state \in [StepIds -> {"waiting", "queued", "running", "over"}]
        BY DEF StepsInit
    <2>2. StepsInit => ended \in [StepIds -> Outcomes \cup {"none"}]
        BY DEF StepsInit
    <2>3. StepsInit => idx \in 1 .. (N + 1)
        BY NAssumption DEF StepsInit
    <2>4. StepsInit => plain \in BOOLEAN /\ quit \in BOOLEAN /\ pressed \in BOOLEAN
                         /\ termed \in BOOLEAN
        BY DEF StepsInit
    <2> QED
        BY <2>1, <2>2, <2>3, <2>4 DEF StepsInit, StepsTypeOK
<1>2. StepsInit => InStep
    BY DEF StepsInit, InStep, StepIds
<1>3. StepsInit => Answers
    BY DEF StepsInit, Answers
<1> QED
    BY <1>1, <1>2, <1>3 DEF StepsInv

\* A step that is not past idx, not before it, is idx.
LEMMA AtIdx ==
    ASSUME StepsInv, NEW i \in StepIds, state[i] \in {"queued", "running"}
    PROVE  i = idx /\ mail = "none" /\ ~Halted /\ (result = "ok" => termed)
BY NAssumption DEF StepsInv, StepsTypeOK, InStep, Answers, Halted, Good, StepIds

LEMMA NextStepType ==
    ASSUME StepsInv, nextStep, idx \in StepIds
    PROVE  /\ idx' \in 1 .. (N + 1) /\ quit' \in BOOLEAN
           /\ state' \in [StepIds -> {"waiting", "queued", "running", "over"}]
<1>1. idx' \in 1 .. (N + 1)
    BY NAssumption DEF nextStep, StepIds
<1>2. quit' \in BOOLEAN
    BY DEF nextStep, StepsInv, StepsTypeOK
<1>3. state' \in [StepIds -> {"waiting", "queued", "running", "over"}]
    BY DEF nextStep, StepsInv, StepsTypeOK
<1> QED
    BY <1>1, <1>2, <1>3

LEMMA TypeStep == StepsInv /\ [StepsNext]_stepsVars => StepsTypeOK'
<1> SUFFICES ASSUME StepsInv, [StepsNext]_stepsVars PROVE StepsTypeOK'
    OBVIOUS
<1>1. ASSUME NEW i \in StepIds, StartStep(i) PROVE StepsTypeOK'
    BY <1>1 DEF StartStep, StepsInv, StepsTypeOK
<1>2. ASSUME NEW i \in StepIds, NEW o \in Outcomes, EndStep(i, o) PROVE StepsTypeOK'
    BY <1>2 DEF EndStep, StepsInv, StepsTypeOK
<1>3. CASE DoneMsg
    <2>1. CASE mail = "error"
        BY <1>3, <2>1 DEF DoneMsg, StepsInv, StepsTypeOK
    <2>2. CASE mail # "error"
        BY <1>3, <2>2, NextStepType DEF DoneMsg, StepsInv, StepsTypeOK, InStep
    <2> QED
        BY <2>1, <2>2
<1>4. CASE CtrlC
    BY <1>4 DEF CtrlC, StepsInv, StepsTypeOK
<1>9. CASE Terminate
    BY <1>9 DEF Terminate, StepsInv, StepsTypeOK
<1>5. CASE Quit
    BY <1>5 DEF Quit, StepsInv, StepsTypeOK
<1>6. CASE RunBroken
    BY <1>6 DEF RunBroken, StepsInv, StepsTypeOK
<1>7. CASE PlainNext
    <2>1. CASE mail = "error"
        BY <1>7, <2>1 DEF PlainNext, StepsInv, StepsTypeOK
    <2>2. CASE mail # "error"
        BY <1>7, <2>2, NextStepType DEF PlainNext, StepsInv, StepsTypeOK, InStep
    <2> QED
        BY <2>1, <2>2
<1>8. CASE UNCHANGED stepsVars
    BY <1>8 DEF stepsVars, StepsInv, StepsTypeOK
<1> QED
    BY <1>1, <1>2, <1>3, <1>4, <1>5, <1>6, <1>7, <1>8, <1>9 DEF StepsNext, RunSteps

LEMMA InStepStep == StepsInv /\ [StepsNext]_stepsVars => InStep'
<1> SUFFICES ASSUME StepsInv, [StepsNext]_stepsVars PROVE InStep'
    OBVIOUS
<1>1. ASSUME NEW i \in StepIds, StartStep(i) PROVE InStep'
    <2>1. i = idx /\ mail = "none"
        BY <1>1, AtIdx DEF StartStep
    <2> QED
        BY <1>1, <2>1 DEF StartStep, StepsInv, StepsTypeOK, InStep, Good, StepIds
<1>2. ASSUME NEW i \in StepIds, NEW o \in Outcomes, EndStep(i, o) PROVE InStep'
    <2>1. i = idx
        BY <1>2, AtIdx DEF EndStep
    <2> QED
        BY <1>2, <2>1 DEF EndStep, StepsInv, StepsTypeOK, InStep, Good, StepIds, Outcomes
<1>3. CASE DoneMsg
    <2>1. CASE mail = "error"
        BY <1>3, <2>1 DEF DoneMsg, StepsInv, StepsTypeOK, InStep, Good, StepIds
    <2>2. CASE mail # "error"
        <3>1. Good(idx) /\ idx \in StepIds
            BY <1>3, <2>2 DEF DoneMsg, StepsInv, StepsTypeOK, InStep, Good, Outcomes
        <3> QED
            BY <1>3, <2>2, <3>1, NAssumption
               DEF DoneMsg, nextStep, StepsInv, StepsTypeOK, InStep, Good, StepIds
    <2> QED
        BY <2>1, <2>2
<1>7. CASE PlainNext
    <2>1. CASE mail = "error"
        BY <1>7, <2>1 DEF PlainNext, StepsInv, StepsTypeOK, InStep, Good, StepIds
    <2>2. CASE mail # "error"
        <3>1. Good(idx) /\ idx \in StepIds
            BY <1>7, <2>2 DEF PlainNext, StepsInv, StepsTypeOK, InStep, Good, Outcomes
        <3> QED
            BY <1>7, <2>2, <3>1, NAssumption
               DEF PlainNext, nextStep, StepsInv, StepsTypeOK, InStep, Good, StepIds
    <2> QED
        BY <2>1, <2>2
<1>4. CASE CtrlC
    BY <1>4 DEF CtrlC, StepsInv, InStep, Good
<1>9. CASE Terminate
    BY <1>9 DEF Terminate, StepsInv, InStep, Good
<1>5. CASE Quit
    BY <1>5 DEF Quit, StepsInv, InStep, Good
<1>6. CASE RunBroken
    BY <1>6 DEF RunBroken, StepsInv, InStep, Good
<1>8. CASE UNCHANGED stepsVars
    BY <1>8 DEF stepsVars, StepsInv, InStep, Good
<1> QED
    BY <1>1, <1>2, <1>3, <1>4, <1>5, <1>6, <1>7, <1>8, <1>9 DEF StepsNext, RunSteps

\* Once a step failed, it stays failed.
LEMMA HaltedStays == StepsInv /\ [StepsNext]_stepsVars /\ Halted => Halted'
<1> SUFFICES ASSUME StepsInv, [StepsNext]_stepsVars, NEW h \in StepIds,
                    state[h] = "over", ended[h] = "error"
             PROVE  state'[h] = "over" /\ ended'[h] = "error"
    BY DEF Halted
<1>1. h = idx
    BY DEF StepsInv, StepsTypeOK, InStep, Good, StepIds
<1>2. mail # "none" => mail = "error"
    BY <1>1 DEF StepsInv, InStep
<1> QED
    BY <1>1, <1>2 DEF StepsNext, RunSteps, StartStep, EndStep, DoneMsg, CtrlC, Quit,
                      Terminate, RunBroken, PlainNext, stepsVars, StepsInv, StepsTypeOK

LEMMA AnswersStep == StepsInv /\ [StepsNext]_stepsVars => Answers'
<1> SUFFICES ASSUME StepsInv, [StepsNext]_stepsVars PROVE Answers'
    OBVIOUS
<1>h. Halted => Halted'
    BY HaltedStays
<1>m. mail = "error" => Halted
    BY DEF StepsInv, InStep, Halted
<1> HIDE DEF Halted
<1>1. ASSUME NEW i \in StepIds, StartStep(i) PROVE Answers'
    BY <1>1, <1>h DEF StartStep, StepsInv, Answers
<1>2. ASSUME NEW i \in StepIds, NEW o \in Outcomes, EndStep(i, o) PROVE Answers'
    BY <1>2, <1>h DEF EndStep, StepsInv, Answers
<1>3. CASE DoneMsg
    <2>1. CASE mail = "error"
        <3>1. err' = "failed" /\ result' = "none" /\ Halted'
            BY <1>3, <2>1, <1>h, <1>m DEF DoneMsg
        <3> QED
            BY <3>1 DEF Answers
    <2>2. CASE mail # "error"
        <3>1. idx \in StepIds
            BY <1>3 DEF DoneMsg, StepsInv, InStep
        <3>2. (quit => err # "none" \/ termed) /\ result = "none"
            BY <3>1, <1>3, NAssumption DEF DoneMsg, StepsInv, Answers, StepIds
        <3>3. quit' => idx' = N + 1 \/ err # "none" \/ termed
            <4>1. CASE idx + 1 > N
                BY <3>1, <1>3, <2>2, <4>1, NAssumption DEF DoneMsg, nextStep, StepIds
            <4>2. CASE ~(idx + 1 > N)
                BY <3>2, <1>3, <2>2, <4>2 DEF DoneMsg, nextStep
            <4> QED
                BY <4>1, <4>2
        <3> QED
            BY <1>3, <2>2, <3>2, <3>3, <1>h DEF DoneMsg, StepsInv, Answers
    <2> QED
        BY <2>1, <2>2
<1>4. CASE CtrlC
    BY <1>4, <1>h DEF CtrlC, StepsInv, Answers
<1>9. CASE Terminate
    BY <1>9, <1>h DEF Terminate, StepsInv, Answers
<1>5. CASE Quit
    BY <1>5, <1>h DEF Quit, StepsInv, Answers, StepsTypeOK
<1>6. CASE RunBroken
    BY <1>6, <1>h DEF RunBroken, StepsInv, Answers
<1>7. CASE PlainNext
    <2>1. CASE mail = "error"
        BY <1>7, <2>1, <1>h, <1>m DEF PlainNext, StepsInv, Answers
    <2>2. CASE mail # "error"
        <3>1. idx \in StepIds
            BY <1>7 DEF PlainNext, StepsInv, InStep
        <3> QED
            BY <3>1, <1>7, <2>2, <1>h, NAssumption
               DEF PlainNext, nextStep, StepsInv, Answers, StepIds
    <2> QED
        BY <2>1, <2>2
<1>8. CASE UNCHANGED stepsVars
    BY <1>8, <1>h DEF stepsVars, StepsInv, Answers
<1> QED
    BY <1>1, <1>2, <1>3, <1>4, <1>5, <1>6, <1>7, <1>8, <1>9 DEF StepsNext, RunSteps

LEMMA StepsInductive == StepsSpec => []StepsInv
<1>1. StepsInv /\ [StepsNext]_stepsVars => StepsInv'
    BY TypeStep, InStepStep, AnswersStep DEF StepsInv
<1> QED
    BY StepsInitInv, <1>1, PTL DEF StepsSpec

-----------------------------------------------------------------------------
(* RunSteps implements StepList.                                           *)

\* What no step of it changes: only how far the program is.
LEMMA Stutter ==
    /\ UNCHANGED <<state, ended>> /\ UNCHANGED result
    /\ UNCHANGED termed \/ result = "none"
    => UNCHANGED List!vars
BY DEF List!vars, Good

LEMMA ListInit == StepsInit => List!Init
<1> SUFFICES ASSUME StepsInit PROVE List!Init
    OBVIOUS
<1>1. {i \in StepIds : Good(i)} = {} /\ {i \in StepIds : state[i] = "running"} = {}
    BY DEF StepsInit, Good
<1>2. ~ \E i \in StepIds : state[i] = "over" /\ ended[i] = "error"
    BY DEF StepsInit
<1> QED
    BY <1>1, <1>2 DEF StepsInit, List!Init

\* A step's goroutine starts its Run: Begin.
LEMMA ListBegin ==
    ASSUME StepsInv, NEW i \in StepIds, StartStep(i)
    PROVE  List!Begin(i)
<1>1. i = idx /\ ~Halted /\ (result = "ok" => termed) /\ result # "failed"
    BY AtIdx DEF StartStep, StepsInv, Answers
<1>2. {j \in StepIds : state[j] = "running"} = {}
    BY <1>1 DEF StartStep, StepsInv, StepsTypeOK, InStep, Good, StepIds
<1>3. {j \in StepIds : state'[j] = "running"} = {i}
    BY <1>2 DEF StartStep, StepsInv, StepsTypeOK
<1>4. {j \in StepIds : Good(j)'} = {j \in StepIds : Good(j)} /\ ~Good(i)
    BY DEF StartStep, StepsInv, StepsTypeOK, Good
<1>5. 1 .. (i - 1) \subseteq {j \in StepIds : Good(j)}
    BY <1>1, NAssumption DEF StepsInv, StepsTypeOK, InStep, StepIds
<1>6. (\E j \in StepIds : state[j] = "over" /\ ended[j] = "error")
      <=> (\E j \in StepIds : state'[j] = "over" /\ ended'[j] = "error")
    BY DEF StartStep, StepsInv, StepsTypeOK
<1>7. /\ UNCHANGED <<result, termed>>
      /\ result \in {"none", "cancelled", "broken"} \/ (result = "ok" /\ termed)
    BY <1>1 DEF StartStep, StepsInv, StepsTypeOK
<1> QED
    BY <1>1, <1>2, <1>3, <1>4, <1>5, <1>6, <1>7 DEF List!Begin, Halted

\* A Run returns: End, or Fail.
LEMMA ListEnd ==
    ASSUME StepsInv, NEW i \in StepIds, NEW o \in Outcomes, EndStep(i, o)
    PROVE  List!End(i) \/ List!Fail(i)
<1>1. i = idx /\ ~Halted
    BY AtIdx DEF EndStep
<1>2. {j \in StepIds : state'[j] = "running"} = {}
    BY <1>1 DEF EndStep, StepsInv, StepsTypeOK, InStep, Good, StepIds
<1>3. state[i] = "running" /\ UNCHANGED <<result, termed>>
    BY DEF EndStep
<1>4. CASE o # "error"
    <2>1. {j \in StepIds : Good(j)'} = {j \in StepIds : Good(j)} \cup {i}
        BY <1>4 DEF EndStep, StepsInv, StepsTypeOK, Good, Outcomes
    <2>2. ~ \E j \in StepIds : state'[j] = "over" /\ ended'[j] = "error"
        BY <1>1, <1>4 DEF EndStep, StepsInv, StepsTypeOK, Halted
    <2> QED
        BY <1>1, <1>2, <1>3, <2>1, <2>2 DEF List!End, Halted
<1>5. CASE o = "error"
    <2>1. {j \in StepIds : Good(j)'} = {j \in StepIds : Good(j)}
        BY <1>3, <1>5 DEF EndStep, StepsInv, StepsTypeOK, Good
    <2>2. \E j \in StepIds : state'[j] = "over" /\ ended'[j] = "error"
        BY <1>5 DEF EndStep, StepsInv, StepsTypeOK
    <2> QED
        BY <1>2, <1>3, <2>1, <2>2 DEF List!Fail
<1> QED
    BY <1>4, <1>5

\* RunSteps returns: Answer.
LEMMA ListAnswer ==
    ASSUME StepsInv, UNCHANGED <<state, ended, termed>>, result = "none",
           result' \in {"ok", "cancelled", "failed", "broken"},
           result' = "ok" => termed \/ {i \in StepIds : Good(i)} = 1 .. N,
           result' = "failed" => Halted
    PROVE  \E a \in {"ok", "failed", "left"} : List!Answer(a)
<1>1. {i \in StepIds : Good(i)'} = {i \in StepIds : Good(i)}
    BY DEF Good
<1>2. CASE result' = "ok" /\ ~termed
    BY <1>1, <1>2 DEF List!Answer
<1>3. CASE result' = "failed"
    BY <1>1, <1>3 DEF List!Answer, Halted
<1>4. CASE result' \in {"cancelled", "broken"} \/ (result' = "ok" /\ termed)
    BY <1>1, <1>4 DEF List!Answer
<1> QED
    BY <1>2, <1>3, <1>4

LEMMA AllDone ==
    ASSUME StepsInv, idx = N + 1
    PROVE  {i \in StepIds : Good(i)} = 1 .. N
BY NAssumption DEF StepsInv, InStep, StepIds

\* The next step is queued: no step of the list yet.
LEMMA Queue ==
    ASSUME StepsInv, mail \notin {"none", "error"}, nextStep, UNCHANGED ended
    PROVE  /\ idx < N => /\ {i \in StepIds : Good(i)'} = {i \in StepIds : Good(i)}
                         /\ {i \in StepIds : state'[i] = "running"}
                               = {i \in StepIds : state[i] = "running"}
                         /\ (\E i \in StepIds : state'[i] = "over" /\ ended'[i] = "error")
                               <=> (\E i \in StepIds : state[i] = "over" /\ ended[i] = "error")
           /\ idx = N => UNCHANGED state
<1>1. idx \in StepIds
    BY DEF StepsInv, InStep
<1>2. CASE idx = N
    BY <1>2, NAssumption DEF nextStep
<1>3. CASE idx < N
    <2>1. idx + 1 \in StepIds /\ state[idx + 1] = "waiting"
        BY <1>1, <1>3, NAssumption DEF StepsInv, InStep, StepIds
    <2>2. state' = [state EXCEPT ![idx + 1] = "queued"]
        BY <1>1, <1>3, NAssumption DEF nextStep, StepIds
    <2>3. \A i \in StepIds : /\ Good(i)' <=> Good(i)
                             /\ state'[i] = "running" <=> state[i] = "running"
                             /\ state'[i] = "over" <=> state[i] = "over"
        BY <2>1, <2>2 DEF StepsInv, StepsTypeOK, Good
    <2> QED
        BY <1>3, <2>3, NAssumption
<1> QED
    BY <1>1, <1>2, <1>3, NAssumption DEF StepIds

LEMMA ListStep == StepsInv /\ [StepsNext]_stepsVars => [List!Next]_List!vars
<1> SUFFICES ASSUME StepsInv, [StepsNext]_stepsVars PROVE List!Next \/ UNCHANGED List!vars
    OBVIOUS
<1>1. ASSUME NEW i \in StepIds, StartStep(i) PROVE List!Next
    BY <1>1, ListBegin DEF List!Next, StepIds
<1>2. ASSUME NEW i \in StepIds, NEW o \in Outcomes, EndStep(i, o) PROVE List!Next
    BY <1>2, ListEnd DEF List!Next, StepIds
<1>3. CASE DoneMsg /\ mail = "error"
    BY <1>3, Stutter DEF DoneMsg
<1>4. CASE CtrlC
    BY <1>4, Stutter DEF CtrlC
<1>10. CASE Terminate
    BY <1>10, Stutter DEF Terminate
<1>5. CASE Quit
    <2>1. result' = "ok" => termed \/ {i \in StepIds : Good(i)} = 1 .. N
        BY <1>5, AllDone DEF Quit, StepsInv, Answers, StepsTypeOK
    <2>2. result' = "failed" => Halted
        BY <1>5 DEF Quit, StepsInv, Answers, StepsTypeOK
    <2>3. result' \in {"ok", "cancelled", "failed"}
        BY <1>5 DEF Quit, StepsInv, StepsTypeOK
    <2> QED
        BY <1>5, <2>1, <2>2, <2>3, ListAnswer DEF Quit, List!Next
<1>6. CASE RunBroken
    BY <1>6, ListAnswer DEF RunBroken, List!Next
<1>7. CASE PlainNext /\ mail = "error"
    <2>1. Halted
        BY <1>7 DEF PlainNext, StepsInv, InStep, Halted
    <2> QED
        BY <1>7, <2>1, ListAnswer DEF PlainNext, List!Next
<1>8. CASE UNCHANGED stepsVars
    BY <1>8, Stutter DEF stepsVars
<1>9. CASE (DoneMsg \/ PlainNext) /\ mail # "error"
    <2>1. /\ mail \notin {"none", "error"} /\ nextStep /\ UNCHANGED <<ended, termed>>
          /\ result = "none"
        BY <1>9 DEF DoneMsg, PlainNext
    <2>2. idx \in StepIds /\ (idx = N \/ idx < N)
        BY <2>1, NAssumption DEF StepsInv, InStep, StepIds
    <2>3. CASE result' = result
        <3>1. CASE idx = N
            BY <2>1, <2>3, <3>1, Queue, Stutter
        <3>2. CASE idx < N
            BY <2>1, <2>3, <3>2, Queue DEF List!vars
        <3> QED
            BY <2>2, <3>1, <3>2
    <2>4. CASE result' # result
        <3>1. idx = N /\ result' = "ok" /\ UNCHANGED state
            BY <1>9, <2>1, <2>4, Queue DEF DoneMsg, PlainNext
        <3>2. {i \in StepIds : Good(i)} = 1 .. N
            <4>1. Good(idx)
                BY <2>1, <2>2 DEF StepsInv, StepsTypeOK, InStep, Good, Outcomes
            <4> QED
                BY <3>1, <4>1, NAssumption DEF StepsInv, InStep, StepIds
        <3> QED
            BY <2>1, <3>1, <3>2, ListAnswer DEF List!Next
    <2> QED
        BY <2>3, <2>4
<1> QED
    BY <1>1, <1>2, <1>3, <1>4, <1>5, <1>6, <1>7, <1>8, <1>9, <1>10 DEF StepsNext, RunSteps

\* The variables of the step runner hold what they may hold: idx is a step
\* or just past the last, every step in one of its four states.
THEOREM StepsTypes == StepsSpec => []StepsTypeOK
BY StepsInductive, PTL DEF StepsInv

\* The steps are where idx says, whatever order the loop takes its messages in.
THEOREM StepsInStep == StepsSpec => []InStep
BY StepsInductive, PTL DEF StepsInv

\* RunSteps is the list of steps a command is written for, on both screens and
\* with every order of messages: one step at a time, in order, none after a
\* failure, "ok" only when all are done.  A SIGTERM is named as the exception:
\* the "ok" it brings says no more than that the steps were left.
THEOREM ImplementsStepList == StepsSpec => RunsTheList
<1>1. StepsInit => List!Init
    BY ListInit
<1>2. StepsInv /\ [StepsNext]_stepsVars => [List!Next]_List!vars
    BY ListStep
<1> QED
    BY StepsInductive, <1>1, <1>2, PTL DEF StepsSpec, RunsTheList
=============================================================================
