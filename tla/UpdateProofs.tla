---------------------------- MODULE UpdateProofs ----------------------------
(***************************************************************************)
(* Proofs about Update, for any builds, versions, files and deltas: its    *)
(* types, what becomes the installed binary, the copy inside the distro,   *)
(* and the files of the edition.                                           *)
(***************************************************************************)
EXTENDS Update, TLAPS

\* What the resolver, the download and the checks have settled so far.
SelfInv ==
    /\ proc.at \in {"resolve", "fetch", "download", "verify", "rename"} => proc.running = self
    /\ proc.at \in {"fetch", "download", "verify", "rename"} =>
          /\ proc.want \in Builds /\ proc.claim \in {NoBuild, proc.want}
          /\ proc.claim # NoBuild /\ proc.channel # "stable"
                => Older(Version[proc.running], Version[proc.want])
    /\ proc.at = "verify" => tmp \in Builds
    /\ proc.at = "rename" =>
          /\ tmp = proc.want
          /\ proc.channel # "stable" => Older(Version[proc.running], Version[tmp])

\* Who does the work in the distro.
GuestInv ==
    /\ proc.at = "distro" /\ ~stale => proc.running = self
    /\ proc.at \in {"packages", "modded", "delta", "unpack", "tidy"} /\ ~stale => guest = self

\* The delta that begun stands for.
BegunInv ==
    /\ proc.at \in {"delta", "unpack"} => proc.list \in 1 .. published
    /\ proc.at \in {"modded", "delta", "unpack"} => ver # 0
    /\ ver # 0 /\ begun # 0 => \E i \in 1 .. published : NextDeltaIs(i, published, ver) /\ Deltas[i].to = begun

\* What its unpack has left to do.
FilesInv ==
    /\ ver # 0 => \A f \in Files \ warned :
          tree[f] = Tree[ver][f] \/ (begun # 0 /\ tree[f] = Tree[begun][f])
    /\ proc.at = "unpack" =>
          /\ begun # 0
          /\ \A f \in Files \ warned : f \in proc.todo \/ tree[f] = Tree[begun][f]

IInv == TypeOK /\ SelfInv /\ GuestInv /\ BegunInv /\ FilesInv

-----------------------------------------------------------------------------
(* The operators.                                                          *)

\* The comparison of update.go says exactly when a version is older.
LEMMA CmpOlder ==
    ASSUME NEW a \in Parsed, NEW b \in Parsed
    PROVE  /\ versionCmp(a, b) \in Int
           /\ ~(versionCmp(a, b) <= 0) => Older(b, a)
           /\ versionCmp(a, b) > 0 => Older(b, a)
<1> a.num \in Nat /\ a.kind \in 0 .. 2 /\ a.pre \in Nat /\ a.n \in Nat
    BY DEF Parsed
<1> b.num \in Nat /\ b.kind \in 0 .. 2 /\ b.pre \in Nat /\ b.n \in Nat
    BY DEF Parsed
<1> QED
    BY DEF versionCmp, cmpInt, Older

LEMMA DeltaType ==
    ASSUME NEW i \in 1 .. Len(Deltas)
    PROVE  Deltas[i] \in Delta /\ Deltas[i].from \in Versions /\ Deltas[i].to \in Versions
<1>1. Deltas[i] \in Delta
    BY DeltasAssumption
<1> QED
    BY <1>1 DEF Delta

LEMMA TreeType ==
    ASSUME NEW v \in Versions
    PROVE  v # 0 /\ Tree[v] \in [Files -> Nat]
BY TreeAssumption DEF Versions

\* A delta that is the next one stays so in a longer list.
LEMMA NextStays ==
    ASSUME NEW n \in 1 .. Len(Deltas), NEW m \in n .. Len(Deltas),
           NEW v, NEW i \in 1 .. n, NextDeltaIs(i, n, v)
    PROVE  NextDeltaIs(i, m, v)
BY DeltasAssumption DEF NextDeltaIs, Listed

LEMMA NextUnique ==
    ASSUME NEW n \in 1 .. Len(Deltas), NEW v, NEW i \in 1 .. n, NEW j \in 1 .. n,
           NextDeltaIs(i, n, v), NextDeltaIs(j, n, v)
    PROVE  i = j
BY DEF NextDeltaIs, Listed

LEMMA IdleType ==
    ASSUME NEW b \in Builds
    PROVE  Idle(b) \in Proc /\ Idle(b).at = "idle"
BY DeltasAssumption DEF Idle, Proc, Stages, Channels

\* What a change of the stage alone leaves of the command.
LEMMA MovesOn ==
    ASSUME proc \in Proc, NEW stage \in Stages
    PROVE  /\ [proc EXCEPT !.at = stage] \in Proc
           /\ [proc EXCEPT !.at = stage].at = stage
           /\ [proc EXCEPT !.at = stage].running = proc.running
           /\ [proc EXCEPT !.at = stage].channel = proc.channel
           /\ [proc EXCEPT !.at = stage].want = proc.want
           /\ [proc EXCEPT !.at = stage].claim = proc.claim
           /\ [proc EXCEPT !.at = stage].list = proc.list
           /\ [proc EXCEPT !.at = stage].todo = proc.todo
BY DEF Proc

LEMMA AfterSelfMoves ==
    ASSUME TypeOK
    PROVE  /\ AfterSelf \in Proc
           /\ AfterSelf.at \in {"idle", "distro"}
           /\ AfterSelf.at = "distro" => AfterSelf.running = proc.running
<1>1. CASE proc.only
    BY <1>1, IdleType DEF AfterSelf, TypeOK
<1>2. CASE ~proc.only
    <2>1. AfterSelf = [proc EXCEPT !.at = "distro"]
        BY <1>2 DEF AfterSelf
    <2> QED
        BY <2>1, MovesOn DEF TypeOK, Stages
<1> QED
    BY <1>1, <1>2

-----------------------------------------------------------------------------
(* What a step keeps by what it does not touch.                            *)

EditionStages == {"modded", "delta", "unpack"}
SelfStages == {"resolve", "fetch", "download", "verify", "rename"}
GuestStages == {"distro", "packages", "modded", "delta", "unpack", "tidy"}

LEMMA EditionKept ==
    ASSUME BegunInv, FilesInv, proc'.at \notin EditionStages, UNCHANGED <<edition, published>>
    PROVE  BegunInv' /\ FilesInv'
<1> USE DEF edition, EditionStages
<1>1. BegunInv'
    BY DEF BegunInv, NextDeltaIs, Listed
<1>2. FilesInv'
    BY DEF FilesInv
<1> QED
    BY <1>1, <1>2

LEMMA SelfOver == proc'.at \notin SelfStages => SelfInv'
BY DEF SelfInv, SelfStages

LEMMA GuestNotYet == proc'.at \notin GuestStages => GuestInv'
BY DEF GuestInv, GuestStages

\* A command that ends.
LEMMA Ends ==
    ASSUME IInv, proc' = Idle(self) \/ proc' = Idle(self'), self' \in Builds,
           UNCHANGED <<edition, published>>
    PROVE  proc' \in Proc /\ SelfInv' /\ GuestInv' /\ BegunInv' /\ FilesInv'
<1>1. proc' \in Proc /\ proc'.at = "idle"
    BY IdleType DEF IInv, TypeOK
<1>2. proc'.at \notin EditionStages /\ proc'.at \notin SelfStages /\ proc'.at \notin GuestStages
    BY <1>1 DEF EditionStages, SelfStages, GuestStages
<1> QED
    BY <1>1, <1>2, EditionKept, SelfOver, GuestNotYet DEF IInv

\* A self-update that has nothing to install.
LEMMA Skips ==
    ASSUME IInv, proc.at \in SelfStages, proc' = AfterSelf,
           UNCHANGED <<self, stale, edition, published>>
    PROVE  proc' \in Proc /\ SelfInv' /\ GuestInv' /\ BegunInv' /\ FilesInv'
<1>1. proc' \in Proc /\ proc'.at \in {"idle", "distro"}
    BY AfterSelfMoves DEF IInv
<1>2. proc'.at = "distro" => proc'.running = self'
    BY AfterSelfMoves DEF IInv, SelfInv, SelfStages
<1>3. proc'.at \notin EditionStages /\ proc'.at \notin SelfStages
    BY <1>1 DEF EditionStages, SelfStages
<1>4. GuestInv'
    BY <1>1, <1>2 DEF GuestInv
<1> QED
    BY <1>1, <1>3, <1>4, EditionKept, SelfOver DEF IInv

-----------------------------------------------------------------------------
(* The inductive invariant.                                                *)

LEMMA InitIInv == Init => IInv
<1> SUFFICES ASSUME Init PROVE IInv
    OBVIOUS
<1>1. 1 \in 1 .. Len(Deltas) /\ Deltas[1].from \in Versions
    <2>1. 1 \in 1 .. Len(Deltas)
        BY DeltasAssumption
    <2> QED
        BY <2>1, DeltaType
<1>2. self \in Builds /\ guest = self /\ proc = Idle(self) /\ ver \in Versions /\ tree = Tree[ver]
    BY <1>1 DEF Init
<1>3. proc \in Proc /\ proc.at = "idle"
    BY <1>2, IdleType
<1>4. tree \in [Files -> Nat]
    BY <1>2, TreeType
<1>5. TypeOK
    BY <1>1, <1>2, <1>3, <1>4 DEF Init, TypeOK
<1>6. SelfInv /\ GuestInv
    BY <1>3 DEF SelfInv, GuestInv
<1>7. BegunInv /\ FilesInv
    BY <1>2, <1>3 DEF Init, BegunInv, FilesInv
<1> QED
    BY <1>5, <1>6, <1>7 DEF IInv

LEMMA PublishStep == ASSUME IInv, Publish PROVE IInv'
<1> USE DEF IInv, TypeOK
<1>1. published \in 1 .. Len(Deltas) /\ published' \in published .. Len(Deltas) /\ published' \in 1 .. Len(Deltas)
    BY DeltasAssumption DEF Publish
<1>2. TypeOK'
    BY <1>1 DEF Publish, binary, edition
<1>3. SelfInv' /\ GuestInv'
    BY DEF Publish, SelfInv, GuestInv, binary, edition
<1>4. FilesInv'
    BY DEF Publish, FilesInv, binary, edition
<1>5. proc' = proc /\ ver' = ver /\ begun' = begun
    BY DEF Publish, edition
<1>6. proc.at \in {"delta", "unpack"} => proc.list \in 1 .. published'
    BY <1>1 DEF BegunInv
<1>7. ASSUME ver # 0, begun # 0
      PROVE  \E i \in 1 .. published' : NextDeltaIs(i, published', ver) /\ Deltas[i].to = begun
    <2>1. PICK i \in 1 .. published : NextDeltaIs(i, published, ver) /\ Deltas[i].to = begun
        BY <1>7 DEF BegunInv
    <2>2. NextDeltaIs(i, published', ver)
        BY <1>1, <2>1, NextStays
    <2> QED
        BY <1>1, <2>1, <2>2
<1>8. BegunInv'
    BY <1>5, <1>6, <1>7 DEF BegunInv, NextDeltaIs, Listed
<1> QED
    BY <1>2, <1>3, <1>4, <1>8

LEMMA StartStep ==
    ASSUME IInv, NEW c \in Channels, NEW only \in BOOLEAN, NEW noSelf \in BOOLEAN, Start(c, only, noSelf)
    PROVE  IInv'
<1> USE DEF IInv
<1> DEFINE stage == IF noSelf THEN "distro" ELSE "resolve"
<1>1. proc' = [Idle(self) EXCEPT !.at = stage, !.channel = c, !.only = only]
    BY DEF Start
<1>2. proc' \in Proc /\ proc'.at = stage /\ proc'.running = self
    <2>1. stage \in Stages
        BY DEF Stages
    <2>2. Idle(self) \in Proc /\ Idle(self).running = self
        BY IdleType DEF TypeOK, Idle
    <2> HIDE DEF stage
    <2> QED
        BY <1>1, <2>1, <2>2 DEF Proc
<1>3. TypeOK'
    BY <1>2 DEF Start, TypeOK, binary, edition
<1>4. SelfInv'
    BY <1>2 DEF SelfInv, Start, binary
<1>5. GuestInv'
    BY <1>2 DEF GuestInv, Start, binary
<1>6. BegunInv' /\ FilesInv'
    BY <1>2, EditionKept DEF EditionStages, Start
<1> QED
    BY <1>3, <1>4, <1>5, <1>6

LEMMA SettleStep == ASSUME IInv, Settle PROVE IInv'
<1> USE DEF IInv, binary, edition
<1>1. TypeOK'
    BY DEF Settle, TypeOK
<1>2. SelfInv' /\ GuestInv' /\ FilesInv'
    BY DEF Settle, SelfInv, GuestInv, FilesInv
<1>3. BegunInv'
    BY DEF Settle, BegunInv, NextDeltaIs, Listed
<1> QED
    BY <1>1, <1>2, <1>3

LEMMA StopStep == ASSUME IInv, Stop PROVE IInv'
<1>1. proc' \in Proc /\ SelfInv' /\ GuestInv' /\ BegunInv' /\ FilesInv'
    BY Ends DEF Stop, binary, IInv, TypeOK
<1>2. TypeOK'
    BY <1>1 DEF Stop, binary, edition, IInv, TypeOK
<1> QED
    BY <1>1, <1>2 DEF IInv

\* The build that the resolver settles on is newer than this one, if it has
\* to be.
LEMMA ResolveStep == ASSUME IInv, Resolve PROVE IInv'
<1> USE DEF IInv
<1>1. PICK b \in Builds, named \in BOOLEAN :
        proc' = IF \/ b = self
                   \/ named /\ proc.channel # "stable"
                            /\ versionCmp(Version[b], Version[proc.running]) <= 0
                THEN AfterSelf
                ELSE [proc EXCEPT !.at = "fetch", !.want = b,
                                  !.claim = IF named THEN b ELSE NoBuild]
    BY BuildsAssumption DEF Resolve
<1>2. proc.at = "resolve" /\ UNCHANGED <<binary, guest, edition, published, steady, stale>>
    BY DEF Resolve
<1>3. CASE proc' = AfterSelf
    <2>1. proc' \in Proc /\ SelfInv' /\ GuestInv' /\ BegunInv' /\ FilesInv'
        BY <1>2, <1>3, Skips DEF SelfStages, binary
    <2>2. TypeOK'
        BY <1>2, <2>1 DEF binary, edition, TypeOK
    <2> QED
        BY <2>1, <2>2
<1>4. CASE proc' # AfterSelf
    <2> DEFINE claim == IF named THEN b ELSE NoBuild
    <2>1. proc' = [proc EXCEPT !.at = "fetch", !.want = b, !.claim = claim]
        BY <1>1, <1>4
    <2>2. named /\ proc.channel # "stable" => ~(versionCmp(Version[b], Version[proc.running]) <= 0)
        BY <1>1, <1>4
    <2>3. claim \in {NoBuild, b} /\ (claim # NoBuild => named)
        OBVIOUS
    <2> HIDE DEF claim
    <2>4. /\ proc' \in Proc /\ proc'.at = "fetch" /\ proc'.want = b /\ proc'.claim = claim
          /\ proc'.running = proc.running /\ proc'.channel = proc.channel
        BY <2>1, <2>3 DEF TypeOK, Proc, Stages
    <2>5. named /\ proc.channel # "stable" => Older(Version[proc.running], Version[b])
        <3>1. Version[b] \in Parsed /\ Version[proc.running] \in Parsed
            BY BuildsAssumption DEF TypeOK, Proc
        <3> QED
            BY <2>2, <3>1, CmpOlder
    <2>6. SelfInv'
        BY <1>2, <2>3, <2>4, <2>5 DEF SelfInv, binary
    <2>7. GuestInv'
        BY <2>4, GuestNotYet DEF GuestStages
    <2>8. BegunInv' /\ FilesInv'
        BY <1>2, <2>4, EditionKept DEF EditionStages
    <2>9. TypeOK'
        BY <1>2, <2>4 DEF binary, edition, TypeOK
    <2> QED
        BY <2>6, <2>7, <2>8, <2>9
<1> QED
    BY <1>3, <1>4

\* A step of the self-update that goes on with the same build.
LEMMA GoesOn ==
    ASSUME IInv, NEW stage \in SelfStages, proc' = [proc EXCEPT !.at = stage],
           UNCHANGED <<self, guest, edition, published, steady, stale>>,
           tmp' \in Builds \cup {"none", "part"}
    PROVE  TypeOK' /\ GuestInv' /\ BegunInv' /\ FilesInv'
<1>1. stage \in Stages /\ stage \notin EditionStages /\ stage \notin GuestStages
    BY DEF SelfStages, Stages, EditionStages, GuestStages
<1>2. proc' \in Proc /\ proc'.at = stage
    BY <1>1, MovesOn DEF IInv, TypeOK
<1>3. TypeOK'
    BY <1>2 DEF IInv, TypeOK, edition
<1> QED
    BY <1>1, <1>2, <1>3, GuestNotYet, EditionKept DEF IInv

LEMMA BeginFetchStep == ASSUME IInv, BeginFetch PROVE IInv'
<1>1. TypeOK' /\ GuestInv' /\ BegunInv' /\ FilesInv'
    BY GoesOn DEF BeginFetch, SelfStages
<1>2. SelfInv'
    BY MovesOn DEF BeginFetch, IInv, TypeOK, SelfInv, Stages
<1> QED
    BY <1>1, <1>2 DEF IInv

LEMMA FetchedStep == ASSUME IInv, Fetched PROVE IInv'
<1>1. CASE proc' = [proc EXCEPT !.at = "verify"] /\ tmp' \in Builds
    <2>1. TypeOK' /\ GuestInv' /\ BegunInv' /\ FilesInv'
        BY <1>1, GoesOn DEF Fetched, SelfStages
    <2>2. SelfInv'
        BY <1>1, MovesOn DEF Fetched, IInv, TypeOK, SelfInv, Stages
    <2> QED
        BY <2>1, <2>2 DEF IInv
<1>2. CASE proc' = Idle(self) /\ tmp' = "none"
    <2>1. proc' \in Proc /\ SelfInv' /\ GuestInv' /\ BegunInv' /\ FilesInv'
        BY <1>2, Ends DEF Fetched, IInv, TypeOK
    <2>2. TypeOK'
        BY <1>2, <2>1 DEF Fetched, edition, IInv, TypeOK
    <2> QED
        BY <2>1, <2>2 DEF IInv
<1>3. proc.want \in Builds
    BY DEF IInv, SelfInv, Fetched
<1> QED
    BY <1>1, <1>2, <1>3 DEF Fetched

LEMMA VerifyStep == ASSUME IInv, Verify PROVE IInv'
<1>0. proc.at = "verify" /\ tmp \in Builds /\ proc.running \in Builds
    BY DEF Verify, IInv, SelfInv, TypeOK, Proc
<1>1. CASE tmp' = "none" /\ (proc' = Idle(self) \/ proc' = AfterSelf)
    <2>1. proc' \in Proc /\ SelfInv' /\ GuestInv' /\ BegunInv' /\ FilesInv'
        BY <1>0, <1>1, Ends, Skips DEF Verify, IInv, TypeOK, SelfStages
    <2>2. TypeOK'
        BY <1>1, <2>1 DEF Verify, edition, IInv, TypeOK
    <2> QED
        BY <2>1, <2>2 DEF IInv
<1>2. CASE /\ tmp = proc.want /\ tmp' = tmp /\ proc' = [proc EXCEPT !.at = "rename"]
           /\ \/ proc.claim # NoBuild \/ proc.channel = "stable"
              \/ versionCmp(Version[tmp], Version[proc.running]) > 0
    <2>1. TypeOK' /\ GuestInv' /\ BegunInv' /\ FilesInv'
        BY <1>0, <1>2, GoesOn DEF Verify, SelfStages
    <2>2. Version[tmp] \in Parsed /\ Version[proc.running] \in Parsed
        BY <1>0, BuildsAssumption
    <2>3. proc.channel # "stable" => Older(Version[proc.running], Version[tmp])
        BY <1>0, <1>2, <2>2, CmpOlder DEF IInv, SelfInv
    <2>4. SelfInv'
        BY <1>0, <1>2, <2>3, MovesOn DEF Verify, IInv, TypeOK, SelfInv, Stages
    <2> QED
        BY <2>1, <2>4 DEF IInv
<1> QED
    BY <1>1, <1>2 DEF Verify

\* The new build takes over: it is the one that was checked.
LEMMA RenameStep == ASSUME IInv, Rename PROVE IInv'
<1>0. /\ proc.at = "rename" /\ tmp = proc.want /\ tmp \in Builds /\ tmp' = "none"
      /\ UNCHANGED <<guest, edition, published, steady, stale>>
    BY DEF Rename, IInv, SelfInv
<1>1. self' \in Builds
    BY <1>0 DEF Rename, IInv, TypeOK
<1>2. CASE proc' = Idle(self) \/ proc' = Idle(self')
    <2>1. proc' \in Proc /\ SelfInv' /\ GuestInv' /\ BegunInv' /\ FilesInv'
        BY <1>0, <1>1, <1>2, Ends
    <2>2. TypeOK'
        BY <1>0, <1>1, <2>1 DEF edition, IInv, TypeOK
    <2> QED
        BY <2>1, <2>2 DEF IInv
<1>3. CASE proc' = [proc EXCEPT !.at = "exec"]
    <2>1. proc' \in Proc /\ proc'.at = "exec"
        BY <1>3, MovesOn DEF IInv, TypeOK, Stages
    <2>2. proc'.at \notin SelfStages /\ proc'.at \notin GuestStages /\ proc'.at \notin EditionStages
        BY <2>1 DEF SelfStages, GuestStages, EditionStages
    <2>3. SelfInv' /\ GuestInv' /\ BegunInv' /\ FilesInv'
        BY <1>0, <2>2, SelfOver, GuestNotYet, EditionKept DEF IInv
    <2>4. TypeOK'
        BY <1>0, <1>1, <2>1 DEF edition, IInv, TypeOK
    <2> QED
        BY <2>3, <2>4 DEF IInv
<1> QED
    BY <1>2, <1>3 DEF Rename

LEMMA ExecStep == ASSUME IInv, Exec PROVE IInv'
<1>0. UNCHANGED <<binary, guest, edition, published, steady>> /\ stale' \in BOOLEAN
    BY DEF Exec, IInv, TypeOK
<1>1. proc' \in Proc /\ proc'.at = "distro" /\ (~stale' => proc'.running = self)
    <2>1. CASE proc' = [proc EXCEPT !.at = "distro", !.running = self] /\ UNCHANGED stale
        BY <2>1 DEF IInv, TypeOK, Proc, Stages
    <2>2. CASE proc' = [proc EXCEPT !.at = "distro"] /\ stale'
        BY <2>2, MovesOn DEF IInv, TypeOK, Stages
    <2> QED
        BY <2>1, <2>2 DEF Exec
<1>2. TypeOK'
    BY <1>0, <1>1 DEF binary, edition, IInv, TypeOK
<1>3. SelfInv' /\ GuestInv'
    BY <1>0, <1>1 DEF binary, SelfInv, GuestInv
<1>4. BegunInv' /\ FilesInv'
    BY <1>0, <1>1, EditionKept DEF IInv, EditionStages
<1> QED
    BY <1>2, <1>3, <1>4 DEF IInv

LEMMA InstallSelfStep == ASSUME IInv, InstallSelf PROVE IInv'
<1>1. /\ proc.at = "distro" /\ proc' = [proc EXCEPT !.at = "packages"]
      /\ UNCHANGED <<binary, edition, published, steady>> /\ proc \in Proc
    BY DEF InstallSelf, IInv, TypeOK
<1>2. proc' \in Proc /\ proc'.at = "packages"
    BY <1>1, MovesOn DEF Stages
<1>3. proc.running \in Builds /\ (~stale => proc.running = self)
    BY <1>1 DEF Proc, IInv, GuestInv
<1>4. guest' \in Builds /\ stale' \in BOOLEAN /\ (~stale' => guest' = self')
    BY <1>1, <1>3 DEF InstallSelf, IInv, TypeOK, binary
<1>5. TypeOK'
    BY <1>1, <1>2, <1>4 DEF binary, edition, IInv, TypeOK
<1>6. SelfInv' /\ GuestInv'
    BY <1>2, <1>4 DEF SelfInv, GuestInv
<1>7. BegunInv' /\ FilesInv'
    BY <1>1, <1>2, EditionKept DEF IInv, EditionStages
<1> QED
    BY <1>5, <1>6, <1>7 DEF IInv

\* A step in the distro after the helper's copy.
DistroStages == GuestStages \ {"distro"}

LEMMA WorksOn ==
    ASSUME IInv, proc.at \in DistroStages, proc'.at \in DistroStages,
           UNCHANGED <<binary, guest, stale>>
    PROVE  SelfInv' /\ GuestInv'
BY DEF IInv, SelfInv, GuestInv, DistroStages, GuestStages, binary

\* Such a step that changes nothing but its stage, and is not in the chain.
LEMMA StageOnly ==
    ASSUME IInv, proc.at \in DistroStages, NEW stage \in DistroStages,
           proc' = [proc EXCEPT !.at = stage], stage \notin EditionStages,
           UNCHANGED <<binary, guest, edition, published, steady, stale>>
    PROVE  IInv'
<1>1. proc' \in Proc /\ proc'.at = stage
    BY MovesOn DEF IInv, TypeOK, DistroStages, GuestStages, Stages
<1>2. TypeOK'
    BY <1>1 DEF IInv, TypeOK, binary, edition
<1>3. SelfInv' /\ GuestInv' /\ BegunInv' /\ FilesInv'
    BY <1>1, WorksOn, EditionKept DEF IInv
<1> QED
    BY <1>2, <1>3 DEF IInv

\* A command that ends with its binary and edition untouched.
LEMMA EndOnly ==
    ASSUME IInv, proc' = Idle(self),
           UNCHANGED <<binary, guest, edition, published, steady, stale>>
    PROVE  IInv'
<1>1. proc' \in Proc /\ SelfInv' /\ GuestInv' /\ BegunInv' /\ FilesInv'
    BY Ends DEF binary, IInv, TypeOK
<1>2. TypeOK'
    BY <1>1 DEF binary, edition, IInv, TypeOK
<1> QED
    BY <1>1, <1>2 DEF IInv

LEMMA PackagesStep == ASSUME IInv, Packages PROVE IInv'
<1>1. CASE ver = 0
    BY <1>1, StageOnly DEF Packages, DistroStages, GuestStages, EditionStages
<1>2. CASE ver # 0
    <2>1. proc' = [proc EXCEPT !.at = "modded"]
        BY <1>2 DEF Packages
    <2>2. proc' \in Proc /\ proc'.at = "modded"
        BY <2>1, MovesOn DEF IInv, TypeOK, Stages
    <2>3. TypeOK'
        BY <2>2 DEF Packages, IInv, TypeOK, binary, edition
    <2>4. SelfInv' /\ GuestInv'
        BY <2>2, WorksOn DEF Packages, DistroStages, GuestStages
    <2>5. BegunInv'
        BY <1>2, <2>2 DEF Packages, IInv, BegunInv, NextDeltaIs, Listed, edition
    <2>6. FilesInv'
        BY <2>2 DEF Packages, IInv, FilesInv, edition
    <2> QED
        BY <2>3, <2>4, <2>5, <2>6 DEF IInv
<1> QED
    BY <1>1, <1>2

LEMMA ReadManifestStep == ASSUME IInv, ReadManifest PROVE IInv'
<1>0. proc.at = "modded" /\ UNCHANGED <<binary, guest, edition, published, steady, stale>>
    BY DEF ReadManifest
<1>1. CASE proc' = [proc EXCEPT !.at = "tidy"]
    BY <1>0, <1>1, StageOnly DEF DistroStages, GuestStages, EditionStages
<1>2. CASE proc' = Idle(self)
    BY <1>0, <1>2, EndOnly
<1>3. CASE proc' = [proc EXCEPT !.at = "delta", !.list = published]
    <2>0. published \in 1 .. Len(Deltas) /\ published \in 0 .. Len(Deltas) /\ published \in 1 .. published
        BY DeltasAssumption DEF IInv, TypeOK
    <2>1. proc' \in Proc /\ proc'.at = "delta" /\ proc'.list = published
        BY <1>3, <2>0 DEF IInv, TypeOK, Proc, Stages
    <2>2. TypeOK'
        BY <1>0, <2>1 DEF IInv, TypeOK, binary, edition
    <2>3. SelfInv' /\ GuestInv'
        BY <1>0, <2>1, WorksOn DEF DistroStages, GuestStages
    <2>4. BegunInv'
        BY <1>0, <2>0, <2>1 DEF IInv, BegunInv, NextDeltaIs, Listed, edition
    <2>5. FilesInv'
        BY <1>0, <2>1 DEF IInv, FilesInv, edition
    <2> QED
        BY <2>2, <2>3, <2>4, <2>5 DEF IInv
<1> QED
    BY <1>1, <1>2, <1>3 DEF ReadManifest

LEMMA NoManifestStep == ASSUME IInv, NoManifest PROVE IInv'
BY StageOnly DEF NoManifest, DistroStages, GuestStages, EditionStages

\* The next delta leads on from the version on record; if it was begun before,
\* it is the same one, whatever the manifest lists by now.
LEMMA NextDeltaStep == ASSUME IInv, NextDelta PROVE IInv'
<1>0. proc.at = "delta" /\ UNCHANGED <<binary, guest, ver, tree, warned, published, steady, stale>>
    BY DEF NextDelta
<1>1. CASE proc' = [proc EXCEPT !.at = "tidy"] /\ UNCHANGED begun
    BY <1>0, <1>1, StageOnly DEF DistroStages, GuestStages, EditionStages, edition
<1>2. ASSUME NEW i \in 1 .. proc.list, NextDeltaIs(i, proc.list, ver),
             proc' = [proc EXCEPT !.at = "unpack", !.todo = Changed(Deltas[i])],
             begun' = Deltas[i].to
      PROVE  IInv'
    <2>1. /\ proc.list \in 1 .. published /\ published \in 1 .. Len(Deltas)
          /\ ver # 0 /\ Len(Deltas) \in Nat
        BY <1>0, DeltasAssumption DEF IInv, TypeOK, BegunInv
    <2>2. i \in 1 .. published /\ i \in 1 .. Len(Deltas) /\ proc.list \in 1 .. Len(Deltas)
          /\ published \in proc.list .. Len(Deltas)
        BY <2>1
    <2>3. NextDeltaIs(i, published, ver)
        BY <1>2, <2>1, <2>2, NextStays
    <2>4. Deltas[i].from = ver /\ Deltas[i].to \in Versions
        BY <2>2, <2>3, DeltaType DEF NextDeltaIs, Listed
    <2>5. begun # 0 => begun' = begun
        <3>1. SUFFICES ASSUME begun # 0 PROVE begun' = begun
            OBVIOUS
        <3>2. PICK j \in 1 .. published : NextDeltaIs(j, published, ver) /\ Deltas[j].to = begun
            BY <2>1, <3>1 DEF IInv, BegunInv
        <3>3. i = j
            BY <2>1, <2>2, <2>3, <3>2, NextUnique
        <3> QED
            BY <1>2, <3>2, <3>3
    <2>6. Changed(Deltas[i]) \subseteq Files
        BY DEF Changed
    <2>7. proc' \in Proc /\ proc'.at = "unpack" /\ proc'.todo = Changed(Deltas[i]) /\ proc'.list = proc.list
        BY <1>2, <2>6 DEF IInv, TypeOK, Proc, Stages
    <2>8. begun' \in Versions /\ begun' # 0
        BY <1>2, <2>4, TreeType
    <2>9. TypeOK'
        BY <1>0, <2>7, <2>8 DEF IInv, TypeOK, binary
    <2>10. SelfInv' /\ GuestInv'
        BY <1>0, <2>7, WorksOn DEF DistroStages, GuestStages
    <2>11. BegunInv'
        <3>1. \E k \in 1 .. published' : NextDeltaIs(k, published', ver') /\ Deltas[k].to = begun'
            BY <1>0, <1>2, <2>2, <2>3
        <3> QED
            BY <1>0, <2>1, <2>7, <3>1 DEF BegunInv
    <2>12. FilesInv'
        <3>1. ASSUME NEW f \in Files \ warned
              PROVE  tree[f] = Tree[ver][f] \/ tree[f] = Tree[begun'][f]
            BY <2>1, <2>5, <3>1 DEF IInv, FilesInv
        <3>2. ASSUME NEW f \in Files \ warned, f \notin Changed(Deltas[i])
              PROVE  tree[f] = Tree[begun'][f]
            <4>1. Tree[ver][f] = Tree[begun'][f]
                BY <1>2, <2>4, <3>2 DEF Changed
            <4> QED
                BY <3>1, <4>1
        <3> QED
            BY <1>0, <2>7, <2>8, <3>1, <3>2 DEF FilesInv
    <2> QED
        BY <2>9, <2>10, <2>11, <2>12 DEF IInv
<1> QED
    BY <1>1, <1>2 DEF NextDelta

LEMMA UnpackStep == ASSUME IInv, NEW f \in Files, Unpack(f) PROVE IInv'
<1>0. /\ proc.at = "unpack" /\ f \in proc.todo /\ proc' = [proc EXCEPT !.todo = @ \ {f}]
      /\ UNCHANGED <<binary, guest, ver, begun, published, steady, stale>>
    BY DEF Unpack
<1>1. proc' \in Proc /\ proc'.at = "unpack" /\ proc'.todo = proc.todo \ {f} /\ proc'.list = proc.list
    BY <1>0 DEF IInv, TypeOK, Proc
<1>2. begun \in Versions /\ begun # 0
    BY <1>0 DEF IInv, TypeOK, FilesInv
<1>3. Tree[begun] \in [Files -> Nat] /\ tree \in [Files -> Nat] /\ warned \subseteq Files
    BY <1>2, TreeType DEF IInv, TypeOK
<1>4. SelfInv' /\ GuestInv'
    BY <1>0, <1>1, WorksOn DEF DistroStages, GuestStages
<1>5. BegunInv'
    BY <1>0, <1>1 DEF IInv, BegunInv, NextDeltaIs, Listed
<1>6. CASE tree' = [tree EXCEPT ![f] = Tree[begun][f]] /\ warned' = warned \ {f}
    <2>1. tree' \in [Files -> Nat] /\ warned' \subseteq Files
        BY <1>3, <1>6
    <2>2. tree'[f] = Tree[begun][f] /\ \A g \in Files \ {f} : tree'[g] = tree[g]
        BY <1>3, <1>6
    <2>3. FilesInv'
        BY <1>0, <1>1, <1>2, <1>6, <2>2 DEF IInv, FilesInv
    <2>4. TypeOK'
        BY <1>0, <1>1, <2>1 DEF IInv, TypeOK, binary
    <2> QED
        BY <1>4, <1>5, <2>3, <2>4 DEF IInv
<1>7. CASE tree' = tree /\ warned' = warned \cup {f}
    <2>1. FilesInv'
        BY <1>0, <1>1, <1>2, <1>7 DEF IInv, FilesInv
    <2>2. TypeOK'
        BY <1>0, <1>1, <1>3, <1>7 DEF IInv, TypeOK, binary
    <2> QED
        BY <1>4, <1>5, <2>1, <2>2 DEF IInv
<1> QED
    BY <1>6, <1>7 DEF Unpack

\* With nothing left to unpack, every file is that of the new version.
LEMMA SetModdedVersionStep == ASSUME IInv, setModdedVersion PROVE IInv'
<1>0. /\ proc.at = "unpack" /\ proc.todo = {} /\ ver' = begun /\ begun' = 0
      /\ proc' = [proc EXCEPT !.at = "delta"]
      /\ UNCHANGED <<binary, guest, tree, warned, published, steady, stale>>
    BY DEF setModdedVersion
<1>1. proc' \in Proc /\ proc'.at = "delta" /\ proc'.list = proc.list
    BY <1>0, MovesOn DEF IInv, TypeOK, Stages
<1>2. begun \in Versions /\ begun # 0 /\ \A f \in Files \ warned : tree[f] = Tree[begun][f]
    BY <1>0 DEF IInv, TypeOK, FilesInv
<1>3. TypeOK'
    BY <1>0, <1>1, <1>2 DEF IInv, TypeOK, binary
<1>4. SelfInv' /\ GuestInv'
    BY <1>0, <1>1, WorksOn DEF DistroStages, GuestStages
<1>5. BegunInv' /\ FilesInv'
    BY <1>0, <1>1, <1>2 DEF IInv, BegunInv, FilesInv
<1> QED
    BY <1>3, <1>4, <1>5 DEF IInv

LEMMA CutVersionStep == ASSUME IInv, CutVersion PROVE IInv'
<1>0. /\ ver' = 0 /\ proc' = Idle(self)
      /\ UNCHANGED <<binary, guest, tree, begun, warned, published, steady, stale>>
    BY DEF CutVersion
<1>1. proc' \in Proc /\ proc'.at = "idle"
    BY <1>0, IdleType DEF IInv, TypeOK
<1>2. TypeOK'
    BY <1>0, <1>1 DEF IInv, TypeOK, binary
<1>3. SelfInv' /\ GuestInv' /\ BegunInv' /\ FilesInv'
    BY <1>0, <1>1 DEF SelfInv, GuestInv, BegunInv, FilesInv
<1> QED
    BY <1>2, <1>3 DEF IInv

LEMMA TidyStep == ASSUME IInv, Tidy PROVE IInv'
BY EndOnly DEF Tidy

LEMMA StutterStep == ASSUME IInv, UNCHANGED vars PROVE IInv'
<1> USE DEF vars
<1>1. TypeOK' /\ SelfInv' /\ GuestInv' /\ FilesInv'
    BY DEF IInv, TypeOK, SelfInv, GuestInv, FilesInv
<1>2. BegunInv'
    BY DEF IInv, BegunInv, NextDeltaIs, Listed
<1> QED
    BY <1>1, <1>2 DEF IInv

LEMMA Inductive == IInv /\ [Next]_vars => IInv'
<1> SUFFICES ASSUME IInv, [Next]_vars PROVE IInv'
    OBVIOUS
<1>1. CASE Begin
    BY <1>1, StartStep DEF Begin
<1>2. CASE Work
    <2>1. CASE Resolve \/ BeginFetch \/ Fetched \/ Verify \/ Rename \/ Exec
        BY <2>1, ResolveStep, BeginFetchStep, FetchedStep, VerifyStep, RenameStep, ExecStep
    <2>2. CASE InstallSelf \/ Packages \/ ReadManifest \/ NextDelta
        BY <2>2, InstallSelfStep, PackagesStep, ReadManifestStep, NextDeltaStep
    <2>3. CASE \E f \in Files : Unpack(f)
        BY <2>3, UnpackStep
    <2>4. CASE setModdedVersion \/ Tidy
        BY <2>4, SetModdedVersionStep, TidyStep
    <2> QED
        BY <1>2, <2>1, <2>2, <2>3, <2>4 DEF Work
<1>3. CASE NoManifest \/ CutVersion \/ Stop \/ Publish \/ Settle
    BY <1>3, NoManifestStep, CutVersionStep, StopStep, PublishStep, SettleStep
<1>4. CASE UNCHANGED vars
    BY <1>4, StutterStep
<1> QED
    BY <1>1, <1>2, <1>3, <1>4 DEF Next

-----------------------------------------------------------------------------
(* The theorems.                                                           *)

\* Whatever fails or is killed, the inductive invariant holds.
THEOREM Invariant == Spec => []IInv
BY InitIInv, Inductive, PTL DEF Spec

\* Every variable of the update keeps its type.
THEOREM TypeCorrect == Spec => []TypeOK
<1>1. IInv => TypeOK
    BY DEF IInv
<1> QED
    BY <1>1, Invariant, PTL

\* A full update that gets to its end leaves the distro with the installed
\* binary, unless the hand-over or the copy failed (update.go:94-119).
THEOREM GuestCopied == Spec => []GuestMatches
<1>1. IInv => GuestMatches
    BY DEF IInv, GuestInv, GuestMatches
<1> QED
    BY <1>1, Invariant, PTL

\* The edition's files are those of its recorded version, or of the delta
\* that leads on from it, for any edition and any list of deltas, after any
\* crashes, retries and new deltas (update.go:502-541).
THEOREM EditionWhole == Spec => []TreeIsVersion
<1>1. IInv => TreeIsVersion
    <2> SUFFICES ASSUME IInv, ver # 0, NEW f \in Files \ warned, tree[f] # Tree[ver][f]
                 PROVE  /\ begun # 0 /\ tree[f] = Tree[begun][f]
                        /\ \E i \in Listed(published, ver) :
                              Deltas[i].to = begun /\ \A j \in Listed(published, ver) : i <= j
        BY DEF TreeIsVersion
    <2>1. begun # 0 /\ tree[f] = Tree[begun][f]
        BY DEF IInv, FilesInv
    <2>2. PICK i \in 1 .. published : NextDeltaIs(i, published, ver) /\ Deltas[i].to = begun
        BY <2>1 DEF IInv, BegunInv
    <2> QED
        BY <2>1, <2>2 DEF NextDeltaIs
<1> QED
    BY <1>1, Invariant, PTL

\* Only the rename replaces the binary.
LEMMA OnlyRename ==
    ASSUME [Next]_vars, self' # self
    PROVE  Rename
BY DEF Next, Begin, Start, Work, Resolve, BeginFetch, Fetched, Verify, Exec, InstallSelf, Packages,
       ReadManifest, NextDelta, Unpack, setModdedVersion, Tidy, NoManifest, CutVersion, Stop, Publish,
       Settle, binary, vars

VerifiedStep == self' # self => self' = proc.want
ForwardStep == self' # self /\ proc.channel # "stable" => Older(Version[self], Version[self'])

\* The binary is only ever replaced by the build that was announced, whatever
\* the servers answer and whatever an earlier update left (update.go:269-294).
THEOREM BuildVerified == Spec => Verified
<1>1. IInv /\ [Next]_vars => [VerifiedStep]_vars
    BY OnlyRename DEF VerifiedStep, Rename, IInv, SelfInv
<1>2. [][VerifiedStep]_vars => Verified
    BY PTL DEF Verified, VerifiedStep
<1> QED
    BY <1>1, <1>2, Invariant, PTL DEF Spec

\* Unless the stable channel is asked for, the binary is only ever replaced by
\* a newer one, in the order of versions (update.go:248-253, 275-287, 302-325).
THEOREM NeverBack == Spec => Forward
<1>1. IInv /\ [Next]_vars => [ForwardStep]_vars
    BY OnlyRename DEF ForwardStep, Rename, IInv, SelfInv
<1>2. [][ForwardStep]_vars => Forward
    BY PTL DEF Forward, ForwardStep
<1> QED
    BY <1>1, <1>2, Invariant, PTL DEF Spec
=============================================================================
