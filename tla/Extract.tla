------------------------------ MODULE Extract ------------------------------
(***************************************************************************)
(* The unpacking of a root file system (internal/rootfs/extract.go): the   *)
(* entries of the archives, an image's layers one after the other, as they *)
(* come.  An archive may name things through links that it made itself, so *)
(* every path is resolved inside the root, and the directories met on the  *)
(* way are remembered as real ones.  Permissions, and what an entry that   *)
(* fails leaves half written, are left out.                                *)
(***************************************************************************)
EXTENDS Naturals, Sequences, SequencesExt

CONSTANTS
    Paths,       \* the paths of the tree, each a sequence of names
    Target,      \* link -> where it points: [abs, parts]
    Files,       \* the file that each layer's entries hold
    MaxHops,     \* the links that one name may lead through (40)
    MaxEntries   \* bound: the entries of all layers

Parts == UNION {ToSet(p) : p \in Paths}

ASSUME PathsAssumption ==
    /\ ".." \notin Parts
    /\ \A p \in Paths : /\ p \in Seq(Parts) /\ p # <<>>
                        /\ \A k \in 1 .. Len(p) : SubSeq(p, 1, k) \in Paths
ASSUME TargetAssumption ==
    \A l \in DOMAIN Target : Target[l] \in [abs : BOOLEAN, parts : Seq(Parts \cup {".."})]
ASSUME FilesAssumption ==
    /\ Files \in Seq(ToSet(Files)) /\ Files # <<>>
    /\ {"none", "dir"} \cap (DOMAIN Target \cup ToSet(Files)) = {}
    /\ DOMAIN Target \cap ToSet(Files) = {}
ASSUME MaxHopsAssumption == MaxHops \in Nat

VARIABLES
    tree,      \* what is under Root
    realDirs,  \* the directories remembered to be no links
    written,   \* the names that this layer wrote
    layer, entries,
    lower,     \* history: the tree under this layer
    up,        \* history: what this layer lists
    hidden,    \* history: the paths that it whites out
    opaque,    \* history: the directories that it makes opaque
    odd        \* history: a layer that no image tool writes was met

seen == <<lower, up, hidden, opaque, odd>>
extractVars == <<tree, realDirs, written, layer, entries, seen>>

Nothing == [p \in Paths |-> "none"]

ExtractInit ==
    /\ tree = Nothing /\ realDirs = {} /\ written = {}
    /\ layer = 1 /\ entries = 0
    /\ lower = Nothing /\ up = Nothing /\ hidden = {} /\ opaque = {} /\ odd = FALSE

-----------------------------------------------------------------------------
(* resolveIn.                                                              *)

IsLink(node) == node \in DOMAIN Target

\* Where a name leads that goes through too many links: to no path.
Lost == <<"..">>

\* From the root along name, through links: the path it leads to, and what it
\* meets on the way.
Walk(links, name) ==
    LET walk[cur \in Seq(Parts), rest \in Seq(Parts \cup {".."}), hops \in 0 .. MaxHops] ==
            IF rest = <<>> THEN [path |-> cur, met |-> {}]
            ELSE IF Head(rest) = ".."
            THEN walk[IF cur = <<>> THEN cur ELSE Front(cur), Tail(rest), hops]
            ELSE LET next == Append(cur, Head(rest))
                     to == Target[tree[next]]
                     there == walk[next, Tail(rest), hops]
                 IN IF next \notin links THEN [there EXCEPT !.met = @ \cup {next}]
                    ELSE IF hops = MaxHops THEN [path |-> Lost, met |-> {}]
                    ELSE walk[IF to.abs THEN <<>> ELSE cur, to.parts \o Tail(rest), hops + 1]
    IN walk[<<>>, name, 0]

\* What is remembered as a directory is not looked at again.
resolveIn(name, cache) ==
    LET to == Walk({p \in Paths : IsLink(tree[p])} \ cache, name)
    IN [path |-> to.path, dirs |-> {d \in to.met \cap Paths : tree[d] = "dir"}]

resolve(name) == resolveIn(name, realDirs)

-----------------------------------------------------------------------------
(* The tree.                                                               *)

Above(p) == {q \in Paths : IsPrefix(q, p)}

MkdirWorks(p) == \A q \in Above(p) : tree[q] \in {"none", "dir"}

MkdirAll(t, p) == [q \in Paths |-> IF q \in Above(p) THEN "dir" ELSE t[q]]

removeAll(t, p) == [q \in Paths |-> IF IsPrefix(p, q) THEN "none" ELSE t[q]]

Counts == entries < MaxEntries /\ entries' = entries + 1 /\ UNCHANGED layer

\* What the image format asks of a layer: a path once, after its directory.
Listed(name) == Len(name) = 1 \/ up[Front(name)] = "dir"

Proper(name) == ~odd /\ up[name] = "none" /\ Listed(name)

\* From here on the layers are not compared with the format.
Odd ==
    /\ odd' = TRUE /\ lower' = Nothing /\ up' = Nothing /\ hidden' = {} /\ opaque' = {}

Lists(name, node, ok) ==
    IF Proper(name) /\ ok
    THEN up' = [up EXCEPT ![name] = node] /\ UNCHANGED <<lower, hidden, opaque, odd>>
    ELSE Odd

\* The entry is only a warning.
Warned(dirs) ==
    /\ realDirs' = realDirs \cup dirs /\ Odd
    /\ UNCHANGED <<tree, written>>

-----------------------------------------------------------------------------
(* One action per kind of entry.                                           *)

\* A directory: its name is followed to the end; what is there and is no
\* directory goes.
DirEntry(name) ==
    LET to == resolve(name) IN
    /\ Counts
    /\ IF to.path = Lost \/ ~(\A q \in Above(to.path) \ {to.path} : tree[q] \in {"none", "dir"})
       THEN Warned(to.dirs)
       ELSE /\ tree' = MkdirAll(tree, to.path)
            /\ realDirs' = realDirs \cup to.dirs \cup {to.path}
            /\ written' = written \cup {name}
            /\ Lists(name, "dir", to.path = name)

\* parentThen: the last name of an entry that is no directory is not followed.
Place(name, dirs) ==
    LET to == resolveIn(Front(name), realDirs \cup dirs)
    IN [path |-> Append(to.path, Last(name)), dirs |-> dirs \cup to.dirs,
        works |-> to.path # Lost /\ MkdirWorks(to.path)]

\* What was there goes, directory or not.
Lands(name, at, node, forgotten) ==
    /\ Counts
    /\ IF ~at.works THEN Warned(at.dirs)
       ELSE /\ tree' = [removeAll(MkdirAll(tree, Front(at.path)), at.path) EXCEPT ![at.path] = node]
            /\ realDirs' = (realDirs \cup at.dirs) \ forgotten
            /\ written' = written \cup {name}
            /\ Lists(name, node, at.path = name /\ node # "none")

FileEntry(name) == Lands(name, Place(name, {}), Files[layer], {})

\* Mutant: a link that takes the place of a directory leaves it remembered.
LinkEntryRemembers(name, l) == Lands(name, Place(name, {}), l, {})

LinkEntry(name, l) == LET at == Place(name, {}) IN Lands(name, at, l, {at.path})

\* A hard link: the file that its target leads to is linked or copied, once
\* what was in the way is gone.
HardEntry(name, target) ==
    LET from == resolve(target)
        at == Place(name, from.dirs)
    IN IF from.path = Lost THEN Counts /\ Warned(from.dirs)
       ELSE Lands(name, at,
                  IF tree[from.path] \in ToSet(Files) /\ ~IsPrefix(at.path, from.path)
                  THEN tree[from.path] ELSE "none", {})

\* .wh.name
Whiteout(name) ==
    LET to == resolve(Front(name))
        p == Append(to.path, Last(name))
    IN /\ Counts
       /\ IF to.path = Lost THEN Warned(to.dirs)
          ELSE /\ tree' = removeAll(tree, p)
               /\ realDirs' = realDirs \cup to.dirs
               /\ IF Proper(name) /\ p = name
                  THEN hidden' = hidden \cup {name} /\ UNCHANGED <<lower, up, opaque, odd>>
                  ELSE Odd
               /\ UNCHANGED written

\* .wh..wh..opq in dir: everything in it that this layer did not write.  The
\* format puts it before the directories that the layer has in dir.
Opaque(dir) ==
    LET to == resolve(dir)
        goes == {q \in Paths : Len(q) > Len(to.path) /\ IsPrefix(to.path, q)
                                  /\ SubSeq(q, 1, Len(to.path) + 1) \notin written}
    IN /\ Counts
       /\ IF to.path = Lost THEN Warned(to.dirs)
          ELSE /\ tree' = [q \in Paths |-> IF q \in goes THEN "none" ELSE tree[q]]
               /\ realDirs' = realDirs \cup to.dirs
               /\ IF /\ ~odd /\ to.path = dir /\ (dir = <<>> \/ up[dir] = "dir")
                     /\ \A q \in Paths : up[q] = "dir" => q = dir \/ ~IsPrefix(dir, q)
                  THEN opaque' = opaque \cup {dir} /\ UNCHANGED <<lower, up, hidden, odd>>
                  ELSE Odd
               /\ UNCHANGED written

\* Mutant: what the layers before wrote counts as this one's.
NextLayerKeeps ==
    /\ layer < Len(Files) /\ layer' = layer + 1
    /\ IF odd THEN UNCHANGED seen
       ELSE lower' = tree /\ up' = Nothing /\ hidden' = {} /\ opaque' = {} /\ UNCHANGED odd
    /\ UNCHANGED <<tree, realDirs, written, entries>>

\* ExtractFile, with the next archive.
NextLayer ==
    /\ layer < Len(Files) /\ layer' = layer + 1
    /\ written' = {}
    /\ IF odd THEN UNCHANGED seen
       ELSE lower' = tree /\ up' = Nothing /\ hidden' = {} /\ opaque' = {} /\ UNCHANGED odd
    /\ UNCHANGED <<tree, realDirs, entries>>

ExtractNext ==
    \/ \E name \in Paths :
         \/ DirEntry(name) \/ FileEntry(name) \/ Whiteout(name)
         \/ \E l \in DOMAIN Target : LinkEntry(name, l)
         \/ \E target \in Paths : HardEntry(name, target)
    \/ \E dir \in Paths \cup {<<>>} : Opaque(dir)
    \/ NextLayer

ExtractSpec == ExtractInit /\ [][ExtractNext]_extractVars

-----------------------------------------------------------------------------
(* Properties.                                                             *)

\* However an archive replaces directories by links and links by
\* directories, also under other names: what is remembered never changes
\* where a name leads.
CacheSafe ==
    \A name \in Paths : resolve(name).path = resolveIn(name, {}).path

\* A path of an image, as its format defines it: what the layer lists, or
\* what is under it, unless the layer hides that.
Layered(p) ==
    IF up[p] # "none" THEN up[p]
    ELSE IF \/ \E q \in Above(p) : q \in hidden
            \/ \E q \in (Above(p) \ {p}) \cup {<<>>} : q \in opaque
            \/ \E q \in Above(p) \ {p} : up[q] \notin {"none", "dir"}
         THEN "none" ELSE lower[p]

\* At every entry the tree is the image's, as long as its layers are as image
\* tools write them: paths that are no detours, directories first.
IsImage == odd \/ \A p \in Paths : tree[p] = Layered(p)
=============================================================================
