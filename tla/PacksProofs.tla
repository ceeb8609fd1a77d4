---------------------------- MODULE PacksProofs ----------------------------
(* What Packs promises for any packs, packages and sessions.               *)
EXTENDS Packs, TLAPS

-----------------------------------------------------------------------------
(* Type correctness.                                                       *)

\* TypeOK's part about one command, and about all of them.
CommandOK(c) ==
    /\ c \in Proc
    /\ c.pc # "idle" => c.todo # <<>>
    /\ c.pc = "restore" => c.heir # "none"
    /\ \A q \in c.pending : c.keep[q] # "none"

ProcOK ==
    /\ proc \in [Sessions -> Proc]
    /\ \A s \in Sessions : CommandOK(proc[s])

OtherOK ==
    /\ installed \subseteq Packages /\ auto \subseteq Packages
    /\ record \in [Packs -> Record]
    /\ yours \subseteq Packages /\ brought \subseteq Packages
    /\ unrecorded \subseteq Packages
    /\ passed \subseteq Packs /\ cut \subseteq Packs

LEMMA TypeParts == TypeOK <=> ProcOK /\ OtherOK
  BY DEF TypeOK, ProcOK, CommandOK, OtherOK

LEMMA TypePartsNext == TypeOK' <=> ProcOK' /\ OtherOK'
  BY DEF TypeOK, ProcOK, CommandOK, OtherOK

LEMMA NoProcType == CommandOK(NoProc) /\ NoProc.pc = "idle"
  BY NoPackAssumption DEF NoProc, Proc, CommandOK

\* A step of one session keeps every command's type, when its own is kept.
LEMMA OneProc ==
    ASSUME ProcOK, NEW s \in Sessions, NEW new, CommandOK(new),
           proc' = [proc EXCEPT ![s] = new]
    PROVE  ProcOK'
<1>1. new \in Proc
  BY DEF CommandOK
<1>2. proc' \in [Sessions -> Proc]
  BY <1>1 DEF ProcOK
<1>3. ASSUME NEW t \in Sessions PROVE CommandOK(proc'[t])
  <2>1. proc'[t] = IF t = s THEN new ELSE proc[t]
    BY DEF ProcOK
  <2> QED
    BY <2>1 DEF ProcOK
<1> QED
  BY <1>2, <1>3 DEF ProcOK, CommandOK

\* What a session that is not idle has to do is a list of packs.
LEMMA TodoType ==
    ASSUME ProcOK, NEW s \in Sessions, proc[s].pc # "idle"
    PROVE  /\ proc[s].todo \in Seq(Packs) /\ proc[s].todo # <<>>
           /\ Pack(s) \in Packs /\ Tail(proc[s].todo) \in Seq(Packs)
<1>1. proc[s].todo \in Seq(Packs) /\ proc[s].todo # <<>>
  BY DEF ProcOK, CommandOK, Proc
<1> QED
  BY <1>1 DEF Pack

LEMMA NextPackType ==
    ASSUME ProcOK, NEW s \in Sessions, proc[s].pc # "idle",
           NEW pc \in {"had", "keep"}, NextPack(s, pc)
    PROVE  ProcOK'
<1>1. CASE Tail(proc[s].todo) = <<>>
  BY <1>1, NoProcType, OneProc DEF NextPack
<1>2. CASE Tail(proc[s].todo) # <<>>
  <2> DEFINE next == [NoProc EXCEPT !.pc = pc, !.todo = Tail(proc[s].todo)]
  <2>1. CommandOK(next)
    BY <1>2, NoProcType, TodoType DEF Proc, NoProc, CommandOK
  <2>2. proc' = [proc EXCEPT ![s] = next]
    BY <1>2 DEF NextPack
  <2> HIDE DEF next
  <2> QED
    BY <2>1, <2>2, OneProc
<1> QED
  BY <1>1, <1>2

LEMMA GotoType ==
    ASSUME ProcOK, NEW s \in Sessions, proc[s].pc # "idle",
           NEW pc \in {"record", "uncheck", "check", "inherit", "uninstall", "forget"},
           Goto(s, pc)
    PROVE  ProcOK'
<1>1. proc' = [proc EXCEPT ![s] = [proc[s] EXCEPT !.pc = pc]]
  BY DEF Goto, ProcOK
<1>2. CommandOK([proc[s] EXCEPT !.pc = pc])
  BY DEF ProcOK, CommandOK, Proc
<1> QED
  BY <1>1, <1>2, OneProc

LEMMA setCheckedType ==
    ASSUME OtherOK, NEW p \in Packs \cup {"none"}, NEW v \in {"", "yes", "no"}, setChecked(p, v)
    PROVE  record' \in [Packs -> Record]
  BY DEF OtherOK, setChecked, Record

LEMMA HeirType == \A p \in Packs, q \in Packages : Heir(p, q) \in Packs \cup {"none"}
<1> SUFFICES ASSUME NEW p \in Packs, NEW q \in Packages, Users(p, q) # {}
             PROVE  Heir(p, q) \in Packs
  BY DEF Heir
<1>1. Users(p, q) \in SUBSET Packs
  BY DEF Users
<1>2. \E last \in Users(p, q) : \A o \in Users(p, q) : Rank[o] <= Rank[last]
  BY <1>1, RankAssumption
<1>3. Heir(p, q) \in Users(p, q)
  BY <1>2 DEF Heir
<1> QED
  BY <1>1, <1>3

LEMMA BringsType == \A S \in SUBSET Packages : Brings(S) \in SUBSET Packages
  BY DependsAssumption DEF Brings

LEMMA DropType == ASSUME ProcOK, NEW s \in Sessions PROVE Drop(s) \in SUBSET Packages
  BY DEF ProcOK, Proc, Drop

\* What goes is asked for, depends on what is asked for, or is a dependency.
LEMMA RemovalsBound ==
    ASSUME NEW S, NEW gone \in Removals(S)
    PROVE  gone \subseteq S \cup Dependents(S) \cup auto
<1>1. PICK base \in {S \cup Dependents(S), S \ Brings(installed \ S)} :
         \E orphans \in SUBSET Orphans(base) : gone = base \cup orphans
  BY DEF Removals
<1>2. PICK orphans \in SUBSET Orphans(base) : gone = base \cup orphans
  BY <1>1
<1>3. orphans \subseteq auto
  BY DEF Orphans
<1> QED
  BY <1>1, <1>2, <1>3

LEMMA UninstalledType ==
    ASSUME OtherOK, NEW gone, NEW S \in SUBSET Packages, Uninstalled(gone, S),
           UNCHANGED <<record, passed, cut>>
    PROVE  OtherOK'
  BY DEF OtherOK, Uninstalled

LEMMA FailWriteType ==
    ASSUME OtherOK, NEW p \in Packs, NEW left \in {record[p], EmptyRecord},
           NEW new \in SUBSET Packages, FailWrite(p, left, new),
           UNCHANGED <<packages, yours, brought, passed>>
    PROVE  OtherOK'
<1>1. EmptyRecord \in Record
  BY DEF EmptyRecord, NoRecord, Record
<1>2. record' \in [Packs -> Record]
  BY <1>1 DEF FailWrite, OtherOK
<1>3. unrecorded' \subseteq Packages /\ cut' \subseteq Packs
  BY DEF FailWrite, OtherOK
<1> QED
  BY <1>2, <1>3 DEF OtherOK, packages

\* The command's step of a handover, and of a failed one.
LEMMA HandoverType ==
    ASSUME ProcOK, OtherOK, NEW s \in Sessions, proc[s].pc = "inherit",
           NEW q \in proc[s].pending, NEW pc \in {"restore", "uninstall", "inherit"},
           proc' = [proc EXCEPT ![s].pending = proc[s].pending \ {q},
                                ![s].heir = proc[s].keep[q],
                                ![s].checked = record[proc[s].keep[q]].checked, ![s].pc = pc]
    PROVE  ProcOK'
<1> DEFINE heir == proc[s].keep[q]
           left == proc[s].pending \ {q}
           checked == record[heir].checked
           new == [proc[s] EXCEPT !.pending = left, !.heir = heir, !.checked = checked,
                                  !.pc = pc]
<1>1. CommandOK(proc[s])
  BY DEF ProcOK
<1>2. /\ heir \in Packs /\ left \in SUBSET Packages
      /\ \A x \in left : proc[s].keep[x] # "none"
  BY <1>1, NoPackAssumption DEF CommandOK, Proc
<1>3. checked \in {"", "yes", "no"}
  BY <1>2 DEF OtherOK, Record
<1>4. proc' = [proc EXCEPT ![s] = new]
  BY DEF ProcOK
<1> HIDE DEF heir, left, checked
<1>5. CommandOK(new)
  BY <1>1, <1>2, <1>3, NoPackAssumption DEF CommandOK, Proc
<1> QED
  BY <1>4, <1>5, OneProc

LEMMA InitType == Init => TypeOK
<1> SUFFICES ASSUME Init PROVE TypeOK
  OBVIOUS
<1>1. OtherOK
  BY DEF Init, OtherOK, NoRecord, Record
<1>2. NoProc \in Proc
  BY NoProcType DEF CommandOK
<1>3. proc \in [Sessions -> Proc] /\ \A s \in Sessions : proc[s] = NoProc
  BY <1>2 DEF Init
<1>4. ProcOK
  BY <1>3, NoProcType DEF ProcOK
<1> QED
  BY <1>1, <1>4, TypeParts

LEMMA StepType == TypeOK /\ [Next]_vars => TypeOK'
<1> SUFFICES ASSUME ProcOK, OtherOK, [Next]_vars PROVE ProcOK' /\ OtherOK'
  BY TypeParts, TypePartsNext
<1> USE DEF history, packages, End
<1>1. ASSUME NEW s \in Sessions, StartAdd(s) PROVE ProcOK' /\ OtherOK'
  <2>1. PICK todo \in Commands \ {<<>>} :
           proc' = [proc EXCEPT ![s] = [NoProc EXCEPT !.pc = "had", !.todo = todo]]
    BY <1>1 DEF StartAdd
  <2>2. CommandOK([NoProc EXCEPT !.pc = "had", !.todo = todo])
    BY NoProcType, CommandsAssumption DEF Proc, CommandOK, NoProc
  <2> QED
    BY <1>1, <2>1, <2>2, OneProc DEF StartAdd, OtherOK
<1>2. ASSUME NEW s \in Sessions, ReadHad(s) PROVE ProcOK' /\ OtherOK'
  <2>1. PICK pkgs \in Resolutions[Pack(s)] :
           proc' = [proc EXCEPT ![s].pc = "install", ![s].pkgs = pkgs,
                                ![s].fresh = pkgs \ installed]
    BY <1>2 DEF ReadHad
  <2> DEFINE new == [proc[s] EXCEPT !.pc = "install", !.pkgs = pkgs,
                                    !.fresh = pkgs \ installed]
  <2>2. pkgs \in SUBSET Packages
    BY <1>2, TodoType, ResolutionsAssumption DEF ReadHad
  <2>3. CommandOK(new)
    BY <1>2, <2>2 DEF ReadHad, ProcOK, CommandOK, Proc
  <2>4. proc' = [proc EXCEPT ![s] = new]
    BY <2>1 DEF ProcOK
  <2> QED
    BY <1>2, <2>3, <2>4, OneProc DEF ReadHad, OtherOK
<1>3. ASSUME NEW s \in Sessions, InstallPackages(s) PROVE ProcOK' /\ OtherOK'
  <2>1. ProcOK'
    BY <1>3, GotoType DEF InstallPackages
  <2>2. proc[s].pkgs \in SUBSET Packages /\ Brings(proc[s].pkgs) \in SUBSET Packages
    BY BringsType DEF ProcOK, Proc
  <2> QED
    BY <1>3, <2>1, <2>2 DEF InstallPackages, OtherOK
<1>4. ASSUME NEW s \in Sessions, InstallPart(s) PROVE ProcOK' /\ OtherOK'
  <2>1. ProcOK'
    BY <1>4, NoProcType, OneProc DEF InstallPart
  <2>2. proc[s].pkgs \in SUBSET Packages /\ Brings(proc[s].pkgs) \in SUBSET Packages
    BY BringsType DEF ProcOK, Proc
  <2> QED
    BY <1>4, <2>1, <2>2 DEF InstallPart, OtherOK
<1>5. ASSUME NEW s \in Sessions, WriteRecord(s) PROVE ProcOK' /\ OtherOK'
  <2>1. ProcOK'
    BY <1>5, GotoType DEF WriteRecord
  <2>2. Pack(s) \in Packs /\ proc[s].fresh \in SUBSET Packages
        /\ proc[s].pkgs \in SUBSET Packages
    BY <1>5, TodoType DEF WriteRecord, ProcOK, Proc
  <2>3. record' \in [Packs -> Record]
    BY <1>5, <2>2 DEF WriteRecord, OtherOK, Record
  <2>4. unrecorded' \in SUBSET Packages
    BY <1>5, <2>2 DEF WriteRecord, OtherOK, Record
  <2> QED
    BY <1>5, <2>1, <2>3, <2>4 DEF WriteRecord, OtherOK
<1>6. ASSUME NEW s \in Sessions, Uncheck(s) PROVE ProcOK' /\ OtherOK'
  <2>1. record' \in [Packs -> Record]
    BY <1>6, TodoType, setCheckedType DEF Uncheck
  <2> QED
    BY <1>6, <2>1, GotoType DEF Uncheck, OtherOK
<1>7. ASSUME NEW s \in Sessions, CheckPasses(s) PROVE ProcOK' /\ OtherOK'
  <2>1. record' \in [Packs -> Record] /\ Pack(s) \in Packs
    BY <1>7, TodoType, setCheckedType DEF CheckPasses
  <2> QED
    BY <1>7, <2>1, NextPackType DEF CheckPasses, OtherOK
<1>8. ASSUME NEW s \in Sessions, CheckFails(s) PROVE ProcOK' /\ OtherOK'
  <2>1. record' \in [Packs -> Record]
    BY <1>8, TodoType, setCheckedType DEF CheckFails
  <2> QED
    BY <1>8, <2>1, NoProcType, OneProc DEF CheckFails, OtherOK
<1>9. ASSUME NEW s \in Sessions, StartRemove(s) PROVE ProcOK' /\ OtherOK'
  <2>1. PICK todo \in Commands \ {<<>>} :
           proc' = [proc EXCEPT ![s] = [NoProc EXCEPT !.pc = "keep", !.todo = todo]]
    BY <1>9 DEF StartRemove
  <2>2. CommandOK([NoProc EXCEPT !.pc = "keep", !.todo = todo])
    BY NoProcType, CommandsAssumption DEF Proc, CommandOK, NoProc
  <2> QED
    BY <1>9, <2>1, <2>2, OneProc DEF StartRemove, OtherOK
<1>10. ASSUME NEW s \in Sessions, ReadKeep(s) PROVE ProcOK' /\ OtherOK'
  <2> DEFINE p == Pack(s)
             keep == [q \in Packages |-> Heir(p, q)]
             pending == {q \in record[p].packages : keep[q] # "none"}
             pc == IF pending = {} THEN "uninstall" ELSE "inherit"
             new == [proc[s] EXCEPT !.pc = pc, !.pkgs = record[p].packages,
                                    !.keep = keep, !.pending = pending]
  <2>1. p \in Packs /\ proc[s].pc # "idle"
    BY <1>10, TodoType DEF ReadKeep
  <2>2. record[p].packages \in SUBSET Packages
    BY <2>1 DEF OtherOK, Record
  <2>3. keep \in [Packages -> Packs \cup {"none"}]
    BY <2>1, HeirType
  <2>4. /\ pending \in SUBSET Packages /\ pc \in {"uninstall", "inherit"}
        /\ \A q \in pending : keep[q] # "none"
    BY <2>2
  <2>5. proc' = [proc EXCEPT ![s] = new]
    BY <1>10 DEF ReadKeep, ProcOK
  <2> HIDE DEF p, keep, pending, pc
  <2>6. CommandOK(new)
    BY <2>1, <2>2, <2>3, <2>4 DEF ProcOK, CommandOK, Proc
  <2> QED
    BY <1>10, <2>5, <2>6, OneProc DEF ReadKeep, OtherOK
<1>11. ASSUME NEW s \in Sessions, Inherit(s) PROVE ProcOK' /\ OtherOK'
  <2>1. PICK q \in proc[s].pending :
           LET heir == proc[s].keep[q]
               left == proc[s].pending \ {q}
               have == q \in record[heir].packages
               checked == record[heir].checked
           IN  /\ record' = IF have THEN record
                            ELSE [record EXCEPT ![heir].there = TRUE,
                                                ![heir].packages = @ \cup {q},
                                                ![heir].checked = ""]
               /\ proc' = [proc EXCEPT
                             ![s].pending = left, ![s].heir = heir, ![s].checked = checked,
                             ![s].pc = IF ~have /\ checked # "" THEN "restore"
                                       ELSE IF left = {} THEN "uninstall" ELSE "inherit"]
    BY <1>11 DEF Inherit
  <2> DEFINE heir == proc[s].keep[q]
             left == proc[s].pending \ {q}
             have == q \in record[heir].packages
             checked == record[heir].checked
             pc == IF ~have /\ checked # "" THEN "restore"
                   ELSE IF left = {} THEN "uninstall" ELSE "inherit"
  <2>2. proc[s].pc = "inherit" /\ CommandOK(proc[s])
    BY <1>11 DEF Inherit, ProcOK
  <2>3. q \in Packages /\ heir \in Packs
    BY <2>2, NoPackAssumption DEF CommandOK, Proc
  <2>4. pc \in {"restore", "uninstall", "inherit"}
    OBVIOUS
  <2>5. record' \in [Packs -> Record]
    <3>1. CASE have
      BY <2>1, <3>1 DEF OtherOK
    <3>2. CASE ~have
      <4>1. record' = [record EXCEPT ![heir].there = TRUE,
                                     ![heir].packages = @ \cup {q},
                                     ![heir].checked = ""]
        BY <2>1, <3>2
      <4> HIDE DEF heir, have
      <4> QED
        BY <2>3, <4>1 DEF OtherOK, Record
    <3> QED
      BY <3>1, <3>2
  <2>6. proc' = [proc EXCEPT ![s].pending = left, ![s].heir = heir,
                             ![s].checked = checked, ![s].pc = pc]
    BY <2>1
  <2> HIDE DEF pc
  <2>7. ProcOK'
    BY <2>2, <2>4, <2>6, HandoverType
  <2> QED
    BY <1>11, <2>5, <2>7 DEF Inherit, OtherOK
<1>12. ASSUME NEW s \in Sessions, Restore(s) PROVE ProcOK' /\ OtherOK'
  <2>1. proc[s].heir \in Packs \cup {"none"} /\ proc[s].checked \in {"", "yes", "no"}
    BY DEF ProcOK, Proc
  <2>2. record' \in [Packs -> Record]
    BY <1>12, <2>1, setCheckedType DEF Restore
  <2> QED
    BY <1>12, <2>2, GotoType DEF Restore, GoOnRemoving, OtherOK
<1>13. ASSUME NEW s \in Sessions, Uninstall(s) PROVE ProcOK' /\ OtherOK'
  BY <1>13, GotoType, DropType, UninstalledType DEF Uninstall
<1>14. ASSUME NEW s \in Sessions, UninstallPart(s) PROVE ProcOK' /\ OtherOK'
  <2>1. PICK gone \in Removals(Drop(s)) : \E part \in SUBSET gone : Uninstalled(part, part)
    BY <1>14 DEF UninstallPart
  <2>2. PICK part \in SUBSET gone : Uninstalled(part, part)
    BY <2>1
  <2>3. part \in SUBSET Packages
    BY DropType, RemovalsBound DEF OtherOK, Dependents
  <2> QED
    BY <1>14, <2>2, <2>3, NoProcType, OneProc, UninstalledType DEF UninstallPart
<1>15. ASSUME NEW s \in Sessions, DeleteRecord(s) PROVE ProcOK' /\ OtherOK'
  <2>1. ProcOK'
    BY <1>15, NextPackType DEF DeleteRecord
  <2> QED
    BY <1>15, <2>1 DEF DeleteRecord, OtherOK, NoRecord, Record
<1>16. ASSUME NEW s \in Sessions, Stop(s) PROVE ProcOK' /\ OtherOK'
  <2>1. Pack(s) \in Packs /\ proc[s] \in Proc
    BY <1>16, TodoType DEF Stop, ProcOK
  <2>2. proc[s].pc = "restore" => proc[s].heir \in Packs
    BY <2>1 DEF ProcOK, CommandOK, Proc
  <2>3. cut' \subseteq Packs /\ unrecorded' \subseteq Packages
    BY <1>16, <2>1, <2>2 DEF Stop, OtherOK, Proc
  <2> QED
    BY <1>16, <2>3, NoProcType, OneProc DEF Stop, OtherOK
<1>17. ASSUME NEW q \in Packages, InstallYourself(q) PROVE ProcOK' /\ OtherOK'
  BY <1>17, DependsAssumption DEF InstallYourself, OtherOK, ProcOK, CommandOK
<1>18. ASSUME NEW q \in Packages, RemoveYourself(q) PROVE ProcOK' /\ OtherOK'
  <2>1. OtherOK'
    BY <1>18, UninstalledType DEF RemoveYourself
  <2> QED
    BY <1>18, <2>1 DEF RemoveYourself, ProcOK, CommandOK
<1>19. CASE UNCHANGED vars
  BY <1>19 DEF vars, OtherOK, ProcOK, CommandOK
<1>20. ASSUME NEW s \in Sessions, FailRecord(s) PROVE ProcOK' /\ OtherOK'
  <2>1. Pack(s) \in Packs /\ proc[s].fresh \in SUBSET Packages
    BY <1>20, TodoType DEF FailRecord, ProcOK, Proc
  <2> QED
    BY <1>20, <2>1, NoProcType, OneProc, FailWriteType DEF FailRecord
<1>21. ASSUME NEW s \in Sessions, FailChecked(s) PROVE ProcOK' /\ OtherOK'
  <2>1. PICK p \in Packs : \E left \in {record[p], EmptyRecord} : FailWrite(p, left, {})
    BY <1>21 DEF FailChecked
  <2>2. OtherOK'
    BY <1>21, <2>1, FailWriteType DEF FailChecked
  <2>3. ProcOK'
    BY <1>21, NoProcType, OneProc, GotoType, NextPackType DEF FailChecked, GoOnRemoving
  <2> QED
    BY <2>2, <2>3
<1>22. ASSUME NEW s \in Sessions, FailInherit(s) PROVE ProcOK' /\ OtherOK'
  <2>1. PICK q \in proc[s].pending :
           LET heir == proc[s].keep[q]
               left == proc[s].pending \ {q}
               checked == record[heir].checked
           IN  /\ q \notin record[heir].packages
               /\ \E rec \in {record[heir], EmptyRecord} : FailWrite(heir, rec, {q})
               /\ \/ End(s)
                  \/ proc' = [proc EXCEPT
                                ![s].pending = left, ![s].heir = heir, ![s].checked = checked,
                                ![s].pc = IF checked # "" THEN "restore"
                                          ELSE IF left = {} THEN "uninstall" ELSE "inherit"]
    BY <1>22 DEF FailInherit
  <2>2. proc[s].pc = "inherit" /\ CommandOK(proc[s])
    BY <1>22 DEF FailInherit, ProcOK
  <2>3. q \in Packages /\ proc[s].keep[q] \in Packs
    BY <2>2, NoPackAssumption DEF CommandOK, Proc
  <2>4. OtherOK'
    <3> DEFINE heir == proc[s].keep[q]
    <3>1. PICK rec \in {record[heir], EmptyRecord} : FailWrite(heir, rec, {q})
      BY <2>1
    <3>2. UNCHANGED <<packages, yours, brought, passed>> /\ {q} \in SUBSET Packages
      BY <1>22, <2>3 DEF FailInherit
    <3> HIDE DEF heir
    <3>3. heir \in Packs
      BY <2>3 DEF heir
    <3> QED
      BY <3>1, <3>2, <3>3, FailWriteType
  <2>5. ProcOK'
    BY <2>1, <2>2, NoProcType, OneProc, HandoverType
  <2> QED
    BY <2>4, <2>5
<1> QED
  BY <1>1, <1>2, <1>3, <1>4, <1>5, <1>6, <1>7, <1>8, <1>9, <1>10, <1>11, <1>12, <1>13, <1>14, <1>15, <1>16, <1>17, <1>18, <1>19, <1>20, <1>21, <1>22 DEF Next, Add, Remove, FailedWrites

\* The records, the commands and the histories stay what the code writes; no
\* session works on an empty list, or hands a package over to no pack.
THEOREM TypeCorrect == Spec => []TypeOK
  BY InitType, StepType, PTL DEF Spec
-----------------------------------------------------------------------------
(* Your own packages.                                                      *)

\* A command on its way to write a record, to hand packages over or to
\* uninstall them, has none of mine on its list.
CommandApart(c, mine) ==
    /\ c.pc \in {"install", "record"} => c.fresh \cap mine = {} /\ c.fresh \subseteq c.pkgs
    /\ c.pc \in {"inherit", "restore", "uninstall", "forget"} => c.pkgs \cap mine = {}
    /\ c.pc \in {"inherit", "restore"} => c.pending \subseteq c.pkgs

\* Nor has a record, and none of yours is held as a dependency only.
RecordsApart ==
    /\ yours \subseteq installed \ auto
    /\ \A p \in Packs : record[p].packages \cap yours = {}

YoursApart == RecordsApart /\ \A s \in Sessions : CommandApart(proc[s], yours)

LEMMA NoProcApart == \A mine : CommandApart(NoProc, mine)
  BY DEF NoProc, CommandApart

LEMMA InitApart == Init => YoursApart
<1> SUFFICES ASSUME Init PROVE YoursApart
  OBVIOUS
<1>1. RecordsApart
  BY DEF Init, RecordsApart, NoRecord
<1>2. \A s \in Sessions : proc[s] = NoProc
  BY DEF Init
<1> QED
  BY <1>1, <1>2, NoProcApart DEF YoursApart

LEMMA FewerApart ==
    ASSUME NEW c, NEW mine, CommandApart(c, mine), NEW fewer \in SUBSET mine
    PROVE  CommandApart(c, fewer)
  BY DEF CommandApart

\* A step of one session that gives you no package, and leaves its command and
\* the records apart from yours, keeps the invariant.
LEMMA OneApart ==
    ASSUME ProcOK, YoursApart, NEW s \in Sessions, NEW new,
           proc' = [proc EXCEPT ![s] = new], CommandApart(new, yours),
           yours' \subseteq yours, RecordsApart'
    PROVE  YoursApart'
<1>1. ASSUME NEW t \in Sessions PROVE CommandApart(proc'[t], yours')
  <2>1. proc'[t] = IF t = s THEN new ELSE proc[t]
    BY DEF ProcOK
  <2>2. CommandApart(proc'[t], yours)
    BY <2>1 DEF YoursApart
  <2> QED
    BY <2>2, FewerApart
<1> QED
  BY <1>1 DEF YoursApart

LEMMA GotoApart ==
    ASSUME ProcOK, YoursApart, NEW s \in Sessions,
           NEW pc \in {"record", "uncheck", "check", "inherit", "uninstall", "forget"},
           Goto(s, pc), yours' \subseteq yours, RecordsApart',
           pc = "record" => proc[s].pc = "install",
           pc = "inherit" => proc[s].pc \in {"inherit", "restore"},
           pc \in {"uninstall", "forget"} => proc[s].pc \in {"restore", "uninstall"}
    PROVE  YoursApart'
<1>1. proc' = [proc EXCEPT ![s] = [proc[s] EXCEPT !.pc = pc]]
  BY DEF Goto, ProcOK
<1>2. CommandApart(proc[s], yours) /\ proc[s] \in Proc
  BY DEF ProcOK, YoursApart
<1> DEFINE new == [proc[s] EXCEPT !.pc = pc]
<1>3. /\ new.pc = pc /\ new.fresh = proc[s].fresh /\ new.pkgs = proc[s].pkgs
      /\ new.pending = proc[s].pending
  BY <1>2 DEF Proc
<1>4. CommandApart(new, yours)
  <2> HIDE DEF new
  <2> QED
    BY <1>2, <1>3 DEF CommandApart
<1> QED
  BY <1>1, <1>4, OneApart

LEMMA NextPackApart ==
    ASSUME ProcOK, YoursApart, NEW s \in Sessions, NEW pc \in {"had", "keep"},
           NextPack(s, pc), yours' \subseteq yours, RecordsApart'
    PROVE  YoursApart'
<1>1. CASE Tail(proc[s].todo) = <<>>
  BY <1>1, NoProcApart, OneApart DEF NextPack
<1>2. CASE Tail(proc[s].todo) # <<>>
  <2> DEFINE new == [NoProc EXCEPT !.pc = pc, !.todo = Tail(proc[s].todo)]
  <2>1. CommandApart(new, yours)
    BY DEF NoProc, CommandApart
  <2>2. proc' = [proc EXCEPT ![s] = new]
    BY <1>2 DEF NextPack
  <2> HIDE DEF new
  <2> QED
    BY <2>1, <2>2, OneApart
<1> QED
  BY <1>1, <1>2

LEMMA setCheckedApart ==
    ASSUME OtherOK, RecordsApart, NEW p, NEW v, setChecked(p, v),
           UNCHANGED packages, yours' = yours
    PROVE  RecordsApart'
  BY DEF setChecked, OtherOK, Record, RecordsApart, packages

LEMMA FailWriteApart ==
    ASSUME OtherOK, RecordsApart, NEW p \in Packs, NEW left \in {record[p], EmptyRecord},
           NEW new, FailWrite(p, left, new), UNCHANGED packages, yours' = yours
    PROVE  RecordsApart'
<1>1. EmptyRecord.packages = {}
  BY DEF EmptyRecord, NoRecord
<1>2. \A o \in Packs : record'[o].packages \in {record[o].packages, {}}
  BY <1>1 DEF FailWrite, OtherOK
<1> QED
  BY <1>2 DEF RecordsApart, packages

LEMMA UninstalledApart ==
    ASSUME RecordsApart, NEW gone, NEW S, Uninstalled(gone, S), record' = record
    PROVE  yours' \subseteq yours /\ RecordsApart'
  BY DEF RecordsApart, Uninstalled

\* What a remove takes out has none of yours, but what depends on it.
LEMMA DropApart ==
    ASSUME YoursApart, NEW s \in Sessions, proc[s].pc = "uninstall",
           NEW gone \in Removals(Drop(s))
    PROVE  (gone \cup Drop(s)) \cap yours \subseteq Dependents(Drop(s))
<1>1. Drop(s) \cap yours = {} /\ auto \cap yours = {}
  BY DEF YoursApart, RecordsApart, CommandApart, Drop
<1> QED
  BY <1>1, RemovalsBound

LEMMA StepApart == TypeOK /\ YoursApart /\ [Next]_vars => YoursApart'
<1> SUFFICES ASSUME ProcOK, OtherOK, YoursApart, [Next]_vars PROVE YoursApart'
  BY TypeParts
<1>0. RecordsApart /\ \A s \in Sessions : CommandApart(proc[s], yours) /\ proc[s] \in Proc
  BY DEF YoursApart, ProcOK
<1> USE DEF history, packages, End
<1>1. ASSUME NEW s \in Sessions, StartAdd(s) PROVE YoursApart'
  <2>1. PICK todo : proc' = [proc EXCEPT ![s] = [NoProc EXCEPT !.pc = "had", !.todo = todo]]
    BY <1>1 DEF StartAdd
  <2>2. CommandApart([NoProc EXCEPT !.pc = "had", !.todo = todo], yours)
    BY DEF NoProc, CommandApart
  <2> QED
    BY <1>0, <1>1, <2>1, <2>2, OneApart DEF StartAdd, RecordsApart
<1>2. ASSUME NEW s \in Sessions, ReadHad(s) PROVE YoursApart'
  <2>1. PICK pkgs \in Resolutions[Pack(s)] :
           proc' = [proc EXCEPT ![s].pc = "install", ![s].pkgs = pkgs,
                                ![s].fresh = pkgs \ installed]
    BY <1>2 DEF ReadHad
  <2> DEFINE new == [proc[s] EXCEPT !.pc = "install", !.pkgs = pkgs,
                                    !.fresh = pkgs \ installed]
  <2>2. proc' = [proc EXCEPT ![s] = new]
    BY <2>1 DEF ProcOK
  <2>3. new.pc = "install" /\ new.fresh = pkgs \ installed /\ new.pkgs = pkgs
    BY <1>0 DEF Proc
  <2> HIDE DEF new
  <2>4. CommandApart(new, yours)
    BY <1>0, <2>3 DEF CommandApart, RecordsApart
  <2> QED
    BY <1>0, <1>2, <2>2, <2>4, OneApart DEF ReadHad, RecordsApart
<1>3. ASSUME NEW s \in Sessions, InstallPackages(s) PROVE YoursApart'
  BY <1>0, <1>3, GotoApart DEF InstallPackages, RecordsApart
<1>4. ASSUME NEW s \in Sessions, InstallPart(s) PROVE YoursApart'
  BY <1>0, <1>4, NoProcApart, OneApart DEF InstallPart, RecordsApart
<1>5. ASSUME NEW s \in Sessions, WriteRecord(s) PROVE YoursApart'
  <2>1. \A o \in Packs : record'[o].packages
                          = IF o = Pack(s) THEN proc[s].fresh ELSE record[o].packages
    BY <1>5 DEF WriteRecord, OtherOK
  <2>2. proc[s].fresh \cap yours = {}
    BY <1>0, <1>5 DEF WriteRecord, CommandApart
  <2>3. RecordsApart'
    BY <1>0, <1>5, <2>1, <2>2 DEF WriteRecord, RecordsApart
  <2> QED
    BY <1>5, <2>3, GotoApart DEF WriteRecord
<1>6. ASSUME NEW s \in Sessions, Uncheck(s) PROVE YoursApart'
  BY <1>0, <1>6, setCheckedApart, GotoApart DEF Uncheck
<1>7. ASSUME NEW s \in Sessions, CheckPasses(s) PROVE YoursApart'
  BY <1>0, <1>7, setCheckedApart, NextPackApart DEF CheckPasses
<1>8. ASSUME NEW s \in Sessions, CheckFails(s) PROVE YoursApart'
  BY <1>0, <1>8, setCheckedApart, NoProcApart, OneApart DEF CheckFails
<1>9. ASSUME NEW s \in Sessions, StartRemove(s) PROVE YoursApart'
  <2>1. PICK todo : proc' = [proc EXCEPT ![s] = [NoProc EXCEPT !.pc = "keep", !.todo = todo]]
    BY <1>9 DEF StartRemove
  <2>2. CommandApart([NoProc EXCEPT !.pc = "keep", !.todo = todo], yours)
    BY DEF NoProc, CommandApart
  <2> QED
    BY <1>0, <1>9, <2>1, <2>2, OneApart DEF StartRemove, RecordsApart
<1>10. ASSUME NEW s \in Sessions, ReadKeep(s) PROVE YoursApart'
  <2> DEFINE p == Pack(s)
             keep == [q \in Packages |-> Heir(p, q)]
             pending == {q \in record[p].packages : keep[q] # "none"}
             pc == IF pending = {} THEN "uninstall" ELSE "inherit"
             new == [proc[s] EXCEPT !.pc = pc, !.pkgs = record[p].packages,
                                    !.keep = keep, !.pending = pending]
  <2>1. proc' = [proc EXCEPT ![s] = new]
    BY <1>10 DEF ReadKeep, ProcOK
  <2>2. p \in Packs
    BY <1>10, TodoType DEF ReadKeep
  <2>3. pending \subseteq record[p].packages /\ pc \in {"uninstall", "inherit"}
    OBVIOUS
  <2> HIDE DEF p, keep, pending, pc
  <2>4. new.pc = pc /\ new.pkgs = record[p].packages /\ new.pending = pending
    BY <1>0 DEF Proc
  <2> HIDE DEF new
  <2>5. CommandApart(new, yours)
    BY <1>0, <2>2, <2>3, <2>4 DEF CommandApart, RecordsApart
  <2> QED
    BY <1>0, <1>10, <2>1, <2>5, OneApart DEF ReadKeep, RecordsApart
<1>11. ASSUME NEW s \in Sessions, Inherit(s) PROVE YoursApart'
  <2>1. PICK q \in proc[s].pending :
           LET heir == proc[s].keep[q]
               left == proc[s].pending \ {q}
               have == q \in record[heir].packages
               checked == record[heir].checked
           IN  /\ record' = IF have THEN record
                            ELSE [record EXCEPT ![heir].there = TRUE,
                                                ![heir].packages = @ \cup {q},
                                                ![heir].checked = ""]
               /\ proc' = [proc EXCEPT
                             ![s].pending = left, ![s].heir = heir, ![s].checked = checked,
                             ![s].pc = IF ~have /\ checked # "" THEN "restore"
                                       ELSE IF left = {} THEN "uninstall" ELSE "inherit"]
    BY <1>11 DEF Inherit
  <2> DEFINE heir == proc[s].keep[q]
             left == proc[s].pending \ {q}
             have == q \in record[heir].packages
             checked == record[heir].checked
             pc == IF ~have /\ checked # "" THEN "restore"
                   ELSE IF left = {} THEN "uninstall" ELSE "inherit"
             new == [proc[s] EXCEPT !.pending = left, !.heir = heir,
                                    !.checked = checked, !.pc = pc]
  <2>2. /\ proc[s].pkgs \cap yours = {} /\ proc[s].pending \subseteq proc[s].pkgs
        /\ q \notin yours
    BY <1>0, <1>11 DEF Inherit, CommandApart
  <2>3. proc' = [proc EXCEPT ![s] = new]
    BY <2>1 DEF ProcOK
  <2>4. \/ record' = record
        \/ record' = [record EXCEPT ![heir].there = TRUE, ![heir].packages = @ \cup {q},
                                    ![heir].checked = ""]
    BY <2>1
  <2>5. left \subseteq proc[s].pkgs /\ pc \in {"restore", "uninstall", "inherit"}
    BY <2>2
  <2> HIDE DEF heir, left, have, checked, pc
  <2>6. ASSUME NEW o \in Packs
        PROVE  record'[o].packages \subseteq record[o].packages \cup {q}
    <3>1. CASE record' = record \/ o # heir
      BY <2>4, <3>1 DEF OtherOK
    <3>2. CASE record' # record /\ o = heir
      <4>1. record'[o] = [record[o] EXCEPT !.there = TRUE, !.packages = @ \cup {q},
                                           !.checked = ""]
        BY <2>4, <3>2 DEF OtherOK
      <4>2. record[o] \in Record
        BY DEF OtherOK
      <4> QED
        BY <4>1, <4>2 DEF Record
    <3> QED
      BY <3>1, <3>2
  <2>7. RecordsApart'
    BY <1>0, <1>11, <2>2, <2>6 DEF Inherit, RecordsApart
  <2>8. new.pc = pc /\ new.pkgs = proc[s].pkgs /\ new.pending = left
    BY <1>0 DEF Proc
  <2> HIDE DEF new
  <2>9. CommandApart(new, yours)
    BY <2>2, <2>5, <2>8 DEF CommandApart
  <2> QED
    BY <1>11, <2>3, <2>7, <2>9, OneApart DEF Inherit
<1>12. ASSUME NEW s \in Sessions, Restore(s) PROVE YoursApart'
  BY <1>0, <1>12, setCheckedApart, GotoApart DEF Restore, GoOnRemoving
<1>13. ASSUME NEW s \in Sessions, Uninstall(s) PROVE YoursApart'
  BY <1>0, <1>13, UninstalledApart, GotoApart DEF Uninstall
<1>14. ASSUME NEW s \in Sessions, UninstallPart(s) PROVE YoursApart'
  BY <1>0, <1>14, UninstalledApart, NoProcApart, OneApart DEF UninstallPart
<1>15. ASSUME NEW s \in Sessions, DeleteRecord(s) PROVE YoursApart'
  <2>1. RecordsApart'
    BY <1>0, <1>15 DEF DeleteRecord, RecordsApart, NoRecord, OtherOK
  <2> QED
    BY <1>15, <2>1, NextPackApart DEF DeleteRecord
<1>16. ASSUME NEW s \in Sessions, Stop(s) PROVE YoursApart'
  BY <1>0, <1>16, NoProcApart, OneApart DEF Stop, RecordsApart
<1>17. ASSUME NEW q \in Packages, InstallYourself(q) PROVE YoursApart'
  <2>1. RecordsApart'
    BY <1>0, <1>17 DEF InstallYourself, RecordsApart, Claimed
  <2>2. ASSUME NEW t \in Sessions PROVE CommandApart(proc[t], yours')
    BY <1>0, <1>17, <2>2 DEF InstallYourself, CommandApart, Claimed
  <2> QED
    BY <1>17, <2>1, <2>2 DEF YoursApart, InstallYourself
<1>18. ASSUME NEW q \in Packages, RemoveYourself(q) PROVE YoursApart'
  <2>1. yours' \subseteq yours /\ RecordsApart' /\ proc' = proc
    BY <1>0, <1>18, UninstalledApart DEF RemoveYourself
  <2>2. \A t \in Sessions : CommandApart(proc[t], yours')
    BY <1>0, <2>1, FewerApart
  <2> QED
    BY <2>1, <2>2 DEF YoursApart
<1>19. CASE UNCHANGED vars
  BY <1>19 DEF vars, YoursApart, RecordsApart
<1>20. ASSUME NEW s \in Sessions, FailRecord(s) PROVE YoursApart'
  <2>1. Pack(s) \in Packs
    BY <1>20, TodoType DEF FailRecord
  <2> QED
    BY <1>0, <1>20, <2>1, FailWriteApart, NoProcApart, OneApart DEF FailRecord
<1>21. ASSUME NEW s \in Sessions, FailChecked(s) PROVE YoursApart'
  <2>1. PICK p \in Packs : \E left \in {record[p], EmptyRecord} : FailWrite(p, left, {})
    BY <1>21 DEF FailChecked
  <2>2. RecordsApart' /\ yours' = yours
    BY <1>0, <1>21, <2>1, FailWriteApart DEF FailChecked
  <2> QED
    BY <1>0, <1>21, <2>2, NoProcApart, OneApart, GotoApart, NextPackApart
    DEF FailChecked, GoOnRemoving
<1>22. ASSUME NEW s \in Sessions, FailInherit(s) PROVE YoursApart'
  <2>1. PICK q \in proc[s].pending :
           LET heir == proc[s].keep[q]
               left == proc[s].pending \ {q}
               checked == record[heir].checked
           IN  /\ q \notin record[heir].packages
               /\ \E rec \in {record[heir], EmptyRecord} : FailWrite(heir, rec, {q})
               /\ \/ End(s)
                  \/ proc' = [proc EXCEPT
                                ![s].pending = left, ![s].heir = heir, ![s].checked = checked,
                                ![s].pc = IF checked # "" THEN "restore"
                                          ELSE IF left = {} THEN "uninstall" ELSE "inherit"]
    BY <1>22 DEF FailInherit
  <2> DEFINE heir == proc[s].keep[q]
             left == proc[s].pending \ {q}
             checked == record[heir].checked
             pc == IF checked # "" THEN "restore"
                   ELSE IF left = {} THEN "uninstall" ELSE "inherit"
             new == [proc[s] EXCEPT !.pending = left, !.heir = heir,
                                    !.checked = checked, !.pc = pc]
  <2>2. heir \in Packs
    <3>1. CommandOK(proc[s])
      BY DEF ProcOK
    <3> QED
      BY <3>1, NoPackAssumption DEF CommandOK, Proc
  <2>3. RecordsApart' /\ yours' = yours
    <3>1. PICK rec \in {record[heir], EmptyRecord} : FailWrite(heir, rec, {q})
      BY <2>1
    <3> HIDE DEF heir
    <3> QED
      BY <1>0, <1>22, <2>2, <3>1, FailWriteApart DEF FailInherit
  <2>4. CASE End(s)
    BY <2>3, <2>4, NoProcApart, OneApart
  <2>5. CASE ~End(s)
    <3>1. proc' = [proc EXCEPT ![s] = new]
      BY <2>1, <2>5 DEF ProcOK
    <3>2. /\ proc[s].pkgs \cap yours = {} /\ left \subseteq proc[s].pkgs
          /\ pc \in {"restore", "uninstall", "inherit"}
      BY <1>0, <1>22 DEF FailInherit, CommandApart
    <3> HIDE DEF heir, left, checked, pc
    <3>3. new.pc = pc /\ new.pkgs = proc[s].pkgs /\ new.pending = left
      BY <1>0 DEF Proc
    <3> HIDE DEF new
    <3>4. CommandApart(new, yours)
      BY <3>2, <3>3 DEF CommandApart
    <3> QED
      BY <2>3, <3>1, <3>4, OneApart
  <2> QED
    BY <2>4, <2>5
<1> QED
  BY <1>1, <1>2, <1>3, <1>4, <1>5, <1>6, <1>7, <1>8, <1>9, <1>10, <1>11, <1>12, <1>13,
     <1>14, <1>15, <1>16, <1>17, <1>18, <1>19, <1>20, <1>21, <1>22
  DEF Next, Add, Remove, FailedWrites

\* pack remove takes out a package you asked for by name only if it depends on
\* what the pack brought in, whichever commands run in whichever sessions, fail
\* and stop anywhere, and whatever you install and remove meanwhile.
THEOREM YoursStay == Spec => YoursKept
<1> DEFINE Keeps == \A q \in yours \ yours' :
                       proc' # proc => \E s \in Sessions : /\ proc[s].pc = "uninstall"
                                                          /\ q \in Dependents(Drop(s))
<1>1. TypeOK /\ YoursApart /\ [Next]_vars => [Keeps]_vars
  <2> SUFFICES ASSUME YoursApart, Next, proc' # proc, NEW q \in yours \ yours'
               PROVE  \E s \in Sessions : proc[s].pc = "uninstall" /\ q \in Dependents(Drop(s))
    OBVIOUS
  <2>1. ASSUME NEW s \in Sessions, Uninstall(s)
        PROVE  proc[s].pc = "uninstall" /\ q \in Dependents(Drop(s))
    BY <2>1, DropApart DEF Uninstall, Uninstalled
  <2>2. ASSUME NEW s \in Sessions, UninstallPart(s)
        PROVE  proc[s].pc = "uninstall" /\ q \in Dependents(Drop(s))
    BY <2>2, DropApart DEF UninstallPart, Uninstalled
  <2>3. ASSUME NEW s \in Sessions, FailedWrites(s) PROVE UNCHANGED yours
    BY <2>3 DEF FailedWrites, FailRecord, FailChecked, FailInherit
  <2> QED
    BY <2>1, <2>2, <2>3
    DEF Next, Add, Remove, StartAdd, ReadHad, InstallPackages, InstallPart, WriteRecord,
        Uncheck, CheckPasses, CheckFails, StartRemove, ReadKeep, Inherit,
        Restore, DeleteRecord, Stop, InstallYourself, RemoveYourself, history
<1> QED
  BY <1>1, InitType, StepType, InitApart, StepApart, PTL DEF Spec, YoursKept

-----------------------------------------------------------------------------
(* Records, with one session at a time: nothing locks them, so two may     *)
(* remove what the other one counts on.                                    *)

OneSession == \A s, t \in Sessions : s = t

\* A record that is not there lists nothing.
RecordsWhole ==
    /\ brought \subseteq installed
    /\ \A p \in Packs : ~record[p].there => record[p].packages \cup record[p].needs = {}

\* What a record has to list.
Tracked == brought \ unrecorded

Removing(c) == c.pc \in {"inherit", "restore", "uninstall", "forget"}

\* A remove works on the packages of the record it will delete.  Each is
\* handed over to another pack, is still to be, or is for nobody else.
RemoveReads(c) ==
    LET p == Head(c.todo) IN
    Removing(c) =>
        /\ c.pkgs = record[p].packages
        /\ c.pc \in {"uninstall", "forget"} => c.pending = {}
        /\ \A q \in c.pkgs :
              IF c.keep[q] = "none"
              THEN /\ \A o \in Packs \ {p} : q \notin record[o].needs
                   /\ c.pc = "forget" => q \notin Tracked
              ELSE /\ c.keep[q] # p /\ record[c.keep[q]].there
                   /\ q \in Tracked \ c.pending => q \in record[c.keep[q]].packages

\* The CHECKED line that is put back is the one the heir, another pack, earned.
RestoreReads(c) ==
    c.pc = "restore" =>
        /\ c.heir # Head(c.todo) /\ c.checked \in {"yes", "no"}
        /\ c.checked = "yes" => c.heir \in passed \cup cut

CommandReads(c) == RemoveReads(c) /\ RestoreReads(c)

RecordsInv ==
    /\ RecordsWhole /\ Owned /\ AddedPassed
    /\ \A s \in Sessions : CommandReads(proc[s])

LEMMA InitRecords == Init => RecordsInv
<1> SUFFICES ASSUME Init PROVE RecordsInv
  OBVIOUS
<1>1. \A s \in Sessions : proc[s].pc = "idle"
  BY NoProcType DEF Init
<1>2. RecordsWhole /\ Owned /\ AddedPassed
  BY DEF Init, RecordsWhole, Owned, AddedPassed, NoRecord, added
<1> QED
  BY <1>1, <1>2 DEF RecordsInv, CommandReads, RemoveReads, RestoreReads, Removing

\* The one session's command, after its step, and what the step keeps of the
\* rest, are the invariant again.
LEMMA OneReads ==
    ASSUME OneSession, NEW s \in Sessions,
           RecordsWhole', Owned', AddedPassed', CommandReads(proc[s])'
    PROVE  RecordsInv'
<1>1. \A t \in Sessions : t = s
  BY DEF OneSession
<1> QED
  BY <1>1 DEF RecordsInv

\* A command that has read nothing, or has written down what it read.
LEMMA NothingRead ==
    ASSUME NEW s \in Sessions,
           proc'[s].pc \in {"idle", "had", "install", "record", "uncheck", "check", "keep"}
    PROVE  CommandReads(proc[s])'
  BY DEF CommandReads, RemoveReads, RestoreReads, Removing

\* Where a step leaves the records, the packages and the histories alone.
LEMMA SameRecords ==
    ASSUME OneSession, RecordsInv, NEW s \in Sessions,
           UNCHANGED <<packages, record, history>>,
           proc[s].pc \notin {"record", "uncheck", "restore"},
           CommandReads(proc[s])'
    PROVE  RecordsInv'
<1>1. \A t \in Sessions : t = s
  BY DEF OneSession
<1>2. RecordsWhole'
  BY DEF RecordsInv, RecordsWhole, history, packages
<1>3. Owned'
  BY <1>1 DEF RecordsInv, Owned, history
<1>4. AddedPassed'
  BY <1>1 DEF RecordsInv, AddedPassed, added, history
<1> QED
  BY <1>2, <1>3, <1>4, OneReads

LEMMA GotoPc ==
    ASSUME ProcOK, NEW s \in Sessions, NEW pc, Goto(s, pc)
    PROVE  proc'[s] = [proc[s] EXCEPT !.pc = pc]
  BY DEF Goto, ProcOK

LEMMA NextPackPc ==
    ASSUME ProcOK, NEW s \in Sessions, NEW pc, NextPack(s, pc)
    PROVE  proc'[s].pc \in {"idle", pc}
<1> DEFINE next == [NoProc EXCEPT !.pc = pc, !.todo = Tail(proc[s].todo)]
<1>1. proc'[s] = IF Tail(proc[s].todo) = <<>> THEN NoProc ELSE next
  BY DEF NextPack, ProcOK
<1>2. next.pc = pc
  BY DEF NoProc
<1> HIDE DEF next
<1> QED
  BY <1>1, <1>2, NoProcType

LEMMA setCheckedRest ==
    ASSUME OtherOK, NEW p, NEW v, setChecked(p, v)
    PROVE  \A o \in Packs :
              /\ record'[o].there = record[o].there
              /\ record'[o].packages = record[o].packages
              /\ record'[o].needs = record[o].needs
              /\ record'[o].checked = IF o = p /\ record[o].there THEN v ELSE record[o].checked
  BY DEF setChecked, OtherOK, Record

-----------------------------------------------------------------------------
(* The steps of add.                                                       *)

LEMMA StartAddRecords ==
    ASSUME ProcOK, OneSession, RecordsInv, NEW s \in Sessions, StartAdd(s)
    PROVE  RecordsInv'
<1>1. proc'[s].pc = "had"
  BY DEF StartAdd, ProcOK, NoProc
<1> QED
  BY <1>1, NothingRead, SameRecords DEF StartAdd

LEMMA ReadHadRecords ==
    ASSUME ProcOK, OneSession, RecordsInv, NEW s \in Sessions, ReadHad(s)
    PROVE  RecordsInv'
<1>1. proc'[s].pc = "install"
  <2>1. PICK pkgs \in Resolutions[Pack(s)] :
           proc' = [proc EXCEPT ![s].pc = "install", ![s].pkgs = pkgs,
                                ![s].fresh = pkgs \ installed]
    BY DEF ReadHad
  <2>2. proc'[s] = [proc[s] EXCEPT !.pc = "install", !.pkgs = pkgs,
                                   !.fresh = pkgs \ installed]
    BY <2>1 DEF ProcOK
  <2>3. proc[s] \in Proc
    BY DEF ProcOK
  <2> QED
    BY <2>2, <2>3 DEF Proc
<1>2. CommandReads(proc[s])'
  BY <1>1, NothingRead
<1>3. proc[s].pc = "had" /\ UNCHANGED <<packages, record, history>>
  BY DEF ReadHad
<1> QED
  BY <1>2, <1>3, SameRecords

LEMMA InstallPackagesRecords ==
    ASSUME ProcOK, OtherOK, OneSession, RecordsInv, NEW s \in Sessions, InstallPackages(s)
    PROVE  RecordsInv'
<1>1. \A t \in Sessions : t = s
  BY DEF OneSession
<1>2. proc'[s].pc = "record" /\ proc'[s].fresh = proc[s].fresh
  <2>1. proc[s] \in Proc
    BY DEF ProcOK
  <2>2. proc'[s] = [proc[s] EXCEPT !.pc = "record"]
    BY GotoPc DEF InstallPackages
  <2> QED
    BY <2>1, <2>2 DEF Proc
<1>3. RecordsWhole'
  BY DEF RecordsInv, RecordsWhole, InstallPackages
<1>4. Owned'
  <2> SUFFICES ASSUME NEW q \in brought' \ unrecorded', q \notin proc[s].fresh
               PROVE  \E o \in Packs : q \in record[o].packages
    BY <1>2 DEF Owned, InstallPackages
  <2>1. q \in brought \ unrecorded
    BY DEF InstallPackages
  <2> QED
    BY <1>1, <2>1 DEF RecordsInv, Owned, InstallPackages
<1>5. AddedPassed'
  BY <1>1 DEF RecordsInv, AddedPassed, added, InstallPackages
<1> QED
  BY <1>2, <1>3, <1>4, <1>5, NothingRead, OneReads

LEMMA InstallPartRecords ==
    ASSUME ProcOK, OneSession, RecordsInv, NEW s \in Sessions, InstallPart(s)
    PROVE  RecordsInv'
<1>1. \A t \in Sessions : t = s
  BY DEF OneSession
<1>2. proc'[s].pc = "idle"
  BY NoProcType DEF ProcOK, InstallPart, End
<1>3. RecordsWhole'
  BY DEF RecordsInv, RecordsWhole, InstallPart
<1>4. Owned'
  BY <1>1 DEF RecordsInv, Owned, InstallPart
<1>5. AddedPassed'
  BY <1>1 DEF RecordsInv, AddedPassed, added, InstallPart
<1> QED
  BY <1>2, <1>3, <1>4, <1>5, NothingRead, OneReads

LEMMA WriteRecordRecords ==
    ASSUME ProcOK, OtherOK, OneSession, RecordsInv, NEW s \in Sessions, WriteRecord(s)
    PROVE  RecordsInv'
<1> DEFINE p == Pack(s)
<1>1. \A t \in Sessions : t = s
  BY DEF OneSession
<1>2. p \in Packs
  BY TodoType DEF WriteRecord
<1>3. proc'[s].pc = "uncheck" /\ Pack(s)' = p
  <2>1. proc[s] \in Proc
    BY DEF ProcOK
  <2>2. proc'[s] = [proc[s] EXCEPT !.pc = "uncheck"]
    BY GotoPc DEF WriteRecord
  <2> QED
    BY <2>1, <2>2 DEF Proc, Pack
<1>4. /\ \A o \in Packs \ {p} : record'[o] = record[o]
      /\ record'[p].there /\ record'[p].packages = proc[s].fresh
  BY <1>2 DEF WriteRecord, OtherOK
<1>5. RecordsWhole'
  BY <1>4 DEF RecordsInv, RecordsWhole, WriteRecord, packages
<1>6. Owned'
  <2> SUFFICES ASSUME NEW q \in brought' \ unrecorded'
               PROVE  \E o \in Packs : q \in record'[o].packages
    BY DEF Owned
  <2>1. q \in brought \ unrecorded
    BY DEF WriteRecord
  <2>2. CASE q \in proc[s].fresh
    BY <1>2, <1>4, <2>2
  <2>3. CASE q \notin proc[s].fresh
    <3>1. PICK o \in Packs : q \in record[o].packages
      BY <1>1, <2>1, <2>3 DEF RecordsInv, Owned
    <3>2. CASE o = p
      <4>1. \E u \in Packs \ {p} : q \in record[u].packages
        BY <2>3, <3>1, <3>2 DEF WriteRecord
      <4> QED
        BY <4>1, <1>4
    <3> QED
      BY <3>1, <3>2, <1>4
  <2> QED
    BY <2>2, <2>3
<1>7. AddedPassed'
  <2> SUFFICES ASSUME NEW o \in Packs \ cut', added(o)', o # p
               PROVE  o \in passed'
    BY <1>3 DEF AddedPassed
  <2>1. added(o) /\ o \notin cut
    BY <1>4 DEF added, WriteRecord
  <2>2. o \in passed
    BY <1>1, <2>1 DEF RecordsInv, AddedPassed, WriteRecord
  <2> QED
    BY <2>2 DEF WriteRecord
<1> QED
  BY <1>3, <1>5, <1>6, <1>7, NothingRead, OneReads

LEMMA UncheckRecords ==
    ASSUME ProcOK, OtherOK, OneSession, RecordsInv, NEW s \in Sessions, Uncheck(s)
    PROVE  RecordsInv'
<1> DEFINE p == Pack(s)
<1>1. \A t \in Sessions : t = s
  BY DEF OneSession
<1>2. proc'[s].pc = "check"
  <2>1. proc[s] \in Proc
    BY DEF ProcOK
  <2>2. proc'[s] = [proc[s] EXCEPT !.pc = "check"]
    BY GotoPc DEF Uncheck
  <2> QED
    BY <2>1, <2>2 DEF Proc
<1>3. \A o \in Packs :
         /\ record'[o].there = record[o].there
         /\ record'[o].packages = record[o].packages
         /\ record'[o].needs = record[o].needs
         /\ record'[o].checked = IF o = p /\ record[o].there THEN "no" ELSE record[o].checked
  BY setCheckedRest DEF Uncheck
<1>4. RecordsWhole'
  BY <1>3 DEF RecordsInv, RecordsWhole, Uncheck, history, packages
<1>5. Owned'
  BY <1>1, <1>3 DEF RecordsInv, Owned, Uncheck, history
<1>6. AddedPassed'
  <2> SUFFICES ASSUME NEW o \in Packs \ cut, added(o)' PROVE o \in passed
    BY DEF AddedPassed, Uncheck, history
  <2>1. added(o) /\ o # p
    BY <1>3 DEF added
  <2> QED
    BY <1>1, <2>1 DEF RecordsInv, AddedPassed, Uncheck
<1> QED
  BY <1>2, <1>4, <1>5, <1>6, NothingRead, OneReads

\* The check passes, or fails: what it says goes into the record.
LEMMA CheckRecords ==
    ASSUME OtherOK, OneSession, RecordsInv, NEW s \in Sessions, NEW v \in {"yes", "no"},
           proc[s].pc = "check", setChecked(Pack(s), v),
           UNCHANGED <<packages, yours, brought, unrecorded, cut>>,
           passed \subseteq passed', v = "yes" => Pack(s) \in passed',
           proc'[s].pc \in {"idle", "had"}
    PROVE  RecordsInv'
<1> DEFINE p == Pack(s)
<1>1. \A t \in Sessions : t = s
  BY DEF OneSession
<1>3. \A o \in Packs :
         /\ record'[o].there = record[o].there
         /\ record'[o].packages = record[o].packages
         /\ record'[o].needs = record[o].needs
         /\ record'[o].checked = IF o = p /\ record[o].there THEN v ELSE record[o].checked
  BY setCheckedRest
<1>4. RecordsWhole'
  BY <1>3 DEF RecordsInv, RecordsWhole, packages
<1>5. Owned'
  BY <1>1, <1>3 DEF RecordsInv, Owned
<1>6. AddedPassed'
  <2> SUFFICES ASSUME NEW o \in Packs \ cut, added(o)' PROVE o \in passed'
    BY DEF AddedPassed
  <2>1. CASE o = p
    BY <1>3, <2>1 DEF added
  <2>2. CASE o # p
    <3>1. added(o)
      BY <1>3, <2>2 DEF added
    <3> QED
      BY <1>1, <3>1 DEF RecordsInv, AddedPassed
  <2> QED
    BY <2>1, <2>2
<1> QED
  BY <1>4, <1>5, <1>6, NothingRead, OneReads

LEMMA CheckPassesRecords ==
    ASSUME ProcOK, OtherOK, OneSession, RecordsInv, NEW s \in Sessions, CheckPasses(s)
    PROVE  RecordsInv'
<1>1. proc'[s].pc \in {"idle", "had"}
  BY NextPackPc DEF CheckPasses
<1> QED
  BY <1>1, CheckRecords DEF CheckPasses

LEMMA CheckFailsRecords ==
    ASSUME ProcOK, OtherOK, OneSession, RecordsInv, NEW s \in Sessions, CheckFails(s)
    PROVE  RecordsInv'
<1>1. proc'[s].pc = "idle"
  BY NoProcType DEF CheckFails, ProcOK, End
<1> QED
  BY <1>1, CheckRecords DEF CheckFails, history

-----------------------------------------------------------------------------
(* The steps of remove.                                                    *)

LEMMA StartRemoveRecords ==
    ASSUME ProcOK, OneSession, RecordsInv, NEW s \in Sessions, StartRemove(s)
    PROVE  RecordsInv'
<1>1. proc'[s].pc = "keep"
  BY DEF StartRemove, ProcOK, NoProc
<1> QED
  BY <1>1, NothingRead, SameRecords DEF StartRemove

\* The pack that gets a package is another one that uses it.
LEMMA HeirUses ==
    ASSUME NEW p \in Packs, NEW q
    PROVE  IF Heir(p, q) = "none" THEN \A o \in Packs \ {p} : q \notin record[o].needs
           ELSE /\ Heir(p, q) \in Packs \ {p}
                /\ q \in record[Heir(p, q)].packages \cup record[Heir(p, q)].needs
<1>1. CASE Users(p, q) = {}
  BY <1>1 DEF Heir, Users
<1>2. CASE Users(p, q) # {}
  <2>1. Users(p, q) \in SUBSET Packs
    BY DEF Users
  <2>2. \E last \in Users(p, q) : \A o \in Users(p, q) : Rank[o] <= Rank[last]
    BY <1>2, <2>1, RankAssumption
  <2>3. Heir(p, q) \in Users(p, q)
    BY <1>2, <2>2 DEF Heir
  <2>4. Heir(p, q) # "none"
    BY <2>1, <2>3, NoPackAssumption
  <2> QED
    BY <2>3, <2>4 DEF Users
<1> QED
  BY <1>1, <1>2

LEMMA ReadKeepRecords ==
    ASSUME ProcOK, OtherOK, OneSession, RecordsInv, NEW s \in Sessions, ReadKeep(s)
    PROVE  RecordsInv'
<1> DEFINE p == Pack(s)
           keep == [q \in Packages |-> Heir(p, q)]
           pending == {q \in record[p].packages : keep[q] # "none"}
           pc == IF pending = {} THEN "uninstall" ELSE "inherit"
<1>1. p \in Packs /\ record[p].packages \subseteq Packages
  BY TodoType DEF ReadKeep, OtherOK, Record
<1>2. proc'[s] = [proc[s] EXCEPT !.pc = pc, !.pkgs = record[p].packages,
                                 !.keep = keep, !.pending = pending]
  BY DEF ReadKeep, ProcOK
<1>3. /\ proc'[s].pc = pc /\ proc'[s].pkgs = record[p].packages
      /\ proc'[s].keep = keep /\ proc'[s].pending = pending /\ Head(proc'[s].todo) = p
  <2>1. proc[s] \in Proc
    BY DEF ProcOK
  <2> HIDE DEF keep, pending, pc
  <2> QED
    BY <1>2, <2>1 DEF Proc, Pack
<1>4. RemoveReads(proc[s])'
  <2>1. \A q \in record[p].packages :
           IF keep[q] = "none"
           THEN /\ \A o \in Packs \ {p} : q \notin record[o].needs
           ELSE keep[q] # p /\ record[keep[q]].there /\ q \in pending
    <3> SUFFICES ASSUME NEW q \in record[p].packages
                 PROVE  IF Heir(p, q) = "none"
                        THEN \A o \in Packs \ {p} : q \notin record[o].needs
                        ELSE Heir(p, q) # p /\ record[Heir(p, q)].there
      BY <1>1
    <3> HIDE DEF p
    <3> QED
      BY <1>1, HeirUses DEF RecordsInv, RecordsWhole
  <2>2. pc \in {"uninstall", "inherit"} /\ (pc = "uninstall" => pending = {})
    OBVIOUS
  <2> HIDE DEF p, keep, pending, pc
  <2> QED
    BY <1>3, <2>1, <2>2 DEF RemoveReads, ReadKeep
<1>5. CommandReads(proc[s])'
  BY <1>3, <1>4 DEF CommandReads, RestoreReads
<1> QED
  BY <1>5, SameRecords DEF ReadKeep

LEMMA InheritRecords ==
    ASSUME ProcOK, OtherOK, YoursApart, OneSession, RecordsInv, NEW s \in Sessions, Inherit(s)
    PROVE  RecordsInv'
<1>1. \A t \in Sessions : t = s
  BY DEF OneSession
<1>2. PICK q \in proc[s].pending :
         LET heir == proc[s].keep[q]
             left == proc[s].pending \ {q}
             have == q \in record[heir].packages
             checked == record[heir].checked
         IN  /\ record' = IF have THEN record
                          ELSE [record EXCEPT ![heir].there = TRUE,
                                              ![heir].packages = @ \cup {q},
                                              ![heir].checked = ""]
             /\ proc' = [proc EXCEPT
                           ![s].pending = left, ![s].heir = heir, ![s].checked = checked,
                           ![s].pc = IF ~have /\ checked # "" THEN "restore"
                                     ELSE IF left = {} THEN "uninstall" ELSE "inherit"]
  BY DEF Inherit
<1> DEFINE p == Pack(s)
           heir == proc[s].keep[q]
           left == proc[s].pending \ {q}
           have == q \in record[heir].packages
           checked == record[heir].checked
           pc == IF ~have /\ checked # "" THEN "restore"
                 ELSE IF left = {} THEN "uninstall" ELSE "inherit"
<1>3. /\ proc[s].pc = "inherit" /\ proc[s] \in Proc /\ CommandOK(proc[s])
      /\ proc[s].pending \subseteq proc[s].pkgs
  BY DEF Inherit, ProcOK, CommandOK, YoursApart, CommandApart
<1>4. heir \in Packs /\ heir # "none"
  BY <1>3, NoPackAssumption DEF CommandOK, Proc
<1>5. /\ heir # p /\ record[heir].there /\ proc[s].pkgs = record[p].packages
      /\ \A x \in proc[s].pkgs :
            IF proc[s].keep[x] = "none"
            THEN \A o \in Packs \ {p} : x \notin record[o].needs
            ELSE /\ proc[s].keep[x] # p /\ record[proc[s].keep[x]].there
                 /\ x \in Tracked \ proc[s].pending => x \in record[proc[s].keep[x]].packages
  BY <1>3, <1>4 DEF RecordsInv, CommandReads, RemoveReads, Removing, Pack
<1>6. checked \in {"", "yes", "no"} /\ pc \in {"restore", "uninstall", "inherit"}
  BY <1>4 DEF OtherOK, Record
<1>7. /\ proc'[s].pc = pc /\ proc'[s].pkgs = proc[s].pkgs /\ proc'[s].keep = proc[s].keep
      /\ proc'[s].pending = left /\ proc'[s].heir = heir /\ proc'[s].checked = checked
      /\ Head(proc'[s].todo) = p
  <2>1. proc'[s] = [proc[s] EXCEPT !.pending = left, !.heir = heir, !.checked = checked,
                                   !.pc = pc]
    BY <1>2 DEF ProcOK
  <2> HIDE DEF heir, left, checked, pc
  <2> QED
    BY <1>3, <2>1 DEF Proc, Pack
<1>8. \A o \in Packs :
         /\ record'[o].there = record[o].there
         /\ record'[o].packages = IF o = heir THEN record[o].packages \cup {q}
                                  ELSE record[o].packages
         /\ record'[o].needs = record[o].needs
         /\ record'[o].checked = IF o = heir /\ ~have THEN "" ELSE record[o].checked
  <2>1. CASE have
    BY <1>2, <2>1
  <2>2. CASE ~have
    <3>1. record' = [record EXCEPT ![heir].there = TRUE, ![heir].packages = @ \cup {q},
                                   ![heir].checked = ""]
      BY <1>2, <2>2
    <3>2. ASSUME NEW o \in Packs, o # heir PROVE record'[o] = record[o]
      BY <3>1, <3>2 DEF OtherOK
    <3>3. record'[heir] = [record[heir] EXCEPT !.there = TRUE, !.packages = @ \cup {q},
                                               !.checked = ""]
      BY <3>1, <1>4 DEF OtherOK
    <3>4. record[heir] \in Record
      BY <1>4 DEF OtherOK
    <3>5. /\ record'[heir].there = TRUE /\ record'[heir].packages = record[heir].packages \cup {q}
          /\ record'[heir].checked = "" /\ record'[heir].needs = record[heir].needs
      <4> HIDE DEF heir
      <4> QED
        BY <3>3, <3>4 DEF Record
    <3> QED
      BY <1>5, <2>2, <3>2, <3>5
  <2> QED
    BY <2>1, <2>2
<1>9. proc[s].pkgs = record'[p].packages
  BY <1>5, <1>8, TodoType, <1>3
<1>10. p \in Packs
  BY <1>3, TodoType
<1>11. added(heir) => heir \in passed \cup cut
  BY <1>1, <1>3, <1>4 DEF RecordsInv, AddedPassed
<1>12. /\ pc = "uninstall" => left = {}
       /\ pc = "restore" => ~have /\ checked # ""
       /\ ~have /\ checked # "" => pc = "restore"
  OBVIOUS
<1>u. UNCHANGED <<packages, history>> /\ Tracked' = Tracked
  BY DEF Inherit, Tracked, history
<1>13. RecordsWhole'
  BY <1>5, <1>8, <1>u DEF RecordsInv, RecordsWhole, history, packages
<1>14. Owned'
  <2> HIDE DEF heir, have
  <2> QED
    BY <1>1, <1>3, <1>8, <1>u DEF RecordsInv, Owned, history
<1>15. AddedPassed'
  <2> SUFFICES ASSUME NEW o \in Packs \ cut, added(o)', ~(pc = "restore" /\ o = heir)
               PROVE  o \in passed
    BY <1>7, <1>u DEF AddedPassed, history
  <2>1. CASE o # heir \/ have
    <3>1. added(o)
      BY <1>8, <2>1 DEF added
    <3> QED
      BY <1>1, <1>3, <3>1 DEF RecordsInv, AddedPassed
  <2>2. CASE o = heir /\ ~have
    <3>1. added(heir)
      BY <1>5, <1>12, <2>2 DEF added
    <3> QED
      BY <1>11, <2>2, <3>1
  <2> QED
    BY <2>1, <2>2
<1>16. RemoveReads(proc[s])'
  <2>1. \A x \in proc[s].pkgs :
           IF proc[s].keep[x] = "none"
           THEN \A o \in Packs \ {p} : x \notin record'[o].needs
           ELSE /\ proc[s].keep[x] # p /\ record'[proc[s].keep[x]].there
                /\ x \in Tracked' \ left => x \in record'[proc[s].keep[x]].packages
    <3> SUFFICES ASSUME NEW x \in proc[s].pkgs, proc[s].keep[x] # "none"
                 PROVE  /\ record'[proc[s].keep[x]].there
                        /\ x \in Tracked' \ left => x \in record'[proc[s].keep[x]].packages
      BY <1>5, <1>8
    <3>1. proc[s].keep[x] \in Packs
      BY <1>3 DEF Proc
    <3> QED
      BY <3>1, <1>5, <1>8, <1>u
  <2> HIDE DEF p, heir, left, have, checked, pc
  <2> QED
    BY <1>6, <1>7, <1>9, <1>12, <2>1 DEF RemoveReads
<1>17. CommandReads(proc[s])'
  <2>1. pc = "restore" => checked \in {"yes", "no"}
    BY <1>6, <1>12
  <2>2. (checked = "yes" => heir \in passed \cup cut) /\ heir # p
    BY <1>5, <1>11 DEF added
  <2> HIDE DEF p, heir, left, have, checked, pc
  <2> QED
    BY <1>6, <1>7, <1>16, <1>u, <2>1, <2>2 DEF CommandReads, RestoreReads, history
<1> QED
  BY <1>13, <1>14, <1>15, <1>17, OneReads

\* A remove that only moves on keeps what it reads, when what it reads of the
\* other records stays.
LEMMA RemovingOn ==
    ASSUME ProcOK, RecordsInv, NEW s \in Sessions, NEW pc, Goto(s, pc),
           Removing(proc[s]), pc \in {"inherit", "uninstall", "forget"},
           pc \in {"uninstall", "forget"} => proc[s].pending = {},
           pc = "forget" => \A q \in proc[s].pkgs : proc[s].keep[q] = "none" => q \notin Tracked',
           Tracked' \subseteq Tracked,
           record'[Pack(s)].packages = record[Pack(s)].packages,
           \A o \in Packs : /\ record[o].there => record'[o].there
                            /\ record'[o].needs \subseteq record[o].needs
                            /\ \A q \in Tracked' : q \in record[o].packages
                                                    => q \in record'[o].packages
    PROVE  CommandReads(proc[s])'
<1> DEFINE p == Pack(s)
<1>1. proc[s] \in Proc /\ proc[s].pc # "idle" /\ p \in Packs
  BY TodoType DEF ProcOK, Removing
<1>2. proc'[s] = [proc[s] EXCEPT !.pc = pc]
  BY GotoPc
<1>3. /\ proc'[s].pc = pc /\ proc'[s].pkgs = proc[s].pkgs /\ proc'[s].keep = proc[s].keep
      /\ proc'[s].pending = proc[s].pending /\ Head(proc'[s].todo) = p
  BY <1>1, <1>2 DEF Proc, Pack
<1>4. /\ proc[s].pkgs = record[p].packages
      /\ \A x \in proc[s].pkgs :
            IF proc[s].keep[x] = "none"
            THEN \A o \in Packs \ {p} : x \notin record[o].needs
            ELSE /\ proc[s].keep[x] # p /\ record[proc[s].keep[x]].there
                 /\ x \in Tracked \ proc[s].pending => x \in record[proc[s].keep[x]].packages
  BY DEF RecordsInv, CommandReads, RemoveReads, Pack
<1>5. \A x \in proc[s].pkgs : proc[s].keep[x] \in Packs \cup {"none"}
  BY <1>1 DEF Proc
<1>6. /\ proc[s].pkgs = record'[p].packages
      /\ \A x \in proc[s].pkgs :
            IF proc[s].keep[x] = "none"
            THEN \A o \in Packs \ {p} : x \notin record'[o].needs
            ELSE /\ proc[s].keep[x] # p /\ record'[proc[s].keep[x]].there
                 /\ x \in Tracked' \ proc[s].pending => x \in record'[proc[s].keep[x]].packages
  BY <1>1, <1>4, <1>5
<1> HIDE DEF p
<1> QED
  BY <1>3, <1>6 DEF CommandReads, RemoveReads, RestoreReads, Removing

LEMMA RestoreRecords ==
    ASSUME ProcOK, OtherOK, OneSession, RecordsInv, NEW s \in Sessions, Restore(s)
    PROVE  RecordsInv'
<1> DEFINE heir == proc[s].heir
           pc == IF proc[s].pending = {} THEN "uninstall" ELSE "inherit"
<1>1. \A t \in Sessions : t = s
  BY DEF OneSession
<1>2. /\ proc[s].pc = "restore" /\ setChecked(heir, proc[s].checked) /\ Goto(s, pc)
      /\ UNCHANGED <<packages, history>> /\ Tracked' = Tracked
  BY DEF Restore, GoOnRemoving, Tracked, history
<1>3. \A o \in Packs :
         /\ record'[o].there = record[o].there
         /\ record'[o].packages = record[o].packages
         /\ record'[o].needs = record[o].needs
         /\ record'[o].checked = IF o = heir /\ record[o].there THEN proc[s].checked
                                 ELSE record[o].checked
  <2> HIDE DEF heir
  <2> QED
    BY <1>2, setCheckedRest
<1>4. RecordsWhole'
  BY <1>2, <1>3 DEF RecordsInv, RecordsWhole, history, packages
<1>5. Owned'
  BY <1>1, <1>2, <1>3 DEF RecordsInv, Owned, history
<1>6. /\ proc[s].checked \in {"yes", "no"}
      /\ proc[s].checked = "yes" => heir \in passed \cup cut
  BY <1>2 DEF RecordsInv, CommandReads, RestoreReads
<1>7. AddedPassed'
  <2> SUFFICES ASSUME NEW o \in Packs \ cut, added(o)' PROVE o \in passed
    BY <1>2 DEF AddedPassed, history
  <2>1. CASE o = heir
    BY <1>3, <1>6, <2>1 DEF added
  <2>2. CASE o # heir
    <3>1. added(o)
      BY <1>3, <2>2 DEF added
    <3> QED
      BY <1>1, <1>2, <2>2, <3>1 DEF RecordsInv, AddedPassed
  <2> QED
    BY <2>1, <2>2
<1>8. CommandReads(proc[s])'
  <2>1. Removing(proc[s]) /\ pc \in {"inherit", "uninstall"} /\ Pack(s) \in Packs
    BY <1>2, TodoType DEF Removing
  <2>2. pc = "uninstall" => proc[s].pending = {}
    OBVIOUS
  <2> HIDE DEF pc
  <2> QED
    BY <1>2, <1>3, <2>1, <2>2, RemovingOn
<1> QED
  BY <1>4, <1>5, <1>7, <1>8, OneReads

\* What is uninstalled leaves the records as they are, and what is brought in
\* among what is installed.
LEMMA UninstalledRecords ==
    ASSUME OneSession, RecordsInv, NEW s \in Sessions, NEW gone, NEW S, Uninstalled(gone, S),
           UNCHANGED <<record, passed, cut>>, proc[s].pc \in {"idle", "uninstall"},
           CommandReads(proc[s])'
    PROVE  RecordsInv'
<1>1. \A t \in Sessions : t = s
  BY DEF OneSession
<1>2. RecordsWhole'
  BY DEF RecordsInv, RecordsWhole, Uninstalled
<1>3. Owned'
  BY <1>1 DEF RecordsInv, Owned, Uninstalled
<1>4. AddedPassed'
  BY <1>1 DEF RecordsInv, AddedPassed, added
<1> QED
  BY <1>2, <1>3, <1>4, OneReads

LEMMA UninstallRecords ==
    ASSUME ProcOK, OneSession, RecordsInv, NEW s \in Sessions, Uninstall(s)
    PROVE  RecordsInv'
<1>1. Removing(proc[s]) /\ proc[s].pending = {}
  BY DEF Uninstall, RecordsInv, CommandReads, RemoveReads, Removing
<1>2. /\ \A q \in proc[s].pkgs : proc[s].keep[q] = "none" => q \notin Tracked'
      /\ Tracked' \subseteq Tracked
  BY DEF Uninstall, Uninstalled, Drop, Tracked, RecordsInv, RecordsWhole
<1>3. CommandReads(proc[s])'
  BY <1>1, <1>2, RemovingOn DEF Uninstall
<1> QED
  BY <1>3, UninstalledRecords DEF Uninstall

LEMMA UninstallPartRecords ==
    ASSUME ProcOK, OneSession, RecordsInv, NEW s \in Sessions, UninstallPart(s)
    PROVE  RecordsInv'
<1>1. proc'[s].pc = "idle"
  BY NoProcType DEF ProcOK, UninstallPart, End
<1> QED
  BY <1>1, NothingRead, UninstalledRecords DEF UninstallPart

LEMMA DeleteRecordRecords ==
    ASSUME ProcOK, OtherOK, OneSession, RecordsInv, NEW s \in Sessions, DeleteRecord(s)
    PROVE  RecordsInv'
<1> DEFINE p == Pack(s)
<1>1. \A t \in Sessions : t = s
  BY DEF OneSession
<1>2. p \in Packs /\ proc[s] \in Proc
  BY TodoType DEF DeleteRecord, ProcOK
<1>3. proc'[s].pc \in {"idle", "keep"}
  BY NextPackPc DEF DeleteRecord
<1>4. /\ ~record'[p].there /\ record'[p].packages = {} /\ record'[p].needs = {}
      /\ \A o \in Packs \ {p} : record'[o] = record[o]
  <2>1. record' = [record EXCEPT ![p] = NoRecord]
    BY DEF DeleteRecord
  <2>2. record'[p] = NoRecord /\ \A o \in Packs \ {p} : record'[o] = record[o]
    BY <1>2, <2>1 DEF OtherOK
  <2>3. NoRecord.there = FALSE /\ NoRecord.packages = {} /\ NoRecord.needs = {}
    BY DEF NoRecord
  <2> QED
    BY <2>2, <2>3
<1>5. /\ proc[s].pkgs = record[p].packages
      /\ \A q \in proc[s].pkgs :
            IF proc[s].keep[q] = "none" THEN q \notin Tracked
            ELSE proc[s].keep[q] # p /\ (q \in Tracked => q \in record[proc[s].keep[q]].packages)
  BY DEF DeleteRecord, RecordsInv, CommandReads, RemoveReads, Removing, Pack
<1>6. RecordsWhole'
  BY <1>4 DEF RecordsInv, RecordsWhole, DeleteRecord, packages
<1>7. Owned'
  <2> SUFFICES ASSUME NEW q \in brought \ unrecorded
               PROVE  \E o \in Packs \ {p} : q \in record[o].packages
    BY <1>4 DEF Owned, DeleteRecord
  <2>1. PICK o \in Packs : q \in record[o].packages
    BY <1>1 DEF RecordsInv, Owned, DeleteRecord
  <2>2. CASE o = p
    <3>1. q \in proc[s].pkgs /\ q \in Tracked
      BY <1>5, <2>1, <2>2 DEF Tracked
    <3>2. proc[s].keep[q] # "none" /\ proc[s].keep[q] \in Packs \cup {"none"}
      BY <1>2, <1>5, <3>1 DEF Proc
    <3> QED
      BY <1>5, <3>1, <3>2
  <2> QED
    BY <2>1, <2>2
<1>8. AddedPassed'
  <2> SUFFICES ASSUME NEW o \in Packs \ cut', added(o)' PROVE o \in passed'
    BY DEF AddedPassed
  <2>1. o # p /\ added(o)
    BY <1>4 DEF added
  <2> QED
    BY <1>1, <2>1 DEF RecordsInv, AddedPassed, DeleteRecord
<1> QED
  BY <1>3, <1>6, <1>7, <1>8, NothingRead, OneReads

-----------------------------------------------------------------------------
(* The other steps, and the theorems.                                      *)

LEMMA StopRecords ==
    ASSUME ProcOK, OneSession, RecordsInv, NEW s \in Sessions, Stop(s)
    PROVE  RecordsInv'
<1>1. \A t \in Sessions : t = s
  BY DEF OneSession
<1>2. proc'[s].pc = "idle"
  BY NoProcType DEF ProcOK, Stop, End
<1>3. RecordsWhole'
  BY DEF RecordsInv, RecordsWhole, Stop, packages
<1>4. Owned'
  BY <1>1 DEF RecordsInv, Owned, Stop
<1>5. AddedPassed'
  BY <1>1 DEF RecordsInv, AddedPassed, added, Stop, Pack
<1> QED
  BY <1>2, <1>3, <1>4, <1>5, NothingRead, OneReads

\* Your own steps leave what a remove has read as it is.
LEMMA YourselfRecords ==
    ASSUME OneSession, RecordsInv, NEW q \in Packages, InstallYourself(q) \/ RemoveYourself(q)
    PROVE  RecordsInv'
<1>1. UNCHANGED <<record, proc, passed, cut>> /\ Tracked' \subseteq Tracked
  BY DEF InstallYourself, RemoveYourself, Tracked, Uninstalled
<1>2. RecordsWhole'
  BY DEF RecordsInv, RecordsWhole, InstallYourself, RemoveYourself, Uninstalled
<1>3. Owned'
  BY <1>1 DEF RecordsInv, Owned, Tracked
<1>4. AddedPassed'
  BY <1>1 DEF RecordsInv, AddedPassed, added, Pack
<1>5. \A s \in Sessions : CommandReads(proc[s])'
  BY <1>1 DEF RecordsInv, CommandReads, RemoveReads, RestoreReads, Removing
<1> QED
  BY <1>2, <1>3, <1>4, <1>5 DEF RecordsInv

-----------------------------------------------------------------------------
(* The writes that fail.                                                   *)

\* A failed write loses one record's packages, which are tracked no more.
LEMMA FailWriteLoses ==
    ASSUME OtherOK, NEW p \in Packs, NEW left \in {record[p], EmptyRecord}, NEW new,
           FailWrite(p, left, new), brought' = brought
    PROVE  /\ \A o \in Packs \ {p} : record'[o] = record[o]
           /\ record'[p] = left
           /\ \A o \in Packs : /\ record[o].there => record'[o].there
                               /\ record'[o].needs \subseteq record[o].needs
                               /\ record'[o].packages \subseteq record[o].packages
                               /\ \A q \in Tracked' : q \in record[o].packages
                                                       => q \in record'[o].packages
           /\ Tracked' \subseteq Tracked /\ new \cap Tracked' = {}
<1>1. EmptyRecord.there /\ EmptyRecord.needs = {} /\ EmptyRecord.packages = {}
  BY DEF EmptyRecord, NoRecord
<1>2. (\A o \in Packs \ {p} : record'[o] = record[o]) /\ record'[p] = left
  BY DEF FailWrite, OtherOK
<1>3. /\ Tracked' \subseteq Tracked /\ new \cap Tracked' = {}
      /\ (record[p].packages \ left.packages) \cap Tracked' = {}
  BY DEF FailWrite, Tracked
<1> QED
  BY <1>1, <1>2, <1>3

\* The one session's command after a failed write, and the rest.
LEMMA FailWriteRecords ==
    ASSUME ProcOK, OtherOK, OneSession, RecordsInv, NEW s \in Sessions, NEW p \in Packs,
           NEW left \in {record[p], EmptyRecord}, NEW new, FailWrite(p, left, new),
           UNCHANGED <<packages, yours, brought, passed>>,
           proc[s].pc = "record" => proc[s].fresh \subseteq new,
           proc[s].pc = "uncheck" => p = Pack(s),
           proc[s].pc = "restore" => p = proc[s].heir,
           CommandReads(proc[s])'
    PROVE  RecordsInv'
<1>1. \A t \in Sessions : t = s
  BY DEF OneSession
<1>2. /\ \A o \in Packs \ {p} : record'[o] = record[o]
      /\ record'[p] \in {record[p], EmptyRecord}
      /\ \A o \in Packs, q \in Tracked' : q \in record[o].packages => q \in record'[o].packages
      /\ Tracked' \subseteq Tracked /\ new \cap Tracked' = {} /\ brought' = brought
  BY FailWriteLoses
<1>3. RecordsWhole'
  <2>1. EmptyRecord.there
    BY DEF EmptyRecord, NoRecord
  <2> QED
    BY <1>2, <2>1 DEF RecordsInv, RecordsWhole, packages
<1>4. Owned'
  BY <1>1, <1>2 DEF RecordsInv, Owned, Tracked
<1>5. AddedPassed'
  <2> SUFFICES ASSUME NEW o \in Packs \ cut', added(o)' PROVE o \in passed
    BY DEF AddedPassed
  <2>1. o # p /\ o \notin cut
    BY DEF FailWrite
  <2>2. added(o)
    BY <1>2, <2>1 DEF added
  <2> QED
    BY <1>1, <2>1, <2>2 DEF RecordsInv, AddedPassed
<1> QED
  BY <1>3, <1>4, <1>5, OneReads

LEMMA FailRecordRecords ==
    ASSUME ProcOK, OtherOK, OneSession, RecordsInv, NEW s \in Sessions, FailRecord(s)
    PROVE  RecordsInv'
<1>1. Pack(s) \in Packs
  BY TodoType DEF FailRecord
<1>2. proc'[s].pc = "idle"
  BY NoProcType DEF FailRecord, End, ProcOK
<1>3. CommandReads(proc[s])'
  BY <1>2, NothingRead
<1> QED
  BY <1>1, <1>3, FailWriteRecords DEF FailRecord

LEMMA FailCheckedRecords ==
    ASSUME ProcOK, OtherOK, OneSession, RecordsInv, NEW s \in Sessions, FailChecked(s)
    PROVE  RecordsInv'
<1>1. PICK p \in Packs :
         /\ \/ /\ proc[s].pc \in {"uncheck", "check"} /\ p = Pack(s)
               /\ End(s) \/ Goto(s, "check") \/ NextPack(s, "had")
            \/ /\ proc[s].pc = "restore" /\ p = proc[s].heir
               /\ End(s) \/ GoOnRemoving(s)
         /\ \E left \in {record[p], EmptyRecord} : FailWrite(p, left, {})
  BY DEF FailChecked
<1>2. PICK left \in {record[p], EmptyRecord} : FailWrite(p, left, {})
  BY <1>1
<1>3. UNCHANGED <<packages, yours, brought, passed>>
  BY DEF FailChecked
<1>4. CASE End(s)
  <2>1. proc'[s].pc = "idle"
    BY <1>4, NoProcType DEF End, ProcOK
  <2>2. CommandReads(proc[s])'
    BY <2>1, NothingRead
  <2> QED
    BY <1>1, <1>2, <1>3, <2>2, FailWriteRecords
<1>5. CASE proc[s].pc # "restore" /\ ~End(s)
  <2>1. proc'[s].pc \in {"idle", "had", "check"}
    <3>1. CASE Goto(s, "check")
      <4>1. proc'[s] = [proc[s] EXCEPT !.pc = "check"] /\ proc[s] \in Proc
        BY <3>1, GotoPc DEF ProcOK
      <4> QED
        BY <4>1 DEF Proc
    <3>2. CASE NextPack(s, "had")
      BY <3>2, NextPackPc
    <3> QED
      BY <1>1, <1>5, <3>1, <3>2
  <2>2. CommandReads(proc[s])'
    BY <2>1, NothingRead
  <2> QED
    BY <1>1, <1>2, <1>3, <1>5, <2>2, FailWriteRecords
<1>6. CASE proc[s].pc = "restore" /\ ~End(s)
  <2> DEFINE pc == IF proc[s].pending = {} THEN "uninstall" ELSE "inherit"
  <2>1. Goto(s, pc) /\ p = proc[s].heir
    BY <1>1, <1>6 DEF GoOnRemoving
  <2>2. /\ pc \in {"uninstall", "inherit"} /\ (pc = "uninstall" => proc[s].pending = {})
        /\ Removing(proc[s])
    BY <1>6 DEF Removing
  <2> HIDE DEF pc
  <2>3. Pack(s) \in Packs \ {p}
    BY <1>6, <2>1, TodoType DEF RecordsInv, CommandReads, RestoreReads, Pack
  <2>4. /\ record'[Pack(s)] = record[Pack(s)] /\ Tracked' \subseteq Tracked
        /\ \A o \in Packs : /\ record[o].there => record'[o].there
                            /\ record'[o].needs \subseteq record[o].needs
                            /\ \A q \in Tracked' : q \in record[o].packages
                                                    => q \in record'[o].packages
    BY <1>2, <1>3, <2>3, FailWriteLoses
  <2>5. CommandReads(proc[s])'
    BY <2>1, <2>2, <2>4, RemovingOn
  <2> QED
    BY <1>2, <1>3, <1>6, <2>1, <2>5, FailWriteRecords
<1> QED
  BY <1>4, <1>5, <1>6

LEMMA FailInheritRecords ==
    ASSUME ProcOK, OtherOK, YoursApart, OneSession, RecordsInv, NEW s \in Sessions,
           FailInherit(s)
    PROVE  RecordsInv'
<1>1. PICK q \in proc[s].pending :
         LET heir == proc[s].keep[q]
             left == proc[s].pending \ {q}
             checked == record[heir].checked
         IN  /\ q \notin record[heir].packages
             /\ \E rec \in {record[heir], EmptyRecord} : FailWrite(heir, rec, {q})
             /\ \/ End(s)
                \/ proc' = [proc EXCEPT
                              ![s].pending = left, ![s].heir = heir, ![s].checked = checked,
                              ![s].pc = IF checked # "" THEN "restore"
                                        ELSE IF left = {} THEN "uninstall" ELSE "inherit"]
  BY DEF FailInherit
<1> DEFINE p == Pack(s)
           heir == proc[s].keep[q]
           left == proc[s].pending \ {q}
           checked == record[heir].checked
           pc == IF checked # "" THEN "restore"
                 ELSE IF left = {} THEN "uninstall" ELSE "inherit"
<1>2. PICK rec \in {record[heir], EmptyRecord} : FailWrite(heir, rec, {q})
  BY <1>1
<1>3. /\ proc[s].pc = "inherit" /\ proc[s] \in Proc /\ CommandOK(proc[s])
      /\ proc[s].pending \subseteq proc[s].pkgs
      /\ UNCHANGED <<packages, yours, brought, passed>>
  BY DEF FailInherit, ProcOK, CommandOK, YoursApart, CommandApart
<1>4. heir \in Packs /\ heir # "none" /\ p \in Packs
  BY <1>3, NoPackAssumption, TodoType DEF CommandOK, Proc
<1>5. /\ heir # p /\ proc[s].pkgs = record[p].packages
      /\ \A x \in proc[s].pkgs :
            IF proc[s].keep[x] = "none"
            THEN \A o \in Packs \ {p} : x \notin record[o].needs
            ELSE /\ proc[s].keep[x] # p /\ record[proc[s].keep[x]].there
                 /\ x \in Tracked \ proc[s].pending => x \in record[proc[s].keep[x]].packages
  BY <1>3, <1>4 DEF RecordsInv, CommandReads, RemoveReads, Removing, Pack
<1>6. /\ record'[p] = record[p] /\ Tracked' \subseteq Tracked /\ q \notin Tracked'
      /\ \A o \in Packs : /\ record[o].there => record'[o].there
                          /\ record'[o].needs \subseteq record[o].needs
                          /\ \A x \in Tracked' : x \in record[o].packages
                                                  => x \in record'[o].packages
  <2> HIDE DEF heir
  <2> QED
    BY <1>2, <1>3, <1>4, <1>5, FailWriteLoses
<1>7. heir \in cut'
  BY <1>2 DEF FailWrite
<1>8. CASE End(s)
  <2>1. proc'[s].pc = "idle"
    BY <1>8, NoProcType DEF End, ProcOK
  <2>2. CommandReads(proc[s])'
    BY <2>1, NothingRead
  <2> HIDE DEF heir
  <2> QED
    BY <1>2, <1>3, <1>4, <2>2, FailWriteRecords
<1>9. CASE ~End(s)
  <2>1. /\ proc'[s].pc = pc /\ proc'[s].pkgs = proc[s].pkgs /\ proc'[s].keep = proc[s].keep
        /\ proc'[s].pending = left /\ proc'[s].heir = heir /\ proc'[s].checked = checked
        /\ Head(proc'[s].todo) = p
    <3>1. proc'[s] = [proc[s] EXCEPT !.pending = left, !.heir = heir, !.checked = checked,
                                     !.pc = pc]
      BY <1>1, <1>9 DEF ProcOK
    <3> HIDE DEF heir, left, checked, pc
    <3> QED
      BY <1>3, <3>1 DEF Proc, Pack
  <2>2. /\ checked \in {"", "yes", "no"} /\ pc \in {"restore", "uninstall", "inherit"}
        /\ pc = "uninstall" => left = {}
        /\ pc = "restore" => checked # ""
    BY <1>4 DEF OtherOK, Record
  <2>3. \A x \in proc[s].pkgs :
           IF proc[s].keep[x] = "none"
           THEN \A o \in Packs \ {p} : x \notin record'[o].needs
           ELSE /\ proc[s].keep[x] # p /\ record'[proc[s].keep[x]].there
                /\ x \in Tracked' \ left => x \in record'[proc[s].keep[x]].packages
    <3> SUFFICES ASSUME NEW x \in proc[s].pkgs, proc[s].keep[x] # "none"
                 PROVE  /\ record'[proc[s].keep[x]].there
                        /\ x \in Tracked' \ left => x \in record'[proc[s].keep[x]].packages
      BY <1>5, <1>6
    <3>1. proc[s].keep[x] \in Packs
      BY <1>3 DEF Proc
    <3> QED
      BY <3>1, <1>5, <1>6
  <2>4. proc[s].pkgs = record'[p].packages
    BY <1>5, <1>6
  <2>5. RemoveReads(proc[s])'
    <3> HIDE DEF p, heir, left, checked, pc
    <3> QED
      BY <2>1, <2>2, <2>3, <2>4 DEF RemoveReads
  <2>6. RestoreReads(proc[s])'
    <3> HIDE DEF p, heir, left, checked, pc
    <3> QED
      BY <1>5, <1>7, <2>1, <2>2 DEF RestoreReads
  <2>7. CommandReads(proc[s])'
    BY <2>5, <2>6 DEF CommandReads
  <2> HIDE DEF heir
  <2> QED
    BY <1>2, <1>3, <1>4, <2>7, FailWriteRecords
<1> QED
  BY <1>8, <1>9

LEMMA StepRecords ==
    OneSession => (TypeOK /\ YoursApart /\ RecordsInv /\ [Next]_vars => RecordsInv')
<1> SUFFICES ASSUME OneSession, ProcOK, OtherOK, YoursApart, RecordsInv, [Next]_vars
             PROVE  RecordsInv'
  BY TypeParts
<1>1. ASSUME NEW s \in Sessions, Add(s) PROVE RecordsInv'
  BY <1>1, StartAddRecords, ReadHadRecords, InstallPackagesRecords, InstallPartRecords,
     WriteRecordRecords, UncheckRecords, CheckPassesRecords, CheckFailsRecords DEF Add
<1>2. ASSUME NEW s \in Sessions, Remove(s) PROVE RecordsInv'
  BY <1>2, StartRemoveRecords, ReadKeepRecords, InheritRecords, RestoreRecords,
     UninstallRecords, UninstallPartRecords, DeleteRecordRecords DEF Remove
<1>3. CASE UNCHANGED vars
  <2>1. RecordsWhole' /\ Owned' /\ AddedPassed'
    BY <1>3 DEF vars, packages, history, RecordsInv, RecordsWhole, Owned, AddedPassed, added, Pack
  <2>2. \A s \in Sessions : CommandReads(proc[s])'
    BY <1>3 DEF vars, history, RecordsInv, Tracked, CommandReads, RemoveReads, RestoreReads,
                Removing
  <2> QED
    BY <2>1, <2>2 DEF RecordsInv
<1>4. ASSUME NEW s \in Sessions, FailedWrites(s) PROVE RecordsInv'
  BY <1>4, FailRecordRecords, FailCheckedRecords, FailInheritRecords DEF FailedWrites
<1> QED
  BY <1>1, <1>2, <1>3, <1>4, StopRecords, YourselfRecords DEF Next

\* The inductive invariant of the records: with one session at a time, what a
\* remove has read, from the first record to the last delete, is still so.
THEOREM RecordsHold == OneSession => (Spec => [](TypeOK /\ YoursApart /\ RecordsInv))
<1> SUFFICES ASSUME OneSession PROVE Spec => [](TypeOK /\ YoursApart /\ RecordsInv)
  OBVIOUS
<1>1. TypeOK /\ YoursApart /\ RecordsInv /\ [Next]_vars => RecordsInv'
  BY StepRecords
<1> QED
  BY InitType, StepType, InitApart, StepApart, InitRecords, <1>1, PTL DEF Spec

\* With one session at a time every package a pack brought in stays on some
\* pack's record through every failed check, kept package, handover and crash.
THEOREM PackagesOwned == OneSession => (Spec => []Owned)
<1>1. RecordsInv => Owned
  BY DEF RecordsInv
<1> QED
  BY <1>1, RecordsHold, PTL

\* With one session at a time a pack counts as added only once its check has
\* passed, whatever records it has taken packages over from.
THEOREM AddedHavePassed == OneSession => (Spec => []AddedPassed)
<1>1. RecordsInv => AddedPassed
  BY DEF RecordsInv
<1> QED
  BY <1>1, RecordsHold, PTL

\* With one session at a time a remove takes out no package that another
\* pack's record lists, but what the package manager takes with those it names.
THEOREM NeedsStay == OneSession => (Spec => NeedsKept)
<1> DEFINE Keeps == \A s \in Sessions, p \in Packs :
                       proc[s].pc = "uninstall" /\ proc'[s].pc # "uninstall" /\ p # Pack(s)
                         => (record[p].needs \cap installed) \ (Dependents(Drop(s)) \cup auto)
                              \subseteq installed'
<1>1. OneSession => (RecordsInv /\ Next => Keeps)
  <2> SUFFICES ASSUME OneSession, RecordsInv, Next, NEW s \in Sessions, NEW p \in Packs,
                      proc[s].pc = "uninstall", proc'[s].pc # "uninstall", p # Pack(s)
               PROVE  (record[p].needs \cap installed) \ (Dependents(Drop(s)) \cup auto)
                        \subseteq installed'
    OBVIOUS
  <2>1. \A t \in Sessions : t = s
    BY DEF OneSession
  <2>2. record[p].needs \cap Drop(s) = {}
    BY DEF RecordsInv, CommandReads, RemoveReads, Removing, Pack, Drop
  <2>3. CASE Uninstall(s) \/ UninstallPart(s)
    <3>1. PICK gone \in Removals(Drop(s)) : installed \ gone \subseteq installed'
      BY <2>3 DEF Uninstall, UninstallPart, Uninstalled
    <3>2. gone \subseteq Drop(s) \cup Dependents(Drop(s)) \cup auto
      BY RemovalsBound
    <3> QED
      BY <2>2, <3>1, <3>2
  <2>4. CASE Stop(s)
    BY <2>4 DEF Stop, packages
  <2> QED
    BY <2>1, <2>3, <2>4
    DEF Next, Add, Remove, StartAdd, ReadHad, InstallPackages, InstallPart, WriteRecord,
        Uncheck, CheckPasses, CheckFails, StartRemove, ReadKeep, Inherit, Restore,
        DeleteRecord, InstallYourself, RemoveYourself, FailedWrites, FailRecord,
        FailChecked, FailInherit
<1> SUFFICES ASSUME OneSession PROVE Spec => NeedsKept
  OBVIOUS
<1>2. RecordsInv /\ [Next]_vars => [Keeps]_vars
  BY <1>1
<1>3. Spec => [](TypeOK /\ YoursApart /\ RecordsInv)
  BY RecordsHold
<1> QED
  BY <1>2, <1>3, PTL DEF Spec, NeedsKept
=============================================================================
