----------------------------- MODULE GuestProofs -----------------------------
(***************************************************************************)
(* Proofs about Guest, for any names and any number of sessions: the user  *)
(* that logs in, who sudo lets in, and the lock of the display.            *)
(***************************************************************************)
EXTENDS Guest, TLAPS

\* What a setup has done by the stage it is at; the display's commands run for
\* a user.
UserInv ==
    /\ SetUp
    /\ \A s \in Setups :
          /\ AtSetup(s) => name[s] \in People
          /\ at[s] \in {"chpasswd", "sudoers", "skel", "user", "firstboot"} => name[s] \in passwd
          /\ at[s] \in {"sudoers", "skel", "user", "firstboot"} => name[s] \in password
          /\ at[s] \in {"user", "firstboot"} => name[s] \in home \cup bare
          /\ at[s] = "firstboot" => user # "none" \/ "user" \in unwritten
    /\ \A d \in Displays : at[d] # "idle" => user # "none"

Sudoer(p) == IF canSudo THEN p ELSE "none"

\* One setup at a time, and between its two files sudo is ahead of the login,
\* when it could be written.
SudoInv ==
    /\ ~canSudo => sudoers = "none"
    /\ ~mixed =>
        /\ \A s, t \in Setups : AtSetup(s) /\ AtSetup(t) => s = t
        /\ "sudoers" \notin unwritten =>
              \A s \in Setups : at[s] \in {"skel", "user"} => sudoers = Sudoer(name[s])
        /\ unwritten = {} /\ (\A s \in Setups : at[s] \notin {"skel", "user"}) => sudoers = Sudoer(user)

\* No Xvnc is alive but those that a stop left behind.
NoneAlive == \A w \in Vncs \ survivors : xvnc[w] # "alive"

\* One command at a time is on the display; it clears the files of nobody who
\* lives, and its own Xvnc is the next to take them.
DisplayInv ==
    ~crossed =>
        /\ \A c, d \in Displays : at[c] # "idle" /\ at[d] # "idle" => c = d
        /\ \A v \in Vncs \ survivors : xvnc[v] = "alive" => lock = v
        /\ \A v \in Vncs : xvnc[v] = "starting" => at[v] = "wait" /\ socket = "none" /\ NoneAlive
        /\ \A v \in Vncs : at[v] \in {"clear", "home", "spawn"} => NoneAlive
        /\ \A v \in Vncs : at[v] \in {"home", "spawn"} => socket = "none"
        /\ at[VncStop] = "remove" => NoneAlive

IInv == TypeOK /\ UserInv /\ SudoInv /\ DisplayInv

-----------------------------------------------------------------------------
(* The inductive invariant, action by action.                              *)

LEMMA InitIInv == Init => IInv
BY GuestAssumption
DEF Init, IInv, TypeOK, Stages, UserInv, SetUp, AtSetup, SudoInv, Sudoer, DisplayInv, NoneAlive,
    Displays

LEMMA StartSetupStep == ASSUME IInv, UNCHANGED canSudo, Quiet, NEW s \in Setups, StartSetup(s) PROVE IInv'
<1> USE GuestAssumption DEF IInv, StartSetup, Goes, TypeOK, Stages, users, accounts, logins, display
<1>1. TypeOK'
    BY DEF UserInv, AtSetup
<1>2. UserInv'
    BY DEF UserInv, SetUp, AtSetup, Quiet, Displays
<1>3. SudoInv'
    BY DEF SudoInv, Sudoer, AtSetup
<1>4. DisplayInv'
    BY DEF DisplayInv, NoneAlive, Displays
<1> QED
    BY <1>1, <1>2, <1>3, <1>4

LEMMA InputStep == ASSUME IInv, UNCHANGED canSudo, Quiet, NEW s \in Setups, Input(s) PROVE IInv'
<1> USE GuestAssumption DEF IInv, Input, Goes, TypeOK, Stages, users, accounts, logins, display
<1>1. TypeOK'
    BY DEF UserInv, AtSetup
<1>2. UserInv'
    BY DEF UserInv, SetUp, AtSetup, Quiet, Displays
<1>3. SudoInv'
    BY DEF SudoInv, Sudoer, AtSetup
<1>4. DisplayInv'
    BY DEF DisplayInv, NoneAlive, Displays
<1> QED
    BY <1>1, <1>2, <1>3, <1>4

LEMMA AddUserStep == ASSUME IInv, UNCHANGED canSudo, Quiet, NEW s \in Setups, AddUser(s) PROVE IInv'
<1> USE GuestAssumption DEF IInv, AddUser, Goes, TypeOK, Stages, users, accounts, logins, display
<1>1. TypeOK'
    BY DEF UserInv, AtSetup
<1>2. UserInv'
    BY DEF UserInv, SetUp, AtSetup, Quiet, Displays
<1>3. SudoInv'
    BY DEF SudoInv, Sudoer, AtSetup
<1>4. DisplayInv'
    BY DEF DisplayInv, NoneAlive, Displays
<1> QED
    BY <1>1, <1>2, <1>3, <1>4

LEMMA SetPasswordStep == ASSUME IInv, UNCHANGED canSudo, Quiet, NEW s \in Setups, SetPassword(s) PROVE IInv'
<1> USE GuestAssumption DEF IInv, SetPassword, Goes, TypeOK, Stages, users, accounts, logins, display
<1>1. TypeOK'
    BY DEF UserInv, AtSetup
<1>2. UserInv'
    BY DEF UserInv, SetUp, AtSetup, Quiet, Displays
<1>3. SudoInv'
    BY DEF SudoInv, Sudoer, AtSetup
<1>4. DisplayInv'
    BY DEF DisplayInv, NoneAlive, Displays
<1> QED
    BY <1>1, <1>2, <1>3, <1>4

LEMMA WriteSudoersStep == ASSUME IInv, UNCHANGED canSudo, Quiet, NEW s \in Setups, WriteSudoers(s) PROVE IInv'
<1> USE GuestAssumption DEF IInv, WriteSudoers, Written, Notes, Goes, TypeOK, Stages, users, accounts, logins, display
<1>1. TypeOK'
    <2>1. sudoers' \in People \cup {"none"}
        <3>1. CASE canSudo
            BY <3>1 DEF UserInv, AtSetup
        <3>2. CASE ~canSudo
            BY <3>2
        <3> QED
            BY <3>1, <3>2
    <2>2. unwritten' \subseteq {"sudoers", "user"}
        OBVIOUS
    <2>3. canSudo' \in BOOLEAN
        OBVIOUS
    <2> QED
        BY <2>1, <2>2, <2>3
<1>2. UserInv'
    BY DEF UserInv, SetUp, AtSetup, Quiet, Displays
<1>3. SudoInv'
    BY DEF SudoInv, Sudoer, AtSetup
<1>4. DisplayInv'
    BY DEF DisplayInv, NoneAlive, Displays
<1> QED
    BY <1>1, <1>2, <1>3, <1>4

LEMMA SyncSkelStep == ASSUME IInv, UNCHANGED canSudo, Quiet, NEW s \in Setups, SyncSkel(s) PROVE IInv'
<1> USE GuestAssumption DEF IInv, SyncSkel, Goes, TypeOK, Stages, users, accounts, logins, display
<1>1. TypeOK'
    BY DEF UserInv, AtSetup
<1>2. UserInv'
    BY DEF UserInv, SetUp, AtSetup, Quiet, Displays
<1>3. SudoInv'
    BY DEF SudoInv, Sudoer, AtSetup
<1>4. DisplayInv'
    BY DEF DisplayInv, NoneAlive, Displays
<1> QED
    BY <1>1, <1>2, <1>3, <1>4

LEMMA WriteUserStep == ASSUME IInv, UNCHANGED canSudo, Quiet, NEW s \in Setups, WriteUser(s) PROVE IInv'
<1> USE GuestAssumption DEF IInv, WriteUser, Written, Notes, Goes, TypeOK, Stages, users, accounts, logins, display
<1>1. TypeOK'
    BY DEF UserInv, AtSetup
<1>2. UserInv'
    BY DEF UserInv, SetUp, AtSetup, Quiet, Displays
<1>3. SudoInv'
    BY DEF SudoInv, Sudoer, AtSetup
<1>4. DisplayInv'
    BY DEF DisplayInv, NoneAlive, Displays
<1> QED
    BY <1>1, <1>2, <1>3, <1>4

LEMMA RemoveFirstbootStep == ASSUME IInv, UNCHANGED canSudo, Quiet, NEW s \in Setups, RemoveFirstboot(s) PROVE IInv'
<1> USE GuestAssumption DEF IInv, RemoveFirstboot, Goes, TypeOK, Stages, users, accounts, logins, display
<1>1. TypeOK'
    BY DEF UserInv, AtSetup
<1>2. UserInv'
    BY DEF UserInv, SetUp, AtSetup, Quiet, Displays
<1>3. SudoInv'
    BY DEF SudoInv, Sudoer, AtSetup
<1>4. DisplayInv'
    BY DEF DisplayInv, NoneAlive, Displays
<1> QED
    BY <1>1, <1>2, <1>3, <1>4

LEMMA SetupStopsStep == ASSUME IInv, UNCHANGED canSudo, Quiet, NEW s \in Setups, SetupStops(s) PROVE IInv'
<1> USE GuestAssumption DEF IInv, SetupStops, Goes, TypeOK, Stages, users, accounts, logins, display
<1>1. TypeOK'
    BY DEF UserInv, AtSetup
<1>2. UserInv'
    BY DEF UserInv, SetUp, AtSetup, Quiet, Displays
<1>3. SudoInv'
    BY DEF SudoInv, Sudoer, AtSetup
<1>4. DisplayInv'
    BY DEF DisplayInv, NoneAlive, Displays
<1> QED
    BY <1>1, <1>2, <1>3, <1>4

LEMMA CutFileStep == ASSUME IInv, UNCHANGED canSudo, Quiet, NEW s \in Setups, CutFile(s) PROVE IInv'
<1> USE GuestAssumption DEF IInv, CutFile, Goes, TypeOK, Stages, users, accounts, logins, display
<1>1. TypeOK'
    BY DEF UserInv, AtSetup
<1>2. UserInv'
    BY DEF UserInv, SetUp, AtSetup, Quiet, Displays
<1>3. SudoInv'
    BY DEF SudoInv, Sudoer, AtSetup
<1>4. DisplayInv'
    BY DEF DisplayInv, NoneAlive, Displays
<1> QED
    BY <1>1, <1>2, <1>3, <1>4

LEMMA CheckDisplayStep == ASSUME IInv, UNCHANGED canSudo, NEW v \in Vncs, CheckDisplay(v) PROVE IInv'
<1> USE GuestAssumption DEF IInv, CheckDisplay, Goes, TypeOK, Stages, users, accounts, logins, display, Displays
<1>1. TypeOK'
    BY DEF UserInv, SetUp, PidAlive, Overlaps
<1>2. UserInv'
    BY DEF UserInv, SetUp, AtSetup, Calm
<1>3. SudoInv'
    BY DEF SudoInv, Sudoer, AtSetup
<1>4. DisplayInv'
    <2> SUFFICES ASSUME ~crossed' PROVE DisplayInv'
        BY DEF DisplayInv
    <2>1. ~crossed /\ \A d \in Displays \ {v} : at[d] = "idle"
        BY DEF Overlaps
    <2>2. at'[v] = "clear" /\ \A d \in Displays \ {v} : at'[d] = "idle"
        BY <2>1
    <2>3. ~PidAlive => NoneAlive
        BY <2>1 DEF PidAlive, NoneAlive, DisplayInv
    <2>4. \A w \in Vncs : xvnc[w] # "starting"
        BY <2>1 DEF DisplayInv
    <2>5. NoneAlive' = NoneAlive
        BY DEF NoneAlive
    <2> QED
        BY <2>1, <2>2, <2>3, <2>4, <2>5 DEF DisplayInv
<1> QED
    BY <1>1, <1>2, <1>3, <1>4

LEMMA ClearDisplayStep == ASSUME IInv, UNCHANGED canSudo, NEW v \in Vncs, ClearDisplay(v) PROVE IInv'
<1> USE GuestAssumption DEF IInv, ClearDisplay, Goes, TypeOK, Stages, users, accounts, logins, display, Displays
<1>1. TypeOK'
    BY DEF UserInv, SetUp, PidAlive, Overlaps
<1>2. UserInv'
    BY DEF UserInv, SetUp, AtSetup, Calm
<1>3. SudoInv'
    BY DEF SudoInv, Sudoer, AtSetup
<1>4. DisplayInv'
    BY DEF DisplayInv, NoneAlive, Overlaps, PidAlive
<1> QED
    BY <1>1, <1>2, <1>3, <1>4

LEMMA FillHomeStep == ASSUME IInv, UNCHANGED canSudo, NEW v \in Vncs, FillHome(v) PROVE IInv'
<1> USE GuestAssumption DEF IInv, FillHome, Goes, TypeOK, Stages, users, accounts, logins, display, Displays
<1>1. TypeOK'
    BY DEF UserInv, SetUp, PidAlive, Overlaps
<1>2. UserInv'
    BY DEF UserInv, SetUp, AtSetup, Calm
<1>3. SudoInv'
    BY DEF SudoInv, Sudoer, AtSetup
<1>4. DisplayInv'
    BY DEF DisplayInv, NoneAlive, Overlaps, PidAlive
<1> QED
    BY <1>1, <1>2, <1>3, <1>4

LEMMA GiveUpStep == ASSUME IInv, UNCHANGED canSudo, NEW v \in Vncs, GiveUp(v) PROVE IInv'
<1> USE GuestAssumption DEF IInv, GiveUp, Goes, TypeOK, Stages, users, accounts, logins, display, Displays
<1>1. TypeOK'
    BY DEF UserInv, SetUp, PidAlive, Overlaps
<1>2. UserInv'
    BY DEF UserInv, SetUp, AtSetup, Calm
<1>3. SudoInv'
    BY DEF SudoInv, Sudoer, AtSetup
<1>4. DisplayInv'
    BY DEF DisplayInv, NoneAlive, Overlaps, PidAlive
<1> QED
    BY <1>1, <1>2, <1>3, <1>4

LEMMA StartXvncStep == ASSUME IInv, UNCHANGED canSudo, NEW v \in Vncs, StartXvnc(v) PROVE IInv'
<1> USE GuestAssumption DEF IInv, StartXvnc, Goes, TypeOK, Stages, users, accounts, logins, display, Displays
<1>1. TypeOK'
    BY DEF UserInv, SetUp, PidAlive, Overlaps
<1>2. UserInv'
    BY DEF UserInv, SetUp, AtSetup, Calm
<1>3. SudoInv'
    BY DEF SudoInv, Sudoer, AtSetup
<1>4. DisplayInv'
    BY DEF DisplayInv, NoneAlive, Overlaps, PidAlive
<1> QED
    BY <1>1, <1>2, <1>3, <1>4

LEMMA StartSessionStep == ASSUME IInv, UNCHANGED canSudo, NEW v \in Vncs, StartSession(v) PROVE IInv'
<1> USE GuestAssumption DEF IInv, StartSession, Goes, TypeOK, Stages, users, accounts, logins, display, Displays
<1>1. TypeOK'
    BY DEF UserInv, SetUp, PidAlive, Overlaps
<1>2. UserInv'
    BY DEF UserInv, SetUp, AtSetup, Calm
<1>3. SudoInv'
    BY DEF SudoInv, Sudoer, AtSetup
<1>4. DisplayInv'
    BY DEF DisplayInv, NoneAlive, Overlaps, PidAlive
<1> QED
    BY <1>1, <1>2, <1>3, <1>4

LEMMA NoSocketStep == ASSUME IInv, UNCHANGED canSudo, NEW v \in Vncs, NoSocket(v) PROVE IInv'
<1> USE GuestAssumption DEF IInv, NoSocket, Goes, TypeOK, Stages, users, accounts, logins, display, Displays
<1>1. TypeOK'
    BY DEF UserInv, SetUp, PidAlive, Overlaps
<1>2. UserInv'
    BY DEF UserInv, SetUp, AtSetup, Calm
<1>3. SudoInv'
    BY DEF SudoInv, Sudoer, AtSetup
<1>4. DisplayInv'
    BY DEF DisplayInv, NoneAlive, Overlaps, PidAlive
<1> QED
    BY <1>1, <1>2, <1>3, <1>4

LEMMA CheckSessionStep == ASSUME IInv, UNCHANGED canSudo, NEW v \in Vncs, CheckSession(v) PROVE IInv'
<1> USE GuestAssumption DEF IInv, CheckSession, Goes, TypeOK, Stages, users, accounts, logins, display, Displays
<1>1. TypeOK'
    BY DEF UserInv, SetUp, PidAlive, Overlaps
<1>2. UserInv'
    BY DEF UserInv, SetUp, AtSetup, Calm
<1>3. SudoInv'
    BY DEF SudoInv, Sudoer, AtSetup
<1>4. DisplayInv'
    BY DEF DisplayInv, NoneAlive, Overlaps, PidAlive
<1> QED
    BY <1>1, <1>2, <1>3, <1>4

LEMMA XvncUpStep == ASSUME IInv, UNCHANGED canSudo, NEW v \in Vncs, XvncUp(v) PROVE IInv'
<1> USE GuestAssumption DEF IInv, XvncUp, Goes, TypeOK, Stages, users, accounts, logins, display, Displays
<1>1. TypeOK'
    BY DEF UserInv, SetUp, PidAlive, Overlaps
<1>2. UserInv'
    BY DEF UserInv, SetUp, AtSetup, Calm
<1>3. SudoInv'
    BY DEF SudoInv, Sudoer, AtSetup
<1>4. DisplayInv'
    BY DEF DisplayInv, NoneAlive, Overlaps, PidAlive
<1> QED
    BY <1>1, <1>2, <1>3, <1>4

LEMMA XvncEndsStep == ASSUME IInv, UNCHANGED canSudo, NEW v \in Vncs, XvncEnds(v) PROVE IInv'
<1> USE GuestAssumption DEF IInv, XvncEnds, Goes, TypeOK, Stages, users, accounts, logins, display, Displays
<1>1. TypeOK'
    BY DEF UserInv, SetUp, PidAlive, Overlaps
<1>2. UserInv'
    BY DEF UserInv, SetUp, AtSetup, Calm
<1>3. SudoInv'
    BY DEF SudoInv, Sudoer, AtSetup
<1>4. DisplayInv'
    BY DEF DisplayInv, NoneAlive, Overlaps, PidAlive
<1> QED
    BY <1>1, <1>2, <1>3, <1>4

LEMMA SessionEndsStep == ASSUME IInv, UNCHANGED canSudo, NEW v \in Vncs, SessionEnds(v) PROVE IInv'
<1> USE GuestAssumption DEF IInv, SessionEnds, Goes, TypeOK, Stages, users, accounts, logins, display, Displays
<1>1. TypeOK'
    BY DEF UserInv, SetUp, PidAlive, Overlaps
<1>2. UserInv'
    BY DEF UserInv, SetUp, AtSetup, Calm
<1>3. SudoInv'
    BY DEF SudoInv, Sudoer, AtSetup
<1>4. DisplayInv'
    BY DEF DisplayInv, NoneAlive, Overlaps, PidAlive
<1> QED
    BY <1>1, <1>2, <1>3, <1>4

LEMMA TermuxClosesStep == ASSUME IInv, UNCHANGED canSudo, NEW v \in Vncs, TermuxCloses(v) PROVE IInv'
<1> USE GuestAssumption DEF IInv, TermuxCloses, Goes, TypeOK, Stages, users, accounts, logins, display, Displays
<1>1. TypeOK'
    BY DEF UserInv, SetUp, PidAlive, Overlaps
<1>2. UserInv'
    BY DEF UserInv, SetUp, AtSetup, Calm
<1>3. SudoInv'
    BY DEF SudoInv, Sudoer, AtSetup
<1>4. DisplayInv'
    BY DEF DisplayInv, NoneAlive, Overlaps, PidAlive
<1> QED
    BY <1>1, <1>2, <1>3, <1>4

LEMMA StopVNCStep == ASSUME IInv, UNCHANGED canSudo, StopVNC PROVE IInv'
<1> USE GuestAssumption DEF IInv, StopVNC, Goes, TypeOK, Stages, users, accounts, logins, display, Displays
<1>1. TypeOK'
    BY DEF UserInv, SetUp, PidAlive, Overlaps
<1>2. UserInv'
    BY DEF UserInv, SetUp, AtSetup, Calm
<1>3. SudoInv'
    BY DEF SudoInv, Sudoer, AtSetup
<1>4. DisplayInv'
    <2> SUFFICES ASSUME ~crossed' PROVE DisplayInv'
        BY DEF DisplayInv
    <2>1. ~crossed /\ \A d \in Displays \ {VncStop} : at[d] = "idle"
        BY DEF Overlaps
    <2>2. /\ at'[VncStop] \in {"term", "remove"} /\ (at'[VncStop] = "remove" => ~PidAlive)
          /\ \A d \in Displays \ {VncStop} : at'[d] = "idle"
        BY <2>1
    <2>3. ~PidAlive => NoneAlive
        BY <2>1 DEF PidAlive, NoneAlive, DisplayInv
    <2>4. \A w \in Vncs : xvnc[w] # "starting"
        BY <2>1 DEF DisplayInv
    <2>5. NoneAlive' = NoneAlive
        BY DEF NoneAlive
    <2> QED
        BY <2>1, <2>2, <2>3, <2>4, <2>5 DEF DisplayInv
<1> QED
    BY <1>1, <1>2, <1>3, <1>4

LEMMA TermXvncStep == ASSUME IInv, UNCHANGED canSudo, TermXvnc PROVE IInv'
<1> USE GuestAssumption DEF IInv, TermXvnc, Goes, TypeOK, Stages, users, accounts, logins, display, Displays
<1>1. TypeOK'
    BY DEF UserInv, SetUp, PidAlive, Overlaps
<1>2. UserInv'
    BY DEF UserInv, SetUp, AtSetup, Calm
<1>3. SudoInv'
    BY DEF SudoInv, Sudoer, AtSetup
<1>4. DisplayInv'
    BY DEF DisplayInv, NoneAlive, Overlaps, PidAlive
<1> QED
    BY <1>1, <1>2, <1>3, <1>4

LEMMA RemoveFilesStep == ASSUME IInv, UNCHANGED canSudo, RemoveFiles PROVE IInv'
<1> USE GuestAssumption DEF IInv, RemoveFiles, Goes, TypeOK, Stages, users, accounts, logins, display, Displays
<1>1. TypeOK'
    BY DEF UserInv, SetUp, PidAlive, Overlaps
<1>2. UserInv'
    BY DEF UserInv, SetUp, AtSetup, Calm
<1>3. SudoInv'
    BY DEF SudoInv, Sudoer, AtSetup
<1>4. DisplayInv'
    BY DEF DisplayInv, NoneAlive, Overlaps, PidAlive
<1> QED
    BY <1>1, <1>2, <1>3, <1>4

LEMMA Inductive == IInv /\ [Next]_vars => IInv'
<1> SUFFICES ASSUME IInv, [Next]_vars PROVE IInv'
    OBVIOUS
<1>1. ASSUME UNCHANGED canSudo, Quiet, NEW s \in Setups, SetupStep(s) PROVE IInv'
    BY <1>1, StartSetupStep, InputStep, AddUserStep, SetPasswordStep, WriteSudoersStep,
       SyncSkelStep, WriteUserStep, RemoveFirstbootStep, SetupStopsStep, CutFileStep
       DEF SetupStep
<1>2. ASSUME UNCHANGED canSudo, NEW v \in Vncs, VncStep(v) PROVE IInv'
    BY <1>2, CheckDisplayStep, ClearDisplayStep, FillHomeStep, GiveUpStep, StartXvncStep,
       StartSessionStep, NoSocketStep, CheckSessionStep, XvncUpStep, XvncEndsStep, SessionEndsStep,
       TermuxClosesStep DEF VncStep
<1>3. CASE UNCHANGED canSudo /\ StopStep
    BY <1>3, StopVNCStep, TermXvncStep, RemoveFilesStep DEF StopStep
<1>4. CASE UNCHANGED vars
    BY <1>4 DEF vars, users, accounts, logins, display, IInv, TypeOK, UserInv, SetUp, AtSetup,
                SudoInv, Sudoer, DisplayInv, NoneAlive
<1> QED
    BY <1>1, <1>2, <1>3, <1>4 DEF Next

-----------------------------------------------------------------------------
(* The theorems.                                                           *)

THEOREM Invariant == Spec => []IInv
BY InitIInv, Inductive, PTL DEF Spec

\* Every file and process of the guest keeps its type.
THEOREM TypeCorrect == Spec => []TypeOK
<1>1. IInv => TypeOK
    BY DEF IInv
<1> QED
    BY <1>1, Invariant, PTL

\* Whoever logs in has an account, a password and the session script, wherever
\* setups were killed or met (guest.go:459-518), but for the writes that failed
\* unseen (guest.go:511, 573-576).
THEOREM LoginIsWhole == Spec => []SetUp
<1>1. IInv => SetUp
    BY DEF IInv, UserInv
<1> QED
    BY <1>1, Invariant, PTL

\* Sudo lets in the user that logs in, or nobody where it does not work, once
\* no setup is at work and both files were written (guest.go:483-511).
THEOREM SudoFollows == Spec => []SudoIsUsers
<1>1. IInv => SudoIsUsers
    BY DEF IInv, SudoInv, Sudoer, SudoIsUsers, AtSetup
<1> QED
    BY <1>1, Invariant, PTL

\* The lock names the Xvnc that runs, unless a stop left it behind, so a stop
\* can end it
\* (guest.go:41-64, 293-329).
THEOREM LockNamesServer == Spec => []Stoppable
<1>1. IInv => Stoppable
    BY DEF IInv, DisplayInv, Stoppable
<1> QED
    BY <1>1, Invariant, PTL
=============================================================================
