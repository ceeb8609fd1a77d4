------------------------------- MODULE Guest -------------------------------
(***************************************************************************)
(* What andronix does inside a distro (internal/app/guest.go): the setup   *)
(* of the user at the first boot, and vncserver-start and vncserver-stop   *)
(* on one display.  Every command may fail or be killed between any two    *)
(* files, a write may fail, and several sessions share the distro's files. *)
(* The VNC commands are the default user's.  A setup writes only in the    *)
(* home of a user that does not log in yet, so the two kinds do not touch  *)
(* and VNC is interleaved while no setup is at work.                       *)
(***************************************************************************)
CONSTANTS
    People,   \* the user names there are to choose from
    Setups,   \* sessions that run setup-user
    Vncs,     \* runs of vncserver-start, one session each
    VncStop   \* vncserver-stop

ASSUME GuestAssumption ==
    /\ Setups \cap (Vncs \cup {VncStop}) = {} /\ VncStop \notin Vncs
    /\ "none" \notin People \cup Vncs

Displays == Vncs \cup {VncStop}

VARIABLES
    canSudo,    \* the distro's sudo works under proot (DISTRO_SUDO is not none)
    at,         \* where each command is
    name,       \* the name each setup was given
    passwd,     \* the users in /etc/passwd
    password,   \* those with a password
    home,       \* those whose home has the session script
    sudoers,    \* /etc/sudoers.d/andronix
    user,       \* /etc/andronix/user: who logs in
    firstboot,  \* /etc/andronix/firstboot is there
    bare,       \* history: those whose home could not be filled
    unwritten,  \* history: of "sudoers" and "user", the files whose last write failed
    mixed,      \* history: two setups overlapped, or one stopped before user
    xvnc,       \* each start's Xvnc
    session,    \* each start's desktop session
    lock,       \* /tmp/.X1-lock: whose Xvnc it names
    socket,     \* /tmp/.X11-unix/X1
    survivors,  \* history: the Xvncs that outlived the second after their SIGTERM
    crossed     \* history: two VNC commands overlapped

accounts == <<name, passwd, password>>
logins == <<sudoers, user, firstboot, unwritten>>
users == <<accounts, home, bare, logins, mixed>>
display == <<xvnc, session, lock, socket, survivors, crossed>>
vars == <<canSudo, at, users, display>>

Stages == {"idle", "input", "add", "chpasswd", "sudoers", "skel", "user", "firstboot",
           "clear", "home", "spawn", "wait", "check", "term", "remove"}

TypeOK ==
    /\ at \in [Setups \cup Displays -> Stages]
    /\ name \in [Setups -> People \cup {"none"}]
    /\ passwd \subseteq People /\ {password, home, bare} \subseteq SUBSET passwd
    /\ canSudo \in BOOLEAN /\ unwritten \subseteq {"sudoers", "user"} /\ survivors \subseteq Vncs
    /\ sudoers \in People \cup {"none"} /\ user \in People \cup {"none"}
    /\ firstboot \in BOOLEAN /\ mixed \in BOOLEAN /\ crossed \in BOOLEAN
    /\ xvnc \in [Vncs -> {"none", "starting", "alive", "dead"}]
    /\ session \in [Vncs -> {"none", "alive", "dead"}]
    /\ lock \in Vncs \cup {"none"} /\ socket \in Vncs \cup {"none"}

Init ==
    /\ at = [c \in Setups \cup Displays |-> "idle"]
    /\ name = [s \in Setups |-> "none"]
    /\ canSudo \in BOOLEAN
    /\ passwd = {} /\ password = {} /\ home = {} /\ bare = {} /\ unwritten = {}
    /\ sudoers = "none" /\ user = "none" /\ firstboot = TRUE /\ mixed = FALSE
    /\ xvnc = [v \in Vncs |-> "none"] /\ session = [v \in Vncs |-> "none"]
    /\ lock = "none" /\ socket = "none" /\ survivors = {} /\ crossed = FALSE

Goes(c, stage) == at' = [at EXCEPT ![c] = stage]

AtSetup(s) == at[s] \notin {"idle", "input"}

-----------------------------------------------------------------------------
(* SetupUser and createUser.                                               *)

\* Welcome at the first boot, or setup-user typed by hand at any time.
StartSetup(s) ==
    /\ at[s] = "idle" /\ Goes(s, "input")
    /\ UNCHANGED <<users, display>>

\* The name is checked when it is typed; that of setup-user --user is not.
Input(s) ==
    /\ at[s] = "input" /\ Goes(s, "add")
    /\ \E p \in People : name' = [name EXCEPT ![s] = p]
    /\ mixed' = (mixed \/ \E t \in Setups \ {s} : AtSetup(t))
    /\ UNCHANGED <<passwd, password, home, bare, logins, display>>

\* useradd -m: it refuses a user that is there.  On some kernels it copies
\* only the top of /etc/skel.
AddUser(s) ==
    /\ at[s] = "add" /\ name[s] \notin passwd
    /\ Goes(s, "chpasswd")
    /\ passwd' = passwd \cup {name[s]}
    /\ home' \in {home, home \cup {name[s]}}
    /\ UNCHANGED <<name, password, bare, logins, mixed, display>>

SetPassword(s) ==
    /\ at[s] = "chpasswd" /\ Goes(s, "sudoers")
    /\ password' = password \cup {name[s]}
    /\ UNCHANGED <<name, passwd, home, bare, logins, mixed, display>>

\* os.WriteFile, whose error nobody looks at: the file has the new name, the
\* old one, or nothing.
Written(was, new, fails) == IF fails THEN {was, "none"} ELSE {new}

Notes(file, fails) ==
    unwritten' = (IF fails THEN unwritten \cup {file} ELSE unwritten \ {file})

\* Mutant: the file is written when there is none.
WriteSudoersOnce(s) ==
    /\ at[s] = "sudoers" /\ Goes(s, "skel")
    /\ sudoers' = (IF canSudo /\ sudoers = "none" THEN name[s] ELSE sudoers)
    /\ UNCHANGED <<accounts, home, bare, user, firstboot, unwritten, mixed, display>>

\* No file where sudo does not work.
WriteSudoers(s) ==
    /\ at[s] = "sudoers" /\ Goes(s, "skel")
    /\ \/ canSudo /\ \E fails \in BOOLEAN :
              sudoers' \in Written(sudoers, name[s], fails) /\ Notes("sudoers", fails)
       \/ ~canSudo /\ UNCHANGED <<sudoers, unwritten>>
    /\ UNCHANGED <<accounts, home, bare, user, firstboot, mixed, display>>

\* Mutant: the home is left as useradd made it.
SyncSkelNot(s) ==
    /\ at[s] = "skel" /\ Goes(s, "user")
    /\ UNCHANGED <<users, display>>

\* syncSkel fills in what useradd left out, unless the user is not found or
\* a file cannot be written: both are passed over.
SyncSkel(s) ==
    /\ at[s] = "skel" /\ Goes(s, "user")
    /\ \/ home' = home \cup {name[s]} /\ UNCHANGED bare
       \/ name[s] \notin home /\ bare' = bare \cup {name[s]} /\ UNCHANGED home
    /\ UNCHANGED <<accounts, logins, mixed, display>>

WriteUser(s) ==
    /\ at[s] = "user" /\ Goes(s, "firstboot")
    /\ \E fails \in BOOLEAN : user' \in Written(user, name[s], fails) /\ Notes("user", fails)
    /\ UNCHANGED <<accounts, home, bare, sudoers, firstboot, mixed, display>>

\* Whatever has become of the user's file.
RemoveFirstboot(s) ==
    /\ at[s] = "firstboot" /\ Goes(s, "idle")
    /\ firstboot' = FALSE /\ name' = [name EXCEPT ![s] = "none"]
    /\ UNCHANGED <<passwd, password, home, bare, sudoers, user, unwritten, mixed, display>>

\* An error return (a name that is taken, chpasswd) or a kill: what has been
\* done by then stays.
SetupStops(s) ==
    /\ at[s] # "idle" /\ Goes(s, "idle")
    /\ name' = [name EXCEPT ![s] = "none"]
    /\ mixed' = (mixed \/ at[s] \in {"skel", "user"})
    /\ UNCHANGED <<passwd, password, home, bare, logins, display>>

\* A kill inside os.WriteFile, which empties a file before it writes it.
CutFile(s) ==
    /\ \/ at[s] = "sudoers" /\ canSudo /\ sudoers' = "none" /\ UNCHANGED <<user, mixed>>
       \/ at[s] = "user" /\ user' = "none" /\ mixed' = TRUE /\ UNCHANGED sudoers
    /\ Goes(s, "idle") /\ name' = [name EXCEPT ![s] = "none"]
    /\ unwritten' = unwritten \cup {at[s]}
    /\ UNCHANGED <<passwd, password, home, bare, firstboot, display>>

-----------------------------------------------------------------------------
(* VNCStart.                                                               *)

Calm == user # "none" /\ \A s \in Setups : at[s] = "idle"

\* pidAlive: the lock names a process that lives, and that is a VNC server.
PidAlive == lock # "none" /\ xvnc[lock] = "alive"

Overlaps(c) == crossed' = (crossed \/ \E d \in Displays \ {c} : at[d] # "idle")

\* Mutant: a lock is not looked at.
CheckDisplayNot(v) ==
    /\ Calm /\ at[v] = "idle" /\ xvnc[v] = "none"
    /\ Goes(v, "clear") /\ Overlaps(v)
    /\ UNCHANGED <<users, xvnc, session, lock, socket, survivors>>

\* A desktop that runs on the display ends the command.
CheckDisplay(v) ==
    /\ Calm /\ at[v] = "idle" /\ xvnc[v] = "none" /\ ~PidAlive
    /\ Goes(v, "clear") /\ Overlaps(v)
    /\ UNCHANGED <<users, xvnc, session, lock, socket, survivors>>

\* What a killed server left would keep the new one from the display.
ClearDisplay(v) ==
    /\ at[v] = "clear" /\ Goes(v, "home")
    /\ lock' = "none" /\ socket' = "none"
    /\ UNCHANGED <<users, xvnc, session, survivors, crossed>>

\* The size, the session script that is filled in when it is missing, and
\* the password.  A script that was cut is there, and stays as it is.
FillHome(v) ==
    /\ at[v] = "home" /\ Goes(v, "spawn")
    /\ \/ home' = home \cup {user}
       \/ user \notin home /\ UNCHANGED home
    /\ UNCHANGED <<accounts, bare, logins, mixed, display>>

\* A question that gets no answer ends the command.
GiveUp(v) ==
    /\ at[v] = "home" /\ Goes(v, "idle")
    /\ UNCHANGED <<users, display>>

StartXvnc(v) ==
    /\ at[v] = "spawn" /\ Goes(v, "wait")
    /\ xvnc' = [xvnc EXCEPT ![v] = "starting"]
    /\ UNCHANGED <<users, session, lock, socket, survivors, crossed>>

\* There is a socket, whosever it is: the session starts on it.  Without a
\* script the command fails, and leaves Xvnc as it is.
StartSession(v) ==
    /\ at[v] = "wait" /\ socket # "none"
    /\ IF user \in home THEN Goes(v, "check") /\ session' = [session EXCEPT ![v] = "alive"]
       ELSE Goes(v, "idle") /\ UNCHANGED session
    /\ UNCHANGED <<users, xvnc, lock, socket, survivors, crossed>>

\* Ten seconds without a socket: Xvnc is killed.
NoSocket(v) ==
    /\ at[v] = "wait" /\ socket = "none" /\ Goes(v, "idle")
    /\ xvnc' = [xvnc EXCEPT ![v] = "dead"]
    /\ UNCHANGED <<users, session, lock, socket, survivors, crossed>>

\* sessionDied: what it finds is only told.
CheckSession(v) ==
    /\ at[v] = "check" /\ Goes(v, "idle")
    /\ UNCHANGED <<users, display>>

-----------------------------------------------------------------------------
(* VNCStop, and what happens to the processes.                             *)

StopVNC ==
    /\ Calm /\ at[VncStop] = "idle"
    /\ Goes(VncStop, IF PidAlive THEN "term" ELSE "remove") /\ Overlaps(VncStop)
    /\ UNCHANGED <<users, xvnc, session, lock, socket, survivors>>

\* The pid that the lock names by now.  A second after SIGTERM the stop goes
\* on, and does not look whether Xvnc has ended.  (vncserver -kill, which is
\* tried first, knows only the servers that the wrapper started.)
TermXvnc ==
    /\ at[VncStop] = "term" /\ Goes(VncStop, "remove")
    /\ \/ PidAlive /\ xvnc' = [xvnc EXCEPT ![lock] = "dead"] /\ UNCHANGED survivors
       \/ PidAlive /\ survivors' = survivors \cup {lock} /\ UNCHANGED xvnc
       \/ ~PidAlive /\ UNCHANGED <<xvnc, survivors>>
    /\ UNCHANGED <<users, session, lock, socket, crossed>>

RemoveFiles ==
    /\ at[VncStop] = "remove" /\ Goes(VncStop, "idle")
    /\ lock' = "none" /\ socket' = "none"
    /\ UNCHANGED <<users, xvnc, session, survivors, crossed>>

\* Xvnc takes the display when no other serves its port.
XvncUp(v) ==
    /\ xvnc[v] = "starting"
    /\ IF \E w \in Vncs : xvnc[w] = "alive"
       THEN xvnc' = [xvnc EXCEPT ![v] = "dead"] /\ UNCHANGED <<lock, socket>>
       ELSE xvnc' = [xvnc EXCEPT ![v] = "alive"] /\ lock' = v /\ socket' = v
    /\ UNCHANGED <<at, users, session, survivors, crossed>>

\* On its own, or killed by Android, or late after SIGTERM.
XvncEnds(v) ==
    /\ xvnc[v] = "alive" /\ xvnc' = [xvnc EXCEPT ![v] = "dead"]
    /\ UNCHANGED <<at, users, session, lock, socket, survivors, crossed>>

SessionEnds(v) ==
    /\ session[v] = "alive" /\ session' = [session EXCEPT ![v] = "dead"]
    /\ UNCHANGED <<at, users, xvnc, lock, socket, survivors, crossed>>

\* The Termux session is closed: proot ends all that was started in it, and
\* the files stay.
TermuxCloses(v) ==
    /\ xvnc[v] # "none" \/ at[v] # "idle"
    /\ Goes(v, "idle")
    /\ xvnc' = [xvnc EXCEPT ![v] = "dead"]
    /\ session' = [session EXCEPT ![v] = IF @ = "alive" THEN "dead" ELSE @]
    /\ UNCHANGED <<users, lock, socket, survivors, crossed>>

-----------------------------------------------------------------------------
SetupStep(s) ==
    \/ StartSetup(s) \/ Input(s) \/ AddUser(s) \/ SetPassword(s) \/ WriteSudoers(s)
    \/ SyncSkel(s) \/ WriteUser(s) \/ RemoveFirstboot(s) \/ SetupStops(s) \/ CutFile(s)

VncStep(v) ==
    \/ CheckDisplay(v) \/ ClearDisplay(v) \/ FillHome(v) \/ GiveUp(v) \/ StartXvnc(v)
    \/ StartSession(v) \/ NoSocket(v) \/ CheckSession(v)
    \/ XvncUp(v) \/ XvncEnds(v) \/ SessionEnds(v) \/ TermuxCloses(v)

StopStep == StopVNC \/ TermXvnc \/ RemoveFiles

Quiet == \A d \in Displays : at[d] = "idle"

Next ==
    /\ \/ Quiet /\ \E s \in Setups : SetupStep(s)
       \/ \E v \in Vncs : VncStep(v)
       \/ StopStep
    /\ UNCHANGED canSudo

Spec == Init /\ [][Next]_vars

-----------------------------------------------------------------------------
(* Properties.                                                             *)

\* Whoever andronix logs in is a user that is there, has a password and the
\* session script, and the first boot is over only when there is one: a
\* setup that is killed, or meets another one, leaves root or a whole user.
\* Left out by name: a home that could not be filled (bare), and a user's
\* file that could not be written, for which the first boot is over, too.
SetUp ==
    /\ user # "none" => user \in passwd \cap password \cap (home \cup bare)
    /\ ~firstboot => user # "none" \/ "user" \in unwritten

\* The user that logs in is the one that sudo lets in, once no setup is at
\* work; where sudo does not work, it lets in nobody.  Known to part them:
\* two setups at once, a second setup that stops between the two files
\* (mixed), and a write of one of them that failed.
SudoIsUsers ==
    (~mixed /\ unwritten = {} /\ \A s \in Setups : ~AtSetup(s)) =>
        sudoers = IF canSudo THEN user ELSE "none"

\* vncserver-stop can end a running Xvnc: the lock names it, whatever was
\* killed and left its files before.  Known to lose the lock: two commands
\* that overlap on the display, and a stop whose SIGTERM took longer than its
\* wait.
Stoppable ==
    crossed \/ \A v \in Vncs \ survivors : xvnc[v] = "alive" => lock = v
=============================================================================
