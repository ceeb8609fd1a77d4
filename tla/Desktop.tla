------------------------------ MODULE Desktop ------------------------------
(***************************************************************************)
(* andronix desktop and andronix desktop stop (internal/app/x11.go), with  *)
(* the Termux:X11 server they start and stop (internal/termux/x11.go).     *)
(* The commands run in Termux sessions of their own and share the process  *)
(* table, the display's socket and ~/.andronix/x11.state, with no lock.    *)
(* Each desktop has at most one proot session and one server, so both go   *)
(* by its name: a pid is not used again.                                   *)
(***************************************************************************)
EXTENDS Naturals

CONSTANTS
    Runs,   \* the runs of andronix desktop
    Stop,   \* andronix desktop stop
    User,   \* a termux-x11 that the user started
    UserWaits   \* bound: the user starts it only while no command is at work

ASSUME ActorsAssumption == Stop \notin Runs /\ User \notin Runs /\ "none" \notin Runs \cup {User}

Actors == Runs \cup {Stop}
Servers == Runs \cup {User}

VARIABLES
    at,       \* where each command is; "new" and "over": not at work
    session,  \* each run's proot session
    server,   \* each termux-x11
    socket,   \* the server that made the socket of the display
    file,     \* x11.state: the run whose PROOT and SERVER it names
    started,  \* each run's StartedServer
    target,   \* desktop stop: the live run that it read in the file
    doomed,   \* StopX11: the pids it has collected
    raced,    \* history: a start went ahead next to another command
    lost,     \* history: the runs whose record a kill or a full disk took
    left      \* history: the run that a SIGTERM took out of its steps

vars == <<at, session, server, socket, file, started, target, doomed, raced, lost, left>>

Stages == {"new", "server", "spawn", "wait", "open", "record", "shown",
           "interrupt", "remove", "session", "down", "kill", "over", "ended"}

TypeOK ==
    /\ at \in [Actors -> Stages]
    /\ session \in [Runs -> {"none", "alive", "dead"}]
    /\ server \in [Servers -> {"none", "starting", "alive", "dead"}]
    /\ socket \in Servers \cup {"none"}
    /\ file \in Runs \cup {"none"} /\ target \in Runs \cup {"none"}
    /\ started \subseteq Runs /\ lost \subseteq Runs
    /\ doomed \in [Actors -> SUBSET Servers]
    /\ raced \in BOOLEAN /\ left \in Runs \cup {"none"}

Init ==
    /\ at = [a \in Actors |-> IF a = Stop THEN "over" ELSE "new"]
    /\ session = [r \in Runs |-> "none"]
    /\ server = [s \in Servers |-> "none"]
    /\ socket = "none" /\ file = "none" /\ target = "none"
    /\ started = {} /\ lost = {} /\ raced = FALSE /\ left = "none"
    /\ doomed = [a \in Actors |-> {}]

Goes(a, stage) == at' = [at EXCEPT ![a] = stage]

X11Running == socket # "none" /\ server[socket] = "alive"

Busy(a) == at[a] \notin {"new", "over", "ended"}

Starting(r) == at[r] \in {"server", "spawn", "wait", "open", "record"}

\* Mutant: it is andronix that must be alive, not the proot session.
LiveStateOfPid == file # "none" /\ Busy(file)

\* readX11State: there is a file, and the session it names is alive.
LiveState == file # "none" /\ session[file] = "alive"

-----------------------------------------------------------------------------
(* Desktop: up to the session.                                             *)

\* A desktop is on already, or this one cannot be shown: the command ends.
Refuse(r) ==
    /\ at[r] = "new" /\ Goes(r, "over")
    /\ UNCHANGED <<session, server, socket, file, started, target, doomed, raced, lost, left>>

\* No session is on record.
Look(r) ==
    /\ at[r] = "new" /\ ~LiveState
    /\ Goes(r, "server")
    /\ raced' = (raced \/ \E a \in Actors : Busy(a))
    /\ UNCHANGED <<session, server, socket, file, started, target, doomed, lost, left>>

\* The steps fail or are cancelled: the package, the app, Ctrl-C.  What
\* StartX11 has started by then is left as it is.
StepsFail(r) ==
    /\ at[r] \in {"server", "spawn", "wait"} /\ Goes(r, "over")
    /\ UNCHANGED <<session, server, socket, file, started, target, doomed, raced, lost, left>>

\* A server answers: it is used.  If not, one is started.
FindServer(r) ==
    /\ at[r] = "server"
    /\ Goes(r, IF X11Running THEN "open" ELSE "spawn")
    /\ UNCHANGED <<session, server, socket, file, started, target, doomed, raced, lost, left>>

\* StartX11 clears the display and starts termux-x11.
SpawnServer(r) ==
    /\ at[r] = "spawn" /\ Goes(r, "wait")
    /\ socket' = "none"
    /\ server' = [server EXCEPT ![r] = "starting"]
    /\ UNCHANGED <<session, file, started, target, doomed, raced, lost, left>>

\* Mutant: the pid is kept, that this run started the server is not.
ServerAnswersUnowned(r) ==
    /\ at[r] = "wait" /\ X11Running /\ server[r] # "dead"
    /\ Goes(r, "open")
    /\ UNCHANGED <<session, server, socket, file, started, target, doomed, raced, lost, left>>

\* The poll finds a server, which it takes for its own.
ServerAnswers(r) ==
    /\ at[r] = "wait" /\ X11Running /\ server[r] # "dead"
    /\ Goes(r, "open") /\ started' = started \cup {r}
    /\ UNCHANGED <<session, server, socket, file, target, doomed, raced, lost, left>>

\* It exited early, or did not answer for ten seconds and is killed.
ServerFails(r) ==
    /\ at[r] = "wait" /\ (server[r] = "dead" \/ ~X11Running)
    /\ Goes(r, "over")
    /\ server' = [server EXCEPT ![r] = "dead"]
    /\ UNCHANGED <<session, socket, file, started, target, doomed, raced, lost, left>>

\* A SIGTERM in the steps (one, to bound the states): RunSteps answers nil at
\* once, so the desktop goes on to its session.  The step under way still
\* starts its server, and the run may or may not hear of it.
LeaveSteps(r) ==
    /\ at[r] \in {"server", "spawn", "wait"} /\ Goes(r, "open")
    /\ left = "none" /\ left' = r
    /\ \/ UNCHANGED <<server, socket>>
       \/ /\ at[r] = "spawn" \/ (at[r] = "server" /\ ~X11Running)
          /\ socket' = "none"
          /\ server' = [server EXCEPT ![r] = "starting"]
    /\ UNCHANGED <<session, file, started, target, doomed, raced, lost>>

StartSession(r) ==
    /\ at[r] = "open" /\ Goes(r, "record")
    /\ session' = [session EXCEPT ![r] = "alive"]
    /\ UNCHANGED <<server, socket, file, started, target, doomed, raced, lost, left>>

SessionFails(r) ==
    /\ at[r] = "open" /\ Goes(r, "down")
    /\ UNCHANGED <<session, server, socket, file, started, target, doomed, raced, lost, left>>

\* run.write(); that it failed is not looked at.
Record(r) ==
    /\ at[r] = "record" /\ Goes(r, "shown")
    /\ \/ file' = r /\ UNCHANGED lost
       \/ file' = "none" /\ lost' = lost \cup {r}
    /\ UNCHANGED <<session, server, socket, started, target, doomed, raced, left>>

-----------------------------------------------------------------------------
(* Desktop: from the session to the end.                                   *)

\* ctx.Done: stopSession runs beside the wait.
Interrupt(r) ==
    /\ at[r] = "shown" /\ Goes(r, "interrupt")
    /\ UNCHANGED <<session, server, socket, file, started, target, doomed, raced, lost, left>>

\* The session has ended: the state file goes, whichever run it names.
Ended(r) ==
    /\ at[r] \in {"shown", "interrupt"} /\ session[r] = "dead"
    /\ Goes(r, "down") /\ file' = "none"
    /\ UNCHANGED <<session, server, socket, started, target, doomed, raced, lost, left>>

-----------------------------------------------------------------------------
(* desktop stop.                                                           *)

StopLook ==
    /\ ~Busy(Stop) /\ Goes(Stop, "remove")
    /\ target' = (IF LiveState THEN file ELSE "none")
    /\ raced' = (raced \/ \E r \in Runs : Starting(r))
    /\ UNCHANGED <<session, server, socket, file, started, doomed, lost, left>>

StopRemove ==
    /\ at[Stop] = "remove"
    /\ Goes(Stop, IF target = "none" THEN "down" ELSE "session")
    /\ file' = "none"
    /\ UNCHANGED <<session, server, socket, started, target, doomed, raced, lost, left>>

-----------------------------------------------------------------------------
(* What both share: stopSession, and StopX11.                              *)

Session(a) == IF a = Stop THEN target ELSE a

\* Mutant: SIGTERM is all that is sent.
KillSessionAsks(a) ==
    /\ a = Stop /\ at[a] = "session" /\ session[target] = "alive"
    /\ Goes(a, "down")
    /\ UNCHANGED <<session, server, socket, file, started, target, doomed, raced, lost, left>>

\* SIGTERM may not do, SIGKILL does.
KillSession(a) ==
    /\ at[a] \in {"session", "interrupt"} /\ session[Session(a)] = "alive"
    /\ session' = [session EXCEPT ![Session(a)] = "dead"]
    /\ UNCHANGED <<at, server, socket, file, started, target, doomed, raced, lost, left>>

SessionGone ==
    /\ at[Stop] = "session" /\ session[target] # "alive"
    /\ Goes(Stop, "down")
    /\ UNCHANGED <<session, server, socket, file, started, target, doomed, raced, lost, left>>

\* The server that a command knows by its pid.
Known(a) ==
    IF a = Stop THEN {target} \cap started ELSE {a}

\* StopX11 collects every termux-x11 there is, and asks them to end; a run
\* that found a server running leaves it.
StopX11(a) ==
    /\ at[a] = "down"
    /\ \/ /\ a \in started \cup {Stop, left}
          /\ doomed' = [doomed EXCEPT ![a] =
                 {s \in Servers : server[s] = "alive" \/ (s \in Known(a) /\ server[s] = "starting")}]
          /\ Goes(a, "kill")
       \/ a \in Runs \ started /\ Goes(a, "ended") /\ UNCHANGED doomed
    /\ UNCHANGED <<session, server, socket, file, started, target, raced, lost, left>>

\* Those still there are killed, and the socket removed if nothing answers.
KillServers(a) ==
    /\ at[a] = "kill" /\ Goes(a, IF a = Stop THEN "over" ELSE "ended")
    /\ server' = [s \in Servers |-> IF s \in doomed[a] THEN "dead" ELSE server[s]]
    /\ socket' = (IF X11Running /\ socket \notin doomed[a] THEN socket ELSE "none")
    /\ doomed' = [doomed EXCEPT ![a] = {}]
    /\ target' = (IF a = Stop THEN "none" ELSE target)
    /\ UNCHANGED <<session, file, started, raced, lost, left>>

-----------------------------------------------------------------------------
(* The phone: processes come up and end; a command is killed, and what it  *)
(* started goes on without it.                                             *)

\* A server that finds a socket on its display, live or stale, exits.
ServerUp(s) ==
    /\ \/ server[s] = "starting"
       \/ /\ s = User /\ server[s] = "none"
          /\ UserWaits => \A a \in Actors : ~Busy(a)
    /\ IF socket # "none"
       THEN server' = [server EXCEPT ![s] = "dead"] /\ UNCHANGED socket
       ELSE server' = [server EXCEPT ![s] = "alive"] /\ socket' = s
    /\ UNCHANGED <<at, session, file, started, target, doomed, raced, lost, left>>

ServerDies(s) ==
    /\ server[s] = "alive"
    /\ server' = [server EXCEPT ![s] = "dead"]
    /\ UNCHANGED <<at, session, socket, file, started, target, doomed, raced, lost, left>>

SessionEnds(r) ==
    /\ session[r] = "alive"
    /\ session' = [session EXCEPT ![r] = "dead"]
    /\ UNCHANGED <<at, server, socket, file, started, target, doomed, raced, lost, left>>

\* A desktop killed before its record, and a stop killed after it removed
\* one, leave a session that no file names.
Killed(a) ==
    /\ Busy(a) /\ Goes(a, "over")
    /\ lost' = lost \cup (IF at[a] = "record" THEN {a}
                          ELSE IF at[a] = "session" THEN {target} ELSE {})
    /\ doomed' = [doomed EXCEPT ![a] = {}]
    /\ target' = (IF a = Stop THEN "none" ELSE target)
    /\ UNCHANGED <<session, server, socket, file, started, raced, left>>

-----------------------------------------------------------------------------
RunStep(r) ==
    \/ Look(r) \/ FindServer(r) \/ SpawnServer(r) \/ ServerAnswers(r) \/ ServerFails(r)
    \/ StartSession(r) \/ SessionFails(r) \/ Record(r) \/ Ended(r)

StopStep == StopRemove \/ SessionGone

Shared(a) == KillSession(a) \/ StopX11(a) \/ KillServers(a)

Next ==
    \/ \E r \in Runs : RunStep(r) \/ Refuse(r) \/ StepsFail(r) \/ LeaveSteps(r) \/ Interrupt(r) \/ SessionEnds(r)
    \/ StopLook \/ StopStep
    \/ \E a \in Actors : Shared(a) \/ Killed(a)
    \/ \E s \in Servers : ServerUp(s) \/ ServerDies(s)

\* A command that is at work goes on.
Fairness ==
    /\ \A r \in Runs : WF_vars(Ended(r) /\ at[r] # "new")
    /\ WF_vars(StopStep) /\ \A a \in Actors : WF_vars(Shared(a))

Spec == Init /\ [][Next]_vars /\ Fairness

-----------------------------------------------------------------------------
(* Properties.                                                             *)

\* There is one desktop on Termux:X11, and andronix desktop stop can end it
\* from any Termux session: a live session is the one on record, or its own
\* desktop is about to record it, or a stop is at it.  Known to lose the
\* record: two commands that overlap in a start, a command killed next to
\* the record, a disk that is full.
Reachable ==
    raced \/ \A r \in Runs \ lost : session[r] = "alive" =>
        \/ file = r \/ at[r] = "record"
        \/ at[Stop] \in {"remove", "session"} /\ target = r

\* A desktop that ended takes the server it started along, also when two
\* starts overlapped and the server it found was not its own.  Known to leave
\* one: a SIGTERM in the steps that start it.
OwnServer ==
    \A r \in Runs \ {left} : at[r] = "ended" => server[r] \notin {"starting", "alive"}

\* A stop that found a session brings its desktop to an end, whatever the
\* session does with the signal, unless one of the two commands is killed.
StopEnds ==
    \A r \in Runs : (at[Stop] = "session" /\ target = r /\ at[r] = "shown")
                        ~> (at[r] \in {"over", "ended"} \/ r \in lost)
=============================================================================
