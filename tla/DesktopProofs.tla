---------------------------- MODULE DesktopProofs ----------------------------
(***************************************************************************)
(* Proofs about Desktop, for any number of runs: its types, that a live    *)
(* session can be found, and that an ended run leaves no server of its own.*)
(***************************************************************************)
EXTENDS Desktop, TLAPS

\* Where each command may be, and what a stop at work on a session knows.
StageInv ==
    /\ at[Stop] \in {"over", "remove", "session", "down", "kill"}
    /\ \A r \in Runs : at[r] \notin {"remove", "session"}
    /\ at[Stop] = "session" => target # "none"
    /\ \A r \in Runs : at[r] \in {"new", "server", "spawn", "wait", "open"} => session[r] = "none"

\* A start that nobody meets is alone, and finds no session; while its desktop
\* is up, there is no other.
AloneInv ==
    ~raced => \A r \in Runs :
        /\ Starting(r) => \A a \in Actors \ {r} : ~Busy(a)
        /\ Starting(r) \/ at[r] \in {"shown", "interrupt"} =>
              \A q \in (Runs \ lost) \ {r} : session[q] # "alive"

\* A live session is on record, about to be, or a stop has it; what a stop is
\* about to remove from the record, it knows.
RecordInv ==
    ~raced =>
        /\ \A r \in Runs \ lost : session[r] = "alive" =>
              file = r \/ at[r] = "record" \/ (at[Stop] = "session" /\ target = r)
        /\ at[Stop] = "remove" /\ LiveState => target = file

\* A run's server is its own when it says so, and is among those it kills;
\* nobody kills what was never started.
ServerInv ==
    /\ \A r \in Runs : at[r] \in {"new", "server", "spawn"} => server[r] = "none" /\ r # left
    /\ \A r \in Runs \ {left} :
          /\ at[r] \in {"open", "record", "shown", "interrupt", "down"} /\ r \notin started
                => server[r] = "none"
          /\ at[r] = "kill" /\ server[r] \in {"starting", "alive"} => r \in doomed[r]
          /\ at[r] = "ended" => server[r] \in {"none", "dead"}
    /\ \A a \in Actors : \A s \in doomed[a] : server[s] # "none"

IInv == TypeOK /\ StageInv /\ AloneInv /\ RecordInv /\ ServerInv

-----------------------------------------------------------------------------
(* The inductive invariant, action by action.                              *)

LEMMA InitIInv == Init => IInv
BY ActorsAssumption
DEF Init, IInv, TypeOK, Stages, Actors, Servers, StageInv, AloneInv, Starting, Busy, RecordInv,
    LiveState, ServerInv

LEMMA RefuseStep == ASSUME IInv, NEW r \in Runs, Refuse(r) PROVE IInv'
<1> USE ActorsAssumption DEF IInv, Refuse, Goes, TypeOK, Stages, Actors, Servers, StageInv
<1>1. TypeOK'
    OBVIOUS
<1>2. StageInv'
    OBVIOUS
<1>3. AloneInv'
    BY DEF AloneInv, Starting, Busy, RecordInv, LiveState
<1>4. RecordInv'
    BY DEF RecordInv, AloneInv, Starting, Busy, LiveState
<1>5. ServerInv'
    BY DEF ServerInv
<1> QED
    BY <1>1, <1>2, <1>3, <1>4, <1>5

LEMMA LookStep == ASSUME IInv, NEW r \in Runs, Look(r) PROVE IInv'
<1> USE ActorsAssumption DEF IInv, Look, Goes, TypeOK, Stages, Actors, Servers, StageInv
<1>1. TypeOK'
    OBVIOUS
<1>2. StageInv'
    OBVIOUS
<1>3. AloneInv'
    <2> SUFFICES ASSUME ~raced' PROVE AloneInv'
        BY DEF AloneInv
    <2>1. ~raced /\ \A a \in Actors : ~Busy(a)
        BY DEF Busy
    <2>2. \A a \in Actors \ {r} : ~Busy(a)' /\ (a \in Runs => ~Starting(a)' /\ at'[a] \notin {"shown", "interrupt"})
        BY <2>1 DEF Busy, Starting
    <2>3. \A q \in Runs \ lost : session[q] # "alive"
        BY <2>1 DEF RecordInv, Busy, LiveState
    <2> QED
        BY <2>2, <2>3 DEF AloneInv
<1>4. RecordInv'
    BY DEF RecordInv, AloneInv, Starting, Busy, LiveState
<1>5. ServerInv'
    BY DEF ServerInv
<1> QED
    BY <1>1, <1>2, <1>3, <1>4, <1>5

LEMMA StepsFailStep == ASSUME IInv, NEW r \in Runs, StepsFail(r) PROVE IInv'
<1> USE ActorsAssumption DEF IInv, StepsFail, Goes, TypeOK, Stages, Actors, Servers, StageInv
<1>1. TypeOK'
    OBVIOUS
<1>2. StageInv'
    OBVIOUS
<1>3. AloneInv'
    BY DEF AloneInv, Starting, Busy, RecordInv, LiveState
<1>4. RecordInv'
    BY DEF RecordInv, AloneInv, Starting, Busy, LiveState
<1>5. ServerInv'
    BY DEF ServerInv
<1> QED
    BY <1>1, <1>2, <1>3, <1>4, <1>5

LEMMA FindServerStep == ASSUME IInv, NEW r \in Runs, FindServer(r) PROVE IInv'
<1> USE ActorsAssumption DEF IInv, FindServer, Goes, TypeOK, Stages, Actors, Servers, StageInv
<1>1. TypeOK'
    OBVIOUS
<1>2. StageInv'
    OBVIOUS
<1>3. AloneInv'
    BY DEF AloneInv, Starting, Busy, RecordInv, LiveState
<1>4. RecordInv'
    BY DEF RecordInv, AloneInv, Starting, Busy, LiveState
<1>5. ServerInv'
    BY DEF ServerInv
<1> QED
    BY <1>1, <1>2, <1>3, <1>4, <1>5

LEMMA SpawnServerStep == ASSUME IInv, NEW r \in Runs, SpawnServer(r) PROVE IInv'
<1> USE ActorsAssumption DEF IInv, SpawnServer, Goes, TypeOK, Stages, Actors, Servers, StageInv
<1>1. TypeOK'
    OBVIOUS
<1>2. StageInv'
    OBVIOUS
<1>3. AloneInv'
    BY DEF AloneInv, Starting, Busy, RecordInv, LiveState
<1>4. RecordInv'
    BY DEF RecordInv, AloneInv, Starting, Busy, LiveState
<1>5. ServerInv'
    BY DEF ServerInv
<1> QED
    BY <1>1, <1>2, <1>3, <1>4, <1>5

LEMMA ServerAnswersStep == ASSUME IInv, NEW r \in Runs, ServerAnswers(r) PROVE IInv'
<1> USE ActorsAssumption DEF IInv, ServerAnswers, Goes, TypeOK, Stages, Actors, Servers, StageInv
<1>1. TypeOK'
    OBVIOUS
<1>2. StageInv'
    OBVIOUS
<1>3. AloneInv'
    BY DEF AloneInv, Starting, Busy, RecordInv, LiveState
<1>4. RecordInv'
    BY DEF RecordInv, AloneInv, Starting, Busy, LiveState
<1>5. ServerInv'
    BY DEF ServerInv
<1> QED
    BY <1>1, <1>2, <1>3, <1>4, <1>5

LEMMA ServerFailsStep == ASSUME IInv, NEW r \in Runs, ServerFails(r) PROVE IInv'
<1> USE ActorsAssumption DEF IInv, ServerFails, Goes, TypeOK, Stages, Actors, Servers, StageInv
<1>1. TypeOK'
    OBVIOUS
<1>2. StageInv'
    OBVIOUS
<1>3. AloneInv'
    BY DEF AloneInv, Starting, Busy, RecordInv, LiveState
<1>4. RecordInv'
    BY DEF RecordInv, AloneInv, Starting, Busy, LiveState
<1>5. ServerInv'
    BY DEF ServerInv
<1> QED
    BY <1>1, <1>2, <1>3, <1>4, <1>5

LEMMA LeaveStepsStep == ASSUME IInv, NEW r \in Runs, LeaveSteps(r) PROVE IInv'
<1> USE ActorsAssumption DEF IInv, LeaveSteps, Goes, TypeOK, Stages, Actors, Servers, StageInv
<1>1. TypeOK'
    OBVIOUS
<1>2. StageInv'
    OBVIOUS
<1>3. AloneInv'
    BY DEF AloneInv, Starting, Busy, RecordInv, LiveState
<1>4. RecordInv'
    BY DEF RecordInv, AloneInv, Starting, Busy, LiveState
<1>5. ServerInv'
    BY DEF ServerInv
<1> QED
    BY <1>1, <1>2, <1>3, <1>4, <1>5

LEMMA StartSessionStep == ASSUME IInv, NEW r \in Runs, StartSession(r) PROVE IInv'
<1> USE ActorsAssumption DEF IInv, StartSession, Goes, TypeOK, Stages, Actors, Servers, StageInv
<1>1. TypeOK'
    OBVIOUS
<1>2. StageInv'
    OBVIOUS
<1>3. AloneInv'
    BY DEF AloneInv, Starting, Busy, RecordInv, LiveState
<1>4. RecordInv'
    BY DEF RecordInv, AloneInv, Starting, Busy, LiveState
<1>5. ServerInv'
    BY DEF ServerInv
<1> QED
    BY <1>1, <1>2, <1>3, <1>4, <1>5

LEMMA SessionFailsStep == ASSUME IInv, NEW r \in Runs, SessionFails(r) PROVE IInv'
<1> USE ActorsAssumption DEF IInv, SessionFails, Goes, TypeOK, Stages, Actors, Servers, StageInv
<1>1. TypeOK'
    OBVIOUS
<1>2. StageInv'
    OBVIOUS
<1>3. AloneInv'
    BY DEF AloneInv, Starting, Busy, RecordInv, LiveState
<1>4. RecordInv'
    BY DEF RecordInv, AloneInv, Starting, Busy, LiveState
<1>5. ServerInv'
    BY DEF ServerInv
<1> QED
    BY <1>1, <1>2, <1>3, <1>4, <1>5

LEMMA RecordStep == ASSUME IInv, NEW r \in Runs, Record(r) PROVE IInv'
<1> USE ActorsAssumption DEF IInv, Record, Goes, TypeOK, Stages, Actors, Servers, StageInv
<1>1. TypeOK'
    OBVIOUS
<1>2. StageInv'
    OBVIOUS
<1>3. AloneInv'
    BY DEF AloneInv, Starting, Busy, RecordInv, LiveState
<1>4. RecordInv'
    BY DEF RecordInv, AloneInv, Starting, Busy, LiveState
<1>5. ServerInv'
    BY DEF ServerInv
<1> QED
    BY <1>1, <1>2, <1>3, <1>4, <1>5

LEMMA InterruptStep == ASSUME IInv, NEW r \in Runs, Interrupt(r) PROVE IInv'
<1> USE ActorsAssumption DEF IInv, Interrupt, Goes, TypeOK, Stages, Actors, Servers, StageInv
<1>1. TypeOK'
    OBVIOUS
<1>2. StageInv'
    OBVIOUS
<1>3. AloneInv'
    BY DEF AloneInv, Starting, Busy, RecordInv, LiveState
<1>4. RecordInv'
    BY DEF RecordInv, AloneInv, Starting, Busy, LiveState
<1>5. ServerInv'
    BY DEF ServerInv
<1> QED
    BY <1>1, <1>2, <1>3, <1>4, <1>5

LEMMA EndedStep == ASSUME IInv, NEW r \in Runs, Ended(r) PROVE IInv'
<1> USE ActorsAssumption DEF IInv, Ended, Goes, TypeOK, Stages, Actors, Servers, StageInv
<1>1. TypeOK'
    OBVIOUS
<1>2. StageInv'
    OBVIOUS
<1>3. AloneInv'
    BY DEF AloneInv, Starting, Busy, RecordInv, LiveState
<1>4. RecordInv'
    BY DEF RecordInv, AloneInv, Starting, Busy, LiveState
<1>5. ServerInv'
    BY DEF ServerInv
<1> QED
    BY <1>1, <1>2, <1>3, <1>4, <1>5

LEMMA SessionEndsStep == ASSUME IInv, NEW r \in Runs, SessionEnds(r) PROVE IInv'
<1> USE ActorsAssumption DEF IInv, SessionEnds, Goes, TypeOK, Stages, Actors, Servers, StageInv
<1>1. TypeOK'
    OBVIOUS
<1>2. StageInv'
    OBVIOUS
<1>3. AloneInv'
    BY DEF AloneInv, Starting, Busy, RecordInv, LiveState
<1>4. RecordInv'
    BY DEF RecordInv, AloneInv, Starting, Busy, LiveState
<1>5. ServerInv'
    BY DEF ServerInv
<1> QED
    BY <1>1, <1>2, <1>3, <1>4, <1>5

LEMMA StopLookStep == ASSUME IInv, StopLook PROVE IInv'
<1> USE ActorsAssumption DEF IInv, StopLook, Goes, TypeOK, Stages, Actors, Servers, StageInv, LiveState
<1>1. TypeOK'
    OBVIOUS
<1>2. StageInv'
    OBVIOUS
<1>3. AloneInv'
    BY DEF AloneInv, Starting, Busy, RecordInv, LiveState
<1>4. RecordInv'
    BY DEF RecordInv, AloneInv, Starting, Busy, LiveState
<1>5. ServerInv'
    BY DEF ServerInv
<1> QED
    BY <1>1, <1>2, <1>3, <1>4, <1>5

LEMMA StopRemoveStep == ASSUME IInv, StopRemove PROVE IInv'
<1> USE ActorsAssumption DEF IInv, StopRemove, Goes, TypeOK, Stages, Actors, Servers, StageInv
<1>1. TypeOK'
    OBVIOUS
<1>2. StageInv'
    OBVIOUS
<1>3. AloneInv'
    BY DEF AloneInv, Starting, Busy, RecordInv, LiveState
<1>4. RecordInv'
    BY DEF RecordInv, AloneInv, Starting, Busy, LiveState
<1>5. ServerInv'
    BY DEF ServerInv
<1> QED
    BY <1>1, <1>2, <1>3, <1>4, <1>5

LEMMA SessionGoneStep == ASSUME IInv, SessionGone PROVE IInv'
<1> USE ActorsAssumption DEF IInv, SessionGone, Goes, TypeOK, Stages, Actors, Servers, StageInv
<1>1. TypeOK'
    OBVIOUS
<1>2. StageInv'
    OBVIOUS
<1>3. AloneInv'
    BY DEF AloneInv, Starting, Busy, RecordInv, LiveState
<1>4. RecordInv'
    BY DEF RecordInv, AloneInv, Starting, Busy, LiveState
<1>5. ServerInv'
    BY DEF ServerInv
<1> QED
    BY <1>1, <1>2, <1>3, <1>4, <1>5

LEMMA KillSessionStep == ASSUME IInv, NEW a \in Actors, KillSession(a) PROVE IInv'
<1> USE ActorsAssumption DEF IInv, KillSession, Goes, TypeOK, Stages, Actors, Servers, StageInv, Session
<1>1. TypeOK'
    OBVIOUS
<1>2. StageInv'
    OBVIOUS
<1>3. AloneInv'
    BY DEF AloneInv, Starting, Busy, RecordInv, LiveState
<1>4. RecordInv'
    BY DEF RecordInv, AloneInv, Starting, Busy, LiveState
<1>5. ServerInv'
    BY DEF ServerInv
<1> QED
    BY <1>1, <1>2, <1>3, <1>4, <1>5

LEMMA StopX11Step == ASSUME IInv, NEW a \in Actors, StopX11(a) PROVE IInv'
<1> USE ActorsAssumption DEF IInv, StopX11, Goes, TypeOK, Stages, Actors, Servers, StageInv, Known
<1>1. TypeOK'
    OBVIOUS
<1>2. StageInv'
    OBVIOUS
<1>3. AloneInv'
    BY DEF AloneInv, Starting, Busy, RecordInv, LiveState
<1>4. RecordInv'
    BY DEF RecordInv, AloneInv, Starting, Busy, LiveState
<1>5. ServerInv'
    BY DEF ServerInv
<1> QED
    BY <1>1, <1>2, <1>3, <1>4, <1>5

LEMMA KillServersStep == ASSUME IInv, NEW a \in Actors, KillServers(a) PROVE IInv'
<1> USE ActorsAssumption DEF IInv, KillServers, Goes, TypeOK, Stages, Actors, Servers, StageInv
<1>1. TypeOK'
    OBVIOUS
<1>2. StageInv'
    OBVIOUS
<1>3. AloneInv'
    BY DEF AloneInv, Starting, Busy, RecordInv, LiveState
<1>4. RecordInv'
    BY DEF RecordInv, AloneInv, Starting, Busy, LiveState
<1>5. ServerInv'
    BY DEF ServerInv
<1> QED
    BY <1>1, <1>2, <1>3, <1>4, <1>5

LEMMA KilledStep == ASSUME IInv, NEW a \in Actors, Killed(a) PROVE IInv'
<1> USE ActorsAssumption DEF IInv, Killed, Goes, TypeOK, Stages, Actors, Servers, StageInv, Busy
<1>1. TypeOK'
    OBVIOUS
<1>2. StageInv'
    OBVIOUS
<1>3. AloneInv'
    BY DEF AloneInv, Starting, Busy, RecordInv, LiveState
<1>4. RecordInv'
    BY DEF RecordInv, AloneInv, Starting, Busy, LiveState
<1>5. ServerInv'
    BY DEF ServerInv
<1> QED
    BY <1>1, <1>2, <1>3, <1>4, <1>5

LEMMA ServerUpStep == ASSUME IInv, NEW s \in Servers, ServerUp(s) PROVE IInv'
<1> USE ActorsAssumption DEF IInv, ServerUp, Goes, TypeOK, Stages, Actors, Servers, StageInv
<1>1. TypeOK'
    OBVIOUS
<1>2. StageInv'
    OBVIOUS
<1>3. AloneInv'
    BY DEF AloneInv, Starting, Busy, RecordInv, LiveState
<1>4. RecordInv'
    BY DEF RecordInv, AloneInv, Starting, Busy, LiveState
<1>5. ServerInv'
    BY DEF ServerInv
<1> QED
    BY <1>1, <1>2, <1>3, <1>4, <1>5

LEMMA ServerDiesStep == ASSUME IInv, NEW s \in Servers, ServerDies(s) PROVE IInv'
<1> USE ActorsAssumption DEF IInv, ServerDies, Goes, TypeOK, Stages, Actors, Servers, StageInv
<1>1. TypeOK'
    OBVIOUS
<1>2. StageInv'
    OBVIOUS
<1>3. AloneInv'
    BY DEF AloneInv, Starting, Busy, RecordInv, LiveState
<1>4. RecordInv'
    BY DEF RecordInv, AloneInv, Starting, Busy, LiveState
<1>5. ServerInv'
    BY DEF ServerInv
<1> QED
    BY <1>1, <1>2, <1>3, <1>4, <1>5

LEMMA Inductive == IInv /\ [Next]_vars => IInv'
<1> SUFFICES ASSUME IInv, [Next]_vars PROVE IInv'
    OBVIOUS
<1>1. ASSUME NEW r \in Runs,
             \/ RunStep(r) \/ Refuse(r) \/ StepsFail(r) \/ LeaveSteps(r)
             \/ Interrupt(r) \/ SessionEnds(r)
      PROVE  IInv'
    BY <1>1, LookStep, FindServerStep, SpawnServerStep, ServerAnswersStep, ServerFailsStep,
       StartSessionStep, SessionFailsStep, RecordStep, EndedStep, RefuseStep, StepsFailStep, LeaveStepsStep,
       InterruptStep, SessionEndsStep DEF RunStep
<1>2. CASE StopLook \/ StopStep
    BY <1>2, StopLookStep, StopRemoveStep, SessionGoneStep DEF StopStep
<1>3. ASSUME NEW a \in Actors, Shared(a) \/ Killed(a) PROVE IInv'
    BY <1>3, KillSessionStep, StopX11Step, KillServersStep, KilledStep DEF Shared
<1>4. ASSUME NEW s \in Servers, ServerUp(s) \/ ServerDies(s) PROVE IInv'
    BY <1>4, ServerUpStep, ServerDiesStep
<1>5. CASE UNCHANGED vars
    BY <1>5 DEF vars, IInv, TypeOK, StageInv, AloneInv, Starting, Busy, RecordInv, LiveState, ServerInv
<1> QED
    BY <1>1, <1>2, <1>3, <1>4, <1>5 DEF Next

-----------------------------------------------------------------------------
(* The theorems.                                                           *)

THEOREM Invariant == Spec => []IInv
BY InitIInv, Inductive, PTL DEF Spec

\* Commands, processes and the state file keep their types.
THEOREM TypeCorrect == Spec => []TypeOK
<1>1. IInv => TypeOK
    BY DEF IInv
<1> QED
    BY <1>1, Invariant, PTL

\* A live session is on record, or its own desktop or a stop is at it
\* (x11.go:61-145, 202-214, 299-324): desktop stop can end it.
THEOREM SessionReachable == Spec => []Reachable
<1>1. IInv => Reachable
    BY DEF IInv, RecordInv, Reachable
<1> QED
    BY <1>1, Invariant, PTL

\* A run that came to its end has taken along the server it started
\* (x11.go:175-187, 246-260; termux/x11.go:269-318), unless a SIGTERM took it
\* out of its steps.
THEOREM ServerGoes == Spec => []OwnServer
<1>1. IInv => OwnServer
    BY DEF IInv, ServerInv, OwnServer
<1> QED
    BY <1>1, Invariant, PTL
=============================================================================
