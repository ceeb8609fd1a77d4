------------------------------- MODULE Steps -------------------------------
(***************************************************************************)
(* The step runner (internal/ui/steps.go).  Plain mode is a loop.  On a    *)
(* terminal the steps run under a bubbletea program: its event loop owns   *)
(* the model (idx, err), each step runs in a goroutine of its own, and     *)
(* what they tell each other are messages, which the loop takes in no      *)
(* promised order.  The program ends through tea.Quit, a SIGTERM or with   *)
(* an error of its own; a goroutine that it started is not waited for.     *)
(***************************************************************************)
EXTENDS Naturals

CONSTANT N   \* the number of steps

ASSUME NAssumption == N \in Nat \ {0}

VARIABLES
    plain,    \* runPlain, or runTea
    idx,      \* the step the model is at; N + 1: past the last
    state,    \* each step: waiting, queued (its goroutine is started), running, over
    ended,    \* how each step's Run ended
    mail,     \* what a Run answered and the loop has not taken yet (a doneMsg)
    err,      \* m.err
    quit,     \* tea.Quit is on its way to the loop
    result,   \* what RunSteps returned, "none" until then
    pressed,  \* history: the loop took a Ctrl-C
    termed    \* history: a SIGTERM ended the loop

stepsVars == <<plain, idx, state, ended, mail, err, quit, result, pressed, termed>>

StepIds == 1 .. N

Outcomes == {"ok", "skip", "error"}

StepsTypeOK ==
    /\ plain \in BOOLEAN
    /\ idx \in 1 .. (N + 1)
    /\ state \in [StepIds -> {"waiting", "queued", "running", "over"}]
    /\ ended \in [StepIds -> Outcomes \cup {"none"}]
    /\ mail \in Outcomes \cup {"none"}
    /\ err \in {"none", "cancelled", "failed"}
    /\ quit \in BOOLEAN /\ pressed \in BOOLEAN /\ termed \in BOOLEAN
    /\ result \in {"none", "ok", "cancelled", "failed", "broken"}

Good(i) == state[i] = "over" /\ ended[i] \in {"ok", "skip"}

StepsInit ==
    /\ plain \in BOOLEAN
    /\ idx = 1
    /\ state = [i \in StepIds |-> IF i = 1 THEN "queued" ELSE "waiting"]
    /\ ended = [i \in StepIds |-> "none"]
    /\ mail = "none" /\ err = "none" /\ quit = FALSE
    /\ result = "none" /\ pressed = FALSE /\ termed = FALSE

-----------------------------------------------------------------------------
\* The goroutine of a step calls its Run.  Nothing stops it when the program
\* has ended meanwhile.
StartStep(i) ==
    /\ state[i] = "queued"
    /\ state' = [state EXCEPT ![i] = "running"]
    /\ UNCHANGED <<plain, idx, ended, mail, err, quit, result, pressed, termed>>

\* Mutant: an error is sent on as a skip.
EndStepSkips(i, o) ==
    /\ state[i] = "running"
    /\ state' = [state EXCEPT ![i] = "over"]
    /\ ended' = [ended EXCEPT ![i] = o]
    /\ mail' = IF o = "error" THEN "skip" ELSE o
    /\ UNCHANGED <<plain, idx, err, quit, result, pressed, termed>>

\* Run returns, well, skipped or with an error (a cancelled context is one,
\* where the step looks at it): to runPlain, or as a doneMsg to the loop.
\* When the program has ended, nobody takes it.
EndStep(i, o) ==
    /\ state[i] = "running"
    /\ state' = [state EXCEPT ![i] = "over"]
    /\ ended' = [ended EXCEPT ![i] = o]
    /\ mail' = o
    /\ UNCHANGED <<plain, idx, err, quit, result, pressed, termed>>

\* The program is past the step under way: what comes after it is started,
\* or the way out.
nextStep ==
    /\ idx' = idx + 1
    /\ IF idx + 1 > N
       THEN quit' = TRUE /\ UNCHANGED state
       ELSE state' = [state EXCEPT ![idx + 1] = "queued"] /\ UNCHANGED quit

\* Mutant: the error of a step is shown and the next one is started.
DoneMsgGoesOn ==
    /\ ~plain /\ result = "none" /\ mail # "none"
    /\ mail' = "none"
    /\ err' = (IF mail = "error" THEN "failed" ELSE err)
    /\ nextStep
    /\ UNCHANGED <<plain, ended, result, pressed, termed>>

\* Mutant: the last step's doneMsg is taken without the way out.
DoneMsgNoQuit ==
    /\ ~plain /\ result = "none" /\ mail # "none"
    /\ mail' = "none"
    /\ \/ mail = "error" /\ err' = "failed" /\ UNCHANGED <<idx, state, quit>>
       \/ mail # "error" /\ nextStep /\ UNCHANGED err
    /\ UNCHANGED <<plain, ended, result, pressed, termed>>

\* Update takes a doneMsg.  It does not look whether Ctrl-C came first.
DoneMsg ==
    /\ ~plain /\ result = "none" /\ mail # "none"
    /\ mail' = "none"
    /\ \/ mail = "error" /\ err' = "failed" /\ quit' = TRUE /\ UNCHANGED <<idx, state>>
       \/ mail # "error" /\ nextStep /\ UNCHANGED err
    /\ UNCHANGED <<plain, ended, result, pressed, termed>>

\* Mutant: Ctrl-C cancels the step and leaves the way out to its doneMsg.
CtrlCWaits ==
    /\ ~plain /\ result = "none"
    /\ err' = "cancelled" /\ pressed' = TRUE
    /\ UNCHANGED <<plain, idx, state, ended, mail, quit, result, termed>>

\* The loop takes a Ctrl-C: it cancels the steps' context, which is an error
\* that a step may return from now on, and is on its way out.
CtrlC ==
    /\ ~plain /\ result = "none"
    /\ err' = "cancelled" /\ quit' = TRUE /\ pressed' = TRUE
    /\ UNCHANGED <<plain, idx, state, ended, mail, result, termed>>

\* The loop takes the tea.Quit: runTea cancels the context and returns m.err.
Quit ==
    /\ ~plain /\ result = "none" /\ quit
    /\ result' = IF err = "none" THEN "ok" ELSE err
    /\ UNCHANGED <<plain, idx, state, ended, mail, err, quit, pressed, termed>>

\* The event loop's own handler takes a SIGTERM for a request to quit: no
\* error is set, so RunSteps answers "ok" wherever the steps are.
Terminate ==
    /\ ~plain /\ result = "none"
    /\ quit' = TRUE /\ termed' = TRUE
    /\ UNCHANGED <<plain, idx, state, ended, mail, err, result, pressed>>

\* The program ends with an error of its own (the terminal is gone, or a
\* SIGINT that is no key).
RunBroken ==
    /\ ~plain /\ result = "none"
    /\ result' = "broken"
    /\ UNCHANGED <<plain, idx, state, ended, mail, err, quit, pressed, termed>>

-----------------------------------------------------------------------------
\* runPlain goes on to the next step, and returns after the last one or the
\* first error.
PlainNext ==
    /\ plain /\ result = "none" /\ mail # "none"
    /\ mail' = "none"
    /\ \/ mail = "error" /\ result' = "failed" /\ UNCHANGED <<idx, state, quit>>
       \/ mail # "error" /\ nextStep /\ result' = IF idx = N THEN "ok" ELSE "none"
    /\ UNCHANGED <<plain, ended, err, pressed, termed>>

RunSteps(i) ==
    \/ StartStep(i)
    \/ \E o \in Outcomes : EndStep(i, o)

StepsNext ==
    \/ \E i \in StepIds : RunSteps(i)
    \/ DoneMsg \/ CtrlC \/ Terminate \/ Quit \/ RunBroken
    \/ PlainNext
    \/ result # "none" /\ UNCHANGED stepsVars

\* The Go runtime runs every goroutine that can go on, and the loop takes
\* every message in the end; a step's Run may never return.
Fairness ==
    /\ \A i \in StepIds : WF_stepsVars(StartStep(i))
    /\ WF_stepsVars(DoneMsg) /\ WF_stepsVars(PlainNext) /\ WF_stepsVars(Quit)

StepsSpec == StepsInit /\ [][StepsNext]_stepsVars /\ Fairness

-----------------------------------------------------------------------------
(* Properties.                                                             *)

\* RunSteps, on either screen and with every order of its messages, is the
\* step list a command is written for (StepList): one at a time, in order,
\* none after a failure, and "ok" only when all are done.  The exception is
\* the nil that a SIGTERM brings: it says no more than that the steps were
\* left.
List == INSTANCE StepList WITH
    done   <- {i \in StepIds : Good(i)},
    busy   <- {i \in StepIds : state[i] = "running"},
    halted <- \E i \in StepIds : state[i] = "over" /\ ended[i] = "error",
    answer <- IF result \in {"cancelled", "broken"} \/ (result = "ok" /\ termed)
              THEN "left" ELSE result

RunsTheList == List!Init /\ [][List!Next]_List!vars

\* The steps of a run are where idx says: all before it ended well, none
\* after it was touched, and at most one goroutine is at work.  Two late
\* doneMsgs, or one that is counted twice, would break this.
InStep ==
    /\ \A i \in StepIds : i < idx => Good(i)
    /\ \A i \in StepIds : i > idx => state[i] = "waiting"
    /\ mail # "none" => idx \in StepIds /\ state[idx] = "over" /\ ended[idx] = mail

\* Ctrl-C always gets the user out, however long the step under way takes
\* and whatever it answers.
CtrlCLeaves == pressed ~> result # "none"

\* When every step that runs comes to an end, so does RunSteps.
Ends ==
    (\A i \in StepIds : <>[](state[i] # "running")) => <>(result # "none")
=============================================================================
