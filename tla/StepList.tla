------------------------------ MODULE StepList ------------------------------
(***************************************************************************)
(* What RunSteps promises a command, whichever screen shows the steps: one *)
(* step at a time, in order, none after a step that failed; "ok" only when *)
(* all of them are done, "failed" only when one failed and none runs.  A   *)
(* command that was left (Ctrl-C, a signal, a broken screen) gets its      *)
(* answer at once, while the step that was running may still go on.        *)
(***************************************************************************)
EXTENDS Naturals

CONSTANT N   \* the number of steps

VARIABLES done,     \* the steps that ended well, or were skipped
          busy,     \* the step that runs, in a set
          halted,   \* a step failed
          answer    \* what the command was told, "none" until then

vars == <<done, busy, halted, answer>>

Init == done = {} /\ busy = {} /\ halted = FALSE /\ answer = "none"

Begin(i) ==
    /\ busy = {} /\ ~halted
    /\ 1 .. (i - 1) \subseteq done /\ i \notin done
    /\ answer \in {"none", "left"}
    /\ busy' = {i}
    /\ UNCHANGED <<done, halted, answer>>

End(i) ==
    /\ i \in busy
    /\ busy' = {} /\ done' = done \cup {i}
    /\ UNCHANGED <<halted, answer>>

Fail(i) ==
    /\ i \in busy
    /\ busy' = {} /\ halted' = TRUE
    /\ UNCHANGED <<done, answer>>

Answer(a) ==
    /\ answer = "none"
    /\ a = "ok" => done = 1 .. N
    /\ a = "failed" => halted
    /\ answer' = a
    /\ UNCHANGED <<done, busy, halted>>

Next ==
    \/ \E i \in 1 .. N : Begin(i) \/ End(i) \/ Fail(i)
    \/ \E a \in {"ok", "failed", "left"} : Answer(a)

Spec == Init /\ [][Next]_vars
=============================================================================
