----------------------------- MODULE StartProofs -----------------------------
(***************************************************************************)
(* Proofs about Start, for any number of sessions: its types, the lock of  *)
(* the package manager and the wait after a failed install, the sound      *)
(* module and the distro's bwrap.                                          *)
(***************************************************************************)
EXTENDS Start, TLAPS

\* Who is at apt-get has the lock, and nobody else has.
LockInv == \A s \in Starts : at[s] = "apt" <=> lock = s

\* Who goes for the lock in a day's wait was on the way when the wait began.
WaitInv == backoff = "fresh" => \A s \in Starts : at[s] = "lock" => s \in ahead

\* Without a daemon, nobody who was told that sound works has not been told
\* otherwise since.
SoundInv ==
    /\ SoundIsLocal
    /\ pulse # "up" => \A s \in Starts \ changed : sound[s] # "ok"

\* One start at a time is at bwrap; until it moves it, it is the real one, and
\* beside an earlier stand-in there is the real one.
BwrapInv ==
    ~crossed =>
        /\ \A s, t \in Starts : AtBwrap(s) /\ AtBwrap(t) => s = t
        /\ \A s \in Starts : at[s] \in {"clear", "move"} => bwrap = "real"
        /\ \A s \in Starts : at[s] = "repoint" => kept = "real"
        /\ bwrap = "old" => kept = "real"

IInv == TypeOK /\ LockInv /\ WaitInv /\ SoundInv /\ BwrapInv

-----------------------------------------------------------------------------
(* The inductive invariant, action by action.                              *)

LEMMA InitIInv == Init => IInv
<1> SUFFICES ASSUME Init PROVE IInv
    OBVIOUS
<1>1. TypeOK
    BY DEF Init, TypeOK, Stages
<1>2. LockInv /\ WaitInv /\ SoundInv /\ BwrapInv
    BY StartsAssumption DEF Init, LockInv, WaitInv, SoundInv, SoundIsLocal, BwrapInv, AtBwrap
<1> QED
    BY <1>1, <1>2 DEF IInv

LEMMA LookStep == ASSUME IInv, NEW s \in Starts, Look(s) PROVE IInv'
<1>1. TypeOK'
    BY StartsAssumption DEF IInv, Look, Sees, Goes, Tells, apt, TypeOK, Stages
<1>2. LockInv' /\ WaitInv'
    BY StartsAssumption DEF IInv, Look, AudioInstallDue, Goes, apt, TypeOK, Stages, LockInv, WaitInv
<1>3. SoundInv'
    BY DEF IInv, Look, Tells, TypeOK, SoundInv, SoundIsLocal
<1>4. BwrapInv'
    BY DEF IInv, Look, Sees, Goes, TypeOK, Stages, BwrapInv, AtBwrap
<1> QED
    BY <1>1, <1>2, <1>3, <1>4 DEF IInv

LEMMA RepointStep == ASSUME IInv, NEW s \in Starts, Repoint(s) PROVE IInv'
<1>1. TypeOK'
    BY StartsAssumption DEF IInv, Repoint, Goes, Tells, apt, TypeOK, Stages
<1>2. LockInv' /\ WaitInv'
    BY StartsAssumption DEF IInv, Repoint, AudioInstallDue, Goes, apt, TypeOK, Stages, LockInv, WaitInv
<1>3. SoundInv'
    BY DEF IInv, Repoint, Tells, TypeOK, SoundInv, SoundIsLocal
<1>4. BwrapInv'
    BY DEF IInv, Repoint, Goes, TypeOK, Stages, BwrapInv, AtBwrap
<1> QED
    BY <1>1, <1>2, <1>3, <1>4 DEF IInv

LEMMA ClearStep == ASSUME IInv, NEW s \in Starts, Clear(s) PROVE IInv'
<1>1. TypeOK'
    BY StartsAssumption DEF IInv, Clear, Goes, Tells, apt, TypeOK, Stages
<1>2. LockInv' /\ WaitInv'
    BY StartsAssumption DEF IInv, Clear, AudioInstallDue, Goes, apt, TypeOK, Stages, LockInv, WaitInv
<1>3. SoundInv'
    BY DEF IInv, Clear, Tells, TypeOK, SoundInv, SoundIsLocal
<1>4. BwrapInv'
    BY DEF IInv, Clear, Goes, TypeOK, Stages, BwrapInv, AtBwrap
<1> QED
    BY <1>1, <1>2, <1>3, <1>4 DEF IInv

LEMMA MoveStep == ASSUME IInv, NEW s \in Starts, Move(s) PROVE IInv'
<1>1. TypeOK'
    BY StartsAssumption DEF IInv, Move, Goes, Tells, apt, TypeOK, Stages
<1>2. LockInv' /\ WaitInv'
    BY StartsAssumption DEF IInv, Move, AudioInstallDue, Goes, apt, TypeOK, Stages, LockInv, WaitInv
<1>3. SoundInv'
    BY DEF IInv, Move, Tells, TypeOK, SoundInv, SoundIsLocal
<1>4. BwrapInv'
    BY DEF IInv, Move, Goes, TypeOK, Stages, BwrapInv, AtBwrap
<1> QED
    BY <1>1, <1>2, <1>3, <1>4 DEF IInv

LEMMA PutShimStep == ASSUME IInv, NEW s \in Starts, PutShim(s) PROVE IInv'
<1>1. TypeOK'
    BY StartsAssumption DEF IInv, PutShim, Goes, Tells, apt, TypeOK, Stages
<1>2. LockInv' /\ WaitInv'
    BY StartsAssumption DEF IInv, PutShim, AudioInstallDue, Goes, apt, TypeOK, Stages, LockInv, WaitInv
<1>3. SoundInv'
    BY DEF IInv, PutShim, Tells, TypeOK, SoundInv, SoundIsLocal
<1>4. BwrapInv'
    BY DEF IInv, PutShim, Goes, TypeOK, Stages, BwrapInv, AtBwrap
<1> QED
    BY <1>1, <1>2, <1>3, <1>4 DEF IInv

LEMMA SoundStep == ASSUME IInv, NEW s \in Starts, Sound(s) PROVE IInv'
<1>1. TypeOK'
    BY StartsAssumption DEF IInv, Sound, Goes, Tells, apt, TypeOK, Stages
<1>2. LockInv' /\ WaitInv'
    BY StartsAssumption DEF IInv, Sound, AudioInstallDue, Goes, apt, TypeOK, Stages, LockInv, WaitInv
<1>3. SoundInv'
    BY DEF IInv, Sound, Tells, TypeOK, SoundInv, SoundIsLocal
<1>4. BwrapInv'
    BY DEF IInv, Sound, Goes, TypeOK, Stages, BwrapInv, AtBwrap
<1> QED
    BY <1>1, <1>2, <1>3, <1>4 DEF IInv

LEMMA DueStep == ASSUME IInv, NEW s \in Starts, Due(s) PROVE IInv'
<1>1. TypeOK'
    BY StartsAssumption DEF IInv, Due, Goes, Tells, apt, TypeOK, Stages
<1>2. LockInv' /\ WaitInv'
    BY StartsAssumption DEF IInv, Due, AudioInstallDue, Goes, apt, TypeOK, Stages, LockInv, WaitInv
<1>3. SoundInv'
    BY DEF IInv, Due, Tells, TypeOK, SoundInv, SoundIsLocal
<1>4. BwrapInv'
    BY DEF IInv, Due, Goes, TypeOK, Stages, BwrapInv, AtBwrap
<1> QED
    BY <1>1, <1>2, <1>3, <1>4 DEF IInv

LEMMA LockStep == ASSUME IInv, NEW s \in Starts, Lock(s) PROVE IInv'
<1>1. TypeOK'
    BY StartsAssumption DEF IInv, Lock, Goes, Tells, apt, TypeOK, Stages
<1>2. LockInv' /\ WaitInv'
    BY StartsAssumption DEF IInv, Lock, AudioInstallDue, Goes, apt, TypeOK, Stages, LockInv, WaitInv
<1>3. SoundInv'
    BY DEF IInv, Lock, Tells, TypeOK, SoundInv, SoundIsLocal
<1>4. BwrapInv'
    BY DEF IInv, Lock, Goes, TypeOK, Stages, BwrapInv, AtBwrap
<1> QED
    BY <1>1, <1>2, <1>3, <1>4 DEF IInv

LEMMA AptInstallsStep == ASSUME IInv, NEW s \in Starts, AptInstalls(s) PROVE IInv'
<1>1. TypeOK'
    BY StartsAssumption DEF IInv, AptInstalls, Goes, Tells, apt, TypeOK, Stages
<1>2. LockInv' /\ WaitInv'
    BY StartsAssumption DEF IInv, AptInstalls, AudioInstallDue, Goes, apt, TypeOK, Stages, LockInv, WaitInv
<1>3. SoundInv'
    BY DEF IInv, AptInstalls, Tells, TypeOK, SoundInv, SoundIsLocal
<1>4. BwrapInv'
    BY DEF IInv, AptInstalls, Goes, TypeOK, Stages, BwrapInv, AtBwrap
<1> QED
    BY <1>1, <1>2, <1>3, <1>4 DEF IInv

LEMMA AptFailsStep == ASSUME IInv, NEW s \in Starts, AptFails(s) PROVE IInv'
<1>1. TypeOK'
    BY StartsAssumption DEF IInv, AptFails, Goes, Tells, apt, TypeOK, Stages
<1>2. LockInv' /\ WaitInv'
    BY StartsAssumption DEF IInv, AptFails, AudioInstallDue, Goes, apt, TypeOK, Stages, LockInv, WaitInv
<1>3. SoundInv'
    BY DEF IInv, AptFails, Tells, TypeOK, SoundInv, SoundIsLocal
<1>4. BwrapInv'
    BY DEF IInv, AptFails, Goes, TypeOK, Stages, BwrapInv, AtBwrap
<1> QED
    BY <1>1, <1>2, <1>3, <1>4 DEF IInv

LEMMA WriteBackoffStep == ASSUME IInv, NEW s \in Starts, WriteBackoff(s) PROVE IInv'
<1>1. TypeOK'
    BY StartsAssumption DEF IInv, WriteBackoff, Goes, Tells, apt, TypeOK, Stages
<1>2. LockInv' /\ WaitInv'
    BY StartsAssumption DEF IInv, WriteBackoff, AudioInstallDue, Goes, apt, TypeOK, Stages, LockInv, WaitInv
<1>3. SoundInv'
    BY DEF IInv, WriteBackoff, Tells, TypeOK, SoundInv, SoundIsLocal
<1>4. BwrapInv'
    BY DEF IInv, WriteBackoff, Goes, TypeOK, Stages, BwrapInv, AtBwrap
<1> QED
    BY <1>1, <1>2, <1>3, <1>4 DEF IInv

LEMMA RemoveBackoffStep == ASSUME IInv, NEW s \in Starts, RemoveBackoff(s) PROVE IInv'
<1>1. TypeOK'
    BY StartsAssumption DEF IInv, RemoveBackoff, Goes, Tells, apt, TypeOK, Stages
<1>2. LockInv' /\ WaitInv'
    BY StartsAssumption DEF IInv, RemoveBackoff, AudioInstallDue, Goes, apt, TypeOK, Stages, LockInv, WaitInv
<1>3. SoundInv'
    BY DEF IInv, RemoveBackoff, Tells, TypeOK, SoundInv, SoundIsLocal
<1>4. BwrapInv'
    BY DEF IInv, RemoveBackoff, Goes, TypeOK, Stages, BwrapInv, AtBwrap
<1> QED
    BY <1>1, <1>2, <1>3, <1>4 DEF IInv

LEMMA CheckPulseStep == ASSUME IInv, NEW s \in Starts, CheckPulse(s) PROVE IInv'
<1>1. TypeOK'
    BY StartsAssumption DEF IInv, CheckPulse, Goes, Tells, apt, TypeOK, Stages
<1>2. LockInv' /\ WaitInv'
    BY StartsAssumption DEF IInv, CheckPulse, AudioInstallDue, Goes, apt, TypeOK, Stages, LockInv, WaitInv
<1>3. SoundInv'
    BY DEF IInv, CheckPulse, Tells, TypeOK, SoundInv, SoundIsLocal
<1>4. BwrapInv'
    BY DEF IInv, CheckPulse, Goes, TypeOK, Stages, BwrapInv, AtBwrap
<1> QED
    BY <1>1, <1>2, <1>3, <1>4 DEF IInv

LEMMA ListModulesStep == ASSUME IInv, NEW s \in Starts, ListModules(s) PROVE IInv'
<1>1. TypeOK'
    BY StartsAssumption DEF IInv, ListModules, Goes, Tells, apt, TypeOK, Stages
<1>2. LockInv' /\ WaitInv'
    BY StartsAssumption DEF IInv, ListModules, AudioInstallDue, Goes, apt, TypeOK, Stages, LockInv, WaitInv
<1>3. SoundInv'
    BY DEF IInv, ListModules, Tells, TypeOK, SoundInv, SoundIsLocal
<1>4. BwrapInv'
    BY DEF IInv, ListModules, Goes, TypeOK, Stages, BwrapInv, AtBwrap
<1> QED
    BY <1>1, <1>2, <1>3, <1>4 DEF IInv

LEMMA UnloadStep == ASSUME IInv, NEW s \in Starts, Unload(s) PROVE IInv'
<1>1. TypeOK'
    BY StartsAssumption DEF IInv, Unload, Goes, Tells, apt, TypeOK, Stages
<1>2. LockInv' /\ WaitInv'
    BY StartsAssumption DEF IInv, Unload, AudioInstallDue, Goes, apt, TypeOK, Stages, LockInv, WaitInv
<1>3. SoundInv'
    BY DEF IInv, Unload, Tells, TypeOK, SoundInv, SoundIsLocal
<1>4. BwrapInv'
    BY DEF IInv, Unload, Goes, TypeOK, Stages, BwrapInv, AtBwrap
<1> QED
    BY <1>1, <1>2, <1>3, <1>4 DEF IInv

LEMMA LoadStep == ASSUME IInv, NEW s \in Starts, Load(s) PROVE IInv'
<1>1. TypeOK'
    BY StartsAssumption DEF IInv, Load, Goes, Tells, apt, TypeOK, Stages
<1>2. LockInv' /\ WaitInv'
    BY StartsAssumption DEF IInv, Load, AudioInstallDue, Goes, apt, TypeOK, Stages, LockInv, WaitInv
<1>3. SoundInv'
    BY DEF IInv, Load, Tells, TypeOK, SoundInv, SoundIsLocal
<1>4. BwrapInv'
    BY DEF IInv, Load, Goes, TypeOK, Stages, BwrapInv, AtBwrap
<1> QED
    BY <1>1, <1>2, <1>3, <1>4 DEF IInv

LEMMA PactlFailsStep == ASSUME IInv, NEW s \in Starts, PactlFails(s) PROVE IInv'
<1>1. TypeOK'
    BY StartsAssumption DEF IInv, PactlFails, Goes, Tells, apt, TypeOK, Stages
<1>2. LockInv' /\ WaitInv'
    BY StartsAssumption DEF IInv, PactlFails, AudioInstallDue, Goes, apt, TypeOK, Stages, LockInv, WaitInv
<1>3. SoundInv'
    BY DEF IInv, PactlFails, Tells, TypeOK, SoundInv, SoundIsLocal
<1>4. BwrapInv'
    BY DEF IInv, PactlFails, Goes, TypeOK, Stages, BwrapInv, AtBwrap
<1> QED
    BY <1>1, <1>2, <1>3, <1>4 DEF IInv

LEMMA LoginStep == ASSUME IInv, NEW s \in Starts, Login(s) PROVE IInv'
<1>1. TypeOK'
    BY StartsAssumption DEF IInv, Login, Goes, Tells, apt, TypeOK, Stages
<1>2. LockInv' /\ WaitInv'
    BY StartsAssumption DEF IInv, Login, AudioInstallDue, Goes, apt, TypeOK, Stages, LockInv, WaitInv
<1>3. SoundInv'
    BY DEF IInv, Login, Tells, TypeOK, SoundInv, SoundIsLocal
<1>4. BwrapInv'
    BY DEF IInv, Login, Goes, TypeOK, Stages, BwrapInv, AtBwrap
<1> QED
    BY <1>1, <1>2, <1>3, <1>4 DEF IInv

LEMMA LoginAtOnceStep == ASSUME IInv, NEW s \in Starts, LoginAtOnce(s) PROVE IInv'
<1>1. TypeOK'
    BY StartsAssumption DEF IInv, LoginAtOnce, Abandons, Goes, Tells, apt, TypeOK, Stages
<1>2. LockInv' /\ WaitInv'
    BY StartsAssumption DEF IInv, LoginAtOnce, Abandons, AudioInstallDue, Goes, apt, TypeOK, Stages, LockInv, WaitInv
<1>3. SoundInv'
    BY DEF IInv, LoginAtOnce, Tells, TypeOK, SoundInv, SoundIsLocal
<1>4. BwrapInv'
    BY DEF IInv, LoginAtOnce, Goes, TypeOK, Stages, BwrapInv, AtBwrap
<1> QED
    BY <1>1, <1>2, <1>3, <1>4 DEF IInv

LEMMA LeaveStep == ASSUME IInv, NEW s \in Starts, Leave(s) PROVE IInv'
<1>1. TypeOK'
    BY StartsAssumption DEF IInv, Leave, Abandons, Goes, Tells, apt, TypeOK, Stages
<1>2. LockInv' /\ WaitInv'
    BY StartsAssumption DEF IInv, Leave, Abandons, AudioInstallDue, Goes, apt, TypeOK, Stages, LockInv, WaitInv
<1>3. SoundInv'
    BY DEF IInv, Leave, Tells, TypeOK, SoundInv, SoundIsLocal
<1>4. BwrapInv'
    BY DEF IInv, Leave, Goes, TypeOK, Stages, BwrapInv, AtBwrap
<1> QED
    BY <1>1, <1>2, <1>3, <1>4 DEF IInv

LEMMA AdriftEndsStep == ASSUME IInv, NEW s \in Starts, AdriftEnds(s) PROVE IInv'
<1>1. TypeOK'
    BY StartsAssumption DEF IInv, AdriftEnds, Goes, Tells, apt, TypeOK, Stages
<1>2. LockInv' /\ WaitInv'
    BY StartsAssumption DEF IInv, AdriftEnds, AudioInstallDue, Goes, apt, TypeOK, Stages, LockInv, WaitInv
<1>3. SoundInv'
    BY DEF IInv, AdriftEnds, Tells, TypeOK, SoundInv, SoundIsLocal
<1>4. BwrapInv'
    BY DEF IInv, AdriftEnds, Goes, TypeOK, Stages, BwrapInv, AtBwrap
<1> QED
    BY <1>1, <1>2, <1>3, <1>4 DEF IInv

LEMMA PackageUpdateStep == ASSUME IInv, PackageUpdate PROVE IInv'
BY DEF IInv, PackageUpdate, apt, TypeOK, LockInv, WaitInv, SoundInv, SoundIsLocal, BwrapInv, AtBwrap

LEMMA PulseEndsStep == ASSUME IInv, PulseEnds PROVE IInv'
BY DEF IInv, PulseEnds, apt, TypeOK, LockInv, WaitInv, SoundInv, SoundIsLocal, BwrapInv, AtBwrap

LEMMA DayPassesStep == ASSUME IInv, DayPasses PROVE IInv'
BY DEF IInv, DayPasses, apt, TypeOK, LockInv, WaitInv, SoundInv, SoundIsLocal, BwrapInv, AtBwrap

LEMMA Inductive == IInv /\ [Next]_vars => IInv'
<1> SUFFICES ASSUME IInv, [Next]_vars PROVE IInv'
    OBVIOUS
<1>1. ASSUME NEW s \in Starts, Step(s) PROVE IInv'
    BY <1>1, LookStep, RepointStep, ClearStep, MoveStep, PutShimStep, SoundStep, DueStep, LockStep,
       AptInstallsStep, AptFailsStep, WriteBackoffStep, RemoveBackoffStep, CheckPulseStep,
       ListModulesStep, UnloadStep, LoadStep, PactlFailsStep, LoginStep DEF Step
<1>2. CASE PackageUpdate \/ PulseEnds \/ DayPasses
    BY <1>2, PackageUpdateStep, PulseEndsStep, DayPassesStep
<1>3. CASE UNCHANGED vars
    BY <1>3 DEF vars, IInv, apt, TypeOK, LockInv, WaitInv, SoundInv, SoundIsLocal, BwrapInv, AtBwrap
<1> QED
    BY <1>1, <1>2, <1>3, LoginAtOnceStep, LeaveStep, AdriftEndsStep DEF Next

-----------------------------------------------------------------------------
(* The theorems.                                                           *)

THEOREM Invariant == Spec => []IInv
BY InitIInv, Inductive, PTL DEF Spec

\* Every variable of the starts keeps its type.
THEOREM TypeCorrect == Spec => []TypeOK
<1>1. IInv => TypeOK
    BY DEF IInv
<1> QED
    BY <1>1, Invariant, PTL

WaitStep ==
    \A s \in Starts : at[s] # "apt" /\ at'[s] = "apt" =>
        /\ \A t \in Starts : at'[t] = "apt" => t = s
        /\ backoff # "fresh" \/ s \in ahead

\* A start goes to apt-get when no other is there (termux.go:67-73), and within
\* a day of a failed install only when it was past the question by then
\* (audio.go:79-88).
THEOREM FailureIsWaitedOut == Spec => WaitsOut
<1>1. IInv /\ [Next]_vars => [WaitStep]_vars
    <2> SUFFICES ASSUME IInv, Next, NEW s \in Starts, at[s] # "apt", at'[s] = "apt"
                 PROVE  /\ \A t \in Starts : at'[t] = "apt" => t = s
                        /\ backoff # "fresh" \/ s \in ahead
        BY DEF WaitStep
    <2>1. Lock(s)
        BY DEF IInv, TypeOK, Next, Step, Goes, Look, Repoint, Clear, Move, PutShim, Sound, Due, Lock,
               AptInstalls, AptFails, WriteBackoff, RemoveBackoff, CheckPulse, ListModules, Unload,
               Load, PactlFails, Login, LoginAtOnce, Leave, AdriftEnds, PackageUpdate, PulseEnds,
               DayPasses
    <2>2. at[s] = "lock" /\ lock = "nobody" /\ at' = [at EXCEPT ![s] = "apt"]
        BY <2>1 DEF Lock, Goes, IInv, TypeOK
    <2> QED
        BY <2>2, StartsAssumption DEF IInv, TypeOK, LockInv, WaitInv
<1>2. [][WaitStep]_vars => WaitsOut
    BY PTL DEF WaitsOut, WaitStep
<1> QED
    BY <1>1, <1>2, Invariant, PTL DEF Spec

\* A start that was told that sound is set up has it on this phone only
\* (audio.go:122-156), whatever other starts and kills do.
THEOREM SoundStaysLocal == Spec => []SoundIsLocal
<1>1. IInv => SoundIsLocal
    BY DEF IInv, SoundInv
<1> QED
    BY <1>1, Invariant, PTL

OriginalStep == ("real" \in {bwrap, kept}) => (crossed' \/ "real" \in {bwrap', kept'})

\* The distro's own bwrap is in its place or beside it, unless two starts were
\* at it at once (configure.go:206-235).
THEOREM OriginalKept == Spec => KeepsOriginal
<1>1. IInv /\ [Next]_vars => [OriginalStep]_vars
    <2> SUFFICES ASSUME IInv, Next, "real" \in {bwrap, kept}, UNCHANGED crossed, ~crossed
                 PROVE  "real" \in {bwrap', kept'}
        BY DEF OriginalStep, Next, Step, Look, Sees, Repoint, Clear, Move, PutShim, Sound, Due, Lock, AptInstalls,
               AptFails, WriteBackoff, RemoveBackoff, CheckPulse, ListModules, Unload, Load,
               PactlFails, Login, LoginAtOnce, Leave, AdriftEnds, PackageUpdate, PulseEnds,
               DayPasses
    <2>1. ASSUME NEW s \in Starts, Clear(s) PROVE bwrap = "real" /\ UNCHANGED bwrap
        BY <2>1 DEF Clear, IInv, BwrapInv
    <2>2. ASSUME NEW s \in Starts, Move(s) PROVE "real" \in {bwrap', kept'}
        BY <2>2 DEF Move, IInv, BwrapInv
    <2>3. ASSUME NEW s \in Starts, PutShim(s) PROVE "real" \in {bwrap', kept'}
        BY <2>3 DEF PutShim
    <2>4. ASSUME NEW s \in Starts, Repoint(s) PROVE kept' = "real"
        BY <2>4 DEF Repoint, IInv, BwrapInv
    <2> QED
        BY <2>1, <2>2, <2>3, <2>4
        DEF Next, Step, Look, Sound, Due, Lock, AptInstalls, AptFails, WriteBackoff, RemoveBackoff,
            CheckPulse, ListModules, Unload, Load, PactlFails, Login, LoginAtOnce, Leave,
            AdriftEnds, PackageUpdate, PulseEnds, DayPasses
<1>2. [][OriginalStep]_vars => KeepsOriginal
    BY PTL DEF KeepsOriginal, OriginalStep
<1> QED
    BY <1>1, <1>2, Invariant, PTL DEF Spec
=============================================================================
