------------------------------- MODULE Start -------------------------------
(***************************************************************************)
(* What andronix start does before the login (internal/app/manage.go): it  *)
(* points the distro's bwrap at a stand-in (internal/rootfs/configure.go)  *)
(* and sets up Termux's PulseAudio (internal/app/sound.go,                 *)
(* internal/termux/audio.go), installing it when it is missing.  Starts of *)
(* one distro in several Termux sessions share all of that; only the       *)
(* package manager is behind a lock, which the kernel frees with its       *)
(* holder - while the apt-get that the holder ran may go on without it.    *)
(* One directory for bwrap: the next one is only looked at when the first  *)
(* has none.                                                               *)
(***************************************************************************)
CONSTANT Starts   \* the runs of andronix start

ASSUME StartsAssumption == "nobody" \notin Starts

VARIABLES
    at,       \* where each start is
    bwrap,    \* the distro's own bwrap: none, the real one, the stand-in, or an earlier one
    kept,     \* bwrap.andronix-real
    lock,     \* pkg.lock: the start that holds it
    pulse,    \* PulseAudio: missing, down, up
    adrift,   \* starts whose apt-get went on when they were killed or went on to the login
    module,   \* its TCP module: none, open (anonymous, every interface), local (loopback,
              \* or one that asks for a cookie)
    listed,   \* what a start read in the list of modules
    backoff,  \* pulseaudio-install-failed: none, fresh, or a day old
    sound,    \* what EnsureAudio said to each start
    ahead,    \* history: starts that had asked, and gone for the lock, when an install failed
    crossed,  \* history: two starts were at the same bwrap
    changed   \* history: since a start's sound was set up, the user's own changes

apt == <<lock, adrift, ahead>>

vars == <<at, bwrap, kept, lock, pulse, adrift, module, listed, backoff, sound, ahead, crossed,
          changed>>

Stages == {"look", "repoint", "clear", "move", "link", "sound", "due", "lock", "apt", "failed", "freed",
           "check", "list", "unload", "load", "login", "in"}

TypeOK ==
    /\ at \in [Starts -> Stages]
    /\ {bwrap, kept} \subseteq {"none", "real", "shim", "old"}
    /\ lock \in Starts \cup {"nobody"}
    /\ pulse \in {"missing", "down", "up"}
    /\ module \in {"none", "open", "local"}
    /\ listed \in [Starts -> {"none", "open", "local"}]
    /\ backoff \in {"none", "fresh", "old"}
    /\ sound \in [Starts -> {"none", "ok", "failed"}]
    /\ crossed \in BOOLEAN
    /\ {changed, adrift, ahead} \subseteq SUBSET Starts

Init ==
    /\ at = [s \in Starts |-> "look"]
    /\ kept \in {"none", "real"}
    /\ bwrap \in (IF kept = "none" THEN {"none", "real"} ELSE {"old"})
    /\ lock = "nobody" /\ pulse \in {"missing", "down"} /\ module = "none"
    /\ listed = [s \in Starts |-> "none"] /\ backoff = "none"
    /\ sound = [s \in Starts |-> "none"]
    /\ crossed = FALSE /\ changed = {} /\ adrift = {} /\ ahead = {}

Goes(s, stage) == at' = [at EXCEPT ![s] = stage]

-----------------------------------------------------------------------------
(* EnsureBwrapShim.                                                        *)

AtBwrap(s) == at[s] \in {"repoint", "clear", "move", "link"}

Sees(s) == crossed' = (crossed \/ \E t \in Starts : AtBwrap(t))

\* Mutant: the stand-in is not known again.
LookAnyFile(s) ==
    /\ at[s] = "look"
    /\ \/ bwrap = "none" /\ Goes(s, "sound") /\ UNCHANGED crossed
       \/ bwrap # "none" /\ Goes(s, "clear") /\ Sees(s)
    /\ UNCHANGED <<bwrap, kept, apt, pulse, module, listed, backoff, sound, changed>>

\* The distro's bwrap is moved, unless it is the stand-in already; an
\* earlier stand-in is only pointed at the new one.
Look(s) ==
    /\ at[s] = "look"
    /\ \/ bwrap \in {"none", "shim"} /\ Goes(s, "sound") /\ UNCHANGED crossed
       \/ bwrap = "real" /\ Goes(s, "clear") /\ Sees(s)
       \/ bwrap = "old" /\ Goes(s, "repoint") /\ Sees(s)
    /\ UNCHANGED <<bwrap, kept, apt, pulse, module, listed, backoff, sound, changed>>

\* Whatever is there by now is removed.
Repoint(s) ==
    /\ at[s] = "repoint" /\ Goes(s, "link") /\ bwrap' = "none"
    /\ UNCHANGED <<kept, apt, pulse, module, listed, backoff, sound, crossed, changed>>

Clear(s) ==
    /\ at[s] = "clear" /\ Goes(s, "move") /\ kept' = "none"
    /\ UNCHANGED <<bwrap, apt, pulse, module, listed, backoff, sound, crossed, changed>>

\* Whatever is there by now is moved; nothing there: that was all.
Move(s) ==
    /\ at[s] = "move"
    /\ IF bwrap = "none" THEN Goes(s, "sound") /\ UNCHANGED <<bwrap, kept>>
       ELSE Goes(s, "link") /\ kept' = bwrap /\ bwrap' = "none"
    /\ UNCHANGED <<apt, pulse, module, listed, backoff, sound, crossed, changed>>

PutShim(s) ==
    /\ at[s] = "link" /\ Goes(s, "sound")
    /\ bwrap' = (IF bwrap = "none" THEN "shim" ELSE bwrap)
    /\ UNCHANGED <<kept, apt, pulse, module, listed, backoff, sound, crossed, changed>>

-----------------------------------------------------------------------------
(* startSound.                                                             *)

AudioInstallDue == pulse = "missing" /\ backoff # "fresh"

Tells(s, what) == sound' = [sound EXCEPT ![s] = what] /\ changed' = changed \ {s}

\* An interactive start may install.  Another one, or one that waits out a
\* failed install, goes without sound when PulseAudio is missing.
Sound(s) ==
    /\ at[s] = "sound"
    /\ \/ AudioInstallDue /\ Goes(s, "due") /\ UNCHANGED <<sound, changed>>
       \/ pulse = "missing" /\ Goes(s, "login") /\ UNCHANGED <<sound, changed>>
       \/ pulse # "missing" /\ Goes(s, "check") /\ UNCHANGED <<sound, changed>>
    /\ UNCHANGED <<bwrap, kept, apt, pulse, module, listed, backoff, crossed>>

\* Mutant: EnsureAudio takes startSound's word for it.
DueAsAsked(s) ==
    /\ at[s] = "due"
    /\ Goes(s, IF pulse # "missing" THEN "check" ELSE "lock")
    /\ UNCHANGED <<bwrap, kept, apt, pulse, module, listed, backoff, sound, crossed, changed>>

\* EnsureAudio asks both questions again.
Due(s) ==
    /\ at[s] = "due"
    /\ Goes(s, IF pulse # "missing" THEN "check" ELSE IF AudioInstallDue THEN "lock" ELSE "login")
    /\ UNCHANGED <<bwrap, kept, apt, pulse, module, listed, backoff, sound, crossed, changed>>

\* pkgLock: taken, or refused at once.
Lock(s) ==
    /\ at[s] = "lock" /\ ahead' = ahead \ {s}
    /\ IF lock = "nobody" THEN lock' = s /\ Goes(s, "apt")
       ELSE Goes(s, "failed") /\ UNCHANGED lock
    /\ UNCHANGED <<bwrap, kept, pulse, adrift, module, listed, backoff, sound, crossed, changed>>

\* apt-get, with its one recovery, for twenty minutes at most.
AptInstalls(s) ==
    /\ at[s] = "apt" /\ lock' = "nobody" /\ Goes(s, "freed")
    /\ pulse' = (IF pulse = "missing" THEN "down" ELSE pulse)
    /\ UNCHANGED <<bwrap, kept, adrift, module, listed, backoff, sound, ahead, crossed, changed>>

\* Also for an apt-get that is adrift and has the packages.
AptFails(s) ==
    /\ at[s] = "apt" /\ lock' = "nobody" /\ Goes(s, "failed")
    /\ UNCHANGED <<bwrap, kept, pulse, adrift, module, listed, backoff, sound, ahead, crossed, changed>>

\* Written for a lock that was taken, too.  A file that is there gets its
\* time even when there is no room for its text.
WriteBackoff(s) ==
    /\ at[s] = "failed" /\ Goes(s, "login") /\ Tells(s, "failed")
    /\ \/ backoff' = "fresh" /\ ahead' = {t \in Starts : at[t] = "lock"}
       \/ backoff = "none" /\ UNCHANGED <<backoff, ahead>>
    /\ UNCHANGED <<bwrap, kept, lock, pulse, adrift, module, listed, crossed>>

RemoveBackoff(s) ==
    /\ at[s] = "freed" /\ Goes(s, "check") /\ backoff' = "none"
    /\ UNCHANGED <<bwrap, kept, apt, pulse, module, listed, sound, crossed, changed>>

\* pulseaudio --check, and --start when it does not run.  The user's
\* default.pa may load a module of its own.
CheckPulse(s) ==
    /\ at[s] = "check"
    /\ \/ pulse = "up" /\ Goes(s, "list") /\ UNCHANGED <<pulse, module, sound, changed>>
       \/ /\ pulse = "down" /\ pulse' = "up" /\ module' \in {"none", "open"}
          /\ Goes(s, "list") /\ UNCHANGED <<sound, changed>>
       \/ /\ pulse # "up" /\ Goes(s, "login") /\ Tells(s, "failed")
          /\ UNCHANGED <<pulse, module>>
    /\ UNCHANGED <<bwrap, kept, apt, listed, backoff, crossed>>

\* Mutant: any TCP module will do.
ListModulesAny(s) ==
    /\ at[s] = "list" /\ pulse = "up"
    /\ IF module # "none" THEN Goes(s, "login") /\ Tells(s, "ok")
       ELSE Goes(s, "load") /\ UNCHANGED <<sound, changed>>
    /\ UNCHANGED <<bwrap, kept, apt, pulse, module, listed, backoff, crossed>>

\* ensureTCP.
ListModules(s) ==
    /\ at[s] = "list" /\ pulse = "up"
    /\ listed' = [listed EXCEPT ![s] = module]
    /\ \/ module = "local" /\ Goes(s, "login") /\ Tells(s, "ok")
       \/ module = "open" /\ Goes(s, "unload") /\ UNCHANGED <<sound, changed>>
       \/ module = "none" /\ Goes(s, "load") /\ UNCHANGED <<sound, changed>>
    /\ UNCHANGED <<bwrap, kept, apt, pulse, module, backoff, crossed>>

\* By its number: a module that went meanwhile is an error.
Unload(s) ==
    /\ at[s] = "unload" /\ pulse = "up"
    /\ IF module = "open" THEN module' = "none" /\ Goes(s, "load") /\ UNCHANGED <<sound, changed>>
       ELSE Goes(s, "login") /\ Tells(s, "failed") /\ UNCHANGED module
    /\ UNCHANGED <<bwrap, kept, apt, pulse, listed, backoff, crossed>>

\* The port is free, or the module does not load.
Load(s) ==
    /\ at[s] = "load" /\ pulse = "up" /\ Goes(s, "login")
    /\ IF module = "none" THEN module' = "local" /\ Tells(s, "ok")
       ELSE UNCHANGED module /\ Tells(s, "failed")
    /\ UNCHANGED <<bwrap, kept, apt, pulse, listed, backoff, crossed>>

\* pactl does not reach the daemon.
PactlFails(s) ==
    /\ at[s] \in {"list", "unload", "load"} /\ pulse # "up"
    /\ Goes(s, "login") /\ Tells(s, "failed")
    /\ UNCHANGED <<bwrap, kept, apt, pulse, module, listed, backoff, crossed>>

Login(s) ==
    /\ at[s] = "login" /\ Goes(s, "in")
    /\ UNCHANGED <<bwrap, kept, apt, pulse, module, listed, backoff, sound, crossed, changed>>

-----------------------------------------------------------------------------
(* Around the starts.                                                      *)

\* Its lock goes with andronix.  An apt-get, or the dpkg it runs, may not.
Abandons(s) ==
    /\ lock' = (IF lock = s THEN "nobody" ELSE lock)
    /\ adrift' \in {adrift} \cup (IF at[s] = "apt" THEN {adrift \cup {s}} ELSE {})
    /\ ahead' = ahead \ {s}

\* Ctrl-C, or SIGTERM, in the step of an interactive start: the start goes on
\* to the login.  Until the login takes andronix's place the step may get
\* further (the steps above); this is the login that comes first.
LoginAtOnce(s) ==
    /\ at[s] \in {"due", "lock", "apt", "failed", "freed", "check", "list", "unload", "load"}
    /\ Goes(s, "in") /\ Abandons(s)
    /\ UNCHANGED <<bwrap, kept, pulse, module, listed, backoff, sound, crossed, changed>>

\* A session ends, or its start is killed; the same Termux session starts
\* the distro again.
Leave(s) ==
    /\ Goes(s, "look") /\ Abandons(s)
    /\ sound' = [sound EXCEPT ![s] = "none"]
    /\ UNCHANGED <<bwrap, kept, pulse, module, listed, backoff, crossed, changed>>

\* An apt-get without its start comes to its end, too.
AdriftEnds(s) ==
    /\ s \in adrift /\ adrift' = adrift \ {s}
    /\ pulse' \in {pulse} \cup (IF pulse = "missing" THEN {"down"} ELSE {})
    /\ UNCHANGED <<at, bwrap, kept, lock, module, listed, backoff, sound, ahead, crossed, changed>>

\* The distro's packages install bwrap, again or at last.
PackageUpdate ==
    /\ bwrap' = "real"
    /\ UNCHANGED <<at, kept, apt, pulse, module, listed, backoff, sound, crossed, changed>>

\* The daemon ends with what it has loaded.
PulseEnds ==
    /\ pulse = "up" /\ pulse' = "down" /\ module' = "none"
    /\ changed' = Starts
    /\ UNCHANGED <<at, bwrap, kept, apt, listed, backoff, sound, crossed>>

DayPasses ==
    /\ backoff = "fresh" /\ backoff' = "old"
    /\ UNCHANGED <<at, bwrap, kept, apt, pulse, module, listed, sound, crossed, changed>>

-----------------------------------------------------------------------------
Step(s) ==
    \/ Look(s) \/ Repoint(s) \/ Clear(s) \/ Move(s) \/ PutShim(s)
    \/ Sound(s) \/ Due(s) \/ Lock(s) \/ AptInstalls(s) \/ AptFails(s)
    \/ WriteBackoff(s) \/ RemoveBackoff(s)
    \/ CheckPulse(s) \/ ListModules(s) \/ Unload(s) \/ Load(s) \/ PactlFails(s) \/ Login(s)

Next ==
    \/ \E s \in Starts : Step(s) \/ LoginAtOnce(s) \/ Leave(s) \/ AdriftEnds(s)
    \/ PackageUpdate \/ PulseEnds \/ DayPasses

Spec == Init /\ [][Next]_vars

-----------------------------------------------------------------------------
(* Properties.                                                             *)

\* The distro's own bwrap is never lost: it is in its place or beside it,
\* wherever a start was killed and whatever the packages install.  Known to
\* lose it: two starts at one bwrap, the second of which moves the stand-in
\* of the first over the original.
KeepsOriginal ==
    [][("real" \in {bwrap, kept}) => (crossed' \/ "real" \in {bwrap', kept'})]_vars

\* A start that was told that sound is set up has it on this phone only, for
\* as long as the daemon runs: no other start, at any step, leaves the
\* anonymous module of every interface loaded.
SoundIsLocal ==
    \A s \in Starts \ changed : sound[s] = "ok" => module = "local"

\* A start goes to apt-get only when no other start is there, and not within
\* a day of an install that failed - however the starts interleave between
\* their question and the lock, and whichever is killed.  Left out by name:
\* starts that were past the question when the other's install failed
\* (ahead), one try each, and the apt-gets that no start is with (adrift).
WaitsOut ==
    [][\A s \in Starts : at[s] # "apt" /\ at'[s] = "apt" =>
            /\ \A t \in Starts : at'[t] = "apt" => t = s
            /\ backoff # "fresh" \/ s \in ahead]_vars
=============================================================================
