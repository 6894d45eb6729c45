------------------------------ MODULE Pausing ------------------------------
(***************************************************************************)
(* A body's tool calls, stopped for a letter and let go on (pausing.py and *)
(* the functions of pause.py it calls, _pause_for_letters, _free_ledger,   *)
(* _unstick and _hand_release in loom.py), and the lock of the ledger,     *)
(* which a stopped process may hold (append in ledger.py).                 *)
(*                                                                         *)
(* A call is a wrapper, on which the body waits, and the work under it.    *)
(* The loop is one thread: while it waits for the lock it does nothing     *)
(* else.  The body's own resume and drop are processes of their own.       *)
(***************************************************************************)
EXTENDS Naturals, FiniteSets

CONSTANTS
    Call,        \* the tool calls of one body
    Faults,      \* what may go wrong beside deaths between two pauses
    MaxCrashes   \* bound: deaths of the loop

\* The loop dies in the middle of a pause; a ps takes ten seconds and counts as
\* no process at all; the loop and a verb of the body change the record at once.
ASSUME PausingConstants ==
    Faults \subseteq {"mid-pause", "ps", "race"} /\ MaxCrashes \in Nat

VARIABLES
    wrapper,  \* of each call: none, live or gone
    work,     \* of each call: none, run, stopped or gone
    open,     \* calls whose work has ledger/facts/<install>/.lock open
    named,    \* of those, the ones whose command line names brnrd
    holder,   \* who holds that lock
    current,  \* calls begun after the last boundary (boundary_at)
    record,   \* calls in port/.paused.json
    due,      \* their resumes_at has passed
    ports,    \* _PAUSED of the loop has this port
    loop,     \* where the loop is in a tick, and in append
    verb,     \* the body's resume or drop, and the record it read
    body,     \* live, gone or released
    crashes

calls == <<wrapper, work, current>>
lock == <<open, named, holder>>
pausedVars == <<record, due>>
vars == <<calls, lock, pausedVars, ports, loop, verb, body, crashes>>

-----------------------------------------------------------------------------

At(step) == [step |-> step, todo |-> {}, at |-> {}, got |-> {}, append |-> "no"]
NoVerb == [act |-> "none", took |-> {}, done |-> FALSE]

Init ==
    /\ wrapper = [c \in Call |-> "none"] /\ work = [c \in Call |-> "none"]
    /\ open = {} /\ named = {} /\ holder = "nobody"
    /\ current = {}
    /\ record = {} /\ due = FALSE /\ ports = FALSE
    /\ loop = At("idle") /\ verb = NoVerb /\ body = "live" /\ crashes = 0

-----------------------------------------------------------------------------
(* The body and its calls *)

Begin(c) ==
    /\ body = "live" /\ wrapper[c] = "none"
    /\ wrapper' = [wrapper EXCEPT ![c] = "live"]
    /\ work' = [work EXCEPT ![c] = "run"]
    /\ current' = current \cup {c}
    /\ UNCHANGED <<lock, pausedVars, ports, loop, verb, body, crashes>>

\* A program under the call opens the lock: a verb of brnrd, which ps shows by
\* name, or a script that writes to the ledger itself.
OpenLock(c) ==
    /\ work[c] = "run" /\ c \notin open
    /\ open' = open \cup {c}
    /\ named' \in {named, named \cup {c}}
    /\ UNCHANGED <<calls, holder, pausedVars, ports, loop, verb, body, crashes>>

\* flock: whoever waits may be next, stopped or not.
TakeLock(c) ==
    /\ c \in open /\ holder = "nobody"
    /\ holder' = c
    /\ UNCHANGED <<calls, open, named, pausedVars, ports, loop, verb, body, crashes>>

LeaveLock(c) ==
    /\ work[c] = "run" /\ holder = c
    /\ holder' = "nobody" /\ open' = open \ {c} /\ named' = named \ {c}
    /\ UNCHANGED <<calls, pausedVars, ports, loop, verb, body, crashes>>

WorkEnds(c) ==
    /\ work[c] = "run" /\ c \notin open
    /\ work' = [work EXCEPT ![c] = "gone"]
    /\ UNCHANGED <<wrapper, current, lock, pausedVars, ports, loop, verb, body, crashes>>

\* The call returns: its work is done, or goes on in the background, or the
\* shell's own time limit ran out.
CallEnds(c) ==
    /\ wrapper[c] = "live"
    /\ wrapper' = [wrapper EXCEPT ![c] = "gone"]
    /\ UNCHANGED <<work, current, lock, pausedVars, ports, loop, verb, body, crashes>>

\* run_jack after a call, one of these or another, failed or not: what the
\* body began before is not its current call.
Boundary ==
    /\ body = "live"
    /\ current' = {}
    /\ UNCHANGED <<wrapper, work, lock, pausedVars, ports, loop, verb, body, crashes>>

BodyExits ==
    /\ body = "live" /\ body' = "gone"
    /\ UNCHANGED <<calls, lock, pausedVars, ports, loop, verb, crashes>>

-----------------------------------------------------------------------------
(* resume_pids, for the loop and for the verbs *)

\* SIGCONT to the work of some calls and everything under it.
Continued(some) ==
    [c \in Call |-> IF c \in some /\ work[c] = "stopped" THEN "run" ELSE work[c]]

\* Mutant: whatever was resumed, the record is cleared.
LeavesNothing(some) == record' = {} /\ due' = FALSE

\* What is left of the record.
Leaves(some) == record' = record \ some /\ due' = (due /\ record # some)

\* resume_pids: a call that is not among the processes leaves the record as it
\* is, and without an answer from ps none is.
Resume(some) ==
    /\ work' \in {Continued(some)} \cup (IF "ps" \in Faults THEN {work} ELSE {})
    /\ Leaves(some)

\* Nobody else changes the record.
Alone == "race" \in Faults \/ verb = NoVerb

\* The body's answer to a `paused:` line: the record is read,
Answer(act) ==
    /\ body = "live" /\ verb = NoVerb /\ record # {}
    /\ verb' = [act |-> act, took |-> record, done |-> FALSE]
    /\ UNCHANGED <<calls, lock, pausedVars, ports, loop, body, crashes>>

\* the work goes on, or is ended,
Signals ==
    /\ verb # NoVerb /\ ~verb.done
    /\ verb' = [verb EXCEPT !.done = TRUE]
    /\ IF verb.act = "resume"
       THEN work' = Continued(verb.took) /\ UNCHANGED lock
       ELSE /\ work' = [c \in Call |-> IF c \in verb.took THEN "gone" ELSE work[c]]
            /\ open' = open \ verb.took /\ named' = named \ verb.took
            /\ holder' = IF holder \in verb.took THEN "nobody" ELSE holder
    /\ UNCHANGED <<wrapper, current, pausedVars, ports, loop, body, crashes>>

\* and the file is unlinked, whatever it says by now.
Clears ==
    /\ verb.done
    /\ verb' = NoVerb /\ record' = {} /\ due' = FALSE
    /\ UNCHANGED <<calls, lock, ports, loop, body, crashes>>

\* CAP seconds are over.
CapPasses ==
    /\ record # {} /\ ~due /\ due' = TRUE
    /\ UNCHANGED <<calls, lock, record, ports, loop, verb, body, crashes>>

-----------------------------------------------------------------------------
(* The loop and the lock *)

InTick(step) == loop.step = step /\ loop.append # "waits"

\* free_lock: the paused calls whose work has the lock open are resumed, and a
\* port without a record is forgotten.
FreeLedger ==
    /\ Alone
    /\ IF ports THEN Resume(record \cap open) /\ ports' = (record' # {})
       ELSE UNCHANGED <<work, pausedVars, ports>>
    /\ UNCHANGED <<wrapper, current>>

\* _unstick, at the start of a tick: the lock is tried.
Unstick ==
    /\ InTick("start") \/ InTick("idle")
    /\ loop' = At("before")
    /\ IF holder # "nobody" THEN FreeLedger ELSE UNCHANGED <<calls, pausedVars, ports>>
    /\ UNCHANGED <<lock, verb, body, crashes>>

\* append: before it waits for the lock, whoever is stopped with it goes on.
\* With the lock it writes and leaves it; a pass writes one fact, or none.
AppendTries ==
    /\ loop.step \in {"start", "before", "after"} /\ loop.append = "no"
    /\ IF holder = "nobody"
       THEN loop' = [loop EXCEPT !.append = "done"] /\ UNCHANGED <<calls, pausedVars, ports>>
       ELSE loop' = [loop EXCEPT !.append = "waits"] /\ FreeLedger
    /\ UNCHANGED <<lock, verb, body, crashes>>

AppendTakes ==
    /\ loop.append = "waits" /\ holder = "nobody"
    /\ loop' = [loop EXCEPT !.append = "done"]
    /\ UNCHANGED <<calls, lock, pausedVars, ports, verb, body, crashes>>

-----------------------------------------------------------------------------
(* _pause_for_letters, of a live body *)

\* A pause unanswered for CAP seconds is over, all of it.
Sweep ==
    /\ InTick("before") /\ Alone
    /\ IF body = "live"
       THEN /\ loop' = At("look")
            /\ IF due THEN Resume(record) ELSE UNCHANGED <<work, pausedVars>>
       ELSE loop' = At("after") /\ UNCHANGED <<work, pausedVars>>
    /\ UNCHANGED <<wrapper, current, lock, ports, verb, body, crashes>>

\* The calls in a snapshot of ps that a letter stops: begun since the last
\* boundary, with work under them and no verb of brnrd among it.
Pausable == {c \in current : wrapper[c] = "live" /\ work[c] # "gone" /\ c \notin named}

\* Whether boundary.md shows a letter that the body has not seen, on any tick.
Look ==
    /\ InTick("look") /\ Alone
    /\ \/ /\ record = {} /\ Pausable # {}
          /\ loop' = [loop EXCEPT !.step = "pause", !.todo = Pausable]
       \/ loop' = At("after")
    /\ UNCHANGED <<calls, lock, pausedVars, ports, verb, body, crashes>>

\* pause_call: SIGSTOP to the work as the snapshot had it.
Stop(c) ==
    /\ InTick("pause") /\ loop.at = {} /\ c \in loop.todo
    /\ loop' = [loop EXCEPT !.todo = @ \ {c}, !.at = {c}]
    /\ work' = [work EXCEPT ![c] = IF @ = "run" THEN "stopped" ELSE @]
    /\ UNCHANGED <<wrapper, current, lock, pausedVars, ports, verb, body, crashes>>

\* SIGKILL to the wrapper; if the call ended meanwhile its work goes on.
Kill(c) ==
    /\ InTick("pause") /\ loop.at = {c}
    /\ IF wrapper[c] = "live"
       THEN /\ wrapper' = [wrapper EXCEPT ![c] = "gone"]
            /\ loop' = [loop EXCEPT !.at = {}, !.got = @ \cup {c}]
            /\ UNCHANGED work
       ELSE /\ work' = Continued({c})
            /\ loop' = [loop EXCEPT !.at = {}]
            /\ UNCHANGED wrapper
    /\ UNCHANGED <<current, lock, pausedVars, ports, verb, body, crashes>>

\* write_paused_record
Records ==
    /\ InTick("pause") /\ loop.at = {} /\ loop.todo = {}
    /\ loop' = At("after")
    /\ IF loop.got # {}
       THEN record' = loop.got /\ due' = FALSE /\ ports' = TRUE
       ELSE UNCHANGED <<pausedVars, ports>>
    /\ UNCHANGED <<calls, lock, verb, body, crashes>>

\* Mutant: a body gone with its call paused is released as it is.
ReleaseOnly ==
    /\ InTick("after") /\ body = "gone" /\ Alone
    /\ body' = "released"
    /\ UNCHANGED <<calls, lock, pausedVars, ports, loop, verb, crashes>>

\* _hand_release: nobody is left to resume what a body gone had paused.
Release ==
    /\ InTick("after") /\ body = "gone" /\ Alone
    /\ body' = "released"
    /\ Resume(record)
    /\ UNCHANGED <<wrapper, current, lock, ports, loop, verb, crashes>>

TickEnds ==
    /\ InTick("after")
    /\ loop' = At("idle")
    /\ UNCHANGED <<calls, lock, pausedVars, ports, verb, body, crashes>>

\* The loop dies, or starts its new code.
Crash ==
    /\ loop.step # "off" /\ crashes < MaxCrashes
    /\ loop.step = "pause" => "mid-pause" \in Faults
    /\ crashes' = crashes + 1
    /\ loop' = At("off") /\ ports' = FALSE
    /\ UNCHANGED <<calls, lock, pausedVars, verb, body>>

\* Mutant: a new loop knows of no pause.
RestartForgets ==
    /\ loop.step = "off"
    /\ loop' = At("start")
    /\ UNCHANGED <<calls, lock, pausedVars, ports, verb, body, crashes>>

\* run: a pause outlives the loop on disk, and a fact is written before the
\* first tick.
Restart ==
    /\ loop.step = "off"
    /\ loop' = At("start") /\ ports' = (record # {})
    /\ UNCHANGED <<calls, lock, pausedVars, verb, body, crashes>>

-----------------------------------------------------------------------------

Next ==
    \/ \E c \in Call :
        \/ Begin(c) \/ OpenLock(c) \/ TakeLock(c) \/ LeaveLock(c)
        \/ WorkEnds(c) \/ CallEnds(c) \/ Stop(c) \/ Kill(c)
    \/ Boundary \/ BodyExits
    \/ Answer("resume") \/ Answer("drop") \/ Signals \/ Clears \/ CapPasses
    \/ Unstick \/ AppendTries \/ AppendTakes
    \/ Sweep \/ Look \/ Records \/ Release \/ TickEnds \/ Crash \/ Restart

Spec == Init /\ [][Next]_vars

\* The loop ticks; a program that runs leaves the lock in the end, a verb ends,
\* time passes, and flock passes nobody over for ever.
Fairness ==
    /\ WF_vars(Unstick) /\ WF_vars(Sweep) /\ WF_vars(Look) /\ WF_vars(Records)
    /\ SF_vars(Release) /\ WF_vars(TickEnds) /\ WF_vars(Restart)
    /\ SF_vars(AppendTakes)
    /\ WF_vars(Signals) /\ WF_vars(Clears) /\ WF_vars(CapPasses)
    /\ \A c \in Call : /\ WF_vars(Stop(c)) /\ WF_vars(Kill(c))
                       /\ WF_vars(LeaveLock(c)) /\ SF_vars(TakeLock(c))

FairSpec == Spec /\ Fairness

-----------------------------------------------------------------------------
(* What pausing promises *)

\* A stopped process is on record, or about to be: nobody else would find it
\* (pause.py, release_all: a pause that no record names is a leak).
StoppedIsRecorded ==
    \A c \in Call : work[c] = "stopped" =>
        c \in record \/ (loop.step = "pause" /\ c \in loop.at \cup loop.got)

\* The loop gets the ledger's lock whenever it waits for it, whoever was stopped
\* holding it or waiting for it (pausing.py:14, "A stopped process that holds the
\* ledger lock freezes every writer, the loom included").
LockPasses == (loop.append = "waits") ~> (loop.append # "waits")

\* pausing.py:31, "Unanswered, a pause resumes itself: a stopped process is a
\* leak past this": with no more calls to come, in the end nothing is stopped.
PauseEnds == (\E c \in Call : work[c] = "stopped") ~> (\A c \in Call : work[c] # "stopped")
=============================================================================
