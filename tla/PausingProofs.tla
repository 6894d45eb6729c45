--------------------------- MODULE PausingProofs ---------------------------
(***************************************************************************)
(* That what is stopped is on record, for any calls and any number of      *)
(* deaths of the loop between two pauses.                                  *)
(***************************************************************************)
EXTENDS Pausing, TLAPS

Steps == {"start", "idle", "before", "look", "pause", "after", "off"}

\* The types the argument needs.
Types ==
    /\ work \in [Call -> {"none", "run", "stopped", "gone"}]
    /\ record \subseteq Call /\ current \subseteq Call
    /\ loop \in [step : Steps, todo : SUBSET Call, at : SUBSET Call, got : SUBSET Call,
                 append : {"no", "waits", "done"}]
    /\ verb \in [act : {"none", "resume", "drop"}, took : SUBSET Call, done : BOOLEAN]

\* A pause begins with no record and with no verb at one, and neither comes up
\* before it ends.
PauseIsAlone == loop.step = "pause" => record = {} /\ verb = NoVerb

\* What a verb read is still what the record says when it unlinks it, and is
\* not stopped any more.
VerbIsTrue ==
    /\ verb # NoVerb => verb.took = record
    /\ verb.done => \A c \in verb.took : work[c] # "stopped"

IInv == Types /\ PauseIsAlone /\ VerbIsTrue /\ StoppedIsRecorded

-----------------------------------------------------------------------------

\* Nothing is stopped by letting work go on (_signal_with_subtree).
LEMMA ContinuedWork ==
    ASSUME NEW some \in SUBSET Call, Types
    PROVE  /\ Continued(some) \in [Call -> {"none", "run", "stopped", "gone"}]
           /\ \A c \in Call : Continued(some)[c] = "stopped" => work[c] = "stopped" /\ c \notin some
BY DEF Continued, Types

\* What resume_pids does to some of the recorded calls, if ps answers and no
\* verb of the body is at the record.
LEMMA ResumeKeeps ==
    ASSUME IInv, Faults = {}, NEW some \in SUBSET record, Resume(some), Alone,
           verb' = verb, current' = current,
           loop' \in [step : Steps, todo : SUBSET Call, at : SUBSET Call,
                      got : SUBSET Call, append : {"no", "waits", "done"}],
           loop.step # "pause", loop'.step # "pause"
    PROVE  IInv'
<1>1. some \in SUBSET Call
  BY DEF IInv, Types
<1>2. verb = NoVerb
  BY DEF Alone
<1>3. work' = Continued(some) /\ record' = record \ some
  BY DEF Resume, Leaves
<1>4. Types'
  BY <1>1, <1>3, ContinuedWork DEF IInv, Types
<1>5. PauseIsAlone' /\ VerbIsTrue'
  BY <1>2 DEF PauseIsAlone, VerbIsTrue, NoVerb
<1>6. StoppedIsRecorded'
  BY <1>1, <1>3, ContinuedWork DEF IInv, StoppedIsRecorded
<1> QED
  BY <1>4, <1>5, <1>6 DEF IInv

\* free_lock, or nothing, in a step that is no part of a pause.
LEMMA FreeLedgerKeeps ==
    ASSUME IInv, Faults = {}, FreeLedger, verb' = verb, current' = current,
           loop' \in [step : Steps, todo : SUBSET Call, at : SUBSET Call,
                      got : SUBSET Call, append : {"no", "waits", "done"}],
           loop.step # "pause", loop'.step # "pause"
    PROVE  IInv'
<1>1. CASE ports
  <2>1. Alone /\ Resume(record \cap open)
    BY <1>1 DEF FreeLedger
  <2> QED
    BY <2>1, ResumeKeeps
<1>2. CASE ~ports
  <2>1. work' = work /\ record' = record
    BY <1>2 DEF FreeLedger, pausedVars
  <2> QED
    BY <2>1 DEF IInv, Types, PauseIsAlone, VerbIsTrue, StoppedIsRecorded
<1> QED
  BY <1>1, <1>2

-----------------------------------------------------------------------------

\* The loop's part of IInv is left alone by all but the loop.
LEMMA CallsKeep ==
    ASSUME IInv, NEW c \in Call,
           Begin(c) \/ OpenLock(c) \/ TakeLock(c) \/ LeaveLock(c) \/ WorkEnds(c) \/ CallEnds(c)
    PROVE  IInv'
<1>1. UNCHANGED <<record, loop, verb>>
  BY DEF Begin, OpenLock, TakeLock, LeaveLock, WorkEnds, CallEnds, pausedVars
<1>2. /\ work' \in [Call -> {"none", "run", "stopped", "gone"}]
      /\ \A d \in Call : work'[d] = "stopped" => work[d] = "stopped"
  BY DEF IInv, Types, Begin, OpenLock, TakeLock, LeaveLock, WorkEnds, CallEnds, calls
<1>3. Types' /\ PauseIsAlone'
  <2>1. current' \in SUBSET Call
    BY DEF IInv, Types, Begin, OpenLock, TakeLock, LeaveLock, WorkEnds, CallEnds, calls
  <2> QED
    BY <1>1, <1>2, <2>1 DEF IInv, Types, PauseIsAlone
<1>4. VerbIsTrue' /\ StoppedIsRecorded'
  BY <1>1, <1>2 DEF IInv, Types, VerbIsTrue, StoppedIsRecorded
<1> QED
  BY <1>3, <1>4 DEF IInv

\* The body's resume or drop: reads, signals, clears.
LEMMA VerbKeeps ==
    ASSUME IInv, Answer("resume") \/ Answer("drop") \/ Signals \/ Clears
    PROVE  IInv'
<1>1. CASE Answer("resume") \/ Answer("drop")
  <2>1. /\ record # {} /\ UNCHANGED <<work, record, loop, current>>
        /\ verb'.took = record /\ verb'.done = FALSE
    BY <1>1 DEF Answer, calls, pausedVars
  <2>2. PICK act \in {"resume", "drop"} : verb' = [act |-> act, took |-> record, done |-> FALSE]
    BY <1>1 DEF Answer
  <2>3. Types'
    BY <2>1, <2>2 DEF IInv, Types
  <2>4. loop.step # "pause"
    BY <2>1 DEF IInv, PauseIsAlone
  <2> QED
    BY <2>1, <2>3, <2>4 DEF IInv, PauseIsAlone, VerbIsTrue, StoppedIsRecorded
<1>2. CASE Signals
  <2>1. /\ verb # NoVerb /\ UNCHANGED <<record, loop, current>>
        /\ verb' = [verb EXCEPT !.done = TRUE]
    BY <1>2 DEF Signals, pausedVars
  <2>2. verb.took \in SUBSET Call /\ loop.step # "pause"
    BY <2>1 DEF IInv, Types, PauseIsAlone
  <2>3. /\ work' \in [Call -> {"none", "run", "stopped", "gone"}]
        /\ \A d \in Call : work'[d] = "stopped" => work[d] = "stopped" /\ d \notin verb.took
    <3>1. CASE work' = Continued(verb.took)
      BY <3>1, <2>2, ContinuedWork DEF IInv
    <3>2. CASE work' = [d \in Call |-> IF d \in verb.took THEN "gone" ELSE work[d]]
      BY <3>2 DEF IInv, Types
    <3> QED
      BY <1>2, <3>1, <3>2 DEF Signals
  <2>4. verb'.took = verb.took /\ Types'
    BY <2>1, <2>3 DEF IInv, Types
  <2> QED
    BY <2>1, <2>2, <2>3, <2>4 DEF IInv, PauseIsAlone, VerbIsTrue, StoppedIsRecorded
<1>3. CASE Clears
  <2>1. verb.done /\ verb' = NoVerb /\ record' = {} /\ UNCHANGED <<work, loop, current>>
    BY <1>3 DEF Clears, calls
  <2>2. verb.took = record /\ loop.step # "pause"
    BY <2>1 DEF IInv, VerbIsTrue, PauseIsAlone, NoVerb
  <2>3. \A c \in Call : work[c] # "stopped"
    BY <2>1, <2>2 DEF IInv, VerbIsTrue, StoppedIsRecorded
  <2> QED
    BY <2>1, <2>3 DEF IInv, Types, PauseIsAlone, VerbIsTrue, StoppedIsRecorded, NoVerb
<1> QED
  BY <1>1, <1>2, <1>3

\* pause_call, from the snapshot to the record.
LEMMA PauseKeeps ==
    ASSUME IInv, Faults = {}, Look \/ Records \/ \E c \in Call : Stop(c) \/ Kill(c)
    PROVE  IInv'
<1>1. CASE Look
  <2>1. UNCHANGED <<work, record, verb, current>> /\ verb = NoVerb /\ loop.step # "pause"
    BY <1>1 DEF Look, InTick, Alone, calls, pausedVars
  <2>2. loop'.step = "pause" => record = {}
    BY <1>1 DEF Look, At
  <2>3. Types'
    <3>1. Pausable \in SUBSET Call
      BY DEF Pausable, IInv, Types
    <3>2. \/ loop' = [loop EXCEPT !.step = "pause", !.todo = Pausable]
          \/ loop' = At("after")
      BY <1>1 DEF Look
    <3>3. loop' \in [step : Steps, todo : SUBSET Call, at : SUBSET Call, got : SUBSET Call,
                     append : {"no", "waits", "done"}]
      <4>1. CASE loop' = [loop EXCEPT !.step = "pause", !.todo = Pausable]
        BY <3>1, <4>1 DEF IInv, Types, Steps
      <4>2. CASE loop' = At("after")
        BY <4>2 DEF At, Steps
      <4> QED
        BY <3>2, <4>1, <4>2
    <3> QED
      BY <2>1, <3>3 DEF IInv, Types
  <2> QED
    BY <2>1, <2>2, <2>3 DEF IInv, PauseIsAlone, VerbIsTrue, StoppedIsRecorded, NoVerb
<1>2. ASSUME NEW c \in Call, Stop(c)
      PROVE  IInv'
  <2>1. /\ loop.step = "pause" /\ loop.at = {} /\ UNCHANGED <<record, verb, current>>
        /\ loop' = [loop EXCEPT !.todo = @ \ {c}, !.at = {c}]
        /\ work' = [work EXCEPT ![c] = IF @ = "run" THEN "stopped" ELSE @]
    BY <1>2 DEF Stop, InTick, pausedVars
  <2>2. Types' /\ loop'.step = "pause" /\ loop'.at = {c} /\ loop'.got = loop.got
    BY <2>1 DEF IInv, Types
  <2>3. \A d \in Call : d # c => work'[d] = work[d]
    BY <2>1 DEF IInv, Types
  <2>4. PauseIsAlone' /\ VerbIsTrue'
    BY <2>1, <2>2 DEF IInv, PauseIsAlone, VerbIsTrue, NoVerb
  <2>5. StoppedIsRecorded'
    BY <2>1, <2>2, <2>3 DEF IInv, StoppedIsRecorded
  <2> QED
    BY <2>2, <2>4, <2>5 DEF IInv
<1>3. ASSUME NEW c \in Call, Kill(c)
      PROVE  IInv'
  <2>1. loop.step = "pause" /\ loop.at = {c} /\ UNCHANGED <<record, verb, current>>
    BY <1>3 DEF Kill, InTick, pausedVars
  <2>2. CASE /\ loop' = [loop EXCEPT !.at = {}, !.got = @ \cup {c}]
             /\ UNCHANGED work
    <3>1. Types' /\ loop'.step = "pause" /\ loop'.at = {} /\ loop'.got = loop.got \cup {c}
      BY <2>1, <2>2 DEF IInv, Types
    <3> QED
      BY <2>1, <2>2, <3>1 DEF IInv, PauseIsAlone, VerbIsTrue, StoppedIsRecorded, NoVerb
  <2>3. CASE work' = Continued({c}) /\ loop' = [loop EXCEPT !.at = {}]
    <3>1. /\ work' \in [Call -> {"none", "run", "stopped", "gone"}]
          /\ \A d \in Call : work'[d] = "stopped" => work[d] = "stopped" /\ d # c
      BY <2>3, ContinuedWork DEF IInv
    <3>2. Types' /\ loop'.step = "pause" /\ loop'.at = {} /\ loop'.got = loop.got
      BY <2>1, <2>3, <3>1 DEF IInv, Types
    <3> QED
      BY <2>1, <3>1, <3>2 DEF IInv, PauseIsAlone, VerbIsTrue, StoppedIsRecorded, NoVerb
  <2> QED
    BY <1>3, <2>2, <2>3 DEF Kill
<1>4. CASE Records
  <2>1. /\ loop.step = "pause" /\ loop.at = {} /\ loop' = At("after")
        /\ UNCHANGED <<work, verb, current>> /\ record = {} /\ verb = NoVerb
    BY <1>4 DEF Records, InTick, calls, IInv, PauseIsAlone
  <2>2. record' = loop.got
    BY <1>4, <2>1 DEF Records, pausedVars
  <2> QED
    BY <2>1, <2>2 DEF IInv, Types, At, Steps, PauseIsAlone, VerbIsTrue, StoppedIsRecorded, NoVerb
<1> QED
  BY <1>1, <1>2, <1>3, <1>4

\* The rest of a tick, and what comes of itself.
LEMMA LoopKeeps ==
    ASSUME IInv, Faults = {},
           \/ Boundary \/ BodyExits \/ CapPasses
           \/ Unstick \/ AppendTries \/ AppendTakes
           \/ Sweep \/ Release \/ TickEnds \/ Crash \/ Restart
    PROVE  IInv'
<1> DEFINE LoopType == [step : Steps, todo : SUBSET Call, at : SUBSET Call, got : SUBSET Call,
                        append : {"no", "waits", "done"}]
<1>1. CASE Boundary \/ BodyExits \/ CapPasses
  <2>1. UNCHANGED <<work, record, loop, verb>> /\ current' \in {current, {}}
    BY <1>1 DEF Boundary, BodyExits, CapPasses, calls, pausedVars
  <2> QED
    BY <2>1 DEF IInv, Types, PauseIsAlone, VerbIsTrue, StoppedIsRecorded
<1>2. CASE Unstick
  <2>1. /\ verb' = verb /\ current' = current
        /\ loop.step # "pause" /\ loop' = At("before") /\ loop'.step # "pause"
    BY <1>2 DEF Unstick, InTick, FreeLedger, At, calls
  <2>2. loop' \in LoopType
    BY <2>1 DEF At, Steps
  <2>3. CASE FreeLedger
    BY <2>1, <2>2, <2>3, FreeLedgerKeeps
  <2>4. CASE UNCHANGED <<calls, pausedVars, ports>>
    BY <2>1, <2>2, <2>4
    DEF calls, pausedVars, IInv, Types, PauseIsAlone, VerbIsTrue, StoppedIsRecorded
  <2> QED
    BY <1>2, <2>3, <2>4 DEF Unstick
<1>3. CASE AppendTries
  <2>1. /\ verb' = verb /\ current' = current /\ loop.step # "pause"
        /\ \E a \in {"waits", "done"} : loop' = [loop EXCEPT !.append = a]
    BY <1>3 DEF AppendTries, FreeLedger, calls
  <2>2. loop' \in LoopType /\ loop'.step # "pause"
    BY <2>1 DEF IInv, Types
  <2>3. CASE FreeLedger
    BY <2>1, <2>2, <2>3, FreeLedgerKeeps
  <2>4. CASE UNCHANGED <<calls, pausedVars, ports>>
    BY <2>1, <2>2, <2>4
    DEF calls, pausedVars, IInv, Types, PauseIsAlone, VerbIsTrue, StoppedIsRecorded
  <2> QED
    BY <1>3, <2>3, <2>4 DEF AppendTries
<1>4. CASE AppendTakes
  <2>1. UNCHANGED <<work, record, verb, current>> /\ loop' = [loop EXCEPT !.append = "done"]
    BY <1>4 DEF AppendTakes, calls, pausedVars
  <2>2. loop' \in LoopType /\ loop'.step = loop.step /\ loop'.at = loop.at /\ loop'.got = loop.got
    BY <2>1 DEF IInv, Types
  <2> QED
    BY <2>1, <2>2 DEF IInv, Types, PauseIsAlone, VerbIsTrue, StoppedIsRecorded
<1>5. CASE Sweep
  <2>1. /\ Alone /\ verb' = verb /\ current' = current /\ loop.step # "pause"
        /\ \E step \in {"look", "after"} : loop' = At(step)
    BY <1>5 DEF Sweep, InTick
  <2>2. loop' \in LoopType /\ loop'.step # "pause"
    BY <2>1 DEF At, Steps
  <2>3. CASE Resume(record)
    BY <2>1, <2>2, <2>3, ResumeKeeps
  <2>4. CASE UNCHANGED <<work, pausedVars>>
    BY <2>1, <2>2, <2>4 DEF pausedVars, IInv, Types, PauseIsAlone, VerbIsTrue, StoppedIsRecorded
  <2> QED
    BY <1>5, <2>3, <2>4 DEF Sweep
<1>6. CASE Release
  <2>1. /\ Alone /\ verb' = verb /\ current' = current /\ loop' = loop /\ loop.step # "pause"
        /\ Resume(record)
    BY <1>6 DEF Release, InTick
  <2> QED
    BY <2>1, ResumeKeeps DEF IInv, Types
<1>7. CASE TickEnds \/ Crash \/ Restart
  <2>1. /\ UNCHANGED <<work, record, verb, current>> /\ loop.step # "pause"
        /\ \E step \in {"idle", "off", "start"} : loop' = At(step)
    BY <1>7 DEF TickEnds, Crash, Restart, InTick, calls, pausedVars
  <2>2. loop' \in LoopType /\ loop'.step # "pause"
    BY <2>1 DEF At, Steps
  <2> QED
    BY <2>1, <2>2 DEF IInv, Types, PauseIsAlone, VerbIsTrue, StoppedIsRecorded
<1> QED
  BY <1>1, <1>2, <1>3, <1>4, <1>5, <1>6, <1>7

-----------------------------------------------------------------------------

\* A stopped process is on record or about to be, whatever its calls, the
\* body, the lock and the deaths of the loop do (pause_call, resume_pids,
\* drop_pids, free_lock), but for the three faults of the README.
THEOREM WhatIsStoppedIsRecorded ==
    ASSUME Faults = {}
    PROVE  Spec => []StoppedIsRecorded
<1>1. Init => IInv
  BY DEF Init, At, NoVerb, Steps, IInv, Types, PauseIsAlone, VerbIsTrue, StoppedIsRecorded
<1>2. IInv /\ [Next]_vars => IInv'
  <2>1. ASSUME IInv, Next
        PROVE  IInv'
    BY <2>1, CallsKeep, VerbKeeps, PauseKeeps, LoopKeeps DEF Next
  <2>2. ASSUME IInv, UNCHANGED vars
        PROVE  IInv'
    BY <2>2 DEF vars, calls, pausedVars, IInv, Types, PauseIsAlone, VerbIsTrue, StoppedIsRecorded
  <2> QED
    BY <2>1, <2>2
<1>3. IInv => StoppedIsRecorded
  BY DEF IInv
<1> QED
  BY <1>1, <1>2, <1>3, PTL DEF Spec
=============================================================================
