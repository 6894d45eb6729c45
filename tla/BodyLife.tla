------------------------------ MODULE BodyLife ------------------------------
(***************************************************************************)
(* The life of the bodies of one thread on one install: the decision table *)
(* of src/brr/loom/runtime/bodies.py and the hands of loom.py that carry   *)
(* its commands out.                                                       *)
(*                                                                         *)
(* Every tick the loop observes the body, looks the folded facts up in the *)
(* table and performs the commands of the first row that matches, one by   *)
(* one.  The body is a process of its own that may end, or write to its    *)
(* port, between any two commands; the loop may die between any two        *)
(* commands and come back; an operator's `threads --force` runs the same   *)
(* code in a second process.                                               *)
(***************************************************************************)
EXTENDS Naturals, Sequences

CONSTANTS
    MaxGen,      \* bound: leases granted on the thread
    MaxOut,      \* bound: files waiting in one body's port
    MaxCrashes   \* bound: deaths of the loop or of the operator's command

ASSUME BoundsOK == MaxGen \in Nat \ {0} /\ MaxOut \in Nat /\ MaxCrashes \in Nat

Actor == {"loop", "cli"}
Gens  == 1 .. MaxGen

VARIABLES
    gen,       \* generation of the thread's latest lease, 0 before the first
    facts,     \* the facts of that generation, folded (bodies.State)
    process,   \* per generation: none, live (holds the flock on .body), gone
    out,       \* per generation: files the body left in port/out
    closed,    \* the thread's status is in CLOSED
    due,       \* the deadline of the latest body.leaving has passed
    waited,    \* the `until` of the latest body.parked has passed
    letgo,     \* port/in/hold tells a held body to end
    todo,      \* per actor: commands still to perform in this pass
    starting,  \* who holds the flock on room/.starting: an actor or "nobody"
    crashes,
    conflict,  \* a once-only fact was appended with a second content
    refused    \* row_for found no row

vars == <<gen, facts, process, out, closed, due, waited, letgo, todo, starting,
          crashes, conflict, refused>>

-----------------------------------------------------------------------------
(* The fold of a generation's facts *)

\* Mutant: a parked body is not one that can start.
StartableWantedOnly == {"wanted"}

Startable == {"wanted", "parked"}

\* Mutant: a body nobody could identify is not one that can be found dead.
LiveIdentified == {"running", "leaving", "stopping"}

Live == {"running", "leaving", "stopping", "unidentified"}

\* The kinds the registry declares once per strand and generation.
Once == {"shown", "body.pending", "body.started", "body.stopped",
         "body.exited", "attempt.ended", "port.drained", "released"}

Unborn == [name |-> "wanted", identified |-> TRUE, has |-> {},
           last |-> "none"]

\* Mutant: a body is running from body.started on, not from `shown` on.
FoldFromStarted(s, kind) ==
    [ name |->
        CASE kind = "body.parked" -> "parked"
          [] kind \in {"body.started", "body.stayed"} -> "running"
          [] kind = "body.leaving" -> "leaving"
          [] kind = "body.unidentified" -> "unidentified"
          [] OTHER -> s.name,
      identified |->
        CASE kind = "body.leaving" -> TRUE
          [] kind = "body.unidentified" -> FALSE
          [] OTHER -> s.identified,
      has |-> IF kind \in Once THEN s.has \cup {kind} ELSE s.has,
      last |-> IF kind \in {"shown", "attempt.ended", "port.drained", "released"}
               THEN s.last ELSE kind ]

\* _state_of: one turn of its loop.
Fold(s, kind) ==
    [ name |->
        CASE kind = "body.parked" -> "parked"
          [] kind = "shown" /\ s.name \in Startable -> "running"
          [] kind \in {"body.started", "body.stayed"} -> "running"
          [] kind = "body.leaving" -> "leaving"
          [] kind = "body.unidentified" -> "unidentified"
          [] OTHER -> s.name,
      identified |->
        CASE kind = "body.leaving" -> TRUE
          [] kind = "body.unidentified" -> FALSE
          [] OTHER -> s.identified,
      has |-> IF kind \in Once THEN s.has \cup {kind} ELSE s.has,
      last |-> IF kind \in {"shown", "attempt.ended", "port.drained", "released"}
               THEN s.last ELSE kind ]

\* _state_of: the name, once the loop is done.
StateName(s, alive) ==
    IF "attempt.ended" \in s.has THEN "ended"
    ELSE IF "body.exited" \in s.has THEN "exited"
    ELSE IF "body.stopped" \in s.has THEN "stopping"
    ELSE IF alive /\ s.name \in Startable THEN "running"
    ELSE s.name

-----------------------------------------------------------------------------
(* The table *)

\* Mutants: the release before the attestation, and the end before the drain.
CleanupReleaseFirst == <<"drain", "release", "drained">>

Cleanup == <<"drain", "drained", "release">>
FinishEndFirst == <<"collect", "exit", "end">> \o Cleanup

Finish == <<"collect", "drain", "exit", "end">> \o Cleanup

TableRow(states, when, commands) ==
    [states |-> states, when |-> when, commands |-> commands]

\* Mutant: the signal before the record of it.
StopRowSignalFirst == TableRow({"leaving"}, "alive, due, proven", <<"signal", "stopped">>)

\* The stop is on record before the signal goes out.
StopRow == TableRow({"leaving"}, "alive, due, proven", <<"stopped", "signal">>)

Table == <<
    TableRow(Startable, "closed", <<"end">> \o Cleanup),
    TableRow(Startable, "failure", <<"exit", "end">> \o Cleanup),
    TableRow(Startable, "pinned away", <<"end">> \o Cleanup),
    TableRow({"wanted"}, "fenced", <<>>),
    TableRow({"parked"}, "fenced", <<>>),
    TableRow({"parked"}, "woken on another body", <<"end">> \o Cleanup),
    TableRow({"wanted"}, "memory pressed", <<"pending">>),
    TableRow({"parked"}, "memory pressed", <<>>),
    TableRow({"parked"}, "gauge unknown, before until", <<>>),
    TableRow({"parked"}, "gauge refreshing", <<>>),
    TableRow({"wanted"}, "gauge refreshing", <<"pending">>),
    TableRow({"parked"}, "gauge empty", <<>>),
    TableRow(Startable, "gauge empty", <<"park">>),
    TableRow(Startable, "gauge not empty", <<"prepare", "shown", "spawn", "started">>),
    TableRow(Live, "not alive", Finish),
    TableRow({"running"}, "held dry, woken on another body", <<"let_go">>),
    TableRow({"running"}, "alive, open", <<>>),
    TableRow({"running"}, "alive, closed", <<"leaving">>),
    TableRow({"leaving", "unidentified"}, "alive, open", <<"stayed">>),
    TableRow({"leaving"}, "alive, before deadline", <<>>),
    StopRow,
    TableRow({"leaving"}, "alive, due, unproven", <<"unidentified">>),
    TableRow({"stopping"}, "alive, proven", <<"signal">>),
    TableRow({"stopping"}, "alive, not proven", <<>>),
    TableRow({"unidentified"}, "alive, closed", <<>>),
    TableRow({"exited"}, "any", <<"end">> \o Cleanup),
    TableRow({"ended"}, "not released", Cleanup) >>

\* OBSERVED: one reading of the folded state and this tick's observation.
Observed(when, s, o) ==
    LET leave == o.closed \/ o.away \/ o.handed IN
    CASE when = "closed" -> o.closed
      [] when = "failure" -> o.failure
      [] when = "pinned away" -> o.away
      [] when = "fenced" -> o.fenced
      [] when = "woken on another body" -> o.woken
      [] when = "memory pressed" -> o.pressed /\ ~o.force
      [] when = "gauge unknown, before until" ->
            ~o.force /\ o.gauge = "unknown" /\ ~waited
      [] when = "gauge refreshing" -> o.gauge = "refreshing"
      [] when = "gauge empty" -> o.gauge = "empty"
      [] when = "gauge not empty" -> o.gauge \in {"ok", "unknown"}
      [] when = "not alive" -> ~o.alive
      [] when = "held dry, woken on another body" -> o.alive /\ o.held /\ o.woken
      [] when = "alive, open" -> o.alive /\ ~leave
      [] when = "alive, closed" -> o.alive /\ leave
      [] when = "alive, before deadline" -> o.alive /\ ~due
      [] when = "alive, due, proven" -> o.alive /\ due /\ o.proven = "yes"
      [] when = "alive, due, unproven" -> o.alive /\ due /\ o.proven = "no"
      [] when = "alive, proven" -> o.alive /\ o.proven = "yes"
      [] when = "alive, not proven" -> o.alive /\ o.proven # "yes"
      [] when = "any" -> TRUE
      [] when = "not released" -> "released" \notin s.has

\* row_for: the first row that matches, 0 when the table refuses.
RowFor(s, o) ==
    LET hits == {k \in DOMAIN Table : /\ StateName(s, o.alive) \in Table[k].states
                                      /\ Observed(Table[k].when, s, o)}
    IN  IF hits = {} THEN 0 ELSE CHOOSE k \in hits : \A m \in hits : k <= m

\* decide: a wait that is on record is not announced again, nor a body nobody
\* could identify reported again.
Moot(c, s) ==
    \/ c = "pending" /\ "body.pending" \in s.has
    \/ c = "unidentified" /\ ~s.identified

\* decide: the row's commands but for the moot ones, which only come first
\* (MootComesFirst).
Decide(s, o) ==
    LET commands == Table[RowFor(s, o)].commands
    IN  IF RowFor(s, o) = 0 \/ commands = <<>> THEN <<>>
        ELSE IF Moot(Head(commands), s) THEN Tail(commands)
        ELSE commands

-----------------------------------------------------------------------------
(* Observing *)

Alive == gen # 0 /\ process[gen] = "live"

\* _observe_body.  The gauge, the lease of the install, pins, memory and what
\* people wrote are read afresh each time.  A proof is asked for only where
\* the table needs one; it needs the pid body.started recorded.
Observations(force) ==
    LET name == StateName(facts, Alive)
        asked(fenced, away) ==
            /\ Alive
            /\ \/ name = "stopping"
               \/ name = "leaving" /\ due /\ (closed \/ fenced \/ away)
    IN  { o \in [alive : {Alive}, closed : {closed}, failure : {FALSE},
                 force : {force}, gauge : {"ok", "unknown", "refreshing", "empty"},
                 proven : {"none", "yes", "no"}, fenced : BOOLEAN,
                 handed : BOOLEAN, away : BOOLEAN, woken : BOOLEAN,
                 held : BOOLEAN, pressed : BOOLEAN] :
            /\ force => o.gauge = "unknown"
            /\ o.handed => o.fenced
            /\ o.away => ~o.fenced
            /\ o.held => name = "running" /\ Alive /\ ~o.fenced
            /\ o.woken => (name = "parked" \/ o.held \/ (name = "running" /\ ~Alive))
            /\ o.pressed => ~Alive
            /\ (o.proven = "none") <=> ~asked(o.fenced, o.away)
            /\ o.proven = "yes" => "body.started" \in facts.has }

\* What a hand makes of its observation when a start failed or the body died:
\* the row before it already said open, here and not fenced.
Again(alive, failure) ==
    [alive |-> alive, closed |-> FALSE, failure |-> failure, force |-> FALSE,
     gauge |-> "ok", proven |-> "none", fenced |-> FALSE, handed |-> FALSE,
     away |-> FALSE, woken |-> FALSE, held |-> FALSE, pressed |-> FALSE]

\* The lock on .starting is let go with the last command of a pass.
Pass(a, commands) ==
    /\ todo' = [todo EXCEPT ![a] = commands]
    /\ starting' = IF commands = <<>> THEN "nobody" ELSE a

\* One observation and the row it selects.
Observe(a, o) ==
    /\ Pass(a, Decide(facts, o))
    /\ refused' = (refused \/ RowFor(facts, o) = 0)

-----------------------------------------------------------------------------
(* The hands *)

Doing(a, command) == todo[a] # <<>> /\ Head(todo[a]) = command

\* _record, append: a fact whose id is taken is refused unless it says the same.
Record(kind) ==
    /\ facts' = Fold(facts, kind)
    /\ conflict' = (conflict \/ kind \in facts.has)

KindOf == [shown |-> "shown", started |-> "body.started",
           pending |-> "body.pending", park |-> "body.parked",
           leaving |-> "body.leaving", stayed |-> "body.stayed",
           stopped |-> "body.stopped", unidentified |-> "body.unidentified",
           exit |-> "body.exited"]

\* _hand_show, _hand_started, _hand_record
RecordHand(a) ==
    /\ todo[a] # <<>> /\ Head(todo[a]) \in DOMAIN KindOf
    /\ Record(KindOf[Head(todo[a])])
    /\ due' = IF Head(todo[a]) = "leaving" THEN FALSE ELSE due
    /\ waited' = IF Head(todo[a]) = "park" THEN FALSE ELSE waited
    /\ Pass(a, Tail(todo[a]))
    /\ UNCHANGED <<letgo, gen, process, out, closed, crashes, refused>>

\* _hand_prepare: the room is made, the author is refused (the pass stops),
\* or it fails and the failure is decided on.
PrepareHand(a) ==
    /\ Doing(a, "prepare")
    /\ \/ Pass(a, Tail(todo[a]))
       \/ Pass(a, <<>>)
       \/ Pass(a, Decide(facts, Again(FALSE, TRUE)))
    /\ UNCHANGED <<letgo, gen, facts, process, out, closed, due, waited, crashes,
                   conflict, refused>>

\* Mutant: a start reported as failed may have left its child running.
SpawnHandHalf(a) ==
    /\ Doing(a, "spawn") /\ process[gen] # "live"
    /\ process' = [process EXCEPT ![gen] = "live"]
    /\ \/ Pass(a, Tail(todo[a]))
       \/ Pass(a, Decide(facts, Again(FALSE, TRUE)))
    /\ UNCHANGED <<letgo, gen, facts, out, closed, due, waited, crashes, conflict, refused>>

\* _hand_spawn: the child inherits the flock on .body; a held flock, or any
\* other failure, is decided on as a failed start.
SpawnHand(a) ==
    /\ Doing(a, "spawn")
    /\ \/ /\ process[gen] # "live"
          /\ process' = [process EXCEPT ![gen] = "live"]
          /\ Pass(a, Tail(todo[a]))
       \/ /\ UNCHANGED process
          /\ Pass(a, Decide(facts, Again(FALSE, TRUE)))
    /\ UNCHANGED <<letgo, gen, facts, out, closed, due, waited, crashes, conflict, refused>>

\* _hand_signal: TERM, then KILL.  Once the flock is gone the body is finished
\* in the same pass.
SignalHand(a) ==
    /\ Doing(a, "signal")
    /\ process' = [process EXCEPT ![gen] = "gone"]
    /\ Pass(a, Decide(facts, Again(FALSE, FALSE)))
    /\ UNCHANGED <<letgo, gen, facts, out, closed, due, waited, crashes, conflict, refused>>

\* The signal had no effect yet: a later tick proves and signals again.
SignalMissed(a) ==
    /\ Doing(a, "signal") /\ process[gen] = "live"
    /\ Pass(a, Tail(todo[a]))
    /\ UNCHANGED <<letgo, gen, facts, process, out, closed, due, waited, crashes,
                   conflict, refused>>

\* _hand_let_go
LetGoHand(a) ==
    /\ Doing(a, "let_go")
    /\ letgo' = TRUE
    /\ Pass(a, Tail(todo[a]))
    /\ UNCHANGED <<gen, facts, process, out, closed, due, waited, crashes,
                   conflict, refused>>

\* _hand_collect: the exit code is read; nothing the table reads changes.
CollectHand(a) ==
    /\ Doing(a, "collect")
    /\ Pass(a, Tail(todo[a]))
    /\ UNCHANGED <<letgo, gen, facts, process, out, closed, due, waited, crashes,
                   conflict, refused>>

\* _hand_drain, _drain_strand: every file is ingested, or rejected by name.
DrainHand(a) ==
    /\ Doing(a, "drain")
    /\ out' = [out EXCEPT ![gen] = 0]
    /\ Pass(a, Tail(todo[a]))
    /\ UNCHANGED <<letgo, gen, facts, process, closed, due, waited, crashes, conflict, refused>>

\* _hand_end, _end_attempt: written once.
EndHand(a) ==
    /\ Doing(a, "end")
    /\ IF "attempt.ended" \in facts.has THEN UNCHANGED <<facts, conflict>>
       ELSE Record("attempt.ended")
    /\ Pass(a, Tail(todo[a]))
    /\ UNCHANGED <<letgo, gen, process, out, closed, due, waited, crashes, refused>>

\* _hand_end: a started body that failed waits for a gauge read after its exit.
EndWaits(a) ==
    /\ Doing(a, "end") /\ {"body.exited", "body.started"} \subseteq facts.has
    /\ Pass(a, <<>>)
    /\ UNCHANGED <<letgo, gen, facts, process, out, closed, due, waited, crashes,
                   conflict, refused>>

\* Mutant: the attestation is written on every pass.
DrainedHandAlways(a) ==
    /\ Doing(a, "drained")
    /\ Record("port.drained")
    /\ Pass(a, Tail(todo[a]))
    /\ UNCHANGED <<letgo, gen, process, out, closed, due, waited, crashes, refused>>

\* _hand_drained
DrainedHand(a) ==
    /\ Doing(a, "drained")
    /\ IF "port.drained" \in facts.has THEN UNCHANGED <<facts, conflict>>
       ELSE Record("port.drained")
    /\ Pass(a, Tail(todo[a]))
    /\ UNCHANGED <<letgo, gen, process, out, closed, due, waited, crashes, refused>>

\* _hand_release, _release
ReleaseHand(a) ==
    /\ Doing(a, "release")
    /\ Record("released")
    /\ Pass(a, Tail(todo[a]))
    /\ UNCHANGED <<letgo, gen, process, out, closed, due, waited, crashes, refused>>

Hand(a) ==
    \/ RecordHand(a) \/ PrepareHand(a) \/ SpawnHand(a) \/ SignalMissed(a)
    \/ LetGoHand(a) \/ CollectHand(a) \/ DrainHand(a) \/ EndWaits(a) \/ DrainedHand(a)
    \/ ReleaseHand(a)

-----------------------------------------------------------------------------
(* Around the table *)

\* Router.route: a thread nobody holds, open and with letters, gets its next
\* lease from the loop, between two passes.
Grant ==
    /\ todo["loop"] = <<>>
    /\ gen = 0 \/ "released" \in facts.has
    /\ ~closed /\ gen < MaxGen
    /\ gen' = gen + 1
    /\ facts' = Unborn
    /\ due' = FALSE /\ waited' = FALSE /\ letgo' = FALSE
    /\ UNCHANGED <<process, out, closed, todo, starting, crashes, conflict, refused>>

\* _ingest, at the start of a tick: the port of the strand that holds the thread.
Ingest ==
    /\ todo["loop"] = <<>> /\ gen # 0 /\ "released" \notin facts.has
    /\ out[gen] > 0
    /\ out' = [out EXCEPT ![gen] = 0]
    /\ UNCHANGED <<letgo, gen, facts, process, closed, due, waited, todo, starting,
                   crashes, conflict, refused>>

BodySays(g) ==
    /\ process[g] = "live" /\ out[g] < MaxOut
    /\ out' = [out EXCEPT ![g] = @ + 1]
    /\ UNCHANGED <<letgo, gen, facts, process, closed, due, waited, todo, starting,
                   crashes, conflict, refused>>

BodyExits(g) ==
    /\ process[g] = "live"
    /\ process' = [process EXCEPT ![g] = "gone"]
    /\ UNCHANGED <<letgo, gen, facts, out, closed, due, waited, todo, starting,
                   crashes, conflict, refused>>

\* The thread settles, or is opened again.
Flip ==
    /\ closed' = ~closed
    /\ UNCHANGED <<letgo, gen, facts, process, out, due, waited, todo, starting,
                   crashes, conflict, refused>>

\* Time: the stop grace, or the park's `until`, runs out.
Deadline ==
    /\ ~due /\ facts.name = "leaving" /\ due' = TRUE
    /\ UNCHANGED <<letgo, gen, facts, process, out, closed, waited, todo, starting,
                   crashes, conflict, refused>>

Until ==
    /\ ~waited /\ facts.name = "parked" /\ waited' = TRUE
    /\ UNCHANGED <<letgo, gen, facts, process, out, closed, due, todo, starting,
                   crashes, conflict, refused>>

\* The loop dies or is replaced, or the operator's command does, at any point;
\* its flocks go with it and its bodies run on in their own sessions.
Crash(a) ==
    /\ crashes < MaxCrashes /\ todo[a] # <<>>
    /\ crashes' = crashes + 1
    /\ Pass(a, <<>>)
    /\ UNCHANGED <<letgo, gen, facts, process, out, closed, due, waited, conflict, refused>>

-----------------------------------------------------------------------------

Init ==
    /\ gen = 0 /\ facts = Unborn
    /\ process = [g \in Gens |-> "none"]
    /\ out = [g \in Gens |-> 0]
    /\ closed = FALSE /\ due = FALSE /\ waited = FALSE /\ letgo = FALSE
    /\ todo = [a \in Actor |-> <<>>]
    /\ starting = "nobody" /\ crashes = 0
    /\ conflict = FALSE /\ refused = FALSE

\* _start, _advance_body: under the lock, and only while this strand and
\* generation hold the thread.  A forced start wants the body still parked.
Tick(a) ==
    /\ todo[a] = <<>> /\ starting = "nobody"
    /\ gen # 0 /\ "released" \notin facts.has
    /\ a = "cli" => facts.last = "body.parked"
    /\ UNCHANGED <<letgo, gen, facts, process, out, closed, due, waited, crashes, conflict>>
    /\ \E o \in Observations(a = "cli") : Observe(a, o)

Next ==
    \/ \E a \in Actor : Tick(a) \/ Hand(a) \/ SignalHand(a) \/ EndHand(a) \/ Crash(a)
    \/ \E g \in Gens : BodySays(g) \/ BodyExits(g)
    \/ Grant \/ Ingest \/ Flip \/ Deadline \/ Until

\* The loop ticks for as long as the daemon runs and finishes the passes it
\* begins, the operator's command ends, deadlines pass, and a held body told
\* to end does (jack.py reads port/in/hold).  Strong fairness stands for a
\* KILL that in the end lands and a gauge that in the end reads.
Fairness ==
    /\ WF_vars(Tick("loop")) /\ WF_vars(Deadline)
    /\ WF_vars(letgo /\ Alive /\ BodyExits(gen))
    /\ \A a \in Actor : /\ WF_vars(Hand(a) \/ SignalHand(a) \/ EndHand(a))
                        /\ SF_vars(SignalHand(a)) /\ SF_vars(EndHand(a))

Spec == Init /\ [][Next]_vars
FairSpec == Spec /\ Fairness

-----------------------------------------------------------------------------
(* What the table and its hands promise *)

\* A thread has at most one live body over all its generations, whatever died
\* in between, and only the generation the lease names (_spawn, Router.route).
OneLiveBody ==
    \A g \in Gens : process[g] = "live" => g = gen /\ "released" \notin facts.has

\* A released generation is finished with: its attempt has ended, its port was
\* attested drained and holds nothing that nobody will read (_drain_strand).
ReleasedClean ==
    /\ "released" \in facts.has => /\ {"attempt.ended", "port.drained"} \subseteq facts.has
                                   /\ out[gen] = 0
    /\ \A g \in Gens : g < gen => out[g] = 0

\* When an attempt ends, everything its body said is in the ledger, so no
\* letter is disposed of whose answer was still in the port (FINISH's order).
SaidBeforeEnded ==
    [][ gen' = gen /\ "attempt.ended" \in facts'.has \ facts.has
        => out[gen] = 0 /\ process[gen] # "live" ]_vars

\* A generation is started once: `shown` is on record before the process
\* exists, so no restart of the loop starts it a second time.
StartedOnce ==
    [][ \A g \in Gens : process'[g] = "live" /\ process[g] # "live"
        => process[g] = "none" /\ "shown" \in facts.has ]_vars

\* No once-only fact is written twice: an append never meets LedgerConflict.
OnceFacts == ~conflict

\* The table has a row for every state and observation the program can meet.
TableTotal == ~refused

\* A body is signalled only past its grace and with its stop on record, so
\* that its death is not taken for a failed attempt (the order of the row
\* `stopped`, `signal`, and exit_cause, which reads body.stopped first).
StopOnRecord ==
    [][ \A a \in Actor : Doing(a, "signal") /\ process' # process
          => due /\ "body.stopped" \in facts.has ]_vars

\* A thread that settles for good is released in the end, unless its live
\* body could not be proven to be ours; that one is left to end by itself.
SettledIsReleased ==
    <>[]closed => []<>(\/ gen = 0 \/ "released" \in facts.has
                       \/ facts.name = "unidentified" /\ Alive)
=============================================================================
