--------------------------- MODULE BodyLifeProofs ---------------------------
(***************************************************************************)
(* What the body table and its hands promise, for every number of leases,  *)
(* files and crashes.                                                      *)
(*                                                                         *)
(* A pass over the table is a list of commands performed one by one, and   *)
(* anything may happen between two of them.  The invariant says, of each   *)
(* list that can be left to do, what the facts and the process must be for *)
(* it to be safe to go on (Ready).  That every row of the table only gives *)
(* lists that are Ready is DecideIsReady; each hand then takes a Ready     *)
(* list to a Ready one.                                                    *)
(***************************************************************************)
EXTENDS BodyLife, SequenceTheorems, WellFoundedInduction, TLAPS

Names == {"wanted", "parked", "running", "leaving", "unidentified"}

\* The lists of commands that can be left to do, each named for its first.
StartPlan   == <<"prepare", "shown", "spawn", "started">>
ShowPlan    == <<"shown", "spawn", "started">>
SpawnPlan   == <<"spawn", "started">>
StartedPlan == <<"started">>
StopPlan    == <<"stopped", "signal">>
SignalPlan  == <<"signal">>
CollectPlan == <<"collect", "drain", "exit", "end", "drain", "drained", "release">>
EmptyPlan   == <<"drain", "exit", "end", "drain", "drained", "release">>
ExitPlan    == <<"exit", "end", "drain", "drained", "release">>
EndPlan     == <<"end", "drain", "drained", "release">>
DrainPlan   == <<"drain", "drained", "release">>
DrainedPlan == <<"drained", "release">>
ReleasePlan == <<"release">>

-----------------------------------------------------------------------------
(* The invariant.  s are the facts of the latest generation, p its process, *)
(* n the files in its port and d whether its deadline has passed.           *)

\* What the facts of a generation say of its process and its port.
Sound(s, p, n, d) ==
    /\ s.name \in Names /\ s.identified \in BOOLEAN /\ s.has \subseteq Once
    /\ p \in {"none", "live", "gone"} /\ n \in Nat /\ d \in BOOLEAN
    /\ s.name \in Startable =>
            s.has \cap {"shown", "body.started", "body.stopped"} = {}
    /\ p = "none" => n = 0
    /\ p # "none" => "shown" \in s.has
    /\ "body.exited" \in s.has \/ "attempt.ended" \in s.has => p # "live" /\ n = 0
    /\ "body.stopped" \in s.has => d
    /\ "port.drained" \in s.has => "attempt.ended" \in s.has
    /\ "released" \in s.has => "port.drained" \in s.has

Unfinished(s) == s.has \cap {"body.exited", "attempt.ended", "port.drained"} = {}

\* Nothing of the generation's body exists.
Fresh(s, p) ==
    s.name \in Startable /\ s.has \subseteq {"body.pending"} /\ p = "none"

\* The start is on record, and nothing after it.
Announced(s) ==
    /\ s.name = "running" /\ "shown" \in s.has
    /\ s.has \subseteq {"body.pending", "shown"}

\* The body has been started and nobody has recorded a stop.
Serving(s, p) ==
    /\ s.name \notin Startable /\ p # "none"
    /\ Unfinished(s) /\ "body.stopped" \notin s.has

Ready(c, s, p, n, d) ==
    /\ "released" \notin s.has
    /\ \/ c = <<"pending">> /\ Fresh(s, p) /\ "body.pending" \notin s.has
       \/ c \in {<<"park">>, StartPlan, ShowPlan} /\ Fresh(s, p)
       \/ c = SpawnPlan /\ Announced(s) /\ p = "none"
       \/ c = StartedPlan /\ Announced(s) /\ p # "none"
       \/ c \in {<<"let_go">>, <<"leaving">>, <<"stayed">>, <<"unidentified">>}
          /\ Serving(s, p)
       \/ c = StopPlan /\ Serving(s, p) /\ d
       \/ c = SignalPlan /\ p # "none" /\ Unfinished(s) /\ "body.stopped" \in s.has
       \/ c \in {CollectPlan, EmptyPlan} /\ p # "live" /\ Unfinished(s)
       \/ c = ExitPlan /\ p # "live" /\ n = 0 /\ Unfinished(s)
       \/ c = EndPlan /\ p # "live" /\ n = 0 /\ "attempt.ended" \notin s.has
       \/ c \in {DrainPlan, DrainedPlan} /\ "attempt.ended" \in s.has
       \/ c = ReleasePlan /\ {"attempt.ended", "port.drained"} \subseteq s.has

Plans == {<<>>, <<"pending">>, <<"park">>, <<"let_go">>, <<"leaving">>, <<"stayed">>,
          <<"unidentified">>, StartPlan, ShowPlan, SpawnPlan, StartedPlan, StopPlan,
          SignalPlan, CollectPlan, EmptyPlan, ExitPlan, EndPlan, DrainPlan,
          DrainedPlan, ReleasePlan}

TypeOK ==
    /\ gen \in 0 .. MaxGen
    /\ process \in [Gens -> {"none", "live", "gone"}]
    /\ out \in [Gens -> 0 .. MaxOut]
    /\ closed \in BOOLEAN /\ due \in BOOLEAN /\ waited \in BOOLEAN /\ letgo \in BOOLEAN
    /\ todo \in [Actor -> Plans]
    /\ starting \in Actor \cup {"nobody"}
    /\ crashes \in 0 .. MaxCrashes
    /\ facts.name \in Names /\ facts.identified \in BOOLEAN /\ facts.has \subseteq Once

\* The generations that have passed are over, those to come have not begun.
OtherGens ==
    \A g \in Gens : /\ g < gen => process[g] # "live" /\ out[g] = 0
                    /\ g > gen => process[g] = "none" /\ out[g] = 0

LatestGen ==
    /\ gen = 0 => facts = Unborn
    /\ gen # 0 => Sound(facts, process[gen], out[gen], due)

\* Whoever has commands to perform holds the flock on .starting.
Passes ==
    \A a \in Actor : todo[a] # <<>> =>
        /\ starting = a /\ gen # 0
        /\ Ready(todo[a], facts, process[gen], out[gen], due)

IInv == TypeOK /\ OtherGens /\ LatestGen /\ Passes /\ OnceFacts /\ TableTotal

-----------------------------------------------------------------------------
(* The lists of commands, and the rows that give them *)

\* What is left of each list once its first command is performed.
LEMMA PlanSteps ==
    /\ Head(StartPlan) = "prepare" /\ Tail(StartPlan) = ShowPlan
    /\ Head(ShowPlan) = "shown" /\ Tail(ShowPlan) = SpawnPlan
    /\ Head(SpawnPlan) = "spawn" /\ Tail(SpawnPlan) = StartedPlan
    /\ Head(StartedPlan) = "started" /\ Tail(StartedPlan) = <<>>
    /\ Head(StopPlan) = "stopped" /\ Tail(StopPlan) = SignalPlan
    /\ Head(SignalPlan) = "signal" /\ Tail(SignalPlan) = <<>>
    /\ Head(CollectPlan) = "collect" /\ Tail(CollectPlan) = EmptyPlan
    /\ Head(EmptyPlan) = "drain" /\ Tail(EmptyPlan) = ExitPlan
    /\ Head(ExitPlan) = "exit" /\ Tail(ExitPlan) = EndPlan
    /\ Head(EndPlan) = "end" /\ Tail(EndPlan) = DrainPlan
    /\ Head(DrainPlan) = "drain" /\ Tail(DrainPlan) = DrainedPlan
    /\ Head(DrainedPlan) = "drained" /\ Tail(DrainedPlan) = ReleasePlan
    /\ Head(ReleasePlan) = "release" /\ Tail(ReleasePlan) = <<>>
<1>1. /\ Head(StartPlan) = "prepare" /\ Tail(StartPlan) = ShowPlan
      /\ Head(ShowPlan) = "shown" /\ Tail(ShowPlan) = SpawnPlan
      /\ Head(SpawnPlan) = "spawn" /\ Tail(SpawnPlan) = StartedPlan
      /\ Head(StartedPlan) = "started" /\ Tail(StartedPlan) = <<>>
  BY DEF StartPlan, ShowPlan, SpawnPlan, StartedPlan
<1>2. /\ Head(StopPlan) = "stopped" /\ Tail(StopPlan) = SignalPlan
      /\ Head(SignalPlan) = "signal" /\ Tail(SignalPlan) = <<>>
  BY DEF StopPlan, SignalPlan
<1>3. /\ Head(CollectPlan) = "collect" /\ Tail(CollectPlan) = EmptyPlan
      /\ Head(EmptyPlan) = "drain" /\ Tail(EmptyPlan) = ExitPlan
      /\ Head(ExitPlan) = "exit" /\ Tail(ExitPlan) = EndPlan
      /\ Head(EndPlan) = "end" /\ Tail(EndPlan) = DrainPlan
      /\ Head(DrainPlan) = "drain" /\ Tail(DrainPlan) = DrainedPlan
      /\ Head(DrainedPlan) = "drained" /\ Tail(DrainedPlan) = ReleasePlan
      /\ Head(ReleasePlan) = "release" /\ Tail(ReleasePlan) = <<>>
  BY DEF CollectPlan, EmptyPlan, ExitPlan, EndPlan, DrainPlan, DrainedPlan, ReleasePlan
<1>4. QED  BY <1>1, <1>2, <1>3

\* The lists of one command.
LEMMA SingleSteps ==
    ASSUME NEW c
    PROVE  Head(<<c>>) = c /\ Tail(<<c>>) = <<>> /\ <<c>> # <<>>
OBVIOUS

\* The words of those lists.
Words == {"collect", "exit", "end", "drain", "drained", "release"}

\* A sequence that says what two others say, one after the other, joins them.
LEMMA Joined ==
    ASSUME NEW S, NEW a \in Seq(S), NEW b \in Seq(S), NEW c \in Seq(S),
           Len(c) = Len(a) + Len(b),
           \A i \in 1 .. Len(a) : c[i] = a[i],
           \A i \in 1 .. Len(b) : c[Len(a) + i] = b[i]
    PROVE  a \o b = c
<1>1. a \o b \in Seq(S) /\ Len(a \o b) = Len(c)
  BY ConcatProperties
<1>2. ASSUME NEW i \in 1 .. Len(a \o b)  PROVE (a \o b)[i] = c[i]
  <2>1. Len(a) \in Nat /\ Len(b) \in Nat
    BY LenProperties
  <2>2. CASE i <= Len(a)
    BY <1>1, <2>1, <2>2, ConcatProperties
  <2>3. CASE i > Len(a)
    <3>1. i - Len(a) \in 1 .. Len(b) /\ i \in 1 .. Len(a) + Len(b)
      BY <1>1, <2>1, <2>3
    <3>2. (a \o b)[i] = b[i - Len(a)]
      BY <2>1, <2>3, <3>1, ConcatProperties
    <3>3. c[Len(a) + (i - Len(a))] = b[i - Len(a)]
      BY <3>1
    <3>4. Len(a) + (i - Len(a)) = i
      BY <2>1
    <3>5. QED  BY <3>2, <3>3, <3>4
  <2>4. QED  BY <2>1, <2>2, <2>3
<1>3. QED  BY <1>1, <1>2, SeqEqual

\* The lists the rows are written with are the plans named above.
LEMMA NamedPlans ==
    /\ Cleanup = DrainPlan /\ <<"end">> \o Cleanup = EndPlan
    /\ <<"exit", "end">> \o Cleanup = ExitPlan /\ Finish = CollectPlan
<1> DEFINE alone == <<"end">>
           both == <<"exit", "end">>
           first == <<"collect", "drain", "exit", "end">>
<1>1. Cleanup = DrainPlan
  BY DEF Cleanup, DrainPlan
<1>2. /\ DrainPlan \in Seq(Words) /\ Len(DrainPlan) = 3
      /\ EndPlan \in Seq(Words) /\ Len(EndPlan) = 4
      /\ ExitPlan \in Seq(Words) /\ Len(ExitPlan) = 5
      /\ CollectPlan \in Seq(Words) /\ Len(CollectPlan) = 7
  BY DEF DrainPlan, EndPlan, ExitPlan, CollectPlan, Words
<1>3. /\ alone \in Seq(Words) /\ Len(alone) = 1
      /\ both \in Seq(Words) /\ Len(both) = 2
      /\ first \in Seq(Words) /\ Len(first) = 4
  BY DEF Words
<1>4. alone \o DrainPlan = EndPlan
  <2>1. \A i \in 1 .. 1 : EndPlan[i] = alone[i]
    BY DEF EndPlan
  <2>2. \A i \in 1 .. 3 : EndPlan[1 + i] = DrainPlan[i]
    BY DEF EndPlan, DrainPlan
  <2> HIDE DEF alone
  <2>3. /\ Len(EndPlan) = Len(alone) + Len(DrainPlan)
        /\ \A i \in 1 .. Len(alone) : EndPlan[i] = alone[i]
        /\ \A i \in 1 .. Len(DrainPlan) : EndPlan[Len(alone) + i] = DrainPlan[i]
    BY <1>2, <1>3, <2>1, <2>2
  <2>4. QED  BY <1>2, <1>3, <2>3, Joined
<1>5. both \o DrainPlan = ExitPlan
  <2>1. \A i \in 1 .. 2 : ExitPlan[i] = both[i]
    BY DEF ExitPlan
  <2>2. \A i \in 1 .. 3 : ExitPlan[2 + i] = DrainPlan[i]
    BY DEF ExitPlan, DrainPlan
  <2> HIDE DEF both
  <2>3. /\ Len(ExitPlan) = Len(both) + Len(DrainPlan)
        /\ \A i \in 1 .. Len(both) : ExitPlan[i] = both[i]
        /\ \A i \in 1 .. Len(DrainPlan) : ExitPlan[Len(both) + i] = DrainPlan[i]
    BY <1>2, <1>3, <2>1, <2>2
  <2>4. QED  BY <1>2, <1>3, <2>3, Joined
<1>6. first \o DrainPlan = CollectPlan
  <2>1. \A i \in 1 .. 4 : CollectPlan[i] = first[i]
    BY DEF CollectPlan
  <2>2. \A i \in 1 .. 3 : CollectPlan[4 + i] = DrainPlan[i]
    BY DEF CollectPlan, DrainPlan
  <2> HIDE DEF first
  <2>3. /\ Len(CollectPlan) = Len(first) + Len(DrainPlan)
        /\ \A i \in 1 .. Len(first) : CollectPlan[i] = first[i]
        /\ \A i \in 1 .. Len(DrainPlan) : CollectPlan[Len(first) + i] = DrainPlan[i]
    BY <1>2, <1>3, <2>1, <2>2
  <2>4. QED  BY <1>2, <1>3, <2>3, Joined
<1>7. QED  BY <1>1, <1>4, <1>5, <1>6 DEF Finish

\* A set of naturals that is not empty has a least one.
LEMMA LeastOf ==
    ASSUME NEW H \in SUBSET Nat, H # {}
    PROVE  \E k \in H : \A m \in H : k <= m
<1>1. \E k \in H : \A m \in H : <<m, k>> \notin OpToRel(<, Nat)
  BY NatLessThanWellFounded, WFMin
<1>2. \A m, k \in Nat : <<m, k>> \notin OpToRel(<, Nat) => k <= m
  BY DEF OpToRel
<1>3. QED  BY <1>1, <1>2

\* row_for gives a row that matches, or none does.
LEMMA RowForMatches ==
    ASSUME NEW s, NEW o
    PROVE  \/ /\ RowFor(s, o) = 0
              /\ \A k \in 1 .. 27 :
                    ~(/\ StateName(s, o.alive) \in Table[k].states
                      /\ Observed(Table[k].when, s, o))
           \/ /\ RowFor(s, o) \in 1 .. 27
              /\ StateName(s, o.alive) \in Table[RowFor(s, o)].states
              /\ Observed(Table[RowFor(s, o)].when, s, o)
<1> DEFINE hits == {k \in DOMAIN Table : /\ StateName(s, o.alive) \in Table[k].states
                                         /\ Observed(Table[k].when, s, o)}
<1>1. DOMAIN Table = 1 .. 27
  BY DEF Table
<1>2. CASE hits = {}
  BY <1>1, <1>2 DEF RowFor
<1>3. CASE hits # {}
  <2>1. hits \in SUBSET Nat
    BY <1>1
  <2>2. \E k \in hits : \A m \in hits : k <= m
    BY <1>3, <2>1, LeastOf
  <2>3. RowFor(s, o) = CHOOSE k \in hits : \A m \in hits : k <= m
    BY <1>3 DEF RowFor
  <2>4. RowFor(s, o) \in hits
    <3> HIDE DEF hits
    <3> QED  BY <2>2, <2>3
  <2>5. QED  BY <2>4, <1>1
<1>4. QED  BY <1>2, <1>3

\* The rows without commands.
LEMMA EmptyRows ==
    /\ Table[4].commands = <<>>
    /\ Table[5].commands = <<>>
    /\ Table[8].commands = <<>>
    /\ Table[9].commands = <<>>
    /\ Table[10].commands = <<>>
    /\ Table[12].commands = <<>>
    /\ Table[17].commands = <<>>
    /\ Table[20].commands = <<>>
    /\ Table[24].commands = <<>>
    /\ Table[25].commands = <<>>
BY DEF Table, TableRow

\* The rows of a generation that has not begun.
LEMMA StartRows ==
    /\ Table[1].states = Startable /\ Table[1].when = "closed"
       /\ Table[1].commands = EndPlan
    /\ Table[2].states = Startable /\ Table[2].when = "failure"
       /\ Table[2].commands = ExitPlan
    /\ Table[3].states = Startable /\ Table[3].when = "pinned away"
       /\ Table[3].commands = EndPlan
    /\ Table[6].states = {"parked"} /\ Table[6].when = "woken on another body"
       /\ Table[6].commands = EndPlan
    /\ Table[7].states = {"wanted"} /\ Table[7].when = "memory pressed"
       /\ Table[7].commands = <<"pending">>
    /\ Table[11].states = {"wanted"} /\ Table[11].when = "gauge refreshing"
       /\ Table[11].commands = <<"pending">>
    /\ Table[13].states = Startable /\ Table[13].when = "gauge empty"
       /\ Table[13].commands = <<"park">>
    /\ Table[14].states = Startable /\ Table[14].when = "gauge not empty"
       /\ Table[14].commands = StartPlan
<1>1. /\ Table[1].states = Startable /\ Table[1].when = "closed"
      /\ Table[1].commands = <<"end">> \o Cleanup
      /\ Table[2].states = Startable /\ Table[2].when = "failure"
      /\ Table[2].commands = <<"exit", "end">> \o Cleanup
      /\ Table[3].states = Startable /\ Table[3].when = "pinned away"
      /\ Table[3].commands = <<"end">> \o Cleanup
      /\ Table[6].states = {"parked"} /\ Table[6].when = "woken on another body"
      /\ Table[6].commands = <<"end">> \o Cleanup
      /\ Table[7].states = {"wanted"} /\ Table[7].when = "memory pressed"
      /\ Table[7].commands = <<"pending">>
      /\ Table[11].states = {"wanted"} /\ Table[11].when = "gauge refreshing"
      /\ Table[11].commands = <<"pending">>
      /\ Table[13].states = Startable /\ Table[13].when = "gauge empty"
      /\ Table[13].commands = <<"park">>
      /\ Table[14].states = Startable /\ Table[14].when = "gauge not empty"
      /\ Table[14].commands = <<"prepare", "shown", "spawn", "started">>
  BY DEF Table, TableRow, StopRow
<1>2. QED  BY <1>1, NamedPlans DEF StartPlan, StopPlan, SignalPlan

\* The rows of a body that is served.
LEMMA ServeRows ==
    /\ Table[16].states = {"running"} /\ Table[16].when = "held dry, woken on another body"
       /\ Table[16].commands = <<"let_go">>
    /\ Table[18].states = {"running"} /\ Table[18].when = "alive, closed"
       /\ Table[18].commands = <<"leaving">>
    /\ Table[19].states = {"leaving", "unidentified"} /\ Table[19].when = "alive, open"
       /\ Table[19].commands = <<"stayed">>
    /\ Table[21].states = {"leaving"} /\ Table[21].when = "alive, due, proven"
       /\ Table[21].commands = StopPlan
    /\ Table[22].states = {"leaving"} /\ Table[22].when = "alive, due, unproven"
       /\ Table[22].commands = <<"unidentified">>
    /\ Table[23].states = {"stopping"} /\ Table[23].when = "alive, proven"
       /\ Table[23].commands = SignalPlan
<1>1. /\ Table[16].states = {"running"} /\ Table[16].when = "held dry, woken on another body"
      /\ Table[16].commands = <<"let_go">>
      /\ Table[18].states = {"running"} /\ Table[18].when = "alive, closed"
      /\ Table[18].commands = <<"leaving">>
      /\ Table[19].states = {"leaving", "unidentified"} /\ Table[19].when = "alive, open"
      /\ Table[19].commands = <<"stayed">>
      /\ Table[21].states = {"leaving"} /\ Table[21].when = "alive, due, proven"
      /\ Table[21].commands = <<"stopped", "signal">>
      /\ Table[22].states = {"leaving"} /\ Table[22].when = "alive, due, unproven"
      /\ Table[22].commands = <<"unidentified">>
      /\ Table[23].states = {"stopping"} /\ Table[23].when = "alive, proven"
      /\ Table[23].commands = <<"signal">>
  BY DEF Table, TableRow, StopRow
<1>2. QED  BY <1>1, NamedPlans DEF StartPlan, StopPlan, SignalPlan

\* The rows of a body that is done.
LEMMA FinishRows ==
    /\ Table[15].states = Live /\ Table[15].when = "not alive"
       /\ Table[15].commands = CollectPlan
    /\ Table[26].states = {"exited"} /\ Table[26].when = "any"
       /\ Table[26].commands = EndPlan
    /\ Table[27].states = {"ended"} /\ Table[27].when = "not released"
       /\ Table[27].commands = DrainPlan
<1>1. /\ Table[15].states = Live /\ Table[15].when = "not alive"
      /\ Table[15].commands = Finish
      /\ Table[26].states = {"exited"} /\ Table[26].when = "any"
      /\ Table[26].commands = <<"end">> \o Cleanup
      /\ Table[27].states = {"ended"} /\ Table[27].when = "not released"
      /\ Table[27].commands = Cleanup
  BY DEF Table, TableRow, StopRow
<1>2. QED  BY <1>1, NamedPlans DEF StartPlan, StopPlan, SignalPlan

\* The state's name says which part of the invariant holds of its facts.
LEMMA NamedState ==
    ASSUME NEW s, NEW p, NEW n, NEW d, NEW alive \in BOOLEAN,
           Sound(s, p, n, d), alive <=> p = "live", "released" \notin s.has
    PROVE  LET name == StateName(s, alive)
           IN  /\ name \in Startable => Fresh(s, p)
               /\ name \in Live /\ ~alive => p # "live" /\ Unfinished(s)
               /\ name \in {"running", "leaving", "unidentified"} /\ alive => Serving(s, p)
               /\ name = "stopping" /\ alive =>
                     p # "none" /\ Unfinished(s) /\ "body.stopped" \in s.has
               /\ name = "exited" => /\ "attempt.ended" \notin s.has
                                     /\ p # "live" /\ n = 0
               /\ name = "ended" => "attempt.ended" \in s.has
<1> DEFINE name == StateName(s, alive)
<1>1. name \in Startable => Fresh(s, p)
  <2>1. SUFFICES ASSUME name \in Startable  PROVE Fresh(s, p)
    OBVIOUS
  <2>2. /\ s.name \in Startable /\ ~alive
        /\ s.has \cap {"attempt.ended", "body.exited", "body.stopped"} = {}
    BY <2>1 DEF StateName, Startable
  <2>3. s.has \subseteq {"body.pending"} /\ p = "none"
    BY <2>2 DEF Sound, Once
  <2>4. QED  BY <2>2, <2>3 DEF Fresh
<1>2. name \in Live /\ ~alive => p # "live" /\ Unfinished(s)
  <2>1. name \in Live => "attempt.ended" \notin s.has /\ "body.exited" \notin s.has
    BY DEF StateName, Live
  <2> HIDE DEF name
  <2>2. QED  BY <2>1 DEF Sound, Unfinished
<1>3. name \in {"running", "leaving", "unidentified"} /\ alive => Serving(s, p)
  BY DEF StateName, Startable, Sound, Unfinished, Serving
<1>4. name = "stopping" /\ alive =>
        p # "none" /\ Unfinished(s) /\ "body.stopped" \in s.has
  BY DEF StateName, Startable, Sound, Unfinished, Names
<1>5. name = "exited" => "attempt.ended" \notin s.has /\ p # "live" /\ n = 0
  <2>1. name = "exited" => "attempt.ended" \notin s.has /\ "body.exited" \in s.has
    BY DEF StateName, Sound, Names
  <2> HIDE DEF name
  <2>2. QED  BY <2>1 DEF Sound
<1>6. name = "ended" => "attempt.ended" \in s.has
  BY DEF StateName, Startable, Sound, Names
<1>7. QED  BY <1>1, <1>2, <1>3, <1>4, <1>5, <1>6

\* What the observations that matter to safety say.
LEMMA ObservedMeans ==
    ASSUME NEW s, NEW o
    PROVE  /\ Observed("not alive", s, o) => ~o.alive
           /\ Observed("held dry, woken on another body", s, o) => o.alive
           /\ Observed("alive, closed", s, o) => o.alive
           /\ Observed("alive, open", s, o) => o.alive
           /\ Observed("alive, due, unproven", s, o) => o.alive
           /\ Observed("alive, due, proven", s, o) => o.alive /\ due
           /\ Observed("alive, proven", s, o) => o.alive
BY DEF Observed

\* A row's commands are read from the front.
LEMMA DecideReads ==
    ASSUME NEW s, NEW o
    PROVE  LET commands == Table[RowFor(s, o)].commands
           IN  \/ Decide(s, o) = <<>>
               \/ commands # <<>> /\ Moot(Head(commands), s) /\ Decide(s, o) = Tail(commands)
               \/ commands # <<>> /\ ~Moot(Head(commands), s) /\ Decide(s, o) = commands
BY DEF Decide

\* Every pass the table gives is safe to begin (decide, TABLE).
LEMMA DecideIsReady ==
    ASSUME NEW s, NEW p, NEW n, NEW o, o.alive \in BOOLEAN,
           Sound(s, p, n, due), o.alive <=> p = "live", "released" \notin s.has
    PROVE  Decide(s, o) = <<>> \/ Ready(Decide(s, o), s, p, n, due)
<1> DEFINE k == RowFor(s, o)
           commands == Table[k].commands
           name == StateName(s, o.alive)
<1>1. CASE k = 0
  BY <1>1 DEF Decide
<1>2. CASE k # 0
  <2>1. k \in 1 .. 27 /\ name \in Table[k].states /\ Observed(Table[k].when, s, o)
    BY <1>2, RowForMatches
  <2>2. \/ Decide(s, o) = <<>>
        \/ commands # <<>> /\ Moot(Head(commands), s) /\ Decide(s, o) = Tail(commands)
        \/ commands # <<>> /\ ~Moot(Head(commands), s) /\ Decide(s, o) = commands
    BY DecideReads
  <2>3. /\ name \in Startable => Fresh(s, p)
        /\ name \in Live /\ ~o.alive => p # "live" /\ Unfinished(s)
        /\ name \in {"running", "leaving", "unidentified"} /\ o.alive => Serving(s, p)
        /\ name = "stopping" /\ o.alive =>
              p # "none" /\ Unfinished(s) /\ "body.stopped" \in s.has
        /\ name = "exited" => "attempt.ended" \notin s.has /\ p # "live" /\ n = 0
        /\ name = "ended" => "attempt.ended" \in s.has
    BY NamedState
  <2> HIDE DEF k, name
  <2>4. CASE k \in {4, 5, 8, 9, 10, 12, 17, 20, 24, 25}
    <3>1. commands = <<>>
      BY <2>4, EmptyRows
    <3>2. QED  BY <2>2, <3>1
  <2>5. CASE k \in {1, 3, 6}
    <3>1. commands = EndPlan /\ name \in Startable
      BY <2>1, <2>5, StartRows DEF Startable
    <3>2. Fresh(s, p) /\ p # "live" /\ n = 0 /\ "attempt.ended" \notin s.has
      BY <2>3, <3>1 DEF Fresh, Sound
    <3>3. QED  BY <2>2, <3>1, <3>2, PlanSteps DEF Ready, Moot
  <2>6. CASE k = 2
    <3>1. commands = ExitPlan /\ name \in Startable
      BY <2>1, <2>6, StartRows
    <3>2. Fresh(s, p) /\ p # "live" /\ n = 0 /\ Unfinished(s)
      BY <2>3, <3>1 DEF Fresh, Sound, Unfinished
    <3>3. QED  BY <2>2, <3>1, <3>2, PlanSteps DEF Ready, Moot
  <2>7. CASE k \in {7, 11}
    <3>1. commands = <<"pending">> /\ name \in Startable
      BY <2>1, <2>7, StartRows DEF Startable
    <3>2. Fresh(s, p) /\ (Moot("pending", s) <=> "body.pending" \in s.has)
      BY <2>3, <3>1 DEF Moot
    <3>3. QED  BY <2>2, <3>1, <3>2, SingleSteps DEF Ready
  <2>8. CASE k = 13
    <3>1. commands = <<"park">> /\ name \in Startable
      BY <2>1, <2>8, StartRows
    <3>2. Fresh(s, p) /\ ~Moot("park", s)
      BY <2>3, <3>1 DEF Moot
    <3>3. QED  BY <2>2, <3>1, <3>2, SingleSteps DEF Ready
  <2>9. CASE k = 14
    <3>1. commands = StartPlan /\ name \in Startable
      BY <2>1, <2>9, StartRows
    <3>2. Fresh(s, p)
      BY <2>3, <3>1
    <3>3. QED  BY <2>2, <3>1, <3>2, PlanSteps DEF Ready, Moot
  <2>10. CASE k = 15
    <3>1. commands = CollectPlan /\ name \in Live /\ ~o.alive
      BY <2>1, <2>10, FinishRows, ObservedMeans
    <3>2. p # "live" /\ Unfinished(s)
      BY <2>3, <3>1
    <3>3. QED  BY <2>2, <3>1, <3>2, PlanSteps DEF Ready, Moot
  <2>11. CASE k \in {16, 18, 19, 22}
    <3>1. /\ name \in {"running", "leaving", "unidentified"}
          /\ commands \in {<<"let_go">>, <<"leaving">>, <<"stayed">>, <<"unidentified">>}
      BY <2>1, <2>11, ServeRows
    <3>2. o.alive
      <4>1. k = 16 => Observed("held dry, woken on another body", s, o)
        BY <2>1, ServeRows
      <4>2. k = 18 => Observed("alive, closed", s, o)
        BY <2>1, ServeRows
      <4>3. k = 19 => Observed("alive, open", s, o)
        BY <2>1, ServeRows
      <4>4. k = 22 => Observed("alive, due, unproven", s, o)
        BY <2>1, ServeRows
      <4>5. QED  BY <2>11, <4>1, <4>2, <4>3, <4>4, ObservedMeans
    <3>3. Serving(s, p) /\ Tail(commands) = <<>>
      BY <2>3, <3>1, <3>2, SingleSteps
    <3>4. QED  BY <2>2, <3>1, <3>3 DEF Ready
  <2>12. CASE k = 21
    <3>1. commands = StopPlan /\ name = "leaving" /\ Observed("alive, due, proven", s, o)
      BY <2>1, <2>12, ServeRows
    <3>2. Serving(s, p) /\ due
      BY <2>3, <3>1, ObservedMeans
    <3>3. QED  BY <2>2, <3>1, <3>2, PlanSteps DEF Ready, Moot
  <2>13. CASE k = 23
    <3>1. commands = SignalPlan /\ name = "stopping" /\ Observed("alive, proven", s, o)
      BY <2>1, <2>13, ServeRows
    <3>2. p # "none" /\ Unfinished(s) /\ "body.stopped" \in s.has
      BY <2>3, <3>1, ObservedMeans
    <3>3. QED  BY <2>2, <3>1, <3>2, PlanSteps DEF Ready, Moot
  <2>14. CASE k = 26
    <3>1. commands = EndPlan /\ name = "exited"
      BY <2>1, <2>14, FinishRows
    <3>2. "attempt.ended" \notin s.has /\ p # "live" /\ n = 0
      BY <2>3, <3>1
    <3>3. QED  BY <2>2, <3>1, <3>2, PlanSteps DEF Ready, Moot
  <2>15. CASE k = 27
    <3>1. commands = DrainPlan /\ name = "ended"
      BY <2>1, <2>15, FinishRows
    <3>2. "attempt.ended" \in s.has
      BY <2>3, <3>1
    <3>3. QED  BY <2>2, <3>1, <3>2, PlanSteps DEF Ready, Moot
  <2>16. QED  BY <2>1, <2>4, <2>5, <2>6, <2>7, <2>8, <2>9, <2>10, <2>11, <2>12,
                <2>13, <2>14, <2>15
<1>3. QED  BY <1>1, <1>2

\* The same for what a hand decides on when a start failed or a body died.
LEMMA AgainIsReady ==
    ASSUME NEW s, NEW p, NEW n, NEW failure,
           Sound(s, p, n, due), p # "live", "released" \notin s.has
    PROVE  LET rest == Decide(s, Again(FALSE, failure))
           IN  rest = <<>> \/ Ready(rest, s, p, n, due)
<1> DEFINE o == Again(FALSE, failure)
<1>1. o.alive = FALSE
  BY DEF Again
<1>2. o.alive \in BOOLEAN /\ (o.alive <=> p = "live")
  BY <1>1
<1> HIDE DEF o
<1>3. Decide(s, o) = <<>> \/ Ready(Decide(s, o), s, p, n, due)
  BY <1>2, DecideIsReady
<1>4. QED  BY <1>3 DEF o

\* Observed, for the observations that between them leave nothing out.
LEMMA ObservedIs ==
    ASSUME NEW s, NEW o
    PROVE  LET leave == o.closed \/ o.away \/ o.handed
           IN  /\ Observed("gauge refreshing", s, o) <=> o.gauge = "refreshing"
               /\ Observed("gauge empty", s, o) <=> o.gauge = "empty"
               /\ Observed("gauge not empty", s, o) <=> o.gauge \in {"ok", "unknown"}
               /\ Observed("not alive", s, o) <=> ~o.alive
               /\ Observed("alive, open", s, o) <=> o.alive /\ ~leave
               /\ Observed("alive, closed", s, o) <=> o.alive /\ leave
               /\ Observed("alive, before deadline", s, o) <=> o.alive /\ ~due
               /\ Observed("alive, due, proven", s, o) <=>
                     o.alive /\ due /\ o.proven = "yes"
               /\ Observed("alive, due, unproven", s, o) <=>
                     o.alive /\ due /\ o.proven = "no"
               /\ Observed("alive, proven", s, o) <=> o.alive /\ o.proven = "yes"
               /\ Observed("alive, not proven", s, o) <=> o.alive /\ o.proven # "yes"
               /\ Observed("any", s, o)
               /\ Observed("not released", s, o) <=> "released" \notin s.has
BY DEF Observed

\* The states and observations of those rows.
LEMMA CoveringRows ==
    /\ Table[10].states = {"parked"} /\ Table[10].when = "gauge refreshing"
    /\ Table[11].states = {"wanted"} /\ Table[11].when = "gauge refreshing"
    /\ Table[13].states = Startable /\ Table[13].when = "gauge empty"
    /\ Table[14].states = Startable /\ Table[14].when = "gauge not empty"
    /\ Table[15].states = Live /\ Table[15].when = "not alive"
    /\ Table[17].states = {"running"} /\ Table[17].when = "alive, open"
    /\ Table[18].states = {"running"} /\ Table[18].when = "alive, closed"
    /\ Table[19].states = {"leaving", "unidentified"} /\ Table[19].when = "alive, open"
    /\ Table[20].states = {"leaving"} /\ Table[20].when = "alive, before deadline"
    /\ Table[21].states = {"leaving"} /\ Table[21].when = "alive, due, proven"
    /\ Table[22].states = {"leaving"} /\ Table[22].when = "alive, due, unproven"
    /\ Table[23].states = {"stopping"} /\ Table[23].when = "alive, proven"
    /\ Table[24].states = {"stopping"} /\ Table[24].when = "alive, not proven"
    /\ Table[25].states = {"unidentified"} /\ Table[25].when = "alive, closed"
    /\ Table[26].states = {"exited"} /\ Table[26].when = "any"
    /\ Table[27].states = {"ended"} /\ Table[27].when = "not released"
BY DEF Table, TableRow, StopRow

\* row_for finds a row for every observation of a body that holds the thread.
LEMMA RowForFinds ==
    ASSUME NEW force \in BOOLEAN, NEW o \in Observations(force),
           facts.name \in Names, "released" \notin facts.has, Alive \in BOOLEAN
    PROVE  RowFor(facts, o) # 0
<1> DEFINE name == StateName(facts, o.alive)
           leave == o.closed \/ o.away \/ o.handed
<1>1. SUFFICES ASSUME RowFor(facts, o) = 0  PROVE FALSE
  OBVIOUS
<1>2. /\ o.alive = Alive /\ o.gauge \in {"ok", "unknown", "refreshing", "empty"}
      /\ o.closed = closed /\ o.handed \in BOOLEAN /\ o.away \in BOOLEAN
      /\ o.proven \in {"none", "yes", "no"} /\ o.fenced \in BOOLEAN
      /\ o.handed => o.fenced
  BY DEF Observations
<1>3. o.proven = "none" <=>
        ~(/\ Alive
          /\ \/ StateName(facts, Alive) = "stopping"
             \/ StateName(facts, Alive) = "leaving" /\ due /\ (closed \/ o.fenced \/ o.away))
  BY DEF Observations
<1>4. name \in Names \cup {"stopping", "exited", "ended"}
  BY DEF StateName, Names, Startable
<1>5. \A k \in 1 .. 27 : ~(name \in Table[k].states /\ Observed(Table[k].when, facts, o))
  BY <1>1, RowForMatches
<1> HIDE DEF name
<1>6. name = "parked" => o.gauge # "refreshing"
  <2>1. ~(name \in Table[10].states /\ Observed(Table[10].when, facts, o))
    BY <1>5
  <2>2. ~(name \in {"parked"} /\ Observed("gauge refreshing", facts, o))
    BY <2>1, CoveringRows
  <2>3. QED  BY <2>2, ObservedIs
<1>7. name = "wanted" => o.gauge # "refreshing"
  <2>1. ~(name \in Table[11].states /\ Observed(Table[11].when, facts, o))
    BY <1>5
  <2>2. ~(name \in {"wanted"} /\ Observed("gauge refreshing", facts, o))
    BY <2>1, CoveringRows
  <2>3. QED  BY <2>2, ObservedIs
<1>8. name \in Startable => o.gauge # "empty"
  <2>1. ~(name \in Table[13].states /\ Observed(Table[13].when, facts, o))
    BY <1>5
  <2>2. ~(name \in Startable /\ Observed("gauge empty", facts, o))
    BY <2>1, CoveringRows
  <2>3. QED  BY <2>2, ObservedIs
<1>9. name \in Startable => o.gauge \notin {"ok", "unknown"}
  <2>1. ~(name \in Table[14].states /\ Observed(Table[14].when, facts, o))
    BY <1>5
  <2>2. ~(name \in Startable /\ Observed("gauge not empty", facts, o))
    BY <2>1, CoveringRows
  <2>3. QED  BY <2>2, ObservedIs
<1>10. name \in Live => o.alive
  <2>1. ~(name \in Table[15].states /\ Observed(Table[15].when, facts, o))
    BY <1>5
  <2>2. ~(name \in Live /\ Observed("not alive", facts, o))
    BY <2>1, CoveringRows
  <2>3. QED  BY <2>2, ObservedIs
<1>11. name = "running" => ~(o.alive /\ ~leave)
  <2>1. ~(name \in Table[17].states /\ Observed(Table[17].when, facts, o))
    BY <1>5
  <2>2. ~(name \in {"running"} /\ Observed("alive, open", facts, o))
    BY <2>1, CoveringRows
  <2>3. QED  BY <2>2, ObservedIs
<1>12. name = "running" => ~(o.alive /\ leave)
  <2>1. ~(name \in Table[18].states /\ Observed(Table[18].when, facts, o))
    BY <1>5
  <2>2. ~(name \in {"running"} /\ Observed("alive, closed", facts, o))
    BY <2>1, CoveringRows
  <2>3. QED  BY <2>2, ObservedIs
<1>13. name \in {"leaving", "unidentified"} => ~(o.alive /\ ~leave)
  <2>1. ~(name \in Table[19].states /\ Observed(Table[19].when, facts, o))
    BY <1>5
  <2>2. ~(name \in {"leaving", "unidentified"} /\ Observed("alive, open", facts, o))
    BY <2>1, CoveringRows
  <2>3. QED  BY <2>2, ObservedIs
<1>14. name = "leaving" => ~(o.alive /\ ~due)
  <2>1. ~(name \in Table[20].states /\ Observed(Table[20].when, facts, o))
    BY <1>5
  <2>2. ~(name \in {"leaving"} /\ Observed("alive, before deadline", facts, o))
    BY <2>1, CoveringRows
  <2>3. QED  BY <2>2, ObservedIs
<1>15. name = "leaving" => ~(o.alive /\ due /\ o.proven = "yes")
  <2>1. ~(name \in Table[21].states /\ Observed(Table[21].when, facts, o))
    BY <1>5
  <2>2. ~(name \in {"leaving"} /\ Observed("alive, due, proven", facts, o))
    BY <2>1, CoveringRows
  <2>3. QED  BY <2>2, ObservedIs
<1>16. name = "leaving" => ~(o.alive /\ due /\ o.proven = "no")
  <2>1. ~(name \in Table[22].states /\ Observed(Table[22].when, facts, o))
    BY <1>5
  <2>2. ~(name \in {"leaving"} /\ Observed("alive, due, unproven", facts, o))
    BY <2>1, CoveringRows
  <2>3. QED  BY <2>2, ObservedIs
<1>17. name = "stopping" => ~(o.alive /\ o.proven = "yes")
  <2>1. ~(name \in Table[23].states /\ Observed(Table[23].when, facts, o))
    BY <1>5
  <2>2. ~(name \in {"stopping"} /\ Observed("alive, proven", facts, o))
    BY <2>1, CoveringRows
  <2>3. QED  BY <2>2, ObservedIs
<1>18. name = "stopping" => ~(o.alive /\ o.proven # "yes")
  <2>1. ~(name \in Table[24].states /\ Observed(Table[24].when, facts, o))
    BY <1>5
  <2>2. ~(name \in {"stopping"} /\ Observed("alive, not proven", facts, o))
    BY <2>1, CoveringRows
  <2>3. QED  BY <2>2, ObservedIs
<1>19. name = "unidentified" => ~(o.alive /\ leave)
  <2>1. ~(name \in Table[25].states /\ Observed(Table[25].when, facts, o))
    BY <1>5
  <2>2. ~(name \in {"unidentified"} /\ Observed("alive, closed", facts, o))
    BY <2>1, CoveringRows
  <2>3. QED  BY <2>2, ObservedIs
<1>20. name # "exited"
  <2>1. ~(name \in Table[26].states /\ Observed(Table[26].when, facts, o))
    BY <1>5
  <2>2. ~(name \in {"exited"} /\ Observed("any", facts, o))
    BY <2>1, CoveringRows
  <2>3. QED  BY <2>2, ObservedIs
<1>21. name # "ended"
  <2>1. ~(name \in Table[27].states /\ Observed(Table[27].when, facts, o))
    BY <1>5
  <2>2. ~(name \in {"ended"} /\ Observed("not released", facts, o))
    BY <2>1, CoveringRows
  <2>3. QED  BY <2>2, ObservedIs
<1>22. name \notin Startable
  BY <1>2, <1>6, <1>7, <1>8, <1>9 DEF Startable
<1>23. name \in {"running", "leaving", "unidentified", "stopping"}
  BY <1>4, <1>20, <1>21, <1>22 DEF Names, Startable
<1>24. o.alive
  BY <1>10, <1>23 DEF Live
<1>25. name # "running" /\ name # "unidentified" /\ name # "stopping"
  BY <1>11, <1>12, <1>13, <1>18, <1>19, <1>24, <1>16, <1>17
<1>26. name = "leaving" /\ leave /\ due /\ o.proven = "none"
  BY <1>2, <1>13, <1>14, <1>15, <1>16, <1>23, <1>24, <1>25
<1>27. QED  BY <1>2, <1>3, <1>24, <1>26 DEF name

-----------------------------------------------------------------------------
(* The hands *)

\* The first command of a list says what is left after it and, when the list
\* is Ready, what holds before it.
LEMMA HeadTells ==
    ASSUME NEW c, NEW s, NEW p, NEW n, NEW d, Ready(c, s, p, n, d)
    PROVE  /\ Head(c) = "prepare" => Tail(c) = ShowPlan /\ Fresh(s, p)
           /\ Head(c) = "shown" => Tail(c) = SpawnPlan /\ Fresh(s, p)
           /\ Head(c) = "spawn" => Tail(c) = StartedPlan /\ Announced(s) /\ p = "none"
           /\ Head(c) = "started" => Tail(c) = <<>> /\ Announced(s) /\ p # "none"
           /\ Head(c) = "pending" => Tail(c) = <<>> /\ Fresh(s, p) /\ "body.pending" \notin s.has
           /\ Head(c) = "park" => Tail(c) = <<>> /\ Fresh(s, p)
           /\ Head(c) \in {"let_go", "leaving", "stayed", "unidentified"} =>
                 Tail(c) = <<>> /\ Serving(s, p)
           /\ Head(c) = "stopped" => Tail(c) = SignalPlan /\ Serving(s, p) /\ d
           /\ Head(c) = "signal" => /\ Tail(c) = <<>> /\ p # "none" /\ Unfinished(s)
                                    /\ "body.stopped" \in s.has
           /\ Head(c) = "collect" => Tail(c) = EmptyPlan /\ p # "live" /\ Unfinished(s)
           /\ Head(c) = "drain" =>
                 \/ Tail(c) = ExitPlan /\ p # "live" /\ Unfinished(s)
                 \/ Tail(c) = DrainedPlan /\ "attempt.ended" \in s.has
           /\ Head(c) = "exit" => Tail(c) = EndPlan /\ p # "live" /\ n = 0 /\ Unfinished(s)
           /\ Head(c) = "end" => /\ Tail(c) = DrainPlan /\ p # "live" /\ n = 0
                                 /\ "attempt.ended" \notin s.has
           /\ Head(c) = "drained" => Tail(c) = ReleasePlan /\ "attempt.ended" \in s.has
           /\ Head(c) = "release" => /\ Tail(c) = <<>>
                                     /\ {"attempt.ended", "port.drained"} \subseteq s.has
<1>1. CASE c = <<"pending">> /\ Fresh(s, p) /\ "body.pending" \notin s.has
  BY <1>1, SingleSteps
<1>2. CASE c = <<"park">> /\ Fresh(s, p)
  BY <1>2, SingleSteps
<1>3. CASE /\ c \in {<<"let_go">>, <<"leaving">>, <<"stayed">>, <<"unidentified">>}
           /\ Serving(s, p)
  <2>1. /\ Head(c) \in {"let_go", "leaving", "stayed", "unidentified"}
        /\ Tail(c) = <<>>
    BY <1>3, SingleSteps
  <2>2. QED  BY <1>3, <2>1
<1>4. CASE c \in {StartPlan, ShowPlan} /\ Fresh(s, p)
  BY <1>4, PlanSteps
<1>5. CASE \/ c = SpawnPlan /\ Announced(s) /\ p = "none"
           \/ c = StartedPlan /\ Announced(s) /\ p # "none"
           \/ c = StopPlan /\ Serving(s, p) /\ d
           \/ c = SignalPlan /\ p # "none" /\ Unfinished(s) /\ "body.stopped" \in s.has
  BY <1>5, PlanSteps
<1>6. CASE \/ c \in {CollectPlan, EmptyPlan} /\ p # "live" /\ Unfinished(s)
           \/ c = ExitPlan /\ p # "live" /\ n = 0 /\ Unfinished(s)
           \/ c = EndPlan /\ p # "live" /\ n = 0 /\ "attempt.ended" \notin s.has
           \/ c \in {DrainPlan, DrainedPlan} /\ "attempt.ended" \in s.has
           \/ c = ReleasePlan /\ {"attempt.ended", "port.drained"} \subseteq s.has
  BY <1>6, PlanSteps
<1>7. QED  BY <1>1, <1>2, <1>3, <1>4, <1>5, <1>6 DEF Ready

\* A list that is Ready is one of the lists.
LEMMA ReadyIsPlan ==
    ASSUME NEW c, NEW s, NEW p, NEW n, NEW d, Ready(c, s, p, n, d)
    PROVE  c \in Plans
BY DEF Ready, Plans

\* What the invariant says of whoever is at a command.
LEMMA HandKnows ==
    ASSUME IInv, NEW a \in Actor, todo[a] # <<>>
    PROVE  /\ gen \in Gens /\ starting = a
           /\ process[gen] \in {"none", "live", "gone"} /\ out[gen] \in 0 .. MaxOut
           /\ Sound(facts, process[gen], out[gen], due) /\ "released" \notin facts.has
           /\ Ready(todo[a], facts, process[gen], out[gen], due)
<1>1. gen # 0 /\ gen \in 0 .. MaxGen /\ starting = a
      /\ Ready(todo[a], facts, process[gen], out[gen], due)
  BY DEF IInv, TypeOK, Passes
<1>2. gen \in Gens
  BY <1>1, BoundsOK DEF Gens
<1>3. process[gen] \in {"none", "live", "gone"} /\ out[gen] \in 0 .. MaxOut
  BY <1>2 DEF IInv, TypeOK
<1>4. Sound(facts, process[gen], out[gen], due)
  BY <1>1 DEF IInv, LatestGen
<1>5. "released" \notin facts.has
  BY <1>1 DEF Ready
<1>6. QED  BY <1>1, <1>2, <1>3, <1>4, <1>5

\* A hand that leaves a Ready list, or none, keeps the invariant.
LEMMA HandKeeps ==
    ASSUME IInv, NEW a \in Actor, todo[a] # <<>> \/ starting = "nobody",
           gen \in Gens, gen' = gen, crashes' \in 0 .. MaxCrashes,
           process' \in [Gens -> {"none", "live", "gone"}],
           out' \in [Gens -> 0 .. MaxOut],
           \A g \in Gens : g # gen => process'[g] = process[g] /\ out'[g] = out[g],
           closed' \in BOOLEAN, waited' \in BOOLEAN, letgo' \in BOOLEAN,
           ~conflict', ~refused',
           Sound(facts', process'[gen], out'[gen], due'),
           NEW c, Pass(a, c),
           c = <<>> \/ Ready(c, facts', process'[gen], out'[gen], due')
    PROVE  IInv'
<1>1. todo' = [todo EXCEPT ![a] = c] /\ starting' = IF c = <<>> THEN "nobody" ELSE a
  BY DEF Pass
<1>2. c \in Plans
  BY ReadyIsPlan DEF Plans
<1>3. todo \in [Actor -> Plans]
  BY DEF IInv, TypeOK
<1>4. TypeOK'
  <2>1. /\ facts'.name \in Names /\ facts'.identified \in BOOLEAN
        /\ facts'.has \subseteq Once /\ due' \in BOOLEAN
    BY DEF Sound
  <2>2. todo' \in [Actor -> Plans] /\ starting' \in Actor \cup {"nobody"}
    BY <1>1, <1>2, <1>3
  <2>3. gen' \in 0 .. MaxGen
    BY BoundsOK DEF Gens
  <2>4. QED  BY <2>1, <2>2, <2>3 DEF TypeOK
<1>5. OtherGens'
  BY BoundsOK DEF IInv, OtherGens, Gens
<1>6. LatestGen'
  BY BoundsOK DEF LatestGen, Gens
<1>7. Passes'
  <2>1. SUFFICES ASSUME NEW b \in Actor, todo'[b] # <<>>
                 PROVE  /\ starting' = b /\ gen' # 0
                        /\ Ready(todo'[b], facts', process'[gen'], out'[gen'], due')
    BY DEF Passes
  <2>2. CASE b = a
    BY <1>1, <1>3, <2>1, <2>2, BoundsOK DEF Gens
  <2>3. CASE b # a
    <3>1. todo[b] # <<>>
      BY <1>1, <1>3, <2>1, <2>3
    <3>2. starting = b
      BY <3>1 DEF IInv, Passes
    <3>3. starting = a \/ starting = "nobody"
      BY DEF IInv, Passes
    <3>4. QED  BY <2>3, <3>2, <3>3 DEF Actor
  <2>4. QED  BY <2>2, <2>3
<1>8. QED  BY <1>4, <1>5, <1>6, <1>7 DEF IInv, OnceFacts, TableTotal

\* What one more fact makes of sound facts, for the facts the hands record.
LEMMA FoldKeeps ==
    ASSUME NEW s, NEW p, NEW n, NEW d, Sound(s, p, n, d), "released" \notin s.has
    PROVE  /\ Fresh(s, p) =>
                 /\ Sound(Fold(s, "shown"), p, n, d)
                 /\ Ready(SpawnPlan, Fold(s, "shown"), p, n, d)
                 /\ Sound(Fold(s, "body.pending"), p, n, d)
                 /\ Sound(Fold(s, "body.parked"), p, n, d)
           /\ Announced(s) /\ p # "none" => Sound(Fold(s, "body.started"), p, n, d)
           /\ Serving(s, p) => /\ Sound(Fold(s, "body.leaving"), p, n, FALSE)
                               /\ Sound(Fold(s, "body.stayed"), p, n, d)
                               /\ Sound(Fold(s, "body.unidentified"), p, n, d)
           /\ Serving(s, p) /\ d => /\ Sound(Fold(s, "body.stopped"), p, n, d)
                                    /\ Ready(SignalPlan, Fold(s, "body.stopped"), p, n, d)
           /\ p # "live" /\ n = 0 /\ Unfinished(s) =>
                 /\ Sound(Fold(s, "body.exited"), p, n, d)
                 /\ Ready(EndPlan, Fold(s, "body.exited"), p, n, d)
           /\ p # "live" /\ n = 0 =>
                 /\ Sound(Fold(s, "attempt.ended"), p, n, d)
                 /\ Ready(DrainPlan, Fold(s, "attempt.ended"), p, n, d)
           /\ "attempt.ended" \in s.has =>
                 /\ Sound(Fold(s, "port.drained"), p, n, d)
                 /\ Ready(ReleasePlan, Fold(s, "port.drained"), p, n, d)
           /\ {"attempt.ended", "port.drained"} \subseteq s.has =>
                 Sound(Fold(s, "released"), p, n, d)
<1>1. Fresh(s, p) => /\ Sound(Fold(s, "shown"), p, n, d)
                     /\ Ready(SpawnPlan, Fold(s, "shown"), p, n, d)
  <2>1. SUFFICES ASSUME Fresh(s, p)
                 PROVE  /\ Sound(Fold(s, "shown"), p, n, d)
                        /\ Ready(SpawnPlan, Fold(s, "shown"), p, n, d)
    OBVIOUS
  <2>2. /\ Fold(s, "shown").name = "running" /\ Fold(s, "shown").identified = s.identified
        /\ Fold(s, "shown").has = s.has \cup {"shown"}
    BY <2>1 DEF Fresh, Fold, Once
  <2> HIDE DEF Fold
  <2>3. Sound(Fold(s, "shown"), p, n, d)
    BY <2>1, <2>2 DEF Sound, Fresh, Names, Once, Startable
  <2>4. QED  BY <2>1, <2>2, <2>3 DEF Ready, Announced, Fresh
<1>2. Fresh(s, p) => /\ Sound(Fold(s, "body.pending"), p, n, d)
                     /\ Sound(Fold(s, "body.parked"), p, n, d)
  <2>1. /\ Fold(s, "body.pending").name = s.name
        /\ Fold(s, "body.pending").identified = s.identified
        /\ Fold(s, "body.pending").has = s.has \cup {"body.pending"}
        /\ Fold(s, "body.parked").name = "parked"
        /\ Fold(s, "body.parked").identified = s.identified
        /\ Fold(s, "body.parked").has = s.has
    BY DEF Fold, Once
  <2>2. Fresh(s, p) => Sound(Fold(s, "body.pending"), p, n, d)
    BY <2>1 DEF Sound, Fresh, Names, Once, Startable
  <2>3. Fresh(s, p) => Sound(Fold(s, "body.parked"), p, n, d)
    BY <2>1 DEF Sound, Fresh, Names, Once, Startable
  <2>4. QED  BY <2>2, <2>3
<1>3. Announced(s) /\ p # "none" => Sound(Fold(s, "body.started"), p, n, d)
  <2>1. /\ Fold(s, "body.started").name = "running"
        /\ Fold(s, "body.started").identified = s.identified
        /\ Fold(s, "body.started").has = s.has \cup {"body.started"}
    BY DEF Fold, Once
  <2>2. QED  BY <2>1 DEF Sound, Announced, Names, Once, Startable
<1>4. Serving(s, p) => /\ Sound(Fold(s, "body.leaving"), p, n, FALSE)
                       /\ Sound(Fold(s, "body.stayed"), p, n, d)
                       /\ Sound(Fold(s, "body.unidentified"), p, n, d)
  <2>1. /\ Fold(s, "body.leaving").name = "leaving"
        /\ Fold(s, "body.leaving").identified = TRUE
        /\ Fold(s, "body.leaving").has = s.has
        /\ Fold(s, "body.stayed").name = "running"
        /\ Fold(s, "body.stayed").identified = s.identified
        /\ Fold(s, "body.stayed").has = s.has
        /\ Fold(s, "body.unidentified").name = "unidentified"
        /\ Fold(s, "body.unidentified").identified = FALSE
        /\ Fold(s, "body.unidentified").has = s.has
    BY DEF Fold, Once
  <2>2. Serving(s, p) => Sound(Fold(s, "body.leaving"), p, n, FALSE)
    BY <2>1 DEF Sound, Serving, Names, Startable
  <2>3. Serving(s, p) => Sound(Fold(s, "body.stayed"), p, n, d)
    BY <2>1 DEF Sound, Serving, Names, Startable
  <2>4. Serving(s, p) => Sound(Fold(s, "body.unidentified"), p, n, d)
    BY <2>1 DEF Sound, Serving, Names, Startable
  <2>5. QED  BY <2>2, <2>3, <2>4
<1>5. \A kind \in {"body.stopped", "body.exited", "attempt.ended", "port.drained", "released"} :
        /\ Fold(s, kind).name = s.name /\ Fold(s, kind).identified = s.identified
        /\ Fold(s, kind).has = s.has \cup {kind}
  BY DEF Fold, Once
<1>6. Serving(s, p) /\ d => /\ Sound(Fold(s, "body.stopped"), p, n, d)
                            /\ Ready(SignalPlan, Fold(s, "body.stopped"), p, n, d)
  <2>1. Serving(s, p) /\ d => Sound(Fold(s, "body.stopped"), p, n, d)
    BY <1>5 DEF Sound, Serving, Once
  <2>2. QED  BY <1>5, <2>1 DEF Ready, Serving, Unfinished
<1>7. p # "live" /\ n = 0 /\ Unfinished(s) =>
        /\ Sound(Fold(s, "body.exited"), p, n, d)
        /\ Ready(EndPlan, Fold(s, "body.exited"), p, n, d)
  <2>1. p # "live" /\ n = 0 => Sound(Fold(s, "body.exited"), p, n, d)
    BY <1>5 DEF Sound, Once
  <2>2. QED  BY <1>5, <2>1 DEF Ready, Unfinished
<1>8. p # "live" /\ n = 0 =>
        /\ Sound(Fold(s, "attempt.ended"), p, n, d)
        /\ Ready(DrainPlan, Fold(s, "attempt.ended"), p, n, d)
  <2>1. p # "live" /\ n = 0 => Sound(Fold(s, "attempt.ended"), p, n, d)
    BY <1>5 DEF Sound, Once
  <2>2. QED  BY <1>5, <2>1 DEF Ready
<1>9. "attempt.ended" \in s.has =>
        /\ Sound(Fold(s, "port.drained"), p, n, d)
        /\ Ready(ReleasePlan, Fold(s, "port.drained"), p, n, d)
  <2>1. "attempt.ended" \in s.has => Sound(Fold(s, "port.drained"), p, n, d)
    BY <1>5 DEF Sound, Once
  <2>2. QED  BY <1>5, <2>1 DEF Ready
<1>10. {"attempt.ended", "port.drained"} \subseteq s.has => Sound(Fold(s, "released"), p, n, d)
  BY <1>5 DEF Sound, Once
<1>11. QED  BY <1>1, <1>2, <1>3, <1>4, <1>6, <1>7, <1>8, <1>9, <1>10

\* The kinds of fact that _hand_record is performed for.
LEMMA Kinds ==
    /\ DOMAIN KindOf = {"shown", "started", "pending", "park", "leaving", "stayed",
                        "stopped", "unidentified", "exit"}
    /\ KindOf["shown"] = "shown" /\ KindOf["started"] = "body.started"
    /\ KindOf["pending"] = "body.pending" /\ KindOf["park"] = "body.parked"
    /\ KindOf["leaving"] = "body.leaving" /\ KindOf["stayed"] = "body.stayed"
    /\ KindOf["stopped"] = "body.stopped" /\ KindOf["unidentified"] = "body.unidentified"
    /\ KindOf["exit"] = "body.exited"
BY DEF KindOf

\* _hand_show, _hand_started, _hand_record.
LEMMA RecordHandKeeps ==
    ASSUME IInv, NEW a \in Actor, RecordHand(a)
    PROVE  IInv'
<1> DEFINE c == todo[a]
           h == Head(c)
           p == process[gen]
           n == out[gen]
<1>1. /\ c # <<>> /\ h \in DOMAIN KindOf
      /\ facts' = Fold(facts, KindOf[h])
      /\ conflict' = (conflict \/ KindOf[h] \in facts.has)
      /\ due' = (IF h = "leaving" THEN FALSE ELSE due)
      /\ waited' = (IF h = "park" THEN FALSE ELSE waited)
      /\ Pass(a, Tail(c))
      /\ UNCHANGED <<letgo, gen, process, out, closed, crashes, refused>>
  BY DEF RecordHand, Record
<1>2. /\ gen \in Gens /\ Sound(facts, p, n, due) /\ "released" \notin facts.has
      /\ Ready(c, facts, p, n, due)
  BY <1>1, HandKnows
<1>3. /\ process' \in [Gens -> {"none", "live", "gone"}] /\ out' \in [Gens -> 0 .. MaxOut]
      /\ crashes' \in 0 .. MaxCrashes
      /\ closed' \in BOOLEAN /\ waited' \in BOOLEAN /\ letgo' \in BOOLEAN
      /\ ~refused' /\ ~conflict /\ process'[gen] = p /\ out'[gen] = n
      /\ \A g \in Gens : g # gen => process'[g] = process[g] /\ out'[g] = out[g]
  BY <1>1 DEF IInv, TypeOK, OnceFacts, TableTotal
<1> HIDE DEF c, h, p, n
<1>4. /\ Sound(facts', p, n, due') /\ KindOf[h] \notin facts.has
      /\ Tail(c) = <<>> \/ Ready(Tail(c), facts', p, n, due')
  <2>1. CASE h \in {"shown", "pending", "park"}
    <3>1. h = "shown" => Tail(c) = SpawnPlan /\ Fresh(facts, p)
      BY <1>2, HeadTells DEF h
    <3>2. h = "pending" => /\ Tail(c) = <<>> /\ Fresh(facts, p)
                           /\ "body.pending" \notin facts.has
      BY <1>2, HeadTells DEF h
    <3>3. h = "park" => Tail(c) = <<>> /\ Fresh(facts, p)
      BY <1>2, HeadTells DEF h
    <3>4. Fresh(facts, p) => "shown" \notin facts.has /\ "body.parked" \notin facts.has
      BY DEF Fresh
    <3>5. due' = due
      BY <1>1, <2>1
    <3>6. CASE h = "shown"
      <4>1. facts' = Fold(facts, "shown") /\ KindOf[h] = "shown"
        BY <1>1, <3>6, Kinds
      <4>2. QED  BY <1>2, <3>1, <3>4, <3>5, <3>6, <4>1, FoldKeeps
    <3>7. CASE h = "pending"
      <4>1. facts' = Fold(facts, "body.pending") /\ KindOf[h] = "body.pending"
        BY <1>1, <3>7, Kinds
      <4>2. QED  BY <1>2, <3>2, <3>5, <3>7, <4>1, FoldKeeps
    <3>8. CASE h = "park"
      <4>1. facts' = Fold(facts, "body.parked") /\ KindOf[h] = "body.parked"
        BY <1>1, <3>8, Kinds
      <4>2. QED  BY <1>2, <3>3, <3>4, <3>5, <3>8, <4>1, FoldKeeps
    <3>9. QED  BY <2>1, <3>6, <3>7, <3>8
  <2>2. CASE h = "started"
    <3>1. Tail(c) = <<>> /\ Announced(facts) /\ p # "none"
      BY <1>2, <2>2, HeadTells DEF h
    <3>2. "body.started" \notin facts.has /\ due' = due
      BY <1>1, <2>2, <3>1 DEF Announced
    <3>3. facts' = Fold(facts, "body.started") /\ KindOf[h] = "body.started"
      BY <1>1, <2>2, Kinds
    <3>4. QED  BY <1>2, <3>1, <3>2, <3>3, FoldKeeps
  <2>3. CASE h \in {"leaving", "stayed", "unidentified"}
    <3>1. Tail(c) = <<>> /\ Serving(facts, p)
      BY <1>2, <2>3, HeadTells DEF h
    <3>2. /\ "body.leaving" \notin facts.has /\ "body.stayed" \notin facts.has
          /\ "body.unidentified" \notin facts.has
      BY <1>2 DEF Sound, Once
    <3>3. KindOf[h] \notin facts.has
      BY <2>3, <3>2, Kinds
    <3>4. h = "leaving" => facts' = Fold(facts, "body.leaving") /\ due' = FALSE
      BY <1>1, Kinds
    <3>5. h = "stayed" => facts' = Fold(facts, "body.stayed") /\ due' = due
      BY <1>1, Kinds
    <3>6. h = "unidentified" => facts' = Fold(facts, "body.unidentified") /\ due' = due
      BY <1>1, Kinds
    <3>7. Sound(facts', p, n, due')
      BY <1>2, <2>3, <3>1, <3>4, <3>5, <3>6, FoldKeeps
    <3>8. QED  BY <3>1, <3>3, <3>7
  <2>4. CASE h = "stopped"
    <3>1. Tail(c) = SignalPlan /\ Serving(facts, p) /\ due
      BY <1>2, <2>4, HeadTells DEF h
    <3>2. "body.stopped" \notin facts.has /\ due' = due
      BY <1>1, <2>4, <3>1 DEF Serving
    <3>3. facts' = Fold(facts, "body.stopped") /\ KindOf[h] = "body.stopped"
      BY <1>1, <2>4, Kinds
    <3>4. QED  BY <1>2, <3>1, <3>2, <3>3, FoldKeeps
  <2>5. CASE h = "exit"
    <3>1. Tail(c) = EndPlan /\ p # "live" /\ n = 0 /\ Unfinished(facts)
      BY <1>2, <2>5, HeadTells DEF h
    <3>2. "body.exited" \notin facts.has /\ due' = due
      BY <1>1, <2>5, <3>1 DEF Unfinished
    <3>3. facts' = Fold(facts, "body.exited") /\ KindOf[h] = "body.exited"
      BY <1>1, <2>5, Kinds
    <3>4. QED  BY <1>2, <3>1, <3>2, <3>3, FoldKeeps
  <2>6. QED  BY <1>1, <2>1, <2>2, <2>3, <2>4, <2>5, Kinds
<1>5. ~conflict' /\ gen' = gen /\ todo[a] # <<>>
  BY <1>1, <1>3, <1>4 DEF c
<1>6. QED  BY <1>1, <1>2, <1>3, <1>4, <1>5, HandKeeps

\* _hand_prepare, _hand_collect, _hand_let_go, and the two that give up for now.
LEMMA QuietHandsKeep ==
    ASSUME IInv, NEW a \in Actor,
           PrepareHand(a) \/ SignalMissed(a) \/ LetGoHand(a) \/ CollectHand(a) \/ EndWaits(a)
    PROVE  IInv'
<1> DEFINE c == todo[a]
           p == process[gen]
           n == out[gen]
<1>1. /\ c # <<>> /\ letgo' \in BOOLEAN
      /\ UNCHANGED <<gen, facts, process, out, closed, due, waited, crashes, conflict, refused>>
  BY DEF PrepareHand, SignalMissed, LetGoHand, CollectHand, EndWaits, Doing, IInv, TypeOK
<1>2. /\ gen \in Gens /\ Sound(facts, p, n, due) /\ "released" \notin facts.has
      /\ Ready(c, facts, p, n, due)
  BY <1>1, HandKnows
<1>3. \E rest : Pass(a, rest) /\ (rest = <<>> \/ Ready(rest, facts, p, n, due))
  <2>1. CASE PrepareHand(a)
    <3>1. Head(c) = "prepare"
      BY <2>1 DEF PrepareHand, Doing
    <3>2. Tail(c) = ShowPlan /\ Fresh(facts, p)
      BY <1>2, <3>1, HeadTells
    <3>3. Ready(ShowPlan, facts, p, n, due)
      BY <1>2, <3>2 DEF Ready
    <3>4. CASE Pass(a, Decide(facts, Again(FALSE, TRUE)))
      <4>1. p # "live"
        BY <3>2 DEF Fresh
      <4>2. \/ Decide(facts, Again(FALSE, TRUE)) = <<>>
            \/ Ready(Decide(facts, Again(FALSE, TRUE)), facts, p, n, due)
        BY <1>2, <4>1, AgainIsReady
      <4>3. QED  BY <3>4, <4>2
    <3>5. QED  BY <2>1, <3>2, <3>3, <3>4 DEF PrepareHand
  <2>2. CASE SignalMissed(a)
    <3>1. Head(c) = "signal" /\ Pass(a, Tail(c))
      BY <2>2 DEF SignalMissed, Doing
    <3>2. Tail(c) = <<>>
      BY <1>2, <3>1, HeadTells
    <3>3. QED  BY <3>1, <3>2
  <2>3. CASE LetGoHand(a)
    <3>1. Head(c) = "let_go" /\ Pass(a, Tail(c))
      BY <2>3 DEF LetGoHand, Doing
    <3>2. Tail(c) = <<>>
      BY <1>2, <3>1, HeadTells
    <3>3. QED  BY <3>1, <3>2
  <2>4. CASE CollectHand(a)
    <3>1. Head(c) = "collect" /\ Pass(a, Tail(c))
      BY <2>4 DEF CollectHand, Doing
    <3>2. Tail(c) = EmptyPlan /\ p # "live" /\ Unfinished(facts)
      BY <1>2, <3>1, HeadTells
    <3>3. Ready(EmptyPlan, facts, p, n, due)
      BY <1>2, <3>2 DEF Ready
    <3>4. QED  BY <3>1, <3>2, <3>3
  <2>5. CASE EndWaits(a)
    BY <2>5 DEF EndWaits
  <2>6. QED  BY <2>1, <2>2, <2>3, <2>4, <2>5
<1> HIDE DEF c, p, n
<1>4. PICK rest : Pass(a, rest) /\ (rest = <<>> \/ Ready(rest, facts, p, n, due))
  BY <1>3
<1>5. /\ process' \in [Gens -> {"none", "live", "gone"}] /\ out' \in [Gens -> 0 .. MaxOut]
      /\ crashes' \in 0 .. MaxCrashes /\ closed' \in BOOLEAN /\ waited' \in BOOLEAN
      /\ ~refused' /\ ~conflict' /\ process'[gen] = p /\ out'[gen] = n
      /\ \A g \in Gens : g # gen => process'[g] = process[g] /\ out'[g] = out[g]
      /\ todo[a] # <<>>
  BY <1>1 DEF IInv, TypeOK, OnceFacts, TableTotal, c, p, n
<1>6. QED  BY <1>1, <1>2, <1>4, <1>5, HandKeeps

\* _hand_spawn.
LEMMA SpawnHandKeeps ==
    ASSUME IInv, NEW a \in Actor, SpawnHand(a)
    PROVE  IInv'
<1> DEFINE c == todo[a]
           p == process[gen]
           n == out[gen]
<1>1. /\ c # <<>> /\ Head(c) = "spawn"
      /\ UNCHANGED <<letgo, gen, facts, out, closed, due, waited, crashes, conflict, refused>>
  BY DEF SpawnHand, Doing
<1>2. /\ gen \in Gens /\ Sound(facts, p, n, due) /\ "released" \notin facts.has
      /\ Ready(c, facts, p, n, due)
  BY <1>1, HandKnows
<1>3. Tail(c) = StartedPlan /\ Announced(facts) /\ p = "none"
  BY <1>1, <1>2, HeadTells
<1>4. \E rest : /\ Pass(a, rest)
                /\ rest = <<>> \/ Ready(rest, facts, process'[gen], n, due)
                /\ Sound(facts, process'[gen], n, due)
                /\ process' \in [Gens -> {"none", "live", "gone"}]
                /\ \A g \in Gens : g # gen => process'[g] = process[g]
  <2>1. CASE process' = [process EXCEPT ![gen] = "live"] /\ Pass(a, Tail(c))
    <3>1. /\ process'[gen] = "live" /\ process' \in [Gens -> {"none", "live", "gone"}]
          /\ \A g \in Gens : g # gen => process'[g] = process[g]
      BY <1>2, <2>1 DEF IInv, TypeOK
    <3>2. Sound(facts, "live", n, due)
      BY <1>2, <1>3 DEF Sound, Announced, Startable
    <3>3. Ready(StartedPlan, facts, "live", n, due)
      BY <1>2, <1>3 DEF Ready
    <3>4. QED  BY <1>3, <2>1, <3>1, <3>2, <3>3
  <2>2. CASE process' = process /\ Pass(a, Decide(facts, Again(FALSE, TRUE)))
    <3>1. \/ Decide(facts, Again(FALSE, TRUE)) = <<>>
          \/ Ready(Decide(facts, Again(FALSE, TRUE)), facts, p, n, due)
      BY <1>2, <1>3, AgainIsReady
    <3>2. process' \in [Gens -> {"none", "live", "gone"}]
      BY <2>2 DEF IInv, TypeOK
    <3>3. QED  BY <1>2, <2>2, <3>1, <3>2
  <2>3. QED  BY <2>1, <2>2 DEF SpawnHand
<1>5. /\ out' \in [Gens -> 0 .. MaxOut] /\ letgo' \in BOOLEAN
      /\ crashes' \in 0 .. MaxCrashes /\ closed' \in BOOLEAN /\ waited' \in BOOLEAN
      /\ ~refused' /\ ~conflict' /\ out'[gen] = n
      /\ \A g \in Gens : g # gen => out'[g] = out[g]
      /\ todo[a] # <<>>
  BY <1>1 DEF IInv, TypeOK, OnceFacts, TableTotal
<1> HIDE DEF c, p, n
<1>6. PICK rest : /\ Pass(a, rest)
                  /\ rest = <<>> \/ Ready(rest, facts, process'[gen], n, due)
                  /\ Sound(facts, process'[gen], n, due)
                  /\ process' \in [Gens -> {"none", "live", "gone"}]
                  /\ \A g \in Gens : g # gen => process'[g] = process[g]
  BY <1>4
<1>7. QED  BY <1>1, <1>2, <1>5, <1>6, HandKeeps

\* _hand_signal: the body is finished in the same pass.
LEMMA SignalHandKeeps ==
    ASSUME IInv, NEW a \in Actor, SignalHand(a)
    PROVE  IInv'
<1> DEFINE c == todo[a]
           p == process[gen]
           n == out[gen]
           rest == Decide(facts, Again(FALSE, FALSE))
<1>1. /\ c # <<>> /\ Head(c) = "signal" /\ Pass(a, rest)
      /\ process' = [process EXCEPT ![gen] = "gone"]
      /\ UNCHANGED <<letgo, gen, facts, out, closed, due, waited, crashes, conflict, refused>>
  BY DEF SignalHand, Doing
<1>2. /\ gen \in Gens /\ Sound(facts, p, n, due) /\ "released" \notin facts.has
      /\ Ready(c, facts, p, n, due)
  BY <1>1, HandKnows
<1>3. p # "none" /\ Unfinished(facts)
  BY <1>1, <1>2, HeadTells
<1>4. Sound(facts, "gone", n, due)
  BY <1>2, <1>3 DEF Sound
<1>5. rest = <<>> \/ Ready(rest, facts, "gone", n, due)
  BY <1>2, <1>4, AgainIsReady
<1>6. /\ process'[gen] = "gone" /\ process' \in [Gens -> {"none", "live", "gone"}]
      /\ \A g \in Gens : g # gen => process'[g] = process[g]
  BY <1>1, <1>2 DEF IInv, TypeOK
<1>7. /\ out' \in [Gens -> 0 .. MaxOut] /\ letgo' \in BOOLEAN
      /\ crashes' \in 0 .. MaxCrashes /\ closed' \in BOOLEAN /\ waited' \in BOOLEAN
      /\ ~refused' /\ ~conflict' /\ out'[gen] = n
      /\ \A g \in Gens : g # gen => out'[g] = out[g]
      /\ todo[a] # <<>>
  BY <1>1 DEF IInv, TypeOK, OnceFacts, TableTotal
<1> HIDE DEF c, p, n, rest
<1>8. QED  BY <1>1, <1>2, <1>4, <1>5, <1>6, <1>7, HandKeeps

\* _hand_drain, _drain_strand.
LEMMA DrainHandKeeps ==
    ASSUME IInv, NEW a \in Actor, DrainHand(a)
    PROVE  IInv'
<1> DEFINE c == todo[a]
           p == process[gen]
           n == out[gen]
<1>1. /\ c # <<>> /\ Head(c) = "drain" /\ Pass(a, Tail(c))
      /\ out' = [out EXCEPT ![gen] = 0]
      /\ UNCHANGED <<letgo, gen, facts, process, closed, due, waited, crashes, conflict, refused>>
  BY DEF DrainHand, Doing
<1>2. /\ gen \in Gens /\ Sound(facts, p, n, due) /\ "released" \notin facts.has
      /\ Ready(c, facts, p, n, due)
  BY <1>1, HandKnows
<1>3. \/ Tail(c) = ExitPlan /\ p # "live" /\ Unfinished(facts)
      \/ Tail(c) = DrainedPlan /\ "attempt.ended" \in facts.has
  BY <1>1, <1>2, HeadTells
<1>4. Sound(facts, p, 0, due) /\ Ready(Tail(c), facts, p, 0, due)
  BY <1>2, <1>3 DEF Sound, Ready
<1>5. /\ out'[gen] = 0 /\ out' \in [Gens -> 0 .. MaxOut]
      /\ \A g \in Gens : g # gen => out'[g] = out[g]
  BY <1>1, <1>2, BoundsOK DEF IInv, TypeOK
<1>6. /\ process' \in [Gens -> {"none", "live", "gone"}] /\ letgo' \in BOOLEAN
      /\ crashes' \in 0 .. MaxCrashes /\ closed' \in BOOLEAN /\ waited' \in BOOLEAN
      /\ ~refused' /\ ~conflict' /\ process'[gen] = p
      /\ \A g \in Gens : g # gen => process'[g] = process[g]
      /\ todo[a] # <<>>
  BY <1>1 DEF IInv, TypeOK, OnceFacts, TableTotal
<1> HIDE DEF c, p, n
<1>7. QED  BY <1>1, <1>2, <1>4, <1>5, <1>6, HandKeeps

\* _hand_end, _hand_drained and _hand_release.
LEMMA ClosingHandsKeep ==
    ASSUME IInv, NEW a \in Actor, EndHand(a) \/ DrainedHand(a) \/ ReleaseHand(a)
    PROVE  IInv'
<1> DEFINE c == todo[a]
           p == process[gen]
           n == out[gen]
<1>1. /\ c # <<>> /\ Pass(a, Tail(c))
      /\ UNCHANGED <<letgo, gen, process, out, closed, due, waited, crashes, refused>>
  BY DEF EndHand, DrainedHand, ReleaseHand, Doing
<1>2. /\ gen \in Gens /\ Sound(facts, p, n, due) /\ "released" \notin facts.has
      /\ Ready(c, facts, p, n, due)
  BY <1>1, HandKnows
<1>3. ~conflict
  BY DEF IInv, OnceFacts
<1>4. /\ Sound(facts', p, n, due) /\ ~conflict'
      /\ Tail(c) = <<>> \/ Ready(Tail(c), facts', p, n, due)
  <2>1. CASE EndHand(a)
    <3>1. Head(c) = "end"
      BY <2>1 DEF EndHand, Doing
    <3>2. Tail(c) = DrainPlan /\ p # "live" /\ n = 0 /\ "attempt.ended" \notin facts.has
      BY <1>2, <3>1, HeadTells
    <3>3. facts' = Fold(facts, "attempt.ended") /\ ~conflict'
      BY <1>3, <2>1, <3>2 DEF EndHand, Record
    <3>4. QED  BY <1>2, <3>2, <3>3, FoldKeeps
  <2>2. CASE DrainedHand(a)
    <3>1. Head(c) = "drained"
      BY <2>2 DEF DrainedHand, Doing
    <3>2. Tail(c) = ReleasePlan /\ "attempt.ended" \in facts.has
      BY <1>2, <3>1, HeadTells
    <3>3. CASE "port.drained" \in facts.has
      <4>1. facts' = facts /\ conflict' = conflict
        BY <2>2, <3>3 DEF DrainedHand
      <4>2. QED  BY <1>2, <1>3, <3>2, <3>3, <4>1 DEF Ready
    <3>4. CASE "port.drained" \notin facts.has
      <4>1. facts' = Fold(facts, "port.drained") /\ ~conflict'
        BY <1>3, <2>2, <3>4 DEF DrainedHand, Record
      <4>2. QED  BY <1>2, <3>2, <4>1, FoldKeeps
    <3>5. QED  BY <3>3, <3>4
  <2>3. CASE ReleaseHand(a)
    <3>1. Head(c) = "release"
      BY <2>3 DEF ReleaseHand, Doing
    <3>2. Tail(c) = <<>> /\ {"attempt.ended", "port.drained"} \subseteq facts.has
      BY <1>2, <3>1, HeadTells
    <3>3. facts' = Fold(facts, "released") /\ ~conflict'
      BY <1>2, <1>3, <2>3 DEF ReleaseHand, Record
    <3>4. QED  BY <1>2, <3>2, <3>3, FoldKeeps
  <2>4. QED  BY <2>1, <2>2, <2>3
<1>5. /\ process' \in [Gens -> {"none", "live", "gone"}] /\ out' \in [Gens -> 0 .. MaxOut]
      /\ crashes' \in 0 .. MaxCrashes /\ closed' \in BOOLEAN /\ waited' \in BOOLEAN
      /\ letgo' \in BOOLEAN /\ ~refused' /\ process'[gen] = p /\ out'[gen] = n
      /\ \A g \in Gens : g # gen => process'[g] = process[g] /\ out'[g] = out[g]
      /\ todo[a] # <<>>
  BY <1>1 DEF IInv, TypeOK, TableTotal
<1> HIDE DEF c, p, n
<1>6. QED  BY <1>1, <1>2, <1>4, <1>5, HandKeeps

-----------------------------------------------------------------------------
(* Around the table *)

\* _start, _advance_body: a pass begins.
LEMMA TickKeeps ==
    ASSUME IInv, NEW a \in Actor, Tick(a)
    PROVE  IInv'
<1> DEFINE p == process[gen]
           n == out[gen]
<1>1. /\ todo[a] = <<>> /\ starting = "nobody" /\ gen # 0 /\ "released" \notin facts.has
      /\ UNCHANGED <<letgo, gen, facts, process, out, closed, due, waited, crashes, conflict>>
  BY DEF Tick
<1>2. PICK o \in Observations(a = "cli") : Observe(a, o)
  BY DEF Tick
<1>3. gen \in Gens /\ Sound(facts, p, n, due)
  BY <1>1, BoundsOK DEF IInv, TypeOK, LatestGen, Gens
<1>4. Alive <=> p = "live"
  BY <1>1 DEF Alive
<1>5. o.alive = Alive
  BY <1>2 DEF Observations
<1>6. o.alive \in BOOLEAN /\ (o.alive <=> p = "live")
  BY <1>4, <1>5 DEF Alive
<1>7. Decide(facts, o) = <<>> \/ Ready(Decide(facts, o), facts, p, n, due)
  BY <1>1, <1>3, <1>6, DecideIsReady
<1>8. RowFor(facts, o) # 0
  <2>1. Alive \in BOOLEAN /\ (a = "cli") \in BOOLEAN /\ facts.name \in Names
    BY <1>3 DEF Alive, Sound
  <2>2. QED  BY <1>1, <1>2, <2>1, RowForFinds
<1>9. Pass(a, Decide(facts, o)) /\ ~refused'
  BY <1>2, <1>8 DEF Observe, IInv, TableTotal
<1>10. /\ process' \in [Gens -> {"none", "live", "gone"}] /\ out' \in [Gens -> 0 .. MaxOut]
       /\ crashes' \in 0 .. MaxCrashes /\ closed' \in BOOLEAN /\ waited' \in BOOLEAN
       /\ letgo' \in BOOLEAN /\ ~conflict' /\ process'[gen] = p /\ out'[gen] = n
       /\ \A g \in Gens : g # gen => process'[g] = process[g] /\ out'[g] = out[g]
  BY <1>1 DEF IInv, TypeOK, OnceFacts
<1> HIDE DEF p, n
<1>11. QED  BY <1>1, <1>3, <1>7, <1>9, <1>10, HandKeeps

\* The death of whoever has a pass to finish.
LEMMA CrashKeeps ==
    ASSUME IInv, NEW a \in Actor, Crash(a)
    PROVE  IInv'
<1>1. /\ todo[a] # <<>> /\ crashes < MaxCrashes /\ crashes' = crashes + 1
      /\ Pass(a, <<>>)
      /\ UNCHANGED <<letgo, gen, facts, process, out, closed, due, waited, conflict, refused>>
  BY DEF Crash
<1>2. gen \in Gens /\ Sound(facts, process[gen], out[gen], due)
  BY <1>1, HandKnows
<1>3. /\ process' \in [Gens -> {"none", "live", "gone"}] /\ out' \in [Gens -> 0 .. MaxOut]
      /\ crashes' \in 0 .. MaxCrashes /\ closed' \in BOOLEAN /\ waited' \in BOOLEAN
      /\ letgo' \in BOOLEAN /\ ~conflict' /\ ~refused'
  BY <1>1, BoundsOK DEF IInv, TypeOK, OnceFacts, TableTotal
<1>4. QED  BY <1>1, <1>2, <1>3, HandKeeps

\* When nobody has a command to perform, or the list stays Ready, a step that
\* is not of the loop keeps the invariant.
LEMMA OthersKeep ==
    ASSUME IInv, gen' = gen, facts' = facts,
           process' \in [Gens -> {"none", "live", "gone"}],
           out' \in [Gens -> 0 .. MaxOut], closed' \in BOOLEAN, due' \in BOOLEAN,
           waited' \in BOOLEAN,
           UNCHANGED <<letgo, todo, starting, crashes, conflict, refused>>,
           \A g \in Gens : \/ process'[g] = process[g]
                           \/ process[g] = "live" /\ process'[g] = "gone",
           \A g \in Gens : \/ out'[g] = out[g] \/ out'[g] = 0
                           \/ process[g] = "live",
           due => due'
    PROVE  IInv'
<1>1. TypeOK'
  BY DEF IInv, TypeOK
<1>2. OtherGens'
  BY DEF IInv, OtherGens, TypeOK
<1>3. ASSUME gen # 0
      PROVE  /\ gen \in Gens
             /\ Sound(facts, process[gen], out[gen], due)
             /\ process'[gen] \in {"none", "live", "gone"} /\ out'[gen] \in Nat
             /\ \/ process'[gen] = process[gen]
                \/ process[gen] = "live" /\ process'[gen] = "gone"
             /\ out'[gen] = out[gen] \/ out'[gen] = 0 \/ process[gen] = "live"
  <2>1. gen \in Gens
    BY <1>3 DEF IInv, TypeOK, Gens
  <2>2. out'[gen] \in Nat
    BY <2>1, BoundsOK
  <2>3. QED  BY <1>3, <2>1, <2>2 DEF IInv, LatestGen
<1>4. LatestGen'
  <2>1. CASE gen = 0
    BY <2>1 DEF IInv, LatestGen
  <2>2. CASE gen # 0
    <3>1. Sound(facts, process'[gen], out'[gen], due')
      BY <1>3, <2>2 DEF Sound
    <3>2. QED  BY <2>2, <3>1 DEF LatestGen
  <2>3. QED  BY <2>1, <2>2
<1>5. Passes'
  <2>1. SUFFICES ASSUME NEW a \in Actor, todo[a] # <<>>
                 PROVE  /\ starting = a /\ gen # 0
                        /\ Ready(todo[a], facts, process'[gen], out'[gen], due')
    BY DEF Passes
  <2>2. starting = a /\ gen # 0 /\ Ready(todo[a], facts, process[gen], out[gen], due)
    BY <2>1 DEF IInv, Passes
  <2>3. Ready(todo[a], facts, process'[gen], out'[gen], due')
    BY <1>3, <2>2 DEF Ready, Fresh, Serving
  <2>4. QED  BY <2>2, <2>3
<1>6. QED  BY <1>1, <1>2, <1>4, <1>5 DEF IInv, OnceFacts, TableTotal

\* Router.route: the next lease begins a generation nobody has acted for.
LEMMA GrantKeeps ==
    ASSUME IInv, Grant
    PROVE  IInv'
<1>1. /\ gen = 0 \/ "released" \in facts.has
      /\ gen < MaxGen /\ gen' = gen + 1 /\ facts' = Unborn
      /\ due' = FALSE /\ waited' = FALSE /\ letgo' = FALSE
      /\ UNCHANGED <<process, out, closed, todo, starting, crashes, conflict, refused>>
  BY DEF Grant
<1>2. gen \in 0 .. MaxGen /\ gen + 1 \in Gens /\ gen' \in 0 .. MaxGen
  BY <1>1, BoundsOK DEF IInv, TypeOK, Gens
<1>3. gen # 0 => process[gen] # "live" /\ out[gen] = 0
  BY <1>1 DEF IInv, LatestGen, Sound
<1>4. \A a \in Actor : todo[a] = <<>>
  <2>1. SUFFICES ASSUME NEW a \in Actor, todo[a] # <<>>  PROVE FALSE
    OBVIOUS
  <2>2. QED  BY <1>1, <2>1 DEF IInv, Passes, Ready
<1>5. /\ Unborn.name = "wanted" /\ Unborn.identified = TRUE /\ Unborn.has = {}
  BY DEF Unborn
<1>6. TypeOK'
  BY <1>1, <1>2, <1>5 DEF IInv, TypeOK, Names
<1>7. OtherGens'
  BY <1>1, <1>2, <1>3 DEF IInv, OtherGens, Gens
<1>8. LatestGen'
  <2>1. process[gen + 1] = "none" /\ out[gen + 1] = 0
    BY <1>1, <1>2 DEF IInv, OtherGens
  <2>2. Sound(Unborn, "none", 0, FALSE)
    BY <1>5 DEF Sound, Names
  <2>3. QED  BY <1>1, <1>2, <2>1, <2>2 DEF LatestGen
<1>9. Passes'
  BY <1>1, <1>4 DEF Passes
<1>10. QED  BY <1>1, <1>6, <1>7, <1>8, <1>9 DEF IInv, OnceFacts, TableTotal

\* Nothing has begun yet.
LEMMA InitKeeps == Init => IInv
<1>1. SUFFICES ASSUME Init  PROVE IInv
  OBVIOUS
<1>2. /\ Unborn.name = "wanted" /\ Unborn.identified = TRUE /\ Unborn.has = {}
  BY DEF Unborn
<1>3. TypeOK
  <2>1. <<>> \in Plans
    BY DEF Plans
  <2>2. todo \in [Actor -> Plans]
    BY <1>1, <2>1 DEF Init
  <2>3. /\ process \in [Gens -> {"none", "live", "gone"}] /\ out \in [Gens -> 0 .. MaxOut]
        /\ gen \in 0 .. MaxGen /\ crashes \in 0 .. MaxCrashes
    BY <1>1, BoundsOK DEF Init
  <2>4. QED  BY <1>1, <1>2, <2>2, <2>3 DEF Init, TypeOK, Names
<1>4. OtherGens /\ LatestGen /\ Passes /\ OnceFacts /\ TableTotal
  BY <1>1 DEF Init, OtherGens, LatestGen, Passes, OnceFacts, TableTotal, Gens
<1>5. QED  BY <1>3, <1>4 DEF IInv

\* Every step keeps the invariant: one lemma per hand, above.
LEMMA NextKeeps == IInv /\ [Next]_vars => IInv'
<1>1. SUFFICES ASSUME IInv, [Next]_vars  PROVE IInv'
  OBVIOUS
<1>2. ASSUME NEW a \in Actor, Hand(a)  PROVE IInv'
  BY <1>1, <1>2, RecordHandKeeps, QuietHandsKeep, SpawnHandKeeps, DrainHandKeeps,
     ClosingHandsKeep DEF Hand
<1>3. ASSUME NEW a \in Actor, Tick(a) \/ SignalHand(a) \/ EndHand(a) \/ Crash(a)
      PROVE  IInv'
  BY <1>1, <1>3, TickKeeps, SignalHandKeeps, ClosingHandsKeep, CrashKeeps
<1>4. ASSUME NEW g \in Gens, BodySays(g)  PROVE IInv'
  <2>1. /\ process[g] = "live" /\ out[g] < MaxOut /\ out' = [out EXCEPT ![g] = @ + 1]
        /\ UNCHANGED <<letgo, gen, facts, process, closed, due, waited, todo, starting,
                       crashes, conflict, refused>>
    BY <1>4 DEF BodySays
  <2>2. out' \in [Gens -> 0 .. MaxOut]
    BY <1>1, <2>1, BoundsOK DEF IInv, TypeOK
  <2>3. \A h \in Gens : out'[h] = out[h] \/ process[h] = "live"
    BY <1>1, <2>1 DEF IInv, TypeOK
  <2>4. /\ process' \in [Gens -> {"none", "live", "gone"}] /\ closed' \in BOOLEAN
        /\ due' \in BOOLEAN /\ waited' \in BOOLEAN
    BY <1>1, <2>1 DEF IInv, TypeOK
  <2>5. QED  BY <1>1, <2>1, <2>2, <2>3, <2>4, OthersKeep
<1>5. ASSUME NEW g \in Gens, BodyExits(g)  PROVE IInv'
  <2>1. /\ process[g] = "live" /\ process' = [process EXCEPT ![g] = "gone"]
        /\ UNCHANGED <<letgo, gen, facts, out, closed, due, waited, todo, starting,
                       crashes, conflict, refused>>
    BY <1>5 DEF BodyExits
  <2>2. /\ process' \in [Gens -> {"none", "live", "gone"}]
        /\ \A h \in Gens : \/ process'[h] = process[h]
                           \/ process[h] = "live" /\ process'[h] = "gone"
    BY <1>1, <2>1 DEF IInv, TypeOK
  <2>3. /\ out' \in [Gens -> 0 .. MaxOut] /\ closed' \in BOOLEAN
        /\ due' \in BOOLEAN /\ waited' \in BOOLEAN
    BY <1>1, <2>1 DEF IInv, TypeOK
  <2>4. QED  BY <1>1, <2>1, <2>2, <2>3, OthersKeep
<1>6. CASE Ingest
  <2>1. /\ gen # 0 /\ out' = [out EXCEPT ![gen] = 0]
        /\ UNCHANGED <<letgo, gen, facts, process, closed, due, waited, todo, starting,
                       crashes, conflict, refused>>
    BY <1>6 DEF Ingest
  <2>2. /\ out' \in [Gens -> 0 .. MaxOut]
        /\ \A h \in Gens : out'[h] = out[h] \/ out'[h] = 0
    <3>1. out \in [Gens -> 0 .. MaxOut] /\ 0 \in 0 .. MaxOut
      BY <1>1, BoundsOK DEF IInv, TypeOK
    <3>2. QED  BY <2>1, <3>1
  <2>3. /\ process' \in [Gens -> {"none", "live", "gone"}] /\ closed' \in BOOLEAN
        /\ due' \in BOOLEAN /\ waited' \in BOOLEAN
    BY <1>1, <2>1 DEF IInv, TypeOK
  <2>4. QED  BY <1>1, <2>1, <2>2, <2>3, OthersKeep
<1>7. CASE Flip \/ Deadline \/ Until \/ UNCHANGED vars
  <2>1. /\ UNCHANGED <<letgo, gen, facts, process, out, todo, starting,
                       crashes, conflict, refused>>
        /\ closed' \in BOOLEAN /\ due' \in BOOLEAN /\ waited' \in BOOLEAN
        /\ due => due'
    BY <1>1, <1>7 DEF Flip, Deadline, Until, vars, IInv, TypeOK
  <2>2. /\ process' \in [Gens -> {"none", "live", "gone"}]
        /\ out' \in [Gens -> 0 .. MaxOut]
    BY <1>1, <2>1 DEF IInv, TypeOK
  <2>3. QED  BY <1>1, <2>1, <2>2, OthersKeep
<1>8. CASE Grant
  BY <1>1, <1>8, GrantKeeps
<1>9. QED  BY <1>1, <1>2, <1>3, <1>4, <1>5, <1>6, <1>7, <1>8 DEF Next

-----------------------------------------------------------------------------
(* The promises *)

\* The invariant of the table and its hands.
LEMMA Invariance == Spec => []IInv
<1>1. QED  BY InitKeeps, NextKeeps, PTL DEF Spec

\* Every variable has its type, and whoever is in a pass has one of the listed
\* plans left to do (bodies.TABLE, loom.py's hands).
THEOREM BodyTypeCorrect == Spec => []TypeOK
<1>1. IInv => TypeOK
  BY DEF IInv
<1>2. QED  BY <1>1, Invariance, PTL

\* A thread has at most one live body over all its generations, of the
\* generation its lease names and not released, whoever crashed in between
\* (_hand_spawn, _release, Router.route).
THEOREM ThreadHasOneBody == Spec => []OneLiveBody
<1>1. IInv => OneLiveBody
  <2>1. SUFFICES ASSUME IInv, NEW g \in Gens, process[g] = "live"
                 PROVE  g = gen /\ "released" \notin facts.has
    BY DEF OneLiveBody
  <2>2. g = gen
    BY <2>1 DEF IInv, OtherGens, TypeOK, Gens
  <2>3. Sound(facts, "live", out[gen], due)
    BY <2>1, <2>2 DEF IInv, LatestGen, Gens
  <2>4. QED  BY <2>2, <2>3 DEF Sound
<1>2. QED  BY <1>1, Invariance, PTL

\* A released generation has ended, its port is attested drained and is empty,
\* and stays empty once the thread moves on (CLEANUP, _drain_strand).
THEOREM ReleaseIsClean == Spec => []ReleasedClean
<1>1. IInv => ReleasedClean
  <2>1. SUFFICES ASSUME IInv  PROVE ReleasedClean
    OBVIOUS
  <2>2. \A g \in Gens : g < gen => out[g] = 0
    BY <2>1 DEF IInv, OtherGens
  <2>3. ASSUME "released" \in facts.has
        PROVE  {"attempt.ended", "port.drained"} \subseteq facts.has /\ out[gen] = 0
    <3>1. gen # 0
      BY <2>1, <2>3 DEF IInv, LatestGen, Unborn
    <3>2. Sound(facts, process[gen], out[gen], due)
      BY <2>1, <3>1 DEF IInv, LatestGen
    <3>3. QED  BY <2>3, <3>2 DEF Sound
  <2>4. QED  BY <2>2, <2>3 DEF ReleasedClean
<1>2. QED  BY <1>1, Invariance, PTL

\* No once-only fact of a generation is appended twice, so that no append of a
\* hand meets a LedgerConflict (registry.py, ledger.append).
THEOREM OnceIsOnce == Spec => []OnceFacts
<1>1. IInv => OnceFacts
  BY DEF IInv
<1>2. QED  BY <1>1, Invariance, PTL

\* The table has a row for every state and observation a pass can begin with:
\* row_for never raises.
THEOREM TableRefusesNothing == Spec => []TableTotal
<1>1. IInv => TableTotal
  BY DEF IInv
<1>2. QED  BY <1>1, Invariance, PTL

\* An attempt's end is recorded only with its process gone and everything it
\* wrote ingested (FINISH's order).
THEOREM SaidThenEnded == Spec => SaidBeforeEnded
<1> DEFINE A == gen' = gen /\ "attempt.ended" \in facts'.has \ facts.has
                 => out[gen] = 0 /\ process[gen] # "live"
<1>1. IInv /\ [Next]_vars => [A]_vars
  <2>1. SUFFICES ASSUME IInv, Next, gen' = gen, "attempt.ended" \in facts'.has,
                        "attempt.ended" \notin facts.has
                 PROVE  out[gen] = 0 /\ process[gen] # "live"
    BY DEF vars
  <2>2. facts' # facts
    BY <2>1
  <2>3. ~Grant
    <3>1. gen \in Int
      BY <2>1, BoundsOK DEF IInv, TypeOK
    <3>2. QED  BY <2>1, <3>1 DEF Grant
  <2>4. ~(Ingest \/ Flip \/ Deadline \/ Until)
    BY <2>2 DEF Ingest, Flip, Deadline, Until
  <2>5. \A g \in Gens : ~(BodySays(g) \/ BodyExits(g))
    BY <2>2 DEF BodySays, BodyExits
  <2>6. PICK a \in Actor : Tick(a) \/ Hand(a) \/ SignalHand(a) \/ EndHand(a) \/ Crash(a)
    BY <2>1, <2>3, <2>4, <2>5 DEF Next
  <2>7. ~(Tick(a) \/ SignalHand(a) \/ Crash(a))
    BY <2>2 DEF Tick, SignalHand, Crash
  <2>8. ~(PrepareHand(a) \/ SpawnHand(a) \/ SignalMissed(a) \/ LetGoHand(a))
    BY <2>2 DEF PrepareHand, SpawnHand, SignalMissed, LetGoHand
  <2>9. ~(CollectHand(a) \/ DrainHand(a) \/ EndWaits(a))
    BY <2>2 DEF CollectHand, DrainHand, EndWaits
  <2>10. RecordHand(a) \/ EndHand(a) \/ DrainedHand(a) \/ ReleaseHand(a)
    BY <2>6, <2>7, <2>8, <2>9 DEF Hand
  <2>11. EndHand(a)
    <3>1. \A kind : kind # "attempt.ended" => "attempt.ended" \notin Fold(facts, kind).has
      BY <2>1 DEF Fold
    <3>2. CASE RecordHand(a)
      <4>1. facts' = Fold(facts, KindOf[Head(todo[a])]) /\ Head(todo[a]) \in DOMAIN KindOf
        BY <3>2 DEF RecordHand, Record
      <4>2. KindOf[Head(todo[a])] # "attempt.ended"
        BY <4>1, Kinds
      <4>3. QED  BY <2>1, <3>1, <4>1, <4>2
    <3>3. CASE DrainedHand(a) \/ ReleaseHand(a)
      BY <2>1, <3>1, <3>3 DEF DrainedHand, ReleaseHand, Record
    <3>4. QED  BY <2>10, <3>2, <3>3
  <2>12. todo[a] # <<>> /\ Head(todo[a]) = "end"
    BY <2>11 DEF EndHand, Doing
  <2>13. QED  BY <2>1, <2>12, HandKnows, HeadTells
<1>2. QED  BY <1>1, Invariance, PTL DEF Spec, SaidBeforeEnded

\* A process is started only where none was started for its generation and
\* with `shown` on record, so that no restart of the loop starts it again
\* (_hand_show before _hand_spawn).
THEOREM StartedIsOnce == Spec => StartedOnce
<1> DEFINE A == \A g \in Gens : process'[g] = "live" /\ process[g] # "live"
                   => process[g] = "none" /\ "shown" \in facts.has
<1>1. IInv /\ [Next]_vars => [A]_vars
  <2>1. SUFFICES ASSUME IInv, Next, NEW g \in Gens, process'[g] = "live", process[g] # "live"
                 PROVE  process[g] = "none" /\ "shown" \in facts.has
    BY DEF vars
  <2>2. process \in [Gens -> {"none", "live", "gone"}]
    BY <2>1 DEF IInv, TypeOK
  <2>3. PICK a \in Actor : SpawnHand(a)
    BY <2>1, <2>2 DEF Next, Hand, Tick, RecordHand, PrepareHand, SignalHand, SignalMissed,
                LetGoHand, CollectHand, DrainHand, EndWaits, EndHand, DrainedHand, ReleaseHand,
                Crash, BodySays, BodyExits, Grant, Ingest, Flip, Deadline, Until
  <2>4. todo[a] # <<>> /\ Head(todo[a]) = "spawn"
    BY <2>3 DEF SpawnHand, Doing
  <2>5. Announced(facts) /\ process[gen] = "none"
    BY <2>1, <2>4, HandKnows, HeadTells
  <2>6. g = gen
    BY <2>1, <2>2, <2>3 DEF SpawnHand
  <2>7. QED  BY <2>5, <2>6 DEF Announced
<1>2. QED  BY <1>1, Invariance, PTL DEF Spec, StartedOnce

\* While an actor is about to signal, the body's process changes only past its
\* grace and with its stop on record (the row `stopped`, `signal`).
THEOREM SignalIsOnRecord == Spec => StopOnRecord
<1> DEFINE A == \A a \in Actor : Doing(a, "signal") /\ process' # process
                   => due /\ "body.stopped" \in facts.has
<1>1. IInv => A
  <2>1. SUFFICES ASSUME IInv, NEW a \in Actor, Doing(a, "signal")
                 PROVE  due /\ "body.stopped" \in facts.has
    OBVIOUS
  <2>2. /\ Sound(facts, process[gen], out[gen], due)
        /\ Ready(todo[a], facts, process[gen], out[gen], due)
    BY <2>1, HandKnows DEF Doing
  <2>3. "body.stopped" \in facts.has
    BY <2>1, <2>2, HeadTells DEF Doing
  <2>4. QED  BY <2>2, <2>3 DEF Sound
<1>2. QED  BY <1>1, Invariance, PTL DEF Spec, StopOnRecord
=============================================================================
