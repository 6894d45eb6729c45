------------------------------- MODULE Looms -------------------------------
(***************************************************************************)
(* Several installs and the threads they grant to bodies: Router.route and *)
(* _release_abandoned (router.py), _release (loom.py), the ids of leases   *)
(* and releases (registry.py), over the fold of Reducer and the union of   *)
(* Facts.                                                                  *)
(*                                                                         *)
(* One thread and one letter to it.  Installs take the router lease in     *)
(* turn, as GitLease allows, share ledgers through the remote, and stamp   *)
(* their facts by their own clocks.  A person may pin the thread.          *)
(*                                                                         *)
(* A tick reads the ledger once, first, and then fetches those of others:  *)
(* it grants by what it read, although what it fetched made it a router.   *)
(***************************************************************************)
EXTENDS Facts, Reducer

CONSTANTS
    Installs,    \* how many; an install is a number, as its id orders stamps
    Worlds       \* what may go wrong, and how far it is followed:
                 \*   grace   a router may go on behind a newer one (lease_mode)
                 \*   late    a router may lose the lease before its last leases are pushed
                 \*   again   a router may take the lease over from itself, not caught up
                 \*   missed  an install may take over before it read what others pushed
                 \*   skew    how far the first clock is ahead of the last, in writes
                 \*   maxGen, maxGrants, maxNotes, maxPins   bounds: router leases,
                 \*           leases of the thread, notes of bodies, pins and unpins

ASSUME LoomsConstants ==
    /\ Installs \in Nat \ {0} /\ Thread # {} /\ Letter # {}
    /\ \A w \in Worlds :
        /\ w.grace \in BOOLEAN /\ w.late \in BOOLEAN /\ w.again \in BOOLEAN
        /\ w.missed \in BOOLEAN /\ w.skew \in Nat /\ w.maxGen \in Nat
        /\ w.maxGrants \in Nat /\ w.maxNotes \in Nat /\ w.maxPins \in Nat
        /\ (1 .. Installs) \X (1 .. w.maxGrants) \subseteq Strand

Install == 1 .. Installs

VARIABLES
    world,       \* one of Worlds
    offset,      \* how far each clock is ahead
    leader,      \* who took the newest router lease, and at which gen
    carried,     \* the ledger that lease carries
    lead,        \* Router.lease.gen, 0 for none
    prior,       \* the ledger the lease before carried
    own,         \* facts each install wrote
    known,       \* facts each install has of its peers
    seen,        \* facts each install's tick goes by (LedgerView)
    pushed,      \* refs/ledger/<install> on the remote
    alive        \* the strands with a process

vars == <<world, offset, leader, carried, lead, prior, own, known, seen, pushed, alive>>

-----------------------------------------------------------------------------

Only(S) == CHOOSE x \in S : TRUE

thread == Only(Thread)
letter == Only(Letter)

View(i) == own[i] \cup known[i]
Everything == UNION {own[i] : i \in Install}

Fold(facts) == Replay(Start, Union(facts))

\* next_hlc: the clock, which moves on with every write.
Stamp(i) == <<Cardinality(Everything) + 1 + offset[i], 0, i>>

\* append: nothing is written under an id the install has used.
Write(i, row) ==
    /\ row.id \notin Ids(own[i])
    /\ own' = [own EXCEPT ![i] = @ \cup {row}]

\* facts.append: the tick that writes a row goes by it as well.
Goes(i, facts) == seen' = [seen EXCEPT ![i] = facts]

RouterRow(i, gen) ==
    [kind |-> "router", id |-> <<"router", gen>>, hlc |-> Stamp(i), after |-> {}, gen |-> gen]

LeaseRow(i, s, gen, rgen, pin) ==
    [kind |-> "lease", id |-> <<"lease", gen>>, hlc |-> Stamp(i), after |-> {},
     thread |-> thread, strand |-> s, gen |-> gen, rgen |-> rgen, pin |-> pin]

Pins(facts) == {f \in facts : f.kind = "pin"}

\* One id for the thread and the gen, whoever held it (_release, route).
ReleasedRow(i, s, gen) ==
    [kind |-> "released", id |-> <<"released", gen>>, hlc |-> Stamp(i), after |-> {},
     thread |-> thread, strand |-> s, gen |-> gen]

\* The letter is a person's, written before anything else (inject_letter).
LetterRow(i) ==
    [kind |-> "letter", id |-> <<"letter">>, hlc |-> <<1 + offset[i], 0, i>>, after |-> {},
     letter |-> letter, thread |-> thread]

NoteRow(i, s, gen) ==
    [kind |-> "note", id |-> <<"note", s>>, hlc |-> Stamp(i), after |-> {},
     strand |-> s, gen |-> gen, re |-> letter]

\* A person's machines.pin, for one install, or for none (0).
PinRow(i, to) ==
    [kind |-> "pin", id |-> <<"pin", Cardinality(Pins(Everything))>>, hlc |-> Stamp(i),
     after |-> {}, to |-> to]

Leases(facts) == {f \in facts : f.kind = "lease"}
Releases(facts) == {f \in facts : f.kind = "released"}

Init ==
    /\ world \in Worlds
    /\ offset \in [Install -> {0, world.skew}]
    /\ \E i, j \in Install : offset[i] = 0 /\ offset[j] = world.skew
    /\ leader = <<>> /\ carried = {}
    /\ lead = [i \in Install |-> 0]
    /\ prior = [i \in Install |-> {}]
    /\ own = [i \in Install |-> IF i = 1 THEN {LetterRow(i)} ELSE {}]
    /\ known = [i \in Install |-> {}]
    /\ seen = own
    /\ pushed = [i \in Install |-> {}]
    /\ alive = {}

-----------------------------------------------------------------------------
(* The router lease and the ledgers *)

LastGen == IF leader = <<>> THEN 0 ELSE leader[2]

\* Unless the world allows it: the router before is out of authority; the
\* leases it wrote rode a push; a router that takes over from itself was
\* caught up; one that takes over from another has, by then, the leases that
\* the others pushed, and that router's own older than one it has.
MayTake(i) ==
    /\ world.grace \/ \A j \in Install : lead[j] = 0
    /\ leader # <<>> =>
        LET last == leader[1] IN
        /\ world.late \/ Leases(own[last]) \subseteq carried
        /\ world.again \/ last # i \/ prior[i] \subseteq View(i)
        /\ world.missed \/ last = i \/
              \A j \in Install : \A f \in Leases(pushed[j]) :
                  j # last \/ (\E g \in Leases(View(i)) : Before(f, g)) => f \in View(i)

\* refresh: what is on disk, at the start of a tick, by the board's thread, or
\* as a body starts.
Read(i) ==
    /\ seen[i] # View(i)
    /\ Goes(i, View(i))
    /\ UNCHANGED <<world, offset, leader, carried, lead, prior, own, known, pushed, alive>>

\* acquire: a new router waits for the ledger that the lease before carried,
\* which is its own if it held that lease itself.
Take(i) ==
    /\ lead[i] = 0 /\ LastGen < world.maxGen /\ MayTake(i)
    /\ leader' = <<i, LastGen + 1>>
    /\ lead' = [lead EXCEPT ![i] = LastGen + 1]
    /\ prior' = [prior EXCEPT ![i] = carried]
    /\ pushed' = [pushed EXCEPT ![i] = own[i]]
    /\ carried' = own[i]
    /\ Write(i, RouterRow(i, LastGen + 1))
    /\ Goes(i, View(i) \cup {RouterRow(i, LastGen + 1)})
    /\ UNCHANGED <<world, offset, known, alive>>

\* Authority ends, by time, by _fence or _handover, or as the process starts
\* again; what it wrote is on disk.
StepDown(i) ==
    /\ lead' = [lead EXCEPT ![i] = 0]
    /\ UNCHANGED <<world, offset, leader, carried, prior, own, known, seen, pushed, alive>>

\* A router's ledger rides its renewals, which need the lease; a follower
\* pushes its own.
PushLedger(i) ==
    /\ pushed[i] # own[i]
    /\ lead[i] = 0 \/ leader = <<i, lead[i]>>
    /\ pushed' = [pushed EXCEPT ![i] = own[i]]
    /\ carried' = IF lead[i] # 0 THEN own[i] ELSE carried
    /\ Goes(i, View(i))
    /\ UNCHANGED <<world, offset, leader, lead, prior, own, known, alive>>

\* begin_tick: the ledgers of some peers, of which the tick knows nothing, since
\* it read what was on disk before it fetched them.
Sync(i, peers) ==
    LET ledgers == UNION {pushed[j] : j \in peers} IN
    /\ ~(ledgers \subseteq known[i])
    /\ known' = [known EXCEPT ![i] = @ \cup ledgers]
    /\ Goes(i, View(i))
    /\ UNCHANGED <<world, offset, leader, carried, lead, prior, own, pushed, alive>>

-----------------------------------------------------------------------------
(* The thread *)

\* Mutant: a router counts as caught up whatever it has.
LeadsAtOnce(i) == lead[i] # 0

\* armed: in authority and caught up, which says that the ledger of the router
\* before is on disk, and not that the tick goes by it.
Armed(i) == lead[i] # 0 /\ prior[i] \subseteq View(i)

\* _next_gen: over leases and releases, accepted or not.
NextGen(i) ==
    LET gens == {f.gen : f \in Leases(seen[i]) \cup Releases(seen[i])}
    IN IF gens = {} THEN 1 ELSE 1 + CHOOSE g \in gens : \A h \in gens : h <= g

Latest(facts) == CHOOSE f \in facts : \A g \in facts \ {f} : Before(g, f)

\* pinned_to: the newest pin's install, 0 when it is an unpin or there is none.
PinnedTo(facts) == IF Pins(facts) = {} THEN 0 ELSE Latest(Pins(facts)).to

\* _newest_router, which an install that does not lead stamps its leases with.
NewestRouter(i) ==
    LET routers == {f \in seen[i] : f.kind = "router"}
    IN IF routers = {} THEN 0 ELSE Latest(routers).gen

\* The router grants what is pinned to nobody, and every install what is
\* pinned to itself, whoever leads.
MayGrant(i) ==
    \/ PinnedTo(seen[i]) = i
    \/ PinnedTo(seen[i]) = 0 /\ Armed(i)

Granted(i) ==
    LET row == LeaseRow(i, <<i, 1 + Cardinality(Leases(own[i]))>>, NextGen(i),
                        IF Armed(i) THEN lead[i] ELSE NewestRouter(i), PinnedTo(seen[i]) = i)
    IN /\ Cardinality(Leases(Everything)) < world.maxGrants
       /\ Write(i, row) /\ Goes(i, seen[i] \cup {row})
       /\ UNCHANGED <<world, offset, leader, carried, lead, prior, known, pushed, alive>>

\* Mutant: a thread is granted over its holder.
GrantOver(i) == MayGrant(i) /\ Granted(i)

\* route: a thread that nobody holds and that is owed a letter, as far as the
\* tick has read.
Grant(i) ==
    /\ MayGrant(i)
    /\ LET state == Fold(seen[i]) IN
       /\ state.holder[thread] = Nobody
       /\ state.dest[letter] # {} /\ letter \notin state.handled
    /\ Granted(i)

\* _start, as the lease is granted or in a later tick, after a crash or a park:
\* only if the ledger, read again, says that the strand holds the thread.
StartBody(i) ==
    /\ LET holder == Fold(View(i)).holder[thread] IN
       \E f \in Leases(own[i]) :
        /\ f.strand \notin alive /\ holder = <<f.strand, f.gen>>
        /\ alive' = alive \cup {f.strand}
    /\ Goes(i, View(i))
    /\ UNCHANGED <<world, offset, leader, carried, lead, prior, own, known, pushed>>

\* machines pin, unpin: a person, on any machine.
Pin(i) ==
    /\ Cardinality(Pins(Everything)) < world.maxPins
    /\ \E to \in Install \cup {0} : Write(i, PinRow(i, to))
    /\ UNCHANGED <<world, offset, leader, carried, lead, prior, known, seen, pushed, alive>>

\* The body notes the letter; its own loom ingests that, at the gen it had.
IngestNote(i, f) ==
    /\ f.strand \in alive
    /\ Cardinality({n \in Everything : n.kind = "note"}) < world.maxNotes
    /\ Write(i, NoteRow(i, f.strand, f.gen))
    /\ Goes(i, seen[i] \cup {NoteRow(i, f.strand, f.gen)})
    /\ UNCHANGED <<world, offset, leader, carried, lead, prior, known, pushed, alive>>

Exit(s) ==
    /\ alive' = alive \ {s}
    /\ UNCHANGED <<world, offset, leader, carried, lead, prior, own, known, seen, pushed>>

\* _advance_bodies, _start, _release: only a holder of this install, once its
\* body is gone, by the ledger read again.
Release(i) ==
    /\ LET holder == Fold(View(i)).holder[thread] IN
       \E f \in Leases(own[i]) :
        /\ f.strand \notin alive
        /\ Write(i, ReleasedRow(i, f.strand, f.gen))
        /\ holder = <<f.strand, f.gen>>
        /\ Goes(i, View(i) \cup {ReleasedRow(i, f.strand, f.gen)})
    /\ UNCHANGED <<world, offset, leader, carried, lead, prior, known, pushed, alive>>

\* _release_abandoned: the holder's install has written nothing for a while,
\* as far as the tick has read.
Abandon(i) ==
    /\ Armed(i) /\ PinnedTo(seen[i]) \in {0, i}
    /\ \E f \in Leases(seen[i] \ own[i]) :
        /\ Write(i, ReleasedRow(i, f.strand, f.gen))
        /\ Fold(seen[i]).holder[thread] = <<f.strand, f.gen>>
        /\ Goes(i, seen[i] \cup {ReleasedRow(i, f.strand, f.gen)})
    /\ UNCHANGED <<world, offset, leader, carried, lead, prior, known, pushed, alive>>

Next ==
    \/ \E i \in Install :
        \/ Read(i) \/ Take(i) \/ StepDown(i) \/ PushLedger(i)
        \/ \E peers \in SUBSET (Install \ {i}) : Sync(i, peers)
        \/ Grant(i) \/ StartBody(i) \/ Release(i) \/ Abandon(i) \/ Pin(i)
        \/ \E f \in Leases(own[i]) : IngestNote(i, f)
    \/ \E s \in alive : Exit(s)

Spec == Init /\ [][Next]_vars

-----------------------------------------------------------------------------
(* Properties *)

\* What a process that reads all the ledgers accepts.
Accepted == Fold(Everything).accepted

\* One router at a time.
Alone == ~world.grace /\ world.maxPins = 0

\* A router that takes over has every lease of the thread, or waits for the rest.
Told == ~world.late /\ ~world.again /\ ~world.missed

\* Nothing goes wrong but bodies ending, installs silent and leases lost in
\* time, and nobody pins.
Calm == Alone /\ Told /\ world.skew = 0

\* However late, whoever is pinned and with routers in their grace, or with clocks
\* apart behind one router at a time (of three installs or more, one that is told):
\* along the union a thread is held at higher and higher gens, so a gen that was
\* superseded never holds it again.
GensClimb ==
    LET accepted == Accepted
    IN world.skew = 0 \/ (Alone /\ (Told \/ Installs <= 2)) =>
        \A n \in DOMAIN accepted : \A m \in 1 .. n - 1 :
            accepted[n].kind = "lease" /\ accepted[m].kind = "lease"
                => accepted[m].gen < accepted[n].gen

\* When nothing goes wrong (test_router.py, _one_holder) "No thread has two
\* accepted leases open at any lease in the union", although a router may write
\* a lease in the tick it takes over for a thread that the ledger it fetched
\* says is held: such a lease never counts, the one whose gen it has does, and a
\* body runs only for a lease that does.
OneAtATime ==
    LET accepted == Accepted
        counting == {f \in ToSet(accepted) : f.kind = "lease"}
    IN Calm => /\ \A f \in Leases(Everything) : \E g \in counting : g.gen = f.gen
               /\ \A s \in alive : \E g \in counting : g.strand = s
               /\ \A n \in 2 .. Len(accepted) :
                      accepted[n].kind = "lease" => accepted[n - 1].kind = "released"

\* When nothing goes wrong, a strand whose release is on an install's disk does
\* not hold the thread there: neither a late loop nor a router that took the
\* thread from it undoes the other's release (released, once per gen).
ReleaseCounts ==
    Calm => \A i \in Install : LET holder == Fold(View(i)).holder[thread] IN
                \A f \in Releases(View(i)) : holder # <<f.strand, f.gen>>

\* When nothing goes wrong, the letter that the holder noted is settled for
\* everyone who has both (Reducer.apply, consider).
NoteCounts ==
    Calm => \A i \in Install : LET state == Fold(View(i)) IN
        \A f \in View(i) :
            /\ f.kind = "note" /\ <<"letter">> \in Ids(View(i))
            /\ state.holder[thread] = <<f.strand, f.gen>>
            => letter \in state.handled
=============================================================================
