---------------------------- MODULE LoomsProofs ----------------------------
(***************************************************************************)
(* What the installs of Looms come to, for any number of them, of threads' *)
(* bodies and of writes: the gens along the union, and, in calm, that the  *)
(* thread is held in turn, that releases are final and that notes count.   *)
(*                                                                         *)
(* The invariant orders facts by when they were written, which no process  *)
(* sees.  In any world it says what an install may have written, and that  *)
(* the copies of a ledger, on a disk and in what a tick goes by, are heads *)
(* of it.                                                                  *)
(*                                                                         *)
(* Where routers are told, who took the newest router lease goes by every  *)
(* lease of the thread, or waits for the one ledger that has the rest.  It *)
(* may grant before it reads that ledger, so a gen may be given out twice; *)
(* but then the ledger has a lease of that gen which was written before    *)
(* (Rising), the union keeps the first of them, and those rise (KeptRise). *)
(*                                                                         *)
(* In calm only a first lease is released, noted for and started for       *)
(* (Firm): an install knows all that came before its own leases (Knows),   *)
(* and a router those before the leases of others that it goes by (Older). *)
(* So a gen is given out after a release of each before it (InTurn), what  *)
(* any install has is a set of facts (Smooth) whose fold tells what is in  *)
(* it (Tells), and the fold of everything tells of one lease at a time     *)
(* (TellsTurns).                                                           *)
(***************************************************************************)
EXTENDS Looms, LedgerViewProofs

-----------------------------------------------------------------------------
(* Facts, and when they were written *)

\* When a fact was written: the count of writes, without the clock's lead.
Time(f) == f.hlc[1] - offset[f.hlc[3]]

Earlier(f, g) == Time(f) < Time(g)

Routers(facts) == {f \in facts : f.kind = "router"}
Notes(facts) == {f \in facts : f.kind = "note"}

\* What install i writes: nothing but these, each with the id of its kind.
Shape(f, i) ==
    /\ f.kind \in {"router", "lease", "released", "letter", "note", "pin"}
    /\ f.hlc = <<f.hlc[1], 0, i>> /\ f.hlc[1] \in Nat /\ f.after = {}
    /\ f.kind = "router" => f.id = <<"router", f.gen>> /\ f.gen \in Gen
    /\ f.kind = "lease" => /\ f.id = <<"lease", f.gen>> /\ f.thread = thread
                           /\ f.strand \in Strand /\ f.strand[1] = i
                           /\ f.gen \in Gen
    /\ f.kind = "released" => /\ f.id = <<"released", f.gen>> /\ f.thread = thread
                              /\ f.strand \in Strand /\ f.gen \in Gen
    /\ f.kind = "letter" => /\ f.id = <<"letter">> /\ f.letter = letter
                            /\ f.thread = thread /\ Time(f) = 1
    /\ f.kind = "note" => /\ f.id = <<"note", f.strand>> /\ f.re = letter
                          /\ f.strand \in Strand /\ f.gen \in Gen
    /\ f.kind = "pin" => f.id[1] = "pin"

\* Types, shapes, stamps and ids, in any world.
Typed ==
    /\ world \in Worlds
    /\ offset \in [Install -> Nat] /\ (world.skew = 0 => \A i \in Install : offset[i] = 0)
    /\ leader \in {<<>>} \cup (Install \X Gen)
    /\ lead \in [Install -> Nat]
    /\ DOMAIN own = Install /\ DOMAIN known = Install
    /\ DOMAIN pushed = Install /\ DOMAIN prior = Install /\ DOMAIN seen = Install

Written ==
    /\ IsFiniteSet(Everything)
    /\ \A i \in Install : \A f \in own[i] :
          Shape(f, i) /\ Time(f) \in 1 .. Cardinality(Everything)
    /\ \A f, g \in Everything : Time(f) = Time(g) => f = g
    /\ \A i \in Install : \A f, g \in own[i] : f.id = g.id => f = g

Copied ==
    /\ carried \subseteq Everything
    /\ \A i \in Install : /\ known[i] \subseteq Everything
                          /\ prior[i] \subseteq Everything
                          /\ pushed[i] \subseteq own[i]

\* Copies of a ledger are heads of it.
Heads ==
    /\ \A i, j \in Install : \A f \in known[i] \cap own[j] :
          i # j /\ \A g \in own[j] : Earlier(g, f) => g \in known[i]
    /\ \A j \in Install : \A f \in pushed[j] : \A g \in own[j] :
          Earlier(g, f) => g \in pushed[j]

\* What a tick goes by is on disk: all that its install wrote, but for pins, and
\* heads of the ledgers of the others.
Sighted ==
    \A i \in Install :
        /\ seen[i] \subseteq View(i) /\ own[i] \subseteq seen[i] \cup Pins(own[i])
        /\ \A j \in Install \ {i} : \A f \in seen[i] \cap own[j] : \A g \in own[j] :
              Earlier(g, f) => g \in seen[i]

\* A release and a note are of a lease that their writer has.
Grounded ==
    /\ \A i \in Install : \A r \in Releases(own[i]) : \E f \in Leases(View(i)) :
          f.gen = r.gen /\ f.strand = r.strand /\ Earlier(f, r)
    /\ \A i \in Install : \A n \in Notes(own[i]) : \E f \in Leases(own[i]) :
          f.gen = n.gen /\ f.strand = n.strand /\ Earlier(f, n)

\* The gens of the thread: each was given out after the one before it, once by
\* an install, to a strand of its own.
Counted ==
    /\ \A f \in Leases(Everything) : \A n \in 1 .. f.gen - 1 :
          \E g \in Leases(Everything) : g.gen = n /\ Earlier(g, f)
    /\ \A i \in Install : \A f, g \in Leases(own[i]) : Earlier(f, g) => f.gen < g.gen
    /\ \A i \in Install : \A f, g \in Leases(own[i]) :
          /\ f.strand[2] \in 1 .. Cardinality(Leases(own[i]))
          /\ f.strand = g.strand => f = g

Base == Typed /\ Written /\ Copied /\ Heads /\ Sighted /\ Grounded /\ Counted

-----------------------------------------------------------------------------
(* One router at a time *)

\* The gen of a router is its own, and every lease names the gen of its router.
Routed ==
    /\ Pins(Everything) = {}
    /\ \A i \in Install : lead[i] # 0 =>
          leader = <<i, lead[i]>> /\ \E r \in Routers(own[i]) : r.gen = lead[i]
    /\ \A r \in Routers(Everything) : r.gen <= LastGen
    /\ \A r, q \in Routers(Everything) : Earlier(r, q) => r.gen < q.gen
    /\ \A i \in Install : \A f \in Leases(own[i]) :
          /\ ~f.pin
          /\ \E r \in Routers(own[i]) : r.gen = f.rgen /\ Earlier(r, f)
          /\ \A r \in Routers(Everything) : Earlier(r, f) => r.gen <= f.rgen

-----------------------------------------------------------------------------
(* Routers that are told, and calm *)

\* The ledger that a router waits for is of one install.
Single(facts) == \E j \in Install : facts \subseteq own[j]

\* Whoever took the newest router lease goes by every lease of the thread, or
\* waits for the ledger that has the rest; the others' are on the remote.
Informed ==
    /\ leader = <<>> => Leases(Everything) = {} /\ carried = {}
    /\ \A i \in Install, n \in Gen : leader = <<i, n>> =>
          /\ carried \subseteq own[i] \cap pushed[i]
          /\ Leases(Everything) \subseteq seen[i] \cup prior[i]
          /\ Single(prior[i])
          /\ \A j \in Install \ {i} : Leases(own[j]) \subseteq pushed[j]

\* Nobody grants before all the leases so far are on its disk.
Knows ==
    \A i \in Install : \A f \in Leases(own[i]) : \A g \in Leases(Everything) :
        Earlier(g, f) => g \in View(i)

\* A gen is above those before it, or one that an install among them gave out,
\* which had given out this one too.
Rising ==
    \A f, g \in Leases(Everything) : Earlier(f, g) /\ g.gen <= f.gen =>
        \E j \in Install : f \in own[j] /\ \E h \in Leases(own[j]) : h.gen = g.gen

\* The lease that holds the thread at its gen.
First(f) == f \in Leases(Everything) /\ \A g \in Leases(Everything) :
                                          g.gen = f.gen => ~Earlier(g, f)

\* The newest router has no lease of another without those before it.
Older ==
    \A i \in Install, n \in Gen : leader = <<i, n>> =>
        \A g \in Leases(Everything) :
            /\ \A f \in Leases(View(i)) : Earlier(g, f) => g \in View(i)
            /\ \A f \in Leases(seen[i]) \ own[i] : Earlier(g, f) => g \in seen[i]

\* Only a lease that holds the thread is released, noted for and started for.
Firm ==
    /\ \A r \in Releases(Everything) \cup Notes(Everything) : \E f :
          First(f) /\ f.gen = r.gen /\ f.strand = r.strand /\ Earlier(f, r)
    /\ \A s \in alive : \E f : First(f) /\ f.strand = s

\* A gen is given out only after a release of each below it.
InTurn ==
    \A f, g \in Leases(Everything) : f.gen < g.gen =>
        \E r \in Releases(Everything) : r.gen = f.gen /\ Earlier(r, g)

IInv ==
    /\ Base
    /\ Alone => Routed
    /\ Alone /\ Told => Informed /\ Knows /\ Rising
    /\ Calm => Older /\ Firm /\ InTurn

-----------------------------------------------------------------------------
(* The one thread, its letter, and the fold of facts without an order of     *)
(* their own                                                                 *)

LEMMA OneThreadOneLetter == thread \in Thread /\ letter \in Letter
  BY LoomsConstants DEF thread, letter, Only

\* Facts that wait for none are read by their stamps, one of each id.
LEMMA SortedUnion ==
    ASSUME NEW facts, Readable(facts), \A f \in facts : f.after = {}
    PROVE  /\ Union(facts) \in Seq(facts) /\ ToSet(Union(facts)) = Kept(facts)
           /\ \A n, m \in 1 .. Len(Union(facts)) :
                 n < m => Before(Union(facts)[n], Union(facts)[m])
<1> DEFINE s == Union(facts)
<1>1. s \in Seq(facts) /\ ToSet(s) = Kept(facts) /\ Ordered(s)
  BY UnionIs
<1> HIDE DEF s
<1>2. ASSUME NEW n \in 1 .. Len(s), NEW m \in 1 .. Len(s), n < m PROVE Before(s[n], s[m])
  <2>1. s[m] \in facts
    BY <1>1
  <2> QED
    BY <1>1, <1>2, <2>1 DEF Ordered
<1> QED
  BY <1>1, <1>2 DEF s

\* What holds of the start, and is kept by each fact in the order of the stamps,
\* holds of the fold: pairs of a state and the facts it is of.
LEMMA FoldBy ==
    ASSUME NEW facts, Readable(facts), \A f \in facts : f.after = {},
           NEW Q, <<Start, {}>> \in Q,
           \A p \in Q : \A f \in Kept(facts) \ p[2] :
              /\ p[2] \subseteq Kept(facts)
              /\ \A g \in p[2] : Before(g, f)
              /\ \A g \in Kept(facts) : Before(g, f) => g \in p[2]
              => <<Apply(p[1], f), p[2] \cup {f}>> \in Q
    PROVE  <<Fold(facts), Kept(facts)>> \in Q
<1> DEFINE s == Union(facts)
           N == Len(s)
           K == Kept(facts)
           done(n) == {s[m] : m \in 1 .. n}
<1>1. /\ s \in Seq(facts) /\ ToSet(s) = K
      /\ \A n, m \in 1 .. N : n < m => Before(s[n], s[m])
  BY SortedUnion
<1>2. N \in Nat
  BY <1>1
<1> HIDE DEF s, K
<1>3. PICK a : /\ a = [n \in 0 .. N |-> IF n = 0 THEN Start ELSE Apply(a[n - 1], s[n])]
               /\ Replay(Start, s) = a[N]
  <2> HIDE DEF N
  <2> QED
    BY <1>2, ReplayIs DEF N
<1> HIDE DEF N
<1>4. K = done(N)
  <2>1. ToSet(s) = {s[m] : m \in DOMAIN s}
    BY DEF ToSet, Range
  <2>2. DOMAIN s = 1 .. N
    BY <1>1 DEF N
  <2> QED
    BY <1>1, <2>1, <2>2
<1>5. ~ \E f \in facts : Before(f, f)
  BY Stamps
<1>6. \A n \in 1 .. N : s[n] \in facts /\ s[n] \in K
  BY <1>1, <1>4 DEF N
<1>7. \A n, m \in 1 .. N : Before(s[n], s[m]) => n < m
  <2> SUFFICES ASSUME NEW n \in 1 .. N, NEW m \in 1 .. N, Before(s[n], s[m]), m <= n
               PROVE  FALSE
    BY <1>2
  <2>1. m # n
    BY <1>5, <1>6
  <2>2. Before(s[m], s[n])
    BY <1>1, <1>2, <2>1
  <2> QED
    BY <1>5, <1>6, <2>2, Stamps
<1> DEFINE P == {n \in 0 .. N : <<a[n], done(n)>> \in Q}
<1>8. 0 \in P
  <2>1. a[0] = Start /\ 0 \in 0 .. N
    BY <1>2, <1>3
  <2>2. done(0) = {}
    OBVIOUS
  <2> HIDE DEF done
  <2> QED
    BY <2>1, <2>2
<1>9. ASSUME NEW n \in 1 .. N, n - 1 \in P PROVE n \in P
  <2> DEFINE p == <<a[n - 1], done(n - 1)>>
  <2>1. n \in 0 .. N /\ n # 0 /\ n - 1 \in 0 .. N /\ n \in Nat
    BY <1>2
  <2>2. a[n] = Apply(a[n - 1], s[n])
    BY <1>3, <2>1
  <2>3. done(n) = done(n - 1) \cup {s[n]}
    <3>1. 1 .. n = (1 .. n - 1) \cup {n}
      BY <2>1
    <3> QED
      BY <3>1
  <2>4. p \in Q /\ p[1] = a[n - 1] /\ p[2] = done(n - 1)
    BY <1>9
  <2>5. \A g \in done(n - 1) : Before(g, s[n]) /\ g \in K
    <3>1. \A m \in 1 .. n - 1 : m \in 1 .. N /\ m < n
      BY <1>2, <2>1
    <3> QED
      BY <1>1, <1>6, <3>1
  <2>6. \A g \in K : Before(g, s[n]) => g \in done(n - 1)
    <3> SUFFICES ASSUME NEW m \in 1 .. N, Before(s[m], s[n]) PROVE s[m] \in done(n - 1)
      BY <1>4
    <3>1. m \in 1 .. n - 1
      BY <1>2, <1>7
    <3> QED
      BY <3>1
  <2>7. s[n] \in K /\ s[n] \notin done(n - 1)
    BY <1>5, <1>6, <2>5
  <2> HIDE DEF done
  <2>8. <<Apply(p[1], s[n]), p[2] \cup {s[n]}>> \in Q
    <3> HIDE DEF p
    <3> QED
      BY <2>4, <2>5, <2>6, <2>7 DEF K
  <2> QED
    BY <2>1, <2>2, <2>3, <2>4, <2>8
<1>10. N \in P
  <2> HIDE DEF P
  <2>1. \A n \in 0 .. N : n \in P
    BY <1>2, <1>8, <1>9, Counting
  <2> QED
    BY <1>2, <2>1
<1> QED
  BY <1>3, <1>4, <1>10 DEF Fold, s, K

-----------------------------------------------------------------------------
(* The fold of what a told install has *)

\* Rows of one grant: a lease, and a release and notes of it.
SameGrant(r, f) == r.gen = f.gen /\ r.strand = f.strand

\* The facts of an install, when clocks agree and routers are told: any part of
\* what was written in which a lease has its router, and is before what is of it.
Smooth(facts) ==
    /\ Readable(facts)
    /\ \A f \in facts :
          /\ f.kind \in {"router", "lease", "released", "letter", "note"} /\ RowOK(f)
          /\ f.kind \in {"lease", "released"} => f.thread = thread
          /\ f.kind = "letter" => f.letter = letter /\ f.thread = thread
          /\ f.kind = "note" => f.re = letter
    /\ \A f, g \in Leases(facts) : f.gen = g.gen => f = g
    /\ \A f \in Leases(facts) :
          /\ \E r \in Routers(facts) : r.gen = f.rgen /\ Before(r, f)
          /\ \A r \in Routers(facts) : Before(r, f) => r.gen <= f.rgen
          /\ \A r \in Releases(facts) \cup Notes(facts) : SameGrant(r, f) => Before(f, r)
    /\ \A l \in facts : l.kind = "letter" => \A f \in facts \ {l} : Before(l, f)

\* Those that have a release of each lease before the next.
Turned(facts) ==
    \A g, f \in Leases(facts) : Before(g, f) =>
        \E r \in Releases(facts) : SameGrant(r, g) /\ Before(r, f)

IsReleased(f, done) == \E r \in Releases(done) : SameGrant(r, f)

LastLease(f, done) == f \in Leases(done) /\ \A g \in Leases(done) \ {f} : Before(g, f)

\* What a state says of the facts it is the fold of.
TellsRouter(st, done) ==
    /\ \A r \in Routers(done) : r.gen <= st.newest
    /\ st.newest # 0 => \E r \in Routers(done) : r.gen = st.newest

TellsHolder(st, done) ==
    /\ st.holder[thread] = Nobody /\ Leases(done) # {} =>
          \E f : LastLease(f, done) /\ IsReleased(f, done)
    /\ st.holder[thread] # Nobody =>
          \E f : /\ LastLease(f, done) /\ ~IsReleased(f, done)
                 /\ st.holder[thread] = <<f.strand, f.gen>> /\ st.live[f.strand] = f.gen

TellsNotes(st, done) ==
    /\ (\E l \in done : l.kind = "letter") => st.dest[letter] = {thread}
    /\ \A n \in Notes(done) :
          (\E l \in done : l.kind = "letter") /\ st.holder[thread] = <<n.strand, n.gen>>
              => letter \in st.handled

Tells(st, done) ==
    /\ TellsRouter(st, done) /\ TellsHolder(st, done) /\ TellsNotes(st, done)
    /\ Leases(done) \subseteq ToSet(st.accepted)

\* And, of facts that are turned: one lease at a time.
TellsTurns(st) ==
    /\ \A n \in 2 .. Len(st.accepted) :
          st.accepted[n].kind = "lease" => st.accepted[n - 1].kind = "released"
    /\ st.holder[thread] = Nobody /\ st.accepted # <<>> =>
          st.accepted[Len(st.accepted)].kind = "released"

\* A fact that comes next, when those before it are done.
IsNext(f, done, facts) ==
    /\ f \in facts \ done /\ done \subseteq facts
    /\ \A g \in done : Before(g, f)
    /\ \A g \in facts : Before(g, f) => g \in done

LEMMA StartTells == Tells(Start, {}) /\ TellsTurns(Start)
<1>1. thread \in Thread
  BY OneThreadOneLetter
<1>2. /\ Leases({}) = {} /\ Routers({}) = {} /\ Notes({}) = {}
      /\ Start.holder[thread] = Nobody /\ Start.newest = 0 /\ Start.accepted = <<>>
  BY <1>1 DEF Leases, Routers, Notes, Start
<1>3. Tells(Start, {})
  BY <1>2 DEF Tells, TellsRouter, TellsHolder, TellsNotes
<1>4. TellsTurns(Start)
  BY <1>2 DEF TellsTurns
<1> QED
  BY <1>3, <1>4

LEMMA RouterTells ==
    ASSUME NEW facts, Smooth(facts), NEW st \in State(facts), NEW done, Tells(st, done),
           NEW f, IsNext(f, done, facts), f.kind = "router"
    PROVE  /\ Tells(Apply(st, f), done \cup {f})
           /\ TellsTurns(st) => TellsTurns(Apply(st, f))
<1>1. Apply(st, f) = IF f.gen > st.newest THEN [st EXCEPT !.newest = f.gen] ELSE st
  BY DEF Apply, Router
<1>2. f.gen \in Nat /\ st.newest \in Nat
  BY DEF Smooth, IsNext, RowOK, State
<1> DEFINE after == Apply(st, f)
<1>3. /\ after.holder = st.holder /\ after.live = st.live /\ after.accepted = st.accepted
      /\ after.dest = st.dest /\ after.handled = st.handled
      /\ after.newest = IF f.gen > st.newest THEN f.gen ELSE st.newest
  BY <1>1 DEF State
<1> HIDE DEF after
<1>4. /\ Leases(done \cup {f}) = Leases(done) /\ Releases(done \cup {f}) = Releases(done)
      /\ Notes(done \cup {f}) = Notes(done) /\ Routers(done \cup {f}) = Routers(done) \cup {f}
      /\ (\E l \in done \cup {f} : l.kind = "letter") <=> (\E l \in done : l.kind = "letter")
  BY DEF Leases, Releases, Notes, Routers
<1>5. \A r \in Routers(done) : r.gen \in Nat
  BY DEF Smooth, IsNext, RowOK, Routers
<1>6. TellsRouter(after, done \cup {f})
  <2>1. /\ \A r \in Routers(done) : r.gen <= st.newest
        /\ st.newest # 0 => \E r \in Routers(done) : r.gen = st.newest
    BY DEF Tells, TellsRouter
  <2>2. \A r \in Routers(done) \cup {f} : r.gen <= after.newest
    BY <1>2, <1>3, <1>5, <2>1
  <2>3. after.newest # 0 => \E r \in Routers(done) \cup {f} : r.gen = after.newest
    BY <1>3, <2>1
  <2> QED
    BY <1>4, <2>2, <2>3 DEF TellsRouter
<1>7. TellsHolder(after, done \cup {f})
  BY <1>3, <1>4 DEF Tells, TellsHolder, LastLease, IsReleased
<1>8. TellsNotes(after, done \cup {f}) /\ Leases(done \cup {f}) \subseteq ToSet(after.accepted)
  BY <1>3, <1>4 DEF Tells, TellsNotes
<1>9. TellsTurns(st) => TellsTurns(after)
  BY <1>3 DEF TellsTurns
<1> QED
  BY <1>6, <1>7, <1>8, <1>9 DEF Tells, after

LEMMA LeaseTells ==
    ASSUME NEW facts, Smooth(facts), NEW st \in State(facts), NEW done, Tells(st, done),
           NEW f, IsNext(f, done, facts), f.kind = "lease"
    PROVE  /\ Tells(Apply(st, f), done \cup {f})
           /\ Turned(facts) /\ TellsTurns(st) => TellsTurns(Apply(st, f))
<1> DEFINE after == Apply(st, f)
<1>1. /\ f \in Leases(facts) /\ f.thread = thread /\ thread \in Thread
      /\ f.strand \in Strand /\ f.gen \in Gen /\ f.gen \in Nat
  BY OneThreadOneLetter DEF Smooth, IsNext, RowOK, Leases, Gen
<1>2. /\ Leases(done \cup {f}) = Leases(done) \cup {f} /\ Releases(done \cup {f}) = Releases(done)
      /\ Notes(done \cup {f}) = Notes(done) /\ Routers(done \cup {f}) = Routers(done)
      /\ (\E l \in done \cup {f} : l.kind = "letter") <=> (\E l \in done : l.kind = "letter")
  BY DEF Leases, Releases, Notes, Routers
<1>3. f.rgen = st.newest
  <2>1. PICK r \in Routers(facts) : r.gen = f.rgen /\ Before(r, f)
    BY <1>1 DEF Smooth
  <2>2. r \in Routers(done)
    BY <2>1 DEF IsNext, Routers
  <2>3. f.rgen \in Nat /\ st.newest \in Nat /\ f.rgen <= st.newest
    BY <2>1, <2>2 DEF Tells, TellsRouter, State, Smooth, RowOK, Routers
  <2>4. st.newest # 0 => st.newest <= f.rgen
    <3>1. \A q \in Routers(done) : q \in Routers(facts) /\ Before(q, f)
      BY DEF IsNext, Routers
    <3> QED
      BY <1>1, <3>1 DEF Tells, TellsRouter, Smooth
  <2> QED
    BY <2>3, <2>4
<1>4. \A g \in facts : ~(Before(g, f) /\ Before(f, g))
  <2>1. Readable(facts) /\ f \in facts
    BY <1>1 DEF Smooth, Leases
  <2> QED
    BY <2>1, Stamps
<1>5. ~IsReleased(f, done)
  <2> SUFFICES ASSUME NEW r \in Releases(done), SameGrant(r, f) PROVE FALSE
    BY DEF IsReleased
  <2>1. r \in Releases(facts) /\ Before(r, f) /\ r \in facts
    BY DEF IsNext, Releases
  <2>2. Before(f, r)
    BY <1>1, <2>1 DEF Smooth
  <2> QED
    BY <1>4, <2>1, <2>2
\* No note that is done is of this lease.
<1>6. \A n \in Notes(done) : <<n.strand, n.gen>> # <<f.strand, f.gen>>
  <2> SUFFICES ASSUME NEW n \in Notes(done), SameGrant(n, f) PROVE FALSE
    BY DEF SameGrant
  <2>1. n \in Notes(facts) /\ Before(n, f) /\ n \in facts
    BY DEF IsNext, Notes
  <2>2. Before(f, n)
    BY <1>1, <2>1 DEF Smooth
  <2> QED
    BY <1>4, <2>1, <2>2
<1>7. /\ after.newest = st.newest /\ after.accepted = Append(st.accepted, f)
      /\ after.holder = [st.holder EXCEPT ![thread] = <<f.strand, f.gen>>]
      /\ after.live[f.strand] = f.gen
      /\ after.dest = st.dest /\ after.handled = st.handled
  <2>1. after = [st EXCEPT !.accepted = Append(@, f),
                           !.holder[f.thread] = <<f.strand, f.gen>>,
                           !.live = [Fenced(st, f) EXCEPT ![f.strand] = f.gen]]
    BY <1>3 DEF Apply, Lease, LeaseAccepted
  <2>2. f.strand \in DOMAIN Fenced(st, f)
    BY <1>1 DEF Fenced, State
  <2> QED
    BY <1>1, <2>1, <2>2 DEF State
<1> HIDE DEF after
<1>8. after.holder[thread] = <<f.strand, f.gen>> /\ <<f.strand, f.gen>> # Nobody
  BY <1>1, <1>7 DEF State, Nobody
<1>9. TellsRouter(after, done \cup {f})
  BY <1>2, <1>7 DEF Tells, TellsRouter
<1>10. TellsHolder(after, done \cup {f})
  <2>1. LastLease(f, done \cup {f})
    <3>1. \A g \in Leases(done) : Before(g, f)
      BY DEF IsNext, Leases
    <3> QED
      BY <1>2, <3>1 DEF LastLease
  <2> QED
    BY <1>2, <1>5, <1>7, <1>8, <2>1 DEF TellsHolder, IsReleased
<1> DEFINE acc == st.accepted
<1>11. acc \in Seq(facts) /\ f \in facts
  BY DEF State, IsNext
<1>12. /\ after.accepted = Append(acc, f) /\ Len(after.accepted) = Len(acc) + 1
       /\ after.accepted[Len(acc) + 1] = f /\ Len(acc) \in Nat
       /\ \A n \in 1 .. Len(acc) : after.accepted[n] = acc[n]
  BY <1>7, <1>11
<1>13. Leases(done \cup {f}) \subseteq ToSet(after.accepted)
  <2>1. Leases(done) \subseteq ToSet(acc)
    BY DEF Tells
  <2>2. DOMAIN after.accepted = 1 .. Len(acc) + 1 /\ DOMAIN acc = 1 .. Len(acc)
    BY <1>7, <1>11
  <2> HIDE DEF acc
  <2>3. ASSUME NEW g \in Leases(done) PROVE g \in ToSet(after.accepted)
    <3>1. PICK n \in 1 .. Len(acc) : acc[n] = g
      BY <2>1, <2>2 DEF ToSet
    <3> QED
      BY <1>12, <2>2, <3>1 DEF ToSet
  <2>4. f \in ToSet(after.accepted)
    BY <1>12, <2>2 DEF ToSet
  <2> QED
    BY <1>2, <2>3, <2>4
<1>14. ASSUME Turned(facts), TellsTurns(st) PROVE TellsTurns(after)
  <2>1. st.holder[thread] = Nobody
    <3> SUFFICES ASSUME st.holder[thread] # Nobody PROVE FALSE
      OBVIOUS
    <3>1. PICK g : LastLease(g, done) /\ ~IsReleased(g, done)
      BY DEF Tells, TellsHolder
    <3>2. g \in Leases(facts) /\ Before(g, f)
      BY <3>1 DEF LastLease, IsNext, Leases
    <3>3. PICK r \in Releases(facts) : SameGrant(r, g) /\ Before(r, f)
      BY <1>1, <1>14, <3>2 DEF Turned
    <3>4. r \in Releases(done)
      BY <3>3 DEF IsNext, Releases
    <3> QED
      BY <3>1, <3>3, <3>4 DEF IsReleased
  <2>2. acc # <<>> => acc[Len(acc)].kind = "released"
    BY <1>14, <2>1 DEF TellsTurns
  <2>3. \A n \in 2 .. Len(acc) : acc[n].kind = "lease" => acc[n - 1].kind = "released"
    BY <1>14 DEF TellsTurns
  <2>4. acc = <<>> => Len(acc) = 0
    OBVIOUS
  <2> HIDE DEF acc
  <2>5. ASSUME NEW n \in 2 .. Len(acc) + 1, after.accepted[n].kind = "lease"
        PROVE  after.accepted[n - 1].kind = "released"
    <3>1. CASE n = Len(acc) + 1
      BY <1>12, <2>2, <2>4, <3>1
    <3>2. CASE n # Len(acc) + 1
      <4>1. n \in 2 .. Len(acc) /\ n \in 1 .. Len(acc) /\ n - 1 \in 1 .. Len(acc)
        BY <1>12, <3>2
      <4> QED
        BY <1>12, <2>3, <2>5, <4>1
    <3> QED
      BY <3>1, <3>2
  <2> QED
    BY <1>8, <1>12, <2>5 DEF TellsTurns
<1>15. TellsNotes(after, done \cup {f})
  BY <1>2, <1>6, <1>7, <1>8 DEF Tells, TellsNotes
<1> QED
  BY <1>9, <1>10, <1>13, <1>14, <1>15 DEF Tells, after

\* A release is of the last lease, or of one that does not hold the thread.
LEMMA ReleasedTells ==
    ASSUME NEW facts, Smooth(facts), NEW st \in State(facts), NEW done, Tells(st, done),
           NEW f, IsNext(f, done, facts), f.kind = "released"
    PROVE  /\ Tells(Apply(st, f), done \cup {f})
           /\ TellsTurns(st) => TellsTurns(Apply(st, f))
<1> DEFINE after == Apply(st, f)
<1>1. /\ f \in Releases(facts) /\ f.thread = thread /\ thread \in Thread
      /\ f.strand \in Strand /\ f.gen \in Gen
  BY OneThreadOneLetter DEF Smooth, IsNext, RowOK, Releases, Gen
<1>2. /\ Leases(done \cup {f}) = Leases(done) /\ Releases(done \cup {f}) = Releases(done) \cup {f}
      /\ Notes(done \cup {f}) = Notes(done) /\ Routers(done \cup {f}) = Routers(done)
      /\ (\E l \in done \cup {f} : l.kind = "letter") <=> (\E l \in done : l.kind = "letter")
  BY DEF Leases, Releases, Notes, Routers
<1>3. /\ \A g : LastLease(g, done \cup {f}) <=> LastLease(g, done)
      /\ \A g : IsReleased(g, done \cup {f}) <=> IsReleased(g, done) \/ SameGrant(f, g)
  BY <1>2 DEF LastLease, IsReleased
<1>4. CASE st.holder[thread] = <<f.strand, f.gen>>
  <2>1. /\ after.newest = st.newest /\ after.accepted = Append(st.accepted, f)
        /\ after.holder[thread] = Nobody
        /\ after.dest = st.dest /\ after.handled = st.handled
    BY <1>1, <1>4 DEF Apply, Released, State
  <2> HIDE DEF after
  <2>2. TellsRouter(after, done \cup {f})
    BY <1>2, <2>1 DEF Tells, TellsRouter
  <2>3. TellsHolder(after, done \cup {f})
    <3>1. st.holder[thread] # Nobody
      BY <1>4 DEF Nobody
    <3>2. PICK g : LastLease(g, done) /\ st.holder[thread] = <<g.strand, g.gen>>
      BY <3>1 DEF Tells, TellsHolder
    <3>3. SameGrant(f, g)
      BY <1>4, <3>2 DEF SameGrant
    <3> QED
      BY <1>3, <2>1, <3>2, <3>3 DEF TellsHolder
  <2>4. TellsNotes(after, done \cup {f})
    <3>1. \A n : after.holder[thread] # <<n.strand, n.gen>>
      BY <2>1 DEF Nobody
    <3> QED
      BY <1>2, <2>1, <3>1 DEF Tells, TellsNotes
  <2> DEFINE acc == st.accepted
  <2>5. acc \in Seq(facts) /\ f \in facts
    BY DEF State, IsNext
  <2>6. /\ after.accepted = Append(acc, f) /\ Len(after.accepted) = Len(acc) + 1
        /\ after.accepted[Len(acc) + 1] = f /\ Len(acc) \in Nat
        /\ \A n \in 1 .. Len(acc) : after.accepted[n] = acc[n]
    BY <2>1, <2>5
  <2>7. Leases(done \cup {f}) \subseteq ToSet(after.accepted)
    <3>1. Leases(done) \subseteq ToSet(acc)
      BY DEF Tells
    <3>2. DOMAIN after.accepted = 1 .. Len(acc) + 1 /\ DOMAIN acc = 1 .. Len(acc)
      BY <2>5, <2>6
    <3> QED
      BY <1>2, <2>6, <3>1, <3>2 DEF ToSet, Range
  <2>8. ASSUME TellsTurns(st) PROVE TellsTurns(after)
    <3>1. \A n \in 2 .. Len(acc) : acc[n].kind = "lease" => acc[n - 1].kind = "released"
      BY <2>8 DEF TellsTurns
    <3> HIDE DEF acc
    <3>2. ASSUME NEW n \in 2 .. Len(acc) + 1, after.accepted[n].kind = "lease"
          PROVE  after.accepted[n - 1].kind = "released"
      <4>1. n # Len(acc) + 1
        BY <2>6, <3>2
      <4>2. n \in 2 .. Len(acc) /\ n \in 1 .. Len(acc) /\ n - 1 \in 1 .. Len(acc)
        BY <2>6, <4>1
      <4> QED
        BY <2>6, <3>1, <3>2, <4>2
    <3> QED
      BY <2>6, <3>2 DEF TellsTurns
  <2> QED
    BY <2>2, <2>3, <2>4, <2>7, <2>8 DEF Tells, after
<1>5. CASE st.holder[thread] # <<f.strand, f.gen>>
  <2>1. after = st
    BY <1>1, <1>5 DEF Apply, Released
  <2> HIDE DEF after
  <2>2. TellsHolder(st, done \cup {f})
    <3>1. CASE st.holder[thread] = Nobody
      BY <1>2, <1>3, <3>1 DEF Tells, TellsHolder
    <3>2. CASE st.holder[thread] # Nobody
      <4>1. PICK g : /\ LastLease(g, done) /\ ~IsReleased(g, done)
                     /\ st.holder[thread] = <<g.strand, g.gen>> /\ st.live[g.strand] = g.gen
        BY <3>2 DEF Tells, TellsHolder
      <4>2. ~SameGrant(f, g)
        BY <1>5, <4>1 DEF SameGrant
      <4> QED
        BY <1>3, <3>2, <4>1, <4>2 DEF TellsHolder
    <3> QED
      BY <3>1, <3>2
  <2>3. TellsRouter(st, done \cup {f}) /\ TellsNotes(st, done \cup {f})
    BY <1>2 DEF Tells, TellsRouter, TellsNotes
  <2> QED
    BY <1>2, <2>1, <2>2, <2>3 DEF Tells, after
<1> QED
  BY <1>4, <1>5

\* No note is read before the letter.
LEMMA LetterTells ==
    ASSUME NEW facts, Smooth(facts), NEW st \in State(facts), NEW done, Tells(st, done),
           NEW f, IsNext(f, done, facts), f.kind = "letter"
    PROVE  /\ Tells(Apply(st, f), done \cup {f})
           /\ TellsTurns(st) => TellsTurns(Apply(st, f))
<1> DEFINE after == Apply(st, f)
<1>1. f \in facts /\ f.thread = thread /\ f.letter = letter /\ letter \in Letter
  BY OneThreadOneLetter DEF Smooth, IsNext
<1>2. /\ Leases(done \cup {f}) = Leases(done) /\ Releases(done \cup {f}) = Releases(done)
      /\ Notes(done \cup {f}) = Notes(done) /\ Routers(done \cup {f}) = Routers(done)
  BY DEF Leases, Releases, Notes, Routers
<1>3. Notes(done) = {}
  <2> SUFFICES ASSUME NEW n \in Notes(done) PROVE FALSE
    OBVIOUS
  <2>1. n \in facts \ {f} /\ Before(n, f)
    BY DEF Notes, IsNext
  <2>2. Before(f, n)
    BY <1>1, <2>1 DEF Smooth
  <2>3. Readable(facts)
    BY DEF Smooth
  <2> QED
    BY <1>1, <2>1, <2>2, <2>3, Stamps
<1>4. /\ after.newest = st.newest /\ after.accepted = st.accepted
      /\ after.holder = st.holder /\ after.live = st.live
      /\ after.dest[letter] = {thread}
  BY <1>1 DEF Apply, Placed, State
<1> HIDE DEF after
<1>5. TellsRouter(after, done \cup {f}) /\ TellsHolder(after, done \cup {f})
  BY <1>2, <1>4 DEF Tells, TellsRouter, TellsHolder, LastLease, IsReleased
<1>6. TellsNotes(after, done \cup {f}) /\ Leases(done \cup {f}) \subseteq ToSet(after.accepted)
  BY <1>2, <1>3, <1>4 DEF Tells, TellsNotes
<1>7. TellsTurns(st) => TellsTurns(after)
  BY <1>4 DEF TellsTurns
<1> QED
  BY <1>5, <1>6, <1>7 DEF Tells, after

\* A note by the holder is live and counts.
LEMMA NoteTells ==
    ASSUME NEW facts, Smooth(facts), NEW st \in State(facts), NEW done, Tells(st, done),
           NEW f, IsNext(f, done, facts), f.kind = "note"
    PROVE  /\ Tells(Apply(st, f), done \cup {f})
           /\ TellsTurns(st) => TellsTurns(Apply(st, f))
<1> DEFINE after == Apply(st, f)
<1>1. f \in Notes(facts) /\ f.re = letter /\ letter \in Letter
  BY OneThreadOneLetter DEF Smooth, IsNext, Notes
<1>2. /\ Leases(done \cup {f}) = Leases(done) /\ Releases(done \cup {f}) = Releases(done)
      /\ Notes(done \cup {f}) = Notes(done) \cup {f} /\ Routers(done \cup {f}) = Routers(done)
      /\ (\E l \in done \cup {f} : l.kind = "letter") <=> (\E l \in done : l.kind = "letter")
  BY DEF Leases, Releases, Notes, Routers
<1>3. /\ after.newest = st.newest /\ after.accepted = st.accepted
      /\ after.holder = st.holder /\ after.live = st.live /\ after.dest = st.dest
      /\ st.handled \subseteq after.handled
      /\ Live(st, f) /\ Holds(st, f) => letter \in after.handled
  BY <1>1 DEF Apply, Note, Mark, State
<1> HIDE DEF after
<1>4. ASSUME \E l \in done : l.kind = "letter", st.holder[thread] = <<f.strand, f.gen>>
      PROVE  letter \in after.handled
  <2>1. st.holder[thread] # Nobody
    BY <1>4 DEF Nobody
  <2>2. PICK h : st.holder[thread] = <<h.strand, h.gen>> /\ st.live[h.strand] = h.gen
    BY <2>1 DEF Tells, TellsHolder
  <2>3. Live(st, f)
    BY <1>4, <2>2 DEF Live
  <2>4. Holds(st, f)
    BY <1>1, <1>4 DEF Tells, TellsNotes, Holds
  <2> QED
    BY <1>3, <2>3, <2>4
<1>5. TellsRouter(after, done \cup {f}) /\ TellsHolder(after, done \cup {f})
  BY <1>2, <1>3 DEF Tells, TellsRouter, TellsHolder, LastLease, IsReleased
<1>6. TellsNotes(after, done \cup {f}) /\ Leases(done \cup {f}) \subseteq ToSet(after.accepted)
  BY <1>2, <1>3, <1>4 DEF Tells, TellsNotes
<1>7. TellsTurns(st) => TellsTurns(after)
  BY <1>3 DEF TellsTurns
<1> QED
  BY <1>5, <1>6, <1>7 DEF Tells, after

\* The fold of smooth facts tells what is in them.
LEMMA FoldTells ==
    ASSUME NEW facts, Readable(facts), \A f \in facts : f.after = {}, Smooth(Kept(facts))
    PROVE  /\ Tells(Fold(facts), Kept(facts)) /\ Fold(facts) \in State(Kept(facts))
           /\ Turned(Kept(facts)) => TellsTurns(Fold(facts))
<1> DEFINE K == Kept(facts)
           Q == {p \in State(K) \X SUBSET K :
                    Tells(p[1], p[2]) /\ (Turned(K) => TellsTurns(p[1]))}
<1>1. <<Start, {}>> \in Q
  BY StartTells, StartSound
<1>2. ASSUME NEW p \in Q, NEW f \in K \ p[2], p[2] \subseteq K,
             \A g \in p[2] : Before(g, f), \A g \in K : Before(g, f) => g \in p[2]
      PROVE  <<Apply(p[1], f), p[2] \cup {f}>> \in Q
  <2>1. /\ Smooth(K) /\ p[1] \in State(K) /\ Tells(p[1], p[2]) /\ IsNext(f, p[2], K)
        /\ Turned(K) => TellsTurns(p[1])
    BY <1>2 DEF IsNext
  <2> HIDE DEF K
  <2>2. f \in K /\ RowOK(f) /\ f.kind \in {"router", "lease", "released", "letter", "note"}
    BY <2>1 DEF Smooth, IsNext
  <2>3. Apply(p[1], f) \in State(K)
    BY <2>1, <2>2, ApplyTyped
  <2>4. /\ Tells(Apply(p[1], f), p[2] \cup {f})
        /\ Turned(K) => TellsTurns(Apply(p[1], f))
    <3> DEFINE st == p[1]
               done == p[2]
    <3>1. /\ st \in State(K) /\ Tells(st, done) /\ IsNext(f, done, K)
          /\ Turned(K) => TellsTurns(st)
      BY <2>1
    <3> HIDE DEF st, done
    <3>2. CASE f.kind = "lease"
      BY <2>1, <3>1, <3>2, LeaseTells DEF st, done
    <3>3. CASE f.kind # "lease"
      BY <2>1, <2>2, <3>1, <3>3, RouterTells, ReleasedTells, LetterTells, NoteTells DEF st, done
    <3> QED
      BY <3>2, <3>3
  <2>5. p[2] \cup {f} \in SUBSET K
    BY <1>2
  <2> QED
    BY <2>3, <2>4, <2>5
<1>3. <<Fold(facts), K>> \in Q
  <2>1. \A p \in Q : \A f \in K \ p[2] :
              /\ p[2] \subseteq K
              /\ \A g \in p[2] : Before(g, f)
              /\ \A g \in K : Before(g, f) => g \in p[2]
              => <<Apply(p[1], f), p[2] \cup {f}>> \in Q
    BY <1>2
  <2> HIDE DEF Q
  <2> QED
    BY <1>1, <2>1, FoldBy
<1> QED
  BY <1>3

-----------------------------------------------------------------------------
(* What is written, and when *)

LEMMA EverythingIs == \A f : f \in Everything <=> \E j \in Install : f \in own[j]
  BY DEF Everything

\* What is written is finite, and has the shape of its writer.
LEMMA FactsAre ==
    ASSUME Base
    PROVE  /\ IsFiniteSet(Everything) /\ Cardinality(Everything) \in Nat
           /\ \A i \in Install : offset[i] \in Nat
           /\ \A f \in Everything : \E j \in Install : f \in own[j] /\ Shape(f, j)
           /\ \A f \in Everything : Time(f) \in 1 .. Cardinality(Everything)
           /\ \A j \in Install : \A f \in own[j] : Shape(f, j) /\ f \in Everything
           /\ \A j \in Install : View(j) \subseteq Everything /\ seen[j] \subseteq Everything
<1>1. IsFiniteSet(Everything) /\ Cardinality(Everything) \in Nat
  BY FS_CardinalityType DEF Base, Written
<1>2. \A i \in Install : offset[i] \in Nat
  BY DEF Base, Typed
<1>3. \A j \in Install : \A f \in own[j] : /\ Shape(f, j) /\ f \in Everything
                                           /\ Time(f) \in 1 .. Cardinality(Everything)
  BY EverythingIs DEF Base, Written
<1>4. \A f \in Everything : \E j \in Install : f \in own[j]
  BY EverythingIs
<1>5. \A j \in Install : View(j) \subseteq Everything
  BY <1>3 DEF View, Base, Copied
<1>6. \A j \in Install : seen[j] \subseteq View(j)
  BY DEF Base, Sighted
<1> QED
  BY <1>1, <1>2, <1>3, <1>4, <1>5, <1>6

\* A fact is of one install.
LEMMA OneWriter == Base => \A i, j \in Install : \A f \in own[i] : f \in own[j] => i = j
<1> SUFFICES ASSUME Base PROVE \A i \in Install : \A f \in own[i] : f.hlc[3] = i
  OBVIOUS
<1> QED
  BY FactsAre DEF Shape

\* What is on a disk has heads of the ledgers of the others.
LEMMA DiskHeads ==
    ASSUME Base, NEW i \in Install, NEW j \in Install \ {i}, NEW f \in View(i) \cap own[j],
           NEW g \in own[j], Earlier(g, f)
    PROVE  g \in View(i)
<1>1. f \in known[i]
  BY OneWriter DEF View
<1> QED
  BY <1>1 DEF Base, Heads, View

\* The clocks do not change.
LEMMA Fixed ==
    ASSUME UNCHANGED offset
    PROVE  /\ \A f : Time(f)' = Time(f)
           /\ \A f, g : Earlier(f, g)' <=> Earlier(f, g)
           /\ \A f, j : Shape(f, j)' <=> Shape(f, j)
<1>1. \A f : Time(f)' = Time(f)
  BY DEF Time
<1>2. \A f, g : Earlier(f, g)' <=> Earlier(f, g)
  BY <1>1 DEF Earlier
<1>3. \A f, j : Shape(f, j)' <=> Shape(f, j)
  BY <1>1 DEF Shape
<1> QED
  BY <1>1, <1>2, <1>3

\* A set of installs' facts that grows by one.
Wrote(i, row) ==
    /\ row \notin Everything /\ Everything' = Everything \cup {row}
    /\ \A j \in Install : own'[j] = IF j = i THEN own[j] \cup {row} ELSE own[j]
    /\ DOMAIN own' = Install
    /\ \A f \in Everything : Earlier(f, row) /\ ~Earlier(row, f)
    /\ ~Earlier(row, row)

\* A write comes after all that was written, and keeps its order and ids.
LEMMA Writes ==
    ASSUME Base, NEW i \in Install, NEW row, Write(i, row), UNCHANGED <<world, offset>>,
           row.hlc = Stamp(i), Shape(row, i)
    PROVE  Wrote(i, row) /\ Written'
<1> DEFINE N == Cardinality(Everything)
<1>1. /\ IsFiniteSet(Everything) /\ N \in Nat /\ offset[i] \in Nat
      /\ \A f \in Everything : Time(f) \in 1 .. N
  BY FactsAre
<1>2. row.id \notin Ids(own[i]) /\ own' = [own EXCEPT ![i] = own[i] \cup {row}]
  BY DEF Write
<1>3. DOMAIN own = Install
  BY DEF Base, Typed
<1>4. /\ \A j \in Install : own'[j] = IF j = i THEN own[j] \cup {row} ELSE own[j]
      /\ DOMAIN own' = Install
  BY <1>2, <1>3
<1>5. Everything' = Everything \cup {row}
  <2>1. Everything' = UNION {own'[j] : j \in Install}
    BY DEF Everything
  <2>2. \A f : f \in Everything' <=> \E j \in Install : f \in own'[j]
    BY <2>1
  <2>3. \A f : f \in Everything' <=> f \in Everything \cup {row}
    BY <1>4, <2>2, EverythingIs
  <2> QED
    BY <2>3
<1>6. Time(row) = N + 1
  BY <1>1 DEF Time, Stamp
<1> HIDE DEF N
<1>7. row \notin Everything
  BY <1>1, <1>6
<1>8. /\ \A f \in Everything : Earlier(f, row) /\ ~Earlier(row, f)
      /\ ~Earlier(row, row)
  BY <1>1, <1>6 DEF Earlier
<1>9. IsFiniteSet(Everything') /\ Cardinality(Everything') = N + 1
  BY <1>1, <1>5, <1>7, FS_AddElement DEF N
<1>10. /\ \A f : Time(f)' = Time(f)
       /\ \A f, j : Shape(f, j)' <=> Shape(f, j)
  BY Fixed
<1>11. Written'
  <2>1. ASSUME NEW j \in Install, NEW f \in own'[j]
        PROVE  Shape(f, j)' /\ Time(f)' \in 1 .. Cardinality(Everything')
    <3>1. CASE f \in own[j]
      <4>1. Shape(f, j) /\ f \in Everything
        BY <3>1, FactsAre
      <4> QED
        BY <1>1, <1>9, <1>10, <4>1
    <3>2. CASE f \notin own[j]
      <4>1. j = i /\ f = row
        BY <1>4, <2>1, <3>2
      <4> QED
        BY <1>1, <1>6, <1>9, <1>10, <4>1
    <3> QED
      BY <3>1, <3>2
  <2>2. ASSUME NEW f \in Everything', NEW g \in Everything', Time(f)' = Time(g)'
        PROVE  f = g
    <3>1. \A h, k \in Everything : Time(h) = Time(k) => h = k
      BY DEF Base, Written
    <3>2. Time(f) = Time(g)
      BY <1>10, <2>2
    <3>3. \A h \in Everything : Time(h) # Time(row)
      BY <1>1, <1>6
    <3> QED
      BY <1>5, <3>1, <3>2, <3>3
  <2>3. ASSUME NEW j \in Install, NEW f \in own'[j], NEW g \in own'[j], f.id = g.id
        PROVE  f = g
    <3>1. \A h, k \in own[j] : h.id = k.id => h = k
      BY DEF Base, Written
    <3>2. \A h \in own[i] : h.id # row.id
      BY <1>2 DEF Ids
    <3> QED
      BY <1>4, <2>3, <3>1, <3>2
  <2> QED
    BY <1>9, <2>1, <2>2, <2>3 DEF Written
<1> QED
  BY <1>4, <1>5, <1>7, <1>8, <1>11 DEF Wrote

\* What is written is a set of facts that a union takes.
LEMMA AllReadable == Base => Readable(Everything) /\ \A f \in Everything : f.after = {}
<1> SUFFICES ASSUME Base PROVE Readable(Everything) /\ \A f \in Everything : f.after = {}
  OBVIOUS
<1>1. \A f \in Everything : \E j \in Install : Shape(f, j)
  BY FactsAre
<1>2. \A f \in Everything : f.after = {} /\ f.kind # "renewed"
  BY <1>1 DEF Shape
<1>3. \A f \in Everything : f.hlc \in Nat \X Nat \X Nat
  <2> SUFFICES ASSUME NEW f \in Everything PROVE f.hlc \in Nat \X Nat \X Nat
    OBVIOUS
  <2>1. PICK j \in Install : Shape(f, j)
    BY <1>1
  <2>2. j \in Nat /\ f.hlc[1] \in Nat /\ f.hlc = <<f.hlc[1], 0, j>>
    BY <2>1, LoomsConstants DEF Install, Shape
  <2>3. <<f.hlc[1], 0, j>> \in Nat \X Nat \X Nat
    BY <2>2
  <2> QED
    BY <2>2, <2>3
<1>4. \A f, g \in Everything : f.hlc = g.hlc => f = g
  <2>1. \A f, g \in Everything : f.hlc = g.hlc => Time(f) = Time(g)
    BY DEF Time
  <2> QED
    BY <2>1 DEF Base, Written
<1>5. \A rest \in SUBSET Everything : rest # {} => Ready(rest) # {}
  BY <1>2 DEF Ready
<1>6. IsFiniteSet(Everything)
  BY FactsAre
<1> QED
  BY <1>2, <1>3, <1>4, <1>5, <1>6 DEF Readable

\* Of one install's facts, the stamps tell which is earlier; of all of them, if
\* the clocks agree.
LEMMA Stamped ==
    ASSUME Base
    PROVE  /\ \A i \in Install : \A f, g \in own[i] : Before(f, g) <=> Earlier(f, g)
           /\ world.skew = 0 => \A f, g \in Everything : Before(f, g) <=> Earlier(f, g)
           /\ \A f, g \in Everything : f # g => Earlier(f, g) \/ Earlier(g, f)
           /\ \A f, g, h \in Everything : Earlier(f, g) /\ Earlier(g, h) => Earlier(f, h)
           /\ \A f, g \in Everything : Earlier(f, g) => ~Earlier(g, f)
<1>1. \A f \in Everything : Time(f) \in Nat
  BY FactsAre
<1>2. \A f, g \in Everything : Time(f) = Time(g) => f = g
  BY DEF Base, Written
<1>3. ASSUME NEW i \in Install, NEW j \in Install, NEW f \in own[i], NEW g \in own[j],
             offset[i] = offset[j]
      PROVE  Before(f, g) <=> Earlier(f, g)
  <2>1. /\ f.hlc = <<f.hlc[1], 0, i>> /\ f.hlc[1] \in Nat
        /\ g.hlc = <<g.hlc[1], 0, j>> /\ g.hlc[1] \in Nat
    BY FactsAre DEF Shape
  <2>2. /\ f.hlc[2] = 0 /\ f.hlc[3] = i
        /\ g.hlc[2] = 0 /\ g.hlc[3] = j
    BY <2>1
  <2>3. offset[i] \in Nat /\ i \in Nat /\ j \in Nat
    BY FactsAre, LoomsConstants DEF Install
  <2>4. Time(f) = f.hlc[1] - offset[i] /\ Time(g) = g.hlc[1] - offset[i]
    BY <1>3, <2>2 DEF Time
  <2>5. f.hlc[1] = g.hlc[1] => i = j
    <3>1. f \in Everything /\ g \in Everything
      BY EverythingIs
    <3>2. f.hlc[1] = g.hlc[1] => f = g
      BY <1>2, <2>4, <3>1
    <3> QED
      BY <2>2, <3>2
  <2>6. Before(f, g) <=> f.hlc[1] < g.hlc[1]
    BY <2>1, <2>2, <2>3, <2>5 DEF Before
  <2> QED
    BY <2>1, <2>3, <2>4, <2>6 DEF Earlier
<1>4. \A i \in Install : \A f, g \in own[i] : Before(f, g) <=> Earlier(f, g)
  BY <1>3
<1>5. ASSUME world.skew = 0, NEW f \in Everything, NEW g \in Everything
      PROVE  Before(f, g) <=> Earlier(f, g)
  <2>1. PICK i \in Install : f \in own[i]
    BY EverythingIs
  <2>2. PICK j \in Install : g \in own[j]
    BY EverythingIs
  <2>3. offset[i] = offset[j]
    BY <1>5 DEF Base, Typed
  <2> QED
    BY <1>3, <2>1, <2>2, <2>3
<1>6. /\ \A f, g \in Everything : f # g => Earlier(f, g) \/ Earlier(g, f)
      /\ \A f, g, h \in Everything : Earlier(f, g) /\ Earlier(g, h) => Earlier(f, h)
      /\ \A f, g \in Everything : Earlier(f, g) => ~Earlier(g, f)
  BY <1>1, <1>2 DEF Earlier
<1> QED
  BY <1>4, <1>5, <1>6

\* The highest of some numbers.
LEMMA Highest ==
    ASSUME NEW S \in SUBSET Nat, IsFiniteSet(S), S # {}
    PROVE  \E m \in S : \A n \in S : n <= m
<1> DEFINE R == {p \in S \X S : p[1] > p[2]}
<1>1. \A x, y \in S : <<x, y>> \in R <=> x > y
  OBVIOUS
<1>2. S \subseteq Nat
  OBVIOUS
<1> HIDE DEF R
<1>3. /\ \A x \in S : <<x, x>> \notin R
      /\ \A x, y, z \in S : <<x, y>> \in R /\ <<y, z>> \in R => <<x, z>> \in R
  BY <1>1, <1>2
<1>4. PICK m \in S : \A y \in S : <<y, m>> \notin R
  BY <1>3, Minimal
<1>5. ASSUME NEW n \in S PROVE n <= m
  <2>1. ~(n > m) /\ n \in Nat /\ m \in Nat
    BY <1>1, <1>2, <1>4
  <2> QED
    BY <2>1
<1> QED
  BY <1>5

\* _next_gen: one more than the highest the tick knows.
LEMMA NextGenIs ==
    ASSUME Base, NEW i \in Install
    PROVE  LET rows == Leases(seen[i]) \cup Releases(seen[i]) IN
           /\ NextGen(i) \in Gen
           /\ \A f \in rows : f.gen < NextGen(i)
           /\ NextGen(i) = 1 \/ \E f \in rows : NextGen(i) = f.gen + 1
<1> DEFINE rows == Leases(seen[i]) \cup Releases(seen[i])
           gens == {f.gen : f \in rows}
<1>1. \A f \in rows : f.gen \in Gen /\ f \in Everything
  <2> SUFFICES ASSUME NEW f \in rows PROVE f.gen \in Gen /\ f \in Everything
    OBVIOUS
  <2>1. f \in Everything /\ f.kind \in {"lease", "released"}
    BY FactsAre DEF Leases, Releases
  <2>2. \E j \in Install : Shape(f, j)
    BY <2>1, FactsAre
  <2> QED
    BY <2>1, <2>2 DEF Shape
<1>2. IsFiniteSet(rows)
  BY <1>1, FactsAre, FS_Subset
<1>3. NextGen(i) = IF gens = {} THEN 1 ELSE 1 + CHOOSE g \in gens : \A h \in gens : h <= g
  BY DEF NextGen
<1> HIDE DEF rows
<1>4. gens \subseteq Nat /\ \A n \in gens : n \in Gen
  BY <1>1 DEF Gen
<1>5. IsFiniteSet(gens)
  <2> DEFINE M == [f \in rows |-> f.gen]
  <2>1. M \in Surjection(rows, gens)
    BY DEF Surjection
  <2> HIDE DEF M, gens
  <2> QED
    BY <1>2, <2>1, FS_Surjection
<1>6. CASE gens = {}
  <2>1. NextGen(i) = 1 /\ rows = {}
    BY <1>3, <1>6
  <2> QED
    BY <2>1 DEF Gen, rows
<1>7. CASE gens # {}
  <2> DEFINE g == CHOOSE g \in gens : \A h \in gens : h <= g
  <2>1. g \in gens /\ \A h \in gens : h <= g
    <3> HIDE DEF gens
    <3>1. \E m \in gens : \A n \in gens : n <= m
      BY <1>4, <1>5, <1>7, Highest
    <3> QED
      BY <3>1
  <2>2. NextGen(i) = 1 + g
    BY <1>3, <1>7
  <2> HIDE DEF g
  <2>3. PICK f \in rows : g = f.gen
    BY <2>1
  <2>4. \A h \in rows : h.gen \in gens
    OBVIOUS
  <2>5. g \in Nat /\ \A h \in rows : h.gen \in Nat
    BY <1>4, <2>1, <2>4
  <2>6. NextGen(i) \in Gen /\ NextGen(i) = f.gen + 1
    BY <2>2, <2>3, <2>5 DEF Gen
  <2>7. ASSUME NEW h \in rows PROVE h.gen < NextGen(i)
    <3>1. h.gen <= g /\ h.gen \in Nat
      BY <2>1, <2>4, <2>5
    <3> QED
      BY <2>2, <2>5, <3>1
  <2> QED
    BY <2>3, <2>6, <2>7 DEF rows
<1> QED
  BY <1>6, <1>7

-----------------------------------------------------------------------------
(* What holds in any world *)

\* The tick that writes a row goes by it, unless a person wrote it.
Saw(i, row) ==
    /\ DOMAIN seen' = Install
    /\ \A j \in Install \ {i} : seen'[j] = seen[j]
    /\ \/ seen'[i] = seen[i] \cup {row}
       \/ seen'[i] = View(i) \cup {row}
       \/ seen'[i] = seen[i] /\ row.kind = "pin"

LEMMA GoesOn ==
    ASSUME Base, NEW i \in Install, NEW S, Goes(i, S)
    PROVE  DOMAIN seen' = Install /\ seen'[i] = S /\ \A j \in Install \ {i} : seen'[j] = seen[j]
  BY DEF Goes, Base, Typed

\* What a write leaves of the other parts of Base.
LEMMA WriteBase ==
    ASSUME Base, NEW i \in Install, NEW row, Wrote(i, row), Written', Typed',
           UNCHANGED <<offset, known>>, Saw(i, row),
           carried' \subseteq Everything,
           \A j \in Install : /\ prior'[j] \subseteq Everything
                              /\ pushed'[j] = pushed[j] \/ pushed'[j] = own[j],
           row.kind = "lease" =>
               row.gen = NextGen(i) /\ row.strand = <<i, 1 + Cardinality(Leases(own[i]))>>,
           row.kind = "released" => \E f \in Leases(View(i)) :
                                        f.gen = row.gen /\ f.strand = row.strand,
           row.kind = "note" => \E f \in Leases(own[i]) :
                                    f.gen = row.gen /\ f.strand = row.strand
    PROVE  Base'
<1>1. /\ row \notin Everything /\ Everything' = Everything \cup {row}
      /\ \A j \in Install : own'[j] = IF j = i THEN own[j] \cup {row} ELSE own[j]
      /\ \A f \in Everything : Earlier(f, row) /\ ~Earlier(row, f)
      /\ ~Earlier(row, row)
  BY DEF Wrote
<1>2. \A f, g : Earlier(f, g)' <=> Earlier(f, g)
  BY Fixed
<1>3. /\ \A j \in Install : \A f \in own[j] : f \in Everything
      /\ \A j \in Install : View(j) \subseteq Everything
  BY FactsAre
<1>4. /\ carried \subseteq Everything
      /\ \A j \in Install : /\ known[j] \subseteq Everything
                            /\ prior[j] \subseteq Everything
                            /\ pushed[j] \subseteq own[j]
  BY DEF Base, Copied
<1>5. Copied'
  <2>1. carried' \subseteq Everything'
    BY <1>1
  <2>2. ASSUME NEW j \in Install
        PROVE  /\ known'[j] \subseteq Everything' /\ prior'[j] \subseteq Everything'
               /\ pushed'[j] \subseteq own'[j]
    BY <1>1, <1>4
  <2> QED
    BY <2>1, <2>2 DEF Copied
<1>6. Heads'
  <2>1. ASSUME NEW j \in Install, NEW k \in Install, NEW f \in known'[j] \cap own'[k]
        PROVE  j # k /\ \A g \in own'[k] : Earlier(g, f) => g \in known'[j]
    <3>1. f \in known[j] /\ f \in Everything
      BY <1>4
    <3>2. f \in own[k]
      BY <1>1, <3>1
    <3>3. j # k /\ \A g \in own[k] : Earlier(g, f) => g \in known[j]
      BY <3>1, <3>2 DEF Base, Heads
    <3> QED
      BY <1>1, <3>1, <3>3
  <2>2. ASSUME NEW j \in Install, NEW f \in pushed'[j], NEW g \in own'[j], Earlier(g, f)
        PROVE  g \in pushed'[j]
    <3>1. f \in own[j] /\ f \in Everything
      BY <1>3, <1>4
    <3>2. g \in own[j]
      BY <1>1, <2>2, <3>1
    <3>3. \A h \in pushed[j] : \A e \in own[j] : Earlier(e, h) => e \in pushed[j]
      BY DEF Base, Heads
    <3> QED
      BY <2>2, <3>1, <3>2, <3>3
  <2> QED
    BY <1>2, <2>1, <2>2 DEF Heads
<1>7. \A j \in Install : /\ View(j) \subseteq View(j)'
                         /\ own[j] \subseteq own'[j]
  BY <1>1 DEF View
<1>8. Grounded'
  <2>1. ASSUME NEW j \in Install, NEW r \in Releases(own'[j])
        PROVE  \E f \in Leases(View(j)') :
                   f.gen = r.gen /\ f.strand = r.strand /\ Earlier(f, r)
    <3>1. CASE r \in own[j]
      <4>1. PICK f \in Leases(View(j)) :
                f.gen = r.gen /\ f.strand = r.strand /\ Earlier(f, r)
        BY <3>1 DEF Base, Grounded, Releases
      <4> QED
        BY <1>7, <4>1 DEF Leases
    <3>2. CASE r \notin own[j]
      <4>1. j = i /\ r = row /\ row.kind = "released"
        BY <1>1, <3>2 DEF Releases
      <4>2. PICK f \in Leases(View(i)) : f.gen = row.gen /\ f.strand = row.strand
        BY <4>1
      <4>3. f \in Everything
        BY <1>3 DEF Leases
      <4> QED
        BY <1>1, <1>7, <4>1, <4>2, <4>3 DEF Leases
    <3> QED
      BY <3>1, <3>2
  <2>2. ASSUME NEW j \in Install, NEW n \in Notes(own'[j])
        PROVE  \E f \in Leases(own'[j]) :
                   f.gen = n.gen /\ f.strand = n.strand /\ Earlier(f, n)
    <3>1. CASE n \in own[j]
      <4>1. PICK f \in Leases(own[j]) :
                f.gen = n.gen /\ f.strand = n.strand /\ Earlier(f, n)
        BY <3>1 DEF Base, Grounded, Notes
      <4> QED
        BY <1>7, <4>1 DEF Leases
    <3>2. CASE n \notin own[j]
      <4>1. j = i /\ n = row /\ row.kind = "note"
        BY <1>1, <3>2 DEF Notes
      <4>2. PICK f \in Leases(own[i]) : f.gen = row.gen /\ f.strand = row.strand
        BY <4>1
      <4>3. f \in Everything
        BY <1>3 DEF Leases
      <4> QED
        BY <1>1, <1>7, <4>1, <4>2, <4>3 DEF Leases
    <3> QED
      BY <3>1, <3>2
  <2> QED
    BY <1>2, <2>1, <2>2 DEF Grounded
<1>9. Counted'
  <2>1. ASSUME NEW f \in Leases(Everything'), NEW n \in 1 .. f.gen - 1
        PROVE  \E g \in Leases(Everything') : g.gen = n /\ Earlier(g, f)
    <3>1. CASE f \in Everything
      <4>1. PICK g \in Leases(Everything) : g.gen = n /\ Earlier(g, f)
        BY <3>1 DEF Base, Counted, Leases
      <4> QED
        BY <1>1, <4>1 DEF Leases
    <3>2. CASE f \notin Everything
      <4>1. f = row /\ row.kind = "lease" /\ f.gen = NextGen(i)
        BY <1>1, <3>2 DEF Leases
      <4>2. \E g \in Leases(Everything) : g.gen = n
        <5>1. NextGen(i) \in Gen /\ n \in 1 .. NextGen(i) - 1
          BY <4>1, NextGenIs
        <5>2. NextGen(i) # 1
          BY <5>1 DEF Gen
        <5>3. PICK h \in Leases(seen[i]) \cup Releases(seen[i]) : NextGen(i) = h.gen + 1
          BY <5>2, NextGenIs
        <5>4. PICK g \in Leases(Everything) : g.gen = h.gen
          <6>1. CASE h \in Leases(seen[i])
            BY FactsAre, <6>1 DEF Leases
          <6>2. CASE h \in Releases(seen[i])
            <7>1. h \in Everything
              BY FactsAre, <6>2 DEF Releases
            <7>2. PICK j \in Install : h \in Releases(own[j])
              BY <6>2, <7>1, EverythingIs DEF Releases
            <7>3. \E g \in Leases(View(j)) : g.gen = h.gen
              BY <7>2 DEF Base, Grounded
            <7> QED
              BY <1>3, <7>3 DEF Leases
          <6> QED
            BY <6>1, <6>2
        <5>5. g.gen \in Nat
          <6>1. \E j \in Install : Shape(g, j)
            BY FactsAre DEF Leases
          <6> QED
            BY <6>1 DEF Shape, Leases, Gen
        <5>6. n \in Nat /\ n <= g.gen
          BY <5>1, <5>3, <5>4, <5>5
        <5>7. CASE n = g.gen
          BY <5>7
        <5>8. CASE n # g.gen
          <6>1. n \in 1 .. g.gen - 1
            BY <5>1, <5>5, <5>6, <5>8
          <6> QED
            BY <6>1 DEF Base, Counted
        <5> QED
          BY <5>7, <5>8
      <4>3. PICK g \in Leases(Everything) : g.gen = n
        BY <4>2
      <4> QED
        BY <1>1, <4>1, <4>3 DEF Leases
    <3> QED
      BY <3>1, <3>2
  <2>2. ASSUME NEW j \in Install, NEW f \in Leases(own'[j]), NEW g \in Leases(own'[j]),
               Earlier(f, g)
        PROVE  f.gen < g.gen
    <3>1. CASE f \in own[j] /\ g \in own[j]
      BY <2>2, <3>1 DEF Base, Counted, Leases
    <3>2. CASE f \in own[j] /\ g \notin own[j]
      <4>1. j = i /\ g = row /\ g.gen = NextGen(i)
        BY <1>1, <3>2 DEF Leases
      <4>2. f \in Leases(seen[i])
        BY <3>2, <4>1 DEF Leases, Pins, Base, Sighted
      <4> QED
        BY <4>1, <4>2, NextGenIs
    <3>3. CASE f \notin own[j]
      <4>1. f = row
        BY <1>1, <3>3 DEF Leases
      <4> QED
        BY <1>1, <1>3, <2>2, <4>1 DEF Leases
    <3> QED
      BY <3>1, <3>2, <3>3
  <2>3. ASSUME NEW j \in Install
        PROVE  \A f, g \in Leases(own'[j]) :
                   /\ f.strand[2] \in 1 .. Cardinality(Leases(own'[j]))
                   /\ f.strand = g.strand => f = g
    <3> DEFINE L == Leases(own[j])
               n == Cardinality(L)
    <3>1. \A f, g \in L : f.strand[2] \in 1 .. n /\ (f.strand = g.strand => f = g)
      BY DEF Base, Counted
    <3>2. CASE Leases(own'[j]) = L
      BY <3>1, <3>2
    <3>3. CASE Leases(own'[j]) # L
      <4>1. j = i /\ row.kind = "lease" /\ Leases(own'[j]) = L \cup {row} /\ row \notin L
        BY <1>1, <1>3, <3>3 DEF Leases
      <4>2. row.strand[2] = 1 + n
        BY <4>1
      <4>3. IsFiniteSet(L)
        BY FactsAre, FS_Subset DEF Leases
      <4> HIDE DEF L
      <4>4. n \in Nat /\ Cardinality(Leases(own'[j])) = n + 1
        BY <4>1, <4>3, FS_CardinalityType, FS_AddElement
      <4> QED
        BY <3>1, <4>1, <4>2, <4>4
    <3> QED
      BY <3>2, <3>3
  <2> QED
    BY <1>2, <2>1, <2>2, <2>3 DEF Counted
<1>10. Sighted'
  <2>1. \A j \in Install : seen[j] \subseteq View(j) /\ own[j] \subseteq seen[j] \cup Pins(own[j])
    BY DEF Base, Sighted
  <2>2. ASSUME NEW j \in Install
        PROVE  /\ seen'[j] \subseteq View(j)'
               /\ own'[j] \subseteq seen'[j] \cup Pins(own'[j])
    <3>1. CASE j # i
      BY <1>1, <1>7, <2>1, <3>1 DEF Saw
    <3>2. CASE j = i
      <4>1. row \in View(i)' /\ own[i] \subseteq View(i)
        BY <1>1 DEF View
      <4>2. Pins(own[i]) \subseteq Pins(own'[i]) /\ (row.kind = "pin" => row \in Pins(own'[i]))
        BY <1>1 DEF Pins
      <4>3. seen[i] \subseteq seen'[i] /\ seen'[i] \subseteq View(i) \cup {row}
        BY <2>1 DEF Saw
      <4>4. row \in seen'[i] \cup Pins(own'[i])
        BY <4>2 DEF Saw
      <4>5. View(i) \subseteq View(i)' /\ own'[i] = own[i] \cup {row}
        BY <1>1, <1>7
      <4> QED
        BY <2>1, <3>2, <4>1, <4>2, <4>3, <4>4, <4>5
    <3> QED
      BY <3>1, <3>2
  <2>3. ASSUME NEW j \in Install, NEW k \in Install \ {j}, NEW f \in seen'[j] \cap own'[k],
               NEW g \in own'[k], Earlier(g, f)
        PROVE  g \in seen'[j]
    <3>1. f # row
      <4> SUFFICES ASSUME f = row PROVE FALSE
        OBVIOUS
      <4>1. k = i
        BY <1>1, <1>3
      <4>2. row \in seen[j]
        BY <2>3, <4>1 DEF Saw
      <4> QED
        BY <1>1, <4>2, FactsAre
    <3>2. f \in own[k] /\ f \in Everything
      BY <1>1, <1>3, <3>1
    <3>3. g \in own[k]
      BY <1>1, <2>3, <3>2
    <3>4. CASE seen'[j] = seen[j] \/ seen'[j] = seen[j] \cup {row}
      <4>1. f \in seen[j]
        BY <3>1, <3>4
      <4>2. g \in seen[j]
        BY <2>3, <3>2, <3>3, <4>1 DEF Base, Sighted
      <4> QED
        BY <3>4, <4>2
    <3>5. CASE seen'[j] = View(j) \cup {row}
      <4>1. f \in View(j)
        BY <3>1, <3>5
      <4>2. g \in View(j)
        BY <2>3, <3>2, <3>3, <4>1, DiskHeads
      <4> QED
        BY <3>5, <4>2
    <3> QED
      BY <3>4, <3>5 DEF Saw
  <2> QED
    BY <1>2, <2>2, <2>3 DEF Sighted
<1> QED
  BY <1>5, <1>6, <1>8, <1>9, <1>10 DEF Base

LEMMA InitBase == Init => Base
<1> SUFFICES ASSUME Init PROVE Base
  OBVIOUS
<1>1. /\ world \in Worlds /\ world.skew \in Nat
      /\ offset \in [Install -> {0, world.skew}] /\ \A i \in Install : offset[i] \in Nat
      /\ 1 \in Install
  <2>1. world \in Worlds /\ offset \in [Install -> {0, world.skew}]
    BY DEF Init
  <2>2. world.skew \in Nat /\ Installs \in Nat \ {0}
    BY <2>1, LoomsConstants
  <2>3. \A i \in Install : offset[i] \in Nat
    BY <2>1, <2>2
  <2> QED
    BY <2>1, <2>2, <2>3 DEF Install
<1> DEFINE l == LetterRow(1)
<1>2. \A i \in Install : own[i] = IF i = 1 THEN {l} ELSE {}
  BY DEF Init
<1>3. Everything = {l}
  <2>1. \A f : f \in Everything <=> \E j \in Install : f \in own[j]
    BY EverythingIs
  <2>2. \A f : f \in Everything <=> f = l
    BY <1>1, <1>2, <2>1
  <2> QED
    BY <2>2
<1>4. IsFiniteSet(Everything) /\ Cardinality(Everything) = 1
  BY <1>3, FS_Singleton
<1>5. /\ l.kind = "letter" /\ l.hlc = <<1 + offset[1], 0, 1>> /\ l.id = <<"letter">>
      /\ l.letter = letter /\ l.thread = thread /\ l.after = {}
  BY DEF LetterRow
<1> HIDE DEF l
<1>6. Time(l) = 1
  BY <1>1, <1>5 DEF Time
<1>7. Shape(l, 1)
  <2>1. l.hlc[1] = 1 + offset[1]
    BY <1>5
  <2>2. l.hlc[1] \in Nat
    BY <1>1, <2>1
  <2> QED
    BY <1>5, <1>6, <2>1, <2>2 DEF Shape
<1>8. Written
  BY <1>2, <1>3, <1>4, <1>6, <1>7 DEF Written
<1>9. Typed
  <2>1. world.skew = 0 => \A i \in Install : offset[i] = 0
    BY <1>1
  <2>2. offset \in [Install -> Nat]
    BY <1>1
  <2> QED
    BY <1>1, <2>1, <2>2 DEF Init, Typed
<1>10. Leases(Everything) = {} /\ Releases(Everything) = {} /\ Notes(Everything) = {}
  BY <1>3, <1>5 DEF Leases, Releases, Notes
<1>11. Copied
  BY DEF Init, Copied
<1>12. Heads
  <2>1. \A i \in Install : known[i] = {} /\ pushed[i] = {}
    BY DEF Init
  <2> QED
    BY <2>1 DEF Heads
<1>13. Sighted
  <2>1. \A i \in Install : seen[i] = own[i] /\ View(i) = own[i]
    BY DEF Init, View
  <2>2. \A i, j \in Install : i # j => own[i] \cap own[j] = {}
    BY <1>2
  <2> QED
    BY <2>1, <2>2 DEF Sighted
<1>14. Grounded /\ Counted
  <2>1. \A i \in Install : Leases(own[i]) = {} /\ Releases(own[i]) = {} /\ Notes(own[i]) = {}
    BY <1>2, <1>5 DEF Leases, Releases, Notes
  <2> QED
    BY <1>10, <2>1 DEF Grounded, Counted
<1> QED
  BY <1>8, <1>9, <1>11, <1>12, <1>13, <1>14 DEF Base

\* A stamp is of the install that writes it.
LEMMA StampIs ==
    ASSUME Base, NEW i \in Install
    PROVE  Stamp(i) = <<Stamp(i)[1], 0, i>> /\ Stamp(i)[1] \in Nat
<1>1. Cardinality(Everything) \in Nat /\ offset[i] \in Nat
  BY FactsAre
<1>2. Stamp(i)[1] = Cardinality(Everything) + 1 + offset[i]
  BY DEF Stamp
<1> QED
  BY <1>1, <1>2 DEF Stamp

\* acquire.
LEMMA TakeBase ==
    ASSUME Base, NEW i \in Install, Take(i)
    PROVE  Wrote(i, RouterRow(i, LastGen + 1)) /\ Base' /\ LastGen + 1 \in Gen
<1> DEFINE row == RouterRow(i, LastGen + 1)
<1>1. LastGen + 1 \in Gen
  <2>1. LastGen \in Nat
    <3>1. leader = <<>> \/ leader[2] \in Gen
      BY DEF Base, Typed
    <3> QED
      BY <3>1 DEF LastGen, Gen
  <2> QED
    BY <2>1 DEF Gen
<1>2. /\ row.kind = "router" /\ row.hlc = Stamp(i) /\ row.after = {} /\ row.gen = LastGen + 1
      /\ row.id = <<"router", LastGen + 1>>
  BY DEF RouterRow
<1>3. /\ Write(i, row) /\ UNCHANGED <<world, offset, known>>
      /\ leader' = <<i, LastGen + 1>> /\ lead' = [lead EXCEPT ![i] = LastGen + 1]
      /\ prior' = [prior EXCEPT ![i] = carried] /\ pushed' = [pushed EXCEPT ![i] = own[i]]
      /\ carried' = own[i] /\ Goes(i, View(i) \cup {row})
  BY DEF Take
<1> HIDE DEF row
<1>4. Shape(row, i) /\ Saw(i, row)
  BY <1>1, <1>2, <1>3, StampIs, GoesOn DEF Shape, Saw
<1>5. Wrote(i, row) /\ Written'
  BY <1>2, <1>3, <1>4, Writes
<1>6. Typed'
  <2>1. DOMAIN own' = Install
    BY <1>5 DEF Wrote
  <2>2. leader' \in Install \X Gen
    BY <1>1, <1>3
  <2>3. lead' \in [Install -> Nat]
    BY <1>1, <1>3 DEF Base, Typed, Gen
  <2> QED
    BY <1>3, <1>4, <2>1, <2>2, <2>3 DEF Base, Typed, Saw
<1>7. carried' \subseteq Everything
  BY <1>3, FactsAre
<1>8. \A j \in Install : /\ prior'[j] \subseteq Everything
                         /\ pushed'[j] = pushed[j] \/ pushed'[j] = own[j]
  BY <1>3 DEF Base, Copied, Typed
<1>9. Base'
  BY <1>2, <1>3, <1>4, <1>5, <1>6, <1>7, <1>8, WriteBase
<1> QED
  BY <1>1, <1>5, <1>9 DEF row

\* What only writes a row.
LEMMA RowBase ==
    ASSUME Base, NEW i \in Install, NEW row, Write(i, row), row.hlc = Stamp(i), Shape(row, i),
           UNCHANGED <<world, offset, leader, carried, lead, prior, known, pushed>>, Saw(i, row),
           row.kind = "lease" =>
               row.gen = NextGen(i) /\ row.strand = <<i, 1 + Cardinality(Leases(own[i]))>>,
           row.kind = "released" => \E f \in Leases(View(i)) :
                                        f.gen = row.gen /\ f.strand = row.strand,
           row.kind = "note" => \E f \in Leases(own[i]) :
                                    f.gen = row.gen /\ f.strand = row.strand
    PROVE  Wrote(i, row) /\ Base'
<1>1. Wrote(i, row) /\ Written'
  BY Writes
<1>2. Typed'
  BY <1>1 DEF Wrote, Saw, Base, Typed
<1>3. /\ carried' \subseteq Everything
      /\ \A j \in Install : prior'[j] \subseteq Everything /\ pushed'[j] = pushed[j]
  BY DEF Base, Copied
<1> QED
  BY <1>1, <1>2, <1>3, WriteBase

\* The thread is granted.
LEMMA GrantBase ==
    ASSUME Base, NEW i \in Install, Granted(i)
    PROVE  \E row : /\ Wrote(i, row) /\ Base' /\ row.kind = "lease" /\ row.gen = NextGen(i)
                    /\ row.rgen = IF Armed(i) THEN lead[i] ELSE NewestRouter(i)
                    /\ row.pin <=> PinnedTo(seen[i]) = i
                    /\ Goes(i, seen[i] \cup {row})
                    /\ UNCHANGED <<world, offset, leader, carried, lead, prior, known, pushed>>
<1> DEFINE s == <<i, 1 + Cardinality(Leases(own[i]))>>
           rgen == IF Armed(i) THEN lead[i] ELSE NewestRouter(i)
           row == LeaseRow(i, s, NextGen(i), rgen, PinnedTo(seen[i]) = i)
<1>1. /\ Cardinality(Leases(Everything)) < world.maxGrants
      /\ Write(i, row) /\ Goes(i, seen[i] \cup {row})
      /\ UNCHANGED <<world, offset, leader, carried, lead, prior, known, pushed>>
  BY DEF Granted
<1>2. s \in Strand /\ s[1] = i
  <2> DEFINE k == Cardinality(Leases(own[i]))
  <2>1. IsFiniteSet(Leases(Everything))
    BY FactsAre, FS_Subset DEF Leases
  <2>2. Leases(own[i]) \subseteq Leases(Everything)
    BY FactsAre DEF Leases
  <2>3. /\ k \in Nat /\ Cardinality(Leases(Everything)) \in Nat
        /\ k <= Cardinality(Leases(Everything))
    BY <2>1, <2>2, FS_Subset, FS_CardinalityType
  <2>4. world \in Worlds
    BY DEF Base, Typed
  <2>5. world.maxGrants \in Nat /\ (1 .. Installs) \X (1 .. world.maxGrants) \subseteq Strand
    BY <2>4, LoomsConstants
  <2> HIDE DEF k
  <2>6. 1 + k \in 1 .. world.maxGrants
    BY <1>1, <2>3, <2>5
  <2>7. <<i, 1 + k>> \in (1 .. Installs) \X (1 .. world.maxGrants)
    BY <2>6 DEF Install
  <2> QED
    BY <2>5, <2>7 DEF k
<1>3. /\ row.kind = "lease" /\ row.id = <<"lease", NextGen(i)>> /\ row.hlc = Stamp(i)
      /\ row.after = {} /\ row.thread = thread /\ row.strand = s /\ row.gen = NextGen(i)
      /\ row.rgen = rgen /\ (row.pin <=> PinnedTo(seen[i]) = i)
  <2> HIDE DEF s, rgen
  <2> QED
    BY DEF LeaseRow
<1> HIDE DEF row
<1>4. NextGen(i) \in Gen
  BY NextGenIs
<1>5. Shape(row, i)
  BY <1>2, <1>3, <1>4, StampIs DEF Shape
<1>6. Saw(i, row)
  BY <1>1, GoesOn DEF Saw
<1>7. Wrote(i, row) /\ Base'
  BY <1>1, <1>3, <1>5, <1>6, RowBase
<1> QED
  BY <1>1, <1>3, <1>7

\* _release and _release_abandoned: of a lease that is known here.
LEMMA ReleaseBase ==
    ASSUME Base, NEW i \in Install, NEW f \in Leases(View(i)),
           Write(i, ReleasedRow(i, f.strand, f.gen)), Saw(i, ReleasedRow(i, f.strand, f.gen)),
           UNCHANGED <<world, offset, leader, carried, lead, prior, known, pushed>>
    PROVE  \E row : /\ Wrote(i, row) /\ Base' /\ Saw(i, row)
                    /\ row.kind = "released" /\ row.strand = f.strand /\ row.gen = f.gen
<1> DEFINE row == ReleasedRow(i, f.strand, f.gen)
<1>1. f.strand \in Strand /\ f.gen \in Gen
  <2>1. PICK j \in Install : Shape(f, j)
    BY FactsAre DEF Leases
  <2> QED
    BY <2>1 DEF Shape, Leases
<1>2. /\ row.kind = "released" /\ row.id = <<"released", f.gen>> /\ row.hlc = Stamp(i)
      /\ row.after = {} /\ row.thread = thread /\ row.strand = f.strand /\ row.gen = f.gen
  BY DEF ReleasedRow
<1>3. Write(i, row) /\ Saw(i, row)
  OBVIOUS
<1> HIDE DEF row
<1>4. Shape(row, i)
  BY <1>1, <1>2, StampIs DEF Shape
<1>5. Wrote(i, row) /\ Base'
  BY <1>2, <1>3, <1>4, RowBase
<1> QED
  BY <1>2, <1>3, <1>5

LEMMA NoteBase ==
    ASSUME Base, NEW i \in Install, NEW f \in Leases(own[i]), IngestNote(i, f)
    PROVE  \E row : /\ Wrote(i, row) /\ Base' /\ Saw(i, row)
                    /\ row.kind = "note" /\ row.strand = f.strand /\ row.gen = f.gen
                    /\ UNCHANGED <<world, offset, leader, carried, lead, prior, known, pushed>>
<1> DEFINE row == NoteRow(i, f.strand, f.gen)
<1>1. f.strand \in Strand /\ f.gen \in Gen
  <2>1. Shape(f, i)
    BY FactsAre DEF Leases
  <2> QED
    BY <2>1 DEF Shape, Leases
<1>2. /\ row.kind = "note" /\ row.id = <<"note", f.strand>> /\ row.hlc = Stamp(i)
      /\ row.after = {} /\ row.strand = f.strand /\ row.gen = f.gen /\ row.re = letter
  BY DEF NoteRow
<1>3. /\ Write(i, row) /\ Goes(i, seen[i] \cup {row})
      /\ UNCHANGED <<world, offset, leader, carried, lead, prior, known, pushed>>
  BY DEF IngestNote
<1> HIDE DEF row
<1>4. Shape(row, i)
  BY <1>1, <1>2, StampIs DEF Shape
<1>5. Saw(i, row)
  BY <1>3, GoesOn DEF Saw
<1>6. Wrote(i, row) /\ Base'
  BY <1>2, <1>3, <1>4, <1>5, RowBase
<1> QED
  BY <1>2, <1>3, <1>5, <1>6

LEMMA PinBase ==
    ASSUME Base, NEW i \in Install, Pin(i)
    PROVE  Base'
<1>1. PICK to \in Install \cup {0} : Write(i, PinRow(i, to))
  BY DEF Pin
<1> DEFINE row == PinRow(i, to)
<1>2. /\ row.kind = "pin" /\ row.id[1] = "pin" /\ row.hlc = Stamp(i) /\ row.after = {}
  BY DEF PinRow
<1>3. /\ Write(i, row)
      /\ UNCHANGED <<world, offset, leader, carried, lead, prior, known, seen, pushed>>
  BY <1>1 DEF Pin
<1> HIDE DEF row
<1>4. Shape(row, i)
  BY <1>2, StampIs DEF Shape
<1>5. Saw(i, row)
  BY <1>2, <1>3 DEF Saw, Base, Typed
<1> QED
  BY <1>2, <1>3, <1>4, <1>5, RowBase

\* A tick reads what was on disk, or goes by what it read.
Looked ==
    /\ DOMAIN seen' = Install
    /\ \A j \in Install : seen'[j] = seen[j] \/ seen'[j] = View(j)

\* Steps that write nothing, and forget nothing.
LEMMA QuietBase ==
    ASSUME Base, UNCHANGED <<world, offset, own>>, Typed', Copied', Heads', Looked,
           \A j \in Install : known[j] \subseteq known'[j]
    PROVE  Base'
<1>1. /\ \A f, g : Earlier(f, g)' <=> Earlier(f, g)
      /\ \A f : Time(f)' = Time(f)
      /\ \A f, j : Shape(f, j)' <=> Shape(f, j)
  BY Fixed
<1>2. Everything' = Everything
  BY DEF Everything
<1>3. Written'
  BY <1>1, <1>2 DEF Base, Written
<1>4. Counted'
  BY <1>1, <1>2 DEF Base, Counted
<1>5. \A j \in Install : Leases(View(j)) \subseteq Leases(View(j)')
  BY DEF View, Leases
<1>6. Grounded'
  <2>1. ASSUME NEW j \in Install, NEW r \in Releases(own'[j])
        PROVE  \E f \in Leases(View(j)') :
                   f.gen = r.gen /\ f.strand = r.strand /\ Earlier(f, r)
    BY <1>5 DEF Base, Grounded
  <2>2. \A j \in Install : \A n \in Notes(own'[j]) : \E f \in Leases(own'[j]) :
            f.gen = n.gen /\ f.strand = n.strand /\ Earlier(f, n)
    BY DEF Base, Grounded
  <2> QED
    BY <1>1, <2>1, <2>2 DEF Grounded
<1>7. Sighted'
  <2>1. \A j \in Install : /\ seen[j] \subseteq View(j) /\ View(j) \subseteq View(j)'
                           /\ own[j] \subseteq seen[j] \cup Pins(own[j]) /\ own[j] \subseteq View(j)
    BY DEF Base, Sighted, View
  <2>2. ASSUME NEW j \in Install
        PROVE  /\ seen'[j] \subseteq View(j)'
               /\ own'[j] \subseteq seen'[j] \cup Pins(own'[j])
    BY <2>1 DEF Looked
  <2>3. ASSUME NEW j \in Install, NEW k \in Install \ {j}, NEW f \in seen'[j] \cap own[k],
               NEW g \in own[k], Earlier(g, f)
        PROVE  g \in seen'[j]
    <3>1. CASE seen'[j] = seen[j]
      BY <2>3, <3>1 DEF Base, Sighted
    <3>2. CASE seen'[j] = View(j)
      BY <2>3, <3>2, DiskHeads
    <3> QED
      BY <3>1, <3>2 DEF Looked
  <2> QED
    BY <1>1, <2>2, <2>3 DEF Sighted
<1> QED
  BY <1>3, <1>4, <1>6, <1>7 DEF Base

LEMMA StepDownBase == ASSUME Base, NEW i \in Install, StepDown(i) PROVE Base'
<1>1. /\ UNCHANGED <<world, offset, own, leader, carried, prior, known, seen, pushed>>
      /\ lead' = [lead EXCEPT ![i] = 0]
  BY DEF StepDown
<1>2. Typed'
  BY <1>1 DEF Base, Typed
<1>3. Copied'
  BY <1>1 DEF Base, Copied, Everything
<1>4. Heads'
  BY <1>1, Fixed DEF Base, Heads
<1>5. Looked
  BY <1>1 DEF Looked, Base, Typed
<1> QED
  BY <1>1, <1>2, <1>3, <1>4, <1>5, QuietBase

LEMMA PushBase == ASSUME Base, NEW i \in Install, PushLedger(i) PROVE Base'
<1>1. /\ UNCHANGED <<world, offset, own, leader, lead, prior, known>>
      /\ pushed' = [pushed EXCEPT ![i] = own[i]]
      /\ carried' = own[i] \/ carried' = carried
  BY DEF PushLedger
<1>2. Typed' /\ Looked
  <2>1. Goes(i, View(i))
    BY DEF PushLedger
  <2> QED
    BY <1>1, <2>1, GoesOn DEF Base, Typed, Looked
<1>3. \A j \in Install : pushed'[j] = pushed[j] \/ pushed'[j] = own[j]
  BY <1>1 DEF Base, Typed
<1>4. Everything' = Everything
  BY <1>1 DEF Everything
<1>5. Copied'
  <2>1. own[i] \subseteq Everything
    BY FactsAre
  <2> QED
    BY <1>1, <1>3, <1>4, <2>1 DEF Base, Copied
<1>6. Heads'
  <2>1. \A f, g : Earlier(f, g)' <=> Earlier(f, g)
    BY <1>1, Fixed
  <2>2. ASSUME NEW j \in Install, NEW f \in pushed'[j], NEW g \in own[j], Earlier(g, f)
        PROVE  g \in pushed'[j]
    BY <1>3, <2>2 DEF Base, Heads
  <2>3. \A j, k \in Install : \A f \in known[j] \cap own[k] :
            j # k /\ \A g \in own[k] : Earlier(g, f) => g \in known[j]
    BY DEF Base, Heads
  <2> QED
    BY <1>1, <2>1, <2>2, <2>3 DEF Heads
<1> QED
  BY <1>1, <1>2, <1>5, <1>6, QuietBase

\* What was pushed by another is a head of its ledger.
LEMMA SyncBase ==
    ASSUME Base, NEW i \in Install, NEW peers \in SUBSET (Install \ {i}), Sync(i, peers)
    PROVE  Base'
<1> DEFINE got == UNION {pushed[j] : j \in peers}
<1>1. /\ UNCHANGED <<world, offset, own, leader, carried, lead, prior, pushed>>
      /\ known' = [known EXCEPT ![i] = known[i] \cup got]
      /\ Goes(i, View(i))
  BY DEF Sync
<1>2. Typed' /\ Looked
  BY <1>1, GoesOn DEF Base, Typed, Looked
<1>3. \A k \in Install : known'[k] = IF k = i THEN known[k] \cup got ELSE known[k]
  BY <1>1 DEF Base, Typed
<1>4. Everything' = Everything
  BY <1>1 DEF Everything
<1>5. \A j \in Install : pushed[j] \subseteq own[j] /\ own[j] \subseteq Everything
  BY FactsAre DEF Base, Copied
<1> HIDE DEF got
<1>6. Copied'
  <2>1. got \subseteq Everything
    BY <1>5 DEF got
  <2> QED
    BY <1>1, <1>3, <1>4, <2>1 DEF Base, Copied
<1>7. \A k, m \in Install : \A f \in own[k] : f \in own[m] => k = m
  <2>1. \A k \in Install : \A f \in own[k] : f.hlc[3] = k
    BY FactsAre DEF Shape
  <2> QED
    BY <2>1
<1>8. Heads'
  <2>1. \A f, g : Earlier(f, g)' <=> Earlier(f, g)
    BY <1>1, Fixed
  <2>2. ASSUME NEW k \in Install, NEW m \in Install, NEW f \in known'[k] \cap own[m]
        PROVE  k # m /\ \A g \in own[m] : Earlier(g, f) => g \in known'[k]
    <3>1. CASE f \in known[k]
      BY <1>3, <3>1 DEF Base, Heads
    <3>2. CASE f \notin known[k]
      <4>1. k = i /\ f \in got
        BY <1>3, <3>2
      <4>2. PICK j \in peers : f \in pushed[j]
        BY <4>1 DEF got
      <4>3. m = j
        BY <1>5, <1>7, <4>2
      <4>4. \A g \in own[j] : Earlier(g, f) => g \in pushed[j]
        BY <4>2 DEF Base, Heads
      <4>5. pushed[j] \subseteq got
        BY DEF got
      <4> QED
        BY <1>1, <1>3, <4>1, <4>3, <4>4, <4>5
    <3> QED
      BY <3>1, <3>2
  <2>3. \A k \in Install : \A f \in pushed[k] : \A g \in own[k] :
            Earlier(g, f) => g \in pushed[k]
    BY DEF Base, Heads
  <2> QED
    BY <1>1, <2>1, <2>2, <2>3 DEF Heads
<1> QED
  BY <1>1, <1>2, <1>3, <1>6, <1>8, QuietBase

\* A release is of the strand that holds the thread, as far as its writer has read,
\* by a lease of its own or of another that it has read.
LEMMA StepReleases ==
    ASSUME Base, NEW i \in Install, Release(i) \/ Abandon(i)
    PROVE  \E row, f : /\ Wrote(i, row) /\ Base' /\ Saw(i, row)
                       /\ row.kind = "released" /\ SameGrant(row, f)
                       /\ \/ f \in Leases(own[i]) /\ Fold(View(i)).holder[thread] = <<f.strand, f.gen>>
                          \/ /\ f \in Leases(seen[i]) \ own[i] /\ Armed(i)
                             /\ Fold(seen[i]).holder[thread] = <<f.strand, f.gen>>
<1>1. UNCHANGED <<world, offset, leader, carried, lead, prior, known, pushed>>
  BY DEF Release, Abandon
<1>2. CASE Release(i)
  <2>1. PICK f \in Leases(own[i]) : /\ Write(i, ReleasedRow(i, f.strand, f.gen))
                                   /\ Fold(View(i)).holder[thread] = <<f.strand, f.gen>>
                                   /\ Goes(i, View(i) \cup {ReleasedRow(i, f.strand, f.gen)})
    BY <1>2 DEF Release
  <2>2. f \in Leases(View(i)) /\ Saw(i, ReleasedRow(i, f.strand, f.gen))
    BY <2>1, GoesOn DEF Leases, View, Saw
  <2>3. \E row : /\ Wrote(i, row) /\ Base' /\ Saw(i, row)
                 /\ row.kind = "released" /\ row.strand = f.strand /\ row.gen = f.gen
    BY <1>1, <2>1, <2>2, ReleaseBase
  <2> QED
    BY <2>1, <2>3 DEF SameGrant
<1>3. CASE Abandon(i)
  <2>1. Armed(i) /\ \E f \in Leases(seen[i] \ own[i]) :
            /\ Write(i, ReleasedRow(i, f.strand, f.gen))
            /\ Fold(seen[i]).holder[thread] = <<f.strand, f.gen>>
            /\ Goes(i, seen[i] \cup {ReleasedRow(i, f.strand, f.gen)})
    BY <1>3 DEF Abandon
  <2>2. PICK f \in Leases(seen[i] \ own[i]) :
            /\ Write(i, ReleasedRow(i, f.strand, f.gen))
            /\ Fold(seen[i]).holder[thread] = <<f.strand, f.gen>>
            /\ Goes(i, seen[i] \cup {ReleasedRow(i, f.strand, f.gen)})
    BY <2>1
  <2>3. f \in Leases(View(i)) /\ Saw(i, ReleasedRow(i, f.strand, f.gen))
    BY <2>2, GoesOn DEF Leases, Saw, Base, Sighted
  <2>4. \E row : /\ Wrote(i, row) /\ Base' /\ Saw(i, row)
                 /\ row.kind = "released" /\ row.strand = f.strand /\ row.gen = f.gen
    BY <1>1, <2>2, <2>3, ReleaseBase
  <2>5. f \in Leases(seen[i]) \ own[i]
    BY DEF Leases
  <2> QED
    BY <2>1, <2>2, <2>4, <2>5 DEF SameGrant
<1> QED
  BY <1>2, <1>3

LEMMA StepBase == Base /\ [Next]_vars => Base'
<1> SUFFICES ASSUME Base, [Next]_vars PROVE Base'
  OBVIOUS
<1>1. ASSUME NEW i \in Install, Take(i) PROVE Base'
  BY <1>1, TakeBase
<1>2. ASSUME NEW i \in Install, StepDown(i) PROVE Base'
  BY <1>2, StepDownBase
<1>3. ASSUME NEW i \in Install, PushLedger(i) PROVE Base'
  BY <1>3, PushBase
<1>4. ASSUME NEW i \in Install, Grant(i) PROVE Base'
  BY <1>4, GrantBase DEF Grant
<1>5. ASSUME NEW i \in Install, Release(i) \/ Abandon(i) PROVE Base'
  BY <1>5, StepReleases
<1>7. ASSUME NEW i \in Install, Pin(i) PROVE Base'
  BY <1>7, PinBase
<1>8. ASSUME NEW i \in Install, NEW peers \in SUBSET (Install \ {i}), Sync(i, peers) PROVE Base'
  BY <1>8, SyncBase
<1>9. ASSUME NEW i \in Install, NEW f \in Leases(own[i]), IngestNote(i, f) PROVE Base'
  BY <1>9, NoteBase
<1>10. ASSUME UNCHANGED <<world, offset, leader, carried, lead, prior, own, known, pushed>>,
              Looked
       PROVE  Base'
  <2>1. Typed' /\ Copied'
    BY <1>10 DEF Base, Typed, Copied, Everything, Looked
  <2>2. Heads'
    BY <1>10, Fixed DEF Base, Heads
  <2> QED
    BY <1>10, <2>1, <2>2, QuietBase
<1>11. ASSUME NEW i \in Install, Read(i) \/ StartBody(i) PROVE Base'
  <2>1. /\ Goes(i, View(i))
        /\ UNCHANGED <<world, offset, leader, carried, lead, prior, own, known, pushed>>
    BY <1>11 DEF Read, StartBody
  <2>2. Looked
    BY <2>1, GoesOn DEF Looked
  <2> QED
    BY <1>10, <2>1, <2>2
<1>12. ASSUME UNCHANGED <<world, offset, leader, carried, lead, prior, own, known, seen, pushed>>
       PROVE  Base'
  BY <1>10, <1>12 DEF Looked, Base, Typed
<1>13. ASSUME NEW s \in alive, Exit(s) PROVE Base'
  BY <1>12, <1>13 DEF Exit
<1>14. CASE UNCHANGED vars
  BY <1>12, <1>14 DEF vars
<1> QED
  BY <1>1, <1>2, <1>3, <1>4, <1>5, <1>7, <1>8, <1>9, <1>11, <1>13, <1>14 DEF Next

-----------------------------------------------------------------------------
(* One router at a time *)

LEMMA Unpinned ==
    ASSUME Base, Routed, NEW i \in Install
    PROVE  PinnedTo(seen[i]) = 0 /\ 0 # i
<1>1. Pins(seen[i]) = {}
  BY FactsAre DEF Routed, Pins
<1> QED
  BY <1>1 DEF PinnedTo, Install

\* Steps that write nothing, and give nobody authority.
LEMMA QuietRouted ==
    ASSUME Routed, UNCHANGED <<offset, own, leader>>,
           \A j \in Install : lead'[j] # 0 => lead'[j] = lead[j]
    PROVE  Routed'
<1>1. \A f, g : Earlier(f, g)' <=> Earlier(f, g)
  BY Fixed
<1>2. Everything' = Everything /\ LastGen' = LastGen
  BY DEF Everything, LastGen
<1> QED
  BY <1>1, <1>2 DEF Routed

\* Releases and notes.
LEMMA PlainRouted ==
    ASSUME Base, Routed, NEW i \in Install, NEW row, Wrote(i, row), row.kind \in {"released", "note"},
           UNCHANGED <<offset, leader, lead>>
    PROVE  Routed'
<1>1. \A f, g : Earlier(f, g)' <=> Earlier(f, g)
  BY Fixed
<1>2. /\ Everything' = Everything \cup {row} /\ LastGen' = LastGen
      /\ \A j \in Install : own'[j] = IF j = i THEN own[j] \cup {row} ELSE own[j]
  BY DEF Wrote, LastGen
<1>3. /\ Pins(Everything') = Pins(Everything) /\ Routers(Everything') = Routers(Everything)
      /\ \A j \in Install : /\ Routers(own'[j]) = Routers(own[j])
                            /\ Leases(own'[j]) = Leases(own[j])
  BY <1>2 DEF Pins, Routers, Leases
<1> QED
  BY <1>1, <1>2, <1>3 DEF Routed

\* A lease is stamped with the gen of the one that leads.
LEMMA GrantRouted ==
    ASSUME Base, Routed, NEW i \in Install, NEW row, Wrote(i, row), row.kind = "lease",
           lead[i] # 0, row.rgen = lead[i], ~row.pin,
           UNCHANGED <<offset, leader, lead>>
    PROVE  Routed'
<1>1. \A f, g : Earlier(f, g)' <=> Earlier(f, g)
  BY Fixed
<1>2. /\ Everything' = Everything \cup {row} /\ LastGen' = LastGen
      /\ \A j \in Install : own'[j] = IF j = i THEN own[j] \cup {row} ELSE own[j]
      /\ \A f \in Everything : Earlier(f, row) /\ ~Earlier(row, f)
  BY DEF Wrote, LastGen
<1>3. /\ Pins(Everything') = Pins(Everything) /\ Routers(Everything') = Routers(Everything)
      /\ \A j \in Install : Routers(own'[j]) = Routers(own[j])
  BY <1>2 DEF Pins, Routers
<1>4. \A j \in Install : own[j] \subseteq Everything
  BY FactsAre
<1>5. /\ Pins(Everything) = {}
      /\ leader = <<i, lead[i]>> /\ \E r \in Routers(own[i]) : r.gen = lead[i]
      /\ \A r \in Routers(Everything) : r.gen <= LastGen
  BY DEF Routed
<1>6. LastGen = lead[i]
  BY <1>5 DEF LastGen
<1>7. ASSUME NEW j \in Install, NEW f \in Leases(own'[j])
      PROVE  /\ ~f.pin
             /\ \E r \in Routers(own[j]) : r.gen = f.rgen /\ Earlier(r, f)
             /\ \A r \in Routers(Everything) : Earlier(r, f) => r.gen <= f.rgen
  <2>1. CASE f \in own[j]
    BY <2>1 DEF Routed, Leases
  <2>2. CASE f \notin own[j]
    <3>1. j = i /\ f = row
      BY <1>2, <2>2 DEF Leases
    <3>2. \A r \in Routers(own[i]) : Earlier(r, row)
      BY <1>2, <1>4 DEF Routers
    <3> QED
      BY <1>5, <1>6, <3>1, <3>2
  <2> QED
    BY <2>1, <2>2
<1> QED
  BY <1>1, <1>2, <1>3, <1>7 DEF Routed

\* The router before is out of authority, and the new one is of a higher gen.
LEMMA TakeRouted ==
    ASSUME Base, Alone, Routed, NEW i \in Install, Take(i)
    PROVE  Routed'
<1> DEFINE row == RouterRow(i, LastGen + 1)
<1>1. /\ Wrote(i, row) /\ LastGen + 1 \in Gen
  BY TakeBase
<1>2. row.kind = "router" /\ row.gen = LastGen + 1
  BY DEF RouterRow
<1> HIDE DEF row
<1>3. /\ Everything' = Everything \cup {row}
      /\ \A j \in Install : own'[j] = IF j = i THEN own[j] \cup {row} ELSE own[j]
      /\ \A f \in Everything : Earlier(f, row) /\ ~Earlier(row, f)
      /\ ~Earlier(row, row)
  BY <1>1 DEF Wrote
<1>4. /\ leader' = <<i, LastGen + 1>> /\ lead' = [lead EXCEPT ![i] = LastGen + 1]
      /\ UNCHANGED offset /\ \A j \in Install : lead[j] = 0
  BY DEF Take, MayTake, Alone
<1>5. \A f, g : Earlier(f, g)' <=> Earlier(f, g)
  BY <1>4, Fixed
<1>6. LastGen' = LastGen + 1 /\ LastGen \in Int
  <2>1. leader' # <<>> /\ leader'[2] = LastGen + 1
    BY <1>4
  <2>2. leader = <<>> \/ leader[2] \in Gen
    BY DEF Base, Typed
  <2> QED
    BY <2>1, <2>2 DEF LastGen, Gen
<1>7. \A j \in Install : own[j] \subseteq Everything
  BY FactsAre
<1>8. \A r \in Routers(Everything) : r.gen <= LastGen /\ r.gen \in Int
  <2>1. \A r \in Routers(Everything) : \E j \in Install : Shape(r, j)
    BY FactsAre DEF Routers
  <2> QED
    BY <2>1 DEF Routed, Shape, Routers, Gen
<1>9. Pins(Everything') = {}
  BY <1>2, <1>3 DEF Pins, Routed
<1>10. ASSUME NEW j \in Install, lead'[j] # 0
       PROVE  leader' = <<j, lead'[j]>> /\ \E r \in Routers(own'[j]) : r.gen = lead'[j]
  <2>1. j = i /\ lead'[j] = LastGen + 1
    BY <1>4, <1>10 DEF Base, Typed
  <2>2. row \in Routers(own'[i])
    BY <1>2, <1>3 DEF Routers
  <2> QED
    BY <1>2, <1>4, <2>1, <2>2
<1>11. Routers(Everything') = Routers(Everything) \cup {row}
  BY <1>2, <1>3 DEF Routers
<1>12. \A r \in Routers(Everything') : r.gen <= LastGen'
  BY <1>2, <1>6, <1>8, <1>11
<1>13. \A r, q \in Routers(Everything') : Earlier(r, q) => r.gen < q.gen
  <2>1. \A r, q \in Routers(Everything) : Earlier(r, q) => r.gen < q.gen
    BY DEF Routed
  <2>2. \A r \in Routers(Everything) : r.gen < row.gen /\ ~Earlier(row, r)
    BY <1>2, <1>3, <1>6, <1>8 DEF Routers
  <2> QED
    BY <1>3, <1>11, <2>1, <2>2
<1>14. ASSUME NEW j \in Install, NEW f \in Leases(own'[j])
       PROVE  /\ ~f.pin
              /\ \E r \in Routers(own'[j]) : r.gen = f.rgen /\ Earlier(r, f)
              /\ \A r \in Routers(Everything') : Earlier(r, f) => r.gen <= f.rgen
  <2>1. f \in Leases(own[j]) /\ f \in Everything
    BY <1>2, <1>3, <1>7 DEF Leases
  <2>2. Routers(own[j]) \subseteq Routers(own'[j])
    BY <1>3 DEF Routers
  <2>3. /\ ~f.pin
        /\ \E r \in Routers(own[j]) : r.gen = f.rgen /\ Earlier(r, f)
        /\ \A r \in Routers(Everything) : Earlier(r, f) => r.gen <= f.rgen
    BY <2>1 DEF Routed
  <2> QED
    BY <1>3, <1>11, <2>1, <2>2, <2>3
<1> QED
  BY <1>5, <1>9, <1>10, <1>12, <1>13, <1>14 DEF Routed

LEMMA SameWorld == [Next]_vars => world' = world
  BY DEF Next, vars, Read, Take, StepDown, PushLedger, Sync, Grant, Granted, StartBody, Pin,
     IngestNote, Exit, Release, Abandon

LEMMA StepRouted == Base /\ Alone /\ Routed /\ [Next]_vars => Routed'
<1> SUFFICES ASSUME Base, Alone, Routed, [Next]_vars PROVE Routed'
  OBVIOUS
<1>1. ASSUME NEW i \in Install, Take(i) PROVE Routed'
  BY <1>1, TakeRouted
<1>2. ASSUME NEW i \in Install, StepDown(i) PROVE Routed'
  <2>1. UNCHANGED <<offset, own, leader>> /\ lead' = [lead EXCEPT ![i] = 0]
    BY <1>2 DEF StepDown
  <2>2. \A j \in Install : lead'[j] # 0 => lead'[j] = lead[j]
    BY <2>1 DEF Base, Typed
  <2> QED
    BY <2>1, <2>2, QuietRouted
<1>3. ASSUME NEW i \in Install, Grant(i) PROVE Routed'
  <2>1. PinnedTo(seen[i]) = 0 /\ 0 # i
    BY Unpinned
  <2>2. Armed(i) /\ lead[i] # 0 /\ Granted(i)
    BY <1>3, <2>1 DEF Grant, MayGrant, Armed
  <2>3. PICK row : /\ Wrote(i, row) /\ row.kind = "lease"
                   /\ row.rgen = IF Armed(i) THEN lead[i] ELSE NewestRouter(i)
                   /\ row.pin <=> PinnedTo(seen[i]) = i
                   /\ UNCHANGED <<offset, leader, lead>>
    BY <2>2, GrantBase
  <2>4. ~row.pin
    BY <2>1, <2>3
  <2> QED
    BY <2>2, <2>3, <2>4, GrantRouted
<1>4. ASSUME NEW i \in Install, Release(i) \/ Abandon(i) PROVE Routed'
  <2>1. PICK row : Wrote(i, row) /\ row.kind = "released"
    BY <1>4, StepReleases
  <2>2. UNCHANGED <<offset, leader, lead>>
    BY <1>4 DEF Release, Abandon
  <2> QED
    BY <2>1, <2>2, PlainRouted
<1>5. ASSUME NEW i \in Install, Pin(i) PROVE FALSE
  <2>1. Pins(Everything) = {} /\ Cardinality(Pins(Everything)) < 0
    BY <1>5 DEF Pin, Alone, Routed
  <2> QED
    BY <2>1, FS_EmptySet
<1>8. ASSUME NEW i \in Install, NEW f \in Leases(own[i]), IngestNote(i, f) PROVE Routed'
  <2>1. PICK row : Wrote(i, row) /\ row.kind = "note"
    BY <1>8, NoteBase
  <2>2. UNCHANGED <<offset, leader, lead>>
    BY <1>8 DEF IngestNote
  <2> QED
    BY <2>1, <2>2, PlainRouted
<1>9. ASSUME UNCHANGED <<offset, own, leader, lead>> PROVE Routed'
  BY <1>9, QuietRouted
<1>10. ASSUME NEW i \in Install,
              \/ PushLedger(i) \/ Read(i) \/ StartBody(i)
              \/ \E peers \in SUBSET (Install \ {i}) : Sync(i, peers)
       PROVE  Routed'
  BY <1>9, <1>10 DEF PushLedger, Read, StartBody, Sync
<1>11. ASSUME NEW s \in alive, Exit(s) PROVE Routed'
  BY <1>9, <1>11 DEF Exit
<1>12. CASE UNCHANGED vars
  BY <1>9, <1>12 DEF vars
<1> QED
  BY <1>1, <1>2, <1>3, <1>4, <1>5, <1>8, <1>10, <1>11, <1>12 DEF Next

-----------------------------------------------------------------------------
(* The order in which leases count *)

\* Accepted facts are some of those done, in the order of their stamps.
TellsOrder(st, done) ==
    /\ \A n \in 1 .. Len(st.accepted) : st.accepted[n] \in done
    /\ \A n \in 1 .. Len(st.accepted) : \A m \in 1 .. n - 1 :
          Before(st.accepted[m], st.accepted[n])

\* They are of newer and newer routers.
TellsGens(st) ==
    \A n \in 1 .. Len(st.accepted) : st.accepted[n].kind = "lease" =>
        /\ st.accepted[n].rgen \in Nat /\ st.accepted[n].rgen <= st.newest
        /\ \A m \in 1 .. n - 1 :
              st.accepted[m].kind = "lease" => st.accepted[m].rgen <= st.accepted[n].rgen

Kinds == {"router", "lease", "released", "letter", "note", "pin"}

\* A row is accepted last or not at all.
LEMMA Accepts ==
    ASSUME NEW facts, NEW st \in State(facts), NEW f \in facts, RowOK(f), f.kind \in Kinds
    PROVE  LET after == Apply(st, f) IN
           /\ \/ after.accepted = st.accepted
              \/ /\ after.accepted = Append(st.accepted, f) /\ after.newest = st.newest
                 /\ f.kind = "lease" => LeaseAccepted(st, f)
           /\ st.newest \in Nat /\ after.newest \in Nat /\ st.newest <= after.newest
<1> DEFINE after == Apply(st, f)
<1>1. CASE f.kind = "router"
  <2>1. after = IF f.gen > st.newest THEN [st EXCEPT !.newest = f.gen] ELSE st
    BY <1>1 DEF Apply, Router
  <2>2. f.gen \in Nat /\ st.newest \in Nat
    BY <1>1 DEF RowOK, State
  <2>3. /\ after.newest = IF f.gen > st.newest THEN f.gen ELSE st.newest
        /\ after.accepted = st.accepted
    BY <2>1 DEF State
  <2> HIDE DEF after
  <2>4. after.newest \in Nat /\ st.newest <= after.newest
    BY <2>2, <2>3
  <2> QED
    BY <2>2, <2>3, <2>4 DEF after
<1>2. CASE f.kind = "lease"
  <2>1. after = Lease(st, f)
    BY <1>2 DEF Apply
  <2>2. /\ after.newest = st.newest
        /\ \/ after.accepted = st.accepted
           \/ after.accepted = Append(st.accepted, f) /\ LeaseAccepted(st, f)
    <3>1. CASE LeaseAccepted(st, f)
      BY <2>1, <3>1 DEF Lease, State
    <3>2. CASE ~LeaseAccepted(st, f)
      BY <2>1, <3>2 DEF Lease
    <3> QED
      BY <3>1, <3>2
  <2>3. st.newest \in Nat
    BY DEF State
  <2> QED
    BY <2>2, <2>3
<1>3. CASE f.kind = "released"
  <2>1. after = Released(st, f)
    BY <1>3 DEF Apply
  <2>2. /\ after.newest = st.newest
        /\ after.accepted = st.accepted \/ after.accepted = Append(st.accepted, f)
    BY <2>1 DEF Released, State
  <2>3. st.newest \in Nat
    BY DEF State
  <2> QED
    BY <1>3, <2>2, <2>3
<1>4. CASE f.kind \in {"letter", "note", "pin"}
  <2>1. after = Placed(st, f) \/ after = Note(st, f) \/ after = st
    BY <1>4 DEF Apply
  <2>2. after.newest = st.newest /\ after.accepted = st.accepted
    BY <2>1 DEF Placed, Note, Mark, State
  <2>3. st.newest \in Nat
    BY DEF State
  <2> QED
    BY <2>2, <2>3
<1> QED
  BY <1>1, <1>2, <1>3, <1>4 DEF Kinds

LEMMA AcceptsInOrder ==
    ASSUME NEW facts, NEW st \in State(facts), NEW f \in facts, RowOK(f), f.kind \in Kinds,
           NEW done, \A g \in done : Before(g, f), TellsOrder(st, done)
    PROVE  /\ TellsOrder(Apply(st, f), done \cup {f})
           /\ TellsGens(st) /\ (\A g \in facts : g.kind = "lease" => ~g.pin)
                => TellsGens(Apply(st, f))
<1> DEFINE after == Apply(st, f)
           acc == st.accepted
           N == Len(acc)
<1>1. acc \in Seq(facts) /\ N \in Nat /\ \A n \in 1 .. N : acc[n] \in facts
  BY DEF State
<1>2. /\ \/ after.accepted = acc
         \/ /\ after.accepted = Append(acc, f) /\ after.newest = st.newest
            /\ f.kind = "lease" => LeaseAccepted(st, f)
      /\ st.newest \in Nat /\ after.newest \in Nat /\ st.newest <= after.newest
  BY Accepts
<1>3. /\ \A n \in 1 .. N : acc[n] \in done
      /\ \A n \in 1 .. N : \A m \in 1 .. n - 1 : Before(acc[m], acc[n])
  BY DEF TellsOrder
<1> HIDE DEF after
<1>4. CASE after.accepted = acc
  <2>1. TellsOrder(after, done \cup {f})
    BY <1>3, <1>4 DEF TellsOrder
  <2>2. ASSUME TellsGens(st), NEW n \in 1 .. N, acc[n].kind = "lease"
        PROVE  /\ acc[n].rgen \in Nat /\ acc[n].rgen <= after.newest
               /\ \A m \in 1 .. n - 1 : acc[m].kind = "lease" => acc[m].rgen <= acc[n].rgen
    <3>1. /\ acc[n].rgen \in Nat /\ acc[n].rgen <= st.newest
          /\ \A m \in 1 .. n - 1 : acc[m].kind = "lease" => acc[m].rgen <= acc[n].rgen
      BY <2>2 DEF TellsGens
    <3> QED
      BY <1>2, <3>1
  <2> QED
    BY <1>4, <2>1, <2>2 DEF TellsGens, after
<1>5. CASE /\ after.accepted = Append(acc, f) /\ after.newest = st.newest
           /\ f.kind = "lease" => LeaseAccepted(st, f)
  <2> DEFINE new == after.accepted
  <2>1. /\ Len(new) = N + 1 /\ new[N + 1] = f /\ \A n \in 1 .. N : new[n] = acc[n]
    BY <1>1, <1>5
  <2> HIDE DEF N, acc, new
  <2>2. \A n \in 1 .. N + 1 : n = N + 1 \/ n \in 1 .. N
    BY <1>1
  <2>3. \A n \in 1 .. N + 1 : \A m \in 1 .. n - 1 : m \in 1 .. N
    BY <1>1
  <2>4. \A n \in 1 .. N + 1 : new[n] \in done \cup {f}
    BY <1>3, <2>1, <2>2
  <2>5. \A n \in 1 .. N + 1 : \A m \in 1 .. n - 1 : Before(new[m], new[n])
    <3> SUFFICES ASSUME NEW n \in 1 .. N + 1, NEW m \in 1 .. n - 1 PROVE Before(new[m], new[n])
      OBVIOUS
    <3>1. m \in 1 .. N /\ new[m] = acc[m] /\ acc[m] \in done
      BY <1>3, <2>1, <2>3
    <3> QED
      BY <1>3, <2>1, <2>2, <3>1
  <2>6. TellsOrder(after, done \cup {f})
    BY <2>1, <2>4, <2>5 DEF TellsOrder, new
  <2>7. ASSUME TellsGens(st), \A g \in facts : g.kind = "lease" => ~g.pin,
               NEW n \in 1 .. N + 1, new[n].kind = "lease"
        PROVE  /\ new[n].rgen \in Nat /\ new[n].rgen <= st.newest
               /\ \A m \in 1 .. n - 1 : new[m].kind = "lease" => new[m].rgen <= new[n].rgen
    <3>1. \A k \in 1 .. N : acc[k].kind = "lease" =>
              /\ acc[k].rgen \in Nat /\ acc[k].rgen <= st.newest
              /\ \A m \in 1 .. k - 1 : acc[m].kind = "lease" => acc[m].rgen <= acc[k].rgen
      BY <2>7 DEF TellsGens, acc, N
    <3>2. CASE n = N + 1
      <4>1. new[n] = f /\ f.kind = "lease" /\ ~f.pin
        BY <2>1, <2>7, <3>2
      <4>2. f.rgen = st.newest
        BY <1>5, <4>1 DEF LeaseAccepted
      <4> QED
        BY <1>2, <2>1, <2>3, <3>1, <4>1, <4>2
    <3>3. CASE n \in 1 .. N
      BY <2>1, <2>3, <2>7, <3>1, <3>3
    <3> QED
      BY <2>2, <3>2, <3>3
  <2> QED
    BY <1>5, <2>1, <2>6, <2>7 DEF TellsGens, after, new
<1> QED
  BY <1>2, <1>4, <1>5

LEMMA FoldInOrder ==
    ASSUME NEW facts, Readable(facts),
           \A f \in facts : f.after = {} /\ RowOK(f) /\ f.kind \in Kinds
    PROVE  /\ TellsOrder(Fold(facts), Kept(facts))
           /\ (\A g \in facts : g.kind = "lease" => ~g.pin) => TellsGens(Fold(facts))
           /\ Fold(facts) \in State(Kept(facts))
<1> DEFINE K == Kept(facts)
           NoPin == \A g \in facts : g.kind = "lease" => ~g.pin
           Q == {p \in State(K) \X SUBSET K : TellsOrder(p[1], p[2]) /\ (NoPin => TellsGens(p[1]))}
<1>1. <<Start, {}>> \in Q
  <2>1. Start \in State(K)
    BY StartSound
  <2>2. TellsOrder(Start, {}) /\ TellsGens(Start)
    <3>1. Len(Start.accepted) = 0
      BY DEF Start
    <3> QED
      BY <3>1 DEF TellsOrder, TellsGens
  <2> QED
    BY <2>1, <2>2
<1>2. K \subseteq facts
  BY KeptIs
<1>3. ASSUME NEW p \in Q, NEW f \in K \ p[2], p[2] \subseteq K, \A g \in p[2] : Before(g, f)
      PROVE  <<Apply(p[1], f), p[2] \cup {f}>> \in Q
  <2> DEFINE st == p[1]
             done == p[2]
  <2>1. /\ st \in State(K) /\ TellsOrder(st, done) /\ (NoPin => TellsGens(st))
        /\ f \in K /\ f \in facts /\ RowOK(f) /\ f.kind \in Kinds
        /\ \A g \in done : Before(g, f)
    BY <1>2, <1>3
  <2>2. NoPin => \A g \in K : g.kind = "lease" => ~g.pin
    BY <1>2
  <2> HIDE DEF st, done, NoPin, K
  <2>3. Apply(st, f) \in State(K)
    BY <2>1, ApplyTyped
  <2>4. TellsOrder(Apply(st, f), done \cup {f}) /\ (NoPin => TellsGens(Apply(st, f)))
    BY <2>1, <2>2, AcceptsInOrder
  <2>5. done \cup {f} \in SUBSET K
    BY <1>3, <2>1 DEF done
  <2> QED
    BY <2>3, <2>4, <2>5 DEF st, done
<1>4. <<Fold(facts), K>> \in Q
  <2>1. \A p \in Q : \A f \in K \ p[2] :
              /\ p[2] \subseteq K
              /\ \A g \in p[2] : Before(g, f)
              /\ \A g \in K : Before(g, f) => g \in p[2]
              => <<Apply(p[1], f), p[2] \cup {f}>> \in Q
    BY <1>3
  <2> HIDE DEF Q
  <2> QED
    BY <1>1, <2>1, FoldBy
<1> QED
  BY <1>4

\* The rows of installs are rows.
LEMMA RowsOK == Base => \A f \in Everything : RowOK(f) /\ f.kind \in Kinds
<1> SUFFICES ASSUME Base, NEW f \in Everything PROVE RowOK(f) /\ f.kind \in Kinds
  OBVIOUS
<1>1. PICK j \in Install : Shape(f, j)
  BY FactsAre
<1> QED
  BY <1>1, OneThreadOneLetter DEF Shape, RowOK, Kinds, Gen

\* A lease that counts after another has a higher gen: else a copy of its gen was
\* written before the other, and the earlier copy is the one that is kept.
LEMMA ClimbNow == Base /\ (Alone => Routed) /\ (Alone /\ Told => Rising) => GensClimb
<1> SUFFICES ASSUME Base, Alone => Routed, Alone /\ Told => Rising,
                    world.skew = 0 \/ (Alone /\ (Told \/ Installs <= 2)),
                    NEW n \in DOMAIN Accepted, NEW m \in 1 .. n - 1,
                    Accepted[n].kind = "lease", Accepted[m].kind = "lease"
             PROVE  Accepted[m].gen < Accepted[n].gen
  BY DEF GensClimb
<1> DEFINE st == Fold(Everything)
           b == Accepted[n]
           a == Accepted[m]
<1>1. Readable(Everything) /\ \A f \in Everything : f.after = {} /\ RowOK(f) /\ f.kind \in Kinds
  BY AllReadable, RowsOK
<1>2. /\ TellsOrder(st, Kept(Everything)) /\ st \in State(Kept(Everything))
      /\ (\A g \in Everything : g.kind = "lease" => ~g.pin) => TellsGens(st)
  BY <1>1, FoldInOrder
<1>3. n \in 1 .. Len(st.accepted) /\ m \in 1 .. Len(st.accepted)
  <2>1. st.accepted \in Seq(Kept(Everything)) /\ Accepted = st.accepted
    BY <1>2 DEF State, Accepted
  <2>2. DOMAIN Accepted = 1 .. Len(st.accepted) /\ Len(st.accepted) \in Nat
    BY <2>1
  <2> QED
    BY <2>2
<1>4. a \in Kept(Everything) /\ b \in Kept(Everything) /\ Before(a, b)
  BY <1>2, <1>3 DEF TellsOrder, Accepted
<1>5. /\ a \in Leases(Everything) /\ b \in Leases(Everything)
      /\ \A g \in Everything : g.id = b.id /\ g # b => Before(b, g)
      /\ a.id = b.id => a = b
  BY <1>1, <1>4, KeptIs DEF Leases
<1>6. \A g \in Leases(Everything) : g.id = <<"lease", g.gen>> /\ g.gen \in Gen /\ g \in Everything
  <2>1. \A g \in Leases(Everything) : g \in Everything /\ \E j \in Install : Shape(g, j)
    BY FactsAre DEF Leases
  <2> QED
    BY <2>1 DEF Shape, Leases
<1>7. (TellsGens(st) /\ a.rgen <= b.rgen) \/ ~Alone
  <2>1. ASSUME Alone, NEW g \in Everything, g.kind = "lease" PROVE ~g.pin
    <3>1. PICK j \in Install : g \in Leases(own[j])
      BY <2>1, EverythingIs DEF Leases
    <3> QED
      BY <2>1, <3>1 DEF Routed
  <2>2. Alone => TellsGens(st)
    BY <1>2, <2>1
  <2>3. TellsGens(st) => a.rgen <= b.rgen
    BY <1>3 DEF TellsGens, Accepted
  <2> QED
    BY <2>2, <2>3
<1> HIDE DEF st, a, b
<1> SUFFICES ASSUME ~(a.gen < b.gen) PROVE FALSE
  BY DEF a, b
<1>8. ~Before(a, a) /\ ~Before(b, b)
  BY <1>1, <1>5, <1>6, Stamps
<1>9. b.gen < a.gen
  <2>1. a.gen # b.gen
    BY <1>4, <1>5, <1>6, <1>8
  <2>2. a.gen \in Nat /\ b.gen \in Nat
    BY <1>5, <1>6 DEF Gen
  <2> QED
    BY <2>1, <2>2
<1>10. PICK c \in Leases(Everything) : c.gen = b.gen /\ Earlier(c, a)
  <2>1. b.gen \in 1 .. a.gen - 1
    BY <1>5, <1>6, <1>9 DEF Gen
  <2> QED
    BY <1>5, <2>1 DEF Base, Counted
<1>11. c.id = b.id
  BY <1>5, <1>6, <1>10
<1>12. CASE world.skew = 0
  <2>1. Earlier(a, b) /\ Earlier(c, b)
    BY <1>4, <1>5, <1>6, <1>10, <1>12, Stamped
  <2>2. c # b
    BY <1>10, <2>1, <1>5, <1>6, Stamped
  <2>3. Earlier(b, c)
    BY <1>5, <1>6, <1>10, <1>11, <1>12, <2>2, Stamped
  <2> QED
    BY <1>5, <1>6, <1>10, <2>1, <2>3, Stamped
\* One router at a time: what counts after another was written after it.
<1>13. ASSUME Alone
       PROVE  \E i, j \in Install :
                  i # j /\ a \in Leases(own[i]) /\ b \in Leases(own[j]) /\ Earlier(a, b)
  <2>1. Routed /\ a.rgen <= b.rgen
    BY <1>7, <1>13
  <2>2. PICK i \in Install : a \in Leases(own[i])
    BY <1>5, EverythingIs DEF Leases
  <2>3. PICK j \in Install : b \in Leases(own[j])
    BY <1>5, EverythingIs DEF Leases
  <2>4. i # j
    <3> SUFFICES ASSUME i = j PROVE FALSE
      OBVIOUS
    <3>1. Earlier(a, b)
      BY <1>4, <2>2, <2>3, Stamped DEF Leases
    <3> QED
      BY <2>2, <2>3, <3>1 DEF Base, Counted
  <2>5. PICK r \in Routers(own[i]) : r.gen = a.rgen /\ Earlier(r, a)
    BY <2>1, <2>2 DEF Routed
  <2>6. PICK q \in Routers(own[j]) : q.gen = b.rgen /\ Earlier(q, b)
    BY <2>1, <2>3 DEF Routed
  <2>7. r \in Routers(Everything) /\ q \in Routers(Everything) /\ r # q
    BY <2>4, <2>5, <2>6, FactsAre, OneWriter DEF Routers
  <2>8. r.gen # q.gen /\ r.gen \in Nat /\ q.gen \in Nat
    <3>1. Earlier(r, q) \/ Earlier(q, r)
      BY <2>7, Stamped DEF Routers
    <3>2. r.gen < q.gen \/ q.gen < r.gen
      BY <2>1, <2>7, <3>1 DEF Routed
    <3>3. Shape(r, i) /\ Shape(q, j)
      BY <2>5, <2>6, FactsAre DEF Routers
    <3>4. r.gen \in Nat /\ q.gen \in Nat
      BY <2>5, <2>6, <3>3 DEF Shape, Routers, Gen
    <3> QED
      BY <3>2, <3>4
  <2>9. Earlier(a, b)
    <3> SUFFICES ASSUME ~Earlier(a, b) PROVE FALSE
      OBVIOUS
    <3>1. Earlier(b, a)
      BY <1>4, <1>5, <1>6, <1>8, Stamped
    <3>2. Earlier(q, a)
      BY <1>5, <1>6, <2>6, <2>7, <3>1, Stamped DEF Routers
    <3>3. q.gen <= a.rgen
      BY <2>1, <2>2, <2>7, <3>2 DEF Routed
    <3> QED
      BY <2>1, <2>5, <2>6, <2>8, <3>3
  <2> QED
    BY <2>2, <2>3, <2>4, <2>9
\* The install that gave out a's gen before b's had given out b's before, unless
\* it knew of it.
<1>14. CASE Alone /\ Told
  <2>1. PICK i, j \in Install :
            i # j /\ a \in Leases(own[i]) /\ b \in Leases(own[j]) /\ Earlier(a, b)
    BY <1>13, <1>14
  <2>2. a.gen \in Nat /\ b.gen \in Nat /\ b.gen <= a.gen
    BY <1>5, <1>6, <1>9 DEF Gen
  <2>3. PICK k \in Install : a \in own[k] /\ \E h \in Leases(own[k]) : h.gen = b.gen
    BY <1>5, <1>14, <2>1, <2>2 DEF Rising
  <2>4. PICK h \in Leases(own[k]) : h.gen = b.gen
    BY <2>3
  <2>5. k = i /\ h \in Leases(Everything) /\ h # b
    BY <2>1, <2>3, <2>4, OneWriter, FactsAre DEF Leases
  <2>6. Earlier(h, a)
    <3>1. h # a /\ ~Earlier(a, h)
      BY <1>9, <2>1, <2>2, <2>4, <2>5 DEF Base, Counted
    <3> QED
      BY <1>5, <1>6, <2>5, <3>1, Stamped
  <2>7. Before(h, a) /\ Before(b, h)
    <3>1. Before(h, a)
      BY <2>1, <2>4, <2>5, <2>6, Stamped DEF Leases
    <3>2. h.id = b.id /\ h \in Everything
      BY <1>5, <1>6, <2>4, <2>5
    <3> QED
      BY <1>5, <2>5, <3>1, <3>2
  <2>8. a \in Everything /\ b \in Everything /\ h \in Everything
    BY <1>5, <1>6, <2>5
  <2>9. Before(h, b)
    BY <1>1, <1>4, <2>7, <2>8, Stamps
  <2> QED
    BY <1>1, <1>8, <2>7, <2>8, <2>9, Stamps
\* The other copy of b's gen is of one of the two installs: of a's.
<1>15. CASE Alone /\ Installs <= 2
  <2>1. PICK i, j \in Install :
            i # j /\ a \in Leases(own[i]) /\ b \in Leases(own[j]) /\ Earlier(a, b)
    BY <1>13, <1>15
  <2>2. PICK k \in Install : c \in Leases(own[k])
    BY <1>10, EverythingIs DEF Leases
  <2>3. k = i \/ k = j
    <3>1. i \in 1 .. 2 /\ j \in 1 .. 2 /\ k \in 1 .. 2
      BY <1>15, LoomsConstants DEF Install
    <3> QED
      BY <2>1, <3>1
  <2>4. c # b
    BY <1>5, <1>6, <1>10, <2>1, Stamped
  <2>5. k # j
    BY <1>11, <2>1, <2>2, <2>4 DEF Base, Written, Leases
  <2>6. Before(c, a)
    BY <1>10, <2>1, <2>2, <2>3, <2>5, Stamped DEF Leases
  <2>7. Before(b, c)
    BY <1>5, <1>6, <1>10, <1>11, <2>4
  <2>8. c \in Everything /\ a \in Everything /\ b \in Everything
    BY <1>5, <1>6, <1>10
  <2>9. Before(c, b) /\ ~Before(c, c)
    BY <1>1, <1>4, <2>6, <2>8, Stamps
  <2> QED
    BY <1>1, <2>7, <2>8, <2>9, Stamps
<1> QED
  BY <1>12, <1>14, <1>15

-----------------------------------------------------------------------------
(* Where clocks agree behind one router at a time, what a tick goes by is    *)
(* smooth                                                                    *)

\* A part of what was written that has of each ledger a head.
Owned(V) ==
    \A j \in Install : \A f \in V \cap own[j] : \A g \in own[j] : Earlier(g, f) => g \in V

LEMMA ViewOwned ==
    ASSUME Base, Routed, NEW V, V = Everything \/ \E i \in Install : V = View(i) \/ V = seen[i]
    PROVE  V \subseteq Everything /\ Owned(V)
<1>1. V \subseteq Everything
  BY FactsAre
<1>2. CASE V = Everything
  BY <1>1, <1>2, EverythingIs DEF Owned
<1>3. ASSUME NEW i \in Install, NEW j \in Install, V = View(i) \/ V = seen[i],
             NEW f \in V \cap own[j], NEW g \in own[j], Earlier(g, f)
      PROVE  g \in V
  <2>1. CASE i = j
    <3>1. Pins(own[i]) = {}
      BY FactsAre DEF Routed, Pins
    <3>2. own[i] \subseteq seen[i] /\ own[i] \subseteq View(i)
      BY <3>1 DEF Base, Sighted, View
    <3> QED
      BY <1>3, <2>1, <3>2
  <2>2. CASE i # j /\ V = View(i)
    BY <1>3, <2>2, DiskHeads
  <2>3. CASE i # j /\ V = seen[i]
    BY <1>3, <2>3 DEF Base, Sighted
  <2> QED
    BY <1>3, <2>1, <2>2, <2>3
<1> QED
  BY <1>1, <1>2, <1>3 DEF Owned

\* An id names the kind, and for some the gen.
LEMMA IdsTell ==
    ASSUME NEW f, NEW i, Shape(f, i)
    PROVE  /\ f.id[1] = f.kind
           /\ f.kind \in {"router", "lease", "released"} => f.id[2] = f.gen
<1>1. CASE f.kind = "letter"
  <2>1. f.id = <<"letter">>
    BY <1>1 DEF Shape
  <2> QED
    BY <1>1, <2>1
<1>2. CASE f.kind = "pin"
  BY <1>2 DEF Shape
<1>3. CASE f.kind = "note"
  <2>1. f.id = <<"note", f.strand>>
    BY <1>3 DEF Shape
  <2> QED
    BY <1>3, <2>1
<1>4. CASE f.kind \in {"router", "lease", "released"}
  <2>1. f.id = <<f.kind, f.gen>>
    BY <1>4 DEF Shape
  <2> QED
    BY <2>1
<1> QED
  BY <1>1, <1>2, <1>3, <1>4 DEF Shape

\* A lease has the id of its gen, and a strand that no other has.
LEMMA LeaseIs ==
    ASSUME Base
    PROVE  /\ \A f \in Leases(Everything) :
                 /\ f \in Everything /\ f.kind = "lease" /\ f.id = <<"lease", f.gen>>
                 /\ f.gen \in Nat \ {0}
                 /\ \E j \in Install : f \in Leases(own[j])
           /\ \A f, g \in Leases(Everything) : f.strand = g.strand => f = g
<1>1. ASSUME NEW f \in Leases(Everything)
      PROVE  /\ f \in Everything /\ f.kind = "lease" /\ f.id = <<"lease", f.gen>>
             /\ f.gen \in Nat \ {0}
             /\ \E j \in Install : f \in Leases(own[j]) /\ f.strand[1] = j
  <2>1. f \in Everything /\ f.kind = "lease"
    BY DEF Leases
  <2>2. PICK j \in Install : f \in own[j] /\ Shape(f, j)
    BY <2>1, FactsAre
  <2> QED
    BY <2>1, <2>2 DEF Shape, Leases, Gen
<1>2. ASSUME NEW f \in Leases(Everything), NEW g \in Leases(Everything), f.strand = g.strand
      PROVE  f = g
  BY <1>1, <1>2 DEF Base, Counted
<1> QED
  BY <1>1, <1>2

\* The first leases of two gens: of the same gen they are the same.
LEMMA OneFirst ==
    ASSUME Base, NEW f, NEW g, First(f), First(g), f.gen = g.gen
    PROVE  f = g
<1>1. f \in Everything /\ g \in Everything
  BY DEF First, Leases
<1> QED
  BY <1>1, Stamped DEF First

\* What a union keeps of a part of what was written: of the leases of a gen one,
\* the first if it is there, and of its releases one that is no later than another.
LEMMA KeptNow ==
    ASSUME Base, Routed, world.skew = 0, NEW V \in SUBSET Everything
    PROVE  /\ Readable(V) /\ Readable(Kept(V)) /\ Kept(V) \subseteq V
           /\ \A f \in V : f.after = {}
           /\ Routers(V) \subseteq Kept(V)
           /\ \A f \in Leases(V) \cup Releases(V) : \E q \in Kept(V) :
                 q.kind = f.kind /\ q.gen = f.gen /\ (q = f \/ Earlier(q, f))
           /\ \A f, g \in Leases(Kept(V)) : f.gen = g.gen => f = g
           /\ \A f \in Leases(Kept(V)) : \A g \in Leases(V) : g.gen = f.gen => ~Earlier(g, f)
           /\ \A f \in V : First(f) => f \in Kept(V)
<1> DEFINE K == Kept(V)
<1>1. Readable(V) /\ \A f \in V : f.after = {}
  BY AllReadable, Fewer
<1>2. /\ K \subseteq V
      /\ \A f \in V : f \in K <=> \A g \in V : g.id = f.id /\ g # f => Before(f, g)
      /\ Ids(K) = Ids(V)
      /\ \A f, g \in K : f.id = g.id => f = g
  BY <1>1, KeptIs
<1>3. \A f, g \in Everything : Before(f, g) <=> Earlier(f, g)
  BY Stamped
<1>4. \A f \in V : \E j \in Install : f \in own[j] /\ Shape(f, j)
  BY FactsAre
<1> HIDE DEF K
<1>5. \A f, g \in V : f.kind = "router" /\ f.id = g.id => f = g
  <2> SUFFICES ASSUME NEW f \in V, NEW g \in V, f.kind = "router", f.id = g.id, f # g
               PROVE  FALSE
    OBVIOUS
  <2>1. f.gen \in Nat
    BY <1>4 DEF Shape, Gen
  <2>2. g.kind = "router" /\ g.gen = f.gen
    BY <1>4, IdsTell
  <2>3. f \in Routers(Everything) /\ g \in Routers(Everything)
    BY <2>2 DEF Routers
  <2>4. Earlier(f, g) \/ Earlier(g, f)
    BY Stamped
  <2>5. f.gen < g.gen \/ g.gen < f.gen
    BY <2>3, <2>4 DEF Routed
  <2> QED
    BY <2>1, <2>2, <2>5
<1>6. Routers(V) \subseteq K
  BY <1>2, <1>5 DEF Routers
<1>7. ASSUME NEW f \in Leases(V) \cup Releases(V)
      PROVE  \E q \in K : q.kind = f.kind /\ q.gen = f.gen /\ (q = f \/ Earlier(q, f))
  <2>1. f \in V /\ f.kind \in {"lease", "released"}
    BY DEF Leases, Releases
  <2>2. PICK q \in K : q.id = f.id
    BY <1>2, <2>1 DEF Ids
  <2>3. q \in V /\ q.kind = f.kind /\ q.gen = f.gen
    BY <1>2, <1>4, <2>1, <2>2, IdsTell
  <2>4. q = f \/ Before(q, f)
    BY <1>2, <2>1, <2>2, <2>3
  <2> QED
    BY <1>3, <2>1, <2>3, <2>4
<1>8. \A f \in Leases(V) : f \in Leases(Everything)
  BY DEF Leases
<1>9. \A f, g \in Leases(K) : f.gen = g.gen => f = g
  <2>1. \A f \in Leases(K) : f \in Leases(V) /\ f \in K
    BY <1>2 DEF Leases
  <2> QED
    BY <1>2, <1>8, <2>1, LeaseIs
<1>10. \A f \in Leases(K) : \A g \in Leases(V) : g.gen = f.gen => ~Earlier(g, f)
  <2> SUFFICES ASSUME NEW f \in Leases(K), NEW g \in Leases(V), g.gen = f.gen, Earlier(g, f)
               PROVE  FALSE
    OBVIOUS
  <2>1. f \in K /\ f \in Leases(V) /\ g \in V /\ f \in V
    BY <1>2 DEF Leases
  <2>2. f.id = g.id /\ f # g /\ f \in Everything /\ g \in Everything
    BY <1>8, <2>1, LeaseIs, Stamped
  <2>3. Earlier(f, g)
    BY <1>2, <1>3, <2>1, <2>2
  <2> QED
    BY <2>2, <2>3, Stamped
<1>11. ASSUME NEW f \in V, First(f), NEW g \in V, g.id = f.id, g # f PROVE Before(f, g)
  <2>1. f.kind = "lease"
    BY <1>11 DEF First, Leases
  <2>2. g.kind = "lease" /\ g.gen = f.gen
    BY <1>4, <1>11, <2>1, IdsTell
  <2>3. ~Earlier(g, f)
    BY <1>11, <2>2 DEF First, Leases
  <2> QED
    BY <1>3, <1>11, <2>3, Stamped
<1>12. Readable(K)
  BY <1>1, <1>2, Fewer
<1> QED
  BY <1>1, <1>2, <1>6, <1>7, <1>9, <1>10, <1>11, <1>12 DEF K

LEMMA SmoothNow ==
    ASSUME Base, Routed, world.skew = 0, NEW V \in SUBSET Everything, Owned(V)
    PROVE  Smooth(Kept(V))
<1> DEFINE K == Kept(V)
<1>1. /\ Readable(V) /\ Readable(K) /\ K \subseteq V /\ Routers(V) \subseteq K
      /\ \A f, g \in Leases(K) : f.gen = g.gen => f = g
  BY KeptNow
<1>2. \A f \in V : RowOK(f) /\ f.kind # "pin" /\ f.kind \in Kinds
  BY RowsOK DEF Routed, Pins
<1>3. \A f, g \in Everything : Before(f, g) <=> Earlier(f, g)
  BY Stamped
<1>4. \A f \in V : \E j \in Install : f \in own[j] /\ Shape(f, j)
  BY FactsAre
<1> HIDE DEF K
<1>5. ASSUME NEW f \in K
      PROVE  /\ f.kind \in {"router", "lease", "released", "letter", "note"} /\ RowOK(f)
             /\ f.kind \in {"lease", "released"} => f.thread = thread
             /\ f.kind = "letter" => f.letter = letter /\ f.thread = thread
             /\ f.kind = "note" => f.re = letter
  BY <1>1, <1>2, <1>4 DEF Shape, Kinds
<1>6. ASSUME NEW f \in Leases(K)
      PROVE  /\ \E r \in Routers(K) : r.gen = f.rgen /\ Before(r, f)
             /\ \A r \in Routers(K) : Before(r, f) => r.gen <= f.rgen
             /\ \A r \in Releases(K) \cup Notes(K) : SameGrant(r, f) => Before(f, r)
  <2>1. f \in V /\ f \in Everything /\ f.kind = "lease"
    BY <1>1 DEF Leases
  <2>2. PICK j \in Install : f \in Leases(own[j])
    BY <1>4, <2>1 DEF Leases
  <2>3. \E r \in Routers(K) : r.gen = f.rgen /\ Before(r, f)
    <3>1. PICK r \in Routers(own[j]) : r.gen = f.rgen /\ Earlier(r, f)
      BY <2>2 DEF Routed
    <3>2. r \in V
      BY <2>1, <2>2, <3>1 DEF Routers, Leases, Owned
    <3> QED
      BY <1>1, <1>3, <2>1, <3>1, <3>2 DEF Routers
  <2>4. \A r \in Routers(K) : Before(r, f) => r.gen <= f.rgen
    BY <1>1, <1>3, <2>1, <2>2 DEF Routed, Routers
  \* A strand is of one lease.
  <2>5. ASSUME NEW r \in Releases(K) \cup Notes(K), SameGrant(r, f) PROVE Before(f, r)
    <3>1. r \in V /\ r \in Everything /\ r.kind \in {"released", "note"}
      BY <1>1 DEF Releases, Notes
    <3>2. PICK k \in Install : r \in Releases(own[k]) \cup Notes(own[k])
      BY <1>4, <3>1 DEF Releases, Notes
    <3>3. PICK h \in Leases(Everything) : h.strand = r.strand /\ Earlier(h, r)
      <4>1. Leases(View(k)) \subseteq Leases(Everything) /\ Leases(own[k]) \subseteq Leases(Everything)
        BY FactsAre DEF Leases
      <4>2. \/ \E h \in Leases(View(k)) : h.strand = r.strand /\ Earlier(h, r)
            \/ \E h \in Leases(own[k]) : h.strand = r.strand /\ Earlier(h, r)
        BY <3>2 DEF Base, Grounded
      <4> QED
        BY <4>1, <4>2
    <3>4. h = f
      BY <2>1, <2>5, <3>3, LeaseIs DEF SameGrant, Leases
    <3> QED
      BY <1>3, <2>1, <3>1, <3>3, <3>4
  <2> QED
    BY <2>3, <2>4, <2>5
<1>7. ASSUME NEW l \in K, l.kind = "letter", NEW f \in K \ {l} PROVE Before(l, f)
  <2>1. l \in V /\ f \in V /\ l \in Everything /\ f \in Everything
    BY <1>1
  <2>2. Time(l) = 1
    BY <1>4, <1>7, <2>1 DEF Shape
  <2>3. Time(f) # 1 /\ Time(f) \in 1 .. Cardinality(Everything)
    BY <2>1, <2>2, FactsAre DEF Base, Written
  <2>4. Earlier(l, f)
    BY <2>2, <2>3 DEF Earlier
  <2> QED
    BY <1>3, <2>1, <2>4
<1>8. Smooth(K)
  BY <1>1, <1>5, <1>6, <1>7 DEF Smooth
<1> QED
  BY <1>8 DEF K

\* So the fold of what an install has, and of all, tells what is in it.
LEMMA ViewTells ==
    ASSUME Base, Routed, world.skew = 0, NEW V,
           V = Everything \/ \E i \in Install : V = View(i) \/ V = seen[i]
    PROVE  /\ Tells(Fold(V), Kept(V)) /\ Readable(V) /\ V \subseteq Everything /\ Owned(V)
           /\ Kept(V) \subseteq V /\ Ids(Kept(V)) = Ids(V)
           /\ Turned(Kept(V)) => TellsTurns(Fold(V))
<1>1. V \in SUBSET Everything /\ Owned(V)
  BY ViewOwned
<1>2. Smooth(Kept(V)) /\ Readable(V) /\ \A f \in V : f.after = {}
  BY <1>1, KeptNow, SmoothNow
<1> QED
  BY <1>1, <1>2, FoldTells, KeptIs

\* The leases that are kept of heads of ledgers rise.
LEMMA KeptRise ==
    ASSUME Base, Routed, Rising, world.skew = 0, NEW V \in SUBSET Everything, Owned(V),
           NEW f \in Leases(Kept(V)), NEW g \in Leases(Kept(V)), Earlier(f, g)
    PROVE  f.gen < g.gen
<1>1. /\ Kept(V) \subseteq V
      /\ \A h \in Leases(V) : h.gen = g.gen => ~Earlier(h, g)
  BY KeptNow
<1>2. f \in V /\ f \in Leases(Everything) /\ g \in Leases(Everything)
  BY <1>1 DEF Leases
<1>3. f.gen \in Nat /\ g.gen \in Nat
  BY <1>2, LeaseIs
<1> SUFFICES ASSUME g.gen <= f.gen PROVE FALSE
  BY <1>3
<1>4. PICK j \in Install : f \in own[j] /\ \E h \in Leases(own[j]) : h.gen = g.gen
  BY <1>2 DEF Rising
<1>5. PICK h \in Leases(own[j]) : h.gen = g.gen
  BY <1>4
<1>6. f \in Leases(V) /\ f \in Leases(own[j]) /\ h \in Leases(Everything)
  BY <1>2, <1>4, FactsAre DEF Leases
<1>7. f.gen # g.gen
  BY <1>1, <1>6
<1>8. Earlier(h, f)
  <2>1. h.gen < f.gen
    BY <1>3, <1>5, <1>7
  <2>2. Earlier(f, h) => f.gen < h.gen
    BY <1>5, <1>6 DEF Base, Counted
  <2>3. h # f /\ ~Earlier(f, h)
    BY <1>3, <1>5, <2>1, <2>2
  <2>4. h \in Everything /\ f \in Everything
    BY <1>2, <1>6, LeaseIs
  <2> QED
    BY <2>3, <2>4, Stamped
<1>9. h \in Leases(V)
  BY <1>2, <1>4, <1>5, <1>8 DEF Owned, Leases
<1>10. Earlier(h, g)
  BY <1>2, <1>6, <1>8, LeaseIs, Stamped
<1> QED
  BY <1>1, <1>5, <1>9, <1>10

\* In calm, the fold of all that was written tells it in turn.
LEMMA AllTurned ==
    ASSUME Base, Routed, Rising, Firm, InTurn, world.skew = 0
    PROVE  Turned(Kept(Everything))
<1> DEFINE K == Kept(Everything)
<1>1. /\ K \subseteq Everything
      /\ \A r \in Releases(Everything) : \E q \in K :
            q.kind = r.kind /\ q.gen = r.gen /\ (q = r \/ Earlier(q, r))
      /\ \A f \in Leases(K) : \A g \in Leases(Everything) : g.gen = f.gen => ~Earlier(g, f)
  BY KeptNow
<1>2. \A f, g \in Everything : Before(f, g) <=> Earlier(f, g)
  BY Stamped
<1>3. \A g, f \in Leases(K) : Earlier(g, f) => g.gen < f.gen
  BY KeptRise, ViewOwned
<1> HIDE DEF K
<1>4. ASSUME NEW g \in Leases(K), NEW f \in Leases(K), Before(g, f)
      PROVE  \E r \in Releases(K) : SameGrant(r, g) /\ Before(r, f)
  <2>1. /\ g \in Leases(Everything) /\ f \in Leases(Everything)
        /\ g \in Everything /\ f \in Everything /\ First(g)
    BY <1>1 DEF Leases, First
  <2>2. PICK r \in Releases(Everything) : r.gen = g.gen /\ Earlier(r, f)
    BY <1>2, <1>3, <1>4, <2>1 DEF InTurn
  <2>3. PICK q \in K : q.kind = r.kind /\ q.gen = r.gen /\ (q = r \/ Earlier(q, r))
    BY <1>1
  <2>4. q \in Everything /\ r \in Everything /\ q \in Releases(Everything) /\ q \in Releases(K)
    BY <1>1, <2>3 DEF Releases
  <2>5. Earlier(q, f)
    BY <2>1, <2>2, <2>3, <2>4, Stamped
  <2>6. SameGrant(q, g)
    <3>1. PICK e : First(e) /\ e.gen = q.gen /\ e.strand = q.strand
      BY <2>4 DEF Firm
    <3>2. e = g
      BY <2>1, <2>2, <2>3, <3>1, OneFirst
    <3> QED
      BY <3>1, <3>2 DEF SameGrant
  <2> QED
    BY <1>2, <2>1, <2>4, <2>5, <2>6
<1> QED
  BY <1>4 DEF Turned, K

\* Who holds the thread, as far as one has read, has the first lease of its gen, if
\* what was read has the leases before it.
LEMMA HeldFirst ==
    ASSUME Base, Routed, world.skew = 0, NEW V, \E i \in Install : V = View(i) \/ V = seen[i],
           NEW f \in Leases(Everything), Fold(V).holder[thread] = <<f.strand, f.gen>>,
           \A g \in Leases(Everything) : Earlier(g, f) => g \in V
    PROVE  First(f)
<1>1. /\ Tells(Fold(V), Kept(V)) /\ V \subseteq Everything
      /\ \A h \in Leases(Kept(V)) : \A g \in Leases(V) : g.gen = h.gen => ~Earlier(g, h)
      /\ Kept(V) \subseteq V
  BY ViewTells, KeptNow
<1>2. Fold(V).holder[thread] # Nobody
  BY DEF Nobody
<1>3. PICK h : LastLease(h, Kept(V)) /\ Fold(V).holder[thread] = <<h.strand, h.gen>>
  BY <1>1, <1>2 DEF Tells, TellsHolder
<1>4. h = f
  <2>1. h \in Leases(Everything) /\ h.strand = f.strand
    BY <1>1, <1>3 DEF LastLease, Leases
  <2> QED
    BY <2>1, LeaseIs
<1> QED
  BY <1>1, <1>3, <1>4 DEF First, LastLease, Leases

\* An own lease is one of them, as all before it were read when it was granted.
LEMMA HolderFirst ==
    ASSUME Base, Routed, Knows, world.skew = 0, NEW i \in Install, NEW f \in Leases(own[i]),
           Fold(View(i)).holder[thread] = <<f.strand, f.gen>>
    PROVE  First(f)
<1>1. \A g \in Leases(Everything) : Earlier(g, f) => g \in View(i)
  BY DEF Knows
<1> QED
  BY <1>1, HeldFirst, FactsAre DEF Leases

-----------------------------------------------------------------------------
(* Routers that are told *)

\* What is written later than a lease does not come before it.
LEMMA FirstsStay ==
    ASSUME Base, UNCHANGED offset, UNCHANGED own \/ \E i \in Install : \E row : Wrote(i, row)
    PROVE  \A f : First(f) => First(f)'
<1>1. \A f, g : Earlier(f, g)' <=> Earlier(f, g)
  BY Fixed
<1>2. /\ Everything \subseteq Everything'
      /\ \A g \in Everything' \ Everything : \A f \in Everything : ~Earlier(g, f)
  <2>1. CASE UNCHANGED own
    BY <2>1 DEF Everything
  <2>2. CASE \E i \in Install : \E row : Wrote(i, row)
    BY <2>2 DEF Wrote
  <2> QED
    BY <2>1, <2>2
<1> SUFFICES ASSUME NEW f, First(f) PROVE First(f)'
  OBVIOUS
<1>3. f \in Leases(Everything') /\ f \in Everything
  BY <1>2 DEF First, Leases
<1>4. ASSUME NEW g \in Leases(Everything'), g.gen = f.gen PROVE ~Earlier(g, f)
  <2>1. CASE g \in Everything
    BY <1>4, <2>1 DEF First, Leases
  <2>2. CASE g \notin Everything
    BY <1>2, <1>3, <2>2 DEF Leases
  <2> QED
    BY <2>1, <2>2
<1> QED
  BY <1>1, <1>3, <1>4 DEF First

\* What is not a lease leaves the gens and the turns as they are.
LEMMA RowKeeps ==
    ASSUME Base, NEW i \in Install, NEW row, Wrote(i, row), row.kind # "lease",
           UNCHANGED <<offset, known>>
    PROVE  /\ (Knows => Knows') /\ (Rising => Rising') /\ (InTurn => InTurn')
           /\ Leases(Everything') = Leases(Everything)
           /\ \A j \in Install : /\ View(j) \subseteq View(j)' /\ own[j] \subseteq own'[j]
                                 /\ Leases(own'[j]) = Leases(own[j])
                                 /\ Leases(View(j)') = Leases(View(j))
<1>1. \A f, g : Earlier(f, g)' <=> Earlier(f, g)
  BY Fixed
<1>2. /\ Everything' = Everything \cup {row}
      /\ \A j \in Install : own'[j] = IF j = i THEN own[j] \cup {row} ELSE own[j]
  BY DEF Wrote
<1>3. Leases(Everything') = Leases(Everything) /\ Releases(Everything) \subseteq Releases(Everything')
  BY <1>2 DEF Leases, Releases
<1>4. \A j \in Install : Leases(own'[j]) = Leases(own[j]) /\ own[j] \subseteq own'[j]
  BY <1>2 DEF Leases
<1>5. \A j \in Install : View(j) \subseteq View(j)' /\ Leases(View(j)') = Leases(View(j))
  BY <1>2 DEF View, Leases
<1>6. Rising => Rising'
  <2> SUFFICES ASSUME Rising, NEW f \in Leases(Everything), NEW g \in Leases(Everything),
                      Earlier(f, g), g.gen <= f.gen
               PROVE  \E j \in Install : f \in own'[j] /\ \E h \in Leases(own'[j]) : h.gen = g.gen
    BY <1>1, <1>3 DEF Rising
  <2>1. PICK j \in Install : f \in own[j] /\ \E h \in Leases(own[j]) : h.gen = g.gen
    BY DEF Rising
  <2> QED
    BY <1>4, <2>1
<1>7. InTurn => InTurn'
  <2> SUFFICES ASSUME InTurn, NEW f \in Leases(Everything'), NEW g \in Leases(Everything'),
                      f.gen < g.gen
               PROVE  \E r \in Releases(Everything') : r.gen = f.gen /\ Earlier(r, g)
    BY <1>1 DEF InTurn
  <2>1. \E r \in Releases(Everything) : r.gen = f.gen /\ Earlier(r, g)
    BY <1>3 DEF InTurn
  <2> QED
    BY <1>3, <2>1
<1>8. Knows => Knows'
  <2> SUFFICES ASSUME Knows, NEW j \in Install, NEW f \in Leases(own'[j]),
                      NEW g \in Leases(Everything'), Earlier(g, f)
               PROVE  g \in View(j)'
    BY <1>1 DEF Knows
  <2>1. g \in View(j)
    BY <1>3, <1>4 DEF Knows
  <2> QED
    BY <1>5, <2>1
<1> QED
  BY <1>3, <1>4, <1>5, <1>6, <1>7, <1>8

\* What changes no fact leaves them too.
LEMMA SameKeeps ==
    ASSUME UNCHANGED <<offset, own>>, \A j \in Install : known[j] \subseteq known'[j]
    PROVE  (Knows => Knows') /\ (Rising => Rising') /\ (InTurn => InTurn') /\ Everything' = Everything
<1>1. \A f, g : Earlier(f, g)' <=> Earlier(f, g)
  BY Fixed
<1>2. Everything' = Everything /\ \A j \in Install : View(j) \subseteq View(j)'
  BY DEF Everything, View
<1>3. Rising => Rising'
  BY <1>1, <1>2 DEF Rising
<1>4. InTurn => InTurn'
  BY <1>1, <1>2 DEF InTurn
<1>5. Knows => Knows'
  <2> SUFFICES ASSUME Knows, NEW j \in Install, NEW f \in Leases(own[j]),
                      NEW g \in Leases(Everything), Earlier(g, f)
               PROVE  g \in View(j)'
    BY <1>1, <1>2 DEF Knows
  <2> QED
    BY <1>2 DEF Knows
<1> QED
  BY <1>2, <1>3, <1>4, <1>5

\* A router that takes over waits for the leases of the one before, which rode
\* the lease, and has what the others pushed; or has all, if it was that one
\* itself.
LEMMA TakeHas ==
    ASSUME Base, Told, Informed, NEW i \in Install, Take(i)
    PROVE  /\ Leases(Everything) \subseteq View(i) \cup carried /\ Single(carried)
           /\ \A j \in Install \ {i} : Leases(own[j]) \subseteq pushed[j]
<1>1. leader # <<>> =>
          /\ Leases(own[leader[1]]) \subseteq carried
          /\ leader[1] # i \/ prior[i] \subseteq View(i)
          /\ leader[1] = i \/
                \A j \in Install \ {leader[1]} : Leases(pushed[j]) \subseteq View(i)
  BY DEF Take, MayTake, Told
<1>2. CASE leader = <<>>
  <2>1. Leases(Everything) = {} /\ carried = {}
    BY <1>2 DEF Informed
  <2>2. \A j \in Install : Leases(own[j]) = {}
    BY <2>1, EverythingIs DEF Leases
  <2> QED
    BY <2>1, <2>2 DEF Single
<1>3. CASE leader # <<>>
  <2>1. PICK k \in Install, n \in Gen : leader = <<k, n>>
    BY <1>3 DEF Base, Typed
  <2>2. leader[1] = k
    BY <2>1
  <2>3. /\ carried \subseteq own[k] \cap pushed[k]
        /\ Leases(Everything) \subseteq seen[k] \cup prior[k]
        /\ \A j \in Install \ {k} : Leases(own[j]) \subseteq pushed[j]
    BY <2>1 DEF Informed
  <2>4. Leases(own[k]) \subseteq pushed[k] /\ seen[k] \subseteq View(k)
    BY <1>1, <1>3, <2>2, <2>3 DEF Base, Sighted
  <2>5. Single(carried)
    BY <2>3 DEF Single
  <2>6. CASE k = i
    BY <1>1, <1>3, <2>2, <2>3, <2>4, <2>5, <2>6
  <2>7. CASE k # i
    <3> SUFFICES ASSUME NEW f \in Leases(Everything) PROVE f \in View(i) \cup carried
      BY <2>3, <2>4, <2>5
    <3>1. PICK j \in Install : f \in Leases(own[j])
      BY EverythingIs DEF Leases
    <3>2. CASE j = k
      BY <1>1, <1>3, <2>2, <3>1, <3>2
    <3>3. CASE j # k
      <4>1. f \in Leases(pushed[j])
        BY <2>3, <3>1, <3>3 DEF Leases
      <4> QED
        BY <1>1, <1>3, <2>2, <2>7, <3>3, <4>1
    <3> QED
      BY <3>2, <3>3
  <2> QED
    BY <2>6, <2>7
<1> QED
  BY <1>2, <1>3

LEMMA TakeTold ==
    ASSUME Base, Told, Informed, Knows, Rising, NEW i \in Install, Take(i)
    PROVE  Informed' /\ Knows' /\ Rising'
<1> DEFINE row == RouterRow(i, LastGen + 1)
<1>1. Wrote(i, row) /\ LastGen + 1 \in Gen
  BY TakeBase
<1>2. row.kind = "router"
  BY DEF RouterRow
<1>3. /\ leader' = <<i, LastGen + 1>> /\ prior' = [prior EXCEPT ![i] = carried]
      /\ pushed' = [pushed EXCEPT ![i] = own[i]] /\ Goes(i, View(i) \cup {row})
      /\ carried' = own[i] /\ UNCHANGED <<offset, known>>
  BY DEF Take
<1> HIDE DEF row
<1>4. /\ Knows' /\ Rising' /\ Leases(Everything') = Leases(Everything)
      /\ \A j \in Install : /\ View(j) \subseteq View(j)' /\ own[j] \subseteq own'[j]
                            /\ Leases(own'[j]) = Leases(own[j])
  BY <1>1, <1>2, <1>3, RowKeeps
<1>5. /\ Leases(Everything) \subseteq View(i) \cup carried /\ Single(carried)
      /\ \A j \in Install \ {i} : Leases(own[j]) \subseteq pushed[j]
  BY TakeHas
<1>6. /\ prior'[i] = carried /\ pushed'[i] = own[i] /\ seen'[i] = View(i) \cup {row}
      /\ \A j \in Install \ {i} : pushed'[j] = pushed[j]
  BY <1>3, GoesOn DEF Base, Typed
<1>7. Single(prior[i])'
  <2>1. PICK j \in Install : carried \subseteq own[j]
    BY <1>5 DEF Single
  <2>2. prior'[i] \subseteq own'[j]
    BY <1>4, <1>6, <2>1
  <2> QED
    BY <2>2 DEF Single
<1>8. Informed'
  <2>1. leader' # <<>> /\ \A j \in Install, n \in Gen : leader' = <<j, n>> => j = i
    BY <1>3
  <2>2. /\ carried' \subseteq own'[i] \cap pushed'[i]
        /\ Leases(Everything') \subseteq seen'[i] \cup prior'[i]
        /\ Single(prior[i])'
        /\ \A j \in Install \ {i} : Leases(own'[j]) \subseteq pushed'[j]
    BY <1>3, <1>4, <1>5, <1>6, <1>7
  <2> QED
    BY <2>1, <2>2 DEF Informed
<1> QED
  BY <1>4, <1>8

\* A router that is caught up has every lease on its disk, and goes by them but for
\* some of the ledger that it waited for.
LEMMA GrantIs ==
    ASSUME Base, Routed, Informed, NEW i \in Install, Grant(i)
    PROVE  /\ leader = <<i, lead[i]>> /\ lead[i] \in Gen
           /\ Leases(Everything) \subseteq View(i)
           /\ Leases(Everything) \subseteq seen[i] \cup prior[i] /\ Single(prior[i])
           /\ carried \subseteq own[i] \cap pushed[i]
           /\ \A j \in Install \ {i} : Leases(own[j]) \subseteq pushed[j]
           /\ \E row : /\ Wrote(i, row) /\ row.kind = "lease" /\ row.gen = NextGen(i)
                       /\ seen'[i] = seen[i] \cup {row}
                       /\ \A j \in Install \ {i} : seen'[j] = seen[j]
                       /\ Leases(Everything') = Leases(Everything) \cup {row}
                       /\ \A j \in Install : own[j] \subseteq own'[j] /\ View(j) \subseteq View(j)'
                       /\ row \in View(i)' /\ row \in own'[i]
           /\ UNCHANGED <<offset, leader, carried, lead, prior, known, pushed, alive>>
<1>1. Armed(i) /\ Granted(i)
  BY Unpinned DEF Grant, MayGrant
<1>2. PICK row : /\ Wrote(i, row) /\ row.kind = "lease" /\ row.gen = NextGen(i)
                 /\ Goes(i, seen[i] \cup {row})
  BY <1>1, GrantBase
<1>3. UNCHANGED <<offset, leader, carried, lead, prior, known, pushed, alive>>
  BY <1>1 DEF Granted
<1>4. lead[i] \in Gen /\ leader = <<i, lead[i]>>
  BY <1>1 DEF Armed, Routed, Base, Typed, Gen
<1>5. /\ Leases(Everything) \subseteq seen[i] \cup prior[i] /\ Single(prior[i])
      /\ carried \subseteq own[i] \cap pushed[i]
      /\ \A j \in Install \ {i} : Leases(own[j]) \subseteq pushed[j]
  BY <1>4 DEF Informed
<1>6. Leases(Everything) \subseteq View(i)
  BY <1>1, <1>5 DEF Armed, Base, Sighted
<1>7. seen'[i] = seen[i] \cup {row} /\ \A j \in Install \ {i} : seen'[j] = seen[j]
  BY <1>2, GoesOn
<1>8. /\ Leases(Everything') = Leases(Everything) \cup {row}
      /\ \A j \in Install : own[j] \subseteq own'[j] /\ View(j) \subseteq View(j)'
      /\ row \in View(i)' /\ row \in own'[i]
  BY <1>2, <1>3 DEF Wrote, Leases, View
<1> QED
  BY <1>2, <1>3, <1>4, <1>5, <1>6, <1>7, <1>8

\* The gen that it gives out is above those it goes by; one that is not below was
\* given out by the install it waited for, and so was this one.
LEMMA NextGenTold ==
    ASSUME Base, NEW i \in Install, Leases(Everything) \subseteq seen[i] \cup prior[i],
           Single(prior[i]), NEW f \in Leases(Everything), NextGen(i) <= f.gen
    PROVE  \E j \in Install : f \in own[j] /\ \E h \in Leases(own[j]) : h.gen = NextGen(i)
<1>1. PICK j \in Install : prior[i] \subseteq own[j]
  BY DEF Single
<1>2. /\ NextGen(i) \in Nat \ {0} /\ \A g \in Leases(Everything) : g.gen \in Nat
      /\ \A g \in Leases(seen[i]) : g.gen < NextGen(i)
  BY NextGenIs, LeaseIs DEF Gen
<1>3. ASSUME NEW g \in Leases(Everything), NextGen(i) <= g.gen PROVE g \in Leases(own[j])
  <2>1. g \notin seen[i]
    BY <1>2, <1>3 DEF Leases
  <2> QED
    BY <1>1, <2>1 DEF Leases
<1>4. f \in own[j]
  BY <1>3 DEF Leases
<1>5. \E h \in Leases(Everything) : h.gen = NextGen(i)
  <2>1. CASE f.gen = NextGen(i)
    BY <2>1
  <2>2. CASE f.gen # NextGen(i)
    <3>1. NextGen(i) \in 1 .. f.gen - 1
      BY <1>2, <2>2
    <3> QED
      BY <3>1 DEF Base, Counted
  <2> QED
    BY <2>1, <2>2
<1> QED
  BY <1>2, <1>3, <1>4, <1>5

LEMMA GrantTold ==
    ASSUME Base, Routed, Informed, Knows, Rising, NEW i \in Install, Grant(i)
    PROVE  Informed' /\ Knows' /\ Rising'
<1>1. /\ leader = <<i, lead[i]>> /\ lead[i] \in Gen
      /\ Leases(Everything) \subseteq View(i)
      /\ Leases(Everything) \subseteq seen[i] \cup prior[i] /\ Single(prior[i])
      /\ carried \subseteq own[i] \cap pushed[i]
      /\ \A j \in Install \ {i} : Leases(own[j]) \subseteq pushed[j]
      /\ UNCHANGED <<offset, leader, carried, lead, prior, known, pushed>>
  BY GrantIs
<1>2. PICK row : /\ Wrote(i, row) /\ row.kind = "lease" /\ row.gen = NextGen(i)
                 /\ seen'[i] = seen[i] \cup {row}
                 /\ Leases(Everything') = Leases(Everything) \cup {row}
                 /\ \A j \in Install : own[j] \subseteq own'[j] /\ View(j) \subseteq View(j)'
                 /\ row \in View(i)' /\ row \in own'[i]
  BY GrantIs
<1>3. /\ \A j \in Install : own'[j] = IF j = i THEN own[j] \cup {row} ELSE own[j]
      /\ \A f \in Leases(Everything) : Earlier(f, row) /\ ~Earlier(row, f)
      /\ ~Earlier(row, row)
  BY <1>2 DEF Wrote, Leases
<1>4. \A f, g : Earlier(f, g)' <=> Earlier(f, g)
  BY <1>1, Fixed
<1>5. Informed'
  <2>1. leader' # <<>> /\ \A j \in Install, n \in Gen : leader' = <<j, n>> => j = i
    BY <1>1
  <2>2. Single(prior[i])'
    BY <1>1, <1>2 DEF Single
  <2>3. /\ carried' \subseteq own'[i] \cap pushed'[i]
        /\ Leases(Everything') \subseteq seen'[i] \cup prior'[i]
        /\ \A j \in Install \ {i} : Leases(own'[j]) \subseteq pushed'[j]
    BY <1>1, <1>2, <1>3
  <2> QED
    BY <2>1, <2>2, <2>3 DEF Informed
<1>6. ASSUME NEW j \in Install, NEW f \in Leases(own'[j]), NEW g \in Leases(Everything'),
             Earlier(g, f)
      PROVE  g \in View(j)'
  <2>1. g # row
    <3>1. f \in Leases(Everything')
      BY EverythingIs DEF Leases, Everything
    <3> QED
      BY <1>2, <1>3, <1>6, <3>1
  <2>2. g \in Leases(Everything)
    BY <1>2, <2>1
  <2>3. CASE f = row
    <3>1. j = i
      <4>1. row \notin own[j]
        BY <1>2, EverythingIs DEF Wrote
      <4> QED
        BY <1>3, <2>3, <4>1 DEF Leases
    <3> QED
      BY <1>1, <1>2, <2>2, <3>1
  <2>4. CASE f # row
    <3>1. f \in Leases(own[j])
      BY <1>3, <2>4 DEF Leases
    <3> QED
      BY <1>2, <1>6, <2>2, <3>1 DEF Knows
  <2> QED
    BY <2>3, <2>4
<1>7. ASSUME NEW f \in Leases(Everything'), NEW g \in Leases(Everything'), Earlier(f, g),
             g.gen <= f.gen
      PROVE  \E j \in Install : f \in own'[j] /\ \E h \in Leases(own'[j]) : h.gen = g.gen
  <2>1. f \in Leases(Everything)
    BY <1>2, <1>3, <1>7
  <2>2. \E j \in Install : f \in own[j] /\ \E h \in Leases(own[j]) : h.gen = g.gen
    <3>1. CASE g = row
      BY <1>1, <1>2, <1>7, <2>1, <3>1, NextGenTold
    <3>2. CASE g # row
      BY <1>2, <1>7, <2>1, <3>2 DEF Rising
    <3> QED
      BY <3>1, <3>2
  <2>3. PICK j \in Install : f \in own[j] /\ \E h \in Leases(own[j]) : h.gen = g.gen
    BY <2>2
  <2> QED
    BY <1>2, <2>3 DEF Leases
<1>8. Knows'
  BY <1>4, <1>6 DEF Knows
<1>9. Rising'
  BY <1>4, <1>7 DEF Rising
<1> QED
  BY <1>5, <1>8, <1>9

\* A release or a note.
LEMMA PlainTold ==
    ASSUME Base, Informed, Knows, Rising, NEW i \in Install, NEW row, Wrote(i, row),
           row.kind \in {"released", "note"}, Saw(i, row),
           UNCHANGED <<offset, leader, carried, prior, known, pushed>>
    PROVE  Informed' /\ Knows' /\ Rising'
<1>1. /\ Knows' /\ Rising' /\ Leases(Everything') = Leases(Everything)
      /\ \A j \in Install : own[j] \subseteq own'[j] /\ Leases(own'[j]) = Leases(own[j])
  BY RowKeeps
<1>2. \A j \in Install : seen[j] \subseteq seen'[j]
  BY DEF Saw, Base, Sighted
<1>3. leader' = <<>> => Leases(Everything') = {} /\ carried' = {}
  BY <1>1 DEF Informed
<1>4. ASSUME NEW j \in Install, NEW n \in Gen, leader' = <<j, n>>
      PROVE  /\ carried' \subseteq own'[j] \cap pushed'[j]
             /\ Leases(Everything') \subseteq seen'[j] \cup prior'[j]
             /\ Single(prior[j])'
             /\ \A k \in Install \ {j} : Leases(own'[k]) \subseteq pushed'[k]
  <2>1. /\ carried \subseteq own[j] \cap pushed[j]
        /\ Leases(Everything) \subseteq seen[j] \cup prior[j]
        /\ Single(prior[j])
        /\ \A k \in Install \ {j} : Leases(own[k]) \subseteq pushed[k]
    BY <1>4 DEF Informed
  <2>2. Single(prior[j])'
    <3>1. PICK k \in Install : prior[j] \subseteq own[k]
      BY <2>1 DEF Single
    <3> QED
      BY <1>1, <3>1 DEF Single
  <2> QED
    BY <1>1, <1>2, <2>1, <2>2
<1> QED
  BY <1>1, <1>3, <1>4 DEF Informed

\* Nothing is written, and nothing forgotten; what a lease carries is of its
\* router, and pushed.
LEMMA QuietTold ==
    ASSUME Base, Informed, Knows, Rising, UNCHANGED <<offset, own, leader, prior>>, Looked,
           \A j \in Install : known[j] \subseteq known'[j] /\ pushed[j] \subseteq pushed'[j],
           \/ carried' = carried
           \/ \E j \in Install : /\ \E n : leader = <<j, n>>
                                 /\ carried' = own[j] /\ pushed'[j] = own[j]
    PROVE  Informed' /\ Knows' /\ Rising'
<1>1. Knows' /\ Rising' /\ Everything' = Everything
  BY SameKeeps
<1>2. \A j \in Install : seen[j] \subseteq seen'[j]
  BY DEF Looked, Base, Sighted
<1>3. leader' = <<>> => Leases(Everything') = {} /\ carried' = {}
  BY <1>1 DEF Informed
<1>4. ASSUME NEW j \in Install, NEW n \in Gen, leader = <<j, n>>
      PROVE  /\ carried' \subseteq own[j] \cap pushed'[j]
             /\ Leases(Everything) \subseteq seen'[j] \cup prior[j]
             /\ Single(prior[j])
             /\ \A k \in Install \ {j} : Leases(own[k]) \subseteq pushed'[k]
  <2>1. /\ carried \subseteq own[j] \cap pushed[j]
        /\ Leases(Everything) \subseteq seen[j] \cup prior[j]
        /\ Single(prior[j])
        /\ \A k \in Install \ {j} : Leases(own[k]) \subseteq pushed[k]
    BY <1>4 DEF Informed
  <2>2. \A k \in Install : \A m : leader = <<k, m>> => k = j
    BY <1>4
  <2>3. carried' \subseteq own[j] \cap pushed'[j]
    BY <2>1, <2>2
  <2> QED
    BY <1>2, <2>1, <2>3
<1> QED
  BY <1>1, <1>3, <1>4 DEF Informed, Single

LEMMA NoPins == ASSUME Alone, Routed, NEW i \in Install, Pin(i) PROVE FALSE
<1>1. Pins(Everything) = {} /\ Cardinality(Pins(Everything)) < 0
  BY DEF Pin, Alone, Routed
<1> QED
  BY <1>1, FS_EmptySet

\* What writes nothing.
Quiet ==
    \/ \E i \in Install : \/ Read(i) \/ StepDown(i) \/ PushLedger(i) \/ StartBody(i)
                          \/ \E peers \in SUBSET (Install \ {i}) : Sync(i, peers)
    \/ \E s \in alive : Exit(s)
    \/ UNCHANGED vars

\* It forgets nothing, a tick goes by no more than it has, and what comes to a disk
\* comes with all that was pushed of its ledger.
LEMMA QuietIs ==
    ASSUME Base, Quiet
    PROVE  /\ UNCHANGED <<offset, own, leader, prior>> /\ Looked
           /\ \A j \in Install :
                 /\ known[j] \subseteq known'[j] /\ pushed[j] \subseteq pushed'[j]
                 /\ \A f \in known'[j] \ known[j] : \E k \in Install :
                        f \in pushed[k] /\ pushed[k] \subseteq known'[j]
           /\ \/ carried' = carried
              \/ \E j \in Install : /\ \E n : leader = <<j, n>>
                                    /\ carried' = own[j] /\ pushed'[j] = own[j]
<1>1. ASSUME UNCHANGED <<offset, own, leader, prior, carried, known, pushed>>, Looked
      PROVE  /\ \A j \in Install :
                   /\ known[j] \subseteq known'[j] /\ pushed[j] \subseteq pushed'[j]
                   /\ known'[j] \ known[j] = {}
  BY <1>1
<1>2. ASSUME NEW i \in Install, Read(i) \/ StartBody(i)
      PROVE  UNCHANGED <<offset, own, leader, prior, carried, known, pushed>> /\ Looked
  <2>1. Goes(i, View(i))
    BY <1>2 DEF Read, StartBody
  <2> QED
    BY <1>2, <2>1, GoesOn DEF Read, StartBody, Looked
<1>3. ASSUME \/ \E i \in Install : StepDown(i)
             \/ \E s \in alive : Exit(s)
             \/ UNCHANGED vars
      PROVE  UNCHANGED <<offset, own, leader, prior, carried, known, pushed>> /\ Looked
  <2>1. UNCHANGED <<offset, own, leader, prior, carried, known, seen, pushed>>
    BY <1>3 DEF StepDown, Exit, vars
  <2> QED
    BY <2>1 DEF Looked, Base, Typed
<1>4. ASSUME NEW i \in Install, PushLedger(i)
      PROVE  /\ UNCHANGED <<offset, own, leader, prior, known>> /\ Looked
             /\ \A j \in Install : pushed[j] \subseteq pushed'[j]
             /\ \/ carried' = carried
                \/ \E j \in Install : /\ \E n : leader = <<j, n>>
                                      /\ carried' = own[j] /\ pushed'[j] = own[j]
  <2>1. /\ UNCHANGED <<offset, own, leader, prior, known>> /\ Goes(i, View(i))
        /\ pushed' = [pushed EXCEPT ![i] = own[i]]
        /\ carried' = carried \/ (leader = <<i, lead[i]>> /\ carried' = own[i])
    BY <1>4 DEF PushLedger
  <2>2. Looked
    BY <2>1, GoesOn DEF Looked
  <2>3. \A j \in Install : pushed[j] \subseteq pushed'[j]
    BY <2>1 DEF Base, Typed, Copied
  <2>4. pushed'[i] = own[i]
    BY <2>1 DEF Base, Typed
  <2> QED
    BY <2>1, <2>2, <2>3, <2>4
<1>5. ASSUME NEW i \in Install, NEW peers \in SUBSET (Install \ {i}), Sync(i, peers)
      PROVE  /\ UNCHANGED <<offset, own, leader, prior, carried, pushed>> /\ Looked
             /\ \A j \in Install :
                   /\ known[j] \subseteq known'[j]
                   /\ \A f \in known'[j] \ known[j] : \E k \in Install :
                          f \in pushed[k] /\ pushed[k] \subseteq known'[j]
  <2>1. /\ UNCHANGED <<offset, own, leader, prior, carried, pushed>> /\ Goes(i, View(i))
        /\ known' = [known EXCEPT ![i] = known[i] \cup UNION {pushed[j] : j \in peers}]
    BY <1>5 DEF Sync
  <2>2. Looked
    BY <2>1, GoesOn DEF Looked
  <2>3. \A j \in Install : known'[j] = IF j = i THEN known[j] \cup UNION {pushed[k] : k \in peers}
                                       ELSE known[j]
    BY <2>1 DEF Base, Typed
  <2>4. ASSUME NEW j \in Install, NEW f \in known'[j] \ known[j]
        PROVE  \E k \in Install : f \in pushed[k] /\ pushed[k] \subseteq known'[j]
    <3> DEFINE got == UNION {pushed[k] : k \in peers}
    <3>1. f \in got /\ known'[j] = known[j] \cup got
      BY <2>3
    <3>2. PICK k \in peers : f \in pushed[k]
      BY <3>1
    <3>3. pushed[k] \subseteq got /\ k \in Install
      OBVIOUS
    <3> QED
      BY <3>1, <3>2, <3>3
  <2> QED
    BY <2>1, <2>2, <2>3, <2>4
<1>6. CASE \E i \in Install : Read(i) \/ StartBody(i)
  BY <1>1, <1>2, <1>6
<1>7. CASE (\E i \in Install : StepDown(i)) \/ (\E s \in alive : Exit(s)) \/ UNCHANGED vars
  BY <1>1, <1>3, <1>7
<1>8. CASE \E i \in Install : PushLedger(i)
  BY <1>4, <1>8
<1>9. CASE \E i \in Install : \E peers \in SUBSET (Install \ {i}) : Sync(i, peers)
  BY <1>5, <1>9
<1> QED
  BY <1>6, <1>7, <1>8, <1>9 DEF Quiet

\* A step writes nothing, or a row: a router's, a lease, a release or a note.
LEMMA Steps ==
    ASSUME Alone, Routed, [Next]_vars
    PROVE  \/ Quiet
           \/ \E i \in Install : \/ Take(i) \/ Grant(i) \/ Release(i) \/ Abandon(i)
                                 \/ \E f \in Leases(own[i]) : IngestNote(i, f)
  BY NoPins DEF Next, Quiet

LEMMA StepTold ==
    ASSUME Base, Alone, Told, Routed, Informed, Knows, Rising, [Next]_vars
    PROVE  Informed' /\ Knows' /\ Rising'
<1>1. ASSUME NEW i \in Install, Take(i) PROVE Informed' /\ Knows' /\ Rising'
  BY <1>1, TakeTold
<1>2. ASSUME NEW i \in Install, Grant(i) PROVE Informed' /\ Knows' /\ Rising'
  BY <1>2, GrantTold
<1>3. ASSUME NEW i \in Install, Release(i) \/ Abandon(i) PROVE Informed' /\ Knows' /\ Rising'
  <2>1. PICK row : Wrote(i, row) /\ row.kind = "released" /\ Saw(i, row)
    BY <1>3, StepReleases
  <2>2. UNCHANGED <<offset, leader, carried, prior, known, pushed>>
    BY <1>3 DEF Release, Abandon
  <2> QED
    BY <2>1, <2>2, PlainTold
<1>4. ASSUME NEW i \in Install, NEW f \in Leases(own[i]), IngestNote(i, f)
      PROVE  Informed' /\ Knows' /\ Rising'
  <2>1. PICK row : /\ Wrote(i, row) /\ row.kind = "note" /\ Saw(i, row)
                   /\ UNCHANGED <<world, offset, leader, carried, lead, prior, known, pushed>>
    BY <1>4, NoteBase
  <2> QED
    BY <2>1, PlainTold
<1>5. CASE Quiet
  BY <1>5, QuietIs, QuietTold
<1> QED
  BY <1>1, <1>2, <1>3, <1>4, <1>5, Steps

-----------------------------------------------------------------------------
(* Calm *)

\* A router that takes over has, with each lease, those before it: of the router
\* before it by the guard of Take, and of the others all.
LEMMA TakeOlder ==
    ASSUME Base, Told, Informed, world.skew = 0, NEW i \in Install, Take(i)
    PROVE  Older'
<1> DEFINE row == RouterRow(i, LastGen + 1)
<1>1. Wrote(i, row) /\ row.kind = "router"
  BY TakeBase DEF RouterRow
<1>2. /\ leader' = <<i, LastGen + 1>> /\ Goes(i, View(i) \cup {row}) /\ UNCHANGED <<offset, known>>
      /\ leader # <<>> =>
            /\ Leases(own[leader[1]]) \subseteq carried
            /\ leader[1] # i \/ prior[i] \subseteq View(i)
            /\ leader[1] = i \/
                  /\ \A j \in Install \ {leader[1]} : Leases(pushed[j]) \subseteq View(i)
                  /\ \A f \in Leases(pushed[leader[1]]) :
                        (\E g \in Leases(View(i)) : Before(f, g)) => f \in View(i)
  <2>1. leader # <<>> => leader[1] \in Install
    BY DEF Base, Typed
  <2> QED
    BY <2>1 DEF Take, MayTake, Told
<1> HIDE DEF row
<1>3. /\ seen'[i] = View(i) \cup {row} /\ Leases(View(i)') = Leases(View(i))
      /\ View(i) \subseteq View(i)' /\ Leases(Everything') = Leases(Everything)
  BY <1>1, <1>2, RowKeeps, GoesOn
<1>4. \A f, g : Earlier(f, g)' <=> Earlier(f, g)
  BY <1>2, Fixed
<1>5. \A f, g \in Everything : Before(f, g) <=> Earlier(f, g)
  BY Stamped
<1>6. ASSUME NEW g \in Leases(Everything), NEW f \in Leases(View(i)), Earlier(g, f)
      PROVE  g \in View(i)
  <2>1. leader # <<>>
    BY DEF Informed
  <2>2. PICK k \in Install, n \in Gen : leader = <<k, n>>
    BY <2>1 DEF Base, Typed
  <2>3. leader[1] = k
    BY <2>2
  <2>4. /\ carried \subseteq own[k] \cap pushed[k]
        /\ Leases(Everything) \subseteq seen[k] \cup prior[k]
        /\ \A j \in Install \ {k} : Leases(own[j]) \subseteq pushed[j]
    BY <2>2 DEF Informed
  <2>5. PICK j \in Install : g \in Leases(own[j])
    BY EverythingIs DEF Leases
  <2>6. CASE k = i
    BY <1>2, <2>1, <2>3, <2>4, <2>6 DEF Base, Sighted
  <2>7. CASE k # i /\ j = k
    <3>1. g \in Leases(pushed[k])
      BY <1>2, <2>1, <2>3, <2>4, <2>5, <2>7 DEF Leases
    <3>2. Before(g, f)
      BY <1>5, <1>6, FactsAre DEF Leases
    <3> QED
      BY <1>2, <2>1, <2>3, <2>7, <3>1, <3>2
  <2>8. CASE k # i /\ j # k
    <3>1. g \in Leases(pushed[j])
      BY <2>4, <2>5, <2>8 DEF Leases
    <3> QED
      BY <1>2, <2>1, <2>3, <2>8, <3>1
  <2> QED
    BY <2>6, <2>7, <2>8
<1>7. Leases(seen'[i]) = Leases(View(i))
  BY <1>1, <1>3 DEF Leases
<1>8. ASSUME NEW g \in Leases(Everything')
      PROVE  /\ \A f \in Leases(View(i)') : Earlier(g, f) => g \in View(i)'
             /\ \A f \in Leases(seen'[i]) : Earlier(g, f) => g \in seen'[i]
  BY <1>3, <1>6, <1>7
<1>9. \A j \in Install, n \in Gen : leader' = <<j, n>> => j = i
  BY <1>2
<1> QED
  BY <1>4, <1>8, <1>9 DEF Older

\* It keeps them as it grants, for its own lease is not another's,
LEMMA GrantOlder ==
    ASSUME Base, Routed, Informed, Older, NEW i \in Install, Grant(i)
    PROVE  Older'
<1>1. /\ leader = <<i, lead[i]>> /\ lead[i] \in Gen /\ Leases(Everything) \subseteq View(i)
      /\ UNCHANGED <<offset, leader, known>>
  BY GrantIs
<1>2. PICK row : /\ Wrote(i, row) /\ seen'[i] = seen[i] \cup {row}
                 /\ Leases(Everything') = Leases(Everything) \cup {row}
                 /\ \A j \in Install : own[j] \subseteq own'[j] /\ View(j) \subseteq View(j)'
                 /\ row \in View(i)' /\ row \in own'[i]
  BY GrantIs
<1>3. \A f, g : Earlier(f, g)' <=> Earlier(f, g)
  BY <1>1, Fixed
<1>4. ASSUME NEW g \in Leases(Everything'), NEW f \in Leases(seen'[i]) \ own'[i], Earlier(g, f)
      PROVE  g \in seen'[i]
  <2>1. f # row /\ f \in Leases(seen[i]) \ own[i]
    BY <1>2, <1>4 DEF Leases
  <2>2. g = row \/ g \in seen[i]
    BY <1>1, <1>2, <1>4, <2>1 DEF Older
  <2> QED
    BY <1>2, <2>2
<1>5. \A g \in Leases(Everything') : g \in View(i)'
  BY <1>1, <1>2
<1>6. \A j \in Install, n \in Gen : leader' = <<j, n>> => j = i
  BY <1>1
<1> QED
  BY <1>3, <1>4, <1>5, <1>6 DEF Older

\* as somebody writes what is no lease,
LEMMA RowOlder ==
    ASSUME Base, Older, NEW i \in Install, NEW row, Wrote(i, row), row.kind # "lease",
           Saw(i, row), UNCHANGED <<offset, leader, known>>
    PROVE  Older'
<1>1. /\ Leases(Everything') = Leases(Everything)
      /\ \A j \in Install : /\ View(j) \subseteq View(j)' /\ own[j] \subseteq own'[j]
                            /\ Leases(View(j)') = Leases(View(j))
  BY RowKeeps
<1>2. \A f, g : Earlier(f, g)' <=> Earlier(f, g)
  BY Fixed
<1> SUFFICES ASSUME NEW j \in Install, NEW n \in Gen, leader = <<j, n>>,
                    NEW g \in Leases(Everything)
             PROVE  /\ \A f \in Leases(View(j)) : Earlier(g, f) => g \in View(j)'
                    /\ \A f \in Leases(seen'[j]) \ own'[j] : Earlier(g, f) => g \in seen'[j]
  BY <1>1, <1>2 DEF Older
<1>3. /\ \A f \in Leases(View(j)) : Earlier(g, f) => g \in View(j)
      /\ \A f \in Leases(seen[j]) \ own[j] : Earlier(g, f) => g \in seen[j]
  BY DEF Older
<1>4. CASE Leases(seen'[j]) = Leases(seen[j]) /\ seen[j] \subseteq seen'[j]
  BY <1>1, <1>3, <1>4
<1>5. CASE Leases(seen'[j]) = Leases(View(j)) /\ View(j) \subseteq seen'[j]
  BY <1>1, <1>3, <1>5
<1>6. \/ Leases(seen'[j]) = Leases(seen[j]) /\ seen[j] \subseteq seen'[j]
      \/ Leases(seen'[j]) = Leases(View(j)) /\ View(j) \subseteq seen'[j]
  <2>1. CASE j # i
    BY <2>1 DEF Saw
  <2>2. CASE j = i
    BY <2>2 DEF Saw, Leases
  <2> QED
    BY <2>1, <2>2
<1> QED
  BY <1>4, <1>5, <1>6

\* and as a fetch brings a lease that it waited for, with all before it of that
\* ledger.
LEMMA QuietOlder ==
    ASSUME Base, Informed, Older, Quiet
    PROVE  Older'
<1>1. /\ UNCHANGED <<offset, own, leader>> /\ Looked
      /\ \A j \in Install :
            /\ known[j] \subseteq known'[j]
            /\ \A f \in known'[j] \ known[j] : \E k \in Install :
                   f \in pushed[k] /\ pushed[k] \subseteq known'[j]
  BY QuietIs
<1>2. Everything' = Everything /\ \A f, g : Earlier(f, g)' <=> Earlier(f, g)
  BY <1>1, Fixed DEF Everything
<1> SUFFICES ASSUME NEW i \in Install, NEW n \in Gen, leader = <<i, n>>,
                    NEW g \in Leases(Everything)
             PROVE  /\ \A f \in Leases(View(i)') : Earlier(g, f) => g \in View(i)'
                    /\ \A f \in Leases(seen'[i]) \ own[i] : Earlier(g, f) => g \in seen'[i]
  BY <1>1, <1>2 DEF Older
<1>3. /\ \A f \in Leases(View(i)) : Earlier(g, f) => g \in View(i)
      /\ \A f \in Leases(seen[i]) \ own[i] : Earlier(g, f) => g \in seen[i]
  BY DEF Older
<1>4. /\ Leases(Everything) \subseteq seen[i] \cup prior[i] /\ Single(prior[i])
      /\ seen[i] \subseteq View(i) /\ View(i) \subseteq View(i)'
  BY <1>1 DEF Informed, Base, Sighted, View
<1>5. ASSUME NEW f \in Leases(View(i)'), Earlier(g, f) PROVE g \in View(i)'
  <2>1. CASE f \in View(i)
    BY <1>3, <1>4, <1>5, <2>1 DEF Leases
  <2>2. CASE f \notin View(i)
    <3>1. f \in known'[i] \ known[i]
      BY <1>1, <2>2 DEF View, Leases
    <3>2. PICK k \in Install : f \in pushed[k] /\ pushed[k] \subseteq known'[i]
      BY <1>1, <3>1
    <3>3. f \in own[k] /\ f \in Leases(Everything) /\ f \notin seen[i]
      <4>1. f \in own[k]
        BY <3>2 DEF Base, Copied
      <4> QED
        BY <1>4, <2>2, <4>1, FactsAre DEF Leases
    <3>4. PICK j \in Install : prior[i] \subseteq own[j]
      BY <1>4 DEF Single
    <3>5. j = k
      BY <1>4, <3>3, <3>4, OneWriter
    <3>6. CASE g \in seen[i]
      BY <1>4, <3>6
    <3>7. CASE g \notin seen[i]
      <4>1. g \in own[k]
        BY <1>4, <3>4, <3>5, <3>7
      <4>2. g \in pushed[k]
        BY <1>5, <3>2, <4>1 DEF Base, Heads
      <4> QED
        BY <3>2, <4>2 DEF View
    <3> QED
      BY <3>6, <3>7
  <2> QED
    BY <2>1, <2>2
<1>6. \A f \in Leases(seen'[i]) \ own[i] : Earlier(g, f) => g \in seen'[i]
  BY <1>1, <1>3, <1>4 DEF Looked, Leases
<1> QED
  BY <1>5, <1>6

\* The rows of a grant stay with the lease that holds the thread.
LEMMA FirmStays ==
    ASSUME Base, Firm, UNCHANGED offset, \A f : First(f) => First(f)',
           \A r \in Releases(Everything') \cup Notes(Everything') : r \in Everything
               \/ \E f : First(f) /\ f.gen = r.gen /\ f.strand = r.strand /\ Earlier(f, r),
           \A s \in alive' : s \in alive \/ \E f : First(f) /\ f.strand = s
    PROVE  Firm'
<1>1. \A f, g : Earlier(f, g)' <=> Earlier(f, g)
  BY Fixed
<1>2. ASSUME NEW r \in Releases(Everything') \cup Notes(Everything')
      PROVE  \E f : First(f) /\ f.gen = r.gen /\ f.strand = r.strand /\ Earlier(f, r)
  <2>1. CASE r \in Everything
    BY <2>1 DEF Firm, Releases, Notes
  <2> QED
    BY <2>1
<1>3. \A s \in alive' : \E f : First(f) /\ f.strand = s
  BY DEF Firm
<1> QED
  BY <1>1, <1>2, <1>3 DEF Firm

\* A strand is started by a lease of its install that holds the thread there.
LEMMA QuietFirm ==
    ASSUME Base, Routed, Knows, Firm, world.skew = 0, Quiet
    PROVE  Firm'
<1>1. UNCHANGED <<offset, own>>
  BY QuietIs
<1>2. Everything' = Everything /\ \A f : First(f) => First(f)'
  BY <1>1, FirstsStay DEF Everything
<1>3. ASSUME NEW s \in alive' PROVE s \in alive \/ \E f : First(f) /\ f.strand = s
  <2>1. CASE alive' \subseteq alive
    BY <2>1
  <2>2. ASSUME NEW i \in Install, StartBody(i) PROVE s \in alive \/ \E f : First(f) /\ f.strand = s
    <3>1. PICK f \in Leases(own[i]) : /\ Fold(View(i)).holder[thread] = <<f.strand, f.gen>>
                                      /\ alive' = alive \cup {f.strand}
      BY <2>2 DEF StartBody
    <3>2. First(f)
      BY <3>1, HolderFirst
    <3> QED
      BY <3>1, <3>2
  <2>3. alive' \subseteq alive \/ \E i \in Install : StartBody(i)
    BY DEF Quiet, Read, StepDown, PushLedger, Sync, Exit, vars
  <2> QED
    BY <2>1, <2>2, <2>3
<1> QED
  BY <1>1, <1>2, <1>3, FirmStays DEF Releases, Notes

\* A release and a note are of the lease that holds the thread.
LEMMA RowFirm ==
    ASSUME Base, Firm, NEW i \in Install, NEW row, Wrote(i, row), UNCHANGED <<offset, alive>>,
           row.kind \in {"released", "note"} => \E f : First(f) /\ SameGrant(row, f)
    PROVE  Firm'
<1>1. /\ \A f : First(f) => First(f)'
      /\ Everything' = Everything \cup {row} /\ \A f \in Everything : Earlier(f, row)
  BY FirstsStay DEF Wrote
<1>2. \A f : First(f) => f \in Everything
  BY DEF First, Leases
<1>3. ASSUME NEW r \in Releases(Everything') \cup Notes(Everything')
      PROVE  r \in Everything
             \/ \E f : First(f) /\ f.gen = r.gen /\ f.strand = r.strand /\ Earlier(f, r)
  <2>1. CASE r # row
    BY <1>1, <2>1 DEF Releases, Notes
  <2>2. CASE r = row
    <3>1. PICK f : First(f) /\ SameGrant(row, f)
      BY <2>2 DEF Releases, Notes
    <3> QED
      BY <1>1, <1>2, <2>2, <3>1 DEF SameGrant
  <2> QED
    BY <2>1, <2>2
<1> QED
  BY <1>1, <1>3, FirmStays

\* A gen is given out once the one before it was released: if the tick goes by a
\* lease of it, nobody holds the thread, and the last of the leases was released.
LEMMA GrantTurn ==
    ASSUME Base, Routed, Informed, Rising, InTurn, world.skew = 0, NEW i \in Install, Grant(i)
    PROVE  InTurn'
<1>1. /\ Leases(Everything) \subseteq seen[i] \cup prior[i] /\ Single(prior[i])
      /\ UNCHANGED offset
  BY GrantIs
<1>2. PICK row : /\ Wrote(i, row) /\ row.kind = "lease" /\ row.gen = NextGen(i)
                 /\ Leases(Everything') = Leases(Everything) \cup {row}
  BY GrantIs
<1>3. /\ \A f \in Everything : Earlier(f, row)
      /\ Releases(Everything') = Releases(Everything)
  BY <1>2 DEF Wrote, Releases
<1>4. \A f, g : Earlier(f, g)' <=> Earlier(f, g)
  BY <1>1, Fixed
<1>5. /\ NextGen(i) \in Nat \ {0} /\ \A f \in Leases(Everything) : f.gen \in Nat \ {0}
  BY NextGenIs, LeaseIs DEF Gen
<1>6. ASSUME NextGen(i) # 1
      PROVE  \E r \in Releases(Everything) : r.gen + 1 = NextGen(i)
  <2> DEFINE V == seen[i]
             K == Kept(V)
  <2>1. PICK x \in Leases(V) \cup Releases(V) : NextGen(i) = x.gen + 1
    BY <1>6, NextGenIs
  <2>2. /\ Tells(Fold(V), K) /\ V \subseteq Everything /\ Owned(V) /\ K \subseteq V
        /\ Fold(V).holder[thread] = Nobody
    BY ViewTells DEF Grant
  <2>3. /\ \A f \in Leases(V) \cup Releases(V) : \E q \in K :
              q.kind = f.kind /\ q.gen = f.gen
        /\ \A f, g \in Leases(K) : Earlier(f, g) => f.gen < g.gen
    BY <2>2, KeptNow, KeptRise
  <2>4. \A f \in Leases(V) : f.gen < NextGen(i) /\ f \in Leases(Everything)
    BY <2>2, NextGenIs DEF Leases
  <2>5. \A f, g \in Everything : Before(f, g) <=> Earlier(f, g)
    BY Stamped
  <2> HIDE DEF V, K
  <2>6. CASE x \in Releases(V)
    BY <2>1, <2>2, <2>6 DEF Releases
  <2>7. CASE x \in Leases(V)
    <3>1. PICK q \in Leases(K) : q.gen = x.gen
      BY <2>3, <2>7 DEF Leases
    <3>2. PICK h : LastLease(h, K) /\ IsReleased(h, K)
      BY <2>2, <3>1 DEF Tells, TellsHolder
    <3>3. h \in Leases(K) /\ h \in Leases(V) /\ q \in Leases(V) /\ (h = q \/ Before(q, h))
      BY <2>2, <3>1, <3>2 DEF LastLease, Leases
    <3>4. h = q \/ q.gen < h.gen
      BY <2>3, <2>4, <2>5, <3>1, <3>3 DEF Leases
    <3>5. h.gen = x.gen
      BY <1>5, <2>1, <2>4, <2>7, <3>1, <3>3, <3>4
    <3>6. PICK r \in Releases(K) : r.gen = h.gen
      BY <3>2 DEF IsReleased, SameGrant
    <3> QED
      BY <2>1, <2>2, <3>5, <3>6 DEF Releases
  <2> QED
    BY <2>6, <2>7
<1>7. ASSUME NEW f \in Leases(Everything), f.gen < NextGen(i)
      PROVE  \E r \in Releases(Everything) : r.gen = f.gen
  <2>1. NextGen(i) # 1
    BY <1>5, <1>7
  <2>2. PICK r \in Releases(Everything) : r.gen + 1 = NextGen(i)
    BY <1>6, <2>1
  <2>3. PICK e \in Leases(Everything) : e.gen = r.gen
    <3>1. PICK j \in Install : r \in Releases(own[j])
      BY EverythingIs DEF Releases
    <3>2. \E e \in Leases(View(j)) : e.gen = r.gen
      BY <3>1 DEF Base, Grounded
    <3> QED
      BY <3>2, FactsAre DEF Leases
  <2>4. f.gen = e.gen \/ f.gen < e.gen
    BY <1>5, <1>7, <2>2, <2>3
  <2> QED
    BY <2>2, <2>3, <2>4 DEF InTurn
\* A gen above the one given out is of the ledger waited for, which has a lease of
\* it before.
<1>8. ASSUME NEW g \in Leases(Everything), NextGen(i) < g.gen
      PROVE  \E r \in Releases(Everything) : r.gen = NextGen(i) /\ Earlier(r, g)
  <2>1. PICK j \in Install : \E h \in Leases(own[j]) : h.gen = NextGen(i)
    BY <1>1, <1>5, <1>8, NextGenTold
  <2>2. PICK h \in Leases(own[j]) : h.gen = NextGen(i)
    BY <2>1
  <2>3. h \in Leases(Everything)
    BY FactsAre DEF Leases
  <2> QED
    BY <1>8, <2>2, <2>3 DEF InTurn
<1>9. ASSUME NEW f \in Leases(Everything'), NEW g \in Leases(Everything'), f.gen < g.gen
      PROVE  \E r \in Releases(Everything') : r.gen = f.gen /\ Earlier(r, g)
  <2>1. CASE f = row /\ g = row
    BY <1>2, <1>5, <1>9, <2>1
  <2>2. CASE f = row /\ g # row
    BY <1>2, <1>3, <1>8, <1>9, <2>2
  <2>3. CASE f # row /\ g = row
    <3>1. PICK r \in Releases(Everything) : r.gen = f.gen
      BY <1>2, <1>7, <1>9, <2>3
    <3> QED
      BY <1>3, <2>3, <3>1 DEF Releases
  <2>4. CASE f # row /\ g # row
    BY <1>2, <1>3, <1>9, <2>4 DEF InTurn
  <2> QED
    BY <2>1, <2>2, <2>3, <2>4
<1> QED
  BY <1>4, <1>9 DEF InTurn

\* A release or a note, in calm.
LEMMA PlainCalm ==
    ASSUME Base, Older, Firm, InTurn, NEW i \in Install, NEW row, Wrote(i, row), Saw(i, row),
           row.kind \in {"released", "note"}, UNCHANGED <<offset, leader, known, alive>>,
           NEW f, First(f), SameGrant(row, f)
    PROVE  Older' /\ Firm' /\ InTurn'
  BY RowOlder, RowFirm, RowKeeps

LEMMA StepCalm ==
    ASSUME Base, Calm, Routed, Informed, Knows, Rising, Older, Firm, InTurn, [Next]_vars
    PROVE  Older' /\ Firm' /\ InTurn'
<1>1. Alone /\ Told /\ world.skew = 0
  BY DEF Calm
<1>2. ASSUME NEW i \in Install, Take(i) PROVE Older' /\ Firm' /\ InTurn'
  <2>1. Wrote(i, RouterRow(i, LastGen + 1)) /\ RouterRow(i, LastGen + 1).kind = "router"
    BY <1>2, TakeBase DEF RouterRow
  <2>2. UNCHANGED <<offset, known, alive>>
    BY <1>2 DEF Take
  <2> QED
    BY <1>1, <1>2, <2>1, <2>2, TakeOlder, RowFirm, RowKeeps
<1>3. ASSUME NEW i \in Install, Grant(i) PROVE Older' /\ Firm' /\ InTurn'
  <2>1. PICK row : Wrote(i, row) /\ row.kind = "lease"
    BY <1>3, GrantIs
  <2>2. UNCHANGED <<offset, alive>>
    BY <1>3, GrantIs
  <2> QED
    BY <1>1, <1>3, <2>1, <2>2, GrantOlder, GrantTurn, RowFirm
<1>4. ASSUME NEW i \in Install, Release(i) \/ Abandon(i) PROVE Older' /\ Firm' /\ InTurn'
  <2>1. PICK row, f : /\ Wrote(i, row) /\ Saw(i, row)
                      /\ row.kind = "released" /\ SameGrant(row, f)
                      /\ \/ f \in Leases(own[i]) /\ Fold(View(i)).holder[thread] = <<f.strand, f.gen>>
                         \/ /\ f \in Leases(seen[i]) \ own[i] /\ Armed(i)
                            /\ Fold(seen[i]).holder[thread] = <<f.strand, f.gen>>
    BY <1>4, StepReleases
  <2>2. UNCHANGED <<offset, leader, known, alive>>
    BY <1>4 DEF Release, Abandon
  <2>3. First(f)
    <3>1. CASE f \in Leases(own[i]) /\ Fold(View(i)).holder[thread] = <<f.strand, f.gen>>
      BY <1>1, <3>1, HolderFirst
    <3>2. CASE /\ f \in Leases(seen[i]) \ own[i] /\ Armed(i)
               /\ Fold(seen[i]).holder[thread] = <<f.strand, f.gen>>
      <4>1. lead[i] \in Gen /\ leader = <<i, lead[i]>>
        BY <3>2 DEF Armed, Routed, Base, Typed, Gen
      <4>2. \A g \in Leases(Everything) : Earlier(g, f) => g \in seen[i]
        BY <3>2, <4>1 DEF Older
      <4>3. f \in Leases(Everything)
        BY <3>2, FactsAre DEF Leases
      <4> QED
        BY <1>1, <3>2, <4>2, <4>3, HeldFirst
    <3> QED
      BY <2>1, <3>1, <3>2
  <2> QED
    BY <2>1, <2>2, <2>3, PlainCalm
<1>5. ASSUME NEW i \in Install, NEW f \in Leases(own[i]), IngestNote(i, f)
      PROVE  Older' /\ Firm' /\ InTurn'
  <2>1. PICK row : /\ Wrote(i, row) /\ row.kind = "note" /\ Saw(i, row)
                   /\ row.strand = f.strand /\ row.gen = f.gen
    BY <1>5, NoteBase
  <2>2. UNCHANGED <<offset, leader, known, alive>> /\ f.strand \in alive
    BY <1>5 DEF IngestNote
  <2>3. First(f)
    <3>1. PICK h : First(h) /\ h.strand = f.strand
      BY <2>2 DEF Firm
    <3>2. h = f
      BY <3>1, FactsAre, LeaseIs DEF First, Leases
    <3> QED
      BY <3>1, <3>2
  <2> QED
    BY <2>1, <2>2, <2>3, PlainCalm DEF SameGrant
<1>6. CASE Quiet
  <2>1. InTurn'
    BY <1>6, QuietIs, SameKeeps
  <2> QED
    BY <1>1, <1>6, <2>1, QuietOlder, QuietFirm
<1> QED
  BY <1>1, <1>2, <1>3, <1>4, <1>5, <1>6, Steps

-----------------------------------------------------------------------------
(* The invariants of the runs *)

LEMMA InitTurns ==
    Init => Routed /\ Informed /\ Knows /\ Rising /\ Older /\ Firm /\ InTurn
<1> SUFFICES ASSUME Init PROVE Routed /\ Informed /\ Knows /\ Rising /\ Older /\ Firm /\ InTurn
  OBVIOUS
<1>1. /\ leader = <<>> /\ carried = {} /\ lead = [i \in Install |-> 0] /\ alive = {}
      /\ own = [i \in Install |-> IF i = 1 THEN {LetterRow(i)} ELSE {}]
  BY DEF Init
<1>2. \A f \in Everything : f.kind = "letter"
  <2>1. \A i \in Install : \A f \in own[i] : f = LetterRow(i)
    BY <1>1
  <2> QED
    BY <2>1, EverythingIs DEF LetterRow
<1>3. /\ Leases(Everything) = {} /\ Routers(Everything) = {} /\ Pins(Everything) = {}
      /\ Releases(Everything) = {} /\ Notes(Everything) = {}
      /\ \A i \in Install : Leases(own[i]) = {}
  <2>1. \A i \in Install : own[i] \subseteq Everything
    BY EverythingIs
  <2> QED
    BY <1>2, <2>1 DEF Leases, Routers, Pins, Releases, Notes
<1>4. Routed
  BY <1>1, <1>3 DEF Routed
<1>5. Informed /\ Knows /\ Rising /\ Older /\ Firm /\ InTurn
  BY <1>1, <1>3 DEF Informed, Knows, Rising, Older, Firm, InTurn
<1> QED
  BY <1>4, <1>5

\* The inductive invariant: what each install wrote, has of the others and goes by,
\* in any world; that gens of routers are their own, if one goes at a time; that who
\* took the lease goes by every lease or waits for it, if it is told; and in calm,
\* that only a lease which holds the thread is released, before the next gen.
LEMMA Granting == Spec => []IInv
<1>1. Init => IInv
  BY InitBase, InitTurns DEF IInv
<1>2. IInv /\ [Next]_vars => IInv'
  <2> SUFFICES ASSUME IInv, [Next]_vars PROVE IInv'
    OBVIOUS
  <2>1. Base'
    BY StepBase DEF IInv
  <2>2. /\ Alone' <=> Alone
        /\ Told' <=> Told
        /\ Calm' <=> Calm
    BY SameWorld DEF Alone, Told, Calm
  <2>3. Alone' => Routed'
    BY <2>2, StepRouted DEF IInv
  <2>4. Alone' /\ Told' => Informed' /\ Knows' /\ Rising'
    BY <2>2, StepTold DEF IInv
  <2>5. Calm' => Older' /\ Firm' /\ InTurn'
    <3>1. Calm => Alone /\ Told
      BY DEF Calm
    <3> QED
      BY <2>2, <3>1, StepCalm DEF IInv
  <2> QED
    BY <2>1, <2>3, <2>4, <2>5 DEF IInv
<1> QED
  BY <1>1, <1>2, PTL DEF Spec

\* What the invariant says in calm.
LEMMA CalmIs ==
    ASSUME IInv, Calm
    PROVE  /\ Base /\ Routed /\ Informed /\ Knows /\ Rising /\ Older /\ Firm /\ InTurn
           /\ world.skew = 0
  BY DEF IInv, Calm

\* However late, whoever is pinned, with routers in their grace or clocks apart
\* behind one router at a time that is told: a gen that was superseded never holds
\* the thread again, along the union that any process reads (route, _next_gen; keep
\* in facts.py).
THEOREM GensOnlyClimb == Spec => []GensClimb
<1>1. IInv => GensClimb
  BY ClimbNow DEF IInv
<1> QED
  BY <1>1, Granting, PTL

\* In calm, and although a router that takes over grants by what it read before it
\* fetched (tick_once, route): a thread is held once at a gen, by the lease that was
\* written first, whose strand alone gets a body, and only once the gen before was
\* released (test_router.py, _one_holder).
THEOREM ThreadIsHeldInTurn == Spec => []OneAtATime
<1>1. IInv => OneAtATime
  <2> DEFINE counting == {f \in ToSet(Accepted) : f.kind = "lease"}
  <2> SUFFICES ASSUME IInv, Calm
               PROVE  /\ \A f \in Leases(Everything) : \E g \in counting : g.gen = f.gen
                      /\ \A s \in alive : \E g \in counting : g.strand = s
                      /\ \A n \in 2 .. Len(Accepted) :
                            Accepted[n].kind = "lease" => Accepted[n - 1].kind = "released"
    BY DEF OneAtATime
  <2>1. Turned(Kept(Everything))
    BY CalmIs, AllTurned
  <2>2. /\ Tells(Fold(Everything), Kept(Everything)) /\ TellsTurns(Fold(Everything))
        /\ Kept(Everything) \subseteq Everything
    BY <2>1, CalmIs, ViewTells
  <2>3. Leases(Kept(Everything)) \subseteq counting
    BY <2>2 DEF Tells, Accepted, Leases
  <2>4. ASSUME NEW f \in Leases(Everything) PROVE \E g \in counting : g.gen = f.gen
    <3>1. PICK q \in Kept(Everything) : q.kind = f.kind /\ q.gen = f.gen
      BY CalmIs, KeptNow
    <3> QED
      BY <2>3, <3>1 DEF Leases
  <2>5. ASSUME NEW s \in alive PROVE \E g \in counting : g.strand = s
    <3>1. PICK f : First(f) /\ f.strand = s
      BY CalmIs DEF Firm
    <3>2. f \in Leases(Kept(Everything))
      BY <3>1, CalmIs, KeptNow DEF First, Leases
    <3> QED
      BY <2>3, <3>1, <3>2
  <2> QED
    BY <2>2, <2>4, <2>5 DEF TellsTurns, Accepted
<1> QED
  BY <1>1, Granting, PTL

\* In calm a release that an install has is final there: its strand does not hold
\* the thread, whoever released it first and whatever was granted since (_release,
\* _release_abandoned: one id for the thread and the gen).
THEOREM ReleaseIsFinal == Spec => []ReleaseCounts
<1>1. IInv => ReleaseCounts
  <2> SUFFICES ASSUME IInv, Calm, NEW i \in Install, NEW f \in Releases(View(i)),
                      Fold(View(i)).holder[thread] = <<f.strand, f.gen>>
               PROVE  FALSE
    BY DEF ReleaseCounts
  <2> DEFINE V == View(i)
             K == Kept(V)
  <2>1. Tells(Fold(V), K) /\ V \subseteq Everything /\ K \subseteq V
    BY CalmIs, ViewTells
  <2>2. PICK r \in K : r.kind = "released" /\ r.gen = f.gen
    BY <2>1, CalmIs, KeptNow DEF Releases
  \* The release that is kept may be another's, but is of the same strand.
  <2>3. r.strand = f.strand
    <3>1. f \in Releases(Everything) /\ r \in Releases(Everything)
      BY <2>1, <2>2 DEF Releases
    <3>2. PICK e : First(e) /\ e.gen = f.gen /\ e.strand = f.strand
      BY <3>1, CalmIs DEF Firm
    <3>3. PICK d : First(d) /\ d.gen = r.gen /\ d.strand = r.strand
      BY <3>1, CalmIs DEF Firm
    <3>4. d = e
      BY <2>2, <3>2, <3>3, CalmIs, OneFirst
    <3> QED
      BY <3>2, <3>3, <3>4
  <2> HIDE DEF K
  <2>4. Fold(V).holder[thread] = <<f.strand, f.gen>> /\ <<f.strand, f.gen>> # Nobody
    BY DEF Nobody
  <2>5. PICK h : Fold(V).holder[thread] = <<h.strand, h.gen>> /\ ~IsReleased(h, K)
    BY <2>1, <2>4 DEF Tells, TellsHolder
  <2>6. h.gen = f.gen /\ h.strand = f.strand
    BY <2>4, <2>5
  <2>7. IsReleased(h, K)
    BY <2>2, <2>3, <2>6 DEF IsReleased, Releases, SameGrant
  <2> QED
    BY <2>5, <2>7
<1> QED
  BY <1>1, Granting, PTL

\* In calm the holder's note settles the letter for everyone who has both, at once
\* and not only in the end (Reducer.apply, consider).
THEOREM NoteSettles == Spec => []NoteCounts
<1>1. IInv => NoteCounts
  <2> SUFFICES ASSUME IInv, Calm, NEW i \in Install, NEW f \in View(i), f.kind = "note",
                      <<"letter">> \in Ids(View(i)),
                      Fold(View(i)).holder[thread] = <<f.strand, f.gen>>
               PROVE  letter \in Fold(View(i)).handled
    BY DEF NoteCounts
  <2> DEFINE V == View(i)
             K == Kept(V)
  <2>1. Tells(Fold(V), K) /\ Readable(V)
    BY CalmIs, ViewTells
  <2>2. /\ K \subseteq V /\ Ids(K) = Ids(V)
    BY <2>1, KeptIs
  <2>3. \A g \in V : \E j \in Install : g \in own[j] /\ Shape(g, j)
    BY FactsAre DEF IInv
  <2> HIDE DEF V, K
  <2>4. f \in V
    BY DEF V
  <2>5. PICK l \in K : l.id = <<"letter">>
    BY <2>2 DEF Ids, V
  <2>6. l.kind = "letter"
    <3>1. l.id[1] = "letter"
      BY <2>5
    <3> QED
      BY <2>2, <2>3, <2>5, <3>1, IdsTell
  \* A note is by the install that its strand is named for, which wrote one of it.
  <2>7. PICK n \in K : n.id = f.id
    BY <2>2, <2>4 DEF Ids
  <2>8. n.kind = "note" /\ n.strand = f.strand
    <3>1. n.id[1] = n.kind /\ f.id[1] = f.kind
      BY <2>2, <2>3, <2>4, IdsTell
    <3>2. n.kind = "note"
      BY <2>7, <3>1
    <3>3. n.id = <<"note", n.strand>> /\ f.id = <<"note", f.strand>>
      BY <2>2, <2>3, <2>4, <3>2 DEF Shape
    <3>4. n.id[2] = n.strand /\ f.id[2] = f.strand
      BY <3>3
    <3> QED
      BY <2>7, <3>2, <3>4
  <2>9. \A j \in Install : \A g \in Notes(own[j]) : g.strand[1] = j
    <3> SUFFICES ASSUME NEW j \in Install, NEW g \in Notes(own[j]) PROVE g.strand[1] = j
      OBVIOUS
    <3>1. PICK h \in Leases(own[j]) : h.strand = g.strand
      BY DEF IInv, Base, Grounded
    <3>2. Shape(h, j)
      BY FactsAre DEF IInv, Leases
    <3> QED
      BY <3>1, <3>2 DEF Shape, Leases
  <2>10. n = f
    <3>1. PICK j \in Install : n \in own[j]
      BY <2>2, <2>3
    <3>2. PICK k \in Install : f \in own[k]
      BY <2>3, <2>4
    <3>3. j = k
      BY <2>8, <2>9, <3>1, <3>2 DEF Notes
    <3> QED
      BY <2>7, <3>1, <3>2, <3>3 DEF IInv, Base, Written
  <2>11. f \in Notes(K)
    BY <2>10 DEF Notes
  <2>12. Fold(V).holder[thread] = <<f.strand, f.gen>>
    BY DEF V
  <2>13. letter \in Fold(V).handled
    BY <2>1, <2>5, <2>6, <2>11, <2>12 DEF Tells, TellsNotes
  <2> QED
    BY <2>13 DEF V
<1> QED
  BY <1>1, Granting, PTL
=============================================================================
