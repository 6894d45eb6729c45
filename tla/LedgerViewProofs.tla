-------------------------- MODULE LedgerViewProofs --------------------------
(***************************************************************************)
(* What a process makes of the ledgers it reads, for any rows, in whatever *)
(* order the clocks of the installs gave them, and in any batches.         *)
(*                                                                         *)
(* First the fold: what each row keeps, and so every replay.  Then the     *)
(* view: one that is extended in place is the union of what was read,      *)
(* since two sequences in the order of the union that hold the same facts  *)
(* are one sequence.                                                       *)
(***************************************************************************)
EXTENDS LedgerView, FiniteSetTheorems, SequenceTheorems, WellFoundedInduction, TLAPS

-----------------------------------------------------------------------------
(* Induction and recursion up to a number, about a set instead of a predicate, *)
(* so that a proof can name the set it is about.                               *)

\* Up to a number, one by one.
LEMMA Counting ==
    ASSUME NEW N \in Nat, NEW P, 0 \in P, \A n \in 1 .. N : n - 1 \in P => n \in P
    PROVE  \A n \in 0 .. N : n \in P
<1> SUFFICES ASSUME {n \in 0 .. N : n \notin P} # {} PROVE FALSE
  OBVIOUS
<1> DEFINE S == {n \in 0 .. N : n \notin P}
<1>1. S \subseteq Nat
  OBVIOUS
<1>2. PICK m \in S : \A y \in S : ~(<<y, m>> \in OpToRel(<, Nat))
  BY <1>1, NatLessThanWellFounded, WFMin
<1>3. \A y \in S : ~(y < m)
  BY <1>1, <1>2 DEF OpToRel
<1>4. m \in 1 .. N /\ m - 1 \in 0 .. N /\ m - 1 < m
  <2>1. m \in 0 .. N /\ m \notin P
    BY <1>2
  <2>2. m # 0
    BY <2>1
  <2> QED
    BY <2>1, <2>2
<1>5. m - 1 \in P
  BY <1>3, <1>4
<1> QED
  BY <1>2, <1>4, <1>5

\* N steps on a set, from a start in it, and what they compute.
StepsOn(S, N, a, G) == N \in Nat /\ a \in S /\ G \in [1 .. N -> [S -> S]]
Computed(f, S, N, a, G) ==
    f \in [0 .. N -> S] /\ f[0] = a /\ \A n \in 1 .. N : f[n] = G[n][f[n - 1]]

\* What is computed in steps from a start is a function of the step.
LEMMA Recursion ==
    ASSUME NEW S, NEW N, NEW a, NEW G, StepsOn(S, N, a, G)
    PROVE  \E f : Computed(f, S, N, a, G)
<1> USE DEF StepsOn
<1> DEFINE F(g, k) == g[0] = a /\ \A n \in 1 .. k : g[n] = G[n][g[n - 1]]
           P == {k \in 0 .. N : \E g \in [0 .. k -> S] : F(g, k)}
<1>1. 0 \in P
  <2> DEFINE g == [n \in 0 .. 0 |-> a]
  <2>1. g \in [0 .. 0 -> S] /\ F(g, 0)
    OBVIOUS
  <2> HIDE DEF F, g
  <2> QED
    BY <2>1
<1>2. ASSUME NEW k \in 1 .. N, k - 1 \in P PROVE k \in P
  <2>1. PICK g \in [0 .. k - 1 -> S] : F(g, k - 1)
    BY <1>2
  <2>2. k - 1 \in 0 .. k - 1 /\ g[k - 1] \in S /\ k # 0 /\ k \in Nat
    OBVIOUS
  <2>3. G[k][g[k - 1]] \in S
    BY <2>2
  <2> DEFINE h == [n \in 0 .. k |-> IF n = k THEN G[k][g[k - 1]] ELSE g[n]]
  <2>4. h \in [0 .. k -> S]
    <3>1. ASSUME NEW n \in 0 .. k, n # k PROVE n \in 0 .. k - 1
      BY <2>2, <3>1
    <3> QED
      BY <2>3, <3>1
  <2>5. h[0] = a
    BY <2>1, <2>2
  <2>6. ASSUME NEW n \in 1 .. k PROVE h[n] = G[n][h[n - 1]]
    <3>1. n - 1 \in 0 .. k /\ n - 1 # k /\ n \in 0 .. k
      BY <2>2
    <3>2. h[n - 1] = g[n - 1]
      BY <3>1
    <3>3. CASE n = k
      BY <3>1, <3>2, <3>3
    <3>4. CASE n # k
      <4>1. n \in 1 .. k - 1
        BY <2>2, <3>4
      <4> QED
        BY <2>1, <3>1, <3>2, <3>4, <4>1
    <3> QED
      BY <3>3, <3>4
  <2> HIDE DEF h
  <2>7. F(h, k)
    BY <2>5, <2>6
  <2> HIDE DEF F
  <2> QED
    BY <2>4, <2>7
<1>3. PICK g \in [0 .. N -> S] : F(g, N)
  <2>1. \A n \in 0 .. N : n \in P
    <3> HIDE DEF P
    <3> QED
      BY <1>1, <1>2, Counting
  <2> HIDE DEF F
  <2> QED
    BY <2>1
<1> QED
  BY <1>3 DEF Computed

-----------------------------------------------------------------------------
(* One row *)

Gen == Nat \ {0}

State(Rows) ==
    [newest : Nat, accepted : Seq(Rows),
     holder : [Thread -> {Nobody} \cup (Strand \X Gen)],
     live : [Strand -> Nat], dest : [Letter -> SUBSET Thread],
     replies : SUBSET (Letter \X Letter), handovers : SUBSET Letter,
     disposed : SUBSET Letter, handled : SUBSET Letter]

\* A lease names a strand minted for it (route), which holds no other thread.
Minted(st, f) ==
    f.kind = "lease" =>
        \A t \in Thread \ {f.thread} :
            st.holder[t] # Nobody => st.holder[t][1] # f.strand

\* A strand holds one thread.  Without it LiveIsHolder is not inductive: a strand
\* fenced at one of its threads would still hold the other.
OneThread(st) ==
    \A t, u \in Thread :
        st.holder[t] # Nobody /\ st.holder[u] # Nobody /\ st.holder[t][1] = st.holder[u][1]
            => t = u

Sound(st) == LiveIsHolder(st) /\ OneThread(st)

\* The kinds a body writes.
BodyKinds == {"note", "send", "handover", "shown", "reply"}

-----------------------------------------------------------------------------

\* A row that leaves holders and live strands alone leaves Sound alone.
LEMMA SameHolders ==
    ASSUME NEW st, NEW after, Sound(st),
           after.holder = st.holder, after.live = st.live
    PROVE  Sound(after)
  BY DEF Sound, LiveIsHolder, OneThread

\* Before the first row (Reducer.__init__) nobody holds and no strand is live.
THEOREM StartSound == ASSUME NEW Rows PROVE Start \in State(Rows) /\ Sound(Start)
<1>1. Start \in State(Rows)
  BY DEF Start, State
<1>2. Sound(Start)
  BY DEF Start, Sound, LiveIsHolder, OneThread
<1> QED
  BY <1>1, <1>2

\* Each row keeps the type of the state (Reducer.apply).
LEMMA ApplyTyped ==
    ASSUME NEW Rows, NEW st \in State(Rows), NEW f \in Rows, RowOK(f)
    PROVE  Apply(st, f) \in State(Rows)
<1> USE DEF State, RowOK, Gen
<1>1. CASE f.kind = "router"
  BY <1>1 DEF Apply, Router
<1>2. CASE f.kind = "lease"
  <2>1. [Fenced(st, f) EXCEPT ![f.strand] = f.gen] \in [Strand -> Nat]
    BY <1>2 DEF Fenced
  <2>2. Append(st.accepted, f) \in Seq(Rows)
    OBVIOUS
  <2>3. Lease(st, f) \in State(Rows)
    BY <1>2, <2>1, <2>2 DEF Lease
  <2> QED
    BY <1>2, <2>3 DEF Apply
<1>3. CASE f.kind = "released"
  <2>1. Append(st.accepted, f) \in Seq(Rows)
    OBVIOUS
  <2> QED
    BY <1>3, <2>1 DEF Apply, Released
<1>4. CASE f.kind = "letter"
  BY <1>4 DEF Apply, Placed
<1>5. CASE f.kind = "note"
  BY <1>5 DEF Apply, Note, Mark
<1>6. CASE f.kind = "send"
  BY <1>6 DEF Apply, Send, Placed, Note, Mark
<1>7. CASE f.kind = "handover"
  BY <1>7 DEF Apply, Handover, Send, Placed, Note, Mark
<1>8. CASE f.kind = "shown"
  BY <1>8 DEF Apply, Shown, Note, Mark
<1>9. CASE f.kind = "ended"
  <2>1. [l \in Letter |-> IF l \in f.next THEN {f.thread} ELSE st.dest[l]]
            \in [Letter -> SUBSET Thread]
    BY <1>9
  <2>2. st.disposed \cup f.done \in SUBSET Letter
    BY <1>9
  <2>3. Ended(st, f) \in State(Rows)
    BY <2>1, <2>2 DEF Ended
  <2> QED
    BY <1>9, <2>3 DEF Apply
<1>10. CASE f.kind = "reply"
  <2>1. st.replies \cup {<<f.letter, f.re>>} \in SUBSET (Letter \X Letter)
    BY <1>10
  <2>2. Reply(st, f) \in State(Rows)
    BY <2>1 DEF Reply
  <2> QED
    BY <1>10, <2>2 DEF Apply
<1>11. CASE f.kind = "speech"
  <2> DEFINE sent == {f.letter} \cup {r[2] : r \in {r \in st.replies : r[1] = f.letter}}
  <2>1. st.handled \cup sent \in SUBSET Letter
    <3>1. \A r \in st.replies : r[2] \in Letter
      OBVIOUS
    <3> QED
      BY <1>11, <3>1
  <2>2. Speech(st, f) = [st EXCEPT !.handled = @ \cup sent]
    BY DEF Speech, Mark
  <2>3. Speech(st, f) \in State(Rows)
    BY <2>1, <2>2
  <2> QED
    BY <1>11, <2>3 DEF Apply
<1>12. CASE f.kind = "hand"
  BY <1>12 DEF Apply, HandNote, Mark
<1> QED
  BY <1>1, <1>2, <1>3, <1>4, <1>5, <1>6, <1>7, <1>8, <1>9, <1>10, <1>11, <1>12 DEF Apply

\* One row keeps a strand live exactly where it holds (Reducer.apply, its lease
\* and released branches; no other branch touches holders).
LEMMA LeaseSound ==
    ASSUME NEW Rows, NEW st \in State(Rows), NEW f \in Rows, RowOK(f), Minted(st, f),
           Sound(st), f.kind = "lease"
    PROVE  Sound(Lease(st, f))
<1> DEFINE after == Lease(st, f)
           live == Fenced(st, f)
<1>1. CASE ~LeaseAccepted(st, f)
  BY <1>1 DEF Lease
<1>2. CASE LeaseAccepted(st, f)
  <2>1. /\ f.thread \in Thread /\ f.strand \in Strand /\ f.gen \in Gen
        /\ st.holder \in [Thread -> {Nobody} \cup (Strand \X Gen)]
        /\ st.live \in [Strand -> Nat]
    BY DEF RowOK, Gen, State
  <2>2. live \in [Strand -> Nat]
    BY <2>1 DEF Fenced
  <2>3. /\ after.holder = [st.holder EXCEPT ![f.thread] = <<f.strand, f.gen>>]
        /\ after.live = [live EXCEPT ![f.strand] = f.gen]
    BY <1>2 DEF Lease, State
  \* A strand other than the new one that is live here was live before, and
  \* holds another thread, since the one that held this thread was fenced.
  <2>4. ASSUME NEW s \in Strand, s # f.strand, live[s] # 0
        PROVE  /\ live[s] = st.live[s]
               /\ \E t \in Thread \ {f.thread} : st.holder[t] = <<s, live[s]>>
    <3>1. live[s] = st.live[s]
      BY <2>1, <2>4 DEF Fenced
    <3>2. PICK t \in Thread : st.holder[t] = <<s, live[s]>>
      BY <2>4, <3>1 DEF Sound, LiveIsHolder
    <3>3. t # f.thread
      <4> SUFFICES ASSUME t = f.thread PROVE FALSE
        OBVIOUS
      <4>1. /\ st.holder[f.thread] = <<s, st.live[s]>>
            /\ <<s, st.live[s]>> # <<f.strand, f.gen>>
            /\ <<s, st.live[s]>> # Nobody
        BY <2>4, <3>1, <3>2 DEF Nobody
      <4>2. live = [st.live EXCEPT ![s] = 0]
        BY <4>1 DEF Fenced
      <4> QED
        BY <2>1, <2>4, <4>2
    <3> QED
      BY <3>1, <3>2, <3>3
  <2>5. ASSUME NEW s \in Strand, after.live[s] # 0
        PROVE  \E t \in Thread : after.holder[t] = <<s, after.live[s]>>
    <3>1. CASE s = f.strand
      BY <2>1, <2>2, <2>3, <3>1
    <3>2. CASE s # f.strand
      <4>1. after.live[s] = live[s]
        BY <2>2, <2>3, <3>2
      <4>2. PICK t \in Thread \ {f.thread} : st.holder[t] = <<s, live[s]>>
        BY <2>4, <2>5, <3>2, <4>1
      <4>3. after.holder[t] = st.holder[t]
        BY <2>1, <2>3
      <4> QED
        BY <4>1, <4>2, <4>3
    <3> QED
      BY <3>1, <3>2
  \* The holder of another thread is another strand, and was not fenced.
  <2>6. ASSUME NEW t \in Thread, after.holder[t] # Nobody
        PROVE  after.live[after.holder[t][1]] = after.holder[t][2]
    <3>1. CASE t = f.thread
      BY <2>1, <2>2, <2>3, <3>1
    <3>2. CASE t # f.thread
      <4>1. after.holder[t] = st.holder[t]
        BY <2>1, <2>3, <3>2
      <4>2. PICK s \in Strand, g \in Gen : st.holder[t] = <<s, g>>
        BY <2>1, <2>6, <4>1
      <4>3. /\ st.live[s] = g
            /\ s # f.strand
        <5>1. /\ st.live[st.holder[t][1]] = st.holder[t][2]
              /\ st.holder[t][1] # f.strand
          BY <2>6, <3>2, <4>1 DEF Sound, LiveIsHolder, Minted
        <5> QED
          BY <4>2, <5>1
      <4>4. live[s] = g
        <5> SUFFICES ASSUME live[s] # st.live[s] PROVE FALSE
          BY <4>3
        <5>1. PICK g0 \in Gen : st.holder[f.thread] = <<s, g0>>
          BY <2>1 DEF Fenced
        <5> QED
          BY <2>1, <2>6, <3>2, <4>1, <4>2, <5>1 DEF Sound, OneThread, Nobody
      <4> QED
        BY <2>1, <2>2, <2>3, <4>1, <4>2, <4>3, <4>4
    <3> QED
      BY <3>1, <3>2
  <2>7. OneThread(after)
    <3> SUFFICES ASSUME NEW t \in Thread, NEW u \in Thread, t # u,
                        after.holder[t] # Nobody, after.holder[u] # Nobody,
                        after.holder[t][1] = after.holder[u][1]
                 PROVE  FALSE
      BY DEF OneThread
    <3>1. \A v \in Thread \ {f.thread} : after.holder[v] = st.holder[v]
      BY <2>1, <2>3
    <3>2. after.holder[f.thread] = <<f.strand, f.gen>>
      BY <2>1, <2>3
    <3> QED
      BY <3>1, <3>2 DEF Sound, OneThread, Minted
  <2> QED
    BY <2>5, <2>6, <2>7 DEF Sound, LiveIsHolder
<1> QED
  BY <1>1, <1>2

LEMMA ReleasedSound ==
    ASSUME NEW Rows, NEW st \in State(Rows), NEW f \in Rows, RowOK(f), Sound(st),
           f.kind = "released"
    PROVE  Sound(Released(st, f))
<1> DEFINE after == Released(st, f)
<1>1. CASE st.holder[f.thread] # <<f.strand, f.gen>>
  BY <1>1 DEF Released
<1>2. CASE st.holder[f.thread] = <<f.strand, f.gen>>
  <2>1. /\ f.thread \in Thread /\ f.strand \in Strand /\ f.gen \in Gen
        /\ st.holder \in [Thread -> {Nobody} \cup (Strand \X Gen)]
        /\ st.live \in [Strand -> Nat]
        /\ st.holder[f.thread] # Nobody
    BY <1>2 DEF RowOK, Gen, State, Nobody
  <2>2. st.live[f.strand] = f.gen
    <3>1. st.live[st.holder[f.thread][1]] = st.holder[f.thread][2]
      BY <2>1 DEF Sound, LiveIsHolder
    <3> QED
      BY <1>2, <3>1
  <2>3. /\ after.holder = [st.holder EXCEPT ![f.thread] = Nobody]
        /\ after.live = [st.live EXCEPT ![f.strand] = 0]
    BY <1>2, <2>1, <2>2 DEF Released, State
  <2>4. ASSUME NEW s \in Strand, after.live[s] # 0
        PROVE  \E t \in Thread : after.holder[t] = <<s, after.live[s]>>
    <3>1. s # f.strand /\ after.live[s] = st.live[s]
      BY <2>1, <2>3, <2>4
    <3>2. PICK t \in Thread : st.holder[t] = <<s, st.live[s]>>
      BY <2>4, <3>1 DEF Sound, LiveIsHolder
    <3>3. t # f.thread
      BY <1>2, <3>1, <3>2
    <3> QED
      BY <2>1, <2>3, <3>1, <3>2, <3>3
  <2>5. ASSUME NEW t \in Thread, after.holder[t] # Nobody
        PROVE  after.live[after.holder[t][1]] = after.holder[t][2]
    <3>1. t # f.thread /\ after.holder[t] = st.holder[t]
      BY <2>1, <2>3, <2>5
    <3>2. PICK s \in Strand, g \in Gen : st.holder[t] = <<s, g>>
      BY <2>1, <2>5, <3>1
    <3>3. st.live[s] = g
      <4>1. st.live[st.holder[t][1]] = st.holder[t][2]
        BY <2>5, <3>1 DEF Sound, LiveIsHolder
      <4> QED
        BY <3>2, <4>1
    <3>4. s # f.strand
      <4>1. st.holder[t][1] # st.holder[f.thread][1]
        BY <2>1, <2>5, <3>1 DEF Sound, OneThread
      <4> QED
        BY <1>2, <3>2, <4>1
    <3> QED
      BY <2>1, <2>3, <3>1, <3>2, <3>3, <3>4
  <2>6. OneThread(after)
    <3>1. \A v \in Thread : after.holder[v] = st.holder[v] \/ after.holder[v] = Nobody
      BY <2>1, <2>3
    <3> QED
      BY <3>1 DEF Sound, OneThread
  <2> QED
    BY <2>4, <2>5, <2>6 DEF Sound, LiveIsHolder
<1> QED
  BY <1>1, <1>2

\* Whatever rows come in whatever order, the fold keeps a strand live exactly
\* at the gen at which it holds its thread (Reducer.apply).
THEOREM ApplySound ==
    ASSUME NEW Rows, NEW st \in State(Rows), NEW f \in Rows, RowOK(f), Minted(st, f),
           Sound(st)
    PROVE  Apply(st, f) \in State(Rows) /\ Sound(Apply(st, f))
<1>1. Apply(st, f) \in State(Rows)
  BY ApplyTyped
<1>2. CASE f.kind = "lease"
  <2>1. Apply(st, f) = Lease(st, f)
    BY <1>2 DEF Apply
  <2>2. Sound(Lease(st, f))
    BY <1>2, LeaseSound
  <2> QED
    BY <1>1, <2>1, <2>2
<1>3. CASE f.kind = "released"
  <2>1. Apply(st, f) = Released(st, f)
    BY <1>3 DEF Apply
  <2>2. Sound(Released(st, f))
    BY <1>3, ReleasedSound
  <2> QED
    BY <1>1, <2>1, <2>2
<1>4. CASE f.kind \notin {"lease", "released"}
  <2>1. Apply(st, f).holder = st.holder /\ Apply(st, f).live = st.live
    BY <1>4 DEF Apply, State, Router, Placed, Note, Send, Handover, Shown, Ended, Reply,
                Speech, HandNote, Mark
  <2> QED
    BY <1>1, <2>1, SameHolders
<1> QED
  BY <1>1, <1>2, <1>3, <1>4

\* project.py:1, "A superseded gen counts for nothing": what a body writes at a
\* gen at which it holds no thread, the fold passes over.
THEOREM SupersededCountsForNothing ==
    ASSUME NEW Rows, NEW st \in State(Rows), NEW f \in Rows, RowOK(f), Sound(st),
           f.kind \in BodyKinds,
           \A t \in Thread : st.holder[t] # <<f.strand, f.gen>>
    PROVE  Apply(st, f) = st
<1>1. f.strand \in Strand /\ f.gen \in Gen
  BY DEF BodyKinds, RowOK, Gen
<1>2. ~Live(st, f)
  BY <1>1 DEF Live, Sound, LiveIsHolder, Gen
<1> QED
  BY <1>2 DEF BodyKinds, Apply, Note, Send, Handover, Shown, Reply

-----------------------------------------------------------------------------
(* Ledgers of any length *)

\* A replay is its states, each made from the one before.
LEMMA ReplayIs ==
    ASSUME NEW st, NEW rows, Len(rows) \in Nat
    PROVE  \E after :
             /\ after = [n \in 0 .. Len(rows) |-> IF n = 0 THEN st ELSE Apply(after[n - 1], rows[n])]
             /\ Replay(st, rows) = after[Len(rows)]
<1> DEFINE N == Len(rows)
           F(g, k) == g = [n \in 0 .. k |-> IF n = 0 THEN st ELSE Apply(g[n - 1], rows[n])]
           P == {k \in 0 .. N : \E g : F(g, k)}
<1> HIDE DEF N
<1>0. N \in Nat
  BY DEF N
<1>1. 0 \in P
  <2>1. F([n \in 0 .. 0 |-> st], 0)
    OBVIOUS
  <2> HIDE DEF F
  <2> QED
    BY <1>0, <2>1
<1>2. ASSUME NEW k \in 1 .. N, k - 1 \in P PROVE k \in P
  <2>1. PICK g : F(g, k - 1)
    BY <1>2
  <2> DEFINE h == [n \in 0 .. k |-> IF n = k THEN Apply(g[k - 1], rows[k]) ELSE g[n]]
  <2>2. ASSUME NEW n \in 0 .. k PROVE h[n] = IF n = 0 THEN st ELSE Apply(h[n - 1], rows[n])
    <3>1. CASE n = 0
      <4>1. n # k /\ n \in 0 .. k - 1
        BY <1>2, <3>1
      <4> QED
        BY <2>1, <3>1, <4>1
    <3>2. CASE n = k
      <4>1. n - 1 \in 0 .. k /\ n - 1 # k /\ n # 0
        BY <1>2, <3>2
      <4> QED
        BY <3>2, <4>1
    <3>3. CASE n # 0 /\ n # k
      <4>1. n - 1 \in 0 .. k /\ n - 1 # k /\ n \in 0 .. k - 1
        BY <1>2, <3>3
      <4>2. g[n] = Apply(g[n - 1], rows[n])
        BY <2>1, <3>3, <4>1
      <4> QED
        BY <3>3, <4>1, <4>2
    <3> QED
      BY <3>1, <3>2, <3>3
  <2>3. F(h, k)
    <3> HIDE DEF h
    <3>1. h = [n \in 0 .. k |-> h[n]]
      BY DEF h
    <3> QED
      BY <2>2, <3>1
  <2> HIDE DEF F, h
  <2> QED
    BY <1>0, <1>2, <2>3
<1>3. \E g : F(g, N)
  <2>1. N \in P
    <3> HIDE DEF P
    <3> QED
      BY <1>0, <1>1, <1>2, Counting
  <2> HIDE DEF F
  <2> QED
    BY <2>1
<1> DEFINE g == CHOOSE g : F(g, N)
<1>4. F(g, N)
  BY <1>3
<1>5. Replay(st, rows) = g[N]
  BY DEF Replay, N
<1> HIDE DEF g
<1> QED
  BY <1>4, <1>5 DEF N

\* Row by row.
LEMMA ReplayRow ==
    ASSUME NEW Rows, NEW rows \in Seq(Rows), NEW f \in Rows, NEW st
    PROVE  /\ Replay(st, <<>>) = st
           /\ Replay(st, Append(rows, f)) = Apply(Replay(st, rows), f)
<1>1. Replay(st, <<>>) = st
  <2>1. Len(<<>>) = 0
    OBVIOUS
  <2>2. PICK after : /\ after = [n \in 0 .. Len(<<>>) |->
                                  IF n = 0 THEN st ELSE Apply(after[n - 1], <<>>[n])]
                     /\ Replay(st, <<>>) = after[Len(<<>>)]
    BY <2>1, ReplayIs
  <2> QED
    BY <2>1, <2>2
<1> DEFINE N == Len(rows)
           more == Append(rows, f)
<1>2. /\ N \in Nat /\ Len(more) = N + 1 /\ more[N + 1] = f
      /\ \A n \in 1 .. N : more[n] = rows[n]
  OBVIOUS
<1> HIDE DEF N, more
<1>3. PICK a : /\ a = [n \in 0 .. N |-> IF n = 0 THEN st ELSE Apply(a[n - 1], rows[n])]
               /\ Replay(st, rows) = a[N]
  BY <1>2, ReplayIs DEF N
<1>4. PICK b : /\ b = [n \in 0 .. N + 1 |-> IF n = 0 THEN st ELSE Apply(b[n - 1], more[n])]
               /\ Replay(st, more) = b[N + 1]
  <2>1. Len(more) \in Nat
    BY <1>2
  <2>2. \E b : /\ b = [n \in 0 .. Len(more) |->
                          IF n = 0 THEN st ELSE Apply(b[n - 1], more[n])]
               /\ Replay(st, more) = b[Len(more)]
    BY ONLY <2>1, ReplayIs
  <2> QED
    BY <1>2, <2>2
<1>5. \A n \in 0 .. N : a[n] = b[n]
  <2> DEFINE P == {n \in 0 .. N : a[n] = b[n]}
  <2>1. 0 \in P
    BY <1>2, <1>3, <1>4
  <2>2. ASSUME NEW n \in 1 .. N, n - 1 \in P PROVE n \in P
    <3>1. n \in 0 .. N /\ n \in 0 .. N + 1 /\ n # 0 /\ a[n - 1] = b[n - 1]
      BY <1>2, <2>2
    <3>2. a[n] = Apply(a[n - 1], rows[n])
      BY <1>3, <3>1
    <3>3. b[n] = Apply(b[n - 1], more[n])
      BY <1>4, <3>1
    <3> QED
      BY <1>2, <3>1, <3>2, <3>3
  <2>3. \A n \in 0 .. N : n \in P
    <3> HIDE DEF P
    <3> QED
      BY <1>2, <2>1, <2>2, Counting
  <2> QED
    BY <2>3
<1>6. b[N + 1] = Apply(b[N], f)
  <2>1. N + 1 \in 0 .. N + 1 /\ N + 1 # 0 /\ (N + 1) - 1 = N
    BY <1>2
  <2>2. b[N + 1] = Apply(b[(N + 1) - 1], more[N + 1])
    BY <1>4, <2>1
  <2> QED
    BY <1>2, <2>1, <2>2
<1>7. a[N] = b[N]
  BY <1>2, <1>5
<1>8. Replay(st, more) = Apply(Replay(st, rows), f)
  BY <1>3, <1>4, <1>6, <1>7
<1> QED
  BY <1>1, <1>8 DEF more

\* What every row keeps, a replay keeps.
LEMMA ReplayKeeps ==
    ASSUME NEW Rows, NEW rows \in Seq(Rows), NEW X, NEW st \in X,
           \A x \in X, f \in Rows : Apply(x, f) \in X
    PROVE  Replay(st, rows) \in X
<1> DEFINE N == Len(rows)
<1>1. N \in Nat /\ \A n \in 1 .. N : rows[n] \in Rows
  OBVIOUS
<1> HIDE DEF N
<1>2. PICK a : /\ a = [n \in 0 .. N |-> IF n = 0 THEN st ELSE Apply(a[n - 1], rows[n])]
               /\ Replay(st, rows) = a[N]
  BY <1>1, ReplayIs DEF N
<1> DEFINE P == {n \in 0 .. N : a[n] \in X}
<1>3. 0 \in P
  BY <1>1, <1>2
<1>4. ASSUME NEW n \in 1 .. N, n - 1 \in P PROVE n \in P
  <2>1. n \in 0 .. N /\ n # 0 /\ a[n - 1] \in X /\ rows[n] \in Rows
    BY <1>1, <1>4
  <2>2. a[n] = Apply(a[n - 1], rows[n])
    BY <1>2, <2>1
  <2> QED
    BY <2>1, <2>2
<1>5. \A n \in 0 .. N : n \in P
  <2> HIDE DEF P
  <2> QED
    BY <1>1, <1>3, <1>4, Counting
<1> QED
  BY <1>1, <1>2, <1>5

\* Who holds a thread was granted it by a lease of the ledger.
HeldByLease(st, Rows) ==
    \A t \in Thread : st.holder[t] # Nobody =>
        \E f \in Rows : f.kind = "lease" /\ f.thread = t /\ f.strand = st.holder[t][1]

\* Whatever the rows of a ledger and their order, a replay of them keeps a
\* strand live exactly at the gen at which it holds its thread: what a
\* superseded or released body writes is accepted by no fold (project.py:1).
THEOREM ReplaySound ==
    ASSUME NEW Rows, OwnStrands(Rows), \A f \in Rows : RowOK(f),
           NEW rows \in Seq(Rows)
    PROVE  Replay(Start, rows) \in State(Rows) /\ LiveIsHolder(Replay(Start, rows))
<1> DEFINE X == {st \in State(Rows) : Sound(st) /\ HeldByLease(st, Rows)}
<1>1. Start \in X
  <2>1. HeldByLease(Start, Rows)
    BY DEF HeldByLease, Start
  <2> QED
    BY <2>1, StartSound
<1>2. ASSUME NEW st \in X, NEW f \in Rows PROVE Apply(st, f) \in X
  <2>1. st \in State(Rows) /\ Sound(st) /\ HeldByLease(st, Rows) /\ RowOK(f)
    OBVIOUS
  <2> HIDE DEF X
  <2>2. Minted(st, f)
    BY <2>1 DEF HeldByLease, OwnStrands, Minted
  <2>3. Apply(st, f) \in State(Rows) /\ Sound(Apply(st, f))
    BY <2>1, <2>2, ApplySound
  <2>4. \A t \in Thread : \/ Apply(st, f).holder[t] = st.holder[t]
                         \/ Apply(st, f).holder[t] = Nobody
                         \/ /\ f.kind = "lease" /\ f.thread = t
                            /\ Apply(st, f).holder[t] = <<f.strand, f.gen>>
    <3>1. st.holder \in [Thread -> {Nobody} \cup (Strand \X Gen)]
      BY <2>1 DEF State
    <3>2. CASE f.kind = "lease"
      <4>1. Apply(st, f) = Lease(st, f)
        BY <3>2 DEF Apply
      <4>2. \/ Lease(st, f) = st
            \/ Lease(st, f).holder = [st.holder EXCEPT ![f.thread] = <<f.strand, f.gen>>]
        BY <2>1 DEF Lease, State
      <4> QED
        BY <3>1, <3>2, <4>1, <4>2
    <3>3. CASE f.kind = "released"
      <4>1. Apply(st, f) = Released(st, f)
        BY <3>3 DEF Apply
      <4>2. \/ Released(st, f) = st
            \/ Released(st, f).holder = [st.holder EXCEPT ![f.thread] = Nobody]
        BY <2>1 DEF Released, State
      <4> QED
        BY <3>1, <4>1, <4>2
    <3>4. CASE f.kind \notin {"lease", "released"}
      <4>1. Apply(st, f).holder = st.holder
        BY <2>1, <3>4 DEF Apply, State, Router, Placed, Note, Send, Handover, Shown, Ended,
                          Reply, Speech, HandNote, Mark
      <4> QED
        BY <4>1
    <3> QED
      BY <3>2, <3>3, <3>4
  <2>5. HeldByLease(Apply(st, f), Rows)
    BY <2>1, <2>4 DEF HeldByLease
  <2> QED
    BY <2>3, <2>5 DEF X
<1>3. Replay(Start, rows) \in X
  <2> HIDE DEF X
  <2> QED
    BY <1>1, <1>2, ReplayKeeps
<1> QED
  BY <1>3 DEF Sound

-----------------------------------------------------------------------------
(* What makes a sequence a union *)

\* What makes a sequence the union of its facts, without naming the least: no
\* id twice, no fact before one it comes after, and of two facts the one with
\* the higher stamp is first only if the other waited for a fact between.
Ordered(s) ==
    /\ \A n, m \in 1 .. Len(s) : s[n].id = s[m].id => n = m
    /\ \A n, m \in 1 .. Len(s) : s[m].id \in s[n].after => m < n
    /\ \A n, m \in 1 .. Len(s) : n < m =>
           Before(s[n], s[m]) \/ \E i \in n .. m - 1 : s[i].id \in s[m].after

-----------------------------------------------------------------------------
(* The order of stamps *)

\* fact_order is a strict total order of a readable set.
LEMMA Stamps ==
    ASSUME NEW facts, Readable(facts)
    PROVE  /\ \A f \in facts : ~Before(f, f)
           /\ \A f, g, h \in facts : Before(f, g) /\ Before(g, h) => Before(f, h)
           /\ \A f, g \in facts : f # g => Before(f, g) \/ Before(g, f)
<1>1. \A f \in facts : f.hlc[1] \in Nat /\ f.hlc[2] \in Nat /\ f.hlc[3] \in Nat
  BY DEF Readable
<1>2. \A f, g \in facts :
          f.hlc[1] = g.hlc[1] /\ f.hlc[2] = g.hlc[2] /\ f.hlc[3] = g.hlc[3] => f = g
  <2> SUFFICES ASSUME NEW f \in facts, NEW g \in facts,
                      f.hlc[1] = g.hlc[1], f.hlc[2] = g.hlc[2], f.hlc[3] = g.hlc[3]
               PROVE  f = g
    OBVIOUS
  <2>1. f.hlc \in Nat \X Nat \X Nat /\ g.hlc \in Nat \X Nat \X Nat
    BY DEF Readable
  <2>2. f.hlc = g.hlc
    BY <2>1
  <2> QED
    BY <2>2 DEF Readable
<1>3. \A f \in facts : ~Before(f, f)
  BY <1>1 DEF Before
<1>4. ASSUME NEW f \in facts, NEW g \in facts, NEW h \in facts, Before(f, g), Before(g, h)
      PROVE  Before(f, h)
  <2> DEFINE F(x) == x.hlc[1]
  <2>1. /\ f.hlc[1] \in Nat /\ f.hlc[2] \in Nat /\ f.hlc[3] \in Nat
        /\ g.hlc[1] \in Nat /\ g.hlc[2] \in Nat /\ g.hlc[3] \in Nat
        /\ h.hlc[1] \in Nat /\ h.hlc[2] \in Nat /\ h.hlc[3] \in Nat
    BY <1>1
  <2> QED
    BY <1>4, <2>1 DEF Before
<1>5. ASSUME NEW f \in facts, NEW g \in facts, f # g PROVE Before(f, g) \/ Before(g, f)
  <2>1. /\ f.hlc[1] \in Nat /\ f.hlc[2] \in Nat /\ f.hlc[3] \in Nat
        /\ g.hlc[1] \in Nat /\ g.hlc[2] \in Nat /\ g.hlc[3] \in Nat
    BY <1>1
  <2> QED
    BY <1>2, <1>5, <2>1 DEF Before
<1> QED
  BY <1>3, <1>4, <1>5

\* What can be read of some facts can be read of fewer.
LEMMA Fewer ==
    ASSUME NEW facts, Readable(facts), NEW some \in SUBSET facts
    PROVE  Readable(some)
<1>1. IsFiniteSet(some)
  BY FS_Subset DEF Readable
<1>2. \A rest \in SUBSET some : rest # {} => Ready(rest) # {}
  BY DEF Readable
<1>3. /\ \A f \in some : f.hlc \in Nat \X Nat \X Nat
      /\ \A f, g \in some : f.hlc = g.hlc => f = g
      /\ \A f, g \in some : g.kind = "renewed" => g.id \notin f.after /\ (f.id = g.id => f = g)
  BY DEF Readable
<1> QED
  BY <1>1, <1>2, <1>3 DEF Readable

\* A finite set has a member before which no other is, in an order.
LEMMA Minimal ==
    ASSUME NEW S, IsFiniteSet(S), S # {}, NEW R,
           \A x \in S : <<x, x>> \notin R,
           \A x, y, z \in S : <<x, y>> \in R /\ <<y, z>> \in R => <<x, z>> \in R
    PROVE  \E m \in S : \A y \in S : <<y, m>> \notin R
<1> DEFINE Below(x) == {y \in S : <<y, x>> \in R}
           C == {Cardinality(Below(x)) : x \in S}
<1>1. \A x \in S : IsFiniteSet(Below(x)) /\ Cardinality(Below(x)) \in Nat
  <2> TAKE x \in S
  <2>1. Below(x) \in SUBSET S
    OBVIOUS
  <2> HIDE DEF Below
  <2>2. IsFiniteSet(Below(x))
    BY <2>1, FS_Subset
  <2> QED
    BY <2>2, FS_CardinalityType
<1>2. C \subseteq Nat /\ C # {}
  <2> HIDE DEF Below
  <2>1. C \subseteq Nat
    BY <1>1
  <2>2. C # {}
    OBVIOUS
  <2> QED
    BY <2>1, <2>2
<1>3. PICK k \in C : \A y \in C : ~(<<y, k>> \in OpToRel(<, Nat))
  <2> HIDE DEF C
  <2> QED
    BY <1>2, NatLessThanWellFounded, WFMin
<1>4. \A y \in C : ~(y < k)
  <2> HIDE DEF C
  <2> QED
    BY <1>2, <1>3 DEF OpToRel
<1>5. PICK m \in S : k = Cardinality(Below(m))
  BY <1>3
<1>6. ASSUME NEW y \in S, <<y, m>> \in R PROVE FALSE
  <2>1. Below(y) \in SUBSET Below(m) /\ y \in Below(m) /\ y \notin Below(y)
    BY <1>5, <1>6
  <2>2. IsFiniteSet(Below(m)) /\ Cardinality(Below(m)) \in Nat /\ Cardinality(Below(y)) \in Nat
    BY <1>1, <1>5, <1>6
  <2>3. Cardinality(Below(y)) \in C
    OBVIOUS
  <2> HIDE DEF Below, C
  <2>4. Cardinality(Below(y)) <= Cardinality(Below(m)) /\ Cardinality(Below(m)) # Cardinality(Below(y))
    BY <2>1, <2>2, FS_Subset
  <2> QED
    BY <1>4, <1>5, <2>2, <2>3, <2>4
<1> QED
  BY <1>5, <1>6

\* min over fact_order finds one.
LEMMA LeastIs ==
    ASSUME NEW facts, Readable(facts), facts # {}
    PROVE  /\ Least(facts) \in facts
           /\ \A g \in facts \ {Least(facts)} : Before(Least(facts), g)
<1> DEFINE R == {p \in facts \X facts : Before(p[1], p[2])}
<1>1. \A f, g \in facts : <<f, g>> \in R <=> Before(f, g)
  OBVIOUS
<1>2. IsFiniteSet(facts)
  BY DEF Readable
<1> HIDE DEF R
<1>3. PICK m \in facts : \A y \in facts : <<y, m>> \notin R
  <2>1. /\ \A x \in facts : <<x, x>> \notin R
        /\ \A x, y, z \in facts : <<x, y>> \in R /\ <<y, z>> \in R => <<x, z>> \in R
    BY <1>1, Stamps
  <2> QED
    BY <1>2, <2>1, Minimal
<1>4. \A g \in facts \ {m} : Before(m, g)
  BY <1>1, <1>3, Stamps
<1> QED
  BY <1>3, <1>4 DEF Least

\* Of the facts for which a later one of the kind stands, the last has none:
\* newest_renewals keeps one for every one that it cuts.
LEMMA NewestStays ==
    ASSUME NEW facts, Readable(facts), NEW f \in facts, Stale(f, facts)
    PROVE  \E g \in facts : /\ g.kind = "renewed" /\ g.key = f.key /\ Before(f, g)
                            /\ ~Stale(g, facts)
<1> DEFINE S == {g \in facts : g.kind = "renewed" /\ g.key = f.key /\ Before(f, g)}
           R == {p \in facts \X facts : Before(p[2], p[1])}
<1>1. \A x, y \in facts : <<x, y>> \in R <=> Before(y, x)
  OBVIOUS
<1>2. S \in SUBSET facts /\ S # {}
  BY DEF Stale
<1>3. IsFiniteSet(S)
  <2> HIDE DEF S
  <2> QED
    BY <1>2, FS_Subset DEF Readable
<1>4. PICK g \in S : \A y \in S : <<y, g>> \notin R
  <2> HIDE DEF R, S
  <2>1. /\ \A x \in S : <<x, x>> \notin R
        /\ \A x, y, z \in S : <<x, y>> \in R /\ <<y, z>> \in R => <<x, z>> \in R
    BY <1>1, <1>2, Stamps
  <2> QED
    BY <1>2, <1>3, <2>1, Minimal
<1>5. ~Stale(g, facts)
  <2> SUFFICES ASSUME NEW h \in facts, h.kind = "renewed", h.key = g.key, Before(g, h)
               PROVE  FALSE
    BY DEF Stale
  <2>1. Before(f, h)
    BY <1>4, Stamps
  <2>2. h \in S
    BY <1>4, <2>1
  <2> QED
    BY <1>1, <1>4, <2>2
<1> QED
  BY <1>4, <1>5

-----------------------------------------------------------------------------
(* What a union keeps, and in which order *)

\* keep, over all the copies: the one with the lowest stamp of each id.
LEMMA KeptIs ==
    ASSUME NEW facts, Readable(facts)
    PROVE  /\ Kept(facts) \subseteq facts
           /\ \A f \in facts : f \in Kept(facts)
                                <=> \A g \in facts : g.id = f.id /\ g # f => Before(f, g)
           /\ Ids(Kept(facts)) = Ids(facts)
           /\ \A f, g \in Kept(facts) : f.id = g.id => f = g
<1> DEFINE Copies(f) == {g \in facts : g.id = f.id}
<1>1. \A f \in facts : /\ Least(Copies(f)) \in Copies(f)
                       /\ \A g \in Copies(f) \ {Least(Copies(f))} : Before(Least(Copies(f)), g)
  <2> TAKE f \in facts
  <2>1. Copies(f) \in SUBSET facts /\ Copies(f) # {}
    OBVIOUS
  <2> HIDE DEF Copies
  <2> QED
    BY <2>1, Fewer, LeastIs
<1>2. Kept(facts) = {Least(Copies(f)) : f \in facts}
  BY DEF Kept
<1>3. \A f, g \in facts : f.id = g.id => Copies(f) = Copies(g)
  OBVIOUS
<1>4. \A f, g \in facts : g \in Copies(f) <=> g.id = f.id
  OBVIOUS
<1>5. \A f \in facts : Copies(f) \subseteq facts
  OBVIOUS
<1> HIDE DEF Copies
<1>6. Kept(facts) \subseteq facts
  BY <1>1, <1>2, <1>5
<1>7. ASSUME NEW f \in facts, f \in Kept(facts), NEW g \in facts, g.id = f.id, g # f
      PROVE  Before(f, g)
  <2>1. PICK h \in facts : f = Least(Copies(h))
    BY <1>2, <1>7
  <2>2. f.id = h.id /\ f \in Copies(h)
    BY <1>1, <1>4, <1>7, <2>1
  <2>3. g \in Copies(h)
    BY <1>4, <1>7, <2>2
  <2> QED
    BY <1>1, <1>7, <2>1, <2>3
<1>8. ASSUME NEW f \in facts, \A g \in facts : g.id = f.id /\ g # f => Before(f, g)
      PROVE  f \in Kept(facts)
  <2> DEFINE least == Least(Copies(f))
  <2>1. least \in facts /\ least.id = f.id /\ least \in Kept(facts)
    BY <1>1, <1>2, <1>4, <1>5
  <2>2. f \in Copies(f)
    BY <1>4
  <2>3. f # least => Before(least, f) /\ Before(f, least)
    BY <1>1, <1>8, <2>1, <2>2
  <2> HIDE DEF least
  <2> QED
    BY <2>1, <2>3, Stamps
<1>9. Ids(Kept(facts)) = Ids(facts)
  <2>1. Ids(Kept(facts)) \subseteq Ids(facts)
    BY <1>6 DEF Ids
  <2>2. \A f \in facts : Least(Copies(f)) \in Kept(facts) /\ Least(Copies(f)).id = f.id
    BY <1>1, <1>2, <1>4, <1>5
  <2> QED
    BY <2>1, <2>2 DEF Ids
<1>10. ASSUME NEW f \in Kept(facts), NEW g \in Kept(facts), f.id = g.id PROVE f = g
  <2>1. f # g => Before(f, g) /\ Before(g, f)
    BY <1>6, <1>7, <1>10
  <2> QED
    BY <1>6, <2>1, Stamps
<1> QED
  BY <1>6, <1>7, <1>8, <1>9, <1>10

\* Two sequences in the order of the union that hold the same facts are equal.
LEMMA OneOrder ==
    ASSUME NEW facts, Readable(facts), NEW s \in Seq(facts), NEW t \in Seq(facts),
           Ordered(s), Ordered(t), ToSet(s) = ToSet(t)
    PROVE  s = t
<1> DEFINE N == Len(s)
           M == Len(t)
<1>0. ToSet(s) = {s[i] : i \in 1 .. N} /\ ToSet(t) = {t[i] : i \in 1 .. M}
  <2>1. DOMAIN s = 1 .. N /\ DOMAIN t = 1 .. M
    OBVIOUS
  <2> QED
    BY <2>1 DEF ToSet
<1>1. /\ N \in Nat /\ M \in Nat
      /\ \A i \in 1 .. N : s[i] \in facts
      /\ \A i \in 1 .. M : t[i] \in facts
      /\ \A i \in 1 .. N : \E j \in 1 .. M : s[i] = t[j]
      /\ \A j \in 1 .. M : \E i \in 1 .. N : s[i] = t[j]
  <2>1. /\ N \in Nat /\ M \in Nat
        /\ \A i \in 1 .. N : s[i] \in facts
        /\ \A i \in 1 .. M : t[i] \in facts
    OBVIOUS
  <2> HIDE DEF N, M
  <2>2. \A i \in 1 .. N : s[i] \in ToSet(t)
    BY <1>0
  <2>3. \A j \in 1 .. M : t[j] \in ToSet(s)
    BY <1>0
  <2> QED
    BY <1>0, <2>1, <2>2, <2>3
<1>2. /\ \A n, m \in 1 .. N : s[n].id = s[m].id => n = m
      /\ \A n, m \in 1 .. N : s[m].id \in s[n].after => m < n
      /\ \A n, m \in 1 .. N : n < m =>
           Before(s[n], s[m]) \/ \E i \in n .. m - 1 : s[i].id \in s[m].after
  BY DEF Ordered
<1>3. /\ \A n, m \in 1 .. M : t[n].id = t[m].id => n = m
      /\ \A n, m \in 1 .. M : t[m].id \in t[n].after => m < n
      /\ \A n, m \in 1 .. M : n < m =>
           Before(t[n], t[m]) \/ \E i \in n .. m - 1 : t[i].id \in t[m].after
  BY DEF Ordered
<1> HIDE DEF N, M
<1> DEFINE P == {n \in Nat : n \in 1 .. N /\ n \in 1 .. M => s[n] = t[n]}
<1>4. ASSUME NEW n \in Nat, n \in 1 .. N, n \in 1 .. M, s[n] # t[n],
             \A i \in Nat : i < n => (i \in 1 .. N /\ i \in 1 .. M => s[i] = t[i])
      PROVE  FALSE
  <2>0. ASSUME NEW i \in Nat, i # 0, i < n PROVE i \in 1 .. N /\ i \in 1 .. M /\ s[i] = t[i]
    <3>1. i \in 1 .. N /\ i \in 1 .. M
      BY <1>1, <1>4, <2>0
    <3> QED
      BY <1>4, <2>0, <3>1
  <2>1. PICK m \in 1 .. M : s[n] = t[m]
    BY <1>1, <1>4
  <2>2. PICK k \in 1 .. N : t[n] = s[k]
    BY <1>1, <1>4
  <2>3. n < m /\ n < k
    <3>1. ~(m < n)
      <4> SUFFICES ASSUME m < n PROVE FALSE
        OBVIOUS
      <4>1. s[m] = t[m] /\ m \in 1 .. N
        BY <2>0, <2>1
      <4> QED
        BY <1>2, <1>4, <2>1, <4>1
    <3>2. ~(k < n)
      <4> SUFFICES ASSUME k < n PROVE FALSE
        OBVIOUS
      <4>1. s[k] = t[k] /\ k \in 1 .. M
        BY <2>0, <2>2
      <4> QED
        BY <1>3, <1>4, <2>2, <4>1
    <3>3. m # n /\ k # n
      BY <1>4, <2>1, <2>2
    <3> QED
      BY <1>1, <2>1, <2>2, <3>1, <3>2, <3>3
  <2>4. Before(s[n], t[n])
    <3> SUFFICES ASSUME NEW i \in n .. k - 1, s[i].id \in s[k].after PROVE FALSE
      BY <1>2, <1>4, <2>2, <2>3
    <3>1. i \in 1 .. N /\ n <= i
      BY <1>1, <1>4, <2>2
    <3>2. PICK j \in 1 .. M : s[i] = t[j]
      BY <1>1, <3>1
    <3>3. j < n
      BY <1>3, <1>4, <2>2, <3>2
    <3>4. s[j] = t[j] /\ j \in 1 .. N
      BY <2>0, <3>2, <3>3
    <3>5. i = j
      BY <1>2, <3>1, <3>2, <3>4
    <3> QED
      BY <1>1, <1>4, <3>1, <3>3, <3>5
  <2>5. Before(t[n], s[n])
    <3> SUFFICES ASSUME NEW i \in n .. m - 1, t[i].id \in t[m].after PROVE FALSE
      BY <1>3, <1>4, <2>1, <2>3
    <3>1. i \in 1 .. M /\ n <= i
      BY <1>1, <1>4, <2>1
    <3>2. PICK j \in 1 .. N : t[i] = s[j]
      BY <1>1, <3>1
    <3>3. j < n
      BY <1>2, <1>4, <2>1, <3>2
    <3>4. s[j] = t[j] /\ j \in 1 .. M
      BY <2>0, <3>2, <3>3
    <3>5. i = j
      BY <1>3, <3>1, <3>2, <3>4
    <3> QED
      BY <1>1, <1>4, <3>1, <3>3, <3>5
  <2> QED
    BY <1>1, <1>4, <2>4, <2>5, Stamps
<1>5. \A n \in Nat : n \in 1 .. N /\ n \in 1 .. M => s[n] = t[n]
  <2> DEFINE S == {n \in Nat : n \in 1 .. N /\ n \in 1 .. M /\ s[n] # t[n]}
  <2> SUFFICES ASSUME S # {} PROVE FALSE
    OBVIOUS
  <2>1. S \subseteq Nat
    OBVIOUS
  <2>2. PICK n \in S : \A y \in S : ~(<<y, n>> \in OpToRel(<, Nat))
    BY <2>1, NatLessThanWellFounded, WFMin
  <2>3. \A y \in S : ~(y < n)
    BY <2>1, <2>2 DEF OpToRel
  <2> QED
    BY <1>4, <2>2, <2>3
<1>6. N = M
  <2>1. CASE N < M
    <3>1. N + 1 \in 1 .. M
      BY <1>1, <2>1
    <3>2. PICK i \in 1 .. N : s[i] = t[N + 1]
      BY <1>1, <3>1
    <3>3. i \in 1 .. M /\ i # N + 1 /\ i \in Nat
      BY <1>1, <2>1, <3>2
    <3> QED
      BY <1>3, <1>5, <3>1, <3>2, <3>3
  <2>2. CASE M < N
    <3>1. M + 1 \in 1 .. N
      BY <1>1, <2>2
    <3>2. PICK i \in 1 .. M : s[M + 1] = t[i]
      BY <1>1, <3>1
    <3>3. i \in 1 .. N /\ i # M + 1 /\ i \in Nat
      BY <1>1, <2>2, <3>2
    <3> QED
      BY <1>2, <1>5, <3>1, <3>2, <3>3
  <2> QED
    BY <1>1, <2>1, <2>2
<1>7. \A i \in 1 .. N : s[i] = t[i]
  BY <1>1, <1>5, <1>6
<1> QED
  BY <1>6, <1>7, SeqEqual DEF N, M

\* union (facts.py:104) is the facts that are kept, in the order above.
LEMMA UnionIs ==
    ASSUME NEW facts, Readable(facts)
    PROVE  /\ Union(facts) \in Seq(facts)
           /\ ToSet(Union(facts)) = Kept(facts)
           /\ Ordered(Union(facts))
<1> DEFINE K == Kept(facts)
           N == Cardinality(K)
           Next1(done) == Append(done, Least(Ready(K \ ToSet(done))))
           E == facts \cup {Least({})}
           S == Seq(E)
           G == [n \in 1 .. N |-> [done \in S |-> Next1(done)]]
<1>1. K \subseteq facts /\ IsFiniteSet(K) /\ N \in Nat
  <2>1. K \in SUBSET facts
    BY KeptIs
  <2> HIDE DEF K
  <2> QED
    BY <2>1, FS_Subset, FS_CardinalityType DEF Readable
<1> HIDE DEF K
\* Of the facts that are left, the least that waits for none of them.
<1>2. ASSUME NEW rest \in SUBSET facts, rest # {}
      PROVE  /\ Least(Ready(rest)) \in Ready(rest)
             /\ \A g \in Ready(rest) \ {Least(Ready(rest))} : Before(Least(Ready(rest)), g)
  <2>1. Ready(rest) \in SUBSET facts /\ Ready(rest) # {}
    BY <1>2 DEF Readable, Ready
  <2> QED
    BY <2>1, Fewer, LeastIs
<1>3. ASSUME NEW rest \in SUBSET facts PROVE Least(Ready(rest)) \in E
  <2>1. CASE rest = {}
    <3>1. Ready(rest) = {}
      BY <2>1 DEF Ready
    <3> QED
      BY <3>1
  <2>2. CASE rest # {}
    BY <1>2, <2>2 DEF Ready
  <2> QED
    BY <2>1, <2>2
<1>4. G \in [1 .. N -> [S -> S]]
  <2>1. ASSUME NEW done \in S PROVE Next1(done) \in S
    <3>1. K \ ToSet(done) \in SUBSET facts
      BY <1>1
    <3>2. Least(Ready(K \ ToSet(done))) \in E
      BY <1>3, <3>1
    <3> HIDE DEF E
    <3> QED
      BY <3>2
  <2> HIDE DEF Next1, S
  <2> QED
    BY <2>1
<1> DEFINE Steps(f) == f = [n \in 0 .. N |-> IF n = 0 THEN <<>> ELSE Next1(f[n - 1])]
<1>5. \E f : Steps(f)
  <2>1. <<>> \in S
    OBVIOUS
  <2>2. PICK f \in [0 .. N -> S] : f[0] = <<>> /\ \A n \in 1 .. N : f[n] = G[n][f[n - 1]]
    <3> HIDE DEF G, S, N
    <3>1. StepsOn(S, N, <<>>, G)
      BY <1>1, <1>4, <2>1 DEF StepsOn
    <3>2. PICK f : Computed(f, S, N, <<>>, G)
      BY <3>1, Recursion
    <3> QED
      BY <3>2 DEF Computed
  <2>3. ASSUME NEW n \in 0 .. N
        PROVE  f[n] = IF n = 0 THEN <<>> ELSE Next1(f[n - 1])
    <3> HIDE DEF Next1, S, N
    <3>1. n # 0 => n - 1 \in 0 .. N /\ n \in 1 .. N
      BY <1>1
    <3>2. n # 0 => G[n][f[n - 1]] = Next1(f[n - 1])
      BY <2>2, <3>1
    <3> HIDE DEF G
    <3> QED
      BY <2>2, <3>1, <3>2
  <2>4. f = [n \in 0 .. N |-> f[n]]
    BY <2>2
  <2>5. Steps(f)
    BY <2>3, <2>4
  <2> HIDE DEF Steps
  <2> QED
    BY <2>5
<1> DEFINE f == CHOOSE f : Steps(f)
<1>6. Steps(f)
  BY <1>5
<1>7. Union(facts) = f[N]
  BY DEF Union, K
<1> HIDE DEF G, S, E, f
\* What the first n steps have done.
<1> DEFINE Rest(s, n) == K \ {s[j] : j \in 1 .. n - 1}
           Chosen(s, n) == /\ s[n] \in Ready(Rest(s, n))
                           /\ \A g \in Ready(Rest(s, n)) \ {s[n]} : Before(s[n], g)
           Done(s, n) == /\ s \in Seq(K) /\ Len(s) = n
                         /\ IsFiniteSet(ToSet(s)) /\ Cardinality(ToSet(s)) = n
                         /\ \A i \in 1 .. n : Chosen(s, i)
           P == {n \in 0 .. N : Done(f[n], n)}
<1>8. 0 \in P
  <2>1. ToSet(<<>>) = {}
    BY DEF ToSet
  <2> HIDE DEF Chosen
  <2>2. Done(<<>>, 0)
    BY <2>1, FS_EmptySet
  <2>3. f[0] = <<>>
    <3> HIDE DEF N, Next1
    <3> QED
      BY <1>1, <1>6
  <2> HIDE DEF Done, N
  <2> QED
    BY <1>1, <2>2, <2>3
<1>9. ASSUME NEW n \in 1 .. N, n - 1 \in P PROVE n \in P
  <2> DEFINE s == f[n - 1]
             rest == K \ ToSet(s)
             x == Least(Ready(rest))
             t == f[n]
  <2>1. Done(s, n - 1)
    BY <1>9
  <2>2. s \in Seq(K) /\ Len(s) = n - 1 /\ IsFiniteSet(ToSet(s)) /\ Cardinality(ToSet(s)) = n - 1
    BY <2>1
  <2>3. t = Append(s, x)
    <3> HIDE DEF N, Next1
    <3>1. n \in 0 .. N /\ n # 0
      BY <1>1
    <3>2. f[n] = Next1(f[n - 1])
      BY <1>6, <3>1
    <3> QED
      BY <3>2 DEF Next1
  <2> HIDE DEF s, t, N, Chosen
  <2>4. ToSet(s) = {s[j] : j \in 1 .. n - 1}
    <3>1. DOMAIN s = 1 .. n - 1
      BY <2>2
    <3> QED
      BY <3>1 DEF ToSet
  <2>5. ToSet(s) # K
    BY <1>1, <2>2 DEF N
  <2>6. rest \in SUBSET facts /\ rest # {}
    <3>1. ToSet(s) \subseteq K
      BY <2>2, <2>4
    <3> QED
      BY <1>1, <2>5, <3>1
  <2>7. x \in Ready(rest) /\ \A g \in Ready(rest) \ {x} : Before(x, g)
    <3> HIDE DEF rest
    <3> QED
      BY <1>2, <2>6
  <2>8. x \in K /\ x \notin ToSet(s)
    BY <2>7 DEF Ready
  <2> HIDE DEF x
  <2>9. t \in Seq(K) /\ Len(t) = n /\ t[n] = x /\ \A i \in 1 .. n - 1 : t[i] = s[i]
    BY <2>2, <2>3, <2>8
  <2>10. ToSet(t) = ToSet(s) \cup {x}
    <3>1. DOMAIN t = 1 .. n
      BY <2>9
    <3>2. ToSet(t) = {t[i] : i \in 1 .. n}
      BY <3>1 DEF ToSet
    <3>3. \A i \in 1 .. n : i = n \/ i \in 1 .. n - 1
      OBVIOUS
    <3>4. n \in 1 .. n /\ 1 .. n - 1 \subseteq 1 .. n
      OBVIOUS
    <3> QED
      BY <2>4, <2>9, <3>2, <3>3, <3>4
  <2>11. IsFiniteSet(ToSet(t)) /\ Cardinality(ToSet(t)) = n
    BY <2>2, <2>8, <2>10, FS_AddElement
  <2>12. ASSUME NEW i \in 1 .. n PROVE Chosen(t, i)
    <3>1. CASE i = n
      <4>1. Rest(t, n) = rest
        BY <2>4, <2>9
      <4> QED
        BY <2>7, <2>9, <3>1, <4>1 DEF Chosen
    <3>2. CASE i # n
      <4>1. i \in 1 .. n - 1 /\ \A j \in 1 .. i - 1 : j \in 1 .. n - 1
        BY <3>2
      <4>2. Rest(t, i) = Rest(s, i) /\ t[i] = s[i]
        BY <2>9, <4>1
      <4>3. Chosen(s, i)
        BY <2>1, <4>1
      <4> HIDE DEF Rest
      <4> QED
        BY <4>2, <4>3 DEF Chosen
    <3> QED
      BY <3>1, <3>2
  <2>13. Done(t, n)
    BY <2>9, <2>11, <2>12
  <2> HIDE DEF Done
  <2> QED
    BY <1>1, <2>13 DEF t
<1> DEFINE u == f[N]
<1>10. Done(u, N)
  <2>1. \A n \in 0 .. N : n \in P
    <3> HIDE DEF P, N
    <3> QED
      BY <1>1, <1>8, <1>9, Counting
  <2>2. N \in P
    <3> HIDE DEF P, N
    <3> QED
      BY <1>1, <2>1
  <2> HIDE DEF Done
  <2> QED
    BY <2>2
<1>11. u = Union(facts)
  BY <1>7
<1> HIDE DEF u
<1>12. u \in Seq(K) /\ Len(u) = N /\ ToSet(u) = {u[i] : i \in 1 .. N} /\ ToSet(u) = K
  <2> HIDE DEF Chosen
  <2>1. u \in Seq(K) /\ Len(u) = N /\ IsFiniteSet(ToSet(u)) /\ Cardinality(ToSet(u)) = N
    BY <1>10
  <2>2. DOMAIN u = 1 .. N
    BY <2>1
  <2>3. ToSet(u) = {u[i] : i \in 1 .. N}
    BY <2>2 DEF ToSet
  <2>4. ToSet(u) \in SUBSET K
    BY <2>1, <2>3
  <2> QED
    BY <1>1, <2>1, <2>3, <2>4, FS_Subset
<1>13. Ordered(u)
  <2>1. \A n \in 1 .. N : /\ u[n] \in K
                          /\ Chosen(u, n)
    <3> HIDE DEF Chosen
    <3> QED
      BY <1>10, <1>12
  <2>2. \A n \in 1 .. N : u[n] \in Ready(Rest(u, n)) /\ u[n] \in Rest(u, n)
    <3> HIDE DEF Rest
    <3> QED
      BY <2>1 DEF Ready
  <2>3. ASSUME NEW n \in 1 .. N, NEW m \in 1 .. N, u[n] = u[m] PROVE n = m
    <3> HIDE DEF N
    <3>1. ~(n < m)
      <4> SUFFICES ASSUME n < m PROVE FALSE
        OBVIOUS
      <4>1. n \in 1 .. m - 1
        OBVIOUS
      <4> QED
        BY <2>2, <2>3, <4>1
    <3>2. ~(m < n)
      <4> SUFFICES ASSUME m < n PROVE FALSE
        OBVIOUS
      <4>1. m \in 1 .. n - 1
        OBVIOUS
      <4> QED
        BY <2>2, <2>3, <4>1
    <3> QED
      BY <3>1, <3>2
  <2>4. ASSUME NEW n \in 1 .. N, NEW m \in 1 .. N, ~(m < n) PROVE u[m] \in Rest(u, n)
    <3> HIDE DEF N
    <3>1. \A j \in 1 .. n - 1 : j \in 1 .. N /\ j # m
      BY <1>1, <2>4
    <3> QED
      BY <2>1, <2>3, <3>1
  <2>5. \A n, m \in 1 .. N : u[n].id = u[m].id => n = m
    BY <2>1, <2>3, KeptIs DEF K
  <2>6. ASSUME NEW n \in 1 .. N, NEW m \in 1 .. N, u[m].id \in u[n].after PROVE m < n
    <3> SUFFICES ASSUME ~(m < n) PROVE FALSE
      OBVIOUS
    <3>1. u[m] \in Rest(u, n)
      BY <2>4
    <3> HIDE DEF Rest
    <3> QED
      BY <2>2, <2>6, <3>1 DEF Ready, Ids
  <2>7. ASSUME NEW n \in 1 .. N, NEW m \in 1 .. N, n < m
        PROVE  Before(u[n], u[m]) \/ \E i \in n .. m - 1 : u[i].id \in u[m].after
    <3>1. u[m] \in Rest(u, n) /\ u[m] # u[n]
      <4> HIDE DEF N, Rest
      <4> QED
        BY <2>3, <2>4, <2>7
    <3>2. CASE u[m] \in Ready(Rest(u, n))
      <4>1. Chosen(u, n)
        BY <2>1
      <4> HIDE DEF Rest
      <4> QED
        BY <3>1, <3>2, <4>1
    <3>3. CASE u[m] \notin Ready(Rest(u, n))
      <4>1. PICK g \in Rest(u, n) : g.id \in u[m].after
        <5> HIDE DEF Rest
        <5> QED
          BY <3>1, <3>3 DEF Ready, Ids
      <4>2. PICK i \in 1 .. N : g = u[i]
        BY <1>12, <4>1
      <4>3. i < m
        BY <2>6, <4>1, <4>2
      <4>4. ~(i < n)
        <5> SUFFICES ASSUME i < n PROVE FALSE
          OBVIOUS
        <5> HIDE DEF N
        <5>1. i \in 1 .. n - 1
          OBVIOUS
        <5> QED
          BY <4>1, <4>2, <5>1
      <4>5. i \in n .. m - 1
        <5> HIDE DEF N
        <5> QED
          BY <1>1, <4>3, <4>4
      <4> QED
        BY <4>1, <4>2, <4>5
    <3> QED
      BY <3>2, <3>3
  <2> HIDE DEF N
  <2> QED
    BY <1>12, <2>5, <2>6, <2>7 DEF Ordered
<1> QED
  BY <1>1, <1>11, <1>12, <1>13, SeqMonotonic DEF K

-----------------------------------------------------------------------------
(* What a cut leaves *)

\* newest_renewals (ledger.py), row by row.
LEMMA CutSteps ==
    ASSUME NEW facts, NEW rows \in Seq(facts)
    PROVE  \E kept :
               /\ \A n \in 0 .. Len(rows) : kept[n] \in Seq(facts)
               /\ kept[0] = <<>>
               /\ \A n \in 1 .. Len(rows) :
                      kept[n] = IF Stale(rows[n], ToSet(rows)) THEN kept[n - 1]
                                ELSE Append(kept[n - 1], rows[n])
               /\ Cut(rows) = kept[Len(rows)]
<1> DEFINE N == Len(rows)
           Next1(n, s) == IF Stale(rows[n], ToSet(rows)) THEN s ELSE Append(s, rows[n])
           S == Seq(facts)
           G == [n \in 1 .. N |-> [s \in S |-> Next1(n, s)]]
           Steps(f) == f = [n \in 0 .. N |-> IF n = 0 THEN <<>> ELSE Next1(n, f[n - 1])]
<1>1. N \in Nat /\ <<>> \in S
  OBVIOUS
<1>2. \A n \in 1 .. N, s \in S : Next1(n, s) \in S
  OBVIOUS
<1>3. PICK f : Computed(f, S, N, <<>>, G)
  <2>1. StepsOn(S, N, <<>>, G)
    <3> HIDE DEF Next1, S, N
    <3> QED
      BY <1>1, <1>2 DEF StepsOn
  <2> HIDE DEF G, S, N
  <2> QED
    BY <2>1, Recursion
<1>4. Steps(f)
  <2>1. ASSUME NEW n \in 0 .. N
        PROVE  f[n] = IF n = 0 THEN <<>> ELSE Next1(n, f[n - 1])
    <3> HIDE DEF Next1, S, N
    <3>1. n # 0 => n - 1 \in 0 .. N /\ n \in 1 .. N
      BY <1>1
    <3>2. n # 0 => G[n][f[n - 1]] = Next1(n, f[n - 1])
      BY <1>3, <3>1 DEF Computed
    <3> HIDE DEF G
    <3> QED
      BY <1>3, <3>1, <3>2 DEF Computed
  <2> HIDE DEF Next1, S, N, G
  <2>2. f = [n \in 0 .. N |-> f[n]]
    BY <1>3 DEF Computed
  <2> QED
    BY <2>1, <2>2
<1> DEFINE kept == CHOOSE g : Steps(g)
<1>5. Steps(kept)
  <2> HIDE DEF Steps
  <2> QED
    BY <1>4
<1>6. Cut(rows) = kept[N]
  BY DEF Cut
<1> HIDE DEF kept, G
<1>7. kept[0] = <<>> /\ \A n \in 1 .. N : kept[n] = Next1(n, kept[n - 1])
  <2> HIDE DEF Next1, N
  <2>1. 0 \in 0 .. N /\ \A n \in 1 .. N : n \in 0 .. N /\ n # 0
    BY <1>1
  <2> QED
    BY <1>5, <2>1
<1>8. \A n \in 0 .. N : kept[n] \in S
  <2> DEFINE P == {n \in 0 .. N : kept[n] \in S}
  <2>1. 0 \in P
    <3>1. 0 \in 0 .. N /\ kept[0] \in S
      BY <1>1, <1>7
    <3> HIDE DEF N, S
    <3> QED
      BY <3>1
  <2>2. ASSUME NEW n \in 1 .. N, n - 1 \in P PROVE n \in P
    <3> HIDE DEF Next1, N, S
    <3>1. n \in 0 .. N
      BY <1>1
    <3> QED
      BY <1>2, <1>7, <2>2, <3>1
  <2>3. \A n \in 0 .. N : n \in P
    <3> HIDE DEF P, N
    <3> QED
      BY <1>1, <2>1, <2>2, Counting
  <2> QED
    BY <2>3
<1> QED
  BY <1>6, <1>7, <1>8

\* s is the rows that are not superseded, each from its place in rows.
PickedAt(at, s, rows) ==
    /\ \A i \in 1 .. Len(s) : /\ at[i] \in 1 .. Len(rows)
                              /\ s[i] = rows[at[i]]
                              /\ ~Stale(rows[at[i]], ToSet(rows))
    /\ \A i, j \in 1 .. Len(s) : i < j => at[i] < at[j]
    /\ \A i \in 1 .. Len(rows) : ~Stale(rows[i], ToSet(rows)) =>
           \E j \in 1 .. Len(s) : at[j] = i

\* A cut picks rows in their order, all but the superseded renewals.
LEMMA CutPicks ==
    ASSUME NEW facts, NEW rows \in Seq(facts)
    PROVE  /\ Cut(rows) \in Seq(facts)
           /\ \E at : PickedAt(at, Cut(rows), rows)
<1> DEFINE N == Len(rows)
           Old(i) == Stale(rows[i], ToSet(rows))
<1>1. N \in Nat /\ \A n \in 1 .. N : rows[n] \in facts
  OBVIOUS
<1>2. PICK kept : /\ \A n \in 0 .. N : kept[n] \in Seq(facts)
                  /\ kept[0] = <<>>
                  /\ \A n \in 1 .. N :
                         kept[n] = IF Old(n) THEN kept[n - 1] ELSE Append(kept[n - 1], rows[n])
                  /\ Cut(rows) = kept[N]
  BY CutSteps
<1> HIDE DEF N, Old
<1> DEFINE Picks(at, s, n) ==
               /\ at \in Seq(1 .. n) /\ Len(at) = Len(s)
               /\ \A i \in 1 .. Len(s) : s[i] = rows[at[i]] /\ ~Old(at[i])
               /\ \A i, j \in 1 .. Len(s) : i < j => at[i] < at[j]
               /\ \A i \in 1 .. n : ~Old(i) => \E j \in 1 .. Len(s) : at[j] = i
           P == {n \in 0 .. N : \E at : Picks(at, kept[n], n)}
<1>3. 0 \in P
  <2>1. Picks(<<>>, <<>>, 0)
    OBVIOUS
  <2> HIDE DEF Picks
  <2> QED
    BY <1>1, <1>2, <2>1
<1>4. ASSUME NEW n \in 1 .. N, n - 1 \in P PROVE n \in P
  <2> DEFINE s == kept[n - 1]
             t == kept[n]
  <2>1. n \in 0 .. N /\ n - 1 \in 0 .. N /\ n \in Nat /\ n - 1 \in Nat /\ n - 1 < n
    BY <1>1
  <2>2. s \in Seq(facts) /\ t \in Seq(facts)
    BY <1>2, <2>1
  <2>3. PICK at : Picks(at, s, n - 1)
    BY <1>4
  <2>4. t = IF Old(n) THEN s ELSE Append(s, rows[n])
    BY <1>2
  <2> HIDE DEF s, t
  <2>5. /\ at \in Seq(1 .. n - 1) /\ Len(at) = Len(s) /\ Len(s) \in Nat
        /\ \A i \in 1 .. Len(s) : s[i] = rows[at[i]] /\ ~Old(at[i]) /\ at[i] \in 1 .. n - 1
        /\ \A i, j \in 1 .. Len(s) : i < j => at[i] < at[j]
        /\ \A i \in 1 .. n - 1 : ~Old(i) => \E j \in 1 .. Len(s) : at[j] = i
    BY <2>2, <2>3
  <2>6. at \in Seq(1 .. n)
    <3>1. 1 .. n - 1 \subseteq 1 .. n
      BY <2>1
    <3> QED
      BY <2>5, <3>1, SeqMonotonic
  <2>7. \A i \in 1 .. n : i = n \/ i \in 1 .. n - 1
    BY <2>1
  <2>8. CASE Old(n)
    <3>1. t = s
      BY <2>4, <2>8
    <3>2. Picks(at, t, n)
      BY <2>5, <2>6, <2>7, <2>8, <3>1
    <3> HIDE DEF Picks
    <3> QED
      BY <2>1, <3>2 DEF t
  <2>9. CASE ~Old(n)
    <3> DEFINE to == Append(at, n)
    <3>1. /\ to \in Seq(1 .. n) /\ Len(to) = Len(s) + 1 /\ to[Len(s) + 1] = n
          /\ \A i \in 1 .. Len(s) : to[i] = at[i]
      <4>1. n \in 1 .. n
        BY <2>1
      <4> QED
        BY <2>5, <2>6, <4>1
    <3>2. /\ Len(t) = Len(s) + 1 /\ t[Len(s) + 1] = rows[n]
          /\ \A i \in 1 .. Len(s) : t[i] = s[i]
      BY <1>1, <2>2, <2>4, <2>9
    <3> HIDE DEF to
    <3>3. \A i \in 1 .. Len(t) : i = Len(s) + 1 \/ i \in 1 .. Len(s)
      BY <2>5, <3>2
    <3>4. \A i \in 1 .. Len(t) : t[i] = rows[to[i]] /\ ~Old(to[i])
      BY <2>5, <2>9, <3>1, <3>2, <3>3
    <3>5. ASSUME NEW i \in 1 .. Len(t), NEW j \in 1 .. Len(t), i < j PROVE to[i] < to[j]
      <4>1. i \in 1 .. Len(s)
        BY <2>5, <3>2, <3>5
      <4>2. CASE j \in 1 .. Len(s)
        BY <2>5, <3>1, <3>5, <4>1, <4>2
      <4>3. CASE j = Len(s) + 1
        <5>1. to[i] \in 1 .. n - 1 /\ to[j] = n
          BY <2>5, <3>1, <4>1, <4>3
        <5> QED
          BY <2>1, <5>1
      <4> QED
        BY <3>3, <4>2, <4>3
    <3>6. ASSUME NEW i \in 1 .. n, ~Old(i) PROVE \E j \in 1 .. Len(t) : to[j] = i
      <4>1. Len(s) + 1 \in 1 .. Len(t) /\ \A j \in 1 .. Len(s) : j \in 1 .. Len(t)
        BY <2>5, <3>2
      <4>2. CASE i = n
        BY <3>1, <4>1, <4>2
      <4>3. CASE i \in 1 .. n - 1
        <5>1. PICK j \in 1 .. Len(s) : at[j] = i
          BY <2>5, <3>6, <4>3
        <5> QED
          BY <3>1, <4>1, <5>1
      <4> QED
        BY <2>7, <4>2, <4>3
    <3>7. Picks(to, t, n)
      BY <3>1, <3>2, <3>4, <3>5, <3>6
    <3> HIDE DEF Picks
    <3> QED
      BY <2>1, <3>7 DEF t
  <2> QED
    BY <2>8, <2>9
<1>5. PICK at : Picks(at, Cut(rows), N)
  <2>1. \A n \in 0 .. N : n \in P
    <3> HIDE DEF P
    <3> QED
      BY <1>1, <1>3, <1>4, Counting
  <2> HIDE DEF Picks
  <2>2. N \in 0 .. N
    BY <1>1
  <2> QED
    BY <1>2, <2>1, <2>2
<1>6. Cut(rows) \in Seq(facts)
  BY <1>1, <1>2
<1>7. \A i \in 1 .. Len(Cut(rows)) : at[i] \in 1 .. N
  <2>1. at \in Seq(1 .. N) /\ Len(at) = Len(Cut(rows))
    BY <1>5
  <2> QED
    BY <2>1, ElementOfSeq
<1>8. PickedAt(at, Cut(rows), rows)
  BY <1>5, <1>7 DEF PickedAt, N, Old
<1> QED
  BY <1>6, <1>8

\* Nothing comes after a renewal (ledger.py:137), so that the rows a cut leaves
\* are in the order of the union still.
LEMMA CutOrdered ==
    ASSUME NEW facts, Readable(facts), NEW s \in Seq(facts), Ordered(s)
    PROVE  /\ Ordered(Cut(s))
           /\ ToSet(Cut(s)) = {f \in ToSet(s) : ~Stale(f, ToSet(s))}
<1> DEFINE t == Cut(s)
           N == Len(s)
           M == Len(t)
           Old(f) == Stale(f, ToSet(s))
<1>1. t \in Seq(facts)
  BY CutPicks
<1>2. PICK at : /\ \A i \in 1 .. M : /\ at[i] \in 1 .. N
                                       /\ t[i] = s[at[i]]
                                       /\ ~Old(s[at[i]])
                /\ \A i, j \in 1 .. M : i < j => at[i] < at[j]
                /\ \A i \in 1 .. N : ~Old(s[i]) => \E j \in 1 .. M : at[j] = i
  <2>1. PICK at : PickedAt(at, t, s)
    BY CutPicks
  <2> QED
    BY <2>1 DEF PickedAt
<1>3. /\ N \in Nat /\ M \in Nat /\ \A i \in 1 .. N : s[i] \in facts
      /\ ToSet(s) = {s[i] : i \in 1 .. N} /\ ToSet(t) = {t[i] : i \in 1 .. M}
  <2> HIDE DEF t
  <2>1. DOMAIN s = 1 .. N /\ DOMAIN t = 1 .. M
    BY <1>1
  <2>2. ToSet(s) = {s[i] : i \in DOMAIN s} /\ ToSet(t) = {t[i] : i \in DOMAIN t}
    BY DEF ToSet
  <2> QED
    BY <1>1, <2>1, <2>2
<1>4. \A i \in 1 .. N : Old(s[i]) => s[i].kind = "renewed"
  BY DEF Stale
<1>5. /\ \A n, m \in 1 .. N : s[n].id = s[m].id => n = m
      /\ \A n, m \in 1 .. N : s[m].id \in s[n].after => m < n
      /\ \A n, m \in 1 .. N : n < m =>
           Before(s[n], s[m]) \/ \E i \in n .. m - 1 : s[i].id \in s[m].after
  BY DEF Ordered
<1> HIDE DEF t, N, M, Old
<1>6. \A i, j \in 1 .. M : at[i] <= at[j] => i <= j
  <2> SUFFICES ASSUME NEW i \in 1 .. M, NEW j \in 1 .. M, at[i] <= at[j], j < i PROVE FALSE
    BY <1>3
  <2>1. at[j] < at[i] /\ at[j] \in 1 .. N /\ at[i] \in 1 .. N
    BY <1>2
  <2> QED
    BY <1>3, <2>1
<1>7. \A n, m \in 1 .. M : t[n].id = t[m].id => n = m
  <2> SUFFICES ASSUME NEW n \in 1 .. M, NEW m \in 1 .. M, t[n].id = t[m].id PROVE n = m
    OBVIOUS
  <2>1. at[n] = at[m] /\ at[n] \in 1 .. N
    BY <1>2, <1>5
  <2>2. at[n] <= at[m] /\ at[m] <= at[n]
    BY <1>3, <2>1
  <2>3. n <= m /\ m <= n
    BY <1>6, <2>2
  <2> QED
    BY <1>3, <2>3
<1>8. \A n, m \in 1 .. M : t[m].id \in t[n].after => m < n
  <2> SUFFICES ASSUME NEW n \in 1 .. M, NEW m \in 1 .. M, t[m].id \in t[n].after PROVE m < n
    OBVIOUS
  <2>1. at[m] < at[n] /\ at[m] \in 1 .. N /\ at[n] \in 1 .. N
    BY <1>2, <1>5
  <2>2. at[m] <= at[n] /\ m # n
    BY <1>3, <2>1
  <2>3. m <= n
    BY <1>6, <2>2
  <2> QED
    BY <1>3, <2>2, <2>3
<1>9. ASSUME NEW n \in 1 .. M, NEW m \in 1 .. M, n < m
      PROVE  Before(t[n], t[m]) \/ \E i \in n .. m - 1 : t[i].id \in t[m].after
  <2>1. at[n] \in 1 .. N /\ at[m] \in 1 .. N /\ at[n] < at[m] /\ t[n] = s[at[n]] /\ t[m] = s[at[m]]
    BY <1>2, <1>9
  <2>2. CASE Before(t[n], t[m])
    BY <2>2
  <2>3. CASE ~Before(t[n], t[m])
    <3>1. PICK k \in at[n] .. at[m] - 1 : s[k].id \in s[at[m]].after
      BY <1>5, <2>1, <2>3
    <3>2. k \in 1 .. N /\ at[n] <= k /\ k < at[m]
      BY <1>3, <2>1, <3>1
    <3>3. ~Old(s[k])
      BY <1>3, <1>4, <2>1, <3>1, <3>2 DEF Readable
    <3>4. PICK i \in 1 .. M : at[i] = k
      BY <1>2, <3>2, <3>3
    <3>5. n <= i /\ i <= m /\ i # m
      <4>1. at[n] <= at[i] /\ at[i] <= at[m] /\ at[i] # at[m]
        BY <1>3, <2>1, <3>2, <3>4
      <4> QED
        BY <1>6, <4>1
    <3>6. i \in n .. m - 1
      BY <1>3, <3>5
    <3>7. t[i].id \in t[m].after
      BY <1>2, <2>1, <3>1, <3>4
    <3> QED
      BY <3>6, <3>7
  <2> QED
    BY <2>2, <2>3
<1>10. Ordered(t)
  BY <1>7, <1>8, <1>9 DEF Ordered, M
<1>11. ToSet(t) = {f \in ToSet(s) : ~Old(f)}
  <2>1. \A i \in 1 .. M : t[i] \in ToSet(s) /\ ~Old(t[i])
    BY <1>2, <1>3
  <2>2. ASSUME NEW f \in ToSet(s), ~Old(f) PROVE f \in ToSet(t)
    <3>1. PICK i \in 1 .. N : f = s[i]
      BY <1>3
    <3>2. PICK j \in 1 .. M : at[j] = i
      BY <1>2, <2>2, <3>1
    <3>3. t[j] = f
      BY <1>2, <3>1, <3>2
    <3> QED
      BY <1>3, <3>3
  <2> QED
    BY <1>3, <2>1, <2>2
<1> QED
  BY <1>10, <1>11 DEF t, Old

\* The reducer passes over renewals, so that a replay does not see the cut.
LEMMA CutReplay ==
    ASSUME NEW facts, NEW rows \in Seq(facts), NEW st
    PROVE  Replay(st, Cut(rows)) = Replay(st, rows)
<1> DEFINE N == Len(rows)
           Old(n) == Stale(rows[n], ToSet(rows))
<1>1. N \in Nat /\ \A n \in 1 .. N : rows[n] \in facts
  OBVIOUS
<1>2. PICK kept : /\ \A n \in 0 .. N : kept[n] \in Seq(facts)
                  /\ kept[0] = <<>>
                  /\ \A n \in 1 .. N :
                         kept[n] = IF Old(n) THEN kept[n - 1] ELSE Append(kept[n - 1], rows[n])
                  /\ Cut(rows) = kept[N]
  BY CutSteps
<1>3. \A x : \A n \in 1 .. N : Old(n) => Apply(x, rows[n]) = x
  <2>1. \A n \in 1 .. N : Old(n) => rows[n].kind = "renewed"
    BY DEF Stale
  <2>2. \A x, f : f.kind = "renewed" => Apply(x, f) = x
    BY DEF Apply
  <2> HIDE DEF Old
  <2> QED
    BY <2>1, <2>2
<1> HIDE DEF N, Old
<1>4. PICK a : /\ a = [n \in 0 .. N |-> IF n = 0 THEN st ELSE Apply(a[n - 1], rows[n])]
               /\ Replay(st, rows) = a[N]
  BY <1>1, ReplayIs DEF N
<1> DEFINE P == {n \in 0 .. N : Replay(st, kept[n]) = a[n]}
<1>5. 0 \in P
  <2>1. Replay(st, <<>>) = st
    <3>1. <<>> \in Seq({st})
      OBVIOUS
    <3> QED
      BY <3>1, ReplayRow
  <2>2. 0 \in 0 .. N
    BY <1>1
  <2> QED
    BY <1>2, <1>4, <2>1, <2>2
<1>6. ASSUME NEW n \in 1 .. N, n - 1 \in P PROVE n \in P
  <2>1. n \in 0 .. N /\ n - 1 \in 0 .. N /\ n # 0
    BY <1>1
  <2>2. Replay(st, kept[n - 1]) = a[n - 1] /\ a[n] = Apply(a[n - 1], rows[n])
    BY <1>4, <1>6, <2>1
  <2>3. CASE Old(n)
    BY <1>2, <1>3, <2>1, <2>2, <2>3
  <2>4. CASE ~Old(n)
    <3>1. kept[n - 1] \in Seq(facts) /\ rows[n] \in facts
      BY <1>1, <1>2, <2>1
    <3>2. Replay(st, Append(kept[n - 1], rows[n])) = Apply(Replay(st, kept[n - 1]), rows[n])
      BY <3>1, ReplayRow
    <3> QED
      BY <1>2, <2>1, <2>2, <2>4, <3>2
  <2> QED
    BY <2>3, <2>4
<1>7. \A n \in 0 .. N : n \in P
  <2> HIDE DEF P
  <2> QED
    BY <1>1, <1>5, <1>6, Counting
<1>8. N \in 0 .. N
  BY <1>1
<1> QED
  BY <1>2, <1>4, <1>7, <1>8

\* Reducer.resume: rows after rows are folded into what the first rows gave.
LEMMA ReplayConcat ==
    ASSUME NEW facts, NEW s \in Seq(facts), NEW t \in Seq(facts), NEW st
    PROVE  Replay(st, s \o t) = Replay(Replay(st, s), t)
<1> DEFINE N == Len(s)
           M == Len(t)
           u == s \o t
<1>1. /\ N \in Nat /\ M \in Nat /\ Len(u) = N + M
      /\ \A n \in 1 .. N : u[n] = s[n]
      /\ \A n \in 1 .. M : u[N + n] = t[n]
  OBVIOUS
<1> HIDE DEF N, M, u
<1>2. PICK a : /\ a = [n \in 0 .. N |-> IF n = 0 THEN st ELSE Apply(a[n - 1], s[n])]
               /\ Replay(st, s) = a[N]
  BY <1>1, ReplayIs DEF N
<1>3. PICK b : /\ b = [n \in 0 .. M |-> IF n = 0 THEN a[N] ELSE Apply(b[n - 1], t[n])]
               /\ Replay(a[N], t) = b[M]
  BY <1>1, ReplayIs DEF M
<1>4. PICK c : /\ c = [n \in 0 .. N + M |-> IF n = 0 THEN st ELSE Apply(c[n - 1], u[n])]
               /\ Replay(st, u) = c[N + M]
  <2>1. Len(u) \in Nat
    BY <1>1
  <2>2. \E c : /\ c = [n \in 0 .. Len(u) |-> IF n = 0 THEN st ELSE Apply(c[n - 1], u[n])]
               /\ Replay(st, u) = c[Len(u)]
    BY ONLY <2>1, ReplayIs
  <2> QED
    BY <1>1, <2>2
<1>5. \A n \in 0 .. N : a[n] = c[n]
  <2> DEFINE P == {n \in 0 .. N : a[n] = c[n]}
  <2>1. 0 \in P
    BY <1>1, <1>2, <1>4
  <2>2. ASSUME NEW n \in 1 .. N, n - 1 \in P PROVE n \in P
    <3>1. n \in 0 .. N /\ n \in 0 .. N + M /\ n # 0 /\ a[n - 1] = c[n - 1]
      BY <1>1, <2>2
    <3>2. a[n] = Apply(a[n - 1], s[n])
      BY <1>2, <3>1
    <3>3. c[n] = Apply(c[n - 1], u[n])
      BY <1>4, <3>1
    <3> QED
      BY <1>1, <3>1, <3>2, <3>3
  <2>3. \A n \in 0 .. N : n \in P
    <3> HIDE DEF P
    <3> QED
      BY <1>1, <2>1, <2>2, Counting
  <2> QED
    BY <2>3
<1>6. \A n \in 0 .. M : b[n] = c[N + n]
  <2> DEFINE P == {n \in 0 .. M : b[n] = c[N + n]}
  <2>1. 0 \in P
    <3>1. N \in 0 .. N /\ 0 \in 0 .. M /\ N + 0 = N
      BY <1>1
    <3> QED
      BY <1>3, <1>5, <3>1
  <2>2. ASSUME NEW n \in 1 .. M, n - 1 \in P PROVE n \in P
    <3>1. /\ n \in 0 .. M /\ n # 0 /\ N + n \in 0 .. N + M /\ N + n # 0
          /\ N + (n - 1) = (N + n) - 1 /\ b[n - 1] = c[N + (n - 1)]
      BY <1>1, <2>2
    <3>2. b[n] = Apply(b[n - 1], t[n])
      BY <1>3, <3>1
    <3>3. c[N + n] = Apply(c[(N + n) - 1], u[N + n])
      BY <1>4, <3>1
    <3> QED
      BY <1>1, <3>1, <3>2, <3>3
  <2>3. \A n \in 0 .. M : n \in P
    <3> HIDE DEF P
    <3> QED
      BY <1>1, <2>1, <2>2, Counting
  <2> QED
    BY <2>3
<1>7. b[M] = c[N + M]
  BY <1>1, <1>6
<1> QED
  BY <1>2, <1>3, <1>4, <1>7 DEF u

-----------------------------------------------------------------------------
(* What a view lacks *)

\* The rows are what is kept of the facts, but for superseded renewals.
Shows(rows, facts) ==
    /\ rows \subseteq Kept(facts)
    /\ \A f \in Kept(facts) \ rows : Stale(f, rows)

\* A view in the order of the union that lacks no more than that is the union,
\* once both are cut.
LEMMA SameCut ==
    ASSUME NEW facts, Readable(facts), NEW s \in Seq(facts), Ordered(s),
           Shows(ToSet(s), facts)
    PROVE  Cut(s) = Cut(Union(facts))
<1> DEFINE V == ToSet(s)
           K == Kept(facts)
<1>1. /\ Union(facts) \in Seq(facts) /\ ToSet(Union(facts)) = K /\ Ordered(Union(facts))
  BY UnionIs
<1>2. K \in SUBSET facts /\ V \subseteq K /\ \A f \in K \ V : Stale(f, V)
  BY KeptIs DEF Shows
<1>3. Readable(K)
  BY <1>2, Fewer
<1>4. ToSet(Cut(s)) = {f \in V : ~Stale(f, V)} /\ Ordered(Cut(s)) /\ Cut(s) \in Seq(facts)
  BY CutOrdered, CutPicks
<1>5. /\ ToSet(Cut(Union(facts))) = {f \in K : ~Stale(f, K)}
      /\ Ordered(Cut(Union(facts))) /\ Cut(Union(facts)) \in Seq(facts)
  BY <1>1, CutOrdered, CutPicks
<1> HIDE DEF V, K
<1>6. ASSUME NEW f \in V, ~Stale(f, V) PROVE f \in K /\ ~Stale(f, K)
  <2> SUFFICES ASSUME Stale(f, K) PROVE FALSE
    BY <1>2
  <2>1. PICK g \in K : /\ g.kind = "renewed" /\ g.key = f.key /\ Before(f, g) /\ ~Stale(g, K)
    BY <1>2, <1>3, NewestStays
  <2>2. g \in V
    <3> SUFFICES ASSUME Stale(g, V) PROVE FALSE
      BY <1>2
    <3> QED
      BY <1>2, <2>1 DEF Stale
  <2>3. f.kind = "renewed"
    BY DEF Stale
  <2> QED
    BY <1>6, <2>1, <2>2, <2>3 DEF Stale
<1>7. ASSUME NEW f \in K, ~Stale(f, K) PROVE f \in V /\ ~Stale(f, V)
  BY <1>2, <1>7 DEF Stale
<1>8. ToSet(Cut(s)) = ToSet(Cut(Union(facts)))
  BY <1>4, <1>5, <1>6, <1>7
<1> QED
  BY <1>4, <1>5, <1>8, OneOrder

\* A view that is built: the union, cut.
LEMMA Built ==
    ASSUME NEW facts, Readable(facts)
    PROVE  /\ Cut(Union(facts)) \in Seq(facts)
           /\ Ordered(Cut(Union(facts)))
           /\ Shows(ToSet(Cut(Union(facts))), facts)
<1> DEFINE K == Kept(facts)
           V == ToSet(Cut(Union(facts)))
<1>1. Union(facts) \in Seq(facts) /\ ToSet(Union(facts)) = K /\ Ordered(Union(facts))
  BY UnionIs
<1>2. /\ V = {f \in K : ~Stale(f, K)}
      /\ Ordered(Cut(Union(facts))) /\ Cut(Union(facts)) \in Seq(facts)
  BY <1>1, CutOrdered, CutPicks
<1>3. K \in SUBSET facts
  BY KeptIs
<1> HIDE DEF K, V
<1>4. Readable(K)
  BY <1>3, Fewer
<1>5. ASSUME NEW f \in K, Stale(f, K) PROVE Stale(f, V)
  <2>1. PICK g \in K : /\ g.kind = "renewed" /\ g.key = f.key /\ Before(f, g) /\ ~Stale(g, K)
    BY <1>4, <1>5, NewestStays
  <2>2. g \in V /\ f.kind = "renewed"
    BY <1>2, <1>5, <2>1 DEF Stale
  <2> QED
    BY <2>1, <2>2 DEF Stale
<1>6. Shows(V, facts)
  BY <1>2, <1>5 DEF Shows, K
<1> QED
  BY <1>2, <1>6 DEF V

\* incoming (ledger.py): what a batch adds to a view that shows what was read
\* is what it adds to what was read.
LEMMA MoreRead ==
    ASSUME NEW facts, Readable(facts), NEW was \in SUBSET facts, NEW batch \in SUBSET facts,
           NEW V, Shows(V, was),
           NEW added,
           added = {f \in batch : \A g \in V : g.id = f.id => g # f /\ Keep(g, f) = f}
    PROVE  V \cup added \subseteq was \cup batch /\ Shows(Kept(V \cup added), was \cup batch)
<1> DEFINE F == was \cup batch
           M == V \cup added
<1>1. Kept(was) \subseteq was /\ V \subseteq Kept(was) /\ V \subseteq was /\ added \subseteq batch
  <2>1. Kept(was) \subseteq was
    BY Fewer, KeptIs
  <2> QED
    BY <2>1 DEF Shows
<1>2. F \in SUBSET facts /\ M \in SUBSET facts /\ M \subseteq F
  BY <1>1
<1>3. /\ Kept(F) \subseteq F
      /\ \A f \in F : f \in Kept(F) <=> \A g \in F : g.id = f.id /\ g # f => Before(f, g)
  <2> HIDE DEF F
  <2>1. Readable(F)
    BY <1>2, Fewer
  <2> QED
    BY <2>1, KeptIs
<1>4. /\ Kept(M) \subseteq M
      /\ \A f \in M : f \in Kept(M) <=> \A g \in M : g.id = f.id /\ g # f => Before(f, g)
  <2> HIDE DEF M
  <2>1. Readable(M)
    BY <1>2, Fewer
  <2> QED
    BY <2>1, KeptIs
<1>5. /\ \A f \in was : f \in Kept(was) <=> \A g \in was : g.id = f.id /\ g # f => Before(f, g)
      /\ \A f \in was : \E k \in Kept(was) : k.id = f.id
  <2>1. Readable(was)
    BY Fewer
  <2>2. Ids(Kept(was)) = Ids(was)
    BY <2>1, KeptIs
  <2>3. \A f \in was : f \in Kept(was) <=> \A g \in was : g.id = f.id /\ g # f => Before(f, g)
    BY <2>1, KeptIs
  <2>4. \A f \in was : \E k \in Kept(was) : k.id = f.id
    BY <2>2 DEF Ids
  <2> QED
    BY <2>3, <2>4
\* A renewal has no copy.
<1>6. \A f, g \in facts : g.kind = "renewed" /\ f.id = g.id => f = g
  BY DEF Readable
<1>7. ASSUME NEW f \in batch, f \notin added, f \notin V
      PROVE  \E h \in V : h.id = f.id /\ h # f /\ Before(h, f)
  <2>1. PICK h \in V : h.id = f.id /\ ~(h # f /\ Keep(h, f) = f)
    BY <1>7
  <2>2. h # f /\ ~Before(f, h)
    BY <1>7, <2>1 DEF Keep
  <2>3. h \in facts /\ f \in facts
    BY <1>1
  <2> QED
    BY <2>1, <2>2, <2>3, Stamps
<1>8. ASSUME NEW f \in Kept(M) PROVE f \in Kept(F)
  <2>1. f \in M /\ f \in F /\ f \in facts
    BY <1>2, <1>4
  <2> SUFFICES ASSUME NEW g \in F, g.id = f.id, g # f PROVE Before(f, g)
    BY <1>3, <2>1
  <2>2. g \in facts
    BY <1>2
  <2>3. \A h \in M : h.id = f.id /\ (h = g \/ Before(h, g)) => Before(f, g)
    <3> SUFFICES ASSUME NEW h \in M, h.id = f.id, h = g \/ Before(h, g) PROVE Before(f, g)
      OBVIOUS
    <3>1. h \in facts
      BY <1>2
    <3>2. h # f => Before(f, h)
      BY <1>4, <2>1
    <3> HIDE DEF M, F
    <3> QED
      BY <2>1, <2>2, <3>1, <3>2, Stamps
  <2>4. CASE g \in was
    <3>1. PICK k \in Kept(was) : k.id = g.id
      BY <1>5, <2>4
    <3>2. k \in was /\ k \in facts
      BY <1>1
    <3>3. k.kind # "renewed"
      BY <1>6, <2>1, <2>2, <3>1, <3>2
    <3>4. k \in V
      BY <3>3 DEF Shows, Stale
    <3>5. k = g \/ Before(k, g)
      BY <1>5, <2>4, <3>1, <3>2
    <3> QED
      BY <2>3, <3>1, <3>4, <3>5
  <2>5. CASE g \in batch
    <3>1. CASE g \in M
      BY <2>3, <3>1
    <3>2. CASE g \notin M
      <4>1. PICK h \in V : h.id = g.id /\ h # g /\ Before(h, g)
        BY <1>7, <2>5, <3>2
      <4> QED
        BY <2>3, <4>1
    <3> QED
      BY <3>1, <3>2
  <2> QED
    BY <2>4, <2>5
<1>9. ASSUME NEW f \in Kept(F), f \notin Kept(M) PROVE Stale(f, Kept(M))
  <2>1. f \in F /\ f \notin M
    BY <1>2, <1>3, <1>4, <1>9
  <2>2. f \in was
    <3> SUFFICES ASSUME f \in batch PROVE FALSE
      BY <2>1
    <3>1. PICK h \in V : h.id = f.id /\ h # f /\ Before(h, f)
      BY <1>7, <2>1
    <3>2. h \in F /\ h \in facts /\ f \in facts
      BY <1>1, <1>2, <2>1
    <3>3. Before(f, h)
      BY <1>3, <2>1, <3>1, <3>2
    <3> QED
      BY <3>1, <3>2, <3>3, Stamps
  <2>3. f \in Kept(was)
    BY <1>3, <1>5, <1>9, <2>1, <2>2
  <2>4. PICK g \in V : g.kind = "renewed" /\ g.key = f.key /\ Before(f, g) /\ f.kind = "renewed"
    BY <2>1, <2>3 DEF Shows, Stale
  <2>5. g \in Kept(M)
    BY <1>2, <1>4, <1>6, <2>4
  <2> QED
    BY <2>4, <2>5 DEF Stale
<1> QED
  BY <1>2, <1>8, <1>9 DEF Shows

\* What shows what shows the facts shows them.
LEMMA ShowsOn ==
    ASSUME NEW facts, Readable(facts), NEW some \in SUBSET facts, NEW V,
           Shows(Kept(some), facts), Shows(V, some)
    PROVE  Shows(V, facts)
<1> DEFINE K == Kept(facts)
           M == Kept(some)
<1>1. V \subseteq M /\ M \subseteq K /\ K \subseteq facts
  BY KeptIs DEF Shows
<1>2. (\A f \in M \ V : Stale(f, V)) /\ (\A f \in K \ M : Stale(f, M))
  BY DEF Shows
<1> HIDE DEF K, M
<1>3. ASSUME NEW f \in K, f \notin M PROVE Stale(f, V)
  <2>1. PICK g \in M : g.kind = "renewed" /\ g.key = f.key /\ Before(f, g) /\ f.kind = "renewed"
    BY <1>2, <1>3 DEF Stale
  <2>2. CASE g \in V
    BY <2>1, <2>2 DEF Stale
  <2>3. CASE g \notin V
    <3>1. PICK h \in V : h.kind = "renewed" /\ h.key = g.key /\ Before(g, h)
      BY <1>2, <2>3 DEF Stale
    <3>2. Before(f, h)
      BY <1>1, <2>1, <3>1, Stamps
    <3> QED
      BY <2>1, <3>1, <3>2 DEF Stale
  <2> QED
    BY <2>2, <2>3
<1> QED
  BY <1>1, <1>2, <1>3 DEF Shows, K

\* incoming's three tests: what is added last of all stays last in the order.
LEMMA Extended ==
    ASSUME NEW facts, Readable(facts), NEW v \in Seq(facts), Ordered(v),
           NEW added \in SUBSET facts,
           Ids(added) \cap Ids(ToSet(v)) = {},
           Ids(added) \cap ((UNION {f.after : f \in ToSet(v)}) \ Ids(ToSet(v))) = {},
           \A f \in added, g \in ToSet(v) : ~Before(f, g)
    PROVE  /\ v \o Union(added) \in Seq(facts)
           /\ Ordered(v \o Union(added))
           /\ ToSet(v \o Union(added)) = Kept(ToSet(v) \cup added)
<1> DEFINE r == Union(added)
           w == v \o r
           V == ToSet(v)
           N == Len(v)
           M == Len(r)
<1>1. Readable(added)
  BY Fewer
<1>2. r \in Seq(added) /\ ToSet(r) = Kept(added) /\ Ordered(r)
  BY <1>1, UnionIs
<1> HIDE DEF r
<1>3. r \in Seq(facts)
  BY <1>2, SeqMonotonic
<1>4. w \in Seq(facts)
  BY <1>3
<1>5. /\ N \in Nat /\ M \in Nat /\ Len(w) = N + M
      /\ \A i \in 1 .. N : w[i] = v[i] /\ v[i] \in facts
      /\ \A i \in 1 .. M : w[N + i] = r[i] /\ r[i] \in added
  BY <1>2, <1>3
<1>6. /\ V = {v[i] : i \in 1 .. N}
      /\ Kept(added) = {r[i] : i \in 1 .. M}
      /\ ToSet(w) = {w[i] : i \in 1 .. N + M}
  <2>1. DOMAIN v = 1 .. N /\ DOMAIN r = 1 .. M
    BY <1>2
  <2>2. DOMAIN w = 1 .. N + M
    BY <1>4, <1>5
  <2> HIDE DEF w, N, M
  <2> QED
    BY <1>2, <2>1, <2>2 DEF ToSet
<1>7. V \subseteq facts
  BY <1>5, <1>6
<1>8. /\ \A n, m \in 1 .. N : v[n].id = v[m].id => n = m
      /\ \A n, m \in 1 .. N : v[m].id \in v[n].after => m < n
      /\ \A n, m \in 1 .. N : n < m =>
           Before(v[n], v[m]) \/ \E i \in n .. m - 1 : v[i].id \in v[m].after
  BY DEF Ordered
<1>9. /\ \A n, m \in 1 .. M : r[n].id = r[m].id => n = m
      /\ \A n, m \in 1 .. M : r[m].id \in r[n].after => m < n
      /\ \A n, m \in 1 .. M : n < m =>
           Before(r[n], r[m]) \/ \E i \in n .. m - 1 : r[i].id \in r[m].after
  BY <1>2 DEF Ordered
\* An id that is added is not in the view, and nothing of the view is after it.
<1>10. \A g \in V, f \in added : f.id # g.id /\ f.id \notin g.after /\ Before(g, f)
  <2> SUFFICES ASSUME NEW g \in V, NEW f \in added
               PROVE  f.id # g.id /\ f.id \notin g.after /\ Before(g, f)
    OBVIOUS
  <2>1. f.id \in Ids(added) /\ g.id \in Ids(V)
    BY DEF Ids
  <2>2. f.id \notin Ids(V)
    BY <2>1
  <2>3. f.id \notin g.after
    <3> SUFFICES ASSUME f.id \in g.after PROVE FALSE
      OBVIOUS
    <3>1. g.after \in {h.after : h \in V}
      OBVIOUS
    <3> DEFINE Waited == UNION {h.after : h \in V}
    <3>2. f.id \in Waited
      BY <3>1
    <3>3. Ids(added) \cap (Waited \ Ids(V)) = {}
      OBVIOUS
    <3> HIDE DEF Waited
    <3> QED
      BY <2>1, <2>2, <3>2, <3>3
  <2>4. g \in facts /\ f \in facts /\ f # g
    BY <1>7, <2>1, <2>2
  <2>5. Before(g, f)
    BY <2>4, Stamps
  <2> QED
    BY <2>1, <2>2, <2>3, <2>5
<1> HIDE DEF w, N, M, V
<1>11. \A i \in 1 .. N + M :
           \/ i \in 1 .. N /\ w[i] = v[i] /\ w[i] \in V
           \/ i - N \in 1 .. M /\ w[i] = r[i - N] /\ w[i] \in added
  <2> SUFFICES ASSUME NEW i \in 1 .. N + M, i \notin 1 .. N
               PROVE  i - N \in 1 .. M /\ w[i] = r[i - N] /\ w[i] \in added
    BY <1>5, <1>6
  <2>1. i - N \in 1 .. M /\ N + (i - N) = i
    BY <1>5
  <2>2. w[N + (i - N)] = r[i - N] /\ r[i - N] \in added
    BY <1>5, <2>1
  <2> QED
    BY <2>1, <2>2
<1>12. ASSUME NEW n \in 1 .. N + M, NEW m \in 1 .. N + M, w[n].id = w[m].id PROVE n = m
  <2>1. CASE n \in 1 .. N /\ m \in 1 .. N
    BY <1>5, <1>8, <1>12, <2>1
  <2>2. CASE n \notin 1 .. N /\ m \notin 1 .. N
    <3>1. n - N = m - N
      BY <1>9, <1>11, <1>12, <2>2
    <3> QED
      BY <1>5, <3>1
  <2>3. CASE (n \in 1 .. N /\ m \notin 1 .. N) \/ (n \notin 1 .. N /\ m \in 1 .. N)
    <3>1. (w[n] \in V /\ w[m] \in added) \/ (w[m] \in V /\ w[n] \in added)
      BY <1>5, <1>6, <1>11, <2>3
    <3> QED
      BY <1>10, <1>12, <3>1
  <2> QED
    BY <2>1, <2>2, <2>3
<1>13. ASSUME NEW n \in 1 .. N + M, NEW m \in 1 .. N + M, w[m].id \in w[n].after
       PROVE  m < n
  <2>1. CASE m \in 1 .. N /\ n \in 1 .. N
    BY <1>5, <1>8, <1>13, <2>1
  <2>2. CASE m \notin 1 .. N /\ n \notin 1 .. N
    <3>1. m - N < n - N
      BY <1>9, <1>11, <1>13, <2>2
    <3> QED
      BY <1>5, <3>1
  <2>3. CASE m \in 1 .. N /\ n \notin 1 .. N
    BY <1>5, <2>3
  <2>4. CASE m \notin 1 .. N /\ n \in 1 .. N
    <3>1. w[m] \in added /\ w[n] \in V
      BY <1>5, <1>6, <1>11, <2>4
    <3> QED
      BY <1>10, <1>13, <3>1
  <2> QED
    BY <2>1, <2>2, <2>3, <2>4
<1>14. ASSUME NEW n \in 1 .. N + M, NEW m \in 1 .. N + M, n < m
       PROVE  Before(w[n], w[m]) \/ \E i \in n .. m - 1 : w[i].id \in w[m].after
  <2>1. CASE m \in 1 .. N
    <3>1. n \in 1 .. N /\ \A i \in n .. m - 1 : i \in 1 .. N
      BY <1>5, <1>14, <2>1
    <3>2. Before(v[n], v[m]) \/ \E i \in n .. m - 1 : v[i].id \in v[m].after
      BY <1>8, <1>14, <2>1, <3>1
    <3> QED
      BY <1>5, <2>1, <3>1, <3>2
  <2>2. CASE n \notin 1 .. N /\ m \notin 1 .. N
    <3>1. /\ n - N \in 1 .. M /\ m - N \in 1 .. M /\ n - N < m - N
          /\ w[n] = r[n - N] /\ w[m] = r[m - N]
      BY <1>5, <1>11, <1>14, <2>2
    <3>2. CASE Before(r[n - N], r[m - N])
      BY <3>1, <3>2
    <3>3. CASE \E i \in n - N .. (m - N) - 1 : r[i].id \in r[m - N].after
      <4>1. PICK i \in n - N .. (m - N) - 1 : r[i].id \in r[m - N].after
        BY <3>3
      <4>2. i \in 1 .. M /\ N + i \in n .. m - 1
        BY <1>5, <3>1
      <4>3. w[N + i] = r[i]
        BY <1>5, <4>2
      <4> QED
        BY <3>1, <4>1, <4>2, <4>3
    <3> QED
      BY <1>9, <3>1, <3>2, <3>3
  <2>3. CASE n \in 1 .. N /\ m \notin 1 .. N
    <3>1. w[n] \in V /\ w[m] \in added
      BY <1>5, <1>6, <1>11, <2>3
    <3> QED
      BY <1>10, <3>1
  <2> QED
    BY <1>5, <1>14, <2>1, <2>2, <2>3
<1>15. Ordered(w)
  BY <1>5, <1>12, <1>13, <1>14 DEF Ordered
<1>16. ToSet(w) = V \cup Kept(added)
  <2>1. \A i \in 1 .. N + M : w[i] \in V \cup Kept(added)
    <3> SUFFICES ASSUME NEW i \in 1 .. N + M PROVE w[i] \in V \cup Kept(added)
      OBVIOUS
    <3> QED
      BY <1>6, <1>11
  <2>2. \A i \in 1 .. N : i \in 1 .. N + M
    BY <1>5
  <2>3. \A i \in 1 .. M : N + i \in 1 .. N + M
    BY <1>5
  <2>4. V \subseteq ToSet(w)
    <3>1. \A i \in 1 .. N : v[i] \in ToSet(w)
      BY <1>5, <1>6, <2>2
    <3> QED
      BY <1>6, <3>1
  <2>5. Kept(added) \subseteq ToSet(w)
    <3>1. \A i \in 1 .. M : r[i] \in ToSet(w)
      BY <1>5, <1>6, <2>3
    <3> QED
      BY <1>6, <3>1
  <2>6. ToSet(w) \subseteq V \cup Kept(added)
    BY <1>6, <2>1
  <2> QED
    BY <2>4, <2>5, <2>6
<1>17. Kept(V \cup added) = V \cup Kept(added)
  <2> DEFINE all == V \cup added
  <2>1. all \in SUBSET facts
    BY <1>7
  <2>2. /\ Kept(all) \subseteq all
        /\ \A f \in all : f \in Kept(all) <=> \A g \in all : g.id = f.id /\ g # f => Before(f, g)
    <3> HIDE DEF all
    <3>1. Readable(all)
      BY <2>1, Fewer
    <3> QED
      BY <3>1, KeptIs
  <2>3. /\ Kept(added) \subseteq added
        /\ \A f \in added : f \in Kept(added)
                              <=> \A g \in added : g.id = f.id /\ g # f => Before(f, g)
    BY <1>1, KeptIs
  <2>4. \A f, g \in V : f.id = g.id => f = g
    BY <1>6, <1>8
  <2>5. ASSUME NEW f \in V PROVE f \in Kept(all)
    BY <1>10, <2>2, <2>4
  <2>6. ASSUME NEW f \in added PROVE f \in Kept(all) <=> f \in Kept(added)
    BY <1>10, <2>2, <2>3
  <2> HIDE DEF all
  <2>7. all = V \cup added
    BY DEF all
  <2> QED
    BY <2>2, <2>3, <2>5, <2>6, <2>7
<1> QED
  BY <1>4, <1>15, <1>16, <1>17 DEF w, V, r

-----------------------------------------------------------------------------
(* The view *)

\* The view is rows in the order of the union, and lacks superseded renewals at
\* most; the reducer is its replay.  ViewIsUnion alone is not inductive: it does
\* not say that what is added after the view's last row is after all of it.
Reading ==
    /\ ledger \in Ledgers
    /\ read \in SUBSET ledger
    /\ view \in Seq(ledger)
    /\ Ordered(view)
    /\ Shows(ToSet(view), read)
    /\ reducer = Replay(Start, view)

LEMMA Empty == /\ <<>> \in Seq(ledger) /\ Ordered(<<>>) /\ Shows(ToSet(<<>>), {})
               /\ Replay(Start, <<>>) = Start /\ ToSet(<<>>) = {}
<1>1. Ordered(<<>>)
  BY DEF Ordered
<1>2. ToSet(<<>>) = {} /\ Kept({}) = {}
  BY DEF ToSet, Kept
<1>3. Replay(Start, <<>>) = Start
  <2>1. <<>> \in Seq({Start}) /\ Start \in {Start}
    OBVIOUS
  <2> QED
    BY <2>1, ReplayRow
<1> QED
  BY <1>1, <1>2, <1>3 DEF Shows

\* What was read can be read.
LEMMA LedgerReadable == Reading => /\ Readable(ledger) /\ Readable(read)
                                  /\ OwnStrands(ledger) /\ \A f \in ledger : RowOK(f)
<1> SUFFICES ASSUME Reading PROVE Readable(ledger) /\ Readable(read)
                                  /\ OwnStrands(ledger) /\ \A f \in ledger : RowOK(f)
  OBVIOUS
<1>1. Readable(ledger) /\ OwnStrands(ledger) /\ \A f \in ledger : RowOK(f)
  BY LedgersAssumption DEF Reading
<1>2. Readable(read)
  BY <1>1, Fewer DEF Reading
<1> QED
  BY <1>1, <1>2

\* Rebuild, of facts that show what was read.
LEMMA Rebuilt ==
    ASSUME NEW all, Readable(all), NEW now \in SUBSET all, NEW facts \in SUBSET now,
           Shows(Kept(facts), now)
    PROVE  /\ Cut(Union(facts)) \in Seq(all)
           /\ Ordered(Cut(Union(facts)))
           /\ Shows(ToSet(Cut(Union(facts))), now)
<1>1. Readable(now) /\ facts \in SUBSET all
  BY Fewer
<1>2. Readable(facts)
  BY <1>1, Fewer
<1>3. /\ Cut(Union(facts)) \in Seq(facts)
      /\ Ordered(Cut(Union(facts)))
      /\ Shows(ToSet(Cut(Union(facts))), facts)
  BY <1>2, Built
<1>4. Cut(Union(facts)) \in Seq(all)
  BY <1>1, <1>3, SeqMonotonic
<1>5. Shows(ToSet(Cut(Union(facts))), now)
  BY <1>1, <1>3, ShowsOn
<1> QED
  BY <1>3, <1>4, <1>5

\* refresh keeps Reading: it rebuilds, or what it appends comes last of all.
LEMMA RefreshReads ==
    ASSUME Reading, NEW batch \in SUBSET ledger, Refresh(batch)
    PROVE  Reading'
<1> DEFINE V == ToSet(view)
           added == Added(batch)
<1>1. Readable(ledger) /\ Readable(read)
  BY LedgerReadable
<1>2. /\ ledger \in Ledgers /\ read \in SUBSET ledger /\ view \in Seq(ledger) /\ Ordered(view)
      /\ Shows(V, read) /\ reducer = Replay(Start, view)
  BY DEF Reading
<1>3. ledger' = ledger /\ read' = read \cup batch /\ read' \in SUBSET ledger
  BY <1>2 DEF Refresh
<1>4. added = {f \in batch : \A g \in V : g.id = f.id => g # f /\ Keep(g, f) = f}
  BY DEF Added
<1>5. V \cup added \in SUBSET read' /\ Shows(Kept(V \cup added), read')
  <2> HIDE DEF V, added
  <2>1. V \cup added \subseteq read \cup batch /\ Shows(Kept(V \cup added), read \cup batch)
    BY <1>1, <1>2, <1>4, MoreRead
  <2> QED
    BY <1>3, <2>1
<1>6. /\ Cut(Union(V \cup added)) \in Seq(ledger)
      /\ Ordered(Cut(Union(V \cup added)))
      /\ Shows(ToSet(Cut(Union(V \cup added))), read')
  <2> HIDE DEF V, added
  <2> QED
    BY <1>1, <1>3, <1>5, Rebuilt
<1>7. added \in SUBSET ledger
  BY <1>4
<1>8. CASE Reorders(added)
  <2>1. view' = Cut(Union(V \cup added)) /\ reducer' = Replay(Start, view')
    BY <1>8 DEF Refresh, Rebuild
  <2> HIDE DEF V, added
  <2> QED
    BY <1>2, <1>3, <1>6, <2>1 DEF Reading
<1>9. CASE ~Reorders(added) /\ view = <<>>
  <2> DEFINE rows == Cut(Union(added))
  <2>1. view' = view \o rows /\ reducer' = Replay(reducer, rows)
    BY <1>9 DEF Refresh, Extend
  <2>2. V \cup added = added
    BY <1>9, Empty
  <2>3. rows \in Seq(ledger) /\ Ordered(rows) /\ Shows(ToSet(rows), read')
    <3> HIDE DEF V, added
    <3> QED
      BY <1>6, <2>2
  <2> HIDE DEF V, added, rows
  <2>4. view' = rows
    BY <1>9, <2>1, <2>3, ConcatEmptySeq
  <2>5. reducer = Start
    BY <1>2, <1>9, Empty
  <2> QED
    BY <1>2, <1>3, <2>1, <2>3, <2>4, <2>5 DEF Reading
<1>10. CASE ~Reorders(added) /\ view # <<>>
  <2> DEFINE rows == Union(added)
  <2>1. view' = view \o rows /\ reducer' = Replay(reducer, rows)
    BY <1>10 DEF Refresh, Extend
  <2>2. /\ Ids(added) \cap Ids(V) = {}
        /\ Ids(added) \cap ((UNION {f.after : f \in V}) \ Ids(V)) = {}
        /\ \A f \in added, g \in V : ~Before(f, g)
    BY <1>10 DEF Reorders, Displaced, Missing
  <2>3. rows \in Seq(ledger)
    <3> HIDE DEF added
    <3>1. Readable(added)
      BY <1>1, <1>7, Fewer
    <3>2. rows \in Seq(added)
      BY <3>1, UnionIs
    <3> QED
      BY <1>7, <3>2, SeqMonotonic
  <2> HIDE DEF added
  <2>4. /\ view \o rows \in Seq(ledger) /\ Ordered(view \o rows)
        /\ ToSet(view \o rows) = Kept(V \cup added)
    BY <1>1, <1>2, <1>7, <2>2, Extended
  <2> HIDE DEF V, rows
  <2>5. reducer' = Replay(Start, view')
    BY <1>2, <2>1, <2>3, ReplayConcat
  <2> QED
    BY <1>2, <1>3, <1>5, <2>1, <2>4, <2>5 DEF Reading
<1> QED
  BY <1>8, <1>9, <1>10

LEMMA RereadReads ==
    ASSUME Reading, NEW facts \in SUBSET ledger, Reread(facts)
    PROVE  Reading'
<1>1. Readable(ledger)
  BY LedgerReadable
<1>2. /\ ledger \in Ledgers /\ ledger' = ledger /\ read' = facts
      /\ view' = Cut(Union(facts)) /\ reducer' = Replay(Start, view')
  BY DEF Reading, Reread, Rebuild
<1>3. Shows(Kept(facts), facts)
  BY DEF Shows
<1>4. /\ Cut(Union(facts)) \in Seq(ledger)
      /\ Ordered(Cut(Union(facts)))
      /\ Shows(ToSet(Cut(Union(facts))), facts)
  BY <1>1, <1>3, Rebuilt
<1> QED
  BY <1>2, <1>4 DEF Reading

LEMMA ReadingInvariance == ViewSpec => []Reading
<1>1. ViewInit => Reading
  BY Empty DEF ViewInit, Reading
<1>2. Reading /\ [ViewNext]_viewVars => Reading'
  <2> SUFFICES ASSUME Reading, [ViewNext]_viewVars PROVE Reading'
    OBVIOUS
  <2>1. CASE \E batch \in SUBSET (ledger \ read) : batch # {} /\ Refresh(batch)
    <3>1. PICK batch \in SUBSET (ledger \ read) : Refresh(batch)
      BY <2>1
    <3>2. batch \in SUBSET ledger
      OBVIOUS
    <3> QED
      BY <3>1, <3>2, RefreshReads
  <2>2. CASE \E facts \in SUBSET ledger : facts # {} /\ Reread(facts)
    BY <2>2, RereadReads
  <2>3. CASE Restart
    <3>1. /\ ledger' = ledger /\ ledger \in Ledgers
          /\ read' = {} /\ view' = <<>> /\ reducer' = Start
      BY <2>3 DEF Restart, Reading
    <3>2. <<>> \in Seq(ledger) /\ Ordered(<<>>) /\ Shows(ToSet(<<>>), {})
      BY Empty
    <3>3. Replay(Start, <<>>) = Start
      BY Empty
    <3> QED
      BY <3>1, <3>2, <3>3 DEF Reading
  <2>4. CASE UNCHANGED viewVars
    BY <2>4 DEF viewVars, Reading
  <2> QED
    BY <2>1, <2>2, <2>3, <2>4 DEF ViewNext
<1> QED
  BY <1>1, <1>2, PTL DEF ViewSpec

\* However the facts came in, in whatever batches and order, the view that was
\* extended and rebuilt is the one a process that reads them all now would
\* build (LedgerReader.incoming).
THEOREM ViewConverges == ViewSpec => []ViewIsUnion
<1>1. Reading => ViewIsUnion
  <2> SUFFICES ASSUME Reading PROVE ViewIsUnion
    OBVIOUS
  <2>1. Readable(ledger) /\ read \in SUBSET ledger /\ view \in Seq(ledger)
    BY LedgerReadable DEF Reading
  <2>2. Ordered(view) /\ Shows(ToSet(view), read)
    BY DEF Reading
  <2>3. Readable(read)
    BY LedgerReadable
  <2>4. view \in Seq(read)
    <3>1. Kept(read) \subseteq read
      BY <2>3, KeptIs
    <3>2. /\ Len(view) \in Nat /\ DOMAIN view = 1 .. Len(view)
          /\ view = [i \in 1 .. Len(view) |-> view[i]]
      BY <2>1
    <3>3. \A i \in 1 .. Len(view) : view[i] \in ToSet(view)
      BY <3>2 DEF ToSet
    <3>4. \A i \in 1 .. Len(view) : view[i] \in read
      BY <2>2, <3>1, <3>3 DEF Shows
    <3> QED
      BY <3>2, <3>4
  <2> QED
    BY <2>2, <2>3, <2>4, SameCut DEF ViewIsUnion
<1> QED
  BY <1>1, ReadingInvariance, PTL

\* The state that is carried from tick to tick is the one a replay of the whole
\* ledger gives (test_incremental_fold.py, for its own few ledgers).
THEOREM ReducerReplays == ViewSpec => []ReducerIsReplay
<1>1. Reading /\ ViewIsUnion => ReducerIsReplay
  <2> SUFFICES ASSUME Reading, ViewIsUnion PROVE ReducerIsReplay
    OBVIOUS
  <2>1. Replay(Start, Cut(view)) = Replay(Start, view)
    BY CutReplay DEF Reading
  <2>2. Union(read) \in Seq(read)
    BY LedgerReadable, UnionIs
  <2>3. Replay(Start, Cut(Union(read))) = Replay(Start, Union(read))
    BY <2>2, CutReplay
  <2> QED
    BY <2>1, <2>3 DEF Reading, ViewIsUnion, ReducerIsReplay
<1> QED
  BY <1>1, ReadingInvariance, ViewConverges, PTL

\* In that state a strand is live exactly at the gen at which it holds a thread.
THEOREM CarriedStateIsSound == ViewSpec => []LiveHolds
<1>1. Reading => LiveHolds
  <2> SUFFICES ASSUME Reading PROVE LiveHolds
    OBVIOUS
  <2>1. OwnStrands(ledger) /\ (\A f \in ledger : RowOK(f)) /\ view \in Seq(ledger)
    BY LedgerReadable DEF Reading
  <2>2. LiveIsHolder(Replay(Start, view))
    BY <2>1, ReplaySound
  <2> QED
    BY <2>2 DEF Reading, LiveHolds
<1> QED
  BY <1>1, ReadingInvariance, PTL
=============================================================================
