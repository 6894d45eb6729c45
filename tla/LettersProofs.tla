---------------------------- MODULE LettersProofs ----------------------------
(***************************************************************************)
(* What becomes of a letter that a body leaves unanswered, for any number  *)
(* of threads, letters and events.                                         *)
(*                                                                         *)
(* The invariant is about the ids: a letter with an id made from others    *)
(* has them all beside it, and those it stands for are done.  Every step   *)
(* that touches the letters is one of a kind (Grows): it adds letters, and *)
(* moves what became of the old ones forward.                              *)
(*                                                                         *)
(* What the projection reads again is about places: an edit of main leaves *)
(* a row alone whose thread has none of the edited ones in its line.       *)
(***************************************************************************)
EXTENDS Letters, FiniteSetTheorems, WellFoundedInduction, TLAPS

-----------------------------------------------------------------------------
(* Induction and recursion up to a number, about a set instead of a predicate, *)
(* so that a proof can name the set it is about.                               *)

\* Up to a number, one by one.
LEMMA Counting ==
    ASSUME NEW N \in Nat, NEW P, 0 \in P, \A n \in 1 .. N : n - 1 \in P => n \in P
    PROVE  \A n \in 0 .. N : n \in P
<1> SUFFICES ASSUME {n \in 0 .. N : n \notin P} # {} PROVE FALSE
  OBVIOUS
<1> DEFINE S == {n \in 0 .. N : n \notin P}
<1>1. S \subseteq Nat
  OBVIOUS
<1>2. PICK m \in S : \A y \in S : ~(<<y, m>> \in OpToRel(<, Nat))
  BY <1>1, NatLessThanWellFounded, WFMin
<1>3. \A y \in S : ~(y < m)
  BY <1>1, <1>2 DEF OpToRel
<1>4. m \in 1 .. N /\ m - 1 \in 0 .. N /\ m - 1 < m
  <2>1. m \in 0 .. N /\ m \notin P
    BY <1>2
  <2>2. m # 0
    BY <2>1
  <2> QED
    BY <2>1, <2>2
<1>5. m - 1 \in P
  BY <1>3, <1>4
<1> QED
  BY <1>2, <1>4, <1>5

\* N steps on a set, from a start in it, and what they compute.
StepsOn(S, N, a, G) == N \in Nat /\ a \in S /\ G \in [1 .. N -> [S -> S]]
Computed(f, S, N, a, G) ==
    f \in [0 .. N -> S] /\ f[0] = a /\ \A n \in 1 .. N : f[n] = G[n][f[n - 1]]

\* What is computed in steps from a start is a function of the step.
LEMMA Recursion ==
    ASSUME NEW S, NEW N, NEW a, NEW G, StepsOn(S, N, a, G)
    PROVE  \E f : Computed(f, S, N, a, G)
<1> USE DEF StepsOn
<1> DEFINE F(g, k) == g[0] = a /\ \A n \in 1 .. k : g[n] = G[n][g[n - 1]]
           P == {k \in 0 .. N : \E g \in [0 .. k -> S] : F(g, k)}
<1>1. 0 \in P
  <2> DEFINE g == [n \in 0 .. 0 |-> a]
  <2>1. g \in [0 .. 0 -> S] /\ F(g, 0)
    OBVIOUS
  <2> HIDE DEF F, g
  <2> QED
    BY <2>1
<1>2. ASSUME NEW k \in 1 .. N, k - 1 \in P PROVE k \in P
  <2>1. PICK g \in [0 .. k - 1 -> S] : F(g, k - 1)
    BY <1>2
  <2>2. k - 1 \in 0 .. k - 1 /\ g[k - 1] \in S /\ k # 0 /\ k \in Nat
    OBVIOUS
  <2>3. G[k][g[k - 1]] \in S
    BY <2>2
  <2> DEFINE h == [n \in 0 .. k |-> IF n = k THEN G[k][g[k - 1]] ELSE g[n]]
  <2>4. h \in [0 .. k -> S]
    <3>1. ASSUME NEW n \in 0 .. k, n # k PROVE n \in 0 .. k - 1
      BY <2>2, <3>1
    <3> QED
      BY <2>3, <3>1
  <2>5. h[0] = a
    BY <2>1, <2>2
  <2>6. ASSUME NEW n \in 1 .. k PROVE h[n] = G[n][h[n - 1]]
    <3>1. n - 1 \in 0 .. k /\ n - 1 # k /\ n \in 0 .. k
      BY <2>2
    <3>2. h[n - 1] = g[n - 1]
      BY <3>1
    <3>3. CASE n = k
      BY <3>1, <3>2, <3>3
    <3>4. CASE n # k
      <4>1. n \in 1 .. k - 1
        BY <2>2, <3>4
      <4> QED
        BY <2>1, <3>1, <3>2, <3>4, <4>1
    <3> QED
      BY <3>3, <3>4
  <2> HIDE DEF h
  <2>7. F(h, k)
    BY <2>5, <2>6
  <2> HIDE DEF F
  <2> QED
    BY <2>4, <2>7
<1>3. PICK g \in [0 .. N -> S] : F(g, N)
  <2>1. \A n \in 0 .. N : n \in P
    <3> HIDE DEF P
    <3> QED
      BY <1>1, <1>2, Counting
  <2> HIDE DEF F
  <2> QED
    BY <2>1
<1> QED
  BY <1>3 DEF Computed

Kinds == Standing \cup {"failed", "bounce"}
Id    == [n : Nat, via : Seq(Kinds)]

\* The id that i is made from, after its first k notices.
Upto(i, k) == [n |-> i.n, via |-> SubSeq(i.via, 1, k)]

IsLetter(l) ==
    /\ l = [to |-> l.to, by |-> l.by, re |-> l.re, passive |-> l.passive,
            waits |-> l.waits, fate |-> l.fate, tries |-> l.tries]
    /\ l.by \in Thread \cup {"person", "loom"}
    /\ l.passive \in BOOLEAN /\ l.waits \in BOOLEAN
    /\ l.fate \in {"none", "done", "operator"} /\ l.tries \in Nat

\* The bodies a letter may cost.
Most(l) == IF l.by = "person" THEN 2 ELSE 1

Based == {i \in DOMAIN letter : i.via = <<>>}

-----------------------------------------------------------------------------
(* The invariant *)

TypeOK ==
    /\ DOMAIN letter \subseteq Id
    /\ \A i \in DOMAIN letter : IsLetter(letter[i])

\* No letter has the number that the next one gets.
Numbered ==
    /\ IsFiniteSet(Based)
    /\ \A i \in DOMAIN letter : i.n <= Cardinality(Based)

\* A letter about another has it beside it, and settles with it only once the
\* other is done.
Chains ==
    \A i \in DOMAIN letter : \A k \in 0 .. Len(i.via) - 1 :
        /\ Upto(i, k) \in DOMAIN letter
        /\ i.via[k + 1] \in Standing => letter[Upto(i, k)].fate = "done"

Followed(i) == \E j \in DOMAIN letter : j.via # <<>> /\ About(j) = i

\* A letter that is done lives on in another, or was a notice that failed.
Causes ==
    \A i \in DOMAIN letter :
        letter[i].fate = "done" =>
            Followed(i) \/ (letter[i].passive /\ letter[i].tries > 0)

\* A letter that cost its bodies is not asked about again.
Spent ==
    \A i \in DOMAIN letter :
        letter[i].tries >= Most(letter[i]) => letter[i].fate # "none"

Loomed == \A i \in DOMAIN letter : i.via # <<>> => letter[i].by = "loom"

Written ==
    /\ sent \subseteq word
    /\ \A r \in listed : r.id \in DOMAIN letter /\ r.kind \in Standing

LettersOK == TypeOK /\ Numbered /\ Chains /\ Causes /\ Spent /\ Loomed

IInv == LettersOK /\ Written

-----------------------------------------------------------------------------
(* Ids *)

\* What an id made from another says of it.
LEMMA UnderIs ==
    ASSUME NEW i \in Id, NEW k \in Kinds
    PROVE  /\ Under(i, k) \in Id /\ Under(i, k).n = i.n
           /\ Under(i, k).via = Append(i.via, k) /\ Under(i, k).via # <<>>
           /\ Len(Under(i, k).via) = Len(i.via) + 1
           /\ Under(i, k).via[Len(i.via) + 1] = k
           /\ About(Under(i, k)) = i
<1>1. i.via \in Seq(Kinds) /\ i.n \in Nat /\ i = [n |-> i.n, via |-> i.via]
  BY DEF Id
<1>2. Under(i, k) = [n |-> i.n, via |-> Append(i.via, k)]
  BY <1>1 DEF Under
<1>3. /\ Append(i.via, k) \in Seq(Kinds) /\ Append(i.via, k) # <<>>
      /\ Len(Append(i.via, k)) = Len(i.via) + 1
      /\ Append(i.via, k)[Len(i.via) + 1] = k
  BY <1>1
<1>4. SubSeq(Append(i.via, k), 1, Len(Append(i.via, k)) - 1) = i.via
  <2>1. Len(Append(i.via, k)) - 1 = Len(i.via)
    BY <1>1, <1>3
  <2>2. SubSeq(Append(i.via, k), 1, Len(i.via)) = i.via
    BY <1>1
  <2> QED
    BY <2>1, <2>2
<1>5. About(Under(i, k)) = [n |-> i.n, via |-> i.via]
  <2>1. \A v : About([n |-> i.n, via |-> v]) = [n |-> i.n, via |-> Front(v)]
    BY DEF About
  <2>2. Front(Append(i.via, k)) = i.via
    BY <1>4 DEF Front
  <2> QED
    BY <1>2, <2>1, <2>2
<1> QED
  BY <1>1, <1>2, <1>3, <1>5 DEF Id

\* An id is made from those that the one before it is made from, and from it.
LEMMA UptoUnder ==
    ASSUME NEW i \in Id, NEW k \in Kinds
    PROVE  /\ Upto(Under(i, k), Len(i.via)) = i
           /\ \A m \in 0 .. Len(i.via) - 1 :
                 /\ Upto(Under(i, k), m) = Upto(i, m)
                 /\ Under(i, k).via[m + 1] = i.via[m + 1]
<1>1. /\ i.via \in Seq(Kinds) /\ i = [n |-> i.n, via |-> i.via]
      /\ Under(i, k).via = Append(i.via, k) /\ Under(i, k).n = i.n
  BY UnderIs DEF Id
<1>2. SubSeq(Append(i.via, k), 1, Len(i.via)) = i.via
  BY <1>1
<1>3. \A m \in 0 .. Len(i.via) - 1 :
        /\ SubSeq(Append(i.via, k), 1, m) = SubSeq(i.via, 1, m)
        /\ Append(i.via, k)[m + 1] = i.via[m + 1]
  BY <1>1
<1> QED
  BY <1>1, <1>2, <1>3 DEF Upto

\* A letter that stands over another is made from it, and its next notice is
\* one that settles with it.
LEMMA StandsIs ==
    ASSUME NEW x \in Id, NEW y \in Id, StandsOver(y, x)
    PROVE  /\ Len(x.via) \in 0 .. Len(y.via) - 1
           /\ x = Upto(y, Len(x.via))
           /\ y.via[Len(x.via) + 1] \in Standing
<1>1. /\ x.via \in Seq(Kinds) /\ y.via \in Seq(Kinds)
      /\ x = [n |-> x.n, via |-> x.via] /\ x.n = y.n
      /\ Len(x.via) <= Len(y.via) /\ x.via # y.via
      /\ SubSeq(x.via, 1, Len(x.via)) = SubSeq(y.via, 1, Len(x.via))
      /\ \A k \in Len(x.via) + 1 .. Len(y.via) : y.via[k] \in Standing
  BY DEF StandsOver, IsStrictPrefix, IsPrefix, Id
<1>2. SubSeq(x.via, 1, Len(x.via)) = x.via
  BY <1>1
<1>3. Len(x.via) # Len(y.via)
  <2> SUFFICES ASSUME Len(x.via) = Len(y.via) PROVE FALSE
    OBVIOUS
  <2>1. SubSeq(y.via, 1, Len(y.via)) = y.via
    BY <1>1
  <2> QED
    BY <1>1, <1>2, <2>1
<1>4. Len(x.via) \in Nat /\ Len(y.via) \in Nat
  BY <1>1
<1> QED
  BY <1>1, <1>2, <1>3, <1>4 DEF Upto

-----------------------------------------------------------------------------
(* Owners *)

\* A letter that somebody is asked about was not given up.
LEMMA OwedIsOpen ==
    ASSUME TypeOK, NEW i \in DOMAIN letter,
           Owner(i).who \in {"body", "loom", "opener"} \/ Owner(i).does = "send"
    PROVE  letter[i].fate = "none" /\ i \notin sent /\ Owner(i).who # "nobody"
<1>1. letter[i].fate # "operator"
  BY DEF Owner, Row
<1>2. letter[i].fate # "done" /\ i \notin sent
  BY DEF Owner, Row, Handled
<1>3. Owner(i).who # "nobody"
  BY DEF Owner, Row, ClosedRow, OpenRow
<1> QED
  BY <1>1, <1>2, <1>3 DEF TypeOK, IsLetter

\* When nobody owes a letter.
LEMMA NobodyOwes ==
    ASSUME NEW i \in DOMAIN letter
    PROVE  Owner(i).who = "nobody" <=>
             \/ Handled(i) \/ i \in sent \/ Informed(i)
             \/ /\ letter[i].fate # "operator" /\ ~letter[i].waits
                /\ letter[i].to # "channel" /\ ~AwaitsReceipt(i) /\ SettledWorker(i)
<1>1. \A t : ClosedRow(i, t).who # "nobody" /\ OpenRow(t).who # "nobody"
  BY DEF ClosedRow, OpenRow, Row
<1> QED
  BY <1>1 DEF Owner, Row

-----------------------------------------------------------------------------
(* Steps *)

\* What may become of a letter in a step.
Goes(i) ==
    LET l == letter[i]
        m == letter'[i]
    IN  /\ IsLetter(m)
        /\ m.to = l.to /\ m.by = l.by /\ m.re = l.re /\ m.passive = l.passive
        /\ m.waits => l.waits
        /\ m.tries >= l.tries
        /\ l.fate = "done" => m.fate = "done"
        /\ l.fate # "none" => m.fate # "none"
        /\ m.fate = "done" => \/ l.fate = "done" \/ (m.passive /\ m.tries > 0)
                              \/ \E k \in Kinds : Under(i, k) \in DOMAIN letter'
        /\ m.fate = "operator" => l.fate = "operator" \/ Owner(i).who # "nobody"
        /\ m.tries >= Most(m) => m.fate # "none"

\* A letter that was not there before.
Comes(j) ==
    /\ IsLetter(letter'[j]) /\ letter'[j].fate = "none" /\ letter'[j].tries = 0
    /\ \/ j = Fresh
       \/ \E i \in DOMAIN letter, k \in Kinds :
             /\ j = Under(i, k) /\ letter'[j].by = "loom"
             /\ k \in Standing => letter'[i].fate = "done"

Grows ==
    /\ DOMAIN letter \subseteq DOMAIN letter'
    /\ \A i \in DOMAIN letter : Goes(i)
    /\ \A j \in DOMAIN letter' \ DOMAIN letter : Comes(j)

\* The next number is one that no letter has.
LEMMA FreshIsNew ==
    ASSUME TypeOK, Numbered
    PROVE  /\ Fresh \in Id /\ Fresh \notin DOMAIN letter
           /\ Fresh.via = <<>> /\ Fresh.n = Cardinality(Based) + 1
<1>1. Cardinality(Based) \in Nat
  BY FS_CardinalityType DEF Numbered
<1>2. Fresh = [n |-> 1 + Cardinality(Based), via |-> <<>>]
  BY DEF Fresh, Based
<1>3. <<>> \in Seq(Kinds)
  OBVIOUS
<1> HIDE DEF Kinds
<1>4. \A i \in DOMAIN letter : i.n # 1 + Cardinality(Based)
  BY <1>1 DEF Numbered, TypeOK, Id
<1> QED
  BY <1>1, <1>2, <1>3, <1>4 DEF Id

\* A step of that kind keeps what holds of the letters.
LEMMA GrowsKeeps ==
    ASSUME LettersOK, Grows
    PROVE  LettersOK'
<1> DEFINE old == DOMAIN letter
           new == DOMAIN letter' \ DOMAIN letter
<1>1. old \subseteq Id /\ old \subseteq DOMAIN letter' /\ DOMAIN letter' = old \cup new
  BY DEF LettersOK, TypeOK, Grows
<1>2. Fresh \in Id /\ Fresh \notin old /\ Fresh.via = <<>>
  BY FreshIsNew DEF LettersOK
<1>3. \A j \in new : j = Fresh \/ \E i \in old, k \in Kinds :
         /\ j = Under(i, k) /\ letter'[j].by = "loom"
         /\ k \in Standing => letter'[i].fate = "done"
  BY DEF Grows, Comes
<1>4. \A j \in new : IsLetter(letter'[j]) /\ letter'[j].fate = "none" /\ letter'[j].tries = 0
  BY DEF Grows, Comes
<1>5. \A i \in old : Goes(i)
  BY DEF Grows
<1>6. TypeOK'
  <2>1. new \subseteq Id
    BY <1>1, <1>2, <1>3, UnderIs
  <2>2. \A i \in old : IsLetter(letter'[i])
    BY <1>5 DEF Goes
  <2> QED
    BY <1>1, <1>4, <2>1, <2>2 DEF TypeOK
<1>7. Numbered'
  <2>1. IsFiniteSet(Based) /\ Cardinality(Based) \in Nat
    BY FS_CardinalityType DEF LettersOK, Numbered
  <2>2. Based' = Based \/ Based' = Based \cup {Fresh}
    <3>1. \A j \in new : j # Fresh => j.via # <<>>
      BY <1>1, <1>3, UnderIs
    <3>2. Based' = {i \in old \cup new : i.via = <<>>}
      BY <1>1 DEF Based
    <3>3. Based = {i \in old : i.via = <<>>}
      BY DEF Based
    <3> HIDE DEF old, new
    <3>4. \A j \in new : j.via = <<>> <=> j = Fresh
      BY <1>2, <3>1
    <3> QED
      BY <3>2, <3>3, <3>4
  <2>3. Fresh \notin Based
    BY <1>2 DEF Based
  <2>4. /\ IsFiniteSet(Based \cup {Fresh})
        /\ Cardinality(Based \cup {Fresh}) = Cardinality(Based) + 1
    BY <2>1, <2>3, FS_AddElement
  <2>5. /\ IsFiniteSet(Based') /\ Cardinality(Based') \in Nat
        /\ Cardinality(Based') >= Cardinality(Based)
    BY <2>1, <2>2, <2>4
  <2>6. \A i \in old : i.n \in Nat /\ i.n <= Cardinality(Based')
    BY <1>1, <2>1, <2>5 DEF LettersOK, Numbered, Id
  <2>7. \A j \in new : j # Fresh => j.n <= Cardinality(Based')
    BY <1>1, <1>3, <2>6, UnderIs
  <2>8. Fresh \in new => Fresh.n <= Cardinality(Based')
    <3>1. Fresh \in new => Based' = Based \cup {Fresh}
      <4>1. Fresh \in new => Fresh \in Based'
        BY <1>1, <1>2 DEF Based
      <4> QED
        BY <2>2, <2>3, <4>1
    <3>2. Fresh.n = Cardinality(Based) + 1
      BY FreshIsNew DEF LettersOK
    <3>3. Fresh \in new => Cardinality(Based') = Cardinality(Based) + 1
      BY <2>4, <3>1
    <3> HIDE DEF new
    <3> QED
      BY <2>1, <3>2, <3>3
  <2> QED
    BY <1>1, <2>5, <2>6, <2>7, <2>8 DEF Numbered
<1>8. Chains'
  <2>1. ASSUME NEW i \in old, NEW k \in 0 .. Len(i.via) - 1
        PROVE  /\ Upto(i, k) \in old
               /\ i.via[k + 1] \in Standing => letter'[Upto(i, k)].fate = "done"
    BY <1>5 DEF LettersOK, Chains, Goes
  <2>2. ASSUME NEW j \in new, NEW k \in 0 .. Len(j.via) - 1
        PROVE  /\ Upto(j, k) \in old
               /\ j.via[k + 1] \in Standing => letter'[Upto(j, k)].fate = "done"
    <3>1. j # Fresh
      <4>1. Len(Fresh.via) = 0
        BY <1>2
      <4> QED
        BY <2>2, <4>1
    <3>2. PICK i \in old, q \in Kinds :
             j = Under(i, q) /\ (q \in Standing => letter'[i].fate = "done")
      BY <1>3, <3>1
    <3>3. /\ i \in Id /\ Len(j.via) = Len(i.via) + 1 /\ Len(i.via) \in Nat
          /\ j.via[Len(i.via) + 1] = q
      <4>1. i \in Id
        BY <1>1
      <4>2. Len(i.via) \in Nat
        BY <4>1 DEF Id
      <4> QED
        BY <3>2, <4>1, <4>2, UnderIs
    <3>4. CASE k = Len(i.via)
      BY <3>2, <3>3, <3>4, UptoUnder
    <3>5. CASE k \in 0 .. Len(i.via) - 1
      BY <2>1, <3>2, <3>3, <3>5, UptoUnder
    <3> QED
      BY <2>2, <3>3, <3>4, <3>5
  <2> QED
    BY <1>1, <2>1, <2>2 DEF Chains
<1>9. Causes'
  <2> SUFFICES ASSUME NEW i \in DOMAIN letter', letter'[i].fate = "done"
               PROVE  Followed(i)' \/ (letter'[i].passive /\ letter'[i].tries > 0)
    BY DEF Causes
  <2>1. i \in old /\ i \in Id
    BY <1>1, <1>4
  <2>2. CASE letter[i].fate = "done"
    <3>1. /\ letter'[i].passive = letter[i].passive /\ letter'[i].tries >= letter[i].tries
          /\ letter[i].tries \in Nat /\ letter'[i].tries \in Nat
      BY <1>5, <2>1 DEF Goes, IsLetter, LettersOK, TypeOK
    <3>2. Followed(i) => Followed(i)'
      BY <1>1 DEF Followed
    <3> QED
      BY <2>1, <2>2, <3>1, <3>2 DEF LettersOK, Causes
  <2>3. CASE \E k \in Kinds : Under(i, k) \in DOMAIN letter'
    BY <2>1, <2>3, UnderIs DEF Followed
  <2> QED
    BY <1>5, <2>1, <2>2, <2>3 DEF Goes
<1>10. Spent'
  <2>1. \A j \in new : ~(letter'[j].tries >= Most(letter'[j]))
    BY <1>4 DEF Most
  <2> QED
    BY <1>1, <1>5, <2>1 DEF Spent, Goes
<1>11. Loomed'
  BY <1>1, <1>2, <1>3, <1>5 DEF LettersOK, Loomed, Goes
<1> QED
  BY <1>6, <1>7, <1>8, <1>9, <1>10, <1>11 DEF LettersOK

-----------------------------------------------------------------------------
(* The actions are steps of that kind *)

\* A letter that stays as it is.
LEMMA StaysGoes ==
    ASSUME LettersOK, NEW i \in DOMAIN letter, letter'[i] = letter[i]
    PROVE  Goes(i)
<1>1. IsLetter(letter[i]) /\ (letter[i].tries >= Most(letter[i]) => letter[i].fate # "none")
  BY DEF LettersOK, TypeOK, Spent
<1>2. letter[i].tries \in Nat
  BY <1>1 DEF IsLetter
<1> QED
  BY <1>1, <1>2 DEF Goes

\* A step that leaves the letters alone.
LEMMA SameGrows ==
    ASSUME LettersOK, UNCHANGED letter
    PROVE  Grows
  BY StaysGoes DEF Grows

\* People, bodies and the loop add letters of their own.
LEMMA AddsGrows ==
    ASSUME LettersOK, NEW l, IsLetter(l), l.fate = "none", l.tries = 0, Adds(Fresh, l)
    PROVE  Grows
<1>1. Fresh \notin DOMAIN letter
  BY FreshIsNew DEF LettersOK
<1>2. /\ DOMAIN letter' = DOMAIN letter \cup {Fresh} /\ letter'[Fresh] = l
      /\ \A i \in DOMAIN letter : letter'[i] = letter[i]
  BY <1>1 DEF Adds
<1>3. \A i \in DOMAIN letter : Goes(i)
  BY <1>2, StaysGoes
<1>4. \A j \in DOMAIN letter' \ DOMAIN letter : Comes(j)
  BY <1>2 DEF Comes
<1> QED
  BY <1>2, <1>3, <1>4 DEF Grows

\* _unrouted and a refused send: the letter is done and another stands for it.
LEMMA LivesOnGrows ==
    ASSUME LettersOK, NEW i \in DOMAIN letter, NEW kind \in Standing, NEW to,
           LivesOn(i, kind, to)
    PROVE  Grows
<1> DEFINE u == Under(i, kind)
<1>1. i \in Id /\ kind \in Kinds /\ IsLetter(letter[i])
  BY DEF LettersOK, TypeOK, Kinds
<1>2. /\ DOMAIN letter' = DOMAIN letter \cup {u}
      /\ letter'[i] = [letter[i] EXCEPT !.fate = "done"]
      /\ \A j \in DOMAIN letter \ {i} : letter'[j] = letter[j]
      /\ u \notin DOMAIN letter => letter'[u] = Letter(to, "loom", i, FALSE)
  BY DEF LivesOn
<1>3. /\ IsLetter(letter'[i]) /\ letter'[i].fate = "done"
      /\ letter'[i].to = letter[i].to /\ letter'[i].by = letter[i].by
      /\ letter'[i].re = letter[i].re /\ letter'[i].passive = letter[i].passive
      /\ letter'[i].waits = letter[i].waits /\ letter'[i].tries = letter[i].tries
      /\ letter[i].tries \in Nat
  BY <1>1, <1>2 DEF IsLetter
<1>4. Goes(i)
  BY <1>1, <1>2, <1>3 DEF Goes
<1>5. \A j \in DOMAIN letter : Goes(j)
  BY <1>2, <1>4, StaysGoes
<1>6. u \notin DOMAIN letter => Comes(u)
  <2>1. /\ IsLetter(Letter(to, "loom", i, FALSE)) /\ Letter(to, "loom", i, FALSE).by = "loom"
        /\ Letter(to, "loom", i, FALSE).fate = "none" /\ Letter(to, "loom", i, FALSE).tries = 0
    BY DEF Letter, IsLetter
  <2> QED
    BY <1>1, <1>2, <1>3, <2>1 DEF Comes
<1> QED
  BY <1>2, <1>5, <1>6 DEF Grows

\* A letter that cost a body more.
LEMMA TriedIs ==
    ASSUME NEW l, IsLetter(l), NEW f \in {"none", "done", "operator"},
           NEW m, m = [l EXCEPT !.fate = f, !.tries = @ + 1]
    PROVE  /\ IsLetter(m) /\ m.fate = f /\ m.tries = l.tries + 1
           /\ m.to = l.to /\ m.by = l.by /\ m.re = l.re
           /\ m.passive = l.passive /\ m.waits = l.waits
<1> DEFINE q == l.tries + 1
<1> HIDE DEF q
<1>1. \A a, b, c, d, e, g, h :
        LET r == [to |-> a, by |-> b, re |-> c, passive |-> d, waits |-> e,
                  fate |-> g, tries |-> h]
        IN  /\ [r EXCEPT !.fate = f] =
                 [to |-> a, by |-> b, re |-> c, passive |-> d, waits |-> e,
                  fate |-> f, tries |-> h]
            /\ [r EXCEPT !.tries = q] =
                 [to |-> a, by |-> b, re |-> c, passive |-> d, waits |-> e,
                  fate |-> g, tries |-> q]
  OBVIOUS
<1>2. l = [to |-> l.to, by |-> l.by, re |-> l.re, passive |-> l.passive,
           waits |-> l.waits, fate |-> l.fate, tries |-> l.tries]
  BY DEF IsLetter
<1>3. m = [to |-> l.to, by |-> l.by, re |-> l.re, passive |-> l.passive,
           waits |-> l.waits, fate |-> f, tries |-> l.tries + 1]
  <2>1. m = [[l EXCEPT !.fate = f] EXCEPT !.tries = q]
    BY DEF q
  <2>2. m = [to |-> l.to, by |-> l.by, re |-> l.re, passive |-> l.passive,
             waits |-> l.waits, fate |-> f, tries |-> q]
    BY <1>1, <1>2, <2>1
  <2> QED
    BY <2>2 DEF q
<1>4. /\ m.fate = f /\ m.tries = l.tries + 1
      /\ m.to = l.to /\ m.by = l.by /\ m.re = l.re
      /\ m.passive = l.passive /\ m.waits = l.waits
  BY <1>3
<1>5. IsLetter(m)
  <2>1. l.tries + 1 \in Nat /\ l.by \in Thread \cup {"person", "loom"}
        /\ l.passive \in BOOLEAN /\ l.waits \in BOOLEAN
    BY DEF IsLetter
  <2> QED
    BY <1>3, <1>4, <2>1 DEF IsLetter
<1> QED
  BY <1>4, <1>5

\* A letter that an attempt failed to answer, as the loop judges it.
LEMMA JudgedGoes ==
    ASSUME LettersOK, NEW t \in Thread, NEW usable \in BOOLEAN, NEW i \in LettersFor(t),
           letter'[i] = [letter[i] EXCEPT !.fate = Judged(t, i, usable).fate, !.tries = @ + 1],
           Judged(t, i, usable).kind \in {"failed", "bounce"} =>
               Under(i, Judged(t, i, usable).kind) \in DOMAIN letter'
    PROVE  i \in DOMAIN letter /\ Goes(i)
<1>1. i \in DOMAIN letter /\ Owner(i).who \in {"body", "loom", "opener"}
  BY DEF LettersFor
<1>2. /\ letter[i].fate = "none" /\ IsLetter(letter[i]) /\ letter[i].tries \in Nat
      /\ Owner(i).who # "nobody"
  BY <1>1, OwedIsOpen DEF LettersOK, TypeOK, IsLetter
<1> DEFINE v == Judged(t, i, usable)
<1>3. /\ v.fate \in {"none", "done", "operator"}
      /\ v.fate = "done" => v.kind \in {"failed", "bounce"} \/ letter[i].passive
      /\ v.fate = "none" => letter[i].by = "person" /\ ~(letter[i].tries >= 1)
  BY DEF Judged, Bounced, Verdict, Tried
<1> DEFINE l == letter[i]
           f == v.fate
<1>4. /\ letter'[i].fate = f /\ letter'[i].tries = l.tries + 1
      /\ IsLetter(letter'[i])
      /\ letter'[i].to = l.to /\ letter'[i].by = l.by
      /\ letter'[i].re = l.re /\ letter'[i].passive = l.passive
      /\ letter'[i].waits = l.waits
  <2>1. letter'[i] = [l EXCEPT !.fate = f, !.tries = @ + 1]
    OBVIOUS
  <2>2. IsLetter(l) /\ f \in {"none", "done", "operator"}
    BY <1>2, <1>3
  <2> HIDE DEF l, f
  <2>3. \A m : m = [l EXCEPT !.fate = f, !.tries = @ + 1] =>
               /\ IsLetter(m) /\ m.fate = f /\ m.tries = l.tries + 1
               /\ m.to = l.to /\ m.by = l.by /\ m.re = l.re
               /\ m.passive = l.passive /\ m.waits = l.waits
    BY <2>2, TriedIs
  <2> QED
    BY ONLY <2>1, <2>3
<1> HIDE DEF v
<1>5. v.kind \in {"failed", "bounce"} => \E k \in Kinds : Under(i, k) \in DOMAIN letter'
  BY DEF Kinds, v
<1>6. letter'[i].tries >= Most(letter'[i]) => letter'[i].fate # "none"
  BY <1>2, <1>3, <1>4 DEF Most
<1> QED
  BY <1>1, <1>2, <1>3, <1>4, <1>5, <1>6 DEF Goes

\* _end_attempt: a failed attempt judges what the body was shown and owes.
LEMMA FailsGrows ==
    ASSUME LettersOK, NEW t \in Thread, NEW letters \in SUBSET LettersFor(t),
           NEW usable \in BOOLEAN, NEW refusal \in SUBSET {Fresh},
           Fails(t, letters, usable, refusal)
    PROVE  Grows
<1> DEFINE followed == {i \in letters : Judged(t, i, usable).kind \in {"failed", "bounce"}}
           after(i) == Under(i, Judged(t, i, usable).kind)
<1>1. letters \subseteq DOMAIN letter /\ DOMAIN letter \subseteq Id
  BY DEF LettersFor, LettersOK, TypeOK
<1>2. /\ DOMAIN letter' = DOMAIN letter \cup {after(i) : i \in followed} \cup refusal
      /\ \A i \in letters :
           letter'[i] = [letter[i] EXCEPT !.fate = Judged(t, i, usable).fate, !.tries = @ + 1]
      /\ \A i \in DOMAIN letter \ letters : letter'[i] = letter[i]
      /\ \A j \in DOMAIN letter' \ DOMAIN letter :
           \E to, re : letter'[j] = Letter(to, "loom", re, FALSE)
  BY <1>1 DEF Fails
<1>3. \A i \in letters : Goes(i)
  <2> SUFFICES ASSUME NEW i \in letters PROVE Goes(i)
    OBVIOUS
  <2>1. Judged(t, i, usable).kind \in {"failed", "bounce"} => after(i) \in DOMAIN letter'
    BY <1>2
  <2> QED
    BY <1>2, <2>1, JudgedGoes
<1>4. \A i \in DOMAIN letter : Goes(i)
  BY <1>2, <1>3, StaysGoes
<1>5. \A to, re : /\ IsLetter(Letter(to, "loom", re, FALSE))
                  /\ Letter(to, "loom", re, FALSE).by = "loom"
                  /\ Letter(to, "loom", re, FALSE).fate = "none"
                  /\ Letter(to, "loom", re, FALSE).tries = 0
  BY DEF Letter, IsLetter
<1>6. ASSUME NEW j \in DOMAIN letter' \ DOMAIN letter PROVE Comes(j)
  <2>1. /\ IsLetter(letter'[j]) /\ letter'[j].by = "loom"
        /\ letter'[j].fate = "none" /\ letter'[j].tries = 0
    <3>1. PICK x, re : letter'[j] = Letter(x, "loom", re, FALSE)
      BY <1>2
    <3> QED
      BY <1>5, <3>1
  <2>2. CASE j \in refusal
    BY <2>1, <2>2 DEF Comes
  <2>3. CASE j \in {after(i) : i \in followed}
    <3>1. PICK i \in followed : j = after(i)
      BY <2>3
    <3>2. /\ Judged(t, i, usable).kind \in Kinds \ Standing
          /\ i \in DOMAIN letter
      BY <1>1 DEF Kinds, Standing
    <3> QED
      BY <2>1, <3>1, <3>2 DEF Comes
  <2> QED
    BY <1>2, <2>2, <2>3
<1> QED
  BY <1>2, <1>4, <1>6 DEF Grows

\* _refused: letters are turned back to their writers.
LEMMA TurnsBackGrows ==
    ASSUME LettersOK, NEW t \in Thread, TurnsBack(t)
    PROVE  Grows
<1> DEFINE letters == {i \in LettersFor(t) : ~ letter[i].passive}
           to(i)   == IF letter[i].by \in Thread THEN letter[i].by ELSE Home
           told    == {i \in letters : to(i) # t}
<1>1. letters \subseteq DOMAIN letter /\ DOMAIN letter \subseteq Id /\ told \subseteq letters
  BY DEF LettersFor, LettersOK, TypeOK
<1>2. /\ DOMAIN letter' = DOMAIN letter \cup {Under(i, "undelivered") : i \in told}
      /\ \A i \in letters :
           letter'[i] = [letter[i] EXCEPT !.fate = IF i \in told THEN "done" ELSE "operator"]
      /\ \A i \in DOMAIN letter \ letters : letter'[i] = letter[i]
      /\ \A j \in DOMAIN letter' \ DOMAIN letter :
           \E x, re : letter'[j] = Letter(x, "loom", re, FALSE)
  BY <1>1 DEF TurnsBack
<1>3. ASSUME NEW i \in letters PROVE Goes(i)
  <2>1. /\ i \in DOMAIN letter /\ IsLetter(letter[i]) /\ letter[i].tries \in Nat
        /\ Owner(i).who # "nobody" /\ letter[i].fate = "none"
    BY <1>1, OwedIsOpen DEF LettersFor, LettersOK, TypeOK, IsLetter
  <2>2. letter'[i].fate \in {"done", "operator"} /\ (letter'[i].fate = "done" => i \in told)
    BY <1>2, <2>1 DEF IsLetter
  <2>3. /\ IsLetter(letter'[i])
        /\ letter'[i].to = letter[i].to /\ letter'[i].by = letter[i].by
        /\ letter'[i].re = letter[i].re /\ letter'[i].passive = letter[i].passive
        /\ letter'[i].waits = letter[i].waits /\ letter'[i].tries = letter[i].tries
    BY <1>2, <2>1 DEF IsLetter
  <2>4. i \in told => \E k \in Kinds : Under(i, k) \in DOMAIN letter'
    BY <1>2 DEF Kinds, Standing
  <2> HIDE DEF letters, told
  <2> QED
    BY <2>1, <2>2, <2>3, <2>4 DEF Goes
<1>4. \A i \in DOMAIN letter : Goes(i)
  BY <1>2, <1>3, StaysGoes
<1>5. \A x, re : /\ IsLetter(Letter(x, "loom", re, FALSE))
                 /\ Letter(x, "loom", re, FALSE).by = "loom"
                 /\ Letter(x, "loom", re, FALSE).fate = "none"
                 /\ Letter(x, "loom", re, FALSE).tries = 0
  BY DEF Letter, IsLetter
<1>6. ASSUME NEW j \in DOMAIN letter' \ DOMAIN letter PROVE Comes(j)
  <2>1. /\ IsLetter(letter'[j]) /\ letter'[j].by = "loom"
        /\ letter'[j].fate = "none" /\ letter'[j].tries = 0
    <3>1. PICK x, re : letter'[j] = Letter(x, "loom", re, FALSE)
      BY <1>2
    <3> QED
      BY <1>5, <3>1
  <2>2. PICK i \in told : j = Under(i, "undelivered")
    BY <1>2
  <2>3. i \in DOMAIN letter /\ letter'[i].fate = "done" /\ "undelivered" \in Kinds
    BY <1>1, <1>2 DEF LettersOK, TypeOK, IsLetter, Kinds, Standing
  <2> QED
    BY <2>1, <2>2, <2>3 DEF Comes
<1> QED
  BY <1>2, <1>4, <1>6 DEF Grows

\* A refused send of the loom's own: the operator has it.
LEMMA GivenUpGrows ==
    ASSUME LettersOK, NEW i \in DOMAIN letter, Owner(i).does = "send",
           letter' = [letter EXCEPT ![i].fate = "operator"]
    PROVE  Grows
<1>1. /\ IsLetter(letter[i]) /\ letter[i].fate = "none" /\ Owner(i).who # "nobody"
      /\ letter[i].tries \in Nat
  BY OwedIsOpen DEF LettersOK, TypeOK, IsLetter
<1>2. /\ DOMAIN letter' = DOMAIN letter
      /\ letter'[i] = [letter[i] EXCEPT !.fate = "operator"]
      /\ \A j \in DOMAIN letter \ {i} : letter'[j] = letter[j]
  OBVIOUS
<1>3. /\ IsLetter(letter'[i]) /\ letter'[i].fate = "operator"
      /\ letter'[i].to = letter[i].to /\ letter'[i].by = letter[i].by
      /\ letter'[i].re = letter[i].re /\ letter'[i].passive = letter[i].passive
      /\ letter'[i].waits = letter[i].waits /\ letter'[i].tries = letter[i].tries
  BY <1>1, <1>2 DEF IsLetter
<1>4. Goes(i)
  BY <1>1, <1>3 DEF Goes
<1> QED
  BY <1>2, <1>4, StaysGoes DEF Grows

\* observe_due: the hour of a letter has come.
LEMMA DueGrows ==
    ASSUME LettersOK, NEW i \in DOMAIN letter,
           letter' = [letter EXCEPT ![i].waits = FALSE]
    PROVE  Grows
<1>1. /\ IsLetter(letter[i]) /\ letter[i].tries \in Nat
      /\ letter[i].tries >= Most(letter[i]) => letter[i].fate # "none"
  BY DEF LettersOK, TypeOK, Spent, IsLetter
<1>2. /\ DOMAIN letter' = DOMAIN letter
      /\ letter'[i] = [letter[i] EXCEPT !.waits = FALSE]
      /\ \A j \in DOMAIN letter \ {i} : letter'[j] = letter[j]
  OBVIOUS
<1>3. /\ IsLetter(letter'[i]) /\ letter'[i].waits = FALSE
      /\ letter'[i].to = letter[i].to /\ letter'[i].by = letter[i].by
      /\ letter'[i].re = letter[i].re /\ letter'[i].passive = letter[i].passive
      /\ letter'[i].fate = letter[i].fate /\ letter'[i].tries = letter[i].tries
  BY <1>1, <1>2 DEF IsLetter
<1>4. Goes(i)
  BY <1>1, <1>3 DEF Goes, Most
<1> QED
  BY <1>2, <1>4, StaysGoes DEF Grows

-----------------------------------------------------------------------------
(* Every step *)

\* Only an answer to a person's chat is added to the channel by a body.
Answering ==
    \A j \in DOMAIN letter' \ DOMAIN letter :
        letter'[j].to = "channel" /\ letter'[j].by # "loom"
            => letter[Base(letter'[j].re)].by = "person"

Gathers == word \subseteq word' /\ sent \subseteq sent' /\ seen \subseteq seen'

Advances == Grows /\ Gathers /\ Answering

\* A step that writes no letter.
LEMMA SameAdvances ==
    ASSUME LettersOK, Gathers, UNCHANGED letter
    PROVE  Advances
  BY SameGrows DEF Advances, Answering

\* A step that adds a letter of its own, which is no answer to a chat.
LEMMA AddsAdvances ==
    ASSUME LettersOK, Gathers, NEW l, Adds(Fresh, l), IsLetter(l),
           l.fate = "none", l.tries = 0, l.to # "channel"
    PROVE  Advances
<1>1. \A j \in DOMAIN letter' \ DOMAIN letter : letter'[j] = l
  BY DEF Adds
<1> QED
  BY <1>1, AddsGrows DEF Advances, Answering

\* A step that adds nothing but letters of the loom.
LEMMA LoomAdvances ==
    ASSUME LettersOK, Gathers, Grows,
           \A j \in DOMAIN letter' \ DOMAIN letter : letter'[j].by = "loom"
    PROVE  Advances
  BY DEF Advances, Answering

\* What a step may do to the facts and the rows that were read.
LEMMA WrittenKept ==
    ASSUME Written, DOMAIN letter \subseteq DOMAIN letter', word \subseteq word',
           sent' \subseteq sent \cup word', listed' \subseteq listed
    PROVE  Written'
  BY DEF Written

\* The successors that LivesOn writes are the loom's.
LEMMA LivesOnAdvances ==
    ASSUME LettersOK, Gathers, NEW i \in DOMAIN letter, NEW kind \in Standing, NEW to,
           LivesOn(i, kind, to)
    PROVE  Advances
<1>1. \A j \in DOMAIN letter' \ DOMAIN letter : letter'[j] = Letter(to, "loom", i, FALSE)
  BY DEF LivesOn
<1>2. Letter(to, "loom", i, FALSE).by = "loom"
  BY DEF Letter
<1> QED
  BY <1>1, <1>2, LivesOnGrows, LoomAdvances

\* So are those of a failed attempt.
LEMMA FailsAdvances ==
    ASSUME LettersOK, Gathers, NEW t \in Thread, NEW letters \in SUBSET LettersFor(t),
           NEW usable \in BOOLEAN, NEW refusal \in SUBSET {Fresh},
           Fails(t, letters, usable, refusal)
    PROVE  Advances
<1>1. letters \subseteq DOMAIN letter
  BY DEF LettersFor
<1>2. \A j \in DOMAIN letter' \ DOMAIN letter :
         \E x, re : letter'[j] = Letter(x, "loom", re, FALSE)
  BY <1>1 DEF Fails
<1>3. \A x, re : Letter(x, "loom", re, FALSE).by = "loom"
  BY DEF Letter
<1>4. \A j \in DOMAIN letter' \ DOMAIN letter : letter'[j].by = "loom"
  <2> SUFFICES ASSUME NEW j \in DOMAIN letter' \ DOMAIN letter PROVE letter'[j].by = "loom"
    OBVIOUS
  <2>1. PICK x, re : letter'[j] = Letter(x, "loom", re, FALSE)
    BY <1>2
  <2> QED
    BY <1>3, <2>1
<1> QED
  BY <1>4, FailsGrows, LoomAdvances

\* The loop's own steps.
LEMMA LoopAdvances ==
    ASSUME IInv, Loop
    PROVE  Advances /\ Written'
<1> USE DEF IInv
<1>1. ASSUME NEW c \in Thread, TellsClosing(c) PROVE Advances /\ Written'
  <2>1. Gathers /\ sent' = sent /\ listed' = listed
    BY <1>1 DEF TellsClosing, Gathers
  <2>2. CASE Opener[c] \in Thread /\ closing[c] # Opener[c]
    <3>1. Adds(Fresh, Letter(Opener[c], "loom", None, TRUE)) /\ Opener[c] # "channel"
      BY <1>1, <2>2, LettersAssumption DEF TellsClosing
    <3>2. PICK l : l = Letter(Opener[c], "loom", None, TRUE)
      OBVIOUS
    <3>3. IsLetter(l) /\ l.fate = "none" /\ l.tries = 0 /\ l.to = Opener[c]
      BY <3>2 DEF Letter, IsLetter
    <3>4. Advances
      BY <2>1, <3>1, <3>2, <3>3, AddsAdvances
    <3> QED
      BY <2>1, <3>4, WrittenKept DEF Advances, Grows, Gathers
  <2>3. CASE ~(Opener[c] \in Thread /\ closing[c] # Opener[c])
    <3>1. UNCHANGED letter
      BY <1>1, <2>3 DEF TellsClosing
    <3> QED
      BY <2>1, <3>1, SameAdvances, WrittenKept DEF Gathers
  <2> QED
    BY <2>2, <2>3
<1>2. ASSUME NEW t \in Thread, Grants(t) \/ Starts(t) \/ EndsUnstarted(t)
      PROVE  Advances /\ Written'
  BY <1>2, SameAdvances, WrittenKept DEF Grants, Starts, EndsUnstarted, Gathers
<1>3. ASSUME Lists PROVE Advances /\ Written'
  <2>1. Advances
    BY <1>3, SameAdvances DEF Lists, Gathers
  <2>2. \A r \in listed' : r.id \in DOMAIN letter /\ r.kind \in Standing
    BY <1>3 DEF Lists, Unroutable, Standing
  <2> QED
    BY <1>3, <2>1, <2>2 DEF Lists, Written
<1>4. ASSUME NEW r \in listed, Moves(r) PROVE Advances /\ Written'
  <2>1. /\ Gathers /\ LivesOn(r.id, r.kind, r.to) /\ sent' = sent /\ listed' \subseteq listed
        /\ r.id \in DOMAIN letter /\ r.kind \in Standing
    BY <1>4 DEF Moves, Gathers, Written
  <2>2. Advances
    BY <2>1, LivesOnAdvances
  <2> QED
    BY <2>1, <2>2, WrittenKept DEF Advances, Grows, Gathers
<1>5. ASSUME NEW k \in DOMAIN letter, Speaks(k) PROVE Advances /\ Written'
  <2>1. Gathers /\ UNCHANGED letter /\ sent' \subseteq sent \cup word' /\ listed' = listed
    BY <1>5 DEF Speaks, Gathers
  <2> QED
    BY <2>1, SameAdvances, WrittenKept DEF Gathers
<1>6. ASSUME NEW k \in DOMAIN letter, ComesDue(k) PROVE Advances /\ Written'
  <2>1. Gathers /\ sent' = sent /\ listed' = listed
        /\ letter' = [letter EXCEPT ![k].waits = FALSE]
    BY <1>6 DEF ComesDue, Gathers
  <2>2. Advances
    BY <2>1, DueGrows, LoomAdvances
  <2> QED
    BY <2>1, <2>2, WrittenKept DEF Advances, Grows, Gathers
<1> QED
  BY <1>1, <1>2, <1>3, <1>4, <1>5, <1>6 DEF Loop

\* What bodies write.
LEMMA BodyAdvances ==
    ASSUME IInv, Body
    PROVE  Advances /\ Written'
<1> USE DEF IInv
<1>1. PICK t \in Thread :
        \/ Boundary(t)
        \/ \E i \in body[t].shown : Notes(t, i) \/ Answers(t, i)
        \/ \E u \in Thread, re \in body[t].shown \cup {None}, at \in BOOLEAN :
             Writes(t, u, re, at)
        \/ \E c \in Thread : Settles(t, c)
  BY DEF Body
<1>2. ASSUME Boundary(t) \/ (\E i \in body[t].shown : Notes(t, i))
                \/ (\E c \in Thread : Settles(t, c))
      PROVE  Advances /\ Written'
  BY <1>2, SameAdvances, WrittenKept DEF Boundary, Notes, Settles, Closes, Gathers
<1>3. ASSUME NEW i \in body[t].shown, Answers(t, i) PROVE Advances /\ Written'
  <2>1. /\ Gathers /\ sent' = sent /\ listed' = listed /\ letter[Base(i)].by = "person"
        /\ Adds(Fresh, Letter("channel", t, i, FALSE))
    BY <1>3 DEF Answers, Gathers
  <2>2. PICK l : l = Letter("channel", t, i, FALSE)
    OBVIOUS
  <2>3. IsLetter(l) /\ l.fate = "none" /\ l.tries = 0 /\ l.re = i
    BY <2>2 DEF Letter, IsLetter
  <2>4. Grows
    BY <2>1, <2>2, <2>3, AddsGrows
  <2>5. Answering
    <3>1. \A j \in DOMAIN letter' \ DOMAIN letter : letter'[j] = l
      BY <2>1, <2>2 DEF Adds
    <3> QED
      BY <2>1, <2>3, <3>1 DEF Answering
  <2> QED
    BY <2>1, <2>4, <2>5, WrittenKept DEF Advances, Grows, Gathers
<1>4. ASSUME NEW u \in Thread, NEW re, NEW at \in BOOLEAN, Writes(t, u, re, at)
      PROVE  Advances /\ Written'
  <2>1. /\ Gathers /\ sent' = sent /\ listed' = listed /\ u # "channel"
        /\ Adds(Fresh, [Letter(u, t, re, FALSE) EXCEPT !.waits = at])
    BY <1>4, LettersAssumption DEF Writes, Gathers
  <2>2. PICK l : l = [Letter(u, t, re, FALSE) EXCEPT !.waits = at]
    OBVIOUS
  <2>3. IsLetter(l) /\ l.fate = "none" /\ l.tries = 0 /\ l.to = u
    BY <2>2 DEF Letter, IsLetter
  <2>4. Advances
    BY <2>1, <2>2, <2>3, AddsAdvances
  <2> QED
    BY <2>1, <2>4, WrittenKept DEF Advances, Grows, Gathers
<1> QED
  BY <1>1, <1>2, <1>3, <1>4

\* What people, the transport and the adapters do.
LEMMA OthersAdvance ==
    ASSUME IInv, Others
    PROVE  Advances /\ Written'
<1> USE DEF IInv
<1>1. ASSUME NEW to \in Thread \cup {"nowhere"}, PersonWrites(to)
      PROVE  Advances /\ Written'
  <2>1. /\ Gathers /\ sent' = sent /\ listed' = listed /\ to # "channel"
        /\ Adds(Fresh, Letter(to, "person", None, FALSE))
    BY <1>1, LettersAssumption DEF PersonWrites, Gathers
  <2>2. PICK l : l = Letter(to, "person", None, FALSE)
    OBVIOUS
  <2>3. IsLetter(l) /\ l.fate = "none" /\ l.tries = 0 /\ l.to = to
    BY <2>2 DEF Letter, IsLetter
  <2>4. Advances
    BY <2>1, <2>2, <2>3, AddsAdvances
  <2> QED
    BY <2>1, <2>4, WrittenKept DEF Advances, Grows, Gathers
<1>2. ASSUME NEW i \in DOMAIN letter, PersonNotes(i)
      PROVE  Advances /\ Written'
  BY <1>2, SameAdvances, WrittenKept DEF PersonNotes, Gathers
<1>3. ASSUME NEW k \in DOMAIN letter, IsRefused(k)
      PROVE  Advances /\ Written'
  <2>1. /\ Gathers /\ sent' = sent /\ listed' = listed /\ Owner(k).does = "send"
    BY <1>3 DEF IsRefused, Gathers
  <2>2. CASE letter' = [letter EXCEPT ![k].fate = "operator"]
    <3>1. Advances
      BY <2>1, <2>2, GivenUpGrows, LoomAdvances
    <3> QED
      BY <2>1, <3>1, WrittenKept DEF Advances, Grows, Gathers
  <2>3. CASE LivesOn(k, "refused", letter[k].by)
    <3>1. "refused" \in Standing
      BY DEF Standing
    <3>2. Advances
      BY <2>1, <2>3, <3>1, LivesOnAdvances
    <3> QED
      BY <2>1, <3>2, WrittenKept DEF Advances, Grows, Gathers
  <2> QED
    BY <1>3, <2>2, <2>3 DEF IsRefused
<1>4. ASSUME NEW c \in Thread, PersonCloses(c) \/ Reopens(c)
      PROVE  Advances /\ Written'
  BY <1>4, SameAdvances, WrittenKept DEF PersonCloses, Closes, Reopens, Gathers
<1>5. ASSUME NEW t \in Thread, HomeFails(t) PROVE Advances /\ Written'
  <2>1. PICK large \in SUBSET LettersFor(t), usable \in BOOLEAN, refusal \in SUBSET {Fresh} :
          Fails(t, large, usable, refusal)
    BY <1>5 DEF HomeFails
  <2>2. Gathers /\ sent' = sent /\ listed' = listed
    BY <1>5 DEF HomeFails, Gathers
  <2>3. Advances
    BY <2>1, <2>2, FailsAdvances
  <2> QED
    BY <2>2, <2>3, WrittenKept DEF Advances, Grows, Gathers
<1>6. ASSUME NEW t \in Thread, TurnsBack(t) PROVE Advances /\ Written'
  <2>1. Gathers /\ sent' = sent /\ listed' = listed
    BY <1>6 DEF TurnsBack, Gathers
  <2>2. \A j \in DOMAIN letter' \ DOMAIN letter : letter'[j].by = "loom"
    <3>1. \A j \in DOMAIN letter' \ DOMAIN letter :
             \E x, re : letter'[j] = Letter(x, "loom", re, FALSE)
      BY <1>6 DEF TurnsBack, LettersFor
    <3>2. \A x, re : Letter(x, "loom", re, FALSE).by = "loom"
      BY DEF Letter
    <3> SUFFICES ASSUME NEW j \in DOMAIN letter' \ DOMAIN letter PROVE letter'[j].by = "loom"
      OBVIOUS
    <3>3. PICK x, re : letter'[j] = Letter(x, "loom", re, FALSE)
      BY <3>1
    <3> QED
      BY <3>2, <3>3
  <2>3. Advances
    BY <1>6, <2>1, <2>2, TurnsBackGrows, LoomAdvances
  <2> QED
    BY <2>1, <2>3, WrittenKept DEF Advances, Grows, Gathers
<1> QED
  BY <1>1, <1>2, <1>3, <1>4, <1>5, <1>6 DEF Others

\* The end of an attempt.
LEMMA EndsAdvance ==
    ASSUME IInv, NEW t \in Thread, Ends(t)
    PROVE  Advances /\ Written'
<1> USE DEF IInv
<1>1. Gathers /\ sent' = sent /\ listed' = listed
  BY DEF Ends, Gathers
<1>2. CASE UNCHANGED letter
  BY <1>1, <1>2, SameAdvances, WrittenKept DEF Gathers
<1>3. ASSUME NEW usable \in BOOLEAN, Fails(t, body[t].shown \cap LettersFor(t), usable, {})
      PROVE  Advances /\ Written'
  <2>1. Advances
    BY <1>1, <1>3, FailsAdvances
  <2> QED
    BY <1>1, <2>1, WrittenKept DEF Advances, Grows, Gathers
<1> QED
  BY <1>2, <1>3 DEF Ends

\* Every step moves the letters on and keeps the invariant.
LEMMA StepAdvances ==
    ASSUME IInv, [Next]_vars
    PROVE  Advances /\ IInv'
<1>1. CASE Next
  <2>1. Advances /\ Written'
    BY <1>1, LoopAdvances, BodyAdvances, OthersAdvance, EndsAdvance DEF Next
  <2> QED
    BY <2>1, GrowsKeeps DEF Advances, IInv
<1>2. CASE UNCHANGED vars
  <2>1. Advances /\ Written'
    BY <1>2, SameAdvances, WrittenKept DEF vars, Gathers, IInv
  <2> QED
    BY <2>1, GrowsKeeps DEF Advances, IInv
<1> QED
  BY <1>1, <1>2

\* The invariant holds of every state.
LEMMA Invariance == Spec => []IInv
<1>1. Init => IInv
  <2> SUFFICES ASSUME Init PROVE IInv
    OBVIOUS
  <2>1. DOMAIN letter = {} /\ Based = {} /\ sent = {} /\ listed = {}
    BY DEF Init, Based
  <2>2. IsFiniteSet(Based)
    BY <2>1, FS_EmptySet
  <2> QED
    BY <2>1, <2>2 DEF IInv, LettersOK, TypeOK, Numbered, Chains, Causes, Spent, Loomed, Written
<1>2. IInv /\ [Next]_vars => IInv'
  BY StepAdvances
<1> QED
  BY <1>1, <1>2, PTL DEF Spec

-----------------------------------------------------------------------------
(* Theorems *)

\* No letter costs more than two bodies, one of anybody's but a person, and
\* none is woken for it after (_end_attempt, loom.py).
THEOREM TwoBodiesAtMost == Spec => []TwoBodies
<1>1. IInv => TwoBodies
  <2> SUFFICES ASSUME IInv, NEW i \in DOMAIN letter, letter[i].tries >= Most(letter[i])
               PROVE  Owner(i).who \in {"nobody", "operator"}
    BY DEF TwoBodies, Most
  <2>1. letter[i].fate \in {"done", "operator"}
    BY DEF IInv, LettersOK, TypeOK, Spent, IsLetter
  <2> QED
    BY <2>1 DEF Owner, Row, Handled
<1> QED
  BY <1>1, Invariance, PTL

\* A word on any copy of a letter leaves none of them owed, and no two of
\* them are ever owed (fold and the owner table, owners.py).
THEOREM OneSettlesAll == Spec => []OneWordSettles
<1>1. IInv => OneWordSettles
  <2> SUFFICES ASSUME IInv, NEW x \in DOMAIN letter, NEW y \in DOMAIN letter,
                      StandsOver(y, x)
               PROVE  /\ Owner(x).who = "nobody"
                      /\ {x, y} \cap word # {} => Owner(y).who = "nobody"
    BY DEF OneWordSettles
  <2>1. letter[x].fate = "done"
    BY StandsIs DEF IInv, LettersOK, TypeOK, Chains
  <2>2. {x, y} \cap word # {} => Handled(y)
    BY DEF Handled
  <2> QED
    BY <2>1, <2>2, NobodyOwes DEF Handled
<1> QED
  BY <1>1, Invariance, PTL

\* No end of a body, closing or refusal drops a letter (_end_attempt, loom.py;
\* _unrouted and speak_out, router.py).
THEOREM NothingIsDropped == Spec => []NothingDropped
<1>1. IInv => NothingDropped
  <2> SUFFICES ASSUME IInv, NEW i \in DOMAIN letter, Owner(i).who = "nobody"
               PROVE  \/ \E w \in word : w = i \/ StandsOver(i, w) \/ StandsOver(w, i)
                      \/ letter[i].passive /\ (i \in seen \/ letter[i].tries > 0)
                      \/ SettledWorker(i)
                      \/ Followed(i)
    BY DEF NothingDropped, Followed
  <2>1. CASE letter[i].fate = "done"
    BY <2>1 DEF IInv, LettersOK, Causes
  <2>2. CASE Handled(i) /\ letter[i].fate # "done"
    BY <2>2 DEF Handled
  <2>3. CASE i \in sent
    BY <2>3 DEF IInv, Written
  <2>4. CASE Informed(i) \/ SettledWorker(i)
    BY <2>4 DEF Informed
  <2> QED
    BY <2>1, <2>2, <2>3, <2>4, NobodyOwes
<1> QED
  BY <1>1, Invariance, PTL

\* Any set of letters has one with the greatest number.
LEMMA Latest ==
    ASSUME TypeOK, Numbered, NEW S \in SUBSET DOMAIN letter, S # {}
    PROVE  \E k \in S : \A m \in S : m.n <= k.n
<1>1. Cardinality(Based) \in Nat
  BY FS_CardinalityType DEF Numbered
<1> DEFINE c == Cardinality(Based)
           T == {c - k.n : k \in S}
<1>2. \A k \in S : k.n \in Nat /\ c - k.n \in Nat
  <2>1. \A k \in S : k.n \in Nat /\ k.n <= c
    BY DEF TypeOK, Numbered, Id
  <2> HIDE DEF c
  <2> QED
    BY <1>1, <2>1 DEF c
<1> HIDE DEF c
<1>3. T \subseteq Nat /\ T # {}
  BY <1>2
<1>4. PICK x \in T : \A y \in T : ~(<<y, x>> \in OpToRel(<, Nat))
  BY <1>3, NatLessThanWellFounded, WFMin
<1>5. \A y \in T : ~(y < x)
  BY <1>3, <1>4 DEF OpToRel
<1>6. PICK k \in S : x = c - k.n
  BY <1>4
<1>7. \A m \in S : ~(c - m.n < c - k.n)
  BY <1>5, <1>6
<1> QED
  BY <1>1, <1>2, <1>7 DEF c

\* A letter that nobody owes stays so, while the thread of its writer does.
LEMMA StaysDone ==
    ASSUME IInv, [Next]_vars
    PROVE  \A i \in DOMAIN letter :
             Owner(i).who = "nobody" /\ Owner(i)'.who # "nobody"
               => letter[i].by \in Thread /\ main[letter[i].by] # main'[letter[i].by]
<1> SUFFICES ASSUME NEW i \in DOMAIN letter, Owner(i).who = "nobody",
                    ~(letter[i].by \in Thread /\ main[letter[i].by] # main'[letter[i].by])
             PROVE  Owner(i)'.who = "nobody"
  OBVIOUS
<1>1. Advances
  BY StepAdvances
<1>2. /\ i \in DOMAIN letter' /\ DOMAIN letter \subseteq DOMAIN letter'
      /\ \A j \in DOMAIN letter : Goes(j)
  BY <1>1 DEF Advances, Grows
<1>3. Owner(i)'.who = "nobody" <=>
           \/ Handled(i)' \/ i \in sent' \/ Informed(i)'
           \/ /\ letter'[i].fate # "operator" /\ ~letter'[i].waits
              /\ letter'[i].to # "channel" /\ ~AwaitsReceipt(i)' /\ SettledWorker(i)'
  <2>1. \A t : ClosedRow(i, t)'.who # "nobody" /\ OpenRow(t)'.who # "nobody"
    BY DEF ClosedRow, OpenRow, Row
  <2> QED
    BY <2>1 DEF Owner, Row
<1>4. CASE Handled(i)
  <2>1. Handled(i)'
    BY <1>1, <1>2, <1>4 DEF Handled, Goes, Advances, Gathers, StandsOver, About
  <2> QED
    BY <1>3, <2>1
<1>5. CASE i \in sent \/ Informed(i)
  BY <1>1, <1>2, <1>3, <1>5 DEF Informed, Goes, Advances, Gathers
<1>6. CASE ~Handled(i) /\ i \notin sent /\ ~Informed(i)
  <2>1. /\ letter[i].fate # "operator" /\ ~letter[i].waits
        /\ letter[i].to # "channel" /\ ~AwaitsReceipt(i) /\ SettledWorker(i)
    BY <1>6, NobodyOwes
  <2>2. /\ letter'[i].fate # "operator" /\ ~letter'[i].waits /\ letter'[i].to # "channel"
    BY <1>2, <2>1 DEF Goes
  <2>3. SettledWorker(i)'
    BY <1>2, <2>1 DEF SettledWorker, Goes
  <2>4. Replies(i)' = Replies(i)
    <3>1. letter[i].by \in Thread /\ letter[Base(i)].by # "person"
      <4>1. letter[i].by \in Thread
        BY <2>1 DEF SettledWorker
      <4>2. i.via = <<>>
        BY <4>1, LettersAssumption DEF IInv, LettersOK, Loomed
      <4>3. Base(i) = i
        BY <4>2 DEF Base, IInv, LettersOK, TypeOK, Id
      <4> QED
        BY <4>1, <4>3, LettersAssumption
    <3>2. \A j \in DOMAIN letter' \ DOMAIN letter :
             ~(letter'[j].to = "channel" /\ letter'[j].re = i /\ letter'[j].by # "loom")
      BY <1>1, <3>1 DEF Advances, Answering
    <3>3. \A j \in DOMAIN letter :
             letter'[j].to = letter[j].to /\ letter'[j].re = letter[j].re
               /\ letter'[j].by = letter[j].by
      BY <1>2 DEF Goes
    <3> QED
      BY <1>2, <3>2, <3>3 DEF Replies
  <2>5. ~AwaitsReceipt(i)'
    <3>1. Reply(i)' = Reply(i)
      BY <2>4 DEF Reply
    <3>2. CASE Replies(i) = {}
      BY <2>4, <3>2 DEF AwaitsReceipt
    <3>3. CASE Replies(i) # {}
      <4>1. Reply(i) \in Replies(i)
        <5>1. \E k \in Replies(i) : \A m \in Replies(i) : m.n <= k.n
          BY <3>3, Latest DEF IInv, LettersOK, Replies
        <5> QED
          BY <5>1 DEF Reply
      <4>2. Reply(i) \in DOMAIN letter
        BY <4>1 DEF Replies
      <4>3. letter[Reply(i)].fate # "none" \/ Reply(i) \in sent
        BY <2>1, <3>3 DEF AwaitsReceipt
      <4>4. letter'[Reply(i)].fate # "none" \/ Reply(i) \in sent'
        BY <1>1, <1>2, <4>2, <4>3 DEF Goes, Advances, Gathers
      <4> QED
        BY <3>1, <4>4 DEF AwaitsReceipt
    <3> QED
      BY <3>2, <3>3
  <2> QED
    BY <1>3, <2>2, <2>3, <2>5
<1> QED
  BY <1>4, <1>5, <1>6

\* A letter that nobody owes is owed again only when its worker is opened
\* again (owners.py, over growing facts and a changing main).
THEOREM DoneIsForGood == Spec => DoneForGood
<1>1. IInv /\ [Next]_vars
        => \A i \in DOMAIN letter :
             Owner(i).who = "nobody" /\ Owner(i)'.who # "nobody"
               => letter[i].by \in Thread /\ main[letter[i].by] # main'[letter[i].by]
  BY StaysDone
<1> QED
  BY <1>1, Invariance, PTL DEF Spec, DoneForGood

-----------------------------------------------------------------------------
(* Where letters go *)

\* Who a letter may be to.  Nobody but a body or the loom writes to the channel.
Place == Thread \cup {"channel", "nowhere"}

Fits(l) == l.to \in Place /\ (l.to = "channel" => l.by # "person")

Addressed ==
    /\ main \in [Thread -> {"open", "closed"}]
    /\ \A i \in DOMAIN letter : Fits(letter[i])
    /\ \A r \in listed : r.to \in Thread

\* OpenAbove, of a main.
AboveIn(m, t) ==
    LET up[k \in 0 .. Cardinality(Thread)] ==
          [u \in Thread |->
             IF k = 0 THEN "person"
             ELSE IF m[u] = "open" THEN u
             ELSE IF Opener[u] = "person" THEN "person"
             ELSE up[k - 1][Opener[u]]]
    IN up[Cardinality(Thread)][t]

\* The walk up the openers, a step at a time.
WalkIn(m, up) ==
    /\ \A u \in Thread : up[0][u] = "person"
    /\ \A k \in 1 .. Cardinality(Thread) : \A u \in Thread :
          up[k][u] = IF m[u] = "open" THEN u
                     ELSE IF Opener[u] = "person" THEN "person"
                     ELSE up[k - 1][Opener[u]]
    /\ \A k \in 0 .. Cardinality(Thread) : \A u \in Thread :
          up[k][u] \in Thread \cup {"person"}

LEMMA WalkIs ==
    ASSUME NEW m
    PROVE  \E up : WalkIn(m, up) /\ \A t \in Thread : AboveIn(m, t) = up[Cardinality(Thread)][t]
<1> DEFINE N == Cardinality(Thread)
           S == [Thread -> Thread \cup {"person"}]
           a == [u \in Thread |-> "person"]
           Next1(last) == [u \in Thread |->
                             IF m[u] = "open" THEN u
                             ELSE IF Opener[u] = "person" THEN "person"
                             ELSE last[Opener[u]]]
           G == [k \in 1 .. N |-> [last \in S |-> Next1(last)]]
           Row1(k, up) == [u \in Thread |->
                             IF k = 0 THEN "person"
                             ELSE IF m[u] = "open" THEN u
                             ELSE IF Opener[u] = "person" THEN "person"
                             ELSE up[k - 1][Opener[u]]]
           Steps(up) == up = [k \in 0 .. N |-> Row1(k, up)]
<1>1. N \in Nat
  BY LettersAssumption, FS_CardinalityType
<1> HIDE DEF N
<1>2. a \in S /\ \A last \in S : Next1(last) \in S
  BY LettersAssumption
<1>3. PICK f : Computed(f, S, N, a, G)
  <2>1. StepsOn(S, N, a, G)
    <3> HIDE DEF S, a, Next1
    <3> QED
      BY <1>1, <1>2 DEF StepsOn
  <2> HIDE DEF S, a, G
  <2> QED
    BY <2>1, Recursion
<1>4. Steps(f)
  <2>1. ASSUME NEW k \in 0 .. N PROVE f[k] = Row1(k, f)
    <3>1. CASE k = 0
      BY <1>3, <3>1 DEF Computed
    <3>2. CASE k # 0
      <4>1. k \in 1 .. N /\ k - 1 \in 0 .. N
        BY <1>1, <3>2
      <4>2. f[k - 1] \in S /\ f[k] = G[k][f[k - 1]]
        <5> HIDE DEF S, G, a
        <5> QED
          BY <1>3, <4>1 DEF Computed
      <4>3. f[k] = Next1(f[k - 1])
        <5> HIDE DEF S, Next1
        <5> QED
          BY <4>1, <4>2
      <4> QED
        BY <3>2, <4>3
    <3> QED
      BY <3>1, <3>2
  <2> HIDE DEF Row1, S, a, G
  <2>2. f = [k \in 0 .. N |-> f[k]]
    BY <1>3 DEF Computed
  <2> QED
    BY <2>1, <2>2
<1> DEFINE up == CHOOSE g : Steps(g)
<1>5. Steps(up)
  <2> HIDE DEF Steps
  <2> QED
    BY <1>4
<1>6. \A t \in Thread : AboveIn(m, t) = up[N][t]
  BY DEF AboveIn, N
<1> HIDE DEF up
<1>7. \A k \in 0 .. N : up[k] = Row1(k, up)
  <2> HIDE DEF Row1
  <2> QED
    BY <1>5
<1>8. \A u \in Thread : up[0][u] = "person"
  <2>1. 0 \in 0 .. N
    BY <1>1
  <2> QED
    BY <1>7, <2>1
<1>9. ASSUME NEW k \in 1 .. N PROVE up[k] = Next1(up[k - 1])
  <2>1. k \in 0 .. N /\ k # 0
    BY <1>1
  <2>2. up[k] = Row1(k, up)
    <3> HIDE DEF Row1
    <3> QED
      BY <1>7, <2>1
  <2> QED
    BY <2>1, <2>2
<1>10. \A k \in 0 .. N : up[k] \in S
  <2> DEFINE P == {k \in 0 .. N : up[k] \in S}
  <2>1. 0 \in P
    <3>1. 0 \in 0 .. N
      BY <1>1
    <3> QED
      BY <1>7, <3>1
  <2>2. ASSUME NEW k \in 1 .. N, k - 1 \in P PROVE k \in P
    <3>1. k \in 0 .. N
      BY <1>1
    <3> HIDE DEF S, Next1
    <3> QED
      BY <1>2, <1>9, <2>2, <3>1
  <2>3. \A k \in 0 .. N : k \in P
    <3> HIDE DEF P
    <3> QED
      BY <1>1, <2>1, <2>2, Counting
  <2> HIDE DEF S
  <2> QED
    BY <2>3
<1>11. WalkIn(m, up)
  <2>1. \A k \in 1 .. N : \A u \in Thread : up[k][u] = Next1(up[k - 1])[u]
    <3> HIDE DEF Next1
    <3> QED
      BY <1>9
  <2>2. \A k \in 0 .. N : \A u \in Thread : up[k][u] \in Thread \cup {"person"}
    BY <1>10
  <2> QED
    BY <1>8, <2>1, <2>2 DEF WalkIn, N
<1> QED
  BY <1>6, <1>11 DEF N

\* An opener above is a thread, or nobody but a person is left.
LEMMA AboveIs ==
    ASSUME NEW t \in Thread
    PROVE  OpenAbove(t) \in Thread \cup {"person"}
<1>1. PICK up : WalkIn(main, up) /\ AboveIn(main, t) = up[Cardinality(Thread)][t]
  BY WalkIs
<1>2. Cardinality(Thread) \in 0 .. Cardinality(Thread)
  BY LettersAssumption, FS_CardinalityType
<1>3. OpenAbove(t) = AboveIn(main, t)
  BY DEF OpenAbove, AboveIn
<1> QED
  BY <1>1, <1>2, <1>3 DEF WalkIn

-----------------------------------------------------------------------------
(* What is read again *)

\* The letters that a step adds fit where they go.
LEMMA AddedFit ==
    ASSUME Addressed, Grows, UNCHANGED main, listed' \subseteq listed,
           \A j \in DOMAIN letter' \ DOMAIN letter : Fits(letter'[j])
    PROVE  Addressed'
<1>1. \A i \in DOMAIN letter : Fits(letter'[i])
  BY DEF Addressed, Grows, Goes, Fits
<1> QED
  BY <1>1 DEF Addressed

\* A letter of the loom fits anywhere there is.
LEMMA LoomFits ==
    ASSUME NEW to \in Place, NEW re, NEW p
    PROVE  Fits(Letter(to, "loom", re, p))
<1>1. Letter(to, "loom", re, p).to = to /\ Letter(to, "loom", re, p).by = "loom"
  BY DEF Letter
<1> QED
  BY <1>1 DEF Fits

\* A failed attempt writes to authors, openers, the home thread or the channel.
LEMMA FailsFit ==
    ASSUME Addressed, NEW t \in Thread, NEW letters \in SUBSET LettersFor(t),
           NEW usable \in BOOLEAN, NEW refusal \in SUBSET {Fresh}, TypeOK,
           Fails(t, letters, usable, refusal)
    PROVE  \A j \in DOMAIN letter' \ DOMAIN letter : Fits(letter'[j])
<1> DEFINE followed == {i \in letters : Judged(t, i, usable).kind \in {"failed", "bounce"}}
           after(i) == Under(i, Judged(t, i, usable).kind)
<1>1. letters \subseteq DOMAIN letter /\ DOMAIN letter \subseteq Id
  BY DEF LettersFor, TypeOK
<1>2. \A j \in DOMAIN letter' \ DOMAIN letter :
         \/ letter'[j] = Letter(Home, "loom", None, FALSE)
         \/ /\ \E i \in followed : j = after(i)
            /\ \A i \in letters : i = About(j) =>
                  letter'[j] = Letter(Judged(t, i, usable).to, "loom", i, FALSE)
  BY <1>1 DEF Fails
<1> SUFFICES ASSUME NEW j \in DOMAIN letter' \ DOMAIN letter PROVE Fits(letter'[j])
  OBVIOUS
<1>3. CASE letter'[j] = Letter(Home, "loom", None, FALSE)
  <2>1. Home \in Place
    BY LettersAssumption DEF Place
  <2> QED
    BY <1>3, <2>1, LoomFits
<1>4. ASSUME NEW i \in followed, j = after(i),
             \A k \in letters : k = About(j) =>
               letter'[j] = Letter(Judged(t, k, usable).to, "loom", k, FALSE)
      PROVE  Fits(letter'[j])
  <2>1. i \in letters /\ Judged(t, i, usable).kind \in {"failed", "bounce"}
    OBVIOUS
  <2>2. Judged(t, i, usable).to \in Place
    BY <2>1 DEF Judged, Bounced, Verdict, Place
  <2>3. About(j) = i
    <3>1. i \in Id /\ Judged(t, i, usable).kind \in Kinds
      BY <1>1, <2>1 DEF Kinds
    <3> QED
      BY <1>4, <3>1, UnderIs
  <2>4. letter'[j] = Letter(Judged(t, i, usable).to, "loom", i, FALSE)
    BY <1>4, <2>1, <2>3
  <2> QED
    BY <2>2, <2>4, LoomFits
<1> QED
  BY <1>2, <1>3, <1>4

\* A step that adds a letter of its own.
LEMMA AddsFit ==
    ASSUME NEW l, Adds(Fresh, l), Fits(l)
    PROVE  \A j \in DOMAIN letter' \ DOMAIN letter : Fits(letter'[j])
<1>1. \A j \in DOMAIN letter' \ DOMAIN letter : letter'[j] = l
  BY DEF Adds
<1> QED
  BY <1>1

\* A step that moves a letter.
LEMMA LivesOnFits ==
    ASSUME NEW i \in DOMAIN letter, NEW kind, NEW to \in Place, LivesOn(i, kind, to)
    PROVE  \A j \in DOMAIN letter' \ DOMAIN letter : Fits(letter'[j])
<1>1. \A j \in DOMAIN letter' \ DOMAIN letter : letter'[j] = Letter(to, "loom", i, FALSE)
  BY DEF LivesOn
<1> QED
  BY <1>1, LoomFits

\* Every letter that a step adds fits, and what the loop will move goes to a
\* thread.
LEMMA StepFits ==
    ASSUME IInv, Addressed, Next
    PROVE  Addressed'
<1> USE DEF IInv
<1>0. Grows
  BY StepAdvances DEF Advances
<1>1. ASSUME NEW c \in Thread, TellsClosing(c) PROVE Addressed'
  <2>1. UNCHANGED main /\ listed' = listed
    BY <1>1 DEF TellsClosing
  <2>2. CASE Opener[c] \in Thread /\ closing[c] # Opener[c]
    <3>1. Adds(Fresh, Letter(Opener[c], "loom", None, TRUE)) /\ Opener[c] \in Place
      BY <1>1, <2>2 DEF TellsClosing, Place
    <3>2. \A j \in DOMAIN letter' \ DOMAIN letter : Fits(letter'[j])
      BY <3>1, LoomFits, AddsFit
    <3> QED
      BY <1>0, <2>1, <3>2, AddedFit
  <2>3. CASE ~(Opener[c] \in Thread /\ closing[c] # Opener[c])
    BY <1>0, <1>1, <2>1, <2>3, AddedFit DEF TellsClosing
  <2> QED
    BY <2>2, <2>3
<1>2. ASSUME NEW t \in Thread,
             \/ Grants(t) \/ Starts(t) \/ EndsUnstarted(t) \/ Boundary(t)
             \/ \E i \in body[t].shown : Notes(t, i)
      PROVE  Addressed'
  BY <1>2 DEF Grants, Starts, EndsUnstarted, Boundary, Notes, Addressed
<1>3. ASSUME NEW c \in Thread,
             PersonCloses(c) \/ Reopens(c) \/ (\E t \in Thread : Settles(t, c))
      PROVE  Addressed'
  <2>1. /\ letter' = letter /\ listed' = listed
        /\ \E s \in {"open", "closed"} : main' = [main EXCEPT ![c] = s]
    BY <1>3 DEF PersonCloses, Reopens, Settles, Closes
  <2> QED
    BY <2>1 DEF Addressed
<1>4. ASSUME Lists PROVE Addressed'
  <2>1. main' = main /\ letter' = letter
    BY <1>4 DEF Lists
  <2>2. ASSUME NEW i \in DOMAIN letter, Owner(i).does = "climb" PROVE Owner(i).at \in Thread
    <3>1. letter[i].to \in Thread /\ Owner(i) = ClosedRow(i, letter[i].to)
      BY <2>2 DEF Owner, Row, OpenRow, Addressed, Fits, Place
    <3>2. /\ OpenAbove(letter[i].to) # "person"
          /\ Owner(i) = Row("opener", OpenAbove(letter[i].to), "climb")
      BY <2>2, <3>1 DEF ClosedRow, Row
    <3> QED
      BY <3>1, <3>2, AboveIs DEF Row
  <2>3. \A r \in listed' : r.to \in Thread
    <3>1. ASSUME NEW i \in DOMAIN letter
          PROVE  (IF Owner(i).does = "climb" THEN Owner(i).at ELSE Home) \in Thread
      BY <2>2, LettersAssumption
    <3>2. Unroutable \subseteq DOMAIN letter
      BY DEF Unroutable
    <3> QED
      BY <1>4, <3>1, <3>2 DEF Lists
  <2> QED
    BY <2>1, <2>3 DEF Addressed
<1>5. ASSUME NEW r \in listed, Moves(r) PROVE Addressed'
  <2>1. /\ UNCHANGED main /\ listed' \subseteq listed /\ LivesOn(r.id, r.kind, r.to)
        /\ r.id \in DOMAIN letter /\ r.to \in Place
    BY <1>5 DEF Moves, Written, Addressed, Place
  <2> QED
    BY <1>0, <2>1, LivesOnFits, AddedFit
<1>6. ASSUME NEW k \in DOMAIN letter, Speaks(k) \/ ComesDue(k) \/ PersonNotes(k)
      PROVE  Addressed'
  <2>1. /\ UNCHANGED main /\ listed' = listed /\ DOMAIN letter' = DOMAIN letter
    BY <1>6 DEF Speaks, ComesDue, PersonNotes
  <2> QED
    BY <1>0, <2>1, AddedFit
<1>7. ASSUME NEW t \in Thread, NEW i \in body[t].shown, Answers(t, i) PROVE Addressed'
  <2>1. UNCHANGED main /\ listed' = listed /\ Adds(Fresh, Letter("channel", t, i, FALSE))
    BY <1>7 DEF Answers
  <2>2. Fits(Letter("channel", t, i, FALSE))
    BY LettersAssumption DEF Letter, Fits, Place
  <2> QED
    BY <1>0, <2>1, <2>2, AddsFit, AddedFit
<1>8. ASSUME NEW t \in Thread, NEW u \in Thread, NEW re, NEW at \in BOOLEAN,
             Writes(t, u, re, at)
      PROVE  Addressed'
  <2>1. /\ UNCHANGED main /\ listed' = listed
        /\ Adds(Fresh, [Letter(u, t, re, FALSE) EXCEPT !.waits = at])
    BY <1>8 DEF Writes
  <2>2. Fits([Letter(u, t, re, FALSE) EXCEPT !.waits = at])
    BY LettersAssumption DEF Letter, Fits, Place
  <2> QED
    BY <1>0, <2>1, <2>2, AddsFit, AddedFit
<1>9. ASSUME NEW to \in Thread \cup {"nowhere"}, PersonWrites(to) PROVE Addressed'
  <2>1. UNCHANGED main /\ listed' = listed /\ Adds(Fresh, Letter(to, "person", None, FALSE))
    BY <1>9 DEF PersonWrites
  <2>2. Fits(Letter(to, "person", None, FALSE))
    BY LettersAssumption DEF Letter, Fits, Place
  <2> QED
    BY <1>0, <2>1, <2>2, AddsFit, AddedFit
<1>10. ASSUME NEW k \in DOMAIN letter, IsRefused(k) PROVE Addressed'
  <2>1. UNCHANGED main /\ listed' = listed /\ Owner(k).does = "send"
    BY <1>10 DEF IsRefused
  <2>2. CASE letter[k].by = "loom"
    <3>1. DOMAIN letter' = DOMAIN letter
      BY <1>10, <2>2 DEF IsRefused
    <3> QED
      BY <1>0, <2>1, <3>1, AddedFit
  <2>3. CASE letter[k].by # "loom"
    <3>1. letter[k].to = "channel"
      BY <2>1 DEF Owner, Row, ClosedRow, OpenRow
    <3>2. letter[k].by \in Thread
      BY <2>3, <3>1 DEF Addressed, Fits, LettersOK, TypeOK, IsLetter
    <3>3. LivesOn(k, "refused", letter[k].by) /\ letter[k].by \in Place
      BY <1>10, <2>3, <3>2 DEF IsRefused, Place
    <3> QED
      BY <1>0, <2>1, <3>3, LivesOnFits, AddedFit
  <2> QED
    BY <2>2, <2>3
<1>11. ASSUME NEW t \in Thread, HomeFails(t) PROVE Addressed'
  <2>1. PICK large \in SUBSET LettersFor(t), usable \in BOOLEAN, refusal \in SUBSET {Fresh} :
          Fails(t, large, usable, refusal)
    BY <1>11 DEF HomeFails
  <2>2. UNCHANGED main /\ listed' = listed
    BY <1>11 DEF HomeFails
  <2>3. \A j \in DOMAIN letter' \ DOMAIN letter : Fits(letter'[j])
    BY <2>1, FailsFit DEF LettersOK
  <2> QED
    BY <1>0, <2>2, <2>3, AddedFit
<1>12. ASSUME NEW t \in Thread, TurnsBack(t) PROVE Addressed'
  <2>1. UNCHANGED main /\ listed' = listed
    BY <1>12 DEF TurnsBack
  <2>2. \A j \in DOMAIN letter' \ DOMAIN letter :
           \E x \in Thread : \E re : letter'[j] = Letter(x, "loom", re, FALSE)
    BY <1>12, LettersAssumption DEF TurnsBack, LettersFor
  <2>3. \A j \in DOMAIN letter' \ DOMAIN letter : Fits(letter'[j])
    <3> SUFFICES ASSUME NEW j \in DOMAIN letter' \ DOMAIN letter PROVE Fits(letter'[j])
      OBVIOUS
    <3>1. PICK x \in Thread : \E re : letter'[j] = Letter(x, "loom", re, FALSE)
      BY <2>2
    <3>2. PICK re : letter'[j] = Letter(x, "loom", re, FALSE)
      BY <3>1
    <3> QED
      BY <3>2, LoomFits DEF Place
  <2> QED
    BY <1>0, <2>1, <2>3, AddedFit
<1>13. ASSUME NEW t \in Thread, Ends(t) PROVE Addressed'
  <2>1. UNCHANGED main /\ listed' = listed
    BY <1>13 DEF Ends
  <2>2. CASE UNCHANGED letter
    BY <1>0, <2>1, <2>2, AddedFit
  <2>3. ASSUME NEW usable \in BOOLEAN, Fails(t, body[t].shown \cap LettersFor(t), usable, {})
        PROVE  Addressed'
    <3>1. \A j \in DOMAIN letter' \ DOMAIN letter : Fits(letter'[j])
      BY <2>3, FailsFit DEF LettersOK
    <3> QED
      BY <1>0, <2>1, <3>1, AddedFit
  <2> QED
    BY <1>13, <2>2, <2>3 DEF Ends
<1>14. CASE Loop
  BY <1>1, <1>2, <1>4, <1>5, <1>6, <1>14 DEF Loop
<1>15. CASE Body
  BY <1>2, <1>3, <1>7, <1>8, <1>15 DEF Body
<1>16. CASE Others
  BY <1>3, <1>6, <1>9, <1>10, <1>11, <1>12, <1>16 DEF Others
<1> QED
  BY <1>13, <1>14, <1>15, <1>16 DEF Next

\* A step adds finitely many letters.
LEMMA FewLetters ==
    ASSUME Grows, IsFiniteSet(DOMAIN letter)
    PROVE  IsFiniteSet(DOMAIN letter')
<1> DEFINE pairs == (DOMAIN letter) \X Kinds
           f == [p \in pairs |-> Under(p[1], p[2])]
           made == {f[p] : p \in pairs}
<1>1. IsFiniteSet(Kinds)
  <2>1. \A x : IsFiniteSet({x})
    BY FS_Singleton
  <2>2. IsFiniteSet({"climbed"} \cup {"unroutable"})
    BY <2>1, FS_Union
  <2>3. IsFiniteSet({"refused"} \cup {"undelivered"})
    BY <2>1, FS_Union
  <2>4. IsFiniteSet({"failed"} \cup {"bounce"})
    BY <2>1, FS_Union
  <2>5. IsFiniteSet(({"climbed"} \cup {"unroutable"}) \cup ({"refused"} \cup {"undelivered"}))
    BY <2>2, <2>3, FS_Union
  <2>6. IsFiniteSet((({"climbed"} \cup {"unroutable"}) \cup ({"refused"} \cup {"undelivered"}))
                    \cup ({"failed"} \cup {"bounce"}))
    BY <2>4, <2>5, FS_Union
  <2>7. Kinds = (({"climbed"} \cup {"unroutable"}) \cup ({"refused"} \cup {"undelivered"}))
                    \cup ({"failed"} \cup {"bounce"})
    BY DEF Kinds, Standing
  <2> QED
    BY <2>6, <2>7
<1>2. IsFiniteSet(pairs)
  BY <1>1, FS_Product
<1>3. f \in Surjection(pairs, made)
  <2>1. f \in [pairs -> made]
    OBVIOUS
  <2>2. \A y \in made : \E p \in pairs : f[p] = y
    OBVIOUS
  <2> HIDE DEF f, made, pairs
  <2> QED
    BY <2>1, <2>2 DEF Surjection
<1>4. \A i \in DOMAIN letter, k \in Kinds : Under(i, k) \in made
  <2> SUFFICES ASSUME NEW i \in DOMAIN letter, NEW k \in Kinds PROVE Under(i, k) \in made
    OBVIOUS
  <2>1. <<i, k>> \in pairs /\ <<i, k>>[1] = i /\ <<i, k>>[2] = k
    OBVIOUS
  <2>2. f[<<i, k>>] = Under(i, k)
    BY <2>1
  <2> QED
    BY <2>1, <2>2
<1> HIDE DEF f, made, pairs
<1>5. IsFiniteSet(made)
  BY <1>2, <1>3, FS_Surjection
<1>6. IsFiniteSet(((DOMAIN letter) \cup made) \cup {Fresh})
  BY <1>5, FS_Union, FS_AddElement
<1>7. \A j \in DOMAIN letter' \ DOMAIN letter : j = Fresh \/ j \in made
  BY <1>4 DEF Grows, Comes
<1>8. DOMAIN letter' \subseteq ((DOMAIN letter) \cup made) \cup {Fresh}
  BY <1>7
<1> QED
  BY <1>6, <1>8, FS_Subset

\* What the projection is given to read again, it reads.
LEMMA CarriedHas ==
    ASSUME IsFiniteSet(DOMAIN letter), NEW dirty \in SUBSET DOMAIN letter
    PROVE  dirty \subseteq Carried(dirty)
<1> DEFINE N == Cardinality(DOMAIN letter)
           S == SUBSET DOMAIN letter
           Next1(last) == last \cup {j \in DOMAIN letter : \E i \in last : Linked(i, j)}
           G == [k \in 1 .. N |-> [last \in S |-> Next1(last)]]
           Row1(k, more) == IF k = 0 THEN dirty ELSE Next1(more[k - 1])
           Steps(more) == more = [k \in 0 .. N |-> Row1(k, more)]
<1>1. N \in Nat
  BY FS_CardinalityType
<1> HIDE DEF N
<1>2. dirty \in S /\ \A last \in S : Next1(last) \in S
  OBVIOUS
<1>3. PICK f : Computed(f, S, N, dirty, G)
  <2>1. StepsOn(S, N, dirty, G)
    <3> HIDE DEF S, Next1
    <3> QED
      BY <1>1, <1>2 DEF StepsOn
  <2> HIDE DEF S, G
  <2> QED
    BY <2>1, Recursion
<1>4. Steps(f)
  <2>1. ASSUME NEW k \in 0 .. N PROVE f[k] = Row1(k, f)
    <3>1. CASE k = 0
      BY <1>3, <3>1 DEF Computed
    <3>2. CASE k # 0
      <4>1. k \in 1 .. N /\ k - 1 \in 0 .. N
        BY <1>1, <3>2
      <4>2. f[k - 1] \in S /\ f[k] = G[k][f[k - 1]]
        <5> HIDE DEF S, G
        <5> QED
          BY <1>3, <4>1 DEF Computed
      <4> HIDE DEF S, Next1
      <4> QED
        BY <3>2, <4>1, <4>2
    <3> QED
      BY <3>1, <3>2
  <2> HIDE DEF Row1, S, G
  <2>2. f = [k \in 0 .. N |-> f[k]]
    BY <1>3 DEF Computed
  <2> QED
    BY <2>1, <2>2
<1> DEFINE more == CHOOSE g : Steps(g)
<1>5. Steps(more)
  <2> HIDE DEF Steps
  <2> QED
    BY <1>4
<1>6. Carried(dirty) = more[N]
  BY DEF Carried, N
<1> HIDE DEF more
<1>7. \A k \in 0 .. N : more[k] = Row1(k, more)
  <2> HIDE DEF Row1
  <2> QED
    BY <1>5
<1> DEFINE P == {k \in 0 .. N : dirty \subseteq more[k]}
<1>8. 0 \in P
  <2>1. 0 \in 0 .. N
    BY <1>1
  <2> QED
    BY <1>7, <2>1
<1>9. ASSUME NEW k \in 1 .. N, k - 1 \in P PROVE k \in P
  <2>1. k \in 0 .. N /\ k # 0
    BY <1>1
  <2>2. more[k] = Next1(more[k - 1])
    BY <1>7, <2>1
  <2> QED
    BY <1>9, <2>1, <2>2
<1>10. N \in P
  <2> HIDE DEF P
  <2>1. \A k \in 0 .. N : k \in P
    BY <1>1, <1>8, <1>9, Counting
  <2> QED
    BY <1>1, <2>1
<1> QED
  BY <1>6, <1>10

\* The line of a thread, a step at a time.
LEMMA LineIs ==
    ASSUME NEW t \in Thread
    PROVE  \E line :
             /\ Line(t) = line[Cardinality(Thread)] /\ line[0] = {t}
             /\ \A k \in 0 .. Cardinality(Thread) : line[k] \subseteq Thread
             /\ \A k \in 1 .. Cardinality(Thread) :
                   line[k] = line[k - 1] \cup ({Opener[u] : u \in line[k - 1]} \cap Thread)
<1> DEFINE N == Cardinality(Thread)
           S == SUBSET Thread
           Next1(last) == last \cup ({Opener[u] : u \in last} \cap Thread)
           G == [k \in 1 .. N |-> [last \in S |-> Next1(last)]]
           Row1(k, up) == IF k = 0 THEN {t} \cap Thread ELSE Next1(up[k - 1])
           Steps(up) == up = [k \in 0 .. N |-> Row1(k, up)]
<1>1. N \in Nat
  BY LettersAssumption, FS_CardinalityType
<1> HIDE DEF N
<1>2. {t} \in S /\ {t} \cap Thread = {t} /\ \A last \in S : Next1(last) \in S
  OBVIOUS
<1>3. PICK f : Computed(f, S, N, {t}, G)
  <2>1. StepsOn(S, N, {t}, G)
    <3> HIDE DEF S, Next1
    <3> QED
      BY <1>1, <1>2 DEF StepsOn
  <2> HIDE DEF S, G
  <2> QED
    BY <2>1, Recursion
<1>4. Steps(f)
  <2>1. ASSUME NEW k \in 0 .. N PROVE f[k] = Row1(k, f)
    <3>1. CASE k = 0
      BY <1>2, <1>3, <3>1 DEF Computed
    <3>2. CASE k # 0
      <4>1. k \in 1 .. N /\ k - 1 \in 0 .. N
        BY <1>1, <3>2
      <4>2. f[k - 1] \in S /\ f[k] = G[k][f[k - 1]]
        <5> HIDE DEF S, G
        <5> QED
          BY <1>3, <4>1 DEF Computed
      <4> HIDE DEF S, Next1
      <4> QED
        BY <3>2, <4>1, <4>2
    <3> QED
      BY <3>1, <3>2
  <2> HIDE DEF Row1, S, G
  <2>2. f = [k \in 0 .. N |-> f[k]]
    BY <1>3 DEF Computed
  <2> QED
    BY <2>1, <2>2
<1> DEFINE up == CHOOSE g : Steps(g)
<1>5. Steps(up)
  <2> HIDE DEF Steps
  <2> QED
    BY <1>4
<1>6. Line(t) = up[N]
  BY DEF Line, N
<1> HIDE DEF up
<1>7. \A k \in 0 .. N : up[k] = Row1(k, up)
  <2> HIDE DEF Row1
  <2> QED
    BY <1>5
<1>8. up[0] = {t}
  <2>1. 0 \in 0 .. N
    BY <1>1
  <2> QED
    BY <1>2, <1>7, <2>1
<1>9. \A k \in 1 .. N : up[k] = Next1(up[k - 1])
  <2>1. \A k \in 1 .. N : k \in 0 .. N /\ k # 0
    BY <1>1
  <2> HIDE DEF Next1
  <2> QED
    BY <1>7, <2>1
<1> DEFINE P == {k \in 0 .. N : up[k] \in S}
<1>10. 0 \in P
  <2>1. 0 \in 0 .. N
    BY <1>1
  <2> QED
    BY <1>8, <2>1
<1>11. ASSUME NEW k \in 1 .. N, k - 1 \in P PROVE k \in P
  <2>1. k \in 0 .. N
    BY <1>1
  <2> HIDE DEF S, Next1
  <2> QED
    BY <1>2, <1>9, <1>11, <2>1
<1>12. \A k \in 0 .. N : k \in P
  <2> HIDE DEF P
  <2> QED
    BY <1>1, <1>10, <1>11, Counting
<1> QED
  BY <1>6, <1>8, <1>9, <1>12 DEF N

\* Whether a thread has an open one above it is up to its line.
LEMMA AboveByLine ==
    ASSUME NEW t \in Thread, \A u \in Line(t) : main'[u] = main[u]
    PROVE  OpenAbove(t)' = OpenAbove(t)
<1> DEFINE N == Cardinality(Thread)
<1>1. N \in Nat
  BY LettersAssumption, FS_CardinalityType
<1>2. PICK line :
        /\ Line(t) = line[N] /\ line[0] = {t}
        /\ \A k \in 0 .. N : line[k] \subseteq Thread
        /\ \A k \in 1 .. N :
              line[k] = line[k - 1] \cup ({Opener[u] : u \in line[k - 1]} \cap Thread)
  BY LineIs
<1>3. PICK before : WalkIn(main, before) /\ AboveIn(main, t) = before[N][t]
  BY WalkIs
<1>4. PICK after : WalkIn(main', after) /\ AboveIn(main', t) = after[N][t]
  BY WalkIs
<1> DEFINE Q == {j \in 0 .. N : line[N - j] \subseteq line[N]}
           P == {j \in 0 .. N : \A u \in line[N - j] : before[j][u] = after[j][u]}
<1>5. ASSUME NEW j \in 1 .. N
      PROVE  /\ j \in 0 .. N /\ j - 1 \in 0 .. N
             /\ N - j \in 0 .. N /\ N - (j - 1) \in 1 .. N /\ N - (j - 1) - 1 = N - j
  BY <1>1
<1>6. \A j \in 0 .. N : line[N - j] \subseteq line[N]
  <2>1. 0 \in Q
    BY <1>1
  <2>2. ASSUME NEW j \in 1 .. N, j - 1 \in Q PROVE j \in Q
    <3>1. line[N - j] \subseteq line[N - (j - 1)]
      <4> HIDE DEF N
      <4>1. line[N - (j - 1)] = line[N - (j - 1) - 1] \cup
               ({Opener[u] : u \in line[N - (j - 1) - 1]} \cap Thread)
        BY <1>2, <1>5
      <4> QED
        BY <1>5, <4>1
    <3> QED
      BY <1>5, <2>2, <3>1
  <2>3. \A j \in 0 .. N : j \in Q
    <3> HIDE DEF Q, N
    <3> QED
      BY <1>1, <2>1, <2>2, Counting
  <2> QED
    BY <2>3
<1>7. 0 \in P
  <2>1. 0 \in 0 .. N /\ N - 0 \in 0 .. N
    BY <1>1
  <2>2. \A u \in line[N - 0] : before[0][u] = after[0][u]
    BY <1>2, <1>3, <1>4, <2>1 DEF WalkIn
  <2> QED
    BY <2>1, <2>2
<1>8. ASSUME NEW j \in 1 .. N, j - 1 \in P PROVE j \in P
  <2> SUFFICES ASSUME NEW u \in line[N - j] PROVE before[j][u] = after[j][u]
    BY <1>5
  <2>1. u \in Thread /\ main'[u] = main[u]
    <3> HIDE DEF N
    <3> QED
      BY <1>2, <1>5, <1>6
  <2>2. Opener[u] = "person" \/ Opener[u] \in line[N - (j - 1)]
    <3>1. Opener[u] \in Thread \cup {"person"}
      BY <2>1, LettersAssumption
    <3> HIDE DEF N
    <3>2. line[N - (j - 1)] = line[N - (j - 1) - 1] \cup
             ({Opener[v] : v \in line[N - (j - 1) - 1]} \cap Thread)
      BY <1>2, <1>5
    <3> QED
      BY <1>5, <3>1, <3>2
  <2>3. Opener[u] = "person" \/ before[j - 1][Opener[u]] = after[j - 1][Opener[u]]
    <3> HIDE DEF N
    <3> QED
      BY <1>8, <2>2
  <2>4. /\ before[j][u] = IF main[u] = "open" THEN u
                          ELSE IF Opener[u] = "person" THEN "person"
                          ELSE before[j - 1][Opener[u]]
        /\ after[j][u] = IF main'[u] = "open" THEN u
                         ELSE IF Opener[u] = "person" THEN "person"
                         ELSE after[j - 1][Opener[u]]
    BY <1>3, <1>4, <2>1 DEF WalkIn
  <2> QED
    BY <2>1, <2>3, <2>4
<1>9. N \in P
  <2> HIDE DEF P, N
  <2>1. \A j \in 0 .. N : j \in P
    BY <1>1, <1>7, <1>8, Counting
  <2> QED
    BY <1>1, <2>1
<1>10. before[N][t] = after[N][t]
  <2>1. N - N = 0 /\ t \in line[0]
    BY <1>1, <1>2
  <2> HIDE DEF N
  <2> QED
    BY <1>9, <2>1
<1>11. OpenAbove(t) = AboveIn(main, t) /\ OpenAbove(t)' = AboveIn(main', t)
  BY DEF OpenAbove, AboveIn
<1> QED
  BY <1>3, <1>4, <1>10, <1>11

\* A thread is in its own line.
LEMMA InItsLine ==
    ASSUME NEW t \in Thread
    PROVE  t \in Line(t)
<1> DEFINE N == Cardinality(Thread)
<1>1. N \in Nat
  BY LettersAssumption, FS_CardinalityType
<1>2. PICK line :
        /\ Line(t) = line[N] /\ line[0] = {t}
        /\ \A k \in 0 .. N : line[k] \subseteq Thread
        /\ \A k \in 1 .. N :
              line[k] = line[k - 1] \cup ({Opener[u] : u \in line[k - 1]} \cap Thread)
  BY LineIs
<1> DEFINE P == {k \in 0 .. N : t \in line[k]}
<1>3. 0 \in P
  BY <1>1, <1>2
<1>4. ASSUME NEW k \in 1 .. N, k - 1 \in P PROVE k \in P
  <2>1. k \in 0 .. N
    BY <1>1
  <2> HIDE DEF N
  <2> QED
    BY <1>2, <1>4, <2>1
<1> HIDE DEF P, N
<1>5. \A k \in 0 .. N : k \in P
  BY <1>1, <1>3, <1>4, Counting
<1> QED
  BY <1>1, <1>2, <1>5 DEF P

\* Main is edited apart from the rest.
LEMMA EditsApart ==
    ASSUME Next
    PROVE  UNCHANGED main \/ UNCHANGED <<letter, word, sent, seen, body>>
<1>1. CASE Loop
  BY <1>1 DEF Loop, TellsClosing, Grants, Starts, EndsUnstarted, Lists, Moves, Speaks, ComesDue
<1>2. CASE Body
  BY <1>2 DEF Body, Boundary, Notes, Answers, Writes, Settles, Closes
<1>3. CASE Others
  BY <1>3 DEF Others, PersonWrites, PersonNotes, IsRefused, PersonCloses, Closes, Reopens,
     HomeFails, TurnsBack
<1>4. ASSUME NEW t \in Thread, Ends(t) PROVE UNCHANGED main
  BY <1>4 DEF Ends
<1> QED
  BY <1>1, <1>2, <1>3, <1>4 DEF Next

\* The row of a letter to thread u, where last is the row that the thread's
\* own state gives.
LastRow(i, u, last) ==
  IF Handled(i) \/ i \in sent \/ Informed(i) THEN Row("nobody", u, "")
  ELSE IF letter[i].fate = "operator" THEN Row("operator", u, "note")
  ELSE IF letter[i].waits THEN Row("clock", u, "wait")
  ELSE IF u = "channel" THEN Row("channel", u, "send")
  ELSE IF AwaitsReceipt(i) THEN Row("channel", u, "receipt")
  ELSE IF SettledWorker(i) THEN Row("nobody", u, "")
  ELSE IF u = "nowhere" THEN Row("loom", u, "unroutable")
  ELSE last

\* An edit of main changes no row of a letter whose thread has none of the
\* edited threads in its line, and whose writer sits on none.
LEMMA EditsTouch ==
    ASSUME Addressed, UNCHANGED <<letter, word, sent, seen, body>>,
           NEW i \in DOMAIN letter,
           i \notin TouchedByMain({t \in Thread : main[t] # main'[t]})
    PROVE  Owner(i)' = Owner(i)
<1> DEFINE t == letter[i].to
           changed == {u \in Thread : main[u] # main'[u]}
<1>1. Line(t) \cap changed = {} /\ letter[i].by \notin changed
  BY DEF TouchedByMain
<1>2. /\ Handled(i)' = Handled(i) /\ (i \in sent') = (i \in sent)
      /\ Informed(i)' = Informed(i) /\ letter' = letter
  BY DEF Handled, Informed
<1>3. AwaitsReceipt(i)' = AwaitsReceipt(i)
  BY DEF AwaitsReceipt, Reply, Replies
<1>4. SettledWorker(i)' = SettledWorker(i)
  BY <1>1 DEF SettledWorker
<1>5. ASSUME NEW u \in Thread, Line(u) \cap changed = {}
      PROVE  main'[u] = main[u] /\ ClosedRow(i, u)' = ClosedRow(i, u) /\ OpenRow(u)' = OpenRow(u)
  <2>1. u \in Line(u)
    BY InItsLine
  <2>2. \A v \in Line(u) : main'[v] = main[v]
    <3>1. PICK line :
            /\ Line(u) = line[Cardinality(Thread)]
            /\ \A k \in 0 .. Cardinality(Thread) : line[k] \subseteq Thread
      BY LineIs
    <3>2. Cardinality(Thread) \in 0 .. Cardinality(Thread)
      BY LettersAssumption, FS_CardinalityType
    <3> QED
      BY <1>5, <3>1, <3>2
  <2>3. OpenAbove(u)' = OpenAbove(u)
    BY <2>2, AboveByLine
  <2> QED
    BY <2>1, <2>2, <2>3 DEF ClosedRow, OpenRow, Row
<1>6. t \in Thread \/ t = "channel" \/ t = "nowhere"
  BY DEF Addressed, Fits, Place
<1>7. CASE t \notin Thread
  <2>1. letter[i].to = "channel" \/ letter[i].to = "nowhere"
    BY <1>6, <1>7
  <2> QED
    BY <1>2, <1>3, <1>4, <2>1 DEF Owner, Row
<1>8. CASE t \in Thread
  <2>1. PICK u \in Thread : u = letter[i].to
    BY <1>8
  <2>2. main'[u] = main[u] /\ ClosedRow(i, u)' = ClosedRow(i, u) /\ OpenRow(u)' = OpenRow(u)
    BY <1>1, <1>5, <2>1
  <2>3. letter'[i].to = u
    BY <1>2, <2>1
  <2>4. Owner(i) = IF main[u] = "closed" THEN LastRow(i, u, ClosedRow(i, u))
                   ELSE LastRow(i, u, OpenRow(u))
    BY <2>1 DEF Owner, LastRow
  <2>5. Owner(i)' = IF main'[u] = "closed" THEN LastRow(i, u, ClosedRow(i, u))'
                    ELSE LastRow(i, u, OpenRow(u))'
    BY <2>3 DEF Owner, LastRow
  <2>6. /\ LastRow(i, u, ClosedRow(i, u))' = LastRow(i, u, ClosedRow(i, u))
        /\ LastRow(i, u, OpenRow(u))' = LastRow(i, u, OpenRow(u))
    BY <1>2, <1>3, <1>4, <2>2 DEF LastRow
  <2> QED
    BY <2>2, <2>4, <2>5, <2>6
<1> QED
  BY <1>7, <1>8
-----------------------------------------------------------------------------
(* What is read again *)

RInv == IInv /\ Addressed /\ IsFiniteSet(DOMAIN letter)

LEMMA RInvariance == Spec => []RInv
<1>1. Init => RInv
  <2> SUFFICES ASSUME Init PROVE Addressed /\ IsFiniteSet(DOMAIN letter) /\ IInv
    BY DEF RInv
  <2>1. DOMAIN letter = {} /\ listed = {} /\ Based = {} /\ sent = {}
    BY DEF Init, Based
  <2>2. IsFiniteSet(DOMAIN letter) /\ IsFiniteSet(Based)
    BY <2>1, FS_EmptySet
  <2>3. Addressed
    BY <2>1 DEF Init, Addressed
  <2>4. IInv
    BY <2>1, <2>2 DEF IInv, LettersOK, TypeOK, Numbered, Chains, Causes, Spent, Loomed, Written
  <2> QED
    BY <2>2, <2>3, <2>4
<1>2. ASSUME RInv, [Next]_vars PROVE RInv'
  <2>1. Advances /\ IInv'
    BY <1>2, StepAdvances DEF RInv
  <2>2. IsFiniteSet(DOMAIN letter')
    BY <1>2, <2>1, FewLetters DEF RInv, Advances
  <2>3. Addressed'
    <3>1. CASE Next
      BY <1>2, <3>1, StepFits DEF RInv
    <3>2. CASE UNCHANGED vars
      BY <1>2, <3>2 DEF RInv, Addressed, vars
    <3> QED
      BY <1>2, <3>1, <3>2
  <2> QED
    BY <2>1, <2>2, <2>3 DEF RInv
<1> QED
  BY <1>1, <1>2, PTL DEF Spec

\* Without an edit of main, a row that changed was of a letter somebody owed.
LEMMA MovedIsActive ==
    ASSUME IInv, [Next]_vars, \A t \in Thread : main[t] = main'[t],
           NEW i \in DOMAIN letter, Owner(i) # Owner(i)'
    PROVE  i \in Active
<1> SUFFICES ASSUME Owner(i).who = "nobody" PROVE FALSE
  BY DEF Active
<1>1. Owner(i)'.who = "nobody"
  BY StaysDone
<1>2. letter'[i].to = letter[i].to
  BY StepAdvances DEF Advances, Grows, Goes
<1>3. Owner(i) = Row("nobody", letter[i].to, "")
  <2>1. \A t : ClosedRow(i, t).who # "nobody" /\ OpenRow(t).who # "nobody"
    BY DEF ClosedRow, OpenRow, Row
  <2> QED
    BY <2>1 DEF Owner, Row
<1>4. Owner(i)' = Row("nobody", letter'[i].to, "")
  <2>1. \A t : ClosedRow(i, t)'.who # "nobody" /\ OpenRow(t)'.who # "nobody"
    BY DEF ClosedRow, OpenRow, Row
  <2> QED
    BY <1>1, <2>1 DEF Owner, Row
<1> QED
  BY <1>2, <1>3, <1>4

\* The rows that a step changes are among those the projection reads again, so
\* what it holds is what a replay from nothing gives (OwnerProjection.read).
THEOREM ReadsAreEnough == Spec => ReadsEnough
<1> DEFINE changed == {t \in Thread : main[t] # main'[t]}
           moved == {i \in DOMAIN letter : Owner(i) # Owner(i)'}
<1>1. ASSUME RInv, [Next]_vars PROVE \A i \in moved : i \in ReadAgain(changed)
  <2> SUFFICES ASSUME NEW i \in DOMAIN letter, Owner(i) # Owner(i)'
               PROVE  i \in ReadAgain(changed)
    OBVIOUS
  <2>1. CASE changed = {}
    <3>1. i \in Active
      BY <1>1, <2>1, MovedIsActive DEF RInv
    <3>2. Active \subseteq Carried(Active)
      BY <1>1, CarriedHas DEF RInv, Active
    <3> QED
      BY <2>1, <3>1, <3>2 DEF ReadAgain
  <2>2. CASE changed # {}
    <3>1. UNCHANGED <<letter, word, sent, seen, body>>
      BY <1>1, <2>2, EditsApart DEF vars
    <3>2. i \in TouchedByMain(changed)
      BY <1>1, <3>1, EditsTouch DEF RInv
    <3>3. TouchedByMain(changed) \subseteq Carried(TouchedByMain(changed))
      BY <1>1, CarriedHas DEF RInv, TouchedByMain
    <3> QED
      BY <2>2, <3>2, <3>3 DEF ReadAgain
  <2> QED
    BY <2>1, <2>2
<1>2. RInv /\ [Next]_vars
        => (LET m == {i \in DOMAIN letter : Owner(i) # Owner(i)'}
                again == ReadAgain({t \in Thread : main[t] # main'[t]})
            IN \A i \in m : i \in again)
  BY <1>1
<1> QED
  BY <1>2, RInvariance, PTL DEF Spec, ReadsEnough

=============================================================================
