----------------------------- MODULE IngestProofs -----------------------------
(***************************************************************************)
(* What is on record stays, whoever writes, dies in the middle of a line,  *)
(* heals a torn tail or reads at any moment: for any files, widths of      *)
(* lines and number of deaths.                                             *)
(*                                                                         *)
(* The argument is about bytes.  Every step leaves the complete lines of   *)
(* a stream at the head of it (Keeps), so the offsets that the writers'    *)
(* index and the readers' cursors remember stay ends of lines (LineEnd),   *)
(* and reading on from one is reading the rest.                            *)
(***************************************************************************)
EXTENDS Ingest, SequenceTheorems, WellFoundedInduction, TLAPS

-----------------------------------------------------------------------------
(* Bytes *)

Bytes == Seq(Byte)

\* b is the head of c.
Heads(b, c) == Len(b) <= Len(c) /\ \A i \in 1 .. Len(b) : b[i] = c[i]

LineEnd(b, k) == k = 0 \/ k \in Ends(b)

\* What any step does to a stream: its complete lines stay at the head of it.
Keeps(b, c) == Heads(Complete(b), c)

\* The line that a writer is at: so much of it is in the file, the rest is
\* still to come.
Torn(b, f, rest) ==
    LET torn == (Width[f.id] + 1) - Len(rest)
    IN  /\ Len(rest) \in 1 .. Width[f.id] + 1
        /\ \A i \in 1 .. Len(rest) : rest[i] = IF i = Len(rest) THEN NL ELSE f
        /\ torn <= Len(b) /\ LineEnd(b, Len(b) - torn)
        /\ \A i \in (Len(b) - torn) + 1 .. Len(b) : b[i] = f

\* What a process carries from append to append.
Indexed(b, ix) ==
    /\ LineEnd(b, ix.off)
    /\ ix.facts \subseteq Facts(b)
    /\ \A e \in Ends(b) : e <= ix.off => Parsed(b, e) \in ix.facts \cup {NoFact}

-----------------------------------------------------------------------------
(* The invariant *)

OutboxOK ==
    /\ temps \subseteq File /\ out \subseteq File
    /\ dropped \subseteq File /\ rejected \subseteq File
    /\ fresh \in BOOLEAN /\ cached \in BOOLEAN /\ rgen \in Gen
    /\ job \in [todo : SUBSET File, at : File \cup {Verb}, same : BOOLEAN]

WritingOK ==
    /\ pc \in [Writer -> {"idle", "stat", "empty", "files", "lock", "write",
                          "unlink", "reject", "done"}]
    /\ pc["verb"] \in {"lock", "write", "done"}
    /\ line \in [Writer -> [fact : Fact, rest : Bytes]]
    /\ index \in [known : BOOLEAN, size : Nat, off : Nat, facts : SUBSET Fact]

ReadingOK ==
    /\ file \in [Site -> Bytes] /\ ref \in Bytes /\ tree \in Bytes
    /\ view \in [Site -> SUBSET Fact] /\ stale \in [Site -> BOOLEAN]
    /\ cursor \in [Site -> [known : BOOLEAN, size : Nat, off : Nat, tail : Bytes,
                            busy : BOOLEAN, from : Nat]]

\* What travels is the head of what is there.
Copied ==
    /\ Heads(file["there"], tree)
    /\ Heads(tree, ref)
    /\ Heads(ref, Complete(file["here"]))

\* A reader is at the end of a line and holds what is on record.
Readers ==
    \A s \in Site :
        /\ view[s] \subseteq Facts(file[s])
        /\ LineEnd(file[s], cursor[s].off)
        /\ LineEnd(file[s], cursor[s].from)

\* Who writes has the lock, and its fact is not on record.
Writers ==
    \A w \in Writer :
        pc[w] = "write" => /\ lock = w
                           /\ Torn(file["here"], line[w].fact, line[w].rest)
                           /\ line[w].fact.id \notin Ids(file["here"])

\* The file at hand is the one whose fact is written, and is unlinked last.
AtHand ==
    /\ pc["loop"] \in {"lock", "write", "unlink"} => line["loop"].fact.id = job.at
    /\ pc["loop"] \in {"lock", "write", "unlink", "reject"} => job.at \in File
    /\ pc["loop"] = "unlink" => job.at \in Ids(file["here"])

Streams == Copied /\ Readers /\ Indexed(file["here"], index) /\ Writers

IInv == OutboxOK /\ WritingOK /\ ReadingOK /\ Streams /\ AtHand /\ NothingLost

-----------------------------------------------------------------------------
(* Facts of bytes *)

\* A fact is neither a newline nor nothing.
LEMMA FactIs ==
    ASSUME NEW f \in Fact
    PROVE  /\ f # NL /\ f # NoFact /\ f.id # "none" /\ f.id \in File \cup {Verb}
           /\ Width[f.id] \in Nat /\ Width[f.id] >= 1 /\ f \in Byte
  BY IngestAssumption DEF Fact, NL, NoFact, Byte

\* A bounded set of numbers has a greatest.
LEMMA MaxIs ==
    ASSUME NEW S \in SUBSET Nat, S # {}, NEW c \in Nat, \A x \in S : x <= c
    PROVE  Max(S) \in S /\ \A x \in S : x <= Max(S)
<1> DEFINE T == {c - x : x \in S}
<1>1. T \subseteq Nat /\ T # {}
  OBVIOUS
<1>2. PICK m \in T : \A y \in T : ~(<<y, m>> \in OpToRel(<, Nat))
  BY <1>1, NatLessThanWellFounded, WFMin
<1>3. \A y \in T : ~(y < m)
  BY <1>1, <1>2 DEF OpToRel
<1>4. PICK k \in S : m = c - k
  BY <1>2
<1>5. \A x \in S : ~(c - x < c - k)
  BY <1>3, <1>4
<1>6. ASSUME NEW x \in S PROVE k >= x
  <2>1. x \in Nat /\ k \in Nat /\ ~(c - x < c - k)
    BY <1>5
  <2> QED
    BY <2>1
<1>7. \E x \in S : \A y \in S : x >= y
  BY <1>6
<1> QED
  BY <1>7 DEF Max

\* What a line that ends at e is parsed to.
LEMMA ParsedIs ==
    ASSUME NEW b, NEW e, NEW f, f = b[e - 1], NEW w, w = Width[f.id]
    PROVE  /\ ~(e > 1) \/ f = NL => Parsed(b, e) = NoFact
           /\ e > 1 /\ f # NL =>
                Parsed(b, e) = IF /\ e - w >= 1
                                  /\ \A i \in e - w .. e - 1 : b[i] = f
                                  /\ e - w = 1 \/ b[e - w - 1] = NL
                               THEN f ELSE NoFact
  BY DEF Parsed

\* The lines at the head of a stream are lines of the stream.
LEMMA HeadsLines ==
    ASSUME NEW b \in Bytes, NEW c \in Bytes, Heads(b, c)
    PROVE  /\ Ends(b) \subseteq Ends(c)
           /\ \A e \in Ends(b) : Parsed(c, e) = Parsed(b, e)
           /\ Facts(b) \subseteq Facts(c)
           /\ \A k : LineEnd(b, k) => LineEnd(c, k)
<1>1. Len(b) \in Nat /\ Len(c) \in Nat /\ DOMAIN b = 1 .. Len(b) /\ DOMAIN c = 1 .. Len(c)
  BY DEF Bytes
<1>2. Ends(b) \subseteq Ends(c)
  BY <1>1 DEF Ends, Heads
<1>3. ASSUME NEW e \in Ends(b) PROVE Parsed(c, e) = Parsed(b, e)
  <2>1. e \in 1 .. Len(b) /\ \A i \in 1 .. e : b[i] = c[i]
    BY <1>1 DEF Ends, Heads
  <2>2. CASE e = 1
    BY <2>2 DEF Parsed
  <2>3. CASE e > 1
    <3>1. b[e - 1] = c[e - 1]
      BY <1>1, <2>1, <2>3
    <3>2. CASE b[e - 1] = NL
      BY <3>1, <3>2 DEF Parsed
    <3>3. CASE b[e - 1] # NL
      <4>1. b[e - 1] \in Fact
        BY <1>1, <2>1, <2>3, <3>3 DEF Bytes, Byte
      <4> DEFINE s == e - Width[b[e - 1].id]
      <4>2. s \in Int /\ s <= e - 1
        BY <1>1, <2>1, <4>1, FactIs
      <4>3. s >= 1 => /\ \A i \in s .. e - 1 : b[i] = c[i]
                      /\ s # 1 => b[s - 1] = c[s - 1]
        BY <1>1, <2>1, <4>2
      <4> HIDE DEF s
      <4>4. (s >= 1 /\ (\A i \in s .. e - 1 : b[i] = b[e - 1]) /\ (s = 1 \/ b[s - 1] = NL))
            <=> (s >= 1 /\ (\A i \in s .. e - 1 : c[i] = c[e - 1]) /\ (s = 1 \/ c[s - 1] = NL))
        BY <3>1, <4>3
      <4> QED
        BY <3>1, <3>3, <4>4 DEF Parsed, s
    <3> QED
      BY <3>2, <3>3
  <2> QED
    BY <1>1, <2>1, <2>2, <2>3
<1>4. \A e \in Ends(b) : Lines(b)[e] = Parsed(b, e)
  BY DEF Lines
<1>5. \A e \in Ends(c) : Lines(c)[e] = Parsed(c, e)
  BY DEF Lines
<1> QED
  BY <1>2, <1>3, <1>4, <1>5 DEF Facts, LineEnd

\* What is on record, line by line.
LEMMA FactsAre ==
    ASSUME NEW b
    PROVE  Facts(b) = {Parsed(b, e) : e \in Ends(b)} \ {NoFact}
  BY DEF Facts, Lines

\* The complete lines are the head of a stream that ends with its last line.
LEMMA CompleteIs ==
    ASSUME NEW b \in Bytes
    PROVE  /\ Complete(b) \in Bytes /\ Heads(Complete(b), b)
           /\ Ends(Complete(b)) = Ends(b) /\ Facts(Complete(b)) = Facts(b)
           /\ LineEnd(b, Len(Complete(b))) /\ LineEnd(Complete(b), Len(Complete(b)))
           /\ \A k : LineEnd(b, k) => LineEnd(Complete(b), k) /\ k <= Len(Complete(b))
<1> DEFINE S == {0} \cup Ends(b)
           m == Max(S)
<1>1. Len(b) \in Nat /\ DOMAIN b = 1 .. Len(b) /\ Ends(b) \subseteq 1 .. Len(b)
  BY DEF Bytes, Ends
<1>2. S \in SUBSET Nat /\ S # {} /\ \A x \in S : x <= Len(b)
  BY <1>1
<1>3. m \in S /\ \A x \in S : x <= m
  BY <1>1, <1>2, MaxIs
<1> HIDE DEF m
<1>4. m \in 0 .. Len(b) /\ LineEnd(b, m) /\ \A e \in Ends(b) : e <= m
  BY <1>1, <1>3 DEF LineEnd
<1>5. /\ Complete(b) \in Bytes /\ Len(Complete(b)) = m
      /\ \A i \in 1 .. m : Complete(b)[i] = b[i]
  <2>1. Complete(b) = SubSeq(b, 1, m)
    BY DEF Complete, m
  <2> QED
    BY <1>1, <1>4, <2>1 DEF Bytes
<1>6. Heads(Complete(b), b)
  BY <1>4, <1>5 DEF Heads
<1>7. Ends(Complete(b)) = Ends(b)
  <2>1. DOMAIN Complete(b) = 1 .. m
    BY <1>5 DEF Bytes
  <2> QED
    BY <1>1, <1>4, <1>5, <2>1 DEF Ends
<1>8. Facts(Complete(b)) = Facts(b)
  <2>1. \A e \in Ends(b) : Parsed(Complete(b), e) = Parsed(b, e)
    BY <1>5, <1>6, <1>7, HeadsLines
  <2> QED
    BY <1>7, <2>1, FactsAre
<1> QED
  BY <1>1, <1>4, <1>5, <1>6, <1>7, <1>8 DEF LineEnd

\* What a step that keeps the complete lines leaves true of a stream.
LEMMA KeepsLines ==
    ASSUME NEW b \in Bytes, NEW c \in Bytes, Keeps(b, c)
    PROVE  /\ Facts(b) \subseteq Facts(c)
           /\ Heads(Complete(b), Complete(c))
           /\ \A k : LineEnd(b, k) =>
                /\ LineEnd(c, k)
                /\ \A e \in Ends(c) : e <= k => e \in Ends(b) /\ Parsed(c, e) = Parsed(b, e)
<1> DEFINE d == Complete(b)
<1>1. /\ d \in Bytes /\ Heads(d, c) /\ Facts(d) = Facts(b) /\ LineEnd(d, Len(d))
      /\ Ends(d) = Ends(b)
      /\ \A k : LineEnd(b, k) => LineEnd(d, k) /\ k <= Len(d)
      /\ Heads(d, b)
  BY CompleteIs DEF Keeps
<1> HIDE DEF d
<1>2. Facts(b) \subseteq Facts(c)
  BY <1>1, HeadsLines
<1>3. Len(d) \in Nat /\ Len(c) \in Nat /\ DOMAIN d = 1 .. Len(d) /\ DOMAIN c = 1 .. Len(c)
      /\ Len(b) \in Nat /\ DOMAIN b = 1 .. Len(b)
  BY <1>1 DEF Bytes
<1>4. Heads(d, Complete(c))
  <2>1. LineEnd(c, Len(d))
    BY <1>1, HeadsLines
  <2>2. /\ Complete(c) \in Bytes /\ Heads(Complete(c), c) /\ Len(d) <= Len(Complete(c))
    BY <2>1, CompleteIs
  <2>3. Len(Complete(c)) \in Nat
    BY <2>2 DEF Bytes
  <2> QED
    BY <1>1, <1>3, <2>2, <2>3 DEF Heads
<1>5. ASSUME NEW k, LineEnd(b, k)
      PROVE  /\ LineEnd(c, k)
             /\ \A e \in Ends(c) : e <= k => e \in Ends(b) /\ Parsed(c, e) = Parsed(b, e)
  <2>1. LineEnd(d, k) /\ k <= Len(d) /\ LineEnd(c, k) /\ k \in Nat
    <3>1. LineEnd(d, k) /\ k <= Len(d) /\ LineEnd(c, k)
      BY <1>1, <1>5, HeadsLines
    <3> QED
      BY <1>3, <3>1 DEF LineEnd, Ends
  <2>2. ASSUME NEW e \in Ends(c), e <= k PROVE e \in Ends(d)
    BY <1>1, <1>3, <2>1, <2>2 DEF Ends, Heads
  <2>3. \A e \in Ends(d) : Parsed(c, e) = Parsed(d, e) /\ Parsed(b, e) = Parsed(d, e)
    BY <1>1, HeadsLines
  <2> QED
    BY <1>1, <2>1, <2>2, <2>3
<1> QED
  BY <1>1, <1>2, <1>4, <1>5 DEF d

\* Reading on from the end of a line gives the facts after it, no others, and
\* leads to the end of the last line.
LEMMA RestIs ==
    ASSUME NEW b \in Bytes, NEW k, LineEnd(b, k),
           NEW r, r = Complete(SubSeq(b, k + 1, Len(b)))
    PROVE  /\ r \in Bytes
           /\ Facts(r) \subseteq Facts(b)
           /\ \A e \in Ends(b) : e > k => Parsed(b, e) \in Facts(r) \cup {NoFact}
           /\ LineEnd(b, k + Len(r))
           /\ \A e \in Ends(b) : e <= k + Len(r)
<1> DEFINE d == SubSeq(b, k + 1, Len(b))
<1>1. Len(b) \in Nat /\ DOMAIN b = 1 .. Len(b) /\ k \in 0 .. Len(b)
      /\ Ends(b) \subseteq 1 .. Len(b)
  BY DEF Bytes, LineEnd, Ends
<1>2. /\ d \in Bytes /\ Len(d) = Len(b) - k /\ DOMAIN d = 1 .. Len(b) - k
      /\ \A i \in 1 .. Len(b) - k : d[i] = b[k + i]
  <2>1. k + 1 \in Int /\ Len(b) \in Int /\ \A i \in k + 1 .. Len(b) : b[i] \in Byte
    BY <1>1 DEF Bytes
  <2>2. /\ d \in Seq(Byte)
        /\ Len(d) = IF k + 1 <= Len(b) THEN Len(b) - (k + 1) + 1 ELSE 0
        /\ \A i \in 1 .. Len(b) - (k + 1) + 1 : d[i] = b[(k + 1) + i - 1]
    <3> DEFINE m == k + 1
               n == Len(b)
    <3> HIDE DEF m, n
    <3>1. m \in Int /\ n \in Int /\ \A i \in m .. n : b[i] \in Byte
      BY <2>1 DEF m, n
    <3>2. /\ SubSeq(b, m, n) \in Seq(Byte)
          /\ Len(SubSeq(b, m, n)) = IF m <= n THEN n - m + 1 ELSE 0
          /\ \A i \in 1 .. n - m + 1 : SubSeq(b, m, n)[i] = b[m + i - 1]
      BY <3>1, SubSeqProperties
    <3> QED
      BY <3>2 DEF m, n
  <2> HIDE DEF d
  <2>3. Len(b) - (k + 1) + 1 = Len(b) - k /\ Len(d) = Len(b) - k
    <3>1. k \in Nat /\ k <= Len(b) /\ Len(b) \in Nat
      BY <1>1
    <3>2. k + 1 > Len(b) => Len(b) - k = 0
      BY <3>1
    <3> QED
      BY <2>2, <3>1, <3>2
  <2>4. ASSUME NEW i \in 1 .. Len(b) - k PROVE d[i] = b[k + i]
    <3>1. (k + 1) + i - 1 = k + i
      BY <1>1
    <3> QED
      BY <2>2, <2>3, <3>1
  <2> QED
    BY <2>2, <2>3, <2>4 DEF Bytes
<1> HIDE DEF d
<1>3. /\ r \in Bytes /\ Facts(r) = Facts(d) /\ LineEnd(d, Len(r))
      /\ \A e \in Ends(d) : e <= Len(r)
  <2>1. r = Complete(d)
    BY DEF d
  <2> QED
    BY <1>2, <2>1, CompleteIs DEF LineEnd
<1>4. ASSUME NEW e \in 1 .. Len(b) - k
      PROVE  /\ e \in Ends(d) <=> k + e \in Ends(b)
             /\ Parsed(d, e) = Parsed(b, k + e)
  <2>1. e \in Ends(d) <=> k + e \in Ends(b)
    BY <1>1, <1>2 DEF Ends
  <2>2. CASE e = 1
    <3>1. Parsed(d, e) = NoFact
      BY <2>2 DEF Parsed
    <3>2. k = 0 \/ b[(k + e) - 1] = NL
      BY <1>1, <2>2 DEF LineEnd, Ends
    <3>3. Parsed(b, k + e) = NoFact
      BY <1>1, <2>2, <3>2 DEF Parsed
    <3> QED
      BY <2>1, <3>1, <3>3
  <2>3. CASE e > 1
    <3> DEFINE f == d[e - 1]
               w == Width[f.id]
    <3>1. f = b[(k + e) - 1] /\ f \in Byte
      <4>1. e - 1 \in 1 .. Len(b) - k
        BY <1>1, <2>3
      <4>2. k + (e - 1) = (k + e) - 1
        BY <1>1
      <4> QED
        BY <1>2, <4>1, <4>2 DEF Bytes
    <3>2. CASE f = NL
      <4>1. f = d[e - 1] /\ f = b[(k + e) - 1]
        BY <3>1
      <4>2. Parsed(d, e) = NoFact
        BY <3>2, <4>1, ParsedIs
      <4>3. Parsed(b, k + e) = NoFact
        BY <3>2, <4>1, ParsedIs
      <4> QED
        BY <2>1, <4>2, <4>3
    <3>3. CASE f # NL
      <4>1. f \in Fact
        BY <3>1, <3>3 DEF Byte
      <4>2. w \in Nat /\ w >= 1
        BY <4>1, FactIs
      <4> HIDE DEF f, w
      <4> DEFINE P == /\ e - w >= 1
                      /\ \A i \in e - w .. e - 1 : d[i] = f
                      /\ e - w = 1 \/ d[e - w - 1] = NL
                 Q == /\ (k + e) - w >= 1
                      /\ \A i \in (k + e) - w .. (k + e) - 1 : b[i] = f
                      /\ (k + e) - w = 1 \/ b[(k + e) - w - 1] = NL
      <4>3. Parsed(d, e) = IF P THEN f ELSE NoFact
        BY <2>3, <3>3, ParsedIs DEF f, w
      <4>4. Parsed(b, k + e) = IF Q THEN f ELSE NoFact
        <5>1. k + e > 1 /\ f = b[(k + e) - 1] /\ w = Width[f.id]
          BY <1>1, <2>3, <3>1 DEF w
        <5> QED
          BY <3>3, <5>1, ParsedIs
      <4>5. P => Q
        <5> SUFFICES ASSUME P PROVE Q
          OBVIOUS
        <5>1. (k + e) - w >= 1
          BY <1>1, <4>2
        <5>2. ASSUME NEW i \in (k + e) - w .. (k + e) - 1 PROVE b[i] = f
          <6>1. i - k \in e - w .. e - 1 /\ i - k \in 1 .. Len(b) - k /\ k + (i - k) = i
            BY <1>1, <4>2, <5>2
          <6> QED
            BY <1>2, <6>1
        <5>3. CASE e - w = 1
          <6>1. (k + e) - w - 1 = k
            BY <1>1, <4>2, <5>3
          <6> QED
            BY <1>1, <5>1, <5>2, <5>3, <6>1 DEF LineEnd, Ends
        <5>4. CASE e - w # 1
          <6>1. e - w - 1 \in 1 .. Len(b) - k /\ k + (e - w - 1) = (k + e) - w - 1
            BY <1>1, <4>2, <5>4
          <6> QED
            BY <1>2, <5>1, <5>2, <5>4, <6>1
        <5> QED
          BY <5>3, <5>4
      <4>6. Q => P
        <5> SUFFICES ASSUME Q PROVE P
          OBVIOUS
        <5>1. e - w >= 1
          <6> SUFFICES ASSUME e - w < 1 PROVE FALSE
            BY <1>1, <4>2
          <6>1. k >= 1
            BY <1>1, <4>2
          <6>2. b[k] = NL
            BY <1>1, <6>1 DEF LineEnd, Ends
          <6>3. k \in (k + e) - w .. (k + e) - 1
            BY <1>1, <4>2, <2>3
          <6> QED
            BY <3>3, <6>2, <6>3
        <5>2. ASSUME NEW i \in e - w .. e - 1 PROVE d[i] = f
          <6>1. k + i \in (k + e) - w .. (k + e) - 1 /\ i \in 1 .. Len(b) - k
            BY <1>1, <4>2, <5>1, <5>2
          <6> QED
            BY <1>2, <6>1
        <5>3. e - w # 1 => d[e - w - 1] = NL
          <6> SUFFICES ASSUME e - w # 1 PROVE d[e - w - 1] = NL
            OBVIOUS
          <6>1. e - w - 1 \in 1 .. Len(b) - k /\ k + (e - w - 1) = (k + e) - w - 1
                /\ (k + e) - w # 1
            BY <1>1, <4>2, <5>1
          <6> QED
            BY <1>2, <6>1
        <5> QED
          BY <5>1, <5>2, <5>3
      <4> HIDE DEF P, Q
      <4> QED
        BY <2>1, <4>3, <4>4, <4>5, <4>6
    <3> QED
      BY <3>2, <3>3
  <2> QED
    BY <2>2, <2>3
<1>5. Facts(d) \subseteq Facts(b)
  <2>1. \A e \in Ends(d) : k + e \in Ends(b) /\ Parsed(d, e) = Parsed(b, k + e)
    BY <1>2, <1>4 DEF Ends
  <2> QED
    BY <2>1, FactsAre
<1>6. \A e \in Ends(b) : e > k => e - k \in Ends(d) /\ Parsed(b, e) = Parsed(d, e - k)
  <2> SUFFICES ASSUME NEW e \in Ends(b), e > k
               PROVE  e - k \in Ends(d) /\ Parsed(b, e) = Parsed(d, e - k)
    OBVIOUS
  <2>1. e - k \in 1 .. Len(b) - k /\ k + (e - k) = e
    BY <1>1
  <2> QED
    BY <1>4, <2>1
<1>7. \A e \in Ends(b) : e > k => Parsed(b, e) \in Facts(r) \cup {NoFact}
  BY <1>3, <1>6, FactsAre
<1>8. Len(r) \in Nat
  BY <1>3 DEF Bytes
<1>9. LineEnd(b, k + Len(r))
  <2>1. CASE Len(r) = 0
    BY <1>1, <2>1
  <2>2. CASE Len(r) \in Ends(d)
    <3>1. Len(r) \in 1 .. Len(b) - k
      BY <1>2, <2>2 DEF Ends
    <3> QED
      BY <1>4, <2>2, <3>1 DEF LineEnd
  <2> QED
    BY <1>3, <2>1, <2>2 DEF LineEnd
<1>10. ASSUME NEW e \in Ends(b) PROVE e <= k + Len(r)
  <2>1. e \in Nat /\ (e > k => e - k <= Len(r))
    BY <1>1, <1>3, <1>6
  <2> QED
    BY <1>1, <1>8, <2>1
<1> QED
  BY <1>3, <1>5, <1>7, <1>9, <1>10

\* A stream that only grew kept its lines.
LEMMA HeadsKeeps ==
    ASSUME NEW b \in Bytes, NEW c \in Bytes, Heads(b, c)
    PROVE  Keeps(b, c)
<1>1. Complete(b) \in Bytes /\ Heads(Complete(b), b)
  BY CompleteIs
<1>2. Len(Complete(b)) \in Nat /\ Len(b) \in Nat /\ Len(c) \in Nat
  BY <1>1 DEF Bytes
<1> QED
  BY <1>1, <1>2 DEF Keeps, Heads

LEMMA HeadsTransitive ==
    ASSUME NEW b \in Bytes, NEW c \in Bytes, NEW d \in Bytes, Heads(b, c), Heads(c, d)
    PROVE  Heads(b, d)
<1>1. Len(b) \in Nat /\ Len(c) \in Nat /\ Len(d) \in Nat
  BY DEF Bytes
<1> QED
  BY <1>1 DEF Heads

\* A byte more.
LEMMA AppendIs ==
    ASSUME NEW b \in Bytes, NEW x \in Byte, NEW c, c = Append(b, x)
    PROVE  /\ c \in Bytes /\ Len(c) = Len(b) + 1 /\ c[Len(b) + 1] = x
           /\ Heads(b, c) /\ Keeps(b, c)
           /\ x = NL => Ends(c) = Ends(b) \cup {Len(b) + 1}
           /\ x # NL => Ends(c) = Ends(b)
           /\ \A e \in Ends(b) : Parsed(c, e) = Parsed(b, e) /\ e < Len(b) + 1
<1>1. /\ c \in Bytes /\ Len(c) = Len(b) + 1 /\ Len(b) \in Nat /\ c[Len(b) + 1] = x
      /\ \A i \in 1 .. Len(b) : c[i] = b[i]
  BY DEF Bytes
<1>2. DOMAIN c = 1 .. Len(b) + 1 /\ DOMAIN b = 1 .. Len(b)
  BY <1>1 DEF Bytes
<1>3. Heads(b, c)
  BY <1>1 DEF Heads
<1>4. Keeps(b, c)
  BY <1>1, <1>3, HeadsKeeps
<1>5. Ends(c) = IF x = NL THEN Ends(b) \cup {Len(b) + 1} ELSE Ends(b)
  BY <1>1, <1>2 DEF Ends
<1>6. \A e \in Ends(b) : Parsed(c, e) = Parsed(b, e)
  BY <1>1, <1>3, HeadsLines
<1>7. \A e \in Ends(b) : e < Len(b) + 1
  BY <1>1, <1>2 DEF Ends
<1> QED
  BY <1>1, <1>3, <1>4, <1>5, <1>6, <1>7

\* What a process knows of a stream stays true of it.
LEMMA KeepsIndexed ==
    ASSUME NEW b \in Bytes, NEW c \in Bytes, Keeps(b, c), NEW ix, Indexed(b, ix)
    PROVE  Indexed(c, ix)
<1>1. /\ Facts(b) \subseteq Facts(c) /\ LineEnd(c, ix.off)
      /\ \A e \in Ends(c) : e <= ix.off => e \in Ends(b) /\ Parsed(c, e) = Parsed(b, e)
  BY KeepsLines DEF Indexed
<1> QED
  BY <1>1 DEF Indexed

\* WriterIndex.refresh reads everything that is on record.
LEMMA RefreshedIs ==
    ASSUME file["here"] \in Bytes, NEW prior, Indexed(file["here"], prior)
    PROVE  /\ Refreshed(prior).facts = Facts(file["here"])
           /\ Indexed(file["here"], Refreshed(prior))
<1> DEFINE b == file["here"]
           k == From(prior, Len(b))
           r == Complete(SubSeq(b, k + 1, Len(b)))
           new == Refreshed(prior)
<1>1. b \in Bytes /\ Indexed(b, prior)
  OBVIOUS
<1>2. new.facts = Facts(r) \cup (IF k = 0 THEN {} ELSE prior.facts) /\ new.off = k + Len(r)
  BY DEF Refreshed
<1>3. k = 0 \/ k = prior.off
  BY DEF From
<1> HIDE DEF b, k, new
<1>4. LineEnd(b, k)
  BY <1>1, <1>3 DEF Indexed, LineEnd
<1>5. /\ Facts(r) \subseteq Facts(b) /\ LineEnd(b, k + Len(r))
      /\ \A e \in Ends(b) : e > k => Parsed(b, e) \in Facts(r) \cup {NoFact}
      /\ \A e \in Ends(b) : e <= k + Len(r)
  BY <1>1, <1>4, RestIs
<1> HIDE DEF r
<1>6. new.facts \subseteq Facts(b)
  BY <1>1, <1>2, <1>5 DEF Indexed
<1>7. \A e \in Ends(b) : Parsed(b, e) \in new.facts \cup {NoFact}
  <2> SUFFICES ASSUME NEW e \in Ends(b) PROVE Parsed(b, e) \in new.facts \cup {NoFact}
    OBVIOUS
  <2>1. Ends(b) \subseteq Nat /\ 0 \notin Ends(b) /\ k \in Nat
    <3>1. DOMAIN b = 1 .. Len(b) /\ Len(b) \in Nat
      BY <1>1 DEF Bytes
    <3> QED
      BY <1>4, <3>1 DEF Ends, LineEnd
  <2>2. CASE e > k
    BY <1>2, <1>5, <2>2
  <2>3. CASE e <= k
    <3>1. k # 0 /\ k = prior.off
      BY <1>3, <2>1, <2>3
    <3> QED
      BY <1>1, <1>2, <2>3, <3>1 DEF Indexed
  <2> QED
    BY <2>1, <2>2, <2>3
<1>8. Facts(b) = new.facts
  BY <1>6, <1>7, FactsAre
<1> QED
  BY <1>2, <1>5, <1>6, <1>7, <1>8 DEF Indexed, b, new

\* What is on record is facts.
LEMMA FactsInFact ==
    ASSUME NEW b \in Bytes
    PROVE  Facts(b) \subseteq Fact
<1>1. DOMAIN b = 1 .. Len(b) /\ Len(b) \in Nat /\ \A i \in 1 .. Len(b) : b[i] \in Fact \cup {NL}
  BY DEF Bytes, Byte
<1>2. ASSUME NEW e \in Ends(b) PROVE Parsed(b, e) \in Fact \cup {NoFact}
  <2>1. CASE e > 1
    <3>1. e - 1 \in 1 .. Len(b)
      BY <1>1, <2>1 DEF Ends
    <3> QED
      BY <1>1, <3>1 DEF Parsed
  <2>2. CASE ~(e > 1)
    BY <2>2 DEF Parsed
  <2> QED
    BY <2>1, <2>2
<1> QED
  BY <1>2, FactsAre

LEMMA RefreshedType ==
    ASSUME file["here"] \in Bytes,
           NEW prior \in [known : BOOLEAN, size : Nat, off : Nat, facts : SUBSET Fact],
           Indexed(file["here"], prior)
    PROVE  Refreshed(prior) \in [known : BOOLEAN, size : Nat, off : Nat, facts : SUBSET Fact]
<1>1. Refreshed(prior).facts \in SUBSET Fact
  BY RefreshedIs, FactsInFact
<1>2. /\ Len(file["here"]) \in Nat /\ Ends(file["here"]) \subseteq Nat
      /\ LineEnd(file["here"], Refreshed(prior).off)
  <2>1. /\ Len(file["here"]) \in Nat /\ DOMAIN file["here"] = 1 .. Len(file["here"])
    BY DEF Bytes
  <2> QED
    BY <2>1, RefreshedIs DEF Ends, Indexed
<1>3. Refreshed(prior).off \in Nat
  BY <1>2 DEF LineEnd
<1> QED
  BY <1>1, <1>2, <1>3 DEF Refreshed

\* What every process reads before it appends is what is on record.
LEMMA KnownIs ==
    ASSUME file["here"] \in Bytes, Indexed(file["here"], index), NEW w
    PROVE  Known(w) = Facts(file["here"])
<1>1. Indexed(file["here"], NoIndex)
  <2>1. \A e \in Ends(file["here"]) : ~(e <= 0)
    BY DEF Ends, Bytes
  <2> QED
    BY <2>1 DEF Indexed, NoIndex, LineEnd
<1> QED
  BY <1>1, RefreshedIs DEF Known, Prior

\* The line that append begins with.
LEMMA LineBegins ==
    ASSUME NEW b \in Bytes, LineEnd(b, Len(b)), NEW f \in Fact
    PROVE  Torn(b, f, LineOf(f)) /\ LineOf(f) \in Bytes
<1> DEFINE w == Width[f.id]
<1>1. w \in Nat /\ w >= 1 /\ f \in Byte /\ NL \in Byte
  BY FactIs DEF Byte
<1> HIDE DEF w
<1>2. [i \in 1 .. w |-> f] \in Seq(Byte) /\ Len([i \in 1 .. w |-> f]) = w
  BY <1>1
<1>3. LineOf(f) = Append([i \in 1 .. w |-> f], NL)
  BY DEF LineOf, w
<1>4. /\ LineOf(f) \in Seq(Byte) /\ Len(LineOf(f)) = w + 1
      /\ \A i \in 1 .. w + 1 : LineOf(f)[i] = IF i = w + 1 THEN NL ELSE f
  BY <1>1, <1>2, <1>3
<1>5. (w + 1) - Len(LineOf(f)) = 0 /\ Len(b) \in Nat
  BY <1>1, <1>4 DEF Bytes
<1>6. Torn(b, f, LineOf(f))
  <2>1. /\ Len(LineOf(f)) \in 1 .. w + 1
        /\ \A i \in 1 .. Len(LineOf(f)) : LineOf(f)[i] = IF i = Len(LineOf(f)) THEN NL ELSE f
    BY <1>1, <1>4
  <2>2. 0 <= Len(b) /\ Len(b) - 0 = Len(b)
        /\ \A i \in (Len(b) - 0) + 1 .. Len(b) : b[i] = f
    BY <1>5
  <2> QED
    BY <1>5, <2>1, <2>2 DEF Torn, w
<1> QED
  BY <1>4, <1>6 DEF Bytes

\* The line that append goes on with, and ends with the newline.
LEMMA LineGrows ==
    ASSUME NEW b \in Bytes, NEW f \in Fact, NEW rest \in Bytes, Torn(b, f, rest),
           NEW c, c = Append(b, Head(rest))
    PROVE  /\ Head(rest) \in Byte /\ Tail(rest) \in Bytes
           /\ Len(rest) # 1 => Tail(rest) # <<>> /\ Head(rest) = f /\ Torn(c, f, Tail(rest))
           /\ Len(rest) = 1 => Tail(rest) = <<>> /\ Head(rest) = NL /\ Parsed(c, Len(b) + 1) = f
<1> DEFINE w == Width[f.id]
           n == Len(rest)
           t == (w + 1) - n
<1>1. /\ w \in Nat /\ w >= 1 /\ f # NL /\ f \in Byte /\ f \in Fact
      /\ rest \in Seq(Byte) /\ n \in Nat
  BY FactIs DEF Bytes
<1>2. /\ n \in 1 .. w + 1 /\ \A i \in 1 .. n : rest[i] = IF i = n THEN NL ELSE f
      /\ t <= Len(b) /\ LineEnd(b, Len(b) - t)
      /\ \A i \in (Len(b) - t) + 1 .. Len(b) : b[i] = f
  BY DEF Torn
<1> HIDE DEF w, n, t
<1>10. t = (w + 1) - n /\ n = Len(rest) /\ t \in Nat
  BY <1>1, <1>2 DEF t, n
<1>3. /\ rest # <<>> /\ Head(rest) = rest[1] /\ Head(rest) \in Byte
      /\ Tail(rest) \in Seq(Byte) /\ Len(Tail(rest)) = n - 1
      /\ \A i \in 1 .. n - 1 : Tail(rest)[i] = rest[i + 1]
  BY <1>1, <1>2, <1>10
<1>4. /\ Len(b) \in Nat /\ Len(c) = Len(b) + 1 /\ c[Len(b) + 1] = Head(rest)
      /\ \A i \in 1 .. Len(b) : c[i] = b[i]
      /\ \A k : LineEnd(b, k) => LineEnd(c, k)
  <2>1. c = Append(b, Head(rest)) /\ Head(rest) \in Byte
    BY <1>3
  <2>2. c \in Bytes /\ Len(c) = Len(b) + 1 /\ c[Len(b) + 1] = Head(rest) /\ Heads(b, c)
    BY <2>1, AppendIs
  <2>3. \A k : LineEnd(b, k) => LineEnd(c, k)
    BY <2>2, HeadsLines
  <2> QED
    BY <2>2, <2>3 DEF Heads, Bytes
<1>5. Tail(rest) = <<>> <=> n = 1
  <2>1. Tail(rest) = <<>> <=> Len(Tail(rest)) = 0
    BY <1>3, EmptySeq
  <2>2. n - 1 = 0 <=> n = 1
    BY <1>1
  <2> QED
    BY <1>3, <2>1, <2>2
<1>6. CASE n = 1
  <2>1. Head(rest) = NL
    BY <1>2, <1>3, <1>6
  <2>2. /\ w <= Len(b) /\ LineEnd(b, Len(b) - w)
        /\ \A i \in (Len(b) - w) + 1 .. Len(b) : b[i] = f
    <3>1. t = w
      BY <1>1, <1>6, <1>10
    <3> QED
      BY <1>2, <3>1
  <2> DEFINE e == Len(b) + 1
  <2>3. e > 1 /\ e - 1 = Len(b) /\ e - w = (Len(b) - w) + 1 /\ e - w >= 1
        /\ e - w - 1 = Len(b) - w
    BY <1>1, <1>4, <2>2
  <2>4. c[e - 1] = f
    <3>1. Len(b) \in (Len(b) - w) + 1 .. Len(b) /\ Len(b) \in 1 .. Len(b)
      BY <1>1, <1>4, <2>2
    <3> QED
      BY <1>4, <2>2, <2>3, <3>1
  <2>5. \A i \in e - w .. e - 1 : c[i] = f
    BY <1>1, <1>4, <2>2, <2>3
  <2>6. e - w = 1 \/ c[e - w - 1] = NL
    <3>1. LineEnd(c, Len(b) - w)
      BY <1>4, <2>2
    <3>2. CASE Len(b) - w = 0
      BY <1>1, <1>4, <2>3, <3>2
    <3>3. CASE c[Len(b) - w] = NL
      BY <2>3, <3>3
    <3> QED
      BY <3>1, <3>2, <3>3 DEF LineEnd, Ends
  <2> HIDE DEF e
  <2>7. Parsed(c, e) = f
    <3>1. w = Width[f.id] /\ f = c[e - 1] /\ e > 1 /\ f # NL
      BY <1>1, <2>3, <2>4 DEF w
    <3>2. Parsed(c, e) = IF /\ e - w >= 1
                            /\ \A i \in e - w .. e - 1 : c[i] = f
                            /\ e - w = 1 \/ c[e - w - 1] = NL
                         THEN f ELSE NoFact
      BY ONLY <3>1, ParsedIs
    <3> QED
      BY <2>3, <2>5, <2>6, <3>2
  <2> QED
    BY <1>3, <1>5, <1>6, <2>1, <2>7 DEF e, Bytes
<1>7. CASE n # 1
  <2>1. n > 1 /\ Head(rest) = f
    BY <1>1, <1>2, <1>3, <1>7
  <2>2. Len(Tail(rest)) = n - 1 /\ \A i \in 1 .. n - 1 : Tail(rest)[i] = rest[i + 1]
    BY <1>3, <1>10
  <2>3. (w + 1) - (n - 1) = t + 1
        /\ Len(c) - ((w + 1) - (n - 1)) = Len(b) - t
    BY <1>1, <1>2, <1>4, <1>10
  <2>4. n - 1 \in 1 .. w + 1 /\ (w + 1) - (n - 1) <= Len(c)
    BY <1>1, <1>2, <1>4, <1>10, <2>1, <2>3
  <2>5. \A i \in 1 .. n - 1 : Tail(rest)[i] = IF i = n - 1 THEN NL ELSE f
    <3> SUFFICES ASSUME NEW i \in 1 .. n - 1 PROVE rest[i + 1] = IF i = n - 1 THEN NL ELSE f
      BY <2>2
    <3>1. i + 1 \in 1 .. n /\ (i + 1 = n <=> i = n - 1)
      BY <1>1
    <3> QED
      BY <1>2, <3>1
  <2>6. LineEnd(c, Len(c) - ((w + 1) - (n - 1)))
    BY <1>2, <1>4, <2>3
  <2>7. ASSUME NEW i \in (Len(c) - ((w + 1) - (n - 1))) + 1 .. Len(c) PROVE c[i] = f
    <3>1. CASE i = Len(c)
      BY <1>4, <2>1, <3>1
    <3>2. CASE i # Len(c)
      <4>1. i \in (Len(b) - t) + 1 .. Len(b) + 1 /\ i # Len(b) + 1
        BY <1>4, <2>3, <2>7, <3>2
      <4>2. i \in (Len(b) - t) + 1 .. Len(b) /\ i \in 1 .. Len(b)
        BY <1>2, <1>4, <1>10, <4>1
      <4> QED
        BY <1>2, <1>4, <4>2
    <3> QED
      BY <3>1, <3>2
  <2>8. Torn(c, f, Tail(rest))
    BY <2>2, <2>4, <2>5, <2>6, <2>7 DEF Torn, w
  <2> QED
    BY <1>3, <1>5, <1>7, <2>1, <2>8 DEF Bytes
<1> QED
  BY <1>6, <1>7

-----------------------------------------------------------------------------
(* The steps *)

\* What the refinement sees of a step.
Logged == <<Lines(file["here"]), view>>
LogStep == [Log!Next]_Logged

\* Nobody begins to write, and who writes goes on as before.
NobodyBegins ==
    \A w \in Writer : pc'[w] = "write" => pc[w] = "write" /\ line'[w] = line[w] /\ lock' = lock

\* A step that leaves the streams and those who read them alone.
LEMMA Still ==
    ASSUME IInv, UNCHANGED <<file, index, reading, shuttle>>, NobodyBegins
    PROVE  ReadingOK' /\ Streams' /\ LogStep
<1>1. UNCHANGED <<file, index, cursor, stale, view, ref, tree>>
  BY DEF reading, shuttle
<1>2. ReadingOK' /\ Copied' /\ Readers' /\ Indexed(file["here"], index)'
  BY <1>1 DEF IInv, ReadingOK, Streams, Copied, Readers
<1>3. Writers'
  BY <1>1 DEF IInv, Streams, Writers, NobodyBegins
<1>4. UNCHANGED Logged
  BY <1>1 DEF Logged
<1> QED
  BY <1>2, <1>3, <1>4 DEF Streams, LogStep

\* A step that moves the streams keeps what is on record, and what those who
\* read and write remember of it.
LEMMA Moves ==
    ASSUME IInv, file' \in [Site -> Bytes], \A s \in Site : Keeps(file[s], file'[s])
    PROVE  /\ \A s \in Site : /\ Facts(file[s]) \subseteq Facts(file'[s])
                               /\ \A k : LineEnd(file[s], k) => LineEnd(file'[s], k)
           /\ Ids(file["here"]) \subseteq Ids(file'["here"])
           /\ Heads(ref, Complete(file'["here"]))
           /\ \A ix : Indexed(file["here"], ix) => Indexed(file'["here"], ix)
<1>1. file \in [Site -> Bytes] /\ ref \in Bytes /\ Heads(ref, Complete(file["here"]))
      /\ "here" \in Site
  BY DEF IInv, ReadingOK, Streams, Copied, Site
<1>2. \A s \in Site : /\ Facts(file[s]) \subseteq Facts(file'[s])
                      /\ Heads(Complete(file[s]), Complete(file'[s]))
                      /\ \A k : LineEnd(file[s], k) => LineEnd(file'[s], k)
  BY <1>1, KeepsLines
<1>3. Ids(file["here"]) \subseteq Ids(file'["here"])
  BY <1>1, <1>2 DEF Ids
<1>4. Heads(ref, Complete(file'["here"]))
  <2>1. Complete(file["here"]) \in Bytes /\ Complete(file'["here"]) \in Bytes
    BY <1>1, CompleteIs
  <2> QED
    BY <1>1, <1>2, <2>1, HeadsTransitive
<1>5. \A ix : Indexed(file["here"], ix) => Indexed(file'["here"], ix)
  BY <1>1, KeepsIndexed
<1> QED
  BY <1>2, <1>3, <1>4, <1>5

LEMMA Beginning ==
    Init => IInv /\ Log!Init
<1> SUFFICES ASSUME Init PROVE IInv /\ Log!Init
  OBVIOUS
<1>1. <<>> \in Bytes /\ Ends(<<>>) = {} /\ Facts(<<>>) = {} /\ Complete(<<>>) \in Bytes
  <2>1. <<>> \in Bytes /\ Ends(<<>>) = {}
    BY DEF Bytes, Ends
  <2> QED
    BY <2>1, FactsAre, CompleteIs
<1>2. OutboxOK
  <2>1. rgen \in Gen
    BY IngestAssumption DEF Init, Gen
  <2>2. job \in [todo : SUBSET File, at : File \cup {Verb}, same : BOOLEAN]
    BY DEF Init, NoJob
  <2> QED
    BY <2>1, <2>2 DEF Init, OutboxOK
<1>3. WritingOK
  BY IngestAssumption DEF Init, WritingOK, NoLine, NoIndex, Writer, Fact, Gen, Bytes
<1>4. ReadingOK
  BY <1>1 DEF Init, ReadingOK, NoStream
<1>5. Streams
  <2>1. \A b \in Bytes : Heads(<<>>, b)
    BY DEF Heads, Bytes
  <2>2. file = [s \in Site |-> <<>>] /\ "here" \in Site /\ "there" \in Site
    BY DEF Init, Site
  <2>3. Copied
    BY <1>1, <2>1, <2>2 DEF Copied, Init
  <2>4. Readers
    BY <1>1, <2>2 DEF Readers, Init, NoStream, LineEnd
  <2>5. Indexed(file["here"], index)
    BY <1>1, <2>2 DEF Indexed, Init, NoIndex, LineEnd
  <2>6. Writers
    BY DEF Writers, Writer, Init
  <2> QED
    BY <2>3, <2>4, <2>5, <2>6 DEF Streams
<1>6. AtHand /\ NothingLost
  BY DEF AtHand, NothingLost, Init
<1>7. Log!Init
  <2>1. Lines(<<>>) = <<>>
    BY <1>1 DEF Lines
  <2> QED
    BY <2>1 DEF Log!Init, Init, Site
<1> QED
  BY <1>2, <1>3, <1>4, <1>5, <1>6, <1>7 DEF IInv

\* A body prepares a file, drops it, or time passes.
LEMMA OutboxSteps ==
    ASSUME IInv, NEW p, (p \in File /\ (Prepare(p) \/ Drop(p))) \/ Age
    PROVE  IInv' /\ LogStep
<1>1. UNCHANGED <<rejected, file, lock, pc, line, index, rgen, reading, shuttle>>
  BY DEF Prepare, Drop, Age, writing
<1>2. ReadingOK' /\ Streams' /\ LogStep
  BY <1>1, Still DEF NobodyBegins
<1>3. OutboxOK' /\ job'.at = job.at
  <2>1. CASE p \in File /\ Prepare(p)
    BY <2>1 DEF Prepare, Touch, Overtaken, IInv, OutboxOK
  <2>2. CASE p \in File /\ Drop(p)
    BY <2>2 DEF Drop, Touch, Overtaken, IInv, OutboxOK
  <2>3. CASE Age
    BY <2>3 DEF Age, writing, IInv, OutboxOK
  <2> QED
    BY <2>1, <2>2, <2>3
<1>4. WritingOK'
  BY <1>1 DEF IInv, WritingOK
<1>5. AtHand'
  BY <1>1, <1>3 DEF IInv, AtHand
<1>6. NothingLost'
  BY <1>1 DEF Prepare, Drop, Age, IInv, NothingLost
<1> QED
  BY <1>2, <1>3, <1>4, <1>5, <1>6 DEF IInv

\* The loop looks for files, lists them and ends its pass.
LEMMA PassSteps ==
    ASSUME IInv, Stat \/ List \/ Empty \/ PassEnds
    PROVE  IInv' /\ LogStep
<1>1. UNCHANGED <<temps, out, dropped, rejected, fresh, file, lock, line, index, rgen, reading, shuttle>>
  BY DEF Stat, List, Empty, PassEnds, outbox
<1>2. /\ pc' \in [Writer -> {"idle", "stat", "empty", "files", "lock", "write",
                            "unlink", "reject", "done"}]
      /\ pc'["verb"] = pc["verb"]
      /\ pc'["loop"] \in {"stat", "empty", "files", "idle"}
  BY DEF Stat, List, Empty, PassEnds, IInv, WritingOK, Writer
<1>3. ReadingOK' /\ Streams' /\ LogStep
  BY <1>1, <1>2, Still DEF NobodyBegins, Writer
<1>4. OutboxOK'
  <2>1. job' \in [todo : SUBSET File, at : File \cup {Verb}, same : BOOLEAN] /\ cached' \in BOOLEAN
    <3>1. job \in [todo : SUBSET File, at : File \cup {Verb}, same : BOOLEAN]
          /\ out \in SUBSET File /\ cached \in BOOLEAN /\ fresh \in BOOLEAN
      BY DEF IInv, OutboxOK
    <3>2. CASE Stat
      BY <3>1, <3>2 DEF Stat, outbox
    <3>3. CASE List
      <4>1. job' = [job EXCEPT !.todo = out] /\ cached' = cached
        BY <3>3 DEF List, outbox
      <4> QED
        BY <3>1, <4>1
    <3>4. CASE Empty \/ PassEnds
      <4>1. job' = NoJob /\ cached' \in {cached, job.same /\ ~fresh}
        BY <3>4 DEF Empty, PassEnds, outbox
      <4>2. NoJob \in [todo : SUBSET File, at : File \cup {Verb}, same : BOOLEAN]
        BY DEF NoJob
      <4>3. (job.same /\ ~fresh) \in BOOLEAN
        BY <3>1
      <4> QED
        BY <3>1, <4>1, <4>2, <4>3
    <3> QED
      BY <3>2, <3>3, <3>4
  <2> QED
    BY <1>1, <2>1 DEF IInv, OutboxOK
<1>5. WritingOK'
  BY <1>1, <1>2 DEF IInv, WritingOK
<1>6. AtHand' /\ NothingLost'
  BY <1>1, <1>2 DEF IInv, AtHand, NothingLost
<1> QED
  BY <1>3, <1>4, <1>5, <1>6 DEF IInv

\* The loop takes a file up.
LEMMA TakeSteps ==
    ASSUME IInv, NEW p \in File, Take(p)
    PROVE  IInv' /\ LogStep
<1>1. /\ UNCHANGED <<temps, out, dropped, rejected, fresh, cached, file, lock, index, rgen, reading, shuttle>>
      /\ pc' = [pc EXCEPT !["loop"] = "lock"] /\ job' = [job EXCEPT !.at = p]
  BY DEF Take, outbox
<1>2. ReadingOK' /\ Streams' /\ LogStep
  <2>1. NobodyBegins
    BY <1>1 DEF NobodyBegins, Take, Writer, IInv, WritingOK
  <2> QED
    BY <1>1, <2>1, Still
<1>3. OutboxOK' /\ job'.at = p
  BY <1>1 DEF IInv, OutboxOK
<1>4. WritingOK' /\ line'["loop"].fact.id = p
  <2> DEFINE g == [id |-> p, gen |-> IF p \in Outward THEN rgen ELSE 0]
  <2>1. g \in Fact /\ g.id = p
    BY IngestAssumption DEF Fact, Gen, IInv, OutboxOK
  <2> HIDE DEF g
  <2>2. line' = [line EXCEPT !["loop"].fact = g]
    BY DEF Take, g
  <2>3. line' \in [Writer -> [fact : Fact, rest : Bytes]] /\ line'["loop"].fact = g
    BY <2>1, <2>2 DEF IInv, WritingOK, Writer
  <2> QED
    BY <1>1, <2>1, <2>3 DEF IInv, WritingOK, Writer
<1>5. AtHand' /\ NothingLost'
  BY <1>1, <1>3, <1>4 DEF IInv, AtHand, NothingLost, WritingOK, Writer
<1> QED
  BY <1>2, <1>3, <1>4, <1>5 DEF IInv

\* The file at hand leaves the outbox.
LEMMA LeavingSteps ==
    ASSUME IInv, Unlink \/ Reject
    PROVE  IInv' /\ LogStep
<1>1. /\ UNCHANGED <<temps, dropped, file, lock, index, rgen, reading, shuttle>>
      /\ Leaves(job.at) /\ pc["loop"] \in {"unlink", "reject"}
  BY DEF Unlink, Reject
<1>2. pc' = [pc EXCEPT !["loop"] = "files"] /\ line' = [line EXCEPT !["loop"] = NoLine]
  BY <1>1 DEF Leaves
<1>3. ReadingOK' /\ Streams' /\ LogStep
  <2>1. NobodyBegins
    BY <1>1, <1>2 DEF NobodyBegins, Writer, IInv, WritingOK
  <2> QED
    BY <1>1, <2>1, Still
<1>4. OutboxOK'
  <2>1. job.at \in File /\ rejected' \in {rejected, rejected \cup {job.at}}
    BY <1>1 DEF IInv, AtHand, Unlink, Reject
  <2>2. job' \in [todo : SUBSET File, at : File \cup {Verb}, same : BOOLEAN]
    BY <1>1 DEF Leaves, IInv, OutboxOK
  <2> QED
    BY <1>1, <2>1, <2>2 DEF Leaves, Touch, IInv, OutboxOK
<1>5. WritingOK'
  <2>1. NoLine \in [fact : Fact, rest : Bytes]
    BY IngestAssumption DEF NoLine, Fact, Gen, Bytes
  <2> QED
    BY <1>1, <1>2, <2>1 DEF IInv, WritingOK, Writer
<1>6. AtHand'
  BY <1>2 DEF AtHand, IInv, WritingOK, Writer
<1>7. NothingLost'
  <2>1. out' = out \ {job.at} /\ job.at \in rejected' \cup Ids(file["here"])
        /\ rejected \subseteq rejected'
    BY <1>1 DEF Leaves, Unlink, Reject, IInv, AtHand
  <2> QED
    BY <1>1, <2>1 DEF IInv, NothingLost
<1> QED
  BY <1>3, <1>4, <1>5, <1>6, <1>7 DEF IInv

\* What Enter finds on record is what is there.
LEMMA EnterSteps ==
    ASSUME IInv, NEW w \in Writer, Enter(w)
    PROVE  IInv' /\ LogStep
<1> DEFINE b == file["here"]
           f == line[w].fact
           old == {g \in Known(w) : g.id = f.id}
<1>1. /\ b \in Bytes /\ f \in Fact /\ Indexed(b, index) /\ Known(w) = Facts(b)
      /\ file \in [Site -> Bytes] /\ Site = {"here", "there"}
  BY KnownIs DEF IInv, ReadingOK, WritingOK, Streams, Site
<1>2. /\ pc[w] = "lock" /\ lock = "nobody"
      /\ UNCHANGED <<temps, out, dropped, rejected, fresh, cached, job, rgen, cursor, ref, tree, faults>>
      /\ index' \in {index, Refreshed(index)}
  BY DEF Enter, outbox, shuttle
<1>3. Facts(b) \subseteq Fact
  BY <1>1, FactsInFact
<1>4. index' \in [known : BOOLEAN, size : Nat, off : Nat, facts : SUBSET Fact] /\ Indexed(b, index')
  <2>1. index \in [known : BOOLEAN, size : Nat, off : Nat, facts : SUBSET Fact]
    BY DEF IInv, WritingOK
  <2>2. Refreshed(index) \in [known : BOOLEAN, size : Nat, off : Nat, facts : SUBSET Fact]
    BY <1>1, <1>3, <2>1, RefreshedType
  <2>3. Indexed(b, Refreshed(index))
    BY <1>1, RefreshedIs
  <2> QED
    BY <1>1, <1>2, <2>1, <2>2, <2>3
<1>5. OutboxOK'
  BY <1>2 DEF IInv, OutboxOK
<1>6. \A v \in Writer : pc[v] # "write"
  BY <1>2 DEF IInv, Streams, Writers, Writer
<1>7. CASE Same(f, old) /\ pc' = [pc EXCEPT ![w] = Next1(w)] /\ Added(w, f)
           /\ UNCHANGED <<file, lock, line, stale>>
  <2>1. f \in Facts(b)
    BY <1>1, <1>7 DEF Same
  <2>2. /\ view' \in [Site -> SUBSET Fact]
        /\ \A s \in Site : view'[s] \subseteq Facts(file[s])
    BY <1>1, <1>7, <2>1 DEF Added, IInv, ReadingOK, Streams, Readers
  <2>3. WritingOK'
    BY <1>2, <1>4, <1>7 DEF IInv, WritingOK, Next1, Writer
  <2>4. ReadingOK'
    BY <1>2, <1>7, <2>2 DEF IInv, ReadingOK
  <2>5. Streams'
    <3>1. Copied' /\ Readers'
      BY <1>2, <1>7, <2>2 DEF IInv, Streams, Copied, Readers
    <3>2. Writers'
      BY <1>6, <1>7 DEF Writers, IInv, WritingOK, Next1, Writer
    <3> QED
      BY <1>4, <1>7, <3>1, <3>2 DEF Streams
  <2>6. AtHand'
    <3>1. w = "loop" => job.at \in File /\ f.id = job.at /\ f.id \in Ids(b)
      BY <1>2, <2>1 DEF IInv, AtHand, Ids
    <3> QED
      BY <1>2, <1>7, <3>1 DEF IInv, AtHand, WritingOK, Next1, Writer
  <2>7. NothingLost'
    BY <1>2, <1>7 DEF IInv, NothingLost
  <2>8. LogStep
    <3>1. CASE w = "loop"
      <4>1. /\ view' = [view EXCEPT !["here"] = @ \cup {f}] /\ view \in [Site -> SUBSET Fact]
            /\ Lines(file["here"])' = Lines(file["here"])
        BY <1>7, <3>1 DEF Added, IInv, ReadingOK
      <4>2. view'["here"] \subseteq Facts(b) /\ Facts(b) \subseteq Log!Recorded
        BY <1>1, <2>2 DEF Log!Recorded, Facts, Lines
      <4>3. Log!Read("here")
        BY <1>1, <4>1, <4>2 DEF Log!Read
      <4> QED
        BY <1>1, <4>3 DEF LogStep, Logged, Log!Next
    <3>2. CASE w # "loop"
      BY <1>7, <3>2 DEF Added, LogStep, Logged
    <3> QED
      BY <3>1, <3>2
  <2> QED
    BY <1>5, <2>3, <2>4, <2>5, <2>6, <2>7, <2>8 DEF IInv
<1>8. CASE ~Same(f, old) /\ old # {} /\ pc' = [pc EXCEPT ![w] = Raised(w)]
           /\ UNCHANGED <<file, lock, line, stale, view>>
  <2>1. WritingOK' /\ ReadingOK'
    BY <1>2, <1>4, <1>8 DEF IInv, WritingOK, ReadingOK, Raised, Writer
  <2>2. Streams'
    <3>1. Copied' /\ Readers'
      BY <1>2, <1>8 DEF IInv, Streams, Copied, Readers
    <3>2. Writers'
      BY <1>6, <1>8 DEF Writers, IInv, WritingOK, Raised, Writer
    <3> QED
      BY <1>4, <1>8, <3>1, <3>2 DEF Streams
  <2>3. AtHand' /\ NothingLost'
    BY <1>2, <1>8 DEF IInv, AtHand, NothingLost, WritingOK, Raised, Writer
  <2>4. LogStep
    BY <1>8 DEF LogStep, Logged
  <2> QED
    BY <1>5, <2>1, <2>2, <2>3, <2>4 DEF IInv
<1>9. CASE old = {} /\ lock' = w /\ pc' = [pc EXCEPT ![w] = "write"]
           /\ line' = [line EXCEPT ![w].rest = LineOf(f)]
           /\ Moved("here", Healed) /\ UNCHANGED view
  <2> DEFINE c == file'["here"]
  <2>1. /\ file' = [file EXCEPT !["here"] = Complete(b)] /\ c = Complete(b)
        /\ stale' \in [Site -> BOOLEAN]
    BY <1>1, <1>9 DEF Moved, Healed, IInv, ReadingOK
  <2>2. /\ c \in Bytes /\ LineEnd(c, Len(c)) /\ Heads(c, b) /\ Ends(c) = Ends(b)
        /\ Facts(c) = Facts(b)
    BY <1>1, <2>1, CompleteIs
  <2>3. file' \in [Site -> Bytes] /\ \A s \in Site : Keeps(file[s], file'[s])
    <3>1. Keeps(b, c)
      <4>1. Len(c) \in Nat
        BY <2>2 DEF Bytes
      <4> QED
        BY <2>1, <4>1 DEF Keeps, Heads
    <3>2. \A d \in Bytes : Keeps(d, d)
      <4>1. \A d \in Bytes : Heads(d, d)
        BY DEF Heads, Bytes
      <4> QED
        BY <4>1, HeadsKeeps
    <3> QED
      BY <1>1, <2>1, <2>2, <3>1, <3>2
  <2>4. Torn(c, f, LineOf(f)) /\ LineOf(f) \in Bytes /\ line'[w].fact = f /\ line'[w].rest = LineOf(f)
    <3>1. line'[w].fact = f /\ line'[w].rest = LineOf(f)
      BY <1>9 DEF IInv, WritingOK
    <3> QED
      BY <1>1, <2>2, <3>1, LineBegins
  <2>5. WritingOK'
    <3>1. line' \in [Writer -> [fact : Fact, rest : Bytes]]
      BY <1>9, <2>4 DEF IInv, WritingOK
    <3> QED
      BY <1>2, <1>4, <1>9, <3>1 DEF IInv, WritingOK, Writer
  <2>6. ReadingOK'
    BY <1>2, <1>9, <2>1, <2>3 DEF IInv, ReadingOK
  <2>7. Streams'
    <3>1. Copied'
      BY <1>1, <1>2, <2>1, <2>3, Moves DEF IInv, Streams, Copied
    <3>2. Readers'
      BY <1>2, <1>9, <2>3, Moves DEF IInv, Streams, Readers
    <3>3. Indexed(file["here"], index)'
      BY <1>4, <2>3, Moves
    <3>4. Writers'
      <4>1. f.id \notin Ids(c)
        BY <1>1, <1>9, <2>2 DEF Ids
      <4> QED
        BY <1>6, <1>9, <2>4, <4>1 DEF Writers, IInv, WritingOK
    <3> QED
      BY <3>1, <3>2, <3>3, <3>4 DEF Streams
  <2>8. AtHand'
    <3>1. Ids(c) = Ids(b) /\ line' = [line EXCEPT ![w] = line'[w]]
      BY <1>9, <2>2 DEF Ids, IInv, WritingOK
    <3> QED
      BY <1>2, <1>9, <2>4, <3>1 DEF IInv, AtHand, WritingOK, Writer
  <2>9. NothingLost'
    BY <1>2, <2>2 DEF IInv, NothingLost, Ids
  <2>10. LogStep
    <3>1. \A e \in Ends(c) : Parsed(b, e) = Parsed(c, e)
      BY <1>1, <2>2, HeadsLines
    <3>2. Lines(c) = Lines(b)
      BY <2>2, <3>1 DEF Lines
    <3> QED
      BY <1>9, <3>2 DEF LogStep, Logged
  <2> QED
    BY <1>5, <2>5, <2>6, <2>7, <2>8, <2>9, <2>10 DEF IInv
<1> QED
  BY <1>7, <1>8, <1>9 DEF Enter

\* A byte reaches the stream; the last puts the fact on record.
LEMMA WriteSteps ==
    ASSUME IInv, NEW w \in Writer, Write(w)
    PROVE  IInv' /\ LogStep
<1>0. PICK b, c, f, rest : /\ b = file["here"] /\ c = file'["here"]
                           /\ f = line[w].fact /\ rest = line[w].rest
  OBVIOUS
<1>1. /\ b \in Bytes /\ f \in Fact /\ rest \in Bytes /\ Torn(b, f, rest) /\ f.id \notin Ids(b)
      /\ pc[w] = "write" /\ lock = w /\ file \in [Site -> Bytes] /\ Site = {"here", "there"}
      /\ \A v \in Writer : v # w => pc[v] # "write"
  <2>1. pc[w] = "write" /\ b \in Bytes /\ file \in [Site -> Bytes] /\ Site = {"here", "there"}
    BY <1>0 DEF Write, IInv, ReadingOK, Site
  <2>2. f \in Fact /\ rest \in Bytes
    BY <1>0 DEF IInv, WritingOK
  <2>3. lock = w /\ Torn(b, f, rest) /\ f.id \notin Ids(b)
    BY <1>0, <2>1 DEF IInv, Streams, Writers
  <2>4. \A v \in Writer : v # w => pc[v] # "write"
    BY <2>3 DEF IInv, Streams, Writers
  <2> QED
    BY <2>1, <2>2, <2>3, <2>4
<1>2. /\ UNCHANGED <<temps, out, dropped, rejected, fresh, cached, job, index, rgen, cursor, ref, tree, faults>>
      /\ file' = [file EXCEPT !["here"] = Append(b, Head(rest))]
      /\ stale' = [stale EXCEPT !["here"] = TRUE]
      /\ line' = [line EXCEPT ![w].rest = Tail(rest)]
  <2>1. /\ UNCHANGED <<outbox, job, index, rgen, cursor, shuttle, faults>>
        /\ Moved("here", Append(b, Head(rest)))
        /\ line' = [line EXCEPT ![w].rest = Tail(rest)]
    BY <1>0 DEF Write
  <2> QED
    BY <2>1 DEF Moved, outbox, shuttle
<1>3. c = Append(b, Head(rest))
  BY <1>0, <1>1, <1>2
<1>4. /\ line'[w].fact = f /\ line'[w].rest = Tail(rest)
      /\ \A v \in Writer : line'[v].fact = line[v].fact
  BY <1>0, <1>2 DEF IInv, WritingOK
<1>5. /\ Head(rest) \in Byte /\ Tail(rest) \in Bytes
      /\ Len(rest) # 1 => Tail(rest) # <<>> /\ Head(rest) = f /\ Torn(c, f, Tail(rest))
      /\ Len(rest) = 1 => Tail(rest) = <<>> /\ Head(rest) = NL /\ Parsed(c, Len(b) + 1) = f
  <2>1. /\ b \in Bytes /\ f \in Fact /\ rest \in Bytes /\ Torn(b, f, rest)
        /\ c = Append(b, Head(rest))
    BY <1>1, <1>3, <1>4
  <2> QED
    BY ONLY <2>1, LineGrows
<1>6. /\ c \in Bytes /\ Keeps(b, c)
      /\ Head(rest) = NL => Ends(c) = Ends(b) \cup {Len(b) + 1}
      /\ Head(rest) # NL => Ends(c) = Ends(b)
      /\ \A e \in Ends(b) : Parsed(c, e) = Parsed(b, e) /\ e < Len(b) + 1
  <2>1. b \in Bytes /\ Head(rest) \in Byte /\ c = Append(b, Head(rest))
    BY <1>1, <1>3, <1>5
  <2>2. c \in Bytes /\ Keeps(b, c)
    BY ONLY <2>1, AppendIs
  <2>3. /\ Head(rest) = NL => Ends(c) = Ends(b) \cup {Len(b) + 1}
        /\ Head(rest) # NL => Ends(c) = Ends(b)
    BY ONLY <2>1, AppendIs
  <2>4. \A e \in Ends(b) : Parsed(c, e) = Parsed(b, e) /\ e < Len(b) + 1
    BY ONLY <2>1, AppendIs
  <2> QED
    BY <2>2, <2>3, <2>4
<1>7. file' \in [Site -> Bytes] /\ \A s \in Site : Keeps(file[s], file'[s])
  <2>1. file' = [file EXCEPT !["here"] = c]
    BY <1>0, <1>2, <1>3
  <2>2. \A d \in Bytes : Keeps(d, d)
    <3>1. \A d \in Bytes : Heads(d, d)
      BY DEF Heads, Bytes
    <3> QED
      BY <3>1, HeadsKeeps
  <2> QED
    BY <1>0, <1>1, <1>6, <2>1, <2>2
<1>8. /\ \A s \in Site : /\ Facts(file[s]) \subseteq Facts(file'[s])
                          /\ \A k : LineEnd(file[s], k) => LineEnd(file'[s], k)
      /\ Ids(b) \subseteq Ids(c) /\ Heads(ref, Complete(c)) /\ Indexed(c, index)
  BY <1>0, <1>7, Moves DEF IInv, Streams
<1>9. OutboxOK' /\ NothingLost' /\ Copied' /\ Indexed(file["here"], index)'
  <2>1. OutboxOK'
    BY <1>2 DEF IInv, OutboxOK
  <2>2. NothingLost'
    BY <1>0, <1>2, <1>8 DEF IInv, NothingLost
  <2>3. Copied'
    BY <1>0, <1>1, <1>2, <1>8 DEF IInv, Streams, Copied
  <2> QED
    BY <1>0, <1>2, <1>8, <2>1, <2>2, <2>3
<1>10. line' \in [Writer -> [fact : Fact, rest : Bytes]]
       /\ index' \in [known : BOOLEAN, size : Nat, off : Nat, facts : SUBSET Fact]
  BY <1>2, <1>5 DEF IInv, WritingOK
<1>11. CASE Len(rest) # 1
  <2>1. UNCHANGED <<pc, lock, view>>
    BY <1>0, <1>5, <1>11 DEF Write
  <2>2. WritingOK'
    BY <1>10, <2>1 DEF IInv, WritingOK
  <2>3. ReadingOK'
    BY <1>2, <1>7, <2>1 DEF IInv, ReadingOK
  <2>4. Readers'
    BY <1>2, <1>8, <2>1 DEF IInv, Streams, Readers
  <2>5. /\ Ends(c) = Ends(b) /\ Facts(c) = Facts(b)
    <3>1. Ends(c) = Ends(b)
      BY <1>1, <1>5, <1>6, <1>11, FactIs
    <3> QED
      BY <1>6, <3>1, FactsAre
  <2>6. Writers'
    <3>1. Ids(c) = Ids(b)
      BY <2>5 DEF Ids
    <3> QED
      BY <1>0, <1>1, <1>4, <1>5, <1>11, <2>1, <3>1 DEF Writers
  <2>7. AtHand'
    BY <1>0, <1>2, <1>4, <1>8, <2>1 DEF IInv, AtHand, Writer
  <2>8. LogStep
    <3>1. Lines(c) = Lines(b)
      BY <1>6, <2>5 DEF Lines
    <3> QED
      BY <1>0, <2>1, <3>1 DEF LogStep, Logged
  <2> QED
    BY <1>9, <2>2, <2>3, <2>4, <2>6, <2>7, <2>8 DEF IInv, Streams
<1>12. CASE Len(rest) = 1
  <2>1. pc' = [pc EXCEPT ![w] = Next1(w)] /\ Added(w, f)
    BY <1>0, <1>5, <1>12 DEF Write
  <2>2. f \in Facts(c) /\ f.id \in Ids(c) /\ f \in Fact
    <3>1. Len(b) + 1 \in Ends(c) /\ Parsed(c, Len(b) + 1) = f
      BY <1>5, <1>6, <1>12
    <3>2. f # NoFact
      BY <1>1, FactIs
    <3>3. f \in Facts(c)
      BY <3>1, <3>2, FactsAre
    <3> QED
      BY <1>1, <3>3 DEF Ids
  <2>3. view' \in [Site -> SUBSET Fact] /\ \A s \in Site : view'[s] \subseteq Facts(file'[s])
    <3>1. view \in [Site -> SUBSET Fact] /\ \A s \in Site : view[s] \subseteq Facts(file'[s])
      BY <1>8 DEF IInv, ReadingOK, Streams, Readers
    <3> QED
      BY <1>0, <1>1, <2>1, <2>2, <3>1 DEF Added
  <2>4. WritingOK'
    BY <1>10, <2>1 DEF IInv, WritingOK, Next1, Writer
  <2>5. ReadingOK'
    BY <1>2, <1>7, <2>3 DEF IInv, ReadingOK
  <2>6. Readers'
    BY <1>2, <1>8, <2>3 DEF IInv, Streams, Readers
  <2>7. Writers'
    BY <1>1, <2>1 DEF Writers, IInv, WritingOK, Next1, Writer
  <2>8. AtHand'
    <3>1. w = "loop" => job.at \in File /\ f.id = job.at
      BY <1>0, <1>1 DEF IInv, AtHand
    <3> QED
      BY <1>0, <1>2, <1>4, <1>8, <2>1, <2>2, <3>1 DEF IInv, AtHand, WritingOK, Next1, Writer
  <2>9. LogStep
    <3> DEFINE end == Len(b) + 1
    <3>1. /\ end \in Ends(c) /\ Ends(c) = Ends(b) \cup {end} /\ Parsed(c, end) = f
          /\ \A e \in Ends(b) : e < end
      BY <1>5, <1>6, <1>12
    <3>2. /\ DOMAIN Lines(b) = Ends(b) /\ DOMAIN Lines(c) = Ends(c)
          /\ \A e \in Ends(b) : Lines(b)[e] = Parsed(b, e)
      BY DEF Lines
    <3> HIDE DEF end
    <3>3. Lines(c) = [e \in DOMAIN Lines(b) \cup {end} |-> IF e = end THEN f ELSE Lines(b)[e]]
      <4>1. \A e \in Ends(c) : Parsed(c, e) = IF e = end THEN f ELSE Lines(b)[e]
        BY <1>6, <3>1, <3>2
      <4> QED
        BY <3>1, <3>2, <4>1 DEF Lines
    <3>4. \A g \in Log!Recorded : g.id # f.id
      <4> SUFFICES ASSUME NEW e \in Ends(b) PROVE Parsed(b, e).id # f.id
        BY <1>0, <3>2 DEF Log!Recorded
      <4>1. CASE Parsed(b, e) = NoFact
        BY <1>1, <4>1, FactIs DEF NoFact
      <4>2. CASE Parsed(b, e) # NoFact
        <5>1. Parsed(b, e) \in Facts(b)
          BY <4>2, FactsAre
        <5> QED
          BY <1>1, <5>1 DEF Ids
      <4> QED
        BY <4>1, <4>2
    <3>5. \/ UNCHANGED view
          \/ \E r \in Site : view' = [view EXCEPT ![r] = @ \cup {f}]
      BY <1>1, <2>1 DEF Added
    <3>6. Log!Record(f)
      BY <1>0, <3>1, <3>2, <3>3, <3>4, <3>5 DEF Log!Record
    <3> QED
      BY <2>2, <3>6 DEF LogStep, Logged, Log!Next
  <2> QED
    BY <1>9, <2>4, <2>5, <2>6, <2>7, <2>8, <2>9 DEF IInv, Streams
<1> QED
  BY <1>11, <1>12

\* A write fails, or a verb dies: what it wrote of its line stays.
LEMMA TearingSteps ==
    ASSUME IInv, NEW w \in Writer, WriteFails(w) \/ (w = "verb" /\ VerbDies)
    PROVE  IInv' /\ LogStep
<1>1. /\ UNCHANGED <<temps, out, dropped, rejected, fresh, cached, file, job, index, rgen, reading, shuttle>>
      /\ Unlocked(w)
  BY DEF WriteFails, VerbDies, outbox
<1>2. /\ pc' = [pc EXCEPT ![w] = Raised(w)]
      /\ line' \in [Writer -> [fact : Fact, rest : Bytes]]
      /\ \A v \in Writer \ {w} : line'[v] = line[v]
      /\ w = "loop" => pc[w] = "write" /\ line'[w].fact = line[w].fact
  <2>1. CASE WriteFails(w)
    <3>1. <<>> \in Bytes
      BY DEF Bytes
    <3> QED
      BY <2>1, <3>1 DEF WriteFails, IInv, WritingOK
  <2>2. CASE w = "verb" /\ VerbDies
    <3>1. NoLine \in [fact : Fact, rest : Bytes]
      BY IngestAssumption DEF NoLine, Fact, Gen, Bytes
    <3> QED
      BY <2>2, <3>1 DEF VerbDies, IInv, WritingOK, Raised
  <2> QED
    BY <2>1, <2>2
<1>3. ReadingOK' /\ Streams' /\ LogStep
  <2>1. \A v \in Writer : pc'[v] = "write" => v # w /\ pc[v] = "write" /\ lock = v
    BY <1>2 DEF Raised, Writer, IInv, WritingOK, Streams, Writers
  <2>2. NobodyBegins
    BY <1>1, <1>2, <2>1 DEF NobodyBegins, Unlocked
  <2> QED
    BY <1>1, <2>2, Still
<1>4. OutboxOK' /\ NothingLost'
  BY <1>1 DEF IInv, OutboxOK, NothingLost
<1>5. WritingOK'
  BY <1>1, <1>2 DEF IInv, WritingOK, Raised, Writer
<1>6. AtHand'
  BY <1>1, <1>2 DEF IInv, AtHand, WritingOK, Raised, Writer
<1> QED
  BY <1>3, <1>4, <1>5, <1>6 DEF IInv

\* The loop dies: whoever starts next knows of no stream.
LEMMA LoopDiesStep ==
    ASSUME IInv, LoopDies
    PROVE  IInv' /\ LogStep
<1>1. /\ UNCHANGED <<temps, out, dropped, rejected, fresh, file, ref, tree>>
      /\ Unlocked("loop") /\ pc' = [pc EXCEPT !["loop"] = "idle"]
      /\ job' = NoJob /\ line' = [line EXCEPT !["loop"] = NoLine]
      /\ index' = NoIndex /\ cached' = FALSE /\ rgen' \in Gen
      /\ cursor' = [cursor EXCEPT !["here"] = NoStream]
      /\ view' = [view EXCEPT !["here"] = {}]
      /\ stale' = [stale EXCEPT !["here"] = TRUE]
  BY DEF LoopDies, shuttle, IInv, OutboxOK
<1>2. OutboxOK'
  BY <1>1 DEF IInv, OutboxOK, NoJob
<1>3. WritingOK'
  <2>1. NoLine \in [fact : Fact, rest : Bytes]
    BY IngestAssumption DEF NoLine, Fact, Gen, Bytes
  <2> QED
    BY <1>1, <2>1 DEF IInv, WritingOK, NoIndex, Writer
<1>4. ReadingOK'
  <2>1. NoStream \in [known : BOOLEAN, size : Nat, off : Nat, tail : Bytes,
                      busy : BOOLEAN, from : Nat]
    BY DEF NoStream, Bytes
  <2> QED
    BY <1>1, <2>1 DEF IInv, ReadingOK
<1>5. Streams'
  <2>1. Copied'
    BY <1>1 DEF IInv, Streams, Copied
  <2>2. Readers'
    <3>1. view'["here"] = {} /\ cursor'["here"].off = 0 /\ cursor'["here"].from = 0
          /\ view'["there"] = view["there"] /\ cursor'["there"] = cursor["there"]
      BY <1>1 DEF IInv, ReadingOK, NoStream, Site
    <3> QED
      BY <1>1, <3>1 DEF IInv, Streams, Readers, LineEnd, Site
  <2>3. Indexed(file["here"], index)'
    <3>1. \A e \in Ends(file["here"]) : ~(e <= 0)
      BY DEF Ends, IInv, ReadingOK, Site, Bytes
    <3> QED
      BY <1>1, <3>1 DEF Indexed, NoIndex, LineEnd
  <2>4. Writers'
    BY <1>1 DEF IInv, Streams, Writers, WritingOK, Writer, Unlocked
  <2> QED
    BY <2>1, <2>2, <2>3, <2>4 DEF Streams
<1>6. AtHand' /\ NothingLost'
  BY <1>1 DEF IInv, AtHand, NothingLost, WritingOK, Writer
<1>7. LogStep
  BY <1>1 DEF LogStep, Logged, Log!Next, Log!Forget, Site
<1> QED
  BY <1>2, <1>3, <1>4, <1>5, <1>6, <1>7 DEF IInv

\* What a step of a reader or of the shuttle leaves as it is.
LEMMA Elsewhere ==
    ASSUME IInv, UNCHANGED <<outbox, file["here"], writing>>
    PROVE  /\ OutboxOK' /\ WritingOK' /\ AtHand' /\ NothingLost'
           /\ Indexed(file["here"], index)' /\ Writers'
           /\ Lines(file["here"])' = Lines(file["here"])
<1>1. UNCHANGED <<temps, out, dropped, rejected, fresh, cached, file["here"],
                  lock, pc, job, line, index, rgen>>
  BY DEF outbox, writing
<1>2. OutboxOK' /\ WritingOK'
  BY <1>1 DEF IInv, OutboxOK, WritingOK
<1>3. AtHand' /\ NothingLost'
  BY <1>1 DEF IInv, AtHand, NothingLost
<1>4. Indexed(file["here"], index)' /\ Writers'
  BY <1>1 DEF IInv, Streams, Writers
<1> QED
  BY <1>1, <1>2, <1>3, <1>4

\* The shuttle carries complete lines, and the peer fetches what was pushed.
LEMMA ShuttleSteps ==
    ASSUME IInv, Pack \/ Fetch
    PROVE  IInv' /\ LogStep
<1>1. UNCHANGED <<outbox, file, writing, cursor, stale, view>>
  BY DEF Pack, Fetch, reading
<1>2. /\ file \in [Site -> Bytes] /\ file["here"] \in Bytes /\ file["there"] \in Bytes
      /\ ref \in Bytes /\ tree \in Bytes /\ Complete(file["here"]) \in Bytes
  BY CompleteIs DEF IInv, ReadingOK, Site
<1>3. \A d \in Bytes : Heads(d, d)
  BY DEF Heads, Bytes
<1>4. ref' \in Bytes /\ tree' \in Bytes /\ Copied'
  <2>1. CASE Pack
    <3>1. ref' = Complete(file["here"]) /\ tree' = tree
      BY <2>1 DEF Pack
    <3>2. Heads(tree, Complete(file["here"]))
      BY <1>2, HeadsTransitive DEF IInv, Streams, Copied
    <3> QED
      BY <1>1, <1>2, <1>3, <3>1, <3>2 DEF IInv, Streams, Copied
  <2>2. CASE Fetch
    BY <1>1, <1>2, <1>3, <2>2 DEF Fetch, IInv, Streams, Copied
  <2> QED
    BY <2>1, <2>2
<1>5. ReadingOK' /\ Readers'
  BY <1>1, <1>4 DEF IInv, ReadingOK, Streams, Readers
<1>6. UNCHANGED Logged
  BY <1>1 DEF Logged
<1> QED
  BY <1>1, <1>4, <1>5, <1>6, Elsewhere DEF IInv, Streams, LogStep

\* The peer's copy grows by what it fetched.
LEMMA MaterializeStep ==
    ASSUME IInv, Materialize
    PROVE  IInv' /\ LogStep
<1>0. PICK have, got, to : have = file["there"] /\ got = file'["there"] /\ to = tree
  OBVIOUS
<1>1. /\ file \in [Site -> Bytes] /\ have \in Bytes /\ to \in Bytes /\ Heads(have, to)
      /\ have # to /\ UNCHANGED <<outbox, writing, view, ref, tree>> /\ Site = {"here", "there"}
  BY <1>0 DEF Materialize, IInv, ReadingOK, Streams, Copied, shuttle, Site
<1>2. /\ Len(have) \in Nat /\ Len(to) \in Nat
      /\ \A i \in 1 .. Len(have) : have[i] = to[i]
      /\ Len(have) < Len(to)
  <2>1. /\ Len(have) \in Nat /\ Len(to) \in Nat /\ Len(have) <= Len(to)
        /\ \A i \in 1 .. Len(have) : have[i] = to[i]
    BY <1>1 DEF Heads, Bytes
  <2>2. Len(have) = Len(to) => have = to
    BY <1>1, <2>1, SeqEqual DEF Bytes
  <2> QED
    BY <1>1, <2>1, <2>2
<1>3. /\ file' = [file EXCEPT !["there"] = got]
      /\ stale' \in [Site -> BOOLEAN]
      /\ got = to \/ got = SubSeq(to, 1, Len(have) + 1)
      /\ have = <<>> \/ got = SubSeq(to, 1, Len(have) + 1)
      /\ cursor' \in {cursor, [cursor EXCEPT !["there"].known = FALSE]}
  <2>1. CASE /\ have # <<>> /\ IsPrefix(have, to)
             /\ Moved("there", SubSeq(to, 1, Len(have) + 1)) /\ UNCHANGED cursor
    BY <1>0, <1>1, <2>1 DEF Moved, IInv, ReadingOK
  <2>2. CASE /\ have = <<>> \/ ~IsPrefix(have, to)
             /\ Moved("there", to) /\ cursor' = [cursor EXCEPT !["there"].known = FALSE]
    <3>1. IsPrefix(have, to)
      <4>1. /\ SubSeq(have, 1, Len(have)) \in Seq(Byte) /\ SubSeq(to, 1, Len(have)) \in Seq(Byte)
            /\ Len(SubSeq(have, 1, Len(have))) = Len(have)
            /\ Len(SubSeq(to, 1, Len(have))) = Len(have)
            /\ \A i \in 1 .. Len(have) : SubSeq(have, 1, Len(have))[i] = SubSeq(to, 1, Len(have))[i]
        BY <1>1, <1>2 DEF Bytes
      <4>2. SubSeq(have, 1, Len(have)) = SubSeq(to, 1, Len(have))
        BY <4>1, SeqEqual
      <4> QED
        BY <1>2, <4>2 DEF IsPrefix
    <3> QED
      BY <1>0, <1>1, <2>2, <3>1 DEF Moved, IInv, ReadingOK
  <2> QED
    BY <1>0, <2>1, <2>2 DEF Materialize
<1>4. got \in Bytes /\ Heads(have, got) /\ Heads(got, to)
  <2>1. CASE got = SubSeq(to, 1, Len(have) + 1)
    <3>1. /\ got \in Seq(Byte) /\ Len(got) = Len(have) + 1
          /\ \A i \in 1 .. Len(have) + 1 : got[i] = to[i]
      BY <1>1, <1>2, <2>1 DEF Bytes
    <3> QED
      BY <1>2, <3>1 DEF Heads, Bytes
  <2>2. CASE got = to
    BY <1>1, <1>2, <2>2 DEF Heads
  <2> QED
    BY <1>3, <2>1, <2>2
<1>5. file' \in [Site -> Bytes] /\ \A s \in Site : Keeps(file[s], file'[s])
  <2>1. \A d \in Bytes : Keeps(d, d)
    <3>1. \A d \in Bytes : Heads(d, d)
      BY DEF Heads, Bytes
    <3> QED
      BY <3>1, HeadsKeeps
  <2>2. Keeps(have, got)
    BY <1>1, <1>4, HeadsKeeps
  <2> QED
    BY <1>0, <1>1, <1>3, <1>4, <2>1, <2>2
<1>6. /\ cursor' \in [Site -> [known : BOOLEAN, size : Nat, off : Nat, tail : Bytes,
                             busy : BOOLEAN, from : Nat]]
      /\ \A s \in Site : cursor'[s].off = cursor[s].off /\ cursor'[s].from = cursor[s].from
  <2>1. cursor \in [Site -> [known : BOOLEAN, size : Nat, off : Nat, tail : Bytes,
                             busy : BOOLEAN, from : Nat]]
    BY DEF IInv, ReadingOK
  <2> DEFINE t == cursor["there"]
  <2>2. \A c \in [known : BOOLEAN, size : Nat, off : Nat, tail : Bytes, busy : BOOLEAN, from : Nat] :
          /\ [c EXCEPT !.known = FALSE] \in [known : BOOLEAN, size : Nat, off : Nat, tail : Bytes,
                                            busy : BOOLEAN, from : Nat]
          /\ [c EXCEPT !.known = FALSE].off = c.off /\ [c EXCEPT !.known = FALSE].from = c.from
    OBVIOUS
  <2>3. [cursor EXCEPT !["there"].known = FALSE] = [cursor EXCEPT !["there"] = [t EXCEPT !.known = FALSE]]
    OBVIOUS
  <2> QED
    BY <1>1, <1>3, <2>1, <2>2, <2>3
<1>7. ReadingOK'
  BY <1>1, <1>3, <1>5, <1>6 DEF IInv, ReadingOK
<1>8. Copied'
  BY <1>0, <1>1, <1>3, <1>4 DEF IInv, Streams, Copied
<1>9. Readers'
  BY <1>1, <1>5, <1>6, Moves DEF IInv, Streams, Readers
<1>10. file'["here"] = file["here"]
  BY <1>1, <1>3
<1> QED
  BY <1>1, <1>7, <1>8, <1>9, <1>10, Elsewhere DEF IInv, Streams, LogStep, Logged

\* The peer dies: its reader starts again.
LEMMA PeerDiesStep ==
    ASSUME IInv, PeerDies
    PROVE  IInv' /\ LogStep
<1>1. /\ UNCHANGED <<outbox, file, writing, ref>> /\ tree' = file["there"]
      /\ cursor' = [cursor EXCEPT !["there"] = NoStream]
      /\ view' = [view EXCEPT !["there"] = {}]
      /\ stale' = [stale EXCEPT !["there"] = TRUE]
  BY DEF PeerDies
<1>2. ReadingOK'
  <2>1. NoStream \in [known : BOOLEAN, size : Nat, off : Nat, tail : Bytes,
                      busy : BOOLEAN, from : Nat]
    BY DEF NoStream, Bytes
  <2> QED
    BY <1>1, <2>1 DEF IInv, ReadingOK, Site
<1>3. Copied'
  <2>1. \A d \in Bytes : Heads(d, d)
    BY DEF Heads, Bytes
  <2>2. file["there"] \in Bytes /\ tree \in Bytes /\ ref \in Bytes
    BY DEF IInv, ReadingOK, Site
  <2>3. Heads(file["there"], ref)
    BY <2>2, HeadsTransitive DEF IInv, Streams, Copied
  <2> QED
    BY <1>1, <2>1, <2>2, <2>3 DEF IInv, Streams, Copied
<1>4. Readers'
  <2>1. view'["there"] = {} /\ cursor'["there"].off = 0 /\ cursor'["there"].from = 0
        /\ view'["here"] = view["here"] /\ cursor'["here"] = cursor["here"]
    BY <1>1 DEF IInv, ReadingOK, NoStream, Site
  <2> QED
    BY <1>1, <2>1 DEF IInv, Streams, Readers, LineEnd, Site
<1>5. LogStep
  BY <1>1 DEF LogStep, Logged, Log!Next, Log!Forget, Site
<1> QED
  BY <1>1, <1>2, <1>3, <1>4, <1>5, Elsewhere DEF IInv, Streams

\* A reader stats the stream: it is to read on from the end of a line.
LEMMA ScanStatStep ==
    ASSUME IInv, NEW s \in Site, ScanStat(s)
    PROVE  IInv' /\ LogStep
<1> DEFINE Cursor == [known : BOOLEAN, size : Nat, off : Nat, tail : Bytes, busy : BOOLEAN, from : Nat]
           size == Len(file[s])
           from == From(cursor[s], size)
<1>1. /\ UNCHANGED <<outbox, file, writing, view, ref, tree>>
      /\ stale' = [stale EXCEPT ![s] = FALSE]
      /\ cursor' = [cursor EXCEPT ![s] = [@ EXCEPT !.busy = TRUE, !.size = size, !.from = from]]
  BY DEF ScanStat, shuttle
<1>2. cursor \in [Site -> Cursor] /\ size \in Nat /\ from \in {0, cursor[s].off}
  BY DEF IInv, ReadingOK, From, Bytes
<1>3. from \in Nat
  BY <1>2
<1> HIDE DEF size, from
<1>4. PICK c : /\ c = [cursor[s] EXCEPT !.busy = TRUE, !.size = size, !.from = from]
               /\ cursor' = [cursor EXCEPT ![s] = c]
  BY <1>1
<1>5. c \in Cursor /\ c.off = cursor[s].off /\ c.from = from
  <2>1. \A d \in Cursor : /\ [d EXCEPT !.busy = TRUE] \in Cursor
                          /\ [d EXCEPT !.busy = TRUE].off = d.off
    OBVIOUS
  <2>2. \A d \in Cursor, n \in Nat : /\ [d EXCEPT !.size = n] \in Cursor
                                   /\ [d EXCEPT !.size = n].off = d.off
    OBVIOUS
  <2>3. \A d \in Cursor, n \in Nat : /\ [d EXCEPT !.from = n] \in Cursor
                                   /\ [d EXCEPT !.from = n].off = d.off
                                   /\ [d EXCEPT !.from = n].from = n
    OBVIOUS
  <2>4. c = [[[cursor[s] EXCEPT !.busy = TRUE] EXCEPT !.size = size] EXCEPT !.from = from]
    BY <1>4
  <2> QED
    BY <1>2, <1>3, <2>1, <2>2, <2>3, <2>4
<1>6. ReadingOK'
  BY <1>1, <1>2, <1>4, <1>5 DEF IInv, ReadingOK
<1>7. Copied'
  BY <1>1 DEF IInv, Streams, Copied
<1>8. Readers'
  <2>1. LineEnd(file[s], c.off) /\ LineEnd(file[s], c.from)
    BY <1>2, <1>5 DEF IInv, Streams, Readers, LineEnd
  <2>2. \A t \in Site : cursor'[t] = IF t = s THEN c ELSE cursor[t]
    BY <1>2, <1>4
  <2> QED
    BY <1>1, <2>1, <2>2 DEF IInv, Streams, Readers
<1> QED
  BY <1>1, <1>6, <1>7, <1>8, Elsewhere DEF IInv, Streams, LogStep, Logged

\* And reads: what it holds then is on record, and it forgot nothing.
LEMMA ScanReadStep ==
    ASSUME IInv, NEW s \in Site, ScanRead(s)
    PROVE  IInv' /\ LogStep
<1>0. PICK b, from, read : /\ b = file[s] /\ from = ReadFrom(s)
                           /\ read = Complete(SubSeq(b, from + 1, Len(b)))
  OBVIOUS
<1>1. /\ UNCHANGED <<outbox, file, writing, stale, ref, tree>>
      /\ cursor' = [cursor EXCEPT ![s] =
            [known |-> TRUE, size |-> @.size, off |-> from + Len(read),
             tail |-> LastBytes(SubSeq(b, 1, from + Len(read))),
             busy |-> FALSE, from |-> 0]]
      /\ view' = [view EXCEPT ![s] = Facts(read) \cup (IF from = 0 THEN {} ELSE @)]
  BY <1>0 DEF ScanRead, shuttle
<1>2. /\ b \in Bytes /\ from \in {0, cursor[s].from} /\ LineEnd(b, from)
      /\ view[s] \subseteq Facts(b) /\ Facts(b) \subseteq Fact
  <2>1. b \in Bytes /\ from \in {0, cursor[s].from}
    BY <1>0 DEF IInv, ReadingOK, ReadFrom
  <2> QED
    BY <1>0, <2>1, FactsInFact DEF IInv, Streams, Readers, LineEnd
<1>3. /\ read \in Bytes /\ Facts(read) \subseteq Facts(b) /\ LineEnd(b, from + Len(read))
      /\ \A e \in Ends(b) : e > from => Parsed(b, e) \in Facts(read) \cup {NoFact}
  <2>1. read = Complete(SubSeq(b, from + 1, Len(b)))
    BY <1>0
  <2> QED
    BY <1>2, <2>1, RestIs
<1>4. PICK k : k = from + Len(read)
  OBVIOUS
<1>5. /\ k \in 0 .. Len(b) /\ Len(b) \in Nat /\ LineEnd(b, k)
  <2>1. DOMAIN b = 1 .. Len(b) /\ Len(b) \in Nat
    BY <1>2 DEF Bytes
  <2> QED
    BY <1>3, <1>4, <2>1 DEF LineEnd, Ends
<1>6. LastBytes(SubSeq(b, 1, k)) \in Bytes
  <2>0. \A a \in Seq(Byte), m \in Int, n \in Int :
          (\A i \in m .. n : a[i] \in Byte) => SubSeq(a, m, n) \in Seq(Byte)
    BY SubSeqProperties
  <2>1. PICK d \in Bytes : d = SubSeq(b, 1, k)
    <3>1. b \in Seq(Byte) /\ 1 \in Int /\ k \in Int /\ \A i \in 1 .. k : b[i] \in Byte
      BY <1>2, <1>5 DEF Bytes
    <3> QED
      BY <2>0, <3>1 DEF Bytes
  <2>2. PICK m : m = IF Len(d) < 2 THEN 1 ELSE Len(d) - 1
    OBVIOUS
  <2>3. Len(d) \in Nat /\ m \in Nat \ {0}
    BY <2>1, <2>2 DEF Bytes
  <2>4. SubSeq(d, m, Len(d)) \in Seq(Byte)
    <3>1. d \in Seq(Byte) /\ m \in Int /\ Len(d) \in Int /\ \A i \in m .. Len(d) : d[i] \in Byte
      BY <2>1, <2>3 DEF Bytes
    <3> QED
      BY <2>0, <3>1
  <2> QED
    BY <2>1, <2>2, <2>4 DEF LastBytes, Bytes
<1>7. PICK v : v = Facts(read) \cup (IF from = 0 THEN {} ELSE view[s])
  OBVIOUS
<1>8. v \subseteq Facts(b) /\ view[s] \subseteq v /\ view' = [view EXCEPT ![s] = v]
  <2>1. CASE from = 0
    <3>1. Ends(b) \subseteq 1 .. Len(b)
      BY <1>2 DEF Ends, Bytes
    <3>2. Facts(b) \subseteq Facts(read)
      BY <1>3, <1>5, <2>1, <3>1, FactsAre
    <3> QED
      BY <1>1, <1>2, <1>3, <1>7, <2>1, <3>2
  <2>2. CASE from # 0
    BY <1>1, <1>2, <1>3, <1>7, <2>2
  <2> QED
    BY <2>1, <2>2
<1>9. ReadingOK'
  <2>1. view' \in [Site -> SUBSET Fact]
    BY <1>2, <1>8 DEF IInv, ReadingOK
  <2>2. cursor' \in [Site -> [known : BOOLEAN, size : Nat, off : Nat, tail : Bytes,
                             busy : BOOLEAN, from : Nat]]
    <3>1. cursor[s].size \in Nat /\ k \in Nat
      BY <1>5 DEF IInv, ReadingOK
    <3>2. PICK tail \in Bytes : tail = LastBytes(SubSeq(b, 1, k))
      BY <1>6
    <3>3. cursor' = [cursor EXCEPT ![s] =
            [known |-> TRUE, size |-> cursor[s].size, off |-> k, tail |-> tail,
             busy |-> FALSE, from |-> 0]]
      BY <1>1, <1>4, <3>2
    <3> QED
      BY <3>1, <3>2, <3>3 DEF IInv, ReadingOK
  <2> QED
    BY <1>1, <2>1, <2>2 DEF IInv, ReadingOK
<1>10. Copied'
  BY <1>1 DEF IInv, Streams, Copied
<1>11. Readers'
  <2>1. cursor'[s].off = k /\ cursor'[s].from = 0 /\ view'[s] = v
    BY <1>1, <1>4, <1>8 DEF IInv, ReadingOK
  <2>2. \A t \in Site \ {s} : cursor'[t] = cursor[t] /\ view'[t] = view[t]
    BY <1>1 DEF IInv, ReadingOK
  <2> QED
    BY <1>0, <1>1, <1>5, <1>8, <2>1, <2>2 DEF IInv, Streams, Readers, LineEnd
<1>12. LogStep
  <2>1. Facts(b) \subseteq Facts(file["here"])
    <3>1. CASE s = "here"
      BY <1>0, <3>1
    <3>2. CASE s = "there"
      <4>1. /\ file["here"] \in Bytes /\ file["there"] \in Bytes /\ tree \in Bytes /\ ref \in Bytes
            /\ Complete(file["here"]) \in Bytes
            /\ Facts(Complete(file["here"])) = Facts(file["here"])
        BY CompleteIs DEF IInv, ReadingOK, Site
      <4>2. Heads(file["there"], tree) /\ Heads(tree, ref) /\ Heads(ref, Complete(file["here"]))
        BY DEF IInv, Streams, Copied
      <4>3. Heads(file["there"], Complete(file["here"]))
        BY <4>1, <4>2, HeadsTransitive
      <4> QED
        BY <1>0, <3>2, <4>1, <4>3, HeadsLines
    <3> QED
      BY <3>1, <3>2 DEF Site
  <2>2. Facts(file["here"]) \subseteq Log!Recorded
    BY DEF Log!Recorded, Facts, Lines
  <2>3. Log!Read(s)
    BY <1>1, <1>8, <2>1, <2>2 DEF Log!Read, IInv, ReadingOK
  <2> QED
    BY <2>3 DEF LogStep, Logged, Log!Next
<1> QED
  BY <1>1, <1>9, <1>10, <1>11, <1>12, Elsewhere DEF IInv, Streams

LEMMA Steps ==
    IInv /\ [Next]_vars => IInv' /\ LogStep
<1> SUFFICES ASSUME IInv, [Next]_vars PROVE IInv' /\ LogStep
  OBVIOUS
<1>1. ASSUME NEW p \in File, Prepare(p) \/ Drop(p) PROVE IInv' /\ LogStep
  BY <1>1, OutboxSteps
<1>2. CASE Age
  BY <1>2, OutboxSteps
<1>3. CASE LoopNext
  BY <1>3, PassSteps, TakeSteps, LeavingSteps, EnterSteps, WriteSteps, ScanStatStep, ScanReadStep
     DEF LoopNext, Writer, Site
<1>4. CASE VerbNext
  BY <1>4, EnterSteps, WriteSteps DEF VerbNext, Writer
<1>5. CASE Pack \/ PeerNext
  BY <1>5, ShuttleSteps, MaterializeStep DEF PeerNext
<1>6. CASE PeerReads
  BY <1>6, ScanStatStep, ScanReadStep DEF PeerReads, Site
<1>7. CASE (\E w \in Writer : WriteFails(w)) \/ VerbDies
  BY <1>7, TearingSteps DEF Writer
<1>8. CASE LoopDies \/ PeerDies
  BY <1>8, LoopDiesStep, PeerDiesStep
<1>9. CASE UNCHANGED vars
  <2>1. UNCHANGED <<outbox, file, writing, reading, shuttle>>
    BY <1>9 DEF vars
  <2>2. ReadingOK' /\ Streams' /\ LogStep
    BY <2>1, Still DEF writing, NobodyBegins
  <2> QED
    BY <2>1, <2>2, Elsewhere DEF IInv
<1> QED
  BY <1>1, <1>2, <1>3, <1>4, <1>5, <1>6, <1>7, <1>8, <1>9 DEF Next

-----------------------------------------------------------------------------
(* The theorems *)

\* What the streams, the readers and the writers are, at every moment: above
\* all, that every offset that is remembered is the end of a line, and that
\* who is in the middle of a line left the bytes of it, and no others, behind
\* the last newline (_heal_tail and LedgerReader._scan rely on it).
THEOREM Invariance == Spec => []IInv
<1>1. Init => IInv
  BY Beginning
<1>2. IInv /\ [Next]_vars => IInv'
  BY Steps
<1> QED
  BY <1>1, <1>2, PTL DEF Spec

\* A file that a body dropped is in its outbox, was moved aside, or its fact is
\* on record: for any files, any widths of lines, any number of deaths and
\* write errors, and in whatever byte they fall (_ingest unlinks last).
THEOREM NothingIsLost == Spec => []NothingLost
<1>1. IInv => NothingLost
  BY DEF IInv
<1> QED
  BY <1>1, Invariance, PTL

\* The bytes keep the promise of a ledger: a fact is on record from the last
\* byte of its line on, after all the others and alone with its id, and no
\* reader, here or on the peer, holds what is not on record or forgets it while
\* it runs (append, _heal_tail and LedgerReader implement FactLog).
THEOREM StreamIsALog == Spec => IsALog
<1>1. Init => Log!Init
  BY Beginning
<1>2. IInv /\ [Next]_vars => [Log!Next]_Logged
  BY Steps DEF LogStep
<1> QED
  BY <1>1, <1>2, Invariance, PTL DEF Spec, IsALog, Log!Spec, Logged

=============================================================================
