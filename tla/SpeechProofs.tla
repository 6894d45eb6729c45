---------------------------- MODULE SpeechProofs ----------------------------
(***************************************************************************)
(* A letter is delivered at most once and the ledger says truly whether it *)
(* was, for any number of installs and router gens.                        *)
(*                                                                         *)
(* The argument: a letter carries one gen, a gen has one router, and an    *)
(* install speaks only if it has the router fact of the letter's gen.  So  *)
(* one install speaks, and its own store of sends is on disk before and    *)
(* after the effect.                                                       *)
(***************************************************************************)
EXTENDS Speech, TLAPS

\* A gen has one router, and only gens already granted have one.
Routers ==
    /\ \A i \in Install : \A f \in own[i] : f.kind = "router" => f.gen <= newest
    /\ \A i, j \in Install : \A f \in own[i], h \in own[j] :
          f.kind = "router" /\ h.kind = "router" /\ f.gen = h.gen => i = j

\* There is one draft, and what an install knows of another, that one wrote.
OneDraft ==
    /\ \A i, j \in Install : \A f \in own[i], h \in own[j] :
          f.kind = "letter" /\ h.kind = "letter" => f = h
    /\ \A i \in Install : \A f \in known[i] \cup pushed[i] :
          \E j \in Install : f \in own[j]

\* The install has the router fact of the gen the letter was drafted under.
Speaker(i) ==
    \E f \in own[i] : \E j \in Install : \E h \in own[j] :
        f.kind = "router" /\ h.kind = "letter" /\ f.gen = h.gen

\* Whoever is in speak, or was, is a speaker.
Speakers ==
    \A i \in Install : sends[i] # "none" \/ call[i].step # "idle" => Speaker(i)

\* What the store of sends holds at each step of speak.
Stored ==
    \A i \in Install :
        /\ call[i].step = "leased" => sends[i] = "none"
        /\ call[i].step \in {"intended", "ran"} => sends[i] = "intended"
        /\ call[i].step = "say" /\ call[i].status \in {"sent", "not-sent"}
             => sends[i] = call[i].status
        /\ call[i].step = "say" /\ call[i].status = "maybe-sent"
             => sends[i] \in {"none", "intended"}

\* What has been delivered, as the store and the steps tell it.
Delivered ==
    /\ delivered \in {0, 1}
    /\ delivered = 1 => \E i \in Install : sends[i] # "none"
    /\ \A i \in Install :
          /\ call[i].step = "intended" => delivered = 0
          /\ sends[i] = "sent" => delivered = 1
          /\ sends[i] = "not-sent" => delivered = 0
          /\ call[i].step = "ran" /\ call[i].status = "sent" => delivered = 1
          /\ call[i].step = "ran" /\ call[i].status = "not-sent" => delivered = 0

\* A speech fact repeats the store.
Spoken ==
    \A i \in Install : \A f \in own[i] :
        f.kind = "speech" /\ f.what \in {"sent", "not-sent"} => sends[i] = f.what

IInv == /\ TypeOK /\ Routers /\ OneDraft /\ Speakers /\ Stored /\ Delivered /\ Spoken

-----------------------------------------------------------------------------
(* Type correctness *)

\* The facts the actions write are facts.
LEMMA FactsTyped ==
    /\ \A g \in Gen : FactOf("router", "taken", g) \in Fact
    /\ \A g \in Gen : \A w \in {"draft", "stray"} : FactOf("letter", w, g) \in Fact
    /\ \A g \in Gen : \A w \in {"sent", "not-sent", "intended"} :
          FactOf("speech", w, g) \in Fact
    /\ \A w \in {"refused", "stale", "maybe-sent"} : FactOf("disposed", w, 0) \in Fact
  BY DEF Fact, FactOf

\* Writing a fact keeps the ledgers typed.
LEMMA WriteTyped ==
    ASSUME TypeOK, NEW i \in Install, NEW f \in Fact, Write(i, f)
    PROVE  own' \in [Install -> SUBSET Fact]
  BY DEF TypeOK, Write

\* Every step keeps the type invariant.
LEMMA TypeStep == TypeOK /\ [Next]_vars => TypeOK'
<1> SUFFICES ASSUME TypeOK, [Next]_vars PROVE TypeOK'
  OBVIOUS
<1> USE SpeechConstants
<1>1. CASE UNCHANGED vars
  BY <1>1 DEF TypeOK, vars
<1>2. ASSUME NEW i \in Install, Take(i) PROVE TypeOK'
  <2>1. newest + 1 \in Gen
    BY <1>2 DEF Take, TypeOK, Gen
  <2>2. own' \in [Install -> SUBSET Fact]
    BY <1>2, <2>1, FactsTyped, WriteTyped DEF Take, TypeOK
  <2> QED
    BY <1>2, <2>1, <2>2 DEF Take, TypeOK
<1>3. ASSUME NEW i \in Install, Arm(i) \/ Expire(i) \/ StepDown(i) PROVE TypeOK'
  <2>1. 0 \in Gen
    BY DEF Gen
  <2> QED
    BY <1>3, <2>1 DEF Arm, Expire, StepDown, TypeOK, routerVars, ledgerVars
<1>4. ASSUME NEW i \in Install, PushLedger(i) PROVE TypeOK'
  BY <1>4 DEF PushLedger, TypeOK, routerVars
<1>5. ASSUME NEW i \in Install, NEW j \in Install, Sync(i, j) PROVE TypeOK'
  BY <1>5 DEF Sync, TypeOK, routerVars
<1>6. ASSUME NEW i \in Install, Crash(i) \/ SlotExpires(i) PROVE TypeOK'
  <2>1. 0 \in Gen
    BY DEF Gen
  <2> QED
    BY <1>6, <2>1 DEF Crash, SlotExpires, TypeOK, routerVars, ledgerVars, Idle, At, Calls
<1>7. ASSUME NEW i \in Install, Draft(i) PROVE TypeOK'
  <2>1. RouterGens(i) \subseteq Gen
    BY DEF TypeOK, RouterGens, View, Fact
  <2>2. Stamp(i) \subseteq Gen
    BY <2>1 DEF Stamp, Gen
  <2>3. own' \in [Install -> SUBSET Fact]
    BY <1>7, <2>2, FactsTyped, WriteTyped DEF Draft
  <2> QED
    BY <1>7, <2>3 DEF Draft, TypeOK, routerVars, ledgerVars
<1>8. ASSUME NEW i \in Install, TellStale(i) \/ TellStray(i) PROVE TypeOK'
  <2>1. own' \in [Install -> SUBSET Fact]
    BY <1>8, FactsTyped, WriteTyped DEF TellStale, TellStray
  <2> QED
    BY <1>8, <2>1 DEF TellStale, TellStray, TypeOK, routerVars, ledgerVars
<1>9. ASSUME NEW i \in Install,
             Speak(i) \/ Intend(i) \/ StaleEffect(i) \/ Effect(i) \/ Receipt(i)
      PROVE  TypeOK'
  <2>1. CASE Speak(i)
    BY <2>1 DEF Speak, Step, At, Calls, Status, TypeOK, routerVars, ledgerVars
  <2>2. CASE Intend(i) \/ StaleEffect(i)
    BY <2>2 DEF Intend, StaleEffect, Step, At, Idle, Calls, TypeOK, routerVars, ledgerVars
  <2>3. CASE Effect(i)
    BY <2>3 DEF Effect, Step, At, Calls, Status, TypeOK, routerVars, ledgerVars
  <2>4. CASE Receipt(i)
    <3>1. call[i].status \in Status
      BY <2>4 DEF Receipt, TypeOK, Calls
    <3>2. At("say", call[i].status) \in Calls
      BY <3>1 DEF At, Calls
    <3> QED
      BY <2>4, <3>1, <3>2 DEF Receipt, Step, Status, TypeOK, routerVars, ledgerVars
  <2> QED
    BY <1>9, <2>1, <2>2, <2>3, <2>4
<1>10. ASSUME NEW i \in Install, Say(i) PROVE TypeOK'
  <2>1. lead[i] \in Gen /\ call[i].status \in Status
    BY <1>10 DEF Say, TypeOK, Calls
  <2>2. own' \in [Install -> SUBSET Fact]
    BY <1>10, <2>1, FactsTyped, WriteTyped DEF Say, Status, TypeOK
  <2>3. call' \in [Install -> Calls]
    BY <1>10 DEF Say, Step, At, Idle, Calls, TypeOK
  <2> QED
    BY <1>10, <2>2, <2>3 DEF Say, TypeOK, routerVars, ledgerVars
<1>11. ASSUME NEW i \in Install, Tell(i) PROVE TypeOK'
  <2>1. call[i].status \in {"refused", "maybe-sent"} /\ Idle \in Calls
    BY <1>11 DEF Tell, TypeOK, Calls, Idle, At
  <2>2. own' \in [Install -> SUBSET Fact]
    BY <1>11, <2>1, FactsTyped, WriteTyped DEF Tell, TypeOK
  <2> QED
    BY <1>11, <2>1, <2>2 DEF Tell, TypeOK, routerVars, ledgerVars
<1> QED
  BY <1>1, <1>2, <1>3, <1>4, <1>5, <1>6, <1>7, <1>8, <1>9, <1>10, <1>11
     DEF Next, SpeakOut

\* The initial state has the types.
LEMMA TypeInit == Init => TypeOK
  BY SpeechConstants DEF Init, TypeOK, Gen, Idle, At, Calls

\* The ledgers, the store of sends and the calls keep the types they are read
\* with.
THEOREM SpeechTypeCorrect == Spec => []TypeOK
  BY TypeInit, TypeStep, PTL DEF Spec

-----------------------------------------------------------------------------
(* The inductive invariant *)

\* One letter, one gen, one router: one speaker.
LEMMA SpeakerUnique ==
    ASSUME IInv, NEW i \in Install, NEW j \in Install, Speaker(i), Speaker(j)
    PROVE  i = j
  BY DEF IInv, Routers, OneDraft, Speaker

\* A speech fact or a disposition changes nothing that makes a speaker.
LEMMA WordsQuiet ==
    ASSUME IInv, NEW i \in Install, NEW f \in Fact, f.kind \in {"speech", "disposed"},
           own' = own \/ Write(i, f), UNCHANGED <<newest, known, pushed>>
    PROVE  Routers' /\ OneDraft' /\ \A k \in Install : Speaker(k) => Speaker(k)'
<1>1. \A k \in Install : /\ own[k] \subseteq own'[k]
                         /\ own'[k] \subseteq own[k] \cup {f}
  BY DEF IInv, TypeOK, Write
<1>2. f.kind # "router" /\ f.kind # "letter"
  OBVIOUS
<1>3. Routers'
  BY <1>1, <1>2 DEF IInv, Routers
<1>4. OneDraft'
  <2>1. \A k \in Install : known'[k] = known[k] /\ pushed'[k] = pushed[k]
    OBVIOUS
  <2> QED
    BY <1>1, <1>2, <2>1 DEF IInv, OneDraft
<1>5. \A k \in Install : Speaker(k) => Speaker(k)'
  BY <1>1 DEF Speaker
<1> QED
  BY <1>3, <1>4, <1>5

\* A letter in sight is the draft, and its router fact makes a speaker.
LEMMA ReadySpeaks ==
    ASSUME IInv, NEW i \in Install, Ready(i, "draft")
    PROVE  Speaker(i)
<1>1. PICK gen \in Gen : Owed(i, "draft", gen) /\ gen <= lead[i] /\ HeldSince(i, gen)
  BY DEF Ready
<1>2. FactOf("router", "taken", gen) \in own[i]
  BY <1>1 DEF HeldSince, IInv, TypeOK, Gen
<1>3. \E j \in Install : FactOf("letter", "draft", gen) \in own[j]
  BY <1>1 DEF Owed, View, IInv, OneDraft
<1> QED
  BY <1>2, <1>3 DEF Speaker, FactOf

\* The loop dies, the lease moves or the ledgers travel: speak is where it
\* was, or nowhere.
LEMMA AsideStep ==
    ASSUME IInv, TypeOK', NEW i \in Install,
           UNCHANGED <<newest, own, sends, delivered>>,
           call' = call \/ call' = [call EXCEPT ![i] = Idle],
           \A k \in Install : \A f \in known'[k] \cup pushed'[k] :
               \E j \in Install : f \in own[j]
    PROVE  IInv'
<1>1. Routers' /\ OneDraft'
  BY DEF IInv, Routers, OneDraft
<1>2. \A k \in Install : Speaker(k) => Speaker(k)'
  BY DEF Speaker
<1>3. \A k \in Install : call'[k] = call[k] \/ call'[k].step = "idle"
  BY DEF IInv, TypeOK, Idle, At
<1>4. Speakers' /\ Stored'
  BY <1>2, <1>3 DEF IInv, Speakers, Stored
<1>5. Delivered' /\ Spoken'
  BY <1>3 DEF IInv, Delivered, Spoken
<1> QED
  BY <1>1, <1>4, <1>5 DEF IInv

\* An install with its speaker fact moves on in speak.
LEMMA SpeakerStep ==
    ASSUME IInv, NEW i \in Install, Speaker(i), NEW c \in Calls,
           NEW s \in {"none", "intended", "sent", "not-sent"},
           \A k \in Install : Speaker(k) => Speaker(k)',
           call' = [call EXCEPT ![i] = c], sends' = [sends EXCEPT ![i] = s],
           c.step = "leased" => s = "none",
           c.step \in {"intended", "ran"} => s = "intended",
           c.step = "say" /\ c.status \in {"sent", "not-sent"} => s = c.status,
           c.step = "say" /\ c.status = "maybe-sent" => s \in {"none", "intended"}
    PROVE  Speakers' /\ Stored'
<1>1. \A k \in Install : /\ call'[k] = IF k = i THEN c ELSE call[k]
                         /\ sends'[k] = IF k = i THEN s ELSE sends[k]
  BY DEF IInv, TypeOK
<1>2. Speakers'
  BY <1>1 DEF IInv, Speakers
<1>3. Stored'
  BY <1>1 DEF IInv, Stored
<1> QED
  BY <1>2, <1>3

\* Where nothing is delivered and the store of sends stays.
LEMMA StillStep ==
    ASSUME IInv, NEW i \in Install, NEW c \in Calls,
           UNCHANGED <<sends, delivered>>,
           call' = call \/ call' = [call EXCEPT ![i] = c],
           c.step \notin {"intended", "ran"}
    PROVE  Delivered'
<1>1. \A k \in Install : call'[k] = call[k] \/ call'[k].step \notin {"intended", "ran"}
  BY DEF IInv, TypeOK
<1> QED
  BY <1>1 DEF IInv, Delivered

\* Before its own effect a letter is undelivered: the one speaker has not
\* begun to send it.
LEMMA Undelivered ==
    ASSUME IInv, NEW i \in Install, Speaker(i), sends[i] = "none"
    PROVE  delivered = 0
<1>1. \A j \in Install : sends[j] # "none" => j = i
  BY SpeakerUnique DEF IInv, Speakers
<1> QED
  BY <1>1 DEF IInv, Delivered

\* Every step keeps the inductive invariant.
LEMMA InvStep == IInv /\ [Next]_vars => IInv'
<1> SUFFICES ASSUME IInv, [Next]_vars PROVE IInv'
  OBVIOUS
<1>t. TypeOK'
  BY TypeStep DEF IInv
<1>k. /\ \A k \in Install : own[k] \subseteq Fact /\ call[k] \in Calls
      /\ \A k \in Install : \A f \in known[k] \cup pushed[k] : \E j \in Install : f \in own[j]
      /\ Idle \in Calls /\ Idle.step = "idle"
  BY DEF IInv, TypeOK, OneDraft, Idle, At, Calls
<1>1. CASE UNCHANGED vars
  <2>1. /\ \A k \in Install : Speaker(k) => Speaker(k)'
        /\ UNCHANGED <<newest, own, known, pushed, sends, call, delivered>>
    BY <1>1 DEF vars, Speaker
  <2> QED
    BY <1>t, <2>1 DEF IInv, Routers, OneDraft, Speakers, Stored, Delivered, Spoken
<1>2. ASSUME NEW i \in Install, Take(i) PROVE IInv'
  <2>0. /\ UNCHANGED <<known, sends, call, delivered>> /\ newest' = newest + 1
        /\ newest \in Nat /\ pushed' = [pushed EXCEPT ![i] = own[i]]
        /\ FactOf("router", "taken", newest + 1).kind = "router"
        /\ FactOf("router", "taken", newest + 1).gen = newest + 1
    BY <1>2, SpeechConstants DEF Take, IInv, TypeOK, Gen, FactOf
  <2> DEFINE r == FactOf("router", "taken", newest + 1)
  <2>1. \A k \in Install : /\ own[k] \subseteq own'[k]
                           /\ own'[k] \subseteq own[k] \cup {r}
                           /\ k # i => own'[k] = own[k]
    BY <1>2 DEF Take, Write, IInv, TypeOK
  <2>2. \A k \in Install : \A f \in own[k] : f.gen \in Nat
    BY SpeechConstants DEF IInv, TypeOK, Fact, Gen
  <2> HIDE DEF r
  <2>3. r.kind = "router" /\ r.gen = newest + 1
    BY <2>0 DEF r
  <2>4. Routers'
    BY <2>0, <2>1, <2>2, <2>3 DEF IInv, Routers
  <2>5. OneDraft'
    <3>1. \A k \in Install : pushed'[k] = pushed[k] \/ pushed'[k] = own[k]
      BY <2>0 DEF IInv, TypeOK
    <3> QED
      BY <1>k, <2>0, <2>1, <2>3, <3>1 DEF IInv, OneDraft
  <2>6. \A k \in Install : Speaker(k) => Speaker(k)'
    BY <2>1 DEF Speaker
  <2>7. Spoken'
    BY <2>0, <2>1, <2>3 DEF IInv, Spoken
  <2>8. Speakers' /\ Stored' /\ Delivered'
    BY <2>0, <2>6 DEF IInv, Speakers, Stored, Delivered
  <2> QED
    BY <1>t, <2>4, <2>5, <2>7, <2>8 DEF IInv
<1>3. ASSUME NEW i \in Install,
             Arm(i) \/ Expire(i) \/ StepDown(i) \/ Crash(i) \/ SlotExpires(i)
      PROVE  IInv'
  BY <1>3, <1>t, <1>k, AsideStep
     DEF Arm, Expire, StepDown, Crash, SlotExpires, routerVars, ledgerVars
<1>4. ASSUME NEW i \in Install, PushLedger(i) PROVE IInv'
  <2>1. /\ UNCHANGED <<newest, own, known, sends, call, delivered>>
        /\ pushed' = [pushed EXCEPT ![i] = own[i]]
    BY <1>4 DEF PushLedger, routerVars
  <2>2. \A k \in Install : pushed'[k] = pushed[k] \/ pushed'[k] = own[k]
    BY <2>1 DEF IInv, TypeOK
  <2> QED
    BY <1>t, <1>k, <2>1, <2>2, AsideStep
<1>5. ASSUME NEW i \in Install, NEW j \in Install, Sync(i, j) PROVE IInv'
  <2>1. /\ UNCHANGED <<newest, own, pushed, sends, call, delivered>>
        /\ known' = [known EXCEPT ![i] = @ \cup pushed[j]]
    BY <1>5 DEF Sync, routerVars
  <2>2. \A k \in Install : known'[k] \subseteq known[k] \cup pushed[j]
    BY <2>1 DEF IInv, TypeOK
  <2> QED
    BY <1>5, <1>t, <1>k, <2>1, <2>2, AsideStep
<1>6. ASSUME NEW i \in Install, Draft(i) PROVE IInv'
  <2>1. PICK g \in Stamp(i), w \in {"draft", "stray"} : Write(i, FactOf("letter", w, g))
    BY <1>6 DEF Draft
  <2> DEFINE d == FactOf("letter", w, g)
  <2>2. /\ d.kind = "letter"
        /\ UNCHANGED <<newest, known, pushed, sends, call, delivered>>
        /\ \A k \in Install : \A f \in own[k] : f.kind # "letter"
    BY <1>6 DEF Draft, Drafted, routerVars, ledgerVars, FactOf
  <2>3. \A k \in Install : /\ own[k] \subseteq own'[k]
                           /\ own'[k] \subseteq own[k] \cup {d}
    BY <2>1 DEF Write, IInv, TypeOK
  <2> HIDE DEF d
  <2>4. Routers'
    BY <2>2, <2>3 DEF IInv, Routers
  <2>5. OneDraft'
    BY <1>k, <2>2, <2>3 DEF IInv, OneDraft
  <2>6. \A k \in Install : Speaker(k) => Speaker(k)'
    BY <2>3 DEF Speaker
  <2>7. Spoken'
    BY <2>2, <2>3 DEF IInv, Spoken
  <2>8. Speakers' /\ Stored' /\ Delivered'
    BY <2>2, <2>6 DEF IInv, Speakers, Stored, Delivered
  <2> QED
    BY <1>t, <2>4, <2>5, <2>7, <2>8 DEF IInv
<1>7. ASSUME NEW i \in Install, TellStale(i) \/ TellStray(i) \/ Tell(i) PROVE IInv'
  <2>1. PICK f \in Fact : f.kind = "disposed" /\ (own' = own \/ Write(i, f))
    <3>1. CASE TellStale(i) \/ TellStray(i)
      <4>1. /\ FactOf("disposed", "stale", 0) \in Fact
            /\ FactOf("disposed", "refused", 0) \in Fact
        BY FactsTyped
      <4> QED
        BY <3>1, <4>1 DEF TellStale, TellStray, FactOf
    <3>2. CASE Tell(i)
      <4>1. call[i].status \in {"refused", "maybe-sent"}
        BY <3>2, <1>k DEF Tell, Calls
      <4>2. FactOf("disposed", call[i].status, 0) \in Fact
        BY <4>1, FactsTyped
      <4> QED
        BY <3>2, <4>2 DEF Tell, FactOf
    <3> QED
      BY <1>7, <3>1, <3>2
  <2>2. /\ UNCHANGED <<newest, known, pushed, sends, delivered>>
        /\ call' = call \/ call' = [call EXCEPT ![i] = Idle]
    BY <1>7 DEF TellStale, TellStray, Tell, routerVars, ledgerVars
  <2>3. Routers' /\ OneDraft' /\ \A k \in Install : Speaker(k) => Speaker(k)'
    BY <2>1, <2>2, WordsQuiet
  <2>4. \A k \in Install : call'[k] = call[k] \/ call'[k].step = "idle"
    BY <2>2, <1>k DEF IInv, TypeOK
  <2>5. Speakers' /\ Stored' /\ Delivered'
    BY <2>2, <2>3, <2>4 DEF IInv, Speakers, Stored, Delivered
  <2>6. Spoken'
    BY <2>1, <2>2 DEF IInv, TypeOK, Spoken, Write
  <2> QED
    BY <1>t, <2>3, <2>5, <2>6 DEF IInv
<1>8. ASSUME NEW i \in Install, Speak(i) PROVE IInv'
  <2>1. Speaker(i)
    BY <1>8, ReadySpeaks DEF Speak
  <2>2. PICK c \in Calls :
          /\ call' = [call EXCEPT ![i] = c] /\ c.step \notin {"intended", "ran"}
          /\ c.step = "leased" => sends[i] = "none"
          /\ c.step = "say" /\ c.status \in {"sent", "not-sent"} => sends[i] = c.status
          /\ c.step = "say" /\ c.status = "maybe-sent" => sends[i] \in {"none", "intended"}
    <3>1. \A s \in Status : At("say", s) \in Calls /\ At("say", s).step = "say"
                                /\ At("say", s).status = s
      BY DEF At, Calls
    <3>2. At("leased", "none") \in Calls /\ At("leased", "none").step = "leased"
      BY DEF At, Calls
    <3>3. CASE sends[i] \in {"sent", "not-sent"} /\ Step(i, "say", sends[i])
      BY <3>1, <3>3 DEF Step, Status
    <3>4. CASE sends[i] \in {"none", "intended"} /\ Step(i, "say", "maybe-sent")
      BY <3>1, <3>4 DEF Step, Status
    <3>5. CASE sends[i] = "none" /\ Step(i, "leased", "none")
      BY <3>2, <3>5 DEF Step
    <3> QED
      BY <1>8, <3>3, <3>4, <3>5 DEF Speak
  <2>3. /\ UNCHANGED <<newest, own, known, pushed, sends, delivered>>
        /\ sends' = [sends EXCEPT ![i] = sends[i]]
        /\ sends[i] \in {"none", "intended", "sent", "not-sent"}
    BY <1>8 DEF Speak, routerVars, ledgerVars, IInv, TypeOK
  <2>4. \A k \in Install : Speaker(k) => Speaker(k)'
    BY <2>3 DEF Speaker
  <2>5. Speakers' /\ Stored'
    BY <2>1, <2>2, <2>3, <2>4, SpeakerStep
  <2>6. Delivered'
    BY <2>2, <2>3, StillStep
  <2> QED
    BY <1>t, <2>3, <2>5, <2>6 DEF IInv, Routers, OneDraft, Spoken
<1>9. ASSUME NEW i \in Install,
             Intend(i) \/ StaleEffect(i) \/ Effect(i) \/ Receipt(i)
      PROVE  IInv'
  <2>1. Speaker(i)
    BY <1>9 DEF Intend, StaleEffect, Effect, Receipt, IInv, Speakers
  <2>2. /\ UNCHANGED <<newest, own, known, pushed>>
        /\ \A k \in Install : k # i => sends[k] = "none"
        /\ \A k \in Install : k # i => call[k].step = "idle"
    BY <1>9, <2>1, SpeakerUnique
       DEF Intend, StaleEffect, Effect, Receipt, routerVars, ledgerVars, IInv, Speakers
  <2>3. \A k \in Install : Speaker(k) => Speaker(k)'
    BY <2>2 DEF Speaker
  <2>4. Routers' /\ OneDraft'
    BY <2>2 DEF IInv, Routers, OneDraft
  <2>5. CASE Intend(i)
    <3>1. delivered = 0 /\ delivered' = 0 /\ sends[i] = "none"
      BY <2>1, <2>5, Undelivered DEF Intend, IInv, Stored
    <3>2. call' = [call EXCEPT ![i] = At("intended", "none")]
          /\ sends' = [sends EXCEPT ![i] = "intended"]
      BY <2>5 DEF Intend, Step
    <3>3. At("intended", "none") \in Calls /\ At("intended", "none").step = "intended"
      BY DEF At, Calls
    <3>4. Speakers' /\ Stored'
      BY <2>1, <2>3, <3>2, <3>3, SpeakerStep
    <3>5. \A k \in Install : /\ call'[k].step \in {"idle", "intended"}
                             /\ sends'[k] \in {"none", "intended"}
      BY <2>2, <3>2, <3>3 DEF IInv, TypeOK
    <3>6. Delivered'
      BY <3>1, <3>5 DEF Delivered
    <3>7. Spoken'
      BY <2>2, <3>1 DEF IInv, Spoken
    <3> QED
      BY <1>t, <2>4, <3>4, <3>6, <3>7 DEF IInv
  <2>6. CASE StaleEffect(i)
    <3>1. UNCHANGED <<newest, own, known, pushed, sends, delivered>>
          /\ call' = [call EXCEPT ![i] = Idle]
      BY <2>6 DEF StaleEffect, routerVars, ledgerVars
    <3> QED
      BY <1>t, <1>k, <3>1, AsideStep
  <2>7. CASE Effect(i)
    <3>1. /\ call[i].step = "intended" /\ delivered = 0 /\ sends[i] = "intended"
          /\ UNCHANGED sends /\ delivered' \in {0, 1}
      BY <2>7 DEF Effect, IInv, Stored, Delivered
    <3>2. PICK s \in Status : /\ call' = [call EXCEPT ![i] = At("ran", s)]
                              /\ s = "sent" => delivered' = 1
                              /\ s = "not-sent" => delivered' = 0
      BY <2>7, <3>1 DEF Effect, Step, Status
    <3>3. At("ran", s) \in Calls /\ At("ran", s).step = "ran" /\ At("ran", s).status = s
      BY DEF At, Calls
    <3>4. sends' = [sends EXCEPT ![i] = "intended"]
      BY <3>1 DEF IInv, TypeOK
    <3>5. Speakers' /\ Stored'
      BY <2>1, <2>3, <3>2, <3>3, <3>4, SpeakerStep
    <3>6. \A k \in Install : call'[k] = IF k = i THEN At("ran", s) ELSE call[k]
      BY <3>2 DEF IInv, TypeOK
    <3>7. Delivered'
      BY <2>2, <3>1, <3>2, <3>3, <3>6 DEF Delivered
    <3>8. Spoken'
      BY <2>2, <3>1 DEF IInv, Spoken
    <3> QED
      BY <1>t, <2>4, <3>5, <3>7, <3>8 DEF IInv
  <2>8. CASE Receipt(i)
    <3> DEFINE s == call[i].status
               m == IF s = "maybe-sent" THEN sends[i] ELSE s
    <3>1. /\ call[i].step = "ran" /\ sends[i] = "intended" /\ UNCHANGED delivered
          /\ s \in Status
          /\ s = "sent" => delivered = 1
          /\ s = "not-sent" => delivered = 0
      BY <2>8, <1>k DEF Receipt, IInv, Stored, Delivered, Calls
    <3>2. /\ call' = [call EXCEPT ![i] = At("say", s)]
          /\ sends' = [sends EXCEPT ![i] = m]
      BY <2>8 DEF Receipt, Step
    <3>3. /\ At("say", s) \in Calls /\ At("say", s).step = "say" /\ At("say", s).status = s
          /\ m \in {"intended", "sent", "not-sent"}
          /\ s \in {"sent", "not-sent"} => m = s
          /\ m = "sent" => s = "sent"
          /\ m = "not-sent" => s = "not-sent"
          /\ s = "maybe-sent" => m = "intended"
      BY <3>1 DEF At, Calls, Status
    <3> HIDE DEF m, s
    <3>4. Speakers' /\ Stored'
      BY <2>1, <2>3, <3>2, <3>3, SpeakerStep
    <3>5. \A k \in Install : /\ call'[k] = IF k = i THEN At("say", s) ELSE call[k]
                             /\ sends'[k] = IF k = i THEN m ELSE sends[k]
      BY <3>2 DEF IInv, TypeOK
    <3>6. Delivered'
      BY <2>2, <3>1, <3>3, <3>5 DEF IInv, Delivered
    <3>7. Spoken'
      BY <2>2, <3>1, <3>5 DEF IInv, Spoken
    <3> QED
      BY <1>t, <2>4, <3>4, <3>6, <3>7 DEF IInv
  <2> QED
    BY <1>9, <2>5, <2>6, <2>7, <2>8
<1>10. ASSUME NEW i \in Install, Say(i) PROVE IInv'
  <2> DEFINE state == IF call[i].status = "maybe-sent" THEN "intended" ELSE call[i].status
             f == FactOf("speech", state, lead[i])
  <2>1. call[i].step = "say" /\ call[i].status \in Status /\ lead[i] \in Gen
    BY <1>10, <1>k DEF Say, Calls, IInv, TypeOK
  <2>2. /\ f \in Fact /\ f.kind = "speech" /\ f.what = state
        /\ state \in {"sent", "not-sent"} => sends[i] = state
    BY <2>1, FactsTyped DEF Status, FactOf, IInv, Stored
  <2>3. /\ own' = own \/ Write(i, f)
        /\ UNCHANGED <<newest, known, pushed, sends, delivered>>
    BY <1>10 DEF Say, routerVars, ledgerVars
  <2>4. Speaker(i)
    BY <2>1 DEF IInv, Speakers
  <2>5. PICK c \in Calls : call' = [call EXCEPT ![i] = c] /\ c.step \in {"idle", "tell"}
    BY <1>10, <1>k DEF Say, Step, At, Calls
  <2> HIDE DEF f, state
  <2>6. Routers' /\ OneDraft' /\ \A k \in Install : Speaker(k) => Speaker(k)'
    BY <2>2, <2>3, WordsQuiet
  <2>7. sends' = [sends EXCEPT ![i] = sends[i]]
        /\ sends[i] \in {"none", "intended", "sent", "not-sent"}
    BY <2>3 DEF IInv, TypeOK
  <2>8. Speakers' /\ Stored'
    BY <2>4, <2>5, <2>6, <2>7, SpeakerStep
  <2>9. Delivered'
    BY <2>3, <2>5, StillStep
  <2>10. Spoken'
    BY <2>2, <2>3 DEF IInv, TypeOK, Spoken, Write
  <2> QED
    BY <1>t, <2>6, <2>8, <2>9, <2>10 DEF IInv
<1> QED
  BY <1>1, <1>2, <1>3, <1>4, <1>5, <1>6, <1>7, <1>8, <1>9, <1>10 DEF Next, SpeakOut

\* The inductive invariant holds before the first lease.
LEMMA InvInit == Init => IInv
<1> SUFFICES ASSUME Init PROVE IInv
  OBVIOUS
<1>1. TypeOK
  BY TypeInit
<1> QED
  BY <1>1 DEF Init, IInv, Routers, OneDraft, Speakers, Stored, Delivered, Spoken, Idle, At

\* The inductive invariant gives one speaker.
LEMMA InvOneSpeaker == IInv => OneSpeaker
<1> SUFFICES ASSUME IInv, NEW i \in Install, NEW j \in Install,
                    sends[i] # "none", sends[j] # "none"
             PROVE  i = j
  BY DEF OneSpeaker
<1>1. Speaker(i) /\ Speaker(j)
  BY DEF IInv, Speakers
<1> QED
  BY <1>1, SpeakerUnique

-----------------------------------------------------------------------------
(* Theorems *)

\* A person gets a letter at most once, whatever is lost, repeated, taken over
\* or restarted (speak, effect_once).
THEOREM DeliveredOnce == Spec => []AtMostOnce
<1>1. IInv => AtMostOnce
  BY DEF IInv, Delivered, AtMostOnce
<1> QED
  BY <1>1, InvInit, InvStep, PTL DEF Spec

\* At most one install ever begins to send a letter (_stamp_router, _held_since).
THEOREM OneSender == Spec => []OneSpeaker
  BY InvOneSpeaker, InvInit, InvStep, PTL DEF Spec

\* The ledger never calls a letter sent that was not, nor not-sent one that
\* was or will be (speak's own fact).
THEOREM LedgerIsTrue == Spec => []SpeechTrue
<1>1. IInv => SpeechTrue
  BY DEF IInv, Spoken, Delivered, SpeechTrue
<1> QED
  BY <1>1, InvInit, InvStep, PTL DEF Spec

-----------------------------------------------------------------------------
(* Speaking implements one attempt *)

Said == {f.what : f \in {f \in UNION {own[i] : i \in Install} : f.kind = "speech"}}
onceVars == <<Attempt, delivered, Said>>

\* The attempt is that of the one install which has one.
TheAttempt == \A i \in Install : sends[i] # "none" => Attempt = sends[i]

LEMMA AttemptIs == OneSpeaker => TheAttempt
<1> SUFFICES ASSUME OneSpeaker, NEW i \in Install, sends[i] # "none" PROVE Attempt = sends[i]
  BY DEF TheAttempt
<1> DEFINE c == CHOOSE k \in Install : sends[k] # "none"
<1>1. c \in Install /\ sends[c] # "none"
  OBVIOUS
<1>2. c = i
  BY <1>1 DEF OneSpeaker
<1> QED
  BY <1>2 DEF Attempt

\* Nobody tried: there is no attempt.
LEMMA NoAttempt == (\A i \in Install : sends[i] = "none") => Attempt = "none"
  BY DEF Attempt

\* Whoever is in speak has the attempt, or there is none yet.
LEMMA AttemptInSpeak ==
    ASSUME IInv, NEW i \in Install, call[i].step # "idle"
    PROVE  Attempt = sends[i]
<1>1. CASE sends[i] # "none"
  BY <1>1, InvOneSpeaker, AttemptIs DEF TheAttempt
<1>2. CASE sends[i] = "none"
  <2>1. ASSUME NEW k \in Install, sends[k] # "none" PROVE FALSE
    <3>1. Speaker(i) /\ Speaker(k)
      BY <2>1 DEF IInv, Speakers
    <3>2. i = k
      BY <3>1, SpeakerUnique
    <3> QED
      BY <1>2, <2>1, <3>2
  <2> QED
    BY <1>2, <2>1, NoAttempt
<1> QED
  BY <1>1, <1>2

\* A fact that is not a speech fact, and none at all, leave what is said.
LEMMA SaidStays ==
    ASSUME TypeOK,
           \/ UNCHANGED own
           \/ \E i \in Install : \E f : Write(i, f) /\ f.kind # "speech"
    PROVE  Said' = Said
<1>1. CASE UNCHANGED own
  BY <1>1 DEF Said
<1>2. ASSUME NEW i \in Install, NEW f, Write(i, f), f.kind # "speech" PROVE Said' = Said
  <2>1. \A k \in Install : own'[k] = IF k = i THEN own[i] \cup {f} ELSE own[k]
    BY <1>2 DEF Write, TypeOK
  <2>2. UNION {own'[k] : k \in Install} = (UNION {own[k] : k \in Install}) \cup {f}
    BY <2>1
  <2> QED
    BY <1>2, <2>2 DEF Said
<1> QED
  BY <1>1, <1>2

\* A speech fact adds its word.
LEMMA SaidGrows ==
    ASSUME TypeOK, NEW i \in Install, NEW f, Write(i, f), f.kind = "speech"
    PROVE  Said' = Said \cup {f.what}
<1>1. \A k \in Install : own'[k] = IF k = i THEN own[i] \cup {f} ELSE own[k]
  BY DEF Write, TypeOK
<1>2. UNION {own'[k] : k \in Install} = (UNION {own[k] : k \in Install}) \cup {f}
  BY <1>1
<1> QED
  BY <1>2 DEF Said

\* Every step of an install maps to a step of the abstract attempt or to none.
LEMMA OnceStep == IInv /\ IInv' /\ [Next]_vars => [Once!Next]_onceVars
<1> SUFFICES ASSUME IInv, IInv', [Next]_vars PROVE [Once!Next]_onceVars
  OBVIOUS
<1>t. TypeOK
  BY DEF IInv
<1>v. /\ UNCHANGED sends => UNCHANGED Attempt
      /\ UNCHANGED <<Attempt, delivered, Said>> => UNCHANGED onceVars
  BY DEF Attempt, onceVars
<1>0. CASE UNCHANGED vars
  BY <1>0 DEF vars, onceVars, Attempt, Said
<1>1. ASSUME NEW i \in Install, Intend(i) PROVE Once!Begin
  <2>1. Attempt = "none"
    BY <1>1, AttemptInSpeak DEF IInv, Stored, Intend
  <2>2. sends'[i] = "intended"
    BY <1>1, <1>t DEF Intend, TypeOK
  <2>3. TheAttempt'
    BY InvOneSpeaker, AttemptIs, PTL
  <2>4. Attempt' = "intended"
    BY <2>2, <2>3 DEF TheAttempt
  <2>5. Said' = Said /\ UNCHANGED delivered
    BY <1>1, <1>t, SaidStays DEF Intend
  <2> QED
    BY <2>1, <2>4, <2>5 DEF Once!Begin, Said
<1>2. ASSUME NEW i \in Install, Effect(i) PROVE Once!Reach \/ UNCHANGED onceVars
  <2>1. Attempt = "intended"
    BY <1>2, AttemptInSpeak DEF IInv, Stored, Effect
  <2>2. UNCHANGED <<Attempt, Said>>
    BY <1>2, <1>t, <1>v, SaidStays DEF Effect
  <2>3. delivered = 0 /\ delivered' \in {0, 1}
    BY <1>2 DEF Effect, IInv, Delivered
  <2> QED
    BY <1>v, <2>1, <2>2, <2>3 DEF Once!Reach, Said
<1>3. ASSUME NEW i \in Install, Receipt(i)
      PROVE  (\E verdict \in {"sent", "not-sent"} : Once!Decide(verdict)) \/ UNCHANGED onceVars
  <2>1. Attempt = "intended" /\ sends[i] = "intended"
    BY <1>3, AttemptInSpeak DEF IInv, Stored, Receipt
  <2>2. Said' = Said /\ UNCHANGED delivered
    BY <1>3, <1>t, SaidStays DEF Receipt
  <2>3. call[i].status \in Status
    BY <1>3, <1>t DEF Receipt, TypeOK, Calls
  <2>4. CASE call[i].status = "maybe-sent"
    <3>1. UNCHANGED sends
      BY <1>3, <1>t, <2>4 DEF Receipt, TypeOK
    <3> QED
      BY <1>v, <2>2, <3>1
  <2>5. CASE call[i].status \in {"sent", "not-sent"}
    <3> DEFINE s == call[i].status
    <3>1. sends'[i] = s /\ s # "none" /\ s \in {"sent", "not-sent"}
      BY <1>3, <1>t, <2>5 DEF Receipt, TypeOK
    <3>2. TheAttempt'
      BY InvOneSpeaker, AttemptIs, PTL
    <3>3. delivered = IF s = "sent" THEN 1 ELSE 0
      BY <1>3, <2>5 DEF Receipt, IInv, Delivered
    <3> HIDE DEF s
    <3>4. Attempt' = s
      BY <3>1, <3>2 DEF TheAttempt
    <3>5. Once!Decide(s)
      BY <2>1, <2>2, <3>3, <3>4 DEF Once!Decide, Said
    <3> QED
      BY <3>1, <3>5
  <2> QED
    BY <2>3, <2>4, <2>5 DEF Status
<1>4. ASSUME NEW i \in Install, Say(i)
      PROVE  (\E word \in {"intended", "sent", "not-sent"} : Once!Say(word))
             \/ UNCHANGED onceVars
  <2> DEFINE w == IF call[i].status = "maybe-sent" THEN "intended" ELSE call[i].status
             f == FactOf("speech", w, lead[i])
  <2>1. call[i].step = "say" /\ call[i].status \in Status
        /\ UNCHANGED <<sends, delivered>> /\ (own' = own \/ Write(i, f))
    BY <1>4, <1>t DEF Say, TypeOK, Calls, Status
  <2>2. Attempt = sends[i] /\ UNCHANGED Attempt
    BY <1>v, <2>1, AttemptInSpeak
  <2>3. /\ w \in {"intended", "sent", "not-sent"}
        /\ w = Attempt \/ (w = "intended" /\ Attempt = "none")
    BY <2>1, <2>2 DEF Status, IInv, Stored
  <2>4. f.kind = "speech" /\ f.what = w
    BY DEF FactOf
  <2> HIDE DEF w, f
  <2>5. CASE own' = own
    <3>1. Said' = Said
      BY <1>t, <2>5, SaidStays
    <3> QED
      BY <1>v, <2>1, <2>2, <3>1
  <2>6. CASE Write(i, f)
    <3>1. Said' = Said \cup {w}
      BY <1>t, <2>4, <2>6, SaidGrows
    <3>2. PICK word \in {"intended", "sent", "not-sent"} : word = w
      BY <2>3
    <3>3. Once!Say(word)
      BY <2>1, <2>2, <2>3, <3>1, <3>2 DEF Once!Say, Said
    <3> QED
      BY <3>3
  <2> QED
    BY <2>1, <2>5, <2>6
<1>5. ASSUME NEW i \in Install,
             \/ Take(i) \/ Arm(i) \/ Expire(i) \/ StepDown(i) \/ PushLedger(i) \/ Crash(i)
             \/ \E j \in Install : Sync(i, j)
             \/ Draft(i) \/ TellStale(i) \/ TellStray(i) \/ Speak(i) \/ StaleEffect(i)
             \/ Tell(i) \/ SlotExpires(i)
      PROVE  UNCHANGED onceVars
  <2>1. UNCHANGED <<sends, delivered>>
    BY <1>5 DEF Take, Arm, Expire, StepDown, PushLedger, Crash, Sync, Draft, TellStale,
                TellStray, Speak, StaleEffect, Tell, SlotExpires, routerVars, ledgerVars
  <2>2. UNCHANGED own \/ \E f : Write(i, f) /\ f.kind # "speech"
    <3>1. \A w, g : /\ FactOf("router", w, g).kind # "speech"
                    /\ FactOf("letter", w, g).kind # "speech"
                    /\ FactOf("disposed", w, g).kind # "speech"
      BY DEF FactOf
    <3>2. \/ UNCHANGED own
          \/ \E w, g : \/ Write(i, FactOf("router", w, g))
                       \/ Write(i, FactOf("letter", w, g))
                       \/ Write(i, FactOf("disposed", w, g))
      BY <1>5 DEF Take, Arm, Expire, StepDown, PushLedger, Crash, Sync, Draft, TellStale,
                  TellStray, Speak, StaleEffect, Tell, SlotExpires, routerVars, ledgerVars
    <3> QED
      BY <3>1, <3>2
  <2> QED
    BY <1>t, <1>v, <2>1, <2>2, SaidStays
<1> QED
  BY <1>0, <1>1, <1>2, <1>3, <1>4, <1>5 DEF Next, SpeakOut, Once!Next

\* Speaking, over all installs, crashes and lost answers, implements one
\* attempt with one verdict (effect_once, speak).
THEOREM SpeakingIsOneAttempt == Spec => OneAttempt
<1>1. Init => Once!Init
  <2> SUFFICES ASSUME Init PROVE Once!Init
    OBVIOUS
  <2>1. \A i \in Install : own[i] = {} /\ sends[i] = "none"
    BY DEF Init
  <2>2. Attempt = "none" /\ Said = {}
    BY <2>1, NoAttempt DEF Said
  <2> QED
    BY <2>2 DEF Init, Once!Init, Said
<1>2. Spec => []IInv
  BY InvInit, InvStep, PTL DEF Spec
<1>3. onceVars = <<Attempt, delivered, Said>>
  BY DEF onceVars
<1> QED
  BY <1>1, <1>2, OnceStep, PTL DEF Spec, OneAttempt, Once!Spec, onceVars, Said
=============================================================================
