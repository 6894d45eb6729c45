--------------------------- MODULE GitLeaseProofs ---------------------------
(***************************************************************************)
(* At most one install is inside the term of the inbox lease, for any      *)
(* number of installs and any ttl, margin and drift with Drift <= Margin,  *)
(* as long as no poll loses its fetch.                                     *)
(***************************************************************************)
EXTENDS GitLease, TLAPS

Granting == {"acquire", "renew", "retry"}

\* Two clocks are never further apart than Drift.
Clocks == \A i, j \in Install : clock[i] <= clock[j] + Drift

\* A sha is new when its push begins, and nothing names it until it landed.
Shas ==
    /\ ref.sha <= commits
    /\ \A i \in Install : /\ seen[i].sha <= commits /\ held[i].sha <= commits
                          /\ wait[i].sha <= commits /\ wait[i].expected <= commits
    /\ \A r \in net : r.sha # 0 /\ r.sha <= commits /\ r.expected < r.sha

Fresh ==
    \A r \in net :
        /\ ref.sha # r.sha
        /\ \A q \in net : q.expected # r.sha /\ (q.sha = r.sha => q = r)
        /\ \A i \in Install :
              /\ seen[i].sha # r.sha /\ held[i].sha # r.sha
              /\ wait[i].expected # r.sha
              /\ wait[i].reply = "ok" => wait[i].sha # r.sha

\* A push in flight says what its sender, if it still waits, means by it.
Pending ==
    /\ \A i \in Install :
          /\ wait[i].kind \in Pushes => wait[i].sha # 0
          /\ wait[i].kind \notin Pushes => wait[i].reply = "none"
          /\ wait[i].sent <= clock[i]
          /\ wait[i].kind = "retry" => wait[i].gen = held[i].gen
          /\ wait[i].kind = "renew" => wait[i].gen = held[i].gen
          /\ wait[i].kind \in {"renew", "retry", "ours"} => held[i].gen # 0
          /\ wait[i].kind = "acquire" => held[i] = NoHeld /\ wait[i].gen # 0
    /\ \A i, j \in Install :
          wait[i].kind \in Pushes /\ wait[j].kind \in Pushes
            /\ wait[i].sha = wait[j].sha => i = j
    /\ \A r \in net, i \in Install :
          wait[i].kind \in Pushes /\ wait[i].sha = r.sha =>
              /\ r.body.holder = i
              /\ wait[i].kind \in Granting => r.body = LeaseBody(i, wait[i].gen)

\* Whoever names the current sha knows what the ref says.
Known ==
    /\ ref.sha = 0 => ref.body = NoBody
    /\ ref.sha # 0 => ref.body.holder \in Install /\ ref.body.ttl = Ttl
    /\ \A r \in net : r.body.holder \in Install /\ r.body.ttl = Ttl
    /\ \A i \in Install :
          /\ seen[i].sha = 0 => seen[i] = NoSeen
          /\ seen[i].sha = ref.sha => seen[i].body = ref.body
          /\ wait[i].kind \in Granting /\ wait[i].reply = "ok"
               /\ wait[i].sha = ref.sha => ref.body = LeaseBody(i, wait[i].gen)
          /\ held[i].gen # 0 /\ held[i].sha = ref.sha
               => ref.body.holder = i /\ ref.body.gen = held[i].gen
          /\ wait[i].kind = "retry" /\ wait[i].expected = ref.sha
               => ref.body.holder = i /\ ref.body.gen = held[i].gen
          /\ held[i].gen = 0 => held[i] = NoHeld

\* The term an install has, or will have once it reads an answer on its way.
HasTerm(i, u) ==
    \/ held[i].gen # 0 /\ wait[i].kind # "release" /\ u = held[i].until
    \/ wait[i].kind \in Granting /\ wait[i].reply = "ok" /\ u = wait[i].sent + Ttl

Past(i, u) == u <= clock[i] + Margin

\* A term that still runs is the one the ref shows, every follower started
\* counting no earlier than its push began, and no push that could replace it
\* is on its way.
Terms ==
    \A i \in Install : \A u \in Nat :
        HasTerm(i, u) =>
            /\ u <= clock[i] + Ttl
            /\ \/ Past(i, u)
               \/ /\ ref.body.holder = i /\ ~ref.body.released
                  /\ \A j \in Install :
                        j # i /\ seen[j].sha = ref.sha => u <= seen[j].at + Ttl + Drift
                  /\ \A r \in net :
                        r.expected = ref.sha => r.body.holder = i /\ ~r.body.released

\* A push that could land bumps the gen when it changes the holder.
Gens ==
    \A r \in net : r.expected = ref.sha =>
        /\ r.body.gen >= ref.body.gen
        /\ r.body.holder # ref.body.holder => r.body.gen > ref.body.gen

\* An install that leads is not in the middle of giving the lease up.
Leads == \A i \in lead : wait[i].kind # "release"

IInv == /\ TypeOK /\ Clocks /\ Shas /\ Fresh /\ Pending /\ Known /\ Terms
        /\ Gens /\ Leads
-----------------------------------------------------------------------------
(* Type correctness *)

\* The records the actions write have their types.
LEMMA RecordsTyped ==
    /\ NoBody \in Body
    /\ NoSeen \in Entry
    /\ NoHeld \in HeldLease
    /\ Idle \in Calls
    /\ Call("ours", 0, 0, 0, 0, "none") \in Calls
    /\ \A i \in Install, g \in Nat : LeaseBody(i, g) \in Body
  BY ConstantsOK DEF NoBody, Body, NoSeen, Entry, NoHeld, HeldLease, Idle,
     Call, Calls, Pushes, LeaseBody

\* What a poll sees has its type.
LEMMA PollTyped ==
    ASSUME TypeOK, NEW i \in Install
    PROVE  PollSeen(i) \in Entry /\ PollPeer(i) \in PeerMap
<1>1. PollSeen(i) \in Entry
  BY RecordsTyped DEF TypeOK, PollSeen, Entry
<1>2. PollPeer(i) \in PeerMap
  BY DEF TypeOK, PollPeer, PeerMap
<1> QED
  BY <1>1, <1>2

\* A poll, answered or not, keeps the types of what it writes.
LEMMA GoodPollTyped ==
    ASSUME TypeOK, NEW i \in Install, NEW s \in Entry, GoodPoll(i, s)
    PROVE  /\ seen' \in [Install -> Entry]
           /\ peer' \in [Install -> PeerMap]
           /\ rivals' \in [Install -> SUBSET Install]
  BY PollTyped DEF TypeOK, GoodPoll

\* So does a poll that raised Unreachable, with its fetch lost or not.
LEMMA BadPollTyped ==
    ASSUME TypeOK, NEW i \in Install, BadPoll(i)
    PROVE  /\ seen' \in [Install -> Entry]
           /\ peer' \in [Install -> PeerMap]
           /\ rivals' \in [Install -> SUBSET Install]
<1>1. CASE UNCHANGED <<seen, ledgerViews>>
  BY <1>1 DEF TypeOK, ledgerViews
<1>2. CASE LostFetch(i)
  <2>1. [sha |-> ref.sha, at |-> clock[i], body |-> NoBody] \in Entry
    BY RecordsTyped DEF TypeOK, Entry
  <2> QED
    BY <1>2, <2>1, PollTyped DEF TypeOK, LostFetch
<1> QED
  BY <1>1, <1>2 DEF BadPoll

\* A push puts a well-typed request on the wire and its sender in a call.
LEMMA PushTyped ==
    ASSUME TypeOK, NEW i \in Install, NEW kind \in Pushes, NEW body \in Body,
           NEW expected \in Nat, Push(i, kind, body, expected)
    PROVE  commits' \in Nat /\ net' \subseteq Request /\ wait' \in [Install -> Calls]
<1>1. [sha |-> commits + 1, expected |-> expected, body |-> body] \in Request
  BY DEF TypeOK, Request
<1>2. Call(kind, commits + 1, expected, clock[i], body.gen, "none") \in Calls
  BY DEF TypeOK, Call, Calls, Body
<1> QED
  BY <1>1, <1>2 DEF TypeOK, Push

\* Every step keeps the type invariant.
LEMMA TypeStep == TypeOK /\ [Next]_vars => TypeOK'
<1> USE ConstantsOK, RecordsTyped DEF remoteVars, ledgerViews
<1> SUFFICES ASSUME TypeOK, [Next]_vars PROVE TypeOK'
  OBVIOUS
<1>1. CASE UNCHANGED vars
  BY <1>1 DEF vars, TypeOK
<1>2. ASSUME NEW r \in net, Land(r) \/ Refuse(r) PROVE TypeOK'
  <2>1. ASSUME NEW reply \in {"ok", "rejected"}, Answer(r, reply)
        PROVE  wait' \in [Install -> Calls]
    BY <2>1 DEF TypeOK, Answer, Calls, Call
  <2>2. r \in Request
    BY DEF TypeOK
  <2>3. CASE Land(r)
    <3>1. ledger' \in [Install -> Nat]
      BY <2>3 DEF TypeOK, Land
    <3>2. ref' \in [sha : Nat, body : Body]
      BY <2>2, <2>3 DEF Land, Request
    <3> QED
      BY <2>1, <2>3, <3>1, <3>2 DEF TypeOK, Land
  <2>4. CASE Refuse(r)
    BY <2>1, <2>4 DEF TypeOK, Refuse
  <2> QED
    BY <1>2, <2>3, <2>4
<1>3. ASSUME NEW i \in Install, Tick(i) PROVE TypeOK'
  BY <1>3 DEF Tick, TypeOK
<1>4. ASSUME NEW i \in Install, Heartbeat(i) PROVE TypeOK'
  BY <1>4 DEF Heartbeat, TypeOK
<1>5. ASSUME NEW i \in Install, Poll(i) PROVE TypeOK'
  BY <1>5, PollTyped, GoodPollTyped, BadPollTyped DEF Poll, BadPoll, TypeOK
<1>6. ASSUME NEW i \in Install, Acquire(i) PROVE TypeOK'
  <2> DEFINE s == PollSeen(i)
             g == Max2(s.body.gen + 1, rowGen[i] + 1)
  <2>1. s \in Entry /\ s.sha \in Nat /\ s.body.gen \in Nat
    BY PollTyped DEF Entry, Body
  <2>2. g \in Nat
    <3> HIDE DEF s
    <3>1. rowGen[i] \in Nat
      BY DEF TypeOK
    <3> QED
      BY <2>1, <3>1 DEF Max2
  <2>3. LeaseBody(i, g) \in Body
    BY <2>2
  <2>4. GoodPoll(i, s) /\ Push(i, "acquire", LeaseBody(i, g), s.sha)
    BY <1>6 DEF Acquire
  <2>5. commits' \in Nat /\ net' \subseteq Request /\ wait' \in [Install -> Calls]
    BY <2>1, <2>3, <2>4, PushTyped DEF Pushes
  <2> QED
    BY <1>6, <2>1, <2>4, <2>5, GoodPollTyped DEF Acquire, TypeOK
<1>7. ASSUME NEW i \in Install, Acquired(i) PROVE TypeOK'
  <2>1. [gen |-> wait[i].gen, sha |-> wait[i].sha, until |-> wait[i].sent + Ttl] \in HeldLease
    BY DEF TypeOK, Calls, HeldLease
  <2>2. [sha |-> wait[i].sha, at |-> wait[i].sent,
         body |-> LeaseBody(i, wait[i].gen)] \in Entry
    BY DEF TypeOK, Calls, Entry
  <2>3. wait[i].gen \in Nat
    BY DEF TypeOK, Calls
  <2> QED
    BY <1>7, <2>1, <2>2, <2>3 DEF Acquired, Done, TypeOK
<1>8. ASSUME NEW i \in Install, NotAcquired(i) PROVE TypeOK'
  BY <1>8 DEF NotAcquired, Done, TypeOK
<1>9. ASSUME NEW i \in Install, Renew(i) PROVE TypeOK'
  <2>1. LeaseBody(i, held[i].gen) \in Body /\ held[i].sha \in Nat
    BY DEF TypeOK, HeldLease
  <2>2. commits' \in Nat /\ net' \subseteq Request /\ wait' \in [Install -> Calls]
    BY <1>9, <2>1, PushTyped DEF Renew, Pushes
  <2> QED
    BY <1>9, <2>2 DEF Renew, TypeOK
<1>10. ASSUME NEW i \in Install, Renewed(i) PROVE TypeOK'
  <2>1. [gen |-> held[i].gen, sha |-> wait[i].sha, until |-> wait[i].sent + Ttl] \in HeldLease
    BY DEF TypeOK, Calls, HeldLease
  <2>2. [sha |-> wait[i].sha, at |-> wait[i].sent,
         body |-> LeaseBody(i, wait[i].gen)] \in Entry
    BY DEF TypeOK, Calls, Entry
  <2> QED
    BY <1>10, <2>1, <2>2 DEF Renewed, Done, Settle, TypeOK
<1>11. ASSUME NEW i \in Install, RenewUnanswered(i) PROVE TypeOK'
  BY <1>11 DEF RenewUnanswered, Done, Settle, TypeOK
<1>12. ASSUME NEW i \in Install, RenewRefused(i) PROVE TypeOK'
  <2>1. /\ seen' \in [Install -> Entry]
        /\ peer' \in [Install -> PeerMap]
        /\ rivals' \in [Install -> SUBSET Install]
    BY <1>12, PollTyped, GoodPollTyped, BadPollTyped DEF RenewRefused
  <2> QED
    BY <1>12, <2>1 DEF RenewRefused, Drop, Done, TypeOK
<1>13. ASSUME NEW i \in Install, RenewOurs(i) PROVE TypeOK'
  <2>1. LeaseBody(i, held[i].gen) \in Body /\ PollSeen(i).sha \in Nat
    BY PollTyped DEF TypeOK, HeldLease, Entry
  <2>2. /\ seen' \in [Install -> Entry]
        /\ peer' \in [Install -> PeerMap]
        /\ rivals' \in [Install -> SUBSET Install]
    BY <1>13, PollTyped, GoodPollTyped, BadPollTyped DEF RenewOurs
  <2>3. commits' \in Nat /\ net' \subseteq Request /\ wait' \in [Install -> Calls]
    <3>1. CASE Push(i, "retry", LeaseBody(i, held[i].gen), PollSeen(i).sha)
      BY <2>1, <3>1, PushTyped DEF Pushes
    <3>2. CASE UNCHANGED <<commits, net>> /\ Done(i)
      BY <3>2 DEF Done, TypeOK
    <3> QED
      BY <1>13, <3>1, <3>2 DEF RenewOurs
  <2> QED
    BY <1>13, <2>2, <2>3 DEF RenewOurs, Settle, TypeOK
<1>14. ASSUME NEW i \in Install, RetryFailed(i) PROVE TypeOK'
  <2>1. [gen |-> held[i].gen, sha |-> wait[i].expected, until |-> held[i].until] \in HeldLease
    BY DEF TypeOK, Calls, HeldLease
  <2>2. /\ seen' \in [Install -> Entry]
        /\ peer' \in [Install -> PeerMap]
        /\ rivals' \in [Install -> SUBSET Install]
    BY <1>14, PollTyped, GoodPollTyped, BadPollTyped DEF RetryFailed
  <2> QED
    <3>1. held' \in [Install -> HeldLease] /\ graced' \subseteq Install
      BY <1>14, <2>1 DEF RetryFailed, Drop, TypeOK
    <3>2. lead' \subseteq Install
      BY <1>14 DEF RetryFailed, Drop, Settle, TypeOK
    <3> QED
      BY <1>14, <2>2, <3>1, <3>2 DEF RetryFailed, Done, TypeOK
<1>15. ASSUME NEW i \in Install, Fence(i) PROVE TypeOK'
  BY <1>15 DEF Fence, TypeOK
<1>16. ASSUME NEW i \in Install, Restart(i) PROVE TypeOK'
  <2>1. [j \in Install |-> [n |-> 0, at |-> 0]] \in PeerMap
    BY DEF PeerMap
  <2> QED
    BY <1>16, <2>1 DEF Restart, Drop, Done, TypeOK
<1>17. ASSUME NEW i \in Install, NEW p \in Install, Handover(i, p) PROVE TypeOK'
  <2> DEFINE b == [holder |-> i, gen |-> held[i].gen, ttl |-> Ttl,
                   released |-> TRUE, preferred |-> p]
  <2>1. b \in Body /\ held[i].sha \in Nat
    BY DEF TypeOK, HeldLease, Body
  <2>2. Push(i, "release", b, held[i].sha)
    BY <1>17 DEF Handover
  <2>3. commits' \in Nat /\ net' \subseteq Request /\ wait' \in [Install -> Calls]
    BY <2>1, <2>2, PushTyped DEF Pushes
  <2> QED
    BY <1>17, <2>3 DEF Handover, TypeOK
<1>18. ASSUME NEW i \in Install, Released(i) PROVE TypeOK'
  BY <1>18 DEF Released, Drop, Done, TypeOK
<1> QED
  BY <1>1, <1>2, <1>3, <1>4, <1>5, <1>6, <1>7, <1>8, <1>9, <1>10, <1>11, <1>12,
     <1>13, <1>14, <1>15, <1>16, <1>17, <1>18 DEF Next, Remote, Machine

\* The initial state has the types.
LEMMA TypeInit == Init => TypeOK
  BY ConstantsOK, RecordsTyped DEF Init, TypeOK, PeerMap

\* The variables keep the types they are read with, whatever the network,
\* the clocks and the restarts do.
THEOREM TypeCorrect == Spec => []TypeOK
  BY TypeInit, TypeStep, PTL DEF Spec

-----------------------------------------------------------------------------
(* The inductive invariant *)

\* A good poll shows the ref, and its age is this clock's or an earlier one.
LEMMA PollShows ==
    ASSUME IInv, NEW i \in Install
    PROVE  /\ PollSeen(i) \in Entry
           /\ PollSeen(i).sha = ref.sha
           /\ PollSeen(i).body = ref.body
           /\ ref.sha = 0 => PollSeen(i) = NoSeen
           /\ ref.sha # 0 => \/ PollSeen(i) = seen[i] /\ seen[i].sha = ref.sha
                             \/ PollSeen(i).at = clock[i]
<1>1. PollSeen(i) \in Entry
  BY PollTyped DEF IInv
<1> QED
  BY <1>1 DEF IInv, Known, PollSeen, NoSeen, Entry, TypeOK

\* The follower's count began no earlier than the push of a term that runs.
LEMMA PollCounts ==
    ASSUME IInv, NEW i \in Install, NEW k \in Install, k # i,
           NEW u \in Nat, HasTerm(k, u), ~Past(k, u)
    PROVE  /\ ref.sha # 0
           /\ u <= PollSeen(i).at + Ttl + Drift
<1>1. ref.sha # 0
  BY ConstantsOK DEF IInv, Terms, Known, NoBody
<1>2. CASE PollSeen(i) = seen[i] /\ seen[i].sha = ref.sha
  BY <1>1, <1>2 DEF IInv, Terms
<1>3. CASE PollSeen(i).at = clock[i]
  <2>1. u <= clock[k] + Ttl /\ clock[k] <= clock[i] + Drift
    BY DEF IInv, Terms, Clocks
  <2>2. clock[k] \in Nat /\ clock[i] \in Nat
    BY DEF IInv, TypeOK
  <2> QED
    BY <1>1, <1>3, <2>1, <2>2, ConstantsOK
<1> QED
  BY <1>1, <1>2, <1>3, PollShows

\* Without lost fetches a failed poll changes nothing.
LEMMA BadPollQuiet ==
    ASSUME FetchFails = FALSE, NEW i \in Install, BadPoll(i)
    PROVE  UNCHANGED <<seen, peer, rivals>>
  BY DEF BadPoll, LostFetch, ledgerViews

\* A step that pushes nothing and takes no answer: install i ends its call or
\* goes on to ask whose the ref is, having polled or not, and keeps the lease
\* it holds, drops it, or corrects the sha it knows it by.
LEMMA QuietStep ==
    ASSUME IInv, TypeOK', NEW i \in Install,
           NEW e \in {NoSeen, seen[i], PollSeen(i)}, NEW h \in HeldLease,
           NEW w \in {Idle, Call("ours", 0, 0, 0, 0, "none")},
           \/ h \in {NoHeld, held[i]}
           \/ /\ wait[i].kind = "retry"
              /\ h = [gen |-> held[i].gen, sha |-> wait[i].expected,
                      until |-> held[i].until],
           w.kind = "ours" => h = held[i] /\ held[i].gen # 0,
           wait[i].kind = "release" => h = NoHeld,
           seen' = [seen EXCEPT ![i] = e],
           held' = [held EXCEPT ![i] = h],
           wait' = [wait EXCEPT ![i] = w],
           lead' \subseteq lead \cup {i},
           UNCHANGED <<clock, commits, ref, net>>
    PROVE  IInv'
<1> USE ConstantsOK DEF Call, Idle, NoHeld, NoSeen
<1>1. /\ e \in Entry
      /\ e.sha \in {0, seen[i].sha, ref.sha}
      /\ e.sha = 0 => e = NoSeen
      /\ e.sha = ref.sha => e.body = ref.body
      /\ ref.sha # 0 /\ e.sha = ref.sha =>
            \/ e.at = seen[i].at /\ seen[i].sha = ref.sha
            \/ e.at = clock[i]
  BY PollShows, RecordsTyped DEF IInv, Known, TypeOK, Entry
<1>2. /\ w.kind \in {"idle", "ours"} /\ w.sha = 0 /\ w.expected = 0
      /\ w.sent = 0 /\ w.reply = "none"
  OBVIOUS
<1>3. /\ h.gen \in {0, held[i].gen}
      /\ h.gen = 0 => h = NoHeld
      /\ h.gen # 0 => h.until = held[i].until /\ wait[i].kind # "release"
      /\ h.sha \in {0, held[i].sha, wait[i].expected}
      /\ h.gen # 0 => \/ h.sha = held[i].sha
                      \/ wait[i].kind = "retry" /\ h.sha = wait[i].expected
  <2>1. CASE h = NoHeld
    BY <2>1
  <2>2. CASE h = held[i]
    BY <2>2 DEF IInv, Known
  <2>3. CASE /\ wait[i].kind = "retry"
             /\ h = [gen |-> held[i].gen, sha |-> wait[i].expected,
                     until |-> held[i].until]
    BY <2>3 DEF IInv, Pending
  <2> QED
    BY <2>1, <2>2, <2>3
<1>4. Clocks'
  BY DEF IInv, Clocks
<1>5. Shas'
  BY <1>1, <1>2, <1>3 DEF IInv, Shas, TypeOK, Calls
<1>6. Fresh'
  BY <1>1, <1>2, <1>3 DEF IInv, Fresh, Shas, TypeOK
<1>7. Pending'
  BY <1>2, <1>3 DEF IInv, Pending, TypeOK, Pushes, Granting
<1>8. Known'
  BY <1>1, <1>2, <1>3 DEF IInv, Known, TypeOK, Granting
<1>9. Terms'
  <2> SUFFICES ASSUME NEW k \in Install, NEW u \in Nat, HasTerm(k, u)'
               PROVE  /\ u <= clock[k] + Ttl
                      /\ \/ Past(k, u)
                         \/ /\ ref.body.holder = k /\ ~ref.body.released
                            /\ \A j \in Install :
                                  j # k /\ seen'[j].sha = ref.sha =>
                                      u <= seen'[j].at + Ttl + Drift
                            /\ \A r \in net :
                                  r.expected = ref.sha =>
                                      r.body.holder = k /\ ~r.body.released
    BY DEF Terms, Past
  <2>1. HasTerm(k, u)
    BY <1>2, <1>3 DEF HasTerm, IInv, TypeOK, Granting
  <2>2. ~Past(k, u) /\ k # i => ref.sha # 0 /\ u <= PollSeen(i).at + Ttl + Drift
    BY <2>1, PollCounts
  <2>3. CASE e = PollSeen(i)
    BY <2>1, <2>2, <2>3 DEF IInv, Terms, TypeOK
  <2>4. CASE e = seen[i]
    BY <2>1, <2>4 DEF IInv, Terms, TypeOK
  <2>5. CASE e = NoSeen
    BY <2>1, <2>2, <2>5 DEF IInv, Terms, TypeOK
  <2> QED
    BY <2>3, <2>4, <2>5
<1>10. Gens'
  BY DEF IInv, Gens
<1>11. Leads'
  BY <1>2 DEF IInv, Leads, TypeOK
<1> QED
  BY <1>4, <1>5, <1>6, <1>7, <1>8, <1>9, <1>10, <1>11 DEF IInv

\* A step that takes a landed push as the lease held from its sending.
LEMMA TakeStep ==
    ASSUME IInv, TypeOK', NEW i \in Install,
           wait[i].kind \in Granting, wait[i].reply = "ok",
           held' = [held EXCEPT ![i] = [gen |-> wait[i].gen, sha |-> wait[i].sha,
                                        until |-> wait[i].sent + Ttl]],
           seen' = [seen EXCEPT ![i] = [sha |-> wait[i].sha, at |-> wait[i].sent,
                                        body |-> LeaseBody(i, wait[i].gen)]],
           wait' = [wait EXCEPT ![i] = Idle],
           lead' \subseteq lead \cup {i},
           UNCHANGED <<clock, commits, ref, net>>
    PROVE  IInv'
<1> USE ConstantsOK DEF Call, Idle, NoHeld, NoSeen
<1>1. wait[i].kind \in Pushes /\ wait[i].sha # 0 /\ wait[i].gen # 0
  BY DEF Granting, Pushes, IInv, Pending
<1>a. wait[i].sha = ref.sha => ref.body = LeaseBody(i, wait[i].gen)
  BY DEF IInv, Known
<1>b. LeaseBody(i, wait[i].gen).holder = i /\ LeaseBody(i, wait[i].gen).gen = wait[i].gen
  BY DEF LeaseBody
<1>2. Clocks'
  BY DEF IInv, Clocks
<1>3. Shas'
  BY DEF IInv, Shas, TypeOK, Calls
<1>4. Fresh'
  BY DEF IInv, Fresh, Shas, TypeOK
<1>5. Pending'
  BY DEF IInv, Pending, TypeOK, Pushes, Granting
<1>6. Known'
  BY <1>1, <1>a, <1>b DEF IInv, Known, TypeOK, Granting
<1>7. Terms'
  <2> SUFFICES ASSUME NEW k \in Install, NEW u \in Nat, HasTerm(k, u)'
               PROVE  /\ u <= clock[k] + Ttl
                      /\ \/ Past(k, u)
                         \/ /\ ref.body.holder = k /\ ~ref.body.released
                            /\ \A j \in Install :
                                  j # k /\ seen'[j].sha = ref.sha =>
                                      u <= seen'[j].at + Ttl + Drift
                            /\ \A r \in net :
                                  r.expected = ref.sha =>
                                      r.body.holder = k /\ ~r.body.released
    BY DEF Terms, Past
  <2>1. HasTerm(k, u)
    BY DEF HasTerm, IInv, TypeOK, Granting
  <2>2. wait[i].sha = ref.sha => ref.body.holder = i
    BY <1>a, <1>b
  <2> QED
    BY <2>1, <2>2 DEF IInv, Terms, TypeOK
<1>8. Gens'
  BY DEF IInv, Gens
<1>9. Leads'
  BY DEF IInv, Leads, TypeOK
<1> QED
  BY <1>2, <1>3, <1>4, <1>5, <1>6, <1>7, <1>8, <1>9 DEF IInv

\* A step that puts a push on the wire: either the push names a stale sha and
\* cannot land, or no other install has a term left that it could cut short.
LEMMA PushStep ==
    ASSUME IInv, TypeOK', NEW i \in Install,
           NEW e \in {seen[i], PollSeen(i)}, NEW kind \in Pushes,
           NEW body \in Body, NEW x \in Nat,
           Push(i, kind, body, x),
           wait[i].kind \notin Pushes,
           body.holder = i /\ body.ttl = Ttl,
           body.released <=> kind = "release",
           kind \in Granting => body = LeaseBody(i, body.gen) /\ body.gen # 0,
           kind = "acquire" => held[i] = NoHeld,
           kind \in {"renew", "retry"} => held[i].gen # 0 /\ body.gen = held[i].gen,
           x \in {ref.sha, held[i].sha},
           kind = "retry" => x = ref.sha,
           x = ref.sha =>
              /\ body.gen >= ref.body.gen
              /\ ref.body.holder # i => body.gen > ref.body.gen
              /\ kind = "retry" => ref.body.holder = i /\ ref.body.gen = held[i].gen
              /\ \A k \in Install : \A u \in Nat :
                    k # i /\ HasTerm(k, u) => Past(k, u),
           seen' = [seen EXCEPT ![i] = e],
           lead' \subseteq lead, kind = "release" => i \notin lead',
           UNCHANGED <<clock, ref, held>>
    PROVE  IInv'
<1> USE ConstantsOK DEF Call
<1> DEFINE n == commits + 1
           m == [sha |-> n, expected |-> x, body |-> body]
<1>1. /\ commits' = n /\ net' = net \cup {m}
      /\ wait' = [wait EXCEPT ![i] = Call(kind, n, x, clock[i], body.gen, "none")]
  BY DEF Push
<1>2. /\ e \in Entry
      /\ e.sha \in {seen[i].sha, ref.sha}
      /\ e.sha = 0 => e = NoSeen
      /\ e.sha = ref.sha => e.body = ref.body
  BY PollShows DEF IInv, Known, TypeOK
<1>3. /\ commits \in Nat /\ n > commits /\ n # 0 /\ ref.sha <= commits
      /\ x <= commits /\ e.sha <= commits
      /\ \A r \in net : r.sha <= commits /\ r.expected <= commits /\ r.sha # x
      /\ \A j \in Install : /\ seen[j].sha <= commits /\ held[j].sha <= commits
                            /\ wait[j].sha <= commits /\ wait[j].expected <= commits
  BY <1>2 DEF IInv, Shas, Fresh, TypeOK, Request, HeldLease, Entry, Calls
<1>4. Clocks'
  BY DEF IInv, Clocks
<1>5. Shas'
  BY <1>1, <1>2, <1>3 DEF IInv, Shas, TypeOK, Calls, Request, HeldLease, Entry
<1>6. Fresh'
  BY <1>1, <1>2, <1>3 DEF IInv, Fresh, TypeOK, Calls, Request, HeldLease, Entry
<1>7. Pending'
  BY <1>1, <1>3 DEF IInv, Pending, TypeOK, Calls, Request, Pushes, Granting
<1>8. Known'
  BY <1>1, <1>2, <1>3 DEF IInv, Known, TypeOK, Granting
<1>9. Terms'
  <2> SUFFICES ASSUME NEW k \in Install, NEW u \in Nat, HasTerm(k, u)'
               PROVE  /\ u <= clock[k] + Ttl
                      /\ \/ Past(k, u)
                         \/ /\ ref.body.holder = k /\ ~ref.body.released
                            /\ \A j \in Install :
                                  j # k /\ seen'[j].sha = ref.sha =>
                                      u <= seen'[j].at + Ttl + Drift
                            /\ \A r \in net' :
                                  r.expected = ref.sha =>
                                      r.body.holder = k /\ ~r.body.released
    BY DEF Terms, Past
  <2>1. HasTerm(k, u) /\ (k = i => kind # "release")
    BY <1>1 DEF HasTerm, IInv, TypeOK, Granting, Pushes
  <2>2. ~Past(k, u) /\ k # i => ref.sha # 0 /\ u <= PollSeen(i).at + Ttl + Drift
    BY <2>1, PollCounts
  <2>3. ~Past(k, u) =>
           \A j \in Install : j # k /\ seen'[j].sha = ref.sha =>
                                   u <= seen'[j].at + Ttl + Drift
    <3>1. CASE e = PollSeen(i)
      BY <2>1, <2>2, <3>1 DEF IInv, Terms, TypeOK
    <3>2. CASE e = seen[i]
      BY <2>1, <3>2 DEF IInv, Terms, TypeOK
    <3> QED
      BY <3>1, <3>2
  <2>4. ~Past(k, u) /\ m.expected = ref.sha =>
           m.body.holder = k /\ ~m.body.released
    BY <2>1
  <2> QED
    BY <1>1, <2>1, <2>3, <2>4 DEF IInv, Terms
<1>10. Gens'
  BY <1>1 DEF IInv, Gens
<1>11. Leads'
  BY <1>1 DEF IInv, Leads, TypeOK
<1> QED
  BY <1>4, <1>5, <1>6, <1>7, <1>8, <1>9, <1>10, <1>11 DEF IInv

\* The remote: a push lands where the ref still shows what it expected.
LEMMA LandStep ==
    ASSUME IInv, TypeOK', NEW r \in net, Land(r)
    PROVE  IInv'
<1> USE ConstantsOK DEF Call
<1>1. /\ r \in Request /\ r.expected = ref.sha
      /\ ref' = [sha |-> r.sha, body |-> r.body] /\ net' = net \ {r}
      /\ UNCHANGED <<clock, commits, seen, held, lead>>
  BY DEF Land, IInv, TypeOK
<1>2. \A k \in Install :
        /\ wait'[k].kind = wait[k].kind /\ wait'[k].sha = wait[k].sha
        /\ wait'[k].expected = wait[k].expected /\ wait'[k].sent = wait[k].sent
        /\ wait'[k].gen = wait[k].gen
        /\ \/ wait[k].kind \in Pushes /\ wait[k].sha = r.sha /\ wait'[k].reply = "ok"
           \/ ~(wait[k].kind \in Pushes /\ wait[k].sha = r.sha)
              /\ wait'[k].reply = wait[k].reply
  BY DEF Land, Answer
<1>3. Clocks'
  BY <1>1 DEF IInv, Clocks
<1>4. Shas'
  BY <1>1, <1>2 DEF IInv, Shas
<1>5. Fresh'
  <2>1. \A q \in net' : q \in net /\ q # r /\ q.sha # r.sha
    BY <1>1 DEF IInv, Fresh
  <2> QED
    BY <1>1, <1>2, <2>1 DEF IInv, Fresh, Pending
<1>6. Pending'
  BY <1>1, <1>2 DEF IInv, Pending
<1>7. Known'
  BY <1>1, <1>2 DEF IInv, Known, Fresh, Shas, Pending, Granting, Pushes
<1>8. Terms'
  <2> SUFFICES ASSUME NEW k \in Install, NEW u \in Nat, HasTerm(k, u)'
               PROVE  /\ u <= clock[k] + Ttl
                      /\ Past(k, u) \/ (r.body.holder = k /\ ~r.body.released)
    <3>1. \A j \in Install : seen[j].sha # r.sha
      BY DEF IInv, Fresh
    <3>2. \A q \in net' : q.expected # r.sha
      BY <1>1 DEF IInv, Fresh
    <3> QED
      BY <1>1, <3>1, <3>2 DEF Terms, Past
  <2>1. CASE HasTerm(k, u)
    BY <1>1, <2>1 DEF IInv, Terms
  <2>2. CASE ~HasTerm(k, u)
    <3>1. /\ wait[k].kind \in Granting /\ wait[k].sha = r.sha
          /\ u = wait[k].sent + Ttl
      BY <1>1, <1>2, <2>2 DEF HasTerm
    <3>2. r.body = LeaseBody(k, wait[k].gen) /\ wait[k].sent <= clock[k]
      BY <3>1 DEF IInv, Pending, Granting, Pushes
    <3>3. wait[k].sent \in Nat /\ clock[k] \in Nat
      BY DEF IInv, TypeOK, Calls
    <3> QED
      BY <3>1, <3>2, <3>3 DEF LeaseBody
  <2> QED
    BY <2>1, <2>2
<1>9. Gens'
  BY <1>1 DEF IInv, Gens, Fresh
<1>10. Leads'
  BY <1>1, <1>2 DEF IInv, Leads, TypeOK
<1> QED
  BY <1>3, <1>4, <1>5, <1>6, <1>7, <1>8, <1>9, <1>10 DEF IInv

\* The remote refuses: only the sender hears of it.
LEMMA RefuseStep ==
    ASSUME IInv, TypeOK', NEW r \in net, Refuse(r)
    PROVE  IInv'
<1> USE DEF Call
<1>1. net' = net \ {r} /\ UNCHANGED <<clock, commits, ref, seen, held, lead>>
  BY DEF Refuse
<1>2. \A k \in Install :
        /\ wait'[k].kind = wait[k].kind /\ wait'[k].sha = wait[k].sha
        /\ wait'[k].expected = wait[k].expected /\ wait'[k].sent = wait[k].sent
        /\ wait'[k].gen = wait[k].gen
        /\ \/ wait[k].kind \in Pushes /\ wait'[k].reply = "rejected"
           \/ wait'[k].reply = wait[k].reply
  BY DEF Refuse, Answer
<1>3. Clocks' /\ Shas'
  BY <1>1, <1>2 DEF IInv, Clocks, Shas
<1>4. Fresh'
  BY <1>1, <1>2 DEF IInv, Fresh
<1>5. Pending'
  BY <1>1, <1>2 DEF IInv, Pending
<1>6. Known'
  BY <1>1, <1>2 DEF IInv, Known
<1>7. Terms'
  BY <1>1, <1>2 DEF IInv, Terms, HasTerm, Past
<1>8. Gens' /\ Leads'
  BY <1>1, <1>2 DEF IInv, Gens, Leads, TypeOK
<1> QED
  BY <1>3, <1>4, <1>5, <1>6, <1>7, <1>8 DEF IInv

\* Time passes on one machine.
LEMMA TickStep ==
    ASSUME IInv, TypeOK', NEW i \in Install, Tick(i)
    PROVE  IInv'
<1>1. /\ clock' = [clock EXCEPT ![i] = @ + 1]
      /\ \A j \in Install : clock[i] + 1 <= clock[j] + Drift
      /\ UNCHANGED <<commits, ref, net, seen, held, wait, lead>>
  BY DEF Tick
<1>2. \A j \in Install : clock[j] \in Nat /\ clock'[j] \in Nat /\ clock'[j] >= clock[j]
  BY <1>1 DEF IInv, TypeOK
<1>3. Clocks'
  BY <1>1, ConstantsOK DEF IInv, Clocks, TypeOK
<1>4. Shas' /\ Fresh' /\ Known' /\ Gens' /\ Leads'
  BY <1>1 DEF IInv, Shas, Fresh, Known, Gens, Leads
<1>5. Pending'
  BY <1>1, <1>2 DEF IInv, Pending, TypeOK, Calls
<1>6. Terms'
  BY <1>1, <1>2, ConstantsOK DEF IInv, Terms, HasTerm, Past
<1> QED
  BY <1>3, <1>4, <1>5, <1>6 DEF IInv

\* Nothing the invariant reads changes.
LEMMA SameStep ==
    ASSUME IInv, TypeOK', lead' \subseteq lead,
           UNCHANGED <<clock, commits, ref, net, seen, held, wait>>
    PROVE  IInv'
<1>1. Clocks' /\ Shas' /\ Fresh' /\ Pending' /\ Known'
  BY DEF IInv, Clocks, Shas, Fresh, Pending, Known
<1>2. Terms'
  BY DEF IInv, Terms, HasTerm, Past
<1>3. Gens' /\ Leads'
  BY DEF IInv, Gens, Leads
<1> QED
  BY <1>1, <1>2, <1>3 DEF IInv

\* acquire pushes over a ref that is free, this install's own, or whose term
\* has run out on the holder's clock too.
LEMMA AcquireStep ==
    ASSUME IInv, TypeOK', NEW i \in Install, Acquire(i)
    PROVE  IInv'
<1> DEFINE s == PollSeen(i)
           g == Max2(s.body.gen + 1, rowGen[i] + 1)
<1>1. /\ s \in Entry /\ s.sha = ref.sha /\ s.body = ref.body
      /\ ref.sha = 0 => s = NoSeen
  BY PollShows
<1>2. /\ wait[i] = Idle /\ held[i] = NoHeld
      /\ s.sha = 0 \/ Expired(i, s) \/ s.body.holder = i
      /\ Push(i, "acquire", LeaseBody(i, g), s.sha)
      /\ seen' = [seen EXCEPT ![i] = s]
      /\ UNCHANGED <<clock, ref, held, lead>>
  BY DEF Acquire, GoodPoll, remoteVars
<1>3. g \in Nat /\ g > ref.body.gen /\ g # 0
  <2> HIDE DEF s
  <2>1. s.body.gen \in Nat /\ rowGen[i] \in Nat
    BY <1>1 DEF IInv, TypeOK, Entry, Body
  <2> QED
    BY <1>1, <2>1 DEF Max2
<1>4. ASSUME NEW k \in Install, NEW u \in Nat, k # i, HasTerm(k, u), ~Past(k, u)
      PROVE  FALSE
  <2>1. ref.body.holder = k /\ ~ref.body.released
    BY <1>4 DEF IInv, Terms
  <2>2. ref.sha # 0 /\ u <= s.at + Ttl + Drift
    BY <1>4, PollCounts
  <2>3. clock[i] > s.at + Ttl + Margin
    BY <1>1, <1>2, <1>4, <2>1, <2>2 DEF Expired, IInv, Known
  <2>4. clock[i] <= clock[k] + Drift
    BY DEF IInv, Clocks
  <2>5. u > clock[k] + Margin
    <3>1. clock[k] \in Nat /\ Margin \in Nat
      BY ConstantsOK DEF IInv, TypeOK
    <3> QED
      BY <1>4, <3>1 DEF Past
  <2>6. s.at \in Nat /\ clock[i] \in Nat /\ clock[k] \in Nat
    BY <1>1 DEF IInv, TypeOK, Entry
  <2> HIDE DEF s
  <2> QED
    BY <2>2, <2>3, <2>4, <2>5, <2>6, ConstantsOK, DriftOK
<1>5. /\ LeaseBody(i, g) \in Body /\ LeaseBody(i, g).holder = i
      /\ LeaseBody(i, g).ttl = Ttl /\ LeaseBody(i, g).gen = g
      /\ LeaseBody(i, g).released = FALSE
  BY <1>3, RecordsTyped DEF LeaseBody
<1>6. s.sha \in Nat /\ "acquire" \in Pushes /\ wait[i].kind \notin Pushes
  BY <1>1, <1>2 DEF Entry, Pushes, Idle, Call
<1>7. ref.body.gen \in Nat
  BY DEF IInv, TypeOK, Body
<1>8. \A k \in Install : \A u \in Nat : k # i /\ HasTerm(k, u) => Past(k, u)
  BY <1>4
<1> DEFINE b == LeaseBody(i, g)
<1>9. /\ b \in Body /\ b.holder = i /\ b.ttl = Ttl /\ b.gen = g /\ b.released = FALSE
      /\ b = LeaseBody(i, b.gen) /\ Push(i, "acquire", b, s.sha)
  BY <1>2, <1>5
<1>10. s \in {seen[i], PollSeen(i)} /\ lead' \subseteq lead
  BY <1>2
<1> HIDE DEF b, g, s
<1>11. /\ b.gen >= ref.body.gen /\ b.gen > ref.body.gen /\ b.gen # 0
  BY <1>3, <1>7, <1>9
<1> QED
  BY <1>1, <1>2, <1>6, <1>8, <1>9, <1>10, <1>11, PushStep

\* renew, and the second push of a refused renew, go over the install's own
\* sha; a handover does too, and its sender no longer leads.
LEMMA OwnPushStep ==
    ASSUME IInv, TypeOK', NEW i \in Install, NEW kind \in Pushes, kind # "acquire",
           NEW body \in Body, NEW x \in Nat, NEW e \in {seen[i], PollSeen(i)},
           Push(i, kind, body, x), wait[i].kind \notin Pushes, held[i].gen # 0,
           body.holder = i /\ body.ttl = Ttl /\ body.gen = held[i].gen,
           body.released <=> kind = "release",
           kind \in Granting => body = LeaseBody(i, body.gen),
           \/ x = held[i].sha /\ kind # "retry"
           \/ x = ref.sha /\ ref.body.holder = i /\ ref.body.gen = held[i].gen,
           seen' = [seen EXCEPT ![i] = e],
           lead' \subseteq lead, kind = "release" => i \notin lead',
           UNCHANGED <<clock, ref, held>>
    PROVE  IInv'
<1>1. x = ref.sha => ref.body.holder = i /\ ref.body.gen = held[i].gen
  BY DEF IInv, Known
<1>2. x = ref.sha => \A k \in Install : \A u \in Nat :
                        k # i /\ HasTerm(k, u) => Past(k, u)
  BY <1>1 DEF IInv, Terms
<1>3. body.gen >= held[i].gen
  BY DEF IInv, TypeOK, HeldLease
<1>4. x \in {ref.sha, held[i].sha} /\ (kind = "retry" => x = ref.sha)
  OBVIOUS
<1> QED
  BY <1>1, <1>2, <1>3, <1>4, PushStep

\* Every step keeps the inductive invariant, if no poll loses its fetch.
LEMMA InvStep == ASSUME FetchFails = FALSE PROVE IInv /\ [Next]_vars => IInv'
<1> SUFFICES ASSUME IInv, [Next]_vars PROVE IInv'
  OBVIOUS
<1> USE DEF remoteVars, ledgerViews
<1>t. TypeOK'
  BY TypeStep DEF IInv
<1>k. /\ seen \in [Install -> Entry] /\ held \in [Install -> HeldLease]
      /\ wait \in [Install -> Calls]
  BY DEF IInv, TypeOK
<1>1. CASE UNCHANGED vars
  BY <1>1, <1>t, SameStep DEF vars
<1>2. ASSUME NEW r \in net, Land(r) \/ Refuse(r) PROVE IInv'
  BY <1>2, <1>t, LandStep, RefuseStep
<1>3. ASSUME NEW i \in Install, Tick(i) PROVE IInv'
  BY <1>3, <1>t, TickStep
<1>4. ASSUME NEW i \in Install, Heartbeat(i) \/ Fence(i) PROVE IInv'
  <2>1. lead' \subseteq lead /\ UNCHANGED <<clock, commits, ref, net, seen, held, wait>>
    BY <1>4 DEF Heartbeat, Fence
  <2> QED
    BY <2>1, <1>t, SameStep
<1>5. ASSUME NEW i \in Install, Poll(i) PROVE IInv'
  <2>1. /\ seen' = [seen EXCEPT ![i] = PollSeen(i)] /\ wait[i] = Idle
        /\ UNCHANGED <<clock, commits, ref, net, held, wait, lead>>
    BY <1>5 DEF Poll, GoodPoll, LostFetch
  <2>2. held' = [held EXCEPT ![i] = held[i]] /\ wait' = [wait EXCEPT ![i] = Idle]
    BY <2>1, <1>k
  <2>3. held[i] \in HeldLease /\ Idle.kind # "ours" /\ wait[i].kind # "release"
    BY <1>k, <2>1 DEF Idle, Call
  <2> QED
    BY <1>t, <2>1, <2>2, <2>3, QuietStep
<1>6. ASSUME NEW i \in Install, Acquire(i) PROVE IInv'
  BY <1>6, <1>t, AcquireStep
<1>7. ASSUME NEW i \in Install, Acquired(i) PROVE IInv'
  BY <1>7, <1>t, TakeStep DEF Acquired, Done, Granting
<1>8. ASSUME NEW i \in Install, NotAcquired(i) PROVE IInv'
  <2>1. PICK e \in {NoSeen, seen[i]} :
          /\ seen' = [seen EXCEPT ![i] = e] /\ wait[i].kind = "acquire"
          /\ wait' = [wait EXCEPT ![i] = Idle]
          /\ UNCHANGED <<clock, commits, ref, net, held, lead>>
    BY <1>8, <1>k DEF NotAcquired, Done
  <2>2. held' = [held EXCEPT ![i] = held[i]] /\ held[i] \in HeldLease /\ Idle.kind # "ours"
    BY <2>1, <1>k DEF Idle, Call
  <2> QED
    BY <1>t, <2>1, <2>2, QuietStep
<1>9. ASSUME NEW i \in Install, Renew(i) PROVE IInv'
  <2>1. /\ Push(i, "renew", LeaseBody(i, held[i].gen), held[i].sha)
        /\ wait[i] = Idle /\ held[i] # NoHeld
        /\ UNCHANGED <<clock, ref, seen, held, lead>>
    BY <1>9 DEF Renew
  <2>2. /\ held[i].gen # 0 /\ held[i].gen \in Nat /\ held[i].sha \in Nat
        /\ seen' = [seen EXCEPT ![i] = seen[i]] /\ wait[i].kind \notin Pushes
    BY <2>1, <1>k DEF IInv, Known, HeldLease, Idle, Call, Pushes
  <2>3. /\ LeaseBody(i, held[i].gen) \in Body
        /\ LeaseBody(i, held[i].gen).holder = i /\ LeaseBody(i, held[i].gen).ttl = Ttl
        /\ LeaseBody(i, held[i].gen).gen = held[i].gen
        /\ LeaseBody(i, held[i].gen).released = FALSE
    BY <2>2, RecordsTyped DEF LeaseBody
  <2> QED
    BY <1>t, <2>1, <2>2, <2>3, OwnPushStep DEF Pushes
<1>10. ASSUME NEW i \in Install, Renewed(i) PROVE IInv'
  <2>1. held[i].gen = wait[i].gen
    BY <1>10 DEF Renewed, IInv, Pending
  <2>2. lead' \subseteq lead \cup {i}
    BY <1>10 DEF Renewed, Settle
  <2> QED
    BY <1>10, <1>t, <2>1, <2>2, TakeStep DEF Renewed, Done, Granting
<1>11. ASSUME NEW i \in Install, RenewUnanswered(i) PROVE IInv'
  <2>1. /\ seen' = [seen EXCEPT ![i] = seen[i]] /\ held' = [held EXCEPT ![i] = held[i]]
        /\ wait[i].kind = "renew" /\ wait' = [wait EXCEPT ![i] = Idle]
        /\ UNCHANGED <<clock, commits, ref, net>>
    BY <1>11, <1>k DEF RenewUnanswered, Done
  <2>2. lead' \subseteq lead \cup {i}
    BY <1>11 DEF RenewUnanswered, Settle
  <2>3. held[i] \in HeldLease /\ Idle.kind # "ours"
    BY <1>k DEF Idle, Call
  <2> QED
    BY <1>t, <2>1, <2>2, <2>3, QuietStep
<1>12. ASSUME NEW i \in Install, RenewRefused(i) PROVE IInv'
  <2> DEFINE w == Call("ours", 0, 0, 0, 0, "none")
  <2>1. /\ wait[i].kind = "renew" /\ held[i].gen # 0
        /\ UNCHANGED <<clock, commits, ref, net>>
    BY <1>12 DEF RenewRefused, IInv, Pending
  <2>2. CASE GoodPoll(i, NoSeen) /\ Drop(i) /\ Done(i)
    <3>1. /\ seen' = [seen EXCEPT ![i] = NoSeen] /\ held' = [held EXCEPT ![i] = NoHeld]
          /\ wait' = [wait EXCEPT ![i] = Idle] /\ lead' \subseteq lead \cup {i}
      BY <2>2 DEF GoodPoll, Drop, Done
    <3>2. Idle.kind # "ours"
      BY DEF Idle, Call
    <3> QED
      BY <1>t, <2>1, <3>1, <3>2, RecordsTyped, QuietStep
  <2>3. CASE /\ GoodPoll(i, PollSeen(i)) \/ BadPoll(i)
             /\ wait' = [wait EXCEPT ![i] = w] /\ UNCHANGED <<held, graced, lead>>
    <3>1. PICK e \in {seen[i], PollSeen(i)} : seen' = [seen EXCEPT ![i] = e]
      BY <2>3, <1>k, BadPollQuiet DEF GoodPoll
    <3>2. held' = [held EXCEPT ![i] = held[i]] /\ held[i] \in HeldLease
      BY <2>3, <1>k
    <3> QED
      BY <1>t, <2>1, <2>3, <3>1, <3>2, QuietStep
  <2> QED
    BY <1>12, <2>2, <2>3 DEF RenewRefused
<1>13. ASSUME NEW i \in Install, RenewOurs(i) PROVE IInv'
  <2>1. /\ wait[i].kind = "ours" /\ held[i].gen # 0 /\ wait[i].kind \notin Pushes
        /\ UNCHANGED <<clock, ref, held>>
    BY <1>13 DEF RenewOurs, IInv, Pending, Pushes
  <2>2. CASE /\ Ours(i, PollSeen(i)) /\ GoodPoll(i, PollSeen(i))
             /\ Push(i, "retry", LeaseBody(i, held[i].gen), PollSeen(i).sha)
             /\ UNCHANGED lead
    <3> DEFINE b == LeaseBody(i, held[i].gen)
    <3>1. /\ b \in Body /\ b.holder = i /\ b.ttl = Ttl /\ b.gen = held[i].gen
          /\ b.released = FALSE
      BY <1>k, RecordsTyped DEF LeaseBody, HeldLease
    <3>2. /\ PollSeen(i).sha = ref.sha /\ PollSeen(i).sha \in Nat
          /\ ref.body.holder = i /\ ref.body.gen = held[i].gen
      BY <2>2, PollShows DEF Ours, Entry
    <3>3. seen' = [seen EXCEPT ![i] = PollSeen(i)]
      BY <2>2 DEF GoodPoll
    <3>4. Push(i, "retry", b, ref.sha)
      BY <2>2, <3>2
    <3>5. ref.sha \in Nat
      BY <3>2
    <3> HIDE DEF b
    <3> QED
      BY <1>t, <2>1, <2>2, <3>1, <3>2, <3>3, <3>4, <3>5, OwnPushStep DEF Pushes, b
  <2>3. CASE /\ GoodPoll(i, PollSeen(i)) \/ BadPoll(i)
             /\ UNCHANGED <<commits, net>> /\ Done(i) /\ Settle(i)
    <3>1. PICK e \in {seen[i], PollSeen(i)} : seen' = [seen EXCEPT ![i] = e]
      BY <2>3, <1>k, BadPollQuiet DEF GoodPoll
    <3>2. held' = [held EXCEPT ![i] = held[i]] /\ held[i] \in HeldLease
      BY <2>1, <1>k
    <3>3. /\ wait' = [wait EXCEPT ![i] = Idle] /\ Idle.kind # "ours"
          /\ lead' \subseteq lead \cup {i}
      BY <2>3 DEF Done, Settle, Idle, Call
    <3> QED
      BY <1>t, <2>1, <2>3, <3>1, <3>2, <3>3, QuietStep
  <2> QED
    BY <1>13, <2>2, <2>3 DEF RenewOurs
<1>14. ASSUME NEW i \in Install, RetryFailed(i) PROVE IInv'
  <2> DEFINE h == [gen |-> held[i].gen, sha |-> wait[i].expected, until |-> held[i].until]
  <2>1. /\ wait[i].kind = "retry" /\ wait' = [wait EXCEPT ![i] = Idle]
        /\ UNCHANGED <<clock, commits, ref, net>>
    BY <1>14 DEF RetryFailed, Done
  <2>2. Idle.kind # "ours" /\ h \in HeldLease
    BY <1>k DEF Idle, Call, HeldLease, Calls
  <2>3. CASE GoodPoll(i, NoSeen) /\ Drop(i)
    <3>1. /\ seen' = [seen EXCEPT ![i] = NoSeen] /\ held' = [held EXCEPT ![i] = NoHeld]
          /\ lead' \subseteq lead \cup {i}
      BY <2>3 DEF GoodPoll, Drop
    <3> QED
      BY <1>t, <2>1, <2>2, <3>1, RecordsTyped, QuietStep
  <2>4. CASE /\ GoodPoll(i, PollSeen(i)) \/ BadPoll(i)
             /\ held' = [held EXCEPT ![i] = h] /\ Settle(i)
    <3>1. PICK e \in {seen[i], PollSeen(i)} : seen' = [seen EXCEPT ![i] = e]
      BY <2>4, <1>k, BadPollQuiet DEF GoodPoll
    <3>2. lead' \subseteq lead \cup {i}
      BY <2>4 DEF Settle
    <3> QED
      BY <1>t, <2>1, <2>2, <2>4, <3>1, <3>2, QuietStep
  <2> QED
    BY <1>14, <2>3, <2>4 DEF RetryFailed
<1>15. ASSUME NEW i \in Install, Restart(i) \/ Released(i) PROVE IInv'
  <2>1. /\ seen' = [seen EXCEPT ![i] = NoSeen] /\ held' = [held EXCEPT ![i] = NoHeld]
        /\ wait' = [wait EXCEPT ![i] = Idle] /\ lead' \subseteq lead \cup {i}
        /\ UNCHANGED <<clock, commits, ref, net>>
    BY <1>15 DEF Restart, Released, Drop, Done
  <2>2. Idle.kind # "ours"
    BY DEF Idle, Call
  <2> QED
    BY <1>t, <2>1, <2>2, RecordsTyped, QuietStep
<1>16. ASSUME NEW i \in Install, NEW p \in Install, Handover(i, p) PROVE IInv'
  <2> DEFINE b == [holder |-> i, gen |-> held[i].gen, ttl |-> Ttl,
                   released |-> TRUE, preferred |-> p]
  <2>1. /\ Push(i, "release", b, held[i].sha) /\ wait[i] = Idle
        /\ held[i].gen # 0 /\ lead' = lead \ {i}
        /\ UNCHANGED <<clock, ref, seen, held>>
    BY <1>16 DEF Handover, Authorize, Inside
  <2>2. /\ b \in Body /\ b.holder = i /\ b.ttl = Ttl /\ b.gen = held[i].gen
        /\ b.released = TRUE /\ held[i].sha \in Nat
    BY <1>k, ConstantsOK DEF Body, HeldLease
  <2>3. /\ seen' = [seen EXCEPT ![i] = seen[i]] /\ wait[i].kind \notin Pushes
        /\ "release" \in Pushes /\ "release" \notin Granting
    BY <2>1, <1>k DEF Idle, Call, Pushes, Granting
  <2> HIDE DEF b
  <2> QED
    BY <1>t, <2>1, <2>2, <2>3, OwnPushStep
<1> QED
  BY <1>1, <1>2, <1>3, <1>4, <1>5, <1>6, <1>7, <1>8, <1>9, <1>10, <1>11, <1>12,
     <1>13, <1>14, <1>15, <1>16 DEF Next, Remote, Machine

\* The inductive invariant holds before the first poll.
LEMMA InvInit == Init => IInv
<1> SUFFICES ASSUME Init PROVE IInv
  OBVIOUS
<1>1. TypeOK
  BY TypeInit
<1>2. Clocks /\ Shas /\ Fresh /\ Gens /\ Leads
  BY ConstantsOK DEF Init, Clocks, Shas, Fresh, Gens, Leads, NoSeen, NoHeld, Idle, Call
<1>3. Pending
  BY DEF Init, Pending, Pushes, Granting, Idle, Call
<1>4. Known
  BY DEF Init, Known, Granting, Idle, Call, NoSeen, NoHeld
<1>5. Terms
  BY DEF Init, Terms, HasTerm, Granting, Idle, Call, NoHeld
<1> QED
  BY <1>1, <1>2, <1>3, <1>4, <1>5 DEF IInv

\* As long as no poll loses its fetch, at most one install leads inside the
\* term of its lease, however pushes are delayed, lost or answered late, and
\* however often installs restart (authorize, acquire, renew).
THEOREM TermExclusion == ASSUME FetchFails = FALSE PROVE Spec => []OneInsideTerm
<1>1. IInv => OneInsideTerm
  <2> SUFFICES ASSUME IInv, NEW i \in lead, NEW j \in lead, Inside(i), Inside(j)
               PROVE  i = j
    BY DEF OneInsideTerm
  <2>1. ASSUME NEW k \in lead, Inside(k) PROVE ref.body.holder = k
    <3>1. k \in Install /\ held[k].until \in Nat
      BY DEF IInv, TypeOK, HeldLease
    <3>2. HasTerm(k, held[k].until)
      BY <2>1 DEF HasTerm, Inside, IInv, Leads
    <3>3. ~Past(k, held[k].until)
      BY <2>1, <3>1, ConstantsOK DEF Past, Inside, IInv, TypeOK
    <3> QED
      BY <3>1, <3>2, <3>3 DEF IInv, Terms
  <2> QED
    BY <2>1
<1> QED
  BY <1>1, InvInit, InvStep, PTL DEF Spec

\* In strict mode that is all the authority there is: at most one install is
\* ever authorized to route and to speak.
THEOREM StrictExclusion == ASSUME FetchFails = FALSE PROVE Spec => []OneAuthorizedStrict
<1>1. OneInsideTerm => OneAuthorizedStrict
  BY DEF OneInsideTerm, OneAuthorizedStrict, Authorize
<1> QED
  BY <1>1, TermExclusion, PTL

\* A renewal that can land replaces the install's own lease (renew, _ours).
THEOREM OwnRenewals == ASSUME FetchFails = FALSE PROVE Spec => []RenewsOwnLease
<1>1. IInv => RenewsOwnLease
  BY DEF IInv, Known, RenewsOwnLease
<1> QED
  BY <1>1, InvInit, InvStep, PTL DEF Spec

\* The gen on the remote never falls and every takeover raises it: a push that
\* can still land knows the gen it replaces.
THEOREM GensClimb == ASSUME FetchFails = FALSE PROVE Spec => TakeoverBumpsGen
<1> DEFINE Climb == /\ ref'.body.gen >= ref.body.gen
                    /\ ref'.body.holder # ref.body.holder =>
                           ref'.body.gen > ref.body.gen
<1>1. IInv /\ [Next]_vars => [Climb]_vars
  <2> SUFFICES ASSUME IInv, [Next]_vars PROVE Climb
    OBVIOUS
  <2>1. ref.body.gen \in Nat
    BY DEF IInv, TypeOK, Body
  <2>2. CASE ref' = ref
    BY <2>1, <2>2
  <2>3. CASE \E r \in net : Land(r)
    BY <2>1, <2>3 DEF IInv, Gens, Land
  <2>4. ref' = ref \/ \E r \in net : Land(r)
    BY DEF Next, Remote, Machine, vars, remoteVars, Refuse, Tick, Heartbeat, Poll,
       Acquire, Acquired, NotAcquired, Renew, Renewed, RenewUnanswered,
       RenewRefused, RenewOurs, RetryFailed, Fence, Restart, Handover, Released
  <2> QED
    BY <2>2, <2>3, <2>4
<1> QED
  BY <1>1, InvInit, InvStep, PTL DEF Spec, TakeoverBumpsGen

-----------------------------------------------------------------------------
(* Gens and the installs they name *)

\* Install i holds the lease at gen g, has been told so or is on the ref at it.
Claim(i, g) ==
    \/ held[i].gen = g
    \/ wait[i].kind \in Granting /\ wait[i].reply = "ok" /\ wait[i].gen = g
    \/ ref.body.holder = i /\ ref.body.gen = g

\* HasTerm, with the gen the term is at.
TermAt(i, u, g) ==
    \/ held[i].gen # 0 /\ wait[i].kind # "release" /\ u = held[i].until /\ g = held[i].gen
    \/ wait[i].kind \in Granting /\ wait[i].reply = "ok" /\ u = wait[i].sent + Ttl
         /\ g = wait[i].gen

\* A gen that was ever granted names one install, and a term that still runs
\* is at the gen of the ref, as is whatever could replace it there.
GenClaims ==
    /\ \A i, j \in Install : \A g \in Nat \ {0} : Claim(i, g) /\ Claim(j, g) => i = j
    /\ \A i \in Install : \A g \in Nat \ {0} : Claim(i, g) => g <= ref.body.gen
    /\ \A i \in Install : \A u, g \in Nat :
          TermAt(i, u, g) /\ ~Past(i, u) =>
              /\ g = ref.body.gen
              /\ \A r \in net : r.expected = ref.sha => r.body.gen = g

GInv == IInv /\ GenClaims

\* A step that leaves the ref alone, grants nothing and pushes nothing but
\* renewals of a term at its gen.
LEMMA ClaimsKept ==
    ASSUME GInv, IInv', ref' = ref,
           \A k \in Install : clock[k] <= clock'[k],
           \A k \in Install : \A g \in Nat \ {0} : Claim(k, g)' => Claim(k, g),
           \A k \in Install : \A u, g \in Nat : TermAt(k, u, g)' => TermAt(k, u, g),
           \A r \in net' : \/ r \in net
                           \/ \A u, g \in Nat : r.body.holder \in Install
                                /\ TermAt(r.body.holder, u, g)' => r.body.gen = g
    PROVE  GenClaims'
<1>1. ASSUME NEW k \in Install, NEW u \in Nat, NEW g \in Nat,
             TermAt(k, u, g)', ~Past(k, u)'
      PROVE  g = ref.body.gen /\ \A r \in net' : r.expected = ref.sha => r.body.gen = g
  <2>1. TermAt(k, u, g) /\ ~Past(k, u)
    <3>1. clock[k] \in Nat /\ clock'[k] \in Nat /\ Margin \in Nat
      BY ConstantsOK DEF GInv, IInv, TypeOK
    <3> QED
      BY <1>1, <3>1 DEF Past
  <2>2. HasTerm(k, u)'
    BY <1>1 DEF TermAt, HasTerm
  <2>3. \A r \in net' : r.expected = ref.sha => r.body.holder = k
    BY <1>1, <2>2 DEF IInv, Terms
  <2> QED
    BY <1>1, <2>1, <2>3 DEF GInv, GenClaims
<1> QED
  BY <1>1 DEF GInv, GenClaims

\* The same for the steps of one install, by what becomes of the lease it
\* holds and of the call it is in.
LEMMA OneClaimKept ==
    ASSUME GInv, IInv', NEW i \in Install, NEW h, NEW w,
           held' = [held EXCEPT ![i] = h], wait' = [wait EXCEPT ![i] = w],
           w.reply = "none",
           \/ h.gen = 0
           \/ h.gen = held[i].gen /\ h.until = held[i].until /\ wait[i].kind # "release"
           \/ /\ wait[i].kind \in Granting /\ wait[i].reply = "ok"
              /\ h.gen = wait[i].gen /\ h.until = wait[i].sent + Ttl,
           \A r \in net' : \/ r \in net
                           \/ r.body.holder = i /\ (h.gen = 0 \/ r.body.gen = h.gen),
           UNCHANGED <<clock, ref>>
    PROVE  GenClaims'
<1>1. held'[i] = h /\ wait'[i] = w
  BY DEF GInv, IInv, TypeOK
<1>2. \A k \in Install \ {i} : held'[k] = held[k] /\ wait'[k] = wait[k]
  BY DEF GInv, IInv, TypeOK
<1>3. \A g : ~(wait'[i].kind \in Granting /\ wait'[i].reply = "ok" /\ wait'[i].gen = g)
  BY <1>1
<1>4. \A k \in Install : \A g \in Nat \ {0} : Claim(k, g)' => Claim(k, g)
  BY <1>1, <1>2, <1>3 DEF Claim
<1>5. \A u, g : TermAt(i, u, g)' => h.gen # 0 /\ u = h.until /\ g = h.gen
  BY <1>1, <1>3 DEF TermAt
<1>6. \A k \in Install : \A u, g \in Nat : TermAt(k, u, g)' => TermAt(k, u, g)
  BY <1>2, <1>5 DEF TermAt
<1>7. \A k \in Install : clock[k] <= clock'[k]
  BY DEF GInv, IInv, TypeOK
<1> QED
  BY <1>4, <1>5, <1>6, <1>7, ClaimsKept

\* The push that lands is at the gen its sender meant, and a new holder's is
\* above every gen that was granted.
LEMMA LandClaims ==
    ASSUME GInv, IInv', NEW r \in net, Land(r)
    PROVE  GenClaims'
<1>1. /\ r.expected = ref.sha /\ ref' = [sha |-> r.sha, body |-> r.body]
      /\ net' = net \ {r} /\ UNCHANGED <<clock, held>>
  BY DEF Land
<1>2. /\ r.body.gen \in Nat /\ ref.body.gen \in Nat
      /\ r.body.gen >= ref.body.gen
      /\ r.body.holder # ref.body.holder => r.body.gen > ref.body.gen
  BY <1>1 DEF GInv, IInv, Gens, TypeOK, Request, Body
<1>3. \A k \in Install :
        /\ wait'[k].kind = wait[k].kind /\ wait'[k].gen = wait[k].gen
        /\ wait'[k].sent = wait[k].sent
        /\ \/ wait'[k].reply = wait[k].reply
           \/ wait[k].kind \in Pushes /\ wait[k].sha = r.sha
  BY DEF Land, Answer, Call
<1>4. \A k \in Install : wait[k].kind \in Granting /\ wait[k].sha = r.sha =>
        r.body.holder = k /\ r.body.gen = wait[k].gen
  <2> SUFFICES ASSUME NEW k \in Install, wait[k].kind \in Granting, wait[k].sha = r.sha
               PROVE  r.body.holder = k /\ r.body.gen = wait[k].gen
    OBVIOUS
  <2>1. Pending /\ wait[k].kind \in Pushes
    BY DEF GInv, IInv, Granting, Pushes
  <2>2. r.body = LeaseBody(k, wait[k].gen)
    BY <2>1 DEF Pending
  <2> QED
    BY <2>2 DEF LeaseBody
<1>5. \A k \in Install : \A g \in Nat \ {0} :
        Claim(k, g)' => Claim(k, g) \/ (k = r.body.holder /\ g = r.body.gen)
  BY <1>1, <1>3, <1>4 DEF Claim
<1>6. \A k \in Install : \A g \in Nat \ {0} : Claim(k, g) => g <= ref.body.gen
  BY DEF GInv, GenClaims
<1>7. \A k \in Install : \A g \in Nat \ {0} : Claim(k, g)' => g <= r.body.gen
  BY <1>2, <1>5, <1>6
<1>8. \A g \in Nat \ {0}, k \in Install :
        Claim(k, g) /\ g = r.body.gen => k = r.body.holder
  <2> SUFFICES ASSUME NEW g \in Nat \ {0}, NEW k \in Install, Claim(k, g), g = r.body.gen
               PROVE  k = r.body.holder
    OBVIOUS
  <2>1. r.body.holder = ref.body.holder /\ g = ref.body.gen
    BY <1>2, <1>6
  <2>2. r.body.holder \in Install
    BY DEF GInv, IInv, Known
  <2> QED
    BY <2>1, <2>2 DEF GInv, GenClaims, Claim
<1>9. \A j, k \in Install : \A g \in Nat \ {0} : Claim(j, g)' /\ Claim(k, g)' => j = k
  BY <1>5, <1>8 DEF GInv, GenClaims
<1>10. ASSUME NEW k \in Install, NEW u \in Nat, NEW g \in Nat,
              TermAt(k, u, g)', ~Past(k, u)'
       PROVE  g = r.body.gen
  <2>1. ~Past(k, u)
    BY <1>1, <1>10 DEF Past
  <2>2. CASE TermAt(k, u, g)
    BY <1>1, <2>1, <2>2 DEF GInv, GenClaims
  <2>3. CASE ~TermAt(k, u, g)
    BY <1>1, <1>3, <1>4, <1>10, <2>3 DEF TermAt
  <2> QED
    BY <2>2, <2>3
<1>11. \A q \in net' : q.expected # r.sha
  BY <1>1 DEF GInv, IInv, Fresh
<1> QED
  BY <1>1, <1>7, <1>9, <1>10, <1>11 DEF GenClaims

\* Every step keeps what the gens say, if no poll loses its fetch.
LEMMA ClaimsStep == ASSUME FetchFails = FALSE PROVE GInv /\ [Next]_vars => GInv'
<1> SUFFICES ASSUME GInv, [Next]_vars PROVE GenClaims'
  BY InvStep DEF GInv
<1> USE DEF remoteVars, ledgerViews
<1>t. IInv'
  BY InvStep DEF GInv
<1>k. /\ held \in [Install -> HeldLease] /\ wait \in [Install -> Calls]
      /\ \A i \in Install : wait[i] = Idle => wait[i].kind = "idle" /\ wait[i].reply = "none"
      /\ Idle.reply = "none"
  BY DEF GInv, IInv, TypeOK, Idle, Call
<1>1. CASE UNCHANGED <<ref, net, held, wait>>
             /\ \A i \in Install : clock[i] <= clock'[i]
  BY <1>1, <1>t, ClaimsKept DEF Claim, TermAt
<1>2. CASE UNCHANGED <<clock, ref, net, held, wait>>
  <2>1. \A i \in Install : clock[i] <= clock[i]
    BY DEF GInv, IInv, TypeOK
  <2> QED
    BY <1>1, <1>2, <2>1
<1>3. ASSUME NEW i \in Install, Tick(i) PROVE GenClaims'
  <2>1. \A k \in Install : clock[k] <= clock'[k]
    BY <1>3 DEF Tick, GInv, IInv, TypeOK
  <2> QED
    BY <1>1, <1>3, <2>1 DEF Tick
<1>4. ASSUME NEW r \in net, Refuse(r) PROVE GenClaims'
  <2>1. /\ net' = net \ {r} /\ UNCHANGED <<clock, ref, held>>
    BY <1>4 DEF Refuse
  <2>2. \A k \in Install :
          /\ wait'[k].kind = wait[k].kind /\ wait'[k].gen = wait[k].gen
          /\ wait'[k].sent = wait[k].sent
          /\ wait'[k].reply = wait[k].reply \/ wait'[k].reply = "rejected"
    BY <1>4 DEF Refuse, Answer, Call
  <2>3. \A k \in Install : clock[k] <= clock'[k]
    BY <2>1 DEF GInv, IInv, TypeOK
  <2>4. \A k \in Install : \A g \in Nat \ {0} : Claim(k, g)' => Claim(k, g)
    BY <2>1, <2>2 DEF Claim
  <2>5. \A k \in Install : \A u, g \in Nat : TermAt(k, u, g)' => TermAt(k, u, g)
    BY <2>1, <2>2 DEF TermAt
  <2> QED
    BY <1>t, <2>1, <2>3, <2>4, <2>5, ClaimsKept
<1>5. ASSUME NEW i \in Install, NEW kind, NEW body, NEW x,
             Push(i, kind, body, x), UNCHANGED <<clock, ref, held>>,
             wait[i].kind # "release", body.holder = i,
             held[i].gen = 0 \/ body.gen = held[i].gen
      PROVE  GenClaims'
  <2> DEFINE w == Call(kind, commits + 1, x, clock[i], body.gen, "none")
  <2>1. held' = [held EXCEPT ![i] = held[i]] /\ wait' = [wait EXCEPT ![i] = w]
    BY <1>5, <1>k DEF Push
  <2>2. w.reply = "none"
    BY DEF Call
  <2>3. \A r \in net' : r \in net \/ r.body = body
    BY <1>5 DEF Push
  <2>4. UNCHANGED <<clock, ref>> /\ (held[i].gen = 0 \/ held[i].gen = body.gen)
    BY <1>5
  <2>5. \A r \in net' : \/ r \in net
                        \/ r.body.holder = i /\ (held[i].gen = 0 \/ r.body.gen = held[i].gen)
    BY <1>5, <2>3, <2>4
  <2> HIDE DEF w
  <2> QED
    BY <1>5, <1>t, <2>1, <2>2, <2>4, <2>5, OneClaimKept
<1>6. ASSUME NEW i \in Install, NEW h, NEW w,
             held' = [held EXCEPT ![i] = h], wait' = [wait EXCEPT ![i] = w],
             w.reply = "none",
             \/ h.gen = 0
             \/ h.gen = held[i].gen /\ h.until = held[i].until /\ wait[i].kind # "release"
             \/ /\ wait[i].kind \in Granting /\ wait[i].reply = "ok"
                /\ h.gen = wait[i].gen /\ h.until = wait[i].sent + Ttl,
             UNCHANGED <<clock, ref, net>>
      PROVE  GenClaims'
  BY <1>6, <1>t, OneClaimKept
<1>7. ASSUME NEW i \in Install, Heartbeat(i) \/ Poll(i) \/ Fence(i) PROVE GenClaims'
  BY <1>2, <1>7 DEF Heartbeat, Poll, Fence
<1>8. ASSUME NEW i \in Install, Acquire(i) PROVE GenClaims'
  BY <1>5, <1>8, <1>k DEF Acquire, LeaseBody, NoHeld
<1>9. ASSUME NEW i \in Install, Acquired(i) \/ Renewed(i) PROVE GenClaims'
  <2> DEFINE h == [gen |-> wait[i].gen, sha |-> wait[i].sha, until |-> wait[i].sent + Ttl]
  <2>1. wait[i].kind \in Granting /\ wait[i].reply = "ok"
    BY <1>9 DEF Acquired, Renewed, Granting
  <2>2. held' = [held EXCEPT ![i] = h]
    BY <1>9 DEF Acquired, Renewed, GInv, IInv, Pending
  <2>3. wait' = [wait EXCEPT ![i] = Idle] /\ UNCHANGED <<clock, ref, net>>
    BY <1>9 DEF Acquired, Renewed, Done
  <2> QED
    BY <1>6, <1>k, <2>1, <2>2, <2>3
<1>10. ASSUME NEW i \in Install,
              NotAcquired(i) \/ RenewUnanswered(i)
       PROVE  GenClaims'
  <2>1. held' = [held EXCEPT ![i] = held[i]] /\ wait[i].kind # "release"
    BY <1>10, <1>k DEF NotAcquired, RenewUnanswered
  <2>2. wait' = [wait EXCEPT ![i] = Idle] /\ UNCHANGED <<clock, ref, net>>
    BY <1>10 DEF NotAcquired, RenewUnanswered, Done
  <2> QED
    BY <1>6, <1>k, <2>1, <2>2
<1>11. ASSUME NEW i \in Install, Restart(i) \/ Released(i) PROVE GenClaims'
  <2>1. /\ held' = [held EXCEPT ![i] = NoHeld] /\ NoHeld.gen = 0
        /\ wait' = [wait EXCEPT ![i] = Idle] /\ UNCHANGED <<clock, ref, net>>
    BY <1>11 DEF Restart, Released, Drop, Done, NoHeld
  <2> QED
    BY <1>6, <1>k, <2>1
<1>12. ASSUME NEW i \in Install, Renew(i) PROVE GenClaims'
  BY <1>5, <1>12, <1>k DEF Renew, LeaseBody
<1>13. ASSUME NEW i \in Install, RenewRefused(i) PROVE GenClaims'
  <2> DEFINE w == Call("ours", 0, 0, 0, 0, "none")
  <2>1. wait[i].kind = "renew" /\ UNCHANGED <<clock, ref, net>>
    BY <1>13 DEF RenewRefused
  <2>2. CASE Drop(i) /\ Done(i)
    <3>1. held' = [held EXCEPT ![i] = NoHeld] /\ NoHeld.gen = 0
      BY <2>2 DEF Drop, NoHeld
    <3> QED
      BY <1>6, <1>k, <2>1, <2>2, <3>1 DEF Done
  <2>3. CASE wait' = [wait EXCEPT ![i] = w] /\ UNCHANGED held
    <3>1. held' = [held EXCEPT ![i] = held[i]] /\ w.reply = "none"
      BY <2>3, <1>k DEF Call
    <3> HIDE DEF w
    <3> QED
      BY <1>6, <2>1, <2>3, <3>1
  <2> QED
    BY <1>13, <2>2, <2>3 DEF RenewRefused
<1>14. ASSUME NEW i \in Install, RenewOurs(i) PROVE GenClaims'
  <2>1. wait[i].kind = "ours" /\ UNCHANGED <<clock, ref, held>>
    BY <1>14 DEF RenewOurs
  <2>2. CASE Push(i, "retry", LeaseBody(i, held[i].gen), PollSeen(i).sha)
    BY <1>5, <2>1, <2>2 DEF LeaseBody
  <2>3. CASE UNCHANGED net /\ Done(i)
    <3>1. held' = [held EXCEPT ![i] = held[i]]
      BY <2>1, <1>k
    <3> QED
      BY <1>6, <1>k, <2>1, <2>3, <3>1 DEF Done
  <2> QED
    BY <1>14, <2>2, <2>3 DEF RenewOurs
<1>15. ASSUME NEW i \in Install, RetryFailed(i) PROVE GenClaims'
  <2> DEFINE h == [gen |-> held[i].gen, sha |-> wait[i].expected, until |-> held[i].until]
  <2>1. /\ wait[i].kind = "retry" /\ UNCHANGED <<clock, ref, net>>
        /\ wait' = [wait EXCEPT ![i] = Idle]
    BY <1>15 DEF RetryFailed, Done
  <2>2. CASE Drop(i)
    <3>1. held' = [held EXCEPT ![i] = NoHeld] /\ NoHeld.gen = 0
      BY <2>2 DEF Drop, NoHeld
    <3> QED
      BY <1>6, <1>k, <2>1, <3>1
  <2>3. CASE held' = [held EXCEPT ![i] = h]
    BY <1>6, <1>k, <2>1, <2>3
  <2> QED
    BY <1>15, <2>2, <2>3 DEF RetryFailed
<1>16. ASSUME NEW i \in Install, NEW p \in Install, Handover(i, p) PROVE GenClaims'
  BY <1>5, <1>16, <1>k DEF Handover
<1>17. CASE UNCHANGED vars
  BY <1>2, <1>17 DEF vars
<1>18. ASSUME NEW r \in net, Land(r) PROVE GenClaims'
  BY <1>t, <1>18, LandClaims
<1> QED
  BY <1>3, <1>4, <1>7, <1>8, <1>9, <1>10, <1>11, <1>12, <1>13, <1>14, <1>15, <1>16,
     <1>17, <1>18 DEF Next, Remote, Machine

\* Nobody claims anything before the first push.
LEMMA ClaimsInit == Init => GInv
<1> SUFFICES ASSUME Init PROVE GenClaims
  BY InvInit DEF GInv
<1>1. \A k \in Install : \A g \in Nat \ {0} : ~Claim(k, g)
  BY ConstantsOK DEF Init, Claim, Granting, Idle, Call, NoHeld, NoBody
<1>2. \A k \in Install : \A u, g \in Nat : ~TermAt(k, u, g)
  BY DEF Init, TermAt, Granting, Idle, Call, NoHeld
<1> QED
  BY <1>1, <1>2 DEF GenClaims

\* No two authorities, stale ones included, hold the lease at the same gen, so
\* `router:<gen>` names one install's router facts (acquire, _next_gen's floor).
THEOREM GensNameOne == ASSUME FetchFails = FALSE PROVE Spec => []GenNamesOneHolder
<1>1. GInv => GenNamesOneHolder
  BY DEF GInv, GenClaims, Claim, GenNamesOneHolder, IInv, TypeOK, HeldLease
<1> QED
  BY <1>1, ClaimsInit, ClaimsStep, PTL DEF Spec

\* Grace adds no second router of the newest gen: of two authorized installs,
\* the one at the older gen is past its term (authorize, renew).
THEOREM GraceIsOlder == ASSUME FetchFails = FALSE PROVE Spec => []GracedIsOlder
<1>1. GInv => GracedIsOlder
  <2> SUFFICES ASSUME GInv, NEW i \in lead, NEW j \in lead, i # j,
                      Authorize(i), Authorize(j)
               PROVE  /\ held[i].gen # held[j].gen
                      /\ held[i].gen < held[j].gen => ~Inside(i)
    BY DEF GracedIsOlder
  <2>1. /\ i \in Install /\ j \in Install
        /\ held[i].gen \in Nat /\ held[j].gen \in Nat /\ held[i].until \in Nat
    BY DEF GInv, IInv, TypeOK, HeldLease
  <2>2. held[i].gen # 0 /\ held[j].gen # 0
    BY DEF Authorize, Inside
  <2>3. Claim(i, held[i].gen) /\ Claim(j, held[j].gen)
    BY DEF Claim
  <2>4. held[i].gen # held[j].gen
    BY <2>1, <2>2, <2>3 DEF GInv, GenClaims
  <2>5. held[j].gen <= ref.body.gen
    BY <2>1, <2>2, <2>3 DEF GInv, GenClaims
  <2>6. ASSUME Inside(i) PROVE held[i].gen = ref.body.gen
    <3>1. TermAt(i, held[i].until, held[i].gen)
      BY <2>2 DEF TermAt, GInv, IInv, Leads
    <3>2. ~Past(i, held[i].until)
      BY <2>1, <2>6, ConstantsOK DEF Past, Inside, GInv, IInv, TypeOK
    <3> QED
      BY <2>1, <3>1, <3>2 DEF GInv, GenClaims
  <2> QED
    BY <2>1, <2>4, <2>5, <2>6
<1> QED
  BY <1>1, ClaimsInit, ClaimsStep, PTL DEF Spec

=============================================================================
