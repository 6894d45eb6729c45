------------------------------ MODULE GitLease ------------------------------
(***************************************************************************)
(* The inbox lease of a self that runs on several machines                 *)
(* (src/brr/loom/runtime/gitlease.py, driven by router.py).                *)
(*                                                                         *)
(* The lease is one git ref.  Acquire, renew and release are a compare-    *)
(* and-swap push that names the sha the install last saw.  A push may      *)
(* land and lose its answer, land after its sender gave up, be refused     *)
(* because of the ledger ref that rides on it, or get lost.  No two        *)
(* machines compare clocks: each install reads only its own, and the       *)
(* clocks drift apart by at most Drift.                                    *)
(***************************************************************************)
EXTENDS Naturals, FiniteSets

CONSTANTS
    Install,     \* the machines
    None,        \* no install
    Ttl,         \* Router.gate_ttl: how long one landed push is good for
    Margin,      \* GATE_MARGIN: kept clear on both sides of the term
    Drift,       \* how far two clocks may drift apart
    Window,      \* contest_window of the authority
    Strict,      \* config.lease_mode = "strict"
    FetchFails,  \* a poll's ls-remote may answer and its fetch fail
    MaxClock,    \* bound: last instant explored
    MaxCommits,  \* bound: lease commits made
    MaxBeats     \* bound: moves of the ledger refs, counted together

ASSUME ConstantsOK ==
    /\ None \notin Install
    /\ Ttl \in Nat \ {0} /\ Margin \in Nat /\ Drift \in Nat \ {0} /\ Window \in Nat
    /\ Strict \in BOOLEAN /\ FetchFails \in BOOLEAN
    /\ MaxClock \in Nat /\ MaxCommits \in Nat /\ MaxBeats \in Nat

\* The two margins of a handover between machines absorb the drift.
ASSUME DriftOK == Drift <= Margin

VARIABLES
    clock,    \* boot_clock of each install
    commits,  \* lease commits made so far; a commit's sha is its number
    ref,      \* refs/leases/inbox on the remote: sha (0 = no ref) and body
    ledger,   \* refs/ledger/<install> on the remote, as a count of its moves
    net,      \* pushes on their way to the remote
    seen,     \* GitLeaseAuthority.seen of the lease ref (sha 0 = absent)
    peer,     \* GitLeaseAuthority.seen of the ledger refs
    rivals,   \* the peers whose ledger ref moved within Window of `polled`
    held,     \* GitLeaseAuthority.held (gen 0 = absent)
    graced,   \* the installs whose authority has the lease in `graced`
    wait,     \* the call an install is in: what it pushed and the answer
    lead,     \* the installs whose Router.gate_lease is set
    rowGen    \* gen of the local router lease row, on disk

vars == <<clock, commits, ref, ledger, net, seen, peer, rivals, held, graced,
          wait, lead, rowGen>>
remoteVars == <<ref, ledger>>
ledgerViews == <<peer, rivals>>

-----------------------------------------------------------------------------
(* Records *)

NoBody == [holder |-> None, gen |-> 0, ttl |-> 0, released |-> FALSE,
           preferred |-> None]
Body == [holder : Install \cup {None}, gen : Nat, ttl : Nat,
         released : BOOLEAN, preferred : Install \cup {None}]

NoSeen == [sha |-> 0, at |-> 0, body |-> NoBody]
NoHeld == [gen |-> 0, sha |-> 0, until |-> 0]
Call(kind, sha, expected, sent, gen, reply) ==
    [kind |-> kind, sha |-> sha, expected |-> expected, sent |-> sent,
     gen |-> gen, reply |-> reply]
Idle   == Call("idle", 0, 0, 0, 0, "none")
Pushes == {"acquire", "renew", "retry", "release"}

Request   == [sha : Nat, expected : Nat, body : Body]
Entry     == [sha : Nat, at : Nat, body : Body]
HeldLease == [gen : Nat, sha : Nat, until : Nat]
Calls     == [kind : Pushes \cup {"idle", "ours"}, sha : Nat, expected : Nat,
              sent : Nat, gen : Nat, reply : {"none", "ok", "rejected"}]
PeerMap   == [Install -> [n : Nat, at : Nat]]

TypeOK ==
    /\ clock \in [Install -> Nat]
    /\ commits \in Nat
    /\ ref \in [sha : Nat, body : Body]
    /\ ledger \in [Install -> Nat]
    /\ net \subseteq Request
    /\ seen \in [Install -> Entry]
    /\ peer \in [Install -> PeerMap]
    /\ rivals \in [Install -> SUBSET Install]
    /\ held \in [Install -> HeldLease]
    /\ graced \subseteq Install
    /\ wait \in [Install -> Calls]
    /\ lead \subseteq Install
    /\ rowGen \in [Install -> Nat]

Init ==
    /\ clock = [i \in Install |-> 0]
    /\ commits = 0
    /\ ref = [sha |-> 0, body |-> NoBody]
    /\ ledger = [i \in Install |-> 0]
    /\ net = {}
    /\ seen = [i \in Install |-> NoSeen]
    /\ peer = [i \in Install |-> [j \in Install |-> [n |-> 0, at |-> 0]]]
    /\ rivals = [i \in Install |-> {}]
    /\ held = [i \in Install |-> NoHeld]
    /\ graced = {}
    /\ wait = [i \in Install |-> Idle]
    /\ lead = {}
    /\ rowGen = [i \in Install |-> 0]

-----------------------------------------------------------------------------
(* Observing the remote *)

\* Mutant: the sight of a ref is dated back by the margin.
PollSeenBackdated(i) ==
    IF ref.sha = 0 THEN NoSeen
    ELSE IF seen[i].sha = ref.sha THEN seen[i]
    ELSE [sha |-> ref.sha, at |-> clock[i] - Margin, body |-> ref.body]

\* Mutant: a renewal does not restart the age of a lease already known.
PollSeenFirstSight(i) ==
    IF ref.sha = 0 THEN NoSeen
    ELSE [sha |-> ref.sha, at |-> IF seen[i].sha = 0 THEN clock[i] ELSE seen[i].at,
          body |-> ref.body]

\* poll: the lease ref as this install knows it once ls-remote and fetch both
\* answered.  Its age restarts only when the sha moved.
PollSeen(i) ==
    IF ref.sha = 0 THEN NoSeen
    ELSE IF seen[i].sha = ref.sha THEN seen[i]
    ELSE [sha |-> ref.sha, at |-> clock[i], body |-> ref.body]

\* poll: the same for the peers' ledger refs, which need no fetch.
PollPeer(i) ==
    [j \in Install |-> IF j = i \/ peer[i][j].n = ledger[j] THEN peer[i][j]
                       ELSE [n |-> ledger[j], at |-> clock[i]]]

\* poll answered: `seen` becomes s (a caller may drop the entry at once).
GoodPoll(i, s) ==
    LET p == PollPeer(i) IN
    /\ seen' = [seen EXCEPT ![i] = s]
    /\ peer' = [peer EXCEPT ![i] = p]
    /\ rivals' = [rivals EXCEPT ![i] =
                     {j \in Install \ {i} : p[j].n # 0 /\ clock[i] <= p[j].at + Window}]

\* poll, when the fetch of the moved lease commit fails after ls-remote
\* answered: Unreachable is raised, but `seen` already has the new sha, with
\* no body, and a later poll fetches only refs that moved again.  `polled`
\* stays, so a ledger ref seen to move now is after it.
LostFetch(i) ==
    /\ FetchFails
    /\ ref.sha # 0 /\ seen[i].sha # ref.sha
    /\ seen' = [seen EXCEPT ![i] = [sha |-> ref.sha, at |-> clock[i],
                                    body |-> NoBody]]
    /\ peer' = [peer EXCEPT ![i] = PollPeer(i)]
    /\ rivals' = [rivals EXCEPT ![i] =
                     @ \cup {j \in Install \ {i} : peer[i][j].n # ledger[j]}]

\* A poll that raises Unreachable: ls-remote failed, or the fetch did.
BadPoll(i) ==
    \/ UNCHANGED <<seen, ledgerViews>>
    \/ LostFetch(i)

\* view(...)["expired"], on this install's clock.
Expired(i, s) ==
    \/ s.body.released
    \/ clock[i] > s.at + s.body.ttl + Margin

\* _yields: released to another install, within ttl of seeing the release.
Yields(i, s) ==
    /\ s.body.released
    /\ s.body.preferred \notin {None, i}
    /\ clock[i] <= s.at + s.body.ttl + Margin

\* contested.  Asked only of an install that holds the lease, so it has polled.
Contested(i) == rivals[i] # {}

\* Inside the term of the last landed push, margin kept.
Inside(i) == held[i].gen # 0 /\ clock[i] + Margin < held[i].until

\* authorize
Authorize(i) ==
    \/ Inside(i)
    \/ held[i].gen # 0 /\ i \in graced /\ ~Strict /\ ~Contested(i)

\* _loss, on the lease as just polled
Loss(i, s) ==
    /\ s.sha # 0
    /\ \/ s.body.released
       \/ s.body.holder # i /\ s.body.gen > held[i].gen

\* _ours
Ours(i, s) ==
    /\ s.sha # 0 /\ ~s.body.released
    /\ s.body.holder = i /\ s.body.gen = held[i].gen

-----------------------------------------------------------------------------
(* Pushing: _push up to the moment git is on the wire *)

Push(i, kind, body, expected) ==
    /\ commits < MaxCommits
    /\ commits' = commits + 1
    /\ net' = net \cup {[sha |-> commits + 1, expected |-> expected,
                         body |-> body]}
    /\ wait' = [wait EXCEPT ![i] =
                  Call(kind, commits + 1, expected, clock[i], body.gen, "none")]

LeaseBody(i, gen) == [holder |-> i, gen |-> gen, ttl |-> Ttl,
                      released |-> FALSE, preferred |-> None]

Done(i) == wait' = [wait EXCEPT ![i] = Idle]

\* _drop, on top of what the poll before it saw
Drop(i) ==
    /\ held' = [held EXCEPT ![i] = NoHeld]
    /\ graced' = graced \ {i}
    /\ lead' = lead \ {i}

\* The router's use of a lease that acquire or renew returned: a leader whose
\* returned lease is not authorized is fenced, a follower takes it as it is.
Settle(i) ==
    lead' = IF i \in lead /\ ~Authorize(i)' THEN lead \ {i} ELSE lead \cup {i}

-----------------------------------------------------------------------------
(* The remote and the network *)

\* What the waiting sender of push r is told; one that gave up hears nothing.
Answer(r, reply) ==
    wait' = [i \in Install |->
               IF wait[i].kind \in Pushes /\ wait[i].sha = r.sha
               THEN Call(wait[i].kind, wait[i].sha, wait[i].expected,
                         wait[i].sent, wait[i].gen, reply)
               ELSE wait[i]]

\* Bound: how often any ledger ref has moved.
Beats == Cardinality({b \in Install \X (1..MaxBeats) : b[2] <= ledger[b[1]]})

\* Mutant: a plain push, without --force-with-lease.
LandForced(r) ==
    /\ net' = net \ {r}
    /\ ref' = [sha |-> r.sha, body |-> r.body]
    /\ ledger' = [i \in Install |-> IF i = r.body.holder /\ Beats < MaxBeats
                                    THEN ledger[i] + 1 ELSE ledger[i]]
    /\ Answer(r, "ok")
    /\ UNCHANGED <<clock, commits, seen, peer, rivals, held, graced, lead, rowGen>>

\* The swap wins: the lease ref moves, and the sender's ledger rides along
\* (it has grown since the last push; at the bound it stays).
Land(r) ==
    /\ r.expected = ref.sha
    /\ net' = net \ {r}
    /\ ref' = [sha |-> r.sha, body |-> r.body]
    /\ ledger' = [i \in Install |-> IF i = r.body.holder /\ Beats < MaxBeats
                                    THEN ledger[i] + 1 ELSE ledger[i]]
    /\ Answer(r, "ok")
    /\ UNCHANGED <<clock, commits, seen, peer, rivals, held, graced, lead, rowGen>>

\* The swap lost, or the rider did not fast-forward its own ref.  A push that
\* stays in net for good is one the network lost.
Refuse(r) ==
    /\ \E i \in Install : wait[i].kind \in Pushes /\ wait[i].sha = r.sha
    /\ net' = net \ {r}
    /\ Answer(r, "rejected")
    /\ UNCHANGED <<clock, commits, ref, ledger, seen, peer, rivals, held,
                   graced, lead, rowGen>>

\* Shuttle.sync: an install that does not lead pushes its own ledger ref.
Heartbeat(i) ==
    /\ i \notin lead /\ wait[i] = Idle
    /\ Beats < MaxBeats
    /\ ledger' = [ledger EXCEPT ![i] = @ + 1]
    /\ UNCHANGED <<clock, commits, ref, net, seen, peer, rivals, held, graced,
                   wait, lead, rowGen>>

Tick(i) ==
    /\ clock[i] < MaxClock
    /\ \A j \in Install : clock[i] + 1 <= clock[j] + Drift
    /\ clock' = [clock EXCEPT ![i] = @ + 1]
    /\ UNCHANGED <<commits, ref, ledger, net, seen, peer, rivals, held, graced,
                   wait, lead, rowGen>>

-----------------------------------------------------------------------------
(* The calls *)

\* A poll on its own: Shuttle.sync's, or an acquire that found the lease held.
Poll(i) ==
    /\ wait[i] = Idle
    /\ \/ GoodPoll(i, PollSeen(i))
       \/ LostFetch(i)
    /\ UNCHANGED <<clock, commits, remoteVars, net, held, graced, wait, lead, rowGen>>

\* Mutant: the gen comes from this home's floor alone.
FloorOnly(a, b) == b

Max2(a, b) == IF a >= b THEN a ELSE b

\* acquire, with the floor _gate_tick gives it: the gens this home already
\* used.  Free, expired, or this install's own from before a restart.
Acquire(i) ==
    LET s == PollSeen(i) IN
    /\ wait[i] = Idle /\ i \notin lead /\ held[i] = NoHeld
    /\ s.sha = 0 \/ Expired(i, s) \/ s.body.holder = i
    /\ ~Yields(i, s)
    /\ GoodPoll(i, s)
    /\ Push(i, "acquire",
            LeaseBody(i, Max2(s.body.gen + 1, rowGen[i] + 1)), s.sha)
    /\ UNCHANGED <<clock, remoteVars, held, graced, lead, rowGen>>

\* Mutant: the term is counted from the answer, not from the start of the push.
AcquiredAtAnswer(i) ==
    /\ wait[i].kind = "acquire" /\ wait[i].reply = "ok"
    /\ held' = [held EXCEPT ![i] = [gen |-> wait[i].gen, sha |-> wait[i].sha,
                                    until |-> clock[i] + Ttl]]
    /\ seen' = [seen EXCEPT ![i] = [sha |-> wait[i].sha, at |-> clock[i],
                                    body |-> LeaseBody(i, wait[i].gen)]]
    /\ graced' = graced \ {i}
    /\ lead' = lead \cup {i}
    /\ rowGen' = [rowGen EXCEPT ![i] = wait[i].gen]
    /\ Done(i)
    /\ UNCHANGED <<clock, commits, remoteVars, net, ledgerViews>>

\* Mutant: the sha is read back from the remote instead of kept from the push.
AcquiredReadBack(i) ==
    /\ wait[i].kind = "acquire" /\ wait[i].reply = "ok"
    /\ held' = [held EXCEPT ![i] = [gen |-> wait[i].gen, sha |-> ref.sha,
                                    until |-> wait[i].sent + Ttl]]
    /\ seen' = [seen EXCEPT ![i] = [sha |-> ref.sha, at |-> wait[i].sent,
                                    body |-> LeaseBody(i, wait[i].gen)]]
    /\ graced' = graced \ {i}
    /\ lead' = lead \cup {i}
    /\ rowGen' = [rowGen EXCEPT ![i] = wait[i].gen]
    /\ Done(i)
    /\ UNCHANGED <<clock, commits, remoteVars, net, ledgerViews>>

\* acquire's answer: held from the moment the push began, and the local
\* router lease is seated at the same gen (Router._acquire).
Acquired(i) ==
    /\ wait[i].kind = "acquire" /\ wait[i].reply = "ok"
    /\ held' = [held EXCEPT ![i] = [gen |-> wait[i].gen, sha |-> wait[i].sha,
                                    until |-> wait[i].sent + Ttl]]
    /\ seen' = [seen EXCEPT ![i] = [sha |-> wait[i].sha, at |-> wait[i].sent,
                                    body |-> LeaseBody(i, wait[i].gen)]]
    /\ graced' = graced \ {i}
    /\ lead' = lead \cup {i}
    /\ rowGen' = [rowGen EXCEPT ![i] = wait[i].gen]
    /\ Done(i)
    /\ UNCHANGED <<clock, commits, remoteVars, net, ledgerViews>>

\* acquire's push refused, or unanswered (it may land all the same).
NotAcquired(i) ==
    /\ wait[i].kind = "acquire"
    /\ \/ wait[i].reply = "rejected" /\ seen' = [seen EXCEPT ![i] = NoSeen]
       \/ UNCHANGED seen
    /\ Done(i)
    /\ UNCHANGED <<clock, commits, remoteVars, net, ledgerViews, held, graced,
                   lead, rowGen>>

\* renew, or an acquire of a lease the authority still holds.
Renew(i) ==
    /\ wait[i] = Idle /\ held[i] # NoHeld
    /\ Push(i, "renew", LeaseBody(i, held[i].gen), held[i].sha)
    /\ UNCHANGED <<clock, remoteVars, seen, ledgerViews, held, graced, lead, rowGen>>

\* _accepted
Renewed(i) ==
    /\ wait[i].kind \in {"renew", "retry"} /\ wait[i].reply = "ok"
    /\ held' = [held EXCEPT ![i] = [gen |-> held[i].gen, sha |-> wait[i].sha,
                                    until |-> wait[i].sent + Ttl]]
    /\ seen' = [seen EXCEPT ![i] = [sha |-> wait[i].sha, at |-> wait[i].sent,
                                    body |-> LeaseBody(i, wait[i].gen)]]
    /\ graced' = graced \ {i}
    /\ UNCHANGED <<clock, commits, remoteVars, net, ledgerViews, rowGen>>
    /\ Done(i)
    /\ Settle(i)

\* renew, unanswered: kept while its term runs, or by grace when this
\* authority is not strict and nobody contests the lease.
RenewUnanswered(i) ==
    /\ wait[i].kind = "renew"
    /\ UNCHANGED <<clock, commits, remoteVars, net, seen, ledgerViews, held, rowGen>>
    /\ Done(i)
    /\ IF Strict \/ Contested(i)
       THEN /\ UNCHANGED graced
            /\ lead' = IF Authorize(i) THEN lead \cup {i} ELSE lead \ {i}
       ELSE /\ graced' = graced \cup {i}
            /\ Settle(i)

\* renew, refused: _loss polls, and only a lease lost for good is dropped.
RenewRefused(i) ==
    /\ wait[i].kind = "renew" /\ wait[i].reply = "rejected"
    /\ \/ /\ Loss(i, PollSeen(i))
          /\ GoodPoll(i, NoSeen) /\ Drop(i) /\ Done(i)
       \/ /\ \/ ~Loss(i, PollSeen(i)) /\ GoodPoll(i, PollSeen(i))
             \/ BadPoll(i)
          /\ wait' = [wait EXCEPT ![i] = Call("ours", 0, 0, 0, 0, "none")]
          /\ UNCHANGED <<held, graced, lead>>
    /\ UNCHANGED <<clock, commits, remoteVars, net, rowGen>>

\* renew, refused and not lost: push again over our own newer sha (an answer
\* lost earlier), or keep the lease as it stands.
RenewOurs(i) ==
    /\ wait[i].kind = "ours"
    /\ UNCHANGED <<clock, remoteVars, held, graced, rowGen>>
    /\ \/ /\ Ours(i, PollSeen(i)) /\ GoodPoll(i, PollSeen(i))
          /\ Push(i, "retry", LeaseBody(i, held[i].gen), PollSeen(i).sha)
          /\ UNCHANGED lead
       \/ /\ \/ ~Ours(i, PollSeen(i)) /\ GoodPoll(i, PollSeen(i))
             \/ BadPoll(i)
          /\ UNCHANGED <<commits, net>>
          /\ Done(i)
          /\ Settle(i)

\* the second push refused or unanswered
RetryFailed(i) ==
    /\ wait[i].kind = "retry"
    /\ UNCHANGED <<clock, commits, remoteVars, net, rowGen>>
    /\ Done(i)
    /\ \/ /\ Loss(i, PollSeen(i))
          /\ GoodPoll(i, NoSeen) /\ Drop(i)
       \/ /\ \/ ~Loss(i, PollSeen(i)) /\ GoodPoll(i, PollSeen(i))
             \/ BadPoll(i)
          /\ held' = [held EXCEPT ![i] = [gen |-> held[i].gen,
                                          sha |-> wait[i].expected,
                                          until |-> held[i].until]]
          /\ UNCHANGED graced
          /\ Settle(i)

\* _gate_tick between renewals: a leader past its term fences itself.
Fence(i) ==
    /\ i \in lead /\ wait[i] = Idle /\ ~Authorize(i)
    /\ lead' = lead \ {i}
    /\ UNCHANGED <<clock, commits, remoteVars, net, seen, ledgerViews, held,
                   graced, wait, rowGen>>

\* _handover: step down, then release the lease to install p.
Handover(i, p) ==
    /\ i \in lead /\ wait[i] = Idle /\ Authorize(i) /\ p # i
    /\ lead' = lead \ {i}
    /\ Push(i, "release",
            [holder |-> i, gen |-> held[i].gen, ttl |-> Ttl, released |-> TRUE,
             preferred |-> p], held[i].sha)
    /\ UNCHANGED <<clock, remoteVars, seen, ledgerViews, held, graced, rowGen>>

\* release ends in _drop whatever the answer.
Released(i) ==
    /\ wait[i].kind = "release"
    /\ seen' = [seen EXCEPT ![i] = NoSeen]
    /\ Drop(i)
    /\ Done(i)
    /\ UNCHANGED <<clock, commits, remoteVars, net, ledgerViews, rowGen>>

\* The process dies anywhere and comes back: only the disk survives.
Restart(i) ==
    /\ seen' = [seen EXCEPT ![i] = NoSeen]
    /\ peer' = [peer EXCEPT ![i] = [j \in Install |-> [n |-> 0, at |-> 0]]]
    /\ rivals' = [rivals EXCEPT ![i] = {}]
    /\ Drop(i)
    /\ Done(i)
    /\ UNCHANGED <<clock, commits, remoteVars, net, rowGen>>

-----------------------------------------------------------------------------

Remote == \E r \in net : Land(r) \/ Refuse(r)

Machine(i) ==
    \/ Tick(i) \/ Heartbeat(i) \/ Poll(i)
    \/ Acquire(i) \/ Acquired(i) \/ NotAcquired(i)
    \/ Renew(i) \/ Renewed(i) \/ RenewUnanswered(i) \/ RenewRefused(i)
    \/ RenewOurs(i) \/ RetryFailed(i)
    \/ Fence(i) \/ Restart(i)
    \/ \E p \in Install : Handover(i, p)
    \/ Released(i)

Next == Remote \/ \E i \in Install : Machine(i)

Spec == Init /\ [][Next]_vars

-----------------------------------------------------------------------------
(* What the lease promises *)

\* At most one install is authorized inside the term of its lease: the holder
\* counts ttl from the start of the push that landed, less the margin, and a
\* follower ttl plus the margin from its first sight of that push's sha, each
\* on its own clock.
OneInsideTerm ==
    \A i, j \in lead : Inside(i) /\ Inside(j) => i = j

\* In strict mode at most one install is authorized at all (authorize).
OneAuthorizedStrict ==
    Strict => \A i, j \in lead : Authorize(i) /\ Authorize(j) => i = j

\* Two installs can both be authorized only while one of them runs past its
\* term by grace, and then that one has the older gen, the one whose facts
\* the fold refuses.
GracedIsOlder ==
    \A i, j \in lead :
        Authorize(i) /\ Authorize(j) /\ i # j =>
            held[i].gen # held[j].gen
            /\ (held[i].gen < held[j].gen => ~Inside(i))

\* A gen names one install: no two authorities, stale ones included, hold the
\* lease at the same gen (`router:<gen>` facts are keyed by it).
GenNamesOneHolder ==
    \A i, j \in Install :
        held[i].gen # 0 /\ held[i].gen = held[j].gen => i = j

\* A lease an authority would renew over the ref as it stands is its own, at
\* its own gen: no renewal replaces a rival's lease, even when answers and
\* fetches are lost (renew pushes over held's sha without looking).
RenewsOwnLease ==
    \A i \in Install : held[i].gen # 0 /\ held[i].sha = ref.sha =>
        ref.body.holder = i /\ ref.body.gen = held[i].gen

\* The gen on the remote never falls, and a takeover raises it.
TakeoverBumpsGen ==
    [][ /\ ref'.body.gen >= ref.body.gen
        /\ ref'.body.holder # ref.body.holder => ref'.body.gen > ref.body.gen ]_vars
=============================================================================
