------------------------------- MODULE Speech -------------------------------
(***************************************************************************)
(* One letter to a person's channel, from its draft to its verdict         *)
(* (Router.speak_out in router.py, speak.py, and effect_once of            *)
(* daemon2/leases.py).                                                     *)
(*                                                                         *)
(* Installs take the router lease in turn and share only what the shuttle  *)
(* carries; the store of sends is local.  An install may be replaced,      *)
(* lose its authority or die between any two writes, and a send whose      *)
(* answer is lost may or may not have reached the person.  Letters are     *)
(* independent of each other, so one is enough.                            *)
(***************************************************************************)
EXTENDS Naturals, FiniteSets

CONSTANTS
    Install,   \* the machines
    MaxGen     \* bound: router leases granted

ASSUME SpeechConstants == MaxGen \in Nat

VARIABLES
    newest,     \* gen of the newest router lease
    carried,    \* the holder's ledger, as the lease ref carries it
    lead,       \* Router.lease.gen of each install, 0 when it has none
    prior,      \* GitLeaseAuthority.prior: the ledger the lease taken over carried
    armed,      \* the installs whose authority authorizes them, caught up
    own,        \* facts each install wrote
    known,      \* facts each install has of its peers
    pushed,     \* refs/ledger/<install> on the remote
    sends,      \* the install's own store of sends, for this letter
    slot,       \* the installs whose lease send:<key> is held
    call,       \* where the install is in speak, and the status so far
    delivered   \* how often the person got the letter

vars == <<newest, carried, lead, prior, armed, own, known, pushed, sends, slot,
          call, delivered>>
ledgerVars == <<carried, known, pushed>>
routerVars == <<newest, lead, prior>>

-----------------------------------------------------------------------------

Gen == 0 .. MaxGen

\* A fact is named by its kind, what it says, and the gen it says it under.
Fact == [kind : {"router"}, what : {"taken"}, gen : Gen]
   \cup [kind : {"letter"}, what : {"draft", "stray"}, gen : Gen]
   \cup [kind : {"speech"}, what : {"sent", "not-sent", "intended"}, gen : Gen]
   \cup [kind : {"disposed"}, what : {"refused", "stale", "maybe-sent"}, gen : {0}]

FactOf(kind, what, gen) == [kind |-> kind, what |-> what, gen |-> gen]

Status == {"sent", "not-sent", "maybe-sent"}
At(step, status) == [step |-> step, status |-> status]
Idle == At("idle", "none")
Calls == [step : {"idle", "leased", "intended"}, status : {"none"}]
    \cup [step : {"ran", "say"}, status : Status]
    \cup [step : {"tell"}, status : {"refused", "maybe-sent"}]

TypeOK ==
    /\ newest \in Gen
    /\ carried \in SUBSET Fact
    /\ lead \in [Install -> Gen]
    /\ prior \in [Install -> SUBSET Fact]
    /\ armed \in SUBSET Install
    /\ own \in [Install -> SUBSET Fact]
    /\ known \in [Install -> SUBSET Fact]
    /\ pushed \in [Install -> SUBSET Fact]
    /\ sends \in [Install -> {"none", "intended", "sent", "not-sent"}]
    /\ slot \in SUBSET Install
    /\ call \in [Install -> Calls]
    /\ delivered \in Nat

Init ==
    /\ newest = 0 /\ carried = {}
    /\ lead = [i \in Install |-> 0]
    /\ prior = [i \in Install |-> {}]
    /\ armed = {}
    /\ own = [i \in Install |-> {}]
    /\ known = [i \in Install |-> {}]
    /\ pushed = [i \in Install |-> {}]
    /\ sends = [i \in Install |-> "none"]
    /\ slot = {}
    /\ call = [i \in Install |-> Idle]
    /\ delivered = 0

View(i) == own[i] \cup known[i]

\* append: a fact this install already has with the same content is kept.
Write(i, f) == own' = [own EXCEPT ![i] = @ \cup {f}]

Step(i, step, status) == call' = [call EXCEPT ![i] = At(step, status)]

-----------------------------------------------------------------------------
(* The lease and the ledgers, as GitLease and the shuttle leave them *)

\* Each gen goes to one install.  The ledger rides the push that takes the
\* lease; the router fact is written after it, unless the loop dies first.
Take(i) ==
    /\ call[i] = Idle /\ lead[i] = 0 /\ newest < MaxGen
    /\ newest' = newest + 1
    /\ prior' = [prior EXCEPT ![i] = carried]
    /\ carried' = own[i]
    /\ pushed' = [pushed EXCEPT ![i] = own[i]]
    /\ \/ /\ lead' = [lead EXCEPT ![i] = newest + 1]
          /\ Write(i, FactOf("router", "taken", newest + 1))
       \/ UNCHANGED <<lead, own>>
    /\ UNCHANGED <<armed, known, sends, slot, call, delivered>>

\* begin_tick, _caught_up: armed once the ledger of the holder before is here,
\* and again after a local expiry under the same gen.
Arm(i) ==
    /\ call[i] = Idle /\ lead[i] # 0 /\ i \notin armed /\ prior[i] \subseteq View(i)
    /\ armed' = armed \cup {i}
    /\ UNCHANGED <<routerVars, ledgerVars, own, sends, slot, call, delivered>>

\* Authority ends with time, wherever the loop is.
Expire(i) ==
    /\ i \in armed
    /\ armed' = armed \ {i}
    /\ UNCHANGED <<routerVars, ledgerVars, own, sends, slot, call, delivered>>

\* _step_down, from _fence or _handover
StepDown(i) ==
    /\ call[i] = Idle /\ lead[i] # 0
    /\ lead' = [lead EXCEPT ![i] = 0]
    /\ armed' = armed \ {i}
    /\ UNCHANGED <<newest, prior, ledgerVars, own, sends, slot, call, delivered>>

\* A holder's ledger rides its renewals, a follower pushes its own.
PushLedger(i) ==
    /\ call[i] = Idle /\ lead[i] \in {0, newest}
    /\ pushed' = [pushed EXCEPT ![i] = own[i]]
    /\ carried' = IF lead[i] # 0 THEN own[i] ELSE carried
    /\ UNCHANGED <<routerVars, armed, known, own, sends, slot, call, delivered>>

\* Shuttle.sync: the folder of one peer
Sync(i, j) ==
    /\ call[i] = Idle /\ i # j /\ ~(pushed[j] \subseteq known[i])
    /\ known' = [known EXCEPT ![i] = @ \cup pushed[j]]
    /\ UNCHANGED <<routerVars, carried, pushed, armed, own, sends, slot, call, delivered>>

\* The loop dies and comes back: facts and sends are on disk.
Crash(i) ==
    /\ call' = [call EXCEPT ![i] = Idle]
    /\ lead' = [lead EXCEPT ![i] = 0]
    /\ armed' = armed \ {i}
    /\ UNCHANGED <<newest, prior, ledgerVars, own, sends, slot, delivered>>

-----------------------------------------------------------------------------
(* The draft *)

RouterGens(i) == {f.gen : f \in {f \in View(i) : f.kind = "router"}}

\* Mutant: the stamp is the gen the next router will have.
StampNext(i) == {g + 1 : g \in RouterGens(i)}

\* _stamp_router: the highest router gen this install has seen; none at all
\* leaves the letter unstamped, which is 0 here.
Stamp(i) == IF RouterGens(i) = {} THEN {0}
            ELSE {g \in RouterGens(i) : \A h \in RouterGens(i) : h <= g}

Drafted == \E i \in Install : \E f \in own[i] : f.kind = "letter"

\* _ingest of a body's letter, or of a stray one, to an address that no
\* channel carries.  Without a router fact in sight only a pinned thread has
\* a body.
Draft(i) ==
    /\ call[i] = Idle /\ ~Drafted
    /\ \E g \in Stamp(i), what \in {"draft", "stray"} :
          Write(i, FactOf("letter", what, g))
    /\ UNCHANGED <<routerVars, ledgerVars, armed, sends, slot, call, delivered>>

-----------------------------------------------------------------------------
(* speak_out, for this letter *)

\* _letter_owners: a sent or disposed letter is nobody's debt.
Settled(facts) ==
    \E f \in facts : f.kind = "disposed" \/ (f.kind = "speech" /\ f.what = "sent")

\* Mutant: having been the router now is enough.
HeldNow(i, gen) == FactOf("router", "taken", lead[i]) \in own[i]

\* _held_since: every gen from the draft's to ours has our router fact.
HeldSince(i, gen) ==
    \A g \in gen .. lead[i] : FactOf("router", "taken", g) \in own[i]

\* The letter, as owed to a channel and stamped with gen.
Owed(i, what, gen) ==
    /\ call[i] = Idle /\ i \in armed
    /\ FactOf("letter", what, gen) \in View(i)
    /\ ~Settled(View(i))
    /\ gen # 0

\* Mutant: only a router two gens on drops a stale draft.
TellStaleLate(i) ==
    /\ \E gen \in Gen, what \in {"draft", "stray"} :
          Owed(i, what, gen) /\ gen + 1 < lead[i] /\ ~HeldSince(i, gen)
    /\ Write(i, FactOf("disposed", "stale", 0))
    /\ UNCHANGED <<routerVars, ledgerVars, armed, sends, slot, call, delivered>>

\* Drafted under an older router that was another install: told, not sent.
TellStale(i) ==
    /\ \E gen \in Gen, what \in {"draft", "stray"} :
          Owed(i, what, gen) /\ gen < lead[i] /\ ~HeldSince(i, gen)
    /\ Write(i, FactOf("disposed", "stale", 0))
    /\ UNCHANGED <<routerVars, ledgerVars, armed, sends, slot, call, delivered>>

Ready(i, what) ==
    \E gen \in Gen : Owed(i, what, gen) /\ gen <= lead[i] /\ HeldSince(i, gen)

\* speak_out, or speak before it asks for anything, finds that no channel
\* carries the letter: told, and never tried.
TellStray(i) ==
    /\ Ready(i, "stray")
    /\ Write(i, FactOf("disposed", "refused", 0))
    /\ UNCHANGED <<routerVars, ledgerVars, armed, sends, slot, call, delivered>>

\* Mutant: an intent without a receipt is tried again.
SpeakAgain(i) ==
    /\ Ready(i, "draft")
    /\ \/ /\ sends[i] \in {"sent", "not-sent"}
          /\ Step(i, "say", sends[i]) /\ UNCHANGED slot
       \/ /\ sends[i] \in {"none", "intended"}
          /\ Step(i, "leased", "none") /\ slot' = slot \cup {i}
    /\ UNCHANGED <<routerVars, ledgerVars, armed, own, sends, delivered>>

\* speak, up to effect_once's own lease: a receipt, an intent or a held slot
\* from an earlier attempt decides the status; the effect runs only without.
Speak(i) ==
    /\ Ready(i, "draft")
    /\ \/ /\ sends[i] \in {"sent", "not-sent"}
          /\ Step(i, "say", sends[i]) /\ UNCHANGED slot
       \/ /\ sends[i] = "intended" \/ (sends[i] = "none" /\ i \in slot)
          /\ Step(i, "say", "maybe-sent") /\ UNCHANGED slot
       \/ /\ sends[i] = "none" /\ i \notin slot
          /\ Step(i, "leased", "none") /\ slot' = slot \cup {i}
    /\ UNCHANGED <<routerVars, ledgerVars, armed, own, sends, delivered>>

\* Mutant: the store of sends takes receipts only.
IntendUnsaid(i) ==
    /\ call[i].step = "leased"
    /\ Step(i, "intended", "none")
    /\ UNCHANGED <<routerVars, ledgerVars, armed, own, sends, slot, delivered>>

\* effect_once: the intent is on disk before anything leaves.
Intend(i) ==
    /\ call[i].step = "leased"
    /\ sends' = [sends EXCEPT ![i] = "intended"]
    /\ Step(i, "intended", "none")
    /\ UNCHANGED <<routerVars, ledgerVars, armed, own, slot, delivered>>

\* effect_once: authority is asked again; without it speak says stepped-down.
StaleEffect(i) ==
    /\ call[i].step = "intended" /\ i \notin armed
    /\ slot' = slot \ {i}
    /\ call' = [call EXCEPT ![i] = Idle]
    /\ UNCHANGED <<routerVars, ledgerVars, armed, own, sends, delivered>>

\* Mutant: every failure of the connector counts as not sent.
EffectFailed(i) ==
    /\ call[i].step = "intended" /\ i \in armed
    /\ \/ delivered' = delivered + 1 /\ Step(i, "ran", "sent")
       \/ delivered' \in {delivered, delivered + 1} /\ Step(i, "ran", "not-sent")
    /\ UNCHANGED <<routerVars, ledgerVars, armed, own, sends, slot>>

\* The connector runs: exit 0 sent it, exit 3 did not, and anything else (or
\* a timeout, or output that is not ids) may have done either.
Effect(i) ==
    /\ call[i].step = "intended" /\ i \in armed
    /\ \/ delivered' = delivered + 1 /\ Step(i, "ran", "sent")
       \/ UNCHANGED delivered /\ Step(i, "ran", "not-sent")
       \/ delivered' \in {delivered, delivered + 1} /\ Step(i, "ran", "maybe-sent")
    /\ UNCHANGED <<routerVars, ledgerVars, armed, own, sends, slot>>

\* effect_once: the receipt, and its own lease released either way.
Receipt(i) ==
    /\ call[i].step = "ran"
    /\ sends' = [sends EXCEPT ![i] =
                   IF call[i].status = "maybe-sent" THEN @ ELSE call[i].status]
    /\ slot' = slot \ {i}
    /\ Step(i, "say", call[i].status)
    /\ UNCHANGED <<routerVars, ledgerVars, armed, own, delivered>>

\* speak's own fact.  Its id has no gen in it and its content has: a second
\* one under another gen is a LedgerConflict, which speak_out tells as refused.
Say(i) ==
    LET state == IF call[i].status = "maybe-sent" THEN "intended" ELSE call[i].status
        said  == {f \in own[i] : f.kind = "speech" /\ f.what = state}
        now   == FactOf("speech", state, lead[i])
    IN
    /\ call[i].step = "say"
    /\ IF said \subseteq {now}
       THEN /\ Write(i, now)
            /\ \/ state = "sent" /\ call' = [call EXCEPT ![i] = Idle]
               \/ state = "not-sent" /\ Step(i, "tell", "refused")
               \/ state = "intended" /\ Step(i, "tell", "maybe-sent")
       ELSE UNCHANGED own /\ Step(i, "tell", "refused")
    /\ UNCHANGED <<routerVars, ledgerVars, armed, sends, slot, delivered>>

\* tell: the notice rides in the disposition; a second disposition of the
\* letter is swallowed by _keep.
Tell(i) ==
    /\ call[i].step = "tell"
    /\ IF \E f \in own[i] : f.kind = "disposed" THEN UNCHANGED own
       ELSE Write(i, FactOf("disposed", call[i].status, 0))
    /\ call' = [call EXCEPT ![i] = Idle]
    /\ UNCHANGED <<routerVars, ledgerVars, armed, sends, slot, delivered>>

\* The 300 s of a slot that nobody released run out.
SlotExpires(i) ==
    /\ i \in slot /\ call[i] = Idle
    /\ slot' = slot \ {i}
    /\ UNCHANGED <<routerVars, ledgerVars, armed, own, sends, call, delivered>>

-----------------------------------------------------------------------------

SpeakOut(i) ==
    \/ TellStale(i) \/ TellStray(i) \/ Speak(i) \/ Intend(i) \/ StaleEffect(i) \/ Effect(i)
    \/ Receipt(i) \/ Say(i) \/ Tell(i)

Next ==
    \E i \in Install :
        \/ SpeakOut(i) \/ Draft(i) \/ SlotExpires(i)
        \/ Take(i) \/ Arm(i) \/ Expire(i) \/ StepDown(i) \/ Crash(i)
        \/ PushLedger(i) \/ \E j \in Install : Sync(i, j)

Spec == Init /\ [][Next]_vars

\* The loop of a living install comes back to speak_out on every tick.
FairSpec == Spec /\ \A i \in Install : WF_vars(SpeakOut(i))

-----------------------------------------------------------------------------
(* What speaking promises *)

\* One external effect per letter: the person gets it at most once, over every
\* install, restart and retry (speak.py: an uncertain attempt is never
\* repeated).
AtMostOnce == delivered <= 1

\* Only one install ever tries to send a letter: the others see that the gen
\* it was drafted under was not theirs (_held_since).
OneSpeaker ==
    \A i, j \in Install : sends[i] # "none" /\ sends[j] # "none" => i = j

\* The ledger says what happened: a letter it calls sent was delivered, one it
\* calls not-sent was not and never will be (the state of a speech fact).
SpeechTrue ==
    \A i \in Install : \A f \in own[i] : f.kind = "speech" =>
        /\ f.what = "sent" => delivered = 1
        /\ f.what = "not-sent" => delivered = 0

\* The attempt on the letter, of whichever install made it.
Attempt == IF \E i \in Install : sends[i] # "none"
           THEN sends[CHOOSE i \in Install : sends[i] # "none"] ELSE "none"

Once == INSTANCE OnceEffect WITH
    attempt <- Attempt,
    reached <- delivered,
    said    <- {f.what : f \in {f \in UNION {own[i] : i \in Install} : f.kind = "speech"}}

\* However often installs restart, change and try again, what they do to one
\* letter is one attempt with one verdict, and nothing reaches the person
\* before the intent is on disk or after the verdict is (effect_once).
OneAttempt == Once!Spec

\* An install that holds the router lease and is armed knows of a stamped letter.
Knows(i) == /\ i \in armed /\ lead[i] = newest
            /\ \E f \in View(i) : f.kind = "letter" /\ f.gen # 0

\* A letter that a router which stays in office knows of is settled: sent, or
\* its author told.
EveryDraftSettled ==
    <>[](\E i \in Install : Knows(i)) => <>(\E i \in Install : Knows(i) /\ Settled(View(i)))
=============================================================================
