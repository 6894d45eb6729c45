# A specification of the loom

The loom (`src/src/brr/loom/runtime/`) runs a *self*: a git repository of
threads whose work is done by bodies, processes of an AI shell, on one machine
or several. This directory holds TLA+ modules of the parts of it that are hard
to test, the runs that model-check them with TLC, and proofs that TLAPS checks.

## The system

| part | state | operations | hard behaviour |
|---|---|---|---|
| inbox lease (`gitlease.py`) | one git ref on the remote; per install: refs seen and when, the lease held, grace | acquire, renew, release, poll, authorize | lost answers, late pushes, half a poll, clocks never compared, restarts |
| router (`router.py`) | the lease it leads by, the local lease row, caught up or not | `_gate_tick`, `begin_tick`, `_fence`, `_handover`, `route`, `speak_out` | authority ends with time, wherever the loop is |
| speech (`speak.py`, `daemon2/leases.py`) | a store of sends per install, facts in the ledger | `speak_out`, `speak`, `effect_once` | an external effect that cannot be undone or observed |
| body table (`bodies.py`, the hands in `loom.py`) | facts of a generation, a process, its port | `decide` and one hand per command | the loop dies between two commands; the body ends and writes at any time; a second process does the same pass |
| shuttle (`shuttle.py`) | the peers' ledgers, as last fetched | `riders`, `sync`, `caught_up` | what a peer did last may never arrive |
| ledger (`ledger.py`, `daemon2/facts.py`) | append-only files of facts, one folder per install | `append`, `read_facts`, `_heal_tail`, `union` | torn tails, one id with two contents, an order all installs agree on |
| projection (`project.py`, `owners.py`) | none: folds of the facts, one of them carried along | `fold`, `letter_owners` | facts of a lost lease must not count; only what may have changed is read again |
| port and ingest (`port.py`, `_ingest`, `_drain_strand`) | files of a body | ingest, reject, drain | a crash between the append and the unlink; coarse time stamps |
| letters (`owners.py`, `_end_attempt`, `_unrouted`) | dispositions, successors, the thread tree on main | end an attempt, retry, bounce, climb, give to the operator | every letter ends with somebody, under people who write at any time |
| waits, timers (`waits.py`, `timers.py`, `conditions.py`) | parks and what they wait on | observe, wake | a wake lost or given twice |
| publish, merge (`publish.py`, `merge.py`) | branches | rebase and push until it lands | a main that moves |
| pausing (`pausing.py`, `pause.py`) | a record of stopped calls in the port, the ledger's lock | pause, resume, drop, free the lock | a stopped process may hold the lock its own resume waits for |
| reap, update, health | rooms, source, streaks | | |
| board, connectors, guards, usage | | | views, host programs, pure functions of facts |
| brnrd server, frontend, the first daemon, most of daemon2 | | | apart from the loom |

`tick_once` (`loom.py`) joins them, in this order: `begin_tick` (lease and
shuttle), `_ingest`, `_advance_bodies` (the table), the observers of time and
waits, `route` (new leases), `speak_out`. Between installs there is only git:
the lease ref, and each install's ledger ref, which rides the lease pushes of
a holder and is pushed alone by a follower. `PROJECT.json` lists every
component, modelled or not, with the reason.

What makes each part correct:

- the lease: one authorized install, one holder per gen, gens that climb;
- speech: a letter reaches the person at most once, is settled in the end, and
  what the ledger and the author are told of it is true;
- bodies: one live body per thread, started once per generation, everything it
  said ingested before its attempt ends, every thread that closes released;
- ledger and projection: all installs fold the same facts to the same state,
  and facts written past a lease do not count;
- pausing: what is stopped is on record and goes on in the end, and never keeps
  the ledger from the loop;
- letters and waits: each is somebody's debt until it is settled, and a wake
  comes once.

## The modules

| module | models | checked by | proofs |
|---|---|---|---|
| `GitLease` | `gitlease.py` and the router's use of it | `git_lease*` | `GitLeaseProofs` |
| `BodyLife` | `bodies.py` and the hands of `loom.py` | `body_life*` | `BodyLifeProofs` |
| `Speech` | `speak_out`, `speak`, `effect_once`, the stamp of a draft | `speech*` | `SpeechProofs` |
| `OnceEffect` | abstract: one attempt with one verdict; `Speech` implements it | `speech` | `SpeechProofs` |
| `Ingest` | `_ingest`, `append`, `_heal_tail`, `LedgerReader`, `pack`, `_write`, byte by byte | `ingest` | `IngestProofs` |
| `FactLog` | abstract: an append-only log and its readers; `Ingest` implements it | `ingest` | `IngestProofs` |
| `Letters` | the owner table, `_end_attempt`, `_unrouted`, `_refused`, `_closures`, `OwnerProjection` | `letters*` | `LettersProofs` |
| `Facts` | `union` and its order, `newest_renewals` | through `ledger_view`, `looms` | `LedgerViewProofs` |
| `Reducer` | `Reducer.apply`, `lease_accepted` | through `ledger_view`, `looms` | `LedgerViewProofs`, `LoomsProofs` |
| `LedgerView` | `LedgerReader`, `LedgerView`, `Reducer.resume` | `ledger_view` | `LedgerViewProofs` |
| `Pausing` | `pause_call`, `resume_pids`, `drop_pids`, `free_lock`, `_unstick`, the lock of `append` | `pausing*` | `PausingProofs` |
| `Looms` | `route` with pins, `_release_abandoned`, `_release`, the shuttle, stamps | `looms` | `LoomsProofs` |

The modules `MC...` give TLC its small instances. `LedgerView` and `Looms` both
extend `Facts` and `Reducer`: the first asks whether one process computes the
fold it should, the second what several installs that compute it do to one
thread. `LoomsProofs` extends `LedgerViewProofs` and uses its results about the
union. `Ingest` is what lies under both, the bytes; `Letters` what lies over
them, who owes a letter when the fold is given.

### GitLease

The remote is `ref` (the lease commit: a sha and its body) and `ledger` (how
often each install's ledger ref moved). A sha is the number of the commit, so
no two are equal, which is what the nonce of `_commit` is for. A push is split
in two: `Push` puts it in `net` with the sha it names as expected, and the
install waits. `Land` applies it if the ref is still at that sha and answers;
`Refuse` rejects it. A push may stay in `net` for good, or land after its
sender gave up: whatever the answer, a waiting install may act as if git had
timed out. `Acquired`, `NotAcquired`, `Renewed`, `RenewUnanswered`,
`RenewRefused`, `RenewOurs`, `RetryFailed` and `Released` are the code after
each push, in its order. The last two of a refused renewal are the second poll
and the second push.

Every install has its own `clock`; `Tick` keeps any two within `Drift`. It is
assumed that `Drift <= Margin`: the holder leaves its margin before the end of
its term and the follower adds one after, so that each margin absorbs the
drift of one of them. The drift of the model is over a whole run, not per second.

A poll is one step: `ls-remote` and the fetch see the same ref. If the ref
moves in between, the entry gets the newer body under the older sha until the
next poll, which sees a sha that moved and starts the age again. A fetch
that fails is another matter, because nothing repeats it: `LostFetch`, allowed
when `FetchFails`.

Left out: the other leases a remote may hold (only `inbox` is used), the
capabilities, and the intervals at which `_gate_tick` polls and renews, which
only make fewer of the model's steps possible.

### BodyLife

One thread on one install. `facts` is the fold of the present generation's
facts (`bodies.State`, with which once-only facts are on record); `process`
and `out` are the body and the files in its port, for every generation so far.
`Tick` takes one observation and `Observe` the row it selects: `Decide` gives
the commands and `todo` keeps those still to do. One action per hand then
performs the head of `todo`. `Crash` empties it. The loop and an operator's
`threads --force` are two actors under one flock, `starting`.

`Observations` is the set of what `_observe_body` may return. What it reads
from elsewhere (the gauge, the lease of the install, pins, memory, what people
wrote) is free at every observation, restricted to the combinations the code
can produce. `Flip` settles and reopens the thread; `Deadline` and `Until` are
the two deadlines passing.

The four `end_*` commands are `end`: they differ in the cause they record.
Gone with it is what an end does to letters.

### Speech

One letter. Letters share nothing in `speak_out` but the lease, and their
sends are keyed by letter. Facts are `own`, `known` (of peers) and `pushed`
(on the remote). `Take` grants the next gen to one install, which is
`GenNamesOneHolder` of `GitLease`, and remembers what ledger the previous
lease carried; `Arm` is `caught_up` with it. `Expire` takes authority away
anywhere, also inside `speak`. `Speak`, `Intend`, `StaleEffect`, `Effect`,
`Receipt`, `Say` and `Tell` are one attempt; a crash may come between any two.
`sends` survives it, `slot` too, until it expires.

`delivered` counts what the person got. The connector's exit 0 means sent and
its exit 3 means not sent; after anything else it may have been either.

`OnceEffect` is what all of this promises of the letter: its `attempt` is the
`sends` of whichever install made one, `reached` is `delivered`, `said` what
speech facts say on any install. `Intend` is its `Begin`, `Effect` its `Reach`
or nothing, `Receipt` its `Decide`, `Say` its `Say`; every other step is a
stutter. So an intent comes before the effect, a verdict after it, and nothing
reaches the person once there is a verdict, over all installs and restarts.

A *stray* letter is one to an address no channel carries. Whether one does is
taken to be fixed. An unstamped letter has gen 0.

### Ingest

One strand's outbox, one stream of the ledger and one peer. `temps`, `out` and
`rejected` are directories of the port, `file` the bytes of the stream here and
in the peer's folder. A line is `Width` bytes that name their fact and a
newline, so a torn tail can be shorter or longer than the line after it.

The loop's pass is `Stat`, `List`, then `Empty` or a `Take` and `Unlink` (or
`Reject`) for each file, and `PassEnds`. An append is `Enter` (the flock, the
refreshed `index`, the healed tail) and one `Write` per byte, in the loop or in
a verb's process; `WriteFails` is the error that leaves a torn line. `LoopDies`,
`VerbDies` and `PeerDies` come anywhere and are counted by `MaxFaults`. Readers
take no lock: `ScanStat` and `ScanRead` are the `fstat` and the read of
`LedgerReader._scan`, with the tail of bytes it compares before it reads on.
`Pack`, `Fetch` and `Materialize` are the shuttle's way to the peer.

Time stamps: `fresh` says that the outbox was modified within the last tick of
the file system's clock, and `cached` that its present stamp is the one in
`_EMPTY_OUT`. A modification while `fresh` leaves the stamp as it was. `Age`
does not come between the listing of a pass and its reading of the clock,
unless `Stall`.

`FactLog` is the promise: `log` are the complete lines, each by the offset at
which it ends, `seen` what each reader folds. It says that a complete line
stays where it is and comes after all before it, that its id is used once, and
that a reader never holds anything that is not a complete line of the stream.

Left out: other strands of the port, `_may_ingest` (the loop ingests its own
strands), the day's change of a stream's file, an `fsync` that fails after the
whole line was written.

### Letters

A few threads in a tree of openers, letters of people, bodies and the loom.
`letter` is what the accepted facts say of each: addressee, writer, what it
answers, whether it is passive, waits for its hour, was disposed of, and how
many failed attempts count against it. Ids are the loom's own: the letter that
began it, and the kinds of the notices made of it since (`notice_id`), so that
a notice written twice is one letter. `word` are the ids that some note, reply
or sent speech settled. `Owner` is the table of `_letter_owners`, row by row.

A body's words count when the loop ingests them, so `Boundary`, `Notes`,
`Writes`, `Answers` and `Settles` are steps of the loop's own time. `Ends` is
the whole end of a body: `bodies.py` selects the end, the last drain and the
release in one list of commands (what a crash between them does is
`BodyLife`'s). `HomeFails` is a start that fails for its home, with the letters
that do not fit in a wake. `Lists` and `Moves` split `_unrouted`, because
people (`PersonNotes`, `PersonCloses`, `Reopens`) write between its reading of
the table and its writes. `ReadAgain` is what `OwnerProjection.read` marks
dirty in a step; `ReadsEnough` compares it with the rows that changed.

Left out: legacy `attention` facts, letters to a channel that answer nothing,
`reply_to`, the plan's rows and axes of threads, a send that may or may not have
arrived (it is told twice, and both may go to the operator), a note by hand on
a queued letter to a channel. `_home_retry_waiting`, ten minutes or a new
revision of main, is left to fairness.

### Facts and Reducer

`Facts` has no state: `Kept` is what the union keeps of copies of one id,
`Union` the order of the rest, `Before` the comparison of stamps. `Reducer`
has none either: `Apply(st, f)` is the state after one row, with an operator
for each branch. A row is a record; `rgen` is its `router_gen` (0 for none,
which is also the state before any router), `pin` whether its pin is its
install. `accepted` keeps leases and releases only, which is what the
properties ask of it; `disposed` stays apart from `handled`, as in the code.
Left out: the links between notices, rows without stamps (older than the
installs), and what is folded for views.

### LedgerView

`ledger` is the ledgers as they will be, `read` what this process has read of
them. `Refresh` takes any batch of what it has not read, its own appends
included, and extends the view and the reducer in place or rebuilds both, by
the test of `incoming`. `Reread` is a stream that was replaced, cut or
removed: everything there is now is read. `Restart` forgets. A ledger of
`Ledgers` is one that an install can have: `Readable` (in `Facts`), `OwnStrands` and `RowOK` (in
`Reducer`) say what that takes, and are the assumption of the proofs.

### Looms

One thread, one letter, `Installs` installs. An install has the facts it
`own`s, the peers' it has fetched (`known`) and its ref on the remote
(`pushed`). What it has on disk is `View(i)`; what its tick goes by is `seen`,
the list that `tick_once` reads once, at its start (`loom.py:2335`). The lease
is reduced to what `GitLease` shows of it: `Take` raises the gen and gives the
taker the ledger to wait for (`prior`, the one that the lease before `carried`).

`Read` is a refresh: of a tick, of the board's thread, of a body's start. `Sync` is what
`begin_tick` fetches (its own `sync` and the one in `_caught_up` are one step),
and by the code's order the tick that fetched does not go by it: `Sync` leaves
in `seen` what was on disk before. `Armed` is `caught_up`, which asks for
the last holder's ledger *on disk* (`router.py:220-232`). So a router may be
armed by a fetch and grant, in that tick, by facts without it: `Grant`, `route`
for this thread, folds `seen` and takes its gen from it (`NextGen`), and so does
`Abandon`, `_release_abandoned` (of silence, when the other install is not heard
of, nothing is asked: it can happen whenever). `StartBody` and `Release`, the
start of a body and its end, fold what is on disk, since `_start` reads it
again under its lock (`loom.py:963`) and gives a body only to the strand that
holds the thread there. A row that a tick writes it goes by as well (`Goes`).

A stamp is the number of writes so far, plus the clock's `offset`. `Pin` is
`machines pin` or `unpin`; an install grants what is pinned to it whoever
leads, and such a lease counts at any router gen.

A `world` says what may go wrong in a run, so that one can tell what a property
needs. `grace`: a router goes on behind a newer one, which is `lease_mode =
grace`, the default. `late`: a router loses the lease before its last leases
rode a push. `again`: a router takes the lease over from itself before it
caught up. `missed`: an install takes over from another before it has, on
disk, the leases that the rest pushed, or those the other pushed that are older than
one it has. `skew`: how far clocks are apart. In a calm world (`Calm`) none
of these happens and nobody pins; bodies that end at any time, installs that fall
silent, notes, handovers and ledgers that arrive late still do. Two parts of calm
are named for what each gives: `Alone`, one router at a time (no grace, no
pins), and `Told`, a router that has every lease or waits for it (not `late`,
`again` or `missed`). With two installs `missed` says nothing, since the one
ledger a router waits for is the only other; with three the code does allow it,
and does not keep the properties then (Observations).

What calm comes to is `OneAtATime`. It is not that every lease counts: the tick
of a takeover may write one for a thread that the ledger it has just fetched says
is held. That lease has the gen of a lease written before it, the union keeps
the earlier, and its strand never gets a body. It has no effect on the thread:
`OneAtATime` says that each gen counts once, that a body runs for no other lease,
and that the gens that count alternate with their releases; `ReleaseCounts` and
`NoteCounts`, that it takes neither from whom does hold the thread.

Left out: the choice of a body, refusals, silence as time.

### Pausing

The tool calls of one body. A call is its `wrapper`, on which the body waits,
and the `work` under it, a process tree taken as one. `record` is
`port/.paused.json`, `ports` what the loop remembers of it (`_PAUSED`), `loop`
where its one thread is in a tick. `open`, `named` and `holder` are the lock of
the ledger: who has the file open, whose command line shows a verb of brnrd, and
who has the flock. A stopped process that waits for a flock may be given it.

`Look` reads the processes and `Stop` and `Kill` act on what it read, one call
at a time, while the calls go on, open the lock, or end; `Records` comes last.
`Answer`, `Signals` and `Clears` are the body's `resume` or `drop`, a process of
its own. `Sweep` is the cap, `Release` the end of the body. Every append of the
loop is `AppendTries`, which frees the lock of whoever is stopped with it
(`FreeLedger`, the hook `ON_CONTENDED`), and `AppendTakes`, the wait; `Unstick`
does the same once a tick without waiting. With the lock the loop writes and
leaves it in one step.

`Faults` names what the passing run leaves out, because the code does not
withstand it: the loop dying between a SIGSTOP and the record (`mid-pause`), a
`ps` without an answer (`ps`), and a verb and the loop changing the record at
the same time (`race`). The middle one is finding 3, the others are among the
observations. Left out in every run: several bodies, `MIN_AGE` and the pattern
of a wrapper (whether a call is paused on a tick is free), the output kept,
and a recorded process that ends while what it started stays stopped.

## The runs

| run | instance | shows |
|---|---|---|
| `git_lease` | 2 installs with grace, ttl 2, margin and drift 1, contest window 2, 4 instants, 3 commits, one ledger heartbeat in all | one install inside a term; grace only behind a newer gen; one holder per gen; gens climb |
| `git_lease_lossy` | the same strict, fetches fail, ttl 1 | types; a renewal replaces only the renewer's own lease |
| `git_lease_lost_fetch` | strict, fetches fail, ttl 2, 6 instants | finding 1 |
| `body_life` | 2 generations, 1 file in a port, 2 crashes, fairness | safety of the table and its hands; a settled thread is released |
| `speech` | 2 installs, 3 gens, drafts with no router in sight, fairness | at most once, one speaker, a true ledger; all of it implements `OnceEffect`; a router in office settles every stamped draft |
| `ledger_view` | 9 ledgers of 5 facts from 2 installs, under every order of their stamps | the view is the union, the carried state is a replay's, live is held |
| `ingest` | 1 port file to a channel and 1 verb's fact, lines of 3 and 2 bytes, 1 death or failed write, 2 router gens, fairness | the bytes implement `FactLog`; no file is lost; each leaves the outbox; everybody folds everything |
| `letters` | 3 threads in a line of openers, 2 letters of people and bodies, 3 events (closings, hand notes, failed homes, refusals), fairness | no letter is dropped, one word settles all that stand for it, at most two bodies, done is done, the incremental table is a replay's, every letter ends settled or with the operator |
| `letters_passive` | the same | finding 2 |
| `looms` | 2 installs, 1 thread, 2 leases of it, four worlds: calm with 2 router gens and a note; grace with 2; late, again, missed and a skew of 9 with 2; two pins and no router | in calm: each gen of the thread counts once and its body alone runs, one gen at a time, until its release, and the holder's note settles its letter; in all: accepted gens climb |
| `pausing` | 2 tool calls, 1 death of the loop, `Faults = {}`, fairness | what is stopped is on record; the loop gets the ledger's lock; in the end nothing is stopped |
| `pausing_ps` | the same with `ps` | finding 3 |

The bounds. Two installs are a holder and a taker; a third adds a second
taker, and of two takers one loses the swap whoever it is. Three commits are
a lease, its renewal or retry, and a takeover, with an old push still on its
way. Four to six instants let a term with both margins run out after a takeover. Two
generations of a body are one that leaves something behind and one that could
find it. Three gens of the router let an install lose the lease and take it
back. `MaxBeats` bounds the moves of all ledger refs together. Five facts are
a router, two leases, a release or a note, and its letter: two copies of one
id, a fact before its cause and a holder that is fenced each need four. Two
leases of a thread are one that holds it and one that takes it over, or that a
tick of a takeover writes beside it. Two pins are one that takes a thread from
another install and its unpin or the next. With a
skew of 9 all that one install writes sorts after all that the other does. A third
install of `Looms` would read of some ledgers and not of others: the states are too
many for a run, and its theorems are of any number. One
port file and one verb are two writers of one stream, and one death is enough
for each place where one can come. Three threads let a letter climb twice; two
letters are a letter and its answer, or one that settles while another climbs;
three events are two closings and what a person does between. Two tool calls
are one stopped with the lock and one stopped waiting for it; an append before
and one after a pass stand for any number, since each leaves the lock as it was. The successors
that the loom writes are under no bound: `TwoBodies` and the tree give one. In
`GitLease` the installs are interchangeable and so is every bound on them, so its
safety runs use symmetry; the others do not.

Deadlock is checked but in `ingest` and `letters*`, which come to an end when
every file is read and every letter settled, and in `pausing_ps`, where the loop
itself may end up waiting. `Restart` keeps `LedgerView` and `GitLease`
going, `Flip` keeps `BodyLife`, `Crash` keeps `Speech` and `StepDown` keeps
`Looms` going, and the tick `Pausing`, so the absence of one says nothing there about progress; the
liveness properties do.

### Fairness

`BodyLife`: the loop ticks for as long as the daemon runs (`run`) and finishes
a pass it begins; a deadline passes; a body held dry that reads the order to
end does so (`jack.py`). Two steps have strong fairness, since nothing else
gives them: a KILL that in the end lands on a proven body, and a gauge that in the end
reads after a failed exit. Nothing is assumed of a body left to itself, which
is why a body that cannot be proven ours is excepted in `SettledIsReleased`.

`Speech`: `speak_out` runs on every tick of a living install (weak fairness of
the attempt's next step). The lease, the shuttle and the crashes are under no
fairness; the property asks only for a router that stays in office.

`Ingest`: the loop ticks and its shuttle packs, a verb that has the lock goes
on or dies, the peer polls, writes and reads. Nothing is assumed of deaths, or
of when time passes: an outbox that is never read old enough is read each pass.

`Pausing`: the loop ticks, a body gone is released in one of its ticks, a program
that runs leaves the lock, a verb of the body ends, and the cap of a pause
passes. A flock passes nobody over for ever (strong fairness of taking it), a
stopped process included. Nothing is assumed of calls, of the body's answer or
of its end.

`Letters`: the loop runs (one weak fairness of all its steps together: the
bounds leave it finitely many), and a body ends at last, by itself, by its fuel
or by the table's stop. Nothing is assumed of people, of what a body says, or of
faults.

## The proofs

`GitLeaseProofs`, for any set of installs, any ttl, margin, window, drift
within the margin, and any bounds:

- `TypeCorrect`: `TypeOK`;
- `TermExclusion`: `OneInsideTerm`;
- `StrictExclusion`: `OneAuthorizedStrict`, which follows from the one before,
  since a strict install is authorized inside its term only;
- `OwnRenewals`: `RenewsOwnLease`;
- `GensClimb`: `TakeoverBumpsGen`;
- `GensNameOne`: `GenNamesOneHolder`;
- `GraceIsOlder`: `GracedIsOlder`.

All but the first assume `FetchFails = FALSE`; the runs with failed fetches
show what becomes of the exclusion otherwise. Neither invariant is inductive
as it stands. The strengthening (`IInv`) has two halves.

*What a sha means.* A push makes a commit of its own: nothing names the sha of
a push in `net` until it lands (`Shas`, `Fresh`), and a call that still waits
for that push means by it what the request says (`Pending`). So whoever names
the ref's present sha, in `seen`, `held` or an answer not yet read, knows what
the ref says (`Known`), which is why a compare-and-swap that succeeds replaced
the lease its sender looked at.

*What a term means.* A term that an install holds, or will hold once it reads
the answer on its way, has run out less the margin, or else (`Terms`) it is the
one the ref shows, every follower that saw that sha started its count no more
than the drift before the push was sent, and no push that could replace it is
on its way. Two terms that still run would both be the one the ref shows, which
has one holder. `Clocks` bounds the drift; `Leads` says that an install that
leads is not giving the lease up; `Gens`, that a push that could land and
changes the holder also raises the gen, is what `GensClimb` needs.

The last two need to know where a gen may still be named: in the lease an
install holds, in a grant it has yet to read, and at the ref (`Claim`).
`GenClaims` says that the claims to one gen are one install's, that none is
above the ref's, and that a term that still runs is at the ref's gen, as is any
push that could replace it. So of two authorities the one at the lower gen is not
at the ref's, and its term is over: it is the one in grace.

`BodyLifeProofs`, for any number of leases of the thread, files in a port and
crashes:

- `BodyTypeCorrect`: `TypeOK`, in which whoever is in a pass has one of twenty
  lists of commands left to do;
- `ThreadHasOneBody`: `OneLiveBody`;
- `ReleaseIsClean`: `ReleasedClean`;
- `OnceIsOnce`: `OnceFacts`, no once-only fact is appended twice;
- `TableRefusesNothing`: `TableTotal`, the table has a row for everything a pass
  can begin with;
- `SaidThenEnded`: `SaidBeforeEnded`, the process gone and its words ingested
  before the attempt's end is recorded;
- `StartedIsOnce`: `StartedOnce`;
- `SignalIsOnRecord`: `StopOnRecord`.

Between two commands of a pass anything may happen: files, an exit, a deadline,
the other actor, a death. What makes it safe to go on is `Ready`: for each list
that can be left to do, what the facts of the generation, its process, its port
and its deadline must be. `Sound` is what the facts alone say of the process
(no process before `shown`, nothing in the port once the end is recorded).
`DecideIsReady` goes through the rows of the table: from facts that are sound,
every observation `_observe_body` can make gives a list that is ready. Then each
hand takes a ready list to a ready rest, and what the body and the clock do in
between leaves it ready. Only `starting`, one flock for the loop and the
operator, keeps the other actor from changing the facts under a list.

`SpeechProofs`, for any set of installs and any number of gens:

- `SpeechTypeCorrect`: `TypeOK`;
- `DeliveredOnce`: `AtMostOnce`;
- `OneSender`: `OneSpeaker`;
- `LedgerIsTrue`: `SpeechTrue`;
- `SpeakingIsOneAttempt`: `OneAttempt`, the refinement of `OnceEffect`.

The argument: a letter carries one gen, a gen has one router, and an install
speaks only if it has the router fact of the letter's gen. So one install
speaks (`Speakers`, `OneDraft`, `Routers`), its store of sends is on disk
before and after the effect (`Stored`), and what was delivered can be read off
it (`Delivered`, `Spoken`). The invariant is checked by TLC on the instance of
`speech` as well. For the refinement, whoever is inside `speak` has the attempt
or there is none (`AttemptInSpeak`), so `Intend`, `Effect`, `Receipt` and `Say`
move the abstract attempt from the state they need (`OnceStep`), and a fact of
another kind changes nothing that is said (`SaidStays`).

`LedgerViewProofs`, first of the fold, for any threads, strands, letters and
rows in any order, so for every skew of the clocks:

- `ApplySound`: every row keeps the type of the state, and a strand live
  exactly at the gen at which it holds its thread (`LiveIsHolder`, which
  `ledger_view` checks of whole ledgers as `LiveHolds`);
- `ReplaySound`: the same of the fold of any ledger, of any length;
- `SupersededCountsForNothing`: what a body writes at a gen at which it holds
  no thread leaves the state as it was.

`LiveIsHolder` is not inductive alone: a strand that held two threads and was
fenced at one would still hold the other. The strengthening (`Sound`) adds that
a strand holds one thread, which rests on `route` minting a name for every
lease (`Minted`).

Then of the view, for every ledger that can be read, and whatever batches of it
are read in whatever order, with re-reads and restarts between:

- `ViewConverges`: `ViewIsUnion`;
- `ReducerReplays`: `ReducerIsReplay`;
- `CarriedStateIsSound`: `LiveHolds`.

A view that was extended and the union of all that was read are computed in two
ways. What makes them equal is a description of the union's order that does not
say how it is made (`Ordered`): no id twice, no fact before one it comes after,
and of two facts the one with the higher stamp is first only if the other waited
for a fact between them. `OneOrder` shows that this fixes the sequence: two that
are `Ordered` and hold the same facts are the same, by their first difference.
`UnionIs` shows it of the union, `CutOrdered` of what `newest_renewals` leaves
of it, and `Extended` of a view with a batch after it that `incoming` did not
hold for a reorder. `Shows` says which facts a view has: those kept of each id,
less the renewals with a later one. It does not depend on how they came
(`MoreRead`). The inductive invariant, `Reading`, is these two and the reducer.

The assumption is `Readable`: a ledger is finite, stamps are natural numbers and
no two facts have the same one (`next_hlc`), no fact comes after itself by way of
others (the union raises there, `facts.py:124`), and a renewal is the only fact
of its id, which names its install, gen and time (`router.py:413`), with no fact
after it (`ledger.py:137`). For `LiveHolds`, in addition, `RowOK`, the types of
a row, and `OwnStrands`, that a strand is of one lease. `LedgerView` assumes it
of `Ledgers`, so TLC checks the nine ledgers of the run for it.

These results are inductions over a ledger's length, which no theorem of the
library states in a form the provers can use. They are done on a set instead of
a predicate: `Counting` says that a set of numbers that has 0
and, with each number, the next, has them all (from a least number outside it),
and `Recursion` that a function that a `LET` defines from its own previous value
exists. `LettersProofs` has its own copy of the two.

`LoomsProofs`, for any number of installs, router gens, leases, notes, pins and
writes:

- `ThreadIsHeldInTurn`: `OneAtATime`;
- `ReleaseIsFinal`: `ReleaseCounts`;
- `NoteSettles`: `NoteCounts`;
- `GensOnlyClimb`: `GensClimb`, when clocks agree in every world; when they do
  not, with one router at a time that is told, or of two installs that is not.

None of the four is inductive. They are about a fold, and say nothing of what
an install that has not read everything will write next, or of where in the
order of stamps that falls. The invariant (`IInv`) speaks of facts alone, and of
the order in which they were written: `Time`, the number of writes, which is a
stamp without the lead of its clock and which no process sees. It has four
layers, by what a world rules out.

- `Base`, in every world. What an install writes has one of six shapes and an id
  of its own (`Written`); a copy of a ledger is a head of it, on disk (`Heads`)
  and in what a tick goes by (`Sighted`); a release or a note names a lease that
  its writer has (`Grounded`); a gen was given out after the one below it, and an
  install gives out higher and higher ones (`Counted`).
- `Routed`, with one router at a time: a router's gen is its own, and every
  lease is stamped with the newest gen written by then.
- With one router at a time that is told, `Informed`: who took the newest router
  lease goes by every lease of the thread or waits for one ledger that has the
  rest, and the other installs' leases are all on the remote. `Knows`: nobody
  grants before all leases so far are on its disk. `Rising`: a lease whose gen is
  not above one before it is by an install that had given out that gen itself.
- In calm, `Older`: the newest router has no lease of another install without those
  before it, on disk and in what it goes by. `Firm`: only the first lease of a gen
  (`First`) is released, noted for or started for. `InTurn`: a gen is given out
  after a release of each gen below it.

The argument turns on the grant of a takeover (`GrantTold`, `GrantTurn`). Either
the tick goes by every lease, and then the gen is new and the last was released;
or it lacks some, and those are in the one ledger that it waited for, by an
install that went through the gens before: its new lease repeats a gen of
that ledger (`NextGenTold`). The union keeps the lease written first (`KeptNow`), and
those have higher and higher gens (`KeptRise`). Nothing is built on the other:
an install that folds its disk and finds that a strand holds the thread has found
the first lease of a gen (`HeldFirst`, since by `Knows` and `Older` it has what
came before), so a body is started, and a release or a note written, for no
other (`FirmStays`, `RowFirm`).

From there the properties are read off a fold. `Smooth` is what the union of an
install satisfies where routers are told and clocks agree (`SmoothNow`): each
fact comes after what it is about, and no two leases have one gen. It holds of
whatever has a head of every ledger (`Owned`), though the leases of some installs
may be missing from it. `Tells` says what a fold of such facts contains: every
lease counts, the holder is the strand of the last lease unless that was
released, a letter that the holder noted is handled; and, where each lease comes
after a release of the one before it (`Turned`), leases and releases alternate
(`TellsTurns`). `FoldTells` proves it for any set, one fact at a time in the
order of stamps (`FoldBy`, an induction over pairs of a state and the facts it
is of). `Turned` is known of the fold of everything (`AllTurned`) and not of the
view of an install: with three installs one may have two leases and not the
release between them, which a third wrote. `ReleaseCounts` and `NoteCounts`,
which are about such a view, do without it.

`GensClimb` needs no calm. Whatever the fold refuses, it accepts leases of a
router in the order of their gens (`AcceptsInOrder`). With clocks that agree the
order of stamps is that of writing, by which gens were given out (`Counted`).
With clocks apart behind one router at a time, a lease that counts after another
was also written after it, by a later router. `LoomsConstants` says that there is a thread, a letter and an
install, that a world's bounds are natural numbers, and that the strands'
names suffice for the leases of every world.

`IngestProofs`, for any files of a port, any widths of lines, any number of
deaths and write errors, in whatever byte they come:

- `Invariance`: the inductive invariant, as a theorem;
- `NothingIsLost`: `NothingLost`;
- `StreamIsALog`: `IsALog`, the refinement of `FactLog`.

Every step leaves the complete lines of a stream at its head (`Keeps`), and the
folders of the shuttle are heads of each other (`Copied`). So an offset that was
the end of a line stays one (`LineEnd`), and those are all that a writer's index
(`Indexed`) and a reader's cursor (`Readers`) go on from. Who is in the middle
of a line has the flock, and has left the first bytes of that line, and nothing
else, behind the last newline (`Torn`): the next append heals those and no more.
The refinement needs of each step what it does to complete lines (`LogStep`),
which is nothing but for the byte that is a newline. `IngestAssumption` keeps
the names of files apart from the marks for a newline and for no fact, and
gives a line at least one byte.

`LettersProofs`, for any tree of threads, any number of letters and events:

- `TwoBodiesAtMost`: `TwoBodies`;
- `OneSettlesAll`: `OneWordSettles`;
- `NothingIsDropped`: `NothingDropped`;
- `DoneIsForGood`: `DoneForGood`;
- `ReadsAreEnough`: `ReadsEnough`.

The argument of the first four is on ids. A letter made from another has all it
was made from beside it, and those it stands for are done (`Chains`). A letter
that is done has a successor, or was a notice that failed (`Causes`); one that
cost its bodies is done or the operator's (`Spent`); what the loom wrote is the
loom's (`Loomed`). Every handler that touches letters is one kind of step
(`Grows`): new ids, beside what became of the old, which only moves forward.
`DoneIsForGood` also needs that whether a settled worker's letter awaits a
receipt stays as it was: its replies are those it had, and the last of them
(`Latest`, by the numbers of letters) is the same letter.

`ReadsAreEnough` has two cases. A step that leaves main alone has every letter
read that somebody owed, and the row of one that nobody owed did not change
(`StaysDone`). An edit of main touches nothing else (`EditsApart`), and the row
of a letter then depends on its writer's thread and on its own, and on those
above that (`AboveByLine`): the walk up the openers, at most as many steps as
there are threads, meets none but those of the `Line`. The invariant adds to the
first that a letter is to a thread, a channel or nowhere (`Addressed`), and that
there are finitely many (`FewLetters`), so that what links carry is defined.
`LettersAssumption` says that the threads are finitely many and keeps the names
of people, of the loom and of channels apart from those of threads.

`PausingProofs`, for any set of calls and any number of deaths of the loop
between two pauses, without the three faults:

- `WhatIsStoppedIsRecorded`: `StoppedIsRecorded`.

The loop and the verbs share the record without a lock, so the property rests
on who is at it when. The strengthening (`IInv`) says that a pause begins with
no record and no verb and stays so until it writes its own (`PauseIsAlone`),
and that what a verb read is still what the file says when it unlinks it, by
which time none of it is stopped (`VerbIsTrue`).

Only model-checked is liveness, which TLAPS does not prove under fairness:
`SettledIsReleased`, `EveryDraftSettled`, `Ingested`, `Folded`, `Settled`,
`LockPasses` and `PauseEnds`. Every other property of a passing run is stated by
a theorem, and the theorem by the same definition.

## Findings

1. `git_lease_lost_fetch`: a poll whose `ls-remote` answers and whose fetch
   fails leaves the new sha in `seen` with no body, and no later poll fetches it
   again. The follower reads a ttl of 0 and a gen of 0: it takes a live lease
   after the margin alone, at gen 1 or its own floor.
2. `letters_passive`: a passive notice that a closed thread is owed climbs like
   any letter, and what it becomes is no notice any more: it is owed, and wakes
   a body. A person who closes a worker and its lead wakes the thread above.
3. `pausing_ps`: `resume_pids` takes a process it does not see for one that
   ended. When `ps` fails or takes ten seconds it sees none, clears the record
   and continues nobody. What was stopped stays stopped, and if it has the
   ledger's lock the loop waits for it for good (`LockPasses` fails as well).

### Observations

Met while modelling, and without a run of their own. Most can be reproduced:
with a property that says the contrary, under the constants named.

Speech:

- The id of a speech fact has no gen and its content has (`speak.py:73`).
  Written again under a later gen of the same install it is a conflict, and the
  author of a letter that may have arrived is told that it was refused. In
  `Speech`, a `disposed` fact `refused` with `delivered = 1`, at three gens.
- A letter ingested with no router fact in sight is never stamped, never sent,
  and nobody is told (`router.py:701`). In `Speech`, `EveryDraftSettled` without
  `f.gen # 0` in `Knows`.
- A letter that the previous router delivered just before its machine went away
  is told as not sent: in `Speech`, a `disposed` fact `stale` with `delivered =
  1`, at two gens.

Threads on several installs:

- The union picks one of two leases of the same gen by its stamp
  (`facts.py:84`), before the fold looks at the router. The lease of a router in
  its grace is refused, and takes the place of the one that would have counted:
  nobody holds the thread, against `project.py:1`, "A superseded gen counts for
  nothing". In `Looms` with `grace`, the fold of everything is another without
  the leases it refuses.
- A router that takes the lease over from itself, before it caught up with the
  router before, has only its own ledger to wait for (`gitlease.py:211`) and
  grants a thread that is held, and its body runs beside the other. In `Looms`,
  `OneAtATime` with `again` and three router gens.
- A pin is no handover: the pinned install grants the thread as soon as it has
  read the pin, which may be before it has read the lease that holds the
  thread. Both leases have one gen, the later stamp loses, and its body is
  fenced. In `Looms`, `OneAtATime` with one pin and one router gen. With clocks
  apart as well a pinned lease of a superseded gen would take the thread back,
  since no router gen refuses it.
- A release is written under an id of the thread and the gen, and names a
  strand. Two installs that granted one gen unaware of each other, and both
  released it, leave the union with the lease of one and the release of the
  other: the thread stays held by nobody's body. In `Looms`, `ReleaseCounts`
  with `late`.
- Nothing but the machine's clock orders a fact after what its writer had read
  (`next_hlc`). With clocks apart a note comes before its letter in the fold and
  settles nothing. In `Looms`, `NoteCounts` with `skew`.
- With skewed clocks the gens of a thread need not climb: under grace the lease
  of the stale router sorts before the router that fenced it; a pinned lease
  after a release may sort before what it follows; and of three installs one
  that missed the first lease grants its gen again, which the union keeps after
  the second. In `Looms`, `GensClimb` without its premise, with `skew` and
  `grace`, with `skew` and a pin, or with `skew`, `late` and three installs.
- A new router has the last holder's ledger on disk before it grants, but need not
  have read it: `tick_once` reads facts before `begin_tick` fetches
  (`loom.py:2335`, `router.py:392-393`), and `route` in that tick may write a
  lease for a thread that is held, against `gitlease.py:210`, "Whose ledger a new
  holder must have read before it grants". The lease never counts and gets no
  body (`OneAtATime`); it stays in the ledger. In `Looms`, in calm, a lease that is
  not among those accepted, eight steps from the start.
- A new router waits for the ledger of the last holder only (`router.py:220`,
  `shuttle.py:235`). That need not have the leases of the holder before: an
  install that takes the lease and loses it before it granted anything passes on
  the ledger it had. A third that takes over next is caught up at once, and if
  its syncs since missed the first install's ledger (a beat not due, or a ref
  that moved between the poll and the fetch, `shuttle.py:201`) it grants a thread
  that is held. In `Looms`, `OneAtATime` without `missed` in its premise and with
  `Installs = 3`, ten steps from the start.
- A body that was fenced is passed over by `_start` (`loom.py:964`): its install
  does not tell, end or collect it.

Port, ledger and letters:

- A file that the loop read, appended and did not live to unlink is stamped with
  the router gen of the next run. Under a later gen its content is another, its
  own fact is a conflict, and the strand is told that nothing in it was recorded
  (`loom.py:1013`, `1042`). In `Ingest`, a fact whose id is in `rejected`.
- A pass that stalls for a second between listing an outbox and reading the
  clock keeps a stamp under which a file was dropped meanwhile
  (`loom.py:1076-1082`): the file stays until another one comes. In `Ingest`,
  `Ingested` with `Stall`.
- A note by hand on a queued answer to a chat (`verbs_loom.py:71-83`) takes it
  out of the sends without a receipt, and the letter it answers awaits one for
  good (`owners.py:233`).
- A passive notice among the letters that did not fit in a wake is disposed of
  as shown (`loom.py:1436`), which it was not.
- The clause on writers of `OwnerProjection.read` (`owners.py:156-158`) changes
  nothing that links do not carry: without it `ReadsEnough` still holds.

Pausing:

- A loop that dies between the SIGSTOP of a call and `write_paused_record`
  (`pausing.py:95-109`) leaves work stopped that no record names: the next loop
  does not look for it, nor does the end of the body, and if it has the ledger's
  lock the next loop never writes. In `Pausing`, `StoppedIsRecorded` and
  `PauseEnds` with `mid-pause`.
- `resume` and `drop` read the record, signal for up to five seconds, and unlink
  it whatever it says by then (`pause.py:495`, `548`). If the loop resumed the
  same calls meanwhile and paused another, the new record goes. In `Pausing`,
  `StoppedIsRecorded` with `race`.
- A body that was fenced (above) is not released by its loop, and a call of it
  that is paused stays so.

## What is next

1. `Waits`: parks on threads, commits and sends (`waits.py`, `conditions.py`),
   a wake given once, whatever is observed in whichever order.
2. `BodyLife` composed with `Looms`: `_start` returns unless the strand holds
   the thread, so a body that was fenced is never told, ended or collected; and
   `_release_abandoned` ends an attempt whose install may come back.
3. `Looms` composed with `GitLease` and the shuttle: when a fetch that answers
   for some peers (`shuttle.py:201`, `219`) leaves a router without a third
   install's leases, which `missed` allows or rules out at once.
4. Publish (rebase and push against a main that moves) and reap.

## Not modelled

Parks and conditions, wishes and asks, publish and merge, and reap have state
and order of their own and are listed above or in `PROJECT.json` as planned. Update and re-exec are mostly git and process calls;
the restart they end in is a crash of the models. Health, guards, grants,
labels, trust, the board and snapshots are pure functions of facts, or views
nothing reads back. The first daemon (`daemon.py`, `cli.py`, `hooks.py`), which
the loom replaces, the rest of daemon2, the brnrd server and the frontend are
programs beside the loom: they are most of the repository's lines and share
none of its state, and no module here says anything about them.
