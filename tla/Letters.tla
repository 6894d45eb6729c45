------------------------------ MODULE Letters ------------------------------
(***************************************************************************)
(* Who owes each letter, and what becomes of the letters a body leaves     *)
(* unanswered: the owner table of owners.py over the ledger and the thread *)
(* tree on main, the dispositions that `_end_attempt` (loom.py),           *)
(* `_unrouted` and `speak_out` (router.py) write, the letters those leave  *)
(* behind, and the incremental projection that re-reads only what an event *)
(* may have changed.                                                       *)
(*                                                                         *)
(* The ids of the loom's notices are made from the kind and the subject    *)
(* (notice_id), so an id is the letter that began it and the kinds of the  *)
(* notices since.  A body's words become facts when the loop ingests them, *)
(* so bodies do not write while the loop is between its reading of the     *)
(* table and the last disposition of that reading (`listed`); people, who  *)
(* write to the ledger and to main directly, do.                           *)
(***************************************************************************)
EXTENDS Naturals, FiniteSets, Sequences, SequencesExt

CONSTANTS Thread,      \* the threads on main
          Opener,      \* opened-by of each: another thread, or "person"
          Home,        \* HOME_THREAD, where letters to no thread go
          MaxLetters,  \* bound: letters that people and bodies write
          Events       \* bound: those letters, closings, reopenings, hand
                       \* notes, refused sends, homes that fail, wakes that
                       \* do not fit, letters turned back, bodies let go

ASSUME LettersAssumption ==
         /\ IsFiniteSet(Thread) /\ Home \in Thread
         /\ {"person", "loom", "channel", "nowhere"} \cap Thread = {}
         /\ Opener \in [Thread -> Thread \cup {"person"}]
         /\ MaxLetters \in Nat /\ Events \in Nat

VARIABLES main,     \* open or closed, by thread
          letter,   \* the accepted letters, with what became of each
          word,     \* ids that a note, a reply or a sent speech settled
          sent,     \* channel letters with a receipt
          seen,     \* passive notices that some body was shown
          body,     \* per thread, the holder's phase and what it was shown
          closing,  \* who wrote the closing the loop has not told, or "told"
          listed,   \* the rows _unrouted has read and not yet written
          streak,   \* threads whose last attempts failed for their home
          left      \* what is left of Events

vars == <<main, letter, word, sent, seen, body, closing, listed, streak, left>>

None      == [n |-> 0, via |-> <<>>]

Under(i, kind) == [i EXCEPT !.via = Append(@, kind)]
About(i)       == [i EXCEPT !.via = Front(@)]
Base(i)        == [i EXCEPT !.via = <<>>]
Fresh == [n |-> 1 + Cardinality({i \in DOMAIN letter : i.via = <<>>}), via |-> <<>>]

Letter(to, by, re, passive) ==
  [to |-> to, by |-> by, re |-> re, passive |-> passive, waits |-> FALSE,
   fate |-> "none", tries |-> 0]

-----------------------------------------------------------------------------
(* The owner table. *)

\* The notices that settle with the letter they are about (`stands`): a
\* climbed, unroutable or undelivered letter, a refused send.  A bounce and a
\* failure message are about one, and settle alone.
Standing == {"climbed", "unroutable", "refused", "undelivered"}

StandsOver(y, x) == /\ x.n = y.n
                    /\ IsStrictPrefix(x.via, y.via)
                    /\ \A k \in Len(x.via) + 1 .. Len(y.via) : y.via[k] \in Standing

\* Mutant: the pass over the pairs of notices is left out.
NoPairs(i) == letter[i].fate = "done" \/ i \in word

\* fold().handled: a word settles its letter, all that stand over it, and the
\* one it stands for; a disposition settles its letter alone.
Handled(i) == \/ letter[i].fate = "done"
              \/ \E w \in word : \/ i = w
                                 \/ StandsOver(i, w)
                                 \/ StandsOver(w, i) /\ i = About(w)

Replies(i) == {k \in DOMAIN letter : letter[k].to = "channel" /\ letter[k].re = i
                                     /\ letter[k].by # "loom"}
Reply(i)   == CHOOSE k \in Replies(i) : \A m \in Replies(i) : m.n <= k.n

AwaitsReceipt(i) == /\ Replies(i) # {}
                    /\ letter[Reply(i)].fate = "none"
                    /\ Reply(i) \notin sent

\* The first open thread from t up its openers, or "person" above the last.
OpenAbove(t) ==
  LET up[k \in 0 .. Cardinality(Thread)] ==
        [u \in Thread |->
           IF k = 0 THEN "person"
           ELSE IF main[u] = "open" THEN u
           ELSE IF Opener[u] = "person" THEN "person"
           ELSE up[k - 1][Opener[u]]]
  IN up[Cardinality(Thread)][t]

\* A worker's answer to its opener falls with the worker that opener closed.
SettledWorker(i) ==
  LET l == letter[i] IN
    /\ l.by \in Thread /\ l.re \in DOMAIN letter
    /\ main[l.by] = "closed" /\ Opener[l.by] = l.to
    /\ letter[l.re].to = l.by

Row(who, at, does) == [who |-> who, at |-> at, does |-> does]

ClosedRow(i, t) ==
  IF i \in body[t].shown THEN Row("body", t, "drain")
  ELSE IF OpenAbove(t) = "person" THEN Row("operator", t, "note")
  ELSE Row("opener", OpenAbove(t), "climb")

OpenRow(t) == IF body[t].phase = "running" THEN Row("body", t, "")
              ELSE Row("loom", t, "start")

\* Mutant: a passive notice is done only while a body that saw it is there.
SeenNow(i) == letter[i].passive /\ \E u \in Thread : i \in body[u].shown

\* A passive notice informs: shown once, nobody owes it a word.
Informed(i) == letter[i].passive /\ i \in seen

Owner(i) ==
  LET l == letter[i]  t == l.to IN
  IF Handled(i) \/ i \in sent THEN Row("nobody", t, "")
  ELSE IF Informed(i) THEN Row("nobody", t, "")
  ELSE IF l.fate = "operator" THEN Row("operator", t, "note")
  ELSE IF l.waits THEN Row("clock", t, "wait")
  ELSE IF t = "channel" THEN Row("channel", t, "send")
  ELSE IF AwaitsReceipt(i) THEN Row("channel", t, "receipt")
  ELSE IF SettledWorker(i) THEN Row("nobody", t, "")
  ELSE IF t = "nowhere" THEN Row("loom", t, "unroutable")
  ELSE IF main[t] = "closed" THEN ClosedRow(i, t)
  ELSE OpenRow(t)

LettersFor(t) == {i \in DOMAIN letter :
                    LET row == Owner(i) IN
                      /\ row.at = t /\ row.who \in {"body", "loom", "opener"}
                      /\ row.does \notin {"unroutable", "climb"}}

Notices(letters) == {i \in letters : letter[i].passive}

Unroutable == {i \in DOMAIN letter : Owner(i).does \in {"unroutable", "climb"}}

-----------------------------------------------------------------------------
Gone == [phase |-> "none", shown |-> {}]

Init == /\ main = [t \in Thread |-> "open"]
        /\ letter = [i \in {} |-> Letter("nowhere", "loom", None, FALSE)]
        /\ word = {} /\ sent = {} /\ seen = {} /\ listed = {} /\ streak = {}
        /\ body = [t \in Thread |-> Gone]
        /\ closing = [t \in Thread |-> "told"]
        /\ left = Events

\* One letter more.
Adds(i, l) == letter' = [j \in DOMAIN letter \cup {i} |-> IF j = i THEN l ELSE letter[j]]

\* A letter is done, and lives on in the one that stands for it: one fact.
LivesOn(i, kind, to) ==
  letter' = [j \in DOMAIN letter \cup {Under(i, kind)} |->
               IF j = i THEN [letter[i] EXCEPT !.fate = "done"]
               ELSE IF j \in DOMAIN letter THEN letter[j]
               ELSE Letter(to, "loom", i, FALSE)]


Costs    == left > 0 /\ left' = left - 1
Idle     == listed = {}   \* the loop is not between a reading and its writes

(* People: letters through a connector, notes by hand, edits of main. *)

PersonWrites(to) ==
  /\ Costs /\ Fresh.n <= MaxLetters
  /\ Adds(Fresh, Letter(to, "person", None, FALSE))
  /\ UNCHANGED <<main, word, sent, seen, body, closing, listed, streak>>

\* `attention --note`, of any letter but a queued speech (README, Observations).
PersonNotes(i) ==
  /\ i \notin word /\ letter[i].to # "channel" /\ Costs
  /\ word' = word \cup {i}
  /\ UNCHANGED <<main, letter, sent, seen, body, closing, listed, streak>>

Closes(c, by) ==
  /\ main[c] = "open" /\ Costs
  /\ main' = [main EXCEPT ![c] = "closed"]
  /\ closing' = [closing EXCEPT ![c] = by]
  /\ UNCHANGED <<letter, word, sent, seen, body, listed, streak>>

PersonCloses(c) == Closes(c, "person")

\* A wish placed on a closed thread, or a person's edit.
Reopens(c) ==
  /\ main[c] = "closed" /\ Costs
  /\ main' = [main EXCEPT ![c] = "open"]
  /\ closing' = [closing EXCEPT ![c] = "told"]
  /\ UNCHANGED <<letter, word, sent, seen, body, listed, streak>>

-----------------------------------------------------------------------------
(* The body on thread t, as its words reach the ledger. *)

Running(t) == body[t].phase = "running" /\ Idle

\* A boundary shows what the thread is owed by then.
Boundary(t) ==
  /\ Running(t) /\ ~ LettersFor(t) \subseteq body[t].shown
  /\ body' = [body EXCEPT ![t].shown = @ \cup LettersFor(t)]
  /\ seen' = seen \cup Notices(LettersFor(t))
  /\ UNCHANGED <<main, letter, word, sent, closing, listed, streak, left>>

Notes(t, i) ==
  /\ Running(t) /\ i \in body[t].shown /\ i \notin word
  /\ word' = word \cup {i}
  /\ UNCHANGED <<main, letter, sent, seen, body, closing, listed, streak, left>>

\* A letter to another thread, which may answer one that was shown; only one
\* that waits for an hour (--at) may be to the writer's own.
Writes(t, to, re, at) ==
  /\ Running(t) /\ (to # t \/ at) /\ re \in body[t].shown \cup {None}
  /\ Costs /\ Fresh.n <= MaxLetters
  /\ Adds(Fresh, [Letter(to, t, re, FALSE) EXCEPT !.waits = at])
  /\ word' = word \cup ({re} \ {None})
  /\ UNCHANGED <<main, sent, seen, body, closing, listed, streak>>

\* An answer to the chat a letter came from: it settles nothing until sent.
Answers(t, i) ==
  /\ Running(t) /\ i \in body[t].shown
  /\ letter[Base(i)].by = "person"
  /\ Costs /\ Fresh.n <= MaxLetters
  /\ Adds(Fresh, Letter("channel", t, i, FALSE))
  /\ UNCHANGED <<main, word, sent, seen, body, closing, listed, streak>>

\* settle: the opener's body, or the thread's own where a person opened it.
Settles(t, c) ==
  /\ Running(t)
  /\ Opener[c] = t \/ (c = t /\ Opener[t] = "person")
  /\ Closes(c, t)

-----------------------------------------------------------------------------
(* The end of an attempt. *)

\* Where a bounce goes: to the author's thread, a notice up the openers.
BounceTo(t, i) ==
  LET to == IF letter[i].by \in Thread THEN letter[i].by ELSE Opener[t]
  IN IF to = t THEN Opener[t] ELSE to

Verdict(fate, kind, to) == [fate |-> fate, kind |-> kind, to |-> to]

\* Mutant: a person's letter is given a third body.
TriedTwice(i) == letter[i].tries >= 2

Tried(i) == letter[i].tries >= 1

\* Mutant: a letter that cannot bounce is called bounced all the same.
BouncedAnyway(t, i) ==
  IF BounceTo(t, i) \in Thread THEN Verdict("done", "bounce", BounceTo(t, i))
  ELSE Verdict("done", "", "nowhere")

Bounced(t, i) ==
  IF BounceTo(t, i) \in Thread THEN Verdict("done", "bounce", BounceTo(t, i))
  ELSE Verdict("operator", "", "nowhere")

\* What one more failed attempt makes of a letter.  usable: its author can
\* still be reached in the chat it came from.
Judged(t, i, usable) ==
  IF letter[i].by # "person"
  THEN IF letter[i].passive THEN Verdict("done", "", "nowhere") ELSE Bounced(t, i)
  ELSE IF ~ Tried(i) THEN Verdict("none", "retry", "nowhere")
  ELSE IF usable THEN Verdict("done", "failed", "channel")
  ELSE Verdict("operator", "", "nowhere")

\* One fact holds every disposition of a failed attempt and the successors.
\* refusal: the letter about a failed home, if there is to be one.
Fails(t, letters, usable, refusal) ==
  LET verdict == [i \in letters |-> Judged(t, i, usable)]
      followed == {i \in letters : verdict[i].kind \in {"failed", "bounce"}}
      after(i) == Under(i, verdict[i].kind)
  IN letter' = [j \in DOMAIN letter \cup {after(i) : i \in followed} \cup refusal |->
                  IF j \in letters
                  THEN [letter[j] EXCEPT !.fate = verdict[j].fate, !.tries = @ + 1]
                  ELSE IF j \in DOMAIN letter THEN letter[j]
                  ELSE IF j \in refusal THEN Letter(Home, "loom", None, FALSE)
                  ELSE Letter(verdict[About(j)].to, "loom", About(j), FALSE)]

\* A body is gone and its port drained: attempt.ended, port.drained and the
\* release, with what becomes of the letters it was shown and still owes.
Ends(t) ==
  LET owed == body[t].shown \cap LettersFor(t) IN
  /\ Running(t)
  /\ body' = [body EXCEPT ![t] = Gone]
  /\ streak' = streak \ {t}
  /\ \/ /\ main[t] = "closed" \/ owed = {}
        /\ UNCHANGED <<letter, left>>
     \/ /\ main[t] = "open" /\ owed # {}      \* stopped, paced, moved, reincarnated
        /\ Costs
        /\ UNCHANGED letter
     \/ /\ main[t] = "open" /\ owed # {}      \* failed
        /\ \E usable \in BOOLEAN : Fails(t, owed, usable, {})
        /\ UNCHANGED left
  /\ UNCHANGED <<main, word, sent, seen, closing, listed>>

\* The home failed, before the wake was shown or after: every letter of the
\* thread is retried without a count, but those that would not go in a wake.
HomeFails(t) ==
  \E shown \in {{}, LettersFor(t)} :
  \E large \in SUBSET LettersFor(t) :
  \E usable \in BOOLEAN :
  LET refusal == IF LettersFor(t) = {} \/ ~ LettersFor(t) \subseteq large
                 THEN IF t \in streak THEN {} ELSE {Fresh} ELSE {}
  IN /\ Idle /\ body[t].phase = "leased" /\ main[t] = "open" /\ Costs
     /\ body' = [body EXCEPT ![t] = Gone]
     /\ seen' = seen \cup Notices(shown)
     /\ streak' = streak \cup {t}
     /\ Fails(t, large, usable, refusal)
     /\ UNCHANGED <<main, word, sent, closing, listed>>

\* A thread closed before its body started ends as settled.
EndsUnstarted(t) ==
  /\ Idle /\ body[t].phase = "leased" /\ main[t] = "closed"
  /\ body' = [body EXCEPT ![t] = Gone]
  /\ streak' = streak \ {t}
  /\ UNCHANGED <<main, letter, word, sent, seen, closing, listed, left>>

-----------------------------------------------------------------------------
(* The loop: closings told, threads granted, letters moved and spoken. *)

\* A closing is told once; its opener hears unless its own body wrote it.
TellsClosing(c) ==
  /\ Idle /\ main[c] = "closed" /\ closing[c] # "told"
  /\ closing' = [closing EXCEPT ![c] = "told"]
  /\ IF Opener[c] \in Thread /\ closing[c] # Opener[c]
     THEN Adds(Fresh, Letter(Opener[c], "loom", None, TRUE))
     ELSE UNCHANGED letter
  /\ UNCHANGED <<main, word, sent, seen, body, listed, streak, left>>

\* Mutant: only letters that were never tried wake a body.
GrantsUntried(t) ==
  /\ Idle /\ main[t] = "open" /\ body[t].phase = "none"
  /\ \E i \in LettersFor(t) : ~ letter[i].passive /\ letter[i].tries = 0
  /\ body' = [body EXCEPT ![t].phase = "leased"]
  /\ UNCHANGED <<main, letter, word, sent, seen, closing, listed, streak, left>>

\* A lease for a thread nobody holds and that is owed more than notices.
Grants(t) ==
  /\ Idle /\ main[t] = "open" /\ body[t].phase = "none"
  /\ \E i \in LettersFor(t) : ~ letter[i].passive
  /\ body' = [body EXCEPT ![t].phase = "leased"]
  /\ UNCHANGED <<main, letter, word, sent, seen, closing, listed, streak, left>>

\* The wake is shown and the body started.  Letters that did not fit are left
\* for the first boundary.
Starts(t) ==
  \E shown \in SUBSET LettersFor(t) :
    /\ Idle /\ body[t].phase = "leased" /\ main[t] = "open"
    /\ IF shown = LettersFor(t) THEN UNCHANGED left ELSE Costs
    /\ body' = [body EXCEPT ![t] = [phase |-> "running", shown |-> shown]]
    /\ seen' = seen \cup Notices(shown)
    /\ UNCHANGED <<main, letter, word, sent, closing, listed, streak>>

\* observe_due: the hour of a letter has come, unless it was settled before.
ComesDue(i) ==
  /\ Idle /\ letter[i].waits /\ ~ Handled(i)
  /\ letter' = [letter EXCEPT ![i].waits = FALSE]
  /\ UNCHANGED <<main, word, sent, seen, body, closing, listed, streak, left>>

\* _refused: a thread that this loom will not run (its README is for another
\* loom, or its adapter has no policy) turns its letters back to their writers.
TurnsBack(t) ==
  LET letters == {i \in LettersFor(t) : ~ letter[i].passive}
      to(i)   == IF letter[i].by \in Thread THEN letter[i].by ELSE Home
      told    == {i \in letters : to(i) # t}
  IN /\ Idle /\ main[t] = "open" /\ body[t].phase = "none"
     /\ letters # {} /\ Costs
     /\ letter' = [j \in DOMAIN letter \cup {Under(i, "undelivered") : i \in told} |->
                     IF j \in letters
                     THEN [letter[j] EXCEPT !.fate = IF j \in told THEN "done" ELSE "operator"]
                     ELSE IF j \in DOMAIN letter THEN letter[j]
                     ELSE Letter(to(About(j)), "loom", About(j), FALSE)]
     /\ UNCHANGED <<main, word, sent, seen, body, closing, listed, streak>>

\* _unrouted reads the table once ...
Lists ==
  /\ Idle /\ Unroutable # {}
  /\ listed' = {[id |-> i,
                 to |-> IF Owner(i).does = "climb" THEN Owner(i).at ELSE Home,
                 kind |-> IF Owner(i).does = "climb" THEN "climbed" ELSE "unroutable"]
                  : i \in Unroutable}
  /\ UNCHANGED <<main, letter, word, sent, seen, body, closing, streak, left>>

\* ... and writes its rows one by one: the disposition and the successor that
\* stands for the letter, in one fact.
Moves(r) ==
  /\ listed' = listed \ {r}
  /\ LivesOn(r.id, r.kind, r.to)
  /\ UNCHANGED <<main, word, sent, seen, body, closing, streak, left>>

\* speak_out: the receipt settles the draft and the letter it answers.
Speaks(k) ==
  /\ Idle /\ Owner(k).does = "send"
  /\ sent' = sent \cup {k}
  /\ word' = word \cup {k} \cup (IF letter[k].by = "loom" THEN {} ELSE {letter[k].re})
  /\ UNCHANGED <<main, letter, seen, body, closing, listed, streak, left>>

\* A send that is refused: its drafting thread hears, for a failure message
\* the operator does.
IsRefused(k) ==
  /\ Idle /\ Owner(k).does = "send" /\ Costs
  /\ IF letter[k].by = "loom" THEN letter' = [letter EXCEPT ![k].fate = "operator"]
     ELSE LivesOn(k, "refused", letter[k].by)
  /\ UNCHANGED <<main, word, sent, seen, body, closing, listed, streak>>

-----------------------------------------------------------------------------
Loop == \/ \E t \in Thread : \/ TellsClosing(t) \/ Grants(t) \/ Starts(t)
                             \/ EndsUnstarted(t)
        \/ Lists
        \/ \E r \in listed : Moves(r)
        \/ \E k \in DOMAIN letter : Speaks(k) \/ ComesDue(k)

Body == \E t \in Thread :
          \/ Boundary(t)
          \/ \E i \in body[t].shown : Notes(t, i) \/ Answers(t, i)
          \/ \E u \in Thread, re \in body[t].shown \cup {None}, at \in BOOLEAN :
               Writes(t, u, re, at)
          \/ \E c \in Thread : Settles(t, c)

Others == \/ \E to \in Thread \cup {"nowhere"} : PersonWrites(to)
          \/ \E i \in DOMAIN letter : PersonNotes(i) \/ IsRefused(i)
          \/ \E c \in Thread : PersonCloses(c) \/ Reopens(c)
          \/ \E t \in Thread : HomeFails(t) \/ TurnsBack(t)

Next == Loop \/ Body \/ Others \/ \E t \in Thread : Ends(t)

\* The loop runs, and a body ends; nothing else must happen.
Spec == /\ Init /\ [][Next]_vars
        /\ WF_vars(Loop)
        /\ \A t \in Thread : WF_vars(Ends(t))

-----------------------------------------------------------------------------
(* What OwnerProjection reads again.  Any new fact makes every letter that    *)
(* somebody owes dirty; an edit of main, the letters below a thread it        *)
(* changed and those whose writer sits there; and links carry both along.     *)

Active == {i \in DOMAIN letter : Owner(i).who # "nobody"}

Linked(i, j) == \/ letter[i].re = j \/ letter[j].re = i

Carried(dirty) ==
  LET more[k \in 0 .. Cardinality(DOMAIN letter)] ==
        IF k = 0 THEN dirty
        ELSE LET last == more[k - 1]
             IN last \cup {j \in DOMAIN letter : \E i \in last : Linked(i, j)}
  IN more[Cardinality(DOMAIN letter)]

\* Mutant: only the thread a letter is addressed to is looked at.
OnlyIts(t) == {t} \cap Thread

\* t and the threads that opened it, up to the last.
Line(t) ==
  LET up[k \in 0 .. Cardinality(Thread)] ==
        IF k = 0 THEN {t} \cap Thread
        ELSE LET last == up[k - 1] IN last \cup ({Opener[u] : u \in last} \cap Thread)
  IN up[Cardinality(Thread)]

TouchedByMain(changed) ==
  {i \in DOMAIN letter : \/ Line(letter[i].to) \cap changed # {}
                         \/ letter[i].by \in changed}

ReadAgain(changed) ==
  Carried(IF changed = {} THEN Active ELSE TouchedByMain(changed))

-----------------------------------------------------------------------------
(* Properties.                                                             *)

\* A letter that nobody owes was settled by a word, was a passive notice that
\* was shown, fell with its worker, or lives on in a letter that the loom
\* wrote about it: no end of a body, closing or refusal drops one
\* (_end_attempt, loom.py; _unrouted and speak_out, router.py).
NothingDropped ==
  \A i \in DOMAIN letter :
    Owner(i).who = "nobody" =>
      \/ \E w \in word : w = i \/ StandsOver(i, w) \/ StandsOver(w, i)
      \/ letter[i].passive /\ (i \in seen \/ letter[i].tries > 0)
      \/ SettledWorker(i)
      \/ \E j \in DOMAIN letter : j.via # <<>> /\ About(j) = i

\* However often a letter climbed or moved, and whoever was shown which copy:
\* a word on any of them leaves none of them owed (seed/core/loom/README.md:31,
\* "settling either one settles both"), and no two of them are ever owed.
OneWordSettles ==
  \A x, y \in DOMAIN letter :
    StandsOver(y, x) =>
      /\ Owner(x).who = "nobody" \/ Owner(y).who = "nobody"
      /\ {x, y} \cap word # {} => Owner(x).who = "nobody" /\ Owner(y).who = "nobody"

\* No letter costs more than two bodies, one of anybody's but a person; after
\* that no body is woken for it (_end_attempt; "a letter two bodies died
\* reading", seed/core/loom/README.md:31).
TwoBodies ==
  \A i \in DOMAIN letter :
    letter[i].tries >= (IF letter[i].by = "person" THEN 2 ELSE 1)
      => Owner(i).who \in {"nobody", "operator"}

\* A letter nobody owes is owed again only when the worker that wrote it is
\* opened again (owners.py, the table over growing facts and a changing main).
DoneForGood ==
  [][\A i \in DOMAIN letter :
       Owner(i).who = "nobody" /\ Owner(i)'.who # "nobody"
         => letter[i].by \in Thread /\ main[letter[i].by] # main'[letter[i].by]]_vars

\* The rows that a step changes are among those the projection reads again:
\* what it holds is what a replay from nothing would give (OwnerProjection.read).
ReadsEnough ==
  [][LET moved == {i \in DOMAIN letter : Owner(i) # Owner(i)'}
         again == ReadAgain({t \in Thread : main[t] # main'[t]})
     IN \A i \in moved : i \in again]_vars

\* Whatever bodies fail to do, every letter but a passive notice ends: it is
\* settled, or the operator's (owners.py; "What the loom cannot settle by its
\* own rules it hands to a body", seed/core/loom/README.md:29).
Settled ==
  <>[](\A i \in DOMAIN letter :
         Owner(i).who \in {"nobody", "operator"} \/ letter[i].passive)

\* A passive notice wakes no body (seed/core/loom/README.md:33), nor does a
\* letter that does nothing but stand for one.
PassiveWakesNobody ==
  [][\A t \in Thread :
       body[t].phase = "none" /\ body'[t].phase = "leased"
         => \E i \in LettersFor(t) :
              \A j \in DOMAIN letter : (j = i \/ StandsOver(i, j)) => ~ letter[j].passive]_vars
=============================================================================
