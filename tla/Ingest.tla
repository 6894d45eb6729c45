------------------------------- MODULE Ingest -------------------------------
(***************************************************************************)
(* The way of a port file into the ledger and on to the peers: _ingest and *)
(* _reject in loom.py, append, WriterIndex, _heal_tail and LedgerReader in *)
(* ledger.py, pack and _write in shuttle.py.                               *)
(*                                                                         *)
(* One strand's outbox and one stream of the ledger, byte by byte.  The    *)
(* body drops files; the loop appends the fact of each and unlinks it; a   *)
(* verb of the body appends to the same stream from a process of its own,  *)
(* under the ledger's flock.  Any process may die between any two writes   *)
(* and in the middle of a line.  Nobody who reads takes the lock.          *)
(***************************************************************************)
EXTENDS Naturals, FiniteSets, Sequences, SequencesExt

CONSTANTS
    File,       \* port files; the fact of each is named after it
    Outward,    \* the files that hold a letter to a channel
    Verb,       \* the id of the fact a verb appends
    Width,      \* bytes in the line of a fact, without its newline
    Stall,      \* a second may pass between the listing and the clock's reading
    MaxGen,     \* bound: router gens
    MaxFaults   \* bound: deaths and write errors

\* Neither what ends a line nor what is no fact has the id of one, and no line
\* of a fact is empty.
ASSUME IngestAssumption ==
    /\ {"newline", "none"} \cap (File \cup {Verb}) = {}
    /\ Width \in [File \cup {Verb} -> Nat \ {0}]
    /\ Stall \in BOOLEAN
    /\ MaxGen \in Nat \ {0} /\ MaxFaults \in Nat

VARIABLES
    temps,      \* files in port/out the body has not renamed yet
    out,        \* files in port/out
    dropped,    \* files the body wrote so far
    rejected,   \* files in port/rejected
    fresh,      \* port/out was modified within the second
    cached,     \* its time stamp is the one in _EMPTY_OUT: it held nothing under it
    file,       \* bytes of the stream: the install's own, and a peer's copy
    lock,       \* who holds the flock on ledger/facts/<install>/.lock
    pc,         \* where each writer is
    job,        \* the loop's pass: files listed, the one at hand, whether the stamp
                \*   it read is still the outbox's
    line,       \* the fact each writer appends, and the bytes still to write
    index,      \* WriterIndex of the loop: size and cursor of the stream, facts
    rgen,       \* newest router gen in the loop's view
    cursor,     \* LedgerReader.streams: size, offset, the bytes before it, and the
                \*   read under way
    stale,      \* the stream moved since the reader's last fstat
    view,       \* the facts each reader folds
    ref,        \* refs/ledger/<install> on the remote
    tree,       \* the commit the peer fetched last
    faults

outbox == <<temps, out, dropped, rejected, fresh, cached>>
writing == <<lock, pc, job, line, index, rgen>>
reading == <<cursor, stale, view>>
shuttle == <<ref, tree>>
vars == <<outbox, file, writing, reading, shuttle, faults>>

-----------------------------------------------------------------------------
(* Facts, lines and bytes.                                                 *)

Site == {"here", "there"}
Writer == {"loop", "verb"}
Gen == 0 .. MaxGen
Fact == [id : File \cup {Verb}, gen : Gen]

NL == [id |-> "newline", gen |-> 0]
NoFact == [id |-> "none", gen |-> 0]
Byte == Fact \cup {NL}

\* The line that append writes for a fact.
LineOf(f) == Append([i \in 1 .. Width[f.id] |-> f], NL)

\* Where the lines of some bytes end.
Ends(b) == {i \in DOMAIN b : b[i] = NL}

\* raw[:raw.rfind(b"\n") + 1]: the complete lines of some bytes.
Complete(b) == SubSeq(b, 1, Max({0} \cup Ends(b)))

\* The line that ends at a newline, parsed: a fact if the bytes are those of
\* one and no more, else no JSON.
Parsed(b, end) ==
    LET f == b[end - 1]
        start == end - Width[f.id]
    IN  IF /\ end > 1 /\ f # NL /\ start >= 1
           /\ \A i \in start .. end - 1 : b[i] = f
           /\ start = 1 \/ b[start - 1] = NL
        THEN f ELSE NoFact

\* The facts of complete lines, by the offset at which each line ends.
Lines(b) == [e \in Ends(b) |-> Parsed(b, e)]

Facts(b) == {Lines(b)[e] : e \in Ends(b)} \ {NoFact}
Ids(b) == {f.id : f \in Facts(b)}

\* Where a reader of a stream goes on: after the last complete line it read
\* if the file only grew, from the start otherwise.
From(cur, size) == IF cur.known /\ size > cur.size THEN cur.off ELSE 0

-----------------------------------------------------------------------------

NoStream == [known |-> FALSE, size |-> 0, off |-> 0, tail |-> <<>>, busy |-> FALSE, from |-> 0]
NoIndex == [known |-> FALSE, size |-> 0, off |-> 0, facts |-> {}]
NoJob == [todo |-> {}, at |-> Verb, same |-> FALSE]
NoLine == [fact |-> [id |-> Verb, gen |-> 0], rest |-> <<>>]

Init ==
    /\ temps = {} /\ out = {} /\ dropped = {} /\ rejected = {}
    /\ fresh = FALSE /\ cached = FALSE
    /\ file = [s \in Site |-> <<>>]
    /\ lock = "nobody"
    /\ pc = [loop |-> "idle", verb |-> "lock"]
    /\ job = NoJob
    /\ line = [w \in Writer |-> NoLine]
    /\ index = NoIndex
    /\ rgen = 1
    /\ cursor = [s \in Site |-> NoStream]
    /\ stale = [s \in Site |-> FALSE]
    /\ view = [s \in Site |-> {}]
    /\ ref = <<>>
    /\ tree = <<>>
    /\ faults = 0

-----------------------------------------------------------------------------
(* The outbox.                                                             *)

\* Modifications within one tick of the file system's clock leave one stamp.
Touch ==
    /\ fresh' = TRUE
    /\ cached' = (cached /\ fresh)

\* What a pass under way makes of it.
Overtaken == job' = [job EXCEPT !.same = @ /\ fresh]

\* write_port: the text goes into a temporary file beside it.
Prepare(p) ==
    /\ p \notin temps \cup dropped
    /\ temps' = temps \cup {p}
    /\ Touch /\ Overtaken
    /\ UNCHANGED <<out, dropped, rejected, file, lock, pc, line, index, rgen, reading, shuttle, faults>>

\* And is renamed: a whole file appears at once.
Drop(p) ==
    /\ p \in temps
    /\ temps' = temps \ {p}
    /\ out' = out \cup {p}
    /\ dropped' = dropped \cup {p}
    /\ Touch /\ Overtaken
    /\ UNCHANGED <<rejected, file, lock, pc, line, index, rgen, reading, shuttle, faults>>

\* More than a second passes.
Age ==
    /\ fresh
    /\ Stall \/ pc["loop"] # "empty"
    /\ fresh' = FALSE
    /\ UNCHANGED <<temps, out, dropped, rejected, cached, file, writing, reading, shuttle, faults>>

-----------------------------------------------------------------------------
(* _ingest: one room of a pass.                                            *)

\* An outbox unchanged since it held nothing costs one stat.
Stat ==
    /\ pc["loop"] = "idle"
    /\ ~stale["here"] /\ ~cursor["here"].busy
    /\ ~cached
    /\ pc' = [pc EXCEPT !["loop"] = "stat"]
    /\ job' = [job EXCEPT !.same = TRUE]
    /\ UNCHANGED <<outbox, file, lock, line, index, rgen, reading, shuttle, faults>>

List ==
    /\ pc["loop"] = "stat"
    /\ pc' = [pc EXCEPT !["loop"] = IF out = {} THEN "empty" ELSE "files"]
    /\ job' = [job EXCEPT !.todo = out]
    /\ UNCHANGED <<outbox, file, lock, line, index, rgen, reading, shuttle, faults>>

\* Mutant: whatever stamp an empty outbox had is kept.
EmptyAtOnce ==
    /\ pc["loop"] = "empty"
    /\ cached' = job.same
    /\ pc' = [pc EXCEPT !["loop"] = "idle"]
    /\ job' = NoJob
    /\ UNCHANGED <<temps, out, dropped, rejected, fresh, file, lock, line, index, rgen, reading, shuttle, faults>>

\* A stamp read in the last second can still move inside the same tick: it is
\* not kept.
Empty ==
    /\ pc["loop"] = "empty"
    /\ cached' = (job.same /\ ~fresh)
    /\ pc' = [pc EXCEPT !["loop"] = "idle"]
    /\ job' = NoJob
    /\ UNCHANGED <<temps, out, dropped, rejected, fresh, file, lock, line, index, rgen, reading, shuttle, faults>>

\* Mutant: the file is unlinked as it is read.
TakeUnlinking(p) ==
    /\ pc["loop"] = "files"
    /\ p \in job.todo
    /\ job' = [job EXCEPT !.at = p]
    /\ line' = [line EXCEPT !["loop"].fact = [id |-> p, gen |-> IF p \in Outward THEN rgen ELSE 0]]
    /\ pc' = [pc EXCEPT !["loop"] = "lock"]
    /\ out' = out \ {p}
    /\ Touch
    /\ UNCHANGED <<temps, dropped, rejected, file, lock, index, rgen, reading, shuttle, faults>>

\* fact_from_port and _stamp_router: a letter to a channel carries the newest
\* router gen of the loop's view.
Take(p) ==
    /\ pc["loop"] = "files"
    /\ p \in job.todo
    /\ job' = [job EXCEPT !.at = p]
    /\ line' = [line EXCEPT !["loop"].fact = [id |-> p, gen |-> IF p \in Outward THEN rgen ELSE 0]]
    /\ pc' = [pc EXCEPT !["loop"] = "lock"]
    /\ UNCHANGED <<outbox, file, lock, index, rgen, reading, shuttle, faults>>

PassEnds ==
    /\ pc["loop"] = "files"
    /\ job.todo = {}
    /\ pc' = [pc EXCEPT !["loop"] = "idle"]
    /\ job' = NoJob
    /\ UNCHANGED <<outbox, file, lock, line, index, rgen, reading, shuttle, faults>>

\* The file at hand leaves port/out.
Leaves(p) ==
    /\ out' = out \ {p}
    /\ Touch
    /\ job' = [job EXCEPT !.todo = @ \ {p}, !.at = Verb, !.same = FALSE]
    /\ line' = [line EXCEPT !["loop"] = NoLine]
    /\ pc' = [pc EXCEPT !["loop"] = "files"]

Unlink ==
    /\ pc["loop"] = "unlink"
    /\ Leaves(job.at)
    /\ UNCHANGED <<temps, dropped, rejected, file, lock, index, rgen, reading, shuttle, faults>>

\* _reject: the file is moved aside, and the strand is told that nothing in
\* it was recorded.
Reject ==
    /\ pc["loop"] = "reject"
    /\ Leaves(job.at)
    /\ rejected' = rejected \cup {job.at}
    /\ UNCHANGED <<temps, dropped, file, lock, index, rgen, reading, shuttle, faults>>

-----------------------------------------------------------------------------
(* append, in any process.                                                 *)

Unlocked(w) == lock' = IF lock = w THEN "nobody" ELSE lock

\* A write by anybody: the readers of the stream see that it moved.
Moved(s, bytes) ==
    /\ file' = [file EXCEPT ![s] = bytes]
    /\ stale' = [stale EXCEPT ![s] = TRUE]

\* WriterIndex.refresh: what the loop carries from append to append, and what
\* any other process reads anew.
Prior(w) == IF w = "loop" THEN index ELSE NoIndex
Refreshed(prior) ==
    LET size == Len(file["here"])
        from == From(prior, size)
        read == Complete(SubSeq(file["here"], from + 1, size))
    IN  [known |-> TRUE, size |-> size, off |-> from + Len(read),
         facts |-> Facts(read) \cup (IF from = 0 THEN {} ELSE prior.facts)]

Known(w) == Refreshed(Prior(w)).facts

\* Where the code goes on when append returned, and when it raised.
Next1(w) == IF w = "loop" THEN "unlink" ELSE "done"
Raised(w) == IF w = "loop" THEN "reject" ELSE "done"

\* The loop adds what append returned to its own view.
Added(w, f) == view' = IF w = "loop" THEN [view EXCEPT !["here"] = @ \cup {f}] ELSE view

\* Mutant: a torn tail is written on to.
Unhealed == file["here"]

\* _heal_tail: the bytes after the last newline go, under the lock.
Healed == Complete(file["here"])

\* Same id, same content: append returns what is on record.
Same(f, old) == f \in old

Enter(w) ==
    LET f == line[w].fact
        old == {g \in Known(w) : g.id = f.id}
    IN  /\ pc[w] = "lock"
        /\ lock = "nobody"
        /\ index' = IF w = "loop" THEN Refreshed(index) ELSE index
        /\ UNCHANGED <<outbox, job, rgen, cursor, shuttle, faults>>
        /\ \/ /\ Same(f, old)                            \* already on record
              /\ pc' = [pc EXCEPT ![w] = Next1(w)]
              /\ Added(w, f)
              /\ UNCHANGED <<file, lock, line, stale>>
           \/ /\ ~Same(f, old) /\ old # {}              \* LedgerConflict
              /\ pc' = [pc EXCEPT ![w] = Raised(w)]
              /\ UNCHANGED <<file, lock, line, stale, view>>
           \/ /\ old = {}                                \* _heal_tail
              /\ lock' = w
              /\ pc' = [pc EXCEPT ![w] = "write"]
              /\ line' = [line EXCEPT ![w].rest = LineOf(f)]
              /\ Moved("here", Healed)
              /\ UNCHANGED view

\* A byte reaches the file; the last of them ends the append.
Write(w) ==
    LET rest == line[w].rest
    IN  /\ pc[w] = "write"
        /\ Moved("here", Append(file["here"], Head(rest)))
        /\ line' = [line EXCEPT ![w].rest = Tail(rest)]
        /\ IF Tail(rest) = <<>>
           THEN /\ pc' = [pc EXCEPT ![w] = Next1(w)]
                /\ Unlocked(w)
                /\ Added(w, line[w].fact)
           ELSE UNCHANGED <<pc, lock, view>>
        /\ UNCHANGED <<outbox, job, index, rgen, cursor, shuttle, faults>>

\* The disk is full: append raises, the line stays torn.
WriteFails(w) ==
    /\ pc[w] = "write"
    /\ faults < MaxFaults
    /\ faults' = faults + 1
    /\ pc' = [pc EXCEPT ![w] = Raised(w)]
    /\ line' = [line EXCEPT ![w].rest = <<>>]
    /\ Unlocked(w)
    /\ UNCHANGED <<outbox, file, job, index, rgen, reading, shuttle>>

-----------------------------------------------------------------------------
(* Deaths.                                                                 *)

\* The loop dies and starts again, perhaps as the router of the next gen.
LoopDies ==
    /\ faults < MaxFaults
    /\ faults' = faults + 1
    /\ Unlocked("loop")
    /\ pc' = [pc EXCEPT !["loop"] = "idle"]
    /\ job' = NoJob
    /\ line' = [line EXCEPT !["loop"] = NoLine]
    /\ index' = NoIndex
    /\ cached' = FALSE
    /\ rgen' \in {rgen, rgen + 1} \cap Gen
    /\ cursor' = [cursor EXCEPT !["here"] = NoStream]
    /\ view' = [view EXCEPT !["here"] = {}]
    /\ stale' = [stale EXCEPT !["here"] = TRUE]
    /\ UNCHANGED <<temps, out, dropped, rejected, fresh, file, shuttle>>

VerbDies ==
    /\ pc["verb"] # "done"
    /\ faults < MaxFaults
    /\ faults' = faults + 1
    /\ Unlocked("verb")
    /\ pc' = [pc EXCEPT !["verb"] = "done"]
    /\ line' = [line EXCEPT !["verb"] = NoLine]
    /\ UNCHANGED <<outbox, file, job, index, rgen, reading, shuttle>>

-----------------------------------------------------------------------------
(* LedgerReader._scan: fstat, then read to the end.  A pass of the loop    *)
(* begins with it.                                                         *)

InPass(s) == s = "here" => pc["loop"] = "idle"

ScanStat(s) ==
    /\ InPass(s)
    /\ stale[s] /\ ~cursor[s].busy
    /\ stale' = [stale EXCEPT ![s] = FALSE]
    /\ cursor' = [cursor EXCEPT ![s] =
         [@ EXCEPT !.busy = TRUE, !.size = Len(file[s]), !.from = From(cursor[s], Len(file[s]))]]
    /\ UNCHANGED <<outbox, file, writing, view, shuttle, faults>>

\* The bytes a cursor remembers of what lies before it.
LastBytes(b) == SubSeq(b, IF Len(b) < 2 THEN 1 ELSE Len(b) - 1, Len(b))

\* Where the read begins: a file that grew in place is read on only if the
\* bytes before the cursor are still the ones read.
ReadFrom(s) ==
    LET c == cursor[s]
    IN  IF /\ c.from \in 1 .. Len(file[s])
           /\ SubSeq(file[s], c.from - Len(c.tail) + 1, c.from) = c.tail
        THEN c.from ELSE 0

\* Mutant: the bytes up to the size of the fstat are read, and the marker of
\* changes after them.
ScanReadSized(s) ==
    LET from == ReadFrom(s)
        size == IF cursor[s].size < Len(file[s]) THEN cursor[s].size ELSE Len(file[s])
        read == Complete(SubSeq(file[s], from + 1, size))
    IN  /\ cursor[s].busy
        /\ cursor' = [cursor EXCEPT ![s] =
             [known |-> TRUE, size |-> @.size, off |-> from + Len(read),
              tail |-> LastBytes(SubSeq(file[s], 1, from + Len(read))),
              busy |-> FALSE, from |-> 0]]
        /\ stale' = [stale EXCEPT ![s] = FALSE]
        /\ view' = [view EXCEPT ![s] = Facts(read) \cup (IF from = 0 THEN {} ELSE @)]
        /\ UNCHANGED <<outbox, file, writing, shuttle, faults>>

\* To the end, which may lie past the fstat; only complete lines advance the
\* offset.
ScanRead(s) ==
    LET from == ReadFrom(s)
        read == Complete(SubSeq(file[s], from + 1, Len(file[s])))
    IN  /\ cursor[s].busy
        /\ cursor' = [cursor EXCEPT ![s] =
             [known |-> TRUE, size |-> @.size, off |-> from + Len(read),
              tail |-> LastBytes(SubSeq(file[s], 1, from + Len(read))),
              busy |-> FALSE, from |-> 0]]
        /\ view' = [view EXCEPT ![s] = Facts(read) \cup (IF from = 0 THEN {} ELSE @)]
        /\ UNCHANGED <<outbox, file, writing, stale, shuttle, faults>>

-----------------------------------------------------------------------------
(* The shuttle.                                                            *)

\* pack, and a push that carries it: only complete lines travel.
Pack ==
    /\ ref # Complete(file["here"])
    /\ ref' = Complete(file["here"])
    /\ UNCHANGED <<outbox, file, writing, reading, tree, faults>>

\* sync fetched a ref that moved; _write makes the folder's file of it.
Fetch ==
    /\ file["there"] = tree
    /\ tree # ref
    /\ tree' = ref
    /\ UNCHANGED <<outbox, file, writing, reading, ref, faults>>

\* A file that only grew is appended to in place, in any number of writes;
\* another one is replaced, and its readers' cursors with it.
Materialize ==
    LET have == file["there"]
    IN  /\ have # tree
        /\ UNCHANGED <<outbox, writing, view, shuttle, faults>>
        /\ \/ /\ have # <<>> /\ IsPrefix(have, tree)
              /\ Moved("there", SubSeq(tree, 1, Len(have) + 1))
              /\ UNCHANGED cursor
           \/ /\ have = <<>> \/ ~IsPrefix(have, tree)
              /\ Moved("there", tree)
              /\ cursor' = [cursor EXCEPT !["there"].known = FALSE]

\* The peer dies in the middle of it, forgets what it read and polls anew.
PeerDies ==
    /\ faults < MaxFaults
    /\ faults' = faults + 1
    /\ tree' = file["there"]
    /\ cursor' = [cursor EXCEPT !["there"] = NoStream]
    /\ view' = [view EXCEPT !["there"] = {}]
    /\ stale' = [stale EXCEPT !["there"] = TRUE]
    /\ UNCHANGED <<outbox, file, writing, ref>>

-----------------------------------------------------------------------------

\* The loop's thread, the verb's, the peer's and its reader's.
LoopNext ==
    \/ Stat \/ List \/ Empty \/ PassEnds \/ Unlink \/ Reject
    \/ \E p \in File : Take(p)
    \/ Enter("loop") \/ Write("loop")
    \/ ScanStat("here") \/ ScanRead("here")
VerbNext == Enter("verb") \/ Write("verb")
PeerNext == Fetch \/ Materialize
PeerReads == ScanStat("there") \/ ScanRead("there")

Next ==
    \/ \E p \in File : Prepare(p) \/ Drop(p)
    \/ Age
    \/ LoopNext \/ VerbNext \/ Pack \/ PeerNext \/ PeerReads
    \/ \E w \in Writer : WriteFails(w)
    \/ LoopDies \/ VerbDies \/ PeerDies

Spec == Init /\ [][Next]_vars

\* The loop ticks for as long as the daemon runs, and the shuttle and the
\* peer's loop with it; a verb under the lock finishes or dies.
FairSpec ==
    /\ Spec
    /\ WF_vars(LoopNext) /\ WF_vars(VerbNext)
    /\ WF_vars(Pack) /\ WF_vars(PeerNext) /\ WF_vars(PeerReads)

-----------------------------------------------------------------------------
(* Properties.                                                             *)

\* The bytes keep the promise of a ledger: a fact is on record when its line
\* is complete, stays there, has its id alone, and nobody, reading at any
\* moment on any machine, holds anything else (ledger.py:1, shuttle.py:11-13).
Log == INSTANCE FactLog WITH
    Reader <- Site,
    log <- Lines(file["here"]),
    seen <- view
IsALog == Log!Spec

\* What a body said is never gone: a file it dropped is still in its outbox,
\* or was moved aside, or its fact is on record (_ingest unlinks last).
NothingLost == \A p \in dropped : p \in out \cup rejected \cup Ids(file["here"])

\* Every file leaves the outbox in the end, whatever the loop's cache of
\* empty outboxes says and however often a process dies (loom.py:1045-1082).
Ingested == []<>(out = {})

\* Every fact on record is folded in the end, here and on the peer, and no
\* reader is stuck on a torn line or past a healed one.
Folded == []<>(\A s \in Site : view[s] = Facts(file["here"]))
=============================================================================
