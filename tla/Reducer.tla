------------------------------ MODULE Reducer ------------------------------
(***************************************************************************)
(* The fold of the ledger into the state the loops act on (Reducer.apply   *)
(* in project.py): who holds each thread, and which letters are settled.   *)
(*                                                                         *)
(* Apply(st, f) is the state after row f.  A row is a record with the      *)
(* fields its kind has in the code.  Left out: the links between notices,  *)
(* and what the fold keeps for views only (writers, activity, bodies).     *)
(***************************************************************************)
EXTENDS Naturals, Sequences

CONSTANTS
    Thread,    \* the threads of the self
    Strand,    \* names of bodies: minted afresh for each lease
    Letter     \* letters, replies to a channel included

Nobody == <<>>

-----------------------------------------------------------------------------

Start ==
    [newest  |-> 0,                              \* highest router gen, 0 for none
     accepted |-> <<>>,                          \* of leases and releases only
     holder  |-> [t \in Thread |-> Nobody],      \* <<strand, gen>> of each thread
     live    |-> [s \in Strand |-> 0],           \* the gen each strand is live at
     dest    |-> [l \in Letter |-> {}],          \* where a letter went
     replies |-> {},                             \* <<reply, letter>> not yet sent
     handovers |-> {},                           \* letters of a reincarnation
     disposed |-> {},                            \* letters an end calls done
     handled |-> {}]                             \* letters settled explicitly

\* consider: the letter counts as settled if the writer holds its thread, at
\* that gen and at this point of the order.
Holds(st, f) == \E t \in st.dest[f.re] : st.holder[t] = <<f.strand, f.gen>>

\* A row by a strand that is not live at its gen is not accepted.
Live(st, f) == st.live[f.strand] = f.gen

Mark(st, letters) == [st EXCEPT !.handled = @ \cup letters]

\* Mutant: a lease counts from whichever router wrote it.
AnyRouter(st, f) == TRUE

\* lease_accepted; no router_gen is 0, as is no router so far.
LeaseAccepted(st, f) == f.pin \/ f.rgen = st.newest

\* Mutant: a new holder leaves the strand before it live.
Unfenced(st, f) == st.live

\* The strand that a new holder fences.
Fenced(st, f) ==
    LET was == st.holder[f.thread] IN
    IF was # Nobody /\ was # <<f.strand, f.gen>> /\ st.live[was[1]] = was[2]
    THEN [st.live EXCEPT ![was[1]] = 0]
    ELSE st.live

\* Mutant: the holder is replaced first, and then fenced in its own stead.
LeaseFencedLate(st, f) ==
    IF LeaseAccepted(st, f)
    THEN [st EXCEPT !.accepted = Append(@, f),
                    !.holder[f.thread] = <<f.strand, f.gen>>,
                    !.live[f.strand] = 0]
    ELSE st

Lease(st, f) ==
    IF LeaseAccepted(st, f)
    THEN [st EXCEPT !.accepted = Append(@, f),
                    !.holder[f.thread] = <<f.strand, f.gen>>,
                    !.live = [Fenced(st, f) EXCEPT ![f.strand] = f.gen]]
    ELSE st

Released(st, f) ==
    IF st.holder[f.thread] = <<f.strand, f.gen>>
    THEN [st EXCEPT !.accepted = Append(@, f),
                    !.holder[f.thread] = Nobody,
                    !.live[f.strand] = IF @ = f.gen THEN 0 ELSE @]
    ELSE st

Router(st, f) == IF f.gen > st.newest THEN [st EXCEPT !.newest = f.gen] ELSE st

\* A letter from a person, a connector or the loom.
Placed(st, f) == [st EXCEPT !.dest[f.letter] = {f.thread}]

Note(st, f) == IF Live(st, f) /\ Holds(st, f) THEN Mark(st, {f.re}) ELSE st

\* A strand's letter to a thread answers like a note, and is owed there.
Send(st, f) ==
    IF Live(st, f) THEN Note(Placed(st, f), f) ELSE st

\* A letter of reincarnation is also settled by its successor's boundary.
Handover(st, f) ==
    IF Live(st, f) THEN [Send(st, f) EXCEPT !.handovers = @ \cup {f.letter}] ELSE st

Shown(st, f) == IF f.re \in st.handovers THEN Note(st, f) ELSE st

\* The end of an attempt: what became of its letters, and a successor of one.
Ended(st, f) ==
    [st EXCEPT !.disposed = @ \cup f.done,
               !.dest = [l \in Letter |-> IF l \in f.next THEN {f.thread} ELSE @[l]]]

\* A strand's answer to a channel settles its letter once it was sent.
Reply(st, f) ==
    IF Live(st, f) /\ Holds(st, f)
    THEN [st EXCEPT !.replies = @ \cup {<<f.letter, f.re>>}]
    ELSE st

Speech(st, f) ==
    Mark(st, {f.letter} \cup {r[2] : r \in {r \in st.replies : r[1] = f.letter}})

\* A person's note, or the loom's own, settles a letter outright.
HandNote(st, f) == Mark(st, {f.re})

Apply(st, f) ==
    CASE f.kind = "router"   -> Router(st, f)
      [] f.kind = "lease"    -> Lease(st, f)
      [] f.kind = "released" -> Released(st, f)
      [] f.kind = "letter"   -> Placed(st, f)
      [] f.kind = "note"     -> Note(st, f)
      [] f.kind = "send"     -> Send(st, f)
      [] f.kind = "handover" -> Handover(st, f)
      [] f.kind = "shown"    -> Shown(st, f)
      [] f.kind = "ended"    -> Ended(st, f)
      [] f.kind = "reply"    -> Reply(st, f)
      [] f.kind = "speech"   -> Speech(st, f)
      [] f.kind = "hand"     -> HandNote(st, f)
      [] OTHER               -> st     \* due, renewed, and kinds no loop folds

\* The state after some rows, in their order (Reducer.resume).
Replay(st, rows) ==
    LET after[n \in 0 .. Len(rows)] ==
            IF n = 0 THEN st ELSE Apply(after[n - 1], rows[n])
    IN after[Len(rows)]

-----------------------------------------------------------------------------

\* The fields of a row that the fold reads.
RowOK(f) ==
    /\ f.kind \in {"lease", "released"} => f.thread \in Thread
    /\ f.kind \in {"letter", "send", "handover", "ended"} => f.thread \in Thread
    /\ f.kind \in {"letter", "send", "handover", "reply", "speech"} => f.letter \in Letter
    /\ f.kind \in {"lease", "released", "note", "send", "handover", "shown", "reply"}
           => f.strand \in Strand /\ f.gen \in Nat \ {0}
    /\ f.kind \in {"note", "send", "handover", "shown", "reply", "hand"} => f.re \in Letter
    /\ f.kind = "router" => f.gen \in Nat
    /\ f.kind = "ended" => f.done \subseteq Letter /\ f.next \subseteq Letter

\* A strand is minted for one thread (route).
OwnStrands(rows) ==
    \A f, g \in rows : f.kind = "lease" /\ g.kind = "lease" /\ f.strand = g.strand
                          => f.thread = g.thread

\* A strand is live exactly at the gen at which it holds a thread: what a
\* superseded or released body writes is accepted by no fold.
LiveIsHolder(st) ==
    /\ \A s \in Strand : st.live[s] # 0 =>
           \E t \in Thread : st.holder[t] = <<s, st.live[s]>>
    /\ \A t \in Thread : st.holder[t] # Nobody =>
           st.live[st.holder[t][1]] = st.holder[t][2]
=============================================================================
