----------------------------- MODULE LedgerView -----------------------------
(***************************************************************************)
(* One process's view of the ledger (LedgerReader and LedgerView in        *)
(* ledger.py, Reducer.resume in project.py).                               *)
(*                                                                         *)
(* Facts arrive in any order and grouping: the process's own appends, and  *)
(* whatever the shuttle wrote to the peers' folders since the last scan.   *)
(* The view and its reducer are extended in place when that is safe, and   *)
(* rebuilt when it is not.  What it must be is what a process that starts  *)
(* now would read.                                                         *)
(***************************************************************************)
EXTENDS Facts, Reducer

CONSTANT Ledgers   \* the ledgers that are explored, each a set of facts

ASSUME LedgersAssumption ==
    \A w \in Ledgers : Readable(w) /\ OwnStrands(w) /\ \A f \in w : RowOK(f)

VARIABLES
    ledger,     \* the facts in all the folders, in the end
    read,       \* those this process has read: the cursors of its streams
    view,       \* LedgerView, a sequence
    reducer     \* view.reducer.state

viewVars == <<ledger, read, view, reducer>>

ViewInit ==
    /\ ledger \in Ledgers
    /\ read = {}
    /\ view = <<>>
    /\ reducer = Start

\* incoming: the batch without what the view has, or has a lower copy of.
Added(batch) ==
    {f \in batch : \A g \in ToSet(view) : g.id = f.id => g # f /\ Keep(g, f) = f}

\* A higher copy of a fact in the view is dropped, a lower one displaces it.
Displaced(added) == Ids(added) \cap Ids(ToSet(view)) # {}

\* view.missing: ids that a fact of the view comes after and the view lacks.
Missing == (UNION {f.after : f \in ToSet(view)}) \ Ids(ToSet(view))

\* Mutant: only the end of the view is compared, as if no fact came after any.
ReordersByLast(added) ==
    \/ Displaced(added)
    \/ \E f \in added : view # <<>> /\ Before(f, view[Len(view)])

\* incoming: whether the batch reorders the view.
Reorders(added) ==
    \/ Displaced(added)
    \/ Ids(added) \cap Missing # {}
    \/ \E f \in added, g \in ToSet(view) : Before(f, g)

\* Mutant: the rebuilt view keeps the old reducer.
RebuildResumed(facts) ==
    /\ view' = Cut(Union(facts))
    /\ reducer' = Replay(reducer, view')

Rebuild(facts) ==
    /\ view' = Cut(Union(facts))
    /\ reducer' = Replay(Start, view')

\* apply without a reorder; the first load builds the view, and cuts it.
Extend(added) ==
    LET rows == IF view = <<>> THEN Cut(Union(added)) ELSE Union(added) IN
    /\ view' = view \o rows
    /\ reducer' = Replay(reducer, rows)

\* refresh, or the append of a fact of one's own; fold resumes the reducer.
Refresh(batch) ==
    LET added == Added(batch) IN
    /\ read' = read \cup batch
    /\ IF Reorders(added) THEN Rebuild(ToSet(view) \cup added) ELSE Extend(added)
    /\ UNCHANGED ledger

\* A stream was replaced, cut or removed: what is there now is read again.
Reread(facts) ==
    /\ read' = facts
    /\ Rebuild(facts)
    /\ UNCHANGED ledger

\* The process starts again, with nothing read.
Restart ==
    /\ read' = {} /\ view' = <<>> /\ reducer' = Start
    /\ UNCHANGED ledger

ViewNext ==
    \/ \E batch \in SUBSET (ledger \ read) : batch # {} /\ Refresh(batch)
    \/ \E facts \in SUBSET ledger : facts # {} /\ Reread(facts)
    \/ Restart

ViewSpec == ViewInit /\ [][ViewNext]_viewVars

-----------------------------------------------------------------------------
(* Properties *)

\* The view is the union of what was read, whatever the order and the batches
\* it came in; only superseded renewals may be in it or not.
ViewIsUnion == Cut(view) = Cut(Union(read))

\* The state carried from tick to tick is the one a replay of the whole
\* ledger gives (test_incremental_fold.py).
ReducerIsReplay == reducer = Replay(Start, Union(read))

\* A strand is live exactly at the gen at which it holds a thread, in the state
\* that is carried on as well (project.py, "A new holder fences the previous
\* strand even across installs"; LiveIsHolder of Reducer).
LiveHolds == LiveIsHolder(reducer)
=============================================================================
