------------------------------ MODULE FactLog ------------------------------
(***************************************************************************)
(* What a ledger stream promises (the docstrings of ledger.py and          *)
(* shuttle.py): facts are appended whole and stay, an id is used once, and *)
(* a reader, here or on a peer, only ever holds facts that were appended   *)
(* and forgets none while it runs.                                         *)
(***************************************************************************)
EXTENDS Naturals

CONSTANTS
    Fact,     \* records with an id
    Reader    \* processes that fold the stream

VARIABLES
    log,      \* the facts on record, by the offset at which each ends
    seen      \* the facts each reader holds

Recorded == {log[e] : e \in DOMAIN log}

Init ==
    /\ log = <<>>
    /\ seen = [r \in Reader |-> {}]

\* A writer puts one fact on record, after all the others; the reader of its own
\* process may hold it at once.
Record(f) ==
    /\ \A g \in Recorded : g.id # f.id
    /\ \E end \in DOMAIN log' :
         /\ \A e \in DOMAIN log : e < end
         /\ log' = [e \in DOMAIN log \cup {end} |-> IF e = end THEN f ELSE log[e]]
    /\ \/ UNCHANGED seen
       \/ \E r \in Reader : seen' = [seen EXCEPT ![r] = @ \cup {f}]

\* A reader reads on, over any part of what is on record.
Read(r) ==
    /\ UNCHANGED log
    /\ seen[r] \subseteq seen'[r]
    /\ seen'[r] \subseteq Recorded
    /\ \A q \in Reader \ {r} : seen'[q] = seen[q]

\* A process starts again and holds nothing.
Forget(r) ==
    /\ UNCHANGED log
    /\ seen' = [seen EXCEPT ![r] = {}]

Next ==
    \/ \E f \in Fact : Record(f)
    \/ \E r \in Reader : Read(r) \/ Forget(r)

Spec == Init /\ [][Next]_<<log, seen>>
=============================================================================
