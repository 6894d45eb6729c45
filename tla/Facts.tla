------------------------------- MODULE Facts -------------------------------
(***************************************************************************)
(* Facts, their order, and the union of ledgers that every install folds   *)
(* (daemon2/facts.py; newest_renewals in loom/runtime/ledger.py).          *)
(*                                                                         *)
(* A fact has an id, a stamp hlc = <<ms, counter, install>> and the ids it *)
(* comes after.  Its remaining fields are its content.                     *)
(***************************************************************************)
EXTENDS Naturals, Sequences, FiniteSets, SequencesExt

Ids(facts) == {f.id : f \in facts}

\* fact_order: stamps are compared field by field.  No two are equal, because
\* each install counts on from its own last one.
Before(f, g) ==
    LET a == f.hlc
        b == g.hlc
    IN \/ a[1] < b[1]
       \/ a[1] = b[1] /\ a[2] < b[2]
       \/ a[1] = b[1] /\ a[2] = b[2] /\ a[3] < b[3]

Least(facts) == CHOOSE f \in facts : \A g \in facts \ {f} : Before(f, g)

\* keep: of the copies of one id, the one with the lowest stamp.
Keep(f, g) == IF Before(g, f) THEN g ELSE f

\* Copies that differ must come from two installs; one install that wrote an
\* id twice is a conflict, and the ledger cannot be read.
Conflict(facts) ==
    \E f, g \in facts : f # g /\ f.id = g.id /\ f.hlc[3] = g.hlc[3]

Kept(facts) == {Least({g \in facts : g.id = f.id}) : f \in facts}

\* The facts of rest that wait for no other of them.
Ready(rest) ==
    LET ids == Ids(rest)
    IN {f \in rest : f.after \cap ids = {}}

\* union: what each fact comes after first, then by stamp.
Union(facts) ==
    LET kept == Kept(facts)
        first[n \in 0 .. Cardinality(kept)] ==
            IF n = 0 THEN <<>>
            ELSE LET done == first[n - 1]
                 IN Append(done, Least(Ready(kept \ ToSet(done))))
    IN first[Cardinality(kept)]

Stale(f, facts) ==
    /\ f.kind = "renewed"
    /\ \E g \in facts : g.kind = "renewed" /\ g.key = f.key /\ Before(f, g)

\* newest_renewals: of a gen's renewals only the last stays in a built view.
Cut(rows) ==
    LET kept[n \in 0 .. Len(rows)] ==
            IF n = 0 THEN <<>>
            ELSE IF Stale(rows[n], ToSet(rows)) THEN kept[n - 1]
            ELSE Append(kept[n - 1], rows[n])
    IN kept[Len(rows)]

\* A set of facts that a union takes: what an install appends.  No fact comes
\* after itself by way of others (union raises), an id of a renewal names its
\* install, gen and time, and nothing comes after one (ledger.py:137).
Readable(facts) ==
    /\ IsFiniteSet(facts)
    /\ \A f \in facts : f.hlc \in Nat \X Nat \X Nat
    /\ \A f, g \in facts : f.hlc = g.hlc => f = g
    /\ \A rest \in SUBSET facts : rest # {} => Ready(rest) # {}
    /\ \A f, g \in facts : g.kind = "renewed" => g.id \notin f.after /\ (f.id = g.id => f = g)
=============================================================================
