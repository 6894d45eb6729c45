------------------------------ MODULE MCLooms ------------------------------
(* Two installs and one thread for Looms. *)
EXTENDS Looms

CONSTANTS th, ask

CalmWorld == [grace |-> FALSE, late |-> FALSE, again |-> FALSE, missed |-> FALSE, skew |-> 0,
              maxGen |-> 2, maxGrants |-> 2, maxNotes |-> 1, maxPins |-> 0]
Quieter == [CalmWorld EXCEPT !.maxNotes = 0]
Graced  == [Quieter EXCEPT !.grace = TRUE]
Apart   == [Quieter EXCEPT !.late = TRUE, !.again = TRUE, !.missed = TRUE, !.skew = 9]
Pinning == [Quieter EXCEPT !.maxGen = 0, !.maxPins = 2]

\* One world per question: what holds in calm, with grace, with clocks apart behind
\* routers that are not told, and with pins.
AllWorlds == {CalmWorld, Graced, Apart, Pinning}

Strands == Install \X (1 .. 2)
=============================================================================
