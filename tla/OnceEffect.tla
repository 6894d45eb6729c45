---------------------------- MODULE OnceEffect ----------------------------
(***************************************************************************)
(* What speaking promises of one letter, over all installs together (the   *)
(* docstrings of speak.py and effect_once): one attempt, on record before  *)
(* anything leaves; the effect at most once, and only while that attempt   *)
(* is undecided; a verdict that is final and true; and a ledger that says  *)
(* the verdict or that there is none.                                      *)
(***************************************************************************)
EXTENDS Naturals

VARIABLES
    attempt,   \* "none", "intended", or the verdict "sent" or "not-sent"
    reached,   \* how often the person got the letter
    said       \* what speech facts say of it

Init == attempt = "none" /\ reached = 0 /\ said = {}

Begin ==
    /\ attempt = "none" /\ attempt' = "intended"
    /\ UNCHANGED <<reached, said>>

Reach ==
    /\ attempt = "intended" /\ reached = 0
    /\ reached' = 1
    /\ UNCHANGED <<attempt, said>>

Decide(verdict) ==
    /\ attempt = "intended" /\ reached = (IF verdict = "sent" THEN 1 ELSE 0)
    /\ attempt' = verdict
    /\ UNCHANGED <<reached, said>>

\* An undecided attempt, or one that was only prepared, is said to be intended.
Say(word) ==
    /\ word = attempt \/ (word = "intended" /\ attempt = "none")
    /\ said' = said \cup {word}
    /\ UNCHANGED <<attempt, reached>>

Next ==
    \/ Begin \/ Reach
    \/ \E verdict \in {"sent", "not-sent"} : Decide(verdict)
    \/ \E word \in {"intended", "sent", "not-sent"} : Say(word)

Spec == Init /\ [][Next]_<<attempt, reached, said>>
=============================================================================
