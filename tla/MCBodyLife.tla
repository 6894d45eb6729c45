----------------------------- MODULE MCBodyLife -----------------------------
(* Small instances of BodyLife for TLC. *)
EXTENDS BodyLife

\* No row has a command that can be moot anywhere but in front, which is what
\* lets Decide look at the first one only.
ASSUME MootComesFirst ==
    \A k \in DOMAIN Table : \A i \in DOMAIN Table[k].commands :
        Table[k].commands[i] \in {"pending", "unidentified"} => i = 1
=============================================================================
