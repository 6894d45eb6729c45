------------------------------ MODULE MCIngest ------------------------------
(* Small instances of Ingest for TLC. *)
EXTENDS Ingest, TLC

CONSTANTS letter, verb

\* The line of a letter is longer than that of a verb's fact, so that a torn
\* tail can be longer than, as long as and shorter than the line after it.
Widths == letter :> 2 @@ verb :> 1
=============================================================================
