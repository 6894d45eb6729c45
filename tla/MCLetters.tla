----------------------------- MODULE MCLetters -----------------------------
EXTENDS Letters

CONSTANTS inbox, lead, worker

\* The home thread, opened by a person, a lead that it opened, and a worker
\* that the lead opened.
MCOpener == [t \in Thread |-> CASE t = worker -> IF lead \in Thread THEN lead ELSE inbox
                               [] t = lead -> inbox
                               [] OTHER -> "person"]

=============================================================================
