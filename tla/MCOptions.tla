----------------------------- MODULE MCOptions -----------------------------
(* Occurrence sets for checking Options with TLC. *)
EXTENDS Options

\* Well-formed occurrences whose value, if any, is a word of its own, so
\* that argc is at least 4 whenever a script is given.
TwoWordOcc == {o \in Occurrences : o.name \in WithArg => o.words = 2 /\ o.val = "ok"}

=============================================================================
