--------------------------- MODULE MCErrorControl ---------------------------
(* Instances of ErrorControl for TLC. *)
EXTENDS ErrorControl

CONSTANTS a, b, c

\* One machine sends enough to wrap the frame ids, its peer listens.
OneSender  == [p \in Player |-> IF p = a THEN 5 ELSE 0]
\* One broadcast to everybody.
OneMessage == [p \in Player |-> IF p = a THEN 1 ELSE 0]
=============================================================================
