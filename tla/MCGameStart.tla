---------------------------- MODULE MCGameStart ----------------------------
(***************************************************************************)
(* Instances of GameStart for TLC.                                         *)
(***************************************************************************)
EXTENDS GameStart

CONSTANTS a, b

Three == {Host, a, b}
=============================================================================
