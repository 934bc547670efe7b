------------------------------ MODULE MCLobby ------------------------------
(***************************************************************************)
(* Instances of Lobby for TLC.                                             *)
(***************************************************************************)
EXTENDS Lobby

CONSTANTS a, b, third

Three == {Host, a, b}
Four  == {Host, a, b, third}

NoPair == {}
PairAB == {{a, b}}

NoClicks   == [m \in Machine |-> 0]
AFewClicks == [m \in Machine |-> IF m = a THEN 2 ELSE IF m = Host THEN 1 ELSE 0]
=============================================================================
