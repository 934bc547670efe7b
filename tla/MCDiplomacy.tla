---------------------------- MODULE MCDiplomacy ----------------------------
EXTENDS Diplomacy, TLC

CONSTANTS h, x, y

Pairwise(f(_)) == [n \in Nation |-> [m \in Nation |-> IF n = m THEN f({}) ELSE f({n, m})]]

\* The relations as the code sets them up.
Peace == [status |-> Pairwise(LAMBDA pair : Neutral), trade |-> Pairwise(LAMBDA pair : FALSE)]

\* h and x are allies, x and y friends who trade, and h is at war with y.
Coalition ==
    [status |-> Pairwise(LAMBDA pair : CASE pair = {h, x} -> Alliance
                                         [] pair = {x, y} -> Friendly
                                         [] pair = {h, y} -> Hostile
                                         [] OTHER -> Neutral),
     trade |-> Pairwise(LAMBDA pair : pair \in {{h, x}, {x, y}})]

Starts == {Peace, Coalition}
=============================================================================
