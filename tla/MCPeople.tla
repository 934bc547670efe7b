------------------------------ MODULE MCPeople ------------------------------
EXTENDS People, TLC

CONSTANTS t1, t2, mine, camp, u1, u2, u3, s1, s2, red, blue

\* A village of two red peasants, two empty red firms, and a blue spy on the way.
Village ==
    [town |-> [t \in Town |->
                IF t = t1 THEN [NoTown EXCEPT !.nation = red, !.population = 2, !.jobless = 2]
                ELSE NoTown],
     firm |-> [f \in Firm |-> [nation |-> red, workers |-> <<>>, overseer |-> 0]],
     unit |-> [u \in Unit |->
                IF u = u1 THEN [NoUnit EXCEPT !.nation = red, !.mode = "map", !.spy = s1]
                ELSE NoUnit],
     spy |-> [s \in Spy |->
                IF s = s1 THEN [true |-> blue, cloaked |-> red, place |-> "mobile",
                                para |-> u1, exposed |-> FALSE]
                ELSE NoSpy]]

\* Towns, units and spies are taken as they come; nations differ in nothing else.
Alike == Permutations(Town) \cup Permutations(Unit) \cup Permutations(Spy)
         \cup Permutations(Nation)
=============================================================================
