------------------------- MODULE ReliableMulticast -------------------------
(***************************************************************************)
(* What the error-control layer promises to the game (ErrorControl         *)
(* implements it): each machine publishes messages 0, 1, 2, ... and every  *)
(* peer that stays connected takes in each of them once, out of order by   *)
(* fewer than Window places.  A publisher never runs further ahead than    *)
(* Window of the slowest peer it still counts on.                          *)
(***************************************************************************)
EXTENDS Integers

CONSTANTS Player, Window, Budget

VARIABLES
    peers,  \* peers[p]: the players p is connected to
    sent,   \* sent[p]: how many messages p has published
    got     \* got[p][q]: the messages of q that p has taken in

vars == <<peers, sent, got>>

Init ==
    /\ peers = [p \in Player |-> Player \ {p}]
    /\ sent = [p \in Player |-> 0]
    /\ got = [p \in Player |-> [q \in Player |-> {}]]

Publish(p) ==
    /\ sent[p] < Budget[p]
    /\ peers[p] # {}
    /\ \A q \in peers[p] : 0 .. sent[p] - Window \subseteq got[q][p]
    /\ sent' = [sent EXCEPT ![p] = @ + 1]
    /\ UNCHANGED <<peers, got>>

\* p takes in message n of q; none that is Window or more behind it is missing.
Deliver(p, q, n) ==
    /\ q \in peers[p]
    /\ n \in 0 .. sent[q] - 1
    /\ n \notin got[p][q]
    /\ 0 .. n - Window \subseteq got[p][q]
    /\ got' = [got EXCEPT ![p][q] = @ \cup {n}]
    /\ UNCHANGED <<peers, sent>>

Disconnect(p, q) ==
    /\ q \in peers[p]
    /\ peers' = [peers EXCEPT ![p] = @ \ {q}]
    /\ UNCHANGED <<sent, got>>

Next ==
    \/ \E p \in Player : Publish(p)
    \/ \E p, q \in Player : Disconnect(p, q) \/ \E n \in 0 .. sent[q] - 1 : Deliver(p, q, n)

Spec == Init /\ [][Next]_vars
=============================================================================
