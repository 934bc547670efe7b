--------------------------- MODULE GameStartProofs ---------------------------
(***************************************************************************)
(* Proofs about GameStart, for any finite set of machines: its types, and  *)
(* that the host begins only when all clients have the set-up, although it *)
(* counts messages and does not look at who sent them.                     *)
(*                                                                         *)
(* The argument: a client sends END_SETTING once, when it leaves the       *)
(* lobby, and nothing the host sends comes back to it.  So the messages    *)
(* the host has counted are those of as many different clients.            *)
(***************************************************************************)
EXTENDS GameStart, FiniteSetTheorems, TLAPS

Client == Machine \ {Host}

\* Every message the host has counted came from another client, which has left
\* the lobby; no client has a second one under way.
CountedOnce ==
    \E counted \in SUBSET Client :
        /\ recvEndSetting[Host] = Cardinality(counted)
        /\ \A n \in counted :
            phase[n] \in {"waiting", "playing"} /\ net["END_SETTING"][n][Host] = 0
        /\ \A n \in Client \ counted :
            /\ net["END_SETTING"][n][Host] \in {0, 1}
            /\ net["END_SETTING"][n][Host] = 1 => phase[n] \in {"waiting", "playing"}
            /\ phase[n] = "lobby" => net["END_SETTING"][n][Host] = 0

\* Nothing the host has sent is under way to itself, and it never gives the lobby up.
HostApart ==
    /\ \A type \in Type : net[type][Host][Host] = 0
    /\ phase[Host] # "quit"

\* The host stops waiting only when it has counted enough, or has given up.
HostCounts ==
    phase[Host] = "playing" /\ patient[Host] => recvEndSetting[Host] = playerCount - 1

\* The inductive invariant.
Inv == TypeOK /\ CountedOnce /\ HostApart /\ HostCounts

-----------------------------------------------------------------------------
(* Types *)

\* The number of players is a positive number, one more than that of clients.
LEMMA CountFact ==
    /\ playerCount \in Nat \ {0}
    /\ IsFiniteSet(Client) /\ Cardinality(Client) = playerCount - 1
BY HostAssumption, MachineAssumption, FS_RemoveElement, FS_CardinalityType,
   FS_EmptySet DEF Client, playerCount

\* A broadcast adds one packet to every other machine.
LEMMA BroadcastType ==
    ASSUME NEW packets \in [Type -> [Machine -> [Machine -> Nat]]],
           NEW m \in Machine, NEW type \in Type
    PROVE  /\ Broadcast(packets, m, type) \in [Type -> [Machine -> [Machine -> Nat]]]
           /\ \A t \in Type, k, n \in Machine :
                Broadcast(packets, m, type)[t][k][n] =
                    IF t = type /\ k = m /\ n # m THEN packets[t][k][n] + 1
                    ELSE packets[t][k][n]
<1> DEFINE row == [n \in Machine |-> IF n = m THEN packets[type][m][n]
                                     ELSE packets[type][m][n] + 1]
<1>1. row \in [Machine -> Nat]
  OBVIOUS
<1>2. Broadcast(packets, m, type) = [packets EXCEPT ![type][m] = row]
  BY DEF Broadcast
<1>3. \A n \in Machine : row[n] = IF n = m THEN packets[type][m][n] ELSE packets[type][m][n] + 1
  OBVIOUS
<1> HIDE DEF row
<1> QED BY <1>1, <1>2, <1>3

\* What a broadcast of END_SETTING adds to the announcements that go to the host.
LEMMA BroadcastEnd ==
    ASSUME NEW packets \in [Type -> [Machine -> [Machine -> Nat]]], NEW m \in Machine
    PROVE  \A n \in Client :
              Broadcast(packets, m, "END_SETTING")["END_SETTING"][n][Host] =
                  IF n = m THEN packets["END_SETTING"][n][Host] + 1
                  ELSE packets["END_SETTING"][n][Host]
<1>1. "END_SETTING" \in Type /\ Host \in Machine
      /\ \A n \in Client : n \in Machine /\ n # Host
  BY HostAssumption DEF Type, Client
<1> DEFINE type == "END_SETTING"
<1>2. type \in Type
  BY <1>1
<1> HIDE DEF type
<1>3. \A k, n \in Machine : Broadcast(packets, m, type)[type][k][n] =
            IF k = m /\ n # m THEN packets[type][k][n] + 1 ELSE packets[type][k][n]
  BY <1>2, BroadcastType
<1>4. \A n \in Client : Broadcast(packets, m, type)[type][n][Host] =
            IF n = m THEN packets[type][n][Host] + 1 ELSE packets[type][n][Host]
  BY <1>1, <1>3
<1> QED BY <1>4 DEF type

\* Packets arrive one at a time.
LEMMA ArrivedType ==
    ASSUME TypeOK, NEW m \in Machine, NEW n \in Machine, NEW type \in Type,
           net[type][n][m] > 0
    PROVE  /\ Arrived(m, n, type) \in [Type -> [Machine -> [Machine -> Nat]]]
           /\ \A t \in Type, k, l \in Machine :
                Arrived(m, n, type)[t][k][l] =
                    IF t = type /\ k = n /\ l = m THEN net[t][k][l] - 1 ELSE net[t][k][l]
<1> DEFINE new == net[type][n][m] - 1
<1>1. net \in [Type -> [Machine -> [Machine -> Nat]]]
  BY DEF TypeOK
<1>2. new \in Nat /\ Arrived(m, n, type) = [net EXCEPT ![type][n][m] = new]
  BY <1>1 DEF Arrived
<1> HIDE DEF new
<1>3. \A t \in Type, k, l \in Machine :
        Arrived(m, n, type)[t][k][l] =
            IF t = type /\ k = n /\ l = m THEN new ELSE net[t][k][l]
  BY <1>1, <1>2
<1> QED BY <1>1, <1>2, <1>3 DEF new

\* Everything is as it should be when the host starts.
LEMMA InitInv == Init => Inv
<1> SUFFICES ASSUME Init PROVE Inv
  OBVIOUS
<1>1. TypeOK
  BY CountFact DEF Init, TypeOK
<1>2. CountedOnce
  <2>1. {} \in SUBSET Client /\ Cardinality({}) = 0
    BY FS_EmptySet
  <2>2. \A n \in Client : net["END_SETTING"][n][Host] = 0
    BY HostAssumption DEF Init, Client, Type
  <2>3. recvEndSetting[Host] = 0
    BY HostAssumption DEF Init
  <2> QED BY <2>1, <2>2, <2>3 DEF CountedOnce
<1>3. HostApart /\ HostCounts
  BY HostAssumption DEF Init, HostApart, HostCounts
<1> QED BY <1>1, <1>2, <1>3 DEF Inv

\* The types after each action.
LEMMA StepType ==
    ASSUME TypeOK, Next PROVE TypeOK'
<1> USE DEF TypeOK
<1>a. Host \in Machine /\ playerCount \in Nat \ {0}
  BY HostAssumption, CountFact
<1>b. "START_GAME" \in Type /\ "END_SETTING" \in Type
  BY DEF Type
<1>c. net \in [Type -> [Machine -> [Machine -> Nat]]]
  OBVIOUS
<1>1. CASE HostStarts
  <2> DEFINE first == Broadcast(net, Host, "START_GAME")
  <2>1. first \in [Type -> [Machine -> [Machine -> Nat]]]
    BY <1>a, <1>b, <1>c, BroadcastType
  <2>2. net' = Broadcast(first, Host, "END_SETTING")
    BY <1>1 DEF HostStarts
  <2> HIDE DEF first
  <2>3. net' \in [Type -> [Machine -> [Machine -> Nat]]]
    BY <1>a, <1>b, <2>1, <2>2, BroadcastType
  <2> QED BY <1>1, <2>3 DEF HostStarts
<1>2. ASSUME NEW m \in Machine, ClientStarts(m) PROVE TypeOK'
  <2> DEFINE rest == Arrived(m, Host, "START_GAME")
  <2>1. rest \in [Type -> [Machine -> [Machine -> Nat]]]
    BY <1>2, <1>a, <1>b, ArrivedType DEF ClientStarts
  <2>2. net' = Broadcast(rest, m, "END_SETTING")
    BY <1>2 DEF ClientStarts
  <2> HIDE DEF rest
  <2>3. net' \in [Type -> [Machine -> [Machine -> Nat]]]
    BY <1>b, <2>1, <2>2, BroadcastType
  <2> QED BY <1>2, <2>3 DEF ClientStarts
<1>3. ASSUME NEW m \in Machine, Begin(m) \/ GiveUp(m) PROVE TypeOK'
  BY <1>3 DEF Begin, GiveUp
<1>4. ASSUME NEW m \in Machine, NEW n \in Machine, EndSetting(m, n) PROVE TypeOK'
  <2> DEFINE rest == Arrived(m, n, "END_SETTING")
  <2>1. rest \in [Type -> [Machine -> [Machine -> Nat]]]
    BY <1>4, <1>b, ArrivedType DEF EndSetting
  <2>2. net' = IF m = Host THEN Broadcast(rest, Host, "END_SETTING") ELSE rest
    BY <1>4 DEF EndSetting
  <2> HIDE DEF rest
  <2>3. net' \in [Type -> [Machine -> [Machine -> Nat]]]
    BY <1>a, <1>b, <2>1, <2>2, BroadcastType
  <2>4. recvEndSetting' \in [Machine -> 0 .. playerCount - 1]
    BY <1>4, <1>a DEF EndSetting, Enough
  <2> QED BY <1>4, <2>3, <2>4 DEF EndSetting
<1>5. ASSUME NEW m \in Machine, NEW n \in Machine, Surprised(m, n) PROVE TypeOK'
  <2>1. net' \in [Type -> [Machine -> [Machine -> Nat]]]
    BY <1>5, <1>b, ArrivedType DEF Surprised
  <2> QED BY <1>5, <2>1 DEF Surprised
<1>6. ASSUME NEW m \in Machine, NEW n \in Machine, NEW type \in Type, Lose(m, n, type)
      PROVE  TypeOK'
  <2>1. net' \in [Type -> [Machine -> [Machine -> Nat]]]
    BY <1>6, ArrivedType DEF Lose
  <2> QED BY <1>6, <2>1 DEF Lose
<1> QED BY <1>1, <1>2, <1>3, <1>4, <1>5, <1>6 DEF Next, Wait

\* What an action may do to the clients' announcements without the host
\* counting one: a client makes one as it leaves the lobby, and one may be lost.
LEMMA NotCounted ==
    ASSUME Inv, recvEndSetting'[Host] = recvEndSetting[Host],
           \A n \in Client :
              \/ /\ net'["END_SETTING"][n][Host] \in 0 .. net["END_SETTING"][n][Host]
                 /\ phase[n] \in {"waiting", "playing"} => phase'[n] \in {"waiting", "playing"}
                 /\ phase'[n] = "lobby" => phase[n] = "lobby"
              \/ /\ phase[n] = "lobby" /\ phase'[n] = "waiting"
                 /\ net'["END_SETTING"][n][Host] = net["END_SETTING"][n][Host] + 1
    PROVE  CountedOnce'
<1>1. PICK counted \in SUBSET Client :
        /\ recvEndSetting[Host] = Cardinality(counted)
        /\ \A n \in counted :
            phase[n] \in {"waiting", "playing"} /\ net["END_SETTING"][n][Host] = 0
        /\ \A n \in Client \ counted :
            /\ net["END_SETTING"][n][Host] \in {0, 1}
            /\ net["END_SETTING"][n][Host] = 1 => phase[n] \in {"waiting", "playing"}
            /\ phase[n] = "lobby" => net["END_SETTING"][n][Host] = 0
  BY DEF Inv, CountedOnce
<1>2. \A n \in counted :
        phase'[n] \in {"waiting", "playing"} /\ net'["END_SETTING"][n][Host] = 0
  BY <1>1
<1>3. \A n \in Client \ counted :
        /\ net'["END_SETTING"][n][Host] \in {0, 1}
        /\ net'["END_SETTING"][n][Host] = 1 => phase'[n] \in {"waiting", "playing"}
        /\ phase'[n] = "lobby" => net'["END_SETTING"][n][Host] = 0
  BY <1>1
<1> QED BY <1>1, <1>2, <1>3 DEF CountedOnce

\* The host counts the announcement of a client it has not counted before.
LEMMA HostCountsOne ==
    ASSUME Inv, NEW n \in Machine, EndSetting(Host, n) PROVE CountedOnce'
<1> USE DEF Inv
<1>1. PICK counted \in SUBSET Client :
        /\ recvEndSetting[Host] = Cardinality(counted)
        /\ \A m \in counted :
            phase[m] \in {"waiting", "playing"} /\ net["END_SETTING"][m][Host] = 0
        /\ \A m \in Client \ counted :
            /\ net["END_SETTING"][m][Host] \in {0, 1}
            /\ net["END_SETTING"][m][Host] = 1 => phase[m] \in {"waiting", "playing"}
            /\ phase[m] = "lobby" => net["END_SETTING"][m][Host] = 0
  BY DEF CountedOnce
<1> DEFINE rest == Arrived(Host, n, "END_SETTING")
<1>2. Host \in Machine /\ net["END_SETTING"][n][Host] > 0 /\ "END_SETTING" \in Type
  BY HostAssumption DEF EndSetting, Type
<1>3. n \in Client \ counted
  BY <1>1, <1>2 DEF HostApart, Client
<1>4. net["END_SETTING"][n][Host] = 1 /\ phase[n] \in {"waiting", "playing"}
  BY <1>1, <1>2, <1>3
<1>5. /\ rest \in [Type -> [Machine -> [Machine -> Nat]]]
      /\ \A t \in Type, k, l \in Machine :
            rest[t][k][l] = IF t = "END_SETTING" /\ k = n /\ l = Host
                            THEN net[t][k][l] - 1 ELSE net[t][k][l]
  BY <1>2, ArrivedType
<1>6. net' = Broadcast(rest, Host, "END_SETTING")
  BY DEF EndSetting
<1> HIDE DEF rest
<1>7. \A m \in Client : net'["END_SETTING"][m][Host] =
            IF m = n THEN 0 ELSE net["END_SETTING"][m][Host]
  BY <1>2, <1>4, <1>5, <1>6, BroadcastType DEF Client
<1> DEFINE more == counted \cup {n}
<1>8. more \in SUBSET Client /\ Cardinality(more) = Cardinality(counted) + 1
  BY <1>3, CountFact, FS_Subset, FS_AddElement
<1>9. recvEndSetting'[Host] = Cardinality(more)
  BY <1>1, <1>2, <1>8 DEF EndSetting, TypeOK
<1>10. \A m \in more : phase'[m] \in {"waiting", "playing"} /\ net'["END_SETTING"][m][Host] = 0
  BY <1>1, <1>3, <1>4, <1>7 DEF EndSetting
<1>11. \A m \in Client \ more :
        /\ net'["END_SETTING"][m][Host] \in {0, 1}
        /\ net'["END_SETTING"][m][Host] = 1 => phase'[m] \in {"waiting", "playing"}
        /\ phase'[m] = "lobby" => net'["END_SETTING"][m][Host] = 0
  BY <1>1, <1>7 DEF EndSetting
<1> HIDE DEF more
<1> QED BY <1>8, <1>9, <1>10, <1>11 DEF CountedOnce

\* The announcements are counted once, whatever happens.
LEMMA StepCounted == ASSUME Inv, Next PROVE CountedOnce'
<1>t. TypeOK /\ CountedOnce /\ HostApart
  BY DEF Inv
<1>a. Host \in Machine /\ "START_GAME" \in Type /\ "END_SETTING" \in Type /\ Client \subseteq Machine
  BY HostAssumption DEF Type, Client
<1>b. /\ net \in [Type -> [Machine -> [Machine -> Nat]]]
      /\ phase \in [Machine -> {"lobby", "waiting", "playing", "quit"}]
  BY <1>t DEF TypeOK
<1>1. CASE HostStarts
  <2> DEFINE first == Broadcast(net, Host, "START_GAME")
  <2>1. /\ first \in [Type -> [Machine -> [Machine -> Nat]]]
        /\ \A n \in Client : first["END_SETTING"][n][Host] = net["END_SETTING"][n][Host]
    BY <1>a, <1>b, BroadcastType
  <2>2. net' = Broadcast(first, Host, "END_SETTING")
    BY <1>1 DEF HostStarts
  <2> HIDE DEF first
  <2>3. \A n \in Client : net'["END_SETTING"][n][Host] = net["END_SETTING"][n][Host]
    <3>1. \A n \in Client : Broadcast(first, Host, "END_SETTING")["END_SETTING"][n][Host] =
              IF n = Host THEN first["END_SETTING"][n][Host] + 1 ELSE first["END_SETTING"][n][Host]
      BY <1>a, <2>1, BroadcastEnd
    <3> QED BY <2>1, <2>2, <3>1 DEF Client
  <2>4. \A n \in Client : phase'[n] = phase[n]
    BY <1>1, <1>b DEF HostStarts, Client
  <2>5. recvEndSetting'[Host] = recvEndSetting[Host]
    BY <1>1 DEF HostStarts
  <2> QED BY <1>a, <1>b, <2>3, <2>4, <2>5, <1>t, NotCounted
<1>2. ASSUME NEW m \in Machine, ClientStarts(m) PROVE CountedOnce'
  <2>1. m \in Client
    BY <1>2, <1>a, <1>t DEF HostApart, ClientStarts, Client
  <2> DEFINE rest == Arrived(m, Host, "START_GAME")
  <2>2. /\ rest \in [Type -> [Machine -> [Machine -> Nat]]]
        /\ \A n \in Client : rest["END_SETTING"][n][Host] = net["END_SETTING"][n][Host]
    BY <1>2, <1>a, <1>t, ArrivedType DEF ClientStarts
  <2>3. net' = Broadcast(rest, m, "END_SETTING")
    BY <1>2 DEF ClientStarts
  <2> HIDE DEF rest
  <2>4. \A n \in Client : net'["END_SETTING"][n][Host] =
                IF n = m THEN net["END_SETTING"][n][Host] + 1 ELSE net["END_SETTING"][n][Host]
    <3>1. \A n \in Client : Broadcast(rest, m, "END_SETTING")["END_SETTING"][n][Host] =
              IF n = m THEN rest["END_SETTING"][n][Host] + 1 ELSE rest["END_SETTING"][n][Host]
      BY <1>a, <2>2, BroadcastEnd
    <3> QED BY <2>2, <2>3, <3>1
  <2>5. \A n \in Client : phase'[n] = IF n = m THEN "waiting" ELSE phase[n]
    BY <1>2, <1>a, <1>b DEF ClientStarts
  <2>6. phase[m] = "lobby" /\ recvEndSetting'[Host] = recvEndSetting[Host]
    BY <1>2 DEF ClientStarts
  <2>7. \A n \in Client : net["END_SETTING"][n][Host] \in Nat
    BY <1>a, <1>b
  <2> QED BY <2>4, <2>5, <2>6, <2>7, <1>t, NotCounted
<1>3. ASSUME NEW m \in Machine, Begin(m) \/ GiveUp(m) PROVE CountedOnce'
  <2>1. \A n \in Client : \/ phase'[n] = phase[n]
                          \/ phase[n] = "waiting" /\ phase'[n] = "playing"
    BY <1>3, <1>a, <1>b DEF Begin, GiveUp
  <2>2. net' = net /\ recvEndSetting' = recvEndSetting
    BY <1>3 DEF Begin, GiveUp
  <2> QED BY <1>a, <1>b, <2>1, <2>2, <1>t, NotCounted
<1>4. ASSUME NEW m \in Machine, NEW n \in Machine, EndSetting(m, n) PROVE CountedOnce'
  <2>1. CASE m = Host
    BY <1>4, <2>1, <1>t, HostCountsOne
  <2>2. CASE m # Host
    <3>1. \A k \in Client : net'["END_SETTING"][k][Host] = net["END_SETTING"][k][Host]
      BY <1>4, <1>a, <2>2, <1>t, ArrivedType DEF EndSetting
    <3>2. phase' = phase /\ recvEndSetting'[Host] = recvEndSetting[Host]
      BY <1>4, <1>a, <1>t, <2>2 DEF EndSetting, TypeOK
    <3> QED BY <1>a, <1>b, <3>1, <3>2, <1>t, NotCounted
  <2> QED BY <2>1, <2>2
<1>5. ASSUME NEW m \in Machine, NEW n \in Machine, Surprised(m, n) PROVE CountedOnce'
  <2>1. \A k \in Client : net'["END_SETTING"][k][Host] = net["END_SETTING"][k][Host]
    BY <1>5, <1>a, <1>t, ArrivedType DEF Surprised
  <2>2. \A k \in Client : \/ phase'[k] = phase[k]
                          \/ phase[k] = "lobby" /\ phase'[k] = "quit"
    BY <1>5, <1>a, <1>b DEF Surprised
  <2>3. recvEndSetting' = recvEndSetting
    BY <1>5 DEF Surprised
  <2> QED BY <1>a, <1>b, <2>1, <2>2, <2>3, <1>t, NotCounted
<1>6. ASSUME NEW m \in Machine, NEW n \in Machine, NEW type \in Type, Lose(m, n, type)
      PROVE  CountedOnce'
  <2>1. \A k \in Client : \/ net'["END_SETTING"][k][Host] = net["END_SETTING"][k][Host]
                          \/ /\ net'["END_SETTING"][k][Host] = net["END_SETTING"][k][Host] - 1
                             /\ net["END_SETTING"][k][Host] > 0
    BY <1>6, <1>a, <1>t, ArrivedType DEF Lose
  <2>2. phase' = phase /\ recvEndSetting' = recvEndSetting
    BY <1>6 DEF Lose
  <2>3. \A k \in Client : net'["END_SETTING"][k][Host] \in 0 .. net["END_SETTING"][k][Host]
    <3>1. \A k \in Client : net["END_SETTING"][k][Host] \in Nat
      BY <1>a, <1>b
    <3> QED BY <2>1, <3>1
  <2> QED BY <2>2, <2>3, <1>t, NotCounted
<1> QED BY <1>1, <1>2, <1>3, <1>4, <1>5, <1>6 DEF Next, Wait

\* A broadcast, the host's own too, brings nothing from the host to itself.
LEMMA BroadcastApart ==
    ASSUME NEW packets \in [Type -> [Machine -> [Machine -> Nat]]],
           \A t \in Type : packets[t][Host][Host] = 0,
           NEW m \in Machine, NEW type \in Type
    PROVE  \A t \in Type : Broadcast(packets, m, type)[t][Host][Host] = 0
<1>1. Host \in Machine
  BY HostAssumption
<1>2. \A t \in Type : Broadcast(packets, m, type)[t][Host][Host] =
            IF t = type /\ Host = m /\ Host # m THEN packets[t][Host][Host] + 1
            ELSE packets[t][Host][Host]
  BY <1>1, BroadcastType
<1> QED BY <1>2

\* An arriving packet leaves nothing under way from the host to itself.
LEMMA ArrivedApart ==
    ASSUME Inv, NEW m \in Machine, NEW n \in Machine, NEW type \in Type,
           net[type][n][m] > 0
    PROVE  /\ Arrived(m, n, type) \in [Type -> [Machine -> [Machine -> Nat]]]
           /\ \A t \in Type : Arrived(m, n, type)[t][Host][Host] = 0
<1>1. TypeOK /\ Host \in Machine
  BY HostAssumption DEF Inv
<1>2. \A t \in Type : net[t][Host][Host] = 0
  BY DEF Inv, HostApart
<1>3. m # Host \/ n # Host
  BY <1>2
<1>4. \A t \in Type : Arrived(m, n, type)[t][Host][Host] = net[t][Host][Host]
  BY <1>1, <1>3, ArrivedType
<1> QED BY <1>1, <1>2, <1>4, ArrivedType

\* Nothing comes back to the host, and it stays.
LEMMA StepApart == ASSUME Inv, Next PROVE HostApart'
<1>a. Host \in Machine /\ "START_GAME" \in Type /\ "END_SETTING" \in Type
  BY HostAssumption DEF Type
<1>b. /\ net \in [Type -> [Machine -> [Machine -> Nat]]]
      /\ phase \in [Machine -> {"lobby", "waiting", "playing", "quit"}]
  BY DEF Inv, TypeOK
<1>c. \A type \in Type : net[type][Host][Host] = 0
  BY DEF Inv, HostApart
<1>1. \A type \in Type : net'[type][Host][Host] = 0
  <2>1. CASE HostStarts
    <3> DEFINE first == Broadcast(net, Host, "START_GAME")
    <3>1. /\ first \in [Type -> [Machine -> [Machine -> Nat]]]
          /\ \A type \in Type : first[type][Host][Host] = 0
      <4>1. first \in [Type -> [Machine -> [Machine -> Nat]]]
        BY <1>a, <1>b, BroadcastType
      <4>2. \A type \in Type : first[type][Host][Host] = 0
        BY <1>a, <1>b, <1>c, BroadcastApart
      <4> QED BY <4>1, <4>2
    <3>2. net' = Broadcast(first, Host, "END_SETTING")
      BY <2>1 DEF HostStarts
    <3> HIDE DEF first
    <3> QED BY <1>a, <3>1, <3>2, BroadcastApart
  <2>2. ASSUME NEW m \in Machine, ClientStarts(m)
        PROVE  \A type \in Type : net'[type][Host][Host] = 0
    <3> DEFINE rest == Arrived(m, Host, "START_GAME")
    <3>1. /\ rest \in [Type -> [Machine -> [Machine -> Nat]]]
          /\ \A type \in Type : rest[type][Host][Host] = 0
      BY <2>2, <1>a, ArrivedApart DEF ClientStarts
    <3>2. net' = Broadcast(rest, m, "END_SETTING")
      BY <2>2 DEF ClientStarts
    <3> HIDE DEF rest
    <3> QED BY <1>a, <3>1, <3>2, BroadcastApart
  <2>3. ASSUME NEW m \in Machine, Begin(m) \/ GiveUp(m)
        PROVE  \A type \in Type : net'[type][Host][Host] = 0
    BY <2>3, <1>c DEF Begin, GiveUp
  <2>4. ASSUME NEW m \in Machine, NEW n \in Machine, EndSetting(m, n)
        PROVE  \A type \in Type : net'[type][Host][Host] = 0
    <3> DEFINE rest == Arrived(m, n, "END_SETTING")
    <3>1. /\ rest \in [Type -> [Machine -> [Machine -> Nat]]]
          /\ \A type \in Type : rest[type][Host][Host] = 0
      BY <2>4, <1>a, ArrivedApart DEF EndSetting
    <3>2. net' = IF m = Host THEN Broadcast(rest, Host, "END_SETTING") ELSE rest
      BY <2>4 DEF EndSetting
    <3> HIDE DEF rest
    <3> QED BY <1>a, <3>1, <3>2, BroadcastApart
  <2>5. ASSUME NEW m \in Machine, NEW n \in Machine, Surprised(m, n)
        PROVE  \A type \in Type : net'[type][Host][Host] = 0
    BY <2>5, <1>a, ArrivedApart DEF Surprised
  <2>6. ASSUME NEW m \in Machine, NEW n \in Machine, NEW type \in Type, Lose(m, n, type)
        PROVE  \A t \in Type : net'[t][Host][Host] = 0
    BY <2>6, ArrivedApart DEF Lose
  <2> QED BY <2>1, <2>2, <2>3, <2>4, <2>5, <2>6 DEF Next, Wait
<1>2. phase'[Host] # "quit"
  BY <1>a, <1>b DEF Inv, HostApart, Next, HostStarts, ClientStarts, Surprised, Wait, Begin, GiveUp,
     EndSetting, Lose
<1> QED BY <1>1, <1>2 DEF HostApart

\* Begin is the only way to stop waiting without giving up.
LEMMA StepCounts == ASSUME Inv, Next PROVE HostCounts'
<1>1. /\ Host \in Machine /\ playerCount \in Nat
      /\ recvEndSetting[Host] \in 0 .. playerCount - 1
      /\ phase \in [Machine -> {"lobby", "waiting", "playing", "quit"}]
      /\ patient \in [Machine -> BOOLEAN]
      /\ recvEndSetting \in [Machine -> 0 .. playerCount - 1]
  BY HostAssumption, CountFact DEF Inv, TypeOK
<1>2. playerCount' = playerCount
  BY DEF playerCount
<1>3. CASE phase[Host] = "playing" /\ patient[Host]
  <2>1. recvEndSetting'[Host] = recvEndSetting[Host]
    BY <1>1, <1>3 DEF Next, HostStarts, ClientStarts, Surprised, Wait, Begin, GiveUp,
       EndSetting, Lose
  <2> QED BY <1>2, <1>3, <2>1 DEF Inv, HostCounts
<1>4. CASE ~(phase[Host] = "playing" /\ patient[Host])
  <2>1. phase'[Host] = "playing" /\ patient'[Host] =>
            Enough(Host) /\ recvEndSetting' = recvEndSetting
    BY <1>1, <1>4 DEF Next, HostStarts, ClientStarts, Surprised, Wait, Begin, GiveUp,
       EndSetting, Lose
  <2> QED BY <1>1, <1>2, <2>1 DEF HostCounts, Enough
<1> QED BY <1>3, <1>4

-----------------------------------------------------------------------------
(* Theorems *)

\* Inv holds in every reachable state.
THEOREM Invariance == Spec => []Inv
<1>1. Inv /\ [Next]_vars => Inv'
  <2> SUFFICES ASSUME Inv, [Next]_vars PROVE Inv'
    OBVIOUS
  <2>1. CASE Next
    BY <2>1, StepType, StepCounted, StepApart, StepCounts DEF Inv
  <2>2. CASE UNCHANGED vars
    BY <2>2 DEF vars, Inv, TypeOK, CountedOnce, HostApart, HostCounts, playerCount
  <2> QED BY <2>1, <2>2
<1> QED BY <1>1, InitInv, PTL DEF Spec

\* Every variable keeps its type: in particular no machine counts more
\* END_SETTING than there are other players (mp_select_option).
THEOREM TypeCorrect == Spec => []TypeOK
<1>1. Inv => TypeOK
  BY DEF Inv
<1> QED BY <1>1, Invariance, PTL

\* When the host begins without having given up, every machine has the set-up
\* (the wait for MPMSG_END_SETTING at the end of mp_select_option).
THEOREM HostIsLast == Spec => []HostWaitsForAll
<1>1. Inv => HostWaitsForAll
  <2> SUFFICES ASSUME Inv, phase[Host] = "playing", patient[Host], NEW n \in Machine
               PROVE  phase[n] \in {"waiting", "playing"}
    BY DEF HostWaitsForAll, Barrier
  <2>1. PICK counted \in SUBSET Client :
          /\ recvEndSetting[Host] = Cardinality(counted)
          /\ \A m \in counted : phase[m] \in {"waiting", "playing"}
    BY DEF Inv, CountedOnce
  <2>2. Cardinality(counted) = Cardinality(Client)
    BY <2>1, CountFact DEF Inv, HostCounts
  <2>3. counted = Client
    BY <2>2, CountFact, FS_Subset
  <2> QED BY <2>1, <2>3 DEF Client
<1> QED BY <1>1, Invariance, PTL

=============================================================================
