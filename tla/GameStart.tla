----------------------------- MODULE GameStart -----------------------------
(***************************************************************************)
(* From the lobby into the game: the last part of Game::mp_select_option.  *)
(* The host broadcasts the set-up of the game; every machine that has it   *)
(* announces END_SETTING and waits until all others have done so too.      *)
(*                                                                         *)
(* game_starting has switched the packets to UNSEQUENCED by then: a packet *)
(* may be lost or overtaken by a later one; it does not come twice.        *)
(***************************************************************************)
EXTENDS Integers, FiniteSets

CONSTANTS Machine, Host, Lossy  \* Lossy: whether the network loses packets

ASSUME HostAssumption == Host \in Machine /\ Lossy \in BOOLEAN
ASSUME MachineAssumption == IsFiniteSet(Machine)

VARIABLES
    phase,          \* lobby, waiting (for END_SETTING), playing, quit
    recvEndSetting, \* END_SETTING messages counted
    patient,        \* history: the machine never gave up waiting
    net             \* net[type][m][n]: packets from m to n under way

vars == <<phase, recvEndSetting, patient, net>>

Type == {"START_GAME", "END_SETTING"}
playerCount == Cardinality(Machine)

\* MultiPlayer::send to BROADCAST_PID.
Broadcast(packets, m, type) ==
    [packets EXCEPT ![type][m] =
        [n \in Machine |-> IF n = m THEN @[n] ELSE @[n] + 1]]

Arrived(m, n, type) == [net EXCEPT ![type][n][m] = @ - 1]

-----------------------------------------------------------------------------
\* The host starts: the set-up string, and END_SETTING behind it.
HostStarts ==
    /\ phase[Host] = "lobby"
    /\ phase' = [phase EXCEPT ![Host] = "waiting"]
    /\ net' = Broadcast(Broadcast(net, Host, "START_GAME"), Host, "END_SETTING")
    /\ UNCHANGED <<recvEndSetting, patient>>

\* A client in the lobby gets the set-up string.
ClientStarts(m) ==
    /\ phase[m] = "lobby"
    /\ net["START_GAME"][Host][m] > 0
    /\ phase' = [phase EXCEPT ![m] = "waiting"]
    /\ net' = Broadcast(Arrived(m, Host, "START_GAME"), m, "END_SETTING")
    /\ UNCHANGED <<recvEndSetting, patient>>

\* Any message of the game that a client receives in the lobby ends the lobby.
Surprised(m, n) ==
    /\ m # Host
    /\ phase[m] = "lobby"
    /\ net["END_SETTING"][n][m] > 0
    /\ phase' = [phase EXCEPT ![m] = "quit"]
    /\ net' = Arrived(m, n, "END_SETTING")
    /\ UNCHANGED <<recvEndSetting, patient>>

\* Mistake: one END_SETTING more is waited for.
EnoughAndOne(m) == recvEndSetting[m] > playerCount - 1

\* Mistake: one END_SETTING less is waited for.
EnoughButOne(m) == recvEndSetting[m] >= playerCount - 2

Enough(m) == recvEndSetting[m] >= playerCount - 1

\* While waiting: END_SETTING is counted, and forwarded to everyone by the host.
EndSetting(m, n) ==
    /\ phase[m] = "waiting"
    /\ ~Enough(m)
    /\ net["END_SETTING"][n][m] > 0
    /\ recvEndSetting' = [recvEndSetting EXCEPT ![m] = @ + 1]
    /\ net' = LET rest == Arrived(m, n, "END_SETTING")
              IN  IF m = Host THEN Broadcast(rest, Host, "END_SETTING") ELSE rest
    /\ UNCHANGED <<phase, patient>>

\* All have announced themselves.
Begin(m) ==
    /\ phase[m] = "waiting"
    /\ Enough(m)
    /\ phase' = [phase EXCEPT ![m] = "playing"]
    /\ UNCHANGED <<recvEndSetting, patient, net>>

\* Mistake: a machine that waits in vain waits for ever.
GiveUpNever(m) == FALSE

\* Nothing has come for ten seconds: "but continue".
GiveUp(m) ==
    /\ phase[m] = "waiting"
    /\ ~Enough(m)
    /\ \A n \in Machine, type \in Type : net[type][n][m] = 0
    /\ phase' = [phase EXCEPT ![m] = "playing"]
    /\ patient' = [patient EXCEPT ![m] = FALSE]
    /\ UNCHANGED <<recvEndSetting, net>>

\* The network loses a packet.
Lose(m, n, type) ==
    /\ Lossy
    /\ net[type][n][m] > 0
    /\ net' = Arrived(m, n, type)
    /\ UNCHANGED <<phase, recvEndSetting, patient>>

Init ==
    /\ phase = [m \in Machine |-> "lobby"]
    /\ recvEndSetting = [m \in Machine |-> 0]
    /\ patient = [m \in Machine |-> TRUE]
    /\ net = [type \in Type |-> [m \in Machine |-> [n \in Machine |-> 0]]]

Wait(m) == Begin(m) \/ GiveUp(m) \/ \E n \in Machine : EndSetting(m, n)

Next ==
    \/ HostStarts
    \/ \E m \in Machine : ClientStarts(m) \/ Wait(m)
    \/ \E m, n \in Machine : Surprised(m, n)
    \/ \E m, n \in Machine, type \in Type : Lose(m, n, type)

\* A machine that waits keeps calling receive and looking at the clock; a
\* packet under way arrives or is lost.
Fairness == \A m \in Machine : WF_vars(Wait(m))

Spec == Init /\ [][Next]_vars /\ Fairness

-----------------------------------------------------------------------------
(* Properties *)

\* Every variable keeps its type.
TypeOK ==
    /\ phase \in [Machine -> {"lobby", "waiting", "playing", "quit"}]
    /\ recvEndSetting \in [Machine -> 0 .. playerCount - 1]
    /\ patient \in [Machine -> BOOLEAN]
    /\ net \in [Type -> [Machine -> [Machine -> Nat]]]

\* The barrier: who stops waiting without having given up has waited for all.
Barrier(m) ==
    phase[m] = "playing" /\ patient[m] =>
        \A n \in Machine : phase[n] \in {"waiting", "playing"}

\* The host counts no client twice, so it begins after all clients have the
\* set-up.
HostWaitsForAll == Barrier(Host)

\* Nobody waits for ever, although packets are lost and clients quit.
WaitEnds == \A m \in Machine : phase[m] = "waiting" ~> phase[m] = "playing"

-----------------------------------------------------------------------------
(* What comments in the code say and does not hold: TLC finds a behaviour  *)
(* that violates each of the following.                                    *)

\* "wait for MPMSG_END_SETTING": so does every machine.
AllWaitForAll == \A m \in Machine : Barrier(m)

\* "if the game is started, any other thing is received": a client gives the
\* lobby up only when the start has passed it by.
QuitsOnlyWithoutStart ==
    \A m \in Machine : phase[m] = "quit" => net["START_GAME"][Host][m] = 0
=============================================================================
