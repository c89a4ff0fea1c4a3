------------------------------ MODULE Session ------------------------------
(***************************************************************************)
(* What opening and closing a port promises: a port serves one application *)
(* at a time, and each session has the same life: the application enters,  *)
(* is refused or connected, and once disconnected leaves before the next   *)
(* one enters.  OpenClose implements it.                                   *)
(***************************************************************************)
CONSTANTS Apps, Ports, NoApp

VARIABLES
  owner,  (* the application that has the port, or NoApp                   *)
  stage   (* how far its session is                                        *)

vars == <<owner, stage>>

Init ==
  /\ owner = [p \in Ports |-> NoApp]
  /\ stage = [p \in Ports |-> "closed"]

Enter(p, a) ==
  /\ stage[p] = "closed"
  /\ owner' = [owner EXCEPT ![p] = a]
  /\ stage' = [stage EXCEPT ![p] = "entering"]

Connect(p) ==
  /\ stage[p] = "entering"
  /\ stage' = [stage EXCEPT ![p] = "open"]
  /\ UNCHANGED owner

Disconnect(p) ==
  /\ stage[p] = "open"
  /\ stage' = [stage EXCEPT ![p] = "leaving"]
  /\ UNCHANGED owner

(* Refused while entering, or closed.                                      *)
Leave(p) ==
  /\ stage[p] \in {"entering", "leaving"}
  /\ owner' = [owner EXCEPT ![p] = NoApp]
  /\ stage' = [stage EXCEPT ![p] = "closed"]

Next ==
  \E p \in Ports :
    \/ \E a \in Apps : Enter(p, a)
    \/ Connect(p) \/ Disconnect(p) \/ Leave(p)

Spec == Init /\ [][Next]_vars
=============================================================================
