--------------------------- MODULE MCWebSocketHub ---------------------------
(***************************************************************************)
(* WebSocketHub for TLC.  The sockets are the numbers from 1, so that the  *)
(* choice of a fresh one needs no symmetry, which liveness would forbid.   *)
(* Each start has some of the bounds used up already.  A page is opened and*)
(* left (the overlay only opened) with one fault and one piece of news; or *)
(* there is no news, and the play page is opened a second time, or any     *)
(* page is opened once and meets two faults.                               *)
(***************************************************************************)
EXTENDS WebSocketHub

CONSTANT MaxSockets

SocketIds == 1..MaxSockets
AllKinds == {"play", "dashboard", "overlay"}

MCInit ==
  /\ InitRest
  /\ \/ news = MaxNews - 1 /\ faults = MaxFaults - 1
        /\ visits = IF kind = "overlay" THEN MaxVisits - 1 ELSE MaxVisits - 2
     \/ news = MaxNews /\ kind = "play" /\ visits = 0 /\ faults = MaxFaults - 1
     \/ news = MaxNews /\ visits = MaxVisits - 1 /\ faults = 0

MCSpec == MCInit /\ [][Next]_vars /\ Fairness
=============================================================================
