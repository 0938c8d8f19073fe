----------------------------- MODULE MCWithdrawals -----------------------------
(***************************************************************************)
(* Withdrawals for TLC, from two situations.  Earning: the account has been *)
(* linked and enabled and is left alone, and the money is free to move.    *)
(* Connecting: the episode has ended with its earnings, all withdrawals but *)
(* one were tried and failed, and the account is free to change.           *)
(***************************************************************************)
EXTENDS Withdrawals, TLC

CONSTANTS a1, r1

Earning ==
  /\ ended = FALSE /\ revenue = 0 /\ paid = 0
  /\ state = [r \in Rows |-> "none"]
  /\ linked = a1 /\ enabled = TRUE
  /\ onStripe = [a \in Accounts |-> IF a = a1 THEN "enabled" ELSE "none"]
  /\ reported = {a1} /\ invited = {a1}
  /\ changes = MaxChanges

Connecting ==
  /\ ended = TRUE /\ revenue = 5106 /\ paid = MaxCards
  /\ state = [r \in Rows |-> IF r = r1 THEN "none" ELSE "failed"]
  /\ linked = NoAccount /\ enabled = FALSE
  /\ onStripe = [a \in Accounts |-> "none"]
  /\ reported = {} /\ invited = {} /\ changes = 0

Quiet ==
  /\ net = [r \in Rows |-> IF state[r] = "failed" THEN StreamerPayout(revenue) ELSE 0]
  /\ gross = [r \in Rows |-> IF state[r] = "failed" THEN GrossOf(net[r]) ELSE 0]
  /\ transferred = 0 /\ misfiled = 0 /\ faults = 0
  /\ view = [t \in Tabs |-> NoView]
  /\ pc = [w \in Tabs |-> "idle"] /\ loc = [w \in Tabs |-> NoRequest]
  /\ events = {} /\ raced = {} /\ connect = [t \in Tabs |-> NoConnect]

MCInit == (Earning \/ Connecting) /\ Quiet

MCSpec == MCInit /\ [][Next]_vars

Symmetry == Permutations(Tabs)
===============================================================================
