------------------------------ MODULE MCSessions ------------------------------
(***************************************************************************)
(* Sessions and Accounts for TLC from two situations, so that one of them  *)
(* moves at a time: a browser that begins, with no client asking for an    *)
(* account, and clients that do, with a browser that has logged out of the *)
(* last session it had a token for.                                        *)
(***************************************************************************)
EXTENDS Accounts, TLC

CONSTANT b1

AllKeys == [c \in Clients |-> Wallets]
OnePrefix == [a \in Wallets |-> b1]
OneName == {<<b1, 0>>}

NoUsers ==
  /\ users = [i \in Ids |-> NoUser]
  /\ signedIn = [c \in Clients |-> Null]
  /\ ask = [c \in Clients |-> NoAsk]

Browsing == Init /\ NoUsers /\ asked = MaxAsks

Asking ==
  /\ InitAccounts
  /\ now = MaxTime /\ issued = Tokens /\ faults = 0
  /\ rows = [t \in Tokens |-> NoRow]
  /\ access = NoAccess /\ cookie = NoCookie
  /\ pc = [w \in Tabs |-> "idle"] /\ loc = [w \in Tabs |-> Idle]

MCSpec == (Browsing \/ Asking) /\ [][AccountsNext]_allVars

Symmetry == Permutations(Tabs) \cup Permutations(Clients)
===============================================================================
