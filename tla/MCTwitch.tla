------------------------------ MODULE MCTwitch ------------------------------
(***************************************************************************)
(* Twitch for TLC, from two starting points after an earlier stop of the   *)
(* process.  The OAuth half and the EventSub half share nothing but        *)
(* users.twitchId, so each start leaves one half little to do: in the      *)
(* first all OAuth states but one have been issued and lost, in the second *)
(* the only episode has been deleted and Twitch's messages are spent.      *)
(***************************************************************************)
EXTENDS Twitch, TLC

CONSTANTS u1, e1, x1

OneStreamer == [e \in Episodes |-> u1]
TwoDefs == {[episode |-> e1, twitchEvent |-> "cheer", threshold |-> 2, id |-> 1],
            [episode |-> e1, twitchEvent |-> "cheer", threshold |-> 0, id |-> 2]}
Symmetry == Permutations(Subs) \cup Permutations(Callbacks)

MostStatesIssued ==
  /\ status = [e \in Episodes |-> "draft"]
  /\ issuedTo = [x \in States |-> IF x = x1 THEN Null ELSE u1]
  /\ twitch = [s \in Subs |-> "unused"]
  /\ deliveries = 0

SubscriptionsOver ==
  /\ status = [e \in Episodes |-> "deleted"]
  /\ issuedTo = [x \in States |-> Null]
  /\ twitch = [s \in Subs |-> "failed"]
  /\ deliveries = MaxDeliveries

MCInit == InitRest /\ (MostStatesIssued \/ SubscriptionsOver)

MCSpec == MCInit /\ [][Next]_vars
=============================================================================
