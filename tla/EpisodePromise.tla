---------------------------- MODULE EpisodePromise ----------------------------
(***************************************************************************)
(* What an episode promises its viewers, as atomic operations: numbered    *)
(* cards up to the cap, every fired event marked on every card, a card     *)
(* minted late showing what has been fired before, and all cards frozen    *)
(* the moment the show ends.                                               *)
(***************************************************************************)
EXTENDS Integers, FiniteSets

CONSTANTS Users, Events, Squares, MaxCards

VARIABLES
  status,  \* of the episode
  minted,  \* number of cards
  fired,   \* events that have been fired
  board    \* each viewer's card, NoCard when there is none

vars == <<status, minted, fired, board>>

NoCard == [status |-> "none", number |-> 0, grid |-> << >>, marked |-> {}]

SquaresOf(g, E) == {s \in Squares : g[s] \in E}

Init ==
  /\ status = "draft"
  /\ minted = 0
  /\ fired = {}
  /\ board = [u \in Users |-> NoCard]

Launch ==
  /\ status = "draft"
  /\ status' = "live"
  /\ UNCHANGED <<minted, fired, board>>

Mint(u) ==
  /\ status = "live"
  /\ board[u] = NoCard
  /\ MaxCards # 0 => minted < MaxCards
  /\ minted' = minted + 1
  /\ \E g \in [Squares -> Events] :
       board' = [board EXCEPT ![u] = [status |-> "active", number |-> minted + 1,
                                      grid |-> g, marked |-> SquaresOf(g, fired)]]
  /\ UNCHANGED <<status, fired>>

Fire(e) ==
  /\ status = "live"
  /\ fired' = fired \cup {e}
  /\ board' = [u \in Users |->
                 IF board[u] = NoCard THEN NoCard
                 ELSE [board[u] EXCEPT !.marked = @ \cup SquaresOf(board[u].grid, {e})]]
  /\ UNCHANGED <<status, minted>>

End ==
  /\ status = "live"
  /\ status' = "ended"
  /\ board' = [u \in Users |->
                 IF board[u] = NoCard THEN NoCard
                 ELSE [board[u] EXCEPT !.status = "fruited"]]
  /\ UNCHANGED <<minted, fired>>

Next == Launch \/ End \/ (\E u \in Users : Mint(u)) \/ (\E e \in Events : Fire(e))

Spec == Init /\ [][Next]_vars
===============================================================================
