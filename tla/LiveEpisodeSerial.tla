-------------------------- MODULE LiveEpisodeSerial --------------------------
(***************************************************************************)
(* The handlers of LiveEpisode, run one at a time, implement               *)
(* EpisodePromise.  Each handler takes effect at one of its steps, and the *)
(* refinement mapping shows the tables as they will be when the request in *)
(* flight has written the rest:                                            *)
(*   - a mint at card.create, its increment being still to come;           *)
(*   - a manual firing when it reads the cards, a Twitch firing when it    *)
(*     counts the event, the marks being still to come;                    *)
(*   - the end when it saves the status, the fruiting being still to come. *)
(***************************************************************************)
EXTENDS LiveEpisodeProperties

Marking(manual, hook) ==
  {loc[w].event : w \in InFlight(manual \cup hook)}

PromisedCard(u) ==
  LET card == cards[u]
      E    == IF card.status = "active"
              THEN Marking({"fire_card"}, {"hook_read", "hook_card"}) ELSE {}
  IN  [status |-> IF status = "ended" /\ card.status # "none"
                  THEN "fruited" ELSE card.status,
       number |-> card.number,
       grid   |-> card.grid,
       marked |-> IF E = {} THEN card.marked
                            ELSE card.marked \cup SquaresOf(card.grid, E)]

Promise == INSTANCE EpisodePromise WITH
  minted <- cardsMinted + Cardinality(InFlight(Uncounted)),
  fired  <- Fired \cup Marking({"fire_card", "fire_log", "fire_count"}, {}),
  board  <- [u \in Users |-> PromisedCard(u)]

\* Served one request at a time, the API keeps the promise: the guards and
\* writes of launch, mint, both firing paths and end are those of the atomic
\* operations.  Served together they do not: a mint numbers its card from a
\* counter read earlier, and a firing writes back a grid read earlier.
KeepsPromise == Promise!Spec
==============================================================================
