------------------------ MODULE LiveEpisodeProperties ------------------------
(***************************************************************************)
(* What the handlers of LiveEpisode keep true for any workers, whatever    *)
(* requests run together.                                                  *)
(***************************************************************************)
EXTENDS LiveEpisode

InFlight(labels) == {w \in Workers : pc[w] \in labels}

\* Types of the tables, the counters and the handlers' locals.
TypeOK ==
  /\ status \in {"draft", "live", "ended"}
  /\ cardsMinted \in Nat /\ rootTokenId \in Nat /\ roots \in Nat
  /\ cards \in [Users -> Card]
  /\ firedCount \in [Events -> Nat]
  /\ firedLog \in [Events -> Nat]
  /\ pc \in [Workers -> Labels]
  /\ loc \in [Workers -> Locals]
  /\ lost \in Nat /\ relaunched \in Nat /\ faults \in Nat
  /\ raced \subseteq Users

(***************************************************************************)
(* The counter and the cap                                                 *)
(***************************************************************************)

\* The denormalised Episode.cardsMinted agrees with the Card table once the
\* requests between card.create (cards.ts:219) and the increment
\* (cards.ts:280), and those that died between the two, are added.
CountAgrees ==
  Cardinality(Holders) = cardsMinted + Cardinality(InFlight(Uncounted)) + lost

\* The cap is checked on a stale cardsMinted (cards.ts:156), so it can be
\* overrun, but by no more than the mint requests that run together, and the
\* cards a fault left uncounted.
OversellBound ==
  MaxCards # 0 => Cardinality(Holders) < MaxCards + Cardinality(Viewers) + lost

\* Mint requests that read a cardsMinted below the cap.
Passed == {w \in InFlight(MintLabels) : ~SoldOut(loc[w].minted)}

\* Why the bound holds, as an inductive invariant of the handlers: a mint
\* request past the checks of cards.ts:156 read a counter below the cap;
\* such requests and the counter together stay below MaxCards plus one for
\* each viewer; and the loops that write cards write only rows that exist.
Accounting ==
  /\ CountAgrees
  /\ \A w \in Workers :
       /\ pc[w] \in MintLabels => w \in Viewers /\ loc[w].user \in Users
       /\ pc[w] \in MintLabels \ {"mint_root"} => w \in Passed
       /\ loc[w].todo \cup loc[w].batch \subseteq Holders
  /\ MaxCards # 0 =>
       cardsMinted + Cardinality(Passed) < MaxCards + Cardinality(Viewers)

(***************************************************************************)
(* Firing                                                                  *)
(***************************************************************************)

\* EventDefinition.firedCount and the FiredEvent log agree: the manual path
\* writes the log first (episodes.ts:799, 809), the Twitch path the counter
\* first (webhooks.ts:376, 445).
FiresLogged ==
  \A e \in Events :
    LET doing(labels) == Cardinality({w \in InFlight(labels) : loc[w].event = e})
    IN  firedCount[e] + doing({"fire_count"})
          = firedLog[e] + doing({"hook_read", "hook_card", "hook_log"})

Firing == {loc[w].event : w \in InFlight(FireLabels \cup HookLabels)} \ {Null}

\* No card shows a mark for an event that has neither been fired nor is being
\* fired, however the mint's snapshot and the firing loops interleave.
MarkedWasFired ==
  LET counted == {e \in Events : firedCount[e] > 0} IN
  \A u \in Holders : cards[u].marked \subseteq SquaresOf(cards[u].grid, counted \cup Firing)

\* Two firings that overlap can lose marks: each writes back the grid it read
\* (episodes.ts:748-785, webhooks.ts:399-430).  That is the only way a mark
\* disappears: a card keeps its marks unless two firings had read it and not
\* yet written it at the same time, whatever mints, ends, restarts and firings
\* of other cards come between.
MarksStay == [][\A u \in Holders \ raced : cards[u].marked \subseteq cards'[u].marked]_cards

(***************************************************************************)
(* The end of the show                                                     *)
(***************************************************************************)

\* The launch saves 'live' without a condition (episodes.ts:295), so a launch
\* that read the draft together with the one that was saved first takes an
\* ended episode back.  Nothing else does: a launch that starts later finds no
\* draft, and the saves that come late are fewer than the requests of the
\* streamer that run together.
Launching == InFlight(LaunchLabels)

RelaunchBound ==
  /\ status = "draft" => relaunched = 0
  /\ status # "draft" => relaunched + Cardinality(Launching) < Cardinality(Consoles)

StatusForward ==
  [][\/ status = "draft" /\ status' = "live"
     \/ status = "live" /\ status' = "ended"
     \/ status = "ended" /\ status' = "live" /\ relaunched' = relaunched + 1]_status

\* Fruiting is final: no late write of a firing loop that read the card while
\* it was active makes it active again.
FruitedStays ==
  [][\A u \in Holders : cards[u].status = "fruited" => cards'[u].status = "fruited"]_cards

\* README.md:201 says of the end "All cards freeze instantly"; what the code
\* does is this.  Once the episode has ended no firing starts, and the marks and
\* patterns of a card change only by a firing that was under way at the end,
\* and at most once for each event it fires and each time it has read the card.
EndedFreezes ==
  [][status = "ended" =>
       /\ InFlight(FireLabels)' \subseteq InFlight(FireLabels)
       /\ InFlight(HookLabels)' \subseteq InFlight(HookLabels)
       /\ \A u \in Holders :
            \/ /\ cards'[u].marked = cards[u].marked
               /\ cards'[u].patterns = cards[u].patterns
            \/ \E w \in InFlight(Writing) :
                 u \in loc[w].todo \ loc'[w].todo]_vars

Ending == {"end_read", "end_batch", "end_fruit", "end_sweep"}

Admitted == {w \in InFlight({"mint_root", "mint_exists", "mint_create"}) :
               loc[w].status = "live"}

\* After the end has swept the cards, the only cards left active are those of
\* mint requests that had read the episode live: never more than the mint
\* requests that ran together.
StragglerBound ==
  (status = "ended" /\ InFlight(Ending) = {}) =>
     Cardinality(Active) + Cardinality(Admitted) <= Cardinality(Viewers)

\* A card that is active when the end starts to fruit the cards is fruited,
\* whatever the chain answers.
EndFruitsAll ==
  \A u \in Users : (u \in Active /\ InFlight(Ending) # {}) ~> (cards[u].status = "fruited")

(***************************************************************************)
(* The chain                                                               *)
(***************************************************************************)

\* Every branch token hangs under the root the episode points to, unless a
\* launch that overlapped the first one has replaced that root by null; such
\* launches are bounded, and with one request of the streamer at a time there
\* is none.
BranchUnderRoot ==
  /\ RelaunchBound
  /\ \A u \in Users :
       cards[u].branch # 0 => \/ cards[u].branch = rootTokenId
                              \/ rootTokenId = 0 /\ relaunched > 0
==============================================================================
