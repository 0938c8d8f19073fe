----------------------------- MODULE LiveEpisode -----------------------------
(***************************************************************************)
(* One episode of StreamTree from launch to fruiting, as the Express       *)
(* handlers of apps/api run it against Postgres.  A handler is a chain of  *)
(* awaited calls; between two awaits the event loop runs other handlers,   *)
(* and no handler opens a database transaction, so every await is an       *)
(* interleaving point.  A worker is one request in flight: pc[w] names the *)
(* call it is waiting for and loc[w] holds what it has read so far.        *)
(*                                                                         *)
(* The episode is a free one (cardPrice = 0): cards are minted by          *)
(* POST /cards/mint.  The paid path ends in the Stripe webhook.  A user    *)
(* without a wallet is one whose chain calls fail.                         *)
(***************************************************************************)
EXTENDS Integers, FiniteSets

CONSTANTS
  Users,            \* viewers that may hold a card
  Events,           \* the episode's event definitions
  Manual,           \* those with triggerType 'manual'; the others are 'twitch'
  Squares,          \* the positions of a card's grid
  Lines,            \* rows, columns, diagonals and blackout, as sets of squares
  MaxCards,         \* episode.maxCards, 0 when unlimited
  Viewers,          \* workers that carry viewers' mint requests
  Consoles,         \* workers that carry the streamer's requests
  Hooks,            \* workers that carry Twitch notifications
  ChainConfigured,  \* isBlockchainConfigured()
  BatchSize,        \* cards per batchMintFruitTokens call (50 in the code)
  MaxFires,         \* bound: an event fired this often is not fired again
  MaxFaults,        \* bound on aborted requests and process restarts
  Null

ASSUME FiniteAssumption ==
  /\ IsFiniteSet(Users)
  /\ IsFiniteSet(Viewers \cup Consoles \cup Hooks)
  /\ IsFiniteSet(Events)
  /\ IsFiniteSet(Squares)

ASSUME ConstantsAssumption ==
  /\ Manual \subseteq Events
  /\ Lines \subseteq SUBSET Squares
  /\ MaxCards \in Nat
  /\ BatchSize \in Nat \ {0}
  /\ MaxFires \in Nat
  /\ MaxFaults \in Nat
  /\ ChainConfigured \in BOOLEAN
  /\ Null \notin Users \cup Events

VARIABLES
  status,       \* Episode.status
  cardsMinted,  \* Episode.cardsMinted, the denormalised counter
  rootTokenId,  \* Episode.rootTokenId, 0 for null
  cards,        \* the Card table, keyed as @@unique([episodeId, holderId])
  firedCount,   \* EventDefinition.firedCount; firedAt is null while it is 0
  firedLog,     \* number of FiredEvent rows per event
  roots,        \* root tokens of this episode on chain, at most 1
  pc,           \* the call each worker awaits
  loc,          \* what each worker has read
  lost,         \* history: cards whose handler died before counting them
  relaunched,   \* history: launches saved on an episode that was launched already
  raced,        \* history: cards that two firings have read and are still to write
  faults        \* bound: faults so far

episodeVars == <<status, cardsMinted, rootTokenId, roots>>
firedVars   == <<firedCount, firedLog>>
auxVars     == <<lost, relaunched, raced, faults>>
vars == <<episodeVars, cards, firedVars, pc, loc, auxVars>>

Workers == Viewers \cup Consoles \cup Hooks

(***************************************************************************)
(* Rows and locals                                                         *)
(***************************************************************************)

NoGrid == << >>

Card == [status   : {"none", "active", "fruited"},
         number   : Nat,
         grid     : [Squares -> Events] \cup {NoGrid},
         marked   : SUBSET Squares,
         patterns : SUBSET Lines,
         branch   : Nat,                      \* root of its branch token, 0: none
         fruit    : SUBSET SUBSET Squares]    \* {m}: fruit minted with marks m

NoCard == [status |-> "none", number |-> 0, grid |-> NoGrid, marked |-> {},
           patterns |-> {}, branch |-> 0, fruit |-> {}]

Holders == {u \in Users : cards[u].status # "none"}
Active  == {u \in Users : cards[u].status = "active"}

Locals == [user   : Users \cup {Null},
           event  : Events \cup {Null},
           status : {"draft", "live", "ended"},
           minted : Nat,
           fired  : SUBSET Events,
           root   : Nat,
           todo   : SUBSET Users,
           batch  : SUBSET Users,
           seen   : [Users -> SUBSET Squares],
           queue  : SUBSET Events]

Blank == [user |-> Null, event |-> Null, status |-> "draft", minted |-> 0,
          fired |-> {}, root |-> 0, todo |-> {}, batch |-> {},
          seen |-> [u \in Users |-> {}], queue |-> {}]

MintLabels == {"mint_root", "mint_exists", "mint_create", "mint_branch",
               "mint_store", "mint_count"}
LaunchLabels == {"launch_root", "launch_save"}
EndLabels  == {"end_root", "end_save", "end_read", "end_batch", "end_fruit",
               "end_sweep"}
FireLabels == {"fire_read", "fire_card", "fire_log", "fire_count"}
HookLabels == {"hook_count", "hook_read", "hook_card", "hook_log"}
Labels == {"idle"} \cup MintLabels \cup LaunchLabels \cup EndLabels
          \cup FireLabels \cup HookLabels

Begin(w, label, l) ==
  /\ pc[w] = "idle"
  /\ pc'  = [pc EXCEPT ![w] = label]
  /\ loc' = [loc EXCEPT ![w] = l]

Goto(w, label, l) ==
  /\ pc'  = [pc EXCEPT ![w] = label]
  /\ loc' = [loc EXCEPT ![w] = l]

Finish(w) == Goto(w, "idle", Blank)

(***************************************************************************)
(* Grids, marks and patterns                                               *)
(***************************************************************************)

\* What the shuffles of generateCardGrid can produce: the pool holds each
\* event ceil(squares / events) times and the grid takes some of it.
Grids ==
  LET copies == (Cardinality(Squares) + Cardinality(Events) - 1)
                   \div Cardinality(Events)
  IN  {g \in [Squares -> Events] :
         \A e \in Events : Cardinality({s \in Squares : g[s] = e}) <= copies}

SquaresOf(g, E) == {s \in Squares : g[s] \in E}

DetectPatterns(marked) == {line \in Lines : line \subseteq marked}

\* Variant for the checks: compares with > instead of >=.
SoldOut_OffByOne(n) == MaxCards # 0 /\ n > MaxCards

SoldOut(n) == MaxCards # 0 /\ n >= MaxCards

\* Variant for the checks: 'firedAt !== null' on a firedAt that is undefined, not null.
Fired_Undefined == Events

Fired == {e \in Events : firedCount[e] > 0}

Init ==
  /\ status = "draft"
  /\ cardsMinted = 0
  /\ rootTokenId = 0
  /\ roots = 0
  /\ cards = [u \in Users |-> NoCard]
  /\ firedCount = [e \in Events |-> 0]
  /\ firedLog = [e \in Events |-> 0]
  /\ pc = [w \in Workers |-> "idle"]
  /\ loc = [w \in Workers |-> Blank]
  /\ lost = 0 /\ relaunched = 0 /\ raced = {}
  /\ faults = 0

(***************************************************************************)
(* POST /episodes/:id/launch                                               *)
(***************************************************************************)

\* Variant for the checks: the draft check is dropped.
LaunchRead_NoDraftCheck(w) ==
  /\ w \in Consoles
  /\ Events # {}
  /\ Begin(w, IF ChainConfigured THEN "launch_root" ELSE "launch_save", Blank)
  /\ UNCHANGED <<episodeVars, cards, firedVars, auxVars>>

LaunchRead(w) ==
  /\ w \in Consoles
  /\ status = "draft"
  /\ Events # {}
  /\ Begin(w, IF ChainConfigured THEN "launch_root" ELSE "launch_save", Blank)
  /\ UNCHANGED <<episodeVars, cards, firedVars, auxVars>>

\* createRootToken returns the root's id; or it fails, with the transaction
\* mined or not, and the launch goes on with a null root.  The contract refuses
\* a second root for the episode.
LaunchRoot(w) ==
  /\ pc[w] = "launch_root"
  /\ \/ /\ roots = 0 /\ roots' = 1
        /\ Goto(w, "launch_save", [Blank EXCEPT !.root = 1])
     \/ /\ roots' \in {roots, 1}
        /\ Goto(w, "launch_save", Blank)
  /\ UNCHANGED <<status, cardsMinted, rootTokenId, cards, firedVars, auxVars>>

LaunchSave(w) ==
  /\ pc[w] = "launch_save"
  /\ status' = "live"
  /\ rootTokenId' = loc[w].root
  /\ relaunched' = relaunched + (IF status = "draft" THEN 0 ELSE 1)
  /\ Finish(w)
  /\ UNCHANGED <<cardsMinted, roots, cards, firedVars, lost, raced, faults>>

(***************************************************************************)
(* POST /cards/mint/:episodeId                                             *)
(***************************************************************************)

MintRead(w, u) ==
  /\ w \in Viewers
  /\ Begin(w, "mint_root", [Blank EXCEPT !.user = u, !.status = status,
                                         !.minted = cardsMinted, !.fired = Fired])
  /\ UNCHANGED <<episodeVars, cards, firedVars, auxVars>>

\* Variant for the checks: the live check is dropped.
MintReadRoot_NoLiveCheck(w) ==
  LET rejected == SoldOut(loc[w].minted) IN
  /\ pc[w] = "mint_root"
  /\ \/ rejected /\ Finish(w)
     \/ ~rejected /\ Goto(w, "mint_exists", [loc[w] EXCEPT !.root = rootTokenId])
  /\ UNCHANGED <<episodeVars, cards, firedVars, auxVars>>

\* The second read only fetches the root; the checks use the first.
MintReadRoot(w) ==
  LET rejected == loc[w].status # "live" \/ SoldOut(loc[w].minted) IN
  /\ pc[w] = "mint_root"
  /\ \/ rejected /\ Finish(w)
     \/ ~rejected /\ Goto(w, "mint_exists", [loc[w] EXCEPT !.root = rootTokenId])
  /\ UNCHANGED <<episodeVars, cards, firedVars, auxVars>>

MintCheckExisting(w) ==
  /\ pc[w] = "mint_exists"
  /\ \/ loc[w].user \in Holders /\ Finish(w)
     \/ loc[w].user \notin Holders /\ Goto(w, "mint_create", loc[w])
  /\ UNCHANGED <<episodeVars, cards, firedVars, auxVars>>

\* Variant for the checks: the number of the last card instead of the next.
NewCard_OldNumber(l, g) ==
  [NoCard EXCEPT !.status = "active", !.number = l.minted, !.grid = g,
                 !.marked = SquaresOf(g, l.fired)]

NewCard(l, g) ==
  [NoCard EXCEPT !.status = "active", !.number = l.minted + 1, !.grid = g,
                 !.marked = SquaresOf(g, l.fired)]

\* A second card for the same holder violates the unique key: the handler
\* answers with an error and nothing is written.
MintCreate(w) ==
  LET u == loc[w].user IN
  /\ pc[w] = "mint_create"
  /\ \/ u \in Holders /\ Finish(w) /\ UNCHANGED cards
     \/ /\ u \notin Holders
        /\ \E g \in Grids : cards' = [cards EXCEPT ![u] = NewCard(loc[w], g)]
        /\ Goto(w, IF ChainConfigured /\ loc[w].root # 0
                   THEN "mint_branch" ELSE "mint_count", loc[w])
  /\ UNCHANGED <<episodeVars, firedVars, auxVars>>

\* mintBranchToken; a failure is logged and the card stays without a branch.
MintBranch(w) ==
  /\ pc[w] = "mint_branch"
  /\ \E label \in {"mint_store", "mint_count"} : Goto(w, label, loc[w])
  /\ UNCHANGED <<episodeVars, cards, firedVars, auxVars>>

MintStoreBranch(w) ==
  /\ pc[w] = "mint_store"
  /\ \/ cards' = [cards EXCEPT ![loc[w].user].branch = loc[w].root]
     \/ UNCHANGED cards
  /\ Goto(w, "mint_count", loc[w])
  /\ UNCHANGED <<episodeVars, firedVars, auxVars>>

\* Variant for the checks: writes the number computed from the first read instead of
\* { increment: 1 }.
MintCount_Absolute(w) ==
  /\ pc[w] = "mint_count"
  /\ cardsMinted' = loc[w].minted + 1
  /\ Finish(w)
  /\ UNCHANGED <<status, rootTokenId, roots, cards, firedVars, auxVars>>

MintCount(w) ==
  /\ pc[w] = "mint_count"
  /\ cardsMinted' = cardsMinted + 1
  /\ Finish(w)
  /\ UNCHANGED <<status, rootTokenId, roots, cards, firedVars, auxVars>>

(***************************************************************************)
(* Firing: the two paths share the marking of cards                        *)
(***************************************************************************)

Unmarked(u, e) == SquaresOf(cards[u].grid, {e}) \ cards[u].marked

Writing == {"fire_card", "hook_card"}

\* The cards that firings other than w have read and not yet written.
InHand(w) == UNION {loc[v].todo : v \in {x \in Workers \ {w} : pc[x] \in Writing}}

\* findMany of the active cards; the loop will update those with an unmarked
\* square of the event.
ReadCards(w, marking, done) ==
  LET todo == {u \in Active : Unmarked(u, loc[w].event) # {}} IN
  /\ raced' = (raced \cup todo) \cap InHand(w)
  /\ Goto(w, IF todo = {} THEN done ELSE marking,
             [loc[w] EXCEPT !.todo = todo,
                            !.seen = [u \in Users |-> cards[u].marked]])
  /\ UNCHANGED <<episodeVars, cards, firedVars, lost, relaunched, faults>>

\* Variant for the checks: the grid is rebuilt with the new marks only.
MarkCard_OnlyNewMarks(w, marking, done) ==
  \E u \in loc[w].todo :
    LET marked == SquaresOf(cards[u].grid, {loc[w].event})
        todo   == loc[w].todo \ {u}
    IN  /\ cards' = [cards EXCEPT ![u].marked = marked,
                                  ![u].patterns = DetectPatterns(marked)]
        /\ Goto(w, IF todo = {} THEN done ELSE marking, [loc[w] EXCEPT !.todo = todo])
        /\ UNCHANGED <<episodeVars, firedVars, auxVars>>

\* Variant for the checks: the whole row is written back, with the status it was read with.
MarkCard_WholeRow(w, marking, done) ==
  \E u \in loc[w].todo :
    LET marked == loc[w].seen[u] \cup SquaresOf(cards[u].grid, {loc[w].event})
        todo   == loc[w].todo \ {u}
    IN  /\ cards' = [cards EXCEPT ![u].marked = marked,
                                  ![u].patterns = DetectPatterns(marked),
                                  ![u].status = "active"]
        /\ Goto(w, IF todo = {} THEN done ELSE marking, [loc[w] EXCEPT !.todo = todo])
        /\ UNCHANGED <<episodeVars, firedVars, auxVars>>

\* card.update writes back the whole grid as it was read, plus the new marks,
\* and the patterns detected on it.
MarkCard(w, marking, done) ==
  \E u \in loc[w].todo :
    LET marked == loc[w].seen[u] \cup SquaresOf(cards[u].grid, {loc[w].event})
        todo   == loc[w].todo \ {u}
    IN  /\ cards' = [cards EXCEPT ![u].marked = marked,
                                  ![u].patterns = DetectPatterns(marked)]
        /\ Goto(w, IF todo = {} THEN done ELSE marking, [loc[w] EXCEPT !.todo = todo])
        /\ UNCHANGED <<episodeVars, firedVars, auxVars>>

\* Variant for the checks: the live check is dropped.
FireStart_NoLiveCheck(w, e) ==
  /\ w \in Consoles
  /\ e \in Manual
  /\ firedCount[e] < MaxFires
  /\ Begin(w, "fire_read", [Blank EXCEPT !.event = e])
  /\ UNCHANGED <<episodeVars, cards, firedVars, auxVars>>

\* POST /episodes/:id/events/:eventId/fire.  The lookup of the event row, whose
\* trigger type no handler changes after launch, is folded into the first read.
FireStart(w, e) ==
  /\ w \in Consoles
  /\ status = "live"
  /\ e \in Manual
  /\ firedCount[e] < MaxFires
  /\ Begin(w, "fire_read", [Blank EXCEPT !.event = e])
  /\ UNCHANGED <<episodeVars, cards, firedVars, auxVars>>

FireRead(w) == pc[w] = "fire_read" /\ ReadCards(w, "fire_card", "fire_log")

FireCard(w) == pc[w] = "fire_card" /\ MarkCard(w, "fire_card", "fire_log")

FireLog(w) ==
  /\ pc[w] = "fire_log"
  /\ firedLog' = [firedLog EXCEPT ![loc[w].event] = @ + 1]
  /\ Goto(w, "fire_count", loc[w])
  /\ UNCHANGED <<episodeVars, cards, firedCount, auxVars>>

\* Variant for the checks: writes 1 instead of { increment: 1 }.
FireCount_Absolute(w) ==
  /\ pc[w] = "fire_count"
  /\ firedCount' = [firedCount EXCEPT ![loc[w].event] = 1]
  /\ Finish(w)
  /\ UNCHANGED <<episodeVars, cards, firedLog, auxVars>>

FireCount(w) ==
  /\ pc[w] = "fire_count"
  /\ firedCount' = [firedCount EXCEPT ![loc[w].event] = @ + 1]
  /\ Finish(w)
  /\ UNCHANGED <<episodeVars, cards, firedLog, auxVars>>

\* handleTwitchNotification: the live episode and its matching definitions are
\* read once, then the matches are fired one after another.
HookStart(w, E) ==
  /\ w \in Hooks
  /\ status = "live"
  /\ E # {} /\ E \subseteq Events \ Manual
  /\ \A e \in E : firedCount[e] < MaxFires
  /\ Begin(w, "hook_count", [Blank EXCEPT !.queue = E])
  /\ UNCHANGED <<episodeVars, cards, firedVars, auxVars>>

\* fireEventFromTwitch counts the event first.
HookCount(w) ==
  /\ pc[w] = "hook_count"
  /\ \E e \in loc[w].queue :
       /\ firedCount' = [firedCount EXCEPT ![e] = @ + 1]
       /\ Goto(w, "hook_read", [loc[w] EXCEPT !.event = e, !.queue = @ \ {e}])
  /\ UNCHANGED <<episodeVars, cards, firedLog, auxVars>>

HookRead(w) == pc[w] = "hook_read" /\ ReadCards(w, "hook_card", "hook_log")

HookCard(w) == pc[w] = "hook_card" /\ MarkCard(w, "hook_card", "hook_log")

NextEvent(w, queue) ==
  IF queue = {} THEN Finish(w)
                ELSE Goto(w, "hook_count", [Blank EXCEPT !.queue = queue])

HookLog(w) ==
  /\ pc[w] = "hook_log"
  /\ firedLog' = [firedLog EXCEPT ![loc[w].event] = @ + 1]
  /\ NextEvent(w, loc[w].queue)
  /\ UNCHANGED <<episodeVars, cards, firedCount, auxVars>>

(***************************************************************************)
(* POST /episodes/:id/end                                                  *)
(***************************************************************************)

\* Variant for the checks: the live check is dropped.
EndRead_NoLiveCheck(w) ==
  /\ w \in Consoles
  /\ Begin(w, IF ChainConfigured /\ rootTokenId # 0 THEN "end_root" ELSE "end_save",
           Blank)
  /\ UNCHANGED <<episodeVars, cards, firedVars, auxVars>>

EndRead(w) ==
  /\ w \in Consoles
  /\ status = "live"
  /\ Begin(w, IF ChainConfigured /\ rootTokenId # 0 THEN "end_root" ELSE "end_save",
           Blank)
  /\ UNCHANGED <<episodeVars, cards, firedVars, auxVars>>

\* endRootToken succeeds or fails on chain; the handler goes on either way.
EndRoot(w) ==
  /\ pc[w] = "end_root"
  /\ Goto(w, "end_save", loc[w])
  /\ UNCHANGED <<episodeVars, cards, firedVars, auxVars>>

EndSave(w) ==
  /\ pc[w] = "end_save"
  /\ status' = "ended"
  /\ Goto(w, "end_read", loc[w])
  /\ UNCHANGED <<cardsMinted, rootTokenId, roots, cards, firedVars, auxVars>>

EndReadCards(w) ==
  LET todo == {u \in Active : ChainConfigured /\ cards[u].branch # 0} IN
  /\ pc[w] = "end_read"
  /\ Goto(w, IF todo = {} THEN "end_sweep" ELSE "end_batch",
             [loc[w] EXCEPT !.todo = todo,
                            !.seen = [u \in Users |-> cards[u].marked]])
  /\ UNCHANGED <<episodeVars, cards, firedVars, auxVars>>

BatchesOf(todo) ==
  LET size == IF Cardinality(todo) < BatchSize THEN Cardinality(todo) ELSE BatchSize
  IN  {B \in SUBSET todo : Cardinality(B) = size}

\* batchMintFruitTokens mints a batch or fails as a whole; a failure skips the
\* batches that are left.
EndBatch(w) ==
  /\ pc[w] = "end_batch"
  /\ \/ \E B \in BatchesOf(loc[w].todo) :
          Goto(w, "end_fruit", [loc[w] EXCEPT !.batch = B, !.todo = @ \ B])
     \/ Goto(w, "end_sweep", loc[w])
  /\ UNCHANGED <<episodeVars, cards, firedVars, auxVars>>

Fruited(card) == [card EXCEPT !.status = "fruited"]

\* One card.update per fruit of the batch; a rejected update ends the batches.
EndFruit(w) ==
  /\ pc[w] = "end_fruit"
  /\ \/ \E u \in loc[w].batch :
          LET batch == loc[w].batch \ {u} IN
          /\ cards' = [cards EXCEPT ![u] =
                         [Fruited(@) EXCEPT !.fruit = {loc[w].seen[u]}]]
          /\ Goto(w, IF batch # {} THEN "end_fruit"
                     ELSE IF loc[w].todo # {} THEN "end_batch" ELSE "end_sweep",
                  [loc[w] EXCEPT !.batch = batch])
     \/ Goto(w, "end_sweep", loc[w]) /\ UNCHANGED cards
  /\ UNCHANGED <<episodeVars, firedVars, auxVars>>

\* Variant for the checks: the sweep leaves out the cards that were to fruit on chain.
EndSweep_SkipsBranches(w) ==
  /\ pc[w] = "end_sweep"
  /\ cards' = [u \in Users |-> IF u \in Active /\ cards[u].branch = 0
                               THEN Fruited(cards[u]) ELSE cards[u]]
  /\ Finish(w)
  /\ UNCHANGED <<episodeVars, firedVars, auxVars>>

\* updateMany of whatever is still active.
EndSweep(w) ==
  /\ pc[w] = "end_sweep"
  /\ cards' = [u \in Users |-> IF u \in Active THEN Fruited(cards[u]) ELSE cards[u]]
  /\ Finish(w)
  /\ UNCHANGED <<episodeVars, firedVars, auxVars>>

(***************************************************************************)
(* Faults                                                                  *)
(***************************************************************************)

\* Labels inside a try of their own: a rejected call does not end the handler.
Caught == {"mint_branch", "mint_store", "launch_root", "end_root", "end_batch",
           "end_fruit"} \cup HookLabels

Uncounted == {"mint_branch", "mint_store", "mint_count"}

\* A Prisma call rejects: the handler's catch answers 500 and what was
\* written stays written.
DbError(w) ==
  /\ faults < MaxFaults
  /\ pc[w] \notin Caught \cup {"idle"}
  /\ faults' = faults + 1
  /\ lost' = lost + (IF pc[w] \in Uncounted THEN 1 ELSE 0)
  /\ Finish(w)
  /\ UNCHANGED <<episodeVars, cards, firedVars, relaunched, raced>>

\* The same inside fireEventFromTwitch, whose catch lets the loop go on.
HookError(w) ==
  /\ faults < MaxFaults
  /\ pc[w] \in HookLabels
  /\ faults' = faults + 1
  /\ \/ pc[w] = "hook_count" /\ \E e \in loc[w].queue : NextEvent(w, loc[w].queue \ {e})
     \/ pc[w] # "hook_count" /\ NextEvent(w, loc[w].queue)
  /\ UNCHANGED <<episodeVars, cards, firedVars, lost, relaunched, raced>>

\* The process dies and is restarted: every request in flight is forgotten.
Crash ==
  /\ faults < MaxFaults
  /\ \E w \in Workers : pc[w] # "idle"
  /\ faults' = faults + 1
  /\ lost' = lost + Cardinality({w \in Workers : pc[w] \in Uncounted})
  /\ pc'  = [w \in Workers |-> "idle"]
  /\ loc' = [w \in Workers |-> Blank]
  /\ UNCHANGED <<episodeVars, cards, firedVars, relaunched, raced>>

(***************************************************************************)
(* Specification                                                           *)
(***************************************************************************)

Start(w) ==
  \/ LaunchRead(w) \/ EndRead(w)
  \/ \E u \in Users : MintRead(w, u)
  \/ \E e \in Events : FireStart(w, e)
  \/ \E E \in SUBSET Events : HookStart(w, E)

Step(w) ==
  \/ LaunchRoot(w) \/ LaunchSave(w)
  \/ MintReadRoot(w) \/ MintCheckExisting(w) \/ MintCreate(w)
  \/ MintBranch(w) \/ MintStoreBranch(w) \/ MintCount(w)
  \/ FireRead(w) \/ FireCard(w) \/ FireLog(w) \/ FireCount(w)
  \/ HookCount(w) \/ HookRead(w) \/ HookCard(w) \/ HookLog(w)
  \/ EndRoot(w) \/ EndSave(w) \/ EndReadCards(w) \/ EndBatch(w)
  \/ EndFruit(w) \/ EndSweep(w)

Next ==
  \/ \E w \in Workers : Start(w) \/ Step(w) \/ DbError(w) \/ HookError(w)
  \/ Crash

Spec == Init /\ [][Next]_vars

\* An awaited call settles eventually (the chain calls have timeouts of their
\* own), so a request in flight goes on.  Nothing makes a client send one.
FairSpec == Spec /\ \A w \in Workers : WF_vars(Step(w))
==============================================================================
