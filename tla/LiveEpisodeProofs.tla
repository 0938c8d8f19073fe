-------------------------- MODULE LiveEpisodeProofs --------------------------
(***************************************************************************)
(* Proofs, for any number of viewers, events, squares and workers and for  *)
(* every interleaving of requests and notifications: the type invariant,   *)
(* the finality of fruiting, the accounts of the counter; without faults   *)
(* the firing log, the marks and the cards the end has left; with one      *)
(* request of the streamer at a time the root, the status, and, without    *)
(* notifications, that marks stay and freeze with the end; and with one    *)
(* request at a time that the handlers implement EpisodePromise.           *)
(***************************************************************************)
EXTENDS LiveEpisodeSerial, TLAPS, FiniteSetTheorems

(***************************************************************************)
(* Types                                                                   *)
(***************************************************************************)

\* The locals of an idle worker and the absent row are well typed.
LEMMA BlankTypes == Blank \in Locals /\ NoCard \in Card
BY ConstantsAssumption DEF Blank, Locals, NoCard, Card, NoGrid

\* Moving a worker keeps pc and loc well typed.
LEMMA GotoType ==
  ASSUME TypeOK, NEW w \in Workers, NEW label \in Labels, NEW l \in Locals,
         Goto(w, label, l)
  PROVE  pc' \in [Workers -> Labels] /\ loc' \in [Workers -> Locals]
BY DEF TypeOK, Goto

LEMMA FinishType ==
  ASSUME TypeOK, NEW w \in Workers, Finish(w)
  PROVE  pc' \in [Workers -> Labels] /\ loc' \in [Workers -> Locals]
BY BlankTypes DEF TypeOK, Goto, Finish, Labels

LEMMA BeginType ==
  ASSUME TypeOK, NEW w \in Workers, NEW label \in Labels, NEW l \in Locals,
         Begin(w, label, l)
  PROVE  pc' \in [Workers -> Labels] /\ loc' \in [Workers -> Locals]
BY DEF TypeOK, Begin

\* The requests that start something.
LEMMA StartType ==
  ASSUME TypeOK, NEW w \in Workers, Start(w)
  PROVE  TypeOK'
<1> USE BlankTypes
<1> DEFINE Same == UNCHANGED <<episodeVars, cards, firedVars, auxVars>>
<1>0. ASSUME pc' \in [Workers -> Labels], loc' \in [Workers -> Locals], Same
      PROVE  TypeOK'
  BY <1>0 DEF TypeOK, episodeVars, firedVars, auxVars
<1>1. CASE LaunchRead(w)
  <2>1. (IF ChainConfigured THEN "launch_root" ELSE "launch_save") \in Labels
    BY DEF Labels, LaunchLabels
  <2> QED BY <1>0, <1>1, <2>1, BeginType DEF LaunchRead
<1>2. CASE EndRead(w)
  <2>1. (IF ChainConfigured /\ rootTokenId # 0 THEN "end_root" ELSE "end_save") \in Labels
    BY DEF Labels, EndLabels
  <2> QED BY <1>0, <1>2, <2>1, BeginType DEF EndRead
<1>3. ASSUME NEW u \in Users, MintRead(w, u) PROVE TypeOK'
  <2>1. [Blank EXCEPT !.user = u, !.status = status, !.minted = cardsMinted,
                      !.fired = Fired] \in Locals
    BY DEF TypeOK, Blank, Locals, Fired
  <2>2. "mint_root" \in Labels BY DEF Labels, MintLabels
  <2> QED BY <1>0, <1>3, <2>1, <2>2, BeginType DEF MintRead
<1>4. ASSUME NEW e \in Events, FireStart(w, e) PROVE TypeOK'
  <2>1. [Blank EXCEPT !.event = e] \in Locals BY DEF Blank, Locals
  <2>2. "fire_read" \in Labels BY DEF Labels, FireLabels
  <2> QED BY <1>0, <1>4, <2>1, <2>2, BeginType DEF FireStart
<1>5. ASSUME NEW E \in SUBSET Events, HookStart(w, E) PROVE TypeOK'
  <2>1. [Blank EXCEPT !.queue = E] \in Locals BY DEF Blank, Locals
  <2>2. "hook_count" \in Labels BY DEF Labels, HookLabels
  <2> QED BY <1>0, <1>5, <2>1, <2>2, BeginType DEF HookStart
<1> QED BY <1>1, <1>2, <1>3, <1>4, <1>5 DEF Start

\* What a mint writes is a row of the table.
LEMMA NewCardType ==
  ASSUME NEW l \in Locals, NEW g \in Grids
  PROVE  NewCard(l, g) \in Card
<1> DEFINE m == SquaresOf(g, l.fired)
<1>1. g \in [Squares -> Events] \cup {NoGrid} BY DEF Grids
<1>2. m \in SUBSET Squares BY DEF SquaresOf
<1>3. l.minted + 1 \in Nat BY DEF Locals
<1> HIDE DEF m
<1>4. [NoCard EXCEPT !.status = "active", !.number = l.minted + 1, !.grid = g,
                     !.marked = m] \in Card
  BY <1>1, <1>2, <1>3, BlankTypes DEF Card
<1> QED BY <1>4 DEF NewCard, m

\* Reading the cards and marking one of them, the halves the two firing paths
\* share.
LEMMA ReadCardsType ==
  ASSUME TypeOK, NEW w \in Workers, NEW marking \in Labels, NEW done \in Labels,
         ReadCards(w, marking, done)
  PROVE  TypeOK'
<1> DEFINE todo == {u \in Active : Unmarked(u, loc[w].event) # {}}
           l == [loc[w] EXCEPT !.todo = todo, !.seen = [u \in Users |-> cards[u].marked]]
<1>1. l \in Locals BY DEF TypeOK, Locals, Active, Card
<1>2. (IF todo = {} THEN done ELSE marking) \in Labels OBVIOUS
<1>3. Goto(w, IF todo = {} THEN done ELSE marking, l) BY DEF ReadCards
<1>4. raced' \subseteq Users BY DEF ReadCards, TypeOK, Active
<1> QED
  BY <1>1, <1>2, <1>3, <1>4, GotoType
  DEF ReadCards, TypeOK, episodeVars, firedVars, auxVars

LEMMA MarkCardType ==
  ASSUME TypeOK, NEW w \in Workers, NEW marking \in Labels, NEW done \in Labels,
         MarkCard(w, marking, done)
  PROVE  TypeOK'
<1>1. PICK u \in loc[w].todo :
        LET marked == loc[w].seen[u] \cup SquaresOf(cards[u].grid, {loc[w].event})
            todo   == loc[w].todo \ {u}
        IN  /\ cards' = [cards EXCEPT ![u].marked = marked,
                                      ![u].patterns = DetectPatterns(marked)]
            /\ Goto(w, IF todo = {} THEN done ELSE marking,
                       [loc[w] EXCEPT !.todo = todo])
            /\ UNCHANGED <<episodeVars, firedVars, auxVars>>
  BY DEF MarkCard
<1> DEFINE marked == loc[w].seen[u] \cup SquaresOf(cards[u].grid, {loc[w].event})
           rest == loc[w].todo \ {u}
<1>2. u \in Users /\ loc[w] \in Locals BY DEF TypeOK, Locals
<1>3. marked \subseteq Squares BY <1>2 DEF TypeOK, Locals, SquaresOf
<1>4. DetectPatterns(marked) \subseteq Lines BY DEF DetectPatterns
<1>5. cards' \in [Users -> Card]
  <2> HIDE DEF marked
  <2>1. cards' = [cards EXCEPT ![u] = [cards[u] EXCEPT !.marked = marked,
                                          !.patterns = DetectPatterns(marked)]]
    BY <1>1, <1>2 DEF TypeOK, marked
  <2> DEFINE patterns == DetectPatterns(marked)
  <2>2. patterns \in SUBSET Lines /\ marked \in SUBSET Squares BY <1>3, <1>4
  <2>3. cards[u] \in Card BY <1>2 DEF TypeOK
  <2> HIDE DEF patterns
  <2>4. [cards[u] EXCEPT !.marked = marked, !.patterns = patterns] \in Card
    BY <2>2, <2>3 DEF Card
  <2> QED BY <2>1, <2>4, <1>2 DEF TypeOK, patterns
<1>6. [loc[w] EXCEPT !.todo = rest] \in Locals BY <1>2 DEF Locals
<1>7. (IF rest = {} THEN done ELSE marking) \in Labels OBVIOUS
<1>8. pc' \in [Workers -> Labels] /\ loc' \in [Workers -> Locals]
  BY <1>1, <1>6, <1>7, GotoType
<1> QED
  BY <1>1, <1>5, <1>8 DEF TypeOK, episodeVars, firedVars, auxVars

\* Fruiting a card keeps it a row, whatever fruit is stored with it.
LEMMA FruitedType ==
  ASSUME NEW card \in Card, NEW fruit \in SUBSET SUBSET Squares
  PROVE  /\ Fruited(card) \in Card
         /\ [Fruited(card) EXCEPT !.fruit = fruit] \in Card
<1> DEFINE s == "fruited"
<1>1. s \in {"none", "active", "fruited"} OBVIOUS
<1> HIDE DEF s
<1>2. [card EXCEPT !.status = s] \in Card BY <1>1 DEF Card
<1>3. Fruited(card) \in Card BY <1>2 DEF Fruited, s
<1> QED BY <1>3 DEF Card

\* The steps of a launch and of a mint.
LEMMA MintStepType ==
  ASSUME TypeOK, NEW w \in Workers,
         \/ LaunchRoot(w) \/ LaunchSave(w) \/ MintReadRoot(w) \/ MintCheckExisting(w)
         \/ MintCreate(w) \/ MintBranch(w) \/ MintStoreBranch(w) \/ MintCount(w)
  PROVE  TypeOK'
<1> USE BlankTypes
<1> DEFINE Moved == pc' \in [Workers -> Labels] /\ loc' \in [Workers -> Locals]
<1>0. loc[w] \in Locals BY DEF TypeOK
<1>1. CASE LaunchRoot(w)
  <2>0. roots' \in Nat BY <1>1 DEF TypeOK, LaunchRoot
  <2>1. [Blank EXCEPT !.root = 1] \in Locals BY DEF Locals
  <2>2. "launch_save" \in Labels BY DEF Labels, LaunchLabels
  <2>3. Moved BY <1>1, <2>1, <2>2, GotoType DEF LaunchRoot
  <2> QED BY <1>1, <2>0, <2>3 DEF LaunchRoot, TypeOK, firedVars, auxVars
<1>2. CASE LaunchSave(w)
  <2>1. Moved BY <1>2, FinishType DEF LaunchSave
  <2>2. rootTokenId' \in Nat BY <1>2, <1>0 DEF LaunchSave, Locals
  <2> QED BY <1>2, <2>1, <2>2 DEF LaunchSave, TypeOK, firedVars, auxVars
<1>3. CASE MintReadRoot(w)
  <2>1. [loc[w] EXCEPT !.root = rootTokenId] \in Locals BY <1>0 DEF TypeOK, Locals
  <2>2. "mint_exists" \in Labels BY DEF Labels, MintLabels
  <2>3. Moved BY <1>3, <2>1, <2>2, GotoType, FinishType DEF MintReadRoot
  <2> QED BY <1>3, <2>3 DEF MintReadRoot, TypeOK, episodeVars, firedVars, auxVars
<1>4. CASE MintCheckExisting(w)
  <2>1. "mint_create" \in Labels BY DEF Labels, MintLabels
  <2>2. Moved BY <1>4, <1>0, <2>1, GotoType, FinishType DEF MintCheckExisting
  <2> QED BY <1>4, <2>2 DEF MintCheckExisting, TypeOK, episodeVars, firedVars, auxVars
<1>5. CASE MintCreate(w)
  <2>1. (IF ChainConfigured /\ loc[w].root # 0 THEN "mint_branch" ELSE "mint_count")
          \in Labels
    BY DEF Labels, MintLabels
  <2>2. Moved BY <1>5, <1>0, <2>1, GotoType, FinishType DEF MintCreate
  <2>3. cards' \in [Users -> Card] BY <1>5, <1>0, NewCardType DEF MintCreate, TypeOK
  <2> QED BY <1>5, <2>2, <2>3 DEF MintCreate, TypeOK, episodeVars, firedVars, auxVars
<1>6. CASE MintBranch(w)
  <2>1. {"mint_store", "mint_count"} \subseteq Labels BY DEF Labels, MintLabels
  <2>2. PICK label \in {"mint_store", "mint_count"} : Goto(w, label, loc[w])
    BY <1>6 DEF MintBranch
  <2>3. Moved BY <1>0, <2>1, <2>2, GotoType
  <2> QED BY <1>6, <2>3 DEF MintBranch, TypeOK, episodeVars, firedVars, auxVars
<1>7. CASE MintStoreBranch(w)
  <2>1. "mint_count" \in Labels BY DEF Labels, MintLabels
  <2>2. Moved BY <1>7, <1>0, <2>1, GotoType DEF MintStoreBranch
  <2> DEFINE r == loc[w].root
             u == loc[w].user
  <2>3. r \in Nat BY <1>0 DEF Locals
  <2> HIDE DEF r, u
  <2>4. [cards EXCEPT ![u].branch = r] \in [Users -> Card]
    <3>1. \A v \in Users : [cards[v] EXCEPT !.branch = r] \in Card
      BY <2>3 DEF TypeOK, Card
    <3> QED BY <3>1 DEF TypeOK
  <2>5. cards' \in [Users -> Card]
    BY <1>7, <2>4 DEF MintStoreBranch, TypeOK, r, u
  <2> QED BY <1>7, <2>2, <2>5 DEF MintStoreBranch, TypeOK, episodeVars, firedVars, auxVars
<1>8. CASE MintCount(w)
  <2>1. Moved BY <1>8, FinishType DEF MintCount
  <2> QED BY <1>8, <2>1 DEF MintCount, TypeOK, firedVars, auxVars
<1> QED BY <1>1, <1>2, <1>3, <1>4, <1>5, <1>6, <1>7, <1>8

\* Counting an event keeps a table of counters well typed.
LEMMA CountUp ==
  ASSUME NEW f \in [Events -> Nat], NEW e
  PROVE  [f EXCEPT ![e] = @ + 1] \in [Events -> Nat]
<1>1. CASE e \in Events
  <2>1. f[e] + 1 \in Nat BY <1>1
  <2> QED BY <2>1
<1>2. CASE e \notin Events
  <2>1. [f EXCEPT ![e] = @ + 1] = f BY <1>2
  <2> QED BY <2>1
<1> QED BY <1>1, <1>2

\* The steps of the two firing paths.
LEMMA FireStepType ==
  ASSUME TypeOK, NEW w \in Workers,
         \/ FireRead(w) \/ FireCard(w) \/ FireLog(w) \/ FireCount(w)
         \/ HookCount(w) \/ HookRead(w) \/ HookCard(w) \/ HookLog(w)
  PROVE  TypeOK'
<1> USE BlankTypes
<1> DEFINE Moved == pc' \in [Workers -> Labels] /\ loc' \in [Workers -> Locals]
<1>0. /\ loc[w] \in Locals
      /\ {"fire_card", "fire_log", "fire_count", "hook_count", "hook_read", "hook_card",
          "hook_log"} \subseteq Labels
  BY DEF TypeOK, Labels, FireLabels, HookLabels
<1>1. CASE FireRead(w) BY <1>0, <1>1, ReadCardsType DEF FireRead
<1>2. CASE FireCard(w) BY <1>0, <1>2, MarkCardType DEF FireCard
<1>3. CASE FireLog(w)
  <2>1. Moved BY <1>0, <1>3, GotoType DEF FireLog
  <2>2. firedLog' \in [Events -> Nat] BY <1>3, CountUp DEF FireLog, TypeOK
  <2> QED BY <1>3, <2>1, <2>2 DEF FireLog, TypeOK, episodeVars, auxVars
<1>4. CASE FireCount(w)
  <2>1. Moved BY <1>4, FinishType DEF FireCount
  <2>2. firedCount' \in [Events -> Nat] BY <1>4, CountUp DEF FireCount, TypeOK
  <2> QED BY <1>4, <2>1, <2>2 DEF FireCount, TypeOK, episodeVars, auxVars
<1>5. CASE HookCount(w)
  <2>1. PICK e \in loc[w].queue :
          /\ firedCount' = [firedCount EXCEPT ![e] = @ + 1]
          /\ Goto(w, "hook_read", [loc[w] EXCEPT !.event = e, !.queue = @ \ {e}])
    BY <1>5 DEF HookCount
  <2>2. [loc[w] EXCEPT !.event = e, !.queue = @ \ {e}] \in Locals
    BY <1>0 DEF Locals
  <2>3. Moved BY <1>0, <2>1, <2>2, GotoType
  <2>4. firedCount' \in [Events -> Nat] BY <2>1, CountUp DEF TypeOK
  <2> QED BY <1>5, <2>3, <2>4 DEF HookCount, TypeOK, episodeVars, auxVars
<1>6. CASE HookRead(w) BY <1>0, <1>6, ReadCardsType DEF HookRead
<1>7. CASE HookCard(w) BY <1>0, <1>7, MarkCardType DEF HookCard
<1>8. CASE HookLog(w)
  <2>1. [Blank EXCEPT !.queue = loc[w].queue] \in Locals BY <1>0 DEF Blank, Locals
  <2>2. Moved BY <1>0, <1>8, <2>1, GotoType, FinishType DEF HookLog, NextEvent
  <2>3. firedLog' \in [Events -> Nat] BY <1>8, CountUp DEF HookLog, TypeOK
  <2> QED BY <1>8, <2>2, <2>3 DEF HookLog, TypeOK, episodeVars, auxVars
<1> QED BY <1>1, <1>2, <1>3, <1>4, <1>5, <1>6, <1>7, <1>8

\* The steps of the end.
LEMMA EndStepType ==
  ASSUME TypeOK, NEW w \in Workers,
         \/ EndRoot(w) \/ EndSave(w) \/ EndReadCards(w) \/ EndBatch(w)
         \/ EndFruit(w) \/ EndSweep(w)
  PROVE  TypeOK'
<1> DEFINE Moved == pc' \in [Workers -> Labels] /\ loc' \in [Workers -> Locals]
<1>0. loc[w] \in Locals /\ EndLabels \subseteq Labels BY DEF TypeOK, Labels
<1>1. CASE EndRoot(w)
  <2>1. "end_save" \in Labels BY <1>0 DEF EndLabels
  <2>2. Moved BY <1>0, <1>1, <2>1, GotoType DEF EndRoot
  <2> QED BY <1>1, <2>2 DEF EndRoot, TypeOK, episodeVars, firedVars, auxVars
<1>2. CASE EndSave(w)
  <2>1. "end_read" \in Labels BY <1>0 DEF EndLabels
  <2>2. Moved BY <1>0, <1>2, <2>1, GotoType DEF EndSave
  <2> QED BY <1>2, <2>2 DEF EndSave, TypeOK, firedVars, auxVars
<1>3. CASE EndReadCards(w)
  <2> DEFINE todo == {u \in Active : ChainConfigured /\ cards[u].branch # 0}
             seen == [u \in Users |-> cards[u].marked]
             label == IF todo = {} THEN "end_sweep" ELSE "end_batch"
  <2>1. todo \in SUBSET Users /\ seen \in [Users -> SUBSET Squares]
    BY DEF TypeOK, Active, Card
  <2>2. label \in Labels BY <1>0 DEF EndLabels
  <2>3. Goto(w, label, [loc[w] EXCEPT !.todo = todo, !.seen = seen])
    BY <1>3 DEF EndReadCards
  <2> HIDE DEF todo, seen, label
  <2>4. [loc[w] EXCEPT !.todo = todo, !.seen = seen] \in Locals
    BY <1>0, <2>1 DEF Locals
  <2>5. Moved BY <2>2, <2>3, <2>4, GotoType
  <2> QED BY <1>3, <2>5 DEF EndReadCards, TypeOK, episodeVars, firedVars, auxVars
<1>4. CASE EndBatch(w)
  <2>1. "end_fruit" \in Labels /\ "end_sweep" \in Labels BY <1>0 DEF EndLabels
  <2>2. ASSUME NEW B \in BatchesOf(loc[w].todo)
        PROVE  [loc[w] EXCEPT !.batch = B, !.todo = @ \ B] \in Locals
    <3>1. B \in SUBSET Users BY <1>0 DEF BatchesOf, Locals
    <3> QED BY <1>0, <3>1 DEF Locals
  <2>3. Moved BY <1>0, <1>4, <2>1, <2>2, GotoType DEF EndBatch
  <2> QED BY <1>4, <2>3 DEF EndBatch, TypeOK, episodeVars, firedVars, auxVars
<1>5. CASE EndFruit(w)
  <2>1. CASE Goto(w, "end_sweep", loc[w]) /\ UNCHANGED cards
    <3>1. "end_sweep" \in Labels BY <1>0 DEF EndLabels
    <3>2. Moved BY <1>0, <2>1, <3>1, GotoType
    <3> QED BY <1>5, <2>1, <3>2 DEF EndFruit, TypeOK, episodeVars, firedVars, auxVars
  <2>2. ASSUME NEW u \in loc[w].batch,
               cards' = [cards EXCEPT ![u] = [Fruited(@) EXCEPT !.fruit = {loc[w].seen[u]}]],
               NEW label \in {"end_fruit", "end_batch", "end_sweep"},
               Goto(w, label, [loc[w] EXCEPT !.batch = loc[w].batch \ {u}])
        PROVE  TypeOK'
    <3>1. u \in Users /\ {loc[w].seen[u]} \in SUBSET SUBSET Squares
      BY <1>0 DEF Locals
    <3>2. cards[u] \in Card BY <3>1 DEF TypeOK
    <3>3. [Fruited(cards[u]) EXCEPT !.fruit = {loc[w].seen[u]}] \in Card
      BY <3>1, <3>2, FruitedType
    <3>4. cards' \in [Users -> Card] BY <2>2, <3>1, <3>3 DEF TypeOK
    <3> DEFINE rest == loc[w].batch \ {u}
    <3>5. rest \in SUBSET Users BY <1>0 DEF Locals
    <3>6. [loc[w] EXCEPT !.batch = rest] \in Locals BY <1>0, <3>5 DEF Locals
    <3>7. label \in Labels BY <1>0 DEF EndLabels
    <3>8. Moved BY <2>2, <3>6, <3>7, GotoType
    <3> QED BY <1>5, <3>4, <3>8 DEF EndFruit, TypeOK, episodeVars, firedVars, auxVars
  <2> QED BY <1>5, <2>1, <2>2 DEF EndFruit
<1>6. CASE EndSweep(w)
  <2>1. Moved BY <1>6, FinishType DEF EndSweep
  <2>2. \A u \in Users : cards[u] \in Card /\ Fruited(cards[u]) \in Card
    BY FruitedType DEF TypeOK
  <2>3. cards' \in [Users -> Card] BY <1>6, <2>2 DEF EndSweep
  <2> QED BY <1>6, <2>1, <2>3 DEF EndSweep, TypeOK, episodeVars, firedVars, auxVars
<1> QED BY <1>1, <1>2, <1>3, <1>4, <1>5, <1>6

\* A step of a request in flight.
LEMMA StepType == ASSUME TypeOK, NEW w \in Workers, Step(w) PROVE TypeOK'
BY MintStepType, FireStepType, EndStepType DEF Step

\* The number of workers that await one of some calls.
LEMMA InFlightFinite ==
  ASSUME NEW labels
  PROVE  IsFiniteSet(InFlight(labels)) /\ Cardinality(InFlight(labels)) \in Nat
<1>1. IsFiniteSet(Workers) BY FiniteAssumption DEF Workers
<1>2. InFlight(labels) \subseteq Workers BY DEF InFlight
<1> QED BY <1>1, <1>2, FS_Subset, FS_CardinalityType

\* The three ways in which a request is cut short.
LEMMA FaultType ==
  ASSUME TypeOK, Crash \/ \E w \in Workers : DbError(w) \/ HookError(w)
  PROVE  TypeOK'
<1> USE BlankTypes
<1> DEFINE Moved == pc' \in [Workers -> Labels] /\ loc' \in [Workers -> Locals]
<1>1. CASE Crash
  <2>1. Cardinality({w \in Workers : pc[w] \in Uncounted}) \in Nat
    BY InFlightFinite DEF InFlight
  <2>2. lost' \in Nat /\ faults' \in Nat BY <1>1, <2>1 DEF Crash, TypeOK
  <2>3. Moved BY <1>1 DEF Crash, Labels
  <2> QED BY <1>1, <2>2, <2>3 DEF Crash, TypeOK, episodeVars, firedVars
<1>2. ASSUME NEW w \in Workers, DbError(w) PROVE TypeOK'
  <2>1. Moved BY <1>2, FinishType DEF DbError
  <2>2. lost' \in Nat /\ faults' \in Nat BY <1>2 DEF DbError, TypeOK
  <2> QED BY <1>2, <2>1, <2>2 DEF DbError, TypeOK, episodeVars, firedVars
<1>3. ASSUME NEW w \in Workers, HookError(w) PROVE TypeOK'
  <2>1. PICK queue \in SUBSET Events : NextEvent(w, queue)
    <3>1. loc[w].queue \in SUBSET Events BY DEF TypeOK, Locals
    <3> QED BY <1>3, <3>1 DEF HookError
  <2>2. [Blank EXCEPT !.queue = queue] \in Locals BY DEF Locals
  <2>3. "hook_count" \in Labels BY DEF Labels, HookLabels
  <2>4. Moved BY <2>1, <2>2, <2>3, GotoType, FinishType DEF NextEvent
  <2>5. faults' \in Nat BY <1>3 DEF HookError, TypeOK
  <2> QED BY <1>3, <2>4, <2>5 DEF HookError, TypeOK, episodeVars, firedVars
<1> QED BY <1>1, <1>2, <1>3

LEMMA TypeStep == TypeOK /\ [Next]_vars => TypeOK'
<1> SUFFICES ASSUME TypeOK, [Next]_vars PROVE TypeOK' OBVIOUS
<1>1. CASE UNCHANGED vars
  BY <1>1 DEF TypeOK, vars, episodeVars, firedVars, auxVars
<1>2. CASE Next BY <1>2, StartType, StepType, FaultType DEF Next
<1> QED BY <1>1, <1>2

\* Every table, counter and local of every reachable state is well typed,
\* whatever requests, notifications and restarts interleave: no firing loop,
\* however late, writes a mark off the grid or a pattern that is not a line.
THEOREM TypeCorrect == Spec => []TypeOK
<1>1. Init => TypeOK BY BlankTypes DEF Init, TypeOK, Labels
<1> QED BY <1>1, TypeStep, PTL DEF Spec

(***************************************************************************)
(* Fruiting is final                                                       *)
(***************************************************************************)

FruitedKept == \A u \in Holders : cards[u].status = "fruited" => cards'[u].status = "fruited"

\* The columns a firing loop and a mint write leave the status alone.
LEMMA StatusKept ==
  ASSUME NEW card \in Card, NEW m, NEW p, NEW r
  PROVE  /\ [card EXCEPT !.marked = m, !.patterns = p].status = card.status
         /\ [card EXCEPT !.branch = r].status = card.status
BY DEF Card

LEMMA MarkCardKeepsFruited ==
  ASSUME TypeOK, NEW w, NEW marking, NEW done, MarkCard(w, marking, done)
  PROVE  FruitedKept
<1>1. PICK u, m, p : cards' = [cards EXCEPT ![u].marked = m, ![u].patterns = p]
  BY DEF MarkCard
<1>2. \A v \in Users : \/ cards'[v] = cards[v]
                       \/ cards'[v] = [cards[v] EXCEPT !.marked = m, !.patterns = p]
  BY <1>1 DEF TypeOK
<1>3. ASSUME NEW v \in Users PROVE cards'[v].status = cards[v].status
  <2>1. cards[v] \in Card BY DEF TypeOK
  <2>2. [cards[v] EXCEPT !.marked = m, !.patterns = p].status = cards[v].status
    BY <2>1, StatusKept
  <2> QED BY <1>2, <2>2
<1> QED BY <1>3 DEF FruitedKept, Holders

\* The steps that write cards; the others leave the table alone.
LEMMA CardWriters ==
  ASSUME NEW w \in Workers, Start(w) \/ Step(w) \/ DbError(w) \/ HookError(w)
  PROVE  \/ UNCHANGED cards
         \/ MintCreate(w) \/ MintStoreBranch(w) \/ FireCard(w) \/ HookCard(w)
         \/ EndFruit(w) \/ EndSweep(w)
<1>1. CASE Start(w)
  BY <1>1 DEF Start, LaunchRead, EndRead, MintRead, FireStart, HookStart
<1>2. CASE Step(w)
  BY <1>2 DEF Step, LaunchRoot, LaunchSave, MintReadRoot, MintCheckExisting, MintBranch,
              MintCount, FireRead, FireLog, FireCount, HookCount, HookRead, HookLog,
              ReadCards, EndRoot, EndSave, EndReadCards, EndBatch
<1>3. CASE DbError(w) \/ HookError(w) BY <1>3 DEF DbError, HookError
<1> QED BY <1>1, <1>2, <1>3

LEMMA FruitedStep == TypeOK /\ Next => FruitedKept
<1> SUFFICES ASSUME TypeOK, Next PROVE FruitedKept OBVIOUS
<1>1. CASE UNCHANGED cards BY <1>1 DEF FruitedKept
<1>2. CASE Crash BY <1>1, <1>2 DEF Crash
<1>3. ASSUME NEW w \in Workers, MintCreate(w) PROVE FruitedKept
  <2> DEFINE u == loc[w].user
  <2>1. CASE UNCHANGED cards BY <1>1, <2>1
  <2>2. ASSUME u \notin Holders, NEW row, cards' = [cards EXCEPT ![u] = row]
        PROVE  FruitedKept
    <3> HIDE DEF u
    <3> QED BY <2>2 DEF FruitedKept, Holders, TypeOK
  <2> QED BY <1>3, <2>1, <2>2 DEF MintCreate
<1>4. ASSUME NEW w \in Workers, MintStoreBranch(w) PROVE FruitedKept
  <2> DEFINE u == loc[w].user
             r == loc[w].root
  <2>1. cards' = cards \/ cards' = [cards EXCEPT ![u].branch = r]
    BY <1>4 DEF MintStoreBranch
  <2> HIDE DEF u, r
  <2>2. \A v \in Users : \/ cards'[v] = cards[v]
                         \/ cards'[v] = [cards[v] EXCEPT !.branch = r]
    BY <2>1 DEF TypeOK
  <2>3. ASSUME NEW v \in Users PROVE cards'[v].status = cards[v].status
    <3>1. cards[v] \in Card BY DEF TypeOK
    <3>2. [cards[v] EXCEPT !.branch = r].status = cards[v].status BY <3>1, StatusKept
    <3> QED BY <2>2, <3>2
  <2> QED BY <2>3 DEF FruitedKept, Holders
<1>5. ASSUME NEW w \in Workers, FireCard(w) \/ HookCard(w) PROVE FruitedKept
  BY <1>5, MarkCardKeepsFruited DEF FireCard, HookCard
<1>6. ASSUME NEW w \in Workers, EndFruit(w) PROVE FruitedKept
  <2>1. CASE UNCHANGED cards BY <1>1, <2>1
  <2>2. ASSUME NEW u \in loc[w].batch,
               cards' = [cards EXCEPT ![u] =
                           [Fruited(cards[u]) EXCEPT !.fruit = {loc[w].seen[u]}]]
        PROVE  FruitedKept
    <3> DEFINE row == [Fruited(cards[u]) EXCEPT !.fruit = {loc[w].seen[u]}]
    <3>1. u \in Users BY DEF TypeOK, Locals
    <3>2. row.status = "fruited" BY <3>1 DEF TypeOK, Fruited, Card
    <3>3. cards' = [cards EXCEPT ![u] = row] BY <2>2
    <3> HIDE DEF row
    <3> QED BY <3>1, <3>2, <3>3 DEF FruitedKept, Holders, TypeOK
  <2> QED BY <1>6, <2>1, <2>2 DEF EndFruit
<1>7. ASSUME NEW w \in Workers, EndSweep(w) PROVE FruitedKept
  BY <1>7 DEF EndSweep, FruitedKept, Holders, Active
<1> QED BY <1>1, <1>2, <1>3, <1>4, <1>5, <1>6, <1>7, CardWriters DEF Next

\* No write that follows the end of an episode, in particular none of a firing
\* loop that read the card while it was active (episodes.ts:778,
\* webhooks.ts:422), makes a fruited card active again.
THEOREM FruitIsFinal == Spec => FruitedStays
<1>1. TypeOK /\ [Next]_vars => [FruitedKept]_cards
  BY FruitedStep DEF vars
<1>2. Spec => []TypeOK BY TypeCorrect
<1> QED BY <1>1, <1>2, PTL DEF Spec, FruitedStays, FruitedKept

(***************************************************************************)
(* The counter agrees with the cards, and the cap is overrun by less than  *)
(* the number of viewers                                                   *)
(***************************************************************************)

IInv == TypeOK /\ Accounting

WorkerOK(w) ==
  /\ pc[w] \in MintLabels => w \in Viewers /\ loc[w].user \in Users
  /\ pc[w] \in MintLabels \ {"mint_root"} => w \in Passed
  /\ loc[w].todo \cup loc[w].batch \subseteq Holders

BelowCap ==
  MaxCards # 0 =>
    cardsMinted + Cardinality(Passed) < MaxCards + Cardinality(Viewers)

\* A step of worker w that neither creates nor counts a card, nor admits a mint
\* request: all steps but five.
Advances(w) ==
  /\ Holders' = Holders
  /\ UNCHANGED <<cardsMinted, lost>>
  /\ \E label, l :
       /\ Goto(w, label, l)
       /\ l.todo \cup l.batch \subseteq Holders
       /\ label \in Uncounted <=> pc[w] \in Uncounted
       /\ label \in MintLabels => /\ pc[w] \in MintLabels
                                  /\ l.user = loc[w].user
                                  /\ l.minted = loc[w].minted
                                  /\ ~SoldOut(l.minted)

LEMMA Unfold == IInv <=> TypeOK /\ CountAgrees /\ (\A w \in Workers : WorkerOK(w)) /\ BelowCap
BY DEF IInv, Accounting, WorkerOK, BelowCap

\* What a move of one worker does to the sets that are counted.
LEMMA SetsMove ==
  ASSUME TypeOK, NEW w \in Workers, NEW label, NEW l, Goto(w, label, l)
  PROVE  /\ \A labels : InFlight(labels)' = IF label \in labels THEN InFlight(labels) \cup {w}
                                                               ELSE InFlight(labels) \ {w}
         /\ Passed' = IF label \in MintLabels /\ ~SoldOut(l.minted)
                      THEN Passed \cup {w} ELSE Passed \ {w}
BY DEF TypeOK, Goto, InFlight, Passed, SoldOut

\* The requests that passed the cap check are viewers' and finitely many.
LEMMA PassedFinite ==
  ASSUME IInv
  PROVE  /\ IsFiniteSet(Viewers) /\ Cardinality(Viewers) \in Nat
         /\ IsFiniteSet(Passed) /\ Cardinality(Passed) \in Nat
         /\ Passed \subseteq Viewers
         /\ Cardinality(Passed) <= Cardinality(Viewers)
<1>1. Viewers \subseteq Workers /\ IsFiniteSet(Workers)
  BY FiniteAssumption DEF Workers
<1>2. Passed \subseteq Viewers BY Unfold DEF Passed, WorkerOK, InFlight
<1> QED BY <1>1, <1>2, FS_Subset, FS_CardinalityType

LEMMA HoldersFinite ==
  ASSUME TypeOK PROVE IsFiniteSet(Holders) /\ Cardinality(Holders) \in Nat
BY FiniteAssumption, FS_Subset, FS_CardinalityType DEF Holders

\* Holders depend on the status of the rows only.
LEMMA HoldersSame ==
  ASSUME \A u \in Users : (cards'[u].status = "none") <=> (cards[u].status = "none")
  PROVE  Holders' = Holders
BY DEF Holders

\* Such a step keeps the accounting.
LEMMA AdvancesKeeps ==
  ASSUME IInv, NEW w \in Workers, Advances(w)
  PROVE  CountAgrees' /\ (\A v \in Workers : WorkerOK(v)') /\ BelowCap'
<1>0. TypeOK /\ CountAgrees /\ (\A v \in Workers : WorkerOK(v)) /\ BelowCap BY Unfold
<1>1. PICK label, l :
        /\ Goto(w, label, l)
        /\ l.todo \cup l.batch \subseteq Holders
        /\ label \in Uncounted <=> pc[w] \in Uncounted
        /\ label \in MintLabels => /\ pc[w] \in MintLabels
                                   /\ l.user = loc[w].user
                                   /\ l.minted = loc[w].minted
                                   /\ ~SoldOut(l.minted)
  BY DEF Advances
<1>2. /\ pc' = [pc EXCEPT ![w] = label] /\ loc' = [loc EXCEPT ![w] = l]
      /\ pc \in [Workers -> Labels] /\ loc \in [Workers -> Locals]
  BY <1>0, <1>1 DEF Goto, TypeOK
<1>3. CountAgrees'
  <2>1. InFlight(Uncounted)' = InFlight(Uncounted)
    BY <1>1, <1>2 DEF InFlight
  <2> QED BY <1>0, <2>1 DEF CountAgrees, Advances
<1>4. ASSUME NEW v \in Workers PROVE WorkerOK(v)'
  <2>1. Passed' = IF label \in MintLabels /\ ~SoldOut(l.minted)
                  THEN Passed \cup {w} ELSE Passed \ {w}
    BY <1>0, <1>1, SetsMove
  <2>2. CASE v = w BY <1>0, <1>1, <1>2, <2>1, <2>2 DEF WorkerOK, Advances
  <2>3. CASE v # w
    <3>1. pc'[v] = pc[v] /\ loc'[v] = loc[v] BY <1>2, <2>3
    <3> QED BY <1>0, <2>1, <2>3, <3>1 DEF WorkerOK, Advances
  <2> QED BY <2>2, <2>3
<1>5. BelowCap'
  <2>1. Passed' \subseteq Passed
    BY <1>0, <1>1, <1>2 DEF Passed, InFlight, SoldOut
  <2>2. Cardinality(Passed') <= Cardinality(Passed) /\ Cardinality(Passed') \in Nat
    BY <2>1, PassedFinite, FS_Subset, FS_CardinalityType
  <2> QED BY <1>0, <2>2, PassedFinite, ConstantsAssumption DEF BelowCap, Advances, TypeOK
<1> QED BY <1>3, <1>4, <1>5

\* Blank, where a request starts and ends, reads and writes no card.
LEMMA BlankReads == Blank.todo = {} /\ Blank.batch = {}
BY DEF Blank

LEMMA FinishAdvances ==
  ASSUME TypeOK, NEW w \in Workers, Finish(w), pc[w] \notin Uncounted,
         Holders' = Holders, UNCHANGED <<cardsMinted, lost>>
  PROVE  Advances(w)
BY BlankReads DEF Finish, Advances, Uncounted, MintLabels

\* A worker that goes on outside the mint handler.
LEMMA ElsewhereAdvances ==
  ASSUME NEW w \in Workers, NEW label, NEW l, Goto(w, label, l),
         pc[w] \notin MintLabels, label \notin MintLabels,
         l.todo \cup l.batch \subseteq Holders,
         Holders' = Holders, UNCHANGED <<cardsMinted, lost>>
  PROVE  Advances(w)
BY DEF Advances, Uncounted, MintLabels

\* A mint request that goes on.
LEMMA MintAdvancesTo ==
  ASSUME NEW w \in Workers, NEW label, NEW l, Goto(w, label, l),
         pc[w] \in MintLabels, label \in Uncounted <=> pc[w] \in Uncounted,
         l.todo \cup l.batch \subseteq Holders,
         l.user = loc[w].user, l.minted = loc[w].minted, ~SoldOut(l.minted),
         Holders' = Holders, UNCHANGED <<cardsMinted, lost>>
  PROVE  Advances(w)
BY DEF Advances

\* The requests that start something, mints aside.
LEMMA StartAdvances ==
  ASSUME IInv, NEW w \in Workers,
         \/ LaunchRead(w) \/ EndRead(w)
         \/ \E e \in Events : FireStart(w, e)
         \/ \E E \in SUBSET Events : HookStart(w, E)
  PROVE  Advances(w)
<1>1. /\ Holders' = Holders
      /\ UNCHANGED <<cardsMinted, lost>>
  BY DEF LaunchRead, EndRead, FireStart, HookStart, Holders, episodeVars, auxVars
<1>2. pc[w] \notin MintLabels
  BY DEF LaunchRead, EndRead, FireStart, HookStart, Begin, MintLabels
<1>3. PICK label, l : /\ Goto(w, label, l) /\ label \notin MintLabels
                      /\ l.todo = {} /\ l.batch = {}
  <2>1. CASE LaunchRead(w)
    BY <2>1, BlankReads DEF LaunchRead, Begin, Goto, MintLabels
  <2>2. CASE EndRead(w) BY <2>2, BlankReads DEF EndRead, Begin, Goto, MintLabels
  <2>3. ASSUME NEW e \in Events, FireStart(w, e)
        PROVE  \E label, l : /\ Goto(w, label, l) /\ label \notin MintLabels
                             /\ l.todo = {} /\ l.batch = {}
    <3> DEFINE l == [Blank EXCEPT !.event = e]
    <3>1. l.todo = {} /\ l.batch = {} BY DEF Blank
    <3>2. Goto(w, "fire_read", l) /\ "fire_read" \notin MintLabels
      BY <2>3 DEF FireStart, Begin, Goto, MintLabels
    <3> QED BY <3>1, <3>2
  <2>4. ASSUME NEW E \in SUBSET Events, HookStart(w, E)
        PROVE  \E label, l : /\ Goto(w, label, l) /\ label \notin MintLabels
                             /\ l.todo = {} /\ l.batch = {}
    <3> DEFINE l == [Blank EXCEPT !.queue = E]
    <3>1. l.todo = {} /\ l.batch = {} BY DEF Blank
    <3>2. Goto(w, "hook_count", l) /\ "hook_count" \notin MintLabels
      BY <2>4 DEF HookStart, Begin, Goto, MintLabels
    <3> QED BY <3>1, <3>2
  <2> QED BY <2>1, <2>2, <2>3, <2>4
<1> QED BY <1>1, <1>2, <1>3, ElsewhereAdvances

\* Launches, and the steps of a mint that neither create nor count the card.
LEMMA MintAdvances ==
  ASSUME IInv, NEW w \in Workers,
         \/ LaunchRoot(w) \/ LaunchSave(w) \/ MintReadRoot(w) \/ MintCheckExisting(w)
         \/ MintBranch(w) \/ MintStoreBranch(w)
  PROVE  Advances(w)
<1>0. TypeOK /\ WorkerOK(w) /\ loc[w] \in Locals BY Unfold DEF TypeOK
<1>1. CASE LaunchRoot(w)
  <2>1. PICK l : Goto(w, "launch_save", l) /\ l.todo = {} /\ l.batch = {}
    BY <1>1 DEF LaunchRoot, Blank
  <2>2. Holders' = Holders /\ UNCHANGED <<cardsMinted, lost>>
    BY <1>1 DEF LaunchRoot, Holders, auxVars
  <2> QED BY <1>1, <2>1, <2>2, ElsewhereAdvances DEF LaunchRoot, MintLabels
<1>2. CASE LaunchSave(w)
  BY <1>0, <1>2, FinishAdvances DEF LaunchSave, Uncounted, Holders, auxVars
<1>3. CASE MintReadRoot(w)
  <2>1. Holders' = Holders /\ UNCHANGED <<cardsMinted, lost>>
    BY <1>3 DEF MintReadRoot, Holders, episodeVars, auxVars
  <2>2. CASE Finish(w)
    BY <1>0, <1>3, <2>1, <2>2, FinishAdvances DEF MintReadRoot, Uncounted
  <2>3. CASE /\ ~SoldOut(loc[w].minted)
             /\ Goto(w, "mint_exists", [loc[w] EXCEPT !.root = rootTokenId])
    <3> DEFINE l == [loc[w] EXCEPT !.root = rootTokenId]
    <3>1. /\ l.todo = loc[w].todo /\ l.batch = loc[w].batch
          /\ l.user = loc[w].user /\ l.minted = loc[w].minted
      BY <1>0 DEF Locals
    <3>2. Goto(w, "mint_exists", l) BY <2>3
    <3> HIDE DEF l
    <3>3. pc[w] = "mint_root" BY <1>3 DEF MintReadRoot
    <3>4. l.todo \cup l.batch \subseteq Holders BY <1>0, <3>1 DEF WorkerOK
    <3> QED BY <2>1, <2>3, <3>1, <3>2, <3>3, <3>4, MintAdvancesTo
            DEF Uncounted, MintLabels
  <2> QED BY <1>3, <2>2, <2>3 DEF MintReadRoot
<1>4. CASE MintCheckExisting(w)
  <2>1. Holders' = Holders /\ UNCHANGED <<cardsMinted, lost>>
    BY <1>4 DEF MintCheckExisting, Holders, episodeVars, auxVars
  <2>2. CASE Finish(w)
    BY <1>0, <1>4, <2>1, <2>2, FinishAdvances DEF MintCheckExisting, Uncounted
  <2>3. CASE Goto(w, "mint_create", loc[w])
    BY <1>0, <1>4, <2>1, <2>3
    DEF Advances, MintCheckExisting, WorkerOK, Uncounted, MintLabels, Passed
  <2> QED BY <1>4, <2>2, <2>3 DEF MintCheckExisting
<1>5. CASE MintBranch(w)
  <2>1. Holders' = Holders /\ UNCHANGED <<cardsMinted, lost>>
    BY <1>5 DEF MintBranch, Holders, episodeVars, auxVars
  <2> QED BY <1>0, <1>5, <2>1
          DEF Advances, MintBranch, WorkerOK, Uncounted, MintLabels, Passed
<1>6. CASE MintStoreBranch(w)
  <2>1. \A u \in Users : cards'[u].status = cards[u].status
    <3> DEFINE u == loc[w].user
               r == loc[w].root
    <3>1. cards' = cards \/ cards' = [cards EXCEPT ![u].branch = r]
      BY <1>6 DEF MintStoreBranch
    <3> HIDE DEF u, r
    <3>2. \A v \in Users : [cards[v] EXCEPT !.branch = r].status = cards[v].status
      BY <1>0 DEF TypeOK, Card
    <3>3. \A v \in Users : \/ cards'[v] = cards[v]
                           \/ cards'[v] = [cards[v] EXCEPT !.branch = r]
      BY <1>0, <3>1 DEF TypeOK
    <3> QED BY <3>2, <3>3
  <2>2. Holders' = Holders BY <2>1, HoldersSame
  <2>3. UNCHANGED <<cardsMinted, lost>>
    BY <1>6 DEF MintStoreBranch, episodeVars, auxVars
  <2> QED BY <1>0, <1>6, <2>2, <2>3
          DEF Advances, MintStoreBranch, WorkerOK, Uncounted, MintLabels, Passed
<1> QED BY <1>1, <1>2, <1>3, <1>4, <1>5, <1>6

LEMMA ActiveHold == Active \subseteq Holders
BY DEF Active, Holders

\* The two halves of a firing: the loop updates rows it read, all of them
\* held, and changes neither the holders nor the counter.
LEMMA ReadCardsAdvances ==
  ASSUME IInv, NEW w \in Workers, pc[w] \notin MintLabels,
         NEW marking, marking \notin MintLabels, NEW done, done \notin MintLabels,
         ReadCards(w, marking, done)
  PROVE  Advances(w)
<1>0. TypeOK /\ WorkerOK(w) /\ loc[w] \in Locals BY Unfold DEF TypeOK
<1> DEFINE todo == {u \in Active : Unmarked(u, loc[w].event) # {}}
           seen == [u \in Users |-> cards[u].marked]
           l == [loc[w] EXCEPT !.todo = todo, !.seen = seen]
           label == IF todo = {} THEN done ELSE marking
<1>1. todo \subseteq Holders BY ActiveHold
<1>2. Goto(w, label, l) BY DEF ReadCards
<1>3. label \notin MintLabels OBVIOUS
<1>4. l.todo \cup l.batch \subseteq Holders
  <2> HIDE DEF todo, seen
  <2>1. l.todo = todo /\ l.batch = loc[w].batch BY <1>0 DEF Locals
  <2> QED BY <1>0, <1>1, <2>1 DEF WorkerOK
<1>5. Holders' = Holders /\ UNCHANGED <<cardsMinted, lost>>
  BY DEF ReadCards, Holders, episodeVars, auxVars
<1> HIDE DEF label, l
<1> QED BY <1>2, <1>3, <1>4, <1>5, ElsewhereAdvances

LEMMA MarkCardAdvances ==
  ASSUME IInv, NEW w \in Workers, pc[w] \notin MintLabels,
         NEW marking, marking \notin MintLabels, NEW done, done \notin MintLabels,
         MarkCard(w, marking, done)
  PROVE  Advances(w)
<1>0. TypeOK /\ WorkerOK(w) /\ loc[w] \in Locals BY Unfold DEF TypeOK
<1>1. PICK u \in loc[w].todo :
        LET marked == loc[w].seen[u] \cup SquaresOf(cards[u].grid, {loc[w].event})
            todo   == loc[w].todo \ {u}
        IN  /\ cards' = [cards EXCEPT ![u].marked = marked,
                                      ![u].patterns = DetectPatterns(marked)]
            /\ Goto(w, IF todo = {} THEN done ELSE marking,
                       [loc[w] EXCEPT !.todo = todo])
            /\ UNCHANGED <<episodeVars, firedVars, auxVars>>
  BY DEF MarkCard
<1> DEFINE m == loc[w].seen[u] \cup SquaresOf(cards[u].grid, {loc[w].event})
           p == DetectPatterns(m)
           todo == loc[w].todo \ {u}
           l == [loc[w] EXCEPT !.todo = todo]
           label == IF todo = {} THEN done ELSE marking
<1>2. Goto(w, label, l) /\ UNCHANGED <<cardsMinted, lost>>
  BY <1>1 DEF episodeVars, auxVars
<1>3. label \notin MintLabels OBVIOUS
<1>4. l.todo \cup l.batch \subseteq Holders
  <2>1. l.todo = todo /\ l.batch = loc[w].batch BY <1>0 DEF Locals
  <2> QED BY <1>0, <2>1 DEF WorkerOK
<1>5. cards' = [cards EXCEPT ![u].marked = m, ![u].patterns = p] BY <1>1
<1> HIDE DEF label, l, p, m
<1>6. \A v \in Users : cards'[v].status = cards[v].status
  <2>1. \A v \in Users :
          \/ cards'[v] = cards[v]
          \/ cards'[v] = [cards[v] EXCEPT !.marked = m, !.patterns = p]
    BY <1>0, <1>5 DEF TypeOK
  <2>2. \A v \in Users :
          [cards[v] EXCEPT !.marked = m, !.patterns = p].status = cards[v].status
    BY <1>0 DEF TypeOK, Card
  <2> QED BY <2>1, <2>2
<1>7. Holders' = Holders BY <1>6, HoldersSame
<1> QED BY <1>2, <1>3, <1>4, <1>7, ElsewhereAdvances

\* The Twitch loop that goes on with its next event.
LEMMA NextEventAdvances ==
  ASSUME TypeOK, NEW w \in Workers, pc[w] \notin MintLabels,
         NEW queue, NextEvent(w, queue),
         Holders' = Holders, UNCHANGED <<cardsMinted, lost>>
  PROVE  Advances(w)
<1> DEFINE l == [Blank EXCEPT !.queue = queue]
<1>1. l.todo = {} /\ l.batch = {} BY DEF Blank
<1>2. \/ Finish(w)
      \/ Goto(w, "hook_count", l)
  BY DEF NextEvent
<1> HIDE DEF l
<1>3. CASE Finish(w)
  BY <1>3, FinishAdvances DEF MintLabels, Uncounted
<1>4. CASE Goto(w, "hook_count", l)
  <2>1. "hook_count" \notin MintLabels BY DEF MintLabels
  <2> QED BY <1>1, <1>4, <2>1, ElsewhereAdvances
<1> QED BY <1>2, <1>3, <1>4

\* The steps of the two firing paths.
LEMMA FireAdvances ==
  ASSUME IInv, NEW w \in Workers,
         \/ FireRead(w) \/ FireCard(w) \/ FireLog(w) \/ FireCount(w)
         \/ HookCount(w) \/ HookRead(w) \/ HookCard(w) \/ HookLog(w)
  PROVE  Advances(w)
<1>0. TypeOK /\ WorkerOK(w) /\ loc[w] \in Locals BY Unfold DEF TypeOK
<1>1. pc[w] \notin MintLabels
  BY DEF FireRead, FireCard, FireLog, FireCount, HookCount, HookRead, HookCard,
         HookLog, MintLabels
<1>2. {"fire_card", "fire_log", "fire_count", "hook_count", "hook_read", "hook_card",
       "hook_log"} \cap (MintLabels \cup Uncounted) = {}
  BY DEF MintLabels, Uncounted
<1>3. CASE FireRead(w) BY <1>1, <1>2, <1>3, ReadCardsAdvances DEF FireRead
<1>4. CASE HookRead(w) BY <1>1, <1>2, <1>4, ReadCardsAdvances DEF HookRead
<1>5. CASE FireCard(w) BY <1>1, <1>2, <1>5, MarkCardAdvances DEF FireCard
<1>6. CASE HookCard(w) BY <1>1, <1>2, <1>6, MarkCardAdvances DEF HookCard
<1>7. CASE FireLog(w)
  <2>1. Holders' = Holders /\ UNCHANGED <<cardsMinted, lost>>
    BY <1>7 DEF FireLog, Holders, episodeVars, auxVars
  <2> QED BY <1>0, <1>1, <1>2, <1>7, <2>1, ElsewhereAdvances DEF FireLog, WorkerOK
<1>8. CASE FireCount(w)
  <2>1. Holders' = Holders /\ UNCHANGED <<cardsMinted, lost>>
    BY <1>8 DEF FireCount, Holders, episodeVars, auxVars
  <2> QED BY <1>0, <1>8, <2>1, FinishAdvances DEF FireCount, Uncounted
<1>9. CASE HookCount(w)
  <2>1. Holders' = Holders /\ UNCHANGED <<cardsMinted, lost>>
    BY <1>9 DEF HookCount, Holders, episodeVars, auxVars
  <2>2. PICK e \in loc[w].queue :
          Goto(w, "hook_read", [loc[w] EXCEPT !.event = e, !.queue = @ \ {e}])
    BY <1>9 DEF HookCount
  <2> DEFINE l == [loc[w] EXCEPT !.event = e, !.queue = @ \ {e}]
  <2>3. l.todo = loc[w].todo /\ l.batch = loc[w].batch BY <1>0 DEF Locals
  <2>4. Goto(w, "hook_read", l) BY <2>2
  <2> HIDE DEF l
  <2> QED BY <1>0, <1>1, <1>2, <2>1, <2>3, <2>4, ElsewhereAdvances DEF WorkerOK
<1>10. CASE HookLog(w)
  <2>1. Holders' = Holders /\ UNCHANGED <<cardsMinted, lost>>
    BY <1>10 DEF HookLog, Holders, episodeVars, auxVars
  <2>2. NextEvent(w, loc[w].queue) BY <1>10 DEF HookLog
  <2> QED BY <1>0, <1>1, <2>1, <2>2, NextEventAdvances
<1> QED BY <1>3, <1>4, <1>5, <1>6, <1>7, <1>8, <1>9, <1>10

\* The steps of the end: it fruits only rows it read, so none appears.
LEMMA EndAdvances ==
  ASSUME IInv, NEW w \in Workers,
         \/ EndRoot(w) \/ EndSave(w) \/ EndReadCards(w) \/ EndBatch(w)
         \/ EndFruit(w) \/ EndSweep(w)
  PROVE  Advances(w)
<1>0. TypeOK /\ WorkerOK(w) /\ loc[w] \in Locals BY Unfold DEF TypeOK
<1>1. pc[w] \in EndLabels /\ pc[w] \notin MintLabels
  BY DEF EndRoot, EndSave, EndReadCards, EndBatch, EndFruit, EndSweep, EndLabels,
         MintLabels
<1>2. EndLabels \cap MintLabels = {} BY DEF EndLabels, MintLabels
<1>3. UNCHANGED <<cardsMinted, lost>>
  BY DEF EndRoot, EndSave, EndReadCards, EndBatch, EndFruit, EndSweep, episodeVars,
         auxVars
<1>4. CASE EndRoot(w)
  <2>1. Holders' = Holders BY <1>4 DEF EndRoot, Holders
  <2>2. Goto(w, "end_save", loc[w]) /\ "end_save" \in EndLabels
    BY <1>4 DEF EndRoot, EndLabels
  <2> QED BY <1>0, <1>1, <1>2, <1>3, <2>1, <2>2, ElsewhereAdvances DEF WorkerOK
<1>5. CASE EndSave(w)
  <2>1. Holders' = Holders BY <1>5 DEF EndSave, Holders
  <2>2. Goto(w, "end_read", loc[w]) /\ "end_read" \in EndLabels
    BY <1>5 DEF EndSave, EndLabels
  <2> QED BY <1>0, <1>1, <1>2, <1>3, <2>1, <2>2, ElsewhereAdvances DEF WorkerOK
<1>6. CASE EndReadCards(w)
  <2> DEFINE todo == {u \in Active : ChainConfigured /\ cards[u].branch # 0}
             seen == [u \in Users |-> cards[u].marked]
             l == [loc[w] EXCEPT !.todo = todo, !.seen = seen]
             label == IF todo = {} THEN "end_sweep" ELSE "end_batch"
  <2>1. Holders' = Holders BY <1>6 DEF EndReadCards, Holders
  <2>2. todo \subseteq Holders BY ActiveHold
  <2>3. label \in EndLabels BY DEF EndLabels
  <2>4. Goto(w, label, l) BY <1>6 DEF EndReadCards
  <2> HIDE DEF todo, seen, label
  <2>5. l.todo = todo /\ l.batch = loc[w].batch BY <1>0 DEF Locals
  <2> HIDE DEF l
  <2>6. l.todo \cup l.batch \subseteq Holders BY <1>0, <2>2, <2>5 DEF WorkerOK
  <2> QED BY <1>1, <1>2, <1>3, <2>1, <2>3, <2>4, <2>6, ElsewhereAdvances
<1>7. CASE EndBatch(w)
  <2>1. Holders' = Holders BY <1>7 DEF EndBatch, Holders
  <2>2. {"end_fruit", "end_sweep"} \subseteq EndLabels BY DEF EndLabels
  <2>3. CASE Goto(w, "end_sweep", loc[w])
    BY <1>0, <1>1, <1>2, <1>3, <2>1, <2>2, <2>3, ElsewhereAdvances DEF WorkerOK
  <2>4. ASSUME NEW B \in BatchesOf(loc[w].todo),
               Goto(w, "end_fruit", [loc[w] EXCEPT !.batch = B, !.todo = @ \ B])
        PROVE  Advances(w)
    <3> DEFINE l == [loc[w] EXCEPT !.batch = B, !.todo = @ \ B]
    <3>1. B \subseteq loc[w].todo BY DEF BatchesOf
    <3>2. l.batch = B /\ l.todo \subseteq loc[w].todo BY <1>0 DEF Locals
    <3>3. Goto(w, "end_fruit", l) BY <2>4
    <3> HIDE DEF l
    <3>4. l.todo \cup l.batch \subseteq Holders BY <1>0, <3>1, <3>2 DEF WorkerOK
    <3> QED BY <1>1, <1>2, <1>3, <2>1, <2>2, <3>3, <3>4, ElsewhereAdvances
  <2> QED BY <1>7, <2>3, <2>4 DEF EndBatch
<1>8. CASE EndFruit(w)
  <2>1. {"end_fruit", "end_batch", "end_sweep"} \subseteq EndLabels BY DEF EndLabels
  <2>2. CASE Goto(w, "end_sweep", loc[w]) /\ UNCHANGED cards
    <3>1. Holders' = Holders BY <2>2 DEF Holders
    <3> QED BY <1>0, <1>1, <1>2, <1>3, <2>1, <2>2, <3>1, ElsewhereAdvances DEF WorkerOK
  <2>3. ASSUME NEW u \in loc[w].batch,
               cards' = [cards EXCEPT ![u] = [Fruited(@) EXCEPT !.fruit = {loc[w].seen[u]}]],
               NEW label \in {"end_fruit", "end_batch", "end_sweep"},
               Goto(w, label, [loc[w] EXCEPT !.batch = loc[w].batch \ {u}])
        PROVE  Advances(w)
    <3> DEFINE l == [loc[w] EXCEPT !.batch = loc[w].batch \ {u}]
               row == [Fruited(cards[u]) EXCEPT !.fruit = {loc[w].seen[u]}]
    <3>1. u \in Holders /\ u \in Users BY <1>0 DEF WorkerOK, Holders
    <3>2. cards[u] \in Card BY <1>0, <3>1 DEF TypeOK
    <3>3. row.status = "fruited" BY <3>2 DEF Fruited, Card
    <3>4. cards' = [cards EXCEPT ![u] = row] BY <2>3
    <3> HIDE DEF row
    <3>5. Holders' = Holders BY <1>0, <3>1, <3>3, <3>4 DEF Holders, TypeOK
    <3>6. l.todo = loc[w].todo /\ l.batch \subseteq loc[w].batch BY <1>0 DEF Locals
    <3>7. Goto(w, label, l) BY <2>3
    <3> HIDE DEF l
    <3>8. l.todo \cup l.batch \subseteq Holders BY <1>0, <3>6 DEF WorkerOK
    <3> QED BY <1>1, <1>2, <1>3, <2>1, <3>5, <3>7, <3>8, ElsewhereAdvances
  <2> QED BY <1>8, <2>2, <2>3 DEF EndFruit
<1>9. CASE EndSweep(w)
  <2>1. \A u \in Users : Fruited(cards[u]).status = "fruited"
    BY <1>0 DEF Fruited, TypeOK, Card
  <2>2. \A u \in Users : (cards'[u].status = "none") <=> (cards[u].status = "none")
    BY <1>9, <2>1 DEF EndSweep, Active
  <2>3. Holders' = Holders BY <2>2, HoldersSame
  <2> QED BY <1>0, <1>1, <1>3, <1>9, <2>3, FinishAdvances
          DEF EndSweep, MintLabels, Uncounted
<1> QED BY <1>4, <1>5, <1>6, <1>7, <1>8, <1>9

\* A request cut short by its own error, mints in the middle of their writes
\* aside: the loop of a Twitch notification goes on.
LEMMA HookErrorAdvances ==
  ASSUME IInv, NEW w \in Workers, HookError(w)
  PROVE  Advances(w)
<1>1. TypeOK BY Unfold
<1>2. pc[w] \notin MintLabels BY DEF HookError, HookLabels, MintLabels
<1>3. Holders' = Holders /\ UNCHANGED <<cardsMinted, lost>>
  BY DEF HookError, Holders, episodeVars
<1>4. \E queue : NextEvent(w, queue) BY DEF HookError
<1> QED BY <1>1, <1>2, <1>3, <1>4, NextEventAdvances

\* The other workers when one moves and no card disappears.
LEMMA OthersOK ==
  ASSUME IInv, NEW w \in Workers, NEW label, NEW l, Goto(w, label, l),
         Holders \subseteq Holders', NEW v \in Workers \ {w}
  PROVE  WorkerOK(v)'
<1>0. TypeOK /\ WorkerOK(v) BY Unfold
<1>1. pc'[v] = pc[v] /\ loc'[v] = loc[v] BY <1>0 DEF Goto, TypeOK
<1>2. v \in Passed => v \in Passed' BY <1>1 DEF Passed, InFlight, SoldOut
<1> QED BY <1>0, <1>1, <1>2 DEF WorkerOK

\* POST /cards/mint reads a counter below the cap, or is going to be rejected.
LEMMA MintReadKeeps ==
  ASSUME IInv, NEW w \in Workers, NEW u \in Users, MintRead(w, u)
  PROVE  CountAgrees' /\ (\A v \in Workers : WorkerOK(v)') /\ BelowCap'
<1>0. TypeOK /\ CountAgrees /\ WorkerOK(w) /\ BelowCap BY Unfold
<1> DEFINE l == [Blank EXCEPT !.user = u, !.status = status,
                              !.minted = cardsMinted, !.fired = Fired]
<1>1. /\ w \in Viewers /\ pc[w] = "idle"
      /\ Goto(w, "mint_root", l)
      /\ UNCHANGED <<cards, cardsMinted, lost>>
  BY DEF MintRead, Begin, Goto, episodeVars, auxVars
<1>2. /\ l.user = u /\ l.minted = cardsMinted
      /\ l.todo = {} /\ l.batch = {}
  BY DEF Blank
<1> HIDE DEF l
<1>3. Holders' = Holders BY <1>1 DEF Holders
<1>4. pc'[w] = "mint_root" /\ loc'[w] = l BY <1>0, <1>1 DEF Goto, TypeOK
<1>5. Passed' = IF SoldOut(cardsMinted) THEN Passed \ {w} ELSE Passed \cup {w}
  BY <1>0, <1>1, <1>2, SetsMove DEF MintLabels
<1>6. CountAgrees'
  <2>1. InFlight(Uncounted)' = InFlight(Uncounted) \ {w}
    BY <1>0, <1>1, SetsMove DEF Uncounted
  <2>2. InFlight(Uncounted)' = InFlight(Uncounted)
    BY <1>1, <2>1 DEF InFlight, Uncounted
  <2> QED BY <1>0, <1>1, <1>3, <2>2 DEF CountAgrees
<1>7. WorkerOK(w)' BY <1>1, <1>2, <1>4 DEF WorkerOK, MintLabels
<1>8. BelowCap'
  <2>1. CASE SoldOut(cardsMinted)
    <3>1. Passed' = Passed BY <1>1, <1>5, <2>1 DEF Passed, InFlight, MintLabels
    <3> QED BY <1>0, <1>1, <3>1 DEF BelowCap
  <2>2. CASE ~SoldOut(cardsMinted)
    <3>1. Passed' \subseteq Viewers BY <1>1, <1>5, <2>2, PassedFinite
    <3>2. Cardinality(Passed') <= Cardinality(Viewers) /\ Cardinality(Passed') \in Nat
      BY <3>1, PassedFinite, FS_Subset, FS_CardinalityType
    <3> QED BY <1>0, <1>1, <2>2, <3>2, PassedFinite, ConstantsAssumption
            DEF BelowCap, SoldOut, TypeOK
  <2> QED BY <2>1, <2>2
<1> QED BY <1>1, <1>3, <1>6, <1>7, <1>8, OthersOK

\* card.create: the card waits for its increment.
LEMMA MintCreateKeeps ==
  ASSUME IInv, NEW w \in Workers, MintCreate(w)
  PROVE  CountAgrees' /\ (\A v \in Workers : WorkerOK(v)') /\ BelowCap'
<1>0. TypeOK /\ CountAgrees /\ WorkerOK(w) /\ BelowCap BY Unfold
<1> DEFINE u == loc[w].user
<1>1. /\ pc[w] = "mint_create" /\ u \in Users /\ w \in Passed
      /\ UNCHANGED <<cardsMinted, lost>>
  BY <1>0 DEF MintCreate, WorkerOK, MintLabels, episodeVars, auxVars
<1>2. CASE Finish(w) /\ UNCHANGED cards
  <2>1. Holders' = Holders BY <1>2 DEF Holders
  <2>2. Advances(w) BY <1>0, <1>1, <1>2, <2>1, FinishAdvances DEF Uncounted
  <2> QED BY <2>2, AdvancesKeeps
<1>3. ASSUME u \notin Holders, NEW g,
             cards' = [cards EXCEPT ![u] = NewCard(loc[w], g)],
             NEW label \in Uncounted, Goto(w, label, loc[w])
      PROVE  CountAgrees' /\ (\A v \in Workers : WorkerOK(v)') /\ BelowCap'
  <2>1. NewCard(loc[w], g).status = "active" BY DEF NewCard, NoCard
  <2>2. Holders' = Holders \cup {u}
    <3> DEFINE row == NewCard(loc[w], g)
    <3> HIDE DEF row
    <3>1. row.status # "none" BY <2>1 DEF row
    <3>2. cards' = [cards EXCEPT ![u] = row] BY <1>3 DEF row
    <3> QED BY <1>0, <1>1, <3>1, <3>2 DEF Holders, TypeOK
  <2>3. InFlight(Uncounted)' = InFlight(Uncounted) \cup {w}
    BY <1>0, <1>3, SetsMove
  <2>4. w \notin InFlight(Uncounted) BY <1>1 DEF InFlight, Uncounted
  <2>5. Cardinality(Holders') = Cardinality(Holders) + 1
    BY <1>0, <1>3, <2>2, HoldersFinite, FS_AddElement
  <2>6. Cardinality(InFlight(Uncounted)') = Cardinality(InFlight(Uncounted)) + 1
    BY <2>3, <2>4, InFlightFinite, FS_AddElement
  <2>7. CountAgrees'
    BY <1>0, <1>1, <2>5, <2>6, InFlightFinite, HoldersFinite DEF CountAgrees, TypeOK
  <2>8. label \in MintLabels /\ ~SoldOut(loc[w].minted)
    BY <1>1 DEF Uncounted, MintLabels, Passed
  <2>9. Passed' = Passed BY <1>0, <1>1, <1>3, <2>8, SetsMove
  <2>10. pc'[w] = label /\ loc'[w] = loc[w] BY <1>0, <1>3 DEF Goto, TypeOK
  <2>11. WorkerOK(w)'
    BY <1>0, <1>1, <2>2, <2>9, <2>10 DEF WorkerOK, MintLabels
  <2>12. BelowCap' BY <1>0, <1>1, <2>9 DEF BelowCap
  <2> QED BY <1>3, <2>2, <2>7, <2>11, <2>12, OthersOK
<1>4. \/ Finish(w) /\ UNCHANGED cards
      \/ /\ u \notin Holders
         /\ \E g \in Grids : cards' = [cards EXCEPT ![u] = NewCard(loc[w], g)]
         /\ \E label \in Uncounted : Goto(w, label, loc[w])
  BY DEF MintCreate, Uncounted
<1> QED BY <1>2, <1>3, <1>4

\* The increment: one card less to count, one admitted request less.
LEMMA MintCountKeeps ==
  ASSUME IInv, NEW w \in Workers, MintCount(w)
  PROVE  CountAgrees' /\ (\A v \in Workers : WorkerOK(v)') /\ BelowCap'
<1>0. TypeOK /\ CountAgrees /\ WorkerOK(w) /\ BelowCap BY Unfold
<1>1. /\ pc[w] = "mint_count" /\ w \in Passed
      /\ Goto(w, "idle", Blank)
      /\ cardsMinted' = cardsMinted + 1 /\ UNCHANGED <<cards, lost>>
  BY <1>0 DEF MintCount, Finish, WorkerOK, MintLabels, auxVars
<1>2. Holders' = Holders BY <1>1 DEF Holders
<1>3. /\ InFlight(Uncounted)' = InFlight(Uncounted) \ {w}
      /\ Passed' = Passed \ {w}
  BY <1>0, <1>1, SetsMove DEF Uncounted, MintLabels
<1>4. w \in InFlight(Uncounted) BY <1>1 DEF InFlight, Uncounted
<1>5. Cardinality(InFlight(Uncounted)') = Cardinality(InFlight(Uncounted)) - 1
  BY <1>3, <1>4, InFlightFinite, FS_RemoveElement
<1>6. Cardinality(Passed') = Cardinality(Passed) - 1
  BY <1>1, <1>3, PassedFinite, FS_RemoveElement
<1>7. CountAgrees'
  BY <1>0, <1>1, <1>2, <1>5, InFlightFinite, HoldersFinite DEF CountAgrees, TypeOK
<1>8. BelowCap'
  BY <1>0, <1>1, <1>6, PassedFinite, ConstantsAssumption DEF BelowCap, TypeOK
<1>9. WorkerOK(w)'
  <2>1. pc'[w] = "idle" /\ loc'[w] = Blank BY <1>0, <1>1 DEF Goto, TypeOK
  <2> QED BY <2>1, BlankReads DEF WorkerOK, MintLabels
<1> QED BY <1>1, <1>2, <1>7, <1>8, <1>9, OthersOK

\* A handler that dies: what it created and did not count goes to lost.
LEMMA DbErrorKeeps ==
  ASSUME IInv, NEW w \in Workers, DbError(w)
  PROVE  CountAgrees' /\ (\A v \in Workers : WorkerOK(v)') /\ BelowCap'
<1>0. TypeOK /\ CountAgrees /\ BelowCap BY Unfold
<1>1. /\ Goto(w, "idle", Blank) /\ UNCHANGED <<cards, cardsMinted>>
      /\ lost' = lost + (IF pc[w] \in Uncounted THEN 1 ELSE 0)
  BY DEF DbError, Finish, episodeVars
<1>2. Holders' = Holders BY <1>1 DEF Holders
<1>3. /\ InFlight(Uncounted)' = InFlight(Uncounted) \ {w}
      /\ Passed' = Passed \ {w}
  BY <1>0, <1>1, SetsMove DEF Uncounted, MintLabels
<1>4. CountAgrees'
  <2>1. CASE pc[w] \in Uncounted
    <3>1. w \in InFlight(Uncounted) BY <2>1 DEF InFlight
    <3>2. Cardinality(InFlight(Uncounted)') = Cardinality(InFlight(Uncounted)) - 1
      BY <1>3, <3>1, InFlightFinite, FS_RemoveElement
    <3> QED BY <1>0, <1>1, <1>2, <2>1, <3>2, InFlightFinite, HoldersFinite
            DEF CountAgrees, TypeOK
  <2>2. CASE pc[w] \notin Uncounted
    <3>1. InFlight(Uncounted)' = InFlight(Uncounted) BY <1>3, <2>2 DEF InFlight
    <3> QED BY <1>0, <1>1, <1>2, <2>2, <3>1 DEF CountAgrees, TypeOK
  <2> QED BY <2>1, <2>2
<1>5. BelowCap'
  <2>1. Cardinality(Passed') <= Cardinality(Passed) /\ Cardinality(Passed') \in Nat
    BY <1>3, PassedFinite, FS_Subset, FS_CardinalityType
  <2> QED BY <1>0, <1>1, <2>1, PassedFinite, ConstantsAssumption DEF BelowCap, TypeOK
<1>6. WorkerOK(w)'
  <2>1. pc'[w] = "idle" /\ loc'[w] = Blank BY <1>0, <1>1 DEF Goto, TypeOK
  <2> QED BY <2>1, BlankReads DEF WorkerOK, MintLabels
<1> QED BY <1>1, <1>2, <1>4, <1>5, <1>6, OthersOK

LEMMA CrashKeeps ==
  ASSUME IInv, Crash
  PROVE  CountAgrees' /\ (\A v \in Workers : WorkerOK(v)') /\ BelowCap'
<1>0. TypeOK /\ CountAgrees /\ BelowCap BY Unfold
<1>1. /\ pc' = [v \in Workers |-> "idle"] /\ loc' = [v \in Workers |-> Blank]
      /\ UNCHANGED <<cards, cardsMinted>>
      /\ lost' = lost + Cardinality(InFlight(Uncounted))
  BY DEF Crash, InFlight, episodeVars
<1>2. Holders' = Holders BY <1>1 DEF Holders
<1>3. InFlight(Uncounted)' = {} /\ Passed' = {}
  BY <1>1 DEF InFlight, Passed, Uncounted, MintLabels
<1>4. Cardinality({}) = 0 BY FS_EmptySet
<1>5. CountAgrees'
  BY <1>0, <1>1, <1>2, <1>3, <1>4, InFlightFinite, HoldersFinite DEF CountAgrees, TypeOK
<1>6. BelowCap'
  BY <1>0, <1>1, <1>3, <1>4, PassedFinite, ConstantsAssumption DEF BelowCap, TypeOK
<1>7. ASSUME NEW v \in Workers PROVE WorkerOK(v)'
  BY <1>1, BlankReads DEF WorkerOK, MintLabels
<1> QED BY <1>5, <1>6, <1>7

LEMMA InvInit == Init => IInv
<1> SUFFICES ASSUME Init PROVE IInv OBVIOUS
<1>1. TypeOK BY BlankTypes DEF Init, TypeOK, Labels
<1>2. Holders = {} BY DEF Init, Holders, NoCard
<1>3. InFlight(Uncounted) = {} /\ Passed = {}
  BY DEF Init, InFlight, Passed, Uncounted, MintLabels
<1>4. Cardinality({}) = 0 BY FS_EmptySet
<1>5. CountAgrees BY <1>2, <1>3, <1>4 DEF Init, CountAgrees
<1>6. \A w \in Workers : WorkerOK(w) BY BlankReads DEF Init, WorkerOK, MintLabels
<1>7. BelowCap
  <2>1. Cardinality(Viewers) \in Nat
    BY FiniteAssumption, FS_Subset, FS_CardinalityType
  <2> QED BY <1>3, <1>4, <2>1, ConstantsAssumption DEF Init, BelowCap
<1> QED BY <1>1, <1>5, <1>6, <1>7, Unfold

LEMMA InvStep == IInv /\ [Next]_vars => IInv'
<1> SUFFICES ASSUME IInv, [Next]_vars PROVE IInv' OBVIOUS
<1>1. TypeOK' BY TypeStep, Unfold
<1>2. CountAgrees' /\ (\A v \in Workers : WorkerOK(v)') /\ BelowCap'
  <2>1. CASE UNCHANGED vars
    <3>1. /\ UNCHANGED <<Holders, Passed, cardsMinted, lost, pc, loc>>
          /\ InFlight(Uncounted)' = InFlight(Uncounted)
      BY <2>1 DEF vars, episodeVars, auxVars, Holders, Passed, InFlight, SoldOut
    <3> QED BY <3>1, Unfold DEF CountAgrees, WorkerOK, BelowCap
  <2>2. CASE Crash BY <2>2, CrashKeeps
  <2>3. ASSUME NEW w \in Workers, Start(w) \/ Step(w) \/ DbError(w) \/ HookError(w)
        PROVE  CountAgrees' /\ (\A v \in Workers : WorkerOK(v)') /\ BelowCap'
    <3>1. CASE Start(w)
      <4>1. ASSUME NEW u \in Users, MintRead(w, u)
            PROVE  CountAgrees' /\ (\A v \in Workers : WorkerOK(v)') /\ BelowCap'
        BY <4>1, MintReadKeeps
      <4> QED BY <3>1, <4>1, StartAdvances, AdvancesKeeps DEF Start
    <3>2. CASE Step(w)
      <4>1. CASE MintCreate(w) BY <4>1, MintCreateKeeps
      <4>2. CASE MintCount(w) BY <4>2, MintCountKeeps
      <4>3. CASE ~MintCreate(w) /\ ~MintCount(w)
        <5>1. Advances(w)
          BY <3>2, <4>3, MintAdvances, FireAdvances, EndAdvances DEF Step
        <5> QED BY <5>1, AdvancesKeeps
      <4> QED BY <4>1, <4>2, <4>3
    <3>3. CASE DbError(w) BY <3>3, DbErrorKeeps
    <3>4. CASE HookError(w) BY <3>4, HookErrorAdvances, AdvancesKeeps
    <3> QED BY <2>3, <3>1, <3>2, <3>3, <3>4
  <2> QED BY <2>1, <2>2, <2>3 DEF Next
<1> QED BY <1>1, <1>2 DEF IInv, Accounting, WorkerOK, BelowCap

\* The counter and the cards agree, and the cap is overrun by less than the
\* number of viewers: the invariant of the handlers.
THEOREM AccountingCorrect == Spec => []Accounting
<1>1. IInv => Accounting BY DEF IInv
<1> QED BY <1>1, InvInit, InvStep, PTL DEF Spec

\* Episode.cardsMinted (cards.ts:280) is the number of cards, up to those that
\* are being counted and those whose handler died before the increment.
THEOREM CountCorrect == Spec => []CountAgrees
<1>1. IInv => CountAgrees BY DEF IInv, Accounting
<1> QED BY <1>1, InvInit, InvStep, PTL DEF Spec

\* However many mint requests run together, and whatever faults occur, an
\* episode with a cap gets fewer than MaxCards + |Viewers| cards, not counting
\* the cards a fault left uncounted.
THEOREM OversellBounded == Spec => []OversellBound
<1>1. ASSUME IInv PROVE OversellBound
  <2>1. TypeOK /\ CountAgrees /\ (\A w \in Workers : WorkerOK(w)) /\ BelowCap
    BY <1>1, Unfold
  <2>2. InFlight(Uncounted) \subseteq Passed
    BY <2>1 DEF InFlight, Uncounted, MintLabels, WorkerOK
  <2>3. Cardinality(InFlight(Uncounted)) <= Cardinality(Passed)
    BY <1>1, <2>2, PassedFinite, FS_Subset
  <2> QED BY <1>1, <2>1, <2>3, PassedFinite, InFlightFinite, HoldersFinite,
             ConstantsAssumption
          DEF CountAgrees, BelowCap, OversellBound, TypeOK
<1> QED BY <1>1, InvInit, InvStep, PTL DEF Spec

(***************************************************************************)
(* Firing, as long as nothing fails in the middle of it                    *)
(***************************************************************************)

Logged  == {"fire_count"}
Counted == {"hook_read", "hook_card", "hook_log"}

Doing(labels, e) == {w \in InFlight(labels) : loc[w].event = e}

LEMMA DoingFinite ==
  ASSUME NEW labels, NEW e
  PROVE  IsFiniteSet(Doing(labels, e)) /\ Cardinality(Doing(labels, e)) \in Nat
BY FiniteAssumption, FS_Subset, FS_CardinalityType DEF Doing, InFlight, Workers

LEMMA DoingMoves ==
  ASSUME TypeOK, NEW w \in Workers, NEW label, NEW l, Goto(w, label, l)
  PROVE  \A labels, e :
           Doing(labels, e)' = IF label \in labels /\ l.event = e
                               THEN Doing(labels, e) \cup {w} ELSE Doing(labels, e) \ {w}
BY DEF TypeOK, Goto, Doing, InFlight

\* A step that begins and ends no firing, and counts and logs none.
Elsewhere(w) ==
  /\ UNCHANGED firedVars
  /\ \E label, l :
       /\ Goto(w, label, l)
       /\ label \in Logged <=> pc[w] \in Logged
       /\ label \in Counted <=> pc[w] \in Counted
       /\ label \in Logged \cup Counted => l.event = loc[w].event

LEMMA ElsewhereKeeps ==
  ASSUME TypeOK, FiresLogged, NEW w \in Workers, Elsewhere(w)
  PROVE  FiresLogged'
<1>1. PICK label, l :
        /\ Goto(w, label, l)
        /\ label \in Logged <=> pc[w] \in Logged
        /\ label \in Counted <=> pc[w] \in Counted
        /\ label \in Logged \cup Counted => l.event = loc[w].event
  BY DEF Elsewhere
<1>2. /\ pc' = [pc EXCEPT ![w] = label] /\ loc' = [loc EXCEPT ![w] = l]
      /\ pc \in [Workers -> Labels] /\ loc \in [Workers -> Locals]
  BY <1>1 DEF Goto, TypeOK
<1>3. ASSUME NEW e \in Events
      PROVE  Doing(Logged, e)' = Doing(Logged, e) /\ Doing(Counted, e)' = Doing(Counted, e)
  BY <1>1, <1>2 DEF Doing, InFlight
<1> QED BY <1>3 DEF FiresLogged, Elsewhere, firedVars, Doing, Logged, Counted

\* A worker that is firing nothing that is half done, before and after.
LEMMA GoesElsewhere ==
  ASSUME NEW w \in Workers, NEW label, NEW l, Goto(w, label, l), UNCHANGED firedVars,
         pc[w] \notin Logged \cup Counted, label \notin Logged \cup Counted
  PROVE  Elsewhere(w)
BY DEF Elsewhere

LEMMA StartElsewhere ==
  ASSUME NEW w \in Workers, Start(w)
  PROVE  Elsewhere(w)
<1> USE DEF Begin, Goto, Logged, Counted
<1>1. CASE LaunchRead(w) BY <1>1, GoesElsewhere DEF LaunchRead
<1>2. CASE EndRead(w) BY <1>2, GoesElsewhere DEF EndRead
<1>3. CASE \E u \in Users : MintRead(w, u) BY <1>3, GoesElsewhere DEF MintRead
<1>4. CASE \E e \in Events : FireStart(w, e) BY <1>4, GoesElsewhere DEF FireStart
<1>5. CASE \E E \in SUBSET Events : HookStart(w, E) BY <1>5, GoesElsewhere DEF HookStart
<1> QED BY <1>1, <1>2, <1>3, <1>4, <1>5 DEF Start

LEMMA StepElsewhere ==
  ASSUME TypeOK, NEW w \in Workers, Step(w),
         ~FireLog(w), ~FireCount(w), ~HookCount(w), ~HookLog(w)
  PROVE  Elsewhere(w)
<1> USE DEF Goto, Finish, Logged, Counted
<1>0. loc[w] \in Locals BY DEF TypeOK
<1>1. CASE \/ LaunchRoot(w) \/ LaunchSave(w) \/ MintReadRoot(w) \/ MintCheckExisting(w)
           \/ MintCreate(w) \/ MintBranch(w) \/ MintStoreBranch(w) \/ MintCount(w)
  BY <1>1, GoesElsewhere
     DEF LaunchRoot, LaunchSave, MintReadRoot, MintCheckExisting, MintCreate, MintBranch,
         MintStoreBranch, MintCount
<1>2. CASE \/ EndRoot(w) \/ EndSave(w) \/ EndReadCards(w) \/ EndBatch(w)
           \/ EndFruit(w) \/ EndSweep(w)
  BY <1>2, GoesElsewhere
     DEF EndRoot, EndSave, EndReadCards, EndBatch, EndFruit, EndSweep
<1>3. ASSUME NEW todo, NEW seen, NEW label, Goto(w, label, [loc[w] EXCEPT !.todo = todo, !.seen = seen]),
             UNCHANGED firedVars, label \in Counted <=> pc[w] \in Counted,
             label \notin Logged, pc[w] \notin Logged
      PROVE  Elsewhere(w)
  <2> DEFINE l == [loc[w] EXCEPT !.todo = todo, !.seen = seen]
  <2>1. l.event = loc[w].event BY <1>0 DEF Locals
  <2> HIDE DEF l
  <2>2. Goto(w, label, l) BY <1>3 DEF l
  <2> QED BY <1>3, <2>1, <2>2 DEF Elsewhere
<1>4. ASSUME NEW todo, NEW label, Goto(w, label, [loc[w] EXCEPT !.todo = todo]),
             UNCHANGED firedVars, label \in Counted <=> pc[w] \in Counted,
             label \notin Logged, pc[w] \notin Logged
      PROVE  Elsewhere(w)
  <2> DEFINE l == [loc[w] EXCEPT !.todo = todo]
  <2>1. l.event = loc[w].event BY <1>0 DEF Locals
  <2> HIDE DEF l
  <2>2. Goto(w, label, l) BY <1>4 DEF l
  <2> QED BY <1>4, <2>1, <2>2 DEF Elsewhere
<1>5. CASE FireRead(w) \/ HookRead(w)
  <2>1. PICK todo, seen, label :
          /\ Goto(w, label, [loc[w] EXCEPT !.todo = todo, !.seen = seen])
          /\ \/ pc[w] = "fire_read" /\ label \in {"fire_card", "fire_log"}
             \/ pc[w] = "hook_read" /\ label \in {"hook_card", "hook_log"}
    BY <1>5 DEF FireRead, HookRead, ReadCards
  <2> QED BY <1>3, <1>5, <2>1 DEF FireRead, HookRead, ReadCards
<1>6. CASE FireCard(w) \/ HookCard(w)
  <2>1. PICK todo, label :
          /\ Goto(w, label, [loc[w] EXCEPT !.todo = todo])
          /\ \/ pc[w] = "fire_card" /\ label \in {"fire_card", "fire_log"}
             \/ pc[w] = "hook_card" /\ label \in {"hook_card", "hook_log"}
    BY <1>6 DEF FireCard, HookCard, MarkCard
  <2> QED BY <1>4, <1>6, <2>1 DEF FireCard, HookCard, MarkCard
<1> QED BY <1>1, <1>2, <1>5, <1>6 DEF Step

\* Writing a counter of a table of counters.
LEMMA Counting ==
  ASSUME NEW f \in [Events -> Nat], NEW x, NEW e \in Events
  PROVE  [f EXCEPT ![x] = @ + 1][e] = f[e] + (IF x = e THEN 1 ELSE 0)
OBVIOUS

LEMMA OneMore ==
  ASSUME NEW S, IsFiniteSet(S), NEW w
  PROVE  /\ Cardinality(S \cup {w}) = Cardinality(S) + (IF w \in S THEN 0 ELSE 1)
         /\ Cardinality(S \ {w}) = Cardinality(S) - (IF w \in S THEN 1 ELSE 0)
BY FS_AddElement, FS_RemoveElement, FS_CardinalityType

\* The two halves of a manual firing: the log, then the counter.
LEMMA FireKeeps ==
  ASSUME TypeOK, FiresLogged, NEW w \in Workers, FireLog(w) \/ FireCount(w)
  PROVE  FiresLogged'
<1> DEFINE x == loc[w].event
<1> SUFFICES ASSUME NEW e \in Events
             PROVE  firedCount'[e] + Cardinality(Doing(Logged, e)')
                      = firedLog'[e] + Cardinality(Doing(Counted, e)')
  BY DEF FiresLogged, Doing, Logged, Counted
<1>0. /\ firedCount[e] + Cardinality(Doing(Logged, e))
           = firedLog[e] + Cardinality(Doing(Counted, e))
      /\ firedCount[e] \in Nat /\ firedLog[e] \in Nat
      /\ firedCount \in [Events -> Nat] /\ firedLog \in [Events -> Nat]
  BY DEF FiresLogged, Doing, Logged, Counted, TypeOK
<1>1. CASE FireLog(w)
  <2>1. /\ pc[w] = "fire_log" /\ Goto(w, "fire_count", loc[w])
        /\ firedLog' = [firedLog EXCEPT ![x] = @ + 1] /\ firedCount' = firedCount
    BY <1>1 DEF FireLog
  <2>2. w \notin Doing(Logged, e) /\ w \notin Doing(Counted, e)
    BY <2>1 DEF Doing, InFlight, Logged, Counted
  <2>3. Doing(Counted, e)' = Doing(Counted, e)
    BY <2>1, <2>2, DoingMoves DEF Counted
  <2>4. Cardinality(Doing(Logged, e)') = Cardinality(Doing(Logged, e)) + (IF x = e THEN 1 ELSE 0)
    <3>1. Doing(Logged, e)' = IF x = e THEN Doing(Logged, e) \cup {w} ELSE Doing(Logged, e)
      BY <2>1, <2>2, DoingMoves DEF Logged
    <3> QED BY <2>1, <2>2, <3>1, DoingFinite, OneMore
  <2>5. firedLog'[e] = firedLog[e] + (IF x = e THEN 1 ELSE 0) BY <1>0, <2>1, Counting
  <2> QED BY <1>0, <2>1, <2>3, <2>4, <2>5, DoingFinite
<1>2. CASE FireCount(w)
  <2>1. /\ pc[w] = "fire_count" /\ Goto(w, "idle", Blank)
        /\ firedCount' = [firedCount EXCEPT ![x] = @ + 1] /\ firedLog' = firedLog
    BY <1>2 DEF FireCount, Finish
  <2>2. (w \in Doing(Logged, e) <=> x = e) /\ w \notin Doing(Counted, e)
    BY <2>1 DEF Doing, InFlight, Logged, Counted
  <2>3. Doing(Counted, e)' = Doing(Counted, e)
    BY <2>1, <2>2, DoingMoves DEF Counted
  <2>4. Cardinality(Doing(Logged, e)') = Cardinality(Doing(Logged, e)) - (IF x = e THEN 1 ELSE 0)
    <3>1. Doing(Logged, e)' = IF x = e THEN Doing(Logged, e) \ {w} ELSE Doing(Logged, e)
      <4>1. Doing(Logged, e)' = Doing(Logged, e) \ {w}
        BY <2>1, DoingMoves DEF Logged
      <4> QED BY <2>2, <4>1
    <3> QED BY <2>1, <2>2, <3>1, DoingFinite, OneMore
  <2>5. firedCount'[e] = firedCount[e] + (IF x = e THEN 1 ELSE 0) BY <1>0, <2>1, Counting
  <2> QED BY <1>0, <2>1, <2>3, <2>4, <2>5, DoingFinite
<1> QED BY <1>1, <1>2

\* Those of a Twitch firing: the counter, then the log.
LEMMA HookKeeps ==
  ASSUME TypeOK, FiresLogged, NEW w \in Workers, HookCount(w) \/ HookLog(w)
  PROVE  FiresLogged'
<1> SUFFICES ASSUME NEW e \in Events
             PROVE  firedCount'[e] + Cardinality(Doing(Logged, e)')
                      = firedLog'[e] + Cardinality(Doing(Counted, e)')
  BY DEF FiresLogged, Doing, Logged, Counted
<1>0. /\ firedCount[e] + Cardinality(Doing(Logged, e))
           = firedLog[e] + Cardinality(Doing(Counted, e))
      /\ firedCount[e] \in Nat /\ firedLog[e] \in Nat
      /\ firedCount \in [Events -> Nat] /\ firedLog \in [Events -> Nat]
      /\ loc[w] \in Locals
  BY DEF FiresLogged, Doing, Logged, Counted, TypeOK
<1>1. CASE HookCount(w)
  <2>0. PICK x \in loc[w].queue :
          /\ firedCount' = [firedCount EXCEPT ![x] = @ + 1]
          /\ Goto(w, "hook_read", [loc[w] EXCEPT !.event = x, !.queue = @ \ {x}])
    BY <1>1 DEF HookCount
  <2> DEFINE l == [loc[w] EXCEPT !.event = x, !.queue = @ \ {x}]
  <2>1. l.event = x BY <1>0 DEF Locals
  <2>2. Goto(w, "hook_read", l) BY <2>0
  <2> HIDE DEF l
  <2>3. pc[w] = "hook_count" /\ firedLog' = firedLog BY <1>1 DEF HookCount
  <2>4. w \notin Doing(Logged, e) /\ w \notin Doing(Counted, e)
    BY <2>3 DEF Doing, InFlight, Logged, Counted
  <2>5. Doing(Logged, e)' = Doing(Logged, e)
    BY <2>2, <2>4, DoingMoves DEF Logged
  <2>6. Cardinality(Doing(Counted, e)') = Cardinality(Doing(Counted, e)) + (IF x = e THEN 1 ELSE 0)
    <3>1. Doing(Counted, e)' = IF x = e THEN Doing(Counted, e) \cup {w} ELSE Doing(Counted, e)
      BY <2>1, <2>2, <2>4, DoingMoves DEF Counted
    <3> QED BY <2>1, <2>2, <2>4, <3>1, DoingFinite, OneMore
  <2>7. firedCount'[e] = firedCount[e] + (IF x = e THEN 1 ELSE 0) BY <1>0, <2>0, Counting
  <2> QED BY <1>0, <2>3, <2>5, <2>6, <2>7, DoingFinite
<1>2. CASE HookLog(w)
  <2> DEFINE x == loc[w].event
  <2>1. PICK label, l : label \in {"idle", "hook_count"} /\ Goto(w, label, l)
    BY <1>2 DEF HookLog, NextEvent, Finish
  <2>2. /\ pc[w] = "hook_log" /\ firedCount' = firedCount
        /\ firedLog' = [firedLog EXCEPT ![x] = @ + 1]
    BY <1>2 DEF HookLog
  <2>3. (w \in Doing(Counted, e) <=> x = e) /\ w \notin Doing(Logged, e)
    BY <2>2 DEF Doing, InFlight, Logged, Counted
  <2>4. Doing(Logged, e)' = Doing(Logged, e)
    BY <2>1, <2>3, DoingMoves DEF Logged
  <2>5. Cardinality(Doing(Counted, e)') = Cardinality(Doing(Counted, e)) - (IF x = e THEN 1 ELSE 0)
    <3>1. Doing(Counted, e)' = IF x = e THEN Doing(Counted, e) \ {w} ELSE Doing(Counted, e)
      BY <2>1, <2>3, DoingMoves DEF Counted
    <3> QED BY <2>1, <2>3, <3>1, DoingFinite, OneMore
  <2>6. firedLog'[e] = firedLog[e] + (IF x = e THEN 1 ELSE 0) BY <1>0, <2>2, Counting
  <2> QED BY <1>0, <2>2, <2>4, <2>5, <2>6, DoingFinite
<1> QED BY <1>1, <1>2

\* Without faults every step is one of a handler.
LEMMA NoFault ==
  ASSUME TypeOK, MaxFaults = 0, Next
  PROVE  \E w \in Workers : Start(w) \/ Step(w)
<1>1. ~(faults < MaxFaults) BY DEF TypeOK
<1> QED BY <1>1 DEF Next, Crash, DbError, HookError

\* The counter of an event and its log agree, up to the firings that have
\* written one of the two: in both orders (episodes.ts:799, 809;
\* webhooks.ts:376, 445) and for any firings that overlap.
THEOREM FiringsAreLogged == ASSUME MaxFaults = 0 PROVE Spec => []FiresLogged
<1>1. Init => FiresLogged
  <2> SUFFICES ASSUME Init, NEW e \in Events
               PROVE  Cardinality(Doing(Logged, e)) = 0 /\ Cardinality(Doing(Counted, e)) = 0
    BY DEF Init, FiresLogged, Doing, Logged, Counted
  <2>1. Doing(Logged, e) = {} /\ Doing(Counted, e) = {}
    BY DEF Init, Doing, InFlight, Logged, Counted
  <2> QED BY <2>1, FS_EmptySet
<1>2. TypeOK /\ FiresLogged /\ [Next]_vars => FiresLogged'
  <2> SUFFICES ASSUME TypeOK, FiresLogged, [Next]_vars PROVE FiresLogged' OBVIOUS
  <2>1. CASE UNCHANGED vars BY <2>1 DEF vars, firedVars, FiresLogged, InFlight
  <2>2. ASSUME NEW w \in Workers, Start(w) \/ Step(w) PROVE FiresLogged'
    BY <2>2, StartElsewhere, StepElsewhere, ElsewhereKeeps, FireKeeps, HookKeeps
  <2> QED BY <2>1, <2>2, NoFault
<1> QED BY <1>1, <1>2, TypeCorrect, PTL DEF Spec

(***************************************************************************)
(* What the cards show was fired                                           *)
(***************************************************************************)

EverCounted == {e \in Events : firedCount[e] > 0}
SoFar == EverCounted \cup Firing

\* What a worker has read and not yet written was fired; the event it fires is
\* one, and a Twitch firing has counted it.
ReadsFired(w) ==
  /\ \A u \in loc[w].todo : loc[w].seen[u] \subseteq SquaresOf(cards[u].grid, SoFar)
  /\ loc[w].fired \subseteq EverCounted
  /\ pc[w] \in FireLabels => loc[w].event \in Events
  /\ pc[w] \in Counted => loc[w].event \in EverCounted
  /\ pc[w] = "hook_count" => loc[w].event = Null

RowsFired == \A u \in Users : cards[u].marked \subseteq SquaresOf(cards[u].grid, SoFar)

MarksInv == RowsFired /\ \A w \in Workers : ReadsFired(w)

\* A step of w after which it has read nothing that was not fired.
Keeps(w) ==
  /\ EverCounted \subseteq EverCounted'
  /\ SoFar \subseteq SoFar'
  /\ ReadsFired(w)'

\* Unless w has counted it, the event it fires is still being fired.
LEMMA FiringMoves ==
  ASSUME TypeOK, NEW w \in Workers, NEW label, NEW l, Goto(w, label, l),
         EverCounted \subseteq EverCounted',
         pc[w] \in FireLabels \cup HookLabels =>
           \/ loc[w].event \in EverCounted' \cup {Null}
           \/ label \in FireLabels \cup HookLabels /\ l.event = loc[w].event
  PROVE  SoFar \subseteq SoFar'
<1>1. /\ pc'[w] = label /\ loc'[w] = l
      /\ \A v \in Workers \ {w} : pc'[v] = pc[v] /\ loc'[v] = loc[v]
  BY DEF Goto, TypeOK
<1>2. ASSUME NEW e \in Firing PROVE e \in SoFar'
  <2>1. PICK v \in Workers : pc[v] \in FireLabels \cup HookLabels /\ loc[v].event = e /\ e # Null
    BY <1>2 DEF Firing, InFlight
  <2>2. CASE e \in EverCounted' BY <2>2 DEF SoFar
  <2>3. CASE pc'[v] \in FireLabels \cup HookLabels /\ loc'[v].event = e
    BY <2>1, <2>3 DEF SoFar, Firing, InFlight
  <2> QED BY <1>1, <2>1, <2>2, <2>3
<1> QED BY <1>2 DEF SoFar

\* The others, when the grids stay, or a card appears that nobody has read.
LEMMA OthersRead ==
  ASSUME TypeOK, MarksInv, NEW w \in Workers, NEW label, NEW l, Goto(w, label, l), Keeps(w),
         \A v \in Workers, u \in Users : u \in loc[v].todo => cards'[u].grid = cards[u].grid
  PROVE  \A v \in Workers : ReadsFired(v)'
<1> SUFFICES ASSUME NEW v \in Workers, v # w PROVE ReadsFired(v)'
  BY DEF Keeps
<1>1. pc'[v] = pc[v] /\ loc'[v] = loc[v] BY DEF Goto, TypeOK
<1>2. ReadsFired(v) BY DEF MarksInv
<1>3. loc[v].todo \subseteq Users BY DEF TypeOK, Locals
<1>4. ASSUME NEW u \in loc[v].todo PROVE loc[v].seen[u] \subseteq SquaresOf(cards'[u].grid, SoFar')
  <2>1. cards'[u].grid = cards[u].grid BY <1>3
  <2>2. loc[v].seen[u] \subseteq SquaresOf(cards[u].grid, SoFar) BY <1>2 DEF ReadsFired
  <2> QED BY <2>1, <2>2 DEF SquaresOf, Keeps
<1>5. /\ loc'[v].fired \subseteq EverCounted'
      /\ pc'[v] \in FireLabels => loc'[v].event \in Events
      /\ pc'[v] \in Counted => loc'[v].event \in EverCounted'
      /\ pc'[v] = "hook_count" => loc'[v].event = Null
  BY <1>1, <1>2 DEF ReadsFired, Keeps
<1>6. \A u \in loc'[v].todo : loc'[v].seen[u] \subseteq SquaresOf(cards'[u].grid, SoFar')
  BY <1>1, <1>4
<1> QED BY <1>5, <1>6 DEF ReadsFired, SquaresOf

\* No grid, no mark and no pattern changes.
SameMarks ==
  \A u \in Users : /\ cards'[u].grid = cards[u].grid
                   /\ cards'[u].marked = cards[u].marked
                   /\ cards'[u].patterns = cards[u].patterns

LEMMA SameMarksKeep ==
  ASSUME TypeOK, MarksInv, NEW w \in Workers, NEW label, NEW l, Goto(w, label, l), Keeps(w),
         SameMarks
  PROVE  MarksInv'
<1>1. RowsFired'
  <2>1. ASSUME NEW u \in Users PROVE cards'[u].marked \subseteq SquaresOf(cards'[u].grid, SoFar')
    BY DEF MarksInv, RowsFired, SameMarks, Keeps, SquaresOf
  <2> QED BY <2>1 DEF RowsFired, SquaresOf
<1>2. \A v \in Workers : ReadsFired(v)' BY OthersRead DEF SameMarks
<1> QED BY <1>1, <1>2 DEF MarksInv

\* A worker that goes on with nothing to write.
LEMMA KeepsBlank ==
  ASSUME TypeOK, MarksInv, NEW w \in Workers, NEW label, NEW l, Goto(w, label, l),
         UNCHANGED firedCount, pc[w] \notin FireLabels \cup HookLabels,
         l.todo = {}, l.fired \subseteq EverCounted,
         label \in FireLabels => l.event \in Events,
         label \notin Counted, label = "hook_count" => l.event = Null
  PROVE  Keeps(w)
<1>1. EverCounted' = EverCounted BY DEF EverCounted
<1>2. SoFar \subseteq SoFar' BY <1>1, FiringMoves
<1>3. pc'[w] = label /\ loc'[w] = l BY DEF Goto, TypeOK
<1> QED BY <1>1, <1>2, <1>3 DEF Keeps, ReadsFired

\* One that goes on with what it has read, or some of it, outside the firings.
LEMMA KeepsReading ==
  ASSUME TypeOK, MarksInv, SameMarks, NEW w \in Workers, NEW label, NEW l, Goto(w, label, l),
         UNCHANGED firedCount,
         pc[w] \notin FireLabels \cup HookLabels, label \notin FireLabels \cup HookLabels,
         l.fired = loc[w].fired,
         \A u \in l.todo : u \in Users /\ (\/ l.seen[u] = cards[u].marked
                                           \/ u \in loc[w].todo /\ l.seen[u] = loc[w].seen[u])
  PROVE  Keeps(w)
<1>1. EverCounted' = EverCounted BY DEF EverCounted
<1>2. SoFar \subseteq SoFar' BY <1>1, FiringMoves
<1>3. pc'[w] = label /\ loc'[w] = l BY DEF Goto, TypeOK
<1>4. ASSUME NEW u \in l.todo PROVE l.seen[u] \subseteq SquaresOf(cards'[u].grid, SoFar')
  <2>1. l.seen[u] \subseteq SquaresOf(cards[u].grid, SoFar)
    BY DEF MarksInv, RowsFired, ReadsFired
  <2> QED BY <1>2, <2>1 DEF SameMarks, SquaresOf
<1>5. \A u \in loc'[w].todo : loc'[w].seen[u] \subseteq SquaresOf(cards'[u].grid, SoFar')
  BY <1>3, <1>4
<1>6. /\ loc'[w].fired \subseteq EverCounted' /\ pc'[w] \notin FireLabels
      /\ pc'[w] \notin Counted /\ pc'[w] # "hook_count"
  BY <1>1, <1>3 DEF MarksInv, ReadsFired, HookLabels, Counted
<1> QED BY <1>1, <1>2, <1>5, <1>6 DEF Keeps, ReadsFired, SquaresOf

LEMMA BlankFired == Blank.todo = {} /\ Blank.fired = {} /\ Blank.event = Null
BY DEF Blank

\* Steps that write no card, outside the firings.
LEMMA StartKeeps ==
  ASSUME TypeOK, MarksInv, NEW w \in Workers, Start(w)
  PROVE  MarksInv'
<1> USE BlankFired
<1>0. pc[w] \notin FireLabels \cup HookLabels /\ UNCHANGED <<cards, firedCount>>
  BY DEF Start, LaunchRead, EndRead, MintRead, FireStart, HookStart, Begin, firedVars,
         FireLabels, HookLabels
<1>1. SameMarks BY <1>0 DEF SameMarks
<1>2. ASSUME NEW label, NEW l, Goto(w, label, l), l.todo = {}, l.fired \subseteq EverCounted,
             label \in FireLabels => l.event \in Events,
             label \notin Counted, label = "hook_count" => l.event = Null
      PROVE  MarksInv'
  BY <1>0, <1>1, <1>2, KeepsBlank, SameMarksKeep
<1>3. CASE LaunchRead(w)
  <2>1. PICK label : Goto(w, label, Blank) /\ label \in LaunchLabels
    BY <1>3 DEF LaunchRead, Begin, Goto, LaunchLabels
  <2> QED BY <1>2, <2>1 DEF LaunchLabels, FireLabels, Counted
<1>4. CASE EndRead(w)
  <2>1. PICK label : Goto(w, label, Blank) /\ label \in EndLabels
    BY <1>4 DEF EndRead, Begin, Goto, EndLabels
  <2> QED BY <1>2, <2>1 DEF EndLabels, FireLabels, Counted
<1>5. ASSUME NEW u \in Users, MintRead(w, u) PROVE MarksInv'
  <2> DEFINE l == [Blank EXCEPT !.user = u, !.status = status, !.minted = cardsMinted, !.fired = Fired]
  <2>1. l.todo = {} /\ l.fired = Fired BY DEF Blank
  <2>2. Goto(w, "mint_root", l) BY <1>5 DEF MintRead, Begin, Goto
  <2> HIDE DEF l
  <2>3. l.fired \subseteq EverCounted BY <2>1 DEF Fired, EverCounted
  <2> QED BY <1>2, <2>1, <2>2, <2>3 DEF FireLabels, Counted
<1>6. ASSUME NEW e \in Events, FireStart(w, e) PROVE MarksInv'
  <2> DEFINE l == [Blank EXCEPT !.event = e]
  <2>1. l.todo = {} /\ l.fired = {} /\ l.event = e BY DEF Blank
  <2>2. Goto(w, "fire_read", l) BY <1>6 DEF FireStart, Begin, Goto
  <2> HIDE DEF l
  <2> QED BY <1>2, <2>1, <2>2 DEF FireLabels, Counted
<1>7. ASSUME NEW E \in SUBSET Events, HookStart(w, E) PROVE MarksInv'
  <2> DEFINE l == [Blank EXCEPT !.queue = E]
  <2>1. l.todo = {} /\ l.fired = {} /\ l.event = Null BY DEF Blank
  <2>2. Goto(w, "hook_count", l) BY <1>7 DEF HookStart, Begin, Goto
  <2> HIDE DEF l
  <2> QED BY <1>2, <2>1, <2>2 DEF FireLabels, Counted
<1> QED BY <1>3, <1>4, <1>5, <1>6, <1>7 DEF Start

\* Launches and mints, the write of a card aside, and ends.
LEMMA OtherRowsSame ==
  ASSUME TypeOK, NEW w \in Workers,
         \/ LaunchRoot(w) \/ LaunchSave(w) \/ MintReadRoot(w) \/ MintCheckExisting(w)
         \/ MintBranch(w) \/ MintStoreBranch(w) \/ MintCount(w)
         \/ EndRoot(w) \/ EndSave(w) \/ EndReadCards(w) \/ EndBatch(w)
         \/ EndFruit(w) \/ EndSweep(w)
  PROVE  SameMarks
<1>0. cards \in [Users -> Card] BY DEF TypeOK
<1>1. CASE UNCHANGED cards BY <1>1 DEF SameMarks
<1>2. CASE MintStoreBranch(w)
  <2> DEFINE u == loc[w].user
             r == loc[w].root
  <2>1. cards' = cards \/ cards' = [cards EXCEPT ![u].branch = r]
    BY <1>2 DEF MintStoreBranch
  <2> HIDE DEF u, r
  <2>2. \A v \in Users : cards'[v] = cards[v] \/ cards'[v] = [cards[v] EXCEPT !.branch = r]
    BY <1>0, <2>1
  <2>3. ASSUME NEW v \in Users
        PROVE  /\ cards'[v].grid = cards[v].grid /\ cards'[v].marked = cards[v].marked
               /\ cards'[v].patterns = cards[v].patterns
    <3>1. cards[v] \in Card BY <1>0
    <3>2. /\ [cards[v] EXCEPT !.branch = r].grid = cards[v].grid
          /\ [cards[v] EXCEPT !.branch = r].marked = cards[v].marked
          /\ [cards[v] EXCEPT !.branch = r].patterns = cards[v].patterns
      BY <3>1 DEF Card
    <3> QED BY <2>2, <3>2
  <2> QED BY <2>3 DEF SameMarks
<1>3. CASE EndFruit(w)
  <2>1. ASSUME NEW u, cards' = [cards EXCEPT ![u] = [Fruited(@) EXCEPT !.fruit = {loc[w].seen[u]}]]
        PROVE  SameMarks
    <3> DEFINE f == {loc[w].seen[u]}
    <3>1. \A v \in Users : cards'[v] = cards[v] \/ cards'[v] = [Fruited(cards[v]) EXCEPT !.fruit = f]
      BY <1>0, <2>1
    <3> HIDE DEF f
    <3>2. ASSUME NEW v \in Users
          PROVE  /\ cards'[v].grid = cards[v].grid /\ cards'[v].marked = cards[v].marked
               /\ cards'[v].patterns = cards[v].patterns
      <4>1. cards[v] \in Card BY <1>0
      <4>2. /\ [Fruited(cards[v]) EXCEPT !.fruit = f].grid = cards[v].grid
            /\ [Fruited(cards[v]) EXCEPT !.fruit = f].marked = cards[v].marked
            /\ [Fruited(cards[v]) EXCEPT !.fruit = f].patterns = cards[v].patterns
        BY <4>1 DEF Card, Fruited
      <4> QED BY <3>1, <4>2
    <3> QED BY <3>2 DEF SameMarks
  <2> QED BY <1>1, <1>3, <2>1 DEF EndFruit
<1>4. CASE EndSweep(w)
  <2>1. \A v \in Users : cards'[v] = cards[v] \/ cards'[v] = Fruited(cards[v])
    BY <1>4 DEF EndSweep
  <2>2. \A v \in Users : /\ Fruited(cards[v]).grid = cards[v].grid
                        /\ Fruited(cards[v]).marked = cards[v].marked
                        /\ Fruited(cards[v]).patterns = cards[v].patterns
    BY <1>0 DEF Card, Fruited
  <2> QED BY <2>1, <2>2 DEF SameMarks
<1> QED
  BY <1>1, <1>2, <1>3, <1>4
  DEF LaunchRoot, LaunchSave, MintReadRoot, MintCheckExisting, MintBranch, MintCount, EndRoot,
      EndSave, EndReadCards, EndBatch

LEMMA OtherMarksKeep ==
  ASSUME TypeOK, MarksInv, NEW w \in Workers,
         \/ LaunchRoot(w) \/ LaunchSave(w) \/ MintReadRoot(w) \/ MintCheckExisting(w)
         \/ MintBranch(w) \/ MintStoreBranch(w) \/ MintCount(w)
         \/ EndRoot(w) \/ EndSave(w) \/ EndReadCards(w) \/ EndBatch(w)
         \/ EndFruit(w) \/ EndSweep(w)
  PROVE  MarksInv'
<1> USE BlankFired
<1>0. /\ SameMarks /\ loc[w] \in Locals
      /\ pc[w] \notin FireLabels \cup HookLabels /\ UNCHANGED firedCount
  <2>1. SameMarks BY OtherRowsSame
  <2> QED BY <2>1
      DEF LaunchRoot, LaunchSave, MintReadRoot, MintCheckExisting, MintBranch, MintStoreBranch,
          MintCount, EndRoot, EndSave, EndReadCards, EndBatch, EndFruit, EndSweep, firedVars,
          FireLabels, HookLabels, TypeOK
<1>1. ASSUME NEW label, NEW l, Goto(w, label, l), label \notin FireLabels \cup HookLabels,
             \/ l.todo = {} /\ l.fired = {}
             \/ /\ l.fired = loc[w].fired
                /\ l.todo \subseteq loc[w].todo /\ l.seen = loc[w].seen
             \/ /\ l.fired = loc[w].fired /\ l.todo \subseteq Users
                /\ l.seen = [u \in Users |-> cards[u].marked]
      PROVE  MarksInv'
  <2>1. label \notin Counted /\ label # "hook_count" /\ label \notin FireLabels
    BY <1>1 DEF HookLabels, Counted
  <2>2. loc[w].todo \subseteq Users BY <1>0 DEF Locals
  <2>3. Keeps(w)
    <3>1. CASE l.todo = {} /\ l.fired = {} BY <1>0, <1>1, <2>1, <3>1, KeepsBlank
    <3>2. CASE /\ l.fired = loc[w].fired
               /\ l.todo \subseteq loc[w].todo /\ l.seen = loc[w].seen
      <4>1. \A u \in l.todo : u \in Users /\ u \in loc[w].todo /\ l.seen[u] = loc[w].seen[u]
        BY <2>2, <3>2
      <4> QED BY <1>0, <1>1, <3>2, <4>1, KeepsReading
    <3>3. CASE /\ l.fired = loc[w].fired /\ l.todo \subseteq Users
               /\ l.seen = [u \in Users |-> cards[u].marked]
      <4>1. \A u \in l.todo : u \in Users /\ l.seen[u] = cards[u].marked
        BY <3>3
      <4> QED BY <1>0, <1>1, <3>3, <4>1, KeepsReading
    <3> QED BY <1>1, <3>1, <3>2, <3>3
  <2> QED BY <1>0, <1>1, <2>3, SameMarksKeep
<1>2. CASE \E label : Goto(w, label, loc[w]) /\ label \notin FireLabels \cup HookLabels
  BY <1>1, <1>2
<1>3. CASE Finish(w)
  BY <1>1, <1>3 DEF Finish, FireLabels, HookLabels
<1>4. CASE LaunchRoot(w)
  <2>1. PICK l : Goto(w, "launch_save", l) /\ l.todo = {} /\ l.fired = {}
    BY <1>4 DEF LaunchRoot, Blank
  <2> QED BY <1>1, <2>1 DEF FireLabels, HookLabels
<1>5. CASE MintReadRoot(w)
  <2>1. CASE Goto(w, "mint_exists", [loc[w] EXCEPT !.root = rootTokenId])
    <3> DEFINE l == [loc[w] EXCEPT !.root = rootTokenId]
    <3>1. l.fired = loc[w].fired /\ l.todo = loc[w].todo /\ l.seen = loc[w].seen
      BY <1>0 DEF Locals
    <3>2. Goto(w, "mint_exists", l) BY <2>1
    <3> HIDE DEF l
    <3> QED BY <1>1, <3>1, <3>2 DEF FireLabels, HookLabels
  <2> QED BY <1>3, <1>5, <2>1 DEF MintReadRoot
<1>6. CASE LaunchSave(w) \/ MintCount(w) \/ EndSweep(w)
  BY <1>3, <1>6 DEF LaunchSave, MintCount, EndSweep
<1>7. CASE \/ MintCheckExisting(w) \/ MintBranch(w) \/ MintStoreBranch(w)
           \/ EndRoot(w) \/ EndSave(w)
  BY <1>2, <1>3, <1>7
     DEF MintCheckExisting, MintBranch, MintStoreBranch, EndRoot, EndSave, FireLabels, HookLabels
<1>8. CASE EndReadCards(w)
  <2> DEFINE todo == {u \in Active : ChainConfigured /\ cards[u].branch # 0}
             seen == [u \in Users |-> cards[u].marked]
             l == [loc[w] EXCEPT !.todo = todo, !.seen = seen]
             label == IF todo = {} THEN "end_sweep" ELSE "end_batch"
  <2>1. Goto(w, label, l) /\ label \notin FireLabels \cup HookLabels
    BY <1>8 DEF EndReadCards, FireLabels, HookLabels
  <2>2. todo \subseteq Users BY DEF Active
  <2> HIDE DEF todo, seen
  <2>3. l.todo = todo /\ l.seen = seen /\ l.fired = loc[w].fired BY <1>0 DEF Locals
  <2> HIDE DEF l, label
  <2> QED BY <1>1, <2>1, <2>2, <2>3 DEF seen
<1>9. CASE EndBatch(w)
  <2>1. ASSUME NEW B, Goto(w, "end_fruit", [loc[w] EXCEPT !.batch = B, !.todo = @ \ B])
        PROVE  MarksInv'
    <3> DEFINE l == [loc[w] EXCEPT !.batch = B, !.todo = @ \ B]
    <3>1. l.todo \subseteq loc[w].todo /\ l.seen = loc[w].seen /\ l.fired = loc[w].fired
      BY <1>0 DEF Locals
    <3>2. Goto(w, "end_fruit", l) BY <2>1
    <3> HIDE DEF l
    <3> QED BY <1>1, <3>1, <3>2 DEF FireLabels, HookLabels
  <2>2. CASE Goto(w, "end_sweep", loc[w])
    BY <1>2, <2>2 DEF FireLabels, HookLabels
  <2> QED BY <1>9, <2>1, <2>2 DEF EndBatch
<1>10. CASE EndFruit(w)
  <2>1. ASSUME NEW B, NEW label \in {"end_fruit", "end_batch", "end_sweep"},
               Goto(w, label, [loc[w] EXCEPT !.batch = B])
        PROVE  MarksInv'
    <3> DEFINE l == [loc[w] EXCEPT !.batch = B]
    <3>1. l.todo \subseteq loc[w].todo /\ l.seen = loc[w].seen /\ l.fired = loc[w].fired
      BY <1>0 DEF Locals
    <3>2. Goto(w, label, l) BY <2>1
    <3> HIDE DEF l
    <3> QED BY <1>1, <2>1, <3>1, <3>2 DEF FireLabels, HookLabels
  <2>2. CASE Goto(w, "end_sweep", loc[w])
    BY <1>2, <2>2 DEF FireLabels, HookLabels
  <2> QED BY <1>10, <2>1, <2>2 DEF EndFruit
<1> QED BY <1>4, <1>5, <1>6, <1>7, <1>8, <1>9, <1>10

\* card.create: nobody has read the card yet, and its marks are of events that
\* were counted.
LEMMA MintMarksKeep ==
  ASSUME IInv, MarksInv, NEW w \in Workers, MintCreate(w)
  PROVE  MarksInv'
<1> DEFINE u == loc[w].user
<1>0. /\ TypeOK /\ loc[w] \in Locals /\ u \in Users
      /\ \A v \in Workers : loc[v].todo \subseteq Holders
      /\ pc[w] \notin FireLabels \cup HookLabels /\ UNCHANGED firedCount
  BY Unfold DEF WorkerOK, MintCreate, MintLabels, FireLabels, HookLabels, firedVars, TypeOK
<1>1. CASE Finish(w) /\ UNCHANGED cards
  <2>1. Keeps(w) BY <1>0, <1>1, BlankFired, KeepsBlank DEF Finish, FireLabels, Counted
  <2> QED BY <1>0, <1>1, <2>1, SameMarksKeep DEF Finish, SameMarks
<1>2. ASSUME u \notin Holders, NEW g \in Grids, cards' = [cards EXCEPT ![u] = NewCard(loc[w], g)],
             NEW label \in Uncounted, Goto(w, label, loc[w])
      PROVE  MarksInv'
  <2> DEFINE row == NewCard(loc[w], g)
  <2>1. row.grid = g /\ row.marked = SquaresOf(g, loc[w].fired)
    BY DEF NewCard, NoCard
  <2>2. EverCounted' = EverCounted BY <1>0 DEF EverCounted
  <2>3. SoFar \subseteq SoFar' BY <1>0, <1>2, <2>2, FiringMoves
  <2>4. cards' = [cards EXCEPT ![u] = row] BY <1>2
  <2> HIDE DEF row, u
  <2>5. cards'[u] = row /\ \A v \in Users \ {u} : cards'[v] = cards[v]
    BY <1>0, <2>4 DEF TypeOK
  <2>6. loc[w].fired \subseteq EverCounted BY DEF MarksInv, ReadsFired
  <2>7. \A v \in Users : cards'[v].marked \subseteq SquaresOf(cards'[v].grid, SoFar')
    <3>1. SquaresOf(g, loc[w].fired) \subseteq SquaresOf(g, SoFar')
      BY <2>2, <2>6 DEF SquaresOf, SoFar
    <3>2. ASSUME NEW v \in Users \ {u}
          PROVE  cards'[v].marked \subseteq SquaresOf(cards'[v].grid, SoFar')
      BY <2>3, <2>5 DEF MarksInv, RowsFired, SquaresOf
    <3> QED BY <2>1, <2>5, <3>1, <3>2
  <2>8. \A v \in Workers, x \in Users : x \in loc[v].todo => cards'[x].grid = cards[x].grid
    BY <1>0, <1>2, <2>5 DEF u
  <2>9. pc'[w] = label /\ loc'[w] = loc[w] BY <1>0, <1>2 DEF Goto, TypeOK
  <2>10. Keeps(w)
    <3>1. label \notin FireLabels /\ label \notin Counted /\ label # "hook_count"
      BY DEF Uncounted, FireLabels, Counted
    <3>2. ASSUME NEW x \in loc[w].todo
          PROVE  loc[w].seen[x] \subseteq SquaresOf(cards'[x].grid, SoFar')
      <4>1. loc[w].seen[x] \subseteq SquaresOf(cards[x].grid, SoFar)
        BY DEF MarksInv, ReadsFired
      <4>2. x \in Users BY <1>0 DEF Holders
      <4> QED BY <2>3, <2>8, <4>1, <4>2 DEF SquaresOf
    <3>3. \A x \in loc'[w].todo : loc'[w].seen[x] \subseteq SquaresOf(cards'[x].grid, SoFar')
      BY <2>9, <3>2
    <3> QED BY <2>2, <2>3, <2>6, <2>9, <3>1, <3>3 DEF Keeps, ReadsFired, SquaresOf
  <2>11. \A v \in Workers : ReadsFired(v)' BY <1>0, <1>2, <2>8, <2>10, OthersRead
  <2>12. RowsFired' BY <2>7 DEF RowsFired, SquaresOf
  <2> QED BY <2>11, <2>12 DEF MarksInv
<1> QED
  <2>1. \/ Finish(w) /\ UNCHANGED cards
        \/ /\ u \notin Holders
           /\ \E g \in Grids : cards' = [cards EXCEPT ![u] = NewCard(loc[w], g)]
           /\ \E label \in Uncounted : Goto(w, label, loc[w])
    BY DEF MintCreate, Uncounted
  <2> QED BY <1>1, <1>2, <2>1

\* Both loops read marks of events fired before.
LEMMA ReadMarksKeep ==
  ASSUME TypeOK, MarksInv, NEW w \in Workers, FireRead(w) \/ HookRead(w)
  PROVE  MarksInv'
<1> DEFINE todo == {u \in Active : Unmarked(u, loc[w].event) # {}}
           seen == [u \in Users |-> cards[u].marked]
           l == [loc[w] EXCEPT !.todo = todo, !.seen = seen]
<1>0. loc[w] \in Locals /\ ReadsFired(w) BY DEF TypeOK, MarksInv
<1>1. PICK label :
        /\ Goto(w, label, l)
        /\ \/ pc[w] = "fire_read" /\ label \in {"fire_card", "fire_log"}
           \/ pc[w] = "hook_read" /\ label \in {"hook_card", "hook_log"}
  BY DEF FireRead, HookRead, ReadCards
<1>2. SameMarks /\ EverCounted' = EverCounted
  BY DEF FireRead, HookRead, ReadCards, SameMarks, firedVars, EverCounted
<1>3. todo \subseteq Users BY DEF Active
<1> HIDE DEF todo, seen
<1>4. l.todo = todo /\ l.seen = seen /\ l.fired = loc[w].fired /\ l.event = loc[w].event
  BY <1>0 DEF Locals
<1> HIDE DEF l
<1>5. pc'[w] = label /\ loc'[w] = l BY <1>1 DEF Goto, TypeOK
<1>6. SoFar \subseteq SoFar'
  BY <1>1, <1>2, <1>4, FiringMoves DEF FireLabels, HookLabels
<1>7. \A u \in loc'[w].todo : loc'[w].seen[u] \subseteq SquaresOf(cards'[u].grid, SoFar')
  <2>1. ASSUME NEW u \in todo PROVE seen[u] \subseteq SquaresOf(cards'[u].grid, SoFar')
    BY <1>2, <1>3, <1>6 DEF seen, SameMarks, MarksInv, RowsFired, SquaresOf
  <2> QED BY <1>4, <1>5, <2>1
<1>8. /\ pc'[w] \in FireLabels => loc'[w].event \in Events
      /\ pc'[w] \in Counted => loc'[w].event \in EverCounted'
      /\ pc'[w] # "hook_count"
  BY <1>0, <1>1, <1>2, <1>4, <1>5 DEF ReadsFired, FireLabels, Counted
<1>9. loc'[w].fired \subseteq EverCounted' BY <1>0, <1>2, <1>4, <1>5 DEF ReadsFired
<1>10. Keeps(w) BY <1>2, <1>6, <1>7, <1>8, <1>9 DEF Keeps, ReadsFired, SquaresOf
<1> QED BY <1>1, <1>2, <1>10, SameMarksKeep

\* And write them back with the squares of the event they fire.
LEMMA WriteMarksKeep ==
  ASSUME TypeOK, MarksInv, NEW w \in Workers, FireCard(w) \/ HookCard(w)
  PROVE  MarksInv'
<1>0. loc[w] \in Locals /\ ReadsFired(w) BY DEF TypeOK, MarksInv
<1>1. PICK u, p, label :
        LET m == loc[w].seen[u] \cup SquaresOf(cards[u].grid, {loc[w].event}) IN
        /\ u \in loc[w].todo
        /\ cards' = [cards EXCEPT ![u].marked = m, ![u].patterns = p]
        /\ Goto(w, label, [loc[w] EXCEPT !.todo = loc[w].todo \ {u}])
        /\ \/ pc[w] = "fire_card" /\ label \in {"fire_card", "fire_log"}
           \/ pc[w] = "hook_card" /\ label \in {"hook_card", "hook_log"}
  BY DEF FireCard, HookCard, MarkCard
<1> DEFINE m == loc[w].seen[u] \cup SquaresOf(cards[u].grid, {loc[w].event})
           todo == loc[w].todo \ {u}
           l == [loc[w] EXCEPT !.todo = todo]
<1>2. EverCounted' = EverCounted BY DEF FireCard, HookCard, MarkCard, firedVars, EverCounted
<1> HIDE DEF todo
<1>3. /\ l.todo = todo /\ l.seen = loc[w].seen /\ l.fired = loc[w].fired
      /\ l.event = loc[w].event
  BY <1>0 DEF Locals
<1>4. Goto(w, label, l) BY <1>1 DEF todo
<1> HIDE DEF l
<1>5. pc'[w] = label /\ loc'[w] = l BY <1>4 DEF Goto, TypeOK
<1>6. SoFar \subseteq SoFar'
  BY <1>1, <1>2, <1>3, <1>4, FiringMoves DEF FireLabels, HookLabels
<1>7. loc[w].event \in SoFar
  <2>1. loc[w].event \in Events BY <1>0, <1>1 DEF ReadsFired, FireLabels, Counted, EverCounted
  <2>2. pc[w] \in FireLabels \cup HookLabels BY <1>1 DEF FireLabels, HookLabels
  <2> QED BY <2>1, <2>2, ConstantsAssumption DEF SoFar, Firing, InFlight
<1>8. loc[w].todo \subseteq Users BY <1>0 DEF Locals
<1>9. m \subseteq SquaresOf(cards[u].grid, SoFar)
  BY <1>0, <1>1, <1>7 DEF ReadsFired, SquaresOf
<1>10. cards' = [cards EXCEPT ![u].marked = m, ![u].patterns = p] BY <1>1
<1> HIDE DEF m
<1>11. \A v \in Users : /\ cards'[v].grid = cards[v].grid
                        /\ cards'[v].marked = IF v = u THEN m ELSE cards[v].marked
  <2>1. ASSUME NEW v \in Users
        PROVE  /\ [cards[v] EXCEPT !.marked = m, !.patterns = p].grid = cards[v].grid
               /\ [cards[v] EXCEPT !.marked = m, !.patterns = p].marked = m
    BY DEF TypeOK, Card
  <2>2. \A v \in Users : cards'[v] = IF v = u THEN [cards[v] EXCEPT !.marked = m, !.patterns = p]
                                              ELSE cards[v]
    BY <1>10 DEF TypeOK
  <2> QED BY <2>1, <2>2
<1>12. RowsFired'
  <2>1. ASSUME NEW v \in Users PROVE cards'[v].marked \subseteq SquaresOf(cards'[v].grid, SoFar')
    BY <1>6, <1>9, <1>11 DEF MarksInv, RowsFired, SquaresOf
  <2> QED BY <2>1 DEF RowsFired, SquaresOf
<1>13. Keeps(w)
  <2>1. ASSUME NEW x \in todo PROVE loc[w].seen[x] \subseteq SquaresOf(cards'[x].grid, SoFar')
    BY <1>0, <1>6, <1>8, <1>11 DEF todo, ReadsFired, SquaresOf
  <2>2. \A x \in loc'[w].todo : loc'[w].seen[x] \subseteq SquaresOf(cards'[x].grid, SoFar')
    BY <1>3, <1>5, <2>1
  <2>3. /\ pc'[w] \in FireLabels => loc'[w].event \in Events
        /\ pc'[w] \in Counted => loc'[w].event \in EverCounted'
        /\ pc'[w] # "hook_count" /\ loc'[w].fired \subseteq EverCounted'
    BY <1>0, <1>1, <1>2, <1>3, <1>5 DEF ReadsFired, FireLabels, Counted
  <2> QED BY <1>2, <1>6, <2>2, <2>3 DEF Keeps, ReadsFired, SquaresOf
<1>14. \A v \in Workers : ReadsFired(v)' BY <1>4, <1>11, <1>13, OthersRead
<1> QED BY <1>12, <1>14 DEF MarksInv

\* A counter that goes up.
LEMMA CountedMore ==
  ASSUME TypeOK, NEW x, firedCount' = [firedCount EXCEPT ![x] = @ + 1]
  PROVE  EverCounted \subseteq EverCounted' /\ (x \in Events => x \in EverCounted')
BY DEF TypeOK, EverCounted

\* A firing that counts leaves the event with those that were fired.
LEMMA CountMarksKeep ==
  ASSUME TypeOK, MarksInv, NEW w \in Workers,
         FireLog(w) \/ FireCount(w) \/ HookCount(w) \/ HookLog(w)
  PROVE  MarksInv'
<1>0. loc[w] \in Locals /\ ReadsFired(w) BY DEF TypeOK, MarksInv
<1>1. SameMarks BY DEF FireLog, FireCount, HookCount, HookLog, SameMarks
<1>2. ASSUME NEW label, NEW l, Goto(w, label, l), EverCounted \subseteq EverCounted',
             SoFar \subseteq SoFar',
             l.todo \subseteq loc[w].todo, l.seen = loc[w].seen \/ l.todo = {},
             l.fired = loc[w].fired \/ l.fired = {},
             label \in FireLabels => l.event \in Events,
             label \in Counted => l.event \in EverCounted',
             label = "hook_count" => l.event = Null
      PROVE  MarksInv'
  <2>1. pc'[w] = label /\ loc'[w] = l BY <1>2 DEF Goto, TypeOK
  <2>2. loc[w].todo \subseteq Users BY <1>0 DEF Locals
  <2>3. ASSUME NEW x \in l.todo PROVE l.seen[x] \subseteq SquaresOf(cards'[x].grid, SoFar')
    <3>1. loc[w].seen[x] \subseteq SquaresOf(cards[x].grid, SoFar) BY <1>0, <1>2 DEF ReadsFired
    <3>2. cards'[x].grid = cards[x].grid BY <1>1, <1>2, <2>2 DEF SameMarks
    <3> QED BY <1>2, <3>1, <3>2 DEF SquaresOf
  <2>4. \A x \in loc'[w].todo : loc'[w].seen[x] \subseteq SquaresOf(cards'[x].grid, SoFar')
    BY <2>1, <2>3
  <2>5. l.fired \subseteq EverCounted' BY <1>0, <1>2 DEF ReadsFired
  <2>6. Keeps(w) BY <1>2, <2>1, <2>4, <2>5 DEF Keeps, ReadsFired, SquaresOf
  <2> QED BY <1>1, <1>2, <2>6, SameMarksKeep
<1>3. CASE FireLog(w)
  <2>1. /\ pc[w] = "fire_log" /\ Goto(w, "fire_count", loc[w]) /\ EverCounted' = EverCounted
    BY <1>3 DEF FireLog, EverCounted
  <2>2. SoFar \subseteq SoFar' BY <2>1, FiringMoves DEF FireLabels
  <2> QED BY <1>0, <1>2, <2>1, <2>2 DEF ReadsFired, FireLabels, Counted
<1>4. CASE FireCount(w)
  <2>1. /\ pc[w] = "fire_count" /\ Goto(w, "idle", Blank)
        /\ firedCount' = [firedCount EXCEPT ![loc[w].event] = @ + 1]
    BY <1>4 DEF FireCount, Finish
  <2>2. EverCounted \subseteq EverCounted' /\ loc[w].event \in EverCounted'
    BY <1>0, <2>1, CountedMore DEF ReadsFired, FireLabels
  <2>3. SoFar \subseteq SoFar' BY <2>1, <2>2, FiringMoves
  <2> QED BY <1>2, <2>1, <2>2, <2>3, BlankFired DEF FireLabels, Counted
<1>5. CASE HookCount(w)
  <2>0. PICK x \in loc[w].queue :
          /\ firedCount' = [firedCount EXCEPT ![x] = @ + 1]
          /\ Goto(w, "hook_read", [loc[w] EXCEPT !.event = x, !.queue = @ \ {x}])
    BY <1>5 DEF HookCount
  <2> DEFINE l == [loc[w] EXCEPT !.event = x, !.queue = @ \ {x}]
  <2>1. /\ l.event = x /\ l.todo = loc[w].todo /\ l.seen = loc[w].seen
        /\ l.fired = loc[w].fired /\ x \in Events
    BY <1>0 DEF Locals
  <2>2. Goto(w, "hook_read", l) BY <2>0
  <2> HIDE DEF l
  <2>3. EverCounted \subseteq EverCounted' /\ x \in EverCounted' BY <2>0, <2>1, CountedMore
  <2>4. pc[w] = "hook_count" /\ loc[w].event = Null BY <1>0, <1>5 DEF HookCount, ReadsFired
  <2>5. SoFar \subseteq SoFar' BY <2>2, <2>3, <2>4, FiringMoves
  <2> QED BY <1>2, <2>1, <2>2, <2>3, <2>5 DEF FireLabels, Counted
<1>6. CASE HookLog(w)
  <2>1. pc[w] = "hook_log" /\ EverCounted' = EverCounted BY <1>6 DEF HookLog, EverCounted
  <2>2. PICK label, l : /\ Goto(w, label, l) /\ label \in {"idle", "hook_count"}
                        /\ l.todo = {} /\ l.fired = {} /\ l.event = Null
    <3>1. CASE loc[w].queue = {}
      BY <1>6, <3>1, BlankFired DEF HookLog, NextEvent, Finish
    <3>2. CASE loc[w].queue # {}
      <4> DEFINE l == [Blank EXCEPT !.queue = loc[w].queue]
      <4>1. l.todo = {} /\ l.fired = {} /\ l.event = Null BY DEF Blank
      <4>2. Goto(w, "hook_count", l) BY <1>6, <3>2 DEF HookLog, NextEvent
      <4> QED BY <4>1, <4>2
    <3> QED BY <3>1, <3>2
  <2>3. loc[w].event \in EverCounted' BY <1>0, <2>1 DEF ReadsFired, Counted
  <2>4. SoFar \subseteq SoFar' BY <2>1, <2>2, <2>3, FiringMoves
  <2> QED BY <1>2, <2>1, <2>2, <2>4 DEF FireLabels, Counted
<1> QED BY <1>3, <1>4, <1>5, <1>6

\* Without faults, no card shows a mark for an event that was not fired,
\* whatever the mint read before a firing (cards.ts:203) and whatever grids
\* the overlapping loops write back (episodes.ts:778, webhooks.ts:422).
THEOREM MarksAreFired == ASSUME MaxFaults = 0 PROVE Spec => []MarkedWasFired
<1>1. Init => MarksInv
  <2> SUFFICES ASSUME Init PROVE MarksInv OBVIOUS
  <2>1. \A u \in Users : cards[u].marked = {} BY DEF Init, NoCard
  <2>2. \A w \in Workers : loc[w] = Blank /\ pc[w] = "idle" BY DEF Init
  <2> QED BY <2>1, <2>2, BlankFired DEF MarksInv, RowsFired, ReadsFired, FireLabels, Counted
<1>2. IInv /\ MarksInv /\ [Next]_vars => MarksInv'
  <2> SUFFICES ASSUME IInv, MarksInv, [Next]_vars PROVE MarksInv' OBVIOUS
  <2>0. TypeOK BY Unfold
  <2>1. CASE UNCHANGED vars
    BY <2>1
    DEF vars, firedVars, MarksInv, RowsFired, ReadsFired, SoFar, EverCounted, Firing, InFlight,
        SquaresOf
  <2>2. ASSUME NEW w \in Workers, Start(w) PROVE MarksInv'
    BY <2>0, <2>2, StartKeeps
  <2>3. ASSUME NEW w \in Workers, Step(w) PROVE MarksInv'
    BY <2>0, <2>3, OtherMarksKeep, MintMarksKeep, ReadMarksKeep, WriteMarksKeep, CountMarksKeep
       DEF Step
  <2> QED BY <2>0, <2>1, <2>2, <2>3, NoFault
<1>3. MarksInv => MarkedWasFired
  BY DEF MarksInv, RowsFired, MarkedWasFired, SoFar, EverCounted, Holders, SquaresOf
<1> QED BY <1>1, <1>2, <1>3, InvInit, InvStep, PTL DEF Spec

(***************************************************************************)
(* The status and the root, with launches that overlap                     *)
(***************************************************************************)

\* A root a branch may hang under: the episode still points to it, or a launch
\* that overlapped the first one has been saved.
UnderRoot(r) == r \in {0, 1} /\ (r = 0 \/ rootTokenId = 1 \/ relaunched > 0)

\* What the requests in flight have read of the root and of the status.
RootOK(w) ==
  /\ pc[w] \in LaunchLabels => w \in Consoles /\ loc[w].root \in {0, 1}
  /\ pc[w] \in EndLabels => status # "draft"
  /\ pc[w] \in MintLabels => UnderRoot(loc[w].root)

RootInv ==
  /\ RelaunchBound
  /\ rootTokenId \in {0, 1}
  /\ status = "draft" => rootTokenId = 0
  /\ \A u \in Users : UnderRoot(cards[u].branch)
  /\ \A w \in Workers : RootOK(w)

\* How a step may move the status.
Onward == \/ status = "draft" /\ status' = "live"
          \/ status = "live" /\ status' = "ended"
          \/ status = "ended" /\ status' = "live" /\ relaunched' = relaunched + 1

SameBranches == \A u \in Users : cards'[u].branch = cards[u].branch

SameEpisode == UNCHANGED <<status, rootTokenId, relaunched>>

LEMMA LabelsApart ==
  /\ MintLabels \cap (LaunchLabels \cup EndLabels \cup FireLabels \cup HookLabels \cup {"idle"}) = {}
  /\ LaunchLabels \cap (EndLabels \cup FireLabels \cup HookLabels \cup {"idle"}) = {}
  /\ EndLabels \cap (FireLabels \cup HookLabels \cup {"idle"}) = {}
BY DEF MintLabels, LaunchLabels, EndLabels, FireLabels, HookLabels

\* Launches in flight are requests of the streamer, and finitely many.
LEMMA LaunchingFinite ==
  ASSUME RootInv
  PROVE  /\ Launching \subseteq Consoles /\ IsFiniteSet(Launching)
         /\ Cardinality(Launching) \in Nat /\ Cardinality(Consoles) \in Nat
         /\ Cardinality(Launching) <= Cardinality(Consoles)
<1>1. Launching \subseteq Consoles BY DEF RootInv, RootOK, Launching, InFlight
<1>2. IsFiniteSet(Consoles)
  BY FiniteAssumption, FS_Subset, Consoles \subseteq Viewers \cup Consoles \cup Hooks
<1> QED BY <1>1, <1>2, FS_Subset, FS_CardinalityType

\* A step that leaves the episode's row alone and starts no launch after it.
LEMMA RelaunchSteady ==
  ASSUME TypeOK, RootInv, UNCHANGED <<status, relaunched>>,
         status # "draft" => Launching' \subseteq Launching
  PROVE  RelaunchBound'
<1>1. CASE status = "draft" BY <1>1 DEF RootInv, RelaunchBound
<1>2. CASE status # "draft"
  <2>1. Cardinality(Launching') <= Cardinality(Launching) /\ Cardinality(Launching') \in Nat
    BY <1>2, LaunchingFinite, FS_Subset, FS_CardinalityType
  <2>2. relaunched + Cardinality(Launching) < Cardinality(Consoles) /\ relaunched \in Nat
    BY <1>2 DEF RootInv, RelaunchBound, TypeOK
  <2>3. relaunched + Cardinality(Launching') < Cardinality(Consoles)
    BY <2>1, <2>2, LaunchingFinite
  <2> QED BY <1>2, <2>3 DEF RelaunchBound
<1> QED BY <1>1, <1>2

\* A step of w that leaves the episode's row alone.
LEMMA RootSteady ==
  ASSUME TypeOK, RootInv, NEW w \in Workers, NEW label, NEW l, Goto(w, label, l),
         SameEpisode, SameBranches,
         label \in LaunchLabels => /\ w \in Consoles /\ l.root \in {0, 1}
                                   /\ status = "draft" \/ pc[w] \in LaunchLabels,
         label \in EndLabels => status # "draft",
         label \in MintLabels => UnderRoot(l.root)
  PROVE  RootInv'
<1>1. /\ pc'[w] = label /\ loc'[w] = l
      /\ \A v \in Workers \ {w} : pc'[v] = pc[v] /\ loc'[v] = loc[v]
  BY DEF Goto, TypeOK
<1>2. \A r : UnderRoot(r) => UnderRoot(r)' BY DEF UnderRoot, SameEpisode
<1>3. ASSUME NEW v \in Workers PROVE RootOK(v)'
  <2>1. CASE v = w BY <1>1, <1>2, <2>1 DEF RootOK, SameEpisode, UnderRoot
  <2>2. CASE v # w BY <1>1, <2>2 DEF RootInv, RootOK, SameEpisode, UnderRoot
  <2> QED BY <2>1, <2>2
<1>4. status # "draft" => Launching' \subseteq Launching
  BY <1>1 DEF Launching, InFlight
<1>5. RelaunchBound' BY <1>4, RelaunchSteady DEF SameEpisode
<1>6. \A u \in Users : UnderRoot(cards[u].branch)' BY DEF RootInv, SameBranches, SameEpisode, UnderRoot
<1> QED BY <1>3, <1>5, <1>6 DEF RootInv, SameEpisode

\* One that goes nowhere that matters to the root.
LEMMA RootElsewhere ==
  ASSUME TypeOK, RootInv, NEW w \in Workers, NEW label, NEW l, Goto(w, label, l),
         SameEpisode, SameBranches,
         label \notin MintLabels \cup LaunchLabels,
         label \in EndLabels => status # "draft"
  PROVE  RootInv'
BY RootSteady

\* Steps that write no branch and no status.
LEMMA BranchesSame ==
  ASSUME TypeOK, NEW w \in Workers, Start(w) \/ Step(w) \/ DbError(w) \/ HookError(w),
         ~MintCreate(w), ~MintStoreBranch(w)
  PROVE  SameBranches /\ (~EndFruit(w) /\ ~EndSweep(w) => \A u \in Users : cards'[u].status = cards[u].status)
<1>0. cards \in [Users -> Card] BY DEF TypeOK
<1>1. CASE UNCHANGED cards BY <1>1 DEF SameBranches
<1>2. CASE FireCard(w) \/ HookCard(w)
  <2>1. PICK u, m, p : cards' = [cards EXCEPT ![u].marked = m, ![u].patterns = p]
    BY <1>2 DEF FireCard, HookCard, MarkCard
  <2>2. ASSUME NEW v \in Users
        PROVE  cards'[v].branch = cards[v].branch /\ cards'[v].status = cards[v].status
    <3>1. cards'[v] = cards[v] \/ cards'[v] = [cards[v] EXCEPT !.marked = m, !.patterns = p]
      BY <1>0, <2>1
    <3>2. /\ [cards[v] EXCEPT !.marked = m, !.patterns = p].branch = cards[v].branch
          /\ [cards[v] EXCEPT !.marked = m, !.patterns = p].status = cards[v].status
      BY <1>0 DEF Card
    <3> QED BY <3>1, <3>2
  <2> QED BY <2>2 DEF SameBranches
<1>3. CASE EndFruit(w)
  <2>1. ASSUME NEW u, cards' = [cards EXCEPT ![u] = [Fruited(@) EXCEPT !.fruit = {loc[w].seen[u]}]]
        PROVE  SameBranches
    <3> DEFINE f == {loc[w].seen[u]}
    <3>1. \A v \in Users : cards'[v] = cards[v] \/ cards'[v] = [Fruited(cards[v]) EXCEPT !.fruit = f]
      BY <1>0, <2>1
    <3> HIDE DEF f
    <3>2. \A v \in Users : [Fruited(cards[v]) EXCEPT !.fruit = f].branch = cards[v].branch
      BY <1>0 DEF Card, Fruited
    <3> QED BY <3>1, <3>2 DEF SameBranches
  <2> QED BY <1>1, <1>3, <2>1 DEF EndFruit
<1>4. CASE EndSweep(w)
  <2>1. \A v \in Users : cards'[v] = cards[v] \/ cards'[v] = Fruited(cards[v])
    BY <1>4 DEF EndSweep
  <2>2. \A v \in Users : Fruited(cards[v]).branch = cards[v].branch
    BY <1>0 DEF Card, Fruited
  <2> QED BY <1>4, <2>1, <2>2 DEF SameBranches
<1> QED BY <1>1, <1>2, <1>3, <1>4, CardWriters

LEMMA RootStart ==
  ASSUME TypeOK, RootInv, NEW w \in Workers, Start(w)
  PROVE  RootInv' /\ UNCHANGED status
<1>0. SameEpisode /\ SameBranches
  BY DEF Start, LaunchRead, EndRead, MintRead, FireStart, HookStart, episodeVars, auxVars,
         SameBranches, SameEpisode
<1>b. Blank.root = 0 /\ UnderRoot(0) BY DEF Blank, UnderRoot
<1>1. CASE LaunchRead(w)
  <2>1. PICK label \in LaunchLabels : Goto(w, label, Blank) /\ status = "draft" /\ w \in Consoles
    BY <1>1 DEF LaunchRead, Begin, Goto, LaunchLabels
  <2> QED BY <1>0, <1>b, <2>1, RootSteady, LabelsApart DEF SameEpisode
<1>2. CASE EndRead(w)
  <2>1. PICK label \in EndLabels : Goto(w, label, Blank) /\ status = "live"
    BY <1>2 DEF EndRead, Begin, Goto, EndLabels
  <2> QED BY <1>0, <2>1, RootElsewhere, LabelsApart DEF SameEpisode
<1>3. ASSUME NEW u \in Users, MintRead(w, u) PROVE RootInv'
  <2> DEFINE l == [Blank EXCEPT !.user = u, !.status = status, !.minted = cardsMinted, !.fired = Fired]
  <2>1. l.root = 0 BY DEF Blank
  <2>2. Goto(w, "mint_root", l) BY <1>3 DEF MintRead, Begin, Goto
  <2> HIDE DEF l
  <2>3. "mint_root" \in MintLabels BY DEF MintLabels
  <2> QED BY <1>0, <1>b, <2>1, <2>2, <2>3, RootSteady, LabelsApart
<1>4. ASSUME NEW e \in Events, FireStart(w, e) PROVE RootInv'
  <2>1. PICK l : Goto(w, "fire_read", l) BY <1>4 DEF FireStart, Begin, Goto
  <2>2. "fire_read" \in FireLabels BY DEF FireLabels
  <2> QED BY <1>0, <2>1, <2>2, RootElsewhere, LabelsApart
<1>5. ASSUME NEW E \in SUBSET Events, HookStart(w, E) PROVE RootInv'
  <2>1. PICK l : Goto(w, "hook_count", l) BY <1>5 DEF HookStart, Begin, Goto
  <2>2. "hook_count" \in HookLabels BY DEF HookLabels
  <2> QED BY <1>0, <2>1, <2>2, RootElsewhere, LabelsApart
<1> QED BY <1>0, <1>1, <1>2, <1>3, <1>4, <1>5 DEF Start, SameEpisode

\* The launch saves 'live' and its root.  The first to do so finds no branch and
\* no mint that has read a root; one that comes later is counted, and was one of
\* the launches in flight.
LEMMA RootLaunchSave ==
  ASSUME TypeOK, RootInv, NEW w \in Workers, LaunchSave(w)
  PROVE  RootInv' /\ (Onward \/ UNCHANGED status)
<1>0. /\ RootOK(w) /\ pc[w] = "launch_save" /\ UNCHANGED cards
      /\ status' = "live" /\ rootTokenId' = loc[w].root
      /\ relaunched' = relaunched + (IF status = "draft" THEN 0 ELSE 1)
      /\ relaunched \in Nat /\ status \in {"draft", "live", "ended"}
  BY DEF LaunchSave, RootInv, TypeOK
<1>1. /\ pc'[w] = "idle"
      /\ \A v \in Workers \ {w} : pc'[v] = pc[v] /\ loc'[v] = loc[v]
  BY DEF LaunchSave, Finish, Goto, TypeOK
<1>2. w \in Launching /\ rootTokenId' \in {0, 1}
  BY <1>0 DEF Launching, InFlight, RootOK, LaunchLabels
<1>3. Launching' = Launching \ {w}
  BY <1>1, LabelsApart DEF Launching, InFlight
<1>4. Cardinality(Launching') = Cardinality(Launching) - 1
  BY <1>2, <1>3, LaunchingFinite, FS_RemoveElement
<1>5. RelaunchBound'
  <2>1. CASE status = "draft"
    <3>1. relaunched' = 0 BY <1>0, <2>1 DEF RootInv, RelaunchBound
    <3> QED BY <1>0, <1>4, <3>1, LaunchingFinite DEF RelaunchBound
  <2>2. CASE status # "draft"
    <3>1. relaunched + Cardinality(Launching) < Cardinality(Consoles)
      BY <2>2 DEF RootInv, RelaunchBound
    <3>2. relaunched' + Cardinality(Launching') < Cardinality(Consoles)
      BY <1>0, <1>4, <2>2, <3>1, LaunchingFinite
    <3> QED BY <1>0, <3>2 DEF RelaunchBound
  <2> QED BY <2>1, <2>2
<1>6. ASSUME NEW r, UnderRoot(r) PROVE UnderRoot(r)'
  <2>1. CASE status = "draft"
    <3>1. r = 0 BY <1>6, <2>1 DEF RootInv, RelaunchBound, UnderRoot
    <3> QED BY <3>1 DEF UnderRoot
  <2>2. CASE status # "draft" BY <1>0, <1>6, <2>2 DEF UnderRoot
  <2> QED BY <2>1, <2>2
<1>7. ASSUME NEW v \in Workers PROVE RootOK(v)'
  <2>1. CASE v = w BY <1>1, <2>1, LabelsApart DEF RootOK
  <2>2. CASE v # w
    <3>1. RootOK(v) /\ pc'[v] = pc[v] /\ loc'[v] = loc[v] BY <1>1, <2>2 DEF RootInv
    <3>2. pc[v] \in MintLabels => UnderRoot(loc[v].root)' BY <1>6, <3>1 DEF RootOK, UnderRoot
    <3> QED BY <1>0, <3>1, <3>2 DEF RootOK, UnderRoot
  <2> QED BY <2>1, <2>2
<1>8. \A u \in Users : UnderRoot(cards[u].branch)'
  <2>1. ASSUME NEW u \in Users PROVE UnderRoot(cards[u].branch)'
    <3>1. cards'[u].branch = cards[u].branch /\ UnderRoot(cards[u].branch) BY <1>0 DEF RootInv
    <3> QED BY <1>6, <3>1 DEF UnderRoot
  <2> QED BY <2>1
<1>9. Onward \/ UNCHANGED status BY <1>0 DEF Onward
<1> QED BY <1>0, <1>2, <1>5, <1>7, <1>8, <1>9 DEF RootInv

\* The end saves 'ended', long after the draft.
LEMMA RootEndSave ==
  ASSUME TypeOK, RootInv, NEW w \in Workers, EndSave(w)
  PROVE  RootInv' /\ (Onward \/ UNCHANGED status)
<1>0. /\ pc[w] = "end_save" /\ UNCHANGED <<rootTokenId, cards, relaunched>> /\ status' = "ended"
      /\ status \in {"draft", "live", "ended"}
  BY DEF EndSave, auxVars, TypeOK
<1>1. /\ pc'[w] = "end_read"
      /\ \A v \in Workers \ {w} : pc'[v] = pc[v] /\ loc'[v] = loc[v]
  BY DEF EndSave, Goto, TypeOK
<1>2. status # "draft" BY <1>0 DEF RootInv, RootOK, EndLabels
<1>3. Launching' \subseteq Launching
  BY <1>1 DEF Launching, InFlight, LaunchLabels
<1>4. RelaunchBound'
  <2>1. Cardinality(Launching') <= Cardinality(Launching) /\ Cardinality(Launching') \in Nat
    BY <1>3, LaunchingFinite, FS_Subset, FS_CardinalityType
  <2>2. relaunched + Cardinality(Launching) < Cardinality(Consoles) /\ relaunched \in Nat
    BY <1>2 DEF RootInv, RelaunchBound, TypeOK
  <2>3. relaunched + Cardinality(Launching') < Cardinality(Consoles)
    BY <2>1, <2>2, LaunchingFinite
  <2> QED BY <1>0, <2>3 DEF RelaunchBound
<1>5. ASSUME NEW v \in Workers PROVE RootOK(v)'
  <2>1. CASE v = w
    <3>1. "end_read" \notin LaunchLabels \cup MintLabels BY DEF LaunchLabels, MintLabels
    <3> QED BY <1>0, <1>1, <2>1, <3>1 DEF RootOK
  <2>2. CASE v # w BY <1>0, <1>1, <2>2 DEF RootInv, RootOK, UnderRoot
  <2> QED BY <2>1, <2>2
<1>6. \A u \in Users : UnderRoot(cards[u].branch)' BY <1>0 DEF RootInv, UnderRoot
<1> QED BY <1>0, <1>2, <1>4, <1>5, <1>6 DEF RootInv, Onward

\* The steps of a mint; card.create writes no branch, card.update the root read.
LEMMA RootMint ==
  ASSUME TypeOK, RootInv, NEW w \in Workers,
         \/ MintReadRoot(w) \/ MintCheckExisting(w) \/ MintCreate(w)
         \/ MintBranch(w) \/ MintStoreBranch(w) \/ MintCount(w)
  PROVE  RootInv' /\ UNCHANGED status
<1>0. /\ RootOK(w) /\ loc[w] \in Locals /\ SameEpisode
      /\ pc[w] \in MintLabels
  BY DEF RootInv, MintReadRoot, MintCheckExisting, MintCreate, MintBranch, MintStoreBranch,
         MintCount, episodeVars, auxVars, TypeOK, MintLabels, SameEpisode
<1>r. UnderRoot(loc[w].root) /\ UnderRoot(rootTokenId) /\ UnderRoot(0)
  BY <1>0 DEF RootOK, RootInv, UnderRoot
<1>1. CASE SameBranches
  <2>0. ASSUME NEW label \in MintLabels, NEW l, UnderRoot(l.root), Goto(w, label, l)
        PROVE  RootInv'
    <3>1. label \notin LaunchLabels /\ label \notin EndLabels BY LabelsApart
    <3> QED BY <1>0, <1>1, <2>0, <3>1, RootSteady
  <2>1. CASE Finish(w)
    <3>1. /\ "idle" \notin MintLabels \cup LaunchLabels
          /\ "idle" \notin EndLabels
      BY LabelsApart
    <3>2. Goto(w, "idle", Blank) BY <2>1 DEF Finish
    <3>3. RootInv' BY <1>0, <1>1, <3>1, <3>2, RootElsewhere
    <3> QED BY <1>0, <3>3 DEF SameEpisode
  <2>2. CASE \E label \in MintLabels : Goto(w, label, loc[w])
    BY <1>0, <1>r, <2>0, <2>2 DEF SameEpisode
  <2>3. CASE Goto(w, "mint_exists", [loc[w] EXCEPT !.root = rootTokenId])
    <3> DEFINE l == [loc[w] EXCEPT !.root = rootTokenId]
    <3>1. l.root = rootTokenId BY <1>0 DEF Locals
    <3>2. Goto(w, "mint_exists", l) BY <2>3
    <3> HIDE DEF l
    <3>3. "mint_exists" \in MintLabels BY DEF MintLabels
    <3> QED BY <1>0, <1>r, <2>0, <3>1, <3>2, <3>3 DEF SameEpisode
  <2> QED
    BY <2>1, <2>2, <2>3
    DEF MintReadRoot, MintCheckExisting, MintCreate, MintBranch, MintStoreBranch, MintCount,
        MintLabels
<1>2. ASSUME NEW r, UnderRoot(r), NEW label \in MintLabels, Goto(w, label, loc[w]),
             \A v \in Users : cards'[v].branch = cards[v].branch \/ cards'[v].branch = r
      PROVE  RootInv'
  <2>1. /\ pc'[w] = label
        /\ \A v \in Workers : loc'[v] = loc[v] /\ (v # w => pc'[v] = pc[v])
    BY <1>2 DEF Goto, TypeOK
  <2>2. ASSUME NEW v \in Workers PROVE RootOK(v)'
    BY <1>0, <1>r, <1>2, <2>1, LabelsApart DEF RootInv, RootOK, SameEpisode, UnderRoot
  <2>3. \A v \in Users : UnderRoot(cards[v].branch)'
    BY <1>0, <1>2 DEF RootInv, SameEpisode, UnderRoot
  <2>4. Launching' \subseteq Launching BY <1>2, <2>1, LabelsApart DEF Launching, InFlight
  <2>5. RelaunchBound' BY <1>0, <2>4, RelaunchSteady DEF SameEpisode
  <2> QED BY <1>0, <2>2, <2>3, <2>5 DEF RootInv, SameEpisode
<1>3. CASE MintCreate(w) /\ ~UNCHANGED cards
  <2> DEFINE u == loc[w].user
  <2>1. PICK g : cards' = [cards EXCEPT ![u] = NewCard(loc[w], g)] /\ u \notin Holders
    BY <1>3 DEF MintCreate
  <2>2. NewCard(loc[w], g).branch = 0 BY DEF NewCard, NoCard
  <2> DEFINE row == NewCard(loc[w], g)
  <2> HIDE DEF row, u
  <2>3. \A v \in Users : cards'[v].branch = cards[v].branch \/ cards'[v].branch = 0
    BY <2>1, <2>2 DEF row, TypeOK
  <2>4. PICK label \in MintLabels : Goto(w, label, loc[w])
    BY <1>3 DEF MintCreate, MintLabels
  <2> QED BY <1>0, <1>r, <1>2, <2>3, <2>4 DEF SameEpisode
<1>4. CASE MintStoreBranch(w) /\ ~UNCHANGED cards
  <2> DEFINE u == loc[w].user
             r == loc[w].root
  <2>1. cards' = [cards EXCEPT ![u].branch = r] /\ Goto(w, "mint_count", loc[w])
    BY <1>4 DEF MintStoreBranch
  <2>2. UnderRoot(r) BY <1>r
  <2> HIDE DEF u, r
  <2>3. ASSUME NEW v \in Users PROVE cards'[v].branch = cards[v].branch \/ cards'[v].branch = r
    <3>1. cards[v] \in Card BY DEF TypeOK
    <3>2. cards'[v] = cards[v] \/ cards'[v] = [cards[v] EXCEPT !.branch = r]
      BY <2>1 DEF TypeOK
    <3>3. [cards[v] EXCEPT !.branch = r].branch = r BY <3>1 DEF Card
    <3> QED BY <3>2, <3>3
  <2>4. "mint_count" \in MintLabels BY DEF MintLabels
  <2> QED BY <1>0, <1>2, <2>1, <2>2, <2>3, <2>4 DEF SameEpisode
<1>5. UNCHANGED cards => SameBranches BY DEF SameBranches
<1> QED BY <1>0, <1>1, <1>3, <1>4, <1>5
        DEF MintReadRoot, MintCheckExisting, MintBranch, MintCount, SameEpisode

\* The rest of the handlers.
LEMMA RootRest ==
  ASSUME TypeOK, RootInv, NEW w \in Workers,
         \/ LaunchRoot(w) \/ FireRead(w) \/ FireCard(w) \/ FireLog(w) \/ FireCount(w)
         \/ HookCount(w) \/ HookRead(w) \/ HookCard(w) \/ HookLog(w)
         \/ EndRoot(w) \/ EndReadCards(w) \/ EndBatch(w) \/ EndFruit(w) \/ EndSweep(w)
         \/ DbError(w) \/ HookError(w)
  PROVE  RootInv' /\ UNCHANGED status
<1>0. SameBranches /\ RootOK(w)
  <2>1. CASE DbError(w) \/ HookError(w)
    BY <2>1 DEF DbError, HookError, SameBranches, RootInv
  <2>2. CASE ~DbError(w) /\ ~HookError(w)
    <3>1. pc[w] \notin {"mint_create", "mint_store"}
      BY <2>2 DEF LaunchRoot, FireRead, FireCard, FireLog, FireCount, HookCount, HookRead, HookCard,
                  HookLog, EndRoot, EndReadCards, EndBatch, EndFruit, EndSweep
    <3>2. ~MintCreate(w) /\ ~MintStoreBranch(w) BY <3>1 DEF MintCreate, MintStoreBranch
    <3>3. Step(w) BY <2>2 DEF Step
    <3> QED BY <3>2, <3>3, BranchesSame DEF RootInv
  <2> QED BY <2>1, <2>2
<1>e. SameEpisode
  BY DEF LaunchRoot, FireRead, FireCard, FireLog, FireCount, HookCount, HookRead, HookCard, HookLog,
         ReadCards, MarkCard, EndRoot, EndReadCards, EndBatch, EndFruit, EndSweep, DbError, HookError,
         episodeVars, auxVars, SameEpisode
<1>1. CASE LaunchRoot(w)
  <2>1. PICK l : Goto(w, "launch_save", l) /\ pc[w] = "launch_root" /\ l.root \in {0, 1}
    BY <1>1 DEF LaunchRoot, Blank
  <2>2. {"launch_save", "launch_root"} \subseteq LaunchLabels BY DEF LaunchLabels
  <2> QED BY <1>0, <1>e, <2>1, <2>2, RootSteady, LabelsApart DEF RootOK, SameEpisode
<1>2. CASE \/ FireRead(w) \/ FireCard(w) \/ FireLog(w) \/ FireCount(w)
           \/ HookCount(w) \/ HookRead(w) \/ HookCard(w) \/ HookLog(w)
           \/ DbError(w) \/ HookError(w)
  <2>1. PICK label, l : Goto(w, label, l) /\ label \in FireLabels \cup HookLabels \cup {"idle"}
    BY <1>2 DEF FireRead, FireCard, FireLog, FireCount, HookCount, HookRead, HookCard, HookLog,
                ReadCards, MarkCard, DbError, HookError, NextEvent, Finish, FireLabels, HookLabels
  <2> QED BY <1>0, <1>e, <2>1, RootElsewhere, LabelsApart DEF SameEpisode
<1>3. CASE \/ EndRoot(w) \/ EndReadCards(w) \/ EndBatch(w) \/ EndFruit(w) \/ EndSweep(w)
  <2>1. pc[w] \in EndLabels
    BY <1>3 DEF EndRoot, EndReadCards, EndBatch, EndFruit, EndSweep, EndLabels
  <2>2. PICK label, l : Goto(w, label, l) /\ label \in EndLabels \cup {"idle"}
    BY <1>3 DEF EndRoot, EndReadCards, EndBatch, EndFruit, EndSweep, Finish, EndLabels
  <2> QED BY <1>0, <1>e, <2>1, <2>2, RootElsewhere, LabelsApart DEF RootOK, SameEpisode
<1> QED BY <1>1, <1>2, <1>3

LEMMA RootStep ==
  ASSUME TypeOK, RootInv, Next PROVE RootInv' /\ (Onward \/ UNCHANGED status)
<1>1. CASE Crash
  <2>1. /\ \A w \in Workers : pc'[w] = "idle"
        /\ SameEpisode /\ UNCHANGED cards
    BY <1>1 DEF Crash, episodeVars, SameEpisode
  <2>2. Launching' = {} BY <2>1, LabelsApart DEF Launching, InFlight
  <2>3. RelaunchBound' BY <2>1, <2>2, RelaunchSteady DEF SameEpisode
  <2>4. \A w \in Workers : RootOK(w)' BY <2>1, LabelsApart DEF RootOK
  <2> QED BY <2>1, <2>3, <2>4 DEF RootInv, SameEpisode, UnderRoot
<1>2. ASSUME NEW w \in Workers, Start(w) \/ Step(w) \/ DbError(w) \/ HookError(w)
      PROVE  RootInv' /\ (Onward \/ UNCHANGED status)
  BY <1>2, RootStart, RootLaunchSave, RootEndSave, RootMint, RootRest DEF Step
<1> QED BY <1>1, <1>2 DEF Next

LEMMA RootCorrect == Spec => [](TypeOK /\ RootInv)
<1>1. Init => RootInv
  <2> SUFFICES ASSUME Init PROVE RootInv OBVIOUS
  <2>1. \A u \in Users : cards[u].branch = 0 BY DEF Init, NoCard
  <2>2. \A w \in Workers : pc[w] = "idle" BY DEF Init
  <2>3. status = "draft" /\ relaunched = 0 /\ rootTokenId = 0 BY DEF Init
  <2>4. RelaunchBound BY <2>3 DEF RelaunchBound
  <2> QED BY <2>1, <2>2, <2>3, <2>4, LabelsApart DEF RootInv, RootOK, UnderRoot
<1>2. TypeOK /\ RootInv /\ [Next]_vars => RootInv'
  <2> SUFFICES ASSUME TypeOK, RootInv, [Next]_vars PROVE RootInv' OBVIOUS
  <2>1. CASE UNCHANGED vars
    BY <2>1 DEF vars, episodeVars, auxVars, RootInv, RootOK, RelaunchBound, UnderRoot, Launching,
                InFlight
  <2> QED BY <2>1, RootStep
<1> QED BY <1>1, <1>2, TypeCorrect, PTL DEF Spec

\* For any number of requests of the streamer that overlap: a branch token hangs
\* under the root the episode points to, or a launch that overlapped the first
\* one has replaced that root by null (episodes.ts:295, cards.ts:142, 263); and
\* such launches are fewer than the requests that run together.
THEOREM BranchesUnderRoot == Spec => []BranchUnderRoot
<1>1. TypeOK /\ RootInv => BranchUnderRoot
  BY DEF TypeOK, RootInv, UnderRoot, BranchUnderRoot
<1> QED BY <1>1, RootCorrect, PTL

\* And although the saves of episodes.ts:295 and 353 check nothing, the status
\* only moves from draft to live and from live to ended, save for those launches.
THEOREM StatusMovesForward == Spec => StatusForward
<1>1. TypeOK /\ RootInv /\ [Next]_vars => [Onward]_status
  BY RootStep DEF vars, episodeVars
<1> QED BY <1>1, RootCorrect, PTL DEF Spec, StatusForward, Onward

(***************************************************************************)
(* The cards that are left when the end has swept the table                *)
(***************************************************************************)

Swept == status = "ended" /\ InFlight(Ending) = {}

\* A mint past its checks read the episode live.
Live(w) == pc[w] \in {"mint_exists", "mint_create"} => loc[w].status = "live"

StragglerInv == StragglerBound /\ \A w \in Workers : Live(w)

\* A step that leaves no more cards active and lets no more mints in.
Lessens(w) ==
  /\ Swept' => Swept
  /\ Active' \subseteq Active
  /\ \E label, l :
       /\ Goto(w, label, l)
       /\ label \in {"mint_exists", "mint_create"} => l.status = "live"
       /\ Swept' => (label \in {"mint_root", "mint_exists", "mint_create"} /\ l.status = "live"
                       => w \in Admitted)

LEMMA StragglersFinite ==
  ASSUME IInv
  PROVE  /\ IsFiniteSet(Active) /\ Cardinality(Active) \in Nat
         /\ IsFiniteSet(Admitted) /\ Cardinality(Admitted) \in Nat
         /\ Admitted \subseteq Viewers /\ Cardinality(Admitted) <= Cardinality(Viewers)
         /\ Cardinality(Viewers) \in Nat
<1>1. Active \subseteq Users BY DEF Active
<1>2. Admitted \subseteq Viewers
  BY Unfold DEF Admitted, InFlight, WorkerOK, MintLabels
<1>3. Viewers \subseteq Workers /\ IsFiniteSet(Workers)
  BY FiniteAssumption DEF Workers
<1> QED BY <1>1, <1>2, <1>3, FiniteAssumption, FS_Subset, FS_CardinalityType

LEMMA LessensKeeps ==
  ASSUME IInv, StragglerInv, NEW w \in Workers, Lessens(w)
  PROVE  StragglerInv'
<1>0. TypeOK BY Unfold
<1>1. PICK label, l :
        /\ Goto(w, label, l)
        /\ label \in {"mint_exists", "mint_create"} => l.status = "live"
        /\ Swept' => (label \in {"mint_root", "mint_exists", "mint_create"} /\ l.status = "live"
                        => w \in Admitted)
  BY DEF Lessens
<1>2. /\ pc'[w] = label /\ loc'[w] = l
      /\ \A v \in Workers \ {w} : pc'[v] = pc[v] /\ loc'[v] = loc[v]
  BY <1>0, <1>1 DEF Goto, TypeOK
<1>3. \A v \in Workers : Live(v)' BY <1>1, <1>2 DEF StragglerInv, Live
<1>4. ASSUME Swept' PROVE Cardinality(Active') + Cardinality(Admitted') <= Cardinality(Viewers)
  <2>1. Admitted' \subseteq Admitted
    BY <1>1, <1>2, <1>4 DEF Admitted, InFlight
  <2>2. /\ Cardinality(Admitted') \in Nat /\ Cardinality(Admitted') <= Cardinality(Admitted)
        /\ Cardinality(Active') \in Nat /\ Cardinality(Active') <= Cardinality(Active)
    BY <2>1, StragglersFinite, FS_Subset, FS_CardinalityType DEF Lessens
  <2>3. Cardinality(Active) + Cardinality(Admitted) <= Cardinality(Viewers)
    BY <1>4 DEF Lessens, StragglerInv, StragglerBound, Swept
  <2> QED BY <2>2, <2>3, StragglersFinite
<1> QED BY <1>3, <1>4 DEF StragglerInv, StragglerBound, Swept

\* Also when the card table may say anything: the end has still to sweep it.
LEMMA NotSweptKeeps ==
  ASSUME TypeOK, StragglerInv, NEW w \in Workers, NEW label, NEW l, Goto(w, label, l),
         label \notin MintLabels, status' # "ended" \/ label \in Ending
  PROVE  StragglerInv'
<1>1. /\ pc'[w] = label
      /\ \A v \in Workers \ {w} : pc'[v] = pc[v] /\ loc'[v] = loc[v]
  BY DEF Goto, TypeOK
<1>2. \A v \in Workers : Live(v)' BY <1>1 DEF StragglerInv, Live, MintLabels
<1>3. ~Swept' BY <1>1 DEF Swept, InFlight
<1> QED BY <1>2, <1>3 DEF StragglerInv, StragglerBound, Swept

\* A step that stays out of the end, with no card becoming active.
LEMMA Outside ==
  ASSUME TypeOK, NEW w \in Workers, NEW label, NEW l, Goto(w, label, l),
         UNCHANGED status, Active' \subseteq Active, pc[w] \notin Ending,
         label \in {"mint_root", "mint_exists", "mint_create"} =>
           IF label = "mint_root" THEN l.status = status ELSE w \in Admitted /\ l.status = "live"
  PROVE  Lessens(w)
<1>1. \A v \in Workers \ {w} : pc'[v] = pc[v] BY DEF Goto, TypeOK
<1>2. Swept' => Swept
  BY <1>1 DEF Swept, InFlight
<1>3. Swept' => status # "live" BY <1>2 DEF Swept
<1> QED BY <1>2, <1>3 DEF Lessens

LEMMA ActiveSame ==
  ASSUME TypeOK, \A u \in Users : cards'[u].status = cards[u].status
  PROVE  Active' = Active
BY DEF Active

\* The requests that start something.
LEMMA StragglerStart ==
  ASSUME IInv, StragglerInv, NEW w \in Workers, Start(w)
  PROVE  StragglerInv'
<1>0. TypeOK BY Unfold
<1>1. /\ UNCHANGED <<status, cards>> /\ pc[w] = "idle"
  BY DEF Start, LaunchRead, EndRead, MintRead, FireStart, HookStart, Begin, episodeVars
<1>2. Active' = Active BY <1>1 DEF Active
<1>3. ASSUME NEW u \in Users, MintRead(w, u) PROVE Lessens(w)
  <2> DEFINE l == [Blank EXCEPT !.user = u, !.status = status, !.minted = cardsMinted, !.fired = Fired]
  <2>1. l.status = status BY DEF Blank
  <2>2. Goto(w, "mint_root", l) BY <1>3 DEF MintRead, Begin, Goto
  <2> HIDE DEF l
  <2> QED BY <1>0, <1>1, <1>2, <2>1, <2>2, Outside DEF Ending
<1>4. ASSUME ~\E u \in Users : MintRead(w, u) PROVE Lessens(w)
  <2>1. PICK label, l : Goto(w, label, l) /\ label \notin MintLabels
    BY <1>4 DEF Start, LaunchRead, EndRead, FireStart, HookStart, Begin, Goto, MintLabels
  <2> QED BY <1>0, <1>1, <1>2, <2>1, Outside DEF Ending, MintLabels
<1> QED BY <1>3, <1>4, LessensKeeps

\* card.create turns an admitted mint into an active card.
LEMMA StragglerCreate ==
  ASSUME IInv, StragglerInv, NEW w \in Workers, MintCreate(w)
  PROVE  StragglerInv'
<1> DEFINE u == loc[w].user
<1>0. /\ TypeOK /\ pc[w] = "mint_create" /\ UNCHANGED status /\ u \in Users
      /\ loc[w].status = "live"
  BY Unfold DEF MintCreate, episodeVars, WorkerOK, MintLabels, StragglerInv, Live
<1>1. CASE Finish(w) /\ UNCHANGED cards
  <2>1. Active' = Active BY <1>1 DEF Active
  <2>2. Lessens(w) BY <1>0, <1>1, <2>1, Outside DEF Finish, Ending
  <2> QED BY <2>2, LessensKeeps
<1>2. ASSUME NEW g, cards' = [cards EXCEPT ![u] = NewCard(loc[w], g)],
             NEW label \in Uncounted, Goto(w, label, loc[w])
      PROVE  StragglerInv'
  <2> DEFINE row == NewCard(loc[w], g)
  <2>1. Active' \subseteq Active \cup {u}
    <3> HIDE DEF row, u
    <3>1. \A v \in Users : v # u => cards'[v] = cards[v] BY <1>2 DEF TypeOK, row, u
    <3> QED BY <3>1 DEF Active
  <2>2. /\ pc'[w] = label /\ loc'[w] = loc[w]
        /\ \A v \in Workers \ {w} : pc'[v] = pc[v] /\ loc'[v] = loc[v]
    BY <1>0, <1>2 DEF Goto, TypeOK
  <2>3. w \in Admitted BY <1>0 DEF Admitted, InFlight
  <2>4. Admitted' = Admitted \ {w}
    BY <2>2 DEF Admitted, InFlight, Uncounted
  <2>5. \A v \in Workers : Live(v)' BY <2>2 DEF StragglerInv, Live, Uncounted
  <2>6. Cardinality(Admitted') = Cardinality(Admitted) - 1
    BY <2>3, <2>4, StragglersFinite, FS_RemoveElement
  <2>7. Cardinality(Active') \in Nat /\ Cardinality(Active') <= Cardinality(Active) + 1
    <3>1. IsFiniteSet(Active \cup {u}) /\ Cardinality(Active \cup {u}) <= Cardinality(Active) + 1
      BY StragglersFinite, FS_AddElement
    <3> QED BY <2>1, <3>1, StragglersFinite, FS_Subset, FS_CardinalityType
  <2>8. Swept' => Swept
    BY <1>0, <2>2 DEF Swept, InFlight, Ending
  <2>9. Swept' => Cardinality(Active') + Cardinality(Admitted') <= Cardinality(Viewers)
    <3>1. Swept => Cardinality(Active) + Cardinality(Admitted) <= Cardinality(Viewers)
      BY DEF StragglerInv, StragglerBound, Swept
    <3> QED BY <2>6, <2>7, <2>8, <3>1, StragglersFinite
  <2> QED BY <2>5, <2>9 DEF StragglerInv, StragglerBound, Swept
<1>3. \/ Finish(w) /\ UNCHANGED cards
      \/ /\ \E g \in Grids : cards' = [cards EXCEPT ![u] = NewCard(loc[w], g)]
         /\ \E label \in Uncounted : Goto(w, label, loc[w])
  BY DEF MintCreate, Uncounted
<1> QED BY <1>1, <1>2, <1>3

\* The sweep leaves no active card behind, and each mint that it leaves is a
\* viewers' worker.
LEMMA StragglerSweep ==
  ASSUME IInv, StragglerInv, NEW w \in Workers, EndSweep(w)
  PROVE  StragglerInv'
<1>0. TypeOK BY Unfold
<1>1. /\ pc'[w] = "idle"
      /\ \A v \in Workers \ {w} : pc'[v] = pc[v] /\ loc'[v] = loc[v]
  BY <1>0 DEF EndSweep, Finish, Goto, TypeOK
<1>2. Active' = {}
  <2>1. \A u \in Users : Fruited(cards[u]).status = "fruited"
    BY <1>0 DEF TypeOK, Card, Fruited
  <2> QED BY <2>1 DEF EndSweep, Active
<1>3. Admitted' \subseteq Admitted BY <1>1 DEF Admitted, InFlight
<1>4. Cardinality(Active') = 0 BY <1>2, FS_EmptySet
<1>5. Cardinality(Admitted') \in Nat /\ Cardinality(Admitted') <= Cardinality(Admitted)
  BY <1>3, StragglersFinite, FS_Subset, FS_CardinalityType
<1>6. \A v \in Workers : Live(v)' BY <1>1 DEF StragglerInv, Live
<1> QED BY <1>4, <1>5, <1>6, StragglersFinite DEF StragglerInv, StragglerBound

LEMMA StragglerStep ==
  ASSUME IInv, StragglerInv, NEW w \in Workers, Step(w), ~MintCreate(w), ~EndSweep(w)
  PROVE  StragglerInv'
<1>0. TypeOK /\ loc[w] \in Locals /\ Live(w) /\ WorkerOK(w)
  BY Unfold DEF TypeOK, StragglerInv
<1>1. CASE LaunchSave(w)
  BY <1>0, <1>1, NotSweptKeeps DEF LaunchSave, Finish, MintLabels
<1>2. CASE EndSave(w) \/ EndReadCards(w) \/ EndBatch(w) \/ EndFruit(w)
  <2>1. PICK label, l : Goto(w, label, l) /\ label \in Ending
    BY <1>2 DEF EndSave, EndReadCards, EndBatch, EndFruit, Ending
  <2> QED BY <1>0, <2>1, NotSweptKeeps DEF Ending, MintLabels
<1>3. CASE MintStoreBranch(w)
  <2>1. \A v \in Users : cards'[v].status = cards[v].status
    <3> DEFINE u == loc[w].user
               r == loc[w].root
    <3>1. cards' = cards \/ cards' = [cards EXCEPT ![u].branch = r]
      BY <1>3 DEF MintStoreBranch
    <3> HIDE DEF u, r
    <3>2. \A v \in Users : [cards[v] EXCEPT !.branch = r].status = cards[v].status
      BY <1>0 DEF TypeOK, Card
    <3>3. \A v \in Users : \/ cards'[v] = cards[v]
                           \/ cards'[v] = [cards[v] EXCEPT !.branch = r]
      BY <1>0, <3>1 DEF TypeOK
    <3> QED BY <3>2, <3>3
  <2>2. Lessens(w)
    BY <1>0, <1>3, <2>1, ActiveSame, Outside DEF MintStoreBranch, episodeVars, Ending
  <2> QED BY <2>2, LessensKeeps
<1>4. CASE \/ LaunchRoot(w) \/ MintReadRoot(w) \/ MintCheckExisting(w) \/ MintBranch(w)
           \/ MintCount(w) \/ FireRead(w) \/ FireCard(w) \/ FireLog(w) \/ FireCount(w)
           \/ HookCount(w) \/ HookRead(w) \/ HookCard(w) \/ HookLog(w) \/ EndRoot(w)
  <2>1. pc[w] \notin {"end_fruit", "end_sweep", "mint_store"} \cup Ending /\ UNCHANGED status
    BY <1>4
    DEF LaunchRoot, MintReadRoot, MintCheckExisting, MintBranch, MintCount, FireRead, FireCard,
        FireLog, FireCount, HookCount, HookRead, HookCard, HookLog, EndRoot, ReadCards, MarkCard,
        episodeVars, Ending
  <2>2. ~EndFruit(w) /\ ~MintStoreBranch(w) BY <2>1 DEF EndFruit, MintStoreBranch
  <2>3. \A u \in Users : cards'[u].status = cards[u].status BY <1>0, <2>2, BranchesSame
  <2>4. Active' = Active BY <1>0, <2>3, ActiveSame
  <2>5. CASE MintReadRoot(w) /\ ~Finish(w)
    <3> DEFINE l == [loc[w] EXCEPT !.root = rootTokenId]
    <3>1. l.status = loc[w].status BY <1>0 DEF Locals
    <3>2. /\ Goto(w, "mint_exists", l) /\ loc[w].status = "live" /\ pc[w] = "mint_root"
      BY <2>5 DEF MintReadRoot
    <3> HIDE DEF l
    <3>3. w \in Admitted BY <3>2 DEF Admitted, InFlight
    <3> QED BY <1>0, <2>1, <2>4, <3>1, <3>2, <3>3, Outside, LessensKeeps
  <2>6. CASE MintCheckExisting(w) /\ ~Finish(w)
    <3>1. Goto(w, "mint_create", loc[w]) /\ pc[w] = "mint_exists"
      BY <2>6 DEF MintCheckExisting
    <3>2. w \in Admitted /\ loc[w].status = "live"
      BY <1>0, <3>1 DEF Admitted, InFlight, Live
    <3> QED BY <1>0, <2>1, <2>4, <3>1, <3>2, Outside, LessensKeeps
  <2>7. CASE \E label, l : /\ Goto(w, label, l)
                           /\ label \notin {"mint_root", "mint_exists", "mint_create"}
    BY <1>0, <2>1, <2>4, <2>7, Outside, LessensKeeps
  <2>8. CASE LaunchRoot(w) \/ MintBranch(w) \/ MintCount(w) \/ EndRoot(w)
    BY <2>7, <2>8 DEF LaunchRoot, MintBranch, MintCount, EndRoot, Finish
  <2>9. CASE \/ FireRead(w) \/ FireCard(w) \/ FireLog(w) \/ FireCount(w)
             \/ HookCount(w) \/ HookRead(w) \/ HookCard(w) \/ HookLog(w)
    <3>1. PICK label, l : Goto(w, label, l) /\ label \in FireLabels \cup HookLabels \cup {"idle"}
      BY <2>9 DEF FireRead, FireCard, FireLog, FireCount, HookCount, HookRead, HookCard, HookLog,
                  ReadCards, MarkCard, NextEvent, Finish, FireLabels, HookLabels
    <3> QED BY <2>7, <3>1 DEF FireLabels, HookLabels
  <2>10. Finish(w) => StragglerInv' BY <2>7 DEF Finish
  <2> QED BY <1>4, <2>5, <2>6, <2>8, <2>9, <2>10
<1> QED BY <1>1, <1>2, <1>3, <1>4 DEF Step

\* Without faults, the cards that are active after the sweep of the end
\* (episodes.ts:430), with the mints that read the episode live and have yet to
\* create theirs (cards.ts:130, 219), are never more than the mint requests
\* that run together.
THEOREM StragglersBounded == ASSUME MaxFaults = 0 PROVE Spec => []StragglerBound
<1>1. Init => StragglerInv
  BY DEF Init, StragglerInv, StragglerBound, Live
<1>2. IInv /\ StragglerInv /\ [Next]_vars => StragglerInv'
  <2> SUFFICES ASSUME IInv, StragglerInv, [Next]_vars PROVE StragglerInv' OBVIOUS
  <2>0. TypeOK BY Unfold
  <2>1. CASE UNCHANGED vars
    BY <2>1 DEF vars, episodeVars, StragglerInv, StragglerBound, Live, InFlight, Active, Admitted
  <2>2. ASSUME NEW w \in Workers, Start(w) \/ Step(w) PROVE StragglerInv'
    BY <2>2, StragglerStart, StragglerCreate, StragglerSweep, StragglerStep
  <2> QED BY <2>0, <2>1, <2>2, NoFault
<1>3. StragglerInv => StragglerBound BY DEF StragglerInv
<1> QED BY <1>1, <1>2, <1>3, InvInit, InvStep, PTL DEF Spec

(***************************************************************************)
(* Marks, with firings that overlap                                        *)
(***************************************************************************)

\* Among the cards a firing has still to write, those that no other firing had
\* at the same time are in no other hand and stay as it read them.
HandOK(w) ==
  pc[w] \in Writing =>
    \A u \in loc[w].todo \ raced : u \notin InHand(w) /\ loc[w].seen[u] = cards[u].marked

HandsInv == \A w \in Workers : HandOK(w)

MarksGrow == \A u \in Holders \ raced : cards[u].marked \subseteq cards'[u].marked

\* A step of w leaves the other requests where they are.
Apart(w) == \A v \in Workers \ {w} : pc'[v] = pc[v] /\ loc'[v] = loc[v]

\* A step of w after which w writes none but what it had to write before.
LEMMA HandsKeep ==
  ASSUME TypeOK, HandsInv, NEW w \in Workers, Apart(w), pc'[w] \notin Writing,
         raced \subseteq raced',
         \A v \in Workers : \A u \in loc[v].todo : cards'[u].marked = cards[u].marked
  PROVE  HandsInv'
<1>1. \A v \in Workers : InHand(v)' \subseteq InHand(v) BY DEF InHand, Apart
<1>2. ASSUME NEW v \in Workers, v # w PROVE HandOK(v)'
  <2>1. pc'[v] = pc[v] /\ loc'[v] = loc[v] /\ HandOK(v) BY <1>2 DEF HandsInv, Apart
  <2>2. ASSUME pc[v] \in Writing, NEW u \in loc[v].todo \ raced'
        PROVE  u \notin InHand(v)' /\ loc[v].seen[u] = cards'[u].marked
    BY <1>1, <2>1, <2>2 DEF HandOK
  <2> QED BY <2>1, <2>2 DEF HandOK
<1>3. HandOK(w)' BY DEF HandOK
<1> QED BY <1>2, <1>3 DEF HandsInv

\* The steps that neither read cards for a firing nor write for one.
Plain(w) ==
  \/ Start(w) \/ DbError(w) \/ HookError(w)
  \/ LaunchRoot(w) \/ LaunchSave(w)
  \/ MintReadRoot(w) \/ MintCheckExisting(w) \/ MintBranch(w) \/ MintStoreBranch(w) \/ MintCount(w)
  \/ FireLog(w) \/ FireCount(w) \/ HookCount(w) \/ HookLog(w)
  \/ EndRoot(w) \/ EndSave(w) \/ EndReadCards(w) \/ EndBatch(w) \/ EndFruit(w) \/ EndSweep(w)

\* Where a step takes the request that makes it: to a write of marks only from a
\* firing, and into a firing only from one or from a live episode.
LEMMA Moves ==
  ASSUME TypeOK, NEW w \in Workers, Start(w) \/ Step(w) \/ DbError(w) \/ HookError(w)
  PROVE  /\ Apart(w)
         /\ Plain(w) \/ MintCreate(w) => pc'[w] \notin Writing
         /\ status # "live" =>
              /\ pc'[w] \in FireLabels => pc[w] \in FireLabels
              /\ pc'[w] \in HookLabels => pc[w] \in HookLabels
<1> DEFINE Launches == LaunchRoot(w) \/ LaunchSave(w)
           Mints == \/ MintReadRoot(w) \/ MintCheckExisting(w) \/ MintCreate(w)
                    \/ MintBranch(w) \/ MintStoreBranch(w) \/ MintCount(w)
           Fires == FireRead(w) \/ FireCard(w) \/ FireLog(w) \/ FireCount(w)
           Notices == HookCount(w) \/ HookRead(w) \/ HookCard(w) \/ HookLog(w)
           Ends == \/ EndRoot(w) \/ EndSave(w) \/ EndReadCards(w) \/ EndBatch(w)
                   \/ EndFruit(w) \/ EndSweep(w)
           Quiet == pc'[w] \notin Writing
           Late == status # "live" =>
                     /\ pc'[w] \in FireLabels => pc[w] \in FireLabels
                     /\ pc'[w] \in HookLabels => pc[w] \in HookLabels
<1>0. pc \in [Workers -> Labels] /\ loc \in [Workers -> Locals] BY DEF TypeOK
<1>1. Start(w) => Apart(w) /\ Quiet /\ Late
  BY <1>0
  DEF Start, LaunchRead, EndRead, MintRead, FireStart, HookStart, Begin, Writing, FireLabels,
      HookLabels, Apart
<1>2. Launches \/ Mints => Apart(w) /\ Quiet /\ Late
  <2>1. Launches \/ Mints =>
          Apart(w) /\ pc'[w] \in {"idle"} \cup MintLabels \cup LaunchLabels
    BY <1>0
    DEF LaunchRoot, LaunchSave, MintReadRoot, MintCheckExisting, MintCreate, MintBranch,
        MintStoreBranch, MintCount, Finish, Goto, Apart, MintLabels, LaunchLabels
  <2> QED BY <2>1 DEF MintLabels, LaunchLabels, Writing, FireLabels, HookLabels
<1>3. Fires => Apart(w) /\ Late
  <2>1. Fires => Apart(w) /\ pc[w] \in FireLabels /\ pc'[w] \in {"idle"} \cup FireLabels
    BY <1>0
    DEF FireRead, FireCard, FireLog, FireCount, ReadCards, MarkCard, Finish, Goto, Apart, FireLabels
  <2> QED BY <2>1 DEF FireLabels, HookLabels
<1>4. Notices => Apart(w) /\ Late
  <2>1. Notices => Apart(w) /\ pc[w] \in HookLabels /\ pc'[w] \in {"idle"} \cup HookLabels
    BY <1>0
    DEF HookCount, HookRead, HookCard, HookLog, ReadCards, MarkCard, NextEvent, Finish, Goto, Apart,
        HookLabels
  <2> QED BY <2>1 DEF FireLabels, HookLabels
<1>5. FireLog(w) \/ FireCount(w) \/ HookCount(w) \/ HookLog(w) => Quiet
  BY <1>0 DEF FireLog, FireCount, HookCount, HookLog, NextEvent, Finish, Goto, Writing
<1>6. Ends => Apart(w) /\ Quiet /\ Late
  <2>1. Ends => Apart(w) /\ pc'[w] \in {"idle"} \cup EndLabels
    BY <1>0
    DEF EndRoot, EndSave, EndReadCards, EndBatch, EndFruit, EndSweep, Finish, Goto, Apart, EndLabels
  <2> QED BY <2>1 DEF EndLabels, Writing, FireLabels, HookLabels
<1>7. DbError(w) \/ HookError(w) => Apart(w) /\ Quiet /\ Late
  <2>1. DbError(w) \/ HookError(w) =>
          /\ Apart(w)
          /\ pc'[w] = "idle" \/ (pc'[w] = "hook_count" /\ pc[w] \in HookLabels)
    BY <1>0 DEF DbError, HookError, NextEvent, Finish, Goto, Apart
  <2> QED BY <2>1 DEF Writing, FireLabels, HookLabels
<1> HIDE DEF Quiet, Late
<1>8. Apart(w) /\ Late BY <1>1, <1>2, <1>3, <1>4, <1>6, <1>7 DEF Step
<1>9. Plain(w) \/ MintCreate(w) => Quiet BY <1>1, <1>2, <1>5, <1>6, <1>7 DEF Plain
<1> QED BY <1>8, <1>9 DEF Quiet, Late

LEMMA PlainSteps ==
  ASSUME TypeOK, NEW w \in Workers, Plain(w)
  PROVE  SameMarks /\ UNCHANGED raced /\ Apart(w) /\ pc'[w] \notin Writing
<1>1. SameMarks
  <2>1. CASE Start(w) \/ DbError(w) \/ HookError(w)
    BY <2>1 DEF Start, LaunchRead, EndRead, MintRead, FireStart, HookStart, DbError, HookError,
                SameMarks
  <2>2. CASE FireLog(w) \/ FireCount(w) \/ HookCount(w) \/ HookLog(w)
    BY <2>2 DEF FireLog, FireCount, HookCount, HookLog, SameMarks
  <2> QED BY <2>1, <2>2, OtherRowsSame DEF Plain
<1>2. UNCHANGED raced
  BY DEF Plain, Start, LaunchRead, EndRead, MintRead, FireStart, HookStart, DbError, HookError,
         LaunchRoot, LaunchSave, MintReadRoot, MintCheckExisting, MintBranch, MintStoreBranch,
         MintCount, FireLog, FireCount, HookCount, HookLog, EndRoot, EndSave, EndReadCards,
         EndBatch, EndFruit, EndSweep, auxVars
<1>3. Apart(w) /\ pc'[w] \notin Writing
  BY Moves DEF Plain, Step
<1> QED BY <1>1, <1>2, <1>3

LEMMA HandsPlain ==
  ASSUME TypeOK, HandsInv, NEW w \in Workers, Plain(w)
  PROVE  HandsInv' /\ MarksGrow
<1>1. Apart(w) /\ pc'[w] \notin Writing BY PlainSteps
<1>2. SameMarks /\ UNCHANGED raced BY PlainSteps
<1>3. \A v \in Workers : loc[v].todo \subseteq Users BY DEF TypeOK, Locals
<1>4. \A v \in Workers : \A u \in loc[v].todo : cards'[u].marked = cards[u].marked
  BY <1>2, <1>3 DEF SameMarks
<1>5. HandsInv' BY <1>1, <1>2, <1>4, HandsKeep
<1>6. MarksGrow BY <1>2 DEF SameMarks, MarksGrow, Holders
<1> QED BY <1>5, <1>6

\* A new card is one that no firing has read.
LEMMA HandsCreate ==
  ASSUME IInv, HandsInv, NEW w \in Workers, MintCreate(w)
  PROVE  HandsInv' /\ MarksGrow
<1> DEFINE u == loc[w].user
<1>0. TypeOK /\ \A v \in Workers : loc[v].todo \subseteq Holders
  BY Unfold DEF WorkerOK
<1>1. Apart(w) /\ pc'[w] \notin Writing
  BY <1>0, Moves DEF Step
<1>2. UNCHANGED raced BY DEF MintCreate, auxVars
<1>3. \A v \in Holders : cards'[v] = cards[v]
  <2>1. CASE UNCHANGED cards BY <2>1
  <2>2. ASSUME u \notin Holders, NEW row, cards' = [cards EXCEPT ![u] = row]
        PROVE  \A v \in Holders : cards'[v] = cards[v]
    <3> HIDE DEF u
    <3> QED BY <1>0, <2>2 DEF Holders, TypeOK
  <2> QED BY <2>1, <2>2 DEF MintCreate
<1>4. \A v \in Workers : \A x \in loc[v].todo : cards'[x].marked = cards[x].marked
  BY <1>0, <1>3
<1>5. HandsInv' BY <1>0, <1>1, <1>2, <1>4, HandsKeep
<1>6. MarksGrow BY <1>3 DEF MarksGrow
<1> QED BY <1>5, <1>6

\* A firing reads the cards; those that another one has in hand are raced.
LEMMA HandsRead ==
  ASSUME TypeOK, HandsInv, NEW w \in Workers, FireRead(w) \/ HookRead(w)
  PROVE  HandsInv' /\ MarksGrow
<1> DEFINE todo == {u \in Active : Unmarked(u, loc[w].event) # {}}
           seen == [u \in Users |-> cards[u].marked]
           l == [loc[w] EXCEPT !.todo = todo, !.seen = seen]
<1>0. loc[w] \in Locals /\ pc[w] \notin Writing /\ UNCHANGED cards
      /\ raced' = (raced \cup todo) \cap InHand(w)
  BY DEF FireRead, HookRead, ReadCards, TypeOK, Writing
<1>1. PICK label : Goto(w, label, l) BY DEF FireRead, HookRead, ReadCards
<1>2. todo \subseteq Users BY DEF Active
<1> HIDE DEF todo
<1>3. l.todo = todo /\ (\A u \in todo : l.seen[u] = cards[u].marked) BY <1>0, <1>2 DEF Locals
<1> HIDE DEF l
<1>4. /\ pc'[w] = label /\ loc'[w] = l
      /\ \A v \in Workers \ {w} : pc'[v] = pc[v] /\ loc'[v] = loc[v]
  BY <1>1 DEF Goto, TypeOK
<1>5. InHand(w)' = InHand(w) BY <1>4 DEF InHand
<1>6. \A v \in Workers : InHand(v)' \subseteq InHand(v) \cup todo BY <1>3, <1>4 DEF InHand
<1>7. HandOK(w)'
  <2>1. ASSUME NEW u \in todo \ raced' PROVE u \notin InHand(w)' /\ l.seen[u] = cards'[u].marked
    BY <1>0, <1>3, <1>5, <2>1
  <2> QED BY <1>3, <1>4, <2>1 DEF HandOK
<1>8. ASSUME NEW v \in Workers, v # w PROVE HandOK(v)'
  <2>1. pc'[v] = pc[v] /\ loc'[v] = loc[v] /\ HandOK(v) BY <1>4, <1>8 DEF HandsInv
  <2>2. ASSUME pc[v] \in Writing, NEW u \in loc[v].todo \ raced'
        PROVE  u \notin InHand(v)' /\ loc[v].seen[u] = cards'[u].marked
    <3>1. u \in InHand(w) BY <1>8, <2>2 DEF InHand
    <3>2. u \notin todo /\ u \notin raced BY <1>0, <2>2, <3>1
    <3> QED BY <1>0, <1>6, <2>1, <2>2, <3>2 DEF HandOK
  <2> QED BY <2>1, <2>2 DEF HandOK
<1>9. HandsInv' BY <1>7, <1>8 DEF HandsInv
<1> QED BY <1>0, <1>9 DEF MarksGrow

\* And writes one of them: what it writes is what the card shows and more, unless
\* the card is raced.
LEMMA HandsWrite ==
  ASSUME TypeOK, HandsInv, NEW w \in Workers, FireCard(w) \/ HookCard(w)
  PROVE  HandsInv' /\ MarksGrow
<1>0. loc[w] \in Locals /\ pc[w] \in Writing /\ HandOK(w) /\ UNCHANGED raced
  BY DEF TypeOK, HandsInv, FireCard, HookCard, MarkCard, Writing, auxVars
<1>1. PICK u, p, label :
        LET m == loc[w].seen[u] \cup SquaresOf(cards[u].grid, {loc[w].event}) IN
        /\ u \in loc[w].todo
        /\ cards' = [cards EXCEPT ![u].marked = m, ![u].patterns = p]
        /\ Goto(w, label, [loc[w] EXCEPT !.todo = loc[w].todo \ {u}])
  BY DEF FireCard, HookCard, MarkCard
<1> DEFINE m == loc[w].seen[u] \cup SquaresOf(cards[u].grid, {loc[w].event})
           todo == loc[w].todo \ {u}
           l == [loc[w] EXCEPT !.todo = todo]
<1>2. cards' = [cards EXCEPT ![u].marked = m, ![u].patterns = p] /\ Goto(w, label, l)
  BY <1>1
<1>3. \A v \in Workers : loc[v].todo \subseteq Users BY DEF TypeOK, Locals
<1>4. u \notin raced => cards[u].marked \subseteq m BY <1>0, <1>1 DEF HandOK
<1> HIDE DEF m, todo
<1>5. \A x \in Users : cards'[x].marked = IF x = u THEN m ELSE cards[x].marked
  <2>1. \A x \in Users : [cards[x] EXCEPT !.marked = m, !.patterns = p].marked = m
    BY DEF TypeOK, Card
  <2>2. \A x \in Users : cards'[x] = IF x = u THEN [cards[x] EXCEPT !.marked = m, !.patterns = p]
                                              ELSE cards[x]
    BY <1>2 DEF TypeOK
  <2> QED BY <2>1, <2>2
<1>6. l.todo = todo /\ l.seen = loc[w].seen BY <1>0 DEF Locals
<1> HIDE DEF l
<1>7. /\ pc'[w] = label /\ loc'[w] = l
      /\ \A v \in Workers \ {w} : pc'[v] = pc[v] /\ loc'[v] = loc[v]
  BY <1>2 DEF Goto, TypeOK
<1>8. \A v \in Workers : InHand(v)' \subseteq InHand(v)
  BY <1>0, <1>6, <1>7 DEF InHand, todo
<1>9. HandOK(w)'
  <2>1. ASSUME NEW x \in todo \ raced PROVE x \notin InHand(w)' /\ l.seen[x] = cards'[x].marked
    <3>1. x \in loc[w].todo /\ x # u /\ x \in Users BY <1>3, <2>1 DEF todo
    <3> QED BY <1>0, <1>5, <1>6, <1>8, <2>1, <3>1 DEF HandOK
  <2> QED BY <1>0, <1>6, <1>7, <2>1 DEF HandOK
<1>10. ASSUME NEW v \in Workers, v # w PROVE HandOK(v)'
  <2>1. pc'[v] = pc[v] /\ loc'[v] = loc[v] /\ HandOK(v) BY <1>7, <1>10 DEF HandsInv
  <2>2. ASSUME pc[v] \in Writing, NEW x \in loc[v].todo \ raced
        PROVE  x \notin InHand(v)' /\ loc[v].seen[x] = cards'[x].marked
    <3>1. x \notin InHand(v) /\ loc[v].seen[x] = cards[x].marked BY <2>1, <2>2 DEF HandOK
    <3>2. x # u BY <1>0, <1>1, <1>10, <3>1 DEF InHand
    <3> QED BY <1>3, <1>5, <1>8, <2>2, <3>1, <3>2
  <2> QED BY <1>0, <2>1, <2>2 DEF HandOK
<1>11. HandsInv' BY <1>9, <1>10 DEF HandsInv
<1>12. MarksGrow BY <1>4, <1>5 DEF MarksGrow, Holders
<1> QED BY <1>11, <1>12

LEMMA HandsCrash ==
  ASSUME Crash PROVE HandsInv' /\ MarksGrow
<1>1. UNCHANGED cards /\ \A w \in Workers : pc'[w] = "idle" BY DEF Crash
<1> QED BY <1>1 DEF HandsInv, HandOK, MarksGrow, Writing

LEMMA HandsNext ==
  ASSUME IInv, HandsInv, Next PROVE HandsInv' /\ MarksGrow
<1>0. TypeOK BY Unfold
<1>1. ASSUME NEW w \in Workers, Start(w) \/ Step(w) \/ DbError(w) \/ HookError(w)
      PROVE  HandsInv' /\ MarksGrow
  BY <1>0, <1>1, HandsPlain, HandsCreate, HandsRead, HandsWrite DEF Step, Plain
<1> QED BY <1>1, HandsCrash DEF Next

\* For any firings that overlap, by hand and from Twitch: a card loses a mark
\* only if two firings had read it and not yet written it at the same time
\* (episodes.ts:748-785, webhooks.ts:399-430).
THEOREM MarksAreKept == Spec => MarksStay
<1>1. Init => HandsInv BY DEF Init, HandsInv, HandOK, Writing
<1>2. IInv /\ HandsInv /\ [Next]_vars => HandsInv'
  <2>1. ASSUME HandsInv, UNCHANGED vars PROVE HandsInv'
    BY <2>1 DEF vars, auxVars, HandsInv, HandOK, InHand
  <2> QED BY <2>1, HandsNext
<1>3. IInv /\ HandsInv /\ [Next]_vars => [MarksGrow]_cards
  BY HandsNext DEF vars
<1> QED BY <1>1, <1>2, <1>3, InvInit, InvStep, PTL DEF Spec, MarksStay, MarksGrow

(***************************************************************************)
(* After the end                                                           *)
(***************************************************************************)

\* What a step may do to the marks once the episode has ended.
LateFiring ==
  status = "ended" =>
    /\ InFlight(FireLabels)' \subseteq InFlight(FireLabels)
    /\ InFlight(HookLabels)' \subseteq InFlight(HookLabels)
    /\ \A u \in Holders :
         \/ /\ cards'[u].marked = cards[u].marked
            /\ cards'[u].patterns = cards[u].patterns
         \/ \E w \in InFlight(Writing) : u \in loc[w].todo \ loc'[w].todo

\* A firing is started on a live episode only.
LEMMA NoLateStart ==
  ASSUME TypeOK, status = "ended", NEW w \in Workers,
         Start(w) \/ Step(w) \/ DbError(w) \/ HookError(w)
  PROVE  /\ InFlight(FireLabels)' \subseteq InFlight(FireLabels)
         /\ InFlight(HookLabels)' \subseteq InFlight(HookLabels)
<1>1. /\ Apart(w)
      /\ pc'[w] \in FireLabels => pc[w] \in FireLabels
      /\ pc'[w] \in HookLabels => pc[w] \in HookLabels
  BY Moves
<1> QED BY <1>1 DEF InFlight, Apart

\* Marks and patterns change by the write of a firing, which is then done with
\* the card.
LEMMA MarksWriters ==
  ASSUME TypeOK, NEW w \in Workers, Start(w) \/ Step(w) \/ DbError(w) \/ HookError(w),
         NEW u \in Holders
  PROVE  \/ /\ cards'[u].marked = cards[u].marked
            /\ cards'[u].patterns = cards[u].patterns
         \/ w \in InFlight(Writing) /\ u \in loc[w].todo \ loc'[w].todo
<1>u. u \in Users BY DEF Holders
<1>1. CASE Plain(w) BY <1>u, <1>1, PlainSteps DEF SameMarks
<1>2. CASE FireRead(w) \/ HookRead(w) BY <1>2 DEF FireRead, HookRead, ReadCards
<1>3. CASE MintCreate(w)
  <2> DEFINE x == loc[w].user
  <2>1. CASE UNCHANGED cards BY <2>1
  <2>2. ASSUME x \notin Holders, NEW row, cards' = [cards EXCEPT ![x] = row]
        PROVE  cards'[u] = cards[u]
    <3> HIDE DEF x
    <3> QED BY <1>u, <2>2 DEF TypeOK
  <2> QED BY <1>3, <2>1, <2>2 DEF MintCreate
<1>4. CASE FireCard(w) \/ HookCard(w)
  <2>1. PICK x, m, p, label :
          /\ x \in loc[w].todo
          /\ cards' = [cards EXCEPT ![x].marked = m, ![x].patterns = p]
          /\ Goto(w, label, [loc[w] EXCEPT !.todo = loc[w].todo \ {x}])
    BY <1>4 DEF FireCard, HookCard, MarkCard
  <2>2. w \in InFlight(Writing) BY <1>4 DEF FireCard, HookCard, InFlight, Writing
  <2>3. loc'[w].todo = loc[w].todo \ {x}
    <3> DEFINE todo == loc[w].todo \ {x}
    <3>1. loc'[w] = [loc[w] EXCEPT !.todo = todo] /\ loc[w] \in Locals
      BY <2>1 DEF Goto, TypeOK
    <3> HIDE DEF todo
    <3>2. loc'[w].todo = todo BY <3>1 DEF Locals
    <3> QED BY <3>2 DEF todo
  <2>4. u # x => cards'[u] = cards[u] BY <1>u, <2>1 DEF TypeOK
  <2> QED BY <2>1, <2>2, <2>3, <2>4
<1> QED BY <1>1, <1>2, <1>3, <1>4 DEF Step, Plain

\* Once the episode has ended no firing starts, and the marks and patterns of a
\* card change only by firings that were under way (episodes.ts:778,
\* webhooks.ts:422), each of which is then done with the card.
THEOREM EndIsFrozen == Spec => EndedFreezes
<1>1. ASSUME TypeOK, Next PROVE LateFiring
  <2>1. CASE Crash
    <3>1. UNCHANGED cards /\ \A w \in Workers : pc'[w] = "idle" BY <2>1 DEF Crash
    <3> QED BY <3>1 DEF LateFiring, InFlight, FireLabels, HookLabels
  <2>2. ASSUME NEW w \in Workers, Start(w) \/ Step(w) \/ DbError(w) \/ HookError(w)
        PROVE  LateFiring
    BY <1>1, <2>2, NoLateStart, MarksWriters DEF LateFiring
  <2> QED BY <1>1, <2>1, <2>2 DEF Next
<1>2. TypeOK /\ [Next]_vars => [LateFiring]_vars BY <1>1
<1> QED BY <1>2, TypeCorrect, PTL DEF Spec, EndedFreezes, LateFiring

(***************************************************************************)
(* One request at a time and no faults: the handlers implement the promise *)
(***************************************************************************)

OneRequest == MaxFaults = 0 /\ \A v, w \in Workers : v = w

\* The values LiveEpisodeSerial gives the variables of EpisodePromise.
Minted == cardsMinted + Cardinality(InFlight(Uncounted))
Shown  == Fired \cup Marking({"fire_card", "fire_log", "fire_count"}, {})
Board  == [u \in Users |-> PromisedCard(u)]

Hot == {"fire_card", "hook_read", "hook_card"}
Told == {"fire_card", "fire_log", "fire_count"}

\* A firing in the middle of its cards: what it has yet to write is as it read
\* it, and the rest shows the event.
HalfMarked(w) ==
  \A u \in Active :
    IF u \in loc[w].todo THEN loc[w].seen[u] = cards[u].marked
    ELSE SquaresOf(cards[u].grid, {loc[w].event}) \subseteq cards[u].marked

\* What a request waiting at a label has read is what the tables hold.
FreshAt(label, l) ==
  /\ label \in {"mint_root", "mint_exists", "mint_create"} =>
       l.status = status /\ l.minted = cardsMinted /\ l.fired = Fired
  /\ label \in MintLabels \ {"mint_root"} => status = "live"
  /\ label \in LaunchLabels => status = "draft"
  /\ label \in FireLabels \cup HookLabels \cup {"end_root", "end_save"} => status = "live"
  /\ label \in Ending => status = "ended"
  /\ label \in (FireLabels \cup HookLabels) \ {"hook_count"} => l.event \in Events

FreshOK(w) ==
  /\ FreshAt(pc[w], loc[w])
  /\ pc[w] \in {"fire_card", "hook_card"} => HalfMarked(w)
  /\ pc[w] \in Uncounted => loc[w].user \in Holders

RowsOK ==
  \A u \in Users :
    /\ cards[u].status = "none" => cards[u] = NoCard
    /\ cards[u].status = "fruited" => status = "ended"

SerialInv == RowsOK /\ \A w \in Workers : FreshOK(w)

\* The values, when w is the one request.
LEMMA ViewOne ==
  ASSUME OneRequest, NEW w \in Workers
  PROVE  /\ Minted = cardsMinted + (IF pc[w] \in Uncounted THEN 1 ELSE 0)
         /\ Shown = Fired \cup (IF pc[w] \in Told THEN {loc[w].event} ELSE {})
         /\ Marking({"fire_card"}, {"hook_read", "hook_card"})
              = (IF pc[w] \in Hot THEN {loc[w].event} ELSE {})
<1>1. \A L : InFlight(L) = IF pc[w] \in L THEN {w} ELSE {}
  BY DEF OneRequest, InFlight
<1>2. Cardinality({w}) = 1 /\ Cardinality({}) = 0
  BY FS_Singleton, FS_EmptySet
<1>3. Minted = cardsMinted + (IF pc[w] \in Uncounted THEN 1 ELSE 0)
  BY <1>1, <1>2 DEF Minted
<1>4. {"fire_card"} \cup {"hook_read", "hook_card"} = Hot
      /\ {"fire_card", "fire_log", "fire_count"} \cup {} = Told
  BY DEF Hot, Told
<1>5. Shown = Fired \cup (IF pc[w] \in Told THEN {loc[w].event} ELSE {})
  BY <1>1, <1>4 DEF Shown, Marking
<1>6. Marking({"fire_card"}, {"hook_read", "hook_card"})
         = (IF pc[w] \in Hot THEN {loc[w].event} ELSE {})
  BY <1>1, <1>4 DEF Marking
<1> QED BY <1>3, <1>5, <1>6

LEMMA ViewOneNext ==
  ASSUME OneRequest, NEW w \in Workers
  PROVE  /\ Minted' = cardsMinted' + (IF pc'[w] \in Uncounted THEN 1 ELSE 0)
         /\ Shown' = Fired' \cup (IF pc'[w] \in Told THEN {loc'[w].event} ELSE {})
         /\ Marking({"fire_card"}, {"hook_read", "hook_card"})'
              = (IF pc'[w] \in Hot THEN {loc'[w].event} ELSE {})
<1> DEFINE View(x) ==
       /\ Minted = cardsMinted + (IF pc[x] \in Uncounted THEN 1 ELSE 0)
       /\ Shown = Fired \cup (IF pc[x] \in Told THEN {loc[x].event} ELSE {})
       /\ Marking({"fire_card"}, {"hook_read", "hook_card"})
            = (IF pc[x] \in Hot THEN {loc[x].event} ELSE {})
<1>1. View(w) BY ViewOne
<1> HIDE DEF View
<1>2. View(w)' BY <1>1, PTL
<1> QED BY <1>2 DEF View

\* A row as the promise shows it, in an episode of status s and with marks m.
Face(card, s, m) ==
  [status |-> IF s = "ended" /\ card.status # "none" THEN "fruited" ELSE card.status,
   number |-> card.number, grid |-> card.grid, marked |-> m]

\* The marks of a row with those a firing of E has yet to write.
WithEvents(card, E) ==
  IF card.status = "active" THEN card.marked \cup SquaresOf(card.grid, E) ELSE card.marked

LEMMA Marked ==
  ASSUME OneRequest, NEW w \in Workers, NEW u \in Users
  PROVE  PromisedCard(u) =
           Face(cards[u], status,
                IF pc[w] \in Hot THEN WithEvents(cards[u], {loc[w].event}) ELSE cards[u].marked)
<1>1. {loc[w].event} # {} OBVIOUS
<1> QED BY <1>1, ViewOne DEF PromisedCard, Face, WithEvents

LEMMA MarkedNext ==
  ASSUME OneRequest, NEW w \in Workers, NEW u \in Users
  PROVE  PromisedCard(u)' =
           Face(cards'[u], status',
                IF pc'[w] \in Hot THEN WithEvents(cards'[u], {loc'[w].event})
                                  ELSE cards'[u].marked)
<1>1. {loc'[w].event} # {} OBVIOUS
<1> QED BY <1>1, ViewOneNext DEF PromisedCard, Face, WithEvents, SquaresOf

Abstract == <<status, Minted, Shown, Board>>

\* The rows as a viewer sees them.
SameRows ==
  \A u \in Users :
    /\ cards'[u].number = cards[u].number /\ cards'[u].grid = cards[u].grid
    /\ cards'[u].marked = cards[u].marked
    /\ \/ cards'[u].status = cards[u].status
       \/ status = "ended" /\ cards'[u].status # "none" /\ cards[u].status # "none"

\* The invariant after a step of w that leaves the columns it speaks of alone.
LEMMA FreshTo ==
  ASSUME OneRequest, TypeOK, NEW w \in Workers, NEW label, NEW l, Goto(w, label, l),
         UNCHANGED <<status, cardsMinted, firedCount>>, RowsOK',
         FreshAt(label, l), label \notin {"fire_card", "hook_card"},
         label \in Uncounted => l.user \in Holders'
  PROVE  SerialInv'
<1>1. pc'[w] = label /\ loc'[w] = l BY DEF Goto, TypeOK
<1>2. Fired' = Fired BY DEF Fired
<1>3. FreshOK(w)' BY <1>1, <1>2 DEF FreshOK, FreshAt
<1>4. \A v \in Workers : FreshOK(v)' BY <1>3 DEF OneRequest
<1> QED BY <1>4 DEF SerialInv

\* A step that the promise does not see, of a request that is not firing.
LEMMA ColdStep ==
  ASSUME OneRequest, TypeOK, NEW w \in Workers, NEW label, NEW l, Goto(w, label, l),
         UNCHANGED <<status, cardsMinted, firedCount>>, SameRows, RowsOK',
         FreshAt(label, l),
         pc[w] \notin Hot \cup Told, label \notin Hot \cup Told \cup {"hook_card"},
         pc[w] \in Uncounted <=> label \in Uncounted,
         label \in Uncounted => l.user \in Holders'
  PROVE  SerialInv' /\ UNCHANGED Abstract
<1>1. pc'[w] = label BY DEF Goto, TypeOK
<1>2. Fired' = Fired BY DEF Fired
<1>3. Minted' = Minted BY <1>1, ViewOne, ViewOneNext
<1>4. Shown' = Shown BY <1>1, <1>2, ViewOne, ViewOneNext
<1>5. ASSUME NEW u \in Users PROVE PromisedCard(u)' = PromisedCard(u)
  BY <1>1, <1>5, Marked, MarkedNext DEF SameRows, Face
<1>6. Board' = Board BY <1>5 DEF Board
<1>7. SerialInv' BY FreshTo DEF Told
<1> QED BY <1>3, <1>4, <1>6, <1>7 DEF Abstract

LEMMA RowsStay ==
  ASSUME SerialInv, UNCHANGED <<status, cards>> PROVE RowsOK' /\ SameRows
BY DEF SerialInv, RowsOK, SameRows

LEMMA SerialStart ==
  ASSUME OneRequest, TypeOK, SerialInv, NEW w \in Workers, Start(w)
  PROVE  SerialInv' /\ UNCHANGED Abstract
<1> USE DEF Hot, Told, Uncounted, MintLabels, LaunchLabels, FireLabels, HookLabels, Ending
<1>1. CASE LaunchRead(w)
  <2>1. PICK label \in {"launch_root", "launch_save"} : Goto(w, label, Blank) /\ pc[w] = "idle"
    BY <1>1 DEF LaunchRead, Begin, Goto
  <2>2. UNCHANGED <<status, cardsMinted, firedCount, cards>> /\ status = "draft"
    BY <1>1 DEF LaunchRead, episodeVars, firedVars
  <2>3. FreshAt(label, Blank) BY <2>1, <2>2 DEF FreshAt
  <2> QED BY <2>1, <2>2, <2>3, RowsStay, ColdStep
<1>2. CASE EndRead(w)
  <2>1. PICK label \in {"end_root", "end_save"} : Goto(w, label, Blank) /\ pc[w] = "idle"
    BY <1>2 DEF EndRead, Begin, Goto
  <2>2. UNCHANGED <<status, cardsMinted, firedCount, cards>> /\ status = "live"
    BY <1>2 DEF EndRead, episodeVars, firedVars
  <2>3. FreshAt(label, Blank) BY <2>1, <2>2 DEF FreshAt
  <2> QED BY <2>1, <2>2, <2>3, RowsStay, ColdStep
<1>3. ASSUME NEW u \in Users, MintRead(w, u) PROVE SerialInv' /\ UNCHANGED Abstract
  <2> DEFINE l == [Blank EXCEPT !.user = u, !.status = status, !.minted = cardsMinted,
                                !.fired = Fired]
  <2>1. l.status = status /\ l.minted = cardsMinted /\ l.fired = Fired BY DEF Blank
  <2>2. Goto(w, "mint_root", l) /\ pc[w] = "idle" BY <1>3 DEF MintRead, Begin, Goto
  <2> HIDE DEF l
  <2>3. UNCHANGED <<status, cardsMinted, firedCount, cards>>
    BY <1>3 DEF MintRead, episodeVars, firedVars
  <2>4. FreshAt("mint_root", l) BY <2>1 DEF FreshAt
  <2> QED BY <2>2, <2>3, <2>4, RowsStay, ColdStep
<1>4. ASSUME NEW e \in Events, FireStart(w, e) PROVE SerialInv' /\ UNCHANGED Abstract
  <2> DEFINE l == [Blank EXCEPT !.event = e]
  <2>1. l.event = e BY DEF Blank
  <2>2. Goto(w, "fire_read", l) /\ pc[w] = "idle" /\ status = "live"
    BY <1>4 DEF FireStart, Begin, Goto
  <2> HIDE DEF l
  <2>3. UNCHANGED <<status, cardsMinted, firedCount, cards>>
    BY <1>4 DEF FireStart, episodeVars, firedVars
  <2>4. FreshAt("fire_read", l) BY <2>1, <2>2 DEF FreshAt
  <2> QED BY <2>2, <2>3, <2>4, RowsStay, ColdStep
<1>5. ASSUME NEW E \in SUBSET Events, HookStart(w, E) PROVE SerialInv' /\ UNCHANGED Abstract
  <2> DEFINE l == [Blank EXCEPT !.queue = E]
  <2>2. Goto(w, "hook_count", l) /\ pc[w] = "idle" /\ status = "live"
    BY <1>5 DEF HookStart, Begin, Goto
  <2> HIDE DEF l
  <2>3. UNCHANGED <<status, cardsMinted, firedCount, cards>>
    BY <1>5 DEF HookStart, episodeVars, firedVars
  <2>4. FreshAt("hook_count", l) BY <2>2 DEF FreshAt
  <2> QED BY <2>2, <2>3, <2>4, RowsStay, ColdStep
<1> QED BY <1>1, <1>2, <1>3, <1>4, <1>5 DEF Start

\* Launching and ending, the saves aside; fruiting has been promised already.
LEMMA SerialEnd ==
  ASSUME OneRequest, IInv, SerialInv, NEW w \in Workers,
         \/ LaunchRoot(w) \/ EndRoot(w) \/ EndReadCards(w) \/ EndBatch(w) \/ EndFruit(w)
         \/ EndSweep(w)
  PROVE  SerialInv' /\ UNCHANGED Abstract
<1> USE DEF Hot, Told, Uncounted, MintLabels, LaunchLabels, FireLabels, HookLabels, Ending
<1>0. /\ UNCHANGED <<status, cardsMinted, firedCount>> /\ TypeOK /\ FreshOK(w)
      /\ loc[w].batch \subseteq Holders /\ cards \in [Users -> Card] /\ RowsOK
  BY Unfold DEF LaunchRoot, EndRoot, EndReadCards, EndBatch, EndFruit, EndSweep, episodeVars,
     firedVars, SerialInv, WorkerOK, TypeOK
<1>1. CASE LaunchRoot(w)
  <2>1. PICK l : Goto(w, "launch_save", l) /\ pc[w] = "launch_root" /\ UNCHANGED cards
    BY <1>1 DEF LaunchRoot
  <2>2. FreshAt("launch_save", l) BY <1>0, <2>1 DEF FreshAt, FreshOK
  <2> QED BY <1>0, <2>1, <2>2, RowsStay, ColdStep
<1>2. CASE EndRoot(w)
  <2>1. Goto(w, "end_save", loc[w]) /\ pc[w] = "end_root" /\ UNCHANGED cards
    BY <1>2 DEF EndRoot
  <2>2. FreshAt("end_save", loc[w]) BY <1>0, <2>1 DEF FreshAt, FreshOK
  <2> QED BY <1>0, <2>1, <2>2, RowsStay, ColdStep
<1>3. CASE EndReadCards(w) \/ EndBatch(w) \/ EndFruit(w) \/ EndSweep(w)
  <2>1. PICK label, l :
          /\ Goto(w, label, l) /\ label \in {"end_batch", "end_fruit", "end_sweep", "idle"}
          /\ pc[w] \in Ending
    BY <1>3 DEF EndReadCards, EndBatch, EndFruit, EndSweep, Finish
  <2>2. status = "ended" /\ FreshAt(label, l) BY <1>0, <2>1 DEF FreshAt, FreshOK
  <2>3. SameRows /\ RowsOK'
    <3>1. CASE UNCHANGED cards BY <1>0, <3>1, RowsStay
    <3>2. CASE EndFruit(w) /\ ~UNCHANGED cards
      <4>1. PICK u, f : u \in Holders /\ cards' = [cards EXCEPT ![u] = [Fruited(@) EXCEPT !.fruit = f]]
        BY <1>0, <3>2 DEF EndFruit
      <4>2. ASSUME NEW v \in Users
            PROVE  /\ cards'[v].number = cards[v].number /\ cards'[v].grid = cards[v].grid
                   /\ cards'[v].marked = cards[v].marked
                   /\ \/ cards'[v] = cards[v]
                      \/ cards'[v].status = "fruited" /\ cards[v].status # "none"
        <5> DEFINE c == [Fruited(cards[v]) EXCEPT !.fruit = f]
        <5>1. cards'[v] = cards[v] \/ (cards'[v] = c /\ v = u)
          BY <1>0, <4>1
        <5>2. /\ c.number = cards[v].number /\ c.grid = cards[v].grid
              /\ c.marked = cards[v].marked /\ c.status = "fruited"
          BY <1>0 DEF Fruited, Card
        <5> HIDE DEF c
        <5> QED BY <4>1, <5>1, <5>2 DEF Holders
      <4> QED BY <1>0, <2>2, <4>2 DEF SameRows, RowsOK
    <3>3. CASE EndSweep(w)
      <4>1. ASSUME NEW v \in Users
            PROVE  /\ cards'[v].number = cards[v].number /\ cards'[v].grid = cards[v].grid
                   /\ cards'[v].marked = cards[v].marked
                   /\ \/ cards'[v] = cards[v]
                      \/ cards'[v].status = "fruited" /\ cards[v].status # "none"
        <5>1. cards'[v] = cards[v] \/ (cards'[v] = Fruited(cards[v]) /\ v \in Active)
          BY <3>3 DEF EndSweep
        <5>2. /\ Fruited(cards[v]).number = cards[v].number
              /\ Fruited(cards[v]).grid = cards[v].grid
              /\ Fruited(cards[v]).marked = cards[v].marked
              /\ Fruited(cards[v]).status = "fruited"
          BY <1>0 DEF Fruited, Card
        <5> QED BY <5>1, <5>2 DEF Active
      <4> QED BY <1>0, <2>2, <4>1 DEF SameRows, RowsOK
    <3> QED BY <1>3, <3>1, <3>2, <3>3 DEF EndReadCards, EndBatch
  <2> QED BY <1>0, <2>1, <2>2, <2>3, ColdStep
<1> QED BY <1>1, <1>2, <1>3

\* A mint up to and after card.create: the second card of a holder is refused.
LEMMA SerialMint ==
  ASSUME OneRequest, IInv, SerialInv, NEW w \in Workers,
         \/ MintReadRoot(w) \/ MintCheckExisting(w) \/ MintBranch(w) \/ MintStoreBranch(w)
         \/ MintCreate(w) /\ loc[w].user \in Holders
  PROVE  SerialInv' /\ UNCHANGED Abstract
<1> USE DEF Hot, Told, Uncounted, MintLabels, LaunchLabels, FireLabels, HookLabels, Ending
<1>0. /\ UNCHANGED <<status, cardsMinted, firedCount>> /\ TypeOK /\ FreshOK(w)
      /\ cards \in [Users -> Card] /\ RowsOK /\ loc[w] \in Locals
  BY Unfold DEF MintReadRoot, MintCheckExisting, MintBranch, MintStoreBranch, MintCreate,
     episodeVars, firedVars, SerialInv, TypeOK
<1>1. ASSUME Finish(w), UNCHANGED cards, pc[w] \in {"mint_root", "mint_exists", "mint_create"}
      PROVE  SerialInv' /\ UNCHANGED Abstract
  <2>1. Goto(w, "idle", Blank) BY <1>1 DEF Finish
  <2>2. FreshAt("idle", Blank) BY DEF FreshAt
  <2> QED BY <1>0, <1>1, <2>1, <2>2, RowsStay, ColdStep
<1>2. CASE MintReadRoot(w)
  <2>1. CASE Finish(w) BY <1>1, <1>2, <2>1 DEF MintReadRoot
  <2>2. CASE ~Finish(w)
    <3> DEFINE l == [loc[w] EXCEPT !.root = rootTokenId]
    <3>1. /\ Goto(w, "mint_exists", l) /\ loc[w].status = "live" /\ pc[w] = "mint_root"
          /\ UNCHANGED cards
      BY <1>2, <2>2 DEF MintReadRoot
    <3>2. l.status = loc[w].status /\ l.minted = loc[w].minted /\ l.fired = loc[w].fired
      BY <1>0 DEF Locals
    <3> HIDE DEF l
    <3>3. FreshAt("mint_exists", l) BY <1>0, <3>1, <3>2 DEF FreshAt, FreshOK
    <3> QED BY <1>0, <3>1, <3>3, RowsStay, ColdStep
  <2> QED BY <2>1, <2>2
<1>3. CASE MintCheckExisting(w)
  <2>1. CASE Finish(w) BY <1>1, <1>3, <2>1 DEF MintCheckExisting
  <2>2. CASE ~Finish(w)
    <3>1. Goto(w, "mint_create", loc[w]) /\ pc[w] = "mint_exists" /\ UNCHANGED cards
      BY <1>3, <2>2 DEF MintCheckExisting
    <3>2. FreshAt("mint_create", loc[w]) BY <1>0, <3>1 DEF FreshAt, FreshOK
    <3> QED BY <1>0, <3>1, <3>2, RowsStay, ColdStep
  <2> QED BY <2>1, <2>2
<1>4. CASE MintBranch(w)
  <2>1. PICK label \in {"mint_store", "mint_count"} :
          Goto(w, label, loc[w]) /\ pc[w] = "mint_branch" /\ UNCHANGED cards
    BY <1>4 DEF MintBranch
  <2>2. FreshAt(label, loc[w]) /\ loc[w].user \in Holders'
    BY <1>0, <2>1 DEF FreshAt, FreshOK, Holders
  <2> QED BY <1>0, <2>1, <2>2, RowsStay, ColdStep
<1>5. CASE MintStoreBranch(w)
  <2>1. Goto(w, "mint_count", loc[w]) /\ pc[w] = "mint_store" BY <1>5 DEF MintStoreBranch
  <2>2. FreshAt("mint_count", loc[w]) BY <1>0, <2>1 DEF FreshAt, FreshOK
  <2>3. ASSUME NEW v \in Users
        PROVE  /\ cards'[v].number = cards[v].number /\ cards'[v].grid = cards[v].grid
               /\ cards'[v].marked = cards[v].marked /\ cards'[v].status = cards[v].status
               /\ (cards'[v] = cards[v] \/ v = loc[w].user)
    <3> DEFINE c == [cards[v] EXCEPT !.branch = loc[w].root]
    <3>1. cards'[v] = cards[v] \/ (cards'[v] = c /\ v = loc[w].user)
      BY <1>0, <1>5 DEF MintStoreBranch
    <3>2. /\ c.number = cards[v].number /\ c.grid = cards[v].grid
          /\ c.marked = cards[v].marked /\ c.status = cards[v].status
      BY <1>0 DEF Card
    <3> HIDE DEF c
    <3> QED BY <3>1, <3>2
  <2>4. loc[w].user \in Holders
    BY <1>0, <2>1 DEF FreshOK
  <2>5. SameRows /\ RowsOK' /\ Holders' = Holders
    BY <1>0, <2>3, <2>4 DEF SameRows, RowsOK, Holders
  <2> QED BY <1>0, <2>1, <2>2, <2>4, <2>5, ColdStep
<1>6. CASE MintCreate(w) /\ loc[w].user \in Holders
  BY <1>1, <1>6 DEF MintCreate
<1> QED BY <1>2, <1>3, <1>4, <1>5, <1>6

LEMMA SerialMintCount ==
  ASSUME OneRequest, IInv, SerialInv, NEW w \in Workers, MintCount(w)
  PROVE  SerialInv' /\ UNCHANGED Abstract
<1>0. /\ UNCHANGED <<status, firedCount, cards>> /\ TypeOK /\ RowsOK
      /\ pc[w] = "mint_count" /\ cardsMinted' = cardsMinted + 1 /\ cardsMinted \in Nat
      /\ Goto(w, "idle", Blank)
  BY Unfold DEF MintCount, Finish, firedVars, SerialInv, TypeOK
<1>1. pc'[w] = "idle" /\ Fired' = Fired BY <1>0 DEF Goto, TypeOK, Fired
<1>2. "mint_count" \in Uncounted /\ "mint_count" \notin Hot \cup Told
      /\ "idle" \notin Uncounted \cup Hot \cup Told
  BY DEF Uncounted, Hot, Told
<1>3. Minted' = Minted
  <2>1. Minted = cardsMinted + 1 BY <1>0, <1>2, ViewOne
  <2>2. Minted' = cardsMinted' + 0 BY <1>1, <1>2, ViewOneNext
  <2> QED BY <1>0, <2>1, <2>2
<1>4. Shown' = Shown BY <1>0, <1>1, <1>2, ViewOne, ViewOneNext
<1>5. ASSUME NEW u \in Users PROVE PromisedCard(u)' = PromisedCard(u)
  BY <1>0, <1>1, <1>2, Marked, MarkedNext
<1>6. Board' = Board BY <1>5 DEF Board
<1>7. FreshOK(w)'
  BY <1>1 DEF FreshOK, FreshAt, MintLabels, LaunchLabels, FireLabels, HookLabels, Ending, Uncounted
<1>8. RowsOK' BY <1>0, RowsStay
<1>9. SerialInv' BY <1>7, <1>8 DEF SerialInv, OneRequest
<1> QED BY <1>0, <1>3, <1>4, <1>6, <1>9 DEF Abstract

\* A firing that reads the cards has promised all its marks.
LEMMA SerialRead ==
  ASSUME OneRequest, IInv, SerialInv, NEW w \in Workers, FireRead(w) \/ HookRead(w)
  PROVE  /\ SerialInv' /\ UNCHANGED <<status, Minted>>
         /\ loc[w].event \in Events /\ status = "live"
         /\ Shown' = IF FireRead(w) THEN Shown \cup {loc[w].event} ELSE Shown
         /\ \A u \in Users :
              PromisedCard(u)' = Face(cards[u], status, WithEvents(cards[u], {loc[w].event}))
         /\ HookRead(w) => UNCHANGED Abstract
<1> DEFINE e == loc[w].event
           T == {u \in Active : Unmarked(u, e) # {}}
           l == [loc[w] EXCEPT !.todo = T, !.seen = [u \in Users |-> cards[u].marked]]
<1>0. /\ UNCHANGED <<status, cardsMinted, firedCount, cards>> /\ TypeOK /\ RowsOK
      /\ loc[w] \in Locals /\ FreshOK(w) /\ pc[w] \in {"fire_read", "hook_read"}
      /\ FireRead(w) <=> pc[w] = "fire_read"
  BY Unfold DEF FireRead, HookRead, ReadCards, episodeVars, firedVars, SerialInv, TypeOK
<1>1. PICK label \in {"fire_card", "fire_log", "hook_card", "hook_log"} :
        /\ Goto(w, label, l)
        /\ label \in {"fire_log", "hook_log"} => T = {}
        /\ pc[w] = "fire_read" <=> label \in {"fire_card", "fire_log"}
  BY DEF FireRead, HookRead, ReadCards
<1>2. l.event = e /\ l.todo = T /\ l.seen = [u \in Users |-> cards[u].marked]
  BY <1>0 DEF Locals
<1>3. \A u \in Active : u \notin T => SquaresOf(cards[u].grid, {e}) \subseteq cards[u].marked
  BY DEF Unmarked
<1> HIDE DEF e, T, l
<1>4. pc'[w] = label /\ loc'[w] = l BY <1>0, <1>1 DEF Goto, TypeOK
<1>5. e \in Events /\ status = "live"
  BY <1>0 DEF e, FreshOK, FreshAt, FireLabels, HookLabels
<1>6. SerialInv'
  <2>1. FreshAt(pc[w], loc[w])'
    BY <1>0, <1>1, <1>2, <1>4, <1>5 DEF FreshAt, MintLabels, LaunchLabels, FireLabels, HookLabels, Ending
  <2>2. HalfMarked(w)'
    BY <1>0, <1>2, <1>3, <1>4 DEF HalfMarked, Active, SquaresOf
  <2>3. FreshOK(w)' BY <1>1, <1>4, <2>1, <2>2 DEF FreshOK, FreshAt, Uncounted
  <2>4. RowsOK' BY <1>0, RowsStay
  <2> QED BY <2>3, <2>4 DEF SerialInv, OneRequest
<1>7. /\ label \in Hot <=> label \in {"fire_card", "hook_card"}
      /\ label \in Told <=> pc[w] = "fire_read"
      /\ pc[w] \in Hot <=> pc[w] = "hook_read"
      /\ pc[w] \notin Told \cup Uncounted /\ label \notin Uncounted
  BY <1>0, <1>1 DEF Hot, Told, Uncounted
<1>8. Minted' = Minted BY <1>0, <1>4, <1>7, ViewOne, ViewOneNext
<1>9. Shown' = IF FireRead(w) THEN Shown \cup {e} ELSE Shown
  <2>1. Fired' = Fired BY <1>0 DEF Fired
  <2> QED BY <1>0, <1>2, <1>4, <1>7, <2>1, ViewOne, ViewOneNext
<1>10. ASSUME NEW u \in Users
       PROVE  PromisedCard(u)' = Face(cards[u], status, WithEvents(cards[u], {e}))
  <2>1. CASE label \notin Hot
    <3>1. cards[u].status = "active" => SquaresOf(cards[u].grid, {e}) \subseteq cards[u].marked
      BY <1>1, <1>3, <1>7, <2>1 DEF Active
    <3>2. WithEvents(cards[u], {e}) = cards[u].marked BY <3>1 DEF WithEvents
    <3> QED BY <1>0, <1>4, <2>1, <3>2, MarkedNext
  <2>2. CASE label \in Hot
    BY <1>0, <1>2, <1>4, <2>2, MarkedNext
  <2> QED BY <2>1, <2>2
<1>11. ASSUME HookRead(w) PROVE UNCHANGED Abstract
  <2>1. pc[w] = "hook_read" /\ ~FireRead(w) BY <1>11 DEF FireRead, HookRead
  <2>2. ASSUME NEW u \in Users PROVE PromisedCard(u)' = PromisedCard(u)
    BY <1>7, <1>10, <2>1, Marked DEF e
  <2>3. Board' = Board BY <2>2 DEF Board
  <2> QED BY <1>0, <1>8, <1>9, <2>1, <2>3 DEF Abstract
<1> QED BY <1>0, <1>5, <1>6, <1>8, <1>9, <1>10, <1>11 DEF e

\* Writing a mark shows what was promised already.
LEMMA SerialMark ==
  ASSUME OneRequest, IInv, SerialInv, NEW w \in Workers, FireCard(w) \/ HookCard(w)
  PROVE  SerialInv' /\ UNCHANGED Abstract
<1>0. /\ UNCHANGED <<status, cardsMinted, firedCount>> /\ TypeOK /\ RowsOK
      /\ loc[w] \in Locals /\ FreshOK(w) /\ pc[w] \in {"fire_card", "hook_card"}
      /\ loc[w].todo \subseteq Holders /\ cards \in [Users -> Card]
  BY Unfold DEF FireCard, HookCard, MarkCard, episodeVars, firedVars, SerialInv, TypeOK, WorkerOK
<1>1. PICK u, p, label :
        LET m == loc[w].seen[u] \cup SquaresOf(cards[u].grid, {loc[w].event})
            todo == loc[w].todo \ {u}
        IN  /\ u \in loc[w].todo
            /\ cards' = [cards EXCEPT ![u].marked = m, ![u].patterns = p]
            /\ Goto(w, label, [loc[w] EXCEPT !.todo = todo])
            /\ label = (IF todo # {} THEN pc[w]
                        ELSE IF pc[w] = "fire_card" THEN "fire_log" ELSE "hook_log")
  BY DEF FireCard, HookCard, MarkCard
<1> DEFINE e == loc[w].event
           todo == loc[w].todo \ {u}
           l == [loc[w] EXCEPT !.todo = todo]
           m == loc[w].seen[u] \cup SquaresOf(cards[u].grid, {e})
<1>2. /\ status = "live" /\ e \in Events /\ HalfMarked(w)
      /\ u \in loc[w].todo
      /\ label = (IF todo # {} THEN pc[w]
                  ELSE IF pc[w] = "fire_card" THEN "fire_log" ELSE "hook_log")
      /\ Goto(w, label, l)
      /\ cards' = [cards EXCEPT ![u].marked = m, ![u].patterns = p]
  BY <1>0, <1>1 DEF FreshOK, FreshAt, FireLabels, HookLabels
<1>3. l.event = e /\ l.todo = todo /\ l.seen = loc[w].seen BY <1>0 DEF Locals
<1>4. u \in Active /\ todo \subseteq Active
  BY <1>0, <1>2 DEF Holders, Active, RowsOK, Card
<1>5. m = WithEvents(cards[u], {e})
  BY <1>2, <1>4 DEF WithEvents, HalfMarked, Active
<1> HIDE DEF m, l
<1>6. /\ cards'[u].status = "active" /\ cards'[u].marked = m
      /\ cards'[u].number = cards[u].number /\ cards'[u].grid = cards[u].grid
      /\ \A v \in Users : v # u => cards'[v] = cards[v]
  <2> DEFINE c == [cards[u] EXCEPT !.marked = m, !.patterns = p]
  <2>1. cards'[u] = c /\ \A v \in Users : v # u => cards'[v] = cards[v]
    BY <1>0, <1>2, <1>4 DEF Active
  <2>2. /\ c.status = cards[u].status /\ c.marked = m /\ c.number = cards[u].number
        /\ c.grid = cards[u].grid
    BY <1>0, <1>4 DEF Card, Active
  <2> HIDE DEF c
  <2> QED BY <1>4, <2>1, <2>2 DEF Active
<1> HIDE DEF e, todo
<1>7. pc'[w] = label /\ loc'[w] = l BY <1>0, <1>2 DEF Goto, TypeOK
<1>8. WithEvents(cards'[u], {e}) = m /\ SquaresOf(cards'[u].grid, {e}) \subseteq cards'[u].marked
  BY <1>4, <1>5, <1>6 DEF WithEvents, Active
<1>9. SerialInv'
  <2>1. FreshAt(pc[w], loc[w])'
    BY <1>0, <1>2, <1>3, <1>7
    DEF FreshAt, MintLabels, LaunchLabels, FireLabels, HookLabels, Ending
  <2>2. label \in {"fire_card", "hook_card"} => HalfMarked(w)'
    <3>1. Active' = Active BY <1>4, <1>6 DEF Active
    <3>2. ASSUME NEW v \in Active, v # u
          PROVE  IF v \in todo THEN loc[w].seen[v] = cards'[v].marked
                 ELSE SquaresOf(cards'[v].grid, {e}) \subseteq cards'[v].marked
      BY <1>2, <1>6, <3>2 DEF HalfMarked, e, todo, Active
    <3>3. u \notin todo BY DEF todo
    <3>4. \A v \in Active : IF v \in todo THEN loc[w].seen[v] = cards'[v].marked
                            ELSE SquaresOf(cards'[v].grid, {e}) \subseteq cards'[v].marked
      BY <1>8, <3>2, <3>3
    <3> QED BY <1>3, <1>7, <3>1, <3>4 DEF HalfMarked, SquaresOf
  <2>3. pc'[w] \notin Uncounted BY <1>0, <1>2, <1>7 DEF Uncounted
  <2>4. FreshOK(w)' BY <1>7, <2>1, <2>2, <2>3 DEF FreshOK
  <2>5. RowsOK'
    <3>1. ASSUME NEW v \in Users
          PROVE  /\ cards'[v].status = "none" => cards'[v] = NoCard
                 /\ cards'[v].status = "fruited" => status' = "ended"
      <4>1. CASE v = u BY <1>6, <4>1
      <4>2. CASE v # u BY <1>0, <1>6, <4>2 DEF RowsOK
      <4> QED BY <4>1, <4>2
    <3> QED BY <3>1 DEF RowsOK
  <2> QED BY <2>4, <2>5 DEF SerialInv, OneRequest
<1>10. /\ pc[w] \in Hot \ Uncounted /\ label \notin Uncounted
       /\ label \in Hot <=> todo # {}
       /\ label \in Told <=> pc[w] \in Told
  BY <1>0, <1>2 DEF Hot, Told, Uncounted
<1>11. Minted' = Minted BY <1>0, <1>7, <1>10, ViewOne, ViewOneNext
<1>12. Shown' = Shown
  <2>1. Fired' = Fired BY <1>0 DEF Fired
  <2> QED BY <1>3, <1>7, <1>10, <2>1, ViewOne, ViewOneNext DEF e
<1>13. ASSUME NEW v \in Users PROVE PromisedCard(v)' = PromisedCard(v)
  <2>1. PromisedCard(v) = Face(cards[v], status, WithEvents(cards[v], {e}))
    BY <1>10, Marked DEF e
  <2>2. PromisedCard(v)' = Face(cards'[v], status,
                             IF todo # {} THEN WithEvents(cards'[v], {e}) ELSE cards'[v].marked)
    BY <1>0, <1>3, <1>7, <1>10, MarkedNext
  <2>3. CASE v = u
    <3>1. PromisedCard(v)' = Face(cards'[u], status, m) BY <1>6, <1>8, <2>2, <2>3
    <3>2. PromisedCard(v) = Face(cards[u], status, m) BY <1>5, <2>1, <2>3 DEF e
    <3> QED BY <1>4, <1>6, <3>1, <3>2 DEF Face, Active
  <2>4. CASE v # u /\ todo # {} BY <1>6, <2>1, <2>2, <2>4
  <2>5. CASE v # u /\ todo = {}
    <3>1. WithEvents(cards[v], {e}) = cards[v].marked
      BY <1>2, <2>5 DEF WithEvents, HalfMarked, Active, e, todo
    <3> QED BY <1>6, <2>1, <2>2, <2>5, <3>1
  <2> QED BY <2>3, <2>4, <2>5
<1>14. Board' = Board BY <1>13 DEF Board
<1> QED BY <1>0, <1>9, <1>11, <1>12, <1>14 DEF Abstract

LEMMA SerialLog ==
  ASSUME OneRequest, IInv, SerialInv, NEW w \in Workers, FireLog(w) \/ HookLog(w)
  PROVE  SerialInv' /\ UNCHANGED Abstract
<1>0. /\ UNCHANGED <<status, cardsMinted, firedCount, cards>> /\ TypeOK /\ RowsOK
      /\ FreshOK(w) /\ pc[w] \in {"fire_log", "hook_log"}
  BY Unfold DEF FireLog, HookLog, episodeVars, SerialInv
<1>1. status = "live" /\ loc[w].event \in Events
  BY <1>0 DEF FreshOK, FreshAt, FireLabels, HookLabels
<1>2. CASE HookLog(w)
  <2>1. PICK label, l : label \in {"idle", "hook_count"} /\ Goto(w, label, l) /\ pc[w] = "hook_log"
    BY <1>2 DEF HookLog, NextEvent, Finish
  <2>2. FreshAt(label, l)
    BY <1>1, <2>1 DEF FreshAt, MintLabels, LaunchLabels, FireLabels, HookLabels, Ending
  <2> QED BY <1>0, <2>1, <2>2, RowsStay, ColdStep DEF Hot, Told, Uncounted
<1>3. CASE FireLog(w)
  <2>1. /\ Goto(w, "fire_count", loc[w]) /\ pc[w] = "fire_log"
        /\ pc'[w] = "fire_count" /\ loc'[w] = loc[w]
    BY <1>0, <1>3 DEF FireLog, Goto, TypeOK
  <2>2. FreshAt("fire_count", loc[w])
    BY <1>1 DEF FreshAt, MintLabels, LaunchLabels, FireLabels, HookLabels, Ending
  <2>3. SerialInv' BY <1>0, <2>1, <2>2, RowsStay, FreshTo DEF Uncounted
  <2>4. /\ {"fire_log", "fire_count"} \cap (Uncounted \cup Hot) = {}
        /\ {"fire_log", "fire_count"} \subseteq Told
    BY DEF Uncounted, Hot, Told
  <2>5. Minted' = Minted BY <1>0, <2>1, <2>4, ViewOne, ViewOneNext
  <2>6. Fired' = Fired BY <1>0 DEF Fired
  <2>7. Shown' = Shown BY <2>1, <2>4, <2>6, ViewOne, ViewOneNext
  <2>8. \A u \in Users : PromisedCard(u)' = PromisedCard(u)
    BY <1>0, <2>1, <2>4, Marked, MarkedNext
  <2>9. Board' = Board BY <2>8 DEF Board
  <2> QED BY <1>0, <2>3, <2>5, <2>7, <2>9 DEF Abstract
<1> QED BY <1>2, <1>3

\* The counter of a manual firing is written last, that of a Twitch firing first.
LEMMA SerialCount ==
  ASSUME OneRequest, IInv, SerialInv, NEW w \in Workers, FireCount(w)
  PROVE  SerialInv' /\ UNCHANGED Abstract
<1>0. /\ UNCHANGED <<status, cardsMinted, cards>> /\ TypeOK /\ RowsOK
      /\ FreshOK(w) /\ pc[w] = "fire_count" /\ Goto(w, "idle", Blank)
      /\ firedCount \in [Events -> Nat]
      /\ firedCount' = [firedCount EXCEPT ![loc[w].event] = @ + 1]
  BY Unfold DEF FireCount, Finish, episodeVars, SerialInv, TypeOK
<1>1. loc[w].event \in Events BY <1>0 DEF FreshOK, FreshAt, FireLabels
<1>2. pc'[w] = "idle" BY <1>0 DEF Goto, TypeOK
<1>3. Fired' = Fired \cup {loc[w].event} BY <1>0, <1>1 DEF Fired
<1>4. SerialInv'
  <2>1. FreshOK(w)'
    BY <1>2 DEF FreshOK, FreshAt, MintLabels, LaunchLabels, FireLabels, HookLabels, Ending, Uncounted
  <2> QED BY <1>0, <2>1, RowsStay DEF SerialInv, OneRequest
<1>5. /\ {"fire_count", "idle"} \cap (Uncounted \cup Hot) = {}
      /\ "fire_count" \in Told /\ "idle" \notin Told
  BY DEF Uncounted, Hot, Told
<1>6. Minted' = Minted BY <1>0, <1>2, <1>5, ViewOne, ViewOneNext
<1>7. Shown' = Shown BY <1>0, <1>2, <1>3, <1>5, ViewOne, ViewOneNext
<1>8. \A u \in Users : PromisedCard(u)' = PromisedCard(u)
  BY <1>0, <1>2, <1>5, Marked, MarkedNext
<1>9. Board' = Board BY <1>8 DEF Board
<1> QED BY <1>0, <1>4, <1>6, <1>7, <1>9 DEF Abstract

\* The promise shows a card where there is a row.
LEMMA BoardNone ==
  ASSUME OneRequest, TypeOK, RowsOK, NEW u \in Users
  PROVE  Board[u] = Promise!NoCard <=> cards[u].status = "none"
<1>1. Board[u] = PromisedCard(u) BY DEF Board
<1>2. CASE cards[u].status = "none"
  <2>1. cards[u] = NoCard BY <1>2 DEF RowsOK
  <2> QED BY <1>1, <1>2, <2>1 DEF PromisedCard, NoCard, NoGrid, Promise!NoCard
<1>3. CASE cards[u].status # "none"
  <2>1. PromisedCard(u).status # "none" BY <1>3 DEF PromisedCard
  <2>2. Promise!NoCard.status = "none" BY DEF Promise!NoCard
  <2> QED BY <1>1, <1>3, <2>1, <2>2
<1> QED BY <1>2, <1>3

\* The steps at which an operation takes effect.
LEMMA SerialLaunch ==
  ASSUME OneRequest, IInv, SerialInv, NEW w \in Workers, LaunchSave(w)
  PROVE  SerialInv' /\ Promise!Launch
<1>0. /\ UNCHANGED <<cardsMinted, firedCount, cards>> /\ status' = "live" /\ TypeOK /\ RowsOK
      /\ FreshOK(w) /\ pc[w] = "launch_save" /\ Goto(w, "idle", Blank)
  BY Unfold DEF LaunchSave, Finish, firedVars, SerialInv
<1>1. status = "draft" BY <1>0 DEF FreshOK, FreshAt, LaunchLabels
<1>2. pc'[w] = "idle" /\ Fired' = Fired BY <1>0 DEF Goto, TypeOK, Fired
<1>3. SerialInv'
  <2>1. FreshOK(w)'
    BY <1>2 DEF FreshOK, FreshAt, MintLabels, LaunchLabels, FireLabels, HookLabels, Ending, Uncounted
  <2>2. RowsOK' BY <1>0, <1>1 DEF RowsOK
  <2> QED BY <2>1, <2>2 DEF SerialInv, OneRequest
<1>4. {"launch_save", "idle"} \cap (Uncounted \cup Hot \cup Told) = {}
  BY DEF Uncounted, Hot, Told
<1>5. Minted' = Minted BY <1>0, <1>2, <1>4, ViewOne, ViewOneNext
<1>6. Shown' = Shown BY <1>0, <1>2, <1>4, ViewOne, ViewOneNext
<1>7. \A u \in Users : PromisedCard(u)' = PromisedCard(u)
  BY <1>0, <1>1, <1>2, <1>4, Marked, MarkedNext DEF Face
<1>8. Board' = Board BY <1>7 DEF Board
<1> QED BY <1>0, <1>1, <1>3, <1>5, <1>6, <1>8 DEF Promise!Launch, Minted, Shown, Board

LEMMA SerialEndSave ==
  ASSUME OneRequest, IInv, SerialInv, NEW w \in Workers, EndSave(w)
  PROVE  SerialInv' /\ Promise!End
<1>0. /\ UNCHANGED <<cardsMinted, firedCount, cards>> /\ status' = "ended" /\ TypeOK /\ RowsOK
      /\ FreshOK(w) /\ pc[w] = "end_save" /\ Goto(w, "end_read", loc[w])
  BY Unfold DEF EndSave, firedVars, SerialInv
<1>1. status = "live" BY <1>0 DEF FreshOK, FreshAt
<1>2. pc'[w] = "end_read" /\ Fired' = Fired BY <1>0 DEF Goto, TypeOK, Fired
<1>3. SerialInv'
  <2>1. FreshOK(w)'
    BY <1>0, <1>2
    DEF FreshOK, FreshAt, MintLabels, LaunchLabels, FireLabels, HookLabels, Ending, Uncounted
  <2>2. RowsOK' BY <1>0 DEF RowsOK
  <2> QED BY <2>1, <2>2 DEF SerialInv, OneRequest
<1>4. {"end_save", "end_read"} \cap (Uncounted \cup Hot \cup Told) = {}
  BY DEF Uncounted, Hot, Told
<1>5. Minted' = Minted BY <1>0, <1>2, <1>4, ViewOne, ViewOneNext
<1>6. Shown' = Shown BY <1>0, <1>2, <1>4, ViewOne, ViewOneNext
<1>7. ASSUME NEW u \in Users
      PROVE  PromisedCard(u)' = IF Board[u] = Promise!NoCard THEN Promise!NoCard
                                ELSE [Board[u] EXCEPT !.status = "fruited"]
  <2>1. PromisedCard(u) = Face(cards[u], status, cards[u].marked) BY <1>0, <1>4, Marked
  <2>2. PromisedCard(u)' = Face(cards[u], "ended", cards[u].marked)
    BY <1>0, <1>2, <1>4, MarkedNext
  <2>3. Board[u] = PromisedCard(u) BY DEF Board
  <2>4. CASE cards[u].status = "none"
    <3>1. Board[u] = Promise!NoCard BY <1>0, <2>4, BoardNone
    <3>2. PromisedCard(u)' = PromisedCard(u) BY <2>1, <2>2, <2>4 DEF Face
    <3> QED BY <2>3, <3>1, <3>2
  <2>5. CASE cards[u].status # "none"
    <3>1. Board[u] # Promise!NoCard BY <1>0, <2>5, BoardNone
    <3>2. [Face(cards[u], status, cards[u].marked) EXCEPT !.status = "fruited"]
             = Face(cards[u], "ended", cards[u].marked)
      BY <2>5 DEF Face
    <3> QED BY <2>1, <2>2, <2>3, <3>1, <3>2
  <2> QED BY <2>4, <2>5
<1>8. Board' = [u \in Users |-> IF Board[u] = Promise!NoCard THEN Promise!NoCard
                                ELSE [Board[u] EXCEPT !.status = "fruited"]]
  BY <1>7 DEF Board
<1> QED BY <1>0, <1>1, <1>3, <1>5, <1>6, <1>8 DEF Promise!End, Minted, Shown, Board

\* Both firings, at the step that promises the marks.
LEMMA PromiseFires ==
  ASSUME OneRequest, TypeOK, RowsOK, NEW w \in Workers, NEW e \in Events,
         status = "live", UNCHANGED <<status, Minted>>, Shown' = Shown \cup {e},
         pc[w] \notin Hot,
         \A u \in Users : PromisedCard(u)' = Face(cards[u], status, WithEvents(cards[u], {e}))
  PROVE  Promise!Fire(e)
<1>1. ASSUME NEW u \in Users
      PROVE  PromisedCard(u)' =
               IF Board[u] = Promise!NoCard THEN Promise!NoCard
               ELSE [Board[u] EXCEPT !.marked = @ \cup Promise!SquaresOf(Board[u].grid, {e})]
  <2>1. PromisedCard(u) = Face(cards[u], status, cards[u].marked) BY Marked
  <2>2. Board[u] = PromisedCard(u) BY DEF Board
  <2>3. CASE cards[u].status = "none"
    <3>1. WithEvents(cards[u], {e}) = cards[u].marked BY <2>3 DEF WithEvents
    <3> QED BY <2>1, <2>2, <2>3, <3>1, BoardNone
  <2>4. CASE cards[u].status # "none"
    <3>1. cards[u].status = "active" BY <2>4 DEF RowsOK, TypeOK, Card
    <3> DEFINE f == Face(cards[u], status, cards[u].marked)
    <3>2. f.marked = cards[u].marked /\ f.grid = cards[u].grid BY DEF Face
    <3>3. WithEvents(cards[u], {e}) = f.marked \cup Promise!SquaresOf(f.grid, {e})
      BY <3>1, <3>2 DEF WithEvents, SquaresOf, Promise!SquaresOf
    <3>4. \A m : [f EXCEPT !.marked = m] = Face(cards[u], status, m) BY DEF Face
    <3>5. Board[u] # Promise!NoCard BY <2>4, BoardNone
    <3> HIDE DEF f
    <3>6. [f EXCEPT !.marked = @ \cup Promise!SquaresOf(f.grid, {e})]
             = Face(cards[u], status, WithEvents(cards[u], {e}))
      <4>1. [f EXCEPT !.marked = @ \cup Promise!SquaresOf(f.grid, {e})]
               = [f EXCEPT !.marked = f.marked \cup Promise!SquaresOf(f.grid, {e})]
        OBVIOUS
      <4> QED BY <3>3, <3>4, <4>1
    <3>7. Board[u] = f BY <2>1, <2>2 DEF f
    <3> QED BY <3>5, <3>6, <3>7
  <2> QED BY <2>3, <2>4
<1>2. Board' = [u \in Users |->
                  IF Board[u] = Promise!NoCard THEN Promise!NoCard
                  ELSE [Board[u] EXCEPT !.marked = @ \cup Promise!SquaresOf(Board[u].grid, {e})]]
  BY <1>1 DEF Board
<1> QED BY <1>2 DEF Promise!Fire, Minted, Shown, Board

LEMMA SerialFire ==
  ASSUME OneRequest, IInv, SerialInv, NEW w \in Workers, FireRead(w)
  PROVE  SerialInv' /\ \E e \in Events : Promise!Fire(e)
<1>1. pc[w] \notin Hot BY DEF FireRead, Hot
<1>2. TypeOK /\ RowsOK BY Unfold DEF SerialInv
<1> QED BY <1>1, <1>2, SerialRead, PromiseFires

LEMMA SerialHookCount ==
  ASSUME OneRequest, IInv, SerialInv, NEW w \in Workers, HookCount(w)
  PROVE  SerialInv' /\ \E e \in Events : Promise!Fire(e)
<1>0. /\ UNCHANGED <<status, cardsMinted, cards>> /\ TypeOK /\ RowsOK
      /\ FreshOK(w) /\ pc[w] = "hook_count" /\ loc[w] \in Locals
      /\ firedCount \in [Events -> Nat]
  BY Unfold DEF HookCount, episodeVars, SerialInv, TypeOK
<1>1. PICK e \in loc[w].queue :
        /\ firedCount' = [firedCount EXCEPT ![e] = @ + 1]
        /\ Goto(w, "hook_read", [loc[w] EXCEPT !.event = e, !.queue = @ \ {e}])
  BY DEF HookCount
<1>2. e \in Events BY <1>0 DEF Locals
<1>3. status = "live" BY <1>0 DEF FreshOK, FreshAt, HookLabels
<1>4. [loc[w] EXCEPT !.event = e, !.queue = @ \ {e}].event = e BY <1>0 DEF Locals
<1>5. pc'[w] = "hook_read" /\ loc'[w].event = e BY <1>0, <1>1, <1>4 DEF Goto, TypeOK
<1>6. Fired' = Fired \cup {e} BY <1>0, <1>1, <1>2 DEF Fired
<1>7. SerialInv'
  <2>1. FreshOK(w)'
    BY <1>0, <1>2, <1>3, <1>5
    DEF FreshOK, FreshAt, MintLabels, LaunchLabels, FireLabels, HookLabels, Ending, Uncounted
  <2> QED BY <1>0, <2>1, RowsStay DEF SerialInv, OneRequest
<1>8. /\ {"hook_count", "hook_read"} \cap (Uncounted \cup Told) = {}
      /\ "hook_count" \notin Hot /\ "hook_read" \in Hot
  BY DEF Uncounted, Hot, Told
<1>9. Minted' = Minted BY <1>0, <1>5, <1>8, ViewOne, ViewOneNext
<1>10. Shown' = Shown \cup {e} BY <1>0, <1>5, <1>6, <1>8, ViewOne, ViewOneNext
<1>11. \A u \in Users : PromisedCard(u)' = Face(cards[u], status, WithEvents(cards[u], {e}))
  BY <1>0, <1>5, <1>8, MarkedNext
<1> QED BY <1>0, <1>2, <1>3, <1>7, <1>8, <1>9, <1>10, <1>11, PromiseFires

\* The new card takes the number and the marks that the promise gives it.
LEMMA SerialCreate ==
  ASSUME OneRequest, IInv, SerialInv, NEW w \in Workers, MintCreate(w),
         loc[w].user \notin Holders
  PROVE  SerialInv' /\ \E u \in Users : Promise!Mint(u)
<1> DEFINE u == loc[w].user
<1>0. /\ UNCHANGED <<status, cardsMinted, firedCount>> /\ TypeOK /\ RowsOK
      /\ FreshOK(w) /\ pc[w] = "mint_create" /\ loc[w] \in Locals
      /\ cards \in [Users -> Card] /\ cardsMinted \in Nat
      /\ u \in Users /\ w \in Passed
  BY Unfold DEF MintCreate, episodeVars, firedVars, SerialInv, TypeOK, WorkerOK, MintLabels
<1>1. PICK g, label :
        /\ g \in Grids
        /\ cards' = [cards EXCEPT ![u] = NewCard(loc[w], g)]
        /\ Goto(w, label, loc[w]) /\ label \in {"mint_branch", "mint_count"}
  BY DEF MintCreate
<1> DEFINE row == NewCard(loc[w], g)
<1>2. /\ loc[w].status = status /\ loc[w].minted = cardsMinted /\ loc[w].fired = Fired
      /\ status = "live"
  BY <1>0 DEF FreshOK, FreshAt, MintLabels
<1>3. /\ row.status = "active" /\ row.number = cardsMinted + 1 /\ row.grid = g
      /\ row.marked = SquaresOf(g, Fired)
  BY <1>2 DEF NewCard, NoCard
<1>4. cards[u].status = "none" BY <1>0 DEF Holders
<1> HIDE DEF row
<1>5. pc'[w] = label /\ loc'[w] = loc[w] BY <1>0, <1>1 DEF Goto, TypeOK
<1>6. Fired' = Fired BY <1>0 DEF Fired
<1>7. cards'[u] = row /\ \A v \in Users : v # u => cards'[v] = cards[v]
  BY <1>0, <1>1 DEF row
<1>8. SerialInv'
  <2>1. u \in Holders' BY <1>0, <1>3, <1>7 DEF Holders
  <2>2. FreshOK(w)'
    BY <1>0, <1>1, <1>2, <1>5, <2>1
    DEF FreshOK, FreshAt, MintLabels, LaunchLabels, FireLabels, HookLabels, Ending, Uncounted
  <2>3. ASSUME NEW v \in Users
        PROVE  /\ cards'[v].status = "none" => cards'[v] = NoCard
               /\ cards'[v].status = "fruited" => status' = "ended"
    <3>1. CASE v = u BY <1>3, <1>7, <3>1
    <3>2. CASE v # u BY <1>0, <1>7, <3>2 DEF RowsOK
    <3> QED BY <3>1, <3>2
  <2>4. RowsOK' BY <2>3 DEF RowsOK
  <2> QED BY <2>2, <2>4 DEF SerialInv, OneRequest
<1>9. /\ "mint_create" \notin Hot \cup Told \cup Uncounted
      /\ label \notin Hot \cup Told /\ label \in Uncounted
  BY <1>1 DEF Hot, Told, Uncounted
<1>10. Minted = cardsMinted /\ Minted' = cardsMinted + 1
  <2>1. Minted = cardsMinted + 0 BY <1>0, <1>9, ViewOne
  <2>2. Minted' = cardsMinted' + 1 BY <1>5, <1>9, ViewOneNext
  <2> QED BY <1>0, <2>1, <2>2
<1>11. Shown' = Shown /\ Shown = Fired
  BY <1>0, <1>5, <1>6, <1>9, ViewOne, ViewOneNext
<1> DEFINE new == [status |-> "active", number |-> Minted + 1, grid |-> g,
                   marked |-> Promise!SquaresOf(g, Shown)]
<1>12. ASSUME NEW v \in Users
       PROVE  PromisedCard(v)' = IF v = u THEN new ELSE PromisedCard(v)
  <2>1. PromisedCard(v)' = Face(cards'[v], status, cards'[v].marked)
    BY <1>0, <1>5, <1>9, MarkedNext
  <2>2. PromisedCard(v) = Face(cards[v], status, cards[v].marked)
    BY <1>0, <1>9, Marked
  <2>3. CASE v = u
    <3>1. PromisedCard(v)' = Face(row, "live", row.marked) BY <1>2, <1>7, <2>1, <2>3
    <3>2. Face(row, "live", row.marked) = new
      BY <1>3, <1>10, <1>11 DEF Face, SquaresOf, Promise!SquaresOf
    <3> QED BY <2>3, <3>1, <3>2
  <2>4. CASE v # u BY <1>7, <2>1, <2>2, <2>4
  <2> QED BY <2>3, <2>4
<1> HIDE DEF new
<1>13. Board' = [Board EXCEPT ![u] = new] BY <1>0, <1>12 DEF Board
<1>14. Board[u] = Promise!NoCard BY <1>0, <1>4, BoardNone
<1>15. MaxCards # 0 => Minted < MaxCards
  BY <1>0, <1>2, <1>10, ConstantsAssumption DEF Passed, SoldOut
<1>16. g \in [Squares -> Events] BY <1>1 DEF Grids
<1> HIDE DEF u
<1>17. Promise!Mint(u)
  BY <1>0, <1>2, <1>10, <1>11, <1>13, <1>14, <1>15, <1>16
  DEF Promise!Mint, Minted, Shown, Board, new
<1> QED BY <1>0, <1>8, <1>17 DEF u

LEMMA SerialInit == Init => SerialInv /\ Promise!Init
<1> SUFFICES ASSUME Init PROVE SerialInv /\ Promise!Init OBVIOUS
<1>1. \A w \in Workers : pc[w] = "idle" BY DEF Init
<1>2. SerialInv
  BY <1>1 DEF Init, SerialInv, RowsOK, NoCard, FreshOK, FreshAt, MintLabels, LaunchLabels,
              FireLabels, HookLabels, Ending, Uncounted
<1>3. \A L : "idle" \notin L => InFlight(L) = {} BY <1>1 DEF InFlight
<1>4. Minted = 0
  <2>1. InFlight(Uncounted) = {} BY <1>3 DEF Uncounted
  <2> QED BY <2>1, FS_EmptySet DEF Minted, Init
<1>5. Fired = {} BY DEF Init, Fired
<1>6. /\ Marking({"fire_card", "fire_log", "fire_count"}, {}) = {}
      /\ Marking({"fire_card"}, {"hook_read", "hook_card"}) = {}
  BY <1>3 DEF Marking
<1>7. Shown = {} BY <1>5, <1>6 DEF Shown
<1>8. ASSUME NEW u \in Users PROVE PromisedCard(u) = Promise!NoCard
  BY <1>6 DEF Init, PromisedCard, NoCard, NoGrid, Promise!NoCard
<1>9. Board = [u \in Users |-> Promise!NoCard] BY <1>8 DEF Board
<1> QED BY <1>2, <1>4, <1>7, <1>9 DEF Init, Promise!Init, Minted, Shown, Board

LEMMA SerialStep ==
  ASSUME OneRequest, IInv, SerialInv, NEW w \in Workers, Start(w) \/ Step(w)
  PROVE  SerialInv' /\ (Promise!Next \/ UNCHANGED Abstract)
<1>0. TypeOK BY Unfold
<1>1. CASE Start(w) BY <1>0, <1>1, SerialStart
<1>2. CASE LaunchSave(w) BY <1>2, SerialLaunch DEF Promise!Next
<1>3. CASE EndSave(w) BY <1>3, SerialEndSave DEF Promise!Next
<1>4. CASE FireRead(w) BY <1>4, SerialFire DEF Promise!Next
<1>5. CASE HookCount(w) BY <1>5, SerialHookCount DEF Promise!Next
<1>6. CASE MintCreate(w) BY <1>6, SerialMint, SerialCreate DEF Promise!Next
<1>7. CASE \/ LaunchRoot(w) \/ EndRoot(w) \/ EndReadCards(w) \/ EndBatch(w) \/ EndFruit(w)
           \/ EndSweep(w)
  BY <1>7, SerialEnd
<1>8. CASE MintReadRoot(w) \/ MintCheckExisting(w) \/ MintBranch(w) \/ MintStoreBranch(w)
  BY <1>8, SerialMint
<1>9. CASE MintCount(w) \/ FireCount(w)
  BY <1>9, SerialMintCount, SerialCount
<1>10. CASE HookRead(w) BY <1>10, SerialRead
<1>11. CASE FireCard(w) \/ HookCard(w) BY <1>11, SerialMark
<1>12. CASE FireLog(w) \/ HookLog(w) BY <1>12, SerialLog
<1> QED BY <1>1, <1>2, <1>3, <1>4, <1>5, <1>6, <1>7, <1>8, <1>9, <1>10, <1>11, <1>12 DEF Step

\* Served one request at a time, and without faults, the API implements
\* EpisodePromise: launch, mint, both firings and the end take effect each at
\* one step, and every other step changes nothing that was promised.
THEOREM PromiseIsKept == ASSUME OneRequest PROVE Spec => KeepsPromise
<1>1. IInv /\ SerialInv /\ [Next]_vars => SerialInv' /\ [Promise!Next]_(Promise!vars)
  <2> SUFFICES ASSUME IInv, SerialInv, [Next]_vars
               PROVE  SerialInv' /\ (Promise!Next \/ UNCHANGED Abstract)
    BY DEF Abstract, Promise!vars, Minted, Shown, Board
  <2>1. CASE UNCHANGED vars
    <3>1. UNCHANGED Abstract
      BY <2>1 DEF vars, episodeVars, firedVars, Abstract, Minted, Shown, Board, PromisedCard, Marking,
                  InFlight, Fired, SquaresOf
    <3>2. SerialInv'
      BY <2>1 DEF vars, episodeVars, firedVars, SerialInv, RowsOK, FreshOK, FreshAt, HalfMarked, Active,
                  Holders, Fired, SquaresOf
    <3> QED BY <3>1, <3>2
  <2>2. ASSUME NEW w \in Workers, Start(w) \/ Step(w)
        PROVE  SerialInv' /\ (Promise!Next \/ UNCHANGED Abstract)
    BY <2>2, SerialStep
  <2>3. TypeOK /\ MaxFaults = 0 BY Unfold DEF OneRequest
  <2> QED BY <2>1, <2>2, <2>3, NoFault
<1> QED BY <1>1, SerialInit, InvInit, InvStep, PTL DEF Spec, KeepsPromise, Promise!Spec
==============================================================================
