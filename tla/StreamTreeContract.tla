-------------------------- MODULE StreamTreeContract --------------------------
(***************************************************************************)
(* packages/contracts/contracts/StreamTree.sol: root, branch and fruit     *)
(* tokens of one ERC-721 contract.  A transaction is atomic: an action is  *)
(* a call that succeeds; a call whose require fails reverts and changes    *)
(* nothing.  Token ids are the integers up to MaxId (2^256 - 2): a counter *)
(* at 2^256 - 1 can not be incremented and the call reverts.  Scores,      *)
(* pattern counts, metadata URIs and timestamps are left out.              *)
(***************************************************************************)
EXTENDS Integers, FiniteSets, Sequences

CONSTANTS
  Addresses,   \* accounts other than address(0)
  Owner,       \* the deployer, Ownable's owner
  Zero,        \* address(0)
  Episodes,    \* off-chain episode ids
  CardIds,     \* off-chain card ids
  Supplies,    \* values of maxSupply that are asked for, 0 is unlimited
  NoKey,       \* the empty string
  BranchBase,  \* first branch id, 1_000_000
  FruitBase,   \* first fruit id, 1_000_000_000
  MaxId,       \* largest id
  MaxBatch     \* largest batchMintFruit call, 50

ASSUME ContractAssumption ==
  /\ Owner \in Addresses /\ Zero \notin Addresses
  /\ NoKey \notin Episodes \cup CardIds
  /\ Supplies \subseteq Nat
  /\ BranchBase \in Nat /\ FruitBase \in Nat /\ MaxId \in Nat /\ MaxBatch \in Nat
  /\ 1 < BranchBase /\ BranchBase < FruitBase /\ FruitBase <= MaxId

Ids == 1 .. MaxId

VARIABLES
  nextRootId, nextBranchId, nextFruitId,
  tokenType,      \* mapping, "Root" by default (the enum's zero)
  roots, branches, fruits,
  episodeToRoot, cardToBranch, branchToFruit,   \* 0 when absent
  rootBranches,   \* sequence of branch ids per root
  minters,        \* authorizedMinters
  ownerOf         \* ERC721's _owners, Zero when not minted

counters == <<nextRootId, nextBranchId, nextFruitId>>
rootVars == <<roots, episodeToRoot>>
branchVars == <<branches, cardToBranch, rootBranches>>
fruitVars == <<fruits, branchToFruit>>
vars == <<counters, tokenType, rootVars, branchVars, fruitVars, minters, ownerOf>>

Root == [streamer : Addresses \cup {Zero}, episode : Episodes \cup {NoKey},
         maxSupply : Nat, branchCount : Nat, status : {"Active", "Ended"}]
Branch == [rootId : Nat, holder : Addresses \cup {Zero}, card : CardIds \cup {NoKey},
           cardNumber : Nat, fruited : BOOLEAN]
Fruit == [branchId : Nat, rootId : Nat, holder : Addresses \cup {Zero}]

NoRoot == [streamer |-> Zero, episode |-> NoKey, maxSupply |-> 0, branchCount |-> 0,
           status |-> "Active"]
NoBranch == [rootId |-> 0, holder |-> Zero, card |-> NoKey, cardNumber |-> 0,
             fruited |-> FALSE]
NoFruit == [branchId |-> 0, rootId |-> 0, holder |-> Zero]

Roots    == {r \in Ids : roots[r].streamer # Zero}
Branches == {b \in Ids : branches[b].holder # Zero}
Fruits   == {f \in Ids : fruits[f].holder # Zero}

Init ==
  /\ nextRootId = 1 /\ nextBranchId = BranchBase /\ nextFruitId = FruitBase
  /\ tokenType = [t \in Ids |-> "Root"]
  /\ roots = [r \in Ids |-> NoRoot]
  /\ branches = [b \in Ids |-> NoBranch]
  /\ fruits = [f \in Ids |-> NoFruit]
  /\ episodeToRoot = [e \in Episodes |-> 0]
  /\ cardToBranch = [k \in CardIds |-> 0]
  /\ branchToFruit = [b \in Ids |-> 0]
  /\ rootBranches = [r \in Ids |-> << >>]
  /\ minters = {Owner}
  /\ ownerOf = [t \in Ids |-> Zero]

\* onlyAuthorizedMinter
MayMint(caller) == caller \in minters \cup {Owner}

\* ERC721's _mint reverts on an id that already has an owner.
Mintable(id) == id \in Ids /\ ownerOf[id] = Zero

IsNewEpisode(e) == episodeToRoot[e] = 0

IsActive(r) == roots[r].status = "Active"

CreateRoot(caller, streamer, e, supply) ==
  /\ MayMint(caller)
  /\ IsNewEpisode(e)
  /\ Mintable(nextRootId)
  /\ nextRootId' = nextRootId + 1
  /\ roots' = [roots EXCEPT ![nextRootId] =
                 [streamer |-> streamer, episode |-> e, maxSupply |-> supply,
                  branchCount |-> 0, status |-> "Active"]]
  /\ tokenType' = [tokenType EXCEPT ![nextRootId] = "Root"]
  /\ episodeToRoot' = [episodeToRoot EXCEPT ![e] = nextRootId]
  /\ ownerOf' = [ownerOf EXCEPT ![nextRootId] = streamer]
  /\ UNCHANGED <<nextBranchId, nextFruitId, branchVars, fruitVars, minters>>

EndRoot(caller, r) ==
  /\ MayMint(caller)
  /\ r \in Roots
  /\ IsActive(r)
  /\ roots' = [roots EXCEPT ![r].status = "Ended"]
  /\ UNCHANGED <<counters, tokenType, episodeToRoot, branchVars, fruitVars, minters,
                 ownerOf>>

\* Variant for the checks: <= for <.
HasSupply_OffByOne(r) ==
  roots[r].maxSupply > 0 => roots[r].branchCount <= roots[r].maxSupply

HasSupply(r) == roots[r].maxSupply > 0 => roots[r].branchCount < roots[r].maxSupply

\* An active root with supply left; the card is not on chain yet.
MintBranch(caller, r, holder, k) ==
  LET number == roots[r].branchCount + 1 IN
  /\ MayMint(caller)
  /\ r \in Roots
  /\ IsActive(r)
  /\ cardToBranch[k] = 0
  /\ HasSupply(r)
  /\ Mintable(nextBranchId)
  /\ nextBranchId' = nextBranchId + 1
  /\ branches' = [branches EXCEPT ![nextBranchId] =
                    [rootId |-> r, holder |-> holder, card |-> k,
                     cardNumber |-> number, fruited |-> FALSE]]
  /\ tokenType' = [tokenType EXCEPT ![nextBranchId] = "Branch"]
  /\ cardToBranch' = [cardToBranch EXCEPT ![k] = nextBranchId]
  /\ rootBranches' = [rootBranches EXCEPT ![r] = Append(@, nextBranchId)]
  /\ roots' = [roots EXCEPT ![r].branchCount = number]
  /\ ownerOf' = [ownerOf EXCEPT ![nextBranchId] = holder]
  /\ UNCHANGED <<nextRootId, nextFruitId, episodeToRoot, fruitVars, minters>>

\* Variant for the checks: the "Branch already fruited" require is dropped.
Fruitable_Again(b) == b \in Branches /\ roots[branches[b].rootId].status = "Ended"

\* Variant for the checks: the "Root not ended" require is dropped.
Fruitable_Early(b) == b \in Branches /\ ~branches[b].fruited

\* The requires of one iteration of the fruiting loop.
Fruitable(b) ==
  /\ b \in Branches
  /\ ~branches[b].fruited
  /\ roots[branches[b].rootId].status = "Ended"

\* The iterations of a call on the branches bs, in order; a branch that comes
\* twice has been fruited by its first iteration, so the call reverts.
FruitAll(bs) ==
  LET new == nextFruitId .. nextFruitId + Len(bs) - 1
      at(f) == bs[f - nextFruitId + 1]
      done == {bs[i] : i \in DOMAIN bs}
  IN
  /\ \A i \in DOMAIN bs : Fruitable(bs[i])
  /\ \A i, j \in DOMAIN bs : i # j => bs[i] # bs[j]
  /\ \A f \in new : Mintable(f)
  /\ nextFruitId' = nextFruitId + Len(bs)
  /\ fruits' = [f \in Ids |->
                  IF f \in new
                  THEN [branchId |-> at(f), rootId |-> branches[at(f)].rootId,
                        holder |-> branches[at(f)].holder]
                  ELSE fruits[f]]
  /\ tokenType' = [f \in Ids |-> IF f \in new THEN "Fruit" ELSE tokenType[f]]
  /\ branchToFruit' = [b \in Ids |->
                         IF b \in done
                         THEN CHOOSE f \in new : at(f) = b
                         ELSE branchToFruit[b]]
  /\ branches' = [b \in Ids |->
                    IF b \in done THEN [branches[b] EXCEPT !.fruited = TRUE]
                                  ELSE branches[b]]
  /\ ownerOf' = [f \in Ids |-> IF f \in new THEN branches[at(f)].holder ELSE ownerOf[f]]
  /\ UNCHANGED <<nextRootId, nextBranchId, roots, episodeToRoot, cardToBranch,
                 rootBranches, minters>>

MintFruit(caller, b) == MayMint(caller) /\ FruitAll(<<b>>)

BatchMintFruit(caller, bs) ==
  /\ MayMint(caller)
  /\ Len(bs) <= MaxBatch
  /\ FruitAll(bs)

SetAuthorizedMinter(a, authorized) ==
  /\ minters' = IF authorized THEN minters \cup {a} ELSE minters \ {a}
  /\ UNCHANGED <<counters, tokenType, rootVars, branchVars, fruitVars, ownerOf>>

\* transferFrom by the owner (or whom it approved), through _update: a fruit
\* moves only when it is minted.
Transfer(t, to) ==
  /\ ownerOf[t] # Zero
  /\ tokenType[t] # "Fruit"
  /\ ownerOf' = [ownerOf EXCEPT ![t] = to]
  /\ UNCHANGED <<counters, tokenType, rootVars, branchVars, fruitVars, minters>>

Batches == UNION {[1 .. n -> Ids] : n \in 0 .. MaxBatch}

Call(caller) ==
  \/ \E s \in Addresses, e \in Episodes, n \in Supplies : CreateRoot(caller, s, e, n)
  \/ \E r \in Ids : EndRoot(caller, r)
  \/ \E r \in Ids, h \in Addresses, k \in CardIds : MintBranch(caller, r, h, k)
  \/ \E b \in Ids : MintFruit(caller, b)
  \/ \E bs \in Batches : BatchMintFruit(caller, bs)

Next ==
  \/ \E a \in Addresses : Call(a)
  \/ \E a \in Addresses, authorized \in BOOLEAN : SetAuthorizedMinter(a, authorized)
  \/ \E t \in Ids, a \in Addresses : Transfer(t, a)

Spec == Init /\ [][Next]_vars

(***************************************************************************)
(* Properties                                                              *)
(***************************************************************************)

\* Types of the contract's storage.
TypeOK ==
  /\ nextRootId \in Ids \cup {MaxId + 1}
  /\ nextBranchId \in Ids \cup {MaxId + 1}
  /\ nextFruitId \in Ids \cup {MaxId + 1}
  /\ tokenType \in [Ids -> {"Root", "Branch", "Fruit"}]
  /\ roots \in [Ids -> Root]
  /\ branches \in [Ids -> Branch]
  /\ fruits \in [Ids -> Fruit]
  /\ episodeToRoot \in [Episodes -> Ids \cup {0}]
  /\ cardToBranch \in [CardIds -> Ids \cup {0}]
  /\ branchToFruit \in [Ids -> Ids \cup {0}]
  /\ rootBranches \in [Ids -> Seq(Ids)]
  /\ minters \subseteq Addresses
  /\ ownerOf \in [Ids -> Addresses \cup {Zero}]

\* A token id is a root, a branch or a fruit and never two of them, and
\* tokenType says which: also when the root counter runs into the branch ids
\* or the branch counter into the fruit ids (StreamTree.sol:62-64).
OneKind ==
  /\ Roots \cap Branches = {} /\ Roots \cap Fruits = {} /\ Branches \cap Fruits = {}
  /\ \A t \in Ids : tokenType[t] = "Branch" <=> t \in Branches
  /\ \A t \in Ids : tokenType[t] = "Fruit" <=> t \in Fruits
  /\ \A t \in Ids : ownerOf[t] # Zero <=> t \in Roots \cup Branches \cup Fruits

\* branchCount counts the root's branches, which are listed once each, numbered
\* from 1, and never exceed maxSupply.
SupplyRespected ==
  \A r \in Roots :
    /\ roots[r].maxSupply > 0 => roots[r].branchCount <= roots[r].maxSupply
    /\ Len(rootBranches[r]) = roots[r].branchCount
    /\ \A i \in 1 .. Len(rootBranches[r]) :
         LET b == rootBranches[r][i] IN
         b \in Branches /\ branches[b].rootId = r /\ branches[b].cardNumber = i

\* NFTree.md:148, "One Branch, One Fruit": a branch is fruited exactly when it
\* has a fruit, and no two fruits come from one branch, in one batch or in two.
OneBranchOneFruit ==
  /\ \A f, g \in Fruits : fruits[f].branchId = fruits[g].branchId => f = g
  /\ \A b \in Branches : branches[b].fruited <=> branchToFruit[b] # 0
  /\ \A f \in Fruits : fruits[f].branchId \in Branches /\ branchToFruit[fruits[f].branchId] = f

\* Fruits exist only under an ended root, the root of their branch.
FruitAfterEnd ==
  \A f \in Fruits :
    /\ fruits[f].rootId \in Roots
    /\ roots[fruits[f].rootId].status = "Ended"
    /\ branches[fruits[f].branchId].rootId = fruits[f].rootId

\* NFTree.md:150, "Fruit Cannot Fall": a fruit is owned by the holder it was
\* minted to, whatever was transferred before or since.
FruitCannotFall == \A f \in Fruits : ownerOf[f] = fruits[f].holder

\* An episode and a card have one token each, found again by their lookups.
LookupsAgree ==
  /\ \A r \in Roots : episodeToRoot[roots[r].episode] = r
  /\ \A b \in Branches : cardToBranch[branches[b].card] = b

\* The tokens form the tree of NFTree.md: roots with as many numbered branches as
\* they may have, at most one fruit on a branch, and that after the end, and one
\* root and one branch for whoever looks an episode or a card up, whatever calls
\* were repeated, reverted or made in another order.
TreeIntact == SupplyRespected /\ OneBranchOneFruit /\ FruitAfterEnd /\ LookupsAgree

\* The jobs of TokenLedger, and their tokens as the lookups have them.  An ended
\* root counts as the token of its end.
Jobs == [op : {"root", "end"}, key : Episodes] \cup [op : {"branch", "fruit"}, key : CardIds]

TokenOf(j) ==
  LET r == episodeToRoot[j.key]
      b == cardToBranch[j.key]
  IN  CASE j.op = "root"   -> r
        [] j.op = "end"    -> IF r # 0 /\ roots[r].status = "Ended" THEN r ELSE 0
        [] j.op = "branch" -> b
        [] j.op = "fruit"  -> IF b = 0 THEN 0 ELSE branchToFruit[b]

Hanging ==
  {p \in CardIds \X Episodes :
     cardToBranch[p[1]] # 0 /\ branches[cardToBranch[p[1]]].rootId = episodeToRoot[p[2]]}

Ledger == INSTANCE TokenLedger WITH
  Cards <- CardIds, token <- [j \in Jobs |-> TokenOf(j)], hangs <- Hanging

\* Whatever calls are repeated, reverted, batched or made by others, an episode
\* gets one root, a card one branch and one fruit, in the order of the tree
\* (StreamTree.sol:158, 193, 218-224, 265-270, 318-326).
KeepsLedger == Ledger!LedgerSpec

EndedKept ==
  \A r \in Roots : roots[r].status = "Ended" =>
    roots'[r] = roots[r] /\ rootBranches'[r] = rootBranches[r]

\* An ended root stays ended and gets no further branch.
EndedRootIsClosed == [][EndedKept]_vars
===============================================================================
