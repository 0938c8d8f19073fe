----------------------- MODULE StreamTreeContractProofs -----------------------
(***************************************************************************)
(* Proofs, for any accounts, episodes, cards and id ranges, of the type    *)
(* invariant and of the safety properties of StreamTree.sol, and that the  *)
(* contract implements TokenLedger.                                        *)
(***************************************************************************)
EXTENDS StreamTreeContract, TLAPS, SequenceTheorems

\* What the lookups and lists hold besides: episodes and cards that exist,
\* roots that exist, and nothing for an id that is not minted.
Links ==
  /\ \A r \in Roots : roots[r].episode \in Episodes
  /\ \A r \in Ids \ Roots : rootBranches[r] = << >>
  /\ \A b \in Branches : branches[b].card \in CardIds /\ branches[b].rootId \in Roots
  /\ \A b \in Ids \ Branches : branchToFruit[b] = 0

\* The inductive invariant.
IInv ==
  /\ TypeOK /\ OneKind /\ SupplyRespected /\ OneBranchOneFruit
  /\ FruitAfterEnd /\ FruitCannotFall /\ LookupsAgree /\ Links

LEMMA IdsNat == Ids \subseteq Nat \ {0} /\ MaxId + 1 \in Nat
BY ContractAssumption DEF Ids

\* The row a createRoot writes, and where it writes it.
LEMMA CreateRootWrites ==
  ASSUME TypeOK, NEW caller \in Addresses, NEW s \in Addresses, NEW e \in Episodes,
         NEW n \in Supplies, CreateRoot(caller, s, e, n)
  PROVE  /\ nextRootId \in Ids /\ ownerOf[nextRootId] = Zero
         /\ roots' \in [Ids -> Root]
         /\ \A r \in Ids \ {nextRootId} : roots'[r] = roots[r]
         /\ roots'[nextRootId].streamer = s /\ roots'[nextRootId].episode = e
         /\ roots'[nextRootId].branchCount = 0
         /\ roots'[nextRootId].status = "Active"
<1> DEFINE row == [streamer |-> s, episode |-> e, maxSupply |-> n,
                   branchCount |-> 0, status |-> "Active"]
<1>1. row \in Root BY ContractAssumption DEF Root
<1>2. nextRootId \in Ids /\ ownerOf[nextRootId] = Zero BY DEF CreateRoot, Mintable
<1>3. roots' = [roots EXCEPT ![nextRootId] = row] BY DEF CreateRoot
<1>4. row.streamer = s /\ row.episode = e /\ row.branchCount = 0 /\ row.status = "Active"
  OBVIOUS
<1> HIDE DEF row
<1> QED BY <1>1, <1>2, <1>3, <1>4 DEF TypeOK

\* The same of a mintBranch: the branch's row, and the count of its root.
LEMMA MintBranchWrites ==
  ASSUME TypeOK, NEW caller \in Addresses, NEW r \in Ids, NEW h \in Addresses,
         NEW k \in CardIds, MintBranch(caller, r, h, k)
  PROVE  /\ nextBranchId \in Ids /\ ownerOf[nextBranchId] = Zero
         /\ branches' \in [Ids -> Branch]
         /\ \A b \in Ids \ {nextBranchId} : branches'[b] = branches[b]
         /\ branches'[nextBranchId].rootId = r
         /\ branches'[nextBranchId].holder = h
         /\ branches'[nextBranchId].card = k
         /\ branches'[nextBranchId].cardNumber = roots[r].branchCount + 1
         /\ branches'[nextBranchId].fruited = FALSE
         /\ roots' \in [Ids -> Root]
         /\ \A x \in Ids \ {r} : roots'[x] = roots[x]
         /\ roots'[r] = [roots[r] EXCEPT !.branchCount = roots[r].branchCount + 1]
<1> DEFINE number == roots[r].branchCount + 1
           row == [rootId |-> r, holder |-> h, card |-> k, cardNumber |-> number,
                   fruited |-> FALSE]
<1>1. roots[r] \in Root BY DEF TypeOK
<1>2. number \in Nat BY <1>1 DEF Root
<1>3. row \in Branch BY <1>2, IdsNat DEF Branch
<1>4. [roots[r] EXCEPT !.branchCount = number] \in Root BY <1>1, <1>2 DEF Root
<1>5. nextBranchId \in Ids /\ ownerOf[nextBranchId] = Zero BY DEF MintBranch, Mintable
<1>6. branches' = [branches EXCEPT ![nextBranchId] = row] BY DEF MintBranch
<1>7. roots' = [roots EXCEPT ![r] = [roots[r] EXCEPT !.branchCount = number]]
  BY DEF MintBranch
<1>8. /\ row.rootId = r /\ row.holder = h /\ row.card = k /\ row.cardNumber = number
      /\ row.fruited = FALSE
  OBVIOUS
<1> HIDE DEF row
<1>9. /\ branches' \in [Ids -> Branch] /\ branches'[nextBranchId] = row
      /\ \A b \in Ids \ {nextBranchId} : branches'[b] = branches[b]
  BY <1>3, <1>5, <1>6 DEF TypeOK
<1>10. /\ roots' \in [Ids -> Root] /\ \A x \in Ids \ {r} : roots'[x] = roots[x]
       /\ roots'[r] = [roots[r] EXCEPT !.branchCount = number]
  BY <1>4, <1>7 DEF TypeOK
<1> QED BY <1>5, <1>8, <1>9, <1>10

\* What a fruiting call does to the tables: a set of new ids, each the fruit of
\* a branch of its own that had none and whose root has ended.
Fruits_Written(new, of, done) ==
  /\ new \subseteq Ids /\ of \in [new -> done] /\ done \subseteq Branches
  /\ \A f \in new : ownerOf[f] = Zero
  /\ \A f, g \in new : of[f] = of[g] => f = g
  /\ \A b \in done : /\ ~branches[b].fruited
                     /\ roots[branches[b].rootId].status = "Ended"
                     /\ branchToFruit'[b] \in new /\ of[branchToFruit'[b]] = b
  /\ \A b \in Ids \ done : branchToFruit'[b] = branchToFruit[b] /\ branches'[b] = branches[b]
  /\ \A b \in done : branches'[b] = [branches[b] EXCEPT !.fruited = TRUE]
  /\ \A f \in new : /\ fruits'[f] = [branchId |-> of[f], rootId |-> branches[of[f]].rootId,
                                     holder |-> branches[of[f]].holder]
                    /\ tokenType'[f] = "Fruit" /\ ownerOf'[f] = branches[of[f]].holder
  /\ \A t \in Ids \ new : /\ fruits'[t] = fruits[t] /\ tokenType'[t] = tokenType[t]
                          /\ ownerOf'[t] = ownerOf[t]

LEMMA FruitAllWrites ==
  ASSUME TypeOK, NEW n \in Nat, NEW bs \in [1 .. n -> Ids], FruitAll(bs)
  PROVE  /\ nextFruitId' \in Ids \cup {MaxId + 1}
         /\ tokenType' \in [Ids -> {"Root", "Branch", "Fruit"}]
         /\ branches' \in [Ids -> Branch]
         /\ fruits' \in [Ids -> Fruit]
         /\ branchToFruit' \in [Ids -> Ids \cup {0}]
         /\ ownerOf' \in [Ids -> Addresses \cup {Zero}]
         /\ UNCHANGED <<nextRootId, nextBranchId, roots, episodeToRoot, cardToBranch,
                        rootBranches, minters>>
         /\ \E new, of, done : Fruits_Written(new, of, done)
<1> DEFINE new == nextFruitId .. nextFruitId + Len(bs) - 1
           at(f) == bs[f - nextFruitId + 1]
           done == {bs[i] : i \in DOMAIN bs}
           of == [f \in new |-> at(f)]
<1>1. bs \in Seq(Ids) /\ Len(bs) = n /\ DOMAIN bs = 1 .. n
  OBVIOUS
<1>2. nextFruitId \in Nat \ {0} /\ nextFruitId <= MaxId + 1 /\ MaxId \in Nat
  BY ContractAssumption DEF TypeOK, Ids
<1>3. \A f \in new : f - nextFruitId + 1 \in 1 .. n BY <1>1, <1>2
<1>4. \A i \in 1 .. n : nextFruitId + i - 1 \in new /\ at(nextFruitId + i - 1) = bs[i]
  BY <1>1, <1>2
<1>5. of \in [new -> done] BY <1>1, <1>3
<1>6. new \subseteq Ids /\ \A f \in new : ownerOf[f] = Zero BY DEF FruitAll, Mintable
<1>7. \A f, g \in new : at(f) = at(g) => f = g
  <2> SUFFICES ASSUME NEW f \in new, NEW g \in new, at(f) = at(g) PROVE f = g
    OBVIOUS
  <2>1. f - nextFruitId + 1 = g - nextFruitId + 1 BY <1>1, <1>3 DEF FruitAll
  <2> QED BY <2>1, <1>2
<1>8. done \subseteq Branches /\ \A b \in done : /\ ~branches[b].fruited
                                             /\ roots[branches[b].rootId].status = "Ended"
  BY DEF FruitAll, Fruitable
<1>9. \A b \in done : \E f \in new : at(f) = b BY <1>1, <1>4
<1>10. \A f \in new : at(f) \in done BY <1>5
<1>11. branchToFruit' = [b \in Ids |-> IF b \in done THEN CHOOSE f \in new : at(f) = b
                                       ELSE branchToFruit[b]]
  BY DEF FruitAll
<1>12. done \subseteq Ids BY <1>8 DEF Branches
<1>13. \A b \in done : branchToFruit'[b] \in new /\ at(branchToFruit'[b]) = b
  <2> HIDE DEF new, at, done
  <2> TAKE b \in done
  <2>1. branchToFruit'[b] = CHOOSE f \in new : at(f) = b BY <1>11, <1>12
  <2> QED BY <2>1, <1>9, Zenon
<1>14. nextFruitId' = nextFruitId + n BY <1>1 DEF FruitAll
<1>15. nextFruitId' \in Ids \cup {MaxId + 1}
  <2>1. CASE n = 0 BY <2>1, <1>2, <1>14 DEF TypeOK
  <2>2. CASE n > 0
    <3>1. nextFruitId + n - 1 \in Ids BY <2>2, <1>4, <1>6
    <3> QED BY <3>1, <2>2, <1>2, <1>14 DEF Ids
  <2> QED BY <2>1, <2>2
<1>16. fruits' = [f \in Ids |->
                    IF f \in new
                    THEN [branchId |-> at(f), rootId |-> branches[at(f)].rootId,
                          holder |-> branches[at(f)].holder]
                    ELSE fruits[f]]
  BY DEF FruitAll
<1>17. /\ tokenType' = [f \in Ids |-> IF f \in new THEN "Fruit" ELSE tokenType[f]]
       /\ branches' = [b \in Ids |->
                         IF b \in done THEN [branches[b] EXCEPT !.fruited = TRUE]
                                       ELSE branches[b]]
       /\ ownerOf' = [f \in Ids |-> IF f \in new THEN branches[at(f)].holder
                                    ELSE ownerOf[f]]
       /\ UNCHANGED <<nextRootId, nextBranchId, roots, episodeToRoot, cardToBranch,
                      rootBranches, minters>>
  BY DEF FruitAll
<1>18. \A f \in new : of[f] = at(f) OBVIOUS
<1> HIDE DEF new, at, done, of
<1>19. \A b \in Ids : branches[b] \in Branch BY DEF TypeOK
<1>20. \A b \in Ids : /\ branches[b].rootId \in Nat
                      /\ branches[b].holder \in Addresses \cup {Zero}
                      /\ [branches[b] EXCEPT !.fruited = TRUE] \in Branch
  BY <1>19 DEF Branch
<1>21. \A f \in new : at(f) \in Ids /\ at(f) \in Nat BY <1>10, <1>12, IdsNat
<1>22. \A f \in new : [branchId |-> at(f), rootId |-> branches[at(f)].rootId,
                       holder |-> branches[at(f)].holder] \in Fruit
  BY <1>20, <1>21 DEF Fruit
<1>23. fruits' \in [Ids -> Fruit] BY <1>16, <1>22 DEF TypeOK
<1>24. branches' \in [Ids -> Branch] BY <1>17, <1>20 DEF TypeOK
<1>25. /\ tokenType' \in [Ids -> {"Root", "Branch", "Fruit"}]
       /\ ownerOf' \in [Ids -> Addresses \cup {Zero}]
  BY <1>17, <1>20, <1>21 DEF TypeOK
<1>26. branchToFruit' \in [Ids -> Ids \cup {0}]
  <2>1. \A b \in Ids : branchToFruit'[b] \in Ids \cup {0}
    BY <1>6, <1>11, <1>13 DEF TypeOK
  <2> QED BY <2>1, <1>11
<1>27. Fruits_Written(new, of, done)
  <2>1. \A b \in done : branches'[b] = [branches[b] EXCEPT !.fruited = TRUE]
    BY <1>12, <1>17
  <2>2. \A b \in Ids \ done : branchToFruit'[b] = branchToFruit[b] /\ branches'[b] = branches[b]
    BY <1>11, <1>17
  <2>3. \A f \in new : fruits'[f] = [branchId |-> of[f], rootId |-> branches[of[f]].rootId,
                                     holder |-> branches[of[f]].holder]
    BY <1>6, <1>16, <1>18
  <2>4. \A f \in new : tokenType'[f] = "Fruit" /\ ownerOf'[f] = branches[of[f]].holder
    BY <1>6, <1>17, <1>18
  <2>5. \A t \in Ids \ new : /\ fruits'[t] = fruits[t] /\ tokenType'[t] = tokenType[t]
                             /\ ownerOf'[t] = ownerOf[t]
    BY <1>16, <1>17
  <2>6. \A f, g \in new : of[f] = of[g] => f = g BY <1>7, <1>18
  <2>7. \A b \in done : branchToFruit'[b] \in new /\ of[branchToFruit'[b]] = b
    BY <1>13, <1>18
  <2> QED BY <2>1, <2>2, <2>3, <2>4, <2>5, <2>6, <2>7, <1>5, <1>6, <1>8
      DEF Fruits_Written
<1> QED BY <1>15, <1>17, <1>23, <1>24, <1>25, <1>26, <1>27

(***************************************************************************)
(* Types                                                                   *)
(***************************************************************************)

\* TypeOK without the contract's counters would not be inductive: an id is
\* written only where a counter points.
LEMMA CreateRootType ==
  ASSUME TypeOK, NEW caller \in Addresses, NEW s \in Addresses, NEW e \in Episodes,
         NEW n \in Supplies, CreateRoot(caller, s, e, n)
  PROVE  TypeOK'
<1>1. nextRootId \in Ids /\ roots' \in [Ids -> Root] BY CreateRootWrites
<1>2. nextRootId' \in Ids \cup {MaxId + 1}
  BY <1>1, ContractAssumption DEF CreateRoot, Ids
<1> QED BY <1>1, <1>2 DEF TypeOK, CreateRoot, branchVars, fruitVars

LEMMA MintBranchType ==
  ASSUME TypeOK, NEW caller \in Addresses, NEW r \in Ids, NEW h \in Addresses,
         NEW k \in CardIds, MintBranch(caller, r, h, k)
  PROVE  TypeOK'
<1>1. /\ nextBranchId \in Ids /\ roots' \in [Ids -> Root] /\ branches' \in [Ids -> Branch]
  BY MintBranchWrites
<1>2. nextBranchId' \in Ids \cup {MaxId + 1}
  BY <1>1, ContractAssumption DEF MintBranch, Ids
<1>3. rootBranches' \in [Ids -> Seq(Ids)]
  <2>1. Append(rootBranches[r], nextBranchId) \in Seq(Ids)
    BY <1>1, AppendProperties DEF TypeOK
  <2> QED BY <2>1 DEF TypeOK, MintBranch
<1> QED BY <1>1, <1>2, <1>3 DEF TypeOK, MintBranch, fruitVars

LEMMA FruitAllType ==
  ASSUME TypeOK, NEW n \in Nat, NEW bs \in [1 .. n -> Ids], FruitAll(bs)
  PROVE  TypeOK'
BY FruitAllWrites DEF TypeOK

\* A fruiting call, of one branch or of a batch, is FruitAll of some sequence.
LEMMA FruitCall ==
  ASSUME NEW caller \in Addresses,
         \/ \E b \in Ids : MintFruit(caller, b)
         \/ \E bs \in Batches : BatchMintFruit(caller, bs)
  PROVE  \E n \in Nat : \E bs \in [1 .. n -> Ids] : FruitAll(bs)
<1>1. ASSUME NEW b \in Ids, MintFruit(caller, b)
      PROVE  \E n \in Nat : \E bs \in [1 .. n -> Ids] : FruitAll(bs)
  <2>1. <<b>> \in [1 .. 1 -> Ids] OBVIOUS
  <2> QED BY <1>1, <2>1 DEF MintFruit
<1>2. ASSUME NEW bs \in Batches, BatchMintFruit(caller, bs)
      PROVE  \E n \in Nat : \E s \in [1 .. n -> Ids] : FruitAll(s)
  <2>1. PICK n \in 0 .. MaxBatch : bs \in [1 .. n -> Ids] BY <1>2 DEF Batches
  <2> QED BY <1>2, <2>1, ContractAssumption DEF BatchMintFruit
<1> QED BY <1>1, <1>2

\* The calls that touch neither tables nor counters.
LEMMA OtherType ==
  ASSUME TypeOK
  PROVE  /\ \A caller \in Addresses, r \in Ids : EndRoot(caller, r) => TypeOK'
         /\ \A a \in Addresses, authorized \in BOOLEAN :
              SetAuthorizedMinter(a, authorized) => TypeOK'
         /\ \A t \in Ids, to \in Addresses : Transfer(t, to) => TypeOK'
         /\ UNCHANGED vars => TypeOK'
<1>1. ASSUME NEW caller \in Addresses, NEW r \in Ids, EndRoot(caller, r) PROVE TypeOK'
  <2>1. roots[r] \in Root BY DEF TypeOK
  <2>2. [roots[r] EXCEPT !.status = "Ended"] \in Root BY <2>1 DEF Root
  <2>3. roots' = [roots EXCEPT ![r] = [roots[r] EXCEPT !.status = "Ended"]]
    BY <1>1 DEF EndRoot
  <2>4. roots' \in [Ids -> Root] BY <2>2, <2>3 DEF TypeOK
  <2> QED BY <1>1, <2>4 DEF TypeOK, EndRoot, counters, branchVars, fruitVars
<1>2. ASSUME NEW a \in Addresses, NEW authorized \in BOOLEAN,
             SetAuthorizedMinter(a, authorized)
      PROVE  TypeOK'
  BY <1>2 DEF TypeOK, SetAuthorizedMinter, counters, rootVars, branchVars, fruitVars
<1>3. ASSUME NEW t \in Ids, NEW to \in Addresses, Transfer(t, to) PROVE TypeOK'
  BY <1>3 DEF TypeOK, Transfer, counters, rootVars, branchVars, fruitVars
<1>4. ASSUME UNCHANGED vars PROVE TypeOK'
  BY <1>4 DEF TypeOK, vars, counters, rootVars, branchVars, fruitVars
<1> QED BY <1>1, <1>2, <1>3, <1>4

LEMMA TypeInit == Init => TypeOK
<1> SUFFICES ASSUME Init PROVE TypeOK OBVIOUS
<1>1. NoRoot \in Root /\ NoBranch \in Branch /\ NoFruit \in Fruit
  BY DEF NoRoot, Root, NoBranch, Branch, NoFruit, Fruit
<1>2. 1 \in Ids /\ BranchBase \in Ids /\ FruitBase \in Ids
  BY ContractAssumption DEF Ids
<1> QED BY <1>1, <1>2, ContractAssumption DEF Init, TypeOK

LEMMA TypeStep == TypeOK /\ [Next]_vars => TypeOK'
<1> SUFFICES ASSUME TypeOK, [Next]_vars PROVE TypeOK' OBVIOUS
<1>1. ASSUME NEW a \in Addresses, Call(a) PROVE TypeOK'
  <2>1. CASE \E s \in Addresses, e \in Episodes, n \in Supplies : CreateRoot(a, s, e, n)
    BY <2>1, CreateRootType
  <2>2. CASE \E r \in Ids : EndRoot(a, r)
    BY <2>2, OtherType
  <2>3. CASE \E r \in Ids, h \in Addresses, k \in CardIds : MintBranch(a, r, h, k)
    BY <2>3, MintBranchType
  <2>4. CASE \/ \E b \in Ids : MintFruit(a, b)
             \/ \E bs \in Batches : BatchMintFruit(a, bs)
    BY <2>4, FruitCall, FruitAllType
  <2> QED BY <1>1, <2>1, <2>2, <2>3, <2>4 DEF Call
<1> QED BY <1>1, OtherType DEF Next

\* The contract's storage keeps its types, whatever the order of the calls.
THEOREM ContractTypes == Spec => []TypeOK
<1>1. Init => TypeOK BY TypeInit
<1>2. TypeOK /\ [Next]_vars => TypeOK' BY TypeStep
<1> QED BY <1>1, <1>2, PTL DEF Spec

(***************************************************************************)
(* The inductive invariant                                                 *)
(***************************************************************************)

LEMMA InvInit == Init => IInv
<1> SUFFICES ASSUME Init PROVE IInv OBVIOUS
<1>1. TypeOK BY TypeInit
<1>2. Roots = {} /\ Branches = {} /\ Fruits = {}
  BY DEF Init, Roots, Branches, Fruits, NoRoot, NoBranch, NoFruit
<1> QED BY <1>1, <1>2 DEF Init, IInv, OneKind, SupplyRespected, OneBranchOneFruit,
                      FruitAfterEnd, FruitCannotFall, LookupsAgree, Links

LEMMA CreateRootKeeps ==
  ASSUME IInv, NEW caller \in Addresses, NEW s \in Addresses, NEW e \in Episodes,
         NEW n \in Supplies, CreateRoot(caller, s, e, n)
  PROVE  IInv'
<1> DEFINE id == nextRootId
<1>0. TypeOK /\ OneKind /\ SupplyRespected /\ OneBranchOneFruit
      /\ FruitAfterEnd /\ FruitCannotFall /\ LookupsAgree /\ Links
  BY DEF IInv
<1>1. /\ id \in Ids /\ ownerOf[id] = Zero
      /\ roots' \in [Ids -> Root]
      /\ \A r \in Ids \ {id} : roots'[r] = roots[r]
      /\ roots'[id].streamer = s /\ roots'[id].episode = e
      /\ roots'[id].branchCount = 0 /\ roots'[id].status = "Active"
  BY <1>0, CreateRootWrites
<1>2. id \notin Roots /\ id \notin Branches /\ id \notin Fruits
  BY <1>0, <1>1 DEF OneKind
<1>3. /\ branches' = branches /\ fruits' = fruits /\ cardToBranch' = cardToBranch
      /\ rootBranches' = rootBranches /\ branchToFruit' = branchToFruit
      /\ tokenType' = [tokenType EXCEPT ![id] = "Root"]
      /\ episodeToRoot' = [episodeToRoot EXCEPT ![e] = id]
      /\ ownerOf' = [ownerOf EXCEPT ![id] = s]
  BY DEF CreateRoot, branchVars, fruitVars
<1>4. Branches' = Branches /\ Fruits' = Fruits BY <1>3 DEF Branches, Fruits
<1>5. s # Zero BY ContractAssumption
<1>6. Roots' = Roots \cup {id} BY <1>1, <1>5 DEF Roots
<1>7. episodeToRoot[e] = 0 BY DEF CreateRoot, IsNewEpisode
<1> HIDE DEF id
<1>8. Roots \subseteq Ids /\ Branches \subseteq Ids /\ Fruits \subseteq Ids
  BY DEF Roots, Branches, Fruits
<1>9. TypeOK' BY <1>0, CreateRootType
<1>10. OneKind'
  BY <1>0, <1>1, <1>2, <1>3, <1>4, <1>5, <1>6 DEF OneKind, TypeOK
<1>11. SupplyRespected'
  <2>1. roots'[id] \in Root BY <1>1
  <2>2. roots'[id].maxSupply \in Nat BY <2>1 DEF Root
  <2>3. rootBranches[id] = << >> BY <1>0, <1>1, <1>2 DEF Links
  <2>4. Len(rootBranches[id]) = 0 BY <2>3
  <2> SUFFICES ASSUME NEW r \in Roots'
               PROVE  /\ roots'[r].maxSupply > 0 => roots'[r].branchCount <= roots'[r].maxSupply
                      /\ Len(rootBranches'[r]) = roots'[r].branchCount
                      /\ \A i \in 1 .. Len(rootBranches'[r]) :
                           LET b == rootBranches'[r][i] IN
                           b \in Branches' /\ branches'[b].rootId = r
                           /\ branches'[b].cardNumber = i
    BY DEF SupplyRespected
  <2>5. CASE r = id BY <2>2, <2>3, <2>4, <2>5, <1>1, <1>3
  <2>6. CASE r # id BY <2>6, <1>0, <1>1, <1>3, <1>4, <1>6, <1>8 DEF SupplyRespected
  <2> QED BY <2>5, <2>6
<1>12. OneBranchOneFruit' BY <1>0, <1>3, <1>4 DEF OneBranchOneFruit
<1>13. FruitAfterEnd'
  BY <1>0, <1>1, <1>2, <1>3, <1>4, <1>6, <1>8 DEF FruitAfterEnd
<1>14. FruitCannotFall' BY <1>0, <1>2, <1>3, <1>4, <1>8 DEF FruitCannotFall, TypeOK
<1>15. LookupsAgree'
  <2>1. ASSUME NEW r \in Roots' PROVE episodeToRoot'[roots'[r].episode] = r
    <3>1. CASE r = id BY <3>1, <1>0, <1>1, <1>3 DEF TypeOK
    <3>2. CASE r # id
      <4>1. r \in Roots /\ roots'[r] = roots[r] BY <3>2, <1>1, <1>6, <1>8, <2>1
      <4>2. episodeToRoot[roots[r].episode] = r BY <4>1, <1>0 DEF LookupsAgree
      <4>3. roots[r].episode # e BY <4>1, <4>2, <1>7, <1>8, IdsNat
      <4>4. roots[r].episode \in Episodes BY <4>1, <1>0 DEF Links
      <4> QED BY <4>1, <4>2, <4>3, <4>4, <1>0, <1>3 DEF TypeOK
    <3> QED BY <3>1, <3>2
  <2>2. \A b \in Branches' : cardToBranch'[branches'[b].card] = b
    BY <1>0, <1>3, <1>4 DEF LookupsAgree
  <2> QED BY <2>1, <2>2 DEF LookupsAgree
<1>16. Links'
  <2>1. \A r \in Roots' : roots'[r].episode \in Episodes
    BY <1>0, <1>1, <1>6, <1>8 DEF Links
  <2>2. \A r \in Ids \ Roots' : rootBranches'[r] = << >>
    BY <1>0, <1>3, <1>6 DEF Links
  <2>3. \A b \in Branches' : branches'[b].card \in CardIds /\ branches'[b].rootId \in Roots'
    BY <1>0, <1>3, <1>4, <1>6 DEF Links
  <2>4. \A b \in Ids \ Branches' : branchToFruit'[b] = 0 BY <1>0, <1>3, <1>4 DEF Links
  <2> QED BY <2>1, <2>2, <2>3, <2>4 DEF Links
<1> QED BY <1>9, <1>10, <1>11, <1>12, <1>13, <1>14, <1>15, <1>16 DEF IInv

LEMMA MintBranchKeeps ==
  ASSUME IInv, NEW caller \in Addresses, NEW r \in Ids, NEW h \in Addresses,
         NEW k \in CardIds, MintBranch(caller, r, h, k)
  PROVE  IInv'
<1> DEFINE id == nextBranchId
           number == roots[r].branchCount + 1
<1>0. TypeOK /\ OneKind /\ SupplyRespected /\ OneBranchOneFruit
      /\ FruitAfterEnd /\ FruitCannotFall /\ LookupsAgree /\ Links
  BY DEF IInv
<1>1. /\ id \in Ids /\ ownerOf[id] = Zero
      /\ \A b \in Ids \ {id} : branches'[b] = branches[b]
      /\ branches'[id].rootId = r /\ branches'[id].holder = h /\ branches'[id].card = k
      /\ branches'[id].cardNumber = number /\ branches'[id].fruited = FALSE
  BY <1>0, MintBranchWrites
<1>2. /\ \A x \in Ids \ {r} : roots'[x] = roots[x]
      /\ roots'[r] = [roots[r] EXCEPT !.branchCount = number]
  BY <1>0, MintBranchWrites
<1>3. /\ roots'[r].streamer = roots[r].streamer /\ roots'[r].episode = roots[r].episode
      /\ roots'[r].maxSupply = roots[r].maxSupply /\ roots'[r].status = roots[r].status
      /\ roots'[r].branchCount = number
  <2>1. roots[r] \in Root BY <1>0 DEF TypeOK
  <2> HIDE DEF number
  <2> QED BY <2>1, <1>2 DEF Root
<1>4. id \notin Roots /\ id \notin Branches /\ id \notin Fruits
  BY <1>0, <1>1 DEF OneKind
<1>5. /\ fruits' = fruits /\ branchToFruit' = branchToFruit /\ episodeToRoot' = episodeToRoot
      /\ tokenType' = [tokenType EXCEPT ![id] = "Branch"]
      /\ cardToBranch' = [cardToBranch EXCEPT ![k] = id]
      /\ rootBranches' = [rootBranches EXCEPT ![r] = Append(rootBranches[r], id)]
      /\ ownerOf' = [ownerOf EXCEPT ![id] = h]
  BY DEF MintBranch, fruitVars
<1>6. h # Zero BY ContractAssumption
<1>7. Roots' = Roots /\ Fruits' = Fruits BY <1>2, <1>3, <1>5 DEF Roots, Fruits
<1>8. Branches' = Branches \cup {id} BY <1>1, <1>6 DEF Branches
<1>9. r \in Roots /\ cardToBranch[k] = 0 /\ HasSupply(r) BY DEF MintBranch
<1>10. roots[r].branchCount \in Nat /\ roots[r].maxSupply \in Nat
  <2>1. roots[r] \in Root BY <1>0 DEF TypeOK
  <2> QED BY <2>1 DEF Root
<1>11. Roots \subseteq Ids /\ Branches \subseteq Ids /\ Fruits \subseteq Ids
  BY DEF Roots, Branches, Fruits
<1> HIDE DEF id
<1>12. TypeOK' BY <1>0, MintBranchType
<1>13. OneKind'
  BY <1>0, <1>1, <1>4, <1>5, <1>6, <1>7, <1>8 DEF OneKind, TypeOK
<1>14. SupplyRespected'
  <2> DEFINE list == rootBranches[r]
             longer == Append(list, id)
  <2>1. list \in Seq(Ids) BY <1>0 DEF TypeOK
  <2>2. /\ Len(longer) = Len(list) + 1 /\ longer[Len(list) + 1] = id
        /\ \A i \in 1 .. Len(list) : longer[i] = list[i]
        /\ Len(list) \in Nat
    BY <1>1, <2>1, AppendProperties, LenProperties
  <2>3. rootBranches'[r] = longer /\ \A x \in Ids \ {r} : rootBranches'[x] = rootBranches[x]
    BY <1>0, <1>5 DEF TypeOK
  <2>4. Len(list) = roots[r].branchCount BY <1>0, <1>9 DEF SupplyRespected
  <2> HIDE DEF longer
  <2> SUFFICES ASSUME NEW x \in Roots'
               PROVE  /\ roots'[x].maxSupply > 0 => roots'[x].branchCount <= roots'[x].maxSupply
                      /\ Len(rootBranches'[x]) = roots'[x].branchCount
                      /\ \A i \in 1 .. Len(rootBranches'[x]) :
                           LET b == rootBranches'[x][i] IN
                           b \in Branches' /\ branches'[b].rootId = x
                           /\ branches'[b].cardNumber = i
    BY DEF SupplyRespected
  <2>5. CASE x = r
    <3>1. roots'[r].maxSupply > 0 => roots'[r].branchCount <= roots'[r].maxSupply
      BY <1>3, <1>9, <1>10 DEF HasSupply
    <3>2. Len(longer) = roots'[r].branchCount BY <1>3, <2>2, <2>4
    <3>3. ASSUME NEW i \in 1 .. Len(longer)
          PROVE  /\ longer[i] \in Branches' /\ branches'[longer[i]].rootId = r
                 /\ branches'[longer[i]].cardNumber = i
      <4>1. CASE i = Len(list) + 1 BY <4>1, <2>2, <2>4, <1>1, <1>8
      <4>2. CASE i # Len(list) + 1
        <5>1. i \in 1 .. Len(list) BY <4>2, <2>2
        <5>2. list[i] \in Branches /\ branches[list[i]].rootId = r
              /\ branches[list[i]].cardNumber = i
          BY <5>1, <1>0, <1>9 DEF SupplyRespected
        <5>3. longer[i] = list[i] BY <5>1, <2>2
        <5>4. branches'[list[i]] = branches[list[i]] BY <5>2, <1>1, <1>4, <1>11
        <5> QED BY <5>2, <5>3, <5>4, <1>8
      <4> QED BY <4>1, <4>2
    <3> QED BY <2>5, <2>3, <3>1, <3>2, <3>3
  <2>6. CASE x # r
    <3>1. x \in Roots /\ x \in Ids BY <1>7, <1>11
    <3>2. roots'[x] = roots[x] /\ rootBranches'[x] = rootBranches[x]
      BY <3>1, <2>3, <2>6, <1>2
    <3>3. \A b \in Branches : b \in Branches' /\ branches'[b] = branches[b]
      BY <1>1, <1>4, <1>8, <1>11
    <3> QED BY <3>1, <3>2, <3>3, <1>0 DEF SupplyRespected
  <2> QED BY <2>5, <2>6
<1>15. \A b \in Branches : branches'[b] = branches[b] BY <1>1, <1>4, <1>11
<1>16. OneBranchOneFruit'
  <2>1. branchToFruit[id] = 0 BY <1>0, <1>1, <1>4 DEF Links
  <2>2. \A b \in Branches' : branches'[b].fruited <=> branchToFruit'[b] # 0
    BY <2>1, <1>0, <1>1, <1>5, <1>8, <1>15 DEF OneBranchOneFruit
  <2> QED BY <2>2, <1>0, <1>5, <1>7, <1>8 DEF OneBranchOneFruit
<1>17. FruitAfterEnd'
  <2> SUFFICES ASSUME NEW f \in Fruits'
               PROVE  /\ fruits'[f].rootId \in Roots'
                      /\ roots'[fruits'[f].rootId].status = "Ended"
                      /\ branches'[fruits'[f].branchId].rootId = fruits'[f].rootId
    BY DEF FruitAfterEnd
  <2>1. /\ fruits[f].rootId \in Roots /\ roots[fruits[f].rootId].status = "Ended"
        /\ branches[fruits[f].branchId].rootId = fruits[f].rootId
    BY <1>0, <1>7 DEF FruitAfterEnd
  <2>2. fruits[f].branchId \in Branches BY <1>0, <1>7 DEF OneBranchOneFruit
  <2>3. \A x \in Roots : roots'[x].status = roots[x].status BY <1>2, <1>3, <1>11
  <2> QED BY <2>1, <2>2, <2>3, <1>5, <1>7, <1>15
<1>18. FruitCannotFall' BY <1>0, <1>4, <1>5, <1>7, <1>11 DEF FruitCannotFall, TypeOK
<1>19. LookupsAgree'
  <2>0. \A x \in Roots : roots'[x].episode = roots[x].episode BY <1>2, <1>3, <1>11
  <2>1. \A x \in Roots' : episodeToRoot'[roots'[x].episode] = x
    BY <2>0, <1>0, <1>5, <1>7 DEF LookupsAgree
  <2>2. ASSUME NEW b \in Branches' PROVE cardToBranch'[branches'[b].card] = b
    <3>1. CASE b = id BY <3>1, <1>0, <1>1, <1>5 DEF TypeOK
    <3>2. CASE b # id
      <4>1. b \in Branches /\ branches'[b] = branches[b] BY <3>2, <1>8, <1>15
      <4>2. cardToBranch[branches[b].card] = b BY <4>1, <1>0 DEF LookupsAgree
      <4>3. branches[b].card # k BY <4>1, <4>2, <1>9, <1>11, IdsNat
      <4>4. branches[b].card \in CardIds BY <4>1, <1>0 DEF Links
      <4> QED BY <4>1, <4>2, <4>3, <4>4, <1>0, <1>5 DEF TypeOK
    <3> QED BY <3>1, <3>2
  <2> QED BY <2>1, <2>2 DEF LookupsAgree
<1>20. Links'
  <2>1. \A x \in Roots' : roots'[x].episode \in Episodes
    BY <1>0, <1>2, <1>3, <1>7, <1>11 DEF Links
  <2>2. \A x \in Ids \ Roots' : rootBranches'[x] = << >>
    BY <1>0, <1>5, <1>7, <1>9 DEF Links, TypeOK
  <2>3. \A b \in Branches' : branches'[b].card \in CardIds /\ branches'[b].rootId \in Roots'
    BY <1>0, <1>1, <1>7, <1>8, <1>9, <1>15 DEF Links
  <2>4. \A b \in Ids \ Branches' : branchToFruit'[b] = 0 BY <1>0, <1>5, <1>8 DEF Links
  <2> QED BY <2>1, <2>2, <2>3, <2>4 DEF Links
<1> QED BY <1>12, <1>13, <1>14, <1>16, <1>17, <1>18, <1>19, <1>20 DEF IInv

\* A fruiting call writes only ids that were free and branches that had no
\* fruit.
LEMMA FruitAllKeeps ==
  ASSUME IInv, NEW n \in Nat, NEW bs \in [1 .. n -> Ids], FruitAll(bs)
  PROVE  IInv'
<1>0. TypeOK /\ OneKind /\ SupplyRespected /\ OneBranchOneFruit
      /\ FruitAfterEnd /\ FruitCannotFall /\ LookupsAgree /\ Links
  BY DEF IInv
<1>1. PICK new, of, done : Fruits_Written(new, of, done) BY <1>0, FruitAllWrites
<1>2. /\ roots' = roots /\ episodeToRoot' = episodeToRoot /\ cardToBranch' = cardToBranch
      /\ rootBranches' = rootBranches
  BY <1>0, FruitAllWrites
<1>3. Roots \subseteq Ids /\ Branches \subseteq Ids /\ Fruits \subseteq Ids
  BY DEF Roots, Branches, Fruits
<1>4. \A b \in Ids : branches[b] \in Branch BY <1>0 DEF TypeOK
<1>5. \A b \in Ids : /\ branches'[b].rootId = branches[b].rootId
                     /\ branches'[b].holder = branches[b].holder
                     /\ branches'[b].card = branches[b].card
                     /\ branches'[b].cardNumber = branches[b].cardNumber
                     /\ branches'[b].fruited <=> b \in done \/ branches[b].fruited
  <2> TAKE b \in Ids
  <2>1. CASE b \in done
    <3>1. branches'[b] = [branches[b] EXCEPT !.fruited = TRUE]
      BY <2>1, <1>1 DEF Fruits_Written
    <3> QED BY <2>1, <3>1, <1>4 DEF Branch
  <2>2. CASE b \notin done BY <2>2, <1>1 DEF Fruits_Written
  <2> QED BY <2>1, <2>2
<1>6. Roots' = Roots /\ Branches' = Branches BY <1>2, <1>5 DEF Roots, Branches
<1>7. \A f \in new : /\ of[f] \in done /\ of[f] \in Branches
                     /\ f \notin Roots \cup Branches \cup Fruits
                     /\ fruits'[f].branchId = of[f]
                     /\ fruits'[f].rootId = branches[of[f]].rootId
                     /\ fruits'[f].holder = branches[of[f]].holder
                     /\ branches[of[f]].holder # Zero
                     /\ tokenType'[f] = "Fruit"
                     /\ ownerOf'[f] = branches[of[f]].holder
  <2> TAKE f \in new
  <2>1. of[f] \in done /\ of[f] \in Branches BY <1>1 DEF Fruits_Written
  <2>2. f \notin Roots \cup Branches \cup Fruits
    BY <1>0, <1>1 DEF OneKind, Fruits_Written
  <2>3. fruits'[f] = [branchId |-> of[f], rootId |-> branches[of[f]].rootId,
                      holder |-> branches[of[f]].holder]
    BY <1>1 DEF Fruits_Written
  <2>4. branches[of[f]].holder # Zero BY <2>1 DEF Branches
  <2>5. tokenType'[f] = "Fruit" /\ ownerOf'[f] = branches[of[f]].holder
    BY <1>1 DEF Fruits_Written
  <2> QED BY <2>1, <2>2, <2>3, <2>4, <2>5
<1>8. new \subseteq Ids /\ \A t \in Ids \ new : /\ fruits'[t] = fruits[t]
                                                /\ tokenType'[t] = tokenType[t]
                                                /\ ownerOf'[t] = ownerOf[t]
  BY <1>1 DEF Fruits_Written
<1>9. Fruits' = Fruits \cup new BY <1>7, <1>8 DEF Fruits
<1>10. \A f \in Fruits : f \notin new /\ fruits'[f] = fruits[f] /\ ownerOf'[f] = ownerOf[f]
  BY <1>3, <1>7, <1>8
<1>11. TypeOK' BY <1>0, FruitAllType
<1>12. OneKind'
  <2>1. /\ Roots' \cap Branches' = {} /\ Roots' \cap Fruits' = {}
        /\ Branches' \cap Fruits' = {}
    BY <1>0, <1>6, <1>7, <1>9 DEF OneKind
  <2>2. ASSUME NEW t \in Ids
        PROVE  /\ tokenType'[t] = "Branch" <=> t \in Branches'
               /\ tokenType'[t] = "Fruit" <=> t \in Fruits'
               /\ ownerOf'[t] # Zero <=> t \in Roots' \cup Branches' \cup Fruits'
    <3>1. CASE t \in new BY <3>1, <1>6, <1>7, <1>9
    <3>2. CASE t \notin new BY <3>2, <1>0, <1>6, <1>8, <1>9 DEF OneKind
    <3> QED BY <3>1, <3>2
  <2> QED BY <2>1, <2>2 DEF OneKind
<1>13. SupplyRespected'
  <2> SUFFICES ASSUME NEW r \in Roots
               PROVE  /\ roots[r].maxSupply > 0 => roots[r].branchCount <= roots[r].maxSupply
                      /\ Len(rootBranches[r]) = roots[r].branchCount
                      /\ \A i \in 1 .. Len(rootBranches[r]) :
                           LET b == rootBranches[r][i] IN
                           b \in Branches' /\ branches'[b].rootId = r
                           /\ branches'[b].cardNumber = i
    BY <1>2, <1>6 DEF SupplyRespected
  <2> QED BY <1>0, <1>3, <1>5, <1>6 DEF SupplyRespected
<1>14. OneBranchOneFruit'
  <2>1. \A b \in done : branchToFruit[b] = 0
    BY <1>0, <1>1 DEF OneBranchOneFruit, Fruits_Written
  <2>2. \A f \in Fruits : fruits[f].branchId \notin done
    BY <2>1, <1>0, <1>3, IdsNat DEF OneBranchOneFruit
  <2>3. ASSUME NEW f \in Fruits', NEW g \in Fruits', fruits'[f].branchId = fruits'[g].branchId
        PROVE  f = g
    <3>1. CASE f \in new /\ g \in new BY <3>1, <2>3, <1>1, <1>7 DEF Fruits_Written
    <3>2. CASE f \in Fruits /\ g \in Fruits
      BY <3>2, <2>3, <1>0, <1>10 DEF OneBranchOneFruit
    <3>3. CASE f \in new /\ g \in Fruits BY <3>3, <2>2, <2>3, <1>7, <1>10
    <3>4. CASE f \in Fruits /\ g \in new BY <3>4, <2>2, <2>3, <1>7, <1>10
    <3> QED BY <3>1, <3>2, <3>3, <3>4, <1>9
  <2>4. ASSUME NEW b \in Branches' PROVE branches'[b].fruited <=> branchToFruit'[b] # 0
    <3>1. CASE b \in done
      BY <3>1, <1>1, <1>3, <1>5, <1>6, <1>8, IdsNat DEF Fruits_Written
    <3>2. CASE b \notin done
      BY <3>2, <1>0, <1>1, <1>3, <1>5, <1>6 DEF OneBranchOneFruit, Fruits_Written
    <3> QED BY <3>1, <3>2
  <2>5. ASSUME NEW f \in Fruits'
        PROVE  fruits'[f].branchId \in Branches' /\ branchToFruit'[fruits'[f].branchId] = f
    <3>1. CASE f \in new
      <4>1. branchToFruit'[of[f]] \in new /\ of[branchToFruit'[of[f]]] = of[f]
        BY <3>1, <1>1, <1>7 DEF Fruits_Written
      <4>2. branchToFruit'[of[f]] = f BY <3>1, <4>1, <1>1 DEF Fruits_Written
      <4> QED BY <3>1, <4>2, <1>6, <1>7
    <3>2. CASE f \in Fruits
      <4>1. fruits[f].branchId \in Branches /\ branchToFruit[fruits[f].branchId] = f
        BY <3>2, <1>0 DEF OneBranchOneFruit
      <4>2. branchToFruit'[fruits[f].branchId] = branchToFruit[fruits[f].branchId]
        BY <3>2, <4>1, <2>2, <1>1, <1>3 DEF Fruits_Written
      <4> QED BY <3>2, <4>1, <4>2, <1>6, <1>10
    <3> QED BY <3>1, <3>2, <1>9
  <2> QED BY <2>3, <2>4, <2>5 DEF OneBranchOneFruit
<1>15. FruitAfterEnd'
  <2> SUFFICES ASSUME NEW f \in Fruits'
               PROVE  /\ fruits'[f].rootId \in Roots'
                      /\ roots'[fruits'[f].rootId].status = "Ended"
                      /\ branches'[fruits'[f].branchId].rootId = fruits'[f].rootId
    BY DEF FruitAfterEnd
  <2>1. CASE f \in new
    <3>1. roots[branches[of[f]].rootId].status = "Ended"
      BY <2>1, <1>1, <1>7 DEF Fruits_Written
    <3>2. branches[of[f]].rootId \in Roots BY <2>1, <1>0, <1>7 DEF Links
    <3> QED BY <2>1, <3>1, <3>2, <1>2, <1>3, <1>5, <1>6, <1>7
  <2>2. CASE f \in Fruits
    BY <2>2, <1>0, <1>2, <1>3, <1>5, <1>6, <1>10 DEF FruitAfterEnd, OneBranchOneFruit
  <2> QED BY <2>1, <2>2, <1>9
<1>16. FruitCannotFall' BY <1>0, <1>7, <1>9, <1>10 DEF FruitCannotFall
<1>17. LookupsAgree' BY <1>0, <1>2, <1>3, <1>5, <1>6 DEF LookupsAgree
<1>18. Links'
  <2>1. \A b \in Ids \ Branches' : branchToFruit'[b] = 0
    BY <1>0, <1>1, <1>6 DEF Links, Fruits_Written
  <2> QED BY <2>1, <1>0, <1>2, <1>3, <1>5, <1>6 DEF Links
<1> QED BY <1>11, <1>12, <1>13, <1>14, <1>15, <1>16, <1>17, <1>18 DEF IInv

LEMMA EndRootKeeps ==
  ASSUME IInv, NEW caller \in Addresses, NEW r \in Ids, EndRoot(caller, r)
  PROVE  IInv'
<1>0. TypeOK /\ OneKind /\ SupplyRespected /\ OneBranchOneFruit
      /\ FruitAfterEnd /\ FruitCannotFall /\ LookupsAgree /\ Links
  BY DEF IInv
<1>1. roots[r] \in Root BY <1>0 DEF TypeOK
<1>2. roots' = [roots EXCEPT ![r] = [roots[r] EXCEPT !.status = "Ended"]]
  BY DEF EndRoot
<1>3. \A x \in Ids : /\ roots'[x].streamer = roots[x].streamer
                     /\ roots'[x].episode = roots[x].episode
                     /\ roots'[x].maxSupply = roots[x].maxSupply
                     /\ roots'[x].branchCount = roots[x].branchCount
                     /\ roots[x].status = "Ended" => roots'[x].status = "Ended"
  <2>1. roots'[r] = [roots[r] EXCEPT !.status = "Ended"] BY <1>0, <1>2 DEF TypeOK
  <2>2. \A x \in Ids \ {r} : roots'[x] = roots[x] BY <1>0, <1>2 DEF TypeOK
  <2> QED BY <2>1, <2>2, <1>1 DEF Root
<1>4. UNCHANGED <<counters, tokenType, episodeToRoot, branches, cardToBranch,
                  rootBranches, fruits, branchToFruit, minters, ownerOf>>
  BY DEF EndRoot, branchVars, fruitVars
<1>5. Roots' = Roots /\ Branches' = Branches /\ Fruits' = Fruits
  BY <1>3, <1>4 DEF Roots, Branches, Fruits
<1>6. Roots \subseteq Ids BY DEF Roots
<1>7. TypeOK' BY <1>0, OtherType
<1>8. OneKind' /\ OneBranchOneFruit' /\ FruitCannotFall'
  BY <1>0, <1>4, <1>5 DEF OneKind, OneBranchOneFruit, FruitCannotFall
<1>9. SupplyRespected' BY <1>0, <1>3, <1>4, <1>5, <1>6 DEF SupplyRespected
<1>10. FruitAfterEnd' BY <1>0, <1>3, <1>4, <1>5, <1>6 DEF FruitAfterEnd
<1>11. LookupsAgree' BY <1>0, <1>3, <1>4, <1>5, <1>6 DEF LookupsAgree
<1>12. Links' BY <1>0, <1>3, <1>4, <1>5, <1>6 DEF Links
<1> QED BY <1>7, <1>8, <1>9, <1>10, <1>11, <1>12 DEF IInv

\* A transfer writes the owner of a root or a branch only.
LEMMA TransferKeeps ==
  ASSUME IInv, NEW t \in Ids, NEW to \in Addresses, Transfer(t, to)
  PROVE  IInv'
<1>0. TypeOK /\ OneKind /\ SupplyRespected /\ OneBranchOneFruit
      /\ FruitAfterEnd /\ FruitCannotFall /\ LookupsAgree /\ Links
  BY DEF IInv
<1>1. UNCHANGED <<counters, tokenType, rootVars, branchVars, fruitVars, minters>>
      /\ ownerOf' = [ownerOf EXCEPT ![t] = to] /\ ownerOf[t] # Zero /\ t \notin Fruits
  BY <1>0 DEF Transfer, OneKind
<1>2. Roots' = Roots /\ Branches' = Branches /\ Fruits' = Fruits
  BY <1>1 DEF Roots, Branches, Fruits, rootVars, branchVars, fruitVars
<1>3. Fruits \subseteq Ids BY DEF Fruits
<1>4. TypeOK' BY <1>0, OtherType
<1>5. OneKind'
  BY <1>0, <1>1, <1>2, ContractAssumption DEF OneKind, TypeOK
<1>6. FruitCannotFall' BY <1>0, <1>1, <1>2, <1>3 DEF FruitCannotFall, TypeOK, fruitVars
<1>7. SupplyRespected' /\ OneBranchOneFruit' /\ FruitAfterEnd' /\ LookupsAgree' /\ Links'
  BY <1>0, <1>1, <1>2 DEF SupplyRespected, OneBranchOneFruit, FruitAfterEnd,
     LookupsAgree, Links, rootVars, branchVars, fruitVars
<1> QED BY <1>4, <1>5, <1>6, <1>7 DEF IInv

\* The tables are left alone by setAuthorizedMinter and by a stutter.
LEMMA TablesSameKeeps ==
  ASSUME IInv, TypeOK', UNCHANGED <<counters, tokenType, rootVars, branchVars, fruitVars, ownerOf>>
  PROVE  IInv'
<1>1. Roots' = Roots /\ Branches' = Branches /\ Fruits' = Fruits
  BY DEF Roots, Branches, Fruits, rootVars, branchVars, fruitVars
<1> QED BY <1>1 DEF IInv, OneKind, SupplyRespected, OneBranchOneFruit, FruitAfterEnd,
       FruitCannotFall, LookupsAgree, Links, rootVars, branchVars, fruitVars

LEMMA InvStep == IInv /\ [Next]_vars => IInv'
<1> SUFFICES ASSUME IInv, [Next]_vars PROVE IInv' OBVIOUS
<1>1. ASSUME NEW a \in Addresses, Call(a) PROVE IInv'
  <2>1. CASE \E s \in Addresses, e \in Episodes, n \in Supplies : CreateRoot(a, s, e, n)
    BY <2>1, CreateRootKeeps
  <2>2. CASE \E r \in Ids : EndRoot(a, r)
    BY <2>2, EndRootKeeps
  <2>3. CASE \E r \in Ids, h \in Addresses, k \in CardIds : MintBranch(a, r, h, k)
    BY <2>3, MintBranchKeeps
  <2>4. CASE \/ \E b \in Ids : MintFruit(a, b)
             \/ \E bs \in Batches : BatchMintFruit(a, bs)
    BY <2>4, FruitCall, FruitAllKeeps
  <2> QED BY <1>1, <2>1, <2>2, <2>3, <2>4 DEF Call
<1>2. ASSUME NEW a \in Addresses, NEW authorized \in BOOLEAN,
             SetAuthorizedMinter(a, authorized)
      PROVE  IInv'
  BY <1>2, TypeStep, TablesSameKeeps DEF SetAuthorizedMinter, IInv
<1>3. CASE UNCHANGED vars
  BY <1>3, TypeStep, TablesSameKeeps DEF vars, IInv
<1> QED BY <1>1, <1>2, <1>3, TransferKeeps DEF Next

LEMMA Invariance == Spec => []IInv
<1>1. Init => IInv BY InvInit
<1>2. IInv /\ [Next]_vars => IInv' BY InvStep
<1> QED BY <1>1, <1>2, PTL DEF Spec

(***************************************************************************)
(* The theorems                                                            *)
(***************************************************************************)

\* A token is of one kind, also when the id ranges run into each other.
THEOREM OneKindHolds == Spec => []OneKind
<1>1. IInv => OneKind BY DEF IInv
<1> QED BY <1>1, Invariance, PTL

\* maxSupply bounds the branches of a root, which are numbered 1, 2, 3, ...
THEOREM SupplyIsRespected == Spec => []SupplyRespected
<1>1. IInv => SupplyRespected BY DEF IInv
<1> QED BY <1>1, Invariance, PTL

\* "One Branch, One Fruit", whatever duplicates a batch contains.
THEOREM BranchFruitsOnce == Spec => []OneBranchOneFruit
<1>1. IInv => OneBranchOneFruit BY DEF IInv
<1> QED BY <1>1, Invariance, PTL

\* Fruits only under ended roots.
THEOREM FruitsAfterEnd == Spec => []FruitAfterEnd
<1>1. IInv => FruitAfterEnd BY DEF IInv
<1> QED BY <1>1, Invariance, PTL

\* "Fruit Cannot Fall": a fruit stays with the holder it was minted to.
THEOREM FruitsStay == Spec => []FruitCannotFall
<1>1. IInv => FruitCannotFall BY DEF IInv
<1> QED BY <1>1, Invariance, PTL

\* One token for an episode and for a card: a repeated call reverts.
THEOREM LookupsHold == Spec => []LookupsAgree
<1>1. IInv => LookupsAgree BY DEF IInv
<1> QED BY <1>1, Invariance, PTL

\* The tree of tokens stays intact (mintBranch, mintFruit and their lookups).
THEOREM TreeStaysIntact == Spec => []TreeIntact
<1>1. IInv => TreeIntact BY DEF IInv, TreeIntact
<1> QED BY <1>1, Invariance, PTL

\* No call of the contract changes an ended root.
LEMMA ClosedStep == IInv /\ [Next]_vars => EndedKept
<1> SUFFICES ASSUME IInv, [Next]_vars, NEW r \in Roots, roots[r].status = "Ended"
             PROVE  roots'[r] = roots[r] /\ rootBranches'[r] = rootBranches[r]
  BY DEF EndedKept
<1>0. TypeOK /\ OneKind /\ r \in Ids BY DEF IInv, Roots
<1>1. ASSUME NEW a \in Addresses, NEW s \in Addresses, NEW e \in Episodes,
             NEW n \in Supplies, CreateRoot(a, s, e, n)
      PROVE  roots'[r] = roots[r] /\ rootBranches'[r] = rootBranches[r]
  <2>1. nextRootId \notin Roots BY <1>0, <1>1, CreateRootWrites DEF OneKind
  <2> QED BY <2>1, <1>0, <1>1, CreateRootWrites DEF CreateRoot, branchVars
<1>2. ASSUME NEW a \in Addresses, NEW x \in Ids, EndRoot(a, x)
      PROVE  roots'[r] = roots[r] /\ rootBranches'[r] = rootBranches[r]
  <2>1. x # r BY <1>2 DEF EndRoot, IsActive
  <2> QED BY <2>1, <1>0, <1>2 DEF EndRoot, branchVars, TypeOK
<1>3. ASSUME NEW a \in Addresses, NEW x \in Ids, NEW h \in Addresses, NEW k \in CardIds,
             MintBranch(a, x, h, k)
      PROVE  roots'[r] = roots[r] /\ rootBranches'[r] = rootBranches[r]
  <2>1. x # r BY <1>3 DEF MintBranch, IsActive
  <2>2. rootBranches' = [rootBranches EXCEPT ![x] = Append(rootBranches[x], nextBranchId)]
    BY <1>3 DEF MintBranch
  <2>3. roots'[r] = roots[r]
    <3>1. \A y \in Ids \ {x} : roots'[y] = roots[y] BY <1>0, <1>3, MintBranchWrites
    <3> QED BY <3>1, <2>1, <1>0
  <2>4. rootBranches'[r] = rootBranches[r] BY <2>1, <2>2, <1>0 DEF TypeOK
  <2> QED BY <2>3, <2>4
<1>4. ASSUME NEW n \in Nat, NEW bs \in [1 .. n -> Ids], FruitAll(bs)
      PROVE  roots'[r] = roots[r] /\ rootBranches'[r] = rootBranches[r]
  BY <1>0, <1>4, FruitAllWrites
<1>5. ASSUME NEW a \in Addresses, Call(a)
      PROVE  roots'[r] = roots[r] /\ rootBranches'[r] = rootBranches[r]
  <2>1. CASE \/ \E b \in Ids : MintFruit(a, b)
             \/ \E bs \in Batches : BatchMintFruit(a, bs)
    BY <2>1, <1>4, FruitCall
  <2> QED BY <2>1, <1>1, <1>2, <1>3, <1>5 DEF Call
<1>6. CASE UNCHANGED vars BY <1>6 DEF vars, rootVars, branchVars
<1> QED BY <1>5, <1>6 DEF Next, SetAuthorizedMinter, Transfer, rootVars, branchVars

\* An ended root is closed for good.
THEOREM EndedIsClosed == Spec => EndedRootIsClosed
<1>1. IInv /\ [Next]_vars => [EndedKept]_vars BY ClosedStep
<1> QED BY <1>1, Invariance, PTL DEF Spec, EndedRootIsClosed

(***************************************************************************)
(* The token ledger                                                        *)
(***************************************************************************)

\* The lookups lead to tokens that exist, and that are those of the episode, the
\* card or the branch: what LookupsAgree and OneBranchOneFruit say, backwards.
Found ==
  /\ \A e \in Episodes : episodeToRoot[e] # 0 =>
       episodeToRoot[e] \in Roots /\ roots[episodeToRoot[e]].episode = e
  /\ \A k \in CardIds : cardToBranch[k] # 0 =>
       cardToBranch[k] \in Branches /\ branches[cardToBranch[k]].card = k
  /\ \A b \in Ids : branchToFruit[b] # 0 =>
       branchToFruit[b] \in Fruits /\ fruits[branchToFruit[b]].branchId = b

TreeInv == IInv /\ Found

\* TokenOf, job by job.
RootOf(e) == [op |-> "root", key |-> e]
EndOf(e) == [op |-> "end", key |-> e]
BranchOf(k) == [op |-> "branch", key |-> k]
FruitOf(k) == [op |-> "fruit", key |-> k]

EndToken(e) ==
  IF episodeToRoot[e] # 0 /\ roots[episodeToRoot[e]].status = "Ended"
  THEN episodeToRoot[e] ELSE 0

FruitToken(k) == IF cardToBranch[k] = 0 THEN 0 ELSE branchToFruit[cardToBranch[k]]

LEMMA JobCases ==
  /\ \A j \in Jobs : \/ \E e \in Episodes : j = RootOf(e) \/ j = EndOf(e)
                     \/ \E k \in CardIds : j = BranchOf(k) \/ j = FruitOf(k)
  /\ \A e \in Episodes : RootOf(e) \in Jobs /\ EndOf(e) \in Jobs
  /\ \A k \in CardIds : BranchOf(k) \in Jobs /\ FruitOf(k) \in Jobs
BY DEF Jobs, RootOf, EndOf, BranchOf, FruitOf

LEMMA JobOps ==
  /\ \A e : RootOf(e).op = "root" /\ EndOf(e).op = "end" /\ RootOf(e).key = e /\ EndOf(e).key = e
  /\ \A k : BranchOf(k).op = "branch" /\ FruitOf(k).op = "fruit" /\ BranchOf(k).key = k
            /\ FruitOf(k).key = k
BY DEF RootOf, EndOf, BranchOf, FruitOf

LEMMA Tokens ==
  /\ \A e : TokenOf(RootOf(e)) = episodeToRoot[e] /\ TokenOf(EndOf(e)) = EndToken(e)
  /\ \A k : TokenOf(BranchOf(k)) = cardToBranch[k] /\ TokenOf(FruitOf(k)) = FruitToken(k)
BY DEF TokenOf, RootOf, EndOf, BranchOf, FruitOf, EndToken, FruitToken

LEMMA TokensNext ==
  /\ \A e : TokenOf(RootOf(e))' = episodeToRoot'[e] /\ TokenOf(EndOf(e))' = EndToken(e)'
  /\ \A k : TokenOf(BranchOf(k))' = cardToBranch'[k] /\ TokenOf(FruitOf(k))' = FruitToken(k)'
BY DEF TokenOf, RootOf, EndOf, BranchOf, FruitOf, EndToken, FruitToken

\* Tokens of one kind differ.
Apart ==
  \A i, j \in Jobs : i.op = j.op /\ i # j /\ TokenOf(j) # 0 => TokenOf(i) # TokenOf(j)

Numbered == \A j \in Jobs : TokenOf(j) \in Nat

LEMMA TokensApart == TreeInv => Apart /\ Numbered
<1> SUFFICES ASSUME TreeInv PROVE Apart /\ Numbered OBVIOUS
<1>0. TypeOK /\ Found BY DEF TreeInv, IInv
<1>1. Branches \subseteq Ids BY DEF Branches
<1>2. /\ \A e \in Episodes : episodeToRoot[e] \in Nat /\ EndToken(e) \in Nat
      /\ \A k \in CardIds : cardToBranch[k] \in Nat
      /\ \A b \in Ids : branchToFruit[b] \in Nat
  <2>1. Ids \cup {0} \subseteq Nat BY IdsNat
  <2>2. \A e \in Episodes : episodeToRoot[e] \in Ids \cup {0} BY <1>0 DEF TypeOK
  <2>3. \A k \in CardIds : cardToBranch[k] \in Ids \cup {0} BY <1>0 DEF TypeOK
  <2>4. \A b \in Ids : branchToFruit[b] \in Ids \cup {0} BY <1>0 DEF TypeOK
  <2>5. \A e \in Episodes : EndToken(e) \in Nat BY <2>1, <2>2 DEF EndToken
  <2> QED BY <2>1, <2>2, <2>3, <2>4, <2>5
<1>3. \A k \in CardIds : FruitToken(k) \in Nat
  <2> TAKE k \in CardIds
  <2>1. CASE cardToBranch[k] = 0 BY <2>1 DEF FruitToken
  <2>2. CASE cardToBranch[k] # 0
    <3>1. cardToBranch[k] \in Branches BY <2>2, <1>0 DEF Found
    <3> QED BY <2>2, <3>1, <1>2 DEF FruitToken, Branches
  <2> QED BY <2>1, <2>2
<1>4. Numbered BY <1>2, <1>3, JobCases, Tokens DEF Numbered
<1>5. ASSUME NEW e \in Episodes, NEW f \in Episodes, e # f, episodeToRoot[f] # 0
      PROVE  episodeToRoot[e] # episodeToRoot[f]
  BY <1>5, <1>0 DEF Found
<1>6. ASSUME NEW k \in CardIds, NEW l \in CardIds, k # l, cardToBranch[l] # 0
      PROVE  cardToBranch[k] # cardToBranch[l]
  BY <1>6, <1>0 DEF Found
<1>7. ASSUME NEW k \in CardIds, NEW l \in CardIds, k # l, FruitToken(l) # 0
      PROVE  FruitToken(k) # FruitToken(l)
  <2>1. cardToBranch[l] # 0 /\ FruitToken(l) = branchToFruit[cardToBranch[l]]
    BY <1>7 DEF FruitToken
  <2>2. CASE cardToBranch[k] = 0 BY <1>7, <2>2 DEF FruitToken
  <2>3. CASE cardToBranch[k] # 0
    <3>1. FruitToken(k) = branchToFruit[cardToBranch[k]] BY <2>3 DEF FruitToken
    <3>2. cardToBranch[k] # cardToBranch[l] BY <1>6, <1>7, <2>1
    <3>3. cardToBranch[k] \in Ids /\ cardToBranch[l] \in Ids BY <1>0, <1>1, <2>1, <2>3 DEF Found
    <3> QED BY <1>0, <1>7, <2>1, <3>1, <3>2, <3>3 DEF Found
  <2> QED BY <2>2, <2>3
<1>8. ASSUME NEW e \in Episodes, NEW f \in Episodes, e # f, EndToken(f) # 0
      PROVE  EndToken(e) # EndToken(f)
  BY <1>5, <1>8 DEF EndToken
<1>9. ASSUME NEW i \in Jobs, NEW j \in Jobs, i.op = j.op, i # j, TokenOf(j) # 0
      PROVE  TokenOf(i) # TokenOf(j)
  <2>1. CASE \E e, f \in Episodes : i = RootOf(e) /\ j = RootOf(f) BY <1>5, <1>9, <2>1, Tokens
  <2>2. CASE \E e, f \in Episodes : i = EndOf(e) /\ j = EndOf(f) BY <1>8, <1>9, <2>2, Tokens
  <2>3. CASE \E k, l \in CardIds : i = BranchOf(k) /\ j = BranchOf(l) BY <1>6, <1>9, <2>3, Tokens
  <2>4. CASE \E k, l \in CardIds : i = FruitOf(k) /\ j = FruitOf(l) BY <1>7, <1>9, <2>4, Tokens
  <2> QED BY <1>9, <2>1, <2>2, <2>3, <2>4, JobCases, JobOps
<1> QED BY <1>4, <1>9 DEF Apart

\* A step that gives tokens to the jobs S and leaves the others is the ledger's.
Gives(S) ==
  /\ \A j \in S : TokenOf(j) = 0 /\ TokenOf(j)' # 0
  /\ \A j \in Jobs \ S : TokenOf(j)' = TokenOf(j)

LEMMA GivesIsDo ==
  ASSUME Apart', Numbered', NEW S \in SUBSET Jobs, Gives(S)
  PROVE  Ledger!Do(S)
<1> DEFINE tok == [j \in Jobs |-> TokenOf(j)]
<1>1. \A j \in Jobs : tok[j] = TokenOf(j) /\ tok'[j] = TokenOf(j)' OBVIOUS
<1>2. tok' \in [Jobs -> Nat] BY DEF Numbered
<1>3. \A j \in Jobs \ S : tok'[j] = tok[j] BY <1>1 DEF Gives
<1>4. ASSUME NEW j \in S
      PROVE  /\ tok[j] = 0 /\ tok'[j] # 0
             /\ \A k \in Jobs \ {j} : k.op = j.op => tok'[k] # tok'[j]
  BY <1>1 DEF Gives, Apart
<1>5. Ledger!Jobs = Jobs BY DEF Ledger!Jobs, Jobs
<1> QED BY <1>2, <1>3, <1>4, <1>5 DEF Ledger!Do

\* What stays found, and which tokens and branches stay, when the lookups and
\* the rows behind them do.
LEMMA RestLeaves ==
  ASSUME UNCHANGED <<roots, episodeToRoot, branches, cardToBranch, branchToFruit>>
  PROVE  (\A j \in Jobs : TokenOf(j)' = TokenOf(j)) /\ Hanging' = Hanging
BY DEF TokenOf, Hanging

LEMMA CreateRootLedger ==
  ASSUME TreeInv, NEW caller \in Addresses, NEW s \in Addresses, NEW e \in Episodes,
         NEW n \in Supplies, CreateRoot(caller, s, e, n)
  PROVE  Found' /\ Gives({RootOf(e)}) /\ Hanging' = Hanging
<1> DEFINE id == nextRootId
<1>0. TypeOK /\ OneKind /\ Links /\ Found BY DEF TreeInv, IInv
<1>1. /\ id \in Ids /\ ownerOf[id] = Zero
      /\ \A r \in Ids \ {id} : roots'[r] = roots[r]
      /\ roots'[id].streamer = s /\ roots'[id].episode = e /\ roots'[id].status = "Active"
  BY <1>0, CreateRootWrites
<1>2. id \notin Roots BY <1>0, <1>1 DEF OneKind
<1>3. /\ branches' = branches /\ fruits' = fruits /\ cardToBranch' = cardToBranch
      /\ branchToFruit' = branchToFruit
      /\ episodeToRoot[e] = 0 /\ episodeToRoot'[e] = id
      /\ \A f \in Episodes \ {e} : episodeToRoot'[f] = episodeToRoot[f]
  BY <1>0 DEF CreateRoot, IsNewEpisode, branchVars, fruitVars, TypeOK
<1>4. id \in Roots' BY <1>1, ContractAssumption DEF Roots
<1>5. Roots \subseteq Ids /\ \A r \in Roots : r \in Roots' /\ roots'[r] = roots[r]
  BY <1>1, <1>2 DEF Roots
<1> HIDE DEF id
<1>6. Branches' = Branches /\ Fruits' = Fruits BY <1>3 DEF Branches, Fruits
<1>7. Found' BY <1>0, <1>1, <1>3, <1>4, <1>5, <1>6 DEF Found
<1>8. id # 0 BY <1>1, IdsNat
<1>9. ASSUME NEW f \in Episodes PROVE EndToken(f)' = EndToken(f)
  <2>1. CASE f = e BY <2>1, <1>1, <1>3 DEF EndToken
  <2>2. CASE f # e BY <2>2, <1>0, <1>3, <1>5 DEF EndToken, Found
  <2> QED BY <2>1, <2>2
<1>10. \A k : FruitToken(k)' = FruitToken(k) BY <1>3 DEF FruitToken
<1>11. Gives({RootOf(e)})
  <2>1. TokenOf(RootOf(e)) = 0 /\ TokenOf(RootOf(e))' # 0 BY <1>3, <1>8, Tokens, TokensNext
  <2>2. ASSUME NEW j \in Jobs, j # RootOf(e) PROVE TokenOf(j)' = TokenOf(j)
    <3>1. CASE \E f \in Episodes : j = RootOf(f) BY <2>2, <3>1, <1>3, Tokens, TokensNext
    <3>2. CASE \E f \in Episodes : j = EndOf(f) BY <3>2, <1>9, Tokens, TokensNext
    <3>3. CASE \E k \in CardIds : j = BranchOf(k) \/ j = FruitOf(k)
      BY <3>3, <1>3, <1>10, Tokens, TokensNext
    <3> QED BY <3>1, <3>2, <3>3, JobCases
  <2> QED BY <2>1, <2>2 DEF Gives
<1>12. Hanging' = Hanging
  <2>1. ASSUME NEW k \in CardIds, cardToBranch[k] # 0
        PROVE  branches[cardToBranch[k]].rootId \in Roots
    BY <2>1, <1>0 DEF Found, Links
  <2>2. ASSUME NEW k \in CardIds, cardToBranch[k] # 0
        PROVE  branches[cardToBranch[k]].rootId \notin {0, id}
    BY <2>1, <2>2, <1>2, <1>5, IdsNat
  <2> QED BY <2>2, <1>3 DEF Hanging
<1> QED BY <1>7, <1>11, <1>12

LEMMA EndRootLedger ==
  ASSUME TreeInv, NEW caller \in Addresses, NEW r \in Ids, EndRoot(caller, r)
  PROVE  /\ Found' /\ Hanging' = Hanging
         /\ \E e \in Episodes : TokenOf(RootOf(e)) # 0 /\ Gives({EndOf(e)})
<1>0. TypeOK /\ LookupsAgree /\ Links /\ Found BY DEF TreeInv, IInv
<1>1. /\ r \in Roots /\ roots[r].status = "Active"
      /\ UNCHANGED <<episodeToRoot, branches, cardToBranch, fruits, branchToFruit>>
  BY DEF EndRoot, IsActive, branchVars, fruitVars
<1>2. /\ roots'[r] = [roots[r] EXCEPT !.status = "Ended"]
      /\ \A x \in Ids \ {r} : roots'[x] = roots[x]
  BY <1>0 DEF EndRoot, TypeOK
<1>3. /\ roots'[r].status = "Ended"
      /\ \A x \in Ids : /\ roots'[x].streamer = roots[x].streamer
                        /\ roots'[x].episode = roots[x].episode
  <2>1. roots[r] \in Root BY <1>0 DEF TypeOK
  <2> QED BY <2>1, <1>2 DEF Root
<1>4. Roots \subseteq Ids /\ Roots' = Roots BY <1>3 DEF Roots
<1>5. Branches' = Branches /\ Fruits' = Fruits BY <1>1 DEF Branches, Fruits
<1>6. Found' BY <1>0, <1>1, <1>3, <1>4, <1>5 DEF Found
<1>7. Hanging' = Hanging BY <1>1 DEF Hanging
<1>8. PICK e \in Episodes : e = roots[r].episode /\ episodeToRoot[e] = r
  BY <1>0, <1>1 DEF LookupsAgree, Links
<1>9. r # 0 BY IdsNat
<1>10. EndToken(e) = 0 /\ EndToken(e)' = r BY <1>1, <1>3, <1>8, <1>9 DEF EndToken
<1>11. ASSUME NEW f \in Episodes, f # e PROVE EndToken(f)' = EndToken(f)
  <2>1. episodeToRoot[f] # r BY <1>0, <1>8, <1>9, <1>11 DEF Found
  <2> QED BY <2>1, <1>0, <1>1, <1>2, <1>4 DEF EndToken, Found
<1>12. \A k : FruitToken(k)' = FruitToken(k) BY <1>1 DEF FruitToken
<1>13. Gives({EndOf(e)})
  <2>1. TokenOf(EndOf(e)) = 0 /\ TokenOf(EndOf(e))' # 0 BY <1>9, <1>10, Tokens, TokensNext
  <2>2. ASSUME NEW j \in Jobs, j # EndOf(e) PROVE TokenOf(j)' = TokenOf(j)
    <3>1. CASE \E f \in Episodes : j = EndOf(f) BY <2>2, <3>1, <1>11, Tokens, TokensNext
    <3>2. CASE \E f \in Episodes : j = RootOf(f) BY <3>2, <1>1, Tokens, TokensNext
    <3>3. CASE \E k \in CardIds : j = BranchOf(k) \/ j = FruitOf(k)
      BY <3>3, <1>1, <1>12, Tokens, TokensNext
    <3> QED BY <3>1, <3>2, <3>3, JobCases
  <2> QED BY <2>1, <2>2 DEF Gives
<1>14. TokenOf(RootOf(e)) # 0 BY <1>8, <1>9, Tokens
<1> QED BY <1>6, <1>7, <1>13, <1>14

LEMMA MintBranchLedger ==
  ASSUME TreeInv, NEW caller \in Addresses, NEW r \in Ids, NEW h \in Addresses,
         NEW k \in CardIds, MintBranch(caller, r, h, k)
  PROVE  /\ Found'
         /\ \E e \in Episodes : /\ TokenOf(RootOf(e)) # 0 /\ TokenOf(EndOf(e)) = 0
                                /\ Gives({BranchOf(k)})
                                /\ Hanging' = Hanging \cup {<<k, e>>}
<1> DEFINE id == nextBranchId
<1>0. TypeOK /\ OneKind /\ LookupsAgree /\ Links /\ Found BY DEF TreeInv, IInv
<1>1. /\ id \in Ids /\ ownerOf[id] = Zero
      /\ \A b \in Ids \ {id} : branches'[b] = branches[b]
      /\ branches'[id].rootId = r /\ branches'[id].holder = h /\ branches'[id].card = k
      /\ \A x \in Ids \ {r} : roots'[x] = roots[x]
      /\ roots'[r] = [roots[r] EXCEPT !.branchCount = roots[r].branchCount + 1]
  BY <1>0, MintBranchWrites
<1>2. \A x \in Ids : /\ roots'[x].streamer = roots[x].streamer
                     /\ roots'[x].episode = roots[x].episode
                     /\ roots'[x].status = roots[x].status
  <2>1. roots[r] \in Root BY <1>0 DEF TypeOK
  <2> QED BY <2>1, <1>1 DEF Root
<1>3. id \notin Branches BY <1>0, <1>1 DEF OneKind
<1>4. /\ r \in Roots /\ roots[r].status = "Active" /\ cardToBranch[k] = 0
      /\ fruits' = fruits /\ branchToFruit' = branchToFruit /\ episodeToRoot' = episodeToRoot
      /\ cardToBranch'[k] = id
      /\ \A l \in CardIds \ {k} : cardToBranch'[l] = cardToBranch[l]
  BY <1>0 DEF MintBranch, IsActive, fruitVars, TypeOK
<1> HIDE DEF id
<1>5. Roots' = Roots /\ Fruits' = Fruits BY <1>2, <1>4 DEF Roots, Fruits
<1>6. id \in Branches' BY <1>1, ContractAssumption DEF Branches
<1>7. Branches \subseteq Ids /\ \A b \in Branches : b \in Branches' /\ branches'[b] = branches[b]
  BY <1>1, <1>3 DEF Branches
<1>8. Roots \subseteq Ids BY DEF Roots
<1>9. Found'
  <2>1. \A e \in Episodes : episodeToRoot'[e] # 0 =>
          episodeToRoot'[e] \in Roots' /\ roots'[episodeToRoot'[e]].episode = e
    BY <1>0, <1>2, <1>4, <1>5, <1>8 DEF Found
  <2>2. ASSUME NEW l \in CardIds, cardToBranch'[l] # 0
        PROVE  cardToBranch'[l] \in Branches' /\ branches'[cardToBranch'[l]].card = l
    <3>1. CASE l = k BY <3>1, <1>1, <1>4, <1>6
    <3>2. CASE l # k BY <2>2, <3>2, <1>0, <1>4, <1>7 DEF Found
    <3> QED BY <3>1, <3>2
  <2>3. \A b \in Ids : branchToFruit'[b] # 0 =>
          branchToFruit'[b] \in Fruits' /\ fruits'[branchToFruit'[b]].branchId = b
    BY <1>0, <1>4, <1>5 DEF Found
  <2> QED BY <2>1, <2>2, <2>3 DEF Found
<1>10. PICK e \in Episodes : e = roots[r].episode /\ episodeToRoot[e] = r
  BY <1>0, <1>4 DEF LookupsAgree, Links
<1>11. r # 0 /\ id # 0 BY <1>1, IdsNat
<1>12. TokenOf(RootOf(e)) # 0 /\ TokenOf(EndOf(e)) = 0
  BY <1>4, <1>10, <1>11, Tokens DEF EndToken
<1>13. Gives({BranchOf(k)})
  <2>1. TokenOf(BranchOf(k)) = 0 /\ TokenOf(BranchOf(k))' # 0
    BY <1>4, <1>11, Tokens, TokensNext
  <2>2. \A f \in Episodes : EndToken(f)' = EndToken(f)
    BY <1>0, <1>2, <1>4, <1>8 DEF EndToken, Found
  <2>3. ASSUME NEW l \in CardIds PROVE FruitToken(l)' = FruitToken(l)
    <3>1. CASE l = k
      <4>1. branchToFruit[id] = 0 BY <1>0, <1>1, <1>3 DEF Links
      <4> QED BY <3>1, <4>1, <1>4 DEF FruitToken
    <3>2. CASE l # k BY <3>2, <1>4 DEF FruitToken
    <3> QED BY <3>1, <3>2
  <2>4. ASSUME NEW j \in Jobs, j # BranchOf(k) PROVE TokenOf(j)' = TokenOf(j)
    <3>1. CASE \E f \in Episodes : j = RootOf(f) \/ j = EndOf(f)
      BY <3>1, <2>2, <1>4, Tokens, TokensNext
    <3>2. CASE \E l \in CardIds : j = BranchOf(l) BY <2>4, <3>2, <1>4, Tokens, TokensNext
    <3>3. CASE \E l \in CardIds : j = FruitOf(l) BY <3>3, <2>3, Tokens, TokensNext
    <3> QED BY <3>1, <3>2, <3>3, JobCases
  <2> QED BY <2>1, <2>4 DEF Gives
<1>14. Hanging' = Hanging \cup {<<k, e>>}
  <2> DEFINE Hangs(l, f) == cardToBranch[l] # 0 /\ branches[cardToBranch[l]].rootId = episodeToRoot[f]
  <2>1. ASSUME NEW l \in CardIds, NEW f \in Episodes, l # k
        PROVE  Hangs(l, f)' <=> Hangs(l, f)
    BY <2>1, <1>0, <1>4, <1>7 DEF Found
  <2>2. ASSUME NEW f \in Episodes PROVE ~Hangs(k, f) /\ (Hangs(k, f)' <=> f = e)
    <3>1. Hangs(k, f)' <=> r = episodeToRoot[f] BY <1>1, <1>4, <1>11
    <3>2. r = episodeToRoot[f] <=> f = e BY <1>0, <1>10, <1>11 DEF Found
    <3> QED BY <3>1, <3>2, <1>4
  <2>3. /\ Hanging = {p \in CardIds \X Episodes : Hangs(p[1], p[2])}
        /\ Hanging' = {p \in CardIds \X Episodes : Hangs(p[1], p[2])'}
    BY DEF Hanging
  <2> HIDE DEF Hangs
  <2>4. \A p \in CardIds \X Episodes :
          Hangs(p[1], p[2])' <=> Hangs(p[1], p[2]) \/ p = <<k, e>>
    BY <2>1, <2>2
  <2>5. <<k, e>> \in CardIds \X Episodes OBVIOUS
  <2> QED BY <2>3, <2>4, <2>5
<1> QED BY <1>9, <1>12, <1>13, <1>14

LEMMA FruitAllLedger ==
  ASSUME TreeInv, NEW n \in Nat, NEW bs \in [1 .. n -> Ids], FruitAll(bs)
  PROVE  /\ Found' /\ Hanging' = Hanging
         /\ \E C \in SUBSET CardIds :
              /\ Gives({FruitOf(c) : c \in C})
              /\ \A c \in C : /\ cardToBranch[c] # 0
                              /\ roots[branches[cardToBranch[c]].rootId].status = "Ended"
<1>0. TypeOK /\ OneKind /\ OneBranchOneFruit /\ LookupsAgree /\ Links /\ Found
  BY DEF TreeInv, IInv
<1>1. PICK new, of, done : Fruits_Written(new, of, done) BY <1>0, FruitAllWrites
<1>2. roots' = roots /\ episodeToRoot' = episodeToRoot /\ cardToBranch' = cardToBranch
  BY <1>0, FruitAllWrites
<1>3. Roots \subseteq Ids /\ Branches \subseteq Ids /\ Fruits \subseteq Ids
  BY DEF Roots, Branches, Fruits
<1>4. \A b \in Ids : /\ branches'[b].rootId = branches[b].rootId
                     /\ branches'[b].holder = branches[b].holder
                     /\ branches'[b].card = branches[b].card
  <2> TAKE b \in Ids
  <2>1. CASE b \in done
    <3>1. branches'[b] = [branches[b] EXCEPT !.fruited = TRUE]
      BY <2>1, <1>1 DEF Fruits_Written
    <3>2. branches[b] \in Branch BY <1>0 DEF TypeOK
    <3> QED BY <3>1, <3>2 DEF Branch
  <2>2. CASE b \notin done BY <2>2, <1>1 DEF Fruits_Written
  <2> QED BY <2>1, <2>2
<1>5. Roots' = Roots /\ Branches' = Branches BY <1>2, <1>4 DEF Roots, Branches
<1>6. \A f \in new : /\ of[f] \in done /\ of[f] \in Branches /\ f \in Ids /\ f \notin Fruits
                     /\ fruits'[f].branchId = of[f] /\ fruits'[f].holder # Zero
  <2> TAKE f \in new
  <2>1. of[f] \in done /\ of[f] \in Branches /\ f \in Ids BY <1>1 DEF Fruits_Written
  <2>2. f \notin Fruits BY <1>0, <1>1 DEF OneKind, Fruits_Written
  <2>3. fruits'[f] = [branchId |-> of[f], rootId |-> branches[of[f]].rootId,
                      holder |-> branches[of[f]].holder]
    BY <1>1 DEF Fruits_Written
  <2>4. branches[of[f]].holder # Zero BY <2>1 DEF Branches
  <2> QED BY <2>1, <2>2, <2>3, <2>4
<1>7. \A f \in Fruits : f \in Fruits' /\ fruits'[f] = fruits[f]
  <2> TAKE f \in Fruits
  <2>1. f \in Ids \ new BY <1>3, <1>6
  <2>2. fruits'[f] = fruits[f] BY <2>1, <1>1 DEF Fruits_Written
  <2> QED BY <2>1, <2>2 DEF Fruits
<1>8. \A f \in new : f \in Fruits' BY <1>6 DEF Fruits
<1>9. \A b \in done : /\ b \in Branches /\ branchToFruit[b] = 0
                      /\ roots[branches[b].rootId].status = "Ended"
                      /\ branchToFruit'[b] \in new /\ of[branchToFruit'[b]] = b
  BY <1>0, <1>1 DEF OneBranchOneFruit, Fruits_Written
<1>10. \A b \in Ids \ done : branchToFruit'[b] = branchToFruit[b]
  BY <1>1 DEF Fruits_Written
<1>11. Found'
  <2>1. ASSUME NEW b \in Ids, branchToFruit'[b] # 0
        PROVE  branchToFruit'[b] \in Fruits' /\ fruits'[branchToFruit'[b]].branchId = b
    <3>1. CASE b \in done BY <3>1, <1>6, <1>8, <1>9
    <3>2. CASE b \notin done BY <2>1, <3>2, <1>0, <1>7, <1>10 DEF Found
    <3> QED BY <3>1, <3>2
  <2>2. \A e \in Episodes : episodeToRoot'[e] # 0 =>
          episodeToRoot'[e] \in Roots' /\ roots'[episodeToRoot'[e]].episode = e
    BY <1>0, <1>2, <1>5 DEF Found
  <2>3. \A k \in CardIds : cardToBranch'[k] # 0 =>
          cardToBranch'[k] \in Branches' /\ branches'[cardToBranch'[k]].card = k
    BY <1>0, <1>2, <1>3, <1>4, <1>5 DEF Found
  <2> QED BY <2>1, <2>2, <2>3 DEF Found
<1>12. \A k \in CardIds : cardToBranch[k] # 0 => cardToBranch[k] \in Ids
  BY <1>0, <1>3 DEF Found
<1>13. Hanging' = Hanging
  <2>1. \A k \in CardIds : cardToBranch[k] # 0 =>
          branches'[cardToBranch[k]].rootId = branches[cardToBranch[k]].rootId
    BY <1>4, <1>12
  <2> QED BY <2>1, <1>2 DEF Hanging
<1> DEFINE C == {branches[b].card : b \in done}
<1>14. \A b \in done : branches[b].card \in CardIds /\ cardToBranch[branches[b].card] = b
  BY <1>0, <1>9 DEF Links, LookupsAgree
<1>15. \A c \in C : /\ c \in CardIds /\ cardToBranch[c] \in done
                    /\ branches[cardToBranch[c]].card = c
  BY <1>14
<1>16. \A k \in CardIds : cardToBranch[k] \in done => k \in C
  <2> TAKE k \in CardIds
  <2> HAVE cardToBranch[k] \in done
  <2>1. cardToBranch[k] # 0 BY <1>3, <1>9, IdsNat
  <2> QED BY <2>1, <1>0 DEF Found
<1> HIDE DEF C
<1>17. \A b \in done \cup new : b # 0 BY <1>3, <1>6, <1>9, IdsNat
<1>18. Gives({FruitOf(c) : c \in C})
  <2>1. ASSUME NEW c \in C PROVE FruitToken(c) = 0 /\ FruitToken(c)' # 0
    BY <1>2, <1>9, <1>15, <1>17 DEF FruitToken
  <2>2. ASSUME NEW k \in CardIds, k \notin C PROVE FruitToken(k)' = FruitToken(k)
    BY <2>2, <1>2, <1>10, <1>12, <1>16 DEF FruitToken
  <2>3. ASSUME NEW j \in Jobs, j \notin {FruitOf(c) : c \in C} PROVE TokenOf(j)' = TokenOf(j)
    <3>1. CASE \E e \in Episodes : j = RootOf(e) \/ j = EndOf(e)
      BY <3>1, <1>2, Tokens, TokensNext DEF EndToken
    <3>2. CASE \E k \in CardIds : j = BranchOf(k) BY <3>2, <1>2, Tokens, TokensNext
    <3>3. CASE \E k \in CardIds : j = FruitOf(k) BY <2>2, <2>3, <3>3, Tokens, TokensNext
    <3> QED BY <3>1, <3>2, <3>3, JobCases
  <2>4. \A j \in {FruitOf(c) : c \in C} : TokenOf(j) = 0 /\ TokenOf(j)' # 0
    BY <2>1, Tokens, TokensNext
  <2> QED BY <2>3, <2>4 DEF Gives
<1>19. \A c \in C : /\ cardToBranch[c] # 0
                    /\ roots[branches[cardToBranch[c]].rootId].status = "Ended"
  BY <1>9, <1>15, <1>17
<1>20. C \in SUBSET CardIds BY <1>15
<1> QED BY <1>11, <1>13, <1>18, <1>19, <1>20

\* The steps that touch none of the tables.
LEMMA RestLedger ==
  ASSUME TreeInv, UNCHANGED <<rootVars, branchVars, fruitVars>>
  PROVE  Found' /\ (\A j \in Jobs : TokenOf(j)' = TokenOf(j)) /\ Hanging' = Hanging
<1>1. UNCHANGED <<roots, episodeToRoot, branches, cardToBranch, fruits, branchToFruit>>
  BY DEF rootVars, branchVars, fruitVars
<1>2. Found' BY <1>1 DEF TreeInv, Found, Roots, Branches, Fruits
<1> QED BY <1>1, <1>2, RestLeaves

LEMMA TreeInvStep == TreeInv /\ [Next]_vars => TreeInv'
<1> SUFFICES ASSUME TreeInv, [Next]_vars PROVE Found' BY InvStep DEF TreeInv
<1>1. ASSUME NEW a \in Addresses, Call(a) PROVE Found'
  <2>1. CASE \/ \E b \in Ids : MintFruit(a, b)
             \/ \E bs \in Batches : BatchMintFruit(a, bs)
    BY <2>1, FruitCall, FruitAllLedger
  <2> QED BY <1>1, <2>1, CreateRootLedger, EndRootLedger, MintBranchLedger DEF Call
<1>2. CASE UNCHANGED vars BY <1>2, RestLedger DEF vars
<1> QED BY <1>1, <1>2, RestLedger DEF Next, SetAuthorizedMinter, Transfer

\* One ledger step for a step of the contract, or none.
LedgerMoves == Ledger!LedgerNext \/ UNCHANGED Ledger!ledger

LEMMA SameTokens ==
  ASSUME \A j \in Jobs : TokenOf(j)' = TokenOf(j), Hanging' = Hanging
  PROVE  UNCHANGED Ledger!ledger
<1>1. [j \in Jobs |-> TokenOf(j)]' = [j \in Jobs |-> TokenOf(j)] OBVIOUS
<1> QED BY <1>1 DEF Ledger!ledger

LEMMA LedgerNames ==
  /\ \A op, k : Ledger!Job(op, k) = [op |-> op, key |-> k]
  /\ \A e \in Episodes : /\ Ledger!Done("root", e) <=> TokenOf(RootOf(e)) # 0
                         /\ Ledger!Done("end", e) <=> TokenOf(EndOf(e)) # 0
  /\ \A k \in CardIds : Ledger!Done("branch", k) <=> TokenOf(BranchOf(k)) # 0
<1> DEFINE tok == [j \in Jobs |-> TokenOf(j)]
<1>1. \A j \in Jobs : tok[j] = TokenOf(j) OBVIOUS
<1>2. \A op, k : Ledger!Job(op, k) = [op |-> op, key |-> k] BY DEF Ledger!Job
<1>3. \A op, k : Ledger!Done(op, k) <=> tok[[op |-> op, key |-> k]] # 0
  BY <1>2 DEF Ledger!Done
<1> HIDE DEF tok
<1> QED BY <1>1, <1>2, <1>3, JobCases DEF RootOf, EndOf, BranchOf

LEMMA LedgerStep == TreeInv /\ [Next]_vars => LedgerMoves
<1> SUFFICES ASSUME TreeInv, [Next]_vars PROVE LedgerMoves OBVIOUS
<1>0. Apart' /\ Numbered'
  <2>1. TreeInv' BY TreeInvStep
  <2>2. TreeInv' => Apart' /\ Numbered' BY TokensApart, PTL
  <2> QED BY <2>1, <2>2
<1>1. ASSUME NEW a \in Addresses, NEW s \in Addresses, NEW e \in Episodes, NEW n \in Supplies,
             CreateRoot(a, s, e, n)
      PROVE  LedgerMoves
  <2>1. Gives({RootOf(e)}) /\ Hanging' = Hanging BY <1>1, CreateRootLedger
  <2>2. Ledger!Do({Ledger!Job("root", e)})
    BY <1>0, <2>1, GivesIsDo, JobCases, LedgerNames DEF RootOf
  <2> QED BY <2>1, <2>2 DEF LedgerMoves, Ledger!LedgerNext, Ledger!MakeRoot
<1>2. ASSUME NEW a \in Addresses, NEW r \in Ids, EndRoot(a, r) PROVE LedgerMoves
  <2>1. PICK e \in Episodes : TokenOf(RootOf(e)) # 0 /\ Gives({EndOf(e)})
    BY <1>2, EndRootLedger
  <2>2. Ledger!Do({Ledger!Job("end", e)})
    BY <1>0, <2>1, GivesIsDo, JobCases, LedgerNames DEF EndOf
  <2>3. Ledger!Done("root", e) BY <2>1, LedgerNames
  <2>4. Hanging' = Hanging BY <1>2, EndRootLedger
  <2> QED BY <2>2, <2>3, <2>4 DEF LedgerMoves, Ledger!LedgerNext, Ledger!EndRoot
<1>3. ASSUME NEW a \in Addresses, NEW r \in Ids, NEW h \in Addresses, NEW k \in CardIds,
             MintBranch(a, r, h, k)
      PROVE  LedgerMoves
  <2>1. PICK e \in Episodes : /\ TokenOf(RootOf(e)) # 0 /\ TokenOf(EndOf(e)) = 0
                              /\ Gives({BranchOf(k)})
                              /\ Hanging' = Hanging \cup {<<k, e>>}
    BY <1>3, MintBranchLedger
  <2>2. Ledger!Do({Ledger!Job("branch", k)})
    BY <1>0, <2>1, GivesIsDo, JobCases, LedgerNames DEF BranchOf
  <2>3. Ledger!Done("root", e) /\ ~Ledger!Done("end", e) BY <2>1, LedgerNames
  <2> QED BY <2>1, <2>2, <2>3 DEF LedgerMoves, Ledger!LedgerNext, Ledger!MakeBranch
<1>4. ASSUME NEW n \in Nat, NEW bs \in [1 .. n -> Ids], FruitAll(bs) PROVE LedgerMoves
  <2>1. PICK C \in SUBSET CardIds :
              /\ Gives({FruitOf(c) : c \in C})
              /\ \A c \in C : /\ cardToBranch[c] # 0
                              /\ roots[branches[cardToBranch[c]].rootId].status = "Ended"
    BY <1>4, FruitAllLedger
  <2>2. Hanging' = Hanging BY <1>4, FruitAllLedger
  <2>3. CASE C = {}
    <3>1. {FruitOf(c) : c \in C} = {} BY <2>3
    <3>2. \A j \in Jobs : TokenOf(j)' = TokenOf(j) BY <2>1, <3>1 DEF Gives
    <3> QED BY <3>2, <2>2, SameTokens DEF LedgerMoves
  <2>4. CASE C # {}
    <3>1. {FruitOf(c) : c \in C} \in SUBSET Jobs BY JobCases
    <3>2. {Ledger!Job("fruit", c) : c \in C} = {FruitOf(c) : c \in C}
      BY LedgerNames DEF FruitOf
    <3>3. Ledger!Do({Ledger!Job("fruit", c) : c \in C})
      BY <1>0, <2>1, <3>1, <3>2, GivesIsDo
    <3>4. ASSUME NEW c \in C
          PROVE  /\ Ledger!Done("branch", c)
                 /\ \E e \in Episodes : <<c, e>> \in Hanging /\ Ledger!Done("end", e)
      <4>0. LookupsAgree /\ Links /\ Found BY DEF TreeInv, IInv
      <4>1. cardToBranch[c] \in Branches /\ branches[cardToBranch[c]].rootId \in Roots
        BY <2>1, <4>0 DEF Found, Links
      <4>2. PICK e \in Episodes : /\ e = roots[branches[cardToBranch[c]].rootId].episode
                                  /\ episodeToRoot[e] = branches[cardToBranch[c]].rootId
        BY <4>0, <4>1 DEF LookupsAgree, Links
      <4>3. episodeToRoot[e] # 0 BY <4>1, <4>2, IdsNat DEF Roots
      <4>4. TokenOf(EndOf(e)) # 0 BY <2>1, <4>2, <4>3, Tokens DEF EndToken
      <4>5. <<c, e>> \in Hanging BY <2>1, <4>2 DEF Hanging
      <4>6. TokenOf(BranchOf(c)) # 0 BY <2>1, Tokens
      <4> QED BY <4>4, <4>5, <4>6, LedgerNames
    <3>5. Ledger!MakeFruits(C) BY <3>3, <3>4, <2>2 DEF Ledger!MakeFruits
    <3>6. C \in (SUBSET CardIds) \ {{}} BY <2>1, <2>4
    <3> QED BY <3>5, <3>6 DEF LedgerMoves, Ledger!LedgerNext
  <2> QED BY <2>3, <2>4
<1>5. CASE UNCHANGED <<rootVars, branchVars, fruitVars>>
  BY <1>5, RestLedger, SameTokens DEF LedgerMoves
<1>6. ASSUME NEW a \in Addresses, Call(a) PROVE LedgerMoves
  <2>1. CASE \/ \E b \in Ids : MintFruit(a, b)
             \/ \E bs \in Batches : BatchMintFruit(a, bs)
    BY <2>1, <1>4, FruitCall
  <2> QED BY <2>1, <1>1, <1>2, <1>3, <1>6 DEF Call
<1> QED BY <1>5, <1>6 DEF Next, SetAuthorizedMinter, Transfer, vars

LEMMA LedgerInitially == Init => TreeInv /\ Ledger!LedgerInit
<1> SUFFICES ASSUME Init PROVE TreeInv /\ Ledger!LedgerInit OBVIOUS
<1>1. /\ \A e \in Episodes : episodeToRoot[e] = 0
      /\ \A k \in CardIds : cardToBranch[k] = 0
      /\ \A b \in Ids : branchToFruit[b] = 0
  BY DEF Init
<1>2. TreeInv BY <1>1, InvInit DEF TreeInv, Found
<1>3. \A j \in Jobs : TokenOf(j) = 0
  BY <1>1, JobCases, Tokens DEF EndToken, FruitToken
<1>4. Hanging = {} BY <1>1 DEF Hanging
<1>5. Ledger!Jobs = Jobs BY DEF Ledger!Jobs, Jobs
<1> QED BY <1>2, <1>3, <1>4, <1>5 DEF Ledger!LedgerInit

\* The contract keeps the ledger: whoever calls it, in batches or one by one, and
\* whatever reverts, a job is done once at most and in the order of the tree.
THEOREM LedgerIsKept == Spec => KeepsLedger
<1>1. TreeInv /\ [Next]_vars => TreeInv' /\ [Ledger!LedgerNext]_(Ledger!ledger)
  BY TreeInvStep, LedgerStep DEF LedgerMoves
<1> QED BY <1>1, LedgerInitially, PTL DEF Spec, KeepsLedger, Ledger!LedgerSpec
===============================================================================
