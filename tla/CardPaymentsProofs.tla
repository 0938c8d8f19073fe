-------------------------- MODULE CardPaymentsProofs --------------------------
(***************************************************************************)
(* Proofs, for any number of viewers, intents, requests and deliveries, of *)
(* the properties of paid cards.                                           *)
(***************************************************************************)
EXTENDS CardPayments, TLAPS, FiniteSetTheorems

(***************************************************************************)
(* Types                                                                   *)
(***************************************************************************)

LEMMA BlankType == NoRequest \in Request
BY DEF NoRequest, Request

LEMMA AnswerType ==
  ASSUME TypeOK, NEW w \in Shoppers, Answer(w)
  PROVE  /\ pc' \in [Workers -> {"idle"} \cup ShopLabels \cup PayLabels]
         /\ loc' \in [Shoppers -> Request]
BY BlankType DEF TypeOK, Answer, Await

LEMMA AwaitType ==
  ASSUME TypeOK, NEW w \in Workers,
         NEW label \in {"idle"} \cup ShopLabels \cup PayLabels, Await(w, label)
  PROVE  pc' \in [Workers -> {"idle"} \cup ShopLabels \cup PayLabels]
BY DEF TypeOK, Await

LEMMA UncountedFinite ==
  /\ IsFiniteSet(Deliveries) /\ IsFiniteSet(Uncounted) /\ Cardinality(Uncounted) \in Nat
<1>1. IsFiniteSet(Deliveries) BY PaymentAssumption, FS_Product DEF Deliveries
<1>2. Uncounted \subseteq Deliveries BY DEF Uncounted
<1> QED BY <1>1, <1>2, FS_Subset, FS_CardinalityType

LEMMA RestartType ==
  ASSUME TypeOK, Restart
  PROVE  /\ pc' \in [Workers -> {"idle"} \cup ShopLabels \cup PayLabels]
         /\ loc' \in [Shoppers -> Request] /\ lost' \in Nat
BY BlankType, UncountedFinite DEF TypeOK, Restart

LEMMA ShopType ==
  ASSUME TypeOK, NEW w \in Shoppers, Shop(w)
  PROVE  TypeOK'
<1> USE DEF ShopLabels
<1>0. loc[w] \in Request /\ w \in Workers BY DEF TypeOK, Workers
<1>1. ASSUME NEW u \in Users, ShopRead(w, u) PROVE TypeOK'
  <2>1. [loc[w] EXCEPT !.user = u] \in Request BY <1>0 DEF Request
  <2>2. CASE Answer(w)
    BY <1>1, <2>2, AnswerType DEF TypeOK, ShopRead, episodeVars, stripeVars, faultVars
  <2>3. CASE Await(w, "shop_card") /\ loc' = [loc EXCEPT ![w].user = u]
    <3>1. loc' = [loc EXCEPT ![w] = [loc[w] EXCEPT !.user = u]] BY <2>3
    <3>2. loc' \in [Shoppers -> Request] BY <2>1, <3>1 DEF TypeOK
    <3> QED BY <1>0, <1>1, <2>3, <3>2, AwaitType
            DEF TypeOK, ShopRead, episodeVars, stripeVars, faultVars
  <2> QED BY <1>1, <2>2, <2>3 DEF ShopRead
<1>2. CASE ShopCard(w)
  BY <1>0, <1>2, AnswerType, AwaitType
     DEF TypeOK, ShopCard, episodeVars, stripeVars, faultVars
<1>3. CASE ShopPending(w)
  BY <1>0, <1>3, AnswerType, AwaitType
     DEF TypeOK, ShopPending, episodeVars, stripeVars, faultVars
<1>4. CASE ShopIntent(w)
  <2> DEFINE i == CHOOSE i \in Unused : TRUE
  <2>1. CASE Answer(w) /\ UNCHANGED buyer
    BY <1>4, <2>1, AnswerType DEF TypeOK, ShopIntent, episodeVars, faultVars
  <2>2. CASE /\ Unused # {}
             /\ buyer' = [buyer EXCEPT ![i] = loc[w].user]
             /\ loc' = [loc EXCEPT ![w].intent = i]
             /\ Await(w, "shop_save")
    <3>1. i \in Unused BY <2>2
    <3>2. i \in Intents BY <3>1 DEF Unused
    <3> HIDE DEF i
    <3>3. [loc[w] EXCEPT !.intent = i] \in Request BY <1>0, <3>2 DEF Request
    <3>4. loc' = [loc EXCEPT ![w] = [loc[w] EXCEPT !.intent = i]] BY <2>2
    <3>5. loc' \in [Shoppers -> Request] BY <3>3, <3>4 DEF TypeOK
    <3>6. loc[w].user \in Users \cup {Null} BY <1>0 DEF Request
    <3>7. buyer' \in [Intents -> Users \cup {Null}] BY <2>2, <3>2, <3>6 DEF TypeOK
    <3> QED BY <1>0, <1>4, <2>2, <3>5, <3>7, AwaitType
            DEF TypeOK, ShopIntent, episodeVars, faultVars
  <2> QED BY <1>4, <2>1, <2>2 DEF ShopIntent
<1>5. CASE ShopSave(w)
  BY <1>0, <1>5, AnswerType DEF TypeOK, ShopSave, episodeVars, stripeVars, faultVars
<1> QED BY <1>1, <1>2, <1>3, <1>4, <1>5 DEF Shop

LEMMA SettleType ==
  ASSUME TypeOK, NEW i \in Intents, NEW outcome \in {"completed", "failed"},
         Settle(i, outcome)
  PROVE  pending' \in [Intents -> {"none", "pending", "late", "completed", "failed"}]
BY DEF TypeOK, Settle

LEMMA HandleType ==
  ASSUME TypeOK, NEW d \in Deliveries, Handle(d) \/ Deliver(d)
  PROVE  TypeOK'
<1> USE DEF PayLabels
<1>0. d \in Workers /\ d[1] \in Intents BY DEF Workers, Deliveries
<1>1. ASSUME NEW label \in {"idle"} \cup PayLabels, Await(d, label)
      PROVE  pc' \in [Workers -> {"idle"} \cup ShopLabels \cup PayLabels]
  BY <1>0, <1>1, AwaitType
<1>2. ASSUME Acknowledge(d)
      PROVE  /\ pc' \in [Workers -> {"idle"} \cup ShopLabels \cup PayLabels]
             /\ mail' \subseteq Mails
  BY <1>1, <1>2 DEF TypeOK, Acknowledge
<1>3. CASE Deliver(d)
  BY <1>1, <1>3 DEF TypeOK, Deliver, episodeVars, stripeVars, faultVars
<1>4. CASE PayExists(d)
  BY <1>1, <1>2, <1>4 DEF TypeOK, PayExists, episodeVars, faultVars
<1>5. CASE PayRead(d)
  BY <1>1, <1>5 DEF TypeOK, PayRead, episodeVars, stripeVars, faultVars
<1>6. CASE PayRefund(d)
  BY <1>0, <1>2, <1>6 DEF TypeOK, PayRefund, episodeVars, faultVars
<1>7. CASE PayCreate(d)
  <2>1. CASE /\ buyer[d[1]] \notin Holders
             /\ paidBy' = [paidBy EXCEPT ![buyer[d[1]]] = d[1]]
             /\ Await(d, "pay_count") /\ UNCHANGED <<loc, lost>>
    BY <1>0, <1>1, <1>7, <2>1 DEF TypeOK, PayCreate, stripeVars
  <2>2. CASE Restart /\ UNCHANGED paidBy
    BY <1>7, <2>2, RestartType DEF TypeOK, PayCreate, stripeVars
  <2> QED BY <1>7, <2>1, <2>2 DEF PayCreate
<1>8. CASE PayCount(d)
  BY <1>1, <1>8, PaymentAssumption DEF TypeOK, PayCount, stripeVars, faultVars
<1>9. CASE PayDone(d)
  BY <1>0, <1>2, <1>9, SettleType DEF TypeOK, PayDone, episodeVars, faultVars
<1> QED BY <1>3, <1>4, <1>5, <1>6, <1>7, <1>8, <1>9 DEF Handle

LEMMA OutsideType ==
  ASSUME TypeOK
  PROVE  /\ \A i \in Intents : Pay(i) \/ Decline(i) \/ Expire(i) \/ PayFailed(i) => TypeOK'
         /\ EndEpisode \/ Crash \/ UNCHANGED vars => TypeOK'
<1>1. ASSUME NEW i \in Intents, Pay(i) PROVE TypeOK'
  <2>1. Succeeded(i) \in Mails BY DEF Succeeded, Mails
  <2> QED BY <1>1, <2>1 DEF TypeOK, Pay, episodeVars, faultVars
<1>2. ASSUME NEW i \in Intents, Decline(i) PROVE TypeOK'
  <2>1. Failed(i) \in Mails BY DEF Failed, Mails
  <2> QED BY <1>2, <2>1 DEF TypeOK, Decline, episodeVars, faultVars
<1>3. ASSUME NEW i \in Intents, Expire(i) PROVE TypeOK'
  BY <1>3 DEF TypeOK, Expire, episodeVars, stripeVars, faultVars
<1>4. ASSUME NEW i \in Intents, PayFailed(i) PROVE TypeOK'
  BY <1>4, SettleType DEF TypeOK, PayFailed, episodeVars, faultVars
<1>5. CASE EndEpisode BY <1>5 DEF TypeOK, EndEpisode, stripeVars, faultVars
<1>6. CASE Crash BY <1>6, RestartType DEF TypeOK, Crash, episodeVars, stripeVars
<1>7. CASE UNCHANGED vars BY <1>7 DEF TypeOK, vars, episodeVars, stripeVars, faultVars
<1> QED BY <1>1, <1>2, <1>3, <1>4, <1>5, <1>6, <1>7

LEMMA TypeInit == Init => TypeOK
BY BlankType DEF Init, TypeOK, Request

LEMMA TypeStep == TypeOK /\ [Next]_vars => TypeOK'
BY ShopType, HandleType, OutsideType DEF Next

\* Every variable keeps its type, whatever is confirmed, delivered again or lost.
THEOREM TypesHold == Spec => []TypeOK
BY TypeInit, TypeStep, PTL DEF Spec

(***************************************************************************)
(* Whose intent it is: an intent that is on record, posted or carried by a *)
(* delivery belongs to a viewer, and one that is posted has been paid.     *)
(***************************************************************************)

Requested ==
  \A w \in Shoppers :
    /\ pc[w] \in ShopLabels => loc[w].user \in Users
    /\ pc[w] = "shop_save" => /\ loc[w].intent \in Intents
                             /\ buyer[loc[w].intent] = loc[w].user

OnRecord == \A i \in Intents : pending[i] # "none" => buyer[i] \in Users

Owned(i) == buyer[i] \in Users /\ charge[i] # "unpaid"

Posted == \A i \in Intents : Succeeded(i) \in mail => Owned(i)

Carried == \A d \in Deliveries : pc[d] # "idle" => Owned(d[1])

Links == Requested /\ OnRecord /\ Posted /\ Carried

LEMMA NullIsNobody == Null \notin Users /\ Null \notin Intents
BY PaymentAssumption

LEMMA Apart == \A w \in Shoppers, d \in Deliveries : w # d
BY PaymentAssumption DEF Deliveries

LEMMA Parts == \A d \in Deliveries : d[1] \in Intents /\ d[2] \in Copies /\ d = <<d[1], d[2]>>
BY DEF Deliveries

\* What a payment request does to the links; it never touches a delivery.
LEMMA ShopLinks ==
  ASSUME TypeOK, Links, NEW w \in Shoppers, Shop(w)
  PROVE  Links'
<1> USE DEF ShopLabels
<1>0. /\ loc \in [Shoppers -> Request] /\ DOMAIN pc = Workers /\ w \in Workers
      /\ Shoppers \subseteq Workers /\ Deliveries \subseteq Workers
  BY DEF TypeOK, Workers
<1>1. ASSUME NEW label, pc' = [pc EXCEPT ![w] = label]
      PROVE  /\ \A v \in Shoppers \ {w} : pc'[v] = pc[v]
             /\ \A d \in Deliveries : pc'[d] = pc[d]
             /\ pc'[w] = label
  BY <1>0, <1>1, Apart
<1>2. ASSUME Answer(w), UNCHANGED stripeVars, UNCHANGED pending PROVE Links'
  <2>1. /\ \A v \in Shoppers \ {w} : pc'[v] = pc[v] /\ loc'[v] = loc[v]
        /\ \A d \in Deliveries : pc'[d] = pc[d]
        /\ pc'[w] = "idle"
    BY <1>0, <1>1, <1>2 DEF Answer, Await
  <2> QED BY <1>2, <2>1 DEF Links, Requested, OnRecord, Posted, Carried, Owned, stripeVars
<1>3. ASSUME NEW label \in {"shop_pending", "shop_intent"}, Await(w, label), UNCHANGED loc,
             UNCHANGED stripeVars, UNCHANGED pending, pc[w] \in ShopLabels
      PROVE  Links'
  <2>1. /\ \A v \in Shoppers \ {w} : pc'[v] = pc[v]
        /\ \A d \in Deliveries : pc'[d] = pc[d]
        /\ pc'[w] = label
    BY <1>1, <1>3 DEF Await
  <2> QED BY <1>3, <2>1 DEF Links, Requested, OnRecord, Posted, Carried, Owned, stripeVars
<1>4. ASSUME NEW u \in Users, ShopRead(w, u) PROVE Links'
  <2>1. CASE Answer(w) BY <1>2, <1>4, <2>1 DEF ShopRead
  <2>2. CASE Await(w, "shop_card") /\ loc' = [loc EXCEPT ![w].user = u]
    <3>1. /\ \A v \in Shoppers \ {w} : pc'[v] = pc[v] /\ loc'[v] = loc[v]
          /\ \A d \in Deliveries : pc'[d] = pc[d]
          /\ pc'[w] = "shop_card"
      BY <1>0, <1>1, <2>2 DEF Await
    <3>2. loc'[w].user = u BY <1>0, <2>2 DEF Request
    <3> QED BY <1>4, <3>1, <3>2
            DEF Links, Requested, OnRecord, Posted, Carried, Owned, ShopRead, stripeVars
  <2> QED BY <1>4, <2>1, <2>2 DEF ShopRead
<1>5. CASE ShopCard(w) BY <1>2, <1>3, <1>5 DEF ShopCard
<1>6. CASE ShopPending(w) BY <1>2, <1>3, <1>6 DEF ShopPending
<1>7. CASE ShopIntent(w)
  <2> DEFINE i == CHOOSE i \in Unused : TRUE
  <2>1. CASE Answer(w) /\ UNCHANGED buyer
    BY <1>2, <1>7, <2>1 DEF ShopIntent, stripeVars
  <2>2. CASE /\ Unused # {}
             /\ buyer' = [buyer EXCEPT ![i] = loc[w].user]
             /\ loc' = [loc EXCEPT ![w].intent = i]
             /\ Await(w, "shop_save")
    <3>1. i \in Unused BY <2>2
    <3>2. i \in Intents /\ buyer[i] = Null BY <3>1 DEF Unused
    <3> HIDE DEF i
    <3>3. loc[w].user \in Users BY <1>7 DEF Links, Requested, ShopIntent
    <3>4. /\ \A v \in Shoppers \ {w} : pc'[v] = pc[v] /\ loc'[v] = loc[v]
          /\ \A d \in Deliveries : pc'[d] = pc[d]
          /\ pc'[w] = "shop_save"
      BY <1>0, <1>1, <2>2 DEF Await
    <3>5. loc'[w].intent = i /\ loc'[w].user = loc[w].user BY <1>0, <2>2 DEF Request
    <3>6. /\ buyer'[i] = loc[w].user
          /\ \A j \in Intents \ {i} : buyer'[j] = buyer[j]
      BY <2>2, <3>2 DEF TypeOK
    <3>7. \A j \in Intents : buyer[j] \in Users => buyer'[j] = buyer[j]
      BY <3>2, <3>6, NullIsNobody
    <3>8. pending' = pending /\ charge' = charge /\ mail' = mail BY <1>7 DEF ShopIntent
    <3>9. Requested' BY <3>2, <3>3, <3>4, <3>5, <3>6, <3>7 DEF Links, Requested
    <3> QED BY <3>4, <3>7, <3>8, <3>9, Parts DEF Links, OnRecord, Posted, Carried, Owned
  <2> QED BY <1>7, <2>1, <2>2 DEF ShopIntent
<1>8. CASE ShopSave(w)
  <2> DEFINE i == loc[w].intent
  <2>1. i \in Intents /\ buyer[i] = loc[w].user /\ loc[w].user \in Users
    BY <1>8 DEF Links, Requested, ShopSave
  <2> HIDE DEF i
  <2>2. /\ \A v \in Shoppers \ {w} : pc'[v] = pc[v] /\ loc'[v] = loc[v]
        /\ \A d \in Deliveries : pc'[d] = pc[d]
        /\ pc'[w] = "idle"
    BY <1>0, <1>1, <1>8 DEF Answer, Await, ShopSave
  <2>3. \A j \in Intents \ {i} : pending'[j] = pending[j]
    BY <1>8, <2>1 DEF ShopSave, TypeOK, i
  <2>4. buyer' = buyer /\ charge' = charge /\ mail' = mail BY <1>8 DEF ShopSave, stripeVars
  <2> QED BY <2>1, <2>2, <2>3, <2>4 DEF Links, Requested, OnRecord, Posted, Carried, Owned
<1> QED BY <1>4, <1>5, <1>6, <1>7, <1>8 DEF Shop

\* A delivery starts from a posted event and keeps every link.
LEMMA HandleLinks ==
  ASSUME TypeOK, Links, NEW d \in Deliveries, Handle(d) \/ Deliver(d)
  PROVE  Links'
<1>0. d \in Workers /\ d[1] \in Intents /\ DOMAIN pc = Workers
      /\ Shoppers \subseteq Workers /\ Deliveries \subseteq Workers
  BY DEF TypeOK, Workers, Deliveries
<1>1. ASSUME NEW label, Await(d, label)
      PROVE  /\ \A w \in Shoppers : pc'[w] = pc[w]
             /\ \A e \in Deliveries \ {d} : pc'[e] = pc[e]
  BY <1>0, <1>1, Apart DEF Await
<1>2. ASSUME Restart PROVE \A w \in Workers : pc'[w] = "idle"
  BY <1>2 DEF Restart
<1>3. ASSUME buyer' = buyer, UNCHANGED loc, mail' \subseteq mail, Owned(d[1]),
             \A i \in Intents : charge[i] # "unpaid" => charge'[i] # "unpaid",
             \A i \in Intents : pending'[i] # "none" => pending[i] # "none",
             NEW label, Await(d, label)
      PROVE  Links'
  BY <1>0, <1>1, <1>3, Parts DEF Links, Requested, OnRecord, Posted, Carried, Owned
<1>4. ASSUME Acknowledge(d) PROVE Await(d, "idle") /\ mail' \subseteq mail
  BY <1>4 DEF Acknowledge
<1>5. pc[d] # "idle" => Owned(d[1]) BY DEF Links, Carried
<1>6. CASE Deliver(d)
  <2>1. Owned(d[1]) BY <1>0, <1>6 DEF Links, Posted, Deliver
  <2> QED BY <1>3, <1>6, <2>1 DEF Deliver, stripeVars
<1>7. CASE PayExists(d)
  <2>1. CASE Acknowledge(d) BY <1>3, <1>4, <1>5, <1>7, <2>1 DEF PayExists
  <2>2. CASE Await(d, "pay_read") /\ UNCHANGED mail BY <1>3, <1>5, <1>7, <2>2 DEF PayExists
  <2> QED BY <1>7, <2>1, <2>2 DEF PayExists
<1>8. CASE PayRead(d)
  <2>1. PICK label : Await(d, label) BY <1>8 DEF PayRead
  <2> QED BY <1>3, <1>5, <1>8, <2>1 DEF PayRead, stripeVars
<1>9. CASE PayRefund(d)
  <2>1. \A i \in Intents : charge[i] # "unpaid" => charge'[i] # "unpaid"
    BY <1>0, <1>9 DEF PayRefund, TypeOK
  <2> QED BY <1>3, <1>4, <1>5, <1>9, <2>1 DEF PayRefund
<1>10. CASE PayCreate(d)
  <2>1. CASE Await(d, "pay_count") /\ UNCHANGED <<loc, lost>>
    BY <1>3, <1>5, <1>10, <2>1 DEF PayCreate, stripeVars
  <2>2. CASE Restart
    <3>1. \A w \in Shoppers : pc'[w] = "idle" BY <1>0, <1>2, <2>2
    <3>2. \A e \in Deliveries : pc'[e] = "idle" BY <1>0, <1>2, <2>2
    <3> QED BY <1>10, <3>1, <3>2
            DEF PayCreate, Links, Requested, OnRecord, Posted, Carried, Owned, ShopLabels, stripeVars
  <2> QED BY <1>10, <2>1, <2>2 DEF PayCreate
<1>11. CASE PayCount(d) BY <1>3, <1>5, <1>11 DEF PayCount, stripeVars
<1>12. CASE PayDone(d)
  <2>1. \A i \in Intents : pending'[i] # "none" => pending[i] # "none"
    BY <1>0, <1>12 DEF PayDone, Settle, TypeOK
  <2> QED BY <1>3, <1>4, <1>5, <1>12, <2>1 DEF PayDone
<1> QED BY <1>6, <1>7, <1>8, <1>9, <1>10, <1>11, <1>12 DEF Handle

\* An intent is confirmed only after its row is on record.
LEMMA OutsideLinks ==
  ASSUME TypeOK, Links
  PROVE  /\ \A i \in Intents : Pay(i) \/ Decline(i) \/ Expire(i) \/ PayFailed(i) => Links'
         /\ EndEpisode \/ Crash \/ UNCHANGED vars => Links'
<1>0. Shoppers \subseteq Workers /\ Deliveries \subseteq Workers BY DEF Workers
<1>1. ASSUME NEW i \in Intents, Pay(i) PROVE Links'
  <2>1. charge' = [charge EXCEPT ![i] = "paid"] /\ buyer[i] \in Users
    BY <1>1 DEF Pay, Links, OnRecord
  <2>2. \A j \in Intents : Succeeded(j) \in mail' => j = i \/ Succeeded(j) \in mail
    BY <1>1 DEF Pay, Succeeded
  <2>3. \A j \in Intents : charge[j] # "unpaid" => charge'[j] # "unpaid"
    BY <2>1 DEF TypeOK
  <2>4. charge'[i] = "paid" BY <2>1 DEF TypeOK
  <2> QED BY <1>1, <2>1, <2>2, <2>3, <2>4, Parts
          DEF Pay, Links, Requested, OnRecord, Posted, Carried, Owned
<1>2. ASSUME NEW i \in Intents, Decline(i) PROVE Links'
  <2>1. \A j \in Intents : Succeeded(j) \in mail' => Succeeded(j) \in mail
    BY <1>2 DEF Decline, Succeeded, Failed
  <2> QED BY <1>2, <2>1 DEF Decline, Links, Requested, OnRecord, Posted, Carried, Owned
<1>3. ASSUME NEW i \in Intents, Expire(i) PROVE Links'
  <2>1. \A j \in Intents : pending'[j] # "none" => pending[j] # "none"
    BY <1>3 DEF Expire, TypeOK
  <2> QED BY <1>3, <2>1
          DEF Expire, Links, Requested, OnRecord, Posted, Carried, Owned, stripeVars
<1>4. ASSUME NEW i \in Intents, PayFailed(i) PROVE Links'
  <2>1. \A j \in Intents : pending'[j] # "none" => pending[j] # "none"
    BY <1>4 DEF PayFailed, Settle, TypeOK
  <2> QED BY <1>4, <2>1 DEF PayFailed, Links, Requested, OnRecord, Posted, Carried, Owned
<1>5. CASE EndEpisode
  BY <1>5 DEF EndEpisode, Links, Requested, OnRecord, Posted, Carried, Owned, stripeVars
<1>6. CASE Crash
  <2>1. \A w \in Shoppers : pc'[w] = "idle" BY <1>0, <1>6 DEF Crash, Restart
  <2>2. \A d \in Deliveries : pc'[d] = "idle" BY <1>0, <1>6 DEF Crash, Restart
  <2> QED BY <1>6, <2>1, <2>2
          DEF Crash, Links, Requested, OnRecord, Posted, Carried, Owned, ShopLabels, stripeVars
<1>7. CASE UNCHANGED vars
  BY <1>7 DEF vars, stripeVars, Links, Requested, OnRecord, Posted, Carried, Owned
<1> QED BY <1>1, <1>2, <1>3, <1>4, <1>5, <1>6, <1>7

LEMMA LinksInit == Init => Links
<1> SUFFICES ASSUME Init PROVE Links OBVIOUS
<1>1. \A w \in Shoppers : pc[w] = "idle" BY DEF Init, Workers
<1>2. \A d \in Deliveries : pc[d] = "idle" BY DEF Init, Workers
<1> QED BY <1>1, <1>2 DEF Init, Links, Requested, OnRecord, Posted, Carried, ShopLabels

LEMMA LinksStep == TypeOK /\ Links /\ [Next]_vars => Links'
BY ShopLinks, HandleLinks, OutsideLinks DEF Next

(***************************************************************************)
(* Revenue: a card is counted once, is being counted, or was lost.         *)
(***************************************************************************)

LEMMA HoldersFinite ==
  IsFiniteSet(Holders) /\ Cardinality(Holders) \in Nat
<1>1. Holders \subseteq Users BY DEF Holders
<1> QED BY <1>1, PaymentAssumption, FS_Subset, FS_CardinalityType

\* The books are left alone when no card, count or delivery about to count is.
LEMMA BooksKept ==
  ASSUME RevenueAgrees, UNCHANGED <<revenue, paidBy, lost>>, Uncounted' = Uncounted
  PROVE  RevenueAgrees'
<1>1. Holders' = Holders BY DEF Holders
<1> QED BY <1>1 DEF RevenueAgrees

\* A restart moves the cards that were being counted to the lost ones.
LEMMA RestartBooks ==
  ASSUME TypeOK, RevenueAgrees, Restart, UNCHANGED <<revenue, paidBy>>
  PROVE  RevenueAgrees'
<1>1. Deliveries \subseteq Workers BY DEF Workers
<1>2. Uncounted' = {} BY <1>1 DEF Uncounted, Restart
<1>3. Cardinality(Uncounted') = 0 BY <1>2, FS_EmptySet
<1>4. Holders' = Holders BY DEF Holders
<1>5. lost' = lost + Cardinality(Uncounted) BY DEF Restart
<1>6. Cardinality(Uncounted') + lost' = Cardinality(Uncounted) + lost
  BY <1>3, <1>5, UncountedFinite DEF TypeOK
<1>7. revenue' = revenue OBVIOUS
<1> QED BY <1>4, <1>6, <1>7 DEF RevenueAgrees

LEMMA MovedElsewhere ==
  ASSUME TypeOK, NEW w \in Workers, NEW label, label # "pay_count",
         pc[w] # "pay_count", Await(w, label)
  PROVE  Uncounted' = Uncounted
<1>1. Deliveries \subseteq Workers BY DEF Workers
<1> QED BY <1>1 DEF Uncounted, Await, TypeOK

LEMMA ShopBooks ==
  ASSUME TypeOK, RevenueAgrees, NEW w \in Shoppers, Shop(w)
  PROVE  RevenueAgrees'
<1>0. w \in Workers /\ \A d \in Deliveries : w # d BY Apart DEF Workers
<1>1. PICK label : Await(w, label)
  BY DEF Shop, ShopRead, ShopCard, ShopPending, ShopIntent, ShopSave, Answer
<1>2. UNCHANGED <<revenue, paidBy, lost>>
  BY DEF Shop, ShopRead, ShopCard, ShopPending, ShopIntent, ShopSave, episodeVars, faultVars
<1>3. \A d \in Deliveries : pc'[d] = pc[d] BY <1>0, <1>1 DEF Await, TypeOK, Workers
<1>4. Uncounted' = Uncounted BY <1>3 DEF Uncounted
<1> QED BY <1>2, <1>4, BooksKept

LEMMA HandleBooks ==
  ASSUME TypeOK, TypeOK', Links, RevenueAgrees, NEW d \in Deliveries, Handle(d) \/ Deliver(d)
  PROVE  RevenueAgrees'
<1>0. d \in Workers /\ d[1] \in Intents /\ Deliveries \subseteq Workers
  BY DEF Workers, Deliveries
<1> DEFINE h == Cardinality(Holders)
           c == Cardinality(Uncounted)
<1>1. h \in Nat /\ c \in Nat /\ lost \in Nat /\ revenue \in Nat /\ Price \in Nat
  BY HoldersFinite, UncountedFinite, PaymentAssumption DEF TypeOK
<1>2. ASSUME Acknowledge(d) PROVE Await(d, "idle")
  BY <1>2 DEF Acknowledge
<1>3. CASE Deliver(d)
  BY <1>0, <1>3, BooksKept, MovedElsewhere DEF Deliver, episodeVars, faultVars
<1>4. CASE PayExists(d)
  BY <1>0, <1>2, <1>4, BooksKept, MovedElsewhere DEF PayExists, episodeVars, faultVars
<1>5. CASE PayRead(d)
  BY <1>0, <1>5, BooksKept, MovedElsewhere DEF PayRead, episodeVars, faultVars
<1>6. CASE PayRefund(d)
  BY <1>0, <1>2, <1>6, BooksKept, MovedElsewhere DEF PayRefund, episodeVars, faultVars
<1>7. CASE PayCreate(d)
  <2> DEFINE u == buyer[d[1]]
  <2>1. u \in Users BY <1>7 DEF PayCreate, Links, Carried, Owned
  <2>2. CASE /\ u \notin Holders
             /\ paidBy' = [paidBy EXCEPT ![u] = d[1]]
             /\ Await(d, "pay_count") /\ UNCHANGED <<loc, lost>>
    <3>1. Holders' = Holders \cup {u}
      BY <1>0, <2>1, <2>2, NullIsNobody DEF Holders, TypeOK
    <3>2. Cardinality(Holders') = h + 1 BY <2>2, <3>1, HoldersFinite, FS_AddElement
    <3>3. Uncounted' = Uncounted \cup {d} BY <1>0, <2>2 DEF Uncounted, Await, TypeOK
    <3>4. d \notin Uncounted BY <1>7 DEF PayCreate, Uncounted
    <3>5. Cardinality(Uncounted') = c + 1 BY <3>3, <3>4, UncountedFinite, FS_AddElement
    <3>6. revenue' = revenue /\ lost' = lost BY <1>7, <2>2 DEF PayCreate
    <3>7. Price * h = revenue + Price * (c + lost) BY DEF RevenueAgrees
    <3>8. Price * (h + 1) = Price * h + Price BY <1>1
    <3>9. Price * (c + 1 + lost) = Price * (c + lost) + Price BY <1>1
    <3>10. Price * h \in Int /\ Price * (c + lost) \in Int BY <1>1
    <3> HIDE DEF h, c
    <3>11. Price * (h + 1) = revenue + Price * (c + 1 + lost)
      BY <1>1, <3>7, <3>8, <3>9, <3>10
    <3> QED BY <3>2, <3>5, <3>6, <3>11 DEF RevenueAgrees
  <2>3. CASE Restart /\ UNCHANGED paidBy
    BY <1>7, <2>3, RestartBooks DEF PayCreate
  <2> QED BY <1>7, <2>2, <2>3 DEF PayCreate
<1>8. CASE PayCount(d)
  <2>1. Holders' = Holders BY <1>8 DEF PayCount, Holders
  <2>2. Uncounted' = Uncounted \ {d} BY <1>0, <1>8 DEF PayCount, Uncounted, Await, TypeOK
  <2>3. d \in Uncounted BY <1>8 DEF PayCount, Uncounted
  <2>4. Cardinality(Uncounted') = c - 1 BY <2>2, <2>3, UncountedFinite, FS_RemoveElement
  <2>5. revenue' = revenue + Price /\ lost' = lost BY <1>8 DEF PayCount, faultVars
  <2>6. Price * h = revenue + Price * (c + lost) BY DEF RevenueAgrees
  <2>7. Price * (c + lost) = Price * (c - 1 + lost) + Price BY <1>1
  <2>8. Price * h \in Int /\ Price * (c - 1 + lost) \in Int BY <1>1
  <2> HIDE DEF h, c
  <2>9. Price * h = (revenue + Price) + Price * (c - 1 + lost) BY <1>1, <2>6, <2>7, <2>8
  <2>10. Cardinality(Holders') = h BY <2>1 DEF h
  <2> QED BY <2>4, <2>5, <2>9, <2>10 DEF RevenueAgrees
<1>9. CASE PayDone(d)
  BY <1>0, <1>2, <1>9, BooksKept, MovedElsewhere DEF PayDone, episodeVars, faultVars
<1> QED BY <1>3, <1>4, <1>5, <1>6, <1>7, <1>8, <1>9 DEF Handle

LEMMA OutsideBooks ==
  ASSUME TypeOK, RevenueAgrees
  PROVE  /\ \A i \in Intents :
              Pay(i) \/ Decline(i) \/ Expire(i) \/ PayFailed(i) => RevenueAgrees'
         /\ EndEpisode \/ Crash \/ UNCHANGED vars => RevenueAgrees'
<1>1. ASSUME NEW i \in Intents, Pay(i) \/ Decline(i) \/ Expire(i) \/ PayFailed(i)
      PROVE  RevenueAgrees'
  <2>1. UNCHANGED <<revenue, paidBy, lost, pc>>
    BY <1>1 DEF Pay, Decline, Expire, PayFailed, episodeVars, faultVars
  <2> QED BY <2>1, BooksKept DEF Uncounted
<1>2. CASE EndEpisode BY <1>2, BooksKept DEF EndEpisode, faultVars, Uncounted
<1>3. CASE Crash BY <1>3, RestartBooks DEF Crash, episodeVars
<1>4. CASE UNCHANGED vars
  BY <1>4, BooksKept DEF vars, episodeVars, faultVars, Uncounted
<1> QED BY <1>1, <1>2, <1>3, <1>4

LEMMA BooksInit == Init => RevenueAgrees
<1> SUFFICES ASSUME Init PROVE RevenueAgrees OBVIOUS
<1>1. Holders = {} BY DEF Init, Holders
<1>2. Uncounted = {} BY DEF Init, Uncounted, Workers
<1>3. Cardinality(Holders) = 0 /\ Cardinality(Uncounted) = 0 BY <1>1, <1>2, FS_EmptySet
<1> QED BY <1>3, PaymentAssumption DEF Init, RevenueAgrees

LEMMA BooksStep == TypeOK /\ TypeOK' /\ Links /\ RevenueAgrees /\ [Next]_vars => RevenueAgrees'
BY ShopBooks, HandleBooks, OutsideBooks DEF Next

\* Whatever is delivered again and whenever the process dies, the episode's
\* revenue is the price of the cards that stand counted (webhooks.ts:193-201).
THEOREM RevenueIsExact == Spec => []RevenueAgrees
<1>1. Init => TypeOK /\ Links /\ RevenueAgrees BY TypeInit, LinksInit, BooksInit
<1>2. TypeOK /\ Links /\ RevenueAgrees /\ [Next]_vars => (TypeOK /\ Links /\ RevenueAgrees)'
  BY TypeStep, LinksStep, BooksStep
<1> QED BY <1>1, <1>2, PTL DEF Spec

(***************************************************************************)
(* Payments in progress.  A request that has passed the check of           *)
(* cards.ts:340 counts as if its row were written.                         *)
(***************************************************************************)

Passed(u) ==
  {w \in Shoppers : pc[w] \in {"shop_intent", "shop_save"} /\ loc[w].user = u}

RowsBounded ==
  \A u \in Users :
    Cardinality(InProgress(u)) + Cardinality(Passed(u)) <= Cardinality(Shoppers)

LEMMA ProgressSizes ==
  ASSUME NEW u \in Users
  PROVE  /\ IsFiniteSet(InProgress(u)) /\ Cardinality(InProgress(u)) \in Nat
         /\ IsFiniteSet(Passed(u)) /\ Cardinality(Passed(u)) \in Nat
         /\ Cardinality(Passed(u)) <= Cardinality(Shoppers)
         /\ IsFiniteSet(InProgress(u)') /\ Cardinality(InProgress(u)') \in Nat
         /\ IsFiniteSet(Passed(u)') /\ Cardinality(Passed(u)') \in Nat
         /\ Cardinality(Passed(u)') <= Cardinality(Shoppers)
         /\ Cardinality(Shoppers) \in Nat
<1>1. InProgress(u) \subseteq Intents /\ InProgress(u)' \subseteq Intents BY DEF InProgress
<1>2. Passed(u) \subseteq Shoppers /\ Passed(u)' \subseteq Shoppers BY DEF Passed
<1> QED BY <1>1, <1>2, PaymentAssumption, FS_Subset, FS_CardinalityType

\* Most steps take rows and requests away, or leave them.
LEMMA FewerRows ==
  ASSUME RowsBounded, NEW u \in Users,
         InProgress(u)' \subseteq InProgress(u), Passed(u)' \subseteq Passed(u)
  PROVE  Cardinality(InProgress(u)') + Cardinality(Passed(u)') <= Cardinality(Shoppers)
<1>1. /\ Cardinality(InProgress(u)') <= Cardinality(InProgress(u))
      /\ Cardinality(Passed(u)') <= Cardinality(Passed(u))
  BY ProgressSizes, FS_Subset
<1>2. Cardinality(InProgress(u)) + Cardinality(Passed(u)) <= Cardinality(Shoppers)
  BY DEF RowsBounded
<1> QED BY <1>1, <1>2, ProgressSizes

LEMMA ShopRows ==
  ASSUME TypeOK, Links, RowsBounded, NEW w \in Shoppers, Shop(w)
  PROVE  RowsBounded'
<1> SUFFICES ASSUME NEW u \in Users
             PROVE  Cardinality(InProgress(u)') + Cardinality(Passed(u)') <= Cardinality(Shoppers)
  BY DEF RowsBounded
<1>0. /\ loc \in [Shoppers -> Request] /\ DOMAIN pc = Workers /\ w \in Workers
      /\ Shoppers \subseteq Workers
  BY DEF TypeOK, Workers
<1>1. ASSUME NEW label, label \notin {"shop_intent", "shop_save"}, Await(w, label),
             \A v \in Shoppers \ {w} : loc'[v] = loc[v]
      PROVE  Passed(u)' = Passed(u) \ {w}
  <2>1. \A v \in Shoppers \ {w} : pc'[v] = pc[v] BY <1>0, <1>1 DEF Await
  <2>2. pc'[w] = label BY <1>0, <1>1 DEF Await
  <2> QED BY <1>1, <2>1, <2>2 DEF Passed
<1>2. ASSUME Answer(w), UNCHANGED <<buyer, pending>>
      PROVE  /\ InProgress(u)' \subseteq InProgress(u) /\ Passed(u)' \subseteq Passed(u)
  BY <1>0, <1>1, <1>2 DEF Answer, InProgress
<1>3. CASE \E v \in Users : ShopRead(w, v)
  <2>1. UNCHANGED <<buyer, pending>> /\ \A v \in Shoppers \ {w} : loc'[v] = loc[v]
    BY <1>0, <1>3 DEF ShopRead, stripeVars, Answer
  <2>2. Answer(w) \/ Await(w, "shop_card") BY <1>3 DEF ShopRead
  <2>3. InProgress(u)' \subseteq InProgress(u) BY <2>1 DEF InProgress
  <2>4. Passed(u)' \subseteq Passed(u) BY <1>1, <1>2, <2>1, <2>2
  <2> QED BY <2>3, <2>4, FewerRows
<1>4. CASE ShopCard(w)
  <2>1. UNCHANGED <<buyer, pending>> /\ \A v \in Shoppers \ {w} : loc'[v] = loc[v]
    BY <1>0, <1>4 DEF ShopCard, stripeVars, Answer
  <2>2. Answer(w) \/ Await(w, "shop_pending") BY <1>4 DEF ShopCard
  <2>3. InProgress(u)' \subseteq InProgress(u) BY <2>1 DEF InProgress
  <2>4. Passed(u)' \subseteq Passed(u) BY <1>1, <1>2, <2>1, <2>2
  <2> QED BY <2>3, <2>4, FewerRows
<1>5. CASE ShopPending(w)
  <2>1. UNCHANGED <<buyer, pending>> BY <1>5 DEF ShopPending, stripeVars
  <2>2. CASE Answer(w) BY <1>2, <2>1, <2>2, FewerRows
  <2>3. CASE InProgress(loc[w].user) = {} /\ Await(w, "shop_intent") /\ UNCHANGED loc
    <3>1. CASE loc[w].user = u
      <4>1. InProgress(u)' = {} BY <2>1, <2>3, <3>1 DEF InProgress
      <4>2. Cardinality(InProgress(u)') = 0 BY <4>1, FS_EmptySet
      <4> QED BY <4>2, ProgressSizes
    <3>2. CASE loc[w].user # u
      <4>1. \A v \in Shoppers \ {w} : pc'[v] = pc[v] BY <1>0, <2>3 DEF Await
      <4>2. Passed(u)' \subseteq Passed(u) BY <2>3, <3>2, <4>1 DEF Passed
      <4>3. InProgress(u)' \subseteq InProgress(u) BY <2>1 DEF InProgress
      <4> QED BY <4>2, <4>3, FewerRows
    <3> QED BY <3>1, <3>2
  <2> QED BY <1>5, <2>2, <2>3 DEF ShopPending
<1>6. CASE ShopIntent(w)
  <2> DEFINE i == CHOOSE i \in Unused : TRUE
  <2>1. CASE Answer(w) /\ UNCHANGED buyer
    BY <1>2, <1>6, <2>1, FewerRows DEF ShopIntent
  <2>2. CASE /\ Unused # {}
             /\ buyer' = [buyer EXCEPT ![i] = loc[w].user]
             /\ loc' = [loc EXCEPT ![w].intent = i]
             /\ Await(w, "shop_save")
    <3>1. i \in Unused BY <2>2
    <3>2. i \in Intents /\ buyer[i] = Null BY <3>1 DEF Unused
    <3> HIDE DEF i
    <3>3. pending[i] = "none" BY <3>2, NullIsNobody DEF Links, OnRecord
    <3>4. \A j \in Intents \ {i} : buyer'[j] = buyer[j] BY <2>2, <3>2 DEF TypeOK
    <3>5. InProgress(u)' \subseteq InProgress(u) BY <1>6, <3>3, <3>4 DEF ShopIntent, InProgress
    <3>6. \A v \in Shoppers \ {w} : pc'[v] = pc[v] /\ loc'[v] = loc[v]
      BY <1>0, <2>2 DEF Await
    <3>7. loc'[w].user = loc[w].user BY <1>0, <2>2 DEF Request
    <3>8. pc[w] = "shop_intent" BY <1>6 DEF ShopIntent
    <3>9. Passed(u)' \subseteq Passed(u) BY <3>6, <3>7, <3>8 DEF Passed
    <3> QED BY <3>5, <3>9, FewerRows
  <2> QED BY <1>6, <2>1, <2>2 DEF ShopIntent
<1>7. CASE ShopSave(w)
  <2> DEFINE i == loc[w].intent
  <2>1. i \in Intents /\ buyer[i] = loc[w].user /\ pc[w] = "shop_save"
    BY <1>7 DEF Links, Requested, ShopSave
  <2>2. Passed(u)' = Passed(u) \ {w} BY <1>0, <1>1, <1>7 DEF ShopSave, Answer
  <2> HIDE DEF i
  <2>3. buyer' = buyer /\ \A j \in Intents \ {i} : pending'[j] = pending[j]
    BY <1>7, <2>1 DEF ShopSave, TypeOK, i, stripeVars
  <2>4. CASE loc[w].user = u
    <3>1. InProgress(u)' \subseteq InProgress(u) \cup {i} BY <2>3 DEF InProgress
    <3>2. w \in Passed(u) BY <2>1, <2>4 DEF Passed
    <3>3. Cardinality(Passed(u)') = Cardinality(Passed(u)) - 1
      BY <2>2, <3>2, ProgressSizes, FS_RemoveElement
    <3>4. /\ IsFiniteSet(InProgress(u) \cup {i})
          /\ Cardinality(InProgress(u) \cup {i}) <= Cardinality(InProgress(u)) + 1
          /\ Cardinality(InProgress(u) \cup {i}) \in Nat
      <4>1. IsFiniteSet(InProgress(u)) /\ Cardinality(InProgress(u)) \in Nat BY ProgressSizes
      <4>2. i \in InProgress(u) => InProgress(u) \cup {i} = InProgress(u) OBVIOUS
      <4>3. /\ IsFiniteSet(InProgress(u) \cup {i})
            /\ \/ Cardinality(InProgress(u) \cup {i}) = Cardinality(InProgress(u))
               \/ Cardinality(InProgress(u) \cup {i}) = Cardinality(InProgress(u)) + 1
        BY <4>1, <4>2, FS_AddElement
      <4> QED BY <4>1, <4>3
    <3>5. Cardinality(InProgress(u)') <= Cardinality(InProgress(u) \cup {i})
      BY <3>1, <3>4, FS_Subset
    <3>6. Cardinality(InProgress(u)) + Cardinality(Passed(u)) <= Cardinality(Shoppers)
      BY DEF RowsBounded
    <3> QED BY <3>3, <3>4, <3>5, <3>6, ProgressSizes
  <2>5. CASE loc[w].user # u
    <3>1. InProgress(u)' \subseteq InProgress(u) BY <2>1, <2>3, <2>5 DEF InProgress
    <3>2. Passed(u)' \subseteq Passed(u) BY <2>2
    <3> QED BY <3>1, <3>2, FewerRows
  <2> QED BY <2>4, <2>5
<1> QED BY <1>3, <1>4, <1>5, <1>6, <1>7 DEF Shop

LEMMA OtherRows ==
  ASSUME TypeOK, RowsBounded,
         \/ \E d \in Deliveries : Handle(d) \/ Deliver(d)
         \/ \E i \in Intents : Pay(i) \/ Decline(i) \/ Expire(i) \/ PayFailed(i)
         \/ EndEpisode \/ Crash \/ UNCHANGED vars
  PROVE  RowsBounded'
<1>1. /\ \A i \in Intents : pending'[i] = "pending" => pending[i] = "pending"
      /\ buyer' = buyer
      /\ \A w \in Shoppers : pc'[w] = "idle" \/ (pc'[w] = pc[w] /\ loc'[w] = loc[w])
  <2>0. Shoppers \subseteq Workers /\ Deliveries \subseteq Workers BY DEF Workers
  <2>1. Restart => \A w \in Shoppers : pc'[w] = "idle" BY <2>0 DEF Restart
  <2>2. CASE \E d \in Deliveries : Handle(d) \/ Deliver(d)
    <3>1. PICK d \in Deliveries : Handle(d) \/ Deliver(d) BY <2>2
    <3>2. d[1] \in Intents BY DEF Deliveries
    <3>3. Restart \/ (loc' = loc /\ \E label : Await(d, label))
      BY <3>1 DEF Handle, Deliver, PayExists, PayRead, PayRefund, PayCreate, PayCount, PayDone,
                  Acknowledge
    <3>4. \A label : Await(d, label) => \A w \in Shoppers : pc'[w] = pc[w]
      BY <2>0, Apart DEF Await, TypeOK
    <3>5. buyer' = buyer
      BY <3>1 DEF Handle, Deliver, PayExists, PayRead, PayRefund, PayCreate, PayCount, PayDone,
                  stripeVars
    <3>6. pending' = pending \/ Settle(d[1], "completed")
      BY <3>1 DEF Handle, Deliver, PayExists, PayRead, PayRefund, PayCreate, PayCount, PayDone
    <3>7. \A i \in Intents : pending'[i] = "pending" => pending[i] = "pending"
      BY <3>2, <3>6 DEF Settle, TypeOK
    <3> QED BY <2>1, <3>3, <3>4, <3>5, <3>7
  <2>3. CASE \E i \in Intents : Pay(i) \/ Decline(i) \/ Expire(i) \/ PayFailed(i)
    <3>1. PICK i \in Intents : Pay(i) \/ Decline(i) \/ Expire(i) \/ PayFailed(i) BY <2>3
    <3>2. UNCHANGED <<buyer, pc, loc>>
      BY <3>1 DEF Pay, Decline, Expire, PayFailed, stripeVars
    <3>3. pending' = pending \/ Settle(i, "failed") \/ pending' = [pending EXCEPT ![i] = "late"]
      BY <3>1 DEF Pay, Decline, Expire, PayFailed
    <3>4. \A j \in Intents : pending'[j] = "pending" => pending[j] = "pending"
      BY <3>3 DEF Settle, TypeOK
    <3> QED BY <3>2, <3>4
  <2>4. CASE EndEpisode BY <2>4 DEF EndEpisode, stripeVars
  <2>5. CASE Crash BY <2>1, <2>5 DEF Crash, stripeVars
  <2>6. CASE UNCHANGED vars BY <2>6 DEF vars, stripeVars
  <2> QED BY <2>2, <2>3, <2>4, <2>5, <2>6
<1> SUFFICES ASSUME NEW u \in Users
             PROVE  Cardinality(InProgress(u)') + Cardinality(Passed(u)') <= Cardinality(Shoppers)
  BY DEF RowsBounded
<1>2. InProgress(u)' \subseteq InProgress(u) BY <1>1 DEF InProgress
<1>3. Passed(u)' \subseteq Passed(u) BY <1>1 DEF Passed
<1> QED BY <1>2, <1>3, FewerRows

LEMMA RowsInit == Init => RowsBounded
<1> SUFFICES ASSUME Init, NEW u \in Users
             PROVE  Cardinality(InProgress(u)) + Cardinality(Passed(u)) <= Cardinality(Shoppers)
  BY DEF RowsBounded
<1>1. InProgress(u) = {} BY DEF Init, InProgress
<1>2. Passed(u) = {} BY DEF Init, Passed, Workers
<1>3. Cardinality(InProgress(u)) = 0 /\ Cardinality(Passed(u)) = 0 BY <1>1, <1>2, FS_EmptySet
<1> QED BY <1>3, ProgressSizes

LEMMA RowsStep == TypeOK /\ Links /\ RowsBounded /\ [Next]_vars => RowsBounded'
BY ShopRows, OtherRows DEF Next

LEMMA RowsBound == RowsBounded => PendingBound
<1> SUFFICES ASSUME RowsBounded, NEW u \in Users
             PROVE  Cardinality(InProgress(u)) <= Cardinality(Shoppers)
  BY DEF PendingBound
<1>1. Cardinality(InProgress(u)) + Cardinality(Passed(u)) <= Cardinality(Shoppers)
  BY DEF RowsBounded
<1> QED BY <1>1, ProgressSizes

\* However often a viewer asks, the payments in progress are at most the
\* requests that run together (cards.ts:340-375).
THEOREM PendingIsBounded == Spec => []PendingBound
<1>1. Init => TypeOK /\ Links /\ RowsBounded BY TypeInit, LinksInit, RowsInit
<1>2. TypeOK /\ Links /\ RowsBounded /\ [Next]_vars => (TypeOK /\ Links /\ RowsBounded)'
  BY TypeStep, LinksStep, RowsStep
<1> QED BY <1>1, <1>2, RowsBound, PTL DEF Spec

(***************************************************************************)
(* One outcome per charge, when deliveries of one event do not overlap.    *)
(***************************************************************************)

OneCopy == \A k, l \in Copies : k = l

Closed == ~live \/ SoldOut

\* A card is its holder's own purchase, and its charge stands.
HeldPaid ==
  \A u \in Holders : buyer[paidBy[u]] = u /\ charge[paidBy[u]] = "paid"

\* Past the idempotency check the intent has no card yet.
StillFresh ==
  \A d \in Deliveries :
    pc[d] \in {"pay_read", "pay_refund", "pay_create"} => \A u \in Users : paidBy[u] # d[1]

\* Refunds are for shows that are over or sold out, and stay so.
RefundsClosed ==
  /\ \A i \in Intents : charge[i] = "refunded" => Closed
  /\ \A d \in Deliveries : pc[d] = "pay_refund" => Closed

\* A delivery about to create the card has a charge that stands.
AboutToCreate == \A d \in Deliveries : pc[d] = "pay_create" => charge[d[1]] = "paid"

Settled == HeldPaid /\ StillFresh /\ RefundsClosed /\ AboutToCreate

LEMMA CopyOnce ==
  ASSUME OneCopy, NEW d \in Deliveries, NEW e \in Deliveries, d[1] = e[1]
  PROVE  d = e
<1>1. d[2] = e[2] BY DEF Deliveries, OneCopy
<1>2. d = <<d[1], d[2]>> /\ e = <<e[1], e[2]>> BY Parts
<1> QED BY <1>1, <1>2

LEMMA ClosedStays ==
  ASSUME TypeOK, Closed, live' \in {live, FALSE}, cardsMinted' \in {cardsMinted, cardsMinted + 1}
  PROVE  Closed'
<1>1. SoldOut => SoldOut' BY PaymentAssumption DEF TypeOK, SoldOut
<1>2. ~live => ~live' OBVIOUS
<1> QED BY <1>1, <1>2 DEF Closed

\* Steps that touch no card and no charge, and move deliveries only to places
\* that need nothing.
LEMMA QuietStep ==
  ASSUME TypeOK, Settled, UNCHANGED <<paidBy, charge>>,
         live' \in {live, FALSE}, cardsMinted' \in {cardsMinted, cardsMinted + 1},
         \A i \in Intents : buyer[i] \in Users => buyer'[i] = buyer[i],
         \A d \in Deliveries :
           pc'[d] = pc[d] \/ pc'[d] \notin {"pay_read", "pay_refund", "pay_create"}
  PROVE  Settled'
<1>1. Holders' = Holders BY DEF Holders
<1>2. Closed => Closed' BY ClosedStays
<1>3. \A u \in Holders : paidBy[u] \in Intents BY DEF Holders, TypeOK
<1>4. \A u \in Holders : u \in Users BY DEF Holders
<1>5. HeldPaid' BY <1>1, <1>3, <1>4 DEF Settled, HeldPaid
<1>6. StillFresh' BY DEF Settled, StillFresh
<1>7. RefundsClosed' BY <1>2 DEF Settled, RefundsClosed
<1>8. AboutToCreate' BY DEF Settled, AboutToCreate
<1> QED BY <1>5, <1>6, <1>7, <1>8 DEF Settled

LEMMA ShopSettled ==
  ASSUME TypeOK, Settled, NEW w \in Shoppers, Shop(w)
  PROVE  Settled'
<1>1. PICK label : Await(w, label)
  BY DEF Shop, ShopRead, ShopCard, ShopPending, ShopIntent, ShopSave, Answer
<1>2. \A d \in Deliveries : pc'[d] = pc[d] BY <1>1, Apart DEF Await, TypeOK, Workers
<1>3. UNCHANGED <<paidBy, charge, live, cardsMinted>>
  BY DEF Shop, ShopRead, ShopCard, ShopPending, ShopIntent, ShopSave, episodeVars, stripeVars
<1>4. \A i \in Intents : buyer[i] \in Users => buyer'[i] = buyer[i]
  <2>1. CASE UNCHANGED buyer BY <2>1
  <2>2. CASE ShopIntent(w) /\ Unused # {}
    <3> DEFINE j == CHOOSE j \in Unused : TRUE
    <3>1. j \in Unused BY <2>2
    <3>2. buyer[j] = Null BY <3>1 DEF Unused
    <3>3. buyer' = buyer \/ buyer' = [buyer EXCEPT ![j] = loc[w].user]
      BY <2>2 DEF ShopIntent
    <3> HIDE DEF j
    <3> QED BY <3>2, <3>3, NullIsNobody DEF TypeOK
  <2> QED BY <2>1, <2>2
          DEF Shop, ShopRead, ShopCard, ShopPending, ShopIntent, ShopSave, stripeVars
<1> QED BY <1>2, <1>3, <1>4, QuietStep

LEMMA RestartSettled ==
  ASSUME TypeOK, Settled, Restart, UNCHANGED <<paidBy, charge, buyer, live, cardsMinted>>
  PROVE  Settled'
<1>1. \A d \in Deliveries : pc'[d] = "idle" BY DEF Restart, Workers
<1> QED BY <1>1, QuietStep

LEMMA HandleSettled ==
  ASSUME TypeOK, Links, Settled, OneCopy, NEW d \in Deliveries, Handle(d) \/ Deliver(d)
  PROVE  Settled'
<1>0. d \in Workers /\ d[1] \in Intents /\ Deliveries \subseteq Workers
      /\ DOMAIN pc = Workers
  BY DEF TypeOK, Workers, Deliveries
<1>1. ASSUME NEW label, Await(d, label)
      PROVE  pc'[d] = label /\ \A e \in Deliveries \ {d} : pc'[e] = pc[e]
  BY <1>0, <1>1 DEF Await
<1>2. ASSUME NEW label, Await(d, label), label \notin {"pay_read", "pay_refund", "pay_create"},
             UNCHANGED <<paidBy, charge, buyer, live>>,
             cardsMinted' \in {cardsMinted, cardsMinted + 1}
      PROVE  Settled'
  <2>1. \A e \in Deliveries :
          pc'[e] = pc[e] \/ pc'[e] \notin {"pay_read", "pay_refund", "pay_create"}
    BY <1>1, <1>2
  <2> QED BY <1>2, <2>1, QuietStep
<1>3. ASSUME Acknowledge(d) PROVE Await(d, "idle")
  BY <1>3 DEF Acknowledge
<1>4. CASE Deliver(d) BY <1>2, <1>4 DEF Deliver, episodeVars, stripeVars
<1>5. CASE PayExists(d)
  <2>1. CASE Acknowledge(d) BY <1>2, <1>3, <1>5, <2>1 DEF PayExists, episodeVars
  <2>2. CASE (\A u \in Users : paidBy[u] # d[1]) /\ Await(d, "pay_read")
    <3>1. UNCHANGED <<paidBy, charge, buyer, live, cardsMinted>>
      BY <1>5 DEF PayExists, episodeVars
    <3>2. pc'[d] = "pay_read" /\ \A e \in Deliveries \ {d} : pc'[e] = pc[e] BY <1>1, <2>2
    <3>3. HeldPaid' BY <3>1 DEF Settled, HeldPaid, Holders
    <3>4. StillFresh' BY <2>2, <3>1, <3>2 DEF Settled, StillFresh
    <3>5. RefundsClosed' BY <3>1, <3>2 DEF Settled, RefundsClosed, Closed, SoldOut
    <3>6. AboutToCreate' BY <3>1, <3>2 DEF Settled, AboutToCreate
    <3> QED BY <3>3, <3>4, <3>5, <3>6 DEF Settled
  <2> QED BY <1>5, <2>1, <2>2 DEF PayExists
<1>6. CASE PayRead(d)
  <2>1. UNCHANGED <<paidBy, charge, buyer, live, cardsMinted>>
    BY <1>6 DEF PayRead, episodeVars, stripeVars
  <2>2. Await(d, IF Closed THEN "pay_refund" ELSE "pay_create")
    BY <1>6 DEF PayRead, Closed
  <2>3. /\ pc'[d] = IF Closed THEN "pay_refund" ELSE "pay_create"
        /\ \A e \in Deliveries \ {d} : pc'[e] = pc[e]
    BY <1>1, <2>2
  <2>4. pc[d] = "pay_read" BY <1>6 DEF PayRead
  <2>5. ~Closed => charge[d[1]] = "paid"
    <3>1. charge[d[1]] \in {"unpaid", "paid", "refunded"} BY <1>0 DEF TypeOK
    <3>2. charge[d[1]] # "unpaid" BY <2>4 DEF Links, Carried, Owned
    <3> QED BY <1>0, <3>1, <3>2 DEF Settled, RefundsClosed
  <2>6. Closed' <=> Closed BY <2>1 DEF Closed, SoldOut
  <2>7. HeldPaid' BY <2>1 DEF Settled, HeldPaid, Holders
  <2>8. StillFresh' BY <2>1, <2>3, <2>4 DEF Settled, StillFresh
  <2>9. RefundsClosed' BY <2>1, <2>3, <2>6 DEF Settled, RefundsClosed
  <2>10. AboutToCreate' BY <2>1, <2>3, <2>5 DEF Settled, AboutToCreate
  <2> QED BY <2>7, <2>8, <2>9, <2>10 DEF Settled
<1>7. CASE PayRefund(d)
  <2>1. UNCHANGED <<paidBy, buyer, live, cardsMinted>> BY <1>7 DEF PayRefund, episodeVars
  <2>2. pc[d] = "pay_refund" /\ Await(d, "idle") BY <1>3, <1>7 DEF PayRefund
  <2>3. pc'[d] = "idle" /\ \A e \in Deliveries \ {d} : pc'[e] = pc[e] BY <1>1, <2>2
  <2>4. \A i \in Intents \ {d[1]} : charge'[i] = charge[i] BY <1>0, <1>7 DEF PayRefund, TypeOK
  <2>5. Closed' BY <2>1, <2>2 DEF Settled, RefundsClosed, Closed, SoldOut
  <2>6. \A u \in Users : paidBy[u] # d[1] BY <2>2 DEF Settled, StillFresh
  <2>7. \A u \in Holders : u \in Users /\ paidBy[u] \in Intents BY DEF Holders, TypeOK
  <2>8. Holders' = Holders BY <2>1 DEF Holders
  <2>9. HeldPaid' BY <2>1, <2>4, <2>6, <2>7, <2>8 DEF Settled, HeldPaid
  <2>10. StillFresh' BY <2>1, <2>3 DEF Settled, StillFresh
  <2>11. RefundsClosed' BY <2>5 DEF RefundsClosed
  <2>12. \A e \in Deliveries \ {d} : e[1] # d[1] BY CopyOnce
  <2>13. AboutToCreate' BY <2>3, <2>4, <2>12, Parts DEF Settled, AboutToCreate
  <2> QED BY <2>9, <2>10, <2>11, <2>13 DEF Settled
<1>8. CASE PayCreate(d)
  <2> DEFINE u == buyer[d[1]]
  <2>1. u \in Users /\ pc[d] = "pay_create" BY <1>8 DEF PayCreate, Links, Carried, Owned
  <2>2. UNCHANGED <<charge, buyer, live, cardsMinted>> BY <1>8 DEF PayCreate, stripeVars
  <2>3. CASE /\ u \notin Holders
             /\ paidBy' = [paidBy EXCEPT ![u] = d[1]]
             /\ Await(d, "pay_count")
    <3>1. pc'[d] = "pay_count" /\ \A e \in Deliveries \ {d} : pc'[e] = pc[e] BY <1>1, <2>3
    <3>2. paidBy'[u] = d[1] /\ \A v \in Users \ {u} : paidBy'[v] = paidBy[v]
      BY <2>1, <2>3 DEF TypeOK
    <3>3. Holders' = Holders \cup {u} BY <1>0, <2>1, <3>2, NullIsNobody DEF Holders
    <3>4. charge[d[1]] = "paid" BY <2>1 DEF Settled, AboutToCreate
    <3>5. \A v \in Holders : v \in Users \ {u} BY <2>3 DEF Holders
    <3>6. HeldPaid' BY <2>2, <3>2, <3>3, <3>4, <3>5 DEF Settled, HeldPaid
    <3>7. \A e \in Deliveries \ {d} : e[1] # d[1] BY CopyOnce
    <3>8. StillFresh' BY <3>1, <3>2, <3>7 DEF Settled, StillFresh
    <3>9. RefundsClosed' BY <2>2, <3>1 DEF Settled, RefundsClosed, Closed, SoldOut
    <3>10. AboutToCreate' BY <2>2, <3>1 DEF Settled, AboutToCreate
    <3> QED BY <3>6, <3>8, <3>9, <3>10 DEF Settled
  <2>4. CASE Restart /\ UNCHANGED paidBy BY <2>2, <2>4, RestartSettled
  <2> QED BY <1>8, <2>3, <2>4 DEF PayCreate
<1>9. CASE PayCount(d) BY <1>2, <1>9 DEF PayCount, stripeVars
<1>10. CASE PayDone(d) BY <1>2, <1>3, <1>10 DEF PayDone, episodeVars
<1> QED BY <1>4, <1>5, <1>6, <1>7, <1>8, <1>9, <1>10 DEF Handle

LEMMA OutsideSettled ==
  ASSUME TypeOK, Settled
  PROVE  /\ \A i \in Intents : Pay(i) \/ Decline(i) \/ Expire(i) \/ PayFailed(i) => Settled'
         /\ EndEpisode \/ Crash \/ UNCHANGED vars => Settled'
<1>1. ASSUME NEW i \in Intents, Pay(i) PROVE Settled'
  <2>1. UNCHANGED <<paidBy, buyer, live, cardsMinted, pc>> BY <1>1 DEF Pay, episodeVars
  <2>2. charge[i] = "unpaid" /\ charge'[i] = "paid"
        /\ \A j \in Intents \ {i} : charge'[j] = charge[j]
    BY <1>1 DEF Pay, TypeOK
  <2>3. \A u \in Holders : paidBy[u] \in Intents BY DEF Holders, TypeOK
  <2>4. Holders' = Holders /\ (Closed' <=> Closed) BY <2>1 DEF Holders, Closed, SoldOut
  <2>5. HeldPaid' BY <2>1, <2>2, <2>3, <2>4 DEF Settled, HeldPaid
  <2>6. StillFresh' BY <2>1 DEF Settled, StillFresh
  <2>7. RefundsClosed' BY <2>1, <2>2, <2>4 DEF Settled, RefundsClosed
  <2>8. AboutToCreate' BY <2>1, <2>2, Parts DEF Settled, AboutToCreate
  <2> QED BY <2>5, <2>6, <2>7, <2>8 DEF Settled
<1>2. ASSUME NEW i \in Intents, Decline(i) \/ Expire(i) \/ PayFailed(i) PROVE Settled'
  <2>1. UNCHANGED <<paidBy, charge, buyer, live, cardsMinted, pc>>
    BY <1>2 DEF Decline, Expire, PayFailed, episodeVars, stripeVars
  <2> QED BY <2>1, QuietStep
<1>3. CASE EndEpisode
  <2>1. UNCHANGED <<paidBy, charge, buyer, cardsMinted, pc>> /\ live' = FALSE
    BY <1>3 DEF EndEpisode, stripeVars
  <2> QED BY <2>1, QuietStep
<1>4. CASE Crash BY <1>4, RestartSettled DEF Crash, episodeVars, stripeVars
<1>5. CASE UNCHANGED vars
  <2>1. UNCHANGED <<paidBy, charge, buyer, live, cardsMinted, pc>>
    BY <1>5 DEF vars, episodeVars, stripeVars
  <2> QED BY <2>1, QuietStep
<1> QED BY <1>1, <1>2, <1>3, <1>4, <1>5

LEMMA SettledInit == Init => Settled
<1> SUFFICES ASSUME Init PROVE Settled OBVIOUS
<1>1. Holders = {} BY DEF Init, Holders
<1>2. \A d \in Deliveries : pc[d] = "idle" BY DEF Init, Workers
<1>3. \A i \in Intents : charge[i] = "unpaid" BY DEF Init
<1> QED BY <1>1, <1>2, <1>3 DEF Settled, HeldPaid, StillFresh, RefundsClosed, AboutToCreate

\* OneCopy is about the constants, so it is its own next value.
LEMMA SettledStep ==
  TypeOK /\ Links /\ (OneCopy => Settled) /\ [Next]_vars => (OneCopy => Settled)'
BY ShopSettled, HandleSettled, OutsideSettled DEF Next, OneCopy

\* A charge pays for a card or is refunded, never both, through redeliveries
\* and restarts, as long as deliveries of the same event do not overlap
\* (webhooks.ts:75-145).
THEOREM ChargeSettledOnce == Spec => [](OneCopy => OneOutcome)
<1>1. Init => TypeOK /\ Links /\ (OneCopy => Settled) BY TypeInit, LinksInit, SettledInit
<1>2. TypeOK /\ Links /\ (OneCopy => Settled) /\ [Next]_vars
      => (TypeOK /\ Links /\ (OneCopy => Settled))'
  BY TypeStep, LinksStep, SettledStep
<1>3. (OneCopy => Settled) => (OneCopy => OneOutcome)
  BY DEF Settled, HeldPaid, OneOutcome
<1> QED BY <1>1, <1>2, <1>3, PTL DEF Spec
===============================================================================
