----------------------------- MODULE CardPayments -----------------------------
(***************************************************************************)
(* Paid cards of one live episode: POST /cards/mint/:episodeId/payment     *)
(* (routes/cards.ts) and the Stripe webhook (routes/webhooks.ts).  As in   *)
(* LiveEpisode every awaited call is an interleaving point.  The webhook   *)
(* has no try around its handlers, so a query that rejects there is an     *)
(* unhandled rejection and ends the process.                               *)
(*                                                                         *)
(* Stripe is external: a payment intent can be confirmed by whoever got    *)
(* its secret, and an event is delivered again until its 200 has arrived.  *)
(* Grids and marks are those of LiveEpisode and are left out.              *)
(***************************************************************************)
EXTENDS Integers, FiniteSets

CONSTANTS
  Users,      \* viewers
  Intents,    \* payment intents that may be created
  Price,      \* episode.cardPrice, in cents
  MaxCards,   \* episode.maxCards, 0 when unlimited
  Shoppers,   \* workers that carry payment requests
  Copies,     \* deliveries of one succeeded event that may overlap
  MaxFaults,  \* bound on declined attempts, half hours that pass before the
              \* payment, rejected queries and process restarts
  Null

ASSUME PaymentAssumption ==
  /\ IsFiniteSet(Users) /\ IsFiniteSet(Intents)
  /\ IsFiniteSet(Shoppers) /\ IsFiniteSet(Copies)
  /\ Price \in Nat \ {0} /\ MaxCards \in Nat /\ MaxFaults \in Nat
  /\ Null \notin Users \cup Intents
  /\ Shoppers \cap (Intents \X Copies) = {}

VARIABLES
  live,         \* Episode.status = 'live'; it is 'ended' afterwards
  cardsMinted,  \* Episode.cardsMinted
  revenue,      \* Episode.totalRevenue
  paidBy,       \* Card.paymentId of each holder's card, Null: no card
  pending,      \* PendingPayment.status per payment intent; "none": no row,
                \* "late": pending with its expiresAt in the past
  buyer,        \* metadata.userId of each intent, Null: not created
  charge,       \* Stripe's state of each intent
  flagged,      \* intents logged as MANUAL_REFUND_REQUIRED
  mail,         \* events Stripe has not seen acknowledged
  pc, loc,      \* as in LiveEpisode
  lost,         \* history: cards that were never counted
  faults        \* bound: faults so far

episodeVars == <<live, cardsMinted, revenue, paidBy>>
stripeVars  == <<buyer, charge, flagged, mail>>
faultVars   == <<lost, faults>>
vars == <<episodeVars, pending, stripeVars, pc, loc, faultVars>>

Deliveries == Intents \X Copies
Workers == Shoppers \cup Deliveries

Succeeded(i) == <<i, "succeeded">>
Failed(i)    == <<i, "failed">>
Mails == Intents \X {"succeeded", "failed"}

Holders == {u \in Users : paidBy[u] # Null}

SoldOut == MaxCards # 0 /\ cardsMinted >= MaxCards

Request == [user : Users \cup {Null}, intent : Intents \cup {Null}]

NoRequest == [user |-> Null, intent |-> Null]

ShopLabels == {"shop_card", "shop_pending", "shop_intent", "shop_save"}
PayLabels  == {"pay_exists", "pay_read", "pay_refund", "pay_create", "pay_count",
               "pay_done"}

Init ==
  /\ live = TRUE
  /\ cardsMinted = 0 /\ revenue = 0
  /\ paidBy = [u \in Users |-> Null]
  /\ pending = [i \in Intents |-> "none"]
  /\ buyer = [i \in Intents |-> Null]
  /\ charge = [i \in Intents |-> "unpaid"]
  /\ flagged = {}
  /\ mail = {}
  /\ pc = [w \in Workers |-> "idle"]
  /\ loc = [w \in Shoppers |-> NoRequest]
  /\ lost = 0 /\ faults = 0

Await(w, label) == pc' = [pc EXCEPT ![w] = label]

Answer(w) == Await(w, "idle") /\ loc' = [loc EXCEPT ![w] = NoRequest]

(***************************************************************************)
(* POST /cards/mint/:episodeId/payment                                     *)
(***************************************************************************)

\* The read of the episode, and the checks on it.
ShopRead(w, u) ==
  /\ w \in Shoppers /\ pc[w] = "idle"
  /\ \/ (~live \/ SoldOut) /\ Answer(w)
     \/ /\ live /\ ~SoldOut
        /\ Await(w, "shop_card")
        /\ loc' = [loc EXCEPT ![w].user = u]
  /\ UNCHANGED <<episodeVars, pending, stripeVars, faultVars>>

ShopCard(w) ==
  /\ pc[w] = "shop_card"
  /\ \/ loc[w].user \in Holders /\ Answer(w)
     \/ loc[w].user \notin Holders /\ Await(w, "shop_pending") /\ UNCHANGED loc
  /\ UNCHANGED <<episodeVars, pending, stripeVars, faultVars>>

\* Rows with status pending and expiresAt in the future.
InProgress(u) == {i \in Intents : buyer[i] = u /\ pending[i] = "pending"}

ShopPending(w) ==
  /\ pc[w] = "shop_pending"
  /\ \/ InProgress(loc[w].user) # {} /\ Answer(w)
     \/ InProgress(loc[w].user) = {} /\ Await(w, "shop_intent") /\ UNCHANGED loc
  /\ UNCHANGED <<episodeVars, pending, stripeVars, faultVars>>

Unused == {i \in Intents : buyer[i] = Null}

\* createPaymentIntent: an intent with a fresh id, or an error.
ShopIntent(w) ==
  LET i == CHOOSE i \in Unused : TRUE IN
  /\ pc[w] = "shop_intent"
  /\ \/ /\ Unused # {}
        /\ buyer' = [buyer EXCEPT ![i] = loc[w].user]
        /\ loc' = [loc EXCEPT ![w].intent = i]
        /\ Await(w, "shop_save")
     \/ Answer(w) /\ UNCHANGED buyer
  /\ UNCHANGED <<episodeVars, pending, charge, flagged, mail, faultVars>>

\* The row is written and the client gets the secret.
ShopSave(w) ==
  /\ pc[w] = "shop_save"
  /\ pending' = [pending EXCEPT ![loc[w].intent] = "pending"]
  /\ Answer(w)
  /\ UNCHANGED <<episodeVars, stripeVars, faultVars>>

(***************************************************************************)
(* Stripe and time                                                         *)
(***************************************************************************)

\* The client confirms an intent whose secret it has.
Pay(i) ==
  /\ pending[i] # "none" /\ charge[i] = "unpaid"
  /\ charge' = [charge EXCEPT ![i] = "paid"]
  /\ mail' = mail \cup {Succeeded(i)}
  /\ UNCHANGED <<episodeVars, pending, buyer, flagged, pc, loc, faultVars>>

\* An attempt is declined; the same intent can be confirmed again.
Decline(i) ==
  /\ faults < MaxFaults
  /\ faults' = faults + 1
  /\ pending[i] # "none" /\ charge[i] = "unpaid"
  /\ mail' = mail \cup {Failed(i)}
  /\ UNCHANGED <<episodeVars, pending, buyer, charge, flagged, pc, loc, lost>>

\* Thirty minutes have passed.
Expire(i) ==
  /\ faults < MaxFaults
  /\ faults' = faults + 1
  /\ pending[i] = "pending"
  /\ pending' = [pending EXCEPT ![i] = "late"]
  /\ UNCHANGED <<episodeVars, stripeVars, pc, loc, lost>>

\* POST /episodes/:id/end.
EndEpisode ==
  /\ live
  /\ live' = FALSE
  /\ UNCHANGED <<cardsMinted, revenue, paidBy, pending, stripeVars, pc, loc, faultVars>>

(***************************************************************************)
(* POST /webhooks/stripe                                                   *)
(***************************************************************************)

\* The answer 200, which may come too late for Stripe to count.
Acknowledge(d) == Await(d, "idle") /\ mail' \in {mail, mail \ {Succeeded(d[1])}}

Deliver(d) ==
  /\ d \in Deliveries /\ pc[d] = "idle"
  /\ Succeeded(d[1]) \in mail
  /\ Await(d, "pay_exists")
  /\ UNCHANGED <<episodeVars, pending, stripeVars, loc, faultVars>>

\* Variant for the checks: the idempotency check is dropped.
PayExists_NoCheck(d) ==
  /\ pc[d] = "pay_exists"
  /\ Await(d, "pay_read")
  /\ UNCHANGED <<episodeVars, pending, stripeVars, loc, faultVars>>

\* Variant for the checks: a redelivery for a card that exists repeats the increments.
PayExists_Recount(d) ==
  /\ pc[d] = "pay_exists"
  /\ Await(d, IF \E u \in Users : paidBy[u] = d[1] THEN "pay_count" ELSE "pay_read")
  /\ UNCHANGED <<episodeVars, pending, stripeVars, loc, faultVars>>

\* Idempotency: a card with this paymentId ends the handler.
PayExists(d) ==
  /\ pc[d] = "pay_exists"
  /\ \/ \E u \in Users : paidBy[u] = d[1]
        /\ Acknowledge(d)
     \/ /\ \A u \in Users : paidBy[u] # d[1]
        /\ Await(d, "pay_read") /\ UNCHANGED mail
  /\ UNCHANGED <<episodeVars, pending, buyer, charge, flagged, loc, faultVars>>

PayRead(d) ==
  /\ pc[d] = "pay_read"
  /\ Await(d, IF ~live \/ SoldOut THEN "pay_refund" ELSE "pay_create")
  /\ UNCHANGED <<episodeVars, pending, stripeVars, loc, faultVars>>

\* Variant for the checks: a failed refund is not logged for manual intervention.
PayRefund_NoFlag(d) ==
  /\ pc[d] = "pay_refund"
  /\ \/ /\ charge[d[1]] = "paid"
        /\ charge' = [charge EXCEPT ![d[1]] = "refunded"]
     \/ UNCHANGED charge
  /\ Acknowledge(d)
  /\ UNCHANGED <<episodeVars, pending, buyer, flagged, loc, faultVars>>

\* createRefund refunds the charge; or it fails, as it does when the charge was
\* refunded before, or its answer is lost: both are caught and logged.
PayRefund(d) ==
  LET refunded == [charge EXCEPT ![d[1]] = "refunded"] IN
  /\ pc[d] = "pay_refund"
  /\ \/ charge[d[1]] = "paid" /\ charge' = refunded /\ UNCHANGED flagged
     \/ charge' \in {charge, refunded} /\ flagged' = flagged \cup {d[1]}
  /\ Acknowledge(d)
  /\ UNCHANGED <<episodeVars, pending, buyer, loc, faultVars>>

\* Deliveries that have created a card and not counted it.
Uncounted == {d \in Deliveries : pc[d] = "pay_count"}

\* The process dies; Stripe's events stay unacknowledged.
Restart ==
  /\ pc' = [w \in Workers |-> "idle"]
  /\ loc' = [w \in Shoppers |-> NoRequest]
  /\ lost' = lost + Cardinality(Uncounted)

\* The holder's second card violates the unique key: the rejection is not
\* handled and the process dies.
PayCreate(d) ==
  LET u == buyer[d[1]] IN
  /\ pc[d] = "pay_create"
  /\ \/ /\ u \notin Holders
        /\ paidBy' = [paidBy EXCEPT ![u] = d[1]]
        /\ Await(d, "pay_count") /\ UNCHANGED <<loc, lost>>
     \/ u \in Holders /\ Restart /\ UNCHANGED paidBy
  /\ UNCHANGED <<live, cardsMinted, revenue, pending, stripeVars, faults>>

PayCount(d) ==
  /\ pc[d] = "pay_count"
  /\ cardsMinted' = cardsMinted + 1
  /\ revenue' = revenue + Price
  /\ Await(d, "pay_done")
  /\ UNCHANGED <<live, paidBy, pending, stripeVars, loc, faultVars>>

\* updateMany of the row while its status is still pending.
Settle(i, outcome) ==
  pending' = IF pending[i] \in {"pending", "late"}
             THEN [pending EXCEPT ![i] = outcome] ELSE pending

PayDone(d) ==
  /\ pc[d] = "pay_done"
  /\ Settle(d[1], "completed")
  /\ Acknowledge(d)
  /\ UNCHANGED <<episodeVars, buyer, charge, flagged, loc, faultVars>>

\* handlePaymentFailed is one update.
PayFailed(i) ==
  /\ Failed(i) \in mail
  /\ Settle(i, "failed")
  /\ mail' = mail \ {Failed(i)}
  /\ UNCHANGED <<episodeVars, buyer, charge, flagged, pc, loc, faultVars>>

(***************************************************************************)
(* Faults                                                                  *)
(***************************************************************************)

\* The process is restarted, or a query of the webhook rejects.  A query of a
\* payment request that rejects ends that request alone, which is this action
\* with no other request in flight.
Crash ==
  /\ faults < MaxFaults
  /\ \E w \in Workers : pc[w] # "idle"
  /\ faults' = faults + 1
  /\ Restart
  /\ UNCHANGED <<episodeVars, pending, stripeVars>>

(***************************************************************************)
(* Specification                                                           *)
(***************************************************************************)

Shop(w) ==
  \/ \E u \in Users : ShopRead(w, u)
  \/ ShopCard(w) \/ ShopPending(w) \/ ShopIntent(w) \/ ShopSave(w)

Handle(d) ==
  \/ PayExists(d) \/ PayRead(d) \/ PayRefund(d)
  \/ PayCreate(d) \/ PayCount(d) \/ PayDone(d)

Next ==
  \/ \E w \in Shoppers : Shop(w)
  \/ \E d \in Deliveries : Deliver(d) \/ Handle(d)
  \/ \E i \in Intents : Pay(i) \/ Decline(i) \/ Expire(i) \/ PayFailed(i)
  \/ EndEpisode
  \/ Crash

Spec == Init /\ [][Next]_vars

\* Stripe delivers an event it has not seen acknowledged again, and a handler
\* goes on when the call it awaits settles.  Nobody has to pay or to ask.
FairSpec ==
  Spec /\ \A d \in Deliveries : WF_vars(Deliver(d)) /\ WF_vars(Handle(d))

(***************************************************************************)
(* Properties                                                              *)
(***************************************************************************)

\* Types of the tables, of Stripe's state and of the handlers' locals.
TypeOK ==
  /\ live \in BOOLEAN
  /\ cardsMinted \in Nat /\ revenue \in Nat
  /\ paidBy \in [Users -> Intents \cup {Null}]
  /\ pending \in [Intents -> {"none", "pending", "late", "completed", "failed"}]
  /\ flagged \subseteq Intents
  /\ buyer \in [Intents -> Users \cup {Null}]
  /\ charge \in [Intents -> {"unpaid", "paid", "refunded"}]
  /\ mail \subseteq Mails
  /\ pc \in [Workers -> {"idle"} \cup ShopLabels \cup PayLabels]
  /\ loc \in [Shoppers -> Request]
  /\ lost \in Nat /\ faults \in Nat

\* totalRevenue is what the holders paid, up to the cards that are being
\* counted (webhooks.ts:184-201) and those whose delivery died in between: a
\* redelivery finds the card and does not count it.
RevenueAgrees ==
  Price * Cardinality(Holders) = revenue + Price * (Cardinality(Uncounted) + lost)

\* A charge is settled by a card or by a refund and never by both, also when
\* the event is delivered again after a crash or a late answer.  Deliveries of
\* one event do not overlap here; those of different events do.
OneOutcome == \A u \in Holders : charge[paidBy[u]] = "paid"

\* A viewer has at most as many payments in progress as requests that ran
\* together: the check of cards.ts:340 and the row of 365 are three awaits apart.
PendingBound == \A u \in Users : Cardinality(InProgress(u)) <= Cardinality(Shoppers)

\* Payments of a viewer who holds a card for another one.  While the show is on,
\* each delivery of their event violates the unique key and ends the process
\* (webhooks.ts:182), with whatever other delivery is in flight.
Doomed ==
  {i \in Intents : /\ live /\ ~SoldOut
                   /\ Succeeded(i) \in mail /\ charge[i] = "paid"
                   /\ buyer[i] \in Holders /\ paidBy[buyer[i]] # i}

\* Charges that have led neither to the card they paid for, nor to a refund, nor
\* to the list of manual refunds.
Waiting ==
  {i \in Intents : charge[i] = "paid" /\ i \notin flagged /\ \A u \in Users : paidBy[u] # i}

\* In the end no charge is waiting, through crashes, late answers and the end of
\* the show, unless some second payment ends the process for ever.
PayerServed == []<>(Doomed = {}) => <>[](Waiting = {})
===============================================================================
