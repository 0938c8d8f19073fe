------------------------------ MODULE Withdrawals ------------------------------
(***************************************************************************)
(* POST /payments/withdraw/:episodeId (routes/payments.ts): the streamer   *)
(* takes out what an episode has earned.  Each await is an interleaving    *)
(* point.  Earn and EndEpisode are what CardPayments and LiveEpisode do to *)
(* the episode; revenue still arrives after the end, from deliveries that  *)
(* had read the episode live.  PayoutAccount is the account the money goes *)
(* to.  The requests come from tabs with the payment settings              *)
(* (settings/payments/page.tsx), which offer what they have last loaded.   *)
(* Stripe is external.                                                     *)
(***************************************************************************)
EXTENDS PayoutAccount, Integers, FiniteSetsExt

CONSTANTS
  Rows,       \* Withdrawal rows that may be created
  Amounts,    \* what one card may bring, in cents
  MaxCards,   \* bound on the number of cards paid
  FeePercent, \* PLATFORM_FEE_PERCENT
  MaxFaults,  \* bound on lost answers, rejected updates and restarts
  Null

ASSUME WithdrawalAssumption ==
  /\ IsFiniteSet(Rows)
  /\ Amounts \subseteq Nat \ {0}
  /\ MaxCards \in Nat /\ MaxFaults \in Nat
  /\ FeePercent \in 0 .. 99
  /\ Null \notin Rows

VARIABLES
  ended,        \* Episode.status = 'ended'
  revenue,      \* Episode.totalRevenue
  paid,         \* cards paid so far
  state,        \* Withdrawal.status, "none" when there is no row
  net, gross,   \* Withdrawal.netAmount and amount
  transferred,  \* cents that Stripe has moved to the streamer
  view,         \* what each tab shows: payoutsEnabled and canWithdraw
  pc,           \* the call each request awaits
  loc,          \* its row, the amount it computed and the account
  misfiled,     \* history: cents moved by transfers whose row says failed
  faults        \* bound: faults so far

episodeVars == <<ended, revenue, paid>>
rowVars     == <<state, net, gross>>
moneyVars   == <<rowVars, transferred, misfiled>>
vars == <<episodeVars, moneyVars, view, pc, loc, faults, accountVars>>

\* Math.round of a non-negative n / d.
Round(n, d) == (2 * n + d) \div (2 * d)

PlatformFee(amount) == Round(amount * FeePercent, 100)

StreamerPayout(amount) == amount - PlatformFee(amount)

\* Variant for the checks: the fee is added to the net amount.
GrossOf_AddFee(amount) == Round(amount * (100 + FeePercent), 100)

\* The gross amount that belongs to a net one.
GrossOf(amount) == Round(amount * 100, 100 - FeePercent)

Total(f, statuses) == MapThenSumSet(LAMBDA r : f[r], {r \in Rows : state[r] \in statuses})

\* Variant for the checks: only completed withdrawals are subtracted.
Available_Completed == StreamerPayout(revenue) - Total(net, {"completed"})

Available ==
  StreamerPayout(revenue) - Total(net, {"completed"}) - Total(net, {"processing"})

NoRequest == [row |-> Null, amount |-> 0, account |-> NoAccount]

NoView == [ready |-> FALSE, can |-> FALSE]

Init ==
  /\ ended = FALSE /\ revenue = 0 /\ paid = 0
  /\ state = [r \in Rows |-> "none"]
  /\ net = [r \in Rows |-> 0] /\ gross = [r \in Rows |-> 0]
  /\ transferred = 0
  /\ view = [t \in Tabs |-> NoView]
  /\ pc = [w \in Tabs |-> "idle"]
  /\ loc = [w \in Tabs |-> NoRequest]
  /\ misfiled = 0 /\ faults = 0
  /\ InitAccount

Goto(w, label, l) ==
  /\ pc' = [pc EXCEPT ![w] = label]
  /\ loc' = [loc EXCEPT ![w] = l]

Answer(w) == Goto(w, "idle", NoRequest)

Fault == faults < MaxFaults /\ faults' = faults + 1

NoFault == UNCHANGED faults

(***************************************************************************)
(* The episode                                                             *)
(***************************************************************************)

Earn ==
  /\ paid < MaxCards
  /\ paid' = paid + 1
  /\ \E a \in Amounts : revenue' = revenue + a
  /\ UNCHANGED <<ended, moneyVars, view, pc, loc, faults, accountVars>>

EndEpisode ==
  /\ ~ended
  /\ ended' = TRUE
  /\ UNCHANGED <<revenue, paid, moneyVars, view, pc, loc, faults, accountVars>>

(***************************************************************************)
(* The withdrawal                                                          *)
(***************************************************************************)

\* The button of a tab, and the read of the user with the two columns.
DrawUser(w) ==
  /\ pc[w] = "idle" /\ view[w].ready /\ view[w].can
  /\ \/ /\ HasAccount /\ enabled
        /\ Goto(w, "draw_read", [NoRequest EXCEPT !.account = linked])
     \/ (~HasAccount \/ ~enabled) /\ Answer(w)
  /\ UNCHANGED <<episodeVars, moneyVars, view, faults, accountVars>>

\* The episode and its withdrawals are read, and what is left computed.
DrawRead(w) ==
  /\ pc[w] = "draw_read"
  /\ \/ /\ ended /\ Available > 0
        /\ Goto(w, "draw_create", [loc[w] EXCEPT !.amount = Available])
     \/ (~ended \/ Available <= 0) /\ Answer(w)
  /\ UNCHANGED <<episodeVars, moneyVars, view, faults, accountVars>>

Unused == {r \in Rows : state[r] = "none"}

\* The row is written, or the write rejects and the request ends.
DrawCreate(w) ==
  LET r == CHOOSE r \in Unused : TRUE
      amount == loc[w].amount
  IN
  /\ pc[w] = "draw_create"
  /\ \/ /\ Unused # {}
        /\ state' = [state EXCEPT ![r] = "processing"]
        /\ net' = [net EXCEPT ![r] = amount]
        /\ gross' = [gross EXCEPT ![r] = GrossOf(amount)]
        /\ Goto(w, "draw_transfer", [loc[w] EXCEPT !.row = r])
     \/ Answer(w) /\ UNCHANGED rowVars
  /\ UNCHANGED <<episodeVars, transferred, misfiled, view, faults, accountVars>>

\* createTransfer moves the money, if Stripe has enabled the account; or it is
\* refused; or it moves the money and the answer is lost, which the handler can
\* not tell from a refusal.
DrawTransfer(w) ==
  LET amount == loc[w].amount
      ready == onStripe[loc[w].account] = "enabled"
  IN
  /\ pc[w] = "draw_transfer"
  /\ \/ /\ ready /\ transferred' = transferred + amount
        /\ Goto(w, "draw_done", loc[w])
        /\ UNCHANGED misfiled /\ NoFault
     \/ /\ Goto(w, "draw_failed", loc[w])
        /\ UNCHANGED <<transferred, misfiled>> /\ NoFault
     \/ /\ ready /\ transferred' = transferred + amount
        /\ misfiled' = misfiled + amount
        /\ Goto(w, "draw_failed", loc[w])
        /\ Fault
  /\ UNCHANGED <<episodeVars, rowVars, view, accountVars>>

\* The update to 'completed'; when it rejects, the catch files the row as failed.
DrawDone(w) ==
  /\ pc[w] = "draw_done"
  /\ \/ /\ state' = [state EXCEPT ![loc[w].row] = "completed"]
        /\ Answer(w)
        /\ UNCHANGED misfiled /\ NoFault
     \/ /\ misfiled' = misfiled + loc[w].amount
        /\ Goto(w, "draw_failed", loc[w])
        /\ UNCHANGED state /\ Fault
  /\ UNCHANGED <<episodeVars, net, gross, transferred, view, accountVars>>

\* Variant for the checks: every row in processing is filed as failed.
DrawFailed_All(w) ==
  /\ pc[w] = "draw_failed"
  /\ state' = [r \in Rows |-> IF state[r] = "processing" THEN "failed" ELSE state[r]]
  /\ Answer(w)
  /\ UNCHANGED <<episodeVars, net, gross, transferred, misfiled, view, faults, accountVars>>

\* The update to 'failed'; when it rejects, the row stays in processing.
DrawFailed(w) ==
  /\ pc[w] = "draw_failed"
  /\ \/ /\ state' = [state EXCEPT ![loc[w].row] = "failed"]
        /\ NoFault
     \/ UNCHANGED state /\ Fault
  /\ Answer(w)
  /\ UNCHANGED <<episodeVars, net, gross, transferred, misfiled, view, accountVars>>

\* The process is restarted; rows in processing stay so.
Crash ==
  /\ \E w \in Tabs : pc[w] # "idle" \/ connect[w].pc # "idle"
  /\ Fault
  /\ pc' = [w \in Tabs |-> "idle"]
  /\ loc' = [w \in Tabs |-> NoRequest]
  /\ ConnectsDie
  /\ UNCHANGED <<episodeVars, moneyVars, view, userVars, stripeVars, raced>>

(***************************************************************************)
(* The payment settings of a tab: loadData asks for both at once           *)
(***************************************************************************)

\* GET /settings: what Stripe says now or the column says; when Stripe does not
\* answer, the column.
LoadSettings(w) ==
  /\ \E live \in {FALSE, HasAccount /\ onStripe[linked] = "enabled"} :
       view' = [view EXCEPT ![w].ready = live \/ enabled]
  /\ UNCHANGED <<episodeVars, moneyVars, pc, loc, faults, accountVars>>

\* GET /earnings: the formula of the withdrawal once more.
LoadEarnings(w) ==
  /\ view' = [view EXCEPT ![w].can = ended /\ Available > 0]
  /\ UNCHANGED <<episodeVars, moneyVars, pc, loc, faults, accountVars>>

Next ==
  \/ Earn \/ EndEpisode \/ Crash
  \/ AccountNext /\ UNCHANGED <<episodeVars, moneyVars, view, pc, loc, faults>>
  \/ \E w \in Tabs :
       LoadSettings(w) \/ LoadEarnings(w) \/ DrawUser(w) \/ DrawRead(w) \/ DrawCreate(w) \/ DrawTransfer(w) \/ DrawDone(w) \/ DrawFailed(w)

Spec == Init /\ [][Next]_vars

(***************************************************************************)
(* Properties                                                              *)
(***************************************************************************)

\* Types of the rows and of the requests.
TypeOK ==
  /\ ended \in BOOLEAN /\ revenue \in Nat /\ paid \in Nat
  /\ state \in [Rows -> {"none", "processing", "completed", "failed"}]
  /\ net \in [Rows -> Nat] /\ gross \in [Rows -> Nat]
  /\ transferred \in Nat
  /\ pc \in [Tabs -> {"idle", "draw_read", "draw_create", "draw_transfer", "draw_done", "draw_failed"}]
  /\ loc \in [Tabs -> [row : Rows \cup {Null}, amount : Nat, account : Accounts \cup {NoAccount}]]
  /\ view \in [Tabs -> [ready : BOOLEAN, can : BOOLEAN]]
  /\ AccountTypeOK
  /\ misfiled \in Nat /\ faults \in Nat

\* No money moves without a row that later requests subtract: the row is
\* written before the transfer (payments.ts:271) and stays in processing when
\* the process dies.  Transfers filed as failed are the exception
\* (payments.ts:310).
TransfersCovered ==
  transferred <= Total(net, {"completed", "processing"}) + misfiled

\* The balance is read before the row is written (payments.ts:228, 271), so
\* requests that run together are paid the same money; but never more than
\* the earnings once per request that runs together.
OverpayBound ==
  transferred <= Cardinality(Tabs) * StreamerPayout(revenue) + misfiled

\* Both: what Stripe has moved is on record, and bounded by what was earned
\* (payments.ts:228, 271, 310).
PayoutsCovered == TransfersCovered /\ OverpayBound

\* When nothing is left, the gross amounts on record add up to what the viewers
\* paid, within a cent for each withdrawal: the rounding of the fee and the
\* rounding back (payments.ts:268) do not add up further.
GrossAgrees ==
  LET counted == {"completed", "processing"}
      drift == Total(gross, counted) - revenue
      rows == Cardinality({r \in Rows : state[r] \in counted})
  IN  Available = 0 => drift \in -rows .. rows
===============================================================================
