---------------------------- MODULE PayoutAccount ----------------------------
(***************************************************************************)
(* The Stripe account of a streamer: POST /payments/connect                *)
(* (routes/payments.ts, services/stripe.service.ts), which the payment     *)
(* settings of two tabs may call together, and the account.updated events  *)
(* of the Stripe webhook, which carry a snapshot, come in any order and    *)
(* are sent again until they are acknowledged.  Stripe is external.        *)
(*                                                                         *)
(* stripeChargesEnabled is written wherever stripePayoutsEnabled is and    *)
(* read only for display; `enabled` stands for both.                       *)
(***************************************************************************)
EXTENDS Naturals, FiniteSets

CONSTANTS
  Accounts,   \* Stripe accounts that may be created
  Tabs,       \* tabs of the streamer that may ask to connect
  MaxChanges, \* bound on the changes Stripe makes to accounts
  NoAccount   \* null

ASSUME AccountAssumption ==
  /\ IsFiniteSet(Accounts) /\ IsFiniteSet(Tabs)
  /\ NoAccount \notin Accounts /\ MaxChanges \in Nat

VARIABLES
  linked,     \* User.stripeAccountId
  enabled,    \* User.stripePayoutsEnabled
  onStripe,   \* Stripe's state of an account: "none", "open", "enabled"
  invited,    \* accounts whose onboarding link has been handed out
  events,     \* account.updated events Stripe has not seen acknowledged
  connect,    \* the connect request of each tab
  changes,    \* bound: changes so far
  reported,   \* history: accounts Stripe has reported enabled
  raced       \* history: accounts stored by a request that overlapped another

userVars    == <<linked, enabled>>
stripeVars  == <<onStripe, invited, events, changes, reported>>
accountVars == <<userVars, stripeVars, connect, raced>>

NoConnect == [pc |-> "idle", account |-> NoAccount, alone |-> TRUE]

InitAccount ==
  /\ linked = NoAccount /\ enabled = FALSE
  /\ onStripe = [a \in Accounts |-> "none"]
  /\ invited = {} /\ events = {} /\ changes = 0
  /\ connect = [t \in Tabs |-> NoConnect]
  /\ reported = {} /\ raced = {}

(***************************************************************************)
(* POST /payments/connect                                                  *)
(***************************************************************************)

\* Variant for the checks: an account that is there is not looked for.
HasAccount_Never == FALSE

HasAccount == linked # NoAccount

\* The read of the user.  Of requests that overlap none is alone.
ConnectRead(t) ==
  LET others == {u \in Tabs \ {t} : connect[u].pc # "idle"} IN
  /\ connect[t].pc = "idle"
  /\ connect' = [u \in Tabs |->
       IF u = t THEN [NoConnect EXCEPT !.pc = IF HasAccount THEN "link" ELSE "create",
                                       !.account = linked, !.alone = others = {}]
       ELSE IF u \in others THEN [connect[u] EXCEPT !.alone = FALSE]
       ELSE connect[u]]
  /\ UNCHANGED <<userVars, stripeVars, raced>>

\* A new link for the account that is there, or an error.
ConnectLink(t) ==
  /\ connect[t].pc = "link"
  /\ invited' \in {invited, invited \cup {connect[t].account}}
  /\ connect' = [connect EXCEPT ![t] = NoConnect]
  /\ UNCHANGED <<userVars, onStripe, events, changes, reported, raced>>

\* accounts.create: the account exists from here on, whatever comes after.
ConnectCreate(t) ==
  /\ connect[t].pc = "create"
  /\ \/ \E a \in {x \in Accounts : onStripe[x] = "none"} :
          /\ onStripe' = [onStripe EXCEPT ![a] = "open"]
          /\ connect' = [connect EXCEPT ![t] =
                           [pc |-> "invite", account |-> a, alone |-> connect[t].alone]]
     \/ connect' = [connect EXCEPT ![t] = NoConnect] /\ UNCHANGED onStripe
  /\ UNCHANGED <<userVars, invited, events, changes, reported, raced>>

\* accountLinks.create; on an error the account is forgotten.
ConnectInvite(t) ==
  /\ connect[t].pc = "invite"
  /\ \E pc \in {"save", "idle"} :
       connect' = [connect EXCEPT ![t] = IF pc = "idle" THEN NoConnect
                                         ELSE [connect[t] EXCEPT !.pc = pc]]
  /\ UNCHANGED <<userVars, stripeVars, raced>>

\* The id is stored, over any other; the flags are left as they are.
ConnectSave(t) ==
  LET a == connect[t].account IN
  /\ connect[t].pc = "save"
  /\ linked' = a
  /\ invited' = invited \cup {a}
  /\ raced' = IF connect[t].alone THEN raced ELSE raced \cup {a}
  /\ connect' = [connect EXCEPT ![t] = NoConnect]
  /\ UNCHANGED <<enabled, onStripe, events, changes, reported>>

\* The process stops; the requests are gone.
ConnectsDie == connect' = [t \in Tabs |-> NoConnect]

(***************************************************************************)
(* Stripe                                                                  *)
(***************************************************************************)

\* The streamer completes the onboarding, or Stripe takes the payouts back; it
\* reports either.
AccountChanges(a) ==
  /\ a \in invited /\ changes < MaxChanges /\ changes' = changes + 1
  /\ \E s \in {"open", "enabled"} \ {onStripe[a]} :
       /\ onStripe' = [onStripe EXCEPT ![a] = s]
       /\ events' = events \cup {[account |-> a, enabled |-> s = "enabled"]}
       /\ reported' = IF s = "enabled" THEN reported \cup {a} ELSE reported
  /\ UNCHANGED <<userVars, invited, connect, raced>>

\* handleAccountUpdated writes the snapshot of the event, with its account.  The
\* acknowledgement may be lost.
HandleAccountUpdated(e) ==
  /\ e \in events
  /\ linked' = e.account /\ enabled' = e.enabled
  /\ events' \in {events, events \ {e}}
  /\ UNCHANGED <<onStripe, invited, changes, reported, connect, raced>>

AccountNext ==
  \/ \E t \in Tabs :
       ConnectRead(t) \/ ConnectLink(t) \/ ConnectCreate(t) \/ ConnectInvite(t) \/ ConnectSave(t)
  \/ \E a \in Accounts : AccountChanges(a)
  \/ \E e \in events : HandleAccountUpdated(e)

(***************************************************************************)
(* Properties                                                              *)
(***************************************************************************)

\* Types of the user's columns, Stripe's accounts and the requests.
AccountTypeOK ==
  /\ linked \in Accounts \cup {NoAccount} /\ enabled \in BOOLEAN
  /\ onStripe \in [Accounts -> {"none", "open", "enabled"}]
  /\ invited \subseteq Accounts
  /\ events \subseteq [account : Accounts, enabled : BOOLEAN]
  /\ connect \in [Tabs -> [pc : {"idle", "link", "create", "invite", "save"},
                           account : Accounts \cup {NoAccount}, alone : BOOLEAN]]
  /\ changes \in Nat /\ reported \subseteq Accounts /\ raced \subseteq Accounts

\* A withdrawal trusts the pair of columns: while the flag is set, the account
\* beside it is one that Stripe has reported enabled, in spite of snapshots that
\* come late, twice or in the wrong order, and of saves that write one column
\* only (payments.ts:99).  The exception are requests to connect that overlap:
\* each creates an account, and the slower one's id lands beside the flag of
\* the faster one's.
FlagIsOfAccount == enabled => linked \in reported \cup raced
=============================================================================
