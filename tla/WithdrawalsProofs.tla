-------------------------- MODULE WithdrawalsProofs --------------------------
(***************************************************************************)
(* The flag and the account of a streamer, and the withdrawals that read   *)
(* them, proved for any numbers of tabs, rows, accounts, cards, events and *)
(* restarts.                                                               *)
(*                                                                         *)
(* The sums over rows are folds, whose defining equation is unfolded once, *)
(* in SumSteps; everything else about them goes by induction over a finite *)
(* set in the form of SetSteps, which speaks of a set of subsets where the *)
(* library's theorem speaks of an operator.                                *)
(***************************************************************************)
EXTENDS Withdrawals, FiniteSetTheorems, WellFoundedInduction, TLAPS

-----------------------------------------------------------------------------
(* The account.                                                            *)

making == {"create", "invite", "save"}

\* What a request to connect has read or been given.
Carries ==
  \A t \in Tabs :
     /\ connect[t].pc \in {"invite", "save"} => connect[t].account \in Accounts
     /\ connect[t].pc = "link" => connect[t].account \in Accounts /\ linked # NoAccount

\* Before the first account is stored nobody can have been invited, so Stripe
\* has nothing to report.
Untouched == linked = NoAccount => ~enabled /\ invited = {} /\ events = {}

\* A request that is alone is the only one, and if it makes an account there is
\* none yet.
AloneIsAlone ==
  \A t \in Tabs : connect[t].alone /\ connect[t].pc # "idle" =>
     /\ \A u \in Tabs \ {t} : connect[u].pc = "idle"
     /\ connect[t].pc \in making => linked = NoAccount

\* An event that says enabled is about an account that was.
Reports == \A e \in events : e.enabled => e.account \in reported

AccountInv ==
  /\ AccountTypeOK /\ Carries /\ Untouched /\ AloneIsAlone /\ Reports /\ FlagIsOfAccount

-----------------------------------------------------------------------------
\* Nothing is linked, invited or reported when the streamer signs up.
LEMMA AccountInit == Init => AccountInv
<1> SUFFICES ASSUME Init PROVE AccountInv
  OBVIOUS
<1>1. InitAccount /\ \A t \in Tabs : connect[t].pc = "idle" /\ connect[t].alone
  BY DEF Init, InitAccount, NoConnect
<1>2. AccountTypeOK
  BY <1>1 DEF InitAccount, AccountTypeOK, NoConnect
<1>3. Carries /\ AloneIsAlone
  BY <1>1 DEF Carries, AloneIsAlone
<1>4. Untouched /\ Reports /\ FlagIsOfAccount
  BY <1>1 DEF InitAccount, Untouched, Reports, FlagIsOfAccount
<1> QED BY <1>2, <1>3, <1>4 DEF AccountInv

\* The five conjuncts speak of the account's variables only.
LEMMA AccountStutters == ASSUME AccountInv, UNCHANGED accountVars PROVE AccountInv'
  BY DEF AccountInv, AccountTypeOK, Carries, Untouched, AloneIsAlone, Reports, FlagIsOfAccount,
         accountVars, userVars, stripeVars

\* The read joins the requests that run, none of which is alone any longer.
LEMMA ReadKeeps == ASSUME AccountInv, NEW t \in Tabs, ConnectRead(t) PROVE AccountInv'
<1> DEFINE others == {u \in Tabs \ {t} : connect[u].pc # "idle"}
<1> USE DEF AccountInv
<1>1. /\ connect[t].pc = "idle" /\ UNCHANGED <<userVars, stripeVars, raced>>
      /\ connect' = [u \in Tabs |->
           IF u = t THEN [NoConnect EXCEPT !.pc = IF HasAccount THEN "link" ELSE "create",
                                           !.account = linked, !.alone = others = {}]
           ELSE IF u \in others THEN [connect[u] EXCEPT !.alone = FALSE]
           ELSE connect[u]]
  BY DEF ConnectRead
<1>2. UNCHANGED <<linked, enabled, onStripe, invited, events, changes, reported, raced>>
  BY <1>1 DEF userVars, stripeVars
<1>3. /\ connect'[t].pc = IF HasAccount THEN "link" ELSE "create"
      /\ connect'[t].account = linked /\ connect'[t].alone = (others = {})
  BY <1>1 DEF NoConnect
<1>4. connect'[t] \in [pc : {"idle", "link", "create", "invite", "save"},
                       account : Accounts \cup {NoAccount}, alone : BOOLEAN]
  BY <1>1 DEF NoConnect, AccountTypeOK
<1>5. ASSUME NEW u \in Tabs, u # t
      PROVE  /\ connect'[u].pc = connect[u].pc /\ connect'[u].account = connect[u].account
             /\ connect'[u].alone = (u \notin others /\ connect[u].alone)
             /\ connect'[u] \in [pc : {"idle", "link", "create", "invite", "save"},
                       account : Accounts \cup {NoAccount}, alone : BOOLEAN]
  BY <1>1, <1>5 DEF AccountTypeOK
<1> HIDE DEF others
<1>6. AccountTypeOK'
  BY <1>1, <1>2, <1>4, <1>5 DEF AccountTypeOK
<1>7. Carries'
  BY <1>2, <1>3, <1>5 DEF Carries, HasAccount, AccountTypeOK
<1>8. AloneIsAlone'
  <2>1. ASSUME NEW u \in Tabs, connect'[u].alone, connect'[u].pc # "idle" PROVE u = t /\ others = {}
    BY <2>1, <1>3, <1>5 DEF others
  <2>2. ASSUME others = {} PROVE \A u \in Tabs \ {t} : connect'[u].pc = "idle"
    BY <2>2, <1>5 DEF others
  <2> QED BY <2>1, <2>2, <1>2, <1>3 DEF AloneIsAlone, HasAccount, making
<1> QED BY <1>2, <1>6, <1>7, <1>8 DEF Untouched, Reports, FlagIsOfAccount

\* A request that makes an account goes on, or any request ends.
GoesOn(t, c) ==
  /\ connect' = [connect EXCEPT ![t] = c]
  /\ \/ c = NoConnect
     \/ /\ connect[t].pc \in making
        /\ \E pc2 \in {"invite", "save"}, a \in Accounts :
             c = [pc |-> pc2, account |-> a, alone |-> connect[t].alone]

\* Such a step stores nothing.
LEMMA GoesOnKeeps ==
  ASSUME AccountInv, NEW t \in Tabs, NEW c, GoesOn(t, c),
         invited' \in SUBSET Accounts, linked = NoAccount => invited' = invited,
         onStripe' \in [Accounts -> {"none", "open", "enabled"}],
         UNCHANGED <<linked, enabled, events, changes, reported, raced>>
  PROVE  AccountInv'
<1> USE DEF AccountInv
<1>1. /\ connect'[t] = c
      /\ \A u \in Tabs \ {t} : connect'[u] = connect[u]
  BY DEF AccountTypeOK, GoesOn
<1>2. AccountTypeOK'
  <2>1. c \in [pc : {"idle", "link", "create", "invite", "save"},
               account : Accounts \cup {NoAccount}, alone : BOOLEAN]
    <3>1. connect[t].alone \in BOOLEAN
      BY DEF AccountTypeOK
    <3>2. CASE c = NoConnect
      BY <3>2 DEF NoConnect
    <3>3. ASSUME NEW pc2 \in {"invite", "save"}, NEW a \in Accounts,
                 c = [pc |-> pc2, account |-> a, alone |-> connect[t].alone]
          PROVE  c \in [pc : {"idle", "link", "create", "invite", "save"},
                        account : Accounts \cup {NoAccount}, alone : BOOLEAN]
      BY <3>1, <3>3
    <3> QED BY <3>2, <3>3 DEF GoesOn
  <2>2. connect' = [connect EXCEPT ![t] = c]
    BY DEF GoesOn
  <2>3. connect' \in [Tabs -> [pc : {"idle", "link", "create", "invite", "save"},
                               account : Accounts \cup {NoAccount}, alone : BOOLEAN]]
    BY <2>1, <2>2 DEF AccountTypeOK
  <2> QED BY <2>3 DEF AccountTypeOK
<1>3. Carries'
  BY <1>1 DEF Carries, GoesOn, NoConnect
<1>4. AloneIsAlone'
  <2> SUFFICES ASSUME NEW u \in Tabs, connect'[u].alone, connect'[u].pc # "idle"
               PROVE  /\ \A v \in Tabs \ {u} : connect'[v].pc = "idle"
                      /\ connect'[u].pc \in making => linked' = NoAccount
    BY DEF AloneIsAlone
  <2>1. CASE c = NoConnect
    <3>1. u # t /\ connect[u].alone /\ connect[u].pc # "idle" /\ connect'[u] = connect[u]
      BY <2>1, <1>1 DEF NoConnect
    <3> QED BY <2>1, <3>1, <1>1 DEF AloneIsAlone, NoConnect
  <2>2. CASE c # NoConnect
    <3>1. connect[t].pc \in making /\ c.alone = connect[t].alone
      BY <2>2 DEF GoesOn
    <3>2. connect[u].alone /\ connect[u].pc # "idle"
      BY <3>1, <1>1 DEF making
    <3>3. u = t
      BY <3>1, <3>2 DEF AloneIsAlone, making
    <3> QED BY <3>1, <3>2, <3>3, <1>1 DEF AloneIsAlone
  <2> QED BY <2>1, <2>2
<1> QED BY <1>2, <1>3, <1>4 DEF Untouched, Reports, FlagIsOfAccount

\* The slower of two requests that overlap writes over the faster one's account;
\* one that is alone writes the first.
LEMMA SaveKeeps == ASSUME AccountInv, NEW t \in Tabs, ConnectSave(t) PROVE AccountInv'
<1> DEFINE a == connect[t].account
<1> USE DEF AccountInv
<1>1. /\ connect[t].pc = "save" /\ linked' = a /\ invited' = invited \cup {a}
      /\ raced' = IF connect[t].alone THEN raced ELSE raced \cup {a}
      /\ connect' = [connect EXCEPT ![t] = NoConnect]
      /\ UNCHANGED <<enabled, onStripe, events, changes, reported>>
  BY DEF ConnectSave
<1>2. a \in Accounts /\ a # NoAccount
  BY <1>1, AccountAssumption DEF Carries
<1>3. AccountTypeOK'
  BY <1>1, <1>2 DEF AccountTypeOK, NoConnect
<1>4. /\ connect'[t].pc = "idle"
      /\ \A u \in Tabs \ {t} : connect'[u] = connect[u]
  BY <1>1 DEF AccountTypeOK, NoConnect
<1>5. Carries'
  BY <1>1, <1>2, <1>4 DEF Carries
<1>6. AloneIsAlone'
  <2> SUFFICES ASSUME NEW u \in Tabs, connect'[u].alone, connect'[u].pc # "idle" PROVE FALSE
    BY DEF AloneIsAlone
  <2> QED BY <1>1, <1>4 DEF AloneIsAlone
<1>7. FlagIsOfAccount'
  <2>1. CASE connect[t].alone
    BY <2>1, <1>1 DEF AloneIsAlone, making, Untouched, FlagIsOfAccount
  <2>2. CASE ~connect[t].alone
    BY <2>2, <1>1 DEF FlagIsOfAccount
  <2> QED BY <2>1, <2>2
<1>8. Untouched' /\ Reports'
  BY <1>1, <1>2 DEF Untouched, Reports
<1> QED BY <1>3, <1>5, <1>6, <1>7, <1>8

\* A snapshot carries its account with it.
LEMMA UpdateKeeps == ASSUME AccountInv, NEW e \in events, HandleAccountUpdated(e) PROVE AccountInv'
<1> USE DEF AccountInv
<1>1. /\ linked' = e.account /\ enabled' = e.enabled /\ events' \subseteq events
      /\ UNCHANGED <<onStripe, invited, changes, reported, connect, raced>>
  BY DEF HandleAccountUpdated
<1>2. e.account \in Accounts /\ e.account # NoAccount /\ e.enabled \in BOOLEAN
  BY AccountAssumption DEF AccountTypeOK
<1>3. AccountTypeOK'
  BY <1>1, <1>2 DEF AccountTypeOK
<1>4. linked # NoAccount
  BY DEF Untouched
<1>5. Carries' /\ AloneIsAlone'
  BY <1>1, <1>2, <1>4 DEF Carries, AloneIsAlone
<1>6. Untouched' /\ Reports' /\ FlagIsOfAccount'
  BY <1>1, <1>2 DEF Untouched, Reports, FlagIsOfAccount
<1> QED BY <1>3, <1>5, <1>6

\* What Stripe does to an account that was invited, it reports.
LEMMA ChangeKeeps == ASSUME AccountInv, NEW a \in Accounts, AccountChanges(a) PROVE AccountInv'
<1> USE DEF AccountInv
<1>1. PICK s \in {"open", "enabled"} \ {onStripe[a]} :
        /\ onStripe' = [onStripe EXCEPT ![a] = s]
        /\ events' = events \cup {[account |-> a, enabled |-> s = "enabled"]}
        /\ reported' = IF s = "enabled" THEN reported \cup {a} ELSE reported
  BY DEF AccountChanges
<1>2. /\ a \in invited /\ changes' = changes + 1
      /\ UNCHANGED <<linked, enabled, invited, connect, raced>>
  BY DEF AccountChanges, userVars
<1> DEFINE e == [account |-> a, enabled |-> s = "enabled"]
<1>a. e.account = a /\ e.enabled = (s = "enabled") /\ e \in [account : Accounts, enabled : BOOLEAN]
  OBVIOUS
<1>b. events' = events \cup {e}
  BY <1>1
<1> HIDE DEF e
<1>3. AccountTypeOK'
  <2>1. events' \subseteq [account : Accounts, enabled : BOOLEAN]
    BY <1>a, <1>b DEF AccountTypeOK
  <2>2. onStripe' \in [Accounts -> {"none", "open", "enabled"}] /\ reported' \subseteq Accounts
    BY <1>1 DEF AccountTypeOK
  <2> QED BY <1>2, <2>1, <2>2 DEF AccountTypeOK
<1>4. linked # NoAccount
  BY <1>2 DEF Untouched
<1>5. Reports'
  BY <1>1, <1>a, <1>b DEF Reports
<1> QED BY <1>1, <1>2, <1>3, <1>4, <1>5 DEF Untouched, Carries, AloneIsAlone, FlagIsOfAccount

\* A restart ends the requests to connect, and no overlap is left.
LEMMA RestartKeeps == ASSUME AccountInv, Crash PROVE AccountInv'
<1> USE DEF AccountInv
<1>1. /\ connect' = [t \in Tabs |-> NoConnect]
      /\ UNCHANGED <<linked, enabled, onStripe, invited, events, changes, reported, raced>>
  BY DEF Crash, ConnectsDie, userVars, stripeVars
<1>2. \A t \in Tabs : connect'[t].pc = "idle"
  BY <1>1 DEF NoConnect
<1>3. AccountTypeOK'
  BY <1>1 DEF AccountTypeOK, NoConnect
<1> QED BY <1>1, <1>2, <1>3 DEF Untouched, Carries, AloneIsAlone, Reports, FlagIsOfAccount

\* A step of the account.
LEMMA AccountStep == ASSUME AccountInv, AccountNext PROVE AccountInv'
<1>1. ASSUME NEW t \in Tabs, ConnectRead(t) PROVE AccountInv'
  BY <1>1, ReadKeeps
<1>2. ASSUME NEW t \in Tabs, ConnectLink(t) PROVE AccountInv'
  <2>1. /\ connect[t].pc = "link"
        /\ invited' \in {invited, invited \cup {connect[t].account}}
        /\ connect' = [connect EXCEPT ![t] = NoConnect]
        /\ UNCHANGED <<linked, enabled, onStripe, events, changes, reported, raced>>
    BY <1>2 DEF ConnectLink, userVars
  <2>2. connect[t].account \in Accounts /\ linked # NoAccount
    BY <2>1 DEF AccountInv, Carries
  <2>3. invited' \in SUBSET Accounts /\ onStripe' \in [Accounts -> {"none", "open", "enabled"}]
    BY <2>1, <2>2 DEF AccountInv, AccountTypeOK
  <2>4. GoesOn(t, NoConnect)
    BY <2>1 DEF GoesOn
  <2> QED BY <2>1, <2>2, <2>3, <2>4, GoesOnKeeps
<1>3. ASSUME NEW t \in Tabs, ConnectCreate(t) PROVE AccountInv'
  <2>1. connect[t].pc = "create"
        /\ UNCHANGED <<linked, enabled, invited, events, changes, reported, raced>>
    BY <1>3 DEF ConnectCreate, userVars
  <2>2. invited' \in SUBSET Accounts /\ onStripe \in [Accounts -> {"none", "open", "enabled"}]
    BY <2>1 DEF AccountInv, AccountTypeOK
  <2>3. CASE connect' = [connect EXCEPT ![t] = NoConnect] /\ UNCHANGED onStripe
    <3>1. GoesOn(t, NoConnect)
      BY <2>3 DEF GoesOn
    <3> QED BY <2>1, <2>2, <2>3, <3>1, GoesOnKeeps
  <2>4. ASSUME NEW a \in Accounts, onStripe' = [onStripe EXCEPT ![a] = "open"],
               connect' = [connect EXCEPT ![t] =
                             [pc |-> "invite", account |-> a, alone |-> connect[t].alone]]
        PROVE  AccountInv'
    <3>2. onStripe' \in [Accounts -> {"none", "open", "enabled"}]
      BY <2>2, <2>4
    <3>3. GoesOn(t, [pc |-> "invite", account |-> a, alone |-> connect[t].alone])
      BY <2>1, <2>4 DEF GoesOn, making
    <3> QED BY <2>1, <2>2, <3>2, <3>3, GoesOnKeeps
  <2> QED BY <1>3, <2>3, <2>4 DEF ConnectCreate
<1>4. ASSUME NEW t \in Tabs, ConnectInvite(t) PROVE AccountInv'
  <2>1. connect[t].pc = "invite"
        /\ UNCHANGED <<linked, enabled, onStripe, invited, events, changes, reported, raced>>
    BY <1>4 DEF ConnectInvite, userVars, stripeVars
  <2>2. /\ invited' \in SUBSET Accounts /\ onStripe' \in [Accounts -> {"none", "open", "enabled"}]
        /\ connect[t].account \in Accounts
    BY <2>1 DEF AccountInv, AccountTypeOK, Carries
  <2>3. CASE connect' = [connect EXCEPT ![t] = NoConnect]
    <3>1. GoesOn(t, NoConnect)
      BY <2>3 DEF GoesOn
    <3> QED BY <2>1, <2>2, <2>3, <3>1, GoesOnKeeps
  <2>4. CASE connect' = [connect EXCEPT ![t] = [connect[t] EXCEPT !.pc = "save"]]
    <3>1. [connect[t] EXCEPT !.pc = "save"]
            = [pc |-> "save", account |-> connect[t].account, alone |-> connect[t].alone]
      BY DEF AccountInv, AccountTypeOK
    <3>2. GoesOn(t, [pc |-> "save", account |-> connect[t].account, alone |-> connect[t].alone])
      BY <2>1, <2>2, <2>4, <3>1 DEF GoesOn, making
    <3> QED BY <2>1, <2>2, <3>2, GoesOnKeeps
  <2> QED BY <1>4, <2>3, <2>4 DEF ConnectInvite
<1>5. ASSUME NEW t \in Tabs, ConnectSave(t) PROVE AccountInv'
  BY <1>5, SaveKeeps
<1>6. ASSUME NEW a \in Accounts, AccountChanges(a) PROVE AccountInv'
  BY <1>6, ChangeKeeps
<1>7. ASSUME NEW e \in events, HandleAccountUpdated(e) PROVE AccountInv'
  BY <1>7, UpdateKeeps
<1> QED BY <1>1, <1>2, <1>3, <1>4, <1>5, <1>6, <1>7 DEF AccountNext

\* Earnings, withdrawals and the pages only read the account.
LEMMA AccountInductive == ASSUME AccountInv, [Next]_vars PROVE AccountInv'
<1>1. CASE AccountNext
  BY <1>1, AccountStep
<1>2. CASE Crash
  BY <1>2, RestartKeeps
<1>3. CASE UNCHANGED accountVars
  BY <1>3, AccountStutters
<1>4. AccountNext \/ Crash \/ UNCHANGED accountVars
  BY DEF Next, vars, Earn, EndEpisode, LoadSettings, LoadEarnings, DrawUser, DrawRead, DrawCreate,
         DrawTransfer, DrawDone, DrawFailed
<1> QED BY <1>1, <1>2, <1>3, <1>4

\* The types, and all that keeps the flag beside its account.
THEOREM AccountSafe == Spec => []AccountInv
<1>1. AccountInv /\ [Next]_vars => AccountInv'
  BY AccountInductive
<1> QED BY AccountInit, <1>1, PTL DEF Spec

\* While payouts are on, the account they go to is one that Stripe has reported
\* enabled, unless requests to connect have overlapped (payments.ts:99,
\* webhooks.ts:257).
THEOREM FlagOfAccount == Spec => []FlagIsOfAccount
<1>1. AccountInv => FlagIsOfAccount
  BY DEF AccountInv
<1> QED BY <1>1, AccountSafe, PTL

-----------------------------------------------------------------------------
(* Sums.                                                                   *)

\* A set that has every number after those it has.
LEMMA NatSteps ==
  ASSUME NEW W, 0 \in W, \A n \in Nat : n \in W => n + 1 \in W PROVE \A n \in Nat : n \in W
<1> DEFINE B == {n \in Nat : n \notin W}
           R == {ss \in Nat \X Nat : ss[1] < ss[2]}
<1>1. SUFFICES ASSUME B # {} PROVE FALSE
  OBVIOUS
<1>2. IsWellFoundedOn(R, Nat)
  BY NatLessThanWellFounded DEF OpToRel
<1>3. B \subseteq Nat
  OBVIOUS
<1> HIDE DEF R
<1>4. PICK n \in B : \A m \in B : ~(<<m, n>> \in R)
  <2> HIDE DEF B
  <2> QED BY <1>1, <1>2, <1>3, WFMin
<1>5. n \in Nat /\ n # 0 /\ n - 1 \in Nat /\ (n - 1) + 1 = n
  BY <1>4
<1>6. <<n - 1, n>> \in R
  BY <1>5 DEF R
<1>7. n - 1 \in W
  BY <1>4, <1>5, <1>6
<1> QED BY <1>4, <1>5, <1>7

\* A set of subsets of S that has T when it has all that one element less leaves.
LEMMA SetSteps ==
  ASSUME NEW S, IsFiniteSet(S), NEW W,
         \A T \in SUBSET S : (\A x \in T : T \ {x} \in W) => T \in W
  PROVE  S \in W
<1> DEFINE V == {n \in Nat : \A T \in SUBSET S : Cardinality(T) = n => T \in W}
<1>0. \A T \in SUBSET S : IsFiniteSet(T) /\ Cardinality(T) \in Nat
  BY FS_Subset, FS_CardinalityType
<1>1. 0 \in V
  BY <1>0, FS_EmptySet
<1>2. ASSUME NEW n \in Nat, n \in V PROVE n + 1 \in V
  <2> SUFFICES ASSUME NEW T \in SUBSET S, Cardinality(T) = n + 1, NEW x \in T
               PROVE  T \ {x} \in W
    OBVIOUS
  <2>1. Cardinality(T \ {x}) = n
    BY <1>0, FS_RemoveElement
  <2> QED BY <1>2, <2>1
<1> HIDE DEF V
<1>3. Cardinality(S) \in V
  BY <1>0, <1>1, <1>2, NatSteps
<1> QED BY <1>3 DEF V

\* The fold takes the chosen element and goes on with the others.
Chosen(s) == CHOOSE x \in s : TRUE

SumOf(f, S) == MapThenSumSet(LAMBDA r : f[r], S)

\* What the fold says of its value for s in terms of its other values.
Body(f, g, s) == IF s = {} THEN 0 ELSE f[Chosen(s)] + g[s \ {Chosen(s)}]

IsIter(f, S, g) == g = [s \in SUBSET S |-> Body(f, g, s)]

Iter(f, S) == CHOOSE g : IsIter(f, S, g)

\* The definition of the fold.
LEMMA SumIsIter == ASSUME NEW f, NEW S PROVE SumOf(f, S) = Iter(f, S)[S]
BY DEF SumOf, MapThenSumSet, MapThenFoldSet, Iter, IsIter, Body, Chosen

\* The recursion has a solution.
LEMMA IterExists == ASSUME NEW f, NEW S, IsFiniteSet(S) PROVE IsIter(f, S, Iter(f, S))
<1> DEFINE D(n) == {s \in SUBSET S : Cardinality(s) <= n}
           W == {n \in Nat : \E g : g = [s \in D(n) |-> Body(f, g, s)]}
<1>0. \A s \in SUBSET S : IsFiniteSet(s) /\ Cardinality(s) \in Nat
  BY FS_Subset, FS_CardinalityType
<1>c. \A s : s # {} => Chosen(s) \in s
  BY DEF Chosen
<1>1. 0 \in W
  <2> DEFINE g == [s \in D(0) |-> 0]
  <2>1. \A s \in D(0) : s = {}
    BY <1>0, FS_EmptySet
  <2>2. \A s \in D(0) : Body(f, g, s) = 0
    BY <2>1 DEF Body
  <2>3. g = [s \in D(0) |-> Body(f, g, s)]
    BY <2>2
  <2> QED BY <2>3
<1>2. ASSUME NEW n \in Nat, n \in W PROVE n + 1 \in W
  <2>1. PICK g : g = [s \in D(n) |-> Body(f, g, s)]
    BY <1>2
  <2> DEFINE h == [s \in D(n + 1) |-> Body(f, g, s)]
  <2>2. ASSUME NEW s \in D(n + 1), s # {}
        PROVE  s \ {Chosen(s)} \in D(n) /\ h[s \ {Chosen(s)}] = g[s \ {Chosen(s)}]
    <3>1. Cardinality(s \ {Chosen(s)}) = Cardinality(s) - 1 /\ s \ {Chosen(s)} \in SUBSET S
      BY <1>0, <1>c, <2>2, FS_RemoveElement
    <3>2. s \ {Chosen(s)} \in D(n) /\ s \ {Chosen(s)} \in D(n + 1)
      BY <1>0, <3>1
    <3> DEFINE t == s \ {Chosen(s)}
    <3>3. t \in D(n) /\ t \in D(n + 1)
      BY <3>2
    <3> HIDE DEF t
    <3>4. h[t] = g[t]
      BY <2>1, <3>3
    <3> QED BY <3>2, <3>4 DEF t
  <2>3. \A s \in D(n + 1) : Body(f, h, s) = Body(f, g, s)
    <3> HIDE DEF h
    <3> QED BY <2>2 DEF Body
  <2>4. h = [s \in D(n + 1) |-> Body(f, h, s)]
    <3>1. h = [s \in D(n + 1) |-> Body(f, g, s)]
      OBVIOUS
    <3> HIDE DEF h
    <3> QED BY <2>3, <3>1
  <2>5. \E k : k = [s \in D(n + 1) |-> Body(f, k, s)]
    <3> HIDE DEF h
    <3> QED BY <2>4
  <2>6. n + 1 \in Nat
    OBVIOUS
  <2> HIDE DEF h, D
  <2> QED BY <2>5, <2>6, Zenon
<1> HIDE DEF W
<1>3. Cardinality(S) \in Nat /\ Cardinality(S) \in W
  BY <1>0, <1>1, <1>2, NatSteps
<1>4. D(Cardinality(S)) = SUBSET S
  BY <1>0, FS_Subset
<1>5. \E g : IsIter(f, S, g)
  BY <1>3, <1>4 DEF W, IsIter
<1> QED BY <1>5 DEF Iter

\* A sum over part of a set does not depend on the set.
LEMMA IterOfPart ==
  ASSUME NEW f, NEW S, IsFiniteSet(S), NEW T \in SUBSET S
  PROVE  Iter(f, S)[T] = SumOf(f, T)
<1> DEFINE W == {U \in SUBSET S : \A V \in SUBSET S : U \subseteq V => Iter(f, V)[U] = SumOf(f, U)}
<1>1. ASSUME NEW U \in SUBSET S, \A x \in U : U \ {x} \in W PROVE U \in W
  <2> SUFFICES ASSUME NEW V \in SUBSET S, U \subseteq V PROVE Iter(f, V)[U] = SumOf(f, U)
    OBVIOUS
  <2>1. IsIter(f, V, Iter(f, V)) /\ IsIter(f, U, Iter(f, U))
    BY FS_Subset, IterExists
  <2>2. Iter(f, V)[U] = Body(f, Iter(f, V), U) /\ Iter(f, U)[U] = Body(f, Iter(f, U), U)
    BY <2>1 DEF IsIter
  <2>3. CASE U = {}
    BY <2>2, <2>3, SumIsIter DEF Body
  <2>4. CASE U # {}
    <3> DEFINE t == U \ {Chosen(U)}
    <3>1. Chosen(U) \in U
      BY <2>4 DEF Chosen
    <3>2. t \in W
      BY <1>1, <3>1
    <3>3. Iter(f, V)[t] = SumOf(f, t) /\ Iter(f, U)[t] = SumOf(f, t)
      BY <3>2
    <3> QED BY <2>2, <2>4, <3>3, SumIsIter DEF Body
  <2> QED BY <2>3, <2>4
<1> HIDE DEF W
<1>2. T \in W
  <2>1. \A U \in SUBSET T : (\A x \in U : U \ {x} \in W) => U \in W
    BY <1>1
  <2> QED BY <2>1, FS_Subset, SetSteps
<1> QED BY <1>2 DEF W

\* The recursion in terms of sums.
LEMMA SumSteps ==
  ASSUME NEW f, NEW S, IsFiniteSet(S)
  PROVE  /\ S = {} => SumOf(f, S) = 0
         /\ S # {} => Chosen(S) \in S /\ SumOf(f, S) = f[Chosen(S)] + SumOf(f, S \ {Chosen(S)})
<1>0. IsIter(f, S, Iter(f, S)) /\ S \in SUBSET S
  BY IterExists
<1>1. SumOf(f, S) = Body(f, Iter(f, S), S)
  BY <1>0, SumIsIter DEF IsIter
<1>2. Iter(f, S)[S \ {Chosen(S)}] = SumOf(f, S \ {Chosen(S)})
  BY IterOfPart
<1> QED BY <1>1, <1>2 DEF Body, Chosen

\* A sum of numbers is a number.
LEMMA SumIsNat ==
  ASSUME NEW f, NEW S, IsFiniteSet(S), \A x \in S : f[x] \in Nat PROVE SumOf(f, S) \in Nat
<1> DEFINE W == {T \in SUBSET S : SumOf(f, T) \in Nat}
<1>1. ASSUME NEW T \in SUBSET S, \A x \in T : T \ {x} \in W PROVE T \in W
  <2>0. IsFiniteSet(T)
    BY FS_Subset
  <2>1. CASE T = {}
    <3>1. SumOf(f, T) = 0
      BY <2>0, <2>1, SumSteps
    <3> QED BY <3>1
  <2>2. CASE T # {}
    <3>1. Chosen(T) \in T /\ SumOf(f, T) = f[Chosen(T)] + SumOf(f, T \ {Chosen(T)})
      BY <2>0, <2>2, SumSteps
    <3>2. SumOf(f, T \ {Chosen(T)}) \in Nat /\ f[Chosen(T)] \in Nat
      BY <1>1, <3>1
    <3> QED BY <3>1, <3>2
  <2> QED BY <2>1, <2>2
<1> HIDE DEF W
<1>2. S \in W
  BY <1>1, SetSteps
<1> QED BY <1>2 DEF W

\* Any element may be taken out first.
LEMMA SumWith ==
  ASSUME NEW f, NEW S, IsFiniteSet(S), \A x \in S : f[x] \in Nat, NEW x \in S
  PROVE  SumOf(f, S) = f[x] + SumOf(f, S \ {x})
<1> DEFINE W == {T \in SUBSET S : \A y \in T : SumOf(f, T) = f[y] + SumOf(f, T \ {y})}
<1>0. \A T \in SUBSET S : IsFiniteSet(T) /\ SumOf(f, T) \in Nat
  BY FS_Subset, SumIsNat
<1>1. ASSUME NEW T \in SUBSET S, \A y \in T : T \ {y} \in W PROVE T \in W
  <2> SUFFICES ASSUME NEW y \in T PROVE SumOf(f, T) = f[y] + SumOf(f, T \ {y})
    OBVIOUS
  <2> DEFINE c == Chosen(T)
  <2>1. c \in T /\ SumOf(f, T) = f[c] + SumOf(f, T \ {c})
    BY <1>0, SumSteps
  <2> HIDE DEF c
  <2>2. CASE c = y
    BY <2>1, <2>2
  <2>3. CASE c # y
    <3>1. T \ {c} \in W /\ T \ {y} \in W /\ y \in T \ {c} /\ c \in T \ {y}
      BY <1>1, <2>1, <2>3
    <3>2. SumOf(f, T \ {c}) = f[y] + SumOf(f, (T \ {c}) \ {y})
      BY <3>1
    <3>3. SumOf(f, T \ {y}) = f[c] + SumOf(f, (T \ {y}) \ {c})
      BY <3>1
    <3>4. (T \ {c}) \ {y} = (T \ {y}) \ {c} /\ (T \ {y}) \ {c} \in SUBSET S
      OBVIOUS
    <3>5. f[c] \in Nat /\ f[y] \in Nat /\ SumOf(f, (T \ {y}) \ {c}) \in Nat
      BY <1>0, <2>1, <3>4
    <3> QED BY <2>1, <3>2, <3>3, <3>4, <3>5
  <2> QED BY <2>2, <2>3
<1> HIDE DEF W
<1>2. S \in W
  BY <1>1, SetSteps
<1> QED BY <1>2 DEF W

\* Only the values on the set matter.
LEMMA SumSame ==
  ASSUME NEW f, NEW g, NEW S, IsFiniteSet(S), \A x \in S : f[x] = g[x]
  PROVE  SumOf(f, S) = SumOf(g, S)
<1> DEFINE W == {T \in SUBSET S : SumOf(f, T) = SumOf(g, T)}
<1>1. ASSUME NEW T \in SUBSET S, \A x \in T : T \ {x} \in W PROVE T \in W
  <2>0. IsFiniteSet(T)
    BY FS_Subset
  <2>1. CASE T = {}
    BY <2>0, <2>1, SumSteps
  <2>2. CASE T # {}
    <3> DEFINE c == Chosen(T)
    <3>1. /\ c \in T
          /\ SumOf(f, T) = f[c] + SumOf(f, T \ {c})
          /\ SumOf(g, T) = g[c] + SumOf(g, T \ {c})
      BY <2>0, <2>2, SumSteps
    <3>2. SumOf(f, T \ {c}) = SumOf(g, T \ {c}) /\ f[c] = g[c]
      BY <1>1, <3>1
    <3> QED BY <3>1, <3>2
  <2> QED BY <2>1, <2>2
<1> HIDE DEF W
<1>2. S \in W
  BY <1>1, SetSteps
<1> QED BY <1>2 DEF W

\* Part of a sum.
LEMMA SumOfPart ==
  ASSUME NEW f, NEW S, IsFiniteSet(S), \A x \in S : f[x] \in Nat, NEW T \in SUBSET S
  PROVE  SumOf(f, T) <= SumOf(f, S)
<1> DEFINE W == {U \in SUBSET S : T \subseteq U => SumOf(f, T) <= SumOf(f, U)}
<1>0. \A U \in SUBSET S : IsFiniteSet(U) /\ SumOf(f, U) \in Nat
  BY FS_Subset, SumIsNat
<1>1. ASSUME NEW U \in SUBSET S, \A x \in U : U \ {x} \in W PROVE U \in W
  <2>1. CASE U = T
    BY <1>0, <2>1
  <2>2. ASSUME NEW x \in U, x \notin T PROVE U \in W
    <3>1. SumOf(f, U) = f[x] + SumOf(f, U \ {x})
      BY <1>0, SumWith
    <3>2. T \subseteq U => SumOf(f, T) <= SumOf(f, U \ {x})
      BY <1>1, <2>2
    <3>3. SumOf(f, T) \in Nat /\ SumOf(f, U) \in Nat /\ SumOf(f, U \ {x}) \in Nat /\ f[x] \in Nat
      BY <1>0
    <3> QED BY <3>1, <3>2, <3>3
  <2> QED BY <2>1, <2>2
<1> HIDE DEF W
<1>2. S \in W
  BY <1>1, SetSteps
<1> QED BY <1>2 DEF W

\* One more element.
LEMMA SumPlus ==
  ASSUME NEW f, NEW S, IsFiniteSet(S), NEW x, x \notin S, \A y \in S \cup {x} : f[y] \in Nat
  PROVE  SumOf(f, S \cup {x}) = f[x] + SumOf(f, S)
<1> DEFINE U == S \cup {x}
<1>1. IsFiniteSet(U) /\ x \in U /\ U \ {x} = S
  BY FS_AddElement
<1>2. \A y \in U : f[y] \in Nat
  OBVIOUS
<1> HIDE DEF U
<1>3. SumOf(f, U) = f[x] + SumOf(f, U \ {x})
  BY <1>1, <1>2, SumWith
<1> QED BY <1>1, <1>3 DEF U

\* What the solver does not find on its own in a larger goal.
LEMMA Distribute == ASSUME NEW a \in Int, NEW x \in Int, NEW y \in Int
  PROVE  a * (x + y) = a * x + a * y /\ (x + y) * a = x * a + y * a /\ a * x \in Int
OBVIOUS

\* When two functions are within d of each other, element by element, after one
\* is scaled by a and the other by b, so are their sums, d for each element.
LEMMA SumDrift ==
  ASSUME NEW f, NEW g, NEW S, IsFiniteSet(S), NEW a \in Nat, NEW b \in Nat, NEW d \in Nat,
         \A x \in S : f[x] \in Nat /\ g[x] \in Nat /\ a * f[x] - b * g[x] \in -d .. d
  PROVE  a * SumOf(f, S) - b * SumOf(g, S) \in -(d * Cardinality(S)) .. d * Cardinality(S)
<1> DEFINE Near(T) == a * SumOf(f, T) - b * SumOf(g, T) \in -(d * Cardinality(T)) .. d * Cardinality(T)
           W == {T \in SUBSET S : Near(T)}
<1>0. \A T \in SUBSET S : /\ IsFiniteSet(T) /\ Cardinality(T) \in Nat
                          /\ SumOf(f, T) \in Nat /\ SumOf(g, T) \in Nat
  BY FS_Subset, FS_CardinalityType, SumIsNat
<1>1. ASSUME NEW T \in SUBSET S, \A x \in T : T \ {x} \in W PROVE T \in W
  <2>1. CASE T = {}
    <3>1. SumOf(f, T) = 0 /\ SumOf(g, T) = 0 /\ Cardinality(T) = 0
      BY <1>0, <2>1, SumSteps, FS_EmptySet
    <3>2. a * 0 = 0 /\ b * 0 = 0 /\ d * 0 = 0
      OBVIOUS
    <3>3. a * 0 - b * 0 \in -(d * 0) .. d * 0
      BY <3>2
    <3>4. Near(T)
      BY <3>1, <3>3
    <3> QED BY <3>4
  <2>2. CASE T # {}
    <3>1. PICK x \in T : TRUE
      BY <2>2
    <3> DEFINE U == T \ {x}
    <3>2. U \in SUBSET S /\ Near(U)
      BY <1>1, <3>1
    <3>3. /\ SumOf(f, T) = f[x] + SumOf(f, U)
          /\ SumOf(g, T) = g[x] + SumOf(g, U)
      BY <1>0, SumWith
    <3>4. Cardinality(U) = Cardinality(T) - 1
      BY <1>0, <3>1, FS_RemoveElement
    <3> HIDE DEF U
    <3> DEFINE p == SumOf(f, U)
               q == SumOf(g, U)
               k == Cardinality(U)
    <3>5. p \in Nat /\ q \in Nat /\ k \in Nat /\ Cardinality(T) = k + 1
      BY <1>0, <3>2, <3>4
    <3>6. a * p - b * q \in -(d * k) .. d * k
      BY <3>2
    <3> HIDE DEF p, q, k
    <3>7. f[x] \in Nat /\ g[x] \in Nat /\ a * f[x] - b * g[x] \in -d .. d
      BY <3>1
    <3>8. /\ a * (f[x] + p) = a * f[x] + a * p
          /\ b * (g[x] + q) = b * g[x] + b * q
          /\ d * (k + 1) = d * k + d
      BY <3>5, <3>7, Distribute
    <3>9. /\ a * f[x] \in Int /\ a * p \in Int /\ b * g[x] \in Int /\ b * q \in Int /\ d * k \in Int
      BY <3>5, <3>7
    <3>10. a * (f[x] + p) - b * (g[x] + q) \in -(d * (k + 1)) .. d * (k + 1)
      BY <3>6, <3>7, <3>8, <3>9
    <3>11. Near(T)
      BY <3>3, <3>5, <3>10 DEF p, q
    <3> QED BY <3>11
  <2> QED BY <2>1, <2>2
<1> HIDE DEF W
<1>2. S \in W
  BY <1>1, SetSteps
<1> QED BY <1>2 DEF W

\* A sum of at most m for each element.
LEMMA SumAtMost ==
  ASSUME NEW f, NEW S, IsFiniteSet(S), NEW m \in Nat, \A x \in S : f[x] \in Nat /\ f[x] <= m
  PROVE  SumOf(f, S) <= Cardinality(S) * m
<1> DEFINE W == {T \in SUBSET S : SumOf(f, T) <= Cardinality(T) * m}
<1>0. \A T \in SUBSET S : IsFiniteSet(T) /\ Cardinality(T) \in Nat /\ SumOf(f, T) \in Nat
  BY FS_Subset, FS_CardinalityType, SumIsNat
<1>1. ASSUME NEW T \in SUBSET S, \A x \in T : T \ {x} \in W PROVE T \in W
  <2>1. CASE T = {}
    <3>1. SumOf(f, T) = 0 /\ Cardinality(T) = 0
      BY <1>0, <2>1, SumSteps, FS_EmptySet
    <3> QED BY <3>1
  <2>2. CASE T # {}
    <3>1. PICK x \in T : TRUE
      BY <2>2
    <3> DEFINE U == T \ {x}
    <3>2. U \in SUBSET S /\ SumOf(f, U) <= Cardinality(U) * m
      BY <1>1, <3>1
    <3>3. SumOf(f, T) = f[x] + SumOf(f, U)
      BY <1>0, SumWith
    <3>4. Cardinality(U) = Cardinality(T) - 1
      BY <1>0, <3>1, FS_RemoveElement
    <3> HIDE DEF U
    <3> DEFINE k == Cardinality(U)
    <3>5. SumOf(f, U) \in Nat /\ k \in Nat /\ Cardinality(T) = k + 1
      BY <1>0, <3>2, <3>4
    <3>6. (k + 1) * m = k * m + m /\ k * m \in Nat
      BY <3>5, Distribute
    <3>7. SumOf(f, U) <= k * m /\ f[x] \in Nat /\ f[x] <= m
      BY <3>1, <3>2
    <3> HIDE DEF k
    <3> QED BY <3>3, <3>5, <3>6, <3>7
  <2> QED BY <2>1, <2>2
<1> HIDE DEF W
<1>2. S \in W
  BY <1>1, SetSteps
<1> QED BY <1>2 DEF W

\* A sum over two sets that have nothing in common.
LEMMA SumSplit ==
  ASSUME NEW f, NEW S, NEW T, IsFiniteSet(S), IsFiniteSet(T), S \cap T = {},
         \A x \in S \cup T : f[x] \in Nat
  PROVE  SumOf(f, S \cup T) = SumOf(f, S) + SumOf(f, T)
<1> DEFINE W == {U \in SUBSET T : SumOf(f, S \cup U) = SumOf(f, S) + SumOf(f, U)}
<1>0. \A U \in SUBSET T : IsFiniteSet(U) /\ IsFiniteSet(S \cup U) /\ SumOf(f, U) \in Nat
  <2> SUFFICES ASSUME NEW U \in SUBSET T
               PROVE  IsFiniteSet(U) /\ IsFiniteSet(S \cup U) /\ SumOf(f, U) \in Nat
    OBVIOUS
  <2>1. IsFiniteSet(U)
    BY FS_Subset
  <2> QED BY <2>1, FS_Union, SumIsNat
<1>a. SumOf(f, S) \in Nat
  BY SumIsNat
<1>1. ASSUME NEW U \in SUBSET T, \A x \in U : U \ {x} \in W PROVE U \in W
  <2>1. CASE U = {}
    <3>1. SumOf(f, U) = 0 /\ S \cup U = S
      BY <1>0, <2>1, SumSteps
    <3>2. SumOf(f, S \cup U) = SumOf(f, S) + SumOf(f, U)
      BY <1>a, <3>1
    <3> QED BY <3>2
  <2>2. ASSUME NEW x \in U PROVE U \in W
    <3> DEFINE V == S \cup (U \ {x})
    <3>1. SumOf(f, V) = SumOf(f, S) + SumOf(f, U \ {x})
      BY <1>1, <2>2
    <3>2. SumOf(f, U) = f[x] + SumOf(f, U \ {x})
      <4>1. IsFiniteSet(U) /\ x \in U /\ \A y \in U : f[y] \in Nat
        BY <1>0
      <4> QED BY <4>1, SumWith
    <3>3. IsFiniteSet(V) /\ x \notin V /\ S \cup U = V \cup {x} /\ \A y \in V \cup {x} : f[y] \in Nat
      BY <1>0
    <3>4. SumOf(f, U \ {x}) \in Nat /\ f[x] \in Nat
      BY <1>0
    <3> HIDE DEF V
    <3>5. SumOf(f, S \cup U) = f[x] + SumOf(f, V)
      BY <3>3, SumPlus
    <3>6. SumOf(f, S \cup U) = SumOf(f, S) + SumOf(f, U)
      BY <1>a, <3>1, <3>2, <3>4, <3>5
    <3> QED BY <3>6
  <2> QED BY <2>1, <2>2
<1> HIDE DEF W
<1>2. T \in W
  BY <1>1, SetSteps
<1> QED BY <1>2 DEF W

\* Larger elements, larger sum.
LEMMA SumGrows ==
  ASSUME NEW f, NEW g, NEW S, IsFiniteSet(S),
         \A x \in S : f[x] \in Nat /\ g[x] \in Nat /\ f[x] <= g[x]
  PROVE  SumOf(f, S) <= SumOf(g, S)
<1> DEFINE W == {T \in SUBSET S : SumOf(f, T) <= SumOf(g, T)}
<1>0. \A T \in SUBSET S : IsFiniteSet(T) /\ SumOf(f, T) \in Nat /\ SumOf(g, T) \in Nat
  BY FS_Subset, SumIsNat
<1>1. ASSUME NEW T \in SUBSET S, \A x \in T : T \ {x} \in W PROVE T \in W
  <2>1. CASE T = {}
    <3>1. SumOf(f, T) = 0 /\ SumOf(g, T) = 0
      BY <1>0, <2>1, SumSteps
    <3>2. SumOf(f, T) <= SumOf(g, T)
      BY <3>1
    <3> QED BY <3>2
  <2>2. ASSUME NEW x \in T PROVE T \in W
    <3>1. SumOf(f, T) = f[x] + SumOf(f, T \ {x}) /\ SumOf(g, T) = g[x] + SumOf(g, T \ {x})
      BY <1>0, SumWith
    <3>2. SumOf(f, T \ {x}) <= SumOf(g, T \ {x})
      BY <1>1, <2>2
    <3>3. /\ SumOf(f, T \ {x}) \in Nat /\ SumOf(g, T \ {x}) \in Nat
          /\ f[x] \in Nat /\ g[x] \in Nat /\ f[x] <= g[x]
      BY <1>0
    <3>4. SumOf(f, T) <= SumOf(g, T)
      BY <3>1, <3>2, <3>3
    <3> QED BY <3>4
  <2> QED BY <2>1, <2>2
<1> HIDE DEF W
<1>2. S \in W
  BY <1>1, SetSteps
<1> QED BY <1>2 DEF W

-----------------------------------------------------------------------------
(* The fee.                                                                *)

\* Math.round is off by half a unit at most.
LEMMA RoundIs ==
  ASSUME NEW n \in Nat, NEW d \in Nat \ {0}
  PROVE  /\ Round(n, d) \in Nat
         /\ 2 * d * Round(n, d) <= 2 * n + d /\ 2 * n + d < 2 * d * Round(n, d) + 2 * d
<1> DEFINE q == (2 * n + d) \div (2 * d)
<1>1. 2 * n + d \in Nat /\ 2 * d \in Nat \ {0}
  OBVIOUS
<1>2. q \in Nat /\ (2 * d) * q <= 2 * n + d /\ 2 * n + d < (2 * d) * q + 2 * d
  <2> SUFFICES ASSUME NEW a \in Nat, NEW b \in Nat \ {0}
               PROVE  a \div b \in Nat /\ b * (a \div b) <= a /\ a < b * (a \div b) + b
    BY <1>1
  <2> QED OBVIOUS
<1> QED BY <1>2 DEF Round

\* What is left after the fee.
LEMMA PayoutIs ==
  ASSUME NEW a \in Nat
  PROVE  /\ StreamerPayout(a) \in Nat
         /\ 200 * StreamerPayout(a) - 2 * (100 - FeePercent) * a \in -100 .. 100
<1>1. FeePercent \in 0 .. 99 /\ a * FeePercent \in Nat /\ a * FeePercent <= 99 * a
  BY WithdrawalAssumption
<1> DEFINE fee == Round(a * FeePercent, 100)
<1>2. /\ fee \in Nat /\ 200 * fee <= 2 * (a * FeePercent) + 100
      /\ 2 * (a * FeePercent) + 100 < 200 * fee + 200
  BY <1>1, RoundIs
<1> HIDE DEF fee
<1>3. StreamerPayout(a) = a - fee
  BY DEF StreamerPayout, PlatformFee, fee
<1>4. 2 * (100 - FeePercent) * a = 200 * a - 2 * (a * FeePercent)
  BY <1>1
<1> QED BY <1>1, <1>2, <1>3, <1>4

\* More earnings leave no less.
LEMMA PayoutGrows ==
  ASSUME NEW a \in Nat, NEW b \in Nat PROVE StreamerPayout(a) <= StreamerPayout(a + b)
<1>1. /\ FeePercent \in 0 .. 99 /\ a * FeePercent \in Nat
      /\ b * FeePercent \in Nat /\ b * FeePercent <= 99 * b
      /\ (a + b) * FeePercent = a * FeePercent + b * FeePercent
  BY WithdrawalAssumption
<1> DEFINE p == Round(a * FeePercent, 100)
           q == Round((a + b) * FeePercent, 100)
<1>0. (a + b) * FeePercent \in Nat
  BY <1>1
<1>2. /\ p \in Nat /\ 2 * (a * FeePercent) + 100 < 200 * p + 200
      /\ q \in Nat /\ 200 * q <= 2 * ((a + b) * FeePercent) + 100
  <2>1. /\ p \in Nat /\ 2 * (a * FeePercent) + 100 < 2 * 100 * p + 2 * 100
    BY <1>1, RoundIs
  <2>2. q \in Nat /\ 2 * 100 * q <= 2 * ((a + b) * FeePercent) + 100
    BY <1>0, RoundIs
  <2> HIDE DEF p, q
  <2> QED BY <2>1, <2>2
<1> HIDE DEF p, q
<1>3. StreamerPayout(a) = a - p
  BY DEF StreamerPayout, PlatformFee, p
<1>5. StreamerPayout(a + b) = (a + b) - q
  BY DEF StreamerPayout, PlatformFee, q
<1>4. 200 * q <= 200 * p + 199 + 198 * b
  BY <1>1, <1>2
<1> QED BY <1>2, <1>3, <1>4, <1>5

-----------------------------------------------------------------------------
(* The ledger.                                                             *)

\* The calls of a request that holds a row.
Paying == {"draw_transfer", "draw_done", "draw_failed"}

\* A row that a request holds is in processing with its amount, and nobody
\* else's.
RowsHeld ==
  \A w \in Tabs : pc[w] \in Paying =>
     /\ loc[w].row \in Rows
     /\ state[loc[w].row] = "processing" /\ net[loc[w].row] = loc[w].amount
     /\ \A v \in Tabs \ {w} : pc[v] \in Paying => loc[v].row # loc[w].row

Counted == {r \in Rows : state[r] \in {"completed", "processing"}}

\* A row that is counted has the gross amount of its net one.
GrossOnRow == \A r \in Counted : gross[r] = GrossOf(net[r])

\* Rows whose money has not been moved yet, or was and is booked as misfiled.
Held == {loc[w].row : w \in {v \in Tabs : pc[v] \in {"draw_transfer", "draw_failed"}}}

Settled == Counted \ Held

\* The rows that nobody is about to pay or to file as failed cover what was moved.
Covered == transferred <= SumOf(net, Settled) + misfiled

\* What the requests are about to write on a row.
Pending == [w \in Tabs |-> IF pc[w] = "draw_create" THEN loc[w].amount ELSE 0]

\* A request takes at most the earnings, and so do all of them together, once
\* for each tab.
Balanced ==
  /\ \A w \in Tabs : Pending[w] <= StreamerPayout(revenue)
  /\ SumOf(net, Counted) + SumOf(Pending, Tabs) <= Cardinality(Tabs) * StreamerPayout(revenue)

Labels == {"idle", "draw_read", "draw_create"} \cup Paying

Requests == [row : Rows \cup {Null}, amount : Nat, account : Accounts \cup {NoAccount}]

RowsInv == TypeOK /\ RowsHeld /\ GrossOnRow

-----------------------------------------------------------------------------
(* The rows.                                                               *)

\* What a request that goes on changes.
LEMMA GotoDoes ==
  ASSUME TypeOK, NEW w \in Tabs, NEW label \in Labels, NEW l \in Requests, Goto(w, label, l)
  PROVE  /\ pc' \in [Tabs -> Labels] /\ loc' \in [Tabs -> Requests]
         /\ pc'[w] = label /\ loc'[w] = l
         /\ \A v \in Tabs \ {w} : pc'[v] = pc[v] /\ loc'[v] = loc[v]
<1>1. pc \in [Tabs -> Labels] /\ loc \in [Tabs -> Requests]
  BY DEF TypeOK, Labels, Paying, Requests
<1> QED BY <1>1 DEF Goto

\* What a request that ends changes.
LEMMA AnswerDoes ==
  ASSUME TypeOK, NEW w \in Tabs, Answer(w)
  PROVE  /\ pc' \in [Tabs -> Labels] /\ loc' \in [Tabs -> Requests]
         /\ pc'[w] = "idle"
         /\ \A v \in Tabs \ {w} : pc'[v] = pc[v] /\ loc'[v] = loc[v]
<1>1. NoRequest \in Requests /\ "idle" \in Labels
  BY DEF NoRequest, Requests, Labels
<1> QED BY <1>1, GotoDoes DEF Answer

\* Sums over the rows are numbers.
LEMMA TotalsAreNat ==
  ASSUME TypeOK
  PROVE  /\ IsFiniteSet(Rows) /\ IsFiniteSet(Counted) /\ IsFiniteSet(Settled)
         /\ SumOf(net, Counted) \in Nat /\ SumOf(net, Settled) \in Nat /\ SumOf(gross, Counted) \in Nat
<1>1. IsFiniteSet(Rows) /\ Counted \in SUBSET Rows /\ Settled \in SUBSET Rows
  BY WithdrawalAssumption DEF Counted, Settled
<1>2. IsFiniteSet(Counted) /\ IsFiniteSet(Settled)
  BY <1>1, FS_Subset
<1>3. \A r \in Rows : net[r] \in Nat /\ gross[r] \in Nat
  BY DEF TypeOK
<1>4. \A r \in Counted : net[r] \in Nat /\ gross[r] \in Nat
  BY <1>1, <1>3
<1>5. \A r \in Settled : net[r] \in Nat
  BY <1>1, <1>3
<1> QED BY <1>1, <1>2, <1>4, <1>5, SumIsNat

\* What is left is a number, and together with the counted rows the payout.
LEMMA AvailableIs ==
  ASSUME TypeOK
  PROVE  Available \in Int /\ Available + SumOf(net, Counted) = StreamerPayout(revenue)
<1> DEFINE C == {r \in Rows : state[r] \in {"completed"}}
           P == {r \in Rows : state[r] \in {"processing"}}
<1>1. IsFiniteSet(C) /\ IsFiniteSet(P)
  BY WithdrawalAssumption, FS_Subset
<1>2. C \cap P = {} /\ C \cup P = Counted /\ \A r \in C \cup P : net[r] \in Nat
  BY DEF Counted, TypeOK
<1>3. SumOf(net, C) \in Nat /\ SumOf(net, P) \in Nat
  BY <1>1, <1>2, SumIsNat
<1>4. Total(net, {"completed"}) = SumOf(net, C) /\ Total(net, {"processing"}) = SumOf(net, P)
  BY DEF Total, SumOf
<1> HIDE DEF C, P
<1>5. SumOf(net, Counted) = SumOf(net, C) + SumOf(net, P)
  BY <1>1, <1>2, SumSplit
<1>6. StreamerPayout(revenue) \in Nat
  BY PayoutIs DEF TypeOK
<1> QED BY <1>3, <1>4, <1>5, <1>6 DEF Available

\* There are no rows yet.
LEMMA RowsInit == Init => RowsInv
<1> SUFFICES ASSUME Init PROVE RowsInv
  OBVIOUS
<1>1. TypeOK
  <2>1. AccountTypeOK
    BY AccountInit DEF AccountInv
  <2>2. loc \in [Tabs -> [row : Rows \cup {Null}, amount : Nat, account : Accounts \cup {NoAccount}]]
    BY DEF Init, NoRequest
  <2>3. view \in [Tabs -> [ready : BOOLEAN, can : BOOLEAN]]
    BY DEF Init, NoView
  <2> QED BY <2>1, <2>2, <2>3 DEF Init, TypeOK
<1>2. RowsHeld /\ GrossOnRow
  BY DEF Init, RowsHeld, GrossOnRow, Paying, Counted
<1> QED BY <1>1, <1>2 DEF RowsInv

\* A step that leaves the rows and the requests alone.
LEMMA RowsStutter ==
  ASSUME RowsInv, TypeOK', UNCHANGED <<state, net, gross, pc, loc>> PROVE RowsInv'
BY DEF RowsInv, RowsHeld, GrossOnRow, Counted

\* A request that holds no row, before or after, comes or goes.
LEMMA RowsPass ==
  ASSUME RowsInv, TypeOK', NEW w \in Tabs, UNCHANGED <<state, net, gross>>, pc'[w] \notin Paying,
         \A v \in Tabs \ {w} : pc'[v] = pc[v] /\ loc'[v] = loc[v]
  PROVE  RowsInv'
<1>1. RowsHeld'
  BY DEF RowsInv, RowsHeld
<1> QED BY <1>1 DEF RowsInv, GrossOnRow, Counted

\* Rows are made by the request that holds them and settled by it alone.
LEMMA RowsStep == ASSUME RowsInv, AccountInv', [Next]_vars PROVE RowsInv'
<1>0. TypeOK /\ AccountTypeOK'
  BY DEF RowsInv, AccountInv
<1> USE DEF episodeVars, moneyVars, rowVars
<1>1. CASE Earn
  <2>1. revenue' \in Nat
    BY <1>0, <1>1, WithdrawalAssumption DEF Earn, TypeOK
  <2>2. TypeOK'
    BY <1>0, <1>1, <2>1 DEF Earn, TypeOK
  <2> QED BY <1>1, <2>2, RowsStutter DEF Earn
<1>2. CASE EndEpisode
  <2>1. TypeOK'
    BY <1>0, <1>2 DEF EndEpisode, TypeOK
  <2> QED BY <1>2, <2>1, RowsStutter DEF EndEpisode
<1>3. CASE AccountNext /\ UNCHANGED <<episodeVars, moneyVars, view, pc, loc, faults>>
  <2>1. TypeOK'
    BY <1>0, <1>3 DEF TypeOK
  <2> QED BY <1>3, <2>1, RowsStutter
<1>4. CASE UNCHANGED vars
  <2>1. TypeOK'
    BY <1>0, <1>4 DEF TypeOK, vars
  <2> QED BY <1>4, <2>1, RowsStutter DEF vars
<1>5. CASE Crash
  <2>1. /\ pc' = [w \in Tabs |-> "idle"] /\ loc' = [w \in Tabs |-> NoRequest]
        /\ UNCHANGED <<episodeVars, moneyVars, view>> /\ faults' \in Nat
    BY <1>0, <1>5 DEF Crash, Fault, TypeOK
  <2>2. loc' \in [Tabs -> [row : Rows \cup {Null}, amount : Nat, account : Accounts \cup {NoAccount}]]
    BY <2>1 DEF NoRequest
  <2>3. TypeOK'
    BY <1>0, <2>1, <2>2 DEF TypeOK
  <2>4. RowsHeld'
    BY <2>1 DEF RowsHeld, Paying
  <2> QED BY <2>1, <2>3, <2>4 DEF RowsInv, GrossOnRow, Counted
<1>6. ASSUME NEW w \in Tabs, LoadSettings(w) \/ LoadEarnings(w) PROVE RowsInv'
  <2>1. UNCHANGED <<episodeVars, moneyVars, pc, loc, faults>>
    BY <1>6 DEF LoadSettings, LoadEarnings
  <2>2. view' \in [Tabs -> [ready : BOOLEAN, can : BOOLEAN]]
    <3>1. CASE LoadSettings(w)
      <4>1. PICK live \in BOOLEAN : view' = [view EXCEPT ![w].ready = live \/ enabled]
        BY <3>1 DEF LoadSettings
      <4>2. (live \/ enabled) \in BOOLEAN /\ view \in [Tabs -> [ready : BOOLEAN, can : BOOLEAN]]
        BY <1>0 DEF TypeOK
      <4> QED BY <4>1, <4>2
    <3>2. CASE LoadEarnings(w)
      <4>1. view' = [view EXCEPT ![w].can = ended /\ Available > 0]
        BY <3>2 DEF LoadEarnings
      <4>2. (ended /\ Available > 0) \in BOOLEAN /\ view \in [Tabs -> [ready : BOOLEAN, can : BOOLEAN]]
        BY <1>0 DEF TypeOK
      <4> QED BY <4>1, <4>2
    <3> QED BY <1>6, <3>1, <3>2
  <2>3. TypeOK'
    BY <1>0, <2>1, <2>2 DEF TypeOK
  <2> QED BY <2>1, <2>3, RowsStutter
<1>7. ASSUME NEW w \in Tabs, DrawUser(w) PROVE RowsInv'
  <2>1. UNCHANGED <<episodeVars, moneyVars, view, faults>>
    BY <1>7 DEF DrawUser
  <2>2. /\ pc' \in [Tabs -> Labels] /\ loc' \in [Tabs -> Requests] /\ pc'[w] \notin Paying
        /\ \A v \in Tabs \ {w} : pc'[v] = pc[v] /\ loc'[v] = loc[v]
    <3>1. CASE Answer(w)
      BY <1>0, <3>1, AnswerDoes DEF Paying
    <3>2. CASE Goto(w, "draw_read", [NoRequest EXCEPT !.account = linked])
      <4>1. [NoRequest EXCEPT !.account = linked] \in Requests /\ "draw_read" \in Labels
        BY <1>0 DEF NoRequest, Requests, Labels, TypeOK, AccountTypeOK
      <4> QED BY <1>0, <3>2, <4>1, GotoDoes DEF Paying
    <3> QED BY <1>7, <3>1, <3>2 DEF DrawUser
  <2>3. TypeOK'
    BY <1>0, <2>1, <2>2 DEF TypeOK, Labels, Paying, Requests
  <2> QED BY <2>1, <2>2, <2>3, RowsPass
<1>8. ASSUME NEW w \in Tabs, DrawRead(w) PROVE RowsInv'
  <2>1. UNCHANGED <<episodeVars, moneyVars, view, faults>>
    BY <1>8 DEF DrawRead
  <2>2. /\ pc' \in [Tabs -> Labels] /\ loc' \in [Tabs -> Requests] /\ pc'[w] \notin Paying
        /\ \A v \in Tabs \ {w} : pc'[v] = pc[v] /\ loc'[v] = loc[v]
    <3>1. CASE Answer(w)
      BY <1>0, <3>1, AnswerDoes DEF Paying
    <3>2. CASE Available > 0 /\ Goto(w, "draw_create", [loc[w] EXCEPT !.amount = Available])
      <4>1. Available \in Nat
        BY <1>0, <3>2, AvailableIs
      <4>2. [loc[w] EXCEPT !.amount = Available] \in Requests /\ "draw_create" \in Labels
        BY <1>0, <4>1 DEF Requests, Labels, TypeOK
      <4> QED BY <1>0, <3>2, <4>2, GotoDoes DEF Paying
    <3> QED BY <1>8, <3>1, <3>2 DEF DrawRead
  <2>3. TypeOK'
    BY <1>0, <2>1, <2>2 DEF TypeOK, Labels, Paying, Requests
  <2> QED BY <2>1, <2>2, <2>3, RowsPass
<1>9. ASSUME NEW w \in Tabs, DrawCreate(w) PROVE RowsInv'
  <2>1. pc[w] = "draw_create" /\ UNCHANGED <<ended, revenue, paid, transferred, misfiled, view, faults>>
    BY <1>9 DEF DrawCreate
  <2>2. CASE Answer(w) /\ UNCHANGED rowVars
    <3>1. /\ pc' \in [Tabs -> Labels] /\ loc' \in [Tabs -> Requests] /\ pc'[w] \notin Paying
          /\ \A v \in Tabs \ {w} : pc'[v] = pc[v] /\ loc'[v] = loc[v]
      BY <1>0, <2>2, AnswerDoes DEF Paying
    <3>2. TypeOK'
      BY <1>0, <2>1, <2>2, <3>1 DEF TypeOK, Labels, Paying, Requests
    <3> QED BY <2>2, <3>1, <3>2, RowsPass
  <2>3. CASE ~(Answer(w) /\ UNCHANGED rowVars)
    <3>1. PICK r \in Unused :
            /\ state' = [state EXCEPT ![r] = "processing"]
            /\ net' = [net EXCEPT ![r] = loc[w].amount]
            /\ gross' = [gross EXCEPT ![r] = GrossOf(loc[w].amount)]
            /\ Goto(w, "draw_transfer", [loc[w] EXCEPT !.row = r])
      BY <1>9, <2>3 DEF DrawCreate
    <3>2. r \in Rows /\ state[r] = "none"
      BY DEF Unused
    <3>3. [loc[w] EXCEPT !.row = r] \in Requests /\ "draw_transfer" \in Labels
      BY <1>0, <3>2 DEF Requests, Labels, Paying, TypeOK
    <3>4. /\ pc' \in [Tabs -> Labels] /\ loc' \in [Tabs -> Requests] /\ pc'[w] = "draw_transfer"
          /\ loc'[w] = [loc[w] EXCEPT !.row = r]
          /\ \A v \in Tabs \ {w} : pc'[v] = pc[v] /\ loc'[v] = loc[v]
      BY <1>0, <3>1, <3>3, GotoDoes
    <3>5. loc[w].amount \in Nat /\ GrossOf(loc[w].amount) \in Nat
      <4>1. loc[w].amount \in Nat
        BY <1>0 DEF TypeOK
      <4>2. loc[w].amount * 100 \in Nat /\ 100 - FeePercent \in Nat \ {0}
        BY <4>1, WithdrawalAssumption
      <4> QED BY <4>1, <4>2, RoundIs DEF GrossOf
    <3>6. TypeOK'
      BY <1>0, <2>1, <3>1, <3>2, <3>4, <3>5 DEF TypeOK, Labels, Paying, Requests
    <3>7. loc'[w].row = r /\ loc'[w].amount = loc[w].amount
      BY <1>0, <3>4 DEF TypeOK
    <3>8. RowsHeld'
      BY <1>0, <3>1, <3>2, <3>4, <3>7 DEF RowsInv, RowsHeld, TypeOK
    <3>9. GrossOnRow'
      BY <1>0, <3>1, <3>2 DEF RowsInv, GrossOnRow, TypeOK, Counted
    <3> QED BY <3>6, <3>8, <3>9 DEF RowsInv
  <2> QED BY <2>2, <2>3
<1>10. ASSUME NEW w \in Tabs, DrawTransfer(w) PROVE RowsInv'
  <2>1. pc[w] = "draw_transfer" /\ UNCHANGED <<episodeVars, rowVars, view>>
    BY <1>10 DEF DrawTransfer
  <2>2. loc[w] \in Requests /\ loc[w].amount \in Nat
    BY <1>0 DEF TypeOK, Requests
  <2>3. transferred' \in Nat /\ misfiled' \in Nat /\ faults' \in Nat
    BY <1>0, <1>10, <2>2 DEF DrawTransfer, TypeOK, Fault, NoFault
  <2>4. \E label \in {"draw_done", "draw_failed"} : Goto(w, label, loc[w])
    BY <1>10 DEF DrawTransfer
  <2>5. /\ pc' \in [Tabs -> Labels] /\ loc' \in [Tabs -> Requests]
        /\ pc'[w] \in Paying /\ loc'[w] = loc[w]
        /\ \A v \in Tabs \ {w} : pc'[v] = pc[v] /\ loc'[v] = loc[v]
    BY <1>0, <2>2, <2>4, GotoDoes DEF Labels, Paying
  <2>6. TypeOK'
    BY <1>0, <2>1, <2>3, <2>5 DEF TypeOK, Labels, Paying, Requests
  <2>7. RowsHeld'
    BY <1>0, <2>1, <2>5 DEF RowsInv, RowsHeld, Paying
  <2> QED BY <2>1, <2>6, <2>7 DEF RowsInv, GrossOnRow, Counted
<1>11. ASSUME NEW w \in Tabs, DrawDone(w) PROVE RowsInv'
  <2>1. pc[w] = "draw_done" /\ UNCHANGED <<episodeVars, net, gross, transferred, view>>
    BY <1>11 DEF DrawDone
  <2>2. /\ loc[w] \in Requests /\ loc[w].amount \in Nat
        /\ loc[w].row \in Rows /\ state[loc[w].row] = "processing"
    BY <1>0, <2>1 DEF TypeOK, Requests, RowsInv, RowsHeld, Paying
  <2>3. CASE /\ state' = [state EXCEPT ![loc[w].row] = "completed"]
             /\ Answer(w) /\ UNCHANGED misfiled /\ NoFault
    <3>1. /\ pc' \in [Tabs -> Labels] /\ loc' \in [Tabs -> Requests] /\ pc'[w] = "idle"
          /\ \A v \in Tabs \ {w} : pc'[v] = pc[v] /\ loc'[v] = loc[v]
      BY <1>0, <2>3, AnswerDoes
    <3>2. TypeOK'
      BY <1>0, <2>1, <2>2, <2>3, <3>1 DEF TypeOK, Labels, Paying, Requests, NoFault
    <3>3. RowsHeld'
      <4> SUFFICES ASSUME NEW v \in Tabs, pc'[v] \in Paying
                   PROVE  /\ loc'[v].row \in Rows
                          /\ state'[loc'[v].row] = "processing" /\ net'[loc'[v].row] = loc'[v].amount
                          /\ \A u \in Tabs \ {v} : pc'[u] \in Paying => loc'[u].row # loc'[v].row
        BY DEF RowsHeld
      <4>1. v # w /\ "idle" \notin Paying /\ pc'[v] = pc[v] /\ loc'[v] = loc[v]
        BY <3>1 DEF Paying
      <4>2. /\ loc[v].row \in Rows /\ state[loc[v].row] = "processing"
            /\ net[loc[v].row] = loc[v].amount /\ loc[v].row # loc[w].row
        BY <2>1, <4>1 DEF RowsInv, RowsHeld, Paying
      <4>3. state'[loc[v].row] = "processing"
        BY <1>0, <2>3, <4>2 DEF TypeOK
      <4> QED BY <2>1, <3>1, <4>1, <4>2, <4>3 DEF RowsInv, RowsHeld
    <3>4. GrossOnRow'
      BY <1>0, <2>1, <2>2, <2>3 DEF RowsInv, GrossOnRow, TypeOK, Counted
    <3> QED BY <3>2, <3>3, <3>4 DEF RowsInv
  <2>4. CASE /\ misfiled' = misfiled + loc[w].amount
             /\ Goto(w, "draw_failed", loc[w]) /\ UNCHANGED state /\ Fault
    <3>1. /\ pc' \in [Tabs -> Labels] /\ loc' \in [Tabs -> Requests]
          /\ pc'[w] \in Paying /\ loc'[w] = loc[w]
          /\ \A v \in Tabs \ {w} : pc'[v] = pc[v] /\ loc'[v] = loc[v]
      BY <1>0, <2>2, <2>4, GotoDoes DEF Labels, Paying
    <3>2. misfiled' \in Nat /\ faults' \in Nat
      BY <1>0, <2>2, <2>4 DEF TypeOK, Fault
    <3>3. TypeOK'
      BY <1>0, <2>1, <2>4, <3>1, <3>2 DEF TypeOK, Labels, Paying, Requests
    <3>4. RowsHeld'
      BY <1>0, <2>1, <2>4, <3>1 DEF RowsInv, RowsHeld, Paying
    <3> QED BY <2>1, <2>4, <3>3, <3>4 DEF RowsInv, GrossOnRow, Counted
  <2> QED BY <1>11, <2>3, <2>4 DEF DrawDone
<1>12. ASSUME NEW w \in Tabs, DrawFailed(w) PROVE RowsInv'
  <2>1. /\ pc[w] = "draw_failed" /\ Answer(w)
        /\ UNCHANGED <<episodeVars, net, gross, transferred, misfiled, view>>
    BY <1>12 DEF DrawFailed
  <2>2. loc[w].row \in Rows /\ state[loc[w].row] = "processing"
    BY <1>0, <2>1 DEF RowsInv, RowsHeld, Paying
  <2>3. /\ pc' \in [Tabs -> Labels] /\ loc' \in [Tabs -> Requests] /\ pc'[w] = "idle"
        /\ \A v \in Tabs \ {w} : pc'[v] = pc[v] /\ loc'[v] = loc[v]
    BY <1>0, <2>1, AnswerDoes
  <2>4. faults' \in Nat
    BY <1>0, <1>12 DEF DrawFailed, TypeOK, Fault, NoFault
  <2>5. CASE state' = [state EXCEPT ![loc[w].row] = "failed"]
    <3>2. TypeOK'
      BY <1>0, <2>1, <2>2, <2>3, <2>4, <2>5 DEF TypeOK, Labels, Paying, Requests
    <3>3. RowsHeld'
      <4> SUFFICES ASSUME NEW v \in Tabs, pc'[v] \in Paying
                   PROVE  /\ loc'[v].row \in Rows
                          /\ state'[loc'[v].row] = "processing" /\ net'[loc'[v].row] = loc'[v].amount
                          /\ \A u \in Tabs \ {v} : pc'[u] \in Paying => loc'[u].row # loc'[v].row
        BY DEF RowsHeld
      <4>1. v # w /\ "idle" \notin Paying /\ pc'[v] = pc[v] /\ loc'[v] = loc[v]
        BY <2>3 DEF Paying
      <4>2. /\ loc[v].row \in Rows /\ state[loc[v].row] = "processing"
            /\ net[loc[v].row] = loc[v].amount /\ loc[v].row # loc[w].row
        BY <2>1, <4>1 DEF RowsInv, RowsHeld, Paying
      <4>3. state'[loc[v].row] = "processing"
        BY <1>0, <2>5, <4>2 DEF TypeOK
      <4> QED BY <2>1, <2>3, <4>1, <4>2, <4>3 DEF RowsInv, RowsHeld
    <3>4. GrossOnRow'
      BY <1>0, <2>1, <2>2, <2>5 DEF RowsInv, GrossOnRow, TypeOK, Counted
    <3> QED BY <3>2, <3>3, <3>4 DEF RowsInv
  <2>6. CASE UNCHANGED state
    <3>2. TypeOK'
      BY <1>0, <2>1, <2>3, <2>4, <2>6 DEF TypeOK, Labels, Paying, Requests
    <3> QED BY <2>1, <2>3, <2>6, <3>2, RowsPass DEF Paying
  <2> QED BY <1>12, <2>5, <2>6 DEF DrawFailed
<1> QED BY <1>1, <1>2, <1>3, <1>4, <1>5, <1>6, <1>7, <1>8, <1>9, <1>10, <1>11, <1>12 DEF Next

-----------------------------------------------------------------------------
(* What covers the transfers.                                              *)

\* The settled rows only gain, and what was moved is booked as misfiled.
LEMMA CoverKept ==
  ASSUME TypeOK, TypeOK', Covered, Settled \subseteq Settled',
         \A r \in Settled : net'[r] = net[r],
         transferred' + misfiled <= transferred + misfiled'
  PROVE  Covered'
<1>1. /\ SumOf(net, Settled) \in Nat /\ transferred \in Nat /\ misfiled \in Nat
      /\ IsFiniteSet(Settled)
  BY TotalsAreNat DEF TypeOK
<1>2. /\ SumOf(net', Settled') \in Nat /\ transferred' \in Nat /\ misfiled' \in Nat
      /\ IsFiniteSet(Settled') /\ \A r \in Settled' : net'[r] \in Nat
  <2>1. IsFiniteSet(Rows) /\ Settled' \in SUBSET Rows
    BY WithdrawalAssumption DEF Counted, Settled
  <2>2. IsFiniteSet(Settled') /\ \A r \in Settled' : net'[r] \in Nat
    BY <2>1, FS_Subset DEF TypeOK
  <2> QED BY <2>2, SumIsNat DEF TypeOK
<1>3. SumOf(net, Settled) = SumOf(net', Settled)
  BY <1>1, SumSame
<1>4. SumOf(net', Settled) <= SumOf(net', Settled')
  BY <1>2, SumOfPart
<1>5. transferred' <= SumOf(net', Settled') + misfiled'
  BY <1>1, <1>2, <1>3, <1>4 DEF Covered
<1> QED BY <1>5 DEF Covered

\* Nothing has been moved.
LEMMA CoveredInit == Init => Covered
<1> SUFFICES ASSUME Init PROVE Covered
  OBVIOUS
<1>1. TypeOK
  BY RowsInit DEF RowsInv
<1>2. SumOf(net, Settled) \in Nat /\ transferred = 0 /\ misfiled = 0
  BY <1>1, TotalsAreNat DEF Init
<1> QED BY <1>2 DEF Covered

\* A transfer moves its row to the settled ones, and a row that leaves them to be
\* filed as failed is booked as misfiled first.
LEMMA CoveredStep == ASSUME RowsInv, RowsInv', Covered, [Next]_vars PROVE Covered'
<1>0. /\ TypeOK /\ TypeOK'
      /\ transferred \in Nat /\ misfiled \in Nat
      /\ transferred' \in Nat /\ misfiled' \in Nat
  BY DEF RowsInv, TypeOK
<1> USE DEF episodeVars, moneyVars, rowVars
<1>1. ASSUME UNCHANGED <<state, net, transferred, misfiled, pc, loc>> PROVE Covered'
  <2>1. Settled' = Settled
    BY <1>1 DEF Settled, Counted, Held
  <2> QED BY <1>0, <1>1, <2>1, CoverKept
<1>2. CASE Crash
  <2>1. /\ pc' = [w \in Tabs |-> "idle"]
        /\ UNCHANGED <<state, net, transferred, misfiled>>
    BY <1>2 DEF Crash
  <2>2. Settled \subseteq Settled'
    BY <2>1 DEF Settled, Counted, Held
  <2> QED BY <1>0, <2>1, <2>2, CoverKept
<1>3. ASSUME NEW w \in Tabs, UNCHANGED <<state, net, transferred, misfiled>>,
             pc[w] \notin Paying, pc'[w] \notin Paying,
             \A v \in Tabs \ {w} : pc'[v] = pc[v] /\ loc'[v] = loc[v]
      PROVE  Covered'
  <2>1. Settled \subseteq Settled'
    BY <1>3 DEF Settled, Counted, Held, Paying
  <2> QED BY <1>0, <1>3, <2>1, CoverKept
<1>4. ASSUME NEW w \in Tabs, DrawUser(w) \/ DrawRead(w) PROVE Covered'
  <2>1. pc[w] \notin Paying /\ UNCHANGED <<state, net, transferred, misfiled>>
    BY <1>4 DEF DrawUser, DrawRead, Paying
  <2>2. \E label \in {"idle", "draw_read", "draw_create"} : \E l : Goto(w, label, l)
    BY <1>4 DEF DrawUser, DrawRead, Answer
  <2>3. pc'[w] \notin Paying /\ \A v \in Tabs \ {w} : pc'[v] = pc[v] /\ loc'[v] = loc[v]
    BY <1>0, <2>2 DEF Goto, TypeOK, Paying
  <2> QED BY <1>3, <2>1, <2>3
<1>5. ASSUME NEW w \in Tabs, DrawCreate(w) PROVE Covered'
  <2>1. pc[w] = "draw_create" /\ UNCHANGED <<transferred, misfiled>>
    BY <1>5 DEF DrawCreate
  <2>2. CASE Answer(w) /\ UNCHANGED rowVars
    BY <1>0, <1>3, <2>1, <2>2, AnswerDoes DEF Paying
  <2>3. ASSUME NEW r \in Unused,
               state' = [state EXCEPT ![r] = "processing"],
               net' = [net EXCEPT ![r] = loc[w].amount],
               Goto(w, "draw_transfer", [loc[w] EXCEPT !.row = r])
        PROVE  Covered'
    <3>1. r \in Rows /\ r \notin Settled
      BY DEF Unused, Settled, Counted
    <3>2. /\ pc'[w] = "draw_transfer" /\ loc'[w].row = r
          /\ \A v \in Tabs \ {w} : pc'[v] = pc[v] /\ loc'[v] = loc[v]
      BY <1>0, <2>3 DEF Goto, TypeOK
    <3>3. ASSUME NEW q \in Settled PROVE q \in Settled' /\ net'[q] = net[q]
      <4>1. q \in Rows /\ q # r /\ state'[q] = state[q] /\ net'[q] = net[q] /\ q \notin Held
        BY <1>0, <2>3, <3>1 DEF Settled, Counted, TypeOK
      <4>2. q \notin Held'
        BY <3>2, <4>1, <2>1 DEF Held
      <4> QED BY <4>1, <4>2 DEF Settled, Counted
    <3> QED BY <1>0, <2>1, <3>3, CoverKept
  <2> QED BY <1>5, <2>2, <2>3 DEF DrawCreate
<1>6. ASSUME NEW w \in Tabs, DrawTransfer(w) PROVE Covered'
  <2>1. /\ pc[w] = "draw_transfer" /\ UNCHANGED <<state, net>>
        /\ loc[w].row \in Rows /\ state[loc[w].row] = "processing"
        /\ net[loc[w].row] = loc[w].amount /\ loc[w].amount \in Nat
    BY <1>0, <1>6 DEF DrawTransfer, RowsInv, RowsHeld, Paying, TypeOK
  <2>2. ASSUME Goto(w, "draw_failed", loc[w]), transferred' + misfiled = transferred + misfiled'
        PROVE  Covered'
    <3>1. /\ pc'[w] = "draw_failed" /\ loc'[w] = loc[w]
          /\ \A v \in Tabs \ {w} : pc'[v] = pc[v] /\ loc'[v] = loc[v]
      BY <1>0, <2>2 DEF Goto, TypeOK
    <3>2. Held' = Held
      BY <2>1, <3>1 DEF Held
    <3>3. Settled' = Settled
      BY <2>1, <3>2 DEF Settled, Counted
    <3> QED BY <1>0, <2>1, <2>2, <3>3, CoverKept
  <2>3. CASE /\ transferred' = transferred + loc[w].amount
             /\ Goto(w, "draw_done", loc[w]) /\ UNCHANGED misfiled
    <3> DEFINE r == loc[w].row
    <3>1. /\ pc'[w] = "draw_done" /\ loc'[w] = loc[w]
          /\ \A v \in Tabs \ {w} : pc'[v] = pc[v] /\ loc'[v] = loc[v]
      BY <1>0, <2>3 DEF Goto, TypeOK
    <3>2. r \in Counted /\ r \in Held
      BY <2>1 DEF Counted, Held
    <3>3. Held' = Held \ {r}
      <4>1. \A v \in Tabs \ {w} : pc[v] \in {"draw_transfer", "draw_failed"} => loc[v].row # r
        BY <2>1 DEF RowsInv, RowsHeld, Paying
      <4> QED BY <3>1, <4>1 DEF Held
    <3>4. Settled' = Settled \cup {r} /\ r \notin Settled
      BY <2>1, <3>2, <3>3 DEF Settled, Counted
    <3>5. IsFiniteSet(Settled) /\ \A q \in Settled \cup {r} : net[q] \in Nat
      BY <1>0, <2>1, TotalsAreNat DEF Settled, Counted, TypeOK
    <3>6. SumOf(net, Settled) \in Nat
      BY <1>0, TotalsAreNat
    <3> HIDE DEF r
    <3>7. SumOf(net, Settled \cup {r}) = net[r] + SumOf(net, Settled)
      BY <3>4, <3>5, SumPlus
    <3>8. net' = net /\ net[r] = loc[w].amount
      BY <2>1 DEF r
    <3>9. transferred' <= SumOf(net', Settled') + misfiled'
      BY <1>0, <2>1, <2>3, <3>4, <3>6, <3>7, <3>8 DEF Covered
    <3> QED BY <3>9 DEF Covered
  <2> QED BY <1>0, <1>6, <2>1, <2>2, <2>3 DEF DrawTransfer
<1>7. ASSUME NEW w \in Tabs, DrawDone(w) PROVE Covered'
  <2>1. /\ pc[w] = "draw_done" /\ UNCHANGED <<net, transferred>>
        /\ loc[w].row \in Rows /\ state[loc[w].row] = "processing"
        /\ net[loc[w].row] = loc[w].amount /\ loc[w].amount \in Nat
        /\ \A v \in Tabs \ {w} : pc[v] \in Paying => loc[v].row # loc[w].row
    BY <1>0, <1>7 DEF DrawDone, RowsInv, RowsHeld, Paying, TypeOK
  <2> DEFINE r == loc[w].row
  <2>2. r \notin Held /\ r \in Counted
    BY <2>1 DEF Held, Counted, Paying
  <2>3. CASE /\ state' = [state EXCEPT ![loc[w].row] = "completed"]
             /\ Answer(w) /\ UNCHANGED misfiled
    <3>1. /\ pc'[w] = "idle"
          /\ \A v \in Tabs \ {w} : pc'[v] = pc[v] /\ loc'[v] = loc[v]
      BY <1>0, <2>3, AnswerDoes
    <3>2. Held' = Held
      BY <2>1, <3>1 DEF Held
    <3>3. Counted' = Counted
      BY <1>0, <2>1, <2>3 DEF Counted, TypeOK
    <3>4. Settled' = Settled
      BY <3>2, <3>3 DEF Settled
    <3> QED BY <1>0, <2>1, <2>3, <3>4, CoverKept
  <2>4. CASE /\ misfiled' = misfiled + loc[w].amount
             /\ Goto(w, "draw_failed", loc[w]) /\ UNCHANGED state
    <3>1. /\ pc'[w] = "draw_failed" /\ loc'[w] = loc[w]
          /\ \A v \in Tabs \ {w} : pc'[v] = pc[v] /\ loc'[v] = loc[v]
      BY <1>0, <2>4 DEF Goto, TypeOK
    <3>2. Held' = Held \cup {r}
      BY <2>1, <3>1 DEF Held
    <3>3. Settled' = Settled \ {r} /\ r \in Settled
      BY <2>2, <2>4, <3>2 DEF Settled, Counted
    <3>4. IsFiniteSet(Settled) /\ \A q \in Settled : net[q] \in Nat
      BY <1>0, TotalsAreNat DEF Settled, Counted, TypeOK
    <3> HIDE DEF r
    <3>5. SumOf(net, Settled) = net[r] + SumOf(net, Settled \ {r})
      BY <3>3, <3>4, SumWith
    <3>6. IsFiniteSet(Settled \ {r}) /\ SumOf(net, Settled \ {r}) \in Nat
      <4>1. IsFiniteSet(Settled \ {r}) /\ \A q \in Settled \ {r} : net[q] \in Nat
        BY <3>4, FS_Subset
      <4> QED BY <4>1, SumIsNat
    <3>7. net' = net /\ net[r] = loc[w].amount
      BY <2>1 DEF r
    <3>8. transferred' <= SumOf(net', Settled') + misfiled'
      BY <1>0, <2>1, <2>4, <3>3, <3>5, <3>6, <3>7 DEF Covered
    <3> QED BY <3>8 DEF Covered
  <2> QED BY <1>7, <2>3, <2>4 DEF DrawDone
<1>8. ASSUME NEW w \in Tabs, DrawFailed(w) PROVE Covered'
  <2>1. /\ pc[w] = "draw_failed" /\ Answer(w)
        /\ UNCHANGED <<net, transferred, misfiled>>
    BY <1>8 DEF DrawFailed
  <2>2. /\ pc'[w] = "idle"
        /\ \A v \in Tabs \ {w} : pc'[v] = pc[v] /\ loc'[v] = loc[v]
    BY <1>0, <2>1, AnswerDoes
  <2>3. loc[w].row \in Held
    BY <2>1 DEF Held
  <2>4. Held' \subseteq Held
    BY <2>2 DEF Held
  <2>5. \A q \in Rows \ {loc[w].row} : state'[q] = state[q]
    BY <1>0, <1>8 DEF DrawFailed, TypeOK
  <2>6. Settled \subseteq Settled'
    BY <2>3, <2>4, <2>5 DEF Settled, Counted
  <2> QED BY <1>0, <2>1, <2>6, CoverKept
<1>9. CASE \/ Earn \/ EndEpisode \/ UNCHANGED vars
           \/ AccountNext /\ UNCHANGED <<episodeVars, moneyVars, view, pc, loc, faults>>
           \/ \E w \in Tabs : LoadSettings(w) \/ LoadEarnings(w)
  BY <1>1, <1>9 DEF Earn, EndEpisode, LoadSettings, LoadEarnings, vars
<1> QED BY <1>2, <1>4, <1>5, <1>6, <1>7, <1>8, <1>9 DEF Next

\* Every counted row, settled or not.
LEMMA CountedIsTotal ==
  /\ Total(net, {"completed", "processing"}) = SumOf(net, Counted)
  /\ Total(gross, {"completed", "processing"}) = SumOf(gross, Counted)
BY DEF Total, SumOf, Counted

\* The settled rows are part of the counted ones.
LEMMA CoveredCounts == ASSUME TypeOK, Covered PROVE TransfersCovered
<1>1. IsFiniteSet(Counted) /\ Settled \in SUBSET Counted /\ \A r \in Counted : net[r] \in Nat
  BY TotalsAreNat DEF Settled, Counted, TypeOK
<1>2. SumOf(net, Settled) <= SumOf(net, Counted)
  BY <1>1, SumOfPart
<1>3. /\ SumOf(net, Settled) \in Nat /\ SumOf(net, Counted) \in Nat
      /\ transferred \in Nat /\ misfiled \in Nat
  BY TotalsAreNat DEF TypeOK
<1>4. transferred <= SumOf(net, Counted) + misfiled
  BY <1>2, <1>3 DEF Covered
<1> QED BY <1>4, CountedIsTotal DEF TransfersCovered

-----------------------------------------------------------------------------
(* What the requests take together.                                        *)

\* The pending amounts are numbers.
LEMMA PendingIs ==
  ASSUME TypeOK
  PROVE  /\ IsFiniteSet(Tabs) /\ Cardinality(Tabs) \in Nat
         /\ \A w \in Tabs : Pending[w] \in Nat
         /\ SumOf(Pending, Tabs) \in Nat
<1>1. IsFiniteSet(Tabs) /\ Cardinality(Tabs) \in Nat
  BY AccountAssumption, FS_CardinalityType
<1>2. \A w \in Tabs : Pending[w] \in Nat
  BY DEF Pending, TypeOK
<1> QED BY <1>1, <1>2, SumIsNat

\* Multiplication keeps the order.
LEMMA Times == ASSUME NEW n \in Nat, NEW a \in Nat, NEW b \in Nat, a <= b
  PROVE n * a \in Nat /\ n * b \in Nat /\ n * a <= n * b
<1> DEFINE c == b - a
<1>1. c \in Nat /\ b = a + c
  OBVIOUS
<1>2. n * a \in Nat /\ n * c \in Nat
  OBVIOUS
<1> HIDE DEF c
<1>3. n * b = n * a + n * c
  BY <1>1, Distribute
<1> QED BY <1>2, <1>3

\* The counted rows and the pending amounts do not grow, and the earnings do not
\* shrink.
LEMMA BalanceKept ==
  ASSUME TypeOK, TypeOK', Balanced, StreamerPayout(revenue) <= StreamerPayout(revenue'),
         Counted' \subseteq Counted, \A r \in Counted' : net'[r] = net[r],
         \A w \in Tabs : Pending'[w] \in {0, Pending[w]}
  PROVE  Balanced'
<1> DEFINE P == StreamerPayout(revenue)
           Q == StreamerPayout(revenue')
           N == Cardinality(Tabs)
<1>1. P \in Nat /\ Q \in Nat /\ N \in Nat /\ P <= Q /\ IsFiniteSet(Tabs)
  BY PendingIs, PayoutIs DEF TypeOK
<1>2. SumOf(net', Counted') \in Nat /\ SumOf(net, Counted) \in Nat
      /\ SumOf(net', Counted') <= SumOf(net, Counted)
  <2>1. IsFiniteSet(Counted) /\ \A r \in Counted : net[r] \in Nat
    BY TotalsAreNat DEF Counted, TypeOK
  <2>2. IsFiniteSet(Counted') /\ \A r \in Counted' : net[r] \in Nat
    BY <2>1, FS_Subset
  <2>3. SumOf(net, Counted') <= SumOf(net, Counted) /\ SumOf(net, Counted') \in Nat
    BY <2>1, <2>2, SumOfPart, SumIsNat
  <2>4. SumOf(net', Counted') = SumOf(net, Counted')
    BY <2>2, SumSame
  <2> QED BY <2>1, <2>3, <2>4, SumIsNat
<1>3. /\ \A w \in Tabs : Pending'[w] \in Nat /\ Pending[w] \in Nat /\ Pending'[w] <= Pending[w]
  BY PendingIs
<1>4. /\ SumOf(Pending', Tabs) \in Nat /\ SumOf(Pending, Tabs) \in Nat
      /\ SumOf(Pending', Tabs) <= SumOf(Pending, Tabs)
  BY <1>1, <1>3, SumGrows, SumIsNat
<1> HIDE DEF P, Q, N
<1>5. N * P \in Nat /\ N * Q \in Nat /\ N * P <= N * Q
  BY <1>1, Times
<1>6. SumOf(net, Counted) + SumOf(Pending, Tabs) <= N * P /\ \A w \in Tabs : Pending[w] <= P
  BY DEF Balanced, N, P
<1>7. SumOf(net', Counted') + SumOf(Pending', Tabs) <= N * Q
  BY <1>2, <1>4, <1>5, <1>6
<1>8. \A w \in Tabs : Pending'[w] <= Q
  BY <1>1, <1>3, <1>6
<1> QED BY <1>7, <1>8 DEF Balanced, N, Q

\* There is nothing to take.
LEMMA BalancedInit == Init => Balanced
<1> SUFFICES ASSUME Init PROVE Balanced
  OBVIOUS
<1>1. TypeOK
  BY RowsInit DEF RowsInv
<1>2. Counted = {} /\ \A w \in Tabs : Pending[w] = 0
  BY DEF Init, Counted, Pending
<1>3. SumOf(net, Counted) = 0
  BY <1>2, FS_EmptySet, SumSteps
<1> DEFINE P == StreamerPayout(revenue)
           N == Cardinality(Tabs)
<1>4. P \in Nat /\ N \in Nat /\ IsFiniteSet(Tabs) /\ SumOf(Pending, Tabs) \in Nat
  BY <1>1, PendingIs, PayoutIs DEF TypeOK
<1>5. SumOf(Pending, Tabs) <= N * 0
  BY <1>2, <1>4, SumAtMost
<1> HIDE DEF P, N
<1>6. N * 0 <= N * P /\ N * 0 \in Nat /\ N * P \in Nat
  BY <1>4, Times
<1>7. SumOf(net, Counted) + SumOf(Pending, Tabs) <= N * P
  BY <1>3, <1>4, <1>5, <1>6
<1> QED BY <1>2, <1>4, <1>7 DEF Balanced, P, N

\* A request that reads the balance takes what the rows leave of the payout, and
\* the others have taken at most the payout each; from there on it only moves its
\* amount to its row.
LEMMA BalancedStep == ASSUME RowsInv, RowsInv', Balanced, [Next]_vars PROVE Balanced'
<1>0. TypeOK /\ TypeOK' /\ revenue \in Nat /\ revenue' \in Nat
  BY DEF RowsInv, TypeOK
<1>a. StreamerPayout(revenue) \in Nat
  BY <1>0, PayoutIs
<1> USE DEF episodeVars, moneyVars, rowVars
<1>1. ASSUME UNCHANGED <<state, net, pc, loc, revenue>> PROVE Balanced'
  <2>1. Counted' = Counted /\ Pending' = Pending
    BY <1>1 DEF Counted, Pending
  <2> QED BY <1>0, <1>a, <1>1, <2>1, BalanceKept
<1>2. CASE Earn
  <2>1. PICK a \in Nat : revenue' = revenue + a
    BY <1>2, WithdrawalAssumption DEF Earn
  <2>2. Counted' = Counted /\ Pending' = Pending /\ net' = net
    BY <1>2 DEF Earn, Counted, Pending
  <2>3. StreamerPayout(revenue) <= StreamerPayout(revenue')
    BY <1>0, <2>1, PayoutGrows
  <2> QED BY <1>0, <2>2, <2>3, BalanceKept
<1>3. CASE Crash
  <2>1. /\ pc' = [w \in Tabs |-> "idle"] /\ UNCHANGED <<state, net, revenue>>
    BY <1>3 DEF Crash
  <2>2. Counted' = Counted /\ \A w \in Tabs : Pending'[w] = 0
    BY <2>1 DEF Counted, Pending
  <2> QED BY <1>0, <1>a, <2>1, <2>2, BalanceKept
<1>4. ASSUME NEW w \in Tabs, UNCHANGED <<net, revenue>>, pc'[w] # "draw_create",
             \A v \in Tabs \ {w} : pc'[v] = pc[v] /\ loc'[v] = loc[v],
             Counted' \subseteq Counted
      PROVE  Balanced'
  <2>1. \A v \in Tabs : Pending'[v] \in {0, Pending[v]}
    BY <1>4 DEF Pending
  <2> QED BY <1>0, <1>a, <1>4, <2>1, BalanceKept
<1>5. ASSUME NEW w \in Tabs, DrawUser(w) PROVE Balanced'
  <2>1. /\ UNCHANGED <<net, revenue, state>>
        /\ \E label \in {"idle", "draw_read"} : \E l : Goto(w, label, l)
    BY <1>5 DEF DrawUser, Answer
  <2>2. pc'[w] # "draw_create" /\ \A v \in Tabs \ {w} : pc'[v] = pc[v] /\ loc'[v] = loc[v]
    BY <1>0, <2>1 DEF Goto, TypeOK
  <2> QED BY <1>4, <2>1, <2>2 DEF Counted
<1>6. ASSUME NEW w \in Tabs, DrawRead(w) PROVE Balanced'
  <2>1. pc[w] = "draw_read" /\ UNCHANGED <<net, revenue, state>>
    BY <1>6 DEF DrawRead
  <2>2. CASE Answer(w)
    BY <1>0, <1>4, <2>1, <2>2, AnswerDoes DEF Counted
  <2>3. CASE Available > 0 /\ Goto(w, "draw_create", [loc[w] EXCEPT !.amount = Available])
    <3> DEFINE P == StreamerPayout(revenue)
               O == Tabs \ {w}
               n == Cardinality(O)
    <3>1. /\ Available \in Nat /\ Available + SumOf(net, Counted) = P /\ SumOf(net, Counted) \in Nat
          /\ Available <= P
      BY <1>0, <1>a, <2>3, AvailableIs, TotalsAreNat
    <3>2. /\ pc'[w] = "draw_create" /\ loc'[w].amount = Available
          /\ \A v \in O : pc'[v] = pc[v] /\ loc'[v] = loc[v]
      BY <1>0, <2>3 DEF Goto, TypeOK
    <3>3. Pending'[w] = Available /\ \A v \in O : Pending'[v] = Pending[v]
      BY <3>2 DEF Pending
    <3>4. Counted' = Counted
      BY <2>1 DEF Counted
    <3>5. /\ IsFiniteSet(Tabs) /\ IsFiniteSet(O) /\ n \in Nat /\ Cardinality(Tabs) = n + 1
      <4>1. IsFiniteSet(Tabs)
        BY AccountAssumption
      <4>2. IsFiniteSet(O) /\ n = Cardinality(Tabs) - 1
        BY <4>1, FS_RemoveElement
      <4> QED BY <4>1, <4>2, FS_CardinalityType
    <3>6. \A v \in Tabs : Pending'[v] \in Nat /\ Pending'[v] <= P
      <4>1. \A v \in O : Pending[v] \in Nat /\ Pending[v] <= P
        BY <1>0, PendingIs DEF Balanced
      <4> QED BY <3>1, <3>3, <4>1
    <3>7. SumOf(Pending', Tabs) = Available + SumOf(Pending', O)
      BY <3>3, <3>5, <3>6, SumWith
    <3>8. SumOf(Pending', O) <= n * P /\ SumOf(Pending', O) \in Nat
      <4>1. \A v \in O : Pending'[v] \in Nat /\ Pending'[v] <= P
        BY <3>6
      <4> HIDE DEF P, O, n
      <4>2. SumOf(Pending', O) <= Cardinality(O) * P
        BY <3>1, <3>5, <4>1, <1>a, SumAtMost DEF P
      <4> QED BY <3>5, <4>1, <4>2, SumIsNat DEF n
    <3> HIDE DEF P, O, n
    <3>9. P \in Nat /\ n * P \in Nat /\ (n + 1) * P = n * P + P
      BY <1>a, <3>5, Distribute DEF P
    <3>10. SumOf(net, Counted) + SumOf(Pending', Tabs) <= (n + 1) * P
      BY <3>1, <3>7, <3>8, <3>9
    <3>11. SumOf(net', Counted') + SumOf(Pending', Tabs) <= Cardinality(Tabs) * StreamerPayout(revenue')
      BY <2>1, <3>4, <3>5, <3>10 DEF P
    <3>12. \A v \in Tabs : Pending'[v] <= StreamerPayout(revenue')
      BY <2>1, <3>6 DEF P
    <3> QED BY <3>11, <3>12 DEF Balanced
  <2> QED BY <1>6, <2>2, <2>3 DEF DrawRead
<1>7. ASSUME NEW w \in Tabs, DrawCreate(w) PROVE Balanced'
  <2>1. pc[w] = "draw_create" /\ UNCHANGED revenue
    BY <1>7 DEF DrawCreate
  <2>2. CASE Answer(w) /\ UNCHANGED rowVars
    BY <1>0, <1>4, <2>1, <2>2, AnswerDoes DEF Counted
  <2>3. ASSUME NEW r \in Unused,
               state' = [state EXCEPT ![r] = "processing"],
               net' = [net EXCEPT ![r] = loc[w].amount],
               Goto(w, "draw_transfer", [loc[w] EXCEPT !.row = r])
        PROVE  Balanced'
    <3> DEFINE O == Tabs \ {w}
               P == StreamerPayout(revenue)
    <3>1. r \in Rows /\ r \notin Counted /\ Counted' = Counted \cup {r}
      BY <1>0, <2>3 DEF Unused, Counted, TypeOK
    <3>2. /\ net'[r] = loc[w].amount /\ loc[w].amount \in Nat
          /\ \A q \in Counted : net'[q] = net[q]
      BY <1>0, <2>3, <3>1 DEF TypeOK, Counted
    <3>3. /\ pc'[w] = "draw_transfer"
          /\ \A v \in O : pc'[v] = pc[v] /\ loc'[v] = loc[v]
      BY <1>0, <2>3 DEF Goto, TypeOK
    <3>4. /\ Pending[w] = loc[w].amount /\ Pending'[w] = 0
          /\ \A v \in O : Pending'[v] = Pending[v]
      BY <2>1, <3>3 DEF Pending
    <3>5. /\ IsFiniteSet(Tabs) /\ IsFiniteSet(O) /\ IsFiniteSet(Counted)
          /\ SumOf(net, Counted) \in Nat
          /\ \A v \in Tabs : Pending[v] \in Nat /\ Pending'[v] \in Nat
      BY <1>0, <3>2, <3>4, PendingIs, TotalsAreNat, FS_RemoveElement
    <3>6. SumOf(net', Counted') = loc[w].amount + SumOf(net, Counted)
      <4>1. \A q \in Counted \cup {r} : net'[q] \in Nat
        BY <1>0, <3>1 DEF TypeOK, Counted
      <4>2. SumOf(net', Counted \cup {r}) = net'[r] + SumOf(net', Counted)
        BY <3>1, <3>5, <4>1, SumPlus
      <4>3. SumOf(net', Counted) = SumOf(net, Counted)
        BY <3>2, <3>5, SumSame
      <4> QED BY <3>1, <3>2, <4>2, <4>3
    <3>7. SumOf(Pending, Tabs) = loc[w].amount + SumOf(Pending, O)
      BY <3>4, <3>5, SumWith
    <3>8. SumOf(Pending', Tabs) = 0 + SumOf(Pending', O)
      BY <3>4, <3>5, SumWith
    <3>9. SumOf(Pending', O) = SumOf(Pending, O) /\ SumOf(Pending, O) \in Nat
      <4>1. \A v \in O : Pending[v] \in Nat /\ Pending'[v] = Pending[v]
        BY <3>4, <3>5
      <4> HIDE DEF O
      <4> QED BY <3>5, <4>1, SumSame, SumIsNat
    <3> HIDE DEF O
    <3>10. SumOf(net', Counted') + SumOf(Pending', Tabs) = SumOf(net, Counted) + SumOf(Pending, Tabs)
      BY <3>2, <3>5, <3>6, <3>7, <3>8, <3>9
    <3>11. \A v \in Tabs : Pending'[v] <= P
      BY <1>a, <3>4 DEF Balanced, O
    <3> QED BY <2>1, <3>10, <3>11 DEF Balanced
  <2> QED BY <1>7, <2>2, <2>3 DEF DrawCreate
<1>8. ASSUME NEW w \in Tabs, DrawTransfer(w) PROVE Balanced'
  <2>1. /\ UNCHANGED <<net, revenue, state>>
        /\ \E label \in {"draw_done", "draw_failed"} : Goto(w, label, loc[w])
    BY <1>8 DEF DrawTransfer
  <2>2. pc'[w] # "draw_create" /\ \A v \in Tabs \ {w} : pc'[v] = pc[v] /\ loc'[v] = loc[v]
    BY <1>0, <2>1 DEF Goto, TypeOK
  <2> QED BY <1>4, <2>1, <2>2 DEF Counted
<1>9. ASSUME NEW w \in Tabs, DrawDone(w) PROVE Balanced'
  <2>1. /\ UNCHANGED <<net, revenue>>
        /\ loc[w].row \in Rows /\ state[loc[w].row] = "processing"
    BY <1>9 DEF DrawDone, RowsInv, RowsHeld, Paying
  <2>2. \E label \in {"idle", "draw_failed"} : \E l : Goto(w, label, l)
    BY <1>9 DEF DrawDone, Answer
  <2>3. pc'[w] # "draw_create" /\ \A v \in Tabs \ {w} : pc'[v] = pc[v] /\ loc'[v] = loc[v]
    BY <1>0, <2>2 DEF Goto, TypeOK
  <2>4. Counted' \subseteq Counted
    BY <1>0, <1>9, <2>1 DEF DrawDone, Counted, TypeOK
  <2> QED BY <1>4, <2>1, <2>3, <2>4
<1>10. ASSUME NEW w \in Tabs, DrawFailed(w) PROVE Balanced'
  <2>1. UNCHANGED <<net, revenue>> /\ Answer(w)
    BY <1>10 DEF DrawFailed
  <2>2. pc'[w] # "draw_create" /\ \A v \in Tabs \ {w} : pc'[v] = pc[v] /\ loc'[v] = loc[v]
    BY <1>0, <2>1, AnswerDoes
  <2>3. Counted' \subseteq Counted
    BY <1>0, <1>10 DEF DrawFailed, Counted, TypeOK
  <2> QED BY <1>4, <2>1, <2>2, <2>3
<1>11. CASE \/ EndEpisode \/ UNCHANGED vars
            \/ AccountNext /\ UNCHANGED <<episodeVars, moneyVars, view, pc, loc, faults>>
            \/ \E w \in Tabs : LoadSettings(w) \/ LoadEarnings(w)
  BY <1>1, <1>11 DEF EndEpisode, LoadSettings, LoadEarnings, vars
<1> QED BY <1>2, <1>3, <1>5, <1>6, <1>7, <1>8, <1>9, <1>10, <1>11 DEF Next

-----------------------------------------------------------------------------
(* The gross amounts.                                                      *)

\* Rounding back is off by half a cent at most.
LEMMA GrossIs ==
  ASSUME NEW n \in Nat, NEW D, D = 100 - FeePercent
  PROVE  D \in 1 .. 100 /\ 2 * D * GrossOf(n) - 200 * n \in -D .. D
<1>1. n * 100 \in Nat /\ D \in Nat \ {0} /\ D \in 1 .. 100
  BY WithdrawalAssumption
<1> DEFINE g == Round(n * 100, D)
<1>2. /\ g \in Nat
      /\ 2 * D * g <= 2 * (n * 100) + D /\ 2 * (n * 100) + D < 2 * D * g + 2 * D
  <2> HIDE DEF g
  <2>1. \A a \in Nat, d \in Nat \ {0} :
          /\ Round(a, d) \in Nat
          /\ 2 * d * Round(a, d) <= 2 * a + d /\ 2 * a + d < 2 * d * Round(a, d) + 2 * d
    BY RoundIs
  <2> QED BY <1>1, <2>1 DEF g
<1>3. GrossOf(n) = g
  BY DEF GrossOf
<1> HIDE DEF g
<1>4. 2 * D * g \in Int /\ 2 * (n * 100) = 200 * n
  BY <1>1, <1>2
<1> QED BY <1>1, <1>2, <1>3, <1>4

\* The gross amounts of k rows that leave nothing are within k cents of the
\* revenue.
LEMMA DriftIs ==
  ASSUME NEW R \in Nat, NEW C \in Nat, NEW G \in Nat, NEW k \in Nat, NEW D \in 51 .. 100,
         200 * C - 2 * D * R \in -100 .. 100,
         2 * D * G - 200 * C \in -(D * k) .. D * k
  PROVE  G - R \in -k .. k
<1>1. /\ D * k \in Nat /\ 2 * D * R \in Nat /\ 2 * D * G \in Nat
  OBVIOUS
<1>2. 2 * D * G - 2 * D * R \in -(D * k + 100) .. D * k + 100
  BY <1>1
<1>3. ASSUME NEW x \in Nat, NEW y \in Nat, x >= y + k + 1
      PROVE  2 * D * x - 2 * D * y > D * k + 100
  <2> DEFINE z == x - y - k - 1
  <2>1. z \in Nat /\ x = y + (k + (z + 1))
    BY <1>3
  <2> HIDE DEF z
  <2>2. /\ (2 * D) * (y + (k + (z + 1))) = (2 * D) * y + (2 * D) * (k + (z + 1))
        /\ (2 * D) * (k + (z + 1)) = (2 * D) * k + (2 * D) * (z + 1)
        /\ (2 * D) * (z + 1) = (2 * D) * z + (2 * D) * 1
    BY <2>1, Distribute
  <2>3. /\ (2 * D) * k = 2 * (D * k) /\ (2 * D) * z \in Nat /\ (2 * D) * y \in Nat
        /\ (2 * D) * 1 = 2 * D
    BY <2>1
  <2>4. (2 * D) * x = (2 * D) * y + 2 * (D * k) + (2 * D) * z + 2 * D
    BY <1>1, <2>1, <2>2, <2>3
  <2> QED BY <1>1, <2>3, <2>4
<1>4. ~(G >= R + k + 1) /\ ~(R >= G + k + 1)
  BY <1>1, <1>2, <1>3
<1> QED BY <1>4

\* Row by row, then summed.
LEMMA GrossCounts ==
  ASSUME FeePercent < 50, TypeOK, GrossOnRow PROVE GrossAgrees
<1> SUFFICES ASSUME Available = 0
             PROVE  Total(gross, {"completed", "processing"}) - revenue
                      \in -Cardinality(Counted) .. Cardinality(Counted)
  BY DEF GrossAgrees, Counted
<1> DEFINE D == 100 - FeePercent
           C == SumOf(net, Counted)
           G == SumOf(gross, Counted)
           k == Cardinality(Counted)
<1>1. D \in 51 .. 100 /\ revenue \in Nat
  BY WithdrawalAssumption DEF TypeOK
<1>2. IsFiniteSet(Counted) /\ C \in Nat /\ G \in Nat /\ k \in Nat
  BY TotalsAreNat, FS_CardinalityType
<1>3. C = StreamerPayout(revenue)
  BY <1>2, AvailableIs
<1>4. 200 * C - 2 * D * revenue \in -100 .. 100
  BY <1>1, <1>3, PayoutIs
<1>5. 2 * D * G - 200 * C \in -(D * k) .. D * k
  <2>1. ASSUME NEW r \in Counted
        PROVE  gross[r] \in Nat /\ net[r] \in Nat /\ 2 * D * gross[r] - 200 * net[r] \in -D .. D
    <3>1. gross[r] \in Nat /\ net[r] \in Nat /\ gross[r] = GrossOf(net[r])
      BY DEF TypeOK, GrossOnRow, Counted
    <3> QED BY <3>1, GrossIs
  <2>2. 2 * D \in Nat /\ 200 \in Nat /\ D \in Nat
    BY <1>1
  <2> HIDE DEF D
  <2>3. \A r \in Counted : /\ gross[r] \in Nat /\ net[r] \in Nat
                          /\ (2 * D) * gross[r] - 200 * net[r] \in -D .. D
    BY <2>1
  <2> QED BY <1>2, <2>2, <2>3, SumDrift
<1> HIDE DEF D, C, G, k
<1>6. G - revenue \in -k .. k
  BY <1>1, <1>2, <1>4, <1>5, DriftIs
<1> QED BY <1>6, CountedIsTotal DEF G, k

-----------------------------------------------------------------------------
(* The theorems.                                                           *)

\* The types, the rows that requests hold, what covers the transfers and what
\* the requests take together.
THEOREM LedgerSafe == Spec => [](RowsInv /\ Covered /\ Balanced)
<1> DEFINE Ledger == AccountInv /\ RowsInv /\ Covered /\ Balanced
<1>1. Init => Ledger
  BY AccountInit, RowsInit, CoveredInit, BalancedInit
<1>2. Ledger /\ [Next]_vars => Ledger'
  BY AccountInductive, RowsStep, CoveredStep, BalancedStep
<1> QED BY <1>1, <1>2, PTL DEF Spec

\* What Stripe has moved is on rows that later requests subtract, transfers
\* filed as failed apart, for any number of rows, requests and restarts
\* (payments.ts:271, 310).
THEOREM TransfersAreCovered == Spec => []TransfersCovered
<1>1. RowsInv /\ Covered => TransfersCovered
  BY CoveredCounts DEF RowsInv
<1> QED BY <1>1, LedgerSafe, PTL

\* Requests that run together are paid at most the earnings once for each tab,
\* transfers filed as failed apart (payments.ts:228, 271).
THEOREM OverpayIsBounded == Spec => []OverpayBound
<1>1. ASSUME RowsInv, Covered, Balanced PROVE OverpayBound
  <2> DEFINE P == StreamerPayout(revenue)
             N == Cardinality(Tabs)
  <2>1. TransfersCovered /\ TypeOK
    BY <1>1, CoveredCounts DEF RowsInv
  <2>2. SumOf(net, Counted) + SumOf(Pending, Tabs) <= N * P
    BY <1>1 DEF Balanced
  <2>3. /\ transferred \in Nat /\ misfiled \in Nat /\ SumOf(net, Counted) \in Nat
        /\ SumOf(Pending, Tabs) \in Nat /\ P \in Nat /\ N \in Nat
    BY <2>1, TotalsAreNat, PendingIs, PayoutIs DEF TypeOK
  <2>4. transferred <= SumOf(net, Counted) + misfiled
    BY <2>1, CountedIsTotal DEF TransfersCovered
  <2> HIDE DEF P, N
  <2>5. N * P \in Nat
    BY <2>3
  <2>6. transferred <= N * P + misfiled
    BY <2>2, <2>3, <2>4, <2>5
  <2> QED BY <2>6 DEF OverpayBound, N, P
<1>2. RowsInv /\ Covered /\ Balanced => OverpayBound
  BY <1>1
<1> QED BY <1>2, LedgerSafe, PTL

\* What Stripe has moved is on record and bounded by the earnings
\* (payments.ts:228, 271, 310).
THEOREM PayoutsAreCovered == Spec => []PayoutsCovered
BY TransfersAreCovered, OverpayIsBounded, PTL DEF PayoutsCovered

\* With a fee below one half (the default is 8 percent, stripe.service.ts:184)
\* the gross amounts of an emptied account are within a cent per withdrawal of
\* what the viewers paid (payments.ts:268); from one half on they need not be:
\* of one cent the fee may leave nothing to withdraw.
THEOREM GrossAmountsAgree == ASSUME FeePercent < 50 PROVE Spec => []GrossAgrees
<1>1. RowsInv /\ Covered /\ Balanced => GrossAgrees
  BY GrossCounts DEF RowsInv
<1> QED BY <1>1, LedgerSafe, PTL
=============================================================================
