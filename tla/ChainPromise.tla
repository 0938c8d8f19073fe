----------------------------- MODULE ChainPromise -----------------------------
(***************************************************************************)
(* What the chain client promises the handlers that call it.  A call is    *)
(* asked and answered, with the token of its job or with a failure, and    *)
(* the job is done while a call for it is open.  Only a job that has come  *)
(* into doubt -- a call gave up waiting, lost an answer, was cut off by a  *)
(* restart, or was not the only one -- may be done later, or not at all.   *)
(***************************************************************************)
EXTENDS TokenLedger

CONSTANTS Requests, Null

VARIABLES
  asks,    \* the call of each request
  doubt    \* jobs in doubt

promiseVars == <<ledger, asks, doubt>>

NoAsk == [pc |-> "none", job |-> Null, id |-> 0]

PromiseInit ==
  /\ LedgerInit
  /\ asks = [r \in Requests |-> NoAsk] /\ doubt = {}

\* j comes into doubt, or does not.
MayDoubt(j) == doubt' = doubt \/ doubt' = doubt \cup {j}

Ask(r, j) ==
  /\ asks[r] = NoAsk
  /\ asks' = [asks EXCEPT ![r] = [pc |-> "asked", job |-> j, id |-> 0]]
  /\ doubt' = IF \E q \in Requests \ {r} : asks[q].job = j THEN doubt \cup {j} ELSE doubt
  /\ UNCHANGED ledger

Open(j) == \E r \in Requests : asks[r].pc = "asked" /\ asks[r].job = j

Wanted(op, k) == Open(Job(op, k)) \/ Job(op, k) \in doubt

Execute ==
  /\ \/ \E e \in Episodes : Wanted("root", e) /\ MakeRoot(e)
     \/ \E e \in Episodes : Wanted("end", e) /\ EndRoot(e)
     \/ \E c \in Cards, e \in Episodes : Wanted("branch", c) /\ MakeBranch(c, e)
     \/ \E c \in Cards : Wanted("fruit", c) /\ MakeFruits({c})
  /\ UNCHANGED <<asks, doubt>>

\* An attempt fails and another one follows.
GoOn(r) ==
  /\ asks[r].pc = "asked" /\ MayDoubt(asks[r].job)
  /\ UNCHANGED <<ledger, asks>>

Succeed(r) ==
  /\ asks[r].pc = "asked" /\ token[asks[r].job] # 0
  /\ asks' = [asks EXCEPT ![r] = [pc |-> "answered", job |-> @.job, id |-> token[@.job]]]
  /\ UNCHANGED <<ledger, doubt>>

Fail(r) ==
  /\ asks[r].pc = "asked" /\ MayDoubt(asks[r].job)
  /\ asks' = [asks EXCEPT ![r].pc = "answered"]
  /\ UNCHANGED ledger

\* The handler has stored what it got.
Close(r) ==
  /\ asks[r].pc = "answered" /\ MayDoubt(asks[r].job)
  /\ asks' = [asks EXCEPT ![r] = NoAsk]
  /\ UNCHANGED ledger

Stop ==
  /\ asks' = [r \in Requests |-> NoAsk]
  /\ doubt' = doubt \cup {asks[r].job : r \in {q \in Requests : asks[q].pc # "none"}}
  /\ UNCHANGED ledger

PromiseNext ==
  \/ \E r \in Requests : (\E j \in Jobs : Ask(r, j)) \/ GoOn(r) \/ Succeed(r) \/ Fail(r) \/ Close(r)
  \/ Execute \/ Stop

PromiseSpec == PromiseInit /\ [][PromiseNext]_promiseVars
===============================================================================
