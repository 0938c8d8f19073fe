----------------------------- MODULE TokenLedger -----------------------------
(***************************************************************************)
(* What the contract promises the API, whoever calls it and however often: *)
(* each job -- make the root of an episode, end it, make the branch of a   *)
(* card, make its fruit -- is done once at most, in the order of the tree, *)
(* and gets a token of its own.  StreamTreeContract keeps this promise and *)
(* so does the chain that ChainBridge sends its transactions to, which     *)
(* shows that the two speak of the same contract.                          *)
(***************************************************************************)
EXTENDS Naturals

CONSTANTS Episodes, Cards

VARIABLES
  token,   \* the token of each job, or 0
  hangs    \* the cards and the episodes whose roots their branches hang under

ledger == <<token, hangs>>

Jobs == [op : {"root", "end"}, key : Episodes] \cup [op : {"branch", "fruit"}, key : Cards]

Job(op, k) == [op |-> op, key |-> k]

Done(op, k) == token[Job(op, k)] # 0

LedgerInit == token = [j \in Jobs |-> 0] /\ hangs = {}

\* The jobs S get tokens which no other job of the same kind has.
Do(S) ==
  /\ \A j \in S : /\ token[j] = 0 /\ token'[j] # 0
                  /\ \A k \in Jobs \ {j} : k.op = j.op => token'[k] # token'[j]
  /\ \A j \in Jobs \ S : token'[j] = token[j]
  /\ token' \in [Jobs -> Nat]

MakeRoot(e) == Do({Job("root", e)}) /\ UNCHANGED hangs

EndRoot(e) == Done("root", e) /\ Do({Job("end", e)}) /\ UNCHANGED hangs

MakeBranch(c, e) ==
  /\ Done("root", e) /\ ~Done("end", e)
  /\ Do({Job("branch", c)})
  /\ hangs' = hangs \cup {<<c, e>>}

\* A batch.
MakeFruits(C) ==
  /\ \A c \in C : Done("branch", c) /\ \E e \in Episodes : <<c, e>> \in hangs /\ Done("end", e)
  /\ Do({Job("fruit", c) : c \in C})
  /\ UNCHANGED hangs

LedgerNext ==
  \/ \E e \in Episodes : MakeRoot(e) \/ EndRoot(e)
  \/ \E c \in Cards, e \in Episodes : MakeBranch(c, e)
  \/ \E C \in (SUBSET Cards) \ {{}} : MakeFruits(C)

LedgerSpec == LedgerInit /\ [][LedgerNext]_ledger
===============================================================================
