----------------------------- MODULE ChainBridge -----------------------------
(***************************************************************************)
(* The chain client of the API (services/blockchain.service.ts): a request *)
(* asks for one job -- create the root of an episode, end it, mint the     *)
(* branch of a card, mint its fruit -- and the client sends a transaction, *)
(* waits for it for a while, and sends it again after an error that is not *)
(* a revert.  A transaction that was given up may still be mined.          *)
(*                                                                         *)
(* Of the contract only what decides whether a job is refused is here;     *)
(* StreamTreeContract has the rest.  The node and the miners are external. *)
(***************************************************************************)
EXTENDS Naturals, FiniteSets, Sequences, SequencesExt

CONSTANTS
  Requests,       \* requests of the API that may call the client
  Episodes,
  Cards,
  EpisodeOf,      \* the episode of every card
  MaxRetries,     \* MAX_RETRIES (3 in the code): attempts after the first
  MaxFaults,      \* bound: answers lost, requests cut off
  Null

ASSUME CardsHaveEpisodes == EpisodeOf \in [Cards -> Episodes]
ASSUME RetriesAreNat == MaxRetries \in Nat /\ MaxFaults \in Nat
ASSUME RequestsAreFinite == IsFiniteSet(Requests)

Jobs == [op : {"root", "end"}, key : Episodes] \cup [op : {"branch", "fruit"}, key : Cards]

ASSUME JobsAreFinite == IsFiniteSet(Jobs)

VARIABLES
  minted,         \* the token a job has made on the chain, or 0; ends are counted like tokens
  pool,           \* transactions of the API's wallet, in the order of their nonces
  call,           \* the call of each request
  doubt,          \* jobs of which some call cannot know what came of them
  faults

chainVars  == <<minted, pool>>
bridgeVars == <<minted, pool, call, doubt>>

\* pc: "send", "wait" for the receipt, "mined" or "reverted" (the receipt is
\* there), "back" (returned).  tx tells the transactions of a request apart; id
\* 0 stands for a failure, and for null.
NoCall == [pc |-> "none", job |-> Null, attempt |-> 0, tx |-> 0, id |-> 0]

InitBridge ==
  /\ minted = [j \in Jobs |-> 0]
  /\ pool = <<>>
  /\ call = [r \in Requests |-> NoCall]
  /\ doubt = {} /\ faults = 0

Fault == faults < MaxFaults /\ faults' = faults + 1

Job(op, k) == [op |-> op, key |-> k]
Done(op, k) == minted[Job(op, k)] # 0

\* Variant for the checks: mintBranch does not look at the status of the root.
Allowed_AfterEnd(j) ==
  /\ minted[j] = 0
  /\ CASE j.op = "root"   -> TRUE
       [] j.op = "end"    -> Done("root", j.key)
       [] j.op = "branch" -> Done("root", EpisodeOf[j.key])
       [] j.op = "fruit"  -> Done("branch", j.key) /\ Done("end", EpisodeOf[j.key])

\* What the contract requires of a job at the moment it is executed.
Allowed(j) ==
  /\ minted[j] = 0
  /\ CASE j.op = "root"   -> TRUE
       [] j.op = "end"    -> Done("root", j.key)
       [] j.op = "branch" -> Done("root", EpisodeOf[j.key]) /\ ~Done("end", EpisodeOf[j.key])
       [] j.op = "fruit"  -> Done("branch", j.key) /\ Done("end", EpisodeOf[j.key])

\* The next id of the contract for the tokens of this kind.
NextId(op) == Cardinality({j \in Jobs : j.op = op /\ minted[j] # 0}) + 1

-----------------------------------------------------------------------------
(* The calls of a request *)

\* createRootToken, endRootToken, mintBranchToken, batchMintFruitTokens
Begin(r, j) ==
  /\ call' = [call EXCEPT ![r] = [NoCall EXCEPT !.pc = "send", !.job = j]]
  /\ doubt' = IF \E q \in Requests \ {r} : call[q].job = j THEN doubt \cup {j} ELSE doubt

Returned(r, id) == [call EXCEPT ![r] = [call[r] EXCEPT !.pc = "back", !.tx = 0, !.id = id]]

\* The catch of withRetry, for an error that is not a revert.
Retried(r) ==
  IF call[r].attempt < MaxRetries
  THEN [call EXCEPT ![r] = [call[r] EXCEPT !.pc = "send", !.tx = 0, !.attempt = call[r].attempt + 1]]
  ELSE Returned(r, 0)

\* The transaction r's attempt sends: a new one.
Tx(r) ==
  [by |-> r, job |-> call[r].job,
   tx |-> CHOOSE n \in 1..(Len(pool) + 1) : \A i \in DOMAIN pool : pool[i].by = r => pool[i].tx # n]

\* The estimate of gas runs the job; what the contract refuses is not sent.
SendRevert(r) ==
  /\ call[r].pc = "send" /\ ~Allowed(call[r].job)
  /\ call' = Returned(r, 0)
  /\ UNCHANGED <<chainVars, doubt, faults>>

Send(r) ==
  /\ call[r].pc = "send" /\ Allowed(call[r].job)
  /\ pool' = Append(pool, Tx(r))
  /\ call' = [call EXCEPT ![r] = [call[r] EXCEPT !.pc = "wait", !.tx = Tx(r).tx]]
  /\ UNCHANGED <<minted, doubt, faults>>

\* The node cannot be reached, or the nonce is another transaction's.
SendError(r) ==
  /\ call[r].pc = "send"
  /\ call' = Retried(r)
  /\ UNCHANGED <<chainVars, doubt, faults>>

\* The node took the transaction and its answer was lost.
SendLost(r) ==
  /\ call[r].pc = "send" /\ Allowed(call[r].job) /\ Fault
  /\ pool' = Append(pool, Tx(r))
  /\ call' = Retried(r)
  /\ doubt' = doubt \cup {call[r].job}
  /\ UNCHANGED minted

\* Variant for the checks: the newest token is taken for the one of the call.
Confirmed_Newest(r) ==
  /\ call[r].pc = "mined"
  /\ call' = Returned(r, NextId(call[r].job.op) - 1)
  /\ UNCHANGED <<chainVars, doubt, faults>>

\* Variant for the checks: the event of another kind of job is looked for.
Confirmed_NoEvent(r) ==
  /\ call[r].pc = "mined"
  /\ call' = Returned(r, IF call[r].job.op = "fruit" THEN 0 ELSE call[r].id)
  /\ UNCHANGED <<chainVars, doubt, faults>>

\* waitForTransaction resolves; the id is read from the event in the receipt.
Confirmed(r) ==
  /\ call[r].pc = "mined"
  /\ call' = Returned(r, call[r].id)
  /\ UNCHANGED <<chainVars, doubt, faults>>

\* ... or rejects: the transaction was mined and reverted.
ConfirmedRevert(r) ==
  /\ call[r].pc = "reverted"
  /\ call' = Returned(r, 0)
  /\ UNCHANGED <<chainVars, doubt, faults>>

\* Variant for the checks: tx.wait() alone, without the race.
TimedOut_Never(r) == call[r].pc = "none" /\ call[r].job # Null /\ UNCHANGED <<bridgeVars, faults>>

\* ... or the timeout wins the race.
TimedOut(r) ==
  /\ call[r].pc = "wait"
  /\ call' = Retried(r)
  /\ doubt' = doubt \cup {call[r].job}
  /\ UNCHANGED <<chainVars, faults>>

-----------------------------------------------------------------------------
(* The chain *)

\* The receipt reaches the call that still waits for this very transaction.
Notified(tx, pc, id) ==
  IF call[tx.by].pc = "wait" /\ call[tx.by].tx = tx.tx
  THEN [call EXCEPT ![tx.by] = [call[tx.by] EXCEPT !.pc = pc, !.id = id]]
  ELSE call

Mine ==
  /\ pool # <<>> /\ pool' = Tail(pool)
  /\ LET tx == Head(pool) IN
     IF Allowed(tx.job)
     THEN /\ minted' = [minted EXCEPT ![tx.job] = NextId(tx.job.op)]
          /\ call' = Notified(tx, "mined", NextId(tx.job.op))
     ELSE call' = Notified(tx, "reverted", 0) /\ UNCHANGED minted
  /\ UNCHANGED <<doubt, faults>>

\* The node forgets a transaction; the next one takes its nonce.
Drop ==
  /\ Fault
  /\ \E i \in DOMAIN pool : pool' = RemoveAt(pool, i)
  /\ UNCHANGED <<minted, call, doubt>>

BridgeStep(r) ==
  \/ Send(r) \/ SendRevert(r) \/ SendError(r) \/ SendLost(r)
  \/ Confirmed(r) \/ ConfirmedRevert(r) \/ TimedOut(r)

ChainStep == Mine \/ Drop
=============================================================================
