------------------------- MODULE EpisodeDraftsProofs -------------------------
(***************************************************************************)
(* The tokens of the chain and the columns that name them, proved for any  *)
(* numbers of requests, retries, episodes, cards and faults: no column     *)
(* holds another job's token, and a token that no column holds is one that *)
(* a call could not know of.  At the end, the images: the one a row shows  *)
(* is in the store; the content of an episode, which a launch freezes but  *)
(* for the requests that are in flight; and that the calls of the chain    *)
(* client implement ChainPromise.                                          *)
(***************************************************************************)
EXTENDS Artwork, FiniteSetTheorems, SequenceTheorems, TLAPS

-----------------------------------------------------------------------------
(* The chain client.                                                       *)

CallType ==
  [pc : {"none", "send", "wait", "mined", "reverted", "back"}, job : Jobs \cup {Null},
   attempt : Nat, tx : Nat, id : Nat]

TxType == [by : Requests, job : Jobs, tx : Nat]

Calling(r, j) == call[r].pc # "none" /\ call[r].job = j

\* The token a call brings.
Brings(r) == call[r].pc \in {"mined", "back"} /\ call[r].id # 0

Typed ==
  /\ minted \in [Jobs -> Nat]
  /\ call \in [Requests -> CallType]
  /\ pool \in Seq(TxType)
  /\ \A r \in Requests : call[r].pc # "none" => call[r].job \in Jobs

\* The transactions of a request are told apart, and the one it waits for is
\* for its job.
Waits ==
  /\ \A i, k \in DOMAIN pool : i # k => pool[i].by # pool[k].by \/ pool[i].tx # pool[k].tx
  /\ \A i \in DOMAIN pool :
       LET q == pool[i].by IN
       call[q].pc = "wait" /\ call[q].tx = pool[i].tx => call[q].job = pool[i].job

\* What a call brings is the token of its job.
Ids == \A r \in Requests : Brings(r) => call[r].id = minted[call[r].job]

\* A job without doubt has one call, which waits for its only transaction.
Single ==
  \A q, r \in Requests : \A j \in Jobs :
     Calling(q, j) /\ Calling(r, j) /\ j \notin doubt => q = r

Waited ==
  \A i \in DOMAIN pool : pool[i].job \notin doubt =>
     LET q == pool[i].by IN
     call[q].pc = "wait" /\ call[q].job = pool[i].job /\ call[q].tx = pool[i].tx

BridgeInv == Typed /\ Waits /\ Ids /\ Single /\ Waited

-----------------------------------------------------------------------------
LEMMA NoCallTyped == NoCall \in CallType /\ NoCall.pc = "none" /\ NoCall.id = 0
  BY DEF NoCall, CallType

LEMMA PoolTyped ==
  ASSUME Typed
  PROVE  \A i \in DOMAIN pool : pool[i] \in TxType /\ pool[i].by \in Requests /\ pool[i].job \in Jobs
<1>1. DOMAIN pool = 1..Len(pool) /\ \A i \in 1..Len(pool) : pool[i] \in TxType
  BY DEF Typed
<1> QED BY <1>1 DEF TxType

\* An id of the contract is positive.
LEMMA IdsPositive == ASSUME NEW op PROVE NextId(op) \in Nat /\ NextId(op) # 0
<1>1. {j \in Jobs : j.op = op /\ minted[j] # 0} \in SUBSET Jobs
  OBVIOUS
<1>2. IsFiniteSet({j \in Jobs : j.op = op /\ minted[j] # 0})
  BY <1>1, JobsAreFinite, FS_Subset
<1>3. Cardinality({j \in Jobs : j.op = op /\ minted[j] # 0}) \in Nat
  BY <1>2, FS_CardinalityType
<1> QED BY <1>3 DEF NextId

\* One more transaction than numbers: two have the same.
LEMMA Segment ==
  ASSUME NEW n \in Nat PROVE IsFiniteSet(1..n) /\ Cardinality(1..n) = n
<1>1. 1 \in Int /\ n \in Int
  OBVIOUS
<1>2. IsFiniteSet(1..n) /\ Cardinality(1..n) = IF 1 > n THEN 0 ELSE n - 1 + 1
  BY <1>1, FS_Interval
<1> QED BY <1>2

LEMMA Crowded ==
  ASSUME NEW n \in Nat, NEW f \in [1..(n + 1) -> 1..n]
  PROVE  \E x, y \in 1..(n + 1) : x # y /\ f[x] = f[y]
<1> DEFINE m == n + 1
<1>1. m \in Nat /\ n < m /\ f \in [1..m -> 1..n]
  OBVIOUS
<1> HIDE DEF m
<1>2. /\ IsFiniteSet(1..n) /\ Cardinality(1..n) = n
      /\ IsFiniteSet(1..m) /\ Cardinality(1..m) = m
  BY <1>1, Segment
<1>3. \E x, y \in 1..m : x # y /\ f[x] = f[y]
  BY <1>1, <1>2, FS_PigeonHole
<1> QED BY <1>3 DEF m

\* There is always a number for one more transaction.
LEMMA TxFresh ==
  ASSUME Typed, NEW r \in Requests, call[r].pc # "none"
  PROVE  /\ Tx(r) \in TxType /\ Tx(r).by = r /\ Tx(r).job = call[r].job
         /\ \A i \in DOMAIN pool : pool[i].by = r => pool[i].tx # Tx(r).tx
<1> DEFINE L == Len(pool)
           Free(n) == \A i \in DOMAIN pool : pool[i].by = r => pool[i].tx # n
<1>1. L \in Nat /\ DOMAIN pool = 1..L
  BY DEF Typed
<1>2. \E n \in 1..(L + 1) : Free(n)
  <2> SUFFICES ASSUME \A n \in 1..(L + 1) : \E i \in 1..L : pool[i].tx = n
               PROVE  FALSE
    BY <1>1
  <2> DEFINE f == [n \in 1..(L + 1) |-> CHOOSE i \in 1..L : pool[i].tx = n]
  <2>1. ASSUME NEW n \in 1..(L + 1) PROVE f[n] \in 1..L /\ pool[f[n]].tx = n
    OBVIOUS
  <2>2. f \in [1..(L + 1) -> 1..L]
    BY <2>1
  <2> HIDE DEF f
  <2> HIDE DEF L
  <2>3. \E x, y \in 1..(L + 1) : x # y /\ f[x] = f[y]
    BY <1>1, <2>2, Crowded
  <2> QED BY <2>1, <2>3
<1> DEFINE n0 == CHOOSE n \in 1..(L + 1) : Free(n)
<1>3. n0 \in 1..(L + 1) /\ Free(n0)
  BY <1>2
<1>4. Tx(r) = [by |-> r, job |-> call[r].job, tx |-> n0]
  BY DEF Tx
<1> HIDE DEF n0, L
<1>5. n0 \in Nat
  BY <1>1, <1>3
<1> QED BY <1>3, <1>4, <1>5 DEF TxType, Typed

\* One call goes on: it stays with its job, and keeps what it brings.
Goes(r, c) ==
  /\ call' = [call EXCEPT ![r] = c]
  /\ c \in CallType /\ c.pc # "none" /\ c.job = call[r].job
  /\ call[r].pc # "none"
  /\ (c.pc \in {"mined", "back"} /\ c.id # 0) => Brings(r) /\ c.id = call[r].id
  /\ Brings(r) => c.pc \in {"mined", "back"} /\ c.id = call[r].id
  /\ doubt \subseteq doubt'

\* It sends nothing, and gives up waiting only with doubt.
LEMMA GoesKeeps ==
  ASSUME BridgeInv, NEW r \in Requests, NEW c, Goes(r, c), UNCHANGED <<minted, pool>>,
         c.pc # "wait", call[r].pc = "wait" => call[r].job \in doubt'
  PROVE  BridgeInv'
<1> USE DEF BridgeInv
<1>1. call'[r] = c /\ \A q \in Requests \ {r} : call'[q] = call[q]
  BY DEF Goes, Typed
<1>2. Typed'
  BY <1>1 DEF Typed, Goes
<1>3. Waits'
  BY <1>1 DEF Waits, Typed, Goes, TxType
<1>4. Ids'
  BY <1>1 DEF Ids, Brings, Goes
<1>5. Single'
  BY <1>1 DEF Single, Calling, Goes
<1>6. Waited'
  BY <1>1 DEF Waited, Goes, Typed, TxType
<1> QED BY <1>2, <1>3, <1>4, <1>5, <1>6

\* The attempt to send: a transaction joins the pool, and the call waits for
\* it or the job is in doubt.
LEMMA SendKeeps ==
  ASSUME BridgeInv, NEW r \in Requests, NEW c, Goes(r, c), call[r].pc = "send",
         UNCHANGED minted, pool' = Append(pool, Tx(r)),
         \/ c.pc = "wait" /\ c.tx = Tx(r).tx
         \/ c.pc # "wait" /\ call[r].job \in doubt'
  PROVE  BridgeInv'
<1> USE DEF BridgeInv
<1>1. call'[r] = c /\ \A q \in Requests \ {r} : call'[q] = call[q]
  BY DEF Goes, Typed
<1> DEFINE L == Len(pool)
<1>2. /\ Tx(r) \in TxType /\ Tx(r).by = r /\ Tx(r).job = call[r].job
      /\ \A i \in DOMAIN pool : pool[i].by = r => pool[i].tx # Tx(r).tx
  BY TxFresh
<1>3. /\ pool' \in Seq(TxType) /\ DOMAIN pool = 1..L /\ DOMAIN pool' = 1..(L + 1) /\ L \in Nat
      /\ pool'[L + 1] = Tx(r) /\ \A i \in 1..L : pool'[i] = pool[i]
  BY <1>2 DEF Typed
<1>4. Typed'
  BY <1>1, <1>3 DEF Typed, Goes
<1> HIDE DEF L
<1>5. \A i \in DOMAIN pool' : i \in DOMAIN pool \/ i = L + 1
  BY <1>3
<1>6. \A i \in 1..L : pool[i] \in TxType
  BY <1>3 DEF Typed
<1>7. Waits'
  <2>1. \A i, k \in DOMAIN pool' :
          i # k => pool'[i].by # pool'[k].by \/ pool'[i].tx # pool'[k].tx
    BY <1>2, <1>3, <1>5 DEF Waits
  <2>2. ASSUME NEW i \in DOMAIN pool' PROVE
          call'[pool'[i].by].pc = "wait" /\ call'[pool'[i].by].tx = pool'[i].tx
             => call'[pool'[i].by].job = pool'[i].job
    <3>1. CASE i = L + 1
      BY <1>1, <1>2, <1>3, <3>1 DEF Goes
    <3>2. CASE i \in 1..L /\ pool[i].by = r
      BY <1>1, <1>2, <1>3, <3>2 DEF Goes
    <3>3. CASE i \in 1..L /\ pool[i].by # r
      BY <1>1, <1>3, <1>6, <3>3 DEF Waits, TxType
    <3> QED BY <1>3, <1>5, <3>1, <3>2, <3>3
  <2> QED BY <2>1, <2>2 DEF Waits
<1>8. Ids'
  BY <1>1 DEF Ids, Brings, Goes
<1>9. Single'
  BY <1>1 DEF Single, Calling, Goes
<1>10. ASSUME NEW i \in DOMAIN pool', pool'[i].job \notin doubt' PROVE
         LET q == pool'[i].by IN
         call'[q].pc = "wait" /\ call'[q].job = pool'[i].job /\ call'[q].tx = pool'[i].tx
  <2>1. CASE i = L + 1
    BY <1>1, <1>2, <1>3, <1>10, <2>1 DEF Goes
  <2>2. CASE i \in 1..L
    <3>1. call[pool[i].by].pc = "wait" /\ call[pool[i].by].job = pool[i].job
          /\ call[pool[i].by].tx = pool[i].tx
      BY <1>3, <1>10, <2>2 DEF Waited, Goes
    <3> QED BY <1>1, <1>3, <1>6, <2>2, <3>1 DEF TxType
  <2> QED BY <1>3, <1>5, <2>1, <2>2
<1> QED BY <1>4, <1>7, <1>8, <1>9, <1>10 DEF Waited

\* A request of the bridge makes its call go on, in one of two ways.
LEMMA MovesKeep ==
  ASSUME BridgeInv, NEW r \in Requests, BridgeStep(r)
  PROVE  BridgeInv' /\ minted' = minted /\ \E c : Goes(r, c)
<1> DEFINE k == call[r]
<1>1. k \in CallType /\ MaxRetries \in Nat
  BY RetriesAreNat DEF BridgeInv, Typed, CallType
<1>2. ASSUME NEW id, id \in Nat, k.pc # "none", call' = Returned(r, id), doubt \subseteq doubt',
             Brings(r) <=> id # 0, Brings(r) => id = k.id
      PROVE  \E c : Goes(r, c) /\ c.pc # "wait"
  <2> DEFINE c == [k EXCEPT !.pc = "back", !.tx = 0, !.id = id]
  <2>1. c \in CallType /\ c.pc = "back" /\ c.job = k.job /\ c.id = id
    BY <1>1, <1>2 DEF CallType
  <2>2. call' = [call EXCEPT ![r] = c]
    BY <1>2 DEF Returned
  <2> HIDE DEF c
  <2>3. Goes(r, c) /\ c.pc # "wait"
    BY <1>2, <2>1, <2>2 DEF Goes
  <2> QED BY <2>3
<1>3. ASSUME k.pc \in {"send", "wait", "reverted"}, call' = Returned(r, 0), doubt \subseteq doubt'
      PROVE  \E c : Goes(r, c) /\ c.pc # "wait"
  <2>1. ~Brings(r)
    BY <1>3 DEF Brings
  <2>2. PICK id : id = 0
    OBVIOUS
  <2>3. id \in Nat /\ call' = Returned(r, id) /\ k.pc # "none" /\ (Brings(r) <=> id # 0)
    BY <1>3, <2>1, <2>2
  <2> QED BY <1>2, <1>3, <2>1, <2>3
<1>4. ASSUME k.pc \in {"send", "wait"}, call' = Retried(r), doubt \subseteq doubt'
      PROVE  \E c : Goes(r, c) /\ c.pc # "wait"
  <2>1. CASE k.attempt < MaxRetries
    <3> DEFINE c == [k EXCEPT !.pc = "send", !.tx = 0, !.attempt = k.attempt + 1]
    <3>0. k.attempt + 1 \in Nat
      BY <1>1 DEF CallType
    <3>1. c \in CallType /\ c.pc = "send" /\ c.job = k.job /\ c.id = k.id
      BY <1>1, <3>0 DEF CallType
    <3>2. call' = [call EXCEPT ![r] = c]
      BY <1>4, <2>1 DEF Retried
    <3> HIDE DEF c
    <3>3. Goes(r, c) /\ c.pc # "wait"
      BY <1>4, <3>1, <3>2 DEF Goes, Brings
    <3> QED BY <3>3
  <2>2. CASE ~(k.attempt < MaxRetries)
    <3>1. call' = Returned(r, 0)
      BY <1>4, <2>2 DEF Retried
    <3> QED BY <1>3, <1>4, <3>1
  <2> QED BY <2>1, <2>2
<1>5. CASE Send(r)
  <2> DEFINE c == [k EXCEPT !.pc = "wait", !.tx = Tx(r).tx]
  <2>1. call' = [call EXCEPT ![r] = c] /\ k.pc = "send"
    BY <1>5 DEF Send
  <2>2. Tx(r).tx \in Nat
    BY <2>1, TxFresh DEF TxType, BridgeInv
  <2>3. c \in CallType /\ c.pc = "wait" /\ c.job = k.job /\ c.tx = Tx(r).tx
    BY <1>1, <2>2 DEF CallType
  <2> HIDE DEF c
  <2>4. Goes(r, c)
    BY <1>5, <2>1, <2>3 DEF Goes, Brings, Send
  <2> QED BY <1>5, <2>1, <2>3, <2>4, SendKeeps DEF Send
<1>6. CASE SendLost(r)
  <2>1. PICK c : Goes(r, c) /\ c.pc # "wait"
    BY <1>4, <1>6 DEF SendLost
  <2> QED BY <1>6, <2>1, SendKeeps DEF SendLost
<1>7. CASE TimedOut(r)
  <2>1. PICK c : Goes(r, c) /\ c.pc # "wait"
    BY <1>4, <1>7 DEF TimedOut
  <2> QED BY <1>7, <2>1, GoesKeeps DEF TimedOut, chainVars
<1>8. CASE SendError(r)
  <2>1. PICK c : Goes(r, c) /\ c.pc # "wait"
    BY <1>4, <1>8 DEF SendError
  <2> QED BY <1>8, <2>1, GoesKeeps DEF SendError, chainVars
<1>9. CASE SendRevert(r) \/ Confirmed(r) \/ ConfirmedRevert(r)
  <2>1. \E c : Goes(r, c) /\ c.pc # "wait"
    <3>1. CASE Confirmed(r)
      <4>1. k.id \in Nat /\ k.pc # "none" /\ call' = Returned(r, k.id) /\ doubt' = doubt
        BY <1>1, <3>1 DEF Confirmed, CallType
      <4>2. (Brings(r) <=> k.id # 0) /\ (Brings(r) => k.id = k.id)
        BY <3>1 DEF Confirmed, Brings
      <4> QED BY <1>2, <4>1, <4>2
    <3>2. CASE SendRevert(r) \/ ConfirmedRevert(r)
      BY <1>3, <3>2 DEF SendRevert, ConfirmedRevert
    <3> QED BY <1>9, <3>1, <3>2
  <2>2. k.pc # "wait" /\ UNCHANGED <<minted, pool>>
    BY <1>9 DEF SendRevert, Confirmed, ConfirmedRevert, chainVars
  <2>3. PICK c : Goes(r, c) /\ c.pc # "wait"
    BY <2>1
  <2> QED BY <2>2, <2>3, GoesKeeps
<1> QED BY <1>5, <1>6, <1>7, <1>8, <1>9 DEF BridgeStep

\* A request asks for a job; another call for it brings doubt.
LEMMA BeginKeeps ==
  ASSUME BridgeInv, NEW r \in Requests, NEW j \in Jobs, call[r].pc = "none",
         Begin(r, j), UNCHANGED <<minted, pool>>
  PROVE  /\ BridgeInv' /\ doubt \subseteq doubt'
         /\ call'[r].pc = "send" /\ call'[r].job = j
         /\ \A q \in Requests \ {r} : call'[q] = call[q]
<1> DEFINE c == [NoCall EXCEPT !.pc = "send", !.job = j]
<1>1. c \in CallType /\ c.pc = "send" /\ c.job = j
  BY NoCallTyped DEF CallType
<1>2. call' = [call EXCEPT ![r] = c]
  BY DEF Begin
<1> HIDE DEF c
<1> USE DEF BridgeInv
<1>3. call'[r] = c /\ c.pc = "send" /\ c.job = j /\ \A q \in Requests \ {r} : call'[q] = call[q]
  BY <1>1, <1>2 DEF Typed
<1>4. /\ doubt \subseteq doubt'
      /\ \A q \in Requests \ {r} : call[q].job = j => j \in doubt'
  BY DEF Begin
<1>5. Typed'
  BY <1>1, <1>2, <1>3 DEF Typed
<1>6. Waits'
  BY <1>3, PoolTyped DEF Waits
<1>7. Ids'
  BY <1>3 DEF Ids, Brings
<1>8. Single'
  BY <1>3, <1>4 DEF Single, Calling
<1>9. Waited'
  BY <1>3, <1>4, PoolTyped DEF Waited
<1> QED BY <1>3, <1>4, <1>5, <1>6, <1>7, <1>8, <1>9

\* The handler takes what the call returned.
LEMMA HangupKeeps ==
  ASSUME BridgeInv, NEW r \in Requests, call[r].pc \in {"none", "back"},
         call' = [call EXCEPT ![r] = NoCall], doubt \subseteq doubt', UNCHANGED <<minted, pool>>
  PROVE  BridgeInv'
<1> USE DEF BridgeInv
<1>1. call'[r] = NoCall /\ \A q \in Requests \ {r} : call'[q] = call[q]
  BY DEF Typed
<1>2. Typed'
  BY <1>1, NoCallTyped DEF Typed
<1>3. Waits'
  BY <1>1, NoCallTyped DEF Waits, Typed, TxType
<1>4. Ids'
  BY <1>1, NoCallTyped DEF Ids, Brings
<1>5. Single'
  BY <1>1, NoCallTyped DEF Single, Calling
<1>6. Waited'
  BY <1>1 DEF Waited, Typed, TxType
<1> QED BY <1>2, <1>3, <1>4, <1>5, <1>6

\* The process stops: what it was waiting for is in doubt.
LEMMA CrashKeeps ==
  ASSUME BridgeInv, call' = [r \in Requests |-> NoCall], UNCHANGED <<minted, pool>>,
         doubt' = doubt \cup {call[r].job : r \in {q \in Requests : call[q].pc # "none"}}
  PROVE  BridgeInv'
<1> USE DEF BridgeInv
<1>1. \A r \in Requests : call'[r] = NoCall
  OBVIOUS
<1>2. \A r \in Requests : call[r].pc # "none" => call[r].job \in doubt'
  OBVIOUS
<1>3. Typed'
  BY <1>1, NoCallTyped DEF Typed
<1>4. Waits'
  BY <1>1, NoCallTyped, PoolTyped DEF Waits
<1>5. Ids'
  BY <1>1, NoCallTyped DEF Ids, Brings
<1>6. Single'
  BY <1>1, NoCallTyped DEF Single, Calling
<1>7. Waited'
  <2> SUFFICES ASSUME NEW i \in DOMAIN pool', pool'[i].job \notin doubt' PROVE FALSE
    BY DEF Waited
  <2>1. call[pool[i].by].pc = "wait" /\ call[pool[i].by].job = pool[i].job
    BY DEF Waited
  <2> QED BY <1>2, <2>1, PoolTyped
<1> QED BY <1>3, <1>4, <1>5, <1>6, <1>7

\* The places of the transactions that stay in the pool.
Stay(g) ==
  /\ pool' \in Seq(TxType)
  /\ \A i \in DOMAIN pool' : g[i] \in DOMAIN pool /\ pool'[i] = pool[g[i]]
  /\ \A i, k \in DOMAIN pool' : i # k => g[i] # g[k]

LEMMA TailStays ==
  ASSUME Typed, pool # <<>>, pool' = Tail(pool)
  PROVE  /\ Head(pool) = pool[1] /\ 1 \in DOMAIN pool
         /\ \E g : Stay(g) /\ \A i \in DOMAIN pool' : g[i] # 1
<1> DEFINE g == [i \in DOMAIN pool' |-> i + 1]
           L == Len(pool)
<1>1. pool \in Seq(TxType) /\ L \in Nat /\ L # 0 /\ DOMAIN pool = 1..L
  BY DEF Typed
<1>2. /\ pool' \in Seq(TxType) /\ DOMAIN pool' = 1..(L - 1)
      /\ \A i \in 1..(L - 1) : pool'[i] = pool[i + 1]
  BY <1>1
<1>3. Head(pool) = pool[1] /\ 1 \in DOMAIN pool
  BY <1>1
<1> HIDE DEF L
<1>4. \A i \in DOMAIN pool' : g[i] = i + 1 /\ i \in 1..(L - 1)
  BY <1>2
<1> HIDE DEF g
<1>5. Stay(g) /\ \A i \in DOMAIN pool' : g[i] # 1
  BY <1>1, <1>2, <1>4 DEF Stay
<1> QED BY <1>3, <1>5

LEMMA RestStays ==
  ASSUME Typed, NEW n \in DOMAIN pool, pool' = RemoveAt(pool, n)
  PROVE  \E g : Stay(g)
<1> DEFINE L == Len(pool)
           before == SubSeq(pool, 1, n - 1)
           after == SubSeq(pool, n + 1, L)
           g == [i \in DOMAIN pool' |-> IF i < n THEN i ELSE i + 1]
<1>1. pool \in Seq(TxType) /\ L \in Nat /\ DOMAIN pool = 1..L /\ n \in 1..L
  BY DEF Typed
<1>2. before \in Seq(TxType) /\ Len(before) = n - 1 /\ \A i \in 1..(n - 1) : before[i] = pool[i]
  BY <1>1
<1>3. after \in Seq(TxType) /\ Len(after) = L - n /\ \A i \in 1..(L - n) : after[i] = pool[n + i]
  BY <1>1
<1>4. pool' = before \o after
  BY DEF RemoveAt
<1> HIDE DEF before, after, L
<1>5. pool' \in Seq(TxType) /\ Len(pool') = Len(before) + Len(after)
  BY <1>2, <1>3, <1>4
<1>6. \A i \in 1..Len(pool') : pool'[i] = IF i <= Len(before) THEN before[i] ELSE after[i - Len(before)]
  BY <1>2, <1>3, <1>4, <1>5
<1>7. Len(pool') = L - 1 /\ DOMAIN pool' = 1..(L - 1)
  BY <1>1, <1>2, <1>3, <1>5
<1>8. \A i \in 1..(L - 1) : pool'[i] = IF i < n THEN pool[i] ELSE pool[i + 1]
  <2> SUFFICES ASSUME NEW i \in 1..(L - 1) PROVE pool'[i] = IF i < n THEN pool[i] ELSE pool[i + 1]
    OBVIOUS
  <2>1. CASE i < n
    BY <1>1, <1>2, <1>6, <1>7, <2>1
  <2>2. CASE ~(i < n)
    <3>1. pool'[i] = after[i - (n - 1)] /\ i - (n - 1) \in 1..(L - n)
      BY <1>1, <1>2, <1>6, <1>7, <2>2
    <3>2. n + (i - (n - 1)) = i + 1
      BY <1>1
    <3> QED BY <1>3, <2>2, <3>1, <3>2
  <2> QED BY <2>1, <2>2
<1>9. \A i \in DOMAIN pool' : i \in 1..(L - 1) /\ g[i] = IF i < n THEN i ELSE i + 1
  BY <1>7
<1> HIDE DEF g
<1>10. Stay(g)
  BY <1>1, <1>5, <1>7, <1>8, <1>9 DEF Stay
<1> QED BY <1>10

\* The node forgets a transaction.
LEMMA DropKeeps ==
  ASSUME BridgeInv, NEW g, Stay(g), UNCHANGED <<minted, call, doubt>>
  PROVE  BridgeInv'
<1> USE DEF BridgeInv
<1>1. Typed' /\ Ids' /\ Single'
  BY DEF Stay, Typed, Ids, Single, Brings, Calling
<1>2. Waits'
  BY DEF Stay, Waits
<1>3. Waited'
  BY DEF Stay, Waited
<1> QED BY <1>1, <1>2, <1>3

\* A transaction is mined.  A token it makes is brought by the call that waits
\* for it, unless its job is in doubt.
LEMMA MineKeeps ==
  ASSUME BridgeInv, Mine
  PROVE  /\ BridgeInv' /\ doubt' = doubt
         /\ \A q \in Requests : \/ call'[q] = call[q]
                               \/ /\ call[q].pc = "wait" /\ call'[q].pc # "none"
                                  /\ call'[q].job = call[q].job
         /\ \A j \in Jobs : minted'[j] # minted[j] =>
              minted[j] = 0 /\ (j \in doubt \/ \E q \in Requests : (call[q].job = j /\ Brings(q))')
<1> USE DEF BridgeInv
<1> DEFINE tx == Head(pool)
           q == tx.by
           id == NextId(tx.job.op)
<1>1. PICK g : Stay(g) /\ \A i \in DOMAIN pool' : g[i] # 1
  BY TailStays DEF Mine
<1>2. tx = pool[1] /\ 1 \in DOMAIN pool
  BY TailStays DEF Mine
<1>3. tx \in TxType /\ q \in Requests /\ tx.job \in Jobs
  BY <1>2, PoolTyped
<1>4. id \in Nat /\ id # 0
  BY IdsPositive
<1>5. doubt' = doubt
  BY DEF Mine
<1>6. \/ /\ Allowed(tx.job) /\ minted' = [minted EXCEPT ![tx.job] = id]
         /\ call' = Notified(tx, "mined", id)
      \/ call' = Notified(tx, "reverted", 0) /\ minted' = minted
  BY DEF Mine
<1> DEFINE waits == call[q].pc = "wait" /\ call[q].tx = tx.tx
<1>7. waits => call[q].job = tx.job
  BY <1>2 DEF Waits
<1> HIDE DEF tx, q, id
<1>8. tx.by = q
  BY DEF q
<1>9. PICK pc, n : /\ pc \in {"mined", "reverted"} /\ n \in Nat
                   /\ call' = Notified(tx, pc, n)
                   /\ \/ /\ Allowed(tx.job) /\ minted' = [minted EXCEPT ![tx.job] = n]
                         /\ pc = "mined" /\ n # 0
                      \/ pc = "reverted" /\ minted' = minted
  BY <1>4, <1>6
<1>10. Allowed(tx.job) => minted[tx.job] = 0
  BY DEF Allowed
<1>11. /\ waits => /\ call'[q] \in CallType /\ call'[q].pc = pc /\ call'[q].id = n
                   /\ call'[q].job = tx.job
       /\ ~waits => call'[q] = call[q]
       /\ \A r \in Requests \ {q} : call'[r] = call[r]
       /\ call' \in [Requests -> CallType]
  <2> DEFINE c == [call[q] EXCEPT !.pc = pc, !.id = n]
  <2>1. call \in [Requests -> CallType]
    BY DEF Typed
  <2>2. c \in CallType /\ c.pc = pc /\ c.id = n /\ c.job = call[q].job
    BY <1>3, <1>9, <2>1 DEF CallType
  <2>3. call' = IF waits THEN [call EXCEPT ![q] = c] ELSE call
    BY <1>8, <1>9 DEF Notified
  <2> HIDE DEF c
  <2> QED BY <1>3, <1>7, <2>1, <2>2, <2>3
<1>12. \A r \in Requests : \/ call'[r] = call[r]
                           \/ /\ call[r].pc = "wait" /\ call'[r].pc \in {"mined", "reverted"}
                              /\ call'[r].job = call[r].job
  BY <1>7, <1>9, <1>11
<1>13. \A j \in Jobs : minted'[j] = minted[j] \/ (j = tx.job /\ minted[j] = 0 /\ minted'[j] = n /\ pc = "mined" /\ n # 0)
  BY <1>3, <1>9, <1>10 DEF Typed
<1>14. Typed'
  <2>1. minted' \in [Jobs -> Nat]
    BY <1>3, <1>9 DEF Typed
  <2> QED BY <1>1, <1>11, <1>12, <2>1 DEF Typed, Stay
<1>15. Waits'
  BY <1>1, <1>12, PoolTyped DEF Waits, Stay
<1>16. Ids'
  BY <1>3, <1>9, <1>10, <1>11, <1>13 DEF Ids, Brings, Typed
<1>17. Single'
  BY <1>5, <1>12 DEF Single, Calling
<1>18. Waited'
  BY <1>1, <1>2, <1>5, <1>8, <1>11, PoolTyped DEF Waited, Waits, Stay
<1>19. ASSUME NEW j \in Jobs, minted'[j] # minted[j], j \notin doubt
       PROVE  \E r \in Requests : (call[r].job = j /\ Brings(r))'
  <2>1. waits
    BY <1>2, <1>8, <1>13, <1>19 DEF Waited
  <2>2. PICK r \in Requests : r = q
    BY <1>3
  <2>3. call'[r].job = j /\ call'[r].pc = "mined" /\ call'[r].id # 0
    BY <1>11, <1>13, <1>19, <2>1, <2>2
  <2> QED BY <2>3 DEF Brings
<1> QED BY <1>5, <1>12, <1>13, <1>14, <1>15, <1>16, <1>17, <1>18, <1>19

-----------------------------------------------------------------------------
(* The requests and the rows.                                              *)

RowsTyped ==
  /\ status \in [Episodes -> {"free", "draft", "live", "ended", "deleted"}]
  /\ column \in [Jobs -> Nat]
  /\ early \in [Episodes -> SUBSET Requests]
  /\ DOMAIN req = Requests

Launched(e) == status[e] \in {"live", "ended", "deleted"}

IsReq(q) ==
  q \in [pc : {q.pc}, kind : {q.kind}, key : {q.key}, def : {q.def}, number : {q.number}, seen : {q.seen}]

\* What the call of a request past its chain call is for.
AsksFor(q, j) ==
  \/ q.kind = "launch" /\ j = Job("root", q.key)
  \/ q.kind = "end" /\ j = Job("end", q.key)
  \/ q.kind = "token" /\ j = q.key

\* The requests that check for a draft first.
OfDraft == {"launch", "patch", "delete", "add", "edit", "remove"}

\* A request and its call go together, and one that works on a draft which is a
\* draft no more was in flight when that was launched.
Handled(r) ==
  LET q == req[r] IN
  /\ IsReq(q)
  /\ q.pc # "chain" => call[r] = NoCall
  /\ q.pc = "chain" => call[r].pc # "none" /\ AsksFor(q, call[r].job)
  /\ q.pc # "idle" =>
       /\ q.kind \in OfDraft => /\ q.key \in Episodes /\ status[q.key] # "free"
                                /\ status[q.key] \in {"live", "ended"} => r \in early[q.key]
       /\ q.kind = "end" => q.key \in Episodes /\ Launched(q.key)
       /\ q.kind = "token" => q.key \in Jobs /\ q.key.op \in {"branch", "fruit"}

RootRows == \A e \in Episodes : column[Job("root", e)] # 0 => Launched(e)

\* The token of a job without doubt is in its row, or on its way there.
Claimed ==
  \A j \in Jobs \ doubt :
    minted[j] # 0 /\ j.op # "end" =>
      \/ column[j] # 0
      \/ \E r \in Requests : call[r].job = j /\ Brings(r)
      \/ j.op = "root" /\ status[j.key] = "deleted"

RowInv == RowsTyped /\ (\A r \in Requests : Handled(r)) /\ RootRows

IInv == BridgeInv /\ RowInv /\ Claimed /\ ColumnsAreTokens

\* What may become of a row while q is in flight.
StatusGoes(q) ==
  \A e \in Episodes :
    \/ status'[e] = status[e]
    \/ status[e] = "free" /\ status'[e] = "draft"
    \/ status[e] # "free" /\ status'[e] = "deleted"
    \/ Launched(e) /\ status'[e] = "ended" /\ status[e] # "deleted"
    \/ /\ status[e] \in {"draft", "live", "ended"} /\ status'[e] = "live"
       /\ status[e] = "draft" /\ q \in InFlightOn(e) => q \in early'[e]

CallStays(q) ==
  \/ call'[q] = call[q]
  \/ call[q].pc # "none" /\ call'[q].pc # "none" /\ call'[q].job = call[q].job

\* The steps of others leave a request as it is.
LEMMA HandledStays ==
  ASSUME RowsTyped, NEW q \in Requests, Handled(q), req'[q] = req[q], CallStays(q),
         StatusGoes(q),
         \A e \in Episodes : q \in early[e] /\ q \in InFlightOn(e) => q \in early'[e]
  PROVE  Handled(q)'
<1> DEFINE k == req[q]
<1>1. req'[q] = k
  OBVIOUS
<1>2. IsReq(k) /\ (k.pc # "chain" => call[q] = NoCall)
      /\ (k.pc = "chain" => call[q].pc # "none" /\ AsksFor(k, call[q].job))
  BY DEF Handled
<1>3. k.pc # "chain" => call'[q] = NoCall
  BY <1>2, NoCallTyped DEF CallStays
<1>4. k.pc = "chain" => call'[q].pc # "none" /\ AsksFor(k, call'[q].job)
  BY <1>2 DEF CallStays
<1>5. ASSUME k.pc # "idle", k.kind \in OfDraft
      PROVE  /\ k.key \in Episodes /\ status'[k.key] # "free"
             /\ status'[k.key] \in {"live", "ended"} => q \in early'[k.key]
  <2> DEFINE e == k.key
  <2>1. e \in Episodes /\ status[e] # "free" /\ (status[e] \in {"live", "ended"} => q \in early[e])
    BY <1>5 DEF Handled
  <2>2. q \in InFlightOn(e)
    BY <1>5 DEF InFlightOn
  <2> HIDE DEF k
  <2> QED BY <2>1, <2>2 DEF StatusGoes, Launched, RowsTyped
<1>6. ASSUME k.pc # "idle", k.kind = "end" PROVE k.key \in Episodes /\ Launched(k.key)'
  <2>1. k.key \in Episodes /\ Launched(k.key)
    BY <1>6 DEF Handled
  <2> QED BY <2>1, <1>1 DEF StatusGoes, Launched
<1>7. k.pc # "idle" /\ k.kind = "token" => k.key \in Jobs /\ k.key.op \in {"branch", "fruit"}
  BY DEF Handled
<1> QED BY <1>1, <1>2, <1>3, <1>4, <1>5, <1>6, <1>7 DEF Handled, Launched

\* The chain and its columns are left alone.
LEMMA ColumnsStay ==
  ASSUME IInv, UNCHANGED <<minted, column, call, doubt>>, NEW q, StatusGoes(q)
  PROVE  RootRows' /\ Claimed' /\ ColumnsAreTokens'
<1> USE DEF IInv, RowInv
<1>1. RootRows'
  BY DEF RootRows, StatusGoes, Launched, RowsTyped
<1>2. Claimed'
  <2> SUFFICES ASSUME NEW j \in Jobs, j \notin doubt, minted[j] # 0, j.op # "end",
                      column[j] = 0, ~\E r \in Requests : (call[r].job = j /\ Brings(r))
               PROVE  j.op = "root" /\ status'[j.key] = "deleted"
    BY DEF Claimed, Brings
  <2>1. j.op = "root" /\ status[j.key] = "deleted"
    BY DEF Claimed
  <2>2. j.key \in Episodes
    BY <2>1 DEF Jobs
  <2> QED BY <2>1, <2>2 DEF StatusGoes, Launched
<1>3. ColumnsAreTokens'
  BY DEF ColumnsAreTokens
<1> QED BY <1>1, <1>2, <1>3

LEMMA BridgeStays ==
  ASSUME BridgeInv, UNCHANGED <<minted, pool, call, doubt>> PROVE BridgeInv'
BY DEF BridgeInv, Typed, Waits, Ids, Single, Waited, Calling, Brings

\* What a handler may keep between its reads and writes.
Harmless(r, x) ==
  \/ x.pc = "idle"
  \/ x.kind \notin OfDraft \cup {"end", "token"}
  \/ /\ x.kind \in OfDraft /\ x.key \in Episodes /\ status'[x.key] # "free"
     /\ status'[x.key] \in {"live", "ended"} => r \in early'[x.key]
  \/ x.kind = "end" /\ x.key \in Episodes /\ status'[x.key] \in {"live", "ended", "deleted"}

\* A handler moves on, and the chain client is not involved.
LEMMA HandlerMoves ==
  ASSUME IInv, NEW r \in Requests, NEW x, req[r].pc # "chain", req' = [req EXCEPT ![r] = x],
         IsReq(x), x.pc # "chain", Harmless(r, x),
         UNCHANGED <<minted, pool, call, doubt, column>>,
         RowsTyped', \A q \in Requests : StatusGoes(q),
         \A q \in Requests \ {r}, e \in Episodes : q \in early[e] => q \in early'[e]
  PROVE  IInv'
<1> USE DEF IInv, RowInv
<1>1. req'[r] = x /\ \A q \in Requests \ {r} : req'[q] = req[q]
  BY DEF RowsTyped
<1>2. BridgeInv'
  BY BridgeStays
<1>3. RootRows' /\ Claimed' /\ ColumnsAreTokens'
  BY ColumnsStay
<1>4. ASSUME NEW q \in Requests \ {r} PROVE Handled(q)'
  <2>1. Handled(q) /\ CallStays(q) /\ req'[q] = req[q]
    BY <1>1 DEF CallStays
  <2> QED BY <2>1, HandledStays
<1>5. Handled(r)'
  <2>1. call'[r] = NoCall
    BY DEF Handled
  <2> QED BY <1>1, <2>1 DEF Handled, Harmless, Launched, OfDraft
<1> QED BY <1>2, <1>3, <1>4, <1>5

LEMMA IdleReq == IsReq(Idle) /\ Idle.pc = "idle"
BY DEF IsReq, Idle

\* It answers.
LEMMA AnswerKeeps ==
  ASSUME IInv, NEW r \in Requests, req[r].pc # "chain", Finish(r), NoBridge, UNCHANGED column,
         status' \in [Episodes -> {"free", "draft", "live", "ended", "deleted"}],
         \A q \in Requests : StatusGoes(q)
  PROVE  IInv'
<1>1. req' = [req EXCEPT ![r] = Idle] /\ early' = [e \in Episodes |-> early[e] \ {r}]
  BY DEF Finish
<1>2. RowsTyped'
  BY <1>1 DEF IInv, RowInv, RowsTyped
<1>3. \A q \in Requests \ {r}, e \in Episodes : q \in early[e] => q \in early'[e]
  BY <1>1
<1>4. UNCHANGED <<minted, pool, call, doubt>>
  BY DEF NoBridge, bridgeVars
<1> QED BY <1>1, <1>2, <1>3, <1>4, IdleReq, HandlerMoves DEF Harmless

\* It goes on.
LEMMA GoingOnKeeps ==
  ASSUME IInv, NEW r \in Requests, NEW x, req[r].pc # "chain", req' = [req EXCEPT ![r] = x],
         IsReq(x), x.pc # "chain", Harmless(r, x),
         NoBridge, UNCHANGED <<status, column, early>>
  PROVE  IInv'
<1>1. RowsTyped' /\ \A q \in Requests : StatusGoes(q)
  BY DEF IInv, RowInv, RowsTyped, StatusGoes
<1>2. UNCHANGED <<minted, pool, call, doubt>>
  BY DEF NoBridge, bridgeVars
<1> QED BY <1>1, <1>2, HandlerMoves

\* The first read of a handler of drafts or templates.
LEMMA StartKeeps ==
  ASSUME IInv, NEW r \in Requests, NEW kind, NEW k, Start(r, kind, k),
         \/ kind \notin OfDraft \cup {"end", "token"}
         \/ kind \in OfDraft /\ k \in Episodes /\ IsDraft(k)
  PROVE  IInv'
<1> DEFINE x == [Idle EXCEPT !.pc = "checked", !.kind = kind, !.key = k]
<1>1. /\ req[r].pc = "idle" /\ req' = [req EXCEPT ![r] = x]
      /\ NoBridge /\ UNCHANGED <<status, column, early>>
  BY DEF Start, draftVars, columns, NoBridge
<1>2. IsReq(x) /\ x.pc = "checked" /\ x.kind = kind /\ x.key = k
  BY DEF Idle, IsReq
<1> HIDE DEF x
<1>3. Harmless(r, x)
  BY <1>1, <1>2 DEF Harmless, IsDraft
<1> QED BY <1>1, <1>2, <1>3, GoingOnKeeps

\* All that Arrives but the call for the token of a card.
LEMMA ArrivalsKeep ==
  ASSUME IInv, NEW r \in Requests, Arrives(r),
         ~\E j \in {k \in Jobs : k.op \in {"branch", "fruit"}} : TokenCall(r, j)
  PROVE  IInv'
<1>1. ASSUME NEW e \in Episodes,
             PatchRead(r, e) \/ DeleteRead(r, e) \/ AddRead(r, e) \/ LaunchRead(r, e)
      PROVE  IInv'
  <2>1. CASE PatchRead(r, e) BY <2>1, StartKeeps DEF PatchRead, OfDraft
  <2>2. CASE DeleteRead(r, e) BY <2>2, StartKeeps DEF DeleteRead, OfDraft
  <2>3. CASE AddRead(r, e) BY <2>3, StartKeeps DEF AddRead, OfDraft
  <2>4. CASE LaunchRead(r, e)
    BY <2>4, StartKeeps DEF LaunchRead, OfDraft
  <2> QED BY <1>1, <2>1, <2>2, <2>3, <2>4
<1>2. ASSUME NEW e \in Episodes, NEW kind \in {"edit", "remove"}, EditRead(r, e, kind)
      PROVE  IInv'
  BY <1>2, StartKeeps DEF EditRead, OfDraft
<1>3. ASSUME NEW t \in Templates, NEW kind \in {"t_patch", "t_delete"}, TemplateRead(r, t, kind)
      PROVE  IInv'
  BY <1>3, StartKeeps DEF TemplateRead, OfDraft
<1>4. ASSUME NEW e \in Episodes, SaveRead(r, e) PROVE IInv'
  <2>1. PICK list \in Listed(e) :
          req' = [req EXCEPT ![r] = [Idle EXCEPT !.pc = "checked", !.kind = "t_save", !.key = e,
                                       !.seen = [events |-> list, settings |-> settings[e]]]]
    BY <1>4 DEF SaveRead
  <2> DEFINE x == [Idle EXCEPT !.pc = "checked", !.kind = "t_save", !.key = e,
                                 !.seen = [events |-> list, settings |-> settings[e]]]
  <2>2. /\ req[r].pc = "idle" /\ req' = [req EXCEPT ![r] = x]
        /\ NoBridge /\ UNCHANGED <<status, column, early>>
    BY <1>4, <2>1 DEF SaveRead, draftVars, columns
  <2>3. IsReq(x) /\ x.pc = "checked" /\ x.kind = "t_save"
    BY DEF Idle, IsReq
  <2> HIDE DEF x
  <2> QED BY <2>2, <2>3, GoingOnKeeps DEF Harmless, OfDraft
<1>5. ASSUME NEW t \in Templates, UseRead(r, t) PROVE IInv'
  <2> DEFINE x == [Idle EXCEPT !.pc = "checked", !.kind = "t_use", !.key = t, !.seen = templates[t]]
  <2>1. /\ req[r].pc = "idle" /\ req' = [req EXCEPT ![r] = x]
        /\ NoBridge /\ UNCHANGED <<status, column, early>>
    BY <1>5 DEF UseRead, draftVars, columns
  <2>2. IsReq(x) /\ x.pc = "checked" /\ x.kind = "t_use"
    BY DEF Idle, IsReq
  <2> HIDE DEF x
  <2> QED BY <2>1, <2>2, GoingOnKeeps DEF Harmless, OfDraft
<1>6. ASSUME NEW e \in Episodes, EndRead(r, e) PROVE IInv'
  <2> DEFINE x == [Idle EXCEPT !.pc = "checked", !.kind = "end", !.key = e,
                                 !.number = column[Job("root", e)]]
  <2>1. /\ status[e] = "live" /\ req[r].pc = "idle" /\ req' = [req EXCEPT ![r] = x]
        /\ NoBridge /\ UNCHANGED <<status, column, early>>
    BY <1>6 DEF EndRead, draftVars, columns
  <2>2. IsReq(x) /\ x.pc = "checked" /\ x.kind = "end" /\ x.key = e
    BY DEF Idle, IsReq
  <2> HIDE DEF x
  <2>3. Harmless(r, x)
    BY <2>1, <2>2 DEF Harmless, OfDraft
  <2> QED BY <2>1, <2>2, <2>3, GoingOnKeeps
<1> QED BY <1>1, <1>2, <1>3, <1>4, <1>5, <1>6 DEF Arrives

\* The rows an answer leaves or changes.
LEMMA NoStatusGoes == UNCHANGED status => \A q \in Requests : StatusGoes(q)
BY DEF StatusGoes

LEMMA DraftStepsKeep ==
  ASSUME IInv, NEW r \in Requests, DraftStep(r) PROVE IInv'
<1>0. status \in [Episodes -> {"free", "draft", "live", "ended", "deleted"}]
  BY DEF IInv, RowInv, RowsTyped
<1>1. CASE DeleteWrite(r)
  <2> DEFINE e == req[r].key
  <2>1. req[r].pc # "chain" /\ Finish(r) /\ NoBridge /\ UNCHANGED column
    BY <1>1 DEF DeleteWrite, At, columns
  <2>2. \/ status' = status
        \/ e \in Existing /\ status' = [status EXCEPT ![e] = "deleted"]
    BY <1>1 DEF DeleteWrite
  <2> HIDE DEF e
  <2>3. /\ status' \in [Episodes -> {"free", "draft", "live", "ended", "deleted"}]
        /\ \A q \in Requests : StatusGoes(q)
    BY <1>0, <2>2 DEF StatusGoes, Existing
  <2> QED BY <2>1, <2>3, AnswerKeeps
<1>2. CASE EditNotFound(r) \/ RemoveWrite(r) \/ \E v \in Valid : PatchWrite(r, v)
  <2>1. req[r].pc # "chain" /\ Finish(r) /\ NoBridge /\ UNCHANGED <<status, column>>
    BY <1>2 DEF EditNotFound, RemoveWrite, PatchWrite, At, columns, rowVars, draftVars
  <2> QED BY <1>0, <2>1, NoStatusGoes, AnswerKeeps
<1>3. ASSUME NEW x \in Texts, NEW o \in 0..MaxOrder, EditWrite(r, x, o) PROVE IInv'
  <2>1. req[r].pc # "chain" /\ Finish(r) /\ NoBridge /\ UNCHANGED <<status, column>>
    BY <1>3 DEF EditWrite, At, columns, rowVars
  <2> QED BY <1>0, <2>1, NoStatusGoes, AnswerKeeps
<1>4. ASSUME NEW d \in Defs, NEW x \in Texts, AddCreate(r, d, x) PROVE IInv'
  <2>1. req[r].pc # "chain" /\ Finish(r) /\ NoBridge /\ UNCHANGED <<status, column>>
    BY <1>4 DEF AddCreate, At, columns, rowVars
  <2> QED BY <1>0, <2>1, NoStatusGoes, AnswerKeeps
<1>5. ASSUME NEW d \in Defs, EditFind(r, d) PROVE IInv'
  <2> DEFINE x == [req[r] EXCEPT !.pc = "found", !.def = d]
  <2>1. /\ req[r].kind \in {"edit", "remove"} /\ req[r].pc = "checked"
        /\ req' = [req EXCEPT ![r] = x] /\ NoBridge /\ UNCHANGED <<status, column, early>>
    BY <1>5 DEF EditFind, draftVars, columns
  <2>2. Handled(r) /\ IsReq(req[r])
    BY DEF IInv, RowInv, Handled
  <2>3. IsReq(x) /\ x.pc = "found" /\ x.kind = req[r].kind /\ x.key = req[r].key
    BY <2>2 DEF IsReq
  <2> HIDE DEF x
  <2>4. Harmless(r, x)
    BY <2>1, <2>2, <2>3 DEF Handled, Harmless, OfDraft
  <2> QED BY <2>1, <2>3, <2>4, GoingOnKeeps
<1>6. CASE AddOrder(r)
  <2>1. PICK next : /\ req[r].kind = "add" /\ req[r].pc = "checked"
                    /\ req' = [req EXCEPT ![r] = [req[r] EXCEPT !.pc = "ordered", !.number = next]]
                    /\ NoBridge /\ UNCHANGED <<status, column, early>>
    BY <1>6 DEF AddOrder, At, draftVars, columns
  <2> DEFINE x == [req[r] EXCEPT !.pc = "ordered", !.number = next]
  <2>2. Handled(r) /\ IsReq(req[r])
    BY DEF IInv, RowInv, Handled
  <2>3. IsReq(x) /\ x.pc = "ordered" /\ x.kind = req[r].kind /\ x.key = req[r].key
    BY <2>2 DEF IsReq
  <2>4. req' = [req EXCEPT ![r] = x]
    BY <2>1
  <2> HIDE DEF x
  <2>5. Harmless(r, x)
    BY <2>1, <2>2, <2>3 DEF Handled, Harmless, OfDraft
  <2> QED BY <2>1, <2>3, <2>4, <2>5, GoingOnKeeps
<1> QED BY <1>1, <1>2, <1>3, <1>4, <1>5, <1>6 DEF DraftStep

LEMMA TemplateStepsKeep ==
  ASSUME IInv, NEW r \in Requests, TemplateStep(r) PROVE IInv'
<1>0. status \in [Episodes -> {"free", "draft", "live", "ended", "deleted"}]
  BY DEF IInv, RowInv, RowsTyped
<1>1. CASE \/ TemplateDelete(r) \/ (\E events \in Lists, v \in Settings : TemplatePatch(r, events, v))
           \/ \E t \in Templates : SaveCreate(r, t)
  <2>1. req[r].pc # "chain" /\ Finish(r) /\ NoBridge /\ UNCHANGED <<status, column>>
    BY <1>1 DEF TemplateDelete, TemplatePatch, SaveCreate, At, columns, rowVars
  <2> QED BY <1>0, <2>1, NoStatusGoes, AnswerKeeps
<1>2. ASSUME NEW e \in Episodes, NEW v \in Settings, UseCreate(r, e, v) PROVE IInv'
  <2>1. /\ req[r].pc # "chain" /\ Finish(r) /\ NoBridge /\ UNCHANGED column
        /\ status[e] = "free" /\ status' = [status EXCEPT ![e] = "draft"]
    BY <1>2 DEF UseCreate, At, columns
  <2>2. /\ status' \in [Episodes -> {"free", "draft", "live", "ended", "deleted"}]
        /\ \A q \in Requests : StatusGoes(q)
    BY <1>0, <2>1 DEF StatusGoes
  <2> QED BY <2>1, <2>2, AnswerKeeps
<1> QED BY <1>1, <1>2 DEF TemplateStep

\* A draft is created, or a template: no request is touched.
LEMMA CreatesKeep ==
  ASSUME IInv, NoBridge, UNCHANGED <<column, req, early>>,
         \/ status' = status
         \/ \E e \in Episodes : status[e] = "free" /\ status' = [status EXCEPT ![e] = "draft"]
  PROVE  IInv'
<1> USE DEF IInv, RowInv
<1>1. RowsTyped' /\ \A q : StatusGoes(q)
  BY DEF RowsTyped, StatusGoes
<1>2. UNCHANGED <<minted, pool, call, doubt>>
  BY DEF NoBridge, bridgeVars
<1>3. BridgeInv' /\ RootRows' /\ Claimed' /\ ColumnsAreTokens'
  BY <1>1, <1>2, BridgeStays, ColumnsStay
<1>4. ASSUME NEW q \in Requests PROVE Handled(q)'
  BY <1>1, <1>2, HandledStays DEF CallStays
<1> QED BY <1>1, <1>3, <1>4

\* Steps of the chain and the chain client: the rows stay.
LEMMA ChainSideKeeps ==
  ASSUME IInv, BridgeInv', UNCHANGED <<status, column, req, early>>, doubt \subseteq doubt',
         \A q \in Requests : CallStays(q) /\ (Brings(q) => (call[q].job = call'[q].job /\ Brings(q)')),
         \A j \in Jobs : minted'[j] # minted[j] =>
           minted[j] = 0 /\ (j \in doubt \/ \E q \in Requests : (call[q].job = j /\ Brings(q))')
  PROVE  IInv'
<1> USE DEF IInv, RowInv
<1>1. RowsTyped' /\ \A q : StatusGoes(q)
  BY DEF RowsTyped, StatusGoes
<1>2. ASSUME NEW q \in Requests PROVE Handled(q)'
  BY <1>1, HandledStays
<1>3. RootRows'
  BY DEF RootRows, Launched
<1>4. ColumnsAreTokens'
  BY DEF ColumnsAreTokens
<1>5. Claimed'
  <2> SUFFICES ASSUME NEW j \in Jobs, j \notin doubt', minted'[j] # 0, j.op # "end", column[j] = 0,
                      ~(j.op = "root" /\ status[j.key] = "deleted")
               PROVE  \E q \in Requests : (call[q].job = j /\ Brings(q))'
    BY DEF Claimed
  <2>1. CASE minted'[j] # minted[j]
    BY <2>1
  <2>2. CASE minted'[j] = minted[j]
    <3>1. PICK q \in Requests : call[q].job = j /\ Brings(q)
      BY <2>2 DEF Claimed
    <3> QED BY <3>1
  <2> QED BY <2>1, <2>2
<1> QED BY <1>1, <1>2, <1>3, <1>4, <1>5

LEMMA ChainStepKeeps ==
  ASSUME IInv, ChainStep, UNCHANGED <<draftVars, configured, req, early, starts>> PROVE IInv'
<1>0. UNCHANGED <<status, column, req, early>>
  BY DEF draftVars, columns
<1>1. CASE Mine
  <2>1. /\ BridgeInv' /\ doubt' = doubt
        /\ \A q \in Requests : \/ call'[q] = call[q]
                              \/ /\ call[q].pc = "wait" /\ call'[q].pc # "none"
                                 /\ call'[q].job = call[q].job
        /\ \A j \in Jobs : minted'[j] # minted[j] =>
             minted[j] = 0 /\ (j \in doubt \/ \E q \in Requests : (call[q].job = j /\ Brings(q))')
    BY <1>1, MineKeeps DEF IInv
  <2>2. \A q \in Requests : CallStays(q) /\ (Brings(q) => (call[q].job = call'[q].job /\ Brings(q)'))
    BY <2>1 DEF CallStays, Brings
  <2> QED BY <1>0, <2>1, <2>2, ChainSideKeeps
<1>2. CASE Drop
  <2>1. PICK i \in DOMAIN pool : pool' = RemoveAt(pool, i)
    BY <1>2 DEF Drop
  <2>2. UNCHANGED <<minted, call, doubt>>
    BY <1>2 DEF Drop
  <2>3. PICK g : Stay(g)
    BY <2>1, RestStays DEF IInv, BridgeInv
  <2>4. BridgeInv'
    BY <2>2, <2>3, DropKeeps DEF IInv
  <2>5. \A q \in Requests : CallStays(q) /\ (Brings(q) => (call[q].job = call'[q].job /\ Brings(q)'))
    BY <2>2 DEF CallStays, Brings
  <2> QED BY <1>0, <2>2, <2>4, <2>5, ChainSideKeeps
<1> QED BY <1>1, <1>2 DEF ChainStep

LEMMA BridgeMovesKeep ==
  ASSUME IInv, NEW r \in Requests, BridgeMoves(r) PROVE IInv'
<1>1. UNCHANGED <<status, column, req, early>>
  BY DEF BridgeMoves, draftVars, columns
<1>2. PICK c : Goes(r, c)
  BY MovesKeep DEF BridgeMoves, IInv
<1>3. BridgeInv' /\ minted' = minted /\ doubt \subseteq doubt'
  BY <1>2, MovesKeep DEF BridgeMoves, IInv, Goes
<1>4. call'[r] = c /\ \A q \in Requests \ {r} : call'[q] = call[q]
  BY <1>2 DEF Goes, IInv, BridgeInv, Typed
<1>5. ASSUME NEW q \in Requests
      PROVE  CallStays(q) /\ (Brings(q) => (call[q].job = call'[q].job /\ Brings(q)'))
  <2>1. CASE q = r
    BY <1>2, <1>4, <2>1 DEF CallStays, Goes, Brings
  <2>2. CASE q # r
    BY <1>4, <2>2 DEF CallStays, Brings
  <2> QED BY <2>1, <2>2
<1> QED BY <1>1, <1>3, <1>5, ChainSideKeeps

LEMMA RestartKeeps ==
  ASSUME IInv, Crash PROVE IInv'
<1> USE DEF IInv, RowInv
<1>1. /\ UNCHANGED <<minted, pool, status, column>>
      /\ call' = [r \in Requests |-> NoCall]
      /\ doubt' = doubt \cup {call[r].job : r \in {q \in Requests : call[q].pc # "none"}}
      /\ req' = [r \in Requests |-> Idle] /\ early' = [e \in Episodes |-> {}]
  BY DEF Crash, chainVars, draftVars, columns
<1>2. BridgeInv'
  BY <1>1, CrashKeeps
<1>3. RowsTyped' /\ RootRows'
  BY <1>1 DEF RowsTyped, RootRows, Launched
<1>4. ASSUME NEW q \in Requests PROVE Handled(q)'
  BY <1>1, IdleReq DEF Handled
<1>5. ColumnsAreTokens'
  BY <1>1 DEF ColumnsAreTokens
<1>6. Claimed'
  <2> SUFFICES ASSUME NEW j \in Jobs, j \notin doubt', minted[j] # 0, j.op # "end", column[j] = 0
               PROVE  j.op = "root" /\ status[j.key] = "deleted"
    BY <1>1 DEF Claimed
  <2>1. ~\E q \in Requests : call[q].job = j /\ Brings(q)
    BY <1>1 DEF Brings
  <2> QED BY <1>1, <2>1 DEF Claimed
<1> QED BY <1>2, <1>3, <1>4, <1>5, <1>6

\* A request comes to its chain call.
LEMMA AsksKeep ==
  ASSUME IInv, NEW r \in Requests, NEW x, NEW j \in Jobs, req[r].pc # "chain",
         Begin(r, j), req' = [req EXCEPT ![r] = x],
         IsReq(x), x.pc = "chain", AsksFor(x, j),
         x.kind = "launch" => /\ x.key \in Episodes /\ status[x.key] # "free"
                              /\ status[x.key] \in {"live", "ended"} => r \in early[x.key],
         x.kind = "end" => x.key \in Episodes /\ status[x.key] \in {"live", "ended", "deleted"},
         x.kind = "token" => x.key \in Jobs /\ x.key.op \in {"branch", "fruit"},
         UNCHANGED <<minted, pool, status, column, early>>
  PROVE  IInv'
<1> USE DEF IInv, RowInv
<1>1. call[r] = NoCall
  BY DEF Handled
<1>2. /\ BridgeInv' /\ doubt \subseteq doubt'
      /\ call'[r].pc = "send" /\ call'[r].job = j
      /\ \A q \in Requests \ {r} : call'[q] = call[q]
  BY <1>1, NoCallTyped, BeginKeeps
<1>3. req'[r] = x /\ \A q \in Requests \ {r} : req'[q] = req[q]
  BY DEF RowsTyped
<1>4. RowsTyped' /\ \A q : StatusGoes(q)
  BY DEF RowsTyped, StatusGoes
<1>5. ASSUME NEW q \in Requests \ {r} PROVE Handled(q)'
  <2>1. Handled(q) /\ CallStays(q) /\ req'[q] = req[q]
    BY <1>2, <1>3 DEF CallStays
  <2> QED BY <1>4, <2>1, HandledStays
<1>6. Handled(r)'
  <2>1. x.kind \in OfDraft => x.kind = "launch"
    BY DEF AsksFor, OfDraft
  <2> QED BY <1>2, <1>3, <2>1 DEF Handled, Launched
<1>7. RootRows' /\ ColumnsAreTokens'
  BY DEF RootRows, Launched, ColumnsAreTokens
<1>8. Claimed'
  <2> SUFFICES ASSUME NEW k \in Jobs, k \notin doubt', minted[k] # 0, k.op # "end", column[k] = 0,
                      ~(k.op = "root" /\ status[k.key] = "deleted")
               PROVE  \E q \in Requests : (call[q].job = k /\ Brings(q))'
    BY DEF Claimed
  <2>1. PICK q \in Requests : call[q].job = k /\ Brings(q)
    BY <1>2 DEF Claimed
  <2>2. q # r
    BY <1>1, <2>1, NoCallTyped DEF Brings
  <2> QED BY <1>2, <2>1, <2>2 DEF Brings
<1> QED BY <1>2, <1>4, <1>5, <1>6, <1>7, <1>8

\* A handler takes what its call returned, and writes its row.
LEMMA SavesKeep ==
  ASSUME IInv, NEW r \in Requests, call[r].pc \in {"none", "back"},
         call' = [call EXCEPT ![r] = NoCall], doubt \subseteq doubt', UNCHANGED <<minted, pool>>,
         req' = [req EXCEPT ![r] = Idle], RowsTyped',
         \A q \in Requests \ {r} : StatusGoes(q),
         \A q \in Requests \ {r}, e \in Episodes : q \in early[e] /\ q \in InFlightOn(e) => q \in early'[e],
         \A e \in Episodes : /\ status[e] = "deleted" => status'[e] = "deleted"
                             /\ Launched(e) => status'[e] \in {"live", "ended", "deleted"},
         \A j \in Jobs :
           \/ column'[j] = column[j]
           \/ /\ column'[j] # 0 /\ column'[j] = minted[j]
              /\ j.op = "root" => status'[j.key] = "live"
           \/ column'[j] = 0 /\ (j \in doubt' \/ column[j] = 0),
         Brings(r) => \/ call[r].job \in doubt'
                      \/ call[r].job.op = "end"
                      \/ column'[call[r].job] # 0
                      \/ call[r].job.op = "root" /\ status'[call[r].job.key] = "deleted"
  PROVE  IInv'
<1> USE DEF IInv, RowInv
<1>1. BridgeInv'
  BY HangupKeeps
<1>2. call'[r] = NoCall /\ \A q \in Requests \ {r} : call'[q] = call[q]
  BY DEF BridgeInv, Typed
<1>3. req'[r] = Idle /\ \A q \in Requests \ {r} : req'[q] = req[q]
  BY DEF RowsTyped
<1>4. ASSUME NEW q \in Requests \ {r} PROVE Handled(q)'
  <2>1. Handled(q) /\ CallStays(q) /\ req'[q] = req[q]
    BY <1>2, <1>3 DEF CallStays
  <2> QED BY <2>1, HandledStays
<1>5. Handled(r)'
  BY <1>2, <1>3, IdleReq DEF Handled
<1>6. RootRows'
  <2> SUFFICES ASSUME NEW e \in Episodes, column'[Job("root", e)] # 0
               PROVE  status'[e] \in {"live", "ended", "deleted"}
    BY DEF RootRows, Launched
  <2> DEFINE j == Job("root", e)
  <2>1. j \in Jobs /\ j.op = "root" /\ j.key = e
    BY DEF Job, Jobs
  <2>2. column[j] # 0 => Launched(e)
    BY DEF RootRows
  <2> HIDE DEF j
  <2> QED BY <2>1, <2>2 DEF j
<1>7. ColumnsAreTokens'
  BY DEF ColumnsAreTokens
<1>8. Claimed'
  <2> SUFFICES ASSUME NEW k \in Jobs, k \notin doubt', minted[k] # 0, k.op # "end", column'[k] = 0,
                      ~(k.op = "root" /\ status'[k.key] = "deleted")
               PROVE  \E q \in Requests : (call[q].job = k /\ Brings(q))'
    BY DEF Claimed
  <2>1. column[k] = 0
    OBVIOUS
  <2>2. ~(k.op = "root" /\ status[k.key] = "deleted")
    BY DEF Jobs
  <2>3. PICK q \in Requests : call[q].job = k /\ Brings(q)
    BY <2>1, <2>2 DEF Claimed
  <2>4. q # r
    BY <2>3
  <2> QED BY <1>2, <2>3, <2>4 DEF Brings
<1> QED BY <1>1, <1>4, <1>5, <1>6, <1>7, <1>8

\* A job is its operation and its key.
LEMMA JobParts ==
  /\ \A e \in Episodes : /\ Job("root", e) \in Jobs /\ Job("end", e) \in Jobs
                         /\ Job("root", e).op = "root" /\ Job("root", e).key = e
                         /\ Job("end", e).op = "end"
BY DEF Job, Jobs

LEMMA AskChainKeeps ==
  ASSUME IInv, NEW r \in Requests, AskChain(r) PROVE IInv'
<1> DEFINE x == [req[r] EXCEPT !.pc = "chain"]
           k == req[r]
<1>1. Handled(r)
  BY DEF IInv, RowInv
<1>2. /\ req' = [req EXCEPT ![r] = x] /\ UNCHANGED <<minted, pool, status, column, early>>
  BY DEF AskChain, draftVars, columns, chainVars
<1>3. \/ k.kind = "launch" /\ k.pc = "checked" /\ Begin(r, Job("root", k.key))
      \/ k.kind = "end" /\ k.pc = "checked" /\ Begin(r, Job("end", k.key))
  BY DEF AskChain, Calls, At
<1>4. IsReq(x) /\ x.pc = "chain" /\ x.kind = k.kind /\ x.key = k.key
  BY <1>1 DEF Handled, IsReq
<1> HIDE DEF x
<1>5. CASE k.kind = "launch"
  <2>1. /\ x.key \in Episodes /\ status[x.key] # "free"
        /\ status[x.key] \in {"live", "ended"} => r \in early[x.key]
    BY <1>1, <1>3, <1>4, <1>5 DEF Handled, OfDraft
  <2>2. Begin(r, Job("root", x.key)) /\ AsksFor(x, Job("root", x.key)) /\ k.pc # "chain"
    BY <1>3, <1>4, <1>5 DEF AsksFor
  <2> QED BY <1>2, <1>4, <1>5, <2>1, <2>2, JobParts, AsksKeep
<1>6. CASE k.kind = "end"
  <2>1. x.key \in Episodes /\ status[x.key] \in {"live", "ended", "deleted"}
    BY <1>1, <1>3, <1>4, <1>6 DEF Handled, Launched
  <2>2. Begin(r, Job("end", x.key)) /\ AsksFor(x, Job("end", x.key)) /\ k.pc # "chain"
    BY <1>3, <1>4, <1>6 DEF AsksFor
  <2> QED BY <1>2, <1>4, <1>6, <2>1, <2>2, JobParts, AsksKeep
<1> QED BY <1>3, <1>5, <1>6

LEMMA TokenCallKeeps ==
  ASSUME IInv, NEW r \in Requests, NEW j \in Jobs, j.op \in {"branch", "fruit"}, TokenCall(r, j)
  PROVE  IInv'
<1> DEFINE x == [Idle EXCEPT !.pc = "chain", !.kind = "token", !.key = j]
<1>1. /\ req[r].pc = "idle" /\ req' = [req EXCEPT ![r] = x] /\ Begin(r, j)
      /\ UNCHANGED <<minted, pool, status, column, early>>
  BY DEF TokenCall, rowVars, chainVars
<1>2. IsReq(x) /\ x.pc = "chain" /\ x.kind = "token" /\ x.key = j
  BY DEF Idle, IsReq
<1> HIDE DEF x
<1>3. AsksFor(x, j)
  BY <1>2 DEF AsksFor
<1> QED BY <1>1, <1>2, <1>3, AsksKeep

\* The row of an episode that is launched is written with the root of this very
\* request: another one's is lost only with doubt.
LEMMA LaunchSaveKeeps ==
  ASSUME IInv, NEW r \in Requests, LaunchSave(r) PROVE IInv'
<1> USE DEF IInv, RowInv
<1> DEFINE e == req[r].key
           j == Job("root", e)
           id == call[r].id
<1>1. /\ call' = [call EXCEPT ![r] = NoCall] /\ req' = [req EXCEPT ![r] = Idle]
      /\ UNCHANGED <<minted, pool>>
      /\ doubt' = IF r \in early[e] THEN doubt \cup {j} ELSE doubt
      /\ early' = [x \in Episodes |->
                     (IF x = e /\ status[e] = "draft" THEN InFlightOn(e) ELSE early[x]) \ {r}]
      /\ \/ /\ e \in Existing /\ status' = [status EXCEPT ![e] = "live"]
            /\ column' = [column EXCEPT ![j] = id]
         \/ e \notin Existing /\ status' = status /\ column' = column
  BY DEF LaunchSave, chainVars
<1>2. /\ req[r].kind = "launch" /\ req[r].pc \in {"checked", "chain"}
      /\ req[r].pc = "chain" => call[r].pc = "back"
  BY DEF LaunchSave, Answered, At
<1>3. /\ e \in Episodes /\ status[e] # "free"
      /\ status[e] \in {"live", "ended"} => r \in early[e]
  BY <1>2 DEF Handled, OfDraft
<1>4. \/ call[r] = NoCall
      \/ call[r].pc = "back" /\ call[r].job = j
  BY <1>2 DEF Handled, AsksFor
<1>5. j \in Jobs /\ j.op = "root" /\ j.key = e
  BY <1>3 DEF Job, Jobs
<1>6. id \in Nat
  BY DEF BridgeInv, Typed, CallType
<1>7. InFlightOn(e) \subseteq Requests
  BY DEF InFlightOn
<1>8. Brings(r) <=> id # 0
  BY <1>4, NoCallTyped DEF Brings
<1>9. Brings(r) => call[r].job = j /\ id = minted[j]
  BY <1>4, NoCallTyped DEF Brings, BridgeInv, Ids
<1>10. e \in Existing <=> status[e] \in {"draft", "live", "ended"}
  BY <1>3 DEF Existing
<1>11. column[j] # 0 /\ e \in Existing => r \in early[e]
  BY <1>3, <1>10 DEF RootRows, Launched
<1>12. ASSUME NEW q \in Requests \ {r} PROVE StatusGoes(q)
  <2> SUFFICES ASSUME NEW y \in Episodes, status'[y] # status[y]
               PROVE  /\ status[y] \in {"draft", "live", "ended"} /\ status'[y] = "live"
                      /\ status[y] = "draft" /\ q \in InFlightOn(y) => q \in early'[y]
    BY DEF StatusGoes
  <2>1. y = e /\ e \in Existing /\ status'[y] = "live"
    BY <1>1, <1>3 DEF RowsTyped
  <2> QED BY <1>1, <1>3, <1>10, <2>1
<1>13. \A q \in Requests \ {r}, y \in Episodes :
         q \in early[y] /\ q \in InFlightOn(y) => q \in early'[y]
  BY <1>1
<1>14. RowsTyped'
  BY <1>1, <1>3, <1>5, <1>6, <1>7 DEF RowsTyped
<1>15. \A y \in Episodes : /\ status[y] = "deleted" => status'[y] = "deleted"
                           /\ Launched(y) => status'[y] \in {"live", "ended", "deleted"}
  BY <1>1, <1>3, <1>10 DEF RowsTyped, Launched
<1> HIDE DEF e, id
<1>16. \A k \in Jobs :
         \/ column'[k] = column[k]
         \/ /\ column'[k] # 0 /\ column'[k] = minted[k]
            /\ k.op = "root" => status'[k.key] = "live"
         \/ column'[k] = 0 /\ (k \in doubt' \/ column[k] = 0)
  <2> SUFFICES ASSUME NEW k \in Jobs, column'[k] # column[k]
               PROVE  \/ /\ column'[k] # 0 /\ column'[k] = minted[k]
                         /\ k.op = "root" => status'[k.key] = "live"
                      \/ column'[k] = 0 /\ (k \in doubt' \/ column[k] = 0)
    OBVIOUS
  <2>1. k = j /\ column'[k] = id /\ e \in Existing /\ status'[e] = "live"
    BY <1>1, <1>3, <1>5 DEF RowsTyped
  <2> QED BY <1>1, <1>5, <1>8, <1>9, <1>11, <2>1
<1>17. Brings(r) => \/ column'[call[r].job] # 0
                    \/ call[r].job.op = "root" /\ status'[call[r].job.key] = "deleted"
  <2>1. e \in Existing => column'[j] = id
    BY <1>1, <1>5 DEF RowsTyped
  <2>2. e \notin Existing => status'[e] = "deleted"
    BY <1>1, <1>3, <1>10 DEF RowsTyped
  <2> QED BY <1>5, <1>8, <1>9, <2>1, <2>2
<1>18. call[r].pc \in {"none", "back"} /\ doubt \subseteq doubt'
  BY <1>1, <1>4, NoCallTyped
<1> HIDE DEF j, IInv, RowInv
<1> QED BY <1>1, <1>12, <1>13, <1>14, <1>15, <1>16, <1>17, <1>18, SavesKeep

LEMMA EndSaveKeeps ==
  ASSUME IInv, NEW r \in Requests, EndSave(r) PROVE IInv'
<1> USE DEF IInv, RowInv
<1> DEFINE e == req[r].key
<1>1. /\ call' = [call EXCEPT ![r] = NoCall] /\ req' = [req EXCEPT ![r] = Idle]
      /\ UNCHANGED <<minted, pool, column, doubt>>
      /\ early' = [x \in Episodes |-> early[x] \ {r}]
      /\ status' = [status EXCEPT ![e] = IF e \in Existing THEN "ended" ELSE status[e]]
  BY DEF EndSave, Finish, chainVars, columns
<1>2. /\ req[r].kind = "end" /\ req[r].pc \in {"checked", "chain"}
      /\ req[r].pc = "chain" => call[r].pc = "back"
  BY DEF EndSave, Answered, At
<1>3. e \in Episodes /\ Launched(e)
  BY <1>2 DEF Handled
<1>4. \/ call[r] = NoCall
      \/ call[r].pc = "back" /\ call[r].job = Job("end", e)
  BY <1>2 DEF Handled, AsksFor
<1>5. Brings(r) => call[r].job.op = "end"
  BY <1>3, <1>4, NoCallTyped, JobParts DEF Brings
<1>6. e \in Existing <=> status[e] \in {"draft", "live", "ended"}
  BY <1>3 DEF Existing
<1>7. RowsTyped'
  BY <1>1, <1>3 DEF RowsTyped
<1>8. \A y \in Episodes : \/ status'[y] = status[y]
                          \/ y = e /\ e \in Existing /\ status'[y] = "ended"
  BY <1>1, <1>3 DEF RowsTyped
<1> HIDE DEF e
<1>9. \A q \in Requests \ {r} : StatusGoes(q)
  BY <1>3, <1>6, <1>8 DEF StatusGoes, Launched
<1>10. \A y \in Episodes : /\ status[y] = "deleted" => status'[y] = "deleted"
                           /\ Launched(y) => status'[y] \in {"live", "ended", "deleted"}
  BY <1>6, <1>8 DEF Launched
<1>11. \A q \in Requests \ {r}, y \in Episodes : q \in early[y] => q \in early'[y]
  BY <1>1
<1>12. call[r].pc \in {"none", "back"} /\ doubt \subseteq doubt'
  BY <1>1, <1>4, NoCallTyped
<1>13. \A k \in Jobs : column'[k] = column[k]
  BY <1>1
<1> HIDE DEF IInv, RowInv
<1> QED BY <1>1, <1>5, <1>7, <1>9, <1>10, <1>11, <1>12, <1>13, SavesKeep

LEMMA TokenSaveKeeps ==
  ASSUME IInv, NEW r \in Requests, TokenSave(r) PROVE IInv'
<1> USE DEF IInv, RowInv
<1> DEFINE j == req[r].key
           id == call[r].id
<1>1. /\ call' = [call EXCEPT ![r] = NoCall] /\ req' = [req EXCEPT ![r] = Idle]
      /\ UNCHANGED <<minted, pool, status, doubt>>
      /\ early' = [x \in Episodes |-> early[x] \ {r}]
      /\ column' = IF id = 0 THEN column ELSE [column EXCEPT ![j] = id]
      /\ req[r].kind = "token" /\ req[r].pc = "chain" /\ call[r].pc = "back"
  BY DEF TokenSave, Finish, At, chainVars, rowVars
<1>2. j \in Jobs /\ j.op \in {"branch", "fruit"} /\ call[r].job = j
  BY <1>1 DEF Handled, AsksFor
<1>3. id \in Nat /\ (id # 0 => Brings(r) /\ id = minted[j])
  BY <1>1, <1>2 DEF BridgeInv, Typed, CallType, Ids, Brings
<1>4. Brings(r) => id # 0
  BY DEF Brings
<1>5. RowsTyped'
  BY <1>1, <1>2, <1>3 DEF RowsTyped
<1>6. \A k \in Jobs : \/ column'[k] = column[k]
                      \/ k = j /\ id # 0 /\ column'[k] = id
  BY <1>1, <1>2 DEF RowsTyped
<1>7. id # 0 => column'[j] = id
  BY <1>1, <1>2 DEF RowsTyped
<1> HIDE DEF j, id
<1>8. \A k \in Jobs : \/ column'[k] = column[k]
                      \/ /\ column'[k] # 0 /\ column'[k] = minted[k]
                         /\ k.op = "root" => status'[k.key] = "live"
  BY <1>2, <1>3, <1>6
<1>9. Brings(r) => column'[call[r].job] # 0
  BY <1>2, <1>4, <1>7
<1>10. \A q \in Requests \ {r} : StatusGoes(q)
  BY <1>1 DEF StatusGoes
<1>11. \A y \in Episodes : /\ status[y] = "deleted" => status'[y] = "deleted"
                           /\ Launched(y) => status'[y] \in {"live", "ended", "deleted"}
  BY <1>1 DEF Launched
<1>12. \A q \in Requests \ {r}, y \in Episodes : q \in early[y] => q \in early'[y]
  BY <1>1
<1>13. call[r].pc \in {"none", "back"} /\ doubt \subseteq doubt'
  BY <1>1
<1> HIDE DEF IInv, RowInv
<1> QED BY <1>1, <1>5, <1>8, <1>9, <1>10, <1>11, <1>12, <1>13, SavesKeep

-----------------------------------------------------------------------------
LEMMA InitHolds == Init => IInv
<1> SUFFICES ASSUME Init PROVE IInv
  OBVIOUS
<1>1. /\ minted = [j \in Jobs |-> 0] /\ pool = <<>> /\ call = [r \in Requests |-> NoCall] /\ doubt = {}
      /\ column = [j \in Jobs |-> 0] /\ req = [r \in Requests |-> Idle]
      /\ early = [e \in Episodes |-> {}] /\ status = [e \in Episodes |-> "free"]
  BY DEF Init, InitRest, InitBridge
<1>2. pool \in Seq(TxType) /\ DOMAIN pool = {}
  BY <1>1
<1>3. BridgeInv
  BY <1>1, <1>2, NoCallTyped DEF BridgeInv, Typed, Waits, Ids, Single, Waited, Brings, Calling
<1>4. RowsTyped
  BY <1>1 DEF RowsTyped
<1>5. \A r \in Requests : Handled(r)
  BY <1>1, IdleReq DEF Handled
<1>6. RootRows
  BY <1>1, JobParts DEF RootRows
<1>7. Claimed /\ ColumnsAreTokens
  BY <1>1 DEF Claimed, ColumnsAreTokens
<1> QED BY <1>3, <1>4, <1>5, <1>6, <1>7 DEF IInv, RowInv

LEMMA NextKeeps == IInv /\ [Next]_vars => IInv'
<1> SUFFICES ASSUME IInv, [Next]_vars PROVE IInv'
  OBVIOUS
<1>1. ASSUME NEW e \in Episodes, NEW v \in Valid, Create(e, v) PROVE IInv'
  BY <1>1, CreatesKeep DEF Create, columns
<1>2. ASSUME NEW t \in Templates, NEW events \in Lists, NEW v \in Settings, TemplateCreate(t, events, v)
      PROVE  IInv'
  BY <1>2, CreatesKeep DEF TemplateCreate, columns, rowVars
<1>3. ASSUME NEW r \in Requests, Arrives(r) PROVE IInv'
  <2>1. ASSUME NEW j \in {k \in Jobs : k.op \in {"branch", "fruit"}}, TokenCall(r, j) PROVE IInv'
    BY <2>1, TokenCallKeeps
  <2> QED BY <1>3, <2>1, ArrivalsKeep
<1>4. ASSUME NEW r \in Requests, DraftStep(r) PROVE IInv'
  BY <1>4, DraftStepsKeep
<1>5. ASSUME NEW r \in Requests, TemplateStep(r) PROVE IInv'
  BY <1>5, TemplateStepsKeep
<1>6. ASSUME NEW r \in Requests, HandlerStep(r) PROVE IInv'
  BY <1>6, AskChainKeeps, LaunchSaveKeeps, EndSaveKeeps, TokenSaveKeeps DEF HandlerStep
<1>7. ASSUME NEW r \in Requests, BridgeMoves(r) PROVE IInv'
  BY <1>7, BridgeMovesKeep
<1>8. CASE ChainStep /\ UNCHANGED <<draftVars, configured, req, early, starts>>
  BY <1>8, ChainStepKeeps
<1>9. CASE Crash
  BY <1>9, RestartKeeps
<1>10. CASE UNCHANGED vars
  BY <1>10, CreatesKeep DEF vars, draftVars, bridgeVars, columns, NoBridge
<1> QED BY <1>1, <1>2, <1>3, <1>4, <1>5, <1>6, <1>7, <1>8, <1>9, <1>10 DEF Next

\* The inductive invariant of the drafts and the chain client.
THEOREM DraftsCorrect == Spec => []IInv
BY InitHolds, NextKeeps, PTL DEF Spec

\* The id in a column is the token the chain has for that job
\* (episodes.ts:284, cards.ts:263, blockchain.service.ts:100-190).
THEOREM TokensAreNamed == Spec => []ColumnsAreTokens
<1>1. IInv => ColumnsAreTokens
  BY DEF IInv
<1> QED BY <1>1, DraftsCorrect, PTL

\* A token that no row names has a cause: a call that timed out, lost its
\* answer or died, or another launch of the same draft
\* (blockchain.service.ts:35-70, episodes.ts:284).
THEOREM LostTokensExplained == Spec => []LostTokensHaveACause
<1>1. IInv => LostTokensHaveACause
  <2> SUFFICES ASSUME IInv, NEW j \in Jobs, Unclaimed(j), j \notin doubt PROVE FALSE
    BY DEF LostTokensHaveACause
  <2>1. /\ minted[j] # 0 /\ column[j] = 0 /\ j.op # "end"
        /\ j.op = "root" => j.key \in Existing
        /\ \A r \in Requests : call[r].job # j
    BY DEF Unclaimed
  <2>2. j.op = "root" /\ status[j.key] = "deleted"
    BY <2>1 DEF IInv, Claimed
  <2> QED BY <2>1, <2>2 DEF Existing
<1> QED BY <1>1, DraftsCorrect, PTL

-----------------------------------------------------------------------------
(* Images.                                                                 *)

Pictures == {Null, Elsewhere} \cup {Url(Key(o, n)) : o \in Owners, n \in Nat}

Uploading(q) == q.pc # "idle" /\ q.kind \in {"upload", "clear"}

\* A request about an image has read one, and one about to write its row has
\* stored the file.
ImageRequest(r) ==
  LET q == req[r] IN
  Uploading(q) =>
    /\ q.key \in Owners /\ q.seen \in Pictures /\ q.number \in Nat
    /\ q.kind = "upload" /\ q.pc = "stored" => Key(q.key, q.number) \in files

ImageTyped ==
  /\ images \in Nat
  /\ image \in [Owners -> Pictures]
  /\ files \subseteq {Key(o, n) : o \in Owners, n \in Nat}

ImageInv == ImageTyped /\ (\A r \in Requests : ImageRequest(r)) /\ ImageIsStored

StudioInv == IInv /\ ImageInv

LEMMA UrlParts ==
  ASSUME NEW o, NEW n
  PROVE  LET url == Url(Key(o, n)) IN
         Len(url) = 4 /\ url[1] = "host" /\ url[4] = n /\ \E S : url \in Seq(S)
<1> DEFINE S == {"host", Folder(o), o, n}
           h == <<"host">>
           k == <<Folder(o), o, n>>
<1>1. h \in Seq(S) /\ k \in Seq(S) /\ Len(h) = 1 /\ Len(k) = 3 /\ h[1] = "host" /\ k[3] = n
  OBVIOUS
<1>2. Url(Key(o, n)) = h \o k
  BY DEF Url, Key
<1> HIDE DEF h, k, S
<1>3. /\ h \o k \in Seq(S) /\ Len(h \o k) = Len(h) + Len(k)
      /\ \A i \in 1..(Len(h) + Len(k)) :
           (h \o k)[i] = IF i <= Len(h) THEN h[i] ELSE k[i - Len(h)]
  BY <1>1, ConcatProperties
<1>4. Len(h \o k) = 4 /\ (h \o k)[1] = "host" /\ (h \o k)[4] = n
  BY <1>1, <1>3
<1> QED BY <1>2, <1>3, <1>4

LEMMA UrlsDiffer ==
  ASSUME NEW o, NEW n, NEW m, Url(Key(o, n)) = Url(Key(o, m)) PROVE Key(o, n) = Key(o, m)
<1>1. n = m
  BY UrlParts
<1> QED BY <1>1

LEMMA ElsewhereIsNoUrl == \A o, n : Elsewhere # Url(Key(o, n))
<1>1. Elsewhere[1] = "elsewhere"
  BY DEF Elsewhere
<1> QED BY <1>1, UrlParts

\* The key that is deleted is too short to be one of the store's.
LEMMA OldKeyShort ==
  ASSUME NEW url \in Pictures, url # Null, NEW o, NEW n PROVE OldKey(url) # Key(o, n)
<1>1. Len(Key(o, n)) = 3
  BY DEF Key
<1>2. Len(OldKey(url)) = 2
  <2>1. (\E S : url \in Seq(S)) /\ Len(url) \in {3, 4}
    <3>1. CASE url = Elsewhere
      <4>1. url \in Seq({"elsewhere", "some", "picture"}) /\ Len(url) = 3
        BY <3>1 DEF Elsewhere
      <4> QED BY <4>1
    <3>2. CASE \E p \in Owners, m \in Nat : url = Url(Key(p, m))
      BY <3>2, UrlParts
    <3> QED BY <3>1, <3>2 DEF Pictures
  <2>2. PICK S : url \in Seq(S)
    BY <2>1
  <2> DEFINE from == Len(url) - 1
             to == Len(url)
  <2>3. from \in Int /\ to \in Int /\ from <= to /\ to - from + 1 = 2 /\ \A i \in from..to : url[i] \in S
    BY <2>1, <2>2
  <2>4. OldKey(url) = SubSeq(url, from, to)
    BY DEF OldKey
  <2> HIDE DEF from, to
  <2>5. Len(SubSeq(url, from, to)) = 2
    BY <2>3, SubSeqProperties
  <2> QED BY <2>4, <2>5
<1> QED BY <1>1, <1>2

\* The steps of images move a request on, or answer it.
LEMMA ImageStepsKeep ==
  ASSUME IInv, NEW r \in Requests, ImageStep(r) PROVE IInv'
<1>0. status \in [Episodes -> {"free", "draft", "live", "ended", "deleted"}]
  BY DEF IInv, RowInv, RowsTyped
<1>1. ASSUME NEW o, NEW kind \in {"upload", "clear"}, StartImage(r, kind, o) PROVE IInv'
  <2> DEFINE x == [Idle EXCEPT !.pc = "checked", !.kind = kind, !.key = o,
                                 !.seen = image[o], !.number = images + 1]
  <2>1. /\ req[r].pc = "idle" /\ req' = [req EXCEPT ![r] = x]
        /\ NoBridge /\ UNCHANGED <<status, column, early>>
    BY <1>1 DEF StartImage, draftVars, columns
  <2>2. IsReq(x) /\ x.pc = "checked" /\ x.kind = kind
    BY DEF Idle, IsReq
  <2> HIDE DEF x
  <2> QED BY <2>1, <2>2, GoingOnKeeps DEF Harmless, OfDraft
<1>2. ASSUME NEW to \in {"cleared", "stored"}, Image(r, "checked") \/ Image(r, "cleared"),
             req' = [req EXCEPT ![r] = [req[r] EXCEPT !.pc = to]],
             NoBridge, UNCHANGED <<status, column, early>>
      PROVE  IInv'
  <2> DEFINE x == [req[r] EXCEPT !.pc = to]
  <2>1. IsReq(req[r]) /\ req[r].pc # "chain" /\ req[r].kind \in {"upload", "clear"}
    BY <1>2 DEF IInv, RowInv, Handled, Image
  <2>2. IsReq(x) /\ x.pc = to /\ x.kind = req[r].kind
    BY <2>1 DEF IsReq
  <2>3. req' = [req EXCEPT ![r] = x]
    BY <1>2
  <2> HIDE DEF x
  <2> QED BY <1>2, <2>1, <2>2, <2>3, GoingOnKeeps DEF Harmless, OfDraft
<1>3. ASSUME req[r].pc # "chain", Finish(r), NoBridge, UNCHANGED <<status, column>> PROVE IInv'
  BY <1>0, <1>3, NoStatusGoes, AnswerKeeps
<1>4. ASSUME NEW o \in Owners, UploadRead(r, o) \/ ClearRead(r, o) PROVE IInv'
  BY <1>1, <1>4 DEF UploadRead, ClearRead
<1>5. CASE OldDeleted(r)
  <2>1. /\ Image(r, "checked") /\ req' = [req EXCEPT ![r] = [req[r] EXCEPT !.pc = "cleared"]]
        /\ NoBridge /\ UNCHANGED <<status, column, early>>
    BY <1>5 DEF OldDeleted, draftVars, columns
  <2> QED BY <1>2, <2>1
<1>6. CASE Uploaded(r)
  <2>1. /\ Image(r, "cleared") /\ NoBridge /\ UNCHANGED <<status, column>>
        /\ \/ Finish(r)
           \/ req' = [req EXCEPT ![r] = [req[r] EXCEPT !.pc = "stored"]] /\ UNCHANGED early
    BY <1>6 DEF Uploaded, Image, draftVars, columns
  <2>2. req[r].pc # "chain"
    BY <2>1 DEF Image
  <2> QED BY <1>2, <1>3, <2>1, <2>2
<1>7. CASE UploadSave(r) \/ ClearSave(r)
  <2>1. req[r].pc # "chain" /\ Finish(r) /\ NoBridge /\ UNCHANGED <<status, column>>
    BY <1>7 DEF UploadSave, ClearSave, draftVars, columns
  <2> QED BY <1>3, <2>1
<1>8. ASSUME NEW v \in Valid, NEW url \in {Null, Elsewhere}, PatchImage(r, v, url) PROVE IInv'
  <2>1. req[r].pc # "chain" /\ Finish(r) /\ NoBridge /\ UNCHANGED <<status, column>>
    BY <1>8 DEF PatchImage, PatchWrite, At, columns
  <2> QED BY <1>3, <2>1
<1> QED BY <1>4, <1>5, <1>6, <1>7, <1>8 DEF ImageStep

\* What a step of the other handlers leaves of a request is none about an image.
NoNewImage == \A q \in Requests : \/ req'[q] = req[q] \/ ~Uploading(req'[q])

LEMMA OthersLeaveImages ==
  ASSUME IInv, Next PROVE NoNewImage
<1>0. DOMAIN req = Requests /\ ~Uploading(Idle)
  BY DEF IInv, RowInv, RowsTyped, Uploading, Idle
<1>1. ASSUME NEW r \in Requests, NEW x, req' = [req EXCEPT ![r] = x], ~Uploading(x) PROVE NoNewImage
  BY <1>0, <1>1 DEF NoNewImage
<1>2. ASSUME NEW r \in Requests, Finish(r) PROVE NoNewImage
  BY <1>0, <1>1, <1>2 DEF Finish
<1>3. ASSUME UNCHANGED req PROVE NoNewImage
  BY <1>3 DEF NoNewImage
<1>4. ASSUME NEW r \in Requests, NEW kind, NEW k, kind \notin {"upload", "clear"}, Start(r, kind, k)
      PROVE  NoNewImage
  <2> DEFINE x == [Idle EXCEPT !.pc = "checked", !.kind = kind, !.key = k]
  <2>1. req' = [req EXCEPT ![r] = x] /\ x.kind = kind
    BY <1>4 DEF Start, Idle
  <2> HIDE DEF x
  <2> QED BY <1>1, <1>4, <2>1 DEF Uploading
<1>5. ASSUME NEW r \in Requests, Arrives(r) PROVE NoNewImage
  <2>1. ASSUME NEW e \in Episodes,
               PatchRead(r, e) \/ DeleteRead(r, e) \/ AddRead(r, e) \/ LaunchRead(r, e)
        PROVE  NoNewImage
    BY <1>4, <2>1 DEF PatchRead, DeleteRead, AddRead, LaunchRead
  <2>2. ASSUME NEW e \in Episodes, NEW kind \in {"edit", "remove"}, EditRead(r, e, kind) PROVE NoNewImage
    BY <1>4, <2>2 DEF EditRead
  <2>3. ASSUME NEW t \in Templates, NEW kind \in {"t_patch", "t_delete"}, TemplateRead(r, t, kind)
        PROVE  NoNewImage
    BY <1>4, <2>3 DEF TemplateRead
  <2>4. ASSUME NEW e \in Episodes, SaveRead(r, e) PROVE NoNewImage
    <3>1. PICK list \in Listed(e) :
            req' = [req EXCEPT ![r] = [Idle EXCEPT !.pc = "checked", !.kind = "t_save", !.key = e,
                                         !.seen = [events |-> list, settings |-> settings[e]]]]
      BY <2>4 DEF SaveRead
    <3> DEFINE x == [Idle EXCEPT !.pc = "checked", !.kind = "t_save", !.key = e,
                                   !.seen = [events |-> list, settings |-> settings[e]]]
    <3>2. req' = [req EXCEPT ![r] = x] /\ x.kind = "t_save"
      BY <3>1 DEF Idle
    <3> HIDE DEF x
    <3> QED BY <1>1, <3>2 DEF Uploading
  <2>5. ASSUME NEW t \in Templates, UseRead(r, t) PROVE NoNewImage
    <3> DEFINE x == [Idle EXCEPT !.pc = "checked", !.kind = "t_use", !.key = t, !.seen = templates[t]]
    <3>1. req' = [req EXCEPT ![r] = x] /\ x.kind = "t_use"
      BY <2>5 DEF UseRead, Idle
    <3> HIDE DEF x
    <3> QED BY <1>1, <3>1 DEF Uploading
  <2>6. ASSUME NEW e \in Episodes, EndRead(r, e) PROVE NoNewImage
    <3> DEFINE x == [Idle EXCEPT !.pc = "checked", !.kind = "end", !.key = e,
                                   !.number = column[Job("root", e)]]
    <3>1. req' = [req EXCEPT ![r] = x] /\ x.kind = "end"
      BY <2>6 DEF EndRead, Idle
    <3> HIDE DEF x
    <3> QED BY <1>1, <3>1 DEF Uploading
  <2>7. ASSUME NEW j \in Jobs, TokenCall(r, j) PROVE NoNewImage
    <3> DEFINE x == [Idle EXCEPT !.pc = "chain", !.kind = "token", !.key = j]
    <3>1. req' = [req EXCEPT ![r] = x] /\ x.kind = "token"
      BY <2>7 DEF TokenCall, Idle
    <3> HIDE DEF x
    <3> QED BY <1>1, <3>1 DEF Uploading
  <2> QED BY <1>5, <2>1, <2>2, <2>3, <2>4, <2>5, <2>6, <2>7 DEF Arrives
<1>6. ASSUME NEW r \in Requests, DraftStep(r) PROVE NoNewImage
  <2>1. CASE \E d \in Defs : EditFind(r, d)
    <3>1. PICK d \in Defs : /\ req' = [req EXCEPT ![r] = [req[r] EXCEPT !.pc = "found", !.def = d]]
                            /\ req[r].kind \in {"edit", "remove"}
      BY <2>1 DEF EditFind
    <3> DEFINE x == [req[r] EXCEPT !.pc = "found", !.def = d]
    <3>2. IsReq(req[r])
      BY DEF IInv, RowInv, Handled
    <3>3. req' = [req EXCEPT ![r] = x] /\ x.kind = req[r].kind
      BY <3>1, <3>2 DEF IsReq
    <3> HIDE DEF x
    <3> QED BY <1>1, <3>1, <3>3 DEF Uploading
  <2>2. CASE AddOrder(r)
    <3>1. PICK next : /\ req' = [req EXCEPT ![r] = [req[r] EXCEPT !.pc = "ordered", !.number = next]]
                      /\ req[r].kind = "add"
      BY <2>2 DEF AddOrder, At
    <3> DEFINE x == [req[r] EXCEPT !.pc = "ordered", !.number = next]
    <3>2. IsReq(req[r])
      BY DEF IInv, RowInv, Handled
    <3>3. req' = [req EXCEPT ![r] = x] /\ x.kind = req[r].kind
      BY <3>1, <3>2 DEF IsReq
    <3> HIDE DEF x
    <3> QED BY <1>1, <3>1, <3>3 DEF Uploading
  <2>3. CASE Finish(r)
    BY <1>2, <2>3
  <2> QED BY <1>6, <2>1, <2>2, <2>3
          DEF DraftStep, DeleteWrite, EditNotFound, RemoveWrite, PatchWrite, AddCreate, EditWrite
<1>7. ASSUME NEW r \in Requests, TemplateStep(r) PROVE NoNewImage
  BY <1>2, <1>7 DEF TemplateStep, TemplateDelete, TemplatePatch, SaveCreate, UseCreate
<1>8. ASSUME NEW r \in Requests, HandlerStep(r) PROVE NoNewImage
  <2>1. CASE AskChain(r)
    <3> DEFINE x == [req[r] EXCEPT !.pc = "chain"]
    <3>1. IsReq(req[r]) /\ req[r].kind \in {"launch", "end"}
      BY <2>1 DEF IInv, RowInv, Handled, AskChain, Calls, At
    <3>2. req' = [req EXCEPT ![r] = x] /\ x.kind = req[r].kind
      BY <2>1, <3>1 DEF AskChain, IsReq
    <3> HIDE DEF x
    <3> QED BY <1>1, <3>1, <3>2 DEF Uploading
  <2>2. CASE EndSave(r) \/ TokenSave(r)
    BY <1>2, <2>2 DEF EndSave, TokenSave
  <2>3. CASE LaunchSave(r)
    BY <1>0, <1>1, <2>3 DEF LaunchSave
  <2> QED BY <1>8, <2>1, <2>2, <2>3 DEF HandlerStep
<1>9. CASE Crash
  BY <1>0, <1>9 DEF Crash, NoNewImage
<1> QED BY <1>3, <1>5, <1>6, <1>7, <1>8, <1>9 DEF Next, Create, TemplateCreate, BridgeMoves

LEMMA OthersKeepImages ==
  ASSUME StudioInv, NoNewImage, UNCHANGED <<imageVars, images>> PROVE ImageInv'
<1> USE DEF StudioInv, ImageInv
<1>1. ImageTyped' /\ ImageIsStored'
  BY DEF ImageTyped, ImageIsStored, imageVars
<1>2. ASSUME NEW q \in Requests PROVE ImageRequest(q)'
  BY DEF ImageRequest, Uploading, NoNewImage, imageVars
<1> QED BY <1>1, <1>2

\* A step of the request r about an image; no file is lost.
LEMMA OwnStepKeeps ==
  ASSUME StudioInv, NEW r \in Requests, NEW x, req' = [req EXCEPT ![r] = x],
         ImageTyped', files \subseteq files',
         Uploading(x) =>
           /\ x.key \in Owners /\ x.seen \in Pictures /\ x.number \in Nat
           /\ x.kind = "upload" /\ x.pc = "stored" => Key(x.key, x.number) \in files',
         \A o \in Owners : \A n \in 0..MaxImages :
           image'[o] = Url(Key(o, n)) => image'[o] = image[o] \/ Key(o, n) \in files'
  PROVE  ImageInv'
<1> USE DEF StudioInv, ImageInv
<1>1. req'[r] = x /\ \A q \in Requests \ {r} : req'[q] = req[q]
  BY DEF IInv, RowInv, RowsTyped
<1>2. ASSUME NEW q \in Requests \ {r} PROVE ImageRequest(q)'
  BY <1>1 DEF ImageRequest
<1>3. ImageRequest(r)'
  BY <1>1 DEF ImageRequest
<1>4. ImageIsStored'
  BY DEF ImageIsStored
<1> QED BY <1>2, <1>3, <1>4

LEMMA ImageStepsKeepImages ==
  ASSUME StudioInv, NEW r \in Requests, ImageStep(r) PROVE ImageInv'
<1> USE DEF StudioInv, ImageInv
<1>0. /\ ImageTyped /\ IsReq(req[r]) /\ ImageRequest(r) /\ ~Uploading(Idle)
      /\ Existing \subseteq Owners
  BY DEF IInv, RowInv, Handled, Uploading, Idle, Existing, Owners
<1>1. ASSUME NEW o \in Owners, NEW kind \in {"upload", "clear"}, StartImage(r, kind, o),
             UNCHANGED imageVars
      PROVE  ImageInv'
  <2> DEFINE x == [Idle EXCEPT !.pc = "checked", !.kind = kind, !.key = o,
                                 !.seen = image[o], !.number = images + 1]
  <2>1. req' = [req EXCEPT ![r] = x] /\ images' = images + 1
    BY <1>1 DEF StartImage
  <2>2. x.pc = "checked" /\ x.key = o /\ x.seen = image[o] /\ x.number = images + 1
    BY DEF Idle
  <2> HIDE DEF x
  <2>3. image[o] \in Pictures /\ images + 1 \in Nat
    BY <1>0 DEF ImageTyped
  <2>4. ImageTyped' /\ files' = files /\ image' = image
    BY <1>0, <1>1, <2>1, <2>3 DEF ImageTyped, imageVars
  <2> QED BY <2>1, <2>2, <2>3, <2>4, OwnStepKeeps
<1>2. ASSUME NEW o \in Owners, UploadRead(r, o) \/ ClearRead(r, o) PROVE ImageInv'
  BY <1>1, <1>2 DEF UploadRead, ClearRead, StartImage
<1>3. CASE OldDeleted(r)
  <2> DEFINE x == [req[r] EXCEPT !.pc = "cleared"]
  <2>1. Uploading(req[r]) /\ UNCHANGED <<image, hashed, images>> /\ req' = [req EXCEPT ![r] = x]
    BY <1>3 DEF OldDeleted, Image, Uploading
  <2>2. x.pc = "cleared" /\ x.key = req[r].key /\ x.seen = req[r].seen /\ x.number = req[r].number
    BY <1>0 DEF IsReq
  <2>3. files' = files
    <3>1. CASE HasOld(r) /\ files' = files \ {OldKey(req[r].seen)}
      <4>1. req[r].seen \in Pictures /\ req[r].seen # Null
        BY <1>0, <2>1, <3>1 DEF ImageRequest, HasOld
      <4>2. \A f \in files : f # OldKey(req[r].seen)
        BY <1>0, <4>1, OldKeyShort DEF ImageTyped
      <4> QED BY <3>1, <4>2
    <3> QED BY <1>3, <3>1 DEF OldDeleted
  <2> HIDE DEF x
  <2>4. ImageTyped'
    BY <1>0, <2>1, <2>3 DEF ImageTyped
  <2> QED BY <1>0, <2>1, <2>2, <2>3, <2>4, OwnStepKeeps DEF ImageRequest
<1>4. CASE Uploaded(r)
  <2> DEFINE x == [req[r] EXCEPT !.pc = "stored"]
             q == req[r]
  <2>1. Uploading(q) /\ UNCHANGED <<image, hashed, images>>
    BY <1>4 DEF Uploaded, Uploading
  <2>2. \/ req' = [req EXCEPT ![r] = x] /\ files' = files \cup {Key(q.key, q.number)}
        \/ req' = [req EXCEPT ![r] = Idle] /\ files' = files
    BY <1>4 DEF Uploaded, Finish
  <2>3. /\ x.pc = "stored" /\ x.key = q.key /\ x.seen = q.seen /\ x.number = q.number
        /\ q.key \in Owners /\ q.seen \in Pictures /\ q.number \in Nat
    BY <1>0, <2>1 DEF IsReq, ImageRequest
  <2> HIDE DEF x, q
  <2>4. ImageTyped' /\ files \subseteq files'
    BY <1>0, <2>1, <2>2, <2>3 DEF ImageTyped
  <2> QED BY <1>0, <2>1, <2>2, <2>3, <2>4, OwnStepKeeps
<1>5. CASE UploadSave(r)
  <2> DEFINE o == req[r].key
             n == req[r].number
  <2>1. /\ req' = [req EXCEPT ![r] = Idle] /\ UNCHANGED <<files, images>>
        /\ \/ image' = [image EXCEPT ![o] = Url(Key(o, n))]
           \/ image' = image
        /\ req[r].kind = "upload" /\ req[r].pc = "stored"
    BY <1>5 DEF UploadSave, Finish
  <2>2. o \in Owners /\ n \in Nat /\ Key(o, n) \in files
    BY <1>0, <2>1 DEF ImageRequest, Uploading
  <2> HIDE DEF o, n
  <2>3. ImageTyped'
    BY <1>0, <2>1, <2>2 DEF ImageTyped, Pictures
  <2>4. ASSUME NEW p \in Owners, NEW m \in 0..MaxImages, image'[p] = Url(Key(p, m)), image'[p] # image[p]
        PROVE  Key(p, m) \in files'
    <3>1. p = o /\ Url(Key(p, m)) = Url(Key(p, n))
      BY <1>0, <2>1, <2>2, <2>4 DEF ImageTyped
    <3> QED BY <2>1, <2>2, <3>1, UrlsDiffer
  <2> QED BY <1>0, <2>1, <2>3, <2>4, OwnStepKeeps
<1>6. ASSUME NEW o \in Owners, NEW url \in {Null, Elsewhere}, req' = [req EXCEPT ![r] = Idle],
             image' = [image EXCEPT ![o] = url] \/ image' = image, files' = files, images' \in Nat
      PROVE  ImageInv'
  <2>1. ImageTyped'
    BY <1>0, <1>6 DEF ImageTyped, Pictures
  <2>2. ASSUME NEW p \in Owners, NEW m \in 0..MaxImages, image'[p] = Url(Key(p, m))
        PROVE  image'[p] = image[p]
    BY <1>0, <1>6, <2>2, ElsewhereIsNoUrl, NullIsNoUrl DEF ImageTyped
  <2> QED BY <1>0, <1>6, <2>1, <2>2, OwnStepKeeps
<1>7. CASE ClearSave(r)
  <2>1. req[r].key \in Owners /\ images \in Nat
    BY <1>0, <1>7 DEF ClearSave, ImageRequest, Uploading, ImageTyped
  <2> QED BY <1>6, <1>7, <2>1 DEF ClearSave, Finish
<1>8. ASSUME NEW v \in Valid, NEW url \in {Null, Elsewhere}, PatchImage(r, v, url) PROVE ImageInv'
  <2>1. req[r].key \in Owners /\ images + 1 \in Nat
    BY <1>0, <1>8 DEF PatchImage, ImageTyped
  <2> QED BY <1>6, <1>8, <2>1 DEF PatchImage, PatchWrite, Finish
<1> QED BY <1>2, <1>3, <1>4, <1>5, <1>7, <1>8 DEF ImageStep

LEMMA StudioInit == Init /\ InitImages => StudioInv
<1> SUFFICES ASSUME Init, InitImages PROVE StudioInv
  OBVIOUS
<1>1. IInv
  BY InitHolds
<1>2. ImageTyped
  BY DEF InitImages, ImageTyped, Pictures
<1>3. \A r \in Requests : ImageRequest(r)
  BY IdleReq DEF Init, InitRest, ImageRequest, Uploading
<1>4. ImageIsStored
  BY NullIsNoUrl DEF InitImages, ImageIsStored
<1> QED BY <1>1, <1>2, <1>3, <1>4 DEF StudioInv, ImageInv

LEMMA StudioKeeps == StudioInv /\ [StudioNext]_allVars => StudioInv'
<1> SUFFICES ASSUME StudioInv, [StudioNext]_allVars PROVE StudioInv'
  OBVIOUS
<1>1. CASE Next /\ UNCHANGED <<imageVars, images>>
  BY <1>1, NextKeeps, OthersLeaveImages, OthersKeepImages DEF StudioInv
<1>2. ASSUME NEW r \in Requests, ImageStep(r) PROVE StudioInv'
  BY <1>2, ImageStepsKeep, ImageStepsKeepImages DEF StudioInv
<1>3. CASE UNCHANGED allVars
  <2>1. UNCHANGED <<vars, imageVars, images>>
    BY <1>3 DEF allVars
  <2>2. NoNewImage
    BY <2>1 DEF vars, NoNewImage
  <2> QED BY <2>1, <2>2, NextKeeps, OthersKeepImages DEF StudioInv
<1> QED BY <1>1, <1>2, <1>3 DEF StudioNext

\* With the images of episodes and streamers next to everything else.
THEOREM StudioCorrect == StudioSpec => []StudioInv
BY StudioInit, StudioKeeps, PTL DEF StudioSpec

\* The image a row shows is in the store: no file that a row names is ever
\* deleted (upload.ts:67-91).
THEOREM ImagesAreStored == StudioSpec => []ImageIsStored
<1>1. StudioInv => ImageIsStored
  BY DEF StudioInv, ImageInv
<1> QED BY <1>1, StudioCorrect, PTL
-----------------------------------------------------------------------------
(* What a launch freezes.                                                  *)

\* Null is neither an episode nor a row.
NullIsNoRow ==
  /\ Null \notin Episodes
  /\ \A e, x, n : Null # [episode |-> e, text |-> x, order |-> n]

HasFound(q) == q.kind \in {"edit", "remove"} /\ q.pc = "found"

\* A definition that a request has found is one of its episode, or gone.
Found(r) ==
  LET q == req[r] IN
  HasFound(q) =>
    /\ q.def \in Defs /\ defs[q.def] # Null
    /\ defs[q.def] = GoneDef \/ defs[q.def].episode = q.key

ContentInv ==
  /\ DOMAIN defs = Defs /\ DOMAIN settings = Episodes
  /\ \A r \in Requests : Found(r)

\* A definition stays with its episode until it goes.
DefGoes(d) ==
  \/ defs'[d] = defs[d]
  \/ defs[d] = Null
  \/ defs'[d] = GoneDef
  \/ defs'[d] # Null /\ defs[d] # GoneDef /\ defs'[d].episode = defs[d].episode

NoNewFound == \A q \in Requests : req'[q] = req[q] \/ ~HasFound(req'[q])

LEMMA ContentKept ==
  ASSUME NullIsNoRow, ContentInv, DOMAIN defs' = Defs, DOMAIN settings' = Episodes,
         \A d \in Defs : DefGoes(d), NoNewFound
  PROVE  ContentInv'
<1> SUFFICES ASSUME NEW q \in Requests, HasFound(req'[q]) PROVE Found(q)'
  BY DEF ContentInv, Found
<1>1. req'[q] = req[q]
  BY DEF NoNewFound
<1> DEFINE d == req[q].def
<1>2. d \in Defs /\ defs[d] # Null /\ (defs[d] = GoneDef \/ defs[d].episode = req[q].key)
  BY <1>1 DEF ContentInv, Found
<1>3. GoneDef # Null
  BY DEF NullIsNoRow, GoneDef
<1>4. DefGoes(d)
  BY <1>2
<1>5. defs'[d] # Null /\ (defs'[d] = GoneDef \/ defs'[d].episode = req[q].key)
  BY <1>2, <1>3, <1>4 DEF DefGoes
<1> HIDE DEF d
<1> QED BY <1>1, <1>2, <1>5 DEF Found, d

LEMMA SameContent ==
  ASSUME NEW e \in Episodes, settings'[e] = settings[e], e \in Existing' <=> e \in Existing,
         \A d \in Defs : defs'[d] = defs[d] \/ d \notin DefsOf(e) \cup DefsOf(e)'
  PROVE  Content(e)' = Content(e)
<1>1. \A d : d \in DefsOf(e)' <=> d \in DefsOf(e)
  BY DEF DefsOf
<1>2. \A d \in DefsOf(e) : d \in Defs /\ defs'[d] = defs[d]
  BY DEF DefsOf
<1>3. {<<d, defs'[d]>> : d \in DefsOf(e)'} = {<<d, defs[d]>> : d \in DefsOf(e)}
  BY <1>1, <1>2
<1> QED BY <1>3 DEF Content

\* No row of an episode is written but its status.
LEMMA QuietKeeps ==
  ASSUME NullIsNoRow, ContentInv, UNCHANGED <<settings, defs>>, NoNewFound,
         \A e \in Episodes : e \in Existing' <=> e \in Existing
  PROVE  ContentInv' /\ FrozenStep
<1>1. ContentInv'
  BY ContentKept DEF ContentInv, DefGoes
<1>2. \A e \in Episodes : Content(e)' = Content(e)
  BY SameContent
<1> QED BY <1>1, <1>2 DEF FrozenStep

LEMMA OneMoves ==
  ASSUME IInv, NEW r \in Requests, NEW x, req' = [req EXCEPT ![r] = x], ~HasFound(x)
  PROVE  NoNewFound
BY DEF IInv, RowInv, RowsTyped, NoNewFound

LEMMA IdleFoundNothing == ~HasFound(Idle)
BY DEF HasFound, Idle

\* A handler that has checked the draft writes.
LEMMA WriteKeeps ==
  ASSUME NullIsNoRow, IInv, ContentInv, NEW r \in Requests,
         req[r].pc # "idle", req[r].kind \in OfDraft, Finish(r),
         DOMAIN defs' = Defs, DOMAIN settings' = Episodes, \A d \in Defs : DefGoes(d),
         \A e \in Episodes \ {req[r].key} : Content(e)' = Content(e)
  PROVE  ContentInv' /\ FrozenStep
<1>1. req' = [req EXCEPT ![r] = Idle] /\ early' = [e \in Episodes |-> early[e] \ {r}]
  BY DEF Finish
<1>2. ContentInv'
  BY <1>1, OneMoves, IdleFoundNothing, ContentKept
<1>3. ASSUME NEW e \in Episodes, status[e] \in {"live", "ended"}, Content(e)' # Content(e)
      PROVE  r \in early[e] /\ r \notin early'[e]
  <2>1. e = req[r].key
    BY <1>3
  <2> QED BY <1>1, <1>3, <2>1 DEF IInv, RowInv, Handled
<1> QED BY <1>2, <1>3 DEF FrozenStep

LEMMA DraftWritesKeep ==
  ASSUME NullIsNoRow, IInv, ContentInv, NEW r \in Requests,
         \/ DeleteWrite(r) \/ RemoveWrite(r) \/ \E v \in Valid : PatchWrite(r, v)
         \/ \E d \in Defs, x \in Texts : AddCreate(r, d, x)
         \/ \E x \in Texts, o \in 0..MaxOrder : EditWrite(r, x, o)
  PROVE  ContentInv' /\ FrozenStep
<1> DEFINE k == req[r].key
<1>0. /\ DOMAIN defs = Defs /\ DOMAIN settings = Episodes /\ Found(r)
      /\ GoneDef # Null /\ GoneDef.episode = Null /\ Null \notin Episodes
      /\ DOMAIN status = Episodes
  BY DEF ContentInv, NullIsNoRow, GoneDef, IInv, RowInv, RowsTyped
<1>1. ASSUME NEW v \in Valid, PatchWrite(r, v) PROVE ContentInv' /\ FrozenStep
  <2>1. /\ req[r].pc = "checked" /\ req[r].kind = "patch" /\ Finish(r) /\ defs' = defs /\ status' = status
        /\ settings' = [settings EXCEPT ![k] = IF k \in Existing THEN v ELSE settings[k]]
    BY <1>1 DEF PatchWrite, At
  <2>2. \A e \in Episodes \ {k} : Content(e)' = Content(e)
    BY <1>0, <2>1, SameContent DEF Existing
  <2> QED BY <1>0, <2>1, <2>2, WriteKeeps DEF OfDraft, DefGoes
<1>2. CASE DeleteWrite(r)
  <2>1. /\ req[r].pc = "checked" /\ req[r].kind = "delete" /\ Finish(r) /\ settings' = settings
        /\ \/ status' = [status EXCEPT ![k] = "deleted"]
              /\ defs' = [d \in Defs |-> IF d \in DefsOf(k) THEN GoneDef ELSE defs[d]]
           \/ status' = status /\ defs' = defs
    BY <1>2 DEF DeleteWrite, At
  <2>2. ASSUME NEW e \in Episodes \ {k} PROVE Content(e)' = Content(e)
    <3>1. e \in Existing' <=> e \in Existing
      BY <1>0, <2>1 DEF Existing
    <3>2. ASSUME NEW d \in Defs, defs'[d] # defs[d] PROVE d \notin DefsOf(e) \cup DefsOf(e)'
      BY <1>0, <2>1, <3>2 DEF DefsOf
    <3> QED BY <2>1, <3>1, <3>2, SameContent
  <2>3. DOMAIN defs' = Defs /\ \A d \in Defs : DefGoes(d)
    BY <1>0, <2>1 DEF DefGoes
  <2> QED BY <1>0, <2>1, <2>2, <2>3, WriteKeeps DEF OfDraft
<1>3. ASSUME NEW at \in Defs, NEW row, Finish(r), req[r].pc # "idle", req[r].kind \in OfDraft,
             UNCHANGED <<status, settings>>, defs' = [defs EXCEPT ![at] = row] \/ defs' = defs,
             \/ defs[at] = Null /\ row.episode = k
             \/ /\ defs[at] # Null /\ (defs[at] = GoneDef \/ defs[at].episode = k)
                /\ \/ row = GoneDef
                   \/ defs[at] # GoneDef /\ row # Null /\ row.episode = k
      PROVE  ContentInv' /\ FrozenStep
  <2>1. ASSUME NEW d \in Defs PROVE defs'[d] = defs[d] \/ (d = at /\ defs'[d] = row)
    BY <1>0, <1>3
  <2>2. ASSUME NEW e \in Episodes \ {k} PROVE Content(e)' = Content(e)
    <3>1. e \in Existing' <=> e \in Existing
      BY <1>3 DEF Existing
    <3>2. ASSUME NEW d \in Defs, defs'[d] # defs[d] PROVE d \notin DefsOf(e) \cup DefsOf(e)'
      <4>1. d = at /\ defs'[d] = row
        BY <2>1, <3>2
      <4> QED BY <1>0, <1>3, <4>1 DEF DefsOf
    <3> QED BY <1>3, <3>1, <3>2, SameContent
  <2>3. DOMAIN defs' = Defs /\ \A d \in Defs : DefGoes(d)
    BY <1>0, <1>3, <2>1 DEF DefGoes
  <2> QED BY <1>0, <1>3, <2>2, <2>3, WriteKeeps
<1>4. CASE RemoveWrite(r)
  <2>1. /\ req[r].kind = "remove" /\ req[r].pc = "found" /\ Finish(r) /\ UNCHANGED <<status, settings>>
        /\ defs' = [defs EXCEPT ![req[r].def] = GoneDef]
    BY <1>4 DEF RemoveWrite, At, rowVars
  <2>2. req[r].def \in Defs /\ defs[req[r].def] # Null
        /\ (defs[req[r].def] = GoneDef \/ defs[req[r].def].episode = k)
    BY <1>0, <2>1 DEF Found, HasFound
  <2> HIDE DEF k
  <2> QED BY <2>1, <2>2, <1>3 DEF OfDraft
<1>5. ASSUME NEW x \in Texts, NEW o \in 0..MaxOrder, EditWrite(r, x, o) PROVE ContentInv' /\ FrozenStep
  <2> DEFINE at == req[r].def
             row == IF defs[at] = GoneDef THEN GoneDef
                    ELSE [episode |-> defs[at].episode, text |-> x, order |-> o]
  <2>1. /\ req[r].kind = "edit" /\ req[r].pc = "found" /\ Finish(r) /\ UNCHANGED <<status, settings>>
        /\ defs' = [defs EXCEPT ![at] = row]
    BY <1>5 DEF EditWrite, At, rowVars
  <2>2. at \in Defs /\ defs[at] # Null /\ (defs[at] = GoneDef \/ defs[at].episode = k)
    BY <1>0, <2>1 DEF Found, HasFound
  <2>3. row = GoneDef \/ (defs[at] # GoneDef /\ row # Null /\ row.episode = k)
    BY <2>2 DEF NullIsNoRow
  <2> HIDE DEF k, at, row
  <2> QED BY <2>1, <2>2, <2>3, <1>3 DEF OfDraft
<1>6. ASSUME NEW d \in Defs, NEW x \in Texts, AddCreate(r, d, x) PROVE ContentInv' /\ FrozenStep
  <2> DEFINE row == [episode |-> k, text |-> x, order |-> req[r].number]
  <2>1. /\ req[r].kind = "add" /\ req[r].pc = "ordered" /\ Finish(r) /\ UNCHANGED <<status, settings>>
        /\ defs[d] = Null /\ (defs' = [defs EXCEPT ![d] = row] \/ defs' = defs)
    BY <1>6 DEF AddCreate, At, rowVars
  <2>2. row.episode = k
    OBVIOUS
  <2> HIDE DEF k, row
  <2> QED BY <2>1, <2>2, <1>3 DEF OfDraft
<1> QED BY <1>1, <1>2, <1>4, <1>5, <1>6

\* A draft is created, with or without events.
LEMMA CreatedKeeps ==
  ASSUME NullIsNoRow, IInv, ContentInv, NoNewFound, NEW e \in Episodes, NEW v, status[e] = "free",
         status' = [status EXCEPT ![e] = "draft"], settings' = [settings EXCEPT ![e] = v],
         DOMAIN defs' = Defs,
         \A d \in Defs : defs'[d] = defs[d] \/ (defs[d] = Null /\ defs'[d].episode = e)
  PROVE  ContentInv' /\ FrozenStep
<1>1. ContentInv'
  BY ContentKept DEF DefGoes, ContentInv
<1>2. ASSUME NEW y \in Episodes, status[y] \in {"live", "ended"} PROVE Content(y)' = Content(y)
  <2>1. y # e
    BY <1>2
  <2>2. settings'[y] = settings[y] /\ (y \in Existing' <=> y \in Existing)
    BY <2>1 DEF Existing, ContentInv, IInv, RowInv, RowsTyped
  <2>3. \A d \in Defs : defs'[d] = defs[d] \/ d \notin DefsOf(y) \cup DefsOf(y)'
    BY <2>1 DEF DefsOf
  <2> QED BY <2>2, <2>3, SameContent
<1> QED BY <1>1, <1>2 DEF FrozenStep

\* All that finds no definition, and writes no row but its status.
LEMMA ReadsFindNothing ==
  ASSUME IInv, NEW r \in Requests, Arrives(r) PROVE NoNewFound
<1>1. ASSUME NEW kind, NEW k, Start(r, kind, k) PROVE NoNewFound
  <2> DEFINE x == [Idle EXCEPT !.pc = "checked", !.kind = kind, !.key = k]
  <2>1. req' = [req EXCEPT ![r] = x] /\ x.pc = "checked"
    BY <1>1 DEF Start, Idle
  <2> HIDE DEF x
  <2> QED BY <2>1, OneMoves DEF HasFound
<1>2. ASSUME NEW e \in Episodes,
             \/ PatchRead(r, e) \/ DeleteRead(r, e) \/ AddRead(r, e) \/ LaunchRead(r, e)
             \/ \E kind \in {"edit", "remove"} : EditRead(r, e, kind)
      PROVE  NoNewFound
  BY <1>1, <1>2 DEF PatchRead, DeleteRead, AddRead, LaunchRead, EditRead
<1>3. ASSUME NEW k, NEW key, NEW seen,
             req' = [req EXCEPT ![r] = [Idle EXCEPT !.pc = "checked", !.kind = k, !.key = key, !.seen = seen]]
      PROVE  NoNewFound
  <2> DEFINE x == [Idle EXCEPT !.pc = "checked", !.kind = k, !.key = key, !.seen = seen]
  <2>1. req' = [req EXCEPT ![r] = x] /\ x.pc = "checked"
    BY <1>3 DEF Idle
  <2> HIDE DEF x
  <2> QED BY <2>1, OneMoves DEF HasFound
<1>4. ASSUME NEW e \in Episodes, SaveRead(r, e) PROVE NoNewFound
  <2>1. PICK list \in Listed(e) :
          req' = [req EXCEPT ![r] = [Idle EXCEPT !.pc = "checked", !.kind = "t_save", !.key = e,
                                       !.seen = [events |-> list, settings |-> settings[e]]]]
    BY <1>4 DEF SaveRead
  <2> QED BY <1>3, <2>1
<1>5. ASSUME NEW t \in Templates, UseRead(r, t) PROVE NoNewFound
  BY <1>3, <1>5 DEF UseRead
<1>6. ASSUME NEW t \in Templates, NEW kind \in {"t_patch", "t_delete"}, TemplateRead(r, t, kind)
      PROVE  NoNewFound
  BY <1>1, <1>6 DEF TemplateRead
<1>7. ASSUME NEW e \in Episodes, EndRead(r, e) PROVE NoNewFound
  <2> DEFINE x == [Idle EXCEPT !.pc = "checked", !.kind = "end", !.key = e,
                                 !.number = column[Job("root", e)]]
  <2>1. req' = [req EXCEPT ![r] = x] /\ x.pc = "checked"
    BY <1>7 DEF EndRead, Idle
  <2> HIDE DEF x
  <2> QED BY <2>1, OneMoves DEF HasFound
<1>8. ASSUME NEW j \in Jobs, TokenCall(r, j) PROVE NoNewFound
  <2> DEFINE x == [Idle EXCEPT !.pc = "chain", !.kind = "token", !.key = j]
  <2>1. req' = [req EXCEPT ![r] = x] /\ x.pc = "chain"
    BY <1>8 DEF TokenCall, Idle
  <2> HIDE DEF x
  <2> QED BY <2>1, OneMoves DEF HasFound
<1> QED BY <1>1, <1>2, <1>4, <1>5, <1>6, <1>7, <1>8 DEF Arrives

LEMMA GoingOnFindsNothing ==
  ASSUME IInv, NEW r \in Requests, NEW pc \in {"chain", "ordered", "cleared", "stored"},
         \/ req' = [req EXCEPT ![r] = [req[r] EXCEPT !.pc = pc]]
         \/ \E n : req' = [req EXCEPT ![r] = [req[r] EXCEPT !.pc = pc, !.number = n]]
  PROVE  NoNewFound
<1>0. IsReq(req[r])
  BY DEF IInv, RowInv, Handled
<1>1. CASE req' = [req EXCEPT ![r] = [req[r] EXCEPT !.pc = pc]]
  <2> DEFINE x == [req[r] EXCEPT !.pc = pc]
  <2>1. x.pc = pc
    BY <1>0 DEF IsReq
  <2> QED BY <1>1, <2>1, OneMoves DEF HasFound
<1>2. ASSUME NEW n, req' = [req EXCEPT ![r] = [req[r] EXCEPT !.pc = pc, !.number = n]] PROVE NoNewFound
  <2> DEFINE x == [req[r] EXCEPT !.pc = pc, !.number = n]
  <2>1. x.pc = pc
    BY <1>0 DEF IsReq
  <2> QED BY <1>2, <2>1, OneMoves DEF HasFound
<1> QED BY <1>1, <1>2

\* A request finds a definition.
LEMMA FindKeeps ==
  ASSUME NullIsNoRow, IInv, ContentInv, NEW r \in Requests, NEW d \in Defs, EditFind(r, d)
  PROVE  ContentInv' /\ FrozenStep
<1> DEFINE x == [req[r] EXCEPT !.pc = "found", !.def = d]
<1>1. /\ UNCHANGED <<status, settings, defs>> /\ req' = [req EXCEPT ![r] = x]
      /\ d \in Defs /\ defs[d] # Null /\ defs[d].episode = req[r].key
  BY DEF EditFind, draftVars, DefsOf
<1>2. x.def = d /\ x.key = req[r].key
  BY DEF IInv, RowInv, Handled, IsReq
<1> HIDE DEF x
<1>3. req'[r] = x /\ \A q \in Requests \ {r} : req'[q] = req[q]
  BY <1>1 DEF IInv, RowInv, RowsTyped
<1>4. \A q \in Requests : Found(q)'
  BY <1>1, <1>2, <1>3 DEF ContentInv, Found
<1>5. \A e \in Episodes : Content(e)' = Content(e)
  BY <1>1, SameContent DEF Existing
<1> QED BY <1>1, <1>4, <1>5 DEF ContentInv, FrozenStep

LEMMA UseKeeps ==
  ASSUME NullIsNoRow, IInv, ContentInv, NEW r \in Requests, NEW e \in Episodes, NEW v, UseCreate(r, e, v)
  PROVE  ContentInv' /\ FrozenStep
<1>1. /\ status[e] = "free" /\ status' = [status EXCEPT ![e] = "draft"]
      /\ settings' = [settings EXCEPT ![e] = v] /\ Finish(r)
  BY DEF UseCreate
<1>2. PICK ids \in SUBSET {d \in Defs : defs[d] = Null} :
        LET at == SetToSeq(ids) IN
        defs' = [d \in Defs |->
                   IF d \in ids
                   THEN LET i == CHOOSE n \in DOMAIN at : at[n] = d
                        IN  [episode |-> e, text |-> req[r].seen.events[i], order |-> i - 1]
                   ELSE defs[d]]
  BY DEF UseCreate, kSubset
<1>3. DOMAIN defs' = Defs /\ \A d \in Defs : defs'[d] = defs[d] \/ (defs[d] = Null /\ defs'[d].episode = e)
  BY <1>2
<1>4. NoNewFound
  BY <1>1, OneMoves, IdleFoundNothing DEF Finish
<1> QED BY <1>1, <1>3, <1>4, CreatedKeeps

LEMMA SavesFreeze ==
  ASSUME NullIsNoRow, IInv, ContentInv, NEW r \in Requests, LaunchSave(r) \/ EndSave(r) \/ TokenSave(r)
  PROVE  ContentInv' /\ FrozenStep
<1>1. UNCHANGED <<settings, defs>> /\ req' = [req EXCEPT ![r] = Idle]
  BY DEF LaunchSave, EndSave, TokenSave, Finish, rowVars
<1>2. \/ status' = status
      \/ /\ req[r].key \in Existing
         /\ \E s \in {"live", "ended"} : status' = [status EXCEPT ![req[r].key] = s]
  <2>1. CASE EndSave(r)
    <3>1. req[r].key \in Episodes
      BY <2>1 DEF EndSave, Answered, At, IInv, RowInv, Handled
    <3> QED BY <2>1, <3>1 DEF EndSave, IInv, RowInv, RowsTyped
  <2> QED BY <2>1 DEF LaunchSave, TokenSave, rowVars
<1>3. \A e \in Episodes : e \in Existing' <=> e \in Existing
  BY <1>2 DEF Existing, IInv, RowInv, RowsTyped
<1>4. NoNewFound
  BY <1>1, OneMoves, IdleFoundNothing
<1> QED BY <1>1, <1>3, <1>4, QuietKeeps

LEMMA StepsFreeze ==
  ASSUME NullIsNoRow, IInv, ContentInv, Next PROVE ContentInv' /\ FrozenStep
<1>1. ASSUME UNCHANGED <<status, settings, defs>>, NoNewFound PROVE ContentInv' /\ FrozenStep
  BY <1>1, QuietKeeps DEF Existing
<1>2. ASSUME NEW r \in Requests, Finish(r) PROVE NoNewFound
  BY <1>2, OneMoves, IdleFoundNothing DEF Finish
<1>3. ASSUME UNCHANGED req PROVE NoNewFound
  BY <1>3 DEF NoNewFound
<1>4. ASSUME NEW e \in Episodes, NEW v \in Valid, Create(e, v) PROVE ContentInv' /\ FrozenStep
  BY <1>3, <1>4, CreatedKeeps DEF Create, ContentInv
<1>5. ASSUME NEW r \in Requests, Arrives(r) PROVE ContentInv' /\ FrozenStep
  <2>1. UNCHANGED <<status, settings, defs>>
    BY <1>5 DEF Arrives, PatchRead, DeleteRead, AddRead, EditRead, SaveRead, LaunchRead, EndRead,
                UseRead, TemplateRead, TokenCall, Start, draftVars, rowVars
  <2> QED BY <1>1, <1>5, <2>1, ReadsFindNothing
<1>6. ASSUME NEW r \in Requests, DraftStep(r) PROVE ContentInv' /\ FrozenStep
  <2>1. CASE AddOrder(r)
    <3>1. /\ \E n : req' = [req EXCEPT ![r] = [req[r] EXCEPT !.pc = "ordered", !.number = n]]
          /\ UNCHANGED <<status, settings, defs>>
      BY <2>1 DEF AddOrder, draftVars
    <3> QED BY <1>1, <3>1, GoingOnFindsNothing
  <2>2. CASE EditNotFound(r)
    BY <1>1, <1>2, <2>2 DEF EditNotFound, draftVars
  <2> QED BY <1>6, <2>1, <2>2, FindKeeps, DraftWritesKeep DEF DraftStep
<1>7. ASSUME NEW r \in Requests, TemplateStep(r) PROVE ContentInv' /\ FrozenStep
  <2>1. CASE \/ TemplateDelete(r) \/ (\E events \in Lists, v \in Settings : TemplatePatch(r, events, v))
             \/ \E t \in Templates : SaveCreate(r, t)
    BY <1>1, <1>2, <2>1 DEF TemplateDelete, TemplatePatch, SaveCreate, rowVars
  <2> QED BY <1>7, <2>1, UseKeeps DEF TemplateStep
<1>8. ASSUME NEW r \in Requests, HandlerStep(r) PROVE ContentInv' /\ FrozenStep
  <2>1. CASE AskChain(r)
    <3>1. UNCHANGED <<status, settings, defs>> /\ req' = [req EXCEPT ![r] = [req[r] EXCEPT !.pc = "chain"]]
      BY <2>1 DEF AskChain, draftVars
    <3> QED BY <1>1, <3>1, GoingOnFindsNothing
  <2> QED BY <1>8, <2>1, SavesFreeze DEF HandlerStep
<1>9. CASE Crash
  <2>1. UNCHANGED <<status, settings, defs>> /\ req' = [r \in Requests |-> Idle]
    BY <1>9 DEF Crash, draftVars
  <2> QED BY <1>1, <2>1, IdleFoundNothing DEF NoNewFound
<1>10. CASE \/ \E t \in Templates, events \in Lists, v \in Settings : TemplateCreate(t, events, v)
            \/ \E r \in Requests : BridgeMoves(r)
            \/ ChainStep /\ UNCHANGED <<draftVars, configured, req, early, starts>>
  BY <1>1, <1>3, <1>10 DEF TemplateCreate, BridgeMoves, draftVars, rowVars
<1> QED BY <1>4, <1>5, <1>6, <1>7, <1>8, <1>9, <1>10 DEF Next

LEMMA ImageStepsFreeze ==
  ASSUME NullIsNoRow, IInv, ContentInv, NEW r \in Requests, ImageStep(r) PROVE ContentInv' /\ FrozenStep
<1>1. ASSUME UNCHANGED <<status, settings, defs>>, NoNewFound PROVE ContentInv' /\ FrozenStep
  BY <1>1, QuietKeeps DEF Existing
<1>2. CASE \E o \in Owners : UploadRead(r, o) \/ ClearRead(r, o)
  <2>1. PICK o \in Owners, kind \in {"upload", "clear"} : StartImage(r, kind, o)
    BY <1>2 DEF UploadRead, ClearRead
  <2> DEFINE x == [Idle EXCEPT !.pc = "checked", !.kind = kind, !.key = o,
                                 !.seen = image[o], !.number = images + 1]
  <2>2. UNCHANGED <<status, settings, defs>> /\ req' = [req EXCEPT ![r] = x] /\ x.pc = "checked"
    BY <2>1 DEF StartImage, draftVars, Idle
  <2> HIDE DEF x
  <2> QED BY <1>1, <2>2, OneMoves DEF HasFound
<1>3. CASE OldDeleted(r) \/ Uploaded(r) \/ UploadSave(r) \/ ClearSave(r)
  <2>1. /\ UNCHANGED <<status, settings, defs>>
        /\ \/ Finish(r)
           \/ \E pc \in {"cleared", "stored"} : req' = [req EXCEPT ![r] = [req[r] EXCEPT !.pc = pc]]
    BY <1>3 DEF OldDeleted, Uploaded, UploadSave, ClearSave, draftVars
  <2>2. NoNewFound
    BY <2>1, OneMoves, IdleFoundNothing, GoingOnFindsNothing DEF Finish
  <2> QED BY <1>1, <2>1, <2>2
<1>4. CASE \E v \in Valid, url \in {Null, Elsewhere} : PatchImage(r, v, url)
  BY <1>4, DraftWritesKeep DEF PatchImage
<1> QED BY <1>2, <1>3, <1>4 DEF ImageStep

\* After a launch only the requests that were in flight on the draft change the
\* episode, each once: every handler checks the draft on the row it reads first
\* (episodes.ts:143, 226, 578, 627, 687).
THEOREM LaunchesFreeze ==
  ASSUME NullIsNoRow PROVE StudioSpec => LaunchFreezes
<1>1. Init => ContentInv
  BY IdleFoundNothing DEF Init, InitRest, ContentInv, Found
<1>2. StudioInv /\ ContentInv /\ [StudioNext]_allVars => ContentInv' /\ [FrozenStep]_vars
  <2> SUFFICES ASSUME IInv, ContentInv, [StudioNext]_allVars PROVE ContentInv' /\ [FrozenStep]_vars
    BY DEF StudioInv
  <2>1. CASE UNCHANGED allVars
    <3>1. UNCHANGED vars /\ UNCHANGED <<settings, defs, req>>
      BY <2>1 DEF allVars, vars, draftVars
    <3> QED BY <3>1 DEF ContentInv, Found
  <2> QED BY <2>1, StepsFreeze, ImageStepsFreeze DEF StudioNext
<1> QED BY <1>1, <1>2, StudioCorrect, PTL DEF StudioSpec, LaunchFreezes
-----------------------------------------------------------------------------
(* What the chain client promises.                                         *)

\* Every token was the next of its kind.
Numbers == \A j \in Jobs : minted[j] < NextId(j.op)

\* Without the chain nothing is asked of it, and no row has a token.
Blank(q) == q.kind = "end" => q.number = 0

Off ==
  ~configured =>
    /\ pool = <<>> /\ \A j \in Jobs : column[j] = 0
    /\ \A r \in Requests : call[r] = NoCall /\ Blank(req[r])

PromiseMoves == Promise!PromiseNext \/ UNCHANGED Promise!promiseVars

LEMMA PromiseJobs == Promise!Jobs = Jobs /\ \A op, k : Promise!Job(op, k) = Job(op, k)
BY DEF Promise!Jobs, Jobs, Promise!Job, Job

LEMMA JobShapes ==
  ASSUME NEW j \in Jobs
  PROVE  \/ j.op \in {"root", "end"} /\ j.key \in Episodes /\ j = Job(j.op, j.key)
         \/ j.op \in {"branch", "fruit"} /\ j.key \in Cards /\ j = Job(j.op, j.key)
BY DEF Jobs, Job

LEMMA JobsOfCards ==
  \A c \in Cards : Job("branch", c) \in Jobs /\ Job("branch", c).op = "branch"
                   /\ Job("branch", c).key = c
BY DEF Jobs, Job

Busy == {"send", "wait", "mined", "reverted"}

\* How a call looks to those who are promised something, before a step and after.
LEMMA AskingNow ==
  ASSUME NEW r
  PROVE  /\ call[r].pc \in Busy => Asking(r) = [pc |-> "asked", job |-> call[r].job, id |-> 0]
         /\ call[r].pc = "back" =>
              Asking(r) = [pc |-> "answered", job |-> call[r].job, id |-> call[r].id]
         /\ call[r] = NoCall => Asking(r) = Promise!NoAsk
BY DEF Asking, Busy, NoCall, Promise!NoAsk

LEMMA AskingNext ==
  ASSUME NEW r
  PROVE  /\ call'[r].pc \in Busy => Asking(r)' = [pc |-> "asked", job |-> call'[r].job, id |-> 0]
         /\ call'[r].pc = "back" =>
              Asking(r)' = [pc |-> "answered", job |-> call'[r].job, id |-> call'[r].id]
         /\ call'[r] = NoCall => Asking(r)' = Promise!NoAsk
BY DEF Asking, Busy, NoCall, Promise!NoAsk

LEMMA AsksOf == \A r \in Requests : Asks[r] = Asking(r)
BY DEF Asks

LEMMA AskedJob ==
  ASSUME NEW r
  PROVE  Asking(r).job = call[r].job /\ (Asking(r).pc # "none" <=> call[r].pc # "none")
<1> DEFINE pc == CASE call[r].pc = "none" -> "none"
                   [] call[r].pc = "back" -> "answered"
                   [] OTHER               -> "asked"
           id == IF call[r].pc = "back" THEN call[r].id ELSE 0
<1>1. Asking(r) = [pc |-> pc, job |-> call[r].job, id |-> id]
  BY DEF Asking
<1>2. pc # "none" <=> call[r].pc # "none"
  OBVIOUS
<1> HIDE DEF pc, id
<1>3. Asking(r).pc = pc /\ Asking(r).job = call[r].job
  BY <1>1
<1> QED BY <1>2, <1>3

\* One call changes.
LEMMA OneAsks ==
  ASSUME Typed, NEW r \in Requests, NEW c, call' = [call EXCEPT ![r] = c]
  PROVE  call'[r] = c /\ Asks' = [Asks EXCEPT ![r] = Asking(r)']
<1>1. call'[r] = c /\ \A q \in Requests \ {r} : call'[q] = call[q]
  BY DEF Typed
<1>2. \A q \in Requests \ {r} : Asking(q)' = Asking(q)
  BY <1>1 DEF Asking
<1>3. Asks' = [q \in Requests |-> Asking(q)']
  BY DEF Asks
<1>4. [Asks EXCEPT ![r] = Asking(r)'] = [q \in Requests |-> IF q = r THEN Asking(r)' ELSE Asking(q)]
  BY DEF Asks
<1> QED BY <1>1, <1>2, <1>3, <1>4

\* Nothing that was promised changes.
LEMMA PromiseStays ==
  ASSUME UNCHANGED minted, Asks' = Asks, Doubts' = Doubts
  PROVE  UNCHANGED Promise!promiseVars
BY DEF Promise!promiseVars, Promise!ledger, Hung, Done

LEMMA LedgerStays ==
  ASSUME UNCHANGED minted PROVE UNCHANGED Promise!ledger
BY DEF Promise!ledger, Hung, Done

LEMMA QuietStays ==
  ASSUME UNCHANGED <<minted, call, doubt, configured>> PROVE UNCHANGED Promise!promiseVars
<1>1. Asks' = Asks /\ Doubts' = Doubts
  BY DEF Asks, Asking, Doubts
<1> QED BY <1>1, PromiseStays

-----------------------------------------------------------------------------
\* A request comes to its call.
LEMMA BeginsToAsk ==
  ASSUME Typed, NEW r \in Requests, NEW j \in Jobs, call[r] = NoCall, configured, configured' = configured,
         Begin(r, j), UNCHANGED minted
  PROVE  PromiseMoves
<1> DEFINE c == [NoCall EXCEPT !.pc = "send", !.job = j]
<1>1. c.pc = "send" /\ c.job = j
  BY DEF NoCall
<1>2. call' = [call EXCEPT ![r] = c]
  BY DEF Begin
<1> HIDE DEF c
<1>3. call'[r] = c /\ Asks' = [Asks EXCEPT ![r] = Asking(r)']
  BY <1>2, OneAsks
<1>4. Asking(r)' = [pc |-> "asked", job |-> j, id |-> 0]
  BY <1>1, <1>3, AskingNext DEF Busy
<1>5. Asks[r] = Promise!NoAsk
  BY AskingNow, AsksOf
<1>6. \A q \in Requests : Asks[q].job = call[q].job
  BY AsksOf, AskedJob
<1>7. Doubts' = IF \E q \in Requests \ {r} : Asks[q].job = j THEN Doubts \cup {j} ELSE Doubts
  BY <1>6 DEF Doubts, Begin
<1>8. Promise!Ask(r, j)
  BY <1>3, <1>4, <1>5, <1>7, LedgerStays DEF Promise!Ask
<1> QED BY <1>8, PromiseJobs DEF PromiseMoves, Promise!PromiseNext

\* An open call that stays open.
LEMMA GoesOn ==
  ASSUME Typed, NEW r \in Requests, NEW c, call[r].pc \in Busy, c.pc \in Busy, c.job = call[r].job,
         call' = [call EXCEPT ![r] = c], configured, configured' = configured, UNCHANGED minted,
         doubt' = doubt \/ doubt' = doubt \cup {call[r].job}
  PROVE  PromiseMoves
<1>1. call'[r] = c /\ Asks' = [Asks EXCEPT ![r] = Asking(r)']
  BY OneAsks
<1>2. Asking(r)' = Asking(r)
  BY <1>1, AskingNow, AskingNext
<1>3. Asks' = Asks
  BY <1>1, <1>2 DEF Asks
<1>4. Asks[r].pc = "asked" /\ Asks[r].job = call[r].job
  BY AskingNow, AsksOf
<1>5. Doubts = doubt /\ Doubts' = doubt'
  BY DEF Doubts
<1>6. Promise!GoOn(r)
  BY <1>3, <1>4, <1>5, LedgerStays DEF Promise!GoOn, Promise!MayDoubt
<1> QED BY <1>6 DEF PromiseMoves, Promise!PromiseNext

\* An open call that returns with a failure ...
LEMMA Fails ==
  ASSUME Typed, NEW r \in Requests, call[r].pc \in Busy, call' = Returned(r, 0),
         configured, configured' = configured, UNCHANGED minted,
         doubt' = doubt \/ doubt' = doubt \cup {call[r].job}
  PROVE  PromiseMoves
<1> DEFINE c == [call[r] EXCEPT !.pc = "back", !.tx = 0, !.id = 0]
<1>1. c.pc = "back" /\ c.job = call[r].job /\ c.id = 0
  BY DEF Typed, CallType
<1>2. call' = [call EXCEPT ![r] = c]
  BY DEF Returned
<1> HIDE DEF c
<1>3. call'[r] = c /\ Asks' = [Asks EXCEPT ![r] = Asking(r)']
  BY <1>2, OneAsks
<1>4. Asks[r] = [pc |-> "asked", job |-> call[r].job, id |-> 0]
  BY AskingNow, AsksOf
<1>5. Asking(r)' = [Asks[r] EXCEPT !.pc = "answered"]
  BY <1>1, <1>3, <1>4, AskingNext
<1>6. Doubts = doubt /\ Doubts' = doubt'
  BY DEF Doubts
<1>7. Promise!Fail(r)
  BY <1>3, <1>4, <1>5, <1>6, LedgerStays DEF Promise!Fail, Promise!MayDoubt
<1> QED BY <1>7 DEF PromiseMoves, Promise!PromiseNext

\* ... or with what the receipt says.
LEMMA Brought ==
  ASSUME Typed, Ids, NEW r \in Requests, call[r].pc = "mined", call' = Returned(r, call[r].id),
         configured, configured' = configured, UNCHANGED <<minted, doubt>>
  PROVE  PromiseMoves
<1>1. CASE call[r].id = 0
  BY <1>1, Fails DEF Busy
<1>2. CASE call[r].id # 0
  <2> DEFINE c == [call[r] EXCEPT !.pc = "back", !.tx = 0, !.id = call[r].id]
  <2>1. c.pc = "back" /\ c.job = call[r].job /\ c.id = call[r].id
    BY DEF Typed, CallType
  <2>2. call' = [call EXCEPT ![r] = c]
    BY DEF Returned
  <2> HIDE DEF c
  <2>3. call'[r] = c /\ Asks' = [Asks EXCEPT ![r] = Asking(r)']
    BY <2>2, OneAsks
  <2>4. Asks[r] = [pc |-> "asked", job |-> call[r].job, id |-> 0]
    BY AskingNow, AsksOf DEF Busy
  <2>5. call[r].id = minted[call[r].job]
    BY <1>2 DEF Ids, Brings
  <2>6. Asking(r)' = [pc |-> "answered", job |-> call[r].job, id |-> call[r].id]
    BY <2>1, <2>3, AskingNext
  <2>7. Asks' = [Asks EXCEPT ![r] = [pc |-> "answered", job |-> Asks[r].job, id |-> minted[Asks[r].job]]]
    BY <2>3, <2>4, <2>5, <2>6
  <2>8. Doubts' = Doubts
    BY DEF Doubts
  <2>9. Promise!Succeed(r)
    BY <1>2, <2>4, <2>5, <2>7, <2>8, LedgerStays DEF Promise!Succeed
  <2> QED BY <2>9 DEF PromiseMoves, Promise!PromiseNext
<1> QED BY <1>1, <1>2

\* The handler has what it asked for, if it asked.
LEMMA Closes ==
  ASSUME Typed, NEW r \in Requests, call[r] = NoCall \/ call[r].pc = "back",
         call' = [call EXCEPT ![r] = NoCall], configured' = configured, UNCHANGED minted,
         doubt' = doubt \/ (call[r] = NoCall /\ ~configured)
           \/ (call[r].pc = "back" /\ doubt' = doubt \cup {call[r].job})
  PROVE  PromiseMoves
<1>1. Asks' = [Asks EXCEPT ![r] = Promise!NoAsk]
  BY OneAsks, AskingNext
<1>2. CASE call[r] = NoCall
  <2>1. Asks' = Asks
    BY <1>1, <1>2, AskingNow, AsksOf DEF Asks
  <2>2. Doubts' = Doubts
    BY <1>2 DEF Doubts, NoCall
  <2> QED BY <2>1, <2>2, PromiseStays DEF PromiseMoves
<1>3. CASE call[r].pc = "back"
  <2>1. Asks[r] = [pc |-> "answered", job |-> call[r].job, id |-> call[r].id]
    BY <1>3, AskingNow, AsksOf
  <2>2. Doubts' = Doubts \/ Doubts' = Doubts \cup {Asks[r].job}
    BY <1>3, <2>1 DEF Doubts, NoCall
  <2>3. Promise!Close(r)
    BY <1>1, <2>1, <2>2, LedgerStays DEF Promise!Close, Promise!MayDoubt
  <2> QED BY <2>3 DEF PromiseMoves, Promise!PromiseNext
<1> QED BY <1>2, <1>3

-----------------------------------------------------------------------------
LEMMA BridgeMovesPromise ==
  ASSUME IInv, Off, NEW r \in Requests, BridgeMoves(r) PROVE PromiseMoves
<1>0. Typed /\ Ids /\ configured' = configured
  BY DEF IInv, BridgeInv, BridgeMoves
<1>1. call[r].pc \in Busy /\ call[r] # NoCall
  BY DEF BridgeMoves, BridgeStep, Send, SendRevert, SendError, SendLost, Confirmed, ConfirmedRevert,
         TimedOut, Busy, NoCall
<1>2. configured
  BY <1>1 DEF Off
<1>3. call[r] \in CallType
  BY <1>0 DEF Typed
<1> DEFINE again == [call[r] EXCEPT !.pc = "send", !.tx = 0, !.attempt = call[r].attempt + 1]
<1>4. again.pc = "send" /\ again.job = call[r].job
  BY <1>3 DEF CallType
<1>5. Retried(r) \in {[call EXCEPT ![r] = again], Returned(r, 0)}
  BY DEF Retried
<1> HIDE DEF again
<1>6. ASSUME call' = Retried(r), UNCHANGED minted, doubt' = doubt \/ doubt' = doubt \cup {call[r].job}
      PROVE  PromiseMoves
  BY <1>0, <1>1, <1>2, <1>4, <1>5, <1>6, GoesOn, Fails DEF Busy
<1>7. CASE Send(r)
  <2> DEFINE c == [call[r] EXCEPT !.pc = "wait", !.tx = Tx(r).tx]
  <2>1. c.pc = "wait" /\ c.job = call[r].job
    BY <1>3 DEF CallType
  <2>2. call' = [call EXCEPT ![r] = c] /\ UNCHANGED <<minted, doubt>>
    BY <1>7 DEF Send
  <2> HIDE DEF c
  <2>3. c.pc \in Busy
    BY <2>1 DEF Busy
  <2> QED BY <1>0, <1>1, <1>2, <2>1, <2>2, <2>3, GoesOn
<1>8. CASE SendRevert(r) \/ ConfirmedRevert(r)
  <2>1. call' = Returned(r, 0) /\ UNCHANGED <<minted, doubt>>
    BY <1>8 DEF SendRevert, ConfirmedRevert, chainVars
  <2> QED BY <1>0, <1>1, <1>2, <2>1, Fails
<1>9. CASE SendError(r) \/ SendLost(r) \/ TimedOut(r)
  BY <1>6, <1>9 DEF SendError, SendLost, TimedOut, chainVars
<1>10. CASE Confirmed(r)
  BY <1>0, <1>2, <1>10, Brought DEF Confirmed, chainVars
<1> QED BY <1>7, <1>8, <1>9, <1>10 DEF BridgeMoves, BridgeStep

-----------------------------------------------------------------------------
\* A transaction is mined.

LEMMA NextIdCounts ==
  ASSUME NEW j \in Jobs, minted \in [Jobs -> Nat], minted[j] = 0, NEW n \in Nat \ {0},
         minted' = [minted EXCEPT ![j] = n]
  PROVE  /\ NextId(j.op)' = NextId(j.op) + 1
         /\ \A op : op # j.op => NextId(op)' = NextId(op)
<1> DEFINE made(op) == {i \in Jobs : i.op = op /\ minted[i] # 0}
<1>1. \A op : op # j.op => made(op)' = made(op)
  OBVIOUS
<1>2. made(j.op)' = made(j.op) \cup {j} /\ j \notin made(j.op)
  OBVIOUS
<1>3. made(j.op) \in SUBSET Jobs
  OBVIOUS
<1>4. \A op : NextId(op) = Cardinality(made(op)) + 1 /\ NextId(op)' = Cardinality(made(op)') + 1
  BY DEF NextId
<1>5. IsFiniteSet(made(j.op))
  BY <1>3, JobsAreFinite, FS_Subset
<1> HIDE DEF made
<1>6. Cardinality(made(j.op) \cup {j}) = Cardinality(made(j.op)) + 1 /\ Cardinality(made(j.op)) \in Nat
  BY <1>2, <1>5, FS_AddElement, FS_CardinalityType
<1> QED BY <1>1, <1>2, <1>4, <1>6

LEMMA NumbersStay ==
  ASSUME Numbers, UNCHANGED minted PROVE Numbers'
BY DEF Numbers, NextId

\* What Mine does to a transaction that the contract lets through.
LEMMA MineWrites ==
  ASSUME IInv, Numbers, Mine
  PROVE  LET j == Head(pool).job IN
         /\ j \in Jobs /\ UNCHANGED <<doubt, faults>> /\ Asks' = Asks
         /\ \/ UNCHANGED minted
            \/ Allowed(j) /\ minted' = [minted EXCEPT ![j] = NextId(j.op)]
         /\ j \in doubt \/ \E r \in Requests : call[r].pc = "wait" /\ call[r].job = j
<1> DEFINE tx == Head(pool)
<1>0. Typed /\ Waited
  BY DEF IInv, BridgeInv
<1>1. tx = pool[1] /\ 1 \in DOMAIN pool
  BY <1>0, TailStays DEF IInv, BridgeInv, Mine
<1>2. tx \in TxType /\ tx.by \in Requests /\ tx.job \in Jobs
  BY <1>0, <1>1, PoolTyped
<1>3. PICK q \in Requests : q = tx.by
  BY <1>2
<1>4. tx.job \in doubt \/ (call[q].pc = "wait" /\ call[q].job = tx.job)
  BY <1>0, <1>1, <1>3 DEF Waited
<1>5. PICK pc, n : pc \in {"mined", "reverted"} /\ call' = Notified(tx, pc, n)
  BY DEF Mine
<1> HIDE DEF tx
<1> DEFINE c == [call[q] EXCEPT !.pc = pc, !.id = n]
<1>6. call[q] \in CallType
  BY <1>0 DEF Typed
<1>7. c.pc = pc /\ c.job = call[q].job
  BY <1>6 DEF CallType
<1>8. \/ call' = call
      \/ call[q].pc = "wait" /\ call' = [call EXCEPT ![q] = c]
  BY <1>3, <1>5 DEF Notified
<1> HIDE DEF c
<1>10. Asks' = Asks
  <2>1. CASE call' = call
    BY <2>1 DEF Asks, Asking
  <2>2. CASE call[q].pc = "wait" /\ call' = [call EXCEPT ![q] = c]
    <3>1. call'[q] = c /\ Asks' = [Asks EXCEPT ![q] = Asking(q)']
      BY <1>0, <2>2, OneAsks
    <3>2. Asking(q)' = Asking(q)
      BY <1>5, <1>7, <2>2, <3>1, AskingNow, AskingNext DEF Busy
    <3>3. Asks[q] = Asking(q)
      BY AsksOf
    <3> QED BY <3>1, <3>2, <3>3 DEF Asks
  <2> QED BY <1>8, <2>1, <2>2
<1>9. /\ UNCHANGED <<doubt, faults>>
      /\ \/ UNCHANGED minted
         \/ Allowed(tx.job) /\ minted' = [minted EXCEPT ![tx.job] = NextId(tx.job.op)]
  BY DEF Mine, tx
<1> QED BY <1>2, <1>4, <1>9, <1>10 DEF tx

LEMMA MineNumbers ==
  ASSUME IInv, Numbers, NEW j \in Jobs, Allowed(j), minted' = [minted EXCEPT ![j] = NextId(j.op)]
  PROVE  /\ Numbers'
         /\ \A k \in Jobs \ {j} : k.op = j.op => minted'[k] # minted'[j]
         /\ minted' \in [Jobs -> Nat] /\ minted'[j] # 0 /\ minted[j] = 0
<1>1. minted \in [Jobs -> Nat] /\ minted[j] = 0
  BY DEF IInv, BridgeInv, Typed, Allowed
<1> DEFINE n == NextId(j.op)
<1>2. n \in Nat \ {0} /\ \A op : NextId(op) \in Nat
  BY IdsPositive
<1>3. minted' = [minted EXCEPT ![j] = n]
  OBVIOUS
<1> HIDE DEF n
<1>4. /\ NextId(j.op)' = NextId(j.op) + 1
      /\ \A op : op # j.op => NextId(op)' = NextId(op)
  BY <1>1, <1>2, <1>3, NextIdCounts
<1>5. \A k \in Jobs \ {j} : minted'[k] = minted[k] /\ minted[k] \in Nat
  BY <1>1, <1>3
<1>6. minted'[j] = n
  BY <1>1, <1>3
<1>7. n = NextId(j.op)
  BY DEF n
<1>8. Numbers'
  <2> SUFFICES ASSUME NEW k \in Jobs PROVE minted'[k] < NextId(k.op)'
    BY DEF Numbers
  <2>1. CASE k = j
    BY <1>2, <1>4, <1>6, <1>7, <2>1
  <2>2. CASE k # j /\ k.op = j.op
    <3>1. minted[k] < NextId(j.op)
      BY <2>2 DEF Numbers
    <3> QED BY <1>2, <1>4, <1>5, <2>2, <3>1
  <2>3. CASE k.op # j.op
    BY <1>4, <1>5, <2>3 DEF Numbers
  <2> QED BY <2>1, <2>2, <2>3
<1>9. ASSUME NEW k \in Jobs \ {j}, k.op = j.op PROVE minted'[k] # minted'[j]
  <2>1. minted[k] < n
    BY <1>7, <1>9 DEF Numbers
  <2> QED BY <1>2, <1>5, <1>6, <2>1
<1>10. minted' \in [Jobs -> Nat]
  BY <1>1, <1>2, <1>3
<1> QED BY <1>1, <1>2, <1>6, <1>8, <1>9, <1>10

\* Where branches hang, after a branch and after another token.
LEMMA HungGrows ==
  ASSUME minted \in [Jobs -> Nat], NEW j \in Jobs, NEW n \in Nat \ {0},
         minted' = [minted EXCEPT ![j] = n]
  PROVE  /\ j.op # "branch" => Hung' = Hung
         /\ \A c \in Cards : j = Job("branch", c) => Hung' = Hung \cup {<<c, EpisodeOf[c]>>}
<1>1. \A k \in Jobs : minted'[k] = IF k = j THEN n ELSE minted[k]
  OBVIOUS
<1>2. \A c \in Cards : Done("branch", c)' <=> (j = Job("branch", c) \/ Done("branch", c))
  BY <1>1, JobsOfCards DEF Done
<1>3. ASSUME j.op # "branch" PROVE Hung' = Hung
  BY <1>2, <1>3, JobsOfCards DEF Hung
<1>4. ASSUME NEW c \in Cards, j = Job("branch", c) PROVE Hung' = Hung \cup {<<c, EpisodeOf[c]>>}
  <2>1. \A d \in Cards : j = Job("branch", d) => d = c
    BY <1>4, JobsOfCards
  <2>2. EpisodeOf[c] \in Episodes
    BY CardsHaveEpisodes
  <2> QED BY <1>2, <1>4, <2>1, <2>2 DEF Hung
<1> QED BY <1>3, <1>4

LEMMA DoneNames ==
  \A op, k : Promise!Done(op, k) <=> Done(op, k)
BY PromiseJobs DEF Promise!Done, Done

LEMMA MinesPromise ==
  ASSUME IInv, Numbers, Off, Mine, configured' = configured
  PROVE  PromiseMoves /\ Numbers'
<1> DEFINE tx == Head(pool)
<1>1. PICK j \in Jobs :
        /\ UNCHANGED <<doubt, faults>> /\ Asks' = Asks
        /\ \/ UNCHANGED minted
           \/ Allowed(j) /\ minted' = [minted EXCEPT ![j] = NextId(j.op)]
        /\ j \in doubt \/ \E r \in Requests : call[r].pc = "wait" /\ call[r].job = j
  BY MineWrites
<1>2. configured /\ Doubts = doubt /\ Doubts' = Doubts
  BY <1>1 DEF Off, Mine, Doubts
<1>3. CASE UNCHANGED minted
  BY <1>1, <1>2, <1>3, PromiseStays, NumbersStay DEF PromiseMoves
<1>4. CASE Allowed(j) /\ minted' = [minted EXCEPT ![j] = NextId(j.op)]
  <2>1. /\ Numbers' /\ \A k \in Jobs \ {j} : k.op = j.op => minted'[k] # minted'[j]
        /\ minted' \in [Jobs -> Nat] /\ minted'[j] # 0 /\ minted[j] = 0
    BY <1>4, MineNumbers
  <2>2. minted \in [Jobs -> Nat] /\ NextId(j.op) \in Nat \ {0}
    BY IdsPositive DEF IInv, BridgeInv, Typed
  <2>3. \A k \in Jobs \ {j} : minted'[k] = minted[k]
    BY <1>4, <2>2
  <2>4. Promise!Do({j})
    BY <2>1, <2>3, PromiseJobs DEF Promise!Do
  <2>5. ASSUME NEW op, NEW k, j = Job(op, k) PROVE Promise!Wanted(op, k)
    <3>1. CASE j \in doubt
      BY <1>2, <2>5, <3>1, PromiseJobs DEF Promise!Wanted
    <3>2. CASE \E r \in Requests : call[r].pc = "wait" /\ call[r].job = j
      <4>1. PICK r \in Requests : call[r].pc = "wait" /\ call[r].job = j
        BY <3>2
      <4>2. Asks[r].pc = "asked" /\ Asks[r].job = j
        BY <4>1, AskingNow, AsksOf DEF Busy
      <4> QED BY <2>5, <4>2, PromiseJobs DEF Promise!Wanted, Promise!Open
    <3> QED BY <1>1, <3>1, <3>2
  <2>6. /\ j.op # "branch" => Hung' = Hung
        /\ \A c \in Cards : j = Job("branch", c) => Hung' = Hung \cup {<<c, EpisodeOf[c]>>}
    BY <1>4, <2>2, HungGrows
  <2>7. CASE j.op = "root"
    <3>1. j.key \in Episodes /\ j = Job("root", j.key)
      BY <2>7, JobShapes
    <3>2. Promise!MakeRoot(j.key) /\ Promise!Wanted("root", j.key)
      BY <2>4, <2>5, <2>6, <2>7, <3>1, PromiseJobs DEF Promise!MakeRoot
    <3> QED BY <1>1, <1>2, <2>1, <3>1, <3>2 DEF PromiseMoves, Promise!PromiseNext, Promise!Execute
  <2>8. CASE j.op = "end"
    <3>1. j.key \in Episodes /\ j = Job("end", j.key)
      BY <2>8, JobShapes
    <3>2. Done("root", j.key)
      BY <1>4, <2>8 DEF Allowed
    <3>3. Promise!EndRoot(j.key) /\ Promise!Wanted("end", j.key)
      BY <2>4, <2>5, <2>6, <2>8, <3>1, <3>2, PromiseJobs, DoneNames DEF Promise!EndRoot
    <3> QED BY <1>1, <1>2, <2>1, <3>1, <3>3 DEF PromiseMoves, Promise!PromiseNext, Promise!Execute
  <2>9. CASE j.op = "branch"
    <3>1. j.key \in Cards /\ j = Job("branch", j.key) /\ EpisodeOf[j.key] \in Episodes
      BY <2>9, JobShapes, CardsHaveEpisodes
    <3>2. Done("root", EpisodeOf[j.key]) /\ ~Done("end", EpisodeOf[j.key])
      BY <1>4, <2>9 DEF Allowed
    <3>3. Hung' = Hung \cup {<<j.key, EpisodeOf[j.key]>>}
      BY <2>6, <3>1
    <3>4. Promise!MakeBranch(j.key, EpisodeOf[j.key]) /\ Promise!Wanted("branch", j.key)
      BY <2>4, <2>5, <3>1, <3>2, <3>3, PromiseJobs, DoneNames DEF Promise!MakeBranch
    <3> QED BY <1>1, <1>2, <2>1, <3>1, <3>4 DEF PromiseMoves, Promise!PromiseNext, Promise!Execute
  <2>10. CASE j.op = "fruit"
    <3>1. j.key \in Cards /\ j = Job("fruit", j.key) /\ EpisodeOf[j.key] \in Episodes
      BY <2>10, JobShapes, CardsHaveEpisodes
    <3>2. Done("branch", j.key) /\ Done("end", EpisodeOf[j.key])
      BY <1>4, <2>10 DEF Allowed
    <3>3. <<j.key, EpisodeOf[j.key]>> \in Hung
      BY <3>1, <3>2 DEF Hung
    <3>4. {Promise!Job("fruit", c) : c \in {j.key}} = {j}
      BY <3>1, PromiseJobs
    <3>5. Promise!MakeFruits({j.key})
      BY <2>4, <2>6, <2>10, <3>1, <3>2, <3>3, <3>4, DoneNames DEF Promise!MakeFruits
    <3>6. Promise!Wanted("fruit", j.key)
      BY <2>5, <3>1
    <3> QED BY <1>1, <1>2, <2>1, <3>1, <3>5, <3>6 DEF PromiseMoves, Promise!PromiseNext, Promise!Execute
  <2> QED BY <2>7, <2>8, <2>9, <2>10, JobShapes
<1> QED BY <1>1, <1>3, <1>4

-----------------------------------------------------------------------------
\* The handlers.

LEMMA HandlersPromise ==
  ASSUME IInv, Off, NEW r \in Requests, HandlerStep(r) PROVE PromiseMoves
<1>0. Typed /\ Handled(r) /\ configured' = configured /\ UNCHANGED minted
  BY DEF IInv, BridgeInv, RowInv, HandlerStep, AskChain, LaunchSave, EndSave, TokenSave, Finish, chainVars
<1>1. CASE AskChain(r)
  <2>1. req[r].pc = "checked" /\ call[r] = NoCall
    BY <1>0, <1>1 DEF AskChain, Calls, At, Handled
  <2>2. \/ configured /\ req[r].kind = "launch" /\ Begin(r, Job("root", req[r].key))
        \/ req[r].kind = "end" /\ req[r].number # 0 /\ Begin(r, Job("end", req[r].key))
    BY <1>1 DEF AskChain, Calls, At
  <2>3. configured
    BY <2>1, <2>2 DEF Off, Blank
  <2>4. req[r].key \in Episodes
    BY <1>0, <2>1, <2>2 DEF Handled, OfDraft
  <2>5. Job("root", req[r].key) \in Jobs /\ Job("end", req[r].key) \in Jobs
    BY <2>4, JobParts
  <2> QED BY <1>0, <2>1, <2>2, <2>3, <2>5, BeginsToAsk
<1>2. CASE LaunchSave(r)
  <2> DEFINE j == Job("root", req[r].key)
  <2>1. /\ call' = [call EXCEPT ![r] = NoCall]
        /\ doubt' = doubt \/ doubt' = doubt \cup {j}
        /\ \/ req[r].kind = "launch" /\ req[r].pc = "checked" /\ ~configured
           \/ req[r].kind = "launch" /\ req[r].pc = "chain" /\ call[r].pc = "back"
    BY <1>2 DEF LaunchSave, Answered, At
  <2>2. req[r].pc = "checked" => call[r] = NoCall
    BY <1>0 DEF Handled
  <2>3. req[r].pc = "chain" => call[r].job = j
    BY <1>0, <2>1 DEF Handled, AsksFor
  <2> HIDE DEF j
  <2> QED BY <1>0, <2>1, <2>2, <2>3, Closes
<1>3. CASE EndSave(r) \/ TokenSave(r)
  <2>1. /\ call' = [call EXCEPT ![r] = NoCall] /\ doubt' = doubt
        /\ req[r].pc = "checked" \/ call[r].pc = "back"
    BY <1>3 DEF EndSave, TokenSave, Answered, At
  <2>2. req[r].pc = "checked" => call[r] = NoCall
    BY <1>0 DEF Handled
  <2> QED BY <1>0, <2>1, <2>2, Closes
<1> QED BY <1>1, <1>2, <1>3 DEF HandlerStep

LEMMA TokenCallsPromise ==
  ASSUME IInv, Off, NEW r \in Requests, NEW j \in Jobs, j.op \in {"branch", "fruit"}, TokenCall(r, j)
  PROVE  PromiseMoves /\ configured
<1>0. Typed /\ Handled(r)
  BY DEF IInv, BridgeInv, RowInv
<1>1. /\ configured' = configured /\ UNCHANGED minted /\ Begin(r, j) /\ req[r].pc = "idle"
  BY DEF TokenCall, chainVars
<1>2. call[r] = NoCall
  BY <1>0, <1>1 DEF Handled
<1>3. j.key \in Cards /\ EpisodeOf[j.key] \in Episodes
  BY JobShapes, CardsHaveEpisodes
<1>4. \/ column[Job("root", EpisodeOf[j.key])] # 0 \/ column[Job("branch", j.key)] # 0
  BY DEF TokenCall
<1>5. Job("root", EpisodeOf[j.key]) \in Jobs /\ Job("branch", j.key) \in Jobs
  BY <1>3, JobParts, JobsOfCards
<1>6. configured
  BY <1>4, <1>5 DEF Off
<1> QED BY <1>0, <1>1, <1>2, <1>6, BeginsToAsk

LEMMA StopsPromise ==
  ASSUME IInv, Off, Crash PROVE PromiseMoves
<1>1. /\ call' = [r \in Requests |-> NoCall] /\ UNCHANGED <<minted, configured>>
      /\ doubt' = doubt \cup {call[r].job : r \in {q \in Requests : call[q].pc # "none"}}
  BY DEF Crash, chainVars
<1>2. \A r \in Requests : call'[r] = NoCall
  BY <1>1
<1>3. \A r \in Requests : Asking(r)' = Promise!NoAsk
  BY <1>2, AskingNext
<1>4. Asks' = [r \in Requests |-> Promise!NoAsk]
  BY <1>3 DEF Asks
<1>5. CASE configured
  <2>1. \A r \in Requests : Asks[r].job = call[r].job /\ (Asks[r].pc # "none" <=> call[r].pc # "none")
    BY AsksOf, AskedJob
  <2>2. {Asks[r].job : r \in {q \in Requests : Asks[q].pc # "none"}}
          = {call[r].job : r \in {q \in Requests : call[q].pc # "none"}}
    BY <2>1
  <2>3. Doubts' = Doubts \cup {Asks[r].job : r \in {q \in Requests : Asks[q].pc # "none"}}
    BY <1>1, <1>5, <2>2 DEF Doubts
  <2> QED BY <1>1, <1>4, <2>3, LedgerStays DEF PromiseMoves, Promise!PromiseNext, Promise!Stop
<1>6. CASE ~configured
  <2>1. \A r \in Requests : call[r] = NoCall
    BY <1>6 DEF Off
  <2>2. \A r \in Requests : Asking(r) = Promise!NoAsk
    BY <2>1, AskingNow
  <2>3. Asks' = Asks /\ Doubts' = Doubts
    BY <1>1, <1>4, <1>6, <2>2 DEF Asks, Doubts
  <2> QED BY <1>1, <2>3, PromiseStays DEF PromiseMoves
<1> QED BY <1>5, <1>6

-----------------------------------------------------------------------------
(* Every step, and what it leaves.                                         *)

\* No request comes to an end with a token it has not read.
NoNewNumber == \A q \in Requests : req'[q] = req[q] \/ Blank(req'[q])

LEMMA IdleIsBlank == Blank(Idle)
BY DEF Blank, Idle

LEMMA OneNumber ==
  ASSUME IInv, NEW r \in Requests, NEW x, req' = [req EXCEPT ![r] = x], Blank(x) \/ x.kind # "end"
  PROVE  NoNewNumber
BY DEF IInv, RowInv, RowsTyped, NoNewNumber, Blank

LEMMA OffStays ==
  ASSUME Off, UNCHANGED <<pool, configured>>, NoNewNumber,
         \A r \in Requests : call'[r] = call[r] \/ call'[r] = NoCall,
         \A j \in Jobs : column'[j] = column[j] \/ column'[j] = 0
  PROVE  Off'
BY DEF Off, NoNewNumber

\* A request that goes on stays what it is.
LEMMA GoingOnIsBlank ==
  ASSUME IInv, Off, ~configured, NEW r \in Requests, NEW pc, req' = [req EXCEPT ![r] = [req[r] EXCEPT !.pc = pc]]
  PROVE  NoNewNumber
<1> DEFINE x == [req[r] EXCEPT !.pc = pc]
<1>1. x.kind = req[r].kind /\ x.number = req[r].number
  BY DEF IInv, RowInv, Handled, IsReq
<1>2. Blank(x)
  BY <1>1 DEF Off, Blank
<1> QED BY <1>2, OneNumber

LEMMA ReadsAreBlank ==
  ASSUME IInv, Off, ~configured, NEW r \in Requests, Arrives(r) PROVE NoNewNumber
<1>1. ASSUME NEW kind, NEW k, Start(r, kind, k) PROVE NoNewNumber
  <2> DEFINE x == [Idle EXCEPT !.pc = "checked", !.kind = kind, !.key = k]
  <2>1. req' = [req EXCEPT ![r] = x] /\ x.number = 0
    BY <1>1 DEF Start, Idle
  <2> HIDE DEF x
  <2> QED BY <2>1, OneNumber DEF Blank
<1>2. ASSUME NEW e \in Episodes,
             \/ PatchRead(r, e) \/ DeleteRead(r, e) \/ AddRead(r, e) \/ LaunchRead(r, e)
             \/ \E kind \in {"edit", "remove"} : EditRead(r, e, kind)
      PROVE  NoNewNumber
  BY <1>1, <1>2 DEF PatchRead, DeleteRead, AddRead, LaunchRead, EditRead
<1>3. ASSUME NEW k, NEW key, NEW seen,
             req' = [req EXCEPT ![r] = [Idle EXCEPT !.pc = "checked", !.kind = k, !.key = key, !.seen = seen]]
      PROVE  NoNewNumber
  <2> DEFINE x == [Idle EXCEPT !.pc = "checked", !.kind = k, !.key = key, !.seen = seen]
  <2>1. req' = [req EXCEPT ![r] = x] /\ x.number = 0
    BY <1>3 DEF Idle
  <2> HIDE DEF x
  <2> QED BY <2>1, OneNumber DEF Blank
<1>4. ASSUME NEW e \in Episodes, SaveRead(r, e) PROVE NoNewNumber
  <2>1. PICK list \in Listed(e) :
          req' = [req EXCEPT ![r] = [Idle EXCEPT !.pc = "checked", !.kind = "t_save", !.key = e,
                                       !.seen = [events |-> list, settings |-> settings[e]]]]
    BY <1>4 DEF SaveRead
  <2> QED BY <1>3, <2>1
<1>5. ASSUME NEW t \in Templates, UseRead(r, t) PROVE NoNewNumber
  BY <1>3, <1>5 DEF UseRead
<1>6. ASSUME NEW t \in Templates, NEW kind \in {"t_patch", "t_delete"}, TemplateRead(r, t, kind)
      PROVE  NoNewNumber
  BY <1>1, <1>6 DEF TemplateRead
<1>7. ASSUME NEW e \in Episodes, EndRead(r, e) PROVE NoNewNumber
  <2> DEFINE x == [Idle EXCEPT !.pc = "checked", !.kind = "end", !.key = e,
                                 !.number = column[Job("root", e)]]
  <2>1. column[Job("root", e)] = 0
    BY JobParts DEF Off
  <2>2. req' = [req EXCEPT ![r] = x] /\ x.number = 0
    BY <1>7, <2>1 DEF EndRead, Idle
  <2> HIDE DEF x
  <2> QED BY <2>2, OneNumber DEF Blank
<1>8. ASSUME NEW j \in Jobs, TokenCall(r, j) PROVE NoNewNumber
  <2> DEFINE x == [Idle EXCEPT !.pc = "chain", !.kind = "token", !.key = j]
  <2>1. req' = [req EXCEPT ![r] = x] /\ x.number = 0
    BY <1>8 DEF TokenCall, Idle
  <2> HIDE DEF x
  <2> QED BY <2>1, OneNumber DEF Blank
<1> QED BY <1>1, <1>2, <1>4, <1>5, <1>6, <1>7, <1>8 DEF Arrives

\* What the steps that do not come near the chain leave.
LEMMA RowStepsQuiet ==
  ASSUME \/ \E e \in Episodes, v \in Valid : Create(e, v)
         \/ \E t \in Templates, events \in Lists, v \in Settings : TemplateCreate(t, events, v)
         \/ \E r \in Requests : DraftStep(r) \/ TemplateStep(r)
  PROVE  UNCHANGED <<minted, pool, call, doubt, configured, column>>
<1>1. ASSUME NEW r \in Requests, DraftStep(r) PROVE UNCHANGED <<minted, pool, call, doubt, configured, column>>
  BY <1>1 DEF DraftStep, DeleteWrite, AddOrder, EditNotFound, RemoveWrite, PatchWrite, EditFind, AddCreate,
     EditWrite, Finish, NoBridge, bridgeVars, draftVars, columns
<1>2. ASSUME NEW r \in Requests, TemplateStep(r) PROVE UNCHANGED <<minted, pool, call, doubt, configured, column>>
  BY <1>2 DEF TemplateStep, TemplateDelete, TemplatePatch, SaveCreate, UseCreate, Finish, NoBridge,
     bridgeVars, columns
<1>3. ASSUME NEW e \in Episodes, NEW v \in Valid, Create(e, v)
      PROVE  UNCHANGED <<minted, pool, call, doubt, configured, column>>
  BY <1>3 DEF Create, NoBridge, bridgeVars, columns
<1>4. ASSUME NEW t \in Templates, NEW events \in Lists, NEW v \in Settings, TemplateCreate(t, events, v)
      PROVE  UNCHANGED <<minted, pool, call, doubt, configured, column>>
  BY <1>4 DEF TemplateCreate, NoBridge, bridgeVars, columns
<1> QED BY <1>1, <1>2, <1>3, <1>4

LEMMA ReadsQuiet ==
  ASSUME NEW r \in Requests, Arrives(r), ~\E j \in {k \in Jobs : k.op \in {"branch", "fruit"}} : TokenCall(r, j)
  PROVE  UNCHANGED <<minted, pool, call, doubt, configured, column>>
BY DEF Arrives, PatchRead, DeleteRead, AddRead, EditRead, SaveRead, LaunchRead, EndRead, UseRead,
       TemplateRead, Start, NoBridge, bridgeVars, draftVars, columns

LEMMA ImagesQuiet ==
  ASSUME NEW r \in Requests, ImageStep(r)
  PROVE  UNCHANGED <<minted, pool, call, doubt, configured, column>>
<1>1. ASSUME NEW kind, NEW o, StartImage(r, kind, o)
      PROVE  UNCHANGED <<minted, pool, call, doubt, configured, column>>
  BY <1>1 DEF StartImage, NoBridge, bridgeVars, draftVars, columns
<1>2. CASE \E o \in Owners : UploadRead(r, o) \/ ClearRead(r, o)
  BY <1>1, <1>2 DEF UploadRead, ClearRead
<1>3. CASE OldDeleted(r) \/ Uploaded(r) \/ UploadSave(r) \/ ClearSave(r)
  BY <1>3 DEF OldDeleted, Uploaded, UploadSave, ClearSave, Finish, NoBridge, bridgeVars, draftVars, columns
<1>4. CASE \E v \in Valid, url \in {Null, Elsewhere} : PatchImage(r, v, url)
  BY <1>4 DEF PatchImage, PatchWrite, Finish, NoBridge, bridgeVars, columns
<1> QED BY <1>2, <1>3, <1>4 DEF ImageStep

-----------------------------------------------------------------------------
LEMMA StepsPromise ==
  ASSUME IInv, Numbers, Off, Next PROVE PromiseMoves /\ Numbers'
<1>1. ASSUME UNCHANGED <<minted, pool, call, doubt, configured, column>> PROVE PromiseMoves /\ Numbers'
  BY <1>1, QuietStays, NumbersStay DEF PromiseMoves
<1>2. ASSUME NEW r \in Requests, Arrives(r) PROVE PromiseMoves /\ Numbers'
  <2>1. ASSUME NEW j \in {k \in Jobs : k.op \in {"branch", "fruit"}}, TokenCall(r, j)
        PROVE  PromiseMoves /\ Numbers'
    BY <2>1, TokenCallsPromise, NumbersStay DEF TokenCall, chainVars
  <2> QED BY <1>1, <1>2, <2>1, ReadsQuiet
<1>3. ASSUME NEW r \in Requests, HandlerStep(r) PROVE PromiseMoves /\ Numbers'
  <2>1. UNCHANGED minted
    BY <1>3 DEF HandlerStep, AskChain, LaunchSave, EndSave, TokenSave, chainVars
  <2> QED BY <1>3, <2>1, HandlersPromise, NumbersStay
<1>4. ASSUME NEW r \in Requests, BridgeMoves(r) PROVE PromiseMoves /\ Numbers'
  <2>1. UNCHANGED minted
    BY <1>4 DEF BridgeMoves, BridgeStep, Send, SendRevert, SendError, SendLost, Confirmed, ConfirmedRevert,
       TimedOut, chainVars
  <2> QED BY <1>4, <2>1, BridgeMovesPromise, NumbersStay
<1>5. CASE ChainStep /\ UNCHANGED <<draftVars, configured, req, early, starts>>
  <2>1. CASE Drop
    BY <1>5, <2>1, QuietStays, NumbersStay DEF Drop, PromiseMoves
  <2> QED BY <1>5, <2>1, MinesPromise DEF ChainStep
<1>6. CASE Crash
  BY <1>6, StopsPromise, NumbersStay DEF Crash, chainVars
<1> QED BY <1>1, <1>2, <1>3, <1>4, <1>5, <1>6, RowStepsQuiet DEF Next

LEMMA OffKept ==
  ASSUME IInv, Off, Next PROVE Off'
<1> DEFINE quiet == UNCHANGED <<minted, pool, call, doubt, configured, column>>
<1>0. configured' = configured
  <2>1. ASSUME NEW r \in Requests, Arrives(r) PROVE configured' = configured
    BY <2>1, ReadsQuiet DEF TokenCall
  <2> QED BY <2>1, RowStepsQuiet DEF Next, HandlerStep, AskChain, LaunchSave, EndSave, TokenSave, Finish,
                                     BridgeMoves, Crash
<1>1. CASE configured
  BY <1>0, <1>1 DEF Off
<1>2. CASE ~configured
  <2>1. ASSUME NoNewNumber, quiet PROVE Off'
    BY <2>1, OffStays
  <2>2. ASSUME NEW r \in Requests, Finish(r) \/ req' = [req EXCEPT ![r] = Idle] PROVE NoNewNumber
    BY <2>2, OneNumber, IdleIsBlank DEF Finish
  <2>3. ASSUME UNCHANGED req PROVE NoNewNumber
    BY <2>3 DEF NoNewNumber
  <2>4. CASE \/ \E e \in Episodes, v \in Valid : Create(e, v)
             \/ \E t \in Templates, events \in Lists, v \in Settings : TemplateCreate(t, events, v)
    BY <2>1, <2>3, <2>4, RowStepsQuiet DEF Create, TemplateCreate
  <2>5. ASSUME NEW r \in Requests, Arrives(r) PROVE Off'
    <3>1. ~\E j \in {k \in Jobs : k.op \in {"branch", "fruit"}} : TokenCall(r, j)
      BY <1>2, TokenCallsPromise
    <3> QED BY <1>2, <2>1, <2>5, <3>1, ReadsQuiet, ReadsAreBlank
  <2>6. ASSUME NEW r \in Requests, DraftStep(r) PROVE Off'
    <3>1. CASE AddOrder(r)
      <4>1. PICK n : /\ req' = [req EXCEPT ![r] = [req[r] EXCEPT !.pc = "ordered", !.number = n]]
                     /\ req[r].kind = "add"
        BY <3>1 DEF AddOrder, At
      <4> DEFINE x == [req[r] EXCEPT !.pc = "ordered", !.number = n]
      <4>2. x.kind # "end"
        BY <4>1 DEF IInv, RowInv, Handled, IsReq
      <4> HIDE DEF x
      <4>3. NoNewNumber
        BY <4>1, <4>2, OneNumber DEF x
      <4> QED BY <2>1, <2>6, <4>3, RowStepsQuiet
    <3>2. CASE \E d \in Defs : EditFind(r, d)
      <4>1. PICK d : /\ req' = [req EXCEPT ![r] = [req[r] EXCEPT !.pc = "found", !.def = d]]
                     /\ req[r].kind \in {"edit", "remove"}
        BY <3>2 DEF EditFind
      <4> DEFINE x == [req[r] EXCEPT !.pc = "found", !.def = d]
      <4>2. x.kind # "end"
        BY <4>1 DEF IInv, RowInv, Handled, IsReq
      <4> HIDE DEF x
      <4>3. NoNewNumber
        BY <4>1, <4>2, OneNumber DEF x
      <4> QED BY <2>1, <2>6, <4>3, RowStepsQuiet
    <3>3. CASE ~AddOrder(r) /\ ~\E d \in Defs : EditFind(r, d)
      <4>1. Finish(r)
        BY <2>6, <3>3 DEF DraftStep, DeleteWrite, EditNotFound, RemoveWrite, PatchWrite, AddCreate, EditWrite
      <4> QED BY <2>1, <2>2, <2>6, <4>1, RowStepsQuiet
    <3> QED BY <3>1, <3>2, <3>3
  <2>7. ASSUME NEW r \in Requests, TemplateStep(r) PROVE Off'
    <3>1. Finish(r)
      BY <2>7 DEF TemplateStep, TemplateDelete, TemplatePatch, SaveCreate, UseCreate
    <3> QED BY <2>1, <2>2, <2>7, <3>1, RowStepsQuiet
  <2>8. ASSUME NEW r \in Requests, HandlerStep(r) PROVE Off'
    <3>1. call[r] = NoCall /\ call[r].pc = "none" /\ call[r].id = 0
      BY <1>2 DEF Off, NoCall
    <3>2. ~AskChain(r) /\ ~TokenSave(r)
      BY <1>2, <3>1 DEF AskChain, Calls, At, TokenSave, Off, Blank
    <3>3. LaunchSave(r) \/ EndSave(r)
      BY <2>8, <3>2 DEF HandlerStep
    <3>4. /\ pool' = pool /\ call' = [call EXCEPT ![r] = NoCall] /\ req' = [req EXCEPT ![r] = Idle]
          /\ \/ column' = column
             \/ \E j : column' = [column EXCEPT ![j] = call[r].id]
      BY <3>3 DEF LaunchSave, EndSave, Finish, columns, chainVars
    <3>5. \A j \in Jobs : column'[j] = column[j] \/ column'[j] = 0
      BY <3>1, <3>4 DEF IInv, RowInv, RowsTyped
    <3>6. \A q \in Requests : call'[q] = call[q] \/ call'[q] = NoCall
      BY <3>4 DEF IInv, BridgeInv, Typed
    <3> QED BY <1>0, <2>2, <3>4, <3>5, <3>6, OffStays
  <2>9. ASSUME NEW r \in Requests, BridgeMoves(r) PROVE Off'
    <3>1. call[r].pc = "none"
      BY <1>2 DEF Off, NoCall
    <3> QED BY <2>9, <3>1 DEF BridgeMoves, BridgeStep, Send, SendRevert, SendError, SendLost, Confirmed,
                             ConfirmedRevert, TimedOut
  <2>10. CASE ChainStep
    <3>1. pool = <<>>
      BY <1>2 DEF Off
    <3> QED BY <2>10, <3>1 DEF ChainStep, Mine, Drop
  <2>11. CASE Crash
    <3>1. /\ UNCHANGED <<pool, column>> /\ call' = [r \in Requests |-> NoCall]
          /\ req' = [r \in Requests |-> Idle]
      BY <2>11 DEF Crash, chainVars, draftVars, columns
    <3>2. NoNewNumber
      BY <3>1, IdleIsBlank DEF NoNewNumber
    <3> QED BY <1>0, <3>1, <3>2, OffStays
  <2> QED BY <2>4, <2>5, <2>6, <2>7, <2>8, <2>9, <2>10, <2>11 DEF Next
<1> QED BY <1>1, <1>2

LEMMA ImagesAreBlank ==
  ASSUME IInv, Off, ~configured, NEW r \in Requests, ImageStep(r) PROVE NoNewNumber
<1>1. CASE \E o \in Owners : UploadRead(r, o) \/ ClearRead(r, o)
  <2>1. PICK o \in Owners, kind \in {"upload", "clear"} : StartImage(r, kind, o)
    BY <1>1 DEF UploadRead, ClearRead
  <2> DEFINE x == [Idle EXCEPT !.pc = "checked", !.kind = kind, !.key = o,
                                 !.seen = image[o], !.number = images + 1]
  <2>2. req' = [req EXCEPT ![r] = x] /\ x.kind # "end"
    BY <2>1 DEF StartImage, Idle
  <2> HIDE DEF x
  <2> QED BY <2>2, OneNumber
<1>2. CASE OldDeleted(r) \/ Uploaded(r) \/ UploadSave(r) \/ ClearSave(r)
  <2>1. \/ req' = [req EXCEPT ![r] = Idle]
        \/ \E pc \in {"cleared", "stored"} : req' = [req EXCEPT ![r] = [req[r] EXCEPT !.pc = pc]]
    BY <1>2 DEF OldDeleted, Uploaded, UploadSave, ClearSave, Finish
  <2> QED BY <2>1, OneNumber, IdleIsBlank, GoingOnIsBlank
<1>3. CASE \E v \in Valid, url \in {Null, Elsewhere} : PatchImage(r, v, url)
  <2>1. req' = [req EXCEPT ![r] = Idle]
    BY <1>3 DEF PatchImage, PatchWrite, Finish
  <2> QED BY <2>1, OneNumber, IdleIsBlank
<1> QED BY <1>1, <1>2, <1>3 DEF ImageStep

LEMMA PromiseStarts ==
  ASSUME Init PROVE Off /\ Numbers /\ Promise!PromiseInit
<1>1. /\ \A j \in Jobs : minted[j] = 0 /\ column[j] = 0
      /\ minted = [j \in Jobs |-> 0] /\ pool = <<>> /\ doubt = {}
      /\ \A r \in Requests : call[r] = NoCall /\ req[r] = Idle
  BY DEF Init, InitRest, InitBridge
<1>2. Off
  BY <1>1, IdleIsBlank DEF Off
<1>3. Numbers
  <2> SUFFICES ASSUME NEW j \in Jobs PROVE 0 < NextId(j.op)
    BY <1>1 DEF Numbers
  <2>1. NextId(j.op) \in Nat /\ NextId(j.op) # 0
    BY IdsPositive
  <2> QED BY <2>1
<1>4. Hung = {}
  BY <1>1, JobsOfCards DEF Hung, Done
<1>5. Asks = [r \in Requests |-> Promise!NoAsk] /\ Doubts = {}
  BY <1>1, AskingNow DEF Asks, Doubts
<1>6. minted = [j \in Promise!Jobs |-> 0]
  BY <1>1, PromiseJobs
<1> QED BY <1>2, <1>3, <1>4, <1>5, <1>6 DEF Promise!PromiseInit, Promise!LedgerInit

\* A call answers with the token of its job or with a failure; what is done for
\* a job is done while a call for it is open, or the job is in doubt
\* (blockchain.service.ts:35-70).
THEOREM CallersArePromised == StudioSpec => Promise!PromiseInit /\ KeepsChainPromise
<1>1. Init => Off /\ Numbers /\ Promise!PromiseInit
  BY PromiseStarts
<1>2. StudioInv /\ Off /\ Numbers /\ [StudioNext]_allVars
        => Off' /\ Numbers' /\ [Promise!PromiseNext]_(Promise!promiseVars)
  <2> SUFFICES ASSUME IInv, Off, Numbers, [StudioNext]_allVars
               PROVE  Off' /\ Numbers' /\ PromiseMoves
    BY DEF StudioInv, PromiseMoves
  <2>1. CASE UNCHANGED allVars
    <3>1. /\ UNCHANGED <<minted, pool, call, doubt, configured, column, req>>
      BY <2>1 DEF allVars, vars, draftVars, columns, bridgeVars
    <3>2. PromiseMoves /\ Numbers'
      BY <3>1, QuietStays, NumbersStay DEF PromiseMoves
    <3>3. NoNewNumber
      BY <3>1 DEF NoNewNumber
    <3> QED BY <3>1, <3>2, <3>3, OffStays
  <2>2. ASSUME NEW r \in Requests, ImageStep(r) PROVE Off' /\ Numbers' /\ PromiseMoves
    <3>1. UNCHANGED <<minted, pool, call, doubt, configured, column>>
      BY <2>2, ImagesQuiet
    <3>2. PromiseMoves /\ Numbers'
      BY <3>1, QuietStays, NumbersStay DEF PromiseMoves
    <3>3. CASE configured
      BY <3>1, <3>2, <3>3 DEF Off
    <3>4. CASE ~configured
      <4>1. NoNewNumber
        BY <2>2, <3>4, ImagesAreBlank
      <4> QED BY <3>1, <3>2, <4>1, OffStays
    <3> QED BY <3>3, <3>4
  <2>3. CASE Next
    BY <2>3, StepsPromise, OffKept
  <2> QED BY <2>1, <2>2, <2>3 DEF StudioNext
<1> QED BY <1>1, <1>2, StudioCorrect, PTL DEF StudioSpec, KeepsChainPromise
=============================================================================
