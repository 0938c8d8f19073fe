---------------------------- MODULE TwitchProofs ----------------------------
(***************************************************************************)
(* The secrets of Twitch's subscriptions, proved for any numbers of        *)
(* subscriptions, requests, webhook calls, keys and faults: Twitch, the    *)
(* table and the memory of the process agree as far as the code promises;  *)
(* that no event is fired without a delivery; and that an OAuth state lets *)
(* one callback pass, of no more states than the map has room for.         *)
(***************************************************************************)
EXTENDS Twitch, FiniteSetTheorems, WellFoundedInduction, TLAPS

ReqType ==
  [pc : {"idle", "create", "store", "cache", "delete", "unstore"},
   episode : Episodes \cup {Null}, account : Accounts \cup {Null},
   types : SUBSET Types, subs : SUBSET Subs, sub : Subs \cup {Null}]

MsgType ==
  [kind : {"challenge", "notification", "revocation", Null}, sub : Subs \cup {Null}, amount : Nat]

RowsType == [Subs -> Keys \cup {NoKey, Null}]

HookType ==
  [pc : {"idle", "read", "fill", "episodes", "fire"}, msg : MsgType, snap : RowsType,
   todo : SUBSET Defs]

TwitchType == [Subs -> {"unused", "pending", "enabled", "failed", "gone"}]

CacheType == [Subs -> {"none", "secret", "other"}]

Typed ==
  /\ link \in [Users -> Accounts \cup {Null}]
  /\ status \in [Episodes -> {"draft", "live", "ended", "deleted"}]
  /\ rows \in RowsType
  /\ up \in BOOLEAN /\ cacheReady \in BOOLEAN /\ key \in Keys \cup {NoKey}
  /\ cache \in CacheType /\ twitch \in TwitchType
  /\ meta \in [Subs -> [type : Types \cup {Null}, account : Accounts \cup {Null},
                        episode : Episodes \cup {Null}]]
  /\ reqs \in [Requests -> ReqType] /\ hooks \in [Hooks -> HookType]
  /\ faults \in Nat

\* No request outlives the process.
Alive ==
  ~up => /\ \A r \in Requests : reqs[r].pc = "idle"
         /\ \A h \in Hooks : hooks[h].pc = "idle"

\* What the requests that are half way know of their subscription.
Made ==
  /\ \A s \in Subs : twitch[s] # "unused" => meta[s].episode \in Episodes
  /\ \A r \in Requests :
       /\ reqs[r].pc \in {"create", "store", "cache"} => reqs[r].episode \in Episodes
       /\ reqs[r].pc \in {"store", "cache"} =>
            /\ reqs[r].sub \in Subs /\ twitch[reqs[r].sub] # "unused"
            /\ meta[reqs[r].sub].episode = reqs[r].episode
       /\ reqs[r].pc = "unstore" => reqs[r].sub \in Subs /\ twitch[reqs[r].sub] = "gone"

\* Only one request stores the row of a subscription, and nobody knew one.
NoRowYet(s) == rows[s] = Null /\ \A h \in Hooks : hooks[h].snap[s] = Null

Storing ==
  /\ \A s \in Subs : twitch[s] = "unused" => NoRowYet(s)
  /\ \A r \in Requests : reqs[r].pc = "store" =>
       /\ NoRowYet(reqs[r].sub)
       /\ \A q \in Requests \ {r} : reqs[q].pc = "store" => reqs[q].sub # reqs[r].sub

\* A row is written once: what a call has read is there still, or gone.
SnapsCurrent ==
  \A h \in Hooks : hooks[h].pc = "fill" =>
     \A s \in Subs : hooks[h].snap[s] # Null => rows[s] \in {Null, hooks[h].snap[s]}

\* An error or a deletion explains a subscription that has no row.
Explained(s) == rows[s] # Null \/ faults > 0 \/ status[meta[s].episode] = "deleted"

Stored ==
  \A r \in Requests, s \in Subs :
     reqs[r].pc = "cache" /\ reqs[r].sub = s /\ LiveOnTwitch(s) => Explained(s)

Needed(s) == LiveOnTwitch(s) /\ Readable(s) /\ ~Creating(s)

IInv ==
  /\ Typed /\ Alive /\ Made /\ Storing /\ SnapsCurrent
  /\ SecretsComplete /\ FillsCovered /\ Stored /\ OrphansNeedFaults

-----------------------------------------------------------------------------
\* The process has not started and Twitch knows of nothing.
LEMMA InitIInv == Init => IInv
<1> SUFFICES ASSUME Init PROVE IInv
  OBVIOUS
<1> USE DEF Init, InitRest
<1>1. NoRows \in RowsType /\ NoMsg \in MsgType
  BY DEF NoRows, RowsType, NoMsg, MsgType
<1>2. IdleReq \in ReqType /\ IdleHook \in HookType
  BY <1>1 DEF IdleReq, ReqType, IdleHook, HookType
<1>3. Typed
  BY <1>1, <1>2 DEF Typed, CacheType, TwitchType, NoMeta
<1>4. /\ \A r \in Requests : reqs[r].pc = "idle"
      /\ \A h \in Hooks : hooks[h].pc = "idle" /\ hooks[h].snap = NoRows
  BY DEF IdleReq, IdleHook
<1>5. Alive /\ Made /\ SnapsCurrent /\ SecretsComplete /\ FillsCovered /\ Stored
  BY <1>4 DEF Alive, Made, SnapsCurrent, SecretsComplete, FillsCovered, Stored
<1>6. Storing
  BY <1>4 DEF Storing, NoRowYet, NoRows
<1>7. OrphansNeedFaults
  BY DEF OrphansNeedFaults, LiveOnTwitch
<1> QED BY <1>3, <1>5, <1>6, <1>7 DEF IInv

\* Twitch gives no subscription and takes some.
TwitchFades ==
  /\ twitch' \in TwitchType
  /\ \A s \in Subs :
       /\ twitch'[s] \in {"pending", "enabled"} => LiveOnTwitch(s)
       /\ twitch[s] = "gone" => twitch'[s] = "gone"
       /\ twitch'[s] = "unused" <=> twitch[s] = "unused"

\* Requests that hold no subscription move, hooks move and keep what they read
\* or forget it.
RequestsMove ==
  /\ reqs' \in [Requests -> ReqType]
  /\ \A r \in Requests : reqs'[r] # reqs[r] =>
       /\ up
       /\ reqs[r].pc \notin {"store", "cache"} /\ reqs'[r].pc \in {"idle", "create", "delete"}
       /\ reqs'[r].pc = "create" => reqs'[r].episode \in Episodes

HooksMove ==
  /\ hooks' \in [Hooks -> HookType]
  /\ \A h \in Hooks : hooks'[h] # hooks[h] =>
       /\ up
       /\ hooks'[h].pc # "fill" /\ hooks'[h].snap \in {hooks[h].snap, NoRows}

Outlook ==
  /\ status' \in [Episodes -> {"draft", "live", "ended", "deleted"}]
  /\ \A e \in Episodes : status[e] = "deleted" => status'[e] = "deleted"
  /\ link' \in [Users -> Accounts \cup {Null}]
  /\ faults' \in Nat /\ faults' >= faults

\* The memory keeps the secrets whose row can be read, and is only declared
\* ready when it has those that are needed.
CacheHolds ==
  /\ cache' \in CacheType /\ cacheReady' \in BOOLEAN
  /\ \A s \in Subs : cache[s] = "secret" /\ Readable(s) => cache'[s] = "secret"
  /\ cacheReady' => cacheReady \/ \A s \in Subs : Needed(s) => cache'[s] = "secret"

\* Most steps move a request or a hook, do not touch the table and add to the
\* memory at most.
LEMMA Moves ==
  ASSUME IInv, TwitchFades, RequestsMove, HooksMove, Outlook, CacheHolds,
         UNCHANGED <<rows, up, key, meta>>
  PROVE  IInv'
<1> USE DEF IInv
<1>1. Typed'
  BY DEF Typed, TwitchFades, RequestsMove, HooksMove, Outlook, CacheHolds
<1>2. Alive'
  BY DEF Alive, RequestsMove, HooksMove
<1>3. ASSUME NEW r \in Requests, reqs'[r].pc \notin {"idle", "create", "delete"}
      PROVE  reqs'[r] = reqs[r]
  BY <1>3 DEF RequestsMove
<1>4. ASSUME NEW r \in Requests, reqs[r].pc \in {"store", "cache"}
      PROVE  reqs'[r] = reqs[r]
  BY <1>4 DEF RequestsMove
<1>5. ASSUME NEW h \in Hooks, hooks'[h].pc = "fill" PROVE hooks'[h] = hooks[h]
  BY <1>5 DEF HooksMove
<1>6. Made'
  <2>1. ASSUME NEW r \in Requests, reqs'[r].pc = "create" PROVE reqs'[r].episode \in Episodes
    BY <2>1 DEF RequestsMove, Made
  <2> QED BY <1>3, <2>1 DEF Made, TwitchFades
<1>7. ASSUME NEW s \in Subs, NoRowYet(s) PROVE NoRowYet(s)'
  BY <1>7 DEF NoRowYet, HooksMove, NoRows
<1>8. Storing'
  BY <1>3, <1>7 DEF Storing, TwitchFades, Made
<1>9. SnapsCurrent'
  BY <1>5 DEF SnapsCurrent
<1>10. ASSUME NEW s \in Subs PROVE Creating(s) => Creating(s)'
  BY <1>4 DEF Creating
<1>11. ASSUME NEW s \in Subs PROVE (LiveOnTwitch(s))' => LiveOnTwitch(s)
  BY DEF LiveOnTwitch, TwitchFades
<1>12. ASSUME NEW s \in Subs PROVE Readable(s)' => Readable(s)
  BY DEF Readable, Decrypted
<1>13. SecretsComplete'
  BY <1>10, <1>11, <1>12 DEF SecretsComplete, CacheHolds, Needed
<1>14. FillsCovered'
  BY <1>5, <1>10, <1>11, <1>12 DEF FillsCovered, CacheHolds, Decrypted
<1>15. ASSUME NEW s \in Subs, meta[s].episode \in Episodes, Explained(s) PROVE Explained(s)'
  BY <1>15 DEF Explained, Outlook, Typed
<1>16. Stored'
  <2> SUFFICES ASSUME NEW r \in Requests, NEW s \in Subs, reqs'[r].pc = "cache",
                      reqs'[r].sub = s, LiveOnTwitch(s)'
               PROVE  Explained(s)'
    BY DEF Stored
  <2>1. reqs'[r] = reqs[r]
    BY <1>3
  <2>2. LiveOnTwitch(s)
    BY <1>11
  <2>3. meta[s].episode \in Episodes
    BY <2>2 DEF Made, LiveOnTwitch
  <2>4. Explained(s)
    BY <2>1, <2>2 DEF Stored
  <2> QED BY <2>3, <2>4, <1>15
<1>17. OrphansNeedFaults'
  <2> SUFFICES ASSUME NEW s \in Subs, LiveOnTwitch(s)', rows'[s] = Null, ~Creating(s)'
               PROVE  faults' > 0 \/ status'[meta'[s].episode] = "deleted"
    BY DEF OrphansNeedFaults
  <2>1. LiveOnTwitch(s) /\ ~Creating(s)
    BY <1>10, <1>11
  <2>2. faults > 0 \/ status[meta[s].episode] = "deleted"
    BY <2>1 DEF OrphansNeedFaults
  <2>3. meta[s].episode \in Episodes
    BY <2>1 DEF Made, LiveOnTwitch
  <2>4. Explained(s)'
    BY <2>2, <2>3, <1>15 DEF Explained
  <2> QED BY <2>4 DEF Explained
<1> QED BY <1>1, <1>2, <1>6, <1>8, <1>9, <1>13, <1>14, <1>16, <1>17

\* Or leave the memory as it is.
LEMMA Quiet ==
  ASSUME IInv, TwitchFades, RequestsMove, HooksMove, Outlook,
         UNCHANGED <<rows, up, key, cache, cacheReady, meta>>
  PROVE  IInv'
<1>1. CacheHolds
  BY DEF CacheHolds, IInv, Typed
<1> QED BY <1>1, Moves

-----------------------------------------------------------------------------
\* Requests: a start, and an answer that gives nothing.
Untouched == UNCHANGED <<rows, up, key, cache, cacheReady, meta, status, link>>

\* One request moves.
LEMMA OneRequest ==
  ASSUME IInv, up, NEW r \in Requests, NEW c \in ReqType, reqs' = [reqs EXCEPT ![r] = c],
         reqs[r].pc \notin {"store", "cache"}, c.pc \in {"idle", "create", "delete"},
         c.pc = "create" => c.episode \in Episodes
  PROVE  RequestsMove
  BY DEF IInv, Typed, RequestsMove

\* Tables and memory are left alone.
LEMMA NothingElse ==
  ASSUME IInv, Untouched, RequestsMove, UNCHANGED <<twitch, hooks, faults>>
  PROVE  IInv'
<1>1. TwitchFades /\ HooksMove /\ Outlook
  BY DEF Untouched, IInv, Typed, TwitchFades, HooksMove, Outlook, LiveOnTwitch
<1> QED BY <1>1, Quiet DEF Untouched

\* Both requests start with nothing in hand.
LEMMA StartKeeps ==
  ASSUME IInv, NEW r \in Requests,
         (\E e \in Episodes : SubscribeStart(r, e)) \/ (\E ids \in SUBSET Subs : UnsubscribeStart(r, ids))
  PROVE  IInv'
<1>1. IdleReq \in ReqType
  BY DEF IdleReq, ReqType
<1>2. Untouched /\ UNCHANGED <<twitch, hooks, faults>> /\ up /\ reqs[r].pc = "idle"
  BY DEF SubscribeStart, UnsubscribeStart, ReqOnly, dbVars, memoryVars, twitchVars, Untouched
<1>3. RequestsMove
  <2>1. ASSUME NEW e \in Episodes, SubscribeStart(r, e) PROVE RequestsMove
    <3> DEFINE c == [IdleReq EXCEPT !.pc = "create", !.episode = e, !.account = link[StreamerOf[e]],
                                    !.types = Types]
    <3>1. StreamerOf[e] \in Users
      BY EpisodesHaveStreamers
    <3>2. link[StreamerOf[e]] \in Accounts \cup {Null}
      BY <3>1 DEF IInv, Typed
    <3>3. c \in ReqType /\ c.pc = "create" /\ c.episode = e
      BY <1>1, <3>2 DEF ReqType
    <3>4. reqs' = [reqs EXCEPT ![r] = c]
      BY <2>1 DEF SubscribeStart
    <3> HIDE DEF c
    <3> QED BY <1>2, <3>3, <3>4, OneRequest
  <2>2. ASSUME NEW ids \in SUBSET Subs, UnsubscribeStart(r, ids) PROVE RequestsMove
    <3> DEFINE c == [IdleReq EXCEPT !.pc = "delete", !.subs = ids]
    <3>1. c \in ReqType /\ c.pc = "delete"
      BY <1>1 DEF ReqType
    <3>2. reqs' = [reqs EXCEPT ![r] = c]
      BY <2>2 DEF UnsubscribeStart
    <3> HIDE DEF c
    <3> QED BY <1>2, <3>1, <3>2, OneRequest
  <2> QED BY <2>1, <2>2
<1> QED BY <1>2, <1>3, NothingElse

\* After a type or an id the request takes the next, or ends.
LEMMA AfterTypes ==
  ASSUME Typed, NEW r \in Requests
  PROVE  /\ \A t : /\ AfterType(r, t) \in ReqType /\ AfterType(r, t).pc \in {"idle", "create"}
                   /\ AfterType(r, t).episode = reqs[r].episode
         /\ \A s : AfterSub(r, s) \in ReqType /\ AfterSub(r, s).pc \in {"idle", "delete"}
<1>1. reqs[r] \in ReqType
  BY DEF Typed
<1> QED BY <1>1 DEF ReqType, AfterType, AfterSub

\* What Twitch refuses is left out.
LEMMA RefusedKeeps ==
  ASSUME IInv, NEW r \in Requests,
         (\E t \in Types : CreateRefused(r, t)) \/ (\E s \in Subs : DeleteRefused(r, s))
  PROVE  IInv'
<1>1. Untouched /\ UNCHANGED <<twitch, hooks, faults>>
  BY DEF CreateRefused, DeleteRefused, ReqOnly, dbVars, memoryVars, twitchVars, Untouched
<1>2. reqs[r].pc \in {"create", "delete"}
  BY DEF CreateRefused, DeleteRefused
<1>3. up
  BY <1>2 DEF IInv, Alive, Typed
<1>4. RequestsMove
  <2>1. ASSUME NEW t \in Types, CreateRefused(r, t) PROVE RequestsMove
    <3>1. AfterType(r, t).episode \in Episodes
      BY <2>1, AfterTypes DEF CreateRefused, IInv, Made
    <3> QED BY <1>2, <1>3, <2>1, <3>1, AfterTypes, OneRequest DEF CreateRefused, IInv
  <2>2. ASSUME NEW s \in Subs, DeleteRefused(r, s) PROVE RequestsMove
    BY <1>2, <1>3, <2>2, AfterTypes, OneRequest DEF DeleteRefused, IInv
  <2> QED BY <2>1, <2>2
<1> QED BY <1>1, <1>4, NothingElse

-----------------------------------------------------------------------------
\* Hooks: the answer to a message.
LEMMA Judged ==
  ASSUME IInv, up, NEW h \in Hooks, NEW m \in MsgType, NEW known, Judge(h, m, known)
  PROVE  TwitchFades /\ HooksMove
<1>1. NoRows \in RowsType /\ NoMsg \in MsgType
  BY DEF NoRows, RowsType, NoMsg, MsgType
<1>2. IdleHook \in HookType /\ IdleHook.pc = "idle" /\ IdleHook.snap = NoRows
  BY <1>1 DEF IdleHook, HookType
<1>3. \E c \in {IdleHook, [IdleHook EXCEPT !.pc = "episodes", !.msg = m]} :
        hooks' = [hooks EXCEPT ![h] = c]
  BY DEF Judge, Accept, Refuse
<1>4. HooksMove
  <2>1. PICK c \in {IdleHook, [IdleHook EXCEPT !.pc = "episodes", !.msg = m]} :
          hooks' = [hooks EXCEPT ![h] = c]
    BY <1>3
  <2>2. c \in HookType /\ c.pc # "fill" /\ c.snap = NoRows
    BY <1>2 DEF HookType
  <2> QED BY <2>1, <2>2 DEF IInv, Typed, HooksMove
<1>5. \/ UNCHANGED twitch
      \/ twitch[m.sub] = "pending" /\ \E v \in {"enabled", "failed"} : twitch' = [twitch EXCEPT ![m.sub] = v]
  BY DEF Judge, Accept, Refuse
<1>6. TwitchFades
  <2> USE DEF IInv, Typed, TwitchType, TwitchFades, LiveOnTwitch
  <2>1. CASE UNCHANGED twitch
    BY <2>1
  <2>2. ASSUME NEW v \in {"enabled", "failed"}, twitch' = [twitch EXCEPT ![m.sub] = v],
               twitch[m.sub] = "pending"
        PROVE  TwitchFades
    BY <2>2
  <2> QED BY <1>5, <2>1, <2>2
<1> QED BY <1>4, <1>6

\* One hook goes on, with what it has read.
LEMMA OneHook ==
  ASSUME IInv, up, NEW h \in Hooks, NEW c \in HookType, hooks' = [hooks EXCEPT ![h] = c],
         c.pc # "fill", c.snap \in {hooks[h].snap, NoRows}
  PROVE  HooksMove
  BY DEF IInv, Typed, HooksMove

\* A hook moves.
LEMMA HookKeeps ==
  ASSUME IInv, TwitchFades, HooksMove, Untouched, UNCHANGED reqs, faults' \in {faults, faults + 1}
  PROVE  IInv'
<1>1. RequestsMove /\ Outlook
  BY DEF IInv, Typed, RequestsMove, Outlook, Untouched
<1> QED BY <1>1, Quiet DEF Untouched

\* Twitch sends well-formed messages.
LEMMA MessagesTyped == \A m \in Messages : m \in MsgType
<1>1. Amounts \subseteq Nat
  BY BoundsAreNat
<1>2. \A s \in Subs : [kind |-> "challenge", sub |-> s, amount |-> 0] \in MsgType
  BY DEF MsgType
<1>3. \A m \in [kind : {"notification"}, sub : {x \in Subs : twitch[x] = "enabled"}, amount : Amounts] :
        m \in MsgType
  BY <1>1 DEF MsgType
<1>4. \A m \in [kind : {"notification", "revocation"}, sub : {x \in Subs : twitch[x] = "gone"},
                amount : Amounts] : m \in MsgType
  BY <1>1 DEF MsgType
<1> QED BY <1>2, <1>3, <1>4 DEF Messages

\* The signature is checked at once, or the rows are asked first.
LEMMA VerifyKeeps ==
  ASSUME IInv, NEW h \in Hooks, NEW m \in Messages, HookVerify(h, m) \/ HookTooOld(h, m)
  PROVE  IInv'
<1>1. m \in MsgType
  BY MessagesTyped
<1>2. up /\ Untouched /\ UNCHANGED <<reqs, faults>>
  BY DEF HookVerify, HookTooOld, dbVars, memoryVars, Untouched
<1>4. CASE \E known : Judge(h, m, known)
  BY <1>1, <1>2, <1>4, Judged, HookKeeps
<1>5. CASE hooks' = [hooks EXCEPT ![h] = [IdleHook EXCEPT !.pc = "read", !.msg = m]] /\ UNCHANGED twitch
  <2> DEFINE c == [IdleHook EXCEPT !.pc = "read", !.msg = m]
  <2>1. NoRows \in RowsType /\ NoMsg \in MsgType
    BY DEF NoRows, RowsType, NoMsg, MsgType
  <2>2. IdleHook \in HookType /\ IdleHook.snap = NoRows
    BY <2>1 DEF IdleHook, HookType
  <2>3. c \in HookType /\ c.pc # "fill" /\ c.snap = NoRows
    BY <1>1, <2>2 DEF HookType
  <2>4. hooks' = [hooks EXCEPT ![h] = c]
    BY <1>5
  <2> HIDE DEF c
  <2>5. HooksMove
    BY <1>2, <2>3, <2>4, OneHook
  <2>6. TwitchFades
    BY <1>5 DEF TwitchFades, IInv, Typed, LiveOnTwitch
  <2> QED BY <1>2, <2>5, <2>6, HookKeeps
<1>6. CASE HookTooOld(h, m)
  <2>1. Judge(h, m, {})
    BY <1>6 DEF HookTooOld, Judge
  <2> QED BY <1>4, <2>1
<1>7. CASE HookVerify(h, m)
  <2>1. CASE cacheReady /\ Cached # {}
    <3>1. Judge(h, m, {s \in Subs : cache[s] = "secret"})
      BY <1>7, <2>1 DEF HookVerify
    <3> QED BY <1>4, <3>1
  <2>2. CASE ~(cacheReady /\ Cached # {})
    BY <1>5, <1>7, <2>2 DEF HookVerify
  <2> QED BY <2>1, <2>2
<1> QED BY <1>6, <1>7

\* The events of a message are read and fired; a hook in flight means that the
\* process runs.
LEMMA FireKeeps ==
  ASSUME IInv, NEW h \in Hooks, HookEpisodes(h) \/ (\E d \in Defs : HookFire(h, d))
  PROVE  IInv'
<1>1. Untouched /\ UNCHANGED <<twitch, reqs>> /\ faults' \in {faults, faults + 1}
  BY DEF HookEpisodes, HookFire, Fault, dbVars, memoryVars, twitchVars, countVars, Untouched
<1>2. up /\ hooks[h].pc # "fill"
  BY DEF HookEpisodes, HookFire, IInv, Alive, Typed
<1>3. NoRows \in RowsType /\ NoMsg \in MsgType
  BY DEF NoRows, RowsType, NoMsg, MsgType
<1>4. IdleHook \in HookType /\ IdleHook.pc = "idle" /\ IdleHook.snap = NoRows
  BY <1>3 DEF IdleHook, HookType
<1>5. hooks[h] \in HookType
  BY DEF IInv, Typed
<1>6. ASSUME hooks' = [hooks EXCEPT ![h] = IdleHook] PROVE HooksMove
  BY <1>2, <1>4, <1>6, OneHook
<1>7. ASSUME NEW todo \in SUBSET Defs,
             hooks' = [hooks EXCEPT ![h] = [hooks[h] EXCEPT !.pc = "fire", !.todo = todo]]
      PROVE  HooksMove
  <2> DEFINE c == [hooks[h] EXCEPT !.pc = "fire", !.todo = todo]
  <2>1. c \in HookType /\ c.pc # "fill" /\ c.snap = hooks[h].snap
    BY <1>5 DEF HookType
  <2>2. hooks' = [hooks EXCEPT ![h] = c]
    BY <1>7
  <2> HIDE DEF c
  <2> QED BY <1>2, <2>1, <2>2, OneHook
<1>8. ASSUME NEW d \in Defs, hooks[h].pc = "fire",
             hooks' = [hooks EXCEPT ![h] = [hooks[h] EXCEPT !.todo = @ \ {d}]]
      PROVE  HooksMove
  <2> DEFINE c == [hooks[h] EXCEPT !.todo = @ \ {d}]
  <2>1. c \in HookType /\ c.pc # "fill" /\ c.snap = hooks[h].snap
    BY <1>5, <1>2 DEF HookType
  <2>2. hooks' = [hooks EXCEPT ![h] = c]
    BY <1>8
  <2> HIDE DEF c
  <2> QED BY <1>2, <2>1, <2>2, OneHook
<1>9. HooksMove
  <2>1. CASE HookEpisodes(h)
    <3>1. \E todo \in SUBSET Defs :
            hooks' = [hooks EXCEPT ![h] = IF todo = {} THEN IdleHook
                                          ELSE [hooks[h] EXCEPT !.pc = "fire", !.todo = todo]]
      BY <2>1 DEF HookEpisodes
    <3> QED BY <3>1, <1>6, <1>7
  <2>2. ASSUME NEW d \in Defs, HookFire(h, d) PROVE HooksMove
    <3>1. CASE hooks[h].todo = {d}
      BY <2>2, <3>1, <1>6 DEF HookFire
    <3>2. CASE hooks[h].todo # {d}
      BY <2>2, <3>2, <1>8 DEF HookFire
    <3> QED BY <3>1, <3>2
  <2> QED BY <2>1, <2>2
<1>10. TwitchFades
  BY <1>1 DEF TwitchFades, IInv, Typed, LiveOnTwitch
<1> QED BY <1>1, <1>9, <1>10, HookKeeps

\* A subscription ends at Twitch.
LEMMA RevokeKeeps == ASSUME IInv, NEW s \in Subs, Revoke(s) PROVE IInv'
<1>1. Untouched /\ UNCHANGED <<reqs, hooks, faults>>
  BY DEF Revoke, dbVars, memoryVars, countVars, Untouched
<1>2. TwitchFades
  BY DEF Revoke, TwitchFades, IInv, Typed, TwitchType, LiveOnTwitch
<1>3. HooksMove
  BY <1>1 DEF IInv, Typed, HooksMove
<1> QED BY <1>1, <1>2, <1>3, HookKeeps

\* Linking an account and ending an episode.
LEMMA OutsideKeeps ==
  ASSUME IInv, OAuth \/ (\E e \in Episodes : Launch(e) \/ EndEpisode(e))
  PROVE  IInv'
<1>1. UNCHANGED <<rows, up, key, cache, cacheReady, meta, twitch, reqs, hooks, faults>>
  BY DEF OAuth, Connect, Expire, PurgeStates, CallbackState, CallbackLink, Disconnect, Launch,
         EndEpisode, SetStatus, dbVars, memoryVars, twitchVars, countVars
<1>2. link' \in [Users -> Accounts \cup {Null}]
  <2>1. ASSUME NEW c \in Callbacks, CallbackLink(c) PROVE link' \in [Users -> Accounts \cup {Null}]
    BY <2>1 DEF CallbackLink, IInv, Typed
  <2>2. ASSUME NEW u \in Users, Disconnect(u) PROVE link' \in [Users -> Accounts \cup {Null}]
    BY <2>2 DEF Disconnect, IInv, Typed
  <2>3. CASE UNCHANGED link
    BY <2>3 DEF IInv, Typed
  <2> QED BY <2>1, <2>2, <2>3
          DEF OAuth, Connect, Expire, PurgeStates, CallbackState, Launch, EndEpisode, SetStatus, dbVars
<1>3. /\ status' \in [Episodes -> {"draft", "live", "ended", "deleted"}]
      /\ \A e \in Episodes : status[e] = "deleted" => status'[e] = "deleted"
  <2>1. CASE OAuth
    <3>1. UNCHANGED status
      BY <2>1 DEF OAuth, Connect, Expire, PurgeStates, CallbackState, CallbackLink, Disconnect, dbVars
    <3> QED BY <3>1 DEF IInv, Typed
  <2>2. ASSUME NEW e \in Episodes, Launch(e) \/ EndEpisode(e)
        PROVE  /\ status' \in [Episodes -> {"draft", "live", "ended", "deleted"}]
               /\ \A x \in Episodes : status[x] = "deleted" => status'[x] = "deleted"
    BY <2>2 DEF Launch, EndEpisode, SetStatus, IInv, Typed
  <2> QED BY <2>1, <2>2
<1>4. TwitchFades /\ HooksMove /\ RequestsMove
  BY <1>1 DEF IInv, Typed, TwitchFades, HooksMove, RequestsMove, LiveOnTwitch
<1>5. Outlook
  BY <1>1, <1>2, <1>3 DEF Outlook, IInv, Typed
<1> QED BY <1>1, <1>4, <1>5, Quiet

-----------------------------------------------------------------------------
\* What a fill puts into the memory.
LEMMA FilledTyped ==
  ASSUME NEW old \in CacheType, NEW found \in RowsType, NEW k
  PROVE  /\ Filled(old, found, k) \in CacheType
         /\ \A s \in Subs : Filled(old, found, k)[s] =
              IF found[s] # Null /\ Decrypted(found[s], k) # "throws"
              THEN Decrypted(found[s], k) ELSE old[s]
<1>1. \A under : Decrypted(under, k) \in {"secret", "other", "throws"}
  BY DEF Decrypted
<1> QED BY <1>1 DEF Filled, CacheType, RowsType

\* The memory is filled from the rows, or empty and asked for again.
LEMMA BootKeeps == ASSUME IInv, NEW k \in Keys \cup {NoKey}, Boot(k) PROVE IInv'
<1> USE DEF IInv
<1>1. /\ ~up /\ up' = TRUE /\ key' = k /\ faults' \in {faults, faults + 1}
      /\ \/ cache' = Filled(EmptyCache, rows, k)
         \/ cache' = EmptyCache /\ cacheReady' = FALSE
      /\ cacheReady' \in BOOLEAN
      /\ UNCHANGED <<link, status, rows, meta, twitch, reqs, hooks>>
  BY DEF Boot, Fault, dbVars, twitchVars
<1>2. /\ \A r \in Requests : reqs[r].pc = "idle"
      /\ \A h \in Hooks : hooks[h].pc = "idle"
  BY <1>1 DEF Alive
<1>3. EmptyCache \in CacheType
  BY DEF EmptyCache, CacheType
<1>4. Typed'
  BY <1>1, <1>3, FilledTyped DEF Typed
<1>5. Alive' /\ SnapsCurrent' /\ FillsCovered' /\ Stored'
  BY <1>1, <1>2 DEF Alive, SnapsCurrent, FillsCovered, Stored
<1>6. Made' /\ Storing'
  BY <1>1 DEF Made, Storing, NoRowYet
<1>7. SecretsComplete'
  <2> SUFFICES ASSUME cacheReady', NEW s \in Subs, rows[s] # Null, Decrypted(rows[s], k) = "secret"
               PROVE  cache'[s] = "secret"
    BY <1>1 DEF SecretsComplete, Readable, Decrypted
  <2> QED BY <1>1, <1>3, FilledTyped DEF Typed
<1>8. OrphansNeedFaults'
  BY <1>1 DEF OrphansNeedFaults, Creating, LiveOnTwitch, Typed
<1> QED BY <1>4, <1>5, <1>6, <1>7, <1>8

\* All that was in flight is gone, and the fault explains what is missing.
LEMMA CrashKeeps == ASSUME IInv, Crash PROVE IInv'
<1> USE DEF IInv
<1>1. /\ up' = FALSE /\ cache' = EmptyCache /\ cacheReady' = FALSE /\ faults' = faults + 1
      /\ reqs' = [r \in Requests |-> IdleReq] /\ hooks' = [h \in Hooks |-> IdleHook]
      /\ UNCHANGED <<link, status, rows, key, meta, twitch>>
  BY DEF Crash, Fault, dbVars, twitchVars
<1>2. NoRows \in RowsType /\ NoMsg \in MsgType
  BY DEF NoRows, RowsType, NoMsg, MsgType
<1>3. IdleReq \in ReqType /\ IdleHook \in HookType
  BY <1>2 DEF IdleReq, ReqType, IdleHook, HookType
<1>4. /\ \A r \in Requests : reqs'[r].pc = "idle"
      /\ \A h \in Hooks : hooks'[h].pc = "idle" /\ hooks'[h].snap = NoRows
  BY <1>1 DEF IdleReq, IdleHook
<1>5. Typed'
  <2>1. cache' \in CacheType
    BY <1>1 DEF EmptyCache, CacheType
  <2>2. reqs' \in [Requests -> ReqType] /\ hooks' \in [Hooks -> HookType] /\ faults' \in Nat
    BY <1>1, <1>3 DEF Typed
  <2> QED BY <1>1, <2>1, <2>2 DEF Typed
<1>6. Alive' /\ SnapsCurrent' /\ FillsCovered' /\ Stored' /\ SecretsComplete'
  BY <1>1, <1>4 DEF Alive, SnapsCurrent, FillsCovered, Stored, SecretsComplete
<1>7. Made' /\ Storing'
  BY <1>1, <1>4 DEF Made, Storing, NoRowYet, NoRows
<1>8. OrphansNeedFaults'
  BY <1>1 DEF OrphansNeedFaults, Typed
<1> QED BY <1>5, <1>6, <1>7, <1>8

\* A new subscription has no row, so there is no secret to miss; it is carried
\* by its request, or a fault explains it.
LEMMA CreatePostedKeeps ==
  ASSUME IInv, NEW r \in Requests, NEW t \in Types, NEW s \in Subs, CreatePosted(r, t, s)
  PROVE  IInv'
<1> USE DEF IInv
<1>1. /\ reqs[r].pc = "create" /\ twitch[s] = "unused"
      /\ twitch' = [twitch EXCEPT ![s] = "pending"]
      /\ meta' = [meta EXCEPT ![s] = [type |-> t, account |-> reqs[r].account,
                                      episode |-> reqs[r].episode]]
      /\ UNCHANGED <<link, status, rows, up, key, cache, cacheReady, hooks>>
  BY DEF CreatePosted, ReqOnly, dbVars, memoryVars
<1>2. reqs[r] \in ReqType /\ reqs[r].episode \in Episodes /\ up
  BY <1>1 DEF Typed, Made, Alive
<1>3. PICK c \in ReqType :
        /\ reqs' = [reqs EXCEPT ![r] = c] /\ c.episode = reqs[r].episode
        /\ \/ c.pc = "store" /\ c.sub = s /\ faults' = faults
           \/ c.pc \in {"idle", "create"} /\ faults' = faults + 1
  <2>1. CASE reqs' = [reqs EXCEPT ![r].pc = "store", ![r].sub = s] /\ UNCHANGED faults
    <3> DEFINE c == [reqs[r] EXCEPT !.pc = "store", !.sub = s]
    <3>1. c \in ReqType /\ c.pc = "store" /\ c.sub = s /\ c.episode = reqs[r].episode
      BY <1>2 DEF ReqType
    <3>2. reqs' = [reqs EXCEPT ![r] = c]
      BY <2>1 DEF Typed
    <3> HIDE DEF c
    <3> QED BY <2>1, <3>1, <3>2
  <2>2. CASE reqs' = [reqs EXCEPT ![r] = AfterType(r, t)] /\ Fault
    BY <2>2, AfterTypes DEF Fault
  <2> QED BY <2>1, <2>2 DEF CreatePosted
<1>4. /\ reqs'[r] = c
      /\ \A q \in Requests \ {r} : reqs'[q] = reqs[q]
  BY <1>3 DEF Typed
<1>5. /\ twitch'[s] = "pending" /\ \A x \in Subs \ {s} : twitch'[x] = twitch[x]
      /\ meta'[s].episode = reqs[r].episode /\ \A x \in Subs \ {s} : meta'[x] = meta[x]
  BY <1>1 DEF Typed, TwitchType
<1>6. Typed'
  <2>1. reqs' \in [Requests -> ReqType] /\ faults' \in Nat
    BY <1>3 DEF Typed
  <2>2. [type |-> t, account |-> reqs[r].account, episode |-> reqs[r].episode]
          \in [type : Types \cup {Null}, account : Accounts \cup {Null}, episode : Episodes \cup {Null}]
    BY <1>2 DEF ReqType
  <2>3. meta' \in [Subs -> [type : Types \cup {Null}, account : Accounts \cup {Null},
                            episode : Episodes \cup {Null}]]
    BY <1>1, <2>2 DEF Typed
  <2> QED BY <1>1, <2>1, <2>3 DEF Typed, TwitchType
<1>7. Alive'
  BY <1>1, <1>2 DEF Alive
<1>8. Made'
  BY <1>2, <1>3, <1>4, <1>5, <1>1 DEF Made
<1>9. NoRowYet(s)
  BY <1>1 DEF Storing
<1>10. Storing'
  <2>1. \A x : NoRowYet(x) => NoRowYet(x)'
    BY <1>1 DEF NoRowYet
  <2>2. \A q \in Requests \ {r} : reqs[q].pc = "store" => reqs[q].sub # s
    BY <1>1 DEF Made
  <2> QED BY <1>3, <1>4, <1>5, <1>9, <2>1, <2>2 DEF Storing
<1>11. \A x \in Subs : Creating(x) => Creating(x)'
  BY <1>1, <1>4 DEF Creating
<1>12. \A x \in Subs \ {s} : LiveOnTwitch(x)' => LiveOnTwitch(x)
  BY <1>5 DEF LiveOnTwitch
<1>13. ~Readable(s)' /\ \A x \in Subs : Readable(x)' => Readable(x)
  BY <1>1, <1>9 DEF Readable, NoRowYet, Decrypted
<1>14. SecretsComplete'
  BY <1>1, <1>11, <1>12, <1>13 DEF SecretsComplete
<1>15. FillsCovered' /\ SnapsCurrent'
  BY <1>1, <1>11, <1>12, <1>13 DEF FillsCovered, SnapsCurrent, Decrypted
<1>16. Stored'
  <2> SUFFICES ASSUME NEW q \in Requests, NEW x \in Subs, reqs'[q].pc = "cache", reqs'[q].sub = x,
                      LiveOnTwitch(x)'
               PROVE  Explained(x)'
    BY DEF Stored
  <2>1. q # r /\ reqs'[q] = reqs[q]
    BY <1>3, <1>4
  <2>2. x # s
    BY <1>1, <2>1 DEF Made
  <2>3. Explained(x) /\ meta'[x] = meta[x]
    BY <2>1, <2>2, <1>5, <1>12 DEF Stored
  <2> QED BY <1>1, <1>3, <2>3 DEF Explained, Typed
<1>17. OrphansNeedFaults'
  <2> SUFFICES ASSUME NEW x \in Subs, LiveOnTwitch(x)', rows'[x] = Null, ~Creating(x)'
               PROVE  faults' > 0 \/ status'[meta'[x].episode] = "deleted"
    BY DEF OrphansNeedFaults
  <2>1. CASE x = s
    BY <2>1, <1>3, <1>4 DEF Creating, Typed
  <2>2. CASE x # s
    BY <2>2, <1>1, <1>3, <1>5, <1>11, <1>12 DEF OrphansNeedFaults, Typed
  <2> QED BY <2>1, <2>2
<1> QED BY <1>6, <1>7, <1>8, <1>10, <1>14, <1>15, <1>16, <1>17

\* The row is the first of its subscription, which its request still carries.
LEMMA StoreKeeps == ASSUME IInv, NEW r \in Requests, StoreRow(r) PROVE IInv'
<1> USE DEF IInv
<1>1. /\ reqs[r].pc = "store" /\ reqs' = [reqs EXCEPT ![r].pc = "cache"]
      /\ UNCHANGED <<link, status, up, key, cache, cacheReady, meta, twitch, hooks>>
  BY DEF StoreRow, memoryVars, twitchVars
<1>2. PICK s \in Subs : s = reqs[r].sub
  BY <1>1 DEF Made
<1>3. /\ twitch[s] # "unused" /\ meta[s].episode = reqs[r].episode /\ NoRowYet(s)
      /\ \A q \in Requests \ {r} : reqs[q].pc = "store" => reqs[q].sub # s
  BY <1>1, <1>2 DEF Made, Storing
<1>4. /\ rows' \in RowsType /\ \A x \in Subs \ {s} : rows'[x] = rows[x]
      /\ faults' \in Nat /\ faults' >= faults
      /\ rows'[s] # Null \/ faults' > 0 \/ status[meta[s].episode] = "deleted"
  <2>1. CASE rows' = [rows EXCEPT ![s] = key] /\ UNCHANGED faults
    BY <2>1, NullIsNothing DEF Typed, RowsType
  <2>2. CASE UNCHANGED rows /\ Fault
    BY <2>2 DEF Typed, Fault
  <2>3. CASE status[reqs[r].episode] = "deleted" /\ UNCHANGED <<rows, faults>>
    BY <2>3, <1>3 DEF Typed
  <2> QED BY <1>2, <2>1, <2>2, <2>3 DEF StoreRow
<1>5. reqs[r] \in ReqType
  BY DEF Typed
<1>6. /\ reqs'[r].pc = "cache" /\ reqs'[r].sub = s /\ reqs'[r].episode = reqs[r].episode
      /\ reqs' \in [Requests -> ReqType]
      /\ \A q \in Requests \ {r} : reqs'[q] = reqs[q]
  BY <1>1, <1>2, <1>5 DEF Typed, ReqType
<1>7. Typed'
  BY <1>1, <1>4, <1>6 DEF Typed
<1>8. Alive'
  BY <1>1 DEF Alive
<1>9. Made'
  BY <1>1, <1>3, <1>6 DEF Made
<1>10. \A x \in Subs \ {s} : NoRowYet(x) => NoRowYet(x)'
  BY <1>1, <1>4 DEF NoRowYet
<1>11. Storing'
  BY <1>1, <1>3, <1>6, <1>10, <1>9 DEF Storing, Made
<1>12. SnapsCurrent'
  BY <1>1, <1>3, <1>4 DEF SnapsCurrent, NoRowYet
<1>13. /\ \A x \in Subs : Creating(x) => Creating(x)'
       /\ Creating(s)'
  BY <1>1, <1>6 DEF Creating
<1>14. \A x \in Subs \ {s} : Readable(x)' => Readable(x)
  BY <1>1, <1>4 DEF Readable, Decrypted
<1>15. SecretsComplete'
  BY <1>1, <1>13, <1>14 DEF SecretsComplete, LiveOnTwitch
<1>16. FillsCovered'
  BY <1>1, <1>13, <1>14 DEF FillsCovered, LiveOnTwitch, Decrypted
<1>17. Stored'
  BY <1>1, <1>4, <1>6 DEF Stored, Explained, LiveOnTwitch, Typed
<1>18. OrphansNeedFaults'
  BY <1>1, <1>4, <1>13 DEF OrphansNeedFaults, LiveOnTwitch, Typed
<1> QED BY <1>7, <1>8, <1>9, <1>11, <1>12, <1>15, <1>16, <1>17, <1>18

\* The request lets go of a subscription whose secret is in the memory.
LEMMA CacheKeeps == ASSUME IInv, NEW r \in Requests, CacheSecret(r) PROVE IInv'
<1> USE DEF IInv
<1>1. /\ reqs[r].pc = "cache" /\ cache' = [cache EXCEPT ![reqs[r].sub] = "secret"]
      /\ reqs' = [reqs EXCEPT ![r] = AfterType(r, meta[reqs[r].sub].type)]
      /\ UNCHANGED <<link, status, rows, up, key, cacheReady, meta, twitch, hooks, faults>>
  BY DEF CacheSecret, dbVars, twitchVars, countVars
<1>2. PICK s \in Subs : s = reqs[r].sub
  BY <1>1 DEF Made
<1>3. PICK c \in ReqType : /\ reqs' = [reqs EXCEPT ![r] = c]
                           /\ c.pc \in {"idle", "create"} /\ c.episode = reqs[r].episode
  BY <1>1, AfterTypes
<1>4. /\ reqs'[r] = c /\ \A q \in Requests \ {r} : reqs'[q] = reqs[q]
  BY <1>3 DEF Typed
<1>5. /\ cache' \in CacheType /\ cache'[s] = "secret"
      /\ \A x \in Subs \ {s} : cache'[x] = cache[x]
  BY <1>1, <1>2 DEF Typed, CacheType
<1>6. Typed'
  BY <1>1, <1>3, <1>5 DEF Typed
<1>7. Alive' /\ Storing' /\ SnapsCurrent'
  BY <1>1, <1>3, <1>4 DEF Alive, Storing, NoRowYet, SnapsCurrent
<1>8. Made'
  BY <1>1, <1>3, <1>4 DEF Made
<1>9. \A x \in Subs \ {s} : Creating(x) => Creating(x)'
  BY <1>2, <1>4 DEF Creating
<1>10. SecretsComplete'
  BY <1>1, <1>5, <1>9 DEF SecretsComplete, LiveOnTwitch, Readable, Decrypted
<1>11. FillsCovered'
  BY <1>1, <1>5, <1>9 DEF FillsCovered, LiveOnTwitch, Readable, Decrypted
<1>12. Stored'
  BY <1>1, <1>3, <1>4 DEF Stored, Explained, LiveOnTwitch
<1>13. OrphansNeedFaults'
  <2>1. LiveOnTwitch(s) => Explained(s)
    BY <1>1, <1>2 DEF Stored
  <2> QED BY <1>1, <1>9, <2>1 DEF OrphansNeedFaults, Explained, LiveOnTwitch
<1> QED BY <1>6, <1>7, <1>8, <1>10, <1>11, <1>12, <1>13

\* What Twitch has deleted needs neither secret nor row.
LEMMA DeletePostedKeeps ==
  ASSUME IInv, NEW r \in Requests, NEW s \in Subs, DeletePosted(r, s) PROVE IInv'
<1> USE DEF IInv
<1>1. /\ reqs[r].pc = "delete" /\ twitch[s] # "unused"
      /\ twitch' = [twitch EXCEPT ![s] = "gone"]
      /\ cache' \in {cache, [cache EXCEPT ![s] = "none"]}
      /\ UNCHANGED <<link, status, rows, up, key, cacheReady, meta, hooks>>
  BY DEF DeletePosted, dbVars
<1>2. reqs[r] \in ReqType /\ up
  BY <1>1 DEF Typed, Alive
<1>3. PICK c \in ReqType :
        /\ reqs' = [reqs EXCEPT ![r] = c] /\ faults' \in {faults, faults + 1}
        /\ \/ c.pc \in {"idle", "delete"}
           \/ c.pc = "unstore" /\ c.sub = s
  <2>1. CASE reqs' = [reqs EXCEPT ![r].pc = "unstore", ![r].sub = s] /\ UNCHANGED faults
    <3> DEFINE c == [reqs[r] EXCEPT !.pc = "unstore", !.sub = s]
    <3>1. c \in ReqType /\ c.pc = "unstore" /\ c.sub = s
      BY <1>2 DEF ReqType
    <3>2. reqs' = [reqs EXCEPT ![r] = c]
      BY <2>1 DEF Typed
    <3> HIDE DEF c
    <3> QED BY <2>1, <3>1, <3>2
  <2>2. CASE reqs' = [reqs EXCEPT ![r] = AfterSub(r, s)] /\ Fault
    BY <2>2, AfterTypes DEF Fault
  <2> QED BY <2>1, <2>2 DEF DeletePosted
<1>4. /\ reqs'[r] = c /\ \A q \in Requests \ {r} : reqs'[q] = reqs[q]
  BY <1>3 DEF Typed
<1>5. /\ twitch'[s] = "gone" /\ \A x \in Subs \ {s} : twitch'[x] = twitch[x]
      /\ \A x \in Subs \ {s} : cache'[x] = cache[x]
      /\ twitch' \in TwitchType /\ cache' \in CacheType
  BY <1>1 DEF Typed, TwitchType, CacheType
<1>6. Typed'
  <2>1. reqs' \in [Requests -> ReqType] /\ faults' \in Nat
    BY <1>3 DEF Typed
  <2> QED BY <1>1, <1>5, <2>1 DEF Typed
<1>7. Alive' /\ SnapsCurrent'
  BY <1>1, <1>2 DEF Alive, SnapsCurrent
<1>8. Storing'
  BY <1>1, <1>3, <1>4, <1>5 DEF Storing, NoRowYet
<1>9. Made'
  BY <1>1, <1>3, <1>4, <1>5 DEF Made
<1>10. /\ \A x \in Subs : Creating(x) => Creating(x)'
       /\ \A x \in Subs : LiveOnTwitch(x)' => x # s /\ LiveOnTwitch(x)
  BY <1>1, <1>4, <1>5 DEF Creating, LiveOnTwitch
<1>11. SecretsComplete'
  BY <1>1, <1>5, <1>10 DEF SecretsComplete, Readable, Decrypted
<1>12. FillsCovered'
  BY <1>1, <1>5, <1>10 DEF FillsCovered, Readable, Decrypted
<1>13. Stored'
  BY <1>1, <1>3, <1>4, <1>10 DEF Stored, Explained, Typed
<1>14. OrphansNeedFaults'
  BY <1>1, <1>3, <1>10 DEF OrphansNeedFaults, Typed
<1> QED BY <1>6, <1>7, <1>8, <1>9, <1>11, <1>12, <1>13, <1>14

\* Then the row goes.
LEMMA DeleteRowKeeps == ASSUME IInv, NEW r \in Requests, DeleteRow(r) PROVE IInv'
<1> USE DEF IInv
<1>1. /\ reqs[r].pc = "unstore" /\ reqs' = [reqs EXCEPT ![r] = AfterSub(r, reqs[r].sub)]
      /\ rows' = [rows EXCEPT ![reqs[r].sub] = Null] \/ rows' = rows
      /\ faults' \in {faults, faults + 1}
      /\ UNCHANGED <<link, status, up, key, cache, cacheReady, meta, twitch, hooks>>
  BY DEF DeleteRow, Fault, memoryVars, twitchVars
<1>2. PICK s \in Subs : s = reqs[r].sub /\ twitch[s] = "gone"
  BY <1>1 DEF Made
<1>3. PICK c \in ReqType : reqs' = [reqs EXCEPT ![r] = c] /\ c.pc \in {"idle", "delete"}
  BY <1>1, AfterTypes
<1>4. /\ reqs'[r] = c /\ \A q \in Requests \ {r} : reqs'[q] = reqs[q]
  BY <1>3 DEF Typed
<1>5. /\ rows' \in RowsType /\ \A x \in Subs \ {s} : rows'[x] = rows[x]
      /\ rows'[s] \in {rows[s], Null}
  BY <1>1, <1>2 DEF Typed, RowsType
<1>6. Typed'
  <2>1. reqs' \in [Requests -> ReqType] /\ faults' \in Nat
    BY <1>1, <1>3 DEF Typed
  <2> QED BY <1>1, <1>5, <2>1 DEF Typed
<1>7. Alive' /\ Made'
  BY <1>1, <1>3, <1>4 DEF Alive, Made
<1>8. \A x \in Subs : NoRowYet(x) => NoRowYet(x)'
  BY <1>1, <1>5 DEF NoRowYet
<1>9. Storing'
  BY <1>1, <1>3, <1>4, <1>8 DEF Storing, Made
<1>10. SnapsCurrent'
  BY <1>1, <1>5 DEF SnapsCurrent
<1>11. /\ \A x \in Subs : Creating(x) => Creating(x)'
       /\ \A x \in Subs : LiveOnTwitch(x)' => x # s /\ LiveOnTwitch(x)
       /\ \A x \in Subs \ {s} : Readable(x)' => Readable(x)
  BY <1>1, <1>2, <1>4, <1>5 DEF Creating, LiveOnTwitch, Readable, Decrypted
<1>12. SecretsComplete'
  BY <1>1, <1>11 DEF SecretsComplete
<1>13. FillsCovered'
  BY <1>1, <1>11 DEF FillsCovered, Decrypted
<1>14. Stored'
  BY <1>1, <1>3, <1>4, <1>5, <1>11 DEF Stored, Explained, Typed
<1>15. OrphansNeedFaults'
  BY <1>1, <1>5, <1>11 DEF OrphansNeedFaults, Typed
<1> QED BY <1>6, <1>7, <1>9, <1>10, <1>12, <1>13, <1>14, <1>15

\* The rows of a deleted draft go with it.
LEMMA DraftKeeps == ASSUME IInv, NEW e \in Episodes, DeleteDraft(e) PROVE IInv'
<1> USE DEF IInv
<1>1. /\ status' = [status EXCEPT ![e] = "deleted"]
      /\ rows' = [s \in Subs |-> IF meta[s].episode = e THEN Null ELSE rows[s]]
      /\ UNCHANGED <<link, up, key, cache, cacheReady, meta, twitch, reqs, hooks, faults>>
  BY DEF DeleteDraft, SetStatus, memoryVars, twitchVars, countVars
<1>2. rows' \in RowsType /\ \A s \in Subs : rows'[s] \in {rows[s], Null}
  BY <1>1 DEF Typed, RowsType
<1>3. Typed'
  BY <1>1, <1>2 DEF Typed
<1>4. \A x \in Subs : NoRowYet(x) => NoRowYet(x)'
  BY <1>1, <1>2 DEF NoRowYet
<1>5. Alive' /\ Made'
  BY <1>1 DEF Alive, Made
<1>6. Storing'
  BY <1>1, <1>4 DEF Storing, Made
<1>7. SnapsCurrent'
  BY <1>1, <1>2 DEF SnapsCurrent
<1>8. /\ \A x \in Subs : Creating(x)' = Creating(x) /\ LiveOnTwitch(x)' = LiveOnTwitch(x)
      /\ \A x \in Subs : Readable(x)' => Readable(x)
  BY <1>1, <1>2 DEF Creating, LiveOnTwitch, Readable, Decrypted
<1>9. SecretsComplete'
  BY <1>1, <1>8 DEF SecretsComplete
<1>10. FillsCovered'
  BY <1>1, <1>8 DEF FillsCovered, Decrypted
<1>11. \A x \in Subs : LiveOnTwitch(x) => meta[x].episode \in Episodes
  BY DEF Made, LiveOnTwitch
<1>12. \A x \in Subs : meta[x].episode \in Episodes /\ Explained(x) => Explained(x)'
  BY <1>1 DEF Explained, Typed
<1>13. Stored'
  BY <1>1, <1>8, <1>11, <1>12 DEF Stored
<1>14. OrphansNeedFaults'
  <2> SUFFICES ASSUME NEW x \in Subs, LiveOnTwitch(x), rows'[x] = Null, ~Creating(x)
               PROVE  Explained(x)'
    BY <1>8 DEF OrphansNeedFaults, Explained
  <2>1. CASE rows[x] = Null
    BY <2>1, <1>11, <1>12 DEF OrphansNeedFaults, Explained
  <2>2. CASE rows[x] # Null
    BY <2>2, <1>1, <1>11 DEF Explained, Typed
  <2> QED BY <2>1, <2>2
<1> QED BY <1>3, <1>5, <1>6, <1>7, <1>9, <1>10, <1>13, <1>14

-----------------------------------------------------------------------------
\* A call that finds the memory empty reads every row, or gives up.
LEMMA ReadKeeps == ASSUME IInv, NEW h \in Hooks, HookRead(h) PROVE IInv'
<1>1. hooks[h] \in HookType /\ hooks[h].pc = "read" /\ up
  BY DEF HookRead, IInv, Typed, Alive
<1>2. Untouched /\ UNCHANGED reqs
  BY DEF HookRead, dbVars, memoryVars, Untouched
<1>3. CASE Refuse(h, hooks[h].msg) /\ Fault
  <2>1. hooks[h].msg \in MsgType /\ Judge(h, hooks[h].msg, {})
    BY <1>1, <1>3 DEF HookType, Judge
  <2> QED BY <1>1, <1>2, <1>3, <2>1, Judged, HookKeeps DEF Fault
<1>4. CASE hooks' = [hooks EXCEPT ![h].pc = "fill", ![h].snap = rows] /\ UNCHANGED <<twitch, faults>>
  <2> USE DEF IInv
  <2> DEFINE c == [hooks[h] EXCEPT !.pc = "fill", !.snap = rows]
  <2>1. c \in HookType /\ c.pc = "fill" /\ c.snap = rows
    BY <1>1 DEF HookType, Typed
  <2>2. hooks' = [hooks EXCEPT ![h] = c]
    BY <1>4 DEF Typed
  <2> HIDE DEF c
  <2>3. hooks'[h] = c /\ \A g \in Hooks \ {h} : hooks'[g] = hooks[g]
    BY <2>2 DEF Typed
  <2>4. Typed'
    <3>1. hooks' \in [Hooks -> HookType]
      BY <2>1, <2>2 DEF Typed
    <3> QED BY <1>2, <1>4, <3>1 DEF Typed, Untouched
  <2>5. Alive' /\ Made'
    BY <1>1, <1>2, <1>4 DEF Alive, Made, Untouched
  <2>6. Storing'
    <3>1. \A s \in Subs : NoRowYet(s) => NoRowYet(s)'
      BY <1>2, <2>1, <2>3 DEF NoRowYet, Untouched
    <3> QED BY <1>2, <1>4, <3>1 DEF Storing, Made, Untouched
  <2>7. SnapsCurrent'
    BY <1>2, <2>1, <2>3 DEF SnapsCurrent, Untouched
  <2>8. \A s \in Subs : /\ Creating(s)' = Creating(s) /\ LiveOnTwitch(s)' = LiveOnTwitch(s)
                         /\ Readable(s)' = Readable(s)
    BY <1>2, <1>4 DEF Creating, LiveOnTwitch, Readable, Decrypted, Untouched
  <2>9. SecretsComplete'
    BY <1>2, <2>8 DEF SecretsComplete, Untouched
  <2>10. FillsCovered'
    <3> SUFFICES ASSUME NEW g \in Hooks, hooks'[g].pc = "fill", NEW s \in Subs,
                        LiveOnTwitch(s), Readable(s), ~Creating(s)
                 PROVE  \/ cache[s] = "secret"
                        \/ hooks'[g].snap[s] # Null /\ Decrypted(hooks'[g].snap[s], key) = "secret"
      BY <1>2, <2>8 DEF FillsCovered, Untouched, Decrypted
    <3>1. CASE g = h
      BY <3>1, <2>1, <2>3 DEF Readable
    <3>2. CASE g # h
      BY <3>2, <2>3 DEF FillsCovered
    <3> QED BY <3>1, <3>2
  <2>11. Stored' /\ OrphansNeedFaults'
    BY <1>2, <1>4, <2>8 DEF Stored, OrphansNeedFaults, Explained, Untouched
  <2> QED BY <2>4, <2>5, <2>6, <2>7, <2>9, <2>10, <2>11
<1> QED BY <1>3, <1>4 DEF HookRead

\* What it has read goes to the memory: a row that has changed since is gone.
LEMMA FillKeeps == ASSUME IInv, NEW h \in Hooks, HookFill(h) PROVE IInv'
<1> DEFINE snap == hooks[h].snap
           known == {s \in Subs : snap[s] # Null /\ Decrypted(snap[s], key) = "secret"}
<1>1. /\ hooks[h] \in HookType /\ hooks[h].pc = "fill" /\ up
      /\ snap \in RowsType /\ hooks[h].msg \in MsgType /\ cache \in CacheType
  BY DEF HookFill, IInv, Typed, Alive, HookType
<1>2. /\ UNCHANGED <<link, status, rows, up, key, meta, reqs, faults>>
      /\ cache' = Filled(cache, snap, key) /\ cacheReady' = TRUE
      /\ Judge(h, hooks[h].msg, known)
  BY DEF HookFill, dbVars
<1>3. /\ cache' \in CacheType
      /\ \A s \in Subs : cache'[s] = IF snap[s] # Null /\ Decrypted(snap[s], key) # "throws"
                                      THEN Decrypted(snap[s], key) ELSE cache[s]
  BY <1>1, <1>2, FilledTyped
<1>4. \A s \in Subs : Readable(s) /\ snap[s] # Null => cache'[s] = "secret"
  <2> SUFFICES ASSUME NEW s \in Subs, Readable(s), snap[s] # Null PROVE cache'[s] = "secret"
    OBVIOUS
  <2>1. rows[s] = snap[s]
    BY <1>1 DEF Readable, IInv, SnapsCurrent
  <2> QED BY <1>3, <2>1 DEF Readable
<1>5. \A s \in Subs : cache[s] = "secret" /\ Readable(s) => cache'[s] = "secret"
  BY <1>3, <1>4
<1>6. \A s \in Subs : Needed(s) => cache'[s] = "secret"
  BY <1>1, <1>4, <1>5 DEF Needed, IInv, FillsCovered
<1>7. CacheHolds
  BY <1>2, <1>3, <1>5, <1>6 DEF CacheHolds
<1>8. TwitchFades /\ HooksMove
  BY <1>1, <1>2, Judged
<1>9. RequestsMove /\ Outlook
  BY <1>2 DEF IInv, Typed, RequestsMove, Outlook
<1> QED BY <1>2, <1>7, <1>8, <1>9, Moves

-----------------------------------------------------------------------------
\* Every step.
LEMMA IInductive == IInv /\ [Next]_vars => IInv'
<1> SUFFICES ASSUME IInv, [Next]_vars PROVE IInv'
  OBVIOUS
<1>1. CASE Process
  BY <1>1, BootKeeps, CrashKeeps DEF Process
<1>2. CASE OAuth
  BY <1>2, OutsideKeeps
<1>3. ASSUME NEW r \in Requests, Request(r) PROVE IInv'
  <2>1. CASE (\E e \in Episodes : SubscribeStart(r, e)) \/ \E ids \in SUBSET Subs : UnsubscribeStart(r, ids)
    BY <2>1, StartKeeps
  <2>2. CASE (\E t \in Types : CreateRefused(r, t)) \/ \E s \in Subs : DeleteRefused(r, s)
    BY <2>2, RefusedKeeps
  <2>3. CASE \E t \in Types, s \in Subs : CreatePosted(r, t, s)
    BY <2>3, CreatePostedKeeps
  <2>4. CASE StoreRow(r) \/ CacheSecret(r) \/ DeleteRow(r)
    BY <2>4, StoreKeeps, CacheKeeps, DeleteRowKeeps
  <2>5. CASE \E s \in Subs : DeletePosted(r, s)
    BY <2>5, DeletePostedKeeps
  <2> QED BY <1>3, <2>1, <2>2, <2>3, <2>4, <2>5 DEF Request
<1>4. ASSUME NEW h \in Hooks, Hook(h) PROVE IInv'
  <2>1. CASE \E m \in Messages : HookVerify(h, m) \/ HookTooOld(h, m)
    BY <2>1, VerifyKeeps
  <2>2. CASE HookRead(h) \/ HookFill(h)
    BY <2>2, ReadKeeps, FillKeeps
  <2>3. CASE HookEpisodes(h) \/ \E d \in Defs : HookFire(h, d)
    BY <2>3, FireKeeps
  <2> QED BY <1>4, <2>1, <2>2, <2>3 DEF Hook
<1>5. ASSUME NEW e \in Episodes, Launch(e) \/ EndEpisode(e) \/ DeleteDraft(e) PROVE IInv'
  <2>1. CASE Launch(e) \/ EndEpisode(e)
    BY <2>1, OutsideKeeps
  <2>2. CASE DeleteDraft(e)
    BY <2>2, DraftKeeps
  <2> QED BY <1>5, <2>1, <2>2
<1>6. ASSUME NEW s \in Subs, Revoke(s) PROVE IInv'
  BY <1>6, RevokeKeeps
<1>7. CASE UNCHANGED vars
  <2>1. UNCHANGED <<link, status, rows, up, key, cache, cacheReady, meta, twitch, reqs, hooks, faults>>
    BY <1>7 DEF vars, dbVars, memoryVars, oauthVars, twitchVars, countVars
  <2>2. TwitchFades /\ RequestsMove /\ HooksMove /\ Outlook
    BY <2>1 DEF IInv, Typed, TwitchFades, RequestsMove, HooksMove, Outlook, LiveOnTwitch
  <2> QED BY <2>1, <2>2, Quiet
<1> QED BY <1>1, <1>2, <1>3, <1>4, <1>5, <1>6, <1>7 DEF Next

\* The invariant of Twitch, the table and the memory.
THEOREM SubscriptionsSafe == Spec => []IInv
<1> QED BY InitIInv, IInductive, PTL DEF Spec

\* Once the memory is declared ready, no genuine call of Twitch is refused
\* for a secret that the table holds and the memory has missed.
THEOREM SecretsAreComplete == Spec => []SecretsComplete
<1>1. IInv => SecretsComplete
  BY DEF IInv
<1> QED BY <1>1, SubscriptionsSafe, PTL

\* A subscription without a row needs an error, a crash or a deleted draft.
THEOREM OrphansExplained == Spec => []OrphansNeedFaults
<1>1. IInv => OrphansNeedFaults
  BY DEF IInv
<1> QED BY <1>1, SubscriptionsSafe, PTL

-----------------------------------------------------------------------------
(* Firings and deliveries.                                                 *)

\* Calls that have a firing of d before them, or may find that they have.
Owing(d) ==
  {h \in Hooks : \/ hooks[h].pc = "episodes" /\ Reached(d, hooks[h].msg)
                 \/ hooks[h].pc = "fire" /\ d \in hooks[h].todo}

\* A call handles a message of a subscription that Twitch has made, and there
\* are the counters of the definitions.
Sent ==
  /\ \A h \in Hooks : hooks[h].pc \in {"read", "fill", "episodes"} =>
        hooks[h].msg.sub \in Subs /\ twitch[hooks[h].msg.sub] # "unused"
  /\ fired = [d \in Defs |-> fired[d]]

\* Each accepted delivery that reaches d is a firing or is owed one.
Covered(d) == fired[d] \in Nat /\ earned[d] \in Nat /\ fired[d] + Cardinality(Owing(d)) <= earned[d]

Balance == Sent /\ \A d \in Defs : Covered(d)

\* What a step does to the calls of one definition.
LEMMA FewerOwing ==
  ASSUME NEW d \in Defs, Covered(d), Owing(d)' \subseteq Owing(d),
         fired'[d] = fired[d], earned'[d] = earned[d]
  PROVE  Covered(d)'
<1>1. IsFiniteSet(Owing(d)) /\ IsFiniteSet(Owing(d)')
  BY HooksAreFinite, FS_Subset DEF Owing
<1>2. Cardinality(Owing(d)') <= Cardinality(Owing(d))
  BY <1>1, FS_Subset
<1>3. Cardinality(Owing(d)') \in Nat /\ Cardinality(Owing(d)) \in Nat
  BY <1>1, FS_CardinalityType
<1> QED BY <1>2, <1>3 DEF Covered

\* Only calls change what is owed, and no call's message is forgotten.
LEMMA CallsStay ==
  ASSUME Balance, IInv, UNCHANGED <<hooks, fired, earned>>,
         \A s \in Subs : twitch[s] # "unused" => twitch'[s] # "unused" /\ meta'[s] = meta[s]
  PROVE  Balance'
<1>1. Sent'
  BY DEF Balance, Sent
<1>2. ASSUME NEW d \in Defs PROVE Owing(d)' \subseteq Owing(d)
  <2> SUFFICES ASSUME NEW h \in Hooks, hooks[h].pc = "episodes",
                      Reached(d, hooks[h].msg)'
               PROVE  Reached(d, hooks[h].msg)
    BY DEF Owing
  <2>1. meta'[hooks[h].msg.sub] = meta[hooks[h].msg.sub]
    BY DEF Balance, Sent
  <2> QED BY <2>1 DEF Reached
<1> QED BY <1>1, <1>2, FewerOwing DEF Balance

\* One call goes on to c and owes nothing new.
LEMMA OneCallStays ==
  ASSUME Balance, IInv, NEW h \in Hooks, NEW c, hooks' = [hooks EXCEPT ![h] = c], meta' = meta,
         \A s \in Subs : twitch[s] # "unused" => twitch'[s] # "unused",
         c.pc \in {"read", "fill", "episodes"} => c.msg.sub \in Subs /\ twitch[c.msg.sub] # "unused",
         c.pc # "episodes", fired' = [d \in Defs |-> fired'[d]],
         NEW d \in Defs, c.pc = "fire" /\ d \in c.todo => h \in Owing(d)
  PROVE  Sent' /\ Owing(d)' \subseteq Owing(d)
<1>1. hooks'[h] = c /\ \A g \in Hooks \ {h} : hooks'[g] = hooks[g]
  BY DEF IInv, Typed
<1>2. Sent'
  BY <1>1 DEF Balance, Sent
<1>3. ASSUME NEW g \in Owing(d)' PROVE g \in Owing(d)
  BY <1>1, <1>3 DEF Owing, Reached
<1> QED BY <1>2, <1>3

\* At the start nobody has called.
LEMMA InitBalance == Init => Balance
<1> SUFFICES ASSUME Init PROVE Balance
  OBVIOUS
<1>1. \A h \in Hooks : hooks[h].pc = "idle"
  BY DEF Init, InitRest, IdleHook
<1>2. ASSUME NEW d \in Defs PROVE Covered(d)
  <2>1. Owing(d) = {}
    BY <1>1 DEF Owing
  <2>2. fired[d] = 0 /\ earned[d] = 0
    BY DEF Init, InitRest
  <2> QED BY <2>1, <2>2, FS_EmptySet DEF Covered
<1>3. fired = [d \in Defs |-> fired[d]]
  BY DEF Init, InitRest
<1> QED BY <1>1, <1>2, <1>3 DEF Balance, Sent

\* Steps of the process, of OAuth, of requests and of episodes.
LEMMA OthersBalance ==
  ASSUME Balance, IInv,
         \/ Process \/ OAuth \/ \E r \in Requests : Request(r)
         \/ \E e \in Episodes : Launch(e) \/ EndEpisode(e) \/ DeleteDraft(e)
         \/ \E s \in Subs : Revoke(s)
         \/ UNCHANGED vars
  PROVE  Balance'
<1>1. CASE Crash
  <2>1. \A h \in Hooks : hooks'[h] = IdleHook
    BY <1>1 DEF Crash
  <2>2. Sent'
    BY <1>1, <2>1 DEF Sent, IdleHook, Balance, Crash, dbVars
  <2>3. ASSUME NEW d \in Defs PROVE Covered(d)'
    <3>1. Owing(d)' = {}
      BY <2>1 DEF Owing, IdleHook
    <3> QED BY <1>1, <3>1, FewerOwing DEF Crash, dbVars, Balance
  <2> QED BY <2>2, <2>3 DEF Balance
<1>2. CASE UNCHANGED vars
  <2>1. UNCHANGED <<hooks, fired, earned, twitch, meta>>
    BY <1>2 DEF vars, dbVars, twitchVars, countVars
  <2> QED BY <2>1, CallsStay
<1>3. CASE \/ \E k \in Keys \cup {NoKey} : Boot(k)
           \/ OAuth
           \/ \E e \in Episodes : Launch(e) \/ EndEpisode(e) \/ DeleteDraft(e)
  <2>1. UNCHANGED <<hooks, fired, earned, twitch, meta>>
    BY <1>3 DEF Boot, OAuth, Connect, Expire, PurgeStates, CallbackState, CallbackLink, Disconnect,
                Launch, EndEpisode, DeleteDraft, SetStatus, dbVars, twitchVars, countVars
  <2> QED BY <2>1, CallsStay
<1>4. ASSUME NEW s \in Subs, Revoke(s) PROVE Balance'
  <2>1. UNCHANGED <<hooks, fired, earned, meta>> /\ twitch' = [twitch EXCEPT ![s] = "gone"]
    BY <1>4 DEF Revoke, dbVars, countVars
  <2>2. \A x \in Subs : twitch[x] # "unused" => twitch'[x] # "unused"
    BY <2>1 DEF IInv, Typed, TwitchType
  <2> QED BY <2>1, <2>2, CallsStay
<1>5. ASSUME NEW r \in Requests, Request(r) PROVE Balance'
  <2>1. CASE \E t \in Types, s \in Subs : CreatePosted(r, t, s)
    <3>1. PICK t \in Types, s \in Subs : CreatePosted(r, t, s)
      BY <2>1
    <3>2. /\ UNCHANGED <<hooks, fired, earned>> /\ twitch[s] = "unused"
          /\ twitch' = [twitch EXCEPT ![s] = "pending"]
          /\ \E x : meta' = [meta EXCEPT ![s] = x]
      BY <3>1 DEF CreatePosted, ReqOnly, dbVars
    <3>3. \A x \in Subs : twitch[x] # "unused" => twitch'[x] # "unused" /\ meta'[x] = meta[x]
      BY <3>2 DEF IInv, Typed, TwitchType
    <3> QED BY <3>2, <3>3, CallsStay
  <2>2. CASE \E s \in Subs : DeletePosted(r, s)
    <3>1. PICK s \in Subs : DeletePosted(r, s)
      BY <2>2
    <3>2. UNCHANGED <<hooks, fired, earned, meta>> /\ twitch' = [twitch EXCEPT ![s] = "gone"]
      BY <3>1 DEF DeletePosted, dbVars
    <3>3. \A x \in Subs : twitch[x] # "unused" => twitch'[x] # "unused"
      BY <3>2 DEF IInv, Typed, TwitchType
    <3> QED BY <3>2, <3>3, CallsStay
  <2>3. CASE \/ \E e \in Episodes : SubscribeStart(r, e)
             \/ \E ids \in SUBSET Subs : UnsubscribeStart(r, ids)
             \/ \E t \in Types : CreateRefused(r, t)
             \/ \E s \in Subs : DeleteRefused(r, s)
             \/ StoreRow(r) \/ CacheSecret(r) \/ DeleteRow(r)
    <3>1. CASE \/ (\E e \in Episodes : SubscribeStart(r, e))
               \/ \E ids \in SUBSET Subs : UnsubscribeStart(r, ids)
      <4>1. ReqOnly /\ UNCHANGED twitchVars
        <5>1. ASSUME NEW e \in Episodes, SubscribeStart(r, e) PROVE ReqOnly /\ UNCHANGED twitchVars
          BY <5>1 DEF SubscribeStart
        <5>2. ASSUME NEW ids \in SUBSET Subs, UnsubscribeStart(r, ids)
              PROVE  ReqOnly /\ UNCHANGED twitchVars
          BY <5>2 DEF UnsubscribeStart
        <5> QED BY <3>1, <5>1, <5>2
      <4>2. UNCHANGED <<hooks, fired, earned, twitch, meta>>
        BY <4>1 DEF ReqOnly, dbVars, twitchVars
      <4> QED BY <4>2, CallsStay
    <3>2. CASE (\E t \in Types : CreateRefused(r, t)) \/ \E s \in Subs : DeleteRefused(r, s)
      <4>1. UNCHANGED <<hooks, fired, earned, twitch, meta>>
        BY <3>2 DEF CreateRefused, DeleteRefused, ReqOnly, dbVars, twitchVars
      <4> QED BY <4>1, CallsStay
    <3>3. CASE StoreRow(r)
      <4>1. UNCHANGED <<hooks, fired, earned, twitch, meta>>
        BY <3>3 DEF StoreRow, twitchVars
      <4> QED BY <4>1, CallsStay
    <3>4. CASE CacheSecret(r) \/ DeleteRow(r)
      <4>1. UNCHANGED <<hooks, fired, earned, twitch, meta>>
        BY <3>4 DEF CacheSecret, DeleteRow, dbVars, twitchVars, countVars
      <4> QED BY <4>1, CallsStay
    <3> QED BY <2>3, <3>1, <3>2, <3>3, <3>4
  <2> QED BY <1>5, <2>1, <2>2, <2>3 DEF Request
<1> QED BY <1>1, <1>2, <1>3, <1>4, <1>5 DEF Process

\* The answer to a message of a call that owes nothing yet: an accepted
\* notification is earned and owed by the call.
LEMMA JudgedBalance ==
  ASSUME Balance, IInv, NEW h \in Hooks, NEW m, NEW known, Judge(h, m, known),
         hooks[h].pc \in {"idle", "read", "fill"}, m.sub \in Subs, twitch[m.sub] # "unused",
         UNCHANGED <<meta, fired>>
  PROVE  Balance'
<1>1. \A s \in Subs : twitch[s] # "unused" => twitch'[s] # "unused"
  BY DEF Judge, Accept, Refuse, IInv, Typed, TwitchType
<1>2. CASE hooks' = [hooks EXCEPT ![h] = IdleHook] /\ UNCHANGED earned
  <2>1. IdleHook.pc = "idle"
    BY DEF IdleHook
  <2>2. ASSUME NEW d \in Defs PROVE Sent' /\ Covered(d)'
    BY <1>1, <1>2, <2>1, OneCallStays, FewerOwing DEF Balance, Sent
  <2>3. Sent'
    BY <1>1, <1>2, <2>1 DEF Balance, Sent, IInv, Typed
  <2> QED BY <2>2, <2>3 DEF Balance
<1>3. ASSUME m.kind = "notification", Accept(h, m) PROVE Balance'
  <2> DEFINE c == [IdleHook EXCEPT !.pc = "episodes", !.msg = m]
  <2>1. /\ hooks' = [hooks EXCEPT ![h] = c]
        /\ earned' = [d \in Defs |-> IF Reached(d, m) THEN earned[d] + 1 ELSE earned[d]]
    BY <1>3 DEF Accept
  <2>2. c.pc = "episodes" /\ c.msg = m
    BY DEF IdleHook
  <2> HIDE DEF c
  <2>3. hooks'[h] = c /\ \A g \in Hooks \ {h} : hooks'[g] = hooks[g]
    BY <2>1 DEF IInv, Typed
  <2>4. Sent'
    BY <1>1, <2>2, <2>3 DEF Balance, Sent
  <2>5. ASSUME NEW d \in Defs PROVE Covered(d)'
    <3>1. Owing(d)' \subseteq (IF Reached(d, m) THEN Owing(d) \cup {h} ELSE Owing(d))
      BY <2>2, <2>3 DEF Owing, Reached
    <3>2. CASE ~Reached(d, m)
      BY <2>1, <3>1, <3>2, FewerOwing DEF Balance
    <3>3. CASE Reached(d, m)
      <4>1. IsFiniteSet(Owing(d))
        BY HooksAreFinite, FS_Subset DEF Owing
      <4>2. /\ IsFiniteSet(Owing(d) \cup {h})
            /\ Cardinality(Owing(d) \cup {h}) =
                 IF h \in Owing(d) THEN Cardinality(Owing(d)) ELSE Cardinality(Owing(d)) + 1
        <5> DEFINE S == Owing(d)
        <5>1. IsFiniteSet(S)
          BY <4>1
        <5> HIDE DEF S
        <5>2. /\ IsFiniteSet(S \cup {h})
              /\ Cardinality(S \cup {h}) = IF h \in S THEN Cardinality(S) ELSE Cardinality(S) + 1
          BY <5>1, FS_AddElement
        <5> QED BY <5>2 DEF S
      <4>3. Owing(d)' \in SUBSET (Owing(d) \cup {h})
        BY <3>1, <3>3
      <4>4. Cardinality(Owing(d)') <= Cardinality(Owing(d) \cup {h}) /\ IsFiniteSet(Owing(d)')
        BY <4>2, <4>3, FS_Subset
      <4>6. Cardinality(Owing(d)) \in Nat /\ Cardinality(Owing(d)') \in Nat
        BY <4>1, <4>4, FS_CardinalityType
      <4>5. earned'[d] = earned[d] + 1 /\ fired'[d] = fired[d] /\ Covered(d)
        BY <2>1, <3>3 DEF Balance
      <4> QED BY <4>2, <4>4, <4>5, <4>6 DEF Covered
    <3> QED BY <3>2, <3>3
  <2> QED BY <2>4, <2>5 DEF Balance
<1>4. CASE Refuse(h, m)
  BY <1>2, <1>4 DEF Refuse
<1>5. ASSUME m.kind # "notification", Accept(h, m) PROVE Balance'
  <2>1. earned' = [d \in Defs |-> earned[d]] /\ hooks' = [hooks EXCEPT ![h] = IdleHook]
    BY <1>5 DEF Accept
  <2>2. IdleHook.pc = "idle"
    BY DEF IdleHook
  <2>3. ASSUME NEW d \in Defs PROVE Covered(d)'
    <3>1. Owing(d)' \subseteq Owing(d)
      BY <1>1, <2>1, <2>2, OneCallStays DEF Balance, Sent
    <3> QED BY <2>1, <3>1, FewerOwing DEF Balance
  <2>4. Sent'
    BY <1>1, <2>1, <2>2 DEF Balance, Sent, IInv, Typed
  <2> QED BY <2>3, <2>4 DEF Balance
<1> QED BY <1>3, <1>4, <1>5 DEF Judge

\* The steps of a call.
LEMMA CallBalance ==
  ASSUME Balance, IInv, NEW h \in Hooks, Hook(h)
  PROVE  Balance'
<1>1. ASSUME NEW m \in Messages, HookVerify(h, m) \/ HookTooOld(h, m) PROVE Balance'
  <2>1. m.sub \in Subs /\ twitch[m.sub] # "unused" /\ hooks[h].pc = "idle"
    BY <1>1 DEF Messages, HookVerify, HookTooOld
  <2>2. UNCHANGED <<meta, fired>>
    BY <1>1 DEF HookVerify, HookTooOld, dbVars
  <2>3. CASE Refuse(h, m)
    <3>1. Judge(h, m, {})
      BY <2>3 DEF Judge
    <3> QED BY <2>1, <2>2, <3>1, JudgedBalance
  <2>5. ASSUME NEW known, Judge(h, m, known) PROVE Balance'
    BY <2>1, <2>2, <2>5, JudgedBalance
  <2>4. CASE /\ hooks' = [hooks EXCEPT ![h] = [IdleHook EXCEPT !.pc = "read", !.msg = m]]
             /\ UNCHANGED <<twitch, earned>>
    <3> DEFINE c == [IdleHook EXCEPT !.pc = "read", !.msg = m]
    <3>1. c.pc = "read" /\ c.msg = m
      BY DEF IdleHook
    <3>2. hooks' = [hooks EXCEPT ![h] = c]
      BY <2>4
    <3> HIDE DEF c
    <3>3. Sent'
      BY <2>1, <2>2, <2>4, <3>1, <3>2 DEF Balance, Sent, IInv, Typed
    <3>4. ASSUME NEW d \in Defs PROVE Covered(d)'
      <4>1. Owing(d)' \subseteq Owing(d)
        BY <2>1, <2>2, <2>4, <3>1, <3>2, OneCallStays DEF Balance, Sent
      <4> QED BY <2>2, <2>4, <4>1, FewerOwing DEF Balance
    <3> QED BY <3>3, <3>4 DEF Balance
  <2> QED BY <1>1, <2>3, <2>4, <2>5 DEF HookVerify, HookTooOld
<1>2. CASE HookRead(h)
  <2>1. hooks[h].pc = "read" /\ UNCHANGED <<meta, fired>>
    BY <1>2 DEF HookRead, dbVars
  <2>2. CASE hooks' = [hooks EXCEPT ![h].pc = "fill", ![h].snap = rows] /\ UNCHANGED <<twitch, earned>>
    <3> DEFINE c == [hooks[h] EXCEPT !.pc = "fill", !.snap = rows]
    <3>1. c.pc = "fill" /\ c.msg = hooks[h].msg
      BY DEF IInv, Typed, HookType
    <3>2. hooks' = [hooks EXCEPT ![h] = c]
      BY <2>2 DEF IInv, Typed, HookType
    <3> HIDE DEF c
    <3>3. c.msg.sub \in Subs /\ twitch[c.msg.sub] # "unused"
      BY <2>1, <3>1 DEF Balance, Sent
    <3>4. Sent'
      BY <2>1, <2>2, <3>1, <3>2, <3>3 DEF Balance, Sent, IInv, Typed
    <3>5. ASSUME NEW d \in Defs PROVE Covered(d)'
      <4>1. Owing(d)' \subseteq Owing(d)
        BY <2>1, <2>2, <3>1, <3>2, <3>3, OneCallStays DEF Balance, Sent
      <4> QED BY <2>1, <2>2, <4>1, FewerOwing DEF Balance
    <3> QED BY <3>4, <3>5 DEF Balance
  <2>3. CASE Refuse(h, hooks[h].msg)
    <3>1. hooks[h].msg.sub \in Subs /\ twitch[hooks[h].msg.sub] # "unused"
      BY <2>1 DEF Balance, Sent
    <3>2. Judge(h, hooks[h].msg, {})
      BY <2>3 DEF Judge
    <3> QED BY <2>1, <3>1, <3>2, JudgedBalance
  <2> QED BY <1>2, <2>2, <2>3 DEF HookRead
<1>3. CASE HookFill(h)
  <2>1. hooks[h].pc = "fill" /\ UNCHANGED <<meta, fired>> /\ \E known : Judge(h, hooks[h].msg, known)
    BY <1>3 DEF HookFill, dbVars
  <2>2. hooks[h].msg.sub \in Subs /\ twitch[hooks[h].msg.sub] # "unused"
    BY <2>1 DEF Balance, Sent
  <2> QED BY <2>1, <2>2, JudgedBalance
<1>4. CASE HookEpisodes(h)
  <2> DEFINE todo == {d \in Defs : /\ status[d.episode] = "live"
                                   /\ link[StreamerOf[d.episode]] = meta[hooks[h].msg.sub].account
                                   /\ Matches(d, hooks[h].msg)}
             c == IF todo = {} THEN IdleHook ELSE [hooks[h] EXCEPT !.pc = "fire", !.todo = todo]
  <2>1. /\ hooks[h].pc = "episodes" /\ hooks' = [hooks EXCEPT ![h] = c]
        /\ UNCHANGED <<meta, fired, twitch, earned>>
    BY <1>4 DEF HookEpisodes, dbVars, twitchVars, countVars
  <2>2. c.pc \in {"idle", "fire"} /\ (c.pc = "fire" => c.todo = todo)
    BY DEF IdleHook, IInv, Typed, HookType
  <2>3. \A d \in todo : Reached(d, hooks[h].msg)
    <3>1. hooks[h].msg.amount \in Nat
      BY DEF IInv, Typed, HookType, MsgType
    <3>2. \A type : Amount(type, hooks[h].msg.amount) \in Nat
      BY <3>1 DEF Amount
    <3> QED BY <3>2 DEF Matches, Reached
  <2>4. \A d \in todo : h \in Owing(d)
    BY <2>1, <2>3 DEF Owing
  <2> HIDE DEF todo, c
  <2>5. Sent'
    BY <2>1, <2>2 DEF Balance, Sent, IInv, Typed
  <2>6. ASSUME NEW d \in Defs PROVE Covered(d)'
    <3>1. Owing(d)' \subseteq Owing(d)
      BY <2>1, <2>2, <2>4, OneCallStays DEF Balance, Sent
    <3> QED BY <2>1, <3>1, FewerOwing DEF Balance
  <2> QED BY <2>5, <2>6 DEF Balance
<1>5. ASSUME NEW e \in Defs, HookFire(h, e) PROVE Balance'
  <2> DEFINE c == IF hooks[h].todo = {e} THEN IdleHook ELSE [hooks[h] EXCEPT !.todo = @ \ {e}]
  <2>1. /\ hooks[h].pc = "fire" /\ e \in hooks[h].todo /\ hooks' = [hooks EXCEPT ![h] = c]
        /\ UNCHANGED <<meta, twitch, earned>>
        /\ fired' = [fired EXCEPT ![e] = @ + 1] \/ UNCHANGED fired
    BY <1>5 DEF HookFire, twitchVars
  <2>2. c.pc \in {"idle", "fire"} /\ (c.pc = "fire" => c.todo = hooks[h].todo \ {e})
    BY <2>1 DEF IdleHook, IInv, Typed, HookType
  <2> HIDE DEF c
  <2>3. \A d \in Defs : c.pc = "fire" /\ d \in c.todo => h \in Owing(d)
    BY <2>1, <2>2 DEF Owing
  <2>4. Sent'
    BY <2>1, <2>2 DEF Balance, Sent, IInv, Typed
  <2>5. ASSUME NEW d \in Defs PROVE Owing(d)' \subseteq Owing(d)
    BY <2>1, <2>2, <2>3, <2>4, OneCallStays DEF Sent
  <2>6. ASSUME NEW d \in Defs, d # e \/ UNCHANGED fired PROVE Covered(d)'
    <3>1. fired'[d] = fired[d]
      BY <2>1, <2>6 DEF Balance, Sent
    <3> QED BY <2>1, <2>5, <3>1, FewerOwing DEF Balance
  <2>7. ASSUME fired' = [fired EXCEPT ![e] = @ + 1] PROVE Covered(e)'
    <3> DEFINE S == Owing(e)
    <3>1. h \in S /\ IsFiniteSet(S)
      BY <2>1, HooksAreFinite, FS_Subset DEF Owing
    <3>2. h \notin Owing(e)'
      BY <2>1, <2>2 DEF Owing, IInv, Typed
    <3>3. Owing(e)' \in SUBSET (S \ {h})
      BY <2>5, <3>2
    <3>4. Covered(e) /\ S = Owing(e)
      BY DEF Balance
    <3> HIDE DEF S
    <3>5. IsFiniteSet(S \ {h}) /\ Cardinality(S \ {h}) = Cardinality(S) - 1
      BY <3>1, FS_RemoveElement
    <3>6. IsFiniteSet(Owing(e)') /\ Cardinality(Owing(e)') <= Cardinality(S \ {h})
      BY <3>3, <3>5, FS_Subset
    <3>7. Cardinality(S) \in Nat /\ Cardinality(Owing(e)') \in Nat
      BY <3>1, <3>6, FS_CardinalityType
    <3>8. fired'[e] = fired[e] + 1 /\ earned'[e] = earned[e]
      BY <2>1, <2>7 DEF Balance, Sent
    <3> QED BY <3>4, <3>5, <3>6, <3>7, <3>8 DEF Covered
  <2> QED BY <2>1, <2>4, <2>6, <2>7 DEF Balance
<1> QED BY <1>1, <1>2, <1>3, <1>4, <1>5 DEF Hook

LEMMA BalanceInductive == Balance /\ IInv /\ [Next]_vars => Balance'
<1> QED BY OthersBalance, CallBalance DEF Next

\* No definition is fired more often than deliveries that reach it were
\* accepted, however many calls run and wherever they fail.
THEOREM FiringsAreEarned == Spec => []FiredPerDelivery
<1>1. Spec => []Balance
  BY InitBalance, BalanceInductive, SubscriptionsSafe, PTL DEF Spec
<1>2. Balance => FiredPerDelivery
  <2> SUFFICES ASSUME Balance, NEW d \in Defs PROVE fired[d] <= earned[d]
    BY DEF FiredPerDelivery
  <2>1. IsFiniteSet(Owing(d))
    BY HooksAreFinite, FS_Subset DEF Owing
  <2>2. Cardinality(Owing(d)) \in Nat
    BY <2>1, FS_CardinalityType
  <2> QED BY <2>2 DEF Balance, Covered
<1> QED BY <1>1, <1>2, PTL
-----------------------------------------------------------------------------
(* OAuth states.                                                           *)

Issued == {x \in States : issuedTo[x] # Null}

\* A state that is stored, or not made yet, has let no callback pass.
Unused ==
  \A x \in States : /\ uses[x] <= 1
                    /\ x \in states => uses[x] = 0
                    /\ x \notin Issued => uses[x] = 0 /\ x \notin states

StatesTyped ==
  /\ states \subseteq States /\ IsFiniteSet(states) /\ Cardinality(states) <= MaxStates
  /\ IsFiniteSet(Issued)
  /\ turn \in [States -> Nat] /\ uses \in [States -> Nat]
  /\ issuedTo \in [States -> Users \cup {Null}] /\ expired \subseteq States
  /\ \A c \in Callbacks : cbs[c].pc \in {"idle", "exchange"}

OAuthInv == StatesTyped /\ Unused

\* There is a first one.
LEMMA OldestIsOne ==
  ASSUME NEW S, S \subseteq States, S # {}, turn \in [States -> Nat] PROVE Oldest(S) \in S
<1> DEFINE T == {turn[x] : x \in S}
<1>1. T \subseteq Nat /\ T # {}
  OBVIOUS
<1> DEFINE R == {ss \in Nat \X Nat : ss[1] < ss[2]}
<1>2. IsWellFoundedOn(R, Nat)
  BY NatLessThanWellFounded DEF OpToRel
<1> HIDE DEF R
<1>3. PICK n \in T : \A m \in T : ~(<<m, n>> \in R)
  BY <1>1, <1>2, WFMin
<1>4. \A m \in T : n <= m
  <2> SUFFICES ASSUME NEW m \in T PROVE n <= m
    OBVIOUS
  <2> HIDE DEF T
  <2>1. m \in Nat /\ n \in Nat
    BY <1>1
  <2>2. CASE m < n
    <3>1. <<m, n>> \in R
      BY <2>1, <2>2 DEF R
    <3> QED BY <1>3, <3>1
  <2> QED BY <2>1, <2>2
<1>5. PICK x \in S : turn[x] = n
  BY <1>3
<1>6. \A y \in S : turn[x] <= turn[y]
  BY <1>4, <1>5
<1> QED BY <1>5, <1>6 DEF Oldest

\* There is room for one state more.
LEMMA RoomForOne ==
  ASSUME StatesTyped
  PROVE  /\ Evicted \subseteq states /\ IsFiniteSet(Evicted)
         /\ Cardinality(Evicted) \in Nat /\ Cardinality(Evicted) + 1 <= MaxStates
<1> USE DEF StatesTyped
<1>0. Cardinality(states) \in Nat /\ MaxStates \in Nat \ {0}
  BY FS_CardinalityType, BoundsAreNat
<1>1. CASE Cardinality(states) < MaxStates
  BY <1>0, <1>1 DEF Evicted
<1>2. CASE ~(Cardinality(states) < MaxStates)
  <2> DEFINE S == IF states \cap expired # {} THEN states \cap expired ELSE states
  <2>1. states # {}
    BY <1>0, <1>2, FS_EmptySet
  <2>2. S \subseteq states /\ S # {}
    BY <2>1
  <2>3. Evicted = states \ {Oldest(S)}
    BY <1>2 DEF Evicted
  <2> HIDE DEF S
  <2>4. Oldest(S) \in states
    BY <2>2, OldestIsOne
  <2>5. IsFiniteSet(states \ {Oldest(S)}) /\ Cardinality(states \ {Oldest(S)}) = Cardinality(states) - 1
    BY <2>4, FS_RemoveElement
  <2> QED BY <1>0, <1>2, <2>1, <2>3, <2>5, FS_EmptySet, FS_CardinalityType
<1> QED BY <1>1, <1>2

LEMMA OAuthKeeps == OAuthInv /\ [Next]_vars => OAuthInv'
<1> SUFFICES ASSUME OAuthInv, [Next]_vars PROVE OAuthInv'
  OBVIOUS
<1> USE DEF OAuthInv, StatesTyped, Unused, Issued
\* States go, and nothing else.
<1>1. ASSUME states' \subseteq states, UNCHANGED <<turn, issuedTo, uses>>,
             expired' \subseteq States, \A c \in Callbacks : cbs'[c].pc \in {"idle", "exchange"}
      PROVE  OAuthInv'
  <2>1. IsFiniteSet(states') /\ Cardinality(states') <= Cardinality(states)
    BY <1>1, FS_Subset
  <2>2. Cardinality(states') \in Nat /\ Cardinality(states) \in Nat /\ MaxStates \in Nat
    BY <2>1, FS_CardinalityType, BoundsAreNat
  <2> QED BY <1>1, <2>1, <2>2
<1>2. CASE UNCHANGED <<states, turn, issuedTo, uses, expired, cbs>>
  BY <1>1, <1>2
<1>3. CASE Process
  <2>1. CASE Crash
    BY <1>1, <2>1 DEF Crash, IdleCb
  <2> QED BY <1>2, <1>3, <2>1 DEF Process, Boot, oauthVars
<1>4. CASE OAuth
  <2>1. ASSUME NEW u \in Users, NEW x \in States, Connect(u, x) PROVE OAuthInv'
    <3>1. /\ issuedTo[x] = Null /\ states' = Evicted \cup {x} /\ UNCHANGED <<expired, uses, cbs>>
          /\ turn' = [turn EXCEPT ![x] = Cardinality(Issued)]
          /\ issuedTo' = [issuedTo EXCEPT ![x] = u]
      BY <2>1 DEF Connect
    <3>2. Evicted \subseteq states /\ IsFiniteSet(Evicted)
          /\ Cardinality(Evicted) \in Nat /\ Cardinality(Evicted) + 1 <= MaxStates
      BY RoomForOne
    <3>3. IsFiniteSet(states') /\ Cardinality(states') <= MaxStates /\ states' \subseteq States
      BY <3>1, <3>2, FS_AddElement, BoundsAreNat
    <3>4. u # Null
      BY NullIsNothing
    <3>5. Issued' = Issued \cup {x}
      BY <3>1, <3>4
    <3>6. IsFiniteSet(Issued') /\ Cardinality(Issued) \in Nat
      <4> HIDE DEF Issued
      <4>1. IsFiniteSet(Issued)
        OBVIOUS
      <4> QED BY <3>5, <4>1, FS_AddElement, FS_CardinalityType
    <3>7. turn' \in [States -> Nat] /\ issuedTo' \in [States -> Users \cup {Null}]
      BY <3>1, <3>6
    <3> QED BY <3>1, <3>2, <3>3, <3>5, <3>6, <3>7
  <2>2. ASSUME NEW x \in States, Expire(x) PROVE OAuthInv'
    BY <1>1, <2>2 DEF Expire
  <2>3. CASE PurgeStates
    BY <1>1, <2>3 DEF PurgeStates
  <2>4. ASSUME NEW c \in Callbacks, CallbackLink(c) PROVE OAuthInv'
    BY <1>1, <2>4 DEF CallbackLink, IdleCb
  <2>5. ASSUME NEW c \in Callbacks, NEW x \in States, CallbackState(c, x) PROVE OAuthInv'
    <3>1. /\ x \in states /\ states' = states \ {x} /\ UNCHANGED <<turn, issuedTo, expired>>
          /\ uses' = [uses EXCEPT ![x] = uses[x] + 1]
          /\ \A b \in Callbacks : cbs'[b].pc \in {"idle", "exchange"}
      BY <2>5 DEF CallbackState
    <3>2. IsFiniteSet(states') /\ Cardinality(states') <= MaxStates
      <4>1. IsFiniteSet(states') /\ Cardinality(states') = Cardinality(states) - 1
        BY <3>1, FS_RemoveElement
      <4>2. Cardinality(states) \in Nat /\ MaxStates \in Nat
        BY FS_CardinalityType, BoundsAreNat
      <4> QED BY <4>1, <4>2
    <3>3. uses' \in [States -> Nat] /\ uses'[x] = 1 /\ \A y \in States \ {x} : uses'[y] = uses[y]
      BY <3>1
    <3> QED BY <3>1, <3>2, <3>3
  <2>6. ASSUME NEW u \in Users, Disconnect(u) PROVE OAuthInv'
    BY <1>2, <2>6 DEF Disconnect, oauthVars
  <2> QED BY <1>4, <2>1, <2>2, <2>3, <2>4, <2>5, <2>6 DEF OAuth
<1>5. ASSUME NEW r \in Requests, Request(r) PROVE OAuthInv'
  BY <1>2, <1>5 DEF Request, SubscribeStart, CreateRefused, CreatePosted, StoreRow, CacheSecret, DeleteRow,
                    UnsubscribeStart, DeleteRefused, DeletePosted, ReqOnly, oauthVars
<1>6. ASSUME NEW h \in Hooks, Hook(h) PROVE OAuthInv'
  BY <1>2, <1>6 DEF Hook, HookVerify, HookTooOld, HookRead, HookFill, HookEpisodes, HookFire, oauthVars
<1>7. CASE \/ \E e \in Episodes : Launch(e) \/ EndEpisode(e) \/ DeleteDraft(e)
           \/ (\E s \in Subs : Revoke(s)) \/ UNCHANGED vars
  BY <1>2, <1>7 DEF Launch, EndEpisode, DeleteDraft, SetStatus, Revoke, vars, oauthVars
<1> QED BY <1>3, <1>4, <1>5, <1>6, <1>7 DEF Next

LEMMA OAuthInit == Init => OAuthInv
<1> SUFFICES ASSUME Init PROVE OAuthInv
  OBVIOUS
<1>1. states = {} /\ Issued = {} /\ \A x \in States : issuedTo[x] = Null /\ uses[x] = 0
  BY DEF Init, InitRest, Issued
<1>2. IsFiniteSet({}) /\ Cardinality({}) = 0 /\ 0 <= MaxStates
  BY FS_EmptySet, BoundsAreNat
<1>3. StatesTyped
  BY <1>1, <1>2 DEF Init, InitRest, StatesTyped, IdleCb
<1> QED BY <1>1, <1>3 DEF OAuthInv, Unused

\* A state lets one callback pass: it is deleted before the first await, and
\* never made again (twitch.ts:167-171).
THEOREM StatesAreUsedOnce == Spec => []StateUsedOnce
<1>1. Spec => []OAuthInv
  BY OAuthInit, OAuthKeeps, PTL DEF Spec
<1>2. OAuthInv => StateUsedOnce
  BY DEF OAuthInv, Unused, StateUsedOnce
<1> QED BY <1>1, <1>2, PTL

\* The map of states never holds more than its cap, whichever of them expire,
\* are purged or come back in between (twitch.ts:122-142).
THEOREM StatesAreCapped == Spec => [](Cardinality(states) <= MaxStates)
<1>1. Spec => []OAuthInv
  BY OAuthInit, OAuthKeeps, PTL DEF Spec
<1>2. OAuthInv => Cardinality(states) <= MaxStates
  BY DEF OAuthInv, StatesTyped
<1> QED BY <1>1, <1>2, PTL
=============================================================================
