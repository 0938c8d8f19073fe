------------------------------- MODULE Twitch --------------------------------
(***************************************************************************)
(* The Twitch integration of the API process: the OAuth states that link a *)
(* streamer to a Twitch account, the EventSub subscriptions made for an    *)
(* episode, the webhook secrets kept both in the twitch_subscriptions      *)
(* table and in the memory of the process, and the webhook that Twitch     *)
(* calls with challenges, revocations and notifications.                   *)
(*                                                                         *)
(* Twitch itself is external: it keeps `twitch` and `meta`, and sends any  *)
(* message a subscription allows, late or more than once.  One step is what*)
(* a request does between two awaits.  What firing an event does to cards  *)
(* is in LiveEpisode; here a firing is the increment of firedCount.        *)
(***************************************************************************)
EXTENDS Naturals, FiniteSets

CONSTANTS
  Users, Accounts, Episodes, Subs, States,
  StreamerOf,      \* the streamer of every episode
  Types,           \* the Twitch event types subscribed to (six in the code)
  Defs,            \* event definitions: [episode, twitchEvent, threshold]
  Amounts,         \* bits, gifts or viewers a notification may carry
  Requests,        \* subscribe and unsubscribe requests
  Hooks,           \* calls of the webhook
  Callbacks,       \* OAuth callbacks
  Keys,            \* values of WEBHOOK_SECRET_KEY; NoKey: not configured
  NoKey,
  MaxStates,       \* MAX_OAUTH_STATES
  MaxFaults,       \* bound: lost answers, database errors and crashes
  MaxDeliveries,   \* bound: messages Twitch sends
  Null

KnownTypes == {"follow", "subscription", "gift_sub", "cheer", "raid", "redemption"}

ASSUME TypesAreKnown == Types \subseteq KnownTypes
ASSUME EpisodesHaveStreamers == StreamerOf \in [Episodes -> Users]
ASSUME DefsAreTyped ==
  Defs \subseteq [episode : Episodes, twitchEvent : KnownTypes, threshold : Nat, id : Nat]
ASSUME BoundsAreNat ==
  /\ MaxStates \in Nat \ {0} /\ MaxFaults \in Nat /\ MaxDeliveries \in Nat
  /\ Amounts \subseteq Nat
ASSUME HooksAreFinite == IsFiniteSet(Hooks)
ASSUME NullIsNothing ==
  /\ Null \notin Users \cup Accounts \cup Subs \cup States \cup Episodes
  /\ NoKey \notin Keys /\ Null \notin Keys \cup {NoKey}

VARIABLES
  link,         \* users.twitchId (written and cleared with twitchAccessToken)
  status,       \* episodes.status, or "deleted"
  rows,         \* twitch_subscriptions: the key each secret was stored under
  fired,        \* eventDefinitions.firedCount
  up,           \* the process runs
  key,          \* its WEBHOOK_SECRET_KEY
  cache,        \* webhookSecretsCache: "none", the secret, or another string
  cacheReady,   \* secretsCacheInitialized
  states,       \* the keys of oauthStates
  turn,         \* when each was set: a Map keeps the order of insertion
  issuedTo,     \* the user each state was made for (Null: not made yet)
  expired,      \* states past expiresAt
  uses,         \* how often each state let a callback pass
  twitch,       \* Twitch's side of each subscription
  meta,         \* type, account and episode of each subscription
  reqs, hooks, cbs,   \* the requests in flight
  earned,       \* deliveries accepted that reach each definition
  deliveries, faults

dbVars      == <<link, status, rows, fired>>
memoryVars  == <<up, key, cache, cacheReady>>
oauthVars   == <<states, turn, issuedTo, expired, uses, cbs>>
twitchVars  == <<twitch, meta>>
countVars   == <<earned, deliveries, faults>>
vars == <<dbVars, memoryVars, oauthVars, twitchVars, reqs, hooks, countVars>>

NoMeta  == [type |-> Null, account |-> Null, episode |-> Null]
NoMsg   == [kind |-> Null, sub |-> Null, amount |-> 0]
IdleReq  == [pc |-> "idle", episode |-> Null, account |-> Null, types |-> {},
             subs |-> {}, sub |-> Null]
NoRows   == [s \in Subs |-> Null]
IdleHook == [pc |-> "idle", msg |-> NoMsg, snap |-> NoRows, todo |-> {}]
IdleCb   == [pc |-> "idle", user |-> Null]

\* Everything but the parts that an instance may start at a later moment.
InitRest ==
  /\ link = [u \in Users |-> Null]
  /\ rows = NoRows
  /\ fired = [d \in Defs |-> 0]
  /\ up = FALSE /\ key = NoKey
  /\ cache = [s \in Subs |-> "none"] /\ cacheReady = FALSE
  /\ states = {} /\ turn = [x \in States |-> 0] /\ expired = {}
  /\ uses = [x \in States |-> 0]
  /\ meta = [s \in Subs |-> NoMeta]
  /\ reqs = [r \in Requests |-> IdleReq]
  /\ hooks = [h \in Hooks |-> IdleHook]
  /\ cbs = [c \in Callbacks |-> IdleCb]
  /\ earned = [d \in Defs |-> 0]
  /\ faults = 0

Init ==
  /\ InitRest
  /\ status = [e \in Episodes |-> "draft"]
  /\ issuedTo = [x \in States |-> Null]
  /\ twitch = [s \in Subs |-> "unused"]
  /\ deliveries = 0

Fault == faults < MaxFaults /\ faults' = faults + 1

-----------------------------------------------------------------------------
(* The process: start, crash, and the secrets it holds in memory.          *)

\* decryptSecret: what a stored secret becomes in this process.  A plaintext
\* row and a row of the same key give the secret back, an encrypted row
\* without a configured key is taken as it is, another key makes it throw.
Decrypted(under, k) ==
  IF under \in {NoKey, k} THEN "secret"
  ELSE IF k = NoKey THEN "other" ELSE "throws"

\* cache.set for every row of a query, rows that fail to decrypt skipped.
Filled(old, found, k) ==
  [s \in Subs |-> IF found[s] # Null /\ Decrypted(found[s], k) # "throws"
                  THEN Decrypted(found[s], k) ELSE old[s]]

EmptyCache == [s \in Subs |-> "none"]

\* Variant for the checks: the flag is set whether or not the query succeeded.
Boot_AlwaysReady(k) ==
  /\ ~up
  /\ up' = TRUE /\ key' = k /\ cacheReady' = TRUE
  /\ \/ cache' = Filled(EmptyCache, rows, k) /\ UNCHANGED faults
     \/ cache' = EmptyCache /\ Fault
  /\ UNCHANGED <<dbVars, oauthVars, twitchVars, reqs, hooks, earned, deliveries>>

\* start(): the secrets are read before the server listens; a database error
\* leaves the cache uninitialised and the server starts all the same.
Boot(k) ==
  /\ ~up
  /\ up' = TRUE /\ key' = k
  /\ \/ cache' = Filled(EmptyCache, rows, k) /\ cacheReady' = TRUE
        /\ UNCHANGED faults
     \/ cache' = EmptyCache /\ cacheReady' = FALSE /\ Fault
  /\ UNCHANGED <<dbVars, oauthVars, twitchVars, reqs, hooks, earned, deliveries>>

\* The process dies: requests in flight, states and cached secrets are lost.
Crash ==
  /\ up /\ Fault
  /\ up' = FALSE
  /\ cache' = EmptyCache /\ cacheReady' = FALSE
  /\ states' = {} /\ cbs' = [c \in Callbacks |-> IdleCb]
  /\ reqs' = [r \in Requests |-> IdleReq]
  /\ hooks' = [h \in Hooks |-> IdleHook]
  /\ UNCHANGED <<dbVars, key, turn, issuedTo, expired, uses, twitchVars, earned, deliveries>>

-----------------------------------------------------------------------------
(* OAuth.                                                                  *)

\* The first of S in the order of insertion.
Oldest(S) == CHOOSE x \in S : \A y \in S : turn[x] <= turn[y]

\* Room for one more state: at the cap the oldest expired state goes, or the
\* oldest of all when none has expired.
Evicted ==
  LET stale == states \cap expired
  IN  IF Cardinality(states) < MaxStates THEN states
      ELSE states \ {Oldest(IF stale # {} THEN stale ELSE states)}

Connect(u, x) ==
  /\ up /\ issuedTo[x] = Null
  /\ states' = Evicted \cup {x}
  /\ turn' = [turn EXCEPT ![x] = Cardinality({y \in States : issuedTo[y] # Null})]
  /\ issuedTo' = [issuedTo EXCEPT ![x] = u]
  /\ UNCHANGED <<dbVars, memoryVars, expired, uses, cbs, twitchVars, reqs, hooks, countVars>>

\* Ten minutes pass for a stored state.
Expire(x) ==
  /\ x \in states \ expired
  /\ expired' = expired \cup {x}
  /\ UNCHANGED <<dbVars, memoryVars, states, turn, issuedTo, uses, cbs, twitchVars, reqs, hooks, countVars>>

\* The timer that runs once a minute.
PurgeStates ==
  /\ states \cap expired # {}
  /\ states' = states \ expired
  /\ UNCHANGED <<dbVars, memoryVars, turn, issuedTo, expired, uses, cbs, twitchVars, reqs, hooks, countVars>>

\* Variant for the checks: the state is deleted after the exchange.
CallbackState_Kept(c, x) ==
  /\ cbs[c].pc = "idle" /\ x \in states \ expired
  /\ uses' = [uses EXCEPT ![x] = @ + 1]
  /\ cbs' = [cbs EXCEPT ![c] = [pc |-> "exchange", user |-> issuedTo[x]]]
  /\ UNCHANGED <<dbVars, memoryVars, states, turn, issuedTo, expired, twitchVars, reqs, hooks, countVars>>

\* The state is read, checked and deleted before the first await.
CallbackState(c, x) ==
  /\ cbs[c].pc = "idle" /\ x \in states \ expired
  /\ states' = states \ {x}
  /\ uses' = [uses EXCEPT ![x] = @ + 1]
  /\ cbs' = [cbs EXCEPT ![c] = [pc |-> "exchange", user |-> issuedTo[x]]]
  /\ UNCHANGED <<dbVars, memoryVars, turn, issuedTo, expired, twitchVars, reqs, hooks, countVars>>

\* exchangeCode and getUser answer, then the user row is written; either may
\* fail, which ends the callback.
CallbackLink(c) ==
  /\ cbs[c].pc = "exchange"
  /\ cbs' = [cbs EXCEPT ![c] = IdleCb]
  /\ \/ \E a \in Accounts : link' = [link EXCEPT ![cbs[c].user] = a]
     \/ UNCHANGED link
  /\ UNCHANGED <<status, rows, fired, memoryVars, states, turn, issuedTo, expired, uses,
                 twitchVars, reqs, hooks, countVars>>

Disconnect(u) ==
  /\ up /\ link[u] # Null
  /\ link' = [link EXCEPT ![u] = Null]
  /\ UNCHANGED <<status, rows, fired, memoryVars, oauthVars, twitchVars, reqs, hooks, countVars>>

-----------------------------------------------------------------------------
(* Subscribing and unsubscribing.  The types are taken in any order.       *)

ReqOnly == UNCHANGED <<dbVars, memoryVars, oauthVars, hooks, earned, deliveries>>

\* The next pc of a request that has dealt with one type, or one id.
AfterType(r, t) ==
  [reqs[r] EXCEPT !.types = @ \ {t}, !.sub = Null,
                  !.pc = IF reqs[r].types = {t} THEN "idle" ELSE "create"]
AfterSub(r, s) ==
  [reqs[r] EXCEPT !.subs = @ \ {s}, !.sub = Null,
                  !.pc = IF reqs[r].subs = {s} THEN "idle" ELSE "delete"]

SubscribeStart(r, e) ==
  LET u == StreamerOf[e] IN
  /\ up /\ reqs[r].pc = "idle"
  /\ status[e] # "deleted" /\ link[u] # Null
  /\ reqs' = [reqs EXCEPT ![r] = [IdleReq EXCEPT !.pc = "create", !.episode = e,
                                  !.account = link[u], !.types = Types]]
  /\ UNCHANGED <<twitchVars, faults>> /\ ReqOnly

\* No app token, or Twitch refuses: the type is left out.
CreateRefused(r, t) ==
  /\ reqs[r].pc = "create" /\ t \in reqs[r].types
  /\ reqs' = [reqs EXCEPT ![r] = AfterType(r, t)]
  /\ UNCHANGED <<twitchVars, faults>> /\ ReqOnly

\* Twitch makes the subscription, and sends the challenge from now on.  An
\* answer that is lost leaves the request as after a refusal.
CreatePosted(r, t, s) ==
  /\ reqs[r].pc = "create" /\ t \in reqs[r].types /\ twitch[s] = "unused"
  /\ twitch' = [twitch EXCEPT ![s] = "pending"]
  /\ meta' = [meta EXCEPT ![s] = [type |-> t, account |-> reqs[r].account,
                                  episode |-> reqs[r].episode]]
  /\ \/ reqs' = [reqs EXCEPT ![r].pc = "store", ![r].sub = s] /\ UNCHANGED faults
     \/ reqs' = [reqs EXCEPT ![r] = AfterType(r, t)] /\ Fault
  /\ ReqOnly

\* The row is written with status 'enabled'.  An error, which a deleted
\* episode causes (foreign key), is logged and the request goes on.
StoreRow(r) ==
  LET s == reqs[r].sub
      exists == status[reqs[r].episode] # "deleted" IN
  /\ reqs[r].pc = "store"
  /\ reqs' = [reqs EXCEPT ![r].pc = "cache"]
  /\ \/ exists /\ rows' = [rows EXCEPT ![s] = key] /\ UNCHANGED faults
     \/ exists /\ UNCHANGED rows /\ Fault
     \/ ~exists /\ UNCHANGED <<rows, faults>>
  /\ UNCHANGED <<link, status, fired, memoryVars, oauthVars, twitchVars, hooks, earned, deliveries>>

CacheSecret(r) ==
  /\ reqs[r].pc = "cache"
  /\ cache' = [cache EXCEPT ![reqs[r].sub] = "secret"]
  /\ reqs' = [reqs EXCEPT ![r] = AfterType(r, meta[reqs[r].sub].type)]
  /\ UNCHANGED <<dbVars, up, key, cacheReady, oauthVars, twitchVars, hooks, countVars>>

\* The ids to delete are those of the request's body.
UnsubscribeStart(r, ids) ==
  /\ up /\ reqs[r].pc = "idle" /\ ids # {}
  /\ reqs' = [reqs EXCEPT ![r] = [IdleReq EXCEPT !.pc = "delete", !.subs = ids]]
  /\ UNCHANGED <<twitchVars, faults>> /\ ReqOnly

\* Variant for the checks: the row goes even when Twitch keeps the subscription.
DeleteRefused_RowToo(r, s) ==
  /\ reqs[r].pc = "delete" /\ s \in reqs[r].subs
  /\ reqs' = [reqs EXCEPT ![r] = AfterSub(r, s)]
  /\ rows' = [rows EXCEPT ![s] = Null]
  /\ UNCHANGED <<link, status, fired, memoryVars, oauthVars, twitchVars, hooks, countVars>>

\* No app token, or Twitch does not know the id: the loop goes on.
DeleteRefused(r, s) ==
  /\ reqs[r].pc = "delete" /\ s \in reqs[r].subs
  /\ reqs' = [reqs EXCEPT ![r] = AfterSub(r, s)]
  /\ UNCHANGED <<twitchVars, faults>> /\ ReqOnly

\* Twitch deletes; with the answer the cached secret goes.  A lost answer
\* leaves secret and row.
DeletePosted(r, s) ==
  /\ reqs[r].pc = "delete" /\ s \in reqs[r].subs
  /\ twitch[s] \in {"pending", "enabled", "failed"}
  /\ twitch' = [twitch EXCEPT ![s] = "gone"]
  /\ \/ /\ cache' = [cache EXCEPT ![s] = "none"]
        /\ reqs' = [reqs EXCEPT ![r].pc = "unstore", ![r].sub = s]
        /\ UNCHANGED faults
     \/ /\ reqs' = [reqs EXCEPT ![r] = AfterSub(r, s)]
        /\ UNCHANGED cache /\ Fault
  /\ UNCHANGED <<dbVars, up, key, cacheReady, oauthVars, meta, hooks, earned, deliveries>>

\* The row is deleted; an error is logged and the loop goes on.
DeleteRow(r) ==
  LET s == reqs[r].sub IN
  /\ reqs[r].pc = "unstore"
  /\ reqs' = [reqs EXCEPT ![r] = AfterSub(r, s)]
  /\ \/ rows' = [rows EXCEPT ![s] = Null] /\ UNCHANGED faults
     \/ rows[s] # Null /\ UNCHANGED rows /\ Fault
  /\ UNCHANGED <<link, status, fired, memoryVars, oauthVars, twitchVars, hooks, earned, deliveries>>

-----------------------------------------------------------------------------
(* Episodes, as far as this component sees them.                           *)

SetStatus(e, from, to) ==
  /\ status[e] = from
  /\ status' = [status EXCEPT ![e] = to]
  /\ UNCHANGED <<link, fired, memoryVars, oauthVars, twitchVars, reqs, hooks, countVars>>

Launch(e)     == SetStatus(e, "draft", "live") /\ UNCHANGED rows
EndEpisode(e) == SetStatus(e, "live", "ended") /\ UNCHANGED rows
\* The rows of a deleted draft go with it (cascade); Twitch is not told.
DeleteDraft(e) ==
  /\ SetStatus(e, "draft", "deleted")
  /\ rows' = [s \in Subs |-> IF meta[s].episode = e THEN Null ELSE rows[s]]

-----------------------------------------------------------------------------
(* The webhook.                                                            *)

\* Messages Twitch may send: a challenge until it is answered, then
\* notifications, which may still arrive when the subscription is gone.
Messages ==
  {[kind |-> "challenge", sub |-> s, amount |-> 0] : s \in {x \in Subs : twitch[x] = "pending"}}
  \cup [kind : {"notification"}, sub : {x \in Subs : twitch[x] = "enabled"}, amount : Amounts]
  \cup [kind : {"notification", "revocation"}, sub : {x \in Subs : twitch[x] = "gone"}, amount : Amounts]

\* extractEventAmount.
Amount(type, n) ==
  CASE type \in {"cheer", "raid"} -> n
    [] type = "gift_sub" -> IF n = 0 THEN 1 ELSE n
    [] OTHER -> 1

\* Variant for the checks: the threshold is not looked at.
Matches_AnyAmount(d, m) == d.twitchEvent = meta[m.sub].type

\* A definition a notification reaches: same event, threshold met if set.
Matches(d, m) ==
  /\ d.twitchEvent = meta[m.sub].type
  /\ d.threshold = 0 \/ Amount(meta[m.sub].type, m.amount) >= d.threshold

\* What the sender intends, whatever the handler computes.
Reached(d, m) ==
  /\ d.twitchEvent = meta[m.sub].type
  /\ Amount(meta[m.sub].type, m.amount) >= d.threshold

\* A verified message: a challenge makes Twitch enable the subscription, a
\* revocation changes nothing here, a notification is handled.
Accept(h, m) ==
  /\ twitch' = IF m.kind = "challenge" /\ twitch[m.sub] = "pending"
               THEN [twitch EXCEPT ![m.sub] = "enabled"] ELSE twitch
  /\ hooks' = [hooks EXCEPT ![h] = IF m.kind = "notification"
                                   THEN [IdleHook EXCEPT !.pc = "episodes", !.msg = m]
                                   ELSE IdleHook]
  /\ earned' = [d \in Defs |-> IF m.kind = "notification" /\ Reached(d, m)
                               THEN earned[d] + 1 ELSE earned[d]]

\* A refused challenge makes Twitch give the subscription up.
Refuse(h, m) ==
  /\ twitch' = IF m.kind = "challenge" /\ twitch[m.sub] = "pending"
               THEN [twitch EXCEPT ![m.sub] = "failed"] ELSE twitch
  /\ hooks' = [hooks EXCEPT ![h] = IdleHook]
  /\ UNCHANGED earned

\* Signed with the secret of its subscription: verified iff it is in `known`.
Judge(h, m, known) == IF m.sub \in known THEN Accept(h, m) ELSE Refuse(h, m)

Cached == {s \in Subs : cache[s] # "none"}

\* getAllWebhookSecrets: an initialised cache that is not empty decides at
\* once, otherwise the rows are queried.
HookVerify(h, m) ==
  /\ up /\ hooks[h].pc = "idle" /\ deliveries < MaxDeliveries
  /\ deliveries' = deliveries + 1
  /\ IF cacheReady /\ Cached # {}
     THEN Judge(h, m, {s \in Subs : cache[s] = "secret"})
     ELSE /\ hooks' = [hooks EXCEPT ![h] = [IdleHook EXCEPT !.pc = "read", !.msg = m]]
          /\ UNCHANGED <<twitch, earned>>
  /\ UNCHANGED <<dbVars, memoryVars, oauthVars, meta, reqs, faults>>

\* A message whose timestamp is more than ten minutes off is refused.
HookTooOld(h, m) ==
  /\ up /\ hooks[h].pc = "idle" /\ deliveries < MaxDeliveries
  /\ deliveries' = deliveries + 1
  /\ Refuse(h, m)
  /\ UNCHANGED <<dbVars, memoryVars, oauthVars, meta, reqs, faults>>

HookRead(h) ==
  /\ hooks[h].pc = "read"
  /\ \/ /\ hooks' = [hooks EXCEPT ![h].pc = "fill", ![h].snap = rows]
        /\ UNCHANGED <<twitch, earned, faults>>
     \/ Refuse(h, hooks[h].msg) /\ Fault
  /\ UNCHANGED <<dbVars, memoryVars, oauthVars, meta, reqs, deliveries>>

\* The rows read are cached, and they alone decide.
HookFill(h) ==
  LET snap == hooks[h].snap IN
  /\ hooks[h].pc = "fill"
  /\ cache' = Filled(cache, snap, key) /\ cacheReady' = TRUE
  /\ Judge(h, hooks[h].msg, {s \in Subs : snap[s] # Null /\ Decrypted(snap[s], key) = "secret"})
  /\ UNCHANGED <<dbVars, up, key, oauthVars, meta, reqs, deliveries, faults>>

\* The live episodes of every streamer linked to the broadcaster, with their
\* definitions, are read once.
HookEpisodes(h) ==
  LET m == hooks[h].msg
      todo == {d \in Defs : /\ status[d.episode] = "live"
                            /\ link[StreamerOf[d.episode]] = meta[m.sub].account
                            /\ Matches(d, m)} IN
  /\ hooks[h].pc = "episodes"
  /\ hooks' = [hooks EXCEPT ![h] = IF todo = {} THEN IdleHook
                                   ELSE [hooks[h] EXCEPT !.pc = "fire", !.todo = todo]]
  /\ UNCHANGED <<dbVars, memoryVars, oauthVars, twitchVars, reqs, countVars>>

\* The matching definitions are fired one by one; an error fires nothing and
\* the loop goes on.
HookFire(h, d) ==
  /\ hooks[h].pc = "fire" /\ d \in hooks[h].todo
  /\ \/ fired' = [fired EXCEPT ![d] = @ + 1] /\ UNCHANGED faults
     \/ UNCHANGED fired /\ Fault
  /\ hooks' = [hooks EXCEPT ![h] = IF hooks[h].todo = {d} THEN IdleHook
                                   ELSE [hooks[h] EXCEPT !.todo = @ \ {d}]]
  /\ UNCHANGED <<link, status, rows, memoryVars, oauthVars, twitchVars, reqs, earned, deliveries>>

\* Twitch revokes a subscription, or it ends there for another reason.
Revoke(s) ==
  /\ twitch[s] = "enabled"
  /\ twitch' = [twitch EXCEPT ![s] = "gone"]
  /\ UNCHANGED <<dbVars, memoryVars, oauthVars, meta, reqs, hooks, countVars>>

-----------------------------------------------------------------------------
Process == (\E k \in Keys \cup {NoKey} : Boot(k)) \/ Crash

OAuth ==
  \/ \E u \in Users : Disconnect(u) \/ \E x \in States : Connect(u, x)
  \/ \E x \in States : Expire(x)
  \/ PurgeStates
  \/ \E c \in Callbacks : CallbackLink(c) \/ \E x \in States : CallbackState(c, x)

Request(r) ==
  \/ \E e \in Episodes : SubscribeStart(r, e)
  \/ \E t \in Types : CreateRefused(r, t) \/ \E s \in Subs : CreatePosted(r, t, s)
  \/ StoreRow(r) \/ CacheSecret(r) \/ DeleteRow(r)
  \/ \E ids \in SUBSET Subs : UnsubscribeStart(r, ids)
  \/ \E s \in Subs : DeleteRefused(r, s) \/ DeletePosted(r, s)

Hook(h) ==
  \/ \E m \in Messages : HookVerify(h, m) \/ HookTooOld(h, m)
  \/ HookRead(h) \/ HookFill(h) \/ HookEpisodes(h)
  \/ \E d \in Defs : HookFire(h, d)

Next ==
  \/ Process \/ OAuth
  \/ \E r \in Requests : Request(r)
  \/ \E h \in Hooks : Hook(h)
  \/ \E e \in Episodes : Launch(e) \/ EndEpisode(e) \/ DeleteDraft(e)
  \/ \E s \in Subs : Revoke(s)

Spec == Init /\ [][Next]_vars

-----------------------------------------------------------------------------
(* Properties.                                                             *)

\* Types, and the cap of connect: the map of OAuth states never holds more
\* than MAX_OAUTH_STATES.
TypeOK ==
  /\ link \in [Users -> Accounts \cup {Null}]
  /\ status \in [Episodes -> {"draft", "live", "ended", "deleted"}]
  /\ rows \in [Subs -> Keys \cup {NoKey, Null}]
  /\ fired \in [Defs -> Nat] /\ earned \in [Defs -> Nat]
  /\ up \in BOOLEAN /\ cacheReady \in BOOLEAN /\ key \in Keys \cup {NoKey}
  /\ cache \in [Subs -> {"none", "secret", "other"}]
  /\ states \subseteq States /\ Cardinality(states) <= MaxStates /\ turn \in [States -> Nat]
  /\ issuedTo \in [States -> Users \cup {Null}] /\ expired \subseteq States
  /\ uses \in [States -> Nat]
  /\ twitch \in [Subs -> {"unused", "pending", "enabled", "failed", "gone"}]
  /\ \A r \in Requests : reqs[r].pc \in {"idle", "create", "store", "cache", "delete", "unstore"}
  /\ \A h \in Hooks : hooks[h].pc \in {"idle", "read", "fill", "episodes", "fire"}
  /\ \A c \in Callbacks : cbs[c].pc \in {"idle", "exchange"}
  /\ deliveries \in Nat /\ faults \in Nat

\* A request is between the answer of Twitch and the caching of s.
Creating(s) == \E r \in Requests : reqs[r].pc \in {"store", "cache"} /\ reqs[r].sub = s
LiveOnTwitch(s) == twitch[s] \in {"pending", "enabled"}
Readable(s) == rows[s] # Null /\ Decrypted(rows[s], key) = "secret"

\* The cache is written beside the table in steps of its own and filled by
\* whichever webhook call finds it empty; once it is initialised the table is
\* only asked again when nothing is cached.  So it must then hold the secret
\* of every subscription that Twitch still has and whose row can be read, or
\* genuine calls of Twitch would be refused until a restart.
SecretsComplete ==
  cacheReady =>
     \A s \in Subs : (LiveOnTwitch(s) /\ Readable(s) /\ ~Creating(s)) => cache[s] = "secret"

\* Why it holds: a call that has queried the rows and not yet cached them
\* makes up for every secret that is not cached meanwhile.
FillsCovered ==
  \A h \in Hooks : hooks[h].pc = "fill" =>
     \A s \in Subs : (LiveOnTwitch(s) /\ Readable(s) /\ ~Creating(s)) =>
        \/ cache[s] = "secret"
        \/ hooks[h].snap[s] # Null /\ Decrypted(hooks[h].snap[s], key) = "secret"

\* Twitch, the row and the memory are changed in three steps, errors in
\* between are logged and ignored.  Without a lost answer, a database error
\* or a crash, a subscription that Twitch has always has its row, except
\* that of a deleted draft, whose rows went by cascade.
OrphansNeedFaults ==
  \A s \in Subs : (LiveOnTwitch(s) /\ rows[s] = Null /\ ~Creating(s)) =>
                     faults > 0 \/ status[meta[s].episode] = "deleted"

\* A state lets one callback pass, however many arrive with it, and whatever
\* is evicted, expired or lost in between.
StateUsedOnce == \A x \in States : uses[x] <= 1

\* Twitch delivers more than once and the handler does not look at the
\* message id: a definition is fired at most once per accepted delivery that
\* reaches it, and never by one below its threshold.
FiredPerDelivery ==
  \A d \in Defs : fired[d] <= earned[d]
=============================================================================
