------------------------------- MODULE Sessions -------------------------------
(***************************************************************************)
(* Logins, refresh token rotation and logout (routes/auth.ts) of one       *)
(* viewer in one browser whose tabs share their cookies, as the web        *)
(* application uses them (lib/auth-context.tsx).  As in LiveEpisode each   *)
(* await is an interleaving point; an answer travels, and sets or clears   *)
(* the cookies when it arrives.                                            *)
(*                                                                         *)
(* Time is counted in ticks, one of which may pass during a request.       *)
(* Looking up or creating the user changes nothing here and is part of the *)
(* step that follows it.                                                   *)
(***************************************************************************)
EXTENDS Integers, FiniteSets

CONSTANTS
  Tabs,       \* requests in flight, one for each tab
  Tokens,     \* refresh tokens that may be issued
  Jwt,        \* JWT_EXPIRES_IN, also maxAge of the access cookie
  Hour,       \* maxAge of the access cookie that become-streamer sets
  Life,       \* life of a refresh token and of its cookie
  Absolute,   \* ABSOLUTE_SESSION_TIMEOUT_MS
  MaxTime,    \* bound on the clock
  MaxFaults,  \* bound on rejected queries and restarts
  Null

ASSUME SessionAssumption ==
  /\ IsFiniteSet(Tabs) /\ IsFiniteSet(Tokens)
  /\ {Jwt, Hour, Life, Absolute} \subseteq Nat \ {0}
  /\ MaxTime \in Nat /\ MaxFaults \in Nat
  /\ Null \notin Tokens

VARIABLES
  now,
  rows,    \* RefreshToken per token, NoRow when there is none
  issued,  \* tokens that were generated
  access,  \* the access cookie: when its JWT and when the cookie expire
  cookie,  \* the refresh cookie and when it expires
  pc, loc,
  faults   \* bound: faults so far

jarVars == <<access, cookie>>
vars == <<now, rows, issued, jarVars, pc, loc, faults>>

\* A row; session and login are history: the token of the login the row
\* descends from, and when that was.
Row == [session : Tokens, login : Nat, start : Nat, expires : Nat]

NoRow == [session |-> Null, login |-> 0, start |-> 0, expires |-> 0]

Live == {t \in Tokens : rows[t] # NoRow}

NoAccess == [jwt |-> 0, until |-> 0]
NoCookie == [token |-> Null, until |-> 0]

\* What the browser sends: cookies past their maxAge are gone.
HasAccess == access.until > now
Sent == IF cookie.until > now THEN cookie.token ELSE Null

\* A request's locals: the token it works on, the row it has read or is to
\* write, the expiry of the JWT it has signed, and when it was sent.
Idle == [token |-> Null, row |-> NoRow, jwt |-> 0, since |-> 0]

Init ==
  /\ now = 0
  /\ rows = [t \in Tokens |-> NoRow]
  /\ issued = {}
  /\ access = NoAccess /\ cookie = NoCookie
  /\ pc = [w \in Tabs |-> "idle"]
  /\ loc = [w \in Tabs |-> Idle]
  /\ faults = 0

Goto(w, label, l) ==
  /\ pc' = [pc EXCEPT ![w] = label]
  /\ loc' = [loc EXCEPT ![w] = l]

Answer(w) == Goto(w, "idle", Idle)

\* Bound: requests that may still need a token are fewer than the tokens left.
Refreshing == {w \in Tabs : pc[w] \in {"needs_refresh", "refresh_find", "refresh_delete"}}

Room == Cardinality(Refreshing) < Cardinality(Tokens \ issued)

\* generateTokens: a JWT from now on and a token never used before.
Generate(w, label, l) ==
  LET t == CHOOSE t \in Tokens \ issued : TRUE IN
  /\ Tokens \ issued # {}
  /\ issued' = issued \cup {t}
  /\ Goto(w, label, [l EXCEPT !.token = t, !.jwt = now + Jwt,
                              !.row = [l.row EXCEPT !.expires = now + Life]])

(***************************************************************************)
(* POST /auth/custodial, POST /auth/wallet                                 *)
(***************************************************************************)

LoginSend(w) ==
  /\ pc[w] = "idle" /\ Room
  /\ Generate(w, "login_create", [Idle EXCEPT !.since = now])
  /\ UNCHANGED <<now, rows, jarVars, faults>>

LoginCreate(w) ==
  LET t == loc[w].token IN
  /\ pc[w] = "login_create"
  /\ rows' = [rows EXCEPT ![t] =
                [loc[w].row EXCEPT !.session = t, !.login = now, !.start = now]]
  /\ Goto(w, "reply_set", loc[w])
  /\ UNCHANGED <<now, issued, jarVars, faults>>

(***************************************************************************)
(* GET /auth/me and POST /auth/refresh                                     *)
(***************************************************************************)

\* The tab checks its session, and the JWT has expired before its cookie, or the
\* query for the user is rejected: the same catch answers both.  Without an
\* access cookie, and with a valid one, the answer changes nothing.
MeCaught(w) ==
  /\ pc[w] = "idle"
  /\ HasAccess
  /\ \/ access.jwt <= now /\ UNCHANGED faults
     \/ access.jwt > now /\ faults < MaxFaults /\ faults' = faults + 1
  /\ Sent = Null \/ Room
  /\ Goto(w, IF Sent = Null THEN "reply_clear" ELSE "needs_refresh", [Idle EXCEPT !.since = now])
  /\ UNCHANGED <<now, rows, issued, jarVars>>

RefreshSend(w) ==
  /\ pc[w] = "needs_refresh"
  /\ IF Sent = Null THEN Answer(w)
     ELSE Goto(w, "refresh_find", [loc[w] EXCEPT !.token = Sent])
  /\ UNCHANGED <<now, rows, issued, jarVars, faults>>

RefreshFind(w) ==
  LET row == rows[loc[w].token] IN
  /\ pc[w] = "refresh_find"
  /\ Goto(w, IF row = NoRow \/ row.expires < now THEN "reply_clear"
             ELSE IF now - row.start > Absolute THEN "refresh_expire"
             ELSE "refresh_delete",
          [loc[w] EXCEPT !.row = row])
  /\ UNCHANGED <<now, rows, issued, jarVars, faults>>

\* The session is too old: its row is deleted, which rejects without a row.
RefreshExpire(w) ==
  LET t == loc[w].token IN
  /\ pc[w] = "refresh_expire"
  /\ \/ t \in Live /\ rows' = [rows EXCEPT ![t] = NoRow] /\ Goto(w, "reply_clear", loc[w])
     \/ t \notin Live /\ Answer(w) /\ UNCHANGED rows
  /\ UNCHANGED <<now, issued, jarVars, faults>>

\* Variant for the checks: deleteMany, which does not reject without a row.
RefreshDelete_Many(w) ==
  /\ pc[w] = "refresh_delete"
  /\ rows' = [rows EXCEPT ![loc[w].token] = NoRow]
  /\ Generate(w, "refresh_create", loc[w])
  /\ UNCHANGED <<now, jarVars, faults>>

\* The delete rejects when another request has deleted the row since.
RefreshDelete(w) ==
  LET t == loc[w].token IN
  /\ pc[w] = "refresh_delete"
  /\ \/ /\ t \in Live
        /\ rows' = [rows EXCEPT ![t] = NoRow]
        /\ Generate(w, "refresh_create", loc[w])
     \/ t \notin Live /\ Answer(w) /\ UNCHANGED <<rows, issued>>
  /\ UNCHANGED <<now, jarVars, faults>>

\* Variant for the checks: createdAt is left to its default.
RefreshCreate_NewStart(w) ==
  /\ pc[w] = "refresh_create"
  /\ rows' = [rows EXCEPT ![loc[w].token] = [loc[w].row EXCEPT !.start = now]]
  /\ Goto(w, "reply_set", loc[w])
  /\ UNCHANGED <<now, issued, jarVars, faults>>

\* The successor keeps createdAt.
RefreshCreate(w) ==
  /\ pc[w] = "refresh_create"
  /\ rows' = [rows EXCEPT ![loc[w].token] = loc[w].row]
  /\ Goto(w, "reply_set", loc[w])
  /\ UNCHANGED <<now, issued, jarVars, faults>>

(***************************************************************************)
(* POST /auth/logout, POST /auth/become-streamer                           *)
(***************************************************************************)

\* Without a refresh cookie there is nothing to delete.
LogoutSend(w) ==
  LET l == [Idle EXCEPT !.token = Sent, !.since = now] IN
  /\ pc[w] = "idle"
  /\ Goto(w, IF Sent = Null THEN "reply_clear" ELSE "logout_delete", l)
  /\ UNCHANGED <<now, rows, issued, jarVars, faults>>

LogoutDelete(w) ==
  /\ pc[w] = "logout_delete"
  /\ rows' = [rows EXCEPT ![loc[w].token] = NoRow]
  /\ Goto(w, "reply_clear", loc[w])
  /\ UNCHANGED <<now, issued, jarVars, faults>>

BecomeSend(w) ==
  /\ pc[w] = "idle"
  /\ HasAccess /\ access.jwt > now
  /\ Goto(w, "become_update", [Idle EXCEPT !.since = now])
  /\ UNCHANGED <<now, rows, issued, jarVars, faults>>

\* The user is updated and a JWT signed; the refresh token generated with it
\* is dropped.
BecomeUpdate(w) ==
  /\ pc[w] = "become_update"
  /\ Goto(w, "reply_access", [loc[w] EXCEPT !.jwt = now + Jwt])
  /\ UNCHANGED <<now, rows, issued, jarVars, faults>>

(***************************************************************************)
(* Answers                                                                 *)
(***************************************************************************)

\* Variant for the checks: a refresh answers with the access cookie alone.
ReplySet_AccessOnly(w) ==
  /\ pc[w] = "reply_set"
  /\ access' = [jwt |-> loc[w].jwt, until |-> now + Jwt]
  /\ cookie' = IF loc[w].row.session = Null
                 THEN [token |-> loc[w].token, until |-> now + Life] ELSE cookie
  /\ Answer(w)
  /\ UNCHANGED <<now, rows, issued, faults>>

\* setAuthCookies, when the answer arrives.
ReplySet(w) ==
  /\ pc[w] = "reply_set"
  /\ access' = [jwt |-> loc[w].jwt, until |-> now + Jwt]
  /\ cookie' = [token |-> loc[w].token, until |-> now + Life]
  /\ Answer(w)
  /\ UNCHANGED <<now, rows, issued, faults>>

\* clearAuthCookies.
ReplyClear(w) ==
  /\ pc[w] = "reply_clear"
  /\ access' = NoAccess /\ cookie' = NoCookie
  /\ Answer(w)
  /\ UNCHANGED <<now, rows, issued, faults>>

ReplyAccess(w) ==
  /\ pc[w] = "reply_access"
  /\ access' = [jwt |-> loc[w].jwt, until |-> now + Hour]
  /\ Answer(w)
  /\ UNCHANGED <<now, rows, issued, cookie, faults>>

(***************************************************************************)
(* Time and faults                                                         *)
(***************************************************************************)

\* No request takes longer than one tick.
Tick ==
  /\ now < MaxTime
  /\ \A w \in Tabs : pc[w] = "idle" \/ loc[w].since = now
  /\ now' = now + 1
  /\ UNCHANGED <<rows, issued, jarVars, pc, loc, faults>>

Handling == {"login_create", "refresh_find", "refresh_expire", "refresh_delete",
             "refresh_create", "logout_delete", "become_update"}

\* A query rejects and the error is answered, or the process dies and the
\* browser sees the connection close: the cookies stay.
Fault(w) ==
  /\ faults < MaxFaults
  /\ pc[w] \in Handling
  /\ faults' = faults + 1
  /\ Answer(w)
  /\ UNCHANGED <<now, rows, issued, jarVars>>

(***************************************************************************)
(* Specification                                                           *)
(***************************************************************************)

Step(w) ==
  \/ LoginSend(w) \/ LoginCreate(w)
  \/ MeCaught(w) \/ RefreshSend(w) \/ RefreshFind(w)
  \/ RefreshExpire(w) \/ RefreshDelete(w) \/ RefreshCreate(w)
  \/ LogoutSend(w) \/ LogoutDelete(w)
  \/ BecomeSend(w) \/ BecomeUpdate(w)
  \/ ReplySet(w) \/ ReplyClear(w) \/ ReplyAccess(w)

Next == Tick \/ \E w \in Tabs : Step(w) \/ Fault(w)

Spec == Init /\ [][Next]_vars

(***************************************************************************)
(* Properties                                                              *)
(***************************************************************************)

Labels == Handling \cup {"idle", "needs_refresh", "reply_set", "reply_clear", "reply_access"}

Locals == [token : Tokens \cup {Null}, jwt : Nat, since : Nat,
           row : [session : Tokens \cup {Null}, login : Nat, start : Nat, expires : Nat]]

\* Types of the table, the cookies and the requests.
TypeOK ==
  /\ now \in Nat /\ faults \in Nat
  /\ rows \in [Tokens -> Row \cup {NoRow}]
  /\ issued \subseteq Tokens
  /\ access \in [jwt : Nat, until : Nat]
  /\ cookie \in [token : Tokens \cup {Null}, until : Nat]
  /\ pc \in [Tabs -> Labels]
  /\ loc \in [Tabs -> Locals]

Rotating == {w \in Tabs : pc[w] = "refresh_create"}

\* A login has one refresh token at a time: whichever refreshes and logouts
\* overlap, the delete of auth.ts:351 lets one of them issue the successor.
OneHeir ==
  /\ \A t, u \in Live : rows[t].session = rows[u].session => t = u
  /\ \A w, v \in Rotating : loc[w].row.session = loc[v].row.session => w = v
  /\ \A t \in Live, w \in Rotating : rows[t].session # loc[w].row.session

\* Refreshing does not extend a session for ever (auth.ts:331-339): its last
\* token expires within Life of the last refresh, which began before the
\* absolute timeout and took a tick at most.
SessionEnds ==
  \A t \in Live : rows[t].expires <= rows[t].login + Absolute + Life + 1

Over(s) ==
  /\ s \in issued
  /\ \A t \in Live : rows[t].session # s
  /\ \A w \in Rotating : loc[w].row.session # s
  /\ \A w \in Tabs : pc[w] = "login_create" => loc[w].token # s

StaysOver == \A s \in Tokens : Over(s) => Over(s)'

\* A session that has lost its token, by a logout, a fault or its age, is never
\* revived by a request that had read the token before.
OverIsOver == [][StaysOver]_vars

\* When no request is in flight and none has failed, the browser's refresh
\* cookie is a token the server knows, unless both have expired: every answer
\* of auth.ts that gives up a token replaces or clears the cookie too.
CookieIsKnown ==
  (faults = 0 /\ \A w \in Tabs : pc[w] = "idle") =>
     Sent \in Live \cup {Null}
===============================================================================
