---------------------------- MODULE SessionsProofs ----------------------------
(***************************************************************************)
(* Proofs, for any number of tabs, tokens and faults, that a login has one *)
(* refresh token at a time, that a session that is over stays over, that   *)
(* refreshing does not extend it for ever, and, without faults, that the   *)
(* cookie is one the server knows or is about to be replaced; and, for any *)
(* clients, wallets and names, that a sign-in opens the account that holds *)
(* the wallet.                                                             *)
(***************************************************************************)
EXTENDS Accounts, TLAPS

(***************************************************************************)
(* The inductive invariant                                                 *)
(***************************************************************************)

\* Requests about to write the row of the token they have generated.
Creating == {w \in Tabs : pc[w] \in {"login_create", "refresh_create"}}

\* Requests that work on a token.
Holding == {w \in Tabs : pc[w] \in {"login_create", "refresh_find", "refresh_expire",
                                    "refresh_delete", "refresh_create",
                                    "logout_delete", "reply_set"}}

\* A request has a token where it needs one, and a row once it has read it.
HasLocals ==
  /\ \A w \in Holding : loc[w].token \in Tokens
  /\ \A w \in Tabs : pc[w] \in {"refresh_delete", "refresh_create"} => loc[w].row \in Row

\* Every token and session anyone knows has been generated.
Known ==
  /\ Live \subseteq issued
  /\ cookie.token \in issued \cup {Null}
  /\ \A t \in Live : rows[t].session \in issued
  /\ \A w \in Tabs : /\ loc[w].token \in issued \cup {Null}
                     /\ loc[w].row.session \in issued \cup {Null}

\* A token whose row is about to be written is known to that request alone.
Fresh ==
  \A w \in Creating :
    /\ loc[w].token \notin Live /\ loc[w].token # cookie.token
    /\ \A v \in Tabs : v # w => loc[v].token # loc[w].token

\* So is a session that is about to begin.
FreshLogin ==
  \A w \in Tabs : pc[w] = "login_create" =>
    /\ \A t \in Live : rows[t].session # loc[w].token
    /\ \A v \in Tabs : loc[v].row.session # loc[w].token

\* A row does not change between a refresh's read and its delete: either it
\* is the one that was read or it is gone.
ReadHolds ==
  \A w \in Tabs : (pc[w] = "refresh_delete" /\ loc[w].token \in Live) =>
                     loc[w].row = rows[loc[w].token]

Related == HasLocals /\ Known /\ Fresh /\ FreshLogin /\ ReadHolds /\ OneHeir

IInv == TypeOK /\ Related

(***************************************************************************)
(* Steps of a request                                                      *)
(***************************************************************************)

LEMMA GotoEffect ==
  ASSUME TypeOK, NEW w \in Tabs, NEW label, NEW l, Goto(w, label, l)
  PROVE  /\ pc'[w] = label /\ loc'[w] = l
         /\ \A v \in Tabs : v # w => pc'[v] = pc[v] /\ loc'[v] = loc[v]
BY DEF TypeOK, Goto

LEMMA GotoType ==
  ASSUME TypeOK, NEW w \in Tabs, NEW label \in Labels, NEW l \in Locals, Goto(w, label, l)
  PROVE  pc' \in [Tabs -> Labels] /\ loc' \in [Tabs -> Locals]
BY DEF TypeOK, Goto

LEMMA NoRowIsNoRow == NoRow \notin Row
BY SessionAssumption DEF NoRow, Row

LEMMA LiveRow == ASSUME TypeOK PROVE \A t \in Live : t \in Tokens /\ rows[t] \in Row
BY DEF TypeOK, Live

LEMMA IdleLocals == Idle \in Locals /\ Idle.token = Null /\ Idle.row.session = Null
BY DEF Idle, Locals, NoRow

LEMMA GenerateEffect ==
  ASSUME TypeOK, NEW w \in Tabs, NEW label, NEW l, Generate(w, label, l)
  PROVE  \E t \in Tokens \ issued :
            /\ issued' = issued \cup {t}
            /\ Goto(w, label, [l EXCEPT !.token = t, !.jwt = now + Jwt,
                                        !.row = [l.row EXCEPT !.expires = now + Life]])
BY DEF Generate

\* A step that creates no row and generates no token keeps what relates tokens,
\* rows and requests, as long as the request goes on with what it knew.
LEMMA Quiet ==
  ASSUME TypeOK, Related, TypeOK',
         NEW w \in Tabs, NEW l, NEW label \in Labels \ {"login_create", "refresh_create"},
         Goto(w, label, l), issued' = issued,
         \A t \in Tokens : rows'[t] \in {rows[t], NoRow},
         cookie'.token \in {cookie.token, loc[w].token, Null},
         l.token \in {cookie.token, loc[w].token, Null},
         l.row.session \in {loc[w].row.session, Null} \cup {rows[t].session : t \in Live},
         label \in {"refresh_find", "refresh_expire", "refresh_delete", "logout_delete", "reply_set"}
           => l.token \in Tokens,
         label = "refresh_delete"
           => l.row \in Row /\ (l.token \in Live' => l.row = rows'[l.token])
  PROVE  Related'
<1>0. /\ pc'[w] = label /\ loc'[w] = l
      /\ \A v \in Tabs : v # w => pc'[v] = pc[v] /\ loc'[v] = loc[v]
  BY GotoEffect
<1>1. Live' \subseteq Live /\ \A t \in Live' : rows'[t] = rows[t] BY DEF Live
<1>2. HasLocals'
  BY <1>0 DEF Related, HasLocals, Holding
<1>3. Known'
  BY <1>0, <1>1 DEF Related, Known
<1>4. Creating' \subseteq Creating /\ w \notin Creating' BY <1>0 DEF Creating
<1>5. Fresh'
  <2> SUFFICES ASSUME NEW v \in Creating'
               PROVE  /\ loc'[v].token \notin Live' /\ loc'[v].token # cookie'.token
                      /\ \A u \in Tabs : u # v => loc'[u].token # loc'[v].token
    BY DEF Fresh
  <2>1. v \in Tabs /\ v # w /\ v \in Creating BY <1>4 DEF Creating
  <2>2. loc'[v] = loc[v] BY <1>0, <2>1
  <2>3. loc[v].token # Null BY <2>1, SessionAssumption DEF Related, HasLocals, Holding, Creating
  <2>4. loc[v].token # cookie.token /\ loc[v].token # loc[w].token /\ loc[v].token \notin Live
    BY <2>1 DEF Related, Fresh
  <2>5. \A u \in Tabs : u # v => loc'[u].token # loc[v].token
    BY <1>0, <2>1, <2>3, <2>4 DEF Related, Fresh
  <2> QED BY <1>1, <2>2, <2>3, <2>4, <2>5
<1>6. FreshLogin'
  <2> SUFFICES ASSUME NEW v \in Tabs, pc'[v] = "login_create"
               PROVE  /\ \A t \in Live' : rows'[t].session # loc'[v].token
                      /\ \A u \in Tabs : loc'[u].row.session # loc'[v].token
    BY DEF FreshLogin
  <2>1. v # w /\ pc[v] = "login_create" /\ loc'[v] = loc[v] BY <1>0
  <2>2. loc[v].token # Null BY <2>1, SessionAssumption DEF Related, HasLocals, Holding
  <2>3. /\ \A t \in Live : rows[t].session # loc[v].token
        /\ \A u \in Tabs : loc[u].row.session # loc[v].token
    BY <2>1 DEF Related, FreshLogin
  <2>4. l.row.session # loc[v].token BY <2>2, <2>3
  <2> QED BY <1>0, <1>1, <2>1, <2>3, <2>4
<1>7. ReadHolds' BY <1>0, <1>1 DEF Related, ReadHolds
<1>8. OneHeir'
  <2>1. /\ Rotating' \subseteq Rotating /\ w \notin Rotating'
        /\ \A v \in Rotating' : loc'[v] = loc[v]
    BY <1>0 DEF Rotating
  <2> QED BY <1>1, <2>1 DEF Related, OneHeir
<1> QED BY <1>2, <1>3, <1>5, <1>6, <1>7, <1>8 DEF Related

(***************************************************************************)
(* Types                                                                   *)
(***************************************************************************)

LEMMA TypeInit == Init => TypeOK
BY SessionAssumption, IdleLocals DEF Init, TypeOK, NoAccess, NoCookie, Labels, Handling

LEMMA GenerateType ==
  ASSUME TypeOK, NEW w \in Tabs, NEW label \in Labels, NEW l \in Locals, Generate(w, label, l)
  PROVE  /\ pc' \in [Tabs -> Labels] /\ loc' \in [Tabs -> Locals]
         /\ issued' \subseteq Tokens
<1>1. PICK t \in Tokens \ issued :
        /\ issued' = issued \cup {t}
        /\ Goto(w, label, [l EXCEPT !.token = t, !.jwt = now + Jwt,
                                    !.row = [l.row EXCEPT !.expires = now + Life]])
  BY GenerateEffect
<1>2. now + Jwt \in Nat /\ now + Life \in Nat BY SessionAssumption DEF TypeOK
<1>3. [l.row EXCEPT !.expires = now + Life] \in
        [session : Tokens \cup {Null}, login : Nat, start : Nat, expires : Nat]
  BY <1>2 DEF Locals
<1>4. [l EXCEPT !.token = t, !.jwt = now + Jwt,
                !.row = [l.row EXCEPT !.expires = now + Life]] \in Locals
  BY <1>1, <1>2, <1>3 DEF Locals
<1> QED BY <1>1, <1>4, GotoType DEF TypeOK

LEMMA StepType ==
  ASSUME TypeOK, HasLocals, NEW w \in Tabs, Step(w) \/ Fault(w)
  PROVE  TypeOK'
<1> USE DEF Labels, Handling
<1>0. loc[w] \in Locals /\ now \in Nat BY DEF TypeOK
<1>1. CASE LoginSend(w)
  <2>1. [Idle EXCEPT !.since = now] \in Locals BY <1>0, IdleLocals DEF Locals
  <2> QED BY <1>1, <2>1, GenerateType DEF LoginSend, TypeOK, jarVars
<1>2. CASE LoginCreate(w)
  <2>1. loc[w].token \in Tokens BY <1>2 DEF LoginCreate, HasLocals, Holding
  <2>2. [loc[w].row EXCEPT !.session = loc[w].token, !.login = now, !.start = now] \in Row
    BY <1>0, <2>1 DEF Locals, Row
  <2>3. rows' \in [Tokens -> Row \cup {NoRow}] BY <1>2, <2>2 DEF LoginCreate, TypeOK
  <2> QED BY <1>0, <1>2, <2>3, GotoType DEF LoginCreate, TypeOK, jarVars
<1>3. CASE MeCaught(w)
  <2>1. [Idle EXCEPT !.since = now] \in Locals BY <1>0, IdleLocals DEF Locals
  <2> QED BY <1>3, <2>1, GotoType DEF MeCaught, TypeOK, jarVars
<1>4. CASE RefreshSend(w)
  <2>1. Sent \in Tokens \cup {Null} BY DEF Sent, TypeOK
  <2>2. [loc[w] EXCEPT !.token = Sent] \in Locals BY <1>0, <2>1 DEF Locals
  <2> QED BY <1>4, <2>2, IdleLocals, GotoType DEF RefreshSend, Answer, TypeOK, jarVars
<1>5. CASE RefreshFind(w)
  <2>1. loc[w].token \in Tokens BY <1>5 DEF RefreshFind, HasLocals, Holding
  <2>2. rows[loc[w].token] \in Row \cup {NoRow} BY <2>1 DEF TypeOK
  <2>3. [loc[w] EXCEPT !.row = rows[loc[w].token]] \in Locals
    BY <1>0, <2>2 DEF Locals, Row, NoRow
  <2>4. PICK label \in {"reply_clear", "refresh_expire", "refresh_delete"} :
          Goto(w, label, [loc[w] EXCEPT !.row = rows[loc[w].token]])
    BY <1>5 DEF RefreshFind
  <2>5. label \in Labels OBVIOUS
  <2>6. pc' \in [Tabs -> Labels] /\ loc' \in [Tabs -> Locals] BY <2>3, <2>4, <2>5, GotoType
  <2> QED BY <1>5, <2>6 DEF RefreshFind, TypeOK, jarVars
<1>6. CASE RefreshExpire(w)
  BY <1>0, <1>6, IdleLocals, GotoType DEF RefreshExpire, Answer, TypeOK, jarVars
<1>7. CASE RefreshDelete(w)
  <2>1. CASE Generate(w, "refresh_create", loc[w])
    <3>1. rows' \in [Tokens -> Row \cup {NoRow}] BY <1>7 DEF RefreshDelete, TypeOK
    <3> QED BY <1>0, <1>7, <2>1, <3>1, GenerateType DEF RefreshDelete, TypeOK, jarVars
  <2>2. CASE Answer(w) /\ UNCHANGED <<rows, issued>>
    BY <1>7, <2>2, IdleLocals, GotoType DEF RefreshDelete, Answer, TypeOK, jarVars
  <2> QED BY <1>7, <2>1, <2>2 DEF RefreshDelete
<1>8. CASE RefreshCreate(w)
  <2>1. loc[w].row \in Row BY <1>8 DEF RefreshCreate, HasLocals
  <2> QED BY <1>0, <1>8, <2>1, GotoType DEF RefreshCreate, TypeOK, jarVars
<1>9. CASE LogoutSend(w)
  <2>1. Sent \in Tokens \cup {Null} BY DEF Sent, TypeOK
  <2>2. [Idle EXCEPT !.token = Sent, !.since = now] \in Locals BY <1>0, <2>1, IdleLocals DEF Locals
  <2> QED BY <1>9, <2>2, GotoType DEF LogoutSend, TypeOK, jarVars
<1>10. CASE LogoutDelete(w)
  BY <1>0, <1>10, GotoType DEF LogoutDelete, TypeOK, jarVars
<1>11. CASE BecomeSend(w)
  <2>1. [Idle EXCEPT !.since = now] \in Locals BY <1>0, IdleLocals DEF Locals
  <2> QED BY <1>11, <2>1, GotoType DEF BecomeSend, TypeOK, jarVars
<1>12. CASE BecomeUpdate(w)
  <2>1. [loc[w] EXCEPT !.jwt = now + Jwt] \in Locals
    BY <1>0, SessionAssumption DEF Locals
  <2> QED BY <1>12, <2>1, GotoType DEF BecomeUpdate, TypeOK, jarVars
<1>13. CASE ReplySet(w)
  <2>1. access' \in [jwt : Nat, until : Nat]
    BY <1>0, <1>13, SessionAssumption DEF ReplySet, Locals
  <2>2. cookie' \in [token : Tokens \cup {Null}, until : Nat]
    BY <1>0, <1>13, SessionAssumption DEF ReplySet, Locals
  <2> QED BY <1>13, <2>1, <2>2, IdleLocals, GotoType DEF ReplySet, Answer, TypeOK
<1>14. CASE ReplyClear(w)
  BY <1>14, IdleLocals, GotoType DEF ReplyClear, Answer, TypeOK, NoAccess, NoCookie
<1>15. CASE ReplyAccess(w)
  <2>1. access' \in [jwt : Nat, until : Nat]
    BY <1>0, <1>15, SessionAssumption DEF ReplyAccess, Locals
  <2> QED BY <1>15, <2>1, IdleLocals, GotoType DEF ReplyAccess, Answer, TypeOK
<1>16. CASE Fault(w)
  BY <1>16, IdleLocals, GotoType DEF Fault, Answer, TypeOK, jarVars
<1> QED BY <1>1, <1>2, <1>3, <1>4, <1>5, <1>6, <1>7, <1>8, <1>9, <1>10, <1>11, <1>12,
          <1>13, <1>14, <1>15, <1>16 DEF Step

LEMMA TickType == ASSUME TypeOK, Tick PROVE TypeOK'
BY DEF TypeOK, Tick, jarVars

(***************************************************************************)
(* The relations between tokens, rows and requests                         *)
(***************************************************************************)

LEMMA RelatedInit == Init => Related
BY SessionAssumption, IdleLocals
   DEF Init, Related, HasLocals, Holding, Known, Fresh, Creating, FreshLogin, ReadHolds,
       OneHeir, Rotating, Live, NoCookie

\* A login generates a token that nobody knows.
LEMMA LoginSendRelated ==
  ASSUME TypeOK, Related, TypeOK', NEW w \in Tabs, LoginSend(w)
  PROVE  Related'
<1> DEFINE Signed(t) == [[Idle EXCEPT !.since = now] EXCEPT !.token = t, !.jwt = now + Jwt,
                            !.row = [[Idle EXCEPT !.since = now].row EXCEPT !.expires = now + Life]]
<1>1. PICK t \in Tokens \ issued :
        issued' = issued \cup {t} /\ Goto(w, "login_create", Signed(t))
  BY GenerateEffect DEF LoginSend
<1>2. Signed(t).token = t /\ Signed(t).row.session = Null BY DEF Idle, NoRow
<1> HIDE DEF Signed
<1>3. /\ pc'[w] = "login_create" /\ loc'[w] = Signed(t)
      /\ \A v \in Tabs : v # w => pc'[v] = pc[v] /\ loc'[v] = loc[v]
  BY <1>1, GotoEffect
<1>4. rows' = rows /\ cookie' = cookie BY DEF LoginSend, jarVars
<1>5. Live' = Live BY <1>4 DEF Live
<1>6. t # Null /\ t # cookie.token BY SessionAssumption DEF Related, Known
<1>7. \A v \in Tabs : loc[v].token # t /\ loc[v].row.session # t
  BY SessionAssumption DEF Related, Known
<1>8. t \notin Live /\ \A u \in Live : rows[u].session # t BY DEF Related, Known
<1>9. HasLocals' BY <1>1, <1>2, <1>3 DEF Related, HasLocals, Holding
<1>10. Known' BY <1>1, <1>2, <1>3, <1>4, <1>5 DEF Related, Known
<1>11. Fresh'
  <2>1. Creating' = Creating \cup {w} BY <1>3 DEF Creating
  <2> QED BY <1>2, <1>3, <1>4, <1>5, <1>6, <1>7, <1>8, <2>1 DEF Related, Fresh, Creating
<1>12. FreshLogin'
  <2> SUFFICES ASSUME NEW v \in Tabs, pc'[v] = "login_create"
               PROVE  /\ \A u \in Live' : rows'[u].session # loc'[v].token
                      /\ \A u \in Tabs : loc'[u].row.session # loc'[v].token
    BY DEF FreshLogin
  <2>1. CASE v = w BY <1>2, <1>3, <1>4, <1>5, <1>6, <1>7, <1>8, <2>1
  <2>2. CASE v # w
    <3>1. pc[v] = "login_create" /\ loc'[v] = loc[v] BY <1>3, <2>2
    <3>2. loc[v].token # Null BY <3>1, SessionAssumption DEF Related, HasLocals, Holding
    <3> QED BY <1>2, <1>3, <1>4, <1>5, <3>1, <3>2 DEF Related, FreshLogin
  <2> QED BY <2>1, <2>2
<1>13. ReadHolds' BY <1>3, <1>4, <1>5 DEF Related, ReadHolds
<1>14. OneHeir'
  <2>1. Rotating' \subseteq Rotating /\ w \notin Rotating' BY <1>3 DEF Rotating
  <2> QED BY <1>3, <1>4, <1>5, <2>1 DEF Related, OneHeir, Rotating
<1> QED BY <1>9, <1>10, <1>11, <1>12, <1>13, <1>14 DEF Related

\* A row is created by the one request that knows its token: as the first of a
\* session that no row has, or as the heir of the session being rotated.
LEMMA CreateRelated ==
  ASSUME TypeOK, Related, TypeOK', NEW w \in Creating, NEW row \in Row,
         rows' = [rows EXCEPT ![loc[w].token] = row],
         Goto(w, "reply_set", loc[w]), issued' = issued, cookie' = cookie,
         row.session = IF pc[w] = "login_create" THEN loc[w].token ELSE loc[w].row.session
  PROVE  Related'
<1> DEFINE t == loc[w].token
<1>0. w \in Tabs BY DEF Creating
<1>1. /\ pc'[w] = "reply_set" /\ loc' = loc
      /\ \A v \in Tabs : v # w => pc'[v] = pc[v]
  BY <1>0 DEF TypeOK, Goto
<1>2. t \in Tokens /\ t \in issued
  BY <1>0, SessionAssumption DEF Related, HasLocals, Holding, Known, Creating
<1>3. t \notin Live /\ t # cookie.token /\ \A v \in Tabs : v # w => loc[v].token # t
  BY DEF Related, Fresh
<1>4. /\ Live' = Live \cup {t} /\ rows'[t] = row
      /\ \A u \in Live : u # t /\ rows'[u] = rows[u]
  BY <1>2, <1>3, NoRowIsNoRow DEF Live, TypeOK
<1>5. row.session \in Tokens /\ row.session \in issued
  BY <1>0, <1>2, SessionAssumption DEF Row, Related, Known
<1>6. /\ \A u \in Live : rows[u].session # row.session
      /\ \A v \in Rotating : v # w => loc[v].row.session # row.session
  <2>1. CASE pc[w] = "login_create" BY <1>0, <2>1 DEF Related, FreshLogin, Rotating
  <2>2. CASE pc[w] # "login_create"
    <3>1. w \in Rotating BY <2>2 DEF Creating, Rotating
    <3> QED BY <2>2, <3>1 DEF Related, OneHeir
  <2> QED BY <2>1, <2>2
<1> HIDE DEF t
<1>7. HasLocals' BY <1>0, <1>1, <1>2 DEF t, Related, HasLocals, Holding
<1>8. Known' BY <1>1, <1>2, <1>4, <1>5 DEF Related, Known
<1>9. Fresh'
  <2> SUFFICES ASSUME NEW v \in Creating'
               PROVE  /\ loc'[v].token \notin Live' /\ loc'[v].token # cookie'.token
                      /\ \A u \in Tabs : u # v => loc'[u].token # loc'[v].token
    BY DEF Fresh
  <2>1. v \in Tabs /\ v # w /\ v \in Creating BY <1>1 DEF Creating
  <2> QED BY <1>1, <1>3, <1>4, <2>1 DEF Related, Fresh
<1>10. FreshLogin'
  <2> SUFFICES ASSUME NEW v \in Tabs, pc'[v] = "login_create"
               PROVE  /\ \A u \in Live' : rows'[u].session # loc'[v].token
                      /\ \A u \in Tabs : loc'[u].row.session # loc'[v].token
    BY DEF FreshLogin
  <2>1. v # w /\ pc[v] = "login_create" BY <1>1
  <2>2. row.session # loc[v].token
    <3>1. t # loc[v].token BY <1>3, <2>1
    <3>2. loc[w].row.session # loc[v].token BY <1>0, <2>1 DEF Related, FreshLogin
    <3> QED BY <3>1, <3>2 DEF t
  <2> QED BY <1>1, <1>4, <2>1, <2>2 DEF Related, FreshLogin
<1>11. ReadHolds'
  <2> SUFFICES ASSUME NEW v \in Tabs, pc'[v] = "refresh_delete", loc'[v].token \in Live'
               PROVE  loc'[v].row = rows'[loc'[v].token]
    BY DEF ReadHolds
  <2>1. v # w /\ pc[v] = "refresh_delete" BY <1>1
  <2>2. loc[v].token \in Live BY <1>1, <1>3, <1>4, <2>1
  <2> QED BY <1>1, <1>4, <2>1, <2>2 DEF Related, ReadHolds
<1>12. OneHeir'
  <2>1. Rotating' \subseteq Rotating /\ w \notin Rotating' BY <1>1 DEF Rotating
  <2>2. \A u, v \in Live' : rows'[u].session = rows'[v].session => u = v
    BY <1>4, <1>6 DEF Related, OneHeir
  <2>3. \A u \in Live', v \in Rotating' : rows'[u].session # loc'[v].row.session
    BY <1>1, <1>4, <1>6, <2>1 DEF Related, OneHeir
  <2>4. \A u, v \in Rotating' : loc'[u].row.session = loc'[v].row.session => u = v
    BY <1>1, <2>1 DEF Related, OneHeir
  <2> QED BY <2>2, <2>3, <2>4 DEF OneHeir
<1> QED BY <1>7, <1>8, <1>9, <1>10, <1>11, <1>12 DEF Related

\* The row that a refresh has deleted was the only heir of its session, and the
\* request that deleted it is now the only one to create another.
LEMMA RotateRelated ==
  ASSUME TypeOK, Related, TypeOK', NEW w \in Tabs, pc[w] = "refresh_delete",
         loc[w].token \in Live, rows' = [rows EXCEPT ![loc[w].token] = NoRow],
         Generate(w, "refresh_create", loc[w]), cookie' = cookie
  PROVE  Related'
<1> DEFINE old == loc[w].token
           Signed(t) == [loc[w] EXCEPT !.token = t, !.jwt = now + Jwt,
                                       !.row = [loc[w].row EXCEPT !.expires = now + Life]]
<1>1. PICK t \in Tokens \ issued :
        issued' = issued \cup {t} /\ Goto(w, "refresh_create", Signed(t))
  BY GenerateEffect
<1>2. loc[w] \in Locals /\ loc[w].row \in Row /\ now + Life \in Nat
  BY SessionAssumption DEF TypeOK, Related, HasLocals
<1>3. /\ Signed(t).token = t /\ Signed(t).row \in Row
      /\ Signed(t).row.session = loc[w].row.session
  BY <1>2 DEF Locals, Row
<1> HIDE DEF Signed
<1>4. /\ pc'[w] = "refresh_create" /\ loc'[w] = Signed(t)
      /\ \A v \in Tabs : v # w => pc'[v] = pc[v] /\ loc'[v] = loc[v]
  BY <1>1, GotoEffect
<1>5. old \in Tokens /\ rows[old] = loc[w].row BY LiveRow DEF Related, ReadHolds
<1>6. Live' = Live \ {old} /\ \A u \in Live' : rows'[u] = rows[u]
  BY <1>5 DEF Live, TypeOK
<1>7. t # Null /\ t # cookie.token BY SessionAssumption DEF Related, Known
<1>8. \A v \in Tabs : loc[v].token # t /\ loc[v].row.session # t
  BY SessionAssumption DEF Related, Known
<1>9. t \notin Live /\ \A u \in Live : rows[u].session # t BY DEF Related, Known
<1>10. /\ \A u \in Live' : rows'[u].session # loc[w].row.session
       /\ \A v \in Rotating : loc[v].row.session # loc[w].row.session
  BY <1>5, <1>6 DEF Related, OneHeir
<1> HIDE DEF old
<1>11. HasLocals' BY <1>1, <1>3, <1>4 DEF Related, HasLocals, Holding
<1>12. Known' BY <1>1, <1>3, <1>4, <1>6 DEF Related, Known
<1>13. Fresh'
  <2>1. Creating' = Creating \cup {w} BY <1>4 DEF Creating
  <2> QED BY <1>3, <1>4, <1>6, <1>7, <1>8, <1>9, <2>1 DEF Related, Fresh, Creating
<1>14. FreshLogin'
  <2> SUFFICES ASSUME NEW v \in Tabs, pc'[v] = "login_create"
               PROVE  /\ \A u \in Live' : rows'[u].session # loc'[v].token
                      /\ \A u \in Tabs : loc'[u].row.session # loc'[v].token
    BY DEF FreshLogin
  <2>1. v # w /\ pc[v] = "login_create" /\ loc'[v] = loc[v] BY <1>4
  <2> QED BY <1>3, <1>4, <1>6, <2>1 DEF Related, FreshLogin
<1>15. ReadHolds' BY <1>4, <1>6 DEF Related, ReadHolds
<1>16. OneHeir'
  <2>1. Rotating' = Rotating \cup {w} /\ w \notin Rotating BY <1>4 DEF Rotating
  <2>2. \A u, v \in Live' : rows'[u].session = rows'[v].session => u = v
    BY <1>6 DEF Related, OneHeir
  <2>3. \A v \in Rotating : v # w /\ loc'[v] = loc[v] BY <1>4, <2>1 DEF Rotating
  <2>4. loc'[w].row.session = loc[w].row.session BY <1>3, <1>4
  <2>5. \A u \in Live', v \in Rotating' : rows'[u].session # loc'[v].row.session
    BY <1>6, <1>10, <2>1, <2>3, <2>4 DEF Related, OneHeir
  <2>6. \A u, v \in Rotating' : loc'[u].row.session = loc'[v].row.session => u = v
    BY <1>10, <2>1, <2>3, <2>4 DEF Related, OneHeir
  <2> QED BY <2>2, <2>5, <2>6 DEF OneHeir
<1> QED BY <1>11, <1>12, <1>13, <1>14, <1>15, <1>16 DEF Related

LEMMA StepRelated ==
  ASSUME TypeOK, Related, TypeOK', NEW w \in Tabs, Step(w) \/ Fault(w)
  PROVE  Related'
<1> USE DEF Labels, Handling
<1>0. /\ loc[w] \in Locals
      /\ Sent \in {cookie.token, Null}
  BY DEF TypeOK, Sent
<1>1. CASE LoginSend(w) BY <1>1, LoginSendRelated
<1>2. CASE LoginCreate(w)
  <2> DEFINE row == [loc[w].row EXCEPT !.session = loc[w].token, !.login = now, !.start = now]
  <2>1. w \in Creating /\ loc[w].token \in Tokens
    BY <1>2 DEF LoginCreate, Creating, Related, HasLocals, Holding
  <2>2. row \in Row /\ row.session = loc[w].token BY <1>0, <2>1 DEF Locals, Row, TypeOK
  <2>3. /\ pc[w] = "login_create" /\ rows' = [rows EXCEPT ![loc[w].token] = row]
        /\ Goto(w, "reply_set", loc[w]) /\ issued' = issued /\ cookie' = cookie
    BY <1>2 DEF LoginCreate, jarVars
  <2> HIDE DEF row
  <2> QED BY <2>1, <2>2, <2>3, CreateRelated
<1>3. CASE MeCaught(w)
  <2> DEFINE l == [Idle EXCEPT !.since = now]
  <2>1. l.token = Null /\ l.row.session = Null BY DEF Idle, NoRow
  <2> HIDE DEF l
  <2>2. PICK label \in {"reply_clear", "needs_refresh"} : Goto(w, label, l)
    BY <1>3 DEF MeCaught, l
  <2>3. issued' = issued /\ rows' = rows /\ cookie' = cookie BY <1>3 DEF MeCaught, jarVars
  <2> QED BY <2>1, <2>2, <2>3, Quiet
<1>4. CASE RefreshSend(w)
  <2>1. issued' = issued /\ rows' = rows /\ cookie' = cookie BY <1>4 DEF RefreshSend, jarVars
  <2>2. CASE Sent = Null
    <3>1. Goto(w, "idle", Idle) BY <1>4, <2>2 DEF RefreshSend, Answer
    <3> QED BY <2>1, <3>1, IdleLocals, Quiet
  <2>3. CASE Sent # Null
    <3> DEFINE l == [loc[w] EXCEPT !.token = Sent]
    <3>1. l.token = Sent /\ l.row = loc[w].row BY <1>0 DEF Locals
    <3>2. Goto(w, "refresh_find", l) BY <1>4, <2>3 DEF RefreshSend
    <3>3. Sent \in Tokens BY <1>0, <2>3 DEF TypeOK
    <3> HIDE DEF l
    <3> QED BY <1>0, <2>1, <3>1, <3>2, <3>3, Quiet
  <2> QED BY <2>2, <2>3
<1>5. CASE RefreshFind(w)
  <2> DEFINE t == loc[w].token
             l == [loc[w] EXCEPT !.row = rows[loc[w].token]]
  <2>1. t \in Tokens BY <1>5 DEF RefreshFind, Related, HasLocals, Holding
  <2>2. l.token = t /\ l.row = rows[t] BY <1>0 DEF Locals
  <2>3. issued' = issued /\ rows' = rows /\ cookie' = cookie BY <1>5 DEF RefreshFind, jarVars
  <2>4. rows[t].session \in {rows[u].session : u \in Live} \cup {Null}
    BY <2>1 DEF Live, NoRow
  <2>5. CASE t \in Live
    <3>1. PICK label \in {"reply_clear", "refresh_expire", "refresh_delete"} : Goto(w, label, l)
      BY <1>5 DEF RefreshFind
    <3>2. rows[t] \in Row BY <2>5, LiveRow
    <3> HIDE DEF l, t
    <3> QED BY <2>1, <2>2, <2>3, <2>4, <3>1, <3>2, Quiet DEF t
  <2>6. CASE t \notin Live
    <3>1. rows[t] = NoRow BY <2>1, <2>6 DEF Live
    <3>2. Goto(w, "reply_clear", l) BY <1>5, <3>1 DEF RefreshFind
    <3> HIDE DEF l, t
    <3> QED BY <2>1, <2>2, <2>3, <2>4, <3>2, Quiet DEF t
  <2> QED BY <2>5, <2>6
<1>6. CASE RefreshExpire(w)
  <2>1. issued' = issued /\ cookie' = cookie BY <1>6 DEF RefreshExpire, jarVars
  <2>2. \A t \in Tokens : rows'[t] \in {rows[t], NoRow} BY <1>6 DEF RefreshExpire, TypeOK
  <2>3. PICK label \in {"reply_clear", "idle"}, l \in {loc[w], Idle} : Goto(w, label, l)
    BY <1>6 DEF RefreshExpire, Answer
  <2> QED BY <2>1, <2>2, <2>3, IdleLocals, Quiet
<1>7. CASE RefreshDelete(w)
  <2>1. CASE loc[w].token \in Live
    BY <1>7, <2>1, RotateRelated DEF RefreshDelete, jarVars
  <2>2. CASE loc[w].token \notin Live
    <3>1. /\ Goto(w, "idle", Idle) /\ issued' = issued /\ rows' = rows /\ cookie' = cookie
      BY <1>7, <2>2 DEF RefreshDelete, Answer, jarVars
    <3> QED BY <3>1, IdleLocals, Quiet
  <2> QED BY <2>1, <2>2
<1>8. CASE RefreshCreate(w)
  <2>1. w \in Creating /\ loc[w].row \in Row /\ pc[w] # "login_create"
    BY <1>8 DEF RefreshCreate, Creating, Related, HasLocals
  <2> QED BY <1>8, <2>1, CreateRelated DEF RefreshCreate, jarVars
<1>9. CASE LogoutSend(w)
  <2> DEFINE l == [Idle EXCEPT !.token = Sent, !.since = now]
  <2>1. l.token = Sent /\ l.row.session = Null BY DEF Idle, NoRow
  <2> HIDE DEF l
  <2>2. issued' = issued /\ rows' = rows /\ cookie' = cookie BY <1>9 DEF LogoutSend, jarVars
  <2>3. CASE Sent = Null
    <3>1. Goto(w, "reply_clear", l) BY <1>9, <2>3 DEF LogoutSend, l
    <3> QED BY <1>0, <2>1, <2>2, <3>1, Quiet
  <2>4. CASE Sent # Null
    <3>1. Goto(w, "logout_delete", l) BY <1>9, <2>4 DEF LogoutSend, l
    <3>2. Sent \in Tokens BY <1>0, <2>4 DEF TypeOK
    <3> QED BY <1>0, <2>1, <2>2, <3>1, <3>2, Quiet
  <2> QED BY <2>3, <2>4
<1>10. CASE LogoutDelete(w)
  <2>1. \A t \in Tokens : rows'[t] \in {rows[t], NoRow} BY <1>10 DEF LogoutDelete, TypeOK
  <2>2. Goto(w, "reply_clear", loc[w]) /\ issued' = issued /\ cookie' = cookie
    BY <1>10 DEF LogoutDelete, jarVars
  <2> QED BY <2>1, <2>2, Quiet
<1>11. CASE BecomeSend(w)
  <2> DEFINE l == [Idle EXCEPT !.since = now]
  <2>1. l.token = Null /\ l.row.session = Null BY DEF Idle, NoRow
  <2> HIDE DEF l
  <2>2. /\ Goto(w, "become_update", l) /\ issued' = issued /\ rows' = rows
        /\ cookie' = cookie
    BY <1>11 DEF BecomeSend, jarVars, l
  <2> QED BY <2>1, <2>2, Quiet
<1>12. CASE BecomeUpdate(w)
  <2> DEFINE l == [loc[w] EXCEPT !.jwt = now + Jwt]
  <2>1. l.token = loc[w].token /\ l.row = loc[w].row BY <1>0 DEF Locals
  <2> HIDE DEF l
  <2>2. /\ Goto(w, "reply_access", l) /\ issued' = issued /\ rows' = rows
        /\ cookie' = cookie
    BY <1>12 DEF BecomeUpdate, jarVars, l
  <2> QED BY <2>1, <2>2, Quiet
<1>13. CASE ReplySet(w) \/ ReplyClear(w) \/ ReplyAccess(w) \/ Fault(w)
  <2>1. Goto(w, "idle", Idle) /\ issued' = issued /\ rows' = rows
    BY <1>13 DEF ReplySet, ReplyClear, ReplyAccess, Fault, Answer
  <2>2. cookie'.token \in {cookie.token, loc[w].token, Null}
    BY <1>13 DEF ReplySet, ReplyClear, ReplyAccess, Fault, NoCookie, jarVars
  <2> QED BY <2>1, <2>2, IdleLocals, Quiet
<1> QED BY <1>1, <1>2, <1>3, <1>4, <1>5, <1>6, <1>7, <1>8, <1>9, <1>10, <1>11, <1>12, <1>13 DEF Step

LEMMA Unchanged == ASSUME IInv, UNCHANGED <<rows, issued, cookie, pc, loc>> PROVE Related'
BY DEF IInv, Related, HasLocals, Holding, Known, Fresh, Creating, FreshLogin, ReadHolds,
       OneHeir, Rotating, Live

LEMMA InvNext == IInv /\ [Next]_vars => IInv'
<1> SUFFICES ASSUME IInv, [Next]_vars PROVE IInv'
  OBVIOUS
<1>1. CASE Tick BY <1>1, TickType, Unchanged DEF Tick, IInv, jarVars
<1>2. ASSUME NEW w \in Tabs, Step(w) \/ Fault(w) PROVE IInv'
  <2>1. TypeOK' BY <1>2, StepType DEF IInv, Related
  <2> QED BY <1>2, <2>1, StepRelated DEF IInv
<1>3. CASE UNCHANGED vars
  <2>1. TypeOK' BY <1>3 DEF IInv, TypeOK, vars, jarVars
  <2> QED BY <1>3, <2>1, Unchanged DEF IInv, vars, jarVars
<1> QED BY <1>1, <1>2, <1>3 DEF Next

(***************************************************************************)
(* Time                                                                    *)
(***************************************************************************)

\* What a request has read or is about to write is recent: it takes a tick at
\* most, and a rotation began before the absolute timeout.
Timed ==
  /\ \A w \in Tabs : pc[w] # "idle" => loc[w].since <= now /\ now <= loc[w].since + 1
  /\ \A t \in Live : /\ rows[t].start = rows[t].login
                      /\ rows[t].expires <= rows[t].login + Absolute + Life + 1
  /\ \A w \in Tabs : pc[w] = "login_create" => loc[w].row.expires <= loc[w].since + Life
  /\ \A w \in Tabs : pc[w] = "refresh_delete" =>
        loc[w].row.start = loc[w].row.login /\ loc[w].since <= loc[w].row.login + Absolute
  /\ \A w \in Tabs : pc[w] = "refresh_create" =>
        /\ loc[w].row.start = loc[w].row.login
        /\ loc[w].row.expires <= loc[w].row.login + Absolute + Life + 1

LEMMA TimedInit == Init => Timed
BY DEF Init, Timed, Live

\* A step that creates no row and after which the request is not at a label
\* that Timed speaks of.
LEMMA TimedQuiet ==
  ASSUME TypeOK, Timed, NEW w \in Tabs, NEW l,
         NEW label \in Labels \ {"login_create", "refresh_delete", "refresh_create"},
         Goto(w, label, l), now' = now,
         \A t \in Tokens : rows'[t] \in {rows[t], NoRow},
         label # "idle" => l.since <= now /\ now <= l.since + 1
  PROVE  Timed'
<1>1. /\ pc'[w] = label /\ loc'[w] = l
      /\ \A v \in Tabs : v # w => pc'[v] = pc[v] /\ loc'[v] = loc[v]
  BY GotoEffect
<1>2. Live' \subseteq Live /\ \A t \in Live' : rows'[t] = rows[t] BY DEF Live
<1>3. \A v \in Tabs : pc'[v] # "idle" => loc'[v].since <= now' /\ now' <= loc'[v].since + 1
  BY <1>1 DEF Timed
<1>4. \A t \in Live' : /\ rows'[t].start = rows'[t].login
                       /\ rows'[t].expires <= rows'[t].login + Absolute + Life + 1
  BY <1>2 DEF Timed
<1> QED BY <1>1, <1>3, <1>4 DEF Timed

LEMMA TimedStep ==
  ASSUME IInv, Timed, NEW w \in Tabs, Step(w) \/ Fault(w)
  PROVE  Timed'
<1> USE DEF Labels, Handling
<1>0. /\ TypeOK /\ loc[w] \in Locals /\ now \in Nat
      /\ pc[w] # "idle" => loc[w].since <= now /\ now <= loc[w].since + 1
  BY DEF IInv, TypeOK, Timed
<1>1. CASE LoginSend(w)
  <2> DEFINE Signed(t) == [[Idle EXCEPT !.since = now] EXCEPT !.token = t, !.jwt = now + Jwt,
                              !.row = [[Idle EXCEPT !.since = now].row EXCEPT !.expires = now + Life]]
  <2>1. PICK t \in Tokens \ issued : Goto(w, "login_create", Signed(t))
    BY <1>0, <1>1, GenerateEffect DEF LoginSend
  <2>2. Signed(t).since = now /\ Signed(t).row.expires = now + Life BY DEF Idle, NoRow
  <2> HIDE DEF Signed
  <2>3. /\ pc'[w] = "login_create" /\ loc'[w] = Signed(t)
        /\ \A v \in Tabs : v # w => pc'[v] = pc[v] /\ loc'[v] = loc[v]
    BY <1>0, <2>1, GotoEffect
  <2>4. now' = now /\ rows' = rows /\ Live' = Live BY <1>1 DEF LoginSend, Live
  <2>5. /\ loc'[w].since <= now' /\ now' <= loc'[w].since + 1
        /\ loc'[w].row.expires <= loc'[w].since + Life
    BY <1>0, <2>2, <2>3, <2>4, SessionAssumption
  <2> QED BY <2>3, <2>4, <2>5 DEF Timed
<1>2. CASE LoginCreate(w)
  <2> DEFINE t == loc[w].token
             row == [loc[w].row EXCEPT !.session = t, !.login = now, !.start = now]
  <2>1. t \in Tokens BY <1>2 DEF LoginCreate, IInv, Related, HasLocals, Holding
  <2>2. /\ row.start = now /\ row.login = now /\ row.expires = loc[w].row.expires
        /\ loc[w].row.expires \in Nat /\ loc[w].since \in Nat
    BY <1>0 DEF Locals
  <2>3. loc[w].row.expires <= loc[w].since + Life /\ loc[w].since <= now
    BY <1>0, <1>2 DEF LoginCreate, Timed
  <2>4. row.expires <= row.login + Absolute + Life + 1
    BY <1>0, <2>2, <2>3, SessionAssumption
  <2>5. rows' = [rows EXCEPT ![t] = row] /\ now' = now BY <1>2 DEF LoginCreate
  <2>6. /\ pc'[w] = "reply_set" /\ loc' = loc
        /\ \A v \in Tabs : v # w => pc'[v] = pc[v]
    BY <1>2 DEF LoginCreate, IInv, TypeOK, Goto
  <2> HIDE DEF row, t
  <2>7. rows'[t] = row /\ \A u \in Live' : u = t \/ (u \in Live /\ rows'[u] = rows[u])
    BY <1>0, <2>1, <2>5 DEF TypeOK, Live
  <2>8. \A u \in Live' : /\ rows'[u].start = rows'[u].login
                         /\ rows'[u].expires <= rows'[u].login + Absolute + Life + 1
    BY <2>2, <2>4, <2>7 DEF Timed
  <2>9. \A v \in Tabs : pc'[v] # "idle" => loc'[v].since <= now' /\ now' <= loc'[v].since + 1
    BY <1>0, <1>2, <2>5, <2>6 DEF LoginCreate, Timed
  <2> QED BY <2>6, <2>8, <2>9 DEF Timed
<1>3. CASE RefreshFind(w)
  <2> DEFINE t == loc[w].token
             l == [loc[w] EXCEPT !.row = rows[loc[w].token]]
  <2>1. t \in Tokens BY <1>3 DEF RefreshFind, IInv, Related, HasLocals, Holding
  <2>2. l.since = loc[w].since /\ l.row = rows[t] BY <1>0 DEF Locals
  <2>3. /\ now' = now /\ rows' = rows /\ Live' = Live
        /\ loc[w].since <= now /\ now <= loc[w].since + 1
    BY <1>0, <1>3 DEF RefreshFind, Live
  <2>4. CASE rows[t] # NoRow /\ ~(now - rows[t].start > Absolute)
              /\ Goto(w, "refresh_delete", l)
    <3> HIDE DEF l, t
    <3>1. /\ pc'[w] = "refresh_delete" /\ loc'[w] = l
          /\ \A v \in Tabs : v # w => pc'[v] = pc[v] /\ loc'[v] = loc[v]
      BY <1>0, <2>4, GotoEffect
    <3>2. t \in Live BY <2>1, <2>4 DEF Live
    <3>3. rows[t] \in Row /\ rows[t].start = rows[t].login
      BY <1>0, <3>2, LiveRow DEF Timed
    <3>4. rows[t].login \in Nat /\ rows[t].start \in Nat /\ loc[w].since \in Nat
      BY <1>0, <3>3 DEF Row, Locals
    <3>5. loc[w].since <= rows[t].login + Absolute
      BY <1>0, <2>3, <2>4, <3>3, <3>4, SessionAssumption
    <3>6. /\ loc'[w].row.start = loc'[w].row.login
          /\ loc'[w].since <= loc'[w].row.login + Absolute
          /\ loc'[w].since <= now' /\ now' <= loc'[w].since + 1
      BY <2>2, <2>3, <3>1, <3>3, <3>5
    <3> QED BY <2>3, <3>1, <3>6 DEF Timed
  <2>5. CASE \E label \in {"reply_clear", "refresh_expire"} : Goto(w, label, l)
    <3>1. PICK label \in {"reply_clear", "refresh_expire"} : Goto(w, label, l) BY <2>5
    <3> HIDE DEF l, t
    <3> QED BY <1>0, <2>2, <2>3, <3>1, TimedQuiet
  <2> QED BY <1>3, <2>4, <2>5 DEF RefreshFind
<1>4. CASE RefreshDelete(w)
  <2>0. /\ pc[w] = "refresh_delete" /\ now' = now
        /\ \A t \in Tokens : rows'[t] \in {rows[t], NoRow}
    BY <1>0, <1>4 DEF RefreshDelete, TypeOK
  <2>1. CASE Generate(w, "refresh_create", loc[w])
    <3> DEFINE Signed(t) == [loc[w] EXCEPT !.token = t, !.jwt = now + Jwt,
                                           !.row = [loc[w].row EXCEPT !.expires = now + Life]]
    <3>1. PICK t \in Tokens \ issued : Goto(w, "refresh_create", Signed(t))
      BY <1>0, <2>1, GenerateEffect
    <3>2. /\ Signed(t).since = loc[w].since /\ Signed(t).row.start = loc[w].row.start
          /\ Signed(t).row.login = loc[w].row.login /\ Signed(t).row.expires = now + Life
      BY <1>0 DEF Locals
    <3> HIDE DEF Signed
    <3>3. /\ pc'[w] = "refresh_create" /\ loc'[w] = Signed(t)
          /\ \A v \in Tabs : v # w => pc'[v] = pc[v] /\ loc'[v] = loc[v]
      BY <1>0, <3>1, GotoEffect
    <3>4. /\ loc[w].row.start = loc[w].row.login /\ loc[w].since <= loc[w].row.login + Absolute
          /\ loc[w].since <= now /\ now <= loc[w].since + 1
      BY <1>0, <2>0 DEF Timed
    <3>5. loc[w].since \in Nat /\ loc[w].row.login \in Nat BY <1>0 DEF Locals
    <3>6. now + Life <= loc[w].row.login + Absolute + Life + 1
      BY <1>0, <3>4, <3>5, SessionAssumption
    <3>7. /\ loc'[w].row.start = loc'[w].row.login
          /\ loc'[w].row.expires <= loc'[w].row.login + Absolute + Life + 1
          /\ loc'[w].since <= now' /\ now' <= loc'[w].since + 1
      BY <2>0, <3>2, <3>3, <3>4, <3>6
    <3>8. Live' \subseteq Live /\ \A u \in Live' : rows'[u] = rows[u] BY <2>0 DEF Live
    <3>9. \A u \in Live' : /\ rows'[u].start = rows'[u].login
                           /\ rows'[u].expires <= rows'[u].login + Absolute + Life + 1
      BY <3>8 DEF Timed
    <3>10. \A v \in Tabs : pc'[v] # "idle" => loc'[v].since <= now' /\ now' <= loc'[v].since + 1
      BY <2>0, <3>3, <3>7 DEF Timed
    <3> QED BY <3>3, <3>7, <3>9, <3>10 DEF Timed
  <2>2. CASE Answer(w)
    BY <1>0, <2>0, <2>2, TimedQuiet DEF Answer
  <2> QED BY <1>4, <2>1, <2>2 DEF RefreshDelete
<1>5. CASE RefreshCreate(w)
  <2> DEFINE t == loc[w].token
  <2>1. t \in Tokens BY <1>5 DEF RefreshCreate, IInv, Related, HasLocals, Holding
  <2>2. /\ loc[w].row.start = loc[w].row.login
        /\ loc[w].row.expires <= loc[w].row.login + Absolute + Life + 1
    BY <1>5 DEF RefreshCreate, Timed
  <2>3. rows' = [rows EXCEPT ![t] = loc[w].row] /\ now' = now BY <1>5 DEF RefreshCreate
  <2>4. /\ pc'[w] = "reply_set" /\ loc' = loc
        /\ \A v \in Tabs : v # w => pc'[v] = pc[v]
    BY <1>5 DEF RefreshCreate, IInv, TypeOK, Goto
  <2> HIDE DEF t
  <2>5. rows'[t] = loc[w].row /\ \A u \in Live' : u = t \/ (u \in Live /\ rows'[u] = rows[u])
    BY <1>0, <2>1, <2>3 DEF TypeOK, Live
  <2>6. \A u \in Live' : /\ rows'[u].start = rows'[u].login
                         /\ rows'[u].expires <= rows'[u].login + Absolute + Life + 1
    BY <2>2, <2>5 DEF Timed
  <2>7. \A v \in Tabs : pc'[v] # "idle" => loc'[v].since <= now' /\ now' <= loc'[v].since + 1
    BY <1>0, <1>5, <2>3, <2>4 DEF RefreshCreate, Timed
  <2> QED BY <2>4, <2>6, <2>7 DEF Timed
<1>6. CASE LogoutDelete(w) \/ RefreshExpire(w)
  <2>1. now' = now /\ \A t \in Tokens : rows'[t] \in {rows[t], NoRow}
    BY <1>0, <1>6 DEF LogoutDelete, RefreshExpire, TypeOK
  <2>2. Goto(w, "reply_clear", loc[w]) \/ Goto(w, "idle", Idle)
    BY <1>6 DEF LogoutDelete, RefreshExpire, Answer
  <2>3. pc[w] # "idle" BY <1>6 DEF LogoutDelete, RefreshExpire
  <2> QED BY <1>0, <2>1, <2>2, <2>3, TimedQuiet
<1>7. CASE MeCaught(w) \/ LogoutSend(w) \/ BecomeSend(w)
  <2>1. now' = now /\ rows' = rows BY <1>7 DEF MeCaught, LogoutSend, BecomeSend
  <2>2. PICK label \in {"reply_clear", "needs_refresh", "logout_delete", "become_update"},
             l \in {[Idle EXCEPT !.since = now], [Idle EXCEPT !.token = Sent, !.since = now]} :
               Goto(w, label, l)
    BY <1>7 DEF MeCaught, LogoutSend, BecomeSend
  <2>3. l.since = now BY <2>2 DEF Idle
  <2>4. l.since <= now /\ now <= l.since + 1 BY <1>0, <2>3
  <2> QED BY <1>0, <2>1, <2>2, <2>4, TimedQuiet
<1>8. CASE RefreshSend(w) \/ BecomeUpdate(w)
  <2>1. now' = now /\ rows' = rows /\ pc[w] # "idle" BY <1>8 DEF RefreshSend, BecomeUpdate
  <2>2. PICK label \in {"idle", "refresh_find", "reply_access"},
             l \in {Idle, [loc[w] EXCEPT !.token = Sent], [loc[w] EXCEPT !.jwt = now + Jwt]} :
               Goto(w, label, l) /\ (label # "idle" => l.since = loc[w].since)
    BY <1>0, <1>8 DEF RefreshSend, BecomeUpdate, Answer, Locals
  <2> QED BY <1>0, <2>1, <2>2, TimedQuiet
<1>9. CASE ReplySet(w) \/ ReplyClear(w) \/ ReplyAccess(w) \/ Fault(w)
  <2>1. now' = now /\ rows' = rows /\ Goto(w, "idle", Idle)
    BY <1>9 DEF ReplySet, ReplyClear, ReplyAccess, Fault, Answer
  <2> QED BY <1>0, <2>1, TimedQuiet
<1> QED BY <1>1, <1>2, <1>3, <1>4, <1>5, <1>6, <1>7, <1>8, <1>9 DEF Step

LEMMA TimedNext == IInv /\ Timed /\ [Next]_vars => Timed'
<1> SUFFICES ASSUME IInv, Timed, [Next]_vars PROVE Timed'
  OBVIOUS
<1>1. CASE Tick
  <2>1. /\ now' = now + 1 /\ pc' = pc /\ loc' = loc /\ Live' = Live /\ rows' = rows
        /\ \A w \in Tabs : pc[w] = "idle" \/ loc[w].since = now
    BY <1>1 DEF Tick, Live
  <2>2. now \in Nat BY DEF IInv, TypeOK
  <2>3. \A w \in Tabs : pc'[w] # "idle" => loc'[w].since <= now' /\ now' <= loc'[w].since + 1
    BY <2>1, <2>2
  <2> QED BY <2>1, <2>3 DEF Timed
<1>2. ASSUME NEW w \in Tabs, Step(w) \/ Fault(w) PROVE Timed'
  BY <1>2, TimedStep
<1>3. CASE UNCHANGED vars BY <1>3 DEF Timed, Live, vars
<1> QED BY <1>1, <1>2, <1>3 DEF Next

(***************************************************************************)
(* Theorems                                                                *)
(***************************************************************************)

\* The invariant is inductive: the initial states satisfy it and every step keeps it.
THEOREM InvHolds == Spec => []IInv
<1>1. Init => IInv BY TypeInit, RelatedInit DEF IInv
<1> QED BY <1>1, InvNext, PTL DEF Spec

\* The table, the cookies and the requests in flight keep their types.
THEOREM SessionTypes == Spec => []TypeOK
<1>1. IInv => TypeOK BY DEF IInv
<1> QED BY <1>1, InvHolds, PTL

\* However refreshes and logouts of any number of tabs overlap, a login has one
\* refresh token, or one request about to issue it.
THEOREM OneHeirHolds == Spec => []OneHeir
<1>1. IInv => OneHeir BY DEF IInv, Related
<1> QED BY <1>1, InvHolds, PTL

\* Rotation keeps createdAt, so that no token outlives its login by more than
\* the absolute timeout, the life of a token and a tick.
THEOREM SessionsEnd == Spec => []SessionEnds
<1>1. Init => Timed BY TimedInit
<1>2. Timed => SessionEnds BY DEF Timed, SessionEnds
<1> QED BY <1>1, <1>2, InvHolds, TimedNext, PTL DEF Spec

\* The sessions of the rows and rotations after a step are those before it, or
\* the one of a login that was under way.
LEMMA HeirsDescend ==
  ASSUME IInv, NEW w \in Tabs, Step(w) \/ Fault(w)
  PROVE  /\ \A t \in Live' : \/ t \in Live /\ rows'[t] = rows[t]
                             \/ /\ t = loc[w].token /\ pc[w] = "login_create"
                                /\ rows'[t].session = loc[w].token
                             \/ w \in Rotating /\ rows'[t].session = loc[w].row.session
         /\ \A v \in Rotating' : \/ v \in Rotating /\ loc'[v] = loc[v]
                                 \/ \E t \in Live : loc'[v].row.session = rows[t].session
         /\ \A v \in Tabs : pc'[v] = "login_create" =>
                \/ pc[v] = "login_create" /\ loc'[v] = loc[v]
                \/ loc'[v].token \notin issued
<1>0. TypeOK /\ loc[w] \in Locals BY DEF IInv, TypeOK
<1>1. CASE LoginSend(w)
  <2> DEFINE Signed(t) == [[Idle EXCEPT !.since = now] EXCEPT !.token = t, !.jwt = now + Jwt,
                              !.row = [[Idle EXCEPT !.since = now].row EXCEPT !.expires = now + Life]]
  <2>1. PICK t \in Tokens \ issued : Goto(w, "login_create", Signed(t))
    BY <1>0, <1>1, GenerateEffect DEF LoginSend
  <2>2. Signed(t).token = t BY DEF Idle
  <2> HIDE DEF Signed
  <2>3. /\ pc'[w] = "login_create" /\ loc'[w] = Signed(t)
        /\ \A v \in Tabs : v # w => pc'[v] = pc[v] /\ loc'[v] = loc[v]
    BY <1>0, <2>1, GotoEffect
  <2>4. rows' = rows BY <1>1 DEF LoginSend
  <2> QED BY <2>1, <2>2, <2>3, <2>4 DEF Live, Rotating
<1>2. CASE LoginCreate(w) \/ RefreshCreate(w)
  <2>1. /\ pc'[w] = "reply_set" /\ loc' = loc
        /\ \A v \in Tabs : v # w => pc'[v] = pc[v]
    BY <1>0, <1>2 DEF LoginCreate, RefreshCreate, TypeOK, Goto
  <2>2. \A t \in Live' : t \in Tokens /\ (t # loc[w].token => t \in Live /\ rows'[t] = rows[t])
    BY <1>0, <1>2 DEF LoginCreate, RefreshCreate, TypeOK, Live
  <2>3. loc[w].token \in Live' =>
           \/ pc[w] = "login_create" /\ rows'[loc[w].token].session = loc[w].token
           \/ w \in Rotating /\ rows'[loc[w].token].session = loc[w].row.session
    <3>1. CASE LoginCreate(w)
      <4>1. loc[w].token \in Tokens BY <3>1 DEF LoginCreate, IInv, Related, HasLocals, Holding
      <4>2. rows'[loc[w].token].session = loc[w].token
        BY <1>0, <3>1, <4>1 DEF LoginCreate, TypeOK, Locals
      <4> QED BY <3>1, <4>2 DEF LoginCreate
    <3>2. CASE RefreshCreate(w)
      <4>1. loc[w].token \in Tokens BY <3>2 DEF RefreshCreate, IInv, Related, HasLocals, Holding
      <4> QED BY <1>0, <3>2, <4>1 DEF RefreshCreate, TypeOK, Rotating
    <3> QED BY <1>2, <3>1, <3>2
  <2> QED BY <2>1, <2>2, <2>3 DEF Rotating
<1>3. CASE RefreshDelete(w)
  <2>1. CASE loc[w].token \in Live
    <3> DEFINE Signed(t) == [loc[w] EXCEPT !.token = t, !.jwt = now + Jwt,
                                           !.row = [loc[w].row EXCEPT !.expires = now + Life]]
    <3>1. PICK t \in Tokens \ issued : Goto(w, "refresh_create", Signed(t))
      BY <1>0, <1>3, <2>1, GenerateEffect DEF RefreshDelete
    <3>2. Signed(t).row.session = loc[w].row.session BY <1>0 DEF Locals
    <3> HIDE DEF Signed
    <3>3. /\ pc'[w] = "refresh_create" /\ loc'[w] = Signed(t)
          /\ \A v \in Tabs : v # w => pc'[v] = pc[v] /\ loc'[v] = loc[v]
      BY <1>0, <3>1, GotoEffect
    <3>4. loc[w].row = rows[loc[w].token]
      BY <1>3, <2>1 DEF RefreshDelete, IInv, Related, ReadHolds
    <3>5. \A u \in Live' : u \in Live /\ rows'[u] = rows[u]
      BY <1>0, <1>3 DEF RefreshDelete, Live, TypeOK
    <3> QED BY <2>1, <3>2, <3>3, <3>4, <3>5 DEF Rotating
  <2>2. CASE loc[w].token \notin Live
    <3>1. Goto(w, "idle", Idle) /\ rows' = rows BY <1>3, <2>2 DEF RefreshDelete, Answer
    <3>2. /\ pc'[w] = "idle"
          /\ \A v \in Tabs : v # w => pc'[v] = pc[v] /\ loc'[v] = loc[v]
      BY <1>0, <3>1, GotoEffect
    <3> QED BY <3>1, <3>2 DEF Rotating, Live
  <2> QED BY <2>1, <2>2
<1>4. CASE ~LoginSend(w) /\ ~LoginCreate(w) /\ ~RefreshCreate(w) /\ ~RefreshDelete(w)
  <2>1. /\ pc'[w] \notin {"login_create", "refresh_create"}
        /\ \A v \in Tabs : v # w => pc'[v] = pc[v] /\ loc'[v] = loc[v]
    BY <1>0, <1>4 DEF Step, MeCaught, RefreshSend, RefreshFind, RefreshExpire, LogoutSend,
       LogoutDelete, BecomeSend, BecomeUpdate, ReplySet, ReplyClear, ReplyAccess, Fault,
       Answer, Goto, TypeOK
  <2>2. \A t \in Tokens : rows'[t] \in {rows[t], NoRow}
    BY <1>0, <1>4 DEF Step, MeCaught, RefreshSend, RefreshFind, RefreshExpire, LogoutSend,
       LogoutDelete, BecomeSend, BecomeUpdate, ReplySet, ReplyClear, ReplyAccess, Fault,
       TypeOK
  <2> QED BY <2>1, <2>2 DEF Rotating, Live
<1> QED BY <1>1, <1>2, <1>3, <1>4

LEMMA StaysOverNext == IInv /\ [Next]_vars => StaysOver
<1> SUFFICES ASSUME IInv, [Next]_vars, NEW s \in Tokens, Over(s) PROVE Over(s)'
  BY DEF StaysOver
<1>1. CASE Tick BY <1>1 DEF Tick, Over, Live, Rotating
<1>2. CASE UNCHANGED vars BY <1>2 DEF vars, Over, Live, Rotating
<1>3. ASSUME NEW w \in Tabs, Step(w) \/ Fault(w) PROVE Over(s)'
  <2>1. s \in issued'
    <3>1. issued \subseteq issued'
      BY <1>3 DEF Step, LoginSend, LoginCreate, MeCaught, RefreshSend, RefreshFind,
         RefreshExpire, RefreshDelete, RefreshCreate, LogoutSend, LogoutDelete, BecomeSend,
         BecomeUpdate, ReplySet, ReplyClear, ReplyAccess, Fault, Generate
    <3> QED BY <3>1 DEF Over
  <2>2. \A t \in Live' : rows'[t].session # s BY <1>3, HeirsDescend DEF Over
  <2>3. \A v \in Rotating' : loc'[v].row.session # s BY <1>3, HeirsDescend DEF Over
  <2>4. \A v \in Tabs : pc'[v] = "login_create" => loc'[v].token # s
    BY <1>3, HeirsDescend DEF Over
  <2> QED BY <2>1, <2>2, <2>3, <2>4 DEF Over
<1> QED BY <1>1, <1>2, <1>3 DEF Next

\* A session that is over is never revived, by whatever request read its token
\* before.
THEOREM OverStaysOver == Spec => OverIsOver
<1>1. IInv /\ [Next]_vars => [StaysOver]_vars BY StaysOverNext
<1> QED BY <1>1, InvHolds, PTL DEF Spec, OverIsOver

(***************************************************************************)
(* The cookie                                                              *)
(***************************************************************************)

Replying == {w \in Tabs : pc[w] = "reply_set"}

\* A token on its way to the browser is in the table, and known to that one
\* answer.
Delivered ==
  \A w \in Replying :
    /\ loc[w].token \in Live /\ loc[w].token # cookie.token
    /\ \A v \in Tabs : v # w => loc[v].token # loc[w].token

\* Requests whose answer is going to change the cookie.
Mends == {"refresh_create", "reply_set", "reply_clear"}

\* A cookie that the server does not know is going to be replaced, or cleared.
Covered ==
  faults = 0 /\ cookie.token # Null =>
    cookie.token \in Live \/ \E w \in Tabs : pc[w] \in Mends

CookieInv == Delivered /\ Covered

\* A request deletes at most the token it holds, and learns of none that is on
\* its way to another tab.
LEMMA CookieStep ==
  ASSUME IInv, CookieInv, NEW w \in Tabs, NEW label, NEW l, Goto(w, label, l),
         \A t \in Tokens : \/ rows'[t] = rows[t] \/ t = loc[w].token \/ rows'[t] # NoRow,
         l.token \in {cookie.token, loc[w].token, Null} \cup (Tokens \ issued),
         cookie'.token \in {cookie.token, loc[w].token, Null},
         label = "reply_set" =>
           w \in Creating /\ l.token = loc[w].token /\ rows'[l.token] # NoRow /\ cookie' = cookie,
         \/ label \in Mends /\ cookie' = cookie
         \/ /\ cookie' = cookie /\ rows' = rows
            /\ pc[w] \notin Mends \/ (faults' \in Nat /\ faults' # 0)
         \/ cookie'.token = Null
         \/ w \in Replying /\ cookie'.token = loc[w].token /\ rows' = rows,
         faults' = 0 => faults = 0
  PROVE  CookieInv'
<1> USE DEF IInv
<1>0. /\ pc'[w] = label /\ loc'[w] = l
      /\ \A v \in Tabs : v # w => pc'[v] = pc[v] /\ loc'[v] = loc[v]
  BY GotoEffect
<1>1. ASSUME NEW v \in Replying', v # w
      PROVE  /\ loc'[v].token \in Live' /\ loc'[v].token # cookie'.token
             /\ \A u \in Tabs : u # v => loc'[u].token # loc'[v].token
  <2>1. v \in Tabs /\ v \in Replying /\ loc'[v] = loc[v]
    BY <1>0, <1>1 DEF Replying
  <2> DEFINE t == loc[v].token
  <2>2. /\ t \in Tokens /\ rows[t] # NoRow /\ t \in issued /\ t # cookie.token /\ t # Null
        /\ \A u \in Tabs : u # v => loc[u].token # t
    BY <2>1, SessionAssumption DEF CookieInv, Delivered, Live, Related, Known
  <2>3. t # loc[w].token /\ t # l.token
    BY <1>1, <2>2
  <2> HIDE DEF t
  <2>4. rows'[t] # NoRow
    BY <2>2, <2>3
  <2> QED BY <1>0, <1>1, <2>1, <2>2, <2>3, <2>4 DEF t, Live
<1>2. ASSUME w \in Replying'
      PROVE  /\ loc'[w].token \in Live' /\ loc'[w].token # cookie'.token
             /\ \A u \in Tabs : u # w => loc'[u].token # loc'[w].token
  <2>1. label = "reply_set"
    BY <1>0, <1>2 DEF Replying
  <2>2. /\ loc[w].token \in Tokens /\ loc[w].token # cookie.token
        /\ \A v \in Tabs : v # w => loc[v].token # loc[w].token
    BY <2>1 DEF Related, HasLocals, Holding, Creating, Fresh
  <2> QED BY <1>0, <2>1, <2>2 DEF Live
<1>3. Delivered'
  BY <1>1, <1>2 DEF Delivered
<1>4. Covered'
  <2> SUFFICES ASSUME faults = 0, faults' = 0, cookie'.token # Null,
                      \A v \in Tabs : pc'[v] \notin Mends
               PROVE  cookie'.token \in Live'
    BY DEF Covered
  <2>1. CASE w \in Replying /\ cookie'.token = loc[w].token /\ rows' = rows
    BY <2>1 DEF CookieInv, Delivered, Live
  <2>2. CASE cookie' = cookie /\ rows' = rows /\ pc[w] \notin Mends
    <3>1. \A v \in Tabs : pc[v] \notin Mends
      BY <1>0, <2>2
    <3> QED BY <2>2, <3>1 DEF CookieInv, Covered, Live
  <2> QED BY <1>0, <2>1, <2>2
<1> QED BY <1>3, <1>4 DEF CookieInv

LEMMA CookieKeeps ==
  ASSUME IInv, CookieInv, NEW w \in Tabs, Step(w) \/ Fault(w) PROVE CookieInv'
<1> USE DEF Mends
<1>0. /\ loc[w] \in Locals /\ Sent \in {cookie.token, Null} /\ faults \in Nat
      /\ DOMAIN rows = Tokens
  BY DEF IInv, TypeOK, Sent
\* Requests that read, or answer without the cookies.
<1>1. ASSUME NEW label, label \notin {"refresh_create", "reply_set"}, NEW l, Goto(w, label, l),
             UNCHANGED <<rows, cookie>>,
             l.token \in {cookie.token, loc[w].token, Null} \cup (Tokens \ issued),
             pc[w] \notin Mends, faults' = faults \/ faults' = faults + 1
      PROVE  CookieInv'
  BY <1>0, <1>1, CookieStep
<1>2. CASE LoginSend(w)
  <2> DEFINE k == [Idle EXCEPT !.since = now]
  <2>1. PICK t \in Tokens \ issued :
          Goto(w, "login_create", [k EXCEPT !.token = t, !.jwt = now + Jwt,
                                            !.row = [k.row EXCEPT !.expires = now + Life]])
    BY <1>2, GenerateEffect DEF LoginSend, IInv
  <2> DEFINE l == [k EXCEPT !.token = t, !.jwt = now + Jwt,
                            !.row = [k.row EXCEPT !.expires = now + Life]]
  <2>2. l.token = t
    BY DEF Idle
  <2> HIDE DEF l
  <2>3. Goto(w, "login_create", l) /\ UNCHANGED <<rows, cookie, faults>> /\ pc[w] = "idle"
    BY <1>2, <2>1 DEF LoginSend, jarVars, l
  <2> QED BY <1>1, <2>2, <2>3
<1>3. CASE LoginCreate(w)
  <2> DEFINE row == [loc[w].row EXCEPT !.session = loc[w].token, !.login = now, !.start = now]
  <2>1. w \in Creating /\ loc[w].token \in Tokens
    BY <1>3 DEF LoginCreate, Creating, IInv, Related, HasLocals, Holding
  <2>2. row \in Row
    BY <1>0, <2>1 DEF Locals, Row, IInv, TypeOK
  <2>3. /\ rows' = [rows EXCEPT ![loc[w].token] = row]
        /\ Goto(w, "reply_set", loc[w]) /\ cookie' = cookie /\ faults' = faults
    BY <1>3 DEF LoginCreate, jarVars
  <2> HIDE DEF row
  <2> QED BY <1>0, <2>1, <2>2, <2>3, NoRowIsNoRow, CookieStep
<1>4. CASE MeCaught(w)
  <2> DEFINE l == [Idle EXCEPT !.since = now]
  <2>1. l.token = Null
    BY DEF Idle
  <2> HIDE DEF l
  <2>2. PICK label \in {"reply_clear", "needs_refresh"} : Goto(w, label, l)
    BY <1>4 DEF MeCaught, l
  <2>3. /\ UNCHANGED <<rows, cookie>> /\ pc[w] = "idle"
        /\ faults' = faults \/ faults' = faults + 1
    BY <1>4 DEF MeCaught, jarVars
  <2> QED BY <1>1, <2>1, <2>2, <2>3
<1>5. CASE RefreshSend(w)
  <2>1. UNCHANGED <<rows, cookie, faults>> /\ pc[w] = "needs_refresh"
    BY <1>5 DEF RefreshSend, jarVars
  <2>2. CASE Sent = Null
    <3>1. Goto(w, "idle", Idle)
      BY <1>5, <2>2 DEF RefreshSend, Answer
    <3> QED BY <1>1, <2>1, <3>1, IdleLocals
  <2>3. CASE Sent # Null
    <3> DEFINE l == [loc[w] EXCEPT !.token = Sent]
    <3>1. l.token = Sent
      BY <1>0 DEF Locals
    <3>2. Goto(w, "refresh_find", l)
      BY <1>5, <2>3 DEF RefreshSend
    <3> HIDE DEF l
    <3> QED BY <1>0, <1>1, <2>1, <3>1, <3>2
  <2> QED BY <2>2, <2>3
<1>6. CASE RefreshFind(w)
  <2> DEFINE l == [loc[w] EXCEPT !.row = rows[loc[w].token]]
  <2>1. l.token = loc[w].token
    BY <1>0 DEF Locals
  <2>2. PICK label \in {"reply_clear", "refresh_expire", "refresh_delete"} : Goto(w, label, l)
    BY <1>6 DEF RefreshFind
  <2>3. UNCHANGED <<rows, cookie, faults>> /\ pc[w] = "refresh_find"
    BY <1>6 DEF RefreshFind, jarVars
  <2> HIDE DEF l
  <2> QED BY <1>1, <2>1, <2>2, <2>3
<1>7. CASE RefreshExpire(w)
  <2>1. UNCHANGED <<cookie, faults>> /\ pc[w] = "refresh_expire"
    BY <1>7 DEF RefreshExpire, jarVars
  <2>2. CASE rows' = [rows EXCEPT ![loc[w].token] = NoRow] /\ Goto(w, "reply_clear", loc[w])
    BY <1>0, <2>1, <2>2, CookieStep
  <2>3. CASE Goto(w, "idle", Idle) /\ rows' = rows
    BY <1>1, <2>1, <2>3, IdleLocals
  <2> QED BY <1>7, <2>2, <2>3 DEF RefreshExpire, Answer
<1>8. CASE RefreshDelete(w)
  <2>1. UNCHANGED <<cookie, faults>> /\ pc[w] = "refresh_delete"
    BY <1>8 DEF RefreshDelete, jarVars
  <2>2. CASE rows' = [rows EXCEPT ![loc[w].token] = NoRow] /\ Generate(w, "refresh_create", loc[w])
    <3>1. PICK t \in Tokens \ issued :
            Goto(w, "refresh_create", [loc[w] EXCEPT !.token = t, !.jwt = now + Jwt,
                                         !.row = [loc[w].row EXCEPT !.expires = now + Life]])
      BY <2>2, GenerateEffect DEF IInv
    <3> DEFINE l == [loc[w] EXCEPT !.token = t, !.jwt = now + Jwt,
                                   !.row = [loc[w].row EXCEPT !.expires = now + Life]]
    <3>2. l.token = t
      BY <1>0 DEF Locals
    <3> HIDE DEF l
    <3>3. Goto(w, "refresh_create", l)
      BY <3>1 DEF l
    <3> QED BY <1>0, <2>1, <2>2, <3>2, <3>3, CookieStep
  <2>3. CASE Goto(w, "idle", Idle) /\ rows' = rows
    BY <1>1, <2>1, <2>3, IdleLocals
  <2> QED BY <1>8, <2>2, <2>3 DEF RefreshDelete, Answer
<1>9. CASE RefreshCreate(w)
  <2>1. w \in Creating /\ loc[w].row \in Row /\ loc[w].token \in Tokens
    BY <1>9 DEF RefreshCreate, Creating, IInv, Related, HasLocals, Holding
  <2>2. /\ rows' = [rows EXCEPT ![loc[w].token] = loc[w].row]
        /\ Goto(w, "reply_set", loc[w]) /\ cookie' = cookie /\ faults' = faults
    BY <1>9 DEF RefreshCreate, jarVars
  <2> QED BY <1>0, <2>1, <2>2, NoRowIsNoRow, CookieStep
<1>10. CASE LogoutSend(w)
  <2> DEFINE l == [Idle EXCEPT !.token = Sent, !.since = now]
  <2>1. l.token = Sent
    BY DEF Idle
  <2> HIDE DEF l
  <2>2. PICK label \in {"reply_clear", "logout_delete"} : Goto(w, label, l)
    BY <1>10 DEF LogoutSend, l
  <2>3. UNCHANGED <<rows, cookie, faults>> /\ pc[w] = "idle"
    BY <1>10 DEF LogoutSend, jarVars
  <2> QED BY <1>0, <1>1, <2>1, <2>2, <2>3
<1>11. CASE LogoutDelete(w)
  <2>1. /\ rows' = [rows EXCEPT ![loc[w].token] = NoRow] /\ Goto(w, "reply_clear", loc[w])
        /\ UNCHANGED <<cookie, faults>>
    BY <1>11 DEF LogoutDelete, jarVars
  <2> QED BY <1>0, <2>1, CookieStep
<1>12. CASE BecomeSend(w)
  <2> DEFINE l == [Idle EXCEPT !.since = now]
  <2>1. l.token = Null
    BY DEF Idle
  <2> HIDE DEF l
  <2>2. Goto(w, "become_update", l) /\ UNCHANGED <<rows, cookie, faults>> /\ pc[w] = "idle"
    BY <1>12 DEF BecomeSend, jarVars, l
  <2> QED BY <1>1, <2>1, <2>2
<1>13. CASE BecomeUpdate(w)
  <2> DEFINE l == [loc[w] EXCEPT !.jwt = now + Jwt]
  <2>1. l.token = loc[w].token
    BY <1>0 DEF Locals
  <2> HIDE DEF l
  <2>2. Goto(w, "reply_access", l) /\ UNCHANGED <<rows, cookie, faults>> /\ pc[w] = "become_update"
    BY <1>13 DEF BecomeUpdate, jarVars, l
  <2> QED BY <1>1, <2>1, <2>2
<1>14. CASE ReplySet(w) \/ ReplyClear(w)
  <2>1. Goto(w, "idle", Idle) /\ rows' = rows /\ faults' = faults
    BY <1>14 DEF ReplySet, ReplyClear, Answer
  <2>2. \/ w \in Replying /\ cookie'.token = loc[w].token
        \/ cookie'.token = Null
    BY <1>14 DEF ReplySet, ReplyClear, Replying, NoCookie
  <2> QED BY <2>1, <2>2, IdleLocals, CookieStep
<1>15. CASE ReplyAccess(w) \/ Fault(w)
  <2>1. /\ Goto(w, "idle", Idle) /\ UNCHANGED <<rows, cookie>>
        /\ \/ pc[w] = "reply_access" /\ faults' = faults
           \/ faults' = faults + 1
    BY <1>15 DEF ReplyAccess, Fault, Answer, jarVars
  <2> QED BY <1>0, <2>1, IdleLocals, CookieStep
<1> QED BY <1>2, <1>3, <1>4, <1>5, <1>6, <1>7, <1>8, <1>9, <1>10, <1>11, <1>12, <1>13, <1>14, <1>15
        DEF Step

\* When nothing is in flight and nothing has failed, the cookie the browser
\* sends is one the server knows (auth.ts:305-378).
THEOREM CookiesAreKnown == Spec => []CookieIsKnown
<1>1. Init => CookieInv
  BY DEF Init, CookieInv, Delivered, Covered, Replying, NoCookie
<1>2. IInv /\ CookieInv /\ [Next]_vars => CookieInv'
  <2> SUFFICES ASSUME IInv, CookieInv, [Next]_vars PROVE CookieInv'
    OBVIOUS
  <2>1. CASE UNCHANGED <<rows, cookie, pc, loc, faults>>
    BY <2>1 DEF CookieInv, Delivered, Covered, Replying, Live
  <2> QED BY <2>1, CookieKeeps DEF Next, Tick, vars, jarVars
<1>3. CookieInv => CookieIsKnown
  BY DEF CookieInv, Covered, CookieIsKnown, Sent, Mends
<1> QED BY <1>1, <1>2, <1>3, InvHolds, PTL DEF Spec

(***************************************************************************)
(* Accounts: the lemmas speak of tables t, so that the table before a step *)
(* and the one after it are both instances.                                *)
(***************************************************************************)

Tables == [Ids -> User \cup {NoUser}]

In(t) == {i \in Ids : t[i] # NoUser}

Holders(a, t) == {i \in In(t) : t[i].wallet = a}

\* The unique key on the wallets.
OneHolder(t) ==
  \A i, j \in In(t) : t[i].wallet = t[j].wallet /\ t[i].wallet # Null => i = j

AskRecords == [at : AskLabels, wallet : Wallets \cup {Null}, name : Names \cup {Null},
               user : Ids \cup {Null}, moved : BOOLEAN]

\* What a request needs at each await, and, once it has found or created the
\* account to open, that no other account holds the wallet.
Sound(r, t) ==
  /\ r \in AskRecords
  /\ r.user \in In(t) \cup {Null}
  /\ r.at \in {"find_name", "try_name", "create"} => r.name \in Names
  /\ r.at = "find_name" => r.wallet = Null
  /\ r.at \in {"find_wallet", "try_name", "link_find", "link_update"} => r.wallet \in Wallets
  /\ r.at \in {"open", "link_find", "link_update"} => r.user # Null
  /\ r.at = "open" /\ r.wallet # Null /\ ~r.moved => Holders(r.wallet, t) = {r.user}

\* The inductive invariant.
AccountsInv ==
  /\ users \in Tables /\ OneHolder(users)
  /\ signedIn \in [Clients -> In(users) \cup {Null}]
  /\ ask \in [Clients -> AskRecords] /\ asked \in Nat
  /\ \A c \in Clients : Sound(ask[c], users)

LEMMA NullApart == Null \notin Names /\ Null \notin Wallets /\ Null \notin Ids
BY AccountAssumption

LEMMA NoAskSound == ASSUME NEW t PROVE Sound(NoAsk, t)
BY DEF Sound, NoAsk, AskRecords, AskLabels

\* Writing row i, whose wallet no other row has, gives it that wallet and
\* takes from it the wallet it had.
LEMMA RowWritten ==
  ASSUME NEW t \in Tables, OneHolder(t), NEW i \in Ids, NEW row \in User, NEW u \in Tables,
         \A j \in Ids : u[j] = IF j = i THEN row ELSE t[j],
         \A j \in In(t) \ {i} : row.wallet # Null => t[j].wallet # row.wallet
  PROVE  /\ OneHolder(u) /\ In(u) = In(t) \cup {i}
         /\ row.wallet # Null => Holders(row.wallet, u) = {i}
         /\ \A a : a # row.wallet /\ i \notin Holders(a, t) => Holders(a, u) = Holders(a, t)
<1>1. \A j \in Ids : u[j] = IF j = i THEN row ELSE t[j]
  OBVIOUS
<1>2. row # NoUser
  BY NullApart DEF User, NoUser
<1>4. In(u) = In(t) \cup {i}
  BY <1>1, <1>2 DEF In
<1>5. In(t) \subseteq Ids
  BY DEF In
<1>6. OneHolder(u)
  BY <1>1, <1>4, <1>5 DEF OneHolder
<1>7. ASSUME row.wallet # Null PROVE Holders(row.wallet, u) = {i}
  <2>1. \A j : j \in Holders(row.wallet, u) <=> j = i
    BY <1>1, <1>4, <1>5, <1>7 DEF Holders
  <2> QED BY <2>1 DEF Holders
<1>8. ASSUME NEW a, a # row.wallet, i \notin Holders(a, t) PROVE Holders(a, u) = Holders(a, t)
  <2>1. \A j : j \in Holders(a, u) <=> j \in Holders(a, t)
    BY <1>1, <1>4, <1>5, <1>8 DEF Holders
  <2> QED BY <2>1 DEF Holders
<1> QED BY <1>4, <1>6, <1>7, <1>8

\* A request whose wallet is held as before is as sound as before.
LEMMA StaysSound ==
  ASSUME NEW t, NEW u, NEW r, Sound(r, t), In(t) \subseteq In(u),
         r.at = "open" /\ r.wallet # Null /\ ~r.moved
           => Holders(r.wallet, u) = Holders(r.wallet, t)
  PROVE  Sound(r, u)
BY DEF Sound

\* A step that leaves the table alone.
LEMMA AskStep ==
  ASSUME AccountsInv, NEW c \in Clients, NEW r, Sound(r, users), Await(c, r),
         users' = users, asked' \in Nat,
         signedIn' \in [Clients -> In(users) \cup {Null}]
  PROVE  AccountsInv'
<1>1. ask' = [ask EXCEPT ![c] = r] /\ r \in AskRecords /\ ask \in [Clients -> AskRecords]
  BY DEF Await, Sound, AccountsInv
<1>2. \A d \in Clients : Sound(ask'[d], users)
  BY <1>1 DEF AccountsInv
<1> QED BY <1>1, <1>2 DEF AccountsInv

LEMMA CreateKeeps ==
  ASSUME AccountsInv, NEW c \in Clients, Create(c)
  PROVE  AccountsInv'
<1> DEFINE a == ask[c].wallet
           row == [name |-> ask[c].name, wallet |-> a, origin |-> a]
<1>1. /\ Sound(ask[c], users) /\ ask[c].at = "create" /\ UNCHANGED <<signedIn, asked>>
      /\ users \in Tables /\ OneHolder(users) /\ ask \in [Clients -> AskRecords]
  BY DEF AccountsInv, Create
<1>2. row \in User /\ row.wallet = a
  BY <1>1 DEF Sound, AskRecords, User
<1>3. CASE Done(c) /\ users' = users
  BY <1>1, <1>3, NoAskSound, AskStep DEF Done, AccountsInv
<1>4. ASSUME Free(row, Null), NEW i \in Ids \ Existing,
             users' = [users EXCEPT ![i] = row], Opens(c, i)
      PROVE  AccountsInv'
  <2> DEFINE new == [ask[c] EXCEPT !.at = "open", !.user = i]
  <2>1. \A j \in In(users) : a # Null => users[j].wallet # a
    BY <1>2, <1>4, NullApart DEF Free, Existing, In
  <2>2. /\ users' \in Tables /\ OneHolder(users') /\ In(users') = In(users) \cup {i}
        /\ a # Null => Holders(a, users') = {i}
        /\ \A b : b # a /\ i \notin Holders(b, users) => Holders(b, users') = Holders(b, users)
    <3> HIDE DEF row
    <3>1. \A j \in In(users) \ {i} : row.wallet # Null => users[j].wallet # row.wallet
      BY <1>2, <2>1
    <3>2. i \in Ids
      OBVIOUS
    <3>3. users \in Tables /\ OneHolder(users) /\ row \in User
      BY <1>1, <1>2
    <3>4. /\ users' \in Tables /\ OneHolder(users') /\ In(users') = In(users) \cup {i}
          /\ row.wallet # Null => Holders(row.wallet, users') = {i}
          /\ \A b : b # row.wallet /\ i \notin Holders(b, users)
                      => Holders(b, users') = Holders(b, users)
      <4>1. users' \in Tables /\ \A j \in Ids : users'[j] = IF j = i THEN row ELSE users[j]
        BY <1>4, <3>3 DEF Tables
      <4> QED BY <3>1, <3>2, <3>3, <4>1, RowWritten
    <3> QED BY <1>2, <3>4
  <2>3. ask' = [ask EXCEPT ![c] = new]
    BY <1>4 DEF Opens, Await
  <2>4. new \in AskRecords /\ new.at = "open" /\ new.user = i /\ new.wallet = a
    BY <1>1 DEF AskRecords, AskLabels
  <2>5. Sound(new, users')
    <3> HIDE DEF new
    <3> QED BY <2>2, <2>4, NullApart DEF Sound
  <2>6. ASSUME NEW d \in Clients PROVE Sound(ask'[d], users')
    <3>1. CASE d = c
      BY <1>1, <2>3, <2>5, <3>1
    <3>2. CASE d # c
      <4>1. ask'[d] = ask[d]
        BY <1>1, <2>3, <3>2
      <4>2. Sound(ask[d], users)
        BY DEF AccountsInv
      <4>3. ASSUME ask[d].at = "open", ask[d].wallet # Null, ~ask[d].moved
            PROVE  Holders(ask[d].wallet, users') = Holders(ask[d].wallet, users)
        <5>1. Holders(ask[d].wallet, users) = {ask[d].user}
          BY <4>2, <4>3 DEF Sound
        <5>2. i \notin Holders(ask[d].wallet, users)
          BY <1>4 DEF Holders, In, Existing
        <5>3. a # ask[d].wallet
          BY <2>1, <4>3, <5>1 DEF Holders
        <5> QED BY <2>2, <5>2, <5>3
      <4> QED BY <2>2, <4>1, <4>2, <4>3, StaysSound
    <3> QED BY <3>1, <3>2
  <2>7. ask' \in [Clients -> AskRecords]
    BY <1>1, <2>3, <2>4
  <2>8. signedIn' \in [Clients -> In(users') \cup {Null}]
    BY <1>1, <2>2 DEF AccountsInv
  <2> QED BY <1>1, <2>2, <2>6, <2>7, <2>8 DEF AccountsInv
<1> QED BY <1>3, <1>4 DEF Create

\* Requests of others that have found the account are told that it moves.
LEMMA LinkUpdateKeeps ==
  ASSUME AccountsInv, NEW c \in Clients, LinkUpdate(c)
  PROVE  AccountsInv'
<1> DEFINE i == ask[c].user
           a == ask[c].wallet
           row == [users[i] EXCEPT !.wallet = a]
           Told(d) == [ask[d] EXCEPT !.moved = @ \/ (ask[d].user = i /\ ask[d].wallet # a)]
<1>1. /\ Sound(ask[c], users) /\ ask[c].at = "link_update" /\ UNCHANGED <<signedIn, asked>>
      /\ users \in Tables /\ OneHolder(users) /\ ask \in [Clients -> AskRecords]
  BY DEF AccountsInv, LinkUpdate
<1>2. i \in In(users) /\ i \in Ids /\ a \in Wallets /\ a # Null
  BY <1>1, NullApart DEF Sound, In
<1>3. users[i] \in User
  BY <1>1, <1>2 DEF Tables, In
<1>4. row \in User /\ row.wallet = a
  BY <1>2, <1>3 DEF User
<1>5. CASE Done(c) /\ users' = users
  BY <1>1, <1>5, NoAskSound, AskStep DEF Done, AccountsInv
<1>6. ASSUME Free(row, i), users' = [users EXCEPT ![i] = row],
             ask' = [d \in Clients |-> IF d = c THEN NoAsk ELSE Told(d)]
      PROVE  AccountsInv'
  <2>1. \A j \in In(users) \ {i} : users[j].wallet # a
    BY <1>2, <1>4, <1>6 DEF Free, Existing, In
  <2>2. /\ users' \in Tables /\ OneHolder(users') /\ In(users') = In(users)
        /\ Holders(a, users') = {i}
        /\ \A b : b # a /\ i \notin Holders(b, users) => Holders(b, users') = Holders(b, users)
    <3> HIDE DEF row
    <3>1. \A j \in In(users) \ {i} : row.wallet # Null => users[j].wallet # row.wallet
      BY <1>4, <2>1
    <3>2. In(users) \cup {i} = In(users)
      BY <1>2
    <3>3. users \in Tables /\ OneHolder(users) /\ row \in User /\ i \in Ids
      BY <1>1, <1>2, <1>4
    <3>4. /\ users' \in Tables /\ OneHolder(users') /\ In(users') = In(users) \cup {i}
          /\ row.wallet # Null => Holders(row.wallet, users') = {i}
          /\ \A b : b # row.wallet /\ i \notin Holders(b, users)
                      => Holders(b, users') = Holders(b, users)
      <4>1. users' \in Tables /\ \A j \in Ids : users'[j] = IF j = i THEN row ELSE users[j]
        BY <1>6, <3>3 DEF Tables
      <4> HIDE DEF i, a
      <4> QED BY <3>1, <3>3, <4>1, RowWritten
    <3> QED BY <1>2, <1>4, <3>2, <3>4
  <2>3. ASSUME NEW d \in Clients PROVE Sound(ask'[d], users')
    <3>1. CASE d = c
      BY <1>6, <3>1, NoAskSound
    <3>2. CASE d # c
      <4>1. Sound(ask[d], users) /\ ask[d] \in AskRecords
        BY <1>1 DEF AccountsInv
      <4>2. ask'[d] = Told(d)
        BY <1>6, <3>2
      <4>3. /\ Told(d) \in AskRecords
            /\ Told(d).at = ask[d].at /\ Told(d).wallet = ask[d].wallet
            /\ Told(d).user = ask[d].user /\ Told(d).name = ask[d].name
            /\ ~Told(d).moved => ~ask[d].moved /\ (ask[d].user = i => ask[d].wallet = a)
        BY <4>1 DEF AskRecords
      <4> HIDE DEF Told
      <4>4. Sound(Told(d), users)
        BY <4>1, <4>3 DEF Sound
      <4>5. ASSUME Told(d).at = "open", Told(d).wallet # Null, ~Told(d).moved
            PROVE  Holders(Told(d).wallet, users') = Holders(Told(d).wallet, users)
        <5>1. Holders(Told(d).wallet, users) = {Told(d).user}
          BY <4>4, <4>5 DEF Sound
        <5>2. CASE Told(d).user = i
          <6>1. Told(d).wallet = a
            BY <4>3, <4>5, <5>2
          <6> QED BY <2>2, <5>1, <5>2, <6>1
        <5>3. CASE Told(d).user # i
          <6>1. Told(d).wallet # a
            BY <2>1, <5>1, <5>3 DEF Holders
          <6> QED BY <2>2, <5>1, <5>3, <6>1
        <5> QED BY <5>2, <5>3
      <4> QED BY <2>2, <4>2, <4>4, <4>5, StaysSound
    <3> QED BY <3>1, <3>2
  <2>4. ask' \in [Clients -> AskRecords]
    <3>1. \A d \in Clients : ask'[d] \in AskRecords
      BY <2>3 DEF Sound
    <3> QED BY <1>6, <3>1
  <2>5. signedIn' \in [Clients -> In(users') \cup {Null}]
    BY <1>1, <2>2 DEF AccountsInv
  <2> QED BY <1>1, <2>2, <2>3, <2>4, <2>5 DEF AccountsInv
<1> QED BY <1>5, <1>6 DEF LinkUpdate

\* The other requests of a client.
LEMMA AskKeeps ==
  ASSUME AccountsInv, NEW c \in Clients, AccountStep(c)
  PROVE  AccountsInv'
<1>0. /\ Sound(ask[c], users) /\ ask[c] \in AskRecords
      /\ signedIn \in [Clients -> In(users) \cup {Null}] /\ asked \in Nat
  BY DEF AccountsInv
<1>1. ASSUME NEW name \in TypedNames, SignInByName(c, name) PROVE AccountsInv'
  <2> DEFINE r == [NoAsk EXCEPT !.at = "find_name", !.name = name]
  <2>1. Sound(r, users)
    BY AccountAssumption DEF Sound, NoAsk, AskRecords, AskLabels
  <2> HIDE DEF r
  <2>2. Await(c, r) /\ users' = users /\ signedIn' = signedIn /\ asked' = asked + 1
    BY <1>1 DEF SignInByName, Send, r
  <2> QED BY <1>0, <2>1, <2>2, AskStep
<1>2. ASSUME NEW a \in Wallets, NEW text \in Texts, SignInByWallet(c, a, text)
      PROVE  AccountsInv'
  <2> DEFINE r == [NoAsk EXCEPT !.at = "find_wallet", !.wallet = a]
  <2>1. Sound(r, users)
    BY DEF Sound, NoAsk, AskRecords, AskLabels
  <2> HIDE DEF r
  <2>2. Await(c, r) /\ users' = users /\ signedIn' = signedIn /\ asked' = asked + 1
    BY <1>2 DEF SignInByWallet, Send, r
  <2> QED BY <1>0, <2>1, <2>2, AskStep
<1>3. ASSUME NEW a \in Wallets, NEW text \in Texts, LinkWallet(c, a, text)
      PROVE  AccountsInv'
  <2> DEFINE r == [NoAsk EXCEPT !.at = "link_find", !.wallet = a, !.user = signedIn[c]]
  <2>1. signedIn[c] \in In(users) /\ signedIn[c] # Null /\ In(users) \subseteq Ids
    BY <1>0, <1>3, NullApart DEF LinkWallet, Authenticated, In
  <2>2. Sound(r, users)
    BY <2>1 DEF Sound, NoAsk, AskRecords, AskLabels
  <2> HIDE DEF r
  <2>3. Await(c, r) /\ users' = users /\ signedIn' = signedIn /\ asked' = asked + 1
    BY <1>3 DEF LinkWallet, Send, r
  <2> QED BY <1>0, <2>2, <2>3, AskStep
<1>4. ASSUME NEW i \in Existing, Opens(c, i), UNCHANGED <<users, signedIn, asked>>,
             ask[c].wallet # Null => HoldersOf(ask[c].wallet) = {i}
      PROVE  AccountsInv'
  <2> DEFINE r == [ask[c] EXCEPT !.at = "open", !.user = i]
  <2>1. i \in In(users) /\ i \in Ids
    BY <1>4 DEF Existing, In
  <2>2. ask[c].wallet # Null => Holders(ask[c].wallet, users) = {i}
    BY <1>4 DEF HoldersOf, Holders, Existing, In
  <2>3. /\ r \in AskRecords /\ r.at = "open" /\ r.user = i /\ r.wallet = ask[c].wallet
    BY <1>0, <2>1 DEF AskRecords, AskLabels
  <2>4. Await(c, r)
    BY <1>4 DEF Opens
  <2> HIDE DEF r
  <2>5. Sound(r, users)
    BY <2>1, <2>2, <2>3, NullApart DEF Sound
  <2> QED BY <1>0, <1>4, <2>4, <2>5, AskStep
<1>5. CASE FindName(c)
  <2>1. CASE Await(c, [ask[c] EXCEPT !.at = "create"])
    <3> DEFINE r == [ask[c] EXCEPT !.at = "create"]
    <3>1. Sound(r, users)
      BY <1>0, <1>5 DEF FindName, Sound, AskRecords, AskLabels
    <3> HIDE DEF r
    <3> QED BY <1>0, <1>5, <2>1, <3>1, AskStep DEF FindName, r
  <2>2. ASSUME NEW i \in Existing, Opens(c, i) PROVE AccountsInv'
    <3>1. ask[c].wallet = Null
      BY <1>0, <1>5 DEF FindName, Sound
    <3> QED BY <1>4, <1>5, <2>2, <3>1 DEF FindName
  <2> QED BY <1>5, <2>1, <2>2 DEF FindName
<1>6. CASE FindWallet(c)
  <2>1. CASE Await(c, [ask[c] EXCEPT !.at = "try_name", !.name = <<ShortAddress[ask[c].wallet], 0>>])
    <3> DEFINE n == <<ShortAddress[ask[c].wallet], 0>>
               r == [ask[c] EXCEPT !.at = "try_name", !.name = n]
    <3>1. ask[c].wallet \in Wallets /\ n \in Names
      BY <1>0, <1>6, AccountAssumption DEF FindWallet, Sound, Names
    <3> HIDE DEF n
    <3>2. Sound(r, users)
      BY <1>0, <3>1 DEF Sound, AskRecords, AskLabels
    <3>3. Await(c, r)
      BY <2>1 DEF n
    <3> HIDE DEF r
    <3> QED BY <1>0, <1>6, <3>2, <3>3, AskStep DEF FindWallet
  <2>2. ASSUME NEW i \in HoldersOf(ask[c].wallet), Opens(c, i) PROVE AccountsInv'
    <3>1. i \in Existing
      BY <2>2 DEF HoldersOf
    <3>2. ask[c].wallet # Null => HoldersOf(ask[c].wallet) = {i}
      BY <2>2 DEF AccountsInv, OneHolder, HoldersOf, Existing, In
    <3> QED BY <1>4, <1>6, <2>2, <3>1, <3>2 DEF FindWallet
  <2> QED BY <1>6, <2>1, <2>2 DEF FindWallet
<1>7. CASE TryName(c)
  <2> DEFINE next == [ask[c] EXCEPT !.name[2] = @ + 1]
             free == [ask[c] EXCEPT !.at = "create"]
  <2>1. ask[c].name \in Names /\ ask[c].wallet \in Wallets /\ ask[c].at = "try_name"
    BY <1>0, <1>7 DEF TryName, Sound
  <2>2. [ask[c].name EXCEPT ![2] = @ + 1] \in Names
    BY <2>1 DEF Names
  <2>3. Sound(next, users)
    <3>1. next = [ask[c] EXCEPT !.name = [ask[c].name EXCEPT ![2] = @ + 1]]
      OBVIOUS
    <3> HIDE DEF next
    <3> QED BY <1>0, <2>1, <2>2, <3>1 DEF Sound, AskRecords, AskLabels
  <2>4. Sound(free, users)
    BY <1>0, <2>1 DEF Sound, AskRecords, AskLabels
  <2>5. Await(c, next) \/ Await(c, free)
    BY <1>7 DEF TryName
  <2> HIDE DEF next, free
  <2> QED BY <1>0, <1>7, <2>3, <2>4, <2>5, AskStep DEF TryName
<1>8. CASE OpenSession(c)
  <2>1. ask[c].user \in In(users)
    BY <1>0, <1>8 DEF OpenSession, Sound
  <2>2. signedIn' \in [Clients -> In(users) \cup {Null}]
    BY <1>0, <1>8, <2>1 DEF OpenSession
  <2> QED BY <1>0, <1>8, <2>2, NoAskSound, AskStep DEF OpenSession, Done
<1>9. CASE LinkFind(c)
  <2> DEFINE r == [ask[c] EXCEPT !.at = "link_update"]
  <2>1. Sound(r, users)
    BY <1>0, <1>9 DEF LinkFind, Sound, AskRecords, AskLabels
  <2>2. Await(c, r) \/ Await(c, NoAsk)
    BY <1>9 DEF LinkFind, Done
  <2> HIDE DEF r
  <2> QED BY <1>0, <1>9, <2>1, <2>2, NoAskSound, AskStep DEF LinkFind
<1>10. CASE SignOut(c)
  <2>1. signedIn' \in [Clients -> In(users) \cup {Null}]
    BY <1>0, <1>10 DEF SignOut
  <2> QED BY <1>10, <2>1 DEF SignOut, AccountsInv
<1>11. CASE Aborted(c)
  BY <1>0, <1>11, NoAskSound, AskStep DEF Aborted, Done
<1> QED BY <1>1, <1>2, <1>3, <1>5, <1>6, <1>7, <1>8, <1>9, <1>10, <1>11,
           CreateKeeps, LinkUpdateKeeps DEF AccountStep

LEMMA AccountsHold == AccountsSpec => []AccountsInv
<1>1. InitAccounts => AccountsInv
  BY NoAskSound DEF InitAccounts, AccountsInv, Tables, OneHolder, In, Sound
<1>2. AccountsInv /\ [AccountsNext]_allVars => AccountsInv'
  <2> SUFFICES ASSUME AccountsInv, [AccountsNext]_allVars PROVE AccountsInv'
    OBVIOUS
  <2>1. CASE UNCHANGED accountVars
    BY <2>1 DEF AccountsInv, accountVars
  <2> QED BY <2>1, AskKeeps DEF AccountsNext, allVars
<1> QED BY <1>1, <1>2, PTL DEF AccountsSpec

\* The table, the sessions and the requests stay well typed.
THEOREM AccountTypes == AccountsSpec => []AccountsTypeOK
<1>1. AccountsInv => AccountsTypeOK
  BY DEF AccountsInv, AccountsTypeOK, Tables, In, AskRecords
<1> QED BY <1>1, AccountsHold, PTL

\* However sign-ins and links overlap, a sign-in opens the session of the account
\* that holds the wallet (auth.ts:250-277, users.ts:227-241).
THEOREM SignInsOpenHolders == AccountsSpec => []SignInOpensHolder
<1>1. AccountsInv => SignInOpensHolder
  BY DEF AccountsInv, SignInOpensHolder, Opening, Sound, Holders, HoldersOf, In, Existing
<1> QED BY <1>1, AccountsHold, PTL

\* The accounts leave the sessions of a browser as they are, so that what is
\* proved of Spec holds of both together.
THEOREM SessionsUndisturbed == AccountsSpec => Spec
<1>1. [AccountsNext]_allVars => [Next]_vars
  BY DEF AccountsNext, allVars
<1> QED BY <1>1, PTL DEF AccountsSpec, Spec
===============================================================================
