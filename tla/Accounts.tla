------------------------------- MODULE Accounts -------------------------------
(***************************************************************************)
(* Whose session a sign-in opens: finding or creating the account of a     *)
(* name or of a wallet (routes/auth.ts), and linking a wallet to an        *)
(* account (routes/users.ts).  Sessions goes on from there, with the       *)
(* tokens of one browser; here several clients ask at the same time, each  *)
(* of them one request.  As there, every await is an interleaving point,   *)
(* and nothing but the unique keys of the table joins a check to the write *)
(* that follows it.                                                        *)
(*                                                                         *)
(* Names and addresses are meant in lower case, as they are stored.  A     *)
(* name is what somebody typed or the short address of a wallet, with the  *)
(* number behind it.  Users are never deleted.                             *)
(***************************************************************************)
EXTENDS Sessions

CONSTANTS
  Clients,       \* clients of the API
  Ids,           \* user ids
  Wallets,       \* addresses
  Keys,          \* the wallets whose keys a client has
  Bases,         \* names without the number behind them
  ShortAddress,  \* the first eight characters of an address
  TypedNames,    \* the names people sign in with
  MaxAsks        \* bound: requests in a run

Names == Bases \X Nat

ASSUME AccountAssumption ==
  /\ Keys \in [Clients -> SUBSET Wallets]
  /\ ShortAddress \in [Wallets -> Bases]
  /\ TypedNames \subseteq Names
  /\ Null \notin Names \cup Wallets \cup Ids
  /\ MaxAsks \in Nat

VARIABLES
  users,      \* the table users
  signedIn,   \* the account of each client's session, or Null
  ask,        \* the request of each client
  asked       \* bound: requests so far

accountVars == <<users, signedIn, ask, asked>>
allVars == <<vars, accountVars>>

(***************************************************************************)
(* The table                                                               *)
(***************************************************************************)

\* origin is authProviderId: the wallet an account was created for.  Accounts
\* made for a name have a random one instead.
User == [name : Names, wallet : Wallets \cup {Null}, origin : Wallets \cup {Null}]

NoUser == [name |-> Null, wallet |-> Null, origin |-> Null]

Existing == {i \in Ids : users[i] # NoUser}

HoldersOf(a) == {i \in Existing : users[i].wallet = a}

\* Variant for the checks: the table has no unique wallet and no unique origin.
Free_NameOnly(row, i) == \A j \in Existing \ {i} : users[j].name # row.name

\* The unique keys let row i become this row, or a new one if i is Null.
Free(row, i) ==
  \A j \in Existing \ {i} :
    /\ users[j].name # row.name
    /\ row.wallet # Null => users[j].wallet # row.wallet
    /\ row.origin # Null => users[j].origin # row.origin

(***************************************************************************)
(* Requests                                                                *)
(***************************************************************************)

\* moved is history: the account a sign-in has found was linked to another
\* wallet since.
NoAsk == [at |-> "idle", wallet |-> Null, name |-> Null, user |-> Null, moved |-> FALSE]

InitAccounts ==
  /\ users = [i \in Ids |-> NoUser]
  /\ signedIn = [c \in Clients |-> Null]
  /\ ask = [c \in Clients |-> NoAsk]
  /\ asked = 0

Await(c, a) == ask' = [ask EXCEPT ![c] = a]

Done(c) == Await(c, NoAsk)

Send(c, a) ==
  /\ ask[c].at = "idle"
  /\ asked < MaxAsks /\ asked' = asked + 1
  /\ Await(c, a)
  /\ UNCHANGED <<users, signedIn>>

\* The texts that are signed: what the page of the web application signs is not
\* what the server expects.
AuthText == "Sign this message to authenticate with StreamTree:"
LinkText == "Sign this message to link your wallet to StreamTree:"
PageText == "Sign in to StreamTree"
Texts == {AuthText, LinkText, PageText}

verifyWalletSignature(c, a, text) == text = AuthText /\ a \in Keys[c]

verifyWalletLinkSignature(c, a, text) == text = LinkText /\ a \in Keys[c]

(***************************************************************************)
(* POST /auth/custodial, POST /auth/wallet                                 *)
(***************************************************************************)

SignInByName(c, name) ==
  Send(c, [NoAsk EXCEPT !.at = "find_name", !.name = name])

SignInByWallet(c, a, text) ==
  /\ verifyWalletSignature(c, a, text)
  /\ Send(c, [NoAsk EXCEPT !.at = "find_wallet", !.wallet = a])

Opens(c, i) == Await(c, [ask[c] EXCEPT !.at = "open", !.user = i])

FindName(c) ==
  LET found == {i \in Existing : users[i].origin = Null /\ users[i].name = ask[c].name} IN
  /\ ask[c].at = "find_name"
  /\ \/ \E i \in found : Opens(c, i)
     \/ found = {} /\ Await(c, [ask[c] EXCEPT !.at = "create"])
  /\ UNCHANGED <<users, signedIn, asked>>

FindWallet(c) ==
  LET a == ask[c].wallet IN
  /\ ask[c].at = "find_wallet"
  /\ \/ \E i \in HoldersOf(a) : Opens(c, i)
     \/ /\ HoldersOf(a) = {}
        /\ Await(c, [ask[c] EXCEPT !.at = "try_name", !.name = <<ShortAddress[a], 0>>])
  /\ UNCHANGED <<users, signedIn, asked>>

\* Numbers are tried one by one until a name is free.
TryName(c) ==
  LET taken == \E i \in Existing : users[i].name = ask[c].name IN
  /\ ask[c].at = "try_name"
  /\ Await(c, IF taken THEN [ask[c] EXCEPT !.name[2] = @ + 1]
                       ELSE [ask[c] EXCEPT !.at = "create"])
  /\ UNCHANGED <<users, signedIn, asked>>

\* The account is created, or a unique key rejects it and the answer is 409.
Create(c) ==
  LET a   == ask[c].wallet
      row == [name |-> ask[c].name, wallet |-> a, origin |-> a]
  IN  /\ ask[c].at = "create"
      /\ \/ /\ Free(row, Null)
            /\ \E i \in Ids \ Existing :
                 users' = [users EXCEPT ![i] = row] /\ Opens(c, i)
         \/ ~Free(row, Null) /\ Done(c) /\ UNCHANGED users
      /\ UNCHANGED <<signedIn, asked>>

\* A refresh token is stored and the cookies are set: LoginSend of Sessions.
OpenSession(c) ==
  /\ ask[c].at = "open"
  /\ signedIn' = [signedIn EXCEPT ![c] = ask[c].user]
  /\ Done(c)
  /\ UNCHANGED <<users, asked>>

\* A logout, or the session has expired.
SignOut(c) ==
  /\ ask[c].at = "idle" /\ signedIn[c] # Null
  /\ signedIn' = [signedIn EXCEPT ![c] = Null]
  /\ UNCHANGED <<users, ask, asked>>

(***************************************************************************)
(* POST /users/me/wallet                                                   *)
(***************************************************************************)

\* authMiddleware: req.user.
Authenticated(c) == signedIn[c] # Null

LinkWallet(c, a, text) ==
  /\ Authenticated(c)
  /\ verifyWalletLinkSignature(c, a, text)
  /\ Send(c, [NoAsk EXCEPT !.at = "link_find", !.wallet = a, !.user = signedIn[c]])

LinkFind(c) ==
  /\ ask[c].at = "link_find"
  /\ IF HoldersOf(ask[c].wallet) \subseteq {ask[c].user}
       THEN Await(c, [ask[c] EXCEPT !.at = "link_update"])
       ELSE Done(c)
  /\ UNCHANGED <<users, signedIn, asked>>

LinkUpdate(c) ==
  LET i   == ask[c].user
      a   == ask[c].wallet
      row == [users[i] EXCEPT !.wallet = a]
      Told(d) == [ask[d] EXCEPT !.moved = @ \/ (ask[d].user = i /\ ask[d].wallet # a)]
  IN  /\ ask[c].at = "link_update"
      /\ \/ /\ Free(row, i)
            /\ users' = [users EXCEPT ![i] = row]
            /\ ask' = [d \in Clients |-> IF d = c THEN NoAsk ELSE Told(d)]
         \/ ~Free(row, i) /\ Done(c) /\ UNCHANGED users
      /\ UNCHANGED <<signedIn, asked>>

(***************************************************************************)
(* Specification                                                           *)
(***************************************************************************)

\* A query rejects, or the process dies: what was written stays.
Aborted(c) ==
  /\ ask[c].at # "idle"
  /\ Done(c)
  /\ UNCHANGED <<users, signedIn, asked>>

AccountStep(c) ==
  \/ \E name \in TypedNames : SignInByName(c, name)
  \/ \E a \in Wallets, text \in Texts : SignInByWallet(c, a, text) \/ LinkWallet(c, a, text)
  \/ FindName(c) \/ FindWallet(c) \/ TryName(c) \/ Create(c) \/ OpenSession(c)
  \/ LinkFind(c) \/ LinkUpdate(c)
  \/ SignOut(c) \/ Aborted(c)

AccountsNext ==
  \/ Next /\ UNCHANGED accountVars
  \/ \E c \in Clients : AccountStep(c) /\ UNCHANGED vars

AccountsSpec == Init /\ InitAccounts /\ [][AccountsNext]_allVars

(***************************************************************************)
(* Properties                                                              *)
(***************************************************************************)

AskLabels == {"idle", "find_name", "find_wallet", "try_name", "create", "open",
              "link_find", "link_update"}

\* Types of the table, the sessions and the requests.
AccountsTypeOK ==
  /\ users \in [Ids -> User \cup {NoUser}]
  /\ signedIn \in [Clients -> Ids \cup {Null}]
  /\ ask \in [Clients -> [at : AskLabels, wallet : Wallets \cup {Null},
                          name : Names \cup {Null}, user : Ids \cup {Null},
                          moved : BOOLEAN]]
  /\ asked \in Nat

Opening == {c \in Clients : ask[c].at = "open" /\ ask[c].wallet # Null}

\* A sign-in opens the session of the one account that holds the wallet, however
\* first sign-ins with it, on two devices perhaps, and links overlap: the lookup
\* and the creation are two queries (auth.ts:251, 266), and so are the check and
\* the update of a link (users.ts:228, 236).  The exception is an account that is
\* linked to another wallet while the sign-in that has found it is answered.
SignInOpensHolder ==
  \A c \in Opening : ~ask[c].moved => HoldersOf(ask[c].wallet) = {ask[c].user}

\* "Find or create user" (auth.ts:250): a wallet that no account holds can
\* be given one.  An account keeps the authProviderId it was created with, so a
\* wallet whose account was linked to another finds nothing and creates nothing.
FindOrCreate ==
  (\A c \in Clients : ask[c].at = "idle") =>
     \A a \in Wallets : HoldersOf(a) # {} \/ \A i \in Existing : users[i].origin # a
===============================================================================
