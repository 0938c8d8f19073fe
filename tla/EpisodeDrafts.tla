---------------------------- MODULE EpisodeDrafts ----------------------------
(***************************************************************************)
(* An episode before it is live: creating, changing and deleting drafts,   *)
(* their event definitions and the streamer's templates, and the launch,   *)
(* which asks ChainBridge for the root token; with the requests that call  *)
(* the chain client later on.  Requests of one streamer overlap, and each  *)
(* handler reads the rows it checks some awaits before it writes.  A step  *)
(* is what a handler does between two awaits.                              *)
(*                                                                         *)
(* `text` stands for what an event definition says, `settings` for the     *)
(* name, price, cap, grid size and artwork of an episode; a value that the *)
(* validation refuses never reaches the model, but for those of templates, *)
(* which are not validated.                                                *)
(***************************************************************************)
EXTENDS ChainBridge, FiniteSetsExt

CONSTANTS
  Defs, Templates, Texts, Settings,
  Valid,          \* the settings the validators accept
  MaxOrder,       \* bound: sort orders a request may ask for
  MaxStarts       \* bound: requests in a run

ASSUME ValidSettings == Valid \subseteq Settings /\ Valid # {}
ASSUME OrdersAreNat == MaxOrder \in Nat /\ MaxStarts \in Nat

VARIABLES
  status,         \* episodes.status, "free" or "deleted"
  settings,
  column,         \* rootTokenId, branchTokenId, fruitTokenId: 0 for null
  asked,          \* branches whose handler has come to the chain
  defs,           \* event_definitions: [episode, text, order], or Null before it is created
  templates,      \* templates: [events, settings], or Null
  configured,     \* isBlockchainConfigured() and the user has a wallet
  req,            \* the requests in flight
  early,          \* requests that were in flight on an episode at its launch
  starts

columns   == <<column, asked>>
rowVars   == <<status, settings>>
draftVars == <<status, settings, columns, defs, templates>>
vars == <<draftVars, bridgeVars, faults, configured, req, early, starts>>

\* What a handler has read and keeps: a definition, a number (a sort order, or
\* the id of a root), a template.
Idle == [pc |-> "idle", kind |-> Null, key |-> Null, def |-> Null, number |-> 0, seen |-> Null]

\* A deleted row; its id is not used again.
GoneDef == [episode |-> Null, text |-> Null, order |-> 0]
GoneTemplate == [events |-> <<>>, settings |-> Null]

Existing == {e \in Episodes : status[e] \in {"draft", "live", "ended"}}
DefsOf(e) == {d \in Defs : defs[d] # Null /\ defs[d].episode = e}
Stored(t) == templates[t] \notin {Null, GoneTemplate}

InitRest ==
  /\ InitBridge
  /\ column = [j \in Jobs |-> 0] /\ asked = {}
  /\ configured \in BOOLEAN
  /\ req = [r \in Requests |-> Idle]
  /\ early = [e \in Episodes |-> {}]

Init ==
  /\ InitRest
  /\ status = [e \in Episodes |-> "free"]
  /\ settings \in [Episodes -> Valid]
  /\ defs = [d \in Defs |-> Null]
  /\ templates = [t \in Templates |-> Null]
  /\ starts = 0

-----------------------------------------------------------------------------
(* The course of a request *)

\* The first read of a handler: k is the row it is about.
Start(r, kind, k) ==
  /\ req[r].pc = "idle" /\ starts < MaxStarts /\ starts' = starts + 1
  /\ req' = [req EXCEPT ![r] = [Idle EXCEPT !.pc = "checked", !.kind = kind, !.key = k]]
  /\ UNCHANGED <<draftVars, bridgeVars, faults, configured, early>>

At(r, kind, pc) == req[r].kind = kind /\ req[r].pc = pc

\* The request is answered, with success or with an error.
Finish(r) ==
  /\ req' = [req EXCEPT ![r] = Idle]
  /\ early' = [e \in Episodes |-> early[e] \ {r}]
  /\ UNCHANGED <<configured, starts>>

NoBridge == UNCHANGED <<bridgeVars, faults>>

-----------------------------------------------------------------------------
(* Drafts *)

\* POST /: a fresh share code, valid settings, no events.
Create(e, v) ==
  /\ status[e] = "free" /\ starts < MaxStarts /\ starts' = starts + 1
  /\ status' = [status EXCEPT ![e] = "draft"]
  /\ settings' = [settings EXCEPT ![e] = v]
  /\ NoBridge /\ UNCHANGED <<columns, defs, templates, configured, req, early>>

\* Variant for the checks: the status is not looked at.
IsDraft_Any(e) == e \in Existing

\* What the handlers of drafts check on the row they read first.
IsDraft(e) == status[e] = "draft"

\* PATCH /:id: the row is checked ...
PatchRead(r, e) == IsDraft(e) /\ Start(r, "patch", e)

\* ... and written, whatever has become of it; if it is gone, an error.
PatchWrite(r, v) ==
  /\ At(r, "patch", "checked")
  /\ settings' = [settings EXCEPT ![req[r].key] =
                    IF req[r].key \in Existing THEN v ELSE settings[req[r].key]]
  /\ Finish(r) /\ NoBridge
  /\ UNCHANGED <<status, columns, defs, templates>>

DeleteRead(r, e) == IsDraft(e) /\ Start(r, "delete", e)

\* DELETE /:id takes the event definitions along (onDelete: Cascade).
DeleteWrite(r) ==
  /\ At(r, "delete", "checked")
  /\ LET e == req[r].key IN
     IF e \in Existing
     THEN /\ status' = [status EXCEPT ![e] = "deleted"]
          /\ defs' = [d \in Defs |-> IF d \in DefsOf(e) THEN GoneDef ELSE defs[d]]
     ELSE UNCHANGED <<status, defs>>
  /\ Finish(r) /\ NoBridge
  /\ UNCHANGED <<settings, columns, templates>>

-----------------------------------------------------------------------------
(* Event definitions *)

Orders(e) == {defs[d].order : d \in DefsOf(e)}

AddRead(r, e) == IsDraft(e) /\ Start(r, "add", e)

\* POST /:id/events: the largest sortOrder is read ...
AddOrder(r) ==
  /\ At(r, "add", "checked")
  /\ LET e == req[r].key
         next == IF Orders(e) = {} THEN 0 ELSE Max(Orders(e)) + 1
     IN  /\ next <= MaxOrder
         /\ req' = [req EXCEPT ![r] = [req[r] EXCEPT !.pc = "ordered", !.number = next]]
  /\ NoBridge /\ UNCHANGED <<draftVars, configured, early, starts>>

\* ... and the row is created; of a deleted episode, the database refuses it.
AddCreate(r, d, x) ==
  /\ At(r, "add", "ordered") /\ defs[d] = Null
  /\ defs' = IF req[r].key \in Existing
             THEN [defs EXCEPT ![d] = [episode |-> req[r].key, text |-> x, order |-> req[r].number]]
             ELSE defs
  /\ Finish(r) /\ NoBridge
  /\ UNCHANGED <<rowVars, columns, templates>>

EditRead(r, e, kind) == kind \in {"edit", "remove"} /\ IsDraft(e) /\ Start(r, kind, e)

\* PATCH and DELETE /:id/events/:eventId: the definition is found ...
EditFind(r, d) ==
  /\ req[r].kind \in {"edit", "remove"} /\ req[r].pc = "checked"
  /\ d \in DefsOf(req[r].key)
  /\ req' = [req EXCEPT ![r] = [req[r] EXCEPT !.pc = "found", !.def = d]]
  /\ NoBridge /\ UNCHANGED <<draftVars, configured, early, starts>>

\* ... or is not one of the episode, or not any more.
EditNotFound(r) ==
  /\ req[r].kind \in {"edit", "remove"} /\ req[r].pc = "checked"
  /\ Finish(r) /\ NoBridge /\ UNCHANGED draftVars

EditWrite(r, x, o) ==
  /\ At(r, "edit", "found")
  /\ defs' = [defs EXCEPT ![req[r].def] =
                IF defs[req[r].def] = GoneDef THEN GoneDef
                ELSE [episode |-> defs[req[r].def].episode, text |-> x, order |-> o]]
  /\ Finish(r) /\ NoBridge
  /\ UNCHANGED <<rowVars, columns, templates>>

RemoveWrite(r) ==
  /\ At(r, "remove", "found")
  /\ defs' = [defs EXCEPT ![req[r].def] = GoneDef]
  /\ Finish(r) /\ NoBridge
  /\ UNCHANGED <<rowVars, columns, templates>>

-----------------------------------------------------------------------------
(* Templates *)

\* findMany with orderBy sortOrder: rows of equal order come in any order.
Listed(e) ==
  {[i \in DOMAIN q |-> defs[q[i]].text] :
     q \in {p \in SetToSeqs(DefsOf(e)) :
              \A i, j \in DOMAIN p : i < j => defs[p[i]].order <= defs[p[j]].order}}

\* POST /templates
TemplateCreate(t, events, v) ==
  /\ templates[t] = Null /\ starts < MaxStarts /\ starts' = starts + 1
  /\ events # <<>>
  /\ templates' = [templates EXCEPT ![t] = [events |-> events, settings |-> v]]
  /\ NoBridge /\ UNCHANGED <<rowVars, columns, defs, configured, req, early>>

TemplateRead(r, t, kind) ==
  /\ kind \in {"t_patch", "t_delete"} /\ Stored(t) /\ Start(r, kind, t)

\* PATCH and DELETE /templates/:id, an error when it is gone.
TemplatePatch(r, events, v) ==
  /\ At(r, "t_patch", "checked") /\ events # <<>>
  /\ templates' = [templates EXCEPT ![req[r].key] =
                     IF ~Stored(req[r].key) THEN GoneTemplate
                     ELSE [events |-> events, settings |-> v]]
  /\ Finish(r) /\ NoBridge /\ UNCHANGED <<rowVars, columns, defs>>

TemplateDelete(r) ==
  /\ At(r, "t_delete", "checked")
  /\ templates' = [templates EXCEPT ![req[r].key] = GoneTemplate]
  /\ Finish(r) /\ NoBridge /\ UNCHANGED <<rowVars, columns, defs>>

\* POST /templates/from-episode/:episodeId: the list is read ...
SaveRead(r, e) ==
  /\ e \in Existing /\ req[r].pc = "idle" /\ starts < MaxStarts /\ starts' = starts + 1
  /\ \E list \in Listed(e) :
       req' = [req EXCEPT ![r] = [Idle EXCEPT !.pc = "checked", !.kind = "t_save",
                                              !.key = e,
                                              !.seen = [events |-> list, settings |-> settings[e]]]]
  /\ NoBridge /\ UNCHANGED <<draftVars, configured, early>>

\* ... and the template created, also an empty one.
SaveCreate(r, t) ==
  /\ At(r, "t_save", "checked") /\ templates[t] = Null
  /\ templates' = [templates EXCEPT ![t] = req[r].seen]
  /\ Finish(r) /\ NoBridge /\ UNCHANGED <<rowVars, columns, defs>>

\* POST /templates/:id/use: the template is read ...
UseRead(r, t) ==
  /\ Stored(t) /\ req[r].pc = "idle" /\ starts < MaxStarts /\ starts' = starts + 1
  /\ req' = [req EXCEPT ![r] = [Idle EXCEPT !.pc = "checked", !.kind = "t_use",
                                             !.key = t, !.seen = templates[t]]]
  /\ NoBridge /\ UNCHANGED <<draftVars, configured, early>>

\* ... and a draft is created with all its events in one nested write; what
\* settings it gets is not validated.
UseCreate(r, e, v) ==
  /\ At(r, "t_use", "checked") /\ status[e] = "free"
  /\ \E ids \in kSubset(Len(req[r].seen.events), {d \in Defs : defs[d] = Null}) :
       LET at == SetToSeq(ids) IN
       defs' = [d \in Defs |->
                  IF d \in ids
                  THEN LET i == CHOOSE n \in DOMAIN at : at[n] = d
                       IN  [episode |-> e, text |-> req[r].seen.events[i], order |-> i - 1]
                  ELSE defs[d]]
  /\ status' = [status EXCEPT ![e] = "draft"] /\ settings' = [settings EXCEPT ![e] = v]
  /\ Finish(r) /\ NoBridge /\ UNCHANGED <<columns, templates>>

-----------------------------------------------------------------------------
(* Launch, end and the tokens of cards *)

LaunchRead(r, e) == IsDraft(e) /\ DefsOf(e) # {} /\ Start(r, "launch", e)

EndRead(r, e) ==
  /\ status[e] = "live" /\ req[r].pc = "idle" /\ starts < MaxStarts /\ starts' = starts + 1
  /\ req' = [req EXCEPT ![r] = [Idle EXCEPT !.pc = "checked", !.kind = "end", !.key = e,
                                             !.number = column[Job("root", e)]]]
  /\ NoBridge /\ UNCHANGED <<draftVars, configured, early>>

\* The launch asks for a root; the end ends the root its row names.
Calls(r) ==
  \/ At(r, "launch", "checked") /\ configured /\ Begin(r, Job("root", req[r].key))
  \/ At(r, "end", "checked") /\ req[r].number # 0
     /\ Begin(r, Job("end", req[r].key))

AskChain(r) ==
  /\ Calls(r)
  /\ req' = [req EXCEPT ![r] = [req[r] EXCEPT !.pc = "chain"]]
  /\ UNCHANGED <<draftVars, chainVars, faults, configured, early, starts>>

\* The handler goes on without the chain, or with what the call returned.
Answered(r, kind, skips) ==
  \/ At(r, kind, "checked") /\ skips
  \/ At(r, kind, "chain") /\ call[r].pc = "back"

\* Requests past their read of e's row.
InFlightOn(e) == {q \in Requests : req[q].pc # "idle" /\ req[q].key = e}

\* The row is written, whatever has become of it, with the root of this very
\* request, also when another launch has stored one.
LaunchSave(r) ==
  /\ Answered(r, "launch", ~configured)
  /\ LET e == req[r].key IN
     /\ IF e \in Existing
        THEN /\ status' = [status EXCEPT ![e] = "live"]
             /\ column' = [column EXCEPT ![Job("root", e)] = call[r].id]
        ELSE UNCHANGED <<status, column>>
     /\ doubt' = IF r \in early[e] THEN doubt \cup {Job("root", e)} ELSE doubt
     /\ early' = [x \in Episodes |->
                    (IF x = e /\ status[e] = "draft" THEN InFlightOn(e) ELSE early[x]) \ {r}]
  /\ req' = [req EXCEPT ![r] = Idle] /\ call' = [call EXCEPT ![r] = NoCall]
  /\ UNCHANGED <<settings, asked, defs, templates, chainVars, faults, configured, starts>>

EndSave(r) ==
  /\ Answered(r, "end", req[r].number = 0)
  /\ status' = [status EXCEPT ![req[r].key] = IF req[r].key \in Existing THEN "ended" ELSE @]
  /\ call' = [call EXCEPT ![r] = NoCall]
  /\ Finish(r)
  /\ UNCHANGED <<settings, columns, defs, templates, chainVars, doubt, faults>>

\* The mint of a card asks for its branch once, right after creating it, and
\* the end for the fruit of a card that has a branch and none yet; here a batch
\* holds one card.
TokenCall(r, j) ==
  /\ req[r].pc = "idle" /\ starts < MaxStarts /\ starts' = starts + 1
  /\ LET e == EpisodeOf[j.key] IN
     \/ /\ j.op = "branch" /\ status[e] = "live" /\ column[Job("root", e)] # 0
        /\ j \notin asked /\ asked' = asked \cup {j}
     \/ /\ j.op = "fruit" /\ status[e] = "ended" /\ column[Job("branch", j.key)] # 0
        /\ column[j] = 0 /\ UNCHANGED asked
  /\ req' = [req EXCEPT ![r] = [Idle EXCEPT !.pc = "chain", !.kind = "token", !.key = j]]
  /\ Begin(r, j)
  /\ UNCHANGED <<rowVars, column, defs, templates, chainVars, faults, configured, early>>

\* The card is updated when the call returned an id.
TokenSave(r) ==
  /\ At(r, "token", "chain") /\ call[r].pc = "back"
  /\ column' = IF call[r].id = 0 THEN column ELSE [column EXCEPT ![req[r].key] = call[r].id]
  /\ call' = [call EXCEPT ![r] = NoCall]
  /\ Finish(r)
  /\ UNCHANGED <<rowVars, asked, defs, templates, chainVars, doubt, faults>>

\* The process stops; no one knows what became of the calls.
Crash ==
  /\ Fault
  /\ doubt' = doubt \cup {call[r].job : r \in {q \in Requests : call[q].pc # "none"}}
  /\ call' = [r \in Requests |-> NoCall]
  /\ req' = [r \in Requests |-> Idle] /\ early' = [e \in Episodes |-> {}]
  /\ UNCHANGED <<draftVars, chainVars, configured, starts>>

-----------------------------------------------------------------------------
Lists == {<<x>> : x \in Texts}

DraftStep(r) ==
  \/ DeleteWrite(r) \/ AddOrder(r) \/ EditNotFound(r) \/ RemoveWrite(r)
  \/ \E v \in Valid : PatchWrite(r, v)
  \/ \E d \in Defs : EditFind(r, d) \/ (\E x \in Texts : AddCreate(r, d, x))
  \/ \E x \in Texts, o \in 0..MaxOrder : EditWrite(r, x, o)

TemplateStep(r) ==
  \/ TemplateDelete(r)
  \/ \E events \in Lists, v \in Settings : TemplatePatch(r, events, v)
  \/ \E t \in Templates : SaveCreate(r, t)
  \/ \E e \in Episodes, v \in Settings : UseCreate(r, e, v)

HandlerStep(r) == AskChain(r) \/ LaunchSave(r) \/ EndSave(r) \/ TokenSave(r)

BridgeMoves(r) ==
  BridgeStep(r) /\ UNCHANGED <<draftVars, configured, req, early, starts>>

Arrives(r) ==
  \/ \E e \in Episodes :
       \/ PatchRead(r, e) \/ DeleteRead(r, e) \/ AddRead(r, e)
       \/ \E kind \in {"edit", "remove"} : EditRead(r, e, kind)
       \/ SaveRead(r, e) \/ LaunchRead(r, e) \/ EndRead(r, e)
  \/ \E t \in Templates : UseRead(r, t) \/ (\E kind \in {"t_patch", "t_delete"} : TemplateRead(r, t, kind))
  \/ \E j \in {k \in Jobs : k.op \in {"branch", "fruit"}} : TokenCall(r, j)

Next ==
  \/ \E e \in Episodes, v \in Valid : Create(e, v)
  \/ \E t \in Templates, events \in Lists, v \in Settings : TemplateCreate(t, events, v)
  \/ \E r \in Requests :
       Arrives(r) \/ DraftStep(r) \/ TemplateStep(r) \/ HandlerStep(r) \/ BridgeMoves(r)
  \/ ChainStep /\ UNCHANGED <<draftVars, configured, req, early, starts>>
  \/ Crash

Spec == Init /\ [][Next]_vars

\* An awaited send, receipt or timeout settles; nothing obliges a miner.
Fairness == \A r \in Requests : WF_vars(BridgeMoves(r)) /\ WF_vars(HandlerStep(r))

-----------------------------------------------------------------------------
(* Properties *)

\* What is shown of an episode: its settings and its definitions.
Content(e) == <<settings[e], {<<d, defs[d]>> : d \in DefsOf(e)}, e \in Existing>>

\* After a launch an episode is changed, or deleted, only by requests that were
\* in flight on it when it was launched (episodes.ts:143, 226, 578, 627, 687
\* check the draft on an earlier read), each of them once.
FrozenStep ==
  \A e \in Episodes :
    (status[e] \in {"live", "ended"} /\ Content(e)' # Content(e))
      => \E r \in early[e] : r \notin early'[e]
LaunchFreezes == [][FrozenStep]_vars

\* A token id in the database is the token the chain has for that very episode
\* or card (episodes.ts:284, 411, cards.ts:263): never the one of another call,
\* whatever was sent again, mined late or refused.
ColumnsAreTokens == \A j \in Jobs : column[j] # 0 => column[j] = minted[j]

\* A token that was made and is not in the database (no getter is ever asked for
\* it) has a cause: an attempt that timed out or whose answer was lost, a
\* restart, or another launch of the same draft.  No such token arises from
\* retries and reverts alone (blockchain.service.ts:35-70).
Unclaimed(j) ==
  /\ minted[j] # 0 /\ column[j] = 0
  /\ j.op # "end" /\ (j.op = "root" => j.key \in Existing)
  /\ \A r \in Requests : call[r].job # j
LostTokensHaveACause == \A j \in Jobs : Unclaimed(j) => j \in doubt

\* The calls, and what hangs where, as ChainPromise has them.
Asking(r) ==
  [pc  |-> CASE call[r].pc = "none" -> "none"
             [] call[r].pc = "back" -> "answered"
             [] OTHER               -> "asked",
   job |-> call[r].job,
   id  |-> IF call[r].pc = "back" THEN call[r].id ELSE 0]

Asks == [r \in Requests |-> Asking(r)]

Hung == {p \in Cards \X Episodes : EpisodeOf[p[1]] = p[2] /\ Done("branch", p[1])}

\* Without the chain nobody asks, and nothing can be in doubt.
Doubts == IF configured THEN doubt ELSE {}

Promise == INSTANCE ChainPromise WITH
  token <- minted, hangs <- Hung, asks <- Asks, doubt <- Doubts

\* A call answers with the token of its job or with a failure, and nothing is
\* done for a job that no open call asks for, unless the job is in doubt
\* (blockchain.service.ts:35-70): no timeout, retry, revert or restart makes a
\* second token, or one behind the back of a call that could know.
KeepsChainPromise == [][Promise!PromiseNext]_(Promise!promiseVars)

\* Every call of the chain client comes back, also when no transaction is ever
\* mined: the timeout, and MAX_RETRIES attempts.
CallsReturn == \A r \in Requests : (call[r].pc # "none") ~> (call[r].pc = "none")
=============================================================================
