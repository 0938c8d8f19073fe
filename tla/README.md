# StreamTree, verified

TLA+ models of StreamTree, the platform on which a streamer runs a bingo-like
episode: viewers mint cards, events that happen on stream mark squares, and at
the end of the show the cards become permanent tokens ("fruits"). The modules
are written from the TypeScript and Solidity sources; paths below are relative
to the repository root.

- [The system](#the-system)
- [Modules and code](#modules-and-code)
- [Runs](#runs)
- [Fairness](#fairness)
- [What is proved](#what-is-proved)
- [Where the code and its documents disagree](#where-the-code-and-its-documents-disagree)
- [What is left out](#what-is-left-out)
- [Plan](#plan)

## The system

One Express process (`apps/api`) serves the HTTP routes, the Stripe and Twitch
webhooks and a WebSocket server. It keeps its state in Postgres through Prisma
and calls an EVM contract, Stripe and Twitch. Node runs one handler at a time,
but a handler is a chain of `await`s, and between two awaits every other
handler may run. No handler opens a database transaction: **every await is an
interleaving point, and every query is atomic by itself only.** Handlers
without a `try` around them crash the process on a rejected promise
(Express 4), so a restart in the middle of a handler is a normal event.

| Component | State | Operations | Hard behaviour | What makes it correct |
|---|---|---|---|---|
| Live episode (`routes/episodes.ts`) | `Episode.status`, `cardsMinted`, `rootTokenId` | launch, fire, end | status read before chain calls and written after them; the fruiting loop races mints and firings | status moves forward; every card active at the end is fruited, once and for good |
| Card minting (`routes/cards.ts`) | `Card` rows, one per episode and holder | `POST /cards/mint/:episodeId` | the cap and the fired events are read long before the row is written; the counter is incremented later still | the counter agrees with the table; the cap is overrun by a bounded amount at most |
| Event firing (`routes/episodes.ts`, `routes/webhooks.ts`) | `firedCount`, `FiredEvent` rows, the grid JSON of each card | manual fire, Twitch notification | read-modify-write of each grid; the two paths write counter and log in opposite orders | marks only for fired events, no lost mark, log and counter agree |
| Grids and patterns (`packages/shared`) | none | generate, detect | integer rounding of the event pool | patterns are those of the marks |
| Contract (`packages/contracts/contracts/StreamTree.sol`) | roots, branches, fruits, lookups, ERC-721 owners | create/end root, mint branch, (batch) mint fruit, minters, transfer | three id counters in one id space; duplicates in a batch | one kind per token, one fruit per branch, supply respected, fruits never move |
| Chain client (`services/blockchain.service.ts`) | none of its own | the same calls with timeout and retry | a transaction that is mined after its timeout is sent again | a retry never makes a second token |
| Card payments (`routes/cards.ts`, `routes/webhooks.ts`) | `PendingPayment` rows, `Card.paymentId`, `Episode.totalRevenue` | payment intent, `payment_intent.succeeded`/`failed`, `account.updated` | redelivered webhooks, a restart between charge and card, refunds that fail | a charge ends in one card or one refund, and is counted once |
| Payouts (`routes/payments.ts`) | `Withdrawal` rows, Stripe balance | Connect onboarding, earnings, withdraw | two withdrawals read the same balance; transfer done, record failed | never pay out more than was earned |
| Sessions (`routes/auth.ts`) | `RefreshToken` rows, cookies | login, refresh, logout, `/me`, become-streamer | tabs that share one refresh token; answers out of order | one token buys one successor; a session ends, and stays ended |
| Accounts (`routes/auth.ts`, `routes/users.ts`, `middleware/auth.ts`) | `User` rows with their unique keys, who is signed in | sign in by name or wallet, link a wallet | looking up and creating, checking and linking are separate queries; two columns name the wallet | a sign-in opens the session of the account that holds the wallet |
| Twitch (`routes/twitch.ts`, `services/twitch.service.ts`, `routes/webhooks.ts`) | `oauthStates`, `users.twitchId`, `TwitchSubscription` rows, the cache of secrets | link, disconnect, EventSub create/delete, webhook call | a challenge arrives before its secret is stored; the cache is filled beside the table; two callbacks with one state | a ready cache has every readable secret; a state passes one callback; no firing without a delivery |
| WebSocket (`websocket/server.ts`, `web/src/lib/websocket.ts`, play page, dashboard, overlay) | registry, rooms, the browser's singleton client and its queue, the page | connect, join, leave, broadcast, heartbeat, redial, reload | cut links, redials beside timers, answers that overtake broadcasts | registry and rooms agree; one socket; who has heard of the end never shows "live"; the overlay comes to rest |
| Drafts and templates (`routes/episodes.ts`, `routes/templates.ts`) | draft episodes, event definitions, templates | create, patch, delete, event CRUD, from-episode, use | a draft edited while it is launched | an episode that is live is changed only by requests that were under way |
| Images (`routes/upload.ts`, `services/storage.service.ts`) | files, `artworkUrl`, `artworkHash`, `avatarUrl` | upload, delete, patch | old file deleted, new one stored and the row written in three awaits | the image a row shows exists |
| Rest | | profiles, gallery, public pages, metadata, validation, CSRF, rate limits | single-row reads and writes | |

How they interact: the routes call the chain client and the WebSocket server's
`broadcast...` functions directly; the Twitch webhook fires events on the same
cards as the streamer's console; the Stripe webhook creates the same `Card`
rows as the free mint; launch and end call the contract, whose own `require`s
are the last line of defence (a second root for an episode, a second branch for
a card, a second fruit for a branch).

## Modules and code

### LiveEpisode

One episode from draft to ended, as the handlers run it. A *worker* is a request
in flight: `pc[w]` is the call it awaits (`"mint_create"` is the
`prisma.card.create` of `cards.ts`) and `loc[w]` what it has read so far, the
stale copies included. One action is the code from one await to the next.

| State | Code |
|---|---|
| `status`, `cardsMinted`, `rootTokenId` | columns of `Episode` |
| `cards` | the `Card` table, a function of the holder because of `@@unique([episodeId, holderId])` |
| `cards[u].grid`, `.marked`, `.patterns` | the `grid` JSON and the `patterns` JSON |
| `cards[u].branch`, `.fruit` | `branchTokenId` (as the root it hangs under), `fruitTokenId` with the marks it was minted with |
| `firedCount`, `firedLog` | `EventDefinition.firedCount` (`firedAt` is null while it is 0), `FiredEvent` rows |
| `roots` | root tokens of the episode on chain |
| `lost`, `relaunched`, `raced` | history, not in the code: cards whose handler died before counting them, launches saved on an episode that was launched already, cards that two firings have read and are still to write |
| `faults` | bound, not in the code |

| Handler | Actions |
|---|---|
| `POST /episodes/:id/launch` | `LaunchRead`, `LaunchRoot`, `LaunchSave` |
| `POST /cards/mint/:episodeId` | `MintRead`, `MintReadRoot`, `MintCheckExisting`, `MintCreate`, `MintBranch`, `MintStoreBranch`, `MintCount` |
| `POST /episodes/:id/events/:eventId/fire` | `FireStart`, `FireRead`, `FireCard`*, `FireLog`, `FireCount` |
| Twitch notification | `HookStart`, then per event `HookCount`, `HookRead`, `HookCard`*, `HookLog` |
| `POST /episodes/:id/end` | `EndRead`, `EndRoot`, `EndSave`, `EndReadCards`, (`EndBatch`, `EndFruit`*)*, `EndSweep` |
| a rejected query, a dead process | `DbError`, `HookError`, `Crash` |

Abstractions, each of which keeps the order of reads and writes: the episode is
free (`cardPrice = 0`); the lookup of an event row, which nothing changes while
the episode is live, is part of the handler's first read; a chain call succeeds, fails, or is mined
without the handler learning of it; a user without a wallet is one whose chain
calls fail; a grid is any that the shuffle can deal (each event at most
`ceil(squares/events)` times); a pattern is a set of squares and `Lines` says
which exist. Names, artwork, scores and broadcasts are left out.

`LiveEpisodeProperties` holds everything that is said about it.

### EpisodePromise and LiveEpisodeSerial

`EpisodePromise` is the abstract specification: what a viewer and a streamer
are promised, with atomic launch, mint, fire and end, the cap never exceeded, every
card numbered with its own turn and showing exactly the fired events, every card
fruited at the end. `LiveEpisodeSerial` gives the refinement mapping. The
concrete handlers implement the promise when one request runs at a time
(`serial`); the runs with several workers show which parts survive
interleaving and by how much the others bend.

### StreamTreeContract

`StreamTree.sol`. A transaction is atomic and a failed `require` reverts, so an
action is a successful call. `Fruitable` is the body of the fruiting loop's
checks; `Mintable` is OpenZeppelin's `_mint`, which reverts on an id that has an
owner. The ids are integers up to `MaxId`, and the three counters start where
the constants say, so that the collision of their ranges (root ids reaching
1,000,000, branch ids reaching 1,000,000,000) happens in a small instance.

### TokenLedger and ChainPromise

Two abstract specifications, of what is behind a call of the chain. `TokenLedger`
is what the contract promises the API: four kinds of jobs (make the root of an
episode, end it, make the branch of a card, make its fruit), each done once at
most, in the order of the tree, with a token no other job of its kind has.
`ChainPromise` EXTENDS it with the calls: a call is asked and answered, with the
token of its job or with a failure, and a job is done while a call for it is
open, unless it is in doubt. Retries, transactions, nonces and receipts are gone.

| Abstract | `StreamTreeContract` (`Ledger!`) | `ChainBridge` (`Promise!`) |
|---|---|---|
| `token` | the lookups `episodeToRoot`, `cardToBranch`, `branchToFruit`; the status of the root for an end | `minted` |
| `hangs` | `rootId` of the branches | the episode of a card whose branch is made |
| `asks` | | `call`, without attempts and transactions (`Asks`) |
| `doubt` | | `doubt`, empty without a chain (`Doubts`) |

`KeepsLedger` and `KeepsChainPromise` say that the two modules implement them. Both end
in one ledger: the guards that `ChainBridge` has of the contract (`Allowed`) make
no step the promise of `StreamTree.sol` rules out.

### CardPayments

The paid cards of one live episode: the request for a payment intent and the
Stripe webhook, with `pc` and `loc` as above. A worker is either a payment
request (`Shoppers`) or one delivery of the succeeded event of an intent
(`Intents \X Copies`; with one copy, deliveries of one event follow each other).

| State | Code |
|---|---|
| `live`, `cardsMinted`, `revenue` | `Episode.status`, `cardsMinted`, `totalRevenue` |
| `paidBy` | `Card.paymentId`, by holder because of `@@unique([episodeId, holderId])` |
| `pending` | `PendingPayment.status`; `"late"` is `pending` with its `expiresAt` in the past |
| `buyer`, `charge` | the `userId` in the intent's metadata; Stripe's state of the intent |
| `mail` | events whose 200 Stripe has not seen |
| `flagged` | the `MANUAL_REFUND_REQUIRED` log lines |

| Handler | Actions |
|---|---|
| `POST /cards/mint/:episodeId/payment` | `ShopRead`, `ShopCard`, `ShopPending`, `ShopIntent`, `ShopSave` |
| `payment_intent.succeeded` | `Deliver`, `PayExists`, `PayRead`, `PayRefund`, `PayCreate`, `PayCount`, `PayDone` |
| `payment_intent.payment_failed` | `PayFailed` |
| Stripe, time, the streamer | `Pay`, `Decline`, `Expire`, `EndEpisode` |
| a rejected query, a dead process | `Crash`, and `PayCreate` on a duplicate card |

The webhook's handlers are awaited without a `try`, so a rejected query in them
is an unhandled rejection and ends the process; Stripe then delivers again. An
answer may also arrive too late for Stripe to count (`Acknowledge`). A refund
may be made although `createRefund` reports an error. The grid of a paid card is
made as in `LiveEpisode` and is left out here.

### Withdrawals and PayoutAccount

`PayoutAccount` is the Stripe account of a streamer: the request that creates
it, the events Stripe sends about it and the two columns of the user that a
withdrawal trusts. `Withdrawals` EXTENDS it with the earnings of one episode,
`POST /payments/withdraw/:episodeId` and the page that calls it, with the fee
arithmetic in whole cents (`Round` is `Math.round`).

| State | Code |
|---|---|
| `linked`, `enabled` | `User.stripeAccountId`, `stripePayoutsEnabled` |
| `onStripe`, `invited`, `events` | Stripe: accounts, onboarding links, unacknowledged `account.updated` events |
| `connect` | requests to `POST /payments/connect` |
| `ended`, `revenue` | the two columns of `Episode` that the balance is computed from |
| `state`, `net`, `gross` | `Withdrawal` rows |
| `view` | what each tab of the page shows |
| `pc`, `loc` | withdraw requests |
| `transferred` | cents Stripe has moved; `misfiled` counts those whose row ended as failed |

| Handler | Actions |
|---|---|
| `POST /payments/connect` | `ConnectRead`, `ConnectLink`, or `ConnectCreate`, `ConnectInvite`, `ConnectSave` |
| `account.updated` | `HandleAccountUpdated`; Stripe's side is `AccountChanges` |
| `GET /payments/settings`, `/earnings` and the page | `LoadSettings`, `LoadEarnings` |
| the button, `POST /payments/withdraw/:episodeId` | `DrawUser`, `DrawRead`, `DrawCreate`, `DrawTransfer`, `DrawDone`, `DrawFailed` |
| a paid card, the end of the show, a restart | `Earn`, `EndEpisode`, `Crash` |

`createTransfer` moves the money, or fails, or moves it and loses the answer.

### Sessions

The refresh tokens and cookies of one user in one browser. A *tab* has one
request in flight; all tabs share the cookies, and an answer changes them when
it arrives, so answers may overtake each other.

| State | Code |
|---|---|
| `rows` | `RefreshToken` rows by token; `start` is `createdAt`; `session` and `login` are history |
| `issued` | the `uuid()`s handed out |
| `access`, `cookie` | the two cookies with their `maxAge`, and the expiry inside the JWT |
| `now` | the clock in ticks; a request takes one at most |

| Handler | Actions |
|---|---|
| `POST /auth/custodial`, `POST /auth/wallet` | `LoginSend`, `LoginCreate`, `ReplySet` |
| `GET /auth/me`, `checkSession` of the web application | `MeCaught` (the JWT has expired, or the query for the user was rejected), then `RefreshSend` (a valid or absent token changes nothing) |
| `POST /auth/refresh` | `RefreshFind`, `RefreshExpire`, `RefreshDelete`, `RefreshCreate`, `ReplySet` or `ReplyClear` |
| `POST /auth/logout` | `LogoutSend`, `LogoutDelete`, `ReplyClear` |
| `POST /auth/become-streamer` | `BecomeSend`, `BecomeUpdate`, `ReplyAccess` |
| a rejected query, a dead process | `Fault`, and `RefreshExpire`, `RefreshDelete` on a row that is gone |

Users are not deleted, so the lookups of the user change nothing and belong to
the step they precede. The two logins differ in how they find the user only:
that is the subject of `Accounts`.

### Accounts

Whose session a sign-in opens. `Accounts` EXTENDS `Sessions`, which goes on with the
tokens of one browser; here each of several *clients* has one request in flight,
and the two share no state, as a token never chooses the user.

| State | Code |
|---|---|
| `users` | `User` rows: `username`, `walletAddress`, and `authProviderId` as `origin`, the wallet the account was created for |
| `signedIn` | the user in the JWT of each client |
| `ask` | the request of each client and what it has read; `moved` is history |
| `asked` | bound, not in the code |

| Handler | Actions |
|---|---|
| `POST /auth/custodial` | `SignInByName`, `FindName`, `Create`, `OpenSession` |
| `POST /auth/wallet` | `SignInByWallet`, `FindWallet`, `TryName`*, `Create`, `OpenSession` |
| `POST /users/me/wallet` | `LinkWallet`, `LinkFind`, `LinkUpdate` |
| `POST /auth/logout`, an expired session | `SignOut` |
| a rejected query, a dead process | `Aborted`; a violated unique key is part of `Create` and `LinkUpdate` |

A signature is what it proves: that the client has the key of the address and
that the text begins as the handler demands (its time stamp, which may be up to
five minutes old, decides no more than whether the request is refused). A name is its typed or shortened base with the
number behind it. The lookup of the user in the middleware finds the row, since
users are not deleted.

### Twitch

The OAuth states of the process, the link of a streamer to a Twitch account, and
the EventSub subscriptions with their secrets, which live in the table and in
the memory of the process. Twitch is external: it keeps `twitch` and `meta` and
sends any message that a subscription allows, late or again.

| State | Code |
|---|---|
| `link` | `users.twitchId`, written and cleared with its token |
| `rows` | `TwitchSubscription` rows: the `WEBHOOK_SECRET_KEY` each secret was encrypted with |
| `up`, `key` | the process and its `WEBHOOK_SECRET_KEY` |
| `cache`, `cacheReady` | `webhookSecretsCache`, `secretsCacheInitialized` |
| `states`, `turn`, `expired` | `oauthStates`, its order of insertion, and those past `expiresAt` |
| `reqs`, `hooks`, `cbs` | requests, webhook calls and OAuth callbacks in flight |
| `issuedTo`, `uses`, `earned` | history |

| Handler | Actions |
|---|---|
| `start()`, a stop | `Boot`, `Crash` |
| `GET /twitch/connect`, the purge timer | `Connect`, `Expire`, `PurgeStates` |
| `GET /twitch/callback`, `POST /disconnect` | `CallbackState`, `CallbackLink`, `Disconnect` |
| `POST /twitch/subscribe/:episodeId` | `SubscribeStart`, then per type `CreateRefused`, or `CreatePosted`, `StoreRow`, `CacheSecret` |
| `POST /twitch/unsubscribe/:episodeId` | `UnsubscribeStart`, then per id `DeleteRefused`, or `DeletePosted`, `DeleteRow` |
| `POST /webhooks/twitch` | `HookTooOld`, `HookVerify`, `HookRead`, `HookFill`, `HookEpisodes`, `HookFire` |
| Twitch revokes; launch, end, delete of a draft | `Revoke`, `Launch`, `EndEpisode`, `DeleteDraft` |

A secret is what matters of it: the right one, a string that is not, or none.
What a firing does to the cards is in `LiveEpisode`.

### WebSocketHub

The server's registry and rooms and one browser that visits one page: the play
page or the dashboard, which share the singleton `wsClient`, or the overlay,
which opens sockets of its own. A socket is a FIFO stream each way, may be
cut without either end knowing, and is used again once both ends have done with
it. A step is one callback of one side.

| State | Code |
|---|---|
| `srv`, `connections`, `joined`, `room`, `beat` | the server's sockets, `connections`, the sets of a client object, `episodeSubscribers` and `cardSubscribers`, `isAlive` |
| `cli`, `link`, `up`, `down` | the browser's end, the link, what is on its way |
| `cur`, `connecting`, `queue`, `attempts`, `timers` | `wsClient.ws`, `isConnecting`, `messageQueue`, `reconnectAttempts`, pending `setTimeout`s |
| `view`, `reading`, `holding`, `heard` | what the page shows, an answer on its way, whether the viewer has a card, whether the end has been heard |
| `status`, `ending` | `episodes.status` and the end handler |

| Code | Actions |
|---|---|
| mounting, leaving and reloading a page, its loads, the mint button | `Visit`, `Leave`, `Reload`, `Read`, `Loaded`, `LoadFails`, `Mint`, `OverlayLoaded` |
| `onopen`, `onclose`, `onmessage`, timers of the client | `OnOpen`, `OnClose`, `NoticeCut`, `Deliver`, `TimerFires` |
| server callbacks | `Accept`, `HandleMessage`, `ServerClose`, `Pong`, `Tick`, `SlowTick` |
| broadcasts | `News`, `EndSave`, `EndTell` |
| faults | `Cut`, `Refused`, `Restart` |

### ChainBridge, EpisodeDrafts and Artwork

`ChainBridge` is `blockchain.service.ts`: `withRetry`, `waitForTransaction` and
the four writing calls, over a pool of transactions of which any prefix may be
mined at any time, and the guards of the contract that decide whether a job is
refused. `EpisodeDrafts` EXTENDS it with the handlers of drafts, event
definitions and templates, and with the launch, end, mint and fruit requests
as far as they call the chain and store what came back. `Artwork` EXTENDS that
with the images.

| State | Code |
|---|---|
| `minted`, `pool` | what the contract has made, the wallet's transactions by nonce |
| `call` | a call of the client: attempt, transaction, what it waits for |
| `doubt` | history: jobs of which a call can not know what came of them |
| `status`, `settings`, `defs`, `templates` | `Episode`, `EventDefinition` and `Template` rows |
| `column`, `asked` | `rootTokenId`, `branchTokenId`, `fruitTokenId` |
| `req`, `early` | requests in flight, and those that were so on an episode at its launch |
| `files`, `image`, `hashed` | the store, `artworkUrl` and `avatarUrl`, `artworkHash` |

| Handler | Actions |
|---|---|
| `POST /episodes`, `PATCH`, `DELETE /episodes/:id` | `Create`, `PatchRead`, `PatchWrite`, `DeleteRead`, `DeleteWrite` |
| `/episodes/:id/events` | `AddRead`, `AddOrder`, `AddCreate`, `EditRead`, `EditFind`, `EditNotFound`, `EditWrite`, `RemoveWrite` |
| `/templates` | `TemplateCreate`, `TemplateRead`, `TemplatePatch`, `TemplateDelete`, `SaveRead`, `SaveCreate`, `UseRead`, `UseCreate` |
| launch, end, mint, fruit | `LaunchRead`, `EndRead`, `AskChain`, `Answered`, `LaunchSave`, `EndSave`, `TokenCall`, `TokenSave` |
| a call of the chain | `Begin`, `Send`, `SendRevert`, `SendError`, `SendLost`, `Notified`, `Confirmed`, `ConfirmedRevert`, `TimedOut`; `Mine`, `Drop` of the chain |
| `/upload` | `UploadRead`, `ClearRead`, `OldDeleted`, `Uploaded`, `UploadSave`, `ClearSave`, and `PatchImage` for `PATCH /episodes/:id` |
| a rejected query, a dead process | `Crash` |

A key of the store is the sequence of its segments, because the handlers cut it
out of a URL.

### MC modules

The `MC...` modules add symmetry sets, the one-line pattern `OneLine` (all
squares) and starting situations. `MCWithdrawals`, `MCTwitch`, `MCWebSocketHub`,
`MCEpisodeDrafts` and `MCSessions` start from several states the system reaches, each of
which leaves a part of it little to do, so that the parts are explored in turn
and not as a product: an account that is linked and left alone, or withdrawals that are over; a
browser that begins, or clients that ask beside a browser whose session is over; all
OAuth states but one issued, or the only episode deleted; bounds on news,
visits and faults partly used up; drafts, a launch, a live or an ended episode,
or a draft with an image. The proofs are about `Spec`, which starts at the
beginning.

## Runs

| Run | Instance | Shows |
|---|---|---|
| `chain` | 3 users, 2 mint workers, 1 console, 1 Twitch worker, chain on, cap 1, batches of 2, one fault anywhere | the inductive `Accounting`, `OversellBound`, `FruitedStays`, through failed launches and restarts |
| `overlaps` | 1 user, 1 mint worker, 2 consoles, 1 Twitch worker, a manual and a Twitch event, 2 squares, chain on, no cap | launches, ends and firings that overlap in every way: `BranchUnderRoot` with `RelaunchBound`, `StatusForward`, `MarksStay`, `EndedFreezes`, `MarkedWasFired`, `FiresLogged` |
| `fair` | 2 users, one worker of each kind, an event that is fired twice by Twitch, chain on, batches of 1, fairness | `EndFruitsAll`; on the way `StragglerBound` |
| `serial` | one worker that is every kind, 3 users, 3 events, cap 2, chain on | `KeepsPromise`: the refinement of `EpisodePromise` |
| `contract` | 3 episodes, 2 cards, 2 accounts, supplies 0 and 1, branch ids from 3, fruit ids 5 to 6 | `TreeIntact`: supply, one fruit on a branch, fruits after the end, lookups; `KeepsLedger`: the refinement of `TokenLedger` |
| `paid` | 2 viewers, 3 intents, cap 2, 1 request, one fault (declined attempt, expiry, rejected query or restart) anywhere, fairness | `RevenueAgrees`, `OneOutcome`, and `PayerServed` through redeliveries and restarts |
| `sessions` | 2 tabs, 3 tokens, JWT 1 tick, refresh token 3, absolute timeout 2, 5 ticks, one fault anywhere; 2 clients, 2 wallets, 3 accounts, 5 requests; two situations | `OneHeir`, `SessionEnds`, `OverIsOver`, `CookieIsKnown`, `SignInOpensHolder` |
| `relink` | the same, from the beginning | that `FindOrCreate` fails: a wallet whose account was linked to another is locked out |
| `payouts` | 2 tabs, 2 accounts, 2 account changes, 3 rows, 2 cards of 50 or 5056 cents, fee 8 %, one fault; two situations | `PayoutsCovered` (`TransfersCovered` and `OverpayBound`), `GrossAgrees`, `FlagIsOfAccount` |
| `twitch` | 2 subscriptions, 1 request, 1 webhook call, 2 definitions, 3 OAuth states with room for 2, 2 callbacks, with and without a key, 2 faults, 2 deliveries; two situations | `SecretsComplete`, `OrphansNeedFaults`, `StateUsedOnce`, `FiredPerDelivery` |
| `hub` | each of the three pages, 3 sockets, 1 redial, 1 piece of news besides the end, 3 visits, 2 faults, fairness; three situations | `RoomsFollowPages` (`RoomsAgree` and `LeftRoomsAreLeft`), `OneSocket`, `EndIsKept`, `GhostsGo`, `OverlaySettles` |
| `drafts` | 2 requests at a time and 4 in a run, 2 episodes, 2 definitions, 1 template, 1 card, 1 retry, one fault, 2 image requests, fairness; five situations | `ColumnsAreTokens`, `LostTokensHaveACause`, `LaunchFreezes`, `CallsReturn`, `ImageIsStored`; `KeepsChainPromise`: the steps of `ChainPromise` |

Why the bounds are enough. Every race in this code is between a value a handler
read and a write of another handler: two workers of the racing kinds and two
rows (a card the loop has written and one it has not) show each of them, and a
third user makes the cap of 1 overrun twice if it could. Two squares and a line
of both separate "some mark" from "a pattern". `MaxFires` only has to reach 2
where a second firing of one event has to follow the first (`serial`, `fair`); two consoles fire
an event twice at a bound of 1, together. In `overlaps` one card is enough: what
two firings can take from each other is marks of one card; its two events are one fired by hand and
one by Twitch, and its two consoles are two launches, a launch and an end, two ends, two
firings, or a firing and the end. In `fair`, `BatchSize = 1` makes two
batches of two cards, so that a batch may fail after another one succeeded; in `chain` 2 is
a batch of several cards, of which one update may fail. One
fault reaches every await; what a second fault adds (a larger `lost`) is covered
by the proofs, which have no bound on faults. The cap, the number of workers and
all sets are arbitrary in the proofs. In `CardPayments`
two viewers with three intents are one who pays twice and one whose delivery the first one's
restarts may kill, on a cap that leaves both a card; or two who race for the last
card while a third payment finds the show sold out. Its safety properties are proved for any number. In `Withdrawals`
the amounts are chosen so that the fee rounds up on one and down on the other, two
requests overlap, and a third row lets one more request follow a fault; two accounts
are what two overlapping requests to connect make. In `Sessions` two tabs are
enough to race for one token; three tokens give a login and two rotations, or
two logins and one; the ticks let a JWT, a cookie, a row and a session expire in
that order and the other. In `Accounts` the two wallets have the same short
address, which a typed name may have taken too, so that all three ways to an account
want one name; five requests are a sign-in, a link and a second sign-in of one
client between two of another. In the contract the third root
runs into the ids of branches, two roots may have branches, two branches are fruited in one
batch, and a supply of 1 is used up; that branches run into the ids of fruits is
left to the proofs, which have any ranges. In `Twitch` one
webhook call that has queried the rows races one request that stores or deletes
one; two subscriptions make the cache non-empty while one of them is missing; two
faults are a lost answer and a restart, or a failed query and a restart. In
`WebSocketHub` three sockets are a current one, one that is closing and the one a
redial makes; one piece of news makes the overlay close and open one more, and one redial of the
five reaches both the last attempt and the give-up. In `EpisodeDrafts` every race
is between two requests; the other two of the four follow them or have preceded
them; one retry gives a transaction that is mined late beside the one that was
sent again.

Deadlock is checked in all runs but two: `drafts` bounds the requests and `hub` the
visits, faults and news, and when these are used up the system has nothing more to do.

## Fairness

`FairSpec` is weak fairness of `Step(w)` for each worker: a request that is in
flight goes on, because the call it awaits settles. Prisma and Postgres answer
or fail; the chain client bounds its waits (`waitForTransaction`,
`blockchain.service.ts:12-28`) and its retries (35-70). No fairness is put on
`Start`: nothing makes a client send a request, so no property promises that an
episode is ever launched or ended. Restarts are off in `fair`: after one the end that was to
fruit the cards is gone.

In `CardPayments` fairness is weak fairness of `Deliver(d)`, because Stripe
delivers an event it has not seen acknowledged again and again, and of
`Handle(d)`, because a handler goes on when its call settles. Nobody has to ask,
to pay or to end the show. `MaxFaults` bounds the faults, but not the restarts
that the webhook brings upon itself: the second payment of a holder ends the
process at each of its deliveries (`webhooks.ts:182`), and with it whatever
delivery is in flight. While the show is on and seats are left this never stops, and weak
fairness of `Handle` promises another viewer's delivery nothing: it gets as far as its
next await, the process dies, Stripe delivers again, and so for ever. `PayerServed` is
false without a premise, then (two viewers, three payments, a cap of 2: the second
viewer gets no card, no refund and no flag, and the second payment is not settled
either). It says what is left: if such payments (`Doomed`) are absent again and again, because
there are none or because the end of the show or the last seat has turned them into refunds, then every charge
comes to its own card, a refund or the manual list.

In `WebSocketHub` fairness is on callbacks and deliveries only: an answered GET
reaches its page, timers fire, the server's interval ticks
(`websocket/server.ts:30`), and what was sent on a link that works arrives.
Nothing obliges a user, the end of the episode, a fault, or a browser to find
out that its link was cut (`NoticeCut`): it sends nothing that would go
unanswered. In `EpisodeDrafts` it is on the steps of a call of the chain client
and of its handler (a send settles, a receipt or the timeout comes), not on the
miners.

## What is proved

`LiveEpisodeProofs`, for every value of the
constants under the two assumptions of `LiveEpisode`: `FiniteAssumption` (users,
workers, events and squares are finite sets) and `ConstantsAssumption` (the
types of the rest). TLC evaluates both on each run.

- `TypeCorrect == Spec => []TypeOK`. `TypeOK` is inductive by itself.
- `FruitIsFinal == Spec => FruitedStays`. Of the actions that write a card, the
  creating one writes only rows that did not exist, the marking ones keep the
  status, and the end only moves it to `fruited`; `CardWriters` names them and
  everything else leaves `cards` alone.
- `AccountingCorrect == Spec => []Accounting`, from which
  `CountCorrect == Spec => []CountAgrees` and
  `OversellBounded == Spec => []OversellBound`.

`OversellBound` is not inductive, nor is `CountAgrees`: that a card being counted has been created, and that a mint past its
checks read a counter below the cap, has to be said of every worker. The inductive
invariant is `IInv == TypeOK /\ Accounting`, and `Accounting` has three parts:

1. `CountAgrees`: `|Holders| = cardsMinted + |requests between create and increment| + lost`;
2. for each worker: a mint is carried by a viewers' worker for a real user; past its
   checks it is in `Passed`; the rows that loops will write exist;
3. with a cap, `cardsMinted + |Passed| < MaxCards + |Viewers|`. A new request
   joins `Passed` only when it reads `cardsMinted < MaxCards`, and then at most
   `|Viewers| - 1` others are in it; the increment takes its own request out of
   `Passed` as it raises the counter. The requests between create and increment
   are in `Passed`, so 1 and 3 give the bound on the cards.

Most actions only move one worker and preserve `Passed`, `Holders` and the counter or
shrink `Passed`: they are collected in the notion `Advances`, and one lemma
(`AdvancesKeeps`) shows that it preserves the invariant. Five steps do more and have
a lemma each: `MintRead`, `MintCreate`, `MintCount`, `DbError`, `Crash`.

The others have an invariant each. They say of requests that run together what
they can do to each other, and none but the last limits the requests.

- `FiringsAreLogged` (`FiresLogged`) and `MarksAreFired` (`MarkedWasFired`), without
  faults. The first is inductive with the types. For the second, `MarksInv` follows
  the marks into the locals: what a loop has read and not yet written back, and what a
  mint has read of the fired events, was fired; the event of a Twitch loop is counted.
- `StragglersBounded` (`StragglerBound`), without faults. `StragglerInv` adds that a
  mint past its checks has read the episode live; the sweep empties `Active`, and
  from then on a mint only moves from `Admitted` to `Active`.
- `BranchesUnderRoot` (`BranchUnderRoot`) and `StatusMovesForward`
  (`StatusForward`), for any requests and faults. Launches that overlap save one after another
  (`episodes.ts:295`), so the root can go from its id to null and an ended episode can be
  live again; `relaunched` counts the late saves. `RootInv` has `RelaunchBound`, that the late saves
  and the launches in flight stay below the number of consoles: the first save takes its
  own launch out of flight, and afterwards none is added, since a launch starts on a
  draft. It also says that the root of a mint, a launch or a branch is the contract's one
  root or none, and the episode's unless a late save has replaced that (`UnderRoot`).
- `MarksAreKept` (`MarksStay`), for any requests and faults. `HandsInv`: of the cards a
  firing has still to write, those that are not `raced` are in the hands of no other firing
  and show the marks it has read; so what it writes back contains them. A read
  makes the cards raced that another firing has in hand, and a card is free again when
  a firing reads it that nobody else is about to write.
- `EndIsFrozen` (`EndedFreezes`), for any requests and faults. `Moves` says which step
  leads into a firing, and that it demands a live episode; `MarksWriters`, that marks
  change by a write that takes the card out of its writer's hands.
- `PromiseIsKept` (`KeepsPromise`), with one worker and no faults: the refinement of
  `EpisodePromise`. `SerialInv` says that nothing the request in flight has read is
  stale (`FreshAt`), that a firing in the middle of its cards has marked the rest
  (`HalfMarked`), and that a row is fruited only after the end. `LaunchSave`,
  `MintCreate`, `FireRead`, `HookCount` and `EndSave` are the abstract operations; a lemma for
  each group of the other steps shows that `Abstract`, the mapped variables, is unchanged.

`StreamTreeContractProofs`, for any episodes, cards, accounts, supplies and id
ranges under the assumption of `StreamTreeContract`: all eight properties of the
contract (`ContractTypes`, `OneKindHolds`, `SupplyIsRespected`,
`BranchFruitsOnce`, `FruitsAfterEnd`, `FruitsStay`, `LookupsHold`,
`EndedIsClosed`), and `TreeStaysIntact`, which joins those that `contract` checks. They are inductive only together, and with `Links`, which says
where the tables point: a branch hangs under a root that exists, an id that is no
root has no list of branches, and one that is no branch has no fruit. A batch is a sequence of fruits in one transaction; `Fruits_Written` states what
one call does to the tables, whatever the batch, and the invariant is shown for
that.

`LedgerIsKept == Spec => KeepsLedger` rests on that invariant and on `Found`, that
a lookup which is set names a token that is there: so no lookup is set twice, the
token a call makes is one that no other job has, and a branch hangs under the root
of one episode. A call makes one job, a batch several at once
(`MakeFruits`); transfers and minters leave the ledger as it is.

`CardPaymentsProofs`, for any viewers, intents, requests, overlapping deliveries
and faults under `PaymentAssumption`:

- `TypesHold == Spec => []TypeOK`.
- `Links`, inductive with the types: an intent with a row, an event or a
  delivery has a buyer, and one with an event or a delivery has been paid.
- `RevenueIsExact == Spec => []RevenueAgrees`. `TypeOK /\ Links /\ RevenueAgrees`
  is inductive: `PayCreate` adds a holder and a delivery that is about to count,
  `PayCount` turns the latter into revenue, a restart turns them into lost ones.
- `PendingIsBounded == Spec => []PendingBound`. The inductive form adds, for each
  viewer, the requests that have passed the check and not written their row.
- `ChargeSettledOnce == Spec => [](OneCopy => OneOutcome)`. With one delivery of
  an event at a time (`OneCopy`), an intent past the idempotency check has no
  card; a refund is made only when the show is over or sold out, which it then
  stays, so a refunded charge never reaches `card.create`. Without `OneCopy` it
  fails: see the next section.

`SessionsProofs`, for any number of tabs, tokens, ticks and faults under
`SessionAssumption`:

- `SessionTypes`, `OneHeirHolds`, `SessionsEnd` and `OverStaysOver` for
  `TypeOK`, `OneHeir`, `SessionEnds` and `OverIsOver`. `OneHeir` alone is not
  inductive: a refresh could delete a row other than the one it read, or a
  token could be written twice. `IInv` adds that a token about to be written is
  known to one request (`Fresh`, `FreshLogin`), that everything known was
  generated (`Known`) and that a row is either as it was read or gone
  (`ReadHolds`); the lemma `Quiet` does the steps that create nothing. `Timed`
  relates the clock to what requests have read.
- `CookiesAreKnown == Spec => []CookieIsKnown`. `Covered` is the property with the requests
  that are about to mend the cookie; `Delivered` says that the token on its way to the
  browser is in the table and known to that answer only, so that nobody deletes it
  before it arrives.

The same module, about `Accounts`, for any clients, names, wallets and requests
under `AccountAssumption`:

- `AccountTypes == AccountsSpec => []AccountsTypeOK` and
  `SignInsOpenHolders == AccountsSpec => []SignInOpensHolder`. `AccountsInv` says
  that no two rows have one wallet (`OneHolder`: the unique key, through every
  create and update) and, for the request of each client, what it needs at its await
  (`Sound`): one about to open a session for a wallet has found or made the only
  holder, and whoever moves that account to another wallet meanwhile is known
  (`moved`). `RowWritten` states what one written row does to the holders of every
  wallet; `SessionsUndisturbed == AccountsSpec => Spec` carries the theorems about
  sessions over.

`WithdrawalsProofs`, about `Withdrawals` with `PayoutAccount`, for any tabs,
accounts, rows, amounts, changes and restarts under the assumptions of the two:

- `AccountSafe == Spec => []AccountInv` and from it
  `FlagOfAccount == Spec => []FlagIsOfAccount`. `FlagIsOfAccount` alone is not inductive:
  `ConnectSave` writes the account beside a flag it has not read. `AccountInv`
  adds that a request which runs alone makes an account only when there is none
  (`AloneIsAlone`), and that before an account is stored nobody was invited, so
  Stripe has nothing to report and the flag is down (`Untouched`).
- The sums over the rows. `MapThenSumSet` is a fold over a finite set; unfolded
  once it is the value of the chosen element and the sum of the others (`SumIsIter`). That
  this determines it, that it is a number, that it does not depend on values outside the
  set, and what one changed value does to it (`SumWith`, `SumSplit`,
  `SumGrows`) is induction over finite sets. The library's induction theorems
  take an operator and can not be used; `SetSteps` states induction about a *set*
  of sets instead (a set that contains T as soon as it contains T without any one of its
  elements contains every finite set), and follows from `WFMin` over the
  cardinalities.
- `LedgerSafe == Spec => [](RowsInv /\ Covered /\ Balanced)`, and from it
  `TransfersAreCovered == Spec => []TransfersCovered` and
  `OverpayIsBounded == Spec => []OverpayBound`, together `PayoutsAreCovered`. `RowsHeld`: a row that a request
  holds is in processing with the request's amount and nobody else's. `Covered`:
  the money that was moved is on counted rows *that no request is about to pay or to file
  as failed*, those filed as failed apart; a transfer makes its row settled in the step in which
  it moves the money. `Balanced`: the rows with the amounts that requests are about to write stay
  below the earnings times the number of tabs; a new amount is what
  the rows leave, and the other requests hold the earnings at most once each.
- `GrossAmountsAgree == ASSUME FeePercent < 50 PROVE Spec => []GrossAgrees`. Each
  gross amount is within half a cent of its net one over the streamer's share
  (`GrossIs`), so those of n rows are within n halves (`SumDrift`); the rounding of the fee
  on the total adds half a cent over the share, which is less than one cent
  if the share is above one half (`DriftIs`). The default fee is 8 percent
  (`stripe.service.ts:184`). From 50 on the property is false: of a revenue of
  one cent the fee takes all, so that nothing is there to withdraw and
  no row accounts for the cent.

`TwitchProofs`, for any users, subscriptions, requests, webhook calls, keys,
faults and restarts under the assumptions of `Twitch`:

- `SubscriptionsSafe == Spec => []IInv`, and from it
  `SecretsAreComplete == Spec => []SecretsComplete` and
  `OrphansExplained == Spec => []OrphansNeedFaults`.
- `SecretsComplete` is not inductive because of the webhook call that finds the
  cache empty: it declares the cache ready on the strength of rows it read a
  step earlier. `FillsCovered` says that its snapshot and the cache together have
  every secret that is needed: a subscription that was stored since is
  cached by its own request, and until then excused (`Creating`); one that was deleted since is gone at Twitch.
  For that a row must never be rewritten (`SnapsCurrent`), be stored by one
  request only and be unknown before (`Storing`), and be deleted only when
  Twitch has deleted (`Made`). `Alive` says that a stopped process has no
  requests, `Stored` that a subscription without a row has an explanation
  before its secret is cached.
- `FiringsAreEarned == Spec => []FiredPerDelivery`. `Balance` counts for each
  definition the calls that still owe it a firing (`Owing`): accepted, they add one to both
  sides; the read of the live episodes drops some, a firing turns one into
  `fired`. It needs that the subscription a call speaks of is not made anew
  under it (`Sent`).
- `StatesAreUsedOnce == Spec => []StateUsedOnce` and
  `StatesAreCapped == Spec => [](Cardinality(states) <= MaxStates)`. A state that is
  stored, or not made yet, has let no callback pass (`Unused`), and a callback takes it
  out of the map in the step in which it passes; the cap holds because a full map always has
  an oldest state to drop, which is the least element of a set of numbers.

`WebSocketHubProofs`, for any sockets, attempts, news, visits and faults:

- `HubTypes == Spec => []TypeOK`, and `HubSafe == Spec => []IInv` with
  `IInv == TypeOK /\ RoomsAgree /\ One /\ Told`.
- `RoomsAlwaysAgree`: `RoomsAgree` is inductive with the types; its second half,
  that a room holds no socket whose `close` event is not still to come, is what the heartbeat
  needs, which terminates a socket and cleans up before that event.
- `OneSocketHolds`: `One` adds to `OneSocket` that `isConnecting` is set while a
  socket is on its way, and that no page but the overlay closes one.
- `EndStaysKnown`: `Told` adds to `EndIsKept` that whatever says "ended" (a broadcast under way,
  the end handler, a page) is preceded by the row, so that no answer read afterwards says
  "live", and that an answer read before it has reached its page or lost it when the page hears.
- `LeftRoomsStayLeft`: of the asks about a room that no mounted page wants, in the
  queue or on an open socket, the last one is to leave (`Undone`), and there is one
  if the server still has the socket in the room (`Left`). `Leaves` names every room of
  the page, and a redialled socket starts in no room and with the queue in its order.
  `RoomsFollow` is this and `RoomsAlwaysAgree` (`RoomsFollowPages`).

`EpisodeDraftsProofs`, about `ChainBridge`, `EpisodeDrafts` and `Artwork`, for any
requests, episodes, cards, transactions, retries and faults. The assumptions are those of
the modules: the requests, episodes and cards make finitely many jobs
(`JobsAreFinite`), the retries are a number, and the
absent image is not the address of one (`NullIsNoUrl`).

- `DraftsCorrect == Spec => []IInv`, and from it
  `TokensAreNamed == Spec => []ColumnsAreTokens` and
  `LostTokensExplained == Spec => []LostTokensHaveACause`. `ColumnsAreTokens` is
  about a row that is written several steps after the transaction was mined, so the
  invariant follows the token there. `BridgeInv` is the chain
  client's part: a transaction and the call that waits for it are for one job
  (`Waits`), what a call brings is its job's token (`Ids`), and a job
  without doubt has one call, waiting for its only transaction (`Single`,
  `Waited`). `RowInv` is the handlers' part: a request and its call
  go together, and a request that holds an episode for a draft while it is one no more was
  in flight when it was launched. `Claimed` joins the two: the
  token of a job without doubt is in its row or on its way to it.
- `StudioCorrect == StudioSpec => []StudioInv` and
  `ImagesAreStored == StudioSpec => []ImageIsStored`: the steps of `Artwork` keep
  `IInv`, those of `EpisodeDrafts` keep the images, and the key the handlers cut
  from an address is one segment short, hence never the key of a file.
- `LaunchesFreeze == StudioSpec => LaunchFreezes`, if the absent row is no row
  (`NullIsNoRow`). A step that changes the content of a live episode is the write of a
  request that had read the draft before the launch. `ContentInv` says that the
  definition such a request has found belongs to the episode it names or is
  gone, so that it can not change another one.
- `CallersArePromised == StudioSpec => Promise!PromiseInit /\ KeepsChainPromise`: the
  refinement of `ChainPromise`. `Waited` is what it needs most: the transaction
  that is mined is one whose call is still open, or its job is in doubt. `Ids` gives the token a
  call answers with; `Numbers`, that every token is below the next of its kind, makes the
  new one no other's; `Off`, that nothing is asked of a chain that is not configured.
  The run checks the steps only, since its situations are not `PromiseInit`.

Every safety property of the passing runs is stated by a theorem. Model-checked only:
liveness (`EndFruitsAll`, `PayerServed`,
`GhostsGo`, `OverlaySettles`, `CallsReturn`), which needs `ENABLED` and is out of
the prover's reach. No module uses a `RECURSIVE` operator.

## Where the code and its documents disagree

Met while modelling, each with the lines it comes from. Live episode:

- a card minted with a complete line has no pattern until the next mark
  (`cards.ts:219`), even with no concurrency at all;
- a mint that read the episode live creates its card after the sweep of the end
  (`episodes.ts:430`); nothing fruits it (README.md:34). `StragglerBound` says
  how many there can be;
- two mints read the counter together and exceed `maxCards` (`cards.ts:156`;
  README.md:61): by fewer than the requests that run together (`OversellBound`,
  proved);
- a card created between the reads of a firing misses that event for good
  (`cards.ts:203`, `episodes.ts:748`; SPEC.md:599);
- a firing that overlaps the end leaves the fruit and the card different
  (`episodes.ts:362`; README.md:108).

Payments:

- two overlapping deliveries of one payment event, of which one creates the
  card and the other refunds the charge (`webhooks.ts:75`);
- a transfer whose answer was lost is made again by the next request, under
  another idempotency key (`payments.ts:310`, `stripe.service.ts:138`);
- a second payment of a holder: `card.create` violates the unique key and the
  rejection ends the process, at each redelivery until the show is over or sold
  out (`webhooks.ts:182`); other deliveries in flight die with it, so that a viewer who
  has paid once may wait for ever. `PayerServed` excludes no more than that (see
  [Fairness](#fairness));
- a `PendingPayment` that failed once stays `failed` when the same intent
  succeeds later, and one whose delivery died after `card.create` stays
  `pending` (`webhooks.ts:204`, `239`); nothing writes `expired`
  (`schema.prisma:198`);
- a withdrawal whose request died stays in `processing`, and its money is never
  paid out or released (`payments.ts:284`);
- withdrawals that run together are each paid the whole balance
  (`payments.ts:257`; at most once per request, `OverpayBound`);
- the payments page shows a streamer as ready when Stripe says so or the column
  does, and the withdrawal looks at the column only (`payments.ts:18-59`, `195-222`): between
  the two the button is there and refused;
- of two snapshots of an account that arrive in the wrong order the older one
  stays (`webhooks.ts:256-277`), and requests to connect that overlap create an
  account each (`payments.ts:76-111`);
- `withdrawing` is one id: while one withdrawal runs, a click on another episode
  enables the first one's button again (`settings/payments/page.tsx:122-138`).

Sessions:

- a logout whose token a refresh has just deleted ends nothing: the refresh
  creates the successor and sets the cookies again (`auth.ts:351`, `388`);
- of two tabs that refresh together one is answered 401 with cleared cookies,
  and when that answer comes second the other tab's new cookies are gone
  (`auth.ts:327`);
- the access cookie expires with its JWT (`auth.ts:61`), so `/me` sees an
  expired JWT, and the application refreshes, only when the answer was slow or
  become-streamer set the cookie to an hour (`auth.ts:473`); otherwise the
  session ends with the first cookie;
- the middleware asks for `JsonWebTokenError` before its subclass
  `TokenExpiredError`, so `TOKEN_EXPIRED` is never answered
  (`middleware/auth.ts:79-84`);
- the pages guard their requests with `if (!token)`, and the context they take it
  from always says `''` (`auth-context.tsx:143`): creating an episode, minting,
  the dashboard's and the payments page's buttons stop there. The models
  describe the handlers behind these guards as they are written.

Accounts:

- linking a wallet changes `walletAddress` and leaves `authProviderId`
  (`users.ts:236-241`, `auth.ts:272`): the wallet an account was created with then
  finds no user, and "Find or create user" (`auth.ts:250`) can not create one either
  (`schema.prisma:39`). The run `relink` shows it: sign in with one wallet, link
  another;
- the login page has `Sign in to StreamTree` signed (`auth/login/page.tsx:83`), and the
  server demands another beginning (`auth.ts:99`): a wallet sign-in from this page is
  always refused (`PageText`). Nor does the page send a signature with a
  link (`auth-context.tsx:133`, `users.ts:202`);
- two first sign-ins with one wallet at the same time: the second `create` violates the unique
  key and is answered 409, and the next attempt finds the account. A typed name may
  take the short address of a wallet and the other way round; the loop over names steps around the first,
  the second is answered 409.

Twitch:

- the signature is always checked against all secrets, never against that of
  the subscription the message names (`webhooks.ts:278-289`,
  `twitch.service.ts:533-564`);
- the challenge may come before the secret is cached or stored; it is refused with
  403, Twitch gives the subscription up, and the row says `enabled`
  (`twitch.service.ts:393-419`);
- a revocation is answered and changes no row; a duplicate notification fires
  again; the row of a subscription whose draft was deleted goes by cascade and
  Twitch is not told (`schema.prisma:223`);
- a disconnect between the two halves of a callback is undone by it
  (`twitch.ts:173-200`); the ids to unsubscribe are taken from the body and not
  from the episode's rows (`twitch.ts:266-283`).

Real-time updates:

- the overlay's effect depends on the episode object, which each `stats:update` and
  `episode:state` replaces: the socket is closed, a new one opened, and the
  page reloads three seconds later because of the one that closed
  (`overlay/[shareCode]/page.tsx:69-106`); a fetch that fails after such a reload
  leaves the page in its error view;
- `wsClient` redials but does not join its rooms again (`lib/websocket.ts:36-46`),
  and a browser that sends nothing never notices a silent cut;
- a page that read the row before the end and joined after the broadcast stays
  live, and so does every page when the API restarts between saving the end and
  broadcasting it (`episodes.ts:353-442`);
- `card:updated` carries a number where the play page calls `.find`: the page
  crashes (`play/[code]/page.tsx:119-145`, `episodes.ts:787-794`).

Drafts and the chain:

- a second launch that overlaps the first writes null over `rootTokenId`
  (`episodes.ts:264-303`); a patch, a delete or an edit of an event definition that
  read the draft before the launch hits the live episode (at most once per
  request: `LaunchFreezes`);
- `sortOrder` is read and then used, so two requests get the same
  (`episodes.ts:588-610`); grid size, price and cap of a template are not
  validated (`templates.ts:49-85`), and from-episode may save one without events;
- a transaction that is mined after its timeout is sent again, the contract
  refuses it and the id is never stored, though getters for it exist and nobody calls them
  (`blockchain.service.ts:12-70`);
- the key of an old image is cut to two segments and keys have three
  (`upload.ts:69`, `138`, `195`): no old image is ever deleted. `ImageIsStored`
  holds for that reason only: with the whole key the old file is deleted before the new row is
  written, and a failed upload leaves a row without its image.

`KeepsPromise` holds for requests that are served one at a time; the other properties allow the
races below, and bound them:

- two overlapping mints the same `cardNumber` (`cards.ts:225`; SPEC.md:156);
- two firings that overlap on one card: the second write drops the first one's
  mark (`webhooks.ts:422`, `episodes.ts:778`; README.md:102). Nothing else does: `MarksStay`;
- a firing that started before the end a write after it (README.md:201, "All
  cards freeze instantly");
- two overlapping launches an episode that is live again after its end, or a
  root id overwritten by null when the contract refuses the second root
  (`episodes.ts:257`, `295`; at most once per launch that overlaps: `RelaunchBound`);
- a launch whose transaction is mined after the timeout an episode without
  root for ever: the contract refuses a second one.

## What is left out

Contract: scores, pattern counts, metadata URIs, timestamps, the platform
address, ownership transfer, approvals and ERC-721 receiver callbacks, none of
which the modelled guards read. Chain client: provider set-up, the getters, which
nothing calls, a transaction that another one with the same nonce replaces, and batches of more than one card (`LiveEpisode` has those).
Drafts: the image of an episode is modelled but is no part of the content that
`LaunchFreezes` speaks of. An upload and a deletion ask for a draft
(upload.ts:62, 189) and write the address after their storage calls, so one that
read the draft before a launch may write after it, as the edits may.
Payments: amounts other than the episode's price (the intent is created with it
and a live episode's price does not change). Accounts: the edit
of a profile, `lastActiveAt`, `POST /check-username`, the public profile and the statistics. Grids: the rows and columns of
the detector, progress and near misses are pure functions over an array without
state, which the repository's unit tests reach; `LiveEpisode` has the generator
and the detector as sets. WebSocket: identities, since no page handles what
`sendToUser` sends. Uploads: presigned addresses and the checks of a file.

Not modelled: validation and sanitising (stateless); gallery and public
pages (reads); CSRF and rate limits, which
reject a request before its handler starts; the rendering of the web
application; the wiring of the server.

## Plan

The modules were written in this order, most important behaviour first:
`LiveEpisode` with `EpisodePromise` and `LiveEpisodeSerial`,
`StreamTreeContract`, `CardPayments`, `Withdrawals`, `Sessions`, `Twitch`,
`WebSocketHub`, `ChainBridge` with `EpisodeDrafts` and `Artwork`,
`PayoutAccount`, `Accounts`, `TokenLedger` and `ChainPromise`. Worth adding next:

1. that the outcomes `LiveEpisode` allows a chain call are those of
   `ChainPromise`, which `ChainBridge` implements; today they are compared by reading;
2. batches of several cards in `ChainBridge`.
