---------------------------- MODULE WebSocketHub ----------------------------
(***************************************************************************)
(* Real-time updates: the WebSocket server of the API with its registry of *)
(* connections and its rooms, and one browser page that follows an episode *)
(* -- the play page, the streamer's dashboard or the stream overlay -- with*)
(* the connection it keeps.                                                *)
(*                                                                         *)
(* The play page and the dashboard share the singleton wsClient, which     *)
(* queues messages while it has no open socket and redials a few times; the*)
(* overlay opens a socket of its own whenever its episode object changes   *)
(* and reloads the page when one closes.  Every socket is FIFO in both     *)
(* directions, may be cut without either end knowing, and is found dead by *)
(* the server's heartbeat.  A step is one callback of one side.            *)
(*                                                                         *)
(* Identities are left out: the token a socket carries decides only who    *)
(* receives sendToUser, and no page handles what that sends.               *)
(***************************************************************************)
EXTENDS Naturals, Sequences, SequencesExt, FiniteSets

CONSTANTS
  Sockets,        \* connection ids; one is used again once both ends are done
  Kinds,          \* the pages an instance looks at
  MaxAttempts,    \* maxReconnectAttempts (5 in the code)
  MaxNews,        \* bound: broadcasts other than the end of the episode
  MaxVisits,      \* bound: times the user opens or leaves the page
  MaxFaults,      \* bound: cuts, failures, restarts, slow clients
  None

ASSUME SocketsAreNumbered == Sockets \subseteq Nat /\ IsFiniteSet(Sockets)
ASSUME KindsOfPage == Kinds \subseteq {"play", "dashboard", "overlay"}
ASSUME BoundsAreNat ==
  /\ MaxAttempts \in Nat /\ MaxNews \in Nat /\ MaxVisits \in Nat /\ MaxFaults \in Nat
ASSUME NoneIsNoSocket == None \notin Sockets

Rooms == {"episode", "card"}
Asks  == [op : {"add", "delete"}, room : Rooms]

VARIABLES
  srv,          \* the server's end: "none", "open", "closing" (terminated)
  connections,  \* ids in the map `connections`
  joined,       \* subscribedEpisodes, subscribedCards of each client object
  room,         \* episodeSubscribers, cardSubscribers
  beat,         \* isAlive
  cli,          \* the browser's end; "gone": its page was unloaded
  link,         \* "ok"; "reset": the server closed it; "cut": nothing arrives
  up, down,     \* what is on its way to the server and to the browser
  cur,          \* wsClient.ws, or the overlay's newest socket
  connecting,   \* isConnecting
  queue,        \* messageQueue
  attempts,     \* reconnectAttempts
  timers,       \* pending setTimeout(connect), or pending reloads (overlay)
  kind,         \* which page this is
  view,         \* what the page shows of the episode
  reading,      \* the status a GET has read, on its way to the page
  holding,      \* the play page shows a card of this viewer
  heard,        \* a page has handled the broadcast of the end
  status,       \* episodes.status
  ending,       \* the end handler: "no", "saved", "told", "lost"
  news, visits, faults

serverVars == <<srv, connections, joined, room, beat>>
netVars    == <<link, up, down>>
clientVars == <<cur, connecting, queue, attempts, timers>>
pageVars   == <<view, reading, holding, heard>>
apiVars    == <<status, ending>>
countVars  == <<news, visits, faults>>
vars == <<serverVars, cli, netVars, clientVars, kind, pageVars, apiVars, countVars>>

TypeOK ==
  /\ srv \in [Sockets -> {"none", "open", "closing"}]
  /\ connections \subseteq Sockets
  /\ joined \in [Sockets -> SUBSET Rooms]
  /\ room \in [Rooms -> SUBSET Sockets]
  /\ beat \in [Sockets -> BOOLEAN]
  /\ cli \in [Sockets -> {"none", "connecting", "open", "closing", "gone"}]
  /\ link \in [Sockets -> {"ok", "reset", "cut"}]
  /\ up \in [Sockets -> Seq(Asks)]
  /\ down \in [Sockets -> Seq({"ended", "stats", "card"})]
  /\ cur \in Sockets \cup {None}
  /\ connecting \in BOOLEAN
  /\ queue \in Seq(Asks)
  /\ attempts \in 0..MaxAttempts
  /\ timers \in Nat
  /\ kind \in Kinds
  /\ view \in {"blank", "live", "ended", "error", "results", "crashed", "away"}
  /\ reading \in {"none", "live", "ended"}
  /\ holding \in BOOLEAN /\ heard \in BOOLEAN
  /\ status \in {"live", "ended"}
  /\ ending \in {"no", "saved", "told", "lost"}
  /\ news \in 0..MaxNews /\ visits \in 0..MaxVisits /\ faults \in 0..MaxFaults

\* Everything but the counters of what the bounds still allow.
InitRest ==
  /\ srv = [s \in Sockets |-> "none"] /\ connections = {}
  /\ joined = [s \in Sockets |-> {}] /\ room = [r \in Rooms |-> {}]
  /\ beat = [s \in Sockets |-> FALSE]
  /\ cli = [s \in Sockets |-> "none"] /\ link = [s \in Sockets |-> "ok"]
  /\ up = [s \in Sockets |-> <<>>] /\ down = [s \in Sockets |-> <<>>]
  /\ cur = None /\ connecting = FALSE /\ queue = <<>>
  /\ attempts = 0 /\ timers = 0
  /\ kind \in Kinds
  /\ view = "away" /\ reading = "none" /\ holding = FALSE /\ heard = FALSE
  /\ status = "live" /\ ending = "no"

Init == InitRest /\ news = 0 /\ visits = 0 /\ faults = 0

Fault == faults < MaxFaults /\ faults' = faults + 1

-----------------------------------------------------------------------------
(* wsClient *)

IsOpen(s) == s # None /\ cli[s] = "open"
Ask(op, r) == [op |-> op, room |-> r]

Unused == {s \in Sockets : cli[s] = "none" /\ srv[s] = "none"}
\* The socket the next dial makes (one at most).
Fresh == {s \in Unused : \A x \in Unused : s <= x}

\* new WebSocket(url): s is the socket, c what the other sockets come to.
Dial(s, c) ==
  /\ cur' = s
  /\ cli' = [c EXCEPT ![s] = "connecting"]
  /\ link' = [link EXCEPT ![s] = "ok"]

\* Variant for the checks: isConnecting is not looked at.
Connect_Always(c) ==
  IF cur # None /\ c[cur] = "open"
  THEN cli' = c /\ UNCHANGED <<cur, connecting, link>>
  ELSE connecting' = TRUE /\ \E s \in Fresh : Dial(s, c)

\* connect(): nothing to do while a socket is open or on its way.
Connect(c) ==
  IF connecting \/ (cur # None /\ c[cur] = "open")
  THEN cli' = c /\ UNCHANGED <<cur, connecting, link>>
  ELSE connecting' = TRUE /\ \E s \in Fresh : Dial(s, c)

\* What the network takes from the browser's end of s.
Taken(s, asks) == IF link[s] = "ok" THEN [up EXCEPT ![s] = @ \o asks] ELSE up

\* send(), for a handler that sends several messages in one go.
SendAll(asks) ==
  IF IsOpen(cur)
  THEN up' = Taken(cur, asks) /\ UNCHANGED <<cli, link, cur, connecting, queue>>
  ELSE queue' = queue \o asks /\ Connect(cli) /\ UNCHANGED up

\* Variant for the checks: the queue is emptied from its end.
Flushed_Pop(q) == Reverse(q)

\* The messages of the queue, in the order in which onopen sends them.
Flushed(q) == q

\* onopen of wsClient: the queue is sent in its order.
Opened(s) ==
  /\ connecting' = FALSE /\ attempts' = 0
  /\ up' = Taken(s, Flushed(queue)) /\ queue' = <<>>

\* onclose, and onerror before it: isConnecting is reset, one more attempt.
AttemptReconnect ==
  IF attempts < MaxAttempts
  THEN attempts' = attempts + 1 /\ timers' = timers + 1
  ELSE UNCHANGED <<attempts, timers>>

\* Variant for the checks: the overlay only shows that it is disconnected.
OverlayClosed_NoReload == UNCHANGED <<timers, attempts>>

\* The overlay reloads after any of its sockets has closed.
OverlayClosed == timers' = timers + 1 /\ UNCHANGED attempts

-----------------------------------------------------------------------------
(* The pages *)

\* The rooms that the hooks of a page with view v and card h have asked for.
Wanted(v, h) ==
  IF kind = "overlay" THEN {}
  ELSE (IF v \in {"live", "ended"} \/ (kind = "dashboard" /\ v \in {"blank", "error"})
        THEN {"episode"} ELSE {})
       \cup (IF h THEN {"card"} ELSE {})

Listening == "episode" \in Wanted(view, holding)

\* The cleanups of useEpisodeEvents and useCardEvents when a page goes away.
Leaves ==
  (IF "episode" \in Wanted(view, holding) THEN <<Ask("delete", "episode")>> ELSE <<>>)
  \o (IF holding THEN <<Ask("delete", "card")>> ELSE <<>>)

LeaveRooms ==
  IF Leaves = <<>> THEN UNCHANGED <<up, cli, link, cur, connecting, queue>>
  ELSE SendAll(Leaves)

\* The page is opened from another page of the application: useWebSocket
\* connects (when there is a token) and the dashboard joins at once.
Visit ==
  /\ view = "away" /\ visits < MaxVisits /\ visits' = visits + 1
  /\ view' = "blank" /\ reading' = "none"
  /\ \/ kind = "dashboard" /\ SendAll(<<Ask("add", "episode")>>)
     \/ kind = "play" /\ Connect(cli) /\ UNCHANGED <<up, queue>>
     \/ kind # "dashboard" /\ UNCHANGED <<up, cli, link, cur, connecting, queue>>
  /\ UNCHANGED <<serverVars, down, attempts, timers, kind, holding, heard, apiVars,
                 news, faults>>

\* ... and left for another one: the singleton stays connected.
Leave ==
  /\ kind # "overlay" /\ view # "away" /\ visits < MaxVisits /\ visits' = visits + 1
  /\ LeaveRooms
  /\ view' = "away" /\ reading' = "none" /\ holding' = FALSE
  /\ UNCHANGED <<serverVars, down, attempts, timers, kind, heard, apiVars, news, faults>>

\* The browser unloads the page and loads it again; no handler runs.
Unload ==
  /\ cli' = [s \in Sockets |-> IF srv[s] = "none" THEN "none" ELSE "gone"]
  /\ up' = [s \in Sockets |-> IF srv[s] = "none" THEN <<>> ELSE up[s]]
  /\ down' = [s \in Sockets |-> <<>>]
  /\ cur' = None /\ connecting' = FALSE /\ queue' = <<>>
  /\ attempts' = 0 /\ timers' = 0
  /\ reading' = "none" /\ holding' = FALSE

\* The user reloads; the page is mounted by Visit.
Reload ==
  /\ kind # "overlay" /\ visits < MaxVisits /\ visits' = visits + 1
  /\ Unload /\ view' = "away"
  /\ UNCHANGED <<serverVars, link, kind, heard, apiVars, news, faults>>

\* loadEpisode: the API reads the row ...
Read ==
  /\ view = "blank" /\ reading = "none"
  /\ reading' = status
  /\ UNCHANGED <<serverVars, cli, netVars, clientVars, kind, view, holding, heard,
                 apiVars, countVars>>

\* ... the play page or dashboard shows it; the play page joins the episode
\* and, when the viewer has a card there, subscribes to the card.
Loaded ==
  /\ kind # "overlay" /\ view = "blank" /\ reading # "none"
  /\ view' = reading /\ reading' = "none"
  /\ \/ kind = "dashboard" /\ holding' = FALSE
        /\ UNCHANGED <<up, cli, link, cur, connecting, queue>>
     \/ kind = "play" /\ holding' = FALSE /\ SendAll(<<Ask("add", "episode")>>)
     \/ kind = "play" /\ holding' = TRUE
        /\ SendAll(<<Ask("add", "episode"), Ask("add", "card")>>)
  /\ UNCHANGED <<serverVars, down, attempts, timers, kind, heard, apiVars, countVars>>

\* The viewer mints while watching: useCardEvents subscribes to the card.
Mint ==
  /\ kind = "play" /\ view = "live" /\ ~holding /\ status = "live"
  /\ holding' = TRUE /\ SendAll(<<Ask("add", "card")>>)
  /\ UNCHANGED <<serverVars, down, attempts, timers, kind, view, reading, heard,
                 apiVars, countVars>>

LoadFails ==
  /\ view = "blank" /\ Fault
  /\ view' = "error" /\ reading' = "none"
  /\ UNCHANGED <<serverVars, cli, netVars, clientVars, kind, holding, heard, apiVars,
                 news, visits>>

\* setEpisode in the overlay runs its effect again: the socket is closed and
\* a new one is dialled.  c is cli, l the view that results.
OverlayEffect(v) ==
  LET c == IF cur # None /\ cli[cur] \in {"connecting", "open"}
           THEN [cli EXCEPT ![cur] = "closing"] ELSE cli
  IN  /\ \E s \in Fresh : Dial(s, c)
      /\ view' = v

OverlayLoaded ==
  /\ kind = "overlay" /\ view = "blank" /\ reading # "none"
  /\ OverlayEffect(reading) /\ reading' = "none"
  /\ UNCHANGED <<serverVars, up, down, connecting, queue, attempts, timers, kind,
                 holding, heard, apiVars, countVars>>

-----------------------------------------------------------------------------
(* The browser's end of a socket *)

OnOpen(s) ==
  /\ cli[s] = "connecting" /\ srv[s] = "open" /\ link[s] = "ok"
  /\ cli' = [cli EXCEPT ![s] = "open"]
  /\ IF kind = "overlay"
     THEN up' = Taken(s, <<Ask("add", "episode")>>) /\ UNCHANGED <<connecting, attempts, queue>>
     ELSE Opened(s)
  /\ UNCHANGED <<serverVars, link, down, cur, timers, kind, pageVars, apiVars, countVars>>

\* onclose
Closed(s) ==
  /\ cli' = [cli EXCEPT ![s] = "none"]
  /\ down' = [down EXCEPT ![s] = <<>>]
  /\ up' = IF srv[s] = "none" THEN [up EXCEPT ![s] = <<>>] ELSE up
  /\ IF kind = "overlay" THEN OverlayClosed /\ UNCHANGED connecting
     ELSE AttemptReconnect /\ connecting' = FALSE
  /\ UNCHANGED <<serverVars, link, cur, queue, kind, pageVars, apiVars, countVars>>

\* The server ended the socket, refused it or never answered, or the page
\* closed it.
OnClose(s) ==
  /\ \/ cli[s] = "connecting" /\ (link[s] # "ok" \/ srv[s] = "closing")
     \/ cli[s] = "open" /\ (link[s] = "reset" \/ (link[s] = "ok" /\ srv[s] = "closing"))
     \/ cli[s] = "closing" /\ (link[s] # "ok" \/ srv[s] # "open")
  /\ Closed(s)

\* A browser that sends nothing may never notice that its link was cut.
NoticeCut(s) == cli[s] = "open" /\ link[s] = "cut" /\ Closed(s)

TimerFires ==
  /\ timers > 0
  /\ IF kind = "overlay"
     THEN Unload /\ view' = "blank" /\ UNCHANGED link
     ELSE /\ timers' = timers - 1 /\ Connect(cli)
          /\ UNCHANGED <<up, down, queue, attempts, view, reading, holding>>
  /\ UNCHANGED <<serverVars, kind, heard, apiVars, countVars>>

\* What a page does with a broadcast of the end, of stats and of its card.
HandleEnded ==
  /\ heard' = TRUE
  /\ CASE kind = "play" -> view' = "ended"
                           /\ UNCHANGED <<up, cli, link, cur, connecting, queue, holding>>
       [] kind = "dashboard" -> view' = "results" /\ LeaveRooms /\ UNCHANGED holding
       [] kind = "overlay" -> OverlayEffect("ended")
                              /\ UNCHANGED <<up, connecting, queue, holding>>

\* Variant for the checks: the handler uses the episode it captured.
HandleStats_Captured ==
  /\ IF kind = "overlay" THEN OverlayEffect("live")
     ELSE UNCHANGED <<cli, link, cur, view>>
  /\ UNCHANGED <<up, connecting, queue, holding, heard>>

HandleStats ==
  /\ IF kind = "overlay" THEN OverlayEffect(view)
     ELSE UNCHANGED <<cli, link, cur, view>>
  /\ UNCHANGED <<up, connecting, queue, holding, heard>>

\* card:updated carries the number of marked squares, where the page expects
\* a list of them: the render throws and the page is torn down.
HandleCard ==
  /\ IF holding THEN view' = "crashed" /\ holding' = FALSE /\ LeaveRooms
     ELSE UNCHANGED <<up, cli, link, cur, connecting, queue, view, holding>>
  /\ UNCHANGED heard

Ignored == UNCHANGED <<up, cli, link, cur, connecting, queue, view, holding, heard>>

\* onmessage: the next message of s, given to the handlers of the page.
Deliver(s) ==
  /\ cli[s] = "open" /\ down[s] # <<>>
  /\ CASE kind # "overlay" /\ ~Listening /\ ~holding -> Ignored
       [] Head(down[s]) = "ended" -> HandleEnded
       [] Head(down[s]) = "stats" -> HandleStats
       [] Head(down[s]) = "card" -> HandleCard
  /\ down' = [down EXCEPT ![s] = IF cli'[s] = "open" THEN Tail(@) ELSE <<>>]
  /\ UNCHANGED <<serverVars, attempts, timers, kind, reading, apiVars, countVars>>

-----------------------------------------------------------------------------
(* The server *)

\* Variant for the checks: only a client that is still registered is cleaned.
Cleanup_Registered(s) ==
  /\ room' = [r \in Rooms |->
               IF r \in joined[s] /\ s \in connections THEN room[r] \ {s} ELSE room[r]]
  /\ connections' = connections \ {s}

\* cleanupConnection(client)
Cleanup(s) ==
  /\ room' = [r \in Rooms |-> IF r \in joined[s] THEN room[r] \ {s} ELSE room[r]]
  /\ connections' = connections \ {s}

Accept(s) ==
  /\ cli[s] = "connecting" /\ srv[s] = "none" /\ link[s] = "ok"
  /\ srv' = [srv EXCEPT ![s] = "open"]
  /\ beat' = [beat EXCEPT ![s] = TRUE]
  /\ joined' = [joined EXCEPT ![s] = {}]
  /\ connections' = connections \cup {s}
  /\ UNCHANGED <<room, cli, netVars, clientVars, kind, pageVars, apiVars, countVars>>

\* handleMessage: join, leave, subscribe, unsubscribe.  What was received
\* before a termination is still handled after it.
HandleMessage(s) ==
  /\ srv[s] # "none" /\ up[s] # <<>>
  /\ LET m == Head(up[s]) IN
     IF m.op = "add"
     THEN /\ joined' = [joined EXCEPT ![s] = @ \cup {m.room}]
          /\ room' = [room EXCEPT ![m.room] = @ \cup {s}]
     ELSE /\ joined' = [joined EXCEPT ![s] = @ \ {m.room}]
          /\ room' = [room EXCEPT ![m.room] = @ \ {s}]
  /\ up' = [up EXCEPT ![s] = Tail(@)]
  /\ UNCHANGED <<srv, connections, beat, cli, link, down, clientVars, kind, pageVars,
                 apiVars, countVars>>

\* The 'close' event: after a termination, or when the browser has closed its
\* end and all it sent has been received.
ServerClose(s) ==
  /\ \/ srv[s] = "closing"
     \/ srv[s] = "open" /\ link[s] = "ok" /\ cli[s] \in {"none", "closing", "gone"}
        /\ up[s] = <<>>
  /\ Cleanup(s)
  /\ srv' = [srv EXCEPT ![s] = "none"]
  /\ link' = [link EXCEPT ![s] = IF @ = "ok" THEN "reset" ELSE @]
  /\ up' = [up EXCEPT ![s] = <<>>]
  /\ cli' = [cli EXCEPT ![s] = IF @ = "gone" THEN "none" ELSE @]
  /\ UNCHANGED <<joined, beat, down, clientVars, kind, pageVars, apiVars, countVars>>

\* The browser answers a ping.
Reachable(s) == link[s] = "ok" /\ cli[s] \in {"connecting", "open", "closing"}

Pong(s) ==
  /\ srv[s] = "open" /\ ~beat[s] /\ Reachable(s)
  /\ beat' = [beat EXCEPT ![s] = TRUE]
  /\ UNCHANGED <<srv, connections, joined, room, cli, netVars, clientVars, kind, pageVars,
                 apiVars, countVars>>

\* The interval: whoever has not answered since the last tick is removed and
\* terminated, the others are asked again.
Dead == {s \in Sockets : srv[s] # "none" /\ ~beat[s]}

\* Variant for the checks: isAlive is not reset before the ping.
Heartbeat_NoReset ==
  /\ srv' = [s \in Sockets |-> IF s \in Dead THEN "closing" ELSE srv[s]]
  /\ connections' = connections \ Dead
  /\ room' = [r \in Rooms |-> {s \in room[r] : ~(s \in Dead /\ r \in joined[s])}]
  /\ UNCHANGED <<joined, beat>>

Heartbeat ==
  /\ srv' = [s \in Sockets |-> IF s \in Dead THEN "closing" ELSE srv[s]]
  /\ connections' = connections \ Dead
  /\ room' = [r \in Rooms |-> {s \in room[r] : ~(s \in Dead /\ r \in joined[s])}]
  /\ beat' = [s \in Sockets |-> FALSE]
  /\ UNCHANGED joined

\* Thirty seconds are enough for a pong ...
Tick ==
  /\ \A s \in Dead : ~Reachable(s)
  /\ \E s \in Sockets : srv[s] = "open"
  /\ Heartbeat
  /\ UNCHANGED <<cli, netVars, clientVars, kind, pageVars, apiVars, countVars>>

\* ... but for a client that is suspended or slow.
SlowTick ==
  /\ \E s \in Dead : Reachable(s) /\ srv[s] = "open"
  /\ Heartbeat /\ Fault
  /\ UNCHANGED <<cli, netVars, clientVars, kind, pageVars, apiVars, news, visits>>

\* broadcastToEpisode: whoever is in the room, registered and open.
BroadcastToEpisode(m) ==
  down' = [s \in Sockets |->
             IF /\ s \in room["episode"] \cap connections /\ srv[s] = "open"
                /\ link[s] = "ok" /\ cli[s] \in {"connecting", "open"}
             THEN Append(down[s], m) ELSE down[s]]

\* broadcastStats after a mint or an event, card:updated after an event.
News(m) ==
  /\ news < MaxNews /\ news' = news + 1
  /\ BroadcastToEpisode(m)
  /\ UNCHANGED <<serverVars, cli, link, up, clientVars, kind, pageVars, apiVars, visits, faults>>

\* POST /:id/end: the status is saved first, the broadcast comes last.
EndSave ==
  /\ ending = "no"
  /\ ending' = "saved" /\ status' = "ended"
  /\ UNCHANGED <<serverVars, cli, netVars, clientVars, kind, pageVars, countVars>>

EndTell ==
  /\ ending = "saved"
  /\ ending' = "told" /\ BroadcastToEpisode("ended")
  /\ UNCHANGED <<serverVars, cli, link, up, clientVars, kind, pageVars, status, countVars>>

-----------------------------------------------------------------------------
(* Faults *)

\* Nothing reaches either end any more, and neither is told.
Cut(s) ==
  /\ link[s] = "ok" /\ srv[s] = "open" /\ Fault
  /\ link' = [link EXCEPT ![s] = "cut"]
  /\ up' = [up EXCEPT ![s] = <<>>] /\ down' = [down EXCEPT ![s] = <<>>]
  /\ UNCHANGED <<serverVars, cli, clientVars, kind, pageVars, apiVars, news, visits>>

\* The connection is refused.
Refused(s) ==
  /\ cli[s] = "connecting" /\ srv[s] = "none" /\ link[s] = "ok" /\ Fault
  /\ link' = [link EXCEPT ![s] = "reset"]
  /\ UNCHANGED <<serverVars, cli, up, down, clientVars, kind, pageVars, apiVars, news, visits>>

\* The API process dies and starts again with an empty memory.
Restart ==
  /\ Fault
  /\ srv' = [s \in Sockets |-> "none"] /\ connections' = {}
  /\ joined' = [s \in Sockets |-> {}] /\ room' = [r \in Rooms |-> {}]
  /\ beat' = [s \in Sockets |-> FALSE]
  /\ link' = [s \in Sockets |-> IF srv[s] # "none" /\ link[s] = "ok" THEN "reset" ELSE link[s]]
  /\ up' = [s \in Sockets |-> <<>>]
  /\ cli' = [s \in Sockets |-> IF cli[s] = "gone" THEN "none" ELSE cli[s]]
  /\ ending' = IF ending = "saved" THEN "lost" ELSE ending
  /\ UNCHANGED <<down, clientVars, kind, pageVars, status, news, visits>>

-----------------------------------------------------------------------------
Browser ==
  \/ Read \/ Loaded \/ OverlayLoaded \/ TimerFires
  \/ \E s \in Sockets : OnOpen(s) \/ OnClose(s) \/ Deliver(s)

Server ==
  \/ Tick
  \/ \E s \in Sockets : Accept(s) \/ HandleMessage(s) \/ ServerClose(s) \/ Pong(s)

Environment ==
  \/ Visit \/ Leave \/ Reload \/ Mint \/ EndSave \/ EndTell
  \/ \E m \in {"stats", "card"} : News(m)
  \/ LoadFails \/ SlowTick \/ Restart
  \/ \E s \in Sockets : NoticeCut(s) \/ Cut(s) \/ Refused(s)

Next == Browser \/ Server \/ Environment

Spec == Init /\ [][Next]_vars

\* Callbacks run and what was sent arrives; nothing obliges users, the end of
\* the episode, faults, or a browser to find out that its link was cut.
Fairness ==
  /\ WF_vars(Read) /\ WF_vars(Loaded) /\ WF_vars(OverlayLoaded) /\ WF_vars(TimerFires)
  /\ WF_vars(Tick)
  /\ \A s \in Sockets :
       /\ WF_vars(OnOpen(s)) /\ WF_vars(OnClose(s)) /\ WF_vars(Deliver(s))
       /\ WF_vars(Accept(s)) /\ WF_vars(HandleMessage(s))
       /\ WF_vars(ServerClose(s)) /\ WF_vars(Pong(s))

FairSpec == Spec /\ Fairness

-----------------------------------------------------------------------------
(* Properties *)

\* The registry and the rooms agree (websocket/server.ts:20-22): while a client
\* is registered it is in exactly the rooms its own sets name, so that one
\* cleanup removes it from all of them; a room holds no one whose 'close' is
\* not still to come; and a client that is gone is in no room, whatever the
\* heartbeat, the close event and late messages did in which order.
RoomsAgree ==
  \A s \in Sockets, r \in Rooms :
    /\ s \in connections => (s \in room[r] <=> r \in joined[s])
    /\ s \in room[r] => r \in joined[s] /\ srv[s] # "none"
    /\ s \in connections => srv[s] # "none"

\* wsClient keeps one socket (lib/websocket.ts:22-25): however the reconnect
\* timers, the messages of pages and the closing of sockets interleave, at most
\* one is open or on its way, it is the current one, and nothing is left in the
\* queue behind an open one.
OneSocket ==
  kind # "overlay" =>
    /\ \A s \in Sockets : cli[s] \in {"connecting", "open"} => s = cur
    /\ IsOpen(cur) => queue = <<>>

\* A page that was left is not in the room (lib/websocket.ts:180-183): once all
\* that was sent on an open socket has been handled, the server has the socket
\* in no room that no mounted page has asked for, through queueing and redials.
LeftRoomsAreLeft ==
  \A s \in Sockets :
    (kind # "overlay" /\ cli[s] = "open" /\ link[s] = "ok" /\ up[s] = <<>>
     /\ srv[s] = "open")
      => joined[s] \subseteq Wanted(view, holding)

\* Both: the server's two indexes agree with each other (websocket/server.ts:20)
\* and, once all is handled, with the pages (lib/websocket.ts:180).
RoomsFollowPages == RoomsAgree /\ LeftRoomsAreLeft

\* No page goes back to "live" after it heard of the end (routes/episodes.ts
\* 436, overlay page 91-97): not by reloading, not by a late answer.
EndIsKept == heard => view # "live"

\* A connection that was cut is found by the heartbeat and removed
\* (websocket/server.ts:30-40).
GhostsGo ==
  \A s \in Sockets : (srv[s] = "open" /\ link[s] = "cut") ~> s \notin connections

\* The overlay ends up in the room of its episode again after whatever closed
\* its sockets (overlay page 91-97), unless its fetch failed or its link was cut
\* and the browser never noticed.
OverlaySettled ==
  (kind = "overlay" /\ view # "away") =>
    \/ view = "error"
    \/ cur # None /\ cli[cur] = "open" /\ (link[cur] = "cut" \/ cur \in room["episode"])
OverlaySettles == <>[]OverlaySettled
=============================================================================
