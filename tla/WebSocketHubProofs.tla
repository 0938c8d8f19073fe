------------------------- MODULE WebSocketHubProofs -------------------------
(***************************************************************************)
(* Real-time updates, proved for any sockets, attempts, visits, news and   *)
(* faults: the types, the agreement of registry and rooms, the one socket  *)
(* of wsClient, that no page forgets the end of the episode, and that the  *)
(* rooms a page has left are left.                                         *)
(***************************************************************************)
EXTENDS WebSocketHub, TLAPS

CliType == [Sockets -> {"none", "connecting", "open", "closing", "gone"}]

UpType == [Sockets -> Seq(Asks)]

\* What connecting and sending may change.
ClientTyped ==
  /\ cli \in CliType /\ link \in [Sockets -> {"ok", "reset", "cut"}]
  /\ up \in UpType /\ cur \in Sockets \cup {None}
  /\ connecting \in BOOLEAN /\ queue \in Seq(Asks)

RestTyped ==
  /\ srv \in [Sockets -> {"none", "open", "closing"}]
  /\ connections \subseteq Sockets
  /\ joined \in [Sockets -> SUBSET Rooms]
  /\ room \in [Rooms -> SUBSET Sockets]
  /\ beat \in [Sockets -> BOOLEAN]
  /\ down \in [Sockets -> Seq({"ended", "stats", "card"})]
  /\ attempts \in 0..MaxAttempts /\ timers \in Nat
  /\ kind \in {"play", "dashboard", "overlay"} /\ kind \in Kinds
  /\ view \in {"blank", "live", "ended", "error", "results", "crashed", "away"}
  /\ reading \in {"none", "live", "ended"}
  /\ holding \in BOOLEAN /\ heard \in BOOLEAN
  /\ status \in {"live", "ended"} /\ ending \in {"no", "saved", "told", "lost"}
  /\ news \in 0..MaxNews /\ visits \in 0..MaxVisits /\ faults \in 0..MaxFaults

\* The types, in two parts.
LEMMA Types == TypeOK <=> ClientTyped /\ RestTyped
  BY KindsOfPage DEF TypeOK, ClientTyped, RestTyped, CliType, UpType

-----------------------------------------------------------------------------
\* A dial takes a socket that both ends have done with.
LEMMA ConnectTyped ==
  ASSUME ClientTyped, Connect(cli)
  PROVE  /\ cli' \in CliType /\ link' \in [Sockets -> {"ok", "reset", "cut"}]
         /\ cur' \in Sockets \cup {None} /\ connecting' \in BOOLEAN
  BY DEF ClientTyped, Connect, Dial, Fresh, Unused, CliType

\* What is sent is queued or taken by the network.
LEMMA SendTyped ==
  ASSUME ClientTyped, NEW asks \in Seq(Asks), SendAll(asks) PROVE ClientTyped'
<1>1. CASE IsOpen(cur)
  <2>1. cur \in Sockets
    BY <1>1 DEF IsOpen, ClientTyped
  <2>2. up[cur] \o asks \in Seq(Asks)
    BY <2>1 DEF ClientTyped, UpType
  <2>3. Taken(cur, asks) \in UpType
    BY <2>1, <2>2 DEF Taken, ClientTyped, UpType
  <2> QED BY <1>1, <2>3 DEF SendAll, ClientTyped
<1>2. CASE ~IsOpen(cur)
  <2>1. queue \o asks \in Seq(Asks)
    BY DEF ClientTyped
  <2> QED BY <1>2, <2>1, ConnectTyped DEF SendAll, ClientTyped
<1> QED BY <1>1, <1>2

\* Pages ask for rooms there are.
LEMMA AsksTyped ==
  /\ \A op \in {"add", "delete"}, r \in Rooms : <<Ask(op, r)>> \in Seq(Asks)
  /\ <<Ask("add", "episode"), Ask("add", "card")>> \in Seq(Asks)
  /\ Leaves \in Seq(Asks)
<1>1. \A op \in {"add", "delete"}, r \in Rooms : Ask(op, r) \in Asks
  BY DEF Ask, Asks
<1>2. {"episode", "card"} = Rooms
  BY DEF Rooms
<1>3. /\ \A op \in {"add", "delete"}, r \in Rooms : <<Ask(op, r)>> \in Seq(Asks)
      /\ <<Ask("add", "episode"), Ask("add", "card")>> \in Seq(Asks)
  BY <1>1, <1>2
<1>4. Leaves \in Seq(Asks)
  <2> DEFINE a == IF "episode" \in Wanted(view, holding) THEN <<Ask("delete", "episode")>> ELSE <<>>
             b == IF holding THEN <<Ask("delete", "card")>> ELSE <<>>
  <2>1. a \in Seq(Asks) /\ b \in Seq(Asks)
    BY <1>2, <1>3
  <2>2. Leaves = a \o b
    BY DEF Leaves
  <2> HIDE DEF a, b
  <2> QED BY <2>1, <2>2
<1> QED BY <1>3, <1>4

\* A page that goes away leaves its rooms, or had none.
LEMMA LeaveTyped == ASSUME ClientTyped, LeaveRooms PROVE ClientTyped'
<1>1. CASE SendAll(Leaves)
  BY <1>1, SendTyped, AsksTyped
<1>2. CASE UNCHANGED <<up, cli, link, cur, connecting, queue>>
  BY <1>2 DEF ClientTyped
<1> QED BY <1>1, <1>2 DEF LeaveRooms

\* The overlay closes its socket and dials another.
LEMMA OverlayTyped ==
  ASSUME ClientTyped, NEW v, OverlayEffect(v)
  PROVE  /\ cli' \in CliType /\ link' \in [Sockets -> {"ok", "reset", "cut"}]
         /\ cur' \in Sockets \cup {None} /\ view' = v
<1> DEFINE c == IF cur # None /\ cli[cur] \in {"connecting", "open"}
                THEN [cli EXCEPT ![cur] = "closing"] ELSE cli
<1>1. c \in CliType
  BY DEF ClientTyped, CliType
<1>2. PICK s \in Sockets : Dial(s, c) /\ view' = v
  BY DEF OverlayEffect, Fresh, Unused
<1> HIDE DEF c
<1> QED BY <1>1, <1>2 DEF Dial, ClientTyped, CliType

\* A page that is unloaded forgets its sockets.
LEMMA UnloadTyped ==
  ASSUME ClientTyped, RestTyped, Unload, UNCHANGED link
  PROVE  /\ ClientTyped'
         /\ attempts' \in 0..MaxAttempts /\ timers' \in Nat /\ reading' = "none" /\ holding' = FALSE
         /\ down' \in [Sockets -> Seq({"ended", "stats", "card"})]
<1>1. cli' \in CliType /\ up' \in UpType /\ queue' \in Seq(Asks)
  BY DEF Unload, ClientTyped, CliType, UpType
<1>2. ClientTyped'
  BY <1>1 DEF Unload, ClientTyped
<1>3. attempts' \in 0..MaxAttempts
  BY BoundsAreNat DEF Unload
<1> QED BY <1>2, <1>3 DEF Unload, RestTyped

-----------------------------------------------------------------------------
\* The steps of pages.
LEMMA PageTypes ==
  ASSUME TypeOK, Visit \/ Leave \/ Reload \/ Read \/ Loaded \/ Mint \/ LoadFails \/ OverlayLoaded
  PROVE  TypeOK'
<1> USE DEF serverVars, netVars, clientVars, pageVars, apiVars, countVars
<1>1. ClientTyped /\ RestTyped
  BY Types
<1>2. faults' \in {faults, faults + 1} /\ faults' \in 0..MaxFaults
  <2>1. UNCHANGED faults \/ Fault
    BY DEF Visit, Leave, Reload, Read, Loaded, Mint, LoadFails, OverlayLoaded
  <2> QED BY <1>1, <2>1, BoundsAreNat DEF Fault, RestTyped
<1>3. visits' \in 0..MaxVisits
  <2>1. UNCHANGED visits \/ (visits < MaxVisits /\ visits' = visits + 1)
    BY DEF Visit, Leave, Reload, Read, Loaded, Mint, LoadFails, OverlayLoaded
  <2> QED BY <1>1, <2>1, BoundsAreNat DEF RestTyped
<1>4. CASE Visit
  <2>1. ClientTyped'
    <3>1. CASE SendAll(<<Ask("add", "episode")>>)
      BY <1>1, <3>1, SendTyped, AsksTyped DEF Rooms
    <3>2. CASE Connect(cli) /\ UNCHANGED <<up, queue>>
      BY <1>1, <3>2, ConnectTyped DEF ClientTyped
    <3>3. CASE UNCHANGED <<up, cli, link, cur, connecting, queue>>
      BY <1>1, <3>3 DEF ClientTyped
    <3> QED BY <1>4, <3>1, <3>2, <3>3 DEF Visit
  <2>2. RestTyped'
    BY <1>1, <1>2, <1>3, <1>4 DEF Visit, RestTyped
  <2> QED BY <2>1, <2>2, Types DEF TypeOK, ClientTyped, RestTyped, CliType, UpType
<1>5. CASE Leave
  <2>1. ClientTyped'
    BY <1>1, <1>5, LeaveTyped DEF Leave
  <2>2. RestTyped'
    BY <1>1, <1>2, <1>3, <1>5 DEF Leave, RestTyped
  <2> QED BY <2>1, <2>2 DEF TypeOK, ClientTyped, RestTyped, CliType, UpType
<1>6. CASE Reload
  <2>1. ClientTyped'
    BY <1>1, <1>6, UnloadTyped DEF Reload
  <2>2. RestTyped'
    BY <1>1, <1>2, <1>3, <1>6, UnloadTyped DEF Reload, RestTyped
  <2> QED BY <2>1, <2>2 DEF TypeOK, ClientTyped, RestTyped, CliType, UpType
<1>7. CASE Read \/ LoadFails
  BY <1>1, <1>2, <1>3, <1>7 DEF Read, LoadFails, TypeOK, RestTyped
<1>8. CASE Loaded
  <2>1. ClientTyped'
    <3>1. CASE UNCHANGED <<up, cli, link, cur, connecting, queue>>
      BY <1>1, <3>1 DEF ClientTyped
    <3>2. CASE \E asks \in {<<Ask("add", "episode")>>, <<Ask("add", "episode"), Ask("add", "card")>>} :
                 SendAll(asks)
      BY <1>1, <3>2, SendTyped, AsksTyped DEF Rooms
    <3> QED BY <1>8, <3>1, <3>2 DEF Loaded
  <2>2. RestTyped'
    BY <1>1, <1>2, <1>3, <1>8 DEF Loaded, RestTyped
  <2> QED BY <2>1, <2>2 DEF TypeOK, ClientTyped, RestTyped, CliType, UpType
<1>9. CASE Mint
  <2>1. ClientTyped'
    BY <1>1, <1>9, SendTyped, AsksTyped DEF Mint, Rooms
  <2>2. RestTyped'
    BY <1>1, <1>2, <1>3, <1>9 DEF Mint, RestTyped
  <2> QED BY <2>1, <2>2 DEF TypeOK, ClientTyped, RestTyped, CliType, UpType
<1>10. CASE OverlayLoaded
  <2>1. OverlayEffect(reading)
    BY <1>10 DEF OverlayLoaded
  <2>2. ClientTyped'
    BY <1>1, <1>10, <2>1, OverlayTyped DEF OverlayLoaded, ClientTyped
  <2>3. view' = reading /\ reading # "none"
    BY <1>1, <1>10, <2>1, OverlayTyped DEF OverlayLoaded
  <2>4. RestTyped'
    BY <1>1, <1>2, <1>3, <1>10, <2>3 DEF OverlayLoaded, RestTyped
  <2> QED BY <2>2, <2>4 DEF TypeOK, ClientTyped, RestTyped, CliType, UpType
<1> QED BY <1>4, <1>5, <1>6, <1>7, <1>8, <1>9, <1>10

\* The callbacks of the browser's end.
LEMMA SocketTypes ==
  ASSUME TypeOK, TimerFires \/ \E s \in Sockets : OnOpen(s) \/ OnClose(s) \/ NoticeCut(s)
  PROVE  TypeOK'
<1> USE DEF serverVars, netVars, clientVars, pageVars, apiVars, countVars
<1>1. ClientTyped /\ RestTyped
  BY Types
<1>2. CASE TimerFires
  <2>1. CASE Unload /\ view' = "blank" /\ UNCHANGED link
    <3>1. ClientTyped'
      BY <1>1, <2>1, UnloadTyped
    <3>2. RestTyped'
      BY <1>1, <1>2, <2>1, UnloadTyped DEF TimerFires, RestTyped
    <3> QED BY <3>1, <3>2 DEF TypeOK, ClientTyped, RestTyped, CliType, UpType
  <2>2. CASE timers' = timers - 1 /\ Connect(cli) /\ timers > 0
             /\ UNCHANGED <<up, down, queue, attempts, view, reading, holding>>
    <3>1. ClientTyped'
      BY <1>1, <2>2, ConnectTyped DEF ClientTyped
    <3>2. RestTyped'
      BY <1>1, <1>2, <2>2 DEF TimerFires, RestTyped
    <3> QED BY <3>1, <3>2 DEF TypeOK, ClientTyped, RestTyped, CliType, UpType
  <2> QED BY <1>2, <2>1, <2>2 DEF TimerFires
<1>3. ASSUME NEW s \in Sockets, OnOpen(s) PROVE TypeOK'
  <2>1. up' \in UpType
    <3>1. CASE up' = Taken(s, <<Ask("add", "episode")>>)
      <4>1. <<Ask("add", "episode")>> \in Seq(Asks)
        BY AsksTyped DEF Rooms
      <4>2. up[s] \o <<Ask("add", "episode")>> \in Seq(Asks)
        BY <1>1, <4>1 DEF ClientTyped, UpType
      <4> QED BY <1>1, <3>1, <4>2 DEF Taken, ClientTyped, UpType
    <3>2. CASE up' = Taken(s, Flushed(queue))
      <4>1. up[s] \o queue \in Seq(Asks)
        BY <1>1 DEF ClientTyped, UpType
      <4> QED BY <1>1, <3>2, <4>1 DEF Taken, Flushed, ClientTyped, UpType
    <3> QED BY <1>3, <3>1, <3>2 DEF OnOpen, Opened
  <2>2. ClientTyped'
    <3>1. cli' \in CliType
      BY <1>1, <1>3 DEF OnOpen, ClientTyped, CliType
    <3>2. connecting' \in BOOLEAN /\ queue' \in Seq(Asks)
      <4>1. UNCHANGED <<connecting, queue>> \/ (connecting' = FALSE /\ queue' = <<>>)
        BY <1>3 DEF OnOpen, Opened
      <4>2. <<>> \in Seq(Asks)
        OBVIOUS
      <4> QED BY <1>1, <4>1, <4>2 DEF ClientTyped
    <3> QED BY <1>1, <1>3, <2>1, <3>1, <3>2 DEF OnOpen, ClientTyped
  <2>3. 0 \in 0..MaxAttempts
    BY BoundsAreNat
  <2>4. RestTyped'
    BY <1>1, <1>3, <2>3 DEF OnOpen, Opened, RestTyped
  <2> QED BY <2>2, <2>4 DEF TypeOK, ClientTyped, RestTyped, CliType, UpType
<1>4. ASSUME NEW s \in Sockets, Closed(s) PROVE TypeOK'
  <2>1. attempts' \in 0..MaxAttempts /\ timers' \in Nat
    BY <1>1, <1>4, BoundsAreNat DEF Closed, OverlayClosed, AttemptReconnect, RestTyped
  <2>2. ClientTyped'
    <3>1. cli' \in CliType
      BY <1>1, <1>4 DEF Closed, ClientTyped, CliType
    <3>2. up' \in UpType
      BY <1>1, <1>4 DEF Closed, ClientTyped, UpType
    <3>3. connecting' \in BOOLEAN
      BY <1>1, <1>4 DEF Closed, ClientTyped
    <3> QED BY <1>1, <1>4, <3>1, <3>2, <3>3 DEF Closed, ClientTyped
  <2>3. RestTyped'
    BY <1>1, <1>4, <2>1 DEF Closed, RestTyped
  <2> QED BY <2>2, <2>3 DEF TypeOK, ClientTyped, RestTyped, CliType, UpType
<1> QED BY <1>2, <1>3, <1>4 DEF OnClose, NoticeCut

\* A page handles what arrives.
LEMMA DeliverTypes == ASSUME TypeOK, NEW s \in Sockets, Deliver(s) PROVE TypeOK'
<1> USE DEF serverVars, netVars, clientVars, pageVars, apiVars, countVars
<1>1. ClientTyped /\ RestTyped
  BY Types
<1>2. /\ cli' \in CliType /\ link' \in [Sockets -> {"ok", "reset", "cut"}] /\ up' \in UpType
      /\ cur' \in Sockets \cup {None} /\ connecting' \in BOOLEAN /\ queue' \in Seq(Asks)
      /\ view' \in {"blank", "live", "ended", "error", "results", "crashed", "away"}
      /\ holding' \in BOOLEAN /\ heard' \in BOOLEAN
  <2>1. CASE Ignored
    BY <1>1, <2>1 DEF Ignored, ClientTyped, RestTyped
  <2>2. CASE HandleEnded
    <3>1. CASE kind = "play"
      BY <1>1, <2>2, <3>1 DEF HandleEnded, ClientTyped, RestTyped
    <3>2. CASE kind = "dashboard"
      <4>1. ClientTyped'
        BY <1>1, <2>2, <3>2, LeaveTyped DEF HandleEnded
      <4>2. heard' = TRUE /\ view' = "results" /\ UNCHANGED holding
        BY <2>2, <3>2 DEF HandleEnded
      <4> QED BY <1>1, <4>1, <4>2 DEF ClientTyped, RestTyped
    <3>3. CASE kind = "overlay"
      <4>1. OverlayEffect("ended") /\ heard' = TRUE /\ UNCHANGED <<up, connecting, queue, holding>>
        BY <2>2, <3>3 DEF HandleEnded
      <4> QED BY <1>1, <4>1, OverlayTyped DEF ClientTyped, RestTyped
    <3> QED BY <1>1, <3>1, <3>2, <3>3 DEF RestTyped
  <2>3. CASE HandleStats
    <3>1. CASE kind = "overlay"
      <4>1. OverlayEffect(view) /\ UNCHANGED <<up, connecting, queue, holding, heard>>
        BY <2>3, <3>1 DEF HandleStats
      <4> QED BY <1>1, <4>1, OverlayTyped DEF ClientTyped, RestTyped
    <3>2. CASE kind # "overlay"
      BY <1>1, <2>3, <3>2 DEF HandleStats, ClientTyped, RestTyped
    <3> QED BY <3>1, <3>2
  <2>4. CASE HandleCard
    <3>1. CASE holding
      <4>1. LeaveRooms /\ view' = "crashed" /\ holding' = FALSE /\ UNCHANGED heard
        BY <2>4, <3>1 DEF HandleCard
      <4> QED BY <1>1, <4>1, LeaveTyped DEF ClientTyped, RestTyped
    <3>2. CASE ~holding
      BY <1>1, <2>4, <3>2 DEF HandleCard, ClientTyped, RestTyped
    <3> QED BY <3>1, <3>2
  <2>5. Head(down[s]) \in {"ended", "stats", "card"}
    BY <1>1 DEF Deliver, RestTyped
  <2> QED BY <2>1, <2>2, <2>3, <2>4, <2>5 DEF Deliver
<1>3. down' \in [Sockets -> Seq({"ended", "stats", "card"})]
  <2>1. down[s] \in Seq({"ended", "stats", "card"}) /\ down[s] # <<>>
    BY <1>1 DEF Deliver, RestTyped
  <2>2. Tail(down[s]) \in Seq({"ended", "stats", "card"}) /\ <<>> \in Seq({"ended", "stats", "card"})
    BY <2>1
  <2>3. \E q \in Seq({"ended", "stats", "card"}) : down' = [down EXCEPT ![s] = q]
    BY <2>2 DEF Deliver
  <2> QED BY <1>1, <2>3 DEF RestTyped
<1> QED BY <1>1, <1>2, <1>3 DEF Deliver, TypeOK, ClientTyped, RestTyped, CliType, UpType

\* The server's steps, the end of the episode and the faults.
LEMMA ServerTypes ==
  ASSUME TypeOK, Server \/ SlowTick \/ Restart \/ EndSave \/ EndTell
                 \/ (\E m \in {"stats", "card"} : News(m))
                 \/ (\E s \in Sockets : Cut(s) \/ Refused(s))
  PROVE  TypeOK'
<1> USE DEF serverVars, netVars, clientVars, pageVars, apiVars, countVars
<1>1. ClientTyped /\ RestTyped
  BY Types
<1>2. CASE Tick \/ SlowTick
  <2>1. srv' \in [Sockets -> {"none", "open", "closing"}] /\ connections' \subseteq Sockets
    BY <1>1, <1>2 DEF Tick, SlowTick, Heartbeat, RestTyped
  <2>2. room' \in [Rooms -> SUBSET Sockets] /\ beat' \in [Sockets -> BOOLEAN]
    <3>1. /\ room' = [r \in Rooms |-> {s \in room[r] : ~(s \in Dead /\ r \in joined[s])}]
          /\ beat' = [s \in Sockets |-> FALSE]
      BY <1>2 DEF Tick, SlowTick, Heartbeat
    <3> QED BY <1>1, <3>1 DEF RestTyped
  <2>3. faults' \in 0..MaxFaults
    BY <1>1, <1>2, BoundsAreNat DEF Tick, SlowTick, Fault, RestTyped
  <2>4. ClientTyped'
    BY <1>1, <1>2 DEF Tick, SlowTick, ClientTyped
  <2>5. RestTyped'
    BY <1>1, <1>2, <2>1, <2>2, <2>3 DEF Tick, SlowTick, Heartbeat, RestTyped
  <2> QED BY <2>4, <2>5 DEF TypeOK, ClientTyped, RestTyped, CliType, UpType
<1>3. ASSUME NEW s \in Sockets, Accept(s) \/ Pong(s) PROVE TypeOK'
  <2>1. CASE Accept(s)
    BY <2>1 DEF Accept, TypeOK
  <2>2. CASE Pong(s)
    BY <2>2 DEF Pong, TypeOK
  <2> QED BY <1>3, <2>1, <2>2
<1>4. ASSUME NEW s \in Sockets, HandleMessage(s) PROVE TypeOK'
  <2> DEFINE m == Head(up[s])
  <2>1. m \in Asks /\ Tail(up[s]) \in Seq(Asks)
    BY <1>1, <1>4 DEF HandleMessage, ClientTyped, UpType
  <2>2. PICK x \in Rooms : x = m.room
    BY <2>1 DEF Asks
  <2>3. up' \in UpType
    BY <1>1, <1>4, <2>1 DEF HandleMessage, ClientTyped, UpType
  <2>4. joined' \in [Sockets -> SUBSET Rooms] /\ room' \in [Rooms -> SUBSET Sockets]
    <3>1. joined[s] \in SUBSET Rooms /\ room[x] \in SUBSET Sockets
      BY <1>1 DEF RestTyped
    <3>2. CASE joined' = [joined EXCEPT ![s] = @ \cup {x}] /\ room' = [room EXCEPT ![x] = @ \cup {s}]
      BY <1>1, <3>1, <3>2 DEF RestTyped
    <3>3. CASE joined' = [joined EXCEPT ![s] = @ \ {x}] /\ room' = [room EXCEPT ![x] = @ \ {s}]
      BY <1>1, <3>1, <3>3 DEF RestTyped
    <3> QED BY <1>4, <2>2, <3>2, <3>3 DEF HandleMessage
  <2>5. ClientTyped'
    BY <1>1, <1>4, <2>3 DEF HandleMessage, ClientTyped
  <2>6. RestTyped'
    BY <1>1, <1>4, <2>4 DEF HandleMessage, RestTyped
  <2> QED BY <2>5, <2>6 DEF TypeOK, ClientTyped, RestTyped, CliType, UpType
<1>5. ASSUME NEW s \in Sockets, ServerClose(s) PROVE TypeOK'
  <2>1. ClientTyped'
    BY <1>1, <1>5 DEF ServerClose, ClientTyped, CliType, UpType
  <2>2. room' \in [Rooms -> SUBSET Sockets] /\ connections' \subseteq Sockets
    BY <1>1, <1>5 DEF ServerClose, Cleanup, RestTyped
  <2>3. RestTyped'
    BY <1>1, <1>5, <2>2 DEF ServerClose, RestTyped
  <2> QED BY <2>1, <2>3 DEF TypeOK, ClientTyped, RestTyped, CliType, UpType
<1>6. CASE Restart
  <2>1. ClientTyped'
    BY <1>1, <1>6 DEF Restart, ClientTyped, CliType, UpType
  <2>2. faults' \in 0..MaxFaults
    BY <1>1, <1>6, BoundsAreNat DEF Restart, Fault, RestTyped
  <2>3. RestTyped'
    BY <1>1, <1>6, <2>2 DEF Restart, RestTyped
  <2> QED BY <2>1, <2>3 DEF TypeOK, ClientTyped, RestTyped, CliType, UpType
<1>7. ASSUME NEW m \in {"ended", "stats", "card"}, BroadcastToEpisode(m)
      PROVE  down' \in [Sockets -> Seq({"ended", "stats", "card"})]
  <2>1. \A s \in Sockets : Append(down[s], m) \in Seq({"ended", "stats", "card"})
    BY <1>1 DEF RestTyped
  <2> QED BY <1>1, <1>7, <2>1 DEF BroadcastToEpisode, RestTyped
<1>8. ASSUME NEW m \in {"stats", "card"}, News(m) PROVE TypeOK'
  <2>1. news' \in 0..MaxNews
    BY <1>1, <1>8, BoundsAreNat DEF News, RestTyped
  <2> QED BY <1>1, <1>7, <1>8, <2>1 DEF News, TypeOK
<1>9. CASE EndSave
  BY <1>1, <1>9 DEF EndSave, TypeOK
<1>10. CASE EndTell
  BY <1>1, <1>7, <1>10 DEF EndTell, TypeOK
<1>11. ASSUME NEW s \in Sockets, Cut(s) \/ Refused(s) PROVE TypeOK'
  <2>1. faults' \in 0..MaxFaults
    BY <1>1, <1>11, BoundsAreNat DEF Cut, Refused, Fault, RestTyped
  <2>2. <<>> \in Seq(Asks) /\ <<>> \in Seq({"ended", "stats", "card"})
    OBVIOUS
  <2>3. CASE Cut(s)
    <3>1. up' \in UpType /\ down' \in [Sockets -> Seq({"ended", "stats", "card"})]
      BY <1>1, <2>2, <2>3 DEF Cut, ClientTyped, RestTyped, UpType
    <3> QED BY <2>1, <2>3, <3>1 DEF Cut, TypeOK, UpType
  <2>4. CASE Refused(s)
    BY <2>1, <2>4 DEF Refused, TypeOK
  <2> QED BY <1>11, <2>3, <2>4
<1> QED BY <1>2, <1>3, <1>4, <1>5, <1>6, <1>8, <1>9, <1>10, <1>11 DEF Server

\* Nothing is set up and everything is empty.
LEMMA InitTypes == Init => TypeOK
<1> SUFFICES ASSUME Init PROVE TypeOK
  OBVIOUS
<1>1. <<>> \in Seq(Asks) /\ <<>> \in Seq({"ended", "stats", "card"})
  OBVIOUS
<1>2. ClientTyped
  BY <1>1 DEF Init, InitRest, ClientTyped, CliType, UpType
<1>3. 0 \in 0..MaxAttempts /\ 0 \in 0..MaxNews /\ 0 \in 0..MaxVisits /\ 0 \in 0..MaxFaults
  BY BoundsAreNat
<1>4. /\ srv \in [Sockets -> {"none", "open", "closing"}] /\ connections \subseteq Sockets
      /\ joined \in [Sockets -> SUBSET Rooms] /\ room \in [Rooms -> SUBSET Sockets]
      /\ beat \in [Sockets -> BOOLEAN]
      /\ down \in [Sockets -> Seq({"ended", "stats", "card"})]
  BY <1>1 DEF Init, InitRest
<1>5. RestTyped
  BY <1>3, <1>4, KindsOfPage DEF Init, InitRest, RestTyped
<1> QED BY <1>2, <1>5, Types

\* Every step keeps the types.
LEMMA TypesInductive == TypeOK /\ [Next]_vars => TypeOK'
<1> SUFFICES ASSUME TypeOK, [Next]_vars PROVE TypeOK'
  OBVIOUS
<1>1. CASE Browser
  BY <1>1, PageTypes, SocketTypes, DeliverTypes DEF Browser
<1>2. CASE Server
  BY <1>2, ServerTypes
<1>3. CASE Environment
  BY <1>3, PageTypes, SocketTypes, ServerTypes DEF Environment
<1>4. CASE UNCHANGED vars
  BY <1>4 DEF vars, serverVars, netVars, clientVars, pageVars, apiVars, countVars, TypeOK
<1> QED BY <1>1, <1>2, <1>3, <1>4 DEF Next

\* The registry, the sockets and the page keep their types.
THEOREM HubTypes == Spec => []TypeOK
<1> QED BY InitTypes, TypesInductive, PTL DEF Spec

-----------------------------------------------------------------------------
\* Registry and rooms: browsers and pages do not touch them.
LEMMA RoomsElsewhere ==
  ASSUME RoomsAgree, UNCHANGED <<srv, connections, joined, room>> PROVE RoomsAgree'
  BY DEF RoomsAgree

\* Six steps do.
LEMMA RoomsInductive == TypeOK /\ RoomsAgree /\ [Next]_vars => RoomsAgree'
<1> SUFFICES ASSUME TypeOK, RoomsAgree, [Next]_vars PROVE RoomsAgree'
  OBVIOUS
<1> USE DEF serverVars, netVars, clientVars, pageVars, apiVars, countVars
<1>1. ASSUME NEW s \in Sockets, Accept(s) PROVE RoomsAgree'
  BY <1>1 DEF Accept, RoomsAgree, TypeOK
<1>2. ASSUME NEW s \in Sockets, HandleMessage(s) PROVE RoomsAgree'
  <2> DEFINE m == Head(up[s])
  <2>1. m \in Asks
    BY <1>2 DEF HandleMessage, TypeOK
  <2>2. PICK x \in Rooms : x = m.room
    BY <2>1 DEF Asks
  <2>3. srv[s] # "none" /\ UNCHANGED <<srv, connections>>
    BY <1>2 DEF HandleMessage
  <2>4. CASE joined' = [joined EXCEPT ![s] = @ \cup {x}] /\ room' = [room EXCEPT ![x] = @ \cup {s}]
    BY <2>3, <2>4 DEF RoomsAgree, TypeOK
  <2>5. CASE joined' = [joined EXCEPT ![s] = @ \ {x}] /\ room' = [room EXCEPT ![x] = @ \ {s}]
    BY <2>3, <2>5 DEF RoomsAgree, TypeOK
  <2> QED BY <1>2, <2>2, <2>4, <2>5 DEF HandleMessage
<1>3. ASSUME NEW s \in Sockets, ServerClose(s) PROVE RoomsAgree'
  <2>1. /\ room' = [r \in Rooms |-> IF r \in joined[s] THEN room[r] \ {s} ELSE room[r]]
        /\ connections' = connections \ {s} /\ srv' = [srv EXCEPT ![s] = "none"] /\ joined' = joined
    BY <1>3 DEF ServerClose, Cleanup
  <2> QED BY <2>1 DEF RoomsAgree, TypeOK
<1>4. CASE Tick \/ SlowTick
  <2>1. /\ srv' = [s \in Sockets |-> IF s \in Dead THEN "closing" ELSE srv[s]]
        /\ connections' = connections \ Dead
        /\ room' = [r \in Rooms |-> {s \in room[r] : ~(s \in Dead /\ r \in joined[s])}]
        /\ joined' = joined
    BY <1>4 DEF Tick, SlowTick, Heartbeat
  <2> QED BY <2>1 DEF RoomsAgree, TypeOK
<1>5. CASE Restart
  BY <1>5 DEF Restart, RoomsAgree, TypeOK
<1>6. ASSUME NEW s \in Sockets,
             OnOpen(s) \/ OnClose(s) \/ NoticeCut(s) \/ Deliver(s) \/ Pong(s) \/ Cut(s) \/ Refused(s)
      PROVE  RoomsAgree'
  <2>1. UNCHANGED <<srv, connections, joined, room>>
    BY <1>6 DEF OnOpen, OnClose, NoticeCut, Closed, Deliver, Pong, Cut, Refused
  <2> QED BY <2>1, RoomsElsewhere
<1>7. CASE \/ Visit \/ Leave \/ Reload \/ Read \/ Loaded \/ Mint \/ LoadFails \/ OverlayLoaded
           \/ TimerFires \/ EndSave \/ EndTell \/ UNCHANGED vars
           \/ \E m \in {"stats", "card"} : News(m)
  <2>1. UNCHANGED <<srv, connections, joined, room>>
    BY <1>7 DEF Visit, Leave, Reload, Read, Loaded, Mint, LoadFails, OverlayLoaded, TimerFires,
                EndSave, EndTell, News, vars
  <2> QED BY <2>1, RoomsElsewhere
<1> QED BY <1>1, <1>2, <1>3, <1>4, <1>5, <1>6, <1>7 DEF Next, Browser, Server, Environment

-----------------------------------------------------------------------------
\* One socket: no page but the overlay closes one, and isConnecting says when
\* one is on its way.
One ==
  kind # "overlay" =>
    /\ \A s \in Sockets : cli[s] \in {"connecting", "open"} => s = cur
    /\ \A s \in Sockets : cli[s] = "connecting" => connecting
    /\ \A s \in Sockets : cli[s] # "closing"
    /\ IsOpen(cur) => queue = <<>>

\* Dialling happens when none is open or on its way.
LEMMA DialsOne ==
  ASSUME TypeOK, One, kind # "overlay", kind' = kind,
         (\E asks : SendAll(asks))
         \/ (Connect(cli) /\ UNCHANGED queue)
  PROVE  One'
<1>1. CASE IsOpen(cur) /\ UNCHANGED <<cli, cur, connecting, queue>>
  BY <1>1 DEF One, IsOpen
<1>2. ASSUME Connect(cli), IsOpen(cur) => UNCHANGED queue PROVE One'
  <2>1. CASE connecting \/ (cur # None /\ cli[cur] = "open")
    BY <1>2, <2>1 DEF Connect, One, IsOpen
  <2>2. CASE ~(connecting \/ (cur # None /\ cli[cur] = "open"))
    <3>1. PICK s \in Sockets : Dial(s, cli) /\ connecting' = TRUE
      BY <1>2, <2>2 DEF Connect, Fresh, Unused
    <3>2. \A x \in Sockets : cli[x] \notin {"connecting", "open"}
      BY <2>2, NoneIsNoSocket DEF One
    <3> QED BY <3>1, <3>2 DEF Dial, One, IsOpen, TypeOK
  <2> QED BY <2>1, <2>2
<1>3. ASSUME NEW asks, SendAll(asks) PROVE One'
  BY <1>1, <1>2, <1>3 DEF SendAll
<1> QED BY <1>2, <1>3

\* The other steps close sockets, or open the one on its way.
LEMMA OneInductive == TypeOK /\ One /\ [Next]_vars => One'
<1> SUFFICES ASSUME TypeOK, One, [Next]_vars, kind # "overlay" PROVE One'
  BY DEF One, Next, Browser, Server, Environment, vars, Visit, Leave, Reload, Read, Loaded, Mint,
         LoadFails, OverlayLoaded, TimerFires, EndSave, EndTell, News, OnOpen, OnClose, NoticeCut,
         Closed, Deliver, Pong, Cut, Refused, Accept, HandleMessage, ServerClose, Tick, SlowTick,
         Restart
<1> USE DEF serverVars, netVars, clientVars, pageVars, apiVars, countVars
<1>1. ASSUME UNCHANGED <<cli, cur, connecting, queue, kind>> PROVE One'
  BY <1>1 DEF One, IsOpen
<1>2. ASSUME LeaveRooms, kind' = kind PROVE One'
  BY <1>1, <1>2, DialsOne DEF LeaveRooms
<1>3. CASE Visit \/ Leave \/ Loaded \/ Mint
  <2>1. kind' = kind
    BY <1>3 DEF Visit, Leave, Loaded, Mint
  <2>2. \/ LeaveRooms \/ (\E asks : SendAll(asks)) \/ (Connect(cli) /\ UNCHANGED queue)
        \/ UNCHANGED <<up, cli, link, cur, connecting, queue>>
    BY <1>3 DEF Visit, Leave, Loaded, Mint
  <2> QED BY <1>1, <1>2, <2>1, <2>2, DialsOne
<1>4. CASE Reload
  BY <1>4 DEF Reload, Unload, One, IsOpen, TypeOK
<1>5. CASE TimerFires
  <2>1. Connect(cli) /\ UNCHANGED <<queue, kind>>
    BY <1>5 DEF TimerFires
  <2> QED BY <2>1, DialsOne
<1>6. ASSUME NEW s \in Sockets, OnOpen(s) PROVE One'
  <2>1. /\ cli[s] = "connecting" /\ cli' = [cli EXCEPT ![s] = "open"]
        /\ connecting' = FALSE /\ queue' = <<>> /\ UNCHANGED <<cur, kind>>
    BY <1>6 DEF OnOpen, Opened
  <2> QED BY <2>1 DEF One, IsOpen, TypeOK
<1>7. ASSUME NEW s \in Sockets, OnClose(s) \/ NoticeCut(s) PROVE One'
  <2>1. /\ cli[s] \in {"connecting", "open"} /\ cli' = [cli EXCEPT ![s] = "none"]
        /\ UNCHANGED <<cur, queue, kind>> /\ connecting' = FALSE
    BY <1>7 DEF OnClose, NoticeCut, Closed, One
  <2> QED BY <2>1, NoneIsNoSocket DEF One, IsOpen, TypeOK
<1>8. ASSUME NEW s \in Sockets, Deliver(s) PROVE One'
  <2>1. kind' = kind /\ (Ignored \/ HandleEnded \/ HandleStats \/ HandleCard)
    <3>1. Head(down[s]) \in {"ended", "stats", "card"}
      BY <1>8 DEF Deliver, TypeOK
    <3> QED BY <1>8, <3>1 DEF Deliver
  <2>2. LeaveRooms \/ UNCHANGED <<cli, cur, connecting, queue>>
    <3>1. kind \in {"play", "dashboard"}
      BY KindsOfPage DEF TypeOK
    <3> QED BY <2>1, <3>1 DEF Ignored, HandleEnded, HandleStats, HandleCard
  <2> QED BY <1>1, <1>2, <2>1, <2>2
<1>9. ASSUME NEW s \in Sockets, ServerClose(s) PROVE One'
  BY <1>9 DEF ServerClose, One, IsOpen, TypeOK
<1>10. CASE Restart
  BY <1>10 DEF Restart, One, IsOpen, TypeOK
<1>11. ASSUME NEW s \in Sockets, Accept(s) \/ HandleMessage(s) \/ Pong(s) \/ Cut(s) \/ Refused(s)
       PROVE  One'
  BY <1>1, <1>11 DEF Accept, HandleMessage, Pong, Cut, Refused
<1>12. CASE \/ Read \/ LoadFails \/ EndSave \/ EndTell \/ Tick \/ SlowTick \/ UNCHANGED vars
            \/ \E m \in {"stats", "card"} : News(m)
  BY <1>1, <1>12 DEF Read, LoadFails, EndSave, EndTell, Tick, SlowTick, News, vars
<1>13. ~OverlayLoaded
  BY DEF OverlayLoaded
<1> QED BY <1>3, <1>4, <1>5, <1>6, <1>7, <1>8, <1>9, <1>10, <1>11, <1>12, <1>13
        DEF Next, Browser, Server, Environment

-----------------------------------------------------------------------------
\* A page that has heard of the end: the row said so before, so no answer on
\* its way to a page that is loading can say otherwise.
Told ==
  /\ ending # "no" => status = "ended"
  /\ \A s \in Sockets : \A i \in 1..Len(down[s]) : down[s][i] = "ended" => status = "ended"
  /\ heard => status = "ended" /\ view # "live"
  /\ heard /\ view = "blank" => reading # "live"

\* Messages are not invented: what is on its way was on its way.
NoNews ==
  \A s \in Sockets : \A i \in 1..Len(down'[s]) : \E j \in 1..Len(down[s]) : down'[s][i] = down[s][j]

\* A page that changes without hearing anything.
PageKept ==
  /\ view' = "live" => view = "live" \/ (view = "blank" /\ reading = "live")
  /\ view' = "blank" => reading' \in {"none", status} \/ (view = "blank" /\ reading' = reading)

\* Hardly any step hears or tells.
LEMMA ToldQuiet ==
  ASSUME TypeOK, Told, NoNews, PageKept, UNCHANGED <<heard, status>>, ending' # "no" => ending # "no"
  PROVE  Told'
  BY DEF TypeOK, Told, NoNews, PageKept

\* Nothing new in what is unchanged ...
LEMMA SameNews == ASSUME UNCHANGED down PROVE NoNews
  BY DEF NoNews

\* ... nor in what is left when the first message is taken.
LEMMA TailNews ==
  ASSUME TypeOK, NEW s \in Sockets, down[s] # <<>>, NEW q \in {<<>>, Tail(down[s])},
         down' = [down EXCEPT ![s] = q]
  PROVE  NoNews
<1>1. down[s] \in Seq({"ended", "stats", "card"})
  BY DEF TypeOK
<1>2. \A i \in 1..Len(q) : \E j \in 1..Len(down[s]) : q[i] = down[s][j]
  <2> SUFFICES ASSUME NEW i \in 1..Len(q) PROVE \E j \in 1..Len(down[s]) : q[i] = down[s][j]
    OBVIOUS
  <2>1. q = Tail(down[s])
    OBVIOUS
  <2>2. i + 1 \in 1..Len(down[s]) /\ q[i] = down[s][i + 1]
    BY <1>1, <2>1
  <2> QED BY <2>2
<1> QED BY <1>2 DEF NoNews, TypeOK

\* The overlay shows the view it is given.
LEMMA OverlayShows == \A v : OverlayEffect(v) => view' = v
  BY DEF OverlayEffect

\* Every step.
LEMMA ToldInductive == TypeOK /\ Told /\ [Next]_vars => Told'
<1> SUFFICES ASSUME TypeOK, Told, [Next]_vars PROVE Told'
  OBVIOUS
<1> USE DEF serverVars, netVars, clientVars, pageVars, apiVars, countVars
<1>1. CASE Visit \/ Leave \/ Read \/ Loaded \/ Mint \/ LoadFails
  <2>1. UNCHANGED <<down, heard, status, ending>>
    BY <1>1 DEF Visit, Leave, Read, Loaded, Mint, LoadFails
  <2>2. PageKept
    BY <1>1 DEF Visit, Leave, Read, Loaded, Mint, LoadFails, PageKept, TypeOK
  <2> QED BY <2>1, <2>2, SameNews, ToldQuiet
<1>2. CASE OverlayLoaded
  <2>1. view = "blank" /\ view' = reading /\ reading # "none"
    BY <1>2, OverlayShows DEF OverlayLoaded
  <2>2. UNCHANGED <<down, heard, status, ending>>
    BY <1>2 DEF OverlayLoaded
  <2>3. PageKept
    BY <2>1 DEF PageKept, TypeOK
  <2> QED BY <2>2, <2>3, SameNews, ToldQuiet
<1>3. CASE Reload \/ TimerFires
  <2>1. UNCHANGED <<heard, status, ending>>
    BY <1>3 DEF Reload, TimerFires
  <2>2. \/ down' = [s \in Sockets |-> <<>>] /\ reading' = "none" /\ view' \in {"away", "blank"}
        \/ UNCHANGED <<down, view, reading>>
    BY <1>3 DEF Reload, TimerFires, Unload
  <2>3. NoNews /\ PageKept
    BY <2>2 DEF NoNews, PageKept
  <2> QED BY <2>1, <2>3, ToldQuiet
<1>4. ASSUME NEW s \in Sockets, OnOpen(s) \/ OnClose(s) \/ NoticeCut(s) \/ Cut(s) PROVE Told'
  <2>1. UNCHANGED <<heard, status, ending, view, reading>>
    BY <1>4 DEF OnOpen, OnClose, NoticeCut, Closed, Cut
  <2>2. down' \in {down, [down EXCEPT ![s] = <<>>]}
    BY <1>4 DEF OnOpen, OnClose, NoticeCut, Closed, Cut
  <2>3. NoNews
    <3>1. CASE down[s] # <<>> /\ down' = [down EXCEPT ![s] = <<>>]
      BY <3>1, TailNews
    <3>2. CASE down[s] = <<>> \/ down' = down
      <4>1. down' = down
        BY <2>2, <3>2 DEF TypeOK
      <4> QED BY <4>1, SameNews
    <3> QED BY <2>2, <3>1, <3>2
  <2> QED BY <2>1, <2>3, ToldQuiet DEF PageKept
<1>5. ASSUME NEW s \in Sockets, Deliver(s) PROVE Told'
  <2>1. UNCHANGED <<status, ending, reading>> /\ down[s] # <<>>
    BY <1>5 DEF Deliver
  <2>2. NoNews
    <3>1. \E q \in {<<>>, Tail(down[s])} : down' = [down EXCEPT ![s] = q]
      BY <1>5 DEF Deliver
    <3> QED BY <2>1, <3>1, TailNews
  <2>3. CASE HandleEnded /\ Head(down[s]) = "ended"
    <3>1. status = "ended"
      <4>1. down[s] \in Seq({"ended", "stats", "card"})
        BY DEF TypeOK
      <4>2. Head(down[s]) = down[s][1] /\ 1 \in 1..Len(down[s])
        BY <2>1, <4>1
      <4> QED BY <2>3, <4>2 DEF Told
    <3>2. kind \in {"play", "dashboard", "overlay"}
      BY KindsOfPage DEF TypeOK
    <3>3. heard' = TRUE /\ view' \in {"ended", "results"}
      BY <2>3, <3>2, OverlayShows DEF HandleEnded
    <3> QED BY <2>1, <3>1, <3>3 DEF Told
  <2>4. CASE Ignored \/ HandleStats \/ HandleCard
    <3>1. UNCHANGED heard /\ view' \in {view, "crashed"}
      BY <2>4, OverlayShows DEF Ignored, HandleStats, HandleCard
    <3>2. PageKept
      BY <2>1, <3>1 DEF PageKept
    <3> QED BY <2>1, <2>2, <3>1, <3>2, ToldQuiet
  <2>5. Head(down[s]) \in {"ended", "stats", "card"}
    BY <2>1 DEF TypeOK
  <2> QED BY <1>5, <2>3, <2>4, <2>5 DEF Deliver
<1>6. ASSUME NEW m \in {"ended", "stats", "card"}, BroadcastToEpisode(m),
             m = "ended" => status = "ended",
             UNCHANGED <<status, heard, view, reading>>, ending' # "no" => ending # "no"
      PROVE  Told'
  <2>1. \A s \in Sockets : \A i \in 1..Len(down'[s]) : down'[s][i] = "ended" => status = "ended"
    <3> SUFFICES ASSUME NEW s \in Sockets, NEW i \in 1..Len(down'[s]), down'[s][i] = "ended"
                 PROVE  status = "ended"
      OBVIOUS
    <3>1. down[s] \in Seq({"ended", "stats", "card"})
      BY DEF TypeOK
    <3>2. down'[s] \in {down[s], Append(down[s], m)}
      BY <1>6 DEF BroadcastToEpisode
    <3>3. CASE down'[s] = down[s]
      BY <3>3 DEF Told
    <3>4. CASE down'[s] = Append(down[s], m)
      BY <1>6, <3>1, <3>4 DEF Told
    <3> QED BY <3>2, <3>3, <3>4
  <2> QED BY <1>6, <2>1 DEF Told
<1>7. ASSUME NEW m \in {"stats", "card"}, News(m) PROVE Told'
  <2>1. BroadcastToEpisode(m) /\ UNCHANGED <<status, heard, view, reading, ending>>
    BY <1>7 DEF News
  <2> QED BY <1>6, <2>1
<1>8. CASE EndTell
  <2>1. BroadcastToEpisode("ended") /\ ending # "no" /\ UNCHANGED <<status, heard, view, reading>>
    BY <1>8 DEF EndTell
  <2>2. status = "ended"
    BY <2>1 DEF Told
  <2> QED BY <1>6, <2>1, <2>2
<1>9. CASE EndSave
  BY <1>9 DEF EndSave, Told
<1>10. CASE Server \/ SlowTick \/ Restart \/ UNCHANGED vars \/ \E s \in Sockets : Refused(s)
  <2>1. UNCHANGED <<down, heard, status, view, reading>> /\ (ending' # "no" => ending # "no")
    BY <1>10 DEF Server, Accept, HandleMessage, ServerClose, Pong, Tick, SlowTick, Restart, Refused, vars
  <2>2. PageKept
    BY <2>1 DEF PageKept
  <2> QED BY <2>1, <2>2, SameNews, ToldQuiet
<1> QED BY <1>1, <1>2, <1>3, <1>4, <1>5, <1>7, <1>8, <1>9, <1>10
        DEF Next, Browser, Environment

-----------------------------------------------------------------------------
IInv == TypeOK /\ RoomsAgree /\ One /\ Told

\* The invariant of registry, sockets and page.
THEOREM HubSafe == Spec => []IInv
<1>1. Init => IInv
  <2> SUFFICES ASSUME Init PROVE IInv
    OBVIOUS
  <2>1. TypeOK
    BY InitTypes
  <2>2. RoomsAgree /\ One /\ Told
    BY DEF Init, InitRest, RoomsAgree, One, Told, IsOpen
  <2> QED BY <2>1, <2>2 DEF IInv
<1>2. IInv /\ [Next]_vars => IInv'
  BY TypesInductive, RoomsInductive, OneInductive, ToldInductive DEF IInv
<1> QED BY <1>1, <1>2, PTL DEF Spec

\* Registry and rooms agree after any joins, leaves, closes and heartbeats.
THEOREM RoomsAlwaysAgree == Spec => []RoomsAgree
<1>1. IInv => RoomsAgree
  BY DEF IInv
<1> QED BY <1>1, HubSafe, PTL

\* wsClient never has two sockets, nor a message behind an open one.
THEOREM OneSocketHolds == Spec => []OneSocket
<1>1. IInv => OneSocket
  BY DEF IInv, One, OneSocket
<1> QED BY <1>1, HubSafe, PTL

\* What a page has heard of the end it keeps.
THEOREM EndStaysKnown == Spec => []EndIsKept
<1>1. IInv => EndIsKept
  BY DEF IInv, Told, EndIsKept
<1> QED BY <1>1, HubSafe, PTL

-----------------------------------------------------------------------------
(* The rooms a page has left.                                              *)

\* The last word on room r in q, if there is one, is to leave it.
Undone(q, r) ==
  \A i \in 1..Len(q) : q[i] = Ask("add", r) => \E j \in (i + 1)..Len(q) : q[j] = Ask("delete", r)

Deleted(q, r) == \E j \in 1..Len(q) : q[j] = Ask("delete", r)

Speaks(s) == cli[s] = "open" /\ link[s] = "ok"

\* Once all that is under way has been handled, nobody is in room r.
Left(r) ==
  /\ Undone(queue, r)
  /\ \A s \in Sockets : Speaks(s) =>
       Undone(up[s], r) /\ (r \in joined[s] => Deleted(up[s], r))

\* Nothing is under way before a socket is open.
Silent ==
  \A s \in Sockets :
    /\ cli[s] = "connecting" => up[s] = <<>> /\ (srv[s] # "none" => joined[s] = {})
    /\ cli[s] = "none" /\ srv[s] = "none" => up[s] = <<>>

Leaving ==
  kind # "overlay" =>
    /\ holding => kind = "play" /\ view \in {"live", "ended"}
    /\ Silent
    /\ \A r \in Rooms \ Wanted(view, holding) : Left(r)

LEMMA UndoneAfter ==
  ASSUME NEW q \in Seq(Asks), NEW p \in Seq(Asks), NEW r,
         Undone(p, r), Undone(q, r) \/ Deleted(p, r)
  PROVE  Undone(q \o p, r)
<1>1. /\ Len(q \o p) = Len(q) + Len(p) /\ Len(q) \in Nat /\ Len(p) \in Nat
      /\ \A i \in 1..Len(q) : (q \o p)[i] = q[i]
      /\ \A i \in 1..Len(p) : (q \o p)[Len(q) + i] = p[i]
  OBVIOUS
<1> SUFFICES ASSUME NEW i \in 1..Len(q \o p), (q \o p)[i] = Ask("add", r)
             PROVE  \E j \in (i + 1)..Len(q \o p) : (q \o p)[j] = Ask("delete", r)
  BY DEF Undone
<1> DEFINE qp == q \o p
<1> HIDE DEF qp
<1>2. CASE i \in 1..Len(q)
  <2>1. ASSUME NEW j \in 1..Len(p), p[j] = Ask("delete", r) PROVE \E k \in (i + 1)..Len(qp) : qp[k] = Ask("delete", r)
    <3>1. Len(q) + j \in (i + 1)..Len(qp) /\ qp[Len(q) + j] = Ask("delete", r)
      BY <1>1, <1>2, <2>1 DEF qp
    <3> QED BY <3>1
  <2>2. CASE Deleted(p, r)
    BY <2>1, <2>2 DEF Deleted, qp
  <2>3. CASE Undone(q, r)
    <3>1. PICK j \in (i + 1)..Len(q) : q[j] = Ask("delete", r)
      BY <1>1, <1>2, <2>3 DEF Undone
    <3>2. j \in (i + 1)..Len(qp) /\ qp[j] = Ask("delete", r)
      BY <1>1, <1>2, <3>1 DEF qp
    <3> QED BY <3>2 DEF qp
  <2> QED BY <2>2, <2>3
<1>3. CASE i \notin 1..Len(q)
  <2> DEFINE k == i - Len(q)
  <2>1. k \in 1..Len(p) /\ p[k] = Ask("add", r)
    BY <1>1, <1>3
  <2>2. PICK j \in (k + 1)..Len(p) : p[j] = Ask("delete", r)
    BY <2>1 DEF Undone
  <2>3. Len(q) + j \in (i + 1)..Len(qp) /\ qp[Len(q) + j] = Ask("delete", r)
    BY <1>1, <2>1, <2>2 DEF qp
  <2> QED BY <2>3 DEF qp
<1> QED BY <1>2, <1>3

LEMMA DeletedAfter ==
  ASSUME NEW q \in Seq(Asks), NEW p \in Seq(Asks), NEW r, Deleted(q, r) \/ Deleted(p, r)
  PROVE  Deleted(q \o p, r)
<1>1. /\ Len(q \o p) = Len(q) + Len(p) /\ Len(q) \in Nat /\ Len(p) \in Nat
      /\ \A i \in 1..Len(q) : (q \o p)[i] = q[i]
      /\ \A i \in 1..Len(p) : (q \o p)[Len(q) + i] = p[i]
  OBVIOUS
<1>2. CASE Deleted(q, r)
  <2>1. PICK j \in 1..Len(q) : q[j] = Ask("delete", r)
    BY <1>2 DEF Deleted
  <2>2. j \in 1..Len(q \o p) /\ (q \o p)[j] = Ask("delete", r)
    BY <1>1, <2>1
  <2> QED BY <2>2 DEF Deleted
<1>3. CASE Deleted(p, r)
  <2>1. PICK j \in 1..Len(p) : p[j] = Ask("delete", r)
    BY <1>3 DEF Deleted
  <2>2. Len(q) + j \in 1..Len(q \o p) /\ (q \o p)[Len(q) + j] = Ask("delete", r)
    BY <1>1, <2>1
  <2> QED BY <2>2 DEF Deleted
<1> QED BY <1>2, <1>3

\* The server takes the first message of q; there is none left of the rest.
LEMMA UndoneTail ==
  ASSUME NEW q \in Seq(Asks), q # <<>>, NEW r, Undone(q, r)
  PROVE  /\ Undone(Tail(q), r)
         /\ Head(q) = Ask("add", r) => Deleted(Tail(q), r)
         /\ Deleted(q, r) /\ Head(q) # Ask("delete", r) => Deleted(Tail(q), r)
<1> DEFINE t == Tail(q)
<1>1. /\ Len(q) \in Nat \ {0} /\ Len(t) = Len(q) - 1 /\ Head(q) = q[1]
      /\ \A i \in 1..Len(t) : t[i] = q[i + 1]
  OBVIOUS
<1> HIDE DEF t
<1>2. ASSUME NEW j \in 2..Len(q), q[j] = Ask("delete", r)
      PROVE  j - 1 \in 1..Len(t) /\ t[j - 1] = Ask("delete", r)
  <2>1. j - 1 \in 1..Len(t) /\ (j - 1) + 1 = j
    BY <1>1
  <2> QED BY <1>1, <1>2, <2>1
<1>3. Undone(t, r)
  <2> SUFFICES ASSUME NEW i \in 1..Len(t), t[i] = Ask("add", r)
               PROVE  \E j \in (i + 1)..Len(t) : t[j] = Ask("delete", r)
    BY DEF Undone
  <2>1. i + 1 \in 1..Len(q) /\ q[i + 1] = Ask("add", r)
    BY <1>1
  <2>2. PICK j \in (i + 2)..Len(q) : q[j] = Ask("delete", r)
    BY <2>1 DEF Undone
  <2>3. j \in 2..Len(q) /\ j - 1 \in (i + 1)..Len(t)
    BY <1>1, <2>2
  <2> QED BY <1>2, <2>2, <2>3
<1>4. ASSUME Head(q) = Ask("add", r) PROVE Deleted(t, r)
  <2>1. PICK j \in 2..Len(q) : q[j] = Ask("delete", r)
    BY <1>1, <1>4 DEF Undone
  <2> QED BY <1>2, <2>1 DEF Deleted
<1>5. ASSUME Deleted(q, r), Head(q) # Ask("delete", r) PROVE Deleted(t, r)
  <2>1. PICK j \in 1..Len(q) : q[j] = Ask("delete", r)
    BY <1>5 DEF Deleted
  <2>2. j \in 2..Len(q)
    BY <1>1, <1>5, <2>1
  <2> QED BY <1>2, <2>1, <2>2 DEF Deleted
<1> QED BY <1>3, <1>4, <1>5 DEF t

\* Leaving a page asks to leave every room it was in.
LEMMA LeavesAll ==
  ASSUME NEW r \in Rooms, kind # "overlay"
  PROVE  Undone(Leaves, r) /\ (r \in Wanted(view, holding) => Deleted(Leaves, r))
<1> DEFINE e == "episode" \in Wanted(view, holding)
           a == IF e THEN <<Ask("delete", "episode")>> ELSE <<>>
           b == IF holding THEN <<Ask("delete", "card")>> ELSE <<>>
<1>1. Leaves = a \o b /\ a \in Seq(Asks) /\ b \in Seq(Asks)
  <2>1. Leaves = a \o b
    BY DEF Leaves
  <2> QED BY <2>1, AsksTyped DEF Rooms
<1>2. \A x : <<Ask("delete", x)>>[1] = Ask("delete", x) /\ Len(<<Ask("delete", x)>>) = 1
  OBVIOUS
<1>3. Undone(a, r) /\ Undone(b, r)
  BY <1>2 DEF Undone, Ask
<1>4. /\ r = "episode" /\ e => Deleted(a, r)
      /\ r = "card" /\ holding => Deleted(b, r)
  BY <1>2 DEF Deleted
<1>5. r = "episode" \/ (r = "card" /\ (r \in Wanted(view, holding) => holding))
  BY DEF Rooms, Wanted
<1> HIDE DEF a, b
<1> QED BY <1>1, <1>3, <1>4, <1>5, UndoneAfter, DeletedAfter

-----------------------------------------------------------------------------
\* Sockets that go on as they are, or are silent.
LEMMA LeftKept ==
  ASSUME NEW r, Left(r), UNCHANGED <<queue, joined>>,
         \A s \in Sockets : Speaks(s)' => Speaks(s) /\ up'[s] = up[s]
  PROVE  Left(r)'
  BY DEF Left, Undone, Deleted, Speaks

LEMMA ConnectKeeps ==
  ASSUME TypeOK, Silent, Connect(cli), UNCHANGED <<up, joined, srv>>
  PROVE  Silent' /\ \A s \in Sockets : Speaks(s)' => Speaks(s)
<1>1. CASE cli' = cli /\ UNCHANGED link
  BY <1>1 DEF Silent, Speaks
<1>2. ASSUME NEW s \in Fresh, Dial(s, cli) PROVE Silent' /\ \A x \in Sockets : Speaks(x)' => Speaks(x)
  <2>1. s \in Sockets /\ cli[s] = "none" /\ srv[s] = "none"
    BY DEF Fresh, Unused
  <2>2. cli' = [cli EXCEPT ![s] = "connecting"] /\ link' = [link EXCEPT ![s] = "ok"]
    BY <1>2 DEF Dial
  <2> QED BY <2>1, <2>2 DEF Silent, Speaks, TypeOK
<1> QED BY <1>1, <1>2 DEF Connect

\* What a page sends, on the socket or through the queue.
LEMMA SendKeeps ==
  ASSUME TypeOK, One, Silent, kind # "overlay", UNCHANGED <<joined, srv>>,
         NEW asks \in Seq(Asks), SendAll(asks)
  PROVE  /\ Silent'
         /\ \A r : Undone(asks, r) /\ (Left(r) \/ Deleted(asks, r)) => Left(r)'
<1> USE DEF One
<1>1. CASE IsOpen(cur)
  <2>1. cur \in Sockets /\ cli[cur] = "open" /\ queue = <<>>
    BY <1>1 DEF IsOpen, TypeOK
  <2>2. up' = Taken(cur, asks) /\ UNCHANGED <<cli, link, cur, connecting, queue>>
    BY <1>1 DEF SendAll
  <2>3. \A s \in Sockets : s # cur => up'[s] = up[s]
    BY <2>2 DEF Taken, TypeOK
  <2>4. Silent'
    BY <2>1, <2>2, <2>3 DEF Silent
  <2>5. ASSUME NEW r, Undone(asks, r), Left(r) \/ Deleted(asks, r) PROVE Left(r)'
    <3>1. Undone(queue', r)
      BY <2>1, <2>2 DEF Undone
    <3>2. ASSUME NEW s \in Sockets, Speaks(s)'
          PROVE  Undone(up'[s], r) /\ (r \in joined'[s] => Deleted(up'[s], r))
      <4>1. s = cur /\ Speaks(s)
        BY <2>2, <3>2 DEF Speaks
      <4>2. up'[s] = up[s] \o asks
        BY <2>2, <4>1 DEF Taken, Speaks, TypeOK
      <4>3. up[s] \in Seq(Asks)
        BY DEF TypeOK
      <4>4. \/ Undone(up[s], r) /\ (r \in joined[s] => Deleted(up[s], r))
            \/ Deleted(asks, r)
        BY <2>5, <4>1 DEF Left
      <4> QED BY <2>5, <4>2, <4>3, <4>4, UndoneAfter, DeletedAfter
    <3> QED BY <3>1, <3>2 DEF Left, Undone, Deleted, Speaks
  <2> QED BY <2>4, <2>5
<1>2. CASE ~IsOpen(cur)
  <2>1. queue' = queue \o asks /\ Connect(cli) /\ UNCHANGED up /\ queue \in Seq(Asks)
    BY <1>2 DEF SendAll, TypeOK
  <2>2. Silent' /\ \A s \in Sockets : ~Speaks(s)'
    <3>1. \A s \in Sockets : ~Speaks(s)
      BY <1>2, NoneIsNoSocket DEF Speaks, IsOpen
    <3> QED BY <2>1, <3>1, ConnectKeeps
  <2>3. ASSUME NEW r, Undone(asks, r), Left(r) \/ Deleted(asks, r) PROVE Undone(queue', r)
    BY <2>1, <2>3, UndoneAfter DEF Left
  <2> QED BY <2>2, <2>3 DEF Left, Undone, Deleted, Speaks
<1> QED BY <1>1, <1>2

\* A page that goes away is in no room soon.
LEMMA LeaveKeeps ==
  ASSUME TypeOK, One, Leaving, kind # "overlay", UNCHANGED <<joined, srv>>, LeaveRooms
  PROVE  Silent' /\ \A r \in Rooms : Left(r)'
<1>0. Silent
  BY DEF Leaving
<1>1. CASE Leaves = <<>>
  <2>1. UNCHANGED <<up, cli, link, queue>>
    BY <1>1 DEF LeaveRooms
  <2>2. Silent'
    BY <1>0, <2>1 DEF Silent
  <2>3. ASSUME NEW r \in Rooms PROVE Left(r)'
    <3>1. ~Deleted(Leaves, r)
      BY <1>1 DEF Deleted
    <3>2. Left(r)
      BY <3>1, LeavesAll DEF Leaving
    <3> QED BY <2>1, <3>2, LeftKept DEF Speaks
  <2> QED BY <2>2, <2>3
<1>2. CASE Leaves # <<>>
  <2>1. SendAll(Leaves) /\ Leaves \in Seq(Asks)
    BY <1>2, AsksTyped DEF LeaveRooms
  <2>2. \A r \in Rooms : Undone(Leaves, r) /\ (Left(r) \/ Deleted(Leaves, r))
    BY LeavesAll DEF Leaving
  <2>3. Silent' /\ \A r : Undone(Leaves, r) /\ (Left(r) \/ Deleted(Leaves, r)) => Left(r)'
    BY <1>0, <2>1, SendKeeps
  <2> QED BY <2>2, <2>3
<1> QED BY <1>1, <1>2

\* What a page asks for it gets asked for, and what it asked for no more it has left.
LEMMA PagesLeave ==
  ASSUME TypeOK, One, Leaving, kind # "overlay",
         Visit \/ Leave \/ Reload \/ Read \/ Loaded \/ Mint \/ LoadFails \/ TimerFires
  PROVE  Leaving'
<1> USE DEF serverVars, netVars, clientVars, pageVars, apiVars, countVars
<1>0. /\ Silent /\ kind \in {"play", "dashboard"} /\ kind' = kind /\ UNCHANGED <<joined, srv>>
      /\ holding \in BOOLEAN
  BY KindsOfPage DEF Leaving, TypeOK, Visit, Leave, Reload, Read, Loaded, Mint, LoadFails, TimerFires
\* A page asks to be in rooms it had not asked for.
<1>1. ASSUME NEW asks \in Seq(Asks), SendAll(asks),
             \A r \in Rooms \ Wanted(view, holding)' : r \notin Wanted(view, holding) /\ Undone(asks, r),
             holding' => kind = "play" /\ view' \in {"live", "ended"}
      PROVE  Leaving'
  BY <1>0, <1>1, SendKeeps DEF Leaving
<1>2. ASSUME UNCHANGED <<up, queue, joined>>, Connect(cli) \/ UNCHANGED <<cli, link>>,
             \A r \in Rooms \ Wanted(view, holding)' : r \notin Wanted(view, holding),
             holding' => kind = "play" /\ view' \in {"live", "ended"}
      PROVE  Leaving'
  <2>1. Silent' /\ \A s \in Sockets : Speaks(s)' => Speaks(s)
    BY <1>0, <1>2, ConnectKeeps DEF Silent, Speaks
  <2>2. \A r : Left(r) => Left(r)'
    BY <1>2, <2>1, LeftKept
  <2> QED BY <1>0, <1>2, <2>1, <2>2 DEF Leaving
<1>3. /\ \A r \in Rooms \ {"episode"} : Undone(<<Ask("add", "episode")>>, r)
      /\ \A r \in Rooms \ {"card"} : Undone(<<Ask("add", "card")>>, r)
      /\ \A r \in Rooms \ {"episode", "card"} : Undone(<<Ask("add", "episode"), Ask("add", "card")>>, r)
  BY DEF Undone, Ask, Rooms
<1>4. /\ <<Ask("add", "episode")>> \in Seq(Asks) /\ <<Ask("add", "card")>> \in Seq(Asks)
      /\ <<Ask("add", "episode"), Ask("add", "card")>> \in Seq(Asks)
  BY AsksTyped DEF Rooms
<1>5. CASE Visit
  <2>1. view = "away" /\ view' = "blank" /\ holding' = holding /\ ~holding
    BY <1>5 DEF Visit, Leaving
  <2>2. CASE kind = "dashboard" /\ SendAll(<<Ask("add", "episode")>>)
    <3>1. Wanted(view, holding)' = {"episode"} /\ Wanted(view, holding) = {}
      BY <1>0, <2>1, <2>2 DEF Wanted
    <3> QED BY <1>1, <1>3, <1>4, <2>1, <2>2, <3>1
  <2>3. CASE kind # "dashboard"
    <3>1. Wanted(view, holding) = {}
      BY <1>0, <2>1, <2>3 DEF Wanted
    <3> QED BY <1>2, <1>5, <2>1, <2>3, <3>1 DEF Visit
  <2> QED BY <1>0, <1>5, <2>2, <2>3 DEF Visit
<1>6. CASE Leave
  <2>1. LeaveRooms /\ holding' = FALSE
    BY <1>6 DEF Leave
  <2> QED BY <1>0, <2>1, LeaveKeeps DEF Leaving
<1>7. CASE Reload
  <2>1. Unload /\ holding' = FALSE /\ \A s \in Sockets : cli'[s] \in {"none", "gone"}
    BY <1>7 DEF Reload, Unload
  <2>2. \A r : Left(r)'
    BY <2>1 DEF Left, Undone, Speaks, Unload
  <2>3. Silent'
    BY <1>0, <2>1 DEF Silent, Unload, TypeOK
  <2> QED BY <2>1, <2>2, <2>3 DEF Leaving
<1>8. CASE Read
  BY <1>2, <1>8 DEF Read, Leaving, Wanted
<1>9. CASE Loaded
  <2>1. view = "blank" /\ view' \in {"live", "ended"} /\ ~holding
    BY <1>9 DEF Loaded, Leaving, TypeOK
  <2>2. CASE kind = "dashboard"
    <3>1. holding' = FALSE /\ UNCHANGED <<up, cli, link, cur, connecting, queue>>
      BY <1>9, <2>2 DEF Loaded
    <3>2. Wanted(view, holding)' = Wanted(view, holding)
      BY <1>0, <2>1, <2>2, <3>1 DEF Wanted
    <3> QED BY <1>0, <1>2, <3>1, <3>2
  <2>3. CASE kind = "play"
    <3>1. Wanted(view, holding) = {}
      BY <2>1, <2>3 DEF Wanted
    <3>2. CASE holding' = FALSE /\ SendAll(<<Ask("add", "episode")>>)
      <4>1. Wanted(view, holding)' = {"episode"}
        BY <1>0, <2>1, <2>3, <3>2 DEF Wanted
      <4> QED BY <1>1, <1>3, <1>4, <3>1, <3>2, <4>1
    <3>3. CASE holding' = TRUE /\ SendAll(<<Ask("add", "episode"), Ask("add", "card")>>)
      <4>1. Wanted(view, holding)' = {"episode", "card"}
        BY <1>0, <2>1, <2>3, <3>3 DEF Wanted
      <4> QED BY <1>1, <1>3, <1>4, <2>1, <2>3, <3>1, <3>3, <4>1
    <3> QED BY <1>9, <2>3, <3>2, <3>3 DEF Loaded
  <2> QED BY <1>0, <2>2, <2>3
<1>10. CASE Mint
  <2>1. /\ kind = "play" /\ view = "live" /\ view' = view /\ ~holding /\ holding' = TRUE
        /\ SendAll(<<Ask("add", "card")>>)
    BY <1>10 DEF Mint
  <2>2. Wanted(view, holding) = {"episode"} /\ Wanted(view, holding)' = {"episode", "card"}
    BY <1>0, <2>1 DEF Wanted
  <2> QED BY <1>1, <1>3, <1>4, <2>1, <2>2
<1>11. CASE LoadFails
  <2>1. view = "blank" /\ view' = "error" /\ UNCHANGED <<holding, up, cli, link, queue>>
    BY <1>11 DEF LoadFails
  <2>2. Wanted(view, holding)' = Wanted(view, holding) /\ ~holding
    BY <1>0, <2>1 DEF Wanted, Leaving
  <2> QED BY <1>0, <1>2, <2>1, <2>2
<1>12. CASE TimerFires
  BY <1>0, <1>2, <1>12 DEF TimerFires, Leaving, Wanted
<1> QED BY <1>5, <1>6, <1>7, <1>8, <1>9, <1>10, <1>11, <1>12

\* A page that hears of the end, or crashes on a card, leaves.
LEMMA HearersLeave ==
  ASSUME TypeOK, One, Leaving, kind # "overlay", NEW s \in Sockets, Deliver(s) PROVE Leaving'
<1> USE DEF serverVars, netVars, clientVars, pageVars, apiVars, countVars
<1>0. /\ Silent /\ kind \in {"play", "dashboard"} /\ kind' = kind /\ UNCHANGED <<joined, srv>>
      /\ Head(down[s]) \in {"ended", "stats", "card"}
  BY KindsOfPage DEF Leaving, TypeOK, Deliver
<1>1. ASSUME UNCHANGED <<up, cli, link, queue, holding>>,
             view' = view \/ (kind = "play" /\ view' = "ended")
      PROVE  Leaving'
  <2>1. Silent' /\ \A r : Left(r) => Left(r)'
    BY <1>0, <1>1, LeftKept DEF Silent, Speaks
  <2>2. \A r \in Rooms \ Wanted(view, holding)' : r \notin Wanted(view, holding)
    BY <1>0, <1>1 DEF Wanted
  <2> QED BY <1>0, <1>1, <2>1, <2>2 DEF Leaving
<1>2. ASSUME LeaveRooms, holding' => FALSE PROVE Leaving'
  BY <1>0, <1>2, LeaveKeeps DEF Leaving
<1>3. CASE HandleEnded
  <2>1. CASE kind = "play"
    BY <1>1, <1>3, <2>1 DEF HandleEnded
  <2>2. CASE kind = "dashboard"
    BY <1>2, <1>3, <2>2 DEF HandleEnded, Leaving
  <2> QED BY <1>0, <2>1, <2>2
<1>4. CASE HandleStats \/ Ignored
  BY <1>1, <1>4 DEF HandleStats, Ignored
<1>5. CASE HandleCard
  BY <1>1, <1>2, <1>5 DEF HandleCard
<1> QED BY <1>0, <1>3, <1>4, <1>5 DEF Deliver

\* The server takes messages in turn; faults and closes silence a socket.
LEMMA SocketsLeave ==
  ASSUME TypeOK, One, Leaving, kind # "overlay", UNCHANGED <<view, holding, kind>>,
         \/ Server \/ SlowTick \/ Restart \/ EndSave \/ EndTell
         \/ \E m \in {"stats", "card"} : News(m)
         \/ \E s \in Sockets : OnOpen(s) \/ OnClose(s) \/ NoticeCut(s) \/ Cut(s) \/ Refused(s)
         \/ UNCHANGED vars
  PROVE  Leaving'
<1> USE DEF serverVars, netVars, clientVars, pageVars, apiVars, countVars
<1>0. Silent
  BY DEF Leaving
<1>1. ASSUME Silent', \A r \in Rooms : Left(r) => Left(r)' PROVE Leaving'
  BY <1>1 DEF Leaving, Wanted
<1>2. ASSUME Silent', UNCHANGED <<queue, joined>>,
             \A s \in Sockets : Speaks(s)' => Speaks(s) /\ up'[s] = up[s]
      PROVE  Leaving'
  BY <1>1, <1>2, LeftKept
<1>3. ASSUME NEW s \in Sockets, Accept(s) PROVE Leaving'
  <2>1. /\ cli[s] = "connecting" /\ joined' = [joined EXCEPT ![s] = {}]
        /\ srv' = [srv EXCEPT ![s] = "open"] /\ UNCHANGED <<cli, link, up, queue>>
    BY <1>3 DEF Accept
  <2>2. Silent'
    BY <1>0, <2>1 DEF Silent, TypeOK
  <2>3. \A r : Left(r) => Left(r)'
    BY <2>1 DEF Left, Undone, Deleted, Speaks, TypeOK
  <2> QED BY <1>1, <2>2, <2>3
<1>4. ASSUME NEW s \in Sockets, HandleMessage(s) PROVE Leaving'
  <2> DEFINE m == Head(up[s])
  <2>1. /\ up[s] \in Seq(Asks) /\ up[s] # <<>> /\ srv[s] # "none" /\ m \in Asks
        /\ up' = [up EXCEPT ![s] = Tail(up[s])] /\ UNCHANGED <<cli, link, srv, queue>>
        /\ \A x \in Sockets : x # s => up'[x] = up[x] /\ joined'[x] = joined[x]
    BY <1>4 DEF HandleMessage, TypeOK
  <2>2. /\ m.op = "add" => joined'[s] = joined[s] \cup {m.room}
        /\ m.op # "add" => joined'[s] = joined[s] \ {m.room}
    BY <1>4 DEF HandleMessage, TypeOK
  <2>3. m = Ask(m.op, m.room) /\ m.op \in {"add", "delete"}
    BY <2>1 DEF Asks, Ask
  <2>4. Silent'
    BY <1>0, <2>1 DEF Silent, TypeOK
  <2>5. ASSUME NEW r \in Rooms, Left(r) PROVE Left(r)'
    <3>1. CASE ~Speaks(s)
      BY <2>1, <2>5, <3>1 DEF Left, Undone, Deleted, Speaks
    <3>2. CASE Speaks(s)
      <4>1. Undone(up[s], r) /\ (r \in joined[s] => Deleted(up[s], r))
        BY <2>5, <3>2 DEF Left
      <4>2. up'[s] = Tail(up[s])
        BY <2>1 DEF TypeOK
      <4>3. /\ Undone(Tail(up[s]), r)
            /\ m = Ask("add", r) => Deleted(Tail(up[s]), r)
            /\ Deleted(up[s], r) /\ m # Ask("delete", r) => Deleted(Tail(up[s]), r)
        BY <2>1, <4>1, UndoneTail
      <4>4. r \in joined'[s] => Deleted(Tail(up[s]), r)
        <5>1. CASE m.room = r
          BY <2>2, <2>3, <4>3, <5>1
        <5>2. CASE m.room # r
          <6>1. m # Ask("delete", r) /\ (r \in joined'[s] <=> r \in joined[s])
            BY <2>2, <5>2 DEF Ask
          <6> QED BY <4>1, <4>3, <6>1
        <5> QED BY <5>1, <5>2
      <4>5. ASSUME NEW x \in Sockets, Speaks(x)'
            PROVE  Undone(up'[x], r) /\ (r \in joined'[x] => Deleted(up'[x], r))
        <5>1. CASE x = s
          BY <4>2, <4>3, <4>4, <5>1
        <5>2. CASE x # s
          <6>1. Speaks(x)
            BY <2>1, <4>5 DEF Speaks
          <6> QED BY <2>1, <2>5, <5>2, <6>1 DEF Left
        <5> QED BY <5>1, <5>2
      <4>6. Undone(queue', r)
        BY <2>1, <2>5 DEF Left
      <4> QED BY <4>5, <4>6 DEF Left, Undone, Deleted, Speaks
    <3> QED BY <3>1, <3>2
  <2> QED BY <1>1, <2>4, <2>5
<1>5. ASSUME NEW s \in Sockets, OnOpen(s) PROVE Leaving'
  <2>1. /\ cli[s] = "connecting" /\ link[s] = "ok" /\ srv[s] = "open"
        /\ up' = Taken(s, queue) /\ queue' = <<>>
        /\ cli' = [cli EXCEPT ![s] = "open"] /\ UNCHANGED <<link, srv, joined>>
    BY <1>5 DEF OnOpen, Opened, Flushed
  <2>2. up[s] = <<>> /\ joined[s] = {}
    BY <1>0, <2>1 DEF Silent
  <2>3. up'[s] = queue /\ \A x \in Sockets : x # s => up'[x] = up[x]
    <3>1. <<>> \o queue = queue
      BY DEF TypeOK
    <3> QED BY <2>1, <2>2, <3>1 DEF Taken, TypeOK
  <2>4. Silent'
    BY <1>0, <2>1, <2>3 DEF Silent, TypeOK
  <2>5. ASSUME NEW r, Left(r) PROVE Left(r)'
    <3>1. ASSUME NEW x \in Sockets, Speaks(x)'
          PROVE  Undone(up'[x], r) /\ (r \in joined'[x] => Deleted(up'[x], r))
      <4>1. CASE x = s
        BY <2>1, <2>2, <2>3, <2>5, <4>1 DEF Left
      <4>2. CASE x # s
        <5>1. Speaks(x)
          BY <2>1, <3>1, <4>2 DEF Speaks, TypeOK
        <5> QED BY <2>1, <2>3, <2>5, <4>2, <5>1 DEF Left
      <4> QED BY <4>1, <4>2
    <3>2. Undone(queue', r)
      BY <2>1 DEF Undone
    <3> QED BY <3>1, <3>2 DEF Left, Undone, Deleted, Speaks
  <2> QED BY <1>1, <2>4, <2>5
<1>6. ASSUME NEW s \in Sockets, Closed(s) PROVE Leaving'
  <2>1. /\ cli' = [cli EXCEPT ![s] = "none"] /\ UNCHANGED <<srv, link, queue, joined>>
        /\ up' = IF srv[s] = "none" THEN [up EXCEPT ![s] = <<>>] ELSE up
    BY <1>6 DEF Closed
  <2>2. Silent'
    BY <1>0, <2>1 DEF Silent, TypeOK
  <2>3. \A x \in Sockets : Speaks(x)' => Speaks(x) /\ up'[x] = up[x]
    BY <2>1 DEF Speaks, TypeOK
  <2> QED BY <1>2, <2>1, <2>2, <2>3
<1>7. ASSUME NEW s \in Sockets, ServerClose(s) PROVE Leaving'
  <2>1. /\ srv' = [srv EXCEPT ![s] = "none"] /\ up' = [up EXCEPT ![s] = <<>>]
        /\ link'[s] # "ok" /\ \A x \in Sockets : x # s => link'[x] = link[x]
        /\ cli' = [cli EXCEPT ![s] = IF cli[s] = "gone" THEN "none" ELSE cli[s]]
        /\ UNCHANGED <<queue, joined>>
    BY <1>7 DEF ServerClose, TypeOK
  <2>2. Silent'
    BY <1>0, <2>1 DEF Silent, TypeOK
  <2>3. \A x \in Sockets : Speaks(x)' => Speaks(x) /\ up'[x] = up[x]
    BY <2>1 DEF Speaks, TypeOK
  <2> QED BY <1>2, <2>1, <2>2, <2>3
<1>8. CASE Tick \/ SlowTick
  <2>1. /\ srv' = [x \in Sockets |-> IF x \in Dead THEN "closing" ELSE srv[x]]
        /\ UNCHANGED <<cli, link, up, queue, joined>>
    BY <1>8 DEF Tick, SlowTick, Heartbeat
  <2>2. Silent'
    BY <1>0, <2>1 DEF Silent, Dead
  <2> QED BY <1>2, <2>1, <2>2 DEF Speaks
<1>9. CASE Restart
  <2>1. /\ up' = [x \in Sockets |-> <<>>] /\ joined' = [x \in Sockets |-> {}]
        /\ queue' = queue
    BY <1>9 DEF Restart
  <2>2. Silent'
    BY <2>1 DEF Silent
  <2>3. \A r : Left(r) => Left(r)'
    BY <2>1 DEF Left, Undone, Speaks
  <2> QED BY <1>1, <2>2, <2>3
<1>10. ASSUME NEW s \in Sockets, Cut(s) \/ Refused(s) PROVE Leaving'
  <2>1. /\ link'[s] # "ok" /\ up' \in {up, [up EXCEPT ![s] = <<>>]}
        /\ \A x \in Sockets : x # s => link'[x] = link[x]
        /\ UNCHANGED <<cli, srv, queue, joined>>
    BY <1>10 DEF Cut, Refused, TypeOK
  <2>2. Silent'
    BY <1>0, <2>1 DEF Silent, TypeOK
  <2>3. \A x \in Sockets : Speaks(x)' => Speaks(x) /\ up'[x] = up[x]
    BY <2>1 DEF Speaks, TypeOK
  <2> QED BY <1>2, <2>1, <2>2, <2>3
<1>11. CASE \/ EndSave \/ EndTell \/ UNCHANGED vars
            \/ (\E s \in Sockets : Pong(s)) \/ (\E m \in {"stats", "card"} : News(m))
  <2>1. UNCHANGED <<cli, link, srv, up, queue, joined>>
    BY <1>11 DEF EndSave, EndTell, Pong, News, vars
  <2>2. Silent'
    BY <1>0, <2>1 DEF Silent
  <2> QED BY <1>2, <2>1, <2>2 DEF Speaks
<1> QED BY <1>3, <1>4, <1>5, <1>6, <1>7, <1>8, <1>9, <1>10, <1>11
        DEF Server, OnClose, NoticeCut

LEMMA LeavingInductive == TypeOK /\ One /\ Leaving /\ [Next]_vars => Leaving'
<1> SUFFICES ASSUME TypeOK, One, Leaving, [Next]_vars, kind # "overlay" PROVE Leaving'
  BY DEF Leaving, Next, Browser, Server, Environment, vars, Visit, Leave, Reload, Read, Loaded,
         Mint, LoadFails, OverlayLoaded, TimerFires, EndSave, EndTell, News, OnOpen, OnClose,
         NoticeCut, Closed, Deliver, Pong, Cut, Refused, Accept, HandleMessage, ServerClose, Tick,
         SlowTick, Restart, serverVars, netVars, clientVars, pageVars, apiVars, countVars
<1> DEFINE Others ==
      \/ Server \/ SlowTick \/ Restart \/ EndSave \/ EndTell
      \/ \E m \in {"stats", "card"} : News(m)
      \/ \E s \in Sockets : OnOpen(s) \/ OnClose(s) \/ NoticeCut(s) \/ Cut(s) \/ Refused(s)
      \/ UNCHANGED vars
<1>1. ~OverlayLoaded
  BY DEF OverlayLoaded
<1>2. ASSUME Others PROVE Leaving'
  <2>1. UNCHANGED <<view, holding, kind>>
    BY <1>2 DEF Server, Tick, SlowTick, Restart, EndSave, EndTell, News, OnOpen, OnClose, NoticeCut,
       Closed, Cut, Refused, Accept, HandleMessage, ServerClose, Pong, vars, pageVars
  <2> QED BY <1>2, <2>1, SocketsLeave
<1>3. \/ Others \/ Visit \/ Leave \/ Reload \/ Read \/ Loaded \/ Mint \/ LoadFails \/ TimerFires
      \/ \E s \in Sockets : Deliver(s)
  BY <1>1 DEF Next, Browser, Environment
<1> HIDE DEF Others
<1> QED BY <1>2, <1>3, PagesLeave, HearersLeave

\* A page that was left is in no room once what it sent has been handled,
\* whatever was queued, redialled, cut or restarted meanwhile.
THEOREM LeftRoomsStayLeft == Spec => []LeftRoomsAreLeft
<1>1. Init => Leaving
  BY DEF Init, InitRest, Leaving, Silent, Left, Undone, Speaks
<1>2. TypeOK /\ Leaving => LeftRoomsAreLeft
  <2> SUFFICES ASSUME TypeOK, Leaving, NEW s \in Sockets, kind # "overlay",
                      Speaks(s), up[s] = <<>>, NEW r \in joined[s], r \notin Wanted(view, holding)
               PROVE  FALSE
    BY DEF LeftRoomsAreLeft, Speaks
  <2>1. r \in Rooms
    BY DEF TypeOK
  <2>2. Deleted(up[s], r)
    BY <2>1 DEF Leaving, Left
  <2> QED BY <2>2 DEF Deleted
<1>3. IInv /\ Leaving /\ [Next]_vars => Leaving'
  BY LeavingInductive DEF IInv
<1>4. IInv => TypeOK
  BY DEF IInv
<1> QED BY <1>1, <1>2, <1>3, <1>4, HubSafe, PTL DEF Spec

\* The rooms of the server are those the pages have asked for, as far as the
\* server has been told (websocket/server.ts:20, lib/websocket.ts:180).
THEOREM RoomsFollow == Spec => []RoomsFollowPages
BY RoomsAlwaysAgree, LeftRoomsStayLeft, PTL DEF RoomsFollowPages
=============================================================================
