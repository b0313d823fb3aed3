------------------------------- MODULE Gateway -------------------------------
(***************************************************************************)
(* The realtime gateway process: one consumer task that applies fleet      *)
(* messages to the store and broadcasts each change, one endpoint task per *)
(* WebSocket, and the task that prunes the zone trackers, all on one       *)
(* asyncio loop (gateway/server.py, with gateway/state.py through          *)
(* HouseState and the handler of gateway/consumer.py).                     *)
(*                                                                         *)
(* A step is what one task does between two awaits.  The await of a        *)
(* send_text is where tasks interleave: a message is on its way as soon as *)
(* send_text is called, in order per socket, and the task goes on when the *)
(* transport has taken it.  A peer that reads slowly is a step that comes  *)
(* late; one that never reads is PeerGone, once the server's ping times    *)
(* out.  messages_received and the snapshots' times are bounded by         *)
(* MaxReceived and MaxStamp in the guards of the Receive actions.          *)
(***************************************************************************)
EXTENDS HouseState, FiniteSets

CONSTANTS
    Shorts,     \* short aliases: the keys of the store and of the registry
    ShortOf,    \* short_alias_from_gnode
    Clients,    \* WebSocket slots; a slot is used again once its last use is over
    Nobody,
    HouseOf     \* the {house_alias} in the path of each client

ASSUME GatewayAssumption ==
    /\ ShortOf \in [Aliases -> Shorts]
    /\ HouseOf \in [Clients -> Shorts]
    /\ Nobody \notin Clients

VARIABLES
    store,      \* HouseStateStore._by_short_alias
    clients,    \* ConnectionManager._clients; no entry is the empty set
    cast,       \* the broadcast the consumer task is awaiting, NoCast if none
    pc,         \* per endpoint task: what it awaits
    open,       \* the sockets whose peer is still there
    view        \* what has been written to each socket whose peer is there

vars == <<store, clients, cast, pc, open, view>>

-----------------------------------------------------------------------------
(* The broadcast: the clients of the list copied when it began that are    *)
(* not finished, the one being sent to, the message it gets next, and the  *)
(* house as it was when the messages were encoded.                         *)

NoCast == [to |-> {}, cur |-> Nobody, next |-> "status", house |-> EmptyHouse]

NewCast(to, h) ==
    IF to = {} THEN NoCast
               ELSE [to |-> to, cur |-> Nobody, next |-> "status", house |-> h]

\* The loop over the clients leaves c: its list is sent, or a send to it failed.
CastWithout(c) == NewCast(cast.to \ {c}, cast.house)

\* After the message m to c: the next of the list to c, or the next client.
CastAfter(c, m) ==
    IF Following(m, cast.house) = "end"
    THEN CastWithout(c)
    ELSE [cast EXCEPT !.cur = c, !.next = Following(m, cast.house)]

Casts ==
    [to : SUBSET Clients, cur : Clients \cup {Nobody}, next : Messages, house : House]

\* pc: "off", no endpoint task; "status" or "snapshot", the send of send_cached it
\* awaits; "idle", receive_text (or the last send of send_cached).
TypeOK ==
    /\ store \in [Shorts -> House]
    /\ clients \in [Shorts -> SUBSET Clients]
    /\ cast \in Casts
    /\ pc \in [Clients -> {"off", "status", "snapshot", "idle"}]
    /\ open \subseteq Clients
    /\ view \in [Clients -> View]

\* What a process starts with: each house's row of the layouts projection, if it
\* has one the gateway reads (FleetStream models the reading of the rows).
SeededHouses(s) ==
    {EmptyHouse} \cup
    UNION {{SeedLayout([EmptyHouse EXCEPT !.gnode = a], a, l) : l \in Layouts} :
              a \in {b \in Aliases : ShortOf[b] = s}}

Seeded(st) == st \in [Shorts -> House] /\ \A s \in Shorts : st[s] \in SeededHouses(s)

Init ==
    /\ store \in {st \in [Shorts -> UNION {SeededHouses(s) : s \in Shorts}] : Seeded(st)}
    /\ clients = [s \in Shorts |-> {}]
    /\ cast = NoCast
    /\ pc = [c \in Clients |-> "off"]
    /\ open = {}
    /\ view = [c \in Clients |-> BlankView]

-----------------------------------------------------------------------------
(* The consumer task. *)

\* The next message is taken when the handler of the last has returned, so when its
\* broadcast is over.
HandlerReturned == cast = NoCast

\* The store's update, on_house_update and broadcast up to the first send: the
\* messages are encoded and the list of clients copied with no await in between.
\* A message whose sender is no scada, whose type is not handled or whose payload
\* does not decode changes nothing, nor does a snapshot that is not newer.
Apply(s, h) ==
    /\ store' = [store EXCEPT ![s] = h]
    /\ cast' = NewCast(clients[s], h)
    /\ UNCHANGED <<clients, pc, open, view>>

ReceiveLayout(a) ==
    LET h == store[ShortOf[a]] IN
    /\ HandlerReturned
    /\ h.received < MaxReceived
    /\ \E l \in Layouts : Apply(ShortOf[a], UpdateLayout(h, a, l))

ReceiveSnapshot(a) ==
    LET h == store[ShortOf[a]] IN
    /\ HandlerReturned
    /\ h.received < MaxReceived
    /\ \E t \in 1..MaxStamp :
          /\ Newer(h, t)
          /\ \E z \in SeriesAfter(h, t) : Apply(ShortOf[a], UpdateSnapshot(h, a, t, z))

ReceiveReport(a) ==
    LET h == store[ShortOf[a]] IN
    /\ HandlerReturned
    /\ h.received < MaxReceived
    /\ \E t \in 1..MaxStamp : Apply(ShortOf[a], UpdateReport(h, a, t))

\* The next message to the client being served, or the first to another client.
BroadcastSend(c) ==
    /\ c \in cast.to \cap open
    /\ cast.cur \in {Nobody, c}
    /\ view' = [view EXCEPT ![c] = Shown(@, cast.next, cast.house)]
    /\ cast' = CastAfter(c, cast.next)
    /\ UNCHANGED <<store, clients, pc, open>>

\* A mutation: the try around the loop over the clients, not inside it.
FailEndsBroadcast(c) ==
    /\ c \in cast.to \ open
    /\ cast.cur \in {Nobody, c}
    /\ cast' = NoCast
    /\ UNCHANGED <<store, clients, pc, open, view>>

\* A mutation: a failed send is tried again.
FailRetries(c) ==
    /\ c \in cast.to \ open
    /\ cast.cur \in {Nobody, c}
    /\ UNCHANGED vars

\* A send to a socket that is gone raises: the rest of the list is skipped for this
\* client, and only for this one.  It stays registered.
BroadcastFail(c) ==
    /\ c \in cast.to \ open
    /\ cast.cur \in {Nobody, c}
    /\ cast' = CastWithout(c)
    /\ UNCHANGED <<store, clients, pc, open, view>>

-----------------------------------------------------------------------------
(* The endpoint tasks. *)

\* send_cached up to its first await: the status of the house, or the status of no
\* house and nothing more.
WriteStatus(c) ==
    LET h == store[HouseOf[c]] IN
    /\ view' = [view EXCEPT ![c] = Shown(@, "status", h)]
    /\ pc' = [pc EXCEPT ![c] = IF h.gnode = NoAlias THEN "idle" ELSE "status"]

\* accept, then manager.add and send_cached.  A new socket is in no list copied
\* before, so a slot is not taken again while the old one is still in one.
Connect(c) ==
    /\ pc[c] = "off"
    /\ c \notin cast.to
    /\ clients' = [clients EXCEPT ![HouseOf[c]] = @ \cup {c}]
    /\ WriteStatus(c)
    /\ open' = open \cup {c}
    /\ UNCHANGED <<store, cast>>

\* send_cached goes on: the house is read again after each await, so the message is
\* the house's of now.  After the last one the endpoint waits for a request.
CachedNext(c) ==
    LET h == store[HouseOf[c]]
        m == Following(pc[c], h)
    IN
    /\ c \in open
    /\ pc[c] \in {"status", "snapshot"}
    /\ pc' = [pc EXCEPT ![c] = IF m = "snapshot" THEN m ELSE "idle"]
    /\ view' = IF m = "end" THEN view ELSE [view EXCEPT ![c] = Shown(@, m, h)]
    /\ UNCHANGED <<store, clients, cast, open>>

\* get_status and request_snapshot are answered alike.  Text that is not JSON, and
\* JSON objects of another type, are read and change nothing.
Request(c) ==
    /\ c \in open
    /\ pc[c] = "idle"
    /\ WriteStatus(c)
    /\ UNCHANGED <<store, clients, cast, open>>

\* A socket that is closed, or whose peer is gone, shows nobody anything.
Unseen(c) ==
    /\ open' = open \ {c}
    /\ view' = [view EXCEPT ![c] = BlankView]

\* A mutation: no finally around the receive loop.
EndWithoutRemove(c) ==
    /\ pc' = [pc EXCEPT ![c] = "off"]
    /\ Unseen(c)
    /\ UNCHANGED <<store, clients, cast>>

\* The finally of the endpoint; the socket is closed with it.
EndEndpoint(c) ==
    /\ pc' = [pc EXCEPT ![c] = "off"]
    /\ clients' = [clients EXCEPT ![HouseOf[c]] = @ \ {c}]
    /\ Unseen(c)
    /\ UNCHANGED <<store, cast>>

\* The send or the receive that the endpoint awaits raises WebSocketDisconnect.
EndpointClosed(c) == pc[c] # "off" /\ c \notin open /\ EndEndpoint(c)

\* JSON that is not an object has no get: the AttributeError leaves the loop.
EndpointFails(c) == pc[c] = "idle" /\ c \in open /\ EndEndpoint(c)

\* The browser closes, the network is lost, or the server's ping is not answered.
PeerGone(c) ==
    /\ c \in open
    /\ Unseen(c)
    /\ UNCHANGED <<store, clients, cast, pc>>

-----------------------------------------------------------------------------
(* The prune task, and the process. *)

\* prune_all_zone_trackers: the points of any of the houses may all have aged out.
\* Nobody is told.
Prune ==
    /\ \E stale \in SUBSET Shorts :
          /\ stale # {}
          /\ \A s \in stale : store[s].series # 0
          /\ store' = [s \in Shorts |->
                          IF s \in stale THEN [store[s] EXCEPT !.series = 0] ELSE store[s]]
    /\ UNCHANGED <<clients, cast, pc, open, view>>

\* The process ends, by a crash or a deploy, and is started again with a store
\* filled from the layouts projection as it is then.
Restart ==
    /\ store' \in {st \in [Shorts -> UNION {SeededHouses(s) : s \in Shorts}] : Seeded(st)}
    /\ clients' = [s \in Shorts |-> {}]
    /\ cast' = NoCast
    /\ pc' = [c \in Clients |-> "off"]
    /\ open' = {}
    /\ view' = [c \in Clients |-> BlankView]

-----------------------------------------------------------------------------
Receive == \E a \in Aliases : ReceiveLayout(a) \/ ReceiveSnapshot(a) \/ ReceiveReport(a)

Broadcast == \E c \in Clients : BroadcastSend(c) \/ BroadcastFail(c)

Endpoint(c) == Connect(c) \/ CachedNext(c) \/ Request(c) \/ EndpointClosed(c) \/ EndpointFails(c)

Next ==
    \/ Receive
    \/ Broadcast
    \/ \E c \in Clients : Endpoint(c) \/ PeerGone(c)
    \/ Prune
    \/ Restart

\* The loop runs every task that can go on, and a send ends: it is taken by the
\* transport or the ping timeout closes the socket.  Nothing obliges the fleet to
\* send, a browser to connect or ask, or a process to die.
Fairness ==
    /\ WF_vars(Broadcast)
    /\ \A c \in Clients : WF_vars(CachedNext(c)) /\ WF_vars(EndpointClosed(c))

SafetySpec == Init /\ [][Next]_vars

Spec == SafetySpec /\ Fairness

-----------------------------------------------------------------------------
(* Properties. *)

\* The registry that broadcasts and the health counts go by holds exactly the
\* sockets whose endpoint is running: none is forgotten while its endpoint lives,
\* and none is left behind by an endpoint that ended in any way (server.py
\* websocket_endpoint's try/finally around manager.add and manager.remove).
RegistryExact ==
    \A s \in Shorts : clients[s] = {c \in Clients : pc[c] # "off" /\ HouseOf[c] = s}

\* c is owed nothing: send_cached is over and no broadcast has c left in its list.
Settled(c) == c \in open /\ pc[c] = "idle" /\ c \notin cast.to

\* A settled client has been shown the house as the store has it, although the
\* messages came to it from two tasks that interleave at every send.  The one
\* exception is a series pruned since: the client keeps the last it was sent.
CaughtUp ==
    \A c \in Clients : Settled(c) =>
        LET h == store[HouseOf[c]] IN
        /\ view[c].gnode = h.gnode
        /\ view[c].layout = h.layout
        /\ view[c].received = h.received
        /\ view[c].snapshot = h.snapshot
        /\ view[c].series = h.series \/ h.series = 0

\* A client is told of no house but the one it asked for, whichever alias of that
\* house the message came from (server.py on_house_update broadcasts under the
\* state's short alias, the key its endpoint registered under).
OnlyItsHouse ==
    \A c \in Clients :
        view[c].gnode # NoAlias => ShortOf[view[c].gnode] = HouseOf[c]

\* On one connection the snapshots shown, and the count of messages, never go back,
\* whichever of the two tasks sends them.
ViewMonotone ==
    [][\A c \in Clients :
          c \in open /\ c \in open' =>
              /\ view'[c].snapshot >= view[c].snapshot
              /\ view'[c].received >= view[c].received]_vars

\* The consumer always gets back to its queue: no client, dead or alive, holds a
\* broadcast for good (server.py broadcast's except around each client).
ConsumerReturns == cast # NoCast ~> cast = NoCast

\* A socket whose peer is gone is forgotten in the end, unless its slot is taken
\* again or the process is restarted, which forgets them all.
DeadForgotten ==
    \A c \in Clients :
        (pc[c] # "off" /\ c \notin open) ~> (c \notin clients[HouseOf[c]] \/ c \in open)

\* The gateway implements the feed: a viewer is shown only the newest snapshot of
\* its house, at the moment it is the newest, and is shown it if it stays.
Feed == INSTANCE RealtimeFeed WITH
    latest <- [s \in Shorts |-> store[s].snapshot],
    joined <- open,
    seen   <- [c \in Clients |-> view[c].snapshot]

FeedSpec == Feed!Spec

-----------------------------------------------------------------------------
(* The inductive invariant behind RegistryExact, CaughtUp and ViewMonotone. *)

\* Same house, but for a series pruned from h.
PrunedFrom(h, g) ==
    /\ h.gnode = g.gnode
    /\ h.layout = g.layout
    /\ h.snapshot = g.snapshot
    /\ h.report = g.report
    /\ h.received = g.received
    /\ h.series \in {g.series, 0}

OpenRuns == \A c \in Clients : IF c \in open THEN pc[c] # "off" ELSE view[c] = BlankView

\* The client being served is in the list and past its status; if nobody is served
\* the next message is a status; with no list there is no broadcast.
CastInOrder ==
    /\ cast.cur # Nobody => cast.cur \in cast.to /\ cast.next # "status"
    /\ cast.cur = Nobody => cast.next = "status"
    /\ cast.to = {} => cast = NoCast
    /\ cast.next = "snapshot" => cast.house.snapshot # 0
    /\ cast.next = "series" => cast.house.series # 0

\* What is being sent is the house as the store has it: the consumer applies nothing
\* while it sends.
CastCurrent == \A c \in cast.to : PrunedFrom(store[HouseOf[c]], cast.house)

\* The status is written the moment a client connects, and after each change first.
StatusShown ==
    \A c \in open : c \notin cast.to \/ cast.cur = c =>
        LET h == store[HouseOf[c]] IN
        /\ view[c].gnode = h.gnode
        /\ view[c].layout = h.layout
        /\ view[c].received = h.received

NotAhead ==
    \A c \in open :
        /\ view[c].snapshot <= store[HouseOf[c]].snapshot
        /\ view[c].received <= store[HouseOf[c]].received

SnapshotShown ==
    \A c \in open :
        \/ pc[c] \in {"snapshot", "idle"} /\ c \notin cast.to
        \/ cast.cur = c /\ cast.next = "series"
        => view[c].snapshot = store[HouseOf[c]].snapshot

SeriesShown ==
    \A c \in open :
        pc[c] = "idle" /\ c \notin cast.to =>
            view[c].series = store[HouseOf[c]].series \/ store[HouseOf[c]].series = 0

\* A house is empty until something reached it.
NamedFirst ==
    \A s \in Shorts : store[s].gnode = NoAlias => store[s] = EmptyHouse

\* What every state of the gateway satisfies and every step preserves: between a
\* change and the end of its broadcast, each client is either still in the list or
\* shown the change (server.py broadcast and send_cached).
Inductive ==
    /\ TypeOK
    /\ RegistryExact
    /\ OpenRuns
    /\ CastInOrder
    /\ CastCurrent
    /\ StatusShown
    /\ NotAhead
    /\ SnapshotShown
    /\ SeriesShown
    /\ NamedFirst
=============================================================================
