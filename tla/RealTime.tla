------------------------------ MODULE RealTime ------------------------------
(***************************************************************************)
(* Real-time messages: the SignalR hub, the two consumers that send through*)
(* it, and the page script that listens.  RealTimeHub is registered as a   *)
(* singleton, so SignalR puts the Context and the Clients of every callback*)
(* into the same object, and the consumers send with what the last one has *)
(* left there.  A page connects once, when its script is loaded.           *)
(***************************************************************************)
EXTENDS Naturals, FiniteSets, Sequences

CONSTANTS
  Pages,        \* loaded pages; each has one connection
  Notices,      \* SendRealTimeMessageToUser and -ToAddress commands
  MaxRestarts,  \* bound: restarts of the SignalR process
  NoPage        \* the hub's Context before its first callback

ASSUME RealTimeAssumption ==
  IsFiniteSet(Pages) /\ NoPage \notin Pages /\ MaxRestarts \in Nat

VARIABLES
  hub,             \* the connection in Context and Clients of the hub object
  connectedUsers,  \* RealTimeHub.ConnectedUsers
  totals,          \* _totalConnections and _totalDisconnections
  server,          \* the server's side of each connection
  link,            \* its transport
  page,            \* the page's side
  wire,            \* messages under way to the page
  shown,           \* messages the page has logged
  notice,          \* each command: queued, consumed, or in the error queue
  restarts,        \* restarts so far
  serial,          \* history: no two callbacks have overlapped in this process
  owed             \* history: messages consumed while the page was ready for them

realTimeVars == <<hub, connectedUsers, totals, server, link, page, wire, shown,
                  notice, restarts, serial, owed>>

RealTimeTypeOK ==
  /\ hub \in Pages \cup {NoPage}
  /\ connectedUsers \subseteq Pages
  /\ totals \in [on : Nat, off : Nat]
  /\ server \in [Pages -> {"none", "open", "entering", "on", "leaving", "off"}]
  /\ link \in [Pages -> {"none", "up", "cut"}]
  /\ page \in [Pages -> {"none", "starting", "connected", "ready", "closed", "failed"}]
  /\ wire \in [Pages -> Seq(Notices)]
  /\ shown \in [Pages -> SUBSET Notices]
  /\ notice \in [Notices -> {"queued", "consumed", "error"}]
  /\ restarts \in 0..MaxRestarts
  /\ serial \in BOOLEAN
  /\ owed \in [Pages -> SUBSET Notices]
  /\ totals.off <= totals.on

RealTimeInit ==
  /\ hub = NoPage /\ connectedUsers = {} /\ totals = [on |-> 0, off |-> 0]
  /\ server = [p \in Pages |-> "none"]
  /\ link = [p \in Pages |-> "none"]
  /\ page = [p \in Pages |-> "none"]
  /\ wire = [p \in Pages |-> <<>>]
  /\ shown = [p \in Pages |-> {}]
  /\ notice = [m \in Notices |-> "queued"]
  /\ restarts = 0 /\ serial = TRUE
  /\ owed = [p \in Pages |-> {}]

-----------------------------------------------------------------------------
(* The page: signalr.js                                                    *)

PageBecomes(p, from, to) == page[p] \in from /\ page' = [page EXCEPT ![p] = to]

\* The script builds its connection and calls start.
Start(p) ==
  /\ PageBecomes(p, {"none"}, "starting")
  /\ UNCHANGED <<hub, connectedUsers, totals, server, link, wire, shown, notice,
                 restarts, serial, owed>>

\* onsignalRCatch: no second attempt.
StartFails(p) ==
  /\ PageBecomes(p, {"starting"}, "failed")
  /\ UNCHANGED <<hub, connectedUsers, totals, server, link, wire, shown, notice,
                 restarts, serial, owed>>

\* The handshake has been answered; start's promise is not yet resolved.
Handshake(p) ==
  /\ PageBecomes(p, {"starting"}, "connected")
  /\ link' = [link EXCEPT ![p] = "up"]
  /\ UNCHANGED <<hub, connectedUsers, totals, server, wire, shown, notice,
                 restarts, serial, owed>>

\* onsignalRConnect registers the handler of 'message'.
OnSignalRConnect(p) ==
  /\ link[p] = "up" /\ PageBecomes(p, {"connected"}, "ready")
  /\ UNCHANGED <<hub, connectedUsers, totals, server, link, wire, shown, notice,
                 restarts, serial, owed>>

\* A message that comes before the handler is dropped by the library.
Receive(p) ==
  /\ link[p] = "up" /\ wire[p] # <<>>
  /\ wire' = [wire EXCEPT ![p] = Tail(@)]
  /\ shown' = IF page[p] = "ready" THEN [shown EXCEPT ![p] = @ \cup {Head(wire[p])}]
              ELSE shown
  /\ UNCHANGED <<hub, connectedUsers, totals, server, link, page, notice, restarts,
                 serial, owed>>

\* onclose only logs: the page stays closed.
OnClose(p) ==
  /\ link[p] = "cut" /\ PageBecomes(p, {"connected", "ready"}, "closed")
  /\ UNCHANGED <<hub, connectedUsers, totals, server, link, wire, shown, notice,
                 restarts, serial, owed>>

\* The network, or a user who leaves the page.
Cut(p) ==
  /\ link[p] = "up"
  /\ link' = [link EXCEPT ![p] = "cut"]
  /\ wire' = [wire EXCEPT ![p] = <<>>]
  /\ UNCHANGED <<hub, connectedUsers, totals, server, page, shown, notice, restarts,
                 serial, owed>>

-----------------------------------------------------------------------------
(* The hub                                                                 *)

\* Connections a message can be sent to.
Open == {p \in Pages : server[p] \in {"open", "entering", "on", "leaving"}}

\* The server counts the connection as its own, before the hub hears of it.
AcceptPage(p) ==
  /\ link[p] # "none" /\ server[p] = "none"
  /\ server' = [server EXCEPT ![p] = "open"]
  /\ UNCHANGED <<hub, connectedUsers, totals, link, page, wire, shown, notice,
                 restarts, serial, owed>>

\* SignalR sets Context and Clients of the hub and then makes the callback.
InitializeHub(p, step) ==
  /\ hub' = p
  /\ serial' = (serial /\ \A q \in Pages : server[q] \notin {"entering", "leaving"})
  /\ server' = [server EXCEPT ![p] = step]
  /\ UNCHANGED <<connectedUsers, totals, link, page, wire, shown, notice, restarts, owed>>

Connecting(p) == server[p] = "open" /\ InitializeHub(p, "entering")

\* The transport is gone: the disconnect callback follows the connect callback.
Disconnecting(p) ==
  /\ server[p] = "on" /\ link[p] = "cut" /\ InitializeHub(p, "leaving")

\* OnConnectedAsync reads the Context, which another callback may have changed.
OnConnected(p) ==
  /\ server[p] = "entering"
  /\ server' = [server EXCEPT ![p] = "on"]
  /\ connectedUsers' = connectedUsers \cup {hub}
  /\ totals' = [totals EXCEPT !.on = @ + 1]
  /\ UNCHANGED <<hub, link, page, wire, shown, notice, restarts, serial, owed>>

OnDisconnectedKeeping(p) ==
  /\ server[p] = "leaving"
  /\ server' = [server EXCEPT ![p] = "off"]
  /\ totals' = [totals EXCEPT !.off = @ + 1]
  /\ UNCHANGED <<hub, connectedUsers, link, page, wire, shown, notice, restarts, serial, owed>>

OnDisconnected(p) ==
  /\ server[p] = "leaving"
  /\ server' = [server EXCEPT ![p] = "off"]
  /\ connectedUsers' = connectedUsers \ {hub}
  /\ totals' = [totals EXCEPT !.off = @ + 1]
  /\ UNCHANGED <<hub, link, page, wire, shown, notice, restarts, serial, owed>>

\* The static fields and the hub object go with the process.
RestartHub ==
  /\ restarts < MaxRestarts /\ restarts' = restarts + 1
  /\ hub' = NoPage /\ connectedUsers' = {} /\ totals' = [on |-> 0, off |-> 0]
  /\ server' = [p \in Pages |-> IF link[p] = "none" THEN "none" ELSE "off"]
  /\ link' = [p \in Pages |-> IF link[p] = "none" THEN "none" ELSE "cut"]
  /\ wire' = [p \in Pages |-> <<>>]
  /\ serial' = TRUE
  /\ UNCHANGED <<page, shown, notice, owed>>

-----------------------------------------------------------------------------
(* The consumers                                                           *)

HasClientsOfItsOwn == FALSE

\* Hub.Clients is null until the first callback.
HasClients == hub # NoPage

SendAsync(m, to) ==
  /\ wire' = [p \in Pages |-> IF p \in to \cap Open /\ link[p] = "up"
                              THEN Append(wire[p], m) ELSE wire[p]]
  /\ notice' = [notice EXCEPT ![m] = "consumed"]

\* What a page has a right to: it listens, and the hub has heard of it.
Owes(m, to) ==
  owed' = [p \in Pages |-> IF /\ p \in to /\ page[p] = "ready" /\ link[p] = "up"
                              /\ server[p] \in {"entering", "on"}
                           THEN owed[p] \cup {m} ELSE owed[p]]

\* SendMessageToUser, to all connections of one user: without Clients it returns.
SendMessageToUser(m, to) ==
  /\ notice[m] = "queued"
  /\ IF HasClients THEN SendAsync(m, to)
     ELSE notice' = [notice EXCEPT ![m] = "consumed"] /\ UNCHANGED wire
  /\ Owes(m, to)
  /\ UNCHANGED <<hub, connectedUsers, totals, server, link, page, shown, restarts, serial>>

\* SendMessage, to connection ids: without Clients it awaits null and throws;
\* no retry is configured, and the message goes to the error queue.
SendMessage(m, to) ==
  /\ notice[m] = "queued"
  /\ IF HasClients THEN SendAsync(m, to)
     ELSE notice' = [notice EXCEPT ![m] = "error"] /\ UNCHANGED wire
  /\ Owes(m, to)
  /\ UNCHANGED <<hub, connectedUsers, totals, server, link, page, shown, restarts, serial>>

-----------------------------------------------------------------------------

RealTimeNext ==
  \/ \E p \in Pages :
       \/ Start(p) \/ StartFails(p) \/ Handshake(p) \/ OnSignalRConnect(p)
       \/ Receive(p) \/ OnClose(p) \/ Cut(p)
       \/ AcceptPage(p) \/ Connecting(p) \/ OnConnected(p)
       \/ Disconnecting(p) \/ OnDisconnected(p)
  \/ \E m \in Notices, to \in SUBSET Pages :
       to # {} /\ (SendMessageToUser(m, to) \/ SendMessage(m, to))
  \/ RestartHub

RealTimeSpec == RealTimeInit /\ [][RealTimeNext]_realTimeVars

-----------------------------------------------------------------------------
(* Properties                                                              *)

\* The users the hub logs as active are the connections it has been told of and
\* not lost, and agree with its two totals, unless two callbacks of the one hub
\* object have overlapped: then a connection is entered or removed as another.
ActiveUsersExact ==
  (serial /\ \A p \in Pages : server[p] \notin {"entering", "leaving"})
    => /\ connectedUsers = {p \in Pages : server[p] = "on"}
       /\ Cardinality(connectedUsers) = totals.on - totals.off

\* A page that listens and has been announced to the hub gets every message
\* consumed for it, whichever callback last wrote the hub's Clients, unless its
\* connection is cut.
ReadyPageGetsIt ==
  \A p \in Pages : \A m \in owed[p] :
    m \in shown[p] \/ (\E i \in DOMAIN wire[p] : wire[p][i] = m) \/ link[p] = "cut"
=============================================================================
