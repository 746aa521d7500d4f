-------------------------------- MODULE WSHub --------------------------------
(***************************************************************************)
(* The WebSocket hub of the sync service                                   *)
(* (sync/internal/websocket/hub.go and handler.go), for one user.          *)
(*                                                                         *)
(* A connection is a device and a number: a device may connect again       *)
(* before its old connection is gone.  Every connection has a read pump    *)
(* and a write pump; the hub's own goroutine takes requests from three     *)
(* bounded channels.  Closing or sending to a closed channel panics, and   *)
(* a panic of any goroutine ends the process.  WebSocket connections and   *)
(* Redis are external.                                                     *)
(***************************************************************************)
EXTENDS Naturals, Sequences, FiniteSets, SequencesExt

CONSTANTS
  HubDevices,    \* devices of the user
  NoClient,      \* no connection
  Events,        \* events broadcast to the user
  MaxConnects,   \* bound: connections of a device
  RequestCap,    \* capacity of register and unregister (100)
  SendCap        \* capacity of a client's send channel (256)

ASSUME HubAssumption ==
  /\ MaxConnects \in Nat /\ RequestCap \in Nat \ {0} /\ SendCap \in Nat \ {0}

Clients == HubDevices \X (1..MaxConnects)
ASSUME NoClientAssumption == NoClient \notin Clients

VARIABLES
  hub,          \* the goroutine of Run
  listed,       \* h.connections: [HubDevices -> Clients \cup {NoClient}]
  register, unregister, broadcast,   \* the hub's channels
  spare,        \* goroutines that wait to send to h.unregister, by client
  conn,         \* [Clients -> state of the connection]
  send,         \* [Clients -> the send channel: open, and messages in it]
  reader, writer,   \* [Clients -> where the pump is]
  redis,        \* messages published to the user's channel
  subscriber,   \* the message the Redis subscriber delivers, and to whom
  fresh,        \* events that have not been broadcast
  got,          \* history: how often a client was handed an event
  overtaken     \* history: clients whose unregistration came first

chans == <<register, unregister, broadcast>>
pumps == <<reader, writer>>
history == <<got, overtaken>>
hvars == <<hub, listed, chans, spare, conn, send, pumps, redis, subscriber, fresh, history>>

NoMessage == [event |-> NoClient, to |-> {}]

HubTypeOK ==
  /\ hub \in {"run", "stuck", "stopped", "panicked"}
  /\ \A d \in HubDevices : listed[d] \in {c \in Clients : c[1] = d} \cup {NoClient}
  /\ \A q \in {register, unregister} : q \in Seq(Clients) /\ Len(q) <= RequestCap
  /\ broadcast \in Seq(Events)
  /\ spare \in [Clients -> Nat]
  /\ conn \in [Clients -> {"absent", "upgrade", "open", "closed"}]
  /\ send \in [Clients -> [open : BOOLEAN, queued : 0..SendCap]]
  /\ reader \in [Clients -> {"none", "read", "handle", "done"}]
  /\ writer \in [Clients -> {"none", "write", "done"}]
  /\ redis \in Seq(Events)
  /\ subscriber \in [event : Events \cup {NoClient}, to : SUBSET Clients]
  /\ fresh \in SUBSET Events
  /\ got \in [Clients -> [Events -> Nat]]
  /\ overtaken \in SUBSET Clients

HubInit ==
  /\ hub = "run"
  /\ listed = [d \in HubDevices |-> NoClient]
  /\ register = <<>> /\ unregister = <<>> /\ broadcast = <<>>
  /\ spare = [c \in Clients |-> 0]
  /\ conn = [c \in Clients |-> "absent"]
  /\ send = [c \in Clients |-> [open |-> TRUE, queued |-> 0]]
  /\ reader = [c \in Clients |-> "none"] /\ writer = [c \in Clients |-> "none"]
  /\ redis = <<>> /\ subscriber = NoMessage
  /\ fresh = Events
  /\ got = [c \in Clients |-> [e \in Events |-> 0]]
  /\ overtaken = {}

Alive == hub # "panicked"
Listed == {listed[d] : d \in HubDevices} \ {NoClient}
Close(c) ==
  /\ send' = [send EXCEPT ![c].open = FALSE]
  /\ hub' = IF send[c].open THEN hub ELSE "panicked"
Hangup(c) == conn' = [conn EXCEPT ![c] = "closed"]

-----------------------------------------------------------------------------
(* ServeWS: the old connection of the device is offered for unregistration *)
(* if there is room, the request is upgraded, and the client is registered *)
(* before its pumps start (ServeHTTP).                                     *)
ServeWS(c) ==
  /\ Alive /\ conn[c] = "absent"
  /\ \A n \in 1..(c[2] - 1) : conn[<<c[1], n>>] # "absent"
  /\ conn' = [conn EXCEPT ![c] = "upgrade"]
  /\ LET old == listed[c[1]] IN
     unregister' = IF old # NoClient /\ Len(unregister) < RequestCap
                   THEN Append(unregister, old) ELSE unregister
  /\ UNCHANGED <<hub, listed, register, broadcast, spare, send, pumps, redis, subscriber, fresh, history>>
UpgradeFails(c) ==
  /\ Alive /\ conn[c] = "upgrade"
  /\ Hangup(c)
  /\ UNCHANGED <<hub, listed, chans, spare, send, pumps, redis, subscriber, fresh, history>>
RegisterClient(c) ==
  /\ Alive /\ conn[c] = "upgrade" /\ Len(register) < RequestCap
  /\ register' = Append(register, c)
  /\ conn' = [conn EXCEPT ![c] = "open"]
  /\ reader' = [reader EXCEPT ![c] = "read"] /\ writer' = [writer EXCEPT ![c] = "write"]
  /\ UNCHANGED <<hub, listed, unregister, broadcast, spare, send, redis, subscriber, fresh, history>>

(* The peer goes away. *)
PeerCloses(c) ==
  /\ Alive /\ conn[c] = "open"
  /\ Hangup(c)
  /\ UNCHANGED <<hub, listed, chans, spare, send, pumps, redis, subscriber, fresh, history>>

-----------------------------------------------------------------------------
(* registerClient: the client that is listed for the device is closed and  *)
(* replaced.                                                               *)
RegisterStep ==
  /\ hub = "run" /\ register # <<>>
  /\ register' = Tail(register)
  /\ LET c == Head(register)  old == listed[c[1]] IN
     /\ listed' = [listed EXCEPT ![c[1]] = c]
     /\ IF old = NoClient THEN UNCHANGED <<hub, send, conn>>
        ELSE Close(old) /\ Hangup(old)
  /\ UNCHANGED <<unregister, broadcast, spare, pumps, redis, subscriber, fresh, history>>

(* unregisterClient: whichever client is listed for the device is removed, *)
(* and the channel of the one that asks is closed.                         *)
UnregisterStep ==
  /\ hub = "run" /\ unregister # <<>>
  /\ unregister' = Tail(unregister)
  /\ LET c == Head(unregister) IN
     /\ IF listed[c[1]] = NoClient THEN UNCHANGED <<hub, listed, send>>
        ELSE listed' = [listed EXCEPT ![c[1]] = NoClient] /\ Close(c)
     /\ Hangup(c)
     /\ overtaken' = overtaken \cup ({c} \cap Range(register))
  /\ UNCHANGED <<register, broadcast, spare, pumps, redis, subscriber, fresh, got>>

(* Handing an event to clients; those whose channel is full will be asked  *)
(* to leave, and a closed channel panics.                                  *)
Fits(c) == send[c].queued < SendCap
Hand(e, to) ==
  /\ hub' = IF \A c \in to : send[c].open THEN hub ELSE "panicked"
  /\ send' = [c \in Clients |-> IF c \in to /\ Fits(c) THEN [send[c] EXCEPT !.queued = @ + 1] ELSE send[c]]
  /\ got' = [c \in Clients |-> IF c \in to /\ Fits(c) THEN [got[c] EXCEPT ![e] = @ + 1] ELSE got[c]]

(* routeBroadcast, to all devices of the user: for each client that cannot *)
(* take the event a goroutine asks to unregister it.                       *)
RouteBroadcast ==
  /\ hub = "run" /\ broadcast # <<>>
  /\ broadcast' = Tail(broadcast)
  /\ Hand(Head(broadcast), Listed)
  /\ spare' = [c \in Clients |-> IF c \in Listed /\ ~Fits(c) THEN spare[c] + 1 ELSE spare[c]]
  /\ UNCHANGED <<listed, register, unregister, conn, pumps, redis, subscriber, fresh, overtaken>>

(* routeBroadcast, to one device: the hub sends to its own channel.        *)
RouteToDevice(d) ==
  /\ hub = "run" /\ broadcast # <<>> /\ listed[d] # NoClient
  /\ broadcast' = Tail(broadcast)
  /\ \/ /\ Fits(listed[d]) /\ Hand(Head(broadcast), {listed[d]})
        /\ UNCHANGED unregister
     \/ /\ ~Fits(listed[d]) /\ Len(unregister) < RequestCap
        /\ unregister' = Append(unregister, listed[d])
        /\ UNCHANGED <<hub, send, got>>
     \/ /\ ~Fits(listed[d]) /\ Len(unregister) = RequestCap
        /\ hub' = "stuck"
        /\ UNCHANGED <<unregister, send, got>>
  /\ UNCHANGED <<listed, register, spare, conn, pumps, redis, subscriber, fresh, overtaken>>

SpareUnregisters(c) ==
  /\ Alive /\ spare[c] > 0 /\ Len(unregister) < RequestCap
  /\ spare' = [spare EXCEPT ![c] = @ - 1]
  /\ unregister' = Append(unregister, c)
  /\ UNCHANGED <<hub, listed, register, broadcast, conn, send, pumps, redis, subscriber, fresh, history>>

(* closeAll, when the context is cancelled. *)
CloseAll ==
  /\ hub = "run" /\ hub' = "stopped"
  /\ listed' = [d \in HubDevices |-> NoClient]
  /\ send' = [c \in Clients |-> IF c \in Listed THEN [send[c] EXCEPT !.open = FALSE] ELSE send[c]]
  /\ conn' = [c \in Clients |-> IF c \in Listed THEN "closed" ELSE conn[c]]
  /\ UNCHANGED <<chans, spare, pumps, redis, subscriber, fresh, history>>

-----------------------------------------------------------------------------
(* BroadcastToUser: the event goes into the hub's channel, or is refused   *)
(* when it is full; an accepted event is also published to Redis.  Another *)
(* instance publishes only to Redis.                                       *)
BroadcastToUser ==
  /\ Alive /\ fresh # {}
  /\ \E e \in fresh :
       /\ fresh' = fresh \ {e}
       /\ \/ /\ Len(broadcast) < RequestCap
             /\ broadcast' = Append(broadcast, e) /\ redis' = Append(redis, e)
          \/ UNCHANGED broadcast /\ redis' = Append(redis, e)
          \/ Len(broadcast) = RequestCap /\ UNCHANGED <<broadcast, redis>>
  /\ UNCHANGED <<hub, listed, register, unregister, spare, conn, send, pumps, subscriber, history>>

(* handleRedisMessage: the clients are collected under the lock and served *)
(* after it has been released.                                             *)
CollectClients ==
  /\ Alive /\ redis # <<>> /\ subscriber.to = {}
  /\ redis' = Tail(redis)
  /\ subscriber' = IF Listed = {} THEN NoMessage ELSE [event |-> Head(redis), to |-> Listed]
  /\ UNCHANGED <<hub, listed, chans, spare, conn, send, pumps, fresh, history>>
DeliverOutsideLock(c) ==
  /\ Alive /\ c \in subscriber.to
  /\ subscriber' = IF subscriber.to = {c} THEN NoMessage ELSE [subscriber EXCEPT !.to = @ \ {c}]
  /\ Hand(subscriber.event, {c})
  /\ spare' = [spare EXCEPT ![c] = IF Fits(c) THEN @ ELSE @ + 1]
  /\ UNCHANGED <<listed, chans, conn, pumps, redis, fresh, overtaken>>

-----------------------------------------------------------------------------
(* Mutant: the read pump asks to be unregistered only if there is room. *)
ReaderLeaves_IfRoom(c) ==
  /\ Alive /\ reader[c] = "read" /\ conn[c] = "closed"
  /\ unregister' = IF Len(unregister) < RequestCap THEN Append(unregister, c) ELSE unregister
  /\ reader' = [reader EXCEPT ![c] = "done"]
  /\ UNCHANGED <<hub, listed, register, broadcast, spare, conn, send, writer, redis, subscriber, fresh, history>>

(* readPump: messages are handled until reading fails; then the pump waits *)
(* until there is room for its request.                                    *)
ReadMessage(c) ==
  /\ Alive /\ reader[c] = "read" /\ conn[c] = "open"
  /\ reader' = [reader EXCEPT ![c] = "handle"]
  /\ UNCHANGED <<hub, listed, chans, spare, conn, send, writer, redis, subscriber, fresh, history>>
ReaderLeaves(c) ==
  /\ Alive /\ reader[c] = "read" /\ conn[c] = "closed" /\ Len(unregister) < RequestCap
  /\ unregister' = Append(unregister, c)
  /\ reader' = [reader EXCEPT ![c] = "done"]
  /\ UNCHANGED <<hub, listed, register, broadcast, spare, conn, send, writer, redis, subscriber, fresh, history>>

(* handleMessage: a pong or an error goes to the client's own channel if   *)
(* it fits; other events end in a broadcast or have no effect here.        *)
HandleMessage(c) ==
  /\ Alive /\ reader[c] = "handle"
  /\ reader' = [reader EXCEPT ![c] = "read"]
  /\ \/ ~send[c].open /\ hub' = "panicked" /\ UNCHANGED send
     \/ /\ send[c].open /\ UNCHANGED hub
        /\ send' = [send EXCEPT ![c].queued = IF Fits(c) THEN @ + 1 ELSE @]
     \/ UNCHANGED <<hub, send>>
  /\ UNCHANGED <<listed, chans, spare, conn, writer, redis, subscriber, fresh, history>>

(* Mutant: a ping that cannot be written does not end the write pump. *)
WriterLeaves_WhenClosed(c) ==
  /\ Alive /\ writer[c] = "write" /\ ~send[c].open /\ send[c].queued = 0
  /\ unregister' = IF Len(unregister) < RequestCap THEN Append(unregister, c) ELSE unregister
  /\ writer' = [writer EXCEPT ![c] = "done"]
  /\ Hangup(c)
  /\ UNCHANGED <<hub, listed, register, broadcast, spare, send, reader, redis, subscriber, fresh, history>>

(* writePump: messages are written while the channel is open or not empty; *)
(* a message or a ping that cannot be written ends it.  It asks for its    *)
(* unregistration only if there is room.                                   *)
WriteMessage(c) ==
  /\ Alive /\ writer[c] = "write" /\ send[c].queued > 0 /\ conn[c] = "open"
  /\ send' = [send EXCEPT ![c].queued = @ - 1]
  /\ UNCHANGED <<hub, listed, chans, spare, conn, pumps, redis, subscriber, fresh, history>>
WriterLeaves(c) ==
  /\ Alive /\ writer[c] = "write"
  /\ conn[c] = "closed" \/ (~send[c].open /\ send[c].queued = 0)
  /\ unregister' = IF Len(unregister) < RequestCap THEN Append(unregister, c) ELSE unregister
  /\ writer' = [writer EXCEPT ![c] = "done"]
  /\ Hangup(c)
  /\ UNCHANGED <<hub, listed, register, broadcast, spare, send, reader, redis, subscriber, fresh, history>>

-----------------------------------------------------------------------------
Run == RegisterStep \/ UnregisterStep \/ RouteBroadcast \/ (\E d \in HubDevices : RouteToDevice(d))
Pumps(c) ==
  HandleMessage(c) \/ ReaderLeaves(c) \/ WriteMessage(c) \/ WriterLeaves(c)

HubNext ==
  \/ Run \/ CloseAll \/ BroadcastToUser \/ CollectClients
  \/ \E c \in Clients :
       \/ ServeWS(c) \/ UpgradeFails(c) \/ RegisterClient(c) \/ PeerCloses(c) \/ ReadMessage(c)
       \/ SpareUnregisters(c) \/ DeliverOutsideLock(c) \/ Pumps(c)

(* Go schedules every goroutine that can run, and select takes a case that *)
(* stays ready.                                                            *)
HubFairness ==
  /\ WF_hvars(RegisterStep) /\ WF_hvars(UnregisterStep)
  /\ \A c \in Clients : WF_hvars(HandleMessage(c)) /\ WF_hvars(WriterLeaves(c)) /\ SF_hvars(ReaderLeaves(c))
HubSpec == HubInit /\ [][HubNext]_hvars /\ HubFairness

-----------------------------------------------------------------------------
(* The connections map is accurate unless an unregistration was handled    *)
(* before the registration it belongs to: a listed client has an open      *)
(* channel, a client whose pumps have ended is not listed (the read pump's *)
(* request is never dropped, though the channel may be full), and a        *)
(* connection that is being served is listed.                              *)
Served(c) == conn[c] = "open" /\ reader[c] = "read" /\ ~Contains(register, c)
Ghost(c) ==
  /\ listed[c[1]] = c /\ reader[c] = "done" /\ writer[c] = "done"
  /\ ~Contains(unregister, c)
MapIsAccurate ==
  \A c \in Clients :
    (hub = "run" /\ \A o \in overtaken : o[1] # c[1]) =>
      /\ c \in Listed => send[c].open
      /\ ~Ghost(c)
      /\ Served(c) => c \in Listed

(* An event reaches a client at most twice: once from the hub's channel    *)
(* and once from Redis, which is not fed with what came from it.           *)
AtMostTwice == \A c \in Clients, e \in Events : got[c][e] <= 2

(* The pumps of a connection that is closed end, unless the process or the *)
(* hub does.                                                               *)
Ended(c) == reader[c] \in {"none", "done"} /\ writer[c] \in {"none", "done"}
PumpsEnd ==
  \A c \in Clients : conn[c] = "closed" ~> (Ended(c) \/ hub # "run")

\* The hub knows the connections it serves and no others, and an event reaches
\* one at most twice (from here and through Redis).
HubInv == HubTypeOK /\ MapIsAccurate /\ AtMostTwice
=============================================================================
