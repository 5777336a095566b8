--------------------------------- MODULE Hub ---------------------------------
(* The WebSocket hub of pkg/realtime/websocket.go: the goroutine of Run, the  *)
(* readPump and the writePump of every client, and the publishers.            *)
(*                                                                            *)
(* Run's context is context.Background() in the server, so Run never returns. *)
(* The context of a client is the one of its HTTP request: writePump may see  *)
(* it cancelled at any time, and it may also fail to write at any time.       *)
EXTENDS Integers, Sequences, FiniteSets

CONSTANTS Clients,
          Subscriptions,  \* records with a collection, a set of event types and a filter
          Events,         \* records with a type, a collection and data
          AnyCollection,  \* a subscription to "" or to "*"
          Vetoed,         \* the event types whose handler cancels the broadcast
          SendCapacity, BroadcastCapacity,   \* both 256 in the code
          MaxPublished, MaxMessages

ConstantsOK == SendCapacity \in Nat /\ BroadcastCapacity \in Nat

VARIABLES clients,        \* Hub.clients
          broadcast,      \* the channel of published events
          reader, writer, \* where ServeWS and readPump, and writePump, of a client are
          connected,      \* the connections that are open
          send,           \* how many messages wait in the send channel of a client
          closed,         \* clients whose send channel was closed
          subscriptions,
          published, messages

vars == <<clients, broadcast, reader, writer, connected, send, closed, subscriptions,
          published, messages>>

NewHub == /\ clients = {} /\ broadcast = <<>>
          /\ reader = [c \in Clients |-> "none"]
          /\ writer = [c \in Clients |-> "none"]
          /\ connected = {} /\ closed = {}
          /\ send = [c \in Clients |-> 0]
          /\ subscriptions = [c \in Clients |-> {}]
          /\ published = 0 /\ messages = 0
------------------------------------------------------------------------------
(* The goroutine of Run.                                                      *)

ServeWS(c) ==
  /\ reader[c] = "none"
  /\ reader' = [reader EXCEPT ![c] = "registering"]
  /\ connected' = connected \cup {c}
  /\ UNCHANGED <<clients, broadcast, writer, send, closed, subscriptions, published, messages>>

\* The channel has no buffer: ServeWS starts the pumps once Run has the client.
Register(c) ==
  /\ reader[c] = "registering"
  /\ clients' = clients \cup {c}
  /\ reader' = [reader EXCEPT ![c] = "reading"]
  /\ writer' = [writer EXCEPT ![c] = "running"]
  /\ UNCHANGED <<broadcast, connected, send, closed, subscriptions, published, messages>>

\* Mutant: the client stays in the map.
UnregisterLater(c) ==
  /\ reader[c] = "leaving"
  /\ closed' = closed \cup {c}
  /\ reader' = [reader EXCEPT ![c] = "done"]
  /\ connected' = connected \ {c}
  /\ UNCHANGED <<clients, broadcast, writer, send, subscriptions, published, messages>>

\* With what the deferred call of readPump does next: it closes the connection.
Unregister(c) ==
  /\ reader[c] = "leaving"
  /\ clients' = clients \ {c}
  /\ closed' = IF c \in clients THEN closed \cup {c} ELSE closed
  /\ reader' = [reader EXCEPT ![c] = "done"]
  /\ connected' = connected \ {c}
  /\ UNCHANGED <<broadcast, writer, send, subscriptions, published, messages>>

shouldSendToClient(c, event) ==
  \E sub \in subscriptions[c] :
    /\ sub.collection \in {AnyCollection, event.collection}
    /\ sub.events = {} \/ event.type \in sub.events
    /\ sub.filter \subseteq event.data

\* A client whose buffer is full misses the event.
broadcastEvent ==
  /\ broadcast # <<>>
  /\ broadcast' = Tail(broadcast)
  /\ LET event == Head(broadcast)
         gets == {c \in clients : event.type \notin Vetoed /\ shouldSendToClient(c, event)
                                    /\ send[c] < SendCapacity}
     IN  send' = [c \in Clients |-> IF c \in gets THEN send[c] + 1 ELSE send[c]]
  /\ UNCHANGED <<clients, reader, writer, connected, closed, subscriptions, published,
                 messages>>

Publish(event) ==
  /\ published < MaxPublished /\ Len(broadcast) < BroadcastCapacity
  /\ broadcast' = Append(broadcast, event)
  /\ published' = published + 1
  /\ UNCHANGED <<clients, reader, writer, connected, send, closed, subscriptions, messages>>
------------------------------------------------------------------------------
(* readPump: every message of the client is answered through its channel.     *)

\* What was read before the connection was closed may still be handled.
Handle(c, subs) ==
  /\ reader[c] = "reading" /\ messages < MaxMessages
  /\ subscriptions' = [subscriptions EXCEPT ![c] = subs]
  /\ reader' = [reader EXCEPT ![c] = "answering"]
  /\ messages' = messages + 1
  /\ UNCHANGED <<clients, broadcast, writer, connected, send, closed, published>>

handleSubscribe(c) == \E sub \in Subscriptions : Handle(c, subscriptions[c] \cup {sub})

\* One subscription to the named collection goes, if there is one.
handleUnsubscribe(c) ==
  \E k \in {s.collection : s \in Subscriptions} :
    LET named == {s \in subscriptions[c] : s.collection = k}
    IN  IF named = {} THEN Handle(c, subscriptions[c])
        ELSE \E s \in named : Handle(c, subscriptions[c] \ {s})

\* A ping, an unknown or an unreadable message.
handlePing(c) == Handle(c, subscriptions[c])

\* The plain send blocks while the channel is full; on a closed channel it panics.
Answer(c) ==
  /\ reader[c] = "answering" /\ c \notin closed /\ send[c] < SendCapacity
  /\ send' = [send EXCEPT ![c] = @ + 1]
  /\ reader' = [reader EXCEPT ![c] = "reading"]
  /\ UNCHANGED <<clients, broadcast, writer, connected, closed, subscriptions, published,
                 messages>>

\* The peer is gone, the read deadline passed or the connection is closed.
ReadFails(c) ==
  /\ reader[c] = "reading"
  /\ reader' = [reader EXCEPT ![c] = "leaving"]
  /\ UNCHANGED <<clients, broadcast, writer, connected, send, closed, subscriptions,
                 published, messages>>
------------------------------------------------------------------------------
(* writePump.                                                                 *)

WriteMessage(c) ==
  /\ writer[c] = "running" /\ send[c] > 0
  /\ send' = [send EXCEPT ![c] = @ - 1]
  /\ UNCHANGED <<clients, broadcast, reader, writer, connected, closed, subscriptions,
                 published, messages>>

\* Mutant: writePump closes the channel that it no longer reads.
WriterCloses(c) ==
  /\ writer[c] = "running"
  /\ writer' = [writer EXCEPT ![c] = "done"]
  /\ connected' = connected \ {c}
  /\ closed' = closed \cup {c}
  /\ UNCHANGED <<clients, broadcast, reader, send, subscriptions, published, messages>>

\* The channel is closed, a write fails or the context is cancelled.
WriterReturns(c) ==
  /\ writer[c] = "running"
  /\ writer' = [writer EXCEPT ![c] = "done"]
  /\ connected' = connected \ {c}
  /\ UNCHANGED <<clients, broadcast, reader, send, closed, subscriptions, published, messages>>

Next ==
  \/ broadcastEvent
  \/ \E event \in Events : Publish(event)
  \/ \E c \in Clients :
       \/ ServeWS(c) \/ Register(c) \/ Unregister(c)
       \/ handleSubscribe(c) \/ handleUnsubscribe(c) \/ handlePing(c)
       \/ Answer(c) \/ ReadFails(c) \/ WriteMessage(c) \/ WriterReturns(c)

\* Run and the pumps go on, and a read of a closed connection fails.
Fairness ==
  /\ WF_vars(broadcastEvent)
  /\ \A c \in Clients : /\ WF_vars(Register(c)) /\ WF_vars(Unregister(c))
                        /\ WF_vars(Answer(c)) /\ WF_vars(WriteMessage(c))
                        /\ WF_vars(c \notin connected /\ ReadFails(c))

Spec == NewHub /\ [][Next]_vars /\ Fairness
------------------------------------------------------------------------------
TypeOK == /\ clients \cup connected \cup closed \subseteq Clients
          /\ broadcast \in Seq(Events) /\ Len(broadcast) <= BroadcastCapacity
          /\ send \in [Clients -> 0..SendCapacity]
          /\ subscriptions \in [Clients -> SUBSET Subscriptions]

\* Nobody ever sends on a closed channel, which would end the process: neither
\* Run, which sends to the clients of the map, nor a readPump with an answer.
NoSendOnClosed ==
  /\ clients \cap closed = {}
  /\ \A c \in closed : reader[c] # "answering"

\* A readPump whose answer finds the channel full and nobody to empty it.
Stuck(c) == reader[c] = "answering" /\ send[c] = SendCapacity /\ writer[c] = "done"

\* A client whose connection was closed leaves the map of the hub for good,
\* unless its readPump is stuck.
ClientsLeave ==
  \A c \in Clients :
    c \in clients /\ c \notin connected ~> [](c \notin clients) \/ Stuck(c)
==============================================================================
