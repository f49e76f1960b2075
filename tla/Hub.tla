--------------------------------- MODULE Hub --------------------------------
(***************************************************************************)
(* The WebSocket hub of the dashboard (internal/ws/hub.go) with the        *)
(* goroutines of each connection (handleWebSocket): a reader that answers  *)
(* pings and unregisters its client, a writer that empties the client's    *)
(* channel, and the one goroutine that hands a broadcast to every client   *)
(* and throws out those whose channel is full.  The table of clients and   *)
(* the channels are used in separate steps.  Payloads and their encryption *)
(* are left out.                                                           *)
(***************************************************************************)
EXTENDS Integers, Sequences, FiniteSets

CONSTANTS Clients,        \* connections
          SendCap,        \* clientSendCap
          QueueCap,       \* broadcastBuf
          MaxBroadcasts,  \* bound: messages offered to the hub
          MaxPings        \* bound: pings of all clients

ASSUME HubAssumption ==
    SendCap \in Nat \ {0} /\ QueueCap \in Nat \ {0}
    /\ MaxBroadcasts \in Nat /\ MaxPings \in Nat

VARIABLES
  clients,   \* Hub.clients
  channel,   \* of each client's send: "none", "open", "closed"
  buffered,  \* messages waiting in it
  sent,      \* the broadcasts that were put into it
  conn,      \* the connection is open
  reader,    \* position of the reader goroutine
  writer,    \* the writer goroutine runs
  queue,     \* length of Hub.broadcast
  hub,       \* the hub: position, the client at hand, who was not visited
             \* yet, and who has to be
  taken,     \* broadcasts taken from the queue
  offered, pings, \* counters of the bounds
  panic      \* the process died of a channel misused

connVars == <<conn, reader, writer>>
hubVars == <<clients, channel, buffered, sent, conn, reader, writer, queue,
             hub, taken, offered, pings, panic>>

Waiting == [at |-> "select", client |-> "none", left |-> {}, due |-> {}]

HubTypeOK ==
    /\ clients \subseteq Clients
    /\ channel \in [Clients -> {"none", "open", "closed"}]
    /\ buffered \in [Clients -> 0..SendCap]
    /\ \A c \in Clients : \A i \in DOMAIN sent[c] : sent[c][i] \in 1..taken
    /\ conn \in [Clients -> BOOLEAN] /\ writer \in [Clients -> BOOLEAN]
    /\ reader \in [Clients -> {"new", "read", "pong", "leave", "close", "done"}]
    /\ queue \in 0..QueueCap /\ taken \in 0..MaxBroadcasts
    /\ hub.at \in {"select", "range", "send", "kick", "stopped"}
    /\ hub.client \in Clients \cup {"none"}
    /\ hub.left \subseteq Clients /\ hub.due \subseteq Clients
    /\ offered \in 0..MaxBroadcasts /\ pings \in 0..MaxPings
    /\ panic \in BOOLEAN

HubInit ==
    /\ clients = {} /\ channel = [c \in Clients |-> "none"]
    /\ buffered = [c \in Clients |-> 0] /\ sent = [c \in Clients |-> <<>>]
    /\ conn = [c \in Clients |-> FALSE] /\ writer = conn
    /\ reader = [c \in Clients |-> "new"]
    /\ queue = 0 /\ hub = Waiting /\ taken = 0
    /\ offered = 0 /\ pings = 0 /\ panic = FALSE

-----------------------------------------------------------------------------
(* Channels: a send to, and a close of, a closed one is a panic.           *)

TrySend(c) ==
    \/ /\ channel[c] = "open" /\ buffered[c] < SendCap
       /\ buffered' = [buffered EXCEPT ![c] = @ + 1] /\ UNCHANGED panic
    \/ /\ channel[c] = "open" /\ buffered[c] = SendCap
       /\ UNCHANGED <<buffered, panic>>
    \/ channel[c] = "closed" /\ panic' = TRUE /\ UNCHANGED buffered

Close(c) ==
    /\ panic' = (channel[c] = "closed")
    /\ channel' = [channel EXCEPT ![c] = "closed"]

-----------------------------------------------------------------------------
(* A connection (handleWebSocket, WritePump).                              *)

ReaderAt(c, p) == ~panic /\ reader[c] = p
ReaderTo(c, p) == reader' = [reader EXCEPT ![c] = p]

\* Upgraded, registered, and its two goroutines started.
Register(c) ==
    /\ ReaderAt(c, "new") /\ ReaderTo(c, "read")
    /\ channel' = [channel EXCEPT ![c] = "open"]
    /\ clients' = clients \cup {c}
    /\ conn' = [conn EXCEPT ![c] = TRUE] /\ writer' = [writer EXCEPT ![c] = TRUE]
    /\ UNCHANGED <<buffered, sent, queue, hub, taken, offered, pings, panic>>

Ping(c) ==
    /\ ReaderAt(c, "read") /\ conn[c] /\ pings < MaxPings
    /\ pings' = pings + 1 /\ ReaderTo(c, "pong")
    /\ UNCHANGED <<clients, channel, buffered, sent, conn, writer, queue, hub,
                   taken, offered, panic>>

\* The answer goes into the channel, whoever may have closed it.
Pong(c) ==
    /\ ReaderAt(c, "pong") /\ TrySend(c) /\ ReaderTo(c, "read")
    /\ UNCHANGED <<clients, channel, sent, conn, writer, queue, hub, taken,
                   offered, pings>>

\* The browser closes the page, or the network fails.
Disconnect(c) ==
    /\ ~panic /\ conn[c] /\ conn' = [conn EXCEPT ![c] = FALSE]
    /\ UNCHANGED <<clients, channel, buffered, sent, reader, writer, queue, hub,
                   taken, offered, pings, panic>>

\* ReadJSON fails on a closed connection.
ReadFails(c) ==
    /\ ReaderAt(c, "read") /\ ~conn[c] /\ ReaderTo(c, "leave")
    /\ UNCHANGED <<clients, channel, buffered, sent, conn, writer, queue, hub,
                   taken, offered, pings, panic>>

\* As if the client were only removed.
UnregisterOnly(c) ==
    /\ ReaderAt(c, "leave") /\ clients' = clients \ {c}
    /\ ReaderTo(c, "done")
    /\ UNCHANGED <<channel, buffered, sent, conn, writer, queue, hub, taken,
                   offered, pings, panic>>

\* Unregister: whoever removes the client closes its channel ...
Unregister(c) ==
    /\ ReaderAt(c, "leave") /\ clients' = clients \ {c}
    /\ ReaderTo(c, IF c \in clients THEN "close" ELSE "done")
    /\ UNCHANGED <<channel, buffered, sent, conn, writer, queue, hub, taken,
                   offered, pings, panic>>

\* ... in a second step.
UnregisterClose(c) ==
    /\ ReaderAt(c, "close") /\ Close(c) /\ ReaderTo(c, "done")
    /\ UNCHANGED <<clients, buffered, sent, conn, writer, queue, hub, taken,
                   offered, pings>>

\* WritePump writes one message, or fails - at the latest by its deadline -
\* and ends; it ends as well when the channel is closed and empty.
Write(c) ==
    /\ ~panic /\ writer[c] /\ buffered[c] > 0
    /\ buffered' = [buffered EXCEPT ![c] = @ - 1]
    /\ \/ conn[c] /\ UNCHANGED <<conn, writer>>
       \/ /\ writer' = [writer EXCEPT ![c] = FALSE]
          /\ conn' = [conn EXCEPT ![c] = FALSE]
    /\ UNCHANGED <<clients, channel, sent, reader, queue, hub, taken, offered,
                   pings, panic>>

WriterEnds(c) ==
    /\ ~panic /\ writer[c] /\ buffered[c] = 0 /\ channel[c] = "closed"
    /\ writer' = [writer EXCEPT ![c] = FALSE]
    /\ conn' = [conn EXCEPT ![c] = FALSE]
    /\ UNCHANGED <<clients, channel, buffered, sent, reader, queue, hub, taken,
                   offered, pings, panic>>

-----------------------------------------------------------------------------
(* The hub.                                                                *)

\* Publish never blocks: a message too many is dropped.  The dashboard's
\* ticker offers none without a client, the log collector always does.
Publish ==
    /\ ~panic /\ offered < MaxBroadcasts /\ offered' = offered + 1
    /\ queue' = IF queue < QueueCap THEN queue + 1 ELSE queue
    /\ UNCHANGED <<clients, channel, buffered, sent, connVars, hub, taken,
                   pings, panic>>

Dashboard == clients # {} /\ Publish
LogCollector == Publish

HubStep(p) == ~panic /\ hub.at = p /\ UNCHANGED <<offered, pings>>

\* Run takes a message and ranges over the table ...
Take ==
    /\ HubStep("select") /\ queue > 0
    /\ queue' = queue - 1 /\ taken' = taken + 1
    /\ hub' = [at |-> "range", client |-> "none", left |-> Clients,
               due |-> clients]
    /\ UNCHANGED <<clients, channel, buffered, sent, connVars, panic>>

\* ... seeing every client that stays in it, and perhaps one that comes.
Visit ==
    /\ HubStep("range")
    /\ \/ \E c \in hub.left \cap clients :
            hub' = [hub EXCEPT !.at = "send", !.client = c, !.left = @ \ {c}]
       \/ hub.left \cap hub.due \cap clients = {} /\ hub' = Waiting
    /\ UNCHANGED <<clients, channel, buffered, sent, connVars, queue, taken,
                   panic>>

\* As if a message for a slow client were dropped.
SendOrDrop ==
    /\ HubStep("send")
    /\ LET c == hub.client
       IN /\ TrySend(c)
          /\ hub' = [hub EXCEPT !.at = "range"]
          /\ sent' = IF buffered' = buffered THEN sent
                     ELSE [sent EXCEPT ![c] = Append(@, taken)]
    /\ UNCHANGED <<clients, channel, connVars, queue, taken>>

\* The non-blocking send; a client whose channel is full leaves the table ...
Send ==
    /\ HubStep("send")
    /\ LET c == hub.client
           full == channel[c] = "open" /\ buffered[c] = SendCap
       IN /\ TrySend(c)
          /\ clients' = IF full THEN clients \ {c} ELSE clients
          /\ hub' = [hub EXCEPT !.at = IF full THEN "kick" ELSE "range"]
          /\ sent' = IF buffered' = buffered THEN sent
                     ELSE [sent EXCEPT ![c] = Append(@, taken)]
    /\ UNCHANGED <<channel, connVars, queue, taken>>

\* ... and its channel and connection are closed.
Kick ==
    /\ HubStep("kick") /\ Close(hub.client)
    /\ conn' = [conn EXCEPT ![hub.client] = FALSE]
    /\ hub' = [hub EXCEPT !.at = "range"]
    /\ UNCHANGED <<clients, buffered, sent, reader, writer, queue, taken>>

\* The program is told to end.
Stop ==
    /\ HubStep("select") /\ hub' = [Waiting EXCEPT !.at = "stopped"]
    /\ UNCHANGED <<clients, channel, buffered, sent, connVars, queue, taken,
                   panic>>

\* What goes on without a browser: the reader, the writer, the hub.
ReaderGoesOn(c) ==
    Pong(c) \/ ReadFails(c) \/ Unregister(c) \/ UnregisterClose(c)
WriterGoesOn(c) == Write(c) \/ WriterEnds(c)
HubGoesOn == Visit \/ Send \/ Kick

HubNext ==
    \/ \E c \in Clients : \/ Register(c) \/ Ping(c) \/ Disconnect(c)
                          \/ ReaderGoesOn(c) \/ WriterGoesOn(c)
    \/ Dashboard \/ LogCollector \/ Take \/ HubGoesOn \/ Stop

-----------------------------------------------------------------------------
\* A client in the table misses nothing in between: from the first broadcast
\* it was handed it was handed every one, each once and in order - a slow one
\* is thrown out, never skipped (Run).
NoGaps ==
    hub.at = "select" =>
        \A c \in clients : sent[c] # <<>> =>
            \A i \in DOMAIN sent[c] : sent[c][i] = taken - Len(sent[c]) + i

\* A connection that ended - by the browser, the network, or because it was
\* too slow - leaves nothing behind: no entry, no reader and no writer that
\* waits on a channel nobody closes (handleWebSocket, WritePump).
ConnectionsAreReleased ==
    \A c \in Clients :
        (reader[c] # "new" /\ ~conn[c]) ~>
            (panic \/ (c \notin clients /\ reader[c] = "done" /\ ~writer[c]))

\* The fan-out is non-blocking and throws a slow client out (hub.go:1), and a
\* send that fails is answered by FALSE (hub.go:31): a client that leaves, or
\* is too slow, never ends the process.
HubSurvives == ~panic
=============================================================================
