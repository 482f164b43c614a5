----------------------------- MODULE RealtimeHub -----------------------------
(***************************************************************************)
(* The in-process hub that pushes notifications over WebSockets.           *)
(*                                                                         *)
(* Every connection (a Client) has a bounded channel `send`, fed by        *)
(* publishers and drained by its writePump.  Hub.Run alone changes the     *)
(* set of registered clients and alone closes a channel; it is reached     *)
(* through unbuffered channels, so a caller of Register or Unregister      *)
(* waits until Run takes its message, and Run takes them in any order.     *)
(* Publishers hold the read lock and Run the write lock, so a publisher    *)
(* and a removal do not overlap.  The goroutine of the connection's own    *)
(* request holds no lock: what it sends races with the removal.            *)
(*                                                                         *)
(* Sending on a closed channel and closing it again panic.  gin recovers   *)
(* a panic of the request's goroutine and nobody one of Hub.Run.           *)
(*                                                                         *)
(* Operators named Faulty... are plausible bugs in the definition that     *)
(* follows them; they belong to no specification.                          *)
(***************************************************************************)
EXTENDS Integers, FiniteSets

CONSTANTS
    Clients,      \* connections, each served once
    Users,        \* users
    UserOf,       \* whose connection a client is
    Capacity,     \* sendBufferSize
    QueueSize,    \* capacity of the broadcast channel
    MaxDrops      \* bound on the goroutines that wait to unregister one client

ASSUME HubAssumption ==
    /\ UserOf \in [Clients -> Users]
    /\ Capacity \in Nat \ {0} /\ QueueSize \in Nat \ {0} /\ MaxDrops \in Nat

VARIABLES
    registered, \* the clients in Hub.clients
    closes,     \* how often Run has closed the channel of a client
    buffer,     \* messages in the channel of a client
    drops,      \* goroutines started by enqueue that wait in Unregister(client)
    queue,      \* messages in the broadcast channel
    handler,    \* the goroutine of the connection's request
    writer,     \* its writePump
    conn        \* is the connection open?

vars == <<registered, closes, buffer, drops, queue, handler, writer, conn>>

\* "register" and "unregister": waiting for Run; "ready": about to send the ready
\* event; "read": in readPump; "lost": SendReady has panicked, nobody serves.
HandlerStages == {"start", "register", "ready", "read", "unregister", "done", "lost"}

Init ==
    /\ registered = {}
    /\ closes = [c \in Clients |-> 0]
    /\ buffer = [c \in Clients |-> 0]
    /\ drops = [c \in Clients |-> 0]
    /\ queue = 0
    /\ handler = [c \in Clients |-> "start"]
    /\ writer = [c \in Clients |-> "off"]
    /\ conn = [c \in Clients |-> FALSE]

Closed(c) == closes[c] > 0

Full(c) == buffer[c] = Capacity

-----------------------------------------------------------------------------
\* Publishers

\* Hub.enqueue for every client of a set: a full channel loses the message and
\* a goroutine is started that unregisters the client.
Enqueue(targets) ==
    /\ \A c \in targets : Full(c) => drops[c] < MaxDrops
    /\ buffer' = [c \in Clients |-> IF c \in targets /\ ~Full(c) THEN buffer[c] + 1 ELSE buffer[c]]
    /\ drops' = [c \in Clients |-> IF c \in targets /\ Full(c) THEN drops[c] + 1 ELSE drops[c]]

\* Hub.SendToUser, under the read lock.
SendToUser(u) ==
    /\ Enqueue({c \in registered : UserOf[c] = u})
    /\ UNCHANGED <<registered, closes, queue, handler, writer, conn>>

\* Hub.Broadcast: a full queue loses the message.
Broadcast ==
    /\ queue < QueueSize
    /\ queue' = queue + 1
    /\ UNCHANGED <<registered, closes, buffer, drops, handler, writer, conn>>

-----------------------------------------------------------------------------
\* Hub.Run

RunBroadcast ==
    /\ queue > 0
    /\ queue' = queue - 1
    /\ Enqueue(registered)
    /\ UNCHANGED <<registered, closes, handler, writer, conn>>

RunRegister(c) ==
    /\ handler[c] = "register"
    /\ registered' = registered \cup {c}
    /\ handler' = [handler EXCEPT ![c] = "ready"]
    /\ UNCHANGED <<closes, buffer, drops, queue, writer, conn>>

\* The set is not asked whether it still has the client: HubSurvives.
FaultyRemoveClient(c) ==
    /\ registered' = registered \ {c}
    /\ closes' = [closes EXCEPT ![c] = @ + 1]

\* The channel is closed and the client stays in the set: HubSurvives.
FaultyKeepClient(c) ==
    /\ UNCHANGED registered
    /\ closes' = IF c \in registered THEN [closes EXCEPT ![c] = 1] ELSE closes

\* The client is deleted and its channel left open: ServedOrClosed.
FaultyForget(c) ==
    /\ registered' = registered \ {c}
    /\ UNCHANGED closes

\* Hub.removeClient, under the write lock.
RemoveClient(c) ==
    /\ registered' = registered \ {c}
    /\ closes' = IF c \in registered THEN [closes EXCEPT ![c] = @ + 1] ELSE closes

\* Run takes a client that enqueue has dropped.
RunDrop(c) ==
    /\ drops[c] > 0
    /\ drops' = [drops EXCEPT ![c] = @ - 1]
    /\ RemoveClient(c)
    /\ UNCHANGED <<buffer, queue, handler, writer, conn>>

\* Run takes a client whose readPump has ended, which then closes the connection.
RunUnregister(c) ==
    /\ handler[c] = "unregister"
    /\ RemoveClient(c)
    /\ handler' = [handler EXCEPT ![c] = "done"]
    /\ conn' = [conn EXCEPT ![c] = FALSE]
    /\ UNCHANGED <<buffer, drops, queue, writer>>

-----------------------------------------------------------------------------
\* The goroutine of the request

\* HandleNotifications has upgraded the connection and calls Register.
Connect(c) ==
    /\ handler[c] = "start"
    /\ handler' = [handler EXCEPT ![c] = "register"]
    /\ conn' = [conn EXCEPT ![c] = TRUE]
    /\ UNCHANGED <<registered, closes, buffer, drops, queue, writer>>

\* A full channel takes one more: TypeOK.
FaultyOffer(c) == buffer' = [buffer EXCEPT ![c] = @ + 1]

\* Client.enqueue: a full channel loses the message.
Offer(c) == buffer' = IF Full(c) THEN buffer ELSE [buffer EXCEPT ![c] = @ + 1]

\* Client.SendReady, then Serve.
SendReady(c) ==
    /\ handler[c] = "ready"
    /\ ~Closed(c)
    /\ Offer(c)
    /\ handler' = [handler EXCEPT ![c] = "read"]
    /\ writer' = [writer EXCEPT ![c] = "run"]
    /\ UNCHANGED <<registered, closes, drops, queue, conn>>

\* The client was dropped before SendReady: the request panics before Serve.
PanicReady(c) ==
    /\ handler[c] = "ready"
    /\ Closed(c)
    /\ handler' = [handler EXCEPT ![c] = "lost"]
    /\ UNCHANGED <<registered, closes, buffer, drops, queue, writer, conn>>

\* readPump answers a ping of the peer.  The answer to a client that was dropped
\* panics; the deferred calls of readPump still run.
Ping(c) ==
    /\ handler[c] = "read"
    /\ conn[c]
    /\ IF Closed(c)
       THEN handler' = [handler EXCEPT ![c] = "unregister"] /\ UNCHANGED buffer
       ELSE Offer(c) /\ UNCHANGED handler
    /\ UNCHANGED <<registered, closes, drops, queue, writer, conn>>

\* readPump leaves without unregistering: DeadIsRemoved.
FaultyReadError(c) ==
    /\ handler[c] = "read"
    /\ handler' = [handler EXCEPT ![c] = "done"]
    /\ conn' = [conn EXCEPT ![c] = FALSE]
    /\ UNCHANGED <<registered, closes, buffer, drops, queue, writer>>

\* ReadMessage fails: the connection is closed, the peer gone or silent.
ReadError(c) ==
    /\ handler[c] = "read"
    /\ handler' = [handler EXCEPT ![c] = "unregister"]
    /\ UNCHANGED <<registered, closes, buffer, drops, queue, writer, conn>>

-----------------------------------------------------------------------------
\* writePump

Write(c) ==
    /\ writer[c] = "run"
    /\ conn[c]
    /\ buffer[c] > 0
    /\ buffer' = [buffer EXCEPT ![c] = @ - 1]
    /\ UNCHANGED <<registered, closes, drops, queue, handler, writer, conn>>

\* A write or a ping fails or runs into its deadline.
WriteError(c) ==
    /\ writer[c] = "run"
    /\ writer' = [writer EXCEPT ![c] = "done"]
    /\ conn' = [conn EXCEPT ![c] = FALSE]
    /\ UNCHANGED <<registered, closes, buffer, drops, queue, handler>>

\* Waits for its ticker instead of the closed channel: DroppedIsClosed.
FaultyWriteClose(c) ==
    /\ writer[c] = "run"
    /\ Closed(c) /\ buffer[c] = 0
    /\ UNCHANGED vars

\* The channel is closed and drained: a close frame, and the connection ends.
WriteClose(c) ==
    /\ writer[c] = "run"
    /\ Closed(c) /\ buffer[c] = 0
    /\ writer' = [writer EXCEPT ![c] = "done"]
    /\ conn' = [conn EXCEPT ![c] = FALSE]
    /\ UNCHANGED <<registered, closes, buffer, drops, queue, handler>>

-----------------------------------------------------------------------------
Next ==
    \/ \E u \in Users : SendToUser(u)
    \/ Broadcast \/ RunBroadcast
    \/ \E c \in Clients : \/ RunRegister(c) \/ RunDrop(c) \/ RunUnregister(c)
                          \/ Connect(c) \/ SendReady(c) \/ PanicReady(c)
                          \/ Ping(c) \/ ReadError(c)
                          \/ Write(c) \/ WriteError(c) \/ WriteClose(c)

Spec == Init /\ [][Next]_vars

\* Run serves its channels and select starves none of them; the two pumps go on:
\* a write ends at its deadline, and a read or a ping of a closed connection fails.
\* A healthy connection is never forced to end.
Fairness ==
    \A c \in Clients :
        /\ WF_vars(RunRegister(c)) /\ WF_vars(RunDrop(c)) /\ WF_vars(RunUnregister(c))
        /\ WF_vars(SendReady(c) \/ PanicReady(c))
        /\ WF_vars(ReadError(c) /\ ~conn[c])
        /\ WF_vars(\/ buffer[c] > 0 /\ (Write(c) \/ WriteError(c))
                   \/ ~conn[c] /\ WriteError(c)
                   \/ WriteClose(c))

FairSpec == Spec /\ Fairness

-----------------------------------------------------------------------------
\* Properties

\* Every variable has its type.
TypeOK ==
    /\ registered \subseteq Clients
    /\ closes \in [Clients -> Nat]
    /\ buffer \in [Clients -> 0..Capacity]
    /\ drops \in [Clients -> 0..MaxDrops]
    /\ queue \in 0..QueueSize
    /\ handler \in [Clients -> HandlerStages]
    /\ writer \in [Clients -> {"off", "run", "done"}]
    /\ conn \in [Clients -> BOOLEAN]

\* Hub.Run never closes a channel twice, although a slow client is unregistered
\* once for every message it loses and once more by its readPump.
ClosedOnce == \A c \in Clients : closes[c] <= 1

\* A registered client has an open channel, so no publisher and no broadcast
\* sends on a closed one and the hub survives.
RegisteredIsOpen == \A c \in registered : ~Closed(c)

\* Neither of the two panics that would end Hub.Run, in a goroutine nobody recovers, can
\* happen: closing a closed channel and sending on one.
HubSurvives == ClosedOnce /\ RegisteredIsOpen

\* A connection that is being served is in the hub or has been closed by it: it
\* is never forgotten, open but without messages.
ServedOrClosed == \A c \in Clients : handler[c] \in {"ready", "read"} => c \in registered \/ Closed(c)

\* A client whose connection has ended is removed from the hub.
DeadIsRemoved == \A c \in Clients : (c \in registered /\ ~conn[c]) ~> c \notin registered

\* A dropped client that is served loses its connection.
DroppedIsClosed == \A c \in Clients : (Closed(c) /\ writer[c] = "run") ~> ~conn[c]

=============================================================================
