-------------------------------- MODULE Hub --------------------------------
(***************************************************************************)
(* The WebSocket hub (internal/ws): publishers call Broadcast, the hub's   *)
(* goroutine fans messages out, and every connection has a handler         *)
(* (ServeWS) and two goroutines, readPump and writePump.  They meet on     *)
(* bounded channels; a send on a closed channel, or closing one twice, is  *)
(* a panic, which in a goroutine of its own ends the process.              *)
(*                                                                         *)
(* A message is its number (0: a reply of the pump or of ServeWS) and its  *)
(* topic.  writePump takes and writes a message in one step: in between it *)
(* would hold one more, as a channel with one more place does.             *)
(***************************************************************************)
EXTENDS Integers, Sequences, SequencesExt

CONSTANTS
    Conns,          \* the connections that will be made
    Topics,
    NoTopic,
    OrdersTopic,    \* OrdersTopic[c]: "orders:<client_id>", or NoTopic without one
    RegisterCap,    \* capacity of register and of unregister  (256 in the code)
    BroadcastCap,   \* capacity of broadcast                   (10000)
    SendCap,        \* capacity of a client's send             (256)
    MaxCalls,       \* bound: calls of Broadcast
    MaxReads        \* bound: MaxReads[c], messages the peer of c sends

ASSUME TopicsAssumption ==
    /\ NoTopic \notin Topics
    /\ OrdersTopic \in [Conns -> Topics \union {NoTopic}]
ASSUME CapsAssumption ==
    /\ RegisterCap \in Nat \ {0}
    /\ BroadcastCap \in Nat \ {0}
    /\ SendCap \in Nat \ {0}
    /\ MaxCalls \in Nat
    /\ MaxReads \in [Conns -> Nat]

VARIABLES
    register,    \* the hub's three channels
    unregister,
    broadcast,
    clients,     \* h.clients
    hub,         \* [msg, todo]: the message being fanned out, the clients to come
    client,      \* client[c]: the Client, its connection and its three goroutines
    panicked,    \* the process has ended: who panicked, or "nobody"
    calls        \* calls of Broadcast so far

hubVars == <<register, unregister, broadcast, clients, hub>>
vars == <<hubVars, client, panicked, calls>>

Message == [n : 0 .. MaxCalls, topic : Topics \union {NoTopic}]
Reply(t) == [n |-> 0, topic |-> t]

Idle == [msg |-> Reply(NoTopic), todo |-> {}]

\* send, closed and subs are the Client's; serve, read and write say where ServeWS and
\* the pumps are; the rest is history: how many messages the peer sent (reads), what
\* was written to it (got) and meant for it (offered, with a message that was dropped),
\* whether it was dropped as slow, and whether the hub took its unregister before its
\* register (early).
NewClient ==
    [conn |-> "none", send |-> <<>>, closed |-> FALSE, subs |-> {},
     serve |-> "new", read |-> "none", write |-> "none",
     reads |-> 0, got |-> <<>>, offered |-> <<>>, slow |-> FALSE, early |-> FALSE]

Running == panicked = "nobody"

Init ==
    /\ register = <<>>
    /\ unregister = <<>>
    /\ broadcast = <<>>
    /\ clients = {}
    /\ hub = Idle
    /\ client = [c \in Conns |-> NewClient]
    /\ panicked = "nobody"
    /\ calls = 0

-----------------------------------------------------------------------------
(* Publishers *)

\* Mutant: the channel is not asked for room.
BroadcastUnbounded(t) ==
    /\ Running
    /\ calls < MaxCalls
    /\ calls' = calls + 1
    /\ broadcast' = Append(broadcast, [n |-> calls + 1, topic |-> t])
    /\ UNCHANGED <<register, unregister, clients, hub, client, panicked>>

\* Broadcast, by BroadcastPriceTick (for the symbol, then for those who want all),
\* BroadcastOrderUpdate, BroadcastTrade and consumePositionEvents: the message is
\* queued, or dropped when the channel is full.
Broadcast(t) ==
    /\ Running
    /\ calls < MaxCalls
    /\ calls' = calls + 1
    /\ broadcast' = IF Len(broadcast) < BroadcastCap
                    THEN Append(broadcast, [n |-> calls + 1, topic |-> t])
                    ELSE broadcast
    /\ UNCHANGED <<register, unregister, clients, hub, client, panicked>>

-----------------------------------------------------------------------------
(* Channels of a client *)

HasRoom(c) == ~client[c].closed /\ Len(client[c].send) < SendCap

WithSent(k, msg) == [k EXCEPT !.send = Append(@, msg), !.offered = Append(@, msg)]

\* A plain send by a goroutine of c, which waits while the channel is full and
\* panics when it is closed.
SendOrPanic(c, msg) ==
    \/ /\ HasRoom(c)
       /\ client' = [client EXCEPT ![c] = [WithSent(@, msg) EXCEPT !.read = "reading"]]
       /\ UNCHANGED panicked
    \/ /\ client[c].closed
       /\ panicked' = c
       /\ UNCHANGED client

\* close(client.send) by the hub
PanicIfClosed(c) == panicked' = IF client[c].closed THEN "hub" ELSE panicked

-----------------------------------------------------------------------------
(* Run, the hub's goroutine *)

HubRegister ==
    /\ Running
    /\ hub = Idle
    /\ register # <<>>
    /\ clients' = clients \union {Head(register)}
    /\ register' = Tail(register)
    /\ UNCHANGED <<unregister, broadcast, hub, client, panicked, calls>>

\* Mutant: the map is not asked whether the client is still there.
HubUnregisterUnchecked ==
    LET c == Head(unregister)
    IN /\ Running
       /\ hub = Idle
       /\ unregister # <<>>
       /\ unregister' = Tail(unregister)
       /\ clients' = clients \ {c}
       /\ PanicIfClosed(c)
       /\ client' = [client EXCEPT ![c].closed = TRUE]
       /\ UNCHANGED <<register, broadcast, hub, calls>>

HubUnregister ==
    LET c == Head(unregister)
    IN /\ Running
       /\ hub = Idle
       /\ unregister # <<>>
       /\ unregister' = Tail(unregister)
       /\ \/ /\ c \in clients
             /\ clients' = clients \ {c}
             /\ PanicIfClosed(c)
             /\ client' = [client EXCEPT ![c].closed = TRUE]
          \/ /\ c \notin clients
             /\ client' = [client EXCEPT ![c].early = @ \/ c \in Range(register)]
             /\ UNCHANGED <<clients, panicked>>
       /\ UNCHANGED <<register, broadcast, hub, calls>>

HubBroadcast ==
    /\ Running
    /\ hub = Idle
    /\ broadcast # <<>>
    /\ hub' = IF clients = {} THEN Idle ELSE [msg |-> Head(broadcast), todo |-> clients]
    /\ broadcast' = Tail(broadcast)
    /\ UNCHANGED <<register, unregister, clients, client, panicked, calls>>

\* The loop is over when the last client was visited.
Visited(c) == IF hub.todo = {c} THEN Idle ELSE [hub EXCEPT !.todo = @ \ {c}]

\* Mutant: a slow client misses the message and stays connected.
FanOutSkipsSlow(c) ==
    /\ Running
    /\ c \in hub.todo
    /\ hub' = Visited(c)
    /\ client' = IF hub.msg.topic \notin client[c].subs THEN client
                 ELSE IF HasRoom(c) THEN [client EXCEPT ![c] = WithSent(@, hub.msg)]
                 ELSE [client EXCEPT ![c].offered = Append(@, hub.msg)]
    /\ UNCHANGED <<register, unregister, broadcast, clients, panicked, calls>>

\* One round of the loop over the map, whose order is any: a subscriber gets the
\* message if its channel has room, and is dropped otherwise.  A send on a closed
\* channel panics, in a select too.
FanOut(c) ==
    /\ Running
    /\ c \in hub.todo
    /\ hub' = Visited(c)
    /\ \/ /\ hub.msg.topic \notin client[c].subs
          /\ UNCHANGED <<clients, client, panicked>>
       \/ /\ hub.msg.topic \in client[c].subs
          /\ HasRoom(c)
          /\ client' = [client EXCEPT ![c] = WithSent(@, hub.msg)]
          /\ UNCHANGED <<clients, panicked>>
       \/ /\ hub.msg.topic \in client[c].subs
          /\ ~HasRoom(c)
          /\ PanicIfClosed(c)
          /\ clients' = clients \ {c}
          /\ client' = [client EXCEPT ![c].closed = TRUE, ![c].slow = TRUE,
                                      ![c].offered = Append(@, hub.msg)]
    /\ UNCHANGED <<register, unregister, broadcast, calls>>

-----------------------------------------------------------------------------
(* ServeWS *)

Upgrade(c) ==
    /\ Running
    /\ client[c].serve = "new"
    /\ client' = [client EXCEPT ![c].conn = "open", ![c].serve = "register"]
    /\ UNCHANGED <<hubVars, panicked, calls>>

ServeRegister(c) ==
    /\ Running
    /\ client[c].serve = "register"
    /\ Len(register) < RegisterCap
    /\ register' = Append(register, c)
    /\ client' = [client EXCEPT ![c].serve = IF OrdersTopic[c] = NoTopic THEN "start"
                                             ELSE "subscribe"]
    /\ UNCHANGED <<unregister, broadcast, clients, hub, panicked, calls>>

\* The orders of the client that the request names
ServeSubscribe(c) ==
    /\ Running
    /\ client[c].serve = "subscribe"
    /\ client' = [client EXCEPT ![c].subs = @ \union {OrdersTopic[c]},
                                ![c].serve = "welcome"]
    /\ UNCHANGED <<hubVars, panicked, calls>>

\* The reply, before writePump runs.  net/http recovers a handler's panic: the
\* handler ends, the connection stays as it is.
ServeWelcome(c) ==
    /\ Running
    /\ client[c].serve = "welcome"
    /\ \/ /\ HasRoom(c)
          /\ client' = [client EXCEPT ![c] =
                [WithSent(@, Reply(OrdersTopic[c])) EXCEPT !.serve = "start"]]
       \/ /\ client[c].closed
          /\ client' = [client EXCEPT ![c].serve = "panicked"]
    /\ UNCHANGED <<hubVars, panicked, calls>>

ServeStart(c) ==
    /\ Running
    /\ client[c].serve = "start"
    /\ client' = [client EXCEPT ![c].serve = "done", ![c].read = "reading",
                                ![c].write = "running"]
    /\ UNCHANGED <<hubVars, panicked, calls>>

-----------------------------------------------------------------------------
(* readPump *)

\* A message of the peer: subscribe or unsubscribe, or ping and what cannot be
\* parsed, which change no topic; all but unsubscribe are answered.
ReadMessage(c) ==
    /\ Running
    /\ client[c].read = "reading" /\ client[c].conn = "open"
    /\ client[c].reads < MaxReads[c]
    /\ \/ \E t \in Topics : client' =
             [client EXCEPT ![c].reads = @ + 1, ![c].subs = @ \union {t}, ![c].read = "reply"]
       \/ \E t \in Topics : client' =
             [client EXCEPT ![c].reads = @ + 1, ![c].subs = @ \ {t}]
       \/ client' = [client EXCEPT ![c].reads = @ + 1, ![c].read = "reply"]
    /\ UNCHANGED <<hubVars, panicked, calls>>

ReadReply(c) ==
    /\ Running
    /\ client[c].read = "reply"
    /\ SendOrPanic(c, Reply(NoTopic))
    /\ UNCHANGED <<hubVars, calls>>

\* The connection is closed or broke, the peer left or was silent for too long.
ReadError(c) ==
    /\ Running
    /\ client[c].read = "reading"
    /\ client' = [client EXCEPT ![c].read = "unregister"]
    /\ UNCHANGED <<hubVars, panicked, calls>>

\* Mutant: the pump ends without a word to the hub.
ReadUnregisterSkipped(c) ==
    /\ Running
    /\ client[c].read = "unregister"
    /\ client' = [client EXCEPT ![c].read = "close"]
    /\ UNCHANGED <<hubVars, panicked, calls>>

ReadUnregister(c) ==
    /\ Running
    /\ client[c].read = "unregister"
    /\ Len(unregister) < RegisterCap
    /\ unregister' = Append(unregister, c)
    /\ client' = [client EXCEPT ![c].read = "close"]
    /\ UNCHANGED <<register, broadcast, clients, hub, panicked, calls>>

ReadClose(c) ==
    /\ Running
    /\ client[c].read = "close"
    /\ client' = [client EXCEPT ![c].conn = "closed", ![c].read = "done"]
    /\ UNCHANGED <<hubVars, panicked, calls>>

-----------------------------------------------------------------------------
(* writePump *)

WriteNext(c) ==
    /\ Running
    /\ client[c].write = "running" /\ client[c].conn = "open"
    /\ client[c].send # <<>>
    /\ client' = [client EXCEPT ![c].got = Append(@, Head(client[c].send)),
                                ![c].send = Tail(@)]
    /\ UNCHANGED <<hubVars, panicked, calls>>

\* A write fails, of a message it took or of a keepalive ping.
WriteFails(c) ==
    /\ Running
    /\ client[c].write = "running"
    /\ \E rest \in {client[c].send} \union
                   (IF client[c].send = <<>> THEN {} ELSE {Tail(client[c].send)}) :
         client' = [client EXCEPT ![c].send = rest, ![c].write = "done",
                                  ![c].conn = "closed"]
    /\ UNCHANGED <<hubVars, panicked, calls>>

\* The channel is closed and empty: the close frame, whether or not it arrives.
WriteClosed(c) ==
    /\ Running
    /\ client[c].write = "running"
    /\ client[c].closed /\ client[c].send = <<>>
    /\ client' = [client EXCEPT ![c].write = "done", ![c].conn = "closed"]
    /\ UNCHANGED <<hubVars, panicked, calls>>

-----------------------------------------------------------------------------
Run == HubRegister \/ HubUnregister \/ HubBroadcast \/ \E c \in Conns : FanOut(c)

ServeWS(c) ==
    \/ Upgrade(c) \/ ServeRegister(c) \/ ServeSubscribe(c) \/ ServeWelcome(c)
    \/ ServeStart(c)

readPump(c) ==
    ReadMessage(c) \/ ReadReply(c) \/ ReadError(c) \/ ReadUnregister(c) \/ ReadClose(c)

writePump(c) == WriteNext(c) \/ WriteFails(c) \/ WriteClosed(c)

Next ==
    \/ \E t \in Topics : Broadcast(t)
    \/ Run
    \/ \E c \in Conns : ServeWS(c) \/ readPump(c) \/ writePump(c)

Spec == Init /\ [][Next]_vars

\* Goroutines that can go on do so; select takes a channel that is ready again and
\* again; a read or a write on a closed connection returns.  Nothing makes a peer
\* send, a client come, or an open connection fail.
Fairness ==
    /\ SF_vars(HubRegister) /\ SF_vars(HubUnregister) /\ SF_vars(HubBroadcast)
    /\ \A c \in Conns :
         /\ WF_vars(FanOut(c))
         /\ WF_vars(client[c].serve # "new" /\ ServeWS(c))
         /\ WF_vars(ReadReply(c) \/ ReadUnregister(c) \/ ReadClose(c))
         /\ WF_vars(client[c].conn = "closed" /\ ReadError(c))
         /\ WF_vars(WriteNext(c) \/ WriteClosed(c))
         /\ WF_vars(client[c].conn = "closed" /\ WriteFails(c))

FairSpec == Spec /\ Fairness
-----------------------------------------------------------------------------
(* Properties *)

Client ==
    [conn : {"none", "open", "closed"}, send : Seq(Message), closed : BOOLEAN,
     subs : SUBSET Topics,
     serve : {"new", "register", "subscribe", "welcome", "start", "done", "panicked"},
     read : {"none", "reading", "reply", "unregister", "close", "done"},
     write : {"none", "running", "done"},
     reads : Nat, got : Seq(Message), offered : Seq(Message), slow : BOOLEAN,
     early : BOOLEAN]

\* Every variable keeps its type and no channel holds more than its capacity.
TypeOK ==
    /\ register \in Seq(Conns) /\ Len(register) <= RegisterCap
    /\ unregister \in Seq(Conns) /\ Len(unregister) <= RegisterCap
    /\ broadcast \in Seq(Message) /\ Len(broadcast) <= BroadcastCap
    /\ clients \subseteq Conns
    /\ hub \in [msg : Message, todo : SUBSET Conns]
    /\ client \in [Conns -> Client]
    /\ \A c \in Conns : Len(client[c].send) <= SendCap
    /\ panicked \in {"nobody", "hub"} \union Conns
    /\ calls \in 0 .. MaxCalls

\* The hub itself never panics: it closes every channel at most once and never
\* sends on a closed one, although a client it drops as slow still unregisters and
\* may do so before its registration is taken.  Only the handler or the read pump of
\* a client that was dropped as slow can meet a closed channel (Run, ServeWS,
\* readPump).
PanicsOnlyIfSlow ==
    /\ panicked # "nobody" => panicked \in Conns /\ client[panicked].slow
    /\ \A c \in Conns : client[c].serve = "panicked" => client[c].slow

\* Of the messages the hub took (Broadcast drops one when h.broadcast is full) a client
\* sees its own in the order of the Broadcast calls, none twice, and without a gap:
\* what was written to it and what waits in its channel is all that was meant for it,
\* except, for a client dropped as slow, the one message that had no room; after a
\* failed write nothing more is written (Run, writePump).
NoGaps ==
    \A c \in Conns :
        LET k == client[c]
        IN /\ \A i, j \in DOMAIN k.offered :
                i < j /\ k.offered[j].n > 0 => k.offered[i].n < k.offered[j].n
           /\ IF k.write = "done" THEN IsPrefix(k.got, k.offered)
              ELSE k.got \o k.send = IF k.slow THEN Front(k.offered) ELSE k.offered

\* The read pump, or ServeWS, waits on a full channel that nobody drains.
Stuck(c) ==
    /\ client[c].read = "reply" \/ client[c].serve = "welcome"
    /\ Len(client[c].send) = SendCap
    /\ client[c].write # "running"

\* A client whose connection has ended leaves h.clients for good, whatever was in
\* its channel and however the pumps and the hub interleave, unless its read pump
\* waits on a full channel that the write pump has left, or the hub took its
\* unregister before its register (Run's select over two channels), after which
\* only a message too many removes it (readPump, Run).
GoneIsForgotten ==
    \A c \in Conns :
        client[c].conn = "closed"
            ~> [](~Running \/ c \notin clients \/ client[c].early \/ Stuck(c))
=============================================================================
