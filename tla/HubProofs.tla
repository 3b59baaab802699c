----------------------------- MODULE HubProofs -----------------------------
(***************************************************************************)
(* Proofs about Hub, for any number of connections, topics and messages    *)
(* and every capacity: types, the hub never panics and only a client that  *)
(* was dropped as slow can, and no client misses a message.                *)
(***************************************************************************)
EXTENDS Hub, DataLemmas

USE TopicsAssumption, CapsAssumption

\* Where c is on its way into h.clients and out again, and who closed its channel.
Lifecycle(c) ==
    /\ client[c].serve \in {"new", "register"}
          => c \notin clients /\ ~client[c].closed /\ ~In(register, c)
    /\ client[c].serve = "subscribe" => OrdersTopic[c] # NoTopic
    /\ client[c].serve # "done" => client[c].read = "none" /\ client[c].write = "none"
    /\ In(register, c) \/ c \in clients => ~client[c].closed
    /\ ~(In(register, c) /\ c \in clients)
    /\ In(unregister, c) => client[c].read \in {"close", "done"}
    /\ client[c].slow => client[c].closed
    /\ client[c].closed => client[c].slow \/ client[c].read \in {"close", "done"}

HubFacts ==
    /\ Once(register)
    /\ hub.todo \subseteq clients
    /\ PanicsOnlyIfSlow

Safe == TypeOK /\ HubFacts /\ \A c \in Conns : Lifecycle(c)

-----------------------------------------------------------------------------
\* In the beginning nobody is connected.
LEMMA InitSafe == Init => Safe
  BY DEF Init, Safe, TypeOK, HubFacts, PanicsOnlyIfSlow, Lifecycle, NewClient, Client, Idle,
         Reply, Message, Once, In

USE DEF hubVars

\* Every message is well formed, a reply too.
LEMMA Replies == \A t \in Topics \union {NoTopic} : Reply(t) \in Message
  BY DEF Reply, Message

\* A new state of one client.
LEMMA OneClient ==
    ASSUME NEW c \in Conns, NEW k, client \in [Conns -> Client],
           client' = [client EXCEPT ![c] = k]
    PROVE  /\ client'[c] = k
           /\ \A d \in Conns \ {c} : client'[d] = client[d]
           /\ k \in Client => client' \in [Conns -> Client]
  OBVIOUS

\* A message is added to the channel of a client that has room for it.
LEMMA Sent ==
    ASSUME NEW k \in Client, NEW msg \in Message
    PROVE  /\ WithSent(k, msg) \in Client
           /\ WithSent(k, msg).send = Append(k.send, msg)
           /\ WithSent(k, msg).offered = Append(k.offered, msg)
           /\ Len(WithSent(k, msg).send) = Len(k.send) + 1
  <1>1. k.send \in Seq(Message) /\ k.offered \in Seq(Message)
    BY DEF Client
  <1>2. /\ Append(k.send, msg) \in Seq(Message) /\ Append(k.offered, msg) \in Seq(Message)
        /\ Len(Append(k.send, msg)) = Len(k.send) + 1
    BY <1>1, AppendProperties
  <1>3. QED BY <1>2 DEF WithSent, Client

ClientsOK ==
    /\ client \in [Conns -> Client]
    /\ \A c \in Conns : Len(client[c].send) <= SendCap

\* The hub keeps the clients' types.
LEMMA FanOutClients ==
    ASSUME ClientsOK, hub.msg \in Message, NEW c \in Conns, FanOut(c)
    PROVE  ClientsOK'
  <1>1. client[c] \in Client /\ Len(client[c].send) <= SendCap
    BY DEF ClientsOK
  <1>2. CASE client' = client
    BY <1>2 DEF ClientsOK
  <1>3. CASE HasRoom(c) /\ client' = [client EXCEPT ![c] = WithSent(@, hub.msg)]
    <2>1. Len(client[c].send) \in Nat /\ Len(client[c].send) < SendCap
      BY <1>1, <1>3 DEF HasRoom, Client
    <2>2. /\ WithSent(client[c], hub.msg) \in Client
          /\ Len(WithSent(client[c], hub.msg).send) <= SendCap
      BY <1>1, <2>1, Sent
    <2>3. QED BY <1>3, <2>2 DEF ClientsOK
  <1>4. CASE client' = [client EXCEPT ![c].closed = TRUE, ![c].slow = TRUE,
                                      ![c].offered = Append(@, hub.msg)]
    <2> DEFINE k == [client[c] EXCEPT !.closed = TRUE, !.slow = TRUE,
                                      !.offered = Append(@, hub.msg)]
    <2>1. client' = [client EXCEPT ![c] = k]
      BY <1>1, <1>4 DEF ClientsOK, Client
    <2>2. Append(client[c].offered, hub.msg) \in Seq(Message)
      BY <1>1 DEF Client
    <2>3. k \in Client /\ k.send = client[c].send
      BY <1>1, <2>2 DEF Client
    <2>4. QED BY <1>1, <2>1, <2>3 DEF ClientsOK
  <1>5. QED BY <1>2, <1>3, <1>4 DEF FanOut

\* The other steps that change a client: of the hub, of ServeWS and of the pumps.
LEMMA UnregisterClients ==
    ASSUME ClientsOK, unregister \in Seq(Conns), HubUnregister
    PROVE  ClientsOK'
  <1>1. PICK c \in Conns : \/ client' = [client EXCEPT ![c].closed = TRUE]
                           \/ client' = [client EXCEPT ![c].early = @ \/ c \in Range(register)]
    BY Received DEF HubUnregister
  <1>2. client[c] \in Client /\ Len(client[c].send) <= SendCap
    BY DEF ClientsOK
  <1>3. PICK k : /\ client' = [client EXCEPT ![c] = k]
                 /\ k \in Client /\ k.send = client[c].send
    <2>1. CASE client' = [client EXCEPT ![c].closed = TRUE]
      <3> WITNESS [client[c] EXCEPT !.closed = TRUE]
      <3> QED BY <1>2, <2>1 DEF ClientsOK, Client
    <2>2. CASE client' = [client EXCEPT ![c].early = @ \/ c \in Range(register)]
      <3>1. (client[c].early \/ c \in Range(register)) \in BOOLEAN
        BY Zenon
      <3>2. WITNESS [client[c] EXCEPT !.early = @ \/ c \in Range(register)]
      <3>3. QED BY <1>2, <2>2, <3>1 DEF ClientsOK, Client
    <2>3. QED BY <1>1, <2>1, <2>2
  <1>4. QED BY <1>2, <1>3 DEF ClientsOK

LEMMA ServeClients ==
    ASSUME ClientsOK, NEW c \in Conns, ServeWS(c),
           client[c].serve = "subscribe" => OrdersTopic[c] # NoTopic
    PROVE  ClientsOK'
  <1>1. client[c] \in Client /\ Len(client[c].send) <= SendCap
    BY DEF ClientsOK
  <1>2. PICK k : /\ client' = [client EXCEPT ![c] = k]
                 /\ k \in Client /\ Len(k.send) <= SendCap
    <2>1. CASE Upgrade(c)
      <3> WITNESS [client[c] EXCEPT !.conn = "open", !.serve = "register"]
      <3> QED BY <1>1, <2>1 DEF Upgrade, ClientsOK, Client
    <2>2. CASE ServeRegister(c)
      <3> WITNESS [client[c] EXCEPT !.serve = IF OrdersTopic[c] = NoTopic THEN "start"
                                              ELSE "subscribe"]
      <3> QED BY <1>1, <2>2 DEF ServeRegister, ClientsOK, Client
    <2>3. CASE ServeSubscribe(c)
      <3>1. OrdersTopic[c] \in Topics
        BY <2>3 DEF ServeSubscribe
      <3> WITNESS [client[c] EXCEPT !.subs = @ \union {OrdersTopic[c]}, !.serve = "welcome"]
      <3> QED BY <1>1, <2>3 DEF ServeSubscribe, ClientsOK, Client
    <2>4. CASE ServeWelcome(c)
      <3>1. CASE HasRoom(c) /\ client' = [client EXCEPT ![c] =
                      [WithSent(@, Reply(OrdersTopic[c])) EXCEPT !.serve = "start"]]
        <4> DEFINE k == WithSent(client[c], Reply(OrdersTopic[c]))
        <4>1. k \in Client /\ Len(k.send) = Len(client[c].send) + 1
          BY <1>1, Sent, Replies
        <4>2. Len(client[c].send) \in Nat /\ Len(client[c].send) < SendCap
          BY <1>1, <3>1 DEF HasRoom, Client
        <4> HIDE DEF k
        <4>3. client' = [client EXCEPT ![c] = [k EXCEPT !.serve = "start"]]
          BY <3>1 DEF k, ClientsOK
        <4>4. Len(k.send) <= SendCap
          BY <4>1, <4>2
        <4>5. [k EXCEPT !.serve = "start"] \in Client /\ [k EXCEPT !.serve = "start"].send = k.send
          BY <4>1 DEF Client
        <4> QED BY <4>3, <4>4, <4>5
      <3>2. CASE client' = [client EXCEPT ![c].serve = "panicked"]
        <4> WITNESS [client[c] EXCEPT !.serve = "panicked"]
        <4> QED BY <1>1, <3>2 DEF ClientsOK, Client
      <3>3. QED BY <2>4, <3>1, <3>2 DEF ServeWelcome
    <2>5. CASE ServeStart(c)
      <3> WITNESS [client[c] EXCEPT !.serve = "done", !.read = "reading", !.write = "running"]
      <3> QED BY <1>1, <2>5 DEF ServeStart, ClientsOK, Client
    <2>6. QED BY <2>1, <2>2, <2>3, <2>4, <2>5 DEF ServeWS
  <1>3. QED BY <1>2 DEF ClientsOK

LEMMA ReadClients ==
    ASSUME ClientsOK, NEW c \in Conns, readPump(c)
    PROVE  ClientsOK'
  <1>1. client[c] \in Client /\ Len(client[c].send) <= SendCap
    BY DEF ClientsOK
  <1>2. CASE client' = client
    BY <1>2 DEF ClientsOK
  <1>3. ASSUME client' # client
        PROVE  \E k : /\ client' = [client EXCEPT ![c] = k]
                      /\ k \in Client /\ Len(k.send) <= SendCap
    <2>1. CASE ReadMessage(c)
      <3>0. client[c].reads + 1 \in Nat /\ client[c].subs \in SUBSET Topics
        BY <1>1 DEF Client
      <3>1. CASE \E t \in Topics : client' =
             [client EXCEPT ![c].reads = @ + 1, ![c].subs = @ \union {t}, ![c].read = "reply"]
        <4>1. PICK t \in Topics : client' =
             [client EXCEPT ![c].reads = @ + 1, ![c].subs = @ \union {t}, ![c].read = "reply"]
          BY <3>1
        <4>2. client[c].subs \union {t} \in SUBSET Topics
          BY <3>0
        <4> WITNESS [client[c] EXCEPT !.reads = @ + 1, !.subs = @ \union {t}, !.read = "reply"]
        <4> QED BY <1>1, <3>0, <4>1, <4>2 DEF ClientsOK, Client
      <3>2. CASE \E t \in Topics : client' =
             [client EXCEPT ![c].reads = @ + 1, ![c].subs = @ \ {t}]
        <4>1. PICK t \in Topics : client' =
             [client EXCEPT ![c].reads = @ + 1, ![c].subs = @ \ {t}]
          BY <3>2
        <4>2. client[c].subs \ {t} \in SUBSET Topics
          BY <3>0
        <4> WITNESS [client[c] EXCEPT !.reads = @ + 1, !.subs = @ \ {t}]
        <4> QED BY <1>1, <3>0, <4>1, <4>2 DEF ClientsOK, Client
      <3>3. CASE client' = [client EXCEPT ![c].reads = @ + 1, ![c].read = "reply"]
        <4> WITNESS [client[c] EXCEPT !.reads = @ + 1, !.read = "reply"]
        <4> QED BY <1>1, <3>0, <3>3 DEF ClientsOK, Client
      <3>4. QED BY <2>1, <3>1, <3>2, <3>3 DEF ReadMessage
    <2>2. CASE ReadReply(c)
      <3> DEFINE k == WithSent(client[c], Reply(NoTopic))
      <3>1. /\ HasRoom(c)
            /\ client' = [client EXCEPT ![c] = [k EXCEPT !.read = "reading"]]
        BY <1>3, <2>2 DEF ReadReply, SendOrPanic, ClientsOK
      <3>2. k \in Client /\ Len(k.send) = Len(client[c].send) + 1
        BY <1>1, Sent, Replies
      <3>3. Len(client[c].send) \in Nat /\ Len(client[c].send) < SendCap
        BY <1>1, <3>1 DEF HasRoom, Client
      <3> HIDE DEF k
      <3>4. Len(k.send) <= SendCap
        BY <3>2, <3>3
      <3>5. /\ [k EXCEPT !.read = "reading"] \in Client
            /\ [k EXCEPT !.read = "reading"].send = k.send
        BY <3>2 DEF Client
      <3>6. QED BY <3>1, <3>4, <3>5
    <2>3. CASE ReadError(c)
      <3> WITNESS [client[c] EXCEPT !.read = "unregister"]
      <3> QED BY <1>1, <2>3 DEF ReadError, ClientsOK, Client
    <2>4. CASE ReadUnregister(c)
      <3> WITNESS [client[c] EXCEPT !.read = "close"]
      <3> QED BY <1>1, <2>4 DEF ReadUnregister, ClientsOK, Client
    <2>5. CASE ReadClose(c)
      <3> WITNESS [client[c] EXCEPT !.conn = "closed", !.read = "done"]
      <3> QED BY <1>1, <2>5 DEF ReadClose, ClientsOK, Client
    <2>6. QED BY <2>1, <2>2, <2>3, <2>4, <2>5 DEF readPump
  <1>4. QED BY <1>2, <1>3 DEF ClientsOK

LEMMA WriteClients ==
    ASSUME ClientsOK, NEW c \in Conns, writePump(c)
    PROVE  ClientsOK'
  <1>1. /\ client[c] \in Client /\ Len(client[c].send) <= SendCap
        /\ client[c].send \in Seq(Message) /\ client[c].got \in Seq(Message)
    BY DEF ClientsOK, Client
  <1>2. client[c].send # <<>> =>
            /\ Head(client[c].send) \in Message /\ Tail(client[c].send) \in Seq(Message)
            /\ Len(Tail(client[c].send)) <= SendCap
    BY <1>1, Received
  <1>3. PICK k : /\ client' = [client EXCEPT ![c] = k]
                 /\ k \in Client /\ Len(k.send) <= SendCap
    <2>1. CASE WriteNext(c)
      <3>1. Append(client[c].got, Head(client[c].send)) \in Seq(Message)
        BY <1>1, <1>2, <2>1 DEF WriteNext
      <3> WITNESS [client[c] EXCEPT !.got = Append(@, Head(client[c].send)), !.send = Tail(@)]
      <3> QED BY <1>1, <1>2, <2>1, <3>1 DEF WriteNext, ClientsOK, Client
    <2>2. CASE WriteFails(c)
      <3>1. PICK rest : /\ rest = client[c].send \/
                             (client[c].send # <<>> /\ rest = Tail(client[c].send))
                        /\ client' = [client EXCEPT ![c].send = rest, ![c].write = "done",
                                                    ![c].conn = "closed"]
        BY <2>2 DEF WriteFails
      <3>2. rest \in Seq(Message) /\ Len(rest) <= SendCap
        BY <1>1, <1>2, <3>1
      <3> WITNESS [client[c] EXCEPT !.send = rest, !.write = "done", !.conn = "closed"]
      <3> QED BY <1>1, <3>1, <3>2 DEF ClientsOK, Client
    <2>3. CASE WriteClosed(c)
      <3> WITNESS [client[c] EXCEPT !.write = "done", !.conn = "closed"]
      <3> QED BY <1>1, <2>3 DEF WriteClosed, ClientsOK, Client
    <2>4. QED BY <2>1, <2>2, <2>3 DEF writePump
  <1>4. QED BY <1>3 DEF ClientsOK

\* Every step keeps the types.
LEMMA TypeStep ==
    ASSUME Safe, [Next]_vars
    PROVE  TypeOK'
  <1>0. /\ TypeOK /\ ClientsOK
        /\ \A c \in hub.todo : c \in Conns /\ ~client[c].closed
        /\ \A c \in clients : ~client[c].closed
        /\ \A c \in Conns : client[c].serve = "subscribe" => OrdersTopic[c] # NoTopic
    BY DEF Safe, HubFacts, Lifecycle, TypeOK, ClientsOK
  <1>1. ASSUME NEW t \in Topics, Broadcast(t) PROVE TypeOK'
    <2>1. [n |-> calls + 1, topic |-> t] \in Message /\ calls + 1 \in 0 .. MaxCalls
      BY <1>0, <1>1 DEF Broadcast, Message, TypeOK
    <2>2. QED BY <1>0, <1>1, <2>1, Added DEF Broadcast, TypeOK
  <1>2. CASE HubRegister
    BY <1>0, <1>2, Received DEF HubRegister, TypeOK
  <1>3. CASE HubUnregister
    <2>1. ClientsOK'
      BY <1>0, <1>3, UnregisterClients DEF TypeOK
    <2>2. Tail(unregister) \in Seq(Conns) /\ Len(Tail(unregister)) <= RegisterCap
      BY <1>0, <1>3, Received DEF HubUnregister, TypeOK
    <2>3. /\ unregister' = Tail(unregister) /\ clients' \subseteq clients
          /\ UNCHANGED <<register, broadcast, hub, calls>>
          /\ panicked' \in {"hub", panicked}
      BY <1>3 DEF HubUnregister, PanicIfClosed
    <2>4. QED BY <1>0, <2>1, <2>2, <2>3 DEF TypeOK, ClientsOK
  <1>4. CASE HubBroadcast
    <2>1. Head(broadcast) \in Message /\ Tail(broadcast) \in Seq(Message)
          /\ Len(Tail(broadcast)) <= BroadcastCap
      BY <1>0, <1>4, Received DEF HubBroadcast, TypeOK
    <2>2. Idle.msg \in Message /\ Idle = [msg |-> Idle.msg, todo |-> {}]
      BY Replies DEF Idle
    <2>3. QED BY <1>0, <1>4, <2>1, <2>2 DEF HubBroadcast, TypeOK
  <1>5. ASSUME NEW c \in Conns, FanOut(c) PROVE TypeOK'
    <2>1. ClientsOK'
      BY <1>0, <1>5, FanOutClients DEF TypeOK
    <2>2. Idle \in [msg : Message, todo : SUBSET Conns]
      BY Replies DEF Idle
    <2>3. QED BY <1>0, <1>5, <2>1, <2>2 DEF FanOut, Visited, PanicIfClosed, TypeOK, ClientsOK
  <1>6. ASSUME NEW c \in Conns, ServeWS(c) PROVE TypeOK'
    <2>1. ClientsOK'
      BY <1>0, <1>6, ServeClients DEF TypeOK
    <2>2. /\ UNCHANGED <<unregister, broadcast, clients, hub, panicked, calls>>
          /\ \/ register' = register
             \/ Len(register) < RegisterCap /\ register' = Append(register, c)
      BY <1>6 DEF ServeWS, Upgrade, ServeRegister, ServeSubscribe, ServeWelcome, ServeStart
    <2>3. register' \in Seq(Conns) /\ Len(register') <= RegisterCap
      <3>1. register \in Seq(Conns) /\ Len(register) \in Nat /\ Len(register) <= RegisterCap
        BY <1>0, LenProperties DEF TypeOK
      <3>2. Append(register, c) \in Seq(Conns) /\ Len(Append(register, c)) = Len(register) + 1
        BY <3>1, AppendProperties
      <3>3. CASE register' = register
        BY <3>1, <3>3
      <3>4. CASE Len(register) < RegisterCap /\ register' = Append(register, c)
        <4>1. Len(register) + 1 <= RegisterCap
          BY <3>1, <3>4, CapsAssumption
        <4>2. QED BY <3>2, <3>4, <4>1
      <3>5. QED BY <2>2, <3>3, <3>4
    <2>4. QED BY <1>0, <2>1, <2>2, <2>3 DEF TypeOK, ClientsOK
  <1>7. ASSUME NEW c \in Conns, readPump(c) PROVE TypeOK'
    <2>1. ClientsOK'
      BY <1>0, <1>7, ReadClients DEF TypeOK
    <2>2. /\ UNCHANGED <<register, broadcast, clients, hub, calls>>
          /\ panicked' \in {panicked, c}
      BY <1>7 DEF readPump, ReadMessage, ReadReply, ReadError, ReadUnregister, ReadClose,
                  SendOrPanic
    <2>3. \/ unregister' = unregister
          \/ Len(unregister) < RegisterCap /\ unregister' = Append(unregister, c)
      BY <1>7 DEF readPump, ReadMessage, ReadReply, ReadError, ReadUnregister, ReadClose,
                  SendOrPanic
    <2>4. unregister' \in Seq(Conns) /\ Len(unregister') <= RegisterCap
      <3>1. unregister \in Seq(Conns) /\ Len(unregister) \in Nat /\ Len(unregister) <= RegisterCap
        BY <1>0, LenProperties DEF TypeOK
      <3>2. Append(unregister, c) \in Seq(Conns) /\ Len(Append(unregister, c)) = Len(unregister) + 1
        BY <3>1, AppendProperties
      <3>3. CASE unregister' = unregister
        BY <3>1, <3>3
      <3>4. CASE Len(unregister) < RegisterCap /\ unregister' = Append(unregister, c)
        <4>1. Len(unregister) + 1 <= RegisterCap
          BY <3>1, <3>4, CapsAssumption
        <4>2. QED BY <3>2, <3>4, <4>1
      <3>5. QED BY <2>3, <3>3, <3>4
    <2>5. QED BY <1>0, <2>1, <2>2, <2>4 DEF TypeOK, ClientsOK
  <1>8. ASSUME NEW c \in Conns, writePump(c) PROVE TypeOK'
    <2>1. ClientsOK'
      BY <1>0, <1>8, WriteClients DEF TypeOK
    <2>2. QED BY <1>0, <1>8, <2>1 DEF writePump, WriteNext, WriteFails, WriteClosed, TypeOK,
                 ClientsOK
  <1>9. CASE UNCHANGED vars
    BY <1>0, <1>9 DEF vars, TypeOK
  <1>10. QED
    BY <1>1, <1>2, <1>3, <1>4, <1>5, <1>6, <1>7, <1>8, <1>9 DEF Next, Run

\* The hub's steps keep every client on its way.
LEMMA RunSafe ==
    ASSUME Safe, Run
    PROVE  HubFacts' /\ \A d \in Conns : Lifecycle(d)'
  <1> USE DEF PanicsOnlyIfSlow
  <1>0. /\ register \in Seq(Conns) /\ unregister \in Seq(Conns) /\ clients \subseteq Conns
        /\ client \in [Conns -> Client] /\ panicked = "nobody"
        /\ HubFacts /\ \A d \in Conns : Lifecycle(d)
    BY DEF Safe, TypeOK, Run, HubRegister, HubUnregister, HubBroadcast, FanOut, Running
  <1>1. CASE HubRegister
    <2>1. /\ Head(register) \in Conns /\ In(register, Head(register))
          /\ Once(Tail(register)) /\ ~In(Tail(register), Head(register))
          /\ \A x : In(Tail(register), x) => In(register, x)
      BY <1>0, <1>1, Received DEF HubRegister, HubFacts
    <2>2. QED BY <1>0, <1>1, <2>1 DEF HubRegister, HubFacts, Lifecycle
  <1>2. CASE HubUnregister
    <2> DEFINE c == Head(unregister)
    <2>1. /\ c \in Conns /\ In(unregister, c)
          /\ \A x : In(Tail(unregister), x) => In(unregister, x)
      BY <1>0, <1>2, Received DEF HubUnregister
    <2>2. /\ UNCHANGED <<register, hub>> /\ unregister' = Tail(unregister)
          /\ clients' = clients \ {c}
          /\ hub.todo = {} /\ panicked' = "nobody"
          /\ \A d \in Conns \ {c} : client'[d] = client[d]
      BY <1>0, <1>2, <2>1 DEF HubUnregister, PanicIfClosed, Idle, Lifecycle
    <2>3. /\ client'[c].serve = client[c].serve /\ client'[c].read = client[c].read
          /\ client'[c].write = client[c].write /\ client'[c].slow = client[c].slow
          /\ c \notin clients => client'[c].closed = client[c].closed
      <3>1. CASE c \in clients /\ client' = [client EXCEPT ![c].closed = TRUE]
        BY <1>0, <2>1, <3>1, ZenonT(40) DEF Client
      <3>2. CASE /\ c \notin clients
                 /\ client' = [client EXCEPT ![c].early = @ \/ c \in Range(register)]
        <4> DEFINE b == client[c].early \/ c \in Range(register)
        <4>1. client' = [client EXCEPT ![c].early = b]
          BY <3>2, Zenon
        <4> HIDE DEF b
        <4>2. QED BY <1>0, <2>1, <4>1, <3>2 DEF Client
      <3>3. QED BY <1>2, <3>1, <3>2 DEF HubUnregister
    <2>4. HubFacts'
      BY <1>0, <2>1, <2>2, <2>3 DEF HubFacts
    <2>5. ASSUME NEW d \in Conns PROVE Lifecycle(d)'
      <3>1. Lifecycle(d) /\ Lifecycle(c)
        BY <1>0, <2>1
      <3>2. CASE d # c
        BY <2>1, <2>2, <3>1, <3>2 DEF Lifecycle
      <3>3. CASE d = c
        BY <2>1, <2>2, <2>3, <3>1, <3>3 DEF Lifecycle
      <3>4. QED BY <3>2, <3>3
    <2>6. QED BY <2>4, <2>5
  <1>3. CASE HubBroadcast
    BY <1>0, <1>3 DEF HubBroadcast, Idle, HubFacts, Lifecycle
  <1>4. ASSUME NEW c \in Conns, FanOut(c) PROVE HubFacts' /\ \A d \in Conns : Lifecycle(d)'
    <2>1. c \in clients /\ ~client[c].closed /\ hub.todo \subseteq clients
      BY <1>0, <1>4 DEF FanOut, HubFacts, Lifecycle
    <2>2. hub'.todo \subseteq hub.todo /\ c \notin hub'.todo
      BY <1>4 DEF FanOut, Visited, Idle
    <2>3. /\ UNCHANGED <<register, unregister>> /\ panicked' = "nobody"
          /\ \A d \in Conns \ {c} : client'[d] = client[d]
      BY <1>0, <1>4, <2>1 DEF FanOut, PanicIfClosed
    <2>4. /\ client'[c].serve = client[c].serve /\ client'[c].read = client[c].read
          /\ client'[c].write = client[c].write
          /\ \/ /\ clients' = clients /\ client'[c].slow = client[c].slow
                /\ client'[c].closed = client[c].closed
             \/ /\ clients' = clients \ {c} /\ client'[c].slow /\ client'[c].closed
      <3>1. client[c] \in Client
        BY <1>0
      <3>2. CASE clients' = clients /\ client' = client
        BY <3>2
      <3>3. CASE clients' = clients /\ client' = [client EXCEPT ![c] = WithSent(@, hub.msg)]
        <4>1. client'[c] = WithSent(client[c], hub.msg)
          BY <1>0, <3>3
        <4>2. QED BY <3>1, <3>3, <4>1 DEF WithSent, Client
      <3>4. CASE /\ clients' = clients \ {c}
                 /\ client' = [client EXCEPT ![c].closed = TRUE, ![c].slow = TRUE,
                                             ![c].offered = Append(@, hub.msg)]
        <4>1. client'[c] = [client[c] EXCEPT !.closed = TRUE, !.slow = TRUE,
                                             !.offered = Append(@, hub.msg)]
          BY <1>0, <3>1, <3>4 DEF Client
        <4>2. client'[c].closed = TRUE /\ client'[c].slow = TRUE
          BY <3>1, <4>1 DEF Client
        <4>3. /\ client'[c].serve = client[c].serve /\ client'[c].read = client[c].read
              /\ client'[c].write = client[c].write
          BY <3>1, <4>1 DEF Client
        <4>4. QED BY <3>4, <4>2, <4>3
      <3>5. QED BY <1>4, <3>2, <3>3, <3>4 DEF FanOut
    <2>5. HubFacts'
      BY <1>0, <2>1, <2>2, <2>3, <2>4 DEF HubFacts
    <2>6. ASSUME NEW d \in Conns PROVE Lifecycle(d)'
      <3>1. Lifecycle(d) /\ Lifecycle(c)
        BY <1>0
      <3>2. CASE d # c
        BY <2>1, <2>3, <2>4, <3>1, <3>2 DEF Lifecycle
      <3>3. CASE d = c
        BY <2>1, <2>3, <2>4, <3>1, <3>3 DEF Lifecycle
      <3>4. QED BY <3>2, <3>3
    <2>7. QED BY <2>5, <2>6
  <1>5. QED BY <1>1, <1>2, <1>3, <1>4 DEF Run

\* So do those of a connection's three goroutines, which never close its channel.
LEMMA ServeSafe ==
    ASSUME Safe, NEW c \in Conns, ServeWS(c)
    PROVE  HubFacts' /\ \A d \in Conns : Lifecycle(d)'
  <1> USE DEF PanicsOnlyIfSlow
  <1>0. /\ register \in Seq(Conns) /\ client \in [Conns -> Client] /\ panicked = "nobody"
        /\ HubFacts /\ \A d \in Conns : Lifecycle(d)
    BY DEF Safe, TypeOK, ServeWS, Upgrade, ServeRegister, ServeSubscribe, ServeWelcome,
           ServeStart, Running
  <1>1. /\ UNCHANGED <<unregister, clients, hub, panicked>>
        /\ \A d \in Conns \ {c} : client'[d] = client[d]
    BY <1>0 DEF ServeWS, Upgrade, ServeRegister, ServeSubscribe, ServeWelcome, ServeStart
  <1>2. client[c] \in Client
    BY <1>0
  <1>3. /\ client'[c].closed = client[c].closed /\ client'[c].slow = client[c].slow
        /\ \/ /\ client[c].serve \notin {"register", "start"} /\ register' = register
              /\ client'[c].read = client[c].read /\ client'[c].write = client[c].write
              /\ \/ client[c].serve = "new" /\ client'[c].serve = "register"
                 \/ client[c].serve = "subscribe" /\ client'[c].serve = "welcome"
                 \/ client[c].serve = "welcome" /\ client'[c].serve = "start"
                 \/ /\ client[c].serve = "welcome" /\ client'[c].serve = "panicked"
                    /\ client[c].closed
           \/ /\ client[c].serve = "register" /\ register' = Append(register, c)
              /\ client'[c].read = client[c].read /\ client'[c].write = client[c].write
              /\ client'[c].serve \in {"start", "subscribe"}
              /\ client'[c].serve = "subscribe" => OrdersTopic[c] # NoTopic
           \/ /\ client[c].serve = "start" /\ register' = register
              /\ client'[c].serve = "done"
    <2>1. CASE Upgrade(c)
      <3>1. client'[c] = [client[c] EXCEPT !.conn = "open", !.serve = "register"]
        BY <1>0, <1>2, <2>1 DEF Upgrade, Client
      <3>2. /\ client'[c].closed = client[c].closed /\ client'[c].slow = client[c].slow
            /\ client'[c].read = client[c].read /\ client'[c].write = client[c].write
            /\ client'[c].serve = "register"
        BY <1>2, <3>1 DEF Client
      <3>3. QED BY <2>1, <3>2 DEF Upgrade
    <2>2. CASE ServeRegister(c)
      <3>1. client'[c] = [client[c] EXCEPT !.serve = IF OrdersTopic[c] = NoTopic
                                                     THEN "start" ELSE "subscribe"]
        BY <1>0, <1>2, <2>2 DEF ServeRegister, Client
      <3>2. /\ client'[c].closed = client[c].closed /\ client'[c].slow = client[c].slow
            /\ client'[c].read = client[c].read /\ client'[c].write = client[c].write
            /\ client'[c].serve = IF OrdersTopic[c] = NoTopic THEN "start" ELSE "subscribe"
        BY <1>2, <3>1 DEF Client
      <3>3. QED BY <2>2, <3>2 DEF ServeRegister
    <2>3. CASE ServeSubscribe(c)
      <3>1. client'[c] = [client[c] EXCEPT !.subs = @ \union {OrdersTopic[c]},
                                           !.serve = "welcome"]
        BY <1>0, <1>2, <2>3 DEF ServeSubscribe, Client
      <3>2. /\ client'[c].closed = client[c].closed /\ client'[c].slow = client[c].slow
            /\ client'[c].read = client[c].read /\ client'[c].write = client[c].write
            /\ client'[c].serve = "welcome"
        BY <1>2, <3>1 DEF Client
      <3>3. QED BY <2>3, <3>2 DEF ServeSubscribe
    <2>4. CASE ServeWelcome(c)
      <3>1. \/ client'[c] = [WithSent(client[c], Reply(OrdersTopic[c])) EXCEPT !.serve = "start"]
            \/ /\ client'[c] = [client[c] EXCEPT !.serve = "panicked"]
               /\ client[c].closed
        BY <1>0, <1>2, <2>4 DEF ServeWelcome, Client
      <3>2. /\ client'[c].closed = client[c].closed /\ client'[c].slow = client[c].slow
            /\ client'[c].read = client[c].read /\ client'[c].write = client[c].write
            /\ \/ client'[c].serve = "start"
               \/ client'[c].serve = "panicked" /\ client[c].closed
        <4>1. CASE client'[c] =
                     [WithSent(client[c], Reply(OrdersTopic[c])) EXCEPT !.serve = "start"]
          BY <1>2, <4>1 DEF WithSent, Client
        <4>2. CASE /\ client'[c] = [client[c] EXCEPT !.serve = "panicked"]
                   /\ client[c].closed
          BY <1>2, <4>2 DEF Client
        <4>3. QED BY <3>1, <4>1, <4>2
      <3>3. QED BY <2>4, <3>2 DEF ServeWelcome
    <2>5. CASE ServeStart(c)
      <3>1. client'[c] = [client[c] EXCEPT !.serve = "done", !.read = "reading",
                                           !.write = "running"]
        BY <1>0, <1>2, <2>5 DEF ServeStart, Client
      <3>2. /\ client'[c].closed = client[c].closed /\ client'[c].slow = client[c].slow
            /\ client'[c].serve = "done"
        BY <1>2, <3>1 DEF Client
      <3>3. QED BY <2>5, <3>2 DEF ServeStart
    <2>6. QED BY <2>1, <2>2, <2>3, <2>4, <2>5 DEF ServeWS
  <1>4. Lifecycle(c)
    BY <1>0
  <1>5. /\ \A x \in Conns \ {c} : In(register', x) <=> In(register, x)
        /\ client[c].serve # "register" => register' = register
        /\ Once(register')
    <2>1. Once(register) /\ (client[c].serve = "register" => ~In(register, c))
      BY <1>0, <1>4 DEF HubFacts, Lifecycle
    <2>2. CASE register' = register
      BY <2>1, <2>2
    <2>3. CASE client[c].serve = "register" /\ register' = Append(register, c)
      BY <1>0, <2>1, <2>3, Added
    <2>4. QED BY <1>3, <2>2, <2>3
  <1>6. client[c].serve = "welcome" /\ client[c].closed => client[c].slow
    BY <1>4 DEF Lifecycle
  <1>7. HubFacts'
    BY <1>0, <1>1, <1>3, <1>5, <1>6 DEF HubFacts
  <1>8. ASSUME NEW d \in Conns PROVE Lifecycle(d)'
    <2>1. CASE d # c
      BY <1>0, <1>1, <1>5, <2>1 DEF Lifecycle
    <2>2. CASE d = c /\ client[c].serve = "register"
      BY <1>1, <1>3, <1>4, <2>2 DEF Lifecycle
    <2>3. CASE d = c /\ client[c].serve # "register"
      BY <1>1, <1>3, <1>4, <1>5, <2>3 DEF Lifecycle
    <2>4. QED BY <2>1, <2>2, <2>3
  <1>9. QED BY <1>7, <1>8

LEMMA ReadSafe ==
    ASSUME Safe, NEW c \in Conns, readPump(c)
    PROVE  HubFacts' /\ \A d \in Conns : Lifecycle(d)'
  <1> USE DEF PanicsOnlyIfSlow
  <1>0. /\ unregister \in Seq(Conns) /\ client \in [Conns -> Client] /\ panicked = "nobody"
        /\ HubFacts /\ Lifecycle(c) /\ \A d \in Conns : Lifecycle(d)
    BY DEF Safe, TypeOK, readPump, ReadMessage, ReadReply, ReadError, ReadUnregister,
           ReadClose, Running
  <1>1. /\ UNCHANGED <<register, clients, hub>>
        /\ \A d \in Conns \ {c} : client'[d] = client[d]
    BY <1>0 DEF readPump, ReadMessage, ReadReply, ReadError, ReadUnregister, ReadClose,
                SendOrPanic
  <1>2. client[c] \in Client
    BY <1>0
  <1>3. /\ client'[c].closed = client[c].closed /\ client'[c].slow = client[c].slow
        /\ client'[c].serve = client[c].serve /\ client'[c].write = client[c].write
        /\ client[c].read \in {"close", "done"} => client'[c].read \in {"close", "done"}
        /\ client[c].read # "none"
    <2>1. CASE ReadMessage(c)
      <3>2. /\ client'[c].closed = client[c].closed /\ client'[c].slow = client[c].slow
            /\ client'[c].serve = client[c].serve /\ client'[c].write = client[c].write
        <4>1. CASE \E t \in Topics : client' =
             [client EXCEPT ![c].reads = @ + 1, ![c].subs = @ \union {t}, ![c].read = "reply"]
          <5>1. PICK t \in Topics : client' =
             [client EXCEPT ![c].reads = @ + 1, ![c].subs = @ \union {t}, ![c].read = "reply"]
            BY <4>1
          <5>2. client'[c] =
                  [client[c] EXCEPT !.reads = @ + 1, !.subs = @ \union {t}, !.read = "reply"]
            BY <1>0, <1>2, <5>1 DEF Client
          <5>3. QED BY <1>2, <5>2 DEF Client
        <4>2. CASE \E t \in Topics : client' =
             [client EXCEPT ![c].reads = @ + 1, ![c].subs = @ \ {t}]
          <5>1. PICK t \in Topics : client' =
             [client EXCEPT ![c].reads = @ + 1, ![c].subs = @ \ {t}]
            BY <4>2
          <5>2. client'[c] = [client[c] EXCEPT !.reads = @ + 1, !.subs = @ \ {t}]
            BY <1>0, <1>2, <5>1 DEF Client
          <5>3. QED BY <1>2, <5>2 DEF Client
        <4>3. CASE client' = [client EXCEPT ![c].reads = @ + 1, ![c].read = "reply"]
          <5>1. client'[c] = [client[c] EXCEPT !.reads = @ + 1, !.read = "reply"]
            BY <1>0, <1>2, <4>3 DEF Client
          <5>2. QED BY <1>2, <5>1 DEF Client
        <4>4. QED BY <2>1, <4>1, <4>2, <4>3 DEF ReadMessage
      <3>3. QED BY <2>1, <3>2 DEF ReadMessage
    <2>2. CASE ReadReply(c)
      <3>1. client[c].read = "reply"
        BY <2>2 DEF ReadReply
      <3>2. CASE client' = client
        BY <3>1, <3>2
      <3>3. CASE client' # client
        <4>1. client'[c] = [WithSent(client[c], Reply(NoTopic)) EXCEPT !.read = "reading"]
          BY <1>0, <2>2, <3>3 DEF ReadReply, SendOrPanic
        <4>2. /\ client'[c].closed = client[c].closed /\ client'[c].slow = client[c].slow
              /\ client'[c].serve = client[c].serve /\ client'[c].write = client[c].write
          BY <1>2, <4>1 DEF WithSent, Client
        <4>3. QED BY <3>1, <4>2
      <3>4. QED BY <3>2, <3>3
    <2>3. CASE ReadError(c)
      <3>1. client'[c] = [client[c] EXCEPT !.read = "unregister"]
        BY <1>0, <2>3 DEF ReadError
      <3>2. QED BY <1>2, <2>3, <3>1 DEF ReadError, Client
    <2>4. CASE ReadUnregister(c)
      <3>1. client'[c] = [client[c] EXCEPT !.read = "close"]
        BY <1>0, <2>4 DEF ReadUnregister
      <3>2. QED BY <1>2, <2>4, <3>1 DEF ReadUnregister, Client
    <2>5. CASE ReadClose(c)
      <3>1. client'[c] = [client[c] EXCEPT !.conn = "closed", !.read = "done"]
        BY <1>0, <1>2, <2>5 DEF ReadClose, Client
      <3>2. /\ client'[c].closed = client[c].closed /\ client'[c].slow = client[c].slow
            /\ client'[c].serve = client[c].serve /\ client'[c].write = client[c].write
            /\ client'[c].read = "done"
        BY <1>2, <3>1 DEF Client
      <3>3. QED BY <2>5, <3>2 DEF ReadClose
    <2>6. QED BY <2>1, <2>2, <2>3, <2>4, <2>5 DEF readPump
  <1>4. /\ \A x \in Conns \ {c} : In(unregister', x) <=> In(unregister, x)
        /\ \/ unregister' = unregister
           \/ client'[c].read = "close"
    <2>1. CASE ReadUnregister(c)
      <3>1. unregister' = Append(unregister, c)
            /\ client' = [client EXCEPT ![c].read = "close"]
        BY <2>1 DEF ReadUnregister
      <3>2. \A x : In(unregister', x) <=> In(unregister, x) \/ x = c
        BY <1>0, <3>1, Added
      <3>3. QED BY <1>0, <1>2, <3>1, <3>2 DEF Client
    <2>2. CASE unregister' = unregister
      BY <2>2
    <2>3. QED BY <2>1, <2>2 DEF readPump, ReadMessage, ReadReply, ReadError, ReadClose
  <1>5. panicked' # "nobody" => panicked' = c /\ client[c].slow
    <2>1. CASE panicked' = panicked
      BY <1>0, <2>1
    <2>2. CASE panicked' # panicked
      <3>1. panicked' = c /\ client[c].closed /\ client[c].read = "reply"
        BY <2>2 DEF readPump, ReadMessage, ReadReply, ReadError, ReadUnregister, ReadClose,
                    SendOrPanic
      <3>2. QED BY <1>0, <3>1 DEF Lifecycle
    <2>3. QED BY <2>1, <2>2
  <1>6. HubFacts'
    BY <1>0, <1>1, <1>3, <1>5 DEF HubFacts
  <1>7. ASSUME NEW d \in Conns PROVE Lifecycle(d)'
    <2>1. CASE d # c
      BY <1>0, <1>1, <1>4, <2>1 DEF Lifecycle
    <2>2. CASE d = c
      BY <1>0, <1>1, <1>3, <1>4, <2>2 DEF Lifecycle
    <2>3. QED BY <2>1, <2>2
  <1>8. QED BY <1>6, <1>7

LEMMA WriteSafe ==
    ASSUME Safe, NEW c \in Conns, writePump(c)
    PROVE  HubFacts' /\ \A d \in Conns : Lifecycle(d)'
  <1> USE DEF PanicsOnlyIfSlow
  <1>0. /\ client \in [Conns -> Client] /\ client[c] \in Client
        /\ HubFacts /\ Lifecycle(c) /\ \A d \in Conns : Lifecycle(d)
    BY DEF Safe, TypeOK
  <1>1. /\ UNCHANGED <<register, unregister, clients, hub, panicked>>
        /\ \A d \in Conns \ {c} : client'[d] = client[d]
        /\ client[c].write = "running"
    BY <1>0 DEF writePump, WriteNext, WriteFails, WriteClosed
  <1>3. /\ client'[c].closed = client[c].closed /\ client'[c].slow = client[c].slow
        /\ client'[c].serve = client[c].serve /\ client'[c].read = client[c].read
    <2>1. CASE WriteNext(c)
      <3>1. client'[c] = [client[c] EXCEPT !.got = Append(@, Head(client[c].send)),
                                           !.send = Tail(@)]
        BY <1>0, <2>1 DEF WriteNext, Client
      <3>2. QED BY <1>0, <3>1 DEF Client
    <2>2. CASE WriteFails(c)
      <3>1. PICK rest : client' = [client EXCEPT ![c].send = rest, ![c].write = "done",
                                                 ![c].conn = "closed"]
        BY <2>2 DEF WriteFails
      <3>2. client'[c] = [client[c] EXCEPT !.send = rest, !.write = "done", !.conn = "closed"]
        BY <1>0, <3>1 DEF Client
      <3>3. QED BY <1>0, <3>2 DEF Client
    <2>3. CASE WriteClosed(c)
      <3>1. client'[c] = [client[c] EXCEPT !.write = "done", !.conn = "closed"]
        BY <1>0, <2>3 DEF WriteClosed, Client
      <3>2. QED BY <1>0, <3>1 DEF Client
    <2>4. QED BY <2>1, <2>2, <2>3 DEF writePump
  <1>4. HubFacts'
    BY <1>0, <1>1, <1>3 DEF HubFacts
  <1>5. ASSUME NEW d \in Conns PROVE Lifecycle(d)'
    <2>1. CASE d # c
      BY <1>0, <1>1, <2>1 DEF Lifecycle
    <2>2. CASE d = c
      BY <1>0, <1>1, <1>3, <2>2 DEF Lifecycle
    <2>3. QED BY <2>1, <2>2
  <1>6. QED BY <1>4, <1>5

LEMMA SafeStep ==
    ASSUME Safe, [Next]_vars
    PROVE  Safe'
  <1>1. ASSUME UNCHANGED <<register, unregister, clients, hub, client, panicked>>
        PROVE  HubFacts' /\ \A d \in Conns : Lifecycle(d)'
    <2>1. HubFacts'
      BY <1>1 DEF Safe, HubFacts, PanicsOnlyIfSlow
    <2>2. ASSUME NEW d \in Conns PROVE Lifecycle(d)'
      <3>1. Lifecycle(d)
        BY DEF Safe
      <3>2. QED BY <1>1, <3>1 DEF Lifecycle
    <2>3. QED BY <2>1, <2>2
  <1>2. (\E t \in Topics : Broadcast(t)) \/ UNCHANGED vars
            => UNCHANGED <<register, unregister, clients, hub, client, panicked>>
    BY DEF Broadcast, vars
  <1>3. HubFacts' /\ \A d \in Conns : Lifecycle(d)'
    <2>1. CASE Run
      BY <2>1, RunSafe
    <2>2. ASSUME NEW c \in Conns, ServeWS(c) \/ readPump(c) \/ writePump(c)
          PROVE  HubFacts' /\ \A d \in Conns : Lifecycle(d)'
      BY <2>2, ServeSafe, ReadSafe, WriteSafe
    <2>3. QED BY <1>1, <1>2, <2>1, <2>2 DEF Next
  <1>4. QED
    BY <1>3, TypeStep DEF Safe

\* Every variable keeps its type and no channel holds more than its capacity.
THEOREM TypeCorrect == Spec => []TypeOK
  <1>1. Safe => TypeOK
    BY DEF Safe
  <1>2. QED
    BY <1>1, InitSafe, SafeStep, PTL DEF Spec

\* The hub never panics, and a handler or a read pump only when its client was
\* dropped as slow (Run, ServeWS, readPump).
THEOREM OnlySlowClientsPanic == Spec => []PanicsOnlyIfSlow
  <1>1. Safe => PanicsOnlyIfSlow
    BY DEF Safe, HubFacts
  <1>2. QED
    BY <1>1, InitSafe, SafeStep, PTL DEF Spec

-----------------------------------------------------------------------------
(* No gaps: what every step does to the stream of messages of a client. *)

Older(s, n) == \A i \in DOMAIN s : s[i].n < n

InOrder(s) == \A i, j \in DOMAIN s : i < j /\ s[j].n > 0 => s[i].n < s[j].n

Delivered(k) ==
    IF k.write = "done" THEN IsPrefix(k.got, k.offered)
    ELSE k.got \o k.send = IF k.slow THEN Front(k.offered) ELSE k.offered

\* The messages that wait for the hub are newer than the one it is at.
Queued ==
    /\ \A i \in DOMAIN broadcast : hub.msg.n < broadcast[i].n /\ broadcast[i].n <= calls
    /\ \A i, j \in DOMAIN broadcast : i < j => broadcast[i].n < broadcast[j].n
    /\ hub.msg.n <= calls
    /\ hub.todo # {} => hub.msg.n > 0

\* What was meant for c is in order, older than what waits, and on its way to it.
Stream(c) ==
    /\ Older(client[c].offered, calls + 1)
    /\ \A i \in DOMAIN broadcast : Older(client[c].offered, broadcast[i].n)
    /\ c \in hub.todo => Older(client[c].offered, hub.msg.n)
    /\ InOrder(client[c].offered)
    /\ Delivered(client[c])

NoGapsInv == Safe /\ Queued /\ \A c \in Conns : Stream(c)

\* A goroutine's step for the client k, which becomes l: nothing to do with its
\* messages; m is sent to it; m has no room; one is written; the write pump ends.
Keeps(k, l) ==
    /\ l.got = k.got /\ l.send = k.send /\ l.offered = k.offered /\ l.slow = k.slow
    /\ k.write = "done" <=> l.write = "done"

Sends(k, l, m) ==
    /\ ~k.slow
    /\ l.send = Append(k.send, m) /\ l.offered = Append(k.offered, m)
    /\ l.got = k.got /\ l.slow = k.slow /\ l.write = k.write

Drops(k, l, m) ==
    /\ ~k.slow
    /\ l.offered = Append(k.offered, m) /\ l.slow
    /\ l.send = k.send /\ l.got = k.got /\ l.write = k.write

Writes(k, l) ==
    /\ k.write = "running" /\ k.send # <<>>
    /\ l.got = Append(k.got, Head(k.send)) /\ l.send = Tail(k.send)
    /\ l.offered = k.offered /\ l.slow = k.slow /\ l.write = k.write

Ends(k, l) ==
    /\ k.write = "running" /\ l.write = "done"
    /\ l.got = k.got /\ l.offered = k.offered /\ l.slow = k.slow

Flow(c) ==
    \/ Keeps(client[c], client'[c])
    \/ \E t \in Topics \union {NoTopic} : Sends(client[c], client'[c], Reply(t))
    \/ /\ c \in hub.todo /\ c \notin hub'.todo
       /\ Sends(client[c], client'[c], hub.msg) \/ Drops(client[c], client'[c], hub.msg)
    \/ Writes(client[c], client'[c])
    \/ Ends(client[c], client'[c])

\* What was meant for a client stays in order.
LEMMA OrderKept ==
    ASSUME NEW s \in Seq(Message), NEW m \in Message
    PROVE  /\ \A n \in Int : Older(s, n) /\ m.n < n => Older(Append(s, m), n)
           /\ InOrder(s) /\ (m.n = 0 \/ Older(s, m.n)) => InOrder(Append(s, m))
  <1>1. /\ DOMAIN s = 1 .. Len(s) /\ Len(s) \in Nat /\ Len(Append(s, m)) = Len(s) + 1
        /\ DOMAIN Append(s, m) = 1 .. Len(s) + 1
        /\ Append(s, m)[Len(s) + 1] = m
        /\ \A i \in 1 .. Len(s) : Append(s, m)[i] = s[i]
    BY AppendProperties, LenProperties
  <1>2. m.n \in Nat
    BY DEF Message
  <1>3. ASSUME NEW n \in Int, Older(s, n), m.n < n PROVE Older(Append(s, m), n)
    BY <1>1, <1>3 DEF Older
  <1>4. ASSUME InOrder(s), m.n = 0 \/ Older(s, m.n) PROVE InOrder(Append(s, m))
    <2> DEFINE t == Append(s, m)
    <2>1. SUFFICES ASSUME NEW i \in 1 .. Len(s) + 1, NEW j \in 1 .. Len(s) + 1,
                          i < j, t[j].n > 0
                   PROVE  t[i].n < t[j].n
      BY <1>1 DEF InOrder
    <2>2. i \in 1 .. Len(s) /\ t[i] = s[i]
      BY <1>1, <2>1
    <2>3. CASE j = Len(s) + 1
      BY <1>1, <1>2, <1>4, <2>1, <2>2, <2>3, SMTT(30) DEF Older
    <2>4. CASE j \in 1 .. Len(s)
      BY <1>1, <1>4, <2>1, <2>2, <2>4 DEF InOrder
    <2>5. QED BY <1>1, <2>3, <2>4
  <1>5. QED BY <1>3, <1>4

\* No step loses or doubles a message on its way to the client.
LEMMA DeliveredKept ==
    ASSUME NEW k \in Client, NEW l \in Client, NEW m \in Message, Delivered(k),
           Keeps(k, l) \/ Sends(k, l, m) \/ Drops(k, l, m) \/ Writes(k, l) \/ Ends(k, l)
    PROVE  Delivered(l)
  <1>0. k.got \in Seq(Message) /\ k.send \in Seq(Message) /\ k.offered \in Seq(Message)
    BY DEF Client
  <1>1. CASE Keeps(k, l)
    BY <1>1 DEF Keeps, Delivered
  <1>2. CASE (Sends(k, l, m) \/ Drops(k, l, m)) /\ k.write = "done"
    <2>1. l.write = "done" /\ l.got = k.got /\ l.offered = Append(k.offered, m)
      BY <1>2 DEF Sends, Drops
    <2>2. IsPrefix(k.got, k.offered)
      BY <1>2 DEF Delivered
    <2>3. IsPrefix(k.got, Append(k.offered, m))
      BY <1>0, <2>2, PrefixAppend
    <2>4. QED BY <2>1, <2>3 DEF Delivered
  <1>3. CASE Sends(k, l, m) /\ k.write # "done"
    <2>1. k.got \o k.send = k.offered /\ ~l.slow /\ l.write # "done"
      BY <1>3 DEF Sends, Delivered
    <2>2. l.got \o l.send = l.offered
      <3>1. k.got \o Append(k.send, m) = Append(k.got \o k.send, m)
        <4>1. \A s, t \in Seq(Message) : s \o Append(t, m) = Append(s \o t, m)
          BY StreamSend
        <4>2. QED BY <1>0, <4>1
      <3>2. QED BY <1>3, <2>1, <3>1 DEF Sends
    <2>3. QED BY <2>1, <2>2 DEF Delivered
  <1>4. CASE Drops(k, l, m) /\ k.write # "done"
    <2>1. k.got \o k.send = k.offered /\ l.slow /\ l.write # "done"
      BY <1>4 DEF Drops, Delivered
    <2>2. Front(l.offered) = k.offered
      <3>1. Front(Append(k.offered, m)) = k.offered
        BY <1>0, FrontOfAppend
      <3>2. QED BY <1>4, <3>1 DEF Drops
    <2>3. QED BY <1>4, <2>1, <2>2 DEF Drops, Delivered
  <1>5. CASE Writes(k, l)
    <2>1. l.got \o l.send = k.got \o k.send
      BY <1>0, <1>5, StreamTake DEF Writes
    <2>2. QED BY <1>5, <2>1 DEF Writes, Delivered
  <1>6. CASE Ends(k, l)
    <2>1. k.got \o k.send = IF k.slow THEN Front(k.offered) ELSE k.offered
      BY <1>6 DEF Ends, Delivered
    <2>2. IsPrefix(k.got, k.offered)
      BY <1>0, <2>1, PrefixOfStream
    <2>3. QED BY <1>6, <2>2 DEF Ends, Delivered
  <1>7. QED BY <1>1, <1>2, <1>3, <1>4, <1>5, <1>6

\* Every step is, for every client, one of the five.
LEMMA RunFlow ==
    ASSUME Safe, Run, NEW d \in Conns
    PROVE  Flow(d)
  <1>0. /\ unregister \in Seq(Conns) /\ client \in [Conns -> Client] /\ client[d] \in Client
        /\ HubFacts /\ Lifecycle(d)
    BY DEF Safe, TypeOK
  <1>1. CASE client'[d] = client[d]
    BY <1>1 DEF Flow, Keeps
  <1>2. CASE HubUnregister /\ client'[d] # client[d]
    <2>1. Head(unregister) = d
      BY <1>0, <1>2, Received DEF HubUnregister
    <2>2. Keeps(client[d], client'[d])
      <3>1. CASE client' = [client EXCEPT ![d].closed = TRUE]
        <4>1. client'[d] = [client[d] EXCEPT !.closed = TRUE]
          BY <1>0, <3>1
        <4>2. QED BY <1>0, <4>1 DEF Keeps, Client
      <3>2. CASE client' = [client EXCEPT ![d].early = @ \/ d \in Range(register)]
        <4> DEFINE b == client[d].early \/ d \in Range(register)
        <4>1. client' = [client EXCEPT ![d].early = b]
          BY <3>2, Zenon
        <4> HIDE DEF b
        <4>2. client'[d] = [client[d] EXCEPT !.early = b]
          BY <1>0, <4>1
        <4>3. QED BY <1>0, <4>2 DEF Keeps, Client
      <3>3. QED BY <1>2, <2>1, <3>1, <3>2 DEF HubUnregister
    <2>3. QED BY <2>2 DEF Flow
  <1>3. ASSUME NEW c \in Conns, FanOut(c), client'[d] # client[d] PROVE Flow(d)
    <2>1. c = d
      BY <1>0, <1>3 DEF FanOut
    <2>2. d \in hub.todo /\ d \notin hub'.todo
      BY <1>3, <2>1 DEF FanOut, Visited, Idle
    <2>3. ~client[d].slow
      BY <1>0, <2>2 DEF HubFacts, Lifecycle
    <2>4. CASE client' = [client EXCEPT ![c] = WithSent(@, hub.msg)]
      <3>1. client'[d] = WithSent(client[d], hub.msg)
        BY <1>0, <2>1, <2>4
      <3>2. Sends(client[d], client'[d], hub.msg)
        BY <1>0, <2>3, <3>1 DEF WithSent, Sends, Client
      <3>3. QED BY <2>2, <3>2 DEF Flow
    <2>5. CASE client' = [client EXCEPT ![c].closed = TRUE, ![c].slow = TRUE,
                                        ![c].offered = Append(@, hub.msg)]
      <3>1. client'[d] = [client[d] EXCEPT !.closed = TRUE, !.slow = TRUE,
                                           !.offered = Append(@, hub.msg)]
        BY <1>0, <2>1, <2>5 DEF Client
      <3>2. client'[d].slow = TRUE
        BY <1>0, <3>1 DEF Client
      <3>3. /\ client'[d].offered = Append(client[d].offered, hub.msg)
            /\ client'[d].send = client[d].send /\ client'[d].got = client[d].got
            /\ client'[d].write = client[d].write
        BY <1>0, <3>1 DEF Client
      <3>4. Drops(client[d], client'[d], hub.msg)
        BY <2>3, <3>2, <3>3 DEF Drops
      <3>5. QED BY <2>2, <3>4 DEF Flow
    <2>6. QED BY <1>3, <2>4, <2>5 DEF FanOut
  <1>4. QED BY <1>1, <1>2, <1>3 DEF Run, HubRegister, HubBroadcast

LEMMA ServeFlow ==
    ASSUME Safe, NEW c \in Conns, ServeWS(c)
    PROVE  Flow(c)
  <1>0. client \in [Conns -> Client] /\ client[c] \in Client /\ Lifecycle(c)
    BY DEF Safe, TypeOK
  <1>1. CASE Upgrade(c)
    <2>1. client'[c] = [client[c] EXCEPT !.conn = "open", !.serve = "register"]
      BY <1>0, <1>1 DEF Upgrade, Client
    <2>2. QED BY <1>0, <2>1 DEF Flow, Keeps, Client
  <1>2. CASE ServeRegister(c)
    <2>1. client'[c] = [client[c] EXCEPT !.serve = IF OrdersTopic[c] = NoTopic
                                                   THEN "start" ELSE "subscribe"]
      BY <1>0, <1>2 DEF ServeRegister
    <2>2. QED BY <1>0, <2>1 DEF Flow, Keeps, Client
  <1>3. CASE ServeSubscribe(c)
    <2>1. client'[c] = [client[c] EXCEPT !.subs = @ \union {OrdersTopic[c]},
                                         !.serve = "welcome"]
      BY <1>0, <1>3 DEF ServeSubscribe, Client
    <2>2. QED BY <1>0, <2>1 DEF Flow, Keeps, Client
  <1>4. CASE ServeWelcome(c)
    <2>1. CASE HasRoom(c) /\ client' = [client EXCEPT ![c] =
                    [WithSent(@, Reply(OrdersTopic[c])) EXCEPT !.serve = "start"]]
      <3>1. client'[c] = [WithSent(client[c], Reply(OrdersTopic[c])) EXCEPT !.serve = "start"]
        BY <1>0, <2>1
      <3>2. ~client[c].slow
        BY <1>0, <2>1 DEF HasRoom, Lifecycle
      <3>3. Sends(client[c], client'[c], Reply(OrdersTopic[c]))
        BY <1>0, <3>1, <3>2 DEF WithSent, Sends, Client
      <3>4. QED BY <3>3 DEF Flow
    <2>2. CASE client' = [client EXCEPT ![c].serve = "panicked"]
      <3>1. client'[c] = [client[c] EXCEPT !.serve = "panicked"]
        BY <1>0, <2>2
      <3>2. QED BY <1>0, <3>1 DEF Flow, Keeps, Client
    <2>3. QED BY <1>4, <2>1, <2>2 DEF ServeWelcome
  <1>5. CASE ServeStart(c)
    <2>1. client'[c] = [client[c] EXCEPT !.serve = "done", !.read = "reading",
                                         !.write = "running"]
      BY <1>0, <1>5 DEF ServeStart, Client
    <2>2. client[c].write = "none"
      BY <1>0, <1>5 DEF ServeStart, Lifecycle
    <2>3. QED BY <1>0, <2>1, <2>2 DEF Flow, Keeps, Client
  <1>6. QED BY <1>1, <1>2, <1>3, <1>4, <1>5 DEF ServeWS

LEMMA ReadFlow ==
    ASSUME Safe, NEW c \in Conns, readPump(c)
    PROVE  Flow(c)
  <1>0. client \in [Conns -> Client] /\ client[c] \in Client /\ Lifecycle(c)
    BY DEF Safe, TypeOK
  <1>1. CASE ReadMessage(c)
    <2>1. CASE \E t \in Topics : client' =
             [client EXCEPT ![c].reads = @ + 1, ![c].subs = @ \union {t}, ![c].read = "reply"]
      <3>1. PICK t \in Topics : client' =
             [client EXCEPT ![c].reads = @ + 1, ![c].subs = @ \union {t}, ![c].read = "reply"]
        BY <2>1
      <3>2. client'[c] =
              [client[c] EXCEPT !.reads = @ + 1, !.subs = @ \union {t}, !.read = "reply"]
        BY <1>0, <3>1 DEF Client
      <3>3. QED BY <1>0, <3>2 DEF Flow, Keeps, Client
    <2>2. CASE \E t \in Topics : client' =
             [client EXCEPT ![c].reads = @ + 1, ![c].subs = @ \ {t}]
      <3>1. PICK t \in Topics : client' =
             [client EXCEPT ![c].reads = @ + 1, ![c].subs = @ \ {t}]
        BY <2>2
      <3>2. client'[c] = [client[c] EXCEPT !.reads = @ + 1, !.subs = @ \ {t}]
        BY <1>0, <3>1 DEF Client
      <3>3. QED BY <1>0, <3>2 DEF Flow, Keeps, Client
    <2>3. CASE client' = [client EXCEPT ![c].reads = @ + 1, ![c].read = "reply"]
      <3>1. client'[c] = [client[c] EXCEPT !.reads = @ + 1, !.read = "reply"]
        BY <1>0, <2>3 DEF Client
      <3>2. QED BY <1>0, <3>1 DEF Flow, Keeps, Client
    <2>4. QED BY <1>1, <2>1, <2>2, <2>3 DEF ReadMessage
  <1>2. CASE ReadReply(c)
    <2>1. CASE client' = client
      BY <2>1 DEF Flow, Keeps
    <2>2. CASE client' # client
      <3>1. /\ HasRoom(c)
            /\ client'[c] = [WithSent(client[c], Reply(NoTopic)) EXCEPT !.read = "reading"]
        BY <1>0, <1>2, <2>2 DEF ReadReply, SendOrPanic
      <3>2. ~client[c].slow
        BY <1>0, <3>1 DEF HasRoom, Lifecycle
      <3>3. Sends(client[c], client'[c], Reply(NoTopic))
        BY <1>0, <3>1, <3>2 DEF WithSent, Sends, Client
      <3>4. QED BY <3>3 DEF Flow
    <2>3. QED BY <2>1, <2>2
  <1>3. CASE ReadError(c)
    <2>1. client'[c] = [client[c] EXCEPT !.read = "unregister"]
      BY <1>0, <1>3 DEF ReadError
    <2>2. QED BY <1>0, <2>1 DEF Flow, Keeps, Client
  <1>4. CASE ReadUnregister(c)
    <2>1. client'[c] = [client[c] EXCEPT !.read = "close"]
      BY <1>0, <1>4 DEF ReadUnregister
    <2>2. QED BY <1>0, <2>1 DEF Flow, Keeps, Client
  <1>5. CASE ReadClose(c)
    <2>1. client'[c] = [client[c] EXCEPT !.conn = "closed", !.read = "done"]
      BY <1>0, <1>5 DEF ReadClose, Client
    <2>2. QED BY <1>0, <2>1 DEF Flow, Keeps, Client
  <1>6. QED BY <1>1, <1>2, <1>3, <1>4, <1>5 DEF readPump

LEMMA WriteFlow ==
    ASSUME Safe, NEW c \in Conns, writePump(c)
    PROVE  Flow(c)
  <1>0. client \in [Conns -> Client] /\ client[c] \in Client
    BY DEF Safe, TypeOK
  <1>1. CASE WriteNext(c)
    <2>1. client'[c] = [client[c] EXCEPT !.got = Append(@, Head(client[c].send)),
                                         !.send = Tail(@)]
      BY <1>0, <1>1 DEF WriteNext, Client
    <2>2. Writes(client[c], client'[c])
      BY <1>0, <1>1, <2>1 DEF WriteNext, Writes, Client
    <2>3. QED BY <2>2 DEF Flow
  <1>2. CASE WriteFails(c)
    <2>1. PICK rest : client' = [client EXCEPT ![c].send = rest, ![c].write = "done",
                                               ![c].conn = "closed"]
      BY <1>2 DEF WriteFails
    <2>2. client'[c] = [client[c] EXCEPT !.send = rest, !.write = "done", !.conn = "closed"]
      BY <1>0, <2>1 DEF Client
    <2>3. Ends(client[c], client'[c])
      BY <1>0, <1>2, <2>2 DEF WriteFails, Ends, Client
    <2>4. QED BY <2>3 DEF Flow
  <1>3. CASE WriteClosed(c)
    <2>1. client'[c] = [client[c] EXCEPT !.write = "done", !.conn = "closed"]
      BY <1>0, <1>3 DEF WriteClosed, Client
    <2>2. Ends(client[c], client'[c])
      BY <1>0, <1>3, <2>1 DEF WriteClosed, Ends, Client
    <2>3. QED BY <2>2 DEF Flow
  <1>4. QED BY <1>1, <1>2, <1>3 DEF writePump

LEMMA ClientFlow ==
    ASSUME Safe, [Next]_vars, NEW d \in Conns
    PROVE  Flow(d)
  <1>1. CASE client'[d] = client[d]
    BY <1>1 DEF Flow, Keeps
  <1>2. ASSUME NEW c \in Conns, ServeWS(c) \/ readPump(c) \/ writePump(c) PROVE Flow(d)
    <2>1. d # c => client'[d] = client[d]
      BY <1>2 DEF Safe, TypeOK, ServeWS, Upgrade, ServeRegister, ServeSubscribe, ServeWelcome,
                  ServeStart, readPump, ReadMessage, ReadReply, SendOrPanic, ReadError,
                  ReadUnregister, ReadClose, writePump, WriteNext, WriteFails, WriteClosed
    <2>2. QED BY <1>1, <1>2, <2>1, ServeFlow, ReadFlow, WriteFlow
  <1>3. QED BY <1>1, <1>2, RunFlow DEF Next, Broadcast, vars

\* Every step keeps the messages that wait for the hub in order.
LEMMA QueuedStep ==
    ASSUME NoGapsInv, [Next]_vars
    PROVE  /\ Queued'
           /\ \A c \in Conns :
                /\ c \in hub'.todo \ hub.todo => Older(client[c].offered, hub'.msg.n)
                /\ c \in hub'.todo \intersect hub.todo => hub'.msg = hub.msg
           /\ \A i \in DOMAIN broadcast' :
                \/ broadcast'[i].n = calls + 1
                \/ \E j \in DOMAIN broadcast : broadcast'[i] = broadcast[j]
  <1>0. /\ broadcast \in Seq(Message) /\ calls \in Nat /\ calls' \in Nat /\ hub.msg \in Message
        /\ Queued /\ \A c \in Conns : Stream(c)
        /\ clients \subseteq Conns
    BY TypeStep DEF NoGapsInv, Safe, TypeOK
  <1>1. /\ DOMAIN broadcast = 1 .. Len(broadcast) /\ Len(broadcast) \in Nat
        /\ \A i \in DOMAIN broadcast : broadcast[i].n \in Nat
        /\ hub.msg.n \in Nat
    <2>1. \A m \in Message : m.n \in Nat
      BY DEF Message
    <2>2. /\ DOMAIN broadcast = 1 .. Len(broadcast) /\ Len(broadcast) \in Nat
          /\ \A i \in DOMAIN broadcast : broadcast[i] \in Message
      BY <1>0, LenProperties, ElementOfSeq
    <2>3. QED BY <1>0, <2>1, <2>2
  <1>2. CASE UNCHANGED <<broadcast, hub, calls>>
    BY <1>0, <1>2 DEF Queued
  <1>3. ASSUME NEW t \in Topics, Broadcast(t), broadcast' # broadcast
        PROVE  /\ Queued' /\ UNCHANGED hub
               /\ \A i \in DOMAIN broadcast' :
                    \/ broadcast'[i].n = calls + 1
                    \/ \E j \in DOMAIN broadcast : broadcast'[i] = broadcast[j]
    <2> DEFINE m == [n |-> calls + 1, topic |-> t]
    <2>1. calls' = calls + 1 /\ broadcast' = Append(broadcast, m) /\ UNCHANGED hub
      BY <1>3 DEF Broadcast
    <2>2. m \in Message /\ m.n = calls + 1
      BY <1>0, <1>3 DEF Broadcast, Message
    <2> HIDE DEF m
    <2>3. /\ DOMAIN broadcast' = 1 .. Len(broadcast) + 1
          /\ broadcast'[Len(broadcast) + 1] = m
          /\ \A i \in 1 .. Len(broadcast) : broadcast'[i] = broadcast[i]
      BY <1>0, <1>1, <2>1, <2>2, AppendProperties, LenProperties
    <2>4. QED BY <1>0, <1>1, <2>1, <2>2, <2>3 DEF Queued
  <1>4. CASE HubBroadcast
    <2>1. /\ broadcast # <<>> /\ broadcast' = Tail(broadcast) /\ calls' = calls
          /\ \/ hub' = Idle
             \/ hub' = [msg |-> Head(broadcast), todo |-> clients]
          /\ hub.todo = {}
      BY <1>4 DEF HubBroadcast, Idle
    <2>2. /\ DOMAIN Tail(broadcast) = 1 .. Len(broadcast) - 1
          /\ \A i \in 1 .. Len(broadcast) - 1 : Tail(broadcast)[i] = broadcast[i + 1]
          /\ Head(broadcast) = broadcast[1] /\ 1 \in 1 .. Len(broadcast)
      BY <1>0, <2>1, HeadTailProperties, LenProperties, EmptySeq
    <2>3. \A i \in 1 .. Len(broadcast) - 1 : i + 1 \in 1 .. Len(broadcast) /\ 1 < i + 1
      BY <1>1
    <2>4. \A i \in DOMAIN broadcast' : \E j \in DOMAIN broadcast : broadcast'[i] = broadcast[j]
      BY <1>1, <2>1, <2>2, <2>3
    <2>5. CASE hub' = Idle
      <3>1. hub'.msg.n = 0 /\ hub'.todo = {}
        BY <2>5 DEF Idle, Reply
      <3>2. \A i \in DOMAIN broadcast : 0 < broadcast[i].n /\ broadcast[i].n <= calls
        BY <1>0, <1>1 DEF Queued
      <3>3. \A i \in DOMAIN broadcast' : hub'.msg.n < broadcast'[i].n /\ broadcast'[i].n <= calls'
        BY <2>1, <2>4, <3>1, <3>2
      <3>4. \A i, j \in DOMAIN broadcast' : i < j => broadcast'[i].n < broadcast'[j].n
        BY <1>0, <1>1, <2>1, <2>2, <2>3 DEF Queued
      <3>5. Queued'
        BY <1>0, <2>1, <3>1, <3>3, <3>4 DEF Queued
      <3>6. QED BY <2>4, <3>1, <3>5
    <2>6. CASE hub' = [msg |-> Head(broadcast), todo |-> clients]
      <3>1. hub'.msg = broadcast[1] /\ hub'.todo = clients
        BY <2>2, <2>6
      <3>2. Queued'
        BY <1>0, <1>1, <2>1, <2>2, <2>3, <3>1 DEF Queued
      <3>3. \A c \in Conns : Older(client[c].offered, hub'.msg.n)
        BY <1>0, <1>1, <2>2, <3>1 DEF Stream
      <3>4. QED BY <2>1, <2>4, <3>2, <3>3
    <2>7. QED BY <2>1, <2>5, <2>6
  <1>5. ASSUME NEW c \in Conns, FanOut(c)
        PROVE  /\ Queued' /\ UNCHANGED broadcast
               /\ hub'.todo \subseteq hub.todo /\ (hub'.todo # {} => hub'.msg = hub.msg)
    <2>1. /\ broadcast' = broadcast /\ calls' = calls
          /\ hub'.todo \subseteq hub.todo /\ (hub'.todo # {} => hub'.msg = hub.msg)
          /\ hub'.msg.n = 0 \/ hub'.msg = hub.msg
      <3>1. hub \in [msg : Message, todo : SUBSET Conns]
        BY DEF NoGapsInv, Safe, TypeOK
      <3>2. QED BY <1>5, <3>1 DEF FanOut, Visited, Idle, Reply
    <2>2. QED BY <1>0, <1>1, <2>1 DEF Queued
  <1>6. QED
    <2>1. \/ UNCHANGED <<broadcast, hub, calls>>
          \/ \E t \in Topics : Broadcast(t)
          \/ HubBroadcast
          \/ \E c \in Conns : FanOut(c)
      BY ZenonT(40) DEF Next, Run, HubRegister, HubUnregister, ServeWS, Upgrade, ServeRegister,
             ServeSubscribe, ServeWelcome, ServeStart, readPump, ReadMessage, ReadReply,
             ReadError, ReadUnregister, ReadClose, writePump, WriteNext, WriteFails,
             WriteClosed, vars
    <2>2. ASSUME NEW t \in Topics, Broadcast(t), broadcast' = broadcast
          PROVE  UNCHANGED hub /\ Queued'
      <3>1. calls' = calls + 1 /\ UNCHANGED hub
        BY <2>2 DEF Broadcast
      <3>2. \A n \in Nat : n <= calls => n <= calls'
        BY <1>0, <3>1
      <3>3. QED BY <1>0, <1>1, <2>2, <3>1, <3>2 DEF Queued
    <2>3. QED BY <1>2, <1>3, <1>4, <1>5, <2>1, <2>2

\* Every step keeps a client's stream in order and without a gap.
LEMMA StreamStep ==
    ASSUME NoGapsInv, [Next]_vars, NEW c \in Conns
    PROVE  Stream(c)'
  <1> DEFINE k == client[c]
             l == client'[c]
  <1>0. /\ k \in Client /\ l \in Client /\ hub.msg \in Message /\ Stream(c) /\ Queued
        /\ calls \in Nat /\ calls' \in Nat /\ calls <= calls' /\ broadcast \in Seq(Message)
    <2>1. TypeOK /\ TypeOK' /\ Stream(c) /\ Queued
      BY TypeStep DEF NoGapsInv, Safe
    <2>2. calls' = calls \/ calls' = calls + 1
      BY DEF Next, Broadcast, Run, HubRegister, HubUnregister, HubBroadcast, FanOut, ServeWS,
             Upgrade, ServeRegister, ServeSubscribe, ServeWelcome, ServeStart, readPump,
             ReadMessage, ReadReply, ReadError, ReadUnregister, ReadClose, writePump,
             WriteNext, WriteFails, WriteClosed, vars
    <2>3. calls \in Nat /\ calls' \in Nat
      BY <2>1 DEF TypeOK
    <2>4. k \in Client /\ l \in Client /\ hub.msg \in Message /\ broadcast \in Seq(Message)
      BY <2>1 DEF TypeOK
    <2>5. QED BY <2>1, <2>2, <2>3, <2>4
  <1>1. /\ \A m \in Message : m.n \in Nat
        /\ \A i \in DOMAIN k.offered : k.offered[i].n \in Nat
        /\ \A i \in DOMAIN broadcast : broadcast[i].n \in Nat
        /\ k.offered \in Seq(Message)
    <2>1. \A m \in Message : m.n \in Nat
      BY DEF Message
    <2>2. k.offered \in Seq(Message)
      BY <1>0 DEF Client
    <2>3. /\ \A i \in DOMAIN k.offered : k.offered[i] \in Message
          /\ \A i \in DOMAIN broadcast : broadcast[i] \in Message
      BY <1>0, <2>2, LenProperties, ElementOfSeq
    <2>4. QED BY <2>1, <2>2, <2>3
  <1>2. PICK m \in Message :
          /\ m.n = 0 \/ (m = hub.msg /\ c \in hub.todo /\ c \notin hub'.todo)
          /\ Keeps(k, l) \/ Sends(k, l, m) \/ Drops(k, l, m) \/ Writes(k, l) \/ Ends(k, l)
    <2>1. Flow(c)
      BY ClientFlow DEF NoGapsInv
    <2>2. \A t \in Topics \union {NoTopic} : Reply(t) \in Message /\ Reply(t).n = 0
      BY Replies DEF Reply
    <2>3. QED BY <1>0, <2>1, <2>2 DEF Flow
  <1> HIDE DEF k, l
  <1>3. l.offered = k.offered \/ l.offered = Append(k.offered, m)
    BY <1>2 DEF Keeps, Sends, Drops, Writes, Ends
  <1>4. Delivered(l)
    <2>1. Delivered(k)
      BY <1>0 DEF Stream, k
    <2>2. QED BY <1>0, <1>2, <2>1, DeliveredKept
  <1>5. /\ InOrder(k.offered) /\ Older(k.offered, calls + 1)
        /\ \A i \in DOMAIN broadcast : Older(k.offered, broadcast[i].n) /\ hub.msg.n < broadcast[i].n
        /\ c \in hub.todo => Older(k.offered, hub.msg.n)
        /\ hub.msg.n <= calls
    BY <1>0 DEF Stream, Queued, k
  <1>6. InOrder(l.offered)
    BY <1>1, <1>2, <1>3, <1>5, OrderKept
  <1>7. \A n \in Int : Older(k.offered, n) /\ m.n < n => Older(l.offered, n)
    BY <1>1, <1>3, OrderKept
  <1>8. Older(l.offered, calls + 1)
    <2>1. m.n < calls + 1
      BY <1>0, <1>1, <1>2, <1>5
    <2>2. QED BY <1>0, <1>5, <1>7, <2>1
  <1>9. Older(l.offered, calls' + 1)
    <2>1. Older(k.offered, calls' + 1) /\ m.n < calls' + 1
      <3>0. calls \in Nat /\ calls' \in Nat /\ calls <= calls'
        BY <1>0
      <3>1. \A n \in Nat : n < calls + 1 => n < calls' + 1
        <4>1. \A a, b, n \in Nat : a <= b /\ n < a + 1 => n < b + 1
          OBVIOUS
        <4>2. QED BY <3>0, <4>1
      <3>2. m.n < calls + 1
        <4>1. hub.msg.n \in Nat /\ hub.msg.n < calls + 1
          BY <1>0, <1>1, <1>5
        <4>2. 0 < calls + 1
          BY <1>0
        <4>3. QED BY <1>2, <4>1, <4>2
      <3>3. QED BY <1>1, <1>5, <3>1, <3>2 DEF Older
    <2>2. QED BY <1>0, <1>7, <2>1
  <1>10. ASSUME NEW i \in DOMAIN broadcast' PROVE Older(l.offered, broadcast'[i].n)
    <2>1. CASE broadcast'[i].n = calls + 1
      BY <1>8, <2>1
    <2>2. ASSUME NEW j \in DOMAIN broadcast, broadcast'[i] = broadcast[j]
          PROVE  Older(l.offered, broadcast'[i].n)
      <3>1. m.n < broadcast[j].n
        <4>1. hub.msg.n \in Nat /\ broadcast[j].n \in Nat /\ hub.msg.n < broadcast[j].n
          BY <1>0, <1>1, <1>5
        <4>2. QED BY <1>2, <4>1
      <3>2. QED BY <1>1, <1>5, <1>7, <2>2, <3>1
    <2>3. QED BY <2>1, <2>2, QueuedStep
  <1>11. ASSUME c \in hub'.todo PROVE Older(l.offered, hub'.msg.n)
    <2>0. m.n = 0 /\ hub'.msg \in Message
      <3>1. TypeOK'
        BY TypeStep DEF NoGapsInv
      <3>2. QED BY <1>2, <1>11, <3>1 DEF TypeOK
    <2>1. Older(k.offered, hub'.msg.n)
      <3>1. CASE c \in hub.todo
        BY <1>5, <1>11, <3>1, QueuedStep
      <3>2. CASE c \notin hub.todo
        BY <1>11, <3>2, QueuedStep DEF k
      <3>3. QED BY <3>1, <3>2
    <2>2. Queued' /\ hub'.todo # {}
      BY <1>11, QueuedStep
    <2>3. hub'.msg.n > 0
      BY <2>2 DEF Queued
    <2>4. hub'.msg.n \in Nat
      BY <1>1, <2>0
    <2>5. QED BY <1>7, <2>0, <2>1, <2>3, <2>4
  <1>12. QED
    BY <1>4, <1>6, <1>9, <1>10, <1>11 DEF Stream, l

LEMMA NoGapsStep ==
    ASSUME NoGapsInv, [Next]_vars
    PROVE  NoGapsInv'
  BY SafeStep, QueuedStep, StreamStep DEF NoGapsInv

LEMMA NoGapsInit == Init => NoGapsInv
  <1> SUFFICES ASSUME Init PROVE NoGapsInv
    OBVIOUS
  <1>1. Safe
    BY InitSafe
  <1>2. broadcast = <<>> /\ hub.msg.n = 0 /\ hub.todo = {} /\ calls = 0
    BY DEF Init, Idle, Reply
  <1>3. Queued
    BY <1>2 DEF Queued
  <1>4. ASSUME NEW c \in Conns PROVE Stream(c)
    <2>1. /\ client[c].offered = <<>> /\ client[c].got = <<>> /\ client[c].send = <<>>
          /\ client[c].write = "none" /\ client[c].slow = FALSE
      BY DEF Init, NewClient
    <2>2. <<>> \o <<>> = <<>>
      OBVIOUS
    <2>3. Delivered(client[c])
      BY <2>1, <2>2 DEF Delivered
    <2>4. QED BY <1>2, <2>1, <2>3 DEF Stream, Older, InOrder
  <1>5. QED BY <1>1, <1>3, <1>4 DEF NoGapsInv

\* Of the messages the hub took no client misses one, gets one twice or out of order,
\* but for the one that finds its channel full and drops it (Run, writePump).
THEOREM StreamHasNoGaps == Spec => []NoGaps
  <1>1. NoGapsInv => NoGaps
    BY DEF NoGapsInv, Stream, InOrder, Delivered, NoGaps
  <1>2. QED
    BY <1>1, NoGapsInit, NoGapsStep, PTL DEF Spec
=============================================================================
