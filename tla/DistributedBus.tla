---------------------------- MODULE DistributedBus ----------------------------
(***************************************************************************)
(* The event bus of several nodes: every node has a local bus (module       *)
(* EventBus) and shares what is published on it through Redis Pub/Sub or    *)
(* through a Kafka topic.                                                   *)
(*                                                                          *)
(* Redis keeps nothing: a message goes to the nodes that are subscribed when *)
(* it arrives.  Kafka keeps a position per consumer group: a message is read *)
(* by one member of each group.  A mailbox is therefore a node with Redis    *)
(* and a group with Kafka.  It has no order: every event is sent by a        *)
(* goroutine of its own and, with Kafka, to a partition of its own.          *)
(***************************************************************************)
EXTENDS Naturals, Sequences, FiniteSets

CONSTANTS
    Nodes,
    EventOf,       \* the events by name: their kind, and the text inside
    Groupings,     \* the Kafka groups of the nodes, one choice per behaviour
    MaxPublished,  \* bound on published events
    MaxConnects,   \* bound on the calls of Connect of a node
    MaxFaults      \* bound on failing sends and on refusals of a local bus

VARIABLES
    backend,       \* "redis" or "kafka"
    group,         \* config.Kafka.GroupID of every node
    connected,     \* connected
    cancelled,     \* eb.ctx is done
    closed,        \* the client has been closed
    loops,         \* subscribeLoop, consumeLoop: "read", "over" or an event
    stopping,      \* Stop: "no", "waits", "returned"
    localUp,       \* the local bus runs
    origin,        \* the node that has published an event
    sending,       \* goroutines of publishToRedis, publishToKafka
    mailbox,       \* messages that the broker has for a mailbox
    local,         \* how often a local bus has taken an event
    refused,       \* events that it has dropped
    owed,          \* history: events that the broker took for a mailbox
    busFaults

distVars == <<backend, group, connected, cancelled, closed, loops, stopping,
              localUp, origin, sending, mailbox, local, refused, owed, busFaults>>

NoNode == "nobody"
Events == DOMAIN EventOf
Mailboxes == Nodes \union UNION {{g[n] : n \in Nodes} : g \in Groupings}
Box(n) == IF backend = "redis" THEN n ELSE group[n]

DistInit ==
    /\ backend \in {"redis", "kafka"}
    /\ group \in Groupings
    /\ connected = [n \in Nodes |-> FALSE]
    /\ cancelled = [n \in Nodes |-> FALSE]
    /\ closed = [n \in Nodes |-> FALSE]
    /\ loops = [n \in Nodes |-> <<>>]
    /\ stopping = [n \in Nodes |-> "no"]
    /\ localUp = [n \in Nodes |-> TRUE]
    /\ origin = [e \in Events |-> NoNode]
    /\ sending = {}
    /\ mailbox = [b \in Mailboxes |-> {}]
    /\ local = [n \in Nodes |-> [e \in Events |-> 0]]
    /\ refused = [n \in Nodes |-> {}]
    /\ owed = [b \in Mailboxes |-> {}]
    /\ busFaults = 0

----------------------------------------------------------------------------
(* The messages. *)

Kinds == {"block", "transaction", "log", "chainConfig", "validatorSet",
          "systemContract"}

\* JSONSerializer.Serialize knows six types of events.
Serializes(e) == EventOf[e].kind \in Kinds

getSubscriptionChannels == Kinds

\* The envelope for Redis quotes the serialized event as Go does.  The escapes
\* of Go for some characters are no JSON, and the receiver drops the message.
Decodes(e) == backend = "kafka" \/ EventOf[e].text = "plain"

\* A form that takes the messages of this node for those of another one.
IsEchoNever(n, e) == FALSE
IsEcho(n, e) == origin[e] = n

----------------------------------------------------------------------------
(* Connect, Disconnect, Run and Stop. *)

\* A closed Redis client never answers the ping again; Kafka makes a new
\* reader and a new writer.
Connect(n) ==
    /\ ~connected[n]
    /\ backend = "redis" => ~closed[n]
    /\ stopping[n] = "no"
    /\ Len(loops[n]) < MaxConnects
    /\ connected' = [connected EXCEPT ![n] = TRUE]
    /\ closed' = [closed EXCEPT ![n] = FALSE]
    /\ loops' = [loops EXCEPT ![n] = Append(@, "read")]
    /\ UNCHANGED <<backend, group, cancelled, stopping, localUp, origin,
                   sending, mailbox, local, refused, owed, busFaults>>

\* What Redis had for the node is lost with the connection.
CloseClient(n) ==
    /\ connected' = [connected EXCEPT ![n] = FALSE]
    /\ closed' = [closed EXCEPT ![n] = @ \/ connected[n]]
    /\ \/ /\ backend = "redis" /\ connected[n]
          /\ mailbox' = [mailbox EXCEPT ![n] = {}]
          /\ owed' = [owed EXCEPT ![n] = @ \ mailbox[n]]
       \/ /\ ~(backend = "redis" /\ connected[n])
          /\ UNCHANGED <<mailbox, owed>>

Disconnect(n) ==
    /\ connected[n]
    /\ stopping[n] = "no"
    /\ CloseClient(n)
    /\ UNCHANGED <<backend, group, cancelled, loops, stopping, localUp, origin,
                   sending, local, refused, busFaults>>

\* Stop cancels the context, disconnects and waits for the loops.
Stop(n) ==
    /\ stopping[n] = "no"
    /\ stopping' = [stopping EXCEPT ![n] = "waits"]
    /\ cancelled' = [cancelled EXCEPT ![n] = TRUE]
    /\ CloseClient(n)
    /\ UNCHANGED <<backend, group, loops, localUp, origin, sending, local,
                   refused, busFaults>>

LoopsOver(n) == \A i \in DOMAIN loops[n] : loops[n][i] = "over"

StopReturns(n) ==
    /\ stopping[n] = "waits"
    /\ LoopsOver(n)
    /\ stopping' = [stopping EXCEPT ![n] = "returned"]
    /\ UNCHANGED <<backend, group, connected, cancelled, closed, loops, localUp,
                   origin, sending, mailbox, local, refused, owed, busFaults>>

\* Run stops the local bus once the loops are over.
RunReturns(n) ==
    /\ localUp[n]
    /\ cancelled[n]
    /\ LoopsOver(n)
    /\ localUp' = [localUp EXCEPT ![n] = FALSE]
    /\ UNCHANGED <<backend, group, connected, cancelled, closed, loops, stopping,
                   origin, sending, mailbox, local, refused, owed, busFaults>>

----------------------------------------------------------------------------
(* Publish. *)

\* EventBus.Publish of the local bus takes the event or, when its channel is
\* full or its context done, drops it.
LocalTakes(n, e) ==
    /\ localUp[n]
    /\ local' = [local EXCEPT ![n][e] = @ + 1]
    /\ UNCHANGED <<refused, busFaults>>

LocalRefuses(n, e) ==
    /\ \/ ~localUp[n] /\ UNCHANGED busFaults
       \/ localUp[n] /\ busFaults < MaxFaults /\ busFaults' = busFaults + 1
    /\ refused' = [refused EXCEPT ![n] = @ \union {e}]
    /\ UNCHANGED local

\* First locally; what the local bus refuses is not sent.
Publish(n, e) ==
    /\ origin[e] = NoNode
    /\ Cardinality({d \in Events : origin[d] # NoNode}) < MaxPublished
    /\ origin' = [origin EXCEPT ![e] = n]
    /\ \/ /\ LocalTakes(n, e)
          /\ sending' = IF connected[n] THEN sending \union {e} ELSE sending
       \/ /\ LocalRefuses(n, e)
          /\ UNCHANGED sending
    /\ UNCHANGED <<backend, group, connected, cancelled, closed, loops, stopping,
                   localUp, mailbox, owed>>

\* The mailboxes a message goes to: the nodes that listen to its channel, or
\* every group that has a reader.
Listening(n) == connected[n] /\ \E i \in DOMAIN loops[n] : loops[n][i] # "over"
Audience(e) ==
    IF backend = "redis"
    THEN {n \in Nodes : Listening(n) /\ EventOf[e].kind \in getSubscriptionChannels}
    ELSE {group[n] : n \in {m \in Nodes : Listening(m)}}

\* publishToRedis, publishToKafka: the broker takes the message.
Send(e) ==
    /\ e \in sending
    /\ Serializes(e)
    /\ ~cancelled[origin[e]] /\ connected[origin[e]]
    /\ sending' = sending \ {e}
    /\ mailbox' = [b \in Mailboxes |->
           IF b \in Audience(e) THEN mailbox[b] \union {e} ELSE mailbox[b]]
    /\ owed' = [b \in Mailboxes |->
           IF \/ b \in Audience(e)
              \/ backend = "redis" /\ b \in Nodes /\ Listening(b)
           THEN owed[b] \union {e} ELSE owed[b]]
    /\ UNCHANGED <<backend, group, connected, cancelled, closed, loops, stopping,
                   localUp, origin, local, refused, busFaults>>

\* Or nobody hears of it: an event without a serialization, a node that has
\* stopped or disconnected, an error of the broker.
SendFails(e) ==
    /\ e \in sending
    /\ \/ ~Serializes(e) /\ UNCHANGED busFaults
       \/ (cancelled[origin[e]] \/ closed[origin[e]]) /\ UNCHANGED busFaults
       \/ /\ Serializes(e) /\ busFaults < MaxFaults
          /\ busFaults' = busFaults + 1
    /\ sending' = sending \ {e}
    /\ UNCHANGED <<backend, group, connected, cancelled, closed, loops, stopping,
                   localUp, origin, mailbox, local, refused, owed>>

----------------------------------------------------------------------------
(* subscribeLoop and consumeLoop. *)

\* A message is read; an echo and a message that cannot be decoded are dropped.
Receive(n, i) ==
    /\ loops[n][i] = "read"
    /\ connected[n] /\ ~cancelled[n]
    /\ \E e \in mailbox[Box(n)] :
           /\ mailbox' = [mailbox EXCEPT ![Box(n)] = @ \ {e}]
           /\ loops' = [loops EXCEPT ![n][i] =
                  IF IsEcho(n, e) \/ ~Decodes(e) THEN "read" ELSE e]
    /\ UNCHANGED <<backend, group, connected, cancelled, closed, stopping,
                   localUp, origin, sending, local, refused, owed, busFaults>>

\* localBus.Publish of what was received.
Deliver(n, i) ==
    /\ loops[n][i] \notin {"read", "over"}
    /\ LocalTakes(n, loops[n][i]) \/ LocalRefuses(n, loops[n][i])
    /\ loops' = [loops EXCEPT ![n][i] = "read"]
    /\ UNCHANGED <<backend, group, connected, cancelled, closed, stopping,
                   localUp, origin, sending, mailbox, owed>>

\* The context is done.  Until then a loop whose client was closed spins.
LoopEnds(n, i) ==
    /\ loops[n][i] = "read"
    /\ cancelled[n]
    /\ loops' = [loops EXCEPT ![n][i] = "over"]
    /\ UNCHANGED <<backend, group, connected, cancelled, closed, stopping,
                   localUp, origin, sending, mailbox, local, refused, owed,
                   busFaults>>

DistNext ==
    \/ \E n \in Nodes : \/ Connect(n)
                        \/ Disconnect(n)
                        \/ Stop(n)
                        \/ StopReturns(n)
                        \/ RunReturns(n)
                        \/ \E e \in Events : Publish(n, e)
                        \/ \E i \in DOMAIN loops[n] : \/ Receive(n, i)
                                                      \/ Deliver(n, i)
                                                      \/ LoopEnds(n, i)
    \/ \E e \in Events : Send(e) \/ SendFails(e)

DistSpec == DistInit /\ [][DistNext]_distVars

----------------------------------------------------------------------------
Handles(n, e) == \E i \in DOMAIN loops[n] : loops[n][i] = e

(* A local bus takes an event once at most: the publisher does not hear its  *)
(* own event back (redis_adapter.go:400, kafka_eventbus.go:293) and no loop  *)
(* hands on what another one has read, even after Kafka was connected twice. *)
TakenOnce ==
    \A n \in Nodes : \A e \in Events : local[n][e] <= 1

(* Members of one Kafka group share its messages. *)
OwnMailbox(n) == \A m \in Nodes \ {n} : Box(m) # Box(n)

(* What the broker took while a node was listening is not lost: it waits for *)
(* the node, is in its hands, or its local bus has taken or refused it.  This *)
(* is said of nodes that do not share a group, and of text that the envelope  *)
(* carries.                                                                   *)
BroadcastAccounted ==
    \A n \in Nodes : OwnMailbox(n) =>
        \A e \in owed[Box(n)] :
            origin[e] # n /\ Decodes(e) =>
                \/ e \in mailbox[Box(n)]
                \/ Handles(n, e)
                \/ local[n][e] > 0
                \/ e \in refused[n]

(* No event is heard twice, and none is lost on the way to a listening node. *)
HeardOnce == TakenOnce /\ BroadcastAccounted

(* Claim: "Kafka provides cross-node event broadcasting"                      *)
(* (kafka_eventbus.go:19): the same without the exceptions.                   *)
BroadcastReachesAll ==
    \A n \in Nodes : \A e \in owed[Box(n)] :
        origin[e] # n =>
            \/ e \in mailbox[Box(n)]
            \/ Handles(n, e)
            \/ local[n][e] > 0
            \/ e \in refused[n]
=============================================================================
