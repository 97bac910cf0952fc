--------------------------- MODULE Subscriptions ---------------------------
(***************************************************************************)
(* GraphQL subscriptions over WebSocket (pkg/api/graphql/subscription.go). *)
(* Each connection has a reader, a writer and one event loop per           *)
(* subscription; they share the channel send and the map of subscriptions. *)
(* The identifier the client chooses is also the key under which the       *)
(* subscription is registered with the event bus, for all connections.     *)
(* The bus appears as its table of subscribers and their channels; its     *)
(* queue and its replay are the subject of EventBus.                       *)
(***************************************************************************)
EXTENDS Integers, Sequences, FiniteSets

CONSTANTS
    Conns,
    SubIds,       \* identifiers the clients choose
    Queries,      \* requests: [names: the subscription names the text contains, filter]
    Events,       \* what the bus broadcasts, in this order
    SendSize,     \* capacity of send
    ChannelSize,  \* capacity of the channel of a subscription
    MaxObjects,   \* bound: subscriptions made
    NoFilter

VARIABLES
    bus,          \* identifier -> object registered under it
    obj,          \* subscriptions: [conn, id, kind, filter, chan, open, live]
    mine,         \* connection -> identifier -> object
    loop,         \* the event loop of each object: [at, event]
    reader, writer, \* where the pumps of each connection are
    todo,         \* identifiers cleanup has still to unsubscribe
    send, sendOpen, \* the channel send of each connection
    link,         \* state of the socket
    broadcasts,   \* events broadcast
    panicked      \* a goroutine has panicked: the process is gone

conns == <<mine, reader, writer, todo, send, sendOpen, link>>
vars == <<bus, obj, loop, conns, broadcasts, panicked>>

Init ==
    /\ bus = <<>> /\ obj = <<>> /\ loop = <<>>
    /\ mine = [c \in Conns |-> <<>>] /\ todo = [c \in Conns |-> {}]
    /\ reader = [c \in Conns |-> "read"] /\ writer = [c \in Conns |-> "run"]
    /\ send = [c \in Conns |-> <<>>] /\ sendOpen = [c \in Conns |-> TRUE]
    /\ link = [c \in Conns |-> "up"]
    /\ broadcasts = 0 /\ panicked = FALSE

Put(f, k, v) == [x \in DOMAIN f \cup {k} |-> IF x = k THEN v ELSE f[x]]
Del(f, k) == [x \in DOMAIN f \ {k} |-> f[x]]

-----------------------------------------------------------------------------
(* Requests and filters.                                                   *)

SubscriptionKinds == <<"newPendingTransactions", "systemContractEvents", "consensusValidatorChange",
           "consensusBlock", "consensusFork", "consensusError", "validatorSet", "chainConfig",
           "newBlock", "newTransaction", "logs">>

\* The first name of the list that the text of the query contains.
parseSubscriptionType(q) ==
    LET hits == {i \in DOMAIN SubscriptionKinds : SubscriptionKinds[i] \in q.names}
    IN  IF hits = {} THEN "" ELSE SubscriptionKinds[CHOOSE i \in hits : \A j \in hits : i <= j]

EventType(kind) == CASE kind = "newBlock" -> "block"
                     [] kind \in {"newTransaction", "newPendingTransactions"} -> "transaction"
                     [] kind = "logs" -> "log"
                     [] kind = "systemContractEvents" -> "systemContract"
                     [] OTHER -> kind

\* Only three kinds of subscription read the filter of the request.
buildFilter(kind, q) ==
    IF kind \in {"newTransaction", "logs", "systemContractEvents"} THEN q.filter ELSE NoFilter

Validate(f) == f = NoFilter \/ f.fromBlock = 0 \/ f.toBlock = 0 \/ f.fromBlock <= f.toBlock

\* The copy the bus keeps leaves the names of events out.
Clone(f) == IF f = NoFilter THEN f ELSE [f EXCEPT !.names = {}]

Any(S, x) == S = {} \/ x \in S
InRange(f, n) == (f.fromBlock > 0 => n >= f.fromBlock) /\ (f.toBlock > 0 => n <= f.toBlock)

MatchTransaction(f, e) ==
    /\ f.addrs # {} => {e.from, e.to} \cap f.addrs # {}
    /\ Any(f.from, e.from) /\ Any(f.to, e.to)

MatchLog(f, e) ==
    /\ Any(f.addrs, e.emitter)
    /\ \A i \in DOMAIN f.topics : f.topics[i] # {} => i <= Len(e.topics) /\ e.topics[i] \in f.topics[i]

MatchSystemContract(f, e) == Any(f.addrs, e.emitter) /\ Any(f.names, e.name)

Match(f, e) ==
    \/ f = NoFilter
    \/ /\ InRange(f, e.block)
       /\ CASE e.type = "block" -> TRUE
            [] e.type = "transaction" -> MatchTransaction(f, e)
            [] e.type = "log" -> MatchLog(f, e)
            [] e.type = "systemContract" -> MatchSystemContract(f, e)
            [] OTHER -> FALSE

-----------------------------------------------------------------------------
(* The channel send.                                                       *)

\* sendMessage: a full channel drops the message, a closed one panics.
sendMessage(c, m) ==
    /\ panicked' = ~sendOpen[c]
    /\ send' = IF sendOpen[c] /\ Len(send[c]) < SendSize
               THEN [send EXCEPT ![c] = Append(@, m)] ELSE send

Control == <<0, 0>>

\* readPump is in handleMessage only while a message has been read.
Reading(c) == reader[c] = "read" /\ link[c] = "up"

\* connection_init and ping are answered; so is a request that is refused.
Answer(c) ==
    /\ Reading(c)
    /\ sendMessage(c, Control)
    /\ UNCHANGED <<bus, obj, loop, mine, reader, writer, todo, sendOpen, link, broadcasts>>

Refused(q) == LET k == parseSubscriptionType(q) IN k = "" \/ ~Validate(buildFilter(k, q))

RefuseSubscribe(c) ==
    /\ Reading(c) /\ \E q \in Queries : Refused(q)
    /\ sendMessage(c, Control)
    /\ UNCHANGED <<bus, obj, loop, mine, reader, writer, todo, sendOpen, link, broadcasts>>

-----------------------------------------------------------------------------
(* Reader.                                                                 *)

\* handleSubscribe registers with the bus, where an older subscription with
\* the same identifier, of whatever connection, loses its place.
handleSubscribe(c, id, q) ==
    LET kind == parseSubscriptionType(q)
        n == Len(obj) + 1
    IN  /\ Reading(c) /\ n <= MaxObjects /\ ~Refused(q)
        /\ obj' = Append(obj, [conn |-> c, id |-> id, kind |-> kind, asked |-> buildFilter(kind, q),
                               chan |-> <<>>, open |-> TRUE, live |-> TRUE])
        /\ loop' = Append(loop, [at |-> "none", event |-> 0])
        /\ bus' = Put(bus, id, n)
        /\ reader' = [reader EXCEPT ![c] = "store"]
        /\ UNCHANGED <<mine, writer, todo, send, sendOpen, link, broadcasts, panicked>>

\* The map is told next, and the event loop starts.
StoreSubscription(c) ==
    LET n == CHOOSE i \in DOMAIN obj : obj[i].conn = c /\ loop[i].at = "none"
    IN  /\ reader[c] = "store"
        /\ mine' = [mine EXCEPT ![c] = Put(@, obj[n].id, n)]
        /\ loop' = [loop EXCEPT ![n].at = "wait"]
        /\ reader' = [reader EXCEPT ![c] = "read"]
        /\ UNCHANGED <<bus, obj, writer, todo, send, sendOpen, link, broadcasts, panicked>>

\* Cancel n, and close and drop whatever is registered with the bus as id.
Release(n, id) ==
    /\ obj' = [i \in DOMAIN obj |->
                 [obj[i] EXCEPT !.live = @ /\ i # n,
                                !.open = @ /\ ~(id \in DOMAIN bus /\ bus[id] = i)]]
    /\ bus' = Del(bus, id)

handleComplete(c, id) ==
    /\ Reading(c) /\ id \in DOMAIN mine[c]
    /\ Release(mine[c][id], id)
    /\ mine' = [mine EXCEPT ![c] = Del(@, id)]
    /\ UNCHANGED <<loop, reader, writer, todo, send, sendOpen, link, broadcasts, panicked>>

\* cleanup: the context of the connection ends, and with it that of every loop.
ReadFails(c) ==
    /\ reader[c] = "read" /\ link[c] = "down"
    /\ obj' = [i \in DOMAIN obj |-> [obj[i] EXCEPT !.live = @ /\ obj[i].conn # c]]
    /\ todo' = [todo EXCEPT ![c] = DOMAIN mine[c]]
    /\ reader' = [reader EXCEPT ![c] = "cleanup"]
    /\ UNCHANGED <<bus, loop, mine, writer, send, sendOpen, link, broadcasts, panicked>>

\* Mutant: cleanup cancels the loops and forgets the event bus.
CleanupCancels(c, id) ==
    /\ reader[c] = "cleanup" /\ id \in todo[c]
    /\ todo' = [todo EXCEPT ![c] = @ \ {id}]
    /\ UNCHANGED <<bus, obj, loop, mine, reader, writer, send, sendOpen, link, broadcasts, panicked>>

CleanupUnsubscribes(c, id) ==
    /\ reader[c] = "cleanup" /\ id \in todo[c]
    /\ Release(mine[c][id], id)
    /\ todo' = [todo EXCEPT ![c] = @ \ {id}]
    /\ UNCHANGED <<loop, mine, reader, writer, send, sendOpen, link, broadcasts, panicked>>

CloseSend(c) ==
    /\ reader[c] = "cleanup" /\ todo[c] = {}
    /\ mine' = [mine EXCEPT ![c] = <<>>]
    /\ sendOpen' = [sendOpen EXCEPT ![c] = FALSE]
    /\ reader' = [reader EXCEPT ![c] = "gone"]
    /\ UNCHANGED <<bus, obj, loop, writer, todo, send, link, broadcasts, panicked>>

cleanup(c) == (\E id \in todo[c] : CleanupUnsubscribes(c, id)) \/ CloseSend(c)

-----------------------------------------------------------------------------
(* Writer, event loops, and what is outside.                               *)

\* writePump ends at a failing write or when send is closed and drained.
writePump(c) ==
    /\ writer[c] = "run"
    /\ \/ /\ send[c] # <<>>
          /\ send' = [send EXCEPT ![c] = Tail(@)]
          /\ writer' = [writer EXCEPT ![c] = IF link[c] = "up" THEN "run" ELSE "gone"]
       \/ /\ send[c] = <<>> /\ ~sendOpen[c]
          /\ writer' = [writer EXCEPT ![c] = "gone"] /\ UNCHANGED send
    /\ UNCHANGED <<bus, obj, loop, mine, reader, todo, sendOpen, link, broadcasts, panicked>>

\* eventLoop: of several ready cases select takes any.
eventLoop(n) ==
    /\ loop[n].at = "wait"
    /\ \/ /\ ~obj[n].live \/ (obj[n].chan = <<>> /\ ~obj[n].open)
          /\ loop' = [loop EXCEPT ![n].at = "done"] /\ UNCHANGED obj
       \/ /\ obj[n].chan # <<>>
          /\ loop' = [loop EXCEPT ![n] = [at |-> "send", event |-> Head(obj[n].chan)]]
          /\ obj' = [obj EXCEPT ![n].chan = Tail(@)]
    /\ UNCHANGED <<bus, conns, broadcasts, panicked>>

\* handleEvent makes the payload its kind of subscription asks for, or none.
handleEvent(n) ==
    /\ loop[n].at = "send"
    /\ loop' = [loop EXCEPT ![n] = [at |-> "wait", event |-> 0]]
    /\ IF Events[loop[n].event].type = EventType(obj[n].kind)
       THEN sendMessage(obj[n].conn, <<n, loop[n].event>>)
       ELSE UNCHANGED <<send, panicked>>
    /\ UNCHANGED <<bus, obj, mine, reader, writer, todo, sendOpen, link, broadcasts>>

\* External: the bus offers the next event to every subscriber it matches.
Broadcast ==
    /\ broadcasts < Len(Events)
    /\ broadcasts' = broadcasts + 1
    /\ LET e == Events[broadcasts + 1]
           takes(i) == /\ \E id \in DOMAIN bus : bus[id] = i
                       /\ EventType(obj[i].kind) = e.type /\ Match(Clone(obj[i].asked), e)
                       /\ Len(obj[i].chan) < ChannelSize
       IN  obj' = [i \in DOMAIN obj |-> IF takes(i) THEN [obj[i] EXCEPT !.chan = Append(@, broadcasts + 1)] ELSE obj[i]]
    /\ UNCHANGED <<bus, loop, conns, panicked>>

\* External: the client closes, the network fails, or pongs do not come.
LinkBreaks(c) ==
    /\ link[c] = "up"
    /\ link' = [link EXCEPT ![c] = "down"]
    /\ UNCHANGED <<bus, obj, loop, mine, reader, writer, todo, send, sendOpen, broadcasts, panicked>>

ReaderStep(c) == StoreSubscription(c) \/ ReadFails(c) \/ cleanup(c)
LoopStep(n) == n \in DOMAIN loop /\ (eventLoop(n) \/ handleEvent(n))

Next ==
    /\ ~panicked
    /\ \/ Broadcast
       \/ \E c \in Conns :
             \/ Answer(c) \/ RefuseSubscribe(c) \/ ReaderStep(c) \/ writePump(c) \/ LinkBreaks(c)
             \/ \E id \in SubIds : handleComplete(c, id) \/ \E q \in Queries : handleSubscribe(c, id, q)
       \/ \E n \in DOMAIN loop : LoopStep(n)

\* Go runs every goroutine that can go on.
Fairness ==
    /\ \A c \in Conns : WF_vars(~panicked /\ ReaderStep(c)) /\ WF_vars(~panicked /\ writePump(c))
    /\ \A n \in 1..MaxObjects : WF_vars(~panicked /\ LoopStep(n))

-----------------------------------------------------------------------------
Gone(c) ==
    /\ reader[c] = "gone" /\ writer[c] = "gone"
    /\ \A i \in DOMAIN obj : obj[i].conn = c =>
          /\ loop[i].at = "done"
          /\ \A id \in DOMAIN bus : bus[id] # i

\* When a connection is lost, its reader, its writer and all its event loops
\* come to an end and nothing of it stays registered with the event bus, also
\* when identifiers were used twice, unless the process panics on the way.
GoneLeavesNothing == \A c \in Conns : link[c] = "down" ~> (panicked \/ Gone(c))

\* Documented claim: a connection that ends does not take the server with it.
NoPanic == ~panicked

\* Documented claim ("Used by system contract events to filter by event
\* types"): the events a subscription is sent are those its filter asks for.
FilteredAsAsked ==
    \A c \in Conns : \A i \in DOMAIN send[c] : send[c][i] # Control =>
        Match(obj[send[c][i][1]].asked, Events[send[c][i][2]])
=============================================================================
