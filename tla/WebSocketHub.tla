---------------------------- MODULE WebSocketHub ----------------------------
(***************************************************************************)
(* pkg/api/websocket: the hub's goroutine (Run), and for each connection   *)
(* the HTTP handler that registers it, a ReadPump and a WritePump.  The    *)
(* channels register and unregister are unbuffered, so a transfer on them  *)
(* is one step of the hub and of the other side.  The clients map is       *)
(* guarded by h.mu, and every critical section is a single step: only Stop *)
(* runs outside the hub's goroutine.                                       *)
(*                                                                         *)
(* An event is the number of its broadcast; the answer to a client's       *)
(* request is Reply.                                                       *)
(***************************************************************************)
EXTENDS Integers, Sequences, FiniteSets

CONSTANTS
    Clients,        \* connections
    MaxClients,     \* h.maxClients
    SendBuffer,     \* capacity of client.send
    BroadcastBuffer,\* capacity of h.broadcast
    MaxEvents,      \* bound on broadcast events
    MaxRequests     \* bound on the requests of a client

Reply == 0
Events == 1..MaxEvents

ASSUME HubAssumption ==
    /\ MaxClients \in Nat
    /\ SendBuffer \in Nat \ {0} /\ BroadcastBuffer \in Nat \ {0}
    /\ MaxEvents \in Nat /\ MaxRequests \in Nat

VARIABLES
    hub,        \* Run: "select" or "done"
    stopping,   \* Stop: "no", "signalled" (done is closed), "stopped"
    events,     \* events given to the hub so far
    broadcast,  \* h.broadcast
    members,    \* h.clients
    reader,     \* "none", "registering", "reading", "replying", "leaving", "gone"
    writer,     \* "none", "writing", "gone"
    subscribed, \* clients subscribed to the events
    requests,   \* requests read from each client
    send,       \* client.send
    closed,     \* client.send is closed
    delivered,  \* messages taken to be written to the connection
    panicked    \* "no", "send" or "close": the use of a closed channel

hubVars == <<hub, stopping>>
source == <<events, broadcast>>
pumps == <<reader, writer>>
channel == <<send, closed>>
vars == <<hubVars, source, members, pumps, subscribed, requests, channel, delivered, panicked>>

Alive == panicked = "no"

Init ==
    /\ hub = "select" /\ stopping = "no"
    /\ events = 0 /\ broadcast = <<>>
    /\ members = {}
    /\ reader = [c \in Clients |-> "none"] /\ writer = [c \in Clients |-> "none"]
    /\ subscribed = {}
    /\ requests = [c \in Clients |-> 0]
    /\ send = [c \in Clients |-> <<>>] /\ closed = [c \in Clients |-> FALSE]
    /\ delivered = [c \in Clients |-> <<>>]
    /\ panicked = "no"

-----------------------------------------------------------------------------
(* The hub.                                                                *)

\* close(client.send) of every client of S; closing twice panics.
CloseChannels(S) ==
    /\ closed' = [c \in Clients |-> closed[c] \/ c \in S]
    /\ panicked' = IF \E c \in S : closed[c] THEN "close" ELSE panicked

\* ServeHTTP: the upgraded connection waits for the hub.
Connect(c) ==
    /\ Alive /\ reader[c] = "none"
    /\ reader' = [reader EXCEPT ![c] = "registering"]
    /\ UNCHANGED <<hubVars, source, members, writer, subscribed, requests, channel, delivered, panicked>>

\* Mutant: the limit is checked after the client is in.
RegisterThenCheck(c) ==
    /\ Alive /\ hub = "select" /\ reader[c] = "registering"
    /\ members' = members \cup {c}
    /\ IF Cardinality(members) >= MaxClients
       THEN CloseChannels({c})
       ELSE UNCHANGED <<closed, panicked>>
    /\ reader' = [reader EXCEPT ![c] = "reading"]
    /\ writer' = [writer EXCEPT ![c] = "writing"]
    /\ UNCHANGED <<hubVars, source, subscribed, requests, send, delivered>>

\* A connection over the limit has its channel closed; its pumps start all
\* the same.
Register(c) ==
    /\ Alive /\ hub = "select" /\ reader[c] = "registering"
    /\ \/ /\ Cardinality(members) >= MaxClients
          /\ CloseChannels({c})
          /\ UNCHANGED members
       \/ /\ Cardinality(members) < MaxClients
          /\ members' = members \cup {c}
          /\ UNCHANGED <<closed, panicked>>
    /\ reader' = [reader EXCEPT ![c] = "reading"]
    /\ writer' = [writer EXCEPT ![c] = "writing"]
    /\ UNCHANGED <<hubVars, source, subscribed, requests, send, delivered>>

\* The end of ReadPump; then it closes the connection.
Unregister(c) ==
    /\ Alive /\ hub = "select" /\ reader[c] = "leaving"
    /\ CloseChannels(members \cap {c})
    /\ members' = members \ {c}
    /\ reader' = [reader EXCEPT ![c] = "gone"]
    /\ UNCHANGED <<hubVars, source, writer, subscribed, requests, send, delivered>>

BroadcastNewBlock ==
    /\ Alive /\ events < MaxEvents
    /\ events' = events + 1
    /\ broadcast' = IF Len(broadcast) < BroadcastBuffer THEN Append(broadcast, events + 1)
                                                       ELSE broadcast
    /\ UNCHANGED <<hubVars, members, pumps, subscribed, requests, channel, delivered, panicked>>

Full(c) == Len(send[c]) >= SendBuffer

\* A client whose buffer is full is cut off.
CutOff(S) == CloseChannels(S) /\ members' = members \ S

BroadcastEvent ==
    LET to == members \cap subscribed
        e == Head(broadcast)
    IN  /\ Alive /\ hub = "select" /\ broadcast # <<>>
        /\ broadcast' = Tail(broadcast)
        /\ send' = [c \in Clients |->
                      IF c \in to /\ ~Full(c) /\ ~closed[c] THEN Append(send[c], e) ELSE send[c]]
        /\ IF \E c \in to : closed[c]
           THEN panicked' = "send" /\ UNCHANGED <<closed, members>>
           ELSE CutOff({c \in to : Full(c)})
        /\ UNCHANGED <<hubVars, events, pumps, subscribed, requests, delivered>>

\* Stop closes done, then takes the lock; Run may still choose another branch
\* of its select until it sees done.
StopSignal ==
    /\ Alive /\ stopping = "no"
    /\ stopping' = "signalled"
    /\ UNCHANGED <<hub, source, members, pumps, subscribed, requests, channel, delivered, panicked>>

StopCleanUp ==
    /\ Alive /\ stopping = "signalled"
    /\ CloseChannels(members)
    /\ members' = {}
    /\ stopping' = "stopped"
    /\ UNCHANGED <<hub, source, pumps, subscribed, requests, send, delivered>>

RunReturns ==
    /\ Alive /\ hub = "select" /\ stopping # "no"
    /\ hub' = "done"
    /\ UNCHANGED <<stopping, source, members, pumps, subscribed, requests, channel, delivered, panicked>>

-----------------------------------------------------------------------------
(* The pumps of a client.                                                  *)

\* ReadPump and handleMessage: subscribe, unsubscribe, ping or nonsense; each
\* is answered.  What is buffered can be read after WritePump has closed the
\* connection.
ReadRequest(c) ==
    /\ Alive /\ reader[c] = "reading"
    /\ requests[c] < MaxRequests
    /\ requests' = [requests EXCEPT ![c] = @ + 1]
    /\ subscribed' \in {subscribed, subscribed \cup {c}, subscribed \ {c}}
    /\ reader' = [reader EXCEPT ![c] = "replying"]
    /\ UNCHANGED <<hubVars, source, members, writer, channel, delivered, panicked>>

\* sendMessage: without blocking; on a closed channel it panics.
SendReply(c) ==
    /\ Alive /\ reader[c] = "replying"
    /\ reader' = [reader EXCEPT ![c] = "reading"]
    /\ send' = [send EXCEPT ![c] = IF closed[c] \/ Full(c) THEN @ ELSE Append(@, Reply)]
    /\ panicked' = IF closed[c] THEN "send" ELSE panicked
    /\ UNCHANGED <<hubVars, source, members, writer, subscribed, requests, closed, delivered>>

\* The peer goes away, times out, or WritePump has closed the connection.
ReadError(c) ==
    /\ Alive /\ reader[c] = "reading"
    /\ reader' = [reader EXCEPT ![c] = "leaving"]
    /\ UNCHANGED <<hubVars, source, members, writer, subscribed, requests, channel, delivered, panicked>>

\* Mutants: what was written stays queued; a closed channel is ignored.
WriteAgain(c) ==
    /\ Alive /\ writer[c] = "writing"
    /\ send[c] # <<>>
    /\ delivered' = [delivered EXCEPT ![c] = Append(@, Head(send[c]))]
    /\ UNCHANGED <<hubVars, source, members, pumps, subscribed, requests, channel, panicked>>
WriteUntilError(c) ==
    /\ Alive /\ writer[c] = "writing"
    /\ send[c] # <<>>
    /\ delivered' = [delivered EXCEPT ![c] = Append(@, Head(send[c]))]
    /\ send' = [send EXCEPT ![c] = Tail(@)]
    /\ UNCHANGED <<hubVars, source, members, pumps, subscribed, requests, closed, panicked>>

\* WritePump takes a message for the frame it writes (all that is queued goes
\* into one frame), or ends because the channel is closed and drained.
Write(c) ==
    /\ Alive /\ writer[c] = "writing"
    /\ \/ /\ send[c] # <<>>
          /\ delivered' = [delivered EXCEPT ![c] = Append(@, Head(send[c]))]
          /\ send' = [send EXCEPT ![c] = Tail(@)]
          /\ UNCHANGED writer
       \/ /\ send[c] = <<>> /\ closed[c]
          /\ writer' = [writer EXCEPT ![c] = "gone"]
          /\ UNCHANGED <<send, delivered>>
    /\ UNCHANGED <<hubVars, source, members, reader, subscribed, requests, closed, panicked>>

\* A write or a ping fails.
WriteError(c) ==
    /\ Alive /\ writer[c] = "writing"
    /\ writer' = [writer EXCEPT ![c] = "gone"]
    /\ UNCHANGED <<hubVars, source, members, reader, subscribed, requests, channel, delivered, panicked>>

-----------------------------------------------------------------------------
HubStep ==
    \/ BroadcastEvent \/ RunReturns
    \/ \E c \in Clients : Register(c) \/ Unregister(c)
ReadPump(c) == ReadRequest(c) \/ SendReply(c) \/ ReadError(c)
WritePump(c) == Write(c) \/ WriteError(c)

Next ==
    \/ BroadcastNewBlock \/ StopSignal \/ StopCleanUp
    \/ HubStep
    \/ \E c \in Clients : Connect(c) \/ ReadPump(c) \/ WritePump(c)

Spec == Init /\ [][Next]_vars

\* The goroutines are scheduled, a select is fair to its ready branches, and a
\* read of a closed connection fails.  Peers, broadcasts and Stop come at will.
Fairness ==
    /\ WF_vars(HubStep) /\ WF_vars(StopCleanUp)
    /\ \A c \in Clients :
          /\ SF_vars(Register(c)) /\ SF_vars(Unregister(c))
          /\ WF_vars(SendReply(c)) /\ WF_vars(Write(c))
          /\ WF_vars(ReadError(c) /\ writer[c] = "gone")

FairSpec == Spec /\ Fairness

-----------------------------------------------------------------------------
(* Properties.                                                             *)

\* The values every variable ranges over.
TypeOK ==
    /\ hub \in {"select", "done"} /\ stopping \in {"no", "signalled", "stopped"}
    /\ events \in 0..MaxEvents
    /\ broadcast \in Seq(Events) /\ Len(broadcast) <= BroadcastBuffer
    /\ members \subseteq Clients /\ subscribed \subseteq Clients
    /\ reader \in [Clients -> {"none", "registering", "reading", "replying", "leaving", "gone"}]
    /\ writer \in [Clients -> {"none", "writing", "gone"}]
    /\ requests \in [Clients -> 0..MaxRequests]
    /\ closed \in [Clients -> BOOLEAN]
    /\ send \in [Clients -> Seq({Reply} \cup Events)]
    /\ \A c \in Clients : Len(send[c]) <= SendBuffer
    /\ delivered \in [Clients -> Seq({Reply} \cup Events)]
    /\ panicked \in {"no", "send", "close"}

\* The hub's own discipline: the channel of a registered client is open, so a
\* client rejected, cut off, leaving or stopped in any order is closed once,
\* and the limit is kept.
MembersOpen ==
    /\ \A c \in members : ~closed[c]
    /\ panicked # "close"
    /\ Cardinality(members) <= MaxClients

\* The messages of a client, those taken by its WritePump before the queued.
Trail(c) == delivered[c] \o send[c]

\* A client sees events in the order of the broadcasts, none twice, in its
\* connection and its buffer, whatever answers come between.
EventsInOrder ==
    \A c \in Clients : \A m, k \in 1..Len(Trail(c)) :
        m < k /\ Reply \notin {Trail(c)[m], Trail(c)[k]} => Trail(c)[m] < Trail(c)[k]

\* A connection that ends on one side ends on both, as long as the hub is not
\* stopped: being rejected or cut off, a failed write and a peer that leaves
\* each end reader and writer.
EndsOnBothSides ==
    \A c \in Clients :
        closed[c] \/ reader[c] = "leaving" \/ writer[c] = "gone"
            ~> (reader[c] = "gone" /\ writer[c] = "gone") \/ stopping # "no" \/ ~Alive

\* Documented ("Client buffer full, close the connection"): being cut off ends
\* the connection and nothing else, so no goroutine uses the closed channel.
NoPanic == Alive

\* Documented ("Stop stops the hub and closes all client connections. [...]
\* cleans up all clients"): after Stop every client's goroutines end.
StopCleansUp ==
    stopping = "stopped" ~> (~Alive \/ \A c \in Clients : reader[c] \in {"none", "gone"})
=============================================================================
