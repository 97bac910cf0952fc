------------------------------ MODULE Sessions ------------------------------
(***************************************************************************)
(* pkg/resilience: sessions that outlive their connections.  Events go to  *)
(* a cache and to the channel of the connection that is registered for the *)
(* session; a client that comes back resumes after the last event it has   *)
(* seen.  The stores have no lock and no transactions; only the map of     *)
(* active sessions has one.  Events are numbered in the order of their     *)
(* time stamps.  UpdateSessionSubscription is left out.                    *)
(***************************************************************************)
EXTENDS Integers, Sequences, FiniteSets

CONSTANTS
    Deliverers,   \* goroutines that call DeliverEvent
    ChanSize,     \* capacity of SendChan
    Limit,        \* MaxEventsPerSession
    MaxSessions, MaxConns, MaxSent  \* bounds

ASSUME LimitAssumption == Limit \in Nat \ {0}

VARIABLES
    saved,        \* session records: [state, expired], one client has them all
    byClient,     \* the session the client index names, 0 for none
    byState,      \* state index: <<state, session>>
    doomed,       \* sessions the clean-up has found expired
    activeConn,   \* session -> connection: activeSessions
    record, entry, \* cached events, and their entries in the time index
    sentTo,         \* events so far: the session of each
    wiped,        \* history: events removed by Cleanup
    conn,         \* connections, see NewConn
    lastSeen,     \* the last event the client has received, by session
    del           \* each deliverer: [at, e, k]

stores == <<saved, byClient, byState, doomed, record, entry, wiped>>
sessionVars == <<stores, activeConn, sentTo, conn, lastSeen, del>>

SessionIds == 1..MaxSessions
Resting == [at |-> "idle", e |-> 0, k |-> 0]
NewConn(s, after, at) == [s |-> s, after |-> after, at |-> at, up |-> TRUE, chan |-> <<>>, copy |-> [state |-> "", expired |-> FALSE],
                          missed |-> {}, left |-> <<>>, early |-> {}]

SessionsInit ==
    /\ saved = <<>> /\ byClient = 0 /\ byState = {} /\ doomed = {} /\ activeConn = <<>>
    /\ record = {} /\ entry = {} /\ sentTo = <<>> /\ wiped = {}
    /\ conn = <<>> /\ lastSeen = [s \in SessionIds |-> 0]
    /\ del = [d \in Deliverers |-> Resting]

With(f, k, v) == [x \in DOMAIN f \cup {k} |-> IF x = k THEN v ELSE f[x]]
Without(f, k) == [x \in DOMAIN f \ {k} |-> f[x]]
Step(k, r) == conn' = [conn EXCEPT ![k] = r]
ConnAt(k, l) == k \in DOMAIN conn /\ conn[k].at = l

\* Save writes the record and adds an entry to both indexes.
Save(s, state, expired) ==
    /\ saved' = With(saved, s, [state |-> state, expired |-> expired])
    /\ byClient' = s
    /\ byState' = byState \cup {<<state, s>>}

-----------------------------------------------------------------------------
(* Connections.                                                            *)

\* A disconnected, unexpired session of the client is used again; otherwise
\* a session is made.
HandleConnect ==
    /\ Len(conn) < MaxConns
    /\ LET s == byClient
           again == s \in DOMAIN saved /\ ~saved[s].expired /\ saved[s].state = "disconnected"
           new == 1 + Cardinality({conn[k].s : k \in DOMAIN conn})
       IN  /\ again \/ new \in SessionIds
           /\ conn' = Append(conn, NewConn(IF again THEN s ELSE new, 0, "save"))
    /\ UNCHANGED <<stores, activeConn, sentTo, lastSeen, del>>

\* HandleReconnect: a session that is gone or expired is refused.
HandleReconnect(s) ==
    /\ Len(conn) < MaxConns /\ s \in DOMAIN saved /\ ~saved[s].expired
    /\ conn' = Append(conn, NewConn(s, lastSeen[s], "resave"))
    /\ UNCHANGED <<stores, activeConn, sentTo, lastSeen, del>>

SaveActive(k) ==
    /\ ConnAt(k, "save") \/ ConnAt(k, "resave")
    /\ Save(conn[k].s, "active", FALSE)
    /\ Step(k, [conn[k] EXCEPT !.at = IF conn[k].at = "save" THEN "activate" ELSE "reactivate"])
    /\ UNCHANGED <<doomed, record, entry, wiped, activeConn, sentTo, lastSeen, del>>

\* Events of a session whose delivery has looked for a connection.
LookedUp(s) == {e \in DOMAIN sentTo : sentTo[e] = s /\ \A d \in Deliverers : del[d].e = e => del[d].at \notin {"store", "storeEntry", "lookup"}}

Activate(k) ==
    /\ ConnAt(k, "activate") \/ ConnAt(k, "reactivate")
    /\ activeConn' = With(activeConn, conn[k].s, k)
    /\ Step(k, IF conn[k].at = "activate" THEN [conn[k] EXCEPT !.at = "run"]
               ELSE [conn[k] EXCEPT !.at = "missed", !.early = LookedUp(conn[k].s)])
    /\ UNCHANGED <<stores, sentTo, lastSeen, del>>

\* Mutant: the limit counts what the client has seen already.
GetAfterLimitFirst(s, after) ==
    LET all == {e \in entry \cap record : sentTo[e] = s}
    IN  {e \in all : Cardinality({x \in all : x < e}) < Limit /\ (after \in record => e > after) /\ e # after}

\* GetAfter: entries of the session in the order of time, those whose record
\* is there and, if the last event is still known, that are later.
GetAfter(s, after) ==
    LET later == {e \in entry \cap record : sentTo[e] = s /\ (after \in record => e > after) /\ e # after}
    IN  {e \in later : Cardinality({x \in later : x < e}) < Limit}

InOrder(S) == [i \in 1..Cardinality(S) |-> CHOOSE e \in S : Cardinality({x \in S : x < e}) = i - 1]

GetMissed(k) ==
    /\ ConnAt(k, "missed")
    /\ LET m == GetAfter(conn[k].s, conn[k].after)
       IN  Step(k, [conn[k] EXCEPT !.at = "replay", !.missed = m, !.left = <<0>> \o InOrder(m) \o <<0>>])
    /\ UNCHANGED <<stores, activeConn, sentTo, lastSeen, del>>

\* ReplayEvents: the opening message, the events, the closing message, each
\* dropped when the channel is full; without the opening nothing follows.
Full(k) == Len(conn[k].chan) >= ChanSize
ReplayEvents(k) ==
    /\ ConnAt(k, "replay")
    /\ LET c == conn[k]
           first == Len(c.left) = Cardinality(c.missed) + 2
       IN  IF c.left = <<>> \/ (first /\ (Full(k) \/ c.s \notin DOMAIN activeConn))
           THEN Step(k, [NewConn(c.s, 0, "run") EXCEPT !.chan = c.chan, !.up = c.up])
           ELSE Step(k, [c EXCEPT !.left = Tail(@), !.chan = IF Full(k) THEN @ ELSE Append(@, Head(c.left))])
    /\ UNCHANGED <<stores, activeConn, sentTo, lastSeen, del>>

\* HandleDisconnect takes whatever connection is registered out of the map.
HandleDisconnect(k) ==
    /\ ConnAt(k, "run") /\ ~conn[k].up
    /\ activeConn' = Without(activeConn, conn[k].s)
    /\ Step(k, [conn[k] EXCEPT !.at = "read"])
    /\ UNCHANGED <<stores, sentTo, lastSeen, del>>

Closed(k) == [NewConn(conn[k].s, 0, "closed") EXCEPT !.up = FALSE]

\* UpdateState reads the record, removes its entry by state, and saves.
ReadState(k) ==
    /\ ConnAt(k, "read")
    /\ Step(k, IF conn[k].s \in DOMAIN saved
               THEN [conn[k] EXCEPT !.at = "disconnected", !.copy = saved[conn[k].s]]
               ELSE Closed(k))
    /\ UNCHANGED <<stores, activeConn, sentTo, lastSeen, del>>

UpdateState(k) ==
    /\ ConnAt(k, "disconnected")
    /\ saved' = With(saved, conn[k].s, [conn[k].copy EXCEPT !.state = "disconnected"])
    /\ byClient' = conn[k].s
    /\ byState' = (byState \ {<<conn[k].copy.state, conn[k].s>>}) \cup {<<"disconnected", conn[k].s>>}
    /\ Step(k, Closed(k))
    /\ UNCHANGED <<doomed, record, entry, wiped, activeConn, sentTo, lastSeen, del>>

\* External: the client reads its channel, or the connection breaks (a break
\* before the handler is done is noticed when it is).
ClientReceives(k) ==
    /\ k \in DOMAIN conn /\ conn[k].up /\ conn[k].chan # <<>>
    /\ Step(k, [conn[k] EXCEPT !.chan = Tail(@)])
    /\ lastSeen' = IF Head(conn[k].chan) = 0 THEN lastSeen ELSE [lastSeen EXCEPT ![conn[k].s] = Head(conn[k].chan)]
    /\ UNCHANGED <<stores, activeConn, sentTo, del>>

Break(k) ==
    /\ ConnAt(k, "replay") \/ ConnAt(k, "run")
    /\ conn[k].up
    /\ Step(k, [conn[k] EXCEPT !.up = FALSE, !.chan = <<>>])
    /\ UNCHANGED <<stores, activeConn, sentTo, lastSeen, del>>

-----------------------------------------------------------------------------
(* DeliverEvent.                                                           *)

DeliveryAt(d, r) == del' = [del EXCEPT ![d] = r]

\* The event gets its identifier and its time.
DeliverEvent(d, s) ==
    /\ del[d].at = "idle" /\ Len(sentTo) < MaxSent
    /\ sentTo' = Append(sentTo, s)
    /\ DeliveryAt(d, [at |-> "store", e |-> Len(sentTo) + 1, k |-> 0])
    /\ UNCHANGED <<stores, activeConn, conn, lastSeen>>

\* Store: the record, then its entry in the time index.
StoreRecord(d) ==
    /\ del[d].at \in {"store", "mark"}
    /\ record' = record \cup {del[d].e}
    /\ DeliveryAt(d, [del[d] EXCEPT !.at = IF @ = "store" THEN "storeEntry" ELSE "markEntry"])
    /\ UNCHANGED <<saved, byClient, byState, doomed, entry, wiped, activeConn, sentTo, conn, lastSeen>>

StoreEntry(d) ==
    /\ del[d].at \in {"storeEntry", "markEntry"}
    /\ entry' = entry \cup {del[d].e}
    /\ DeliveryAt(d, IF del[d].at = "storeEntry" THEN [del[d] EXCEPT !.at = "lookup"] ELSE Resting)
    /\ UNCHANGED <<saved, byClient, byState, doomed, record, wiped, activeConn, sentTo, conn, lastSeen>>

\* Without an active connection the event is left in the cache.
Lookup(d) ==
    LET s == sentTo[del[d].e]
    IN  /\ del[d].at = "lookup"
        /\ DeliveryAt(d, IF s \in DOMAIN activeConn THEN [del[d] EXCEPT !.at = "send", !.k = activeConn[s]]
                      ELSE Resting)
        /\ UNCHANGED <<stores, activeConn, sentTo, conn, lastSeen>>

\* A full channel drops the event; otherwise it is stored again as delivered.
SendOrDrop(d) ==
    LET k == del[d].k
    IN  /\ del[d].at = "send"
        /\ IF Full(k) THEN DeliveryAt(d, Resting) /\ UNCHANGED conn
           ELSE /\ DeliveryAt(d, [del[d] EXCEPT !.at = "mark"])
                /\ Step(k, [conn[k] EXCEPT !.chan = IF conn[k].up THEN Append(@, del[d].e) ELSE @])
        /\ UNCHANGED <<stores, activeConn, sentTo, lastSeen>>

-----------------------------------------------------------------------------
(* Time and the clean-up of both stores.                                   *)

Expires(s) ==
    /\ s \in DOMAIN saved /\ ~saved[s].expired
    /\ saved' = [saved EXCEPT ![s].expired = TRUE]
    /\ UNCHANGED <<byClient, byState, doomed, record, entry, wiped, activeConn, sentTo, conn, lastSeen, del>>

\* ExpireOldSessions looks first and deletes afterwards, without looking again.
FindExpired ==
    /\ doomed = {} /\ doomed' = {s \in DOMAIN saved : saved[s].expired} /\ doomed' # {}
    /\ UNCHANGED <<saved, byClient, byState, record, entry, wiped, activeConn, sentTo, conn, lastSeen, del>>

DeleteExpired(s) ==
    /\ s \in doomed /\ doomed' = doomed \ {s}
    /\ IF s \in DOMAIN saved
       THEN saved' = Without(saved, s) /\ byClient' = 0 /\ byState' = byState \ {<<saved[s].state, s>>}
       ELSE UNCHANGED <<saved, byClient, byState>>
    /\ UNCHANGED <<record, entry, wiped, activeConn, sentTo, conn, lastSeen, del>>

\* Cleanup removes the record and the entry of events that are too old.
Cleanup ==
    /\ \E e \in record : /\ \A x \in record : e <= x
                         /\ record' = record \ {e} /\ entry' = entry \ {e} /\ wiped' = wiped \cup {e}
    /\ UNCHANGED <<saved, byClient, byState, doomed, activeConn, sentTo, conn, lastSeen, del>>

SessionsNext ==
    \/ HandleConnect \/ FindExpired \/ Cleanup
    \/ \E s \in SessionIds : HandleReconnect(s) \/ Expires(s) \/ DeleteExpired(s)
    \/ \E k \in 1..MaxConns :
          \/ SaveActive(k) \/ Activate(k) \/ GetMissed(k) \/ ReplayEvents(k) \/ HandleDisconnect(k)
          \/ ReadState(k) \/ UpdateState(k) \/ ClientReceives(k) \/ Break(k)
    \/ \E d \in Deliverers :
          \/ StoreRecord(d) \/ StoreEntry(d) \/ Lookup(d) \/ SendOrDrop(d)
          \/ \E s \in DOMAIN saved : DeliverEvent(d, s)

SessionsSpec == SessionsInit /\ [][SessionsNext]_sessionVars

-----------------------------------------------------------------------------
\* There is no gap between what a resumed connection is told it has missed and
\* what it is sent live: every event after the last one its client has seen
\* whose delivery did not find this connection is in the answer of
\* HandleReconnect, unless the answer is full or the event has been wiped.
NoGapAtResume ==
    \A k \in DOMAIN conn : conn[k].at = "replay" =>
        \A e \in conn[k].early \ wiped :
            e > conn[k].after => e \in conn[k].missed \/ Cardinality(conn[k].missed) = Limit

\* Documented claim ("ListDisconnected returns all disconnected sessions"):
\* the index by state lists a session under its state only.
ListedByState == \A x \in byState : x[2] \in DOMAIN saved => saved[x[2]].state = x[1]
=============================================================================
