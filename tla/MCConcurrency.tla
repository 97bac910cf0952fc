---------------------------- MODULE MCConcurrency ----------------------------
(* The two groups of goroutines that indexing waits for: the worker pool of *)
(* FetchRangeConcurrent, and the event bus with two subscribers, one of     *)
(* which asks for a replay.  Each behaviour is one of the two.              *)
EXTENDS ConcurrentFetch

VARIABLES
    part,           \* "pool" or "bus"
    stopped,        \* the context of the bus is cancelled
    publisher, count, queue, bus, event, pending, history, registry, client,
    replay, sent, taken, closed, dropped, since, readers, writer, info, panicked

Subscribers == {"c1", "c2"}
Bus == INSTANCE EventBus WITH
    cancelled <- stopped,
    Clients <- Subscribers, Ids <- {"i1", "i2"},
    IdOf <- [c \in Subscribers |-> IF c = "c1" THEN "i1" ELSE "i2"],
    Wants <- [c \in Subscribers |-> {1}],
    ReplayLast <- [c \in Subscribers |-> IF c = "c1" THEN 0 ELSE 2],
    MaxEvents <- 1, PublishBuffer <- 1, ChannelSize <- 1, HistorySize <- 2,
    InfoCalls <- FALSE, None <- "nobody"

poolVars == <<jobs, jobsClosed, results, resultsClosed, sendHeight, worker,
              resultMap, nextHeight, collector, cancelled>>
busVars == <<stopped, publisher, count, queue, bus, event, pending, history,
             registry, client, replay, sent, taken, closed, dropped, since,
             readers, writer, info, panicked>>

MCInit == part \in {"pool", "bus"} /\ Init /\ Bus!Init
MCNext == /\ \/ part = "pool" /\ Next /\ UNCHANGED busVars
             \/ part = "bus" /\ Bus!Next /\ UNCHANGED poolVars
          /\ UNCHANGED part

MCSpec ==
    /\ MCInit /\ [][MCNext]_<<part, poolVars, busVars>>
    /\ part = "pool" => Fairness
    /\ part = "bus" => Bus!Fairness

\* FetchRangeConcurrent returns, whatever the channels hold, whatever fails and
\* whenever the context is cancelled (fetcher.go:476).
CallReturns == part = "pool" => Returns

\* Stop makes Run of the bus return, and so do Subscribe and Unsubscribe,
\* whoever holds the lock or leaves its channel full (bus.go:309, 362, 444).
BusCallsReturn == part = "bus" => Bus!StopReturns /\ Bus!CallsReturn

\* Run takes up every event that Publish has accepted, unless the bus is
\* stopped (bus.go:150).
AcceptedIsBroadcast == part = "bus" => Bus!AcceptedIsBroadcast
=============================================================================
