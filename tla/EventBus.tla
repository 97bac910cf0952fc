------------------------------ MODULE EventBus ------------------------------
(***************************************************************************)
(* pkg/events: the in-process broker between the fetcher and the           *)
(* subscribers of the APIs.  One goroutine (Run) takes events from the     *)
(* channel publishCh, keeps them in a ring buffer and sends each one,      *)
(* without blocking, to every subscriber that wants it; subscribers come   *)
(* and go concurrently (SubscribeWithOptions, Unsubscribe) under a         *)
(* sync.RWMutex, and a new one may ask for a replay of the ring buffer.    *)
(*                                                                         *)
(* An event is the number of its publication.  A subscriber's channel is   *)
(* the part of `sent' behind the first `taken' events: `sent' is all that  *)
(* was ever put on the channel of the subscription the client holds.       *)
(***************************************************************************)
EXTENDS Integers, Sequences

CONSTANTS
    Clients,        \* callers of Subscribe
    Ids,            \* subscription identifiers
    IdOf,           \* [Clients -> Ids]: the identifier each caller passes
    Wants,          \* [Clients -> SUBSET Events]: event types and filter
    ReplayLast,     \* [Clients -> Nat]: SubscribeOptions.ReplayLast
    MaxEvents,      \* bound on publications
    PublishBuffer,  \* capacity of publishCh
    ChannelSize,    \* capacity of a subscriber's channel
    HistorySize,    \* capacity of the ring buffer
    InfoCalls,      \* TRUE: the /subscribers endpoint is in use
    None            \* no subscription

Events == 1..MaxEvents

ASSUME BusAssumption ==
    /\ IdOf \in [Clients -> Ids]
    /\ Wants \in [Clients -> SUBSET Events]
    /\ ReplayLast \in [Clients -> Nat]
    /\ MaxEvents \in Nat
    /\ PublishBuffer \in Nat \ {0} /\ ChannelSize \in Nat \ {0} /\ HistorySize \in Nat \ {0}
    /\ InfoCalls \in BOOLEAN
    /\ None \notin Clients /\ None # "bus"
    /\ "bus" \notin Clients /\ "info" \notin Clients

VARIABLES
    cancelled,      \* eb.ctx is done (Stop was called)
    publisher,      \* Publish: "idle", or "checked" between its two selects
    count,          \* events accepted so far
    queue,          \* publishCh
    bus,            \* Run: "select", "broadcast", "send", "close", "done"
    event,          \* the event Run has in hand
    pending,        \* subscribers the broadcast has still to try
    history,        \* the ring buffer, oldest first
    registry,       \* eb.subscribers: the client whose subscription an id names
    client,         \* each client: "out", "checked", "replay" or "in"
    replay,         \* events still to replay to each client
    sent, taken,    \* what was put on the client's channel, what it has read
    closed,         \* the client's channel is closed
    dropped,        \* events dropped because the client's channel was full
    since,          \* history: first event broadcast after the registration
    readers,        \* holders of eb.mu.RLock
    writer,         \* the goroutine past the first half of eb.mu.Lock, or None
    info,           \* GetAllSubscriberInfo: "idle", "outer", "inner"
    panicked        \* a send on a closed channel has ended the process

publishing == <<publisher, count>>
running == <<queue, bus, event, pending, history>>
delivery == <<sent, closed, dropped, since, panicked>>
lock == <<readers, writer>>
vars == <<cancelled, publishing, running, registry, client, replay, delivery, taken, lock, info>>

Registered(c) == registry[IdOf[c]] = c

Init ==
    /\ cancelled = FALSE
    /\ publisher = "idle" /\ count = 0
    /\ queue = <<>> /\ bus = "select" /\ event = 0 /\ pending = {} /\ history = <<>>
    /\ registry = [id \in Ids |-> None]
    /\ client = [c \in Clients |-> "out"]
    /\ replay = [c \in Clients |-> <<>>]
    /\ sent = [c \in Clients |-> <<>>] /\ taken = [c \in Clients |-> 0]
    /\ closed = [c \in Clients |-> FALSE]
    /\ dropped = [c \in Clients |-> {}]
    /\ since = [c \in Clients |-> 0]
    /\ readers = {} /\ writer = None
    /\ info = "idle"
    /\ panicked = FALSE

-----------------------------------------------------------------------------
(* eb.mu, a sync.RWMutex.  Lock first keeps new readers out (one writer at *)
(* a time), then waits for the readers that are in.  A critical section    *)
(* under Lock is one step and ends with Unlock.                            *)

WantsLock(p) ==
    \/ p = "bus" /\ bus = "close"
    \/ p \in Clients /\ client[p] \in {"checked", "leaving"}

AcquireLock(p) ==
    /\ ~panicked /\ WantsLock(p) /\ writer = None
    /\ writer' = p
    /\ UNCHANGED <<cancelled, publishing, running, registry, client, replay, delivery, taken,
                   readers, info>>

HoldsLock(p) == writer = p /\ readers = {}

-----------------------------------------------------------------------------
(* Publish and Stop.                                                       *)

\* Publish looks at the context first and sends afterwards.
PublishCheck ==
    /\ ~panicked /\ publisher = "idle" /\ count < MaxEvents
    /\ ~cancelled
    /\ publisher' = "checked"
    /\ UNCHANGED <<cancelled, count, running, registry, client, replay, delivery, taken, lock, info>>

PublishSend ==
    /\ ~panicked /\ publisher = "checked"
    /\ publisher' = "idle"
    /\ \/ /\ Len(queue) < PublishBuffer
          /\ count' = count + 1
          /\ queue' = Append(queue, count + 1)
       \/ /\ Len(queue) = PublishBuffer          \* Publish returns false
          /\ UNCHANGED <<count, queue>>
    /\ UNCHANGED <<cancelled, bus, event, pending, history, registry, client, replay,
                   delivery, taken, lock, info>>

Stop ==
    /\ ~panicked /\ ~cancelled
    /\ cancelled' = TRUE
    /\ UNCHANGED <<publishing, running, registry, client, replay, delivery, taken, lock, info>>

-----------------------------------------------------------------------------
(* Run.                                                                    *)

\* Mutant: a drop is not counted.
DeliverUncounted(c, e) ==
    /\ ~closed[c] /\ UNCHANGED <<dropped, panicked>>
    /\ \/ Len(sent[c]) - taken[c] < ChannelSize /\ sent' = [sent EXCEPT ![c] = Append(@, e)]
       \/ Len(sent[c]) - taken[c] >= ChannelSize /\ UNCHANGED sent

\* A non-blocking send to the channel of c; on a closed channel it panics.
Deliver(c, e) ==
    \/ /\ closed[c]
       /\ panicked' = TRUE
       /\ UNCHANGED <<sent, dropped>>
    \/ /\ ~closed[c] /\ Len(sent[c]) - taken[c] < ChannelSize
       /\ sent' = [sent EXCEPT ![c] = Append(@, e)]
       /\ UNCHANGED <<dropped, panicked>>
    \/ /\ ~closed[c] /\ Len(sent[c]) - taken[c] >= ChannelSize
       /\ dropped' = [dropped EXCEPT ![c] = @ \cup {e}]
       /\ UNCHANGED <<sent, panicked>>

\* storeEventInHistory: the ring buffer forgets its oldest entry.
StoreEventInHistory(e) ==
    Append(IF Len(history) = HistorySize THEN Tail(history) ELSE history, e)

\* Mutant: an event waits in the channel until somebody has subscribed.
TakeEventForSomebody ==
    /\ ~panicked /\ bus = "select" /\ queue # <<>>
    /\ \E c \in Clients : Registered(c)
    /\ event' = Head(queue)
    /\ queue' = Tail(queue)
    /\ history' = StoreEventInHistory(Head(queue))
    /\ bus' = "broadcast"
    /\ UNCHANGED <<cancelled, publishing, pending, registry, client, replay, delivery, taken,
                   lock, info>>

TakeEvent ==
    /\ ~panicked /\ bus = "select" /\ queue # <<>>
    /\ event' = Head(queue)
    /\ queue' = Tail(queue)
    /\ history' = StoreEventInHistory(Head(queue))
    /\ bus' = "broadcast"
    /\ UNCHANGED <<cancelled, publishing, pending, registry, client, replay, delivery, taken,
                   lock, info>>

\* broadcastEvent under RLock, which waits for a goroutine already in Lock.
BeginBroadcast ==
    /\ ~panicked /\ bus = "broadcast" /\ writer = None
    /\ readers' = readers \cup {"bus"}
    /\ pending' = {c \in Clients : Registered(c) /\ event \in Wants[c]}
    /\ bus' = "send"
    /\ UNCHANGED <<cancelled, publishing, queue, event, history, registry, client, replay,
                   delivery, taken, writer, info>>

BroadcastTo(c) ==
    /\ ~panicked /\ bus = "send" /\ c \in pending
    /\ pending' = pending \ {c}
    /\ Deliver(c, event)
    /\ UNCHANGED <<cancelled, publishing, queue, bus, event, history, registry, client, replay,
                   closed, since, taken, lock, info>>

\* Mutant: an event somebody had no room for is broadcast again.
EndBroadcastRetry ==
    /\ ~panicked /\ bus = "send" /\ pending = {}
    /\ readers' = readers \ {"bus"}
    /\ bus' = IF \E c \in Clients : event \in dropped[c] THEN "broadcast" ELSE "select"
    /\ UNCHANGED <<cancelled, publishing, queue, event, pending, history, registry, client,
                   replay, delivery, taken, writer, info>>

EndBroadcast ==
    /\ ~panicked /\ bus = "send" /\ pending = {}
    /\ readers' = readers \ {"bus"}
    /\ bus' = "select"
    /\ UNCHANGED <<cancelled, publishing, queue, event, pending, history, registry, client,
                   replay, delivery, taken, writer, info>>

\* Mutant: Run waits for its subscribers to leave.
BeginCloseWhenAlone ==
    /\ ~panicked /\ bus = "select" /\ cancelled
    /\ \A id \in Ids : registry[id] = None
    /\ bus' = "close"
    /\ UNCHANGED <<cancelled, publishing, queue, event, pending, history, registry, client,
                   replay, delivery, taken, lock, info>>

\* With the context done and events queued the select may take either branch.
BeginClose ==
    /\ ~panicked /\ bus = "select" /\ cancelled
    /\ bus' = "close"
    /\ UNCHANGED <<cancelled, publishing, queue, event, pending, history, registry, client,
                   replay, delivery, taken, lock, info>>

CloseAllSubscriptions ==
    /\ ~panicked /\ bus = "close" /\ HoldsLock("bus")
    /\ writer' = None
    /\ closed' = [c \in Clients |-> closed[c] \/ Registered(c)]
    /\ registry' = [id \in Ids |-> None]
    /\ bus' = "done"
    /\ UNCHANGED <<cancelled, publishing, queue, event, pending, history, client, replay,
                   sent, dropped, since, panicked, taken, readers, info>>

-----------------------------------------------------------------------------
(* SubscribeWithOptions, Unsubscribe and the subscribers.                  *)

\* The first select; a cancelled bus returns nil.
SubscribeCheck(c) ==
    /\ ~panicked /\ client[c] = "out"
    /\ ~cancelled
    /\ client' = [client EXCEPT ![c] = "checked"]
    /\ UNCHANGED <<cancelled, publishing, running, registry, replay, delivery, taken, lock, info>>

\* Under Lock: a new channel, registered under the id whoever held it before.
Register(c) ==
    /\ ~panicked /\ client[c] = "checked" /\ HoldsLock(c)
    /\ writer' = None
    /\ registry' = [registry EXCEPT ![IdOf[c]] = c]
    /\ sent' = [sent EXCEPT ![c] = <<>>]
    /\ taken' = [taken EXCEPT ![c] = 0]
    /\ closed' = [closed EXCEPT ![c] = FALSE]
    /\ dropped' = [dropped EXCEPT ![c] = {}]
    /\ since' = [since EXCEPT ![c] = IF bus = "broadcast" THEN event ELSE event + 1]
    /\ client' = [client EXCEPT ![c] = IF ReplayLast[c] > 0 THEN "snapshot" ELSE "in"]
    /\ UNCHANGED <<cancelled, publishing, running, replay, panicked, readers, info>>

\* getRecentEvents: the last ReplayLast events of the ring buffer that match.
RecentEvents(c) ==
    LET matching == SelectSeq(history, LAMBDA e : e \in Wants[c])
        n == IF ReplayLast[c] > HistorySize THEN HistorySize ELSE ReplayLast[c]
    IN  IF Len(matching) > n THEN SubSeq(matching, Len(matching) - n + 1, Len(matching))
                             ELSE matching

Snapshot(c) ==
    /\ ~panicked /\ client[c] = "snapshot"
    /\ replay' = [replay EXCEPT ![c] = RecentEvents(c)]
    /\ client' = [client EXCEPT ![c] = "replay"]
    /\ UNCHANGED <<cancelled, publishing, running, registry, delivery, taken, lock, info>>

\* replayEventsToSubscriber holds no lock.
ReplayEvent(c) ==
    /\ ~panicked /\ client[c] = "replay" /\ replay[c] # <<>>
    /\ replay' = [replay EXCEPT ![c] = Tail(@)]
    /\ Deliver(c, Head(replay[c]))
    /\ UNCHANGED <<cancelled, publishing, running, registry, client, closed, since, taken,
                   lock, info>>

SubscribeReturns(c) ==
    /\ ~panicked /\ client[c] = "replay" /\ replay[c] = <<>>
    /\ client' = [client EXCEPT ![c] = "in"]
    /\ UNCHANGED <<cancelled, publishing, running, registry, replay, delivery, taken, lock, info>>

\* The subscriber reads its channel.
Receive(c) ==
    /\ ~panicked /\ client[c] = "in" /\ taken[c] < Len(sent[c])
    /\ taken' = [taken EXCEPT ![c] = @ + 1]
    /\ UNCHANGED <<cancelled, publishing, running, registry, client, replay, delivery, lock, info>>

\* Unsubscribe(id), under Lock, closes whatever the id names.
UnsubscribeCall(c) ==
    /\ ~panicked /\ client[c] = "in"
    /\ client' = [client EXCEPT ![c] = "leaving"]
    /\ UNCHANGED <<cancelled, publishing, running, registry, replay, delivery, taken, lock, info>>

\* Mutant: the entry is left in the map.
UnsubscribeKeepsEntry(c) ==
    /\ ~panicked /\ client[c] = "leaving" /\ HoldsLock(c)
    /\ writer' = None
    /\ closed' = [d \in Clients |-> closed[d] \/ registry[IdOf[c]] = d]
    /\ client' = [client EXCEPT ![c] = "out"]
    /\ UNCHANGED <<cancelled, publishing, running, registry, replay, sent, dropped, since,
                   panicked, taken, readers, info>>

Unsubscribe(c) ==
    /\ ~panicked /\ client[c] = "leaving" /\ HoldsLock(c)
    /\ writer' = None
    /\ closed' = [d \in Clients |-> closed[d] \/ registry[IdOf[c]] = d]
    /\ registry' = [registry EXCEPT ![IdOf[c]] = None]
    /\ client' = [client EXCEPT ![c] = "out"]
    /\ UNCHANGED <<cancelled, publishing, running, replay, sent, dropped, since, panicked,
                   taken, readers, info>>

-----------------------------------------------------------------------------
(* GetAllSubscriberInfo holds RLock and calls GetSubscriberInfo, which     *)
(* takes RLock again.                                                      *)

InfoOuter ==
    /\ ~panicked /\ InfoCalls /\ info = "idle" /\ writer = None
    /\ readers' = readers \cup {"info"}
    /\ info' = "outer"
    /\ UNCHANGED <<cancelled, publishing, running, registry, client, replay, delivery, taken, writer>>

InfoInner ==
    /\ ~panicked /\ info = "outer" /\ writer = None
    /\ info' = "inner"
    /\ UNCHANGED <<cancelled, publishing, running, registry, client, replay, delivery, taken, lock>>

InfoReturns ==
    /\ ~panicked
    /\ info = "inner" \/ (info = "outer" /\ registry = [id \in Ids |-> None])
    /\ readers' = readers \ {"info"}
    /\ info' = "idle"
    /\ UNCHANGED <<cancelled, publishing, running, registry, client, replay, delivery, taken, writer>>

-----------------------------------------------------------------------------
RunLoop ==
    \/ TakeEvent \/ BeginBroadcast \/ EndBroadcast
    \/ \E c \in Clients : BroadcastTo(c)
    \/ BeginClose \/ CloseAllSubscriptions

Subscriber(c) ==
    \/ SubscribeCheck(c) \/ Register(c) \/ Snapshot(c) \/ ReplayEvent(c) \/ SubscribeReturns(c)
    \/ Receive(c) \/ UnsubscribeCall(c) \/ Unsubscribe(c)

\* The steps a call of c in progress takes by itself.
CallInProgress(c) ==
    Register(c) \/ Snapshot(c) \/ ReplayEvent(c) \/ SubscribeReturns(c) \/ Unsubscribe(c)

Next ==
    \/ PublishCheck \/ PublishSend \/ Stop
    \/ RunLoop
    \/ \E c \in Clients : Subscriber(c)
    \/ \E p \in Clients \cup {"bus"} : AcquireLock(p)
    \/ InfoOuter \/ InfoInner \/ InfoReturns

Spec == Init /\ [][Next]_vars

\* Goroutines are scheduled, and a sync.RWMutex starves nobody: a waiting
\* reader gets in when the writer ahead of it unlocks, and writers queue.
\* Nobody has to publish, subscribe or read.
Fairness ==
    /\ WF_vars(RunLoop) /\ SF_vars(BeginBroadcast)
    /\ WF_vars(PublishSend)
    /\ \A c \in Clients : WF_vars(CallInProgress(c))
    /\ \A p \in Clients \cup {"bus"} : SF_vars(AcquireLock(p))
    /\ SF_vars(InfoInner) /\ WF_vars(InfoReturns)

FairSpec == Spec /\ Fairness

-----------------------------------------------------------------------------
(* Properties.                                                             *)

\* The values every variable ranges over.
TypeOK ==
    /\ cancelled \in BOOLEAN /\ panicked \in BOOLEAN
    /\ publisher \in {"idle", "checked"} /\ count \in 0..MaxEvents
    /\ queue \in Seq(Events) /\ Len(queue) <= PublishBuffer
    /\ bus \in {"select", "broadcast", "send", "close", "done"}
    /\ event \in 0..MaxEvents
    /\ pending \subseteq Clients
    /\ history \in Seq(Events) /\ Len(history) <= HistorySize
    /\ registry \in [Ids -> Clients \cup {None}]
    /\ client \in [Clients -> {"out", "checked", "snapshot", "replay", "in", "leaving"}]
    /\ replay \in [Clients -> Seq(Events)]
    /\ sent \in [Clients -> Seq(Events)] /\ taken \in [Clients -> Nat]
    /\ closed \in [Clients -> BOOLEAN]
    /\ dropped \in [Clients -> SUBSET Events]
    /\ since \in [Clients -> 0..MaxEvents + 1]
    /\ readers \subseteq {"bus", "info"}
    /\ writer \in Clients \cup {"bus", None}
    /\ info \in {"idle", "outer", "inner"}
    /\ \A c \in Clients : taken[c] <= Len(sent[c]) /\ Len(sent[c]) - taken[c] <= ChannelSize

Increasing(s) == \A m, n \in 1..Len(s) : m < n => s[m] < s[n]
Elements(s) == {s[n] : n \in 1..Len(s)}

\* A registered subscription has an open channel, also while a broadcast is
\* under way: Run never closes a channel twice nor sends on a closed one.
RegisteredIsOpen ==
    /\ \A id \in Ids : registry[id] # None => ~closed[registry[id]]
    /\ \A c \in pending : ~closed[c]

\* Without a replay a subscriber sees events in the order of publication and
\* none twice.
LiveOrder == \A c \in Clients : ReplayLast[c] = 0 => Increasing(sent[c])

\* Every event broadcast since the registration that the subscriber wants is
\* either put on its channel or counted as dropped, and never both.
EveryEventAccounted ==
    \A c \in Clients :
        Registered(c) /\ ReplayLast[c] = 0 =>
            LET seen == {e \in Wants[c] : since[c] <= e /\ e <= event
                           /\ ~(e = event /\ (bus = "broadcast" \/ c \in pending))}
            IN  /\ Elements(sent[c]) \cup dropped[c] = seen
                /\ Elements(sent[c]) \cap dropped[c] = {}

\* Stop makes Run return, whatever is queued and whoever subscribes.
StopReturns == cancelled ~> bus = "done" \/ panicked

\* An accepted event is taken up unless the bus is stopped.
AcceptedIsBroadcast ==
    \A e \in Events : count >= e ~> (event >= e /\ bus # "broadcast") \/ cancelled \/ panicked

\* A call of Subscribe or Unsubscribe returns.
CallsReturn ==
    \A c \in Clients : client[c] \in {"checked", "snapshot", "replay", "leaving"}
                         ~> client[c] \in {"in", "out"} \/ panicked

\* Documented ("the subscription is active immediately upon return"): a client
\* that has subscribed and not unsubscribed is registered until the bus stops.
SubscriptionActive ==
    \A c \in Clients : client[c] = "in" /\ ~cancelled => Registered(c)

\* Whoever is registered is served: its subscription is active until it leaves
\* or the bus stops, and every event it asked for is delivered, dropped and
\* counted, or still to come (bus.go:409, 262).
SubscribersServed == SubscriptionActive /\ EveryEventAccounted

\* Documented ("matching historical events will be delivered first"): replayed
\* events come before live ones, so a subscriber sees events in order.
ReplayFirst == \A c \in Clients : Increasing(sent[c])

\* Documented ("Stop gracefully stops the event bus"): no send on a closed
\* channel.
NoPanic == ~panicked

\* Documented ("GetAllSubscriberInfo returns information about all
\* subscribers"): the call returns.
InfoCallReturns == info # "idle" ~> info = "idle"
=============================================================================
