--------------------------- MODULE DeliveryProofs ---------------------------
(***************************************************************************)
(* The event bus, for any number of clients, any identifiers, any buffer   *)
(* sizes and any number of events: Run never sends on, nor closes, a       *)
(* closed channel; a subscriber has live events in order and none twice;   *)
(* every event it asked for is on its channel or counted as dropped.       *)
(* Clients may share identifiers, except where DistinctIds is assumed.     *)
(* And the watchlist: whether it can block, and what it records.           *)
(***************************************************************************)
EXTENDS EventBus, Watchlist, SequenceTheorems, FiniteSetTheorems,
        FunctionTheorems, WellFoundedInduction, TLAPS


\* The types the argument needs.
Types ==
    /\ registry \in [Ids -> Clients \cup {None}]
    /\ closed \in [Clients -> BOOLEAN]
    /\ pending \subseteq Clients

\* A channel is registered only under the identifier its client passed.
OwnEntry == \A id \in Ids : registry[id] # None => IdOf[registry[id]] = id

\* A broadcast in progress holds RLock, and whoever it still has to try is
\* registered: neither Unsubscribe nor closeAllSubscriptions can come between.
BroadcastIsLocked ==
    /\ bus = "send" => "bus" \in readers
    /\ pending # {} => bus = "send"
    /\ \A c \in pending : Registered(c)

RegistryOpen == \A id \in Ids : registry[id] # None => ~closed[registry[id]]

\* The inductive invariant.
IInv == Types /\ OwnEntry /\ BroadcastIsLocked /\ RegistryOpen

\* It says more than RegisteredIsOpen.
LEMMA IInvImplies == IInv => RegisteredIsOpen
  BY BusAssumption DEF IInv, Types, BroadcastIsLocked, RegistryOpen, RegisteredIsOpen, Registered

\* Nothing is registered at first.
LEMMA InitIInv == Init => IInv
  BY DEF Init, IInv, Types, OwnEntry, BroadcastIsLocked, RegistryOpen, Registered

\* Every step of every goroutine keeps it: the two that close channels do so
\* with no reader in.
LEMMA Inductive == IInv /\ [Next]_vars => IInv'
<1> SUFFICES ASSUME IInv, [Next]_vars PROVE IInv'
  OBVIOUS
<1> USE BusAssumption DEF IInv, Types, OwnEntry, BroadcastIsLocked, RegistryOpen, Registered
<1>1. CASE PublishCheck
  BY <1>1 DEF PublishCheck, running, delivery, lock
<1>2. CASE PublishSend
  BY <1>2 DEF PublishSend, delivery, lock
<1>3. CASE Stop
  BY <1>3 DEF Stop, running, delivery, lock
<1>4. CASE TakeEvent
  BY <1>4 DEF TakeEvent, delivery, lock
<1>5. CASE BeginBroadcast
  BY <1>5 DEF BeginBroadcast, delivery
<1>6. ASSUME NEW c \in Clients, BroadcastTo(c) PROVE IInv'
  BY <1>6 DEF BroadcastTo, lock
<1>7. CASE EndBroadcast
  BY <1>7 DEF EndBroadcast, delivery
<1>8. CASE BeginClose
  BY <1>8 DEF BeginClose, delivery, lock
<1>9. CASE CloseAllSubscriptions
  BY <1>9 DEF CloseAllSubscriptions, HoldsLock
<1>10. ASSUME NEW c \in Clients, SubscribeCheck(c) PROVE IInv'
  BY <1>10 DEF SubscribeCheck, running, delivery, lock
<1>11. ASSUME NEW c \in Clients, Register(c) PROVE IInv'
  <2>1. pending = {} /\ pending' = {} /\ bus' = bus /\ bus # "send"
    BY <1>11 DEF Register, HoldsLock, running
  <2>2. registry' = [registry EXCEPT ![IdOf[c]] = c] /\ closed' = [closed EXCEPT ![c] = FALSE]
    BY <1>11 DEF Register
  <2>3. Types' /\ OwnEntry' /\ RegistryOpen'
    BY <2>1, <2>2
  <2> QED
    BY <2>1, <2>3
<1>12. ASSUME NEW c \in Clients, Snapshot(c) PROVE IInv'
  BY <1>12 DEF Snapshot, running, delivery, lock
<1>13. ASSUME NEW c \in Clients, ReplayEvent(c) PROVE IInv'
  BY <1>13 DEF ReplayEvent, running, lock
<1>14. ASSUME NEW c \in Clients, SubscribeReturns(c) PROVE IInv'
  BY <1>14 DEF SubscribeReturns, running, delivery, lock
<1>15. ASSUME NEW c \in Clients, Receive(c) PROVE IInv'
  BY <1>15 DEF Receive, running, delivery, lock
<1>16. ASSUME NEW c \in Clients, UnsubscribeCall(c) PROVE IInv'
  BY <1>16 DEF UnsubscribeCall, running, delivery, lock
<1>17. ASSUME NEW c \in Clients, Unsubscribe(c) PROVE IInv'
  <2>1. pending = {} /\ pending' = {} /\ bus' = bus /\ bus # "send"
    BY <1>17 DEF Unsubscribe, HoldsLock, running
  <2>2. /\ registry' = [registry EXCEPT ![IdOf[c]] = None]
        /\ closed' = [d \in Clients |-> closed[d] \/ registry[IdOf[c]] = d]
    BY <1>17 DEF Unsubscribe
  <2>3. Types' /\ OwnEntry' /\ RegistryOpen'
    BY <2>1, <2>2
  <2> QED
    BY <2>1, <2>3
<1>18. ASSUME NEW p \in Clients \cup {"bus"}, AcquireLock(p) PROVE IInv'
  BY <1>18 DEF AcquireLock, running, delivery
<1>19. CASE InfoOuter
  BY <1>19 DEF InfoOuter, running, delivery
<1>20. CASE InfoInner
  BY <1>20 DEF InfoInner, running, delivery, lock
<1>21. CASE InfoReturns
  BY <1>21 DEF InfoReturns, running, delivery
<1>22. CASE UNCHANGED vars
  BY <1>22 DEF vars, running, delivery, lock
<1> QED
  BY <1>1, <1>2, <1>3, <1>4, <1>5, <1>6, <1>7, <1>8, <1>9, <1>10, <1>11, <1>12, <1>13, <1>14,
     <1>15, <1>16, <1>17, <1>18, <1>19, <1>20, <1>21, <1>22 DEF Next, RunLoop, Subscriber

\* In every reachable state a registered subscription, and every subscriber a
\* broadcast in progress has still to try, has an open channel: broadcastEvent
\* cannot send on a closed channel and no channel is closed twice, because
\* Unsubscribe and closeAllSubscriptions hold Lock and remove what they close.
THEOREM RegisteredStaysOpen == Spec => []RegisteredIsOpen
<1>1. Spec => []IInv
  BY InitIInv, Inductive, PTL DEF Spec
<1> QED
  BY <1>1, IInvImplies, PTL

-----------------------------------------------------------------------------
(* What subscribers without a replay get: each event once, in order, or a  *)
(* count of the drop.                                                      *)

\* The subscribers the claim is about: no other call sends to their channel.
Live(c) == ReplayLast[c] = 0

\* The event in hand is not yet on the channel of c.
NotYet(c) == bus = "broadcast" \/ c \in pending

\* The types this argument needs.
Shapes ==
    /\ count \in Int /\ event \in Int /\ queue \in Seq(Int)
    /\ DOMAIN sent = Clients /\ DOMAIN dropped = Clients /\ DOMAIN since = Clients
    /\ client \in [Clients -> {"out", "checked", "snapshot", "replay", "in", "leaving"}]
    /\ \A c \in Clients : since[c] \in Int
    /\ \A c \in Clients : Live(c) => sent[c] \in Seq(Int) /\ client[c] \notin {"snapshot", "replay"}

\* Events are taken up in the order of their numbers, none left out.
QueueInOrder ==
    /\ event = count - Len(queue)
    /\ \A n \in 1..Len(queue) : queue[n] = event + n

\* What was sent is no later than the event in hand, and earlier while that one
\* is still to come.
SentBefore ==
    \A c \in Clients : Live(c) =>
        \A n \in 1..Len(sent[c]) : sent[c][n] <= event /\ (NotYet(c) => sent[c][n] < event)

\* An event still to come for c is one c has registered for.
SinceBefore ==
    /\ \A c \in Clients : since[c] <= event + 1 /\ (NotYet(c) => since[c] <= event)
    /\ \A c \in pending : event \in Wants[c]

\* EveryEventAccounted, one subscriber at a time.
Accounted(c) ==
    /\ Elements(sent[c]) \cup dropped[c] =
          {e \in Wants[c] : since[c] <= e /\ e <= event /\ ~(e = event /\ NotYet(c))}
    /\ Elements(sent[c]) \cap dropped[c] = {}

AllAccounted == \A c \in Clients : Live(c) /\ Registered(c) => Accounted(c)

\* The inductive invariant of the accounts.
AInv == IInv /\ Shapes /\ QueueInOrder /\ SentBefore /\ SinceBefore /\ AllAccounted /\ LiveOrder

\* What a send does to a channel.
LEMMA AppendFacts ==
    ASSUME NEW s \in Seq(Int), NEW e \in Int
    PROVE  /\ Append(s, e) \in Seq(Int) /\ Elements(Append(s, e)) = Elements(s) \cup {e}
           /\ Len(Append(s, e)) = Len(s) + 1 /\ Len(s) \in Nat
           /\ \A n \in 1..Len(s) : Append(s, e)[n] = s[n]
           /\ Append(s, e)[Len(s) + 1] = e
           /\ 1..Len(Append(s, e)) = 1..Len(s) \cup {Len(s) + 1}
           /\ Increasing(s) /\ (\A n \in 1..Len(s) : s[n] < e) => Increasing(Append(s, e))
<1>1. /\ Append(s, e) \in Seq(Int) /\ Len(Append(s, e)) = Len(s) + 1 /\ Len(s) \in Nat
      /\ \A n \in 1..Len(s) : Append(s, e)[n] = s[n] /\ s[n] \in Int
      /\ Append(s, e)[Len(s) + 1] = e
      /\ 1..Len(Append(s, e)) = 1..Len(s) \cup {Len(s) + 1}
  OBVIOUS
<1> DEFINE t == Append(s, e)
<1> HIDE DEF t
<1>2. Elements(t) = Elements(s) \cup {e}
  <2>1. \A y \in Elements(t) : y \in Elements(s) \cup {e}
    BY <1>1 DEF Elements, t
  <2>2. \A y \in Elements(s) : y \in Elements(t)
    BY <1>1 DEF Elements, t
  <2>3. e \in Elements(t)
    <3>1. Len(s) + 1 \in 1..Len(t) /\ t[Len(s) + 1] = e
      BY <1>1 DEF t
    <3> QED
      BY <3>1 DEF Elements
  <2> QED
    BY <2>1, <2>2, <2>3
<1>3. ASSUME Increasing(s), \A n \in 1..Len(s) : s[n] < e PROVE Increasing(t)
  <2> SUFFICES ASSUME NEW m \in 1..Len(t), NEW n \in 1..Len(t), m < n PROVE t[m] < t[n]
    BY DEF Increasing
  <2>1. m \in 1..Len(s) /\ t[m] = s[m]
    BY <1>1 DEF t
  <2>2. CASE n \in 1..Len(s)
    BY <1>1, <1>3, <2>1, <2>2 DEF Increasing, t
  <2>3. CASE n = Len(s) + 1
    BY <1>1, <1>3, <2>1, <2>3 DEF t
  <2> QED
    BY <1>1, <2>2, <2>3 DEF t
<1> QED
  BY <1>1, <1>2, <1>3 DEF t

\* The numbers are integers, whatever is subscribed.
LEMMA EventFacts == ASSUME NEW c \in Clients PROVE Wants[c] \subseteq Int
  BY BusAssumption DEF Events

\* At first nothing is published, sent or registered.
LEMMA InitAInv == Init => AInv
<1> SUFFICES ASSUME Init PROVE AInv
  OBVIOUS
<1>1. IInv
  BY InitIInv
<1>2. Shapes
  BY DEF Init, Shapes, Live
<1>3. QueueInOrder /\ SinceBefore
  <2>1. count = 0 /\ event = 0 /\ Len(queue) = 0
    BY DEF Init
  <2>2. pending = {} /\ \A c \in Clients : since[c] = 0 /\ ~NotYet(c)
    BY DEF Init, NotYet
  <2>3. QueueInOrder
    <3>1. event = count - Len(queue)
      BY <2>1
    <3>2. \A n \in 1..Len(queue) : FALSE
      BY <2>1
    <3> QED
      BY <3>1, <3>2 DEF QueueInOrder
  <2>4. SinceBefore
    BY <2>1, <2>2 DEF SinceBefore
  <2> QED
    BY <2>3, <2>4
<1>4. SentBefore /\ LiveOrder
  BY DEF Init, SentBefore, LiveOrder, Increasing
<1>5. AllAccounted
  BY BusAssumption DEF Init, AllAccounted, Registered
<1> QED
  BY <1>1, <1>2, <1>3, <1>4, <1>5 DEF AInv

-----------------------------------------------------------------------------
\* The steps that move no event and register nobody.
LEMMA QuietStep ==
    ASSUME AInv, IInv',
           UNCHANGED <<event, count, queue, sent, dropped, since>>,
           client' \in [Clients -> {"out", "checked", "snapshot", "replay", "in", "leaving"}],
           \A c \in Clients : Live(c) => client'[c] \notin {"snapshot", "replay"},
           bus' = "broadcast" => bus = "broadcast",
           pending' = pending \/ (pending = {} /\ pending' = {}),
           bus = "broadcast" => bus' = "broadcast",
           \A c \in Clients : Registered(c)' => Registered(c)
    PROVE  AInv'
<1> USE DEF AInv
<1>1. pending' = pending /\ \A c : NotYet(c)' = NotYet(c)
  BY DEF NotYet
<1>2. Shapes' /\ QueueInOrder'
  BY DEF Shapes, QueueInOrder, Live
<1>3. SentBefore' /\ SinceBefore' /\ LiveOrder'
  BY <1>1 DEF SentBefore, SinceBefore, LiveOrder, Live
<1>4. AllAccounted'
  <2> SUFFICES ASSUME NEW c \in Clients, Live(c), Registered(c)' PROVE Accounted(c)'
    BY DEF AllAccounted, Live
  <2>1. Accounted(c)
    BY DEF AllAccounted
  <2> QED
    BY <1>1, <2>1 DEF Accounted
<1> QED
  BY <1>2, <1>3, <1>4

\* Publish gives the next number and puts it at the end of the channel.
LEMMA PublishStep == AInv /\ IInv' /\ PublishSend => AInv'
<1> SUFFICES ASSUME AInv, IInv', PublishSend PROVE AInv'
  OBVIOUS
<1> USE DEF AInv
<1>1. UNCHANGED <<bus, event, pending, registry, client, sent, dropped, since>>
  BY DEF PublishSend, delivery
<1>2. \A c : NotYet(c)' = NotYet(c) /\ Registered(c)' = Registered(c)
  BY <1>1 DEF NotYet, Registered
<1>3. CASE UNCHANGED <<count, queue>>
  BY <1>1, <1>2, <1>3, QuietStep DEF Shapes
<1>4. CASE count' = count + 1 /\ queue' = Append(queue, count + 1)
  <2>1. /\ queue' \in Seq(Int) /\ Len(queue') = Len(queue) + 1 /\ Len(queue) \in Nat
        /\ \A n \in 1..Len(queue) : queue'[n] = queue[n]
        /\ queue'[Len(queue) + 1] = count + 1
        /\ 1..Len(queue') = 1..Len(queue) \cup {Len(queue) + 1}
    BY <1>4, AppendFacts DEF Shapes
  <2>2. Shapes'
    BY <1>1, <1>4, <2>1 DEF Shapes, Live
  <2>3. event' = count' - Len(queue')
    BY <1>1, <1>4, <2>1 DEF QueueInOrder, Shapes
  <2>4. ASSUME NEW n \in 1..Len(queue') PROVE queue'[n] = event' + n
    <3>1. CASE n \in 1..Len(queue)
      BY <1>1, <2>1, <3>1 DEF QueueInOrder
    <3>2. CASE n = Len(queue) + 1
      BY <1>1, <2>1, <3>2 DEF QueueInOrder, Shapes
    <3> QED
      BY <2>1, <3>1, <3>2
  <2>5. SentBefore' /\ SinceBefore' /\ LiveOrder'
    BY <1>1, <1>2 DEF SentBefore, SinceBefore, LiveOrder, Live
  <2>6. AllAccounted'
    BY <1>1, <1>2 DEF AllAccounted, Accounted, Live
  <2> QED
    BY <2>2, <2>3, <2>4, <2>5, <2>6 DEF QueueInOrder
<1> QED
  BY <1>3, <1>4 DEF PublishSend

\* Run takes the next number in hand; it is still to come for everybody.
LEMMA TakeEventStep == AInv /\ IInv' /\ TakeEvent => AInv'
<1> SUFFICES ASSUME AInv, IInv', TakeEvent PROVE AInv'
  OBVIOUS
<1> USE DEF AInv
<1>1. /\ bus = "select" /\ bus' = "broadcast" /\ queue # <<>>
      /\ event' = Head(queue) /\ queue' = Tail(queue)
      /\ UNCHANGED <<count, pending, registry, client, sent, dropped, since>>
  BY DEF TakeEvent, delivery, publishing
<1>2. pending = {} /\ pending' = {}
  BY <1>1 DEF IInv, BroadcastIsLocked
<1>3. /\ queue' \in Seq(Int) /\ Len(queue') = Len(queue) - 1 /\ Len(queue) \in Nat \ {0}
      /\ \A n \in 1..Len(queue') : queue'[n] = queue[n + 1] /\ n + 1 \in 1..Len(queue)
      /\ event' = queue[1] /\ 1 \in 1..Len(queue)
  <2>1. queue \in Seq(Int)
    BY DEF Shapes
  <2> QED
    BY <1>1, <2>1
<1>4. event' = event + 1 /\ event \in Int /\ event' \in Int /\ count \in Int
  <2>1. event \in Int /\ count \in Int
    BY DEF Shapes
  <2>2. event = count - Len(queue) /\ \A n \in 1..Len(queue) : queue[n] = event + n
    BY DEF QueueInOrder
  <2>3. event' = event + 1
    BY <1>3, <2>2
  <2> QED
    BY <2>1, <2>3
<1>5. \A c : NotYet(c)' /\ ~NotYet(c) /\ Registered(c)' = Registered(c)
  BY <1>1, <1>2 DEF NotYet, Registered
<1>6. Shapes'
  BY <1>1, <1>3, <1>4 DEF Shapes, Live
<1>7. QueueInOrder'
  <2>1. event' = count' - Len(queue')
    BY <1>1, <1>3, <1>4 DEF QueueInOrder
  <2>2. ASSUME NEW n \in 1..Len(queue') PROVE queue'[n] = event' + n
    <3>1. queue'[n] = event + (n + 1)
      BY <1>3 DEF QueueInOrder
    <3> QED
      BY <1>3, <1>4, <3>1
  <2> QED
    BY <2>1, <2>2 DEF QueueInOrder
<1>8. SentBefore'
  <2> SUFFICES ASSUME NEW c \in Clients, Live(c), NEW n \in 1..Len(sent[c])
               PROVE  sent[c][n] < event'
    BY <1>1, <1>4, <1>6 DEF SentBefore, Live, Shapes
  <2>1. sent[c][n] <= event /\ sent[c][n] \in Int
    BY DEF SentBefore, Shapes
  <2> QED
    BY <1>4, <2>1
<1>9. SinceBefore'
  <2> SUFFICES ASSUME NEW c \in Clients PROVE since[c] <= event' /\ since[c] <= event' + 1
    BY <1>1, <1>2 DEF SinceBefore
  <2>1. since[c] <= event + 1 /\ since[c] \in Int
    BY DEF SinceBefore, Shapes
  <2> QED
    BY <1>4, <2>1
<1>10. AllAccounted'
  <2> SUFFICES ASSUME NEW c \in Clients, Live(c), Registered(c) PROVE Accounted(c)'
    BY <1>5 DEF AllAccounted, Live
  <2>1. Accounted(c)
    BY DEF AllAccounted
  <2>2. ASSUME NEW e \in Wants[c]
        PROVE  (e <= event /\ ~(e = event /\ NotYet(c))) <=> (e <= event' /\ ~(e = event' /\ NotYet(c)'))
    <3>1. e \in Int
      BY EventFacts
    <3>2. (e <= event) <=> (e <= event' /\ e # event')
      BY <1>4, <3>1
    <3> QED
      BY <1>5, <3>2
  <2> QED
    BY <1>1, <2>1, <2>2 DEF Accounted
<1>11. LiveOrder'
  BY <1>1 DEF LiveOrder
<1> QED
  BY <1>6, <1>7, <1>8, <1>9, <1>10, <1>11

\* The broadcast begins: the event is still to come for whoever wants it, and
\* no concern of the others.
LEMMA BeginBroadcastStep == AInv /\ IInv' /\ BeginBroadcast => AInv'
<1> SUFFICES ASSUME AInv, IInv', BeginBroadcast PROVE AInv'
  OBVIOUS
<1> USE DEF AInv
<1>1. /\ bus = "broadcast" /\ bus' = "send"
      /\ pending' = {c \in Clients : Registered(c) /\ event \in Wants[c]}
      /\ UNCHANGED <<count, event, queue, registry, client, sent, dropped, since>>
  BY DEF BeginBroadcast, delivery, publishing
<1>2. \A c \in Clients : /\ NotYet(c) /\ Registered(c)' = Registered(c)
                          /\ NotYet(c)' = (Registered(c) /\ event \in Wants[c])
  BY <1>1 DEF NotYet, Registered
<1>3. Shapes' /\ QueueInOrder' /\ LiveOrder'
  BY <1>1 DEF Shapes, QueueInOrder, LiveOrder, Live
<1>4. SentBefore' /\ SinceBefore'
  BY <1>1, <1>2 DEF SentBefore, SinceBefore, Live
<1>5. AllAccounted'
  <2> SUFFICES ASSUME NEW c \in Clients, Live(c), Registered(c) PROVE Accounted(c)'
    BY <1>2 DEF AllAccounted, Live
  <2>1. Accounted(c)
    BY DEF AllAccounted
  <2>2. \A e \in Wants[c] : ~(e = event /\ NotYet(c)) <=> ~(e = event /\ NotYet(c)')
    BY <1>2
  <2> QED
    BY <1>1, <2>1, <2>2 DEF Accounted
<1> QED
  BY <1>3, <1>4, <1>5

\* A send of the broadcast: the event goes on the channel or on the count.
LEMMA BroadcastToStep == ASSUME NEW c \in Clients, AInv, IInv', BroadcastTo(c) PROVE AInv'
<1> USE DEF AInv
<1>1. /\ bus = "send" /\ c \in pending /\ pending' = pending \ {c}
      /\ UNCHANGED <<bus, count, event, queue, registry, client, since>>
  BY DEF BroadcastTo, publishing
<1>2. /\ NotYet(c) /\ ~NotYet(c)' /\ Registered(c)
      /\ \A d \in Clients \ {c} : NotYet(d)' = NotYet(d)
      /\ \A d \in Clients : Registered(d)' = Registered(d) /\ (NotYet(d)' => NotYet(d))
  BY <1>1 DEF NotYet, Registered, IInv, BroadcastIsLocked
<1>3. ~closed[c]
  BY <1>1, IInvImplies DEF RegisteredIsOpen
<1>4. /\ event \in Wants[c] /\ event \in Int /\ since[c] <= event
      /\ DOMAIN sent = Clients /\ DOMAIN dropped = Clients
      /\ Live(c) => sent[c] \in Seq(Int) /\ \A n \in 1..Len(sent[c]) : sent[c][n] < event
  BY <1>1, <1>2 DEF SinceBefore, Shapes, SentBefore
<1>5. \/ sent' = [sent EXCEPT ![c] = Append(sent[c], event)] /\ dropped' = dropped
      \/ dropped' = [dropped EXCEPT ![c] = dropped[c] \cup {event}] /\ sent' = sent
  BY <1>3 DEF BroadcastTo, Deliver
<1>6. /\ DOMAIN sent' = Clients /\ DOMAIN dropped' = Clients
      /\ \A d \in Clients \ {c} : sent'[d] = sent[d] /\ dropped'[d] = dropped[d]
      /\ \/ sent'[c] = Append(sent[c], event) /\ dropped'[c] = dropped[c]
         \/ sent'[c] = sent[c] /\ dropped'[c] = dropped[c] \cup {event}
  BY <1>4, <1>5
<1>7. ASSUME Live(c)
      PROVE  /\ sent'[c] \in Seq(Int) /\ Increasing(sent'[c])
             /\ \A n \in 1..Len(sent'[c]) : sent'[c][n] <= event
  <2>1. Increasing(sent[c]) /\ sent[c] \in Seq(Int)
    BY <1>4, <1>7 DEF LiveOrder, Live
  <2>2. CASE sent'[c] = Append(sent[c], event)
    <3>1. sent'[c] \in Seq(Int) /\ Increasing(sent'[c])
      BY <1>4, <1>7, <2>1, <2>2, AppendFacts
    <3>2. ASSUME NEW n \in 1..Len(sent'[c]) PROVE sent'[c][n] <= event
      <4>1. n \in 1..Len(sent[c]) \/ n = Len(sent[c]) + 1
        BY <1>4, <2>1, <2>2, AppendFacts
      <4>2. n \in 1..Len(sent[c]) => sent'[c][n] = sent[c][n] /\ sent[c][n] \in Int
        BY <1>4, <2>1, <2>2, AppendFacts
      <4>3. n = Len(sent[c]) + 1 => sent'[c][n] = event
        BY <1>4, <2>1, <2>2, AppendFacts
      <4> QED
        BY <1>4, <1>7, <4>1, <4>2, <4>3
    <3> QED
      BY <3>1, <3>2
  <2>3. CASE sent'[c] = sent[c]
    BY <1>7, <2>1, <2>3 DEF SentBefore
  <2> QED
    BY <1>6, <2>2, <2>3
<1>8. Shapes'
  <2>1. ASSUME NEW d \in Clients, Live(d) PROVE sent'[d] \in Seq(Int) /\ client[d] \notin {"snapshot", "replay"}
    BY <1>6, <1>7, <2>1 DEF Shapes
  <2> QED
    BY <1>1, <1>6, <2>1 DEF Shapes, Live
<1>9. QueueInOrder'
  BY <1>1 DEF QueueInOrder
<1>10. SentBefore'
  <2> SUFFICES ASSUME NEW d \in Clients, Live(d), NEW n \in 1..Len(sent'[d])
               PROVE  sent'[d][n] <= event /\ (NotYet(d)' => sent'[d][n] < event)
    BY <1>1 DEF SentBefore, Live
  <2>1. CASE d = c
    BY <1>2, <1>7, <2>1
  <2>2. CASE d # c
    BY <1>2, <1>6, <2>2 DEF SentBefore
  <2> QED
    BY <2>1, <2>2
<1>11. SinceBefore'
  BY <1>1, <1>2 DEF SinceBefore
<1>12. AllAccounted'
  <2> SUFFICES ASSUME NEW d \in Clients, Live(d), Registered(d) PROVE Accounted(d)'
    BY <1>2 DEF AllAccounted, Live
  <2>1. Accounted(d)
    BY DEF AllAccounted
  <2>2. CASE d # c
    BY <1>1, <1>2, <1>6, <2>1, <2>2 DEF Accounted
  <2>3. CASE d = c
    <3>1. event \notin Elements(sent[c]) \cup dropped[c]
      BY <1>2, <2>1, <2>3 DEF Accounted
    <3>2. \/ Elements(sent'[c]) = Elements(sent[c]) \cup {event} /\ dropped'[c] = dropped[c]
          \/ Elements(sent'[c]) = Elements(sent[c]) /\ dropped'[c] = dropped[c] \cup {event}
      <4>1. Elements(Append(sent[c], event)) = Elements(sent[c]) \cup {event}
        BY <1>4, <2>3, AppendFacts
      <4> QED
        BY <1>6, <4>1
    <3>3. {e \in Wants[c] : since[c] <= e /\ e <= event}
            = {e \in Wants[c] : since[c] <= e /\ e <= event /\ e # event} \cup {event}
      BY <1>4
    <3>4. /\ Elements(sent[c]) \cup dropped[c] = {e \in Wants[c] : since[c] <= e /\ e <= event /\ e # event}
          /\ Elements(sent[c]) \cap dropped[c] = {}
      BY <1>2, <2>1, <2>3 DEF Accounted
    <3>5. /\ Elements(sent'[c]) \cup dropped'[c] = {e \in Wants[c] : since[c] <= e /\ e <= event}
          /\ Elements(sent'[c]) \cap dropped'[c] = {}
      BY <3>1, <3>2, <3>3, <3>4
    <3> QED
      BY <1>1, <1>2, <2>3, <3>5 DEF Accounted
  <2> QED
    BY <2>2, <2>3
<1>13. LiveOrder'
  BY <1>6, <1>7 DEF LiveOrder, Live
<1> QED
  BY <1>8, <1>9, <1>10, <1>11, <1>12, <1>13

\* A registration opens an empty account, from the next broadcast on.
LEMMA RegisterStep == ASSUME NEW c \in Clients, AInv, IInv', Register(c) PROVE AInv'
<1> USE DEF AInv
<1>1. /\ registry' = [registry EXCEPT ![IdOf[c]] = c]
      /\ sent' = [sent EXCEPT ![c] = <<>>] /\ dropped' = [dropped EXCEPT ![c] = {}]
      /\ since' = [since EXCEPT ![c] = IF bus = "broadcast" THEN event ELSE event + 1]
      /\ client' = [client EXCEPT ![c] = IF ReplayLast[c] > 0 THEN "snapshot" ELSE "in"]
      /\ UNCHANGED <<bus, count, event, queue, pending>>
  BY DEF Register, running, publishing
<1>2. pending = {} /\ event \in Int
  BY DEF Register, HoldsLock, IInv, BroadcastIsLocked, Shapes
<1>3. \A d \in Clients : NotYet(d)' = NotYet(d) /\ (NotYet(d) <=> bus = "broadcast")
  BY <1>1, <1>2 DEF NotYet
<1>4. /\ sent'[c] = <<>> /\ dropped'[c] = {} /\ DOMAIN sent' = Clients /\ DOMAIN dropped' = Clients
      /\ \A d \in Clients \ {c} : sent'[d] = sent[d] /\ dropped'[d] = dropped[d] /\ since'[d] = since[d]
      /\ DOMAIN since' = Clients /\ since'[c] = (IF bus = "broadcast" THEN event ELSE event + 1)
  BY <1>1 DEF Shapes
<1>4a. since'[c] <= event + 1 /\ (NotYet(c) => since'[c] <= event)
  <2>1. CASE bus = "broadcast"
    BY <1>2, <1>3, <1>4, <2>1
  <2>2. CASE bus # "broadcast"
    BY <1>2, <1>3, <1>4, <2>2
  <2> QED
    BY <2>1, <2>2
<1>5. /\ client' \in [Clients -> {"out", "checked", "snapshot", "replay", "in", "leaving"}]
      /\ \A d \in Clients : Live(d) => client'[d] \notin {"snapshot", "replay"}
  <2>1. client \in [Clients -> {"out", "checked", "snapshot", "replay", "in", "leaving"}]
    BY DEF Shapes
  <2>2. Live(c) => client'[c] = "in"
    BY <1>1, <2>1 DEF Live
  <2> QED
    BY <1>1, <2>1, <2>2 DEF Shapes
<1>6. Shapes'
  <2>1. \A d \in Clients : since'[d] \in Int
    BY <1>2, <1>4 DEF Shapes
  <2>2. \A d \in Clients : Live(d) => sent'[d] \in Seq(Int)
    <3>1. <<>> \in Seq(Int)
      OBVIOUS
    <3> QED
      BY <1>4, <3>1 DEF Shapes
  <2> QED
    BY <1>1, <1>4, <1>5, <2>1, <2>2 DEF Shapes, Live
<1>7. QueueInOrder'
  BY <1>1 DEF QueueInOrder
<1>8. 1..Len(sent'[c]) = {} /\ Elements(sent'[c]) = {} /\ Increasing(sent'[c])
  BY <1>4 DEF Elements, Increasing
<1>9. SentBefore'
  BY <1>1, <1>3, <1>4, <1>8 DEF SentBefore, Live
<1>10. LiveOrder'
  BY <1>4, <1>8 DEF LiveOrder
<1>11. SinceBefore'
  <2> SUFFICES ASSUME NEW d \in Clients
               PROVE  since'[d] <= event + 1 /\ (NotYet(d) => since'[d] <= event)
    BY <1>1, <1>2, <1>3 DEF SinceBefore
  <2>1. CASE d = c
    BY <1>4a, <2>1
  <2>2. CASE d # c
    BY <1>4, <2>2 DEF SinceBefore
  <2> QED
    BY <2>1, <2>2
<1>12. AllAccounted'
  <2> SUFFICES ASSUME NEW d \in Clients, Live(d), Registered(d)' PROVE Accounted(d)'
    BY DEF AllAccounted, Live
  <2>1. CASE d = c
    <3>1. ASSUME NEW e \in Wants[c] PROVE ~(since'[c] <= e /\ e <= event /\ ~(e = event /\ NotYet(c)))
      <4>1. e \in Int
        BY EventFacts
      <4>2. CASE bus = "broadcast"
        <5>1. NotYet(c) /\ since'[c] = event
          BY <1>3, <1>4, <4>2
        <5>2. event <= e /\ e <= event => e = event
          BY <1>2, <4>1
        <5> QED
          BY <5>1, <5>2
      <4>3. CASE bus # "broadcast"
        <5>1. since'[c] = event + 1
          BY <1>4, <4>3
        <5> QED
          BY <1>2, <4>1, <5>1
      <4> QED
        BY <4>2, <4>3
    <3> QED
      BY <1>1, <1>3, <1>4, <1>8, <2>1, <3>1 DEF Accounted
  <2>2. CASE d # c
    <3>1. Registered(d)
      BY <1>1, <2>2, BusAssumption DEF Registered, IInv, Types
    <3> QED
      BY <1>1, <1>3, <1>4, <2>2, <3>1 DEF AllAccounted, Accounted
  <2> QED
    BY <2>1, <2>2
<1> QED
  BY <1>6, <1>7, <1>9, <1>10, <1>11, <1>12

\* A replay goes to the channel of a subscriber that asked for it, and of no other.
LEMMA ReplayStep == ASSUME NEW c \in Clients, AInv, IInv', ReplayEvent(c) PROVE AInv'
<1> USE DEF AInv
<1>1. /\ UNCHANGED <<bus, count, event, queue, pending, registry, client, since>>
      /\ client[c] = "replay" /\ ~Live(c)
  BY DEF ReplayEvent, running, publishing, Shapes
<1>2. /\ DOMAIN sent' = Clients /\ DOMAIN dropped' = Clients
      /\ \A d \in Clients \ {c} : sent'[d] = sent[d] /\ dropped'[d] = dropped[d]
  BY DEF ReplayEvent, Deliver, Shapes
<1>3. \A d : NotYet(d)' = NotYet(d) /\ Registered(d)' = Registered(d)
  BY <1>1 DEF NotYet, Registered
<1>4. Shapes' /\ QueueInOrder'
  BY <1>1, <1>2 DEF Shapes, QueueInOrder, Live
<1>5. SentBefore' /\ SinceBefore' /\ LiveOrder'
  BY <1>1, <1>2, <1>3 DEF SentBefore, SinceBefore, LiveOrder, Live
<1>6. AllAccounted'
  <2> SUFFICES ASSUME NEW d \in Clients, Live(d), Registered(d) PROVE Accounted(d)'
    BY <1>3 DEF AllAccounted, Live
  <2> QED
    BY <1>1, <1>2, <1>3 DEF AllAccounted, Accounted
<1> QED
  BY <1>4, <1>5, <1>6

\* Every step keeps the accounts.
LEMMA NextAInv == AInv /\ [Next]_vars => AInv'
<1> SUFFICES ASSUME AInv, [Next]_vars PROVE AInv'
  OBVIOUS
<1>1. IInv /\ IInv'
  BY Inductive DEF AInv
<1>2. /\ client \in [Clients -> {"out", "checked", "snapshot", "replay", "in", "leaving"}]
      /\ \A c \in Clients : Live(c) => client[c] \notin {"snapshot", "replay"}
  BY DEF AInv, Shapes
<1>3. CASE PublishCheck \/ Stop \/ BeginClose \/ InfoOuter \/ InfoInner \/ InfoReturns \/ UNCHANGED vars
  <2>1. /\ UNCHANGED <<event, count, queue, sent, dropped, since, client, pending, registry>>
        /\ bus' = "broadcast" <=> bus = "broadcast"
    BY <1>3 DEF PublishCheck, Stop, BeginClose, InfoOuter, InfoInner, InfoReturns, vars,
                publishing, running, delivery
  <2> QED
    BY <1>1, <1>2, <2>1, QuietStep DEF Registered
<1>4. CASE PublishSend
  BY <1>1, <1>4, PublishStep
<1>5. CASE TakeEvent
  BY <1>1, <1>5, TakeEventStep
<1>6. CASE BeginBroadcast
  BY <1>1, <1>6, BeginBroadcastStep
<1>7. CASE EndBroadcast
  <2>1. /\ UNCHANGED <<event, count, queue, sent, dropped, since, client, pending, registry>>
        /\ bus' = "select" /\ bus = "send"
    BY <1>7 DEF EndBroadcast, publishing, delivery
  <2> QED
    BY <1>1, <1>2, <2>1, QuietStep DEF Registered
<1>8. CASE CloseAllSubscriptions
  <2>1. /\ UNCHANGED <<event, count, queue, sent, dropped, since, client, pending>>
        /\ bus' = "done" /\ bus = "close" /\ registry' = [id \in Ids |-> None]
    BY <1>8 DEF CloseAllSubscriptions, publishing
  <2>2. \A c \in Clients : ~Registered(c)'
    BY <2>1, BusAssumption DEF Registered
  <2> QED
    BY <1>1, <1>2, <2>1, <2>2, QuietStep
<1>9. ASSUME NEW c \in Clients, BroadcastTo(c) PROVE AInv'
  BY <1>1, <1>9, BroadcastToStep
<1>10. ASSUME NEW c \in Clients, Register(c) PROVE AInv'
  BY <1>1, <1>10, RegisterStep
<1>11. ASSUME NEW c \in Clients, ReplayEvent(c) PROVE AInv'
  BY <1>1, <1>11, ReplayStep
<1>12. ASSUME NEW c \in Clients,
              SubscribeCheck(c) \/ Snapshot(c) \/ SubscribeReturns(c) \/ Receive(c) \/ UnsubscribeCall(c)
       PROVE  AInv'
  <2>1. /\ UNCHANGED <<event, count, queue, sent, dropped, since, bus, pending, registry>>
        /\ \E l \in {"out", "checked", "snapshot", "replay", "in", "leaving"} :
              client' = [client EXCEPT ![c] = l]
              /\ (l \in {"snapshot", "replay"} => client[c] \in {"snapshot", "replay"})
    <3>1. \/ client' = [client EXCEPT ![c] = "checked"]
          \/ client' = [client EXCEPT ![c] = "replay"] /\ client[c] = "snapshot"
          \/ client' = [client EXCEPT ![c] = "in"]
          \/ client' = [client EXCEPT ![c] = "leaving"]
          \/ client' = client /\ client[c] = "in"
      BY <1>12 DEF SubscribeCheck, Snapshot, SubscribeReturns, Receive, UnsubscribeCall
    <3>2. client[c] = "in" => client = [client EXCEPT ![c] = "in"]
      BY <1>2
    <3>3. UNCHANGED <<event, count, queue, sent, dropped, since, bus, pending, registry>>
      BY <1>12 DEF SubscribeCheck, Snapshot, SubscribeReturns, Receive, UnsubscribeCall,
                   publishing, running, delivery
    <3> QED
      BY <3>1, <3>2, <3>3
  <2>2. /\ client' \in [Clients -> {"out", "checked", "snapshot", "replay", "in", "leaving"}]
        /\ \A d \in Clients : Live(d) => client'[d] \notin {"snapshot", "replay"}
    BY <1>2, <2>1
  <2> QED
    BY <1>1, <2>1, <2>2, QuietStep DEF Registered
<1>13. ASSUME NEW c \in Clients, Unsubscribe(c) PROVE AInv'
  <2>1. /\ UNCHANGED <<event, count, queue, sent, dropped, since, bus, pending>>
        /\ client' = [client EXCEPT ![c] = "out"] /\ registry' = [registry EXCEPT ![IdOf[c]] = None]
    BY <1>13 DEF Unsubscribe, publishing, running
  <2>2. \A d \in Clients : Registered(d)' => Registered(d)
    BY <1>1, <2>1, BusAssumption DEF Registered, IInv, Types
  <2>3. /\ client' \in [Clients -> {"out", "checked", "snapshot", "replay", "in", "leaving"}]
        /\ \A d \in Clients : Live(d) => client'[d] \notin {"snapshot", "replay"}
    BY <1>2, <2>1
  <2> QED
    BY <1>1, <2>1, <2>2, <2>3, QuietStep
<1>14. ASSUME NEW p \in Clients \cup {"bus"}, AcquireLock(p) PROVE AInv'
  <2>1. UNCHANGED <<event, count, queue, sent, dropped, since, client, bus, pending, registry>>
    BY <1>14 DEF AcquireLock, publishing, running, delivery
  <2> QED
    BY <1>1, <1>2, <2>1, QuietStep DEF Registered
<1> QED
  BY <1>3, <1>4, <1>5, <1>6, <1>7, <1>8, <1>9, <1>10, <1>11, <1>12, <1>13, <1>14
     DEF Next, RunLoop, Subscriber

\* A subscriber without a replay reads events in the order of publication and
\* none twice, whatever other clients share its identifier, replay or leave
\* (bus.go:262).
THEOREM EventsArriveInOrder == Spec => []LiveOrder
<1>1. AInv => LiveOrder
  BY DEF AInv
<1> QED
  BY <1>1, InitAInv, NextAInv, PTL DEF Spec

-----------------------------------------------------------------------------
\* The accounts of the invariant are the property.
LEMMA AccountsAreKept == AInv => EveryEventAccounted
<1> SUFFICES ASSUME AInv, NEW c \in Clients, Registered(c), ReplayLast[c] = 0
             PROVE  LET seen == {e \in Wants[c] : since[c] <= e /\ e <= event
                                   /\ ~(e = event /\ (bus = "broadcast" \/ c \in pending))}
                    IN  /\ Elements(sent[c]) \cup dropped[c] = seen
                        /\ Elements(sent[c]) \cap dropped[c] = {}
  BY DEF EveryEventAccounted
<1>1. Accounted(c)
  BY DEF AInv, AllAccounted, Live
<1> QED
  BY <1>1 DEF Accounted, NotYet

\* Clients share no identifier.  This is a condition on the clients: GraphQL
\* passes on the identifier that the WebSocket client chose
\* (graphql/subscription.go:342), and a second Subscribe under it takes the
\* registration over, so that SubscriptionActive fails of the first.
DistinctIds == \A c, d \in Clients : IdOf[c] = IdOf[d] => c = d

\* Run closes subscriptions only once the bus is stopped.
ClosesWhenStopped == bus \in {"close", "done"} => cancelled

\* From the registration to the end of Unsubscribe the subscription is there.
StaysRegistered ==
    \A c \in Clients :
        client[c] \in {"snapshot", "replay", "in", "leaving"} /\ ~cancelled => Registered(c)

SInv == AInv /\ ClosesWhenStopped /\ StaysRegistered

\* With identifiers of their own no subscriber can remove another's entry.
LEMMA NextSInv == ASSUME DistinctIds, SInv, [Next]_vars PROVE SInv'
<1>1. AInv /\ AInv' /\ Types /\ client \in [Clients -> {"out", "checked", "snapshot", "replay", "in", "leaving"}]
  BY NextAInv DEF SInv, AInv, IInv, Shapes
<1> USE BusAssumption DEF SInv, ClosesWhenStopped, StaysRegistered, Registered, Types
<1>2. CASE PublishCheck \/ PublishSend \/ Stop \/ InfoOuter \/ InfoInner \/ InfoReturns \/ UNCHANGED vars
  <2>1. UNCHANGED <<client, registry, bus>> /\ (cancelled => cancelled')
    BY <1>2 DEF PublishCheck, PublishSend, Stop, InfoOuter, InfoInner, InfoReturns, vars, running
  <2> QED
    BY <1>1, <2>1
<1>3. CASE TakeEvent \/ BeginBroadcast \/ EndBroadcast \/ \E c \in Clients : BroadcastTo(c)
  <2>1. UNCHANGED <<client, registry, cancelled>> /\ bus' \notin {"close", "done"}
    BY <1>3 DEF TakeEvent, BeginBroadcast, EndBroadcast, BroadcastTo
  <2> QED
    BY <1>1, <2>1
<1>4. CASE BeginClose
  BY <1>1, <1>4 DEF BeginClose
<1>5. CASE CloseAllSubscriptions
  BY <1>1, <1>5 DEF CloseAllSubscriptions
<1>6. ASSUME NEW c \in Clients, Register(c) PROVE SInv'
  <2>1. /\ registry' = [registry EXCEPT ![IdOf[c]] = c] /\ UNCHANGED <<cancelled, bus>>
        /\ \A d \in Clients \ {c} : client'[d] = client[d]
    BY <1>1, <1>6 DEF Register, running
  <2> QED
    BY <1>1, <2>1 DEF DistinctIds
<1>7. ASSUME NEW c \in Clients,
             SubscribeCheck(c) \/ Snapshot(c) \/ ReplayEvent(c) \/ SubscribeReturns(c) \/ Receive(c)
               \/ UnsubscribeCall(c)
      PROVE  SInv'
  <2>1. /\ UNCHANGED <<registry, cancelled, bus>>
        /\ \A d \in Clients \ {c} : client'[d] = client[d]
        /\ client'[c] = "checked" \/ client[c] \in {"snapshot", "replay", "in"}
    BY <1>1, <1>7 DEF SubscribeCheck, Snapshot, ReplayEvent, SubscribeReturns, Receive, UnsubscribeCall, running
  <2> QED
    BY <1>1, <2>1
<1>8. ASSUME NEW c \in Clients, Unsubscribe(c) PROVE SInv'
  <2>1. /\ registry' = [registry EXCEPT ![IdOf[c]] = None] /\ UNCHANGED <<cancelled, bus>>
        /\ client'[c] = "out" /\ \A d \in Clients \ {c} : client'[d] = client[d]
    BY <1>1, <1>8 DEF Unsubscribe, running
  <2> QED
    BY <1>1, <2>1 DEF DistinctIds
<1>9. ASSUME NEW p \in Clients \cup {"bus"}, AcquireLock(p) PROVE SInv'
  BY <1>1, <1>9 DEF AcquireLock, running
<1> QED
  BY <1>2, <1>3, <1>4, <1>5, <1>6, <1>7, <1>8, <1>9 DEF Next, RunLoop, Subscriber

\* A subscription is active from the return of Subscribe until its client
\* leaves or the bus stops, and every event it asked for since is on its
\* channel or counted as dropped, and never both (bus.go:262, 409).
THEOREM SubscribersAreServed == ASSUME DistinctIds PROVE Spec => []SubscribersServed
<1>1. Init => SInv
  BY InitAInv DEF Init, SInv, ClosesWhenStopped, StaysRegistered
<1>2. SInv /\ [Next]_vars => SInv'
  BY NextSInv
<1>3. SInv => SubscribersServed
  BY AccountsAreKept DEF SInv, SubscribersServed, SubscriptionActive, StaysRegistered
<1> QED
  BY <1>1, <1>2, <1>3, PTL DEF Spec

\* The accounts alone need no such hypothesis: they hold of subscribers that
\* share an identifier too, as long as the registry names them (bus.go:262).
THEOREM AccountsHold == Spec => []EveryEventAccounted
  BY AccountsAreKept, InitAInv, NextAInv, PTL DEF Spec

-----------------------------------------------------------------------------
(* Facts about numbers.                                                     *)

\* A set of numbers has a smallest one.
LEMMA Smallest ==
    ASSUME NEW T \in SUBSET Nat, T # {}
    PROVE  \E m \in T : \A n \in T : m <= n
<1> DEFINE R == OpToRel(<, Nat)
<1>1. \A n, m \in Nat : n < m => <<n, m>> \in R
  BY Zenon DEF OpToRel
<1>2. IsWellFoundedOn(R, Nat)
  BY NatLessThanWellFounded, Zenon
<1> HIDE DEF R
<1>3. PICK m \in T : \A y \in T : ~(<<y, m>> \in R)
  BY <1>2, WFMin
<1>4. ASSUME NEW n \in T PROVE m <= n
  <2>1. n \in Nat /\ m \in Nat /\ ~(n < m)
    BY <1>1, <1>3
  <2> QED
    BY <2>1
<1> QED
  BY <1>4

-----------------------------------------------------------------------------
(* The watchlist.  Whoever waits has taken a prefix of its plan, so that    *)
(* without a Subscribe in the middle of its plan nobody holds subMu.        *)

OneLock == {"Watch", "Unsubscribe"}
TwoLocks == {"Unwatch", "Subscribe", "ProcessBlock"}

\* The locks in hand are the beginning of the plan that the place of the
\* caller implies.
OnPlan(p) ==
    /\ at[p] \in {"idle", "lock", "run"}
    /\ at[p] = "idle" => held[p] = <<>>
    /\ at[p] # "idle" => op[p].name \in OneLock \cup TwoLocks
    /\ at[p] = "lock" => \/ held[p] = <<>>
                         \/ op[p].name \in TwoLocks /\ held[p] = <<Plan(op[p])[1]>>
    /\ at[p] = "run" => held[p] = <<Plan(op[p])[1]>> \/ held[p] = Plan(op[p])

LocksOnPlan ==
    /\ op = [p \in Threads |-> op[p]] /\ held = [p \in Threads |-> held[p]] /\ at = [p \in Threads |-> at[p]]
    /\ \A p \in Threads : OnPlan(p)

LEMMA PlanLength ==
    ASSUME NEW o PROVE /\ o.name \in OneLock => Plan(o) = <<Plan(o)[1]>>
                       /\ o.name \in TwoLocks => Plan(o) = <<Plan(o)[1], Plan(o)[2]>>
<1>1. CASE o.name = "Watch" BY <1>1 DEF Plan, OneLock, TwoLocks
<1>2. CASE o.name = "Unwatch" BY <1>2 DEF Plan, OneLock, TwoLocks
<1>3. CASE o.name = "Subscribe" BY <1>3 DEF Plan, OneLock, TwoLocks
<1>4. CASE o.name = "Unsubscribe" BY <1>4 DEF Plan, OneLock, TwoLocks
<1>5. CASE o.name = "ProcessBlock" BY <1>5 DEF Plan, OneLock, TwoLocks
<1> QED BY <1>1, <1>2, <1>3, <1>4, <1>5 DEF OneLock, TwoLocks

\* Which locks the plans are made of.
LEMMA PlanLocks ==
    ASSUME NEW o, o.name \in OneLock \cup TwoLocks
    PROVE  /\ Plan(o)[1] \in {<<"mu", "W">>, <<"mu", "R">>, <<"subMu", "W">>}
           /\ o.name \in TwoLocks /\ o.name # "Subscribe" =>
                 Plan(o)[1] \in {<<"mu", "W">>, <<"mu", "R">>} /\ Plan(o)[2] \in {<<"subMu", "W">>, <<"subMu", "R">>}
<1>1. CASE o.name = "Watch" BY <1>1 DEF Plan, OneLock, TwoLocks
<1>2. CASE o.name = "Unwatch" BY <1>2 DEF Plan, OneLock, TwoLocks
<1>3. CASE o.name = "Subscribe" BY <1>3 DEF Plan, OneLock, TwoLocks
<1>4. CASE o.name = "Unsubscribe" BY <1>4 DEF Plan, OneLock, TwoLocks
<1>5. CASE o.name = "ProcessBlock" BY <1>5 DEF Plan, OneLock, TwoLocks
<1> QED BY <1>1, <1>2, <1>3, <1>4, <1>5 DEF OneLock, TwoLocks

LEMMA InitOnPlan == WatchlistInit => LocksOnPlan
BY DEF WatchlistInit, LocksOnPlan, OnPlan

\* A caller moves along its plan; the others stay where they are.
LEMMA OthersStay ==
    ASSUME LocksOnPlan, NEW p \in Threads, OnPlan(p)', NEW o, NEW h, NEW l,
           op' = [op EXCEPT ![p] = o], held' = [held EXCEPT ![p] = h], at' = [at EXCEPT ![p] = l]
    PROVE  LocksOnPlan'
<1>1. \A q \in Threads \ {p} : op'[q] = op[q] /\ held'[q] = held[q] /\ at'[q] = at[q]
  BY DEF LocksOnPlan
<1>2. \A q \in Threads \ {p} : OnPlan(q)'
  BY <1>1 DEF LocksOnPlan, OnPlan
<1> QED BY <1>2, Zenon DEF LocksOnPlan

LEMMA PairAppended == ASSUME NEW x, NEW y PROVE Append(<<x>>, y) = <<x, y>>
<1> DEFINE s == Append(<<x>>, y)
<1>1. <<x>> \in Seq({x, y}) OBVIOUS
<1>2. Len(s) = 2 /\ s[1] = x /\ s[2] = y /\ s \in Seq({x, y}) BY <1>1
<1> DEFINE t == <<x, y>>
<1>3. t \in Seq({x, y}) /\ Len(t) = 2 /\ t[1] = x /\ t[2] = y OBVIOUS
<1>4. \A i \in 1..Len(s) : s[i] = t[i] BY <1>2, <1>3
<1> HIDE DEF s, t
<1>5. s = t BY <1>2, <1>3, <1>4, SeqEqual
<1> QED BY <1>5 DEF s, t

LEMMA AcquireOnPlan ==
    ASSUME LocksOnPlan, NEW p \in Threads, Acquire(p) PROVE LocksOnPlan'
<1>1. /\ op' = [op EXCEPT ![p] = op[p]] /\ held' = [held EXCEPT ![p] = Append(held[p], NextLock(p))]
      /\ at' = [at EXCEPT ![p] = "run"] /\ op'[p] = op[p] /\ at'[p] = "run" /\ held'[p] = Append(held[p], NextLock(p))
  BY DEF Acquire, LocksOnPlan
<1>2. CASE held[p] = <<>>
  <2>1. held'[p] = <<Plan(op[p])[1]>> BY <1>1, <1>2 DEF NextLock
  <2> QED BY <1>1, <2>1, OthersStay DEF OnPlan, LocksOnPlan, Acquire
<1>3. CASE op[p].name \in TwoLocks /\ held[p] = <<Plan(op[p])[1]>>
  <2>0. NextLock(p) = Plan(op[p])[2]
    <3>1. Len(held[p]) + 1 = 2 BY <1>3
    <3> QED BY <3>1 DEF NextLock
  <2>1. held'[p] = <<Plan(op[p])[1], Plan(op[p])[2]>>
    BY <1>1, <1>3, <2>0, PairAppended
  <2>2. held'[p] = Plan(op'[p]) BY <1>1, <1>3, <2>1, PlanLength
  <2> QED BY <1>1, <2>2, OthersStay DEF OnPlan, LocksOnPlan, Acquire
<1> QED BY <1>2, <1>3 DEF Acquire, LocksOnPlan, OnPlan

LEMMA BeginOnPlan ==
    ASSUME LocksOnPlan, NEW p \in Threads, NEW o, o.name \in OneLock \cup TwoLocks, BeginCall(p, o) PROVE LocksOnPlan'
<1>1. /\ op' = [op EXCEPT ![p] = o] /\ held' = [held EXCEPT ![p] = held[p]]
      /\ at' = [at EXCEPT ![p] = "lock"] /\ op'[p] = o /\ at'[p] = "lock" /\ held'[p] = <<>>
  BY DEF BeginCall, LocksOnPlan, OnPlan
<1> QED BY <1>1, OthersStay DEF OnPlan

LEMMA ReturnOnPlan ==
    ASSUME LocksOnPlan, NEW p \in Threads, Return(p) PROVE LocksOnPlan'
<1>1. op'[p] = NoAddress /\ at'[p] = "idle" /\ held'[p] = <<>>
  BY DEF Return, LocksOnPlan
<1> QED BY <1>1, OthersStay DEF OnPlan, Return

\* Between its locks a caller has the first of the two.
LEMMA LockNextOnPlan ==
    ASSUME LocksOnPlan, NEW p \in Threads, NEW name \in TwoLocks, Running(p, name, 1), LockNext(p)
    PROVE  LocksOnPlan'
<1>1. held[p] = <<Plan(op[p])[1]>>
  BY PlanLength DEF Running, LocksOnPlan, OnPlan
<1>2. /\ op' = [op EXCEPT ![p] = op[p]] /\ held' = [held EXCEPT ![p] = held[p]]
      /\ at' = [at EXCEPT ![p] = "lock"] /\ op'[p] = op[p] /\ at'[p] = "lock" /\ held'[p] = held[p]
  BY DEF LockNext, LocksOnPlan
<1> QED BY <1>1, <1>2, OthersStay DEF OnPlan, Running

LEMMA WatchlistStep == LocksOnPlan /\ [WatchlistNext]_watchlistVars => LocksOnPlan'
<1> SUFFICES ASSUME LocksOnPlan, [WatchlistNext]_watchlistVars PROVE LocksOnPlan' OBVIOUS
<1> USE DEF OneLock, TwoLocks
<1>0. "fetcher" \in Threads /\ Callers \subseteq Threads BY DEF Threads
<1>1. CASE UNCHANGED callers
  BY <1>1, SMTT(30) DEF callers, LocksOnPlan, OnPlan
<1>2. CASE MatchBlock BY <1>1, <1>2 DEF MatchBlock
<1>3. CASE processMatchedEvent
  BY <1>0, <1>1, <1>3, LockNextOnPlan DEF processMatchedEvent
<1>4. CASE notifySubscribers
  <2> DEFINE p == "fetcher"
  <2>1. /\ op' = [op EXCEPT ![p] = op[p]] /\ held' = [held EXCEPT ![p] = << <<"mu", "R">> >>]
        /\ at' = [at EXCEPT ![p] = at[p]] /\ op'[p] = op[p] /\ at'[p] = "run" /\ held'[p] = << <<"mu", "R">> >>
        /\ op[p].name = "ProcessBlock"
    BY <1>0, <1>4 DEF notifySubscribers, LocksOnPlan, Running
  <2>2. Plan(op[p])[1] = <<"mu", "R">> BY <2>1 DEF Plan
  <2>3. OnPlan(p)' BY <2>1, <2>2 DEF OnPlan
  <2> QED BY <1>0, <2>1, <2>3, OthersStay
<1>5. CASE BlockDone BY <1>0, <1>5, ReturnOnPlan DEF BlockDone
<1>6. CASE ProcessBlock BY <1>0, <1>6, BeginOnPlan DEF ProcessBlock
<1>7. CASE Reboot BY <1>7 DEF Reboot, LocksOnPlan, OnPlan
<1>8. ASSUME NEW p \in Threads, Acquire(p) PROVE LocksOnPlan'
  BY <1>8, AcquireOnPlan
<1>9. ASSUME NEW p \in Callers, Request(p) PROVE LocksOnPlan'
  <2>1. PICK o : o.name \in OneLock \cup TwoLocks /\ BeginCall(p, o) BY <1>9 DEF Request
  <2> QED BY <1>0, <2>1, BeginOnPlan
<1>10. ASSUME NEW p \in Callers, WatchAddress(p) PROVE LocksOnPlan'
  BY <1>0, <1>10, ReturnOnPlan DEF WatchAddress
<1>11. ASSUME NEW p \in Callers, UnwatchAddress(p) PROVE LocksOnPlan'
  <2>1. Running(p, "Unwatch", 1) /\ (Return(p) \/ LockNext(p)) BY <1>11, Zenon DEF UnwatchAddress
  <2> QED BY <1>0, <2>1, ReturnOnPlan, LockNextOnPlan
<1>12. ASSUME NEW p \in Callers, DropSubscribers(p) PROVE LocksOnPlan'
  BY <1>0, <1>12, ReturnOnPlan DEF DropSubscribers
<1>13. ASSUME NEW p \in Callers, SubscribeLocksMu(p) PROVE LocksOnPlan'
  BY <1>0, <1>13, LockNextOnPlan DEF SubscribeLocksMu
<1>14. ASSUME NEW p \in Callers, Subscribe(p) PROVE LocksOnPlan'
  BY <1>0, <1>14, ReturnOnPlan DEF Subscribe
<1>15. ASSUME NEW p \in Callers, UnsubscribeAddress(p) PROVE LocksOnPlan'
  BY <1>0, <1>15, ReturnOnPlan DEF UnsubscribeAddress
<1> QED
  BY <1>1, <1>2, <1>3, <1>4, <1>5, <1>6, <1>7, <1>8, <1>9, <1>10, <1>11, <1>12, <1>13, <1>14, <1>15
  DEF WatchlistNext, watchlistVars

\* Who waits holds nothing, or the lock mu when it is no Subscribe.
LEMMA PlanUnblocks == LocksOnPlan => OnlySubscribeBlocks
<1> SUFFICES ASSUME LocksOnPlan, Waiting # {}, \A p \in Threads : at[p] # "run",
                    \A p \in Waiting : ~(op[p].name = "Subscribe" /\ held[p] # <<>>)
             PROVE  \E p \in Waiting : Grantable(p)
  BY DEF OnlySubscribeBlocks, Blocked
<1> DEFINE Modes == {"W", "R"}
<1>1. ASSUME NEW p \in Threads, held[p] # <<>>
      PROVE  /\ p \in Waiting /\ NextLock(p) \in {<<"subMu", "W">>, <<"subMu", "R">>}
             /\ ~Holds(p, "subMu", "W") /\ ~Holds(p, "subMu", "R")
  <2>1. p \in Waiting /\ op[p].name \in TwoLocks /\ op[p].name # "Subscribe" /\ held[p] = <<Plan(op[p])[1]>>
    BY <1>1 DEF LocksOnPlan, OnPlan, Waiting
  <2>2. Len(held[p]) = 1 /\ DOMAIN held[p] = {1} /\ held[p][1] \in {<<"mu", "W">>, <<"mu", "R">>}
    BY <2>1, PlanLocks
  <2> QED BY <2>1, <2>2, PlanLocks DEF NextLock, Holds
<1>2. \A p \in Threads, m \in Modes : ~Holds(p, "subMu", m)
  BY <1>1 DEF Holds
<1>3. \A p \in Waiting : NextLock(p) \in {<<"mu", "W">>, <<"mu", "R">>, <<"subMu", "W">>, <<"subMu", "R">>}
  <2> SUFFICES ASSUME NEW p \in Waiting, held[p] = <<>>
               PROVE  NextLock(p) \in {<<"mu", "W">>, <<"mu", "R">>, <<"subMu", "W">>}
    BY <1>1 DEF Waiting
  <2> QED BY PlanLocks DEF NextLock, LocksOnPlan, OnPlan, Waiting
<1>4. CASE \E p \in Waiting : NextLock(p) = <<"subMu", "W">>
  BY <1>2, <1>4 DEF Grantable
<1>5. CASE /\ ~\E p \in Waiting : NextLock(p) = <<"subMu", "W">>
           /\ \E p \in Waiting : NextLock(p) = <<"subMu", "R">>
  BY <1>2, <1>5 DEF Grantable
<1>6. CASE ~\E p \in Waiting : NextLock(p) \in {<<"subMu", "W">>, <<"subMu", "R">>}
  <2>1. \A p \in Threads, m \in Modes : ~Holds(p, "mu", m)
    BY <1>1, <1>6 DEF Holds
  <2>2. CASE \E p \in Waiting : NextLock(p) = <<"mu", "W">>
    BY <2>1, <2>2 DEF Grantable
  <2>3. CASE ~\E p \in Waiting : NextLock(p) = <<"mu", "W">>
    BY <1>3, <1>6, <2>1, <2>3 DEF Grantable
  <2> QED BY <2>2, <2>3
<1> QED BY <1>3, <1>4, <1>5, <1>6

\* Nobody waits for mu or subMu in vain, however many callers there are,
\* unless a Subscribe waits for mu with subMu in hand (service.go:329): the
\* one call that takes the two locks against the order of the others.
THEOREM OnlySubscribeCanBlock == WatchlistSpec => []OnlySubscribeBlocks
<1>1. WatchlistInit => LocksOnPlan BY InitOnPlan
<1>2. LocksOnPlan /\ [WatchlistNext]_watchlistVars => LocksOnPlan' BY WatchlistStep
<1>3. LocksOnPlan => OnlySubscribeBlocks BY PlanUnblocks
<1> QED BY <1>1, <1>2, <1>3, PTL DEF WatchlistSpec

-----------------------------------------------------------------------------
(* What the watchlist records.  Records, lookup index and matcher are        *)
(* changed with mu held for writing, so while a block is processed they      *)
(* stay; and what is still to be recorded of it is counted as recorded.      *)

\* How often an identifier occurs in a sequence.
Times(i, s) == Cardinality({k \in DOMAIN s : s[k] = i})

\* The first match in hand is stored and its subscribers are to be told; what
\* is still to be stored of the block.
Telling ==
    /\ at["fetcher"] # "idle" /\ op["fetcher"].name = "ProcessBlock"
    /\ Len(held["fetcher"]) = IF at["fetcher"] = "lock" THEN 1 ELSE 2
Pending == IF Telling THEN Tail(found) ELSE found

MuExcludes ==
    \A p, q \in Threads : p # q /\ Holds(p, "mu", "W") => ~Holds(q, "mu", "W") /\ ~Holds(q, "mu", "R")

KnownCall(o) ==
    /\ o.name = "Watch" => o.addr \in Addrs /\ o.filter \in Filters
    /\ o.name = "ProcessBlock" => o.block \in DOMAIN Blocks
CallsKnown == \A p \in Threads : at[p] # "idle" => KnownCall(op[p])

\* Matches in hand are of the block that is processed with mu held.
BlockInHand ==
    /\ found \in Seq(DOMAIN watched) /\ (Telling => found # <<>>)
    /\ found # <<>> => /\ at["fetcher"] # "idle" /\ held["fetcher"] # <<>>
                       /\ op["fetcher"].name = "ProcessBlock" /\ block = op["fetcher"].block

WatchRecord == [addr : Addrs, filter : Filters, total : Nat]

\* The matcher leads to records of the address; and where no write has failed,
\* an address has one record, which lookup index and matcher find.
RecordsFound ==
    /\ ids \in 0..MaxIds /\ DOMAIN watched \subseteq 1..ids /\ watched \in [DOMAIN watched -> WatchRecord]
    /\ \A a \in DOMAIN matcher : matcher[a] \in DOMAIN watched /\ watched[matcher[a]].addr = a
    /\ \A w \in told : w = <<w[1], w[2]>> /\ w[2] \in DOMAIN watched /\ watched[w[2]].addr = w[1]
    /\ \A i \in DOMAIN watched : watched[i].addr \notin tainted =>
          /\ watched[i].addr \in DOMAIN lookup /\ lookup[watched[i].addr] = i
          /\ watched[i].addr \in DOMAIN matcher /\ matcher[watched[i].addr] = i
          /\ Hash[watched[i].addr] \subseteq bits

\* Serial numbers of events are given once.
EventsNumbered ==
    /\ IsFiniteSet(events) /\ expected \in [1..MaxIds -> Nat]
    /\ \A e \in events : e[1] \in 1..ids /\ e[2] \in 1..Cardinality(events)
    /\ \A i \in 1..MaxIds : i > ids => expected[i] = 0

EventsOf(i) == {e \in events : e[1] = i}
AllRecorded ==
    \A w \in told : w[1] \notin tainted =>
        /\ Cardinality(EventsOf(w[2])) + Times(w[2], Pending) = expected[w[2]]
        /\ watched[w[2]].total + Times(w[2], Pending) = expected[w[2]]

WatchAccounts == BlockInHand /\ RecordsFound /\ EventsNumbered /\ AllRecorded
WInv == LocksOnPlan /\ MuExcludes /\ CallsKnown /\ WatchAccounts

\* The recursive function of Joined exists.
LEMMA JoinsExist ==
    ASSUME NEW s, NEW n \in Nat
    PROVE  \E f : f = [i \in 0..n |-> IF i = 0 THEN <<>> ELSE f[i - 1] \o s[i]]
<1> DEFINE Joins(f, m) == f = [i \in 0..m |-> IF i = 0 THEN <<>> ELSE f[i - 1] \o s[i]]
           T == {m \in Nat : ~\E f : Joins(f, m)}
<1>1. SUFFICES T = {} OBVIOUS
<1>2. SUFFICES ASSUME T # {} PROVE FALSE OBVIOUS
<1>3. PICK m \in T : \A k \in T : m <= k
  <2>1. T \in SUBSET Nat OBVIOUS
  <2> HIDE DEF T
  <2> QED BY <1>2, <2>1, Smallest
<1>4. m # 0
  <2> DEFINE f == [i \in 0..0 |-> <<>>]
  <2>1. Joins(f, 0) OBVIOUS
  <2> HIDE DEF f, Joins
  <2> QED BY <2>1
<1>5. m \in Nat /\ m - 1 \in Nat /\ m - 1 \notin T
  <2>1. m \in Nat OBVIOUS
  <2> HIDE DEF T
  <2> QED BY <1>3, <1>4, <2>1
<1>6. PICK f : Joins(f, m - 1) BY <1>5
<1> DEFINE g == [i \in 0..m |-> IF i = m THEN f[m - 1] \o s[m] ELSE f[i]]
<1>7. Joins(g, m)
  <2>1. ASSUME NEW i \in 0..m PROVE g[i] = IF i = 0 THEN <<>> ELSE g[i - 1] \o s[i]
    <3>1. CASE i = m
      <4>1. m - 1 \in 0..m /\ m - 1 # m BY <1>5
      <4> QED BY <1>4, <3>1, <4>1
    <3>2. CASE i # m
      <4>1. i \in 0..(m - 1) BY <3>2
      <4>2. f[i] = IF i = 0 THEN <<>> ELSE f[i - 1] \o s[i] BY <1>6, <4>1
      <4>3. i # 0 => i - 1 \in 0..m /\ i - 1 # m BY <4>1
      <4> QED BY <3>2, <4>2, <4>3
    <3> QED BY <3>1, <3>2
  <2>2. g = [i \in 0..m |-> g[i]] OBVIOUS
  <2> HIDE DEF g
  <2> QED BY <2>1, <2>2
<1> HIDE DEF Joins, g
<1> QED BY <1>3, <1>7

\* Joined takes the parts one after the other.
LEMMA JoinedIs ==
    ASSUME NEW s, Len(s) \in Nat
    PROVE  \E f : /\ f = [i \in 0..Len(s) |-> IF i = 0 THEN <<>> ELSE f[i - 1] \o s[i]]
                  /\ Joined(s) = f[Len(s)]
<1>1. \E f : f = [i \in 0..Len(s) |-> IF i = 0 THEN <<>> ELSE f[i - 1] \o s[i]] BY JoinsExist
<1> DEFINE g == CHOOSE f : f = [i \in 0..Len(s) |-> IF i = 0 THEN <<>> ELSE f[i - 1] \o s[i]]
<1>2. g = [i \in 0..Len(s) |-> IF i = 0 THEN <<>> ELSE g[i - 1] \o s[i]] BY <1>1, Zenon
<1>3. Joined(s) = g[Len(s)] BY DEF Joined
<1> HIDE DEF g
<1> QED BY <1>2, <1>3

-----------------------------------------------------------------------------
(* How often.                                                               *)

\* Moving a set of numbers keeps its size.
LEMMA ShiftCount ==
    ASSUME NEW B, IsFiniteSet(B), B \subseteq Int, NEW d \in Int
    PROVE  IsFiniteSet({k + d : k \in B}) /\ Cardinality({k + d : k \in B}) = Cardinality(B)
<1> DEFINE C == {k + d : k \in B}
           f == [k \in B |-> k + d]
<1>1. f \in [B -> C] OBVIOUS
<1>2. \A x, y \in B : f[x] = f[y] => x = y OBVIOUS
<1>3. \A c \in C : \E x \in B : f[x] = c OBVIOUS
<1> HIDE DEF f, C
<1>4. f \in Bijection(B, C) BY <1>1, <1>2, <1>3, Fun_IsBij
<1>5. ExistsBijection(B, C) BY <1>4 DEF ExistsBijection
<1>6. IsFiniteSet(C) /\ Cardinality(C) = Cardinality(B) BY <1>5, FS_Bijection
<1> QED BY <1>6 DEF C

\* The cardinality of two sets with nothing in common.
LEMMA ApartCount ==
    ASSUME NEW A, NEW B, IsFiniteSet(A), IsFiniteSet(B), A \cap B = {}
    PROVE  IsFiniteSet(A \cup B) /\ Cardinality(A \cup B) = Cardinality(A) + Cardinality(B)
<1>1. Cardinality(A) \in Nat /\ Cardinality(B) \in Nat BY FS_CardinalityType
<1>2. Cardinality(A \cap B) = 0 BY FS_EmptySet
<1>3. /\ IsFiniteSet(A \cup B)
      /\ Cardinality(A \cup B) = Cardinality(A) + Cardinality(B) - Cardinality(A \cap B)
  BY FS_Union
<1> QED BY <1>1, <1>2, <1>3

\* An identifier occurs finitely often in a sequence.
LEMMA TimesFinite ==
    ASSUME NEW S, NEW s \in Seq(S), NEW i
    PROVE  IsFiniteSet({k \in DOMAIN s : s[k] = i}) /\ Times(i, s) \in Nat
<1> DEFINE K == {k \in DOMAIN s : s[k] = i}
<1>1. DOMAIN s = 1..Len(s) /\ Len(s) \in Nat OBVIOUS
<1>2. K \in SUBSET (1..Len(s)) /\ IsFiniteSet(1..Len(s)) BY <1>1, FS_Interval
<1> HIDE DEF K
<1>3. IsFiniteSet(K) /\ Cardinality(K) \in Nat BY <1>2, FS_Subset, FS_CardinalityType
<1> QED BY <1>3 DEF K, Times

\* Nothing occurs in the empty sequence.
LEMMA TimesEmpty == \A i : Times(i, <<>>) = 0
<1>1. \A i : {k \in DOMAIN <<>> : <<>>[k] = i} = {} OBVIOUS
<1> QED BY <1>1, FS_EmptySet DEF Times

\* Occurrences in two sequences add up.
LEMMA TimesConcat ==
    ASSUME NEW S, NEW s \in Seq(S), NEW t \in Seq(S), NEW i
    PROVE  Times(i, s \o t) = Times(i, s) + Times(i, t)
<1> DEFINE c == s \o t
           A == {k \in DOMAIN s : s[k] = i}
           B == {k \in DOMAIN t : t[k] = i}
           D == {k + Len(s) : k \in B}
           K == {k \in DOMAIN c : c[k] = i}
<1>1. /\ c \in Seq(S) /\ Len(c) = Len(s) + Len(t)
      /\ \A k \in 1..Len(s) + Len(t) : c[k] = IF k <= Len(s) THEN s[k] ELSE t[k - Len(s)]
  BY ConcatProperties
<1>2. /\ Len(s) \in Nat /\ Len(t) \in Nat /\ DOMAIN s = 1..Len(s) /\ DOMAIN t = 1..Len(t)
      /\ DOMAIN c = 1..Len(s) + Len(t)
  <2> HIDE DEF c
  <2> QED BY <1>1
<1> HIDE DEF c
<1>3. K = A \cup D
  <2>1. ASSUME NEW k \in K PROVE k \in A \cup D
    <3>1. k \in 1..Len(s) + Len(t) /\ c[k] = i BY <1>2
    <3>2. CASE k <= Len(s) BY <1>1, <1>2, <3>1, <3>2
    <3>3. CASE ~(k <= Len(s))
      <4>1. k - Len(s) \in 1..Len(t) /\ t[k - Len(s)] = i BY <1>1, <1>2, <3>1, <3>3
      <4>2. k = (k - Len(s)) + Len(s) BY <1>2, <3>1
      <4> QED BY <1>2, <4>1, <4>2
    <3> QED BY <3>2, <3>3
  <2>2. ASSUME NEW k \in A PROVE k \in K
    <3>1. k \in 1..Len(s) + Len(t) /\ k <= Len(s) BY <1>2
    <3> QED BY <1>1, <1>2, <3>1
  <2>3. ASSUME NEW k \in B PROVE k + Len(s) \in K
    <3>1. /\ k \in 1..Len(t) /\ k + Len(s) \in 1..Len(s) + Len(t) /\ ~(k + Len(s) <= Len(s))
          /\ (k + Len(s)) - Len(s) = k
      BY <1>2
    <3> QED BY <1>1, <1>2, <3>1
  <2> HIDE DEF K, A, B
  <2> QED BY <2>1, <2>2, <2>3
<1>4. IsFiniteSet(A) /\ IsFiniteSet(B) BY TimesFinite
<1>5. B \subseteq Int BY <1>2
<1>6. A \cap D = {}
  <2>1. \A k \in A : k <= Len(s) BY <1>2
  <2>2. \A k \in B : ~(k + Len(s) <= Len(s)) BY <1>2
  <2> QED BY <2>1, <2>2
<1>7. Times(i, c) = Cardinality(K) /\ Times(i, s) = Cardinality(A) /\ Times(i, t) = Cardinality(B) BY DEF Times
<1> HIDE DEF A, B, K
<1>8. IsFiniteSet(D) /\ Cardinality(D) = Cardinality(B)
  <2>1. Len(s) \in Int BY <1>2
  <2> QED BY <1>4, <1>5, <2>1, ShiftCount
<1> HIDE DEF D
<1>9. Cardinality(K) = Cardinality(A) + Cardinality(D) BY <1>3, <1>4, <1>6, <1>8, ApartCount
<1> QED BY <1>7, <1>8, <1>9 DEF c

\* The head of a sequence counts once.
LEMMA TimesTail ==
    ASSUME NEW S, NEW s \in Seq(S), s # <<>>, NEW i
    PROVE  Times(i, s) = Times(i, Tail(s)) + (IF Head(s) = i THEN 1 ELSE 0)
<1> DEFINE t == Tail(s)
           one == <<Head(s)>>
<1>1. t \in Seq(S) /\ one \in Seq(S) /\ s = one \o t BY HeadTailProperties
<1>2. Times(i, one) = IF Head(s) = i THEN 1 ELSE 0
  <2>1. {k \in DOMAIN one : one[k] = i} = IF Head(s) = i THEN {1} ELSE {} OBVIOUS
  <2> HIDE DEF one
  <2> QED BY <2>1, FS_Singleton, FS_EmptySet DEF Times
<1>3. Times(i, one) \in Nat /\ Times(i, t) \in Nat BY <1>1, TimesFinite
<1> HIDE DEF t, one
<1>4. Times(i, one \o t) = Times(i, one) + Times(i, t) BY <1>1, TimesConcat
<1>5. Times(i, s) = Times(i, one) + Times(i, t) BY <1>1, <1>4
<1> QED BY <1>2, <1>3, <1>5 DEF t

\* Pairs with one first component.
LEMMA PairCount ==
    ASSUME NEW B, IsFiniteSet(B), NEW m, NEW C, \A e : e \in C <=> \E r \in B : e = <<m, r>>
    PROVE  IsFiniteSet(C) /\ Cardinality(C) = Cardinality(B)
<1> DEFINE f == [r \in B |-> <<m, r>>]
<1>1. f \in [B -> C] OBVIOUS
<1>2. \A x, y \in B : f[x] = f[y] => x = y OBVIOUS
<1>3. \A c \in C : \E x \in B : f[x] = c OBVIOUS
<1> HIDE DEF f
<1>4. f \in Bijection(B, C) BY <1>1, <1>2, <1>3, Fun_IsBij
<1>5. ExistsBijection(B, C) BY <1>4 DEF ExistsBijection
<1> QED BY <1>5, FS_Bijection

\* Parts of Joined are sequences.
LEMMA JoinedIsSeq ==
    ASSUME NEW S, NEW s, Len(s) \in Nat, \A k \in 1..Len(s) : s[k] \in Seq(S),
           NEW f, f = [k \in 0..Len(s) |-> IF k = 0 THEN <<>> ELSE f[k - 1] \o s[k]]
    PROVE  \A k \in 0..Len(s) : f[k] \in Seq(S)
<1> DEFINE T == {k \in 0..Len(s) : f[k] \notin Seq(S)}
<1> SUFFICES ASSUME T # {} PROVE FALSE OBVIOUS
<1>1. PICK m \in T : \A k \in T : m <= k
  <2>1. T \in SUBSET Nat OBVIOUS
  <2> HIDE DEF T
  <2> QED BY <2>1, Smallest
<1>2. m \in 0..Len(s) /\ f[m] \notin Seq(S) OBVIOUS
<1>3. m # 0 BY <1>2
<1>4. m - 1 \in 0..Len(s) /\ m \in 1..Len(s) /\ ~(m <= m - 1) BY <1>2, <1>3
<1>5. f[m - 1] \in Seq(S)
  <2>1. m - 1 \notin T BY <1>1, <1>4
  <2> QED BY <1>4, <2>1
<1>6. f[m] = f[m - 1] \o s[m] BY <1>2, <1>3
<1> QED BY <1>2, <1>4, <1>5, <1>6, ConcatProperties

LEMMA RolesFinite == IsFiniteSet(Roles)
<1>1. Roles = ({"from"} \cup {"to"}) \cup {"emitter"} BY DEF Roles
<1>2. IsFiniteSet({"from"}) BY FS_Singleton
<1>3. IsFiniteSet({"from"} \cup {"to"}) BY <1>2, FS_AddElement
<1> QED BY <1>1, <1>3, FS_AddElement

\* If every part has as many i's as a set has elements, all parts have as many
\* as these sets have elements, taken apart.
Tallies(i, s, S, c, W) ==
    /\ Len(s) \in Nat
    /\ \A k \in 1..Len(s) : s[k] \in Seq(S) /\ c[k] \subseteq Roles /\ Times(i, s[k]) = Cardinality(c[k])
    /\ \A e : e \in W <=> e \in (1..Len(s)) \X Roles /\ e[2] \in c[e[1]]

\* Joined has as many as the sets have elements.
LEMMA JoinedCount ==
    ASSUME NEW i, NEW s, NEW S, NEW c, NEW W, Tallies(i, s, S, c, W)
    PROVE  Times(i, Joined(s)) = Cardinality(W)
<1>h. /\ Len(s) \in Nat
      /\ \A k \in 1..Len(s) : s[k] \in Seq(S) /\ c[k] \subseteq Roles /\ Times(i, s[k]) = Cardinality(c[k])
  BY DEF Tallies
<1>0. PICK f : /\ f = [k \in 0..Len(s) |-> IF k = 0 THEN <<>> ELSE f[k - 1] \o s[k]]
               /\ Joined(s) = f[Len(s)]
  BY <1>h, JoinedIs
<1>1. \A k \in 0..Len(s) : f[k] \in Seq(S) BY <1>h, <1>0, JoinedIsSeq
<1> DEFINE U(m) == {e \in (1..m) \X Roles : e[2] \in c[e[1]]}
           Good(m) == IsFiniteSet(U(m)) /\ Times(i, f[m]) = Cardinality(U(m))
           T == {k \in 0..Len(s) : ~Good(k)}
<1>2. T = {}
  <2> SUFFICES ASSUME T # {} PROVE FALSE OBVIOUS
  <2>1. PICK m \in T : \A k \in T : m <= k
    <3>1. T \in SUBSET Nat BY <1>h
    <3> HIDE DEF T
    <3> QED BY <3>1, Smallest
  <2>2. m \in 0..Len(s) /\ ~Good(m) OBVIOUS
  <2>3. m # 0
    <3>1. U(0) = {} OBVIOUS
    <3>2. f[0] = <<>> BY <1>h, <1>0
    <3> HIDE DEF U
    <3>3. Good(0) BY <3>1, <3>2, TimesEmpty, FS_EmptySet
    <3> HIDE DEF Good
    <3> QED BY <2>2, <3>3
  <2>4. m - 1 \in 0..Len(s) /\ m \in 1..Len(s) /\ ~(m <= m - 1) BY <1>h, <2>2, <2>3
  <2>5. Good(m - 1)
    <3>1. m - 1 \notin T BY <2>1, <2>4
    <3> HIDE DEF Good
    <3> QED BY <2>4, <3>1
  <2> DEFINE New == {<<m, r>> : r \in c[m]}
  <2>6. U(m) = U(m - 1) \cup New
    <3>1. 1..m = 1..(m - 1) \cup {m} BY <2>4
    <3>2. c[m] \subseteq Roles BY <1>h, <2>4
    <3> QED BY <3>1, <3>2
  <2>7. U(m - 1) \cap New = {}
    <3>1. m \notin 1..(m - 1) BY <2>4
    <3> QED BY <3>1
  <2>8. IsFiniteSet(c[m])
    <3>1. c[m] \in SUBSET Roles BY <1>h, <2>4
    <3> QED BY <3>1, RolesFinite, FS_Subset
  <2>9. IsFiniteSet(New) /\ Cardinality(New) = Cardinality(c[m])
    <3>1. PICK k : k = m OBVIOUS
    <3>2. PICK B : B = c[k] OBVIOUS
    <3>3. (\A e : e \in New <=> \E r \in B : e = <<k, r>>) /\ IsFiniteSet(B) BY <2>8, <3>1, <3>2
    <3> HIDE DEF New, T, Good, U
    <3>4. IsFiniteSet(New) /\ Cardinality(New) = Cardinality(B) BY <3>3, PairCount
    <3> QED BY <3>1, <3>2, <3>4
  <2>a. IsFiniteSet(U(m - 1)) /\ Times(i, f[m - 1]) = Cardinality(U(m - 1)) BY <2>5
  <2> HIDE DEF U, New, T, Good
  <2>10. IsFiniteSet(U(m)) /\ Cardinality(U(m)) = Cardinality(U(m - 1)) + Cardinality(New)
    BY <2>6, <2>7, <2>9, <2>a, ApartCount
  <2>11. Times(i, f[m]) = Times(i, f[m - 1]) + Times(i, s[m])
    <3>1. f[m] = f[m - 1] \o s[m] BY <1>0, <2>2, <2>3
    <3> QED BY <1>h, <1>1, <2>4, <3>1, TimesConcat
  <2>12. Times(i, s[m]) = Cardinality(c[m]) BY <1>h, <2>4
  <2>13. Good(m) BY <2>9, <2>10, <2>11, <2>12, <2>a DEF Good
  <2> QED BY <2>2, <2>13
<1>3. Good(Len(s))
  <2>1. Len(s) \in 0..Len(s) BY <1>h
  <2> HIDE DEF Good
  <2> QED BY <1>2, <2>1
<1>4. U(Len(s)) = W BY DEF Tallies
<1> HIDE DEF U
<1> QED BY <1>0, <1>3, <1>4

\* The roles an address has in an item, counted.
LEMMA RoleCount ==
    ASSUME NEW P \in BOOLEAN, NEW Q \in BOOLEAN, NEW R \in BOOLEAN
    PROVE  Cardinality({r \in Roles : (r = "from" /\ P) \/ (r = "to" /\ Q) \/ (r = "emitter" /\ R)})
             = ((IF P THEN 1 ELSE 0) + (IF Q THEN 1 ELSE 0)) + (IF R THEN 1 ELSE 0)
<1> DEFINE A == IF P THEN {"from"} ELSE {}
           B == IF Q THEN {"to"} ELSE {}
           C == IF R THEN {"emitter"} ELSE {}
           D == {r \in Roles : (r = "from" /\ P) \/ (r = "to" /\ Q) \/ (r = "emitter" /\ R)}
<1>1. D = (A \cup B) \cup C BY DEF Roles
<1>2. /\ IsFiniteSet(A) /\ Cardinality(A) = IF P THEN 1 ELSE 0
      /\ IsFiniteSet(B) /\ Cardinality(B) = IF Q THEN 1 ELSE 0
      /\ IsFiniteSet(C) /\ Cardinality(C) = IF R THEN 1 ELSE 0
  BY FS_Singleton, FS_EmptySet
<1>3. A \cap B = {} /\ (A \cup B) \cap C = {} OBVIOUS
<1> HIDE DEF A, B, C, D
<1>4. IsFiniteSet(A \cup B) /\ Cardinality(A \cup B) = Cardinality(A) + Cardinality(B)
  BY <1>2, <1>3, ApartCount
<1>5. Cardinality(D) = Cardinality(A \cup B) + Cardinality(C) BY <1>1, <1>2, <1>3, <1>4, ApartCount
<1>6. Cardinality(D) = ((IF P THEN 1 ELSE 0) + (IF Q THEN 1 ELSE 0)) + (IF R THEN 1 ELSE 0)
  BY <1>2, <1>4, <1>5
<1> QED BY <1>6 DEF D

-----------------------------------------------------------------------------
(* What the matcher finds is what the filter asks for.                      *)

\* A single match is a sequence of identifiers with records.
LEMMA IfIsSeq ==
    ASSUME RecordsFound, NEW c \in BOOLEAN, NEW y, c => Watched(y)
    PROVE  If(c, y) \in Seq(DOMAIN watched)
<1>1. c => matcher[y] \in DOMAIN watched BY DEF Watched, RecordsFound
<1>2. CASE c BY <1>1, <1>2 DEF If
<1>3. CASE ~c BY <1>3 DEF If
<1> QED BY <1>2, <1>3

\* The matches of an item have records.
LEMMA MatchIsSeq ==
    ASSUME RecordsFound, NEW x
    PROVE  MatchItem(x) \in Seq(DOMAIN watched)
<1> DEFINE S == DOMAIN watched
<1>1. MatchTransaction(x) \in Seq(S)
  <2> DEFINE c1 == Watched(x.from) /\ FilterOf(x.from).txFrom /\ x.value >= FilterOf(x.from).min
             c2 == Watched(x.to) /\ FilterOf(x.to).txTo /\ x.value >= FilterOf(x.to).min
  <2>1. If(c1, x.from) \in Seq(S) BY IfIsSeq
  <2>2. If(c2, x.to) \in Seq(S) BY IfIsSeq
  <2>3. MatchTransaction(x) = If(c1, x.from) \o If(c2, x.to) BY DEF MatchTransaction
  <2> HIDE DEF c1, c2
  <2> QED BY <2>1, <2>2, <2>3, ConcatProperties
<1>2. MatchLog(x) \in Seq(S)
  <2> DEFINE t(a) == /\ x.topics \in {3, 4} /\ Watched(a)
                     /\ IF x.topics = 4 THEN FilterOf(a).erc721 ELSE FilterOf(a).erc20
             c1 == Watched(x.emitter) /\ FilterOf(x.emitter).logs
             c2 == t(x.from)
             c3 == t(x.to)
  <2>1. If(c1, x.emitter) \in Seq(S) BY IfIsSeq
  <2>2. If(c2, x.from) \in Seq(S) BY IfIsSeq
  <2>3. If(c3, x.to) \in Seq(S) BY IfIsSeq
  <2>4. MatchLog(x) = (If(c1, x.emitter) \o If(c2, x.from)) \o If(c3, x.to) BY DEF MatchLog
  <2> HIDE DEF c1, c2, c3
  <2>5. If(c1, x.emitter) \o If(c2, x.from) \in Seq(S) BY <2>1, <2>2, ConcatProperties
  <2> QED BY <2>3, <2>4, <2>5, ConcatProperties
<1> QED BY <1>1, <1>2 DEF MatchItem

LEMMA IfTimes ==
    ASSUME RecordsFound, NEW i \in DOMAIN watched, watched[i].addr \notin tainted,
           NEW c \in BOOLEAN, NEW y, c => Watched(y)
    PROVE  Times(i, If(c, y)) = IF c /\ y = watched[i].addr THEN 1 ELSE 0
<1>1. c => (matcher[y] = i <=> y = watched[i].addr) BY DEF Watched, RecordsFound
<1> DEFINE q == If(c, y)
           K == {k \in DOMAIN q : q[k] = i}
<1>2. K = IF c /\ matcher[y] = i THEN {1} ELSE {}
  BY DEF If
<1>3. Times(i, If(c, y)) = Cardinality(K) BY DEF Times
<1> HIDE DEF K
<1> QED BY <1>1, <1>2, <1>3, FS_Singleton, FS_EmptySet

\* An address without failed writes passes the Bloom filter and is found.
LEMMA OwnIsWatched ==
    ASSUME RecordsFound, NEW i \in DOMAIN watched, watched[i].addr \notin tainted
    PROVE  Watched(watched[i].addr) /\ FilterOf(watched[i].addr) = watched[i].filter
BY WatchlistAssumption DEF RecordsFound, Watched, MightContain, FilterOf, WatchRecord

\* In an item an address is found as often as its filter asks for it.
LEMMA MatchCount ==
    ASSUME RecordsFound, NEW i \in DOMAIN watched, watched[i].addr \notin tainted, NEW x, x.kind \in {"tx", "log"}
    PROVE  Times(i, MatchItem(x)) = Cardinality(Asked(watched[i].addr, watched[i].filter, x))
<1>1. PICK a : a = watched[i].addr OBVIOUS
<1>2. PICK f : f = watched[i].filter OBVIOUS
<1>3. Watched(a) /\ FilterOf(a) = f BY <1>1, <1>2, OwnIsWatched
<1> DEFINE One(c) == IF c THEN 1 ELSE 0
           tx == x.kind = "tx" /\ x.value >= f.min
           transfer == x.kind = "log" /\ ((x.topics = 3 /\ f.erc20) \/ (x.topics = 4 /\ f.erc721))
           P == x.from = a /\ ((tx /\ f.txFrom) \/ transfer)
           Q == x.to = a /\ ((tx /\ f.txTo) \/ transfer)
           R == x.emitter = a /\ x.kind = "log" /\ f.logs
           S == DOMAIN watched
<1>4. Asked(a, f, x) = {r \in Roles : (r = "from" /\ P) \/ (r = "to" /\ Q) \/ (r = "emitter" /\ R)}
  BY DEF Asked
<1>5. P \in BOOLEAN /\ Q \in BOOLEAN /\ R \in BOOLEAN OBVIOUS
<1>6. Cardinality(Asked(a, f, x)) = (One(P) + One(Q)) + One(R)
  <2> HIDE DEF P, Q, R
  <2> QED BY <1>4, <1>5, RoleCount
<1>7. CASE x.kind = "tx"
  <2> DEFINE c1 == Watched(x.from) /\ FilterOf(x.from).txFrom /\ x.value >= FilterOf(x.from).min
             c2 == Watched(x.to) /\ FilterOf(x.to).txTo /\ x.value >= FilterOf(x.to).min
  <2>1. If(c1, x.from) \in Seq(S) BY IfIsSeq
  <2>2. If(c2, x.to) \in Seq(S) BY IfIsSeq
  <2>3. Times(i, If(c1, x.from)) = One(c1 /\ x.from = a) BY <1>1, IfTimes
  <2>4. Times(i, If(c2, x.to)) = One(c2 /\ x.to = a) BY <1>1, IfTimes
  <2>5. MatchItem(x) = If(c1, x.from) \o If(c2, x.to) BY <1>7 DEF MatchItem, MatchTransaction
  <2>6. (c1 /\ x.from = a) <=> P BY <1>3, <1>7
  <2>7. (c2 /\ x.to = a) <=> Q BY <1>3, <1>7
  <2>8. ~R BY <1>7
  <2> HIDE DEF c1, c2, P, Q, R
  <2>9. Times(i, MatchItem(x)) = Times(i, If(c1, x.from)) + Times(i, If(c2, x.to))
    BY <2>1, <2>2, <2>5, TimesConcat
  <2>10. Times(i, MatchItem(x)) = Cardinality(Asked(a, f, x)) BY <1>6, <2>3, <2>4, <2>6, <2>7, <2>8, <2>9
  <2> QED BY <1>1, <1>2, <2>10
<1>8. CASE x.kind = "log"
  <2> DEFINE t(y) == /\ x.topics \in {3, 4} /\ Watched(y)
                     /\ IF x.topics = 4 THEN FilterOf(y).erc721 ELSE FilterOf(y).erc20
             c1 == Watched(x.emitter) /\ FilterOf(x.emitter).logs
             c2 == t(x.from)
             c3 == t(x.to)
  <2>1. If(c1, x.emitter) \in Seq(S) BY IfIsSeq
  <2>2. If(c2, x.from) \in Seq(S) BY IfIsSeq
  <2>3. If(c3, x.to) \in Seq(S) BY IfIsSeq
  <2>4. Times(i, If(c1, x.emitter)) = One(c1 /\ x.emitter = a) BY <1>1, IfTimes
  <2>5. Times(i, If(c2, x.from)) = One(c2 /\ x.from = a) BY <1>1, IfTimes
  <2>6. Times(i, If(c3, x.to)) = One(c3 /\ x.to = a) BY <1>1, IfTimes
  <2>7. MatchItem(x) = (If(c1, x.emitter) \o If(c2, x.from)) \o If(c3, x.to) BY <1>8 DEF MatchItem, MatchLog
  <2>8. (c1 /\ x.emitter = a) <=> R BY <1>3, <1>8
  <2>9. (c2 /\ x.from = a) <=> P BY <1>3, <1>8
  <2>10. (c3 /\ x.to = a) <=> Q BY <1>3, <1>8
  <2> HIDE DEF c1, c2, c3, P, Q, R
  <2>11. /\ If(c1, x.emitter) \o If(c2, x.from) \in Seq(S)
         /\ Times(i, If(c1, x.emitter) \o If(c2, x.from)) = Times(i, If(c1, x.emitter)) + Times(i, If(c2, x.from))
    BY <2>1, <2>2, TimesConcat, ConcatProperties
  <2>12. Times(i, MatchItem(x)) = Times(i, If(c1, x.emitter) \o If(c2, x.from)) + Times(i, If(c3, x.to))
    BY <2>3, <2>7, <2>11, TimesConcat
  <2>13. Times(i, MatchItem(x)) = Cardinality(Asked(a, f, x))
    BY <1>6, <2>4, <2>5, <2>6, <2>8, <2>9, <2>10, <2>11, <2>12
  <2> QED BY <1>1, <1>2, <2>13
<1> QED BY <1>7, <1>8

\* In a block an address is found as often as its filter asks for it.
LEMMA BlockCount ==
    ASSUME RecordsFound, NEW b \in DOMAIN Blocks
    PROVE  LET s == [k \in DOMAIN Blocks[b] |-> MatchItem(Blocks[b][k])]
           IN  /\ Joined(s) \in Seq(DOMAIN watched)
               /\ \A i \in DOMAIN watched : watched[i].addr \notin tainted =>
                     Times(i, Joined(s)) = Cardinality(AskedIn(watched[i].addr, watched[i].filter, Blocks[b]))
<1> DEFINE s == [k \in DOMAIN Blocks[b] |-> MatchItem(Blocks[b][k])]
           n == Len(Blocks[b])
<1>1. n \in Nat /\ DOMAIN Blocks[b] = 1..n /\ \A k \in 1..n : Blocks[b][k].kind \in {"tx", "log"}
  BY WatchlistAssumption
<1>2. \A k \in 1..n : s[k] = MatchItem(Blocks[b][k]) /\ s[k] \in Seq(DOMAIN watched) BY <1>1, MatchIsSeq
<1>3. s \in Seq(Seq(DOMAIN watched)) /\ Len(s) = n
  <2>1. s = [k \in 1..n |-> s[k]] BY <1>1
  <2> HIDE DEF s, n
  <2> QED BY <1>1, <1>2, <2>1
<1> HIDE DEF s
<1>4. Joined(s) \in Seq(DOMAIN watched)
  <2>1. PICK f : /\ f = [k \in 0..Len(s) |-> IF k = 0 THEN <<>> ELSE f[k - 1] \o s[k]]
                 /\ Joined(s) = f[Len(s)]
    BY <1>1, <1>3, JoinedIs
  <2>2. n \in 0..n BY <1>1
  <2> HIDE DEF n
  <2>3. \A k \in 0..n : f[k] \in Seq(DOMAIN watched) BY <1>1, <1>2, <1>3, <2>1, JoinedIsSeq
  <2> QED BY <1>3, <2>1, <2>2, <2>3
<1>5. ASSUME NEW i \in DOMAIN watched, watched[i].addr \notin tainted
      PROVE  Times(i, Joined(s)) = Cardinality(AskedIn(watched[i].addr, watched[i].filter, Blocks[b]))
  <2> DEFINE c == [k \in 1..n |-> Asked(watched[i].addr, watched[i].filter, Blocks[b][k])]
             U == {e \in (1..Len(s)) \X Roles : e[2] \in c[e[1]]}
  <2>1. \A k \in 1..n : c[k] \subseteq Roles BY DEF Asked
  <2>2. \A k \in 1..n : Times(i, s[k]) = Cardinality(c[k]) BY <1>1, <1>2, <1>5, MatchCount
  <2>3. AskedIn(watched[i].addr, watched[i].filter, Blocks[b]) = U
    BY <1>1, <1>3 DEF AskedIn
  <2> HIDE DEF c, n
  <2>4. Len(s) \in Nat /\ \A k \in 1..Len(s) : /\ s[k] \in Seq(DOMAIN watched) /\ c[k] \subseteq Roles
                                              /\ Times(i, s[k]) = Cardinality(c[k])
    BY <1>1, <1>2, <1>3, <2>1, <2>2
  <2>5. \A e : e \in U <=> e \in (1..Len(s)) \X Roles /\ e[2] \in c[e[1]] OBVIOUS
  <2> HIDE DEF U
  <2>6. Tallies(i, s, DOMAIN watched, c, U) BY <2>4, <2>5 DEF Tallies
  <2>7. Times(i, Joined(s)) = Cardinality(U) BY <2>6, JoinedCount
  <2> QED BY <2>3, <2>7
<1> QED BY <1>4, <1>5 DEF s

-----------------------------------------------------------------------------
(* Steps of the callers.                                                    *)

\* At the start nothing is watched, held or found.
LEMMA InitWInv == WatchlistInit => WInv
<1> SUFFICES ASSUME WatchlistInit PROVE WInv OBVIOUS
<1>1. LocksOnPlan BY InitOnPlan
<1>2. \A p \in Threads : at[p] = "idle" /\ held[p] = <<>> BY DEF WatchlistInit
<1>3. MuExcludes BY <1>2 DEF MuExcludes, Holds
<1>4. CallsKnown BY <1>2 DEF CallsKnown
<1>5. "fetcher" \in Threads BY DEF Threads
<1>6. found = <<>> /\ ~Telling BY <1>2, <1>5 DEF WatchlistInit, Telling
<1>7. BlockInHand BY <1>6 DEF BlockInHand
<1>8. DOMAIN watched = {} /\ DOMAIN matcher = {} /\ told = {} BY DEF WatchlistInit
<1>9. RecordsFound
  <2>1. watched \in [DOMAIN watched -> WatchRecord] BY <1>8 DEF WatchlistInit
  <2>2. ids \in 0..MaxIds BY WatchlistAssumption DEF WatchlistInit
  <2> QED BY <1>8, <2>1, <2>2 DEF RecordsFound
<1>10. EventsNumbered BY FS_EmptySet DEF EventsNumbered, WatchlistInit
<1>11. AllRecorded BY <1>8 DEF AllRecorded
<1> QED BY <1>1, <1>3, <1>4, <1>7, <1>9, <1>10, <1>11 DEF WInv, WatchAccounts

\* What a step does with the callers.
CallerStep ==
    \/ UNCHANGED callers
    \/ \E p \in Threads : Return(p) \/ (at[p] # "idle" /\ LockNext(p)) \/ Acquire(p)
    \/ \E p \in Threads : \E o : /\ at[p] = "idle" /\ UNCHANGED held
                                 /\ op' = [op EXCEPT ![p] = o] /\ at' = [at EXCEPT ![p] = "lock"]
                                 /\ KnownCall(o)
    \/ notifySubscribers
    \/ \A p \in Threads : at'[p] = "idle" /\ held'[p] = <<>>

\* Every step moves at most one caller, or ends the process.
LEMMA CallersStep == [WatchlistNext]_watchlistVars => CallerStep
<1> SUFFICES ASSUME [WatchlistNext]_watchlistVars PROVE CallerStep OBVIOUS
<1>0. "fetcher" \in Threads /\ Callers \subseteq Threads BY DEF Threads
<1>1. CASE UNCHANGED watchlistVars BY <1>1 DEF watchlistVars, callers, CallerStep
<1>2. CASE MatchBlock BY <1>2 DEF MatchBlock, CallerStep
<1>3. CASE processMatchedEvent
  <2>1. UNCHANGED callers \/ LockNext("fetcher") BY <1>3, Zenon DEF processMatchedEvent
  <2>2. at["fetcher"] # "idle" BY <1>3 DEF processMatchedEvent, Running
  <2> QED BY <1>0, <2>1, <2>2 DEF CallerStep
<1>4. CASE notifySubscribers BY <1>4 DEF CallerStep
<1>5. CASE BlockDone BY <1>0, <1>5 DEF BlockDone, CallerStep
<1>6. CASE ProcessBlock
  <2>1. PICK b \in {block + 1} \cap DOMAIN Blocks : BeginCall("fetcher", [name |-> "ProcessBlock", block |-> b])
    BY <1>6 DEF ProcessBlock
  <2> DEFINE o == [name |-> "ProcessBlock", block |-> b]
  <2>2. KnownCall(o) BY DEF KnownCall
  <2>3. /\ at["fetcher"] = "idle" /\ UNCHANGED held
        /\ op' = [op EXCEPT !["fetcher"] = o] /\ at' = [at EXCEPT !["fetcher"] = "lock"]
    BY <2>1 DEF BeginCall
  <2> HIDE DEF o
  <2> QED BY <1>0, <2>2, <2>3 DEF CallerStep
<1>7. CASE Reboot BY <1>7 DEF Reboot, CallerStep
<1>8. ASSUME NEW p \in Threads, Acquire(p) PROVE CallerStep BY <1>8 DEF CallerStep
<1>9. ASSUME NEW p \in Callers, Request(p) PROVE CallerStep
  <2>1. PICK o : BeginCall(p, o) /\ KnownCall(o)
    <3>1. ASSUME NEW a \in Addrs, NEW f \in Filters PROVE KnownCall([name |-> "Watch", addr |-> a, filter |-> f])
      BY DEF KnownCall
    <3>2. \A i, s : /\ KnownCall([name |-> "Unwatch", id |-> i]) /\ KnownCall([name |-> "Unsubscribe", sub |-> s])
                    /\ KnownCall([name |-> "Subscribe", id |-> i, sub |-> s])
      BY DEF KnownCall
    <3> QED BY <1>9, <3>1, <3>2 DEF Request
  <2>2. /\ at[p] = "idle" /\ UNCHANGED held
        /\ op' = [op EXCEPT ![p] = o] /\ at' = [at EXCEPT ![p] = "lock"]
    BY <2>1 DEF BeginCall
  <2> QED BY <1>0, <2>1, <2>2 DEF CallerStep
<1>10. ASSUME NEW p \in Callers, WatchAddress(p) \/ DropSubscribers(p) \/ Subscribe(p) \/ UnsubscribeAddress(p)
       PROVE  CallerStep
  <2>1. Return(p) BY <1>10, Zenon DEF WatchAddress, DropSubscribers, Subscribe, UnsubscribeAddress
  <2> QED BY <1>0, <2>1 DEF CallerStep
<1>11. ASSUME NEW p \in Callers, UnwatchAddress(p) \/ SubscribeLocksMu(p) PROVE CallerStep
  <2>1. Return(p) \/ LockNext(p) BY <1>11, Zenon DEF UnwatchAddress, SubscribeLocksMu
  <2>2. at[p] # "idle" BY <1>11 DEF UnwatchAddress, SubscribeLocksMu, Running
  <2> QED BY <1>0, <2>1, <2>2 DEF CallerStep
<1> QED
  BY <1>1, <1>2, <1>3, <1>4, <1>5, <1>6, <1>7, <1>8, <1>9, <1>10, <1>11 DEF WatchlistNext

\* What a caller holds once it has the next lock of its plan.
LEMMA Acquired ==
    ASSUME LocksOnPlan, NEW p \in Threads, Acquire(p), NEW l, NEW m
    PROVE  /\ Holds(p, l, m)' => Holds(p, l, m) \/ NextLock(p) = <<l, m>>
           /\ \A q \in Threads \ {p} : held'[q] = held[q]
           /\ held[p] = <<>> => Len(held'[p]) = 1
           /\ held[p] # <<>> => Len(held[p]) = 1 /\ Len(held'[p]) = 2
<1>1. held'[p] = Append(held[p], NextLock(p)) /\ \A q \in Threads \ {p} : held'[q] = held[q]
  BY DEF Acquire, LocksOnPlan
<1>2. CASE held[p] = <<>>
  <2>1. held'[p] = <<NextLock(p)>> BY <1>1, <1>2
  <2>2. DOMAIN held'[p] = {1} /\ held'[p][1] = NextLock(p) /\ Len(held'[p]) = 1 BY <2>1
  <2> QED BY <1>1, <1>2, <2>2 DEF Holds
<1>3. CASE held[p] = <<Plan(op[p])[1]>>
  <2>1. held'[p] = <<Plan(op[p])[1], NextLock(p)>> BY <1>1, <1>3, PairAppended
  <2>2. DOMAIN held'[p] = {1, 2} /\ held'[p][1] = Plan(op[p])[1] /\ held'[p][2] = NextLock(p) BY <2>1
  <2>3. DOMAIN held[p] = {1} /\ held[p][1] = Plan(op[p])[1] /\ held[p] # <<>> BY <1>3
  <2>4. Len(held[p]) = 1 /\ Len(held'[p]) = 2 BY <1>3, <2>1
  <2> QED BY <1>1, <2>2, <2>3, <2>4 DEF Holds
<1> QED BY <1>2, <1>3 DEF Acquire, LocksOnPlan, OnPlan

\* The locks of the fetcher while it processes a block.
LEMMA FetcherHolds ==
    ASSUME LocksOnPlan, NEW p \in Threads, at[p] # "idle", held[p] # <<>>
    PROVE  /\ op[p].name = "ProcessBlock" => Holds(p, "mu", "R")
           /\ op[p].name \in {"Watch", "Unwatch"} => Holds(p, "mu", "W")
<1>1. PICK n : n = op[p].name OBVIOUS
<1>2. n \in OneLock \cup TwoLocks /\ (held[p] = <<Plan(op[p])[1]>> \/ held[p] = Plan(op[p]))
  BY <1>1 DEF LocksOnPlan, OnPlan
<1>3. 1 \in DOMAIN held[p] /\ held[p][1] = Plan(op[p])[1]
  BY <1>1, <1>2, PlanLength
<1>4. n = "ProcessBlock" => Plan(op[p])[1] = <<"mu", "R">> BY <1>1 DEF Plan
<1>5. n \in {"Watch", "Unwatch"} => Plan(op[p])[1] = <<"mu", "W">> BY <1>1 DEF Plan
<1> QED BY <1>1, <1>3, <1>4, <1>5 DEF Holds

\* A lock that is granted excludes the others.
LEMMA MuKept ==
    ASSUME LocksOnPlan, MuExcludes, CallerStep
    PROVE  MuExcludes'
<1>t. Threads' = Threads BY DEF Threads
<1>0. "fetcher" \in Threads BY DEF Threads
<1>c. held = [r \in Threads |-> held[r]] BY DEF LocksOnPlan
<1>1. ASSUME \A p \in Threads : \A m \in {"R", "W"} : Holds(p, "mu", m)' => Holds(p, "mu", m)
      PROVE  MuExcludes'
  BY <1>t, <1>1 DEF MuExcludes
<1>2. CASE UNCHANGED held BY <1>1, <1>2 DEF Holds
<1>3. ASSUME NEW r \in Threads, Return(r) PROVE MuExcludes'
  <2>1. held'[r] = <<>> BY <1>3, <1>c DEF Return
  <2>2. \A s \in Threads \ {r} : held'[s] = held[s] BY <1>3, <1>c DEF Return
  <2> QED BY <1>1, <2>1, <2>2 DEF Holds
<1>4. ASSUME NEW r \in Threads, Acquire(r) PROVE MuExcludes'
  <2>1. \A m \in {"R", "W"} : Holds(r, "mu", m)' => Holds(r, "mu", m) \/ NextLock(r) = <<"mu", m>>
    BY <1>4, Acquired
  <2>2. \A s \in Threads \ {r} : \A m \in {"R", "W"} : Holds(s, "mu", m)' <=> Holds(s, "mu", m)
    BY <1>4, Acquired DEF Holds
  <2>3. NextLock(r) = <<"mu", "R">> => \A s \in Threads \ {r} : ~Holds(s, "mu", "W")
    BY <1>4 DEF Acquire, Grantable
  <2>4. NextLock(r) = <<"mu", "W">> => \A s \in Threads \ {r} : ~Holds(s, "mu", "W") /\ ~Holds(s, "mu", "R")
    BY <1>4 DEF Acquire, Grantable
  <2>5. ASSUME NEW p \in Threads, NEW q \in Threads, p # q, Holds(p, "mu", "W")'
        PROVE  ~Holds(q, "mu", "W")' /\ ~Holds(q, "mu", "R")'
    <3>1. \A m \in {"R", "W"} : Holds(q, "mu", m) => ~Holds(p, "mu", "W") BY <2>5 DEF MuExcludes
    <3> QED BY <2>1, <2>2, <2>3, <2>4, <2>5, <3>1
  <2> QED BY <1>t, <2>5 DEF MuExcludes
<1>5. CASE notifySubscribers
  <2>1. Running("fetcher", "ProcessBlock", 2) BY <1>5 DEF notifySubscribers
  <2>2. Holds("fetcher", "mu", "R")
    <3>1. held["fetcher"] # <<>> BY <2>1 DEF Running
    <3> QED BY <1>0, <2>1, <3>1, FetcherHolds DEF Running
  <2>3. held'["fetcher"] = << <<"mu", "R">> >> BY <1>0, <1>5, <1>c DEF notifySubscribers
  <2>4. \A s \in Threads \ {"fetcher"} : held'[s] = held[s] BY <1>5, <1>c DEF notifySubscribers
  <2>5. ~Holds("fetcher", "mu", "W")' BY <2>3 DEF Holds
  <2> QED BY <1>1, <2>2, <2>4, <2>5 DEF Holds
<1>6. CASE \A p \in Threads : held'[p] = <<>> BY <1>1, <1>6 DEF Holds
<1> QED BY <1>2, <1>3, <1>4, <1>5, <1>6 DEF CallerStep, callers, LockNext

\* Calls begin with parameters of the API.
LEMMA CallsStayKnown ==
    ASSUME LocksOnPlan, CallsKnown, CallerStep
    PROVE  CallsKnown'
<1>t. Threads' = Threads BY DEF Threads
<1>c. op = [r \in Threads |-> op[r]] /\ at = [r \in Threads |-> at[r]] BY DEF LocksOnPlan
<1>1. ASSUME \A p \in Threads : at'[p] = "idle" \/ (at[p] # "idle" /\ op'[p] = op[p]) \/ KnownCall(op'[p])
      PROVE  CallsKnown'
  BY <1>t, <1>1 DEF CallsKnown, KnownCall
<1>2. CASE UNCHANGED callers BY <1>1, <1>2 DEF callers
<1>3. ASSUME NEW r \in Threads, Return(r) PROVE CallsKnown'
  BY <1>1, <1>3, <1>c DEF Return
<1>4. ASSUME NEW r \in Threads, LockNext(r), at[r] # "idle" PROVE CallsKnown'
  BY <1>1, <1>4, <1>c DEF LockNext
<1>5. ASSUME NEW r \in Threads, Acquire(r) PROVE CallsKnown'
  BY <1>1, <1>5, <1>c DEF Acquire
<1>6. ASSUME NEW r \in Threads, NEW o, op' = [op EXCEPT ![r] = o], at' = [at EXCEPT ![r] = "lock"], KnownCall(o)
      PROVE  CallsKnown'
  BY <1>1, <1>6, <1>c
<1>7. CASE notifySubscribers BY <1>1, <1>7 DEF notifySubscribers
<1>8. CASE \A p \in Threads : at'[p] = "idle" BY <1>1, <1>8
<1> QED BY <1>2, <1>3, <1>4, <1>5, <1>6, <1>7, <1>8 DEF CallerStep

-----------------------------------------------------------------------------
(* Steps that leave the block in hand alone.                                *)

\* The block in hand stays with the fetcher.
HandKept ==
    /\ Telling' <=> Telling
    /\ found # <<>> => /\ at'["fetcher"] # "idle" /\ held'["fetcher"] # <<>>
                       /\ op'["fetcher"] = op["fetcher"]

\* The thread p is not in the middle of a block.
LEMMA HandAlone ==
    ASSUME LocksOnPlan, BlockInHand, NEW p \in Threads,
           p = "fetcher" => found = <<>> /\ ~Telling /\ ~Telling',
           NEW o, NEW h, NEW l,
           op' = [op EXCEPT ![p] = o], held' = [held EXCEPT ![p] = h], at' = [at EXCEPT ![p] = l]
    PROVE  HandKept
<1>1. "fetcher" \in Threads BY DEF Threads
<1>2. CASE p = "fetcher" BY <1>2 DEF HandKept
<1>3. CASE p # "fetcher"
  <2>1. op'["fetcher"] = op["fetcher"] /\ held'["fetcher"] = held["fetcher"] /\ at'["fetcher"] = at["fetcher"]
    BY <1>1, <1>3 DEF LocksOnPlan
  <2>2. Telling' <=> Telling BY <2>1 DEF Telling
  <2> QED BY <2>1, <2>2 DEF HandKept, BlockInHand
<1> QED BY <1>2, <1>3

\* A call other than ProcessBlock gives back its locks, or asks for the next.
LEMMA CallLeavesHand ==
    ASSUME LocksOnPlan, BlockInHand, NEW p \in Threads, op[p].name # "ProcessBlock",
           Return(p) \/ LockNext(p)
    PROVE  HandKept
<1>1. p = "fetcher" => found = <<>> /\ ~Telling BY DEF BlockInHand, Telling
<1>2. CASE Return(p)
  <2>1. at'[p] = "idle" BY <1>2 DEF Return, LocksOnPlan
  <2>2. p = "fetcher" => ~Telling' BY <2>1 DEF Telling
  <2> QED BY <1>1, <1>2, <2>2, HandAlone DEF Return
<1>3. CASE LockNext(p)
  <2>1. op' = op /\ held' = held BY <1>3 DEF LockNext
  <2>2. p = "fetcher" => ~Telling' BY <2>1 DEF Telling
  <2>3. op' = [op EXCEPT ![p] = op[p]] /\ held' = [held EXCEPT ![p] = held[p]] BY <2>1 DEF LocksOnPlan
  <2> QED BY <1>1, <1>3, <2>2, <2>3, HandAlone DEF LockNext
<1> QED BY <1>2, <1>3

\* Who begins a call had no lock.
LEMMA BeginLeavesHand ==
    ASSUME LocksOnPlan, BlockInHand, NEW p \in Threads, NEW o, BeginCall(p, o)
    PROVE  HandKept
<1>1. /\ held' = held /\ held[p] = <<>> /\ at[p] = "idle" /\ at'[p] = "lock"
      /\ op' = [op EXCEPT ![p] = o] /\ at' = [at EXCEPT ![p] = "lock"]
  BY DEF BeginCall, LocksOnPlan, OnPlan
<1>2. p = "fetcher" => found = <<>> /\ ~Telling BY <1>1 DEF BlockInHand, Telling
<1>3. p = "fetcher" => ~Telling'
  <2> SUFFICES ASSUME p = "fetcher" PROVE ~Telling' OBVIOUS
  <2>1. Len(held'[p]) = 0 BY <1>1
  <2> QED BY <1>1, <2>1 DEF Telling
<1>4. held' = [held EXCEPT ![p] = held[p]] BY <1>1 DEF LocksOnPlan
<1> QED BY <1>1, <1>2, <1>3, <1>4, HandAlone

\* The fetcher keeps its block when it gets its second lock.
LEMMA AcquireLeavesHand ==
    ASSUME LocksOnPlan, BlockInHand, NEW p \in Threads, Acquire(p)
    PROVE  HandKept
<1>0. "fetcher" \in Threads BY DEF Threads
<1>1. /\ op' = op /\ at[p] = "lock" /\ at' = [at EXCEPT ![p] = "run"] /\ at'[p] = "run"
      /\ held' = [held EXCEPT ![p] = Append(held[p], NextLock(p))]
  BY DEF Acquire, LocksOnPlan
<1>2. CASE p # "fetcher"
  <2>1. op' = [op EXCEPT ![p] = op[p]] BY <1>1 DEF LocksOnPlan
  <2> QED BY <1>1, <1>2, <2>1, HandAlone
<1>3. CASE p = "fetcher"
  <2>1. /\ held[p] = <<>> => Len(held'[p]) = 1
        /\ held[p] # <<>> => Len(held[p]) = 1 /\ Len(held'[p]) = 2
    BY Acquired
  <2>2. Len(held[p]) = 1 <=> Len(held'[p]) = 2
    <3>1. held[p] = <<>> => Len(held[p]) = 0 OBVIOUS
    <3> QED BY <2>1, <3>1
  <2>3. Telling' <=> Telling BY <1>1, <1>3, <2>2 DEF Telling
  <2>4. held[p] # <<>> => held'[p] # <<>> BY <2>1
  <2> QED BY <1>1, <1>3, <2>3, <2>4 DEF HandKept, BlockInHand
<1> QED BY <1>2, <1>3

recorded == <<watched, lookup, events, matcher, bits, block, found, ids, told, tainted, expected>>

\* A step that changes neither records nor events keeps the accounts.
LEMMA QuietKeepsAccounts ==
    ASSUME WatchAccounts, HandKept, UNCHANGED recorded
    PROVE  WatchAccounts'
<1> USE DEF recorded
<1>1. Pending' = Pending BY DEF Pending, HandKept
<1>2. BlockInHand' BY DEF BlockInHand, HandKept, WatchAccounts
<1>3. RecordsFound' BY DEF RecordsFound, WatchAccounts
<1>4. EventsNumbered' BY DEF EventsNumbered, WatchAccounts
<1>5. AllRecorded' BY <1>1 DEF AllRecorded, WatchAccounts, EventsOf, Times
<1> QED BY <1>2, <1>3, <1>4, <1>5 DEF WatchAccounts

\* While a caller has mu for writing, no block is in hand.
LEMMA WriterAlone ==
    ASSUME LocksOnPlan, MuExcludes, BlockInHand, NEW p \in Threads, NEW n \in {"Watch", "Unwatch"}, Running(p, n, 1)
    PROVE  found = <<>> /\ ~Telling
<1>0. "fetcher" \in Threads BY DEF Threads
<1> SUFFICES ASSUME found # <<>> PROVE FALSE BY DEF BlockInHand
<1>1. Holds("fetcher", "mu", "R") BY <1>0, FetcherHolds DEF BlockInHand
<1>2. Holds(p, "mu", "W")
  <2>1. held[p] # <<>> BY DEF Running
  <2> QED BY <2>1, FetcherHolds DEF Running
<1>3. p # "fetcher" BY DEF BlockInHand, Running
<1> QED BY <1>0, <1>1, <1>2, <1>3 DEF MuExcludes

-----------------------------------------------------------------------------
(* Calls that write.                                                        *)

\* No block is in hand, before and after.
LEMMA NothingInHand ==
    ASSUME BlockInHand, found = <<>>, ~Telling, HandKept, UNCHANGED <<found, block>>, NEW D, D = DOMAIN watched'
    PROVE  BlockInHand' /\ \A i : Times(i, Pending) = 0 /\ Times(i, Pending') = 0
<1>1. Pending = <<>> /\ Pending' = <<>> BY DEF Pending, HandKept
<1>2. found' \in Seq(D) /\ found' = <<>> BY SMT
<1>3. BlockInHand' BY <1>2 DEF BlockInHand, HandKept
<1> QED BY <1>1, <1>3, TimesEmpty

\* An address without failed writes has one record.
LEMMA OneRecord ==
    ASSUME RecordsFound, NEW i \in DOMAIN watched, NEW j \in DOMAIN watched,
           watched[i].addr = watched[j].addr, watched[i].addr \notin tainted
    PROVE  i = j
BY DEF RecordsFound

\* A new watch has a fresh identifier: no events, nothing expected.
LEMMA WatchStep ==
    ASSUME LocksOnPlan, MuExcludes, CallsKnown, WatchAccounts, NEW p \in Threads, WatchAddress(p)
    PROVE  WatchAccounts'
<1>1. Running(p, "Watch", 1) /\ Return(p) /\ UNCHANGED <<block, found>> BY DEF WatchAddress
<1>2. BlockInHand /\ RecordsFound /\ EventsNumbered /\ AllRecorded BY DEF WatchAccounts
<1>3. HandKept BY <1>1, <1>2, CallLeavesHand DEF Running
<1>4. found = <<>> /\ ~Telling BY <1>1, <1>2, WriterAlone
<1> DEFINE a == op[p].addr
           id == ids + 1
           rec == [addr |-> a, filter |-> op[p].filter, total |-> 0]
<1>5. CASE (a \in DOMAIN lookup /\ lookup[a] \in DOMAIN watched) \/ ids = MaxIds
  <2>1. UNCHANGED <<store, memory, bounds, watchHistory>> BY <1>5 DEF WatchAddress
  <2>2. UNCHANGED recorded BY <1>1, <2>1 DEF recorded, store, memory, bounds, watchHistory
  <2> QED BY <1>3, <2>2, QuietKeepsAccounts
<1>6. CASE ~((a \in DOMAIN lookup /\ lookup[a] \in DOMAIN watched) \/ ids = MaxIds)
  <2>1. PICK n \in 0..3 :
          /\ Outcome(n, 3, a)
          /\ ids' = id
          /\ watched' = IF n >= 1 THEN Put(watched, id, rec) ELSE watched
          /\ lookup' = IF n = 3 THEN Put(lookup, a, id) ELSE lookup
          /\ IF n = 3 THEN AddAddress(a, id) /\ told' = told \cup {<<a, id>>}
             ELSE UNCHANGED <<matcher, bits, told>>
          /\ UNCHANGED <<events, subscribers, addrSubs, reboots, expected>>
    BY <1>6 DEF WatchAddress
  <2>2. a \in Addrs /\ op[p].filter \in Filters BY <1>1 DEF CallsKnown, KnownCall, Running
  <2>3. rec \in WatchRecord /\ rec.addr = a /\ rec.total = 0 BY <2>2 DEF WatchRecord
  <2>4. /\ ids \in 0..MaxIds /\ MaxIds \in Nat /\ id \in 1..MaxIds /\ id > ids /\ ids' = id
        /\ DOMAIN watched \subseteq 1..ids /\ id \notin DOMAIN watched
    BY <1>2, <1>6, <2>1, WatchlistAssumption DEF RecordsFound
  <2>5. tainted' = IF n < 3 THEN tainted \cup {a} ELSE tainted BY <2>1 DEF Outcome
  <2>6. UNCHANGED <<events, expected>> BY <2>1
  <2>7. \A i : Times(i, Pending) = 0 /\ Times(i, Pending') = 0 BY <1>1, <1>2, <1>3, <1>4, NothingInHand
  <2>8. BlockInHand' BY <1>1, <1>2, <1>3, <1>4, NothingInHand
  <2> HIDE DEF a, id, rec
  <2>9. /\ n >= 1 => /\ DOMAIN watched' = DOMAIN watched \cup {id} /\ watched'[id] = rec
                     /\ \A i \in DOMAIN watched : watched'[i] = watched[i]
                     /\ watched' = [i \in DOMAIN watched' |-> watched'[i]]
        /\ n < 1 => watched' = watched
    BY <2>1, <2>4 DEF Put
  <2>10. /\ n = 3 => /\ DOMAIN lookup' = DOMAIN lookup \cup {a} /\ lookup'[a] = id
                     /\ \A b \in DOMAIN lookup \ {a} : lookup'[b] = lookup[b]
                     /\ DOMAIN matcher' = DOMAIN matcher \cup {a} /\ matcher'[a] = id
                     /\ \A b \in DOMAIN matcher \ {a} : matcher'[b] = matcher[b]
                     /\ bits \subseteq bits' /\ Hash[a] \subseteq bits' /\ told' = told \cup {<<a, id>>}
         /\ n # 3 => lookup' = lookup /\ matcher' = matcher /\ bits' = bits /\ told' = told
    BY <2>1 DEF Put, AddAddress
  <2>11. \A i \in DOMAIN watched : i \in DOMAIN watched' /\ watched'[i] = watched[i] BY <2>9
  <2>12. ids' \in 0..MaxIds /\ DOMAIN watched' \subseteq 1..ids' BY <2>4, <2>9
  <2>13. watched' \in [DOMAIN watched' -> WatchRecord]
    <3>1. \A i \in DOMAIN watched : watched[i] \in WatchRecord BY <1>2 DEF RecordsFound
    <3>2. CASE n >= 1
      <4>1. \A i \in DOMAIN watched' : watched'[i] \in WatchRecord BY <2>3, <2>9, <3>1, <3>2
      <4> QED BY <2>9, <3>2, <4>1
    <3>3. CASE n < 1 BY <1>2, <2>9, <3>3 DEF RecordsFound
    <3> QED BY <3>2, <3>3
  <2>14. \A b \in DOMAIN matcher' : matcher'[b] \in DOMAIN watched' /\ watched'[matcher'[b]].addr = b
    <3>1. \A b \in DOMAIN matcher : matcher[b] \in DOMAIN watched /\ watched[matcher[b]].addr = b
      BY <1>2 DEF RecordsFound
    <3> QED BY <2>3, <2>9, <2>10, <2>11, <3>1
  <2>15. \A w \in told' : w = <<w[1], w[2]>> /\ w[2] \in DOMAIN watched' /\ watched'[w[2]].addr = w[1]
    <3>1. \A w \in told : w = <<w[1], w[2]>> /\ w[2] \in DOMAIN watched /\ watched[w[2]].addr = w[1]
      BY <1>2 DEF RecordsFound
    <3>2. n = 3 => id \in DOMAIN watched' /\ watched'[id].addr = a BY <2>3, <2>9
    <3> QED BY <2>10, <2>11, <3>1, <3>2
  <2>16. ASSUME NEW i \in DOMAIN watched', watched'[i].addr \notin tainted'
         PROVE  /\ watched'[i].addr \in DOMAIN lookup' /\ lookup'[watched'[i].addr] = i
                /\ watched'[i].addr \in DOMAIN matcher' /\ matcher'[watched'[i].addr] = i
                /\ Hash[watched'[i].addr] \subseteq bits'
    <3>1. CASE i \in DOMAIN watched
      <4> DEFINE b == watched[i].addr
      <4>1. watched'[i].addr = b /\ b \notin tainted BY <2>5, <2>11, <2>16, <3>1
      <4>2. /\ b \in DOMAIN lookup /\ lookup[b] = i /\ b \in DOMAIN matcher /\ matcher[b] = i /\ Hash[b] \subseteq bits
        BY <1>2, <3>1, <4>1 DEF RecordsFound
      <4>3. b # a BY <1>6, <3>1, <4>2 DEF a
      <4> HIDE DEF b
      <4> QED BY <2>10, <4>1, <4>2, <4>3
    <3>2. CASE i \notin DOMAIN watched
      <4>1. n >= 1 /\ i = id /\ watched'[i].addr = a BY <2>3, <2>9, <2>16, <3>2
      <4>2. n = 3 BY <2>5, <2>16, <4>1
      <4> QED BY <2>10, <4>1, <4>2
    <3> QED BY <3>1, <3>2
  <2>17. RecordsFound' BY <2>12, <2>13, <2>14, <2>15, <2>16 DEF RecordsFound
  <2>18. EventsNumbered'
    BY <1>2, <2>4, <2>6 DEF EventsNumbered
  <2>19. ASSUME NEW w \in told', w[1] \notin tainted'
         PROVE  /\ Cardinality(EventsOf(w[2])') + Times(w[2], Pending') = expected'[w[2]]
                /\ watched'[w[2]].total + Times(w[2], Pending') = expected'[w[2]]
    <3>0. EventsOf(w[2])' = EventsOf(w[2]) BY <2>6 DEF EventsOf
    <3>1. CASE w \in told
      <4>1. w[1] \notin tainted /\ w[2] \in DOMAIN watched BY <1>2, <2>5, <2>19, <3>1 DEF RecordsFound
      <4> QED BY <1>2, <2>6, <2>7, <2>11, <3>0, <3>1, <4>1 DEF AllRecorded
    <3>2. CASE w \notin told
      <4>1. n = 3 /\ w[2] = id BY <2>10, <2>19, <3>2
      <4>2. EventsOf(id) = {} BY <1>2, <2>4 DEF EventsNumbered, EventsOf
      <4>3. expected[id] = 0 BY <1>2, <2>4 DEF EventsNumbered
      <4>4. watched'[id].total = 0 BY <2>3, <2>9, <4>1
      <4> QED BY <2>6, <2>7, <3>0, <4>1, <4>2, <4>3, <4>4, FS_EmptySet
    <3> QED BY <3>1, <3>2
  <2>20. AllRecorded' BY <2>19 DEF AllRecorded
  <2> QED BY <2>8, <2>17, <2>18, <2>20 DEF WatchAccounts
<1> QED BY <1>5, <1>6

\* An unwatched address leaves the others as they are.
LEMMA UnwatchStep ==
    ASSUME LocksOnPlan, MuExcludes, CallsKnown, WatchAccounts, NEW p \in Threads, UnwatchAddress(p)
    PROVE  WatchAccounts'
<1> DEFINE id == op[p].id
           a == watched[id].addr
<1>1. Running(p, "Unwatch", 1) /\ (Return(p) \/ LockNext(p)) /\ UNCHANGED <<block, found>>
  BY Zenon DEF UnwatchAddress
<1>2. BlockInHand /\ RecordsFound /\ EventsNumbered /\ AllRecorded BY DEF WatchAccounts
<1>3. HandKept BY <1>1, <1>2, CallLeavesHand DEF Running
<1>4. found = <<>> /\ ~Telling BY <1>1, <1>2, WriterAlone
<1>5. CASE id \notin DOMAIN watched
  <2>1. UNCHANGED <<store, memory, bounds, watchHistory>> BY <1>5 DEF UnwatchAddress
  <2>2. UNCHANGED recorded BY <1>1, <2>1 DEF recorded, store, memory, bounds, watchHistory
  <2> QED BY <1>3, <2>2, QuietKeepsAccounts
<1>6. CASE id \in DOMAIN watched
  <2>1. PICK n \in 0..2 :
          /\ Outcome(n, 2, a)
          /\ RemoveAddress(a)
          /\ watched' = IF n >= 1 THEN Del(watched, {id}) ELSE watched
          /\ lookup' = IF n = 2 THEN Del(lookup, {a}) ELSE lookup
          /\ told' = told \ {<<a, id>>}
          /\ UNCHANGED <<events, subscribers, addrSubs, ids, reboots, expected>>
    BY <1>6 DEF UnwatchAddress
  <2>5. tainted' = IF n < 2 THEN tainted \cup {a} ELSE tainted BY <2>1 DEF Outcome
  <2>6. UNCHANGED <<events, expected, ids, bits>> BY <2>1 DEF RemoveAddress
  <2>7. \A i : Times(i, Pending) = 0 /\ Times(i, Pending') = 0 BY <1>1, <1>2, <1>3, <1>4, NothingInHand
  <2>8. BlockInHand' BY <1>1, <1>2, <1>3, <1>4, NothingInHand
  <2>9. /\ DOMAIN watched' = IF n >= 1 THEN DOMAIN watched \ {id} ELSE DOMAIN watched
        /\ \A i \in DOMAIN watched' : watched'[i] = watched[i]
        /\ watched' = [i \in DOMAIN watched' |-> watched'[i]]
    BY <1>2, <2>1 DEF Del, RecordsFound
  <2>10. /\ DOMAIN matcher' = DOMAIN matcher \ {a}
         /\ \A b \in DOMAIN matcher \ {a} : matcher'[b] = matcher[b]
         /\ \A b \in DOMAIN lookup \ {a} : b \in DOMAIN lookup' /\ lookup'[b] = lookup[b]
         /\ told' = told \ {<<a, id>>}
    BY <2>1 DEF Del, RemoveAddress
  <2>11. ids' \in 0..MaxIds /\ DOMAIN watched' \subseteq 1..ids' BY <1>2, <2>6, <2>9 DEF RecordsFound
  <2>12. watched' \in [DOMAIN watched' -> WatchRecord]
    <3>1. \A i \in DOMAIN watched : watched[i] \in WatchRecord BY <1>2 DEF RecordsFound
    <3>2. \A i \in DOMAIN watched' : watched'[i] \in WatchRecord BY <2>9, <3>1
    <3> QED BY <2>9, <3>2
  <2>13. \A b \in DOMAIN matcher' : matcher'[b] \in DOMAIN watched' /\ watched'[matcher'[b]].addr = b
    <3>1. \A b \in DOMAIN matcher : matcher[b] \in DOMAIN watched /\ watched[matcher[b]].addr = b
      BY <1>2 DEF RecordsFound
    <3> QED BY <2>9, <2>10, <3>1
  <2>14. \A w \in told' : /\ w = <<w[1], w[2]>> /\ w[2] \in DOMAIN watched' /\ watched'[w[2]].addr = w[1]
                          /\ w \in told /\ watched'[w[2]] = watched[w[2]]
    <3>1. \A w \in told : w = <<w[1], w[2]>> /\ w[2] \in DOMAIN watched /\ watched[w[2]].addr = w[1]
      BY <1>2 DEF RecordsFound
    <3>2. \A w \in told' : w \in told /\ w[2] # id BY <2>10, <3>1
    <3> HIDE DEF id
    <3> QED BY <2>9, <3>1, <3>2
  <2>15. ASSUME NEW i \in DOMAIN watched', watched'[i].addr \notin tainted'
         PROVE  /\ watched'[i].addr \in DOMAIN lookup' /\ lookup'[watched'[i].addr] = i
                /\ watched'[i].addr \in DOMAIN matcher' /\ matcher'[watched'[i].addr] = i
                /\ Hash[watched'[i].addr] \subseteq bits'
    <3> DEFINE b == watched[i].addr
    <3>1. watched'[i].addr = b /\ b \notin tainted /\ i \in DOMAIN watched BY <2>5, <2>9, <2>15
    <3>2. /\ b \in DOMAIN lookup /\ lookup[b] = i /\ b \in DOMAIN matcher /\ matcher[b] = i /\ Hash[b] \subseteq bits
      BY <1>2, <3>1 DEF RecordsFound
    <3>3. b # a
      <4> SUFFICES ASSUME b = a PROVE FALSE OBVIOUS
      <4>1. n = 2 BY <2>5, <2>15, <3>1
      <4>2. i # id BY <2>9, <2>15, <4>1
      <4> QED BY <1>2, <1>6, <3>1, <4>2, OneRecord
    <3> HIDE DEF b, a
    <3> QED BY <2>6, <2>10, <3>1, <3>2, <3>3
  <2>16. RecordsFound' BY <2>11, <2>12, <2>13, <2>14, <2>15 DEF RecordsFound
  <2>17. EventsNumbered' BY <1>2, <2>6 DEF EventsNumbered
  <2>18. ASSUME NEW w \in told', w[1] \notin tainted'
         PROVE  /\ Cardinality(EventsOf(w[2])') + Times(w[2], Pending') = expected'[w[2]]
                /\ watched'[w[2]].total + Times(w[2], Pending') = expected'[w[2]]
    <3>0. EventsOf(w[2])' = EventsOf(w[2]) BY <2>6 DEF EventsOf
    <3>1. w \in told /\ w[1] \notin tainted /\ watched'[w[2]] = watched[w[2]] BY <2>5, <2>14, <2>18
    <3> QED BY <1>2, <2>6, <2>7, <3>0, <3>1 DEF AllRecorded
  <2>19. AllRecorded' BY <2>18 DEF AllRecorded
  <2> QED BY <2>8, <2>16, <2>17, <2>19 DEF WatchAccounts
<1> QED BY <1>5, <1>6

-----------------------------------------------------------------------------
(* The processing of blocks.                                                *)

\* What a filter asks for in a block can be counted.
LEMMA AskedFinite ==
    ASSUME NEW b \in DOMAIN Blocks, NEW a, NEW f
    PROVE  Cardinality(AskedIn(a, f, Blocks[b])) \in Nat
<1>1. PICK n \in Nat : DOMAIN Blocks[b] = 1..n BY WatchlistAssumption
<1>2. IsFiniteSet(1..n)
  <2>1. 1 \in Int /\ n \in Int OBVIOUS
  <2> QED BY <2>1, FS_Interval
<1>3. IsFiniteSet((DOMAIN Blocks[b]) \X Roles) BY <1>1, <1>2, RolesFinite, FS_Product
<1>4. AskedIn(a, f, Blocks[b]) \subseteq (DOMAIN Blocks[b]) \X Roles BY DEF AskedIn
<1>5. IsFiniteSet(AskedIn(a, f, Blocks[b])) BY <1>3, <1>4, FS_Subset
<1> QED BY <1>5, FS_CardinalityType

\* All that a block adds to what is expected is in hand.
LEMMA MatchStep ==
    ASSUME LocksOnPlan, CallsKnown, WatchAccounts, MatchBlock
    PROVE  WatchAccounts'
<1>0. "fetcher" \in Threads BY DEF Threads
<1>1. Running("fetcher", "ProcessBlock", 1) /\ block < op["fetcher"].block /\ block' = op["fetcher"].block
  BY DEF MatchBlock
<1>2. BlockInHand /\ RecordsFound /\ EventsNumbered /\ AllRecorded BY DEF WatchAccounts
<1>3. PICK b : b = op["fetcher"].block OBVIOUS
<1>4. b \in DOMAIN Blocks BY <1>0, <1>1, <1>3 DEF CallsKnown, KnownCall, Running
<1>5. b \in Nat BY <1>4, WatchlistAssumption
<1>6. found = <<>>
  <2> SUFFICES ASSUME found # <<>> PROVE FALSE OBVIOUS
  <2>1. block = b /\ block < b BY <1>1, <1>2, <1>3 DEF BlockInHand
  <2> QED BY <1>5, <2>1
<1>7. UNCHANGED <<watched, lookup, events, matcher, bits, op, held, at, ids, told, tainted>>
  BY DEF MatchBlock, store, memory, callers, bounds
<1>r. at["fetcher"] = "run" /\ op["fetcher"].name = "ProcessBlock" BY Zenon DEF MatchBlock, Running
<1>l. Len(held["fetcher"]) = 1 BY Zenon DEF MatchBlock, Running
<1>8. ~Telling /\ ~Telling'
  <2>1. at["fetcher"] = "run" BY <1>r
  <2>2. ~Telling BY <2>1, <1>l DEF Telling
  <2>3. Telling' <=> Telling
    <3>1. UNCHANGED op /\ UNCHANGED held /\ UNCHANGED at BY <1>7
    <3> QED BY <3>1, Zenon DEF Telling
  <2> QED BY <2>2, <2>3
<1> DEFINE s == [k \in DOMAIN Blocks[b] |-> MatchItem(Blocks[b][k])]
           A(i) == Cardinality(AskedIn(watched[i].addr, watched[i].filter, Blocks[b]))
<1>9. /\ found' = Joined(s)
      /\ expected' = [i \in 1..MaxIds |-> IF \E w \in told : w[2] = i THEN expected[i] + A(i) ELSE expected[i]]
  BY <1>3 DEF MatchBlock
<1>10. /\ found' \in Seq(DOMAIN watched)
       /\ \A i \in DOMAIN watched : watched[i].addr \notin tainted => Times(i, found') = A(i)
  BY <1>2, <1>4, <1>9, BlockCount
<1>11. \A i : A(i) \in Nat BY <1>4, AskedFinite
<1> HIDE DEF s, A
<1>12. Pending = <<>> /\ Pending' = found' BY <1>6, <1>8 DEF Pending
<1>13. BlockInHand'
  <2>1. held["fetcher"] # <<>> BY <1>l
  <2>2. block' = op'["fetcher"].block BY <1>1, <1>7
  <2> QED BY <1>r, <1>7, <1>8, <1>10, <2>1, <2>2 DEF BlockInHand
<1>14. RecordsFound' BY <1>2, <1>7 DEF RecordsFound
<1>15. EventsNumbered'
  <2>1. \A i \in 1..MaxIds : expected[i] \in Nat BY <1>2 DEF EventsNumbered
  <2>2. \A i \in 1..MaxIds : expected'[i] \in Nat BY <1>9, <1>11, <2>1
  <2>3. expected' \in [1..MaxIds -> Nat]
    <3>1. expected' = [i \in 1..MaxIds |-> expected'[i]] BY <1>9
    <3> QED BY <2>2, <3>1
  <2>4. ASSUME NEW i \in 1..MaxIds, i > ids PROVE expected'[i] = 0
    <3>1. i \notin DOMAIN watched BY <1>2, <2>4 DEF RecordsFound
    <3>2. ~\E w \in told : w[2] = i BY <1>2, <3>1 DEF RecordsFound
    <3> QED BY <1>2, <1>9, <2>4, <3>2 DEF EventsNumbered
  <2> QED BY <1>2, <1>7, <2>3, <2>4 DEF EventsNumbered
<1>16. ASSUME NEW w \in told', w[1] \notin tainted'
       PROVE  /\ Cardinality(EventsOf(w[2])') + Times(w[2], Pending') = expected'[w[2]]
              /\ watched'[w[2]].total + Times(w[2], Pending') = expected'[w[2]]
  <2>1. w \in told /\ w[1] \notin tainted BY <1>7, <1>16
  <2>2. w[2] \in DOMAIN watched /\ watched[w[2]].addr = w[1] /\ w[2] \in 1..MaxIds
    BY <1>2, <2>1, WatchlistAssumption DEF RecordsFound
  <2>3. EventsOf(w[2])' = EventsOf(w[2]) BY <1>7 DEF EventsOf
  <2>4. Times(w[2], Pending') = A(w[2]) BY <1>10, <1>12, <2>1, <2>2
  <2>5. expected'[w[2]] = expected[w[2]] + A(w[2]) BY <1>9, <2>1, <2>2
  <2>6. Times(w[2], Pending) = 0 BY <1>12, TimesEmpty
  <2>7. Cardinality(EventsOf(w[2])) + 0 = expected[w[2]] /\ watched[w[2]].total + 0 = expected[w[2]]
    BY <1>2, <2>1, <2>6 DEF AllRecorded
  <2>8. Cardinality(EventsOf(w[2])) \in Nat /\ watched[w[2]].total \in Nat
    <3>1. EventsOf(w[2]) \subseteq events BY DEF EventsOf
    <3>2. Cardinality(EventsOf(w[2])) \in Nat BY <1>2, <3>1, FS_Subset, FS_CardinalityType DEF EventsNumbered
    <3>3. watched[w[2]] \in WatchRecord BY <1>2, <2>2 DEF RecordsFound
    <3> QED BY <3>2, <3>3 DEF WatchRecord
  <2> QED BY <1>7, <1>11, <2>3, <2>4, <2>5, <2>7, <2>8
<1>17. AllRecorded' BY <1>16 DEF AllRecorded
<1> QED BY <1>13, <1>14, <1>15, <1>17 DEF WatchAccounts

\* Subscribers are told of what is stored already.
LEMMA NotifyStep ==
    ASSUME LocksOnPlan, WatchAccounts, notifySubscribers
    PROVE  WatchAccounts'
<1>0. "fetcher" \in Threads BY DEF Threads
<1>1. /\ Running("fetcher", "ProcessBlock", 2) /\ found' = Tail(found)
      /\ UNCHANGED <<watched, lookup, events, matcher, bits, block, op, at, ids, told, tainted, expected>>
  BY DEF notifySubscribers, store, memory, bounds, watchHistory
<1>2. BlockInHand /\ RecordsFound /\ EventsNumbered /\ AllRecorded BY DEF WatchAccounts
<1>3. held'["fetcher"] = << <<"mu", "R">> >> BY <1>0 DEF notifySubscribers, LocksOnPlan
<1>4. held'["fetcher"] # <<>> /\ Len(held'["fetcher"]) = 1 BY <1>3
<1>5. Telling /\ ~Telling' BY <1>1, <1>4 DEF Telling, Running
<1>6. Pending' = Pending BY <1>1, <1>5 DEF Pending
<1>7. found # <<>> /\ found \in Seq(DOMAIN watched) BY <1>2, <1>5 DEF BlockInHand
<1>8. found' \in Seq(DOMAIN watched) BY <1>1, <1>7, HeadTailProperties
<1>9. BlockInHand' BY <1>1, <1>2, <1>4, <1>5, <1>7, <1>8 DEF BlockInHand
<1>10. RecordsFound' BY <1>1, <1>2 DEF RecordsFound
<1>11. EventsNumbered' BY <1>1, <1>2 DEF EventsNumbered
<1>12. AllRecorded' BY <1>1, <1>2, <1>6 DEF AllRecorded, EventsOf, Times
<1> QED BY <1>9, <1>10, <1>11, <1>12 DEF WatchAccounts

\* What is lost at a restart was in hand; the matcher finds what it found.
LEMMA RebootStep ==
    ASSUME WatchAccounts, Reboot
    PROVE  WatchAccounts'
<1>0. "fetcher" \in Threads BY DEF Threads
<1>1. /\ found' = <<>> /\ at'["fetcher"] = "idle"
      /\ tainted' = tainted \cup {watched[found[i]].addr : i \in DOMAIN found}
      /\ UNCHANGED <<watched, lookup, events, block, ids, told, expected>>
  BY <1>0 DEF Reboot, store
<1>2. BlockInHand /\ RecordsFound /\ EventsNumbered /\ AllRecorded BY DEF WatchAccounts
<1>3. /\ DOMAIN matcher' = {watched[i].addr : i \in DOMAIN watched}
      /\ \A a \in DOMAIN matcher' : matcher'[a] \in DOMAIN watched /\ watched[matcher'[a]].addr = a
  BY DEF Reboot
<1>4. \A i \in DOMAIN watched : Hash[watched[i].addr] \subseteq bits'
  BY DEF Reboot
<1>5. ~Telling' BY <1>1 DEF Telling
<1>6. Pending' = <<>> BY <1>1, <1>5 DEF Pending
<1>7. BlockInHand'
  <2>1. found' \in Seq(DOMAIN watched') BY <1>1
  <2> QED BY <1>1, <1>5, <2>1 DEF BlockInHand
<1>8. RecordsFound'
  <2>1. ASSUME NEW i \in DOMAIN watched, watched[i].addr \notin tainted
        PROVE  watched[i].addr \in DOMAIN matcher' /\ matcher'[watched[i].addr] = i
    BY <1>2, <1>3, <2>1, OneRecord
  <2> QED BY <1>1, <1>2, <1>3, <1>4, <2>1 DEF RecordsFound
<1>9. EventsNumbered' BY <1>1, <1>2 DEF EventsNumbered
<1>10. ASSUME NEW w \in told', w[1] \notin tainted'
       PROVE  /\ Cardinality(EventsOf(w[2])') + Times(w[2], Pending') = expected'[w[2]]
              /\ watched'[w[2]].total + Times(w[2], Pending') = expected'[w[2]]
  <2>1. w \in told /\ w[1] \notin tainted BY <1>1, <1>10
  <2>2. watched[w[2]].addr = w[1] BY <1>2, <2>1 DEF RecordsFound
  <2>3. \A k \in DOMAIN found : found[k] # w[2] BY <1>1, <1>10, <2>2
  <2>4. found \in Seq(DOMAIN watched) /\ (Telling => found # <<>>) BY <1>2 DEF BlockInHand
  <2>5. Times(w[2], found) = 0
    <3>1. {k \in DOMAIN found : found[k] = w[2]} = {} BY <2>3
    <3> QED BY <3>1, FS_EmptySet DEF Times
  <2>6. Times(w[2], Pending) = 0
    <3>1. CASE Telling
      <4>1. Tail(found) \in Seq(DOMAIN watched) BY <2>4, <3>1, HeadTailProperties
      <4>2. Times(w[2], Tail(found)) \in Nat BY <4>1, TimesFinite
      <4>3. Times(w[2], found) = Times(w[2], Tail(found)) + (IF Head(found) = w[2] THEN 1 ELSE 0)
        BY <2>4, <3>1, TimesTail
      <4> QED BY <2>5, <3>1, <4>2, <4>3 DEF Pending
    <3>2. CASE ~Telling BY <2>5, <3>2 DEF Pending
    <3> QED BY <3>1, <3>2
  <2>7. Times(w[2], Pending') = 0 BY <1>6, TimesEmpty
  <2>8. EventsOf(w[2])' = EventsOf(w[2]) BY <1>1 DEF EventsOf
  <2> QED BY <1>1, <1>2, <2>1, <2>6, <2>7, <2>8 DEF AllRecorded
<1>11. AllRecorded' BY <1>10 DEF AllRecorded
<1> QED BY <1>7, <1>8, <1>9, <1>11 DEF WatchAccounts

\* An event is added once, and counts for its identifier only.
LEMMA EventAdded ==
    ASSUME EventsNumbered, NEW id \in 1..ids, events' = events \cup {<<id, Cardinality(events) + 1>>}
    PROVE  /\ IsFiniteSet(events') /\ Cardinality(events') = Cardinality(events) + 1 /\ Cardinality(events) \in Nat
           /\ \A e \in events' : e[1] \in 1..ids /\ e[2] \in 1..Cardinality(events')
           /\ \A i : /\ Cardinality(EventsOf(i)) \in Nat
                     /\ Cardinality(EventsOf(i)') = Cardinality(EventsOf(i)) + (IF i = id THEN 1 ELSE 0)
<1> DEFINE new == <<id, Cardinality(events) + 1>>
<1>1. IsFiniteSet(events) /\ Cardinality(events) \in Nat /\ \A e \in events : e[1] \in 1..ids /\ e[2] \in 1..Cardinality(events)
  BY FS_CardinalityType DEF EventsNumbered
<1>2. new \notin events /\ new[1] = id /\ new[2] = Cardinality(events) + 1 BY <1>1
<1>3. events' = events \cup {new} OBVIOUS
<1> HIDE DEF new
<1>4. IsFiniteSet(events') /\ Cardinality(events') = Cardinality(events) + 1
  <2>1. IsFiniteSet(events \cup {new}) /\ Cardinality(events \cup {new}) = Cardinality(events) + 1
    BY <1>1, <1>2, FS_AddElement
  <2> QED BY <1>3, <2>1
<1>5. \A e \in events' : e[1] \in 1..ids /\ e[2] \in 1..Cardinality(events')
  BY <1>1, <1>2, <1>3, <1>4
<1>6. ASSUME NEW i
      PROVE  /\ Cardinality(EventsOf(i)) \in Nat
             /\ Cardinality(EventsOf(i)') = Cardinality(EventsOf(i)) + (IF i = id THEN 1 ELSE 0)
  <2>1. EventsOf(i) \subseteq events BY DEF EventsOf
  <2>2. IsFiniteSet(EventsOf(i)) /\ Cardinality(EventsOf(i)) \in Nat BY <1>1, <2>1, FS_Subset, FS_CardinalityType
  <2>3. CASE i = id
    <3>1. EventsOf(i)' = EventsOf(i) \cup {new} /\ new \notin EventsOf(i) BY <1>2, <1>3, <2>3 DEF EventsOf
    <3> QED BY <2>2, <2>3, <3>1, FS_AddElement
  <2>4. CASE i # id
    <3>1. EventsOf(i)' = EventsOf(i) BY <1>2, <1>3, <2>4 DEF EventsOf
    <3> QED BY <2>2, <2>4, <3>1
  <2> QED BY <2>3, <2>4
<1> QED BY <1>1, <1>4, <1>5, <1>6

\* A match is recorded: what is counted moves from the block to the events.
LEMMA EventStep ==
    ASSUME LocksOnPlan, WatchAccounts, processMatchedEvent
    PROVE  WatchAccounts'
<1>0. "fetcher" \in Threads BY DEF Threads
<1> DEFINE id == Head(found)
           h == watched[id].addr
<1>r. at["fetcher"] = "run" BY Zenon DEF processMatchedEvent, Running
<1>l. Len(held["fetcher"]) = 1 BY Zenon DEF processMatchedEvent, Running
<1>1. /\ at["fetcher"] = "run" /\ op["fetcher"].name = "ProcessBlock"
      /\ block = op["fetcher"].block /\ found # <<>>
  BY Zenon DEF processMatchedEvent, Running
<1>2. BlockInHand /\ RecordsFound /\ EventsNumbered /\ AllRecorded BY DEF WatchAccounts
<1>3. UNCHANGED <<lookup, matcher, bits, block, ids, told, expected>>
  BY Zenon DEF processMatchedEvent, memory
<1>4. PICK n \in 0..2 :
        /\ Outcome(n, 2, h)
        /\ events' = IF n >= 1 THEN events \cup {<<id, Cardinality(events) + 1>>} ELSE events
        /\ watched' = IF n = 2 THEN [watched EXCEPT ![id].total = @ + 1] ELSE watched
        /\ IF n = 0 THEN found' = Tail(found) /\ UNCHANGED callers
           ELSE LockNext("fetcher") /\ UNCHANGED found
  BY Zenon DEF processMatchedEvent
<1>5. found \in Seq(DOMAIN watched) /\ ~Telling
  <2>1. ~Telling BY <1>r, <1>l DEF Telling
  <2> QED BY <1>2, <2>1 DEF BlockInHand
<1>6. id \in DOMAIN watched /\ Tail(found) \in Seq(DOMAIN watched) BY <1>1, <1>5, HeadTailProperties
<1>7. tainted' = IF n < 2 THEN tainted \cup {h} ELSE tainted BY <1>4 DEF Outcome
<1>8. /\ \A i \in DOMAIN watched : watched[i] \in WatchRecord
      /\ watched = [i \in DOMAIN watched |-> watched[i]] /\ DOMAIN watched \subseteq 1..ids
  BY <1>2 DEF RecordsFound
<1>9. n = 0 => found' = Tail(found) /\ Pending' = Tail(found) /\ ~Telling' /\ UNCHANGED <<op, held, at>>
  <2> SUFFICES ASSUME n = 0 PROVE found' = Tail(found) /\ Pending' = Tail(found) /\ ~Telling' /\ UNCHANGED <<op, held, at>>
    OBVIOUS
  <2>1. found' = Tail(found) /\ UNCHANGED <<op, held, at>> BY <1>4 DEF callers
  <2>2. ~Telling'
    <3>1. UNCHANGED op /\ UNCHANGED held /\ UNCHANGED at BY <2>1
    <3>2. Telling' <=> Telling BY <3>1, Zenon DEF Telling
    <3> QED BY <1>5, <3>2
  <2> QED BY <2>1, <2>2 DEF Pending
<1>10. n # 0 => found' = found /\ Pending' = Tail(found) /\ Telling' /\ UNCHANGED <<op, held>> /\ at'["fetcher"] = "lock"
  <2> SUFFICES ASSUME n # 0
               PROVE  found' = found /\ Pending' = Tail(found) /\ Telling' /\ UNCHANGED <<op, held>> /\ at'["fetcher"] = "lock"
    OBVIOUS
  <2>1. found' = found /\ UNCHANGED <<op, held>> /\ at'["fetcher"] = "lock" BY <1>0, <1>4 DEF LockNext, LocksOnPlan
  <2>2. Telling' BY <1>1, <1>l, <2>1 DEF Telling
  <2> QED BY <2>1, <2>2 DEF Pending
<1> HIDE DEF id, h
<1>11. /\ DOMAIN watched' = DOMAIN watched /\ watched' \in [DOMAIN watched -> WatchRecord]
       /\ \A i \in DOMAIN watched : /\ watched'[i].addr = watched[i].addr
                                    /\ watched[i].total \in Nat
                                    /\ watched'[i].total = watched[i].total + (IF n = 2 /\ i = id THEN 1 ELSE 0)
  <2>0. \A i \in DOMAIN watched : watched[i].total \in Nat BY <1>8 DEF WatchRecord
  <2>1. CASE n = 2
    <3> DEFINE r == [watched[id] EXCEPT !.total = @ + 1]
    <3>1. watched' = [watched EXCEPT ![id] = r] BY <1>4, <2>1
    <3>2. r \in WatchRecord /\ r.addr = watched[id].addr /\ r.total = watched[id].total + 1
      <4>1. watched[id] \in WatchRecord BY <1>6, <1>8
      <4> QED BY <4>1 DEF WatchRecord
    <3> HIDE DEF r
    <3>3. /\ DOMAIN watched' = DOMAIN watched /\ watched'[id] = r
          /\ \A i \in DOMAIN watched \ {id} : watched'[i] = watched[i]
          /\ watched' = [i \in DOMAIN watched |-> watched'[i]]
      BY <1>6, <1>8, <3>1
    <3>4. \A i \in DOMAIN watched : watched'[i] \in WatchRecord BY <1>8, <3>2, <3>3
    <3>5. watched' \in [DOMAIN watched -> WatchRecord] BY <3>3, <3>4
    <3> QED BY <2>0, <2>1, <3>2, <3>3, <3>5
  <2>2. CASE n # 2 BY <1>2, <1>4, <2>0, <2>2 DEF RecordsFound
  <2> QED BY <2>1, <2>2
<1>12. BlockInHand'
  <2>1. held["fetcher"] # <<>> BY <1>l
  <2>2. found' \in Seq(DOMAIN watched') BY <1>5, <1>6, <1>9, <1>10, <1>11
  <2>3. at'["fetcher"] # "idle" /\ held'["fetcher"] # <<>> /\ op' = op BY <1>1, <1>9, <1>10, <2>1
  <2>4. Telling' => found' # <<>> BY <1>1, <1>9, <1>10
  <2> QED BY <1>1, <1>3, <2>2, <2>3, <2>4 DEF BlockInHand
<1>13. RecordsFound'
  <2>1. ids' \in 0..MaxIds /\ DOMAIN watched' \subseteq 1..ids' /\ watched' \in [DOMAIN watched' -> WatchRecord]
    BY <1>2, <1>3, <1>11 DEF RecordsFound
  <2>2. \A a \in DOMAIN matcher' : matcher'[a] \in DOMAIN watched' /\ watched'[matcher'[a]].addr = a
    BY <1>2, <1>3, <1>11 DEF RecordsFound
  <2>3. \A w \in told' : w = <<w[1], w[2]>> /\ w[2] \in DOMAIN watched' /\ watched'[w[2]].addr = w[1]
    BY <1>2, <1>3, <1>11 DEF RecordsFound
  <2>4. ASSUME NEW i \in DOMAIN watched', watched'[i].addr \notin tainted'
        PROVE  /\ watched'[i].addr \in DOMAIN lookup' /\ lookup'[watched'[i].addr] = i
               /\ watched'[i].addr \in DOMAIN matcher' /\ matcher'[watched'[i].addr] = i
               /\ Hash[watched'[i].addr] \subseteq bits'
    <3>1. i \in DOMAIN watched /\ watched'[i].addr = watched[i].addr /\ watched[i].addr \notin tainted
      BY <1>7, <1>11, <2>4
    <3> QED BY <1>2, <1>3, <3>1 DEF RecordsFound
  <2> QED BY <2>1, <2>2, <2>3, <2>4 DEF RecordsFound
<1>14. /\ n >= 1 => /\ IsFiniteSet(events')
                    /\ \A e \in events' : e[1] \in 1..ids /\ e[2] \in 1..Cardinality(events')
       /\ n < 1 => events' = events
       /\ \A i : /\ Cardinality(EventsOf(i)) \in Nat
                 /\ Cardinality(EventsOf(i)') = Cardinality(EventsOf(i)) + (IF n >= 1 /\ i = id THEN 1 ELSE 0)
  <2>1. CASE n >= 1
    <3>1. events' = events \cup {<<id, Cardinality(events) + 1>>} /\ id \in 1..ids BY <1>4, <1>6, <1>8, <2>1
    <3>2. /\ IsFiniteSet(events')
          /\ \A e \in events' : e[1] \in 1..ids /\ e[2] \in 1..Cardinality(events')
          /\ \A i : /\ Cardinality(EventsOf(i)) \in Nat
                    /\ Cardinality(EventsOf(i)') = Cardinality(EventsOf(i)) + (IF i = id THEN 1 ELSE 0)
      BY <1>2, <3>1, EventAdded, Zenon
    <3> QED BY <2>1, <3>2
  <2>2. CASE n < 1
    <3>1. events' = events BY <1>4, <2>2
    <3>2. \A i : EventsOf(i)' = EventsOf(i) /\ EventsOf(i) \subseteq events BY <3>1 DEF EventsOf
    <3>3. \A i : Cardinality(EventsOf(i)) \in Nat BY <1>2, <3>2, FS_Subset, FS_CardinalityType DEF EventsNumbered
    <3> QED BY <2>2, <3>1, <3>2, <3>3
  <2> QED BY <2>1, <2>2
<1>15. EventsNumbered' BY <1>2, <1>3, <1>14 DEF EventsNumbered
<1>16. ASSUME NEW w \in told', w[1] \notin tainted'
       PROVE  /\ Cardinality(EventsOf(w[2])') + Times(w[2], Pending') = expected'[w[2]]
              /\ watched'[w[2]].total + Times(w[2], Pending') = expected'[w[2]]
  <2> DEFINE i == w[2]
  <2>1. w \in told /\ w[1] \notin tainted /\ i \in DOMAIN watched /\ watched[i].addr = w[1]
    BY <1>2, <1>3, <1>7, <1>16 DEF RecordsFound
  <2>2. n < 2 => i # id BY <1>7, <1>16, <2>1 DEF h
  <2>3. Pending = found /\ Pending' = Tail(found) BY <1>5, <1>9, <1>10 DEF Pending
  <2>4. Times(i, found) = Times(i, Tail(found)) + (IF id = i THEN 1 ELSE 0) BY <1>1, <1>5, TimesTail DEF id
  <2>5. Times(i, Tail(found)) \in Nat BY <1>6, TimesFinite
  <2>6. Cardinality(EventsOf(i)) + Times(i, found) = expected[i] /\ watched[i].total + Times(i, found) = expected[i]
    BY <1>2, <2>1, <2>3 DEF AllRecorded
  <2>7. /\ Cardinality(EventsOf(i)) \in Nat /\ watched[i].total \in Nat
        /\ Cardinality(EventsOf(i)') = Cardinality(EventsOf(i)) + (IF n >= 1 /\ i = id THEN 1 ELSE 0)
        /\ watched'[i].total = watched[i].total + (IF n = 2 /\ i = id THEN 1 ELSE 0)
    BY <1>11, <1>14, <2>1
  <2>8. expected' = expected BY <1>3
  <2> HIDE DEF i
  <2>9. CASE i = id BY <2>2, <2>3, <2>4, <2>5, <2>6, <2>7, <2>8, <2>9 DEF i
  <2>10. CASE i # id BY <2>3, <2>4, <2>5, <2>6, <2>7, <2>8, <2>10 DEF i
  <2> QED BY <2>9, <2>10
<1>17. AllRecorded' BY <1>16 DEF AllRecorded
<1> QED BY <1>12, <1>13, <1>15, <1>17 DEF WatchAccounts

-----------------------------------------------------------------------------
\* Every step keeps the accounts.
LEMMA AccountsStep ==
    ASSUME LocksOnPlan, MuExcludes, CallsKnown, WatchAccounts, [WatchlistNext]_watchlistVars
    PROVE  WatchAccounts'
<1>0. "fetcher" \in Threads /\ Callers \subseteq Threads BY DEF Threads
<1>q. ASSUME UNCHANGED <<store, matcher, bits, block, found, ids, watchHistory>>, HandKept PROVE WatchAccounts'
  <2>1. UNCHANGED recorded BY <1>q DEF recorded, store, watchHistory
  <2> QED BY <1>q, <2>1, QuietKeepsAccounts
<1>h. BlockInHand BY DEF WatchAccounts
<1>1. CASE UNCHANGED watchlistVars
  <2>1. UNCHANGED <<store, matcher, bits, block, found, ids, watchHistory>> /\ UNCHANGED <<op, held, at>>
    BY <1>1 DEF watchlistVars, store, memory, callers, bounds, watchHistory
  <2>2. UNCHANGED op /\ UNCHANGED held /\ UNCHANGED at BY <2>1
  <2>3. Telling' <=> Telling BY <2>2, Zenon DEF Telling
  <2>4. HandKept BY <1>h, <2>2, <2>3, Zenon DEF HandKept, BlockInHand
  <2> QED BY <1>q, <2>1, <2>4
<1>2. CASE MatchBlock BY <1>2, MatchStep
<1>3. CASE processMatchedEvent BY <1>3, EventStep
<1>4. CASE notifySubscribers BY <1>4, NotifyStep
<1>5. CASE BlockDone
  <2>1. UNCHANGED <<store, matcher, bits, block, found, ids, watchHistory>> /\ Return("fetcher")
    BY <1>5 DEF BlockDone, memory, bounds
  <2>2. found = <<>> /\ ~Telling
    BY <1>h, <1>5 DEF BlockDone, BlockInHand
  <2>3. at'["fetcher"] = "idle" BY <1>0, <2>1 DEF Return, LocksOnPlan
  <2>4. ~Telling' BY <2>3 DEF Telling
  <2>5. HandKept BY <2>2, <2>4 DEF HandKept
  <2> QED BY <1>q, <2>1, <2>5
<1>6. ASSUME NEW p \in Threads, NEW o, BeginCall(p, o) PROVE WatchAccounts'
  <2>1. HandKept BY <1>6, <1>h, BeginLeavesHand
  <2>2. UNCHANGED <<store, matcher, bits, block, found, ids, watchHistory>> BY <1>6 DEF BeginCall, memory, bounds
  <2> QED BY <1>q, <2>1, <2>2
<1>7. CASE ProcessBlock BY <1>0, <1>6, <1>7 DEF ProcessBlock
<1>8. CASE Reboot BY <1>8, RebootStep
<1>9. ASSUME NEW p \in Threads, Acquire(p) PROVE WatchAccounts'
  <2>1. HandKept BY <1>9, <1>h, AcquireLeavesHand
  <2>2. UNCHANGED <<store, matcher, bits, block, found, ids, watchHistory>> BY <1>9 DEF Acquire, memory, bounds
  <2> QED BY <1>q, <2>1, <2>2
<1>10. ASSUME NEW p \in Callers, Request(p) PROVE WatchAccounts'
  <2>1. PICK o : BeginCall(p, o) BY <1>10 DEF Request
  <2> QED BY <1>0, <1>6, <2>1
<1>11. ASSUME NEW p \in Callers, WatchAddress(p) PROVE WatchAccounts'
  <2>1. p \in Threads BY <1>0
  <2> QED BY <1>11, <2>1, WatchStep
<1>12. ASSUME NEW p \in Callers, UnwatchAddress(p) PROVE WatchAccounts'
  <2>1. p \in Threads BY <1>0
  <2> QED BY <1>12, <2>1, UnwatchStep
<1>13. ASSUME NEW p \in Callers,
              DropSubscribers(p) \/ SubscribeLocksMu(p) \/ Subscribe(p) \/ UnsubscribeAddress(p)
       PROVE  WatchAccounts'
  <2>1. p \in Threads BY <1>0
  <2>2. op[p].name # "ProcessBlock"
    BY <1>13 DEF DropSubscribers, SubscribeLocksMu, Subscribe, UnsubscribeAddress, Running
  <2>3. Return(p) \/ LockNext(p)
    BY <1>13, Zenon DEF DropSubscribers, SubscribeLocksMu, Subscribe, UnsubscribeAddress
  <2>4. UNCHANGED <<store, matcher, bits, block, found, ids, watchHistory>>
    BY <1>13 DEF DropSubscribers, SubscribeLocksMu, Subscribe, UnsubscribeAddress, memory, bounds
  <2>5. HandKept BY <1>h, <2>1, <2>2, <2>3, CallLeavesHand
  <2> QED BY <1>q, <2>4, <2>5
<1> QED
  BY <1>1, <1>2, <1>3, <1>4, <1>5, <1>7, <1>8, <1>9, <1>10, <1>11, <1>12, <1>13 DEF WatchlistNext

\* Between blocks nothing is pending.
LEMMA AccountsGiveExpected == WatchAccounts => RecordedIsExpected
<1> SUFFICES ASSUME WatchAccounts, NEW w \in told, w[1] \notin tainted, found = <<>>
             PROVE  /\ Cardinality({e \in events : e[1] = w[2]}) = expected[w[2]]
                    /\ watched[w[2]].total = expected[w[2]]
  BY DEF RecordedIsExpected
<1>1. Pending = <<>> BY DEF Pending, WatchAccounts, BlockInHand
<1>2. Times(w[2], Pending) = 0 BY <1>1, TimesEmpty
<1>3. /\ Cardinality(EventsOf(w[2])) + 0 = expected[w[2]]
      /\ watched[w[2]].total + 0 = expected[w[2]]
  BY <1>2 DEF WatchAccounts, AllRecorded
<1>4. IsFiniteSet(EventsOf(w[2])) /\ watched[w[2]] \in WatchRecord
  <2>1. EventsOf(w[2]) \subseteq events BY DEF EventsOf
  <2> QED BY <2>1, FS_Subset DEF WatchAccounts, EventsNumbered, RecordsFound
<1>5. Cardinality(EventsOf(w[2])) \in Nat /\ watched[w[2]].total \in Nat
  BY <1>4, FS_CardinalityType DEF WatchRecord
<1> QED BY <1>3, <1>5 DEF EventsOf

\* Whatever is watched, unwatched, subscribed to and processed, and however
\* often the process ends, the events recorded for an address whose writes
\* succeed, and its counter, are those its filter asks for (service.go:384,
\* ProcessBlock): the Bloom filter hides none, and no match is counted twice.
THEOREM RecordedStaysExpected == WatchlistSpec => []RecordedIsExpected
<1>1. WatchlistInit => WInv BY InitWInv
<1>2. WInv /\ [WatchlistNext]_watchlistVars => WInv'
  <2> SUFFICES ASSUME WInv, [WatchlistNext]_watchlistVars PROVE WInv' OBVIOUS
  <2>1. LocksOnPlan /\ MuExcludes /\ CallsKnown /\ WatchAccounts BY DEF WInv
  <2>2. CallerStep BY CallersStep
  <2>3. LocksOnPlan' BY <2>1, WatchlistStep
  <2>4. MuExcludes' /\ CallsKnown' BY <2>1, <2>2, MuKept, CallsStayKnown
  <2>5. WatchAccounts' BY <2>1, AccountsStep
  <2> QED BY <2>3, <2>4, <2>5 DEF WInv
<1>3. WInv => RecordedIsExpected BY AccountsGiveExpected DEF WInv
<1> QED BY <1>1, <1>2, <1>3, PTL DEF WatchlistSpec

=============================================================================
