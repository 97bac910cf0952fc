------------------------- MODULE WebSocketHubProofs -------------------------
(***************************************************************************)
(* The hub closes no channel twice, sends on none it has closed and keeps  *)
(* its limit, and every client has the events in the order of their         *)
(* broadcasts, for any set of connections, buffers and order of steps.     *)
(***************************************************************************)
EXTENDS WebSocketHub, FiniteSetTheorems, SequenceTheorems, TLAPS

ReaderStates == {"none", "registering", "reading", "replying", "leaving", "gone"}
New == {"none", "registering"}

\* The types the argument needs.
Types ==
    /\ members \subseteq Clients /\ IsFiniteSet(members)
    /\ closed \in [Clients -> BOOLEAN]
    /\ reader \in [Clients -> ReaderStates]

\* A connection the hub has not seen is no member and its channel is open: a
\* rejected client is closed for the first time.
NewIsOpen == \A c \in Clients : reader[c] \in New => ~closed[c] /\ c \notin members

\* The inductive invariant.
IInv == Types /\ NewIsOpen /\ MembersOpen

\* Nobody is connected at first.
LEMMA InitIInv == Init => IInv
<1> SUFFICES ASSUME Init PROVE IInv
  OBVIOUS
<1>1. IsFiniteSet(members) /\ Cardinality(members) = 0
  BY FS_EmptySet DEF Init
<1> QED
  BY <1>1, HubAssumption DEF Init, IInv, Types, NewIsOpen, MembersOpen, ReaderStates, New

\* No reader becomes new again.
NoneBecomesNew ==
    /\ reader' \in [Clients -> ReaderStates]
    /\ \A c \in Clients : reader'[c] \in New => reader[c] \in New

\* Removing members from the map and closing their channels keeps the
\* invariant: what Unregister, the cut-off of slow clients and Stop share.
LEMMA CloseKeeps ==
  ASSUME IInv, NoneBecomesNew,
         NEW S, S \subseteq members, members' = members \ S, CloseChannels(S)
  PROVE  IInv'
<1>1. IsFiniteSet(members') /\ Cardinality(members') <= Cardinality(members)
  BY FS_Subset DEF IInv, Types
<1>2. Cardinality(members') <= MaxClients
  BY <1>1, HubAssumption, FS_CardinalityType DEF IInv, Types, MembersOpen
<1>3. panicked' # "close"
  BY DEF CloseChannels, IInv, MembersOpen
<1>4. \A c \in members' : ~closed'[c]
  BY DEF CloseChannels, IInv, Types, MembersOpen
<1>5. NewIsOpen'
  BY DEF CloseChannels, IInv, Types, NewIsOpen, NoneBecomesNew
<1> QED
  BY <1>1, <1>2, <1>3, <1>4, <1>5 DEF CloseChannels, IInv, Types, MembersOpen, NoneBecomesNew

\* A step that neither adds, removes nor closes keeps the invariant.
LEMMA IdleKeeps ==
  ASSUME IInv, NoneBecomesNew, UNCHANGED <<members, closed>>, panicked' # "close"
  PROVE  IInv'
BY DEF IInv, Types, NewIsOpen, MembersOpen, NoneBecomesNew

\* Registration: a rejected client was open, an accepted one fits the limit.
LEMMA RegisterKeeps ==
  ASSUME IInv, NEW c \in Clients, Register(c)
  PROVE  IInv'
<1>1. NoneBecomesNew /\ reader'[c] \notin New
  BY DEF Register, IInv, Types, NoneBecomesNew, ReaderStates, New
<1>2. ~closed[c] /\ c \notin members
  BY DEF Register, IInv, NewIsOpen, New
<1>3. CASE CloseChannels({c}) /\ UNCHANGED members
  <2>1. panicked' # "close" /\ closed' = [d \in Clients |-> closed[d] \/ d = c]
    BY <1>2, <1>3 DEF CloseChannels, IInv, MembersOpen
  <2>2. NewIsOpen' /\ \A d \in members' : ~closed'[d]
    BY <1>1, <1>2, <1>3, <2>1 DEF IInv, Types, NewIsOpen, MembersOpen, NoneBecomesNew
  <2> QED
    BY <1>1, <1>3, <2>1, <2>2 DEF IInv, Types, MembersOpen, NoneBecomesNew
<1>4. CASE /\ Cardinality(members) < MaxClients /\ members' = members \cup {c}
           /\ UNCHANGED <<closed, panicked>>
  <2>1. IsFiniteSet(members') /\ Cardinality(members') = Cardinality(members) + 1
    BY <1>2, <1>4, FS_AddElement DEF IInv, Types
  <2>2. Cardinality(members') <= MaxClients
    BY <2>1, <1>4, HubAssumption, FS_CardinalityType DEF IInv, Types
  <2>3. NewIsOpen'
    BY <1>1, <1>4 DEF IInv, NewIsOpen, NoneBecomesNew
  <2> QED
    BY <1>1, <1>2, <1>4, <2>1, <2>2, <2>3 DEF IInv, Types, MembersOpen, NoneBecomesNew
<1> QED
  BY <1>3, <1>4 DEF Register

\* A broadcast finds every member's channel open and cuts off the full ones.
LEMMA BroadcastKeeps ==
  ASSUME IInv, BroadcastEvent
  PROVE  IInv'
<1> DEFINE to == members \cap subscribed
           slow == {c \in to : Full(c)}
<1>1. ~(\E c \in to : closed[c])
  BY DEF IInv, MembersOpen
<1>2. CutOff(slow) /\ reader' = reader
  BY <1>1 DEF BroadcastEvent, pumps
<1>3. NoneBecomesNew
  BY <1>2 DEF IInv, Types, NoneBecomesNew
<1>4. slow \subseteq members
  OBVIOUS
<1> HIDE DEF slow
<1> QED
  BY <1>2, <1>3, <1>4, CloseKeeps DEF CutOff

\* Every step keeps the invariant.
LEMMA Inductive == IInv /\ [Next]_vars => IInv'
<1> SUFFICES ASSUME IInv, [Next]_vars PROVE IInv'
  OBVIOUS
<1>1. ASSUME NEW c \in Clients, Register(c) PROVE IInv'
  BY <1>1, RegisterKeeps
<1>2. ASSUME NEW c \in Clients, Unregister(c) PROVE IInv'
  <2>1. NoneBecomesNew
    BY <1>2 DEF Unregister, IInv, Types, NoneBecomesNew, ReaderStates, New
  <2>2. CloseChannels(members \cap {c}) /\ members' = members \ (members \cap {c})
    BY <1>2 DEF Unregister
  <2> QED
    BY <2>1, <2>2, CloseKeeps
<1>3. CASE BroadcastEvent
  BY <1>3, BroadcastKeeps
<1>4. CASE StopCleanUp
  <2>1. NoneBecomesNew
    BY <1>4 DEF StopCleanUp, pumps, IInv, Types, NoneBecomesNew
  <2>2. CloseChannels(members) /\ members' = members \ members
    BY <1>4 DEF StopCleanUp
  <2> QED
    BY <2>1, <2>2, CloseKeeps
<1>5. CASE BroadcastNewBlock \/ StopSignal \/ RunReturns \/ UNCHANGED vars
  BY <1>5, IdleKeeps DEF BroadcastNewBlock, StopSignal, RunReturns, vars, pumps, channel,
     IInv, Types, MembersOpen, NoneBecomesNew
<1>6. ASSUME NEW c \in Clients, Connect(c) \/ ReadPump(c) PROVE IInv'
  <2>1. NoneBecomesNew
    BY <1>6 DEF Connect, ReadPump, ReadRequest, SendReply, ReadError, IInv, Types, NoneBecomesNew,
       ReaderStates, New
  <2>2. UNCHANGED <<members, closed>> /\ panicked' # "close"
    BY <1>6 DEF Connect, ReadPump, ReadRequest, SendReply, ReadError, channel, IInv, MembersOpen
  <2> QED
    BY <2>1, <2>2, IdleKeeps
<1>7. ASSUME NEW c \in Clients, WritePump(c) PROVE IInv'
  BY <1>7, IdleKeeps DEF WritePump, Write, WriteError, channel, IInv, Types, MembersOpen,
     NoneBecomesNew
<1> QED
  BY <1>1, <1>2, <1>3, <1>4, <1>5, <1>6, <1>7 DEF Next, HubStep

\* In every behaviour the channel of a registered client is open, no channel
\* is closed twice (rejection in Run, unregistration, the cut-off in
\* broadcastEvent and Stop each close at most once) and the client limit holds.
THEOREM HubKeepsMembersOpen == Spec => []MembersOpen
<1>1. IInv => MembersOpen
  BY DEF IInv
<1> QED
  BY <1>1, InitIInv, Inductive, PTL DEF Spec

-----------------------------------------------------------------------------
(* The order of the events of a client.                                    *)

\* The types of this second argument.
Shapes ==
    /\ events \in Nat /\ broadcast \in Seq(Nat)
    /\ send \in [Clients -> Seq(Nat)] /\ delivered \in [Clients -> Seq(Nat)]

\* The channel of the hub holds broadcasts that have been made, oldest first.
BroadcastInOrder ==
    \A j \in 1..Len(broadcast) :
        /\ 0 < broadcast[j] /\ broadcast[j] <= events
        /\ \A i \in 1..Len(broadcast) : i < j => broadcast[i] < broadcast[j]

\* No client has an event that was not yet taken from the hub's channel.
TrailBefore ==
    \A c \in Clients : \A m \in 1..Len(Trail(c)) :
        /\ Trail(c)[m] <= events
        /\ \A j \in 1..Len(broadcast) : Trail(c)[m] < broadcast[j]

\* The inductive invariant of the order.
OInv == Shapes /\ BroadcastInOrder /\ TrailBefore /\ EventsInOrder

\* A message put at the end of the buffer is put at the end of the trail, and
\* taking one from the buffer for a frame leaves the trail alone.
LEMMA TrailSteps ==
  ASSUME NEW d \in Seq(Nat), NEW q \in Seq(Nat)
  PROVE  /\ d \o q \in Seq(Nat)
         /\ \A x \in Nat : d \o Append(q, x) = Append(d \o q, x)
         /\ q # <<>> => Append(d, Head(q)) \o Tail(q) = d \o q
<1>1. d \o q \in Seq(Nat)
  BY ConcatProperties
<1>2. ASSUME NEW x \in Nat PROVE d \o Append(q, x) = Append(d \o q, x)
  BY <1>1, AppendIsConcat, ConcatAssociative, ConcatProperties
<1>3. ASSUME q # <<>> PROVE Append(d, Head(q)) \o Tail(q) = d \o q
  <2> DEFINE h == Head(q)
             r == Tail(q)
             one == <<h>>
  <2>1. h \in Nat /\ r \in Seq(Nat) /\ q = one \o r
    BY <1>3, HeadTailProperties
  <2>2. Append(d, h) = d \o one /\ one \in Seq(Nat)
    BY <2>1, AppendIsConcat
  <2> HIDE DEF h, r, one
  <2>3. (d \o one) \o r = d \o (one \o r)
    BY <2>1, <2>2, ConcatAssociative
  <2>4. Append(d, h) \o r = d \o q
    BY <2>1, <2>2, <2>3, Zenon
  <2> QED
    BY <2>4 DEF h, r
<1> QED
  BY <1>1, <1>2, <1>3

\* What OInv says of the trail t of one client.
TrailOK(t) ==
    /\ t \in Seq(Nat)
    /\ \A m \in 1..Len(t) :
          /\ t[m] <= events
          /\ \A j \in 1..Len(broadcast) : t[m] < broadcast[j]
    /\ \A m, k \in 1..Len(t) : m < k /\ Reply \notin {t[m], t[k]} => t[m] < t[k]

\* OInv in terms of the trails.
LEMMA TrailsOK ==
  /\ OInv => Shapes /\ BroadcastInOrder /\ \A c \in Clients : TrailOK(Trail(c))
  /\ Shapes /\ BroadcastInOrder /\ (\A c \in Clients : TrailOK(Trail(c))) => OInv
<1>1. Shapes => \A c \in Clients : Trail(c) \in Seq(Nat)
  BY TrailSteps DEF Shapes, Trail
<1> QED
  BY <1>1 DEF OInv, TrailBefore, EventsInOrder, TrailOK

\* An answer or a later event at the end keeps a trail in order.
LEMMA TrailGrows ==
  ASSUME NEW t \in Seq(Nat), NEW x \in Nat,
         x = Reply \/ \A m \in 1..Len(t) : t[m] < x,
         \A m, k \in 1..Len(t) : m < k /\ Reply \notin {t[m], t[k]} => t[m] < t[k]
  PROVE  LET u == Append(t, x)
         IN  /\ u \in Seq(Nat)
             /\ \A m \in 1..Len(u) : u[m] = x \/ \E k \in 1..Len(t) : u[m] = t[k]
             /\ \A m, k \in 1..Len(u) : m < k /\ Reply \notin {u[m], u[k]} => u[m] < u[k]
<1> DEFINE u == Append(t, x)
<1>1. /\ u \in Seq(Nat) /\ Len(u) = Len(t) + 1 /\ u[Len(t) + 1] = x
      /\ \A i \in 1..Len(t) : u[i] = t[i]
  BY AppendProperties
<1> HIDE DEF u
<1>2. ASSUME NEW m \in 1..Len(u) PROVE u[m] = x \/ \E k \in 1..Len(t) : u[m] = t[k]
  BY <1>1
<1>3. ASSUME NEW m \in 1..Len(u), NEW k \in 1..Len(u), m < k, Reply \notin {u[m], u[k]}
      PROVE  u[m] < u[k]
  <2>1. m \in 1..Len(t)
    BY <1>1, <1>3
  <2>2. CASE k \in 1..Len(t)
    BY <1>1, <1>3, <2>1, <2>2
  <2>3. CASE k = Len(t) + 1
    BY <1>1, <1>3, <2>1, <2>3
  <2>4. k \in 1..Len(t) \/ k = Len(t) + 1
    BY <1>1
  <2> QED
    BY <2>2, <2>3, <2>4
<1> QED
  BY <1>1, <1>2, <1>3 DEF u

\* A step that leaves the hub's channel alone and adds at most an answer to
\* the trail of each client keeps the order.
LEMMA AnswerKeepsOrder ==
  ASSUME OInv, UNCHANGED source,
         send' \in [Clients -> Seq(Nat)], delivered' \in [Clients -> Seq(Nat)],
         \A c \in Clients : Trail(c)' = Trail(c) \/ Trail(c)' = Append(Trail(c), Reply)
  PROVE  OInv'
<1>1. Shapes' /\ BroadcastInOrder'
  BY DEF OInv, Shapes, BroadcastInOrder, source
<1>2. ASSUME NEW c \in Clients PROVE TrailOK(Trail(c))'
  <2>1. PICK t : t = Trail(c)
    OBVIOUS
  <2>2. PICK u : u = Trail(c)'
    OBVIOUS
  <2>3. TrailOK(t)
    BY <2>1, TrailsOK
  <2>4. events' = events /\ broadcast' = broadcast /\ broadcast \in Seq(Nat) /\ events \in Nat
    BY DEF source, OInv, Shapes
  <2>5. CASE u = t
    BY <2>2, <2>3, <2>4, <2>5 DEF TrailOK
  <2>6. CASE u = Append(t, Reply)
    <3>1. /\ u \in Seq(Nat)
          /\ \A m \in 1..Len(u) : u[m] = Reply \/ \E k \in 1..Len(t) : u[m] = t[k]
          /\ \A m, k \in 1..Len(u) : m < k /\ Reply \notin {u[m], u[k]} => u[m] < u[k]
      BY <2>3, <2>6, TrailGrows DEF TrailOK, Reply
    <3>2. \A j \in 1..Len(broadcast) : Reply < broadcast[j]
      BY DEF OInv, BroadcastInOrder, Reply
    <3>3. Reply <= events
      BY <2>4 DEF Reply
    <3>4. \A m \in 1..Len(u) : u[m] <= events /\ \A j \in 1..Len(broadcast) : u[m] < broadcast[j]
      BY <2>3, <3>1, <3>2, <3>3 DEF TrailOK
    <3> QED
      BY <2>2, <2>4, <3>1, <3>4 DEF TrailOK
  <2> QED
    BY <2>1, <2>2, <2>5, <2>6
<1> QED
  BY <1>1, <1>2 DEF OInv, TrailBefore, EventsInOrder, TrailOK

\* A publication goes to the end of the hub's channel, or is dropped.
LEMMA NewBlockKeepsOrder ==
  ASSUME OInv, BroadcastNewBlock
  PROVE  OInv'
<1> DEFINE e == events + 1
<1>1. /\ events' = e /\ e \in Nat /\ events < e
      /\ broadcast' = broadcast \/ broadcast' = Append(broadcast, e)
      /\ UNCHANGED <<send, delivered>>
  BY DEF BroadcastNewBlock, channel, OInv, Shapes
<1> HIDE DEF e
<1>2. /\ broadcast' \in Seq(Nat)
      /\ \A j \in 1..Len(broadcast') :
            \/ j \in 1..Len(broadcast) /\ broadcast'[j] = broadcast[j]
            \/ j = Len(broadcast) + 1 /\ broadcast'[j] = e
  <2>1. broadcast \in Seq(Nat)
    BY DEF OInv, Shapes
  <2>2. CASE broadcast' = broadcast
    BY <2>1, <2>2
  <2>3. CASE broadcast' = Append(broadcast, e)
    BY <1>1, <2>1, <2>3, AppendProperties
  <2> QED
    BY <1>1, <2>2, <2>3
<1>3. Shapes'
  BY <1>1, <1>2 DEF OInv, Shapes
<1>4. \A j \in 1..Len(broadcast') : 0 < broadcast'[j] /\ broadcast'[j] <= events'
  BY <1>1, <1>2 DEF OInv, Shapes, BroadcastInOrder
<1>5. ASSUME NEW j \in 1..Len(broadcast'), NEW i \in 1..Len(broadcast'), i < j
      PROVE  broadcast'[i] < broadcast'[j]
  <2>1. Len(broadcast) \in Nat /\ Len(broadcast') \in Nat
    BY <1>2 DEF OInv, Shapes
  <2>2. i \in 1..Len(broadcast) /\ broadcast'[i] = broadcast[i]
    BY <1>2, <1>5, <2>1
  <2>3. broadcast[i] <= events
    BY <2>2 DEF OInv, BroadcastInOrder
  <2>4. CASE j \in 1..Len(broadcast) /\ broadcast'[j] = broadcast[j]
    BY <1>5, <2>2, <2>4 DEF OInv, BroadcastInOrder
  <2>5. CASE broadcast'[j] = e
    BY <1>1, <2>2, <2>3, <2>5 DEF OInv, Shapes
  <2> QED
    BY <1>2, <2>4, <2>5
<1>6. ASSUME NEW c \in Clients PROVE TrailOK(Trail(c))'
  <2>1. PICK t : t = Trail(c)
    OBVIOUS
  <2>2. Trail(c)' = t
    BY <1>1, <2>1 DEF Trail
  <2>3. TrailOK(t)
    BY <2>1, TrailsOK
  <2>4. \A m \in 1..Len(t) : t[m] \in Nat /\ t[m] <= events
    BY <2>3 DEF TrailOK
  <2>5. ASSUME NEW m \in 1..Len(t)
        PROVE  t[m] <= events' /\ \A j \in 1..Len(broadcast') : t[m] < broadcast'[j]
    BY <1>1, <1>2, <2>3, <2>4 DEF TrailOK, OInv, Shapes
  <2> QED
    BY <2>2, <2>3, <2>5 DEF TrailOK
<1> QED
  BY <1>3, <1>4, <1>5, <1>6 DEF OInv, BroadcastInOrder, TrailBefore, EventsInOrder, TrailOK

\* The oldest event goes to the end of the trails of those it is sent to; what
\* stays in the hub's channel is younger.
LEMMA BroadcastKeepsOrder ==
  ASSUME OInv, BroadcastEvent
  PROVE  OInv'
<1> DEFINE e == Head(broadcast)
           rest == Tail(broadcast)
<1>1. /\ broadcast \in Seq(Nat) /\ events \in Nat /\ broadcast # <<>>
      /\ broadcast' = rest /\ events' = events /\ delivered' = delivered
      /\ send' = [c \in Clients |-> IF c \in members \cap subscribed /\ ~Full(c) /\ ~closed[c]
                                    THEN Append(send[c], e) ELSE send[c]]
  BY DEF OInv, Shapes, BroadcastEvent
<1>2. /\ rest \in Seq(Nat) /\ e \in Nat /\ 1 \in 1..Len(broadcast) /\ e = broadcast[1]
      /\ \A j \in 1..Len(rest) : /\ j + 1 \in 1..Len(broadcast) /\ 1 < j + 1
                                 /\ rest[j] = broadcast[j + 1]
  BY <1>1, HeadTailProperties
<1>3. e <= events /\ \A j \in 1..Len(rest) : e < rest[j]
  BY <1>2 DEF OInv, BroadcastInOrder
<1> HIDE DEF e, rest
<1>4. Shapes'
  <2>1. \A c \in Clients : send[c] \in Seq(Nat) /\ Append(send[c], e) \in Seq(Nat)
    BY <1>2, AppendProperties DEF OInv, Shapes
  <2> QED
    BY <1>1, <1>2, <2>1 DEF OInv, Shapes
<1>5. BroadcastInOrder'
  <2>1. \A j \in 1..Len(rest) : 0 < rest[j] /\ rest[j] <= events
    BY <1>2 DEF OInv, BroadcastInOrder
  <2>2. ASSUME NEW j \in 1..Len(rest), NEW i \in 1..Len(rest), i < j PROVE rest[i] < rest[j]
    <3>1. i + 1 < j + 1
      BY <2>2
    <3> QED
      BY <1>2, <3>1 DEF OInv, BroadcastInOrder
  <2> QED
    BY <1>1, <2>1, <2>2 DEF BroadcastInOrder
<1>6. ASSUME NEW c \in Clients PROVE TrailOK(Trail(c))'
  <2>1. PICK t : t = Trail(c)
    OBVIOUS
  <2>2. PICK u : u = Trail(c)'
    OBVIOUS
  <2>3. TrailOK(t)
    BY <2>1, TrailsOK
  <2>4. u = t \/ u = Append(t, e)
    <3>1. delivered[c] \in Seq(Nat) /\ send[c] \in Seq(Nat)
      BY DEF OInv, Shapes
    <3>2. delivered'[c] = delivered[c] /\ (send'[c] = send[c] \/ send'[c] = Append(send[c], e))
      BY <1>1
    <3>3. delivered[c] \o Append(send[c], e) = Append(delivered[c] \o send[c], e)
      BY <1>2, <3>1, TrailSteps
    <3> QED
      BY <2>1, <2>2, <3>2, <3>3, Zenon DEF Trail
  <2>5. \A m \in 1..Len(t) : t[m] < e
    BY <1>2, <2>3 DEF TrailOK
  <2>6. \A m \in 1..Len(t) : t[m] <= events /\ \A j \in 1..Len(rest) : t[m] < rest[j]
    BY <1>2, <2>3 DEF TrailOK
  <2>7. CASE u = t
    BY <1>1, <2>2, <2>3, <2>6, <2>7 DEF TrailOK
  <2>8. CASE u = Append(t, e)
    <3>1. /\ u \in Seq(Nat)
          /\ \A m \in 1..Len(u) : u[m] = e \/ \E k \in 1..Len(t) : u[m] = t[k]
          /\ \A m, k \in 1..Len(u) : m < k /\ Reply \notin {u[m], u[k]} => u[m] < u[k]
      BY <1>2, <2>3, <2>5, <2>8, TrailGrows DEF TrailOK
    <3>2. \A m \in 1..Len(u) : u[m] <= events /\ \A j \in 1..Len(rest) : u[m] < rest[j]
      BY <1>3, <2>6, <3>1
    <3> QED
      BY <1>1, <2>2, <3>1, <3>2 DEF TrailOK
  <2> QED
    BY <2>4, <2>7, <2>8
<1> QED
  BY <1>4, <1>5, <1>6 DEF OInv, TrailBefore, EventsInOrder, TrailOK

\* Every step keeps the order.
LEMMA OrderInductive == OInv /\ [Next]_vars => OInv'
<1> SUFFICES ASSUME OInv, [Next]_vars PROVE OInv'
  OBVIOUS
<1>1. CASE BroadcastNewBlock
  BY <1>1, NewBlockKeepsOrder
<1>2. CASE BroadcastEvent
  BY <1>2, BroadcastKeepsOrder
<1>3. ASSUME UNCHANGED <<events, broadcast, send, delivered>> PROVE OInv'
  BY <1>3 DEF OInv, Shapes, BroadcastInOrder, TrailBefore, EventsInOrder, Trail
<1>4. CASE StopSignal \/ StopCleanUp \/ RunReturns \/ UNCHANGED vars
  BY <1>3, <1>4 DEF StopSignal, StopCleanUp, RunReturns, vars, source, channel
<1>5. ASSUME NEW c \in Clients, Register(c) \/ Unregister(c) PROVE OInv'
  BY <1>3, <1>5 DEF Register, Unregister, source
<1>6. ASSUME NEW c \in Clients, Connect(c) \/ ReadRequest(c) \/ ReadError(c) \/ WriteError(c)
      PROVE  OInv'
  BY <1>3, <1>6 DEF Connect, ReadRequest, ReadError, WriteError, source, channel
<1>7. ASSUME NEW c \in Clients, SendReply(c) PROVE OInv'
  <2>1. /\ UNCHANGED source /\ delivered' = delivered
        /\ send' = [send EXCEPT ![c] = IF closed[c] \/ Full(c) THEN @ ELSE Append(@, Reply)]
    BY <1>7 DEF SendReply
  <2>2. \A d \in Clients : delivered[d] \in Seq(Nat) /\ send[d] \in Seq(Nat)
    BY DEF OInv, Shapes
  <2>3. /\ Reply \in Nat /\ Append(send[c], Reply) \in Seq(Nat)
        /\ delivered[c] \o Append(send[c], Reply) = Append(delivered[c] \o send[c], Reply)
    <3>1. Reply \in Nat
      BY DEF Reply
    <3> QED
      BY <2>2, <3>1, TrailSteps, AppendProperties
  <2>4. send' \in [Clients -> Seq(Nat)] /\ delivered' \in [Clients -> Seq(Nat)]
    BY <2>1, <2>3 DEF OInv, Shapes
  <2>5. ASSUME NEW d \in Clients
        PROVE  Trail(d)' = Trail(d) \/ Trail(d)' = Append(Trail(d), Reply)
    <3>1. send'[d] = send[d] \/ (d = c /\ send'[d] = Append(send[d], Reply))
      BY <2>1 DEF OInv, Shapes
    <3> QED
      BY <2>1, <2>3, <3>1, Zenon DEF Trail
  <2> QED
    BY <2>1, <2>4, <2>5, AnswerKeepsOrder
<1>8. ASSUME NEW c \in Clients, Write(c) PROVE OInv'
  <2>1. CASE UNCHANGED <<send, delivered>>
    BY <1>3, <1>8, <2>1 DEF Write, source
  <2>2. CASE /\ send[c] # <<>>
             /\ delivered' = [delivered EXCEPT ![c] = Append(@, Head(send[c]))]
             /\ send' = [send EXCEPT ![c] = Tail(@)]
    <3>1. \A d \in Clients : delivered[d] \in Seq(Nat) /\ send[d] \in Seq(Nat)
      BY DEF OInv, Shapes
    <3>2. /\ Append(delivered[c], Head(send[c])) \in Seq(Nat) /\ Tail(send[c]) \in Seq(Nat)
          /\ Append(delivered[c], Head(send[c])) \o Tail(send[c]) = delivered[c] \o send[c]
      BY <2>2, <3>1, TrailSteps, AppendProperties, HeadTailProperties
    <3>3. send' \in [Clients -> Seq(Nat)] /\ delivered' \in [Clients -> Seq(Nat)]
      BY <2>2, <3>2 DEF OInv, Shapes
    <3>4. ASSUME NEW d \in Clients PROVE Trail(d)' = Trail(d)
      <4>1. \/ send'[d] = send[d] /\ delivered'[d] = delivered[d]
            \/ /\ d = c /\ send'[d] = Tail(send[d])
               /\ delivered'[d] = Append(delivered[d], Head(send[d]))
        BY <2>2 DEF OInv, Shapes
      <4> QED
        BY <3>2, <4>1, Zenon DEF Trail
    <3>5. UNCHANGED source
      BY <1>8 DEF Write
    <3> QED
      BY <3>3, <3>4, <3>5, AnswerKeepsOrder
  <2> QED
    BY <1>8, <2>1, <2>2 DEF Write
<1> QED
  BY <1>1, <1>2, <1>4, <1>5, <1>6, <1>7, <1>8 DEF Next, HubStep, ReadPump, WritePump

\* In every behaviour a client has the events in the order of the broadcasts
\* and none twice, taken together what its WritePump has taken and what waits
\* in its buffer: full buffers, dropped publications, the answers of its
\* ReadPump, unsubscribing and subscribing again only leave gaps.
THEOREM ClientsSeeOrder == Spec => []EventsInOrder
<1>1. Init => OInv
  <2> SUFFICES ASSUME Init PROVE OInv
    OBVIOUS
  <2>1. Shapes /\ Len(broadcast) = 0
    BY DEF Init, Shapes
  <2>2. \A c \in Clients : Len(Trail(c)) = 0
    BY ConcatProperties DEF Init, Trail
  <2> QED
    BY <2>1, <2>2 DEF OInv, BroadcastInOrder, TrailBefore, EventsInOrder
<1>2. OInv => EventsInOrder
  BY DEF OInv
<1> QED
  BY <1>1, <1>2, OrderInductive, PTL DEF Spec
=============================================================================
