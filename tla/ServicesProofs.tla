--------------------------- MODULE ServicesProofs ---------------------------
(***************************************************************************)
(* What the services around a chain promise: an event is heard once on     *)
(* every node, a chain has one fetcher, and shutdown leaves nothing        *)
(* running.                                                                *)
(*                                                                         *)
(* The bus of several nodes, for every number of nodes, every grouping of  *)
(* them and every set of events.                                           *)
(* TakenOnce is not inductive: that a loop may hand an event to its local  *)
(* bus rests on where the event has been.  It is sent before any mailbox   *)
(* has it, it leaves a mailbox when a loop of its readers takes it, and no *)
(* two loops of a node hold it.                                            *)
(*                                                                         *)
(* The chains, for every set of chains and of requests.                    *)
(* The status alone does not tell whether a chain is fetched: goroutines   *)
(* of an earlier start change it late.  What can be relied on is that a    *)
(* chain with a status from which it may be started has no goroutine left, *)
(* and that a caller between the check and the start of the fetcher keeps  *)
(* it so.  At shutdown, what matters is that a chain the manager has       *)
(* visited, or that is no longer registered, has no goroutine and nobody   *)
(* who could start one.                                                    *)
(***************************************************************************)
EXTENDS DistributedBus, Fleet, FiniteSetTheorems, SequenceTheorems, TLAPS

-----------------------------------------------------------------------------
(* The event bus of several nodes.                                         *)

\* The markers of a loop are no events, and nobody is no node.
NodesApart == {"read", "over"} \cap Events = {} /\ NoNode \notin Nodes

LoopStates == Events \cup {"read", "over"}

\* The types the argument needs.
DistTypes ==
    /\ backend \in {"redis", "kafka"} /\ group \in Groupings
    /\ loops \in [Nodes -> Seq(LoopStates)]
    /\ origin \in [Events -> Nodes \cup {NoNode}]
    /\ sending \subseteq Events
    /\ mailbox \in [Mailboxes -> SUBSET Events] /\ owed \in [Mailboxes -> SUBSET Events]
    /\ local \in [Nodes -> [Events -> Nat]] /\ refused \in [Nodes -> SUBSET Events]

\* Nothing of an event that node n can still receive has come to it.
Clear(n, e) == ~Handles(n, e) /\ (n # origin[e] => local[n][e] = 0)

\* An event is nowhere before it is published,
FreshIsNowhere ==
    \A e \in Events : origin[e] = NoNode =>
        /\ e \notin sending /\ \A b \in Mailboxes : e \notin mailbox[b]
        /\ \A n \in Nodes : ~Handles(n, e) /\ local[n][e] = 0

\* is with the sending node alone until the broker has it,
SendingIsNowhereElse ==
    \A e \in sending :
        /\ \A b \in Mailboxes : e \notin mailbox[b]
        /\ \A n \in Nodes : Clear(n, e)

\* and waits in a mailbox until one of its readers takes it.
WaitingIsUnread ==
    \A n \in Nodes : \A e \in mailbox[Box(n)] : Clear(n, e)

\* One loop of a node holds an event that the local bus has not taken and the
\* node has not published.
HeldOnce ==
    \A n \in Nodes : \A k \in DOMAIN loops[n] : loops[n][k] \in Events =>
        /\ n # origin[loops[n][k]] /\ local[n][loops[n][k]] = 0
        /\ \A j \in DOMAIN loops[n] : loops[n][j] = loops[n][k] => j = k

\* The inductive invariant.
DInv ==
    /\ DistTypes /\ FreshIsNowhere /\ SendingIsNowhereElse /\ WaitingIsUnread /\ HeldOnce
    /\ TakenOnce /\ BroadcastAccounted

\* Every node has a mailbox.
LEMMA NodesHaveBoxes ==
  ASSUME DistTypes, NEW n \in Nodes
  PROVE  /\ Box(n) \in Mailboxes /\ n \in Mailboxes
         /\ backend = "redis" => Box(n) = n
         /\ backend # "redis" => Box(n) = group[n]
BY DEF DistTypes, Box, Mailboxes

\* At first nothing is anywhere.
LEMMA InitDInv == DistInit => DInv
<1> SUFFICES ASSUME DistInit PROVE DInv
  OBVIOUS
<1>1. DistTypes
  BY DEF DistInit, DistTypes
<1>2. \A n \in Nodes : loops[n] = <<>> /\ \A e \in Events : local[n][e] = 0 /\ ~Handles(n, e)
  BY DEF DistInit, Handles
<1>3. /\ sending = {} /\ \A b \in Mailboxes : mailbox[b] = {} /\ owed[b] = {}
  BY DEF DistInit
<1>4. \A n \in Nodes : mailbox[Box(n)] = {} /\ owed[Box(n)] = {}
  BY <1>1, <1>3, NodesHaveBoxes
<1>5. FreshIsNowhere /\ SendingIsNowhereElse /\ WaitingIsUnread /\ HeldOnce
  BY <1>2, <1>3, <1>4 DEF FreshIsNowhere, SendingIsNowhereElse, WaitingIsUnread, HeldOnce
<1>6. TakenOnce /\ BroadcastAccounted
  BY <1>2, <1>4 DEF TakenOnce, BroadcastAccounted
<1> QED
  BY <1>1, <1>5, <1>6 DEF DInv

\* A step that leaves the events where they are, and may start or end loops.
LEMMA IdleKeeps ==
  ASSUME DInv,
         UNCHANGED <<backend, group, origin, sending, mailbox, local, refused, owed>>,
         loops' \in [Nodes -> Seq(LoopStates)],
         \A n \in Nodes : \A e \in Events : \A k \in DOMAIN loops[n] :
            loops[n][k] = e => k \in DOMAIN loops'[n] /\ loops'[n][k] = e,
         \A n \in Nodes : \A e \in Events : \A k \in DOMAIN loops'[n] :
            loops'[n][k] = e => k \in DOMAIN loops[n] /\ loops[n][k] = e
  PROVE  DInv'
<1>1. DistTypes'
  BY DEF DInv, DistTypes
<1>2. \A n \in Nodes, e \in Events : Handles(n, e)' <=> Handles(n, e)
  BY DEF Handles
<1>3. \A n : Box(n)' = Box(n)
  BY DEF Box
<1>4. FreshIsNowhere'
  BY <1>2 DEF DInv, FreshIsNowhere
<1>5. \A n \in Nodes, e \in Events : Clear(n, e)' <=> Clear(n, e)
  BY <1>2 DEF Clear
<1>6. SendingIsNowhereElse' /\ WaitingIsUnread'
  <2>1. sending \subseteq Events /\ \A n \in Nodes : mailbox[Box(n)] \subseteq Events
    BY NodesHaveBoxes DEF DInv, DistTypes
  <2> QED
    BY <1>3, <1>5, <2>1 DEF DInv, SendingIsNowhereElse, WaitingIsUnread
<1>7. HeldOnce'
  BY DEF DInv, HeldOnce
<1>8. TakenOnce'
  BY DEF DInv, TakenOnce
<1>9. BroadcastAccounted'
  <2>1. \A n \in Nodes : owed[Box(n)] \subseteq Events
    BY NodesHaveBoxes DEF DInv, DistTypes
  <2> QED
    BY <1>2, <1>3, <2>1 DEF DInv, BroadcastAccounted, OwnMailbox, Decodes
<1> QED
  BY <1>1, <1>4, <1>6, <1>7, <1>8, <1>9 DEF DInv

\* Redis forgets what it had for a node that disconnects, and owes it no more.
LEMMA CloseKeeps ==
  ASSUME DInv, NEW n \in Nodes, CloseClient(n),
         UNCHANGED <<backend, group, loops, origin, sending, local, refused>>
  PROVE  DInv'
<1>1. /\ mailbox' \in [Mailboxes -> SUBSET Events] /\ owed' \in [Mailboxes -> SUBSET Events]
      /\ \A b \in Mailboxes : mailbox'[b] \subseteq mailbox[b] /\ owed'[b] \subseteq owed[b]
      /\ \A b \in Mailboxes : \A e \in owed'[b] : e \in mailbox[b] => e \in mailbox'[b]
  <2>1. CASE UNCHANGED <<mailbox, owed>>
    BY <2>1 DEF DInv, DistTypes
  <2>2. CASE /\ mailbox' = [mailbox EXCEPT ![n] = {}]
             /\ owed' = [owed EXCEPT ![n] = @ \ mailbox[n]]
    <3>1. n \in Mailboxes
      BY DEF Mailboxes
    <3> QED
      BY <2>2, <3>1 DEF DInv, DistTypes
  <2> QED
    BY <2>1, <2>2 DEF CloseClient
<1>2. DistTypes'
  BY <1>1 DEF DInv, DistTypes
<1>3. \A m \in Nodes : Box(m) \in Mailboxes
  BY NodesHaveBoxes DEF DInv
<1>4. /\ \A m : Box(m)' = Box(m)
      /\ \A m, e : Handles(m, e)' <=> Handles(m, e)
      /\ \A m, e : Clear(m, e)' <=> Clear(m, e)
      /\ \A e : Decodes(e)' <=> Decodes(e)
      /\ \A m : OwnMailbox(m)' <=> OwnMailbox(m)
  BY DEF Box, Handles, Clear, Decodes, OwnMailbox
<1>5. FreshIsNowhere' /\ SendingIsNowhereElse' /\ WaitingIsUnread'
  BY <1>1, <1>3, <1>4 DEF DInv, FreshIsNowhere, SendingIsNowhereElse, WaitingIsUnread
<1>6. HeldOnce' /\ TakenOnce'
  BY DEF DInv, HeldOnce, TakenOnce
<1>7. BroadcastAccounted'
  BY <1>1, <1>3, <1>4 DEF DInv, BroadcastAccounted
<1> QED
  BY <1>2, <1>5, <1>6, <1>7 DEF DInv

\* What the local bus does with an event: taken once more, or refused.
Offered(n, e) ==
    /\ \A m \in Nodes, d \in Events : m # n \/ d # e => local'[m][d] = local[m][d]
    /\ \A m \in Nodes : refused[m] \subseteq refused'[m]
    /\ local'[n][e] = local[n][e] + 1 \/ (local'[n][e] = local[n][e] /\ e \in refused'[n])

\* Publish of the local bus does one of the two.
LEMMA LocalOffers ==
  ASSUME DInv, NEW n \in Nodes, NEW e \in Events, LocalTakes(n, e) \/ LocalRefuses(n, e)
  PROVE  /\ local' \in [Nodes -> [Events -> Nat]] /\ refused' \in [Nodes -> SUBSET Events]
         /\ Offered(n, e)
<1>1. CASE LocalTakes(n, e)
  BY <1>1 DEF LocalTakes, DInv, DistTypes, Offered
<1>2. CASE LocalRefuses(n, e)
  BY <1>2 DEF LocalRefuses, DInv, DistTypes, Offered
<1> QED
  BY <1>1, <1>2

\* A new event comes to the publisher's local bus, and may be sent.
LEMMA PublishKeeps ==
  ASSUME NodesApart, DInv, NEW n \in Nodes, NEW e \in Events, Publish(n, e)
  PROVE  DInv'
<1>1. /\ origin[e] = NoNode /\ origin' = [origin EXCEPT ![e] = n]
      /\ sending' \subseteq sending \cup {e} /\ sending \subseteq sending'
      /\ UNCHANGED <<backend, group, loops, mailbox, owed>>
  BY DEF Publish
<1>2. /\ local' \in [Nodes -> [Events -> Nat]] /\ refused' \in [Nodes -> SUBSET Events]
      /\ Offered(n, e)
  BY LocalOffers DEF Publish
<1>3. DistTypes'
  BY <1>1, <1>2 DEF DInv, DistTypes
<1>4. /\ e \notin sending /\ \A b \in Mailboxes : e \notin mailbox[b]
      /\ \A m \in Nodes : ~Handles(m, e) /\ local[m][e] = 0
  BY <1>1 DEF DInv, FreshIsNowhere
<1>5. /\ \A m \in Nodes : Box(m) \in Mailboxes
      /\ \A m : Box(m)' = Box(m)
      /\ \A m, d : Handles(m, d)' <=> Handles(m, d)
      /\ \A d : Decodes(d)' <=> Decodes(d)
      /\ \A m : OwnMailbox(m)' <=> OwnMailbox(m)
  BY <1>1, NodesHaveBoxes DEF DInv, Box, Handles, Decodes, OwnMailbox
<1>6. /\ origin'[e] = n
      /\ \A d \in Events : d # e => origin'[d] = origin[d]
      /\ \A m \in Nodes, d \in Events : d # e => local'[m][d] = local[m][d]
      /\ \A m \in Nodes : m # n => local'[m][e] = 0
      /\ local'[n][e] <= 1
  BY <1>1, <1>2, <1>4 DEF DInv, DistTypes, Offered
<1>7. \A m \in Nodes, d \in Events : d = e \/ Clear(m, d) => Clear(m, d)'
  BY <1>4, <1>5, <1>6 DEF Clear
<1>8. FreshIsNowhere'
  BY <1>1, <1>5, <1>6 DEF DInv, FreshIsNowhere, NodesApart
<1>9. SendingIsNowhereElse'
  BY <1>1, <1>4, <1>7 DEF DInv, DistTypes, SendingIsNowhereElse
<1>10. WaitingIsUnread'
  BY <1>1, <1>5, <1>7 DEF DInv, DistTypes, WaitingIsUnread
<1>11. HeldOnce'
  <2>1. \A m \in Nodes : \A k \in DOMAIN loops[m] : loops[m][k] # e
    BY <1>4 DEF Handles
  <2> QED
    BY <1>1, <1>6, <2>1 DEF DInv, HeldOnce
<1>12. TakenOnce'
  BY <1>6 DEF DInv, TakenOnce
<1>13. BroadcastAccounted'
  <2> SUFFICES ASSUME NEW m \in Nodes, OwnMailbox(m)', NEW d \in owed'[Box(m)'],
                      origin'[d] # m, Decodes(d)'
               PROVE  d \in mailbox'[Box(m)'] \/ Handles(m, d)' \/ local'[m][d] > 0 \/ d \in refused'[m]
    BY DEF BroadcastAccounted
  <2>1. OwnMailbox(m) /\ Decodes(d) /\ d \in owed[Box(m)] /\ d \in Events
    BY <1>1, <1>5 DEF DInv, DistTypes
  <2>2. origin[d] # m
    BY <1>1, <1>6, <2>1 DEF NodesApart
  <2>3. d \in mailbox[Box(m)] \/ Handles(m, d) \/ local[m][d] > 0 \/ d \in refused[m]
    BY <2>1, <2>2 DEF DInv, BroadcastAccounted
  <2>4. local[m][d] > 0 => local'[m][d] > 0
    BY <1>4, <1>6, <2>1
  <2>5. d \in refused[m] => d \in refused'[m]
    BY <1>2 DEF Offered
  <2> QED
    BY <1>1, <1>5, <2>3, <2>4, <2>5
<1> QED
  BY <1>3, <1>8, <1>9, <1>10, <1>11, <1>12, <1>13 DEF DInv

\* The broker takes an event for its audience, which is all it owes it to.
LEMMA SendKeeps ==
  ASSUME DInv, NEW e \in Events, Send(e)
  PROVE  DInv'
<1>1. /\ e \in sending /\ sending' = sending \ {e}
      /\ UNCHANGED <<backend, group, loops, origin, local, refused>>
  BY DEF Send
<1>2. /\ mailbox' \in [Mailboxes -> SUBSET Events] /\ owed' \in [Mailboxes -> SUBSET Events]
      /\ \A b \in Mailboxes : /\ mailbox[b] \subseteq mailbox'[b]
                              /\ mailbox'[b] \subseteq mailbox[b] \cup {e}
  BY DEF Send, DInv, DistTypes
<1>3. \A b \in Mailboxes : \A d \in owed'[b] : d \in owed[b] \/ (d = e /\ b \in Audience(e))
  BY DEF Send, Audience, Serializes, getSubscriptionChannels
<1>4. \A b \in Mailboxes : b \in Audience(e) => e \in mailbox'[b]
  BY DEF Send
<1>5. DistTypes'
  BY <1>1, <1>2 DEF DInv, DistTypes
<1>6. /\ \A m \in Nodes : Box(m) \in Mailboxes
      /\ \A m : Box(m)' = Box(m)
      /\ \A m, d : Handles(m, d)' <=> Handles(m, d)
      /\ \A m, d : Clear(m, d)' <=> Clear(m, d)
      /\ \A d : Decodes(d)' <=> Decodes(d)
      /\ \A m : OwnMailbox(m)' <=> OwnMailbox(m)
  BY <1>1, NodesHaveBoxes DEF DInv, Box, Handles, Clear, Decodes, OwnMailbox
<1>7. FreshIsNowhere'
  <2>1. origin[e] # NoNode
    BY <1>1 DEF DInv, FreshIsNowhere
  <2> QED
    BY <1>1, <1>2, <1>6, <2>1 DEF DInv, FreshIsNowhere
<1>8. SendingIsNowhereElse'
  BY <1>1, <1>2, <1>6 DEF DInv, SendingIsNowhereElse
<1>9. WaitingIsUnread'
  BY <1>1, <1>2, <1>6 DEF DInv, SendingIsNowhereElse, WaitingIsUnread
<1>10. HeldOnce' /\ TakenOnce'
  BY <1>1 DEF DInv, HeldOnce, TakenOnce
<1>11. BroadcastAccounted'
  <2> SUFFICES ASSUME NEW m \in Nodes, OwnMailbox(m)', NEW d \in owed'[Box(m)'],
                      origin'[d] # m, Decodes(d)'
               PROVE  d \in mailbox'[Box(m)'] \/ Handles(m, d)' \/ local'[m][d] > 0 \/ d \in refused'[m]
    BY DEF BroadcastAccounted
  <2>1. PICK b \in Mailboxes : b = Box(m) /\ b = Box(m)'
    BY <1>6
  <2>2. OwnMailbox(m) /\ Decodes(d) /\ origin[d] # m /\ d \in owed'[b]
    BY <1>1, <1>6, <2>1
  <2>3. CASE d \in owed[b]
    <3>1. d \in mailbox[b] \/ Handles(m, d) \/ local[m][d] > 0 \/ d \in refused[m]
      BY <2>1, <2>2, <2>3 DEF DInv, BroadcastAccounted
    <3> QED
      BY <1>1, <1>2, <1>6, <2>1, <3>1
  <2>4. CASE d = e /\ b \in Audience(e)
    BY <1>4, <2>1, <2>4
  <2> QED
    BY <1>3, <2>2, <2>3, <2>4
<1> QED
  BY <1>5, <1>7, <1>8, <1>9, <1>10, <1>11 DEF DInv

\* Nobody hears of it.
LEMMA SendFailsKeeps ==
  ASSUME DInv, NEW e \in Events, SendFails(e)
  PROVE  DInv'
<1>1. /\ sending' \subseteq sending
      /\ UNCHANGED <<backend, group, loops, origin, mailbox, local, refused, owed>>
  BY DEF SendFails
<1>2. /\ \A m : Box(m)' = Box(m)
      /\ \A m, d : Handles(m, d)' <=> Handles(m, d)
      /\ \A m, d : Clear(m, d)' <=> Clear(m, d)
      /\ \A d : Decodes(d)' <=> Decodes(d)
      /\ \A m : OwnMailbox(m)' <=> OwnMailbox(m)
  BY <1>1 DEF Box, Handles, Clear, Decodes, OwnMailbox
<1>3. DistTypes' /\ HeldOnce' /\ TakenOnce'
  BY <1>1 DEF DInv, DistTypes, HeldOnce, TakenOnce
<1>4. FreshIsNowhere' /\ SendingIsNowhereElse' /\ WaitingIsUnread'
  BY <1>1, <1>2 DEF DInv, FreshIsNowhere, SendingIsNowhereElse, WaitingIsUnread
<1>5. BroadcastAccounted'
  BY <1>1, <1>2 DEF DInv, BroadcastAccounted
<1> QED
  BY <1>3, <1>4, <1>5 DEF DInv

\* The state of one loop changes.
LEMMA OneLoop ==
  ASSUME DInv, NEW n \in Nodes, NEW k \in DOMAIN loops[n], NEW v \in LoopStates,
         loops' = [loops EXCEPT ![n][k] = v]
  PROVE  /\ loops' \in [Nodes -> Seq(LoopStates)]
         /\ \A m \in Nodes : DOMAIN loops'[m] = DOMAIN loops[m]
         /\ \A m \in Nodes : \A j \in DOMAIN loops[m] : m # n \/ j # k => loops'[m][j] = loops[m][j]
         /\ loops'[n][k] = v
<1>1. loops \in [Nodes -> Seq(LoopStates)] /\ loops[n] \in Seq(LoopStates)
  BY DEF DInv, DistTypes
<1>2. k \in 1..Len(loops[n]) /\ DOMAIN loops[n] = 1..Len(loops[n])
  BY <1>1
<1>3. [loops[n] EXCEPT ![k] = v] \in Seq(LoopStates)
  BY <1>1, <1>2, ExceptSeq
<1>4. loops' = [loops EXCEPT ![n] = [loops[n] EXCEPT ![k] = v]]
  OBVIOUS
<1> QED
  BY <1>1, <1>2, <1>3, <1>4

\* A loop takes a message from the mailbox of its node.
LEMMA ReceiveKeeps ==
  ASSUME NodesApart, DInv, NEW n \in Nodes, NEW k \in DOMAIN loops[n], Receive(n, k)
  PROVE  DInv'
<1>1. PICK e \in mailbox[Box(n)] :
         /\ mailbox' = [mailbox EXCEPT ![Box(n)] = @ \ {e}]
         /\ loops' = [loops EXCEPT ![n][k] = IF IsEcho(n, e) \/ ~Decodes(e) THEN "read" ELSE e]
  BY DEF Receive
<1>2. /\ loops[n][k] = "read"
      /\ UNCHANGED <<backend, group, origin, sending, local, refused, owed>>
  BY DEF Receive
<1>3. PICK b \in Mailboxes : b = Box(n)
  BY NodesHaveBoxes DEF DInv
<1>4. e \in Events /\ e \in mailbox[b]
  BY <1>3 DEF DInv, DistTypes
<1>5. PICK v \in LoopStates : /\ v = "read" \/ v = e
                              /\ v = "read" <=> IsEcho(n, e) \/ ~Decodes(e)
                              /\ loops' = [loops EXCEPT ![n][k] = v]
  <2> DEFINE w == IF IsEcho(n, e) \/ ~Decodes(e) THEN "read" ELSE e
  <2>1. w \in LoopStates /\ (w = "read" \/ w = e) /\ (w = "read" <=> IsEcho(n, e) \/ ~Decodes(e))
    BY <1>4 DEF LoopStates, NodesApart
  <2>2. loops' = [loops EXCEPT ![n][k] = w]
    BY <1>1
  <2> HIDE DEF w
  <2> QED
    BY <2>1, <2>2
<1>6. /\ loops' \in [Nodes -> Seq(LoopStates)]
      /\ \A m \in Nodes : DOMAIN loops'[m] = DOMAIN loops[m]
      /\ \A m \in Nodes : \A j \in DOMAIN loops[m] : m # n \/ j # k => loops'[m][j] = loops[m][j]
      /\ loops'[n][k] = v
  BY <1>5, OneLoop
<1>7. /\ mailbox' \in [Mailboxes -> SUBSET Events]
      /\ mailbox'[b] = mailbox[b] \ {e}
      /\ \A c \in Mailboxes : c # b => mailbox'[c] = mailbox[c]
  BY <1>1, <1>3 DEF DInv, DistTypes
<1>8. DistTypes'
  BY <1>2, <1>6, <1>7 DEF DInv, DistTypes
<1>9. /\ \A m \in Nodes : Box(m) \in Mailboxes
      /\ \A m : Box(m)' = Box(m)
      /\ \A d : Decodes(d)' <=> Decodes(d)
      /\ \A m : OwnMailbox(m)' <=> OwnMailbox(m)
  BY <1>2, NodesHaveBoxes DEF DInv, Box, Decodes, OwnMailbox
<1>10. /\ \A m \in Nodes, d \in Events : Handles(m, d) => Handles(m, d)'
       /\ \A m \in Nodes, d \in Events : Handles(m, d)' => Handles(m, d) \/ (m = n /\ d = e /\ v = e)
  BY <1>2, <1>5, <1>6 DEF Handles, NodesApart
<1>11. \A m \in Nodes, d \in Events : (m # n \/ d # e) /\ Clear(m, d) => Clear(m, d)'
  BY <1>2, <1>10 DEF Clear
<1>12. Clear(n, e) /\ origin[e] # NoNode /\ e \notin sending
  BY <1>3, <1>4, <1>9 DEF DInv, WaitingIsUnread, FreshIsNowhere, SendingIsNowhereElse
<1>13. FreshIsNowhere'
  BY <1>2, <1>7, <1>10, <1>12 DEF DInv, FreshIsNowhere
<1>14. SendingIsNowhereElse'
  BY <1>2, <1>7, <1>11, <1>12 DEF DInv, DistTypes, SendingIsNowhereElse
<1>15. WaitingIsUnread'
  <2> SUFFICES ASSUME NEW m \in Nodes, NEW d \in mailbox'[Box(m)'] PROVE Clear(m, d)'
    BY DEF WaitingIsUnread
  <2>1. PICK c \in Mailboxes : c = Box(m) /\ c = Box(m)'
    BY <1>9
  <2>2. d \in mailbox[c] /\ d \in Events /\ (c = b => d # e)
    BY <1>7, <2>1 DEF DInv, DistTypes
  <2>3. Clear(m, d)
    BY <2>1, <2>2 DEF DInv, WaitingIsUnread
  <2> QED
    BY <1>3, <1>11, <2>1, <2>2, <2>3
<1>16. HeldOnce'
  <2>1. \A j \in DOMAIN loops[n] : loops[n][j] # e
    BY <1>12 DEF Clear, Handles
  <2>2. v = e => n # origin[e] /\ local[n][e] = 0
    BY <1>5, <1>4, <1>12 DEF Clear, IsEcho, NodesApart
  <2>3. "read" \notin Events
    BY DEF NodesApart
  <2> QED
    BY <1>2, <1>5, <1>6, <2>1, <2>2, <2>3 DEF DInv, HeldOnce
<1>17. TakenOnce'
  BY <1>2 DEF DInv, TakenOnce
<1>18. BroadcastAccounted'
  <2> SUFFICES ASSUME NEW m \in Nodes, OwnMailbox(m)', NEW d \in owed'[Box(m)'],
                      origin'[d] # m, Decodes(d)'
               PROVE  d \in mailbox'[Box(m)'] \/ Handles(m, d)' \/ local'[m][d] > 0 \/ d \in refused'[m]
    BY DEF BroadcastAccounted
  <2>1. PICK c \in Mailboxes : c = Box(m) /\ c = Box(m)'
    BY <1>9
  <2>2. OwnMailbox(m) /\ Decodes(d) /\ origin[d] # m /\ d \in owed[c] /\ d \in Events
    BY <1>2, <1>9, <2>1 DEF DInv, DistTypes
  <2>3. d \in mailbox[c] \/ Handles(m, d) \/ local[m][d] > 0 \/ d \in refused[m]
    BY <2>1, <2>2 DEF DInv, BroadcastAccounted
  <2>4. CASE c = b /\ d = e
    <3>1. m = n
      BY <1>3, <2>1, <2>2, <2>4 DEF OwnMailbox
    <3>2. v = e
      BY <1>5, <2>2, <2>4, <3>1 DEF IsEcho
    <3>3. Handles(n, e)'
      BY <1>6, <3>2 DEF Handles
    <3> QED
      BY <2>4, <3>1, <3>3
  <2>5. CASE c # b \/ d # e
    BY <1>2, <1>7, <1>10, <2>1, <2>2, <2>3, <2>5
  <2> QED
    BY <2>4, <2>5
<1> QED
  BY <1>8, <1>13, <1>14, <1>15, <1>16, <1>17, <1>18 DEF DInv

\* A loop hands what it holds to the local bus, for the first and only time.
LEMMA DeliverKeeps ==
  ASSUME NodesApart, DInv, NEW n \in Nodes, NEW k \in DOMAIN loops[n], Deliver(n, k)
  PROVE  DInv'
<1>1. PICK e \in Events : e = loops[n][k]
  BY DEF Deliver, DInv, DistTypes, LoopStates
<1>2. /\ loops' = [loops EXCEPT ![n][k] = "read"]
      /\ UNCHANGED <<backend, group, origin, sending, mailbox, owed>>
  BY DEF Deliver
<1>3. /\ local' \in [Nodes -> [Events -> Nat]] /\ refused' \in [Nodes -> SUBSET Events]
      /\ Offered(n, e)
  BY <1>1, LocalOffers DEF Deliver
<1>4. /\ loops' \in [Nodes -> Seq(LoopStates)]
      /\ \A m \in Nodes : DOMAIN loops'[m] = DOMAIN loops[m]
      /\ \A m \in Nodes : \A j \in DOMAIN loops[m] : m # n \/ j # k => loops'[m][j] = loops[m][j]
      /\ loops'[n][k] = "read"
  BY <1>2, OneLoop DEF LoopStates
<1>5. DistTypes'
  BY <1>2, <1>3, <1>4 DEF DInv, DistTypes
<1>6. /\ \A m \in Nodes : Box(m) \in Mailboxes
      /\ \A m : Box(m)' = Box(m)
      /\ \A d : Decodes(d)' <=> Decodes(d)
      /\ \A m : OwnMailbox(m)' <=> OwnMailbox(m)
  BY <1>2, NodesHaveBoxes DEF DInv, Box, Decodes, OwnMailbox
<1>7. /\ n # origin[e] /\ local[n][e] = 0
      /\ \A j \in DOMAIN loops[n] : loops[n][j] = e => j = k
  BY <1>1 DEF DInv, HeldOnce
<1>8. Handles(n, e) /\ ~Handles(n, e)'
  BY <1>1, <1>4, <1>7 DEF Handles, NodesApart
<1>9. \A m \in Nodes, d \in Events : m # n \/ d # e => (Handles(m, d)' <=> Handles(m, d))
  BY <1>1, <1>4 DEF Handles, NodesApart
<1>10. /\ \A m \in Nodes, d \in Events : m # n \/ d # e => local'[m][d] = local[m][d]
       /\ local'[n][e] <= 1 /\ (local'[n][e] > 0 \/ e \in refused'[n])
  BY <1>3, <1>7 DEF Offered
<1>11. \A m \in Nodes, d \in Events : m # n \/ d # e => (Clear(m, d)' <=> Clear(m, d))
  BY <1>2, <1>9, <1>10 DEF Clear
<1>12. ~Clear(n, e) /\ origin[e] # NoNode /\ e \notin sending
  BY <1>8 DEF DInv, Clear, FreshIsNowhere, SendingIsNowhereElse
<1>13. FreshIsNowhere'
  BY <1>2, <1>9, <1>10, <1>12 DEF DInv, FreshIsNowhere
<1>14. SendingIsNowhereElse'
  BY <1>2, <1>11, <1>12 DEF DInv, DistTypes, SendingIsNowhereElse
<1>15. WaitingIsUnread'
  BY <1>2, <1>6, <1>11, <1>12 DEF DInv, DistTypes, WaitingIsUnread
<1>16. HeldOnce'
  <2>1. "read" \notin Events
    BY DEF NodesApart
  <2> SUFFICES ASSUME NEW m \in Nodes, NEW j \in DOMAIN loops'[m], loops'[m][j] \in Events
               PROVE  /\ m # origin'[loops'[m][j]] /\ local'[m][loops'[m][j]] = 0
                      /\ \A l \in DOMAIN loops'[m] : loops'[m][l] = loops'[m][j] => l = j
    BY DEF HeldOnce
  <2>2. m # n \/ j # k
    BY <1>4, <2>1
  <2>3. j \in DOMAIN loops[m] /\ loops'[m][j] = loops[m][j]
    BY <1>4, <2>2
  <2>4. m # n \/ loops[m][j] # e
    BY <1>7, <2>2, <2>3
  <2>5. /\ m # origin[loops[m][j]] /\ local[m][loops[m][j]] = 0
        /\ \A l \in DOMAIN loops[m] : loops[m][l] = loops[m][j] => l = j
    BY <2>3 DEF DInv, HeldOnce
  <2>6. \A l \in DOMAIN loops'[m] : loops'[m][l] = loops'[m][j] => loops'[m][l] = loops[m][l]
    BY <1>4, <2>1
  <2> QED
    BY <1>2, <1>4, <1>10, <2>3, <2>4, <2>5, <2>6
<1>17. TakenOnce'
  BY <1>10 DEF DInv, TakenOnce
<1>18. BroadcastAccounted'
  <2> SUFFICES ASSUME NEW m \in Nodes, OwnMailbox(m)', NEW d \in owed'[Box(m)'],
                      origin'[d] # m, Decodes(d)'
               PROVE  d \in mailbox'[Box(m)'] \/ Handles(m, d)' \/ local'[m][d] > 0 \/ d \in refused'[m]
    BY DEF BroadcastAccounted
  <2>1. OwnMailbox(m) /\ Decodes(d) /\ origin[d] # m /\ d \in owed[Box(m)] /\ d \in Events
    BY <1>2, <1>6 DEF DInv, DistTypes
  <2>2. d \in mailbox[Box(m)] \/ Handles(m, d) \/ local[m][d] > 0 \/ d \in refused[m]
    BY <2>1 DEF DInv, BroadcastAccounted
  <2>3. CASE m = n /\ d = e
    BY <1>10, <2>3
  <2>4. CASE m # n \/ d # e
    <3>1. d \in refused[m] => d \in refused'[m]
      BY <1>3 DEF Offered
    <3> QED
      BY <1>2, <1>6, <1>9, <1>10, <2>1, <2>2, <2>4, <3>1
  <2> QED
    BY <2>3, <2>4
<1> QED
  BY <1>5, <1>13, <1>14, <1>15, <1>16, <1>17, <1>18 DEF DInv

\* Every step keeps the invariant.
LEMMA StepDInv == ASSUME NodesApart, DInv, [DistNext]_distVars PROVE DInv'
<1>1. ASSUME UNCHANGED <<backend, group, loops, origin, sending, mailbox, local, refused, owed>>
      PROVE  DInv'
  <2>1. loops' \in [Nodes -> Seq(LoopStates)]
    BY <1>1 DEF DInv, DistTypes
  <2> QED
    BY <1>1, <2>1, IdleKeeps
<1>2. CASE UNCHANGED distVars
  BY <1>1, <1>2 DEF distVars
<1>3. ASSUME NEW n \in Nodes, Connect(n) PROVE DInv'
  <2>1. /\ UNCHANGED <<backend, group, origin, sending, mailbox, local, refused, owed>>
        /\ loops' = [loops EXCEPT ![n] = Append(loops[n], "read")]
    BY <1>3 DEF Connect
  <2>2. loops[n] \in Seq(LoopStates) /\ "read" \in LoopStates /\ "read" \notin Events
    BY DEF DInv, DistTypes, LoopStates, NodesApart
  <2>3. /\ Append(loops[n], "read") \in Seq(LoopStates)
        /\ DOMAIN loops[n] = 1..Len(loops[n])
        /\ DOMAIN Append(loops[n], "read") = 1..Len(loops[n]) + 1
        /\ \A k \in DOMAIN loops[n] : k \in 1..Len(loops[n]) + 1
        /\ \A k \in 1..Len(loops[n]) : Append(loops[n], "read")[k] = loops[n][k]
        /\ \A k \in 1..Len(loops[n]) + 1 : k \in 1..Len(loops[n]) \/ Append(loops[n], "read")[k] = "read"
    BY <2>2, AppendProperties
  <2>4. loops' \in [Nodes -> Seq(LoopStates)]
    BY <2>1, <2>3 DEF DInv, DistTypes
  <2>5. /\ loops'[n] = Append(loops[n], "read")
        /\ \A m \in Nodes : m # n => loops'[m] = loops[m]
    BY <2>1 DEF DInv, DistTypes
  <2>6. ASSUME NEW m \in Nodes, NEW e \in Events, NEW k \in DOMAIN loops[m], loops[m][k] = e
        PROVE  k \in DOMAIN loops'[m] /\ loops'[m][k] = e
    BY <2>3, <2>5, <2>6
  <2>7. ASSUME NEW m \in Nodes, NEW e \in Events, NEW k \in DOMAIN loops'[m], loops'[m][k] = e
        PROVE  k \in DOMAIN loops[m] /\ loops[m][k] = e
    BY <2>2, <2>3, <2>5, <2>7
  <2> QED
    BY <2>1, <2>4, <2>6, <2>7, IdleKeeps
<1>4. ASSUME NEW n \in Nodes, Disconnect(n) \/ Stop(n) PROVE DInv'
  BY <1>4, CloseKeeps DEF Disconnect, Stop
<1>5. ASSUME NEW n \in Nodes, StopReturns(n) \/ RunReturns(n) PROVE DInv'
  BY <1>1, <1>5 DEF StopReturns, RunReturns
<1>6. ASSUME NEW n \in Nodes, NEW e \in Events, Publish(n, e) PROVE DInv'
  BY <1>6, PublishKeeps
<1>7. ASSUME NEW n \in Nodes, NEW k \in DOMAIN loops[n], Receive(n, k) PROVE DInv'
  BY <1>7, ReceiveKeeps
<1>8. ASSUME NEW n \in Nodes, NEW k \in DOMAIN loops[n], Deliver(n, k) PROVE DInv'
  BY <1>8, DeliverKeeps
<1>9. ASSUME NEW n \in Nodes, NEW k \in DOMAIN loops[n], LoopEnds(n, k) PROVE DInv'
  <2>1. /\ loops[n][k] = "read" /\ loops' = [loops EXCEPT ![n][k] = "over"]
        /\ UNCHANGED <<backend, group, origin, sending, mailbox, local, refused, owed>>
    BY <1>9 DEF LoopEnds
  <2>2. /\ loops' \in [Nodes -> Seq(LoopStates)]
        /\ \A m \in Nodes : DOMAIN loops'[m] = DOMAIN loops[m]
        /\ \A m \in Nodes : \A j \in DOMAIN loops[m] : m # n \/ j # k => loops'[m][j] = loops[m][j]
        /\ loops'[n][k] = "over"
    BY <2>1, OneLoop DEF LoopStates
  <2>3. \A m \in Nodes : \A e \in Events : \A j \in DOMAIN loops[m] :
           loops[m][j] = e <=> loops'[m][j] = e
    BY <2>1, <2>2 DEF NodesApart
  <2> QED
    BY <2>1, <2>2, <2>3, IdleKeeps
<1>10. ASSUME NEW e \in Events, Send(e) PROVE DInv'
  BY <1>10, SendKeeps
<1>11. ASSUME NEW e \in Events, SendFails(e) PROVE DInv'
  BY <1>11, SendFailsKeeps
<1> QED
  BY <1>2, <1>3, <1>4, <1>5, <1>6, <1>7, <1>8, <1>9, <1>10, <1>11 DEF DistNext

\* No local bus takes an event twice, and what the broker took for a listening
\* node that shares no group waits for it, is in its hands or was offered to
\* its local bus: through Redis and through Kafka, with publishers that
\* disconnect or stop while they send, brokers that refuse, consumers that are
\* connected again beside an earlier loop, and local buses that are full.
THEOREM EventsHeardOnce == ASSUME NodesApart PROVE DistSpec => []HeardOnce
<1>1. DInv => HeardOnce
  BY DEF DInv, HeardOnce
<1>2. DInv /\ [DistNext]_distVars => DInv'
  BY StepDInv
<1> QED
  BY <1>1, <1>2, InitDInv, PTL DEF DistSpec

-----------------------------------------------------------------------------
(* The chains of the multi-chain manager.                                  *)

\* Requests are no loops of the manager, and "none" is no chain.
CallersApart == Requests \cap Loops = {} /\ NoChain \notin Chains

\* Steps at which a caller works on a chain.
Working == {"start", "context", "init", "sync", "return", "stop", "cancel", "wait",
            "close", "remove"}
Contexts == [by : Callers \cup {"none"}, live : BOOLEAN]
Goroutines == [by : Callers \cup {"none"}, live : BOOLEAN, seen : BOOLEAN,
               at : {"new", "running", "failed", "erring", "done"}]

\* The types the argument needs.
Types ==
    /\ running \in BOOLEAN /\ managed \in {"none", "live", "cancelled"}
    /\ registry \subseteq Chains
    /\ status \in [Chains -> {"registered", "starting", "syncing", "active", "stopping",
                              "stopped", "error"}]
    /\ ctx \in [Chains -> Contexts]
    /\ fetchers \in [Chains -> Seq(Goroutines)]
    /\ step \in [Callers -> Working \cup {"idle", "loop", "done"}]
    /\ target \in [Callers -> Chains \cup {NoChain}]
    /\ todo \in [Loops -> SUBSET Chains]
    /\ removing \subseteq Requests
    /\ overlap \in [Chains -> BOOLEAN]

\* A caller works on a chain exactly while it has one; the monitor begins once
\* Manager.Start is through; Manager.Stop starts and removes no chain, and comes
\* after the end of the manager's context.
Callings ==
    /\ \A p \in Callers : target[p] \in Chains <=> step[p] \in Working
    /\ step["shutdown"] \notin {"start", "context", "init", "sync", "remove"}
    /\ running => step["run"] # "idle"
    /\ step["run"] # "done" => step["monitor"] = "idle"
    /\ step["shutdown"] # "idle" => ~running /\ managed = "cancelled" /\ step["run"] # "idle"
    /\ step["shutdown"] = "done" => todo["shutdown"] = {}

\* A live context derives from the manager's or from a request under way.
Derived(p) ==
    \/ p \in {"run", "monitor"} /\ managed = "live"
    \/ p \in Requests /\ step[p] \notin {"idle", "done"}
ContextsDerived ==
    \A c \in Chains :
        /\ ctx[c].live => Derived(ctx[c].by)
        /\ \A k \in DOMAIN fetchers[c] : fetchers[c][k].live => Derived(fetchers[c][k].by)

\* No goroutine is left and nobody can start one.
Left(c) ==
    /\ Alive(c) = {}
    /\ \A p \in Callers : target[p] = c => step[p] = "return"

\* What a caller that works on c relies on.
CallerOK(p, c) ==
    /\ step[p] \in {"context", "init"} => status[c] \in {"starting", "active"} /\ Alive(c) = {}
    /\ step[p] \in {"close", "remove"} => Alive(c) = {}
    /\ p = "shutdown" /\ step[p] = "return" => Alive(c) = {}

\* What holds of a chain whose operations do not overlap.
ChainOK(c) ==
    /\ \A p, q \in Callers : target[p] = c /\ target[q] = c => p = q
    /\ \A j, k \in Alive(c) : j = k
    /\ status[c] \in {"registered", "stopped", "error"} => Alive(c) = {}
    /\ status[c] = "stopping" =>
          \E p \in Callers : target[p] = c /\ step[p] \in {"cancel", "wait", "close"}
    /\ \A p \in Callers : target[p] = c => CallerOK(p, c)
    /\ c \notin registry => Left(c)
    /\ step["shutdown"] # "idle" /\ c \notin todo["shutdown"] /\ target["shutdown"] # c => Left(c)

\* The inductive invariant.
FInv == Types /\ Callings /\ ContextsDerived /\ \A c \in Chains : overlap[c] \/ ChainOK(c)

\* Nothing has been started.
LEMMA InitFInv == ASSUME CallersApart, FleetInit PROVE FInv
<1>1. Types
  <2>1. <<>> \in Seq(Goroutines) /\ NoContext \in Contexts
    BY DEF NoContext, Contexts
  <2> QED
    BY <2>1 DEF FleetInit, Types
<1>2. Callings
  BY DEF FleetInit, Callings, Callers, Loops, Working, CallersApart
<1>3. ContextsDerived
  BY DEF FleetInit, ContextsDerived, NoContext
<1>4. ASSUME NEW c \in Chains PROVE ChainOK(c)
  <2>1. Alive(c) = {}
    BY DEF FleetInit, Alive
  <2>2. \A p \in Callers : target[p] # c
    BY DEF FleetInit, CallersApart
  <2>3. status[c] = "registered" /\ step["shutdown"] = "idle"
    BY DEF FleetInit, Callers, Loops
  <2> QED
    BY <2>1, <2>2, <2>3 DEF ChainOK, Left
<1> QED
  BY <1>1, <1>2, <1>3, <1>4 DEF FInv

-----------------------------------------------------------------------------
(* What the steps do to the goroutines.                                    *)

\* Ending contexts leaves every goroutine where it is, and none comes to life.
LEMMA EndFacts ==
  ASSUME Types, NEW S, NEW C, End(S, C)
  PROVE  /\ ctx' \in [Chains -> Contexts] /\ fetchers' \in [Chains -> Seq(Goroutines)]
         /\ \A c \in Chains :
               /\ Alive(c)' = Alive(c)
               /\ DOMAIN fetchers'[c] = DOMAIN fetchers[c]
               /\ ctx'[c].by = ctx[c].by
               /\ ctx'[c].live => ctx[c].live /\ (c \in C => ctx[c].by \notin S)
               /\ \A k \in DOMAIN fetchers[c] :
                     /\ fetchers'[c][k].by = fetchers[c][k].by
                     /\ fetchers'[c][k].live =>
                           fetchers[c][k].live /\ (c \in C => fetchers[c][k].by \notin S)
<1> DEFINE Over(x) == [x EXCEPT !.live = @ /\ x.by \notin S]
<1>1. /\ ctx' = [c \in Chains |-> IF c \in C THEN Over(ctx[c]) ELSE ctx[c]]
      /\ fetchers' = [c \in Chains |-> IF c \notin C THEN fetchers[c]
                        ELSE [k \in DOMAIN fetchers[c] |-> Over(fetchers[c][k])]]
  BY DEF End
<1>2. \A x \in Contexts : /\ Over(x) \in Contexts /\ Over(x).by = x.by
                          /\ Over(x).live => x.live /\ x.by \notin S
  BY DEF Contexts
<1>3. \A x \in Goroutines : /\ Over(x) \in Goroutines /\ Over(x).by = x.by /\ Over(x).at = x.at
                            /\ Over(x).live => x.live /\ x.by \notin S
  BY DEF Goroutines
<1> HIDE DEF Over
<1>4. \A c \in Chains : /\ ctx[c] \in Contexts /\ fetchers[c] \in Seq(Goroutines)
                        /\ DOMAIN fetchers[c] = 1..Len(fetchers[c]) /\ Len(fetchers[c]) \in Nat
                        /\ \A k \in DOMAIN fetchers[c] : fetchers[c][k] \in Goroutines
  BY DEF Types
<1>5. \A c \in Chains : [k \in DOMAIN fetchers[c] |-> Over(fetchers[c][k])] \in Seq(Goroutines)
  BY <1>3, <1>4, IsASeq
<1>6. ctx' \in [Chains -> Contexts] /\ fetchers' \in [Chains -> Seq(Goroutines)]
  BY <1>1, <1>2, <1>4, <1>5
<1>7. ASSUME NEW c \in Chains
      PROVE  /\ ctx'[c].by = ctx[c].by
             /\ ctx'[c].live => ctx[c].live /\ (c \in C => ctx[c].by \notin S)
  BY <1>1, <1>2, <1>4
<1>8. ASSUME NEW c \in Chains
      PROVE  /\ DOMAIN fetchers'[c] = DOMAIN fetchers[c]
             /\ \A k \in DOMAIN fetchers[c] :
                     /\ fetchers'[c][k].by = fetchers[c][k].by
                     /\ fetchers'[c][k].at = fetchers[c][k].at
                     /\ fetchers'[c][k].live =>
                           fetchers[c][k].live /\ (c \in C => fetchers[c][k].by \notin S)
  <2>1. CASE c \in C
    <3>1. fetchers'[c] = [k \in DOMAIN fetchers[c] |-> Over(fetchers[c][k])]
      BY <1>1, <2>1
    <3> QED
      BY <1>3, <1>4, <2>1, <3>1
  <2>2. CASE c \notin C
    BY <1>1, <2>2
  <2> QED
    BY <2>1, <2>2
<1>9. \A c \in Chains : Alive(c)' = Alive(c)
  BY <1>8 DEF Alive
<1> QED
  BY <1>6, <1>7, <1>8, <1>9

\* What comes out of a step of goroutine i of a chain: every entry is an
\* entry of before, no two are the same one, i's is replaced by f.
Renamed(old, new, k, f) ==
    \E g \in [DOMAIN new -> DOMAIN old] :
        /\ \A a, b \in DOMAIN new : g[a] = g[b] => a = b
        /\ \A a \in DOMAIN new : new[a] = IF g[a] = k THEN f ELSE old[g[a]]

\* Becomes replaces an entry or removes it.
LEMMA BecomesFacts ==
  ASSUME Types, NEW c \in Chains, NEW k \in DOMAIN fetchers[c], NEW f \in Goroutines,
         Becomes(c, k, f)
  PROVE  /\ fetchers' \in [Chains -> Seq(Goroutines)]
         /\ \A d \in Chains : d # c => fetchers'[d] = fetchers[d]
         /\ Renamed(fetchers[c], fetchers'[c], k, f)
<1>1. PICK s \in Seq(Goroutines) : s = fetchers[c]
  BY DEF Types
<1>2. k \in 1..Len(s) /\ Len(s) \in Nat /\ DOMAIN s = 1..Len(s)
  BY <1>1
<1>3. CASE ~(f.at = "done" /\ ~f.seen)
  <2>1. fetchers' = [fetchers EXCEPT ![c] = [s EXCEPT ![k] = f]]
    BY <1>1, <1>3 DEF Becomes
  <2>2. PICK t \in Seq(Goroutines) : t = [s EXCEPT ![k] = f]
    BY <1>2, ExceptSeq
  <2>3. DOMAIN t = DOMAIN s /\ \A a \in DOMAIN t : t[a] = IF a = k THEN f ELSE s[a]
    BY <1>2, <2>2
  <2>4. Renamed(s, t, k, f)
    <3> DEFINE g == [a \in DOMAIN t |-> a]
    <3>1. g \in [DOMAIN t -> DOMAIN s]
      BY <2>3
    <3> QED
      BY <2>3, <3>1 DEF Renamed
  <2> QED
    BY <1>1, <2>1, <2>2, <2>4 DEF Types
<1>4. CASE f.at = "done" /\ ~f.seen
  <2>1. fetchers' = [fetchers EXCEPT ![c] = RemoveAt(s, k)]
    BY <1>1, <1>4 DEF Becomes
  <2>2. /\ SubSeq(s, 1, k - 1) \in Seq(Goroutines) /\ Len(SubSeq(s, 1, k - 1)) = k - 1
        /\ \A a \in 1..k - 1 : SubSeq(s, 1, k - 1)[a] = s[a]
    BY <1>2, SubSeqProperties
  <2>3. /\ SubSeq(s, k + 1, Len(s)) \in Seq(Goroutines)
        /\ Len(SubSeq(s, k + 1, Len(s))) = Len(s) - k
        /\ \A a \in 1..Len(s) - k : SubSeq(s, k + 1, Len(s))[a] = s[k + a]
    <3>0. k + 1 \in Int /\ Len(s) \in Int /\ Len(s) - (k + 1) + 1 = Len(s) - k /\ k + 1 <= Len(s) + 1
      BY <1>2
    <3>1. PICK m \in Int, o \in Int : m = k + 1 /\ o = Len(s) /\ o - m + 1 = Len(s) - k /\ m <= o + 1
      BY <3>0
    <3>2. \A a \in m..o : s[a] \in Goroutines
      BY <1>2, <3>1
    <3>3. /\ SubSeq(s, m, o) \in Seq(Goroutines)
          /\ Len(SubSeq(s, m, o)) = IF m <= o THEN o - m + 1 ELSE 0
          /\ \A a \in 1..o - m + 1 : SubSeq(s, m, o)[a] = s[m + a - 1]
      BY <3>2, SubSeqProperties
    <3>4. Len(SubSeq(s, m, o)) = Len(s) - k
      BY <1>2, <3>1, <3>3
    <3>5. \A a \in 1..Len(s) - k : m + a - 1 = k + a
      BY <1>2, <3>1
    <3> QED
      BY <3>1, <3>3, <3>4, <3>5
  <2>4. PICK t \in Seq(Goroutines) : t = RemoveAt(s, k)
    BY <2>2, <2>3, ConcatProperties DEF RemoveAt
  <2>5. DOMAIN t = 1..Len(s) - 1
    BY <1>2, <2>2, <2>3, <2>4, ConcatProperties DEF RemoveAt
  <2>6. \A a \in DOMAIN t : t[a] = s[IF a < k THEN a ELSE a + 1]
    <3> DEFINE l == SubSeq(s, 1, k - 1)
               r == SubSeq(s, k + 1, Len(s))
    <3>1. t = l \o r
      BY <2>4 DEF RemoveAt
    <3>2. /\ l \in Seq(Goroutines) /\ Len(l) = k - 1 /\ \A a \in 1..k - 1 : l[a] = s[a]
          /\ r \in Seq(Goroutines) /\ Len(r) = Len(s) - k /\ \A a \in 1..Len(s) - k : r[a] = s[k + a]
      BY <2>2, <2>3
    <3> HIDE DEF l, r
    <3>3. \A a \in 1..Len(l) + Len(r) : t[a] = IF a <= Len(l) THEN l[a] ELSE r[a - Len(l)]
      BY <3>1, <3>2, ConcatProperties
    <3> SUFFICES ASSUME NEW a \in 1..Len(s) - 1 PROVE t[a] = s[IF a < k THEN a ELSE a + 1]
      BY <2>5
    <3>4. CASE a < k
      <4>1. a \in 1..k - 1 /\ a \in 1..Len(l) + Len(r) /\ a <= Len(l)
        BY <1>2, <3>2, <3>4
      <4>2. t[a] = s[a]
        BY <3>2, <3>3, <4>1
      <4> QED
        BY <3>4, <4>2
    <3>5. CASE a >= k
      <4>1. a - (k - 1) \in 1..Len(s) - k /\ k + (a - (k - 1)) = a + 1
        BY <1>2, <3>5
      <4>2. t[a] = r[a - (k - 1)]
        BY <1>2, <3>2, <3>3, <3>5
      <4>3. r[a - (k - 1)] = s[a + 1]
        BY <3>2, <4>1
      <4>4. ~(a < k)
        BY <1>2, <3>5
      <4> QED
        BY <4>2, <4>3, <4>4
    <3> QED
      BY <1>2, <3>4, <3>5
  <2>7. Renamed(s, t, k, f)
    <3> DEFINE g == [a \in DOMAIN t |-> IF a < k THEN a ELSE a + 1]
    <3>1. g \in [DOMAIN t -> DOMAIN s] /\ \A a \in DOMAIN t : g[a] # k
      BY <1>2, <2>5
    <3>2. \A a, b \in DOMAIN t : g[a] = g[b] => a = b
      BY <1>2, <2>5
    <3>3. \A a \in DOMAIN t : t[a] = s[g[a]]
      BY <2>6
    <3> HIDE DEF g
    <3> QED
      BY <3>1, <3>2, <3>3 DEF Renamed
  <2> QED
    BY <1>1, <2>1, <2>4, <2>7 DEF Types
<1> QED
  BY <1>3, <1>4

\* A step of a goroutine replaces its entry by one that is no more alive and
\* whose context is the old one or the chain's; the status becomes "error" only
\* when it ends.
LEMMA GoroutineStep ==
  ASSUME Types, NEW c \in Chains, NEW k \in DOMAIN fetchers[c], Goroutine(c, k)
  PROVE  \E f \in Goroutines :
            /\ Becomes(c, k, f)
            /\ f.at # "done" => fetchers[c][k].at # "done"
            /\ f.live => \/ fetchers[c][k].live /\ f.by = fetchers[c][k].by
                         \/ ctx[c].live /\ f.by = ctx[c].by
            /\ \/ status' = status
               \/ status' = [status EXCEPT ![c] = "active"]
               \/ /\ status' = [status EXCEPT ![c] = "error"]
                  /\ f.at = "done" /\ fetchers[c][k].at # "done"
<1>1. PICK x \in Goroutines : x = fetchers[c][k]
  BY DEF Types
<1>2. ctx[c] \in Contexts /\ fetchers \in [Chains -> Seq(Goroutines)]
  BY DEF Types
<1>3. CASE FetcherBegins(c, k)
  <2>1. PICK f : f = [x EXCEPT !.at = "running", !.by = ctx[c].by, !.live = ctx[c].live]
    OBVIOUS
  <2>2. /\ f \in Goroutines /\ f.at = "running" /\ f.by = ctx[c].by /\ f.live = ctx[c].live
        /\ fetchers' = [fetchers EXCEPT ![c] = [fetchers[c] EXCEPT ![k] = f]]
    <3>1. f \in Goroutines
      BY <1>1, <1>2, <2>1 DEF Goroutines, Contexts
    <3>2. f.at = "running" /\ f.by = ctx[c].by /\ f.live = ctx[c].live
      BY <1>1, <2>1 DEF Goroutines
    <3>3. fetchers' = [fetchers EXCEPT ![c] = [fetchers[c] EXCEPT ![k] = f]]
      BY <1>1, <1>3, <2>1 DEF FetcherBegins
    <3> QED
      BY <3>1, <3>2, <3>3
  <2>3. Becomes(c, k, f)
    BY <2>2 DEF Becomes
  <2> QED
    BY <1>1, <1>3, <2>2, <2>3 DEF FetcherBegins
<1>4. ASSUME NEW from, NEW to \in {"failed", "erring", "done"}, from # "done", At(c, k, from, to)
      PROVE  \E f \in Goroutines :
                /\ Becomes(c, k, f) /\ x.at # "done" /\ f.at = to
                /\ f.live = x.live /\ f.by = x.by
  BY <1>1, <1>4 DEF At, Goroutines
<1>5. CASE FetcherReturns(c, k)
  BY <1>1, <1>4, <1>5 DEF FetcherReturns
<1>6. CASE FetcherChecks(c, k)
  BY <1>1, <1>4, <1>6 DEF FetcherChecks
<1>7. CASE FetcherSetsError(c, k)
  BY <1>1, <1>4, <1>7 DEF FetcherSetsError
<1>8. CASE SeesSyncing(c, k)
  <2>1. PICK f \in Goroutines : f = [x EXCEPT !.seen = TRUE]
    BY <1>1 DEF Goroutines
  <2>2. fetchers' = [fetchers EXCEPT ![c] = [fetchers[c] EXCEPT ![k] = f]]
    BY <1>1, <1>2, <1>8, <2>1 DEF SeesSyncing
  <2>3. Becomes(c, k, f) /\ f.at = x.at /\ f.live = x.live /\ f.by = x.by
    BY <1>1, <1>8, <2>1, <2>2 DEF Becomes, SeesSyncing, Goroutines
  <2> QED
    BY <1>1, <1>8, <2>3 DEF SeesSyncing
<1>9. CASE SetsActive(c, k)
  <2>1. PICK f \in Goroutines : f = [x EXCEPT !.seen = FALSE]
    BY <1>1 DEF Goroutines
  <2>2. Becomes(c, k, f) /\ f.at = x.at /\ f.live = x.live /\ f.by = x.by
    BY <1>1, <1>9, <2>1 DEF SetsActive, Goroutines
  <2> QED
    BY <1>1, <1>9, <2>2 DEF SetsActive
<1> QED
  BY <1>3, <1>5, <1>6, <1>7, <1>8, <1>9 DEF Goroutine

\* What that means for the goroutines of a chain that are alive.
LEMMA RenamedAlive ==
  ASSUME NEW c \in Chains, NEW k \in DOMAIN fetchers[c], NEW f,
         Renamed(fetchers[c], fetchers'[c], k, f),
         f.at # "done" => fetchers[c][k].at # "done"
  PROVE  /\ Alive(c) = {} => Alive(c)' = {}
         /\ (\A j, l \in Alive(c) : j = l) => \A j, l \in Alive(c)' : j = l
         /\ (\A j, l \in Alive(c) : j = l) /\ f.at = "done" /\ fetchers[c][k].at # "done"
               => Alive(c)' = {}
<1>1. PICK g \in [DOMAIN fetchers'[c] -> DOMAIN fetchers[c]] :
         /\ \A a, b \in DOMAIN fetchers'[c] : g[a] = g[b] => a = b
         /\ \A a \in DOMAIN fetchers'[c] :
               fetchers'[c][a] = IF g[a] = k THEN f ELSE fetchers[c][g[a]]
  BY DEF Renamed
<1>2. \A a \in Alive(c)' : a \in DOMAIN fetchers'[c] /\ g[a] \in Alive(c)
  BY <1>1 DEF Alive
<1>3. f.at = "done" => \A a \in Alive(c)' : g[a] # k
  BY <1>1 DEF Alive
<1>4. fetchers[c][k].at # "done" => k \in Alive(c)
  BY DEF Alive
<1> QED
  BY <1>1, <1>2, <1>3, <1>4

-----------------------------------------------------------------------------
(* The steps and the chains they leave alone.                              *)

\* What ChainOK(d) looks at.
Untouched(d) ==
    /\ status'[d] = status[d] /\ Alive(d)' = Alive(d)
    /\ d \in registry' <=> d \in registry
    /\ \A q \in Callers : target'[q] = d <=> target[q] = d
    /\ \A q \in Callers : target[q] = d => step'[q] = step[q]
    /\ step'["shutdown"] = "idle" <=> step["shutdown"] = "idle"
    /\ d \in todo'["shutdown"] <=> d \in todo["shutdown"]

\* A chain that a step does not touch is as before.
LEMMA Frame ==
  ASSUME NEW d \in Chains, ChainOK(d), Untouched(d)
  PROVE  ChainOK(d)'
<1>1. "shutdown" \in Callers
  BY DEF Callers, Loops
<1>2. Left(d) => Left(d)'
  BY DEF Left, Untouched
<1>3. \A q \in Callers : target[q] = d /\ CallerOK(q, d) => CallerOK(q, d)'
  BY DEF CallerOK, Untouched
<1> QED
  BY <1>1, <1>2, <1>3 DEF ChainOK, Untouched

\* A goroutine's step keeps what holds of its chain.
LEMMA GoroutineKeeps ==
  ASSUME CallersApart, FInv, NEW c \in Chains, NEW k \in DOMAIN fetchers[c], Goroutine(c, k),
         UNCHANGED removing
  PROVE  FInv'
<1>1. PICK f \in Goroutines :
        /\ Becomes(c, k, f)
        /\ f.at # "done" => fetchers[c][k].at # "done"
        /\ f.live => \/ fetchers[c][k].live /\ f.by = fetchers[c][k].by
                     \/ ctx[c].live /\ f.by = ctx[c].by
        /\ \/ status' = status
           \/ status' = [status EXCEPT ![c] = "active"]
           \/ /\ status' = [status EXCEPT ![c] = "error"]
              /\ f.at = "done" /\ fetchers[c][k].at # "done"
  BY GoroutineStep DEF FInv
<1>2. /\ fetchers' \in [Chains -> Seq(Goroutines)]
      /\ \A d \in Chains : d # c => fetchers'[d] = fetchers[d]
      /\ Renamed(fetchers[c], fetchers'[c], k, f)
  BY <1>1, BecomesFacts DEF FInv
<1>3. UNCHANGED <<running, managed, registry, ctx, step, target, todo, removing, overlap>>
  BY DEF Goroutine
<1>4. Types'
  BY <1>1, <1>2, <1>3 DEF FInv, Types
<1>5. Callings'
  BY <1>3 DEF FInv, Callings
<1>6. ContextsDerived'
  <2>1. \A p : Derived(p)' <=> Derived(p)
    BY <1>3 DEF Derived
  <2>2. PICK g \in [DOMAIN fetchers'[c] -> DOMAIN fetchers[c]] :
           \A a \in DOMAIN fetchers'[c] :
               fetchers'[c][a] = IF g[a] = k THEN f ELSE fetchers[c][g[a]]
    BY <1>2 DEF Renamed
  <2>3. \A a \in DOMAIN fetchers'[c] : fetchers'[c][a].live => Derived(fetchers'[c][a].by)
    BY <1>1, <2>2 DEF FInv, ContextsDerived
  <2> QED
    BY <1>2, <1>3, <2>1, <2>3 DEF FInv, ContextsDerived
<1>7. ASSUME NEW d \in Chains, ~overlap'[d] PROVE ChainOK(d)'
  <2>1. ChainOK(d)
    BY <1>3, <1>7 DEF FInv
  <2>2. CASE d # c
    <3>1. Untouched(d)
      BY <1>1, <1>2, <1>3, <2>2 DEF Untouched, Alive, FInv, Types
    <3> QED
      BY <2>1, <3>1, Frame
  <2>3. CASE d = c
    <3>1. /\ Alive(c) = {} => Alive(c)' = {}
          /\ \A j, l \in Alive(c)' : j = l
          /\ f.at = "done" /\ fetchers[c][k].at # "done" => Alive(c)' = {}
      BY <1>1, <1>2, <2>1, <2>3, RenamedAlive DEF ChainOK
    <3>2. \/ status'[c] = status[c] \/ status'[c] = "active"
          \/ status'[c] = "error" /\ Alive(c)' = {} /\ k \in Alive(c)
      BY <1>1, <3>1 DEF FInv, Types, Alive
    <3>3. Left(c) => Left(c)'
      BY <1>3, <3>1 DEF Left
    <3>4. \A p \in Callers : target[p] = c /\ CallerOK(p, c) => CallerOK(p, c)'
      BY <1>3, <3>1, <3>2 DEF CallerOK
    <3> QED
      BY <1>3, <2>1, <2>3, <3>1, <3>2, <3>3, <3>4 DEF ChainOK
  <2> QED
    BY <2>2, <2>3
<1> QED
  BY <1>4, <1>5, <1>6, <1>7 DEF FInv

-----------------------------------------------------------------------------
(* The steps of a caller that works on a chain.                            *)

\* Going on to another step of the work, or leaving it, keeps Callings.
LEMMA CallingsKept ==
  ASSUME CallersApart, Types, Callings, NEW p \in Callers, target[p] \in Chains, NEW v,
         step' = [step EXCEPT ![p] = v],
         \/ v \in Working /\ target' = target
         \/ v \in {"loop", "done"} /\ target' = [target EXCEPT ![p] = NoChain],
         p = "shutdown" => v \notin {"start", "context", "init", "sync", "remove", "done"},
         UNCHANGED <<running, managed, todo>>
  PROVE  /\ Callings'
         /\ step' \in [Callers -> Working \cup {"idle", "loop", "done"}]
         /\ target' \in [Callers -> Chains \cup {NoChain}]
<1>1. /\ step' \in [Callers -> Working \cup {"idle", "loop", "done"}]
      /\ target' \in [Callers -> Chains \cup {NoChain}]
  BY DEF Types
<1>2. "shutdown" \in Callers /\ "run" \in Callers
  BY DEF Callers, Loops
<1>3. /\ step'[p] = v /\ \A q \in Callers : q # p => step'[q] = step[q] /\ target'[q] = target[q]
  BY DEF Types
<1>4. \A q \in Callers : target'[q] \in Chains <=> step'[q] \in Working
  <2>1. target'[p] \in Chains <=> v \in Working
    BY DEF Types, CallersApart, Working
  <2> QED
    BY <1>3, <2>1 DEF Callings
<1>5. step[p] \in Working /\ v # "idle"
  BY DEF Callings, Working
<1>6. step'["shutdown"] \notin {"start", "context", "init", "sync", "remove"}
  BY <1>2, <1>3 DEF Callings
<1>7. running' => step'["run"] # "idle"
  BY <1>2, <1>3, <1>5 DEF Callings
<1>8. step'["shutdown"] # "idle" => ~running' /\ managed' = "cancelled" /\ step'["run"] # "idle"
  BY <1>2, <1>3, <1>5 DEF Callings, Working
<1>9. step'["shutdown"] = "done" => todo'["shutdown"] = {}
  BY <1>2, <1>3, <1>5 DEF Callings
<1>10. step'["run"] # "done" => step'["monitor"] = "idle"
  <2>1. "monitor" \in Callers
    BY DEF Callers, Loops
  <2> QED
    BY <1>2, <1>3, <1>5, <2>1 DEF Callings, Working
<1> QED
  BY <1>1, <1>4, <1>6, <1>7, <1>8, <1>9, <1>10 DEF Callings

\* Other chains are not touched.
LEMMA OthersUntouched ==
  ASSUME CallersApart, FInv, NEW p \in Callers, NEW c \in Chains, target[p] = c, NEW v, v # "idle",
         step' = [step EXCEPT ![p] = v],
         target' = target \/ target' = [target EXCEPT ![p] = NoChain],
         todo' = todo,
         NEW d \in Chains, d # c, status'[d] = status[d], Alive(d)' = Alive(d),
         d \in registry' <=> d \in registry
  PROVE  Untouched(d)
<1>1. "shutdown" \in Callers /\ step[p] # "idle"
  BY DEF Callers, Loops, FInv, Callings, Working
<1>2. \A q \in Callers : step'[q] = IF q = p THEN v ELSE step[q]
  BY DEF FInv, Types
<1>3. \A q \in Callers : q # p => target'[q] = target[q]
  BY DEF FInv, Types
<1>4. target'[p] # d
  BY DEF FInv, Types, CallersApart
<1> QED
  BY <1>1, <1>2, <1>3, <1>4 DEF Untouched

\* What a caller that is not about to leave has to see to on its own chain.
LEMMA OwnChain ==
  ASSUME CallersApart, FInv, NEW p \in Callers, NEW c \in Chains, target[p] = c, ChainOK(c),
         step[p] # "return", NEW v, v # "idle",
         step' = [step EXCEPT ![p] = v], UNCHANGED <<target, todo, registry>>,
         \A j, k \in Alive(c)' : j = k,
         status'[c] \in {"registered", "stopped", "error"} => Alive(c)' = {},
         status'[c] = "stopping" => v \in {"cancel", "wait", "close"},
         CallerOK(p, c)'
  PROVE  ChainOK(c)'
<1>1. "shutdown" \in Callers /\ step[p] # "idle"
  BY DEF Callers, Loops, FInv, Callings, Working
<1>2. \A q \in Callers : step'[q] = IF q = p THEN v ELSE step[q]
  BY DEF FInv, Types
<1>3. ~Left(c)
  BY DEF Left
<1>4. c \in registry' /\ ~(step'["shutdown"] # "idle" /\ c \notin todo'["shutdown"]
                           /\ target'["shutdown"] # c)
  BY <1>1, <1>2, <1>3 DEF ChainOK
<1>5. \A q \in Callers : target'[q] = c => q = p
  BY DEF ChainOK
<1>6. status'[c] = "stopping" =>
        \E q \in Callers : target'[q] = c /\ step'[q] \in {"cancel", "wait", "close"}
  BY <1>2
<1> QED
  BY <1>4, <1>5, <1>6 DEF ChainOK

\* A step of the work on chain c that starts no goroutine and ends nothing: the
\* cases below say what it does to the status and where it goes.
LEMMA WorkKeeps ==
  ASSUME CallersApart, FInv, NEW p \in Callers, NEW c \in Chains, target[p] = c,
         step[p] # "return", NEW v \in Working,
         p = "shutdown" => v \notin {"start", "context", "init", "sync", "remove"},
         step' = [step EXCEPT ![p] = v],
         UNCHANGED <<running, managed, registry, target, todo, removing>>,
         overlap' \in [Chains -> BOOLEAN], \A d \in Chains : overlap[d] => overlap'[d],
         ctx' \in [Chains -> Contexts], fetchers' \in [Chains -> Seq(Goroutines)],
         status' \in [Chains -> {"registered", "starting", "syncing", "active", "stopping",
                                 "stopped", "error"}],
         \A d \in Chains : d # c => status'[d] = status[d] /\ Alive(d)' = Alive(d),
         ContextsDerived',
         ~overlap'[c] /\ ChainOK(c) =>
            /\ \A j, k \in Alive(c)' : j = k
            /\ status'[c] \in {"registered", "stopped", "error"} => Alive(c)' = {}
            /\ status'[c] = "stopping" => v \in {"cancel", "wait", "close"}
            /\ CallerOK(p, c)'
  PROVE  FInv'
<1>1. v # "idle"
  BY DEF Working
<1>2. /\ Callings'
      /\ step' \in [Callers -> Working \cup {"idle", "loop", "done"}]
      /\ target' \in [Callers -> Chains \cup {NoChain}]
  <2>1. v # "done"
    BY DEF Working
  <2> QED
    BY <2>1, CallingsKept DEF FInv
<1>3. Types'
  BY <1>2 DEF FInv, Types
<1>4. ASSUME NEW d \in Chains, ~overlap'[d] PROVE ChainOK(d)'
  <2>1. ChainOK(d)
    BY <1>4 DEF FInv
  <2>2. CASE d = c
    BY <1>1, <1>4, <2>1, <2>2, OwnChain
  <2>3. CASE d # c
    <3>1. Untouched(d)
      BY <1>1, <2>3, OthersUntouched
    <3> QED
      BY <2>1, <3>1, Frame
  <2> QED
    BY <2>2, <2>3
<1> QED
  BY <1>2, <1>3, <1>4 DEF FInv

\* Who works on goes on having a live context.
LEMMA DerivedKept ==
  ASSUME Types, NEW p \in Callers, NEW v \in Working, step' = [step EXCEPT ![p] = v],
         UNCHANGED managed
  PROVE  \A q : Derived(q) => Derived(q)'
<1>1. \A q \in Callers : step'[q] = IF q = p THEN v ELSE step[q]
  BY DEF Types
<1>2. v \notin {"idle", "done"} /\ Requests \subseteq Callers
  BY DEF Working, Callers
<1> QED
  BY <1>1, <1>2 DEF Derived

\* The same when contexts and goroutines stay as they are.
LEMMA ContextsKept ==
  ASSUME FInv, NEW p \in Callers, NEW v \in Working, step' = [step EXCEPT ![p] = v],
         UNCHANGED <<managed, ctx, fetchers>>
  PROVE  /\ ContextsDerived' /\ \A d \in Chains : Alive(d)' = Alive(d)
         /\ ctx' \in [Chains -> Contexts] /\ fetchers' \in [Chains -> Seq(Goroutines)]
BY DerivedKept DEF FInv, Types, ContextsDerived, Alive

\* The steps of ChainInstance.Start before it returns.
LEMMA StartKeeps ==
  ASSUME CallersApart, FInv, NEW p \in Callers, UNCHANGED removing,
         CheckStart(p) \/ NewContext(p) \/ Initialize(p) \/ InitializeFails(p) \/ SetSyncing(p)
  PROVE  FInv'
<1>1. step[p] \in {"start", "context", "init", "sync"}
  BY DEF CheckStart, NewContext, Initialize, InitializeFails, SetSyncing
<1>2. PICK c \in Chains : c = target[p]
  BY <1>1 DEF FInv, Callings, Working
<1>3. /\ UNCHANGED <<running, managed, registry, target, todo, removing>> /\ overlap' = overlap
      /\ p # "shutdown" /\ step[p] # "return"
  BY <1>1 DEF CheckStart, NewContext, Initialize, InitializeFails, SetSyncing, FInv, Callings
<1>4. overlap' \in [Chains -> BOOLEAN] /\ \A d \in Chains : overlap[d] => overlap'[d]
  BY <1>3 DEF FInv, Types
<1>5. status \in [Chains -> {"registered", "starting", "syncing", "active", "stopping",
                             "stopped", "error"}]
  BY DEF FInv, Types
<1>6. \A q \in Callers : \A v : step' = [step EXCEPT ![q] = v] => step'[q] = v
  BY DEF FInv, Types
<1>7. ~overlap'[c] /\ ChainOK(c) => CallerOK(p, c)
  BY <1>2 DEF ChainOK
<1>8. CASE CheckStart(p)
  <2>1. CASE Startable(c) /\ status' = [status EXCEPT ![c] = "starting"] /\ Goto(p, "context")
    <3>1. step' = [step EXCEPT ![p] = "context"] /\ "context" \in Working
      BY <2>1 DEF Goto, Working
    <3>2. UNCHANGED <<managed, ctx, fetchers>>
      BY <1>8 DEF CheckStart
    <3>3. /\ ContextsDerived' /\ \A d \in Chains : Alive(d)' = Alive(d)
          /\ ctx' \in [Chains -> Contexts] /\ fetchers' \in [Chains -> Seq(Goroutines)]
      BY <3>1, <3>2, ContextsKept
    <3>4. ChainOK(c) => Alive(c) = {}
      BY <2>1 DEF ChainOK, Startable
    <3>5. status'[c] = "starting" /\ \A d \in Chains : d # c => status'[d] = status[d]
      BY <1>5, <2>1
    <3>6. ChainOK(c) => CallerOK(p, c)'
      BY <1>3, <1>6, <3>1, <3>3, <3>4, <3>5 DEF CallerOK
    <3>7. ~overlap'[c] /\ ChainOK(c) =>
            /\ \A j, k \in Alive(c)' : j = k
            /\ status'[c] \in {"registered", "stopped", "error"} => Alive(c)' = {}
            /\ status'[c] = "stopping" => "context" \in {"cancel", "wait", "close"}
            /\ CallerOK(p, c)'
      BY <3>3, <3>4, <3>5, <3>6
    <3> QED
      BY <1>2, <1>3, <1>4, <1>5, <2>1, <3>1, <3>3, <3>5, <3>7, WorkKeeps
  <2>2. CASE Goto(p, "return") /\ UNCHANGED status
    <3>1. step' = [step EXCEPT ![p] = "return"] /\ "return" \in Working
      BY <2>2 DEF Goto, Working
    <3>2. UNCHANGED <<managed, ctx, fetchers>>
      BY <1>8 DEF CheckStart
    <3>3. /\ ContextsDerived' /\ \A d \in Chains : Alive(d)' = Alive(d)
          /\ ctx' \in [Chains -> Contexts] /\ fetchers' \in [Chains -> Seq(Goroutines)]
      BY <3>1, <3>2, ContextsKept
    <3>4. CallerOK(p, c)'
      BY <1>3, <1>6, <3>1 DEF CallerOK
    <3>5. ChainOK(c) => status[c] # "stopping"
      BY <1>1, <1>2 DEF ChainOK
    <3>6. ~overlap'[c] /\ ChainOK(c) =>
            /\ \A j, k \in Alive(c)' : j = k
            /\ status'[c] \in {"registered", "stopped", "error"} => Alive(c)' = {}
            /\ status'[c] = "stopping" => "return" \in {"cancel", "wait", "close"}
            /\ CallerOK(p, c)'
      BY <2>2, <3>3, <3>4, <3>5 DEF ChainOK
    <3> QED
      BY <1>2, <1>3, <1>4, <1>5, <2>2, <3>1, <3>3, <3>6, WorkKeeps
  <2> QED
    BY <1>2, <1>8, <2>1, <2>2 DEF CheckStart
<1>9. CASE NewContext(p)
  <2>1. /\ step' = [step EXCEPT ![p] = "init"] /\ "init" \in Working /\ step[p] = "context"
        /\ ctx' = [ctx EXCEPT ![c] = Derive(p)] /\ UNCHANGED <<status, fetchers>>
    BY <1>2, <1>9 DEF NewContext, Goto, Working
  <2>2. Derive(p) \in Contexts /\ Derive(p).by = p /\ Derive(p).live = CallerLive(p)
    BY DEF Derive, Contexts, CallerLive
  <2>3. ctx' \in [Chains -> Contexts] /\ fetchers' \in [Chains -> Seq(Goroutines)]
    BY <2>1, <2>2 DEF FInv, Types
  <2>4. ContextsDerived'
    <3>1. CallerLive(p) => Derived(p)'
      BY <1>3, <1>6, <2>1 DEF CallerLive, Derived, Callers, Loops, CallersApart
    <3>2. \A q : Derived(q) => Derived(q)'
      BY <1>3, <2>1, DerivedKept DEF FInv
    <3>3. /\ ctx'[c].live <=> CallerLive(p)
          /\ ctx'[c].by = p
          /\ \A d \in Chains : d # c => ctx'[d] = ctx[d]
      BY <2>1, <2>2 DEF FInv, Types
    <3>4. ASSUME NEW d \in Chains, ctx'[d].live PROVE Derived(ctx[d].by)'
      <4>1. CASE d = c
        BY <3>1, <3>3, <3>4, <4>1 DEF Derived
      <4>2. CASE d # c
        <5>1. ctx'[d] = ctx[d] /\ Derived(ctx[d].by)
          BY <3>3, <3>4, <4>2 DEF FInv, ContextsDerived
        <5> QED
          BY <3>2, <5>1 DEF Derived
      <4> QED
        BY <4>1, <4>2
    <3>5. ASSUME NEW d \in Chains, NEW k \in DOMAIN fetchers'[d], fetchers'[d][k].live
          PROVE  Derived(fetchers[d][k].by)'
      <4>1. fetchers' = fetchers /\ Derived(fetchers[d][k].by)
        BY <2>1, <3>5 DEF FInv, ContextsDerived
      <4> QED
        BY <3>2, <4>1 DEF Derived
    <3> QED
      BY <3>4, <3>5 DEF ContextsDerived
  <2>5. \A d \in Chains : Alive(d)' = Alive(d)
    BY <2>1 DEF Alive
  <2>6. ~overlap'[c] /\ ChainOK(c) =>
            /\ \A j, k \in Alive(c)' : j = k
            /\ status'[c] \in {"registered", "stopped", "error"} => Alive(c)' = {}
            /\ status'[c] = "stopping" => "init" \in {"cancel", "wait", "close"}
            /\ CallerOK(p, c)'
    <3>1. ~overlap'[c] /\ ChainOK(c) => status[c] \in {"starting", "active"} /\ Alive(c) = {}
      BY <1>7, <2>1 DEF CallerOK
    <3> QED
      BY <1>3, <1>6, <2>1, <2>5, <3>1 DEF CallerOK
  <2> QED
    BY <1>2, <1>3, <1>4, <1>5, <2>1, <2>3, <2>4, <2>5, <2>6, WorkKeeps
<1>10. CASE Initialize(p)
  <2>1. PICK f : f = [by |-> "none", live |-> FALSE, at |-> "new", seen |-> FALSE]
    OBVIOUS
  <2>2. /\ step' = [step EXCEPT ![p] = "sync"] /\ "sync" \in Working /\ step[p] = "init"
        /\ fetchers' = [fetchers EXCEPT ![c] = Append(fetchers[c], f)] /\ UNCHANGED <<status, ctx>>
    BY <1>2, <1>10, <2>1 DEF Initialize, Goto, Working
  <2>3. PICK s \in Seq(Goroutines) : s = fetchers[c]
    BY DEF FInv, Types
  <2>4. f \in Goroutines /\ ~f.live
    BY <2>1 DEF Goroutines
  <2>5. PICK t \in Seq(Goroutines) : /\ t = Append(s, f) /\ DOMAIN t = 1..Len(s) + 1
                                     /\ DOMAIN s = 1..Len(s) /\ Len(s) \in Nat
                                     /\ \A k \in 1..Len(s) : t[k] = s[k]
                                     /\ t[Len(s) + 1] = f
    <3>1. /\ Append(s, f) \in Seq(Goroutines) /\ Len(Append(s, f)) = Len(s) + 1
          /\ Append(s, f)[Len(s) + 1] = f
          /\ \A k \in 1..Len(s) : Append(s, f)[k] = s[k]
      BY <2>4, AppendProperties
    <3>2. Len(s) \in Nat /\ DOMAIN s = 1..Len(s) /\ DOMAIN Append(s, f) = 1..Len(Append(s, f))
      BY <3>1, LenProperties
    <3> QED
      BY <3>1, <3>2
  <2>6. /\ fetchers'[c] = t /\ \A d \in Chains : d # c => fetchers'[d] = fetchers[d]
        /\ ctx' \in [Chains -> Contexts] /\ fetchers' \in [Chains -> Seq(Goroutines)]
    BY <2>2, <2>3, <2>5 DEF FInv, Types
  <2>7. \A k \in DOMAIN t : (k \in DOMAIN s /\ t[k] = s[k]) \/ (k = Len(s) + 1 /\ t[k] = f)
    BY <2>5
  <2>8. ContextsDerived'
    <3>1. \A q : Derived(q) => Derived(q)'
      BY <1>3, <2>2, DerivedKept DEF FInv
    <3> QED
      BY <2>2, <2>3, <2>4, <2>6, <2>7, <3>1 DEF FInv, Types, ContextsDerived
  <2>9. \A d \in Chains : d # c => Alive(d)' = Alive(d)
    BY <2>6 DEF Alive
  <2>10. Alive(c) = {} => \A j, k \in Alive(c)' : j = k
    BY <2>3, <2>6, <2>7 DEF Alive
  <2>11. ~overlap'[c] /\ ChainOK(c) =>
            /\ \A j, k \in Alive(c)' : j = k
            /\ status'[c] \in {"registered", "stopped", "error"} => Alive(c)' = {}
            /\ status'[c] = "stopping" => "sync" \in {"cancel", "wait", "close"}
            /\ CallerOK(p, c)'
    <3>1. ~overlap'[c] /\ ChainOK(c) => status[c] \in {"starting", "active"} /\ Alive(c) = {}
      BY <1>7, <2>2 DEF CallerOK
    <3>2. CallerOK(p, c)'
      BY <1>3, <1>6, <2>2 DEF CallerOK
    <3> QED
      BY <2>2, <2>10, <3>1, <3>2
  <2>12. /\ status' \in [Chains -> {"registered", "starting", "syncing", "active", "stopping",
                                    "stopped", "error"}]
         /\ \A d \in Chains : d # c => status'[d] = status[d] /\ Alive(d)' = Alive(d)
    BY <1>5, <2>2, <2>9
  <2>13. step' = [step EXCEPT ![p] = "sync"] /\ "sync" \in Working
    BY <2>2
  <2> QED
    BY <1>2, <1>3, <1>4, <2>6, <2>8, <2>11, <2>12, <2>13, WorkKeeps
<1>11. CASE InitializeFails(p)
  <2>1. /\ step' = [step EXCEPT ![p] = "return"] /\ "return" \in Working /\ step[p] = "init"
        /\ status' = [status EXCEPT ![c] = "error"] /\ UNCHANGED <<managed, ctx, fetchers>>
    BY <1>2, <1>11 DEF InitializeFails, Goto, Working
  <2>2. /\ ContextsDerived' /\ \A d \in Chains : Alive(d)' = Alive(d)
        /\ ctx' \in [Chains -> Contexts] /\ fetchers' \in [Chains -> Seq(Goroutines)]
    BY <2>1, ContextsKept
  <2>3. status'[c] = "error" /\ \A d \in Chains : d # c => status'[d] = status[d]
    BY <1>5, <2>1
  <2>4. ~overlap'[c] /\ ChainOK(c) =>
            /\ \A j, k \in Alive(c)' : j = k
            /\ status'[c] \in {"registered", "stopped", "error"} => Alive(c)' = {}
            /\ status'[c] = "stopping" => "return" \in {"cancel", "wait", "close"}
            /\ CallerOK(p, c)'
    <3>1. ~overlap'[c] /\ ChainOK(c) => Alive(c) = {}
      BY <1>7, <2>1 DEF CallerOK
    <3>2. CallerOK(p, c)'
      BY <1>3, <1>6, <2>1 DEF CallerOK
    <3> QED
      BY <2>2, <2>3, <3>1, <3>2
  <2> QED
    BY <1>2, <1>3, <1>4, <1>5, <2>1, <2>2, <2>3, <2>4, WorkKeeps
<1>12. CASE SetSyncing(p)
  <2>1. /\ step' = [step EXCEPT ![p] = "return"] /\ "return" \in Working /\ step[p] = "sync"
        /\ status' = [status EXCEPT ![c] = "syncing"] /\ UNCHANGED <<managed, ctx, fetchers>>
    BY <1>2, <1>12 DEF SetSyncing, Goto, Working
  <2>2. /\ ContextsDerived' /\ \A d \in Chains : Alive(d)' = Alive(d)
        /\ ctx' \in [Chains -> Contexts] /\ fetchers' \in [Chains -> Seq(Goroutines)]
    BY <2>1, ContextsKept
  <2>3. status'[c] = "syncing" /\ \A d \in Chains : d # c => status'[d] = status[d]
    BY <1>5, <2>1
  <2>4. CallerOK(p, c)'
    BY <1>3, <1>6, <2>1 DEF CallerOK
  <2>5. ~overlap'[c] /\ ChainOK(c) =>
            /\ \A j, k \in Alive(c)' : j = k
            /\ status'[c] \in {"registered", "stopped", "error"} => Alive(c)' = {}
            /\ status'[c] = "stopping" => "return" \in {"cancel", "wait", "close"}
            /\ CallerOK(p, c)'
    BY <2>2, <2>3, <2>4 DEF ChainOK
  <2> QED
    BY <1>2, <1>3, <1>4, <1>5, <2>1, <2>2, <2>3, <2>5, WorkKeeps
<1> QED
  BY <1>8, <1>9, <1>10, <1>11, <1>12

\* Where Stop goes on: the manager's own Stop starts and removes nothing.
LEMMA AfterStopFacts ==
  ASSUME CallersApart, Types, NEW p \in Callers
  PROVE  /\ AfterStop(p) \in {"start", "remove", "return"} /\ AfterStop(p) \in Working
         /\ p = "shutdown" => AfterStop(p) = "return"
BY DEF AfterStop, Working, Types, CallersApart, Loops

\* The steps of ChainInstance.Stop.
LEMMA StopKeeps ==
  ASSUME CallersApart, FInv, NEW p \in Callers, UNCHANGED removing, StopStep(p)
  PROVE  FInv'
<1>1. step[p] \in {"stop", "cancel", "wait", "close"}
  BY DEF StopStep, CheckStop, CancelContext, Wait, WaitTimesOut, SetStopped
<1>2. PICK c \in Chains : c = target[p]
  BY <1>1 DEF FInv, Callings, Working
<1>3. /\ UNCHANGED <<running, managed, registry, target, todo, removing>>
      /\ step[p] # "return"
  BY <1>1 DEF StopStep, CheckStop, CancelContext, Wait, WaitTimesOut, SetStopped
<1>4. overlap' \in [Chains -> BOOLEAN] /\ \A d \in Chains : overlap[d] => overlap'[d]
  BY <1>2 DEF FInv, Types, StopStep, CheckStop, CancelContext, Wait, WaitTimesOut, SetStopped
<1>5. status \in [Chains -> {"registered", "starting", "syncing", "active", "stopping",
                             "stopped", "error"}]
  BY DEF FInv, Types
<1>6. \A q \in Callers : \A v : step' = [step EXCEPT ![q] = v] => step'[q] = v
  BY DEF FInv, Types
<1>7. ChainOK(c) => CallerOK(p, c)
  BY <1>2 DEF ChainOK
<1>8. /\ AfterStop(p) \in {"start", "remove", "return"} /\ AfterStop(p) \in Working
      /\ p = "shutdown" => AfterStop(p) = "return"
  BY AfterStopFacts DEF FInv
<1>9. ASSUME UNCHANGED <<ctx, fetchers>>, NEW v \in Working, step' = [step EXCEPT ![p] = v]
      PROVE  /\ ContextsDerived' /\ \A d \in Chains : Alive(d)' = Alive(d)
             /\ ctx' \in [Chains -> Contexts] /\ fetchers' \in [Chains -> Seq(Goroutines)]
  BY <1>3, <1>9, ContextsKept
<1>10. ASSUME NEW v \in {"start", "remove", "return"}, p = "shutdown" => v = "return", v \in Working,
              UNCHANGED <<ctx, fetchers>>, step' = [step EXCEPT ![p] = v],
              \/ status' = status \/ status' = [status EXCEPT ![c] = "stopped"],
              ChainOK(c) => Alive(c) = {} /\ status'[c] = "stopped"
       PROVE  FInv'
  <2>1. /\ ContextsDerived' /\ \A d \in Chains : Alive(d)' = Alive(d)
        /\ ctx' \in [Chains -> Contexts] /\ fetchers' \in [Chains -> Seq(Goroutines)]
    BY <1>9, <1>10
  <2>2. /\ status' \in [Chains -> {"registered", "starting", "syncing", "active", "stopping",
                                    "stopped", "error"}]
        /\ \A d \in Chains : d # c => status'[d] = status[d] /\ Alive(d)' = Alive(d)
    BY <1>5, <1>10, <2>1
  <2>3. ChainOK(c) => CallerOK(p, c)'
    BY <1>6, <1>10, <2>1 DEF CallerOK
  <2>4. ~overlap'[c] /\ ChainOK(c) =>
            /\ \A j, k \in Alive(c)' : j = k
            /\ status'[c] \in {"registered", "stopped", "error"} => Alive(c)' = {}
            /\ status'[c] = "stopping" => v \in {"cancel", "wait", "close"}
            /\ CallerOK(p, c)'
    BY <1>10, <2>1, <2>3
  <2>5. p = "shutdown" => v \notin {"start", "context", "init", "sync", "remove"}
    BY <1>10
  <2> QED
    BY <1>2, <1>3, <1>4, <1>10, <2>1, <2>2, <2>4, <2>5, WorkKeeps
<1>11. CASE CheckStop(p)
  <2>1. CASE status[c] \in {"stopped", "stopping"} /\ Goto(p, AfterStop(p)) /\ UNCHANGED status
    <3>1. ChainOK(c) => Alive(c) = {} /\ status'[c] = "stopped"
      <4>1. step[p] = "stop"
        BY <1>11 DEF CheckStop
      <4>2. ChainOK(c) => status[c] # "stopping"
        BY <1>2, <4>1 DEF ChainOK
      <4> QED
        BY <2>1, <4>2 DEF ChainOK
    <3> QED
      BY <1>8, <1>10, <1>11, <2>1, <3>1 DEF CheckStop, Goto
  <2>2. CASE /\ status[c] \notin {"stopped", "stopping"} /\ Goto(p, "cancel")
             /\ status' = [status EXCEPT ![c] = "stopping"]
    <3>1. step' = [step EXCEPT ![p] = "cancel"] /\ "cancel" \in Working
          /\ UNCHANGED <<ctx, fetchers>>
      BY <1>11, <2>2 DEF Goto, Working, CheckStop
    <3>2. /\ ContextsDerived' /\ \A d \in Chains : Alive(d)' = Alive(d)
          /\ ctx' \in [Chains -> Contexts] /\ fetchers' \in [Chains -> Seq(Goroutines)]
      BY <1>9, <3>1
    <3>3. /\ status' \in [Chains -> {"registered", "starting", "syncing", "active", "stopping",
                                      "stopped", "error"}]
          /\ \A d \in Chains : d # c => status'[d] = status[d] /\ Alive(d)' = Alive(d)
          /\ status'[c] = "stopping"
      BY <1>5, <2>2, <3>2
    <3>4. CallerOK(p, c)'
      BY <1>6, <3>1 DEF CallerOK
    <3>5. ~overlap'[c] /\ ChainOK(c) =>
            /\ \A j, k \in Alive(c)' : j = k
            /\ status'[c] \in {"registered", "stopped", "error"} => Alive(c)' = {}
            /\ status'[c] = "stopping" => "cancel" \in {"cancel", "wait", "close"}
            /\ CallerOK(p, c)'
      BY <3>2, <3>3, <3>4 DEF ChainOK
    <3> QED
      BY <1>2, <1>3, <1>4, <3>1, <3>2, <3>3, <3>5, WorkKeeps
  <2> QED
    BY <1>2, <1>11, <2>1, <2>2 DEF CheckStop
<1>12. CASE CancelContext(p)
  <2>1. /\ step' = [step EXCEPT ![p] = "wait"] /\ "wait" \in Working /\ status' = status
        /\ End({ctx[c].by}, {c})
    BY <1>2, <1>12 DEF CancelContext, Goto, Working
  <2>2. /\ ctx' \in [Chains -> Contexts] /\ fetchers' \in [Chains -> Seq(Goroutines)]
        /\ \A d \in Chains :
              /\ Alive(d)' = Alive(d) /\ DOMAIN fetchers'[d] = DOMAIN fetchers[d]
              /\ ctx'[d].by = ctx[d].by /\ (ctx'[d].live => ctx[d].live)
              /\ \A k \in DOMAIN fetchers[d] :
                    /\ fetchers'[d][k].by = fetchers[d][k].by
                    /\ fetchers'[d][k].live => fetchers[d][k].live
    BY <2>1, EndFacts DEF FInv
  <2>3. ContextsDerived'
    <3>1. \A q : Derived(q) => Derived(q)'
      BY <1>3, <2>1, DerivedKept DEF FInv
    <3>2. ASSUME NEW d \in Chains, ctx'[d].live PROVE Derived(ctx[d].by)'
      <4>1. ctx'[d].by = ctx[d].by /\ Derived(ctx[d].by)
        BY <2>2, <3>2 DEF FInv, ContextsDerived
      <4> QED
        BY <3>1, <4>1 DEF Derived
    <3>3. ASSUME NEW d \in Chains, NEW k \in DOMAIN fetchers'[d], fetchers'[d][k].live
          PROVE  Derived(fetchers[d][k].by)'
      <4>1. fetchers'[d][k].by = fetchers[d][k].by /\ Derived(fetchers[d][k].by)
        BY <2>2, <3>3 DEF FInv, ContextsDerived
      <4> QED
        BY <3>1, <4>1 DEF Derived
    <3> QED
      BY <3>2, <3>3 DEF ContextsDerived
  <2>4. /\ status' \in [Chains -> {"registered", "starting", "syncing", "active", "stopping",
                                    "stopped", "error"}]
        /\ \A d \in Chains : d # c => status'[d] = status[d] /\ Alive(d)' = Alive(d)
    BY <1>5, <2>1, <2>2
  <2>5. CallerOK(p, c)'
    BY <1>6, <2>1 DEF CallerOK
  <2>6. ~overlap'[c] /\ ChainOK(c) =>
            /\ \A j, k \in Alive(c)' : j = k
            /\ status'[c] \in {"registered", "stopped", "error"} => Alive(c)' = {}
            /\ status'[c] = "stopping" => "wait" \in {"cancel", "wait", "close"}
            /\ CallerOK(p, c)'
    BY <2>1, <2>2, <2>5 DEF ChainOK
  <2>7. ctx' \in [Chains -> Contexts] /\ fetchers' \in [Chains -> Seq(Goroutines)]
    BY <2>2
  <2>8. step' = [step EXCEPT ![p] = "wait"] /\ "wait" \in Working
    BY <2>1
  <2> QED
    BY <1>2, <1>3, <1>4, <2>3, <2>4, <2>6, <2>7, <2>8, WorkKeeps
<1>13. CASE Wait(p) \/ WaitTimesOut(p)
  <2>1. /\ step' = [step EXCEPT ![p] = "close"] /\ "close" \in Working
        /\ UNCHANGED <<status, ctx, fetchers>>
    BY <1>13 DEF Wait, WaitTimesOut, Goto, Working
  <2>2. /\ ContextsDerived' /\ \A d \in Chains : Alive(d)' = Alive(d)
        /\ ctx' \in [Chains -> Contexts] /\ fetchers' \in [Chains -> Seq(Goroutines)]
    BY <1>9, <2>1
  <2>3. overlap'[c] \/ Alive(c) = {}
    <3>1. CASE Wait(p)
      BY <1>2, <3>1 DEF Wait, WaitedFor
    <3>2. CASE WaitTimesOut(p)
      BY <1>2, <3>2 DEF WaitTimesOut, FInv, Types
    <3> QED
      BY <1>13, <3>1, <3>2
  <2>4. /\ status' \in [Chains -> {"registered", "starting", "syncing", "active", "stopping",
                                    "stopped", "error"}]
        /\ \A d \in Chains : d # c => status'[d] = status[d] /\ Alive(d)' = Alive(d)
    BY <1>5, <2>1, <2>2
  <2>5. Alive(c) = {} => CallerOK(p, c)'
    BY <1>6, <2>1, <2>2 DEF CallerOK
  <2>6. ~overlap'[c] /\ ChainOK(c) =>
            /\ \A j, k \in Alive(c)' : j = k
            /\ status'[c] \in {"registered", "stopped", "error"} => Alive(c)' = {}
            /\ status'[c] = "stopping" => "close" \in {"cancel", "wait", "close"}
            /\ CallerOK(p, c)'
    BY <2>1, <2>2, <2>3, <2>5
  <2>7. step' = [step EXCEPT ![p] = "close"] /\ "close" \in Working
    BY <2>1
  <2> QED
    BY <1>2, <1>3, <1>4, <2>2, <2>4, <2>6, <2>7, WorkKeeps
<1>14. CASE SetStopped(p)
  <2>1. /\ step' = [step EXCEPT ![p] = AfterStop(p)] /\ step[p] = "close"
        /\ status' = [status EXCEPT ![c] = "stopped"] /\ UNCHANGED <<ctx, fetchers>>
    BY <1>2, <1>14 DEF SetStopped, Goto
  <2>2. ChainOK(c) => Alive(c) = {} /\ status'[c] = "stopped"
    BY <1>5, <1>7, <2>1 DEF CallerOK
  <2> QED
    BY <1>8, <1>10, <2>1, <2>2
<1> QED
  BY <1>11, <1>12, <1>13, <1>14 DEF StopStep

\* Leaving a chain: nothing starts on it any more, and a context that the
\* caller alone kept alive has ended.
LEMMA ReturnKeeps ==
  ASSUME CallersApart, FInv, NEW p \in Callers, UNCHANGED removing, ReturnFromStart(p)
  PROVE  FInv'
<1>1. PICK c \in Chains : c = target[p]
  BY DEF ReturnFromStart, FInv, Callings, Working
<1>2. PICK v \in {"loop", "done"} : /\ step' = [step EXCEPT ![p] = v]
                                    /\ p = "shutdown" => v = "loop"
                                    /\ p \notin Requests => v = "loop"
  BY DEF ReturnFromStart, Leave, Goto, CallersApart, Loops
<1>3. /\ step[p] = "return" /\ target' = [target EXCEPT ![p] = NoChain]
      /\ End({p} \ {"run"}, Chains)
      /\ UNCHANGED <<running, managed, registry, status, todo, overlap, removing>>
  BY DEF ReturnFromStart, Leave
<1>4. /\ Callings'
      /\ step' \in [Callers -> Working \cup {"idle", "loop", "done"}]
      /\ target' \in [Callers -> Chains \cup {NoChain}]
  BY <1>1, <1>2, <1>3, CallingsKept DEF FInv
<1>5. /\ ctx' \in [Chains -> Contexts] /\ fetchers' \in [Chains -> Seq(Goroutines)]
      /\ \A d \in Chains :
            /\ Alive(d)' = Alive(d) /\ DOMAIN fetchers'[d] = DOMAIN fetchers[d]
            /\ ctx'[d].by = ctx[d].by
            /\ ctx'[d].live => ctx[d].live /\ ctx[d].by \notin {p} \ {"run"}
            /\ \A k \in DOMAIN fetchers[d] :
                  /\ fetchers'[d][k].by = fetchers[d][k].by
                  /\ fetchers'[d][k].live =>
                        fetchers[d][k].live /\ fetchers[d][k].by \notin {p} \ {"run"}
  BY <1>3, EndFacts DEF FInv
<1>6. Types'
  BY <1>3, <1>4, <1>5 DEF FInv, Types
<1>7. \A q \in Callers : /\ step'[q] = IF q = p THEN v ELSE step[q]
                         /\ target'[q] = IF q = p THEN NoChain ELSE target[q]
  BY <1>2, <1>3 DEF FInv, Types
<1>8. ContextsDerived'
  <2>1. \A q : Derived(q) /\ q \notin {p} \ {"run"} => Derived(q)'
    BY <1>3, <1>7 DEF Derived, CallersApart, Callers, Loops
  <2>2. ASSUME NEW d \in Chains, ctx'[d].live PROVE Derived(ctx[d].by)'
    <3>1. ctx'[d].by = ctx[d].by /\ Derived(ctx[d].by) /\ ctx[d].by \notin {p} \ {"run"}
      BY <1>5, <2>2 DEF FInv, ContextsDerived
    <3> QED
      BY <2>1, <3>1 DEF Derived
  <2>3. ASSUME NEW d \in Chains, NEW k \in DOMAIN fetchers'[d], fetchers'[d][k].live
        PROVE  Derived(fetchers[d][k].by)'
    <3>1. /\ fetchers'[d][k].by = fetchers[d][k].by /\ Derived(fetchers[d][k].by)
          /\ fetchers[d][k].by \notin {p} \ {"run"}
      BY <1>5, <2>3 DEF FInv, ContextsDerived
    <3> QED
      BY <2>1, <3>1 DEF Derived
  <2> QED
    BY <2>2, <2>3 DEF ContextsDerived
<1>9. ASSUME NEW d \in Chains, ~overlap'[d] PROVE ChainOK(d)'
  <2>1. ChainOK(d) /\ Alive(d)' = Alive(d) /\ status'[d] = status[d]
    BY <1>3, <1>5, <1>9 DEF FInv
  <2>2. CASE d # c
    <3>1. Untouched(d)
      BY <1>1, <1>2, <1>3, <2>1, <2>2, OthersUntouched
    <3> QED
      BY <2>1, <3>1, Frame
  <2>3. CASE d = c
    <3>1. \A q \in Callers : target'[q] # c
      BY <1>1, <1>7, <2>1, <2>3 DEF ChainOK, CallersApart
    <3>2. status[c] # "stopping"
      BY <1>1, <1>3, <2>1, <2>3 DEF ChainOK
    <3>3. Alive(c) = {} => Left(c)'
      BY <2>1, <2>3, <3>1 DEF Left
    <3>4. p = "shutdown" => Alive(c) = {}
      BY <1>1, <1>3, <2>1, <2>3 DEF ChainOK, CallerOK
    <3>5. p # "shutdown" => step'["shutdown"] = step["shutdown"] /\ target'["shutdown"] = target["shutdown"]
      BY <1>7 DEF Callers, Loops
    <3>6. step'["shutdown"] # "idle" /\ c \notin todo'["shutdown"] /\ target'["shutdown"] # c
            => Alive(c) = {}
      BY <1>3, <2>1, <2>3, <3>4, <3>5 DEF ChainOK, Left
    <3>7. c \notin registry' => Alive(c) = {}
      BY <1>3, <2>1, <2>3 DEF ChainOK, Left
    <3> QED
      BY <2>1, <2>3, <3>1, <3>2, <3>3, <3>6, <3>7 DEF ChainOK
  <2> QED
    BY <2>2, <2>3
<1> QED
  BY <1>4, <1>6, <1>8, <1>9 DEF FInv

\* Manager.UnregisterChain takes the chain out of the registry once it has stopped.
LEMMA RemoveKeeps ==
  ASSUME CallersApart, FInv, NEW r \in Requests, RemoveChain(r)
  PROVE  FInv'
<1>1. r \in Callers /\ r # "shutdown"
  BY DEF Callers, Loops, CallersApart
<1>2. PICK c \in Chains : c = target[r]
  BY <1>1 DEF RemoveChain, FInv, Callings, Working
<1>3. /\ step[r] = "remove" /\ step' = [step EXCEPT ![r] = "return"] /\ "return" \in Working
      /\ registry' = registry \ {c} /\ removing' \subseteq removing
      /\ UNCHANGED <<running, managed, status, ctx, fetchers, target, todo, overlap>>
  BY <1>2 DEF RemoveChain, Goto, Working
<1>4. /\ Callings'
      /\ step' \in [Callers -> Working \cup {"idle", "loop", "done"}]
      /\ target' \in [Callers -> Chains \cup {NoChain}]
  BY <1>1, <1>2, <1>3, CallingsKept DEF FInv
<1>5. /\ ContextsDerived' /\ \A d \in Chains : Alive(d)' = Alive(d)
      /\ ctx' \in [Chains -> Contexts] /\ fetchers' \in [Chains -> Seq(Goroutines)]
  BY <1>1, <1>3, ContextsKept
<1>6. Types'
  BY <1>3, <1>4, <1>5 DEF FInv, Types
<1>7. \A q \in Callers : step'[q] = IF q = r THEN "return" ELSE step[q]
  BY <1>3 DEF FInv, Types
<1>8. ASSUME NEW d \in Chains, ~overlap'[d] PROVE ChainOK(d)'
  <2>1. ChainOK(d) /\ Alive(d)' = Alive(d) /\ status'[d] = status[d]
    BY <1>3, <1>5, <1>8 DEF FInv
  <2>2. CASE d # c
    <3>1. Untouched(d)
      BY <1>1, <1>2, <1>3, <2>1, <2>2, OthersUntouched
    <3> QED
      BY <2>1, <3>1, Frame
  <2>3. CASE d = c
    <3>1. Alive(c) = {} /\ status[c] # "stopping" /\ \A q \in Callers : target[q] = c => q = r
      BY <1>1, <1>2, <1>3, <2>1, <2>3 DEF ChainOK, CallerOK
    <3>2. Alive(c)' = {} /\ \A q \in Callers : target'[q] = c => q = r /\ step'[q] = "return"
      BY <1>3, <1>7, <2>1, <2>3, <3>1
    <3>3. Left(c)' /\ CallerOK(r, c)'
      BY <1>1, <1>7, <3>2 DEF Left, CallerOK
    <3> QED
      BY <2>1, <2>3, <3>1, <3>2, <3>3 DEF ChainOK
  <2> QED
    BY <2>2, <2>3
<1> QED
  BY <1>4, <1>5, <1>6, <1>8 DEF FInv

-----------------------------------------------------------------------------
(* Entering a chain, and the steps of the manager between two chains.       *)

\* A caller that begins an operation: unless it overlaps another, nobody works
\* on the chain and the manager has not given it up.
LEMMA EnterKeeps ==
  ASSUME CallersApart, FInv, NEW p \in Callers, target[p] \notin Chains, NEW c \in Chains,
         NEW v \in {"start", "stop", "remove"}, Enter(p, c, v),
         p \in Loops => step[p] = "loop",
         p = "shutdown" => v = "stop" /\ c \in todo["shutdown"],
         v = "remove" => status[c] \in {"stopped", "registered"},
         UNCHANGED <<running, managed, status, ctx, fetchers>>,
         removing' \subseteq Requests, todo' \in [Loops -> SUBSET Chains],
         \/ todo'["shutdown"] = todo["shutdown"]
         \/ p = "shutdown" /\ todo'["shutdown"] = todo["shutdown"] \ {c},
         \/ registry' = registry
         \/ p = "run" /\ registry' = registry \cup {c},
         p = "run" => c \in registry'
  PROVE  FInv'
<1>1. /\ v \in Working /\ v \notin {"idle", "done", "loop"}
      /\ "shutdown" \in Callers /\ "run" \in Callers /\ "monitor" \in Callers
      /\ p \in {"run", "monitor", "shutdown"} => step[p] = "loop"
  BY DEF Working, Callers, Loops
<1>2. /\ step' = [step EXCEPT ![p] = v] /\ target' = [target EXCEPT ![p] = c]
      /\ overlap' \in [Chains -> BOOLEAN]
      /\ \A d \in Chains : overlap[d] => overlap'[d]
      /\ ~overlap'[c] => /\ p = "shutdown" \/ running
                         /\ p = "run" \/ c \in registry
                         /\ \A q \in Callers : q # p => target[q] # c
  BY DEF Enter, Goto, FInv, Types
<1>3. \A q \in Callers : /\ step'[q] = IF q = p THEN v ELSE step[q]
                         /\ target'[q] = IF q = p THEN c ELSE target[q]
  BY <1>2 DEF FInv, Types
<1>4. /\ step' \in [Callers -> Working \cup {"idle", "loop", "done"}]
      /\ target' \in [Callers -> Chains \cup {NoChain}]
  BY <1>1, <1>2 DEF FInv, Types
<1>5. /\ ContextsDerived' /\ \A d \in Chains : Alive(d)' = Alive(d)
      /\ ctx' \in [Chains -> Contexts] /\ fetchers' \in [Chains -> Seq(Goroutines)]
  BY <1>1, <1>2, ContextsKept
<1>6. Types'
  BY <1>2, <1>4, <1>5 DEF FInv, Types
<1>7. Callings'
  <2>1. \A q \in Callers : target'[q] \in Chains <=> step'[q] \in Working
    BY <1>1, <1>3 DEF FInv, Callings
  <2>2. step'["shutdown"] \notin {"start", "context", "init", "sync", "remove"}
    BY <1>1, <1>3 DEF FInv, Callings
  <2>3. running' => step'["run"] # "idle"
    BY <1>1, <1>3 DEF FInv, Callings
  <2>4. step'["shutdown"] # "idle" => ~running' /\ managed' = "cancelled" /\ step'["run"] # "idle"
    BY <1>1, <1>3 DEF FInv, Callings
  <2>5. step'["shutdown"] = "done" => todo'["shutdown"] = {}
    BY <1>1, <1>3 DEF FInv, Callings
  <2>6. step'["run"] # "done" => step'["monitor"] = "idle"
    BY <1>1, <1>3 DEF FInv, Callings
  <2> QED
    BY <2>1, <2>2, <2>3, <2>4, <2>5, <2>6 DEF Callings
<1>8. ASSUME NEW d \in Chains, ~overlap'[d] PROVE ChainOK(d)'
  <2>1. ChainOK(d) /\ Alive(d)' = Alive(d) /\ status'[d] = status[d]
    BY <1>2, <1>5, <1>8 DEF FInv
  <2>2. CASE d # c
    <3>1. \A q \in Callers : /\ target'[q] = d <=> target[q] = d
                             /\ target[q] = d => step'[q] = step[q]
      BY <1>3, <2>2
    <3>2. step'["shutdown"] = "idle" <=> step["shutdown"] = "idle"
      BY <1>1, <1>3
    <3>3. d \in registry' <=> d \in registry
      BY <2>2
    <3>4. d \in todo'["shutdown"] <=> d \in todo["shutdown"]
      BY <2>2
    <3>5. Untouched(d)
      BY <2>1, <3>1, <3>2, <3>3, <3>4 DEF Untouched
    <3> QED
      BY <2>1, <3>5, Frame
  <2>3. CASE d = c
    <3>1. /\ \A q \in Callers : target[q] # c
          /\ \A q \in Callers : target'[q] = c => q = p /\ step'[q] = v
      BY <1>2, <1>3, <1>8, <2>3
    <3>2. status[c] # "stopping"
      BY <2>1, <2>3, <3>1 DEF ChainOK
    <3>3. v = "remove" => Alive(c) = {}
      BY <2>1, <2>3 DEF ChainOK
    <3>4. CallerOK(p, c)'
      BY <1>3, <2>1, <2>3, <3>3 DEF CallerOK
    <3>5. c \in registry'
      BY <1>2, <1>8, <2>3
    <3>6. ~(step'["shutdown"] # "idle" /\ target'["shutdown"] # c)
      BY <1>1, <1>2, <1>3, <1>8, <2>3 DEF FInv, Callings
    <3> QED
      BY <2>1, <2>3, <3>1, <3>2, <3>4, <3>5, <3>6 DEF ChainOK
  <2> QED
    BY <2>2, <2>3
<1> QED
  BY <1>5, <1>6, <1>7, <1>8 DEF FInv

\* A step that leaves the chains, their contexts and their goroutines alone.
LEMMA StillDerived ==
  ASSUME FInv, UNCHANGED <<ctx, fetchers>>, \A q : Derived(q) => Derived(q)'
  PROVE  ContextsDerived' /\ \A d \in Chains : Alive(d)' = Alive(d)
<1>1. \A d \in Chains : Alive(d)' = Alive(d)
  BY DEF Alive
<1>2. ASSUME NEW d \in Chains, ctx'[d].live PROVE Derived(ctx[d].by)'
  <2>1. ctx' = ctx /\ Derived(ctx[d].by)
    BY <1>2 DEF FInv, ContextsDerived
  <2> QED
    BY <2>1 DEF Derived
<1>3. ASSUME NEW d \in Chains, NEW k \in DOMAIN fetchers'[d], fetchers'[d][k].live
      PROVE  Derived(fetchers[d][k].by)'
  <2>1. fetchers' = fetchers /\ Derived(fetchers[d][k].by)
    BY <1>3 DEF FInv, ContextsDerived
  <2> QED
    BY <2>1 DEF Derived
<1> QED
  BY <1>1, <1>2, <1>3 DEF ContextsDerived

\* A step of a caller between two chains.
LEMMA QuietKeeps ==
  ASSUME CallersApart, FInv, UNCHANGED <<registry, status, ctx, fetchers, target, removing>>,
         running' \in BOOLEAN, managed' \in {"none", "live", "cancelled"},
         step' \in [Callers -> Working \cup {"idle", "loop", "done"}],
         todo' \in [Loops -> SUBSET Chains], overlap' \in [Chains -> BOOLEAN],
         \A d \in Chains : overlap[d] => overlap'[d],
         Callings', \A q : Derived(q) => Derived(q)',
         \A q \in Callers : target[q] \in Chains => step'[q] = step[q],
         step'["shutdown"] = "idle" <=> step["shutdown"] = "idle",
         todo'["shutdown"] = todo["shutdown"]
  PROVE  FInv'
<1>1. Types'
  BY DEF FInv, Types
<1>2. ContextsDerived' /\ \A d \in Chains : Alive(d)' = Alive(d)
  BY StillDerived
<1>3. ASSUME NEW d \in Chains, ~overlap'[d] PROVE ChainOK(d)'
  <2>1. ChainOK(d)
    BY <1>3 DEF FInv
  <2>2. Untouched(d)
    BY <1>2 DEF Untouched
  <2> QED
    BY <2>1, <2>2, Frame
<1> QED
  BY <1>1, <1>2, <1>3 DEF FInv

\* A request for a chain that is not registered is over at once; any other
\* enters its chain.
LEMMA RequestKeeps ==
  ASSUME CallersApart, FInv, \E q \in Requests : step[q] = "idle",
         NEW r \in Requests, NEW op \in Operations, NEW c \in Chains, Request(r, op, c)
  PROVE  FInv'
<1>1. r \in Callers /\ r \notin Loops /\ step[r] = "idle"
  BY DEF Request, Callers, CallersApart
<1>2. target[r] \notin Chains
  BY <1>1 DEF FInv, Callings, Working
<1>3. UNCHANGED <<running, managed, registry, status, ctx, fetchers, todo>>
  BY DEF Request
<1>4. CASE c \in registry
  <2>1. PICK v : /\ v = IF op # "unregister" THEN op
                        ELSE IF status[c] \in {"stopped", "registered"} THEN "remove" ELSE "stop"
                 /\ Enter(r, c, v) /\ removing' \subseteq removing \cup {r}
    BY <1>4 DEF Request
  <2>2. /\ v \in {"start", "stop", "remove"}
        /\ v = "remove" => status[c] \in {"stopped", "registered"}
    BY <2>1 DEF Operations
  <2>3. r # "shutdown" /\ r # "run"
    BY <1>1 DEF Loops
  <2>4. removing' \subseteq Requests /\ todo' \in [Loops -> SUBSET Chains]
    BY <1>3, <2>1 DEF FInv, Types
  <2>5. Enter(r, c, v)
    BY <2>1
  <2> QED
    BY <1>1, <1>2, <1>3, <2>2, <2>3, <2>4, <2>5, EnterKeeps
<1>5. CASE c \notin registry
  <2>1. step' = [step EXCEPT ![r] = "done"] /\ UNCHANGED <<target, overlap, removing>>
    BY <1>5 DEF Request, Goto
  <2>2. /\ \A q \in Callers : step'[q] = IF q = r THEN "done" ELSE step[q]
        /\ step' \in [Callers -> Working \cup {"idle", "loop", "done"}]
    BY <2>1 DEF FInv, Types
  <2>3. {"run", "monitor", "shutdown"} \subseteq Callers /\ r \notin {"run", "monitor", "shutdown"}
    BY <1>1 DEF Callers, Loops
  <2>4. /\ step'["run"] = step["run"] /\ step'["monitor"] = step["monitor"]
        /\ step'["shutdown"] = step["shutdown"]
    BY <2>2, <2>3
  <2>5. \A q \in Callers : target'[q] \in Chains <=> step'[q] \in Working
    BY <1>2, <2>1, <2>2 DEF FInv, Callings, Working
  <2>6. Callings'
    BY <1>3, <2>4, <2>5 DEF FInv, Callings
  <2>7. \A q : Derived(q) => Derived(q)'
    BY <1>1, <1>3, <2>2 DEF Derived, Callers
  <2>8. /\ running' \in BOOLEAN /\ managed' \in {"none", "live", "cancelled"}
        /\ todo' \in [Loops -> SUBSET Chains] /\ overlap' \in [Chains -> BOOLEAN]
        /\ \A d \in Chains : overlap[d] => overlap'[d]
    BY <1>3, <2>1 DEF FInv, Types
  <2>9. \A q \in Callers : target[q] \in Chains => step'[q] = step[q]
    BY <1>2, <2>2
  <2> QED
    BY <1>3, <2>1, <2>2, <2>4, <2>6, <2>7, <2>8, <2>9, QuietKeeps
<1> QED
  BY <1>4, <1>5

\* The loops of the manager: the steps at which one enters a chain.
LEMMA LoopEnters ==
  ASSUME CallersApart, FInv, UNCHANGED removing,
         \/ RegisterChain
         \/ StopNext
         \/ MonitorRestarts /\ step' # step
  PROVE  FInv'
<1>1. "run" \in Callers /\ "monitor" \in Callers /\ "shutdown" \in Callers
  BY DEF Callers, Loops
<1>2. \A q \in Callers : step[q] = "loop" => target[q] \notin Chains
  BY DEF FInv, Callings, Working
<1>3. todo \in [Loops -> SUBSET Chains] /\ removing' \subseteq Requests
  BY DEF FInv, Types
<1>4. CASE RegisterChain
  <2>1. PICK c \in todo["run"] : /\ registry' = registry \union {c} /\ Enter("run", c, "start")
                                 /\ todo' = [todo EXCEPT !["run"] = @ \ {c}]
    BY <1>4 DEF RegisterChain
  <2>2. c \in Chains /\ todo' \in [Loops -> SUBSET Chains] /\ todo'["shutdown"] = todo["shutdown"]
    BY <1>3, <2>1 DEF Loops
  <2>3. /\ target["run"] \notin Chains /\ step["run"] = "loop"
        /\ UNCHANGED <<running, managed, status, ctx, fetchers>>
    BY <1>1, <1>2, <1>4 DEF RegisterChain
  <2> QED
    BY <1>1, <1>3, <2>1, <2>2, <2>3, EnterKeeps
<1>5. CASE StopNext
  <2>1. PICK c \in todo["shutdown"] : /\ Enter("shutdown", c, "stop")
                                      /\ todo' = [todo EXCEPT !["shutdown"] = @ \ {c}]
    BY <1>5 DEF StopNext
  <2>2. /\ c \in Chains /\ todo' \in [Loops -> SUBSET Chains]
        /\ todo'["shutdown"] = todo["shutdown"] \ {c}
    BY <1>3, <2>1 DEF Loops
  <2>3. /\ target["shutdown"] \notin Chains /\ step["shutdown"] = "loop"
        /\ UNCHANGED <<running, managed, status, ctx, fetchers, registry>>
    BY <1>1, <1>2, <1>5 DEF StopNext
  <2> QED
    BY <1>1, <1>3, <2>1, <2>2, <2>3, EnterKeeps
<1>6. CASE MonitorRestarts /\ step' # step
  <2>1. PICK c \in todo["monitor"] : /\ Enter("monitor", c, "stop")
                                     /\ todo' = [todo EXCEPT !["monitor"] = @ \ {c}]
    BY <1>6 DEF MonitorRestarts
  <2>2. /\ c \in Chains /\ todo' \in [Loops -> SUBSET Chains]
        /\ todo'["shutdown"] = todo["shutdown"]
    BY <1>3, <2>1 DEF Loops
  <2>3. /\ target["monitor"] \notin Chains /\ step["monitor"] = "loop"
        /\ UNCHANGED <<running, managed, status, ctx, fetchers, registry>>
    BY <1>1, <1>2, <1>6 DEF MonitorRestarts
  <2> QED
    BY <1>1, <1>3, <2>1, <2>2, <2>3, EnterKeeps
<1> QED
  BY <1>4, <1>5, <1>6

\* The steps of the manager's loops between two chains.
LEMMA LoopTurns ==
  ASSUME CallersApart, FInv, UNCHANGED removing,
         \/ ManagerStart \/ ManagerStarted \/ MonitorTicks \/ MonitorEnds \/ ManagerStopped
         \/ MonitorRestarts /\ step' = step
  PROVE  FInv'
<1>1. /\ "run" \in Callers /\ "monitor" \in Callers /\ "shutdown" \in Callers
      /\ Requests \cap {"run", "monitor", "shutdown"} = {} /\ Requests \subseteq Callers
  BY DEF Callers, Loops, CallersApart
<1>2. /\ step \in [Callers -> Working \cup {"idle", "loop", "done"}]
      /\ todo \in [Loops -> SUBSET Chains] /\ overlap \in [Chains -> BOOLEAN]
      /\ running \in BOOLEAN /\ managed \in {"none", "live", "cancelled"}
      /\ registry \subseteq Chains
  BY DEF FInv, Types
<1>3. UNCHANGED <<registry, status, ctx, fetchers, target, removing>>
  <2>1. CASE MonitorRestarts /\ step' = step
    <3>1. step["monitor"] = "loop" /\ ~\E c : Enter("monitor", c, "stop")
      BY <1>1, <1>2, <2>1 DEF MonitorRestarts, Enter, Goto
    <3> QED
      BY <2>1, <3>1 DEF MonitorRestarts
  <2> QED
    BY <2>1 DEF ManagerStart, ManagerStarted, MonitorTicks, MonitorEnds, ManagerStopped
<1>4. /\ overlap' \in [Chains -> BOOLEAN] /\ \A d \in Chains : overlap[d] => overlap'[d]
  <2>1. CASE MonitorRestarts /\ step' = step
    <3>1. step["monitor"] = "loop" /\ ~\E c : Enter("monitor", c, "stop")
      BY <1>1, <1>2, <2>1 DEF MonitorRestarts, Enter, Goto
    <3> QED
      BY <1>2, <2>1, <3>1 DEF MonitorRestarts
  <2>2. CASE ManagerStopped
    BY <1>2, <2>2 DEF ManagerStopped
  <2> QED
    BY <1>2, <2>1, <2>2 DEF ManagerStart, ManagerStarted, MonitorTicks, MonitorEnds
<1>5. /\ todo' \in [Loops -> SUBSET Chains] /\ todo'["shutdown"] = todo["shutdown"]
  BY <1>2 DEF ManagerStart, ManagerStarted, MonitorTicks, MonitorEnds, ManagerStopped,
              MonitorRestarts, Loops
<1>6. running' \in BOOLEAN /\ managed' \in {"none", "live", "cancelled"}
  BY <1>2 DEF ManagerStart, ManagerStarted, MonitorTicks, MonitorEnds, ManagerStopped,
              MonitorRestarts
<1>7. /\ step' \in [Callers -> Working \cup {"idle", "loop", "done"}]
      /\ \A q \in Callers : \/ step'[q] = step[q]
                              \/ /\ q \in Loops /\ step[q] \in {"idle", "loop"}
                                 /\ step'[q] \in {"loop", "done"}
  <2>1. CASE ManagerStarted
    <3>1. step["run"] = "loop" /\ step["monitor"] = "idle"
      BY <2>1 DEF ManagerStarted, FInv, Callings
    <3> QED
      BY <1>1, <1>2, <2>1, <3>1 DEF ManagerStarted, Loops
  <2>2. CASE ManagerStart
    BY <1>1, <1>2, <2>2 DEF ManagerStart, Goto, Loops
  <2>3. CASE MonitorEnds
    BY <1>1, <1>2, <2>3 DEF MonitorEnds, Goto, Loops
  <2>4. CASE ManagerStopped
    BY <1>1, <1>2, <2>4 DEF ManagerStopped, Goto, Loops
  <2>5. CASE MonitorTicks \/ step' = step
    BY <1>2, <2>5 DEF MonitorTicks
  <2> QED
    BY <2>1, <2>2, <2>3, <2>4, <2>5
<1>8. \A q \in Callers : target[q] \in Chains => step'[q] = step[q]
  BY <1>7 DEF FInv, Callings, Working
<1>9. step'["shutdown"] = "idle" <=> step["shutdown"] = "idle"
  BY <1>1, <1>2 DEF ManagerStart, ManagerStarted, MonitorTicks, MonitorEnds, ManagerStopped, Goto
<1>10. \A q : Derived(q) => Derived(q)'
  <2>1. managed = "live" => managed' = "live"
    BY DEF ManagerStart, ManagerStarted, MonitorTicks, MonitorEnds, ManagerStopped, MonitorRestarts
  <2>2. \A q \in Requests : step'[q] = step[q]
    BY <1>1, <1>7 DEF Loops
  <2> QED
    BY <2>1, <2>2 DEF Derived
<1>11. Callings'
  <2>1. \A q \in Callers : target'[q] \in Chains <=> step'[q] \in Working
    BY <1>3, <1>7 DEF FInv, Callings, Working
  <2>2. step'["shutdown"] \notin {"start", "context", "init", "sync", "remove"}
    BY <1>1, <1>7 DEF FInv, Callings
  <2>3. step'["run"] # "idle" \/ (step["run"] = "idle" /\ step'["run"] = step["run"])
    BY <1>1, <1>7
  <2>4. step["run"] = "idle" /\ step'["run"] = "idle" => running' = running
    BY <1>1, <1>2 DEF ManagerStart, ManagerStarted, MonitorTicks, MonitorEnds, ManagerStopped,
       MonitorRestarts, Goto
  <2>5. running' => step'["run"] # "idle"
    BY <2>3, <2>4 DEF FInv, Callings
  <2>6. step["shutdown"] # "idle" => running' = running /\ managed' = managed
    BY DEF FInv, Callings, ManagerStart, ManagerStarted, MonitorTicks, MonitorEnds, ManagerStopped,
       MonitorRestarts
  <2>7. step'["shutdown"] # "idle" => ~running' /\ managed' = "cancelled" /\ step'["run"] # "idle"
    BY <1>9, <2>3, <2>6 DEF FInv, Callings
  <2>8. step'["shutdown"] = "done" => step["shutdown"] = "done" \/ todo["shutdown"] = {}
    BY <1>1, <1>2 DEF ManagerStart, ManagerStarted, MonitorTicks, MonitorEnds, ManagerStopped, Goto
  <2>9. step'["shutdown"] = "done" => todo'["shutdown"] = {}
    BY <1>5, <2>8 DEF FInv, Callings
  <2>10. step'["run"] # "done" => step'["monitor"] = "idle"
    BY <1>1, <1>2 DEF ManagerStart, ManagerStarted, MonitorTicks, MonitorEnds, ManagerStopped, Goto,
       FInv, Callings
  <2> QED
    BY <2>1, <2>2, <2>5, <2>7, <2>9, <2>10 DEF Callings
<1>12. step' \in [Callers -> Working \cup {"idle", "loop", "done"}]
  BY <1>7
<1> QED
  BY <1>3, <1>4, <1>5, <1>6, <1>8, <1>9, <1>10, <1>11, <1>12, QuietKeeps

\* The signal ends what derives from the manager's context.
LEMMA SignalKeeps ==
  ASSUME CallersApart, FInv, UNCHANGED removing, Signal
  PROVE  FInv'
<1>1. /\ managed' = "cancelled" /\ End({"run", "monitor"}, Chains)
      /\ UNCHANGED <<running, registry, status, step, target, todo, overlap, removing>>
  BY DEF Signal
<1>2. /\ ctx' \in [Chains -> Contexts] /\ fetchers' \in [Chains -> Seq(Goroutines)]
      /\ \A d \in Chains :
            /\ Alive(d)' = Alive(d) /\ DOMAIN fetchers'[d] = DOMAIN fetchers[d]
            /\ ctx'[d].by = ctx[d].by
            /\ ctx'[d].live => ctx[d].live /\ ctx[d].by \notin {"run", "monitor"}
            /\ \A k \in DOMAIN fetchers[d] :
                  /\ fetchers'[d][k].by = fetchers[d][k].by
                  /\ fetchers'[d][k].live =>
                        fetchers[d][k].live /\ fetchers[d][k].by \notin {"run", "monitor"}
  BY <1>1, EndFacts DEF FInv
<1>3. Types'
  BY <1>1, <1>2 DEF FInv, Types
<1>4. Callings'
  BY <1>1 DEF FInv, Callings
<1>5. ContextsDerived'
  <2>1. \A q : Derived(q) /\ q \notin {"run", "monitor"} => Derived(q)'
    BY <1>1 DEF Derived
  <2>2. ASSUME NEW d \in Chains, ctx'[d].live PROVE Derived(ctx[d].by)'
    <3>1. ctx'[d].by = ctx[d].by /\ Derived(ctx[d].by) /\ ctx[d].by \notin {"run", "monitor"}
      BY <1>2, <2>2 DEF FInv, ContextsDerived
    <3> QED
      BY <2>1, <3>1 DEF Derived
  <2>3. ASSUME NEW d \in Chains, NEW k \in DOMAIN fetchers'[d], fetchers'[d][k].live
        PROVE  Derived(fetchers[d][k].by)'
    <3>1. /\ fetchers'[d][k].by = fetchers[d][k].by /\ Derived(fetchers[d][k].by)
          /\ fetchers[d][k].by \notin {"run", "monitor"}
      BY <1>2, <2>3 DEF FInv, ContextsDerived
    <3> QED
      BY <2>1, <3>1 DEF Derived
  <2> QED
    BY <2>2, <2>3 DEF ContextsDerived
<1>6. ASSUME NEW d \in Chains, ~overlap'[d] PROVE ChainOK(d)'
  <2>1. ChainOK(d)
    BY <1>1, <1>6 DEF FInv
  <2>2. Untouched(d)
    BY <1>1, <1>2 DEF Untouched
  <2> QED
    BY <2>1, <2>2, Frame
<1> QED
  BY <1>3, <1>4, <1>5, <1>6 DEF FInv

\* Manager.Stop lists the registry: a chain that is not in it has nothing left.
LEMMA StopBegins ==
  ASSUME CallersApart, FInv, UNCHANGED removing, ManagerStop
  PROVE  FInv'
<1>1. /\ step["shutdown"] = "idle" /\ running /\ managed = "cancelled" /\ running' = FALSE
      /\ todo' = [todo EXCEPT !["shutdown"] = registry]
      /\ step' = [step EXCEPT !["shutdown"] = "loop"]
      /\ UNCHANGED <<managed, registry, status, ctx, fetchers, target, overlap, removing>>
  BY DEF ManagerStop, Goto
<1>2. /\ "shutdown" \in Callers /\ "run" \in Callers /\ "monitor" \in Callers
      /\ "shutdown" \notin Requests /\ Requests \subseteq Callers
  BY DEF Callers, Loops, CallersApart
<1>3. /\ \A q \in Callers : step'[q] = IF q = "shutdown" THEN "loop" ELSE step[q]
      /\ step' \in [Callers -> Working \cup {"idle", "loop", "done"}]
  BY <1>1 DEF FInv, Types
<1>4. /\ todo' \in [Loops -> SUBSET Chains] /\ todo'["shutdown"] = registry
  BY <1>1 DEF FInv, Types, Loops
<1>5. Types'
  BY <1>1, <1>3, <1>4 DEF FInv, Types
<1>6. Callings'
  <2>1. \A q \in Callers : target'[q] \in Chains <=> step'[q] \in Working
    BY <1>1, <1>3 DEF FInv, Callings, Working
  <2> QED
    BY <1>1, <1>2, <1>3, <2>1 DEF FInv, Callings
<1>7. ContextsDerived' /\ \A d \in Chains : Alive(d)' = Alive(d)
  <2>1. \A q : Derived(q) => Derived(q)'
    BY <1>1, <1>2, <1>3 DEF Derived
  <2> QED
    BY <1>1, <2>1, StillDerived
<1>8. target["shutdown"] \notin Chains
  BY <1>1, <1>2 DEF FInv, Callings, Working
<1>9. ASSUME NEW d \in Chains, ~overlap'[d] PROVE ChainOK(d)'
  <2>1. ChainOK(d) /\ Alive(d)' = Alive(d)
    BY <1>1, <1>7, <1>9 DEF FInv
  <2>2. \A q \in Callers : target[q] = d => step'[q] = step[q]
    BY <1>3, <1>8
  <2>3. Left(d) => Left(d)'
    BY <1>1, <2>1, <2>2 DEF Left
  <2>4. \A q \in Callers : target[q] = d /\ CallerOK(q, d) => CallerOK(q, d)'
    BY <1>1, <2>1, <2>2 DEF CallerOK
  <2>5. d \notin todo'["shutdown"] => Left(d)
    BY <1>4, <2>1 DEF ChainOK
  <2> QED
    BY <1>1, <2>1, <2>2, <2>3, <2>4, <2>5 DEF ChainOK
<1> QED
  BY <1>5, <1>6, <1>7, <1>9 DEF FInv

\* Every step keeps the invariant.
LEMMA StepFInv == ASSUME CallersApart, FInv, [FleetNext]_fleetVars PROVE FInv'
<1>1. CASE UNCHANGED fleetVars
  BY <1>1 DEF fleetVars, FInv, Types, Callings, ContextsDerived, Derived, ChainOK, CallerOK, Left,
     Alive
<1>2. ASSUME UNCHANGED removing, ManagerStep PROVE FInv'
  BY <1>2, LoopEnters, LoopTurns, SignalKeeps, StopBegins DEF ManagerStep
<1>3. ASSUME UNCHANGED removing, NEW p \in Callers, StartStep(p) PROVE FInv'
  BY <1>3, StartKeeps, ReturnKeeps DEF StartStep
<1>4. ASSUME UNCHANGED removing, NEW p \in Callers, StopStep(p) PROVE FInv'
  BY <1>4, StopKeeps
<1>5. CASE \E q \in Requests : RemoveChain(q)
  BY <1>5, RemoveKeeps
<1>6. CASE /\ \E q \in Requests : step[q] = "idle"
           /\ \E q \in Requests, op \in Operations, c \in Chains : Request(q, op, c)
  BY <1>6, RequestKeeps
<1>7. ASSUME UNCHANGED removing, NEW c \in Chains, NEW k \in DOMAIN fetchers[c], Goroutine(c, k)
      PROVE FInv'
  BY <1>7, GoroutineKeeps
<1> QED
  BY <1>1, <1>2, <1>3, <1>4, <1>5, <1>6, <1>7 DEF FleetNext

-----------------------------------------------------------------------------
(* The results.                                                            *)

\* A chain whose operations do not overlap is fetched by one goroutine at most,
\* however late the errors and the metrics of an earlier fetcher change the
\* status that ChainInstance.Start checks (instance.go:71).
THEOREM OneFetcherPerChain == ASSUME CallersApart PROVE FleetSpec => []OneFetcher
<1>1. FInv => OneFetcher
  <2> SUFFICES ASSUME FInv, NEW c \in Chains, ~overlap[c] PROVE Cardinality(Fetching(c)) <= 1
    BY DEF OneFetcher
  <2>1. \A j, k \in Fetching(c) : j = k
    BY DEF FInv, ChainOK, Fetching, Alive
  <2>2. CASE Fetching(c) = {}
    BY <2>2, FS_EmptySet
  <2>3. CASE Fetching(c) # {}
    <3>1. PICK k : Fetching(c) = {k}
      BY <2>1, <2>3
    <3> QED
      BY <3>1, FS_Singleton
  <2> QED
    BY <2>2, <2>3
<1> QED
  BY <1>1, InitFInv, StepFInv, PTL DEF FleetSpec

\* Once Manager.Stop has returned, nothing goes on fetching except for a request
\* that is still under way, and no goroutine is left of a chain whose operations
\* did not overlap (manager.go:111, instance.go:143-155).
THEOREM ShutdownQuiet == ASSUME CallersApart PROVE FleetSpec => []ShutdownIsQuiet
<1>1. ASSUME FInv, step["shutdown"] = "done", NEW c \in Chains, ~overlap[c] PROVE Alive(c) = {}
  <2>1. target["shutdown"] \notin Chains /\ todo["shutdown"] = {}
    BY <1>1 DEF FInv, Callings, Callers, Loops, Working
  <2> QED
    BY <1>1, <2>1 DEF FInv, ChainOK, Left
<1>2. ASSUME FInv, step["shutdown"] = "done", NEW q, Derived(q) PROVE q \in Requests /\ step[q] # "done"
  BY <1>2 DEF FInv, Callings, Derived
<1>3. ASSUME FInv, step["shutdown"] = "done", NEW c \in Chains, NEW k \in Fetching(c)
      PROVE  LET by == IF fetchers[c][k].at = "new" THEN ctx[c].by ELSE fetchers[c][k].by
             IN by \in Requests /\ step[by] # "done"
  BY <1>2, <1>3 DEF FInv, ContextsDerived, Fetching
<1>4. FInv => ShutdownIsQuiet
  BY <1>1, <1>3 DEF ShutdownIsQuiet, NothingOutlives, QuietAtClose
<1> QED
  BY <1>4, InitFInv, StepFInv, PTL DEF FleetSpec

=============================================================================
