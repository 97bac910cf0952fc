---------------------------- MODULE ClientProofs ----------------------------
(***************************************************************************)
(* What clients are owed, for every value of the constants: what a resumed *)
(* session misses, what a filter skips, and what a notification's status   *)
(* and lists say.                                                          *)
(***************************************************************************)
EXTENDS Sessions, Filters, Notifications, SequenceTheorems,
        FiniteSetTheorems, WellFoundedInduction, TLAPS

-----------------------------------------------------------------------------
(* Facts about numbers and sequences.                                       *)

\* A set of numbers has a smallest one.
LEMMA Smallest ==
    ASSUME NEW T \in SUBSET Nat, T # {}
    PROVE  \E m \in T : \A n \in T : m <= n
<1> DEFINE R == OpToRel(<, Nat)
<1>1. \A n, m \in Nat : n < m => <<n, m>> \in R
  BY Zenon DEF OpToRel
<1>2. IsWellFoundedOn(R, Nat)
  BY NatLessThanWellFounded, Zenon
<1> HIDE DEF R
<1>3. PICK m \in T : \A y \in T : ~(<<y, m>> \in R)
  BY <1>2, WFMin
<1>4. ASSUME NEW n \in T PROVE m <= n
  <2>1. n \in Nat /\ m \in Nat /\ ~(n < m)
    BY <1>1, <1>3
  <2> QED
    BY <2>1
<1> QED
  BY <1>4

\* A set of numbers with a bound has a largest one.
LEMMA Largest ==
    ASSUME NEW T \in SUBSET Nat, T # {}, NEW b \in Nat, \A n \in T : n <= b
    PROVE  \E m \in T : \A n \in T : n <= m
<1> DEFINE U == {u \in Nat : \A n \in T : n <= u}
<1>1. U \in SUBSET Nat /\ b \in U OBVIOUS
<1>2. PICK u \in U : \A v \in U : u <= v
  <2> HIDE DEF U
  <2> QED BY <1>1, Smallest
<1>3. u \in T
  <2> SUFFICES ASSUME u \notin T PROVE FALSE OBVIOUS
  <2>1. \A n \in T : n < u BY <1>2
  <2>2. u - 1 \in U
    <3>1. PICK n \in T : n < u BY <2>1
    <3>2. u - 1 \in Nat BY <3>1
    <3>3. \A m \in T : m <= u - 1 BY <2>1, <3>2
    <3> QED BY <3>2, <3>3
  <2> QED BY <1>2, <2>2
<1> QED BY <1>2, <1>3

Below(S, e) == {x \in S : x < e}
Firsts(S, n) == {e \in S : Cardinality(Below(S, e)) < n}

LEMMA BelowFacts ==
    ASSUME NEW S \in SUBSET Nat, IsFiniteSet(S), NEW e \in S
    PROVE  IsFiniteSet(Below(S, e)) /\ Cardinality(Below(S, e)) \in Nat
<1>1. Below(S, e) \in SUBSET S BY DEF Below
<1> QED BY <1>1, FS_Subset, FS_CardinalityType

\* Of a set with an element of rank n or more, n elements have a lower rank.
\* Were n the least number for which this fails, the least element that is not
\* of rank below n - 1 would have rank n - 1, and no other would.
LEMMA RankCount ==
    ASSUME NEW S \in SUBSET Nat, IsFiniteSet(S), NEW n \in Nat,
           NEW e \in S, Cardinality(Below(S, e)) >= n
    PROVE  Cardinality(Firsts(S, n)) = n
<1> DEFINE Rank(x) == Cardinality(Below(S, x))
           Bad == {m \in Nat : m <= Rank(e) /\ Cardinality(Firsts(S, m)) # m}
<1>0. \A x \in S : IsFiniteSet(Below(S, x)) /\ Rank(x) \in Nat BY BelowFacts
<1> SUFFICES ASSUME Bad # {} PROVE FALSE BY <1>0
<1>1. PICK m \in Bad : \A k \in Bad : m <= k
  <2>1. Bad \in SUBSET Nat OBVIOUS
  <2> HIDE DEF Bad
  <2> QED BY <2>1, Smallest
<1>2. m \in Nat /\ m <= Rank(e) /\ Cardinality(Firsts(S, m)) # m BY <1>1
<1>3. m # 0
  <2> SUFFICES ASSUME m = 0 PROVE FALSE OBVIOUS
  <2> HIDE DEF Bad
  <2>1. \A x \in S : ~(Cardinality(Below(S, x)) < m) BY <1>0
  <2>3. Firsts(S, m) = {} BY <2>1 DEF Firsts
  <2>2. Cardinality(Firsts(S, m)) = 0 BY <2>3, FS_EmptySet
  <2> QED BY <1>2, <2>2
<1> DEFINE k == m - 1
           T == Firsts(S, k)
<1>4. k \in Nat /\ m = k + 1 /\ k <= Rank(e) BY <1>0, <1>2, <1>3
<1>5. Cardinality(T) = k
  <2>1. k \notin Bad BY <1>1, <1>4
  <2> QED BY <1>4, <2>1
<1> HIDE DEF Bad, k, Rank
<1>6. \A x : x \in T <=> x \in S /\ Rank(x) < k BY DEF Firsts, Rank
<1>7. \A x : x \in Firsts(S, m) <=> x \in S /\ Rank(x) < m BY DEF Firsts, Rank
<1> HIDE DEF T
<1>8. T \in SUBSET S /\ IsFiniteSet(T) /\ e \notin T
  <2>1. T \in SUBSET S /\ e \notin T BY <1>0, <1>4, <1>6
  <2> QED BY <2>1, FS_Subset
<1>9. PICK y \in S \ T : \A x \in S \ T : y <= x
  <2>1. S \ T \in SUBSET Nat /\ S \ T # {} BY <1>8
  <2> QED BY <2>1, Smallest
<1>10. y \in S /\ y \in Nat /\ y \notin T /\ Rank(y) >= k BY <1>0, <1>4, <1>6, <1>9
<1>11. Below(S, y) = T
  <2>1. ASSUME NEW x \in Below(S, y) PROVE x \in T
    <3>1. x \in S /\ x \in Nat /\ x < y BY DEF Below
    <3> QED BY <1>9, <1>10, <3>1
  <2>2. ASSUME NEW x \in T PROVE x \in Below(S, y)
    <3>1. x \in S /\ x \in Nat BY <1>8
    <3> SUFFICES ASSUME ~(x < y) PROVE FALSE BY <3>1 DEF Below
    <3>2. y <= x BY <1>10, <3>1
    <3>3. Below(S, y) \in SUBSET Below(S, x) 
      <4>1. ASSUME NEW z \in S, z < y PROVE z < x BY <1>10, <3>1, <3>2, <4>1
      <4> QED BY <4>1 DEF Below
    <3>4. Rank(y) <= Rank(x) BY <1>0, <3>1, <3>3, FS_Subset DEF Rank
    <3>5. Rank(x) < k BY <1>6
    <3> QED BY <1>0, <1>4, <1>10, <3>1, <3>4, <3>5
  <2> QED BY <2>1, <2>2
<1>12. IsFiniteSet(T \cup {y}) /\ Cardinality(T \cup {y}) = k + 1
  BY <1>5, <1>8, <1>10, FS_AddElement
<1>13. Firsts(S, m) = T \cup {y}
  <2>1. Rank(y) = k BY <1>5, <1>11 DEF Rank
  <2>2. ASSUME NEW x \in T \cup {y} PROVE x \in Firsts(S, m)
    BY <1>0, <1>4, <1>6, <1>7, <1>8, <1>10, <2>1
  <2>3. ASSUME NEW x \in Firsts(S, m), x \notin T PROVE x = y
    <3> SUFFICES ASSUME x # y PROVE FALSE OBVIOUS
    <3>0. x \in S /\ Rank(x) < m BY <1>7
    <3>1. x \in Nat /\ y < x BY <1>9, <1>10, <2>3, <3>0
    <3>2. ASSUME NEW z \in T \cup {y} PROVE z \in Below(S, x)
      <4>1. z \in S /\ z \in Nat BY <1>8, <1>10
      <4>2. z = y \/ z < y BY <1>11 DEF Below
      <4>3. z < x BY <1>10, <3>1, <4>1, <4>2
      <4> QED BY <4>1, <4>3 DEF Below
    <3>3. T \cup {y} \in SUBSET Below(S, x) BY <3>2
    <3>4. k + 1 <= Rank(x) BY <1>0, <1>12, <3>0, <3>3, FS_Subset DEF Rank
    <3> QED BY <1>0, <1>4, <3>0, <3>4
  <2> QED BY <2>2, <2>3
<1> QED BY <1>2, <1>4, <1>12, <1>13

\* A sequence, whatever its elements are.
IsSeq(s) == Len(s) \in Nat /\ s = [i \in 1..Len(s) |-> s[i]]

LEMMA AppendIsSeq ==
    ASSUME NEW s, IsSeq(s), NEW x
    PROVE  /\ IsSeq(Append(s, x)) /\ Len(Append(s, x)) = Len(s) + 1
           /\ DOMAIN Append(s, x) = 1..Len(s) + 1 /\ DOMAIN s = 1..Len(s)
           /\ \A i \in 1..Len(s) : Append(s, x)[i] = s[i]
           /\ Append(s, x)[Len(s) + 1] = x
<1> DEFINE T == {s[i] : i \in 1..Len(s)} \cup {x}
<1>1. s \in Seq(T) BY DEF IsSeq
<1>2. x \in T OBVIOUS
<1> HIDE DEF T
<1> DEFINE t == Append(s, x)
<1>3. /\ t \in Seq(T) /\ Len(t) = Len(s) + 1 /\ t[Len(s) + 1] = x
      /\ \A i \in 1..Len(s) : t[i] = s[i]
  BY <1>1, <1>2, AppendProperties
<1>4. DOMAIN s = 1..Len(s) /\ Len(s) \in Nat BY DEF IsSeq
<1> HIDE DEF t
<1>5. t = [i \in 1..Len(t) |-> t[i]] /\ Len(t) \in Nat BY <1>3
<1>6. DOMAIN t = 1..Len(s) + 1 BY <1>3, <1>5
<1> QED BY <1>3, <1>4, <1>5, <1>6 DEF IsSeq, t

LEMMA ExceptIsSeq ==
    ASSUME NEW s, IsSeq(s), NEW k \in DOMAIN s, NEW x
    PROVE  /\ IsSeq([s EXCEPT ![k] = x]) /\ DOMAIN [s EXCEPT ![k] = x] = DOMAIN s
           /\ [s EXCEPT ![k] = x][k] = x
           /\ \A i \in DOMAIN s \ {k} : [s EXCEPT ![k] = x][i] = s[i]
<1> DEFINE T == {s[i] : i \in 1..Len(s)} \cup {x}
           t == [s EXCEPT ![k] = x]
<1>1. s \in Seq(T) /\ DOMAIN s = 1..Len(s) BY DEF IsSeq
<1>2. x \in T OBVIOUS
<1> HIDE DEF T
<1>3. t \in Seq(T) /\ DOMAIN t = 1..Len(s) BY <1>1, <1>2
<1>4. Len(t) = Len(s) BY <1>1, <1>3
<1> QED BY <1>1, <1>3, <1>4 DEF IsSeq

-----------------------------------------------------------------------------
(* Sessions.  An event whose delivery has looked for a connection has been  *)
(* stored before, with its entry; a connection that is about to ask for     *)
(* what it has missed therefore finds all of these, unless they are wiped.  *)

IsConn(c) == DOMAIN c = {"s", "after", "at", "up", "chan", "copy", "missed", "left", "early"}

\* What holds of a connection, with the events that can be found, those that
\* were wiped and the session of each.
ConnOK(c, cached, gone, to) ==
    /\ IsConn(c)
    /\ c.at = "missed" => \A e \in c.early \ gone : e \in cached /\ to[e] = c.s
    /\ c.at = "replay" => \A e \in c.early \ gone :
                             e > c.after => e \in c.missed \/ Cardinality(c.missed) = Limit

\* What holds of a delivery.
DeliveryOK(r, rec, gone, to) ==
    /\ DOMAIN r = {"at", "e", "k"}
    /\ r.at # "idle" => r.e \in DOMAIN to
    /\ r.at = "storeEntry" => r.e \in rec \cup gone

\* Nobody has still to store the event e.
Written(e, dels) == \A d \in Deliverers : dels[d].e = e => dels[d].at \notin {"store", "storeEntry"}

WrittenIsFound ==
    \A e \in DOMAIN sentTo \ wiped : Written(e, del) => e \in record \cap entry

SInv ==
    /\ IsSeq(conn) /\ IsSeq(sentTo)
    /\ record \subseteq DOMAIN sentTo /\ entry \subseteq DOMAIN sentTo
    /\ \A k \in DOMAIN conn : ConnOK(conn[k], record \cap entry, wiped, sentTo)
    /\ del = [d \in Deliverers |-> del[d]]
    /\ \A d \in Deliverers : DeliveryOK(del[d], record, wiped, sentTo)
    /\ WrittenIsFound

LEMMA InitSInv == SessionsInit => SInv
<1> SUFFICES ASSUME SessionsInit PROVE SInv OBVIOUS
<1>1. IsSeq(conn) /\ IsSeq(sentTo) /\ DOMAIN conn = {} /\ DOMAIN sentTo = {}
  BY DEF SessionsInit, IsSeq
<1>2. \A d \in Deliverers : DeliveryOK(del[d], record, wiped, sentTo)
  BY DEF SessionsInit, DeliveryOK, Resting
<1> QED BY <1>1, <1>2 DEF SessionsInit, SInv, WrittenIsFound

LEMMA NewConnIsConn ==
    ASSUME NEW s, NEW after, NEW l
    PROVE  IsConn(NewConn(s, after, l)) /\ NewConn(s, after, l).at = l /\ NewConn(s, after, l).s = s
BY DEF IsConn, NewConn

\* A step of one connection that leaves the stores of events alone.
LEMMA ConnStep ==
    ASSUME SInv, NEW k \in DOMAIN conn, NEW r, ConnOK(r, record \cap entry, wiped, sentTo),
           Step(k, r), UNCHANGED <<record, entry, wiped, sentTo, del>>
    PROVE  SInv'
<1>1. conn' = [conn EXCEPT ![k] = r] /\ IsSeq(conn) BY DEF Step, SInv
<1>2. /\ IsSeq(conn') /\ DOMAIN conn' = DOMAIN conn /\ conn'[k] = r
      /\ \A i \in DOMAIN conn \ {k} : conn'[i] = conn[i]
  BY <1>1, ExceptIsSeq
<1>3. \A i \in DOMAIN conn' : ConnOK(conn'[i], record' \cap entry', wiped', sentTo')
  BY <1>2 DEF SInv
<1> QED BY <1>2, <1>3 DEF SInv, WrittenIsFound

LEMMA ConnAdded ==
    ASSUME SInv, NEW r, ConnOK(r, record \cap entry, wiped, sentTo),
           conn' = Append(conn, r), UNCHANGED <<record, entry, wiped, sentTo, del>>
    PROVE  SInv'
<1>1. /\ IsSeq(conn') /\ DOMAIN conn' = 1..Len(conn) + 1 /\ DOMAIN conn = 1..Len(conn)
      /\ conn'[Len(conn) + 1] = r /\ Len(conn) \in Nat
      /\ \A i \in DOMAIN conn : conn'[i] = conn[i]
  BY AppendIsSeq, SMTT(30) DEF SInv, IsSeq
<1>2. \A i \in DOMAIN conn' : i \in DOMAIN conn \/ i = Len(conn) + 1 BY <1>1
<1>3. \A i \in DOMAIN conn' : ConnOK(conn'[i], record' \cap entry', wiped', sentTo')
  BY <1>1, <1>2 DEF SInv
<1> QED BY <1>1, <1>3 DEF SInv, WrittenIsFound

\* Connections that are neither about to ask nor replaying promise nothing.
LEMMA PlainConn ==
    ASSUME NEW c, IsConn(c), c.at \notin {"missed", "replay"}, NEW cached, NEW gone, NEW to
    PROVE  ConnOK(c, cached, gone, to)
BY DEF ConnOK

\* The fields of a connection that a step does not name.
LEMMA PlaceOnly ==
    ASSUME NEW c, IsConn(c), NEW l
    PROVE  IsConn([c EXCEPT !.at = l]) /\ [c EXCEPT !.at = l].at = l
BY DEF IsConn

LEMMA StoresKeep ==
    ASSUME SInv, UNCHANGED <<record, entry, wiped, sentTo, del, conn>> PROVE SInv'
BY DEF SInv, WrittenIsFound

LEMMA ActivateKeeps == ASSUME SInv, NEW k, Activate(k) PROVE SInv'
<1> DEFINE c == conn[k]
           r == IF c.at = "activate" THEN [c EXCEPT !.at = "run"]
                ELSE [c EXCEPT !.at = "missed", !.early = LookedUp(c.s)]
<1>1. /\ k \in DOMAIN conn /\ IsConn(c) /\ c.at \in {"activate", "reactivate"} /\ Step(k, r)
      /\ UNCHANGED <<record, entry, wiped, sentTo, del>>
  BY DEF Activate, ConnAt, SInv, ConnOK, stores
<1>2. CASE c.at = "activate"
  <2>1. IsConn(r) /\ r.at = "run" BY <1>1, <1>2, PlaceOnly
  <2> HIDE DEF r
  <2> QED BY <1>1, <2>1, PlainConn, ConnStep
<1>3. CASE c.at # "activate"
  <2>1. r = [c EXCEPT !.at = "missed", !.early = LookedUp(c.s)] BY <1>3
  <2>2. IsConn(r) /\ r.at = "missed" /\ r.s = c.s /\ r.early = LookedUp(c.s)
    BY <1>1, <2>1 DEF IsConn
  <2>3. \A e \in LookedUp(c.s) \ wiped : e \in record \cap entry /\ sentTo[e] = c.s
    BY DEF LookedUp, SInv, WrittenIsFound, Written
  <2>4. ConnOK(r, record \cap entry, wiped, sentTo) BY <2>2, <2>3 DEF ConnOK
  <2> QED BY <1>1, <2>4, ConnStep
<1> QED BY <1>2, <1>3

\* GetAfter answers with all that is later, or with as many as it may.
LEMMA GetAfterComplete ==
    ASSUME SInv, NEW s, NEW after, NEW e \in record \cap entry, sentTo[e] = s, e > after
    PROVE  e \in GetAfter(s, after) \/ Cardinality(GetAfter(s, after)) = Limit
<1> DEFINE later == {x \in entry \cap record : sentTo[x] = s /\ (after \in record => x > after) /\ x # after}
<1>1. record \cap entry \subseteq Nat /\ IsFiniteSet(record \cap entry)
  <2>1. record \cap entry \in SUBSET (1..Len(sentTo)) /\ Len(sentTo) \in Nat BY DEF SInv, IsSeq
  <2>2. IsFiniteSet(1..Len(sentTo)) BY <2>1, FS_Interval
  <2> QED BY <2>1, <2>2, FS_Subset
<1>2. later \in SUBSET Nat /\ IsFiniteSet(later)
  <2>1. later \in SUBSET (record \cap entry) OBVIOUS
  <2> HIDE DEF later
  <2> QED BY <1>1, <2>1, FS_Subset
<1>3. e \in later
  <2>1. e # after BY <1>1
  <2> QED BY <2>1
<1>4. GetAfter(s, after) = Firsts(later, Limit)
  BY DEF GetAfter, Firsts, Below
<1>5. Limit \in Nat BY LimitAssumption
<1> HIDE DEF later
<1>6. Cardinality(Below(later, e)) \in Nat BY <1>2, <1>3, BelowFacts
<1>7. CASE Cardinality(Below(later, e)) < Limit BY <1>3, <1>4, <1>7 DEF Firsts
<1>8. CASE Cardinality(Below(later, e)) >= Limit BY <1>2, <1>3, <1>4, <1>5, <1>8, RankCount
<1> QED BY <1>5, <1>6, <1>7, <1>8

LEMMA GetMissedKeeps == ASSUME SInv, NEW k, GetMissed(k) PROVE SInv'
<1> DEFINE c == conn[k]
           m == GetAfter(c.s, c.after)
           r == [c EXCEPT !.at = "replay", !.missed = m, !.left = <<0>> \o InOrder(m) \o <<0>>]
<1>1. /\ k \in DOMAIN conn /\ c.at = "missed" /\ Step(k, r)
      /\ ConnOK(c, record \cap entry, wiped, sentTo)
      /\ UNCHANGED <<record, entry, wiped, sentTo, del>>
  BY DEF GetMissed, ConnAt, SInv, stores
<1>2. IsConn(r) /\ r.at = "replay" /\ r.missed = m /\ r.early = c.early /\ r.after = c.after
  <2>1. IsConn(c) BY <1>1 DEF ConnOK
  <2> HIDE DEF m
  <2> QED BY <2>1 DEF IsConn
<1>3. \A e \in c.early \ wiped : e > c.after => e \in m \/ Cardinality(m) = Limit
  <2>1. \A e \in c.early \ wiped : e \in record \cap entry /\ sentTo[e] = c.s BY <1>1 DEF ConnOK
  <2> QED BY <2>1, GetAfterComplete
<1>4. ConnOK(r, record \cap entry, wiped, sentTo) BY <1>2, <1>3 DEF ConnOK
<1> HIDE DEF r
<1> QED BY <1>1, <1>4, ConnStep

\* The replay and the network leave alone what the answer is about.
LEMMA SameAnswer ==
    ASSUME NEW c, NEW r, IsConn(r), NEW cached, NEW gone, NEW to, ConnOK(c, cached, gone, to),
           r.at = c.at, r.s = c.s, r.after = c.after, r.missed = c.missed, r.early = c.early
    PROVE  ConnOK(r, cached, gone, to)
BY DEF ConnOK

LEMMA ReplayKeeps == ASSUME SInv, NEW k, ReplayEvents(k) PROVE SInv'
<1> DEFINE c == conn[k]
           q == IF Full(k) THEN c.chan ELSE Append(c.chan, Head(c.left))
           stop == [NewConn(c.s, 0, "run") EXCEPT !.chan = c.chan, !.up = c.up]
           go == [c EXCEPT !.left = Tail(c.left), !.chan = q]
<1>1. /\ k \in DOMAIN conn /\ ConnOK(c, record \cap entry, wiped, sentTo) /\ IsConn(c)
      /\ UNCHANGED <<record, entry, wiped, sentTo, del>>
  BY DEF ReplayEvents, ConnAt, SInv, stores, ConnOK
<1>2. Step(k, stop) \/ Step(k, go)
  <2>1. \/ Step(k, [NewConn(c.s, 0, "run") EXCEPT !.chan = c.chan, !.up = c.up])
        \/ Step(k, [c EXCEPT !.left = Tail(@), !.chan = IF Full(k) THEN @ ELSE Append(@, Head(c.left))])
    BY DEF ReplayEvents
  <2>2. [c EXCEPT !.left = Tail(@), !.chan = IF Full(k) THEN @ ELSE Append(@, Head(c.left))] = go
    BY <1>1 DEF IsConn
  <2> QED BY <2>1, <2>2
<1>3. ConnOK(stop, record \cap entry, wiped, sentTo)
  <2>1. IsConn(stop) /\ stop.at = "run" BY DEF IsConn, NewConn
  <2> QED BY <2>1, PlainConn
<1>4. ConnOK(go, record \cap entry, wiped, sentTo)
  <2> HIDE DEF q
  <2>1. /\ IsConn(go) /\ go.at = c.at /\ go.s = c.s /\ go.after = c.after
        /\ go.missed = c.missed /\ go.early = c.early
    BY <1>1 DEF IsConn
  <2> QED BY <1>1, <2>1, SameAnswer
<1> HIDE DEF stop, go, c
<1> QED BY <1>1, <1>2, <1>3, <1>4, ConnStep DEF c

\* The steps of a connection that only move it on, or only touch its channel.
LEMMA ConnMoves ==
    ASSUME SInv, NEW k,
           \/ SaveActive(k) \/ HandleDisconnect(k) \/ ReadState(k) \/ UpdateState(k)
           \/ ClientReceives(k) \/ Break(k)
    PROVE  SInv'
<1> DEFINE c == conn[k]
<1>0. /\ k \in DOMAIN conn /\ ConnOK(c, record \cap entry, wiped, sentTo) /\ IsConn(c)
      /\ UNCHANGED <<record, entry, wiped, sentTo, del>>
  BY DEF SaveActive, HandleDisconnect, ReadState, UpdateState, ClientReceives, Break, ConnAt, SInv, stores, ConnOK
<1>1. IsConn(Closed(k)) /\ Closed(k).at = "closed"
  BY DEF Closed, NewConn, IsConn
<1>2. CASE SaveActive(k)
  <2> DEFINE l == IF c.at = "save" THEN "activate" ELSE "reactivate"
             r == [c EXCEPT !.at = l]
  <2>1. Step(k, r) BY <1>2 DEF SaveActive
  <2>2. IsConn(r) /\ r.at = l BY <1>0, PlaceOnly
  <2> HIDE DEF r
  <2> QED BY <1>0, <2>1, <2>2, PlainConn, ConnStep
<1>3. CASE HandleDisconnect(k)
  <2> DEFINE r == [c EXCEPT !.at = "read"]
  <2>1. Step(k, r) BY <1>3 DEF HandleDisconnect
  <2>2. IsConn(r) /\ r.at = "read" BY <1>0, PlaceOnly
  <2> HIDE DEF r
  <2> QED BY <1>0, <2>1, <2>2, PlainConn, ConnStep
<1>4. CASE ReadState(k)
  <2> DEFINE r == [c EXCEPT !.at = "disconnected", !.copy = saved[c.s]]
  <2>1. Step(k, r) \/ Step(k, Closed(k)) BY <1>4 DEF ReadState
  <2>2. IsConn(r) /\ r.at = "disconnected" BY <1>0 DEF IsConn
  <2> HIDE DEF r
  <2> QED BY <1>0, <1>1, <2>1, <2>2, PlainConn, ConnStep
<1>5. CASE UpdateState(k)
  BY <1>0, <1>1, <1>5, PlainConn, ConnStep DEF UpdateState
<1>6. CASE ClientReceives(k)
  <2> DEFINE r == [c EXCEPT !.chan = Tail(c.chan)]
  <2>1. Step(k, r) BY <1>6 DEF ClientReceives
  <2>2. IsConn(r) /\ r.at = c.at /\ r.s = c.s /\ r.after = c.after /\ r.missed = c.missed /\ r.early = c.early
    BY <1>0 DEF IsConn
  <2> HIDE DEF r
  <2> QED BY <1>0, <2>1, <2>2, SameAnswer, ConnStep
<1>7. CASE Break(k)
  <2> DEFINE r == [c EXCEPT !.up = FALSE, !.chan = <<>>]
  <2>1. Step(k, r) BY <1>7 DEF Break
  <2>2. IsConn(r) /\ r.at = c.at /\ r.s = c.s /\ r.after = c.after /\ r.missed = c.missed /\ r.early = c.early
    BY <1>0 DEF IsConn
  <2> HIDE DEF r
  <2> QED BY <1>0, <2>1, <2>2, SameAnswer, ConnStep
<1> QED BY <1>2, <1>3, <1>4, <1>5, <1>6, <1>7

LEMMA ConnectKeeps ==
    ASSUME SInv, HandleConnect \/ \E s \in SessionIds : HandleReconnect(s) PROVE SInv'
<1>1. PICK r : /\ conn' = Append(conn, r) /\ IsConn(r) /\ r.at \in {"save", "resave"}
               /\ UNCHANGED <<record, entry, wiped, sentTo, del>>
  <2>1. CASE HandleConnect
    <3>1. PICK s : conn' = Append(conn, NewConn(s, 0, "save")) BY <2>1 DEF HandleConnect
    <3>2. UNCHANGED <<record, entry, wiped, sentTo, del>> BY <2>1 DEF HandleConnect, stores
    <3> QED BY <3>1, <3>2, NewConnIsConn
  <2>2. ASSUME NEW s \in SessionIds, HandleReconnect(s)
        PROVE  \E r : /\ conn' = Append(conn, r) /\ IsConn(r) /\ r.at \in {"save", "resave"}
                      /\ UNCHANGED <<record, entry, wiped, sentTo, del>>
    BY <2>2, NewConnIsConn DEF HandleReconnect, stores
  <2> QED BY <2>1, <2>2
<1> QED BY <1>1, PlainConn, ConnAdded

-----------------------------------------------------------------------------
(* Steps of deliveries and of the clean-up.                                 *)

\* What a connection promises stays true when more is stored or sent, or when
\* what is taken away is wiped.
LEMMA ConnOKKept ==
    ASSUME NEW c, NEW cached, NEW gone, NEW to, ConnOK(c, cached, gone, to),
           NEW cached2, NEW gone2, NEW to2,
           gone \subseteq gone2, cached \subseteq cached2 \cup gone2,
           \A e \in cached : to2[e] = to[e]
    PROVE  ConnOK(c, cached2, gone2, to2)
BY DEF ConnOK

LEMMA DeliveryOKKept ==
    ASSUME NEW r, NEW rec, NEW gone, NEW to, DeliveryOK(r, rec, gone, to),
           NEW rec2, NEW gone2, NEW to2,
           DOMAIN to \subseteq DOMAIN to2, rec \cup gone \subseteq rec2 \cup gone2
    PROVE  DeliveryOK(r, rec2, gone2, to2)
BY DEF DeliveryOK

\* One delivery moves on; the others see no difference.
LEMMA DeliveryStep ==
    ASSUME SInv, NEW d \in Deliverers, NEW r, DeliveryAt(d, r),
           UNCHANGED <<wiped, sentTo>>, record \subseteq record', entry \subseteq entry',
           record' \subseteq DOMAIN sentTo, entry' \subseteq DOMAIN sentTo,
           DeliveryOK(r, record', wiped, sentTo),
           IsSeq(conn'), \A k \in DOMAIN conn' : ConnOK(conn'[k], record \cap entry, wiped, sentTo),
           \A e \in DOMAIN sentTo \ wiped : e = del[d].e /\ Written(e, del') => e \in record' \cap entry'
    PROVE  SInv'
<1>1. /\ del' = [del EXCEPT ![d] = r] /\ del'[d] = r /\ del' = [x \in Deliverers |-> del'[x]]
      /\ \A x \in Deliverers \ {d} : del'[x] = del[x]
  BY DEF DeliveryAt, SInv
<1>2. \A x \in Deliverers : DeliveryOK(del'[x], record', wiped', sentTo')
  <2> SUFFICES ASSUME NEW x \in Deliverers, x # d PROVE DeliveryOK(del'[x], record', wiped', sentTo')
    BY <1>1
  <2>1. DeliveryOK(del[x], record, wiped, sentTo) /\ del'[x] = del[x] BY <1>1 DEF SInv
  <2> QED BY <2>1, DeliveryOKKept
<1>3. \A k \in DOMAIN conn' : ConnOK(conn'[k], record' \cap entry', wiped', sentTo')
  <2> SUFFICES ASSUME NEW k \in DOMAIN conn' PROVE ConnOK(conn'[k], record' \cap entry', wiped', sentTo')
    OBVIOUS
  <2> DEFINE c == conn'[k]
  <2>1. ConnOK(c, record \cap entry, wiped, sentTo) OBVIOUS
  <2> HIDE DEF c
  <2>2. ConnOK(c, record' \cap entry', wiped', sentTo') BY <2>1, ConnOKKept
  <2> QED BY <2>2 DEF c
<1>4. WrittenIsFound'
  <2> SUFFICES ASSUME NEW e \in DOMAIN sentTo \ wiped, Written(e, del') PROVE e \in record' \cap entry'
    BY DEF WrittenIsFound
  <2>1. CASE e = del[d].e BY <2>1
  <2>2. CASE e # del[d].e
    <3>1. Written(e, del) BY <1>1, <2>2 DEF Written
    <3> QED BY <3>1 DEF SInv, WrittenIsFound
  <2> QED BY <2>1, <2>2
<1> QED BY <1>1, <1>2, <1>3, <1>4 DEF SInv

LEMMA StoreRecordKeeps == ASSUME SInv, NEW d \in Deliverers, StoreRecord(d) PROVE SInv'
<1> DEFINE l == IF del[d].at = "store" THEN "storeEntry" ELSE "markEntry"
           r == [del[d] EXCEPT !.at = l]
<1>1. /\ DeliveryAt(d, r) /\ record' = record \cup {del[d].e} /\ del[d].at \in {"store", "mark"}
      /\ DeliveryOK(del[d], record, wiped, sentTo) /\ UNCHANGED <<entry, wiped, sentTo, conn>>
  BY DEF StoreRecord, SInv, DeliveryOK
<1>2. DOMAIN r = {"at", "e", "k"} /\ r.at = l /\ r.e = del[d].e /\ del[d].e \in DOMAIN sentTo
  BY <1>1 DEF DeliveryOK
<1>3. del'[d] = r BY <1>1 DEF DeliveryAt, SInv
<1>4. DeliveryOK(r, record', wiped, sentTo) BY <1>1, <1>2 DEF DeliveryOK
<1>5. ASSUME NEW e \in DOMAIN sentTo \ wiped, e = del[d].e, Written(e, del') PROVE e \in record' \cap entry'
  <2>1. l # "storeEntry" BY <1>2, <1>3, <1>5 DEF Written
  <2>2. del[d].at = "mark" BY <1>1, <2>1
  <2>3. \A x \in Deliverers \ {d} : del'[x] = del[x] BY <1>1 DEF DeliveryAt, SInv
  <2>4. Written(e, del) BY <1>5, <2>2, <2>3 DEF Written
  <2> QED BY <1>1, <1>5, <2>4 DEF SInv, WrittenIsFound
<1> HIDE DEF r, l
<1>6. record' \subseteq DOMAIN sentTo /\ record \subseteq record' /\ entry' \subseteq DOMAIN sentTo
      /\ IsSeq(conn') /\ \A k \in DOMAIN conn' : ConnOK(conn'[k], record \cap entry, wiped, sentTo)
  BY <1>1, <1>2 DEF SInv
<1> QED BY <1>1, <1>4, <1>5, <1>6, DeliveryStep

LEMMA StoreEntryKeeps == ASSUME SInv, NEW d \in Deliverers, StoreEntry(d) PROVE SInv'
<1> DEFINE r == IF del[d].at = "storeEntry" THEN [del[d] EXCEPT !.at = "lookup"] ELSE Resting
<1>1. /\ DeliveryAt(d, r) /\ entry' = entry \cup {del[d].e} /\ del[d].at \in {"storeEntry", "markEntry"}
      /\ DeliveryOK(del[d], record, wiped, sentTo) /\ UNCHANGED <<record, wiped, sentTo, conn>>
  BY DEF StoreEntry, SInv, DeliveryOK
<1>2. DeliveryOK(r, record', wiped, sentTo) BY <1>1 DEF DeliveryOK, Resting
<1>3. ASSUME NEW e \in DOMAIN sentTo \ wiped, e = del[d].e, Written(e, del') PROVE e \in record' \cap entry'
  <2>1. CASE del[d].at = "storeEntry" BY <1>1, <1>3, <2>1 DEF DeliveryOK
  <2>2. CASE del[d].at = "markEntry"
    <3>1. \A x \in Deliverers \ {d} : del'[x] = del[x] BY <1>1 DEF DeliveryAt, SInv
    <3>2. Written(e, del) BY <1>3, <2>2, <3>1 DEF Written
    <3> QED BY <1>1, <1>3, <3>2 DEF SInv, WrittenIsFound
  <2> QED BY <1>1, <2>1, <2>2
<1> HIDE DEF r
<1>4. entry' \subseteq DOMAIN sentTo /\ entry \subseteq entry' /\ record' \subseteq DOMAIN sentTo
      /\ IsSeq(conn') /\ \A k \in DOMAIN conn' : ConnOK(conn'[k], record \cap entry, wiped, sentTo)
  BY <1>1 DEF SInv, DeliveryOK
<1> QED BY <1>1, <1>2, <1>3, <1>4, DeliveryStep

LEMMA SendingKeeps == ASSUME SInv, NEW d \in Deliverers, Lookup(d) \/ SendOrDrop(d) PROVE SInv'
<1>1. DeliveryOK(del[d], record, wiped, sentTo) /\ UNCHANGED <<record, entry, wiped, sentTo>>
      /\ del[d].at \in {"lookup", "send"}
  BY DEF SInv, Lookup, SendOrDrop, stores
<1>2. PICK r : DeliveryAt(d, r) /\ DeliveryOK(r, record, wiped, sentTo)
  <2>1. CASE Lookup(d)
    <3> DEFINE r1 == [del[d] EXCEPT !.at = "send", !.k = activeConn[sentTo[del[d].e]]]
    <3>1. DeliveryAt(d, r1) \/ DeliveryAt(d, Resting) BY <2>1 DEF Lookup
    <3>2. DeliveryOK(r1, record, wiped, sentTo) /\ DeliveryOK(Resting, record, wiped, sentTo)
      BY <1>1 DEF DeliveryOK, Resting
    <3> HIDE DEF r1
    <3> QED BY <3>1, <3>2
  <2>2. CASE SendOrDrop(d)
    <3> DEFINE r1 == [del[d] EXCEPT !.at = "mark"]
    <3>1. DeliveryAt(d, r1) \/ DeliveryAt(d, Resting) BY <2>2 DEF SendOrDrop
    <3>2. DeliveryOK(r1, record, wiped, sentTo) /\ DeliveryOK(Resting, record, wiped, sentTo)
      BY <1>1 DEF DeliveryOK, Resting
    <3> HIDE DEF r1
    <3> QED BY <3>1, <3>2
  <2> QED BY <2>1, <2>2
<1>3. IsSeq(conn') /\ \A k \in DOMAIN conn' : ConnOK(conn'[k], record \cap entry, wiped, sentTo)
  <2>1. CASE UNCHANGED conn BY <2>1 DEF SInv
  <2>2. CASE ~UNCHANGED conn
    <3> DEFINE k == del[d].k
               c == conn[k]
               q == IF c.up THEN Append(c.chan, del[d].e) ELSE c.chan
               n == [c EXCEPT !.chan = q]
    <3>1. conn' = [conn EXCEPT ![k] = n] BY <2>2 DEF Lookup, SendOrDrop, Step
    <3>2. CASE k \in DOMAIN conn
      <4>1. ConnOK(c, record \cap entry, wiped, sentTo) /\ IsSeq(conn) BY <3>2 DEF SInv
      <4>2. ConnOK(n, record \cap entry, wiped, sentTo)
        <5> HIDE DEF q
        <5>1. /\ IsConn(n) /\ n.at = c.at /\ n.s = c.s /\ n.after = c.after
              /\ n.missed = c.missed /\ n.early = c.early
          BY <4>1 DEF IsConn, ConnOK
        <5> QED BY <4>1, <5>1, SameAnswer
      <4> HIDE DEF n
      <4>3. /\ IsSeq(conn') /\ DOMAIN conn' = DOMAIN conn /\ conn'[k] = n
            /\ \A i \in DOMAIN conn \ {k} : conn'[i] = conn[i]
        BY <3>1, <3>2, <4>1, ExceptIsSeq
      <4> QED BY <4>2, <4>3 DEF SInv
    <3>3. CASE k \notin DOMAIN conn
      <4>1. conn' = conn BY <3>1, <3>3 DEF SInv, IsSeq
      <4> QED BY <4>1 DEF SInv
    <3> QED BY <3>2, <3>3
  <2> QED BY <2>1, <2>2
<1>4. ASSUME NEW e \in DOMAIN sentTo \ wiped, e = del[d].e, Written(e, del') PROVE e \in record' \cap entry'
  <2>1. \A x \in Deliverers \ {d} : del'[x] = del[x] BY <1>2 DEF DeliveryAt, SInv
  <2>2. Written(e, del) BY <1>1, <1>4, <2>1 DEF Written
  <2> QED BY <1>1, <1>4, <2>2 DEF SInv, WrittenIsFound
<1>5. entry' \subseteq DOMAIN sentTo /\ record' \subseteq DOMAIN sentTo BY <1>1 DEF SInv
<1> QED BY <1>1, <1>2, <1>3, <1>4, <1>5, DeliveryStep

LEMMA DeliverEventKeeps ==
    ASSUME SInv, NEW d \in Deliverers, NEW s, DeliverEvent(d, s) PROVE SInv'
<1> DEFINE new == Len(sentTo) + 1
           r == [at |-> "store", e |-> new, k |-> 0]
<1>1. /\ sentTo' = Append(sentTo, s) /\ DeliveryAt(d, r) /\ del[d].at = "idle"
      /\ UNCHANGED <<record, entry, wiped, conn>>
  BY DEF DeliverEvent, stores
<1>2. /\ IsSeq(sentTo') /\ DOMAIN sentTo' = 1..Len(sentTo) + 1 /\ DOMAIN sentTo = 1..Len(sentTo)
      /\ Len(sentTo) \in Nat /\ \A i \in DOMAIN sentTo : sentTo'[i] = sentTo[i]
  BY <1>1, AppendIsSeq DEF SInv, IsSeq
<1>3. DOMAIN sentTo \subseteq DOMAIN sentTo' /\ new \in DOMAIN sentTo'
      /\ \A e \in DOMAIN sentTo' : e \in DOMAIN sentTo \/ e = new
  BY <1>2
<1>4. del' = [del EXCEPT ![d] = r] /\ del'[d] = r /\ del' = [x \in Deliverers |-> del'[x]]
      /\ \A x \in Deliverers \ {d} : del'[x] = del[x]
  BY <1>1 DEF DeliveryAt, SInv
<1>5. \A x \in Deliverers : DeliveryOK(del'[x], record', wiped', sentTo')
  <2>1. DeliveryOK(r, record', wiped', sentTo') BY <1>3 DEF DeliveryOK
  <2>2. ASSUME NEW x \in Deliverers, x # d PROVE DeliveryOK(del'[x], record', wiped', sentTo')
    <3>1. DeliveryOK(del[x], record, wiped, sentTo) /\ del'[x] = del[x] BY <1>4, <2>2 DEF SInv
    <3>2. record' = record /\ wiped' = wiped /\ DOMAIN sentTo \subseteq DOMAIN sentTo' BY <1>1, <1>3
    <3>3. DeliveryOK(del[x], record', wiped', sentTo') BY <3>1, <3>2 DEF DeliveryOK
    <3> QED BY <3>1, <3>3
  <2> QED BY <1>4, <2>1, <2>2
<1>6. ASSUME NEW k \in DOMAIN conn' PROVE ConnOK(conn'[k], record' \cap entry', wiped', sentTo')
  <2>1. ConnOK(conn[k], record \cap entry, wiped, sentTo) /\ conn'[k] = conn[k] BY <1>1 DEF SInv
  <2>2. \A e \in record \cap entry : sentTo'[e] = sentTo[e] BY <1>2 DEF SInv
  <2>3. record' \cap entry' = record \cap entry /\ wiped' = wiped BY <1>1
  <2>4. wiped \subseteq wiped /\ record \cap entry \subseteq (record \cap entry) \cup wiped OBVIOUS
  <2>5. ConnOK(conn[k], record \cap entry, wiped, sentTo') BY ONLY <2>1, <2>2, <2>4, ConnOKKept
  <2> QED BY <2>1, <2>3, <2>5
<1>7. WrittenIsFound'
  <2> SUFFICES ASSUME NEW e \in DOMAIN sentTo' \ wiped, Written(e, del') PROVE e \in record \cap entry
    BY <1>1 DEF WrittenIsFound
  <2>1. e # new BY <1>4 DEF Written
  <2>2. e \in DOMAIN sentTo BY <1>3, <2>1
  <2>3. Written(e, del) BY <1>1, <1>4 DEF Written
  <2> QED BY <2>2, <2>3 DEF SInv, WrittenIsFound
<1> QED BY <1>1, <1>2, <1>3, <1>4, <1>5, <1>6, <1>7 DEF SInv

LEMMA CleanupKeeps == ASSUME SInv, Cleanup PROVE SInv'
<1>1. PICK e : /\ record' = record \ {e} /\ entry' = entry \ {e} /\ wiped' = wiped \cup {e}
               /\ UNCHANGED <<sentTo, conn, del>>
  BY DEF Cleanup
<1>2. ASSUME NEW k \in DOMAIN conn' PROVE ConnOK(conn'[k], record' \cap entry', wiped', sentTo')
  <2>1. ConnOK(conn[k], record \cap entry, wiped, sentTo) /\ conn'[k] = conn[k] BY <1>1 DEF SInv
  <2>2. record \cap entry \subseteq (record' \cap entry') \cup wiped' /\ wiped \subseteq wiped' BY <1>1
  <2> QED BY <1>1, <2>1, <2>2, ConnOKKept
<1>3. ASSUME NEW d \in Deliverers PROVE DeliveryOK(del'[d], record', wiped', sentTo')
  <2>1. DeliveryOK(del[d], record, wiped, sentTo) /\ del'[d] = del[d] BY <1>1 DEF SInv
  <2> QED BY <1>1, <2>1, DeliveryOKKept
<1>4. WrittenIsFound' BY <1>1 DEF SInv, WrittenIsFound, Written
<1> QED BY <1>1, <1>2, <1>3, <1>4 DEF SInv

LEMMA SessionsStep == SInv /\ [SessionsNext]_sessionVars => SInv'
<1> SUFFICES ASSUME SInv, [SessionsNext]_sessionVars PROVE SInv' OBVIOUS
<1>1. CASE UNCHANGED sessionVars BY <1>1, StoresKeep DEF sessionVars, stores
<1>2. CASE HandleConnect \/ \E s \in SessionIds : HandleReconnect(s) BY <1>2, ConnectKeeps
<1>3. CASE FindExpired \/ \E s \in SessionIds : Expires(s) \/ DeleteExpired(s)
  BY <1>3, StoresKeep DEF FindExpired, Expires, DeleteExpired
<1>4. CASE Cleanup BY <1>4, CleanupKeeps
<1>5. ASSUME NEW k \in 1..MaxConns, Activate(k) \/ GetMissed(k) \/ ReplayEvents(k) PROVE SInv'
  BY <1>5, ActivateKeeps, GetMissedKeeps, ReplayKeeps
<1>6. ASSUME NEW k \in 1..MaxConns, \/ SaveActive(k) \/ HandleDisconnect(k) \/ ReadState(k)
                                    \/ UpdateState(k) \/ ClientReceives(k) \/ Break(k)
      PROVE  SInv'
  BY <1>6, ConnMoves
<1>7. ASSUME NEW d \in Deliverers, \/ StoreRecord(d) \/ StoreEntry(d) \/ Lookup(d) \/ SendOrDrop(d)
                                   \/ \E s \in DOMAIN saved : DeliverEvent(d, s)
      PROVE  SInv'
  BY <1>7, StoreRecordKeeps, StoreEntryKeeps, SendingKeeps, DeliverEventKeeps
<1> QED BY <1>1, <1>2, <1>3, <1>4, <1>5, <1>6, <1>7 DEF SessionsNext

\* No gap between the replay and the live events of a connection, for every
\* number of connections, deliverers and events (connection.go:234).
THEOREM NoGapBetweenReplayAndLive == SessionsSpec => []NoGapAtResume
<1>1. SessionsInit => SInv BY InitSInv
<1>2. SInv /\ [SessionsNext]_sessionVars => SInv' BY SessionsStep
<1>3. SInv => NoGapAtResume BY DEF SInv, ConnOK, NoGapAtResume
<1> QED BY <1>1, <1>2, <1>3, PTL DEF SessionsSpec

-----------------------------------------------------------------------------
(* Filters.  A poll that writes the position of a filter has read the same  *)
(* filter, as long as no identifier has come around again, and what it has  *)
(* found reaches from the position it read to the one it writes; between    *)
(* the two the filter may have been told more, and never less.              *)

IdCount == 2^IdBits

\* The first IdCount filters have an identifier of their own.
LEMMA OwnId ==
    ASSUME NEW a \in 1..IdCount, NEW b \in 1..IdCount, a % IdCount = b % IdCount
    PROVE  a = b
<1> DEFINE N == IdCount
<1>0. N \in Nat \ {0} BY IdBitsAssumption DEF IdCount
<1> HIDE DEF N
<1>1. \A c \in 1..N : c < N => c % N = c BY <1>0
<1>2. N % N = 0 BY <1>0
<1>3. a \in 1..N /\ b \in 1..N /\ a % N = b % N BY DEF N
<1> QED BY <1>0, <1>1, <1>2, <1>3

\* What filter f has to report up to the position h, and how far a position
\* can be.
Due(f, h) == (f.from + 1)..h \cap (IF f.kind = "Pending" THEN Pooled ELSE Nat)
Reached(f, h) == h \in Nat /\ IF f.kind = "Pending" THEN h < nextIndex ELSE h <= top

PoolShapes ==
    /\ height \in Nat /\ top \in Nat /\ height <= top
    /\ nextIndex \in Nat \ {0}
    /\ IsSeq(transactions) /\ details = [h \in DOMAIN details |-> details[h]]
    /\ DOMAIN details = {transactions[i] : i \in DOMAIN transactions}
    /\ \A i, j \in DOMAIN transactions : transactions[i] = transactions[j] => i = j
    /\ \A h \in DOMAIN details : details[h] \in Nat /\ details[h] < nextIndex

IsFilter(f) == DOMAIN f = {"kind", "from", "last", "told"} /\ f.from \in Nat /\ f.last \in Nat

FilterShapes ==
    /\ IsSeq(filter) /\ \A o \in DOMAIN filter : IsFilter(filter[o])
    /\ \A id \in DOMAIN table : table[id] \in DOMAIN filter /\ id = table[id] % IdCount

\* A poll knows a filter that was the one of its identifier.
Knows(r) ==
    /\ r.o \in DOMAIN filter /\ r.id = r.o % IdCount
    /\ r.id \in DOMAIN table => r.o <= table[r.id]

PollOK(r) ==
    /\ DOMAIN r = {"at", "kind", "id", "o", "height", "found"}
    /\ r.at \in {"idle", "new", "again", "pending", "height", "read", "update"}
    /\ r.height \in Nat
    /\ r.at = "new" => r.height <= top
    /\ r.at \notin {"idle", "new"} => Knows(r)
    /\ r.at \in {"again", "pending", "height", "read"} => r.found = {}
    /\ r.at = "pending" => filter[r.o].kind = "Pending"
    /\ r.at \in {"height", "read"} => filter[r.o].kind # "Pending"
    /\ r.at = "read" => r.height <= top
    /\ r.at = "update" /\ r.o <= IdCount =>
          /\ Reached(filter[r.o], r.height)
          /\ Due(filter[r.o], r.height) \subseteq filter[r.o].told \cup r.found

\* A filter with an identifier of its own is where it has reported to.
FilterOK(o) == o <= IdCount => Reached(filter[o], filter[o].last) /\ Due(filter[o], filter[o].last) \subseteq filter[o].told

FilterInv ==
    /\ PoolShapes /\ FilterShapes
    /\ poll = [p \in Pollers |-> poll[p]] /\ \A p \in Pollers : PollOK(poll[p])
    /\ \A o \in DOMAIN filter : FilterOK(o)

LEMMA InitFilterInv == FiltersInit => FilterInv
<1> SUFFICES ASSUME FiltersInit PROVE FilterInv OBVIOUS
<1>1. PoolShapes BY DEF FiltersInit, PoolShapes, IsSeq
<1>2. FilterShapes /\ DOMAIN filter = {} BY DEF FiltersInit, FilterShapes, IsSeq
<1>3. \A p \in Pollers : PollOK(poll[p]) BY DEF FiltersInit, PollOK, NoPoll
<1> QED BY <1>1, <1>2, <1>3 DEF FilterInv, FiltersInit

LEMMA InvSkipsNothing == FilterInv => NothingSkipped
<1> SUFFICES ASSUME FilterInv, NEW id \in DOMAIN table, table[id] <= 2^IdBits
             PROVE  (IF filter[table[id]].kind = "Pending" THEN Pooled ELSE 1..top)
                       \cap (filter[table[id]].from + 1)..filter[table[id]].last \subseteq filter[table[id]].told
  BY DEF NothingSkipped
<1>1. table[id] \in DOMAIN filter /\ table[id] <= IdCount BY DEF FilterInv, FilterShapes, IdCount
<1>2. Due(filter[table[id]], filter[table[id]].last) \subseteq filter[table[id]].told
  BY <1>1 DEF FilterInv, FilterOK
<1>3. 1..top \subseteq Nat BY DEF FilterInv, PoolShapes
<1> QED BY <1>2, <1>3 DEF Due

-----------------------------------------------------------------------------
\* The pool and the indexer leave positions and what is due for them alone.
LEMMA WorldStep ==
    ASSUME FilterInv, PoolShapes', UNCHANGED <<filter, table, poll>>,
           top <= top', nextIndex <= nextIndex',
           \A n \in Pooled' : n \in Pooled \/ n >= nextIndex
    PROVE  FilterInv'
<1>0. top \in Nat /\ top' \in Nat /\ nextIndex \in Nat /\ nextIndex' \in Nat
  BY DEF FilterInv, PoolShapes
<1>1. ASSUME NEW f, NEW h, Reached(f, h), f.from \in Nat
      PROVE  /\ h \in Nat /\ (IF f.kind = "Pending" THEN h < nextIndex' ELSE h <= top')
             /\ (f.from + 1)..h \cap (IF f.kind = "Pending" THEN Pooled' ELSE Nat) \subseteq Due(f, h)
  <2>1. h \in Nat BY <1>1 DEF Reached
  <2>2. CASE f.kind = "Pending"
    <3>1. h < nextIndex BY <1>1, <2>2 DEF Reached
    <3>2. ASSUME NEW n \in (f.from + 1)..h, n \in Pooled' PROVE n \in Pooled
      BY <1>0, <1>1, <2>1, <3>1, <3>2
    <3> QED BY <1>0, <2>1, <2>2, <3>1, <3>2 DEF Due
  <2>3. CASE f.kind # "Pending"
    BY <1>0, <1>1, <2>1, <2>3 DEF Due, Reached
  <2> QED BY <2>2, <2>3
<1>2. FilterShapes' BY DEF FilterInv, FilterShapes
<1>3. ASSUME NEW o \in DOMAIN filter PROVE FilterOK(o)'
  <2> SUFFICES ASSUME o <= IdCount
               PROVE  Reached(filter[o], filter[o].last)' /\ (Due(filter[o], filter[o].last) \subseteq filter[o].told)'
    BY DEF FilterOK, IdCount
  <2>1. Reached(filter[o], filter[o].last) /\ Due(filter[o], filter[o].last) \subseteq filter[o].told
        /\ filter[o].from \in Nat
    BY DEF FilterInv, FilterOK, FilterShapes, IsFilter
  <2> QED BY <1>1, <2>1 DEF Reached, Due
<1>4. ASSUME NEW p \in Pollers PROVE PollOK(poll[p])'
  <2> DEFINE r == poll[p]
             f == filter[r.o]
  <2>1. PollOK(r) BY DEF FilterInv
  <2>2. r.at = "update" /\ r.o <= IdCount => Reached(f, r.height)' /\ (Due(f, r.height) \subseteq f.told \cup r.found)'
    <3> SUFFICES ASSUME r.at = "update", r.o <= IdCount
                 PROVE  Reached(f, r.height)' /\ (Due(f, r.height) \subseteq f.told \cup r.found)'
      OBVIOUS
    <3>1. Reached(f, r.height) /\ Due(f, r.height) \subseteq f.told \cup r.found /\ f.from \in Nat
      BY <2>1 DEF PollOK, Knows, FilterInv, FilterShapes, IsFilter
    <3> QED BY <1>1, <3>1 DEF Reached, Due
  <2> QED BY <1>0, <2>1, <2>2 DEF PollOK, Knows, IdCount
<1> QED BY <1>2, <1>3, <1>4 DEF FilterInv

LEMMA IndexerKeeps == ASSUME FilterInv, IndexBlock \/ FillGap PROVE FilterInv'
<1>1. PoolShapes' /\ top <= top'
  BY DEF FilterInv, PoolShapes, IndexBlock, FillGap, pool
<1>2. Pooled' = Pooled /\ nextIndex <= nextIndex' /\ UNCHANGED <<filter, table, poll>>
  BY DEF FilterInv, PoolShapes, Pooled, IndexBlock, FillGap, pool
<1> QED BY <1>1, <1>2, WorldStep

\* The pool loses transactions: those at the positions that keep is not true of.
LEMMA PoolShrinks ==
    ASSUME FilterInv, NEW gone, details' = Drop(details, gone), UNCHANGED <<height, top, filter, table, poll, nextIndex>>,
           IsSeq(transactions'),
           DOMAIN details' = {transactions'[i] : i \in DOMAIN transactions'},
           \A i, j \in DOMAIN transactions' : transactions'[i] = transactions'[j] => i = j
    PROVE  FilterInv'
<1>1. /\ DOMAIN details' = DOMAIN details \ gone /\ \A h \in DOMAIN details' : details'[h] = details[h]
      /\ details' = [h \in DOMAIN details' |-> details'[h]]
  BY DEF Drop
<1>2. PoolShapes' BY <1>1 DEF FilterInv, PoolShapes
<1>3. \A n \in Pooled' : n \in Pooled BY <1>1 DEF Pooled
<1>4. top <= top' /\ nextIndex <= nextIndex' BY DEF FilterInv, PoolShapes
<1> QED BY <1>2, <1>3, <1>4, WorldStep

\* A stretch of a sequence.
LEMMA Stretch ==
    ASSUME NEW s, IsSeq(s), NEW a \in Nat \ {0}, NEW b \in Nat, b <= Len(s), a <= b + 1
    PROVE  LET t == SubSeq(s, a, b) IN IsSeq(t) /\ Len(t) = b - a + 1 /\ \A i \in 1..Len(t) : t[i] = s[a + i - 1]
<1> DEFINE T == {s[i] : i \in 1..Len(s)}
           t == SubSeq(s, a, b)
<1>1. s \in Seq(T) /\ Len(s) \in Nat BY DEF IsSeq
<1> HIDE DEF T
<1>2. t = [i \in 1..(b - a + 1) |-> s[a + i - 1]] BY <1>1
<1>3. Len(t) = b - a + 1 BY <1>1, <1>2
<1> HIDE DEF t
<1>4. IsSeq(t) BY <1>1, <1>2, <1>3 DEF IsSeq
<1>5. \A i \in 1..Len(t) : t[i] = s[a + i - 1] BY <1>2, <1>3
<1> QED BY <1>3, <1>4, <1>5 DEF t

LEMMA Rest ==
    ASSUME NEW s, IsSeq(s), NEW k \in 0..Len(s)
    PROVE  LET t == SubSeq(s, k + 1, Len(s)) IN IsSeq(t) /\ Len(t) = Len(s) - k /\ \A i \in 1..Len(t) : t[i] = s[k + i]
<1> DEFINE a == k + 1
           t == SubSeq(s, a, Len(s))
<1>1. a \in Nat \ {0} /\ Len(s) \in Nat /\ Len(s) <= Len(s) /\ a <= Len(s) + 1 BY DEF IsSeq
<1>2. IsSeq(t) /\ Len(t) = Len(s) - a + 1 /\ \A i \in 1..Len(t) : t[i] = s[a + i - 1]
  <2> HIDE DEF a
  <2> QED BY <1>1, Stretch
<1> HIDE DEF t
<1>3. Len(t) = Len(s) - k /\ Len(t) \in Nat BY <1>1, <1>2
<1>4. \A i \in 1..Len(t) : a + i - 1 = k + i BY <1>3
<1>5. \A i \in 1..Len(t) : t[i] = s[k + i] BY <1>2, <1>4
<1> QED BY <1>2, <1>3, <1>5 DEF t

LEMMA Beginning ==
    ASSUME NEW s, IsSeq(s), NEW k \in 0..Len(s)
    PROVE  LET t == SubSeq(s, 1, k) IN IsSeq(t) /\ Len(t) = k /\ \A i \in 1..Len(t) : t[i] = s[i]
<1> DEFINE t == SubSeq(s, 1, k)
<1>1. 1 \in Nat \ {0} /\ Len(s) \in Nat /\ k \in Nat /\ k <= Len(s) /\ 1 <= k + 1 BY DEF IsSeq
<1>2. IsSeq(t) /\ Len(t) = k - 1 + 1 /\ \A i \in 1..Len(t) : t[i] = s[1 + i - 1]
  BY <1>1, Stretch
<1> HIDE DEF t
<1>3. Len(t) = k BY <1>1, <1>2
<1>4. \A i \in 1..Len(t) : 1 + i - 1 = i BY <1>1, <1>3
<1>5. \A i \in 1..Len(t) : t[i] = s[i] BY <1>2, <1>4
<1> QED BY <1>2, <1>3, <1>5 DEF t

LEMMA ConcatIsSeq ==
    ASSUME NEW a, NEW b, IsSeq(a), IsSeq(b)
    PROVE  /\ IsSeq(a \o b) /\ Len(a \o b) = Len(a) + Len(b)
           /\ \A i \in 1..Len(a) + Len(b) : (a \o b)[i] = IF i <= Len(a) THEN a[i] ELSE b[i - Len(a)]
<1> DEFINE T == {a[i] : i \in 1..Len(a)} \cup {b[i] : i \in 1..Len(b)}
           t == a \o b
<1>1. a \in Seq(T)
  <2>1. a = [i \in 1..Len(a) |-> a[i]] /\ \A i \in 1..Len(a) : a[i] \in T BY DEF IsSeq
  <2> HIDE DEF T
  <2> QED BY <2>1 DEF IsSeq
<1>2. b \in Seq(T)
  <2>1. b = [i \in 1..Len(b) |-> b[i]] /\ \A i \in 1..Len(b) : b[i] \in T BY DEF IsSeq
  <2> HIDE DEF T
  <2> QED BY <2>1 DEF IsSeq
<1> HIDE DEF T
<1>3. /\ t \in Seq(T) /\ Len(t) = Len(a) + Len(b)
      /\ \A i \in 1..Len(a) + Len(b) : t[i] = IF i <= Len(a) THEN a[i] ELSE b[i - Len(a)]
  BY <1>1, <1>2, ConcatProperties
<1> HIDE DEF t
<1>4. IsSeq(t) BY <1>3 DEF IsSeq
<1> QED BY <1>3, <1>4 DEF t

LEMMA PoolCleanupKeeps == ASSUME FilterInv, PoolCleanup PROVE FilterInv'
<1> DEFINE s == transactions
<1>1. PICK k \in 1..Len(s) : /\ transactions' = SubSeq(s, k + 1, Len(s))
                             /\ details' = Drop(details, {s[i] : i \in 1..k})
  BY DEF PoolCleanup
<1>2. IsSeq(s) /\ Len(s) \in Nat /\ DOMAIN s = 1..Len(s) BY DEF FilterInv, PoolShapes, IsSeq
<1> DEFINE t == SubSeq(s, k + 1, Len(s))
<1>3. IsSeq(t) /\ Len(t) = Len(s) - k /\ \A i \in 1..Len(t) : t[i] = s[k + i]
  <2>1. k \in 0..Len(s) BY <1>2
  <2> HIDE DEF s
  <2> QED BY <1>2, <2>1, Rest
<1> HIDE DEF t
<1>4. DOMAIN t = 1..Len(t) /\ Len(t) \in Nat BY <1>3 DEF IsSeq
<1>5. \A i, j \in DOMAIN t : t[i] = t[j] => i = j
  <2> SUFFICES ASSUME NEW i \in DOMAIN t, NEW j \in DOMAIN t, t[i] = t[j] PROVE i = j OBVIOUS
  <2>1. s[k + i] = s[k + j] /\ k + i \in DOMAIN s /\ k + j \in DOMAIN s BY <1>2, <1>3, <1>4
  <2>2. k + i = k + j BY <2>1 DEF FilterInv, PoolShapes
  <2> QED BY <1>4, <2>2
<1>6. DOMAIN details' = {t[i] : i \in DOMAIN t}
  <2>1. DOMAIN details' = DOMAIN details \ {s[i] : i \in 1..k} BY <1>1 DEF Drop
  <2>2. ASSUME NEW h \in DOMAIN details' PROVE \E i \in DOMAIN t : h = t[i]
    <3>1. PICK j \in DOMAIN s : h = s[j] BY <2>1 DEF FilterInv, PoolShapes
    <3>2. j \notin 1..k BY <2>1, <3>1
    <3>3. j - k \in DOMAIN t /\ k + (j - k) = j BY <1>2, <1>3, <1>4, <3>2
    <3> QED BY <1>3, <1>4, <3>1, <3>3
  <2>3. ASSUME NEW i \in DOMAIN t PROVE t[i] \in DOMAIN details'
    <3>1. t[i] = s[k + i] /\ k + i \in DOMAIN s /\ k + i \notin 1..k BY <1>2, <1>3, <1>4
    <3>2. s[k + i] \in DOMAIN details BY <3>1 DEF FilterInv, PoolShapes
    <3>3. \A j \in 1..k : s[j] # s[k + i] BY <1>2, <3>1 DEF FilterInv, PoolShapes
    <3> QED BY <2>1, <3>1, <3>2, <3>3
  <2> QED BY <2>2, <2>3
<1>7. transactions' = t /\ UNCHANGED <<height, top, filter, table, poll, nextIndex>> BY <1>1 DEF PoolCleanup, t
<1> DEFINE gone == {s[i] : i \in 1..k}
<1>8. details' = Drop(details, gone) BY <1>1
<1> HIDE DEF gone
<1> QED BY <1>3, <1>5, <1>6, <1>7, <1>8, PoolShrinks

LEMMA RemoveTransactionKeeps == ASSUME FilterInv, NEW h, RemoveTransaction(h) PROVE FilterInv'
<1> DEFINE s == transactions
<1>1. PICK k \in DOMAIN s : s[k] = h /\ transactions' = SubSeq(s, 1, k - 1) \o SubSeq(s, k + 1, Len(s))
  BY DEF RemoveTransaction
<1>2. IsSeq(s) /\ Len(s) \in Nat /\ DOMAIN s = 1..Len(s) BY DEF FilterInv, PoolShapes, IsSeq
<1> DEFINE a == SubSeq(s, 1, k - 1)
           b == SubSeq(s, k + 1, Len(s))
           t == a \o b
<1>3. IsSeq(a) /\ Len(a) = k - 1 /\ \A i \in 1..Len(a) : a[i] = s[i]
  <2>1. k - 1 \in 0..Len(s) BY <1>2
  <2> HIDE DEF s
  <2> QED BY <1>2, <2>1, Beginning
<1>4. IsSeq(b) /\ Len(b) = Len(s) - k /\ \A i \in 1..Len(b) : b[i] = s[k + i]
  BY <1>2, Rest, SMTT(30)
<1> HIDE DEF a, b
<1>5. IsSeq(t) /\ Len(t) = Len(s) - 1 /\ \A i \in 1..Len(t) : t[i] = IF i < k THEN s[i] ELSE s[i + 1]
  <2>2. IsSeq(t) /\ Len(t) = Len(a) + Len(b)
        /\ \A i \in 1..Len(a) + Len(b) : t[i] = IF i <= Len(a) THEN a[i] ELSE b[i - Len(a)]
    BY <1>3, <1>4, ConcatIsSeq
  <2> HIDE DEF t
  <2>4. Len(t) = Len(s) - 1 BY <1>2, <1>3, <1>4, <2>2
  <2>5. ASSUME NEW i \in 1..Len(t) PROVE t[i] = IF i < k THEN s[i] ELSE s[i + 1]
    <3>1. CASE i < k BY <1>2, <1>3, <2>2, <3>1
    <3>2. CASE i >= k
      <4>1. i - Len(a) \in 1..Len(b) /\ k + (i - Len(a)) = i + 1 BY <1>2, <1>3, <1>4, <2>4, <3>2
      <4>2. t[i] = b[i - Len(a)] BY <1>2, <1>3, <2>2, <3>2
      <4> QED BY <1>2, <1>4, <3>2, <4>1, <4>2
    <3> QED BY <1>2, <3>1, <3>2
  <2> QED BY <2>2, <2>4, <2>5
<1>6. transactions' = t BY <1>1 DEF a, b
<1> HIDE DEF t
<1>7. DOMAIN t = 1..Len(t) /\ Len(t) \in Nat BY <1>5 DEF IsSeq
<1> DEFINE From(i) == IF i < k THEN i ELSE i + 1
<1>8. \A i \in DOMAIN t : From(i) \in DOMAIN s /\ From(i) # k /\ t[i] = s[From(i)] BY <1>2, <1>5, <1>7
<1>9. \A i, j \in DOMAIN t : t[i] = t[j] => i = j
  <2> SUFFICES ASSUME NEW i \in DOMAIN t, NEW j \in DOMAIN t, t[i] = t[j] PROVE i = j OBVIOUS
  <2>1. From(i) = From(j) BY <1>8 DEF FilterInv, PoolShapes
  <2> QED BY <1>2, <1>7, <2>1
<1>10. DOMAIN details' = {t[i] : i \in DOMAIN t}
  <2>1. DOMAIN details' = DOMAIN details \ {h} BY DEF RemoveTransaction, Drop
  <2>2. ASSUME NEW x \in DOMAIN details' PROVE \E i \in DOMAIN t : x = t[i]
    <3>1. PICK j \in DOMAIN s : x = s[j] BY <2>1 DEF FilterInv, PoolShapes
    <3>2. j # k BY <1>1, <2>1, <3>1
    <3>3. CASE j < k
      <4>1. j \in DOMAIN t /\ From(j) = j BY <1>2, <1>5, <1>7, <3>3
      <4> QED BY <1>8, <3>1, <4>1
    <3>4. CASE j > k
      <4>1. j - 1 \in DOMAIN t /\ From(j - 1) = j BY <1>2, <1>5, <1>7, <3>4
      <4> QED BY <1>8, <3>1, <4>1
    <3> QED BY <1>2, <3>2, <3>3, <3>4
  <2>3. ASSUME NEW i \in DOMAIN t PROVE t[i] \in DOMAIN details'
    <3> HIDE DEF From
    <3>1. t[i] \in DOMAIN details BY <1>8 DEF FilterInv, PoolShapes
    <3>2. t[i] # h BY <1>1, <1>8 DEF FilterInv, PoolShapes
    <3> QED BY <2>1, <3>1, <3>2
  <2> QED BY <2>2, <2>3
<1>11. details' = Drop(details, {h}) /\ UNCHANGED <<height, top, filter, table, poll, nextIndex>>
  BY DEF RemoveTransaction
<1> QED BY <1>5, <1>6, <1>9, <1>10, <1>11, PoolShrinks
\* Taking the oldest transaction out of a full pool, or nothing.
LEMMA AddTransactionKeeps == ASSUME FilterInv, NEW h, AddTransaction(h) PROVE FilterInv'
<1> DEFINE s == transactions
           full == s # <<>> /\ Len(s) >= MaxSize
           t == IF full THEN Tail(s) ELSE s
           d == IF full THEN Drop(details, {Head(s)}) ELSE details
<1>1. /\ h \notin DOMAIN details /\ transactions' = Append(t, h) /\ details' = Bind(d, h, nextIndex)
      /\ nextIndex' = nextIndex + 1 /\ UNCHANGED <<height, top, filter, table, poll>>
  BY DEF AddTransaction
<1>2. IsSeq(s) /\ Len(s) \in Nat /\ DOMAIN s = 1..Len(s) /\ DOMAIN details = {s[i] : i \in DOMAIN s}
      /\ \A i, j \in DOMAIN s : s[i] = s[j] => i = j
  BY DEF FilterInv, PoolShapes, IsSeq
<1>3. /\ IsSeq(t) /\ DOMAIN t = 1..Len(t) /\ Len(t) \in Nat
      /\ DOMAIN d = {t[i] : i \in DOMAIN t} /\ \A i, j \in DOMAIN t : t[i] = t[j] => i = j
      /\ DOMAIN d \subseteq DOMAIN details /\ \A x \in DOMAIN d : d[x] = details[x]
  <2>1. CASE ~full BY <1>2, <2>1
  <2>2. CASE full
    <3>1. Len(s) # 0 BY <1>2, <2>2 DEF IsSeq
    <3>2. Head(s) = s[1] /\ t = SubSeq(s, 1 + 1, Len(s))
      <4>1. s \in Seq({s[i] : i \in 1..Len(s)}) BY <1>2 DEF IsSeq
      <4>2. t = Tail(s) BY <2>2
      <4> HIDE DEF s, t, full
      <4>3. Head(s) = s[1] /\ Tail(s) = SubSeq(s, 1 + 1, Len(s)) BY <3>1, <4>1
      <4> QED BY <4>2, <4>3
    <3>3. IsSeq(t) /\ Len(t) = Len(s) - 1 /\ \A i \in 1..Len(t) : t[i] = s[1 + i]
      <4>1. 1 \in 0..Len(s) BY <1>2, <3>1
      <4>2. t = SubSeq(s, 1 + 1, Len(s)) BY <3>2
      <4>3. IsSeq(s) BY <1>2
      <4> HIDE DEF s, t, full, d
      <4>4. LET r == SubSeq(s, 1 + 1, Len(s))
            IN  IsSeq(r) /\ Len(r) = Len(s) - 1 /\ \A i \in 1..Len(r) : r[i] = s[1 + i]
        BY <4>1, <4>3, Rest
      <4> QED BY <4>2, <4>4
    <3> HIDE DEF t
    <3>4. DOMAIN t = 1..Len(t) /\ Len(t) \in Nat BY <3>3 DEF IsSeq
    <3>5. DOMAIN d = DOMAIN details \ {s[1]} /\ \A x \in DOMAIN d : d[x] = details[x] BY <2>2, <3>2 DEF Drop
    <3> HIDE DEF d
    <3>6. ASSUME NEW x \in DOMAIN d PROVE \E i \in DOMAIN t : x = t[i]
      <4>1. PICK j \in DOMAIN s : x = s[j] BY <1>2, <3>5
      <4>2. j - 1 \in DOMAIN t /\ 1 + (j - 1) = j BY <1>2, <3>3, <3>4, <3>5, <4>1
      <4> QED BY <3>3, <3>4, <4>1, <4>2
    <3>7. ASSUME NEW i \in DOMAIN t
          PROVE  t[i] \in DOMAIN d /\ 1 + i \in DOMAIN s /\ t[i] = s[1 + i]
      <4>1. 1 + i \in DOMAIN s /\ t[i] = s[1 + i] /\ 1 + i # 1 /\ 1 \in DOMAIN s BY <1>2, <3>1, <3>3, <3>4
      <4>2. s[1 + i] # s[1] BY <1>2, <4>1
      <4> QED BY <1>2, <3>5, <4>1, <4>2
    <3>8. \A i, j \in DOMAIN t : t[i] = t[j] => i = j
      <4> SUFFICES ASSUME NEW i \in DOMAIN t, NEW j \in DOMAIN t, t[i] = t[j] PROVE i = j OBVIOUS
      <4>1. 1 + i = 1 + j BY <1>2, <3>7
      <4> QED BY <3>4, <4>1
    <3>9. DOMAIN d = {t[i] : i \in DOMAIN t} BY <3>6, <3>7
    <3> QED BY <3>3, <3>4, <3>5, <3>8, <3>9
  <2> QED BY <2>1, <2>2
<1> HIDE DEF t, d
<1>4. h \notin DOMAIN d BY <1>1, <1>3
<1> DEFINE u == Append(t, h)
<1>5. /\ IsSeq(u) /\ DOMAIN u = 1..Len(t) + 1
      /\ \A i \in 1..Len(t) : u[i] = t[i]
      /\ u[Len(t) + 1] = h
  BY <1>3, AppendIsSeq
<1>6. transactions' = u BY <1>1
<1> HIDE DEF u
<1>7. /\ DOMAIN details' = DOMAIN d \cup {h} /\ details'[h] = nextIndex
      /\ details' = [x \in DOMAIN details' |-> details'[x]]
      /\ \A x \in DOMAIN d : details'[x] = details[x]
  BY <1>1, <1>3, <1>4 DEF Bind
<1>8. \A i, j \in DOMAIN u : u[i] = u[j] => i = j
  <2> SUFFICES ASSUME NEW i \in DOMAIN u, NEW j \in DOMAIN u, u[i] = u[j] PROVE i = j OBVIOUS
  <2>1. \A k \in 1..Len(t) : u[k] # h BY <1>3, <1>4, <1>5
  <2>2. \A k \in DOMAIN u : k \in 1..Len(t) \/ k = Len(t) + 1 BY <1>3, <1>5
  <2>3. CASE i \in 1..Len(t) /\ j \in 1..Len(t) BY <1>3, <1>5, <2>3
  <2> QED BY <1>5, <2>1, <2>2, <2>3
<1>9. DOMAIN details' = {u[i] : i \in DOMAIN u}
  <2>1. 1..Len(t) + 1 = 1..Len(t) \cup {Len(t) + 1} BY <1>3
  <2>2. DOMAIN u = 1..Len(t) \cup {Len(t) + 1} BY <2>1, <1>5
  <2>3. \A i \in DOMAIN t : u[i] = t[i] BY <1>3, <1>5
  <2>4. DOMAIN d = {u[i] : i \in DOMAIN t} BY <1>3, <2>3
  <2> QED BY <1>3, <1>5, <1>7, <2>2, <2>4
<1>10. PoolShapes'
  <2>0. nextIndex \in Nat BY DEF FilterInv, PoolShapes
  <2>1. \A x \in DOMAIN details' : details'[x] \in Nat /\ details'[x] < nextIndex'
    <3>1. \A x \in DOMAIN d : details[x] \in Nat /\ details[x] < nextIndex BY <1>3 DEF FilterInv, PoolShapes
    <3> QED BY <1>1, <1>7, <2>0, <3>1
  <2>2. height' \in Nat /\ top' \in Nat /\ height' <= top' /\ nextIndex' \in Nat \ {0}
    BY <1>1, <2>0 DEF FilterInv, PoolShapes
  <2>3. /\ IsSeq(transactions') /\ DOMAIN details' = {transactions'[i] : i \in DOMAIN transactions'}
        /\ \A i, j \in DOMAIN transactions' : transactions'[i] = transactions'[j] => i = j
    BY <1>5, <1>6, <1>8, <1>9
  <2> QED BY <1>7, <2>1, <2>2, <2>3 DEF PoolShapes
<1>11. \A n \in Pooled' : n \in Pooled \/ n >= nextIndex
  BY <1>3, <1>7 DEF Pooled, FilterInv, PoolShapes
<1>12. top <= top' /\ nextIndex <= nextIndex' BY <1>1 DEF FilterInv, PoolShapes
<1> QED BY <1>1, <1>10, <1>11, <1>12, WorldStep

-----------------------------------------------------------------------------
\* A step of one poll that leaves the filters alone.
LEMMA PollStep ==
    ASSUME FilterInv, NEW p \in Pollers, NEW r, PollOK(r), PollAt(p, r),
           UNCHANGED <<height, top, filter, table, pool>>
    PROVE  FilterInv'
<1>1. poll' = [q \in Pollers |-> poll'[q]] /\ \A q \in Pollers : poll'[q] = IF q = p THEN r ELSE poll[q]
  BY DEF FilterInv, PollAt
<1>2. PoolShapes' /\ FilterShapes' BY DEF FilterInv, PoolShapes, FilterShapes, pool
<1>3. \A o \in DOMAIN filter : FilterOK(o)'
  BY DEF FilterInv, FilterOK, Reached, Due, Pooled, pool, IdCount
<1>4. ASSUME NEW q \in Pollers PROVE PollOK(poll[q])'
  <2> DEFINE x == poll'[q]
  <2>1. PollOK(x)
    <3>1. CASE q = p
      <4>1. x = r BY <1>1, <3>1
      <4> QED BY <4>1
    <3>2. CASE q # p
      <4>1. x = poll[q] BY <1>1, <3>2
      <4> HIDE DEF x
      <4> QED BY <4>1 DEF FilterInv
    <3> QED BY <3>1, <3>2
  <2> HIDE DEF x
  <2>2. PollOK(x) /\ UNCHANGED <<top, filter, table, details, nextIndex>> BY <2>1 DEF pool
  <2> SUFFICES /\ DOMAIN x = {"at", "kind", "id", "o", "height", "found"}
               /\ x.at \in {"idle", "new", "again", "pending", "height", "read", "update"}
               /\ x.height \in Nat
               /\ x.at = "new" => x.height <= top'
               /\ x.at \notin {"idle", "new"} => /\ x.o \in DOMAIN filter' /\ x.id = x.o % IdCount
                                                 /\ x.id \in DOMAIN table' => x.o <= table'[x.id]
               /\ x.at \in {"again", "pending", "height", "read"} => x.found = {}
               /\ x.at = "pending" => filter'[x.o].kind = "Pending"
               /\ x.at \in {"height", "read"} => filter'[x.o].kind # "Pending"
               /\ x.at = "read" => x.height <= top'
               /\ x.at = "update" /\ x.o <= IdCount =>
                     /\ Reached(filter[x.o], x.height)
                     /\ Due(filter[x.o], x.height) \subseteq filter[x.o].told \cup x.found
    BY <2>2 DEF PollOK, Knows, Reached, Due, Pooled, IdCount, x
  <2> QED BY <2>2 DEF PollOK, Knows
<1> QED BY <1>1, <1>2, <1>3, <1>4 DEF FilterInv

LEMMA IdlePoll == PollOK(NoPoll)
BY DEF PollOK, NoPoll

\* The reading steps of a poll.
LEMMA ReadersKeep ==
    ASSUME FilterInv, NEW p \in Pollers,
           \/ \E kind \in Kinds : ReadHeightForNew(p, kind)
           \/ \E id \in DOMAIN table : GetFilter(p, id)
           \/ GetFilterAgain(p) \/ GetLatestHeight(p) \/ PollFails(p)
    PROVE  FilterInv'
<1> DEFINE r == poll[p]
<1>0. /\ PollOK(r) /\ FilterShapes /\ height \in Nat /\ top \in Nat /\ height <= top /\ nextIndex \in Nat \ {0}
  BY DEF FilterInv, PoolShapes
<1>1. CASE \E kind \in Kinds : ReadHeightForNew(p, kind)
  <2>1. PICK kind \in Kinds : ReadHeightForNew(p, kind) BY <1>1
  <2> DEFINE x == [NoPoll EXCEPT !.at = "new", !.kind = kind, !.height = height]
  <2>2. PollOK(x) BY <1>0 DEF PollOK, NoPoll
  <2>3. PollAt(p, x) /\ UNCHANGED <<height, top, filter, table, pool>> BY <2>1 DEF ReadHeightForNew
  <2> HIDE DEF x
  <2> QED BY <2>2, <2>3, PollStep
<1>2. CASE \E id \in DOMAIN table : GetFilter(p, id)
  <2>1. PICK id \in DOMAIN table : GetFilter(p, id) BY <1>2
  <2> DEFINE x == [NoPoll EXCEPT !.at = "again", !.id = id, !.o = table[id]]
  <2>2. PollOK(x)
    <3>1. table[id] \in DOMAIN filter /\ id = table[id] % IdCount /\ table[id] <= table[id]
      BY <1>0 DEF FilterShapes, IsSeq
    <3> HIDE DEF IdCount
    <3> QED BY <3>1 DEF PollOK, NoPoll, Knows
  <2>3. PollAt(p, x) /\ UNCHANGED <<height, top, filter, table, pool>> BY <2>1 DEF GetFilter
  <2> HIDE DEF x
  <2> QED BY <2>2, <2>3, PollStep
<1>3. CASE GetFilterAgain(p)
  <2> DEFINE kind == filter[r.o].kind
             same == r.id \in DOMAIN table /\ filter[table[r.id]].kind = kind
             x == IF same THEN [r EXCEPT !.at = IF kind = "Pending" THEN "pending" ELSE "height", !.o = table[r.id]]
                 ELSE IF kind = "Pending" THEN NoPoll
                 ELSE [r EXCEPT !.at = "update", !.height = 0]
  <2>1. r.at = "again" /\ PollAt(p, x) /\ UNCHANGED <<height, top, filter, table, pool>>
    BY <1>3 DEF GetFilterAgain
  <2>2. CASE same
    <3> DEFINE y == [r EXCEPT !.at = IF kind = "Pending" THEN "pending" ELSE "height", !.o = table[r.id]]
    <3>1. table[r.id] \in DOMAIN filter /\ r.id = table[r.id] % IdCount /\ table[r.id] <= table[r.id]
      BY <1>0, <2>2 DEF FilterShapes, IsSeq
    <3>2. PollOK(y) BY <1>0, <2>1, <2>2, <3>1 DEF PollOK, Knows
    <3>3. PollAt(p, y) BY <2>1, <2>2
    <3> HIDE DEF y
    <3> QED BY <2>1, <3>2, <3>3, PollStep
  <2>3. CASE ~same /\ kind = "Pending"
    <3>1. PollAt(p, NoPoll) BY <2>1, <2>3
    <3> QED BY <2>1, <3>1, IdlePoll, PollStep
  <2>4. CASE ~same /\ kind # "Pending"
    <3> DEFINE y == [r EXCEPT !.at = "update", !.height = 0]
    <3>1. Knows(r) /\ DOMAIN r = {"at", "kind", "id", "o", "height", "found"} /\ r.found = {}
      BY <1>0, <2>1 DEF PollOK
    <3>2. IsFilter(filter[r.o]) BY <1>0, <3>1 DEF Knows, FilterShapes
    <3>3. Reached(filter[r.o], 0) BY <1>0, <2>4 DEF Reached
    <3>4. Due(filter[r.o], 0) = {} BY <3>2 DEF Due, IsFilter
    <3>5. PollOK(y)
      <4>1. /\ DOMAIN y = {"at", "kind", "id", "o", "height", "found"} /\ y.at = "update" /\ y.height = 0
            /\ y.id = r.id /\ y.o = r.o /\ y.found = r.found
        BY <3>1
      <4> HIDE DEF y, r
      <4> QED BY <3>1, <3>3, <3>4, <4>1 DEF PollOK, Knows
    <3>6. PollAt(p, y) BY <2>1, <2>4
    <3> HIDE DEF y
    <3> QED BY <2>1, <3>5, <3>6, PollStep
  <2> QED BY <2>2, <2>3, <2>4
<1>4. CASE GetLatestHeight(p)
  <2> DEFINE x == [r EXCEPT !.at = "read", !.height = height]
  <2>1. r.at = "height" /\ PollAt(p, x) /\ UNCHANGED <<height, top, filter, table, pool>>
    BY <1>4 DEF GetLatestHeight
  <2>2. PollOK(x) BY <1>0, <2>1 DEF PollOK, Knows
  <2> HIDE DEF x
  <2> QED BY <2>1, <2>2, PollStep
<1>5. CASE PollFails(p)
  BY <1>5, IdlePoll, PollStep DEF PollFails
<1> QED BY <1>1, <1>2, <1>3, <1>4, <1>5

\* The blocks read reach from the position that was read to the height.
LEMMA GetLogsKeeps == ASSUME FilterInv, NEW p \in Pollers, GetLogsSinceLastPoll(p) PROVE FilterInv'
<1> DEFINE r == poll[p]
           f == filter[r.o]
           news == (f.last + 1)..r.height
           x == [r EXCEPT !.at = "update", !.found = news]
<1>1. r.at = "read" /\ PollAt(p, x) /\ UNCHANGED <<height, top, filter, table, pool>>
  BY DEF GetLogsSinceLastPoll
<1>2. PollOK(r) /\ r.o \in DOMAIN filter /\ FilterOK(r.o) /\ IsFilter(f) /\ top \in Nat
  BY <1>1 DEF FilterInv, PollOK, Knows, FilterShapes, PoolShapes
<1>3. f.kind # "Pending" /\ r.height \in Nat /\ r.height <= top BY <1>1, <1>2 DEF PollOK
<1>4. r.o <= IdCount => Reached(f, r.height) /\ Due(f, r.height) \subseteq f.told \cup news
  <2> SUFFICES ASSUME r.o <= IdCount PROVE Reached(f, r.height) /\ Due(f, r.height) \subseteq f.told \cup news OBVIOUS
  <2>1. Due(f, f.last) \subseteq f.told BY <1>2 DEF FilterOK
  <2>2. f.from \in Nat /\ f.last \in Nat BY <1>2 DEF IsFilter
  <2>3. Due(f, r.height) \subseteq Due(f, f.last) \cup news BY <1>3, <2>2 DEF Due
  <2> QED BY <1>3, <2>1, <2>3 DEF Reached
<1>5. PollOK(x)
  <2>1. /\ DOMAIN x = {"at", "kind", "id", "o", "height", "found"} /\ x.at = "update" /\ x.height = r.height
        /\ x.id = r.id /\ x.o = r.o /\ x.found = news
    BY <1>2 DEF PollOK
  <2>2. Knows(r) BY <1>1, <1>2 DEF PollOK
  <2> HIDE DEF x, r, news
  <2> QED BY <1>3, <1>4, <2>1, <2>2 DEF PollOK, Knows
<1> HIDE DEF x
<1> QED BY <1>1, <1>5, PollStep

LEMMA GetTransactionsKeeps == ASSUME FilterInv, NEW p \in Pollers, GetTransactionsSince(p) PROVE FilterInv'
<1> DEFINE r == poll[p]
           f == filter[r.o]
           since == f.last
           news == {details[transactions[i]] : i \in DOMAIN transactions} \cap (since + 1)..nextIndex
           newest == CHOOSE n \in news \cup {since} : \A m \in news : m <= n
           x == [r EXCEPT !.at = "update", !.found = news, !.height = newest]
<1>1. r.at = "pending" /\ PollAt(p, x) /\ UNCHANGED <<height, top, filter, table, pool>>
  BY DEF GetTransactionsSince
<1>2. PollOK(r) /\ r.o \in DOMAIN filter /\ FilterOK(r.o) /\ IsFilter(f) /\ nextIndex \in Nat \ {0}
  BY <1>1 DEF FilterInv, PollOK, Knows, FilterShapes, PoolShapes
<1>3. f.kind = "Pending" /\ f.from \in Nat /\ since \in Nat BY <1>1, <1>2 DEF PollOK, IsFilter
<1>4. news = Pooled \cap (since + 1)..nextIndex /\ \A n \in Pooled : n \in Nat /\ n < nextIndex
  BY DEF FilterInv, PoolShapes, Pooled
<1> HIDE DEF news
<1>5. newest \in news \cup {since} /\ newest \in Nat /\ \A m \in news : m <= newest
  <2> DEFINE T == news \cup {since}
  <2>1. T \in SUBSET Nat /\ T # {} /\ nextIndex + since \in Nat /\ \A n \in T : n <= nextIndex + since
    BY <1>2, <1>3, <1>4
  <2>2. \E m \in T : \A n \in T : n <= m
    <3> HIDE DEF T
    <3> QED BY <2>1, Largest
  <2>3. newest \in T /\ \A m \in news : m <= newest BY <2>2
  <2> HIDE DEF newest
  <2> QED BY <2>1, <2>3
<1> HIDE DEF newest
<1>6. r.o <= IdCount => Reached(f, newest) /\ Due(f, newest) \subseteq f.told \cup news
  <2> SUFFICES ASSUME r.o <= IdCount PROVE Reached(f, newest) /\ Due(f, newest) \subseteq f.told \cup news OBVIOUS
  <2>1. Due(f, since) \subseteq f.told /\ since < nextIndex BY <1>2, <1>3 DEF FilterOK, Reached
  <2>2. newest < nextIndex BY <1>2, <1>4, <1>5, <2>1
  <2>3. Due(f, newest) \subseteq Due(f, since) \cup news BY <1>2, <1>3, <1>4, <1>5, <2>2 DEF Due
  <2> QED BY <1>3, <1>5, <2>1, <2>2, <2>3 DEF Reached
<1>7. PollOK(x)
  <2>1. /\ DOMAIN x = {"at", "kind", "id", "o", "height", "found"} /\ x.at = "update" /\ x.height = newest
        /\ x.id = r.id /\ x.o = r.o /\ x.found = news
    BY <1>2 DEF PollOK
  <2>2. Knows(r) BY <1>1, <1>2 DEF PollOK
  <2> HIDE DEF x, r
  <2> QED BY <1>5, <1>6, <2>1, <2>2 DEF PollOK, Knows
<1> HIDE DEF x
<1> QED BY <1>1, <1>7, PollStep

\* Filters that go leave those that stay, and the polls, as they are.
LEMMA DroppingKeeps ==
    ASSUME FilterInv, NEW gone, table' = Drop(table, gone), UNCHANGED <<height, top, filter, poll, pool>>
    PROVE  FilterInv'
<1>1. DOMAIN table' \subseteq DOMAIN table /\ \A id \in DOMAIN table' : table'[id] = table[id] BY DEF Drop
<1>2. PoolShapes' /\ FilterShapes' BY <1>1 DEF FilterInv, PoolShapes, FilterShapes, pool, IdCount
<1>3. \A o \in DOMAIN filter : FilterOK(o)'
  BY DEF FilterInv, FilterOK, Reached, Due, Pooled, pool, IdCount
<1>4. ASSUME NEW q \in Pollers PROVE PollOK(poll[q])'
  <2> DEFINE x == poll[q]
  <2>1. PollOK(x) /\ UNCHANGED <<top, filter, poll, details, nextIndex>> BY DEF FilterInv, pool
  <2>2. x.at \notin {"idle", "new"} => Knows(x)' BY <1>1, <2>1 DEF PollOK, Knows, IdCount
  <2>3. x.at = "update" /\ x.o <= IdCount => Reached(filter[x.o], x.height)' /\ Due(filter[x.o], x.height)' = Due(filter[x.o], x.height)
    BY <2>1 DEF PollOK, Reached, Due, Pooled
  <2> QED BY <2>1, <2>2, <2>3 DEF PollOK, IdCount
<1> QED BY <1>2, <1>3, <1>4 DEF FilterInv

\* A new filter takes a new identifier, or the place of an older filter.
LEMMA NewFilterKeeps == ASSUME FilterInv, NEW p \in Pollers, NewFilter(p) PROVE FilterInv'
<1> DEFINE kind == poll[p].kind
           from == IF kind = "Pending" THEN nextIndex - 1 ELSE poll[p].height
           f == [kind |-> kind, from |-> from, last |-> from, told |-> {}]
           n == Len(filter)
           g == Append(filter, f)
           new == (n + 1) % IdCount
<1>1. /\ poll[p].at = "new" /\ filter' = g /\ table' = Bind(table, new, n + 1)
      /\ poll' = [poll EXCEPT ![p] = NoPoll] /\ UNCHANGED <<height, top, pool>>
  BY DEF NewFilter, generateID, PollAt, IdCount
<1>2. /\ PollOK(poll[p]) /\ nextIndex \in Nat \ {0} /\ top \in Nat /\ IsSeq(filter) /\ n \in Nat /\ DOMAIN filter = 1..n
  BY DEF FilterInv, PoolShapes, FilterShapes, IsSeq
<1>3. from \in Nat /\ Reached(f, from)
  BY <1>1, <1>2 DEF PollOK, Reached
<1>4. IsFilter(f) /\ f.last = from /\ f.from = from BY <1>3 DEF IsFilter
<1> HIDE DEF f
<1>5. /\ IsSeq(g) /\ DOMAIN g = 1..n + 1
      /\ \A i \in 1..n : g[i] = filter[i]
      /\ g[n + 1] = f
  BY <1>2, AppendIsSeq
<1> HIDE DEF g
<1>6. /\ DOMAIN table' = DOMAIN table \cup {new} /\ table'[new] = n + 1
      /\ \A id \in DOMAIN table : id # new => table'[id] = table[id]
  BY <1>1 DEF Bind
<1> HIDE DEF new
<1>7. 1..n + 1 = 1..n \cup {n + 1} BY <1>2
<1>8. FilterShapes'
  <2>1. \A id \in DOMAIN table : table[id] \in DOMAIN filter /\ id = table[id] % IdCount /\ \A o \in DOMAIN filter : IsFilter(filter[o])
    BY DEF FilterInv, FilterShapes
  <2>2. \A o \in DOMAIN g : IsFilter(g[o])
    <3>1. \A o \in DOMAIN filter : IsFilter(filter[o]) BY DEF FilterInv, FilterShapes
    <3> QED BY <1>2, <1>4, <1>5, <1>7, <3>1
  <2>3. \A id \in DOMAIN table' : table'[id] \in DOMAIN g /\ id = table'[id] % IdCount
    <3>1. ASSUME NEW id \in DOMAIN table', id # new PROVE table'[id] \in DOMAIN g /\ id = table'[id] % IdCount
      BY <1>2, <1>5, <1>6, <1>7, <2>1, <3>1
    <3>2. new = (n + 1) % IdCount BY DEF new
    <3> QED BY <1>5, <1>6, <1>7, <3>1, <3>2
  <2> QED BY <1>1, <1>5, <2>2, <2>3 DEF FilterShapes, IdCount
<1>9. ASSUME NEW o \in DOMAIN filter' PROVE FilterOK(o)'
  <2>1. CASE o = n + 1
    <3>1. Due(f, from) = {} BY <1>3, <1>4 DEF Due
    <3>2. filter'[o] = f BY <1>1, <1>5, <2>1
    <3> QED BY <1>1, <1>3, <1>4, <3>1, <3>2 DEF FilterOK, Reached, Due, Pooled, pool
  <2>2. CASE o \in DOMAIN filter
    <3>1. filter'[o] = filter[o] /\ FilterOK(o) BY <1>1, <1>2, <1>5, <2>2 DEF FilterInv
    <3> QED BY <1>1, <3>1 DEF FilterOK, Reached, Due, Pooled, pool, IdCount
  <2> QED BY <1>1, <1>2, <1>5, <1>7, <2>1, <2>2
<1>10. poll' = [q \in Pollers |-> poll'[q]] /\ \A q \in Pollers : poll'[q] = IF q = p THEN NoPoll ELSE poll[q]
  BY <1>1 DEF FilterInv
<1>11. ASSUME NEW q \in Pollers PROVE PollOK(poll[q])'
  <2> DEFINE x == poll'[q]
  <2>1. CASE q = p
    <3>1. x = NoPoll BY <1>10, <2>1
    <3>2. DOMAIN x = {"at", "kind", "id", "o", "height", "found"} /\ x.at = "idle" /\ x.height = 0
      <4>1. DOMAIN NoPoll = {"at", "kind", "id", "o", "height", "found"} /\ NoPoll.at = "idle" /\ NoPoll.height = 0
        BY DEF NoPoll
      <4> QED BY <3>1, <4>1
    <3> QED BY <3>2 DEF PollOK
  <2>2. CASE q # p
    <3>1. x = poll[q] /\ PollOK(poll[q]) BY <1>10, <2>2 DEF FilterInv
    <3> HIDE DEF x
    <3>2. PollOK(x) /\ UNCHANGED <<top, details, nextIndex>> BY <1>1, <3>1 DEF pool
    <3>3. x.at \notin {"idle", "new"} => /\ x.o \in DOMAIN filter' /\ filter'[x.o] = filter[x.o] /\ x.id = x.o % IdCount
                                         /\ x.id \in DOMAIN table' => x.o <= table'[x.id]
      <4> SUFFICES ASSUME x.at \notin {"idle", "new"}
                   PROVE  /\ x.o \in DOMAIN filter' /\ filter'[x.o] = filter[x.o] /\ x.id = x.o % IdCount
                          /\ x.id \in DOMAIN table' => x.o <= table'[x.id]
        OBVIOUS
      <4>1. Knows(x) BY <3>2 DEF PollOK
      <4>2. x.o \in 1..n /\ x.o <= n + 1 BY <1>2, <4>1 DEF Knows
      <4>3. x.o \in DOMAIN filter' /\ filter'[x.o] = filter[x.o] BY <1>1, <1>5, <1>7, <4>2
      <4> QED BY <1>6, <4>1, <4>2, <4>3 DEF Knows
    <3>4. x.at = "update" /\ x.o <= IdCount => /\ Reached(filter[x.o], x.height)
                                               /\ Due(filter[x.o], x.height) \subseteq filter[x.o].told \cup x.found
      BY <3>2 DEF PollOK
    <3> QED BY <3>2, <3>3, <3>4 DEF PollOK, Knows, Reached, Due, Pooled, IdCount, x
  <2> QED BY <2>1, <2>2
<1>12. PoolShapes' BY <1>1 DEF FilterInv, PoolShapes, pool
<1> QED BY <1>8, <1>9, <1>10, <1>11, <1>12 DEF FilterInv

\* The end of a poll: what was found is told and the position is written
\* through the identifier.
LEMMA UpdateKeeps == ASSUME FilterInv, NEW p \in Pollers, UpdateLastPollBlock(p) PROVE FilterInv'
<1> DEFINE r == poll[p]
           f == [filter EXCEPT ![r.o].told = @ \cup r.found]
           g == IF r.id \in DOMAIN table THEN [f EXCEPT ![table[r.id]].last = r.height] ELSE f
           Updated(o) == r.id \in DOMAIN table /\ o = table[r.id]
<1>1. /\ r.at = "update" /\ filter' = g /\ poll' = [poll EXCEPT ![p] = NoPoll] /\ UNCHANGED <<height, top, table, pool>>
  BY DEF UpdateLastPollBlock, PollAt, Told
<1>2. /\ PollOK(r) /\ Knows(r) /\ r.o \in DOMAIN filter /\ r.height \in Nat
      /\ IsSeq(filter) /\ DOMAIN filter = 1..Len(filter) /\ Len(filter) \in Nat
      /\ \A o \in DOMAIN filter : IsFilter(filter[o])
      /\ r.id \in DOMAIN table => table[r.id] \in DOMAIN filter /\ r.id = table[r.id] % IdCount
  BY <1>1 DEF FilterInv, PollOK, Knows, FilterShapes, IsSeq
<1>3. /\ IsSeq(f) /\ DOMAIN f = DOMAIN filter
      /\ \A o \in DOMAIN filter :
            /\ IsFilter(f[o]) /\ f[o].kind = filter[o].kind /\ f[o].from = filter[o].from /\ f[o].last = filter[o].last
            /\ f[o].told = IF o = r.o THEN filter[o].told \cup r.found ELSE filter[o].told
  <2> DEFINE v == [filter[r.o] EXCEPT !.told = @ \cup r.found]
  <2>1. f = [filter EXCEPT ![r.o] = v] OBVIOUS
  <2>2. /\ IsFilter(v) /\ v.kind = filter[r.o].kind /\ v.from = filter[r.o].from /\ v.last = filter[r.o].last
        /\ v.told = filter[r.o].told \cup r.found
    BY <1>2 DEF IsFilter
  <2> HIDE DEF v, f
  <2>3. IsSeq(f) /\ DOMAIN f = DOMAIN filter /\ f[r.o] = v /\ \A i \in DOMAIN filter \ {r.o} : f[i] = filter[i]
    BY <1>2, <2>1, ExceptIsSeq
  <2> QED BY <1>2, <2>2, <2>3
<1> HIDE DEF f
<1>4. /\ IsSeq(g) /\ DOMAIN g = DOMAIN filter
      /\ \A o \in DOMAIN filter :
            /\ IsFilter(g[o]) /\ g[o].kind = filter[o].kind /\ g[o].from = filter[o].from /\ g[o].told = f[o].told
            /\ g[o].last = IF Updated(o) THEN r.height ELSE filter[o].last
  <2>1. CASE r.id \notin DOMAIN table BY <1>3, <2>1
  <2>2. CASE r.id \in DOMAIN table
    <3> DEFINE k == table[r.id]
               v == [f[k] EXCEPT !.last = r.height]
    <3>1. g = [f EXCEPT ![k] = v] BY <2>2
    <3>2. k \in DOMAIN f BY <1>2, <1>3, <2>2
    <3>3. IsFilter(v) /\ v.kind = f[k].kind /\ v.from = f[k].from /\ v.last = r.height /\ v.told = f[k].told
      BY <1>2, <1>3, <3>2 DEF IsFilter
    <3> HIDE DEF v, g, k
    <3>4. IsSeq(g) /\ DOMAIN g = DOMAIN f /\ g[k] = v /\ \A i \in DOMAIN f \ {k} : g[i] = f[i]
      BY <1>3, <3>1, <3>2, ExceptIsSeq
    <3>5. \A o : Updated(o) <=> o = k BY <2>2 DEF k
    <3> HIDE DEF Updated
    <3>6. ASSUME NEW o \in DOMAIN filter
          PROVE  /\ IsFilter(g[o]) /\ g[o].kind = filter[o].kind /\ g[o].from = filter[o].from /\ g[o].told = f[o].told
                 /\ g[o].last = IF Updated(o) THEN r.height ELSE filter[o].last
      <4>1. CASE o = k BY <1>3, <3>2, <3>3, <3>4, <3>5, <4>1
      <4>2. CASE o # k BY <1>3, <3>4, <3>5, <4>2
      <4> QED BY <4>1, <4>2
    <3> QED BY <1>3, <3>4, <3>6
  <2> QED BY <2>1, <2>2
<1> HIDE DEF g
<1>5. \A o \in DOMAIN filter : filter[o].told \subseteq g[o].told /\ (o = r.o => r.found \subseteq g[o].told)
  BY <1>3, <1>4, ZenonT(30)
<1> DEFINE ReachedNow(o, h) == h \in Nat /\ IF g[o].kind = "Pending" THEN h < nextIndex' ELSE h <= top'
           DueNow(o, h) == (g[o].from + 1)..h \cap (IF g[o].kind = "Pending" THEN Pooled' ELSE Nat)
<1>6. \A o \in DOMAIN filter : \A h : /\ ReachedNow(o, h) <=> Reached(filter[o], h)
                                     /\ DueNow(o, h) = Due(filter[o], h)
  BY <1>1, <1>4 DEF Reached, Due, Pooled, pool
<1> HIDE DEF ReachedNow, DueNow
<1>7. ASSUME NEW o \in DOMAIN filter PROVE FilterOK(o)'
  <2> SUFFICES ASSUME o <= IdCount
               PROVE  ReachedNow(o, g[o].last) /\ DueNow(o, g[o].last) \subseteq g[o].told
    BY <1>1 DEF FilterOK, IdCount, Reached, Due, ReachedNow, DueNow
  <2>1. CASE ~Updated(o)
    <3>1. g[o].last = filter[o].last BY <1>4, <2>1
    <3>2. Reached(filter[o], filter[o].last) /\ Due(filter[o], filter[o].last) \subseteq filter[o].told
      BY DEF FilterInv, FilterOK
    <3> QED BY <1>5, <1>6, <3>1, <3>2
  <2>2. CASE Updated(o)
    <3>1. o = r.o
      <4>1. o % IdCount = r.o % IdCount /\ r.o <= o BY <1>2, <2>2 DEF Knows
      <4>2. o \in 1..IdCount /\ r.o \in 1..IdCount
        BY <1>2, <4>1, IdBitsAssumption DEF IdCount
      <4> HIDE DEF IdCount
      <4> QED BY <4>1, <4>2, OwnId
    <3>2. Reached(filter[o], r.height) /\ Due(filter[o], r.height) \subseteq filter[o].told \cup r.found
      BY <1>1, <1>2, <3>1 DEF PollOK
    <3>3. g[o].last = r.height BY <1>4, <2>2
    <3> QED BY <1>5, <1>6, <3>1, <3>2, <3>3
  <2> QED BY <2>1, <2>2
<1>8. poll' = [q \in Pollers |-> poll'[q]] /\ \A q \in Pollers : poll'[q] = IF q = p THEN NoPoll ELSE poll[q]
  BY <1>1 DEF FilterInv
<1>9. ASSUME NEW q \in Pollers PROVE PollOK(poll[q])'
  <2> DEFINE x == poll'[q]
  <2>1. CASE q = p
    <3>1. x = NoPoll BY <1>8, <2>1
    <3>2. DOMAIN x = {"at", "kind", "id", "o", "height", "found"} /\ x.at = "idle" /\ x.height = 0
      <4>1. DOMAIN NoPoll = {"at", "kind", "id", "o", "height", "found"} /\ NoPoll.at = "idle" /\ NoPoll.height = 0
        BY DEF NoPoll
      <4> QED BY <3>1, <4>1
    <3> QED BY <3>2 DEF PollOK
  <2>2. CASE q # p
    <3>1. x = poll[q] /\ PollOK(poll[q]) BY <1>8, <2>2 DEF FilterInv
    <3> HIDE DEF x
    <3>2. PollOK(x) BY <3>1
    <3>3. x.at \notin {"idle", "new"} => x.o \in DOMAIN filter /\ g[x.o].kind = filter[x.o].kind
      BY <1>4, <3>2 DEF PollOK, Knows
    <3>4. x.at = "update" /\ x.o <= IdCount => /\ ReachedNow(x.o, x.height)
                                               /\ DueNow(x.o, x.height) \subseteq g[x.o].told \cup x.found
      <4> SUFFICES ASSUME x.at = "update", x.o <= IdCount
                   PROVE  ReachedNow(x.o, x.height) /\ DueNow(x.o, x.height) \subseteq g[x.o].told \cup x.found
        OBVIOUS
      <4>1. x.o \in DOMAIN filter BY <3>3
      <4>2. Reached(filter[x.o], x.height) /\ Due(filter[x.o], x.height) \subseteq filter[x.o].told \cup x.found
        BY <3>2 DEF PollOK
      <4> QED BY <1>5, <1>6, <4>1, <4>2
    <3>5. DOMAIN filter' = DOMAIN filter /\ UNCHANGED <<top, table>> BY <1>1, <1>4
    <3>6. x.at \notin {"idle", "new"} => Knows(poll[q])' BY <3>2, <3>5 DEF PollOK, Knows, IdCount, x
    <3>7. x.at = "update" /\ x.o <= IdCount =>
             /\ Reached(filter[poll[q].o], poll[q].height)'
             /\ (Due(filter[poll[q].o], poll[q].height) \subseteq filter[poll[q].o].told \cup poll[q].found)'
      BY <1>1, <3>4 DEF Reached, Due, ReachedNow, DueNow, x
    <3>8. (x.at = "pending" => filter'[x.o].kind = "Pending") /\ (x.at \in {"height", "read"} => filter'[x.o].kind # "Pending")
      BY <1>1, <3>2, <3>3 DEF PollOK
    <3> QED BY <3>2, <3>5, <3>6, <3>7, <3>8 DEF PollOK, IdCount, x
  <2> QED BY <2>1, <2>2
<1>10. PoolShapes' /\ FilterShapes' BY <1>1, <1>4 DEF FilterInv, PoolShapes, FilterShapes, pool
<1> QED BY <1>1, <1>4, <1>7, <1>8, <1>9, <1>10 DEF FilterInv

\* No filter with an identifier of its own moves past a block, or past a
\* transaction that is still pending, without having reported it, whatever
\* polls, removals, expiries and blocks come in between
\* (filter_manager.go, methods_filter.go, pending_pool.go).
THEOREM FiltersSkipNothing == FiltersSpec => []NothingSkipped
<1>1. FiltersInit => FilterInv BY InitFilterInv
<1>2. FilterInv /\ [FiltersNext]_filterVars => FilterInv'
  <2> SUFFICES ASSUME FilterInv, [FiltersNext]_filterVars PROVE FilterInv' OBVIOUS
  <2>1. CASE UNCHANGED filterVars
    <3>1. PoolShapes' /\ UNCHANGED <<filter, table, poll>> /\ Pooled' = Pooled /\ top <= top' /\ nextIndex <= nextIndex'
      BY <2>1 DEF filterVars, pool, FilterInv, PoolShapes, Pooled
    <3> QED BY <3>1, WorldStep
  <2>2. CASE IndexBlock \/ FillGap BY <2>2, IndexerKeeps
  <2>3. CASE expireFilters BY <2>3, DroppingKeeps DEF expireFilters
  <2>4. CASE PoolCleanup BY <2>4, PoolCleanupKeeps
  <2>5. CASE \E h \in Hashes : AddTransaction(h) \/ RemoveTransaction(h)
    BY <2>5, AddTransactionKeeps, RemoveTransactionKeeps
  <2>6. CASE \E id \in DOMAIN table : RemoveFilter(id)
    BY <2>6, DroppingKeeps DEF RemoveFilter
  <2>7. ASSUME NEW p \in Pollers,
               \/ \E kind \in Kinds : ReadHeightForNew(p, kind)
               \/ NewFilter(p)
               \/ \E id \in DOMAIN table : GetFilter(p, id)
               \/ GetFilterAgain(p) \/ GetLatestHeight(p) \/ GetLogsSinceLastPoll(p) \/ PollFails(p)
               \/ UpdateLastPollBlock(p) \/ GetTransactionsSince(p)
        PROVE  FilterInv'
    BY <2>7, ReadersKeep, NewFilterKeeps, GetLogsKeeps, UpdateKeeps, GetTransactionsKeeps
  <2> QED BY <2>1, <2>2, <2>3, <2>4, <2>5, <2>6, <2>7 DEF FiltersNext
<1>3. FilterInv => NothingSkipped BY InvSkipsNothing
<1> QED BY <1>1, <1>2, <1>3, PTL DEF FiltersSpec

-----------------------------------------------------------------------------
(* Notifications.  Whatever carries a status or a number of attempts - an   *)
(* object, a row, a marshalled copy, an entry of a list, a status about to  *)
(* be written - has earned it: d and f count the accepted and the failed    *)
(* deliveries.  An object is in the queue once or with one worker, so that  *)
(* a failure is counted in it once.                                         *)

Saving == {"marshal", "row", "status", "pending"}
Updating == {"update", "rewrite", "unlist", "relist", "settle"}
Delivering == {"deliver", "success", "failure"}
Elsewhere == {"idle", "enqueue", "remember", "replace"}

Earned(id, s, d, f) == (s = "sent" => d[id] > 0) /\ (s = "failed" => f[id] >= MaxAttempts)
RecordOK(id, r, d, f) == r.retries \in Nat /\ r.retries <= f[id] /\ Earned(id, r.status, d, f)
IsRow(r) == DOMAIN r = {"setting", "status", "retries", "next"}
IsObject(x) == DOMAIN x = {"id", "setting", "status", "retries", "next"}

ListedOK(x, d, f) ==
    /\ IsObject(x)
    /\ IF x.id = 0 THEN x.status = "pending" /\ x.retries = 0 ELSE x.id \in ObjectIds /\ RecordOK(x.id, x, d, f)

LocalOK(l, ob, d, f) ==
    /\ DOMAIN l = {"at", "o", "id", "list", "copy", "to", "back"}
    /\ l.at \in Saving \cup Updating \cup Delivering \cup Elsewhere
    /\ \A x \in l.list : ListedOK(x, d, f)
    /\ l.at \in Elsewhere => l.id = 0 /\ l.back = ""
    /\ l.at \in Saving => l.o \in DOMAIN ob /\ ob[l.o].id = l.id /\ l.back = ""
    /\ l.at \in {"row", "rewrite"} => IsRow(l.copy) /\ RecordOK(l.id, l.copy, d, f)
    /\ l.at \in Updating => l.id \in ObjectIds /\ Earned(l.id, l.to, d, f) /\ l.back \in {"idle", "deliver"}
    /\ l.at \in Delivering => l.back = "deliver"
    /\ l.back = "deliver" => l.o \in DOMAIN ob /\ ob[l.o].id = l.id
    /\ l.at = "success" => d[l.id] > 0
    /\ l.at = "failure" => ob[l.o].retries < f[l.id]

CountsOK == delivered \in [ObjectIds -> Nat] /\ failures \in [ObjectIds -> Nat]

ObjectsOK ==
    /\ IsSeq(obj)
    /\ \A o \in DOMAIN obj : IsObject(obj[o]) /\ obj[o].id \in ObjectIds /\ RecordOK(obj[o].id, obj[o], delivered, failures)

RowsOK ==
    /\ rows = [id \in DOMAIN rows |-> rows[id]] /\ DOMAIN rows \subseteq ObjectIds
    /\ \A id \in DOMAIN rows : IsRow(rows[id]) /\ RecordOK(id, rows[id], delivered, failures)

QueueOK ==
    /\ IsSeq(deliveryQueue)
    /\ \A i \in DOMAIN deliveryQueue : deliveryQueue[i] \in DOMAIN obj
    /\ \A i, j \in DOMAIN deliveryQueue : deliveryQueue[i] = deliveryQueue[j] => i = j

\* The objects that workers hold are theirs alone.
Owned(lc, dq) ==
    \A p \in Procs : lc[p].back = "deliver" =>
        /\ \A i \in DOMAIN dq : dq[i] # lc[p].o
        /\ \A q \in Procs \ {p} : lc[q].back = "deliver" => lc[q].o # lc[p].o

EarnedInv ==
    /\ CountsOK /\ ObjectsOK /\ RowsOK /\ QueueOK
    /\ local = [p \in Procs |-> local[p]] /\ \A p \in Procs : LocalOK(local[p], obj, delivered, failures)
    /\ Owned(local, deliveryQueue)

-----------------------------------------------------------------------------
(* As long as nobody else works on a notification its index entries follow  *)
(* from where its one handler is, and its retry time is still 0.            *)

Unscheduled(id, rw, pi) == (id \in DOMAIN rw => rw[id].next = 0) /\ \A k \in pi : k[2] = id => k = <<0, id>>

Settled(id, rw, bs, pi) ==
    id \in DOMAIN rw => <<rw[id].status, id>> \in bs /\ ((\E k \in pi : k[2] = id) => rw[id].status \in Unsent)

Handling(l, rw, bs, pi, ob) ==
    /\ l.at \in {"marshal", "row", "update", "rewrite"} \cup Delivering => Settled(l.id, rw, bs, pi)
    /\ l.at \in Saving => ob[l.o].status = "pending" /\ ob[l.o].next = 0
    /\ l.at = "row" => l.copy.status = "pending" /\ l.copy.next = 0
    /\ l.at \in {"status", "pending"} => l.id \in DOMAIN rw /\ rw[l.id].status = "pending"
    /\ l.at = "pending" => <<"pending", l.id>> \in bs
    /\ l.at \in {"rewrite", "unlist", "relist", "settle"} => l.id \in DOMAIN rw /\ l.copy.next = 0
    /\ l.at \in {"unlist", "relist", "settle"} => rw[l.id].status = l.to
    /\ l.at = "settle" => <<l.to, l.id>> \in bs

Tidy(id, lc, rw, bs, pi, ob) ==
    /\ Unscheduled(id, rw, pi)
    /\ (\A p \in Procs : lc[p].id # id) => Settled(id, rw, bs, pi)
    /\ \A p \in Procs : lc[p].id = id => /\ Handling(lc[p], rw, bs, pi, ob)
                                         /\ \A q \in Procs : lc[q].id = id => q = p

ListsTidy(lc, ov) ==
    \A p \in Procs : \A x \in lc[p].list : x.id = 0 \/ x.id \notin ov => x.status = "pending" /\ x.next = 0

TidyInv ==
    /\ \A id \in ObjectIds \ overlap : Tidy(id, local, rows, byStatus, pendingIndex, obj)
    /\ ListsTidy(local, overlap)
-----------------------------------------------------------------------------
\* Counts only grow.
Grows(d, e) == d \in [ObjectIds -> Nat] /\ e \in [ObjectIds -> Nat] /\ \A i \in ObjectIds : d[i] <= e[i]

LEMMA RecordGrows ==
    ASSUME NEW id \in ObjectIds, NEW r, NEW d, NEW f, NEW d2, NEW f2, Grows(d, d2), Grows(f, f2), RecordOK(id, r, d, f)
    PROVE  RecordOK(id, r, d2, f2)
BY AttemptsAssumption DEF RecordOK, Earned, Grows

LEMMA LocalGrows ==
    ASSUME NEW l, NEW ob, NEW d, NEW f, NEW ob2, NEW d2, NEW f2, LocalOK(l, ob, d, f), Grows(d, d2), Grows(f, f2),
           \A o \in DOMAIN ob : o \in DOMAIN ob2 /\ ob2[o].id = ob[o].id /\ ob[o].id \in ObjectIds
                                /\ ob[o].retries \in Nat,
           l.at = "failure" => ob2[l.o].retries = ob[l.o].retries
    PROVE  LocalOK(l, ob2, d2, f2)
<1>1. \A x \in l.list : ListedOK(x, d2, f2)
  <2> SUFFICES ASSUME NEW x \in l.list PROVE ListedOK(x, d2, f2) OBVIOUS
  <2>1. ListedOK(x, d, f) BY DEF LocalOK
  <2> QED BY <2>1, RecordGrows DEF ListedOK
<1>2. l.at \in Saving \cup Updating \cup Delivering => l.id \in ObjectIds BY DEF LocalOK
<1>3. l.at \in {"row", "rewrite"} => IsRow(l.copy) /\ RecordOK(l.id, l.copy, d2, f2)
  <2> SUFFICES ASSUME l.at \in {"row", "rewrite"} PROVE IsRow(l.copy) /\ RecordOK(l.id, l.copy, d2, f2) OBVIOUS
  <2>1. l.id \in ObjectIds /\ IsRow(l.copy) /\ RecordOK(l.id, l.copy, d, f)
    BY <1>2 DEF LocalOK, Saving, Updating
  <2> QED BY <2>1, RecordGrows
<1>4. l.at \in Updating => Earned(l.id, l.to, d2, f2)
  <2> SUFFICES ASSUME l.at \in Updating PROVE Earned(l.id, l.to, d2, f2) OBVIOUS
  <2>1. l.id \in ObjectIds /\ Earned(l.id, l.to, d, f) BY DEF LocalOK
  <2> QED BY <2>1, AttemptsAssumption DEF Earned, Grows
<1>5. l.at = "success" => d2[l.id] > 0
  <2> SUFFICES ASSUME l.at = "success" PROVE d2[l.id] > 0 OBVIOUS
  <2>1. l.id \in ObjectIds /\ d[l.id] > 0 BY <1>2 DEF LocalOK, Delivering
  <2> QED BY <2>1 DEF Grows
<1>6. l.at = "failure" => ob2[l.o].retries < f2[l.id]
  <2> SUFFICES ASSUME l.at = "failure" PROVE ob2[l.o].retries < f2[l.id] OBVIOUS
  <2>1. l.o \in DOMAIN ob /\ l.id \in ObjectIds /\ ob[l.o].retries < f[l.id] BY DEF LocalOK, Delivering
  <2> QED BY <2>1 DEF Grows
<1> QED BY <1>1, <1>3, <1>4, <1>5, <1>6 DEF LocalOK

LEMMA InitEarned == NotificationsInit => EarnedInv
<1> SUFFICES ASSUME NotificationsInit PROVE EarnedInv OBVIOUS
<1>1. CountsOK /\ ObjectsOK /\ RowsOK /\ QueueOK
  BY DEF NotificationsInit, CountsOK, ObjectsOK, RowsOK, QueueOK, IsSeq
<1>2. LocalOK(Idle, obj, delivered, failures)
  BY DEF LocalOK, Idle, Saving, Updating, Delivering, Elsewhere
<1>3. local = [p \in Procs |-> Idle] BY DEF NotificationsInit
<1>4. \A p \in Procs : local[p] = Idle /\ local[p].back = "" BY <1>3 DEF Idle
<1> HIDE DEF NotificationsInit
<1> QED BY <1>1, <1>2, <1>3, <1>4 DEF EarnedInv, Owned

LEMMA EarnedIsStored == EarnedInv => StatusIsEarned
BY DEF EarnedInv, RowsOK, RecordOK, Earned, StatusIsEarned

\* A step of one goroutine that takes no object and delivers nothing.
LEMMA QuietStep ==
    ASSUME EarnedInv, NEW p \in Procs, NEW l, local' = [local EXCEPT ![p] = l],
           LocalOK(l, obj, delivered, failures), RowsOK',
           l.back = "deliver" => local[p].back = "deliver" /\ l.o = local[p].o,
           UNCHANGED <<obj, deliveryQueue, delivered, failures>>
    PROVE  EarnedInv'
<1>1. local' = [q \in Procs |-> local'[q]] /\ \A q \in Procs : local'[q] = IF q = p THEN l ELSE local[q]
  BY DEF EarnedInv
<1>2. CountsOK' /\ ObjectsOK' /\ QueueOK' BY DEF EarnedInv, CountsOK, ObjectsOK, QueueOK
<1>3. \A q \in Procs : LocalOK(local'[q], obj', delivered', failures') BY <1>1 DEF EarnedInv
<1>4. Owned(local', deliveryQueue')
  <2>1. \A q \in Procs : local'[q].back = "deliver" => local[q].back = "deliver" /\ local'[q].o = local[q].o BY <1>1
  <2> QED BY <2>1 DEF EarnedInv, Owned
<1> QED BY <1>1, <1>2, <1>3, <1>4 DEF EarnedInv

LEMMA IdleOK == ASSUME NEW ob, NEW d, NEW f PROVE LocalOK(Idle, ob, d, f)
BY DEF LocalOK, Idle, Saving, Updating, Delivering, Elsewhere

\* A goroutine that goes on to enqueue a list.
LEMMA EnqueueOK ==
    ASSUME NEW ob, NEW d, NEW f, NEW list, \A x \in list : ListedOK(x, d, f)
    PROVE  LocalOK([Idle EXCEPT !.at = "enqueue", !.list = list], ob, d, f)
BY DEF LocalOK, Idle, Saving, Updating, Delivering, Elsewhere

\* One that begins an update.
LEMMA UpdateOK ==
    ASSUME NEW ob, NEW d, NEW f, NEW o, NEW id \in ObjectIds, NEW to, Earned(id, to, d, f), NEW back \in {"idle", "deliver"},
           back = "deliver" => o \in DOMAIN ob /\ ob[o].id = id
    PROVE  LocalOK([Idle EXCEPT !.at = "update", !.o = o, !.id = id, !.to = to, !.back = back], ob, d, f)
<1> DEFINE l == [Idle EXCEPT !.at = "update", !.o = o, !.id = id, !.to = to, !.back = back]
<1>1. /\ DOMAIN l = {"at", "o", "id", "list", "copy", "to", "back"} /\ l.at = "update" /\ l.o = o /\ l.id = id
      /\ l.list = {} /\ l.to = to /\ l.back = back
  BY DEF Idle
<1> HIDE DEF l
<1>2. LocalOK(l, ob, d, f) BY <1>1 DEF LocalOK, Saving, Updating, Delivering, Elsewhere
<1> QED BY <1>2 DEF l

\* Writing a notification: the row, then its entries.
LEMMA StoringEarns == ASSUME EarnedInv, NEW p \in Procs, Storing(p) PROVE EarnedInv'
<1> DEFINE l == local[p]
<1> USE DEF Saving, Updating, Delivering, Elsewhere
<1>0. /\ LocalOK(l, obj, delivered, failures) /\ RowsOK /\ ObjectsOK
  BY DEF EarnedInv
<1>1. CASE Marshal(p)
  <2> DEFINE m == [l EXCEPT !.at = "row", !.copy = Row(obj[l.o])]
  <2>1. /\ l.at = "marshal" /\ local' = [local EXCEPT ![p] = m]
        /\ UNCHANGED <<obj, deliveryQueue, rows, delivered, failures>>
    BY <1>1 DEF Marshal, At, Go, Here, index, outcome
  <2>2. l.o \in DOMAIN obj /\ obj[l.o].id = l.id /\ l.back = "" BY <1>0, <2>1 DEF LocalOK
  <2>3. IsRow(Row(obj[l.o])) /\ RecordOK(l.id, Row(obj[l.o]), delivered, failures)
    BY <1>0, <2>2 DEF ObjectsOK, IsRow, Row, RecordOK
  <2>4. LocalOK(m, obj, delivered, failures)
    <3>1. /\ DOMAIN m = DOMAIN l /\ m.at = "row" /\ m.o = l.o /\ m.id = l.id /\ m.list = l.list
          /\ m.copy = Row(obj[l.o]) /\ m.back = l.back
      BY <1>0 DEF LocalOK
    <3> HIDE DEF m, l
    <3> QED BY <1>0, <2>1, <2>2, <2>3, <3>1 DEF LocalOK
  <2>5. m.back = l.back BY <1>0 DEF LocalOK
  <2>6. RowsOK' BY <1>0, <2>1 DEF RowsOK
  <2> HIDE DEF m
  <2> QED BY <2>1, <2>2, <2>4, <2>5, <2>6, QuietStep
<1>2. ASSUME NEW a \in {"status", "pending", "unlist", "relist", "settle"},
             local' = [local EXCEPT ![p] = [l EXCEPT !.at = a]],
             \/ l.at \in Saving /\ a \in {"status", "pending"}
             \/ l.at \in Updating /\ a \in {"unlist", "relist", "settle"},
             RowsOK', UNCHANGED <<obj, deliveryQueue, delivered, failures>>
      PROVE  EarnedInv'
  <2> DEFINE m == [l EXCEPT !.at = a]
  <2>1. LocalOK(m, obj, delivered, failures) /\ m.back = l.back /\ m.o = l.o
    <3>1. /\ DOMAIN m = DOMAIN l /\ m.at = a /\ m.o = l.o /\ m.id = l.id /\ m.list = l.list
          /\ m.to = l.to /\ m.back = l.back
      BY <1>0 DEF LocalOK
    <3> HIDE DEF m, l
    <3> QED BY <1>0, <1>2, <3>1 DEF LocalOK
  <2> HIDE DEF m
  <2> QED BY <1>2, <2>1, QuietStep DEF m
<1>3. CASE SaveRow(p)
  <2>1. /\ l.at = "row" /\ local' = [local EXCEPT ![p] = [l EXCEPT !.at = "status"]] /\ rows' = Set(rows, l.id, l.copy)
        /\ UNCHANGED <<obj, deliveryQueue, delivered, failures>>
    BY <1>3 DEF SaveRow, At, Go, Goto, outcome
  <2>2. l.id \in ObjectIds /\ IsRow(l.copy) /\ RecordOK(l.id, l.copy, delivered, failures)
    BY <1>0, <2>1 DEF LocalOK, ObjectsOK
  <2>3. RowsOK'
    <3>1. /\ DOMAIN rows' = DOMAIN rows \cup {l.id} /\ rows' = [id \in DOMAIN rows' |-> rows'[id]]
          /\ \A id \in DOMAIN rows' : rows'[id] = IF id = l.id THEN l.copy ELSE rows[id]
      BY <2>1 DEF Set
    <3> QED BY <1>0, <2>1, <2>2, <3>1 DEF RowsOK
  <2> QED BY <1>2, <2>1, <2>3
<1>4. CASE SaveStatusIndex(p)
  <2>1. /\ l.at = "status" /\ local' = [local EXCEPT ![p] = [l EXCEPT !.at = "pending"]]
        /\ UNCHANGED <<obj, deliveryQueue, delivered, failures, rows>>
    BY <1>4 DEF SaveStatusIndex, At, Go, Goto, outcome
  <2>2. RowsOK' BY <1>0, <2>1 DEF RowsOK
  <2> QED BY <1>2, <2>1, <2>2
<1>5. CASE SavePendingIndex(p)
  <2> DEFINE m == Continue(p)
  <2>1. local' = [local EXCEPT ![p] = m] /\ UNCHANGED <<obj, deliveryQueue, delivered, failures, rows>>
    BY <1>5 DEF SavePendingIndex, Go, outcome
  <2>2. RowsOK' BY <1>0, <2>1 DEF RowsOK
  <2>3. LocalOK(m, obj, delivered, failures)
    <3>1. \A x \in l.list : ListedOK(x, delivered, failures) BY <1>0 DEF LocalOK
    <3>2. CASE l.list = {} BY <3>2, IdleOK DEF Continue
    <3>3. CASE l.list # {}
      <4>1. m = [Idle EXCEPT !.at = "enqueue", !.list = l.list] BY <3>3 DEF Continue
      <4> HIDE DEF m
      <4> QED BY <3>1, <4>1, EnqueueOK
    <3> QED BY <3>2, <3>3
  <2>4. m.back = "" BY DEF Continue, Idle
  <2> HIDE DEF m
  <2> QED BY <2>1, <2>2, <2>3, <2>4, QuietStep
<1>6. ASSUME l.at \in Updating, local' = [local EXCEPT ![p] = After(p)], UNCHANGED <<obj, deliveryQueue, delivered, failures, rows>>
      PROVE  EarnedInv'
  <2> DEFINE m == After(p)
  <2>1. LocalOK(m, obj, delivered, failures) /\ (m.back = "deliver" => l.back = "deliver" /\ m.o = l.o)
    <3>1. CASE l.back = "idle"
      <4>1. m = Idle BY <3>1 DEF After
      <4>2. Idle.back = "" BY DEF Idle
      <4> HIDE DEF m
      <4> QED BY <4>1, <4>2, IdleOK
    <3>2. CASE l.back # "idle"
      <4>1. m = [l EXCEPT !.at = "deliver"] /\ l.back = "deliver" BY <1>0, <1>6, <3>2 DEF After, LocalOK
      <4> DEFINE n == [l EXCEPT !.at = "deliver"]
      <4>2. /\ DOMAIN n = DOMAIN l /\ n.at = "deliver" /\ n.o = l.o /\ n.id = l.id /\ n.list = l.list /\ n.back = l.back
        BY <1>0 DEF LocalOK
      <4> HIDE DEF n, l, m
      <4>3. LocalOK(n, obj, delivered, failures) BY <1>0, <1>6, <4>1, <4>2 DEF LocalOK
      <4> QED BY <4>1, <4>2, <4>3 DEF n
    <3> QED BY <3>1, <3>2
  <2>2. RowsOK' BY <1>0, <1>6 DEF RowsOK
  <2> HIDE DEF m
  <2> QED BY <1>6, <2>1, <2>2, QuietStep DEF m
<1>7. CASE UpdateNotificationStatus(p)
  <2>1. l.at = "update" /\ UNCHANGED <<obj, deliveryQueue, delivered, failures, rows>>
    BY <1>7 DEF UpdateNotificationStatus, At, index, outcome
  <2>2. CASE l.id \in DOMAIN rows
    <3> DEFINE m == [l EXCEPT !.at = "rewrite", !.copy = rows[l.id]]
    <3>1. local' = [local EXCEPT ![p] = m] BY <1>7, <2>2 DEF UpdateNotificationStatus, Go
    <3>2. LocalOK(m, obj, delivered, failures) /\ m.back = l.back /\ m.o = l.o
      <4>1. /\ DOMAIN m = DOMAIN l /\ m.at = "rewrite" /\ m.o = l.o /\ m.id = l.id /\ m.list = l.list
            /\ m.copy = rows[l.id] /\ m.to = l.to /\ m.back = l.back
        BY <1>0 DEF LocalOK
      <4>2. IsRow(rows[l.id]) /\ RecordOK(l.id, rows[l.id], delivered, failures) BY <1>0, <2>2 DEF RowsOK
      <4> HIDE DEF m, l
      <4> QED BY <1>0, <2>1, <4>1, <4>2 DEF LocalOK
    <3>3. RowsOK' BY <1>0, <2>1 DEF RowsOK
    <3> HIDE DEF m
    <3> QED BY <2>1, <3>1, <3>2, <3>3, QuietStep
  <2>3. CASE l.id \notin DOMAIN rows
    <3>1. local' = [local EXCEPT ![p] = After(p)] BY <1>7, <2>3 DEF UpdateNotificationStatus, Go
    <3> QED BY <1>6, <2>1, <3>1
  <2> QED BY <2>2, <2>3
<1>8. CASE RewriteRow(p)
  <2> DEFINE r == [l.copy EXCEPT !.status = l.to]
  <2>1. /\ l.at = "rewrite" /\ local' = [local EXCEPT ![p] = [l EXCEPT !.at = "unlist"]] /\ rows' = [rows EXCEPT ![l.id] = r]
        /\ UNCHANGED <<obj, deliveryQueue, delivered, failures>>
    BY <1>8 DEF RewriteRow, At, Go, Goto, outcome
  <2>2. IsRow(r) /\ RecordOK(l.id, r, delivered, failures)
    <3>1. IsRow(l.copy) /\ RecordOK(l.id, l.copy, delivered, failures) /\ Earned(l.id, l.to, delivered, failures)
      BY <1>0, <2>1 DEF LocalOK
    <3>2. IsRow(r) /\ r.status = l.to /\ r.retries = l.copy.retries BY <3>1 DEF IsRow
    <3> HIDE DEF r
    <3> QED BY <3>1, <3>2 DEF RecordOK
  <2> HIDE DEF r
  <2>3. RowsOK'
    <3>1. /\ DOMAIN rows' = DOMAIN rows /\ rows' = [id \in DOMAIN rows' |-> rows'[id]]
          /\ \A id \in DOMAIN rows' : rows'[id] = IF id = l.id THEN r ELSE rows[id]
      BY <1>0, <2>1 DEF RowsOK
    <3> QED BY <1>0, <2>1, <2>2, <3>1 DEF RowsOK
  <2> QED BY <1>2, <2>1, <2>3
<1>9. CASE DeleteOldStatus(p)
  <2>1. /\ l.at = "unlist" /\ local' = [local EXCEPT ![p] = [l EXCEPT !.at = "relist"]]
        /\ UNCHANGED <<obj, deliveryQueue, delivered, failures, rows>>
    BY <1>9 DEF DeleteOldStatus, At, Go, Goto, outcome
  <2>2. RowsOK' BY <1>0, <2>1 DEF RowsOK
  <2> QED BY <1>2, <2>1, <2>2
<1>10. CASE PutNewStatus(p)
  <2>1. /\ l.at = "relist" /\ local' = [local EXCEPT ![p] = [l EXCEPT !.at = "settle"]]
        /\ UNCHANGED <<obj, deliveryQueue, delivered, failures, rows>>
    BY <1>10 DEF PutNewStatus, At, Go, Goto, outcome
  <2>2. RowsOK' BY <1>0, <2>1 DEF RowsOK
  <2> QED BY <1>2, <2>1, <2>2
<1>11. CASE DeletePending(p)
  BY <1>6, <1>11 DEF DeletePending, At, Go, outcome
<1> QED BY <1>1, <1>3, <1>4, <1>5, <1>7, <1>8, <1>9, <1>10, <1>11 DEF Storing

\* The other steps that deliver nothing: lists, cancellations, settings.
LEMMA CallsEarn ==
    ASSUME EarnedInv,
           \/ handleEvent \/ processRetries
           \/ \E c \in ApiUsers :
                 \/ SaveSetting(c) \/ RememberSetting(c)
                 \/ \E id \in ObjectIds : RetryNotification(c, id) \/ CancelNotification(c, id)
                 \/ \E s \in Settings : CreateSetting(c, s) \/ UpdateSetting(c, s) \/ DeleteSetting(c, s)
    PROVE  EarnedInv'
<1> USE DEF Saving, Updating, Delivering, Elsewhere
<1>0. RowsOK /\ CountsOK BY DEF EarnedInv
<1>00. \A p \in Procs : LocalOK(local[p], obj, delivered, failures) BY DEF EarnedInv
<1>a. /\ Idle.back = "" /\ DOMAIN Idle = {"at", "o", "id", "list", "copy", "to", "back"}
      /\ \A list : [Idle EXCEPT !.at = "enqueue", !.list = list].back = ""
      /\ \A o, id, to : [Idle EXCEPT !.at = "update", !.o = o, !.id = id, !.to = to, !.back = "idle"].back = "idle"
  BY DEF Idle
<1>1. CASE handleEvent
  <2> DEFINE Wanted(e) == {Fresh(s) : s \in {x \in Settings : settings[x] = "enabled" /\ shouldNotify(x, e)}}
  <2>1. PICK e \in BusEvents : local' = [local EXCEPT !["events"] = IF Wanted(e) = {} THEN Idle ELSE [Idle EXCEPT !.at = "enqueue", !.list = Wanted(e)]]
    BY <1>1 DEF handleEvent, Go
  <2>2. UNCHANGED <<obj, deliveryQueue, delivered, failures, rows>> BY <1>1 DEF handleEvent, index, outcome
  <2>3. RowsOK' BY <1>0, <2>2 DEF RowsOK
  <2>4. \A x \in Wanted(e) : ListedOK(x, delivered, failures) BY DEF ListedOK, Fresh, IsObject
  <2> HIDE DEF Wanted
  <2>5. "events" \in Procs BY DEF Procs
  <2>6. CASE Wanted(e) = {}
    BY <1>a, <2>1, <2>2, <2>3, <2>5, <2>6, IdleOK, QuietStep
  <2>7. CASE Wanted(e) # {}
    <3> DEFINE m == [Idle EXCEPT !.at = "enqueue", !.list = Wanted(e)]
    <3>1. local' = [local EXCEPT !["events"] = m] BY <2>1, <2>7
    <3>2. LocalOK(m, obj, delivered, failures) /\ m.back = "" BY <1>a, <2>4, EnqueueOK
    <3> HIDE DEF m
    <3> QED BY <2>2, <2>3, <2>5, <3>1, <3>2, QuietStep
  <2> QED BY <2>6, <2>7, Zenon
<1>2. ASSUME NEW id \in DOMAIN rows PROVE ListedOK(Loaded(id), delivered, failures) /\ IsObject(Loaded(id)) /\ Loaded(id).id = id
  <2>1. id \in ObjectIds /\ id # 0 /\ RecordOK(id, rows[id], delivered, failures)
    BY <1>0, AttemptsAssumption DEF RowsOK, ObjectIds
  <2> QED BY <2>1 DEF ListedOK, Loaded, IsObject, RecordOK
<1>3. CASE processRetries
  <2>1. PICK due \in SUBSET {k \in pendingIndex : k[2] \in DOMAIN rows /\ rows[k[2]].next # 0} :
           local' = [local EXCEPT !["retry"] = [Idle EXCEPT !.at = "enqueue", !.list = {Loaded(k[2]) : k \in due}]]
    BY <1>3 DEF processRetries, Go
  <2>2. UNCHANGED <<obj, deliveryQueue, delivered, failures, rows>> BY <1>3 DEF processRetries, index, outcome
  <2>3. RowsOK' BY <1>0, <2>2 DEF RowsOK
  <2> DEFINE list == {Loaded(k[2]) : k \in due}
             m == [Idle EXCEPT !.at = "enqueue", !.list = list]
  <2>4. \A x \in list : ListedOK(x, delivered, failures) BY <1>2
  <2> HIDE DEF list
  <2>5. LocalOK(m, obj, delivered, failures) /\ m.back = "" BY <1>a, <2>4, EnqueueOK
  <2>6. local' = [local EXCEPT !["retry"] = m] /\ "retry" \in Procs BY <2>1 DEF Procs, list
  <2> HIDE DEF m
  <2> QED BY <2>2, <2>3, <2>5, <2>6, QuietStep
<1>4. ASSUME NEW c \in ApiUsers, NEW id \in ObjectIds, RetryNotification(c, id) PROVE EarnedInv'
  <2> DEFINE x == [Loaded(id) EXCEPT !.retries = 0, !.status = "pending", !.next = 0]
             m == [Idle EXCEPT !.at = "enqueue", !.list = {x}]
  <2>1. id \in DOMAIN rows /\ local' = [local EXCEPT ![c] = m] /\ UNCHANGED <<obj, deliveryQueue, delivered, failures, rows>>
    BY <1>4 DEF RetryNotification, Go, index, outcome
  <2>2. ListedOK(x, delivered, failures)
    <3>1. IsObject(x) /\ x.id = id /\ x.retries = 0 /\ x.status = "pending" BY <1>2, <2>1 DEF IsObject
    <3> HIDE DEF x
    <3>2. failures[id] \in Nat BY <1>0 DEF CountsOK
    <3> QED BY <3>1, <3>2 DEF ListedOK, RecordOK, Earned
  <2> HIDE DEF x
  <2>3. LocalOK(m, obj, delivered, failures) /\ m.back = ""
    <3>1. \A y \in {x} : ListedOK(y, delivered, failures) BY <2>2
    <3> QED BY <1>a, <3>1, EnqueueOK
  <2>4. RowsOK' /\ c \in Procs BY <1>0, <2>1 DEF RowsOK, Procs
  <2> HIDE DEF m
  <2> QED BY <2>1, <2>3, <2>4, QuietStep
<1>5. ASSUME NEW c \in ApiUsers, NEW id \in ObjectIds, CancelNotification(c, id) PROVE EarnedInv'
  <2> DEFINE m == [Idle EXCEPT !.at = "update", !.o = 0, !.id = id, !.to = "cancelled", !.back = "idle"]
  <2>1. local' = [local EXCEPT ![c] = m] /\ UNCHANGED <<obj, deliveryQueue, delivered, failures, rows>>
    BY <1>5 DEF CancelNotification, Update, Go, index, outcome
  <2>2. LocalOK(m, obj, delivered, failures) /\ m.back = "idle"
    <3>1. Earned(id, "cancelled", delivered, failures) BY DEF Earned
    <3> QED BY <1>a, <3>1, UpdateOK
  <2>3. RowsOK' /\ c \in Procs BY <1>0, <2>1 DEF RowsOK, Procs
  <2> HIDE DEF m
  <2> QED BY <2>1, <2>2, <2>3, QuietStep
<1>6. ASSUME NEW c \in ApiUsers, NEW m, local' = [local EXCEPT ![c] = m], UNCHANGED <<obj, deliveryQueue, delivered, failures, rows>>,
             DOMAIN m = {"at", "o", "id", "list", "copy", "to", "back"}, m.at \in {"remember", "replace", "idle"},
             m.list = {}, m.id = 0, m.back = ""
      PROVE  EarnedInv'
  <2>1. LocalOK(m, obj, delivered, failures) BY <1>6 DEF LocalOK
  <2>2. RowsOK' /\ c \in Procs BY <1>0, <1>6 DEF RowsOK, Procs
  <2> QED BY <1>6, <2>1, <2>2, QuietStep
<1>7. ASSUME NEW c \in ApiUsers, SaveSetting(c) \/ RememberSetting(c) PROVE EarnedInv'
  <2>1. CASE RememberSetting(c)
    <3>1. local' = [local EXCEPT ![c] = Idle] /\ UNCHANGED <<obj, deliveryQueue, delivered, failures, rows>>
      BY <2>1 DEF RememberSetting, Go, index, outcome
    <3>2. RowsOK' /\ c \in Procs BY <1>0, <3>1 DEF RowsOK, Procs
    <3> QED BY <1>a, <3>1, <3>2, IdleOK, QuietStep
  <2>2. CASE SaveSetting(c)
    <3> DEFINE l == local[c]
               m == [l EXCEPT !.at = "remember"]
    <3>1. l.at = "replace" /\ local' = [local EXCEPT ![c] = m] /\ UNCHANGED <<obj, deliveryQueue, delivered, failures, rows>>
      BY <2>2 DEF SaveSetting, At, Go, Goto, index, outcome
    <3>2. RowsOK' /\ c \in Procs BY <1>0, <3>1 DEF RowsOK, Procs
    <3>3. LocalOK(l, obj, delivered, failures) BY <1>00, <3>2
    <3>4. LocalOK(m, obj, delivered, failures) /\ m.back = ""
      <4>1. /\ DOMAIN m = DOMAIN l /\ m.at = "remember" /\ m.o = l.o /\ m.id = l.id /\ m.list = l.list /\ m.back = l.back
        BY <3>3 DEF LocalOK
      <4> HIDE DEF m, l
      <4> QED BY <3>1, <3>3, <4>1 DEF LocalOK
    <3> HIDE DEF m
    <3> QED BY <3>1, <3>2, <3>4, QuietStep
  <2> QED BY <1>7, <2>1, <2>2
<1>8. ASSUME NEW c \in ApiUsers, NEW s \in Settings, CreateSetting(c, s) \/ UpdateSetting(c, s) \/ DeleteSetting(c, s) PROVE EarnedInv'
  <2> DEFINE m(a, to) == [Idle EXCEPT !.at = a, !.copy = s, !.to = to]
  <2>1. UNCHANGED <<obj, deliveryQueue, delivered, failures, rows>>
    BY <1>8 DEF CreateSetting, UpdateSetting, DeleteSetting, index, outcome
  <2>2. \E a \in {"remember", "replace"}, to \in {"enabled", "disabled", "absent"} : local' = [local EXCEPT ![c] = m(a, to)]
    BY <1>8 DEF CreateSetting, UpdateSetting, DeleteSetting, Go
  <2>3. ASSUME NEW a \in {"remember", "replace"}, NEW to PROVE
               /\ DOMAIN m(a, to) = {"at", "o", "id", "list", "copy", "to", "back"} /\ m(a, to).at = a
               /\ m(a, to).list = {} /\ m(a, to).id = 0 /\ m(a, to).back = ""
    BY DEF Idle
  <2> HIDE DEF m
  <2>4. PICK a \in {"remember", "replace"}, to \in {"enabled", "disabled", "absent"} : local' = [local EXCEPT ![c] = m(a, to)]
    BY <2>2
  <2> DEFINE n == m(a, to)
  <2>5. /\ DOMAIN n = {"at", "o", "id", "list", "copy", "to", "back"} /\ n.at \in {"remember", "replace", "idle"}
        /\ n.list = {} /\ n.id = 0 /\ n.back = "" /\ local' = [local EXCEPT ![c] = n]
    BY <2>3, <2>4
  <2> HIDE DEF n
  <2> QED BY <1>6, <2>1, <2>5
<1> QED BY <1>1, <1>3, <1>4, <1>5, <1>7, <1>8

\* A notification enters the queue as a new object, or is dropped.
LEMMA EnqueueEarns == ASSUME EarnedInv, NEW p \in Procs, enqueueNotification(p) PROVE EarnedInv'
<1> USE DEF Saving, Updating, Delivering, Elsewhere
<1> DEFINE n == Len(obj)
<1>0. /\ LocalOK(local[p], obj, delivered, failures) /\ RowsOK /\ ObjectsOK /\ QueueOK /\ CountsOK
      /\ n \in Nat /\ DOMAIN obj = 1..n /\ local[p].at = "enqueue" /\ n < MaxObjects /\ UNCHANGED <<rows, delivered, failures>>
  BY DEF EarnedInv, ObjectsOK, IsSeq, enqueueNotification, At, index, outcome
<1>1. PICK x \in local[p].list :
          LET id == IF x.id = 0 THEN Len(obj) + 1 ELSE x.id
              rest == [Idle EXCEPT !.list = local[p].list \ {x}]
          IN  IF Len(deliveryQueue) < BufferSize
              THEN /\ obj' = Append(obj, [x EXCEPT !.id = id])
                   /\ deliveryQueue' = Append(deliveryQueue, Len(obj) + 1)
                   /\ Go(p, [rest EXCEPT !.at = "marshal", !.o = Len(obj) + 1, !.id = id])
                   /\ Begin(p, id)
              ELSE /\ Go(p, IF rest.list = {} THEN Idle ELSE [rest EXCEPT !.at = "enqueue"])
                   /\ UNCHANGED <<obj, deliveryQueue, overlap>>
  BY DEF enqueueNotification
<1> DEFINE id == IF x.id = 0 THEN n + 1 ELSE x.id
           list == local[p].list \ {x}
           rest == [Idle EXCEPT !.list = list]
<1>2. \A y \in list : ListedOK(y, delivered, failures) BY <1>0 DEF LocalOK
<1>3. ListedOK(x, delivered, failures) BY <1>0 DEF LocalOK
<1>4. RowsOK' BY <1>0 DEF RowsOK
<1>5. /\ DOMAIN rest = {"at", "o", "id", "list", "copy", "to", "back"} /\ rest.list = list /\ rest.back = ""
      /\ rest.at = "idle" /\ rest.o = 0 /\ rest.id = 0
  BY DEF Idle
<1>6. CASE ~(Len(deliveryQueue) < BufferSize)
  <2> DEFINE m == IF list = {} THEN Idle ELSE [rest EXCEPT !.at = "enqueue"]
  <2>1. local' = [local EXCEPT ![p] = m] /\ UNCHANGED <<obj, deliveryQueue>>
    BY <1>1, <1>5, <1>6 DEF Go
  <2>2. LocalOK(m, obj, delivered, failures) /\ m.back = ""
    <3>1. CASE list = {} BY <3>1, IdleOK DEF Idle
    <3>2. CASE list # {}
      <4> DEFINE k == [rest EXCEPT !.at = "enqueue"]
      <4>1. /\ DOMAIN k = {"at", "o", "id", "list", "copy", "to", "back"} /\ k.list = list /\ k.back = "" /\ k.at = "enqueue" /\ k.id = 0
        BY DEF Idle
      <4>2. m = k BY <3>2
      <4> HIDE DEF k, m, list
      <4> QED BY <1>2, <4>1, <4>2 DEF LocalOK
    <3> QED BY <3>1, <3>2
  <2> HIDE DEF m
  <2> QED BY <1>0, <1>4, <2>1, <2>2, QuietStep
<1>7. CASE Len(deliveryQueue) < BufferSize
  <2> DEFINE m == [rest EXCEPT !.at = "marshal", !.o = n + 1, !.id = id]
             v == [x EXCEPT !.id = id]
  <2>1. obj' = Append(obj, v) /\ deliveryQueue' = Append(deliveryQueue, n + 1) /\ local' = [local EXCEPT ![p] = m]
    BY <1>1, <1>7 DEF Go
  <2>2. id \in ObjectIds BY <1>0, <1>3, AttemptsAssumption DEF ObjectIds, ListedOK
  <2>3. IsObject(v) /\ v.id = id /\ RecordOK(id, v, delivered, failures)
    <3>1. IsObject(v) /\ v.id = id /\ v.status = x.status /\ v.retries = x.retries BY <1>3 DEF ListedOK, IsObject
    <3>2. RecordOK(id, x, delivered, failures)
      <4>1. failures[id] \in Nat BY <1>0, <2>2 DEF CountsOK
      <4> QED BY <1>3, <4>1 DEF ListedOK, RecordOK, Earned
    <3> HIDE DEF v, id
    <3> QED BY <3>1, <3>2 DEF RecordOK
  <2>4. /\ DOMAIN m = {"at", "o", "id", "list", "copy", "to", "back"} /\ m.at = "marshal" /\ m.o = n + 1 /\ m.id = id
        /\ m.list = list /\ m.back = ""
    BY DEF Idle
  <2> HIDE DEF v, m, id, list, rest
  <2>5. /\ IsSeq(obj') /\ DOMAIN obj' = 1..n + 1 /\ obj'[n + 1] = v /\ \A o \in DOMAIN obj : obj'[o] = obj[o]
        /\ \A o \in DOMAIN obj' : o \in DOMAIN obj \/ o = n + 1
    <3>1. IsSeq(obj) BY <1>0 DEF ObjectsOK
    <3>2. /\ IsSeq(Append(obj, v)) /\ DOMAIN Append(obj, v) = 1..n + 1
          /\ \A i \in 1..n : Append(obj, v)[i] = obj[i] /\ Append(obj, v)[n + 1] = v
          /\ Append(obj, v)[n + 1] = v
      BY <3>1, AppendIsSeq
    <3>3. 1..n + 1 = 1..n \cup {n + 1} BY <1>0
    <3> QED BY <1>0, <2>1, <3>2, <3>3
  <2>6. ObjectsOK' BY <1>0, <2>2, <2>3, <2>5 DEF ObjectsOK
  <2>7. /\ QueueOK'
        /\ \A i \in DOMAIN deliveryQueue' : deliveryQueue'[i] = n + 1 \/ \E j \in DOMAIN deliveryQueue : deliveryQueue'[i] = deliveryQueue[j]
    <3> DEFINE q == deliveryQueue
               k == Len(deliveryQueue)
    <3>1. IsSeq(q) /\ \A i \in DOMAIN q : q[i] \in DOMAIN obj BY <1>0 DEF QueueOK
    <3>2. /\ IsSeq(Append(q, n + 1)) /\ DOMAIN Append(q, n + 1) = 1..k + 1 /\ DOMAIN q = 1..k
          /\ \A i \in 1..k : Append(q, n + 1)[i] = q[i]
          /\ Append(q, n + 1)[k + 1] = n + 1
      BY <3>1, AppendIsSeq
    <3>3. k \in Nat /\ 1..k + 1 = 1..k \cup {k + 1} BY <3>1 DEF IsSeq
    <3>4. n + 1 \notin DOMAIN obj /\ n + 1 \in DOMAIN obj' BY <1>0, <2>5
    <3>5. \A i, j \in DOMAIN q : q[i] = q[j] => i = j BY <1>0 DEF QueueOK
    <3> HIDE DEF k
    <3>6. /\ IsSeq(deliveryQueue') /\ DOMAIN deliveryQueue' = DOMAIN q \cup {k + 1}
          /\ \A i \in DOMAIN q : deliveryQueue'[i] = q[i] /\ deliveryQueue'[k + 1] = n + 1
          /\ deliveryQueue'[k + 1] = n + 1
      BY <2>1, <3>2, <3>3
    <3>7. \A i \in DOMAIN deliveryQueue' : deliveryQueue'[i] \in DOMAIN obj' BY <2>5, <3>1, <3>4, <3>6, <1>0
    <3>8. \A i, j \in DOMAIN deliveryQueue' : deliveryQueue'[i] = deliveryQueue'[j] => i = j
      BY <3>1, <3>4, <3>5, <3>6
    <3> QED BY <3>6, <3>7, <3>8 DEF QueueOK
  <2>8. local' = [r \in Procs |-> local'[r]] /\ \A r \in Procs : local'[r] = IF r = p THEN m ELSE local[r]
    BY <2>1 DEF EarnedInv
  <2>9. ASSUME NEW r \in Procs PROVE LocalOK(local'[r], obj', delivered', failures')
    <3>1. CASE r = p
      <4>1. n + 1 \in DOMAIN obj' /\ obj'[n + 1].id = id BY <1>0, <2>3, <2>5
      <4>2. LocalOK(m, obj', delivered, failures) BY <1>2, <2>4, <4>1 DEF LocalOK
      <4> QED BY <1>0, <2>8, <3>1, <4>2
    <3>2. CASE r # p
      <4>1. LocalOK(local[r], obj, delivered, failures) /\ local'[r] = local[r] BY <2>8, <3>2 DEF EarnedInv
      <4>2. Grows(delivered, delivered) /\ Grows(failures, failures) BY <1>0 DEF Grows, CountsOK
      <4>3. \A o \in DOMAIN obj : /\ o \in DOMAIN obj' /\ obj'[o].id = obj[o].id /\ obj[o].id \in ObjectIds
                                  /\ obj[o].retries \in Nat
        BY <1>0, <2>5 DEF ObjectsOK, RecordOK
      <4>4. local[r].at = "failure" => obj'[local[r].o].retries = obj[local[r].o].retries
        BY <2>5, <4>1 DEF LocalOK
      <4> QED BY <1>0, <4>1, <4>2, <4>3, <4>4, LocalGrows
    <3> QED BY <3>1, <3>2
  <2>10. Owned(local', deliveryQueue')
    <3>1. \A r \in Procs : local'[r].back = "deliver" => r # p /\ local'[r] = local[r] BY <2>4, <2>8
    <3>2. \A r \in Procs : local[r].back = "deliver" => local[r].o \in DOMAIN obj BY DEF EarnedInv, LocalOK
    <3>3. n + 1 \notin DOMAIN obj BY <1>0
    <3> QED BY <2>7, <3>1, <3>2, <3>3 DEF EarnedInv, Owned
  <2>11. CountsOK' BY <1>0 DEF CountsOK
  <2> QED BY <1>4, <2>6, <2>7, <2>8, <2>9, <2>10, <2>11 DEF EarnedInv
<1> QED BY <1>6, <1>7

QueueShrinks(dq, e) ==
    /\ IsSeq(e) /\ \A i, j \in DOMAIN e : e[i] = e[j] => i = j
    /\ \A i \in DOMAIN e : \E j \in DOMAIN dq : e[i] = dq[j]

NotFailing(o, w, lc) == \A r \in Procs \ {w} : lc[r].at = "failure" => lc[r].o # o

ObjectOK(v, d, f) == IsObject(v) /\ v.id \in ObjectIds /\ RecordOK(v.id, v, d, f)

\* A worker changes the object it holds, or counts a delivery.
LEMMA WorkerStep ==
    ASSUME EarnedInv, NEW w \in Procs, NEW m, local' = [local EXCEPT ![w] = m],
           NEW o \in DOMAIN obj, NEW v, obj' = [obj EXCEPT ![o] = v], v.id = obj[o].id,
           ObjectOK(v, delivered', failures'), Grows(delivered, delivered'), Grows(failures, failures'),
           LocalOK(m, obj', delivered', failures'), rows' = rows,
           QueueShrinks(deliveryQueue, deliveryQueue'), Owned(local', deliveryQueue'), NotFailing(o, w, local)
    PROVE  EarnedInv'
<1>1. local' = [r \in Procs |-> local'[r]] /\ \A r \in Procs : local'[r] = IF r = w THEN m ELSE local[r]
  BY DEF EarnedInv
<1>2. /\ IsSeq(obj') /\ DOMAIN obj' = DOMAIN obj /\ obj'[o] = v /\ \A k \in DOMAIN obj \ {o} : obj'[k] = obj[k]
  BY ExceptIsSeq DEF EarnedInv, ObjectsOK
<1>3. ObjectsOK'
  <2>1. ASSUME NEW k \in DOMAIN obj \ {o}
        PROVE  IsObject(obj'[k]) /\ obj'[k].id \in ObjectIds /\ RecordOK(obj'[k].id, obj'[k], delivered', failures')
    <3>1. IsObject(obj[k]) /\ obj[k].id \in ObjectIds /\ RecordOK(obj[k].id, obj[k], delivered, failures) BY DEF EarnedInv, ObjectsOK
    <3>2. RecordOK(obj[k].id, obj[k], delivered', failures') BY <3>1, RecordGrows
    <3> QED BY <1>2, <3>1, <3>2
  <2> QED BY <1>2, <2>1 DEF ObjectsOK, ObjectOK
<1>4. RowsOK'
  <2>1. ASSUME NEW id \in DOMAIN rows PROVE IsRow(rows[id]) /\ RecordOK(id, rows[id], delivered', failures')
    <3>1. id \in ObjectIds /\ IsRow(rows[id]) /\ RecordOK(id, rows[id], delivered, failures) BY DEF EarnedInv, RowsOK
    <3> QED BY <3>1, RecordGrows
  <2> QED BY <2>1 DEF EarnedInv, RowsOK
<1>5. QueueOK' BY <1>2 DEF EarnedInv, QueueOK, QueueShrinks
<1>6. ASSUME NEW r \in Procs PROVE LocalOK(local'[r], obj', delivered', failures')
  <2>1. CASE r = w BY <1>1, <2>1
  <2>2. CASE r # w
    <3>1. LocalOK(local[r], obj, delivered, failures) /\ local'[r] = local[r] BY <1>1, <2>2 DEF EarnedInv
    <3>2. \A k \in DOMAIN obj : /\ k \in DOMAIN obj' /\ obj'[k].id = obj[k].id /\ obj[k].id \in ObjectIds
                                /\ obj[k].retries \in Nat
      BY <1>2 DEF EarnedInv, ObjectsOK, RecordOK
    <3>3. local[r].at = "failure" => obj'[local[r].o].retries = obj[local[r].o].retries
      BY <1>2, <2>2, <3>1 DEF LocalOK, Delivering, NotFailing
    <3>4. LocalOK(local[r], obj', delivered', failures')
      <4> DEFINE k == local[r]
                 ob == obj'
                 d == delivered'
                 f == failures'
      <4>1. LocalOK(k, obj, delivered, failures) /\ Grows(delivered, d) /\ Grows(failures, f)
            /\ (k.at = "failure" => ob[k.o].retries = obj[k.o].retries)
            /\ \A x \in DOMAIN obj : x \in DOMAIN ob /\ ob[x].id = obj[x].id /\ obj[x].id \in ObjectIds /\ obj[x].retries \in Nat
        BY <3>1, <3>2, <3>3
      <4> HIDE DEF k, ob, d, f
      <4>2. LocalOK(k, ob, d, f) BY <4>1, LocalGrows
      <4> QED BY <4>2 DEF k, ob, d, f
    <3> QED BY <3>1, <3>4
  <2> QED BY <2>1, <2>2
<1>7. CountsOK' BY DEF CountsOK, Grows
<1> QED BY <1>1, <1>3, <1>4, <1>5, <1>6, <1>7 DEF EarnedInv

LEMMA NoGrowth == EarnedInv => Grows(delivered, delivered) /\ Grows(failures, failures)
BY DEF EarnedInv, CountsOK, Grows

\* What is left of the queue after its head.
LEMMA QueueTail ==
    ASSUME EarnedInv, deliveryQueue # <<>>
    PROVE  LET t == Tail(deliveryQueue)
           IN  /\ IsSeq(t) /\ \A i, j \in DOMAIN t : t[i] = t[j] => i = j
               /\ \A i \in DOMAIN t : t[i] # Head(deliveryQueue) /\ \E j \in DOMAIN deliveryQueue : t[i] = deliveryQueue[j]
               /\ \E j \in DOMAIN deliveryQueue : Head(deliveryQueue) = deliveryQueue[j]
<1> DEFINE q == deliveryQueue
           t == Tail(q)
<1>1. /\ IsSeq(q) /\ Len(q) \in Nat /\ DOMAIN q = 1..Len(q) /\ q \in Seq({q[i] : i \in 1..Len(q)})
      /\ \A i, j \in DOMAIN q : q[i] = q[j] => i = j
  BY DEF EarnedInv, QueueOK, IsSeq
<1>2. Len(q) # 0 /\ q # <<>> BY <1>1 DEF IsSeq
<1>3. Head(q) = q[1] BY <1>1, <1>2
<1>4. Len(t) = Len(q) - 1 /\ t = [i \in 1..Len(t) |-> t[i]] /\ \A i \in 1..Len(t) : t[i] = q[i + 1]
  <2> DEFINE T == {q[i] : i \in 1..Len(q)}
  <2>1. q \in Seq(T) /\ q # <<>> BY <1>1, <1>2
  <2> HIDE DEF T, q
  <2>2. t \in Seq(T) /\ Len(t) = Len(q) - 1 /\ \A i \in 1..Len(t) : t[i] = q[i + 1] BY <2>1, HeadTailProperties
  <2> HIDE DEF t
  <2> QED BY <2>2
<1> HIDE DEF t, q
<1>5. IsSeq(t) /\ DOMAIN t = 1..Len(q) - 1 /\ \A i \in DOMAIN t : t[i] = q[i + 1] /\ i + 1 \in DOMAIN q /\ i + 1 # 1 /\ i \in Nat
  BY <1>1, <1>2, <1>3, <1>4 DEF IsSeq
<1>6. 1 \in DOMAIN q BY <1>1, <1>2
<1>7. \A i, j \in DOMAIN t : t[i] = t[j] => i = j
  <2> SUFFICES ASSUME NEW i \in DOMAIN t, NEW j \in DOMAIN t, t[i] = t[j] PROVE i = j OBVIOUS
  <2>1. i + 1 = j + 1 BY <1>1, <1>5
  <2> QED BY <1>5, <2>1
<1>8. \A i \in DOMAIN t : t[i] # q[1] BY <1>1, <1>5, <1>6
<1> QED BY <1>3, <1>5, <1>6, <1>7, <1>8 DEF q, t

LEMMA ProcessEarns == ASSUME EarnedInv, NEW w \in Workers, processNotification(w) PROVE EarnedInv'
<1> DEFINE o == Head(deliveryQueue)
           t == Tail(deliveryQueue)
           v == [obj[o] EXCEPT !.status = "retrying"]
           m == [Idle EXCEPT !.at = "update", !.o = o, !.id = obj[o].id, !.to = "retrying", !.back = "deliver"]
<1>0. w \in Procs /\ local[w].at = "idle" /\ deliveryQueue # <<>> /\ deliveryQueue' = t /\ UNCHANGED <<rows, delivered, failures>>
  BY DEF Procs, processNotification, At, index, outcome
<1>1. /\ IsSeq(t) /\ \A i, j \in DOMAIN t : t[i] = t[j] => i = j
      /\ \A i \in DOMAIN t : t[i] # o /\ \E j \in DOMAIN deliveryQueue : t[i] = deliveryQueue[j]
      /\ \E j \in DOMAIN deliveryQueue : o = deliveryQueue[j]
  BY <1>0, QueueTail
<1>2. o \in DOMAIN obj BY <1>1 DEF EarnedInv, QueueOK
<1>3. \A r \in Procs : local[r].back = "deliver" => local[r].o # o /\ \A i \in DOMAIN t : t[i] # local[r].o
  BY <1>1 DEF EarnedInv, Owned
<1> HIDE DEF t
<1>4. CASE UNCHANGED <<obj, local, overlap>>
  <2>1. QueueOK' BY <1>0, <1>1, <1>4 DEF EarnedInv, QueueOK
  <2>2. Owned(local', deliveryQueue') BY <1>0, <1>3, <1>4 DEF EarnedInv, Owned
  <2>3. CountsOK' /\ ObjectsOK' /\ RowsOK' BY <1>0, <1>4 DEF EarnedInv, CountsOK, ObjectsOK, RowsOK
  <2> QED BY <1>0, <1>4, <2>1, <2>2, <2>3 DEF EarnedInv
<1>5. CASE obj' = [obj EXCEPT ![o].status = "retrying"] /\ Update(w, o, obj[o].id, "retrying", "deliver")
  <2>1. obj' = [obj EXCEPT ![o] = v] /\ local' = [local EXCEPT ![w] = m] BY <1>5 DEF Update, Go
  <2>2. IsObject(obj[o]) /\ obj[o].id \in ObjectIds /\ RecordOK(obj[o].id, obj[o], delivered, failures)
    BY <1>2 DEF EarnedInv, ObjectsOK
  <2>3. IsObject(v) /\ v.id = obj[o].id /\ v.status = "retrying" /\ v.retries = obj[o].retries BY <2>2 DEF IsObject
  <2> HIDE DEF v
  <2>4. ObjectOK(v, delivered', failures') BY <1>0, <2>2, <2>3 DEF ObjectOK, RecordOK, Earned
  <2>5. DOMAIN obj' = DOMAIN obj /\ obj'[o] = v BY <1>2, <2>1
  <2>6. m.back = "deliver" /\ m.o = o BY DEF Idle
  <2>7. LocalOK(m, obj', delivered', failures')
    <3> DEFINE id == obj[o].id
    <3>1. Earned(id, "retrying", delivered', failures') BY DEF Earned
    <3>2. o \in DOMAIN obj' /\ obj'[o].id = id /\ id \in ObjectIds BY <1>2, <2>2, <2>3, <2>5
    <3> HIDE DEF id, o
    <3> QED BY <3>1, <3>2, UpdateOK DEF id
  <2> HIDE DEF m
  <2>8. \A r \in Procs : local'[r] = IF r = w THEN m ELSE local[r] BY <2>1 DEF EarnedInv
  <2>9. Owned(local', deliveryQueue')
    <3>1. \A r \in Procs \ {w} : local'[r] = local[r] BY <2>8
    <3>2. local'[w] = m BY <1>0, <2>8
    <3> QED BY <1>0, <1>1, <1>3, <2>6, <3>1, <3>2 DEF EarnedInv, Owned
  <2>10. NotFailing(o, w, local) BY <1>3 DEF EarnedInv, LocalOK, Delivering, NotFailing
  <2>11. Grows(delivered, delivered') /\ Grows(failures, failures') BY <1>0, NoGrowth
  <2>12. QueueShrinks(deliveryQueue, deliveryQueue') BY <1>0, <1>1 DEF QueueShrinks
  <2> HIDE DEF o
  <2> QED BY <1>0, <1>2, <2>1, <2>3, <2>4, <2>7, <2>9, <2>10, <2>11, <2>12, WorkerStep
<1> QED BY <1>4, <1>5 DEF processNotification

LEMMA OutcomeEarns ==
    ASSUME EarnedInv, NEW w \in Workers, DeliverNotification(w) \/ handleDeliverySuccess(w) \/ handleDeliveryFailure(w)
    PROVE  EarnedInv'
<1> USE DEF Saving, Updating, Delivering, Elsewhere
<1> DEFINE l == local[w]
           o == l.o
<1>0. w \in Procs /\ l.at \in Delivering /\ UNCHANGED <<rows, deliveryQueue>>
  BY DEF Procs, DeliverNotification, handleDeliverySuccess, handleDeliveryFailure, At, index
<1>1. LocalOK(l, obj, delivered, failures) /\ l.back = "deliver" /\ o \in DOMAIN obj /\ obj[o].id = l.id
  BY <1>0 DEF EarnedInv, LocalOK
<1>2. l.id \in ObjectIds /\ IsObject(obj[o]) /\ RecordOK(l.id, obj[o], delivered, failures)
  BY <1>1 DEF EarnedInv, ObjectsOK
<1>3. /\ delivered \in [ObjectIds -> Nat] /\ failures \in [ObjectIds -> Nat]
  BY DEF EarnedInv, CountsOK
<1>4. NotFailing(o, w, local)
  BY <1>0, <1>1 DEF EarnedInv, LocalOK, Owned, NotFailing
<1>5. QueueShrinks(deliveryQueue, deliveryQueue') BY <1>0 DEF EarnedInv, QueueOK, QueueShrinks
<1>6. ASSUME NEW m, local' = [local EXCEPT ![w] = m], m.back = "deliver" => m.o = o PROVE Owned(local', deliveryQueue')
  <2>1. \A r \in Procs : local'[r] = IF r = w THEN m ELSE local[r] BY <1>6 DEF EarnedInv
  <2>2. \A r \in Procs : local'[r].back = "deliver" => local[r].back = "deliver" /\ local'[r].o = local[r].o
    BY <1>1, <1>6, <2>1
  <2> QED BY <1>0, <2>2 DEF EarnedInv, Owned
<1>7. CASE DeliverNotification(w)
  <2>1. obj' = obj /\ l.at = "deliver" BY <1>7 DEF DeliverNotification, At
  <2>2. obj' = [obj EXCEPT ![o] = obj[o]] BY <2>1 DEF EarnedInv, ObjectsOK, IsSeq
  <2>3. ASSUME NEW a \in {"success", "failure"}, local' = [local EXCEPT ![w] = [l EXCEPT !.at = a]],
               Grows(delivered, delivered'), Grows(failures, failures'),
               a = "success" => delivered'[l.id] > 0, a = "failure" => obj[o].retries < failures'[l.id]
        PROVE  EarnedInv'
    <3> DEFINE m == [l EXCEPT !.at = a]
    <3>1. /\ DOMAIN m = DOMAIN l /\ m.at = a /\ m.o = o /\ m.id = l.id /\ m.list = l.list /\ m.back = "deliver"
      BY <1>1 DEF LocalOK
    <3>2. local' = [local EXCEPT ![w] = m] BY <2>3
    <3> HIDE DEF m
    <3>3. LocalOK(l, obj', delivered', failures')
      <4>1. \A k \in DOMAIN obj : /\ k \in DOMAIN obj' /\ obj'[k].id = obj[k].id /\ obj[k].id \in ObjectIds
                                  /\ obj[k].retries \in Nat
        BY <2>1 DEF EarnedInv, ObjectsOK, RecordOK
      <4>2. l.at # "failure" BY <2>1
      <4> HIDE DEF l
      <4> QED BY <1>1, <2>3, <4>1, <4>2, LocalGrows
    <3>4. LocalOK(m, obj', delivered', failures')
      <4> HIDE DEF l
      <4> QED BY <1>1, <2>1, <2>3, <3>1, <3>3 DEF LocalOK, o
    <3>5. RecordOK(l.id, obj[o], delivered', failures') BY <1>2, <2>3, RecordGrows
    <3>6. Owned(local', deliveryQueue') BY <1>6, <3>1, <3>2
    <3> DEFINE v == obj[o]
    <3>7. v.id = obj[o].id /\ ObjectOK(v, delivered', failures') /\ obj' = [obj EXCEPT ![o] = v]
      BY <1>1, <1>2, <2>2, <3>5 DEF ObjectOK
    <3> HIDE DEF v, o
    <3> QED BY <1>0, <1>1, <1>4, <1>5, <2>3, <3>2, <3>4, <3>6, <3>7, WorkerStep
  <2>4. CASE delivered' = [delivered EXCEPT ![l.id] = @ + 1] /\ Goto(w, "success") /\ UNCHANGED failures
    <3>1. local' = [local EXCEPT ![w] = [l EXCEPT !.at = "success"]] BY <2>4 DEF Goto, Go
    <3>2. Grows(delivered, delivered') /\ Grows(failures, failures') /\ delivered'[l.id] > 0
      BY <1>2, <1>3, <2>4 DEF Grows
    <3> QED BY <2>3, <3>1, <3>2
  <2>5. CASE failures' = [failures EXCEPT ![l.id] = @ + 1] /\ Goto(w, "failure") /\ UNCHANGED delivered
    <3>1. local' = [local EXCEPT ![w] = [l EXCEPT !.at = "failure"]] BY <2>5 DEF Goto, Go
    <3>2. Grows(delivered, delivered') /\ Grows(failures, failures') /\ failures'[l.id] = failures[l.id] + 1
      BY <1>2, <1>3, <2>5 DEF Grows
    <3>3. obj[o].retries < failures'[l.id] BY <1>2, <1>3, <3>2 DEF RecordOK
    <3> QED BY <2>3, <3>1, <3>2, <3>3
  <2> QED BY <1>7, <2>4, <2>5 DEF DeliverNotification
<1>8. ASSUME NEW v, NEW to, obj' = [obj EXCEPT ![o] = v], IsObject(v), v.id = l.id, RecordOK(l.id, v, delivered, failures),
             Earned(l.id, to, delivered, failures), Update(w, o, l.id, to, "idle"), UNCHANGED <<delivered, failures>>
      PROVE  EarnedInv'
  <2> DEFINE id == l.id
             m == [Idle EXCEPT !.at = "update", !.o = o, !.id = id, !.to = to, !.back = "idle"]
  <2>1. local' = [local EXCEPT ![w] = m] /\ m.back = "idle" BY <1>8 DEF Update, Go, Idle
  <2>2. LocalOK(m, obj', delivered', failures')
    <3>1. id \in ObjectIds /\ Earned(id, to, delivered', failures') BY <1>2, <1>8
    <3> HIDE DEF id, o
    <3> QED BY <3>1, UpdateOK
  <2> HIDE DEF m
  <2>3. Owned(local', deliveryQueue') BY <1>6, <2>1
  <2>4. Grows(delivered, delivered') /\ Grows(failures, failures') BY <1>8, NoGrowth
  <2>5. v.id = obj[o].id /\ ObjectOK(v, delivered', failures') BY <1>1, <1>2, <1>8 DEF ObjectOK
  <2> HIDE DEF o
  <2> QED BY <1>0, <1>1, <1>4, <1>5, <1>8, <2>1, <2>2, <2>3, <2>4, <2>5, WorkerStep
<1>9. CASE handleDeliverySuccess(w)
  <2> DEFINE v == [obj[o] EXCEPT !.status = "sent"]
  <2>1. l.at = "success" /\ obj' = [obj EXCEPT ![o] = v] /\ Update(w, o, l.id, "sent", "idle") /\ UNCHANGED <<delivered, failures>>
    BY <1>9 DEF handleDeliverySuccess, At, Here, outcome
  <2>2. Earned(l.id, "sent", delivered, failures) BY <1>1, <2>1 DEF LocalOK, Earned
  <2>3. IsObject(v) /\ v.id = l.id /\ v.status = "sent" /\ v.retries = obj[o].retries BY <1>1, <1>2 DEF IsObject
  <2> HIDE DEF v
  <2>4. RecordOK(l.id, v, delivered, failures) BY <1>2, <2>2, <2>3 DEF RecordOK
  <2> QED BY <1>8, <2>1, <2>2, <2>3, <2>4
<1>10. CASE handleDeliveryFailure(w)
  <2> DEFINE n == obj[o].retries + 1
             to == IF n >= MaxAttempts THEN "failed" ELSE "retrying"
             v == [obj[o] EXCEPT !.retries = n, !.status = to, !.next = IF to = "failed" THEN @ ELSE n]
  <2>1. l.at = "failure" /\ Update(w, o, l.id, to, "idle") /\ UNCHANGED <<delivered, failures>>
    BY <1>10 DEF handleDeliveryFailure, At, Here, outcome
  <2>2. obj' = [obj EXCEPT ![o] = v]
    <3>1. obj' = [obj EXCEPT ![o].retries = n, ![o].status = to, ![o].next = IF to = "failed" THEN @ ELSE n]
      BY <1>10 DEF handleDeliveryFailure, Here
    <3>2. obj = [i \in DOMAIN obj |-> obj[i]] BY DEF EarnedInv, ObjectsOK, IsSeq
    <3> HIDE DEF n, to
    <3> QED BY <1>1, <3>1, <3>2
  <2>3. n \in Nat /\ n <= failures[l.id] BY <1>1, <1>2, <1>3, <2>1 DEF LocalOK, RecordOK
  <2> HIDE DEF n
  <2>4. Earned(l.id, to, delivered, failures) BY <1>2, <1>3, <2>3, AttemptsAssumption DEF Earned
  <2> HIDE DEF to
  <2>5. IsObject(v) /\ v.id = l.id /\ v.status = to /\ v.retries = n BY <1>1, <1>2 DEF IsObject
  <2> HIDE DEF v
  <2>6. RecordOK(l.id, v, delivered, failures) BY <2>3, <2>4, <2>5 DEF RecordOK
  <2> QED BY <1>8, <2>1, <2>2, <2>4, <2>5, <2>6
<1> QED BY <1>7, <1>9, <1>10

LEMMA RestartEarns == ASSUME EarnedInv, Restart PROVE EarnedInv'
<1>1. /\ local' = [p \in Procs |-> Idle] /\ deliveryQueue' = <<>> /\ UNCHANGED <<obj, rows, delivered, failures>>
  BY DEF Restart, index, outcome
<1>2. \A p \in Procs : local'[p] = Idle /\ local'[p].back = "" BY <1>1 DEF Idle
<1>3. CountsOK' /\ ObjectsOK' /\ RowsOK' BY <1>1 DEF EarnedInv, CountsOK, ObjectsOK, RowsOK
<1>4. QueueOK' /\ DOMAIN deliveryQueue' = {} BY <1>1 DEF QueueOK, IsSeq
<1>5. Owned(local', deliveryQueue') BY <1>2 DEF Owned
<1> QED BY <1>1, <1>2, <1>3, <1>4, <1>5, IdleOK DEF EarnedInv

LEMMA EarnedStep == EarnedInv /\ [NotificationsNext]_notificationVars => EarnedInv'
<1> SUFFICES ASSUME EarnedInv, [NotificationsNext]_notificationVars PROVE EarnedInv' OBVIOUS
<1>1. CASE UNCHANGED <<obj, deliveryQueue, rows, local, delivered, failures>>
  BY <1>1 DEF EarnedInv, CountsOK, ObjectsOK, RowsOK, QueueOK
<1>2. (UNCHANGED notificationVars \/ StopService) => UNCHANGED <<obj, deliveryQueue, rows, local, delivered, failures>>
  BY DEF notificationVars, StopService, index, outcome
<1> QED
  BY <1>1, <1>2, RestartEarns, CallsEarn, EnqueueEarns, StoringEarns, ProcessEarns, OutcomeEarns DEF NotificationsNext, Working

\* A notification is stored as sent only when its receiver has accepted it and
\* as failed only after MaxAttempts failed deliveries, whatever retries,
\* cancellations, restarts and overlapping saves come in between
\* (service.go, handleDeliverySuccess and handleDeliveryFailure).
THEOREM StatusIsAlwaysEarned == NotificationsSpec => []StatusIsEarned
<1>1. NotificationsInit => EarnedInv BY InitEarned
<1>2. EarnedInv /\ [NotificationsNext]_notificationVars => EarnedInv' BY EarnedStep
<1>3. EarnedInv => StatusIsEarned BY EarnedIsStored
<1> QED BY <1>1, <1>2, <1>3, PTL DEF NotificationsSpec

-----------------------------------------------------------------------------
\* The two states of the store say the same of id.
Agree(id, rw, bs, pi, rw2, bs2, pi2) ==
    /\ id \in DOMAIN rw2 <=> id \in DOMAIN rw
    /\ id \in DOMAIN rw => rw2[id] = rw[id]
    /\ \A s : <<s, id>> \in bs2 <=> <<s, id>> \in bs
    /\ \A k : k[2] = id => (k \in pi2 <=> k \in pi)

\* The object being saved for id is the same.
SavedAlike(id, lc, ob, ob2) ==
    \A q \in Procs : lc[q].id = id /\ lc[q].at \in Saving =>
        ob2[lc[q].o].status = ob[lc[q].o].status /\ ob2[lc[q].o].next = ob[lc[q].o].next

\* The goroutines but p are where they were.
OthersStayed(p, lc, lc2) == \A q \in Procs \ {p} : lc2[q] = lc[q]

\* What is true of id stays true when p, which does not handle it, moves.
LEMMA ApartTidy ==
    ASSUME NEW id, NEW lc, NEW rw, NEW bs, NEW pi, NEW ob, NEW lc2, NEW rw2, NEW bs2, NEW pi2, NEW ob2, NEW p \in Procs,
           Tidy(id, lc, rw, bs, pi, ob), OthersStayed(p, lc, lc2), lc[p].id # id, lc2[p].id # id,
           Agree(id, rw, bs, pi, rw2, bs2, pi2), SavedAlike(id, lc, ob, ob2)
    PROVE  Tidy(id, lc2, rw2, bs2, pi2, ob2)
<1>1. Unscheduled(id, rw2, pi2) BY DEF Tidy, Unscheduled, Agree
<1>2. Settled(id, rw, bs, pi) => Settled(id, rw2, bs2, pi2) BY DEF Settled, Agree
<1>3. (\A q \in Procs : lc2[q].id # id) => \A q \in Procs : lc[q].id # id BY DEF OthersStayed
<1>4. ASSUME NEW q \in Procs, lc2[q].id = id
      PROVE  Handling(lc2[q], rw2, bs2, pi2, ob2) /\ \A r \in Procs : lc2[r].id = id => r = q
  <2> DEFINE l == lc[q]
  <2>1. lc2[q] = l /\ l.id = id BY <1>4 DEF OthersStayed
  <2>2. Handling(l, rw, bs, pi, ob) /\ \A r \in Procs : lc[r].id = id => r = q BY <2>1 DEF Tidy
  <2>3. l.at \in Saving => ob2[l.o].status = ob[l.o].status /\ ob2[l.o].next = ob[l.o].next BY <2>1 DEF SavedAlike
  <2> HIDE DEF l
  <2>4. Handling(l, rw2, bs2, pi2, ob2) BY <1>2, <2>1, <2>2, <2>3 DEF Handling, Agree
  <2> QED BY <2>1, <2>2, <2>4 DEF OthersStayed
<1> QED BY <1>1, <1>2, <1>3, <1>4 DEF Tidy

\* Its one handler p moves on.
LEMMA OnwardTidy ==
    ASSUME NEW id, NEW lc, NEW rw, NEW bs, NEW pi, NEW ob, NEW lc2, NEW rw2, NEW bs2, NEW pi2, NEW ob2, NEW p \in Procs,
           Tidy(id, lc, rw, bs, pi, ob), OthersStayed(p, lc, lc2), lc[p].id = id,
           Unscheduled(id, rw2, pi2),
           lc2[p].id = id => Handling(lc2[p], rw2, bs2, pi2, ob2),
           lc2[p].id # id => Settled(id, rw2, bs2, pi2)
    PROVE  Tidy(id, lc2, rw2, bs2, pi2, ob2)
<1>1. \A q \in Procs : lc[q].id = id => q = p BY DEF Tidy
<1>2. \A q \in Procs : lc2[q].id = id => q = p BY <1>1 DEF OthersStayed
<1> QED BY <1>2 DEF Tidy

\* p begins to handle id, and nobody else does.
LEMMA BeginTidy ==
    ASSUME NEW id, NEW lc, NEW rw, NEW bs, NEW pi, NEW ob, NEW lc2, NEW ob2, NEW p \in Procs,
           Tidy(id, lc, rw, bs, pi, ob), OthersStayed(p, lc, lc2), \A q \in Procs : lc[q].id # id,
           lc2[p].id = id, Settled(id, rw, bs, pi) => Handling(lc2[p], rw, bs, pi, ob2)
    PROVE  Tidy(id, lc2, rw, bs, pi, ob2)
<1>1. Settled(id, rw, bs, pi) /\ Unscheduled(id, rw, pi) BY DEF Tidy
<1>2. \A q \in Procs : lc2[q].id = id => q = p BY DEF OthersStayed
<1> QED BY <1>1, <1>2 DEF Tidy

LEMMA Same == ASSUME NEW id, NEW rw, NEW bs, NEW pi PROVE Agree(id, rw, bs, pi, rw, bs, pi)
BY DEF Agree

LEMMA InitTidy == NotificationsInit => TidyInv
<1> SUFFICES ASSUME NotificationsInit PROVE TidyInv OBVIOUS
<1>1. \A p \in Procs : local[p].id = 0 /\ local[p].list = {} BY DEF NotificationsInit, Idle
<1>2. DOMAIN rows = {} /\ pendingIndex = {} BY DEF NotificationsInit
<1>3. \A id \in ObjectIds : id # 0 BY AttemptsAssumption DEF ObjectIds
<1> HIDE DEF NotificationsInit
<1> QED BY <1>1, <1>2, <1>3 DEF TidyInv, Tidy, ListsTidy, Unscheduled, Settled

LEMMA TidyIsFound == EarnedInv /\ TidyInv => FoundByStatus
<1> SUFFICES ASSUME EarnedInv, TidyInv, NEW id \in DOMAIN rows \ overlap, \A p \in Procs : local[p].id # id
             PROVE  <<rows[id].status, id>> \in byStatus /\ ((\E k \in pendingIndex : k[2] = id) => rows[id].status \in Unsent)
  BY DEF FoundByStatus
<1>1. id \in ObjectIds BY DEF EarnedInv, RowsOK
<1>2. Settled(id, rows, byStatus, pendingIndex) BY <1>1 DEF TidyInv, Tidy
<1> QED BY <1>2 DEF Settled

\* A goroutine that handles nothing goes on to handle nothing.
LEMMA AsideTidy ==
    ASSUME EarnedInv, TidyInv, NEW p \in Procs, NEW m, local' = [local EXCEPT ![p] = m],
           local[p].id = 0, m.id = 0, UNCHANGED <<rows, byStatus, pendingIndex, obj, overlap>>,
           \A x \in m.list : x.id = 0 \/ x.id \notin overlap => x.status = "pending" /\ x.next = 0
    PROVE  TidyInv'
<1>1. \A q \in Procs : local'[q] = IF q = p THEN m ELSE local[q] BY DEF EarnedInv
<1>2. \A id \in ObjectIds : id # 0 BY AttemptsAssumption DEF ObjectIds
<1>3. ASSUME NEW id \in ObjectIds \ overlap PROVE Tidy(id, local', rows', byStatus', pendingIndex', obj')
  <2> DEFINE lc2 == local'
  <2>1. Tidy(id, local, rows, byStatus, pendingIndex, obj) BY DEF TidyInv
  <2>2. OthersStayed(p, local, lc2) BY <1>1 DEF OthersStayed
  <2>3. lc2[p].id # id /\ local[p].id # id BY <1>1, <1>2
  <2>4. Agree(id, rows, byStatus, pendingIndex, rows, byStatus, pendingIndex) BY Same
  <2>6. SavedAlike(id, local, obj, obj) BY DEF SavedAlike
  <2> HIDE DEF lc2
  <2>5. Tidy(id, lc2, rows, byStatus, pendingIndex, obj) BY <2>1, <2>2, <2>3, <2>4, <2>6, ApartTidy
  <2> QED BY <2>5 DEF lc2
<1>4. ListsTidy(local', overlap') BY <1>1 DEF TidyInv, ListsTidy
<1> QED BY <1>3, <1>4 DEF TidyInv

\* The handler of a notification moves on, or is done with it.
LEMMA HandlerMoves ==
    ASSUME EarnedInv, TidyInv, NEW p \in Procs, NEW m, local' = [local EXCEPT ![p] = m], NEW j \in ObjectIds, local[p].id = j,
           m.id \in {j, 0}, m.list \subseteq local[p].list, overlap' = overlap,
           \A id \in ObjectIds \ {j} : Agree(id, rows, byStatus, pendingIndex, rows', byStatus', pendingIndex'),
           \A o \in DOMAIN obj : obj[o].id # j => obj'[o] = obj[o],
           j \notin overlap => Unscheduled(j, rows', pendingIndex'),
           j \notin overlap => IF m.id = j THEN Handling(m, rows', byStatus', pendingIndex', obj')
                               ELSE Settled(j, rows', byStatus', pendingIndex')
    PROVE  TidyInv'
<1> DEFINE lc2 == local'
           rw2 == rows'
           bs2 == byStatus'
           pi2 == pendingIndex'
           ob2 == obj'
<1>1. \A q \in Procs : lc2[q] = IF q = p THEN m ELSE local[q] BY DEF EarnedInv
<1>2. \A id \in ObjectIds : id # 0 BY AttemptsAssumption DEF ObjectIds
<1>3. ASSUME NEW id \in ObjectIds \ overlap PROVE Tidy(id, lc2, rw2, bs2, pi2, ob2)
  <2>1. Tidy(id, local, rows, byStatus, pendingIndex, obj) BY DEF TidyInv
  <2>2. OthersStayed(p, local, lc2) BY <1>1 DEF OthersStayed
  <2>3. CASE id = j
    <3>1. Unscheduled(id, rw2, pi2) BY <2>3
    <3>2. /\ lc2[p].id = id => Handling(lc2[p], rw2, bs2, pi2, ob2)
          /\ lc2[p].id # id => Settled(id, rw2, bs2, pi2)
      BY <1>1, <2>3
    <3> HIDE DEF lc2, rw2, bs2, pi2, ob2
    <3> QED BY <2>1, <2>2, <2>3, <3>1, <3>2, OnwardTidy
  <2>4. CASE id # j
    <3>1. lc2[p].id # id /\ local[p].id # id BY <1>1, <1>2, <2>4
    <3>2. Agree(id, rows, byStatus, pendingIndex, rw2, bs2, pi2) BY <2>4
    <3>3. SavedAlike(id, local, obj, ob2) BY <2>4 DEF EarnedInv, LocalOK, SavedAlike
    <3> HIDE DEF lc2, rw2, bs2, pi2, ob2
    <3> QED BY <2>1, <2>2, <3>1, <3>2, <3>3, ApartTidy
  <2> QED BY <2>3, <2>4
<1>4. ListsTidy(local', overlap') BY <1>1 DEF TidyInv, ListsTidy
<1> QED BY <1>3, <1>4 DEF TidyInv

\* Each write of a save or of an update leaves the entries as the next step
\* of its goroutine expects them.
LEMMA StoringTidy == ASSUME EarnedInv, TidyInv, NEW p \in Procs, Storing(p) PROVE TidyInv'
<1> USE DEF Saving, Updating, Delivering, Elsewhere
<1> DEFINE l == local[p]
           id == l.id
<1>0. LocalOK(l, obj, delivered, failures) /\ l.at \in Saving \cup Updating /\ UNCHANGED <<obj, overlap>>
  BY DEF EarnedInv, Storing, Marshal, SaveRow, SaveStatusIndex, SavePendingIndex, UpdateNotificationStatus, RewriteRow,
         DeleteOldStatus, PutNewStatus, DeletePending, At
<1>1. id \in ObjectIds /\ id # 0
  <2>1. id \in ObjectIds BY <1>0 DEF LocalOK, EarnedInv, ObjectsOK
  <2> QED BY <2>1, AttemptsAssumption DEF ObjectIds
<1>2. id \notin overlap => Unscheduled(id, rows, pendingIndex) /\ Handling(l, rows, byStatus, pendingIndex, obj)
  BY <1>1 DEF TidyInv, Tidy
<1>3. \A o \in DOMAIN obj : obj'[o] = obj[o] BY <1>0
<1>4. ASSUME NEW m, local' = [local EXCEPT ![p] = m], m.id \in {id, 0}, m.list \subseteq l.list,
             \A j \in ObjectIds \ {id} : Agree(j, rows, byStatus, pendingIndex, rows', byStatus', pendingIndex'),
             id \notin overlap => Unscheduled(id, rows', pendingIndex'),
             id \notin overlap => IF m.id = id THEN Handling(m, rows', byStatus', pendingIndex', obj)
                                  ELSE Settled(id, rows', byStatus', pendingIndex')
      PROVE  TidyInv'
  <2> DEFINE j == id
  <2>1. j \in ObjectIds /\ local[p].id = j BY <1>1
  <2> HIDE DEF j
  <2>2. m.id \in {j, 0} /\ \A k \in ObjectIds \ {j} : Agree(k, rows, byStatus, pendingIndex, rows', byStatus', pendingIndex') BY <1>4 DEF j
  <2>3. j \notin overlap => Unscheduled(j, rows', pendingIndex') BY <1>4 DEF j
  <2>4. j \notin overlap => IF m.id = j THEN Handling(m, rows', byStatus', pendingIndex', obj')
                            ELSE Settled(j, rows', byStatus', pendingIndex')
    BY <1>0, <1>4 DEF j
  <2> QED BY <1>0, <1>3, <1>4, <2>1, <2>2, <2>3, <2>4, HandlerMoves
<1>5. \A a, c : LET m == [l EXCEPT !.at = a, !.copy = c] IN
          /\ m.at = a /\ m.copy = c /\ m.o = l.o /\ m.id = id /\ m.list = l.list /\ m.to = l.to
  BY <1>0 DEF LocalOK
<1>6. \A a : LET m == [l EXCEPT !.at = a] IN
          /\ m.at = a /\ m.copy = l.copy /\ m.o = l.o /\ m.id = id /\ m.list = l.list /\ m.to = l.to
  BY <1>0 DEF LocalOK
<1>7. CASE Marshal(p)
  <2> DEFINE m == [l EXCEPT !.at = "row", !.copy = Row(obj[l.o])]
  <2>1. l.at = "marshal" /\ local' = [local EXCEPT ![p] = m] /\ UNCHANGED <<rows, byStatus, pendingIndex>>
    BY <1>7 DEF Marshal, At, Go, Here, index
  <2>2. m.at = "row" /\ m.copy = Row(obj[l.o]) /\ m.o = l.o /\ m.id = id /\ m.list = l.list BY <1>5
  <2>3. Row(obj[l.o]).status = obj[l.o].status /\ Row(obj[l.o]).next = obj[l.o].next BY DEF Row
  <2> HIDE DEF m
  <2>4. id \notin overlap => Handling(m, rows, byStatus, pendingIndex, obj) BY <1>2, <2>1, <2>2, <2>3 DEF Handling
  <2> QED BY <1>2, <1>4, <2>1, <2>2, <2>4, Same
<1>8. CASE SaveRow(p)
  <2> DEFINE m == [l EXCEPT !.at = "status"]
  <2>1. /\ l.at = "row" /\ local' = [local EXCEPT ![p] = m] /\ rows' = Set(rows, id, l.copy) /\ UNCHANGED <<byStatus, pendingIndex>>
    BY <1>8 DEF SaveRow, At, Go, Goto
  <2>2. m.at = "status" /\ m.o = l.o /\ m.id = id /\ m.list = l.list BY <1>6
  <2> HIDE DEF m
  <2>3. /\ DOMAIN rows' = DOMAIN rows \cup {id} /\ rows'[id] = l.copy
        /\ \A j \in DOMAIN rows : j # id => rows'[j] = rows[j]
    BY <2>1 DEF Set
  <2>4. \A j \in ObjectIds \ {id} : Agree(j, rows, byStatus, pendingIndex, rows', byStatus', pendingIndex')
    BY <2>1, <2>3 DEF Agree
  <2>5. id \notin overlap => Unscheduled(id, rows', pendingIndex') BY <1>2, <2>1, <2>3 DEF Unscheduled, Handling
  <2>6. id \notin overlap => Handling(m, rows', byStatus', pendingIndex', obj) BY <1>2, <2>1, <2>2, <2>3 DEF Handling
  <2> QED BY <1>4, <2>1, <2>2, <2>4, <2>5, <2>6
<1>9. CASE SaveStatusIndex(p)
  <2> DEFINE m == [l EXCEPT !.at = "pending"]
  <2>1. /\ l.at = "status" /\ local' = [local EXCEPT ![p] = m] /\ byStatus' = byStatus \cup {<<obj[l.o].status, id>>}
        /\ UNCHANGED <<rows, pendingIndex>>
    BY <1>9 DEF SaveStatusIndex, At, Go, Goto, Here
  <2>2. m.at = "pending" /\ m.o = l.o /\ m.id = id /\ m.list = l.list BY <1>6
  <2> HIDE DEF m
  <2>4. \A j \in ObjectIds \ {id} : Agree(j, rows, byStatus, pendingIndex, rows', byStatus', pendingIndex')
    BY <2>1 DEF Agree
  <2>5. id \notin overlap => Unscheduled(id, rows', pendingIndex') BY <1>2, <2>1
  <2>6. id \notin overlap => Handling(m, rows', byStatus', pendingIndex', obj) BY <1>2, <2>1, <2>2 DEF Handling
  <2> QED BY <1>4, <2>1, <2>2, <2>4, <2>5, <2>6
<1>10. CASE SavePendingIndex(p)
  <2> DEFINE m == Continue(p)
             e == <<obj[l.o].next, id>>
  <2>1. /\ l.at = "pending" /\ local' = [local EXCEPT ![p] = m]
        /\ (pendingIndex' = pendingIndex \cup {e} \/ pendingIndex' = pendingIndex)
        /\ UNCHANGED <<rows, byStatus>>
    BY <1>10 DEF SavePendingIndex, At, Go, Here
  <2>2. m.id = 0 /\ m.list \subseteq l.list BY DEF Continue, Idle
  <2>3. e[2] = id BY DEF e
  <2> HIDE DEF m, e
  <2>4. \A j \in ObjectIds \ {id} : Agree(j, rows, byStatus, pendingIndex, rows', byStatus', pendingIndex')
    BY <2>1, <2>3 DEF Agree
  <2>5. id \notin overlap => Unscheduled(id, rows', pendingIndex')
    <3>1. id \notin overlap => e = <<0, id>> BY <1>2, <2>1 DEF Handling, e
    <3> QED BY <1>2, <2>1, <3>1 DEF Unscheduled
  <2>6. id \notin overlap => Settled(id, rows', byStatus', pendingIndex') BY <1>2, <2>1 DEF Handling, Settled, Unsent
  <2> QED BY <1>1, <1>4, <2>1, <2>2, <2>4, <2>5, <2>6
<1>11. l.at \in Updating => After(p) = Idle \/ (After(p) = [l EXCEPT !.at = "deliver"])
  BY <1>0 DEF After, LocalOK
<1>12. Idle.id = 0 /\ Idle.list = {} BY DEF Idle
<1>13. ASSUME l.at \in Updating, local' = [local EXCEPT ![p] = After(p)],
              \A j \in ObjectIds \ {id} : Agree(j, rows, byStatus, pendingIndex, rows', byStatus', pendingIndex'),
              id \notin overlap => Unscheduled(id, rows', pendingIndex') /\ Settled(id, rows', byStatus', pendingIndex')
       PROVE  TidyInv'
  <2> DEFINE m == After(p)
  <2>1. /\ m.id \in {id, 0} /\ m.list \subseteq l.list /\ (m.id = id => m.at = "deliver")
    <3>1. CASE m = Idle BY <1>1, <1>12, <3>1
    <3>2. CASE m = [l EXCEPT !.at = "deliver"] BY <1>6, <3>2
    <3> QED BY <1>11, <1>13, <3>1, <3>2
  <2>2. local' = [local EXCEPT ![p] = m] BY <1>13
  <2> HIDE DEF m
  <2>3. id \notin overlap => IF m.id = id THEN Handling(m, rows', byStatus', pendingIndex', obj)
                             ELSE Settled(id, rows', byStatus', pendingIndex')
    BY <1>13, <2>1 DEF Handling
  <2> QED BY <1>4, <1>13, <2>1, <2>2, <2>3
<1>14. CASE UpdateNotificationStatus(p)
  <2>1. l.at = "update" /\ UNCHANGED <<rows, byStatus, pendingIndex>>
    BY <1>14 DEF UpdateNotificationStatus, At, index
  <2>2. CASE id \in DOMAIN rows
    <3> DEFINE m == [l EXCEPT !.at = "rewrite", !.copy = rows[id]]
    <3>1. local' = [local EXCEPT ![p] = m] BY <1>14, <2>2 DEF UpdateNotificationStatus, Go
    <3>2. m.at = "rewrite" /\ m.copy = rows[id] /\ m.o = l.o /\ m.id = id /\ m.list = l.list BY <1>5
    <3> HIDE DEF m
    <3>3. id \notin overlap => Handling(m, rows, byStatus, pendingIndex, obj)
      BY <1>2, <2>1, <2>2, <3>2 DEF Handling, Unscheduled
    <3> QED BY <1>2, <1>4, <2>1, <3>1, <3>2, <3>3, Same
  <2>3. CASE id \notin DOMAIN rows
    <3>1. local' = [local EXCEPT ![p] = After(p)] BY <1>14, <2>3 DEF UpdateNotificationStatus, Go
    <3>2. id \notin overlap => Settled(id, rows, byStatus, pendingIndex) BY <2>3 DEF Settled
    <3> QED BY <1>2, <1>13, <2>1, <3>1, <3>2, Same
  <2> QED BY <2>2, <2>3
<1>15. CASE RewriteRow(p)
  <2> DEFINE m == [l EXCEPT !.at = "unlist"]
             r == [l.copy EXCEPT !.status = l.to]
  <2>1. l.at = "rewrite" /\ local' = [local EXCEPT ![p] = m] /\ rows' = [rows EXCEPT ![id] = r] /\ UNCHANGED <<byStatus, pendingIndex>>
    BY <1>15 DEF RewriteRow, At, Go, Goto
  <2>2. m.at = "unlist" /\ m.copy = l.copy /\ m.o = l.o /\ m.id = id /\ m.list = l.list /\ m.to = l.to BY <1>6
  <2>3. r.status = l.to /\ r.next = l.copy.next BY <1>0, <2>1 DEF LocalOK, IsRow
  <2> HIDE DEF m, r
  <2>4. /\ DOMAIN rows' = DOMAIN rows /\ (id \in DOMAIN rows => rows'[id] = r) /\ \A j \in DOMAIN rows : j # id => rows'[j] = rows[j]
    BY <2>1 DEF EarnedInv, RowsOK
  <2>5. \A j \in ObjectIds \ {id} : Agree(j, rows, byStatus, pendingIndex, rows', byStatus', pendingIndex')
    BY <2>1, <2>4 DEF Agree
  <2>6. id \notin overlap => Unscheduled(id, rows', pendingIndex') BY <1>2, <2>1, <2>3, <2>4 DEF Unscheduled, Handling
  <2>7. id \notin overlap => Handling(m, rows', byStatus', pendingIndex', obj) BY <1>2, <2>1, <2>2, <2>3, <2>4 DEF Handling
  <2> QED BY <1>4, <2>1, <2>2, <2>5, <2>6, <2>7
<1>16. CASE DeleteOldStatus(p)
  <2> DEFINE m == [l EXCEPT !.at = "relist"]
  <2>1. l.at = "unlist" /\ local' = [local EXCEPT ![p] = m] /\ byStatus' = byStatus \ {<<l.copy.status, id>>} /\ UNCHANGED <<rows, pendingIndex>>
    BY <1>16 DEF DeleteOldStatus, At, Go, Goto
  <2>2. m.at = "relist" /\ m.copy = l.copy /\ m.o = l.o /\ m.id = id /\ m.list = l.list /\ m.to = l.to BY <1>6
  <2> HIDE DEF m
  <2>3. \A j \in ObjectIds \ {id} : Agree(j, rows, byStatus, pendingIndex, rows', byStatus', pendingIndex')
    BY <2>1 DEF Agree
  <2>4. id \notin overlap => Handling(m, rows', byStatus', pendingIndex', obj) BY <1>2, <2>1, <2>2 DEF Handling
  <2> QED BY <1>2, <1>4, <2>1, <2>2, <2>3, <2>4
<1>17. CASE PutNewStatus(p)
  <2> DEFINE m == [l EXCEPT !.at = "settle"]
  <2>1. l.at = "relist" /\ local' = [local EXCEPT ![p] = m] /\ byStatus' = byStatus \cup {<<l.to, id>>} /\ UNCHANGED <<rows, pendingIndex>>
    BY <1>17 DEF PutNewStatus, At, Go, Goto
  <2>2. m.at = "settle" /\ m.copy = l.copy /\ m.o = l.o /\ m.id = id /\ m.list = l.list /\ m.to = l.to BY <1>6
  <2> HIDE DEF m
  <2>3. \A j \in ObjectIds \ {id} : Agree(j, rows, byStatus, pendingIndex, rows', byStatus', pendingIndex')
    BY <2>1 DEF Agree
  <2>4. id \notin overlap => Handling(m, rows', byStatus', pendingIndex', obj) BY <1>2, <2>1, <2>2 DEF Handling
  <2> QED BY <1>2, <1>4, <2>1, <2>2, <2>3, <2>4
<1>18. CASE DeletePending(p)
  <2> DEFINE e == <<l.copy.next, id>>
  <2>1. /\ l.at = "settle" /\ local' = [local EXCEPT ![p] = After(p)] /\ UNCHANGED <<rows, byStatus>>
        /\ pendingIndex' = IF l.to \in Unsent THEN pendingIndex ELSE pendingIndex \ {e}
    BY <1>18 DEF DeletePending, At, Go
  <2>2. e[2] = id BY DEF e
  <2> HIDE DEF e
  <2>3. \A j \in ObjectIds \ {id} : Agree(j, rows, byStatus, pendingIndex, rows', byStatus', pendingIndex')
    BY <2>1, <2>2 DEF Agree
  <2>4. id \notin overlap => Unscheduled(id, rows', pendingIndex') BY <1>2, <2>1 DEF Unscheduled
  <2>5. id \notin overlap => Settled(id, rows', byStatus', pendingIndex')
    <3> SUFFICES ASSUME id \notin overlap PROVE Settled(id, rows', byStatus', pendingIndex') OBVIOUS
    <3>1. e = <<0, id>> /\ rows[id].status = l.to /\ <<l.to, id>> \in byStatus BY <1>2, <2>1 DEF Handling, e
    <3>2. l.to \notin Unsent => \A k \in pendingIndex' : k[2] # id BY <1>2, <2>1, <3>1 DEF Unscheduled
    <3> QED BY <2>1, <3>1, <3>2 DEF Settled
  <2> QED BY <1>13, <2>1, <2>3, <2>4, <2>5
<1> QED BY <1>7, <1>8, <1>9, <1>10, <1>14, <1>15, <1>16, <1>17, <1>18 DEF Storing

\* p begins to handle j; if somebody else does, j counts as overlapped.
LEMMA BeginMoves ==
    ASSUME EarnedInv, TidyInv, NEW p \in Procs, NEW m, local' = [local EXCEPT ![p] = m], NEW j \in ObjectIds, local[p].id = 0,
           m.id = j, m.list \subseteq local[p].list, Begin(p, j), UNCHANGED <<rows, byStatus, pendingIndex>>,
           \A o \in DOMAIN obj : obj[o].id # j => obj'[o] = obj[o],
           j \notin overlap /\ Settled(j, rows, byStatus, pendingIndex) => Handling(m, rows, byStatus, pendingIndex, obj')
    PROVE  TidyInv'
<1> DEFINE lc2 == local'
           ob2 == obj'
<1>1. \A q \in Procs : lc2[q] = IF q = p THEN m ELSE local[q] BY DEF EarnedInv
<1>2. \A id \in ObjectIds : id # 0 BY AttemptsAssumption DEF ObjectIds
<1>3. overlap \subseteq overlap' /\ (j \notin overlap' => \A q \in Procs \ {p} : local[q].id # j) BY DEF Begin
<1>4. ASSUME NEW id \in ObjectIds \ overlap' PROVE Tidy(id, lc2, rows, byStatus, pendingIndex, ob2)
  <2>1. Tidy(id, local, rows, byStatus, pendingIndex, obj) /\ id \notin overlap BY <1>3 DEF TidyInv
  <2>2. OthersStayed(p, local, lc2) BY <1>1 DEF OthersStayed
  <2>3. CASE id = j
    <3>1. \A q \in Procs : local[q].id # id BY <1>2, <1>3, <2>3
    <3>2. lc2[p].id = id /\ (Settled(id, rows, byStatus, pendingIndex) => Handling(lc2[p], rows, byStatus, pendingIndex, ob2))
      BY <1>1, <2>1, <2>3
    <3> HIDE DEF lc2, ob2
    <3> QED BY <2>1, <2>2, <3>1, <3>2, BeginTidy
  <2>4. CASE id # j
    <3>1. lc2[p].id # id /\ local[p].id # id BY <1>1, <1>2, <2>4
    <3>2. Agree(id, rows, byStatus, pendingIndex, rows, byStatus, pendingIndex) BY Same
    <3>3. SavedAlike(id, local, obj, ob2) BY <2>4 DEF EarnedInv, LocalOK, SavedAlike
    <3> HIDE DEF lc2, ob2
    <3> QED BY <2>1, <2>2, <3>1, <3>2, <3>3, ApartTidy
  <2> QED BY <2>3, <2>4
<1>5. ListsTidy(local', overlap') BY <1>1, <1>3 DEF TidyInv, ListsTidy
<1> QED BY <1>4, <1>5 DEF TidyInv

LEMMA EnqueueTidy == ASSUME EarnedInv, TidyInv, NEW p \in Procs, enqueueNotification(p) PROVE TidyInv'
<1> USE DEF Saving, Updating, Delivering, Elsewhere
<1> DEFINE n == Len(obj)
<1>0. /\ LocalOK(local[p], obj, delivered, failures) /\ ObjectsOK
      /\ n \in Nat /\ DOMAIN obj = 1..n /\ local[p].at = "enqueue" /\ local[p].id = 0 /\ n < MaxObjects
      /\ UNCHANGED <<rows, byStatus, pendingIndex>>
  BY DEF EarnedInv, ObjectsOK, IsSeq, enqueueNotification, At, index, LocalOK
<1>1. PICK x \in local[p].list :
          LET id == IF x.id = 0 THEN Len(obj) + 1 ELSE x.id
              rest == [Idle EXCEPT !.list = local[p].list \ {x}]
          IN  IF Len(deliveryQueue) < BufferSize
              THEN /\ obj' = Append(obj, [x EXCEPT !.id = id])
                   /\ deliveryQueue' = Append(deliveryQueue, Len(obj) + 1)
                   /\ Go(p, [rest EXCEPT !.at = "marshal", !.o = Len(obj) + 1, !.id = id])
                   /\ Begin(p, id)
              ELSE /\ Go(p, IF rest.list = {} THEN Idle ELSE [rest EXCEPT !.at = "enqueue"])
                   /\ UNCHANGED <<obj, deliveryQueue, overlap>>
  BY DEF enqueueNotification
<1> DEFINE id == IF x.id = 0 THEN n + 1 ELSE x.id
           list == local[p].list \ {x}
           rest == [Idle EXCEPT !.list = list]
<1>2. \A y \in local[p].list : y.id = 0 \/ y.id \notin overlap => y.status = "pending" /\ y.next = 0 BY DEF TidyInv, ListsTidy
<1>3. ListedOK(x, delivered, failures) BY <1>0 DEF LocalOK
<1>4. rest.list = list /\ rest.id = 0 BY DEF Idle
<1>5. CASE ~(Len(deliveryQueue) < BufferSize)
  <2> DEFINE m == IF list = {} THEN Idle ELSE [rest EXCEPT !.at = "enqueue"]
  <2>1. local' = [local EXCEPT ![p] = m] /\ UNCHANGED <<obj, overlap>> BY <1>1, <1>4, <1>5 DEF Go
  <2>2. m.id = 0 /\ m.list \subseteq local[p].list BY DEF Idle
  <2> HIDE DEF m
  <2> QED BY <1>0, <1>2, <2>1, <2>2, AsideTidy
<1>6. CASE Len(deliveryQueue) < BufferSize
  <2> DEFINE m == [rest EXCEPT !.at = "marshal", !.o = n + 1, !.id = id]
             v == [x EXCEPT !.id = id]
  <2>1. obj' = Append(obj, v) /\ local' = [local EXCEPT ![p] = m] /\ Begin(p, id)
    BY <1>1, <1>6 DEF Go
  <2>2. id \in ObjectIds BY <1>0, <1>3, AttemptsAssumption DEF ObjectIds, ListedOK
  <2>3. m.at = "marshal" /\ m.o = n + 1 /\ m.id = id /\ m.list \subseteq local[p].list BY DEF Idle
  <2>4. v.status = x.status /\ v.next = x.next BY <1>3 DEF ListedOK, IsObject
  <2>5. id \notin overlap => x.status = "pending" /\ x.next = 0 BY <1>2
  <2> HIDE DEF v, m, id, list, rest
  <2>6. obj'[n + 1] = v /\ \A o \in DOMAIN obj : obj'[o] = obj[o]
    <3>1. IsSeq(obj) BY <1>0 DEF ObjectsOK
    <3>2. /\ \A i \in 1..n : Append(obj, v)[i] = obj[i]
          /\ Append(obj, v)[n + 1] = v
      BY <3>1, AppendIsSeq
    <3> QED BY <1>0, <2>1, <3>2
  <2>7. id \notin overlap /\ Settled(id, rows, byStatus, pendingIndex) => Handling(m, rows, byStatus, pendingIndex, obj')
    BY <2>3, <2>4, <2>5, <2>6 DEF Handling
  <2> QED BY <1>0, <2>1, <2>2, <2>3, <2>6, <2>7, BeginMoves
<1> QED BY <1>5, <1>6

LEMMA CallsTidy ==
    ASSUME EarnedInv, TidyInv,
           \/ handleEvent \/ processRetries
           \/ \E c \in ApiUsers :
                 \/ SaveSetting(c) \/ RememberSetting(c)
                 \/ \E id \in ObjectIds : RetryNotification(c, id) \/ CancelNotification(c, id)
                 \/ \E s \in Settings : CreateSetting(c, s) \/ UpdateSetting(c, s) \/ DeleteSetting(c, s)
    PROVE  TidyInv'
<1> USE DEF Saving, Updating, Delivering, Elsewhere
<1>0. \A p \in Procs : local[p].at \in Elsewhere => local[p].id = 0 BY DEF EarnedInv, LocalOK
<1>a. /\ Idle.id = 0 /\ Idle.list = {}
      /\ \A list : LET m == [Idle EXCEPT !.at = "enqueue", !.list = list] IN m.id = 0 /\ m.list = list
      /\ \A a, c, to : LET m == [Idle EXCEPT !.at = a, !.copy = c, !.to = to] IN m.id = 0 /\ m.list = {}
  BY DEF Idle
<1>1. ASSUME NEW p \in Procs, NEW list, local[p].id = 0,
             \/ local' = [local EXCEPT ![p] = [Idle EXCEPT !.at = "enqueue", !.list = list]]
             \/ local' = [local EXCEPT ![p] = Idle],
             \A x \in list : x.id = 0 \/ x.id \notin overlap => x.status = "pending" /\ x.next = 0,
             UNCHANGED <<rows, byStatus, pendingIndex, obj, overlap>>
      PROVE  TidyInv'
  <2>1. CASE local' = [local EXCEPT ![p] = Idle]
    BY <1>1, <1>a, <2>1, AsideTidy
  <2>2. CASE local' = [local EXCEPT ![p] = [Idle EXCEPT !.at = "enqueue", !.list = list]]
    <3> DEFINE m == [Idle EXCEPT !.at = "enqueue", !.list = list]
    <3>1. m.id = 0 /\ m.list = list /\ local' = [local EXCEPT ![p] = m] BY <1>a, <2>2
    <3> HIDE DEF m
    <3> QED BY <1>1, <3>1, AsideTidy
  <2> QED BY <1>1, <2>1, <2>2
<1>2. CASE handleEvent
  <2> DEFINE Wanted(e) == {Fresh(s) : s \in {x \in Settings : settings[x] = "enabled" /\ shouldNotify(x, e)}}
  <2>1. PICK e \in BusEvents : local' = [local EXCEPT !["events"] = IF Wanted(e) = {} THEN Idle ELSE [Idle EXCEPT !.at = "enqueue", !.list = Wanted(e)]]
    BY <1>2 DEF handleEvent, Go
  <2>2. UNCHANGED <<rows, byStatus, pendingIndex, obj, overlap>> BY <1>2 DEF handleEvent, index
  <2>3. \A x \in Wanted(e) : x.status = "pending" /\ x.next = 0 BY DEF Fresh
  <2>4. "events" \in Procs /\ local["events"].id = 0 BY <1>0, <1>2 DEF Procs, handleEvent, At
  <2> DEFINE list == Wanted(e)
  <2>5. \/ local' = [local EXCEPT !["events"] = [Idle EXCEPT !.at = "enqueue", !.list = list]]
        \/ local' = [local EXCEPT !["events"] = Idle]
    BY <2>1
  <2> HIDE DEF Wanted, list
  <2> QED BY <1>1, <2>2, <2>3, <2>4, <2>5 DEF list
<1>3. CASE processRetries
  <2>1. PICK due \in SUBSET {k \in pendingIndex : k[2] \in DOMAIN rows /\ rows[k[2]].next # 0} :
           local' = [local EXCEPT !["retry"] = [Idle EXCEPT !.at = "enqueue", !.list = {Loaded(k[2]) : k \in due}]]
    BY <1>3 DEF processRetries, Go
  <2>2. UNCHANGED <<rows, byStatus, pendingIndex, obj, overlap>> BY <1>3 DEF processRetries, index
  <2> DEFINE list == {Loaded(k[2]) : k \in due}
  <2>3. \A x \in list : x.id # 0 /\ x.id \in overlap
    <3> SUFFICES ASSUME NEW k \in due PROVE Loaded(k[2]).id # 0 /\ Loaded(k[2]).id \in overlap OBVIOUS
    <3> DEFINE j == k[2]
    <3>1. j \in DOMAIN rows /\ rows[j].next # 0 BY <2>1
    <3>2. j \in ObjectIds BY <3>1 DEF EarnedInv, RowsOK
    <3>3. Loaded(j).id = j BY DEF Loaded
    <3> HIDE DEF j
    <3>4. j # 0 BY <3>2, AttemptsAssumption DEF ObjectIds
    <3>5. j \in overlap BY <3>1, <3>2 DEF TidyInv, Tidy, Unscheduled
    <3> QED BY <3>3, <3>4, <3>5 DEF j
  <2> HIDE DEF list
  <2>4. "retry" \in Procs /\ local["retry"].id = 0 BY <1>0, <1>3 DEF Procs, processRetries, At
  <2>5. local' = [local EXCEPT !["retry"] = [Idle EXCEPT !.at = "enqueue", !.list = list]] BY <2>1 DEF list
  <2> QED BY <1>1, <2>2, <2>3, <2>4, <2>5
<1>4. ASSUME NEW c \in ApiUsers, NEW id \in ObjectIds, RetryNotification(c, id) PROVE TidyInv'
  <2> DEFINE x == [Loaded(id) EXCEPT !.retries = 0, !.status = "pending", !.next = 0]
             list == {x}
  <2>1. local' = [local EXCEPT ![c] = [Idle EXCEPT !.at = "enqueue", !.list = list]] /\ UNCHANGED <<rows, byStatus, pendingIndex, obj, overlap>>
    BY <1>4 DEF RetryNotification, Go, index
  <2>2. x.status = "pending" /\ x.next = 0 BY DEF Loaded
  <2>3. c \in Procs /\ local[c].id = 0 BY <1>0, <1>4 DEF Procs, RetryNotification, Called, At
  <2> HIDE DEF x
  <2>4. \A y \in list : y.status = "pending" /\ y.next = 0 BY <2>2
  <2> HIDE DEF list
  <2> QED BY <1>1, <2>1, <2>3, <2>4
<1>5. ASSUME NEW c \in ApiUsers, NEW id \in ObjectIds, CancelNotification(c, id) PROVE TidyInv'
  <2> DEFINE m == [Idle EXCEPT !.at = "update", !.o = 0, !.id = id, !.to = "cancelled", !.back = "idle"]
  <2>1. local' = [local EXCEPT ![c] = m] /\ UNCHANGED <<rows, byStatus, pendingIndex, obj>> /\ Begin(c, id)
    BY <1>5 DEF CancelNotification, Update, Go, index
  <2>2. c \in Procs /\ local[c].id = 0 BY <1>0, <1>5 DEF Procs, CancelNotification, Called, At
  <2>3. m.at = "update" /\ m.id = id /\ m.list = {} BY DEF Idle
  <2> HIDE DEF m
  <2>4. Settled(id, rows, byStatus, pendingIndex) => Handling(m, rows, byStatus, pendingIndex, obj') BY <2>3 DEF Handling
  <2> QED BY <2>1, <2>2, <2>3, <2>4, BeginMoves
<1>6. ASSUME NEW c \in ApiUsers, RememberSetting(c) PROVE TidyInv'
  <2>1. local' = [local EXCEPT ![c] = Idle] /\ UNCHANGED <<rows, byStatus, pendingIndex, obj, overlap>>
    BY <1>6 DEF RememberSetting, Go, index
  <2>2. c \in Procs /\ local[c].id = 0 BY <1>0, <1>6 DEF Procs, RememberSetting, At
  <2> QED BY <1>a, <2>1, <2>2, AsideTidy
<1>7. ASSUME NEW c \in ApiUsers, SaveSetting(c) PROVE TidyInv'
  <2> DEFINE l == local[c]
             m == [l EXCEPT !.at = "remember"]
  <2>1. local' = [local EXCEPT ![c] = m] /\ UNCHANGED <<rows, byStatus, pendingIndex, obj, overlap>>
    BY <1>7 DEF SaveSetting, Goto, Go, index
  <2>2. c \in Procs /\ l.id = 0 BY <1>0, <1>7 DEF Procs, SaveSetting, At
  <2>3. m.id = 0 /\ m.list = l.list BY <2>2 DEF EarnedInv, LocalOK
  <2>4. \A x \in l.list : x.id = 0 \/ x.id \notin overlap => x.status = "pending" /\ x.next = 0 BY <2>2 DEF TidyInv, ListsTidy
  <2> HIDE DEF m
  <2> QED BY <2>1, <2>2, <2>3, <2>4, AsideTidy
<1>8. ASSUME NEW c \in ApiUsers, NEW s \in Settings, CreateSetting(c, s) \/ UpdateSetting(c, s) \/ DeleteSetting(c, s) PROVE TidyInv'
  <2> DEFINE m(a, to) == [Idle EXCEPT !.at = a, !.copy = s, !.to = to]
  <2>1. UNCHANGED <<rows, byStatus, pendingIndex, obj, overlap>>
    BY <1>8 DEF CreateSetting, UpdateSetting, DeleteSetting, index
  <2>2. PICK a \in {"remember", "replace"}, to \in {"enabled", "disabled", "absent"} : local' = [local EXCEPT ![c] = m(a, to)]
    BY <1>8 DEF CreateSetting, UpdateSetting, DeleteSetting, Go
  <2>3. c \in Procs /\ local[c].id = 0 BY <1>0, <1>8 DEF Procs, CreateSetting, UpdateSetting, DeleteSetting, Called, At
  <2> DEFINE k == m(a, to)
  <2>4. k.id = 0 /\ k.list = {} /\ local' = [local EXCEPT ![c] = k] BY <1>a, <2>2
  <2> HIDE DEF k
  <2> QED BY <2>1, <2>3, <2>4, AsideTidy
<1> QED BY <1>2, <1>3, <1>4, <1>5, <1>6, <1>7, <1>8

LEMMA ProcessTidy == ASSUME EarnedInv, TidyInv, NEW w \in Workers, processNotification(w) PROVE TidyInv'
<1> USE DEF Saving, Updating, Delivering, Elsewhere
<1> DEFINE o == Head(deliveryQueue)
           j == obj[o].id
           m == [Idle EXCEPT !.at = "update", !.o = o, !.id = j, !.to = "retrying", !.back = "deliver"]
<1>0. /\ w \in Procs /\ local[w].at = "idle" /\ deliveryQueue # <<>> /\ UNCHANGED <<rows, byStatus, pendingIndex>>
  BY DEF Procs, processNotification, At, index
<1>1. o \in DOMAIN obj
  <2>1. \E i \in DOMAIN deliveryQueue : o = deliveryQueue[i] BY <1>0, QueueTail
  <2> QED BY <2>1 DEF EarnedInv, QueueOK
<1>2. CASE UNCHANGED <<obj, local, overlap>> BY <1>0, <1>2 DEF TidyInv
<1>3. CASE obj' = [obj EXCEPT ![o].status = "retrying"] /\ Update(w, o, j, "retrying", "deliver") /\ Begin(w, j)
  <2>1. local' = [local EXCEPT ![w] = m] BY <1>3 DEF Update, Go
  <2>2. m.at = "update" /\ m.id = j /\ m.list = {} BY DEF Idle
  <2>3. j \in ObjectIds /\ local[w].id = 0 BY <1>0, <1>1 DEF EarnedInv, ObjectsOK, LocalOK
  <2>4. \A k \in DOMAIN obj : obj[k].id # j => obj'[k] = obj[k] BY <1>1, <1>3
  <2> HIDE DEF m
  <2>5. Settled(j, rows, byStatus, pendingIndex) => Handling(m, rows, byStatus, pendingIndex, obj') BY <2>2 DEF Handling
  <2>6. Begin(w, j) BY <1>3
  <2> HIDE DEF j, o
  <2> QED BY <1>0, <2>1, <2>2, <2>3, <2>4, <2>5, <2>6, BeginMoves
<1> QED BY <1>2, <1>3 DEF processNotification

LEMMA OutcomeTidy ==
    ASSUME EarnedInv, TidyInv, NEW w \in Workers, DeliverNotification(w) \/ handleDeliverySuccess(w) \/ handleDeliveryFailure(w)
    PROVE  TidyInv'
<1> USE DEF Saving, Updating, Delivering, Elsewhere
<1> DEFINE l == local[w]
           o == l.o
           j == l.id
<1>0. w \in Procs /\ l.at \in Delivering /\ UNCHANGED <<rows, byStatus, pendingIndex, overlap>>
  BY DEF Procs, DeliverNotification, handleDeliverySuccess, handleDeliveryFailure, At, index
<1>1. LocalOK(l, obj, delivered, failures) /\ o \in DOMAIN obj /\ obj[o].id = j /\ j \in ObjectIds
  BY <1>0 DEF EarnedInv, LocalOK, ObjectsOK
<1>2. j \notin overlap => Unscheduled(j, rows, pendingIndex) /\ Settled(j, rows, byStatus, pendingIndex)
  BY <1>0, <1>1 DEF TidyInv, Tidy, Handling
<1>3. ASSUME NEW m, local' = [local EXCEPT ![w] = m], m.id = j, m.list \subseteq l.list, m.at \in {"update", "success", "failure"},
             \A k \in DOMAIN obj : obj[k].id # j => obj'[k] = obj[k]
      PROVE  TidyInv'
  <2>1. j \notin overlap => Handling(m, rows', byStatus', pendingIndex', obj') BY <1>0, <1>2, <1>3 DEF Handling
  <2>2. \A id \in ObjectIds \ {j} : Agree(id, rows, byStatus, pendingIndex, rows', byStatus', pendingIndex') BY <1>0, Same
  <2>3. j \notin overlap => Unscheduled(j, rows', pendingIndex') BY <1>0, <1>2
  <2>4. j \in ObjectIds /\ local[w].id = j /\ m.id \in {j, 0} /\ m.list \subseteq local[w].list /\ m.id = j BY <1>1, <1>3
  <2>5. \A k \in DOMAIN obj : obj[k].id # j => obj'[k] = obj[k] BY <1>3
  <2> HIDE DEF j, l
  <2> QED BY <1>0, <1>3, <2>1, <2>2, <2>3, <2>4, <2>5, HandlerMoves
<1>4. CASE DeliverNotification(w)
  <2>1. obj' = obj BY <1>4 DEF DeliverNotification
  <2>2. PICK a \in {"success", "failure"} : local' = [local EXCEPT ![w] = [l EXCEPT !.at = a]]
    BY <1>4 DEF DeliverNotification, Goto, Go
  <2> DEFINE m == [l EXCEPT !.at = a]
  <2>3. m.id = j /\ m.list = l.list /\ m.at = a /\ local' = [local EXCEPT ![w] = m] BY <1>1, <2>2 DEF LocalOK
  <2> HIDE DEF m
  <2> QED BY <1>3, <2>1, <2>3
<1>5. ASSUME NEW to, Update(w, o, j, to, "idle"), \A k \in DOMAIN obj : k # o => obj'[k] = obj[k] PROVE TidyInv'
  <2> DEFINE m == [Idle EXCEPT !.at = "update", !.o = o, !.id = j, !.to = to, !.back = "idle"]
  <2>1. local' = [local EXCEPT ![w] = m] BY <1>5 DEF Update, Go
  <2>2. m.id = j /\ m.list = {} /\ m.at = "update" BY DEF Idle
  <2> HIDE DEF m
  <2>3. \A k \in DOMAIN obj : obj[k].id # j => obj'[k] = obj[k] BY <1>1, <1>5
  <2> QED BY <1>3, <2>1, <2>2, <2>3
<1>6. CASE handleDeliverySuccess(w)
  BY <1>5, <1>6 DEF handleDeliverySuccess, Here
<1>7. CASE handleDeliveryFailure(w)
  <2>1. obj = [k \in DOMAIN obj |-> obj[k]] BY DEF EarnedInv, ObjectsOK, IsSeq
  <2>2. \A k \in DOMAIN obj : k # o => obj'[k] = obj[k] BY <1>7, <2>1 DEF handleDeliveryFailure, Here
  <2>3. \E to : Update(w, o, j, to, "idle") BY <1>7 DEF handleDeliveryFailure, Here
  <2> QED BY <1>5, <2>2, <2>3
<1> QED BY <1>4, <1>6, <1>7

LEMMA RestartTidy == ASSUME EarnedInv, TidyInv, Restart PROVE TidyInv'
<1>1. /\ local' = [p \in Procs |-> Idle] /\ UNCHANGED <<obj, rows, byStatus, pendingIndex>>
      /\ overlap' = overlap \cup {local[p].id : p \in Procs}
  BY DEF Restart, index
<1>2. \A p \in Procs : local'[p].id = 0 /\ local'[p].list = {} BY <1>1 DEF Idle
<1>3. \A id \in ObjectIds : id # 0 BY AttemptsAssumption DEF ObjectIds
<1>4. ASSUME NEW id \in ObjectIds \ overlap' PROVE Tidy(id, local', rows', byStatus', pendingIndex', obj')
  <2>1. id \notin overlap /\ \A p \in Procs : local[p].id # id BY <1>1
  <2>2. Unscheduled(id, rows, pendingIndex) /\ Settled(id, rows, byStatus, pendingIndex) BY <2>1 DEF TidyInv, Tidy
  <2> QED BY <1>1, <1>2, <1>3, <2>2 DEF Tidy
<1>5. ListsTidy(local', overlap') BY <1>2 DEF ListsTidy
<1> QED BY <1>4, <1>5 DEF TidyInv

LEMMA TidyStep == EarnedInv /\ TidyInv /\ [NotificationsNext]_notificationVars => TidyInv'
<1> SUFFICES ASSUME EarnedInv, TidyInv, [NotificationsNext]_notificationVars PROVE TidyInv' OBVIOUS
<1>1. CASE UNCHANGED <<obj, rows, byStatus, pendingIndex, local, overlap>> BY <1>1 DEF TidyInv
<1>2. (UNCHANGED notificationVars \/ StopService) => UNCHANGED <<obj, rows, byStatus, pendingIndex, local, overlap>>
  BY DEF notificationVars, StopService, index
<1> QED
  BY <1>1, <1>2, RestartTidy, CallsTidy, EnqueueTidy, StoringTidy, ProcessTidy, OutcomeTidy DEF NotificationsNext, Working

\* Listing by status finds every stored notification that no two goroutines
\* handled at once and no restart cut short, and the pending index names it
\* only while it is pending or retrying (notification storage: the row, the
\* status entry and the pending entry are separate writes).
THEOREM NotificationsAreFound == NotificationsSpec => []FoundByStatus
<1>1. NotificationsInit => EarnedInv /\ TidyInv BY InitEarned, InitTidy
<1>2. EarnedInv /\ TidyInv /\ [NotificationsNext]_notificationVars => EarnedInv' /\ TidyInv' BY EarnedStep, TidyStep
<1>3. EarnedInv /\ TidyInv => FoundByStatus BY TidyIsFound
<1> QED BY <1>1, <1>2, <1>3, PTL DEF NotificationsSpec

\* The two together: the record of a notification says what its deliveries
\* earned and is found where its status says.
THEOREM NotificationsStayOnRecord == NotificationsSpec => []NotificationsOnRecord
<1>1. StatusIsEarned /\ FoundByStatus => NotificationsOnRecord BY DEF NotificationsOnRecord
<1> QED BY <1>1, StatusIsAlwaysEarned, NotificationsAreFound, PTL

=============================================================================
