---------------------------- MODULE StoreProofs ----------------------------
(***************************************************************************)
(* What the store holds about blocks, addresses and tokens, for every      *)
(* chain, every batch size and any number of failed batches and restarts.  *)
(*                                                                         *)
(* Counter and index.  The claim is about recorded blocks; what carries it *)
(* from one recorded block to the next is the block in hand: which of its  *)
(* transactions were counted and listed so far.  A failed batch throws     *)
(* that away, never what was counted.  The index needs in addition that an *)
(* address's next position is beyond every position in use, which a        *)
(* restart forgets.                                                        *)
(*                                                                         *)
(* Balances.  Within a block a tracked balance is the chain's before the   *)
(* transaction in hand, less the debit that precedes its credit; an        *)
(* address without a row was not touched by the block so far, so the       *)
(* balance before the block is the one to start from.                      *)
(*                                                                         *)
(* Tokens.  A row is found, or a writer that took a label away is yet to   *)
(* commit; every commit of the holders moves rows, lists and count as one. *)
(***************************************************************************)
EXTENDS Ledger, Tokens, FiniteSetTheorems, SequenceTheorems, WellFoundedInduction, NaturalsInduction,
        TLAPS

\* The transactions of the blocks up to b, and the first m of block b.
UpTo(b) == UNION {Ids(x) : x \in 1..b}
FirstOf(b, m) == {<<b, x>> : x \in 1..m}

\* What is counted when the block in hand is taken from its start.
Counted == UpTo(h - 1) \cup FirstOf(h, IF pc \in {"tx", "count"} THEN n - 1 ELSE Len(Blocks[h]))

\* The transactions of the block in hand that are listed under their addresses.
Passed ==
    FirstOf(h, IF pc \in {"tx", "count"} THEN 0
               ELSE IF pc = "index" THEN n - 1 ELSE Len(Blocks[h]))

\* IndexTargets when the fee payers of the transactions in `known' are stored.
TargetsGiven(id, known) ==
    LET t == TxOf(id)
    IN  <<t.from>>
          \o (IF t.to # t.from THEN <<t.to>> ELSE <<>>)
          \o (IF id \in known /\ t.payer \notin {t.from, t.to} THEN <<t.payer>> ELSE <<>>)

Lists == UNION {[S -> TxIds] : S \in SUBSET Nat}

\* The types the argument needs, and where the block in hand stands: at most
\* one block beyond the recorded ones, and recorded entirely only at the end.
Types ==
    /\ pc \in {"tx", "count", "index", "initFrom", "debit", "initTo", "credit", "fee", "latest",
               "done"}
    /\ h \in Heights /\ n \in 1..Len(Blocks[h]) /\ first \in 1..h /\ latest \in 0..Len(Blocks)
    /\ txCount \in Nat /\ countKey = txCount /\ restarts \in Nat
    /\ addrSeq \in [Addrs -> Nat] /\ txIndex \in [Addrs -> Lists]

Position ==
    /\ h <= latest + 1
    /\ latest = Len(Blocks) => pc = "done"
    /\ pc \in {"fee", "latest"} => n = 1
    /\ target \in Nat \ {0}
    /\ IF pc = "index" THEN target \in 1..Len(TargetsGiven(<<h, n>>, feeMeta)) ELSE target = 1

\* The counter covers the recorded blocks and the block in hand.
CounterCovers ==
    Cardinality(UpTo(latest)) <= txCount /\ Cardinality(Counted) <= txCount

\* Listed under the sender and under the receiver.
Listed(id) == \A a \in {TxOf(id).from, TxOf(id).to} : id \in Values(txIndex[a])

\* While the process lives.
IndexCovers ==
    restarts = 0 =>
        /\ \A a \in Addrs : \A p \in DOMAIN txIndex[a] : p < addrSeq[a]
        /\ \A id \in UpTo(latest) \cup Passed : Listed(id)
        /\ pc = "index" =>
              \A k \in 1..target - 1 :
                  <<h, n>> \in Values(txIndex[TargetsGiven(<<h, n>>, feeMeta)[k]])

\* The inductive invariant.
LInv == Types /\ Position /\ CounterCovers /\ IndexCovers

-----------------------------------------------------------------------------
(* The chain and its transactions.                                         *)

\* Blocks have transactions.
LEMMA ChainFacts ==
  /\ Len(Blocks) \in Nat \ {0} /\ Heights = 1..Len(Blocks)
  /\ \A b \in Heights : /\ Len(Blocks[b]) \in Nat \ {0}
                         /\ Ids(b) = FirstOf(b, Len(Blocks[b]))
                         /\ \A m \in 1..Len(Blocks[b]) : Blocks[b][m] \in Tx
<1>1. Blocks \in Seq(Seq(Tx)) /\ Blocks # <<>> /\ \A b \in Heights : Len(Blocks[b]) > 0
  BY LedgerAssumption
<1>2. Len(Blocks) \in Nat \ {0}
  BY <1>1, EmptySeq, LenProperties
<1>3. \A b \in Heights : Blocks[b] \in Seq(Tx)
  BY <1>1 DEF Heights
<1>4. \A b \in Heights : Len(Blocks[b]) \in Nat \ {0}
  <2>1. \A b \in Heights : Len(Blocks[b]) > 0 /\ Len(Blocks[b]) \in Nat
    <3>1. \A b \in Heights : Len(Blocks[b]) \in Nat
      BY <1>3, LenProperties
    <3> QED
      BY <1>1, <3>1
  <2>2. \A x \in Nat : x > 0 => x \in Nat \ {0}
    OBVIOUS
  <2> QED
    BY <2>1, <2>2
<1>5. \A b \in Heights : \A m \in 1..Len(Blocks[b]) : Blocks[b][m] \in Tx
  BY <1>3
<1>6. \A b \in Heights : Ids(b) = FirstOf(b, Len(Blocks[b]))
  BY DEF Ids, FirstOf
<1> QED
  BY <1>2, <1>4, <1>5, <1>6 DEF Heights

\* One more block, one more transaction.
LEMMA Growth ==
  /\ \A b \in Heights : UpTo(b) = UpTo(b - 1) \cup FirstOf(b, Len(Blocks[b]))
  /\ \A b \in Heights, m \in Nat \ {0} :
        /\ FirstOf(b, m) = FirstOf(b, m - 1) \cup {<<b, m>>}
        /\ <<b, m>> \notin UpTo(b - 1) \cup FirstOf(b, m - 1)
  /\ \A b, c \in Int : b <= c => UpTo(b) \subseteq UpTo(c)
  /\ \A b : FirstOf(b, 0) = {}
  /\ \A b : \A m, o \in Int : m <= o => FirstOf(b, m) \subseteq FirstOf(b, o)
<1>1. ASSUME NEW b \in Heights PROVE UpTo(b) = UpTo(b - 1) \cup FirstOf(b, Len(Blocks[b]))
  <2>1. b \in Int /\ b >= 1 /\ Ids(b) = FirstOf(b, Len(Blocks[b]))
    BY ChainFacts
  <2>2. \A x : x \in 1..b <=> x \in 1..b - 1 \/ x = b
    BY <2>1
  <2> QED
    BY <2>1, <2>2 DEF UpTo
<1>2. ASSUME NEW b \in Heights, NEW m \in Nat \ {0}
      PROVE  FirstOf(b, m) = FirstOf(b, m - 1) \cup {<<b, m>>}
  <2>1. \A x : x \in 1..m <=> x \in 1..m - 1 \/ x = m
    OBVIOUS
  <2> QED
    BY <2>1 DEF FirstOf
<1>3. ASSUME NEW b \in Heights, NEW m \in Nat \ {0}
      PROVE  <<b, m>> \notin UpTo(b - 1) \cup FirstOf(b, m - 1)
  <2>1. b \in Int /\ b \notin 1..b - 1 /\ m \notin 1..m - 1
    BY ChainFacts
  <2> QED
    BY <2>1 DEF UpTo, Ids, FirstOf
<1>4. \A b, c \in Int : b <= c => UpTo(b) \subseteq UpTo(c)
  BY DEF UpTo
<1>5. \A b : FirstOf(b, 0) = {}
  BY DEF FirstOf
<1>6. \A b : \A m, o \in Int : m <= o => FirstOf(b, m) \subseteq FirstOf(b, o)
  BY DEF FirstOf
<1> QED
  BY <1>1, <1>2, <1>3, <1>4, <1>5, <1>6

\* There are finitely many of them.
LEMMA Finitely ==
  /\ \A b, m \in Int : IsFiniteSet(FirstOf(b, m))
  /\ \A b \in Int : b <= Len(Blocks) => IsFiniteSet(UpTo(b))
<1>1. ASSUME NEW b \in Int, NEW m \in Int PROVE IsFiniteSet(FirstOf(b, m))
  <2> DEFINE f == [x \in 1..m |-> <<b, x>>]
  <2>1. f \in Surjection(1..m, FirstOf(b, m))
    BY DEF Surjection, FirstOf
  <2>2. IsFiniteSet(1..m)
    BY FS_Interval
  <2> QED
    BY <2>1, <2>2, FS_Surjection
<1>2. ASSUME NEW b \in Int, b <= Len(Blocks) PROVE IsFiniteSet(UpTo(b))
  <2> DEFINE f == [x \in 1..b |-> Ids(x)]
             T == {Ids(x) : x \in 1..b}
  <2>1. f \in Surjection(1..b, T)
    BY DEF Surjection
  <2>2. IsFiniteSet(1..b)
    BY FS_Interval
  <2>3. IsFiniteSet(T)
    BY <2>1, <2>2, FS_Surjection
  <2>4. ASSUME NEW x \in 1..b PROVE IsFiniteSet(Ids(x))
    <3>1. x \in Heights /\ x \in Int
      BY <1>2, ChainFacts
    <3> QED
      BY <1>1, <3>1, ChainFacts
  <2>5. \A t \in T : IsFiniteSet(t)
    BY <2>4
  <2> QED
    BY <2>3, <2>5, FS_UNION DEF UpTo
<1> QED
  BY <1>1, <1>2

\* What a set covers, a smaller one covers.
LEMMA Fewer ==
  ASSUME NEW S, NEW T, IsFiniteSet(S), T \subseteq S, NEW k \in Nat, Cardinality(S) <= k
  PROVE  Cardinality(T) <= k
<1>1. IsFiniteSet(T) /\ Cardinality(T) <= Cardinality(S)
  BY FS_Subset
<1>2. Cardinality(S) \in Nat /\ Cardinality(T) \in Nat
  BY <1>1, FS_CardinalityType
<1> QED
  BY <1>1, <1>2

\* One more is covered by a counter that is one higher.
LEMMA OneMore ==
  ASSUME NEW S, IsFiniteSet(S), NEW x, NEW k \in Nat, Cardinality(S) <= k
  PROVE  Cardinality(S \cup {x}) <= k + 1
<1>1. Cardinality(S \cup {x}) = IF x \in S THEN Cardinality(S) ELSE Cardinality(S) + 1
  BY FS_AddElement
<1>2. Cardinality(S) \in Nat
  BY FS_CardinalityType
<1> QED
  BY <1>1, <1>2

\* A transaction is indexed under its sender, its receiver and perhaps its payer.
LEMMA Targets ==
  ASSUME NEW b \in Heights, NEW m \in 1..Len(Blocks[b]), NEW known
  PROVE  LET id == <<b, m>>
             s == TargetsGiven(id, known)
         IN /\ Len(s) \in Nat \ {0} /\ \A k \in 1..Len(s) : s[k] \in Addrs
            /\ \A a \in {TxOf(id).from, TxOf(id).to} : \E k \in 1..Len(s) : s[k] = a
            /\ id \in TxIds
<1> DEFINE id == <<b, m>>
<1>1. PICK t \in Tx : t = TxOf(id)
  BY ChainFacts DEF TxOf
<1>2. id \in TxIds
  BY DEF TxIds
<1>3. t.from \in Addrs /\ t.to \in Addrs /\ t.payer \in Addrs
  BY DEF Tx
<1>4. PICK u \in Seq(Addrs) : /\ u = IF t.to # t.from THEN <<t.to>> ELSE <<>>
                              /\ t.to # t.from => Len(u) = 1 /\ u[1] = t.to
  <2>1. <<t.to>> \in Seq(Addrs) /\ <<>> \in Seq(Addrs) /\ Len(<<t.to>>) = 1 /\ <<t.to>>[1] = t.to
    BY <1>3
  <2>2. PICK u : u = IF t.to # t.from THEN <<t.to>> ELSE <<>>
    OBVIOUS
  <2>3. u \in Seq(Addrs) /\ (t.to # t.from => Len(u) = 1 /\ u[1] = t.to)
    <3>1. CASE t.to # t.from
      BY <2>1, <2>2, <3>1
    <3>2. CASE t.to = t.from
      BY <2>1, <2>2, <3>2
    <3> QED
      BY <3>1, <3>2
  <2> QED
    BY <2>2, <2>3
<1>5. PICK w \in Seq(Addrs) :
         w = IF id \in known /\ t.payer \notin {t.from, t.to} THEN <<t.payer>> ELSE <<>>
  <2>1. <<t.payer>> \in Seq(Addrs) /\ <<>> \in Seq(Addrs)
    BY <1>3
  <2> QED
    BY <2>1
<1>6. TargetsGiven(id, known) = (<<t.from>> \o u) \o w
  BY <1>1, <1>4, <1>5 DEF TargetsGiven
<1>7. PICK x \in Seq(Addrs) : /\ x = <<t.from>> \o u /\ Len(x) = 1 + Len(u) /\ x[1] = t.from
                              /\ t.to # t.from => Len(x) = 2 /\ x[2] = t.to
  <2>0. <<t.from>> \in Seq(Addrs) /\ Len(<<t.from>>) = 1 /\ <<t.from>>[1] = t.from
    BY <1>3
  <2>1. PICK v \in Seq(Addrs) : v = <<t.from>> /\ Len(v) = 1 /\ v[1] = t.from
    BY <2>0
  <2>2. /\ v \o u \in Seq(Addrs) /\ Len(v \o u) = Len(v) + Len(u)
        /\ \A k \in 1..Len(v) + Len(u) : (v \o u)[k] = IF k <= Len(v) THEN v[k] ELSE u[k - Len(v)]
    BY ConcatProperties
  <2>3. Len(u) \in Nat
    OBVIOUS
  <2>4. (v \o u)[1] = t.from /\ (Len(u) = 1 => (v \o u)[2] = u[1])
    BY <2>1, <2>2, <2>3
  <2>5. t.to # t.from => Len(v \o u) = 2 /\ (v \o u)[2] = t.to
    <3>1. t.to # t.from => Len(u) = 1 /\ u[1] = t.to
      BY <1>4
    <3>2. Len(v \o u) = 1 + Len(u)
      BY <2>1, <2>2
    <3> QED
      BY <2>4, <3>1, <3>2
  <2>6. Len(v \o u) = 1 + Len(u)
    BY <2>1, <2>2
  <2>7. v \o u = <<t.from>> \o u /\ v \o u \in Seq(Addrs) /\ (v \o u)[1] = t.from
    BY <2>1, <2>2, <2>4
  <2> QED
    BY <2>5, <2>6, <2>7
<1>8. PICK y \in Seq(Addrs) : /\ y = x \o w /\ Len(y) = Len(x) + Len(w)
                              /\ \A k \in 1..Len(x) : y[k] = x[k]
  <2>1. /\ x \o w \in Seq(Addrs) /\ Len(x \o w) = Len(x) + Len(w)
        /\ \A k \in 1..Len(x) + Len(w) : (x \o w)[k] = IF k <= Len(x) THEN x[k] ELSE w[k - Len(x)]
    BY ConcatProperties
  <2>2. Len(x) \in Nat /\ Len(w) \in Nat
    OBVIOUS
  <2>3. \A k \in 1..Len(x) : (x \o w)[k] = x[k]
    BY <2>1, <2>2
  <2> QED
    BY <2>1, <2>3
<1>9. Len(x) \in Nat \ {0} /\ Len(w) \in Nat /\ Len(y) \in Nat /\ 1 \in 1..Len(x) /\ 1 \in 1..Len(y)
  BY <1>4, <1>7, <1>8
<1>10. t.to # t.from => 2 \in 1..Len(x) /\ 2 \in 1..Len(y)
  BY <1>7, <1>8, <1>9
<1>11. \A a \in {t.from, t.to} : \E k \in 1..Len(y) : y[k] = a
  BY <1>7, <1>8, <1>9, <1>10
<1>12. \A k \in 1..Len(y) : y[k] \in Addrs
  BY <1>8
<1>13. y = TargetsGiven(id, known)
  BY <1>6, <1>7, <1>8
<1>14. Len(y) \in Nat \ {0}
  BY <1>9
<1> QED
  BY <1>1, <1>2, <1>11, <1>12, <1>13, <1>14

-----------------------------------------------------------------------------
(* The steps.                                                              *)

\* Nothing is recorded and nothing is counted.
LEMMA InitLInv == ASSUME Init PROVE LInv
<1>1. 1 \in Heights /\ 1 \in 1..Len(Blocks[1]) /\ Len(Blocks) \in Nat \ {0}
  BY ChainFacts
<1>2. Types
  <2>1. Empty \in Lists
    <3>1. Empty \in [{} -> TxIds]
      BY DEF Empty
    <3> QED
      BY <3>1 DEF Lists
  <2> QED
    BY <1>1, <2>1 DEF Init, Types
<1>3. Position
  BY <1>1 DEF Init, Position
<1>4. UpTo(0) = {} /\ FirstOf(1, 0) = {}
  BY DEF UpTo, FirstOf
<1>5. Counted = {} /\ Passed = {} /\ UpTo(latest) = {}
  <2>1. h - 1 = 0 /\ n - 1 = 0 /\ h = 1 /\ pc = "tx" /\ latest = 0
    BY DEF Init
  <2> QED
    BY <1>4, <2>1 DEF Counted, Passed
<1>6. CounterCovers
  BY <1>5, FS_EmptySet DEF Init, CounterCovers
<1>7. IndexCovers
  <2>1. \A a \in Addrs : DOMAIN txIndex[a] = {}
    BY DEF Init, Empty
  <2> QED
    BY <1>5, <2>1 DEF IndexCovers, Init
<1> QED
  BY <1>2, <1>3, <1>6, <1>7 DEF LInv

\* The sets the counter covers are finite.
LEMMA CoveredFinite == ASSUME Types PROVE IsFiniteSet(UpTo(latest)) /\ IsFiniteSet(Counted)
<1>1. /\ h \in Int /\ h - 1 \in Int /\ h - 1 <= Len(Blocks) /\ latest \in Int /\ latest <= Len(Blocks)
      /\ n - 1 \in Int /\ Len(Blocks[h]) \in Int
  BY ChainFacts DEF Types
<1>2. PICK k \in Int : k = IF pc \in {"tx", "count"} THEN n - 1 ELSE Len(Blocks[h])
  BY <1>1
<1>3. IsFiniteSet(UpTo(latest)) /\ IsFiniteSet(UpTo(h - 1)) /\ IsFiniteSet(FirstOf(h, k))
  BY <1>1, Finitely
<1> QED
  BY <1>2, <1>3, FS_Union DEF Counted

\* SetTransaction writes the row; the transaction is not counted yet.
LEMMA RowKeeps == ASSUME LInv, SetTransactionRow PROVE LInv'
<1>1. /\ pc = "tx" /\ pc' = "count"
      /\ UNCHANGED <<h, n, target, first, latest, txCount, countKey, addrSeq, txIndex, feeMeta, restarts>>
  BY DEF SetTransactionRow, index, faults
<1>2. Types' /\ Position'
  BY <1>1 DEF LInv, Types, Position
<1>3. Counted' = Counted /\ Passed' = Passed
  BY <1>1 DEF Counted, Passed
<1>4. CounterCovers'
  BY <1>1, <1>3 DEF LInv, CounterCovers
<1>5. IndexCovers'
  BY <1>1, <1>3 DEF LInv, IndexCovers, Listed, Values
<1> QED
  BY <1>2, <1>4, <1>5 DEF LInv

\* The transaction in hand is counted.
LEMMA CountKeeps == ASSUME LInv, CountTransaction PROVE LInv'
<1>1. /\ pc = "count" /\ txCount' = txCount + 1 /\ countKey' = txCount + 1
      /\ pc' = IF AtLast THEN "index" ELSE "tx"
      /\ n' = IF AtLast THEN 1 ELSE n + 1
      /\ UNCHANGED <<h, target, first, latest, addrSeq, txIndex, feeMeta, restarts>>
  BY DEF CountTransaction, index, faults
<1>2. /\ h \in Heights /\ n \in 1..Len(Blocks[h]) /\ Len(Blocks[h]) \in Nat \ {0} /\ h \in Int
      /\ txCount \in Nat
  BY ChainFacts DEF LInv, Types
<1>3. n' \in 1..Len(Blocks[h]) /\ txCount' \in Nat
  BY <1>1, <1>2 DEF AtLast
<1>4. Types'
  BY <1>1, <1>3 DEF LInv, Types
<1>5. Position'
  <2>1. Len(TargetsGiven(<<h, 1>>, feeMeta)) \in Nat \ {0}
    BY <1>2, Targets
  <2>2. pc' = "index" => 1 \in 1..Len(TargetsGiven(<<h, n'>>, feeMeta))
    BY <1>1, <2>1
  <2>3. target = 1
    BY <1>1 DEF LInv, Position
  <2>4. /\ h' <= latest' + 1
        /\ latest' = Len(Blocks) => pc' = "done"
        /\ pc' \in {"fee", "latest"} => n' = 1
        /\ target' \in Nat \ {0} /\ target' = 1
    BY <1>1, <2>3 DEF LInv, Position
  <2> QED
    <3>1. IF pc' = "index" THEN target' \in 1..Len(TargetsGiven(<<h', n'>>, feeMeta')) ELSE target' = 1
      BY <1>1, <2>2, <2>4
    <3> QED
      BY <2>4, <3>1 DEF Position
<1>6. Counted' = Counted \cup {<<h, n>>}
  <2>1. FirstOf(h, n) = FirstOf(h, n - 1) \cup {<<h, n>>}
    <3>1. n \in Nat \ {0}
      BY <1>2
    <3> QED
      BY <1>2, <3>1, Growth
  <2>2. Counted = UpTo(h - 1) \cup FirstOf(h, n - 1)
    BY <1>1 DEF Counted
  <2>3. Counted' = UpTo(h - 1) \cup FirstOf(h, n)
    <3>1. CASE AtLast
      BY <1>1, <3>1 DEF Counted, AtLast
    <3>2. CASE ~AtLast
      <4>1. n' - 1 = n
        BY <1>1, <1>2, <3>2
      <4> QED
        BY <1>1, <3>2, <4>1 DEF Counted
    <3> QED
      BY <3>1, <3>2
  <2> QED
    BY <2>1, <2>2, <2>3
<1>7. CounterCovers'
  <2>1. IsFiniteSet(UpTo(latest)) /\ IsFiniteSet(Counted)
    BY CoveredFinite DEF LInv
  <2>2. Cardinality(UpTo(latest)) <= txCount /\ Cardinality(Counted) <= txCount
    BY DEF LInv, CounterCovers
  <2>3. Cardinality(Counted') <= txCount + 1
    BY <1>2, <1>6, <2>1, <2>2, OneMore
  <2>4. Cardinality(UpTo(latest)) \in Nat
    BY <2>1, FS_CardinalityType
  <2>5. Cardinality(UpTo(latest)) <= txCount + 1
    BY <1>2, <2>2, <2>4
  <2> QED
    BY <1>1, <2>3, <2>5 DEF CounterCovers
<1>8. IndexCovers'
  <2>1. Passed' = {}
    <3>1. FirstOf(h, 0) = {}
      BY Growth
    <3>2. AtLast => n' - 1 = 0
      BY <1>1
    <3> QED
      BY <1>1, <3>1, <3>2 DEF Passed
  <2>2. target' - 1 = 0
    BY <1>1 DEF LInv, Position
  <2>3. \A x : x \notin 1..0
    OBVIOUS
  <2>4. restarts' = 0 => /\ \A a \in Addrs : \A q \in DOMAIN txIndex'[a] : q < addrSeq'[a]
                         /\ \A id \in UpTo(latest') \cup Passed' : Listed(id)'
    BY <1>1, <2>1 DEF LInv, IndexCovers, Listed, Values
  <2> QED
    BY <2>2, <2>3, <2>4 DEF IndexCovers
<1> QED
  BY <1>4, <1>5, <1>7, <1>8 DEF LInv

\* A list that is extended at a free position keeps what it has.
LEMMA ExtendFacts ==
  ASSUME NEW f \in Lists, NEW q \in Nat, NEW id \in TxIds
  PROVE  /\ Extend(f, q, id) \in Lists /\ DOMAIN Extend(f, q, id) = DOMAIN f \cup {q}
         /\ id \in Values(Extend(f, q, id))
         /\ q \notin DOMAIN f => Values(f) \subseteq Values(Extend(f, q, id))
<1>1. PICK S \in SUBSET Nat : f \in [S -> TxIds]
  BY DEF Lists
<1>2. PICK g : g = Extend(f, q, id)
  OBVIOUS
<1>3. /\ DOMAIN f = S /\ DOMAIN g = S \cup {q} /\ g[q] = id /\ \A x \in S : x # q => g[x] = f[x]
      /\ g \in [S \cup {q} -> TxIds]
  BY <1>1, <1>2 DEF Extend
<1>4. g \in Lists
  BY <1>3 DEF Lists
<1>5. id \in Values(g) /\ (q \notin S => Values(f) \subseteq Values(g))
  BY <1>3 DEF Values
<1> QED
  BY <1>2, <1>3, <1>4, <1>5

\* The recorded transactions and those of the block in hand have a sender and
\* a receiver.
LEMMA Addressed ==
  ASSUME NEW b \in Heights, NEW l \in 0..Len(Blocks), NEW m \in Int, m <= Len(Blocks[b])
  PROVE  \A id \in UpTo(l) \cup FirstOf(b, m) : TxOf(id).from \in Addrs /\ TxOf(id).to \in Addrs
<1>1. \A c \in Heights : \A o \in 1..Len(Blocks[c]) :
         TxOf(<<c, o>>).from \in Addrs /\ TxOf(<<c, o>>).to \in Addrs
  BY ChainFacts DEF TxOf, Tx
<1>2. ASSUME NEW id \in UpTo(l) PROVE TxOf(id).from \in Addrs /\ TxOf(id).to \in Addrs
  <2>1. PICK c \in 1..l : id \in Ids(c)
    BY DEF UpTo
  <2>2. c \in Heights
    BY ChainFacts
  <2> QED
    BY <1>1, <2>1, <2>2 DEF Ids
<1>3. ASSUME NEW id \in FirstOf(b, m) PROVE TxOf(id).from \in Addrs /\ TxOf(id).to \in Addrs
  <2>1. PICK o \in 1..m : id = <<b, o>>
    BY DEF FirstOf
  <2>2. o \in 1..Len(Blocks[b])
    BY ChainFacts
  <2> QED
    BY <1>1, <2>1, <2>2
<1> QED
  BY <1>2, <1>3

\* How far into its block the transaction in hand is.
LEMMA PassedBound ==
  ASSUME Types
  PROVE  \E m \in Int : m <= Len(Blocks[h]) /\ Passed = FirstOf(h, m)
<1>1. n - 1 \in Int /\ Len(Blocks[h]) \in Int /\ n - 1 <= Len(Blocks[h]) /\ 0 <= Len(Blocks[h])
  BY ChainFacts DEF Types
<1> QED
  BY <1>1 DEF Passed

\* One address of the transaction in hand gets it appended.
LEMMA IndexKeeps == ASSUME LInv, ProcessAddressIndexing PROVE LInv'
<1>1. PICK s : s = TargetsGiven(<<h, n>>, feeMeta)
  OBVIOUS
<1>2. PICK id : id = <<h, n>>
  OBVIOUS
<1>3. /\ pc = "index"
      /\ AddTransactionToAddressIndex(s[target], id)
      /\ \/ /\ target < Len(s) /\ target' = target + 1 /\ UNCHANGED <<pc, n>>
         \/ /\ target = Len(s) /\ target' = 1
            /\ pc' = IF AtLast THEN "initFrom" ELSE "index"
            /\ n' = IF AtLast THEN 1 ELSE n + 1
      /\ UNCHANGED <<h, first, latest, txCount, countKey, feeMeta, restarts>>
  <2>1. s = IndexTargets(<<h, n>>)
    BY <1>1 DEF IndexTargets, TargetsGiven
  <2> QED
    BY <1>2, <2>1 DEF ProcessAddressIndexing, counter, faults
<1>4. /\ h \in Heights /\ n \in 1..Len(Blocks[h]) /\ Len(Blocks[h]) \in Nat \ {0} /\ h \in Int
      /\ addrSeq \in [Addrs -> Nat] /\ txIndex \in [Addrs -> Lists] /\ latest \in 0..Len(Blocks)
  BY ChainFacts DEF LInv, Types
<1>5. /\ Len(s) \in Nat \ {0} /\ \A k \in 1..Len(s) : s[k] \in Addrs
      /\ \A a \in {TxOf(id).from, TxOf(id).to} : \E k \in 1..Len(s) : s[k] = a
      /\ id \in TxIds
  <2>1. /\ Len(TargetsGiven(<<h, n>>, feeMeta)) \in Nat \ {0}
        /\ \A k \in 1..Len(TargetsGiven(<<h, n>>, feeMeta)) :
              TargetsGiven(<<h, n>>, feeMeta)[k] \in Addrs
        /\ \A a \in {TxOf(<<h, n>>).from, TxOf(<<h, n>>).to} :
              \E k \in 1..Len(TargetsGiven(<<h, n>>, feeMeta)) :
                  TargetsGiven(<<h, n>>, feeMeta)[k] = a
        /\ <<h, n>> \in TxIds
    BY <1>4, Targets
  <2> QED
    BY <1>1, <1>2, <2>1
<1>6. target \in 1..Len(s)
  BY <1>1, <1>3 DEF LInv, Position
<1>7. PICK a \in Addrs : a = s[target]
  BY <1>5, <1>6
<1>8. PICK q \in Nat : q = addrSeq[a]
  BY <1>4
<1>9. PICK f \in Lists : f = txIndex[a]
  BY <1>4
<1>10. /\ Extend(f, q, id) \in Lists /\ DOMAIN Extend(f, q, id) = DOMAIN f \cup {q}
       /\ id \in Values(Extend(f, q, id))
       /\ q \notin DOMAIN f => Values(f) \subseteq Values(Extend(f, q, id))
  BY <1>5, ExtendFacts
<1>11. /\ txIndex' = [txIndex EXCEPT ![a] = Extend(f, q, id)]
       /\ addrSeq' = [addrSeq EXCEPT ![a] = q + 1]
  BY <1>3, <1>7, <1>8, <1>9 DEF AddTransactionToAddressIndex
<1>12. /\ txIndex' \in [Addrs -> Lists] /\ txIndex'[a] = Extend(f, q, id)
       /\ \A b \in Addrs : b # a => txIndex'[b] = txIndex[b]
  BY <1>4, <1>10, <1>11
<1>13. /\ addrSeq' \in [Addrs -> Nat] /\ addrSeq'[a] = q + 1
       /\ \A b \in Addrs : b # a => addrSeq'[b] = addrSeq[b]
  <2>1. q + 1 \in Nat
    OBVIOUS
  <2> QED
    BY <1>4, <1>11, <2>1
<1>14. /\ n' \in 1..Len(Blocks[h]) /\ pc' \in {"index", "initFrom"}
       /\ pc' = "index" /\ n' # n => target' = 1
  <2>1. CASE target = Len(s) /\ AtLast
    BY <1>3, <1>4, <2>1
  <2>2. CASE target = Len(s) /\ ~AtLast
    BY <1>3, <1>4, <2>2 DEF AtLast
  <2>3. CASE target < Len(s)
    BY <1>3, <1>4, <2>3
  <2> QED
    BY <1>3, <2>1, <2>2, <2>3
<1>15. Types'
  BY <1>3, <1>12, <1>13, <1>14 DEF LInv, Types
<1>16. Position'
  <2>1. Len(TargetsGiven(<<h, n'>>, feeMeta)) \in Nat \ {0}
    BY <1>4, <1>14, Targets
  <2>2. CASE target < Len(s)
    <3>1. target' = target + 1 /\ pc' = "index" /\ n' = n
      BY <1>3, <1>5, <1>6, <2>2
    <3>2. target' \in 1..Len(s) /\ target' \in Nat \ {0}
      BY <1>5, <1>6, <2>2, <3>1
    <3> QED
      BY <1>1, <1>3, <3>1, <3>2 DEF LInv, Position
  <2>3. CASE target = Len(s)
    <3>1. target' = 1 /\ pc' \in {"index", "initFrom"}
      BY <1>3, <1>5, <2>3
    <3>2. IF pc' = "index" THEN target' \in 1..Len(TargetsGiven(<<h', n'>>, feeMeta')) ELSE target' = 1
      BY <1>3, <2>1, <3>1
    <3> QED
      BY <1>3, <3>1, <3>2 DEF LInv, Position
  <2> QED
    BY <1>3, <2>2, <2>3
<1>17. CounterCovers'
  <2>1. Counted' = Counted
    BY <1>3, <1>14 DEF Counted
  <2> QED
    BY <1>3, <2>1 DEF LInv, CounterCovers
<1>18. IndexCovers'
  <2> SUFFICES ASSUME restarts = 0 PROVE IndexCovers'
    BY <1>3 DEF IndexCovers
  <2>1. /\ \A b \in Addrs : \A x \in DOMAIN txIndex[b] : x < addrSeq[b]
        /\ \A i \in UpTo(latest) \cup Passed : Listed(i)
        /\ \A k \in 1..target - 1 : id \in Values(txIndex[s[k]])
    BY <1>1, <1>2, <1>3 DEF LInv, IndexCovers
  <2>2. \A x \in DOMAIN f : x < q
    BY <1>8, <1>9, <2>1
  <2>3. q \notin DOMAIN f
    BY <2>2
  <2>4. /\ \A b \in Addrs : Values(txIndex[b]) \subseteq Values(txIndex'[b])
        /\ id \in Values(txIndex'[a])
    BY <1>9, <1>10, <1>12, <2>3
  <2>5. \A b \in Addrs : \A x \in DOMAIN txIndex'[b] : x < addrSeq'[b]
    <3>1. \A x \in DOMAIN f \cup {q} : x < q + 1
      <4>1. DOMAIN f \subseteq Nat
        BY DEF Lists
      <4> QED
        BY <2>2, <4>1
    <3>2. \A x \in DOMAIN txIndex'[a] : x < addrSeq'[a]
      BY <1>10, <1>12, <1>13, <3>1
    <3> QED
      BY <1>12, <1>13, <2>1, <3>2
  <2>6. \A i \in UpTo(latest) \cup Passed : TxOf(i).from \in Addrs /\ TxOf(i).to \in Addrs
    <3>1. PICK m \in Int : m <= Len(Blocks[h]) /\ Passed = FirstOf(h, m)
      BY PassedBound DEF LInv
    <3> QED
      BY <1>4, <3>1, Addressed
  <2>7. \A i \in UpTo(latest) \cup Passed : Listed(i)'
    BY <2>1, <2>4, <2>6 DEF Listed
  <2>8. \A k \in 1..target : id \in Values(txIndex'[s[k]])
    <3> SUFFICES ASSUME NEW k \in 1..target PROVE id \in Values(txIndex'[s[k]])
      OBVIOUS
    <3>1. CASE k = target
      BY <1>7, <2>4, <3>1
    <3>2. CASE k # target
      <4>1. k \in 1..target - 1 /\ k \in 1..Len(s)
        BY <1>5, <1>6, <3>2
      <4> QED
        BY <1>5, <2>1, <2>4, <4>1
    <3> QED
      BY <3>1, <3>2
  <2>9. CASE target < Len(s)
    <3>1. target' - 1 = target /\ pc' = pc /\ n' = n /\ Passed' = Passed
      BY <1>3, <1>5, <1>6, <2>9 DEF Passed
    <3>2. \A k \in 1..target' - 1 : <<h', n'>> \in Values(txIndex'[TargetsGiven(<<h', n'>>, feeMeta')[k]])
      BY <1>1, <1>2, <1>3, <2>8, <3>1
    <3> QED
      BY <1>3, <2>5, <2>7, <3>1, <3>2 DEF IndexCovers
  <2>10. CASE target = Len(s)
    <3>1. Listed(id)'
      BY <1>5, <2>8, <2>10 DEF Listed
    <3>2. Passed' = Passed \cup {id}
      <4>1. n \in Nat \ {0}
        BY <1>4
      <4>2. FirstOf(h, n) = FirstOf(h, n - 1) \cup {<<h, n>>}
        BY <1>4, <4>1, Growth
      <4>3. Passed = FirstOf(h, n - 1)
        BY <1>3 DEF Passed
      <4>4. pc' = IF AtLast THEN "initFrom" ELSE "index"
        BY <1>3, <1>5, <2>10
      <4>5. ~AtLast => n' - 1 = n
        BY <1>3, <1>4, <1>5, <2>10
      <4>6. Passed' = FirstOf(h, n)
        BY <1>3, <4>4, <4>5 DEF Passed, AtLast
      <4> QED
        BY <1>2, <4>2, <4>3, <4>6
    <3>3. target' - 1 = 0
      BY <1>3, <1>5, <2>10
    <3>4. \A x : x \notin 1..0
      OBVIOUS
    <3>5. \A i \in UpTo(latest') \cup Passed' : Listed(i)'
      BY <1>3, <2>7, <3>1, <3>2
    <3> QED
      BY <2>5, <3>3, <3>4, <3>5 DEF IndexCovers
  <2> QED
    BY <1>3, <2>9, <2>10
<1> QED
  BY <1>15, <1>16, <1>17, <1>18 DEF LInv

\* Once a block is listed, its balances only move positions ahead.
LEMMA AfterIndexing ==
  ASSUME LInv, pc \in {"initFrom", "debit", "initTo", "credit", "fee"},
         pc' \in {"initFrom", "debit", "initTo", "credit", "fee", "latest"},
         n' \in 1..Len(Blocks[h]), pc' \in {"fee", "latest"} => n' = 1,
         UNCHANGED <<h, target, first, latest, txCount, countKey, txIndex, restarts>>,
         addrSeq' \in [Addrs -> Nat], \A a \in Addrs : addrSeq[a] <= addrSeq'[a]
  PROVE  LInv'
<1>1. Types'
  BY DEF LInv, Types
<1>2. Position'
  BY DEF LInv, Position
<1>3. Counted' = Counted /\ Passed' = Passed
  BY DEF Counted, Passed
<1>4. CounterCovers'
  BY <1>3 DEF LInv, CounterCovers
<1>5. restarts' = 0 => \A a \in Addrs : \A q \in DOMAIN txIndex'[a] : q < addrSeq'[a]
  <2>1. \A a \in Addrs : addrSeq[a] \in Nat /\ addrSeq'[a] \in Nat /\ DOMAIN txIndex[a] \subseteq Nat
    <3>1. \A f \in Lists : DOMAIN f \subseteq Nat
      BY DEF Lists
    <3>2. addrSeq \in [Addrs -> Nat] /\ \A a \in Addrs : txIndex[a] \in Lists
      BY DEF LInv, Types
    <3> QED
      BY <3>1, <3>2
  <2> QED
    BY <2>1 DEF LInv, IndexCovers
<1>6. restarts' = 0 => \A id \in UpTo(latest') \cup Passed' : Listed(id)'
  BY <1>3 DEF LInv, IndexCovers, Listed, Values
<1>7. IndexCovers'
  BY <1>5, <1>6 DEF IndexCovers
<1> QED
  BY <1>1, <1>2, <1>4, <1>7 DEF LInv

\* UpdateBalance advances the position of an address, or nothing.
LEMMA Advances ==
  ASSUME Types, NEW a, \/ UNCHANGED addrSeq
                       \/ \E delta : UpdateBalance(a, delta)
  PROVE  addrSeq' \in [Addrs -> Nat] /\ \A b \in Addrs : addrSeq[b] <= addrSeq'[b]
<1>1. addrSeq' = addrSeq \/ addrSeq' = [addrSeq EXCEPT ![a] = @ + 1]
  BY DEF UpdateBalance
<1>2. addrSeq \in [Addrs -> Nat]
  BY DEF Types
<1> QED
  BY <1>1, <1>2

\* The steps of processBalanceTracking and processFeeDelegationMetadata.
LEMMA BalanceKeeps ==
  ASSUME LInv, \/ EnsureSender \/ DebitSender \/ EnsureReceiver \/ CreditReceiver
               \/ ProcessFeeDelegationMetadata
  PROVE  LInv'
<1>1. h \in Heights /\ n \in 1..Len(Blocks[h]) /\ Len(Blocks[h]) \in Nat \ {0}
  BY ChainFacts DEF LInv, Types
<1>2. UNCHANGED <<h, target, first, latest, txCount, countKey, txIndex, restarts>>
  BY DEF EnsureSender, DebitSender, EnsureReceiver, CreditReceiver, ProcessFeeDelegationMetadata,
     EnsureInitialized, counter, faults, index
<1>3. addrSeq' \in [Addrs -> Nat] /\ \A b \in Addrs : addrSeq[b] <= addrSeq'[b]
  <2>1. CASE EnsureSender
    BY <2>1, Advances DEF EnsureSender, EnsureInitialized, LInv
  <2>2. CASE EnsureReceiver
    BY <2>2, Advances DEF EnsureReceiver, EnsureInitialized, LInv
  <2>3. CASE DebitSender
    BY <2>3, Advances DEF DebitSender, LInv
  <2>4. CASE CreditReceiver
    BY <2>4, Advances DEF CreditReceiver, LInv
  <2>5. CASE ProcessFeeDelegationMetadata
    BY <2>5, Advances DEF ProcessFeeDelegationMetadata, LInv, index
  <2> QED
    BY <2>1, <2>2, <2>3, <2>4, <2>5
<1>4. ASSUME pc' = NextBalance, n' = IF AtLast THEN 1 ELSE n + 1
      PROVE  /\ pc' \in {"initFrom", "fee"} /\ n' \in 1..Len(Blocks[h]) /\ (pc' = "fee" => n' = 1)
  <2>1. CASE AtLast
    BY <1>1, <1>4, <2>1 DEF NextBalance
  <2>2. CASE ~AtLast
    BY <1>1, <1>4, <2>2 DEF NextBalance, AtLast
  <2> QED
    BY <2>1, <2>2
<1>5. /\ pc \in {"initFrom", "debit", "initTo", "credit", "fee"}
      /\ pc' \in {"initFrom", "debit", "initTo", "credit", "fee", "latest"}
      /\ n' \in 1..Len(Blocks[h]) /\ (pc' \in {"fee", "latest"} => n' = 1)
  <2>1. CASE EnsureSender
    BY <1>1, <2>1 DEF EnsureSender, EnsureInitialized
  <2>2. CASE EnsureReceiver
    BY <1>1, <2>2 DEF EnsureReceiver, EnsureInitialized
  <2>3. CASE DebitSender
    BY <1>1, <1>4, <2>3 DEF DebitSender
  <2>4. CASE CreditReceiver
    BY <1>4, <2>4 DEF CreditReceiver
  <2>5. CASE ProcessFeeDelegationMetadata
    BY <1>1, <2>5 DEF ProcessFeeDelegationMetadata, LInv, Position
  <2> QED
    BY <2>1, <2>2, <2>3, <2>4, <2>5
<1> QED
  BY <1>2, <1>3, <1>5, AfterIndexing

\* The block in hand is recorded: all of it was counted and listed.
LEMMA LatestKeeps == ASSUME LInv, SetLatestHeight PROVE LInv'
<1>1. /\ pc = "latest" /\ latest' = h
      /\ IF h = Len(Blocks)
         THEN pc' = "done" /\ UNCHANGED <<h, first>>
         ELSE /\ pc' = "tx" /\ h' = h + 1
              /\ first' = IF h + 1 = first + BatchSize THEN h + 1 ELSE first
      /\ UNCHANGED <<n, target, txCount, countKey, addrSeq, txIndex, feeMeta, restarts>>
  BY DEF SetLatestHeight, counter, index, faults
<1>2. /\ h \in 1..Len(Blocks) /\ Heights = 1..Len(Blocks) /\ Len(Blocks) \in Nat
      /\ first \in 1..h /\ n = 1 /\ target = 1 /\ h <= latest + 1 /\ latest \in 0..Len(Blocks)
  BY <1>1, ChainFacts DEF LInv, Types, Position
<1>3. /\ h' \in Heights /\ first' \in 1..h' /\ latest' \in 0..Len(Blocks) /\ h' <= latest' + 1
      /\ latest' = Len(Blocks) => pc' = "done"
  BY <1>1, <1>2
<1>4. 1 \in 1..Len(Blocks[h'])
  BY <1>3, ChainFacts
<1>5. Types'
  BY <1>1, <1>2, <1>3, <1>4 DEF LInv, Types
<1>6. Position'
  BY <1>1, <1>2, <1>3 DEF LInv, Position
<1>7. UpTo(h) = UpTo(h - 1) \cup FirstOf(h, Len(Blocks[h]))
  BY <1>2, Growth
<1>8. Counted = UpTo(h) /\ Passed = FirstOf(h, Len(Blocks[h]))
  BY <1>1, <1>7 DEF Counted, Passed
<1>9. Counted' = UpTo(h)
  <2>1. CASE h = Len(Blocks)
    BY <1>1, <1>7, <2>1 DEF Counted
  <2>2. CASE h # Len(Blocks)
    <3>1. h' - 1 = h /\ n' - 1 = 0 /\ pc' = "tx"
      BY <1>1, <1>2, <2>2
    <3>2. FirstOf(h', 0) = {}
      BY Growth
    <3> QED
      BY <3>1, <3>2 DEF Counted
  <2> QED
    BY <2>1, <2>2
<1>10. CounterCovers'
  BY <1>1, <1>8, <1>9 DEF LInv, CounterCovers
<1>11. Passed' \subseteq UpTo(h)
  <2>1. CASE h = Len(Blocks)
    BY <1>1, <1>7, <2>1 DEF Passed
  <2>2. CASE h # Len(Blocks)
    <3>1. FirstOf(h', 0) = {}
      BY Growth
    <3> QED
      BY <1>1, <2>2, <3>1 DEF Passed
  <2> QED
    BY <2>1, <2>2
<1>12. UpTo(h - 1) \subseteq UpTo(latest)
  <2>1. h - 1 \in Int /\ latest \in Int /\ h - 1 <= latest
    BY <1>2
  <2> QED
    BY <2>1, Growth
<1>13. IndexCovers'
  <2>1. restarts = 0 => \A id \in UpTo(h) : Listed(id)
    BY <1>7, <1>8, <1>12 DEF LInv, IndexCovers
  <2>2. \A id : Listed(id)' <=> Listed(id)
    BY <1>1 DEF Listed, Values
  <2>3. pc' # "index"
    BY <1>1
  <2> QED
    BY <1>1, <1>11, <2>1, <2>2, <2>3 DEF LInv, IndexCovers
<1> QED
  BY <1>5, <1>6, <1>10, <1>13 DEF LInv

\* A batch that is begun again, by Run or after a restart, begins with a block
\* whose predecessors are covered by the counter.
LEMMA BackKeeps == ASSUME LInv, BatchFails \/ Restart PROVE LInv'
<1>1. /\ pc # "done" /\ pc' = "tx" /\ n' = 1 /\ target' = 1
      /\ UNCHANGED <<latest, txCount, countKey, txIndex, feeMeta>>
      /\ \/ h' = first /\ first' = first /\ restarts' = restarts /\ addrSeq' = addrSeq
         \/ /\ h' = latest + 1 /\ first' = latest + 1 /\ restarts' = restarts + 1
            /\ addrSeq' = [a \in Addrs |-> 0]
  BY DEF BatchFails, Restart, counter, index, balances, LInv, Types
<1>2. /\ h \in 1..Len(Blocks) /\ Heights = 1..Len(Blocks) /\ Len(Blocks) \in Nat
      /\ first \in 1..h /\ h <= latest + 1 /\ latest \in 0..Len(Blocks) /\ latest # Len(Blocks)
      /\ restarts \in Nat
  BY <1>1, ChainFacts DEF LInv, Types, Position
<1>3. h' \in Heights /\ first' \in 1..h' /\ h' <= latest' + 1 /\ restarts' \in Nat
  BY <1>1, <1>2
<1>4. 1 \in 1..Len(Blocks[h'])
  BY <1>3, ChainFacts
<1>5. addrSeq' \in [Addrs -> Nat]
  BY <1>1 DEF LInv, Types
<1>6. Types'
  BY <1>1, <1>3, <1>4, <1>5 DEF LInv, Types
<1>7. Position'
  BY <1>1, <1>2, <1>3 DEF Position
<1>8. Counted' \subseteq UpTo(latest) /\ Passed' = {}
  <2>1. FirstOf(h', 0) = {} /\ n' - 1 = 0
    BY <1>1, Growth
  <2>2. h' - 1 \in Int /\ latest \in Int /\ h' - 1 <= latest
    <3>1. h' \in Int /\ latest \in Int /\ h' <= latest + 1
      BY <1>1, <1>2, <1>3
    <3>2. \A x, y \in Int : x <= y + 1 => x - 1 \in Int /\ x - 1 <= y
      OBVIOUS
    <3> QED
      BY <3>1, <3>2
  <2>3. UpTo(h' - 1) \subseteq UpTo(latest)
    BY <2>2, Growth
  <2> QED
    BY <1>1, <2>1, <2>3 DEF Counted, Passed
<1>9. CounterCovers'
  <2>1. IsFiniteSet(UpTo(latest)) /\ Cardinality(UpTo(latest)) <= txCount /\ txCount \in Nat
    BY CoveredFinite DEF LInv, CounterCovers, Types
  <2>2. Cardinality(Counted') <= txCount
    BY <1>8, <2>1, Fewer
  <2> QED
    BY <1>1, <2>1, <2>2 DEF CounterCovers
<1>10. IndexCovers'
  <2>1. restarts' = 0 => restarts = 0 /\ addrSeq' = addrSeq
    BY <1>1, <1>2
  <2>2. \A id : Listed(id)' <=> Listed(id)
    BY <1>1 DEF Listed, Values
  <2> QED
    BY <1>1, <1>8, <2>1, <2>2 DEF LInv, IndexCovers
<1> QED
  BY <1>6, <1>7, <1>9, <1>10 DEF LInv

\* Every step keeps the invariant.
LEMMA StepLInv == ASSUME LInv, [Next]_vars PROVE LInv'
<1>1. CASE UNCHANGED vars
  <2>1. UNCHANGED <<pc, h, n, target, first, latest, txCount, countKey, addrSeq, txIndex, feeMeta,
                    restarts>>
    BY <1>1 DEF vars, control, counter, index, balances, faults
  <2>2. Types' /\ Position'
    BY <2>1 DEF LInv, Types, Position
  <2>3. Counted' = Counted /\ Passed' = Passed
    BY <2>1 DEF Counted, Passed
  <2>4. CounterCovers'
    BY <2>1, <2>3 DEF LInv, CounterCovers
  <2>5. \A id : Listed(id)' <=> Listed(id)
    BY <2>1 DEF Listed, Values
  <2>6. \A a : Values(txIndex'[a]) = Values(txIndex[a])
    BY <2>1
  <2>7. IndexCovers'
    BY <2>1, <2>3, <2>5, <2>6 DEF LInv, IndexCovers
  <2> QED
    BY <2>2, <2>4, <2>7 DEF LInv
<1> QED
  BY <1>1, RowKeeps, CountKeeps, IndexKeeps, BalanceKeeps, LatestKeeps, BackKeeps DEF Next

-----------------------------------------------------------------------------
(* The result.                                                             *)

\* The transaction counter covers the recorded blocks through failed batches and
\* restarts, and until a restart every recorded transaction is listed under its
\* sender and its receiver (pebble_transactions.go:121, 180).
THEOREM CoversRecorded == Spec => []LedgerCovers
<1>1. LInv => LedgerCovers
  <2>1. Indexed = UpTo(latest)
    BY DEF Indexed, UpTo
  <2> QED
    BY <2>1 DEF LInv, CounterCovers, IndexCovers, Listed, LedgerCovers, CountCoversIndexed,
       IndexCompleteWhileUp
<1> QED
  BY <1>1, InitLInv, StepLInv, PTL DEF Spec

-----------------------------------------------------------------------------
(* Numbers.                                                                 *)

\* A set of numbers has a smallest one.
LEMMA Smallest ==
    ASSUME NEW T \in SUBSET Nat, T # {}
    PROVE  \E m \in T : \A i \in T : m <= i
<1> DEFINE R == OpToRel(<, Nat)
<1>1. \A i, m \in Nat : i < m => <<i, m>> \in R
  BY Zenon DEF OpToRel
<1>2. IsWellFoundedOn(R, Nat)
  BY NatLessThanWellFounded, Zenon
<1> HIDE DEF R
<1>3. PICK m \in T : \A y \in T : ~(<<y, m>> \in R)
  BY <1>2, WFMin
<1>4. ASSUME NEW i \in T PROVE m <= i
  <2>1. i \in Nat /\ m \in Nat /\ ~(i < m)
    BY <1>1, <1>3
  <2> QED
    BY <2>1
<1> QED
  BY <1>4

\* A set of numbers with a bound has a largest one.
LEMMA Largest ==
    ASSUME NEW T \in SUBSET Nat, T # {}, NEW b \in Nat, \A i \in T : i <= b
    PROVE  \E m \in T : \A i \in T : i <= m
<1> DEFINE U == {u \in Nat : \A i \in T : i <= u}
<1>1. U \in SUBSET Nat /\ b \in U OBVIOUS
<1>2. PICK u \in U : \A v \in U : u <= v
  <2> HIDE DEF U
  <2> QED BY <1>1, Smallest
<1>3. u \in T
  <2> SUFFICES ASSUME u \notin T PROVE FALSE OBVIOUS
  <2>1. \A i \in T : i < u BY <1>2
  <2>2. u - 1 \in U
    <3>1. PICK i \in T : i < u BY <2>1
    <3>2. u - 1 \in Nat BY <3>1
    <3>3. \A m \in T : m <= u - 1 BY <2>1, <3>2
    <3> QED BY <3>2, <3>3
  <2> QED BY <1>2, <2>2
<1> QED BY <1>2, <1>3

LEMMA MaxIs ==
    ASSUME NEW T \in SUBSET Nat, T # {}, NEW b \in Nat, \A i \in T : i <= b
    PROVE  Max(T) \in T /\ \A i \in T : i <= Max(T)
<1>1. PICK m \in T : \A i \in T : m >= i BY Largest
<1> QED BY <1>1 DEF Max

-----------------------------------------------------------------------------
(* The sum of a function over a set, taken in the order CHOOSE gives.       *)

Pick(s) == CHOOSE x \in s : TRUE
Summing(c, g, D) == g = [s \in D |-> IF s = {} THEN 0 ELSE c[Pick(s)] + g[s \ {Pick(s)}]]
Sums(c, S) == CHOOSE g : Summing(c, g, SUBSET S)
Total(c, S) == Sums(c, S)[S]

LEMMA SumIs == ASSUME NEW c, NEW S PROVE SumFunctionOnSet(c, S) = Total(c, S)
  BY DEF SumFunctionOnSet, FoldFunctionOnSet, MapThenFoldSet, Total, Sums, Summing, Pick

\* The sums of the subsets with at most k elements.
AtMost(S, k) == {s \in SUBSET S : Cardinality(s) <= k}

LEMMA Less ==
    ASSUME NEW S, IsFiniteSet(S), NEW s \in SUBSET S, NEW x \in s
    PROVE  /\ s \ {x} \in SUBSET S /\ IsFiniteSet(s)
           /\ Cardinality(s) \in Nat /\ Cardinality(s \ {x}) \in Nat
           /\ Cardinality(s \ {x}) = Cardinality(s) - 1 /\ Cardinality(s) > 0
<1>1. IsFiniteSet(s) BY FS_Subset
<1>2. Cardinality(s \ {x}) = Cardinality(s) - 1 /\ IsFiniteSet(s \ {x}) BY <1>1, FS_RemoveElement
<1>3. Cardinality(s) \in Nat /\ Cardinality(s \ {x}) \in Nat BY <1>1, <1>2, FS_CardinalityType
<1> QED BY <1>1, <1>2, <1>3

LEMMA Approximates ==
    ASSUME NEW c, NEW S, IsFiniteSet(S), NEW k \in Nat
    PROVE  \E g : Summing(c, g, AtMost(S, k))
<1> DEFINE Bad == {i \in Nat : ~\E g : Summing(c, g, AtMost(S, i))}
<1> SUFFICES ASSUME Bad # {} PROVE FALSE OBVIOUS
<1>1. PICK i \in Bad : \A m \in Bad : i <= m
  <2> HIDE DEF Bad
  <2>1. Bad \in SUBSET Nat BY DEF Bad
  <2> QED BY <2>1, Smallest
<1>2. i \in Nat /\ ~\E g : Summing(c, g, AtMost(S, i)) BY <1>1
<1>3. CASE i = 0
  <2> DEFINE f == [s \in AtMost(S, 0) |-> 0]
  <2>1. \A s \in AtMost(S, 0) : s = {}
    <3> SUFFICES ASSUME NEW s \in AtMost(S, 0), s # {} PROVE FALSE OBVIOUS
    <3>1. PICK x \in s : TRUE OBVIOUS
    <3>2. s \in SUBSET S /\ Cardinality(s) <= 0 BY DEF AtMost
    <3>3. Cardinality(s) \in Nat /\ Cardinality(s) > 0 BY <3>1, <3>2, Less
    <3> QED BY <3>2, <3>3
  <2>2. Summing(c, f, AtMost(S, 0))
    <3> HIDE DEF f
    <3>1. f = [s \in AtMost(S, 0) |-> 0] BY DEF f
    <3> QED BY <2>1, <3>1 DEF Summing
  <2> QED BY <1>2, <1>3, <2>2
<1>4. CASE i # 0
  <2>1. i - 1 \in Nat /\ i - 1 \notin Bad
    <3>1. i - 1 \in Nat BY <1>2, <1>4
    <3> QED BY <1>1, <1>2, <3>1
  <2>2. PICK g : Summing(c, g, AtMost(S, i - 1)) BY <2>1
  <2> DEFINE D == AtMost(S, i)
             f == [s \in D |-> IF s = {} THEN 0 ELSE c[Pick(s)] + g[s \ {Pick(s)}]]
  <2> HIDE DEF D
  <2>3. ASSUME NEW s \in D, s # {} PROVE s \ {Pick(s)} \in AtMost(S, i - 1) /\ s \ {Pick(s)} \in D
    <3>1. Pick(s) \in s BY <2>3 DEF Pick
    <3>2. s \in SUBSET S /\ Cardinality(s) <= i BY DEF AtMost, D
    <3>3. s \ {Pick(s)} \in SUBSET S /\ Cardinality(s) \in Nat /\ Cardinality(s \ {Pick(s)}) = Cardinality(s) - 1
      BY <3>1, <3>2, Less
    <3>4. Cardinality(s \ {Pick(s)}) <= i - 1 /\ Cardinality(s \ {Pick(s)}) <= i BY <1>2, <3>2, <3>3
    <3> QED BY <3>3, <3>4 DEF AtMost, D
  <2>4. ASSUME NEW t \in AtMost(S, i - 1), t \in D PROVE f[t] = g[t]
    <3>1. g[t] = IF t = {} THEN 0 ELSE c[Pick(t)] + g[t \ {Pick(t)}] BY <2>2 DEF Summing
    <3> QED BY <2>4, <3>1
  <2>5. Summing(c, f, D)
    <3>1. ASSUME NEW s \in D, s # {} PROVE f[s \ {Pick(s)}] = g[s \ {Pick(s)}]
      <4> HIDE DEF f
      <4> QED BY <2>3, <2>4, <3>1
    <3>2. f = [s \in D |-> IF s = {} THEN 0 ELSE c[Pick(s)] + g[s \ {Pick(s)}]] OBVIOUS
    <3> HIDE DEF f
    <3>3. [s \in D |-> IF s = {} THEN 0 ELSE c[Pick(s)] + g[s \ {Pick(s)}]]
          = [s \in D |-> IF s = {} THEN 0 ELSE c[Pick(s)] + f[s \ {Pick(s)}]] BY <3>1
    <3> QED BY <3>2, <3>3 DEF Summing
  <2> QED BY <1>2, <2>5 DEF D
<1> QED BY <1>3, <1>4

\* The sums of the subsets are what they should be.
LEMMA SumsAre == ASSUME NEW c, NEW S, IsFiniteSet(S) PROVE Summing(c, Sums(c, S), SUBSET S)
<1>1. Cardinality(S) \in Nat BY FS_CardinalityType
<1>2. AtMost(S, Cardinality(S)) = SUBSET S
  <2>1. ASSUME NEW s \in SUBSET S PROVE Cardinality(s) <= Cardinality(S) BY FS_Subset
  <2> QED BY <2>1 DEF AtMost
<1>3. \E g : Summing(c, g, AtMost(S, Cardinality(S))) BY <1>1, Approximates
<1>4. PICK g : Summing(c, g, SUBSET S) BY <1>2, <1>3
<1> QED BY <1>4 DEF Sums

LEMMA SumOfNone == ASSUME NEW c, NEW S, IsFiniteSet(S) PROVE Sums(c, S)[{}] = 0
<1>1. Summing(c, Sums(c, S), SUBSET S) BY SumsAre
<1>2. {} \in SUBSET S OBVIOUS
<1> QED BY <1>1, <1>2 DEF Summing

LEMMA SumOf ==
    ASSUME NEW c, NEW S, IsFiniteSet(S), NEW s \in SUBSET S, s # {}
    PROVE  Pick(s) \in s /\ Sums(c, S)[s] = c[Pick(s)] + Sums(c, S)[s \ {Pick(s)}]
<1>1. Summing(c, Sums(c, S), SUBSET S) BY SumsAre
<1>2. Sums(c, S)[s] = c[Pick(s)] + Sums(c, S)[s \ {Pick(s)}] BY <1>1 DEF Summing
<1>3. Pick(s) \in s BY DEF Pick
<1> QED BY <1>2, <1>3

\* A set of subsets has one with the fewest elements.
LEMMA Fewest ==
    ASSUME NEW S, IsFiniteSet(S), NEW W \in SUBSET SUBSET S, W # {}
    PROVE  \E s \in W : \A x \in s : s \ {x} \notin W
<1> DEFINE N == {Cardinality(s) : s \in W}
<1>1. N \in SUBSET Nat /\ N # {}
  <2>1. ASSUME NEW s \in W PROVE Cardinality(s) \in Nat BY FS_Subset, FS_CardinalityType
  <2> QED BY <2>1
<1>2. PICK m \in N : \A i \in N : m <= i
  <2> HIDE DEF N
  <2> QED BY <1>1, Smallest
<1>3. PICK s \in W : Cardinality(s) = m BY <1>2
<1>4. ASSUME NEW x \in s, s \ {x} \in W PROVE FALSE
  <2>1. Cardinality(s \ {x}) = Cardinality(s) - 1 /\ Cardinality(s) \in Nat BY Less
  <2>2. m <= Cardinality(s \ {x}) BY <1>2, <1>4
  <2> QED BY <1>3, <2>1, <2>2
<1> QED BY <1>3, <1>4

LEMMA SumsAreNumbers ==
    ASSUME NEW c, NEW S, IsFiniteSet(S), \A q \in S : c[q] \in Int, NEW s \in SUBSET S
    PROVE  Sums(c, S)[s] \in Int
<1> DEFINE W == {t \in SUBSET S : Sums(c, S)[t] \notin Int}
<1> SUFFICES ASSUME W # {} PROVE FALSE OBVIOUS
<1>1. PICK t \in W : \A x \in t : t \ {x} \notin W
  <2> HIDE DEF W
  <2>1. W \in SUBSET SUBSET S BY DEF W
  <2> QED BY <2>1, Fewest
<1>2. t \in SUBSET S /\ Sums(c, S)[t] \notin Int BY <1>1
<1>3. t # {} BY <1>2, SumOfNone
<1>4. Pick(t) \in t /\ Sums(c, S)[t] = c[Pick(t)] + Sums(c, S)[t \ {Pick(t)}]
  <2>1. t \in SUBSET S BY <1>2
  <2> HIDE DEF W
  <2> QED BY ONLY <1>3, <2>1, SumOf, IsFiniteSet(S)
<1>5. Sums(c, S)[t \ {Pick(t)}] \in Int BY <1>1, <1>2, <1>4
<1> QED BY <1>2, <1>4, <1>5

\* It does not matter of which larger set they are taken.
LEMMA SumsAgree ==
    ASSUME NEW c, NEW S, IsFiniteSet(S), NEW T \in SUBSET S, NEW s \in SUBSET T
    PROVE  Sums(c, T)[s] = Sums(c, S)[s]
<1> DEFINE W == {t \in SUBSET T : Sums(c, T)[t] # Sums(c, S)[t]}
<1> SUFFICES ASSUME W # {} PROVE FALSE OBVIOUS
<1>0. IsFiniteSet(T) BY FS_Subset
<1>1. PICK t \in W : \A x \in t : t \ {x} \notin W
  <2> HIDE DEF W
  <2>1. W \in SUBSET SUBSET T BY DEF W
  <2> QED BY <1>0, <2>1, Fewest
<1>2. t \in SUBSET T /\ t \in SUBSET S /\ Sums(c, T)[t] # Sums(c, S)[t] BY <1>1
<1>3. t # {} BY <1>0, <1>2, SumOfNone
<1>4. /\ Pick(t) \in t
      /\ Sums(c, T)[t] = c[Pick(t)] + Sums(c, T)[t \ {Pick(t)}]
      /\ Sums(c, S)[t] = c[Pick(t)] + Sums(c, S)[t \ {Pick(t)}]
  <2> HIDE DEF W
  <2>1. t \in SUBSET T /\ t \in SUBSET S BY <1>2
  <2>2. Pick(t) \in t /\ Sums(c, T)[t] = c[Pick(t)] + Sums(c, T)[t \ {Pick(t)}] BY ONLY <1>0, <1>3, <2>1, SumOf
  <2>3. Sums(c, S)[t] = c[Pick(t)] + Sums(c, S)[t \ {Pick(t)}] BY ONLY <1>3, <2>1, SumOf, IsFiniteSet(S)
  <2> QED BY <2>2, <2>3
<1>5. Sums(c, T)[t \ {Pick(t)}] = Sums(c, S)[t \ {Pick(t)}] BY <1>1, <1>2, <1>4
<1> QED BY <1>2, <1>4, <1>5

\* Nor in which order they are added up.
LEMMA SumWithout ==
    ASSUME NEW c, NEW S, IsFiniteSet(S), \A q \in S : c[q] \in Int, NEW s \in SUBSET S, NEW x \in s
    PROVE  Sums(c, S)[s] = c[x] + Sums(c, S)[s \ {x}]
<1> DEFINE Breaks(t) == \E y \in t : Sums(c, S)[t] # c[y] + Sums(c, S)[t \ {y}]
           W == {t \in SUBSET S : Breaks(t)}
<1> SUFFICES ASSUME W # {} PROVE FALSE OBVIOUS
<1>1. PICK t \in W : \A y \in t : t \ {y} \notin W
  <2> HIDE DEF W
  <2>1. W \in SUBSET SUBSET S BY DEF W
  <2> QED BY <2>1, Fewest
<1>2. PICK y \in t : Sums(c, S)[t] # c[y] + Sums(c, S)[t \ {y}] BY <1>1
<1>3. t \in SUBSET S /\ t # {} BY <1>1, <1>2
<1> DEFINE p == Pick(t)
<1>4. p \in t /\ Sums(c, S)[t] = c[p] + Sums(c, S)[t \ {p}]
  <2>1. Pick(t) \in t /\ Sums(c, S)[t] = c[Pick(t)] + Sums(c, S)[t \ {Pick(t)}]
    BY ONLY <1>3, SumOf, IsFiniteSet(S)
  <2> QED BY <2>1
<1> HIDE DEF p
<1>5. p # y BY <1>2, <1>4
<1>6. ~Breaks(t \ {p}) /\ ~Breaks(t \ {y}) BY <1>1, <1>2, <1>3, <1>4
<1>7. Sums(c, S)[t \ {p}] = c[y] + Sums(c, S)[(t \ {p}) \ {y}] BY <1>2, <1>5, <1>6
<1>8. Sums(c, S)[t \ {y}] = c[p] + Sums(c, S)[(t \ {y}) \ {p}] BY <1>4, <1>5, <1>6
<1>9. (t \ {p}) \ {y} = (t \ {y}) \ {p} /\ (t \ {p}) \ {y} \in SUBSET S BY <1>3
<1>10. c[p] \in Int /\ c[y] \in Int /\ Sums(c, S)[(t \ {p}) \ {y}] \in Int
  BY <1>2, <1>3, <1>4, <1>9, SumsAreNumbers
<1> DEFINE u == Sums(c, S)[(t \ {p}) \ {y}]
           d == c[p]
           e == c[y]
<1>11. Sums(c, S)[t] = d + (e + u) /\ Sums(c, S)[t] # e + (d + u) BY <1>2, <1>4, <1>7, <1>8, <1>9
<1>12. d \in Int /\ e \in Int /\ u \in Int BY <1>10
<1> HIDE DEF u, d, e, W
<1> QED BY <1>11, <1>12

LEMMA SumOfAll ==
    ASSUME NEW c, NEW S, IsFiniteSet(S), \A q \in S : c[q] \in Int, NEW x \in S
    PROVE  Sums(c, S)[S] = c[x] + Sums(c, S)[S \ {x}]
<1>1. S \in SUBSET S OBVIOUS
<1> QED BY <1>1, SumWithout

\* One element more.
LEMMA SumAdd ==
    ASSUME NEW c, NEW S, IsFiniteSet(S), NEW x, x \notin S, \A q \in S \cup {x} : c[q] \in Int
    PROVE  /\ SumFunctionOnSet(c, S \cup {x}) = SumFunctionOnSet(c, S) + c[x]
           /\ SumFunctionOnSet(c, S) \in Int
<1> DEFINE A == S \cup {x}
           u == Sums(c, A)[S]
           d == c[x]
<1>1. IsFiniteSet(A) BY FS_AddElement
<1>2. x \in A /\ A \ {x} = S /\ S \in SUBSET A OBVIOUS
<1>3. \A q \in A : c[q] \in Int OBVIOUS
<1>4. SumFunctionOnSet(c, A) = Sums(c, A)[A] /\ SumFunctionOnSet(c, S) = Sums(c, S)[S] BY SumIs DEF Total
<1> HIDE DEF A
<1>5. Sums(c, S)[S] = u BY ONLY <1>1, <1>2, SumsAgree DEF u
<1>6. Sums(c, A)[A] = c[x] + Sums(c, A)[A \ {x}]
  <2>1. x \in A BY <1>2
  <2> QED BY ONLY <1>1, <1>3, <2>1, SumOfAll
<1>7. u \in Int /\ d \in Int BY <1>1, <1>2, <1>3, SumsAreNumbers
<1>8. Sums(c, A)[A] = d + u BY <1>2, <1>6
<1> HIDE DEF u, d
<1>9. SumFunctionOnSet(c, A) = SumFunctionOnSet(c, S) + d /\ SumFunctionOnSet(c, S) \in Int BY <1>4, <1>5, <1>7, <1>8
<1> QED BY <1>9 DEF A, d

\* One index more.
LEMMA SumNext ==
    ASSUME NEW c, NEW k \in Nat \ {0}, \A q \in 1..k : c[q] \in Int
    PROVE  /\ SumFunctionOnSet(c, 1..k) = SumFunctionOnSet(c, 1..(k - 1)) + c[k]
           /\ SumFunctionOnSet(c, 1..(k - 1)) \in Int
<1> DEFINE B == 1..(k - 1)
<1>1. IsFiniteSet(B) BY FS_Interval
<1>2. k \notin B /\ B \cup {k} = 1..k OBVIOUS
<1>3. \A q \in B \cup {k} : c[q] \in Int BY <1>2
<1> HIDE DEF B
<1>4. /\ SumFunctionOnSet(c, B \cup {k}) = SumFunctionOnSet(c, B) + c[k]
      /\ SumFunctionOnSet(c, B) \in Int BY <1>1, <1>2, <1>3, SumAdd
<1> QED BY <1>2, <1>4 DEF B

LEMMA SumIsNumber ==
    ASSUME NEW c, NEW S, IsFiniteSet(S), \A q \in S : c[q] \in Int
    PROVE  SumFunctionOnSet(c, S) \in Int
<1>1. S \in SUBSET S OBVIOUS
<1> QED BY <1>1, SumIs, SumsAreNumbers DEF Total

LEMMA SumOfNothing == ASSUME NEW c PROVE SumFunctionOnSet(c, 1..0) = 0
<1>1. IsFiniteSet({}) BY FS_EmptySet
<1>2. 1..0 = {} OBVIOUS
<1> QED BY <1>1, <1>2, SumIs, SumOfNone DEF Total

-----------------------------------------------------------------------------
(* Balances.                                                               *)

\* The transactions before the one in hand, and the balance of an address that
\* has a row: the debit of the transaction in hand comes before its credit.
Ahead == UpTo(h - 1) \cup FirstOf(h, n - 1)
Tracked(a) ==
    IF pc \in {"tx", "count", "index"} THEN BalanceAfter(a, UpTo(h - 1))
    ELSE IF pc \in {"initFrom", "debit"} THEN BalanceAfter(a, Ahead)
    ELSE IF pc \in {"initTo", "credit"}
         THEN BalanceAfter(a, Ahead) - (IF a = Cur.from THEN Cur.value + Cur.fee ELSE 0)
    ELSE BalanceAfter(a, UpTo(h))

Snapshots == UNION {[S -> [block : Nat, balance : Nat]] : S \in SUBSET Nat}

\* Every address with a row has the balance it should have at this point, and a
\* snapshot that says so; one without has not been touched by the block in hand.
BalancesTracked ==
    /\ balance \in [Addrs -> Nat \cup {None}] /\ history \in [Addrs -> Snapshots]
    /\ h = IF pc = "done" THEN latest ELSE latest + 1
    /\ \A a \in Addrs :
          IF balance[a] = None
          THEN /\ DOMAIN history[a] = {}
               /\ pc \in {"initFrom", "debit", "initTo", "credit"} =>
                     BalanceAfter(a, Ahead) = BalanceAfter(a, UpTo(h - 1))
          ELSE /\ balance[a] = Tracked(a)
               /\ \E q \in DOMAIN history[a] : history[a][q].block <= h
    /\ pc \in {"debit", "initTo", "credit"} => balance[Cur.from] # None
    /\ pc = "credit" => balance[Cur.to] # None

\* While the process lives positions only grow: the last snapshot is the tracked
\* balance, and the past is as it was.
HistoryTracked ==
    \A a \in Addrs :
        /\ \A q \in DOMAIN history[a] : q < addrSeq[a] /\ history[a][q].block <= h
        /\ DOMAIN history[a] # {} =>
              \E q \in DOMAIN history[a] : /\ \A r \in DOMAIN history[a] : r <= q
                                           /\ history[a][q].balance = balance[a]
        /\ \A b \in 1..latest :
              (\E q \in DOMAIN history[a] : history[a][q].block <= b) =>
                  GetAddressBalance(a, b) = BalanceAt(a, b)

BInv == exact => BalancesTracked /\ (restarts = 0 => HistoryTracked)

\* What the transaction in hand brings to an address of a plain chain.
Brings(a) == (IF Cur.to = a THEN Cur.value ELSE 0) - (IF Cur.from = a THEN Cur.value + Cur.fee ELSE 0)

LEMMA BalanceFacts ==
    ASSUME NEW a \in Addrs
    PROVE  /\ \A S \in SUBSET TxIds : IsFiniteSet(S) => BalanceAfter(a, S) \in Int
           /\ \A S \in SUBSET TxIds : \A id \in TxIds :
                 IsFiniteSet(S) /\ id \notin S => BalanceAfter(a, S \cup {id}) = BalanceAfter(a, S) + NetFlow(a)[id]
           /\ BalanceAfter(a, {}) = Genesis[a] /\ Genesis[a] \in Nat
           /\ \A id \in TxIds : NetFlow(a)[id] \in Int
<1>1. Genesis[a] \in Nat BY LedgerAssumption
<1>2. ASSUME NEW id \in TxIds PROVE NetFlow(a)[id] \in Int
  <2>1. PICK b \in Heights : \E m \in 1..Len(Blocks[b]) : id = <<b, m>> BY DEF TxIds
  <2>2. TxOf(id) \in Tx BY <2>1, ChainFacts DEF TxOf
  <2> QED BY <2>2 DEF NetFlow, ReceivedBy, PaidBy, Tx
<1>3. ASSUME NEW S \in SUBSET TxIds, IsFiniteSet(S) PROVE BalanceAfter(a, S) \in Int
  <2>1. SumFunctionOnSet(NetFlow(a), S) \in Int BY <1>2, <1>3, SumIsNumber
  <2> QED BY <1>1, <2>1 DEF BalanceAfter
<1>4. ASSUME NEW S \in SUBSET TxIds, NEW id \in TxIds, IsFiniteSet(S), id \notin S
      PROVE  BalanceAfter(a, S \cup {id}) = BalanceAfter(a, S) + NetFlow(a)[id]
  <2>1. /\ SumFunctionOnSet(NetFlow(a), S \cup {id}) = SumFunctionOnSet(NetFlow(a), S) + NetFlow(a)[id]
        /\ SumFunctionOnSet(NetFlow(a), S) \in Int BY <1>2, <1>4, SumAdd
  <2> QED BY <1>1, <1>2, <2>1 DEF BalanceAfter
<1>5. BalanceAfter(a, {}) = Genesis[a]
  <2>1. 1..0 = {} OBVIOUS
  <2>2. SumFunctionOnSet(NetFlow(a), {}) = 0 BY <2>1, SumOfNothing
  <2> QED BY <1>1, <2>2 DEF BalanceAfter
<1> QED BY <1>1, <1>2, <1>3, <1>4, <1>5

LEMMA InTheChain ==
    ASSUME NEW b \in 0..Len(Blocks)
    PROVE  UpTo(b) \in SUBSET TxIds /\ IsFiniteSet(UpTo(b))
<1>1. UpTo(b) \in SUBSET TxIds
  <2>1. \A x \in 1..b : x \in Heights BY ChainFacts
  <2> QED BY <2>1 DEF UpTo, Ids, TxIds
<1> QED BY <1>1, Finitely, ChainFacts

LEMMA InHandFacts ==
    ASSUME Types, PlainTransfers
    PROVE  /\ Cur.from \in Addrs /\ Cur.to \in Addrs /\ Cur.value \in Nat /\ Cur.fee \in Nat
           /\ Ahead \in SUBSET TxIds /\ IsFiniteSet(Ahead)
           /\ Cur.value + Cur.fee <= BalanceAfter(Cur.from, Ahead)
           /\ \A a \in Addrs : BalanceAfter(a, UpTo(h - 1) \cup FirstOf(h, n)) = BalanceAfter(a, Ahead) + Brings(a)
<1> DEFINE id == <<h, n>>
<1>1. h \in Heights /\ h \in Nat \ {0} /\ h <= Len(Blocks) /\ n \in 1..Len(Blocks[h]) /\ n \in Nat \ {0}
  BY ChainFacts DEF Types
<1>2. id \in TxIds /\ TxOf(id) = Cur /\ Cur \in Tx BY <1>1, ChainFacts DEF TxIds, TxOf, Cur
<1>3. Cur.from \in Addrs /\ Cur.to \in Addrs /\ Cur.value \in Nat /\ Cur.fee \in Nat BY <1>2 DEF Tx
<1>4. Ahead \in SUBSET TxIds /\ IsFiniteSet(Ahead)
  <2>1. h - 1 \in 0..Len(Blocks) BY <1>1, ChainFacts
  <2>2. FirstOf(h, n - 1) \in SUBSET TxIds
    <3>1. \A x \in 1..n - 1 : x \in 1..Len(Blocks[h]) BY <1>1, ChainFacts
    <3> QED BY <1>1, <3>1 DEF FirstOf, TxIds
  <2>3. IsFiniteSet(FirstOf(h, n - 1)) BY <1>1, Finitely
  <2> QED BY <2>1, <2>2, <2>3, InTheChain, FS_Union DEF Ahead
<1>5. Earlier(id) = Ahead
  <2>1. id[1] = h /\ id[2] = n OBVIOUS
  <2> HIDE DEF id
  <2> QED BY <2>1 DEF Earlier, Ahead, UpTo, FirstOf
<1>6. Cur.ok /\ Cur.payer = Cur.from /\ Cur.value + Cur.fee <= BalanceAfter(Cur.from, Ahead)
  BY <1>2, <1>5 DEF PlainTransfers
<1>7. id \notin Ahead /\ Ahead \cup {id} = UpTo(h - 1) \cup FirstOf(h, n) BY <1>1, Growth DEF Ahead
<1>8. ASSUME NEW a \in Addrs PROVE NetFlow(a)[id] = Brings(a)
  <2>1. NetFlow(a)[id] = ReceivedBy(Cur, a) - PaidBy(Cur, a) BY <1>2 DEF NetFlow
  <2>2. ReceivedBy(Cur, a) = IF Cur.to = a THEN Cur.value ELSE 0 BY <1>6 DEF ReceivedBy
  <2>3. PaidBy(Cur, a) = IF Cur.from = a THEN Cur.value + Cur.fee ELSE 0 BY <1>3, <1>6 DEF PaidBy
  <2> QED BY <2>1, <2>2, <2>3 DEF Brings
<1> HIDE DEF id
<1>9. ASSUME NEW a \in Addrs
      PROVE  BalanceAfter(a, UpTo(h - 1) \cup FirstOf(h, n)) = BalanceAfter(a, Ahead) + Brings(a)
  <2>1. BalanceAfter(a, Ahead \cup {id}) = BalanceAfter(a, Ahead) + NetFlow(a)[id]
    BY <1>2, <1>4, <1>7, BalanceFacts
  <2> QED BY <1>7, <1>8, <2>1
<1> QED BY <1>3, <1>4, <1>6, <1>9

\* The transaction in hand is done with.
LEMMA Advance ==
    ASSUME Types, PlainTransfers, pc' = NextBalance, n' = IF AtLast THEN 1 ELSE n + 1, h' = h
    PROVE  /\ pc' \in {"initFrom", "fee"}
           /\ \A a \in Addrs : Tracked(a)' = BalanceAfter(a, Ahead) + Brings(a)
           /\ pc' = "initFrom" => \A a \in Addrs : BalanceAfter(a, Ahead') = BalanceAfter(a, Ahead) + Brings(a)
<1>1. h \in Heights /\ n \in 1..Len(Blocks[h]) /\ n \in Nat \ {0} BY ChainFacts DEF Types
<1>2. CASE AtLast
  <2>1. pc' = "fee" /\ UpTo(h) = UpTo(h - 1) \cup FirstOf(h, n) BY <1>1, <1>2, Growth DEF NextBalance, AtLast
  <2>2. \A a \in Addrs : Tracked(a)' = BalanceAfter(a, UpTo(h))
    BY <2>1 DEF Tracked, BalanceAfter, NetFlow, UpTo
  <2> QED BY <2>1, <2>2, InHandFacts
<1>3. CASE ~AtLast
  <2>1. pc' = "initFrom" /\ n' - 1 = n BY <1>1, <1>3 DEF NextBalance
  <2>2. Ahead' = UpTo(h - 1) \cup FirstOf(h, n) BY <2>1 DEF Ahead, UpTo, FirstOf
  <2>3. \A a \in Addrs : Tracked(a)' = BalanceAfter(a, Ahead')
    BY <2>1 DEF Tracked, BalanceAfter, NetFlow
  <2> QED BY <2>1, <2>2, <2>3, InHandFacts
<1> QED BY <1>2, <1>3

\* A snapshot of address a is appended and its balance is v.
Appends(a, v) ==
    /\ balance' = [balance EXCEPT ![a] = v]
    /\ history' = [history EXCEPT ![a] = Extend(@, addrSeq[a], [block |-> h, balance |-> v])]
    /\ addrSeq' = [addrSeq EXCEPT ![a] = @ + 1]

LEMMA UpdateAppends ==
    ASSUME NEW a, NEW delta, UpdateBalance(a, delta), LatestBalance(a) + delta >= 0,
           NEW v, v = LatestBalance(a) + delta
    PROVE  Appends(a, v)
  BY DEF UpdateBalance, Appends

LEMMA AppendFacts ==
    ASSUME BalancesTracked, Types, NEW a \in Addrs, NEW v \in Nat, Appends(a, v)
    PROVE  /\ balance' \in [Addrs -> Nat \cup {None}] /\ history' \in [Addrs -> Snapshots]
           /\ balance'[a] = v /\ \A x \in Addrs : x # a => balance'[x] = balance[x] /\ history'[x] = history[x]
           /\ DOMAIN history[a] \subseteq Nat
           /\ DOMAIN history'[a] = DOMAIN history[a] \cup {addrSeq[a]}
           /\ history'[a][addrSeq[a]].block = h /\ history'[a][addrSeq[a]].balance = v
           /\ \A q \in DOMAIN history[a] : q # addrSeq[a] => history'[a][q] = history[a][q]
<1>1. /\ balance \in [Addrs -> Nat \cup {None}] /\ history \in [Addrs -> Snapshots] BY DEF BalancesTracked
<1>2. addrSeq \in [Addrs -> Nat] /\ h \in Nat BY ChainFacts DEF Types
<1> DEFINE new == [block |-> h, balance |-> v]
           f == history[a]
<1>3. PICK S \in SUBSET Nat : f \in [S -> [block : Nat, balance : Nat]] BY <1>1 DEF Snapshots
<1>4. PICK g : g = Extend(f, addrSeq[a], new) OBVIOUS
<1>5. history' = [history EXCEPT ![a] = g] BY <1>4 DEF Appends
<1>6. history'[a] = g /\ \A x \in Addrs : x # a => history'[x] = history[x] BY <1>1, <1>5
<1>7. addrSeq[a] \in Nat /\ new \in [block : Nat, balance : Nat] /\ new.block = h /\ new.balance = v BY <1>2
<1> HIDE DEF new, f
<1>8. /\ DOMAIN f = S /\ DOMAIN g = S \cup {addrSeq[a]} /\ g[addrSeq[a]] = new
      /\ \A q \in S : q # addrSeq[a] => g[q] = f[q]
      /\ g \in [S \cup {addrSeq[a]} -> [block : Nat, balance : Nat]]
  BY <1>3, <1>4, <1>7 DEF Extend
<1>9. g \in Snapshots BY <1>7, <1>8 DEF Snapshots
<1>10. history' \in [Addrs -> Snapshots] BY <1>1, <1>5, <1>9
<1>11. balance' \in [Addrs -> Nat \cup {None}] /\ balance'[a] = v /\ \A x \in Addrs : x # a => balance'[x] = balance[x]
  BY <1>1 DEF Appends
<1>12. history[a] = f BY DEF f
<1> QED BY <1>6, <1>7, <1>8, <1>10, <1>11, <1>12

LEMMA HistoryAppends ==
    ASSUME BalancesTracked, HistoryTracked, Types, NEW a \in Addrs, NEW v \in Nat, Appends(a, v),
           pc # "done", UNCHANGED <<h, latest>>
    PROVE  HistoryTracked'
<1>0. addrSeq \in [Addrs -> Nat] /\ h \in Nat /\ latest \in Nat /\ h = latest + 1 BY ChainFacts DEF Types, BalancesTracked
<1>1. /\ \A x \in Addrs : x # a => balance'[x] = balance[x] /\ history'[x] = history[x]
      /\ DOMAIN history[a] \subseteq Nat
      /\ DOMAIN history'[a] = DOMAIN history[a] \cup {addrSeq[a]}
      /\ history'[a][addrSeq[a]].block = h /\ history'[a][addrSeq[a]].balance = v /\ balance'[a] = v
      /\ \A q \in DOMAIN history[a] : q # addrSeq[a] => history'[a][q] = history[a][q]
  BY AppendFacts
<1>2. addrSeq' = [addrSeq EXCEPT ![a] = @ + 1] BY DEF Appends
<1>3. ASSUME NEW x \in Addrs, x # a
      PROVE  /\ history'[x] = history[x] /\ balance'[x] = balance[x] /\ addrSeq'[x] = addrSeq[x]
             /\ \A b : GetAddressBalance(x, b)' = GetAddressBalance(x, b)
  BY <1>0, <1>1, <1>2, <1>3 DEF GetAddressBalance, SnapshotsUpTo
<1>4. \A q \in DOMAIN history[a] : q < addrSeq[a] /\ history[a][q].block <= h /\ history'[a][q] = history[a][q]
  BY <1>0, <1>1 DEF HistoryTracked
<1>5. addrSeq[a] \in Nat /\ addrSeq'[a] = addrSeq[a] + 1 /\ addrSeq[a] \notin DOMAIN history[a] BY <1>0, <1>1, <1>2, <1>4
<1>6. ASSUME NEW b \in 1..latest
      PROVE  /\ (\E q \in DOMAIN history'[a] : history'[a][q].block <= b)
               <=> \E q \in DOMAIN history[a] : history[a][q].block <= b
             /\ GetAddressBalance(a, b)' = GetAddressBalance(a, b)
  <2>1. b \in Nat /\ ~(h <= b) BY <1>0
  <2>2. (\E q \in DOMAIN history'[a] : history'[a][q].block <= b) <=> \E q \in DOMAIN history[a] : history[a][q].block <= b
    BY <1>1, <1>4, <2>1
  <2> DEFINE B == SnapshotsUpTo(a, b)
  <2>3. SnapshotsUpTo(a, b)' = B
    <3>1. \A p : p \in SnapshotsUpTo(a, b)' <=> /\ p \in DOMAIN history'[a]
                                                /\ \A q \in DOMAIN history'[a] : q <= p => history'[a][q].block <= b
      BY DEF SnapshotsUpTo
    <3>2. \A p : p \in B <=> /\ p \in DOMAIN history[a]
                             /\ \A q \in DOMAIN history[a] : q <= p => history[a][q].block <= b
      BY DEF SnapshotsUpTo
    <3>3. addrSeq[a] \notin SnapshotsUpTo(a, b)' BY <1>1, <1>5, <2>1, <3>1
    <3>4. ASSUME NEW p \in DOMAIN history[a] PROVE p \in SnapshotsUpTo(a, b)' <=> p \in B
      <4>1. ~(addrSeq[a] <= p) BY <1>1, <1>4, <1>5
      <4> QED BY <1>1, <1>4, <3>1, <3>2, <4>1
    <3> HIDE DEF B
    <3> QED BY <1>1, <3>1, <3>2, <3>3, <3>4, SMTT(30)
  <2>4. ASSUME B # {} PROVE Max(B) \in DOMAIN history[a]
    <3>1. B \in SUBSET Nat /\ \A i \in B : i <= addrSeq[a] /\ i \in DOMAIN history[a] BY <1>1, <1>4, <1>5 DEF SnapshotsUpTo
    <3> HIDE DEF B
    <3>2. Max(B) \in B BY <1>5, <2>4, <3>1, MaxIs
    <3> QED BY <3>1, <3>2
  <2>5. GetAddressBalance(a, b) = IF B = {} THEN 0 ELSE history[a][Max(B)].balance BY DEF GetAddressBalance
  <2>6. GetAddressBalance(a, b)' = IF B = {} THEN 0 ELSE history'[a][Max(B)].balance BY <2>3 DEF GetAddressBalance
  <2> HIDE DEF B
  <2> QED BY <1>4, <2>2, <2>4, <2>5, <2>6
<1>7. ASSUME NEW x \in Addrs, NEW b PROVE BalanceAt(x, b)' = BalanceAt(x, b) BY DEF BalanceAt, BalanceAfter, NetFlow
<1>8. ASSUME NEW x \in Addrs, x # a
      PROVE  /\ \A q \in DOMAIN history'[x] : q < addrSeq'[x] /\ history'[x][q].block <= h'
             /\ DOMAIN history'[x] # {} =>
                   \E q \in DOMAIN history'[x] : (\A r \in DOMAIN history'[x] : r <= q)
                      /\ history'[x][q].balance = balance'[x]
             /\ \A b \in 1..latest' :
                   (\E q \in DOMAIN history'[x] : history'[x][q].block <= b) => GetAddressBalance(x, b)' = BalanceAt(x, b)'
  BY <1>3, <1>7, <1>8 DEF HistoryTracked
<1>9. /\ \A q \in DOMAIN history'[a] : q < addrSeq'[a] /\ history'[a][q].block <= h'
      /\ \E q \in DOMAIN history'[a] : (\A r \in DOMAIN history'[a] : r <= q) /\ history'[a][q].balance = balance'[a]
  <2>1. \A q \in DOMAIN history'[a] : q \in Nat /\ q <= addrSeq[a] BY <1>1, <1>4, <1>5
  <2>2. \A q \in DOMAIN history'[a] : q < addrSeq'[a] BY <1>5, <2>1
  <2>3. \A q \in DOMAIN history'[a] : history'[a][q].block <= h' BY <1>0, <1>1, <1>4
  <2> QED BY <1>1, <2>1, <2>2, <2>3
<1>10. \A b \in 1..latest' :
          (\E q \in DOMAIN history'[a] : history'[a][q].block <= b) => GetAddressBalance(a, b)' = BalanceAt(a, b)'
  BY <1>6, <1>7 DEF HistoryTracked
<1> QED BY <1>8, <1>9, <1>10 DEF HistoryTracked

\* Nothing is appended.
LEMMA HistoryStays ==
    ASSUME HistoryTracked, UNCHANGED <<history, balance, latest, h>>, Types,
           addrSeq' \in [Addrs -> Nat], \A a \in Addrs : addrSeq[a] <= addrSeq'[a], BalancesTracked
    PROVE  HistoryTracked'
<1>1. \A x, b : GetAddressBalance(x, b)' = GetAddressBalance(x, b) /\ BalanceAt(x, b)' = BalanceAt(x, b)
  BY DEF GetAddressBalance, SnapshotsUpTo, BalanceAt, BalanceAfter, NetFlow
<1>2. ASSUME NEW x \in Addrs, NEW q \in DOMAIN history[x] PROVE q < addrSeq'[x]
  <2>1. history[x] \in Snapshots BY DEF BalancesTracked
  <2>2. q \in Nat BY <2>1 DEF Snapshots
  <2>3. addrSeq[x] \in Nat /\ addrSeq'[x] \in Nat /\ addrSeq[x] <= addrSeq'[x] /\ q < addrSeq[x] BY DEF Types, HistoryTracked
  <2> QED BY <2>2, <2>3
<1> QED BY <1>1, <1>2 DEF HistoryTracked

LEMMA BalancesBegin == ASSUME Init PROVE BInv
<1>1. /\ pc = "tx" /\ h = 1 /\ latest = 0 /\ restarts = 0
      /\ balance = [a \in Addrs |-> None] /\ history = [a \in Addrs |-> Empty]
  BY DEF Init
<1>2. Empty \in Snapshots /\ DOMAIN Empty = {}
  <2>1. Empty \in [{} -> [block : Nat, balance : Nat]] BY DEF Empty
  <2> QED BY <2>1 DEF Snapshots
<1>3. BalancesTracked BY <1>1, <1>2 DEF BalancesTracked
<1>4. HistoryTracked BY <1>1, <1>2 DEF HistoryTracked
<1> QED BY <1>3, <1>4 DEF BInv

\* The chain does not move.
LEMMA ChainStays == \A x, S : BalanceAfter(x, S)' = BalanceAfter(x, S')
  BY DEF BalanceAfter, NetFlow

\* Steps that leave the balances alone, within a block.
LEMMA BalancesStay ==
    ASSUME BalancesTracked, UNCHANGED <<history, balance, latest, h>>, pc # "done", pc' # "done",
           \A a \in Addrs : Tracked(a)' = Tracked(a),
           pc' \in {"initFrom", "debit", "initTo", "credit"} =>
               \A a \in Addrs : balance[a] = None => BalanceAfter(a, Ahead') = BalanceAfter(a, UpTo(h - 1)),
           pc' \in {"debit", "initTo", "credit"} => balance'[Cur'.from] # None,
           pc' = "credit" => balance'[Cur'.to] # None
    PROVE  BalancesTracked'
<1>1. \A a : BalanceAfter(a, Ahead)' = BalanceAfter(a, Ahead') /\
          BalanceAfter(a, UpTo(h - 1))' = BalanceAfter(a, UpTo(h - 1))
  BY ChainStays DEF UpTo, BalanceAfter, NetFlow
<1> QED BY <1>1 DEF BalancesTracked

LEMMA QuietBalances ==
    ASSUME LInv, BInv, exact,
           \/ SetTransactionRow \/ CountTransaction \/ ProcessAddressIndexing \/ ProcessFeeDelegationMetadata
    PROVE  BInv'
<1>0. Types /\ Position /\ BalancesTracked BY DEF LInv, BInv
<1>a. addrSeq \in [Addrs -> Nat] /\ h \in Heights /\ n \in 1..Len(Blocks[h]) BY <1>0 DEF Types
<1>1. UNCHANGED <<history, balance, latest, h, restarts>>
  BY DEF SetTransactionRow, CountTransaction, ProcessAddressIndexing, ProcessFeeDelegationMetadata, balances, faults
<1>2. addrSeq' \in [Addrs -> Nat] /\ \A a \in Addrs : addrSeq[a] <= addrSeq'[a]
  <2>1. CASE ProcessAddressIndexing
    <3>1. PICK x : addrSeq' = [addrSeq EXCEPT ![x] = @ + 1]
      BY <2>1 DEF ProcessAddressIndexing, AddTransactionToAddressIndex
    <3>2. \A y \in Addrs : addrSeq[y] \in Nat /\ addrSeq[y] + 1 \in Nat BY <1>a
    <3>3. addrSeq' \in [Addrs -> Nat] /\ \A y \in Addrs : addrSeq'[y] = IF y = x THEN addrSeq[y] + 1 ELSE addrSeq[y]
      BY <1>a, <3>1, <3>2
    <3> QED BY <3>2, <3>3
  <2>2. CASE UNCHANGED addrSeq BY <1>a, <2>2
  <2> QED BY <2>1, <2>2 DEF SetTransactionRow, CountTransaction, ProcessFeeDelegationMetadata, index
<1>3. \/ pc \in {"tx", "count", "index"} /\ pc' \in {"tx", "count", "index"}
      \/ pc = "index" /\ pc' = "initFrom" /\ n' = 1
      \/ pc = "fee" /\ pc' = "latest"
  BY DEF SetTransactionRow, CountTransaction, ProcessAddressIndexing, ProcessFeeDelegationMetadata, AtLast
<1>4. BalancesTracked'
  <2>1. CASE pc \in {"tx", "count", "index"} /\ pc' \in {"tx", "count", "index"}
    <3>1. \A x \in Addrs : Tracked(x)' = Tracked(x) BY <1>1, <2>1 DEF Tracked, BalanceAfter, NetFlow, UpTo
    <3> QED BY <1>0, <1>1, <2>1, <3>1, BalancesStay
  <2>2. CASE pc = "index" /\ pc' = "initFrom" /\ n' = 1
    <3>1. Ahead' = UpTo(h - 1)
      <4>1. FirstOf(h, 0) = {} /\ n' - 1 = 0 BY <2>2, Growth
      <4>2. FirstOf(h', n' - 1) = FirstOf(h, 0) /\ UpTo(h' - 1) = UpTo(h - 1) BY <1>1, <4>1
      <4>3. Ahead' = UpTo(h' - 1) \cup FirstOf(h', n' - 1) BY DEF Ahead, UpTo, FirstOf
      <4> QED BY <4>1, <4>2, <4>3
    <3>2. ASSUME NEW x \in Addrs PROVE Tracked(x)' = Tracked(x)
      <4>1. Tracked(x)' = BalanceAfter(x, Ahead') BY <2>2 DEF Tracked, BalanceAfter, NetFlow
      <4>2. Tracked(x) = BalanceAfter(x, UpTo(h - 1)) BY <2>2 DEF Tracked
      <4> QED BY <3>1, <4>1, <4>2
    <3> QED BY <1>0, <1>1, <2>2, <3>1, <3>2, BalancesStay
  <2>3. CASE pc = "fee" /\ pc' = "latest"
    <3>1. \A x \in Addrs : Tracked(x)' = Tracked(x) BY <1>1, <2>3 DEF Tracked, BalanceAfter, NetFlow, UpTo
    <3> QED BY <1>0, <1>1, <2>3, <3>1, BalancesStay
  <2> QED BY <1>3, <2>1, <2>2, <2>3
<1>5. restarts' = 0 => HistoryTracked' BY <1>0, <1>1, <1>2, HistoryStays DEF BInv
<1> QED BY <1>4, <1>5 DEF BInv

\* A balance is written within a block.
LEMMA BalancesWritten ==
    ASSUME LInv, BInv, exact, NEW a \in Addrs, NEW v \in Nat, Appends(a, v),
           pc # "done", pc' # "done", UNCHANGED <<h, latest, restarts>>,
           v = Tracked(a)', \A x \in Addrs : x # a /\ balance[x] # None => Tracked(x)' = Tracked(x),
           pc' \in {"initFrom", "debit", "initTo", "credit"} =>
               \A x \in Addrs : x # a /\ balance[x] = None => BalanceAfter(x, Ahead') = BalanceAfter(x, UpTo(h - 1)),
           pc' \in {"debit", "initTo", "credit"} => Cur'.from \in Addrs /\ (Cur'.from = a \/ balance[Cur'.from] # None),
           pc' = "credit" => Cur'.to \in Addrs /\ (Cur'.to = a \/ balance[Cur'.to] # None)
    PROVE  BInv'
<1>0. Types /\ BalancesTracked BY DEF LInv, BInv
<1>1. /\ balance' \in [Addrs -> Nat \cup {None}] /\ history' \in [Addrs -> Snapshots]
      /\ balance'[a] = v /\ \A x \in Addrs : x # a => balance'[x] = balance[x] /\ history'[x] = history[x]
      /\ DOMAIN history'[a] = DOMAIN history[a] \cup {addrSeq[a]}
      /\ history'[a][addrSeq[a]].block = h
  BY <1>0, AppendFacts
<1>2. h \in Nat /\ v # None BY <1>0, ChainFacts DEF Types, None
<1>3. BalanceAfter(a, UpTo(h - 1))' = BalanceAfter(a, UpTo(h - 1)) /\ BalanceAfter(a, Ahead)' = BalanceAfter(a, Ahead')
  BY ChainStays DEF UpTo, BalanceAfter, NetFlow
<1>4. ASSUME NEW x \in Addrs, x # a
      PROVE  IF balance'[x] = None
             THEN /\ DOMAIN history'[x] = {}
                  /\ pc' \in {"initFrom", "debit", "initTo", "credit"} =>
                       BalanceAfter(x, Ahead)' = BalanceAfter(x, UpTo(h - 1))'
             ELSE balance'[x] = Tracked(x)' /\ \E q \in DOMAIN history'[x] : history'[x][q].block <= h'
  <2>1. balance'[x] = balance[x] /\ history'[x] = history[x] BY <1>1, <1>4
  <2>2. BalanceAfter(x, UpTo(h - 1))' = BalanceAfter(x, UpTo(h - 1)) /\ BalanceAfter(x, Ahead)' = BalanceAfter(x, Ahead')
    BY ChainStays DEF UpTo, BalanceAfter, NetFlow
  <2> QED BY <1>0, <1>4, <2>1, <2>2 DEF BalancesTracked
<1>5. balance'[a] # None /\ balance'[a] = Tracked(a)' /\ \E q \in DOMAIN history'[a] : history'[a][q].block <= h'
  BY <1>1, <1>2
<1>6. BalancesTracked'
  <2>1. h' = IF pc' = "done" THEN latest' ELSE latest' + 1 BY <1>0 DEF BalancesTracked
  <2>2. pc' \in {"debit", "initTo", "credit"} => balance'[Cur'.from] # None BY <1>1, <1>5
  <2>3. pc' = "credit" => balance'[Cur'.to] # None BY <1>1, <1>5
  <2> QED BY <1>1, <1>4, <1>5, <2>1, <2>2, <2>3 DEF BalancesTracked
<1>7. restarts' = 0 => HistoryTracked' BY <1>0, HistoryAppends DEF BInv
<1> QED BY <1>6, <1>7 DEF BInv

\* An address that has a row is initialised, one that has none is not.
LEMMA InitializedIs ==
    ASSUME BalancesTracked, NEW a \in Addrs
    PROVE  Initialized(a) <=> balance[a] # None
<1>1. CASE balance[a] = None
  <2>1. DOMAIN history[a] = {} BY <1>1 DEF BalancesTracked
  <2> QED BY <1>1, <2>1 DEF Initialized, LatestBalance
<1>2. CASE balance[a] # None BY <1>2 DEF Initialized, BalancesTracked
<1> QED BY <1>1, <1>2

LEMMA EnsureKeeps ==
    ASSUME PlainTransfers, LInv, BInv, exact', NEW a \in Addrs,
           \/ EnsureInitialized("initFrom", a, "debit") /\ a = Cur.from
           \/ EnsureInitialized("initTo", a, "credit") /\ a = Cur.to
    PROVE  BInv'
<1>0. /\ UNCHANGED <<h, n, latest, restarts>> /\ exact
      /\ \/ Initialized(a) /\ UNCHANGED <<addrSeq, history, balance>>
         \/ ~Initialized(a) /\ UpdateBalance(a, InitialBalance(a) - LatestBalance(a))
      /\ \/ pc = "initFrom" /\ pc' = "debit" /\ a = Cur.from
         \/ pc = "initTo" /\ pc' = "credit" /\ a = Cur.to
  BY DEF EnsureInitialized, balances, faults
<1>1. Types /\ BalancesTracked BY <1>0 DEF LInv, BInv
<1>2. Cur' = Cur /\ Ahead' = Ahead BY <1>0 DEF Cur, Ahead, UpTo, FirstOf
<1>3. \A x \in Addrs : Tracked(x)' = Tracked(x) BY <1>0, <1>2 DEF Tracked, BalanceAfter, NetFlow
<1>4. \A x \in Addrs : balance[x] = None => BalanceAfter(x, Ahead') = BalanceAfter(x, UpTo(h - 1))
  BY <1>0, <1>1, <1>2 DEF BalancesTracked
<1>5. pc' = "credit" => balance[Cur.from] # None BY <1>0, <1>1 DEF BalancesTracked
<1>6. Cur.from \in Addrs /\ Cur.to \in Addrs BY <1>1, InHandFacts
<1>7. CASE Initialized(a)
  <2>1. balance[a] # None /\ UNCHANGED <<addrSeq, history, balance>> BY <1>0, <1>1, <1>7, InitializedIs
  <2>2. BalancesTracked' BY <1>0, <1>1, <1>2, <1>3, <1>4, <1>5, <2>1, BalancesStay
  <2>3. addrSeq \in [Addrs -> Nat] BY <1>1 DEF Types
  <2>4. restarts' = 0 => HistoryTracked' BY <1>0, <1>1, <2>1, <2>3, HistoryStays DEF BInv
  <2> QED BY <2>2, <2>4 DEF BInv
<1>8. CASE ~Initialized(a)
  <2>1. balance[a] = None /\ LatestBalance(a) = 0 BY <1>1, <1>8, InitializedIs DEF LatestBalance
  <2>2. PICK v : v = BalanceAfter(a, UpTo(h - 1)) OBVIOUS
  <2>3. InitialBalance(a) = v BY <2>2 DEF InitialBalance, BalanceAt, UpTo
  <2>4. v \in Nat
    <3>1. h \in Nat \ {0} /\ h <= Len(Blocks) /\ Len(Blocks) \in Nat BY <1>1, ChainFacts DEF Types
    <3>2. v \in Int
      <4>1. h - 1 \in 0..Len(Blocks) BY <3>1
      <4> QED BY <2>2, <4>1, InTheChain, BalanceFacts
    <3>3. CASE h = 1
      <4>1. UpTo(h - 1) = {} BY <3>3 DEF UpTo
      <4> QED BY <2>2, <4>1, BalanceFacts
    <3>4. CASE h # 1
      <4>1. h - 1 \in Heights BY <3>1, <3>4, ChainFacts
      <4>2. BalanceAt(a, h - 1) >= 0 BY <4>1, LedgerAssumption
      <4>3. v >= 0 BY <2>3, <4>2 DEF InitialBalance
      <4> QED BY <3>2, <4>3
    <3> QED BY <3>3, <3>4
  <2>5. Appends(a, v)
    <3>1. UpdateBalance(a, InitialBalance(a) - LatestBalance(a)) BY <1>0, <1>8
    <3>2. InitialBalance(a) - LatestBalance(a) = v BY <2>1, <2>3, <2>4
    <3>3. UpdateBalance(a, v) BY <3>1, <3>2
    <3>4. LatestBalance(a) + v >= 0 /\ v = LatestBalance(a) + v BY <2>1, <2>4
    <3> QED BY <3>3, <3>4, UpdateAppends
  <2>6. v = Tracked(a)'
    <3>1. v = BalanceAfter(a, Ahead) BY <1>2, <1>4, <2>1, <2>2
    <3>2. pc = "initTo" => a # Cur.from BY <1>1, <2>1 DEF BalancesTracked
    <3>3. Tracked(a) = BalanceAfter(a, Ahead)
      <4>1. CASE pc = "initFrom" BY <4>1 DEF Tracked
      <4>2. CASE pc = "initTo"
        <5>1. Tracked(a) = BalanceAfter(a, Ahead) - 0 BY <3>2, <4>2 DEF Tracked
        <5> QED BY <2>4, <3>1, <5>1
      <4> QED BY <1>0, <4>1, <4>2
    <3> QED BY <1>3, <3>1, <3>3
  <2> QED BY <1>0, <1>2, <1>3, <1>4, <1>5, <1>6, <2>4, <2>5, <2>6, BalancesWritten
<1> QED BY <1>7, <1>8

LEMMA DebitKeeps == ASSUME PlainTransfers, LInv, BInv, exact', DebitSender PROVE BInv'
<1>0. /\ pc = "debit" /\ UpdateBalance(Cur.from, 0 - (Cur.value + Cur.fee)) /\ exact
      /\ IF Cur.value > 0 THEN pc' = "initTo" /\ n' = n ELSE pc' = NextBalance /\ n' = IF AtLast THEN 1 ELSE n + 1
      /\ UNCHANGED <<h, latest, restarts>>
  BY DEF DebitSender, faults
<1>1. Types /\ BalancesTracked BY <1>0 DEF LInv, BInv
<1>2. PICK a : a = Cur.from OBVIOUS
<1>3. /\ a \in Addrs /\ Cur.to \in Addrs /\ Cur.value \in Nat /\ Cur.fee \in Nat
      /\ Ahead \in SUBSET TxIds /\ IsFiniteSet(Ahead)
      /\ Cur.value + Cur.fee <= BalanceAfter(a, Ahead)
  BY <1>1, <1>2, InHandFacts
<1>4. balance[a] # None /\ balance[a] = BalanceAfter(a, Ahead) /\ BalanceAfter(a, Ahead) \in Nat
  BY <1>0, <1>1, <1>2, <1>3 DEF BalancesTracked, Tracked
<1>5. \A x \in Addrs : BalanceAfter(x, Ahead) \in Int BY <1>3, BalanceFacts
<1>6. PICK v : v = BalanceAfter(a, Ahead) - (Cur.value + Cur.fee) OBVIOUS
<1>7. v \in Nat BY <1>3, <1>4, <1>6
<1>8. Appends(a, v)
  <2>1. LatestBalance(a) = BalanceAfter(a, Ahead) BY <1>4 DEF LatestBalance
  <2>2. LatestBalance(a) + (0 - (Cur.value + Cur.fee)) = v BY <1>3, <1>4, <1>6, <2>1
  <2>3. v >= 0 BY <1>7
  <2>4. UpdateBalance(a, 0 - (Cur.value + Cur.fee)) BY <1>0, <1>2
  <2> QED BY <2>2, <2>3, <2>4, UpdateAppends
<1>9. \A x \in Addrs : Tracked(x) = BalanceAfter(x, Ahead) BY <1>0 DEF Tracked
<1>10. CASE Cur.value > 0
  <2>1. pc' = "initTo" /\ Cur' = Cur /\ Ahead' = Ahead BY <1>0, <1>10 DEF Cur, Ahead, UpTo, FirstOf
  <2>2. ASSUME NEW x \in Addrs
        PROVE  Tracked(x)' = BalanceAfter(x, Ahead) - (IF x = Cur.from THEN Cur.value + Cur.fee ELSE 0)
    BY <2>1 DEF Tracked, BalanceAfter, NetFlow
  <2>3. v = Tracked(a)' /\ \A x \in Addrs : x # a => Tracked(x)' = Tracked(x) BY <1>2, <1>3, <1>5, <1>6, <1>9, <2>2
  <2>4. \A x \in Addrs : balance[x] = None => BalanceAfter(x, Ahead') = BalanceAfter(x, UpTo(h - 1))
    BY <1>0, <1>1, <2>1 DEF BalancesTracked
  <2> QED BY <1>0, <1>2, <1>3, <1>7, <1>8, <2>1, <2>3, <2>4, BalancesWritten
<1>11. CASE ~(Cur.value > 0)
  <2>1. Cur.value = 0 BY <1>3, <1>11
  <2>2. /\ pc' \in {"initFrom", "fee"}
        /\ \A x \in Addrs : Tracked(x)' = BalanceAfter(x, Ahead) + Brings(x)
        /\ pc' = "initFrom" => \A x \in Addrs : BalanceAfter(x, Ahead') = BalanceAfter(x, Ahead) + Brings(x)
    BY <1>0, <1>1, <1>11, Advance
  <2>3. ASSUME NEW x \in Addrs PROVE Brings(x) = IF x = a THEN 0 - (Cur.value + Cur.fee) ELSE 0
    BY <1>2, <1>3, <2>1 DEF Brings
  <2>4. v = Tracked(a)' /\ \A x \in Addrs : x # a => Tracked(x)' = Tracked(x) BY <1>3, <1>5, <1>6, <1>9, <2>2, <2>3
  <2>5. pc' = "initFrom" => \A x \in Addrs : x # a /\ balance[x] = None =>
           BalanceAfter(x, Ahead') = BalanceAfter(x, UpTo(h - 1))
    <3>1. \A x \in Addrs : balance[x] = None => BalanceAfter(x, Ahead) = BalanceAfter(x, UpTo(h - 1))
      BY <1>0, <1>1 DEF BalancesTracked
    <3> QED BY <1>5, <2>2, <2>3, <3>1
  <2> QED BY <1>0, <1>3, <1>7, <1>8, <2>2, <2>4, <2>5, BalancesWritten
<1> QED BY <1>10, <1>11

LEMMA CreditKeeps == ASSUME PlainTransfers, LInv, BInv, exact', CreditReceiver PROVE BInv'
<1>0. /\ pc = "credit" /\ UpdateBalance(Cur.to, Cur.value) /\ exact
      /\ pc' = NextBalance /\ n' = IF AtLast THEN 1 ELSE n + 1
      /\ UNCHANGED <<h, latest, restarts>>
  BY DEF CreditReceiver, faults
<1>1. Types /\ BalancesTracked BY <1>0 DEF LInv, BInv
<1>2. PICK a : a = Cur.to OBVIOUS
<1>3. /\ a \in Addrs /\ Cur.from \in Addrs /\ Cur.value \in Nat /\ Cur.fee \in Nat
      /\ Ahead \in SUBSET TxIds /\ IsFiniteSet(Ahead)
  BY <1>1, <1>2, InHandFacts
<1>4. balance[a] # None /\ balance[a] = Tracked(a) /\ balance[a] \in Nat
  BY <1>0, <1>1, <1>2, <1>3 DEF BalancesTracked
<1>5. \A x \in Addrs : BalanceAfter(x, Ahead) \in Int BY <1>3, BalanceFacts
<1>6. PICK v : v = balance[a] + Cur.value OBVIOUS
<1>7. v \in Nat BY <1>3, <1>4, <1>6
<1>8. Appends(a, v)
  <2>1. LatestBalance(a) = balance[a] BY <1>4 DEF LatestBalance
  <2>2. LatestBalance(a) + Cur.value = v /\ v >= 0 BY <1>6, <1>7, <2>1
  <2>3. UpdateBalance(a, Cur.value) BY <1>0, <1>2
  <2> QED BY <2>2, <2>3, UpdateAppends
<1>9. \A x \in Addrs : Tracked(x) = BalanceAfter(x, Ahead) - (IF x = Cur.from THEN Cur.value + Cur.fee ELSE 0)
  BY <1>0 DEF Tracked
<1>10. /\ pc' \in {"initFrom", "fee"}
       /\ \A x \in Addrs : Tracked(x)' = BalanceAfter(x, Ahead) + Brings(x)
       /\ pc' = "initFrom" => \A x \in Addrs : BalanceAfter(x, Ahead') = BalanceAfter(x, Ahead) + Brings(x)
  BY <1>0, <1>1, Advance
<1>11. ASSUME NEW x \in Addrs
       PROVE  /\ Brings(x) = (IF x = a THEN Cur.value ELSE 0) - (IF x = Cur.from THEN Cur.value + Cur.fee ELSE 0)
              /\ Brings(x) \in Int
  BY <1>2, <1>3 DEF Brings
<1>12. v = Tracked(a)'
  <2>1. v = (BalanceAfter(a, Ahead) - (IF a = Cur.from THEN Cur.value + Cur.fee ELSE 0)) + Cur.value
    BY <1>3, <1>4, <1>6, <1>9
  <2>2. Tracked(a)' = BalanceAfter(a, Ahead) + (Cur.value - (IF a = Cur.from THEN Cur.value + Cur.fee ELSE 0))
    BY <1>3, <1>10, <1>11
  <2>3. BalanceAfter(a, Ahead) \in Int BY <1>3, <1>5
  <2> QED BY <1>3, <2>1, <2>2, <2>3
<1>13. ASSUME NEW x \in Addrs, x # a PROVE Tracked(x)' = Tracked(x)
  <2>1. BalanceAfter(x, Ahead) \in Int BY <1>5
  <2>2. Tracked(x)' = BalanceAfter(x, Ahead) + (0 - (IF x = Cur.from THEN Cur.value + Cur.fee ELSE 0)) BY <1>10, <1>11, <1>13
  <2> QED BY <1>3, <1>9, <2>1, <2>2
<1>14. ASSUME pc' = "initFrom", NEW x \in Addrs, x # a, balance[x] = None
       PROVE  BalanceAfter(x, Ahead') = BalanceAfter(x, UpTo(h - 1))
  <2>1. BalanceAfter(x, Ahead) = BalanceAfter(x, UpTo(h - 1)) /\ x # Cur.from
    BY <1>0, <1>1, <1>14 DEF BalancesTracked
  <2>2. Brings(x) = 0 BY <1>11, <1>14, <2>1
  <2> QED BY <1>5, <1>10, <1>14, <2>1, <2>2
<1> QED BY <1>0, <1>3, <1>7, <1>8, <1>10, <1>12, <1>13, <1>14, BalancesWritten

\* A recorded block: the last snapshots are the balances after it.
LEMMA RecordedKeeps == ASSUME LInv, BInv, exact', SetLatestHeight PROVE BInv'
<1>0. /\ pc = "latest" /\ latest' = h /\ exact
      /\ IF h = Len(Blocks) THEN pc' = "done" /\ h' = h ELSE pc' = "tx" /\ h' = h + 1
      /\ UNCHANGED <<addrSeq, history, balance, restarts>>
  BY DEF SetLatestHeight, balances, faults, index
<1>1. Types /\ BalancesTracked BY <1>0 DEF LInv, BInv
<1>2. h \in Nat /\ h = latest + 1 /\ latest \in Nat BY <1>0, <1>1, ChainFacts DEF BalancesTracked, Types
<1>3. ASSUME NEW x \in Addrs PROVE Tracked(x) = BalanceAfter(x, UpTo(h)) /\ Tracked(x)' = BalanceAfter(x, UpTo(h))
  <2>1. Tracked(x) = BalanceAfter(x, UpTo(h)) BY <1>0 DEF Tracked
  <2>2. CASE pc' = "done" BY <1>0, <1>2, <2>1, <2>2 DEF Tracked, BalanceAfter, NetFlow, UpTo
  <2>3. CASE pc' = "tx"
    <3>1. h' - 1 = h BY <1>0, <1>2, <2>3
    <3>2. Tracked(x)' = BalanceAfter(x, UpTo(h' - 1)) BY <2>3 DEF Tracked, BalanceAfter, NetFlow, UpTo
    <3> QED BY <2>1, <3>1, <3>2
  <2> QED BY <1>0, <2>1, <2>2, <2>3
<1>4. BalancesTracked'
  <2>1. h' = IF pc' = "done" THEN latest' ELSE latest' + 1 BY <1>0
  <2>2. pc' \in {"done", "tx"} /\ h <= h' /\ h' \in Nat BY <1>0, <1>2
  <2>3. ASSUME NEW x \in Addrs, balance[x] # None
        PROVE  balance'[x] = Tracked(x)' /\ \E q \in DOMAIN history'[x] : history'[x][q].block <= h'
    <3>1. PICK q \in DOMAIN history[x] : history[x][q].block <= h BY <1>1, <2>3 DEF BalancesTracked
    <3>2. history[x][q].block \in Nat
      <4>1. history[x] \in Snapshots BY <1>1 DEF BalancesTracked
      <4>2. PICK S \in SUBSET Nat : history[x] \in [S -> [block : Nat, balance : Nat]] BY <4>1 DEF Snapshots
      <4> QED BY <4>2
    <3>3. history'[x][q].block <= h' BY <1>0, <1>2, <2>2, <3>1, <3>2
    <3>4. balance[x] = Tracked(x) BY <1>1, <2>3 DEF BalancesTracked
    <3> QED BY <1>0, <1>3, <3>1, <3>3, <3>4
  <2> QED BY <1>0, <1>1, <2>1, <2>2, <2>3 DEF BalancesTracked
<1>5. ASSUME restarts' = 0 PROVE HistoryTracked'
  <2>0. HistoryTracked BY <1>0, <1>5 DEF BInv
  <2>1. \A x, b : GetAddressBalance(x, b)' = GetAddressBalance(x, b) /\ BalanceAt(x, b)' = BalanceAt(x, b)
    BY <1>0 DEF GetAddressBalance, SnapshotsUpTo, BalanceAt, BalanceAfter, NetFlow
  <2>2. ASSUME NEW x \in Addrs, DOMAIN history[x] # {} PROVE GetAddressBalance(x, h) = BalanceAt(x, h)
    <3>1. \A q \in DOMAIN history[x] : history[x][q].block <= h /\ q < addrSeq[x] BY <2>0 DEF HistoryTracked
    <3>2. SnapshotsUpTo(x, h) = DOMAIN history[x] BY <3>1 DEF SnapshotsUpTo
    <3>3. PICK q \in DOMAIN history[x] : (\A r \in DOMAIN history[x] : r <= q) /\ history[x][q].balance = balance[x]
      BY <2>0, <2>2 DEF HistoryTracked
    <3>4. DOMAIN history[x] \in SUBSET Nat
      <4>1. history[x] \in Snapshots BY <1>1 DEF BalancesTracked
      <4> QED BY <4>1 DEF Snapshots
    <3> DEFINE E == DOMAIN history[x]
    <3> HIDE DEF E
    <3>5. Max(E) = q
      <4>1. q \in Nat /\ E \in SUBSET Nat /\ q \in E /\ \A r \in E : r <= q BY <3>3, <3>4 DEF E
      <4>2. Max(E) \in E /\ q <= Max(E) BY <4>1, MaxIs
      <4>3. Max(E) <= q /\ Max(E) \in Nat BY <4>1, <4>2
      <4> QED BY <4>1, <4>2, <4>3
    <3>6. GetAddressBalance(x, h) = balance[x] BY <2>2, <3>2, <3>3, <3>5 DEF GetAddressBalance, E
    <3>7. balance[x] # None /\ balance[x] = Tracked(x) BY <1>1, <2>2 DEF BalancesTracked
    <3>8. BalanceAt(x, h) = BalanceAfter(x, UpTo(h)) BY DEF BalanceAt, UpTo
    <3> QED BY <1>3, <3>6, <3>7, <3>8
  <2>3. ASSUME NEW x \in Addrs, NEW b \in 1..latest', \E q \in DOMAIN history[x] : history[x][q].block <= b
        PROVE  GetAddressBalance(x, b) = BalanceAt(x, b)
    <3>1. b = h \/ b \in 1..latest BY <1>0, <1>2
    <3>2. CASE b = h BY <2>2, <2>3, <3>2
    <3>3. CASE b \in 1..latest BY <2>0, <2>3, <3>3 DEF HistoryTracked
    <3> QED BY <3>1, <3>2, <3>3
  <2>4. ASSUME NEW x \in Addrs, NEW q \in DOMAIN history[x] PROVE history[x][q].block <= h'
    <3>1. history[x] \in Snapshots BY <1>1 DEF BalancesTracked
    <3>2. PICK S \in SUBSET Nat : history[x] \in [S -> [block : Nat, balance : Nat]] BY <3>1 DEF Snapshots
    <3>3. history[x][q].block \in Nat /\ history[x][q].block <= h BY <2>0, <3>2 DEF HistoryTracked
    <3>4. h' \in Nat /\ h <= h' BY <1>0, <1>2
    <3> QED BY <1>2, <3>3, <3>4
  <2> QED BY <1>0, <2>0, <2>1, <2>3, <2>4 DEF HistoryTracked
<1> QED BY <1>4, <1>5 DEF BInv

\* Nothing was written to the block that is begun again.
LEMMA AgainKeeps == ASSUME LInv, BInv, exact', BatchFails \/ Restart \/ UNCHANGED vars PROVE BInv'
<1>1. exact /\ UNCHANGED <<latest, history, balance>>
  BY DEF BatchFails, Restart, vars, balances
<1>2. Types /\ BalancesTracked BY <1>1 DEF LInv, BInv
<1>3. h \in Nat /\ latest \in Nat /\ restarts \in Nat /\ addrSeq \in [Addrs -> Nat] BY <1>2, ChainFacts DEF Types
<1>4. UNCHANGED <<h, n, pc>>
  <2>1. CASE BatchFails BY <2>1 DEF BatchFails
  <2>2. CASE Restart
    <3>1. pc = "tx" /\ n = 1 /\ pc' = "tx" /\ n' = 1 /\ h' = latest + 1 BY <2>2 DEF Restart
    <3> QED BY <1>2, <3>1 DEF BalancesTracked
  <2>3. CASE UNCHANGED vars BY <2>3 DEF vars, control
  <2> QED BY <2>1, <2>2, <2>3
<1>5. \A x \in Addrs : Tracked(x)' = Tracked(x) /\ BalanceAfter(x, Ahead)' = BalanceAfter(x, Ahead)
                       /\ BalanceAfter(x, UpTo(h - 1))' = BalanceAfter(x, UpTo(h - 1))
  BY <1>4 DEF Tracked, BalanceAfter, NetFlow, Ahead, UpTo, FirstOf, Cur
<1>6. Cur' = Cur BY <1>4 DEF Cur
<1>7. BalancesTracked' BY <1>1, <1>2, <1>4, <1>5, <1>6 DEF BalancesTracked
<1>8. restarts' = 0 => restarts = 0 /\ UNCHANGED addrSeq
  <2>1. CASE BatchFails BY <2>1 DEF BatchFails, index
  <2>2. CASE Restart BY <1>3, <2>2 DEF Restart
  <2>3. CASE UNCHANGED vars BY <2>3 DEF vars, index, faults
  <2> QED BY <2>1, <2>2, <2>3
<1>9. ASSUME restarts' = 0 PROVE HistoryTracked'
  <2>1. HistoryTracked /\ UNCHANGED addrSeq BY <1>1, <1>8, <1>9 DEF BInv
  <2>2. \A x \in Addrs : addrSeq[x] <= addrSeq'[x] BY <1>3, <2>1
  <2> QED BY <1>1, <1>2, <1>3, <1>4, <2>1, <2>2, HistoryStays
<1> QED BY <1>7, <1>9 DEF BInv

LEMMA BInvStep == ASSUME PlainTransfers, LInv, BInv, [Next]_vars PROVE BInv'
<1> SUFFICES ASSUME exact' PROVE BInv' BY DEF BInv
<1>1. CASE SetTransactionRow \/ CountTransaction \/ ProcessAddressIndexing \/ ProcessFeeDelegationMetadata
  <2>1. exact BY <1>1 DEF SetTransactionRow, CountTransaction, ProcessAddressIndexing, ProcessFeeDelegationMetadata
  <2> QED BY <1>1, <2>1, QuietBalances
<1>2. CASE EnsureSender \/ EnsureReceiver
  <2>1. Cur.from \in Addrs /\ Cur.to \in Addrs BY InHandFacts DEF LInv
  <2> QED BY <1>2, <2>1, EnsureKeeps DEF EnsureSender, EnsureReceiver
<1> QED BY <1>1, <1>2, DebitKeeps, CreditKeeps, RecordedKeeps, AgainKeeps DEF Next

\* On a chain of transfers that succeed and whose senders pay, the balance of
\* an address and its history are those of the chain, for every chain, as long
\* as every block went through once and the node answered
\* (ensureAddressBalanceInitialized, UpdateBalance, GetAddressBalance).
THEOREM BalancesStayRight ==
    ASSUME PlainTransfers
    PROVE  Spec => []BalancesRight
<1>1. LInv /\ BInv /\ [Next]_vars => (LInv /\ BInv)' BY StepLInv, BInvStep
<1>2. LInv /\ BInv => BalancesRight
  <2> SUFFICES ASSUME LInv, BInv PROVE BalancesRight OBVIOUS
  <2>1. BalancesExact
    <3> SUFFICES ASSUME exact, pc \in {"latest", "done"}, NEW a \in Addrs, balance[a] # None
                 PROVE  balance[a] = BalanceAt(a, h)
      BY DEF BalancesExact
    <3>1. balance[a] = Tracked(a) BY DEF BInv, BalancesTracked
    <3> QED BY <3>1 DEF Tracked, BalanceAt, UpTo
  <2>2. HistoryExact BY DEF HistoryExact, BInv, HistoryTracked
  <2> QED BY <2>1, <2>2 DEF BalancesRight
<1> QED BY <1>1, <1>2, InitLInv, BalancesBegin, PTL DEF Spec

-----------------------------------------------------------------------------
(* Token metadata.                                                          *)

Text == {"none", ""} \cup UNION {{m.standard, m.name, m.symbol} : m \in Reported}
Row == [standard : Text, name : Text, symbol : Text]
Job == [pc : {"idle", "detect", "fetch", "save", "name", "symbol", "commit", "drop"}, new : Row, old : Row]

\* A row is found, or some writer has removed a label and is yet to commit.
Found(m) == m.standard \in standards /\ LabelKeys(m) \subseteq labels
Committing == \E w \in Writers : job[w].pc \in {"symbol", "commit"}
MetadataInv ==
    /\ row \in Row
    /\ job \in [Writers -> Job]
    /\ ~interrupted => row = NoRow \/ Found(row) \/ Committing

LEMMA NoneIsRow == NoRow \in Row /\ Idle \in Job /\ Reported \subseteq Row
<1>1. NoRow \in Row BY DEF NoRow, Row, Text
<1>2. Idle \in Job BY <1>1 DEF Idle, Job
<1>3. ASSUME NEW m \in Reported PROVE m \in Row
  <2>1. m.standard \in Text /\ m.name \in Text /\ m.symbol \in Text BY DEF Text
  <2>2. m \in [standard : STRING, name : STRING, symbol : STRING] BY MetadataAssumption
  <2> QED BY <2>1, <2>2 DEF Row
<1> QED BY <1>1, <1>2, <1>3

LEMMA MetadataBegins == ASSUME MetadataInit PROVE MetadataInv
  BY NoneIsRow DEF MetadataInit, MetadataInv

\* A step that leaves the store and the writers that are committing alone.
LEMMA Apart ==
    ASSUME MetadataInv, UNCHANGED <<row, labels, standards, interrupted>>,
           NEW w \in Writers, job[w].pc \notin {"symbol", "commit"},
           NEW j \in Job, job' = [job EXCEPT ![w] = j]
    PROVE  MetadataInv'
<1>1. job' \in [Writers -> Job] BY DEF MetadataInv
<1>2. ASSUME NEW v \in Writers, job[v].pc \in {"symbol", "commit"} PROVE job'[v].pc \in {"symbol", "commit"}
  BY <1>2 DEF MetadataInv
<1>3. Committing => Committing' BY <1>2 DEF Committing
<1>4. Found(row) => Found(row)' BY DEF Found
<1> QED BY <1>1, <1>3, <1>4 DEF MetadataInv

LEMMA MetadataStep == ASSUME MetadataInv, [MetadataNext]_metaVars PROVE MetadataInv'
<1>0. Idle \in Job /\ NoRow \in Row BY NoneIsRow
<1>a. Reported \subseteq Row BY NoneIsRow
<1>b. row \in Row /\ job \in [Writers -> Job] BY DEF MetadataInv
<1>1. CASE UNCHANGED metaVars
  <2>1. Found(row) => Found(row)' BY <1>1 DEF Found, metaVars
  <2> QED BY <1>1, <2>1 DEF MetadataInv, metaVars, Committing
<1>2. CASE Interrupt BY <1>2, <1>0 DEF Interrupt, MetadataInv
<1>3. ASSUME NEW w \in Writers,
             \/ indexContractIfToken(w) \/ IndexToken(w) \/ fetchAndCacheTokenMetadata(w)
             \/ NotAToken(w) \/ DetectStandard(w) \/ FetchMetadata(w) \/ RefreshMetadata(w)
             \/ ReadOld(w) \/ ReadForDelete(w)
      PROVE  MetadataInv'
  <2>1. UNCHANGED <<row, labels, standards, interrupted>>
    BY <1>3 DEF indexContractIfToken, IndexToken, fetchAndCacheTokenMetadata, FindsNoRow, NotAToken, DetectStandard,
                FetchMetadata, RefreshMetadata, ReadOld, ReadForDelete, Goto
  <2>2. job[w].pc \notin {"symbol", "commit"}
    <3>1. job[w] = Idle \/ job[w].pc \in {"detect", "fetch", "save"}
      BY <1>3 DEF indexContractIfToken, IndexToken, fetchAndCacheTokenMetadata, FindsNoRow, NotAToken, DetectStandard,
                  FetchMetadata, RefreshMetadata, ReadOld, ReadForDelete, Start
    <3> QED BY <3>1 DEF Idle
  <2>3. \E j \in Job : job' = [job EXCEPT ![w] = j]
    <3>1. CASE indexContractIfToken(w) \/ IndexToken(w) \/ fetchAndCacheTokenMetadata(w)
      BY <3>1, <1>0, NoneIsRow DEF indexContractIfToken, IndexToken, fetchAndCacheTokenMetadata, FindsNoRow, Start, Idle, Job
    <3>2. CASE NotAToken(w) BY <3>2, <1>0 DEF NotAToken, Goto
    <3>3. CASE DetectStandard(w)
      <4>1. PICK m \in Reported : Goto(w, [Idle EXCEPT !.pc = "fetch", !.new.standard = m.standard])
        BY <3>3 DEF DetectStandard
      <4>2. [Idle EXCEPT !.pc = "fetch", !.new.standard = m.standard] \in Job
        BY <1>0, <1>a DEF Idle, NoRow, Row, Job
      <4> QED BY <4>1, <4>2 DEF Goto
    <3>4. CASE FetchMetadata(w)
      <4>1. PICK m \in Reported : Goto(w, [Idle EXCEPT !.pc = "save", !.new = m]) BY <3>4 DEF FetchMetadata
      <4>2. [Idle EXCEPT !.pc = "save", !.new = m] \in Job BY <1>0, <1>a DEF Idle, Job
      <4> QED BY <4>1, <4>2 DEF Goto
    <3>5. CASE RefreshMetadata(w)
      <4>1. PICK m \in Reported : Start(w, [Idle EXCEPT !.pc = "save", !.new = [m EXCEPT !.standard = row.standard]])
        BY <3>5 DEF RefreshMetadata
      <4>2. [m EXCEPT !.standard = row.standard] \in Row BY <1>a, <1>b DEF Row
      <4>3. [Idle EXCEPT !.pc = "save", !.new = [m EXCEPT !.standard = row.standard]] \in Job BY <1>0, <4>2 DEF Idle, Job
      <4> QED BY <4>1, <4>3 DEF Start
    <3>6. CASE ReadOld(w)
      <4>1. [job[w] EXCEPT !.pc = "name", !.old = row] \in Job BY <1>b DEF Job
      <4> QED BY <3>6, <4>1 DEF ReadOld, Goto
    <3>7. CASE ReadForDelete(w)
      <4>1. [Idle EXCEPT !.pc = "drop", !.old = row] \in Job BY <1>0, <1>b DEF Job, Idle
      <4> QED BY <3>7, <4>1 DEF ReadForDelete, Start
    <3> QED BY <1>3, <3>1, <3>2, <3>3, <3>4, <3>5, <3>6, <3>7
  <2> QED BY <2>1, <2>2, <2>3, Apart
<1>4. ASSUME NEW w \in Writers, NEW f \in Fields, DeleteOldLabel(w, f) PROVE MetadataInv'
  <2>1. job' = [job EXCEPT ![w] = [job[w] EXCEPT !.pc = IF f = "name" THEN "symbol" ELSE "commit"]]
        /\ UNCHANGED <<row, interrupted>> BY <1>4 DEF DeleteOldLabel, Goto
  <2>2. job' \in [Writers -> Job] /\ job'[w].pc \in {"symbol", "commit"} BY <1>b, <2>1 DEF Job
  <2> QED BY <1>b, <2>1, <2>2 DEF MetadataInv, Committing
<1>5. ASSUME NEW w \in Writers, CommitMetadata(w) PROVE MetadataInv'
  <2>1. /\ row' = job[w].new /\ standards' = standards \cup {job[w].new.standard}
        /\ labels' = labels \cup LabelKeys(job[w].new) /\ job' = [job EXCEPT ![w] = Idle]
    BY <1>5 DEF CommitMetadata, Goto
  <2>2. row' \in Row /\ job' \in [Writers -> Job]
    <3>1. job[w].new \in Row BY <1>b DEF Job
    <3> QED BY <1>0, <1>b, <2>1, <3>1
  <2>3. Found(row)'
    <3>1. row'.standard \in standards' BY <2>1
    <3>2. LabelKeys(row') \subseteq labels' BY <2>1
    <3> QED BY <3>1, <3>2 DEF Found, LabelKeys, LabelKey
  <2> QED BY <2>2, <2>3 DEF MetadataInv
<1>6. ASSUME NEW w \in Writers, DeleteTokenMetadata(w) PROVE MetadataInv'
  <2>1. row' = NoRow /\ job' = [job EXCEPT ![w] = Idle] BY <1>6 DEF DeleteTokenMetadata, Goto
  <2> QED BY <1>0, <1>b, <2>1 DEF MetadataInv, NoRow
<1> QED BY <1>1, <1>2, <1>3, <1>4, <1>5, <1>6 DEF MetadataNext

LEMMA MetadataFound == ASSUME MetadataInv PROVE StoredIsFound
<1> SUFFICES ASSUME AtRest, ~interrupted, row # NoRow
             PROVE  row.standard \in standards /\ \A f \in Fields : row[f] # "" => SearchFinds(f, row[f])
  BY DEF StoredIsFound
<1>1. ~Committing BY DEF AtRest, Committing, Idle
<1>2. Found(row) BY <1>1 DEF MetadataInv
<1>3. ASSUME NEW f \in Fields, row[f] # "" PROVE <<f, ToLower(row[f])>> \in labels
  BY <1>2, <1>3 DEF Found, LabelKeys, LabelKey
<1> QED BY <1>2, <1>3 DEF Found, SearchFinds

-----------------------------------------------------------------------------
(* Token holders.                                                           *)

ListsAgree ==
    /\ byBalance = {<<held[x], x>> : x \in DOMAIN held}
    /\ byHolder = DOMAIN held
    /\ stats.holders = Cardinality(DOMAIN held)

\* What a holder has while a transfer is in hand.
Sent(x) == IF InHand.from = x THEN InHand.value ELSE 0
Due(x) == CASE step = "from" -> Moved(x, 1..(at - 1))
            [] step = "to" -> Moved(x, 1..(at - 1)) - Sent(x)
            [] step = "stats" -> Moved(x, 1..at)

HolderTypes ==
    /\ held \in [DOMAIN held -> Nat \ {0}] /\ IsFiniteSet(DOMAIN held)
    /\ stats \in [holders : Nat, transfers : Nat]
    /\ at \in Nat \ {0} /\ step \in {"from", "to", "stats"}
    /\ step # "from" => Working

HoldersInv ==
    /\ HolderTypes /\ ListsAgree
    /\ stats.transfers = at - 1
    /\ ~again => \A x \in Holders : BalanceOf(x) = Due(x)

LEMMA FlowFacts ==
    ASSUME NEW x
    PROVE  /\ Moved(x, 1..0) = 0
           /\ \A k \in DOMAIN Transfers : /\ k \in Nat \ {0}
                                          /\ Flow(x)[k] \in Int /\ Moved(x, 1..(k - 1)) \in Int
                                          /\ Moved(x, 1..k) = Moved(x, 1..(k - 1)) + Flow(x)[k]
<1>1. /\ Len(Transfers) \in Nat /\ DOMAIN Transfers = 1..Len(Transfers)
      /\ \A k \in DOMAIN Transfers : Transfers[k].value \in Nat
  <2> DEFINE Pays == [from : Holders \cup {Zero}, to : Holders \cup {Zero}, value : Nat]
  <2>1. Transfers \in Seq(Pays) BY HoldersAssumption
  <2>2. \A r \in Pays : r.value \in Nat OBVIOUS
  <2> HIDE DEF Pays
  <2> QED BY <2>1, <2>2
<1>2. \A k \in DOMAIN Transfers : Flow(x)[k] \in Int BY <1>1 DEF Flow
<1>3. ASSUME NEW k \in DOMAIN Transfers
      PROVE  /\ k \in Nat \ {0}
             /\ Moved(x, 1..k) = Moved(x, 1..(k - 1)) + Flow(x)[k]
             /\ Moved(x, 1..(k - 1)) \in Int
  <2>1. k \in Nat \ {0} /\ \A q \in 1..k : q \in DOMAIN Transfers BY <1>1
  <2>2. \A q \in 1..k : Flow(x)[q] \in Int BY <1>2, <2>1
  <2> QED BY <2>1, <2>2, SumNext DEF Moved
<1> QED BY <1>2, <1>3, SumOfNothing DEF Moved

LEMMA HoldersBegin == ASSUME HoldersInit PROVE HoldersInv
<1>1. DOMAIN held = {} /\ held \in [{} -> Nat \ {0}] BY DEF HoldersInit
<1>2. IsFiniteSet({}) /\ Cardinality({}) = 0 BY FS_EmptySet
<1>3. HolderTypes BY <1>1, <1>2 DEF HoldersInit, HolderTypes, NoStats
<1>4. ListsAgree BY <1>1, <1>2 DEF HoldersInit, ListsAgree, NoStats
<1>5. ASSUME NEW x \in Holders PROVE BalanceOf(x) = Due(x)
  <2>1. BalanceOf(x) = 0 BY <1>1 DEF BalanceOf
  <2>2. at = 1 /\ step = "from" BY DEF HoldersInit
  <2>3. Due(x) = Moved(x, 1..0) BY <2>2 DEF Due
  <2> QED BY <2>1, <2>3, FlowFacts
<1> QED BY <1>3, <1>4, <1>5 DEF HoldersInv, HoldersInit, NoStats

\* One commit: rows, lists and count move together.
LEMMA Committed ==
    ASSUME HolderTypes, ListsAgree, NEW x, NEW new \in Nat, UpdateTokenHolder(x, new)
    PROVE  /\ held' \in [DOMAIN held' -> Nat \ {0}] /\ IsFiniteSet(DOMAIN held')
           /\ stats' \in [holders : Nat, transfers : Nat] /\ stats'.transfers = stats.transfers
           /\ ListsAgree'
           /\ BalanceOf(x)' = new /\ \A y : y # x => BalanceOf(y)' = BalanceOf(y)
<1> DEFINE D == (DOMAIN held \ {x}) \cup (IF new = 0 THEN {} ELSE {x})
<1>0. /\ held \in [DOMAIN held -> Nat \ {0}] /\ IsFiniteSet(DOMAIN held)
      /\ stats \in [holders : Nat, transfers : Nat] BY DEF HolderTypes
<1>1. held' = [y \in D |-> IF y = x THEN new ELSE held[y]] BY DEF UpdateTokenHolder
<1>2. DOMAIN held' = D /\ held' \in [D -> Nat \ {0}] BY <1>0, <1>1
<1>3. BalanceOf(x)' = new /\ \A y : y # x => BalanceOf(y)' = BalanceOf(y) BY <1>1, <1>2 DEF BalanceOf
<1>4. /\ byHolder' = D
      /\ byBalance' = {<<held'[y], y>> : y \in D}
  <2>1. byHolder' = D BY DEF UpdateTokenHolder, ListsAgree
  <2>2. byBalance' = {<<held[y], y>> : y \in DOMAIN held \ {x}} \cup (IF new = 0 THEN {} ELSE {<<new, x>>})
    <3>1. byBalance \ (IF x \in DOMAIN held THEN {<<held[x], x>>} ELSE {}) = {<<held[y], y>> : y \in DOMAIN held \ {x}}
      BY DEF ListsAgree
    <3> QED BY <3>1 DEF UpdateTokenHolder
  <2>3. {<<held'[y], y>> : y \in D} = {<<held[y], y>> : y \in DOMAIN held \ {x}} \cup (IF new = 0 THEN {} ELSE {<<new, x>>})
    <3>1. \A y \in DOMAIN held \ {x} : held'[y] = held[y] BY <1>1
    <3>2. x \in D <=> new # 0 OBVIOUS
    <3>3. x \in D => held'[x] = new BY <1>1
    <3> QED BY <3>1, <3>2, <3>3
  <2> QED BY <2>1, <2>2, <2>3
<1>5. /\ IsFiniteSet(D) /\ stats' \in [holders : Nat, transfers : Nat] /\ stats'.transfers = stats.transfers
      /\ stats'.holders = Cardinality(D)
  <2> DEFINE E == DOMAIN held
             o == Cardinality(E)
  <2>0. stats.holders = o /\ o \in Nat BY <1>0, FS_CardinalityType DEF ListsAgree
  <2>1. CASE x \in DOMAIN held /\ new = 0
    <3>1. D = E \ {x} BY <2>1
    <3>2. IsFiniteSet(D) /\ Cardinality(D) = o - 1 BY <1>0, <2>1, <3>1, FS_RemoveElement
    <3>3. Cardinality(D) \in Nat BY <3>2, FS_CardinalityType
    <3>4. stats' = [stats EXCEPT !.holders = IF @ + -1 < 0 THEN 0 ELSE @ + -1]
      BY <2>1 DEF UpdateTokenHolder, updateHolderCountInBatch
    <3> HIDE DEF D, E, o
    <3>5. o - 1 \in Nat BY <3>2, <3>3
    <3> QED BY <1>0, <2>0, <3>2, <3>4, <3>5
  <2>2. CASE x \notin DOMAIN held /\ new # 0
    <3>1. D = E \cup {x} BY <2>2
    <3>2. IsFiniteSet(D) /\ Cardinality(D) = o + 1 BY <1>0, <2>2, <3>1, FS_AddElement
    <3>3. stats' = [stats EXCEPT !.holders = IF @ + 1 < 0 THEN 0 ELSE @ + 1]
      BY <2>2 DEF UpdateTokenHolder, updateHolderCountInBatch
    <3> HIDE DEF D, E, o
    <3> QED BY <1>0, <2>0, <3>2, <3>3
  <2>3. CASE (x \in DOMAIN held) = (new # 0)
    <3>1. D = E BY <2>3
    <3>2. stats' = stats BY <2>3 DEF UpdateTokenHolder
    <3> QED BY <1>0, <2>0, <3>1, <3>2
  <2> QED BY <2>1, <2>2, <2>3
<1> HIDE DEF D
<1>6. ListsAgree' BY <1>2, <1>4, <1>5 DEF ListsAgree
<1> QED BY <1>2, <1>3, <1>5, <1>6

LEMMA HoldersStep == ASSUME Covered, HoldersInv, [HoldersNext]_holderVars PROVE HoldersInv'
<1>0. HolderTypes /\ ListsAgree BY DEF HoldersInv
<1>a. /\ at \in Nat \ {0} /\ step \in {"from", "to", "stats"} /\ stats.transfers = at - 1
      /\ stats \in [holders : Nat, transfers : Nat]
  BY DEF HoldersInv, HolderTypes
<1>1. CASE UNCHANGED holderVars
  <2>1. HolderTypes' BY <1>0, <1>1 DEF HolderTypes, holderVars, Working
  <2>2. ListsAgree' BY <1>0, <1>1 DEF ListsAgree, holderVars
  <2>3. \A x : BalanceOf(x)' = BalanceOf(x) /\ Due(x)' = Due(x)
    BY <1>1 DEF BalanceOf, Due, Sent, InHand, Moved, Flow, holderVars
  <2> QED BY <1>1, <2>1, <2>2, <2>3 DEF HoldersInv, holderVars
<1>2. CASE HolderCrash
  <2>1. HolderTypes' BY <1>0, <1>2 DEF HolderTypes, HolderCrash, Working
  <2>2. ListsAgree' BY <1>0, <1>2 DEF ListsAgree, HolderCrash
  <2>3. ASSUME ~again' PROVE ~again /\ step = "from" /\ step' = "from" /\ UNCHANGED <<at, held>>
    BY <1>2, <2>3 DEF HolderCrash
  <2>4. ASSUME ~again', NEW x PROVE BalanceOf(x)' = BalanceOf(x) /\ Due(x)' = Due(x)
    BY <2>3, <2>4 DEF BalanceOf, Due, Moved, Flow
  <2> QED BY <1>2, <2>1, <2>2, <2>3, <2>4 DEF HoldersInv, HolderCrash
<1>3. CASE UpdateTokenHolderStats
  <2>0. /\ Working /\ step = "stats" /\ step' = "from" /\ at' = at + 1
        /\ stats' = [stats EXCEPT !.transfers = @ + 1] /\ UNCHANGED <<held, byBalance, byHolder, again>>
    BY <1>3 DEF UpdateTokenHolderStats
  <2>1. HolderTypes' BY <1>0, <2>0 DEF HolderTypes
  <2>2. ListsAgree' BY <1>0, <1>a, <2>0 DEF ListsAgree
  <2>3. stats'.transfers = at' - 1 BY <1>a, <2>0
  <2>4. ASSUME NEW x PROVE BalanceOf(x)' = BalanceOf(x) /\ Due(x)' = Due(x)
    <3>1. (at + 1) - 1 = at BY <1>a
    <3> QED BY <2>0, <3>1 DEF BalanceOf, Due, Moved, Flow
  <2> QED BY <2>0, <2>1, <2>2, <2>3, <2>4 DEF HoldersInv
<1>p. ASSUME Working
      PROVE  /\ InHand.value \in Nat /\ InHand.from \in Holders \cup {Zero}
             /\ InHand.to \in Holders \cup {Zero}
             /\ InHand.from # Zero => InHand.value <= Moved(InHand.from, 1..(at - 1))
  <2> DEFINE Pays == [from : Holders \cup {Zero}, to : Holders \cup {Zero}, value : Nat]
  <2>1. Transfers \in Seq(Pays) BY HoldersAssumption
  <2>2. \A r \in Pays : r.value \in Nat /\ r.from \in Holders \cup {Zero} /\ r.to \in Holders \cup {Zero} OBVIOUS
  <2> HIDE DEF Pays
  <2>3. InHand \in Pays BY <1>p, <2>1 DEF InHand, Working
  <2> QED BY <1>p, <2>2, <2>3 DEF InHand, Working, Covered
<1>b. \A x : BalanceOf(x) \in Nat BY <1>0 DEF HolderTypes, BalanceOf
<1>4. CASE DebitHolder
  <2>0. Working /\ step = "from" /\ step' = "to" /\ UNCHANGED <<at, again>> BY <1>4 DEF DebitHolder
  <2>1. InHand.value \in Nat /\ InHand.from \in Holders \cup {Zero} BY <1>p, <2>0
  <2>2. CASE InHand.from = Zero
    <3>1. UNCHANGED <<held, byBalance, byHolder, stats>> BY <1>4, <2>2 DEF DebitHolder
    <3>2. HolderTypes' BY <1>0, <2>0, <3>1 DEF HolderTypes, Working
    <3>3. ListsAgree' BY <1>0, <3>1 DEF ListsAgree
    <3>4. ASSUME NEW x \in Holders PROVE BalanceOf(x)' = BalanceOf(x) /\ Due(x)' = Due(x)
      <4>1. x # Zero BY HoldersAssumption
      <4>2. Sent(x)' = 0 BY <2>0, <2>2, <4>1 DEF Sent, InHand
      <4>3. Moved(x, 1..(at - 1)) \in Int BY <2>0, FlowFacts DEF Working
      <4>4. Due(x) = Moved(x, 1..(at - 1)) BY <2>0 DEF Due
      <4>5. Due(x)' = Moved(x, 1..(at - 1)) - Sent(x)' BY <2>0 DEF Due, Moved, Flow
      <4>6. Due(x)' = Due(x) BY <4>2, <4>3, <4>4, <4>5
      <4> QED BY <3>1, <4>6 DEF BalanceOf
    <3> QED BY <1>a, <2>0, <3>1, <3>2, <3>3, <3>4 DEF HoldersInv
  <2>3. CASE InHand.from # Zero
    <3>z. PICK z : z = InHand.from OBVIOUS
    <3>n. PICK new : new = IF BalanceOf(z) < InHand.value THEN 0 ELSE BalanceOf(z) - InHand.value OBVIOUS
    <3>1. UpdateTokenHolder(z, new) BY <1>4, <2>3, <3>z, <3>n DEF DebitHolder
    <3>2. new \in Nat BY <1>b, <2>1, <3>n
    <3>3. /\ held' \in [DOMAIN held' -> Nat \ {0}] /\ IsFiniteSet(DOMAIN held')
          /\ stats' \in [holders : Nat, transfers : Nat] /\ stats'.transfers = stats.transfers
          /\ ListsAgree'
          /\ BalanceOf(z)' = new /\ \A y : y # z => BalanceOf(y)' = BalanceOf(y)
      BY <1>0, <3>1, <3>2, Committed
    <3>4. HolderTypes' BY <1>0, <2>0, <3>3 DEF HolderTypes, Working
    <3>5. ASSUME ~again', NEW x \in Holders PROVE BalanceOf(x)' = Due(x)'
      <4>1. Moved(x, 1..(at - 1)) \in Int BY <2>0, FlowFacts DEF Working
      <4>2. BalanceOf(x) = Moved(x, 1..(at - 1)) BY <2>0, <3>5 DEF HoldersInv, Due
      <4>3. Due(x)' = Moved(x, 1..(at - 1)) - Sent(x)' BY <2>0 DEF Due, Moved, Flow
      <4>4. Sent(x)' = IF z = x THEN InHand.value ELSE 0 BY <2>0, <3>z DEF Sent, InHand
      <4>5. CASE x = z
        <5>1. InHand.value <= Moved(x, 1..(at - 1)) BY <1>p, <2>0, <2>3, <3>z, <4>5
        <5>2. new = BalanceOf(x) - InHand.value BY <2>1, <3>n, <4>1, <4>2, <4>5, <5>1
        <5> QED BY <3>3, <4>2, <4>3, <4>4, <4>5, <5>2
      <4>6. CASE x # z BY <3>3, <4>1, <4>2, <4>3, <4>4, <4>6
      <4> QED BY <4>5, <4>6
    <3> QED BY <1>a, <2>0, <3>3, <3>4, <3>5 DEF HoldersInv
  <2> QED BY <2>2, <2>3
<1>5. CASE CreditHolder
  <2>0. Working /\ step = "to" /\ step' = "stats" /\ UNCHANGED <<at, again>> BY <1>5 DEF CreditHolder
  <2>1. InHand.value \in Nat /\ InHand.to \in Holders \cup {Zero} BY <1>p, <2>0
  <2>b. ASSUME NEW x PROVE /\ Moved(x, 1..(at - 1)) \in Int
                           /\ Due(x) = Moved(x, 1..(at - 1)) - Sent(x)
                           /\ Due(x)' = (Moved(x, 1..(at - 1)) - Sent(x)) + (IF InHand.to = x THEN InHand.value ELSE 0)
                           /\ Sent(x) \in Nat
    <3>1. Moved(x, 1..(at - 1)) \in Int /\ Moved(x, 1..at) = Moved(x, 1..(at - 1)) + Flow(x)[at]
      BY <2>0, FlowFacts DEF Working
    <3>2. Flow(x)[at] = (IF InHand.to = x THEN InHand.value ELSE 0) - Sent(x) BY <2>0 DEF Flow, InHand, Sent, Working
    <3>3. Sent(x) \in Nat BY <2>1 DEF Sent
    <3>4. Due(x) = Moved(x, 1..(at - 1)) - Sent(x) BY <2>0 DEF Due
    <3>5. Due(x)' = Moved(x, 1..at) BY <2>0 DEF Due, Moved, Flow
    <3> QED BY <2>1, <3>1, <3>2, <3>3, <3>4, <3>5
  <2>2. CASE InHand.to = Zero
    <3>1. UNCHANGED <<held, byBalance, byHolder, stats>> BY <1>5, <2>2 DEF CreditHolder
    <3>2. HolderTypes' BY <1>0, <2>0, <3>1 DEF HolderTypes, Working
    <3>3. ListsAgree' BY <1>0, <3>1 DEF ListsAgree
    <3>4. ASSUME NEW x \in Holders PROVE BalanceOf(x)' = BalanceOf(x) /\ Due(x)' = Due(x)
      <4>1. InHand.to # x BY <2>2, HoldersAssumption
      <4>2. Due(x)' = Due(x) BY <2>b, <4>1
      <4> QED BY <3>1, <4>2 DEF BalanceOf
    <3> QED BY <1>a, <2>0, <3>1, <3>2, <3>3, <3>4 DEF HoldersInv
  <2>3. CASE InHand.to # Zero
    <3>z. PICK z : z = InHand.to OBVIOUS
    <3>n. PICK new : new = BalanceOf(z) + InHand.value OBVIOUS
    <3>1. UpdateTokenHolder(z, new) BY <1>5, <2>3, <3>z, <3>n DEF CreditHolder
    <3>2. new \in Nat BY <1>b, <2>1, <3>n
    <3>3. /\ held' \in [DOMAIN held' -> Nat \ {0}] /\ IsFiniteSet(DOMAIN held')
          /\ stats' \in [holders : Nat, transfers : Nat] /\ stats'.transfers = stats.transfers
          /\ ListsAgree'
          /\ BalanceOf(z)' = new /\ \A y : y # z => BalanceOf(y)' = BalanceOf(y)
      BY <1>0, <3>1, <3>2, Committed
    <3>4. HolderTypes' BY <1>0, <2>0, <3>3 DEF HolderTypes, Working
    <3>5. ASSUME ~again', NEW x \in Holders PROVE BalanceOf(x)' = Due(x)'
      <4>1. BalanceOf(x) = Due(x) BY <2>0, <3>5 DEF HoldersInv
      <4>2. CASE x = z
        <5>1. BalanceOf(x)' = BalanceOf(x) + InHand.value BY <3>3, <3>n, <4>2
        <5>2. InHand.to = x BY <3>z, <4>2
        <5> QED BY <2>b, <4>1, <5>1, <5>2
      <4>3. CASE x # z
        <5>1. BalanceOf(x)' = BalanceOf(x) BY <3>3, <4>3
        <5>2. InHand.to # x BY <3>z, <4>3
        <5> QED BY <2>b, <4>1, <5>1, <5>2
      <4> QED BY <4>2, <4>3
    <3> QED BY <1>a, <2>0, <3>3, <3>4, <3>5 DEF HoldersInv
  <2> QED BY <2>2, <2>3
<1> QED BY <1>1, <1>2, <1>3, <1>4, <1>5 DEF HoldersNext

LEMMA HoldersFound == ASSUME HoldersInv PROVE HoldersAgree
<1>1. ListsAgree /\ stats.transfers = at - 1 BY DEF HoldersInv
<1>2. ASSUME ~again, step = "from", NEW x \in Holders PROVE BalanceOf(x) = Moved(x, 1..(at - 1))
  BY <1>2 DEF HoldersInv, Due
<1> QED BY <1>1, <1>2 DEF HoldersAgree, ListsAgree

\* Whichever writers of a token's metadata overlap, a row at rest is found
\* under its labels and its standard unless one was interrupted; and every
\* commit of the holders leaves rows, lists and count in agreement, the rows
\* being the balances while no transfer was processed twice.
THEOREM TokensStayFound ==
    ASSUME Covered
    PROVE  TokensSpec => []TokensAgree
<1>1. HoldersInv /\ [HoldersNext]_holderVars => HoldersInv' BY HoldersStep
<1>2. MetadataInv /\ HoldersInv => TokensAgree BY MetadataFound, HoldersFound DEF TokensAgree
<1> QED BY <1>1, <1>2, MetadataBegins, MetadataStep, HoldersBegin, PTL DEF TokensSpec, MetadataSpec, HoldersSpec
=============================================================================
