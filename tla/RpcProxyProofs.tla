--------------------------- MODULE RpcProxyProofs ---------------------------
(***************************************************************************)
(* The RPC proxy with any calls, workers, queue, cache and limits: the     *)
(* breaker can always move, a call is answered about the block it asked    *)
(* for, and a transaction once reported in a block is not reported pending *)
(* or unknown to whoever asks afterwards.                                  *)
(***************************************************************************)
EXTENDS RpcProxy, TLAPS, WellFoundedInduction

\* The counters below their limits while they count.
CountersInRange ==
    /\ failures \in Nat /\ successes \in Nat
    /\ BreakerCanMove

\* Late answers of calls admitted in an earlier state are counted in the state
\* the circuit is in by then: the limit is compared at every count
\* (worker.go:269-329).
THEOREM BreakerNeverStuck == Spec => []BreakerCanMove
<1>1. Init => CountersInRange
  BY ProxyAssumption DEF Init, CountersInRange, BreakerCanMove
<1>2. CountersInRange /\ [Next]_vars => CountersInRange'
  <2> SUFFICES ASSUME CountersInRange, [Next]_vars PROVE CountersInRange'
    OBVIOUS
  <2> USE ProxyAssumption DEF CountersInRange, BreakerCanMove
  <2>1. CASE UNCHANGED <<circuit, failures, successes>>
    BY <2>1
  <2>2. CASE Admit
    BY <2>2 DEF Admit, Admits
  <2>3. CASE RecordSuccess
    BY <2>3 DEF RecordSuccess
  <2>4. CASE RecordFailure
    BY <2>4 DEF RecordFailure
  <2>5. UNCHANGED <<circuit, failures, successes>> \/ Admit \/ RecordSuccess \/ RecordFailure
    <3>1. CASE NewBlock \/ TxArrives \/ ResetTimeoutPasses \/ cleanup \/ Stop \/ UNCHANGED vars
      BY <3>1 DEF NewBlock, TxArrives, ResetTimeoutPasses, cleanup, Stop, vars, breaker
    <3>2. ASSUME NEW c \in Calls,
                 Call(c) \/ SubmitAndWait(c) \/ ContextEnds(c) \/ RateLimited(c) \/ RejectCall(c)
          PROVE  UNCHANGED <<circuit, failures, successes>>
      BY <3>2 DEF Call, SubmitAndWait, ContextEnds, RateLimited, RejectCall, breaker
    <3>3. ASSUME NEW c \in Calls, Step(c)
          PROVE  UNCHANGED <<circuit, failures, successes>> \/ Admit \/ RecordSuccess \/ RecordFailure
      BY <3>3 DEF Step, Gate, InvalidRequest, Lookup, NodeFails, ContractCall, GetBalance, GetNonce,
                  GetCode, ReadState, BlockNumber, GetInternalTransactions, TransactionByHash,
                  TransactionReceipt, NoReceipt, Confirmations, Store, Return, Finish, breaker
    <3>4. ASSUME NEW w \in Workers, Work(w) PROVE UNCHANGED <<circuit, failures, successes>>
      BY <3>4 DEF Work, Dequeue, WorkerStops, Retry, Respond, Finish, breaker
    <3>5. ASSUME NEW k \in DOMAIN cache, EntryExpires(k) PROVE UNCHANGED <<circuit, failures, successes>>
      BY <3>5 DEF EntryExpires, breaker
    <3> QED
      BY <3>1, <3>2, <3>3, <3>4, <3>5 DEF Next
  <2> QED
    BY <2>1, <2>2, <2>3, <2>4, <2>5
<1>3. CountersInRange => BreakerCanMove
  BY DEF CountersInRange
<1> QED
  BY <1>1, <1>2, <1>3, PTL DEF Spec

-----------------------------------------------------------------------------
(* What answers say.                                                       *)

Reads == {"call", "balance", "nonce", "code"}
IsRead(v) == v \in [ok : {TRUE}, value : Int, block : Int]
Known == {Status("pending"), Status("mined"), Status("confirmed")}

\* An answer that may be stored under, or returned for, kind k at block b.
Sound(v, k, b) ==
    /\ k \in Reads => /\ IsRead(v)
                      /\ b # 0 => v.value = b
                      /\ v.block # 0 => v.value <= v.block
    /\ k = "status" => v \in Known
    /\ InBlock(v) => tx > 0

\* ... and returned to a caller that began after `floor'.
Answered(c) ==
    /\ Sound(answer[c], Kind(c), Block(c))
    /\ Kind(c) = "status" /\ floor[c] => InBlock(answer[c])

\* What holds of a call at each place.
CallOK(c) ==
    /\ pc[c] # "idle" => c \in DOMAIN req
    /\ pc[c] = "number" => /\ Kind(c) \in {"balance", "nonce", "code"} /\ Block(c) = 0
                           /\ IsRead(answer[c]) /\ answer[c].value <= head
    /\ pc[c] \in {"receipt", "confirmations"} => Kind(c) = "status" /\ tx > 0
    /\ pc[c] = "store" => Answered(c)
    /\ pc[c] = "return" => \/ answer[c] = Failed
                           \/ answer[c] = Status("not_found") /\ Kind(c) = "status" /\ ~floor[c]
                           \/ Answered(c)
    /\ floor[c] => tx > 0

CacheOK == \A k \in DOMAIN cache : Sound(cache[k].value, k[1], k[2])

\* The types the argument needs.
Shapes ==
    /\ DOMAIN pc = Calls /\ DOMAIN answer = Calls /\ DOMAIN floor = Calls
    /\ head \in Nat /\ tx \in Int
    /\ req \in Scenarios
    /\ items \in Seq(DOMAIN req)
    /\ known => tx > 0

\* The inductive invariant.
AInv == Shapes /\ CacheOK /\ \A c \in Calls : CallOK(c)

\* The fields of the answers.
LEMMA AnswerFacts ==
    /\ Failed.ok = FALSE /\ ~InBlock(Failed)
    /\ \A s : /\ Status(s).ok = TRUE /\ Status(s).status = s /\ "status" \in DOMAIN Status(s)
              /\ InBlock(Status(s)) <=> s \in {"mined", "confirmed"}
    /\ \A b, x \in Int : LET v == [Reading(b) EXCEPT !.block = x]
                         IN IsRead(v) /\ v.value = b /\ v.block = x
    /\ \A u : IsRead(u) => \A x \in Int : LET v == [u EXCEPT !.block = x]
                                         IN IsRead(v) /\ v.value = u.value /\ v.block = x
    /\ \A b \in Int : IsRead(Reading(b)) /\ Reading(b).value = b /\ Reading(b).block = 0
    /\ \A v : IsRead(v) => v.ok = TRUE /\ v.value \in Int /\ v.block \in Int /\ ~InBlock(v)
<1>1. Failed.ok = FALSE /\ ~InBlock(Failed)
  BY DEF Failed, InBlock
<1>2. ASSUME NEW s
      PROVE  /\ Status(s).ok = TRUE /\ Status(s).status = s /\ "status" \in DOMAIN Status(s)
             /\ InBlock(Status(s)) <=> s \in {"mined", "confirmed"}
  <2>1. Status(s).ok = TRUE /\ Status(s).status = s /\ "status" \in DOMAIN Status(s)
    BY DEF Status
  <2> QED
    BY <2>1 DEF InBlock
<1>3. ASSUME NEW b \in Int, NEW x \in Int
      PROVE  LET v == [Reading(b) EXCEPT !.block = x]
             IN IsRead(v) /\ v.value = b /\ v.block = x
  BY DEF Reading, IsRead
<1>3a. ASSUME NEW u, IsRead(u), NEW x \in Int
       PROVE  LET v == [u EXCEPT !.block = x]
              IN IsRead(v) /\ v.value = u.value /\ v.block = x
  BY <1>3a DEF IsRead
<1>4. ASSUME NEW b \in Int PROVE IsRead(Reading(b)) /\ Reading(b).value = b /\ Reading(b).block = 0
  BY DEF Reading, IsRead
<1>5. ASSUME NEW v, IsRead(v) PROVE v.ok = TRUE /\ v.value \in Int /\ v.block \in Int /\ ~InBlock(v)
  <2>1. v.ok = TRUE /\ v.value \in Int /\ v.block \in Int /\ DOMAIN v = {"ok", "value", "block"}
    BY <1>5 DEF IsRead
  <2> QED
    BY <2>1 DEF InBlock
<1> QED
  BY <1>1, <1>2, <1>3, <1>3a, <1>4, <1>5

\* Requests are about a block of the chain or about the latest.
LEMMA RequestFacts ==
    ASSUME Shapes, NEW c \in DOMAIN req
    PROVE  c \in Calls /\ Kind(c) \in Kinds /\ Block(c) \in Nat
<1>1. DOMAIN req \subseteq Calls /\ req \in [DOMAIN req -> Requests]
  BY ProxyAssumption DEF Shapes
<1>2. req[c] \in Requests
  BY <1>1
<1>3. req[c].kind \in Kinds /\ req[c].block \in 0..MaxHead
  BY <1>2 DEF Requests
<1> QED
  BY <1>1, <1>3, ProxyAssumption DEF Kind, Block

\* A set of numbers has a smallest one.
LEMMA Smallest ==
    ASSUME NEW T \in SUBSET Nat, T # {}
    PROVE  \E m \in T : \A n \in T : m <= n
<1> DEFINE R == OpToRel(<, Nat)
<1>1. \A n, m \in Nat : n < m => <<n, m>> \in R
  BY Zenon DEF OpToRel
<1>2. IsWellFoundedOn(R, Nat)
  BY NatLessThanWellFounded, Zenon
<1> HIDE DEF R
<1>3. PICK m \in T : \A y \in T : ~(<<y, m>> \in R)
  BY <1>2, WFMin
<1>4. ASSUME NEW n \in T PROVE m <= n
  <2>1. n \in Nat /\ m \in Nat /\ ~(n < m)
    BY <1>1, <1>3
  <2> QED
    BY <2>1
<1> QED
  BY <1>4

\* The queue has a first item: of the lowest priority the oldest.
LEMMA FirstIsItem ==
    ASSUME Shapes, items # <<>>
    PROVE  First \in DOMAIN items /\ items[First] \in DOMAIN req
<1>1. items \in Seq(DOMAIN req) /\ Len(items) \in Nat \ {0} /\ DOMAIN items = 1..Len(items)
  BY DEF Shapes
<1>2. \A i \in DOMAIN items : items[i] \in DOMAIN req
  BY <1>1
<1>3. \A i \in DOMAIN items : Priority(items[i]) \in {0, 1, 2}
  BY Zenon DEF Priority
<1> DEFINE P == {Priority(items[i]) : i \in DOMAIN items}
<1>4. P \in SUBSET Nat /\ P # {}
  <2>1. 1 \in DOMAIN items
    BY <1>1
  <2> QED
    BY <1>3, <2>1
<1>5. PICK p \in P : \A q \in P : p <= q
  <2> HIDE DEF P
  <2> QED
    BY <1>4, Smallest
<1> DEFINE T == {i \in DOMAIN items : Priority(items[i]) = p}
<1>6. T \in SUBSET Nat /\ T # {}
  BY <1>1
<1>7. PICK f \in T : \A j \in T : f <= j
  <2> HIDE DEF T
  <2> QED
    BY <1>6, Smallest
<1>8. ASSUME NEW j \in DOMAIN items
      PROVE  \/ Priority(items[f]) < Priority(items[j])
             \/ Priority(items[f]) = Priority(items[j]) /\ f <= j
  <2>1. Priority(items[f]) = p /\ p <= Priority(items[j])
    BY <1>5, <1>7
  <2>2. Priority(items[j]) = p => f <= j
    BY <1>7
  <2>3. Priority(items[j]) \in Nat /\ p \in Nat
    BY <1>3, <1>4
  <2> QED
    BY <2>1, <2>2, <2>3
<1>9. \E i \in DOMAIN items : \A j \in DOMAIN items :
        \/ Priority(items[i]) < Priority(items[j])
        \/ Priority(items[i]) = Priority(items[j]) /\ i <= j
  BY <1>7, <1>8
<1>10. First \in DOMAIN items
  BY <1>9 DEF First
<1> QED
  BY <1>2, <1>10

\* No call has begun at first.
LEMMA InitAInv == Init => AInv
<1> SUFFICES ASSUME Init PROVE AInv
  OBVIOUS
<1>1. Shapes
  BY DEF Init, Shapes
<1>2. CacheOK
  BY DEF Init, CacheOK
<1>3. \A c \in Calls : CallOK(c)
  BY DEF Init, CallOK
<1> QED
  BY <1>1, <1>2, <1>3 DEF AInv

\* A call that does not move is not disturbed by the chain's progress.
LEMMA CallKept ==
    ASSUME Shapes, NEW c \in Calls, CallOK(c), req' = req,
           head' \in Nat, head <= head', tx > 0 => tx' > 0,
           pc'[c] = pc[c], answer'[c] = answer[c], floor'[c] = floor[c]
    PROVE  CallOK(c)'
<1>1. Kind(c)' = Kind(c) /\ Block(c)' = Block(c)
  BY DEF Kind, Block
<1>2. Answered(c) => Answered(c)'
  BY <1>1 DEF Answered, Sound
<1>3. pc[c] = "number" => answer[c].value <= head'
  BY AnswerFacts DEF CallOK, Shapes
<1> QED
  BY <1>1, <1>2, <1>3 DEF CallOK

\* Nor is what the cache holds.
LEMMA CacheKept ==
    ASSUME CacheOK, tx > 0 => tx' > 0,
           DOMAIN cache' \subseteq DOMAIN cache,
           \A k \in DOMAIN cache' : cache'[k].value = cache[k].value
    PROVE  CacheOK'
  BY DEF CacheOK, Sound

-----------------------------------------------------------------------------
\* A step of one call: it is enough to look at that call and at the cache.
LEMMA OneCall ==
    ASSUME AInv, NEW c \in Calls,
           UNCHANGED <<req, head, tx, items>>, known' => tx > 0,
           DOMAIN pc' = Calls, DOMAIN answer' = Calls, DOMAIN floor' = Calls,
           \A d \in Calls \ {c} : pc'[d] = pc[d] /\ answer'[d] = answer[d] /\ floor'[d] = floor[d],
           CallOK(c)', CacheOK'
    PROVE  AInv'
<1>1. Shapes'
  BY DEF AInv, Shapes
<1>2. ASSUME NEW d \in Calls \ {c} PROVE CallOK(d)'
  <2>1. Shapes /\ CallOK(d) /\ head' \in Nat /\ head <= head' /\ (tx > 0 => tx' > 0)
    BY DEF AInv, Shapes
  <2> QED
    BY <2>1, CallKept
<1> QED
  BY <1>1, <1>2 DEF AInv

\* The chain goes on, timers run out, entries expire.
LEMMA SurroundingsStep ==
    ASSUME AInv,
           \/ NewBlock \/ TxArrives \/ ResetTimeoutPasses \/ cleanup \/ Stop \/ UNCHANGED vars
           \/ \E c \in Calls : ContextEnds(c)
           \/ \E w \in Workers : WorkerStops(w)
           \/ \E k \in DOMAIN cache : EntryExpires(k)
    PROVE  AInv'
<1>1. /\ UNCHANGED <<req, pc, answer, items, known, floor>>
  BY DEF NewBlock, TxArrives, ResetTimeoutPasses, cleanup, Stop, ContextEnds, WorkerStops, EntryExpires,
         vars, chain, pool, history
<1>2. head' \in Nat /\ head <= head' /\ tx' \in Int /\ (tx > 0 => tx' > 0)
  <2>1. head \in Nat /\ tx \in Int
    BY DEF AInv, Shapes
  <2>2. CASE NewBlock
    BY <2>1, <2>2 DEF NewBlock
  <2>3. CASE TxArrives
    BY <2>1, <2>3 DEF TxArrives
  <2>4. CASE UNCHANGED <<head, tx>>
    BY <2>1, <2>4
  <2> QED
    BY <2>2, <2>3, <2>4 DEF ResetTimeoutPasses, cleanup, Stop, ContextEnds, WorkerStops, EntryExpires,
                            vars, chain
<1>3. /\ DOMAIN cache' \subseteq DOMAIN cache
      /\ \A k \in DOMAIN cache' : cache'[k].value = cache[k].value
  <2>1. CASE UNCHANGED cache
    BY <2>1
  <2>2. CASE cleanup
    BY <2>2 DEF cleanup, Drop
  <2>3. ASSUME NEW k \in DOMAIN cache, EntryExpires(k)
        PROVE  DOMAIN cache' = DOMAIN cache /\ \A l \in DOMAIN cache : cache'[l].value = cache[l].value
    <3>1. cache' = [cache EXCEPT ![k] = [cache[k] EXCEPT !.live = FALSE]]
      BY <2>3 DEF EntryExpires
    <3> QED
      BY <3>1
  <2> QED
    BY <2>1, <2>2, <2>3 DEF NewBlock, TxArrives, ResetTimeoutPasses, Stop, ContextEnds, WorkerStops,
                            vars, caching
<1>4. Shapes'
  BY <1>1, <1>2 DEF AInv, Shapes
<1>5. CacheOK'
  BY <1>2, <1>3, CacheKept DEF AInv
<1>6. ASSUME NEW c \in Calls PROVE CallOK(c)'
  BY <1>1, <1>2, CallKept DEF AInv
<1> QED
  BY <1>4, <1>5, <1>6 DEF AInv

\* A call begins, is refused or is let through.
LEMMA BeginStep ==
    ASSUME AInv, NEW c \in Calls,
           Call(c) \/ RateLimited(c) \/ Gate(c) \/ InvalidRequest(c) \/ RejectCall(c) \/ NodeFails(c)
             \/ TransactionReceipt(c)
    PROVE  AInv'
<1> USE DEF AInv, Shapes
<1>1. /\ UNCHANGED <<req, head, tx, items, cache, known>>
      /\ \/ answer' = answer /\ floor' = [floor EXCEPT ![c] = known]
            /\ pc' = [pc EXCEPT ![c] = "gate"] /\ c \in DOMAIN req
         \/ floor' = floor /\ pc' = [pc EXCEPT ![c] = "return"] /\ answer' = [answer EXCEPT ![c] = Failed]
            /\ pc[c] # "idle"
         \/ floor' = floor /\ answer' = answer /\ pc[c] # "idle"
            /\ \/ pc' = [pc EXCEPT ![c] = "lookup"] \/ pc' = [pc EXCEPT ![c] = "gate"]
               \/ pc' = [pc EXCEPT ![c] = "confirmations"] /\ pc[c] = "receipt"
  BY DEF Call, RateLimited, Gate, InvalidRequest, RejectCall, NodeFails, TransactionReceipt,
         Goto, Say, Returns, chain, pool, caching, history
<1>2. CacheOK'
  BY <1>1 DEF CacheOK, Sound
<1>3. CallOK(c)
  OBVIOUS
<1>4. CallOK(c)'
  <2>1. CASE /\ floor' = [floor EXCEPT ![c] = known] /\ pc' = [pc EXCEPT ![c] = "gate"] /\ c \in DOMAIN req
    BY <1>1, <2>1 DEF CallOK
  <2>2. CASE /\ floor' = floor /\ pc' = [pc EXCEPT ![c] = "return"]
             /\ answer' = [answer EXCEPT ![c] = Failed] /\ pc[c] # "idle"
    BY <1>1, <1>3, <2>2 DEF CallOK
  <2>3. CASE /\ floor' = floor /\ answer' = answer /\ pc[c] # "idle"
             /\ \/ pc' = [pc EXCEPT ![c] = "lookup"] \/ pc' = [pc EXCEPT ![c] = "gate"]
                \/ pc' = [pc EXCEPT ![c] = "confirmations"] /\ pc[c] = "receipt"
    BY <1>1, <1>3, <2>3 DEF CallOK, Kind
  <2> QED
    BY <1>1, <2>1, <2>2, <2>3
<1>5. /\ DOMAIN pc' = Calls /\ DOMAIN answer' = Calls /\ DOMAIN floor' = Calls
      /\ \A d \in Calls \ {c} : pc'[d] = pc[d] /\ answer'[d] = answer[d] /\ floor'[d] = floor[d]
  BY <1>1
<1> QED
  BY <1>1, <1>2, <1>4, <1>5, OneCall

\* An answer from the cache is one that was stored under the same question.
LEMMA LookupStep == ASSUME AInv, NEW c \in Calls, Lookup(c) PROVE AInv'
<1> USE DEF AInv, Shapes
<1>1. /\ UNCHANGED <<req, head, tx, items, known, floor>> /\ pc[c] = "lookup"
      /\ \/ /\ Key(c) \in DOMAIN cache /\ Usable(cache[Key(c)].value)
            /\ pc' = [pc EXCEPT ![c] = "return"] /\ answer' = [answer EXCEPT ![c] = cache[Key(c)].value]
         \/ pc' = [pc EXCEPT ![c] = "node"] /\ answer' = answer
  BY DEF Lookup, Goto, Say, Returns, chain, pool, history
<1>2. /\ DOMAIN cache' \subseteq DOMAIN cache
      /\ \A k \in DOMAIN cache' : cache'[k].value = cache[k].value
  BY DEF Lookup, removeEntry, Drop, caching
<1>3. CacheOK'
  BY <1>1, <1>2, CacheKept
<1>4. CallOK(c)'
  <2>1. CASE pc' = [pc EXCEPT ![c] = "node"] /\ answer' = answer
    BY <1>1, <2>1 DEF CallOK
  <2>2. CASE /\ Key(c) \in DOMAIN cache /\ Usable(cache[Key(c)].value)
             /\ pc' = [pc EXCEPT ![c] = "return"] /\ answer' = [answer EXCEPT ![c] = cache[Key(c)].value]
    <3>1. PICK v : v = cache[Key(c)].value
      OBVIOUS
    <3>2. Sound(v, Kind(c), Block(c))
      BY <2>2, <3>1 DEF CacheOK, Key
    <3>3. Kind(c) = "status" => InBlock(v)
      BY <2>2, <3>1, <3>2, AnswerFacts DEF Sound, Known, Usable
    <3>4. pc'[c] = "return" /\ answer'[c] = v /\ floor'[c] = floor[c]
      BY <1>1, <2>2, <3>1
    <3>5. Kind(c)' = Kind(c) /\ Block(c)' = Block(c)
      BY <1>1 DEF Kind, Block
    <3>6. Answered(c)'
      BY <1>1, <3>2, <3>3, <3>4, <3>5 DEF Answered, Sound
    <3> QED
      BY <1>1, <3>4, <3>5, <3>6 DEF CallOK
  <2> QED
    BY <1>1, <2>1, <2>2
<1>5. /\ DOMAIN pc' = Calls /\ DOMAIN answer' = Calls /\ DOMAIN floor' = Calls
      /\ \A d \in Calls \ {c} : pc'[d] = pc[d] /\ answer'[d] = answer[d] /\ floor'[d] = floor[d]
  BY <1>1
<1> QED
  BY <1>1, <1>3, <1>4, <1>5, OneCall

\* Contract calls, balances, nonces and codes: read at the block asked for, or
\* at the head, which a number asked for later can only be behind.
LEMMA ReadStep ==
    ASSUME AInv, NEW c \in Calls,
           ContractCall(c) \/ GetBalance(c) \/ GetNonce(c) \/ GetCode(c) \/ BlockNumber(c)
             \/ GetInternalTransactions(c)
    PROVE  AInv'
<1> USE DEF AInv, Shapes
<1>1. UNCHANGED <<req, head, tx, items, cache, known, floor>> /\ pc[c] # "idle"
  BY DEF ContractCall, GetBalance, GetNonce, GetCode, ReadState, BlockNumber, GetInternalTransactions,
         chain, pool, caching, history
<1>2. c \in DOMAIN req /\ Block(c) \in Nat /\ head \in Nat /\ tx \in Int /\ Asked(c) \in Int
  <2>1. c \in DOMAIN req
    BY <1>1 DEF CallOK
  <2>2. Block(c) \in Nat
    BY <2>1, RequestFacts
  <2> QED
    BY <2>1, <2>2 DEF Asked
<1>3. CacheOK'
  BY <1>1 DEF CacheOK, Sound
<1>4. Kind(c)' = Kind(c) /\ Block(c)' = Block(c)
  BY <1>1 DEF Kind, Block
<1>5. PICK v, l : /\ pc' = [pc EXCEPT ![c] = l] /\ answer' = [answer EXCEPT ![c] = v]
                  /\ l \in {"store", "number"} /\ IsRead(v) /\ Kind(c) # "status"
                  /\ l = "number" => Kind(c) \in {"balance", "nonce", "code"} /\ Block(c) = 0 /\ v.value <= head
                  /\ l = "store" /\ Kind(c) \in Reads =>
                        (Block(c) # 0 => v.value = Block(c)) /\ (v.block # 0 => v.value <= v.block)
  <2>1. CASE ContractCall(c)
    <3>1. /\ pc' = [pc EXCEPT ![c] = "store"] /\ answer' = [answer EXCEPT ![c] = Reading(Asked(c))]
          /\ Kind(c) # "status"
      BY <2>1 DEF ContractCall, Goto, Say
    <3>2. Block(c) # 0 => Asked(c) = Block(c)
      BY DEF Asked
    <3>3. IsRead(Reading(Asked(c))) /\ Reading(Asked(c)).value = Asked(c) /\ Reading(Asked(c)).block = 0
      BY <1>2, AnswerFacts
    <3> QED
      BY <3>1, <3>2, <3>3
  <2>2. CASE GetBalance(c) \/ GetNonce(c) \/ GetCode(c)
    <3>1. /\ pc' = [pc EXCEPT ![c] = IF Block(c) = 0 THEN "number" ELSE "store"]
          /\ answer' = [answer EXCEPT ![c] = [Reading(Asked(c)) EXCEPT !.block = Block(c)]]
          /\ Kind(c) \in {"balance", "nonce", "code"}
      BY <2>2 DEF GetBalance, GetNonce, GetCode, ReadState, Goto, Say
    <3>2. PICK v : v = [Reading(Asked(c)) EXCEPT !.block = Block(c)]
      OBVIOUS
    <3>3. IsRead(v) /\ v.value = Asked(c) /\ v.block = Block(c)
      BY <1>2, <3>2, AnswerFacts
    <3>3a. answer' = [answer EXCEPT ![c] = v] /\ Kind(c) # "status"
      BY <3>1, <3>2
    <3>4. CASE Block(c) = 0
      <4>1. pc' = [pc EXCEPT ![c] = "number"]
        BY <3>1, <3>4
      <4>2. v.value <= head
        BY <1>2, <3>3, <3>4 DEF Asked
      <4> QED
        BY <3>1, <3>3, <3>3a, <3>4, <4>1, <4>2
    <3>5. CASE Block(c) # 0
      <4>1. pc' = [pc EXCEPT ![c] = "store"]
        BY <3>1, <3>5
      <4>2. v.value = Block(c) /\ v.value <= v.block
        BY <1>2, <3>3, <3>5 DEF Asked
      <4> QED
        BY <3>3, <3>3a, <4>1, <4>2
    <3> QED
      BY <3>4, <3>5
  <2>3. CASE BlockNumber(c)
    <3>1. PICK b \in {0, head} : answer' = [answer EXCEPT ![c] = [answer[c] EXCEPT !.block = b]]
      BY <2>3 DEF BlockNumber, Say
    <3>2. pc[c] = "number" /\ pc' = [pc EXCEPT ![c] = "store"]
      BY <2>3 DEF BlockNumber, Goto
    <3>3. /\ Kind(c) \in {"balance", "nonce", "code"} /\ Block(c) = 0
          /\ IsRead(answer[c]) /\ answer[c].value <= head
      BY <3>2 DEF CallOK
    <3>4. PICK v : v = [answer[c] EXCEPT !.block = b]
      OBVIOUS
    <3>5. IsRead(v) /\ v.value = answer[c].value /\ v.block = b
      <4>1. b \in Int
        BY <1>2
      <4> QED
        BY <3>3, <3>4, <4>1, AnswerFacts
    <3>6. v.block # 0 => v.value <= v.block
      BY <3>1, <3>3, <3>5
    <3> QED
      BY <3>1, <3>2, <3>3, <3>4, <3>5, <3>6
  <2>4. CASE GetInternalTransactions(c)
    <3>1. /\ pc' = [pc EXCEPT ![c] = "store"] /\ answer' = [answer EXCEPT ![c] = Reading(tx)]
          /\ Kind(c) = "trace"
      BY <2>4 DEF GetInternalTransactions, Goto, Say
    <3> QED
      BY <1>2, <3>1, AnswerFacts DEF Reads
  <2> QED
    BY <2>1, <2>2, <2>3, <2>4
<1>6. pc'[c] = l /\ answer'[c] = v /\ floor'[c] = floor[c]
  BY <1>1, <1>5
<1>7. ~InBlock(v)
  BY <1>5, AnswerFacts
<1>8. CASE l = "store"
  <2>1. Answered(c)'
    BY <1>4, <1>5, <1>6, <1>7, <1>8 DEF Answered, Sound
  <2> QED
    BY <1>1, <1>2, <1>6, <1>8, <2>1, OneCall, <1>3, <1>5 DEF CallOK
<1>9. CASE l = "number"
  BY <1>1, <1>2, <1>3, <1>4, <1>5, <1>6, <1>9, OneCall DEF CallOK
<1> QED
  BY <1>5, <1>8, <1>9

\* The status of a transaction: nothing but a block follows a block.
LEMMA StatusStep ==
    ASSUME AInv, NEW c \in Calls, TransactionByHash(c) \/ NoReceipt(c) \/ Confirmations(c)
    PROVE  AInv'
<1> USE DEF AInv, Shapes
<1>1. /\ UNCHANGED <<req, head, tx, items, cache, known>> /\ pc[c] # "idle"
      /\ Kind(c) = "status" /\ Kind(c)' = Kind(c) /\ Block(c)' = Block(c)
  BY DEF TransactionByHash, NoReceipt, Confirmations, chain, pool, caching, history, CallOK, Kind, Block
<1>2. c \in DOMAIN req
  BY <1>1 DEF CallOK
<1>3. CacheOK'
  BY <1>1 DEF CacheOK, Sound
<1>4. PICK s, l : /\ pc' = [pc EXCEPT ![c] = l]
                  /\ \/ l = "return" /\ s = "not_found" /\ ~floor[c]
                     \/ l = "store" /\ s = "pending" /\ ~floor'[c]
                     \/ l = "store" /\ s \in {"mined", "confirmed"} /\ tx > 0
                     \/ l = "receipt" /\ tx > 0
                  /\ IF l = "receipt" THEN answer' = answer ELSE answer' = [answer EXCEPT ![c] = Status(s)]
                  /\ floor' = floor \/ floor' = [floor EXCEPT ![c] = FALSE]
  <2>1. floor[c] => tx > 0
    BY DEF CallOK
  <2>2. CASE TransactionByHash(c)
    <3>1. /\ floor' = floor
          /\ \/ tx = -1 /\ pc' = [pc EXCEPT ![c] = "return"] /\ answer' = [answer EXCEPT ![c] = Status("not_found")]
             \/ tx = 0 /\ pc' = [pc EXCEPT ![c] = "store"] /\ answer' = [answer EXCEPT ![c] = Status("pending")]
             \/ tx > 0 /\ pc' = [pc EXCEPT ![c] = "receipt"] /\ answer' = answer
      BY <2>2 DEF TransactionByHash, Goto, Say, Returns, history
    <3>2. tx = -1 \/ tx = 0 => ~floor[c]
      BY <2>1
    <3> QED
      BY <3>1, <3>2
  <2>3. CASE NoReceipt(c)
    BY <2>3 DEF NoReceipt, Goto, Say
  <2>4. CASE Confirmations(c)
    <3>1. /\ floor' = floor /\ pc[c] = "confirmations" /\ pc' = [pc EXCEPT ![c] = "store"]
          /\ \E s \in {"mined", "confirmed"} : answer' = [answer EXCEPT ![c] = Status(s)]
      BY <2>4 DEF Confirmations, Goto, Say, history
    <3>2. tx > 0
      BY <3>1 DEF CallOK
    <3> QED
      BY <3>1, <3>2
  <2> QED
    BY <2>2, <2>3, <2>4
<1>5. /\ DOMAIN pc' = Calls /\ DOMAIN answer' = Calls /\ DOMAIN floor' = Calls
      /\ \A d \in Calls \ {c} : pc'[d] = pc[d] /\ answer'[d] = answer[d] /\ floor'[d] = floor[d]
  BY <1>4
<1>6. /\ pc'[c] = l /\ (l # "receipt" => answer'[c] = Status(s))
      /\ (floor'[c] => floor[c])
  BY <1>4
<1>7. floor'[c] => tx' > 0
  BY <1>1, <1>6 DEF CallOK
<1>8. CallOK(c)'
  <2>1. CASE l = "return" /\ s = "not_found" /\ ~floor[c]
    BY <1>1, <1>2, <1>6, <1>7, <2>1 DEF CallOK
  <2>2. CASE l = "store"
    <3>1. Status(s) \in Known /\ (InBlock(Status(s)) => tx > 0) /\ (floor'[c] => InBlock(Status(s)))
      BY <1>4, <2>2, AnswerFacts DEF Known
    <3>2. Answered(c)'
      BY <1>1, <1>6, <2>2, <3>1 DEF Answered, Sound, Reads
    <3> QED
      BY <1>1, <1>2, <1>6, <1>7, <2>2, <3>2 DEF CallOK
  <2>3. CASE l = "receipt" /\ tx > 0
    BY <1>1, <1>2, <1>6, <1>7, <2>3 DEF CallOK
  <2> QED
    BY <1>4, <2>1, <2>2, <2>3
<1> QED
  BY <1>1, <1>3, <1>5, <1>8, OneCall

\* The cache takes the answer of a call under its question.
LEMMA StoreStep == ASSUME AInv, NEW c \in Calls, Store(c) PROVE AInv'
<1> USE DEF AInv, Shapes
<1>1. /\ UNCHANGED <<req, head, tx, items, known, floor, answer>>
      /\ pc[c] = "store" /\ pc' = [pc EXCEPT ![c] = "return"]
  BY DEF Store, Goto, chain, pool, history
<1>2. PICK D \in SUBSET DOMAIN cache :
        cache' = [x \in D \cup {Key(c)} |->
                    IF x = Key(c) THEN [value |-> answer[c], live |-> TRUE] ELSE cache[x]]
  BY DEF Store, Set
<1>3. Answered(c) /\ c \in DOMAIN req
  BY <1>1 DEF CallOK
<1>4. CacheOK'
  <2> SUFFICES ASSUME NEW k \in DOMAIN cache' PROVE Sound(cache'[k].value, k[1], k[2])
    BY <1>1 DEF CacheOK, Sound
  <2>1. CASE k = Key(c)
    <3>1. cache'[k].value = answer[c] /\ k[1] = Kind(c) /\ k[2] = Block(c)
      BY <1>2, <2>1 DEF Key
    <3> QED
      BY <1>1, <1>3, <3>1 DEF Answered, Sound
  <2>2. CASE k # Key(c)
    <3>1. k \in DOMAIN cache /\ cache'[k] = cache[k]
      BY <1>2, <2>2
    <3> QED
      BY <1>1, <3>1 DEF CacheOK, Sound
  <2> QED
    BY <2>1, <2>2
<1>5. CallOK(c)'
  <2>1. Answered(c)' /\ Kind(c)' = Kind(c)
    BY <1>1, <1>3 DEF Answered, Sound, Kind, Block
  <2>2. pc'[c] = "return" /\ (floor'[c] => tx' > 0)
    BY <1>1 DEF CallOK
  <2> QED
    BY <1>1, <1>3, <2>1, <2>2 DEF CallOK
<1>6. DOMAIN pc' = Calls /\ \A d \in Calls \ {c} : pc'[d] = pc[d]
  BY <1>1
<1> QED
  BY <1>1, <1>4, <1>5, <1>6, OneCall

\* A call ends: what it has learnt of the transaction is known from then on.
LEMMA FinishStep ==
    ASSUME AInv, NEW c \in Calls, pc[c] = "return", Finish(c), UNCHANGED items
    PROVE  AInv'
<1> USE DEF AInv, Shapes
<1>1. /\ UNCHANGED <<req, head, tx, cache, floor>> /\ known' = (known \/ InBlock(answer[c]))
      /\ pc' = [pc EXCEPT ![c] = "done"] /\ answer' = [answer EXCEPT ![c] = None]
  BY DEF Finish, Goto, Say, chain, caching
<1>2. InBlock(answer[c]) => tx > 0
  BY AnswerFacts DEF CallOK, Answered, Sound
<1>3. CacheOK'
  BY <1>1 DEF CacheOK, Sound
<1>4. CallOK(c)'
  BY <1>1 DEF CallOK
<1>5. /\ DOMAIN pc' = Calls /\ DOMAIN answer' = Calls
      /\ \A d \in Calls \ {c} : pc'[d] = pc[d] /\ answer'[d] = answer[d] /\ floor'[d] = floor[d]
  BY <1>1
<1> QED
  BY <1>1, <1>2, <1>3, <1>4, <1>5, OneCall

\* The queue and the workers hand calls on and touch no answer but a refusal.
LEMMA QueueStep ==
    ASSUME AInv,
           \/ \E c \in Calls : SubmitAndWait(c)
           \/ \E w \in Workers : Dequeue(w) \/ Retry(w)
    PROVE  AInv'
<1> USE DEF AInv, Shapes
<1>1. UNCHANGED <<req, head, tx, cache, known>>
  BY DEF SubmitAndWait, Dequeue, Retry, chain, caching, history
<1>2. CacheOK'
  BY <1>1 DEF CacheOK, Sound
<1>3. ASSUME NEW c \in Calls, SubmitAndWait(c) PROVE AInv'
  <2>1. /\ c \in DOMAIN req /\ floor' = [floor EXCEPT ![c] = known]
        /\ \/ items' = Append(items, c) /\ pc' = [pc EXCEPT ![c] = "queued"] /\ answer' = answer
           \/ items' = items /\ pc' = [pc EXCEPT ![c] = "done"] /\ answer' = [answer EXCEPT ![c] = Failed]
    BY <1>3 DEF SubmitAndWait, Queued, Goto, Say
  <2>2. items' \in Seq(DOMAIN req)
    BY <2>1
  <2>3. Shapes'
    BY <1>1, <2>1, <2>2
  <2>4. CallOK(c)'
    BY <1>1, <2>1 DEF CallOK
  <2>5. ASSUME NEW d \in Calls \ {c} PROVE CallOK(d)'
    <3>1. pc'[d] = pc[d] /\ answer'[d] = answer[d] /\ floor'[d] = floor[d]
      BY <2>1
    <3>2. Shapes /\ CallOK(d) /\ head' \in Nat /\ head <= head' /\ (tx > 0 => tx' > 0)
      BY <1>1
    <3> QED
      BY <1>1, <3>1, <3>2, CallKept
  <2> QED
    BY <1>2, <2>3, <2>4, <2>5
<1>4. ASSUME NEW w \in Workers, Dequeue(w) PROVE AInv'
  <2>1. First \in DOMAIN items /\ items[First] \in DOMAIN req
    BY <1>4, FirstIsItem DEF Dequeue
  <2>2. PICK c \in DOMAIN req : c = items[First]
    BY <2>1
  <2>3. c \in Calls /\ pc' = [pc EXCEPT ![c] = "handle"] /\ answer' = answer /\ floor' = floor
    BY <1>4, <2>2, RequestFacts DEF Dequeue, Goto, history
  <2>4. items' \in Seq(DOMAIN req)
    <3>1. items' = SubSeq(items, 1, First - 1) \o SubSeq(items, First + 1, Len(items))
      BY <1>4 DEF Dequeue, RemoveAt
    <3>2. items \in Seq(DOMAIN req) /\ First \in 1..Len(items) /\ Len(items) \in Nat
      BY <2>1
    <3>3. SubSeq(items, 1, First - 1) \in Seq(DOMAIN req) /\ SubSeq(items, First + 1, Len(items)) \in Seq(DOMAIN req)
      BY <3>2
    <3> QED
      BY <3>1, <3>3
  <2>5. Shapes'
    BY <1>1, <2>3, <2>4
  <2>6. CallOK(c)'
    BY <1>1, <2>3 DEF CallOK
  <2>7. ASSUME NEW d \in Calls \ {c} PROVE CallOK(d)'
    <3>1. pc'[d] = pc[d] /\ answer'[d] = answer[d] /\ floor'[d] = floor[d]
      BY <2>3
    <3>2. Shapes /\ CallOK(d) /\ head' \in Nat /\ head <= head' /\ (tx > 0 => tx' > 0)
      BY <1>1
    <3> QED
      BY <1>1, <3>1, <3>2, CallKept
  <2> QED
    BY <1>2, <2>3, <2>5, <2>6, <2>7
<1>5. ASSUME NEW w \in Workers, Retry(w) PROVE AInv'
  <2>1. PICK c \in Calls : /\ pc[c] = "return" /\ pc' = [pc EXCEPT ![c] = "handle"]
                           /\ answer' = answer /\ floor' = floor /\ items' = items
    BY <1>5 DEF Retry, Goto, history
  <2>2. CallOK(c)'
    BY <1>1, <2>1 DEF CallOK
  <2>3. DOMAIN pc' = Calls /\ \A d \in Calls \ {c} : pc'[d] = pc[d]
    BY <2>1
  <2> QED
    BY <1>1, <1>2, <2>1, <2>2, <2>3, OneCall
<1> QED
  BY <1>3, <1>4, <1>5

\* Every step keeps the answers sound.
LEMMA NextAInv == AInv /\ [Next]_vars => AInv'
<1> SUFFICES ASSUME AInv, [Next]_vars PROVE AInv'
  OBVIOUS
<1>1. CASE NewBlock \/ TxArrives \/ ResetTimeoutPasses \/ cleanup \/ Stop \/ UNCHANGED vars
  BY <1>1, SurroundingsStep
<1>2. ASSUME NEW c \in Calls,
             Call(c) \/ SubmitAndWait(c) \/ ContextEnds(c) \/ RateLimited(c) \/ RejectCall(c)
      PROVE  AInv'
  BY <1>2, BeginStep, QueueStep, SurroundingsStep
<1>3. ASSUME NEW c \in Calls, Step(c) PROVE AInv'
  <2>1. CASE Return(c)
    BY <2>1, FinishStep DEF Return, pool
  <2> QED
    BY <1>3, <2>1, BeginStep, LookupStep, ReadStep, StatusStep, StoreStep DEF Step
<1>4. ASSUME NEW w \in Workers, Work(w) PROVE AInv'
  <2>1. CASE Respond(w)
    BY <2>1, FinishStep DEF Respond
  <2> QED
    BY <1>4, <2>1, QueueStep, SurroundingsStep DEF Work
<1>5. ASSUME NEW k \in DOMAIN cache, EntryExpires(k) PROVE AInv'
  BY <1>5, SurroundingsStep
<1> QED
  BY <1>1, <1>2, <1>3, <1>4, <1>5 DEF Next

\* An answer, from the node or from the cache, is about the block that was
\* asked for, and names no earlier block than the one it was read at
\* (proxy.go:110, 359).
THEOREM AnswersAreAboutTheQuestion == Spec => []AnswersTheQuestion
<1>1. AInv => AnswersTheQuestion
  <2> SUFFICES ASSUME AInv, NEW c \in Calls, pc[c] = "return", answer[c].ok,
                      Kind(c) \in {"balance", "nonce", "code", "call"}
               PROVE  /\ Block(c) # 0 => answer[c].value = Block(c)
                      /\ answer[c].block # 0 => answer[c].value <= answer[c].block
    BY DEF AnswersTheQuestion
  <2>1. Answered(c)
    BY AnswerFacts DEF AInv, CallOK
  <2> QED
    BY <2>1 DEF Answered, Sound, Reads
<1> QED
  BY <1>1, InitAInv, NextAInv, PTL DEF Spec

\* Whoever asks for the status after somebody was told that the transaction is
\* in a block hears of a block too, although slower calls may store older
\* answers meanwhile, unless the node fails to deliver the receipt
\* (proxy.go:248).
THEOREM StatusStaysInBlock == Spec => []StatusNeverGoesBack
<1>1. AInv => StatusNeverGoesBack
  <2> SUFFICES ASSUME AInv, NEW c \in Calls, pc[c] = "return", Kind(c) = "status", answer[c].ok, floor[c]
               PROVE  InBlock(answer[c])
    BY DEF StatusNeverGoesBack
  <2>1. Answered(c)
    BY AnswerFacts DEF AInv, CallOK
  <2> QED
    BY <2>1 DEF Answered
<1> QED
  BY <1>1, InitAInv, NextAInv, PTL DEF Spec
=============================================================================
