------------------------------ MODULE RpcProxy ------------------------------
(***************************************************************************)
(* pkg/rpcproxy: requests of API clients that are answered by the chain    *)
(* node.  A call passes a rate limiter and a circuit breaker, looks in a   *)
(* cache, asks the node, tells the breaker how that went and fills the     *)
(* cache.  Calls run concurrently, each one directly or through a priority *)
(* queue served by workers that try again.                                 *)
(*                                                                         *)
(* What the node answers changes with `head': a value read at a block is   *)
(* that block's number.  One transaction is looked at: tx is -1 while the  *)
(* node does not know it, 0 while it is pending, then its block.           *)
(***************************************************************************)
EXTENDS Integers, Sequences, FiniteSets, SequencesExt

CONSTANTS
    Calls,            \* requests, each made once
    Scenarios,        \* what calls are made: functions from calls to Requests
    Workers,          \* config.NumWorkers goroutines
    QueueSize,        \* config.QueueSize
    MaxRetries,       \* config.MaxRetries
    MaxSize,          \* capacity of the cache
    MaxFailures,      \* breaker: failures before it opens
    HalfOpenRequests, \* breaker: successes before it closes
    ConfirmedAfter,   \* confirmations of a confirmed transaction
    MaxHead,          \* bound on the chain
    None

Kinds == {"call", "balance", "nonce", "code", "trace", "status"}

\* block 0 stands for the latest; queued: the call is made with SubmitAndWait.
Requests == [kind : Kinds, block : 0..MaxHead, queued : BOOLEAN]

ASSUME ProxyAssumption ==
    /\ \A r \in Scenarios : DOMAIN r \subseteq Calls /\ r \in [DOMAIN r -> Requests]
    /\ QueueSize \in Nat \ {0} /\ MaxSize \in Nat \ {0} /\ MaxRetries \in Nat
    /\ MaxFailures \in Nat \ {0} /\ HalfOpenRequests \in Nat \ {0}
    /\ ConfirmedAfter \in Nat \ {0} /\ MaxHead \in Nat

VARIABLES
    req,               \* the requests of this behaviour
    head, tx,          \* the chain as the node sees it
    pc,                \* where each call is
    answer,            \* what it has learnt or returns
    attempt,           \* processRequest: attempts begun
    expired,           \* contexts that are done
    items,             \* heap of the queue, in order of arrival
    worker,            \* each worker: "dequeue", "gone" or the call it serves
    stopped,           \* the pool's context is cancelled and the queue closed
    circuit,           \* "closed", "open", "half"
    failures, successes,
    elapsed,           \* ResetTimeout has passed since the circuit opened
    cache,             \* key -> [value, live]; live until the entry expires
    lru,               \* keys, most recently used first
    known,             \* history: a status call has returned that tx is in a block
    floor              \* history: `known' when the call began

Kind(c) == req[c].kind
Block(c) == req[c].block
Queued == {c \in DOMAIN req : req[c].queued}

chain == <<req, head, tx>>
pool == <<attempt, expired, items, worker, stopped>>
breaker == <<circuit, failures, successes, elapsed>>
caching == <<cache, lru>>
history == <<known, floor>>
vars == <<chain, pc, answer, pool, breaker, caching, history>>

Running == {c \in Calls : pc[c] \notin {"idle", "queued", "done"}}

Init ==
    /\ req \in Scenarios
    /\ head = 1 /\ tx = -1
    /\ pc = [c \in Calls |-> "idle"] /\ answer = [c \in Calls |-> None]
    /\ attempt = [c \in Calls |-> 0] /\ expired = {}
    /\ items = <<>> /\ worker = [w \in Workers |-> "dequeue"] /\ stopped = FALSE
    /\ circuit = "closed" /\ failures = 0 /\ successes = 0 /\ elapsed = FALSE
    /\ cache = <<>> /\ lru = <<>>
    /\ known = FALSE /\ floor = [c \in Calls |-> FALSE]

-----------------------------------------------------------------------------
(* The node.                                                               *)

NewBlock ==
    /\ head < MaxHead
    /\ head' = head + 1
    /\ tx' \in IF tx = 0 THEN {0, head + 1} ELSE {tx}
    /\ UNCHANGED <<req, pc, answer, pool, breaker, caching, history>>

TxArrives ==
    /\ tx = -1
    /\ tx' = 0
    /\ UNCHANGED <<req, head, pc, answer, pool, breaker, caching, history>>

\* The timeout of a request in a worker.  When the context of a direct call
\* ends, its call of the node fails.
ContextEnds(c) ==
    /\ c \in (Queued \cap Running) \ expired
    /\ expired' = expired \cup {c}
    /\ UNCHANGED <<chain, pc, answer, attempt, items, worker, stopped, breaker, caching, history>>

-----------------------------------------------------------------------------
(* CircuitBreaker.                                                         *)

ResetTimeoutPasses ==
    /\ circuit = "open" /\ ~elapsed
    /\ elapsed' = TRUE
    /\ UNCHANGED <<chain, pc, answer, pool, circuit, failures, successes, caching, history>>

\* Allow: the first call after the timeout makes an open circuit half open.
Admits == \/ circuit = "closed"
          \/ circuit = "open" /\ elapsed
          \/ circuit = "half" /\ successes < HalfOpenRequests

Admit ==
    /\ Admits
    /\ circuit' = IF circuit = "open" THEN "half" ELSE circuit
    /\ successes' = IF circuit = "open" THEN 0 ELSE successes
    /\ UNCHANGED <<failures, elapsed>>

\* Mutant: the successes of the half-open circuit are not compared with the limit.
RecordSuccessUncounted ==
    /\ failures' = 0
    /\ successes' = IF circuit = "half" THEN successes + 1 ELSE successes
    /\ circuit' = IF circuit = "half" /\ successes' > HalfOpenRequests THEN "closed" ELSE circuit
    /\ UNCHANGED elapsed

RecordSuccess ==
    /\ failures' = 0
    /\ successes' = IF circuit = "half" THEN successes + 1 ELSE successes
    /\ circuit' = IF circuit = "half" /\ successes' >= HalfOpenRequests THEN "closed" ELSE circuit
    /\ UNCHANGED elapsed

RecordFailure ==
    /\ failures' = failures + 1
    /\ circuit' = IF circuit = "half" \/ failures' >= MaxFailures THEN "open" ELSE circuit
    /\ elapsed' = IF circuit' # circuit THEN FALSE ELSE elapsed
    /\ UNCHANGED successes

-----------------------------------------------------------------------------
(* Cache: least recently used, with a time to live.                        *)

Without(s, k) == SelectSeq(s, LAMBDA x : x # k)
Drop(f, ks) == [k \in DOMAIN f \ ks |-> f[k]]

Touch(k) == lru' = <<k>> \o Without(lru, k)

removeEntry(k) == cache' = Drop(cache, {k}) /\ lru' = Without(lru, k)

\* Set: an existing key is replaced, otherwise the oldest ones make room.
Set(k, v) ==
    LET room == IF k \in DOMAIN cache THEN Len(lru) ELSE MaxSize - 1
        evicted == {lru[i] : i \in room + 1..Len(lru)}
    IN  /\ lru' = <<k>> \o SelectSeq(lru, LAMBDA x : x # k /\ x \notin evicted)
        /\ cache' = [x \in (DOMAIN cache \ evicted) \cup {k} |->
                        IF x = k THEN [value |-> v, live |-> TRUE] ELSE cache[x]]

EntryExpires(k) ==
    /\ k \in DOMAIN cache /\ cache[k].live
    /\ cache' = [cache EXCEPT ![k].live = FALSE]
    /\ UNCHANGED <<chain, pc, answer, pool, breaker, lru, history>>

cleanup ==
    LET dead == {k \in DOMAIN cache : ~cache[k].live}
    IN  /\ dead # {}
        /\ cache' = Drop(cache, dead)
        /\ lru' = SelectSeq(lru, LAMBDA k : k \notin dead)
        /\ UNCHANGED <<chain, pc, answer, pool, breaker, history>>

\* Mutant: the key does not name the block.
KeyWithoutBlock(c) == <<Kind(c), 0>>

\* CacheKeyBuilder; one address, method and transaction per kind.
Key(c) == <<Kind(c), Block(c)>>

-----------------------------------------------------------------------------
(* A call, direct or within a worker.                                      *)

Goto(c, l) == pc' = [pc EXCEPT ![c] = l]
Say(c, a) == answer' = [answer EXCEPT ![c] = a]
Returns(c, a) == Goto(c, "return") /\ Say(c, a)
Failed == [ok |-> FALSE]
Reading(b) == [ok |-> TRUE, value |-> b, block |-> 0]
Status(s) == [ok |-> TRUE, status |-> s]

Call(c) ==
    /\ pc[c] = "idle" /\ c \in DOMAIN req \ Queued
    /\ Goto(c, "gate")
    /\ floor' = [floor EXCEPT ![c] = known]
    /\ UNCHANGED <<chain, answer, pool, breaker, caching, known>>

\* rateLimiter.Allow refuses.
RateLimited(c) ==
    /\ pc[c] = "gate"
    /\ Returns(c, Failed)
    /\ UNCHANGED <<chain, pool, breaker, caching, history>>

Gate(c) ==
    /\ pc[c] = "gate"
    /\ \/ Admit /\ Goto(c, "lookup") /\ UNCHANGED answer
       \/ ~Admits /\ Returns(c, Failed) /\ UNCHANGED breaker
    /\ UNCHANGED <<chain, pool, caching, history>>

\* handleRequest does not know these kinds.
InvalidRequest(c) ==
    /\ pc[c] = "handle"
    /\ IF Kind(c) \in {"call", "status", "trace"} THEN Goto(c, "gate") /\ UNCHANGED answer
       ELSE Returns(c, Failed)
    /\ UNCHANGED <<chain, pool, breaker, caching, history>>

\* Mutant: any answer is returned.
UsableAny(v) == TRUE

\* A pending status that was cached is not returned.
Usable(v) == "status" \in DOMAIN v => v.status # "pending"

Lookup(c) ==
    /\ pc[c] = "lookup"
    /\ \/ /\ Key(c) \in DOMAIN cache /\ cache[Key(c)].live
          /\ Touch(Key(c))
          /\ \/ Usable(cache[Key(c)].value) /\ Returns(c, cache[Key(c)].value)
             \/ ~Usable(cache[Key(c)].value) /\ Goto(c, "node") /\ UNCHANGED answer
          /\ UNCHANGED cache
       \/ /\ Key(c) \in DOMAIN cache /\ ~cache[Key(c)].live
          /\ removeEntry(Key(c)) /\ Goto(c, "node") /\ UNCHANGED answer
       \/ /\ Key(c) \notin DOMAIN cache
          /\ Goto(c, "node") /\ UNCHANGED <<answer, caching>>
    /\ UNCHANGED <<chain, pool, breaker, history>>

\* No ABI, no such method or parameters that do not fit it.
RejectCall(c) ==
    /\ pc[c] = "node" /\ Kind(c) = "call"
    /\ Returns(c, Failed)
    /\ UNCHANGED <<chain, pool, breaker, caching, history>>

NodeFails(c) ==
    /\ pc[c] = "node"
    /\ Returns(c, Failed) /\ RecordFailure
    /\ UNCHANGED <<chain, pool, caching, history>>

Asked(c) == IF Block(c) = 0 THEN head ELSE Block(c)

ContractCall(c) ==
    /\ pc[c] = "node" /\ Kind(c) = "call" /\ c \notin expired
    /\ Say(c, Reading(Asked(c))) /\ Goto(c, "store") /\ RecordSuccess
    /\ UNCHANGED <<chain, pool, caching, history>>

\* GetBalance, and in the same way GetNonce and GetCode: for the latest block
\* its number is asked for afterwards.
ReadState(c) ==
    /\ pc[c] = "node" /\ c \notin expired
    /\ Say(c, [Reading(Asked(c)) EXCEPT !.block = Block(c)])
    /\ Goto(c, IF Block(c) = 0 THEN "number" ELSE "store") /\ RecordSuccess
    /\ UNCHANGED <<chain, pool, caching, history>>
GetBalance(c) == pc[c] = "node" /\ Kind(c) = "balance" /\ ReadState(c)
GetNonce(c) == pc[c] = "node" /\ Kind(c) = "nonce" /\ ReadState(c)
GetCode(c) == pc[c] = "node" /\ Kind(c) = "code" /\ ReadState(c)

BlockNumber(c) ==
    /\ pc[c] = "number"
    /\ \E b \in {0} \cup (IF c \in expired THEN {} ELSE {head}) :
          Say(c, [answer[c] EXCEPT !.block = b])
    /\ Goto(c, "store")
    /\ UNCHANGED <<chain, pool, breaker, caching, history>>

GetInternalTransactions(c) ==
    /\ pc[c] = "node" /\ Kind(c) = "trace" /\ c \notin expired
    /\ tx > 0
    /\ Say(c, Reading(tx)) /\ Goto(c, "store") /\ RecordSuccess
    /\ UNCHANGED <<chain, pool, caching, history>>

\* GetTransactionStatus: the transaction, its receipt, the current block.
TransactionByHash(c) ==
    /\ pc[c] = "node" /\ Kind(c) = "status" /\ c \notin expired
    /\ \/ tx = -1 /\ RecordFailure /\ Returns(c, Status("not_found"))
       \/ tx = 0 /\ RecordSuccess /\ Say(c, Status("pending")) /\ Goto(c, "store")
       \/ tx > 0 /\ RecordSuccess /\ Goto(c, "receipt") /\ UNCHANGED answer
    /\ UNCHANGED <<chain, pool, caching, history>>

TransactionReceipt(c) ==
    /\ pc[c] = "receipt" /\ c \notin expired
    /\ Goto(c, "confirmations")
    /\ UNCHANGED <<chain, answer, pool, breaker, caching, history>>

\* An error counts as a receipt that is not there yet.
NoReceipt(c) ==
    /\ pc[c] = "receipt"
    /\ Say(c, Status("pending")) /\ Goto(c, "store")
    /\ floor' = [floor EXCEPT ![c] = FALSE]
    /\ UNCHANGED <<chain, pool, breaker, caching, known>>

Confirmations(c) ==
    /\ pc[c] = "confirmations"
    /\ \E b \in {0} \cup (IF c \in expired THEN {} ELSE {head}) :
          Say(c, Status(IF b - tx + 1 >= ConfirmedAfter THEN "confirmed" ELSE "mined"))
    /\ Goto(c, "store")
    /\ UNCHANGED <<chain, pool, breaker, caching, history>>

Store(c) ==
    /\ pc[c] = "store"
    /\ Set(Key(c), answer[c])
    /\ Goto(c, "return")
    /\ UNCHANGED <<chain, answer, pool, breaker, history>>

InBlock(a) == a.ok /\ "status" \in DOMAIN a /\ a.status \in {"mined", "confirmed"}

\* The answer leaves the proxy.
Finish(c) ==
    /\ Goto(c, "done") /\ Say(c, None)
    /\ known' = (known \/ InBlock(answer[c]))
    /\ UNCHANGED <<chain, breaker, caching, floor>>

Return(c) ==
    /\ pc[c] = "return" /\ c \notin Queued
    /\ Finish(c)
    /\ UNCHANGED pool

-----------------------------------------------------------------------------
(* WorkerPool.                                                             *)

Priority(c) == CASE Kind(c) = "status" -> 0 [] Kind(c) = "trace" -> 2 [] OTHER -> 1

\* Submit: a full or closed queue refuses.
SubmitAndWait(c) ==
    /\ pc[c] = "idle" /\ c \in Queued
    /\ floor' = [floor EXCEPT ![c] = known]
    /\ \/ /\ ~stopped /\ Len(items) < QueueSize
          /\ items' = Append(items, c) /\ Goto(c, "queued") /\ UNCHANGED answer
       \/ /\ stopped \/ Len(items) >= QueueSize
          /\ Say(c, Failed) /\ Goto(c, "done") /\ UNCHANGED items
    /\ UNCHANGED <<chain, attempt, expired, worker, stopped, breaker, caching, known>>

\* Less: by priority, then by age.
First == CHOOSE i \in DOMAIN items : \A j \in DOMAIN items :
            \/ Priority(items[i]) < Priority(items[j])
            \/ Priority(items[i]) = Priority(items[j]) /\ i <= j

Dequeue(w) ==
    /\ worker[w] = "dequeue" /\ items # <<>>
    /\ worker' = [worker EXCEPT ![w] = items[First]]
    /\ items' = RemoveAt(items, First)
    /\ attempt' = [attempt EXCEPT ![items[First]] = 1]
    /\ Goto(items[First], "handle")
    /\ UNCHANGED <<chain, answer, expired, stopped, breaker, caching, history>>

\* The worker finds the pool's context done, before it asks the queue or when
\* that has nothing; a worker that looked before Stop may still take an item.
WorkerStops(w) ==
    /\ worker[w] = "dequeue" /\ stopped
    /\ worker' = [worker EXCEPT ![w] = "gone"]
    /\ UNCHANGED <<chain, pc, answer, attempt, expired, items, stopped, breaker, caching, history>>

NoMoreAttempts(c) == answer[c].ok \/ c \in expired \/ attempt[c] > MaxRetries

\* processRequest: again after a failure, unless the context is done.
Retry(w) ==
    LET c == worker[w]
    IN  /\ c \in Calls /\ pc[c] = "return"
        /\ ~NoMoreAttempts(c)
        /\ attempt' = [attempt EXCEPT ![c] = @ + 1]
        /\ Goto(c, "handle")
        /\ UNCHANGED <<chain, answer, expired, items, worker, stopped, breaker, caching, history>>

NextRound(w) == worker' = [worker EXCEPT ![w] = IF stopped THEN "gone" ELSE "dequeue"]

\* Mutant: a failure is not sent.
RespondOnSuccess(w) ==
    LET c == worker[w]
    IN  /\ c \in Calls /\ pc[c] = "return" /\ NoMoreAttempts(c)
        /\ NextRound(w)
        /\ IF answer[c].ok THEN Finish(c)
           ELSE Goto(c, "waits") /\ UNCHANGED <<chain, answer, breaker, caching, history>>
        /\ UNCHANGED <<attempt, expired, items, stopped>>

Respond(w) ==
    LET c == worker[w]
    IN  /\ c \in Calls /\ pc[c] = "return" /\ NoMoreAttempts(c)
        /\ NextRound(w)
        /\ Finish(c)
        /\ UNCHANGED <<attempt, expired, items, stopped>>

\* Stop cancels the pool's context, from which those of the requests in work
\* derive, and closes the queue.
Stop ==
    /\ ~stopped
    /\ stopped' = TRUE
    /\ expired' = expired \cup {c \in Calls : \E w \in Workers : worker[w] = c}
    /\ UNCHANGED <<chain, pc, answer, attempt, items, worker, breaker, caching, history>>

-----------------------------------------------------------------------------
Step(c) ==
    \/ Gate(c) \/ InvalidRequest(c) \/ Lookup(c)
    \/ NodeFails(c) \/ ContractCall(c) \/ GetBalance(c) \/ GetNonce(c) \/ GetCode(c)
    \/ BlockNumber(c) \/ GetInternalTransactions(c)
    \/ TransactionByHash(c) \/ TransactionReceipt(c) \/ NoReceipt(c) \/ Confirmations(c)
    \/ Store(c) \/ Return(c)

Work(w) == Dequeue(w) \/ WorkerStops(w) \/ Retry(w) \/ Respond(w)

Next ==
    \/ NewBlock \/ TxArrives \/ ResetTimeoutPasses \/ cleanup \/ Stop
    \/ \E c \in Calls : Call(c) \/ SubmitAndWait(c) \/ ContextEnds(c)
                        \/ RateLimited(c) \/ RejectCall(c) \/ Step(c)
    \/ \E w \in Workers : Work(w)
    \/ \E k \in DOMAIN cache : EntryExpires(k)

Spec == Init /\ [][Next]_vars

\* Goroutines are scheduled, and the node answers or fails.
FairSpec == Spec /\ (\A c \in Calls : WF_vars(Step(c))) /\ (\A w \in Workers : WF_vars(Work(w)))

-----------------------------------------------------------------------------
TypeOK ==
    /\ head \in 1..MaxHead /\ tx \in -1..MaxHead
    /\ DOMAIN pc = Calls /\ DOMAIN answer = Calls
    /\ attempt \in [Calls -> 0..(MaxRetries + 1)]
    /\ circuit \in {"closed", "open", "half"}
    /\ failures \in Nat /\ successes \in Nat /\ elapsed \in BOOLEAN /\ stopped \in BOOLEAN
    /\ DOMAIN cache = ToSet(lru) /\ Len(lru) <= MaxSize

\* The breaker cannot get stuck, whatever late answers of calls admitted in an
\* earlier state report: while it is closed it has room for another failure,
\* and half open it still admits calls.
BreakerCanMove ==
    /\ circuit = "closed" => failures < MaxFailures
    /\ circuit = "half" => successes < HalfOpenRequests

\* Once a caller has been told that the transaction is in a block, nobody who
\* asks afterwards is told that it is pending or unknown, although a slower
\* call may put an older answer in the cache, unless the node fails to deliver
\* the receipt.
StatusNeverGoesBack ==
    \A c \in Calls : pc[c] = "return" /\ Kind(c) = "status" /\ answer[c].ok /\ floor[c]
                        => InBlock(answer[c])

\* An answer is about the block that was asked for, also when it comes from the
\* cache, and an answer about the latest block names no earlier block than the
\* one it was read at.
AnswersTheQuestion ==
    \A c \in Calls : pc[c] = "return" /\ answer[c].ok /\ Kind(c) \in {"balance", "nonce", "code", "call"} =>
        /\ Block(c) # 0 => answer[c].value = Block(c)
        /\ answer[c].block # 0 => answer[c].value <= answer[c].block

\* Every request the queue has accepted is answered, unless the pool stops.
AcceptedIsAnswered == \A c \in Calls : pc[c] = "queued" ~> pc[c] = "done" \/ stopped

\* Documented ("Allow limited requests in half-open state"): no more calls than
\* HalfOpenRequests are between the gate and the answer.
HalfOpenIsLimited ==
    circuit = "half" => Cardinality({c \in Calls : pc[c] = "node"}) <= HalfOpenRequests
=============================================================================
