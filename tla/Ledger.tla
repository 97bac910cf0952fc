------------------------------- MODULE Ledger -------------------------------
(***************************************************************************)
(* The per-address indexes FetchBlock writes besides the block itself: the *)
(* transaction counter, the address -> transactions index, the native      *)
(* balances and their history.  Unlike the keys of module Fetcher they are *)
(* not overwritten by a second pass over the same block: a counter, an     *)
(* append position or a delta is involved.  A block is indexed again when  *)
(* a mandatory step fails later in its batch, and after a restart.         *)
(*                                                                         *)
(* Blocks[b] is the sequence of transactions of block b.  A transaction    *)
(* moves `value' from `from' to `to'; `fee' is gas used times gas price,   *)
(* paid by `payer', the sender unless the fee is delegated; `ok' is the    *)
(* status of the receipt.  <<b, n>> stands for its hash.                   *)
(***************************************************************************)
EXTENDS Integers, Sequences, FiniteSets, FiniteSetsExt

CONSTANTS
    Addrs,          \* addresses
    Blocks,         \* the chain
    Genesis,        \* [Addrs -> Nat]: balances before block 1
    BatchSize,      \* config.BatchSize
    MaxInterrupts   \* bound on failed batches and restarts

Heights == 1..Len(Blocks)
Tx == [from : Addrs, to : Addrs, value : Nat, fee : Nat, payer : Addrs, ok : BOOLEAN]
TxIds == UNION {{<<b, n>> : n \in 1..Len(Blocks[b])} : b \in Heights}
Ids(b) == {<<b, n>> : n \in 1..Len(Blocks[b])}
TxOf(id) == Blocks[id[1]][id[2]]

VARIABLES
    pc,         \* step of FetchBlock
    h, n,       \* block and transaction in hand
    target,     \* which address of the transaction is next
    first,      \* Run: first height of the batch
    latest,     \* the latest-height key
    rows,       \* transactions stored
    txCount,    \* the atomic counter
    countKey,   \* its copy in the store
    addrSeq,    \* next append position of each address, in memory only
    txIndex,    \* [Addrs -> positions -> transaction]
    history,    \* [Addrs -> positions -> balance snapshot]
    balance,    \* the latest-balance key of each address, or None
    feeMeta,    \* transactions whose fee payer is stored
    interrupts, \* batches failed and restarts so far
    restarts,   \* restarts so far
    exact       \* history: no block was begun twice and every RPC balance came

control == <<pc, h, n, target, first>>
counter == <<rows, txCount, countKey>>
index == <<addrSeq, txIndex>>
balances == <<history, balance>>
faults == <<interrupts, restarts>>
vars == <<control, latest, counter, index, balances, feeMeta, faults, exact>>

None == -1
Empty == [p \in {} |-> None]

Init ==
    /\ pc = "tx" /\ h = 1 /\ n = 1 /\ target = 1 /\ first = 1
    /\ latest = 0
    /\ rows = {} /\ txCount = 0 /\ countKey = 0
    /\ addrSeq = [a \in Addrs |-> 0]
    /\ txIndex = [a \in Addrs |-> Empty]
    /\ history = [a \in Addrs |-> Empty]
    /\ balance = [a \in Addrs |-> None]
    /\ feeMeta = {}
    /\ interrupts = 0 /\ restarts = 0
    /\ exact = TRUE

-----------------------------------------------------------------------------
(* The chain: what the node answers to BalanceAt.                          *)

PaidBy(t, a) ==
    (IF t.ok /\ t.from = a THEN t.value ELSE 0) + (IF t.payer = a THEN t.fee ELSE 0)
ReceivedBy(t, a) == IF t.ok /\ t.to = a THEN t.value ELSE 0

\* What a transaction brings to an address, and its balance after a set of them.
NetFlow(a) == [id \in TxIds |-> ReceivedBy(TxOf(id), a) - PaidBy(TxOf(id), a)]
BalanceAfter(a, ids) == Genesis[a] + SumFunctionOnSet(NetFlow(a), ids)

BalanceAt(a, b) == BalanceAfter(a, UNION {Ids(x) : x \in 1..b})

ASSUME LedgerAssumption ==
    /\ Blocks \in Seq(Seq(Tx)) /\ Blocks # <<>>
    /\ \A b \in Heights : Len(Blocks[b]) > 0
    /\ Genesis \in [Addrs -> Nat]
    /\ BatchSize \in Nat \ {0}
    /\ MaxInterrupts \in Nat
    /\ \A a \in Addrs, b \in Heights : BalanceAt(a, b) >= 0

-----------------------------------------------------------------------------
(* SetBlock: one SetTransaction per transaction.                           *)

AtLast == n = Len(Blocks[h])

SetTransactionRow ==
    /\ pc = "tx"
    /\ rows' = rows \cup {<<h, n>>}
    /\ pc' = "count"
    /\ UNCHANGED <<h, n, target, first, latest, txCount, countKey, index, balances, feeMeta,
                   faults, exact>>

CountTransaction ==
    /\ pc = "count"
    /\ txCount' = txCount + 1
    /\ countKey' = txCount + 1
    /\ pc' = IF AtLast THEN "index" ELSE "tx"
    /\ n' = IF AtLast THEN 1 ELSE n + 1
    /\ UNCHANGED <<h, target, first, latest, rows, index, balances, feeMeta, faults, exact>>

-----------------------------------------------------------------------------
(* processAddressIndexing: sender, receiver if another one, and the fee    *)
(* payer as far as the store knows it, each appended to its address.       *)

IndexTargets(id) ==
    LET t == TxOf(id)
    IN  <<t.from>>
          \o (IF t.to # t.from THEN <<t.to>> ELSE <<>>)
          \o (IF id \in feeMeta /\ t.payer \notin {t.from, t.to} THEN <<t.payer>> ELSE <<>>)

Extend(f, p, v) == [q \in DOMAIN f \cup {p} |-> IF q = p THEN v ELSE f[q]]

\* Mutant: the position is not advanced.
AppendInPlace(a, id) ==
    /\ txIndex' = [txIndex EXCEPT ![a] = Extend(@, addrSeq[a], id)]
    /\ UNCHANGED addrSeq

AddTransactionToAddressIndex(a, id) ==
    /\ txIndex' = [txIndex EXCEPT ![a] = Extend(@, addrSeq[a], id)]
    /\ addrSeq' = [addrSeq EXCEPT ![a] = @ + 1]

ProcessAddressIndexing ==
    LET targets == IndexTargets(<<h, n>>)
    IN  /\ pc = "index"
        /\ AddTransactionToAddressIndex(targets[target], <<h, n>>)
        /\ \/ /\ target < Len(targets)
              /\ target' = target + 1
              /\ UNCHANGED <<pc, n>>
           \/ /\ target = Len(targets)
              /\ target' = 1
              /\ pc' = IF AtLast THEN "initFrom" ELSE "index"
              /\ n' = IF AtLast THEN 1 ELSE n + 1
        /\ UNCHANGED <<h, first, latest, counter, balances, feeMeta, faults, exact>>

-----------------------------------------------------------------------------
(* processBalanceTracking.                                                 *)

\* GetAddressBalance(addr, 0): no key reads as 0.
LatestBalance(a) == IF balance[a] = None THEN 0 ELSE balance[a]

\* UpdateBalance appends a snapshot and sets the latest balance; a negative
\* result is an error, which the caller only logs.
UpdateBalance(a, delta) ==
    \/ /\ LatestBalance(a) + delta < 0
       /\ UNCHANGED <<addrSeq, history, balance>>
    \/ /\ LatestBalance(a) + delta >= 0
       /\ history' = [history EXCEPT ![a] =
                        Extend(@, addrSeq[a], [block |-> h, balance |-> LatestBalance(a) + delta])]
       /\ addrSeq' = [addrSeq EXCEPT ![a] = @ + 1]
       /\ balance' = [balance EXCEPT ![a] = LatestBalance(a) + delta]

\* GetAddressBalance(addr, b): the last snapshot before the first, in the order
\* of positions, of a block above b.
SnapshotsUpTo(a, b) ==
    {p \in DOMAIN history[a] : \A q \in DOMAIN history[a] : q <= p => history[a][q].block <= b}
GetAddressBalance(a, b) ==
    LET before == SnapshotsUpTo(a, b)
    IN  IF before = {} THEN 0 ELSE history[a][Max(before)].balance

\* Mutant: a zero balance counts as not initialised.
InitializedIfPositive(a) == LatestBalance(a) # 0

Initialized(a) ==
    LatestBalance(a) # 0 \/ \E p \in DOMAIN history[a] : history[a][p].block <= h

\* ensureAddressBalanceInitialized asks for the balance before the block.
InitialBalance(a) == BalanceAt(a, h - 1)

EnsureInitialized(label, a, then) ==
    /\ pc = label
    /\ pc' = then
    /\ \/ /\ Initialized(a)
          /\ UNCHANGED <<addrSeq, balances, exact>>
       \/ /\ ~Initialized(a)
          /\ UpdateBalance(a, InitialBalance(a) - LatestBalance(a))
          /\ UNCHANGED exact
       \/ /\ ~Initialized(a)          \* the RPC call failed: start from 0
          /\ UpdateBalance(a, 0 - LatestBalance(a))
          /\ exact' = FALSE
    /\ UNCHANGED <<h, n, target, first, latest, counter, txIndex, feeMeta, faults>>

Cur == Blocks[h][n]
NextBalance == IF AtLast THEN "fee" ELSE "initFrom"

EnsureSender == EnsureInitialized("initFrom", Cur.from, "debit")

\* value plus gas is taken from the sender, whatever the receipt's status and
\* whoever pays the fee.
DebitSender ==
    /\ pc = "debit"
    /\ UpdateBalance(Cur.from, 0 - (Cur.value + Cur.fee))
    /\ IF Cur.value > 0
       THEN pc' = "initTo" /\ UNCHANGED n
       ELSE pc' = NextBalance /\ n' = IF AtLast THEN 1 ELSE n + 1
    /\ UNCHANGED <<h, target, first, latest, counter, txIndex, feeMeta, faults, exact>>

EnsureReceiver == EnsureInitialized("initTo", Cur.to, "credit")

CreditReceiver ==
    /\ pc = "credit"
    /\ UpdateBalance(Cur.to, Cur.value)
    /\ pc' = NextBalance
    /\ n' = IF AtLast THEN 1 ELSE n + 1
    /\ UNCHANGED <<h, target, first, latest, counter, txIndex, feeMeta, faults, exact>>

-----------------------------------------------------------------------------
\* processFeeDelegationMetadata: only now the fee payers become known.
ProcessFeeDelegationMetadata ==
    /\ pc = "fee"
    /\ feeMeta' = feeMeta \cup {id \in Ids(h) : TxOf(id).payer # TxOf(id).from}
    /\ pc' = "latest"
    /\ UNCHANGED <<h, n, target, first, latest, counter, index, balances, faults, exact>>

\* The batch of Run ends after BatchSize blocks.
SetLatestHeight ==
    /\ pc = "latest"
    /\ latest' = h
    /\ IF h = Len(Blocks)
       THEN pc' = "done" /\ UNCHANGED <<h, first>>
       ELSE /\ pc' = "tx" /\ h' = h + 1
            /\ first' = IF h + 1 = first + BatchSize THEN h + 1 ELSE first
    /\ UNCHANGED <<n, target, counter, index, balances, feeMeta, faults, exact>>

\* A mandatory storage call fails (SetBlock, SetReceipt, SetLatestHeight): Run
\* starts the batch again.
BatchFails ==
    /\ pc \in {"tx", "count", "latest"} /\ interrupts < MaxInterrupts
    /\ interrupts' = interrupts + 1
    /\ pc' = "tx" /\ h' = first /\ n' = 1 /\ target' = 1
    /\ exact' = (exact /\ h = first /\ pc = "tx" /\ n = 1)
    /\ UNCHANGED <<first, latest, counter, index, balances, feeMeta, restarts>>

\* Close and NewPebbleStorage: loadTransactionCount reads the counter back,
\* loadAddressSequences leaves every position at 0.
Restart ==
    /\ pc # "done" /\ interrupts < MaxInterrupts
    /\ interrupts' = interrupts + 1 /\ restarts' = restarts + 1
    /\ txCount' = countKey
    /\ addrSeq' = [a \in Addrs |-> 0]
    /\ pc' = "tx" /\ h' = latest + 1 /\ first' = latest + 1 /\ n' = 1 /\ target' = 1
    /\ exact' = (exact /\ pc = "tx" /\ n = 1)
    /\ UNCHANGED <<latest, rows, countKey, txIndex, balances, feeMeta>>

Next ==
    \/ SetTransactionRow \/ CountTransaction
    \/ ProcessAddressIndexing
    \/ EnsureSender \/ DebitSender \/ EnsureReceiver \/ CreditReceiver
    \/ ProcessFeeDelegationMetadata \/ SetLatestHeight
    \/ BatchFails \/ Restart

Spec == Init /\ [][Next]_vars

-----------------------------------------------------------------------------
(* Properties.                                                             *)

Values(f) == {f[p] : p \in DOMAIN f}
Snapshot == [block : Heights, balance : Nat]

\* The values every variable ranges over.
TypeOK ==
    /\ pc \in {"tx", "count", "index", "initFrom", "debit", "initTo", "credit", "fee",
               "latest", "done"}
    /\ h \in Heights /\ n \in 1..Len(Blocks[h]) /\ first \in 1..h /\ target \in 1..3
    /\ latest \in 0..Len(Blocks)
    /\ rows \subseteq TxIds /\ txCount \in Nat /\ countKey \in Nat
    /\ addrSeq \in [Addrs -> Nat]
    /\ \A a \in Addrs : Values(txIndex[a]) \subseteq TxIds /\ Values(history[a]) \subseteq Snapshot
    /\ \A a \in Addrs : balance[a] \in Nat \cup {None}
    /\ feeMeta \subseteq TxIds

Indexed == UNION {Ids(b) : b \in 1..latest}

\* The counter never falls behind what is recorded as indexed, through retries
\* and restarts (it may be ahead, see TransactionCountExact).
CountCoversIndexed == Cardinality(Indexed) <= txCount

\* While the process lives, an address index only grows: every transaction of
\* an indexed block is listed under its sender and its receiver.
IndexCompleteWhileUp ==
    restarts = 0 =>
        \A id \in Indexed : \A a \in {TxOf(id).from, TxOf(id).to} : id \in Values(txIndex[a])

\* The counter and the index by address cover the recorded blocks, through
\* failed batches (pebble_transactions.go:121, 180).
LedgerCovers == CountCoversIndexed /\ IndexCompleteWhileUp

\* If every block went through once, the tracked balance of an address is the
\* chain's: initialising from the balance before the block and applying the
\* deltas in order never counts a transfer twice or leaves one out.  Documented
\* for every chain ("GetAddressBalance returns the balance of an address at a
\* specific block"); it holds for chains of transfers that succeed and whose
\* sender pays the fee.
BalancesExact ==
    exact /\ pc \in {"latest", "done"} =>
        \A a \in Addrs : balance[a] # None => balance[a] = BalanceAt(a, h)

\* Such a chain; the node takes no transaction its sender cannot pay.
Earlier(id) == (UNION {Ids(x) : x \in 1..(id[1] - 1)}) \cup {<<id[1], x>> : x \in 1..(id[2] - 1)}
PlainTransfers ==
    \A id \in TxIds :
        LET t == TxOf(id)
        IN  t.ok /\ t.payer = t.from /\ t.value + t.fee <= BalanceAfter(t.from, Earlier(id))

\* The same of the past: the history of an address answers for every indexed
\* block since its first snapshot, as long as the process lives.
HistoryExact ==
    exact /\ restarts = 0 =>
        \A a \in Addrs, b \in 1..latest :
            (\E p \in DOMAIN history[a] : history[a][p].block <= b) =>
                GetAddressBalance(a, b) = BalanceAt(a, b)

\* Tracked balances, present and past, are the chain's while every block went
\* through once (pebble_historical.go:480, 225).
BalancesRight == BalancesExact /\ HistoryExact

\* Documented ("GetTransactionCount returns the total number of indexed
\* transactions"): with the whole chain indexed the counter is their number.
TransactionCountExact == pc = "done" => txCount = Cardinality(Indexed)

\* Documented ("GetTransactionsByAddress returns transactions for an address"):
\* the sender of an indexed transaction finds it.
IndexSurvivesRestart ==
    \A id \in Indexed : id \in Values(txIndex[TxOf(id).from])

\* Documented ("Index 'feePayer' address for Fee Delegation transactions"): the
\* fee payer of an indexed transaction finds it.
FeePayerIndexed ==
    restarts = 0 => \A id \in Indexed : id \in Values(txIndex[TxOf(id).payer])
=============================================================================
