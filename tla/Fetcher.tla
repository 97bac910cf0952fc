------------------------------- MODULE Fetcher -------------------------------
(***************************************************************************)
(* The indexing loop of pkg/fetch over the Pebble store of pkg/storage:    *)
(* boot, gap recovery (RunWithGapRecovery), the polling loop (Run), the    *)
(* range loop (FetchRange, and the storing loop of FetchRangeConcurrent)   *)
(* and FetchBlock, one step per storage call, RPC call or publication.     *)
(*                                                                         *)
(* The store is the set of keys it holds, a key being <<kind, height, i>>  *)
(* with i the index of a transaction of the block and 0 for the keys of    *)
(* the block itself.  Every write but a few uses pebble.NoSync: `keys' and *)
(* `latest' are what a reader of the process sees, `diskKeys' and          *)
(* `diskLatest' what a crash leaves, some earlier value of the same pair   *)
(* because the write-ahead log is replayed in order.                       *)
(***************************************************************************)
EXTENDS Integers

CONSTANTS
    MaxHeight,      \* bound on the height of the chain
    TxCount,        \* transactions (and receipts) of a block
    BatchSize,      \* config.BatchSize
    MaxRetries,     \* config.MaxRetries
    StartHeights,   \* the values config.StartHeight takes from boot to boot
    ConcurrentAbove,\* FillGap uses FetchRangeConcurrent above this size
    Flaky,          \* best-effort kinds whose write may fail
    StoreFails      \* TRUE: a mandatory storage call may return an error

Heights == 0..MaxHeight
Txs == 1..TxCount
None == -1          \* GetLatestHeight returns ErrNotFound

\* Kinds whose write error FetchBlock returns, and kinds it only logs.
Mandatory == {"block", "tx", "wbft", "rcpt"}
BestEffort == {"addr", "bal", "genesis", "fee", "logs", "sys"}
Kinds == Mandatory \cup BestEffort

ASSUME ConstantsAssumption ==
    /\ MaxHeight \in Nat
    /\ TxCount \in Nat
    /\ BatchSize \in Nat \ {0}
    /\ MaxRetries \in Nat
    /\ StartHeights \subseteq Heights
    /\ StartHeights # {}
    /\ ConcurrentAbove \in Nat
    /\ Flaky \subseteq BestEffort
    /\ StoreFails \in BOOLEAN

VARIABLES
    chain,      \* height of the node's chain
    keys,       \* keys of the store, as the process reads them
    latest,     \* the latest-height key, or None
    diskKeys, diskLatest,   \* the part of the log that is on disk
    floor,      \* history: the highest StartHeight indexing ever began at
    pc,         \* control of the fetcher goroutine, "down" without a process
    cancelled,  \* the context passed to Run is cancelled
    start,      \* config.StartHeight of this boot
    phase,      \* caller of the range loop: "run" or "gap"
    conc,       \* the range loop is the one of FetchRangeConcurrent
    next,       \* Run: nextHeight
    end,        \* last height of the range
    h,          \* height of the range loop
    i,          \* transaction index of the loops over a block
    attempt,    \* retry counter of the RPC calls
    scanEnd,    \* RunWithGapRecovery: latestHeight
    gaps,       \* block gaps still to fill
    rgaps,      \* heights whose receipts are still to repair
    published   \* events given to the bus by this process: <<type, height>>

store == <<keys, latest>>
disk == <<diskKeys, diskLatest>>
loop == <<phase, conc, end, h, i, attempt>>
recovery == <<scanEnd, gaps, rgaps>>
config == <<cancelled, start>>
vars == <<chain, store, disk, floor, pc, config, loop, next, recovery, published>>

Up == pc # "down"

\* Labels inside FetchBlock, in program order.
BlockSteps == {"fetch", "block", "tx", "wbft", "addr", "bal", "genesis", "fee",
               "pubBlock", "rcpt", "logs", "sys", "pubTxs", "latest"}
Labels == {"down", "detect", "fill", "rdetect", "rfill", "rstore", "next",
           "poll", "range", "returned"} \cup BlockSteps

KeySpace == Kinds \X Heights \X (0..TxCount)
GapRange == [start : Heights, end : Heights]

\* Has the store every key of height x that no error may leave out?
Required(x) ==
    {<<k, x, 0>> : k \in {"block", "wbft"} \cup ({"addr", "bal", "fee"} \ Flaky)}
      \cup {<<k, x, t>> : k \in {"tx", "rcpt"} \cup ({"logs", "sys"} \ Flaky), t \in Txs}
      \cup {<<k, x, 0>> : k \in {g \in {"genesis"} : x = 0} \ Flaky}
Complete(x) == Required(x) \subseteq keys
CompleteOnDisk(x) == Required(x) \subseteq diskKeys

HasBlock(x) == <<"block", x, 0>> \in keys
MissingReceipts(x) == {t \in Txs : <<"rcpt", x, t>> \notin keys}

\* The maximal runs of missing blocks of a..b.
DetectGaps(a, b) ==
    {g \in [start : a..b, end : a..b] :
        /\ g.start <= g.end
        /\ \A x \in g.start..g.end : ~HasBlock(x)
        /\ g.start = a \/ HasBlock(g.start - 1)
        /\ g.end = b \/ HasBlock(g.end + 1)}
\* Mutant: the scan starts one height late.
DetectReceiptGapsLate(a, b) ==
    {x \in a + 1..b : HasBlock(x) /\ MissingReceipts(x) # {}}

DetectReceiptGaps(a, b) ==
    {x \in a..b : HasBlock(x) /\ MissingReceipts(x) # {}}

Init ==
    /\ chain \in Heights
    /\ keys = {} /\ latest = None
    /\ diskKeys = {} /\ diskLatest = None
    /\ floor = 0
    /\ pc = "down" /\ cancelled = FALSE
    /\ start \in StartHeights
    /\ phase = "run" /\ conc = FALSE
    /\ next = 0 /\ end = 0 /\ h = 0 /\ i = 1 /\ attempt = 0
    /\ scanEnd = 0 /\ gaps = {} /\ rgaps = {}
    /\ published = {}

-----------------------------------------------------------------------------
(* The environment: the chain, the disk, the process.                      *)

NewChainBlock ==
    /\ chain < MaxHeight
    /\ chain' = chain + 1
    /\ UNCHANGED <<store, disk, floor, pc, config, loop, next, recovery, published>>

\* The log reaches the disk: by itself, or because a later write asks for it.
WalFlush ==
    /\ Up
    /\ diskKeys' = keys
    /\ diskLatest' = latest
    /\ UNCHANGED <<chain, store, floor, pc, config, loop, next, recovery, published>>

\* The variables of the process are gone.
LoseMemory ==
    /\ pc' = "down"
    /\ phase' = "run" /\ conc' = FALSE
    /\ next' = 0 /\ end' = 0 /\ h' = 0 /\ i' = 1 /\ attempt' = 0
    /\ scanEnd' = 0 /\ gaps' = {} /\ rgaps' = {}
    /\ published' = {}

Crash ==
    /\ Up
    /\ LoseMemory
    /\ keys' = diskKeys /\ latest' = diskLatest
    /\ UNCHANGED <<chain, disk, floor, config>>

Cancel ==
    /\ Up /\ ~cancelled
    /\ cancelled' = TRUE
    /\ UNCHANGED <<chain, store, disk, floor, pc, start, loop, next, recovery, published>>

\* App.Shutdown closes the store, whether or not the fetcher has returned.
Shutdown ==
    /\ Up /\ cancelled
    /\ LoseMemory
    /\ diskKeys' = keys /\ diskLatest' = latest
    /\ UNCHANGED <<chain, store, floor, config>>

-----------------------------------------------------------------------------
(* Boot and gap recovery.                                                  *)

\* enableGapMode selects RunWithGapRecovery, otherwise Run.
Boot(s, gapMode) ==
    /\ pc = "down"
    /\ start' = s
    /\ cancelled' = FALSE
    /\ \/ /\ gapMode /\ latest # None /\ latest > s
          /\ scanEnd' = latest
          /\ pc' = "detect"
       \/ /\ ~gapMode \/ latest = None \/ latest <= s \/ StoreFails
          /\ pc' = "next"
          /\ UNCHANGED scanEnd
    /\ UNCHANGED <<chain, store, disk, floor, loop, next, gaps, rgaps, published>>

DetectBlockGaps ==
    /\ pc = "detect"
    /\ \/ /\ ~cancelled
          /\ gaps' = DetectGaps(start, scanEnd)
          /\ pc' = "fill"
       \/ /\ cancelled \/ StoreFails
          /\ pc' = "rdetect"
          /\ UNCHANGED gaps
    /\ UNCHANGED <<chain, store, disk, floor, config, loop, next, scanEnd, rgaps, published>>

\* FillGaps takes the gaps in the order they were found, lowest first.
FillGap ==
    /\ pc = "fill"
    /\ \/ /\ gaps = {}
          /\ pc' = "rdetect"
          /\ UNCHANGED <<loop, gaps>>
       \/ \E g \in gaps :
            /\ \A o \in gaps : g.start <= o.start
            /\ gaps' = gaps \ {g}
            /\ phase' = "gap"
            /\ conc' = (g.end - g.start + 1 > ConcurrentAbove)
            /\ h' = g.start /\ end' = g.end
            /\ pc' = "range"
            /\ UNCHANGED <<i, attempt>>
    /\ UNCHANGED <<chain, store, disk, floor, config, next, scanEnd, rgaps, published>>

\* A block whose receipts cannot be looked up is passed over.
DetectMissingReceipts ==
    /\ pc = "rdetect"
    /\ \/ /\ ~cancelled
          /\ rgaps' \in IF StoreFails THEN SUBSET DetectReceiptGaps(start, scanEnd)
                                     ELSE {DetectReceiptGaps(start, scanEnd)}
          /\ pc' = "rfill"
       \/ /\ cancelled \/ StoreFails
          /\ pc' = "next"
          /\ UNCHANGED rgaps
    /\ UNCHANGED <<chain, store, disk, floor, config, loop, next, scanEnd, gaps, published>>

\* FillReceiptGaps: the context, then GetBlockReceipts of the next block.
FillReceiptGap ==
    /\ pc = "rfill"
    /\ \/ /\ rgaps = {} \/ cancelled
          /\ pc' = "next"
          /\ UNCHANGED <<h, rgaps>>
       \/ \E x \in rgaps :
            /\ ~cancelled
            /\ \A y \in rgaps : x <= y
            /\ \/ /\ h' = x
                  /\ rgaps' = rgaps \ {x}
                  /\ pc' = "rstore"
               \/ /\ pc' = "next"          \* the RPC call failed
                  /\ UNCHANGED <<h, rgaps>>
    /\ UNCHANGED <<chain, store, disk, floor, config, phase, conc, end, i, attempt,
                   next, scanEnd, gaps, published>>

StoreMissingReceipt ==
    /\ pc = "rstore"
    /\ \/ /\ MissingReceipts(h) = {}
          /\ pc' = "rfill"
          /\ UNCHANGED keys
       \/ \E t \in MissingReceipts(h) :
            /\ \A u \in MissingReceipts(h) : t <= u
            /\ \/ keys' = keys \cup {<<"rcpt", h, t>>} /\ UNCHANGED pc
               \/ StoreFails /\ pc' = "next" /\ UNCHANGED keys
    /\ UNCHANGED <<chain, latest, disk, floor, config, loop, next, recovery, published>>

-----------------------------------------------------------------------------
(* Run.                                                                    *)

\* GetNextHeight; any error reading the latest height means StartHeight.
GetNextHeight ==
    /\ pc = "next"
    /\ pc' = "poll"
    /\ \/ /\ latest = None \/ start > latest \/ StoreFails
          /\ next' = start
          /\ floor' = IF start > floor THEN start ELSE floor
       \/ /\ latest # None /\ start <= latest
          /\ next' = latest + 1
          /\ UNCHANGED floor
    /\ UNCHANGED <<chain, store, disk, config, loop, recovery, published>>

\* One turn of the loop.  A failed GetLatestBlockNumber, or a chain that is
\* not ahead, sleeps and comes back here without a change of state.
Poll ==
    /\ pc = "poll"
    /\ \/ /\ cancelled
          /\ pc' = "returned"
          /\ UNCHANGED loop
       \/ /\ ~cancelled /\ next <= chain
          /\ phase' = "run" /\ conc' = FALSE
          /\ h' = next
          /\ end' = IF next + BatchSize - 1 > chain THEN chain ELSE next + BatchSize - 1
          /\ pc' = "range"
          /\ UNCHANGED <<i, attempt>>
    /\ UNCHANGED <<chain, store, disk, floor, config, next, recovery, published>>

\* Mutant: Run returns the error of a batch.
RangeFailureEndsRun == pc' = IF phase = "run" THEN "returned" ELSE "rdetect"

\* Where control goes when the range loop returns an error.
RangeFails == pc' = IF phase = "run" THEN "poll" ELSE "rdetect"

\* Head of the loop of FetchRange.
RangeHead ==
    /\ pc = "range" /\ ~conc /\ h <= end
    /\ \/ /\ cancelled
          /\ RangeFails
          /\ UNCHANGED attempt
       \/ /\ ~cancelled
          /\ attempt' = 0
          /\ pc' = "fetch"
    /\ UNCHANGED <<chain, store, disk, floor, config, phase, conc, end, h, i,
                   next, recovery, published>>

\* Collector of FetchRangeConcurrent, the worker pool left out: the result of
\* h has come in, or that of some height is an error, or the context was
\* cancelled and the channel of results is closed early, which is no error.
ConcurrentHead ==
    /\ pc = "range" /\ conc /\ h <= end
    /\ \/ pc' = "block"
       \/ RangeFails
       \/ cancelled /\ pc' = "fill"
    /\ UNCHANGED <<chain, store, disk, floor, config, loop, next, recovery, published>>

\* The range is complete: back to Run, or to the next gap.
RangeDone ==
    /\ pc = "range" /\ h > end
    /\ \/ /\ phase = "run"
          /\ next' = end + 1
          /\ pc' = "poll"
       \/ /\ phase = "gap"
          /\ pc' = "fill"
          /\ UNCHANGED next
    /\ UNCHANGED <<chain, store, disk, floor, config, loop, recovery, published>>

-----------------------------------------------------------------------------
(* FetchBlock of height h.                                                 *)

FetchOK ==
    /\ pc = "fetch" /\ ~cancelled
    /\ pc' = "block"
    /\ UNCHANGED <<chain, store, disk, floor, config, loop, next, recovery, published>>

\* Mutant: an exhausted retry loop falls through with nothing fetched.
FetchErrorFallsThrough ==
    /\ pc = "fetch" /\ attempt = MaxRetries
    /\ pc' = "latest"
    /\ UNCHANGED <<chain, store, disk, floor, config, loop, next, recovery, published>>

FetchError ==
    /\ pc = "fetch"
    /\ \/ /\ attempt < MaxRetries
          /\ attempt' = attempt + 1
          /\ UNCHANGED pc
       \/ /\ attempt = MaxRetries
          /\ RangeFails
          /\ UNCHANGED attempt
    /\ UNCHANGED <<chain, store, disk, floor, config, phase, conc, end, h, i,
                   next, recovery, published>>

\* A storage call that FetchBlock must see succeed.
Write(label, key, target, j) ==
    /\ pc = label
    /\ \/ /\ keys' = keys \cup {key}
          /\ pc' = target
          /\ i' = j
       \/ /\ StoreFails
          /\ RangeFails
          /\ UNCHANGED <<keys, i>>
    /\ UNCHANGED <<chain, latest, disk, floor, config, phase, conc, end, h, attempt,
                   next, recovery, published>>

\* A storage call whose error is only logged.
TryWrite(label, key, target, j) ==
    /\ pc = label
    /\ \/ keys' = keys \cup {key}
       \/ label \in Flaky /\ UNCHANGED keys
    /\ pc' = target
    /\ i' = j
    /\ UNCHANGED <<chain, latest, disk, floor, config, phase, conc, end, h, attempt,
                   next, recovery, published>>

\* Mutants: SetBlock without its transactions, the loop over them one too long.
SetBlockWithoutTxs == Write("block", <<"block", h, 0>>, "wbft", 1)
SetTransactionTooFar ==
    Write("tx", <<"tx", h, i>>, IF i > TxCount THEN "wbft" ELSE "tx", i + 1)

\* SetBlock: the block and its hash index, then its transactions.
SetBlock == Write("block", <<"block", h, 0>>, IF TxCount = 0 THEN "wbft" ELSE "tx", 1)
SetTransaction ==
    Write("tx", <<"tx", h, i>>, IF i = TxCount THEN "wbft" ELSE "tx", i + 1)

\* processBlockMetadata; the concurrent path has no genesis initialisation.
ProcessWBFTMetadata == Write("wbft", <<"wbft", h, 0>>, "addr", i)
ProcessAddressIndexing == TryWrite("addr", <<"addr", h, 0>>, "bal", i)
ProcessBalanceTracking ==
    TryWrite("bal", <<"bal", h, 0>>, IF h = 0 /\ ~conc THEN "genesis" ELSE "fee", i)
InitializeGenesisBalances == TryWrite("genesis", <<"genesis", h, 0>>, "fee", i)
ProcessFeeDelegationMetadata == TryWrite("fee", <<"fee", h, 0>>, "pubBlock", i)

\* EventBus.Publish never blocks and may refuse the event.
Publish(label, event, target, j) ==
    /\ pc = label
    /\ published' \in {published, published \cup {event}}
    /\ pc' = target
    /\ i' = j
    /\ UNCHANGED <<chain, store, disk, floor, config, phase, conc, end, h, attempt,
                   next, recovery>>

\* Mutant: the receipts of the block are skipped.
PublishBlockEventOnly == Publish("pubBlock", <<"block", h>>, "latest", 1)

PublishBlockEvent ==
    Publish("pubBlock", <<"block", h>>, IF TxCount = 0 THEN "pubTxs" ELSE "rcpt", 1)

\* storeAndProcessReceipts: receipt, its logs, its system-contract events.
\* FetchRangeConcurrent has no system-contract parsing.
AfterReceipt == IF i = TxCount THEN "pubTxs" ELSE "rcpt"
SetReceipt == Write("rcpt", <<"rcpt", h, i>>, "logs", i)
IndexLogs ==
    TryWrite("logs", <<"logs", h, i>>, IF conc THEN AfterReceipt ELSE "sys",
             IF conc THEN i + 1 ELSE i)
ParseAndIndexLogs == TryWrite("sys", <<"sys", h, i>>, AfterReceipt, i + 1)

\* Transaction and log events; then FetchBlock runs the block processors (the
\* watchlist), whose errors are only logged and which leave these keys alone.
PublishBlockEvents == Publish("pubTxs", <<"txs", h>>, "latest", i)

\* SetLatestHeight, unconditional, then the next height of the range.
SetLatestHeight ==
    /\ pc = "latest"
    /\ \/ /\ latest' = h
          /\ h' = h + 1
          /\ pc' = "range"
       \/ /\ StoreFails
          /\ RangeFails
          /\ UNCHANGED <<latest, h>>
    /\ UNCHANGED <<chain, keys, disk, floor, config, phase, conc, end, i, attempt,
                   next, recovery, published>>

FetchBlock ==
    \/ FetchOK \/ FetchError
    \/ SetBlock \/ SetTransaction
    \/ ProcessWBFTMetadata \/ ProcessAddressIndexing \/ ProcessBalanceTracking
    \/ InitializeGenesisBalances \/ ProcessFeeDelegationMetadata
    \/ PublishBlockEvent
    \/ SetReceipt \/ IndexLogs \/ ParseAndIndexLogs
    \/ PublishBlockEvents
    \/ SetLatestHeight

RunWithGapRecovery ==
    \/ DetectBlockGaps \/ FillGap
    \/ DetectMissingReceipts \/ FillReceiptGap \/ StoreMissingReceipt

Run == GetNextHeight \/ Poll \/ RangeHead \/ ConcurrentHead \/ RangeDone

Next ==
    \/ NewChainBlock
    \/ WalFlush \/ Crash \/ Cancel \/ Shutdown
    \/ \E s \in StartHeights, gapMode \in BOOLEAN : Boot(s, gapMode)
    \/ RunWithGapRecovery
    \/ Run
    \/ FetchBlock

Spec == Init /\ [][Next]_vars

\* The goroutine of Run keeps being scheduled, and the node answers for every
\* height again and again; nothing is assumed of crashes, boots or the disk.
Fairness ==
    /\ WF_vars(RunWithGapRecovery \/ Run \/ FetchBlock)
    /\ \A x \in Heights : SF_vars(FetchOK /\ h = x)

FairSpec == Spec /\ Fairness

-----------------------------------------------------------------------------
(* Properties.                                                             *)

TypeStore ==
    /\ chain \in Heights /\ floor \in Heights
    /\ keys \subseteq KeySpace /\ diskKeys \subseteq KeySpace
    /\ latest \in Heights \cup {None} /\ diskLatest \in Heights \cup {None}
    /\ published \subseteq {"block", "txs"} \X Heights
TypeControl ==
    /\ pc \in Labels
    /\ cancelled \in BOOLEAN /\ conc \in BOOLEAN
    /\ start \in StartHeights
    /\ phase \in {"run", "gap"}
TypeLoops ==
    /\ next \in 0..MaxHeight + 1
    /\ end \in Heights
    /\ h \in 0..MaxHeight + 1
    /\ i \in 1..TxCount + 1
    /\ attempt \in 0..MaxRetries

\* The values every variable ranges over.
TypeOK ==
    /\ TypeStore
    /\ TypeControl
    /\ TypeLoops
    /\ scanEnd \in Heights /\ gaps \subseteq GapRange /\ rgaps \subseteq Heights

\* Whatever failed, was retried or was rewound, every height from the highest
\* start height indexing ever began at up to the recorded latest height has
\* all its mandatory keys (SetLatestHeight comes last in FetchBlock, and Run
\* never passes a height whose FetchBlock failed).
LatestIsComplete == \A x \in floor..latest : Complete(x)

\* The same of the part of the store a crash leaves: a restart resumes above
\* heights that really are on disk, although no write waits for the disk.
DurableLatestIsComplete == \A x \in floor..diskLatest : CompleteOnDisk(x)

\* A subscriber told of a block's transactions finds them, and their receipts,
\* in the store; one told of the block finds its transactions.
EventsAreBacked ==
    \A e \in published :
        /\ <<"block", e[2], 0>> \in keys
        /\ \A t \in Txs : <<"tx", e[2], t>> \in keys
        /\ e[1] = "txs" => \A t \in Txs : <<"rcpt", e[2], t>> \in keys

\* A repair of receipts that met no error leaves no block of the scanned range
\* without one: the scan sees what the gap filling before it stored or broke.
ReceiptsHealed ==
    pc = "rfill" /\ rgaps = {} /\ ~cancelled =>
        \A x \in start..scanEnd : HasBlock(x) => MissingReceipts(x) = {}

\* Once the process stays up and is not told to stop, Run again and again finds
\* itself past the head of the chain: a failed batch is retried from its first
\* height, which must not keep it from ever finishing.
CatchesUp ==
    <>[](Up /\ ~cancelled) => []<>(pc = "poll" /\ next > chain)

\* The keys FetchBlock has already stored when control is where it is.  A
\* retry restarts the block, so these are the only facts a step may rely on.
PastFee == {"pubBlock", "rcpt", "logs", "sys", "pubTxs", "latest"}
PastGenesis == PastFee \cup {"fee"}
PastBal == PastGenesis \cup {"genesis"}
PastAddr == PastBal \cup {"bal"}
PastWbft == PastAddr \cup {"addr"}
PastTx == PastWbft \cup {"wbft"}
PastBlock == PastTx \cup {"tx"}
Stored(k) == k \in Flaky \/ <<k, h, 0>> \in keys
StoredUpTo(k, n) == k \in Flaky \/ \A t \in 1..n : <<k, h, t>> \in keys
ReceiptsUpTo(r, l, s) ==
    /\ StoredUpTo("rcpt", r)
    /\ StoredUpTo("logs", l)
    /\ ~conc => StoredUpTo("sys", s)

Progress ==
    /\ pc \in PastBlock => Stored("block")
    /\ pc = "tx" => StoredUpTo("tx", i - 1)
    /\ pc \in PastTx => StoredUpTo("tx", TxCount)
    /\ pc \in PastWbft => Stored("wbft")
    /\ pc \in PastAddr => Stored("addr")
    /\ pc \in PastBal => Stored("bal")
    /\ pc \in PastGenesis /\ h = 0 /\ ~conc => Stored("genesis")
    /\ pc \in PastFee => Stored("fee")
    /\ pc \in {"tx", "rcpt", "logs", "sys"} => i \in Txs
    /\ pc = "rcpt" => ReceiptsUpTo(i - 1, i - 1, i - 1)
    /\ pc = "logs" => ReceiptsUpTo(i, i - 1, i - 1)
    /\ pc = "sys" => ~conc /\ ReceiptsUpTo(i, i, i - 1)
    /\ pc \in {"pubTxs", "latest"} => ReceiptsUpTo(TxCount, TxCount, TxCount)

InRange == pc \in {"range"} \cup BlockSteps

\* What Run and FillGaps rely on between two blocks: everything from the
\* floor to the height in hand is complete when Run is the caller, and a gap
\* lies wholly below the floor.
Bounds ==
    /\ pc \in BlockSteps => h <= end
    /\ pc = "poll" \/ (InRange /\ phase = "run") => \A x \in floor..(next - 1) : Complete(x)
    /\ InRange /\ phase = "run" =>
          ~conc /\ h <= end + 1 /\ \A x \in floor..(h - 1) : Complete(x)
    /\ InRange /\ phase = "gap" => end < floor
    /\ \A g \in gaps : g.end < floor
    /\ pc = "detect" => scanEnd = latest
    /\ pc = "rstore" => h \in Heights

\* The inductive strengthening of the three properties above.
ControlIsBacked == Progress /\ Bounds

\* Documented ("GetLatestHeight returns the latest indexed block height"):
\* the recorded height is not below one recorded earlier, whose block is still
\* indexed.  (What the disk holds is an earlier value of the same key.)
LatestIsHighest == diskLatest <= latest

\* Documented ("Continue anyway - gaps will be retried later"): when the gap
\* recovery of a later boot ends, no block of its range is half-indexed.
RecoveryHeals ==
    pc = "rfill" /\ rgaps = {} /\ ~cancelled =>
        \A x \in start..scanEnd : HasBlock(x) => \A t \in Txs : <<"tx", x, t>> \in keys

\* Documented (pipeline: STORE, then PUBLISH): no event of a block goes out
\* before the block is stored with its receipts.
PublishedAfterStored ==
    \A e \in published : \A t \in Txs : <<"rcpt", e[2], t>> \in keys
=============================================================================
