--------------------------- MODULE IndexingProofs ---------------------------
(***************************************************************************)
(* What indexing keeps invariant: the heights of Fetcher, for every chain, *)
(* batch size, retry count, number of transactions and choice of start     *)
(* heights; the events of SystemContracts, for every chain of logs, batch  *)
(* size and number of replays, restarts and failing writes.                *)
(*                                                                         *)
(* Heights.  LatestIsComplete is not inductive: SetLatestHeight preserves  *)
(* it because of what the earlier steps of the same FetchBlock stored      *)
(* (Progress) and of what Run or FillGaps knows of the heights below       *)
(* (Bounds).  Of a gap, all that is needed is that it lies below the       *)
(* floor, which holds when it is detected because heights from the floor   *)
(* to the latest are complete.  On disk the property is inherited at each  *)
(* flush, and a crash hands it back.                                       *)
(*                                                                         *)
(* Events.  Each index answers a question (is a listed, what is the status *)
(* of p), and the logs that bear on it are a set.  The one among them that *)
(* was parsed to its end while no later one was ever begun has the last    *)
(* word (Standing), and what the index says is what that log says (Says).  *)
(* No step but the end of a handler gives a log the last word, and then    *)
(* all its writes were made (Handling pairs the writes that are left with  *)
(* what those before them did).  The supply is a sum and not a last word:  *)
(* it counts the logs before the one in hand (Counting), and the sum over  *)
(* a set is shown not to depend on the order CHOOSE gives.                 *)
(***************************************************************************)
EXTENDS Fetcher, SystemContracts, SequenceTheorems, FiniteSetTheorems, WellFoundedInduction, TLAPS

IInv ==
    /\ TypeOK
    /\ LatestIsComplete
    /\ DurableLatestIsComplete
    /\ EventsAreBacked
    /\ ControlIsBacked

\* A complete height has its block: HasBlock is FALSE only of incomplete ones.
LEMMA CompleteHasBlock ==
    ASSUME NEW x \in Heights, Complete(x)
    PROVE  HasBlock(x)
  BY DEF Complete, Required, HasBlock

\* At the end of a sequential FetchBlock the height in hand is complete.
LEMMA FetchedIsComplete ==
    ASSUME IInv, pc = "latest", ~conc
    PROVE  Complete(h)
<1> USE DEF IInv, ControlIsBacked, Progress, ReceiptsUpTo, PastFee, PastGenesis, PastBal,
            PastAddr, PastWbft, PastTx, PastBlock
<1>1. /\ Stored("block") /\ Stored("wbft") /\ Stored("addr") /\ Stored("bal")
      /\ Stored("fee") /\ (h = 0 => Stored("genesis"))
  OBVIOUS
<1>2. \A k \in {"tx", "rcpt", "logs", "sys"} : StoredUpTo(k, TxCount)
  OBVIOUS
<1>3. "block" \notin Flaky /\ "wbft" \notin Flaky /\ "tx" \notin Flaky /\ "rcpt" \notin Flaky
  BY ConstantsAssumption DEF BestEffort
<1> HIDE DEF IInv, Progress, ReceiptsUpTo
<1>4. \A k \in {"block", "wbft"} \cup ({"addr", "bal", "fee"} \ Flaky) : <<k, h, 0>> \in keys
  BY <1>1, <1>3 DEF Stored
<1>5. \A k \in {g \in {"genesis"} : h = 0} \ Flaky : <<k, h, 0>> \in keys
  BY <1>1 DEF Stored
<1>6. \A k \in {"tx", "rcpt"} \cup ({"logs", "sys"} \ Flaky), t \in Txs : <<k, h, t>> \in keys
  BY <1>2, <1>3 DEF StoredUpTo, Txs
<1> QED
  BY <1>4, <1>5, <1>6 DEF Complete, Required

\* A gap found below the latest height lies below the floor.
LEMMA GapsBelowFloor ==
    ASSUME IInv, pc = "detect", NEW g \in DetectGaps(start, scanEnd)
    PROVE  g.end < floor
<1>1. /\ g.end \in start..scanEnd /\ g.start \in start..scanEnd /\ g.start <= g.end
      /\ \A x \in g.start..g.end : ~HasBlock(x)
  BY DEF DetectGaps
<1>2. start \in Heights /\ scanEnd \in Heights /\ floor \in Heights /\ scanEnd = latest
  BY ConstantsAssumption DEF IInv, TypeOK, TypeStore, TypeControl, ControlIsBacked, Bounds
<1>3. g.end \in Heights /\ ~HasBlock(g.end)
  BY <1>1, <1>2, ConstantsAssumption DEF Heights
<1>4. ~Complete(g.end)
  BY <1>3, CompleteHasBlock
<1>5. g.end \notin floor..latest
  BY <1>4 DEF IInv, LatestIsComplete
<1> QED
  BY <1>1, <1>2, <1>3, <1>5, ConstantsAssumption DEF Heights

\* Without a process and with an empty store nothing has to be shown.
LEMMA InitIInv == Init => IInv
<1> SUFFICES ASSUME Init PROVE IInv
  OBVIOUS
<1>1. TypeOK
  <2> USE ConstantsAssumption DEF Init, Heights, None, Labels
  <2>1. TypeStore
    BY DEF TypeStore
  <2>2. TypeControl
    BY DEF TypeControl
  <2>3. TypeLoops
    BY DEF TypeLoops
  <2> QED
    BY <2>1, <2>2, <2>3 DEF TypeOK
<1>2. LatestIsComplete /\ DurableLatestIsComplete /\ EventsAreBacked
  BY DEF Init, LatestIsComplete, DurableLatestIsComplete, EventsAreBacked, None
<1>3. ControlIsBacked
  BY DEF Init, ControlIsBacked, Progress, Bounds, InRange, BlockSteps,
         PastFee, PastGenesis, PastBal, PastAddr, PastWbft, PastTx, PastBlock
<1> QED
  BY <1>1, <1>2, <1>3 DEF IInv

\* Every step keeps the types; h + 1 and i + 1 stay in range because of Bounds
\* and Progress.
LEMMA TypeStep == ASSUME IInv, Next PROVE TypeOK'
<1> USE ConstantsAssumption
<1> USE DEF IInv, TypeOK, TypeStore, TypeControl, TypeLoops, ControlIsBacked, Progress, Bounds,
            Heights, None, Labels, BlockSteps, KeySpace, Kinds, Mandatory, BestEffort, Txs, GapRange, store, disk, loop, recovery, config
<1>1. CASE NewChainBlock
  BY <1>1 DEF NewChainBlock
<1>2. CASE WalFlush
  BY <1>2 DEF WalFlush
<1>3. CASE Crash
  <2>1. TypeStore'
    BY <1>3 DEF Crash, LoseMemory
  <2>2. TypeControl'
    BY <1>3 DEF Crash, LoseMemory
  <2>3. TypeLoops'
    BY <1>3 DEF Crash, LoseMemory
  <2>4. (scanEnd \in Heights /\ gaps \subseteq GapRange /\ rgaps \subseteq Heights)'
    BY <1>3 DEF Crash, LoseMemory
  <2> QED
    BY <2>1, <2>2, <2>3, <2>4 DEF TypeOK
<1>4. CASE Cancel
  BY <1>4 DEF Cancel
<1>5. CASE Shutdown
  <2>1. TypeStore'
    BY <1>5 DEF Shutdown, LoseMemory
  <2>2. TypeControl'
    BY <1>5 DEF Shutdown, LoseMemory
  <2>3. TypeLoops'
    BY <1>5 DEF Shutdown, LoseMemory
  <2>4. (scanEnd \in Heights /\ gaps \subseteq GapRange /\ rgaps \subseteq Heights)'
    BY <1>5 DEF Shutdown, LoseMemory
  <2> QED
    BY <2>1, <2>2, <2>3, <2>4 DEF TypeOK
<1>6. CASE \E s \in StartHeights, gapMode \in BOOLEAN : Boot(s, gapMode)
  BY <1>6 DEF Boot
<1>7. CASE DetectBlockGaps
  BY <1>7 DEF DetectBlockGaps, DetectGaps
<1>8. CASE FillGap
  <2>1. TypeStore' /\ TypeLoops'
    BY <1>8 DEF FillGap
  <2>2. conc' \in BOOLEAN
    <3>1. CASE gaps = {}
      BY <1>8, <3>1 DEF FillGap
    <3>2. CASE \E g \in gaps : conc' = (g.end - g.start + 1 > ConcurrentAbove)
      BY <3>2
    <3> QED
      BY <1>8, <3>1, <3>2 DEF FillGap
  <2>3. (pc \in Labels /\ cancelled \in BOOLEAN /\ start \in StartHeights
          /\ phase \in {"run", "gap"})'
    BY <1>8 DEF FillGap
  <2>4. (scanEnd \in Heights /\ gaps \subseteq GapRange /\ rgaps \subseteq Heights)'
    BY <1>8 DEF FillGap
  <2> QED
    BY <2>1, <2>2, <2>3, <2>4 DEF TypeOK, TypeControl
<1>9. CASE DetectMissingReceipts
  <2>1. DetectReceiptGaps(start, scanEnd) \subseteq Heights
    BY DEF DetectReceiptGaps
  <2>2. rgaps' \subseteq Heights
    BY <1>9, <2>1 DEF DetectMissingReceipts
  <2> QED
    BY <1>9, <2>2 DEF DetectMissingReceipts
<1>10. CASE FillReceiptGap
  <2>1. TypeStore'
    BY <1>10 DEF FillReceiptGap
  <2>2. TypeControl'
    BY <1>10 DEF FillReceiptGap
  <2>3. TypeLoops'
    BY <1>10 DEF FillReceiptGap
  <2>4. (scanEnd \in Heights /\ gaps \subseteq GapRange /\ rgaps \subseteq Heights)'
    BY <1>10 DEF FillReceiptGap
  <2> QED
    BY <2>1, <2>2, <2>3, <2>4 DEF TypeOK
<1>11. CASE StoreMissingReceipt
  <2>1. h \in Heights
    BY <1>11 DEF StoreMissingReceipt
  <2>2. \A t \in MissingReceipts(h) : <<"rcpt", h, t>> \in KeySpace
    BY <2>1 DEF MissingReceipts
  <2>3. keys' \subseteq KeySpace
    BY <1>11, <2>2 DEF StoreMissingReceipt
  <2> HIDE DEF KeySpace
  <2> QED
    BY <1>11, <2>3 DEF StoreMissingReceipt
<1>12. CASE GetNextHeight
  BY <1>12 DEF GetNextHeight
<1>13. CASE Poll
  <2>1. TypeStore'
    BY <1>13 DEF Poll
  <2>2. TypeControl'
    BY <1>13 DEF Poll
  <2>3. TypeLoops'
    BY <1>13 DEF Poll
  <2>4. (scanEnd \in Heights /\ gaps \subseteq GapRange /\ rgaps \subseteq Heights)'
    BY <1>13 DEF Poll
  <2> QED
    BY <2>1, <2>2, <2>3, <2>4 DEF TypeOK
<1>14. CASE RangeHead
  BY <1>14 DEF RangeHead, RangeFails
<1>15. CASE ConcurrentHead
  BY <1>15 DEF ConcurrentHead, RangeFails
<1>16. CASE RangeDone
  BY <1>16 DEF RangeDone
<1>17. CASE FetchOK
  BY <1>17 DEF FetchOK
<1>18. CASE FetchError
  BY <1>18 DEF FetchError, RangeFails
<1>19. CASE SetBlock
  BY <1>19 DEF SetBlock, Write, RangeFails
<1>20. CASE SetTransaction
  BY <1>20 DEF SetTransaction, Write, RangeFails
<1>21. CASE ProcessWBFTMetadata
  BY <1>21 DEF ProcessWBFTMetadata, Write, RangeFails
<1>22. CASE ProcessAddressIndexing
  BY <1>22 DEF ProcessAddressIndexing, TryWrite
<1>23. CASE ProcessBalanceTracking
  BY <1>23 DEF ProcessBalanceTracking, TryWrite
<1>24. CASE InitializeGenesisBalances
  BY <1>24 DEF InitializeGenesisBalances, TryWrite
<1>25. CASE ProcessFeeDelegationMetadata
  BY <1>25 DEF ProcessFeeDelegationMetadata, TryWrite
<1>26. CASE PublishBlockEvent
  BY <1>26 DEF PublishBlockEvent, Publish
<1>27. CASE SetReceipt
  BY <1>27 DEF SetReceipt, Write, RangeFails
<1>28. CASE IndexLogs
  BY <1>28 DEF IndexLogs, TryWrite, AfterReceipt
<1>29. CASE ParseAndIndexLogs
  BY <1>29 DEF ParseAndIndexLogs, TryWrite, AfterReceipt
<1>30. CASE PublishBlockEvents
  BY <1>30 DEF PublishBlockEvents, Publish
<1>31. CASE SetLatestHeight
  BY <1>31 DEF SetLatestHeight, RangeFails
<1> QED
  BY <1>1, <1>2, <1>3, <1>4, <1>5, <1>6, <1>7, <1>8, <1>9, <1>10, <1>11, <1>12, <1>13, <1>14, <1>15, <1>16, <1>17, <1>18, <1>19, <1>20, <1>21, <1>22, <1>23, <1>24, <1>25, <1>26, <1>27, <1>28, <1>29, <1>30, <1>31 DEF Next, RunWithGapRecovery, Run, FetchBlock

\* The recorded height: only SetLatestHeight moves it, besides a crash.
LEMMA LatestStep == ASSUME IInv, Next PROVE LatestIsComplete'
<1> USE ConstantsAssumption
<1> USE DEF IInv, TypeOK, TypeStore, TypeControl, TypeLoops, LatestIsComplete,
            DurableLatestIsComplete, Complete, CompleteOnDisk, Heights, None, store, disk, loop, recovery, config
<1>1. CASE NewChainBlock
  BY <1>1 DEF NewChainBlock
<1>2. CASE WalFlush
  BY <1>2 DEF WalFlush
<1>3. CASE Crash
  BY <1>3 DEF Crash, LoseMemory
<1>4. CASE Cancel
  BY <1>4 DEF Cancel
<1>5. CASE Shutdown
  BY <1>5 DEF Shutdown, LoseMemory
<1>6. CASE \E s \in StartHeights, gapMode \in BOOLEAN : Boot(s, gapMode)
  BY <1>6 DEF Boot
<1>7. CASE DetectBlockGaps
  BY <1>7 DEF DetectBlockGaps
<1>8. CASE FillGap
  BY <1>8 DEF FillGap
<1>9. CASE DetectMissingReceipts
  BY <1>9 DEF DetectMissingReceipts
<1>10. CASE FillReceiptGap
  BY <1>10 DEF FillReceiptGap
<1>11. CASE StoreMissingReceipt
  BY <1>11 DEF StoreMissingReceipt
<1>12. CASE GetNextHeight
  BY <1>12 DEF GetNextHeight
<1>13. CASE Poll
  BY <1>13 DEF Poll
<1>14. CASE RangeHead
  BY <1>14 DEF RangeHead, RangeFails
<1>15. CASE ConcurrentHead
  BY <1>15 DEF ConcurrentHead, RangeFails
<1>16. CASE RangeDone
  BY <1>16 DEF RangeDone
<1>17. CASE FetchOK
  BY <1>17 DEF FetchOK
<1>18. CASE FetchError
  BY <1>18 DEF FetchError, RangeFails
<1>19. CASE SetBlock
  BY <1>19 DEF SetBlock, Write, RangeFails
<1>20. CASE SetTransaction
  BY <1>20 DEF SetTransaction, Write, RangeFails
<1>21. CASE ProcessWBFTMetadata
  BY <1>21 DEF ProcessWBFTMetadata, Write, RangeFails
<1>22. CASE ProcessAddressIndexing
  BY <1>22 DEF ProcessAddressIndexing, TryWrite
<1>23. CASE ProcessBalanceTracking
  BY <1>23 DEF ProcessBalanceTracking, TryWrite
<1>24. CASE InitializeGenesisBalances
  BY <1>24 DEF InitializeGenesisBalances, TryWrite
<1>25. CASE ProcessFeeDelegationMetadata
  BY <1>25 DEF ProcessFeeDelegationMetadata, TryWrite
<1>26. CASE PublishBlockEvent
  BY <1>26 DEF PublishBlockEvent, Publish
<1>27. CASE SetReceipt
  BY <1>27 DEF SetReceipt, Write, RangeFails
<1>28. CASE IndexLogs
  BY <1>28 DEF IndexLogs, TryWrite, AfterReceipt
<1>29. CASE ParseAndIndexLogs
  BY <1>29 DEF ParseAndIndexLogs, TryWrite, AfterReceipt
<1>30. CASE PublishBlockEvents
  BY <1>30 DEF PublishBlockEvents, Publish
<1>31. CASE SetLatestHeight
  <2>1. CASE latest' = latest
    BY <1>31, <2>1 DEF SetLatestHeight
  <2>2. CASE latest' = h /\ phase = "run"
    <3>1. Complete(h)
      BY <1>31, <2>2, FetchedIsComplete DEF SetLatestHeight, ControlIsBacked, Bounds, InRange, BlockSteps
    <3>2. \A x \in floor..(h - 1) : Complete(x)
      BY <1>31, <2>2 DEF SetLatestHeight, ControlIsBacked, Bounds, InRange, BlockSteps
    <3> QED
      BY <1>31, <2>2, <3>1, <3>2, ConstantsAssumption DEF SetLatestHeight
  <2>3. CASE latest' = h /\ phase = "gap"
    <3>1. h < floor
      BY <1>31, <2>3, ConstantsAssumption
         DEF SetLatestHeight, ControlIsBacked, Bounds, InRange, BlockSteps
    <3> QED
      BY <1>31, <2>3, <3>1, ConstantsAssumption DEF SetLatestHeight
  <2> QED
    BY <1>31, <2>1, <2>2, <2>3 DEF SetLatestHeight
<1> QED
  BY <1>1, <1>2, <1>3, <1>4, <1>5, <1>6, <1>7, <1>8, <1>9, <1>10, <1>11, <1>12, <1>13, <1>14, <1>15, <1>16, <1>17, <1>18, <1>19, <1>20, <1>21, <1>22, <1>23, <1>24, <1>25, <1>26, <1>27, <1>28, <1>29, <1>30, <1>31 DEF Next, RunWithGapRecovery, Run, FetchBlock

\* The disk: it changes only when it takes the state of the process.
LEMMA DurableStep == ASSUME IInv, Next PROVE DurableLatestIsComplete'
<1> USE ConstantsAssumption
<1> USE DEF IInv, TypeOK, TypeStore, TypeControl, TypeLoops, LatestIsComplete,
            DurableLatestIsComplete, Complete, CompleteOnDisk, Heights, None, store, disk, loop, recovery, config
<1>1. CASE NewChainBlock
  BY <1>1 DEF NewChainBlock
<1>2. CASE WalFlush
  BY <1>2 DEF WalFlush
<1>3. CASE Crash
  BY <1>3 DEF Crash, LoseMemory
<1>4. CASE Cancel
  BY <1>4 DEF Cancel
<1>5. CASE Shutdown
  BY <1>5 DEF Shutdown, LoseMemory
<1>6. CASE \E s \in StartHeights, gapMode \in BOOLEAN : Boot(s, gapMode)
  BY <1>6 DEF Boot
<1>7. CASE DetectBlockGaps
  BY <1>7 DEF DetectBlockGaps
<1>8. CASE FillGap
  BY <1>8 DEF FillGap
<1>9. CASE DetectMissingReceipts
  BY <1>9 DEF DetectMissingReceipts
<1>10. CASE FillReceiptGap
  BY <1>10 DEF FillReceiptGap
<1>11. CASE StoreMissingReceipt
  BY <1>11 DEF StoreMissingReceipt
<1>12. CASE GetNextHeight
  BY <1>12 DEF GetNextHeight
<1>13. CASE Poll
  BY <1>13 DEF Poll
<1>14. CASE RangeHead
  BY <1>14 DEF RangeHead, RangeFails
<1>15. CASE ConcurrentHead
  BY <1>15 DEF ConcurrentHead, RangeFails
<1>16. CASE RangeDone
  BY <1>16 DEF RangeDone
<1>17. CASE FetchOK
  BY <1>17 DEF FetchOK
<1>18. CASE FetchError
  BY <1>18 DEF FetchError, RangeFails
<1>19. CASE SetBlock
  BY <1>19 DEF SetBlock, Write, RangeFails
<1>20. CASE SetTransaction
  BY <1>20 DEF SetTransaction, Write, RangeFails
<1>21. CASE ProcessWBFTMetadata
  BY <1>21 DEF ProcessWBFTMetadata, Write, RangeFails
<1>22. CASE ProcessAddressIndexing
  BY <1>22 DEF ProcessAddressIndexing, TryWrite
<1>23. CASE ProcessBalanceTracking
  BY <1>23 DEF ProcessBalanceTracking, TryWrite
<1>24. CASE InitializeGenesisBalances
  BY <1>24 DEF InitializeGenesisBalances, TryWrite
<1>25. CASE ProcessFeeDelegationMetadata
  BY <1>25 DEF ProcessFeeDelegationMetadata, TryWrite
<1>26. CASE PublishBlockEvent
  BY <1>26 DEF PublishBlockEvent, Publish
<1>27. CASE SetReceipt
  BY <1>27 DEF SetReceipt, Write, RangeFails
<1>28. CASE IndexLogs
  BY <1>28 DEF IndexLogs, TryWrite, AfterReceipt
<1>29. CASE ParseAndIndexLogs
  BY <1>29 DEF ParseAndIndexLogs, TryWrite, AfterReceipt
<1>30. CASE PublishBlockEvents
  BY <1>30 DEF PublishBlockEvents, Publish
<1>31. CASE SetLatestHeight
  BY <1>31 DEF SetLatestHeight, RangeFails
<1> QED
  BY <1>1, <1>2, <1>3, <1>4, <1>5, <1>6, <1>7, <1>8, <1>9, <1>10, <1>11, <1>12, <1>13, <1>14, <1>15, <1>16, <1>17, <1>18, <1>19, <1>20, <1>21, <1>22, <1>23, <1>24, <1>25, <1>26, <1>27, <1>28, <1>29, <1>30, <1>31 DEF Next, RunWithGapRecovery, Run, FetchBlock

\* Events: the store only grows while the process that published them lives.
LEMMA EventsStep == ASSUME IInv, Next PROVE EventsAreBacked'
<1> USE DEF IInv, EventsAreBacked, store, disk, loop, recovery, config
<1>1. CASE NewChainBlock
  BY <1>1 DEF NewChainBlock
<1>2. CASE WalFlush
  BY <1>2 DEF WalFlush
<1>3. CASE Crash
  BY <1>3 DEF Crash, LoseMemory
<1>4. CASE Cancel
  BY <1>4 DEF Cancel
<1>5. CASE Shutdown
  BY <1>5 DEF Shutdown, LoseMemory
<1>6. CASE \E s \in StartHeights, gapMode \in BOOLEAN : Boot(s, gapMode)
  BY <1>6 DEF Boot
<1>7. CASE DetectBlockGaps
  BY <1>7 DEF DetectBlockGaps
<1>8. CASE FillGap
  BY <1>8 DEF FillGap
<1>9. CASE DetectMissingReceipts
  BY <1>9 DEF DetectMissingReceipts
<1>10. CASE FillReceiptGap
  BY <1>10 DEF FillReceiptGap
<1>11. CASE StoreMissingReceipt
  BY <1>11 DEF StoreMissingReceipt
<1>12. CASE GetNextHeight
  BY <1>12 DEF GetNextHeight
<1>13. CASE Poll
  BY <1>13 DEF Poll
<1>14. CASE RangeHead
  BY <1>14 DEF RangeHead, RangeFails
<1>15. CASE ConcurrentHead
  BY <1>15 DEF ConcurrentHead, RangeFails
<1>16. CASE RangeDone
  BY <1>16 DEF RangeDone
<1>17. CASE FetchOK
  BY <1>17 DEF FetchOK
<1>18. CASE FetchError
  BY <1>18 DEF FetchError, RangeFails
<1>19. CASE SetBlock
  BY <1>19 DEF SetBlock, Write, RangeFails
<1>20. CASE SetTransaction
  BY <1>20 DEF SetTransaction, Write, RangeFails
<1>21. CASE ProcessWBFTMetadata
  BY <1>21 DEF ProcessWBFTMetadata, Write, RangeFails
<1>22. CASE ProcessAddressIndexing
  BY <1>22 DEF ProcessAddressIndexing, TryWrite
<1>23. CASE ProcessBalanceTracking
  BY <1>23 DEF ProcessBalanceTracking, TryWrite
<1>24. CASE InitializeGenesisBalances
  BY <1>24 DEF InitializeGenesisBalances, TryWrite
<1>25. CASE ProcessFeeDelegationMetadata
  BY <1>25 DEF ProcessFeeDelegationMetadata, TryWrite
<1>26. CASE PublishBlockEvent
  <2>1. \A e \in published' : e \in published \/ e = <<"block", h>>
    BY <1>26 DEF PublishBlockEvent, Publish
  <2>2. /\ <<"block", h, 0>> \in keys
        /\ \A t \in Txs : <<"tx", h, t>> \in keys
        /\ TRUE
    BY <1>26, ConstantsAssumption
       DEF PublishBlockEvent, Publish, ControlIsBacked, Progress, Stored, StoredUpTo, ReceiptsUpTo, PastFee,
           PastGenesis, PastBal, PastAddr, PastWbft, PastTx, PastBlock, Txs, BestEffort
  <2>3. keys' = keys
    BY <1>26 DEF PublishBlockEvent, Publish
  <2> SUFFICES ASSUME NEW e \in published'
               PROVE  /\ <<"block", e[2], 0>> \in keys
                      /\ \A t \in Txs : <<"tx", e[2], t>> \in keys
                      /\ e[1] = "txs" => \A t \in Txs : <<"rcpt", e[2], t>> \in keys
    BY <2>3
  <2>4. CASE e \in published
    BY <2>4
  <2>5. CASE e = <<"block", h>>
    BY <2>2, <2>5
  <2> QED
    BY <2>1, <2>4, <2>5
<1>27. CASE SetReceipt
  BY <1>27 DEF SetReceipt, Write, RangeFails
<1>28. CASE IndexLogs
  BY <1>28 DEF IndexLogs, TryWrite, AfterReceipt
<1>29. CASE ParseAndIndexLogs
  BY <1>29 DEF ParseAndIndexLogs, TryWrite, AfterReceipt
<1>30. CASE PublishBlockEvents
  <2>1. \A e \in published' : e \in published \/ e = <<"txs", h>>
    BY <1>30 DEF PublishBlockEvents, Publish
  <2>2. /\ <<"block", h, 0>> \in keys
        /\ \A t \in Txs : <<"tx", h, t>> \in keys
        /\ \A t \in Txs : <<"rcpt", h, t>> \in keys
    BY <1>30, ConstantsAssumption
       DEF PublishBlockEvents, Publish, ControlIsBacked, Progress, Stored, StoredUpTo, ReceiptsUpTo, PastFee,
           PastGenesis, PastBal, PastAddr, PastWbft, PastTx, PastBlock, Txs, BestEffort
  <2>3. keys' = keys
    BY <1>30 DEF PublishBlockEvents, Publish
  <2> SUFFICES ASSUME NEW e \in published'
               PROVE  /\ <<"block", e[2], 0>> \in keys
                      /\ \A t \in Txs : <<"tx", e[2], t>> \in keys
                      /\ e[1] = "txs" => \A t \in Txs : <<"rcpt", e[2], t>> \in keys
    BY <2>3
  <2>4. CASE e \in published
    BY <2>4
  <2>5. CASE e = <<"txs", h>>
    BY <2>2, <2>5
  <2> QED
    BY <2>1, <2>4, <2>5
<1>31. CASE SetLatestHeight
  BY <1>31, ZenonT(30) DEF SetLatestHeight, RangeFails
<1> QED
  BY <1>1, <1>2, <1>3, <1>4, <1>5, <1>6, <1>7, <1>8, <1>9, <1>10, <1>11, <1>12, <1>13, <1>14, <1>15, <1>16, <1>17, <1>18, <1>19, <1>20, <1>21, <1>22, <1>23, <1>24, <1>25, <1>26, <1>27, <1>28, <1>29, <1>30, <1>31 DEF Next, RunWithGapRecovery, Run, FetchBlock

\* FetchBlock: each step stores its key before control moves on.
LEMMA ProgressStep == ASSUME IInv, Next PROVE Progress'
<1> USE ConstantsAssumption
<1> USE DEF IInv, TypeOK, TypeControl, TypeLoops, ControlIsBacked, Progress, Stored, StoredUpTo, ReceiptsUpTo, Txs,
            Heights, PastFee, PastGenesis, PastBal, PastAddr, PastWbft, PastTx, PastBlock,
            store, disk, loop, recovery, config
<1>1. CASE NewChainBlock
  BY <1>1 DEF NewChainBlock
<1>2. CASE WalFlush
  BY <1>2 DEF WalFlush
<1>3. CASE Crash
  BY <1>3 DEF Crash, LoseMemory
<1>4. CASE Cancel
  BY <1>4 DEF Cancel
<1>5. CASE Shutdown
  BY <1>5 DEF Shutdown, LoseMemory
<1>6. CASE \E s \in StartHeights, gapMode \in BOOLEAN : Boot(s, gapMode)
  BY <1>6 DEF Boot
<1>7. CASE DetectBlockGaps
  BY <1>7 DEF DetectBlockGaps
<1>8. CASE FillGap
  BY <1>8 DEF FillGap
<1>9. CASE DetectMissingReceipts
  BY <1>9 DEF DetectMissingReceipts
<1>10. CASE FillReceiptGap
  BY <1>10 DEF FillReceiptGap
<1>11. CASE StoreMissingReceipt
  BY <1>11 DEF StoreMissingReceipt
<1>12. CASE GetNextHeight
  BY <1>12 DEF GetNextHeight
<1>13. CASE Poll
  BY <1>13 DEF Poll
<1>14. CASE RangeHead
  BY <1>14 DEF RangeHead, RangeFails
<1>15. CASE ConcurrentHead
  BY <1>15 DEF ConcurrentHead, RangeFails
<1>16. CASE RangeDone
  BY <1>16 DEF RangeDone
<1>17. CASE FetchOK
  BY <1>17 DEF FetchOK
<1>18. CASE FetchError
  BY <1>18 DEF FetchError, RangeFails
<1>19. CASE SetBlock
  BY <1>19 DEF SetBlock, Write, RangeFails
<1>20. CASE SetTransaction
  BY <1>20 DEF SetTransaction, Write, RangeFails
<1>21. CASE ProcessWBFTMetadata
  BY <1>21 DEF ProcessWBFTMetadata, Write, RangeFails
<1>22. CASE ProcessAddressIndexing
  BY <1>22 DEF ProcessAddressIndexing, TryWrite
<1>23. CASE ProcessBalanceTracking
  BY <1>23 DEF ProcessBalanceTracking, TryWrite
<1>24. CASE InitializeGenesisBalances
  BY <1>24 DEF InitializeGenesisBalances, TryWrite
<1>25. CASE ProcessFeeDelegationMetadata
  BY <1>25 DEF ProcessFeeDelegationMetadata, TryWrite
<1>26. CASE PublishBlockEvent
  BY <1>26 DEF PublishBlockEvent, Publish
<1>27. CASE SetReceipt
  BY <1>27 DEF SetReceipt, Write, RangeFails
<1>28. CASE IndexLogs
  BY <1>28 DEF IndexLogs, TryWrite, AfterReceipt
<1>29. CASE ParseAndIndexLogs
  BY <1>29 DEF ParseAndIndexLogs, TryWrite, AfterReceipt
<1>30. CASE PublishBlockEvents
  BY <1>30 DEF PublishBlockEvents, Publish
<1>31. CASE SetLatestHeight
  BY <1>31 DEF SetLatestHeight, RangeFails
<1> QED
  BY <1>1, <1>2, <1>3, <1>4, <1>5, <1>6, <1>7, <1>8, <1>9, <1>10, <1>11, <1>12, <1>13, <1>14, <1>15, <1>16, <1>17, <1>18, <1>19, <1>20, <1>21, <1>22, <1>23, <1>24, <1>25, <1>26, <1>27, <1>28, <1>29, <1>30, <1>31 DEF Next, RunWithGapRecovery, Run, FetchBlock

\* Run and FillGaps: what they know between two blocks.
LEMMA BoundsStep == ASSUME IInv, Next PROVE Bounds'
<1> USE ConstantsAssumption
<1> USE DEF IInv, TypeOK, TypeStore, TypeControl, TypeLoops, ControlIsBacked, Bounds,
            InRange, BlockSteps, Complete,           LatestIsComplete, Heights, None, GapRange, store, disk, loop, recovery, config
<1>1. CASE NewChainBlock
  BY <1>1 DEF NewChainBlock
<1>2. CASE WalFlush
  BY <1>2 DEF WalFlush
<1>3. CASE Crash
  BY <1>3 DEF Crash, LoseMemory
<1>4. CASE Cancel
  BY <1>4 DEF Cancel
<1>5. CASE Shutdown
  BY <1>5 DEF Shutdown, LoseMemory
<1>6. CASE \E s \in StartHeights, gapMode \in BOOLEAN : Boot(s, gapMode)
  BY <1>6 DEF Boot
<1>7. CASE DetectBlockGaps
  <2>1. \A g \in gaps' : g.end < floor
    BY <1>7, GapsBelowFloor DEF DetectBlockGaps
  <2> QED
    BY <1>7, <2>1 DEF DetectBlockGaps
<1>8. CASE FillGap
  BY <1>8 DEF FillGap
<1>9. CASE DetectMissingReceipts
  BY <1>9 DEF DetectMissingReceipts
<1>10. CASE FillReceiptGap
  BY <1>10 DEF FillReceiptGap
<1>11. CASE StoreMissingReceipt
  BY <1>11 DEF StoreMissingReceipt
<1>12. CASE GetNextHeight
  BY <1>12 DEF GetNextHeight
<1>13. CASE Poll
  BY <1>13 DEF Poll
<1>14. CASE RangeHead
  BY <1>14 DEF RangeHead, RangeFails
<1>15. CASE ConcurrentHead
  BY <1>15 DEF ConcurrentHead, RangeFails
<1>16. CASE RangeDone
  BY <1>16 DEF RangeDone
<1>17. CASE FetchOK
  BY <1>17 DEF FetchOK
<1>18. CASE FetchError
  BY <1>18 DEF FetchError, RangeFails
<1>19. CASE SetBlock
  BY <1>19 DEF SetBlock, Write, RangeFails
<1>20. CASE SetTransaction
  BY <1>20 DEF SetTransaction, Write, RangeFails
<1>21. CASE ProcessWBFTMetadata
  BY <1>21 DEF ProcessWBFTMetadata, Write, RangeFails
<1>22. CASE ProcessAddressIndexing
  BY <1>22 DEF ProcessAddressIndexing, TryWrite
<1>23. CASE ProcessBalanceTracking
  BY <1>23 DEF ProcessBalanceTracking, TryWrite
<1>24. CASE InitializeGenesisBalances
  BY <1>24 DEF InitializeGenesisBalances, TryWrite
<1>25. CASE ProcessFeeDelegationMetadata
  BY <1>25 DEF ProcessFeeDelegationMetadata, TryWrite
<1>26. CASE PublishBlockEvent
  BY <1>26 DEF PublishBlockEvent, Publish
<1>27. CASE SetReceipt
  BY <1>27 DEF SetReceipt, Write, RangeFails
<1>28. CASE IndexLogs
  BY <1>28 DEF IndexLogs, TryWrite, AfterReceipt
<1>29. CASE ParseAndIndexLogs
  BY <1>29 DEF ParseAndIndexLogs, TryWrite, AfterReceipt
<1>30. CASE PublishBlockEvents
  BY <1>30 DEF PublishBlockEvents, Publish
<1>31. CASE SetLatestHeight
  <2>1. CASE h' = h
    BY <1>31, <2>1 DEF SetLatestHeight, RangeFails
  <2>2. CASE h' = h + 1 /\ phase = "run"
    <3>1. Complete(h)
      BY <1>31, <2>2, FetchedIsComplete DEF SetLatestHeight
    <3> QED
      BY <1>31, <2>2, <3>1 DEF SetLatestHeight
  <2>3. CASE h' = h + 1 /\ phase = "gap"
    BY <1>31, <2>3 DEF SetLatestHeight
  <2> QED
    BY <1>31, <2>1, <2>2, <2>3 DEF SetLatestHeight
<1> QED
  BY <1>1, <1>2, <1>3, <1>4, <1>5, <1>6, <1>7, <1>8, <1>9, <1>10, <1>11, <1>12, <1>13, <1>14, <1>15, <1>16, <1>17, <1>18, <1>19, <1>20, <1>21, <1>22, <1>23, <1>24, <1>25, <1>26, <1>27, <1>28, <1>29, <1>30, <1>31 DEF Next, RunWithGapRecovery, Run, FetchBlock

\* The invariant is inductive.
LEMMA Inductive == IInv /\ [Next]_vars => IInv'
<1>1. ASSUME IInv, Next PROVE IInv'
  BY <1>1, TypeStep, LatestStep, DurableStep, EventsStep, ProgressStep, BoundsStep
     DEF IInv, ControlIsBacked
<1>2. ASSUME IInv, UNCHANGED vars PROVE IInv'
  BY <1>2 DEF IInv, TypeOK, LatestIsComplete, DurableLatestIsComplete, EventsAreBacked,
     TypeStore, TypeControl, TypeLoops, ControlIsBacked, Progress, Bounds, InRange, Complete,
     CompleteOnDisk, Stored, StoredUpTo, ReceiptsUpTo, vars, store, disk, loop, recovery, config
<1> QED
  BY <1>1, <1>2

\* The inductive invariant holds of every reachable state of the indexing loop.
THEOREM Invariance == Spec => []IInv
  BY InitIInv, Inductive, PTL DEF Spec

\* The types of the store, the control state and the loops.
THEOREM TypeCorrect == Spec => []TypeOK
<1>1. IInv => TypeOK
  BY DEF IInv
<1> QED
  BY Invariance, <1>1, PTL

\* Everything from the highest start height to the recorded latest height is
\* completely indexed, through retries, rewinds, gap filling and crashes.
THEOREM LatestComplete == Spec => []LatestIsComplete
<1>1. IInv => LatestIsComplete
  BY DEF IInv
<1> QED
  BY Invariance, <1>1, PTL

\* The same of what a crash leaves on disk.
THEOREM DurableLatestComplete == Spec => []DurableLatestIsComplete
<1>1. IInv => DurableLatestIsComplete
  BY DEF IInv
<1> QED
  BY Invariance, <1>1, PTL

\* No transaction event goes out before the receipts are in the store, and no
\* block event before the transactions are.
THEOREM EventsBacked == Spec => []EventsAreBacked
<1>1. IInv => EventsAreBacked
  BY DEF IInv
<1> QED
  BY Invariance, <1>1, PTL

-----------------------------------------------------------------------------
(* The repair of receipts, in a process whose storage calls succeed.       *)

\* While FillReceiptGaps runs, every block of the scanned range that lacks a
\* receipt is still on its list, or in its hands.
RepairsLeft ==
    pc \in {"rfill", "rstore"} =>
        \A x \in start..scanEnd : HasBlock(x) /\ MissingReceipts(x) # {} =>
            x \in rgaps \/ (pc = "rstore" /\ x = h)

\* The scan lists what lacks a receipt; the repair takes heights off the list
\* and leaves one only when it lacks nothing.
LEMMA RepairStep ==
  ASSUME StoreFails = FALSE, RepairsLeft, [Next]_vars
  PROVE  RepairsLeft'
<1> USE DEF store, disk, loop, recovery, config
<1>1. CASE NewChainBlock \/ WalFlush \/ Cancel \/ UNCHANGED vars
  BY <1>1 DEF NewChainBlock, WalFlush, Cancel, vars, RepairsLeft, HasBlock, MissingReceipts
<1>2. ASSUME pc' \notin {"rfill", "rstore"} PROVE RepairsLeft'
  BY <1>2 DEF RepairsLeft
<1>3. CASE \/ Crash \/ Shutdown
           \/ \E s \in StartHeights, gapMode \in BOOLEAN : Boot(s, gapMode)
  BY <1>2, <1>3 DEF Crash, Shutdown, LoseMemory, Boot
<1>4. CASE DetectBlockGaps \/ FillGap \/ Run
  BY <1>2, <1>4 DEF DetectBlockGaps, FillGap, Run, GetNextHeight, Poll, RangeHead, ConcurrentHead,
     RangeDone, RangeFails
<1>5. CASE FetchBlock
  BY <1>2, <1>5 DEF FetchBlock, FetchOK, FetchError, SetBlock, SetTransaction, ProcessWBFTMetadata,
     ProcessAddressIndexing, ProcessBalanceTracking, InitializeGenesisBalances,
     ProcessFeeDelegationMetadata, PublishBlockEvent, SetReceipt, IndexLogs, ParseAndIndexLogs,
     PublishBlockEvents, SetLatestHeight, Write, TryWrite, Publish, RangeFails, AfterReceipt
<1>6. CASE DetectMissingReceipts
  <2>1. CASE pc' = "next"
    BY <1>2, <2>1
  <2>2. CASE pc' = "rfill" /\ rgaps' = DetectReceiptGaps(start, scanEnd)
    BY <1>6, <2>2 DEF DetectMissingReceipts, DetectReceiptGaps, RepairsLeft, HasBlock, MissingReceipts
  <2> QED
    BY <1>6, <2>1, <2>2 DEF DetectMissingReceipts
<1>7. CASE FillReceiptGap
  <2>1. CASE pc' = "next"
    BY <1>2, <2>1
  <2>2. CASE pc' = "rstore" /\ rgaps' = rgaps \ {h'}
    BY <1>7, <2>2 DEF FillReceiptGap, RepairsLeft, HasBlock, MissingReceipts
  <2> QED
    BY <1>7, <2>1, <2>2 DEF FillReceiptGap
<1>8. CASE StoreMissingReceipt
  <2>1. CASE MissingReceipts(h) = {} /\ pc' = "rfill" /\ keys' = keys
    BY <1>8, <2>1 DEF StoreMissingReceipt, RepairsLeft, HasBlock, MissingReceipts
  <2>2. ASSUME NEW t, keys' = keys \cup {<<"rcpt", h, t>>}, pc' = pc PROVE RepairsLeft'
    <3>1. \A x : HasBlock(x)' => HasBlock(x)
      BY <2>2 DEF HasBlock
    <3>2. \A x : MissingReceipts(x)' # {} => MissingReceipts(x) # {}
      BY <2>2 DEF MissingReceipts
    <3> QED
      BY <1>8, <2>2, <3>1, <3>2 DEF StoreMissingReceipt, RepairsLeft
  <2> QED
    BY <1>8, <2>1, <2>2 DEF StoreMissingReceipt
<1> QED
  BY <1>1, <1>3, <1>4, <1>5, <1>6, <1>7, <1>8 DEF Next, RunWithGapRecovery

\* When the repair of receipts of a boot has emptied its list, no block of the
\* range it scanned lacks a receipt: blocks that FillGaps stored, or broke off
\* at, in the same boot are seen by the scan after it, and FillReceiptGaps
\* leaves a height only when it is whole.  A storage call that fails makes the
\* code pass over a block or give up, and is excluded.
THEOREM RepairHeals ==
  ASSUME StoreFails = FALSE
  PROVE  Spec => []ReceiptsHealed
<1>1. Init => RepairsLeft
  BY DEF Init, RepairsLeft
<1>2. RepairsLeft => ReceiptsHealed
  BY DEF RepairsLeft, ReceiptsHealed
<1> QED
  BY <1>1, <1>2, RepairStep, PTL DEF Spec

-----------------------------------------------------------------------------
(* The logs of a chain c that a question is about.                          *)

Places(c) == 1..Len(c)
BlacklistLogs(c, a) == {q \in Places(c) : c[q].kind \in {"blacklisted", "unblacklisted"} /\ c[q].account = a}
MinterLogs(c, a) == {q \in Places(c) : c[q].kind \in {"minterConfigured", "minterRemoved"} /\ c[q].account = a}
SeatLogs(c, a) ==
    {q \in Places(c) : /\ c[q].kind \in {"memberAdded", "memberRemoved", "memberChanged"}
                       /\ c[q].contract = "validator"
                       /\ (c[q].account = a \/ (c[q].kind = "memberChanged" /\ c[q].old = a))}
DecisionLogs(c, p) == {q \in Places(c) : c[q].kind \in {"created", "status"} /\ c[q].proposal = p}
VoteLogs(c, p, a) == {q \in Places(c) : c[q].kind = "voted" /\ c[q].account = a /\ c[q].proposal = p}
AuthorLogs(c, b) == {q \in Places(c) : c[q].kind \in {"authorized", "unauthorized"} /\ c[q].block = b}

\* The log at m has the last word about the question with the logs S: it was
\* parsed to its end, and no later one of S was ever begun.
Standing(c, S, m, pos, bad, top) ==
    /\ m \in S /\ m < pos /\ m \notin bad
    /\ \A x \in S : x > m => c[x].block > top
Untouched(c, S, top) == \A x \in S : c[x].block > top

\* What the log l says.
Closing == {"executed", "failed"}
ClosedAt(l) == IF StatusOf(l) \in Closing THEN l.block ELSE 0
AllowanceOf(l) == IF l.kind = "minterRemoved" THEN Absent ELSE l.amount
Seated(l, a) == l.kind # "memberRemoved" /\ l.account = a
VoteKey(p, a) == <<"vote", p, a>>
AuthorKey(b) == <<"authorized", b>>

-----------------------------------------------------------------------------
(* The run.                                                                 *)

AtBlock(c, cur, pos) ==
    /\ pos \in 1..(Len(c) + 1)
    /\ \A q \in Places(c) : /\ c[q].block < cur => q < pos
                            /\ q < pos => c[q].block <= cur

Shape ==
    /\ logs \in Chains
    /\ first \in Nat /\ current \in Nat /\ recorded \in Nat /\ reached \in Nat
    /\ 1 <= first /\ first <= current /\ current <= recorded + 1
    /\ AtBlock(logs, current, position)
    /\ todo # <<>> => position \in Places(logs) /\ logs[position].block = current /\ current <= reached
    /\ torn \in BOOLEAN /\ replays \in Nat /\ faults \in Nat

Tables ==
    /\ minters = [a \in Accounts |-> minters[a]]
    /\ proposals = [p \in Proposals |-> proposals[p]]
    /\ \A p \in Proposals : proposals[p] = Absent \/ proposals[p] \in [status : Statuses, executedAt : Nat]

-----------------------------------------------------------------------------
(* The handler in hand.                                                     *)

RowKinds == {"voted", "authorized", "unauthorized",
             "gasTip", "emergency", "depositMint", "maxProposals", "skipped"}
MemberKinds == {"memberAdded", "memberRemoved", "memberChanged"}
WriteKinds == {"mint", "burn", "burnExecuted", "minterConfigured", "minterRemoved", "blacklisted", "unblacklisted"}
SeatKinds == {"memberAdded", "memberRemoved"}
TellKinds == {"masterMinter", "quorum", "maxAllowance", "burnPrepaid"}
Decisions == {"created", "status"}
EventKinds == RowKinds \cup MemberKinds \cup WriteKinds \cup TellKinds \cup Decisions
OnSeats(l) == l.contract = "validator"

\* The key of its row.
KeyOf(l) ==
    CASE l.kind = "mint" -> MintEventKey(l)
      [] l.kind \in {"burn", "burnExecuted"} -> BurnEventKey(l)
      [] l.kind \in {"minterConfigured", "minterRemoved"} -> MinterConfigEventKey(l)
      [] l.kind = "voted" -> ProposalVoteKey(l)
      [] l.kind \in MemberKinds -> MemberChangeEventKey(l)
      [] l.kind \in {"blacklisted", "unblacklisted"} -> BlacklistEventKey(l)
      [] l.kind \in {"authorized", "unauthorized"} -> AuthorizedAccountEventKey(l)
      [] l.kind = "gasTip" -> GasTipUpdateEventKey(l)
      [] l.kind = "emergency" -> EmergencyPauseEventKey(l)
      [] l.kind = "depositMint" -> DepositMintProposalKey(l)
      [] l.kind = "maxProposals" -> MaxProposalsUpdateEventKey(l)
      [] OTHER -> ProposalExecutionSkippedEventKey(l)

\* The write of an index that follows.
WriteOf(l) ==
    CASE l.kind = "mint" -> Supply(l.amount)
      [] l.kind \in {"burn", "burnExecuted"} -> Supply(-l.amount)
      [] l.kind \in {"minterConfigured", "minterRemoved"} -> Minter(l.account, AllowanceOf(l))
      [] l.kind \in {"blacklisted", "unblacklisted"} -> Blacklist(l.account, l.kind = "blacklisted")
      [] OTHER -> Validator(l.account, l.kind = "memberAdded")

\* The execution height a status event at q may write: its own, or one that a
\* later event about the same proposal has left behind.
MayClose(c, l, q, top, at) ==
    /\ at \in Nat
    /\ \/ at = ClosedAt(l)
       \/ \E y \in DecisionLogs(c, l.proposal) : y > q /\ c[y].block <= top /\ StatusOf(c[y]) \in Closing

RowWritten(l, q, rs) == KeyOf(l) \in DOMAIN rs /\ rs[KeyOf(l)] = q
StatusWritten(c, l, q, top, pr) ==
    /\ pr[l.proposal] # Absent
    /\ pr[l.proposal].status = StatusOf(l)
    /\ MayClose(c, l, q, top, pr[l.proposal].executedAt)

\* Every write of the handler was made.
Finished(c, l, q, top, rs, mi, va, bl, pr, li) ==
    /\ l.kind \in {"mint", "burn", "burnExecuted", "voted", "authorized", "unauthorized"} => RowWritten(l, q, rs)
    /\ l.kind \in {"minterConfigured", "minterRemoved"} => mi[l.account] = AllowanceOf(l)
    /\ l.kind \in {"blacklisted", "unblacklisted"} => (l.account \in bl <=> l.kind = "blacklisted")
    /\ l.kind \in MemberKinds /\ OnSeats(l) =>
          /\ l.account \in va <=> l.kind # "memberRemoved"
          /\ l.kind = "memberChanged" /\ l.old # l.account => l.old \notin va
    /\ l.kind \in Decisions => StatusWritten(c, l, q, top, pr) /\ <<l.proposal, StatusOf(l)>> \in li

\* The writes that are left, with what those before them have done.
WritesOne(l) == l.kind \in WriteKinds \/ (l.kind \in SeatKinds /\ OnSeats(l))
Swaps(l) == l.kind = "memberChanged" /\ OnSeats(l)
Put(l, at) == Proposal(l.proposal, [status |-> StatusOf(l), executedAt |-> at])

Unseat(a) == Validator(a, FALSE)
Seat(a) == Validator(a, TRUE)

LeftTell(c, l, q, s, top, rs, mi, va, bl, pr, li) ==
    l.kind \in EventKinds /\ s = <<Tell>> /\ Finished(c, l, q, top, rs, mi, va, bl, pr, li)
LeftRow(l, s) ==
    (l.kind \in RowKinds \/ (l.kind \in MemberKinds /\ ~OnSeats(l))) /\ s = <<Row(KeyOf(l)), Tell>>
LeftRowWrite(l, s) == WritesOne(l) /\ s = <<Row(KeyOf(l)), WriteOf(l), Tell>>
LeftWrite(l, q, s, rs) == WritesOne(l) /\ s = <<WriteOf(l), Tell>> /\ RowWritten(l, q, rs)
LeftRowSwap(l, s) ==
    /\ Swaps(l)
    /\ s = << Row(KeyOf(l)), Unseat(l.old), Seat(l.account),
              Row(ValidatorChangeEventKey(l)), Tell >>
LeftSwap(l, s) ==
    /\ Swaps(l)
    /\ s = <<Unseat(l.old), Seat(l.account), Row(ValidatorChangeEventKey(l)), Tell>>
LeftSeat(l, s, va) ==
    Swaps(l) /\ s = <<Seat(l.account), Row(ValidatorChangeEventKey(l)), Tell>> /\ l.old \notin va
LeftChange(l, s, va) ==
    /\ Swaps(l) /\ s = <<Row(ValidatorChangeEventKey(l)), Tell>>
    /\ l.account \in va /\ (l.old = l.account \/ l.old \notin va)
LeftCreate(l, s) == l.kind = "created" /\ s = <<Put(l, 0), List(l.proposal, StatusOf(l)), Tell>>
LeftMove(c, l, q, s, top, pr) ==
    /\ l.kind = "status" /\ pr[l.proposal] # Absent
    /\ \E at \in Nat :
          /\ MayClose(c, l, q, top, at)
          /\ s = << Unlist(l.proposal, pr[l.proposal].status), Put(l, at), List(l.proposal, StatusOf(l)), Tell >>
LeftPut(c, l, q, s, top, pr, li) ==
    /\ l.kind = "status" /\ pr[l.proposal] # Absent /\ <<l.proposal, pr[l.proposal].status>> \notin li
    /\ \E at \in Nat : MayClose(c, l, q, top, at) /\ s = <<Put(l, at), List(l.proposal, StatusOf(l)), Tell>>
LeftList(c, l, q, s, top, pr) ==
    l.kind \in Decisions /\ s = <<List(l.proposal, StatusOf(l)), Tell>> /\ StatusWritten(c, l, q, top, pr)

Handling(c, l, q, s, top, rs, mi, va, bl, pr, li) ==
    \/ LeftTell(c, l, q, s, top, rs, mi, va, bl, pr, li)
    \/ LeftRow(l, s)
    \/ LeftRowWrite(l, s)
    \/ LeftWrite(l, q, s, rs)
    \/ LeftRowSwap(l, s)
    \/ LeftSwap(l, s)
    \/ LeftSeat(l, s, va)
    \/ LeftChange(l, s, va)
    \/ LeftCreate(l, s)
    \/ LeftMove(c, l, q, s, top, pr)
    \/ LeftPut(c, l, q, s, top, pr, li)
    \/ LeftList(c, l, q, s, top, pr)

InHand == todo # <<>> =>
    Handling(logs, logs[position], position, todo, reached, rows, minters, validators, blacklist, proposals, listed)

-----------------------------------------------------------------------------
(* What the indexes say of a question.                                      *)

BlacklistSays(c, pos, bad, top, bl) ==
    \A a \in Accounts : \A m : Standing(c, BlacklistLogs(c, a), m, pos, bad, top) =>
        (a \in bl <=> c[m].kind = "blacklisted")
MintersSay(c, pos, bad, top, mi) ==
    \A a \in Accounts : \A m : Standing(c, MinterLogs(c, a), m, pos, bad, top) => mi[a] = AllowanceOf(c[m])
SeatsSay(c, pos, bad, top, va) ==
    \A a \in Accounts : \A m : Standing(c, SeatLogs(c, a), m, pos, bad, top) => (a \in va <=> Seated(c[m], a))
ProposalsSay(c, pos, bad, top, pr, li) ==
    \A p \in Proposals : \A m : Standing(c, DecisionLogs(c, p), m, pos, bad, top) =>
        /\ StatusWritten(c, c[m], m, top, pr)
        /\ <<p, StatusOf(c[m])>> \in li
VotesSay(c, pos, bad, top, rs) ==
    \A p \in Proposals, a \in Accounts : \A m : Standing(c, VoteLogs(c, p, a), m, pos, bad, top) =>
        VoteKey(p, a) \in DOMAIN rs /\ rs[VoteKey(p, a)] = m
AuthorsSay(c, pos, bad, top, rs) ==
    \A b \in 1..MaxBlock : \A m : Standing(c, AuthorLogs(c, b), m, pos, bad, top) =>
        AuthorKey(b) \in DOMAIN rs /\ rs[AuthorKey(b)] = m

Says ==
    ~torn => /\ BlacklistSays(logs, position, failed, reached, blacklist)
             /\ MintersSay(logs, position, failed, reached, minters)
             /\ SeatsSay(logs, position, failed, reached, validators)
             /\ ProposalsSay(logs, position, failed, reached, proposals, listed)
             /\ VotesSay(logs, position, failed, reached, rows)
             /\ AuthorsSay(logs, position, failed, reached, rows)

\* Before the first event about it, nothing was written.
BlacklistFresh(c, top, bl) == \A a \in Accounts : Untouched(c, BlacklistLogs(c, a), top) => a \notin bl
MintersFresh(c, top, mi) == \A a \in Accounts : Untouched(c, MinterLogs(c, a), top) => mi[a] = Absent
SeatsFresh(c, top, va) == \A a \in Accounts : Untouched(c, SeatLogs(c, a), top) => a \notin va
\* A status, and an execution height, come from an event that was begun.
ProposalsFresh(c, top, pr) ==
    \A p \in Proposals : pr[p] # Absent =>
        /\ \E y \in DecisionLogs(c, p) : c[y].block <= top /\ StatusOf(c[y]) = pr[p].status
        /\ pr[p].executedAt # 0 =>
              \E y \in DecisionLogs(c, p) : c[y].block <= top /\ StatusOf(c[y]) \in Closing
AuthorsFresh(c, top, rs) ==
    \A b \in 1..MaxBlock : AuthorKey(b) \in DOMAIN rs => rs[AuthorKey(b)] \in AuthorLogs(c, b) /\ b <= top

Fresh ==
    /\ BlacklistFresh(logs, reached, blacklist)
    /\ MintersFresh(logs, reached, minters)
    /\ SeatsFresh(logs, reached, validators)
    /\ ProposalsFresh(logs, reached, proposals)
    /\ AuthorsFresh(logs, reached, rows)

-----------------------------------------------------------------------------
(* The status index.                                                        *)

ListedHaveRows(pr, li) == \A p \in Proposals, s \in Statuses : <<p, s>> \in li => pr[p] # Absent
ListedOnce(pr, li) == \A p \in Proposals, s \in Statuses : <<p, s>> \in li => pr[p].status = s
\* An entry that is not the proposal's own is one the pass in hand has still to remove.
ListedAhead(c, pos, top, pr, li) ==
    \A p \in Proposals, s \in Statuses : <<p, s>> \in li =>
        \/ pr[p].status = s
        \/ \E y \in DecisionLogs(c, p) : y >= pos /\ c[y].block <= top /\ StatusOf(c[y]) = s
\* In the first pass a row is from a log that was handled.
RowsBehind(c, pos, td, pr) ==
    \A p \in Proposals : pr[p] # Absent =>
        \E y \in DecisionLogs(c, p) :
            y < pos \/ (y = pos /\ td # <<>> /\ Head(td).op \in {"list", "publish"})

Listing ==
    /\ ListedHaveRows(proposals, listed)
    /\ replays = 0 => ListedOnce(proposals, listed) /\ RowsBehind(logs, position, todo, proposals)
    /\ ~torn /\ faults = 0 => ListedAhead(logs, position, reached, proposals, listed)

CInv == Shape /\ Tables /\ InHand /\ Says /\ Fresh /\ Listing

-----------------------------------------------------------------------------
(* Numbers.                                                                 *)

\* A set of numbers has a smallest one.
LEMMA Smallest ==
    ASSUME NEW T \in SUBSET Nat, T # {}
    PROVE  \E m \in T : \A n \in T : m <= n
<1> DEFINE R == OpToRel(<, Nat)
<1>1. \A n, m \in Nat : n < m => <<n, m>> \in R
  BY Zenon DEF OpToRel
<1>2. IsWellFoundedOn(R, Nat)
  BY NatLessThanWellFounded, Zenon
<1> HIDE DEF R
<1>3. PICK m \in T : \A y \in T : ~(<<y, m>> \in R)
  BY <1>2, WFMin
<1>4. ASSUME NEW n \in T PROVE m <= n
  <2>1. n \in Nat /\ m \in Nat /\ ~(n < m)
    BY <1>1, <1>3
  <2> QED
    BY <2>1
<1> QED
  BY <1>4

\* A set of numbers with a bound has a largest one.
LEMMA Largest ==
    ASSUME NEW T \in SUBSET Nat, T # {}, NEW b \in Nat, \A n \in T : n <= b
    PROVE  \E m \in T : \A n \in T : n <= m
<1> DEFINE U == {u \in Nat : \A n \in T : n <= u}
<1>1. U \in SUBSET Nat /\ b \in U OBVIOUS
<1>2. PICK u \in U : \A v \in U : u <= v
  <2> HIDE DEF U
  <2> QED BY <1>1, Smallest
<1>3. u \in T
  <2> SUFFICES ASSUME u \notin T PROVE FALSE OBVIOUS
  <2>1. \A n \in T : n < u BY <1>2
  <2>2. u - 1 \in U
    <3>1. PICK n \in T : n < u BY <2>1
    <3>2. u - 1 \in Nat BY <3>1
    <3>3. \A m \in T : m <= u - 1 BY <2>1, <3>2
    <3> QED BY <3>2, <3>3
  <2> QED BY <1>2, <2>2
<1> QED BY <1>2, <1>3

LEMMA MaxIs ==
    ASSUME NEW T \in SUBSET Nat, T # {}, NEW b \in Nat, \A n \in T : n <= b
    PROVE  Max(T) \in T /\ \A n \in T : n <= Max(T)
<1>1. PICK m \in T : \A n \in T : m >= n BY Largest
<1> QED BY <1>1 DEF Max

LEMMA MaxOfTwo ==
    ASSUME NEW a \in Nat, NEW b \in Nat
    PROVE  Max({a, b}) \in Nat /\ a <= Max({a, b}) /\ b <= Max({a, b})
<1> DEFINE T == {a, b}
<1>1. T \in SUBSET Nat /\ T # {} /\ a + b \in Nat /\ \A n \in T : n <= a + b OBVIOUS
<1>2. Max(T) \in T /\ \A n \in T : n <= Max(T)
  <2> HIDE DEF T
  <2> QED BY <1>1, MaxIs
<1> QED BY <1>1, <1>2

-----------------------------------------------------------------------------
(* Chains.                                                                  *)

\* A log of a chain, and two in their order.
LEMMA ChainFacts ==
    ASSUME NEW c \in Chains
    PROVE  /\ Len(c) \in Nat
           /\ \A q \in Places(c) : q \in Nat /\ 1 <= q /\ c[q].block \in Nat /\ 1 <= c[q].block /\ c[q].block <= MaxBlock
                                   /\ c[q].block \in 1..MaxBlock
           /\ \A q, j \in Places(c) : q < j => c[q].block <= c[j].block
BY ChainsAssumption DEF Places, IsLog

LEMMA Named ==
    ASSUME NEW c \in Chains, NEW q \in Places(c)
    PROVE  IsLog(c[q])
BY ChainsAssumption DEF Places

\* A proposal is created by its first log, and closed by its last.
LEMMA DecisionOrder ==
    ASSUME NEW c \in Chains, NEW p, NEW q \in DecisionLogs(c, p), NEW j \in DecisionLogs(c, p), q < j
    PROVE  c[j].kind = "status" /\ StatusOf(c[q]) \notin Closing
<1>1. /\ q \in 1..Len(c) /\ j \in 1..Len(c)
      /\ {c[q].kind, c[j].kind} \subseteq {"created", "status"}
      /\ c[q].proposal = c[j].proposal
  BY DEF DecisionLogs, Places
<1>2. c[j].kind = "status" /\ (c[q].kind = "status" => c[q].status \notin {"executed", "failed"})
  BY <1>1, ChainsAssumption
<1>3. c[q].kind = "created" => StatusOf(c[q]) = "voting" BY DEF StatusOf, Voting
<1>4. c[q].kind = "status" => StatusOf(c[q]) = c[q].status BY DEF StatusOf
<1> QED BY <1>1, <1>2, <1>3, <1>4 DEF Closing

LEMMA StatusFacts ==
    ASSUME NEW c \in Chains, NEW q \in Places(c), c[q].kind \in Decisions
    PROVE  /\ c[q].proposal \in Proposals /\ StatusOf(c[q]) \in Statuses
           /\ ClosedAt(c[q]) \in Nat
           /\ c[q].kind = "created" => StatusOf(c[q]) = Voting /\ ClosedAt(c[q]) = 0
           /\ c[q].kind = "status" => StatusOf(c[q]) = c[q].status
<1>1. IsLog(c[q]) /\ c[q].block \in Nat BY Named, ChainFacts
<1>2. c[q].proposal \in Proposals BY <1>1 DEF IsLog, Decisions
<1>3. StatusOf(c[q]) \in Statuses BY <1>1 DEF IsLog, Decisions, StatusOf, Statuses
<1>4. c[q].kind = "created" => StatusOf(c[q]) = Voting BY DEF StatusOf
<1>5. c[q].kind = "status" => StatusOf(c[q]) = c[q].status BY DEF StatusOf
<1>6. ClosedAt(c[q]) \in Nat BY <1>1 DEF ClosedAt
<1>7. Voting \notin Closing BY DEF Voting, Closing
<1> QED BY <1>2, <1>3, <1>4, <1>5, <1>6, <1>7 DEF ClosedAt

\* FirstAfter(b) is the position behind the logs of the blocks up to b.
LEMMA FirstAfterIs ==
    ASSUME logs \in Chains, NEW b \in Int
    PROVE  /\ FirstAfter(b) \in 1..(Len(logs) + 1)
           /\ \A q \in Places(logs) : q < FirstAfter(b) <=> logs[q].block <= b
<1> DEFINE T == {q \in Positions : logs[q].block <= b}
<1>1. Len(logs) \in Nat /\ Positions = Places(logs) BY ChainFacts DEF Positions, Places
<1>2. \A q \in Places(logs) : q \in Nat /\ 1 <= q /\ q <= Len(logs) /\ logs[q].block \in Nat BY <1>1, ChainFacts DEF Places
<1>3. CASE T = {}
  <2>1. FirstAfter(b) = 1 BY <1>3, FS_EmptySet DEF FirstAfter
  <2> QED BY <1>1, <1>2, <1>3, <2>1
<1>4. CASE T # {}
  <2>1. T \in SUBSET Nat /\ \A n \in T : n <= Len(logs) BY <1>1, <1>2
  <2>2. PICK m \in T : \A n \in T : n <= m
    <3> HIDE DEF T
    <3> QED BY <1>1, <1>4, <2>1, Largest
  <2>3. m \in Nat /\ 1 <= m /\ m <= Len(logs) /\ m \in Places(logs) /\ logs[m].block <= b BY <1>1, <1>2, <2>2
  <2>4. ASSUME NEW q \in 1..m PROVE q \in T
    <3>1. q \in Places(logs) BY <1>1, <2>3 DEF Places
    <3>2. q = m \/ logs[q].block <= logs[m].block BY <2>3, <3>1, ChainFacts
    <3> QED BY <1>1, <1>2, <2>3, <3>1, <3>2
  <2>5. T = 1..m
    <3>1. ASSUME NEW n \in T PROVE n \in 1..m
      <4>1. n \in Places(logs) /\ n <= m BY <1>1, <2>2
      <4>2. n \in Nat /\ 1 <= n BY <1>2, <4>1
      <4>3. m \in Nat BY <2>3
      <4> HIDE DEF T
      <4> QED BY <4>1, <4>2, <4>3
    <3> HIDE DEF T
    <3> QED BY <2>4, <3>1
  <2>6. Cardinality(1..m) = m
    <3>1. m \in Int /\ 1 \in Int /\ 1 <= m BY <2>3
    <3>2. Cardinality(1..m) = IF 1 > m THEN 0 ELSE m - 1 + 1 BY ONLY <3>1, FS_Interval
    <3> QED BY ONLY <3>1, <3>2
  <2>7. FirstAfter(b) = m + 1 BY <2>5, <2>6 DEF FirstAfter
  <2>8. \A q \in Places(logs) : q \in T <=> logs[q].block <= b BY <1>1
  <2>9. \A q \in Places(logs) : q < m + 1 <=> q \in T BY <1>2, <2>3, <2>5
  <2> QED BY <1>1, <2>3, <2>7, <2>8, <2>9
<1> QED BY <1>3, <1>4

-----------------------------------------------------------------------------
(* Short sequences.                                                         *)

LEMMA Joined0 == ASSUME NEW a PROVE <<a>> \o <<>> = <<a>>
<1>1. <<a>> \in Seq({a}) OBVIOUS
<1> QED BY <1>1, ConcatEmptySeq

LEMMA Joined11 == ASSUME NEW a, NEW b PROVE <<a>> \o <<b>> = <<a, b>>
<1> DEFINE S == {a, b}
           s == <<a>> \o <<b>>
           t == <<a, b>>
<1>1. <<a>> \in Seq(S) /\ <<b>> \in Seq(S) /\ Len(<<a>>) = 1 /\ Len(<<b>>) = 1 OBVIOUS
<1>2. s \in Seq(S) /\ Len(s) = 2 /\ s[1] = a /\ s[2] = b
  BY <1>1, ConcatProperties
<1>3. t \in Seq(S) /\ Len(t) = 2 /\ t[1] = a /\ t[2] = b
  OBVIOUS
<1> HIDE DEF s, t, S
<1>4. \A q \in 1..Len(s) : s[q] = t[q] BY <1>2, <1>3
<1>5. s = t BY <1>2, <1>3, <1>4, SeqEqual
<1> QED BY <1>5 DEF s, t

LEMMA Joined21 == ASSUME NEW a, NEW b, NEW c PROVE <<a, b>> \o <<c>> = <<a, b, c>>
<1> DEFINE S == {a, b, c}
           s == <<a, b>> \o <<c>>
           t == <<a, b, c>>
<1>1. <<a, b>> \in Seq(S) /\ <<c>> \in Seq(S) /\ Len(<<a, b>>) = 2 /\ Len(<<c>>) = 1 OBVIOUS
<1>2. s \in Seq(S) /\ Len(s) = 3 /\ s[1] = a /\ s[2] = b /\ s[3] = c
  BY <1>1, ConcatProperties
<1>3. t \in Seq(S) /\ Len(t) = 3 /\ t[1] = a /\ t[2] = b /\ t[3] = c
  OBVIOUS
<1> HIDE DEF s, t, S
<1>4. \A q \in 1..Len(s) : s[q] = t[q] BY <1>2, <1>3
<1>5. s = t BY <1>2, <1>3, <1>4, SeqEqual
<1> QED BY <1>5 DEF s, t

LEMMA Joined31 == ASSUME NEW a, NEW b, NEW c, NEW d PROVE <<a, b, c>> \o <<d>> = <<a, b, c, d>>
<1> DEFINE S == {a, b, c, d}
           s == <<a, b, c>> \o <<d>>
           t == <<a, b, c, d>>
<1>1. <<a, b, c>> \in Seq(S) /\ <<d>> \in Seq(S) /\ Len(<<a, b, c>>) = 3 /\ Len(<<d>>) = 1 OBVIOUS
<1>2. s \in Seq(S) /\ Len(s) = 4 /\ s[1] = a /\ s[2] = b /\ s[3] = c /\ s[4] = d
  BY <1>1, ConcatProperties
<1>3. t \in Seq(S) /\ Len(t) = 4 /\ t[1] = a /\ t[2] = b /\ t[3] = c /\ t[4] = d
  OBVIOUS
<1> HIDE DEF s, t, S
<1>4. \A q \in 1..Len(s) : s[q] = t[q] BY <1>2, <1>3
<1>5. s = t BY <1>2, <1>3, <1>4, SeqEqual
<1> QED BY <1>5 DEF s, t

LEMMA Joined13 == ASSUME NEW a, NEW b, NEW c, NEW d PROVE <<a>> \o <<b, c, d>> = <<a, b, c, d>>
<1> DEFINE S == {a, b, c, d}
           s == <<a>> \o <<b, c, d>>
           t == <<a, b, c, d>>
<1>1. <<a>> \in Seq(S) /\ <<b, c, d>> \in Seq(S) /\ Len(<<a>>) = 1 /\ Len(<<b, c, d>>) = 3 OBVIOUS
<1>2. s \in Seq(S) /\ Len(s) = 4 /\ s[1] = a /\ s[2] = b /\ s[3] = c /\ s[4] = d
  BY <1>1, ConcatProperties
<1>3. t \in Seq(S) /\ Len(t) = 4 /\ t[1] = a /\ t[2] = b /\ t[3] = c /\ t[4] = d
  OBVIOUS
<1> HIDE DEF s, t, S
<1>4. \A q \in 1..Len(s) : s[q] = t[q] BY <1>2, <1>3
<1>5. s = t BY <1>2, <1>3, <1>4, SeqEqual
<1> QED BY <1>5 DEF s, t

LEMMA Joined41 == ASSUME NEW a, NEW b, NEW c, NEW d, NEW e PROVE <<a, b, c, d>> \o <<e>> = <<a, b, c, d, e>>
<1> DEFINE S == {a, b, c, d, e}
           s == <<a, b, c, d>> \o <<e>>
           t == <<a, b, c, d, e>>
<1>1. <<a, b, c, d>> \in Seq(S) /\ <<e>> \in Seq(S) /\ Len(<<a, b, c, d>>) = 4 /\ Len(<<e>>) = 1 OBVIOUS
<1>2. s \in Seq(S) /\ Len(s) = 5 /\ s[1] = a /\ s[2] = b /\ s[3] = c /\ s[4] = d /\ s[5] = e
  BY <1>1, ConcatProperties
<1>3. t \in Seq(S) /\ Len(t) = 5 /\ t[1] = a /\ t[2] = b /\ t[3] = c /\ t[4] = d /\ t[5] = e
  OBVIOUS
<1> HIDE DEF s, t, S
<1>4. \A q \in 1..Len(s) : s[q] = t[q] BY <1>2, <1>3
<1>5. s = t BY <1>2, <1>3, <1>4, SeqEqual
<1> QED BY <1>5 DEF s, t

-----------------------------------------------------------------------------
(* The steps.                                                               *)

LEMMA WriteFields ==
    /\ \A k : Row(k).op = "row" /\ Row(k).key = k
    /\ \A d : Supply(d).op = "supply" /\ Supply(d).delta = d
    /\ \A a, v : Minter(a, v).op = "minter" /\ Minter(a, v).account = a /\ Minter(a, v).allowance = v
    /\ \A a, on : Validator(a, on).op = "validator" /\ Validator(a, on).account = a /\ Validator(a, on).on = on
    /\ \A a : Seat(a).op = "validator" /\ Seat(a).account = a /\ Seat(a).on = TRUE
    /\ \A a : Unseat(a).op = "validator" /\ Unseat(a).account = a /\ Unseat(a).on = FALSE
    /\ \A a, on : Blacklist(a, on).op = "blacklist" /\ Blacklist(a, on).account = a /\ Blacklist(a, on).on = on
    /\ \A p, v : Proposal(p, v).op = "proposal" /\ Proposal(p, v).proposal = p /\ Proposal(p, v).value = v
    /\ \A p, s : Unlist(p, s).op = "unlist" /\ Unlist(p, s).entry = <<p, s>>
    /\ \A p, s : List(p, s).op = "list" /\ List(p, s).entry = <<p, s>>
    /\ Tell.op = "publish"
BY DEF Row, Supply, Minter, Validator, Seat, Unseat, Blacklist, Proposal, Unlist, List, Tell

LEMMA WriteOfOp ==
    ASSUME NEW l, l.kind \in WriteKinds \/ (l.kind \in SeatKinds /\ OnSeats(l))
    PROVE  /\ WriteOf(l).op \in {"supply", "minter", "blacklist", "validator"}
           /\ WriteOf(l).op = "supply" <=> l.kind \in {"mint", "burn", "burnExecuted"}
           /\ WriteOf(l).op = "minter" <=> l.kind \in {"minterConfigured", "minterRemoved"}
           /\ WriteOf(l).op = "blacklist" <=> l.kind \in {"blacklisted", "unblacklisted"}
           /\ WriteOf(l).op = "validator" <=> l.kind \in {"memberAdded", "memberRemoved"}
<1>1. CASE l.kind = "mint" BY <1>1, WriteFields DEF WriteOf
<1>2. CASE l.kind \in {"burn", "burnExecuted"} BY <1>2, WriteFields DEF WriteOf
<1>3. CASE l.kind \in {"minterConfigured", "minterRemoved"} BY <1>3, WriteFields DEF WriteOf
<1>4. CASE l.kind \in {"blacklisted", "unblacklisted"} BY <1>4, WriteFields DEF WriteOf
<1>5. CASE l.kind \in {"memberAdded", "memberRemoved"} BY <1>5, WriteFields DEF WriteOf
<1> QED BY <1>1, <1>2, <1>3, <1>4, <1>5 DEF WriteKinds, SeatKinds

\* The next write tells which are left.
LEMMA HeadTells ==
    ASSUME NEW c, NEW l, NEW q, NEW s, NEW top, NEW rs, NEW mi, NEW va, NEW bl, NEW pr, NEW li,
           Handling(c, l, q, s, top, rs, mi, va, bl, pr, li)
    PROVE  /\ Head(s).op = "publish" => LeftTell(c, l, q, s, top, rs, mi, va, bl, pr, li)
           /\ Head(s).op = "row" => LeftRow(l, s) \/ LeftRowWrite(l, s) \/ LeftRowSwap(l, s) \/ LeftChange(l, s, va)
           /\ Head(s).op \in {"supply", "minter", "blacklist"} => LeftWrite(l, q, s, rs)
           /\ Head(s).op = "validator" => LeftWrite(l, q, s, rs) \/ LeftSwap(l, s) \/ LeftSeat(l, s, va)
           /\ Head(s).op = "proposal" => LeftCreate(l, s) \/ LeftPut(c, l, q, s, top, pr, li)
           /\ Head(s).op = "unlist" => LeftMove(c, l, q, s, top, pr)
           /\ Head(s).op = "list" => LeftList(c, l, q, s, top, pr)
<1>1. CASE LeftTell(c, l, q, s, top, rs, mi, va, bl, pr, li)
  <2>1. Head(s).op = "publish" BY <1>1, WriteFields DEF LeftTell
  <2> QED BY <1>1, <2>1
<1>2. CASE LeftRow(l, s) \/ LeftRowWrite(l, s) \/ LeftRowSwap(l, s) \/ LeftChange(l, s, va)
  <2>1. LeftRow(l, s) \/ LeftRowWrite(l, s) \/ LeftRowSwap(l, s) => Head(s) = Row(KeyOf(l))
    BY DEF LeftRow, LeftRowWrite, LeftRowSwap
  <2>2. LeftChange(l, s, va) => Head(s) = Row(ValidatorChangeEventKey(l)) BY DEF LeftChange
  <2>3. Head(s).op = "row" BY <1>2, <2>1, <2>2, WriteFields
  <2> QED BY <1>2, <2>3
<1>3. CASE LeftWrite(l, q, s, rs)
  <2>1. Head(s).op \in {"supply", "minter", "blacklist", "validator"} BY <1>3, WriteOfOp DEF LeftWrite, WritesOne
  <2> QED BY <1>3, <2>1
<1>4. CASE LeftSwap(l, s) \/ LeftSeat(l, s, va)
  <2>1. LeftSwap(l, s) => Head(s) = Unseat(l.old) BY DEF LeftSwap
  <2>2. LeftSeat(l, s, va) => Head(s) = Seat(l.account) BY DEF LeftSeat
  <2>3. Head(s).op = "validator" BY <1>4, <2>1, <2>2, WriteFields
  <2> QED BY <1>4, <2>3
<1>5. CASE LeftCreate(l, s) \/ LeftPut(c, l, q, s, top, pr, li)
  <2>1. LeftCreate(l, s) => Head(s) = Put(l, 0) BY DEF LeftCreate
  <2>2. LeftPut(c, l, q, s, top, pr, li) => \E at : Head(s) = Put(l, at) BY DEF LeftPut
  <2>3. \A at : Put(l, at).op = "proposal" BY WriteFields DEF Put
  <2>4. Head(s).op = "proposal" BY <1>5, <2>1, <2>2, <2>3
  <2> QED BY <1>5, <2>4
<1>6. CASE LeftMove(c, l, q, s, top, pr)
  <2>1. \E r : Head(s) = Unlist(l.proposal, r) BY <1>6 DEF LeftMove
  <2>2. Head(s).op = "unlist" BY <2>1, WriteFields
  <2> QED BY <1>6, <2>2
<1>7. CASE LeftList(c, l, q, s, top, pr)
  <2>1. Head(s).op = "list" BY <1>7, WriteFields DEF LeftList
  <2> QED BY <1>7, <2>1
<1> QED BY <1>1, <1>2, <1>3, <1>4, <1>5, <1>6, <1>7 DEF Handling

\* The event bus is told last.
LEMMA TellIsLast ==
    ASSUME InHand, todo # <<>>, Head(todo).op = "publish"
    PROVE  /\ todo = <<Tell>> /\ Tail(todo) = <<>> /\ logs[position].kind \in EventKinds
           /\ Finished(logs, logs[position], position, reached, rows, minters, validators, blacklist, proposals, listed)
<1>1. LeftTell(logs, logs[position], position, todo, reached, rows, minters, validators, blacklist, proposals, listed)
  BY HeadTells DEF InHand
<1>2. Tail(<<Tell>>) = <<>> OBVIOUS
<1> QED BY <1>1, <1>2 DEF LeftTell

HandlerWrites == \/ StoreEvent \/ UpdateTotalSupply \/ UpdateActiveMinter
         \/ UpdateActiveValidator \/ UpdateBlacklistStatus
         \/ SetProposalRow \/ DeleteStatusIndex \/ SetStatusIndex

LEMMA WriteFrame ==
    ASSUME HandlerWrites
    PROVE  /\ todo # <<>> /\ todo' = Tail(todo)
           /\ UNCHANGED <<logs, first, current, recorded, replays, faults, reached, torn, position, failed, told>>
BY DEF HandlerWrites, StoreEvent, UpdateTotalSupply, UpdateActiveMinter, UpdateActiveValidator, UpdateBlacklistStatus,
       SetProposalRow, DeleteStatusIndex, SetStatusIndex, Doing, Quiet, run, history

LEMMA KeyOfMember == ASSUME NEW l, l.kind \in MemberKinds PROVE KeyOf(l) = MemberChangeEventKey(l)
BY DEF KeyOf, MemberKinds

\* The handler of a log, as it begins.
LEMMA HandlerBegins ==
    ASSUME Shape, Tables, Fresh, AtLog, ~RejectsLog(logs[position]), NEW top \in Nat, reached <= top, current <= top
    PROVE  \/ parseAndIndexLog(logs[position]) = <<>> /\ logs[position].kind \notin EventKinds
           \/ Handling(logs, logs[position], position, parseAndIndexLog(logs[position]), top,
                       rows, minters, validators, blacklist, proposals, listed)
<1> DEFINE l == logs[position]
           w == parseAndIndexLog(l)
<1>0. /\ position \in Places(logs) /\ l.block = current /\ logs \in Chains
  BY SMTT(30) DEF AtLog, LogsOf, Positions, Places, Shape
<1>1. ASSUME l.kind \in RowKinds PROVE w = <<Row(KeyOf(l)), Tell>>
  BY <1>1 DEF RowKinds, parseAndIndexLog, KeyOf, parseProposalVotedEvent, parseAuthorizedAccountEvent,
        parseGasTipUpdatedEvent, parseEmergencyEvent, parseDepositMintProposedEvent,
        parseMaxProposalsPerMemberUpdatedEvent, parseProposalExecutionSkippedEvent, MemberKinds
<1>2. ASSUME l.kind \in WriteKinds PROVE w = <<Row(KeyOf(l)), WriteOf(l), Tell>>
  <2>1. CASE l.kind = "mint" BY <2>1 DEF parseAndIndexLog, MemberKinds, KeyOf, WriteOf, parseMintEvent
  <2>2. CASE l.kind = "burn" BY <2>2 DEF parseAndIndexLog, MemberKinds, KeyOf, WriteOf, parseBurnEvent
  <2>3. CASE l.kind = "burnExecuted" BY <2>3 DEF parseAndIndexLog, MemberKinds, KeyOf, WriteOf, parseBurnExecutedEvent
  <2>4. CASE l.kind = "minterConfigured"
    BY <2>4 DEF parseAndIndexLog, MemberKinds, KeyOf, WriteOf, parseMinterConfiguredEvent, AllowanceOf
  <2>5. CASE l.kind = "minterRemoved"
    BY <2>5 DEF parseAndIndexLog, MemberKinds, KeyOf, WriteOf, parseMinterRemovedEvent, AllowanceOf
  <2>6. CASE l.kind = "blacklisted"
    <3>1. WriteOf(l) = Blacklist(l.account, TRUE) BY <2>6 DEF WriteOf, Blacklist
    <3>2. KeyOf(l) = BlacklistEventKey(l) BY <2>6 DEF KeyOf, MemberKinds
    <3>3. w = parseAddressBlacklistedEvent(l) BY <2>6 DEF parseAndIndexLog
    <3> QED BY <3>1, <3>2, <3>3 DEF parseAddressBlacklistedEvent
  <2>7. CASE l.kind = "unblacklisted"
    <3>1. WriteOf(l) = Blacklist(l.account, FALSE) BY <2>7 DEF WriteOf, Blacklist
    <3>2. KeyOf(l) = BlacklistEventKey(l) BY <2>7 DEF KeyOf, MemberKinds
    <3>3. w = parseAddressUnblacklistedEvent(l) BY <2>7 DEF parseAndIndexLog
    <3> QED BY <3>1, <3>2, <3>3 DEF parseAddressUnblacklistedEvent
  <2> QED BY <1>2, <2>1, <2>2, <2>3, <2>4, <2>5, <2>6, <2>7 DEF WriteKinds
<1>3. ASSUME l.kind \in MemberKinds, ~OnSeats(l) PROVE w = <<Row(KeyOf(l)), Tell>>
  <2>1. KeyOf(l) = MemberChangeEventKey(l) BY <1>3, KeyOfMember
  <2>2. w = <<Row(KeyOf(l))>> \o <<>> \o <<Tell>>
    BY <1>3, <2>1 DEF MemberKinds, OnSeats, parseAndIndexLog, parseMemberAddedEvent, parseMemberRemovedEvent, parseMemberChangedEvent
  <2> QED BY <2>2, Joined0, Joined11
<1>4. ASSUME l.kind \in SeatKinds, OnSeats(l) PROVE w = <<Row(KeyOf(l)), WriteOf(l), Tell>>
  <2>1. KeyOf(l) = MemberChangeEventKey(l) BY <1>4 DEF KeyOf, MemberKinds, SeatKinds
  <2>2. w = <<Row(KeyOf(l))>> \o <<WriteOf(l)>> \o <<Tell>>
    <3>1. CASE l.kind = "memberAdded"
      <4>1. WriteOf(l) = Validator(l.account, TRUE) BY <3>1 DEF WriteOf, Validator
      <4>2. w = parseMemberAddedEvent(l) BY <3>1 DEF parseAndIndexLog
      <4> QED BY <1>4, <2>1, <4>1, <4>2 DEF OnSeats, parseMemberAddedEvent
    <3>2. CASE l.kind = "memberRemoved"
      <4>1. WriteOf(l) = Validator(l.account, FALSE) BY <3>2 DEF WriteOf, Validator
      <4>2. w = parseMemberRemovedEvent(l) BY <3>2 DEF parseAndIndexLog
      <4> QED BY <1>4, <2>1, <4>1, <4>2 DEF OnSeats, parseMemberRemovedEvent
    <3> QED BY <1>4, <3>1, <3>2 DEF SeatKinds
  <2> HIDE DEF w, l
  <2>3. <<Row(KeyOf(l))>> \o <<WriteOf(l)>> = <<Row(KeyOf(l)), WriteOf(l)>> BY ONLY Joined11
  <2>4. <<Row(KeyOf(l)), WriteOf(l)>> \o <<Tell>> = <<Row(KeyOf(l)), WriteOf(l), Tell>> BY ONLY Joined21
  <2> QED BY <2>2, <2>3, <2>4
<1>5. ASSUME Swaps(l) PROVE LeftRowSwap(l, w)
  <2>1. KeyOf(l) = MemberChangeEventKey(l) BY <1>5 DEF KeyOf, MemberKinds, Swaps
  <2>2. w = parseMemberChangedEvent(l) BY <1>5 DEF parseAndIndexLog, Swaps
  <2>3. w = <<Row(KeyOf(l))>> \o <<Unseat(l.old), Seat(l.account), Row(ValidatorChangeEventKey(l))>> \o <<Tell>>
    BY <1>5, <2>1, <2>2 DEF Swaps, OnSeats, parseMemberChangedEvent, Seat, Unseat
  <2> HIDE DEF w, l
  <2> DEFINE r == Row(KeyOf(l)) u == Unseat(l.old) t == Seat(l.account) v == Row(ValidatorChangeEventKey(l))
  <2> HIDE DEF r, u, t, v
  <2>4. <<r>> \o <<u, t, v>> = <<r, u, t, v>> BY ONLY Joined13
  <2>5. <<r, u, t, v>> \o <<Tell>> = <<r, u, t, v, Tell>> BY ONLY Joined41
  <2>6. w = <<r, u, t, v, Tell>> BY <2>3, <2>4, <2>5 DEF r, u, t, v
  <2> QED BY <1>5, <2>6 DEF LeftRowSwap, r, u, t, v
<1>6. ASSUME l.kind \in TellKinds PROVE w = <<Tell>>
  BY <1>6 DEF TellKinds, parseAndIndexLog, parseMasterMinterChangedEvent, parseQuorumUpdatedEvent,
        parseMaxMinterAllowanceUpdatedEvent, parseBurnPrepaidEvent
<1>7. ASSUME l.kind = "created" PROVE LeftCreate(l, w)
  <2>1. w = StoreProposal(l.proposal) \o <<Tell>> BY <1>7 DEF parseAndIndexLog, parseProposalCreatedEvent
  <2>2. StoreProposal(l.proposal) = <<Put(l, 0), List(l.proposal, StatusOf(l))>>
    BY <1>7 DEF StoreProposal, Put, StatusOf
  <2> QED BY <1>7, <2>1, <2>2, Joined21 DEF LeftCreate
<1>8. ASSUME l.kind = "status" PROVE LeftMove(logs, l, position, w, top, proposals)
  <2> DEFINE p == l.proposal
             own == IF l.status \in {"executed", "failed"} THEN l.block ELSE 0
             at == IF own > 0 THEN own ELSE proposals[p].executedAt
  <2>1. proposals[p] # Absent /\ p \in Proposals /\ StatusOf(l) = l.status
    BY <1>0, <1>8, StatusFacts DEF RejectsLog, Decisions
  <2>2. w = UpdateProposalStatus(p, l.status, own) \o <<Tell>> BY <1>8 DEF parseAndIndexLog, parseProposalStatusEvent
  <2>3. UpdateProposalStatus(p, l.status, own) = <<Unlist(p, proposals[p].status), Put(l, at), List(p, StatusOf(l))>>
    BY <2>1 DEF UpdateProposalStatus, Put
  <2>4. w = <<Unlist(p, proposals[p].status), Put(l, at), List(p, StatusOf(l)), Tell>> BY <2>2, <2>3, Joined31
  <2>5. own = ClosedAt(l) /\ l.block \in Nat /\ l.block >= 1
    BY <1>0, <2>1, ChainFacts DEF ClosedAt, Closing
  <2>6. proposals[p].executedAt \in Nat BY <2>1 DEF Tables
  <2>7. MayClose(logs, l, position, top, at)
    <3>1. CASE l.status \in {"executed", "failed"}
      <4>1. at = ClosedAt(l) /\ at \in Nat BY <2>5, <3>1
      <4> QED BY <4>1 DEF MayClose
    <3>2. CASE l.status \notin {"executed", "failed"}
      <4>1. ClosedAt(l) = 0 /\ at = proposals[p].executedAt BY <2>5, <3>2
      <4>2. CASE at = 0 BY <4>1, <4>2 DEF MayClose
      <4>3. CASE at # 0
        <5>1. PICK y \in DecisionLogs(logs, p) : logs[y].block <= reached /\ StatusOf(logs[y]) \in Closing
          BY <2>1, <4>1, <4>3 DEF Fresh, ProposalsFresh
        <5>2. position \in DecisionLogs(logs, p) BY <1>0, <1>8 DEF DecisionLogs
        <5>3. y # position BY <2>1, <3>2, <5>1 DEF Closing
        <5>4. ~(y < position) BY <1>0, <5>1, <5>2, DecisionOrder
        <5>5. y \in Nat /\ position \in Nat BY <1>0, ChainFacts DEF DecisionLogs
        <5>6. y > position BY <5>3, <5>4, <5>5
        <5>7. logs[y].block <= top
          <6>1. logs[y].block \in Nat /\ reached \in Nat BY <1>0, ChainFacts DEF DecisionLogs, Shape
          <6> QED BY <5>1, <6>1
        <5>8. at \in Nat BY <4>1, <2>6
        <5> HIDE DEF at
        <5> QED BY <5>1, <5>6, <5>7, <5>8 DEF MayClose
      <4> QED BY <4>2, <4>3
    <3> QED BY <3>1, <3>2
  <2>8. at \in Nat BY <2>5, <2>6
  <2> HIDE DEF at
  <2> QED BY <1>8, <2>1, <2>4, <2>7, <2>8 DEF LeftMove
<1>9. ASSUME l.kind \notin EventKinds PROVE w = <<>>
  BY <1>9 DEF parseAndIndexLog, EventKinds, RowKinds, WriteKinds, MemberKinds, TellKinds, Decisions
<1>10. l.kind \in TellKinds => Finished(logs, l, position, top, rows, minters, validators, blacklist, proposals, listed)
  BY DEF Finished, TellKinds, MemberKinds, Decisions
<1> HIDE DEF w, l
<1>11. CASE l.kind \in RowKinds BY <1>1, <1>11 DEF Handling, LeftRow, w, l
<1>12. CASE l.kind \in WriteKinds BY <1>2, <1>12 DEF Handling, LeftRowWrite, WritesOne, w, l
<1>13. CASE l.kind \in MemberKinds
  <2>1. CASE ~OnSeats(l) BY <1>3, <1>13, <2>1 DEF Handling, LeftRow, w, l
  <2>2. CASE OnSeats(l) /\ l.kind \in SeatKinds BY <1>4, <2>2 DEF Handling, LeftRowWrite, WritesOne, w, l
  <2>3. CASE OnSeats(l) /\ l.kind = "memberChanged" BY <1>5, <2>3 DEF Handling, Swaps, w, l
  <2> QED BY <1>13, <2>1, <2>2, <2>3 DEF MemberKinds, SeatKinds
<1>14. CASE l.kind \in TellKinds BY <1>6, <1>10, <1>14 DEF Handling, LeftTell, EventKinds, w, l
<1>15. CASE l.kind = "created" BY <1>7, <1>15 DEF Handling, w, l
<1>16. CASE l.kind = "status" BY <1>8, <1>16 DEF Handling, w, l
<1>17. CASE l.kind \notin EventKinds BY <1>9, <1>17 DEF w, l
<1> QED BY <1>11, <1>12, <1>13, <1>14, <1>15, <1>16, <1>17 DEF EventKinds, Decisions

LEMMA RowIsNotAbsent ==
    ASSUME NEW s \in Statuses, NEW at \in Nat
    PROVE  [status |-> s, executedAt |-> at] # Absent
BY ChainsAssumption

LEMMA ContractsInitInv == ContractsInit => CInv
<1> SUFFICES ASSUME ContractsInit PROVE CInv OBVIOUS
<1>0. logs \in Chains BY DEF ContractsInit
<1>1. Shape
  <2>1. AtBlock(logs, 1, 1)
    <3>1. Len(logs) \in Nat BY <1>0, ChainFacts
    <3>2. \A q \in Places(logs) : logs[q].block \in Nat /\ 1 <= logs[q].block /\ 1 <= q /\ q \in Nat BY <1>0, ChainFacts
    <3> QED BY <3>1, <3>2 DEF AtBlock
  <2>2. torn \in BOOLEAN BY Zenon DEF ContractsInit
  <2> QED BY <2>1, <2>2 DEF ContractsInit, Shape
<1>2. Tables BY DEF ContractsInit, Tables
<1>3. InHand BY DEF ContractsInit, InHand
<1>4. ASSUME NEW S, NEW m, Standing(logs, S, m, position, failed, reached), S \subseteq Places(logs) PROVE FALSE
  <2>1. m \in Places(logs) /\ m < 1 BY <1>4 DEF Standing, ContractsInit
  <2>2. m \in Nat /\ 1 <= m BY <1>0, <2>1, ChainFacts
  <2> QED BY <2>1, <2>2
<1>5. /\ \A a : BlacklistLogs(logs, a) \subseteq Places(logs)
      /\ \A a : MinterLogs(logs, a) \subseteq Places(logs)
      /\ \A a : SeatLogs(logs, a) \subseteq Places(logs)
      /\ \A p : DecisionLogs(logs, p) \subseteq Places(logs)
      /\ \A p, a : VoteLogs(logs, p, a) \subseteq Places(logs)
      /\ \A b : AuthorLogs(logs, b) \subseteq Places(logs)
  BY DEF BlacklistLogs, MinterLogs, SeatLogs, DecisionLogs, VoteLogs, AuthorLogs
<1>6. Says BY <1>4, <1>5 DEF Says, BlacklistSays, MintersSay, SeatsSay, ProposalsSay, VotesSay, AuthorsSay
<1>7. Fresh BY DEF ContractsInit, Fresh, BlacklistFresh, MintersFresh, SeatsFresh, ProposalsFresh, AuthorsFresh
<1>8. Listing BY DEF ContractsInit, Listing, ListedHaveRows, ListedOnce, ListedAhead, RowsBehind
<1> QED BY <1>1, <1>2, <1>3, <1>6, <1>7, <1>8 DEF CInv

\* Where the run stands after each kind of step.
LEMMA ShapeStep == ASSUME CInv, ContractsNext PROVE Shape'
<1> USE DEF CInv
<1>0. /\ logs \in Chains /\ Len(logs) \in Nat /\ AtBlock(logs, current, position)
      /\ first \in Nat /\ current \in Nat /\ recorded \in Nat /\ reached \in Nat /\ position \in Nat
      /\ 1 <= first /\ first <= current /\ current <= recorded + 1
      /\ \A q \in Places(logs) : q \in Nat /\ 1 <= q /\ q <= Len(logs) /\ logs[q].block \in Nat
  BY ChainFacts DEF Shape, AtBlock, Places
<1>1. ASSUME position \in Places(logs), logs[position].block = current PROVE AtBlock(logs, current, position + 1)
  <2>1. position + 1 \in 1..(Len(logs) + 1) BY <1>0, <1>1
  <2>2. ASSUME NEW q \in Places(logs)
        PROVE  (logs[q].block < current => q < position + 1) /\ (q < position + 1 => logs[q].block <= current)
    <3>1. (logs[q].block < current => q < position) /\ (q < position => logs[q].block <= current)
      BY <1>0 DEF AtBlock
    <3>2. q \in Nat /\ position \in Nat /\ (q < position + 1 <=> q < position \/ q = position) BY <1>0
    <3>3. CASE q = position BY <1>0, <1>1, <3>2, <3>3
    <3>4. CASE q # position BY <3>1, <3>2, <3>4
    <3> QED BY <3>3, <3>4
  <2> QED BY <2>1, <2>2 DEF AtBlock
<1>2. ASSUME AtLog PROVE position \in Places(logs) /\ logs[position].block = current
  BY <1>2 DEF AtLog, LogsOf, Positions, Places
<1>3. CASE ParseLog
  <2>1. reached' \in Nat /\ current <= reached' BY <1>0, <1>3, MaxOfTwo DEF ParseLog
  <2>2. position \in Places(logs) /\ logs[position].block = current BY <1>2, <1>3 DEF ParseLog
  <2>3. AtBlock(logs, current, position') BY <1>0, <1>1, <1>3, <2>2 DEF ParseLog
  <2>4. todo' # <<>> => position' = position BY <1>3 DEF ParseLog
  <2> QED BY <1>0, <1>3, <2>1, <2>2, <2>3, <2>4 DEF ParseLog, Shape, run
<1>4. CASE RejectLog
  <2>1. position \in Places(logs) /\ logs[position].block = current BY <1>2, <1>4 DEF RejectLog
  <2>2. AtBlock(logs, current, position + 1) BY <1>1, <2>1
  <2> QED BY <1>0, <1>4, <2>2 DEF RejectLog, AtLog, Shape, run, history
<1>5. CASE HandlerWrites BY <1>5, WriteFrame DEF Shape
<1>6. CASE publishEvent
  <2>1. position \in Places(logs) /\ logs[position].block = current /\ todo' = <<>>
    BY <1>6, TellIsLast DEF publishEvent, Doing, Shape
  <2>2. AtBlock(logs, current, position + 1) BY <1>1, <2>1
  <2> QED BY <1>0, <1>6, <2>1, <2>2 DEF publishEvent, Doing, Shape, run, history
<1>7. CASE WriteFails
  <2>1. position \in Places(logs) /\ logs[position].block = current BY <1>7 DEF WriteFails, Shape
  <2>2. AtBlock(logs, current, position + 1) BY <1>1, <2>1
  <2> QED BY <1>0, <1>7, <2>1, <2>2 DEF WriteFails, Shape, run, history
<1>8. CASE RecordBlock
  <2>1. \A q \in Places(logs) : q < FirstAfter(current) <=> logs[q].block <= current BY <1>0, FirstAfterIs
  <2>2. AtBlock(logs, current + 1, position)
    <3>1. position = FirstAfter(current) /\ position \in 1..(Len(logs) + 1) BY <1>0, <1>8 DEF RecordBlock, AtBlock
    <3> QED BY <1>0, <2>1, <3>1 DEF AtBlock
  <2>3. first' \in {first, current + 1} BY <1>8 DEF RecordBlock
  <2>4. first' \in Nat /\ 1 <= first' /\ first' <= current + 1 BY <1>0, <2>3
  <2> QED BY <1>0, <1>8, <2>2, <2>4 DEF RecordBlock, Shape, history
<1>9. CASE BatchFails
  <2>1. /\ FirstAfter(first - 1) \in 1..(Len(logs) + 1)
        /\ \A q \in Places(logs) : q < FirstAfter(first - 1) <=> logs[q].block <= first - 1
    BY <1>0, FirstAfterIs
  <2>2. AtBlock(logs, first, FirstAfter(first - 1)) BY <1>0, <2>1 DEF AtBlock
  <2> QED BY <1>0, <1>9, <2>2 DEF BatchFails, Shape, history
<1>10. CASE Restart
  <2>1. /\ FirstAfter(recorded) \in 1..(Len(logs) + 1)
        /\ \A q \in Places(logs) : q < FirstAfter(recorded) <=> logs[q].block <= recorded
    BY <1>0, FirstAfterIs
  <2>2. AtBlock(logs, recorded + 1, FirstAfter(recorded)) BY <1>0, <2>1 DEF AtBlock
  <2> QED BY <1>0, <1>10, <2>2 DEF Restart, Shape
<1>11. CASE WaitForBlock BY <1>11 DEF WaitForBlock, Shape, contractVars, run, history
<1> QED BY <1>3, <1>4, <1>5, <1>6, <1>7, <1>8, <1>9, <1>10, <1>11 DEF ContractsNext, HandlerWrites

-----------------------------------------------------------------------------
(* The handler in hand, write by write.                                     *)

\* The indexes stay, but for what the action writes.
LEMMA StoreEventIs ==
    ASSUME StoreEvent
    PROVE  /\ todo # <<>> /\ Head(todo).op = "row" /\ todo' = Tail(todo)
           /\ DOMAIN rows' = DOMAIN rows \cup {Head(todo).key}
           /\ rows'[Head(todo).key] = position
           /\ \A k \in DOMAIN rows : k # Head(todo).key => rows'[k] = rows[k]
           /\ UNCHANGED <<minters, validators, blacklist, proposals, listed>>
BY DEF StoreEvent, Doing

LEMMA StoreEventHandles ==
    ASSUME CInv, StoreEvent
    PROVE  Handling(logs, logs[position], position, Tail(todo), reached, rows', minters, validators, blacklist, proposals, listed)
<1> DEFINE l == logs[position]
<1> HIDE DEF l
<1>1. LeftRow(l, todo) \/ LeftRowWrite(l, todo) \/ LeftRowSwap(l, todo) \/ LeftChange(l, todo, validators)
  BY StoreEventIs, HeadTells DEF CInv, InHand, l
<1>2. CASE LeftRow(l, todo)
  <2>1. Head(todo) = Row(KeyOf(l)) /\ Tail(todo) = <<Tell>> BY <1>2 DEF LeftRow
  <2>2. RowWritten(l, position, rows') BY <2>1, StoreEventIs, WriteFields DEF RowWritten
  <2>3. Finished(logs, l, position, reached, rows', minters, validators, blacklist, proposals, listed)
    BY <1>2, <2>2 DEF Finished, LeftRow, RowKinds, MemberKinds, Decisions
  <2>4. l.kind \in EventKinds BY <1>2 DEF LeftRow, EventKinds
  <2> QED BY <2>1, <2>3, <2>4 DEF Handling, LeftTell, l
<1>3. CASE LeftRowWrite(l, todo)
  <2>1. Head(todo) = Row(KeyOf(l)) /\ Tail(todo) = <<WriteOf(l), Tell>> BY <1>3 DEF LeftRowWrite
  <2>2. RowWritten(l, position, rows') BY <2>1, StoreEventIs, WriteFields DEF RowWritten
  <2>3. LeftWrite(l, position, Tail(todo), rows') BY <1>3, <2>1, <2>2 DEF LeftRowWrite, LeftWrite
  <2> QED BY <2>3 DEF Handling, l
<1>4. CASE LeftRowSwap(l, todo)
  <2>1. LeftSwap(l, Tail(todo)) BY <1>4 DEF LeftRowSwap, LeftSwap
  <2> QED BY <2>1 DEF Handling, l
<1>5. CASE LeftChange(l, todo, validators)
  <2>1. Tail(todo) = <<Tell>> BY <1>5 DEF LeftChange
  <2>2. Finished(logs, l, position, reached, rows', minters, validators, blacklist, proposals, listed)
    BY <1>5 DEF Finished, LeftChange, Swaps, MemberKinds, Decisions
  <2>3. l.kind \in EventKinds BY <1>5 DEF LeftChange, Swaps, EventKinds, MemberKinds
  <2> QED BY <2>1, <2>2, <2>3 DEF Handling, LeftTell, l
<1> QED BY <1>1, <1>2, <1>3, <1>4, <1>5

LEMMA SupplyHandles ==
    ASSUME CInv, UpdateTotalSupply
    PROVE  Handling(logs, logs[position], position, Tail(todo), reached, rows, minters, validators, blacklist, proposals, listed)
<1> DEFINE l == logs[position]
<1>0. todo # <<>> /\ Head(todo).op = "supply" BY DEF UpdateTotalSupply, Doing
<1> HIDE DEF l
<1>1. LeftWrite(l, position, todo, rows) BY <1>0, HeadTells DEF CInv, InHand, l
<1>2. Head(todo) = WriteOf(l) /\ Tail(todo) = <<Tell>> /\ WritesOne(l) BY <1>1 DEF LeftWrite
<1>3. l.kind \in {"mint", "burn", "burnExecuted"} BY <1>0, <1>2, WriteOfOp DEF WritesOne
<1>4. Finished(logs, l, position, reached, rows, minters, validators, blacklist, proposals, listed)
  BY <1>1, <1>3 DEF LeftWrite, Finished, MemberKinds, Decisions
<1>5. l.kind \in EventKinds BY <1>3 DEF EventKinds, WriteKinds
<1> QED BY <1>2, <1>4, <1>5 DEF Handling, LeftTell, l

LEMMA MinterHandles ==
    ASSUME CInv, UpdateActiveMinter
    PROVE  /\ logs[position].kind \in {"minterConfigured", "minterRemoved"} /\ logs[position].account \in Accounts
           /\ minters' = [minters EXCEPT ![logs[position].account] = AllowanceOf(logs[position])]
           /\ Handling(logs, logs[position], position, Tail(todo), reached, rows, minters', validators, blacklist, proposals, listed)
<1> DEFINE l == logs[position]
<1>0. todo # <<>> /\ Head(todo).op = "minter" /\ minters' = [minters EXCEPT ![Head(todo).account] = Head(todo).allowance]
  BY DEF UpdateActiveMinter, Doing
<1>6. IsLog(l) BY <1>0, Named DEF CInv, Shape
<1> HIDE DEF l
<1>1. LeftWrite(l, position, todo, rows) BY <1>0, HeadTells DEF CInv, InHand, l
<1>2. Head(todo) = WriteOf(l) /\ Tail(todo) = <<Tell>> /\ WritesOne(l) BY <1>1 DEF LeftWrite
<1>3. l.kind \in {"minterConfigured", "minterRemoved"} BY <1>0, <1>2, WriteOfOp DEF WritesOne
<1>4. WriteOf(l) = Minter(l.account, AllowanceOf(l)) BY <1>3 DEF WriteOf
<1>5. minters' = [minters EXCEPT ![l.account] = AllowanceOf(l)]
  <2>1. Head(todo).account = l.account /\ Head(todo).allowance = AllowanceOf(l) BY <1>2, <1>4, WriteFields
  <2> QED BY <1>0, <2>1
<1>7. l.account \in Accounts BY <1>3, <1>6 DEF IsLog
<1>8. minters'[l.account] = AllowanceOf(l) BY <1>5, <1>7 DEF CInv, Tables
<1>9. Finished(logs, l, position, reached, rows, minters', validators, blacklist, proposals, listed)
  BY <1>1, <1>3, <1>8 DEF LeftWrite, Finished, MemberKinds, Decisions
<1>10. l.kind \in EventKinds BY <1>3 DEF EventKinds, WriteKinds
<1> QED BY <1>2, <1>3, <1>5, <1>7, <1>9, <1>10 DEF Handling, LeftTell, l

LEMMA BlacklistHandles ==
    ASSUME CInv, UpdateBlacklistStatus
    PROVE  /\ logs[position].kind \in {"blacklisted", "unblacklisted"}
           /\ \A a : a # logs[position].account => (a \in blacklist' <=> a \in blacklist)
           /\ Handling(logs, logs[position], position, Tail(todo), reached, rows, minters, validators, blacklist', proposals, listed)
<1> DEFINE l == logs[position]
<1>0. todo # <<>> /\ Head(todo).op = "blacklist" /\ blacklist' = Switch(blacklist, Head(todo).account, Head(todo).on)
  BY DEF UpdateBlacklistStatus, Doing
<1> HIDE DEF l
<1>1. LeftWrite(l, position, todo, rows) BY <1>0, HeadTells DEF CInv, InHand, l
<1>2. Head(todo) = WriteOf(l) /\ Tail(todo) = <<Tell>> /\ WritesOne(l) BY <1>1 DEF LeftWrite
<1>3. l.kind \in {"blacklisted", "unblacklisted"} BY <1>0, <1>2, WriteOfOp DEF WritesOne
<1>4. /\ WriteOf(l).account = l.account
      /\ l.kind = "blacklisted" => WriteOf(l).on
      /\ l.kind # "blacklisted" => ~WriteOf(l).on
  BY <1>3 DEF WriteOf, Blacklist
<1>5. /\ l.account \in blacklist' <=> l.kind = "blacklisted"
      /\ \A a : a # l.account => (a \in blacklist' <=> a \in blacklist)
  BY <1>0, <1>2, <1>3, <1>4 DEF Switch
<1>9. Finished(logs, l, position, reached, rows, minters, validators, blacklist', proposals, listed)
  BY <1>1, <1>3, <1>5 DEF LeftWrite, Finished, MemberKinds, Decisions
<1>10. l.kind \in EventKinds BY <1>3 DEF EventKinds, WriteKinds
<1> QED BY <1>2, <1>3, <1>5, <1>9, <1>10 DEF Handling, LeftTell, l

\* The accounts a log about seats is about.
Involves(l, a) == l.account = a \/ (l.kind = "memberChanged" /\ l.old = a)

LEMMA ValidatorHandles ==
    ASSUME CInv, UpdateActiveValidator
    PROVE  /\ logs[position].kind \in MemberKinds /\ OnSeats(logs[position])
           /\ \A a : ~Involves(logs[position], a) => (a \in validators' <=> a \in validators)
           /\ Handling(logs, logs[position], position, Tail(todo), reached, rows, minters, validators', blacklist, proposals, listed)
<1> DEFINE l == logs[position]
<1>0. todo # <<>> /\ Head(todo).op = "validator" /\ validators' = Switch(validators, Head(todo).account, Head(todo).on)
  BY DEF UpdateActiveValidator, Doing
<1> HIDE DEF l
<1>1. LeftWrite(l, position, todo, rows) \/ LeftSwap(l, todo) \/ LeftSeat(l, todo, validators)
  BY <1>0, HeadTells DEF CInv, InHand, l
<1>2. CASE LeftWrite(l, position, todo, rows)
  <2>2. Head(todo) = WriteOf(l) /\ Tail(todo) = <<Tell>> /\ WritesOne(l) BY <1>2 DEF LeftWrite
  <2>3. l.kind \in {"memberAdded", "memberRemoved"} /\ OnSeats(l)
    BY <1>0, <2>2, WriteOfOp DEF WritesOne, WriteKinds
  <2>4. /\ WriteOf(l).account = l.account
        /\ l.kind = "memberAdded" => WriteOf(l).on
        /\ l.kind # "memberAdded" => ~WriteOf(l).on
    BY <2>3 DEF WriteOf, Validator
  <2>5. /\ l.account \in validators' <=> l.kind = "memberAdded"
        /\ \A a : a # l.account => (a \in validators' <=> a \in validators)
    BY <1>0, <2>2, <2>3, <2>4 DEF Switch
  <2>6. Finished(logs, l, position, reached, rows, minters, validators', blacklist, proposals, listed)
    BY <2>3, <2>5 DEF Finished, MemberKinds, Decisions
  <2>7. l.kind \in EventKinds /\ l.kind \in MemberKinds BY <2>3 DEF EventKinds, MemberKinds
  <2> QED BY <2>2, <2>3, <2>5, <2>6, <2>7 DEF Handling, LeftTell, l, Involves
<1>3. CASE LeftSwap(l, todo)
  <2>1. /\ Head(todo) = Unseat(l.old) /\ Swaps(l)
        /\ Tail(todo) = <<Seat(l.account), Row(ValidatorChangeEventKey(l)), Tell>>
    BY <1>3 DEF LeftSwap
  <2>2. Head(todo).account = l.old /\ Head(todo).on = FALSE BY <2>1, WriteFields
  <2>3. validators' = validators \ {l.old} BY <1>0, <2>2 DEF Switch
  <2>4. LeftSeat(l, Tail(todo), validators') BY <2>1, <2>3 DEF LeftSeat
  <2> QED BY <2>1, <2>3, <2>4 DEF Handling, Swaps, l, Involves, MemberKinds
<1>4. CASE LeftSeat(l, todo, validators)
  <2>1. /\ Head(todo) = Seat(l.account) /\ Swaps(l) /\ l.old \notin validators
        /\ Tail(todo) = <<Row(ValidatorChangeEventKey(l)), Tell>>
    BY <1>4 DEF LeftSeat
  <2>2. Head(todo).account = l.account /\ Head(todo).on = TRUE BY <2>1, WriteFields
  <2>3. validators' = validators \cup {l.account} BY <1>0, <2>2 DEF Switch
  <2>4. LeftChange(l, Tail(todo), validators') BY <2>1, <2>3 DEF LeftChange
  <2> QED BY <2>1, <2>3, <2>4 DEF Handling, Swaps, l, Involves, MemberKinds
<1> QED BY <1>1, <1>2, <1>3, <1>4

LEMMA ProposalHandles ==
    ASSUME CInv, SetProposalRow
    PROVE  /\ logs[position].kind \in Decisions /\ logs[position].proposal \in Proposals
           /\ \E at \in Nat :
                /\ proposals' = [proposals EXCEPT ![logs[position].proposal] =
                                    [status |-> StatusOf(logs[position]), executedAt |-> at]]
                /\ MayClose(logs, logs[position], position, reached, at)
           /\ Handling(logs, logs[position], position, Tail(todo), reached, rows, minters, validators, blacklist, proposals', listed)
           /\ Tail(todo) # <<>> /\ Head(Tail(todo)).op = "list"
           /\ logs[position].kind = "status" =>
                <<logs[position].proposal, proposals[logs[position].proposal].status>> \notin listed
<1> DEFINE l == logs[position]
           put(at) == [status |-> StatusOf(l), executedAt |-> at]
<1>0. /\ todo # <<>> /\ Head(todo).op = "proposal"
      /\ proposals' = [proposals EXCEPT ![Head(todo).proposal] = Head(todo).value]
  BY DEF SetProposalRow, Doing
<1>1. position \in Places(logs) /\ logs \in Chains BY <1>0 DEF CInv, Shape
<1>2. LeftCreate(l, todo) \/ LeftPut(logs, l, position, todo, reached, proposals, listed)
  BY <1>0, HeadTells DEF CInv, InHand
<1>3. l.kind \in Decisions BY <1>2 DEF LeftCreate, LeftPut, Decisions
<1>4. l.proposal \in Proposals /\ StatusOf(l) \in Statuses BY <1>1, <1>3, StatusFacts
<1>5. l.kind = "created" => ClosedAt(l) = 0 BY <1>1, <1>3, StatusFacts
<1> HIDE DEF l
<1>6. PICK at \in Nat : /\ MayClose(logs, l, position, reached, at)
                        /\ todo = <<Put(l, at), List(l.proposal, StatusOf(l)), Tell>>
  <2>1. CASE LeftCreate(l, todo)
    <3>1. MayClose(logs, l, position, reached, 0) BY <1>5, <2>1 DEF LeftCreate, MayClose
    <3> QED BY <2>1, <3>1 DEF LeftCreate
  <2>2. CASE LeftPut(logs, l, position, todo, reached, proposals, listed) BY <2>2 DEF LeftPut
  <2> QED BY <1>2, <2>1, <2>2
<1>7. Head(todo) = Put(l, at) /\ Tail(todo) = <<List(l.proposal, StatusOf(l)), Tell>> BY <1>6
<1>8. Head(todo).proposal = l.proposal /\ Head(todo).value = put(at) BY <1>7 DEF Put, Proposal
<1>9. proposals' = [proposals EXCEPT ![l.proposal] = put(at)] BY <1>0, <1>8
<1>10. proposals'[l.proposal] = put(at) BY <1>4, <1>9 DEF CInv, Tables
<1>11. put(at) # Absent BY <1>4, RowIsNotAbsent
<1>12. StatusWritten(logs, l, position, reached, proposals')
  BY <1>6, <1>10, <1>11 DEF StatusWritten
<1>13. LeftList(logs, l, position, Tail(todo), reached, proposals') BY <1>3, <1>7, <1>12 DEF LeftList
<1>14. Tail(todo) # <<>> /\ Head(Tail(todo)) = List(l.proposal, StatusOf(l))
  <2>1. \A a, b : <<a, b>> # <<>> /\ Head(<<a, b>>) = a OBVIOUS
  <2> QED BY ONLY <1>7, <2>1
<1>15. l.kind = "status" => <<l.proposal, proposals[l.proposal].status>> \notin listed
  BY <1>2 DEF LeftCreate, LeftPut
<1>16. Head(Tail(todo)).op = "list" BY <1>14, WriteFields
<1> QED BY <1>3, <1>4, <1>6, <1>9, <1>13, <1>14, <1>15, <1>16 DEF Handling, l

LEMMA UnlistHandles ==
    ASSUME CInv, DeleteStatusIndex
    PROVE  /\ logs[position].kind = "status" /\ logs[position].proposal \in Proposals
           /\ listed' = listed \ {<<logs[position].proposal, proposals[logs[position].proposal].status>>}
           /\ Handling(logs, logs[position], position, Tail(todo), reached, rows, minters, validators, blacklist, proposals, listed')
           /\ Tail(todo) # <<>>
<1> DEFINE l == logs[position]
<1>0. todo # <<>> /\ Head(todo).op = "unlist" /\ listed' = listed \ {Head(todo).entry}
  BY DEF DeleteStatusIndex, Doing
<1>1. position \in Places(logs) /\ logs \in Chains BY <1>0 DEF CInv, Shape
<1>2. LeftMove(logs, l, position, todo, reached, proposals) BY <1>0, HeadTells DEF CInv, InHand
<1>3. l.kind = "status" /\ l.proposal \in Proposals BY <1>1, <1>2, StatusFacts DEF LeftMove, Decisions
<1> HIDE DEF l
<1>4. PICK at \in Nat : /\ MayClose(logs, l, position, reached, at)
                        /\ todo = << Unlist(l.proposal, proposals[l.proposal].status), Put(l, at),
                                     List(l.proposal, StatusOf(l)), Tell >>
  BY <1>2 DEF LeftMove
<1>5. /\ Head(todo) = Unlist(l.proposal, proposals[l.proposal].status)
      /\ Tail(todo) = <<Put(l, at), List(l.proposal, StatusOf(l)), Tell>> /\ Tail(todo) # <<>>
  BY <1>4
<1>6. Head(todo).entry = <<l.proposal, proposals[l.proposal].status>> BY <1>5, WriteFields
<1>7. listed' = listed \ {<<l.proposal, proposals[l.proposal].status>>} BY <1>0, <1>6
<1>8. LeftPut(logs, l, position, Tail(todo), reached, proposals, listed')
  BY <1>2, <1>4, <1>5, <1>7 DEF LeftPut, LeftMove
<1> QED BY <1>3, <1>5, <1>7, <1>8 DEF Handling, l

LEMMA ListHandles ==
    ASSUME CInv, SetStatusIndex
    PROVE  /\ logs[position].kind \in Decisions /\ logs[position].proposal \in Proposals
           /\ StatusWritten(logs, logs[position], position, reached, proposals)
           /\ listed' = listed \cup {<<logs[position].proposal, StatusOf(logs[position])>>}
           /\ Handling(logs, logs[position], position, Tail(todo), reached, rows, minters, validators, blacklist, proposals, listed')
           /\ Tail(todo) # <<>> /\ Head(Tail(todo)).op = "publish"
<1> DEFINE l == logs[position]
<1>0. todo # <<>> /\ Head(todo).op = "list" /\ listed' = listed \cup {Head(todo).entry}
  BY DEF SetStatusIndex, Doing
<1>1. position \in Places(logs) /\ logs \in Chains BY <1>0 DEF CInv, Shape
<1>2. LeftList(logs, l, position, todo, reached, proposals) BY <1>0, HeadTells DEF CInv, InHand
<1>3. l.kind \in Decisions /\ l.proposal \in Proposals /\ StatusWritten(logs, l, position, reached, proposals)
  BY <1>1, <1>2, StatusFacts DEF LeftList
<1> HIDE DEF l
<1>4. Head(todo) = List(l.proposal, StatusOf(l)) /\ Tail(todo) = <<Tell>> /\ Tail(todo) # <<>> /\ Head(Tail(todo)) = Tell
  BY <1>2 DEF LeftList
<1>5. Head(todo).entry = <<l.proposal, StatusOf(l)>> /\ Tell.op = "publish" BY <1>4, WriteFields
<1>6. listed' = listed \cup {<<l.proposal, StatusOf(l)>>} BY <1>0, <1>5
<1>7. Finished(logs, l, position, reached, rows, minters, validators, blacklist, proposals, listed')
  BY <1>3, <1>6 DEF Finished, MemberKinds, Decisions
<1>8. l.kind \in EventKinds BY <1>3 DEF EventKinds
<1> QED BY <1>3, <1>4, <1>5, <1>6, <1>7, <1>8 DEF Handling, LeftTell, l

\* The handler in hand stays one of those above.
LEMMA InHandStep == ASSUME CInv, ContractsNext PROVE InHand'
<1>1. CASE ParseLog
  <2>1. /\ AtLog /\ ~RejectsLog(logs[position]) /\ todo' = parseAndIndexLog(logs[position])
        /\ todo' # <<>> => position' = position
        /\ UNCHANGED <<logs, rows, minters, validators, blacklist, proposals, listed>>
        /\ reached' = Max({reached, current})
    BY <1>1 DEF ParseLog, indexes
  <2>2. reached' \in Nat /\ reached <= reached' /\ current <= reached'
    BY <2>1, MaxOfTwo DEF CInv, Shape
  <2>3. todo' = <<>> \/ Handling(logs, logs[position], position, todo', reached',
                                 rows, minters, validators, blacklist, proposals, listed)
    BY <2>1, <2>2, HandlerBegins DEF CInv
  <2> QED BY <2>1, <2>3 DEF InHand
<1>2. CASE HandlerWrites
  <2>1. todo # <<>> /\ todo' = Tail(todo) /\ UNCHANGED <<logs, position, reached>> BY <1>2, WriteFrame
  <2>2. Handling(logs, logs[position], position, Tail(todo), reached, rows', minters', validators', blacklist', proposals', listed')
    <3>1. CASE StoreEvent BY <3>1, StoreEventHandles, StoreEventIs
    <3>2. CASE UpdateTotalSupply BY <3>2, SupplyHandles DEF UpdateTotalSupply
    <3>3. CASE UpdateActiveMinter BY <3>3, MinterHandles DEF UpdateActiveMinter
    <3>4. CASE UpdateActiveValidator BY <3>4, ValidatorHandles DEF UpdateActiveValidator
    <3>5. CASE UpdateBlacklistStatus BY <3>5, BlacklistHandles DEF UpdateBlacklistStatus
    <3>6. CASE SetProposalRow BY <3>6, ProposalHandles DEF SetProposalRow
    <3>7. CASE DeleteStatusIndex BY <3>7, UnlistHandles DEF DeleteStatusIndex
    <3>8. CASE SetStatusIndex BY <3>8, ListHandles DEF SetStatusIndex
    <3> QED BY <1>2, <3>1, <3>2, <3>3, <3>4, <3>5, <3>6, <3>7, <3>8 DEF HandlerWrites
  <2> QED BY <2>1, <2>2 DEF InHand
<1>3. CASE publishEvent
  <2>1. todo' = <<>> BY <1>3, TellIsLast DEF publishEvent, Doing, CInv
  <2> QED BY <2>1 DEF InHand
<1>4. CASE RejectLog \/ WriteFails \/ RecordBlock \/ BatchFails \/ Restart
  <2>1. todo' = <<>> BY <1>4 DEF RejectLog, AtLog, WriteFails, RecordBlock, BatchFails, Restart
  <2> QED BY <2>1 DEF InHand
<1>5. CASE WaitForBlock BY <1>5 DEF WaitForBlock, contractVars, indexes, history, InHand, CInv
<1> QED BY <1>1, <1>2, <1>3, <1>4, <1>5 DEF ContractsNext, HandlerWrites

LEMMA TablesStep == ASSUME CInv, ContractsNext PROVE Tables'
<1>1. CASE UNCHANGED <<minters, proposals>> BY <1>1 DEF CInv, Tables
<1>2. CASE UpdateActiveMinter
  <2>1. minters' = [a \in Accounts |-> minters'[a]] /\ proposals' = proposals
    BY <1>2, MinterHandles DEF UpdateActiveMinter, CInv, Tables
  <2> QED BY <2>1 DEF CInv, Tables
<1>3. CASE SetProposalRow
  <2> DEFINE l == logs[position]
  <2>1. PICK at \in Nat : proposals' = [proposals EXCEPT ![l.proposal] = [status |-> StatusOf(l), executedAt |-> at]]
    BY <1>3, ProposalHandles
  <2>2. minters' = minters BY <1>3 DEF SetProposalRow
  <2>3. l.kind \in Decisions BY <1>3, ProposalHandles
  <2>4. position \in Places(logs) /\ logs \in Chains BY <1>3 DEF CInv, Shape, SetProposalRow, Doing
  <2>5. StatusOf(l) \in Statuses BY <2>3, <2>4, StatusFacts
  <2> HIDE DEF l
  <2> QED BY <2>1, <2>2, <2>5 DEF CInv, Tables
<1> QED BY <1>1, <1>2, <1>3 DEF ContractsNext, ParseLog, RejectLog, StoreEvent, UpdateTotalSupply,
      UpdateActiveValidator, UpdateBlacklistStatus, DeleteStatusIndex, SetStatusIndex, publishEvent, WriteFails,
      RecordBlock, BatchFails, Restart, WaitForBlock, contractVars, indexes

-----------------------------------------------------------------------------
(* The last word about a question.                                          *)

LEMMA StepFacts ==
    ASSUME CInv, ContractsNext
    PROVE  /\ logs' = logs /\ reached \in Nat /\ reached' \in Nat /\ reached <= reached'
           /\ torn => torn'
<1>1. reached \in Nat /\ current \in Nat /\ torn \in BOOLEAN BY DEF CInv, Shape
<1>2. CASE ParseLog BY <1>1, <1>2, MaxOfTwo DEF ParseLog
<1>3. CASE Restart BY <1>1, <1>3 DEF Restart
<1>4. CASE ~ParseLog /\ ~Restart
  <2>1. logs' = logs /\ reached' = reached /\ torn' = torn
    BY <1>4, WriteFrame DEF ContractsNext, HandlerWrites, RejectLog, publishEvent, Doing, WriteFails, RecordBlock, BatchFails, WaitForBlock,
          contractVars, history
  <2> QED BY <1>1, <2>1
<1> QED BY <1>2, <1>3, <1>4

LEMMA WhoWrites ==
    ASSUME ContractsNext
    PROVE  /\ blacklist' = blacklist \/ UpdateBlacklistStatus
           /\ minters' = minters \/ UpdateActiveMinter
           /\ validators' = validators \/ UpdateActiveValidator
           /\ proposals' = proposals \/ SetProposalRow
           /\ listed' = listed \/ DeleteStatusIndex \/ SetStatusIndex
           /\ rows' = rows \/ StoreEvent
BY DEF ContractsNext, ParseLog, RejectLog, StoreEvent, UpdateTotalSupply, UpdateActiveMinter,
      UpdateActiveValidator, UpdateBlacklistStatus, SetProposalRow, DeleteStatusIndex, SetStatusIndex, publishEvent, WriteFails,
      RecordBlock, BatchFails, Restart, WaitForBlock, contractVars, indexes

\* Its handler has just ended well.
Ends == publishEvent \/ (ParseLog /\ todo' = <<>>)

\* No step but the end of its handler gives a log the last word, unless a
\* restart tears the second pass over a recorded block.
LEMMA StandingKept ==
    ASSUME CInv, ContractsNext, ~torn', NEW S \in SUBSET Places(logs), NEW m,
           Standing(logs', S, m, position', failed', reached')
    PROVE  Standing(logs, S, m, position, failed, reached) \/ (m = position /\ Ends)
<1>0. logs' = logs /\ reached \in Nat /\ reached' \in Nat /\ reached <= reached' BY StepFacts
<1>1. /\ m \in S /\ m < position' /\ m \notin failed' /\ m \in Nat /\ m \in Places(logs)
      /\ \A x \in S : x > m => logs[x].block > reached'
  BY <1>0, ChainFacts DEF Standing, CInv, Shape
<1>2. \A x \in S : x > m => logs[x].block > reached
  <2> SUFFICES ASSUME NEW x \in S, x > m PROVE logs[x].block > reached OBVIOUS
  <2>1. logs[x].block \in Nat BY ChainFacts DEF CInv, Shape
  <2>2. logs[x].block > reached' BY <1>1
  <2> QED BY <1>0, <2>1, <2>2
<1>3. position \in Nat /\ AtBlock(logs, current, position) /\ current \in Nat /\ first \in Nat /\ recorded \in Nat
      /\ first <= current /\ current <= recorded + 1 /\ Len(logs) \in Nat
  BY ChainFacts DEF CInv, Shape, AtBlock
<1>4. CASE UNCHANGED <<position, failed>> BY <1>1, <1>2, <1>4 DEF Standing
<1>5. CASE position' = position + 1 /\ failed' = failed \cup {position} BY <1>1, <1>2, <1>3, <1>5 DEF Standing
<1>6. CASE position' = position + 1 /\ failed' = failed \ {position} /\ Ends
  BY <1>1, <1>2, <1>3, <1>6 DEF Standing
<1>7. CASE BatchFails \/ Restart
  <2>1. PICK b \in Nat : position' = FirstAfter(b) /\ failed' = failed /\ b < current
    <3>1. CASE BatchFails
      <4>1. first >= 1 BY DEF CInv, Shape
      <4> QED BY <1>3, <3>1, <4>1 DEF BatchFails
    <3>2. CASE Restart
      <4>1. ~(current <= recorded) BY <3>2 DEF Restart
      <4> QED BY <1>3, <3>2, <4>1 DEF Restart
    <3> QED BY <1>7, <3>1, <3>2
  <2>2. logs[m].block <= b BY <1>1, <2>1, FirstAfterIs DEF CInv, Shape
  <2>3. logs[m].block \in Nat BY <1>1, ChainFacts DEF CInv, Shape
  <2>4. m < position BY <1>1, <1>3, <2>1, <2>2, <2>3 DEF AtBlock
  <2> QED BY <1>1, <1>2, <2>1, <2>4 DEF Standing
<1> QED
  <2>1. CASE ParseLog BY <1>4, <1>6, <2>1 DEF ParseLog, Ends
  <2>2. CASE HandlerWrites BY <1>4, <2>2, WriteFrame
  <2>3. CASE publishEvent BY <1>6, <2>3 DEF publishEvent, Ends
  <2>4. CASE RejectLog \/ WriteFails BY <1>5, <2>4 DEF RejectLog, WriteFails
  <2>5. CASE RecordBlock \/ WaitForBlock BY <1>4, <2>5 DEF RecordBlock, WaitForBlock, contractVars
  <2> QED BY <1>7, <2>1, <2>2, <2>3, <2>4, <2>5 DEF ContractsNext, HandlerWrites

\* A log that is being handled is not in a set that has its last word or was
\* never begun.
LEMMA Elsewhere ==
    ASSUME CInv, todo # <<>>, NEW S \in SUBSET Places(logs),
           Untouched(logs, S, reached) \/ \E m : Standing(logs, S, m, position, failed, reached)
    PROVE  position \notin S
<1>1. logs[position].block \in Nat /\ reached \in Nat /\ position \in Nat /\ logs[position].block <= reached
  BY ChainFacts DEF CInv, Shape
<1>2. ASSUME position \in S PROVE FALSE
  <2>1. CASE Untouched(logs, S, reached) BY <1>1, <1>2, <2>1 DEF Untouched
  <2>2. ASSUME NEW m, Standing(logs, S, m, position, failed, reached) PROVE FALSE
    <3>1. m \in Nat BY <2>2, ChainFacts DEF Standing, CInv, Shape
    <3> QED BY <1>1, <1>2, <2>2, <3>1 DEF Standing
  <2> QED BY <2>1, <2>2
<1> QED BY <1>2

LEMMA UntouchedKept ==
    ASSUME CInv, ContractsNext, NEW S \in SUBSET Places(logs), Untouched(logs', S, reached')
    PROVE  Untouched(logs, S, reached)
<1>0. logs' = logs /\ reached \in Nat /\ reached' \in Nat /\ reached <= reached' BY StepFacts
<1>1. \A x \in S : logs[x].block \in Nat BY ChainFacts DEF CInv, Shape
<1> QED BY <1>0, <1>1 DEF Untouched

\* A handler that ends was one of EventKinds and has made its writes.
LEMMA EndsFinished ==
    ASSUME CInv, Ends, logs[position].kind \in EventKinds
    PROVE  /\ Finished(logs, logs[position], position, reached, rows, minters, validators, blacklist, proposals, listed)
           /\ UNCHANGED <<rows, minters, validators, blacklist, proposals, listed>>
<1>1. CASE publishEvent BY <1>1, TellIsLast DEF publishEvent, Doing, CInv, indexes
<1>2. CASE ParseLog /\ todo' = <<>>
  <2>1. /\ AtLog /\ ~RejectsLog(logs[position]) /\ parseAndIndexLog(logs[position]) = <<>>
    BY <1>2 DEF ParseLog
  <2>2. Max({reached, current}) \in Nat /\ reached <= Max({reached, current}) /\ current <= Max({reached, current})
    BY MaxOfTwo DEF CInv, Shape
  <2>3. Handling(logs, logs[position], position, <<>>, Max({reached, current}),
                 rows, minters, validators, blacklist, proposals, listed)
    BY <2>1, <2>2, HandlerBegins DEF CInv
  <2>4. FALSE
    <3>1. \A a : <<a>> # <<>> OBVIOUS
    <3>2. \A a, b : <<a, b>> # <<>> OBVIOUS
    <3>3. \A a, b, c : <<a, b, c>> # <<>> OBVIOUS
    <3>4. \A a, b, c, d : <<a, b, c, d>> # <<>> OBVIOUS
    <3>5. \A a, b, c, d, e : <<a, b, c, d, e>> # <<>> OBVIOUS
    <3> QED BY <2>3, <3>1, <3>2, <3>3, <3>4, <3>5 DEF Handling, LeftTell, LeftRow, LeftRowWrite, LeftWrite, LeftRowSwap,
          LeftSwap, LeftSeat, LeftChange, LeftCreate, LeftMove, LeftPut, LeftList
  <2> QED BY <2>4
<1> QED BY <1>1, <1>2 DEF Ends

\* Which row a handler writes.
LEMMA StoredKey ==
    ASSUME CInv, StoreEvent
    PROVE  /\ \A p, a : Head(todo).key = VoteKey(p, a) =>
                 position \in VoteLogs(logs, p, a)
           /\ \A b : Head(todo).key = AuthorKey(b) =>
                 position \in AuthorLogs(logs, b)
<1> DEFINE l == logs[position]
<1>0. position \in Places(logs) BY DEF CInv, Shape, StoreEvent, Doing
<1>1. LeftRow(l, todo) \/ LeftRowWrite(l, todo) \/ LeftRowSwap(l, todo) \/ LeftChange(l, todo, validators)
  BY StoreEventIs, HeadTells DEF CInv, InHand
<1> HIDE DEF l
<1>2. Head(todo).key = KeyOf(l) \/ Head(todo).key = ValidatorChangeEventKey(l)
  <2>1. LeftRow(l, todo) => Head(todo) = Row(KeyOf(l)) BY DEF LeftRow
  <2>2. LeftRowWrite(l, todo) => Head(todo) = Row(KeyOf(l)) BY DEF LeftRowWrite
  <2>3. LeftRowSwap(l, todo) => Head(todo) = Row(KeyOf(l)) BY DEF LeftRowSwap
  <2>4. LeftChange(l, todo, validators) => Head(todo) = Row(ValidatorChangeEventKey(l)) BY DEF LeftChange
  <2> QED BY <1>1, <2>1, <2>2, <2>3, <2>4, WriteFields
<1>3. l.kind \in RowKinds \cup MemberKinds \cup WriteKinds
  BY <1>1 DEF LeftRow, LeftRowWrite, LeftRowSwap, LeftChange, Swaps, WritesOne, MemberKinds, SeatKinds
<1>4. CASE l.kind = "voted"
  <2>1. KeyOf(l) = <<"vote", l.proposal, l.account>> BY <1>4 DEF KeyOf, MemberKinds, ProposalVoteKey
  <2> QED BY <1>0, <1>2, <1>4, <2>1 DEF VoteKey, AuthorKey, VoteLogs, ValidatorChangeEventKey, l
<1>5. CASE l.kind \in {"authorized", "unauthorized"}
  <2>1. KeyOf(l) = <<"authorized", l.block>> BY <1>5 DEF KeyOf, AuthorizedAccountEventKey, MemberKinds
  <2> QED BY <1>0, <1>2, <1>5, <2>1 DEF VoteKey, AuthorKey, AuthorLogs, ValidatorChangeEventKey, l
<1>6. CASE l.kind \notin {"voted", "authorized", "unauthorized"}
  <2>1. KeyOf(l)[1] # "vote" /\ KeyOf(l)[1] # "authorized"
    BY <1>3, <1>6 DEF KeyOf, RowKinds, MemberKinds, WriteKinds, MintEventKey, BurnEventKey, MinterConfigEventKey,
          MemberChangeEventKey, BlacklistEventKey, GasTipUpdateEventKey, EmergencyPauseEventKey, DepositMintProposalKey,
          MaxProposalsUpdateEventKey, ProposalExecutionSkippedEventKey
  <2>2. ValidatorChangeEventKey(l)[1] = "validator" BY DEF ValidatorChangeEventKey
  <2>3. \A p, a, b : VoteKey(p, a)[1] = "vote" /\ AuthorKey(b)[1] = "authorized" BY DEF VoteKey, AuthorKey
  <2> QED BY <1>2, <2>1, <2>2, <2>3
<1> QED BY <1>4, <1>5, <1>6

LEMMA SetsInside ==
    ASSUME NEW c
    PROVE  /\ \A a : BlacklistLogs(c, a) \in SUBSET Places(c)
           /\ \A a : MinterLogs(c, a) \in SUBSET Places(c)
           /\ \A a : SeatLogs(c, a) \in SUBSET Places(c)
           /\ \A p : DecisionLogs(c, p) \in SUBSET Places(c)
           /\ \A p, a : VoteLogs(c, p, a) \in SUBSET Places(c)
           /\ \A b : AuthorLogs(c, b) \in SUBSET Places(c)
BY DEF BlacklistLogs, MinterLogs, SeatLogs, DecisionLogs, VoteLogs, AuthorLogs

LEMMA BlacklistStep ==
    ASSUME CInv, ContractsNext, ~torn', NEW a \in Accounts, NEW m,
           Standing(logs', BlacklistLogs(logs', a), m, position', failed', reached')
    PROVE  a \in blacklist' <=> logs'[m].kind = "blacklisted"
<1> DEFINE S == BlacklistLogs(logs, a)
<1>0. logs' = logs /\ ~torn /\ S \in SUBSET Places(logs) BY StepFacts, SetsInside
<1>1. Standing(logs, S, m, position, failed, reached) \/ (m = position /\ Ends) BY <1>0, StandingKept
<1>2. CASE Standing(logs, S, m, position, failed, reached)
  <2>1. a \in blacklist <=> logs[m].kind = "blacklisted" BY <1>0, <1>2 DEF CInv, Says, BlacklistSays
  <2>2. CASE blacklist' = blacklist BY <1>0, <2>1, <2>2
  <2>3. CASE UpdateBlacklistStatus
    <3>1. todo # <<>> BY <2>3 DEF UpdateBlacklistStatus, Doing
    <3>2. position \notin S BY <1>0, <1>2, <3>1, Elsewhere
    <3>3. logs[position].account # a
      BY <2>3, <3>1, <3>2, BlacklistHandles DEF BlacklistLogs, CInv, Shape
    <3> QED BY <1>0, <2>1, <2>3, <3>3, BlacklistHandles
  <2> QED BY <2>2, <2>3, WhoWrites
<1>3. CASE m = position /\ Ends
  <2>1. logs[position].kind \in {"blacklisted", "unblacklisted"} /\ logs[position].account = a
    BY <1>0, <1>3 DEF Standing, BlacklistLogs
  <2>2. logs[position].kind \in EventKinds BY <2>1 DEF EventKinds, WriteKinds
  <2> QED BY <1>0, <1>3, <2>1, <2>2, EndsFinished DEF Finished
<1> QED BY <1>1, <1>2, <1>3

LEMMA MintersStep ==
    ASSUME CInv, ContractsNext, ~torn', NEW a \in Accounts, NEW m,
           Standing(logs', MinterLogs(logs', a), m, position', failed', reached')
    PROVE  minters'[a] = AllowanceOf(logs'[m])
<1> DEFINE S == MinterLogs(logs, a)
<1>0. logs' = logs /\ ~torn /\ S \in SUBSET Places(logs) BY StepFacts, SetsInside
<1>1. Standing(logs, S, m, position, failed, reached) \/ (m = position /\ Ends) BY <1>0, StandingKept
<1>2. CASE Standing(logs, S, m, position, failed, reached)
  <2>1. minters[a] = AllowanceOf(logs[m]) BY <1>0, <1>2 DEF CInv, Says, MintersSay
  <2>2. CASE minters' = minters BY <1>0, <2>1, <2>2
  <2>3. CASE UpdateActiveMinter
    <3>1. todo # <<>> BY <2>3 DEF UpdateActiveMinter, Doing
    <3>2. position \notin S BY <1>0, <1>2, <3>1, Elsewhere
    <3>3. logs[position].account # a
      BY <2>3, <3>1, <3>2, MinterHandles DEF MinterLogs, CInv, Shape
    <3>4. minters'[a] = minters[a] BY <2>3, <3>3, MinterHandles DEF CInv, Tables
    <3> QED BY <1>0, <2>1, <3>4
  <2> QED BY <2>2, <2>3, WhoWrites
<1>3. CASE m = position /\ Ends
  <2>1. logs[position].kind \in {"minterConfigured", "minterRemoved"} /\ logs[position].account = a
    BY <1>0, <1>3 DEF Standing, MinterLogs
  <2>2. logs[position].kind \in EventKinds BY <2>1 DEF EventKinds, WriteKinds
  <2> QED BY <1>0, <1>3, <2>1, <2>2, EndsFinished DEF Finished
<1> QED BY <1>1, <1>2, <1>3

LEMMA SeatsStep ==
    ASSUME CInv, ContractsNext, ~torn', NEW a \in Accounts, NEW m,
           Standing(logs', SeatLogs(logs', a), m, position', failed', reached')
    PROVE  a \in validators' <=> Seated(logs'[m], a)
<1> DEFINE S == SeatLogs(logs, a)
<1>0. logs' = logs /\ ~torn /\ S \in SUBSET Places(logs) BY StepFacts, SetsInside
<1>1. Standing(logs, S, m, position, failed, reached) \/ (m = position /\ Ends) BY <1>0, StandingKept
<1>2. CASE Standing(logs, S, m, position, failed, reached)
  <2>1. a \in validators <=> Seated(logs[m], a) BY <1>0, <1>2 DEF CInv, Says, SeatsSay
  <2>2. CASE validators' = validators BY <1>0, <2>1, <2>2
  <2>3. CASE UpdateActiveValidator
    <3>1. todo # <<>> BY <2>3 DEF UpdateActiveValidator, Doing
    <3>2. position \notin S BY <1>0, <1>2, <3>1, Elsewhere
    <3>3. ~Involves(logs[position], a)
      BY <2>3, <3>1, <3>2, ValidatorHandles DEF SeatLogs, CInv, Shape, Involves, OnSeats, MemberKinds
    <3> QED BY <1>0, <2>1, <2>3, <3>3, ValidatorHandles
  <2> QED BY <2>2, <2>3, WhoWrites
<1>3. CASE m = position /\ Ends
  <2>1. /\ logs[position].kind \in MemberKinds /\ OnSeats(logs[position])
        /\ logs[position].account = a \/ (logs[position].kind = "memberChanged" /\ logs[position].old = a)
    BY <1>0, <1>3 DEF Standing, SeatLogs, MemberKinds, OnSeats
  <2>2. logs[position].kind \in EventKinds BY <2>1 DEF EventKinds
  <2> QED BY <1>0, <1>3, <2>1, <2>2, EndsFinished DEF Finished, Seated
<1> QED BY <1>1, <1>2, <1>3

LEMMA VotesStep ==
    ASSUME CInv, ContractsNext, ~torn', NEW p \in Proposals, NEW a \in Accounts, NEW m,
           Standing(logs', VoteLogs(logs', p, a), m, position', failed', reached')
    PROVE  VoteKey(p, a) \in DOMAIN rows' /\ rows'[VoteKey(p, a)] = m
<1> DEFINE S == VoteLogs(logs, p, a)
<1>0. logs' = logs /\ ~torn /\ S \in SUBSET Places(logs) BY StepFacts, SetsInside
<1>1. Standing(logs, S, m, position, failed, reached) \/ (m = position /\ Ends) BY <1>0, StandingKept
<1>2. CASE Standing(logs, S, m, position, failed, reached)
  <2>1. VoteKey(p, a) \in DOMAIN rows /\ rows[VoteKey(p, a)] = m BY <1>0, <1>2 DEF CInv, Says, VotesSay
  <2>2. CASE rows' = rows BY <2>1, <2>2
  <2>3. CASE StoreEvent
    <3>1. todo # <<>> BY <2>3 DEF StoreEvent, Doing
    <3>2. position \notin S BY <1>0, <1>2, <3>1, Elsewhere
    <3>3. Head(todo).key # VoteKey(p, a) BY <2>3, <3>2, StoredKey
    <3> QED BY <2>1, <2>3, <3>3, StoreEventIs
  <2> QED BY <2>2, <2>3, WhoWrites
<1>3. CASE m = position /\ Ends
  <2>1. logs[position].kind = "voted" /\ logs[position].account = a /\ logs[position].proposal = p
    BY <1>0, <1>3 DEF Standing, VoteLogs
  <2>2. logs[position].kind \in EventKinds BY <2>1 DEF EventKinds, RowKinds
  <2>3. KeyOf(logs[position]) = VoteKey(p, a) BY <2>1 DEF KeyOf, MemberKinds, ProposalVoteKey, VoteKey
  <2> QED BY <1>3, <2>1, <2>2, <2>3, EndsFinished DEF Finished, RowWritten
<1> QED BY <1>1, <1>2, <1>3

LEMMA AuthorsStep ==
    ASSUME CInv, ContractsNext, ~torn', NEW b \in 1..MaxBlock, NEW m,
           Standing(logs', AuthorLogs(logs', b), m, position', failed', reached')
    PROVE  AuthorKey(b) \in DOMAIN rows' /\ rows'[AuthorKey(b)] = m
<1> DEFINE S == AuthorLogs(logs, b)
<1>0. logs' = logs /\ ~torn /\ S \in SUBSET Places(logs) BY StepFacts, SetsInside
<1>1. Standing(logs, S, m, position, failed, reached) \/ (m = position /\ Ends) BY <1>0, StandingKept
<1>2. CASE Standing(logs, S, m, position, failed, reached)
  <2>1. AuthorKey(b) \in DOMAIN rows /\ rows[AuthorKey(b)] = m BY <1>0, <1>2 DEF CInv, Says, AuthorsSay
  <2>2. CASE rows' = rows BY <2>1, <2>2
  <2>3. CASE StoreEvent
    <3>1. todo # <<>> BY <2>3 DEF StoreEvent, Doing
    <3>2. position \notin S BY <1>0, <1>2, <3>1, Elsewhere
    <3>3. Head(todo).key # AuthorKey(b) BY <2>3, <3>2, StoredKey
    <3> QED BY <2>1, <2>3, <3>3, StoreEventIs
  <2> QED BY <2>2, <2>3, WhoWrites
<1>3. CASE m = position /\ Ends
  <2>1. logs[position].kind \in {"authorized", "unauthorized"} /\ logs[position].block = b
    BY <1>0, <1>3 DEF Standing, AuthorLogs
  <2>2. logs[position].kind \in EventKinds BY <2>1 DEF EventKinds, RowKinds
  <2>3. KeyOf(logs[position]) = AuthorKey(b) BY <2>1 DEF KeyOf, AuthorizedAccountEventKey, AuthorKey, MemberKinds
  <2> QED BY <1>3, <2>1, <2>2, <2>3, EndsFinished DEF Finished, RowWritten
<1> QED BY <1>1, <1>2, <1>3

LEMMA MayCloseKept ==
    ASSUME NEW c \in Chains, NEW l, NEW q, NEW at, NEW top \in Nat, NEW top2 \in Nat, top <= top2,
           MayClose(c, l, q, top, at)
    PROVE  MayClose(c, l, q, top2, at)
<1>1. \A y \in DecisionLogs(c, l.proposal) : c[y].block \in Nat BY ChainFacts, SetsInside
<1>2. ASSUME NEW y \in DecisionLogs(c, l.proposal), c[y].block <= top PROVE c[y].block <= top2
  BY <1>1, <1>2
<1> QED BY <1>2 DEF MayClose

\* A write of the row or of the status index is about the proposal in hand.
LEMMA OtherProposal ==
    ASSUME CInv, NEW p \in Proposals, todo # <<>>, logs[position].kind \in Decisions, position \notin DecisionLogs(logs, p)
    PROVE  logs[position].proposal # p
BY DEF CInv, Shape, DecisionLogs, Decisions

LEMMA ProposalsStep ==
    ASSUME CInv, ContractsNext, ~torn', NEW p \in Proposals, NEW m,
           Standing(logs', DecisionLogs(logs', p), m, position', failed', reached')
    PROVE  /\ StatusWritten(logs', logs'[m], m, reached', proposals')
           /\ <<p, StatusOf(logs'[m])>> \in listed'
<1> DEFINE S == DecisionLogs(logs, p)
<1>0. /\ logs' = logs /\ ~torn /\ S \in SUBSET Places(logs) /\ logs \in Chains
      /\ reached \in Nat /\ reached' \in Nat /\ reached <= reached'
  BY StepFacts, SetsInside DEF CInv, Shape
<1>1. Standing(logs, S, m, position, failed, reached) \/ (m = position /\ Ends) BY <1>0, StandingKept
<1>2. m \in S /\ logs[m].proposal = p /\ logs[m].kind \in Decisions BY <1>0 DEF Standing, DecisionLogs, Decisions
<1>3. CASE Standing(logs, S, m, position, failed, reached)
  <2>1. StatusWritten(logs, logs[m], m, reached, proposals) /\ <<p, StatusOf(logs[m])>> \in listed
    BY <1>0, <1>3 DEF CInv, Says, ProposalsSay
  <2>2. proposals'[p] = proposals[p]
    <3>1. CASE SetProposalRow
      <4>1. todo # <<>> BY <3>1 DEF SetProposalRow, Doing
      <4>2. position \notin S BY <1>0, <1>3, <4>1, Elsewhere
      <4>3. logs[position].proposal # p BY <3>1, <4>1, <4>2, ProposalHandles, OtherProposal
      <4> QED BY <3>1, <4>3, ProposalHandles DEF CInv, Tables
    <3> QED BY <3>1, WhoWrites
  <2>3. <<p, StatusOf(logs[m])>> \in listed'
    <3>1. CASE DeleteStatusIndex
      <4>1. todo # <<>> BY <3>1 DEF DeleteStatusIndex, Doing
      <4>2. position \notin S BY <1>0, <1>3, <4>1, Elsewhere
      <4>3. logs[position].proposal # p BY <3>1, <4>1, <4>2, UnlistHandles, OtherProposal DEF Decisions
      <4> QED BY <2>1, <3>1, <4>3, UnlistHandles
    <3>2. CASE SetStatusIndex BY <2>1, <3>2, ListHandles
    <3> QED BY <2>1, <3>1, <3>2, WhoWrites
  <2>4. MayClose(logs, logs[m], m, reached', proposals[p].executedAt)
    BY <1>0, <1>2, <2>1, MayCloseKept DEF StatusWritten
  <2> QED BY <1>0, <1>2, <2>1, <2>2, <2>3, <2>4 DEF StatusWritten
<1>4. CASE m = position /\ Ends
  <2>1. logs[position].kind \in EventKinds BY <1>2, <1>4 DEF EventKinds
  <2>2. /\ StatusWritten(logs, logs[m], m, reached, proposals) /\ <<p, StatusOf(logs[m])>> \in listed
        /\ proposals' = proposals /\ listed' = listed
    BY <1>2, <1>4, <2>1, EndsFinished DEF Finished
  <2>3. MayClose(logs, logs[m], m, reached', proposals[p].executedAt)
    BY <1>0, <1>2, <2>2, MayCloseKept DEF StatusWritten
  <2> QED BY <1>0, <1>2, <2>2, <2>3 DEF StatusWritten
<1> QED BY <1>1, <1>3, <1>4

LEMMA SaysStep == ASSUME CInv, ContractsNext PROVE Says'
<1> SUFFICES ASSUME ~torn' PROVE /\ BlacklistSays(logs', position', failed', reached', blacklist')
                                 /\ MintersSay(logs', position', failed', reached', minters')
                                 /\ SeatsSay(logs', position', failed', reached', validators')
                                 /\ ProposalsSay(logs', position', failed', reached', proposals', listed')
                                 /\ VotesSay(logs', position', failed', reached', rows')
                                 /\ AuthorsSay(logs', position', failed', reached', rows')
  BY DEF Says
<1>1. BlacklistSays(logs', position', failed', reached', blacklist') BY BlacklistStep DEF BlacklistSays
<1>2. MintersSay(logs', position', failed', reached', minters') BY MintersStep DEF MintersSay
<1>3. SeatsSay(logs', position', failed', reached', validators') BY SeatsStep DEF SeatsSay
<1>4. ProposalsSay(logs', position', failed', reached', proposals', listed') BY ProposalsStep DEF ProposalsSay
<1>5. VotesSay(logs', position', failed', reached', rows') BY VotesStep DEF VotesSay
<1>6. AuthorsSay(logs', position', failed', reached', rows') BY AuthorsStep DEF AuthorsSay
<1> QED BY <1>1, <1>2, <1>3, <1>4, <1>5, <1>6

-----------------------------------------------------------------------------
(* What was never touched.                                                  *)

LEMMA FreshStep == ASSUME CInv, ContractsNext PROVE Fresh'
<1>0. /\ logs' = logs /\ logs \in Chains /\ reached \in Nat /\ reached' \in Nat /\ reached <= reached'
  BY StepFacts DEF CInv, Shape
<1>1. ASSUME NEW a \in Accounts, Untouched(logs', BlacklistLogs(logs', a), reached') PROVE a \notin blacklist'
  <2>1. Untouched(logs, BlacklistLogs(logs, a), reached) BY <1>0, <1>1, UntouchedKept, SetsInside
  <2>2. a \notin blacklist BY <2>1 DEF CInv, Fresh, BlacklistFresh
  <2>3. CASE UpdateBlacklistStatus
    <3>1. todo # <<>> BY <2>3 DEF UpdateBlacklistStatus, Doing
    <3>2. position \notin BlacklistLogs(logs, a) BY <2>1, <3>1, Elsewhere, SetsInside
    <3>3. logs[position].account # a BY <2>3, <3>1, <3>2, BlacklistHandles DEF BlacklistLogs, CInv, Shape
    <3> QED BY <2>2, <2>3, <3>3, BlacklistHandles
  <2> QED BY <2>2, <2>3, WhoWrites
<1>2. ASSUME NEW a \in Accounts, Untouched(logs', MinterLogs(logs', a), reached') PROVE minters'[a] = Absent
  <2>1. Untouched(logs, MinterLogs(logs, a), reached) BY <1>0, <1>2, UntouchedKept, SetsInside
  <2>2. minters[a] = Absent BY <2>1 DEF CInv, Fresh, MintersFresh
  <2>3. CASE UpdateActiveMinter
    <3>1. todo # <<>> BY <2>3 DEF UpdateActiveMinter, Doing
    <3>2. position \notin MinterLogs(logs, a) BY <2>1, <3>1, Elsewhere, SetsInside
    <3>3. logs[position].account # a BY <2>3, <3>1, <3>2, MinterHandles DEF MinterLogs, CInv, Shape
    <3> QED BY <2>2, <2>3, <3>3, MinterHandles DEF CInv, Tables
  <2> QED BY <2>2, <2>3, WhoWrites
<1>3. ASSUME NEW a \in Accounts, Untouched(logs', SeatLogs(logs', a), reached') PROVE a \notin validators'
  <2>1. Untouched(logs, SeatLogs(logs, a), reached) BY <1>0, <1>3, UntouchedKept, SetsInside
  <2>2. a \notin validators BY <2>1 DEF CInv, Fresh, SeatsFresh
  <2>3. CASE UpdateActiveValidator
    <3>1. todo # <<>> BY <2>3 DEF UpdateActiveValidator, Doing
    <3>2. position \notin SeatLogs(logs, a) BY <2>1, <3>1, Elsewhere, SetsInside
    <3>3. ~Involves(logs[position], a)
      BY <2>3, <3>1, <3>2, ValidatorHandles DEF SeatLogs, CInv, Shape, Involves, OnSeats, MemberKinds
    <3> QED BY <2>2, <2>3, <3>3, ValidatorHandles
  <2> QED BY <2>2, <2>3, WhoWrites
<1>4. ASSUME NEW p \in Proposals, proposals'[p] # Absent
      PROVE  /\ \E y \in DecisionLogs(logs', p) : logs'[y].block <= reached' /\ StatusOf(logs'[y]) = proposals'[p].status
             /\ proposals'[p].executedAt # 0 =>
                   \E y \in DecisionLogs(logs', p) : logs'[y].block <= reached' /\ StatusOf(logs'[y]) \in Closing
  <2>0. ASSUME NEW y \in DecisionLogs(logs, p), logs[y].block <= reached PROVE logs[y].block <= reached'
    <3>1. logs[y].block \in Nat BY <1>0, ChainFacts, SetsInside
    <3> QED BY <1>0, <2>0, <3>1
  <2>1. CASE proposals'[p] = proposals[p]
    <3>1. /\ \E y \in DecisionLogs(logs, p) : logs[y].block <= reached /\ StatusOf(logs[y]) = proposals[p].status
          /\ proposals[p].executedAt # 0 =>
                \E y \in DecisionLogs(logs, p) : logs[y].block <= reached /\ StatusOf(logs[y]) \in Closing
      BY <1>4, <2>1 DEF CInv, Fresh, ProposalsFresh
    <3> QED BY <1>0, <2>0, <2>1, <3>1
  <2>2. CASE proposals'[p] # proposals[p]
    <3> DEFINE l == logs[position]
    <3>1. SetProposalRow BY <2>2, WhoWrites
    <3>2. PICK at \in Nat : /\ proposals' = [proposals EXCEPT ![l.proposal] = [status |-> StatusOf(l), executedAt |-> at]]
                            /\ MayClose(logs, l, position, reached, at)
      BY <3>1, ProposalHandles
    <3>3. l.proposal = p /\ l.kind \in Decisions BY <2>2, <3>1, <3>2, ProposalHandles DEF CInv, Tables
    <3>4. proposals'[p] = [status |-> StatusOf(l), executedAt |-> at] BY <3>2, <3>3 DEF CInv, Tables
    <3>5. position \in Places(logs) /\ l.block <= reached BY <3>1 DEF SetProposalRow, Doing, CInv, Shape
    <3>6. position \in DecisionLogs(logs, p) BY <3>3, <3>5 DEF DecisionLogs, Decisions
    <3>7. at # 0 => \E y \in DecisionLogs(logs, p) : logs[y].block <= reached /\ StatusOf(logs[y]) \in Closing
      <4>1. CASE at = ClosedAt(l) BY <3>5, <3>6, <4>1 DEF ClosedAt
      <4>2. CASE at # ClosedAt(l) BY <3>2, <3>3, <4>2 DEF MayClose
      <4> QED BY <4>1, <4>2
    <3> HIDE DEF l
    <3> QED BY <1>0, <2>0, <3>4, <3>5, <3>6, <3>7 DEF l
  <2> QED BY <2>1, <2>2
<1>5. ASSUME NEW b \in 1..MaxBlock, AuthorKey(b) \in DOMAIN rows'
      PROVE  rows'[AuthorKey(b)] \in AuthorLogs(logs', b) /\ b <= reached'
  <2>1. CASE AuthorKey(b) \in DOMAIN rows /\ rows'[AuthorKey(b)] = rows[AuthorKey(b)]
    <3>1. rows[AuthorKey(b)] \in AuthorLogs(logs, b) /\ b <= reached BY <2>1 DEF CInv, Fresh, AuthorsFresh
    <3>2. b \in Nat BY ChainsAssumption
    <3> QED BY <1>0, <2>1, <3>1, <3>2
  <2>2. CASE ~(AuthorKey(b) \in DOMAIN rows /\ rows'[AuthorKey(b)] = rows[AuthorKey(b)])
    <3>1. StoreEvent BY <1>5, <2>2, WhoWrites
    <3>2. Head(todo).key = AuthorKey(b) /\ rows'[AuthorKey(b)] = position BY <1>5, <2>2, <3>1, StoreEventIs
    <3>3. position \in AuthorLogs(logs, b) BY <3>1, <3>2, StoredKey
    <3>4. logs[position].block <= reached BY <3>1 DEF StoreEvent, Doing, CInv, Shape
    <3>5. b <= reached BY <3>3, <3>4 DEF AuthorLogs
    <3>6. b \in Nat BY ChainsAssumption
    <3> QED BY <1>0, <3>2, <3>3, <3>5, <3>6
  <2> QED BY <2>1, <2>2
<1> QED BY <1>1, <1>2, <1>3, <1>4, <1>5
      DEF Fresh, BlacklistFresh, MintersFresh, SeatsFresh, ProposalsFresh, AuthorsFresh

-----------------------------------------------------------------------------
(* The status index.                                                        *)

LEMMA GoesBack ==
    ASSUME CInv, BatchFails \/ Restart, ~torn'
    PROVE  position' \in Nat /\ position \in Nat /\ position' <= position
<1>1. /\ position \in 1..(Len(logs) + 1) /\ AtBlock(logs, current, position) /\ Len(logs) \in Nat /\ logs \in Chains
      /\ current \in Nat /\ first \in Nat /\ recorded \in Nat /\ first <= current /\ current <= recorded + 1 /\ first >= 1
  BY ChainFacts DEF CInv, Shape, AtBlock
<1>2. PICK b \in Nat : position' = FirstAfter(b) /\ b < current
  <2>1. CASE BatchFails BY <1>1, <2>1 DEF BatchFails
  <2>2. CASE Restart
    <3>1. ~(current <= recorded) BY <2>2 DEF Restart
    <3> QED BY <1>1, <2>2, <3>1 DEF Restart
  <2> QED BY <2>1, <2>2
<1>3. position' \in 1..(Len(logs) + 1) /\ \A q \in Places(logs) : q < position' <=> logs[q].block <= b
  <2>1. /\ FirstAfter(b) \in 1..(Len(logs) + 1)
        /\ \A q \in Places(logs) : q < FirstAfter(b) <=> logs[q].block <= b
    <3>1. b \in Int /\ logs \in Chains BY <1>1
    <3> QED BY ONLY <3>1, FirstAfterIs
  <2> QED BY <1>2, <2>1
<1>4. ASSUME position < position' PROVE FALSE
  <2>1. position \in Places(logs) BY <1>1, <1>3, <1>4 DEF Places
  <2>2. logs[position].block <= b /\ logs[position].block \in Nat BY <1>1, <1>3, <1>4, <2>1, ChainFacts
  <2>3. position < position BY <1>1, <1>2, <2>1, <2>2 DEF AtBlock
  <2> QED BY <1>1, <2>3
<1> QED BY <1>1, <1>3, <1>4

LEMMA CreatedFirst ==
    ASSUME CInv, todo # <<>>, logs[position].kind = "created",
           NEW y \in DecisionLogs(logs, logs[position].proposal)
    PROVE  y \in Nat /\ position \in Nat /\ y >= position
<1>1. position \in Places(logs) /\ logs \in Chains BY DEF CInv, Shape
<1>2. position \in DecisionLogs(logs, logs[position].proposal) BY <1>1 DEF DecisionLogs
<1>3. ~(y < position) BY <1>1, <1>2, DecisionOrder
<1>4. y \in Nat /\ position \in Nat BY <1>1, ChainFacts, SetsInside
<1> QED BY <1>3, <1>4

LEMMA ListedHaveRowsStep == ASSUME CInv, ContractsNext PROVE ListedHaveRows(proposals', listed')
<1> SUFFICES ASSUME NEW p \in Proposals, NEW s \in Statuses, <<p, s>> \in listed' PROVE proposals'[p] # Absent
  BY DEF ListedHaveRows
<1>1. <<p, s>> \in listed => proposals[p] # Absent BY DEF CInv, Listing, ListedHaveRows
<1>2. CASE SetProposalRow
  <2> DEFINE l == logs[position]
  <2>1. PICK at \in Nat : proposals' = [proposals EXCEPT ![l.proposal] = [status |-> StatusOf(l), executedAt |-> at]]
    BY <1>2, ProposalHandles
  <2>2. l.kind \in Decisions /\ l.proposal \in Proposals /\ listed' = listed BY <1>2, ProposalHandles DEF SetProposalRow
  <2>3. StatusOf(l) \in Statuses BY <1>2, <2>2, StatusFacts DEF SetProposalRow, Doing, CInv, Shape
  <2>4. [status |-> StatusOf(l), executedAt |-> at] # Absent BY <2>3, RowIsNotAbsent
  <2>5. proposals[p] # Absent BY <1>1, <2>2
  <2> HIDE DEF l
  <2> QED BY <2>1, <2>2, <2>4, <2>5 DEF CInv, Tables
<1>3. CASE SetStatusIndex
  <2>1. proposals' = proposals BY <1>3 DEF SetStatusIndex
  <2>2. <<p, s>> \in listed \/ p = logs[position].proposal BY <1>3, ListHandles
  <2> QED BY <1>1, <1>3, <2>1, <2>2, ListHandles DEF StatusWritten
<1>4. CASE DeleteStatusIndex BY <1>1, <1>4, UnlistHandles DEF DeleteStatusIndex
<1> QED BY <1>1, <1>2, <1>3, <1>4, WhoWrites

\* In a first pass: no replay yet.
LEMMA FirstPassStep ==
    ASSUME CInv, ContractsNext, replays' = 0
    PROVE  ListedOnce(proposals', listed') /\ RowsBehind(logs', position', todo', proposals')
<1>0. /\ logs' = logs /\ logs \in Chains /\ replays = 0 /\ ~BatchFails /\ ~Restart /\ position \in Nat
      /\ ListedOnce(proposals, listed) /\ RowsBehind(logs, position, todo, proposals)
  <2>1. ~BatchFails /\ ~Restart BY DEF BatchFails, Restart, CInv, Shape
  <2>2. replays' = replays
    BY <2>1, WriteFrame DEF ContractsNext, HandlerWrites, ParseLog, RejectLog, publishEvent, Doing, WriteFails, RecordBlock, WaitForBlock, contractVars
  <2>3. position \in Nat BY ChainFacts DEF CInv, Shape, AtBlock
  <2> QED BY <2>1, <2>2, <2>3, StepFacts DEF CInv, Listing, Shape
<1>1. ASSUME NEW p \in Proposals, proposals[p] # Absent
      PROVE  \E y \in DecisionLogs(logs, p) : y < position \/ (y = position /\ todo # <<>> /\ Head(todo).op \in {"list", "publish"})
  BY <1>0, <1>1 DEF RowsBehind
<1>2. CASE SetProposalRow
  <2> DEFINE l == logs[position]
  <2>1. PICK at \in Nat : proposals' = [proposals EXCEPT ![l.proposal] = [status |-> StatusOf(l), executedAt |-> at]]
    BY <1>2, ProposalHandles
  <2>2. /\ l.kind \in Decisions /\ l.proposal \in Proposals /\ listed' = listed /\ position' = position
        /\ todo # <<>> /\ Head(todo).op = "proposal" /\ todo' = Tail(todo) /\ todo' # <<>> /\ Head(todo').op = "list"
        /\ l.kind = "status" => <<l.proposal, proposals[l.proposal].status>> \notin listed
    BY <1>2, ProposalHandles DEF SetProposalRow, Doing, Quiet
  <2>3. position \in DecisionLogs(logs, l.proposal) BY <2>2 DEF DecisionLogs, Decisions, CInv, Shape
  <2>4. ASSUME NEW s \in Statuses, <<l.proposal, s>> \in listed PROVE FALSE
    <3>1. proposals[l.proposal].status = s /\ proposals[l.proposal] # Absent
      BY <1>0, <2>2, <2>4 DEF ListedOnce, CInv, Listing, ListedHaveRows
    <3>2. l.kind = "created" BY <2>2, <2>4, <3>1 DEF Decisions
    <3>3. PICK y \in DecisionLogs(logs, l.proposal) : y < position
      BY <1>1, <2>2, <3>1
    <3>4. y \in Nat /\ y >= position BY <2>2, <3>2, CreatedFirst
    <3> QED BY <1>0, <3>3, <3>4
  <2>5. \A p \in Proposals : p # l.proposal => proposals'[p] = proposals[p] BY <2>1 DEF CInv, Tables
  <2>6. ListedOnce(proposals', listed')
    <3> SUFFICES ASSUME NEW p \in Proposals, NEW s \in Statuses, <<p, s>> \in listed PROVE proposals'[p].status = s
      BY <2>2 DEF ListedOnce
    <3>1. p # l.proposal BY <2>4
    <3> QED BY <1>0, <2>5, <3>1 DEF ListedOnce
  <2>7. RowsBehind(logs, position, todo', proposals')
    <3> SUFFICES ASSUME NEW p \in Proposals, proposals'[p] # Absent
                 PROVE  \E y \in DecisionLogs(logs, p) :
                            y < position \/ (y = position /\ todo' # <<>> /\ Head(todo').op \in {"list", "publish"})
      BY DEF RowsBehind
    <3>1. CASE p = l.proposal BY <2>2, <2>3, <3>1
    <3>2. CASE p # l.proposal
      <4>1. PICK y \in DecisionLogs(logs, p) : y < position BY <1>1, <2>2, <2>5, <3>2
      <4> QED BY <4>1
    <3> QED BY <3>1, <3>2
  <2> QED BY <1>0, <2>2, <2>6, <2>7
<1>3. CASE proposals' = proposals
  <2>1. ListedOnce(proposals', listed')
    <3> SUFFICES ASSUME NEW p \in Proposals, NEW s \in Statuses, <<p, s>> \in listed' PROVE proposals[p].status = s
      BY <1>3 DEF ListedOnce
    <3>1. CASE <<p, s>> \in listed BY <1>0, <3>1 DEF ListedOnce
    <3>2. CASE <<p, s>> \notin listed
      <4>1. ~DeleteStatusIndex BY <3>2, UnlistHandles
      <4>2. SetStatusIndex BY <3>2, <4>1, WhoWrites
      <4>3. <<p, s>> = <<logs[position].proposal, StatusOf(logs[position])>> BY <3>2, <4>2, ListHandles
      <4>4. p = logs[position].proposal /\ s = StatusOf(logs[position]) BY <4>3
      <4> QED BY <4>2, <4>4, ListHandles DEF StatusWritten
    <3> QED BY <3>1, <3>2
  <2>2. RowsBehind(logs, position', todo', proposals)
    <3> SUFFICES ASSUME NEW p \in Proposals, proposals[p] # Absent
                 PROVE  \E y \in DecisionLogs(logs, p) :
                            y < position' \/ (y = position' /\ todo' # <<>> /\ Head(todo').op \in {"list", "publish"})
      BY DEF RowsBehind
    <3>1. PICK y \in DecisionLogs(logs, p) : y < position \/ (y = position /\ todo # <<>> /\ Head(todo).op \in {"list", "publish"})
      BY <1>1
    <3>2. y \in Nat BY <1>0, ChainFacts, SetsInside
    <3>3. CASE position' = position + 1 BY <1>0, <3>1, <3>2, <3>3
    <3>4. CASE UNCHANGED <<position, todo>> BY <3>1, <3>4
    <3>5. CASE ParseLog /\ position' = position
      <4>1. todo = <<>> BY <3>5 DEF ParseLog, AtLog
      <4> QED BY <3>1, <3>5, <4>1
    <3>6. CASE SetStatusIndex
      <4>1. todo' # <<>> /\ Head(todo').op = "publish" /\ position' = position BY <3>6, ListHandles, WriteFrame DEF HandlerWrites
      <4> QED BY <3>1, <4>1
    <3>7. CASE HandlerWrites /\ ~SetStatusIndex
      <4>1. position' = position BY <3>7, WriteFrame
      <4>2. Head(todo).op \notin {"list", "publish"}
        BY <3>7 DEF HandlerWrites, StoreEvent, UpdateTotalSupply, UpdateActiveMinter, UpdateActiveValidator, UpdateBlacklistStatus,
              SetProposalRow, DeleteStatusIndex, Doing
      <4> QED BY <3>1, <4>1, <4>2
    <3>8. CASE RejectLog \/ WriteFails \/ publishEvent BY <3>3, <3>8 DEF RejectLog, WriteFails, publishEvent
    <3>9. CASE RecordBlock \/ WaitForBlock BY <3>4, <3>9 DEF RecordBlock, WaitForBlock, contractVars
    <3>10. CASE ParseLog BY <3>3, <3>5, <3>10 DEF ParseLog
    <3> QED BY <1>0, <3>6, <3>7, <3>8, <3>9, <3>10 DEF ContractsNext, HandlerWrites
  <2> QED BY <1>0, <1>3, <2>1, <2>2
<1> QED BY <1>2, <1>3, WhoWrites

LEMMA AheadStep ==
    ASSUME CInv, ContractsNext, ~torn', faults' = 0
    PROVE  ListedAhead(logs', position', reached', proposals', listed')
<1>0. /\ logs' = logs /\ logs \in Chains /\ ~torn /\ faults = 0 /\ ~WriteFails /\ position \in Nat
      /\ reached \in Nat /\ reached' \in Nat /\ reached <= reached'
      /\ ListedAhead(logs, position, reached, proposals, listed)
  <2>1. ~WriteFails BY DEF WriteFails, CInv, Shape
  <2>2. faults' = faults
    BY <2>1, WriteFrame DEF ContractsNext, HandlerWrites, ParseLog, RejectLog, publishEvent, Doing, BatchFails, Restart, RecordBlock, WaitForBlock, contractVars
  <2>3. position \in Nat BY ChainFacts DEF CInv, Shape, AtBlock
  <2> QED BY <2>1, <2>2, <2>3, StepFacts DEF CInv, Listing, Shape
<1> SUFFICES ASSUME NEW p \in Proposals, NEW s \in Statuses, <<p, s>> \in listed', proposals'[p].status # s
             PROVE  \E y \in DecisionLogs(logs, p) : y >= position' /\ logs[y].block <= reached' /\ StatusOf(logs[y]) = s
  BY <1>0 DEF ListedAhead
<1>1. <<p, s>> \in listed
  <2>1. CASE SetStatusIndex
    <3>1. proposals' = proposals BY <2>1 DEF SetStatusIndex
    <3>2. ASSUME <<p, s>> = <<logs[position].proposal, StatusOf(logs[position])>> PROVE FALSE
      <4>1. p = logs[position].proposal /\ s = StatusOf(logs[position]) BY <3>2
      <4> QED BY <2>1, <3>1, <4>1, ListHandles DEF StatusWritten
    <3> QED BY <2>1, <3>2, ListHandles
  <2>2. CASE DeleteStatusIndex BY <2>2, UnlistHandles
  <2> QED BY <2>1, <2>2, WhoWrites
<1>2. proposals[p] # Absent BY <1>1 DEF CInv, Listing, ListedHaveRows
<1>3. PICK y \in DecisionLogs(logs, p) : y >= position /\ logs[y].block <= reached /\ StatusOf(logs[y]) = s
  <2>1. CASE proposals[p].status # s BY <1>0, <1>1, <2>1 DEF ListedAhead
  <2>2. CASE proposals[p].status = s
    <3> DEFINE l == logs[position]
    <3>1. SetProposalRow BY <2>2, WhoWrites
    <3>2. l.proposal = p
      <4>1. PICK at \in Nat : proposals' = [proposals EXCEPT ![l.proposal] = [status |-> StatusOf(l), executedAt |-> at]]
        BY <3>1, ProposalHandles
      <4> QED BY <2>2, <4>1 DEF CInv, Tables
    <3>3. l.kind = "created" /\ todo # <<>>
      BY <1>1, <2>2, <3>1, <3>2, ProposalHandles DEF Decisions, SetProposalRow, Doing
    <3>4. PICK y \in DecisionLogs(logs, p) : logs[y].block <= reached /\ StatusOf(logs[y]) = s
      BY <1>2, <2>2 DEF CInv, Fresh, ProposalsFresh
    <3>5. y >= position BY <3>2, <3>3, <3>4, CreatedFirst
    <3> QED BY <3>4, <3>5
  <2> QED BY <2>1, <2>2
<1>4. y \in Nat /\ y \in Places(logs) /\ logs[y].block \in Nat /\ logs[y].block <= reached'
  <2>1. y \in Places(logs) BY SetsInside
  <2>2. y \in Nat /\ logs[y].block \in Nat BY <1>0, <2>1, ChainFacts
  <2> QED BY <1>0, <1>3, <2>1, <2>2
<1>5. CASE position' = position BY <1>3, <1>4, <1>5
<1>6. CASE BatchFails \/ Restart
  <2>1. position' \in Nat /\ position' <= position BY <1>6, GoesBack
  <2> QED BY <1>0, <1>3, <1>4, <2>1
<1>7. CASE position' = position + 1 /\ (Ends \/ RejectLog)
  <2>1. y # position
    <3> SUFFICES ASSUME y = position PROVE FALSE OBVIOUS
    <3>1. logs[position].kind \in Decisions /\ logs[position].proposal = p /\ StatusOf(logs[position]) = s
      BY <1>3 DEF DecisionLogs, Decisions
    <3>2. CASE Ends
      <4>1. logs[position].kind \in EventKinds BY <3>1 DEF EventKinds
      <4> QED BY <3>1, <3>2, <4>1, EndsFinished DEF Finished, StatusWritten
    <3>3. CASE RejectLog BY <1>2, <3>1, <3>3 DEF RejectLog, RejectsLog, Decisions
    <3> QED BY <1>7, <3>2, <3>3
  <2>2. y >= position + 1 BY <1>0, <1>3, <1>4, <2>1
  <2> QED BY <1>3, <1>4, <1>7, <2>2
<1>8. CASE ParseLog BY <1>5, <1>7, <1>8 DEF ParseLog, Ends
<1>9. CASE RejectLog BY <1>7, <1>9 DEF RejectLog
<1>10. CASE publishEvent BY <1>7, <1>10 DEF publishEvent, Ends
<1>11. CASE HandlerWrites \/ RecordBlock \/ WaitForBlock BY <1>5, <1>11, WriteFrame DEF RecordBlock, WaitForBlock, contractVars
<1> QED BY <1>0, <1>6, <1>8, <1>9, <1>10, <1>11 DEF ContractsNext, HandlerWrites

LEMMA CInvStep == CInv /\ [ContractsNext]_contractVars => CInv'
<1> SUFFICES ASSUME CInv, [ContractsNext]_contractVars PROVE CInv' OBVIOUS
<1>1. CASE ContractsNext
  <2>1. Listing' BY <1>1, ListedHaveRowsStep, FirstPassStep, AheadStep DEF Listing
  <2> QED BY <1>1, <2>1, ShapeStep, TablesStep, InHandStep, SaysStep, FreshStep DEF CInv
<1>2. CASE UNCHANGED contractVars
  BY <1>2 DEF contractVars, run, indexes, history, CInv, Shape, Tables, InHand, Says, Fresh, Listing
<1> QED BY <1>1, <1>2

-----------------------------------------------------------------------------
(* What follows when the highest block parsed is recorded.                  *)

UpTo(S) == {q \in S : logs[q].block <= recorded}

LEMMA LastWord ==
    ASSUME CInv, Recorded, NEW S \in SUBSET Places(logs)
    PROVE  /\ UpTo(S) = {} => Untouched(logs, S, reached)
           /\ Settles(UpTo(S)) => /\ Standing(logs, S, Max(UpTo(S)), position, failed, reached)
                                  /\ Max(UpTo(S)) \in Places(logs)
           /\ UpTo(S) # {} => Max(UpTo(S)) \in UpTo(S) /\ \A x \in UpTo(S) : x <= Max(UpTo(S))
<1>0. /\ logs \in Chains /\ recorded \in Nat /\ reached \in Nat /\ reached <= recorded /\ position = FirstAfter(recorded)
      /\ Len(logs) \in Nat
  BY ChainFacts DEF CInv, Shape, Recorded
<1>1. \A q \in Places(logs) : q \in Nat /\ q <= Len(logs) /\ logs[q].block \in Nat BY <1>0, ChainFacts DEF Places
<1>2. \A q \in Places(logs) : q < position <=> logs[q].block <= recorded
  <2>1. recorded \in Int /\ logs \in Chains BY <1>0
  <2>2. \A q \in Places(logs) : q < FirstAfter(recorded) <=> logs[q].block <= recorded BY ONLY <2>1, FirstAfterIs
  <2> QED BY <1>0, <2>2
<1>3. UpTo(S) \in SUBSET Nat /\ \A n \in UpTo(S) : n <= Len(logs) BY <1>1 DEF UpTo
<1>4. ASSUME UpTo(S) = {} PROVE Untouched(logs, S, reached) BY <1>0, <1>1, <1>4 DEF UpTo, Untouched
<1>5. ASSUME UpTo(S) # {} PROVE Max(UpTo(S)) \in UpTo(S) /\ \A x \in UpTo(S) : x <= Max(UpTo(S))
  BY <1>0, <1>3, <1>5, MaxIs
<1>6. ASSUME Settles(UpTo(S)) PROVE Standing(logs, S, Max(UpTo(S)), position, failed, reached) /\ Max(UpTo(S)) \in Places(logs)
  <2> DEFINE m == Max(UpTo(S))
  <2>1. m \in UpTo(S) /\ (\A x \in UpTo(S) : x <= m) /\ m \notin failed BY <1>5, <1>6 DEF Settles
  <2> HIDE DEF m
  <2>2. m \in S /\ m \in Places(logs) /\ logs[m].block <= recorded BY <2>1 DEF UpTo
  <2>3. m < position BY <1>2, <2>2
  <2>4. ASSUME NEW x \in S, x > m PROVE logs[x].block > reached
    <3>1. x \notin UpTo(S) BY <1>1, <2>1, <2>2, <2>4
    <3>2. logs[x].block > recorded BY <1>0, <1>1, <3>1 DEF UpTo
    <3> QED BY <1>0, <1>1, <3>2
  <2>5. Standing(logs, S, m, position, failed, reached) BY <2>1, <2>2, <2>3, <2>4 DEF Standing
  <2> QED BY <2>2, <2>5 DEF m
<1> QED BY <1>4, <1>5, <1>6

\* The sets of the specification.
LEMMA SetsAre ==
    /\ \A a : About({"blacklisted", "unblacklisted"}, a) = UpTo(BlacklistLogs(logs, a))
    /\ \A a : About({"minterConfigured", "minterRemoved"}, a) = UpTo(MinterLogs(logs, a))
    /\ \A a : MemberLogs(a) = UpTo(SeatLogs(logs, a))
    /\ \A p : ProposalLogs(p) = UpTo(DecisionLogs(logs, p))
    /\ \A p, a : {q \in About({"voted"}, a) : logs[q].proposal = p} = UpTo(VoteLogs(logs, p, a))
<1> USE DEF UpTo, About, Of, Indexed, Positions, Places
<1>1. \A a : About({"blacklisted", "unblacklisted"}, a) = UpTo(BlacklistLogs(logs, a)) BY DEF BlacklistLogs
<1>2. \A a : About({"minterConfigured", "minterRemoved"}, a) = UpTo(MinterLogs(logs, a)) BY DEF MinterLogs
<1>3. \A a : MemberLogs(a) = UpTo(SeatLogs(logs, a)) BY DEF MemberLogs, SeatLogs
<1>4. \A p : ProposalLogs(p) = UpTo(DecisionLogs(logs, p)) BY DEF ProposalLogs, DecisionLogs
<1>5. \A p, a : {q \in About({"voted"}, a) : logs[q].proposal = p} = UpTo(VoteLogs(logs, p, a)) BY DEF VoteLogs
<1> QED BY <1>1, <1>2, <1>3, <1>4, <1>5

LEMMA AccountsMatch ==
    ASSUME CInv, Recorded, ~torn, NEW a \in Accounts
    PROVE  BlacklistMatches(a) /\ MinterMatches(a) /\ ValidatorMatches(a)
<1>1. BlacklistMatches(a)
  <2> DEFINE S == BlacklistLogs(logs, a)
  <2>0. S \in SUBSET Places(logs) /\ About({"blacklisted", "unblacklisted"}, a) = UpTo(S) BY SetsInside, SetsAre
  <2>1. UpTo(S) = {} => a \notin blacklist BY <2>0, LastWord DEF CInv, Fresh, BlacklistFresh
  <2>2. Settles(UpTo(S)) => (a \in blacklist <=> logs[Max(UpTo(S))].kind = "blacklisted")
    BY <2>0, LastWord DEF CInv, Says, BlacklistSays
  <2> QED BY <2>0, <2>1, <2>2 DEF BlacklistMatches, LastOf
<1>2. MinterMatches(a)
  <2> DEFINE S == MinterLogs(logs, a)
  <2>0. S \in SUBSET Places(logs) /\ About({"minterConfigured", "minterRemoved"}, a) = UpTo(S) BY SetsInside, SetsAre
  <2>1. UpTo(S) = {} => minters[a] = Absent BY <2>0, LastWord DEF CInv, Fresh, MintersFresh
  <2>2. Settles(UpTo(S)) => minters[a] = AllowanceOf(logs[Max(UpTo(S))])
    BY <2>0, LastWord DEF CInv, Says, MintersSay
  <2> QED BY <2>0, <2>1, <2>2 DEF MinterMatches, LastOf, AllowanceOf
<1>3. ValidatorMatches(a)
  <2> DEFINE S == SeatLogs(logs, a)
  <2>0. S \in SUBSET Places(logs) /\ MemberLogs(a) = UpTo(S) BY SetsInside, SetsAre
  <2>1. UpTo(S) = {} => a \notin validators BY <2>0, LastWord DEF CInv, Fresh, SeatsFresh
  <2>2. Settles(UpTo(S)) => (a \in validators <=> Seated(logs[Max(UpTo(S))], a))
    BY <2>0, LastWord DEF CInv, Says, SeatsSay
  <2> QED BY <2>0, <2>1, <2>2 DEF ValidatorMatches, LastOf, Seated
<1> QED BY <1>1, <1>2, <1>3

\* A proposal whose last event was handled has the row, and the entry, that it says.
LEMMA SettledProposal ==
    ASSUME CInv, Recorded, ~torn, NEW p \in Proposals, Settles(ProposalLogs(p))
    PROVE  /\ proposals[p] # Absent
           /\ proposals[p] = [status |-> StatusOf(LastOf(ProposalLogs(p))), executedAt |-> ClosedAt(LastOf(ProposalLogs(p)))]
           /\ <<p, StatusOf(LastOf(ProposalLogs(p)))>> \in listed
<1> DEFINE S == DecisionLogs(logs, p)
           m == Max(UpTo(S))
           l == logs[m]
<1>0. S \in SUBSET Places(logs) /\ ProposalLogs(p) = UpTo(S) BY SetsInside, SetsAre
<1>1. Standing(logs, S, m, position, failed, reached) BY <1>0, LastWord
<1>2. l = LastOf(ProposalLogs(p)) BY <1>0 DEF LastOf
<1> HIDE DEF m, l
<1>3. StatusWritten(logs, logs[m], m, reached, proposals) /\ <<p, StatusOf(logs[m])>> \in listed /\ m \in S
  BY <1>1 DEF CInv, Says, ProposalsSay, Standing
<1>4. l.proposal = p /\ l = logs[m] BY <1>3 DEF DecisionLogs, l
<1>5. proposals[p] # Absent /\ proposals[p].status = StatusOf(l) BY <1>3, <1>4 DEF StatusWritten
<1>6. proposals[p].executedAt = ClosedAt(l)
  <2> SUFFICES ASSUME proposals[p].executedAt # ClosedAt(l) PROVE FALSE OBVIOUS
  <2>1. PICK y \in S : y > m /\ logs[y].block <= reached BY <1>3, <1>4 DEF StatusWritten, MayClose
  <2>2. logs[y].block > reached BY <1>1, <2>1 DEF Standing
  <2>3. logs[y].block \in Nat /\ reached \in Nat BY <1>0, ChainFacts DEF CInv, Shape
  <2> QED BY <2>1, <2>2, <2>3
<1>7. proposals[p] \in [status : Statuses, executedAt : Nat] BY <1>5 DEF CInv, Tables
<1>8. proposals[p] = [status |-> StatusOf(l), executedAt |-> ClosedAt(l)] BY <1>5, <1>6, <1>7
<1> QED BY <1>2, <1>3, <1>4, <1>5, <1>8

LEMMA ProposalsMatch ==
    ASSUME CInv, Recorded, ~torn, NEW p \in Proposals
    PROVE  ProposalMatches(p) /\ VotesMatch(p)
<1>1. ProposalMatches(p)
  <2> DEFINE S == DecisionLogs(logs, p)
  <2>0. S \in SUBSET Places(logs) /\ ProposalLogs(p) = UpTo(S) BY SetsInside, SetsAre
  <2>1. ASSUME UpTo(S) = {} PROVE proposals[p] = Absent
    <3>1. Untouched(logs, S, reached) BY <2>0, <2>1, LastWord
    <3>2. ASSUME proposals[p] # Absent PROVE FALSE
      <4>1. PICK y \in S : logs[y].block <= reached BY <3>2 DEF CInv, Fresh, ProposalsFresh
      <4>2. logs[y].block \in Nat /\ reached \in Nat BY <2>0, ChainFacts DEF CInv, Shape
      <4> QED BY <3>1, <4>1, <4>2 DEF Untouched
    <3> QED BY <3>2
  <2>2. ASSUME Settles(ProposalLogs(p))
        PROVE  proposals[p] = [status |-> StatusOf(LastOf(ProposalLogs(p))),
                 executedAt |-> IF StatusOf(LastOf(ProposalLogs(p))) \in {"executed", "failed"}
                                THEN LastOf(ProposalLogs(p)).block ELSE 0]
    BY <2>2, SettledProposal DEF ClosedAt, Closing
  <2> QED BY <2>0, <2>1, <2>2 DEF ProposalMatches
<1>2. VotesMatch(p)
  <2> SUFFICES ASSUME NEW a \in Accounts, Settles({q \in About({"voted"}, a) : logs[q].proposal = p})
               PROVE  Max({q \in About({"voted"}, a) : logs[q].proposal = p}) \in GetProposalVotes(p)
    BY DEF VotesMatch
  <2> DEFINE S == VoteLogs(logs, p, a)
             m == Max(UpTo(S))
  <2>0. S \in SUBSET Places(logs) /\ {q \in About({"voted"}, a) : logs[q].proposal = p} = UpTo(S) BY SetsInside, SetsAre
  <2>1. Standing(logs, S, m, position, failed, reached) BY <2>0, LastWord
  <2> HIDE DEF m
  <2>2. VoteKey(p, a) \in DOMAIN rows /\ rows[VoteKey(p, a)] = m BY <2>1 DEF CInv, Says, VotesSay
  <2>3. VoteKey(p, a)[1] = "vote" /\ VoteKey(p, a)[2] = p BY DEF VoteKey
  <2>4. m \in GetProposalVotes(p) BY <2>2, <2>3 DEF GetProposalVotes
  <2> QED BY <2>0, <2>4 DEF m
<1> QED BY <1>1, <1>2

\* The blocks whose row of an authorised account names a.
HitBlocks(a) == {b \in 1..MaxBlock : /\ <<"authorized", b>> \in DOMAIN rows
                                     /\ logs[rows[<<"authorized", b>>]].account = a}

LEMMA HitsMax ==
    ASSUME NEW a, HitBlocks(a) # {}
    PROVE  Max(HitBlocks(a)) \in HitBlocks(a) /\ \A b \in HitBlocks(a) : b <= Max(HitBlocks(a))
<1>1. HitBlocks(a) \in SUBSET Nat /\ MaxBlock \in Nat /\ \A b \in HitBlocks(a) : b <= MaxBlock
  BY ChainsAssumption DEF HitBlocks
<1> QED BY <1>1, MaxIs

LEMMA AuthorisedAre ==
    GetAuthorizedAccounts =
        {a \in Accounts : HitBlocks(a) # {} /\ logs[rows[<<"authorized", Max(HitBlocks(a))>>]].kind = "authorized"}
BY DEF GetAuthorizedAccounts, HitBlocks

LEMMA AuthorsMatch == ASSUME CInv, Recorded, ~torn PROVE AuthorizedMatches
<1> DEFINE S == Of({"authorized", "unauthorized"})
<1> SUFFICES ASSUME S \cap failed = {}, \A q, j \in S : logs[q].block = logs[j].block => q = j
             PROVE  GetAuthorizedAccounts =
                      {a \in Accounts : /\ About({"authorized", "unauthorized"}, a) # {}
                                        /\ LastOf(About({"authorized", "unauthorized"}, a)).kind = "authorized"}
  BY DEF AuthorizedMatches
<1>0. /\ logs \in Chains /\ recorded \in Nat /\ reached \in Nat /\ reached <= recorded /\ position = FirstAfter(recorded)
  BY DEF CInv, Shape, Recorded
<1>1. \A q \in S : /\ q \in Places(logs) /\ logs[q].kind \in {"authorized", "unauthorized"} /\ logs[q].block <= recorded
                   /\ q \in Nat /\ logs[q].block \in 1..MaxBlock /\ logs[q].block \in Nat
  BY <1>0, ChainFacts DEF Of, Indexed, Positions, Places
<1>2. ASSUME NEW q \in S PROVE AuthorKey(logs[q].block) \in DOMAIN rows /\ rows[AuthorKey(logs[q].block)] = q
  <2> DEFINE b == logs[q].block
  <2>1. q \in AuthorLogs(logs, b) BY <1>1 DEF AuthorLogs
  <2>2. \A x \in AuthorLogs(logs, b) : x = q
    <3> SUFFICES ASSUME NEW x \in AuthorLogs(logs, b) PROVE x = q OBVIOUS
    <3>1. x \in S BY <1>1 DEF AuthorLogs, Of, Indexed, Positions, Places
    <3> QED BY <3>1 DEF AuthorLogs
  <2>3. q < position BY <1>0, <1>1, FirstAfterIs
  <2>4. Standing(logs, AuthorLogs(logs, b), q, position, failed, reached) BY <1>1, <2>1, <2>2, <2>3 DEF Standing
  <2> QED BY <1>1, <2>4 DEF CInv, Says, AuthorsSay
<1>3. ASSUME NEW b \in 1..MaxBlock, AuthorKey(b) \in DOMAIN rows PROVE rows[AuthorKey(b)] \in S /\ logs[rows[AuthorKey(b)]].block = b
  <2>1. rows[AuthorKey(b)] \in AuthorLogs(logs, b) /\ b <= reached /\ b \in Nat
    BY <1>3, ChainsAssumption DEF CInv, Fresh, AuthorsFresh
  <2>2. b <= recorded BY <1>0, <2>1
  <2> QED BY <2>1, <2>2 DEF AuthorLogs, Of, Indexed, Positions, Places
<1>4. ASSUME NEW a \in Accounts
      PROVE  (HitBlocks(a) # {} /\ logs[rows[<<"authorized", Max(HitBlocks(a))>>]].kind = "authorized")
             <=> (/\ About({"authorized", "unauthorized"}, a) # {}
                  /\ LastOf(About({"authorized", "unauthorized"}, a)).kind = "authorized")
  <2> DEFINE H == About({"authorized", "unauthorized"}, a)
             K == HitBlocks(a)
  <2>1. \A q \in H : q \in S /\ logs[q].account = a BY DEF About
  <2>2. \A q \in S : logs[q].account = a => q \in H BY DEF About
  <2> HIDE DEF H, S
  <2>3. \A q \in H : logs[q].block \in K BY <1>1, <1>2, <2>1 DEF HitBlocks, AuthorKey
  <2>4. \A b \in K : rows[AuthorKey(b)] \in H /\ logs[rows[AuthorKey(b)]].block = b BY <1>3, <2>2 DEF HitBlocks, AuthorKey
  <2>5. CASE H = {}
    <3>1. K = {} BY <2>4, <2>5
    <3> QED BY <2>5, <3>1 DEF H
  <2>6. CASE H # {}
    <3>1. K # {} BY <2>3, <2>6
    <3>2. Max(K) \in K /\ \A b \in K : b <= Max(K) BY <3>1, HitsMax
    <3>3. Max(H) \in H /\ \A q \in H : q <= Max(H)
      <4>1. H \in SUBSET Nat /\ Len(logs) \in Nat /\ \A q \in H : q <= Len(logs)
        BY <1>0, <1>1, <2>1, ChainFacts DEF Places
      <4> QED BY <2>6, <4>1, MaxIs
    <3> DEFINE m == Max(H)
               k == Max(K)
               r == rows[AuthorKey(k)]
    <3>4. r \in H /\ logs[r].block = k /\ r <= m BY <2>4, <3>2, <3>3
    <3>5. logs[m].block \in K /\ logs[m].block <= k BY <2>3, <3>2, <3>3
    <3> HIDE DEF m, k, r, K
    <3>6. m \in S /\ r \in S /\ m \in H BY <2>1, <3>3, <3>4 DEF m
    <3>7. m \in Nat /\ r \in Nat /\ m \in Places(logs) /\ r \in Places(logs) /\ logs[m].block \in Nat /\ logs[r].block \in Nat
      BY <1>1, <3>6
    <3>8. logs[r].block <= logs[m].block
      <4>1. CASE r = m BY <3>7, <4>1
      <4>2. CASE r # m
        <5>1. r < m BY <3>4, <3>7, <4>2
        <5> QED BY <1>0, <3>7, <5>1, ChainFacts
      <4> QED BY <4>1, <4>2
    <3>9. logs[m].block = k BY <3>4, <3>5, <3>7, <3>8
    <3>10. rows[AuthorKey(k)] = m BY <1>2, <3>6, <3>9
    <3>11. logs[rows[<<"authorized", Max(HitBlocks(a))>>]] = LastOf(H) BY <3>10 DEF AuthorKey, LastOf, k, K, m
    <3> QED BY <2>6, <3>1, <3>11 DEF H, K
  <2> QED BY <2>5, <2>6
<1> QED BY <1>4, AuthorisedAre

LEMMA ListingHolds == ASSUME CInv, Recorded, ~torn PROVE ListingMatches
<1> SUFFICES ASSUME replays = 0 \/ faults = 0, NEW p \in Proposals
             PROVE  /\ \A s \in Statuses : p \in GetProposals(s) => proposals[p].status = s
                    /\ Settles(ProposalLogs(p)) => p \in GetProposals(proposals[p].status)
  BY DEF ListingMatches
<1>0. /\ logs \in Chains /\ recorded \in Nat /\ reached \in Nat /\ reached <= recorded /\ position = FirstAfter(recorded)
  BY DEF CInv, Shape, Recorded
<1>1. ASSUME NEW s \in Statuses, p \in GetProposals(s) PROVE proposals[p].status = s
  <2>1. <<p, s>> \in listed BY <1>1 DEF GetProposals
  <2>2. CASE replays = 0 BY <2>1, <2>2 DEF CInv, Listing, ListedOnce
  <2>3. CASE faults = 0
    <3> SUFFICES ASSUME proposals[p].status # s PROVE FALSE OBVIOUS
    <3>1. PICK y \in DecisionLogs(logs, p) : y >= position /\ logs[y].block <= reached
      BY <2>1, <2>3 DEF CInv, Listing, ListedAhead
    <3>2. y \in Places(logs) /\ y \in Nat /\ logs[y].block \in Nat BY <1>0, SetsInside, ChainFacts
    <3>3. logs[y].block <= recorded BY <1>0, <3>1, <3>2
    <3>4. y < position /\ position \in Nat
      <4>1. recorded \in Int /\ logs \in Chains BY <1>0
      <4>2. \A q \in Places(logs) : q < FirstAfter(recorded) <=> logs[q].block <= recorded BY ONLY <4>1, FirstAfterIs
      <4>3. y < position BY <1>0, <3>2, <3>3, <4>2
      <4> QED BY <4>3 DEF CInv, Shape, AtBlock
    <3> QED BY <3>1, <3>2, <3>4
  <2> QED BY <2>2, <2>3
<1>2. ASSUME Settles(ProposalLogs(p)) PROVE p \in GetProposals(proposals[p].status)
  <2> DEFINE x == StatusOf(LastOf(ProposalLogs(p)))
             e == ClosedAt(LastOf(ProposalLogs(p)))
  <2>1. proposals[p] # Absent /\ proposals[p] = [status |-> x, executedAt |-> e] /\ <<p, x>> \in listed
    BY <1>2, SettledProposal
  <2> HIDE DEF x, e
  <2>2. proposals[p].status = x BY <2>1
  <2> QED BY <2>1, <2>2 DEF GetProposals
<1> QED BY <1>1, <1>2

\* What a query answers when the event bus is told.
LEMMA ToldIsVisible == ASSUME CInv, todo # <<>>, Head(todo).op = "publish" PROVE Visible(position)
<1> DEFINE l == logs[position]
<1>1. Finished(logs, l, position, reached, rows, minters, validators, blacklist, proposals, listed) BY TellIsLast DEF CInv
<1>2. position \in Places(logs) /\ logs \in Chains BY DEF CInv, Shape
<1>3. l.block \in 1..MaxBlock /\ l.block \in Nat BY <1>2, ChainFacts
<1>4. l.kind = "authorized" => l.account \in Accounts BY <1>2, Named DEF IsLog
<1> HIDE DEF l
<1>5. l.kind = "mint" => rows[<<"mint", l.block>>] = position
  BY <1>1 DEF Finished, RowWritten, KeyOf, MintEventKey, MemberKinds
<1>6. l.kind \in {"burn", "burnExecuted"} => rows[<<"burn", l.block>>] = position
  BY <1>1 DEF Finished, RowWritten, KeyOf, BurnEventKey, MemberKinds
<1>7. l.kind \in {"minterConfigured", "minterRemoved"} => minters[l.account] = AllowanceOf(l) BY <1>1 DEF Finished
<1>8. l.kind \in {"created", "status"} => proposals[l.proposal].status = StatusOf(l) /\ proposals[l.proposal] # Absent
                                          /\ <<l.proposal, StatusOf(l)>> \in listed /\ l.proposal \in Proposals
  BY <1>1, <1>2, StatusFacts DEF Finished, Decisions, StatusWritten, l
<1>9. ASSUME l.kind = "voted" PROVE position \in GetProposalVotes(l.proposal)
  <2>1. KeyOf(l) = <<"vote", l.proposal, l.account>> BY <1>9 DEF KeyOf, ProposalVoteKey, MemberKinds
  <2>2. KeyOf(l) \in DOMAIN rows /\ rows[KeyOf(l)] = position BY <1>1, <1>9 DEF Finished, RowWritten
  <2>3. KeyOf(l)[1] = "vote" /\ KeyOf(l)[2] = l.proposal BY <2>1
  <2> QED BY <2>2, <2>3 DEF GetProposalVotes
<1>10. l.kind \in MemberKinds /\ l.contract = "validator" => (l.account \in validators <=> l.kind # "memberRemoved")
  BY <1>1 DEF Finished, OnSeats
<1>11. l.kind \in {"blacklisted", "unblacklisted"} => (l.account \in blacklist <=> l.kind = "blacklisted")
  BY <1>1 DEF Finished
<1>12. ASSUME l.kind = "authorized", l.block = reached PROVE l.account \in GetAuthorizedAccounts
  <2>1. KeyOf(l) = <<"authorized", l.block>> BY <1>12 DEF KeyOf, AuthorizedAccountEventKey, MemberKinds
  <2>2. <<"authorized", l.block>> \in DOMAIN rows /\ rows[<<"authorized", l.block>>] = position
    BY <1>1, <1>12, <2>1 DEF Finished, RowWritten
  <2>3. l.block \in HitBlocks(l.account) BY <1>3, <2>2 DEF HitBlocks, l
  <2>4. Max(HitBlocks(l.account)) \in HitBlocks(l.account) /\ l.block <= Max(HitBlocks(l.account)) BY <2>3, HitsMax
  <2>5. \A b \in HitBlocks(l.account) : b <= reached /\ b \in Nat
    BY ChainsAssumption DEF HitBlocks, AuthorKey, CInv, Fresh, AuthorsFresh
  <2>6. Max(HitBlocks(l.account)) = l.block
    <3> DEFINE k == Max(HitBlocks(l.account))
    <3>1. k <= reached /\ k \in Nat /\ l.block <= k BY <2>4, <2>5
    <3> HIDE DEF k
    <3>2. k = l.block BY <1>3, <1>12, <3>1
    <3> QED BY <3>2 DEF k
  <2>7. logs[rows[<<"authorized", Max(HitBlocks(l.account))>>]].kind = "authorized" BY <1>12, <2>2, <2>6 DEF l
  <2> QED BY <1>4, <1>12, <2>3, <2>7, AuthorisedAre
<1> QED
  BY <1>5, <1>6, <1>7, <1>8, <1>9, <1>10, <1>11, <1>12 DEF Visible, GetProposals, AllowanceOf, MemberKinds, l

\* The indexes say what the events of the contracts say, for every chain of
\* logs, batch size and number of replays, restarts and failing writes
\* (system_contracts.go:112).
THEOREM ContractsStayIndexed == ContractsSpec => []ContractsIndexed
<1>1. CInv => ContractsIndexed
  <2>1. ASSUME CInv, Recorded, ~torn PROVE MatchesChain
    BY <2>1, AccountsMatch, ProposalsMatch, AuthorsMatch DEF MatchesChain
  <2> QED BY <2>1, ListingHolds DEF ContractsIndexed, IndexesMatchChain, ListedUnderOwnStatus
<1> QED BY <1>1, ContractsInitInv, CInvStep, PTL DEF ContractsSpec

\* Whoever is told of an event of the contracts finds it in the store, in a
\* first pass and in every replay (system_contracts.go:112).
THEOREM SubscribersFindEvents == ContractsSpec => []SubscribersSeeStored
<1>1. CInv => SubscribersSeeStored BY ToldIsVisible DEF SubscribersSeeStored
<1> QED BY <1>1, ContractsInitInv, CInvStep, PTL DEF ContractsSpec

-----------------------------------------------------------------------------
(* The sum over a set of logs, taken in the order CHOOSE gives.             *)

DeltaOf(c, q) == CASE c[q].kind = "mint" -> c[q].amount
                   [] c[q].kind \in {"burn", "burnExecuted"} -> -c[q].amount
                   [] OTHER -> 0
Pick(s) == CHOOSE x \in s : TRUE
Summing(c, g, D) == g = [s \in D |-> IF s = {} THEN 0 ELSE DeltaOf(c, Pick(s)) + g[s \ {Pick(s)}]]
Sums(c, S) == CHOOSE g : Summing(c, g, SUBSET S)
Total(c, S) == Sums(c, S)[S]

LEMMA MintedIs == ASSUME NEW S PROVE Minted(S) = Total(logs, S)
  BY DEF Minted, MapThenSumSet, MapThenFoldSet, Total, Sums, Summing, Pick, DeltaOf, Delta

\* The sums of the subsets with at most k elements.
Upto(S, k) == {s \in SUBSET S : Cardinality(s) <= k}

LEMMA Less ==
    ASSUME NEW S, IsFiniteSet(S), NEW s \in SUBSET S, NEW x \in s
    PROVE  /\ s \ {x} \in SUBSET S /\ IsFiniteSet(s)
           /\ Cardinality(s) \in Nat /\ Cardinality(s \ {x}) \in Nat
           /\ Cardinality(s \ {x}) = Cardinality(s) - 1 /\ Cardinality(s) > 0
<1>1. IsFiniteSet(s) BY FS_Subset
<1>2. Cardinality(s \ {x}) = Cardinality(s) - 1 /\ IsFiniteSet(s \ {x}) BY <1>1, FS_RemoveElement
<1>3. Cardinality(s) \in Nat /\ Cardinality(s \ {x}) \in Nat BY <1>1, <1>2, FS_CardinalityType
<1> QED BY <1>1, <1>2, <1>3

LEMMA Approximates ==
    ASSUME NEW c, NEW S, IsFiniteSet(S), NEW k \in Nat
    PROVE  \E g : Summing(c, g, Upto(S, k))
<1> DEFINE Bad == {n \in Nat : ~\E g : Summing(c, g, Upto(S, n))}
<1> SUFFICES ASSUME Bad # {} PROVE FALSE OBVIOUS
<1>1. PICK n \in Bad : \A m \in Bad : n <= m
  <2> HIDE DEF Bad
  <2>1. Bad \in SUBSET Nat BY DEF Bad
  <2> QED BY <2>1, Smallest
<1>2. n \in Nat /\ ~\E g : Summing(c, g, Upto(S, n)) BY <1>1
<1>3. CASE n = 0
  <2> DEFINE f == [s \in Upto(S, 0) |-> 0]
  <2>1. \A s \in Upto(S, 0) : s = {}
    <3> SUFFICES ASSUME NEW s \in Upto(S, 0), s # {} PROVE FALSE OBVIOUS
    <3>1. PICK x \in s : TRUE OBVIOUS
    <3>2. s \in SUBSET S /\ Cardinality(s) <= 0 BY DEF Upto
    <3>3. Cardinality(s) \in Nat /\ Cardinality(s) > 0 BY <3>1, <3>2, Less
    <3> QED BY <3>2, <3>3
  <2>2. Summing(c, f, Upto(S, 0))
    <3> HIDE DEF f
    <3>1. f = [s \in Upto(S, 0) |-> 0] BY DEF f
    <3> QED BY <2>1, <3>1 DEF Summing
  <2> QED BY <1>2, <1>3, <2>2
<1>4. CASE n # 0
  <2>1. n - 1 \in Nat /\ n - 1 \notin Bad
    <3>1. n - 1 \in Nat BY <1>2, <1>4
    <3> QED BY <1>1, <1>2, <3>1
  <2>2. PICK g : Summing(c, g, Upto(S, n - 1)) BY <2>1
  <2> DEFINE D == Upto(S, n)
             f == [s \in D |-> IF s = {} THEN 0 ELSE DeltaOf(c, Pick(s)) + g[s \ {Pick(s)}]]
  <2> HIDE DEF D
  <2>3. ASSUME NEW s \in D, s # {} PROVE s \ {Pick(s)} \in Upto(S, n - 1) /\ s \ {Pick(s)} \in D
    <3>1. Pick(s) \in s BY <2>3 DEF Pick
    <3>2. s \in SUBSET S /\ Cardinality(s) <= n BY DEF Upto, D
    <3>3. s \ {Pick(s)} \in SUBSET S /\ Cardinality(s) \in Nat /\ Cardinality(s \ {Pick(s)}) = Cardinality(s) - 1
      BY <3>1, <3>2, Less
    <3>4. Cardinality(s \ {Pick(s)}) <= n - 1 /\ Cardinality(s \ {Pick(s)}) <= n BY <1>2, <3>2, <3>3
    <3> QED BY <3>3, <3>4 DEF Upto, D
  <2>4. ASSUME NEW t \in Upto(S, n - 1), t \in D PROVE f[t] = g[t]
    <3>1. g[t] = IF t = {} THEN 0 ELSE DeltaOf(c, Pick(t)) + g[t \ {Pick(t)}] BY <2>2 DEF Summing
    <3> QED BY <2>4, <3>1
  <2>5. Summing(c, f, D)
    <3>1. ASSUME NEW s \in D, s # {} PROVE f[s \ {Pick(s)}] = g[s \ {Pick(s)}]
      <4> HIDE DEF f
      <4> QED BY <2>3, <2>4, <3>1
    <3>2. f = [s \in D |-> IF s = {} THEN 0 ELSE DeltaOf(c, Pick(s)) + g[s \ {Pick(s)}]] OBVIOUS
    <3> HIDE DEF f
    <3>3. [s \in D |-> IF s = {} THEN 0 ELSE DeltaOf(c, Pick(s)) + g[s \ {Pick(s)}]]
          = [s \in D |-> IF s = {} THEN 0 ELSE DeltaOf(c, Pick(s)) + f[s \ {Pick(s)}]] BY <3>1
    <3> QED BY <3>2, <3>3 DEF Summing
  <2> QED BY <1>2, <2>5 DEF D
<1> QED BY <1>3, <1>4

\* The sums of the subsets are what they should be.
LEMMA SumsAre == ASSUME NEW c, NEW S, IsFiniteSet(S) PROVE Summing(c, Sums(c, S), SUBSET S)
<1>1. Cardinality(S) \in Nat BY FS_CardinalityType
<1>2. Upto(S, Cardinality(S)) = SUBSET S
  <2>1. ASSUME NEW s \in SUBSET S PROVE Cardinality(s) <= Cardinality(S) BY FS_Subset
  <2> QED BY <2>1 DEF Upto
<1>3. \E g : Summing(c, g, Upto(S, Cardinality(S))) BY <1>1, Approximates
<1>4. PICK g : Summing(c, g, SUBSET S) BY <1>2, <1>3
<1> QED BY <1>4 DEF Sums

LEMMA SumOfNone == ASSUME NEW c, NEW S, IsFiniteSet(S) PROVE Sums(c, S)[{}] = 0
<1>1. Summing(c, Sums(c, S), SUBSET S) BY SumsAre
<1>2. {} \in SUBSET S OBVIOUS
<1> QED BY <1>1, <1>2 DEF Summing

LEMMA SumOf ==
    ASSUME NEW c, NEW S, IsFiniteSet(S), NEW s \in SUBSET S, s # {}
    PROVE  Pick(s) \in s /\ Sums(c, S)[s] = DeltaOf(c, Pick(s)) + Sums(c, S)[s \ {Pick(s)}]
<1>1. Summing(c, Sums(c, S), SUBSET S) BY SumsAre
<1>2. Sums(c, S)[s] = DeltaOf(c, Pick(s)) + Sums(c, S)[s \ {Pick(s)}] BY <1>1 DEF Summing
<1>3. Pick(s) \in s BY DEF Pick
<1> QED BY <1>2, <1>3

\* A set of subsets has one with the fewest elements.
LEMMA Fewest ==
    ASSUME NEW S, IsFiniteSet(S), NEW W \in SUBSET SUBSET S, W # {}
    PROVE  \E s \in W : \A x \in s : s \ {x} \notin W
<1> DEFINE N == {Cardinality(s) : s \in W}
<1>1. N \in SUBSET Nat /\ N # {}
  <2>1. ASSUME NEW s \in W PROVE Cardinality(s) \in Nat BY FS_Subset, FS_CardinalityType
  <2> QED BY <2>1
<1>2. PICK m \in N : \A n \in N : m <= n
  <2> HIDE DEF N
  <2> QED BY <1>1, Smallest
<1>3. PICK s \in W : Cardinality(s) = m BY <1>2
<1>4. ASSUME NEW x \in s, s \ {x} \in W PROVE FALSE
  <2>1. Cardinality(s \ {x}) = Cardinality(s) - 1 /\ Cardinality(s) \in Nat BY Less
  <2>2. m <= Cardinality(s \ {x}) BY <1>2, <1>4
  <2> QED BY <1>3, <2>1, <2>2
<1> QED BY <1>3, <1>4

LEMMA SumsAreNumbers ==
    ASSUME NEW c, NEW S, IsFiniteSet(S), \A q \in S : DeltaOf(c, q) \in Int, NEW s \in SUBSET S
    PROVE  Sums(c, S)[s] \in Int
<1> DEFINE W == {t \in SUBSET S : Sums(c, S)[t] \notin Int}
<1> SUFFICES ASSUME W # {} PROVE FALSE OBVIOUS
<1>1. PICK t \in W : \A x \in t : t \ {x} \notin W
  <2> HIDE DEF W
  <2>1. W \in SUBSET SUBSET S BY DEF W
  <2> QED BY <2>1, Fewest
<1>2. t \in SUBSET S /\ Sums(c, S)[t] \notin Int BY <1>1
<1>3. t # {} BY <1>2, SumOfNone
<1>4. Pick(t) \in t /\ Sums(c, S)[t] = DeltaOf(c, Pick(t)) + Sums(c, S)[t \ {Pick(t)}]
  <2>1. t \in SUBSET S BY <1>2
  <2> QED BY ONLY <1>3, <2>1, SumOf, IsFiniteSet(S)
<1>5. Sums(c, S)[t \ {Pick(t)}] \in Int BY <1>1, <1>2, <1>4
<1> QED BY <1>2, <1>4, <1>5

\* It does not matter of which larger set they are taken.
LEMMA SumsAgree ==
    ASSUME NEW c, NEW S, IsFiniteSet(S), NEW T \in SUBSET S, NEW s \in SUBSET T
    PROVE  Sums(c, T)[s] = Sums(c, S)[s]
<1> DEFINE W == {t \in SUBSET T : Sums(c, T)[t] # Sums(c, S)[t]}
<1> SUFFICES ASSUME W # {} PROVE FALSE OBVIOUS
<1>0. IsFiniteSet(T) BY FS_Subset
<1>1. PICK t \in W : \A x \in t : t \ {x} \notin W
  <2> HIDE DEF W
  <2>1. W \in SUBSET SUBSET T BY DEF W
  <2> QED BY <1>0, <2>1, Fewest
<1>2. t \in SUBSET T /\ t \in SUBSET S /\ Sums(c, T)[t] # Sums(c, S)[t] BY <1>1
<1>3. t # {} BY <1>0, <1>2, SumOfNone
<1>4. /\ Pick(t) \in t
      /\ Sums(c, T)[t] = DeltaOf(c, Pick(t)) + Sums(c, T)[t \ {Pick(t)}]
      /\ Sums(c, S)[t] = DeltaOf(c, Pick(t)) + Sums(c, S)[t \ {Pick(t)}] BY <1>0, <1>2, <1>3, SumOf
<1>5. Sums(c, T)[t \ {Pick(t)}] = Sums(c, S)[t \ {Pick(t)}] BY <1>1, <1>2, <1>4
<1> QED BY <1>2, <1>4, <1>5

\* Nor in which order they are added up.
LEMMA SumWithout ==
    ASSUME NEW c, NEW S, IsFiniteSet(S), \A q \in S : DeltaOf(c, q) \in Int, NEW s \in SUBSET S, NEW x \in s
    PROVE  Sums(c, S)[s] = DeltaOf(c, x) + Sums(c, S)[s \ {x}]
<1> DEFINE Breaks(t) == \E y \in t : Sums(c, S)[t] # DeltaOf(c, y) + Sums(c, S)[t \ {y}]
           W == {t \in SUBSET S : Breaks(t)}
<1> SUFFICES ASSUME W # {} PROVE FALSE OBVIOUS
<1>1. PICK t \in W : \A y \in t : t \ {y} \notin W
  <2> HIDE DEF W
  <2>1. W \in SUBSET SUBSET S BY DEF W
  <2> QED BY <2>1, Fewest
<1>2. PICK y \in t : Sums(c, S)[t] # DeltaOf(c, y) + Sums(c, S)[t \ {y}] BY <1>1
<1>3. t \in SUBSET S /\ t # {} BY <1>1, <1>2
<1> DEFINE p == Pick(t)
<1>4. p \in t /\ Sums(c, S)[t] = DeltaOf(c, p) + Sums(c, S)[t \ {p}]
  <2>1. Pick(t) \in t /\ Sums(c, S)[t] = DeltaOf(c, Pick(t)) + Sums(c, S)[t \ {Pick(t)}]
    BY ONLY <1>3, SumOf, IsFiniteSet(S)
  <2> QED BY <2>1
<1> HIDE DEF p
<1>5. p # y BY <1>2, <1>4
<1>6. ~Breaks(t \ {p}) /\ ~Breaks(t \ {y}) BY <1>1, <1>2, <1>3, <1>4
<1>7. Sums(c, S)[t \ {p}] = DeltaOf(c, y) + Sums(c, S)[(t \ {p}) \ {y}] BY <1>2, <1>5, <1>6
<1>8. Sums(c, S)[t \ {y}] = DeltaOf(c, p) + Sums(c, S)[(t \ {y}) \ {p}] BY <1>4, <1>5, <1>6
<1>9. (t \ {p}) \ {y} = (t \ {y}) \ {p} /\ (t \ {p}) \ {y} \in SUBSET S BY <1>3
<1>10. DeltaOf(c, p) \in Int /\ DeltaOf(c, y) \in Int /\ Sums(c, S)[(t \ {p}) \ {y}] \in Int
  BY <1>2, <1>3, <1>4, <1>9, SumsAreNumbers
<1> DEFINE u == Sums(c, S)[(t \ {p}) \ {y}]
           d == DeltaOf(c, p)
           e == DeltaOf(c, y)
<1>11. Sums(c, S)[t] = d + (e + u) /\ Sums(c, S)[t] # e + (d + u) BY <1>2, <1>4, <1>7, <1>8, <1>9
<1>12. d \in Int /\ e \in Int /\ u \in Int BY <1>10
<1> HIDE DEF u, d, e, W
<1> QED BY <1>11, <1>12

-----------------------------------------------------------------------------
(* The total supply.                                                        *)

CoinKinds == {"mint", "burn", "burnExecuted"}

LEMMA DeltaIsNumber ==
    ASSUME NEW c \in Chains, NEW q \in Places(c)
    PROVE  DeltaOf(c, q) \in Int /\ (c[q].kind \notin CoinKinds => DeltaOf(c, q) = 0)
<1>1. IsLog(c[q]) BY ChainsAssumption DEF Places
<1>2. c[q].kind \in CoinKinds => c[q].amount \in Nat BY <1>1 DEF IsLog, CoinKinds
<1> QED BY <1>2 DEF DeltaOf, CoinKinds

\* What the first n logs mint, one log at a time.
LEMMA TotalNext ==
    ASSUME NEW c \in Chains
    PROVE  /\ Total(c, 1..0) = 0
           /\ \A n \in Places(c) : Total(c, 1..n) = Total(c, 1..(n - 1)) + DeltaOf(c, n)
           /\ \A n \in 0..Len(c) : Total(c, 1..n) \in Int
<1> DEFINE S == Places(c)
<1>0. Len(c) \in Nat BY ChainsAssumption
<1>1. IsFiniteSet(S) BY <1>0, FS_Interval DEF Places
<1>2. \A q \in S : DeltaOf(c, q) \in Int BY DeltaIsNumber
<1>3. \A n \in 0..Len(c) : 1..n \in SUBSET S BY <1>0 DEF Places
<1> HIDE DEF S
<1>4. ASSUME NEW n \in 0..Len(c) PROVE Total(c, 1..n) = Sums(c, S)[1..n]
  <2>1. 1..n \in SUBSET S BY <1>3
  <2>2. Sums(c, 1..n)[1..n] = Sums(c, S)[1..n] BY <1>1, <2>1, SumsAgree
  <2> QED BY <2>2 DEF Total
<1>5. Total(c, 1..0) = 0
  <2>1. 1..0 = {} OBVIOUS
  <2>2. 0 \in 0..Len(c) BY <1>0
  <2>3. Sums(c, S)[{}] = 0 BY <1>1, SumOfNone
  <2> QED BY <1>4, <2>1, <2>2, <2>3
<1>6. ASSUME NEW n \in Places(c) PROVE Total(c, 1..n) = Total(c, 1..(n - 1)) + DeltaOf(c, n)
  <2> DEFINE A == 1..n
             B == 1..(n - 1)
             d == DeltaOf(c, n)
             u == Sums(c, S)[B]
  <2>1. n \in A /\ A \ {n} = B BY <1>0 DEF Places
  <2>2. n \in 0..Len(c) /\ n - 1 \in 0..Len(c) BY <1>0 DEF Places
  <2>3. A \in SUBSET S /\ B \in SUBSET S BY <1>3, <2>2
  <2>4. Total(c, A) = Sums(c, S)[A] /\ Total(c, B) = u BY <1>4, <2>2
  <2> HIDE DEF A, B
  <2>5. Sums(c, S)[A] = DeltaOf(c, n) + Sums(c, S)[A \ {n}] BY ONLY <1>1, <1>2, <2>1, <2>3, SumWithout
  <2>6. u \in Int /\ d \in Int BY <1>1, <1>2, <2>1, <2>3, SumsAreNumbers
  <2>7. Sums(c, S)[A] = d + u BY <2>1, <2>5
  <2> HIDE DEF u, d
  <2>8. Total(c, A) = Total(c, B) + d BY <2>4, <2>6, <2>7
  <2> QED BY <2>8 DEF A, B, d
<1>7. ASSUME NEW n \in 0..Len(c) PROVE Total(c, 1..n) \in Int
  <2>1. 1..n \in SUBSET S BY <1>3
  <2>2. Sums(c, S)[1..n] \in Int BY <1>1, <1>2, <2>1, SumsAreNumbers
  <2> QED BY <1>4, <2>2
<1> QED BY <1>5, <1>6, <1>7

\* The supply counts the logs before the one in hand, and that one as soon as
\* nothing is left but to tell of it.  A log that failed lies behind.
Counted(c, sup, pos, s) == sup = Total(c, 1..(pos - 1)) + IF s = <<Tell>> THEN DeltaOf(c, pos) ELSE 0
CoveredBy(c) == \A n \in Places(c) : Total(c, 1..n) >= 0

Counting ==
    replays = 0 => /\ \A x \in failed : x \in Nat /\ x < position
                   /\ failed = {} /\ CoveredBy(logs) => Counted(logs, supply, position, todo)

LEMMA CoinWrite ==
    ASSUME NEW l, l.kind \in CoinKinds
    PROVE  /\ WriteOf(l).op = "supply"
           /\ WriteOf(l).delta = IF l.kind = "mint" THEN l.amount ELSE -l.amount
           /\ parseAndIndexLog(l) = <<Row(KeyOf(l)), WriteOf(l), Tell>>
<1>1. CASE l.kind = "mint" BY <1>1, WriteFields DEF parseAndIndexLog, MemberKinds, KeyOf, WriteOf, parseMintEvent
<1>2. CASE l.kind = "burn" BY <1>2, WriteFields DEF parseAndIndexLog, MemberKinds, KeyOf, WriteOf, parseBurnEvent
<1>3. CASE l.kind = "burnExecuted" BY <1>3, WriteFields DEF parseAndIndexLog, MemberKinds, KeyOf, WriteOf, parseBurnExecutedEvent
<1> QED BY <1>1, <1>2, <1>3 DEF CoinKinds

\* What may be left of the handler of a mint or a burn.
LEMMA CoinLeft ==
    ASSUME CInv, todo # <<>>, logs[position].kind \in CoinKinds
    PROVE  \/ todo = <<Tell>>
           \/ todo = <<Row(KeyOf(logs[position])), WriteOf(logs[position]), Tell>>
           \/ todo = <<WriteOf(logs[position]), Tell>>
BY DEF CInv, InHand, Handling, LeftTell, LeftRow, LeftRowWrite, LeftWrite, LeftRowSwap, LeftSwap, LeftSeat, LeftChange,
      LeftCreate, LeftMove, LeftPut, LeftList, Swaps, CoinKinds, RowKinds, MemberKinds, Decisions

LEMMA CountingBegins == ContractsInit => Counting
<1> SUFFICES ASSUME ContractsInit PROVE Counting OBVIOUS
<1>1. logs \in Chains /\ position = 1 /\ todo = <<>> /\ supply = 0 /\ failed = {} BY DEF ContractsInit
<1>2. Total(logs, 1..0) = 0 BY <1>1, TotalNext
<1>3. <<>> # <<Tell>> OBVIOUS
<1>4. position - 1 = 0 BY <1>1
<1>5. Counted(logs, supply, position, todo) BY <1>1, <1>2, <1>3, <1>4 DEF Counted
<1> QED BY <1>1, <1>5 DEF Counting

\* The supply once the log at q is counted.
LEMMA CountedPast ==
    ASSUME NEW c \in Chains, NEW q \in Places(c), NEW sup, sup = Total(c, 1..(q - 1)) + DeltaOf(c, q)
    PROVE  sup = Total(c, 1..q) /\ Counted(c, sup, q + 1, <<>>)
<1>1. sup = Total(c, 1..q) BY TotalNext
<1>2. q \in Nat /\ Len(c) \in Nat /\ q \in 0..Len(c) BY ChainFacts DEF Places
<1>3. Total(c, 1..q) \in Int BY <1>2, TotalNext
<1>4. (q + 1) - 1 = q BY <1>2
<1>5. <<>> # <<Tell>> OBVIOUS
<1> QED BY <1>1, <1>3, <1>4, <1>5 DEF Counted

LEMMA CountingParse == ASSUME CInv, Counting, ParseLog PROVE Counting'
<1>0. /\ position \in Places(logs) /\ logs \in Chains /\ position \in Nat /\ todo = <<>>
  BY ChainFacts DEF AtLog, ParseLog, LogsOf, Positions, Places, CInv, Shape
<1>1. /\ logs' = logs /\ supply' = supply /\ replays' = replays
      /\ todo' = parseAndIndexLog(logs[position])
      /\ position' = IF todo' = <<>> THEN position + 1 ELSE position
      /\ failed' = IF todo' = <<>> THEN failed \ {position} ELSE failed
  BY DEF ParseLog, indexes
<1> SUFFICES ASSUME replays' = 0
             PROVE  /\ \A x \in failed' : x \in Nat /\ x < position'
                    /\ failed' = {} /\ CoveredBy(logs') => Counted(logs', supply', position', todo')
  BY DEF Counting
<1>2. replays = 0 /\ \A x \in failed : x \in Nat /\ x < position BY <1>1 DEF Counting
<1>3. ASSUME NEW x \in failed' PROVE x \in Nat /\ x < position'
  <2>1. x \in Nat /\ x < position BY <1>1, <1>2, <1>3
  <2>2. position' = position \/ position' = position + 1 BY <1>1
  <2> QED BY <1>0, <2>1, <2>2
<1>4. ASSUME failed' = {}, CoveredBy(logs') PROVE Counted(logs', supply', position', todo')
  <2>1. position \notin failed BY <1>0, <1>2
  <2>2. failed = {} BY <1>1, <1>4, <2>1
  <2>3. Counted(logs, supply, position, todo) BY <1>1, <1>2, <1>4, <2>2 DEF Counting
  <2>4. Total(logs, 1..(position - 1)) \in Int
    <3>1. position - 1 \in 0..Len(logs) BY <1>0, ChainFacts DEF Places
    <3> QED BY <1>0, <3>1, TotalNext
  <2>5. <<>> # <<Tell>> OBVIOUS
  <2>6. supply = Total(logs, 1..(position - 1)) BY <1>0, <2>3, <2>4, <2>5 DEF Counted
  <2>7. CASE logs[position].kind \in CoinKinds
    <3>1. todo' = <<Row(KeyOf(logs[position])), WriteOf(logs[position]), Tell>> BY <1>1, <2>7, CoinWrite
    <3>2. todo' # <<>> /\ todo' # <<Tell>> BY <3>1
    <3> QED BY <1>1, <2>4, <2>6, <3>2 DEF Counted
  <2>8. CASE logs[position].kind \notin CoinKinds
    <3>1. DeltaOf(logs, position) = 0 BY <1>0, <2>8, DeltaIsNumber
    <3>2. CASE todo' = <<>>
      <4>1. supply = Total(logs, 1..(position - 1)) + DeltaOf(logs, position) BY <2>4, <2>6, <3>1
      <4> QED BY <1>0, <1>1, <3>2, <4>1, CountedPast
    <3>3. CASE todo' # <<>> BY <1>1, <2>4, <2>6, <3>1, <3>3 DEF Counted
    <3> QED BY <3>2, <3>3
  <2> QED BY <2>7, <2>8
<1> QED BY <1>3, <1>4

LEMMA CountingTell == ASSUME CInv, Counting, publishEvent PROVE Counting'
<1>0. /\ position \in Places(logs) /\ logs \in Chains /\ position \in Nat /\ todo = <<Tell>> /\ todo' = <<>>
  BY TellIsLast, ChainFacts DEF publishEvent, Doing, CInv, Shape
<1>1. /\ logs' = logs /\ supply' = supply /\ replays' = replays /\ position' = position + 1 /\ failed' = failed \ {position}
  BY DEF publishEvent, Doing, indexes
<1> SUFFICES ASSUME replays' = 0
             PROVE  /\ \A x \in failed' : x \in Nat /\ x < position'
                    /\ failed' = {} /\ CoveredBy(logs') => Counted(logs', supply', position', todo')
  BY DEF Counting
<1>2. replays = 0 /\ \A x \in failed : x \in Nat /\ x < position BY <1>1 DEF Counting
<1>3. ASSUME NEW x \in failed' PROVE x \in Nat /\ x < position'
  <2>1. x \in Nat /\ x < position BY <1>1, <1>2, <1>3
  <2> QED BY <1>0, <1>1, <2>1
<1>4. ASSUME failed' = {}, CoveredBy(logs') PROVE Counted(logs', supply', position', todo')
  <2>1. position \notin failed BY <1>0, <1>2
  <2>2. failed = {} BY <1>1, <1>4, <2>1
  <2>3. Counted(logs, supply, position, todo) BY <1>1, <1>2, <1>4, <2>2 DEF Counting
  <2>4. supply = Total(logs, 1..(position - 1)) + DeltaOf(logs, position) BY <1>0, <2>3 DEF Counted
  <2> QED BY <1>0, <1>1, <2>4, CountedPast
<1> QED BY <1>3, <1>4

LEMMA CountingWrite == ASSUME CInv, Counting, HandlerWrites PROVE Counting'
<1> DEFINE l == logs[position]
<1>0. /\ position \in Places(logs) /\ logs \in Chains /\ position \in Nat /\ todo # <<>>
  BY WriteFrame, ChainFacts DEF CInv, Shape
<1>1. /\ logs' = logs /\ replays' = replays /\ position' = position /\ failed' = failed /\ todo' = Tail(todo)
  BY WriteFrame
<1>2. /\ Head(todo).op # "publish"
      /\ Head(todo).op = "supply" => supply' = EncodeBigInt(supply + Head(todo).delta)
      /\ Head(todo).op # "supply" => supply' = supply
  BY DEF HandlerWrites, StoreEvent, UpdateTotalSupply, UpdateActiveMinter, UpdateActiveValidator, UpdateBlacklistStatus,
         SetProposalRow, DeleteStatusIndex, SetStatusIndex, Doing
<1> SUFFICES ASSUME replays' = 0, failed' = {}, CoveredBy(logs') PROVE Counted(logs', supply', position', todo')
  BY <1>1 DEF Counting
<1>3. Counted(logs, supply, position, todo) /\ CoveredBy(logs) BY <1>1 DEF Counting
<1> DEFINE n == Total(logs, 1..(position - 1))
           d == DeltaOf(logs, position)
<1>4. n \in Int /\ d \in Int /\ n + d >= 0
  <2>1. position - 1 \in 0..Len(logs) BY <1>0, ChainFacts DEF Places
  <2>2. n \in Int /\ d \in Int BY <1>0, <2>1, TotalNext, DeltaIsNumber
  <2>3. Total(logs, 1..position) = n + d /\ Total(logs, 1..position) >= 0 BY <1>0, <1>3, TotalNext DEF CoveredBy
  <2> QED BY <2>2, <2>3
<1>5. todo # <<Tell>>
  <2>1. Head(<<Tell>>).op = "publish" BY WriteFields
  <2> QED BY <1>2, <2>1
<1>6. supply = n BY <1>3, <1>4, <1>5 DEF Counted
<1> SUFFICES supply' = n + IF todo' = <<Tell>> THEN d ELSE 0 BY <1>1 DEF Counted
<1>7. CASE l.kind \notin CoinKinds
  <2>1. d = 0 BY <1>0, <1>7, DeltaIsNumber
  <2>2. Head(todo).op # "supply"
    <3> SUFFICES ASSUME Head(todo).op = "supply" PROVE FALSE OBVIOUS
    <3>1. LeftWrite(l, position, todo, rows) BY <1>0, HeadTells DEF CInv, InHand
    <3>2. Head(todo) = WriteOf(l) /\ WritesOne(l) BY <3>1 DEF LeftWrite
    <3> QED BY <1>7, <3>2, WriteOfOp DEF WritesOne, CoinKinds
  <2> HIDE DEF n, d
  <2> QED BY <1>2, <1>4, <1>6, <2>1, <2>2
<1>8. CASE l.kind \in CoinKinds
  <2>1. CASE todo = <<Row(KeyOf(l)), WriteOf(l), Tell>>
    <3>1. Head(todo).op = "row" /\ todo' = <<WriteOf(l), Tell>> BY <1>1, <2>1, WriteFields
    <3>2. todo' # <<Tell>> BY <3>1
    <3> HIDE DEF n, d
    <3> QED BY <1>2, <1>4, <1>6, <3>1, <3>2
  <2>2. CASE todo = <<WriteOf(l), Tell>>
    <3>1. Head(todo) = WriteOf(l) /\ todo' = <<Tell>> BY <1>1, <2>2
    <3>2. WriteOf(l).op = "supply" /\ WriteOf(l).delta = IF l.kind = "mint" THEN l.amount ELSE -l.amount BY <1>8, CoinWrite
    <3>3. d = IF l.kind = "mint" THEN l.amount ELSE -l.amount BY <1>8 DEF DeltaOf, CoinKinds
    <3>4. supply' = EncodeBigInt(n + d) BY <1>2, <1>6, <3>1, <3>2, <3>3
    <3> HIDE DEF n, d
    <3>5. supply' = n + d BY <1>4, <3>4 DEF EncodeBigInt
    <3> QED BY <3>1, <3>5
  <2> QED BY <1>0, <1>5, <1>8, <2>1, <2>2, CoinLeft
<1> QED BY <1>7, <1>8

LEMMA CountingStep == CInv /\ Counting /\ [ContractsNext]_contractVars => Counting'
<1> SUFFICES ASSUME CInv, Counting, [ContractsNext]_contractVars PROVE Counting' OBVIOUS
<1>0. position \in Nat /\ replays \in Nat BY ChainFacts DEF CInv, Shape, AtBlock
<1>1. CASE ParseLog BY <1>1, CountingParse
<1>2. CASE publishEvent BY <1>2, CountingTell
<1>3. CASE HandlerWrites BY <1>3, CountingWrite
<1>4. CASE RejectLog \/ WriteFails
  <2>1. replays' = replays /\ failed' = failed \cup {position} /\ position' = position + 1
    BY <1>4 DEF RejectLog, WriteFails
  <2>2. ASSUME replays' = 0, NEW x \in failed' PROVE x \in Nat /\ x < position'
    <3>1. x \in Nat /\ (x < position \/ x = position) BY <1>0, <2>1, <2>2 DEF Counting
    <3> QED BY <1>0, <2>1, <3>1
  <2>3. failed' # {} BY <2>1
  <2> QED BY <2>2, <2>3 DEF Counting
<1>5. CASE BatchFails \/ Restart
  <2>1. replays' = replays + 1 BY <1>5 DEF BatchFails, Restart
  <2> QED BY <1>0, <2>1 DEF Counting
<1>6. CASE RecordBlock \/ UNCHANGED contractVars
  <2>1. UNCHANGED <<logs, supply, position, todo, failed, replays>> BY <1>6 DEF RecordBlock, contractVars, indexes
  <2> QED BY <2>1 DEF Counting
<1> QED BY <1>1, <1>2, <1>3, <1>4, <1>5, <1>6 DEF ContractsNext, HandlerWrites, WaitForBlock

LEMMA CountingGives == ASSUME CInv, Counting PROVE SupplyExact
<1> SUFFICES ASSUME Recorded, replays = 0, failed = {}, Covered PROVE supply = Minted(Indexed)
  BY DEF SupplyExact, SupplyMatches
<1>0. /\ logs \in Chains /\ recorded \in Nat /\ todo = <<>> /\ position = FirstAfter(recorded) /\ Len(logs) \in Nat
  BY ChainFacts DEF CInv, Shape, Recorded
<1>1. position \in 1..(Len(logs) + 1) /\ \A q \in Places(logs) : q < position <=> logs[q].block <= recorded
  BY <1>0, FirstAfterIs
<1>2. Indexed = 1..(position - 1)
  <2>1. ASSUME NEW q PROVE q \in Indexed <=> q \in 1..(position - 1)
    <3>1. q \in Indexed <=> q \in Places(logs) /\ q < position BY <1>1 DEF Indexed, Positions, Places
    <3> QED BY <1>0, <1>1, <3>1 DEF Places
  <2> QED BY <2>1
<1>3. CoveredBy(logs) BY MintedIs DEF Covered, CoveredBy, Positions, Places
<1>4. Counted(logs, supply, position, todo) BY <1>3 DEF Counting
<1>5. Total(logs, 1..(position - 1)) \in Int
  <2>1. position - 1 \in 0..Len(logs) BY <1>0, <1>1
  <2> QED BY <1>0, <2>1, TotalNext
<1>6. <<>> # <<Tell>> OBVIOUS
<1>7. supply = Total(logs, 1..(position - 1)) BY <1>0, <1>4, <1>5, <1>6 DEF Counted
<1> QED BY <1>2, <1>7, MintedIs

\* In a first pass without a failing write every mint and every burn counts
\* exactly once, whatever their number and order (system_contracts.go:252).
THEOREM SupplyStaysExact == ContractsSpec => []SupplyExact
<1>1. ContractsInit => CInv /\ Counting BY ContractsInitInv, CountingBegins
<1>2. CInv /\ Counting /\ [ContractsNext]_contractVars => (CInv /\ Counting)' BY CInvStep, CountingStep
<1>3. CInv /\ Counting => SupplyExact BY CountingGives
<1> QED BY <1>1, <1>2, <1>3, PTL DEF ContractsSpec
=============================================================================
