------------------------------- MODULE MCStore -------------------------------
(***************************************************************************)
(* What the storage holds and answers.  Each behaviour is about one part:   *)
(*   ledger     counter, address index and balances (Ledger)                *)
(*   nfts, ops  address indexes, over two chains (AddressIndexing)          *)
(*   metadata   token metadata (TokenMetadata)                              *)
(*   holders    token holders (TokenHolders)                                *)
(*   consensus  sealed headers (Consensus)                                  *)
(*   lists      a walk over the pages of a list (Lists)                     *)
(*   keys       key schema, scans and the log query (Keys)                  *)
(***************************************************************************)
EXTENDS MCLedger, Keys, Tokens, MCInputs

VARIABLES
    part,
    indexes, blocks, ixLatest, ixNext, inHand, phase, jobs, queue, reg, ixFailed, ixFaults,
    done, open, stale, clean, once,
    headers, head, height, stage, extra, epochs, latestEpoch, activity, prepareIndex,
    commitIndex, told, failures, complete, asked, answer,
    list, walk, additions, removed

Nfts == INSTANCE AddressIndexing WITH
    db <- indexes, block <- inHand, latest <- ixLatest, next <- ixNext, failed <- ixFailed, faults <- ixFaults,
    Chain <- <<Nfts1, Nfts2>>, Workers <- {"w1", "w2"}, ReceiptBatch <- 1, Zero <- "0",
    Starts <- {1, 2}, MaxFaults <- 1
Ops == INSTANCE AddressIndexing WITH
    db <- indexes, block <- inHand, latest <- ixLatest, next <- ixNext, failed <- ixFailed, faults <- ixFaults,
    Chain <- <<Ops1, Ops2>>, Workers <- {"w1", "w2"}, ReceiptBatch <- 1, Zero <- "0",
    Starts <- {1, 2}, MaxFaults <- 1
Seals == INSTANCE Consensus WITH
    rows <- headers, published <- told,
    Headers <- SealedHeaders, EpochLength <- 2, ActivityLimit <- 3, StartHeights <- {0, 1, 3},
    MaxFailures <- 1
Walk == INSTANCE Lists WITH
    writes <- additions, DefaultLimit <- 1, MaxLimit <- 2, ExtendedLimit <- 3, Endpoints <- WalkedLists,
    Limits <- {1, 2, 3}, MaxWrites <- 2

ledgerVars == <<pc, h, n, target, first, latest, rows, txCount, countKey, addrSeq, txIndex,
                history, balance, feeMeta, interrupts, restarts, exact>>
ixVars == <<indexes, blocks, ixLatest, ixNext, inHand, phase, jobs, queue, reg, ixFailed, ixFaults,
            done, open, stale, clean, once>>
wbftVars == <<headers, head, height, stage, extra, epochs, latestEpoch, activity, prepareIndex,
              commitIndex, told, failures, complete, asked, answer>>
listVars == <<list, walk, additions, removed>>

\* What the theorems about balances and holders suppose of the chain.
ASSUME MCStoreAssumption == PlainTransfers /\ Covered

\* A part that makes a choice at the start makes it in its own behaviours.
MCInit ==
    /\ part \in {"ledger", "nfts", "ops", "metadata", "holders", "consensus", "lists", "keys"}
    /\ Init /\ MetadataInit /\ HoldersInit /\ KeysInit
    /\ Nfts!Init /\ (part \notin {"nfts", "ops"} => ixNext = 1)
    /\ Seals!Init /\ (part # "consensus" => head = -1)
    /\ Walk!Init /\ (part # "lists" => list = <<>> /\ walk.endpoint = "blocks" /\ walk.limit = 1)

MCNext ==
    /\ \/ /\ part = "ledger" /\ Next
          /\ UNCHANGED <<ixVars, metaVars, holderVars, wbftVars, listVars, keyVars>>
       \/ /\ (part = "nfts" /\ Nfts!Next) \/ (part = "ops" /\ Ops!Next)
          /\ UNCHANGED <<ledgerVars, metaVars, holderVars, wbftVars, listVars, keyVars>>
       \/ /\ part = "metadata" /\ MetadataNext
          /\ UNCHANGED <<ledgerVars, ixVars, holderVars, wbftVars, listVars, keyVars>>
       \/ /\ part = "holders" /\ HoldersNext
          /\ UNCHANGED <<ledgerVars, ixVars, metaVars, wbftVars, listVars, keyVars>>
       \/ /\ part = "consensus" /\ Seals!Next
          /\ UNCHANGED <<ledgerVars, ixVars, metaVars, holderVars, listVars, keyVars>>
       \/ /\ part = "lists" /\ Walk!Next
          /\ UNCHANGED <<ledgerVars, ixVars, metaVars, holderVars, wbftVars, keyVars>>
       \/ /\ part = "keys" /\ KeysNext
          /\ UNCHANGED <<ledgerVars, ixVars, metaVars, holderVars, wbftVars, listVars>>
    /\ UNCHANGED part

MCSpec ==
    MCInit /\ [][MCNext]_<<part, ledgerVars, ixVars, metaVars, holderVars, wbftVars, listVars,
                           keyVars>>

-----------------------------------------------------------------------------
\* Owners and delegations are those of the last event about them, no list has
\* an entry without its row, and the counters cover what is listed
\* (pebble_address_index.go:843, pebble_setcode.go:644, pebble_userop.go:630).
AddressIndexesExact ==
    /\ part = "nfts" => Nfts!CurrentIsLatest /\ Nfts!IndexEntriesBacked /\ Nfts!CountsCoverListed
    /\ part = "ops" => Ops!CurrentIsLatest /\ Ops!IndexEntriesBacked /\ Ops!CountsCoverListed

\* Signing records are those of the seals, and consensus events follow what is
\* stored (fetcher_consensus.go:21).
ConsensusExact == part = "consensus" => Seals!SigningRecordsExact /\ Seals!ConsensusEventsBacked

\* Keys tell entries apart, scans see their range in order and GetLogs answers
\* what was asked (schema.go, pebble_logs.go).
KeySchemaSound == part = "keys" => KeysIdentify /\ ScansInOrder /\ LogsAnswered

\* A client that walks a list to its end has seen all of it (resolvers.go).
WalkMissesNothing == part = "lists" => Walk!WalkMissesNothing
=============================================================================
