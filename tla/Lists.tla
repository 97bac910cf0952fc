------------------------------- MODULE Lists -------------------------------
(***************************************************************************)
(* The paged lists of the GraphQL and JSON-RPC servers.  A client walks a  *)
(* list page by page while the indexer goes on writing: it asks for        *)
(* `asked' entries, moves its offset by what it got and goes on as long as *)
(* the server says there is more.  A resolver clamps the limit, a reader   *)
(* of the store clamps it again and scans a prefix, forwards or backwards. *)
(*                                                                         *)
(* `list' is what the reader scans, in the order of the keys: numbers      *)
(* stand for entries; the even ones match a client's filter.  An answer is *)
(* [page, more].                                                           *)
(***************************************************************************)
EXTENDS Integers, Sequences, FiniteSets, SequencesExt

CONSTANTS
    DefaultLimit, MaxLimit, ExtendedLimit,  \* the pagination constants
    Endpoints,      \* the lists that are walked
    Limits,         \* limits a client asks for
    MaxWrites       \* bound on writes during a walk

VARIABLES
    list, walk, writes,
    removed     \* history: an entry was removed during the walk

listVars == <<list, walk, writes, removed>>

Lesser(a, b) == IF a < b THEN a ELSE b

-----------------------------------------------------------------------------
(* Scans.                                                                  *)

\* Mutant: one entry too many is skipped after the first page.
WindowSkipping(s, limit, offset) == SubSeq(s, offset + (IF offset > 0 THEN 2 ELSE 1), Lesser(offset + limit, Len(s)))

\* applyPagination, and the skip and stop conditions of the scans.
Window(s, limit, offset) == SubSeq(s, offset + 1, Lesser(offset + limit, Len(s)))

\* The readers' own clamp; parsePaginationParams does the same to the
\* limit a client sends.
normalizePagination(limit) == IF limit <= 0 THEN DefaultLimit ELSE Lesser(limit, MaxLimit)
parsePaginationParams(limit) == IF limit > 0 THEN Lesser(limit, MaxLimit) ELSE DefaultLimit

Forwards(s, limit, offset) == Window(s, normalizePagination(limit), offset)
Backwards(s, limit, offset) == Window(Reverse(s), normalizePagination(limit), offset)
Matching(s) == SelectSeq(s, LAMBDA e : e % 2 = 0)
\* Readers that take the caller's limit as it is, zero meaning no limit.
Unclamped(s, limit, offset) == Window(s, IF limit > 0 THEN limit ELSE Len(s), offset)

\* Oldest first.
GetContractsByCreator(s, l, o) == Forwards(s, l, o)
GetERC20TransfersByToken(s, l, o) == Forwards(s, l, o)
GetERC20TransfersByAddress(s, l, o) == Forwards(s, l, o)
GetERC721TransfersByToken(s, l, o) == Forwards(s, l, o)
GetERC721TransfersByAddress(s, l, o) == Forwards(s, l, o)
GetNFTsByOwner(s, l, o) == Forwards(s, l, o)
ListBundlers(s, l, o) == Forwards(s, l, o)
ListFactories(s, l, o) == Forwards(s, l, o)
ListPaymasters(s, l, o) == Forwards(s, l, o)
ListSmartAccounts(s, l, o) == Forwards(s, l, o)
ListModuleStats(s, l, o) == Forwards(s, l, o)
GetBlocksByTimeRange(s, l, o) == Window(s, l, o)
GetBalanceHistory(s, l, o) == Window(s, l, o)
GetTransactionsByAddress(s, l, o) == Window(s, l, o)
GetMintEvents(s, l, o) == Unclamped(s, l, o)
GetBurnEvents(s, l, o) == Unclamped(s, l, o)
GetProposals(s, l, o) == Unclamped(s, l, o)
GetTokenHolders(s, l, o) == Unclamped(s, l, o)
ListTokensByStandard(s, l, o) == Unclamped(s, l, o)
ListVerifiedContracts(s, l, o) == Window(s, IF l <= 0 THEN DefaultLimit ELSE l, o)
GetValidatorSigningActivity(s, l, o) == Window(s, IF l <= 0 THEN MaxLimit ELSE Lesser(l, ExtendedLimit), o)
\* The offset counts the matching ones only.
GetTransactionsByAddressFiltered(s, l, o) == Window(Matching(s), l, o)

\* Newest first: all keys are collected backwards, then cut.
ListContracts(s, l, o) == Backwards(s, l, o)
GetSetCodeAuthorizationsByTarget(s, l, o) == Backwards(s, l, o)
GetSetCodeAuthorizationsByAuthority(s, l, o) == Backwards(s, l, o)
getUserOpsByIndexPaginated(s, l, o) == Backwards(s, l, o)
GetModulesByAccount(s, l, o) == Backwards(s, l, o)
GetModulesByType(s, l, o) == Backwards(s, l, o)
GetEpochsList(s, l, o) == Window(Reverse(s), l, o)
GetRecentUserOps(s, l) == Backwards(s, l, 0)
GetRecentModuleEvents(s, l) == Backwards(s, l, 0)

\* An entry of the index of internal transactions stands for all calls of a
\* transaction with this address, here two: e and its twin e + 100.
Calls(s) == FlattenSeq([i \in DOMAIN s |-> <<s[i], s[i] + 100>>])
GetInternalTransactionsByAddress(s, l, o) ==
    LET after == SubSeq(s, o + 1, Len(s)) IN Window(Calls(after), normalizePagination(l), 0)

\* Aggregated in a map: every call has an order of its own.
GetAllValidatorsSigningStats(s, l, o) ==
    {Window(p, IF l <= 0 THEN MaxLimit ELSE Lesser(l, ExtendedLimit), o) : p \in SetToSeqs(ToSet(s))}

-----------------------------------------------------------------------------
(* How a resolver tells whether there is more.                             *)

Full(page, limit) == [page |-> page, more |-> Len(page) = limit]
Counted(page, offset, total) == [page |-> page, more |-> offset + Len(page) < total]
\* No flag: the client goes on until a page is empty.
Bare(page) == [page |-> page, more |-> page # <<>>]
\* The limit is echoed: the client stops at a shorter page.
Echoed(page, limit) == [page |-> page, more |-> Len(page) >= limit]

resolveContracts(s, l, o) == Counted(ListContracts(s, parsePaginationParams(l), o), o, Len(s))
resolveContractsByCreator(s, l, o) == LET n == parsePaginationParams(l) IN Full(GetContractsByCreator(s, n, o), n)
resolveERC20TransfersByToken(s, l, o) == LET n == parsePaginationParams(l) IN Full(GetERC20TransfersByToken(s, n, o), n)
resolveERC20TransfersByAddress(s, l, o) == LET n == parsePaginationParams(l) IN Full(GetERC20TransfersByAddress(s, n, o), n)
resolveERC721TransfersByToken(s, l, o) == LET n == parsePaginationParams(l) IN Full(GetERC721TransfersByToken(s, n, o), n)
resolveERC721TransfersByAddress(s, l, o) == LET n == parsePaginationParams(l) IN Full(GetERC721TransfersByAddress(s, n, o), n)
resolveNFTsByOwner(s, l, o) == LET n == parsePaginationParams(l) IN Full(GetNFTsByOwner(s, n, o), n)
resolveInternalTransactionsByAddress(s, l, o) ==
    LET n == parsePaginationParams(l) IN Full(GetInternalTransactionsByAddress(s, n, o), n)
resolveBlocksByTimeRange(s, l, o) == LET n == parsePaginationParams(l) IN Full(GetBlocksByTimeRange(s, n, o), n)
resolveTransactionsByAddressFiltered(s, l, o) ==
    LET n == parsePaginationParams(l) IN Full(GetTransactionsByAddressFiltered(s, n, o), n)
resolveBalanceHistory(s, l, o) == LET n == parsePaginationParams(l) IN Full(GetBalanceHistory(s, n, o), n)
resolveSetCodeAuthorizationsByTarget(s, l, o) ==
    LET n == parsePaginationParams(l) IN Full(GetSetCodeAuthorizationsByTarget(s, n, o), n)
resolveSetCodeAuthorizationsByAuthority(s, l, o) ==
    LET n == parsePaginationParams(l) IN Full(GetSetCodeAuthorizationsByAuthority(s, n, o), n)
resolveUserOperationsByAddress(s, l, o) == LET n == parsePaginationParams(l) IN Full(getUserOpsByIndexPaginated(s, n, o), n)
resolveBundlers(s, l, o) == LET n == parsePaginationParams(l) IN Full(ListBundlers(s, n, o), n)
resolveFactories(s, l, o) == LET n == parsePaginationParams(l) IN Full(ListFactories(s, n, o), n)
resolvePaymasters(s, l, o) == LET n == parsePaginationParams(l) IN Full(ListPaymasters(s, n, o), n)
resolveSmartAccounts(s, l, o) == LET n == parsePaginationParams(l) IN Full(ListSmartAccounts(s, n, o), n)
resolveListModuleStats(s, l, o) == LET n == parsePaginationParams(l) IN Full(ListModuleStats(s, n, o), n)
resolveEpochs(s, l, o) == LET n == parsePaginationParams(l) IN Full(GetEpochsList(s, n, o), n)
resolveValidatorSigningActivity(s, l, o) == LET n == parsePaginationParams(l) IN Full(GetValidatorSigningActivity(s, n, o), n)
resolveMintEvents(s, l, o) == LET n == parsePaginationParams(l) IN Full(GetMintEvents(s, n, o), n)
resolveBurnEvents(s, l, o) == LET n == parsePaginationParams(l) IN Full(GetBurnEvents(s, n, o), n)
resolveProposals(s, l, o) == LET n == parsePaginationParams(l) IN Full(GetProposals(s, n, o), n)
\* No clamp here.
resolveTokens(s, l, o) == Counted(ListTokensByStandard(s, l, o), o, Len(s))
resolveTokenHolders(s, l, o) == Counted(GetTokenHolders(s, l, o), o, Len(s))
\* One entry more than is shown tells whether there is more.
resolveTransactionsByAddress(s, l, o) ==
    LET n == parsePaginationParams(l)
        hashes == GetTransactionsByAddress(s, n + 1, o)
    IN  [page |-> SubSeq(hashes, 1, Lesser(n, Len(hashes))), more |-> Len(hashes) > n]
\* Everything is collected and filtered first.
resolveTransactions(s, l, o) ==
    LET n == parsePaginationParams(l)
        found == Reverse(Matching(s))
    IN  [page |-> Window(found, n, o), more |-> Lesser(o + n, Len(found)) < Len(found)]
resolveLogs(s, l, o) ==
    LET n == parsePaginationParams(l)
        found == Matching(s)
    IN  [page |-> Window(found, n, o), more |-> Lesser(o + n, Len(found)) < Len(found)]

\* Heights.  Entry e of the list is block e - 1.
calculateBlockRangeReverse(latest, o, n) ==
    [end |-> latest - o, start |-> IF latest - o >= n - 1 THEN latest - o - n + 1 ELSE 0]
resolveBlocks(s, l, o) ==
    LET n == parsePaginationParams(l)
        latest == Len(s) - 1
        r == calculateBlockRangeReverse(latest, o, n)
    IN  IF latest < o THEN [page |-> <<>>, more |-> FALSE]
        ELSE [page |-> SubSeq(s, r.start + 1, r.end + 1), more |-> r.start > 0]
resolveBlocksRange(s, l, o) ==
    LET latest == Len(s) - 1
        end == Lesser(o + Lesser(l, MaxLimit) - 1, latest)
    IN  IF o > latest THEN [page |-> <<>>, more |-> FALSE]
        ELSE [page |-> SubSeq(s, o + 1, end + 1), more |-> end < latest]

\* Without a sender the offset is cut off the page of the newest ones.
resolveUserOperations(s, l, o) ==
    LET n == parsePaginationParams(l) IN Full(Window(GetRecentUserOps(s, n), n, o), n)
\* Without account and type the offset is not used at all.
resolveInstalledModules(s, l, o, by) ==
    LET n == parsePaginationParams(l)
    IN  Full(CASE by = "account" -> GetModulesByAccount(s, n, o) [] by = "type" -> GetModulesByType(s, n, o)
               [] OTHER -> GetRecentModuleEvents(s, n), n)
resolveAllValidatorsSigningStats(s, l, o) ==
    LET n == parsePaginationParams(l) IN {Full(page, n) : page \in GetAllValidatorsSigningStats(s, n, o)}

-----------------------------------------------------------------------------
(* JSON-RPC.                                                               *)

getContractsByCreator(s, l, o) == Bare(GetContractsByCreator(s, parsePaginationParams(l), o))
getERC20TransfersByToken(s, l, o) == Bare(GetERC20TransfersByToken(s, parsePaginationParams(l), o))
getERC20TransfersByAddress(s, l, o) == Bare(GetERC20TransfersByAddress(s, parsePaginationParams(l), o))
getERC721TransfersByToken(s, l, o) == Bare(GetERC721TransfersByToken(s, parsePaginationParams(l), o))
getERC721TransfersByAddress(s, l, o) == Bare(GetERC721TransfersByAddress(s, parsePaginationParams(l), o))
getProposals(s, l, o) == Bare(GetProposals(s, parsePaginationParams(l), o))
getMintEvents(s, l, o) == Bare(GetMintEvents(s, parsePaginationParams(l), o))
getBurnEvents(s, l, o) == Bare(GetBurnEvents(s, parsePaginationParams(l), o))
getBlocksByTimeRange(s, l, o) == LET n == parsePaginationParams(l) IN Full(GetBlocksByTimeRange(s, n, o), n)
getTransactionsByAddressFiltered(s, l, o) ==
    LET n == parsePaginationParams(l) IN Full(GetTransactionsByAddressFiltered(s, n, o), n)
getBalanceHistory(s, l, o) == LET n == parsePaginationParams(l) IN Full(GetBalanceHistory(s, n, o), n)
getValidatorSigningActivity(s, l, o) == LET n == parsePaginationParams(l) IN Full(GetValidatorSigningActivity(s, n, o), n)

\* The method takes up to ExtendedLimit, the reader gives MaxLimit.
SetCodeLimit(l) == IF l > 0 /\ l <= ExtendedLimit THEN l ELSE MaxLimit
getSetCodeAuthorizationsByTarget(s, l, o) ==
    Echoed(GetSetCodeAuthorizationsByTarget(s, SetCodeLimit(l), o), SetCodeLimit(l))
getSetCodeAuthorizationsByAuthority(s, l, o) ==
    Echoed(GetSetCodeAuthorizationsByAuthority(s, SetCodeLimit(l), o), SetCodeLimit(l))

-----------------------------------------------------------------------------
Answers(e, s, l, o) ==
    IF e = "allValidatorsSigningStats" THEN resolveAllValidatorsSigningStats(s, l, o) ELSE
    {CASE e = "contracts" -> resolveContracts(s, l, o)
       [] e = "contractsByCreator" -> resolveContractsByCreator(s, l, o)
       [] e = "erc20TransfersByToken" -> resolveERC20TransfersByToken(s, l, o)
       [] e = "erc20TransfersByAddress" -> resolveERC20TransfersByAddress(s, l, o)
       [] e = "erc721TransfersByToken" -> resolveERC721TransfersByToken(s, l, o)
       [] e = "erc721TransfersByAddress" -> resolveERC721TransfersByAddress(s, l, o)
       [] e = "nftsByOwner" -> resolveNFTsByOwner(s, l, o)
       [] e = "internalTransactionsByAddress" -> resolveInternalTransactionsByAddress(s, l, o)
       [] e = "blocksByTimeRange" -> resolveBlocksByTimeRange(s, l, o)
       [] e = "transactionsByAddressFiltered" -> resolveTransactionsByAddressFiltered(s, l, o)
       [] e = "balanceHistory" -> resolveBalanceHistory(s, l, o)
       [] e = "setCodeByTarget" -> resolveSetCodeAuthorizationsByTarget(s, l, o)
       [] e = "setCodeByAuthority" -> resolveSetCodeAuthorizationsByAuthority(s, l, o)
       [] e = "userOperationsByAddress" -> resolveUserOperationsByAddress(s, l, o)
       [] e = "userOperations" -> resolveUserOperations(s, l, o)
       [] e = "bundlers" -> resolveBundlers(s, l, o)
       [] e = "factories" -> resolveFactories(s, l, o)
       [] e = "paymasters" -> resolvePaymasters(s, l, o)
       [] e = "smartAccounts" -> resolveSmartAccounts(s, l, o)
       [] e = "moduleStats" -> resolveListModuleStats(s, l, o)
       [] e = "modulesByAccount" -> resolveInstalledModules(s, l, o, "account")
       [] e = "modulesByType" -> resolveInstalledModules(s, l, o, "type")
       [] e = "recentModules" -> resolveInstalledModules(s, l, o, "none")
       [] e = "epochs" -> resolveEpochs(s, l, o)
       [] e = "signingActivity" -> resolveValidatorSigningActivity(s, l, o)
       [] e = "mintEvents" -> resolveMintEvents(s, l, o)
       [] e = "burnEvents" -> resolveBurnEvents(s, l, o)
       [] e = "proposals" -> resolveProposals(s, l, o)
       [] e = "tokens" -> resolveTokens(s, l, o)
       [] e = "tokenHolders" -> resolveTokenHolders(s, l, o)
       [] e = "verifiedContracts" -> Bare(ListVerifiedContracts(s, l, o))
       [] e = "transactionsByAddress" -> resolveTransactionsByAddress(s, l, o)
       [] e = "transactions" -> resolveTransactions(s, l, o)
       [] e = "logs" -> resolveLogs(s, l, o)
       [] e = "blocks" -> resolveBlocks(s, l, o)
       [] e = "blocksRange" -> resolveBlocksRange(s, l, o)
       [] e = "rpc contractsByCreator" -> getContractsByCreator(s, l, o)
       [] e = "rpc erc20ByToken" -> getERC20TransfersByToken(s, l, o)
       [] e = "rpc erc20ByAddress" -> getERC20TransfersByAddress(s, l, o)
       [] e = "rpc erc721ByToken" -> getERC721TransfersByToken(s, l, o)
       [] e = "rpc erc721ByAddress" -> getERC721TransfersByAddress(s, l, o)
       [] e = "rpc proposals" -> getProposals(s, l, o)
       [] e = "rpc mintEvents" -> getMintEvents(s, l, o)
       [] e = "rpc burnEvents" -> getBurnEvents(s, l, o)
       [] e = "rpc blocksByTimeRange" -> getBlocksByTimeRange(s, l, o)
       [] e = "rpc transactionsFiltered" -> getTransactionsByAddressFiltered(s, l, o)
       [] e = "rpc balanceHistory" -> getBalanceHistory(s, l, o)
       [] e = "rpc signingActivity" -> getValidatorSigningActivity(s, l, o)
       [] e = "rpc setCodeByTarget" -> getSetCodeAuthorizationsByTarget(s, l, o)
       [] e = "rpc setCodeByAuthority" -> getSetCodeAuthorizationsByAuthority(s, l, o)}

\* Endpoints whose answer filters, counts heights or can lose entries.
Filtering == {"transactions", "logs", "transactionsByAddressFiltered", "rpc transactionsFiltered"}
ByHeight == {"blocks", "blocksRange"}
Shrinking == {"nftsByOwner", "proposals", "rpc proposals", "tokenHolders", "verifiedContracts"}

Wanted(e, s) == CASE e \in Filtering -> ToSet(Matching(s))
                  [] e = "internalTransactionsByAddress" -> ToSet(Calls(s))
                  [] OTHER -> ToSet(s)

-----------------------------------------------------------------------------
Init ==
    /\ list \in {[i \in 1..n |-> i] : n \in 0..4} /\ writes = 0 /\ removed = FALSE
    /\ walk \in [endpoint : Endpoints, limit : Limits, offset : {0}, seen : {{}}, open : {TRUE}, want : {{}}]

\* The walk begins: what is there now is what the client must see.
FirstPage ==
    /\ walk.open /\ walk.want = {} /\ walk.seen = {} /\ Wanted(walk.endpoint, list) # {}
    /\ walk' = [walk EXCEPT !.want = Wanted(walk.endpoint, list)]
    /\ UNCHANGED <<list, writes, removed>>

NextPage ==
    /\ walk.open /\ walk.want # {}
    /\ \E answer \in Answers(walk.endpoint, list, walk.limit, walk.offset) :
         walk' = [walk EXCEPT !.seen = @ \cup ToSet(answer.page), !.offset = @ + Len(answer.page), !.open = answer.more]
    /\ UNCHANGED <<list, writes, removed>>

\* A new block adds at the end, filling a gap anywhere before.
Write ==
    /\ writes < MaxWrites /\ writes' = writes + 1
    /\ \E i \in (IF walk.endpoint \in ByHeight THEN {Len(list) + 1} ELSE 1..(Len(list) + 1)) :
         list' = InsertAt(list, i, IF list = <<>> THEN 1 ELSE 1 + (CHOOSE m \in ToSet(list) : \A x \in ToSet(list) : m >= x))
    /\ UNCHANGED <<walk, removed>>

\* An NFT moves on, a proposal changes its status, a balance changes.
Drop ==
    /\ walk.endpoint \in Shrinking /\ writes < MaxWrites /\ writes' = writes + 1
    /\ \E i \in DOMAIN list : list' = RemoveAt(list, i)
    /\ removed' = (removed \/ walk.want # {})
    /\ UNCHANGED walk

Next == FirstPage \/ NextPage \/ Write \/ Drop
Spec == Init /\ [][Next]_listVars /\ WF_listVars(NextPage)

-----------------------------------------------------------------------------
\* A client that has walked a list to its end has seen everything that was
\* in it when it began, whatever the indexer added on the way and whichever
\* limits were clamped where; provided nothing was taken out.
WalkMissesNothing == ~walk.open /\ ~removed => walk.want \subseteq walk.seen

\* Claim of paging by offset: what stays in the list is seen.  An entry taken
\* out moves the next one to an offset that was already read.
WhatStaysIsSeen == ~walk.open => (walk.want \cap Wanted(walk.endpoint, list)) \subseteq walk.seen

\* Every walk ends.
WalkEnds == walk.want # {} ~> ~walk.open
=============================================================================
