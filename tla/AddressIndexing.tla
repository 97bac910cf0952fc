--------------------------- MODULE AddressIndexing ---------------------------
(***************************************************************************)
(* What FetchBlock derives from the receipts of a block: contracts, token  *)
(* transfers and NFT owners, EIP-7702 authorizations, ERC-4337 user        *)
(* operations and ERC-7579 modules.  processAddressIndexing goes through   *)
(* the transactions in order; for a large block ProcessReceiptsParallel    *)
(* then does the same work again, in batches handed to several goroutines. *)
(* Every Save is one synced batch of the store, every statistic a read     *)
(* followed by a write.  A failing save is logged and passed over.         *)
(*                                                                         *)
(* Chain[b] is [large, txs]; a transaction is [from, creates, ok, logs,    *)
(* auths, ops], <<b, i>> is its hash.  The store is one function from keys *)
(* to values; the first component of a key names its family.               *)
(***************************************************************************)
EXTENDS Integers, Sequences, FiniteSets, FiniteSetsExt, SequencesExt, TLC

CONSTANTS
    Chain,          \* the blocks
    Workers,        \* goroutines of ProcessReceiptsParallel
    ReceiptBatch,   \* receiptBatchSize
    Zero,           \* the zero address: mints, burns, no signer, nothing there
    Starts,         \* possible values of config.StartHeight
    MaxFaults       \* bound on crashes and failing calls

VARIABLES
    db,         \* the store
    blocks,     \* rows of blocks, written first
    latest,     \* the latest-height key
    next,       \* Run: next height
    block,      \* block in hand, 0 when none
    phase,      \* "idle", "main" (in order) or "large" (in parallel)
    jobs,       \* batches of receipts not handed out
    queue,      \* calls each goroutine still has to make
    reg,        \* statistic read and not yet written
    failed,     \* workers that returned an error
    faults,
    done, open, stale, clean, once  \* history, see below

ixVars == <<db, blocks, latest, next, block, phase, jobs, queue, reg, failed, faults, done, open, stale, clean, once>>

Heights == 1..Len(Chain)
Procs == Workers \cup {"main"}
Nothing == [k \in {} |-> 0]
Unread == [total |-> -1]
Fresh == [total |-> 0, active |-> 0, first |-> Zero]
Txs(b) == Chain[b].txs

-----------------------------------------------------------------------------
(* Calls.  `group' and `stop': when the call fails and `stop' is set, the  *)
(* rest of its group is not made.                                          *)

Commit(dels, puts) == [kind |-> "commit", dels |-> dels, puts |-> puts, group |-> <<"none", 0>>, stop |-> FALSE]

\* A statistic: the record is read, counted up and written back whole.
\* `fresh': a failing read counts from zero instead of giving up.
Count(key, total, active, first, fresh) ==
    [kind |-> "count", key |-> key, total |-> total, active |-> active, first |-> first, fresh |-> fresh,
     group |-> <<"none", 0>>, stop |-> FALSE]

InGroup(calls, g) == [n \in DOMAIN calls |-> [calls[n] EXCEPT !.group = g, !.stop = TRUE]]
OnlyIf(c, calls) == IF c THEN calls ELSE <<>>

SaveContractCreation(c) ==
    Commit({}, (<<"contract", c.contract>> :> c)
               @@ (<<"contractsOf", c.creator, c.block, c.tx>> :> c.contract)
               @@ (<<"contractsIn", c.block, c.contract>> :> c.contract))

\* Mutant: sender and recipient swapped in the indexes.
TransferPutsSwapped(t) ==
    (<<"transfer", t.kind, t.tx, t.log>> :> t)
      @@ (<<"byToken", t.kind, t.token, t.block, t.log>> :> t.tx)
      @@ (<<"byFrom", t.kind, t.to, t.block, t.log>> :> t.tx)
      @@ (<<"byTo", t.kind, t.from, t.block, t.log>> :> t.tx)

\* Row, token index, sender index and recipient index of a transfer.
TransferPuts(t) ==
    (<<"transfer", t.kind, t.tx, t.log>> :> t)
      @@ (<<"byToken", t.kind, t.token, t.block, t.log>> :> t.tx)
      @@ (<<"byFrom", t.kind, t.from, t.block, t.log>> :> t.tx)
      @@ (<<"byTo", t.kind, t.to, t.block, t.log>> :> t.tx)

SaveERC20Transfer(t) == Commit({}, TransferPuts(t))

\* The delete comes before the set, so that a transfer to oneself keeps the entry.
SaveERC721Transfer(t) ==
    Commit(IF t.from = Zero THEN {} ELSE {<<"owned", t.from, t.token, t.id>>},
           TransferPuts(t) @@ (<<"owner", t.token, t.id>> :> t.to)
           @@ (IF t.to = Zero THEN Nothing ELSE <<"owned", t.to, t.token, t.id>> :> 1))

\* Steps 1 and 2 of processAddressIndexing for transaction i of block b.
TransferOf(b, i, log) == [kind |-> log.kind, token |-> log.token, from |-> log.from, to |-> log.to, id |-> log.id,
                          tx |-> <<b, i>>, block |-> b, log |-> log.index]

TransferCalls(b, i) ==
    LET t == Txs(b)[i]
        seen == SelectSeq(t.logs, LAMBDA l : l.kind \in {"erc20", "erc721"})
    IN  OnlyIf(t.creates # Zero,
               <<SaveContractCreation([contract |-> t.creates, creator |-> t.from, tx |-> <<b, i>>, block |-> b])>>)
          \o [n \in DOMAIN seen |-> LET l == TransferOf(b, i, seen[n])
                                    IN  IF l.kind = "erc20" THEN SaveERC20Transfer(l) ELSE SaveERC721Transfer(l)]

-----------------------------------------------------------------------------
(* SetCode: statistics and delegation of each authorization, then all      *)
(* records of the transaction in one batch.                                *)

Authorizations(b, i) ==
    [n \in DOMAIN Txs(b)[i].auths |->
        LET a == Txs(b)[i].auths[n]
        IN  [target |-> a.target, authority |-> a.authority, block |-> b, tx |-> <<b, i>>, txIndex |-> i, index |-> n - 1,
             applied |-> a.authority # Zero /\ a.valid /\ Txs(b)[i].ok]]

IncrementSetCodeStats(address, role) == Count(<<role, address>>, 1, 0, Zero, FALSE)

UpdateAddressDelegationState(r) == Commit({}, <<"delegation", r.authority>> :> r.target)

AuthKeys(r) == {<<"auth", r.tx, r.index>>, <<"authsTo", r.target, r.block, r.txIndex, r.index>>,
                <<"authsBy", r.authority, r.block, r.txIndex, r.index>>, <<"authsIn", r.block, r.txIndex, r.index>>,
                <<"authsOf", r.tx, r.index>>}

SaveSetCodeAuthorizations(records) ==
    Commit({}, [k \in UNION {AuthKeys(r) : r \in Range(records)} |->
                   LET r == CHOOSE r \in Range(records) : k \in AuthKeys(r)
                   IN  IF k[1] = "auth" THEN r ELSE <<r.tx, r.index % 256>>])

ProcessSetCodeTransaction(b, i) ==
    LET records == Authorizations(b, i)
        Each(r) == <<IncrementSetCodeStats(r.target, "target")>>
                     \o OnlyIf(r.authority # Zero, <<IncrementSetCodeStats(r.authority, "authority")>>)
                     \o OnlyIf(r.applied, <<UpdateAddressDelegationState(r)>>)
    IN  OnlyIf(records # <<>>,
               FlattenSeq([n \in DOMAIN records |-> Each(records[n])]) \o <<SaveSetCodeAuthorizations(records)>>)

-----------------------------------------------------------------------------
(* User operations of the receipts in S.  BundleIndex restarts at zero in  *)
(* every transaction.                                                      *)

UserOpsFrom(b, i) ==
    [n \in DOMAIN Txs(b)[i].ops |->
        LET o == Txs(b)[i].ops[n]
        IN  [hash |-> o.hash, sender |-> o.sender, paymaster |-> o.paymaster, factory |-> o.factory,
             bundler |-> Txs(b)[i].from, block |-> b, tx |-> <<b, i>>, bundle |-> n - 1]]

OpKeys(o) ==
    {<<"op", o.hash>>, <<"opsFrom", o.sender, o.block, o.bundle>>, <<"opsVia", o.bundler, o.block, o.bundle>>,
     <<"opsIn", o.block, o.bundle>>, <<"opsOf", o.tx, o.bundle>>}
      \cup (IF o.paymaster = Zero THEN {} ELSE {<<"opsPaidBy", o.paymaster, o.block, o.bundle>>})
      \cup (IF o.factory = Zero THEN {} ELSE {<<"opsMadeBy", o.factory, o.block, o.bundle>>})

\* Operations are written in order: of two with the same key the later one stays.
SaveUserOps(ops) ==
    Commit({}, [k \in UNION {OpKeys(o) : o \in Range(ops)} |->
                   LET o == ops[Max({n \in DOMAIN ops : k \in OpKeys(ops[n])})]
                   IN  IF k[1] = "op" THEN o ELSE o.hash])

Among(ops, P(_)) == Cardinality({n \in DOMAIN ops : P(ops[n])})

UpdateBundlerStats(ops, a) == Count(<<"bundler", a>>, Among(ops, LAMBDA o : o.bundler = a), 0, Zero, TRUE)
UpdatePaymasterStats(ops, a) == Count(<<"paymaster", a>>, Among(ops, LAMBDA o : o.paymaster = a), 0, Zero, TRUE)
UpdateFactoryStats(ops, a) ==
    Count(<<"factory", a>>, Cardinality({o.sender : o \in {p \in Range(ops) : p.factory = a}}), 0, Zero, TRUE)
SaveSmartAccount(o) == Count(<<"account", o.sender>>, 1, 0, IF o.factory = Zero THEN Zero ELSE o.hash, TRUE)

Each(S, Call(_)) == LET s == SetToSeq(S) IN [n \in DOMAIN s |-> Call(s[n])]

ProcessUserOpsFromBlock(b, S) ==
    LET ops == FlattenSeq([i \in DOMAIN Txs(b) |-> IF i \in S THEN UserOpsFrom(b, i) ELSE <<>>])
        Used(f) == {o[f] : o \in Range(ops)} \ {Zero}
    IN  OnlyIf(ops # <<>>,
            InGroup(<<SaveUserOps(ops)>>, <<"userOps", 0>>)
              \o LET stats == Each(Used("bundler"), LAMBDA a : UpdateBundlerStats(ops, a))
                                \o [n \in DOMAIN ops |-> SaveSmartAccount(ops[n])]
                                \o Each(Used("paymaster"), LAMBDA a : UpdatePaymasterStats(ops, a))
                                \o Each(Used("factory"), LAMBDA a : UpdateFactoryStats(ops, a))
                 IN  [n \in DOMAIN stats |-> [stats[n] EXCEPT !.group = <<"userOps", 0>>]])

-----------------------------------------------------------------------------
(* Modules: the record, then the statistic.  Nothing calls this processor; *)
(* it is modelled as the last step of a block.                             *)

SaveInstalledModule(l, b) ==
    Commit({}, (<<"module", l.account, l.module>> :> [account |-> l.account, module |-> l.module, at |-> b, active |-> TRUE])
               @@ (<<"modulesOf", l.account, b, l.module>> :> <<l.account, l.module>>)
               @@ (<<"modulesLike", l.type, b, l.account, l.module>> :> <<l.account, l.module>>)
               @@ (<<"modulesIn", b, l.account, l.module>> :> <<l.account, l.module>>))

RemoveModule(l) == [kind |-> "remove", key |-> <<"module", l.account, l.module>>, group |-> <<"none", 0>>, stop |-> FALSE]

UpdateModuleStats(l) ==
    Count(<<"moduleStats", l.module>>, IF l.kind = "install" THEN 1 ELSE 0, IF l.kind = "install" THEN 1 ELSE -1, Zero, l.kind = "install")

ProcessModuleEventsFromBlock(b) ==
    LET seen(i) == SelectSeq(Txs(b)[i].logs, LAMBDA l : Txs(b)[i].ok /\ l.kind \in {"install", "uninstall"})
        Calls(l) == InGroup(<<IF l.kind = "install" THEN SaveInstalledModule(l, b) ELSE RemoveModule(l), UpdateModuleStats(l)>>,
                            <<"module", l.index>>)
    IN  FlattenSeq(FlattenSeq([i \in DOMAIN Txs(b) |-> [n \in DOMAIN seen(i) |-> Calls(seen(i)[n])]]))

-----------------------------------------------------------------------------
(* The two passes.                                                         *)

\* fetcher_indexing.go: every failing call is passed over.
processAddressIndexing(b) ==
    FlattenSeq([i \in DOMAIN Txs(b) |-> TransferCalls(b, i) \o ProcessSetCodeTransaction(b, i)])
      \o ProcessUserOpsFromBlock(b, DOMAIN Txs(b)) \o ProcessModuleEventsFromBlock(b)

SetReceipt(b, i) == [Commit({}, <<"receipt", b, i>> :> 1) EXCEPT !.group = <<"receipt", i>>]

\* large_block.go: a failing transfer ends the transfers of its transaction.
processBatch(b, S) ==
    FlattenSeq([i \in DOMAIN Txs(b) |->
        IF i \in S THEN <<SetReceipt(b, i)>> \o InGroup(TransferCalls(b, i), <<"transfers", i>>) \o ProcessSetCodeTransaction(b, i) ELSE <<>>])
      \o ProcessUserOpsFromBlock(b, S)

\* The receipts in runs of ReceiptBatch.
Batches(b) ==
    LET n == Len(Txs(b))
    IN  [k \in 1..((n + ReceiptBatch - 1) \div ReceiptBatch) |->
            {i \in 1..n : (i - 1) \div ReceiptBatch = k - 1}]

Init ==
    /\ db = Nothing /\ blocks = {} /\ latest = 0 /\ next \in Starts
    /\ block = 0 /\ phase = "idle" /\ jobs = <<>>
    /\ queue = [p \in Procs |-> <<>>] /\ reg = [p \in Procs |-> Unread] /\ failed = {} /\ faults = 0
    /\ done = {} /\ open = {} /\ stale = {} /\ clean = TRUE /\ once = TRUE

\* History.  open: blocks begun and not finished; stale: blocks finished
\* before a lower block began; clean: no call failed; once: no block was
\* begun twice and none was large.
Begin(b) ==
    /\ phase = "idle"
    /\ phase' = "main" /\ block' = b /\ blocks' = blocks \cup {b}
    /\ queue' = [queue EXCEPT !["main"] = processAddressIndexing(b)]
    /\ once' = (once /\ ~Chain[b].large /\ b \notin blocks)
    /\ open' = open \cup {b}
    /\ stale' = stale \cup {c \in done : c > b}
    /\ UNCHANGED <<db, latest, next, jobs, reg, failed, faults, done, clean>>

FetchNext == next \in Heights /\ Begin(next)
FillGap(b) == b < next /\ b \notin blocks /\ Begin(b)

\* The parallel pass of a large block, or straight to the end.
StartLarge ==
    /\ phase = "main" /\ queue["main"] = <<>> /\ Chain[block].large
    /\ phase' = "large" /\ jobs' = Batches(block)
    /\ UNCHANGED <<db, blocks, latest, next, block, queue, reg, failed, faults, done, open, stale, clean, once>>

TakeBatch(w) ==
    /\ phase = "large" /\ queue[w] = <<>> /\ jobs # <<>> /\ w \notin failed
    /\ queue' = [queue EXCEPT ![w] = processBatch(block, Head(jobs))]
    /\ jobs' = Tail(jobs)
    /\ UNCHANGED <<db, blocks, latest, next, block, phase, reg, failed, faults, done, open, stale, clean, once>>

\* One call succeeds.
Pop(p) == queue' = [queue EXCEPT ![p] = Tail(@)]

Write(p) ==
    LET c == Head(queue[p])
    IN  /\ queue[p] # <<>> /\ c.kind = "commit"
        /\ db' = c.puts @@ [k \in DOMAIN db \ c.dels |-> db[k]]
        /\ Pop(p)
        /\ UNCHANGED <<blocks, latest, next, block, phase, jobs, reg, failed, faults, done, open, stale, clean, once>>

MarkRemoved(p) ==
    LET c == Head(queue[p])
    IN  /\ queue[p] # <<>> /\ c.kind = "remove"
        /\ IF c.key \in DOMAIN db
           THEN db' = [db EXCEPT ![c.key].active = FALSE] /\ Pop(p)
           ELSE queue' = [queue EXCEPT ![p] = Tail(Tail(@))] /\ UNCHANGED db
        /\ UNCHANGED <<blocks, latest, next, block, phase, jobs, reg, failed, faults, done, open, stale, clean, once>>

ReadStat(p) ==
    LET c == Head(queue[p])
    IN  /\ queue[p] # <<>> /\ c.kind = "count" /\ reg[p] = Unread
        /\ reg' = [reg EXCEPT ![p] = IF c.key \in DOMAIN db THEN db[c.key] ELSE Fresh]
        /\ UNCHANGED <<db, blocks, latest, next, block, phase, jobs, queue, failed, faults, done, open, stale, clean, once>>

WriteStat(p) ==
    LET c == Head(queue[p])
        r == reg[p]
        new == [total |-> r.total + c.total,
                active |-> IF r.active + c.active >= 0 THEN r.active + c.active ELSE 0,
                first |-> IF r.first = Zero THEN c.first ELSE r.first]
    IN  /\ queue[p] # <<>> /\ c.kind = "count" /\ reg[p] # Unread
        /\ db' = (c.key :> new) @@ db
        /\ reg' = [reg EXCEPT ![p] = Unread]
        /\ Pop(p)
        /\ UNCHANGED <<blocks, latest, next, block, phase, jobs, failed, faults, done, open, stale, clean, once>>

-----------------------------------------------------------------------------
(* Faults.                                                                 *)

\* A call fails: logged, and the rest of its group is given up.
CallFails(p) ==
    LET c == Head(queue[p])
    IN  /\ faults < MaxFaults /\ queue[p] # <<>> /\ c.group[1] # "receipt"
        /\ IF c.kind = "count" /\ reg[p] = Unread /\ c.fresh
           THEN reg' = [reg EXCEPT ![p] = Fresh] /\ UNCHANGED queue
           ELSE /\ queue' = [queue EXCEPT ![p] = IF c.stop THEN SelectSeq(Tail(@), LAMBDA d : d.group # c.group) ELSE Tail(@)]
                /\ reg' = [reg EXCEPT ![p] = Unread]
        /\ faults' = faults + 1 /\ clean' = FALSE
        /\ UNCHANGED <<db, blocks, latest, next, block, phase, jobs, failed, done, open, stale, once>>

\* SetReceipt fails in a worker: it returns, the others go on.
ReceiptFails(w) ==
    /\ faults < MaxFaults /\ queue[w] # <<>> /\ Head(queue[w]).group[1] = "receipt"
    /\ queue' = [queue EXCEPT ![w] = <<>>] /\ failed' = failed \cup {w}
    /\ faults' = faults + 1
    /\ UNCHANGED <<db, blocks, latest, next, block, phase, jobs, reg, done, open, stale, clean, once>>

\* The end of FetchBlock.  After an error Run comes back to the block.
Finish ==
    /\ phase \in {"main", "large"} /\ \A p \in Procs : queue[p] = <<>>
    /\ phase = "main" => ~Chain[block].large
    /\ phase = "large" => jobs = <<>> \/ failed = Workers
    /\ IF failed # {}
       THEN UNCHANGED <<latest, next, done, open, stale>>
       ELSE /\ latest' = block
            /\ next' = IF block = next THEN next + 1 ELSE next
            /\ done' = done \cup {block} /\ open' = open \ {block} /\ stale' = stale \ {block}
    /\ phase' = "idle" /\ block' = 0 /\ failed' = {} /\ jobs' = <<>>
    /\ UNCHANGED <<db, blocks, queue, reg, faults, clean, once>>

\* A crash: the store keeps what was committed, Run resumes after latest.
Crash ==
    /\ faults < MaxFaults /\ faults' = faults + 1
    /\ queue' = [p \in Procs |-> <<>>] /\ reg' = [p \in Procs |-> Unread]
    /\ phase' = "idle" /\ block' = 0 /\ jobs' = <<>> /\ failed' = {}
    /\ next' = IF latest = 0 THEN next ELSE latest + 1
    /\ UNCHANGED <<db, blocks, latest, done, open, stale, clean, once>>

Next ==
    \/ FetchNext \/ (\E b \in Heights : FillGap(b)) \/ StartLarge \/ Finish \/ Crash
    \/ \E w \in Workers : TakeBatch(w) \/ ReceiptFails(w)
    \/ \E p \in Procs : Write(p) \/ MarkRemoved(p) \/ ReadStat(p) \/ WriteStat(p) \/ CallFails(p)

Spec == Init /\ [][Next]_ixVars
-----------------------------------------------------------------------------
(* Properties.                                                             *)

Resting == phase = "idle" /\ open = {} /\ stale = {} /\ clean

\* The transfers of an NFT in the finished blocks, in the order of the chain.
NFTLogs(b) == FlattenSeq([i \in DOMAIN Txs(b) |->
                 LET s == SelectSeq(Txs(b)[i].logs, LAMBDA l : l.kind = "erc721")
                 IN  [n \in DOMAIN s |-> TransferOf(b, i, s[n])]])
Moves(token, id) == SelectSeq(FlattenSeq([b \in Heights |-> IF b \in done THEN NFTLogs(b) ELSE <<>>]),
                              LAMBDA l : l.token = token /\ l.id = id)
NFTs == UNION {{<<t.token, t.id>> : t \in Range(NFTLogs(b))} : b \in Heights}
AuthsOf(a) == SelectSeq(FlattenSeq([b \in Heights |->
                  IF b \in done THEN FlattenSeq([i \in DOMAIN Txs(b) |-> Authorizations(b, i)]) ELSE <<>>]),
                  LAMBDA r : r.authority = a /\ r.applied)
Signers == {r.authority : r \in UNION {UNION {Range(Authorizations(b, i)) : i \in DOMAIN Txs(b)} : b \in Heights}} \ {Zero}

BatchOf(i) == (i - 1) \div ReceiptBatch
\* Two of these steps are in different batches of one large block.
Torn(steps) == \E s, t \in Range(steps) : s.block = t.block /\ Chain[s.block].large /\ BatchOf(s.tx[2]) # BatchOf(t.tx[2])

OwnerIsLatest(nft) ==
    LET moves == Moves(nft[1], nft[2])
        to == Last(moves).to
    IN  moves # <<>> =>
          /\ db[<<"owner", nft[1], nft[2]>>] = to
          /\ {k \in DOMAIN db : k[1] = "owned" /\ k[3] = nft[1] /\ k[4] = nft[2]}
               = IF to = Zero THEN {} ELSE {<<"owned", to, nft[1], nft[2]>>}

DelegationIsLatest(a) == AuthsOf(a) # <<>> => db[<<"delegation", a>>] = Last(AuthsOf(a)).target

\* The current owner of an NFT, the list of the NFTs of an address and the
\* delegation of an account are those of the last transfer or authorization
\* of the finished blocks, whatever was interrupted and indexed again
\* before; except where a large block hands them to several goroutines.
CurrentIsLatest ==
    Resting => /\ \A nft \in NFTs : ~Torn(Moves(nft[1], nft[2])) => OwnerIsLatest(nft)
               /\ \A a \in Signers : ~Torn(AuthsOf(a)) => DelegationIsLatest(a)

\* Claim of the code: GetERC721Owner "retrieves the current owner of a
\* specific NFT token".  A large block breaks it.
OwnersAreCurrent == Resting => \A nft \in NFTs : OwnerIsLatest(nft)

\* At every point of an interrupted pass, every entry of an index leads to a
\* row that belongs under it.
IndexEntriesBacked ==
    \A k \in DOMAIN db :
        CASE k[1] = "contractsOf" -> db[<<"contract", db[k]>>].creator = k[2]
          [] k[1] \in {"byToken", "byFrom", "byTo"} ->
                LET row == <<"transfer", k[2], db[k], k[5]>>
                IN  row \in DOMAIN db /\ k[3] = (CASE k[1] = "byToken" -> db[row].token
                                                     [] k[1] = "byFrom" -> db[row].from
                                                     [] OTHER -> db[row].to)
          [] k[1] = "owned" -> <<"owner", k[3], k[4]>> \in DOMAIN db
          [] k[1] = "authsTo" -> db[<<"auth", db[k][1], db[k][2]>>].target = k[2]
          [] k[1] = "authsBy" -> db[<<"auth", db[k][1], db[k][2]>>].authority = k[2]
          [] k[1] = "opsFrom" -> db[<<"op", db[k]>>].sender = k[2]
          [] k[1] = "opsOf" -> db[<<"op", db[k]>>].tx = k[2]
          [] k[1] = "modulesOf" -> <<"module", k[2], k[4]>> \in DOMAIN db
          [] OTHER -> TRUE

Listed(family, a) == Cardinality({k \in DOMAIN db : k[1] = family /\ k[2] = a})
StatOf(family, a) == IF <<family, a>> \in DOMAIN db THEN db[<<family, a>>] ELSE Fresh
Active(m) == Cardinality({k \in DOMAIN db : k[1] = "module" /\ k[3] = m /\ db[k].active})

\* The statistics count at least what is listed, whatever was interrupted,
\* counted again or lost between two goroutines; and exactly that when every
\* block was indexed once and in order.
CountsCoverListed ==
    Resting =>
      \A k \in DOMAIN db :
        CASE k[1] = "authsTo" -> /\ StatOf("target", k[2]).total >= Listed("authsTo", k[2])
                                 /\ once => StatOf("target", k[2]).total = Listed("authsTo", k[2])
          [] k[1] = "authsBy" /\ k[2] # Zero ->
                                 /\ StatOf("authority", k[2]).total >= Listed("authsBy", k[2])
                                 /\ once => StatOf("authority", k[2]).total = Listed("authsBy", k[2])
          [] k[1] = "opsFrom" -> StatOf("account", k[2]).total >= Listed("opsFrom", k[2])
          [] k[1] = "opsVia" -> StatOf("bundler", k[2]).total >= Listed("opsVia", k[2])
          [] k[1] = "module" -> once => StatOf("moduleStats", k[3]).active = Active(k[3])
          [] OTHER -> TRUE

\* Claim: GetUserOpsByBlock "retrieves all UserOperations in a specific
\* block".  Two bundles of a block share their keys.
OpsOfBlockComplete ==
    Resting => \A b \in done : Listed("opsIn", b) = Cardinality({k \in DOMAIN db : k[1] = "op" /\ db[k].block = b})

\* Claim: AsTargetCount is "times this address was delegation target".
CountsExact == Resting => \A k \in DOMAIN db : k[1] = "authsTo" => StatOf("target", k[2]).total = Listed("authsTo", k[2])
=============================================================================
