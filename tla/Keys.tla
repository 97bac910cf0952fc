--------------------------------- MODULE Keys ---------------------------------
(***************************************************************************)
(* The one key space all stores share.  A key is a path; its components    *)
(* are the names of pkg/storage/schema.go and the formatted fields of the  *)
(* record.  Readers find records by scanning a prefix or a range of block  *)
(* numbers, so they rely on two things no type says: that no other family  *)
(* of keys lies under the prefix, and that the order of the bytes is the   *)
(* order of the numbers.                                                   *)
(*                                                                         *)
(* Every prefix ends in "/", which sorts before every character of a       *)
(* field, so comparing bytes is comparing component by component; a        *)
(* component is a tuple of characters, a name or an address one character. *)
(* The widths 20, 16, 8, 6, 4, 2 and 64 are all Width; decimal and         *)
(* hexadecimal digits sort alike and are both decimal here.                *)
(***************************************************************************)
EXTENDS Integers, Sequences, SequencesExt, FiniteSets, FiniteSetsExt, Functions

CONSTANTS
    Texts,          \* addresses, hashes and identifiers
    Labels,         \* token names and symbols, as tuples of path components
    Numbers,        \* block numbers, indexes, times and balances
    Hidden,         \* values of what a key leaves out
    Width,          \* digits of a zero-padded number
    Lower(_),       \* strings.ToLower on a component of a label
    Logs,           \* [block, tx, log, address, topics] that may be indexed
    LogFilters,     \* [from, to, addresses, topics] GetLogs is asked
    MaxBlockRange,  \* maxBlockRange of GetLogs
    Latest,         \* latest height
    MaxWrites       \* bound on the writes of a behaviour

VARIABLES
    store,      \* the database: key -> entry
    put,        \* history: entries written and not meant to be gone
    writes,     \* number of writes
    reindexed   \* the last write was a --reindex

keyVars == <<store, put, writes, reindexed>>
-------------------------------------------------------------------------------
(* Formatting. *)

Digit == <<"0", "1", "2", "3", "4", "5", "6", "7", "8", "9">>

Largest == 10 ^ Width - 1

\* Decimal digits of a number.
Digits[num \in 0 .. Largest] ==
    IF num < 10 THEN <<Digit[num + 1]>>
    ELSE Digits[num \div 10] \o <<Digit[(num % 10) + 1]>>

Value(digits) == CHOOSE num \in 0 .. Largest : Digits[num] = digits

\* %020d, %016x and their kin: fixed width, zeros in front.
Padded(digits) == [i \in 1 .. Width - Len(digits) |-> "0"] \o digits

\* %d: as many digits as the number has.
Unpadded(digits) == digits

\* What the verbs of a layout stand for.  "lost" is a part of the record's
\* identity that its key leaves out.
ValuesOf(verb) ==
    CASE verb = "%s" -> {<<t>> : t \in Texts}
      [] verb = "lower" -> Labels
      [] verb \in {"%d", "%0d", "inverted"} -> {Digits[num] : num \in Numbers}
      [] verb = "lost" -> {<<x>> : x \in Hidden}
      [] OTHER -> {<<verb>>}        \* a name inside the key

\* The largest number minus the balance, so that the richest come first.
InvertedBalance(digits) == Padded(Digits[Largest - Value(digits)])

\* The components a field adds to the key.
Format(verb, value) ==
    CASE verb = "%0d" -> <<Padded(value)>>
      [] verb = "%d" -> <<Unpadded(value)>>
      [] verb = "inverted" -> <<InvertedBalance(value)>>
      [] verb = "lower" -> [i \in DOMAIN value |-> <<Lower(value[i])>>]
      [] verb = "lost" -> <<>>
      [] OTHER -> <<value>>

-------------------------------------------------------------------------------
(* The schema: a family has a prefix, the fields that follow it, and the   *)
(* numbers of leading fields its KeyPrefix functions fix.                  *)

Family(path, fields, scans) == [path |-> path, fields |-> fields, scans |-> scans]

Data(name, fields, scans) == Family(<<"data", name>>, fields, scans)

Index(name, fields, scans) == Family(<<"index", name>>, fields, scans)

\* A chain's own counters and records.
BlockKeys == [
    LatestHeightKey |-> Family(<<"meta", "lh">>, <<>>, {}),
    BlockCountKey |-> Family(<<"meta", "bc">>, <<>>, {}),
    TransactionCountKey |-> Family(<<"meta", "tc">>, <<>>, {}),
    BlockKey |-> Data("blocks", <<"%d">>, {}),
    TransactionKey |-> Data("txs", <<"%d", "%d">>, {}),
    ReceiptKey |-> Data("receipts", <<"%s">>, {}),
    ContractAddressKey |-> Data("contractaddr", <<"%s">>, {}),
    TransactionHashIndexKey |-> Index("txh", <<"%s">>, {}),
    BlockHashIndexKey |-> Index("blockh", <<"%s">>, {}),
    AddressTransactionKey |-> Index("addr", <<"%s", "%0d">>, {1})]

HistoryKeys == [
    BlockTimestampKey |-> Index("time", <<"%0d", "%0d">>, {0}),
    AddressBalanceKey |-> Index("balance", <<"%s", "history", "%0d">>, {2}),
    AddressBalanceLatestKey |-> Index("balance", <<"%s", "latest">>, {})]

Sys(name, fields, scans) == Family(<<"data", "syscontracts", name>>, fields, scans)

SysIndex(name, fields, scans) == Family(<<"index", "syscontracts", name>>, fields, scans)

SystemContractKeys == [
    MintEventKey |-> Sys("mint", <<"%0d", "%d", "%d">>, {0}),
    BurnEventKey |-> Sys("burn", <<"%0d", "%d", "%d">>, {0}),
    MinterConfigEventKey |-> Sys("minterconfig", <<"%s", "%0d", "lost">>, {1}),
    ValidatorChangeEventKey |-> Sys("validator", <<"%s", "%0d", "lost">>, {1}),
    ProposalKey |-> Sys("proposal", <<"%s", "%d">>, {1}),
    ProposalVoteKey |-> Sys("vote", <<"%s", "%d", "%s">>, {2}),
    BlacklistEventKey |-> Sys("blacklist", <<"%s", "%0d", "lost">>, {1}),
    MemberChangeEventKey |-> Sys("member", <<"%s", "%0d", "%d", "lost">>, {1}),
    GasTipUpdateEventKey |-> Sys("gastip", <<"%0d", "%d", "lost">>, {0}),
    EmergencyPauseEventKey |-> Sys("emergency", <<"%s", "%0d", "%d", "lost">>, {1}),
    DepositMintProposalKey |-> Sys("depositmint", <<"%d">>, {}),
    MaxProposalsUpdateEventKey |-> Sys("maxproposals", <<"%s", "%0d", "%d", "lost">>, {1}),
    ProposalExecutionSkippedEventKey |->
        Sys("proposalskipped", <<"%s", "%0d", "%d", "lost">>, {1}),
    AuthorizedAccountEventKey |->
        Sys("authorizedaccounts", <<"%s", "%0d", "%d", "lost">>, {1})]

SystemContractIndexKeys == [
    MintMinterIndexKey |-> SysIndex("mint_minter", <<"%s", "%0d", "lost">>, {1}),
    BurnBurnerIndexKey |-> SysIndex("burn_burner", <<"%s", "%0d", "lost">>, {1}),
    ProposalStatusIndexKey |-> SysIndex("proposal_status", <<"%s", "%d", "%d">>, {2}),
    BlacklistActiveIndexKey |-> SysIndex("blacklist_active", <<"%s">>, {0}),
    MinterActiveIndexKey |-> SysIndex("minter_active", <<"%s">>, {0}),
    ValidatorActiveIndexKey |-> SysIndex("validator_active", <<"%s">>, {0}),
    TotalSupplyKey |-> SysIndex("total_supply", <<>>, {})]

Wbft(names, fields, scans) == Family(<<"data", "wbft">> \o names, fields, scans)

WBFTKeys == [
    WBFTBlockExtraKey |-> Wbft(<<"extra">>, <<"%0d">>, {0}),
    WBFTEpochKey |-> Wbft(<<"epoch">>, <<"%0d">>, {0}),
    LatestEpochKey |-> Family(<<"meta", "wbft", "latest_epoch">>, <<>>, {}),
    WBFTValidatorStatsKey |-> Wbft(<<"validator", "stats">>, <<"%s", "%0d", "%0d">>, {1}),
    WBFTValidatorActivityKey |-> Wbft(<<"validator", "activity">>, <<"%s", "%0d">>, {0, 1}),
    WBFTSignerPrepareIndexKey |->
        Family(<<"index", "wbft", "signers", "prepare">>, <<"%0d", "%s">>, {1}),
    WBFTSignerCommitIndexKey |->
        Family(<<"index", "wbft", "signers", "commit">>, <<"%0d", "%s">>, {1})]

ContractKeys == [
    ContractCreationKey |-> Family(<<"data", "contract", "creation">>, <<"%s">>, {}),
    ContractCreatorIndexKey |->
        Family(<<"index", "contract", "creator">>, <<"%s", "%0d", "%s">>, {1}),
    ContractBlockIndexKey |-> Family(<<"index", "contract", "block">>, <<"%0d", "%s">>, {}),
    InternalTransactionKey |-> Data("internal", <<"%s", "%0d">>, {1}),
    InternalTxFromIndexKey |->
        Family(<<"index", "internal", "from">>, <<"%s", "%0d", "%s">>, {1}),
    InternalTxToIndexKey |->
        Family(<<"index", "internal", "to">>, <<"%s", "%0d", "%s">>, {1}),
    InternalTxBlockIndexKey |-> Family(<<"index", "internal", "block">>, <<"%0d", "%s">>, {})]

Transfer(token) == Family(<<"data", token, "transfer">>, <<"%s", "%0d">>, {})

TransferIndex(token, party) ==
    Family(<<"index", token, party>>, <<"%s", "%0d", "%0d">>, {1})

TransferKeys == [
    ERC20TransferKey |-> Transfer("erc20"),
    ERC20TokenIndexKey |-> TransferIndex("erc20", "token"),
    ERC20FromIndexKey |-> TransferIndex("erc20", "from"),
    ERC20ToIndexKey |-> TransferIndex("erc20", "to"),
    ERC721TransferKey |-> Transfer("erc721"),
    ERC721TokenIndexKey |-> TransferIndex("erc721", "token"),
    ERC721FromIndexKey |-> TransferIndex("erc721", "from"),
    ERC721ToIndexKey |-> TransferIndex("erc721", "to"),
    ERC721TokenOwnerKey |-> Family(<<"index", "erc721", "tokenowner">>, <<"%s", "%d">>, {}),
    ERC721OwnerIndexKey |-> Family(<<"index", "erc721", "owner">>, <<"%s", "%s", "%d">>, {1})]

LogIndex(name) == Family(<<"index", "logs", name>>, <<"%s", "%0d", "%0d", "%0d">>, {1})

LogKeys == [
    LogKey |-> Data("logs", <<"%0d", "%0d", "%0d">>, {0, 1}),
    LogAddressIndexKey |-> LogIndex("addr"),
    LogTopic0IndexKey |-> LogIndex("topic0"),
    LogTopic1IndexKey |-> LogIndex("topic1"),
    LogTopic2IndexKey |-> LogIndex("topic2"),
    LogTopic3IndexKey |-> LogIndex("topic3"),
    LogBlockIndexKey |-> Family(<<"index", "logs", "block">>, <<"%0d", "%0d", "%0d">>, {1})]

VerificationKeys == [
    ABIKey |-> Data("abi", <<"%s">>, {0}),
    ContractVerificationKey |-> Data("verification", <<"%s">>, {0}),
    VerifiedContractIndexKey |->
        Family(<<"index", "verification", "verified">>, <<"%0d", "%s">>, {0})]

\* The keys of a multi-chain database: the same paths under the chain.
OfChain(names, fields, scans) == Family(<<"chain">>, <<"%s">> \o names \o fields, scans)

ChainKeys == [
    ChainLatestHeightKey |-> OfChain(<<"meta", "lh">>, <<>>, {}),
    ChainBlockKey |-> OfChain(<<"data", "blocks">>, <<"%d">>, {3}),
    ChainTransactionKey |-> OfChain(<<"data", "txs">>, <<"%d", "%d">>, {}),
    ChainReceiptKey |-> OfChain(<<"data", "receipts">>, <<"%s">>, {}),
    ChainLogKey |-> OfChain(<<"data", "logs">>, <<"%0d", "%0d", "%0d">>, {3}),
    ChainTxHashIndexKey |-> OfChain(<<"index", "txh">>, <<"%s">>, {}),
    ChainBlockHashIndexKey |-> OfChain(<<"index", "blockh">>, <<"%s">>, {}),
    ChainAddressTransactionKey |-> OfChain(<<"index", "addr">>, <<"%s", "%0d">>, {4}),
    ChainBlockCountKey |-> OfChain(<<"meta", "bc">>, <<>>, {}),
    ChainTransactionCountKey |-> OfChain(<<"meta", "tc">>, <<>>, {}),
    ChainLogAddressIndexKey |->
        OfChain(<<"index", "logs", "addr">>, <<"%s", "%0d", "%0d", "%0d">>, {5}),
    ChainLogTopic0IndexKey |->
        OfChain(<<"index", "logs", "topic0">>, <<"%s", "%0d", "%0d", "%0d">>, {5}),
    ChainERC20TransferKey |-> OfChain(<<"data", "erc20", "transfer">>, <<"%s", "%0d">>, {}),
    ChainERC721TransferKey |-> OfChain(<<"data", "erc721", "transfer">>, <<"%s", "%0d">>, {})]

Notice(root, name, fields, scans) ==
    Family(<<root, "notification", name>>, fields, scans)

NotificationKeys == [
    FeeDelegationMetaKey |-> Data("feedelegation", <<"%s">>, {}),
    FeeDelegationPayerIndexKey |->
        Family(<<"index", "feedelegation", "payer">>, <<"%s", "%0d", "%s">>, {1}),
    NotificationSettingKey |-> Notice("data", "setting", <<"%s">>, {0}),
    NotificationKey |-> Notice("data", "notif", <<"%s">>, {0}),
    NotificationHistoryKey |-> Notice("data", "history", <<"%s", "%0d">>, {1}),
    NotificationStatsKey |-> Notice("data", "stats", <<"%s">>, {}),
    NotificationStatusIndexKey |-> Notice("index", "status", <<"%s", "%0d", "%s">>, {1}),
    NotificationSettingIndexKey |-> Notice("index", "setting", <<"%s", "%0d", "%s">>, {1}),
    NotificationPendingIndexKey |-> Notice("index", "pending", <<"%0d", "%s">>, {0})]

Token(root, names, fields, scans) == Family(<<root, "token">> \o names, fields, scans)

TokenKeys == [
    TokenMetadataKey |-> Token("data", <<"metadata">>, <<"%s">>, {0}),
    TokenStandardIndexKey |-> Token("index", <<"standard">>, <<"%s", "%s">>, {1}),
    TokenSymbolIndexKey |-> Token("index", <<"symbol">>, <<"lower", "%s">>, {1}),
    TokenNameIndexKey |-> Token("index", <<"name">>, <<"lower", "%s">>, {0, 1})]

HolderKeys == [
    TokenHolderKey |-> Token("data", <<"holder">>, <<"%s", "%s">>, {1}),
    TokenHolderStatsKey |-> Token("data", <<"holderstats">>, <<"%s">>, {}),
    TokenHolderByTokenIndexKey |->
        Token("index", <<"holder", "token">>, <<"%s", "inverted", "%s">>, {1}),
    TokenHolderByHolderIndexKey |->
        Token("index", <<"holder", "holder">>, <<"%s", "%s">>, {1})]

SetCode(root, name, fields, scans) == Family(<<root, "setcode", name>>, fields, scans)

SetCodeKeys == [
    SetCodeAuthorizationKey |-> SetCode("data", "auth", <<"%s", "%0d">>, {0, 1}),
    SetCodeDelegationStateKey |-> SetCode("data", "delegation", <<"%s">>, {0}),
    SetCodeStatsKey |-> SetCode("data", "stats", <<"%s">>, {0}),
    SetCodeTargetIndexKey |-> SetCode("index", "target", <<"%s", "%0d", "%0d", "%0d">>, {1}),
    SetCodeAuthorityIndexKey |->
        SetCode("index", "authority", <<"%s", "%0d", "%0d", "%0d">>, {1}),
    SetCodeBlockIndexKey |-> SetCode("index", "block", <<"%0d", "%0d", "%0d">>, {0, 1}),
    SetCodeTxIndexKey |-> SetCode("index", "tx", <<"%s", "%0d">>, {1})]

ModuleKeys == [
    ModuleKey |-> Data("module", <<"%s", "%s">>, {1}),
    ModuleStatsKey |-> Family(<<"data", "module", "stats">>, <<"%s">>, {0}),
    ModuleAccountIndexKey |->
        Family(<<"index", "module", "account">>, <<"%s", "%0d", "%s">>, {1}),
    ModuleTypeIndexKey |->
        Family(<<"index", "module", "type">>, <<"%0d", "%0d", "%s", "%s">>, {1}),
    ModuleBlockIndexKey |-> Family(<<"index", "module", "block">>, <<"%0d", "%s", "%s">>, {0, 1})]

OpIndex(name) == Family(<<"index", "userop", name>>, <<"%s", "%0d", "%0d", "lost">>, {1})

UserOpKeys == [
    UserOpKey |-> Data("userop", <<"%s">>, {0}),
    BundlerStatsKey |-> Family(<<"data", "bundler", "stats">>, <<"%s">>, {0}),
    FactoryStatsKey |-> Family(<<"data", "factory", "stats">>, <<"%s">>, {0}),
    PaymasterStatsKey |-> Family(<<"data", "paymaster", "stats">>, <<"%s">>, {0}),
    SmartAccountKey |-> Data("smartaccount", <<"%s">>, {0}),
    UserOpSenderIndexKey |-> OpIndex("sender"),
    UserOpBundlerIndexKey |-> OpIndex("bundler"),
    UserOpPaymasterIndexKey |-> OpIndex("paymaster"),
    UserOpFactoryIndexKey |-> OpIndex("factory"),
    UserOpBlockIndexKey |->
        Family(<<"index", "userop", "block">>, <<"%0d", "%0d", "lost">>, {0, 1}),
    UserOpTxIndexKey |-> Family(<<"index", "userop", "tx">>, <<"%s", "%0d">>, {1})]

Watch(names, fields, scans) == Family(<<"wl">> \o names, fields, scans)

WatchlistKeys == [
    WatchedAddressKey |-> Watch(<<"addr">>, <<"%s">>, {0}),
    ChainAddressesKey |-> Watch(<<"chain">>, <<"%s", "%s">>, {1}),
    BloomFilterKey |-> Watch(<<"bloom">>, <<"%s">>, {}),
    SubscriberKey |-> Watch(<<"sub">>, <<"%s">>, {0}),
    AddressSubscribersKey |-> Watch(<<"addr_subs">>, <<"%s", "%s">>, {1}),
    WatchEventKey |-> Watch(<<"event">>, <<"%s", "%0d", "%s", "%0d">>, {0, 1}),
    EventIndexKey |-> Watch(<<"eventidx">>, <<"%s", "%0d", "%s">>, {1}),
    AddressByEthAddressKey |-> Watch(<<"idx", "addr">>, <<"%s", "%s">>, {1}),
    AddressStatsKey |-> Watch(<<"stats">>, <<"%s">>, {0})]

Schema ==
    FoldSeq(LAMBDA more, all : [f \in DOMAIN more \cup DOMAIN all |->
                IF f \in DOMAIN more THEN more[f] ELSE all[f]],
            BlockKeys,
            <<HistoryKeys, SystemContractKeys, SystemContractIndexKeys, WBFTKeys,
              ContractKeys, TransferKeys, LogKeys, VerificationKeys, ChainKeys,
              NotificationKeys, TokenKeys, HolderKeys, SetCodeKeys, ModuleKeys,
              UserOpKeys, WatchlistKeys>>)
-------------------------------------------------------------------------------
(* Keys and scans.  An entry is a record of a family with values for its   *)
(* fields; a log's entry also has its body.                                *)

Path(family) == [i \in DOMAIN Schema[family].path |-> <<Schema[family].path[i]>>]

\* The key, or its beginning with the first num fields.
KeyPrefix(family, values, num) ==
    Path(family) \o FlattenSeq([i \in 1 .. num |-> Format(Schema[family].fields[i], values[i])])

Key(e) == KeyPrefix(e.family, e.values, Len(Schema[e.family].fields))

\* Tuples with one value for every field.
Tuples(sets) ==
    LET Of[num \in 0 .. Len(sets)] ==
            IF num = 0 THEN {<<>>}
            ELSE {Append(t, x) : t \in Of[num - 1], x \in sets[num]}
    IN  Of[Len(sets)]

Entries(family) ==
    LET verbs == Schema[family].fields
    IN  {[family |-> family, values |-> v, body |-> <<>>] :
            v \in Tuples([i \in DOMAIN verbs |-> ValuesOf(verbs[i])])}

\* Order of the bytes of two components.
ComponentLess(a, b) ==
    \/ IsStrictPrefix(a, b)
    \/ \E i \in 1 .. Len(a) :
          /\ i <= Len(b)
          /\ \A j \in 1 .. i - 1 : a[j] = b[j]
          /\ \E x, y \in DOMAIN Digit : a[i] = Digit[x] /\ b[i] = Digit[y] /\ x < y

\* Order of the bytes of two keys that differ first in a number.
KeyLess(k, l) ==
    \E i \in DOMAIN k :
        /\ i <= Len(l)
        /\ \A j \in 1 .. i - 1 : k[j] = l[j]
        /\ ComponentLess(k[i], l[i])

\* Iterating from a prefix to its upper bound (append(prefix, 0xff),
\* prefixUpperBound, incrementPrefix): the keys under the prefix.
ScanPrefix(db, prefix) == {k \in DOMAIN db : IsPrefix(prefix, k)}

\* Iterating from prefix/from to prefix/to + 1, exclusive.
ScanRange(db, prefix, from, to) ==
    {k \in ScanPrefix(db, prefix) :
        LET c == k[Len(prefix) + 1]
        IN  ~ComponentLess(c, Padded(Digits[from])) /\ ComponentLess(c, Padded(Digits[to + 1]))}

\* Families read by a range of the field after the given number of fields.
RangeReads == [
    BlockTimestampKey |-> 0, MintEventKey |-> 0, BurnEventKey |-> 0,
    GasTipUpdateEventKey |-> 0, MintMinterIndexKey |-> 1, BurnBurnerIndexKey |-> 1,
    LogAddressIndexKey |-> 1, LogTopic0IndexKey |-> 1, LogTopic1IndexKey |-> 1,
    LogTopic2IndexKey |-> 1, LogTopic3IndexKey |-> 1]
\* Keys that sort after all of /index/time/.
AfterTimes(k) ==
    \/ k[1] \in {<<"meta">>, <<"wl">>}
    \/ k[1] = <<"index">> /\ k[2] \in {<<name>> : name \in {"token", "txh", "userop",
                                                    "verification", "wbft"}}

\* GetBlockByTimestamp: where the iterator stands after SeekGE and, if there is
\* nothing at or after the time, Last.  It has no upper bound.
TimestampCandidates(db, time) ==
    LET times == ScanPrefix(db, Path("BlockTimestampKey"))
        later == {k \in times : ~ComponentLess(k[3], Padded(Digits[time]))}
        beyond == {k \in DOMAIN db : AfterTimes(k)}
    IN  IF later # {} THEN {k \in later : \A l \in later : ~KeyLess(l, k)}
        ELSE IF beyond # {} THEN beyond     \* the first of them
        ELSE {k \in times : \A l \in times : ~KeyLess(k, l)}
-------------------------------------------------------------------------------
(* Logs. *)

LogEntry(family, leading, l) ==
    [family |-> family,
     values |-> leading \o <<Digits[l.block], Digits[l.tx], Digits[l.log]>>,
     body |-> IF family = "LogKey" THEN <<l>> ELSE <<>>]

TopicFamily(i) ==
    <<"LogTopic0IndexKey", "LogTopic1IndexKey", "LogTopic2IndexKey", "LogTopic3IndexKey">>[i]

\* indexLogToBatch: the log, and its entries by address, topics and block.
indexLogToBatch(l) ==
    {LogEntry("LogKey", <<>>, l), LogEntry("LogAddressIndexKey", <<<<l.address>>>>, l),
     LogEntry("LogBlockIndexKey", <<>>, l)}
    \cup {LogEntry(TopicFamily(i), <<<<l.topics[i]>>>>, l) : i \in DOMAIN l.topics}

\* The logs behind index keys: the last three components are read back from
\* the key, and an index key without a log is passed over.
LogsBehind(db, keys) ==
    LET ordered == SetToSortSeq(keys, KeyLess)
        data == [i \in DOMAIN ordered |->
                    Path("LogKey") \o SubSeq(ordered[i], Len(ordered[i]) - 2, Len(ordered[i]))]
        found == SelectSeq(data, LAMBDA k : k \in DOMAIN db)
    IN  [i \in DOMAIN found |-> db[found[i]].body[1]]

GetLogsByBlock(db, block) ==
    LogsBehind(db, ScanPrefix(db, KeyPrefix("LogBlockIndexKey", <<Digits[block]>>, 1)))

getLogsByAddressRange(db, address, from, to) ==
    LogsBehind(db, ScanRange(db, KeyPrefix("LogAddressIndexKey", <<<<address>>>>, 1), from, to))

getLogsByTopicRange(db, topic, i, from, to) ==
    LogsBehind(db, ScanRange(db, KeyPrefix(TopicFamily(i), <<<<topic>>>>, 1), from, to))

\* An empty list of options stands for any topic at its place.
matchesTopicFilter(l, topics) ==
    \A i \in DOMAIN topics :
        topics[i] # <<>> => /\ i <= Len(l.topics)
                            /\ l.topics[i] \in Range(topics[i])

\* Blocks gathered without the last one of the range.
GatherShort(db, f, to) ==
    IF f.addresses # <<>>
    THEN FlattenSeq([i \in DOMAIN f.addresses |->
                        getLogsByAddressRange(db, f.addresses[i], f.from, to)])
    ELSE FlattenSeq([i \in 1 .. to - f.from |-> GetLogsByBlock(db, f.from + i - 1)])

\* The address index if addresses are asked, else the index of the first
\* topic, else the blocks one after the other.
Gather(db, f, to) ==
    IF f.addresses # <<>>
    THEN FlattenSeq([i \in DOMAIN f.addresses |->
                        getLogsByAddressRange(db, f.addresses[i], f.from, to)])
    ELSE IF f.topics # <<>> /\ f.topics[1] # <<>>
    THEN FlattenSeq([i \in DOMAIN f.topics[1] |->
                        getLogsByTopicRange(db, f.topics[1][i], 1, f.from, to)])
    ELSE FlattenSeq([i \in 1 .. to - f.from + 1 |-> GetLogsByBlock(db, f.from + i - 1)])

\* A to of 0 is the latest height; a range that ends before it starts, or is
\* too long, is refused (the difference wraps).
LastBlock(f) == IF f.to = 0 THEN Latest ELSE f.to

Refused(f) == LastBlock(f) < f.from \/ LastBlock(f) - f.from > MaxBlockRange

GetLogs(db, f) ==
    SelectSeq(Gather(db, f, LastBlock(f)), LAMBDA l : matchesTopicFilter(l, f.topics))
-------------------------------------------------------------------------------
KeysInit ==
    /\ store = [k \in {} |-> {}]
    /\ put = {}
    /\ writes = 0
    /\ reindexed = FALSE

Write(entries) ==
    /\ writes < MaxWrites
    /\ writes' = writes + 1
    /\ store' = [k \in DOMAIN store \cup {Key(e) : e \in entries} |->
                    IF \E e \in entries : Key(e) = k
                    THEN CHOOSE e \in entries : Key(e) = k
                    ELSE store[k]]
    /\ put' = put \cup entries
    /\ reindexed' = FALSE

Records == UNION {Entries(family) : family \in DOMAIN Schema \ DOMAIN LogKeys}

\* Bound: records of two families meet with the same values in both.
Samples ==
    {e \in Records : \A i \in DOMAIN e.values :
        e.values[i] = CHOOSE v \in ValuesOf(Schema[e.family].fields[i]) : TRUE}
    \cup indexLogToBatch(CHOOSE l \in Logs : TRUE)

Unrelated(entries) ==
    \E d \in put, e \in entries :
        /\ d.family # e.family
        /\ {d.family, e.family} \ DOMAIN LogKeys # {}
        /\ ~({d, e} \subseteq Samples)

\* Any writer of the schema, also those only the tests call.
Put == \E e \in Records : ~Unrelated({e}) /\ Write({e})

\* IndexLogs commits the entries of all logs of a receipt in one batch.
IndexLogs ==
    \E l, m \in Logs :
        LET entries == indexLogToBatch(l) \cup indexLogToBatch(m)
        IN  ~Unrelated(entries) /\ Write(entries)

\* reindexData: the prefixes that hold blockchain data.
deletePrefixes ==
    {<<"data", name>> : name \in
        {"blocks", "txs", "receipts", "contractaddr", "logs", "internal", "contract",
         "erc20", "erc721", "syscontracts", "wbft", "token", "setcode", "aa",
         "feedelegation", "notification"}}
    \cup {<<"index", name>> : name \in
        {"txh", "addr", "blockh", "time", "balance", "syscontracts", "wbft", "contract",
         "internal", "erc20", "erc721", "logs", "feedelegation", "notification",
         "token", "setcode", "aa"}}
    \cup {<<"meta">>, <<"chain">>}

\* What the documentation says --reindex preserves.
Verification == DOMAIN VerificationKeys

Under(p, k) == IsPrefix([i \in DOMAIN p |-> <<p[i]>>], k)

\* DeleteByPrefix on every prefix; a prefix whose deletion fails is passed over
\* (one at most).
Reindex ==
    /\ ~reindexed /\ put # {}
    /\ \E failed \in {{}} \cup {{p} : p \in {q \in deletePrefixes :
                                                \E k \in DOMAIN store : Under(q, k)}} :
          LET kept == {k \in DOMAIN store :
                        \A p \in deletePrefixes \ failed : ~Under(p, k)}
          IN  /\ store' = [k \in kept |-> store[k]]
              /\ put' = {e \in put : e.family \in Verification \/ Key(e) \in kept}
              /\ reindexed' = (failed = {})
    /\ UNCHANGED writes

KeysNext == Put \/ IndexLogs \/ Reindex

KeysSpec == KeysInit /\ [][KeysNext]_keyVars
-------------------------------------------------------------------------------
(* Properties. *)

Lossless(family) == "lost" \notin Range(Schema[family].fields)

\* Fields mean the same: labels are searched without regard to case.
SameValue(verb, v, w) ==
    IF verb = "lower" THEN Format(verb, v) = Format(verb, w) ELSE v = w

SameValues(family, v, w, num) ==
    \A i \in 1 .. num : SameValue(Schema[family].fields[i], v[i], w[i])

\* A record stays under its key until it is deleted: no other record of the
\* schema has that key (but for the families that leave a part of the
\* identity out), and --reindex takes no verification data.  And every scan of
\* a prefix finds the records of its family with the fields it asks, and
\* nothing that another family put there.
KeysIdentify ==
    /\ \A e \in put :
          Lossless(e.family) =>
              /\ Key(e) \in DOMAIN store
              /\ store[Key(e)].family = e.family
              /\ SameValues(e.family, store[Key(e)].values, e.values, Len(e.values))
    /\ \A e, d \in put : \A num \in Schema[e.family].scans :
          Key(d) \in ScanPrefix(store, KeyPrefix(e.family, e.values, num))
              <=> d.family = e.family /\ SameValues(e.family, d.values, e.values, num)

\* Where a scan goes on to a number of fixed width, keys come in the order of
\* the numbers (balances from the largest down), and a range of blocks finds
\* exactly the records of those blocks.
ScansInOrder ==
    /\ \A e, d \in put : \A num \in Schema[e.family].scans :
          (/\ d.family = e.family /\ SameValues(e.family, d.values, e.values, num)
           /\ num < Len(e.values)) =>
              LET verb == Schema[e.family].fields[num + 1]
                  less == Value(d.values[num + 1]) < Value(e.values[num + 1])
              IN  /\ verb = "%0d" /\ less => KeyLess(Key(d), Key(e))
                  /\ verb = "inverted" /\ less => KeyLess(Key(e), Key(d))
    /\ \A e, d \in put : e.family \in DOMAIN RangeReads =>
          LET num == RangeReads[e.family]
          IN  \A from, to \in Numbers :
                 Key(d) \in ScanRange(store, KeyPrefix(e.family, e.values, num), from, to)
                    <=> /\ d.family = e.family /\ SameValues(e.family, d.values, e.values, num)
                        /\ Value(d.values[num + 1]) \in from .. to

\* What eth_getLogs means, whatever index answers it.
Matches(l, f) ==
    /\ l.block \in f.from .. LastBlock(f)
    /\ f.addresses = <<>> \/ l.address \in Range(f.addresses)
    /\ matchesTopicFilter(l, f.topics)

Position(l) == l.block * 10000 + l.tx * 100 + l.log

\* GetLogs finds exactly the indexed logs the filter means, by address, by
\* topic or block by block (but for logs a failed --reindex left without their
\* entries), and in the order of the chain when one list is read.
LogsAnswered ==
    LET stored == {e.body[1] : e \in {d \in put : d.family = "LogKey"}}
    IN  stored # {} =>
          \A f \in LogFilters : ~Refused(f) =>
            LET logs == GetLogs(store, f)
            IN  /\ Range(logs) \subseteq {l \in stored : Matches(l, f)}
                /\ \A l \in stored :
                      indexLogToBatch(l) \subseteq put /\ Matches(l, f) => l \in Range(logs)
                /\ (Len(f.addresses) <= 1 /\ (f.topics = <<>> \/ Len(f.topics[1]) <= 1)) =>
                      \A i, j \in DOMAIN logs : i < j => Position(logs[i]) < Position(logs[j])

-------------------------------------------------------------------------------
(* Claims of the documentation. *)

\* README: --reindex clears all blockchain-derived data, the user operations,
\* their statistics and the modules included.
ReindexClears ==
    reindexed => \A e \in put : e.family \in Verification \cup DOMAIN WatchlistKeys

\* GetBlockByTimestamp: after the last block's time it is the last block.
TimestampAnswered ==
    (\E e \in put : e.family = "BlockTimestampKey") =>
        \A time \in Numbers : \A k \in TimestampCandidates(store, time) :
            store[k].family = "BlockTimestampKey"

\* Every event has a key of its own.
EventsKept == \A e \in put : Key(e) \in DOMAIN store /\ store[Key(e)] = e

\* BlockKeyRange: the blocks of a range are between its two keys.
BlocksInRange ==
    \A e \in put : e.family = "BlockKey" =>
        \A from, to \in Numbers : Value(e.values[1]) \in from .. to =>
            /\ ~ComponentLess(Unpadded(e.values[1]), Unpadded(Digits[from]))
            /\ ComponentLess(Unpadded(e.values[1]), Unpadded(Digits[to + 1]))
===============================================================================
