------------------------------ MODULE Filters ------------------------------
(***************************************************************************)
(* Filters of the JSON-RPC server (filter_manager.go, methods_filter.go)   *)
(* and the pool of pending transactions they read (pending_pool.go).       *)
(* eth_getFilterChanges looks the filter up twice, reads the store and the *)
(* position of the filter without a lock, and stores the new position      *)
(* under the identifier, not in the filter it read; other requests, the    *)
(* indexer and both clean-ups run in between.                              *)
(***************************************************************************)
EXTENDS Integers, Sequences, FiniteSets

CONSTANTS
    Pollers,     \* requests in flight
    Hashes,      \* transactions
    Kinds,       \* of filters: "Log", "Block", "Pending"; the first two are read alike
    IdBits,      \* generateID keeps this many bits of its counter (8)
    MaxSize,     \* capacity of the pool
    MaxHeight,   \* bound: blocks
    MaxFilters,  \* bound: filters made
    MaxSeen      \* bound: transactions added to the pool

ASSUME IdBitsAssumption == IdBits \in Nat /\ 2^IdBits \in Nat \ {0}

VARIABLES
    height, top, \* latest height, and highest block stored
    filter,      \* filter objects: [kind, from, last, told]; from: position at creation
    table,       \* identifier -> filter object
    poll,        \* each request: [at, id, o, height, found]
    transactions, details, \* hashes in order of arrival, hash -> SeenIndex
    nextIndex

pool == <<transactions, details, nextIndex>>
filterVars == <<height, top, filter, table, poll, pool>>

NoPoll == [at |-> "idle", kind |-> "", id |-> 0, o |-> 0, height |-> 0, found |-> {}]

FiltersInit ==
    /\ height = 0 /\ top = 0 /\ filter = <<>> /\ table = <<>>
    /\ poll = [p \in Pollers |-> NoPoll]
    /\ transactions = <<>> /\ details = <<>> /\ nextIndex = 1

Bind(f, k, v) == [x \in DOMAIN f \cup {k} |-> IF x = k THEN v ELSE f[x]]
Drop(f, ks) == [x \in DOMAIN f \ ks |-> f[x]]
PollAt(p, r) == poll' = [poll EXCEPT ![p] = r]

-----------------------------------------------------------------------------
(* Filter manager.                                                         *)

\* byte(id): the counter is cut to its low bits.
generateID == (Len(filter) + 1) % 2^IdBits

\* The handler reads the latest height, and the filter is made afterwards.
ReadHeightForNew(p, kind) ==
    /\ poll[p].at = "idle" /\ Len(filter) < MaxFilters
    /\ PollAt(p, [NoPoll EXCEPT !.at = "new", !.kind = kind, !.height = height])
    /\ UNCHANGED <<height, top, filter, table, pool>>

NewFilter(p) ==
    LET kind == poll[p].kind
        from == IF kind = "Pending" THEN nextIndex - 1 ELSE poll[p].height
    IN  /\ poll[p].at = "new" /\ Len(filter) < MaxFilters
        /\ filter' = Append(filter, [kind |-> kind, from |-> from, last |-> from, told |-> {}])
        /\ table' = Bind(table, generateID, Len(filter) + 1)
        /\ PollAt(p, NoPoll)
        /\ UNCHANGED <<height, top, pool>>

RemoveFilter(id) ==
    /\ id \in DOMAIN table
    /\ table' = Drop(table, {id})
    /\ UNCHANGED <<height, top, filter, poll, pool>>

\* Every filter may have gone without a poll for longer than the timeout.
expireFilters ==
    /\ \E ids \in SUBSET DOMAIN table : ids # {} /\ table' = Drop(table, ids)
    /\ UNCHANGED <<height, top, filter, poll, pool>>

\* eth_getFilterChanges: a first lookup decides what kind of filter it is.
GetFilter(p, id) ==
    /\ poll[p].at = "idle" /\ id \in DOMAIN table
    /\ PollAt(p, [NoPoll EXCEPT !.at = "again", !.id = id, !.o = table[id]])
    /\ UNCHANGED <<height, top, filter, table, pool>>

\* A second lookup gives the filter that is read.  If it is gone or of another
\* kind, nothing is found and the height is 0.
GetFilterAgain(p) ==
    LET r == poll[p]
        kind == filter[r.o].kind
        same == r.id \in DOMAIN table /\ filter[table[r.id]].kind = kind
    IN  /\ r.at = "again"
        /\ PollAt(p, IF same THEN [r EXCEPT !.at = IF kind = "Pending" THEN "pending" ELSE "height", !.o = table[r.id]]
                 ELSE IF kind = "Pending" THEN NoPoll
                 ELSE [r EXCEPT !.at = "update", !.height = 0])
        /\ UNCHANGED <<height, top, filter, table, pool>>

GetLatestHeight(p) ==
    /\ poll[p].at = "height"
    /\ PollAt(p, [poll[p] EXCEPT !.at = "read", !.height = height])
    /\ UNCHANGED <<height, top, filter, table, pool>>

\* GetLogs, or GetBlock one by one: the blocks after the position of the filter.
GetLogsSinceLastPoll(p) ==
    /\ poll[p].at = "read"
    /\ PollAt(p, [poll[p] EXCEPT !.at = "update", !.found = (filter[poll[p].o].last + 1)..poll[p].height])
    /\ UNCHANGED <<height, top, filter, table, pool>>

\* The store reports an error: the position stays.
PollFails(p) ==
    /\ poll[p].at \in {"height", "read"}
    /\ PollAt(p, NoPoll)
    /\ UNCHANGED <<height, top, filter, table, pool>>

\* The answer goes out with what was found in the filter that was read.
Told(o, found) == [filter EXCEPT ![o].told = @ \cup found]

\* Mutant: the position becomes the latest height at the end of the poll.
UpdateLastPollBlockLate(p) ==
    /\ poll[p].at = "update"
    /\ filter' = LET f == Told(poll[p].o, poll[p].found)
                 IN  IF poll[p].id \in DOMAIN table THEN [f EXCEPT ![table[poll[p].id]].last = height] ELSE f
    /\ PollAt(p, NoPoll)
    /\ UNCHANGED <<height, top, table, pool>>

UpdateLastPollBlock(p) ==
    /\ poll[p].at = "update"
    /\ filter' = LET f == Told(poll[p].o, poll[p].found)
                 IN  IF poll[p].id \in DOMAIN table THEN [f EXCEPT ![table[poll[p].id]].last = poll[p].height] ELSE f
    /\ PollAt(p, NoPoll)
    /\ UNCHANGED <<height, top, table, pool>>

-----------------------------------------------------------------------------
(* Pending transactions.                                                   *)

\* The new position is the highest index found, not the counter.
GetTransactionsSince(p) ==
    LET since == filter[poll[p].o].last
        found == {details[transactions[i]] : i \in DOMAIN transactions} \cap (since + 1)..nextIndex
        newest == CHOOSE n \in found \cup {since} : \A m \in found : m <= n
    IN  /\ poll[p].at = "pending"
        /\ PollAt(p, [poll[p] EXCEPT !.at = "update", !.found = found, !.height = newest])
        /\ UNCHANGED <<height, top, filter, table, pool>>

\* A full pool gives up its oldest transaction.
AddTransaction(h) ==
    /\ h \notin DOMAIN details /\ nextIndex <= MaxSeen
    /\ LET full == transactions # <<>> /\ Len(transactions) >= MaxSize
       IN  /\ transactions' = Append(IF full THEN Tail(transactions) ELSE transactions, h)
           /\ details' = Bind(IF full THEN Drop(details, {Head(transactions)}) ELSE details, h, nextIndex)
    /\ nextIndex' = nextIndex + 1
    /\ UNCHANGED <<height, top, filter, table, poll>>

RemoveTransaction(h) ==
    /\ h \in DOMAIN details
    /\ details' = Drop(details, {h})
    /\ \E i \in DOMAIN transactions :
          /\ transactions[i] = h /\ \A j \in 1..i - 1 : transactions[j] # h
          /\ transactions' = SubSeq(transactions, 1, i - 1) \o SubSeq(transactions, i + 1, Len(transactions))
    /\ UNCHANGED <<height, top, filter, table, poll, nextIndex>>

\* Transactions are older the earlier they were seen: a prefix expires.
PoolCleanup ==
    /\ \E k \in 1..Len(transactions) :
          /\ transactions' = SubSeq(transactions, k + 1, Len(transactions))
          /\ details' = Drop(details, {transactions[i] : i \in 1..k})
    /\ UNCHANGED <<height, top, filter, table, poll, nextIndex>>

-----------------------------------------------------------------------------
(* External: the indexer.  The latest height is set when the block and its *)
(* logs are stored; gap recovery sets it to the height it has filled.      *)
IndexBlock ==
    /\ top < MaxHeight
    /\ top' = top + 1 /\ height' = top + 1
    /\ UNCHANGED <<filter, table, poll, pool>>

FillGap ==
    /\ height' \in 1..top /\ height' # height
    /\ UNCHANGED <<top, filter, table, poll, pool>>

FiltersNext ==
    \/ IndexBlock \/ FillGap \/ expireFilters \/ PoolCleanup
    \/ \E h \in Hashes : AddTransaction(h) \/ RemoveTransaction(h)
    \/ \E id \in DOMAIN table : RemoveFilter(id)
    \/ \E p \in Pollers :
          \/ \E kind \in Kinds : ReadHeightForNew(p, kind)
          \/ NewFilter(p)
          \/ \E id \in DOMAIN table : GetFilter(p, id)
          \/ GetFilterAgain(p) \/ GetLatestHeight(p) \/ GetLogsSinceLastPoll(p) \/ PollFails(p)
          \/ UpdateLastPollBlock(p) \/ GetTransactionsSince(p)

FiltersSpec == FiltersInit /\ [][FiltersNext]_filterVars

-----------------------------------------------------------------------------
Pooled == {details[h] : h \in DOMAIN details}

\* A filter never moves past something it has not reported: every block, and
\* every transaction that is still in the pool, between its creation and its
\* position has gone out in an answer, however its polls overlap.  This holds
\* as long as no identifier has been given out twice.
NothingSkipped ==
    \A id \in DOMAIN table : LET f == filter[table[id]]
                             IN  table[id] <= 2^IdBits =>
                                    (IF f.kind = "Pending" THEN Pooled ELSE 1..top)
                                        \cap (f.from + 1)..f.last \subseteq f.told

\* Documented claim ("generates a unique filter ID"): a new filter does not
\* take the place of one that is in use.
UniqueIds == [][\A id \in DOMAIN table \cap DOMAIN table' : table'[id] = table[id]]_filterVars
=============================================================================
