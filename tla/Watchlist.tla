----------------------------- MODULE Watchlist -----------------------------
(***************************************************************************)
(* pkg/watchlist: watched addresses with a filter each, kept in the store  *)
(* and in a matcher that asks a Bloom filter first.  Calls of the API and  *)
(* the processing of blocks exclude each other by the lock mu; subMu       *)
(* guards the subscribers.  A call that holds mu alone is one step once it *)
(* has the lock; each of its writes may fail.  One chain is watched.       *)
(***************************************************************************)
EXTENDS Integers, Sequences, FiniteSets

CONSTANTS
    Addrs,       \* addresses of the chain
    Hash,        \* bits of each address in the Bloom filter
    Filters,     \* [txFrom, txTo, erc20, erc721, logs: BOOLEAN, min: value]
    Blocks,      \* sequence of blocks: sequences of items (MatchItem)
    Callers,
    Subs,        \* subscription identifiers
    MaxIds,      \* bound: calls of WatchAddress that store something
    MaxFaults,   \* bound: failing writes
    MaxReboots, \* bound: reboots of the process
    NoAddress

ASSUME WatchlistAssumption ==
    /\ NoAddress \notin Addrs
    /\ MaxIds \in Nat
    /\ Filters \subseteq [txFrom : BOOLEAN, txTo : BOOLEAN, erc20 : BOOLEAN, erc721 : BOOLEAN,
                          logs : BOOLEAN, min : Int]
    /\ \A b \in DOMAIN Blocks :
          /\ b \in Nat /\ Len(Blocks[b]) \in Nat /\ DOMAIN Blocks[b] = 1..Len(Blocks[b])
          /\ \A i \in DOMAIN Blocks[b] : Blocks[b][i].kind \in {"tx", "log"}

VARIABLES
    watched,        \* identifier -> [addr, filter, total]
    lookup,      \* address -> identifier
    matcher,     \* address -> identifier: the addresses of the matcher
    bits,        \* the Bloom filter in memory
    events,      \* entries of the event index: <<identifier, serial number>>
    subscribers, addrSubs, \* subscription -> identifier, and the reverse
    block,       \* blocks processed
    found,       \* events of the block in hand still to be recorded
    op, held, at, \* each caller: what it does, the locks it has, where it is
    ids, faults, reboots,
    told,        \* history: <<address, identifier>> of the watches in force
    tainted,     \* history: addresses for which a write has failed or was cut short
    expected     \* history: events the filters ask for, by identifier

store == <<watched, lookup, events>>
memory == <<matcher, bits, subscribers, addrSubs>>
callers == <<op, held, at>>
bounds == <<ids, faults, reboots>>
watchHistory == <<told, tainted, expected>>
watchlistVars == <<store, memory, block, found, callers, bounds, watchHistory>>

Threads == Callers \cup {"fetcher"}
Put(f, k, v) == [x \in DOMAIN f \cup {k} |-> IF x = k THEN v ELSE f[x]]
Del(f, ks) == [x \in DOMAIN f \ ks |-> f[x]]

WatchlistInit ==
    /\ watched = <<>> /\ lookup = <<>> /\ events = {}
    /\ matcher = <<>> /\ bits = {} /\ subscribers = <<>> /\ addrSubs = [i \in 1..MaxIds |-> {}]
    /\ block = 0 /\ found = <<>>
    /\ op = [p \in Threads |-> NoAddress] /\ held = [p \in Threads |-> <<>>] /\ at = [p \in Threads |-> "idle"]
    /\ ids = 0 /\ faults = 0 /\ reboots = 0
    /\ told = {} /\ tainted = {} /\ expected = [i \in 1..MaxIds |-> 0]

-----------------------------------------------------------------------------
(* Locks: sync.RWMutex, in which a waiting writer keeps new readers out.   *)

\* Mutant: UnwatchAddress drops the subscribers first.
PlanSubscribersFirst(o) ==
    CASE o.name = "Watch" -> << <<"mu", "W">> >>
      [] o.name \in {"Unwatch", "Subscribe"} -> << <<"subMu", "W">>, <<"mu", IF o.name = "Unwatch" THEN "W" ELSE "R">> >>
      [] o.name = "Unsubscribe" -> << <<"subMu", "W">> >>
      [] o.name = "ProcessBlock" -> << <<"mu", "R">>, <<"subMu", "R">> >>

\* The locks a call takes, in order; the first is released last.
Plan(o) == CASE o.name = "Watch" -> << <<"mu", "W">> >>
             [] o.name = "Unwatch" -> << <<"mu", "W">>, <<"subMu", "W">> >>
             [] o.name = "Subscribe" -> << <<"subMu", "W">>, <<"mu", "R">> >>
             [] o.name = "Unsubscribe" -> << <<"subMu", "W">> >>
             [] o.name = "ProcessBlock" -> << <<"mu", "R">>, <<"subMu", "R">> >>

NextLock(p) == Plan(op[p])[Len(held[p]) + 1]
Waiting == {p \in Threads : at[p] = "lock"}
Holds(p, l, m) == \E i \in DOMAIN held[p] : held[p][i] = <<l, m>>
Grantable(p) ==
    LET l == NextLock(p)[1]
    IN  /\ \A q \in Threads \ {p} : ~Holds(q, l, "W")
        /\ NextLock(p)[2] = "W" => \A q \in Threads \ {p} : ~Holds(q, l, "R")
        /\ NextLock(p)[2] = "R" => \A q \in Waiting \ {p} : NextLock(q) # <<l, "W">>

Acquire(p) ==
    /\ at[p] = "lock" /\ Grantable(p)
    /\ held' = [held EXCEPT ![p] = Append(@, NextLock(p))]
    /\ at' = [at EXCEPT ![p] = "run"]
    /\ UNCHANGED <<store, memory, block, found, op, bounds, watchHistory>>

BeginCall(p, o) ==
    /\ at[p] = "idle"
    /\ op' = [op EXCEPT ![p] = o] /\ at' = [at EXCEPT ![p] = "lock"]
    /\ UNCHANGED <<store, memory, block, found, held, bounds, watchHistory>>

Running(p, name, n) == at[p] = "run" /\ op[p].name = name /\ Len(held[p]) = n
LockNext(p) == at' = [at EXCEPT ![p] = "lock"] /\ UNCHANGED <<op, held>>
Return(p) ==
    /\ op' = [op EXCEPT ![p] = NoAddress] /\ held' = [held EXCEPT ![p] = <<>>]
    /\ at' = [at EXCEPT ![p] = "idle"]

-----------------------------------------------------------------------------
(* The matcher.                                                            *)

MightContain(b, a) == Hash[a] \subseteq b

AddAddress(a, id) == matcher' = Put(matcher, a, id) /\ bits' = bits \cup Hash[a]

\* Mutant: the bits of a removed address are cleared.
RemoveAddressBits(a) == matcher' = Del(matcher, {a}) /\ bits' = bits \ Hash[a]

RemoveAddress(a) == matcher' = Del(matcher, {a}) /\ UNCHANGED bits

Watched(a) == a # NoAddress /\ MightContain(bits, a) /\ a \in DOMAIN matcher
FilterOf(a) == watched[matcher[a]].filter

If(c, a) == IF c THEN <<matcher[a]>> ELSE <<>>

\* MatchTransaction: sender, then recipient.
MatchTransaction(x) ==
    If(Watched(x.from) /\ FilterOf(x.from).txFrom /\ x.value >= FilterOf(x.from).min, x.from)
    \o If(Watched(x.to) /\ FilterOf(x.to).txTo /\ x.value >= FilterOf(x.to).min, x.to)

\* MatchLogs: the emitter, then both sides of a Transfer with three topics
\* (ERC-20) or four (ERC-721).
MatchLog(x) ==
    LET transfer(a) == /\ x.topics \in {3, 4} /\ Watched(a)
                       /\ IF x.topics = 4 THEN FilterOf(a).erc721 ELSE FilterOf(a).erc20
    IN  If(Watched(x.emitter) /\ FilterOf(x.emitter).logs, x.emitter)
        \o If(transfer(x.from), x.from) \o If(transfer(x.to), x.to)

MatchItem(x) == IF x.kind = "tx" THEN MatchTransaction(x) ELSE MatchLog(x)

-----------------------------------------------------------------------------
(* Calls of the API.                                                       *)

\* A write may fail: n of all have been done when the call gives up.
Outcome(n, all, a) ==
    /\ n \in 0..all
    /\ n < all => faults < MaxFaults
    /\ faults' = IF n < all THEN faults + 1 ELSE faults
    /\ tainted' = IF n < all THEN tainted \cup {a} ELSE tainted

\* An address that is found by the lookup index is refused; otherwise record,
\* chain index and lookup index are written, and then the matcher is told.
WatchAddress(p) ==
    /\ Running(p, "Watch", 1)
    /\ LET a == op[p].addr
           id == ids + 1
       IN  IF (a \in DOMAIN lookup /\ lookup[a] \in DOMAIN watched) \/ ids = MaxIds
           THEN UNCHANGED <<store, memory, bounds, watchHistory>>
           ELSE \E n \in 0..3 :
                /\ Outcome(n, 3, a)
                /\ ids' = id
                /\ watched' = IF n >= 1 THEN Put(watched, id, [addr |-> a, filter |-> op[p].filter, total |-> 0]) ELSE watched
                /\ lookup' = IF n = 3 THEN Put(lookup, a, id) ELSE lookup
                /\ IF n = 3 THEN AddAddress(a, id) /\ told' = told \cup {<<a, id>>}
                   ELSE UNCHANGED <<matcher, bits, told>>
                /\ UNCHANGED <<events, subscribers, addrSubs, reboots, expected>>
    /\ Return(p)
    /\ UNCHANGED <<block, found>>

\* The matcher forgets the address before the record is deleted; a failure to
\* delete an index entry is only logged.
UnwatchAddress(p) ==
    /\ Running(p, "Unwatch", 1)
    /\ LET id == op[p].id
           a == watched[id].addr
       IN  IF id \notin DOMAIN watched
           THEN Return(p) /\ UNCHANGED <<store, memory, bounds, watchHistory>>
           ELSE \E n \in 0..2 :
                /\ Outcome(n, 2, a)
                /\ RemoveAddress(a)
                /\ watched' = IF n >= 1 THEN Del(watched, {id}) ELSE watched
                /\ lookup' = IF n = 2 THEN Del(lookup, {a}) ELSE lookup
                /\ told' = told \ {<<a, id>>}
                /\ IF n = 0 THEN Return(p) ELSE LockNext(p)
                /\ UNCHANGED <<events, subscribers, addrSubs, ids, reboots, expected>>
    /\ UNCHANGED <<block, found>>

DropSubscribers(p) ==
    /\ Running(p, "Unwatch", 2)
    /\ subscribers' = Del(subscribers, addrSubs[op[p].id])
    /\ addrSubs' = [addrSubs EXCEPT ![op[p].id] = {}]
    /\ Return(p)
    /\ UNCHANGED <<store, matcher, bits, block, found, bounds, watchHistory>>

\* Subscribe holds subMu when it asks for mu.
SubscribeLocksMu(p) ==
    /\ Running(p, "Subscribe", 1)
    /\ LockNext(p)
    /\ UNCHANGED <<store, memory, block, found, bounds, watchHistory>>

Subscribe(p) ==
    /\ Running(p, "Subscribe", 2)
    /\ IF op[p].id \in DOMAIN watched
       THEN /\ subscribers' = Put(subscribers, op[p].sub, op[p].id)
            /\ addrSubs' = [addrSubs EXCEPT ![op[p].id] = @ \cup {op[p].sub}]
       ELSE UNCHANGED <<subscribers, addrSubs>>
    /\ Return(p)
    /\ UNCHANGED <<store, matcher, bits, block, found, bounds, watchHistory>>

UnsubscribeAddress(p) ==
    /\ Running(p, "Unsubscribe", 1)
    /\ LET s == op[p].sub
       IN  IF s \in DOMAIN subscribers
           THEN /\ addrSubs' = [addrSubs EXCEPT ![subscribers[s]] = @ \ {s}]
                /\ subscribers' = Del(subscribers, {s})
           ELSE UNCHANGED <<subscribers, addrSubs>>
    /\ Return(p)
    /\ UNCHANGED <<store, matcher, bits, block, found, bounds, watchHistory>>

-----------------------------------------------------------------------------
(* ProcessBlock, with mu held for reading throughout.                      *)

\* What the filter f of an address a asks for in an item, by the role the
\* address has there, and in a block: the reference.
Roles == {"from", "to", "emitter"}
Asked(a, f, x) ==
    LET tx == x.kind = "tx" /\ x.value >= f.min
        transfer == x.kind = "log" /\ ((x.topics = 3 /\ f.erc20) \/ (x.topics = 4 /\ f.erc721))
    IN  {r \in Roles :
            \/ r = "from" /\ x.from = a /\ ((tx /\ f.txFrom) \/ transfer)
            \/ r = "to" /\ x.to = a /\ ((tx /\ f.txTo) \/ transfer)
            \/ r = "emitter" /\ x.emitter = a /\ x.kind = "log" /\ f.logs}
AskedIn(a, f, b) == {e \in (DOMAIN b) \X Roles : e[2] \in Asked(a, f, b[e[1]])}

\* The matches of all items, in order.
Joined(s) ==
    LET parts[i \in 0..Len(s)] == IF i = 0 THEN <<>> ELSE parts[i - 1] \o s[i]
    IN  parts[Len(s)]

MatchBlock ==
    /\ Running("fetcher", "ProcessBlock", 1) /\ block < op["fetcher"].block
    /\ block' = op["fetcher"].block
    /\ LET b == Blocks[op["fetcher"].block]
       IN  /\ found' = Joined([i \in DOMAIN b |-> MatchItem(b[i])])
           /\ expected' = [i \in 1..MaxIds |->
                 IF \E w \in told : w[2] = i
                 THEN expected[i] + Cardinality(AskedIn(watched[i].addr, watched[i].filter, b))
                 ELSE expected[i]]
    /\ UNCHANGED <<store, memory, callers, bounds, told, tainted>>

\* processMatchedEvent: the event, then the statistics of its address, then the
\* subscribers, for which subMu is taken.
processMatchedEvent ==
    /\ Running("fetcher", "ProcessBlock", 1) /\ block = op["fetcher"].block /\ found # <<>>
    /\ LET id == Head(found)
       IN  \E n \in 0..2 :
             /\ Outcome(n, 2, watched[id].addr)
             /\ events' = IF n >= 1 THEN events \cup {<<id, Cardinality(events) + 1>>} ELSE events
             /\ watched' = IF n = 2 THEN [watched EXCEPT ![id].total = @ + 1] ELSE watched
             /\ IF n = 0 THEN found' = Tail(found) /\ UNCHANGED callers
                ELSE LockNext("fetcher") /\ UNCHANGED found
    /\ UNCHANGED <<lookup, memory, block, ids, reboots, told, expected>>

\* notifySubscribers notes the time for each subscriber and gives subMu back.
notifySubscribers ==
    /\ Running("fetcher", "ProcessBlock", 2)
    /\ found' = Tail(found)
    /\ held' = [held EXCEPT !["fetcher"] = << <<"mu", "R">> >>]
    /\ UNCHANGED <<store, memory, block, op, at, bounds, watchHistory>>

BlockDone ==
    /\ Running("fetcher", "ProcessBlock", 1) /\ block = op["fetcher"].block /\ found = <<>>
    /\ Return("fetcher")
    /\ UNCHANGED <<store, memory, block, found, bounds, watchHistory>>

-----------------------------------------------------------------------------
\* The process ends and starts again: loadWatchedAddresses adds every stored
\* record, in the order of their keys, which are random.
Reboot ==
    /\ reboots < MaxReboots
    /\ reboots' = reboots + 1
    /\ matcher' \in {f \in [{watched[i].addr : i \in DOMAIN watched} -> DOMAIN watched] :
                        \A a \in DOMAIN f : watched[f[a]].addr = a}
    /\ bits' = UNION {Hash[watched[i].addr] : i \in DOMAIN watched}
    /\ subscribers' = <<>> /\ addrSubs' = [i \in 1..MaxIds |-> {}]
    /\ found' = <<>>
    /\ op' = [p \in Threads |-> NoAddress] /\ held' = [p \in Threads |-> <<>>] /\ at' = [p \in Threads |-> "idle"]
    /\ tainted' = tainted \cup {watched[found[i]].addr : i \in DOMAIN found}
    /\ UNCHANGED <<store, block, ids, faults, told, expected>>

Request(p) ==
    \/ \E a \in Addrs, f \in Filters : BeginCall(p, [name |-> "Watch", addr |-> a, filter |-> f])
    \/ \E i \in 1..ids : BeginCall(p, [name |-> "Unwatch", id |-> i])
    \/ \E i \in 1..ids, s \in Subs : BeginCall(p, [name |-> "Subscribe", id |-> i, sub |-> s])
    \/ \E s \in Subs : BeginCall(p, [name |-> "Unsubscribe", sub |-> s])

ProcessBlock == \E b \in {block + 1} \cap DOMAIN Blocks :
                    BeginCall("fetcher", [name |-> "ProcessBlock", block |-> b])

WatchlistNext ==
    \/ MatchBlock \/ processMatchedEvent \/ notifySubscribers \/ BlockDone
    \/ ProcessBlock \/ Reboot
    \/ \E p \in Threads : Acquire(p)
    \/ \E p \in Callers :
          \/ Request(p) \/ WatchAddress(p) \/ UnwatchAddress(p) \/ DropSubscribers(p)
          \/ SubscribeLocksMu(p) \/ Subscribe(p) \/ UnsubscribeAddress(p)

WatchlistSpec == WatchlistInit /\ [][WatchlistNext]_watchlistVars

-----------------------------------------------------------------------------
\* Between blocks, the events recorded for a watched address, and its counter,
\* are exactly those its filter asks for, although the Bloom filter forgets
\* nothing and is rebuilt at a restart, and whatever was watched, unwatched or
\* failed for other addresses.
RecordedIsExpected ==
    \A w \in told : w[1] \notin tainted /\ found = <<>> =>
        /\ Cardinality({e \in events : e[1] = w[2]}) = expected[w[2]]
        /\ watched[w[2]].total = expected[w[2]]

Blocked == Waiting # {} /\ \A p \in Waiting : ~Grantable(p)

\* Nobody waits for a lock in vain, unless a Subscribe that has subMu waits for
\* mu, which UnwatchAddress and ProcessBlock take in the other order.
OnlySubscribeBlocks ==
    Blocked /\ (\A p \in Threads : at[p] # "run")
        => \E p \in Waiting : op[p].name = "Subscribe" /\ held[p] # <<>>
=============================================================================
