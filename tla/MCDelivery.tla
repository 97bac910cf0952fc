----------------------------- MODULE MCDelivery -----------------------------
(* The event bus, and what carries events on to users: notifications and    *)
(* the watchlist.  Each behaviour is one of the three; notifications with   *)
(* two calls of the API, or with one and a restart.                         *)
EXTENDS MCEventBus, Watchlist, Notifications

CONSTANTS s1, a1, a2

VARIABLE part

(* Notifications: one setting. *)
MCChannel == s1 :> "webhook"
MCFilter == s1 :> [types |-> {"transaction", "log"}, addrs |-> {a1}, min |-> 1, topics |-> << {}, {a2} >>]
MCBusEvents == {[type |-> "transaction", addrs |-> {a1, a2}, value |-> 1, topics |-> <<>>],
             [type |-> "log", addrs |-> {a1}, value |-> 0, topics |-> <<a1>>]}

Restarted == INSTANCE Notifications WITH MaxCalls <- 1, MaxRestarts <- 1

(* Watchlist: two addresses that share a bit, two blocks. *)
Mixed == [txFrom |-> TRUE, txTo |-> FALSE, erc20 |-> TRUE, erc721 |-> FALSE, logs |-> TRUE, min |-> 1]
Tx(f, t, v) == [kind |-> "tx", from |-> f, to |-> t, value |-> v, emitter |-> NoAddress]
Log(e, n, f, t) == [kind |-> "log", topics |-> n, from |-> f, to |-> t, emitter |-> e]
MCHash == (a1 :> {1, 2}) @@ (a2 :> {2, 3})
MCFilters == {Mixed}
MCBlocks == << <<Tx(a1, a2, 1)>>, <<Tx(a2, NoAddress, 0), Log(a1, 4, a2, a1), Log(a2, 3, a1, a1)>> >>

MCInit ==
    /\ part \in {"bus", "notifications", "restarted", "watchlist"}
    /\ Init /\ NotificationsInit /\ WatchlistInit
    /\ part \in {"bus", "watchlist"} => stored[s1] = "absent"

MCNext ==
    /\ \/ part = "bus" /\ Next /\ UNCHANGED <<notificationVars, watchlistVars>>
       \/ part = "notifications" /\ NotificationsNext /\ UNCHANGED <<vars, watchlistVars>>
       \/ part = "restarted" /\ Restarted!NotificationsNext /\ UNCHANGED <<vars, watchlistVars>>
       \/ part = "watchlist" /\ WatchlistNext /\ UNCHANGED <<vars, notificationVars>>
    /\ UNCHANGED part

MCSpec == MCInit /\ [][MCNext]_<<part, vars, notificationVars, watchlistVars>>
=============================================================================
