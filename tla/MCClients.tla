----------------------------- MODULE MCClients -----------------------------
(* Clients that stay.  Each behaviour is about one part:                     *)
(*   subscriptions  GraphQL subscriptions of two connections that choose     *)
(*                  the same identifier (Subscriptions)                      *)
(*   blocks         a JSON-RPC filter on logs, polled by two requests        *)
(*                  (Filters)                                                *)
(*   pending        two filters on blocks or pending transactions, whose     *)
(*                  identifiers collide, over a pool of one (Filters)        *)
EXTENDS Subscriptions, Filters

VARIABLE part

LogsOnly == INSTANCE Filters WITH Hashes <- {}, Kinds <- {"Log"}, MaxHeight <- 2, MaxFilters <- 1, MaxSeen <- 0

\* A query may name two subscriptions or none; one filters by event name.
Names == [addrs |-> {}, from |-> {}, to |-> {}, topics |-> <<>>, names |-> {"Mint"},
          fromBlock |-> 0, toBlock |-> 0]
MCQueries == {[names |-> {"newBlock"}, filter |-> NoFilter],
              [names |-> {"systemContractEvents", "newBlock"}, filter |-> Names],
              [names |-> {}, filter |-> NoFilter]}
MCEvents == << [type |-> "block", block |-> 1],
               [type |-> "systemContract", block |-> 1, emitter |-> "a", name |-> "Burn"] >>

MCInit == part \in {"subscriptions", "blocks", "pending"} /\ Init /\ FiltersInit

MCNext ==
    /\ UNCHANGED part
    /\ \/ part = "subscriptions" /\ Next /\ UNCHANGED filterVars
       \/ part = "blocks" /\ LogsOnly!FiltersNext /\ UNCHANGED vars
       \/ part = "pending" /\ FiltersNext /\ UNCHANGED vars

\* Where they start, the subscriptions have no step to be fair to.
MCSpec == MCInit /\ [][MCNext]_<<part, vars, filterVars>> /\ Fairness
=============================================================================
