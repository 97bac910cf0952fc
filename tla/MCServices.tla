----------------------------- MODULE MCServices -----------------------------
(* What goes beyond one chain, one process and one connection: the bus      *)
(* shared by several nodes, the manager of several chains, and sessions     *)
(* with replay.  Each behaviour is one of the three.                        *)
EXTENDS DistributedBus, Fleet, Sessions

VARIABLE part

\* Of the four events one has text that the envelope for Redis spoils and one
\* has no serialization.
Ev(kind, text) == [kind |-> kind, text |-> text]
FourEvents == [block |-> Ev("block", "plain"), mint |-> Ev("systemContract", "plain"),
               odd |-> Ev("validatorSet", "odd"), fault |-> Ev("consensusError", "plain")]

\* Two nodes in one Kafka group, the default, or in a group each.
Separate == [n1 |-> "g1", n2 |-> "g2"]
SharedOrSeparate == {[n1 |-> "indexer-group", n2 |-> "indexer-group"], Separate}

\* The nodes' choices are fixed where they make no difference: groups with
\* Redis, and all of them where the nodes rest.
MCInit ==
    /\ part \in {"nodes", "chains", "sessions"}
    /\ DistInit /\ FleetInit /\ SessionsInit
    /\ part # "nodes" => backend = "redis"
    /\ backend = "redis" => group = Separate

MCNext ==
    /\ \/ part = "nodes" /\ DistNext /\ UNCHANGED <<fleetVars, sessionVars>>
       \/ part = "chains" /\ FleetNext /\ UNCHANGED <<distVars, sessionVars>>
       \/ part = "sessions" /\ SessionsNext /\ UNCHANGED <<distVars, fleetVars>>
    /\ UNCHANGED part

MCSpec == MCInit /\ [][MCNext]_<<part, distVars, fleetVars, sessionVars>>
=============================================================================
