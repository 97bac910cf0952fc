----------------------------- MODULE MCIndexing -----------------------------
(* The indexing of blocks and of what their logs say.  Each behaviour is     *)
(* about one part:                                                           *)
(*   sound      the indexing loop, with crashes and restarts at any step of  *)
(*              three heights (Fetcher)                                      *)
(*   failing    the same over two heights, with storage calls that fail,     *)
(*              the balances of the genesis block among them, and every gap  *)
(*              filled concurrently                                          *)
(*   contracts  the events of the system contracts (SystemContracts)         *)
EXTENDS Fetcher, SystemContracts, MCContracts

VARIABLE part

Sound == INSTANCE Fetcher WITH StartHeights <- {0, MaxHeight}, Flaky <- {}
Failing == INSTANCE Fetcher WITH MaxHeight <- 1, StartHeights <- {0, 1},
                                 StoreFails <- TRUE, ConcurrentAbove <- 0

MCInit ==
    /\ part \in {"sound", "failing", "contracts"}
    /\ ContractsInit /\ (part # "contracts" => logs = <<>>)
    /\ IF part = "failing" THEN Failing!Init ELSE Sound!Init
    /\ part = "contracts" => chain = 0 /\ start = 0

MCNext ==
    /\ \/ part = "sound" /\ Sound!Next /\ UNCHANGED contractVars
       \/ part = "failing" /\ Failing!Next /\ UNCHANGED contractVars
       \/ part = "contracts" /\ ContractsNext /\ UNCHANGED vars
    /\ UNCHANGED part

MCSpec == MCInit /\ [][MCNext]_<<part, vars, contractVars>>
=============================================================================
