-------------------------------- MODULE Fleet --------------------------------
(***************************************************************************)
(* The multi-chain manager: the start of all chains, the monitor that      *)
(* restarts failed chains, the start, stop and removal of a chain on       *)
(* request, and shutdown.  Each of them calls the same ChainInstance, whose *)
(* status is guarded by a mutex but whose context, fetcher and status are   *)
(* changed in several steps.                                                *)
(*                                                                          *)
(* A context is known by the caller it derives from: a caller has one live  *)
(* context per chain at most, and ending it ends the fetchers that run      *)
(* under it.  What a fetcher does is module Fetcher; here it only runs,     *)
(* fails or is cancelled.                                                   *)
(***************************************************************************)
EXTENDS Naturals, Sequences, FiniteSets, SequencesExt

CONSTANTS
    Chains,        \* the enabled chains of the configuration
    Requests,      \* requests of the API, each made once
    MaxOperations, \* bound on requests and rounds of the monitor together
    MaxFailures    \* bound on failing starts and failing fetchers

VARIABLES
    running,       \* Manager.isRunning
    managed,       \* Manager.ctx: "none", "live" or "cancelled"
    registry,      \* the registered chains
    status,        \* ChainInstance.status
    ctx,           \* ChainInstance.ctx: its caller, and whether it is live
    fetchers,      \* the goroutines of runFetcher, each with its context
    step, target,  \* where a caller is, and the chain it works on
    todo,          \* the chains that a loop of the manager has still to visit
    removing,      \* the requests that stop a chain in order to remove it
    operations, failures,
    overlap        \* history: operations on a chain overlapped, came after
                   \* Manager.Stop, or a Stop gave up waiting

fleetVars == <<running, managed, registry, status, ctx, fetchers, step,
               target, todo, removing, operations, failures, overlap>>

Operations == {"start", "stop", "unregister"}
Loops == {"run", "monitor", "shutdown"}
Callers == Requests \union Loops
NoChain == "none"
NoContext == [by |-> "none", live |-> FALSE]

TypeOK ==
    /\ running \in BOOLEAN
    /\ managed \in {"none", "live", "cancelled"}
    /\ registry \subseteq Chains
    /\ status \in [Chains -> {"registered", "starting", "syncing", "active",
                              "stopping", "stopped", "error"}]
    /\ \A c \in Chains : \A i \in DOMAIN fetchers[c] :
           fetchers[c][i].at \in {"new", "running", "failed", "erring", "done"}
    /\ \A p \in Callers : target[p] \in Chains \union {NoChain}
    /\ todo \in [Loops -> SUBSET Chains]

FleetInit ==
    /\ running = FALSE
    /\ managed = "none"
    /\ registry = {}
    /\ status = [c \in Chains |-> "registered"]
    /\ ctx = [c \in Chains |-> NoContext]
    /\ fetchers = [c \in Chains |-> <<>>]
    /\ step = [p \in Callers |-> "idle"]
    /\ target = [p \in Callers |-> NoChain]
    /\ todo = [p \in Loops |-> {}]
    /\ removing = {}
    /\ operations = 0
    /\ failures = 0
    /\ overlap = [c \in Chains |-> FALSE]

----------------------------------------------------------------------------
(* Contexts. *)

\* The contexts of S have ended, on the chains of C.
End(S, C) ==
    LET Over(x) == [x EXCEPT !.live = @ /\ x.by \notin S]
    IN /\ ctx' = [c \in Chains |-> IF c \in C THEN Over(ctx[c]) ELSE ctx[c]]
       /\ fetchers' = [c \in Chains |-> IF c \notin C THEN fetchers[c]
                         ELSE [i \in DOMAIN fetchers[c] |-> Over(fetchers[c][i])]]

\* The context a caller passes on.  The monitor's derives from the manager's;
\* a request's ends when the request does.
CallerLive(p) == p \in Requests \/ managed = "live"

Goto(p, at) == step' = [step EXCEPT ![p] = at]

\* An operation on c begins: another one may still be under way.
Enter(p, c, at) ==
    /\ Goto(p, at)
    /\ target' = [target EXCEPT ![p] = c]
    /\ overlap' = [overlap EXCEPT ![c] =
           @ \/ (p # "shutdown" /\ ~running)
             \/ (p # "run" /\ c \notin registry)
             \/ \E q \in Callers \ {p} : target[q] = c]

\* A loop of the manager goes on; a request is over and its context ends.
Leave(p) ==
    /\ Goto(p, IF p \in Requests THEN "done" ELSE "loop")
    /\ target' = [target EXCEPT ![p] = NoChain]

----------------------------------------------------------------------------
(* ChainInstance.Start. *)

\* A form that takes an active chain for one that may be started.
StartableUnlessSyncing(c) == status[c] \notin {"starting", "syncing", "stopping"}
Startable(c) == status[c] \in {"registered", "stopped", "error"}

CheckStart(p) ==
    LET c == target[p] IN
    /\ step[p] = "start"
    /\ \/ /\ Startable(c)
          /\ status' = [status EXCEPT ![c] = "starting"]
          /\ Goto(p, "context")
       \/ /\ ~Startable(c)
          /\ Goto(p, "return")
          /\ UNCHANGED status
    /\ UNCHANGED <<running, managed, registry, ctx, fetchers, target, todo,
                   operations, failures, overlap>>

\* A form whose contexts do not derive from the caller's.
DeriveDetached(p) == [by |-> "nobody", live |-> TRUE]
Derive(p) == [by |-> p, live |-> CallerLive(p)]

NewContext(p) ==
    LET c == target[p] IN
    /\ step[p] = "context"
    /\ ctx' = [ctx EXCEPT ![c] = Derive(p)]
    /\ Goto(p, "init")
    /\ UNCHANGED <<running, managed, registry, status, fetchers, target, todo,
                   operations, failures, overlap>>

\* initClient, initAdapter and initFetcher; then the fetcher's goroutine, which
\* reads ci.ctx when it runs.
Initialize(p) ==
    LET c == target[p] IN
    /\ step[p] = "init"
    /\ fetchers' = [fetchers EXCEPT ![c] =
           Append(@, [by |-> "none", live |-> FALSE, at |-> "new", seen |-> FALSE])]
    /\ Goto(p, "sync")
    /\ UNCHANGED <<running, managed, registry, status, ctx, target, todo,
                   operations, failures, overlap>>

InitializeFails(p) ==
    LET c == target[p] IN
    /\ step[p] = "init"
    /\ failures < MaxFailures
    /\ failures' = failures + 1
    /\ status' = [status EXCEPT ![c] = "error"]
    /\ Goto(p, "return")
    /\ UNCHANGED <<running, managed, registry, ctx, fetchers, target, todo,
                   operations, overlap>>

SetSyncing(p) ==
    /\ step[p] = "sync"
    /\ status' = [status EXCEPT ![target[p]] = "syncing"]
    /\ Goto(p, "return")
    /\ UNCHANGED <<running, managed, registry, ctx, fetchers, target, todo,
                   operations, failures, overlap>>

\* Start has returned.  The request's context, or the one that the monitor
\* made for this restart, ends with it.
ReturnFromStart(p) ==
    /\ step[p] = "return"
    /\ Leave(p)
    /\ End({p} \ {"run"}, Chains)
    /\ UNCHANGED <<running, managed, registry, status, todo, operations, failures,
                   overlap>>

----------------------------------------------------------------------------
(* ChainInstance.Stop. *)

\* What the caller does after Stop: the monitor starts the chain again,
\* UnregisterChain removes it.
AfterStop(p) ==
    IF p = "monitor" THEN "start"
    ELSE IF p \in removing THEN "remove"
    ELSE "return"

CheckStop(p) ==
    LET c == target[p] IN
    /\ step[p] = "stop"
    /\ \/ /\ status[c] \in {"stopped", "stopping"}
          /\ Goto(p, AfterStop(p))
          /\ UNCHANGED status
       \/ /\ status[c] \notin {"stopped", "stopping"}
          /\ status' = [status EXCEPT ![c] = "stopping"]
          /\ Goto(p, "cancel")
    /\ UNCHANGED <<running, managed, registry, ctx, fetchers, target, todo,
                   operations, failures, overlap>>

\* ci.cancelFunc belongs to the last context made.
CancelContext(p) ==
    LET c == target[p] IN
    /\ step[p] = "cancel"
    /\ End({ctx[c].by}, {c})
    /\ Goto(p, "wait")
    /\ UNCHANGED <<running, managed, registry, status, target, todo, operations,
                   failures, overlap>>

Alive(c) == {i \in DOMAIN fetchers[c] : fetchers[c][i].at # "done"}

\* ci.runningWg has reached zero.
WaitedFor(p) == Alive(target[p]) = {}

Wait(p) ==
    /\ step[p] = "wait"
    /\ WaitedFor(p)
    /\ Goto(p, "close")
    /\ UNCHANGED <<running, managed, registry, status, ctx, fetchers, target,
                   todo, operations, failures, overlap>>

\* The caller's context ends first.
WaitTimesOut(p) ==
    /\ step[p] = "wait"
    /\ Alive(target[p]) # {}
    /\ overlap' = [overlap EXCEPT ![target[p]] = TRUE]
    /\ Goto(p, "close")
    /\ UNCHANGED <<running, managed, registry, status, ctx, fetchers, target,
                   todo, operations, failures>>

SetStopped(p) ==
    /\ step[p] = "close"
    /\ status' = [status EXCEPT ![target[p]] = "stopped"]
    /\ Goto(p, AfterStop(p))
    /\ UNCHANGED <<running, managed, registry, ctx, fetchers, target, todo,
                   operations, failures, overlap>>

----------------------------------------------------------------------------
(* Requests: StartChain, StopChain, UnregisterChain.  The API server accepts *)
(* none once Shutdown has begun. *)

Request(r, op, c) ==
    /\ r = CHOOSE q \in Requests : step[q] = "idle"
    /\ running
    /\ operations < MaxOperations
    /\ operations' = operations + 1
    /\ \/ /\ c \in registry
          /\ Enter(r, c, IF op # "unregister" THEN op
                         ELSE IF status[c] \in {"stopped", "registered"}
                         THEN "remove" ELSE "stop")
          /\ removing' = IF op = "unregister" THEN removing \union {r} ELSE removing
       \/ /\ c \notin registry
          /\ Goto(r, "done")
          /\ UNCHANGED <<target, overlap, removing>>
    /\ UNCHANGED <<running, managed, registry, status, ctx, fetchers, todo,
                   failures>>

RemoveChain(r) ==
    /\ step[r] = "remove"
    /\ removing' = removing \ {r}
    /\ registry' = registry \ {target[r]}
    /\ Goto(r, "return")
    /\ UNCHANGED <<running, managed, status, ctx, fetchers, target, todo,
                   operations, failures, overlap>>

----------------------------------------------------------------------------
(* Manager.Start, autoRestartMonitor and Manager.Stop. *)

ManagerStart ==
    /\ step["run"] = "idle"
    /\ running' = TRUE
    /\ managed' = "live"
    /\ Goto("run", "loop")
    /\ todo' = [todo EXCEPT !["run"] = Chains]
    /\ UNCHANGED <<registry, status, ctx, fetchers, target, operations, failures,
                   overlap>>

RegisterChain ==
    /\ step["run"] = "loop"
    /\ \E c \in todo["run"] :
           /\ registry' = registry \union {c}
           /\ Enter("run", c, "start")
           /\ todo' = [todo EXCEPT !["run"] = @ \ {c}]
    /\ UNCHANGED <<running, managed, status, ctx, fetchers, operations, failures>>

\* The health checker and the monitor start once every chain was tried.
ManagerStarted ==
    /\ step["run"] = "loop"
    /\ todo["run"] = {}
    /\ step' = [step EXCEPT !["run"] = "done", !["monitor"] = "loop"]
    /\ UNCHANGED <<running, managed, registry, status, ctx, fetchers, target,
                   todo, operations, failures, overlap>>

\* A tick that finds failed chains; todo is the answer of ListByStatus(StatusError).
MonitorTicks ==
    /\ step["monitor"] = "loop"
    /\ todo["monitor"] = {}
    /\ \E c \in registry : status[c] = "error"
    /\ operations < MaxOperations
    /\ operations' = operations + 1
    /\ todo' = [todo EXCEPT !["monitor"] =
           {c \in registry : status[c] = "error"}]
    /\ UNCHANGED <<running, managed, registry, status, ctx, fetchers, step,
                   target, failures, overlap>>

\* The next of them, or not yet, because of AutoRestartDelay.
MonitorRestarts ==
    /\ step["monitor"] = "loop"
    /\ \E c \in todo["monitor"] :
           /\ todo' = [todo EXCEPT !["monitor"] = @ \ {c}]
           /\ \/ Enter("monitor", c, "stop")
              \/ UNCHANGED <<step, target, overlap>>
    /\ UNCHANGED <<running, managed, registry, status, ctx, fetchers, operations,
                   failures>>

MonitorEnds ==
    /\ step["monitor"] = "loop"
    /\ todo["monitor"] = {}
    /\ managed = "cancelled"
    /\ Goto("monitor", "done")
    /\ UNCHANGED <<running, managed, registry, status, ctx, fetchers, target,
                   todo, operations, failures, overlap>>

\* The signal cancels the context of Run, the parent of the manager's.
Signal ==
    /\ managed = "live"
    /\ managed' = "cancelled"
    /\ End({"run", "monitor"}, Chains)
    /\ UNCHANGED <<running, registry, status, step, target, todo, operations,
                   failures, overlap>>

\* Stop lists the registry after it has cancelled the manager's context.
ManagerStop ==
    /\ step["shutdown"] = "idle"
    /\ running
    /\ managed = "cancelled"
    /\ running' = FALSE
    /\ todo' = [todo EXCEPT !["shutdown"] = registry]
    /\ Goto("shutdown", "loop")
    /\ UNCHANGED <<managed, registry, status, ctx, fetchers, target, operations,
                   failures, overlap>>

StopNext ==
    /\ step["shutdown"] = "loop"
    /\ \E c \in todo["shutdown"] :
           /\ Enter("shutdown", c, "stop")
           /\ todo' = [todo EXCEPT !["shutdown"] = @ \ {c}]
    /\ UNCHANGED <<running, managed, registry, status, ctx, fetchers, operations,
                   failures>>

\* Stop waits for the monitor, or its context ends; Shutdown goes on to close
\* the event bus and the storage.
ManagerStopped ==
    /\ step["shutdown"] = "loop"
    /\ todo["shutdown"] = {}
    /\ Goto("shutdown", "done")
    /\ overlap' = [c \in Chains |->
           overlap[c] \/ step["monitor"] \notin {"idle", "done"}]
    /\ UNCHANGED <<running, managed, registry, status, ctx, fetchers, target,
                   todo, operations, failures>>

----------------------------------------------------------------------------
(* runFetcher and trackMetrics. *)

\* A goroutine that is done, and whose metrics have nothing left to do, is
\* forgotten.
Becomes(c, i, f) ==
    fetchers' = [fetchers EXCEPT ![c] =
        IF f.at = "done" /\ ~f.seen THEN RemoveAt(@, i) ELSE [@ EXCEPT ![i] = f]]

At(c, i, from, to) ==
    /\ fetchers[c][i].at = from
    /\ Becomes(c, i, [fetchers[c][i] EXCEPT !.at = to])

FetcherBegins(c, i) ==
    /\ fetchers[c][i].at = "new"
    /\ fetchers' = [fetchers EXCEPT ![c][i] =
           [@ EXCEPT !.at = "running", !.by = ctx[c].by, !.live = ctx[c].live]]
    /\ UNCHANGED <<status, failures>>

\* RunWithGapRecovery returns, because its context ended or by itself.
FetcherReturns(c, i) ==
    /\ At(c, i, "running", "failed")
    /\ \/ /\ ~fetchers[c][i].live
          /\ UNCHANGED failures
       \/ /\ fetchers[c][i].live
          /\ failures < MaxFailures
          /\ failures' = failures + 1
    /\ UNCHANGED status

\* ci.ctx.Err() is asked of the instance's present context.
FetcherChecks(c, i) ==
    /\ At(c, i, "failed", IF ctx[c].live THEN "erring" ELSE "done")
    /\ UNCHANGED <<status, failures>>

FetcherSetsError(c, i) ==
    /\ At(c, i, "erring", "done")
    /\ status' = [status EXCEPT ![c] = "error"]
    /\ UNCHANGED failures

\* A block event arrives while the chain is syncing ...
SeesSyncing(c, i) ==
    /\ fetchers[c][i].at = "running"
    /\ ~fetchers[c][i].seen
    /\ status[c] = "syncing"
    /\ fetchers' = [fetchers EXCEPT ![c][i].seen = TRUE]
    /\ UNCHANGED <<status, failures>>

\* ... and after HealthCheck the status becomes active, or stays.
SetsActive(c, i) ==
    /\ fetchers[c][i].seen
    /\ Becomes(c, i, [fetchers[c][i] EXCEPT !.seen = FALSE])
    /\ status' = [status EXCEPT ![c] = "active"]
    /\ UNCHANGED failures

Goroutine(c, i) ==
    /\ \/ FetcherBegins(c, i)
       \/ FetcherReturns(c, i)
       \/ FetcherChecks(c, i)
       \/ FetcherSetsError(c, i)
       \/ SeesSyncing(c, i)
       \/ SetsActive(c, i)
    /\ UNCHANGED <<running, managed, registry, ctx, step, target, todo, operations,
                   overlap>>

StartStep(p) ==
    \/ CheckStart(p)
    \/ NewContext(p)
    \/ Initialize(p)
    \/ InitializeFails(p)
    \/ SetSyncing(p)
    \/ ReturnFromStart(p)

StopStep(p) ==
    \/ CheckStop(p)
    \/ CancelContext(p)
    \/ Wait(p)
    \/ WaitTimesOut(p)
    \/ SetStopped(p)

ManagerStep ==
    \/ ManagerStart
    \/ RegisterChain
    \/ ManagerStarted
    \/ MonitorTicks
    \/ MonitorRestarts
    \/ MonitorEnds
    \/ Signal
    \/ ManagerStop
    \/ StopNext
    \/ ManagerStopped

FleetNext ==
    \/ /\ \E r \in Requests : step[r] = "idle"
       /\ \E r \in Requests, op \in Operations, c \in Chains : Request(r, op, c)
    \/ \E r \in Requests : RemoveChain(r)
    \/ /\ \/ ManagerStep
          \/ \E p \in Callers : StartStep(p) \/ StopStep(p)
          \/ \E c \in Chains : \E i \in DOMAIN fetchers[c] : Goroutine(c, i)
       /\ UNCHANGED removing

FleetSpec == FleetInit /\ [][FleetNext]_fleetVars

----------------------------------------------------------------------------
(* A fetcher that can still write blocks. *)
Fetching(c) ==
    {i \in DOMAIN fetchers[c] :
        \/ fetchers[c][i].at = "new" /\ ctx[c].live
        \/ fetchers[c][i].at = "running" /\ fetchers[c][i].live}

(* A chain whose operations do not overlap is fetched by one goroutine at   *)
(* most: ChainInstance.Start (instance.go:71) may not begin a second fetcher *)
(* while a late error of an earlier one, or its metrics, change the status.  *)
OneFetcher ==
    \A c \in Chains : ~overlap[c] => Cardinality(Fetching(c)) <= 1

(* Once Manager.Stop has returned (manager.go:111) nothing goes on fetching  *)
(* except for a request that is itself still under way, whatever overlapped: *)
(* every context derives from the manager's or from a request's.             *)
NothingOutlives ==
    step["shutdown"] = "done" =>
        \A c \in Chains : \A i \in Fetching(c) :
            LET by == IF fetchers[c][i].at = "new" THEN ctx[c].by
                      ELSE fetchers[c][i].by
            IN by \in Requests /\ step[by] # "done"

(* When Shutdown goes on to close the storage, no goroutine of a chain whose *)
(* operations did not overlap is left, not even one that is still unwinding  *)
(* (instance.go:143-155).                                                    *)
QuietAtClose ==
    step["shutdown"] = "done" =>
        \A c \in Chains : ~overlap[c] => Alive(c) = {}

(* Nothing of the chains is left when the storage is closed. *)
ShutdownIsQuiet == NothingOutlives /\ QuietAtClose

(* Claim: "checkAndRestartFailedChains restarts chains that have failed"      *)
(* (manager.go:284): a chain that the monitor has started again without an    *)
(* error is fetched, unless it was stopped, failed again or the indexer ends. *)
RestartedIsFetched ==
    \A c \in Chains :
        /\ managed = "live"
        /\ ~overlap[c]
        /\ status[c] = "syncing"
        /\ ctx[c].by = "monitor"
        /\ \A i \in DOMAIN fetchers[c] : fetchers[c][i].at # "erring"
        => Fetching(c) # {}
=============================================================================
