--------------------------- MODULE ConcurrentFetch ---------------------------
(***************************************************************************)
(* Fetcher.FetchRangeConcurrent: a sender goroutine feeds heights to a     *)
(* pool of workers through the buffered channel `jobs', the workers put    *)
(* what they fetched on the buffered channel `results', a closer waits for *)
(* the workers, and the caller's goroutine collects the results and stores *)
(* the blocks in order.                                                    *)
(***************************************************************************)
EXTENDS Integers, Sequences

CONSTANTS
    First, Last,    \* the range
    Workers,        \* the worker goroutines; their number is the channels' capacity
    Capacity,
    MaxRetries,     \* config.MaxRetries
    StoreFails      \* TRUE: a storage call may return an error

ASSUME RangeAssumption ==
    /\ First \in Nat /\ Last \in Nat /\ First <= Last
    /\ Capacity \in Nat \ {0}
    /\ Workers # {}
    /\ MaxRetries \in Nat
    /\ StoreFails \in BOOLEAN

VARIABLES
    jobs, jobsClosed,
    results, resultsClosed,
    sendHeight,     \* the sender's loop variable
    worker,         \* state of each worker
    resultMap,      \* heights fetched and not yet stored
    nextHeight,     \* next height to store
    collector,      \* "recv", "store", "ok" or "error": the last two have returned
    cancelled       \* ctx.Done() is closed

channels == <<jobs, jobsClosed, results, resultsClosed>>
collecting == <<resultMap, nextHeight, collector>>
vars == <<channels, sendHeight, worker, collecting, cancelled>>

Range == First..Last
Result == [height : Range, ok : BOOLEAN]

Idle == [at |-> "idle"]
Exited == [at |-> "exited"]
Fetching(x, n) == [at |-> "fetch", height |-> x, attempt |-> n]
Sending(x, good, stop) == [at |-> "send", height |-> x, ok |-> good, stop |-> stop]

Init ==
    /\ jobs = <<>> /\ jobsClosed = FALSE
    /\ results = <<>> /\ resultsClosed = FALSE
    /\ sendHeight = First
    /\ worker = [w \in Workers |-> Idle]
    /\ resultMap = {}
    /\ nextHeight = First
    /\ collector = "recv"
    /\ cancelled = FALSE

-----------------------------------------------------------------------------
Cancel ==
    /\ ~cancelled
    /\ cancelled' = TRUE
    /\ UNCHANGED <<channels, sendHeight, worker, collecting>>

\* Mutant: the channel closed only on the cancelled path.
CloseJobsWhenCancelled ==
    /\ ~jobsClosed /\ cancelled
    /\ jobsClosed' = TRUE
    /\ UNCHANGED <<jobs, results, resultsClosed, sendHeight, worker, collecting, cancelled>>

\* The sender: with the context cancelled and room in the channel the select
\* may take either branch.
SendJob ==
    /\ ~jobsClosed /\ sendHeight <= Last
    /\ Len(jobs) < Capacity
    /\ jobs' = Append(jobs, sendHeight)
    /\ sendHeight' = sendHeight + 1
    /\ UNCHANGED <<jobsClosed, results, resultsClosed, worker, collecting, cancelled>>

CloseJobs ==
    /\ ~jobsClosed
    /\ sendHeight > Last \/ cancelled
    /\ jobsClosed' = TRUE
    /\ UNCHANGED <<jobs, results, resultsClosed, sendHeight, worker, collecting, cancelled>>

\* A worker takes a height.  If the context is cancelled by then it reports
\* that and leaves.
TakeJob(w) ==
    /\ worker[w] = Idle
    /\ jobs # <<>>
    /\ jobs' = Tail(jobs)
    /\ worker' = [worker EXCEPT ![w] =
                    IF cancelled THEN Sending(Head(jobs), FALSE, TRUE)
                                 ELSE Fetching(Head(jobs), 0)]
    /\ UNCHANGED <<jobsClosed, results, resultsClosed, sendHeight, collecting, cancelled>>

NoMoreJobs(w) ==
    /\ worker[w] = Idle
    /\ jobs = <<>> /\ jobsClosed
    /\ worker' = [worker EXCEPT ![w] = Exited]
    /\ UNCHANGED <<channels, sendHeight, collecting, cancelled>>

\* fetchBlockJob: block and receipts, up to MaxRetries + 1 attempts, the
\* context looked at before each.
FetchOK(w) ==
    /\ worker[w].at = "fetch" /\ ~cancelled
    /\ worker' = [worker EXCEPT ![w] = Sending(worker[w].height, TRUE, FALSE)]
    /\ UNCHANGED <<channels, sendHeight, collecting, cancelled>>

FetchError(w) ==
    /\ worker[w].at = "fetch"
    /\ worker' = [worker EXCEPT ![w] =
                    IF cancelled \/ worker[w].attempt = MaxRetries
                    THEN Sending(worker[w].height, FALSE, FALSE)
                    ELSE Fetching(worker[w].height, worker[w].attempt + 1)]
    /\ UNCHANGED <<channels, sendHeight, collecting, cancelled>>

\* Mutant: a result nobody is ready for is dropped.
SendResultOrDrop(w) ==
    /\ worker[w].at = "send"
    /\ results' = IF Len(results) < Capacity
                  THEN Append(results, [height |-> worker[w].height, ok |-> worker[w].ok])
                  ELSE results
    /\ worker' = [worker EXCEPT ![w] = IF worker[w].stop THEN Exited ELSE Idle]
    /\ UNCHANGED <<jobs, jobsClosed, resultsClosed, sendHeight, collecting, cancelled>>

SendResult(w) ==
    /\ worker[w].at = "send"
    /\ Len(results) < Capacity
    /\ results' = Append(results, [height |-> worker[w].height, ok |-> worker[w].ok])
    /\ worker' = [worker EXCEPT ![w] = IF worker[w].stop THEN Exited ELSE Idle]
    /\ UNCHANGED <<jobs, jobsClosed, resultsClosed, sendHeight, collecting, cancelled>>

\* wg.Wait, then close(results).
CloseResults ==
    /\ ~resultsClosed
    /\ \A w \in Workers : worker[w] = Exited
    /\ resultsClosed' = TRUE
    /\ UNCHANGED <<jobs, jobsClosed, results, sendHeight, worker, collecting, cancelled>>

-----------------------------------------------------------------------------
\* The collector returns at the first error it receives.
Receive ==
    /\ collector = "recv" /\ results # <<>>
    /\ results' = Tail(results)
    /\ IF Head(results).ok
       THEN /\ resultMap' = resultMap \cup {Head(results).height}
            /\ collector' = "store"
       ELSE collector' = "error" /\ UNCHANGED resultMap
    /\ UNCHANGED <<jobs, jobsClosed, resultsClosed, sendHeight, worker, nextHeight, cancelled>>

\* Mutant: the collector stores whatever has come in, in any order.
StoreAny ==
    /\ collector = "store" /\ resultMap # {}
    /\ \E x \in resultMap :
          /\ resultMap' = resultMap \ {x}
          /\ nextHeight' = x + 1
    /\ UNCHANGED <<channels, sendHeight, worker, collector, cancelled>>

\* The inner loop stores from nextHeight on while results are there.
StoreBlock ==
    /\ collector = "store" /\ nextHeight \in resultMap
    /\ \/ /\ resultMap' = resultMap \ {nextHeight}
          /\ nextHeight' = nextHeight + 1
          /\ UNCHANGED collector
       \/ /\ StoreFails
          /\ collector' = "error"
          /\ UNCHANGED <<resultMap, nextHeight>>
    /\ UNCHANGED <<channels, sendHeight, worker, cancelled>>

NextNotReady ==
    /\ collector = "store" /\ nextHeight \notin resultMap
    /\ collector' = "recv"
    /\ UNCHANGED <<channels, sendHeight, worker, resultMap, nextHeight, cancelled>>

Complete ==
    /\ collector = "recv" /\ results = <<>> /\ resultsClosed
    /\ collector' = "ok"
    /\ UNCHANGED <<channels, sendHeight, worker, resultMap, nextHeight, cancelled>>

Goroutines ==
    \/ SendJob \/ CloseJobs \/ CloseResults
    \/ \E w \in Workers : TakeJob(w) \/ NoMoreJobs(w) \/ FetchOK(w) \/ FetchError(w) \/ SendResult(w)
    \/ Receive \/ StoreBlock \/ NextNotReady \/ Complete

Next == Cancel \/ Goroutines

Spec == Init /\ [][Next]_vars

\* Every goroutine is scheduled; a select or a fetch may always go either way.
Fairness ==
    /\ WF_vars(SendJob \/ CloseJobs)
    /\ WF_vars(CloseResults)
    /\ \A w \in Workers :
          WF_vars(TakeJob(w) \/ NoMoreJobs(w) \/ FetchOK(w) \/ FetchError(w) \/ SendResult(w))
    /\ WF_vars(Receive \/ StoreBlock \/ NextNotReady \/ Complete)

FairSpec == Spec /\ Fairness

-----------------------------------------------------------------------------
(* Properties.                                                             *)

WorkerState ==
    {Idle, Exited}
      \cup [at : {"fetch"}, height : Range, attempt : 0..MaxRetries]
      \cup [at : {"send"}, height : Range, ok : BOOLEAN, stop : BOOLEAN]

\* The values every variable ranges over.
TypeOK ==
    /\ jobs \in Seq(Range) /\ Len(jobs) <= Capacity
    /\ results \in Seq(Result) /\ Len(results) <= Capacity
    /\ jobsClosed \in BOOLEAN /\ resultsClosed \in BOOLEAN /\ cancelled \in BOOLEAN
    /\ sendHeight \in First..Last + 1
    /\ worker \in [Workers -> WorkerState]
    /\ resultMap \subseteq Range
    /\ nextHeight \in First..Last + 1
    /\ collector \in {"recv", "store", "ok", "error"}

\* Where a height that was sent and is not stored may be.
InJobs(x) == {n \in 1..Len(jobs) : jobs[n] = x}
AtWorkers(x) == {w \in Workers : worker[w].at \in {"fetch", "send"} /\ worker[w].height = x}
InResults(x) == {n \in 1..Len(results) : results[n].height = x}

\* No height is worked on twice, lost on the way or stored a second time: a
\* height that was sent and not stored is in exactly one place, unless its
\* error has reached the collector.
EachHeightOnce ==
    \A x \in Range :
        LET places == (InJobs(x) \X {1}) \cup (AtWorkers(x) \X {2}) \cup (InResults(x) \X {3})
                        \cup ((resultMap \cap {x}) \X {4})
        IN  /\ \A p, q \in places : p = q
            /\ x >= sendHeight \/ x < nextHeight => places = {}
            /\ x < sendHeight /\ x >= nextHeight /\ collector # "error" => places # {}

\* A channel is closed only by the end of its senders: nothing is ever sent on
\* a closed channel.
NoSendOnClosed ==
    resultsClosed => \A w \in Workers : worker[w] = Exited

\* Between two channels, the workers and the collector no height is lost or
\* worked on twice, and nothing is sent on a closed channel (fetcher.go:499-555).
HeightsKept == EachHeightOnce /\ NoSendOnClosed

\* The call always returns: no arrangement of full channels, errors and a
\* cancelled context leaves the caller waiting.
Returns == <>(collector \in {"ok", "error"})

\* The pool implements the sequential range fetch its callers rely on: heights
\* are stored in order, none is passed over after an error, and nil is returned
\* only with the whole range stored or with the context cancelled.
Range1 == INSTANCE RangeFetch WITH
    first <- First, last <- Last, stored <- nextHeight, cancelled <- cancelled,
    result <- IF collector \in {"ok", "error"} THEN collector ELSE "running"
RefinesRangeFetch == Range1!Spec

\* Documented by a test: "FetchRangeConcurrent() should return error when
\* context is cancelled" (with part of the range missing).
CancelledMeansError == collector = "ok" => nextHeight = Last + 1
=============================================================================
