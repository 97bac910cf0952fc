------------------------ MODULE ConcurrentFetchProofs ------------------------
(***************************************************************************)
(* FetchRangeConcurrent with any number of workers, any channel capacity   *)
(* and any range: no height is lost or worked on twice, nothing is sent on *)
(* a closed channel, and the caller sees what a sequential fetch of the    *)
(* range could have done.                                                  *)
(***************************************************************************)
EXTENDS ConcurrentFetch, TLAPS

Busy(w) == worker[w].at \in {"fetch", "send"}

\* The first height that no worker has taken yet.
Untaken == sendHeight - Len(jobs)

\* Heights that were taken, are not stored and are not known to have failed.
Open(x) == nextHeight <= x /\ x < Untaken

\* The sender counts upwards: the channel holds the heights from Untaken on.
JobsInOrder ==
    /\ nextHeight <= Untaken
    /\ \A n \in 1..Len(jobs) : jobs[n] = Untaken + n - 1

\* What a worker, the channel of results or the collector has is open ...
TakenIsOpen ==
    /\ \A w \in Workers : Busy(w) => Open(worker[w].height)
    /\ \A n \in 1..Len(results) : Open(results[n].height)
    /\ \A x \in resultMap : Open(x)

\* ... and in one place ...
OnePlace ==
    /\ \A v, w \in Workers : Busy(v) /\ Busy(w) /\ worker[v].height = worker[w].height => v = w
    /\ \A m, n \in 1..Len(results) : results[m].height = results[n].height => m = n
    /\ \A w \in Workers : \A n \in 1..Len(results) : Busy(w) => worker[w].height # results[n].height
    /\ \A w \in Workers : Busy(w) => worker[w].height \notin resultMap
    /\ \A n \in 1..Len(results) : results[n].height \notin resultMap

\* ... and what is open is somewhere.
NothingLost ==
    collector # "error" =>
        \A x \in Range : Open(x) =>
            \/ \E w \in Workers : Busy(w) /\ worker[w].height = x
            \/ \E n \in 1..Len(results) : results[n].height = x
            \/ x \in resultMap

\* Why a channel is closed and a worker has left, and what the collector waits for.
Endings ==
    /\ jobsClosed => sendHeight > Last \/ cancelled
    /\ \A w \in Workers : worker[w].at = "send" /\ worker[w].stop => cancelled
    /\ \A w \in Workers : worker[w] = Exited => cancelled \/ (jobs = <<>> /\ jobsClosed)
    /\ resultsClosed => \A w \in Workers : worker[w] = Exited
    /\ collector = "recv" => nextHeight \notin resultMap

\* The inductive invariant.
IInv == TypeOK /\ JobsInOrder /\ TakenIsOpen /\ OnePlace /\ NothingLost /\ Endings

-----------------------------------------------------------------------------
\* What sending on a channel does to it.
LEMMA AppendFacts ==
    ASSUME NEW S, NEW s \in Seq(S), NEW e \in S
    PROVE  /\ Append(s, e) \in Seq(S) /\ Len(Append(s, e)) = Len(s) + 1
           /\ \A n \in 1..Len(s) : Append(s, e)[n] = s[n]
           /\ Append(s, e)[Len(s) + 1] = e
  OBVIOUS

\* What receiving from a channel does to it.
LEMMA TailFacts ==
    ASSUME NEW S, NEW s \in Seq(S), s # <<>>
    PROVE  /\ Tail(s) \in Seq(S) /\ Len(s) \in Nat \ {0} /\ Len(Tail(s)) = Len(s) - 1
           /\ \A n \in 1..Len(Tail(s)) : Tail(s)[n] = s[n + 1] /\ n + 1 \in 1..Len(s)
           /\ Head(s) = s[1] /\ Head(s) \in S /\ 1 \in 1..Len(s)
  OBVIOUS

\* The states a worker can be in have the fields their place needs.
LEMMA WorkerFacts ==
    ASSUME TypeOK, NEW w \in Workers
    PROVE  /\ worker[w] \in WorkerState
           /\ Busy(w) => worker[w].height \in Range
           /\ worker[w].at = "fetch" => worker[w].attempt \in 0..MaxRetries
           /\ worker[w].at = "send" => worker[w].ok \in BOOLEAN /\ worker[w].stop \in BOOLEAN
           /\ worker[w] = Idle => ~Busy(w)
           /\ worker[w] = Exited => ~Busy(w)
  BY DEF TypeOK, WorkerState, Busy, Idle, Exited

\* A result carries a height of the range.
LEMMA ResultFacts ==
    ASSUME TypeOK
    PROVE  /\ results \in Seq(Result) /\ Len(results) \in Nat
           /\ \A n \in 1..Len(results) : results[n].height \in Range
<1>1. results \in Seq(Result) /\ Len(results) \in Nat
  BY DEF TypeOK
<1>2. \A n \in 1..Len(results) : results[n] \in Result
  BY <1>1
<1> QED
  BY <1>1, <1>2 DEF Result

\* A call begins with nothing sent, taken or stored.
LEMMA InitIInv == Init => IInv
<1> SUFFICES ASSUME Init PROVE IInv
  OBVIOUS
<1> USE RangeAssumption DEF Init
<1>1. \A w \in Workers : worker[w] = Idle /\ worker[w].at = "idle" /\ worker[w] # Exited
  BY DEF Idle, Exited
<1>2. jobs \in Seq(Range) /\ results \in Seq(Result) /\ Len(jobs) = 0 /\ Len(results) = 0
  OBVIOUS
<1>3. worker \in [Workers -> WorkerState]
  BY DEF WorkerState
<1>4. TypeOK
  <2>1. jobsClosed \in BOOLEAN /\ resultsClosed \in BOOLEAN /\ cancelled \in BOOLEAN
    OBVIOUS
  <2>2. sendHeight \in First..Last + 1 /\ nextHeight \in First..Last + 1
    OBVIOUS
  <2>3. Len(jobs) <= Capacity /\ Len(results) <= Capacity
    BY <1>2
  <2> QED
    BY <1>2, <1>3, <2>1, <2>2, <2>3 DEF TypeOK
<1>5. JobsInOrder /\ TakenIsOpen /\ OnePlace /\ NothingLost
  BY <1>1, <1>2 DEF JobsInOrder, TakenIsOpen, OnePlace, NothingLost, Busy, Untaken, Open, Range
<1>6. Endings
  BY <1>1 DEF Endings
<1> QED
  BY <1>4, <1>5, <1>6 DEF IInv


-----------------------------------------------------------------------------
\* The sender puts the next height at the end of the channel: Untaken stays.
LEMMA SendJobStep == IInv /\ SendJob => IInv'
<1> SUFFICES ASSUME IInv, SendJob PROVE IInv'
  OBVIOUS
<1> USE RangeAssumption DEF IInv
<1>1. /\ sendHeight \in Range /\ jobs \in Seq(Range) /\ Len(jobs) < Capacity
      /\ jobs' = Append(jobs, sendHeight) /\ sendHeight' = sendHeight + 1 /\ ~jobsClosed
      /\ UNCHANGED <<jobsClosed, results, resultsClosed, worker, collecting, cancelled>>
  BY DEF SendJob, TypeOK, Range
<1>2. /\ jobs' \in Seq(Range) /\ Len(jobs') = Len(jobs) + 1
      /\ \A n \in 1..Len(jobs) : jobs'[n] = jobs[n]
      /\ jobs'[Len(jobs) + 1] = sendHeight
  BY <1>1, AppendFacts
<1>3. Untaken' = Untaken /\ Untaken \in Int /\ Len(jobs) \in Nat
  BY <1>1, <1>2 DEF Untaken, TypeOK
<1>4. TypeOK'
  BY <1>1, <1>2 DEF TypeOK, Range, collecting
<1>5. JobsInOrder'
  <2>1. nextHeight' <= Untaken'
    BY <1>1, <1>3 DEF JobsInOrder, collecting
  <2>2. ASSUME NEW n \in 1..Len(jobs') PROVE jobs'[n] = Untaken' + n - 1
    <3>1. CASE n \in 1..Len(jobs)
      BY <1>2, <1>3, <3>1 DEF JobsInOrder
    <3>2. CASE n = Len(jobs) + 1
      BY <1>1, <1>2, <1>3, <3>2 DEF Untaken, TypeOK
    <3> QED
      BY <1>2, <1>3, <3>1, <3>2
  <2> QED
    BY <2>1, <2>2 DEF JobsInOrder
<1>6. TakenIsOpen' /\ OnePlace' /\ NothingLost'
  BY <1>1, <1>3 DEF TakenIsOpen, OnePlace, NothingLost, Busy, Open, collecting
<1>7. Endings'
  BY <1>1 DEF Endings, collecting, TypeOK
<1> QED
  BY <1>4, <1>5, <1>6, <1>7

\* A worker takes the first height of the channel: it was in nobody's hands.
LEMMA TakeJobStep == ASSUME NEW w \in Workers, IInv, TakeJob(w) PROVE IInv'
<1> USE RangeAssumption DEF IInv
<1>0. jobs # <<>> /\ Head(jobs) \in Range
  BY TailFacts DEF TakeJob, TypeOK
<1> PICK x \in Range : x = Head(jobs)
  BY <1>0
<1> DEFINE r == IF cancelled THEN Sending(x, FALSE, TRUE) ELSE Fetching(x, 0)
<1>1. /\ worker[w] = Idle /\ jobs # <<>> /\ jobs' = Tail(jobs)
      /\ worker' = [worker EXCEPT ![w] = r]
      /\ UNCHANGED <<jobsClosed, results, resultsClosed, sendHeight, collecting, cancelled>>
  BY DEF TakeJob
<1>2. /\ jobs' \in Seq(Range) /\ Len(jobs) \in Nat \ {0} /\ Len(jobs') = Len(jobs) - 1
      /\ \A n \in 1..Len(jobs') : jobs'[n] = jobs[n + 1] /\ n + 1 \in 1..Len(jobs)
      /\ x = jobs[1] /\ x \in Range /\ 1 \in 1..Len(jobs)
  BY <1>1, TailFacts DEF TypeOK
<1>3. x = Untaken /\ Untaken' = Untaken + 1 /\ Untaken \in Int
  BY <1>1, <1>2 DEF JobsInOrder, Untaken, TypeOK
<1>4. /\ r \in WorkerState /\ r.height = x /\ r.at \in {"fetch", "send"} /\ r # Exited
      /\ r.at = "send" => cancelled
  BY <1>2 DEF WorkerState, Sending, Fetching, Exited
<1>5. /\ worker' \in [Workers -> WorkerState] /\ worker'[w] = r
      /\ \A v \in Workers \ {w} : worker'[v] = worker[v]
  BY <1>1, <1>4 DEF TypeOK
<1> HIDE DEF r
<1>6. Busy(w)' /\ ~Busy(w) /\ \A v \in Workers \ {w} : Busy(v)' = Busy(v)
  BY <1>1, <1>4, <1>5 DEF Busy, Idle
<1>7. /\ Open(x)' /\ ~Open(x)
      /\ \A y \in Int : Open(y) => Open(y)'
      /\ \A y \in Int : Open(y)' => Open(y) \/ y = x
  <2>1. nextHeight \in Int /\ nextHeight' = nextHeight /\ nextHeight <= Untaken
    BY <1>1 DEF TypeOK, JobsInOrder, collecting
  <2> QED
    BY <1>3, <2>1 DEF Open
<1>8. TypeOK'
  <2>1. jobs' \in Seq(Range) /\ Len(jobs') <= Capacity
    BY <1>2 DEF TypeOK
  <2> QED
    BY <1>1, <1>5, <2>1 DEF TypeOK, collecting
<1>9. JobsInOrder'
  <2>1. nextHeight' <= Untaken'
    BY <1>1, <1>3 DEF JobsInOrder, collecting, TypeOK
  <2>2. ASSUME NEW n \in 1..Len(jobs') PROVE jobs'[n] = Untaken' + n - 1
    <3>1. jobs'[n] = jobs[n + 1] /\ jobs[n + 1] = Untaken + (n + 1) - 1
      BY <1>2 DEF JobsInOrder
    <3> QED
      BY <1>3, <3>1
  <2> QED
    BY <2>1, <2>2 DEF JobsInOrder
<1>10. /\ \A v \in Workers : Busy(v) => worker[v].height \in Int /\ worker[v].height # x
       /\ \A n \in 1..Len(results) : results[n].height \in Int /\ results[n].height # x
       /\ \A y \in resultMap : y \in Int /\ y # x
  <2>1. \A v \in Workers : Busy(v) => worker[v].height \in Int
    BY WorkerFacts DEF Range
  <2>2. \A n \in 1..Len(results) : results[n].height \in Int
    BY ResultFacts DEF Range
  <2>3. \A y \in resultMap : y \in Int
    BY DEF TypeOK, Range
  <2> QED
    BY <1>7, <2>1, <2>2, <2>3 DEF TakenIsOpen
<1>11. TakenIsOpen'
  BY <1>1, <1>4, <1>5, <1>6, <1>7, <1>10 DEF TakenIsOpen, collecting
<1>12. OnePlace'
  BY <1>1, <1>4, <1>5, <1>6, <1>10 DEF OnePlace, collecting
<1>13. NothingLost'
  BY <1>1, <1>4, <1>5, <1>6, <1>7 DEF NothingLost, Range, collecting
<1>14. Endings'
  BY <1>1, <1>4, <1>5 DEF Endings, collecting, Idle, Exited
<1> QED
  BY <1>8, <1>9, <1>11, <1>12, <1>13, <1>14

\* A fetch ends or is tried again: the worker keeps its height.
LEMMA FetchStep == ASSUME NEW w \in Workers, IInv, FetchOK(w) \/ FetchError(w) PROVE IInv'
<1> USE RangeAssumption DEF IInv
<1> DEFINE x == worker[w].height
<1>1. PICK r \in WorkerState :
        /\ worker' = [worker EXCEPT ![w] = r] /\ r.at \in {"fetch", "send"} /\ r.height = x
        /\ r # Exited /\ (r.at = "send" => ~r.stop)
  <2>1. x \in Range /\ worker[w].attempt \in 0..MaxRetries
    BY WorkerFacts DEF FetchOK, FetchError, Busy
  <2>2. /\ Sending(x, TRUE, FALSE) \in WorkerState /\ Sending(x, FALSE, FALSE) \in WorkerState
        /\ \A b \in BOOLEAN : LET r == Sending(x, b, FALSE)
              IN r.at = "send" /\ r.height = x /\ r # Exited /\ ~r.stop
    BY <2>1 DEF WorkerState, Sending, Exited
  <2>3. ASSUME worker[w].attempt # MaxRetries
        PROVE  LET r == Fetching(x, worker[w].attempt + 1)
               IN r \in WorkerState /\ r.at = "fetch" /\ r.height = x /\ r # Exited
    BY <2>1, <2>3 DEF WorkerState, Fetching, Exited
  <2>4. CASE FetchOK(w)
    BY <2>2, <2>4 DEF FetchOK
  <2>5. CASE FetchError(w)
    BY <2>2, <2>3, <2>5 DEF FetchError
  <2> QED
    BY <2>4, <2>5
<1>2. /\ worker[w].at = "fetch" /\ worker[w] # Exited
      /\ UNCHANGED <<channels, sendHeight, collecting, cancelled>>
  <2>1. worker[w].at = "fetch"
    BY DEF FetchOK, FetchError
  <2>2. worker[w] # Exited
    BY <2>1 DEF Exited
  <2> QED
    BY <2>1, <2>2 DEF FetchOK, FetchError
<1>3. /\ worker' \in [Workers -> WorkerState] /\ worker'[w] = r
      /\ \A v \in Workers \ {w} : worker'[v] = worker[v]
  BY <1>1 DEF TypeOK
<1>4. \A v \in Workers : Busy(v)' = Busy(v) /\ (Busy(v) => worker'[v].height = worker[v].height)
  BY <1>1, <1>2, <1>3 DEF Busy
<1>5. Untaken' = Untaken /\ \A y : Open(y)' = Open(y)
  BY <1>2 DEF Untaken, Open, channels, collecting
<1>6. TypeOK' /\ JobsInOrder'
  BY <1>2, <1>3, <1>5 DEF TypeOK, JobsInOrder, channels, collecting
<1>7. TakenIsOpen' /\ OnePlace' /\ NothingLost'
  BY <1>2, <1>4, <1>5 DEF TakenIsOpen, OnePlace, NothingLost, channels, collecting
<1>8. Endings'
  BY <1>1, <1>2, <1>3 DEF Endings, channels, collecting
<1> QED
  BY <1>6, <1>7, <1>8

\* A worker hands its result over and is free, or leaves once cancelled.
LEMMA SendResultStep == ASSUME NEW w \in Workers, IInv, SendResult(w) PROVE IInv'
<1> USE RangeAssumption DEF IInv
<1>0. worker[w].at = "send" /\ Busy(w)
  BY DEF SendResult, Busy
<1>1. worker[w].height \in Range /\ worker[w].ok \in BOOLEAN /\ worker[w].stop \in BOOLEAN
  BY <1>0, WorkerFacts
<1> PICK x \in Range, b \in BOOLEAN : x = worker[w].height /\ b = worker[w].ok
  BY <1>1
<1> PICK e \in Result : e = [height |-> x, ok |-> b]
  BY DEF Result
<1>2. /\ results' = Append(results, e) /\ Len(results) < Capacity
      /\ worker' = [worker EXCEPT ![w] = IF worker[w].stop THEN Exited ELSE Idle]
      /\ UNCHANGED <<jobs, jobsClosed, resultsClosed, sendHeight, collecting, cancelled>>
  BY DEF SendResult
<1>3. /\ results \in Seq(Result) /\ Len(results) \in Nat
      /\ results' \in Seq(Result) /\ Len(results') = Len(results) + 1
      /\ \A n \in 1..Len(results) : results'[n] = results[n]
      /\ results'[Len(results) + 1] = e /\ e.height = x
  <2>1. results \in Seq(Result) /\ Len(results) \in Nat
    BY DEF TypeOK
  <2> QED
    BY <1>2, <2>1, AppendFacts
<1>4. /\ worker' \in [Workers -> WorkerState]
      /\ worker'[w] \in {Exited, Idle} /\ (worker'[w] = Exited => cancelled)
      /\ \A v \in Workers \ {w} : worker'[v] = worker[v]
  <2>1. Idle # Exited /\ Idle \in WorkerState /\ Exited \in WorkerState
    BY DEF Idle, Exited, WorkerState
  <2>2. worker \in [Workers -> WorkerState] /\ (worker[w].stop => cancelled)
    BY <1>0 DEF TypeOK, Endings
  <2> QED
    BY <1>1, <1>2, <2>1, <2>2
<1>5. ~Busy(w)' /\ \A v \in Workers \ {w} : Busy(v)' = Busy(v)
  BY <1>4 DEF Busy, Idle, Exited
<1>6. Untaken' = Untaken /\ \A y : Open(y)' = Open(y)
  BY <1>2 DEF Untaken, Open, collecting
<1>7. ~resultsClosed
  BY <1>0 DEF Endings, Exited
<1>8. TypeOK'
  <2>1. Len(results') <= Capacity
    BY <1>2, <1>3
  <2> QED
    BY <1>2, <1>3, <1>4, <2>1 DEF TypeOK, collecting
<1>9. JobsInOrder'
  BY <1>2, <1>6 DEF JobsInOrder, collecting
<1>10. 1..Len(results') = 1..Len(results) \cup {Len(results) + 1}
  BY <1>3
<1>11. \A n \in 1..Len(results) : n # Len(results) + 1
  BY <1>3
<1>12. TakenIsOpen'
  <2>1. Open(x)
    BY <1>0 DEF TakenIsOpen
  <2> QED
    BY <1>2, <1>3, <1>4, <1>5, <1>6, <1>10, <2>1 DEF TakenIsOpen, collecting
<1>13. OnePlace'
  <2>1. \A v \in Workers \ {w} : Busy(v) => worker[v].height # x
    BY <1>0 DEF OnePlace
  <2>2. (\A n \in 1..Len(results) : results[n].height # x) /\ x \notin resultMap
    BY <1>0 DEF OnePlace
  <2>3. \A u, v \in Workers : Busy(u)' /\ Busy(v)' /\ worker'[u].height = worker'[v].height => u = v
    BY <1>4, <1>5 DEF OnePlace
  <2>4. \A m, n \in 1..Len(results') : results'[m].height = results'[n].height => m = n
    BY <1>3, <1>10, <2>2 DEF OnePlace
  <2>5. \A v \in Workers : \A n \in 1..Len(results') : Busy(v)' => worker'[v].height # results'[n].height
    BY <1>3, <1>4, <1>5, <1>10, <2>1 DEF OnePlace
  <2>6. resultMap' = resultMap
    BY <1>2 DEF collecting
  <2>7. \A v \in Workers : Busy(v)' => worker'[v].height \notin resultMap'
    BY <1>4, <1>5, <2>6 DEF OnePlace
  <2>8. \A n \in 1..Len(results') : results'[n].height \notin resultMap'
    BY <1>3, <1>10, <2>2, <2>6 DEF OnePlace
  <2> QED
    BY <2>3, <2>4, <2>5, <2>7, <2>8 DEF OnePlace
<1>14. NothingLost'
  <2> SUFFICES ASSUME collector # "error", NEW y \in Range, Open(y)
               PROVE  \/ \E v \in Workers : Busy(v)' /\ worker'[v].height = y
                      \/ \E n \in 1..Len(results') : results'[n].height = y
                      \/ y \in resultMap'
    BY <1>2, <1>6 DEF NothingLost, collecting
  <2>1. CASE y = x
    BY <1>3, <1>10, <2>1
  <2>2. CASE y # x
    BY <1>2, <1>3, <1>4, <1>5, <1>10, <2>2 DEF NothingLost, collecting
  <2> QED
    BY <2>1, <2>2
<1>15. Endings'
  BY <1>2, <1>4, <1>7 DEF Endings, collecting, Idle, Exited
<1> QED
  BY <1>8, <1>9, <1>12, <1>13, <1>14, <1>15

\* The collector takes a result into its map, or returns with its error.
LEMMA ReceiveStep == IInv /\ Receive => IInv'
<1> SUFFICES ASSUME IInv, Receive PROVE IInv'
  OBVIOUS
<1> USE RangeAssumption DEF IInv
<1>1. /\ results # <<>> /\ results' = Tail(results)
      /\ UNCHANGED <<jobs, jobsClosed, resultsClosed, sendHeight, worker, nextHeight, cancelled>>
  BY DEF Receive
<1>2. /\ results \in Seq(Result)
      /\ results' \in Seq(Result) /\ Len(results) \in Nat \ {0} /\ Len(results') = Len(results) - 1
      /\ \A n \in 1..Len(results') : results'[n] = results[n + 1] /\ n + 1 \in 1..Len(results)
      /\ Head(results) = results[1] /\ Head(results) \in Result /\ 1 \in 1..Len(results)
  <2>1. results \in Seq(Result)
    BY DEF TypeOK
  <2> QED
    BY <1>1, <2>1, TailFacts
<1>3. Head(results).height \in Range /\ Head(results).ok \in BOOLEAN
  BY <1>2 DEF Result
<1> PICK x \in Range : x = Head(results).height
  BY <1>3
<1>4. \A n \in 1..Len(results) : n = 1 \/ (n - 1 \in 1..Len(results') /\ results[n] = results'[n - 1])
  BY <1>2
<1>5. Untaken' = Untaken /\ \A y : Open(y)' = Open(y)
  BY <1>1 DEF Untaken, Open
<1>6. \A v \in Workers : Busy(v)' = Busy(v)
  BY <1>1 DEF Busy
<1>7. /\ Open(x) /\ x \notin resultMap
      /\ \A n \in 1..Len(results') : results'[n].height # x
      /\ \A v \in Workers : Busy(v) => worker[v].height # x
  <2>1. Open(x) /\ x \notin resultMap /\ \A v \in Workers : Busy(v) => worker[v].height # x
    BY <1>2 DEF TakenIsOpen, OnePlace
  <2>2. ASSUME NEW n \in 1..Len(results') PROVE results'[n].height # x
    <3>1. n + 1 # 1
      OBVIOUS
    <3> QED
      BY <1>2, <3>1 DEF OnePlace
  <2> QED
    BY <2>1, <2>2
<1>8. \/ resultMap' = resultMap \cup {x} /\ collector' = "store"
      \/ resultMap' = resultMap /\ collector' = "error"
  BY DEF Receive
<1>9. TypeOK'
  <2>1. Len(results') <= Capacity
    BY <1>2 DEF TypeOK
  <2>2. resultMap' \subseteq Range /\ collector' \in {"recv", "store", "ok", "error"}
    BY <1>8 DEF TypeOK
  <2> QED
    BY <1>1, <1>2, <2>1, <2>2 DEF TypeOK
<1>10. JobsInOrder'
  BY <1>1, <1>5 DEF JobsInOrder
<1>11. TakenIsOpen'
  BY <1>1, <1>2, <1>5, <1>6, <1>7, <1>8 DEF TakenIsOpen
<1>12. OnePlace'
  <2>1. \A m, n \in 1..Len(results') : results'[m].height = results'[n].height => m = n
    <3> SUFFICES ASSUME NEW m \in 1..Len(results'), NEW n \in 1..Len(results'),
                        results'[m].height = results'[n].height
                 PROVE  m = n
      OBVIOUS
    <3>1. /\ m + 1 \in 1..Len(results) /\ n + 1 \in 1..Len(results)
          /\ results[m + 1].height = results[n + 1].height
      BY <1>2
    <3>2. m + 1 = n + 1
      BY <3>1 DEF OnePlace
    <3> QED
      BY <3>2
  <2>2. \A v \in Workers : \A n \in 1..Len(results') : Busy(v)' => worker'[v].height # results'[n].height
    BY <1>1, <1>2, <1>6 DEF OnePlace
  <2>3. \A v \in Workers : Busy(v)' => worker'[v].height \notin resultMap'
    BY <1>1, <1>6, <1>7, <1>8 DEF OnePlace
  <2>4. \A n \in 1..Len(results') : results'[n].height \notin resultMap'
    BY <1>2, <1>7, <1>8 DEF OnePlace
  <2>5. \A u, v \in Workers : Busy(u)' /\ Busy(v)' /\ worker'[u].height = worker'[v].height => u = v
    BY <1>1, <1>6 DEF OnePlace
  <2> QED
    BY <2>1, <2>2, <2>3, <2>4, <2>5 DEF OnePlace
<1>13. NothingLost'
  <2> SUFFICES ASSUME collector' # "error", NEW y \in Range, Open(y)
               PROVE  \/ \E v \in Workers : Busy(v) /\ worker[v].height = y
                      \/ \E n \in 1..Len(results') : results'[n].height = y
                      \/ y \in resultMap'
    BY <1>1, <1>5, <1>6 DEF NothingLost
  <2>1. resultMap' = resultMap \cup {x} /\ collector # "error"
    BY <1>8 DEF Receive
  <2>2. ASSUME NEW n \in 1..Len(results), results[n].height = y
        PROVE  y = x \/ \E m \in 1..Len(results') : results'[m].height = y
    BY <1>2, <1>4, <2>2
  <2> QED
    BY <2>1, <2>2 DEF NothingLost
<1>14. Endings'
  BY <1>1, <1>8 DEF Endings
<1> QED
  BY <1>9, <1>10, <1>11, <1>12, <1>13, <1>14

\* The collector stores the next height, which leaves the map, or returns with
\* the error of the store.
LEMMA StoreBlockStep == IInv /\ StoreBlock => IInv'
<1> SUFFICES ASSUME IInv, StoreBlock PROVE IInv'
  OBVIOUS
<1> USE RangeAssumption DEF IInv
<1>1. /\ collector = "store" /\ nextHeight \in resultMap
      /\ UNCHANGED <<channels, sendHeight, worker, cancelled>>
  BY DEF StoreBlock
<1>2. Untaken' = Untaken /\ Untaken \in Int /\ \A v \in Workers : Busy(v)' = Busy(v)
  BY <1>1 DEF Untaken, Busy, TypeOK, channels
<1>3. nextHeight \in Range /\ nextHeight < Untaken /\ nextHeight \in Int
  <2>1. nextHeight \in Range /\ Open(nextHeight)
    BY <1>1 DEF TypeOK, TakenIsOpen
  <2> QED
    BY <2>1 DEF Open, Range
<1>4. CASE resultMap' = resultMap \ {nextHeight} /\ nextHeight' = nextHeight + 1 /\ collector' = collector
  <2>1. \A y \in Int : y # nextHeight => (Open(y)' <=> Open(y))
    BY <1>2, <1>3, <1>4 DEF Open
  <2>1a. ASSUME NEW y \in Range, Open(y)' PROVE Open(y) /\ y # nextHeight
    BY <1>2, <1>3, <1>4, <2>1a DEF Open, Range
  <2>2. TypeOK'
    <3>1. nextHeight' \in First..Last + 1
      BY <1>3, <1>4 DEF Range
    <3> QED
      BY <1>1, <1>4, <3>1 DEF TypeOK, channels
  <2>3. JobsInOrder'
    <3>1. nextHeight' <= Untaken'
      BY <1>2, <1>3, <1>4
    <3> QED
      BY <1>1, <1>2, <3>1 DEF JobsInOrder, channels
  <2>4. /\ \A w \in Workers : Busy(w) => worker[w].height \in Int /\ worker[w].height # nextHeight
        /\ \A n \in 1..Len(results) : results[n].height \in Int /\ results[n].height # nextHeight
        /\ resultMap \subseteq Int
    <3>1. resultMap \subseteq Int
      BY DEF TypeOK, Range
    <3> QED
      BY <1>1, <3>1, WorkerFacts, ResultFacts DEF OnePlace, Range
  <2>5. TakenIsOpen'
    BY <1>1, <1>2, <1>4, <2>1, <2>4 DEF TakenIsOpen, channels
  <2>6. OnePlace'
    BY <1>1, <1>2, <1>4 DEF OnePlace, channels
  <2>7. NothingLost'
    BY <1>1, <1>2, <1>4, <2>1a DEF NothingLost, channels
  <2>8. Endings'
    BY <1>1, <1>4 DEF Endings, channels
  <2> QED
    BY <2>2, <2>3, <2>5, <2>6, <2>7, <2>8
<1>5. CASE resultMap' = resultMap /\ nextHeight' = nextHeight /\ collector' = "error"
  <2>1. \A y : Open(y)' = Open(y)
    BY <1>2, <1>5 DEF Open
  <2>2. TypeOK' /\ JobsInOrder'
    BY <1>1, <1>2, <1>5 DEF TypeOK, JobsInOrder, channels
  <2>3. TakenIsOpen' /\ OnePlace' /\ NothingLost'
    BY <1>1, <1>2, <1>5, <2>1 DEF TakenIsOpen, OnePlace, NothingLost, channels
  <2>4. Endings'
    BY <1>1, <1>5 DEF Endings, channels
  <2> QED
    BY <2>2, <2>3, <2>4
<1> QED
  BY <1>4, <1>5 DEF StoreBlock

\* A worker that finds the channel empty and closed leaves.
LEMMA NoMoreJobsStep == ASSUME NEW w \in Workers, IInv, NoMoreJobs(w) PROVE IInv'
<1> USE RangeAssumption DEF IInv
<1>1. /\ worker[w] = Idle /\ jobs = <<>> /\ jobsClosed
      /\ worker' = [worker EXCEPT ![w] = Exited]
      /\ UNCHANGED <<channels, sendHeight, collecting, cancelled>>
  BY DEF NoMoreJobs
<1>2. /\ worker' \in [Workers -> WorkerState] /\ worker'[w] = Exited
      /\ \A v \in Workers \ {w} : worker'[v] = worker[v]
  BY <1>1 DEF TypeOK, WorkerState
<1>3. /\ \A v \in Workers : Busy(v)' = Busy(v)
      /\ \A v \in Workers : Busy(v) => worker'[v] = worker[v]
  BY <1>1, <1>2 DEF Busy, Idle, Exited
<1>4. Untaken' = Untaken /\ \A y : Open(y)' = Open(y)
  BY <1>1 DEF Untaken, Open, channels, collecting
<1>5. TypeOK' /\ JobsInOrder'
  BY <1>1, <1>2, <1>4 DEF TypeOK, JobsInOrder, channels, collecting
<1>6. TakenIsOpen' /\ OnePlace' /\ NothingLost'
  BY <1>1, <1>3, <1>4 DEF TakenIsOpen, OnePlace, NothingLost, channels, collecting
<1>7. Endings'
  BY <1>1, <1>2 DEF Endings, channels, collecting, Exited
<1> QED
  BY <1>5, <1>6, <1>7

\* Cancelling, closing a channel and the collector's turns move no height.
LEMMA QuietStep ==
    ASSUME IInv, Cancel \/ CloseJobs \/ CloseResults \/ NextNotReady \/ Complete \/ UNCHANGED vars
    PROVE  IInv'
<1> USE RangeAssumption DEF IInv
<1>1. /\ UNCHANGED <<jobs, results, sendHeight, worker, resultMap, nextHeight>>
      /\ collector = "error" => collector' = "error"
      /\ collector' \in {"recv", "store", "ok", "error"}
      /\ cancelled => cancelled'
      /\ jobsClosed => jobsClosed'
      /\ cancelled' \in BOOLEAN /\ jobsClosed' \in BOOLEAN /\ resultsClosed' \in BOOLEAN
  <2>1. collector \in {"recv", "store", "ok", "error"}
    BY DEF TypeOK
  <2>2. cancelled \in BOOLEAN /\ jobsClosed \in BOOLEAN /\ resultsClosed \in BOOLEAN
    BY DEF TypeOK
  <2> QED
    BY <2>1, <2>2 DEF Cancel, CloseJobs, CloseResults, NextNotReady, Complete, vars, channels, collecting
<1>2. Untaken' = Untaken /\ (\A y : Open(y)' = Open(y)) /\ \A v \in Workers : Busy(v)' = Busy(v)
  BY <1>1 DEF Untaken, Open, Busy
<1>3. TypeOK' /\ JobsInOrder'
  BY <1>1, <1>2 DEF TypeOK, JobsInOrder
<1>4. TakenIsOpen' /\ OnePlace' /\ NothingLost'
  <2>1. TakenIsOpen'
    BY <1>1, <1>2 DEF TakenIsOpen
  <2>2. OnePlace'
    BY <1>1, <1>2 DEF OnePlace
  <2>3. NothingLost'
    BY <1>1, <1>2 DEF NothingLost
  <2> QED
    BY <2>1, <2>2, <2>3
<1>5. Endings'
  <2>1. jobsClosed' => sendHeight > Last \/ cancelled'
    BY <1>1 DEF Endings, Cancel, CloseJobs, CloseResults, NextNotReady, Complete, vars, channels, collecting
  <2>2. resultsClosed' => \A w \in Workers : worker[w] = Exited
    BY <1>1 DEF Endings, Cancel, CloseJobs, CloseResults, NextNotReady, Complete, vars, channels, collecting
  <2>3. collector' = "recv" => nextHeight \notin resultMap
    BY <1>1 DEF Endings, Cancel, CloseJobs, CloseResults, NextNotReady, Complete, vars, channels, collecting
  <2> QED
    BY <1>1, <2>1, <2>2, <2>3 DEF Endings
<1> QED
  BY <1>3, <1>4, <1>5

\* Every step keeps the invariant.
LEMMA NextIInv == IInv /\ [Next]_vars => IInv'
  BY SendJobStep, TakeJobStep, FetchStep, SendResultStep, ReceiveStep, StoreBlockStep,
     NoMoreJobsStep, QuietStep DEF Next, Goroutines

\* The channels never hold more than their capacity, and a height outside the
\* range is never asked for (fetcher.go:488-495).
THEOREM TypeCorrect == Spec => []TypeOK
<1>1. IInv => TypeOK
  BY DEF IInv
<1> QED
  BY <1>1, InitIInv, NextIInv, PTL DEF Spec

-----------------------------------------------------------------------------
\* In the invariant's terms a height has one place or none, and none only
\* before it is sent, after it is stored, or once its error is known.
LEMMA OnePlaceEach == IInv => EachHeightOnce
<1> SUFFICES ASSUME IInv, NEW x \in Range
             PROVE  LET places == (InJobs(x) \X {1}) \cup (AtWorkers(x) \X {2}) \cup (InResults(x) \X {3})
                                    \cup ((resultMap \cap {x}) \X {4})
                    IN  /\ \A p, q \in places : p = q
                        /\ x >= sendHeight \/ x < nextHeight => places = {}
                        /\ x < sendHeight /\ x >= nextHeight /\ collector # "error" => places # {}
  BY DEF EachHeightOnce
<1> USE DEF IInv
<1> DEFINE places == (InJobs(x) \X {1}) \cup (AtWorkers(x) \X {2}) \cup (InResults(x) \X {3})
                       \cup ((resultMap \cap {x}) \X {4})
<1>1. /\ x \in Int /\ sendHeight \in Int /\ nextHeight \in Int /\ Untaken \in Int
      /\ Len(jobs) \in Nat /\ Untaken = sendHeight - Len(jobs) /\ nextHeight <= Untaken
  BY RangeAssumption DEF Range, TypeOK, Untaken, JobsInOrder
<1>2. \A n \in InJobs(x) : n \in Int /\ Untaken <= x /\ x < sendHeight /\ n = x - Untaken + 1
  <2> SUFFICES ASSUME NEW n \in InJobs(x)
               PROVE  n \in Int /\ Untaken <= x /\ x < sendHeight /\ n = x - Untaken + 1
    OBVIOUS
  <2>1. n \in 1..Len(jobs) /\ jobs[n] = x
    BY DEF InJobs
  <2>2. x = Untaken + n - 1
    BY <2>1 DEF JobsInOrder
  <2> QED
    BY <1>1, <2>1, <2>2
<1>3. \A w \in AtWorkers(x) : w \in Workers /\ Busy(w) /\ worker[w].height = x /\ Open(x)
  BY DEF AtWorkers, Busy, TakenIsOpen
<1>4. \A n \in InResults(x) : n \in 1..Len(results) /\ results[n].height = x /\ Open(x)
  BY DEF InResults, TakenIsOpen
<1>5. x \in resultMap => Open(x)
  BY DEF TakenIsOpen
<1>6. Open(x) => nextHeight <= x /\ x < Untaken /\ x < sendHeight
  BY <1>1 DEF Open
<1>7. InJobs(x) # {} => ~Open(x)
  BY <1>1, <1>2, <1>6
<1>8. \A p \in places :
        \/ p[1] \in InJobs(x) /\ p = <<p[1], 1>>
        \/ p[1] \in AtWorkers(x) /\ p = <<p[1], 2>>
        \/ p[1] \in InResults(x) /\ p = <<p[1], 3>>
        \/ p[1] = x /\ x \in resultMap /\ p = <<p[1], 4>>
  OBVIOUS
<1>9. ASSUME NEW p \in places, NEW q \in places PROVE p = q
  <2>1. \A m, n \in InJobs(x) : m = n
    BY <1>2
  <2>2. \A v, w \in AtWorkers(x) : v = w
    BY <1>3 DEF OnePlace
  <2>3. \A m, n \in InResults(x) : m = n
    BY <1>4 DEF OnePlace
  <2>4. /\ AtWorkers(x) # {} => InResults(x) = {} /\ x \notin resultMap
        /\ InResults(x) # {} => x \notin resultMap
        /\ InJobs(x) # {} => AtWorkers(x) = {} /\ InResults(x) = {} /\ x \notin resultMap
    BY <1>3, <1>4, <1>5, <1>7 DEF OnePlace
  <2> HIDE DEF places
  <2> QED
    BY <1>8, <2>1, <2>2, <2>3, <2>4
<1>10. ASSUME x >= sendHeight \/ x < nextHeight PROVE places = {}
  <2>1. InJobs(x) = {} /\ ~Open(x)
    BY <1>1, <1>2, <1>6, <1>10
  <2> QED
    BY <1>3, <1>4, <1>5, <2>1
<1>11. ASSUME x < sendHeight, x >= nextHeight, collector # "error" PROVE places # {}
  <2>1. CASE x < Untaken
    <3>1. Open(x)
      BY <1>11, <2>1 DEF Open
    <3>2. AtWorkers(x) # {} \/ InResults(x) # {} \/ x \in resultMap
      BY <1>11, <3>1 DEF NothingLost, AtWorkers, InResults, Busy
    <3>3. /\ \A w \in AtWorkers(x) : <<w, 2>> \in places
          /\ \A n \in InResults(x) : <<n, 3>> \in places
          /\ x \in resultMap => <<x, 4>> \in places
      OBVIOUS
    <3> QED
      BY <3>2, <3>3
  <2>2. CASE x >= Untaken
    <3>1. x - Untaken + 1 \in 1..Len(jobs)
      BY <1>1, <1>11, <2>2
    <3>2. x - Untaken + 1 \in InJobs(x)
      BY <1>1, <3>1 DEF InJobs, JobsInOrder
    <3>3. <<x - Untaken + 1, 1>> \in places
      BY <3>2
    <3> QED
      BY <3>3
  <2> QED
    BY <1>1, <2>1, <2>2
<1> QED
  BY <1>9, <1>10, <1>11

\* No height is lost or worked on twice between the two channels, the workers
\* and the collector, and nothing is sent on a closed channel
\* (fetcher.go:499-555).
THEOREM NoHeightLost == Spec => []HeightsKept
<1>1. IInv => HeightsKept
  BY OnePlaceEach DEF HeightsKept, NoSendOnClosed, IInv, Endings
<1> QED
  BY <1>1, InitIInv, NextIInv, PTL DEF Spec

-----------------------------------------------------------------------------
\* The call returns nil only with every height of the range stored or with the
\* context cancelled: with no worker left and nothing in the channels, nothing
\* is left between what is stored and what was sent.
LEMMA CompleteIsAll == IInv /\ Complete => nextHeight > Last \/ cancelled
<1> SUFFICES ASSUME IInv, Complete, ~cancelled PROVE nextHeight > Last
  OBVIOUS
<1> USE RangeAssumption DEF IInv
<1>1. collector = "recv" /\ results = <<>> /\ \A w \in Workers : worker[w] = Exited
  BY DEF Complete, Endings
<1>2. jobs = <<>> /\ sendHeight > Last
  BY <1>1 DEF Endings
<1>3. \A w \in Workers : ~Busy(w)
  BY <1>1 DEF Busy, Exited
<1>4. nextHeight \in Range => ~Open(nextHeight)
  <2>1. nextHeight \notin resultMap
    BY <1>1 DEF Endings
  <2>2. 1..Len(results) = {}
    BY <1>1
  <2> QED
    BY <1>1, <1>3, <2>1, <2>2 DEF NothingLost
<1>5. nextHeight \in First..Last + 1 /\ Untaken = sendHeight /\ sendHeight \in Int
  BY <1>2 DEF TypeOK, Untaken
<1> QED
  BY <1>2, <1>4, <1>5 DEF Open, Range

\* A step of the pool is a step of the sequential fetch, or none.
LEMMA StepRefines ==
    IInv /\ [Next]_vars =>
        [Range1!Next]_<<nextHeight, IF collector \in {"ok", "error"} THEN collector ELSE "running", cancelled>>
<1> SUFFICES ASSUME IInv, [Next]_vars
             PROVE  [Range1!Next]_<<nextHeight,
                        IF collector \in {"ok", "error"} THEN collector ELSE "running", cancelled>>
  OBVIOUS
<1> USE DEF Range1!Next
<1>1. CASE Cancel
  BY <1>1 DEF Cancel, Range1!Cancel, collecting
<1>2. CASE StoreBlock
  <2>1. nextHeight <= Last
    BY <1>2, RangeAssumption DEF StoreBlock, IInv, TypeOK, Range
  <2> QED
    BY <1>2, <2>1 DEF StoreBlock, Range1!StoreNext, Range1!Fail
<1>3. CASE Receive
  BY <1>3 DEF Receive, Range1!Fail
<1>4. CASE Complete
  BY <1>4, CompleteIsAll DEF Complete, Range1!Succeed
<1>5. CASE NextNotReady
  BY <1>5 DEF NextNotReady
<1>6. CASE SendJob \/ CloseJobs \/ CloseResults \/ UNCHANGED vars
  BY <1>6 DEF SendJob, CloseJobs, CloseResults, vars, collecting
<1>7. ASSUME NEW w \in Workers,
             TakeJob(w) \/ NoMoreJobs(w) \/ FetchOK(w) \/ FetchError(w) \/ SendResult(w)
      PROVE  UNCHANGED <<nextHeight, collector, cancelled>>
  BY <1>7 DEF TakeJob, NoMoreJobs, FetchOK, FetchError, SendResult, collecting
<1> QED
  BY <1>1, <1>2, <1>3, <1>4, <1>5, <1>6, <1>7 DEF Next, Goroutines

\* The pool implements the sequential range fetch that FillGap and Run rely on:
\* heights are stored in order and once, an error stops the storing, and nil
\* means the whole range or a cancelled context (fetcher.go:476-596).
THEOREM PoolRefinesRangeFetch == Spec => RefinesRangeFetch
<1>1. Init => Range1!Init
  BY DEF Init, Range1!Init
<1> QED
  BY <1>1, InitIInv, NextIInv, StepRefines, PTL DEF Spec, RefinesRangeFetch, Range1!Spec

=============================================================================
