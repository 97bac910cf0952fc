----------------------------- MODULE RangeFetch -----------------------------
(***************************************************************************)
(* What a range fetch promises its caller (FillGap, Run): the heights of   *)
(* first..last are stored one after the other, each once, and the result   *)
(* says how it ended.                                                      *)
(***************************************************************************)
EXTENDS Integers

CONSTANTS first, last

VARIABLES
    stored,     \* the next height to store
    result,     \* "running", "ok" or "error"
    cancelled   \* the caller's context

Init ==
    /\ stored = first
    /\ result = "running"
    /\ cancelled = FALSE

StoreNext ==
    /\ result = "running" /\ stored <= last
    /\ stored' = stored + 1
    /\ UNCHANGED <<result, cancelled>>

Fail ==
    /\ result = "running"
    /\ result' = "error"
    /\ UNCHANGED <<stored, cancelled>>

\* Success before the last height needs a cancelled context.
Succeed ==
    /\ result = "running"
    /\ stored > last \/ cancelled
    /\ result' = "ok"
    /\ UNCHANGED <<stored, cancelled>>

Cancel ==
    /\ ~cancelled
    /\ cancelled' = TRUE
    /\ UNCHANGED <<stored, result>>

Next == StoreNext \/ Fail \/ Succeed \/ Cancel

Spec == Init /\ [][Next]_<<stored, result, cancelled>>
=============================================================================
