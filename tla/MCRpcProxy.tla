----------------------------- MODULE MCRpcProxy -----------------------------
(* Three calls that meet in the cache, at the breaker or in the queue.      *)
EXTENDS RpcProxy, TLC

CONSTANTS c1, c2, c3

Direct(k, b) == [kind |-> k, block |-> b, queued |-> FALSE]
Submitted(k) == [kind |-> k, block |-> 0, queued |-> TRUE]
Made(s) == [c \in {<<c1, c2, c3>>[i] : i \in DOMAIN s} |->
               s[CHOOSE i \in DOMAIN s : <<c1, c2, c3>>[i] = c]]

MCScenarios ==
    {Made(<<Direct("status", 0), Direct("status", 0), Direct("status", 0)>>),
     Made(<<Direct("balance", 0), Direct("balance", 1)>>),
     Made(<<Direct("nonce", 0), Direct("code", 1)>>),
     Made(<<Submitted("call"), Submitted("trace"), Submitted("balance")>>),
     Made(<<Submitted("status"), Direct("status", 0)>>),
     Made(<<Submitted("status"), Submitted("call")>>)}
=============================================================================
