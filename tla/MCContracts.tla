---------------------------- MODULE MCContracts ----------------------------
(* Logs of the system contracts for TLC: two accounts and one proposal.      *)
(* The events of a chain are those of one family, since the handlers of      *)
(* different families write different keys, in every order the contracts     *)
(* allow and with every distribution over two blocks; the last family mixes  *)
(* the rest.                                                                 *)
EXTENDS Integers, Sequences, FiniteSetsExt, TLC

CONSTANTS
    a1, a2, p1,
    MaxLogs,      \* logs of a chain
    GenesisSupply \* coins no Mint event was emitted for

AccountSymmetry == Permutations({a1, a2})

Ended == {"executed", "failed", "rejected", "expired", "cancelled"}

Ev(k) == [kind |-> k]
On(k, a) == [kind |-> k, account |-> a]
Coins(k, n) == [kind |-> k, amount |-> n]
Gov(k, p) == [kind |-> k, proposal |-> p]
Member(k, c, a) == [kind |-> k, contract |-> c, account |-> a]

SupplyFamily ==
    {Coins("mint", 1), Coins("burn", 1), Coins("burnExecuted", 2), Ev("malformed")}
MinterFamily ==
    {[kind |-> "minterConfigured", account |-> a, amount |-> n] : a \in {a1, a2}, n \in {0, 1}}
        \cup {On("minterRemoved", a) : a \in {a1, a2}}
ProposalFamily ==
    {Gov("created", p1)} \cup {[kind |-> "status", proposal |-> p1, status |-> s] : s \in {"approved"} \cup Ended}
        \cup {[kind |-> "voted", proposal |-> p1, account |-> a] : a \in {a1, a2}}
ValidatorFamily ==
    {Member(k, "validator", a) : k \in {"memberAdded", "memberRemoved"}, a \in {a1, a2}}
        \cup {[kind |-> "memberChanged", contract |-> "validator", account |-> p[1], old |-> p[2]] :
                p \in {<<a1, a2>>, <<a2, a1>>}}
BlacklistFamily == {On(k, a) : k \in {"blacklisted", "unblacklisted"}, a \in {a1, a2}}
AuthorizedFamily == {On(k, a) : k \in {"authorized", "unauthorized"}, a \in {a1, a2}}
OtherFamily ==
    {Ev(k) : k \in {"gasTip", "emergency", "maxProposals", "skipped", "masterMinter",
                    "quorum", "maxAllowance", "burnPrepaid", "other"}}
        \cup {Gov("depositMint", p1), Member("memberAdded", "council", a1),
              Member("memberRemoved", "council", a1),
              [kind |-> "memberChanged", contract |-> "council", account |-> a1, old |-> a2]}

\* What the contracts let happen: a proposal is created once, voted on and
\* decided afterwards, executed after its approval; a burn has its coins.
Amount(l) == IF l.kind = "mint" THEN l.amount
             ELSE IF l.kind \in {"burn", "burnExecuted"} THEN -l.amount ELSE 0
IsStatus(l, s) == l.kind = "status" /\ l.status \in s

Possible(c) ==
    \A x \in DOMAIN c :
        /\ c[x].kind = "created" => \A y \in 1..(x - 1) : c[y].kind # "created"
        /\ c[x].kind = "voted" =>
              /\ \E y \in 1..(x - 1) : c[y].kind = "created"
              /\ \A y \in 1..(x - 1) : c[y] # c[x] /\ c[y].kind # "status"
        /\ c[x].kind = "status" =>
              /\ \E y \in 1..(x - 1) : c[y].kind = "created"
              /\ \A y \in 1..(x - 1) : ~IsStatus(c[y], Ended)
        /\ IsStatus(c[x], {"executed", "failed"}) =>
              \E y \in 1..(x - 1) : IsStatus(c[y], {"approved"})
        /\ IsStatus(c[x], {"approved", "rejected"}) =>
              \A y \in 1..(x - 1) : ~IsStatus(c[y], {"approved"})
        /\ GenesisSupply + MapThenSumSet(LAMBDA y : Amount(c[y]), 1..x) >= 0

\* The first k logs are in block 1, the others in block 2; an empty block
\* before the first log would add nothing.
InBlocks(c, k) == [x \in DOMAIN c |-> [block |-> IF x <= k THEN 1 ELSE 2] @@ c[x]]

ChainsOf(family, n) ==
    {InBlocks(c, k) : c \in {d \in UNION {[1..m -> family] : m \in 0..n} : Possible(d)}, k \in 1..n}

ContractChains ==
    UNION {ChainsOf(f, MaxLogs) : f \in {SupplyFamily, MinterFamily, ValidatorFamily,
                                         BlacklistFamily, AuthorizedFamily}}
        \cup ChainsOf(ProposalFamily, MaxLogs + 1)
        \cup ChainsOf(OtherFamily, 2)
=============================================================================
