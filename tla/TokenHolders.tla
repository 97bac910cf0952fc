----------------------------- MODULE TokenHolders -----------------------------
(***************************************************************************)
(* Balances of one ERC-20 token by holder, the list of holders by balance, *)
(* the list of tokens of a holder and the statistics of the token.         *)
(* ProcessERC20TransferForHolders commits the sender, then the recipient,  *)
(* then the statistics; a crash between them leaves the transfer half done *)
(* and it is processed again.                                              *)
(***************************************************************************)
EXTENDS Integers, Sequences, FiniteSets, Functions

CONSTANTS
    Holders,
    Zero,           \* the zero address: mints and burns
    Transfers,      \* sequence of [from, to, value]
    MaxCrashes

ASSUME HoldersAssumption ==
    /\ Zero \notin Holders
    /\ Transfers \in Seq([from : Holders \cup {Zero}, to : Holders \cup {Zero}, value : Nat])
    /\ MaxCrashes \in Nat

VARIABLES
    held,       \* the rows: holders with a row have a positive balance
    byBalance,  \* list of holders by balance: <<balance, holder>>
    byHolder,   \* holders whose list of tokens has this one
    stats,      \* [holders, transfers] or none stored
    at, step,   \* transfer in hand, and which of its parts is next
    crashes, again  \* history: a transfer was processed twice in part

holderVars == <<held, byBalance, byHolder, stats, at, step, crashes, again>>

NoStats == [holders |-> 0, transfers |-> 0]
BalanceOf(h) == IF h \in DOMAIN held THEN held[h] ELSE 0

HoldersInit ==
    /\ held = [h \in {} |-> 0] /\ byBalance = {} /\ byHolder = {}
    /\ stats = NoStats /\ at = 1 /\ step = "from" /\ crashes = 0 /\ again = FALSE

\* Mutant: the entry under the old balance stays.
UpdateTokenHolderAdding(h, new) ==
    LET had == h \in DOMAIN held
    IN  /\ held' = [g \in (DOMAIN held \ {h}) \cup (IF new = 0 THEN {} ELSE {h}) |-> IF g = h THEN new ELSE held[g]]
        /\ byBalance' = byBalance \cup (IF new = 0 THEN {} ELSE {<<new, h>>})
        /\ byHolder' = IF new = 0 THEN byHolder \ {h} ELSE byHolder \cup {h}
        /\ stats' = [stats EXCEPT !.holders = IF had = (new # 0) THEN @ ELSE IF had THEN @ - 1 ELSE @ + 1]

updateHolderCountInBatch(delta) ==
    stats' = [stats EXCEPT !.holders = IF @ + delta < 0 THEN 0 ELSE @ + delta]

\* One batch: the entry under the old balance goes, row and entries follow
\* the new balance, and the count follows the rows.
UpdateTokenHolder(h, new) ==
    LET had == h \in DOMAIN held
        old == IF had THEN {<<held[h], h>>} ELSE {}
    IN  /\ held' = [g \in (DOMAIN held \ {h}) \cup (IF new = 0 THEN {} ELSE {h}) |-> IF g = h THEN new ELSE held[g]]
        /\ byBalance' = (byBalance \ old) \cup (IF new = 0 THEN {} ELSE {<<new, h>>})
        /\ byHolder' = IF new = 0 THEN byHolder \ {h} ELSE byHolder \cup {h}
        /\ CASE had /\ new = 0 -> updateHolderCountInBatch(-1)
             [] ~had /\ new # 0 -> updateHolderCountInBatch(1)
             [] OTHER -> UNCHANGED stats

InHand == Transfers[at]
Working == at \in DOMAIN Transfers

\* A balance never goes below zero.
DebitHolder ==
    /\ Working /\ step = "from" /\ step' = "to"
    /\ IF InHand.from = Zero THEN UNCHANGED <<held, byBalance, byHolder, stats>>
       ELSE UpdateTokenHolder(InHand.from, IF BalanceOf(InHand.from) < InHand.value THEN 0 ELSE BalanceOf(InHand.from) - InHand.value)
    /\ UNCHANGED <<at, crashes, again>>

CreditHolder ==
    /\ Working /\ step = "to" /\ step' = "stats"
    /\ IF InHand.to = Zero THEN UNCHANGED <<held, byBalance, byHolder, stats>>
       ELSE UpdateTokenHolder(InHand.to, BalanceOf(InHand.to) + InHand.value)
    /\ UNCHANGED <<at, crashes, again>>

UpdateTokenHolderStats ==
    /\ Working /\ step = "stats" /\ step' = "from" /\ at' = at + 1
    /\ stats' = [stats EXCEPT !.transfers = @ + 1]
    /\ UNCHANGED <<held, byBalance, byHolder, crashes, again>>

HolderCrash ==
    /\ crashes < MaxCrashes /\ crashes' = crashes + 1
    /\ again' = (again \/ step # "from") /\ step' = "from"
    /\ UNCHANGED <<held, byBalance, byHolder, stats, at>>

HoldersNext == DebitHolder \/ CreditHolder \/ UpdateTokenHolderStats \/ HolderCrash
HoldersSpec == HoldersInit /\ [][HoldersNext]_holderVars

-----------------------------------------------------------------------------
\* What a transfer brings to a holder, and what a set of them does.
Flow(h) == [i \in DOMAIN Transfers |->
              (IF Transfers[i].to = h THEN Transfers[i].value ELSE 0)
                - (IF Transfers[i].from = h THEN Transfers[i].value ELSE 0)]
Moved(h, S) == SumFunctionOnSet(Flow(h), S)

\* The contract moves what its holders have: a token that changes balances
\* without a Transfer event does not.
Covered == \A i \in DOMAIN Transfers :
    Transfers[i].from # Zero => Transfers[i].value <= Moved(Transfers[i].from, 1..(i - 1))

\* At every point between two commits, the list by balance, the lists by
\* holder and the number of holders agree with the rows; and between two
\* transfers none of which was interrupted the rows are the balances.
HoldersAgree ==
    /\ byBalance = {<<held[h], h>> : h \in DOMAIN held}
    /\ byHolder = DOMAIN held
    /\ stats.holders = Cardinality(DOMAIN held)
    /\ ~again /\ step = "from" => /\ \A h \in Holders : BalanceOf(h) = Moved(h, 1..(at - 1))
                                  /\ stats.transfers = at - 1
=============================================================================
