---------------------------- MODULE TokenMetadata ----------------------------
(***************************************************************************)
(* The metadata of one token contract and the keys it is found by.  The    *)
(* indexer (indexContractIfToken, IndexToken) and the requests for token   *)
(* balances (fetchAndCacheTokenMetadata) fill the row when they find none; *)
(* RefreshMetadata replaces it.  Between reading the row and committing    *)
(* the new one lie several calls to the node and two deletes of their own. *)
(*                                                                         *)
(* A metadata is [standard, name, symbol]; a call to the node that fails   *)
(* leaves a label empty.  Labels are searched in lower case.               *)
(***************************************************************************)
EXTENDS Integers, Sequences, FiniteSets

CONSTANTS
    Writers,        \* goroutines
    Reported,       \* metadata the node's answers can lead to
    ToLower(_),     \* strings.ToLower
    MaxOps          \* bound on the operations

ASSUME MetadataAssumption ==
    /\ Reported \subseteq [standard : STRING, name : STRING, symbol : STRING]
    /\ MaxOps \in Nat

VARIABLES row, labels, standards, job, ops, interrupted

metaVars == <<row, labels, standards, job, ops, interrupted>>

NoRow == [standard |-> "none", name |-> "", symbol |-> ""]
Idle == [pc |-> "idle", new |-> NoRow, old |-> NoRow]
Fields == {"name", "symbol"}
LabelKey(m, f) == <<f, ToLower(m[f])>>
LabelKeys(m) == {LabelKey(m, f) : f \in {g \in Fields : m[g] # ""}}

MetadataInit ==
    /\ row = NoRow /\ labels = {} /\ standards = {}
    /\ job = [w \in Writers |-> Idle] /\ ops = 0 /\ interrupted = FALSE

Start(w, j) == job[w] = Idle /\ ops < MaxOps /\ ops' = ops + 1 /\ job' = [job EXCEPT ![w] = j]
Goto(w, j) == job' = [job EXCEPT ![w] = j] /\ UNCHANGED <<ops, interrupted>>

\* A row that exists is left alone: the indexer on the creation of a
\* contract, the token service, and a request for token balances.
FindsNoRow(w) ==
    /\ row = NoRow
    /\ Start(w, [Idle EXCEPT !.pc = "detect"])
    /\ UNCHANGED <<row, labels, standards, interrupted>>
indexContractIfToken(w) == FindsNoRow(w)
IndexToken(w) == FindsNoRow(w)
fetchAndCacheTokenMetadata(w) == FindsNoRow(w)

\* Not a token, or a contract the node cannot be asked about.
NotAToken(w) ==
    /\ job[w].pc = "detect" /\ Goto(w, Idle)
    /\ UNCHANGED <<row, labels, standards>>

DetectStandard(w) ==
    /\ job[w].pc = "detect"
    /\ \E m \in Reported : Goto(w, [Idle EXCEPT !.pc = "fetch", !.new.standard = m.standard])
    /\ UNCHANGED <<row, labels, standards>>

\* Every label is a call of its own; one that fails stays empty.
FetchMetadata(w) ==
    /\ job[w].pc = "fetch"
    /\ \E m \in Reported : m.standard = job[w].new.standard /\ Goto(w, [Idle EXCEPT !.pc = "save", !.new = m])
    /\ UNCHANGED <<row, labels, standards>>

\* The standard stays, the labels are fetched again.
RefreshMetadata(w) ==
    /\ row # NoRow
    /\ \E m \in Reported : Start(w, [Idle EXCEPT !.pc = "save", !.new = [m EXCEPT !.standard = row.standard]])
    /\ UNCHANGED <<row, labels, standards, interrupted>>

\* SaveTokenMetadata: read the old row, delete its labels one by one, commit.
ReadOld(w) ==
    /\ job[w].pc = "save"
    /\ Goto(w, [job[w] EXCEPT !.pc = "name", !.old = row])
    /\ UNCHANGED <<row, labels, standards>>

DeleteOldLabel(w, f) ==
    LET old == job[w].old
        changed == old[f] # job[w].new[f] /\ old[f] # ""
    IN  /\ job[w].pc = f
        /\ labels' = IF changed THEN labels \ {LabelKey(old, f)} ELSE labels
        /\ Goto(w, [job[w] EXCEPT !.pc = IF f = "name" THEN "symbol" ELSE "commit"])
        /\ UNCHANGED <<row, standards>>

CommitMetadata(w) ==
    LET m == job[w].new
    IN  /\ job[w].pc = "commit"
        /\ row' = m
        /\ standards' = standards \cup {m.standard}
        /\ labels' = labels \cup LabelKeys(m)
        /\ Goto(w, Idle)

\* DeleteTokenMetadata: one batch, over the row read before.
ReadForDelete(w) ==
    /\ row # NoRow
    /\ Start(w, [Idle EXCEPT !.pc = "drop", !.old = row])
    /\ UNCHANGED <<row, labels, standards, interrupted>>

DeleteTokenMetadata(w) ==
    /\ job[w].pc = "drop"
    /\ row' = NoRow
    /\ standards' = standards \ {job[w].old.standard}
    /\ labels' = labels \ LabelKeys(job[w].old)
    /\ Goto(w, Idle)

Interrupt ==
    /\ job # [w \in Writers |-> Idle]
    /\ job' = [w \in Writers |-> Idle] /\ interrupted' = TRUE
    /\ UNCHANGED <<row, labels, standards, ops>>

MetadataNext ==
    \/ Interrupt
    \/ \E w \in Writers :
          \/ indexContractIfToken(w) \/ IndexToken(w) \/ fetchAndCacheTokenMetadata(w)
          \/ NotAToken(w) \/ DetectStandard(w) \/ FetchMetadata(w) \/ RefreshMetadata(w) \/ ReadOld(w) \/ CommitMetadata(w)
          \/ ReadForDelete(w) \/ DeleteTokenMetadata(w)
          \/ \E f \in Fields : DeleteOldLabel(w, f)

MetadataSpec == MetadataInit /\ [][MetadataNext]_metaVars

-----------------------------------------------------------------------------
AtRest == job = [w \in Writers |-> Idle]

\* SearchTokens(q): the row, if a key with that label leads to it.
SearchFinds(f, label) == row # NoRow /\ <<f, ToLower(label)>> \in labels

\* A stored token is found under its standard and its labels, whichever
\* writers overlapped, unless one was interrupted.
StoredIsFound ==
    AtRest /\ ~interrupted /\ row # NoRow =>
        /\ row.standard \in standards
        /\ \A f \in Fields : row[f] # "" => SearchFinds(f, row[f])

\* Claim: SearchTokens finds "tokens by name or symbol": what it finds has
\* that label.  Two overlapping writers break it.
FoundIsStored ==
    AtRest /\ row # NoRow => labels \subseteq LabelKeys(row) /\ standards \subseteq {row.standard}
=============================================================================
