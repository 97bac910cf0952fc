--------------------------- MODULE SystemContracts ---------------------------
(***************************************************************************)
(* The indexes of governance and native-coin events.  FetchBlock hands the *)
(* logs of each receipt to SystemContractEventParser, whose handler for    *)
(* the event makes one or more separate synchronous writes and then tells  *)
(* the event bus.  An error ends the handler, is logged, and the parser    *)
(* goes on with the next log.  The block is recorded as indexed after its  *)
(* last log.  When FetchBlock fails, Run begins its batch again, with      *)
(* blocks already recorded; when the process dies, the next one begins     *)
(* after the recorded height.  Either way logs are parsed again over what  *)
(* earlier attempts have written.                                          *)
(*                                                                         *)
(* logs is the sequence of logs,  each with its block number, and differs  *)
(* from behaviour to behaviour.  An element of Proposals stands for a pair *)
(* (contract, proposal id).  "malformed" is any log whose topics or data   *)
(* do not have the shape its handler wants, "other" any log the parser     *)
(* does not route.                                                         *)
(***************************************************************************)
EXTENDS Integers, Sequences, FiniteSets, FiniteSetsExt

CONSTANTS
    Accounts,     \* minters, validators, voters, listed accounts
    Proposals,    \* (contract, proposal id)
    Chains,       \* the log sequences the contracts may have emitted
    MaxBlock,     \* height of the chain
    Batch,        \* config.BatchSize
    MaxReplays,   \* bound on failed batches and restarts
    MaxFaults,    \* bound on failing writes
    Absent        \* the value of an absent key

Voting == "voting"
Final == {"executed", "failed", "rejected", "expired", "cancelled"}
Statuses == {Voting, "approved"} \cup Final

\* A log names accounts and proposals there are.
IsLog(l) ==
    /\ l.block \in 1..MaxBlock
    /\ l.kind \in {"minterConfigured", "minterRemoved", "voted", "memberAdded", "memberRemoved",
                  "memberChanged", "blacklisted", "unblacklisted", "authorized", "unauthorized"}
          => l.account \in Accounts
    /\ l.kind \in {"created", "status", "voted"} => l.proposal \in Proposals
    /\ l.kind = "status" => l.status \in Statuses \ {Voting}
    /\ l.kind \in {"mint", "burn", "burnExecuted"} => l.amount \in Nat

\* What the contracts emit: logs in the order of their blocks; a proposal is
\* created before anything else is said of it, and once it was executed, or its
\* execution failed, its status does not change.
ASSUME ChainsAssumption ==
    /\ MaxBlock \in Nat
    /\ \A c \in Chains :
          /\ Len(c) \in Nat /\ DOMAIN c = 1..Len(c)
          /\ \A i \in 1..Len(c) : IsLog(c[i])
          /\ \A i, j \in 1..Len(c) : i < j =>
                /\ c[i].block <= c[j].block
                /\ (/\ {c[i].kind, c[j].kind} \subseteq {"created", "status"}
                    /\ c[i].proposal = c[j].proposal) =>
                      /\ c[j].kind = "status"
                      /\ c[i].kind = "status" => c[i].status \notin {"executed", "failed"}
    /\ Absent \notin [status : Statuses, executedAt : Nat]

VARIABLES
    logs,       \* the logs of blocks 1..MaxBlock, in order
    first, current, \* Run: first height of the batch; the block in hand
    position,   \* the log the parser works on
    todo,       \* the writes its handler has still to make
    recorded,   \* the latest-height key
    rows,       \* event tables: key -> position of the log stored there
    supply,     \* the total-supply key
    minters,    \* minter_active: allowance or Absent
    validators, \* validator_active
    blacklist,  \* blacklist_active
    proposals,  \* proposal rows: [status, executedAt] or Absent
    listed,     \* proposal_status: {<<proposal, status>>}
    told,       \* positions of the logs the event bus was told of
    failed,     \* positions whose last parse that ended returned an error
    replays,    \* failed batches and restarts so far
    faults,     \* failed writes so far
    reached,    \* history: the highest block a log of which was parsed
    torn        \* history: a restart has cut short a second pass over a
                \* recorded block and begun behind it

run == <<first, current>>
history == <<reached, torn>>
indexes == <<rows, supply, minters, validators, blacklist, proposals, listed>>
contractVars == <<logs, run, position, todo, recorded, indexes, told, failed, replays, faults, history>>

Positions == 1..Len(logs)
LogsOf(b) == {i \in Positions : logs[i].block = b}
FirstAfter(b) == Cardinality({i \in Positions : logs[i].block <= b}) + 1

-----------------------------------------------------------------------------
\* The keys of the event tables.  The transaction and log indexes of the key
\* formats are always 0: the events of one kind in one block share a key.
\* Where the key has the contract and one contract emits the event, it is
\* left out.

MintEventKey(l) == <<"mint", l.block>>
BurnEventKey(l) == <<"burn", l.block>>
MinterConfigEventKey(l) == <<"minter", l.account, l.block>>
ValidatorChangeEventKey(l) == <<"validator", l.account, l.block>>
ProposalVoteKey(l) == <<"vote", l.proposal, l.account>>
BlacklistEventKey(l) == <<"blacklist", l.account, l.block>>
MemberChangeEventKey(l) == <<"member", l.contract, l.block>>
GasTipUpdateEventKey(l) == <<"gastip", l.block>>
EmergencyPauseEventKey(l) == <<"emergency", l.block>>
DepositMintProposalKey(l) == <<"depositmint", l.proposal>>
MaxProposalsUpdateEventKey(l) == <<"maxproposals", l.block>>
ProposalExecutionSkippedEventKey(l) == <<"skipped", l.block>>
AuthorizedAccountEventKey(l) == <<"authorized", l.block>>

-----------------------------------------------------------------------------
\* The writes a handler makes, one synchronous call of the store each.

Row(k) == [op |-> "row", key |-> k]
Supply(d) == [op |-> "supply", delta |-> d]
Minter(a, v) == [op |-> "minter", account |-> a, allowance |-> v]
Validator(a, on) == [op |-> "validator", account |-> a, on |-> on]
Blacklist(a, on) == [op |-> "blacklist", account |-> a, on |-> on]
Proposal(p, v) == [op |-> "proposal", proposal |-> p, value |-> v]
Unlist(p, s) == [op |-> "unlist", entry |-> <<p, s>>]
List(p, s) == [op |-> "list", entry |-> <<p, s>>]
Tell == [op |-> "publish"]

\* UpdateProposalStatus reads the row and moves the entry of the status index
\* from the status it finds there; a zero executedAt leaves the old one.
UpdateProposalStatus(p, s, at) ==
    << Unlist(p, proposals[p].status),
       Proposal(p, [status |-> s,
                    executedAt |-> IF at > 0 THEN at ELSE proposals[p].executedAt]),
       List(p, s) >>

\* StoreProposal overwrites the row and adds to the status index.
StoreProposal(p) == << Proposal(p, [status |-> Voting, executedAt |-> 0]), List(p, Voting) >>

-----------------------------------------------------------------------------
\* The handlers.

parseMintEvent(l) == <<Row(MintEventKey(l)), Supply(l.amount), Tell>>
parseBurnEvent(l) == <<Row(BurnEventKey(l)), Supply(-l.amount), Tell>>
\* Mutant: the sign of the amount is not turned.
parseBurnExecutedEventAdds(l) == <<Row(BurnEventKey(l)), Supply(l.amount), Tell>>
parseBurnExecutedEvent(l) == <<Row(BurnEventKey(l)), Supply(-l.amount), Tell>>
parseMinterConfiguredEvent(l) ==
    <<Row(MinterConfigEventKey(l)), Minter(l.account, l.amount), Tell>>
parseMinterRemovedEvent(l) ==
    <<Row(MinterConfigEventKey(l)), Minter(l.account, Absent), Tell>>

parseProposalCreatedEvent(l) == StoreProposal(l.proposal) \o <<Tell>>
parseProposalVotedEvent(l) == <<Row(ProposalVoteKey(l)), Tell>>

\* ProposalApproved, Rejected, Executed, Failed, Expired and Cancelled.
parseProposalStatusEvent(l) ==
    UpdateProposalStatus(l.proposal, l.status,
        IF l.status \in {"executed", "failed"} THEN l.block ELSE 0) \o <<Tell>>

\* MemberAdded and MemberRemoved; only GovValidator has an active index.
parseMemberAddedEvent(l) ==
    <<Row(MemberChangeEventKey(l))>>
        \o (IF l.contract = "validator" THEN <<Validator(l.account, TRUE)>> ELSE <<>>)
        \o <<Tell>>
parseMemberRemovedEvent(l) ==
    <<Row(MemberChangeEventKey(l))>>
        \o (IF l.contract = "validator" THEN <<Validator(l.account, FALSE)>> ELSE <<>>)
        \o <<Tell>>
\* Mutant: the validator that is replaced stays active.
parseMemberChangedEventKeepsOld(l) ==
    <<Row(MemberChangeEventKey(l))>>
        \o (IF l.contract = "validator"
            THEN << Validator(l.account, TRUE), Row(ValidatorChangeEventKey(l)) >>
            ELSE <<>>)
        \o <<Tell>>
parseMemberChangedEvent(l) ==
    <<Row(MemberChangeEventKey(l))>>
        \o (IF l.contract = "validator"
            THEN << Validator(l.old, FALSE), Validator(l.account, TRUE),
                    Row(ValidatorChangeEventKey(l)) >>
            ELSE <<>>)
        \o <<Tell>>

\* Mutant: subscribers are told before the index is updated.
parseAddressBlacklistedEventEarly(l) ==
    <<Row(BlacklistEventKey(l)), Tell, Blacklist(l.account, TRUE)>>
parseAddressBlacklistedEvent(l) ==
    <<Row(BlacklistEventKey(l)), Blacklist(l.account, TRUE), Tell>>
parseAddressUnblacklistedEvent(l) ==
    <<Row(BlacklistEventKey(l)), Blacklist(l.account, FALSE), Tell>>

\* AuthorizedAccountAdded and AuthorizedAccountRemoved.
parseAuthorizedAccountEvent(l) == <<Row(AuthorizedAccountEventKey(l)), Tell>>

parseGasTipUpdatedEvent(l) == <<Row(GasTipUpdateEventKey(l)), Tell>>
parseEmergencyEvent(l) == <<Row(EmergencyPauseEventKey(l)), Tell>>
parseDepositMintProposedEvent(l) == <<Row(DepositMintProposalKey(l)), Tell>>
parseMaxProposalsPerMemberUpdatedEvent(l) == <<Row(MaxProposalsUpdateEventKey(l)), Tell>>
parseProposalExecutionSkippedEvent(l) == <<Row(ProposalExecutionSkippedEventKey(l)), Tell>>

\* Only subscribers hear of these.
parseMasterMinterChangedEvent(l) == <<Tell>>
parseQuorumUpdatedEvent(l) == <<Tell>>
parseMaxMinterAllowanceUpdatedEvent(l) == <<Tell>>
parseBurnPrepaidEvent(l) == <<Tell>>

\* The handler returns an error before its first write: the topics or the
\* data do not have the event's shape, or the proposal is not stored.
RejectsLog(l) ==
    \/ l.kind = "malformed"
    \/ l.kind = "status" /\ proposals[l.proposal] = Absent

parseAndIndexLog(l) ==
    CASE l.kind = "mint" -> parseMintEvent(l)
      [] l.kind = "burn" -> parseBurnEvent(l)
      [] l.kind = "burnExecuted" -> parseBurnExecutedEvent(l)
      [] l.kind = "minterConfigured" -> parseMinterConfiguredEvent(l)
      [] l.kind = "minterRemoved" -> parseMinterRemovedEvent(l)
      [] l.kind = "created" -> parseProposalCreatedEvent(l)
      [] l.kind = "voted" -> parseProposalVotedEvent(l)
      [] l.kind = "status" -> parseProposalStatusEvent(l)
      [] l.kind = "memberAdded" -> parseMemberAddedEvent(l)
      [] l.kind = "memberRemoved" -> parseMemberRemovedEvent(l)
      [] l.kind = "memberChanged" -> parseMemberChangedEvent(l)
      [] l.kind = "blacklisted" -> parseAddressBlacklistedEvent(l)
      [] l.kind = "unblacklisted" -> parseAddressUnblacklistedEvent(l)
      [] l.kind \in {"authorized", "unauthorized"} -> parseAuthorizedAccountEvent(l)
      [] l.kind = "gasTip" -> parseGasTipUpdatedEvent(l)
      [] l.kind = "emergency" -> parseEmergencyEvent(l)
      [] l.kind = "depositMint" -> parseDepositMintProposedEvent(l)
      [] l.kind = "maxProposals" -> parseMaxProposalsPerMemberUpdatedEvent(l)
      [] l.kind = "skipped" -> parseProposalExecutionSkippedEvent(l)
      [] l.kind = "masterMinter" -> parseMasterMinterChangedEvent(l)
      [] l.kind = "quorum" -> parseQuorumUpdatedEvent(l)
      [] l.kind = "maxAllowance" -> parseMaxMinterAllowanceUpdatedEvent(l)
      [] l.kind = "burnPrepaid" -> parseBurnPrepaidEvent(l)
      [] OTHER -> <<>>

-----------------------------------------------------------------------------
ContractsInit ==
    /\ logs \in Chains
    /\ first = 1 /\ current = 1 /\ position = 1 /\ todo = <<>> /\ recorded = 0
    /\ rows = <<>>
    /\ supply = 0
    /\ minters = [a \in Accounts |-> Absent]
    /\ validators = {} /\ blacklist = {}
    /\ proposals = [p \in Proposals |-> Absent]
    /\ listed = {}
    /\ told = {} /\ failed = {}
    /\ replays = 0 /\ faults = 0
    /\ reached = 0 /\ torn = FALSE

\* ParseAndIndexLogs takes the next log of the block FetchBlock works on.
AtLog == todo = <<>> /\ position \in LogsOf(current)

ParseLog ==
    /\ AtLog
    /\ ~RejectsLog(logs[position])
    /\ todo' = parseAndIndexLog(logs[position])
    /\ position' = IF todo' = <<>> THEN position + 1 ELSE position
    /\ failed' = IF todo' = <<>> THEN failed \ {position} ELSE failed
    /\ reached' = Max({reached, current})
    /\ UNCHANGED <<logs, run, recorded, indexes, told, replays, faults, torn>>

\* The error is logged and the loop continues.
RejectLog ==
    /\ AtLog
    /\ RejectsLog(logs[position])
    /\ position' = position + 1
    /\ failed' = failed \cup {position}
    /\ UNCHANGED <<logs, run, todo, recorded, indexes, told, replays, faults, history>>

\* The next write of the handler.
Doing(op) ==
    /\ todo # <<>>
    /\ Head(todo).op = op
    /\ todo' = Tail(todo)
    /\ UNCHANGED <<logs, run, recorded, replays, faults, history>>

Quiet == UNCHANGED <<position, told, failed>>

StoreEvent ==
    /\ Doing("row") /\ Quiet
    /\ rows' = [k \in DOMAIN rows \cup {Head(todo).key} |->
                    IF k = Head(todo).key THEN position ELSE rows[k]]
    /\ UNCHANGED <<supply, minters, validators, blacklist, proposals, listed>>

\* EncodeBigInt keeps the magnitude only.
EncodeBigInt(n) == IF n < 0 THEN -n ELSE n

UpdateTotalSupply ==
    /\ Doing("supply") /\ Quiet
    /\ supply' = EncodeBigInt(supply + Head(todo).delta)
    /\ UNCHANGED <<rows, minters, validators, blacklist, proposals, listed>>

UpdateActiveMinter ==
    /\ Doing("minter") /\ Quiet
    /\ minters' = [minters EXCEPT ![Head(todo).account] = Head(todo).allowance]
    /\ UNCHANGED <<rows, supply, validators, blacklist, proposals, listed>>

\* A key that is set or deleted.
Switch(set, a, on) == IF on THEN set \cup {a} ELSE set \ {a}

UpdateActiveValidator ==
    /\ Doing("validator") /\ Quiet
    /\ validators' = Switch(validators, Head(todo).account, Head(todo).on)
    /\ UNCHANGED <<rows, supply, minters, blacklist, proposals, listed>>

UpdateBlacklistStatus ==
    /\ Doing("blacklist") /\ Quiet
    /\ blacklist' = Switch(blacklist, Head(todo).account, Head(todo).on)
    /\ UNCHANGED <<rows, supply, minters, validators, proposals, listed>>

SetProposalRow ==
    /\ Doing("proposal") /\ Quiet
    /\ proposals' = [proposals EXCEPT ![Head(todo).proposal] = Head(todo).value]
    /\ UNCHANGED <<rows, supply, minters, validators, blacklist, listed>>

DeleteStatusIndex ==
    /\ Doing("unlist") /\ Quiet
    /\ listed' = listed \ {Head(todo).entry}
    /\ UNCHANGED <<rows, supply, minters, validators, blacklist, proposals>>

SetStatusIndex ==
    /\ Doing("list") /\ Quiet
    /\ listed' = listed \cup {Head(todo).entry}
    /\ UNCHANGED <<rows, supply, minters, validators, blacklist, proposals>>

publishEvent ==
    /\ Doing("publish")
    /\ told' = told \cup {position}
    /\ failed' = failed \ {position}
    /\ position' = position + 1
    /\ UNCHANGED indexes

\* A call of the store fails: the handler returns, the rest is not written.
WriteFails ==
    /\ faults < MaxFaults
    /\ todo # <<>> /\ Head(todo).op # "publish"
    /\ todo' = <<>>
    /\ position' = position + 1
    /\ failed' = failed \cup {position}
    /\ faults' = faults + 1
    /\ UNCHANGED <<logs, run, recorded, indexes, told, replays, history>>

\* FetchBlock reaches its end.  The batch ends after BatchSize blocks, or
\* before when the node had no more.
RecordBlock ==
    /\ current <= MaxBlock
    /\ todo = <<>> /\ position = FirstAfter(current)
    /\ recorded' = current
    /\ current' = current + 1
    /\ first' \in IF current' - first < Batch THEN {first, current'} ELSE {current'}
    /\ UNCHANGED <<logs, position, todo, indexes, told, failed, replays, faults, history>>

\* FetchBlock fails before, between or after its calls of the parser: Run
\* keeps nextHeight and fetches the batch again.
BatchFails ==
    /\ replays < MaxReplays
    /\ current \in first..MaxBlock
    /\ todo = <<>>
    /\ current # first \/ position # FirstAfter(first - 1)
    /\ current' = first
    /\ position' = FirstAfter(first - 1)
    /\ replays' = replays + 1
    /\ UNCHANGED <<logs, first, todo, recorded, indexes, told, failed, faults, history>>

\* The process dies, and GetNextHeight begins after the recorded height.
Restart ==
    /\ replays < MaxReplays
    /\ current # recorded + 1 \/ todo # <<>> \/ position # FirstAfter(recorded)
    /\ current' = recorded + 1 /\ first' = recorded + 1
    /\ position' = FirstAfter(recorded)
    /\ todo' = <<>>
    /\ replays' = replays + 1
    /\ torn' = (torn \/ current <= recorded)
    /\ UNCHANGED <<logs, recorded, indexes, told, failed, faults, reached>>

\* Run waits for a block beyond the chain of the behaviour.
WaitForBlock == current > MaxBlock /\ UNCHANGED contractVars

ContractsNext ==
    \/ ParseLog \/ RejectLog
    \/ StoreEvent \/ UpdateTotalSupply \/ UpdateActiveMinter
    \/ UpdateActiveValidator \/ UpdateBlacklistStatus
    \/ SetProposalRow \/ DeleteStatusIndex \/ SetStatusIndex
    \/ publishEvent \/ WriteFails
    \/ RecordBlock \/ BatchFails \/ Restart \/ WaitForBlock

ContractsSpec == ContractsInit /\ [][ContractsNext]_contractVars

-----------------------------------------------------------------------------
\* The readers that do more than return a key.

\* The add and remove rows of GovCouncil, replayed in the order of their keys.
GetAuthorizedAccounts ==
    LET HitsOf(a) == {b \in 1..MaxBlock :
                        /\ <<"authorized", b>> \in DOMAIN rows
                        /\ logs[rows[<<"authorized", b>>]].account = a}
    IN  {a \in Accounts : /\ HitsOf(a) # {}
                          /\ logs[rows[<<"authorized", Max(HitsOf(a))>>]].kind = "authorized"}

\* The status index, with the entries that have a row.
GetProposals(s) == {p \in Proposals : <<p, s>> \in listed /\ proposals[p] # Absent}

GetProposalVotes(p) == {rows[k] : k \in {k \in DOMAIN rows : k[1] = "vote" /\ k[2] = p}}

-----------------------------------------------------------------------------
ContractTypes ==
    /\ first \in 1..(MaxBlock + 1) /\ current \in first..(MaxBlock + 1)
    /\ position \in 1..(Len(logs) + 1)
    /\ recorded \in 0..MaxBlock
    /\ \A k \in DOMAIN rows : rows[k] \in Positions
    /\ supply \in Nat
    /\ minters \in [Accounts -> Nat \cup {Absent}]
    /\ validators \subseteq Accounts /\ blacklist \subseteq Accounts
    /\ proposals \in [Proposals -> [status : Statuses, executedAt : 0..MaxBlock] \cup {Absent}]
    /\ listed \subseteq Proposals \X Statuses
    /\ told \subseteq Positions /\ failed \subseteq Positions
    /\ replays \in 0..MaxReplays /\ faults \in 0..MaxFaults
    /\ reached \in 0..MaxBlock /\ torn \in BOOLEAN

\* FetchBlock has just recorded a block and no later one was ever parsed.
Recorded ==
    current = recorded + 1 /\ todo = <<>> /\ position = FirstAfter(recorded) /\ reached <= recorded

\* What the chain says after the blocks recorded as indexed.
Indexed == {i \in Positions : logs[i].block <= recorded}
Of(kinds) == {i \in Indexed : logs[i].kind \in kinds}
About(kinds, a) == {i \in Of(kinds) : logs[i].account = a}
LastOf(S) == logs[Max(S)]

\* The last log of S settles a question if there is one and it was indexed.
Settles(S) == S # {} /\ Max(S) \notin failed

MemberLogs(a) ==
    {i \in Of({"memberAdded", "memberRemoved", "memberChanged"}) :
        /\ logs[i].contract = "validator"
        /\ \/ logs[i].account = a
           \/ logs[i].kind = "memberChanged" /\ logs[i].old = a}
ProposalLogs(p) == {i \in Of({"created", "status"}) : logs[i].proposal = p}

BlacklistMatches(a) ==
    LET S == About({"blacklisted", "unblacklisted"}, a)
    IN  /\ S = {} => a \notin blacklist
        /\ Settles(S) => (a \in blacklist <=> LastOf(S).kind = "blacklisted")

MinterMatches(a) ==
    LET S == About({"minterConfigured", "minterRemoved"}, a)
    IN  /\ S = {} => minters[a] = Absent
        /\ Settles(S) => minters[a] = IF LastOf(S).kind = "minterRemoved" THEN Absent
                                      ELSE LastOf(S).amount

ValidatorMatches(a) ==
    LET S == MemberLogs(a)
    IN  /\ S = {} => a \notin validators
        /\ Settles(S) => (a \in validators <=> /\ LastOf(S).kind # "memberRemoved"
                                               /\ LastOf(S).account = a)

StatusOf(l) == IF l.kind = "created" THEN Voting ELSE l.status

ProposalMatches(p) ==
    LET S == ProposalLogs(p)
    IN  /\ S = {} => proposals[p] = Absent
        /\ Settles(S) => proposals[p] =
              [status |-> StatusOf(LastOf(S)),
               executedAt |-> IF StatusOf(LastOf(S)) \in {"executed", "failed"}
                              THEN LastOf(S).block ELSE 0]

VotesMatch(p) ==
    \A a \in Accounts :
        LET S == {i \in About({"voted"}, a) : logs[i].proposal = p}
        IN  Settles(S) => Max(S) \in GetProposalVotes(p)

\* The authorised accounts have no index of their own.
AuthorizedMatches ==
    LET S == Of({"authorized", "unauthorized"})
    IN  (/\ S \cap failed = {}
         /\ \A i, j \in S : logs[i].block = logs[j].block => i = j)
        => GetAuthorizedAccounts =
             {a \in Accounts : LET H == About({"authorized", "unauthorized"}, a)
                               IN  H # {} /\ LastOf(H).kind = "authorized"}

MatchesChain ==
    /\ \A a \in Accounts : BlacklistMatches(a) /\ MinterMatches(a) /\ ValidatorMatches(a)
    /\ \A p \in Proposals : ProposalMatches(p) /\ VotesMatch(p)
    /\ AuthorizedMatches

\* When the highest block parsed is recorded as indexed, the blacklist, the
\* active minters and validators, the proposals, their votes and the
\* authorised accounts are what the last event about each of them says,
\* although batches were begun again over recorded blocks, restarts cut
\* handlers short between any two writes, and all of it was parsed again over
\* its own leftovers; a failed write spoils only what its own event is about,
\* and that until the next event about it.  For the authorised accounts, which
\* are replayed from rows, only while no block holds two of their events.
\* It needs ~torn: a restart in the middle of a second pass over a recorded
\* block leaves the block half replayed and begins behind it.
IndexesMatchChain == Recorded /\ ~torn => MatchesChain

ListingMatches ==
    (replays = 0 \/ faults = 0) =>
        \A p \in Proposals :
            /\ \A s \in Statuses : p \in GetProposals(s) => proposals[p].status = s
            /\ Settles(ProposalLogs(p)) => p \in GetProposals(proposals[p].status)

\* When the highest block parsed is recorded, a proposal is listed under no
\* other status than its own, and it is listed there unless its last event
\* failed: moving the entry of the status index takes three writes, and a
\* replayed ProposalCreated adds an entry without removing the one it had.
\* This needs replays or failing writes, not both: a status event that fails
\* in the second attempt leaves the entry the first one made.
ListedUnderOwnStatus == Recorded /\ ~torn => ListingMatches

Delta(i) == CASE logs[i].kind = "mint" -> logs[i].amount
              [] logs[i].kind \in {"burn", "burnExecuted"} -> -logs[i].amount
              [] OTHER -> 0
Minted(S) == MapThenSumSet(Delta, S)

\* No burn takes more than was minted since indexing began.
Covered == \A n \in Positions : Minted(1..n) >= 0

SupplyMatches ==
    (replays = 0 /\ failed = {} /\ Covered) => supply = Minted(Indexed)

\* Without a replay and without a failed write the total supply is what was
\* minted less what was burnt, provided it never falls below zero on the way:
\* each event changes it exactly once, in any order and with any number of
\* events in a block.  Each of the three conditions is needed.
SupplyExact == Recorded => SupplyMatches

\* What an event told to subscribers is about, as a query would answer it.
Visible(i) ==
    LET l == logs[i]
    IN  /\ l.kind = "mint" => rows[<<"mint", l.block>>] = i
        /\ l.kind \in {"burn", "burnExecuted"} => rows[<<"burn", l.block>>] = i
        /\ l.kind = "minterConfigured" => minters[l.account] = l.amount
        /\ l.kind = "minterRemoved" => minters[l.account] = Absent
        /\ l.kind \in {"created", "status"} =>
              /\ proposals[l.proposal].status = StatusOf(l)
              /\ l.proposal \in GetProposals(StatusOf(l))
        /\ l.kind = "voted" => i \in GetProposalVotes(l.proposal)
        /\ l.kind \in {"memberAdded", "memberChanged"} /\ l.contract = "validator" =>
              l.account \in validators
        /\ l.kind = "memberRemoved" /\ l.contract = "validator" => l.account \notin validators
        /\ l.kind = "blacklisted" => l.account \in blacklist
        /\ l.kind = "unblacklisted" => l.account \notin blacklist
        /\ l.kind = "authorized" /\ l.block = reached => l.account \in GetAuthorizedAccounts

\* At the moment a subscriber is told of an event, every query that the event
\* is about already answers with it, in a first pass and in every replay.
SubscribersSeeStored == todo # <<>> /\ Head(todo).op = "publish" => Visible(position)

\* The indexes say what the contracts' events say, through replays, restarts
\* and failing writes (system_contracts.go:112).
ContractsIndexed == IndexesMatchChain /\ ListedUnderOwnStatus
=============================================================================
