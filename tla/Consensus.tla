------------------------------ MODULE Consensus ------------------------------
(***************************************************************************)
(* WBFT metadata.  processWBFTMetadata reads the extra data of a header    *)
(* and stores it, the epoch it may start, and who signed; it then          *)
(* publishes a consensus event.  Every save is a synced write of its own,  *)
(* and a failing one ends FetchBlock before the latest height moves.  The  *)
(* queries put several reads together while the indexer writes.            *)
(*                                                                         *)
(* Headers[b + 1] is the header of block b: [layout, round, proposer,      *)
(* boundary, candidates, validators, prepared, committed].  `layout' says  *)
(* whether the extra data is one RLP list ("list") or 32 bytes of vanity   *)
(* followed by RLP ("vanity").  A seal is [present, bits], bits the set    *)
(* of positions of its bitmap.                                             *)
(***************************************************************************)
EXTENDS Integers, Sequences, FiniteSets, FiniteSetsExt, SequencesExt

CONSTANTS
    Headers,
    EpochLength,    \* DefaultEpochLength
    ActivityLimit,  \* MaxPaginationLimitExtended
    StartHeights,   \* possible values of config.StartHeight
    MaxFailures     \* bound on crashes and failing saves

VARIABLES
    rows,           \* blocks with a row
    head,           \* the latest-height key, -1 when none
    height, stage,  \* block in hand and its next step
    extra,          \* blocks with WBFT metadata
    epochs,         \* epoch number -> block it was read from
    latestEpoch,    \* the latest-epoch key, -1 when none
    activity,       \* <<validator, block>> -> [prepare, commit]
    prepareIndex, commitIndex,  \* <<block, validator>>
    published,      \* consensus events, in order
    failures,
    complete,       \* history: blocks whose metadata was processed to the end
    asked, answer   \* a query for the consensus data of a block, and its parts

wbftVars == <<rows, head, height, stage, extra, epochs, latestEpoch, activity, prepareIndex, commitIndex,
              published, failures, complete, asked, answer>>

AllBlocks == 0..(Len(Headers) - 1)
H(b) == Headers[b + 1]

-----------------------------------------------------------------------------
(* Reading a header.                                                       *)

\* The fetcher's parser decodes the whole extra data as one list.
ParseWBFTExtra(b) == H(b).layout = "list"

\* A bit names a validator, a validator names a candidate.
ExtractSigners(seal, validators, candidates) ==
    {candidates[validators[p + 1] + 1] : p \in {p \in seal.bits : p < Len(validators)}}

\* A bit that names no candidate is an error.
SignersReadable(seal, validators, candidates) ==
    \A p \in seal.bits : p < Len(validators) => validators[p + 1] < Len(candidates)

SignersOf(b, seal) == ExtractSigners(seal, H(b).validators, H(b).candidates)
Readable(b, seal) == SignersReadable(seal, H(b).validators, H(b).candidates)

\* Records exist only for a block with candidates and a readable prepared
\* seal; the committed seal fills in the second half.
SigningActivities(b) ==
    LET h == H(b)
    IN  [v \in IF h.boundary /\ h.prepared.present /\ Readable(b, h.prepared) THEN Range(h.candidates) ELSE {} |->
            [prepare |-> v \in SignersOf(b, h.prepared),
             commit |-> h.committed.present /\ Readable(b, h.committed) /\ v \in SignersOf(b, h.committed)]]

\* The parsers of the consensus fetcher and of the chain adapter take the
\* addresses of the validators first and then read the bitmap.
ExtractValidators(h) ==
    IF ~h.boundary \/ h.candidates = <<>> THEN <<>>
    ELSE LET known == SelectSeq(h.validators, LAMBDA i : i < Len(h.candidates))
         IN  [p \in DOMAIN known |-> h.candidates[known[p] + 1]]
ExtractSignersFromSeal(seal, validators) ==
    IF ~seal.present THEN {} ELSE {validators[p + 1] : p \in {p \in seal.bits : p < Len(validators)}}

\* Those two want the vanity bytes; the adapter's forgives what it cannot
\* decode and carries on with nothing.
FetchParserReads(b) == H(b).layout = "vanity"
AdapterValidators(b) == IF FetchParserReads(b) THEN ExtractValidators(H(b)) ELSE <<>>

\* CalculateMissedValidators.
Missed(validators, signers) == Range(validators) \ signers

\* What the consensus fetcher makes of a header it can read.
ExtractConsensusData(b) ==
    LET validators == ExtractValidators(H(b))
        commit == ExtractSignersFromSeal(H(b).committed, validators)
    IN  [validators |-> validators, prepare |-> ExtractSignersFromSeal(H(b).prepared, validators), commit |-> commit,
         missed |-> Missed(validators, commit), round |-> H(b).round, proposer |-> H(b).proposer, boundary |-> H(b).boundary]

\* Its rate is over the validators, zero when they are unknown.
ParticipationBelow(d, percent) ==
    d.validators = <<>> \/ 100 * Cardinality(d.commit) < percent * Len(d.validators)

\* The events of its GetConsensusData, in order.
FetcherEvents(b) ==
    LET d == ExtractConsensusData(b)
    IN  <<"block">> \o (IF d.boundary THEN <<"validator_change">> ELSE <<>>)
          \o (IF d.round > 0 THEN <<"round_change">> ELSE <<>>)
          \o (IF ParticipationBelow(d, 67) THEN <<"low_participation">> ELSE <<>>)
          \o (IF d.missed # {} THEN <<"missed_validators">> ELSE <<>>)

\* Over a range, blocks that cannot be read left out.
FetcherParticipation(v, from, to) ==
    LET read == from..to
    IN  [total |-> Cardinality(read),
         proposed |-> Cardinality({b \in read : ExtractConsensusData(b).proposer = v}),
         committed |-> Cardinality({b \in read : v \in ExtractConsensusData(b).commit})]
AnalyzeRoundChanges(from, to) ==
    [changed |-> Cardinality({b \in from..to : H(b).round > 0}), max |-> Max({H(b).round : b \in from..to}),
     counts |-> [r \in {H(b).round : b \in from..to} |-> Cardinality({b \in from..to : H(b).round = r})]]

\* The adapter keeps the validators of the blocks it has parsed and answers
\* with those of the nearest one before; the search begins above block 0.
GetValidators(cached, b) ==
    LET before == {c \in cached : 0 < c /\ c <= b}
    IN  IF b \in cached THEN b ELSE IF before = {} THEN -1 ELSE Max(before)

-----------------------------------------------------------------------------
(* The block in hand.                                                      *)

Init ==
    /\ rows = {} /\ head \in {s - 1 : s \in StartHeights} /\ height = -1 /\ stage = "idle"
    /\ extra = {} /\ epochs = [e \in {} |-> 0] /\ latestEpoch = -1
    /\ activity = [k \in {} |-> 0] /\ prepareIndex = {} /\ commitIndex = {}
    /\ published = <<>> /\ failures = 0 /\ complete = {} /\ asked = -1 /\ answer = [part |-> "none"]

\* Run takes the next height, gap recovery one below it that has no row.
\* SetBlock comes before the metadata.
SetBlock(b) ==
    /\ stage = "idle" /\ (b = head + 1 \/ (b < head /\ b \notin rows))
    /\ rows' = rows \cup {b} /\ height' = b /\ stage' = "extra"
    /\ UNCHANGED <<head, extra, epochs, latestEpoch, activity, prepareIndex, commitIndex, published, failures, complete, asked, answer>>

\* The rest of FetchBlock follows; only Run moves the latest height.
Finished == /\ stage' = "idle" /\ height' = -1 /\ complete' = complete \cup {height}
            /\ head' = IF height = head + 1 THEN height ELSE head

\* Extra data that does not parse is logged and passed over.
SaveWBFTBlockExtra ==
    /\ stage = "extra"
    /\ IF ParseWBFTExtra(height)
         THEN /\ extra' = extra \cup {height} /\ stage' = IF H(height).boundary THEN "epoch" ELSE "publish"
              /\ UNCHANGED <<height, complete, head>>
         ELSE Finished /\ UNCHANGED extra
    /\ UNCHANGED <<rows, epochs, latestEpoch, activity, prepareIndex, commitIndex, published, failures, asked, answer>>

SaveEpochInfo ==
    /\ stage = "epoch" /\ stage' = "latestEpoch"
    /\ epochs' = [e \in DOMAIN epochs \cup {height \div EpochLength} |->
                     IF e = height \div EpochLength THEN height ELSE epochs[e]]
    /\ UNCHANGED <<rows, head, height, extra, latestEpoch, activity, prepareIndex, commitIndex, published, failures, complete, asked, answer>>

\* The second write of SaveEpochInfo, whichever epoch is stored already.
SaveLatestEpoch ==
    /\ stage = "latestEpoch" /\ latestEpoch' = height \div EpochLength
    /\ stage' = IF DOMAIN SigningActivities(height) = {} THEN "publish" ELSE "signing"
    /\ UNCHANGED <<rows, head, height, extra, epochs, activity, prepareIndex, commitIndex, published, failures, complete, asked, answer>>

\* One batch: the records and both indexes.
UpdateValidatorSigningStats ==
    LET new == SigningActivities(height)
    IN  /\ stage = "signing" /\ stage' = "publish"
        /\ activity' = [k \in DOMAIN activity \cup ((DOMAIN new) \X {height}) |-> IF k[2] = height THEN new[k[1]] ELSE activity[k]]
        /\ prepareIndex' = prepareIndex \cup {<<height, v>> : v \in {v \in DOMAIN new : new[v].prepare}}
        /\ commitIndex' = commitIndex \cup {<<height, v>> : v \in {v \in DOMAIN new : new[v].commit}}
        /\ UNCHANGED <<rows, head, height, extra, epochs, latestEpoch, published, failures, complete, asked, answer>>

\* countBitsInBitmap, over the number of candidates; the rate is below 67%
\* when 100 * commits < 67 * candidates.
countBitsInBitmap(seal) == IF seal.present THEN Cardinality(seal.bits) ELSE 0
ValidatorCount(b) == IF H(b).boundary THEN Len(H(b).candidates) ELSE 0
LowParticipation(b) == ValidatorCount(b) > 0 /\ 100 * countBitsInBitmap(H(b).committed) < 67 * ValidatorCount(b)

\* The validators that an error event names as missing.
MissedCommit(b) == IF H(b).boundary /\ H(b).committed.present /\ Readable(b, H(b).committed)
                   THEN Range(H(b).candidates) \ SignersOf(b, H(b).committed) ELSE {}
publishConsensusErrorEvent(b, type) == [type |-> type, block |-> b, missed |-> MissedCommit(b)]

\* Mutant: the event goes out for a block whose extra data does not parse, too.
publishConsensusBlockEventFirst ==
    /\ stage \in {"extra", "publish"} /\ Finished
    /\ published' = Append(published, [type |-> "block", block |-> height, missed |-> {}])
    /\ UNCHANGED <<rows, extra, epochs, latestEpoch, activity, prepareIndex, commitIndex, failures, asked, answer>>

publishConsensusBlockEvent ==
    /\ stage = "publish" /\ Finished
    /\ published' = published \o <<[type |-> "block", block |-> height, missed |-> {}]>>
          \o (IF H(height).round > 0 THEN <<publishConsensusErrorEvent(height, "round_change")>> ELSE <<>>)
          \o (IF LowParticipation(height) THEN <<publishConsensusErrorEvent(height, "low_participation")>> ELSE <<>>)
    /\ UNCHANGED <<rows, extra, epochs, latestEpoch, activity, prepareIndex, commitIndex, failures, asked, answer>>

\* A failing save ends FetchBlock, a crash everything; Run comes back to
\* the height, gap recovery does not.
Interrupted ==
    /\ stage # "idle" /\ failures < MaxFailures /\ failures' = failures + 1
    /\ stage' = "idle" /\ height' = -1
    /\ UNCHANGED <<rows, head, extra, epochs, latestEpoch, activity, prepareIndex, commitIndex, published, complete, asked, answer>>

-----------------------------------------------------------------------------
(* Queries.                                                                *)

GetWBFTBlockExtra(b) == b \in extra
GetEpochInfo(e) == IF e \in DOMAIN epochs THEN epochs[e] ELSE -1
GetLatestEpochInfo == IF latestEpoch = -1 THEN -1 ELSE GetEpochInfo(latestEpoch)
GetBlockSigners(b) == [prepare |-> {k[2] : k \in {k \in prepareIndex : k[1] = b}},
                       commit |-> {k[2] : k \in {k \in commitIndex : k[1] = b}}]
GetEpochsList == SetToSortSeq(DOMAIN epochs, LAMBDA d, e : d > e)

\* The records of a validator in a range, oldest first, cut to a page.
GetValidatorSigningActivity(v, from, to, limit, offset) ==
    LET found == SetToSortSeq({k[2] : k \in {k \in DOMAIN activity : k[1] = v /\ k[2] \in from..to}}, LAMBDA x, y : x < y)
        page == IF limit > ActivityLimit THEN ActivityLimit ELSE limit
    IN  SubSeq(found, offset + 1, IF offset + page < Len(found) THEN offset + page ELSE Len(found))

Tally(v, found) ==
    [prepares |-> Cardinality({b \in found : activity[<<v, b>>].prepare}),
     commits |-> Cardinality({b \in found : activity[<<v, b>>].commit}),
     preparesMissed |-> Cardinality({b \in found : ~activity[<<v, b>>].prepare}),
     commitsMissed |-> Cardinality({b \in found : ~activity[<<v, b>>].commit})]

\* ConsensusStorage counts the records of one validator, as many as a page
\* holds at most, and takes their number for the number of blocks ...
GetValidatorStats(v, from, to) ==
    LET found == Range(GetValidatorSigningActivity(v, from, to, 10000, 0))
    IN  [tally |-> Tally(v, found), blocks |-> Cardinality(found)]
GetValidatorParticipation(v, from, to, limit, offset) ==
    LET page == GetValidatorSigningActivity(v, from, to, limit, offset)
    IN  [blocks |-> page, committed |-> Tally(v, Range(page)).commits, missed |-> Tally(v, Range(page)).commitsMissed]
\* ... the store goes through the records of all of them and takes the
\* length of the range for it.
GetAllValidatorsSigningStats(from, to) ==
    [v \in {k[1] : k \in {k \in DOMAIN activity : k[2] \in from..to}} |->
        [tally |-> Tally(v, {k[2] : k \in {k \in DOMAIN activity : k[1] = v /\ k[2] \in from..to}}),
         blocks |-> to - from + 1,
         proposed |-> Cardinality({b \in rows \cap (from..to) : H(b).proposer = v})]]
GetAllValidatorStats(from, to) == GetAllValidatorsSigningStats(from, to)
\* validatorSigningStats looks up a summary that nothing writes.
GetValidatorSigningStats(from, to) ==
    [tally |-> [prepares |-> 0, commits |-> 0, preparesMissed |-> 0, commitsMissed |-> 0], blocks |-> to - from + 1]

\* GraphQL and JSON-RPC answer with what the store says.
resolveBlockSigners(b) == GetBlockSigners(b)
getBlockSigners(b) == GetBlockSigners(b)
resolveValidatorStats(v, from, to) == GetValidatorStats(v, from, to)
resolveAllValidatorStats(from, to) == GetAllValidatorStats(from, to)
resolveValidatorParticipation(v, from, to, limit, offset) == GetValidatorParticipation(v, from, to, limit, offset)
resolveValidatorSigningStats(from, to) == GetValidatorSigningStats(from, to)

ValidatorsOfEpoch(b) == IF b = -1 THEN <<>> ELSE ExtractValidators(H(b))

\* consensusData(b): metadata, then the latest epoch, then the signers.
AskConsensusData(b) ==
    /\ asked = -1 /\ GetWBFTBlockExtra(b) /\ asked' = b /\ answer' = [part |-> "extra"]
    /\ UNCHANGED <<rows, head, height, stage, extra, epochs, latestEpoch, activity, prepareIndex, commitIndex, published, failures, complete>>

ReadLatestEpoch ==
    /\ asked # -1 /\ answer.part = "extra"
    /\ answer' = [part |-> "epoch", validators |-> ValidatorsOfEpoch(GetLatestEpochInfo)]
    /\ UNCHANGED <<rows, head, height, stage, extra, epochs, latestEpoch, activity, prepareIndex, commitIndex, published, failures, complete, asked>>

\* CalculateMissedValidators over the validators of that epoch.
GetConsensusData ==
    LET signers == GetBlockSigners(asked)
    IN  /\ asked # -1 /\ answer.part = "epoch"
        /\ answer' = [part |-> "done", block |-> asked, signers |-> signers,
                      missed |-> Missed(answer.validators, signers.commit), validators |-> answer.validators]
        /\ UNCHANGED <<rows, head, height, stage, extra, epochs, latestEpoch, activity, prepareIndex, commitIndex, published, failures, complete, asked>>

Answered ==
    /\ asked # -1 /\ answer.part = "done" /\ asked' = -1 /\ answer' = [part |-> "none"]
    /\ UNCHANGED <<rows, head, height, stage, extra, epochs, latestEpoch, activity, prepareIndex, commitIndex, published, failures, complete>>

Next ==
    \/ \E b \in AllBlocks : SetBlock(b) \/ AskConsensusData(b)
    \/ SaveWBFTBlockExtra \/ SaveEpochInfo \/ SaveLatestEpoch \/ UpdateValidatorSigningStats
    \/ publishConsensusBlockEvent \/ Interrupted \/ ReadLatestEpoch \/ GetConsensusData \/ Answered

Spec == Init /\ [][Next]_wbftVars

-----------------------------------------------------------------------------
(* Properties.                                                             *)

Known(b) == b \in complete /\ ParseWBFTExtra(b)
WellFormed(h) == \A i \in Range(h.validators) : i < Len(h.candidates)

\* The ways to ask who signed agree on every block that was processed to
\* the end, however often it was started: the signer indexes, the count of
\* one validator, its pages, the count of all of them, and the bitmap as
\* the other parsers read it.  A block is counted once.
SigningRecordsExact ==
    /\ \A b \in AllBlocks : Known(b) /\ H(b).boundary /\ H(b).prepared.present /\ WellFormed(H(b)) =>
         /\ GetBlockSigners(b).prepare = ExtractConsensusData(b).prepare
         /\ GetBlockSigners(b).commit = ExtractConsensusData(b).commit
         /\ \A v \in Range(ExtractValidators(H(b))) : FetcherParticipation(v, b, b).committed = GetValidatorStats(v, b, b).tally.commits
    /\ LET to == Len(Headers) - 1
           all == resolveAllValidatorStats(0, to)
       IN  \A v \in DOMAIN all :
             LET pages == {resolveValidatorParticipation(v, 0, to, 1, o) : o \in 0..to}
             IN  /\ all[v].tally = resolveValidatorStats(v, 0, to).tally
                 /\ all[v].tally.commits = MapThenSumSet(LAMBDA p : p.committed, pages)
                 /\ all[v].tally.prepares = Cardinality({b \in AllBlocks : v \in getBlockSigners(b).prepare})
                 /\ all[v].tally.commits = Cardinality({b \in AllBlocks : v \in resolveBlockSigners(b).commit})

\* What a consensus event is about can be looked up when it arrives: the
\* metadata, the epoch, a latest epoch that is stored, and for every
\* validator named as missing a record that says so.  Round changes are
\* announced where AnalyzeRoundChanges counts them.
ConsensusEventsBacked ==
    /\ latestEpoch # -1 => GetLatestEpochInfo # -1
    /\ \A n \in DOMAIN published :
         LET b == published[n].block
         IN  /\ GetWBFTBlockExtra(b)
             /\ AnalyzeRoundChanges(b, b).changed > 0 <=> \E k \in DOMAIN published : published[k].block = b /\ published[k].type = "round_change"
             /\ H(b).boundary => b \div EpochLength \in DOMAIN epochs /\ latestEpoch # -1
             /\ H(b).prepared.present /\ Readable(b, H(b).prepared) =>
                  \A v \in published[n].missed : <<v, b>> \in DOMAIN activity /\ ~activity[<<v, b>>].commit

\* Claim: GetLatestEpochInfo "returns the most recent epoch information".
\* Filling a gap with the first block of an older epoch breaks it.
LatestEpochIsNewest == DOMAIN epochs # {} /\ stage # "latestEpoch" => latestEpoch = Max(DOMAIN epochs)

\* Claim: CalculateMissedValidators "computes which validators missed
\* prepare/commit".  The answer puts the validators of the latest epoch
\* against the signers of a block that has no records.
MissedAreMissed == asked # -1 /\ answer.part = "done" => answer.missed \cap SignersOf(answer.block, H(answer.block).committed) = {}

\* Claim: an event reports "low participation (< 67%)" of the validators.
\* The rate is over the candidates.
LowMeansLow ==
    \A n \in DOMAIN published : published[n].type = "low_participation" =>
        LET h == H(published[n].block) IN 100 * countBitsInBitmap(h.committed) < 67 * Len(h.validators)

\* Claim: the rate of a validator is the one among all of them.
RatesAgree ==
    LET to == Len(Headers) - 1
    IN  \A v \in DOMAIN GetAllValidatorStats(0, to) : GetAllValidatorStats(0, to)[v].blocks = GetValidatorStats(v, 0, to).blocks
\* Claim: GetValidators finds "the nearest cached block".  A cache that
\* holds block 0 alone is taken for an empty one.
NearestIsFound ==
    \A b \in AllBlocks : LET cached == {c \in complete : AdapterValidators(c) # <<>> /\ c <= b}
                         IN  cached # {} => GetValidators(cached, b) = Max(cached)

\* Claim: the two publishers of consensus events announce the same.
PublishersAgree ==
    \A n \in DOMAIN published : published[n].type # "block" =>
        published[n].type \in Range(FetcherEvents(published[n].block))

\* Claim: validatorSigningStats "returns signing statistics".
SigningStatsFound ==
    \A v \in {k[1] : k \in DOMAIN activity} : LET to == Len(Headers) - 1
        IN  resolveValidatorSigningStats(0, to).tally = GetAllValidatorsSigningStats(0, to)[v].tally
=============================================================================
