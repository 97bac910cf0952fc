------------------------------- MODULE MCInputs -------------------------------
(***************************************************************************)
(* Small chains and inputs for the instances of module MCStore.             *)
(***************************************************************************)
EXTENDS Integers, Sequences

-----------------------------------------------------------------------------
(* Transfers, delegations, operations and modules: two tokens and a          *)
(* delegation in a large block, then a transfer, a burn and a contract.      *)

NFT(i, f, t, n) == [kind |-> "erc721", token |-> "nft", from |-> f, to |-> t, id |-> n, index |-> i]
Coin(i, f, t) == [kind |-> "erc20", token |-> "coin", from |-> f, to |-> t, id |-> 0, index |-> i]
Plug(i, what, a) == [kind |-> what, account |-> a, module |-> "m", type |-> 1, index |-> i]
Auth(a, t) == [authority |-> a, target |-> t, valid |-> TRUE]
Op(h, s, f) == [hash |-> h, sender |-> s, paymaster |-> "0", factory |-> f]
IndexedTx(f, logs, auths, ops) == [from |-> f, creates |-> "0", ok |-> TRUE, logs |-> logs, auths |-> auths, ops |-> ops]

Nfts1 == [large |-> TRUE, txs |-> <<
         IndexedTx("a", <<NFT(0, "0", "a", 1)>>, <<Auth("a", "t")>>, <<>>),
         IndexedTx("b", <<NFT(1, "0", "b", 2)>>, <<Auth("b", "t")>>, <<>>)>>]
Nfts2 == [large |-> FALSE, txs |-> <<
         [IndexedTx("a", <<NFT(0, "a", "b", 1)>>, <<>>, <<>>) EXCEPT !.creates = "c"],
         IndexedTx("b", <<NFT(1, "b", "b", 1), NFT(2, "b", "0", 2)>>, <<Auth("a", "0"), Auth("0", "t")>>, <<>>)>>]

Ops1 == [large |-> TRUE, txs |-> <<
         IndexedTx("a", <<Plug(0, "install", "s"), Coin(1, "a", "b")>>, <<>>, <<Op("o1", "s", "f")>>),
         IndexedTx("a", <<Plug(2, "install", "u")>>, <<>>, <<Op("o2", "s", "0")>>)>>]
Ops2 == [large |-> FALSE, txs |-> <<
         IndexedTx("a", <<Plug(0, "uninstall", "s"), Plug(1, "uninstall", "v")>>, <<>>, <<[Op("o3", "s", "0") EXCEPT !.paymaster = "p"]>>)>>]

-----------------------------------------------------------------------------
(* Token metadata: two spellings of one name, a token without a name.        *)

Metadata == {[standard |-> "ERC20", name |-> "A", symbol |-> "s"],
             [standard |-> "ERC20", name |-> "a", symbol |-> ""],
             [standard |-> "ERC721", name |-> "", symbol |-> "s"]}
LowerName(s) == IF s = "A" THEN "a" ELSE s

\* A mint, transfers to oneself, back and of nothing, and a burn of the rest.
Paid(f, t, v) == [from |-> f, to |-> t, value |-> v]
TokenTransfers == <<Paid("0", "a", 3), Paid("a", "b", 1), Paid("b", "b", 1),
                    Paid("b", "a", 1), Paid("a", "0", 2), Paid("a", "b", 0)>>

-----------------------------------------------------------------------------
(* Headers: epochs with other validators, rounds above 0, seals that are     *)
(* missing, and a header of the other layout.                                *)

Seal(S) == [present |-> TRUE, bits |-> S]
NoSeal == [present |-> FALSE, bits |-> {}]
Boundary(vals, p, c, r) ==
    [layout |-> "list", round |-> r, proposer |-> "a", boundary |-> TRUE,
     candidates |-> <<"a", "b", "c">>, validators |-> vals, prepared |-> p, committed |-> c]
Within(c) ==
    [layout |-> "list", round |-> 0, proposer |-> "a", boundary |-> FALSE,
     candidates |-> <<>>, validators |-> <<>>, prepared |-> c, committed |-> c]
SealedHeaders ==
    <<Boundary(<<0, 1>>, NoSeal, Seal({0, 1}), 0), Within(Seal({0, 1})),
      Boundary(<<2, 0>>, Seal({0, 1}), Seal({1}), 1), [Within(NoSeal) EXCEPT !.layout = "vanity"],
      Boundary(<<1, 2, 0>>, Seal({0, 1}), Seal({0, 2}), 0)>>

-----------------------------------------------------------------------------
(* Logs and filters, over numbers that sort differently as text.             *)

LogAt(b, t, l, a, topics) == [block |-> b, tx |-> t, log |-> l, address |-> a, topics |-> topics]
SomeLogs == {LogAt(2, 10, 10, "a", <<"t">>), LogAt(10, 2, 2, "a", <<"t", "u">>),
             LogAt(10, 10, 10, "b", <<>>), LogAt(10, 10, 2, "b", <<"u", "t">>)}
SomeFilters == [from : {2, 10}, to : {0, 9, 10}, addresses : {<<>>, <<"a">>, <<"b", "a">>},
                topics : {<<>>, << <<"t">> >>, << <<>>, <<"u", "t">> >>}]
SomeLabels == {<<"ab">>, <<"AB">>, <<"c">>}
LowerPart(x) == IF x = "AB" THEN "ab" ELSE x

-----------------------------------------------------------------------------
(* The lists of the two APIs that are walked to their end.                   *)

WalkedLists ==
    {"contracts", "contractsByCreator", "erc20TransfersByToken", "erc20TransfersByAddress",
     "erc721TransfersByToken", "erc721TransfersByAddress", "nftsByOwner",
     "blocksByTimeRange", "transactionsByAddressFiltered", "balanceHistory",
     "setCodeByTarget", "setCodeByAuthority", "userOperationsByAddress", "bundlers",
     "factories", "paymasters", "smartAccounts", "moduleStats", "modulesByAccount",
     "modulesByType", "epochs", "signingActivity", "mintEvents", "burnEvents", "proposals",
     "tokens", "tokenHolders", "verifiedContracts", "transactionsByAddress",
     "transactions", "logs", "blocks", "blocksRange", "rpc contractsByCreator",
     "rpc erc20ByToken", "rpc erc20ByAddress", "rpc erc721ByToken", "rpc erc721ByAddress",
     "rpc proposals", "rpc mintEvents", "rpc burnEvents", "rpc blocksByTimeRange",
     "rpc transactionsFiltered", "rpc balanceHistory", "rpc signingActivity"}
=============================================================================
