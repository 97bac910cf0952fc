------------------------------ MODULE MCLedger ------------------------------
(* Two or three addresses and chains of two blocks: plain transfers (one of *)
(* them empties its sender, one goes to the sender itself, one moves        *)
(* nothing), a delegated fee, a reverted transfer.                          *)
EXTENDS Ledger, TLC

CONSTANTS alice, bob, carol

Rich == (alice :> 5) @@ (bob :> 0) @@ (carol :> 3)

Pays(f, t, v) == [from |-> f, to |-> t, value |-> v, fee |-> 1, payer |-> f, ok |-> TRUE]

Plain == << <<Pays(alice, bob, 4), Pays(bob, alice, 1)>>,
            <<Pays(bob, bob, 0), Pays(carol, alice, 1)>> >>
Delegated == << <<[Pays(alice, bob, 1) EXCEPT !.payer = carol]>>,
                <<Pays(alice, bob, 1)>> >>
Reverted == << <<[Pays(alice, bob, 2) EXCEPT !.ok = FALSE]>>,
               <<Pays(alice, bob, 1)>> >>
=============================================================================
