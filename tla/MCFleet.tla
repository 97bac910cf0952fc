------------------------------ MODULE MCFleet ------------------------------
(* The multi-chain manager alone, with one chain.                           *)
EXTENDS Fleet
=============================================================================
