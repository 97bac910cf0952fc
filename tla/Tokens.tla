-------------------------------- MODULE Tokens --------------------------------
(***************************************************************************)
(* What the store keeps about tokens: the metadata of a contract and its   *)
(* holders.  The two share no key.                                         *)
(***************************************************************************)
EXTENDS TokenMetadata, TokenHolders

TokensSpec == MetadataSpec /\ HoldersSpec

\* A token is found under its labels and its standard, and the three lists of
\* holders agree (pebble_token_metadata.go:107, pebble_token_holder.go).
TokensAgree == StoredIsFound /\ HoldersAgree
=============================================================================
