------------------------------ MODULE MCFetcher ------------------------------
(* Small instances of Fetcher for TLC.                                     *)
EXTENDS Fetcher
=============================================================================
