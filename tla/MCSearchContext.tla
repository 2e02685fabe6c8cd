-------------------------- MODULE MCSearchContext --------------------------
(***************************************************************************)
(* A small instance of SearchContext for TLC, with the problems of         *)
(* MCProofSearch.                                                          *)
(***************************************************************************)
EXTENDS MCProofSearch, SearchContext
=============================================================================
