---------------------------- MODULE MCSearchWindow ----------------------------
(***************************************************************************)
(* A table of up to four rows for SearchWindow: a page holds one.          *)
(***************************************************************************)
EXTENDS SearchWindow

TwoSearches == [all |-> {1, 2, 3, 4}, some |-> {1, 3}]
OneSearch == [all |-> {1, 2, 3, 4}]
=============================================================================
