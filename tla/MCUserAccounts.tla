--------------------------- MODULE MCUserAccounts ---------------------------
(* Small instance: the requests are interchangeable. *)
EXTENDS UserAccounts, TLC

Interchangeable == Permutations(Request) \cup Permutations(Email)
=============================================================================
