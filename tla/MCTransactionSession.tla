------------------------ MODULE MCTransactionSession ------------------------
(***************************************************************************)
(* TransactionSession on small instances.  Socket actors, transactions and *)
(* statements are interchangeable.                                         *)
(***************************************************************************)
EXTENDS TransactionSession, TLC

Symmetry == Permutations(Session) \cup Permutations(Tx) \cup Permutations(Run)
============================================================================
