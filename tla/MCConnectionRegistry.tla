------------------------ MODULE MCConnectionRegistry ------------------------
(* Small instance: a few requests and saves. The first settings let the user *)
(* in, later ones alternate. Connections, requests and saves are each        *)
(* interchangeable, and no property is a liveness property.                  *)
EXTENDS ConnectionRegistry, TLC

MCAllowed == [v \in 1..MaxVersion |-> IF v % 2 = 1 THEN User ELSE {}]

Interchangeable ==
  Permutations(Connection) \cup Permutations(Asker) \cup Permutations(Editor)
=============================================================================
