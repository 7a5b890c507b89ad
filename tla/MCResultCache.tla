--------------------------- MODULE MCResultCache ---------------------------
(***************************************************************************)
(* ResultCache on small instances.  Result ids are interchangeable.        *)
(***************************************************************************)
EXTENDS ResultCache, TLC

\* No row at all; a first page that is the whole result (2, the smallest
\* cached one); more than a page; exactly MaxRows; more than MaxRows.
MCSizes == {0, 2, 3, 4, 5}
MCSmallSizes == {3}

Symmetry == Permutations(Result)
============================================================================
