----------------------------- MODULE MCRowPages -----------------------------
(***************************************************************************)
(* Two panels of one tab, and one of another.                              *)
(***************************************************************************)
EXTENDS RowPages

MCTab == [p \in Panel |-> IF p < 3 THEN 1 ELSE 2]

\* The rows and the link of a panel that has no table are never looked at.
Seen == <<rows, content, [p \in present |-> shown[p]], [p \in present |-> link[p]],
          view, marked, up, flying, last, astray>>
=============================================================================
