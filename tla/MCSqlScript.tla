---------------------------- MODULE MCSqlScript ----------------------------
(* Every short text over the characters split looks at, and longer ones over *)
(* the smaller alphabets where one construct runs into another.               *)
EXTENDS SqlScript, SequencesExt

CONSTANTS Short, Long

MCScripts ==
  BoundedSeq({"a", " ", "\n", ";", "'", "\"", "tick", "[", "]", "/", "*", "-", "#", "\\"}, Short)
  \cup BoundedSeq({"a", ";", "'", "\\", "["}, Long)
  \cup BoundedSeq({";", "/", "*", "-", "\n"}, Long)
=============================================================================
