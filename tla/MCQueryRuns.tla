----------------------------- MODULE MCQueryRuns ----------------------------
(***************************************************************************)
(* A script of two statements, a request with one answer or the call of a  *)
(* procedure, then a script of one statement or none. The audit record     *)
(* looked at is the second run's.                                          *)
(***************************************************************************)
EXTENDS QueryRuns

MCChoices == <<{<<"run", 2>>, <<"single", 1>>, <<"call", 1>>}, {<<"run", 0>>, <<"run", 1>>}>>
MCWatched == {<<2, 0>>}
=============================================================================
