-------------------------- MODULE MCSchemaRefresh --------------------------
(***************************************************************************)
(* SchemaRefresh on small instances.  Requests are interchangeable, and so *)
(* are connections.                                                        *)
(***************************************************************************)
EXTENDS SchemaRefresh, TLC

Symmetry == Permutations(Request) \cup Permutations(Conn)
============================================================================
