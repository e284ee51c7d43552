---------------------------- MODULE MCSchemaLease ----------------------------
(* Values for the constants of SchemaLease. *)
EXTENDS SchemaLease

CONSTANTS tb1, tb2, add, drop

\* A change the checker skips, one of a table, one of two tables that contains it.
MCDiffs == {<<>>, <<<<tb1, add>>>>, <<<<tb1, add>>, <<tb2, drop>>>>}

MCDiffsOne == {<<<<tb1, add>>>>}

=============================================================================
