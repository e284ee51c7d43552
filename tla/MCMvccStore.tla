----------------------------- MODULE MCMvccStore -----------------------------
(* Values for the constants of MvccStore: two transactions. *)
EXTENDS MvccStore

CONSTANT k1

MCStartTS == {1, 2}
MCPrimaryOne == [s \in MCStartTS |-> k1]

\* The first may commit before or after the second locks at 4, and retries its
\* commit at a later timestamp.
MCCommitOf == {<<1, 3>>, <<1, 5>>, <<2, 6>>}
MCForUpdateOf == {<<1, 1>>, <<2, 2>>, <<2, 4>>}

=============================================================================
