---------------------------- MODULE MCPercolator -----------------------------
(* Values for the constants of Percolator. *)
EXTENDS Percolator, TLC

CONSTANTS t1, t2, k1, k2, r1, p1, g1, g2

MCTwoRegions == k1 :> g1 @@ k2 :> g2
MCPrimaries == t1 :> k1 @@ t2 :> k2
MCReadBoth == r1 :> {k1, k2} @@ p1 :> {k1, k2}
MCReadSecond == r1 :> {k2} @@ p1 :> {k2}

\* Both transactions write both keys, with all kinds of mutations.
MCBothWriteBoth ==
    t1 :> (k1 :> "Put" @@ k2 :> "Put") @@ t2 :> (k1 :> "Del" @@ k2 :> "Insert")
MCPutBoth ==
    t1 :> (k1 :> "Put" @@ k2 :> "Put") @@ t2 :> (k1 :> "Put" @@ k2 :> "Put")

\* A transaction on one key against one on two.
MCOneAndTwo == t1 :> (k1 :> "Put") @@ t2 :> (k1 :> "Put" @@ k2 :> "Lock")
MCLockOwn == t1 :> {{k1}} @@ t2 :> {{k1, k2}}

\* t1 writes k1 only, but its first statement may have locked k2 as well.
MCFirstOne == t1 :> (k1 :> "Put")
MCLockMore == t1 :> {{k1, k2}, {k1}}

=============================================================================
