------------------------------ MODULE StagedMap ------------------------------
(***************************************************************************)
(* What the values of a transaction's memory buffer promise: a map and a   *)
(* stack of saved copies of it.  Staging saves a copy, Release forgets     *)
(* the newest copy, Cleanup goes back to it.                               *)
(***************************************************************************)
EXTENDS Naturals, Sequences

CONSTANTS
    SKey,       \* the keys
    SValue,     \* the values, tombstone included
    SNone       \* a key without value

VARIABLES
    cur,        \* the map
    saved       \* the copies, the newest last

Blank == [k \in SKey |-> SNone]

SInit == cur = Blank /\ saved = <<>>

SWrite(k, v) == cur' = [cur EXCEPT ![k] = v] /\ UNCHANGED saved

SStaging == saved' = Append(saved, cur) /\ UNCHANGED cur

SRelease ==
    /\ saved # <<>>
    /\ saved' = SubSeq(saved, 1, Len(saved) - 1)
    /\ UNCHANGED cur

SCleanup ==
    /\ saved # <<>>
    /\ cur' = saved[Len(saved)]
    /\ saved' = SubSeq(saved, 1, Len(saved) - 1)

SReset == cur' = Blank /\ saved' = <<>>

\* The values are given up, the open stages stay.
SDiscard == cur' = Blank /\ saved' = [i \in DOMAIN saved |-> Blank]

SNext ==
    \/ \E k \in SKey, v \in SValue : SWrite(k, v)
    \/ SStaging \/ SRelease \/ SCleanup \/ SReset \/ SDiscard

SSpec == SInit /\ [][SNext]_<<cur, saved>>

=============================================================================
