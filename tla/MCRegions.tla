------------------------------ MODULE MCRegions ------------------------------
EXTENDS Regions
CONSTANTS s1, p1, w1, w2
MCSplitAtKeys == [c \in Splitter |-> {3}]
MCSplitRanges == {<<1, 4, 2>>}
MCTogether == {{s1, p1}, {w1}, {w2}}
MCFairSpec == RegionsSpec /\ RegionsFairness
=============================================================================
