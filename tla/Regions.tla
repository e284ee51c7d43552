------------------------------- MODULE Regions -------------------------------
(***************************************************************************)
(* The mock cluster: stores, regions with their epochs and peers, the      *)
(* region checks every request passes, and clients that scan a key range   *)
(* region by region with a cached view of the regions.  Every operation of *)
(* Cluster is one critical section of its RWMutex.  A request is two       *)
(* steps, because the region is read and checked first and the store is    *)
(* accessed later with the key range that was read.                        *)
(*                                                                         *)
(* Keys are 1 .. MaxKey; a bound 0 is the empty start key and NoEnd the    *)
(* empty end key, which ends no range.                                     *)
(***************************************************************************)
EXTENDS Integers, FiniteSets, Sequences, SequencesExt

CONSTANTS
    MaxKey,         \* the largest key
    Store,          \* store IDs; peers and regions get larger ones
    BootPeers,      \* stores that hold a peer of the first region
    TiFlash,        \* stores with the label engine = tiflash
    Data,           \* keys with a committed value, fixed during the run
    Scanner,        \* clients that scan
    Raw,            \* clients of the raw interface
    Splitter,       \* clients that send SplitRegion requests
    SplitAtKeys,    \* the split keys each splitter may ask for
    RawCmd,         \* raw commands sent: RawPut, RawDelete, RawBatchDelete, ...
    Together,       \* sets of clients that run at the same time
    Oversized,      \* raw clients whose requests exceed requestMaxSize
    Admin,          \* cluster operations of the test that drives the cluster
    SplitRanges,    \* <<start, end, count>> given to SplitKeys
    Limit,          \* batch size of a scan
    MaxChanges      \* bound on cluster operations and splits

NoEnd == MaxKey + 1
Key == 1 .. MaxKey
None == 0           \* no ID: no leader, no cached region

ASSUME RegionsAssumption ==
    /\ MaxKey \in Nat \ {0}
    /\ Store \subseteq Nat \ {0} /\ IsFiniteSet(Store)
    /\ BootPeers \subseteq Store
    /\ Data \subseteq Key
    /\ \A c \in Splitter : SplitAtKeys[c] \subseteq Key
    /\ "SplitRegion" \notin RawCmd
    /\ Scanner \cap Raw = {} /\ Oversized \subseteq Raw
    /\ SplitRanges \subseteq Key \X Key \X (Nat \ {0})
    /\ Limit \in Nat \ {0}
    /\ MaxChanges \in Nat

VARIABLES
    id,             \* Cluster.id, the last ID given out
    stores,         \* [Store -> [up, cancel]]
    regions,        \* region ID -> Meta and leader
    raw,            \* keys the raw interface holds
    cli,            \* per client: cached region, progress, request
    changes         \* cluster operations and splits so far, bounded

regionsVars == <<id, stores, regions, raw, cli, changes>>

Client == Scanner \cup Raw \cup Splitter

RegionContains(r, k) == r.start <= k /\ (k < r.end \/ r.end = NoEnd)

\* bytes.Compare with the empty end key as the last one, as the callers treat it.
Overlaps(r, s, e) == ~(e <= r.start) /\ ~(r.end # NoEnd /\ r.end <= s)

NewRegion(s, e, peers, leader) ==
    [start |-> s, end |-> e, conf |-> 0, ver |-> 0, peers |-> peers, leader |-> leader]

UpdateKeyRange(r, s, e) == [r EXCEPT !.start = s, !.end = e, !.ver = @ + 1]

Put(f, i, r) == [j \in DOMAIN f \cup {i} |-> IF j = i THEN r ELSE f[j]]
Without(f, I) == [j \in DOMAIN f \ I |-> f[j]]

\* The elements of S in the order of the pairs <<lower, higher>> of "before".
Ordered(S, before) ==
    [n \in 1 .. Cardinality(S) |->
        CHOOSE x \in S : Cardinality({y \in S : <<y, x>> \in before}) = n - 1]

Ascending(S) == Ordered(S, {p \in Key \X Key : p[1] < p[2]})
Descending(S) == Ordered(S, {p \in Key \X Key : p[1] > p[2]})

LeaderPeer(r) == {p \in r.peers : p.id = r.leader}

FirstPeerIDs == [s \in BootPeers |-> Cardinality(Store) + Cardinality({t \in BootPeers : t <= s})]

\* A request of a client that has cached nothing yet: cmd on the range [key, to),
\* which a reverse scan walks down from to.
Request(cmd, key, to) ==
    [cmd |-> cmd, key |-> key, to |-> to, pc |-> "idle", region |-> None,
     meta |-> NewRegion(0, 0, {}, None), peer |-> [id |-> None, store |-> None],
     start |-> 0, end |-> 0, err |-> "none", out |-> <<>>]

RequestsOf(c) ==
    IF c \in Scanner THEN {Request(cmd, 1, NoEnd) : cmd \in {"Scan", "ReverseScan", "INTERLOCK"}}
    ELSE IF c \in Splitter THEN {Request("SplitRegion", k, NoEnd) : k \in SplitAtKeys[c]}
    ELSE {Request(cmd, k, NoEnd) : cmd \in RawCmd, k \in Key}

Requests == UNION {RequestsOf(c) : c \in Client}

\* BootstrapWithMultiStores: one region over all keys, the first peer leads.
RegionsInit ==
    /\ id = Cardinality(Store) + Cardinality(BootPeers) + 1
    /\ stores = [s \in Store |-> [up |-> TRUE, cancel |-> FALSE]]
    /\ regions = [i \in {Cardinality(Store) + Cardinality(BootPeers) + 1} |->
                    NewRegion(0, NoEnd, {[id |-> FirstPeerIDs[s], store |-> s] : s \in BootPeers},
                              Cardinality(Store) + 1)]
    /\ raw = {}
    /\ \E on \in Together : \E f \in [on -> Requests] :
         /\ \A c \in on : f[c] \in RequestsOf(c)
         /\ cli = [c \in Client |-> IF c \in on THEN [f[c] EXCEPT !.pc = "locate"]
                                   ELSE Request("none", 0, 0)]
    /\ changes = 0

-----------------------------------------------------------------------------
(* Cluster operations. *)

\* Operations of the test that drives the cluster come at any time.
ClusterChange == changes < MaxChanges /\ changes' = changes + 1

\* AllocID and the peer of the new region come from the same counter.
PeersLike(r, first) ==
    {[id |-> first + Cardinality({q \in r.peers : q.id < p.id}), store |-> p.store] : p \in r.peers}

\* Region.split: the new region takes the upper part.
SplitAt(rs, i, new, k, peers, leader) ==
    Put(Put(rs, i, UpdateKeyRange(rs[i], rs[i].start, k)), new,
        UpdateKeyRange(NewRegion(0, 0, peers, leader), k, rs[i].end))

\* Merge: "their key ranges should be adjacent" is the caller's duty.
Merge ==
    /\ "Merge" \in Admin
    /\ ClusterChange
    /\ \E i, j \in DOMAIN regions :
         /\ i # j /\ regions[i].end = regions[j].start /\ regions[j].start # 0
         /\ regions' = Without([regions EXCEPT ![i].end = regions[j].end, ![i].ver = @ + 1], {j})
    /\ UNCHANGED <<id, stores, raw, cli>>

AddPeer ==
    /\ "AddPeer" \in Admin
    /\ ClusterChange
    /\ id' = id + 1
    /\ \E i \in DOMAIN regions, s \in Store :
         /\ \A p \in regions[i].peers : p.store # s
         /\ regions' = [regions EXCEPT ![i].peers = @ \cup {[id |-> id + 1, store |-> s]},
                                       ![i].conf = @ + 1]
    /\ UNCHANGED <<stores, raw, cli>>

\* The argument called storeID is compared with the IDs of the peers.
RemovePeer ==
    /\ "RemovePeer" \in Admin
    /\ ClusterChange
    /\ \E i \in DOMAIN regions : \E p \in regions[i].peers :
         regions' = [regions EXCEPT ![i].peers = @ \ {p}, ![i].conf = @ + 1,
                                    ![i].leader = IF @ = p.id THEN None ELSE @]
    /\ UNCHANGED <<id, stores, raw, cli>>

\* ChangeLeader to a peer of the region; GiveUpLeader is ChangeLeader to 0.
ChangeLeader ==
    /\ "ChangeLeader" \in Admin
    /\ ClusterChange
    /\ \E i \in DOMAIN regions :
       \E l \in {p.id : p \in regions[i].peers} \cup {None} :
         regions' = [regions EXCEPT ![i].leader = l]
    /\ UNCHANGED <<id, stores, raw, cli>>

\* StopStore, StartStore, CancelStore, UnCancelStore.
SetStore ==
    /\ "SetStore" \in Admin
    /\ ClusterChange
    /\ \E s \in Store :
         \/ stores' = [stores EXCEPT ![s].up = ~@]
         \/ stores' = [stores EXCEPT ![s].cancel = ~@]
    /\ UNCHANGED <<id, regions, raw, cli>>

\* Mutant: an old region that reaches past the range on both sides loses its
\* right part.
EvacuateLeftOnly(r, s, e) ==
    [kept |-> IF r.start < s THEN {UpdateKeyRange(r, r.start, s)} ELSE {}, fresh |-> {}]

\* evacuateOldRegionRanges for one old region: nothing, one or two remain.
Evacuate(r, s, e) ==
    LET inside == r.start >= s /\ r.end # NoEnd /\ r.end <= e
        left == UpdateKeyRange(r, r.start, s)
        right == UpdateKeyRange(r, e, r.end) IN
    CASE inside -> [kept |-> {}, fresh |-> {}]
      [] ~inside /\ r.start < s /\ (r.end = NoEnd \/ r.end > e) ->
            [kept |-> {left}, fresh |-> {<<e, r.end>>}]
      [] ~inside /\ r.start < s /\ ~(r.end = NoEnd \/ r.end > e) -> [kept |-> {left}, fresh |-> {}]
      [] OTHER -> [kept |-> {right}, fresh |-> {}]

\* getEntriesGroupByRegions: sizes of the groups the scanned pairs fall into.
GroupStart(n, count, g) ==
    LET q == n \div count
        m == n % count
    IN (g - 1) * q + (IF g - 1 <= m THEN g - 1 ELSE m) + 1

Groups(n, count) == IF n < count THEN n ELSE count

\* The ranges createNewRegions makes: none if the range holds no pair.
NewRanges(s, e, count) ==
    LET pairs == Ascending({k \in Data : s <= k /\ k < e})
        g == Groups(Len(pairs), count)
        from(j) == IF j = 1 THEN s ELSE pairs[GroupStart(Len(pairs), count, j)]
        to(j) == IF j = g THEN e ELSE pairs[GroupStart(Len(pairs), count, j + 1)]
    IN [j \in 1 .. g |-> <<from(j), to(j)>>]

\* The old regions that keep a part of their range, or all of it.
Remaining(s, e) ==
    LET old == {i \in DOMAIN regions : Overlaps(regions[i], s, e)}
        ev(i) == Evacuate(regions[i], s, e)
    IN [i \in DOMAIN regions \ {j \in old : ev(j).kept = {}} |->
          IF i \in old THEN CHOOSE r \in ev(i).kept : TRUE ELSE regions[i]]

\* The ranges that get a new region: what remains right of [s, e), then its groups.
FreshRanges(s, e, count) ==
    LET ev(i) == Evacuate(regions[i], s, e)
        wide == SetToSeq({i \in DOMAIN regions : Overlaps(regions[i], s, e) /\ ev(i).fresh # {}})
    IN [n \in DOMAIN wide |-> CHOOSE x \in ev(wide[n]).fresh : TRUE] \o NewRanges(s, e, count)

\* newRegion for the n-th of them: one peer on some store, which leads.
MadeRegion(range, n) ==
    UpdateKeyRange(NewRegion(0, 0, {[id |-> id + 2 * n - 1, store |-> CHOOSE t \in Store : TRUE]},
                             id + 2 * n - 1), range[1], range[2])

\* splitRange: one critical section; regions and peers get two IDs each.
SplitKeys ==
    /\ "SplitKeys" \in Admin
    /\ ClusterChange
    /\ \E a \in SplitRanges :
         LET cut == Remaining(a[1], a[2])
             fresh == FreshRanges(a[1], a[2], a[3])
         IN /\ regions' = [i \in DOMAIN cut \cup {id + 2 * n : n \in DOMAIN fresh} |->
                             IF i \in DOMAIN cut THEN cut[i]
                             ELSE MadeRegion(fresh[(i - id) \div 2], (i - id) \div 2)]
            /\ id' = id + 2 * Len(fresh)
    /\ UNCHANGED <<stores, raw, cli>>

-----------------------------------------------------------------------------
(* Checks of a request, RPCClient.checkArgs and rpcHandler.checkRequestContext. *)

\* The stores are visited in no particular order and any cancelled one met
\* before the right one fails the request.
StoreErrors(s) ==
    (IF \E t \in Store : stores[t].cancel THEN {"canceled"} ELSE {})
    \cup (IF stores[s].cancel THEN {}
          ELSE IF stores[s].up THEN {"none"} ELSE {"refused"})

\* Mutant: the version of the region epoch is not compared.
ContextErrorNoVersion(ctx) ==
    IF ctx.region \notin DOMAIN regions THEN "RegionNotFound"
    ELSE IF LeaderPeer(regions[ctx.region]) = {} THEN "NoLeader"
    ELSE IF ctx.peer \notin LeaderPeer(regions[ctx.region]) THEN "NotLeader" ELSE "none"

\* ctx: the region, epoch and peer the client cached.  A request is sent to the
\* peer's store, so "causetstore not match" cannot happen.
ContextError(ctx) ==
    IF ctx.region \notin DOMAIN regions THEN "RegionNotFound"
    ELSE LET r == regions[ctx.region]
             here == {p \in r.peers : p.store = ctx.peer.store} IN
         IF here = {} THEN "RegionNotFound"
         ELSE IF LeaderPeer(r) = {} THEN "NoLeader"
         ELSE IF here \cap LeaderPeer(r) = {} /\ ctx.peer.store \notin TiFlash THEN "NotLeader"
         ELSE IF r.conf # ctx.meta.conf \/ r.ver # ctx.meta.ver THEN "EpochNotMatch"
         ELSE "none"

\* A cached region serves a request if it holds its next key; a reverse scan
\* goes down from its upper bound.
Serves(r, m) ==
    IF m.cmd = "ReverseScan" THEN r.start < m.to /\ (m.to <= r.end \/ r.end = NoEnd)
    ELSE RegionContains(r, m.key)

\* The interlock commands skip checkRequestSize; every other one makes it last.
SizeError(c) == IF c \in Oversized /\ cli[c].cmd # "INTERLOCK" THEN "RaftEntryTooLarge" ELSE "none"

\* Every raw command returns the region error but RawBatchDelete, which goes on.
RawReturns(cmd) == cmd # "RawBatchDelete"

\* What the client does to its cache with a region error: take the leader or
\* the current regions from the answer, or drop the entry.
AfterError(c, e) ==
    LET m == cli[c]
        cur == IF m.region \in DOMAIN regions THEN regions[m.region] ELSE m.meta
        drop == [m EXCEPT !.pc = "locate", !.region = None] IN
    CASE e = "NotLeader" -> [m EXCEPT !.pc = "send", !.peer = CHOOSE p \in LeaderPeer(cur) : TRUE]
      [] e = "EpochNotMatch" /\ Serves(cur, m) /\ LeaderPeer(cur) # {} ->
            [m EXCEPT !.pc = "send", !.meta = cur, !.peer = CHOOSE p \in LeaderPeer(cur) : TRUE]
      [] e = "RaftEntryTooLarge" -> [m EXCEPT !.pc = "done", !.err = e]
      [] OTHER -> drop

\* Mutant: GetPrevRegionByKey answers with the region that holds the key.
LocatedByKey(m) ==
    {i \in DOMAIN regions : RegionContains(regions[i], IF m.cmd = "ReverseScan" THEN m.to ELSE m.key)}

\* The regions a lookup may return: the one that holds the key, or for a reverse
\* scan the one that ends at or contains the upper bound (GetPrevRegionByKey).
Located(m) ==
    {i \in DOMAIN regions :
        \/ Serves(regions[i], m)
        \/ /\ m.cmd = "ReverseScan" /\ regions[i].end = m.to
           /\ \E j \in DOMAIN regions : RegionContains(regions[j], m.to) /\ regions[j].start = m.to}

\* Regions with the same start come in any order, here in that of their IDs.
StartOrder ==
    {p \in (DOMAIN regions) \X (DOMAIN regions) :
        \/ regions[p[1]].start < regions[p[2]].start
        \/ regions[p[1]].start = regions[p[2]].start /\ p[1] < p[2]}

\* sort.Search over n positions: one where the condition starts to hold, or n + 1.
SearchFirst(n, holds) ==
    CHOOSE p \in 1 .. n + 1 : (p <= n => p \in holds) /\ (p > 1 => p - 1 \notin holds)

\* ScanRegions: the regions from the one that holds s on, in order; an end key
\* at or below every start does not cut the list.
ScanRegions(s, e, limit) ==
    LET order == Ordered(DOMAIN regions, StartOrder)
        above == {n \in DOMAIN order : regions[order[n]].end = NoEnd \/ regions[order[n]].end > s}
        from == SubSeq(order, SearchFirst(Len(order), above), Len(order))
        past == {n \in DOMAIN from : regions[from[n]].start >= e}
        below == SubSeq(from, 1, SearchFirst(Len(from), past) - 1)
        kept == IF e # NoEnd /\ below # <<>> THEN below ELSE from
    IN IF limit > 0 /\ Len(kept) > limit THEN SubSeq(kept, 1, limit) ELSE kept

\* FIDelClient.GetRegion fills the cache of the client.  A region without a
\* leader is tried at any of its peers, a tiflash peer at any time.
Locate(c) ==
    /\ cli[c].pc = "locate"
    /\ \E i \in Located(cli[c]) :
         LET r == regions[i]
             flash == {p \in r.peers : p.store \in TiFlash} IN
         \E p \in flash \cup (IF LeaderPeer(r) # {} THEN LeaderPeer(r) ELSE r.peers) :
            cli' = [cli EXCEPT ![c].pc = "send", ![c].region = i, ![c].meta = r, ![c].peer = p]
    /\ UNCHANGED <<id, stores, regions, raw, changes>>

\* The request arrives: store and region are checked, the range is remembered.
CheckRequest(c) ==
    /\ cli[c].pc = "send"
    /\ \E se \in StoreErrors(cli[c].peer.store) :
         LET m == cli[c]
             e == IF se # "none" THEN se
                  ELSE IF ContextError(m) # "none" THEN ContextError(m) ELSE SizeError(c) IN
         cli' = [cli EXCEPT ![c] =
             IF e = "none"
             THEN [m EXCEPT !.pc = "run", !.start = regions[m.region].start,
                            !.end = regions[m.region].end]
             ELSE IF ~RawReturns(m.cmd) /\ se = "none"
                  THEN [m EXCEPT !.pc = "run", !.err = e]
                  ELSE AfterError(c, e)]
    /\ UNCHANGED <<id, stores, regions, raw, changes>>

InRange(m, k) == RegionContains([start |-> m.start, end |-> m.end], k)

FirstOnes(q) == SubSeq(q, 1, Min({Limit, Len(q)}))

\* Scan and ReverseScan of the store: at most Limit committed pairs of [s, e).
Scan(s, e) == FirstOnes(Ascending({k \in Data : s <= k /\ k < e}))
ReverseScan(s, e) == FirstOnes(Descending({k \in Data : s <= k /\ k < e}))

\* handleKvScan.  The client asks for the part of its range that lies in the
\* region it cached and moves on when it gets fewer pairs than it asked for.
RunScan(c) ==
    LET m == cli[c]
        got == Scan(m.key, Min({m.to, m.meta.end, m.end}))
        next == IF Len(got) < Limit THEN Min({m.to, m.meta.end}) ELSE Last(got) + 1
    IN /\ m.pc = "run" /\ m.cmd = "Scan"
       /\ cli' = [cli EXCEPT ![c] =
            IF ~InRange(m, m.key) THEN [m EXCEPT !.pc = "panic"]
            ELSE [m EXCEPT !.pc = IF next >= m.to THEN "done" ELSE "locate",
                           !.key = next, !.out = @ \o got]]
       /\ UNCHANGED <<id, stores, regions, raw, changes>>

\* The reverse case: "[end_key, start_key)", the lower bound is checked.
RunReverseScan(c) ==
    LET m == cli[c]
        lower == Max({m.key, m.meta.start})
        got == ReverseScan(lower, Min({m.to, m.end}))
        next == IF Len(got) < Limit THEN lower ELSE Last(got)
    IN /\ m.pc = "run" /\ m.cmd = "ReverseScan"
       /\ cli' = [cli EXCEPT ![c] =
            IF ~InRange(m, lower) THEN [m EXCEPT !.pc = "panic"]
            ELSE [m EXCEPT !.pc = IF next <= m.key THEN "done" ELSE "locate",
                           !.to = next, !.out = @ \o got]]
       /\ UNCHANGED <<id, stores, regions, raw, changes>>

\* CmdINTERLOCK: no key is checked, the ranges are clipped to the region.
RunInterlock(c) ==
    LET m == cli[c]
        next == Min({m.to, m.meta.end})
        upper == Min({next, m.end})
        got == Ascending({k \in Data : Max({m.key, m.start}) <= k /\ k < upper})
    IN /\ m.pc = "run" /\ m.cmd = "INTERLOCK"
       /\ cli' = [cli EXCEPT ![c].pc = IF next >= m.to THEN "done" ELSE "locate",
                             ![c].key = next, ![c].out = @ \o got]
       /\ UNCHANGED <<id, stores, regions, raw, changes>>

\* The raw handlers check no key; RawDeleteRange is clipped by the client.
RawEffect(m) ==
    CASE m.cmd = "RawPut" -> raw \cup {m.key}
      [] m.cmd \in {"RawDelete", "RawBatchDelete"} -> raw \ {m.key}
      [] m.cmd = "RawDeleteRange" -> {k \in raw : ~(m.key <= k /\ k < Min({m.to, m.meta.end}))}
      [] OTHER -> raw

\* RawGet, RawScan up to the region's end, RawReverseScan down to its start.
RawFound(m) ==
    LET up == Ascending({k \in raw : m.key <= k /\ k < Min({m.to, m.end})})
        down == Descending({k \in raw : m.start <= k /\ k < m.key})
    IN CASE m.cmd = "RawGet" -> IF m.key \in raw THEN <<m.key>> ELSE <<>>
         [] m.cmd = "RawScan" -> FirstOnes(up)
         [] m.cmd = "RawReverseScan" -> FirstOnes(down)
         [] OTHER -> <<>>

RunRaw(c) ==
    LET m == cli[c] IN
    /\ m.pc = "run" /\ c \in Raw
    /\ raw' = RawEffect(m)
    /\ cli' = [cli EXCEPT ![c].pc = "done", ![c].out = RawFound(m)]
    /\ UNCHANGED <<id, stores, regions, changes>>

\* handleSplitRegion looks the region up in one critical section.  The start key
\* it compares is encoded and the split key is not: they never agree.
SplitLookup(c) ==
    /\ cli[c].pc = "run" /\ cli[c].cmd = "SplitRegion"
    /\ changes < MaxChanges
    /\ \E i \in DOMAIN regions :
         /\ RegionContains(regions[i], cli[c].key)
         /\ cli' = [cli EXCEPT ![c].pc = "split", ![c].region = i, ![c].meta = regions[i]]
    /\ UNCHANGED <<id, stores, regions, raw, changes>>

\* ... and splits what has its ID by then in another: it must exist, have as many
\* peers as before, and nothing checks that it still holds the key.
SplitApply(c) ==
    LET m == cli[c]
        new == id + 1 IN
    /\ m.pc = "split"
    /\ changes' = changes + 1
    /\ IF m.region \in DOMAIN regions
          /\ Cardinality(regions[m.region].peers) = Cardinality(m.meta.peers)
       THEN /\ regions' = SplitAt(regions, m.region, new, m.key,
                                  PeersLike(regions[m.region], new + 1), new + 1)
            /\ id' = new + Cardinality(m.meta.peers)
            /\ cli' = [cli EXCEPT ![c].pc = "done", ![c].err =
                         IF ~RegionContains(regions[m.region], m.key) THEN "stale"
                         ELSE IF regions[m.region].start = m.key THEN "repeated" ELSE @]
       ELSE cli' = [cli EXCEPT ![c].pc = "panic"] /\ UNCHANGED <<regions, id>>
    /\ UNCHANGED <<stores, raw>>

ClientStep(c) ==
    Locate(c) \/ CheckRequest(c) \/ RunScan(c) \/ RunReverseScan(c) \/ RunInterlock(c)
    \/ RunRaw(c) \/ SplitLookup(c) \/ SplitApply(c)

ClusterStep == Merge \/ AddPeer \/ RemovePeer \/ ChangeLeader \/ SetStore \/ SplitKeys

RegionsNext == ClusterStep \/ \E c \in Client : ClientStep(c)

RegionsSpec == RegionsInit /\ [][RegionsNext]_regionsVars

\* A client repeats its request until it is served: the back-off loop.
RegionsFairness == \A c \in Client : WF_regionsVars(ClientStep(c))

-----------------------------------------------------------------------------
(* Properties. *)

\* A SplitRegion request was applied to a region that had lost its key since the
\* lookup: the two critical sections of handleSplitRegion do not exclude it.
StaleSplit == \E c \in Splitter : cli[c].err = "stale"

\* An empty region has the start of its neighbour, and the sort of ScanRegions may
\* put it on either side.
NoEmptyRegion == \A i \in DOMAIN regions : regions[i].start # regions[i].end

\* GetRegionByKey "returns the Region ... whose range contains the key": at all
\* times every key lies in exactly one region, and ScanRegions from a key gives
\* that region and its neighbours without a gap (unless one is empty), through
\* splits, merges and SplitKeys, whatever requests are under way; a split that
\* races with merges and peer and leader changes does no harm unless its region
\* has lost the key.
OneRegionPerKey ==
    \A k \in Key : \E i \in DOMAIN regions :
        {j \in DOMAIN regions : RegionContains(regions[j], k)} = {i}

ScanHasNoGap ==
    \A k \in Key :
        LET chain == ScanRegions(k, NoEnd, 0) IN
        /\ RegionContains(regions[chain[1]], k)
        /\ \A n \in 1 .. Len(chain) - 1 : regions[chain[n]].end = regions[chain[n + 1]].start

RegionsPartition == StaleSplit \/ (OneRegionPerKey /\ (NoEmptyRegion => ScanHasNoGap))

\* A split at the start of a region was applied: it leaves an empty region.
RepeatedSplit == \E c \in Splitter : cli[c].err = "repeated"

\* A scan that pages through regions which split, merge and move under it
\* returns each committed key once and in order, and all of them in the end; its
\* key is never outside the range it was checked for (the panic of handleKvScan),
\* but for a reverse scan that meets the empty region a SplitRegion has left.
ScanExact ==
    \A c \in Scanner :
        LET m == cli[c]
            all == IF m.cmd = "ReverseScan" THEN Descending(Data) ELSE Ascending(Data)
        IN /\ IsPrefix(m.out, all) /\ (m.pc = "done" => m.out = all)
           /\ m.pc = "panic" => m.cmd = "ReverseScan" /\ (StaleSplit \/ RepeatedSplit)

\* Once the stores are up for good and every region has a leader, a scan that
\* keeps retrying ends, whatever its cache holds, if no split has left an empty
\* region (which ends a reverse scan in a panic).
Healthy ==
    /\ ~StaleSplit /\ ~RepeatedSplit
    /\ \A s \in Store : stores[s].up /\ ~stores[s].cancel
    /\ \A i \in DOMAIN regions : LeaderPeer(regions[i]) # {}
ScansEnd == <>[]Healthy => \A c \in Scanner : cli[c].pc = "locate" ~> cli[c].pc = "done"

=============================================================================
