------------------------------ MODULE MemTracker ------------------------------
(***************************************************************************)
(* The tree of memory trackers.  Every goroutine runs a list of atomic     *)
(* steps: an addition, a load, a compare-and-swap, a change of a pointer   *)
(* under the mutex.  Consume walks up the parents it finds on its way.     *)
(* A subtree is attached, replaced or detached by the goroutine that owns  *)
(* it: nobody consumes below it meanwhile; the rest of the tree is in use. *)
(* A tracker has the action it is made with, LogOnExceed, or PanicOnExceed, *)
(* which ends the operation it is called from.  Hooks are left out.        *)
(***************************************************************************)
EXTENDS Integers, FiniteSets, Sequences, SequencesExt

CONSTANTS
    Tracker,        \* the trackers
    Global,         \* the global ones: they keep no children
    Goroutine,
    Amount,         \* the amounts consumed, negative when released
    BytesLimit,     \* the limit of each tracker, 0 for none
    InitParent,     \* the tree a behaviour starts with, attached in peace
    InitOwn,        \* and what was consumed at each tracker by then
    PanicSet,       \* the choices of trackers that panic
    MaxTrackerOps   \* bound: operations of a behaviour

NoTracker == "none"

VARIABLES
    parent, children,
    bytesConsumed, maxConsumed,
    panics,         \* the trackers whose action is PanicOnExceed
    acted,          \* the exceed actions that have logged or panicked
    mu,             \* the goroutine that holds a tracker's mutex
    own,            \* what was consumed directly at a tracker
    left,           \* history: what a tracker has counted too much, as remove did not
                    \* take it away, or too little, as a panic kept the child attached
    gor,            \* the goroutines
    trackerOps      \* operations begun

trackerVars == <<parent, children, bytesConsumed, maxConsumed, panics, acted, mu, own,
                left, gor, trackerOps>>

IdleGoroutine == [todo |-> <<>>, exceed |-> NoTracker, maxNow |-> 0, consumed |-> 0,
         uses |-> NoTracker, moves |-> {}]

SumOver(f, S) == FoldSet(LAMBDA x, n : n + f[x], 0, S)

\* The tracker and what hangs below or above it.
RECURSIVE Ancestors(_, _)
Ancestors(up, t) == IF t = NoTracker THEN {} ELSE {t} \cup Ancestors(up, up[t])
Above(t) == Ancestors(parent, t)
Below(t) == {x \in Tracker : t \in Above(x)}

TrackerInit ==
    /\ parent = InitParent
    /\ children = [t \in Tracker |-> IF t \in Global THEN {}
                                     ELSE {c \in Tracker : InitParent[c] = t}]
    /\ own = InitOwn
    /\ left = [t \in Tracker |-> 0]
    /\ bytesConsumed = [t \in Tracker |->
                          SumOver(InitOwn, {x \in Tracker : t \in Ancestors(InitParent, x)})]
    /\ maxConsumed = bytesConsumed
    /\ panics \in PanicSet
    /\ acted = {}
    /\ mu = [t \in Tracker |-> NoTracker]
    /\ gor = [g \in Goroutine |-> IdleGoroutine]
    /\ trackerOps = 0

-----------------------------------------------------------------------------
(* The programs. *)

Step(op, t) == [op |-> op, t |-> t, c |-> NoTracker, old |-> NoTracker, n |-> 0]

\* Consume at one level: add, raise the maximum, go on with the parent.
ConsumeAt(t, n) ==
    <<[Step("add", t) EXCEPT !.n = n], Step("loadMax", t), Step("loadConsumed", t),
      Step("swapMax", t), [Step("up", t) EXCEPT !.n = n]>>

\* Consume the current consumption of c, once or negated.
ConsumeOf(t, c, sign) == <<[Step("addOf", t) EXCEPT !.c = c, !.n = sign]>>

\* Mutant: what the removed child had consumed stays counted.
RemoveUncounted(t, c) ==
    <<Step("lock", t), [Step("unlink", t) EXCEPT !.c = c], Step("unlock", t)>>

\* remove holds the mutex from the search to the end.
Remove_(t, c) ==
    <<Step("lock", t), [Step("search", t) EXCEPT !.c = c], Step("unlock", t)>>

\* What remove does with the child it found.
Taken(t, c) == ConsumeOf(t, c, -1) \o <<[Step("unlink", t) EXCEPT !.c = c]>>

\* The old parent is asked to remove the tracker, whatever kind it is.
AttachTo(t, p) ==
    (IF parent[t] = NoTracker THEN <<>> ELSE Remove_(parent[t], t))
      \o <<Step("lock", p), [Step("link", p) EXCEPT !.c = t], Step("unlock", p),
           [Step("setParent", p) EXCEPT !.c = t]>>
      \o ConsumeOf(p, t, 1)

Detach(t) ==
    Remove_(parent[t], t)
      \o <<Step("lock", t), [Step("setParent", NoTracker) EXCEPT !.c = t], Step("unlock", t)>>

ReplaceChild(p, old, new) ==
    IF new = NoTracker THEN Remove_(p, old)
    ELSE <<[Step("setParent", p) EXCEPT !.c = new], Step("lock", p),
           [Step("swapChild", p) EXCEPT !.c = new], [Step("unlink", p) EXCEPT !.c = old],
           Step("unlock", p), [Step("addDiff", p) EXCEPT !.c = new, !.old = old]>>

\* Only here is a global parent told apart.
LeaveParent(t, q) == IF q = NoTracker THEN <<>>
                     ELSE IF q \in Global THEN ConsumeOf(q, t, -1) ELSE Remove_(q, t)

AttachToGlobalTracker(t, p) ==
    LeaveParent(t, parent[t]) \o <<[Step("setParent", p) EXCEPT !.c = t]>> \o ConsumeOf(p, t, 1)

DetachFromGlobalTracker(t) ==
    ConsumeOf(parent[t], t, -1) \o <<[Step("unlink", parent[t]) EXCEPT !.c = t]>>

-----------------------------------------------------------------------------
(* Beginning an operation. *)

Quiet(S) ==     \* nobody consumes in S or moves a tracker of S
    \A g \in Goroutine : gor[g].uses \notin S /\ gor[g].moves \cap S = {}

Begin(g, program, uses, moves) ==
    /\ gor[g].todo = <<>>
    /\ trackerOps < MaxTrackerOps
    /\ trackerOps' = trackerOps + 1
    /\ gor' = [gor EXCEPT ![g] = [IdleGoroutine EXCEPT !.todo = program, !.uses = uses, !.moves = moves]]
    /\ UNCHANGED <<parent, children, bytesConsumed, maxConsumed, panics, acted, mu, left>>

StartConsume(g, t, n) ==
    /\ \A h \in Goroutine : gor[h].moves \cap Above(t) = {}
    /\ Begin(g, ConsumeAt(t, n), t, {})
    /\ own' = [own EXCEPT ![t] = @ + n]

\* The subtrees below S move; p, a tracker that stays, is in use meanwhile.
StartMove(g, S, p, program) ==
    /\ Quiet(UNION {Below(t) : t \in S})
    /\ \A h \in Goroutine : gor[h].moves \cap Above(p) = {}
    /\ Begin(g, program, p, UNION {Below(t) : t \in S})
    /\ UNCHANGED own

StartAttach(g, t, p) ==
    /\ t \notin Global /\ p \notin Below(t) \cup Global
    /\ StartMove(g, {t}, p, AttachTo(t, p))

\* Below a global tracker DetachFromGlobalTracker is called instead.
StartDetach(g, t) ==
    /\ parent[t] \notin {NoTracker} \cup Global
    /\ StartMove(g, {t}, parent[t], Detach(t))

StartReplace(g, p, old, new) ==
    /\ parent[old] = p /\ p \notin Global
    /\ new # NoTracker => parent[new] = NoTracker /\ new \notin Global /\ p \notin Below(new)
    /\ StartMove(g, {old, new} \ {NoTracker}, p, ReplaceChild(p, old, new))

StartGlobal(g, t, p) ==
    /\ p \in Global /\ t \notin Global
    /\ StartMove(g, {t}, p, IF parent[t] = p THEN DetachFromGlobalTracker(t)
                          ELSE AttachToGlobalTracker(t, p))

-----------------------------------------------------------------------------
(* One step of a goroutine. *)

Continue(g, more) ==
    LET rest == more \o Tail(gor[g].todo) IN
    IF rest = <<>> THEN IdleGoroutine ELSE [gor[g] EXCEPT !.todo = rest]

\* Each level is compared with its limit after the addition; the topmost one
\* over its limit acts.
RunAdd(g, i) ==
    /\ bytesConsumed' = [bytesConsumed EXCEPT ![i.t] = @ + i.n]
    /\ gor' = [gor EXCEPT ![g] = [Continue(g, <<>>) EXCEPT
                 !.exceed = IF BytesLimit[i.t] > 0 /\ bytesConsumed'[i.t] >= BytesLimit[i.t]
                            THEN i.t ELSE @]]
    /\ UNCHANGED <<parent, children, maxConsumed, acted, mu, left>>

RunMax(g, i) ==
    LET again == <<Step("loadMax", i.t), Step("loadConsumed", i.t), Step("swapMax", i.t)>>
        s == gor[g]
        won == maxConsumed[i.t] = s.maxNow IN
    /\ gor' = [gor EXCEPT ![g] =
         CASE i.op = "loadMax" -> [Continue(g, <<>>) EXCEPT !.maxNow = maxConsumed[i.t]]
           [] i.op = "loadConsumed" -> [Continue(g, <<>>) EXCEPT !.consumed = bytesConsumed[i.t]]
           [] i.op = "swapMax" ->
                Continue(g, IF s.consumed > s.maxNow /\ ~won THEN again ELSE <<>>)]
    /\ maxConsumed' = IF i.op = "swapMax" /\ s.consumed > s.maxNow /\ won
                      THEN [maxConsumed EXCEPT ![i.t] = s.consumed] ELSE maxConsumed
    /\ UNCHANGED <<parent, children, bytesConsumed, acted, mu, left>>

RunUp(g, i) ==
    /\ gor' = [gor EXCEPT ![g] =
         Continue(g, IF parent[i.t] # NoTracker THEN ConsumeAt(parent[i.t], i.n)
                     ELSE IF gor[g].exceed # NoTracker THEN <<Step("act", gor[g].exceed)>>
                     ELSE <<>>)]
    /\ UNCHANGED <<parent, children, bytesConsumed, maxConsumed, acted, mu, left>>

\* LogOnExceed: once, and the log line prints the whole tree, which takes the
\* mutex of every tracker below.
PrintBlocked(t) == \E x \in Tracker : mu[x] # NoTracker /\ t \in Above(x)
LogOnExceed(g, t) ==
    /\ t \in acted \/ ~PrintBlocked(t)
    /\ gor' = [gor EXCEPT ![g] = [Continue(g, <<>>) EXCEPT !.exceed = NoTracker]]
    /\ UNCHANGED <<mu, left>>

\* PanicOnExceed: the goroutine unwinds and gives back its mutexes.  What is left of
\* an operation that was taking a child away would have unlinked it next.
PanicOnExceed(g) ==
    LET rest == Tail(gor[g].todo) IN
    /\ gor' = [gor EXCEPT ![g] = IdleGoroutine]
    /\ mu' = [t \in Tracker |-> IF mu[t] = g THEN NoTracker ELSE mu[t]]
    /\ left' = IF rest = <<>> THEN left
               ELSE [left EXCEPT ![parent[rest[1].c]] = @ - bytesConsumed[rest[1].c]]

RunAct(g, i) ==
    /\ acted' = acted \cup {i.t}
    /\ IF i.t \in panics \ acted THEN PanicOnExceed(g) ELSE LogOnExceed(g, i.t)
    /\ UNCHANGED <<parent, children, bytesConsumed, maxConsumed>>

\* BytesConsumed of the children is read once, when the parent's Consume is called.
RunAddOf(g, i) ==
    /\ LET n == IF i.op = "addOf" THEN i.n * bytesConsumed[i.c]
                ELSE bytesConsumed[i.c] - bytesConsumed[i.old]
       IN gor' = [gor EXCEPT ![g] = Continue(g, ConsumeAt(i.t, n))]
    /\ UNCHANGED <<parent, children, bytesConsumed, maxConsumed, acted, mu, left>>

\* remove looks for its child, which a global tracker does not know.
RunSearch(g, i) ==
    LET found == i.c \in children[i.t] IN
    /\ gor' = [gor EXCEPT ![g] = Continue(g, IF found THEN Taken(i.t, i.c) ELSE <<>>)]
    /\ left' = IF found THEN left ELSE [left EXCEPT ![i.t] = @ + bytesConsumed[i.c]]
    /\ UNCHANGED <<parent, children, bytesConsumed, maxConsumed, acted, mu>>

RunLink(g, i) ==
    /\ i.op = "lock" => mu[i.t] = NoTracker
    /\ mu' = CASE i.op = "lock" -> [mu EXCEPT ![i.t] = g]
               [] i.op = "unlock" -> [mu EXCEPT ![i.t] = NoTracker]
               [] OTHER -> mu
    /\ children' = CASE i.op \in {"link", "swapChild"} -> [children EXCEPT ![i.t] = @ \cup {i.c}]
                     [] i.op = "unlink" -> [children EXCEPT ![i.t] = @ \ {i.c}]
                     [] OTHER -> children
    /\ parent' = CASE i.op = "setParent" -> [parent EXCEPT ![i.c] = i.t]
                   [] i.op = "unlink" -> [parent EXCEPT ![i.c] = NoTracker]
                   [] OTHER -> parent
    /\ gor' = [gor EXCEPT ![g] = Continue(g, <<>>)]
    /\ UNCHANGED <<bytesConsumed, maxConsumed, acted, left>>

RunStep(g) ==
    /\ gor[g].todo # <<>>
    /\ LET i == Head(gor[g].todo) IN
          \/ i.op = "add" /\ RunAdd(g, i)
          \/ i.op \in {"loadMax", "loadConsumed", "swapMax"} /\ RunMax(g, i)
          \/ i.op = "up" /\ RunUp(g, i)
          \/ i.op = "act" /\ RunAct(g, i)
          \/ i.op \in {"addOf", "addDiff"} /\ RunAddOf(g, i)
          \/ i.op = "search" /\ RunSearch(g, i)
          \/ i.op \in {"lock", "unlock", "link", "swapChild", "unlink", "setParent"}
                /\ RunLink(g, i)
    /\ UNCHANGED <<own, panics, trackerOps>>

TrackerNext ==
    \E g \in Goroutine :
      \/ RunStep(g)
      \/ \E t \in Tracker, n \in Amount : StartConsume(g, t, n)
      \/ \E t, p \in Tracker : StartAttach(g, t, p) \/ StartGlobal(g, t, p)
      \/ \E t \in Tracker : StartDetach(g, t)
      \/ \E p, old \in Tracker, new \in Tracker \cup {NoTracker} : StartReplace(g, p, old, new)

-----------------------------------------------------------------------------
(* Properties. *)

AllIdle == \A g \in Goroutine : gor[g].todo = <<>>

\* When nothing is in progress every tracker has counted exactly what was
\* consumed at it and below it, and its high-water mark is not below that:
\* interleaved additions, attaching, replacing and detaching of subtrees and
\* the races of the compare-and-swap loops lose no byte (Consume, AttachTo,
\* ReplaceChild, Detach).  There are two exceptions.  A global tracker has no
\* list of children, so AttachTo takes nothing away from it, and the bytes of
\* the tracker that left stay counted (remove).  A tracker that panics while
\* a child is taken away from it has its bytes taken off and keeps the child.
TrackerSums ==
    AllIdle =>
      \A t \in Tracker :
        /\ bytesConsumed[t] = own[t] + left[t] + SumOver(bytesConsumed, {c \in Tracker : parent[c] = t})
        /\ left[t] > 0 => t \in Global
        /\ left[t] < 0 => t \in panics
        /\ t \notin Global => children[t] = {c \in Tracker : parent[c] = t}
        /\ maxConsumed[t] >= bytesConsumed[t]

=============================================================================
