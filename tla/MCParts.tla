------------------------------- MODULE MCParts -------------------------------
(* The sequential and the small concurrent parts a statement goes through:   *)
(* the buffer of its transaction and the tree below it, its schema, the      *)
(* executors it is pushed down to, the global variables and the safe point.  *)
(* They share no state, so a behaviour follows one of them, chosen at the    *)
(* start, and the others stand still.                                        *)
EXTENDS UnionStore, RBTree, InfoSchema, Coprocessor, GlobalVars, SafePoint, TLC

MCSnap == (1 :> 9) @@ (3 :> 8)

-----------------------------------------------------------------------------
(* The rows and the requests of the executors. *)

MCGrp == (1 :> 1) @@ (2 :> 1) @@ (3 :> 2) @@ (4 :> 1)
MCColVal == (1 :> 2) @@ (2 :> 0) @@ (3 :> 2) @@ (4 :> 1)

MCCoStores == {<<{1, 2, 3, 4}, {}>>, <<{1, 2, 4}, {3}>>, <<{3}, {}>>, <<{2, 4}, {1}>>,
               <<{1, 3}, {2, 4}>>, <<{}, {}>>}

MCBare == [engine |-> "unary", lo |-> 0, hi |-> 0, desc |-> FALSE, unique |-> TRUE,
           sel |-> FALSE, top |-> "scan", n |-> 0, grouped |-> FALSE, counts |-> TRUE,
           ranges |-> <<<<1, 5>>>>]
RangeLists == {<<<<1, 5>>>>, <<<<1, 2>>, <<2, 3>>, <<3, 5>>>>, <<<<1, 3>>, <<4, 5>>>>,
               <<<<2, 3>>, <<4, 5>>>>}
Rows == {[top |-> "scan", n |-> 0, grouped |-> FALSE]}
          \cup [top : {"limit"}, n : {0, 1, 3}, grouped : {FALSE}]
Ranked_ == [top : {"topN"}, n : {0, 2}, grouped : {FALSE}]
             \cup [top : {"hashAgg", "streamAgg"}, n : {0}, grouped : BOOLEAN]
With(q, t) == [q EXCEPT !.top = t.top, !.n = t.n, !.grouped = t.grouped]

MCRequest ==
    {With([MCBare EXCEPT !.engine = e, !.ranges = rs, !.desc = d, !.sel = s], t) :
        e \in {"unary", "closure"}, rs \in RangeLists, d \in BOOLEAN, s \in BOOLEAN,
        t \in Rows \cup Ranked_}
    \cup {With([MCBare EXCEPT !.engine = "stream", !.ranges = rs, !.desc = d, !.sel = s,
                              !.unique = u, !.counts = c], t) :
        rs \in RangeLists, d \in BOOLEAN, s \in BOOLEAN, u \in BOOLEAN, c \in BOOLEAN, t \in Rows}
    \cup {[MCBare EXCEPT !.engine = e, !.ranges = rs, !.top = "analyze", !.unique = u, !.hi = h] :
        e \in {"unary", "closure"}, rs \in RangeLists, u \in BOOLEAN, h \in {0, 2}}
    \cup {[MCBare EXCEPT !.engine = e, !.ranges = rs, !.lo = 2, !.hi = 4, !.desc = d] :
        e \in {"unary", "closure", "stream"}, d \in BOOLEAN,
        rs \in RangeLists \cup {<<>>, <<<<1, 3>>, <<3, 2>>>>}}

-----------------------------------------------------------------------------

VARIABLE part

NotBuffer == <<treeVars, isVars, coVars, varVars, safePointVars>>
NotTree == <<bufferVars, isVars, coVars, varVars, safePointVars>>
NotSchema == <<bufferVars, treeVars, coVars, varVars, safePointVars>>
NotCo == <<bufferVars, treeVars, isVars, varVars, safePointVars>>
NotVars == <<bufferVars, treeVars, isVars, coVars, safePointVars>>
NotSafePoint == <<bufferVars, treeVars, isVars, coVars, varVars>>

MCInit ==
    /\ part \in {"buffer", "tree", "schema", "executors", "variables", "safePoint"}
    /\ BufferInit /\ TreeInit /\ InfoInit /\ CoInit /\ VarInit /\ SafePointInit
    \* Executors that stand still have one request and one store.
    /\ part # "executors" => coReq = MCBare /\ coData = {} /\ coLocked = {}

MCNext ==
    /\ \/ part = "buffer" /\ (BufferNext \/ UnionNext) /\ UNCHANGED NotBuffer
       \/ part = "tree" /\ TreeNext /\ UNCHANGED NotTree
       \/ part = "schema" /\ InfoNext /\ UNCHANGED NotSchema
       \/ part = "executors" /\ CoNext /\ UNCHANGED NotCo
       \/ part = "variables" /\ VarNext /\ UNCHANGED NotVars
       \/ part = "safePoint" /\ SafePointNext /\ UNCHANGED NotSafePoint
    /\ UNCHANGED part

\* UnionReadsAgree of UnionStore, where the buffer runs: every way to read
\* through the union store gives the same values (UnionIter, Get, BatchGet).
BufferReadsAgree == part = "buffer" => UnionReadsAgree

MCSpec == MCInit /\ [][MCNext]_<<part, bufferVars, NotBuffer>>

=============================================================================
