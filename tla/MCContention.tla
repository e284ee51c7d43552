------------------------------ MODULE MCContention ------------------------------
(* Parts in which several actors meet in one structure: transactions that    *)
(* wait for each other's locks in the store, servers and goroutines that     *)
(* change and load the plan bindings, and goroutines that count in one tree  *)
(* of memory trackers.  They share no state, so a behaviour follows one of   *)
(* them, chosen at the start, and the others stand still.                    *)
EXTENDS MvccStore, BindInfo, MemTracker, TLC

CONSTANTS k1, k2

-----------------------------------------------------------------------------
(* Two transactions with crossed primaries. *)

MCStartTS == {1, 2}
MCPrimaryTwo == [s \in MCStartTS |-> IF s = 1 THEN k1 ELSE k2]
MCCommitTwo == {<<2, 5>>}
MCForUpdateTwo == {<<1, 3>>, <<2, 3>>}

-----------------------------------------------------------------------------
(* The trackers: a below r, b apart, G global; r has the limit. *)

MCBytesLimit == [t \in Tracker |-> IF t = "r" THEN 2 ELSE 0]
MCInitParent == [t \in Tracker |-> IF t = "a" THEN "r" ELSE NoTracker]
MCInitOwn == [t \in Tracker |-> CASE t = "b" -> 2 [] t = "a" -> 1 [] OTHER -> 0]

MCPanicSet == {{}, {"r"}}

-----------------------------------------------------------------------------
(* The bindings run with seven mixes of servers, goroutines and operations.  *)

MCHintOf == ("s1" :> "h1") @@ ("s2" :> "h1") @@ ("s3" :> "h2")

Mix == {"evolve", "reload", "capture", "servers", "watch", "twins", "session"}

VARIABLE part

MixNext ==
    \/ part = "evolve" /\ BindStep({"A"}, {"loop"}, {"create", "evolve"}, {"s1"})
    \/ part = "reload" /\ BindStep({"A"}, {"loop", "admin"}, {"create", "drop"}, {"s1"})
    \/ part = "capture" /\ BindStep({"A"}, {"loop"}, {"capture", "invalid", "dropall"}, {"s1"})
    \/ part = "servers" /\ (\/ BindStep({"A"}, {"loop"}, {"create"}, {"s1"})
                            \/ BindStep({"B"}, {"loop"}, {"drop"}, {"s1"}))
    \* A loads what B writes: it creates one binding and evolves another.
    \/ part = "watch" /\ (\/ BindStep({"A"}, {"loop"}, {}, {})
                          \/ bindTxns = 0 /\ BindStep({"B"}, {}, {"create"}, {"s1"})
                          \/ BindStep({"B"}, {}, {"evolve"}, {"s3"}))
    \* Two statements with one plan; which of them is dropped makes no difference.
    \/ part = "twins" /\ (\/ BindStep({"A"}, {"loop"}, {"create"}, {"s1", "s2"})
                          \/ BindStep({"A"}, {}, {"drop"}, {"s1"}))
    \/ part = "session" /\ SessionStep

-----------------------------------------------------------------------------

MCInit ==
    /\ part \in Mix \cup {"waits", "trackers"}
    /\ Init /\ BindInit /\ TrackerInit
    /\ part # "trackers" => panics = {}

MCNext ==
    /\ UNCHANGED part
    /\ \/ part = "waits" /\ UNCHANGED <<bindVars, trackerVars>> /\ Next
       \/ part \in Mix /\ UNCHANGED <<vars, trackerVars>> /\ MixNext
       \/ part = "trackers" /\ UNCHANGED <<vars, bindVars>> /\ TrackerNext

MCSpec == MCInit /\ [][MCNext]_<<part, vars, bindVars, trackerVars>>

=============================================================================
