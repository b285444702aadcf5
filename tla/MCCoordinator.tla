--------------------------- MODULE MCCoordinator ---------------------------
(***************************************************************************)
(* Instances of Coordinator for TLC.                                       *)
(***************************************************************************)
EXTENDS Coordinator, TLC

\* Every process has the same flags: 5 meters in 2 shards (3 and 2), or 2
\* meters in 3 shards of which the last has none.
SameFleets ==
    {[c \in Collectors |-> f] : f \in {[meters |-> 5, shards |-> 2],
                                       [meters |-> 2, shards |-> 3]}}

\* Two shards, both with meters: one for each of two processes.
PlainFleets == {[c \in Collectors |-> [meters |-> 5, shards |-> 2]]}

\* Three shards with meters: more than two processes with one each can cover.
SpareFleets == {[c \in Collectors |-> [meters |-> 5, shards |-> 3]]}

\* Processes, leases and handles are interchangeable.
Symmetric ==
    Permutations(Collectors) \cup Permutations(Lease) \cup Permutations(Handle)
=============================================================================
