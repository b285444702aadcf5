--------------------------- MODULE ShardOwnership ---------------------------
(***************************************************************************)
(* What the coordinator promises its users: at any time a shard belongs to *)
(* at most one collector, and it passes to another one only after the      *)
(* first has given it up or has lost it.                                   *)
(***************************************************************************)
CONSTANTS Collectors,   \* the processes
          Shard         \* the shards
VARIABLE owners         \* owners[s]: the collectors shard s belongs to

Init == owners = [s \in Shard |-> {}]

\* A shard without an owner gets one.
Acquire(c, s) ==
    /\ owners[s] = {}
    /\ owners' = [owners EXCEPT ![s] = {c}]

\* Collector c stops owning the shards S (released, crashed, lease expired).
Relinquish(c, S) ==
    owners' = [s \in Shard |-> IF s \in S THEN owners[s] \ {c} ELSE owners[s]]

Next == \E c \in Collectors : \/ \E s \in Shard : Acquire(c, s)
                              \/ \E S \in SUBSET Shard : Relinquish(c, S)

Spec == Init /\ [][Next]_owners
=============================================================================
