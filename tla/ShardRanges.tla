---------------------------- MODULE ShardRanges ----------------------------
(***************************************************************************)
(* The arithmetic that turns a shard number into a range of meters: the    *)
(* part of Coordinator.AcquireShard that computes an assignment and        *)
(* MeterPool.GetMetersByRange, which turns the assignment into meters.     *)
(* `total' is the number of meters of the fleet, `num' the number of       *)
(* shards it is cut into (the flags -total-meters and -num-shards), `s' a  *)
(* shard number in 0..num-1.                                               *)
(***************************************************************************)
EXTENDS Integers

\* Meters per shard, rounded up so that num shards hold all of them.
MetersPerShard(total, num) ==
    (total \div num) + (IF total % num # 0 THEN 1 ELSE 0)

\* The meters of shard s are numbered from ShardStart up to, without, ShardEnd.
ShardStart(total, num, s) == s * MetersPerShard(total, num)

\* A slip: the end is taken for the last meter of the shard.
ShardEndInclusive(total, num, s) ==
    LET end == ShardStart(total, num, s) + MetersPerShard(total, num) + 1
    IN  IF end > total THEN total ELSE end

ShardEnd(total, num, s) ==
    LET end == ShardStart(total, num, s) + MetersPerShard(total, num)
    IN  IF end > total THEN total ELSE end

\* A shard that starts past the last meter is given back by AcquireShard.
Assignable(total, num, s) == ShardStart(total, num, s) < total

\* The meters (by number) that a pool of `pool' meters yields for a range.
MetersByRange(pool, start, end) ==
    LET from == IF start < 0 THEN 0 ELSE start
        to   == IF end > pool THEN pool ELSE end
    IN  from .. (to - 1)

\* The meters a process started with flags f = [meters, shards] collects
\* when it is assigned shard s: its pool has f.meters meters.
MetersOf(f, s) ==
    MetersByRange(f.meters, ShardStart(f.meters, f.shards, s),
                            ShardEnd(f.meters, f.shards, s))

\* Flags a process can be started with (NUM_SHARDS = 0 divides by zero).
Flags == [meters : Nat, shards : Nat \ {0}]
=============================================================================
