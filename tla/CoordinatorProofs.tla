------------------------- MODULE CoordinatorProofs -------------------------
(***************************************************************************)
(* The safety of shard coordination, for any number of processes, shards,  *)
(* leases and faults.                                                      *)
(***************************************************************************)
EXTENDS Coordinator, SetProofs, FiniteSetTheorems, SequenceTheorems, TLAPS

-----------------------------------------------------------------------------
(* The ranges of the shards, for every number of meters and of shards *)

\* Rounding up loses no meter: num shards of MetersPerShard meters hold all
\* of them, and a shard is empty only if there are no meters at all.
LEMMA CeilingCovers ==
    ASSUME NEW total \in Nat, NEW num \in Nat \ {0}
    PROVE  /\ MetersPerShard(total, num) \in Nat
           /\ total <= num * MetersPerShard(total, num)
           /\ total > 0 => MetersPerShard(total, num) > 0
<1> DEFINE q == total \div num
           r == total % num
<1>1. total = num * q + r /\ r \in 0..(num - 1) /\ q \in Nat
  OBVIOUS
<1>2. CASE r = 0
  <2>1. MetersPerShard(total, num) = q
    BY <1>1, <1>2 DEF MetersPerShard
  <2> QED BY <1>1, <1>2, <2>1
<1>3. CASE r # 0
  <2>1. MetersPerShard(total, num) = q + 1
    BY <1>1, <1>3 DEF MetersPerShard
  <2>2. num * (q + 1) = num * q + num
    BY <1>1
  <2> QED BY <1>1, <2>1, <2>2
<1> QED BY <1>2, <1>3

\* Consecutive shards: shard t starts no earlier than any shard before it ends.
LEMMA RangesInOrder ==
    ASSUME NEW m \in Nat, NEW s \in Nat, NEW t \in Nat, s < t
    PROVE  s * m + m <= t * m
<1>1. t = s + 1 + (t - s - 1) /\ t - s - 1 \in Nat
  OBVIOUS
<1> DEFINE d == t - s - 1
<1>2. t * m = s * m + m + d * m
  BY <1>1
<1>3. d * m \in Nat
  BY <1>1
<1> QED BY <1>2, <1>3

\* What an assignment of an assignable shard holds: some meters, all of them
\* numbers of the process's pool (so GetMetersByRange never clamps and never
\* slices backwards).
THEOREM AssignmentInPool ==
    ASSUME NEW f \in Flags, NEW s \in 0 .. (f.shards - 1),
           Assignable(f.meters, f.shards, s)
    PROVE  /\ ShardStart(f.meters, f.shards, s) \in 0 .. (f.meters - 1)
           /\ ShardStart(f.meters, f.shards, s) < ShardEnd(f.meters, f.shards, s)
           /\ ShardEnd(f.meters, f.shards, s) <= f.meters
           /\ MetersOf(f, s) = ShardStart(f.meters, f.shards, s) ..
                               (ShardEnd(f.meters, f.shards, s) - 1)
<1> DEFINE m == MetersPerShard(f.meters, f.shards)
<1>1. /\ f.meters \in Nat /\ f.shards \in Nat \ {0} /\ s \in Nat
      /\ m \in Nat /\ (f.meters > 0 => m > 0)
  BY CeilingCovers DEF Flags
<1>2. s * m \in Nat /\ s * m < f.meters
  BY <1>1 DEF Assignable, ShardStart
<1>3. m > 0
  BY <1>1, <1>2
<1> HIDE DEF m
<1>4. /\ ShardStart(f.meters, f.shards, s) = s * m
      /\ ShardEnd(f.meters, f.shards, s)
            = IF s * m + m > f.meters THEN f.meters ELSE s * m + m
  BY DEF ShardStart, ShardEnd, m
<1> QED BY <1>1, <1>2, <1>3, <1>4 DEF MetersOf, MetersByRange

\* Two shards of the same flags never share a meter: the locks of AcquireShard
\* exclude processes from meters because the ranges they stand for are disjoint.
THEOREM ShardsDisjoint ==
    ASSUME NEW f \in Flags, NEW s \in Nat, NEW t \in Nat, s # t
    PROVE  MetersOf(f, s) \cap MetersOf(f, t) = {}
<1> DEFINE m == MetersPerShard(f.meters, f.shards)
<1>1. /\ f.meters \in Nat /\ f.shards \in Nat \ {0} /\ m \in Nat
  <2>1. f.meters \in Nat /\ f.shards \in Nat \ {0}
    BY DEF Flags
  <2> QED BY <2>1, CeilingCovers
<1> HIDE DEF m
<1>2. \A u \in Nat : \A i \in MetersOf(f, u) : u * m <= i /\ i < u * m + m
  <2> SUFFICES ASSUME NEW u \in Nat, NEW i \in MetersOf(f, u)
               PROVE  u * m <= i /\ i < u * m + m
    OBVIOUS
  <2>1. u * m \in Nat
    BY <1>1
  <2> QED BY <1>1, <2>1 DEF MetersOf, MetersByRange, ShardStart, ShardEnd, m
<1>3. s * m \in Nat /\ t * m \in Nat /\ MetersOf(f, s) \subseteq Int
  BY <1>1 DEF MetersOf, MetersByRange
<1>4. s * m + m <= t * m \/ t * m + m <= s * m
  <2>1. CASE s < t
    BY <2>1, <1>1, RangesInOrder
  <2>2. CASE t < s
    BY <2>2, <1>1, RangesInOrder
  <2> QED BY <2>1, <2>2, <1>1
<1> QED BY <1>1, <1>2, <1>3, <1>4

\* Together the assignable shards hold every meter of the fleet: when each of
\* them is assigned, no meter is left out.
THEOREM ShardsCoverMeters ==
    ASSUME NEW f \in Flags, NEW i \in 0 .. (f.meters - 1)
    PROVE  \E s \in 0 .. (f.shards - 1) :
               Assignable(f.meters, f.shards, s) /\ i \in MetersOf(f, s)
<1> DEFINE m == MetersPerShard(f.meters, f.shards)
           s == i \div m
<1>1. /\ f.meters \in Nat /\ f.shards \in Nat \ {0} /\ i \in Nat /\ i < f.meters
      /\ m \in Nat \ {0} /\ f.meters <= f.shards * m
  BY CeilingCovers DEF Flags
<1> HIDE DEF m
<1>2. s \in Nat /\ s * m \in Nat /\ s * m <= i /\ i < s * m + m
  BY <1>1
<1> HIDE DEF s
<1>3. s < f.shards
  <2> SUFFICES ASSUME f.shards <= s PROVE FALSE
    BY <1>1, <1>2
  <2>1. f.shards * m <= s * m
    BY <1>1, <1>2
  <2> QED BY <1>1, <1>2, <2>1
<1>4. Assignable(f.meters, f.shards, s)
  BY <1>1, <1>2 DEF Assignable, ShardStart, m
<1>5. MetersOf(f, s) = s * m .. ((IF s * m + m > f.meters THEN f.meters ELSE s * m + m) - 1)
  BY <1>1, <1>2 DEF MetersOf, MetersByRange, ShardStart, ShardEnd, m
<1> QED BY <1>1, <1>2, <1>3, <1>4, <1>5

-----------------------------------------------------------------------------
(* Lock queues *)

\* Deleting a key leaves a queue, and leaves the owner of the lock its owner
\* unless it is the owner's key that is deleted.
LEMMA DequeuedKeepsOwner ==
    ASSUME NEW S, NEW q \in Seq(S), NEW l
    PROVE  /\ Dequeued(q, l) \in Seq(S)
           /\ \A k : k # l /\ Owns(q, k) => Owns(Dequeued(q, l), k)
<1>1. CASE ~ \E i \in 1 .. Len(q) : q[i] = l
  BY <1>1 DEF Dequeued, RemoveFirst
<1>2. CASE \E i \in 1 .. Len(q) : q[i] = l
  <2> DEFINE I == {i \in 1 .. Len(q) : q[i] = l}
             i == Min(I)
             a == SubSeq(q, 1, i - 1)
             b == SubSeq(q, i + 1, Len(q))
  <2>1. I # {} /\ I \in SUBSET Nat /\ Len(q) \in Nat
    BY <1>2
  <2>2. i \in 1 .. Len(q) /\ q[i] = l
    BY <2>1, MinIsMember
  <2>3. Dequeued(q, l) = a \o b
    BY <1>2, <2>1 DEF Dequeued, RemoveFirst, RemoveAt, SelectInSeq
  <2> HIDE DEF I, i
  <2>4. a \in Seq(S) /\ Len(a) = i - 1 /\ \A j \in 1 .. i - 1 : a[j] = q[j]
    <3>1. \A j \in 1 .. i - 1 : q[j] \in S
      BY <2>1, <2>2
    <3> QED BY <2>2, <3>1, SubSeqProperties
  <2>5. b \in Seq(S)
    <3>1. \A j \in i + 1 .. Len(q) : q[j] \in S
      BY <2>1, <2>2
    <3> QED BY <2>1, <2>2, <3>1, SubSeqProperties
  <2> HIDE DEF a, b
  <2>6. a \o b \in Seq(S)
    BY <2>4, <2>5, ConcatProperties
  <2>7. ASSUME NEW k, k # l, Owns(q, k) PROVE Owns(a \o b, k)
    <3>1. i > 1
      BY <2>2, <2>7 DEF Owns
    <3>2. Len(b) \in Nat
      BY <2>5
    <3>3. Len(a \o b) > 0 /\ (a \o b)[1] = a[1]
      BY <2>2, <2>4, <2>5, <3>1, <3>2, ConcatProperties
    <3>4. a[1] = k
      BY <2>2, <2>4, <2>7, <3>1 DEF Owns
    <3> QED BY <2>6, <3>3, <3>4 DEF Owns
  <2> QED BY <2>3, <2>6, <2>7
<1> QED BY <1>1, <1>2

\* Adding a key leaves a queue and the owner of the lock its owner.
LEMMA EnqueuedKeepsOwner ==
    ASSUME NEW S, NEW q \in Seq(S), NEW l \in S
    PROVE  /\ Enqueued(q, l) \in Seq(S)
           /\ \A k : Owns(q, k) => Owns(Enqueued(q, l), k)
<1>1. CASE Contains(q, l)
  BY <1>1 DEF Enqueued
<1>2. CASE ~Contains(q, l)
  <2>1. Enqueued(q, l) = Append(q, l)
    BY <1>2 DEF Enqueued
  <2>2. \A k : Owns(q, k) => Append(q, l)[1] = k
    <3> SUFFICES ASSUME NEW k, Owns(q, k) PROVE Append(q, l)[1] = k
      OBVIOUS
    <3>1. 1 \in 1 .. Len(q)
      BY DEF Owns
    <3> QED BY <3>1, AppendProperties DEF Owns
  <2> QED BY <2>1, <2>2, AppendProperties DEF Owns
<1> QED BY <1>1, <1>2

-----------------------------------------------------------------------------
(* Types *)

LEMMA DropLeaseType ==
    ASSUME TypeOK, NEW l, DropLease(l)
    PROVE  /\ leases' \subseteq Lease
           /\ queue' \in [Shard -> Seq(Lease)]
           /\ registry' \in [Collectors -> [shard : Shard, lease : Lease] \cup {None}]
<1>1. \A s \in Shard : Dequeued(queue[s], l) \in Seq(Lease)
  BY DequeuedKeepsOwner DEF TypeOK
<1>2. queue' = [s \in Shard |-> Dequeued(queue[s], l)]
  BY DEF DropLease
<1>3. queue' \in [Shard -> Seq(Lease)]
  BY <1>1, <1>2
<1> QED BY <1>3 DEF TypeOK, DropLease

\* The shard the loop is at, and the queue of its lock.
LEMMA CursorIsShard ==
    ASSUME TypeOK, NEW c \in Collectors
    PROVE  cursor[c] \in Shard /\ queue[cursor[c]] \in Seq(Lease)
<1>1. cursor[c] \in 0 .. (flags[c].shards - 1)
  <2>1. flags[c].shards \in Nat
    BY DEF TypeOK, Flags
  <2>2. cursor[c] \in Nat /\ cursor[c] < flags[c].shards
    BY DEF TypeOK
  <2> QED BY <2>1, <2>2
<1>2. cursor[c] \in Shard
  BY <1>1 DEF TypeOK
<1> QED BY <1>2 DEF TypeOK

\* Continue leaves the loop at a shard of the process's flags.
LEMMA ContinueType ==
    ASSUME TypeOK, NEW c \in Collectors, Continue(c), UNCHANGED flags
    PROVE  /\ pc' \in [Collectors -> {"down", "idle", "try", "drop"}]
           /\ cursor' \in [Collectors -> Nat]
           /\ \A d \in Collectors : cursor'[d] < flags'[d].shards
<1>1. \A d \in Collectors : flags[d].shards \in Nat \ {0}
  BY DEF TypeOK, Flags
<1>2. /\ pc \in [Collectors -> {"down", "idle", "try", "drop"}]
      /\ cursor \in [Collectors -> Nat]
      /\ \A d \in Collectors : cursor[d] < flags[d].shards
  BY DEF TypeOK
<1>3. CASE cursor[c] + 1 < flags[c].shards
  BY <1>1, <1>2, <1>3 DEF Continue
<1>4. CASE ~(cursor[c] + 1 < flags[c].shards)
  BY <1>1, <1>2, <1>4 DEF Continue
<1> QED BY <1>3, <1>4

\* TypeOK holds in every reachable state: in particular the loop never tries a
\* shard its flags do not have, and no assignment names one.
THEOREM TypeCorrect == Spec => []TypeOK
<1>1. Init => TypeOK
  <2> SUFFICES ASSUME Init PROVE TypeOK
    OBVIOUS
  <2>1. flags \in [Collectors -> {f \in Flags : 0 .. (f.shards - 1) \subseteq Shard}]
    BY FleetsAssumption DEF Init
  <2>2. \A c \in Collectors : 0 < flags[c].shards
    BY <2>1 DEF Flags
  <2> QED BY <2>1, <2>2, BoundAssumption DEF Init, TypeOK
<1>2. TypeOK /\ [Next]_vars => TypeOK'
  <2> SUFFICES ASSUME TypeOK, [Next]_vars PROVE TypeOK'
    OBVIOUS
  <2> USE DEF etcd, client
  <2>1. ASSUME NEW c \in Collectors, NewCoordinator(c) PROVE TypeOK'
    BY <2>1 DEF NewCoordinator, TypeOK, Fresh
  <2>2. ASSUME NEW c \in Collectors, AcquireShard(c) PROVE TypeOK'
    <3>1. 0 < flags[c].shards
      BY DEF TypeOK, Flags
    <3> QED BY <2>2, <3>1 DEF AcquireShard, FirstShard, TypeOK
  <2>3. ASSUME NEW c \in Collectors, TryLock(c) PROVE TypeOK'
    <3> DEFINE q == Enqueued(queue[cursor[c]], session[c])
    <3>1. cursor[c] \in Shard /\ q \in Seq(Lease)
      BY <2>3, CursorIsShard, EnqueuedKeepsOwner DEF TryLock, Alive, TypeOK
    <3>2. queue' = [queue EXCEPT ![cursor[c]] = q]
      BY <2>3 DEF TryLock
    <3>3. queue' \in [Shard -> Seq(Lease)]
      BY <3>1, <3>2 DEF TypeOK
    <3> HIDE DEF q
    <3>4. 0 < flags[c].shards
      BY DEF TypeOK, Flags
    <3>5. CASE Takes(c, q)
      <4>1. /\ pc' = [pc EXCEPT ![c] = "idle"]
            /\ cursor' = [cursor EXCEPT ![c] = 0]
            /\ UNCHANGED <<flags, leases, registry, session, kept, faults>>
        BY <2>3, <3>5 DEF TryLock, q
      <4>2. PICK h \in Handle : assigned' = [assigned EXCEPT ![c][h] = cursor[c]]
        BY <2>3, <3>5 DEF TryLock, q
      <4>3. assigned' \in [Collectors -> [Handle -> Shard \cup {None}]]
        BY <3>1, <4>2 DEF TypeOK
      <4> QED BY <3>3, <3>4, <4>1, <4>3 DEF TypeOK
    <3>6. CASE ~Takes(c, q)
      BY <2>3, <3>1, <3>3, <3>6 DEF TryLock, TypeOK, q
    <3> QED BY <3>5, <3>6
  <2>4. ASSUME NEW c \in Collectors, TryLockFails(c) PROVE TypeOK'
    BY <2>4, ContinueType, BoundAssumption DEF TryLockFails, Fault, TypeOK
  <2>5. ASSUME NEW c \in Collectors, TryLockReplyLost(c) PROVE TypeOK'
    <3>1. queue' \in [Shard -> Seq(Lease)]
      BY <2>5, CursorIsShard, EnqueuedKeepsOwner DEF TryLockReplyLost, Alive, TypeOK
    <3> QED BY <2>5, <3>1, ContinueType, BoundAssumption DEF TryLockReplyLost, Fault, TypeOK
  <2>6. ASSUME NEW c \in Collectors, DropKey(c) PROVE TypeOK'
    <3>1. queue' \in [Shard -> Seq(Lease)]
      BY <2>6, CursorIsShard, DequeuedKeepsOwner DEF DropKey, TypeOK
    <3> QED BY <2>6, <3>1, ContinueType DEF DropKey, TypeOK
  <2>7. ASSUME NEW c \in Collectors, DropFails(c) PROVE TypeOK'
    BY <2>7, ContinueType, BoundAssumption DEF DropFails, Fault, TypeOK
  <2>8. ASSUME NEW c \in Collectors, NEW h \in Handle, Release(c, h) PROVE TypeOK'
    <3>1. assigned[c][h] \in Shard
      BY <2>8 DEF Release, TypeOK
    <3>2. queue' \in [Shard -> Seq(Lease)]
      BY <2>8, <3>1, DequeuedKeepsOwner DEF Release, TypeOK
    <3> QED BY <2>8, <3>2 DEF Release, TypeOK
  <2>9. ASSUME NEW c \in Collectors, NEW h \in Handle, ReleaseFails(c, h) PROVE TypeOK'
    BY <2>9, BoundAssumption DEF ReleaseFails, Fault, TypeOK
  <2>10. ASSUME NEW c \in Collectors, NEW h \in Handle, RegisterCollector(c, h)
         PROVE TypeOK'
    BY <2>10 DEF RegisterCollector, Entry, Fresh, TypeOK
  <2>11. ASSUME NEW c \in Collectors, NEW h \in Handle, RegisterFails(c, h)
         PROVE TypeOK'
    BY <2>11, BoundAssumption DEF RegisterFails, Entry, Fresh, Fault, TypeOK
  <2>12. ASSUME NEW c \in Collectors, Gone(c), UNCHANGED flags
         PROVE  /\ pc' \in [Collectors -> {"down", "idle", "try", "drop"}]
                /\ session' \in [Collectors -> Lease \cup {None}]
                /\ kept' \in [Collectors -> SUBSET Lease]
                /\ cursor' \in [Collectors -> Nat]
                /\ \A d \in Collectors : cursor'[d] < flags'[d].shards
                /\ assigned' \in [Collectors -> [Handle -> Shard \cup {None}]]
    <3>1. 0 < flags[c].shards
      BY DEF TypeOK, Flags
    <3> QED BY <2>12, <3>1 DEF Gone, TypeOK
  <2>13. ASSUME NEW c \in Collectors, Close(c) PROVE TypeOK'
    BY <2>12, <2>13, DropLeaseType DEF Close, TypeOK
  <2>14. ASSUME NEW c \in Collectors, Crash(c) PROVE TypeOK'
    BY <2>12, <2>14, BoundAssumption DEF Crash, Fault, TypeOK
  <2>15. ASSUME NEW l \in Lease, LeaseExpires(l) PROVE TypeOK'
    BY <2>15, DropLeaseType, BoundAssumption DEF LeaseExpires, Fault, TypeOK
  <2>16. CASE UNCHANGED vars
    BY <2>16 DEF vars, TypeOK
  <2> QED BY <2>1, <2>2, <2>3, <2>4, <2>5, <2>6, <2>7, <2>8, <2>9, <2>10, <2>11,
             <2>13, <2>14, <2>15, <2>16 DEF Next
<1> QED BY <1>1, <1>2, PTL DEF Spec

-----------------------------------------------------------------------------
(* Locks *)

\* HolderOwnsLock, one assignment at a time.
HandleOwns ==
    \A c \in Collectors, h \in Handle :
        Alive(c) /\ assigned[c][h] # None => Owns(queue[assigned[c][h]], session[c])

LEMMA HolderByHandle == TypeOK => (HolderOwnsLock <=> HandleOwns)
<1> SUFFICES ASSUME TypeOK PROVE HolderOwnsLock <=> HandleOwns
  OBVIOUS
<1>1. ASSUME HolderOwnsLock, NEW c \in Collectors, NEW h \in Handle,
             Alive(c), assigned[c][h] # None
      PROVE  Owns(queue[assigned[c][h]], session[c])
  <2>1. assigned[c][h] \in Believes(c)
    BY <1>1 DEF Believes
  <2> QED BY <1>1, <2>1 DEF HolderOwnsLock, OwnedBy
<1>2. ASSUME HandleOwns, NEW c \in Collectors, Alive(c), NEW s \in Believes(c)
      PROVE  s \in OwnedBy(c)
  <2>1. PICK h \in Handle : s = assigned[c][h] /\ s # None
    BY DEF Believes
  <2>2. s \in Shard
    BY <2>1 DEF TypeOK
  <2> QED BY <1>2, <2>1, <2>2 DEF HandleOwns, OwnedBy
<1> QED BY <1>1, <1>2 DEF HolderOwnsLock, HandleOwns

\* Deleting the key of c's session from one queue takes no lock from a process
\* with another session.
LEMMA OthersKeepLocks ==
    ASSUME TypeOK, SessionsDistinct, HandleOwns,
           NEW c \in Collectors, NEW s \in Shard,
           queue' = [queue EXCEPT ![s] = Dequeued(@, session[c])],
           NEW d \in Collectors, NEW h \in Handle,
           d # c, Alive(d), assigned[d][h] # None
    PROVE  Owns(queue'[assigned[d][h]], session[d])
<1> DEFINE t == assigned[d][h]
<1>1. t \in Shard /\ queue[t] \in Seq(Lease) /\ Owns(queue[t], session[d])
  BY DEF TypeOK, HandleOwns
<1>2. session[d] # session[c]
  BY NoneAssumption DEF SessionsDistinct, Alive, TypeOK
<1>3. CASE t = s
  <2>1. queue'[t] = Dequeued(queue[t], session[c])
    BY <1>1, <1>3 DEF TypeOK
  <2> QED BY <1>1, <1>2, <2>1, DequeuedKeepsOwner
<1>4. CASE t # s
  BY <1>1, <1>4 DEF TypeOK
<1> QED BY <1>3, <1>4

\* The end of a lease takes no lock from a session on another lease.
LEMMA OthersSurviveLease ==
    ASSUME TypeOK, HandleOwns, NEW l, DropLease(l),
           NEW d \in Collectors, NEW h \in Handle,
           session[d] # l, Alive(d), assigned[d][h] # None
    PROVE  Owns(queue'[assigned[d][h]], session[d])
<1> DEFINE t == assigned[d][h]
<1>1. t \in Shard /\ queue[t] \in Seq(Lease) /\ Owns(queue[t], session[d])
  BY DEF TypeOK, HandleOwns
<1>2. queue'[t] = Dequeued(queue[t], l)
  BY <1>1 DEF DropLease
<1> QED BY <1>1, <1>2, DequeuedKeepsOwner

\* The part of LockInv that is about one process at a time.
LocalInv == SessionsDistinct /\ DownHoldsNothing /\ RoomToTake

\* A process inside AcquireShard that moves on without an assignment.
LEMMA LocalMove ==
    ASSUME TypeOK, LocalInv, NEW c \in Collectors, pc[c] \in {"try", "drop"},
           NEW x \in {"idle", "try", "drop"}, pc' = [pc EXCEPT ![c] = x],
           UNCHANGED <<session, assigned>>
    PROVE  LocalInv'
<1>1. \A d \in Collectors : pc'[d] = IF d = c THEN x ELSE pc[d]
  BY DEF TypeOK
<1> QED BY <1>1 DEF LocalInv, SessionsDistinct, DownHoldsNothing, RoomToTake

LEMMA ContinueMoves ==
    ASSUME NEW c, Continue(c)
    PROVE  \E x \in {"idle", "try", "drop"} : pc' = [pc EXCEPT ![c] = x]
BY DEF Continue

LEMMA LocalStep == TypeOK /\ LocalInv /\ [Next]_vars => LocalInv'
<1> SUFFICES ASSUME TypeOK, LocalInv, [Next]_vars PROVE LocalInv'
  OBVIOUS
<1> USE NoneAssumption DEF LocalInv, SessionsDistinct, DownHoldsNothing, RoomToTake,
                           etcd, client, TypeOK
<1>1. ASSUME NEW c \in Collectors, NewCoordinator(c) PROVE LocalInv'
  BY <1>1 DEF NewCoordinator, Fresh
<1>2. ASSUME NEW c \in Collectors, AcquireShard(c) PROVE LocalInv'
  BY <1>2 DEF AcquireShard
<1>3. ASSUME NEW c \in Collectors, TryLock(c) PROVE LocalInv'
  <2> DEFINE q == Enqueued(queue[cursor[c]], session[c])
  <2>1. UNCHANGED session /\ pc[c] = "try"
    BY <1>3 DEF TryLock
  <2>2. CASE Takes(c, q)
    <3>1. pc' = [pc EXCEPT ![c] = "idle"]
      BY <1>3, <2>2 DEF TryLock
    <3>2. PICK h \in Handle : assigned' = [assigned EXCEPT ![c][h] = cursor[c]]
      BY <1>3, <2>2 DEF TryLock
    <3> QED BY <2>1, <3>1, <3>2
  <2>3. CASE ~Takes(c, q)
    <3>1. pc' = [pc EXCEPT ![c] = "drop"] /\ UNCHANGED assigned
      BY <1>3, <2>3 DEF TryLock
    <3> QED BY <2>1, <3>1, LocalMove
  <2> QED BY <2>2, <2>3
<1>4. ASSUME NEW c \in Collectors,
             TryLockFails(c) \/ TryLockReplyLost(c) \/ DropKey(c) \/ DropFails(c)
      PROVE  LocalInv'
  <2>1. Continue(c) /\ pc[c] \in {"try", "drop"} /\ UNCHANGED <<session, assigned>>
    BY <1>4 DEF TryLockFails, TryLockReplyLost, DropKey, DropFails
  <2> QED BY <2>1, ContinueMoves, LocalMove
<1>5. ASSUME NEW c \in Collectors, NEW h \in Handle, Release(c, h) PROVE LocalInv'
  BY <1>5 DEF Release
<1>6. ASSUME NEW c \in Collectors, NEW h \in Handle, ReleaseFails(c, h) PROVE LocalInv'
  BY <1>6 DEF ReleaseFails
<1>7. ASSUME NEW c \in Collectors, NEW h \in Handle,
              RegisterCollector(c, h) \/ RegisterFails(c, h)
       PROVE  LocalInv'
  BY <1>7 DEF RegisterCollector, RegisterFails
<1>8. ASSUME NEW c \in Collectors, Close(c) \/ Crash(c) PROVE LocalInv'
  <2>1. Gone(c)
    BY <1>8 DEF Close, Crash
  <2>2. \A d \in Collectors :
           /\ pc'[d] = IF d = c THEN "down" ELSE pc[d]
           /\ session'[d] = IF d = c THEN None ELSE session[d]
           /\ assigned'[d] = IF d = c THEN [h \in Handle |-> None] ELSE assigned[d]
    BY <2>1 DEF Gone
  <2> HIDE DEF TypeOK, etcd, client
  <2> QED BY <2>2
<1>9. ASSUME NEW l \in Lease, LeaseExpires(l) PROVE LocalInv'
  BY <1>9 DEF LeaseExpires
<1>10. CASE UNCHANGED vars
  BY <1>10 DEF vars
<1> QED BY <1>1, <1>2, <1>3, <1>4, <1>5, <1>6, <1>7, <1>8, <1>9, <1>10 DEF Next

\* A step that neither moves locks nor hands out shards keeps HandleOwns.
LEMMA HandleKept ==
    ASSUME HandleOwns, UNCHANGED queue,
           \A d \in Collectors, h \in Handle :
               Alive(d)' /\ assigned'[d][h] # None =>
                   /\ Alive(d) /\ session'[d] = session[d]
                   /\ assigned'[d][h] = assigned[d][h]
    PROVE  HandleOwns'
  BY DEF HandleOwns

LEMMA HandleStep ==
    ASSUME SingleHandle, TypeOK, LocalInv, HandleOwns, [Next]_vars
    PROVE  HandleOwns'
<1> USE DEF etcd, client
<1>1. ASSUME NEW c \in Collectors, NewCoordinator(c) PROVE HandleOwns'
  <2>1. PICK l \in Fresh : /\ leases' = leases \cup {l}
                           /\ session' = [session EXCEPT ![c] = l]
    BY <1>1 DEF NewCoordinator
  <2>2. UNCHANGED <<queue, assigned>> /\ \A h \in Handle : assigned[c][h] = None
    BY <1>1 DEF NewCoordinator, LocalInv, DownHoldsNothing
  <2>3. ASSUME NEW d \in Collectors, d # c, Alive(d)'
        PROVE  Alive(d) /\ session'[d] = session[d]
    BY <2>1, <2>3 DEF Alive, Fresh, TypeOK
  <2> QED BY <2>2, <2>3, HandleKept
<1>2. ASSUME NEW c \in Collectors, TryLock(c) PROVE HandleOwns'
  <2> DEFINE s == cursor[c]
             q == Enqueued(queue[s], session[c])
  <2>1. s \in Shard /\ queue[s] \in Seq(Lease) /\ session[c] \in Lease
    BY <1>2, CursorIsShard DEF TryLock, Alive, TypeOK
  <2>2. queue' = [queue EXCEPT ![s] = q] /\ UNCHANGED <<leases, session>>
    BY <1>2 DEF TryLock
  <2>3. ASSUME NEW k, NEW t \in Shard, Owns(queue[t], k) PROVE Owns(queue'[t], k)
    BY <2>1, <2>2, <2>3, EnqueuedKeepsOwner DEF TypeOK
  <2>4. ASSUME NEW d \in Collectors, NEW h \in Handle,
               Alive(d), assigned[d][h] # None
        PROVE  Owns(queue'[assigned[d][h]], session[d])
    BY <2>3, <2>4 DEF HandleOwns, TypeOK
  <2>5. CASE Takes(c, q)
    <3>1. PICK g \in Handle : assigned' = [assigned EXCEPT ![c][g] = s]
      BY <1>2, <2>5 DEF TryLock
    <3>2. Owns(queue'[s], session[c])
      BY <2>1, <2>2, <2>5 DEF Takes, TypeOK
    <3>3. ASSUME NEW d \in Collectors, NEW h \in Handle
          PROVE  assigned'[d][h] = IF d = c /\ h = g THEN s ELSE assigned[d][h]
      BY <3>1 DEF TypeOK
    <3> HIDE DEF s, q
    <3> QED BY <2>2, <2>4, <3>2, <3>3 DEF HandleOwns, Alive
  <2>6. CASE ~Takes(c, q)
    <3>1. UNCHANGED assigned
      BY <1>2, <2>6 DEF TryLock
    <3> QED BY <2>2, <2>4, <3>1 DEF HandleOwns, Alive
  <2> QED BY <2>5, <2>6
<1>3. ASSUME NEW c \in Collectors, TryLockReplyLost(c) PROVE HandleOwns'
  <2>1. cursor[c] \in Shard /\ queue[cursor[c]] \in Seq(Lease) /\ session[c] \in Lease
    BY <1>3, CursorIsShard DEF TryLockReplyLost, Alive, TypeOK
  <2>2. /\ queue' = [queue EXCEPT ![cursor[c]] = Enqueued(@, session[c])]
        /\ UNCHANGED <<leases, session, assigned>>
    BY <1>3 DEF TryLockReplyLost
  <2>3. ASSUME NEW k, NEW t \in Shard, Owns(queue[t], k) PROVE Owns(queue'[t], k)
    BY <2>1, <2>2, <2>3, EnqueuedKeepsOwner DEF TypeOK
  <2> QED BY <2>2, <2>3 DEF HandleOwns, TypeOK, Alive
<1>4. ASSUME NEW c \in Collectors, DropKey(c) PROVE HandleOwns'
  <2>1. cursor[c] \in Shard
    BY CursorIsShard
  <2>2. /\ queue' = [queue EXCEPT ![cursor[c]] = Dequeued(@, session[c])]
        /\ UNCHANGED <<leases, session, assigned>>
    BY <1>4 DEF DropKey
  <2>3. \A h \in Handle : assigned[c][h] = None
    BY <1>4 DEF DropKey, LocalInv, RoomToTake, SingleHandle
  <2>4. ASSUME NEW d \in Collectors, NEW h \in Handle,
               Alive(d), assigned[d][h] # None
        PROVE  Owns(queue'[assigned[d][h]], session[d])
    BY <2>1, <2>2, <2>3, <2>4, OthersKeepLocks DEF LocalInv
  <2> QED BY <2>2, <2>4 DEF HandleOwns, Alive
<1>5. ASSUME NEW c \in Collectors, NEW g \in Handle, Release(c, g) PROVE HandleOwns'
  <2>1. assigned[c][g] \in Shard
    BY <1>5 DEF Release, TypeOK
  <2>2. /\ queue' = [queue EXCEPT ![assigned[c][g]] = Dequeued(@, session[c])]
        /\ UNCHANGED <<leases, session>>
    BY <1>5 DEF Release
  <2>3. ASSUME NEW d \in Collectors, NEW h \in Handle
        PROVE  assigned'[d][h] = IF d = c THEN None ELSE assigned[d][h]
    BY <1>5 DEF Release, SingleHandle, TypeOK
  <2>4. ASSUME NEW d \in Collectors, NEW h \in Handle, d # c,
               Alive(d), assigned[d][h] # None
        PROVE  Owns(queue'[assigned[d][h]], session[d])
    BY <2>1, <2>2, <2>4, OthersKeepLocks DEF LocalInv
  <2> QED BY <2>2, <2>3, <2>4 DEF HandleOwns, Alive
<1>6. ASSUME NEW c \in Collectors, NEW g \in Handle, ReleaseFails(c, g)
      PROVE  HandleOwns'
  <2>1. ASSUME NEW d \in Collectors, NEW h \in Handle
        PROVE  assigned'[d][h] = IF d = c /\ h = g THEN None ELSE assigned[d][h]
    BY <1>6 DEF ReleaseFails, TypeOK
  <2>2. UNCHANGED <<queue, leases, session>>
    BY <1>6 DEF ReleaseFails
  <2> QED BY <2>1, <2>2, HandleKept DEF Alive
<1>7. ASSUME NEW c \in Collectors, NEW g \in Handle,
             RegisterCollector(c, g) \/ RegisterFails(c, g)
      PROVE  HandleOwns'
  <2>1. PICK l \in Fresh : leases' = leases \cup {l}
    BY <1>7 DEF RegisterCollector, RegisterFails
  <2>2. UNCHANGED <<queue, session, assigned>>
    BY <1>7 DEF RegisterCollector, RegisterFails
  <2>3. ASSUME NEW d \in Collectors, Alive(d)' PROVE Alive(d)
    BY <2>1, <2>2, <2>3 DEF Alive, Fresh
  <2> QED BY <2>2, <2>3, HandleKept
<1>8. ASSUME NEW c \in Collectors, Gone(c),
             NEW d \in Collectors, NEW h \in Handle
      PROVE  /\ d = c => assigned'[d][h] = None
             /\ d # c => session'[d] = session[d] /\ assigned'[d][h] = assigned[d][h]
  BY <1>8 DEF Gone, TypeOK
<1>9. ASSUME NEW c \in Collectors, Close(c) PROVE HandleOwns'
  <2>1. DropLease(session[c]) /\ Gone(c) /\ leases' = leases \ {session[c]}
    BY <1>9 DEF Close, DropLease
  <2>2. ASSUME NEW d \in Collectors, NEW h \in Handle,
               Alive(d)', assigned'[d][h] # None
        PROVE  Owns(queue'[assigned'[d][h]], session'[d])
    <3>1. d # c /\ session'[d] = session[d] /\ assigned'[d][h] = assigned[d][h]
      BY <1>8, <2>1, <2>2
    <3>2. Alive(d) /\ session[d] # session[c]
      BY <2>1, <2>2, <3>1 DEF Alive
    <3> QED BY <2>1, <2>2, <3>1, <3>2, OthersSurviveLease
  <2> QED BY <2>2 DEF HandleOwns
<1>10. ASSUME NEW c \in Collectors, Crash(c) PROVE HandleOwns'
  <2>1. Gone(c) /\ UNCHANGED <<leases, queue>>
    BY <1>10 DEF Crash
  <2> QED BY <1>8, <2>1, HandleKept DEF Alive
<1>11. ASSUME NEW l \in Lease, LeaseExpires(l) PROVE HandleOwns'
  <2>1. DropLease(l) /\ leases' = leases \ {l} /\ UNCHANGED <<session, assigned>>
    BY <1>11 DEF LeaseExpires, DropLease
  <2>2. ASSUME NEW d \in Collectors, Alive(d)' PROVE Alive(d) /\ session[d] # l
    BY <2>1, <2>2 DEF Alive
  <2> QED BY <2>1, <2>2, OthersSurviveLease DEF HandleOwns
<1>12. ASSUME NEW c \in Collectors,
              AcquireShard(c) \/ TryLockFails(c) \/ DropFails(c)
       PROVE  HandleOwns'
  <2>1. UNCHANGED <<queue, leases, session, assigned>>
    BY <1>12 DEF AcquireShard, TryLockFails, DropFails
  <2> QED BY <2>1, HandleKept DEF Alive
<1>13. CASE UNCHANGED vars
  BY <1>13, HandleKept DEF vars, Alive
<1> QED BY <1>1, <1>2, <1>3, <1>4, <1>5, <1>6, <1>7, <1>9, <1>10, <1>11, <1>12,
           <1>13 DEF Next

\* The inductive invariant.
IInv == TypeOK /\ LocalInv /\ HandleOwns

LEMMA Invariance == ASSUME SingleHandle PROVE Spec => []IInv
<1>1. Init => LocalInv /\ HandleOwns
  BY NoneAssumption DEF Init, LocalInv, SessionsDistinct, DownHoldsNothing,
                        RoomToTake, HandleOwns, Alive
<1>2. TypeOK /\ LocalInv /\ HandleOwns /\ [Next]_vars => LocalInv' /\ HandleOwns'
  BY LocalStep, HandleStep
<1> QED BY <1>1, <1>2, TypeCorrect, PTL DEF Spec, IInv

\* If a process keeps one assignment at a time, the shard it was assigned is
\* locked by its session for as long as the session lives: neither the losers
\* of TryLock that delete their keys nor expiring leases take it away.
THEOREM HoldersOwnLocks == ASSUME SingleHandle PROVE Spec => []HolderOwnsLock
<1>1. IInv => HolderOwnsLock
  BY HolderByHandle DEF IInv
<1> QED BY <1>1, Invariance, PTL

\* Under the same assumption no meter is collected by two processes that have
\* live sessions and equal flags, for any number of meters and shards.
THEOREM MetersExclusive == ASSUME SingleHandle PROVE Spec => []MeterExclusion
<1>1. IInv => MeterExclusion
  <2> SUFFICES ASSUME IInv, NEW c \in Collectors, NEW d \in Collectors,
                      c # d, flags[c] = flags[d], Alive(c), Alive(d),
                      NEW s \in Believes(c), NEW t \in Believes(d)
               PROVE  MetersOf(flags[c], s) \cap MetersOf(flags[d], t) = {}
    BY DEF MeterExclusion
  <2>1. s \in OwnedBy(c) /\ t \in OwnedBy(d)
    BY HolderByHandle DEF IInv, HolderOwnsLock
  <2>2. session[c] # session[d]
    BY NoneAssumption DEF IInv, LocalInv, SessionsDistinct, Alive, TypeOK
  <2>3. s # t
    BY <2>1, <2>2 DEF OwnedBy, Owns
  <2>4. s \in Nat /\ t \in Nat /\ flags[c] \in Flags
    BY <2>1, ShardAssumption DEF OwnedBy, IInv, TypeOK
  <2> QED BY <2>3, <2>4, ShardsDisjoint
<1> QED BY <1>1, Invariance, PTL

-----------------------------------------------------------------------------
(* The coordinator implements ShardOwnership *)

LEMMA OwnersMember ==
    ASSUME NEW s \in Shard, NEW d
    PROVE  d \in Owners[s] <=> /\ d \in Collectors /\ Alive(d)
                               /\ \E h \in Handle : assigned[d][h] = s
  BY NoneAssumption DEF Owners, Believes

\* A step after which only c may own fewer shards is Relinquish.
LEMMA OnlyLoses ==
    ASSUME NEW c \in Collectors,
           \A s \in Shard : \A d : d # c => (d \in Owners'[s] <=> d \in Owners[s]),
           \A s \in Shard : c \in Owners'[s] => c \in Owners[s]
    PROVE  Ownership!Next
<1> DEFINE S == {s \in Shard : c \notin Owners'[s]}
<1>1. Owners' = [s \in Shard |-> IF s \in S THEN Owners[s] \ {c} ELSE Owners[s]]
  <2>1. Owners' = [s \in Shard |-> Owners'[s]]
    BY DEF Owners
  <2>2. ASSUME NEW s \in Shard
        PROVE  Owners'[s] = IF s \in S THEN Owners[s] \ {c} ELSE Owners[s]
    <3>1. CASE c \in Owners'[s]
      <4>1. \A d : d \in Owners'[s] <=> d \in Owners[s]
        BY <3>1
      <4>2. Owners'[s] = Owners[s]
        BY <4>1
      <4> QED BY <3>1, <4>2
    <3>2. CASE c \notin Owners'[s]
      <4>1. \A d : d \in Owners'[s] <=> d \in Owners[s] \ {c}
        BY <3>2
      <4>2. Owners'[s] = Owners[s] \ {c}
        BY <4>1
      <4> QED BY <3>2, <4>2
    <3> QED BY <3>1, <3>2
  <2> HIDE DEF S
  <2> QED BY <2>1, <2>2, Zenon
<1>2. Ownership!Relinquish(c, S)
  BY <1>1 DEF Ownership!Relinquish
<1> QED BY <1>2 DEF Ownership!Next

\* A step that leaves sessions, their leases and assignments alone.
LEMMA OwnersKept ==
    ASSUME UNCHANGED assigned,
           \A d \in Collectors : session'[d] \in leases' <=> session[d] \in leases
    PROVE  UNCHANGED Owners
  BY DEF Owners, Alive, Believes

LEMMA OwnershipStep ==
    ASSUME SingleHandle, IInv, IInv', [Next]_vars
    PROVE  [Ownership!Next]_Owners
<1> USE DEF IInv, etcd, client
<1>1. ASSUME NEW c \in Collectors, NewCoordinator(c) PROVE [Ownership!Next]_Owners
  <2>1. PICK l \in Fresh : /\ leases' = leases \cup {l}
                           /\ session' = [session EXCEPT ![c] = l]
    BY <1>1 DEF NewCoordinator
  <2>2. UNCHANGED assigned /\ \A h \in Handle : assigned[c][h] = None
    BY <1>1 DEF NewCoordinator, LocalInv, DownHoldsNothing
  <2>3. \A d \in Collectors : d # c => (Alive(d)' <=> Alive(d))
    BY <2>1 DEF Alive, Fresh, TypeOK
  <2>4. \A s \in Shard : c \notin Owners'[s] /\ c \notin Owners[s]
    BY <2>2, NoneAssumption DEF Owners, Believes
  <2>5. \A s \in Shard : \A d : d # c => (d \in Owners'[s] <=> d \in Owners[s])
    BY <2>2, <2>3 DEF Owners, Believes
  <2> QED BY <2>4, <2>5, OnlyLoses
<1>2. ASSUME NEW c \in Collectors, TryLock(c) PROVE [Ownership!Next]_Owners
  <2> DEFINE s == cursor[c]
             q == Enqueued(queue[s], session[c])
  <2>1. s \in Shard /\ queue[s] \in Seq(Lease) /\ session[c] \in Lease
    BY <1>2, CursorIsShard DEF TryLock, Alive, TypeOK
  <2>2. UNCHANGED <<leases, session>>
    BY <1>2 DEF TryLock
  <2>3. CASE Takes(c, q)
    <3>1. PICK g \in Handle : assigned' = [assigned EXCEPT ![c][g] = s]
      BY <1>2, <2>3 DEF TryLock
    <3>2. \A h \in Handle : assigned[c][h] = None
      BY <1>2 DEF TryLock, LocalInv, RoomToTake, SingleHandle
    <3>3. Owners[s] = {}
      <4> SUFFICES ASSUME NEW d \in Owners[s] PROVE FALSE
        BY <2>1
      <4>1. /\ d \in Collectors /\ Alive(d)
            /\ \E h \in Handle : assigned[d][h] = s
        BY <2>1, OwnersMember
      <4>2. Owns(queue[s], session[d])
        BY <4>1, <2>1, NoneAssumption DEF HandleOwns
      <4>3. Owns(q, session[d])
        BY <4>2, <2>1, EnqueuedKeepsOwner
      <4>4. session[d] = session[c]
        BY <4>3, <2>3 DEF Takes, Owns
      <4>5. d = c
        BY <4>1, <4>4, <2>1, NoneAssumption DEF LocalInv, SessionsDistinct
      <4> QED BY <4>1, <4>5, <3>2, <2>1, NoneAssumption
    <3>4. Owners' = [Owners EXCEPT ![s] = {c}]
      <4>1. Owners' = [t \in Shard |-> Owners'[t]] /\ Owners = [t \in Shard |-> Owners[t]]
        BY DEF Owners
      <4>2. \A d \in Collectors, h \in Handle :
               assigned'[d][h] = IF d = c /\ h = g THEN s ELSE assigned[d][h]
        BY <3>1 DEF TypeOK
      <4>3. Alive(c) /\ \A d \in Collectors : Alive(d)' <=> Alive(d)
        BY <1>2, <2>2 DEF TryLock, Alive
      <4> HIDE DEF s, q
      <4>4. ASSUME NEW t \in Shard, t # s PROVE Owners'[t] = Owners[t]
        <5>1. \A d : d \in Owners'[t] <=> d \in Owners[t]
          <6>1. \A d : d \in Owners'[t] <=> /\ d \in Collectors /\ Alive(d)'
                                            /\ \E h \in Handle : assigned'[d][h] = t
            BY NoneAssumption DEF Owners, Believes
          <6> QED BY <4>2, <4>3, <4>4, <6>1, <3>2, OwnersMember, NoneAssumption
        <5> QED BY <5>1 DEF Owners
      <4>5. Owners'[s] = {c}
        <5>1. \A d : d \in Owners'[s] <=> /\ d \in Collectors /\ Alive(d)'
                                          /\ \E h \in Handle : assigned'[d][h] = s
          BY <2>1, NoneAssumption DEF Owners, Believes
        <5>2. \A d : d \in Owners'[s] <=> d = c
          BY <5>1, <4>2, <4>3, <3>3, <2>1, OwnersMember
        <5> QED BY <5>2
      <4> QED BY <4>1, <4>4, <4>5, <2>1
    <3>5. Ownership!Acquire(c, s)
      BY <3>3, <3>4 DEF Ownership!Acquire
    <3> QED BY <2>1, <3>5 DEF Ownership!Next
  <2>4. CASE ~Takes(c, q)
    <3>1. UNCHANGED assigned
      BY <1>2, <2>4 DEF TryLock
    <3> QED BY <2>2, <3>1, OwnersKept
  <2> QED BY <2>3, <2>4
<1>3. ASSUME NEW c \in Collectors, NEW g \in Handle,
             Release(c, g) \/ ReleaseFails(c, g)
      PROVE  [Ownership!Next]_Owners
  <2>1. UNCHANGED <<leases, session>> /\ assigned' = [assigned EXCEPT ![c][g] = None]
    BY <1>3 DEF Release, ReleaseFails
  <2>2. \A d \in Collectors, h \in Handle :
           assigned'[d][h] = IF d = c /\ h = g THEN None ELSE assigned[d][h]
    BY <2>1 DEF TypeOK
  <2>3. \A s \in Shard : \A d : d # c => (d \in Owners'[s] <=> d \in Owners[s])
    BY <2>1, <2>2 DEF Owners, Alive, Believes
  <2>4. \A s \in Shard : c \in Owners'[s] => c \in Owners[s]
    BY <2>1, <2>2 DEF Owners, Alive, Believes
  <2> QED BY <2>3, <2>4, OnlyLoses
<1>4. ASSUME NEW c \in Collectors, NEW g \in Handle,
             RegisterCollector(c, g) \/ RegisterFails(c, g)
      PROVE  [Ownership!Next]_Owners
  <2>1. PICK l \in Fresh : leases' = leases \cup {l}
    BY <1>4 DEF RegisterCollector, RegisterFails
  <2>2. UNCHANGED <<session, assigned>>
    BY <1>4 DEF RegisterCollector, RegisterFails
  <2> QED BY <2>1, <2>2, OwnersKept DEF Fresh
<1>5. ASSUME NEW c \in Collectors, Close(c) \/ Crash(c) PROVE [Ownership!Next]_Owners
  <2>1. Gone(c)
    BY <1>5 DEF Close, Crash
  <2>2. leases' = leases \/ leases' = leases \ {session[c]}
    BY <1>5 DEF Close, Crash, DropLease
  <2>3. \A d \in Collectors : /\ session'[d] = IF d = c THEN None ELSE session[d]
                              /\ d # c => assigned'[d] = assigned[d]
    BY <2>1 DEF Gone, TypeOK
  <2>4. \A d \in Collectors : d # c => (Alive(d)' <=> Alive(d))
    BY <2>2, <2>3, NoneAssumption DEF Alive, LocalInv, SessionsDistinct, TypeOK
  <2>5. \A s \in Shard : \A d : d # c => (d \in Owners'[s] <=> d \in Owners[s])
    BY <2>3, <2>4 DEF Owners, Believes
  <2>6. ~Alive(c)'
    BY <2>3, NoneAssumption DEF Alive, TypeOK
  <2>7. \A s \in Shard : c \notin Owners'[s]
    BY <2>6 DEF Owners
  <2> QED BY <2>5, <2>7, OnlyLoses
<1>6. ASSUME NEW l \in Lease, LeaseExpires(l) PROVE [Ownership!Next]_Owners
  <2>1. leases' = leases \ {l} /\ UNCHANGED <<session, assigned>>
    BY <1>6 DEF LeaseExpires, DropLease
  <2>2. CASE \E c \in Collectors : session[c] = l
    <3>1. PICK c \in Collectors : session[c] = l
      BY <2>2
    <3>2. \A d \in Collectors : d # c => (Alive(d)' <=> Alive(d))
      BY <2>1, <3>1, NoneAssumption DEF Alive, LocalInv, SessionsDistinct
    <3>3. \A s \in Shard : \A d : d # c => (d \in Owners'[s] <=> d \in Owners[s])
      BY <2>1, <3>2 DEF Owners, Believes
    <3>4. \A s \in Shard : c \notin Owners'[s]
      BY <2>1, <3>1 DEF Owners, Alive
    <3> QED BY <3>3, <3>4, OnlyLoses
  <2>3. CASE \A c \in Collectors : session[c] # l
    BY <2>1, <2>3, OwnersKept
  <2> QED BY <2>2, <2>3
<1>7. ASSUME NEW c \in Collectors,
             \/ AcquireShard(c) \/ TryLockFails(c) \/ TryLockReplyLost(c)
             \/ DropKey(c) \/ DropFails(c)
      PROVE  [Ownership!Next]_Owners
  <2>1. UNCHANGED <<leases, session, assigned>>
    BY <1>7 DEF AcquireShard, TryLockFails, TryLockReplyLost, DropKey, DropFails
  <2> QED BY <2>1, OwnersKept
<1>8. CASE UNCHANGED vars
  BY <1>8, OwnersKept DEF vars
<1> QED BY <1>1, <1>2, <1>3, <1>4, <1>5, <1>6, <1>7, <1>8 DEF Next

\* Every behaviour of the coordinator, seen through which live sessions believe
\* in which shards, is one of ShardOwnership: a shard gets an owner only while
\* it has none, whatever crashes, expires, fails or interleaves.
THEOREM Implementation == ASSUME SingleHandle PROVE Spec => ImplementsOwnership
<1>1. Init => Ownership!Init
  BY NoneAssumption DEF Init, Ownership!Init, Owners, Alive
<1>2. IInv /\ IInv' /\ [Next]_vars => [Ownership!Next]_Owners
  BY OwnershipStep
<1> QED BY <1>1, <1>2, Invariance, PTL DEF Spec, ImplementsOwnership, Ownership!Spec

-----------------------------------------------------------------------------
(* Keys *)

\* No key of a queue is there twice.
Unique(q) == \A i, j \in 1 .. Len(q) : q[i] = q[j] => i = j

\* Deleting a key deletes that key and no other.
LEMMA DequeuedKeys ==
    ASSUME NEW S, NEW q \in Seq(S), Unique(q), NEW l
    PROVE  /\ Unique(Dequeued(q, l))
           /\ \A k : Contains(Dequeued(q, l), k) <=> Contains(q, k) /\ k # l
<1>1. CASE ~ \E i \in 1 .. Len(q) : q[i] = l
  BY <1>1 DEF Dequeued, RemoveFirst, Contains
<1>2. CASE \E i \in 1 .. Len(q) : q[i] = l
  <2> DEFINE I == {i \in 1 .. Len(q) : q[i] = l}
             i == Min(I)
             a == SubSeq(q, 1, i - 1)
             b == SubSeq(q, i + 1, Len(q))
  <2>1. I # {} /\ I \in SUBSET Nat /\ Len(q) \in Nat
    BY <1>2
  <2>2. i \in 1 .. Len(q) /\ q[i] = l
    BY <2>1, MinIsMember
  <2>3. Dequeued(q, l) = a \o b
    BY <1>2, <2>1 DEF Dequeued, RemoveFirst, RemoveAt, SelectInSeq
  <2> HIDE DEF I, i
  <2>4. a \in Seq(S) /\ Len(a) = i - 1 /\ \A j \in 1 .. i - 1 : a[j] = q[j]
    <3>1. \A j \in 1 .. i - 1 : q[j] \in S
      BY <2>1, <2>2
    <3> QED BY <2>2, <3>1, SubSeqProperties
  <2>5. /\ b \in Seq(S) /\ Len(b) = Len(q) - i
        /\ \A j \in 1 .. Len(q) - i : b[j] = q[i + j]
    <3>1. \A j \in i + 1 .. Len(q) : q[j] \in S
      BY <2>1, <2>2
    <3>2. b \in Seq(S) /\ Len(b) = Len(q) - i
      BY <2>1, <2>2, <3>1, SubSeqProperties
    <3>3. ASSUME NEW j \in 1 .. Len(q) - i PROVE b[j] = q[i + j]
      <4>1. b[j] = q[i + 1 + j - 1]
        BY <2>1, <2>2, <3>1, SubSeqProperties
      <4>2. i + 1 + j - 1 = i + j
        BY <2>1, <2>2
      <4> QED BY <4>1, <4>2
    <3> QED BY <3>2, <3>3
  <2> HIDE DEF a, b
  <2> DEFINE r == a \o b
             at(j) == IF j < i THEN j ELSE j + 1
  <2>6. Len(r) = Len(q) - 1 /\ \A j \in 1 .. Len(r) : r[j] = q[at(j)]
    <3>1. /\ Len(r) = Len(a) + Len(b)
          /\ \A j \in 1 .. Len(a) + Len(b) :
                r[j] = IF j <= Len(a) THEN a[j] ELSE b[j - Len(a)]
      BY <2>4, <2>5, ConcatProperties
    <3>2. ASSUME NEW j \in 1 .. Len(q) - 1 PROVE r[j] = q[at(j)]
      <4>1. CASE j < i
        BY <2>1, <2>2, <2>4, <2>5, <3>1, <4>1
      <4>2. CASE i <= j
        <5>1. r[j] = b[j - (i - 1)] /\ j - (i - 1) \in 1 .. Len(q) - i
          BY <2>1, <2>2, <2>4, <2>5, <3>1, <4>2
        <5>2. i + (j - (i - 1)) = j + 1
          BY <2>1, <2>2
        <5> QED BY <2>1, <2>2, <2>5, <4>2, <5>1, <5>2
      <4>3. j < i \/ i <= j
        BY <2>1, <2>2
      <4> QED BY <4>1, <4>2, <4>3
    <3> QED BY <2>1, <2>2, <2>4, <2>5, <3>1, <3>2
  <2> HIDE DEF r
  <2>7. \A j \in 1 .. Len(r) : at(j) \in 1 .. Len(q) /\ at(j) # i
    BY <2>1, <2>2, <2>6
  <2>8. \A j, k \in 1 .. Len(r) : at(j) = at(k) => j = k
    BY <2>1, <2>2, <2>6
  <2>9. \A n \in 1 .. Len(q) : n # i => \E j \in 1 .. Len(r) : at(j) = n
    <3> SUFFICES ASSUME NEW n \in 1 .. Len(q), n # i
                 PROVE  \E j \in 1 .. Len(r) : at(j) = n
      OBVIOUS
    <3>1. CASE n < i
      <4>1. n \in 1 .. Len(r) /\ at(n) = n
        BY <2>1, <2>2, <2>6, <3>1
      <4> QED BY <4>1
    <3>2. CASE i < n
      <4>1. n - 1 \in 1 .. Len(r) /\ at(n - 1) = n
        BY <2>1, <2>2, <2>6, <3>2
      <4> QED BY <4>1
    <3> QED BY <2>1, <2>2, <3>1, <3>2
  <2> HIDE DEF at
  <2>10. Unique(r)
    BY <2>6, <2>7, <2>8 DEF Unique
  <2>11. ASSUME NEW k PROVE Contains(r, k) <=> Contains(q, k) /\ k # l
    <3>1. Contains(r, k) => Contains(q, k) /\ k # l
      BY <2>2, <2>6, <2>7 DEF Contains, Unique
    <3>2. Contains(q, k) /\ k # l => Contains(r, k)
      BY <2>2, <2>6, <2>9 DEF Contains
    <3> QED BY <3>1, <3>2
  <2> QED BY <2>3, <2>10, <2>11 DEF r
<1> QED BY <1>1, <1>2

\* Adding a key adds that key, once.
LEMMA EnqueuedKeys ==
    ASSUME NEW S, NEW q \in Seq(S), Unique(q), NEW l \in S
    PROVE  /\ Unique(Enqueued(q, l))
           /\ \A k : Contains(Enqueued(q, l), k) <=> Contains(q, k) \/ k = l
<1>1. CASE Contains(q, l)
  BY <1>1 DEF Enqueued
<1>2. CASE ~Contains(q, l)
  <2> DEFINE r == Append(q, l)
  <2>1. Enqueued(q, l) = r
    BY <1>2 DEF Enqueued
  <2>2. /\ Len(r) = Len(q) + 1 /\ Len(q) \in Nat
        /\ \A i \in 1 .. Len(q) : r[i] = q[i]
        /\ r[Len(q) + 1] = l
    BY AppendProperties
  <2> HIDE DEF r
  <2>3. Unique(r)
    BY <1>2, <2>2 DEF Unique, Contains
  <2>4. ASSUME NEW k PROVE Contains(r, k) <=> Contains(q, k) \/ k = l
    <3>1. Contains(r, k) => Contains(q, k) \/ k = l
      BY <2>2 DEF Contains
    <3>2. Contains(q, k) => Contains(r, k)
      BY <2>2 DEF Contains
    <3>3. Contains(r, l)
      <4>1. Len(q) + 1 \in 1 .. Len(r)
        BY <2>2
      <4> QED BY <2>2, <4>1 DEF Contains
    <3> QED BY <3>1, <3>2, <3>3
  <2> QED BY <2>1, <2>3, <2>4
<1> QED BY <1>1, <1>2

KeysOnce == \A s \in Shard : Unique(queue[s])

\* A key hangs on a living lease, so a new session finds no key of its own.
KeysLive == \A s \in Shard : \A k : Contains(queue[s], k) => k \in leases

\* Without faults, the loop of AcquireShard leaves no key behind: of the shards
\* it is past, the session has none.
PassedAt(c) ==
    faults = 0 /\ Alive(c) /\ pc[c] \in {"try", "drop"} =>
        \A s \in Shard : s < cursor[c] => ~Contains(queue[s], session[c])

PassedShards == \A c \in Collectors : PassedAt(c)

KeyInv == KeysOnce /\ KeysLive /\ PassedShards

\* What the three changes of the queues do to their keys.
LEMMA KeyAdded ==
    ASSUME TypeOK, KeysOnce, NEW l \in Lease, NEW s \in Shard,
           queue' = [queue EXCEPT ![s] = Enqueued(@, l)]
    PROVE  /\ KeysOnce'
           /\ \A t \in Shard : \A k :
                 Contains(queue'[t], k) <=> Contains(queue[t], k) \/ (t = s /\ k = l)
<1> SUFFICES ASSUME NEW t \in Shard
             PROVE  /\ Unique(queue'[t])
                    /\ \A k : Contains(queue'[t], k) <=>
                                 Contains(queue[t], k) \/ (t = s /\ k = l)
  BY DEF KeysOnce
<1>1. queue[t] \in Seq(Lease) /\ Unique(queue[t])
  BY DEF TypeOK, KeysOnce
<1>2. CASE t = s
  <2>1. queue'[t] = Enqueued(queue[t], l)
    BY <1>2 DEF TypeOK
  <2> QED BY <1>1, <1>2, <2>1, EnqueuedKeys
<1>3. CASE t # s
  BY <1>1, <1>3 DEF TypeOK
<1> QED BY <1>2, <1>3

LEMMA KeyDeleted ==
    ASSUME TypeOK, KeysOnce, NEW l, NEW s \in Shard,
           queue' = [queue EXCEPT ![s] = Dequeued(@, l)]
    PROVE  /\ KeysOnce'
           /\ \A t \in Shard : \A k :
                 Contains(queue'[t], k) <=> Contains(queue[t], k) /\ ~(t = s /\ k = l)
<1> SUFFICES ASSUME NEW t \in Shard
             PROVE  /\ Unique(queue'[t])
                    /\ \A k : Contains(queue'[t], k) <=>
                                 Contains(queue[t], k) /\ ~(t = s /\ k = l)
  BY DEF KeysOnce
<1>1. queue[t] \in Seq(Lease) /\ Unique(queue[t])
  BY DEF TypeOK, KeysOnce
<1>2. CASE t = s
  <2>1. queue'[t] = Dequeued(queue[t], l)
    BY <1>2 DEF TypeOK
  <2> QED BY <1>1, <1>2, <2>1, DequeuedKeys
<1>3. CASE t # s
  BY <1>1, <1>3 DEF TypeOK
<1> QED BY <1>2, <1>3

LEMMA KeysDropped ==
    ASSUME TypeOK, KeysOnce, NEW l, DropLease(l)
    PROVE  /\ KeysOnce'
           /\ \A t \in Shard : \A k :
                 Contains(queue'[t], k) <=> Contains(queue[t], k) /\ k # l
<1> SUFFICES ASSUME NEW t \in Shard
             PROVE  /\ Unique(queue'[t])
                    /\ \A k : Contains(queue'[t], k) <=> Contains(queue[t], k) /\ k # l
  BY DEF KeysOnce
<1>1. queue[t] \in Seq(Lease) /\ Unique(queue[t])
  BY DEF TypeOK, KeysOnce
<1>2. queue'[t] = Dequeued(queue[t], l)
  BY DEF DropLease
<1> QED BY <1>1, <1>2, DequeuedKeys

\* Two processes with sessions have different ones.
LEMMA OtherSession ==
    ASSUME TypeOK, LocalInv, NEW c \in Collectors, NEW d \in Collectors, d # c,
           session[d] \in Lease
    PROVE  session[d] # session[c]
  BY NoneAssumption DEF LocalInv, SessionsDistinct

\* A step that moves neither the loop of d nor its session and adds no key of it.
LEMMA StillPassed ==
    ASSUME TypeOK, NEW d \in Collectors, PassedAt(d),
           faults' = 0 => faults = 0,
           Alive(d)' => Alive(d) /\ session'[d] = session[d],
           pc'[d] \in {"try", "drop"} =>
               pc[d] \in {"try", "drop"} /\ cursor'[d] = cursor[d],
           \A t \in Shard :
               Contains(queue'[t], session[d]) => Contains(queue[t], session[d])
    PROVE  PassedAt(d)'
  BY DEF PassedAt

\* The loop of c goes on, and its session has no key in the shard it leaves.
LEMMA PassedOneMore ==
    ASSUME TypeOK, NEW c \in Collectors, PassedAt(c), Continue(c),
           pc[c] \in {"try", "drop"}, faults' = 0 => faults = 0,
           UNCHANGED <<session, leases>>,
           \A t \in Shard : t # cursor[c] =>
               (Contains(queue'[t], session[c]) => Contains(queue[t], session[c])),
           faults' = 0 /\ Alive(c) => ~Contains(queue'[cursor[c]], session[c])
    PROVE  PassedAt(c)'
<1>1. cursor[c] \in Nat
  BY DEF TypeOK
<1>2. ASSUME NEW t \in Shard PROVE t < cursor[c] + 1 => t < cursor[c] \/ t = cursor[c]
  <2>1. t \in Nat
    BY ShardAssumption
  <2> QED BY <1>1, <2>1
<1>3. pc'[c] \in {"try", "drop"} => cursor'[c] = cursor[c] + 1
  BY DEF Continue, TypeOK
<1>4. \A t \in Shard : t < cursor[c] => t # cursor[c]
  BY ShardAssumption, <1>1
<1> SUFFICES ASSUME faults' = 0, Alive(c)', pc'[c] \in {"try", "drop"},
                    NEW t \in Shard, t < cursor'[c]
             PROVE  ~Contains(queue'[t], session'[c])
  BY DEF PassedAt
<1>5. Alive(c) /\ \A u \in Shard : u < cursor[c] => ~Contains(queue[u], session[c])
  BY DEF PassedAt, Alive
<1>6. t < cursor[c] \/ t = cursor[c]
  BY <1>2, <1>3
<1> QED BY <1>4, <1>5, <1>6

LEMMA ContinueOthers ==
    ASSUME TypeOK, NEW c \in Collectors, Continue(c), NEW d \in Collectors, d # c
    PROVE  pc'[d] = pc[d] /\ cursor'[d] = cursor[d]
  BY DEF Continue, TypeOK

LEMMA KeyStep == TypeOK /\ LocalInv /\ KeyInv /\ [Next]_vars => KeyInv'
<1> SUFFICES ASSUME TypeOK, LocalInv, KeyInv, [Next]_vars PROVE KeyInv'
  OBVIOUS
<1> USE DEF KeyInv, etcd, client
<1>1. \A d \in Collectors : PassedAt(d)
  BY DEF PassedShards
<1>2. ASSUME Fault PROVE PassedShards'
  <2>1. faults' # 0
    BY <1>2 DEF Fault, TypeOK
  <2> QED BY <2>1 DEF PassedShards, PassedAt
<1>3. ASSUME NEW c \in Collectors, NewCoordinator(c) PROVE KeyInv'
  <2>1. PICK l \in Fresh : /\ leases' = leases \cup {l}
                           /\ session' = [session EXCEPT ![c] = l]
    BY <1>3 DEF NewCoordinator
  <2>2. UNCHANGED <<queue, cursor, faults>> /\ pc' = [pc EXCEPT ![c] = "idle"]
    BY <1>3 DEF NewCoordinator
  <2>3. ASSUME NEW d \in Collectors PROVE PassedAt(d)'
    <3>1. CASE d = c
      BY <2>2, <3>1 DEF PassedAt, TypeOK
    <3>2. CASE d # c
      <4>1. Alive(d)' => Alive(d) /\ session'[d] = session[d]
        BY <2>1, <3>2 DEF Alive, Fresh, TypeOK
      <4>2. pc'[d] = pc[d]
        BY <2>2, <3>2 DEF TypeOK
      <4> QED BY <1>1, <2>2, <4>1, <4>2, StillPassed
    <3> QED BY <3>1, <3>2
  <2> QED BY <2>1, <2>2, <2>3 DEF KeysOnce, KeysLive, PassedShards
<1>4. ASSUME NEW c \in Collectors, AcquireShard(c) PROVE KeyInv'
  <2>1. /\ UNCHANGED <<queue, leases, session, faults>>
        /\ pc' = [pc EXCEPT ![c] = "try"] /\ cursor' = [cursor EXCEPT ![c] = 0]
    BY <1>4 DEF AcquireShard, FirstShard
  <2>2. ASSUME NEW d \in Collectors PROVE PassedAt(d)'
    <3>1. CASE d = c
      <4>1. cursor'[d] = 0
        BY <2>1, <3>1 DEF TypeOK
      <4>2. \A t \in Shard : ~(t < 0)
        BY ShardAssumption
      <4> QED BY <4>1, <4>2 DEF PassedAt
    <3>2. CASE d # c
      <4>1. pc'[d] = pc[d] /\ cursor'[d] = cursor[d]
        BY <2>1, <3>2 DEF TypeOK
      <4> QED BY <1>1, <2>1, <4>1, StillPassed DEF Alive
    <3> QED BY <3>1, <3>2
  <2> QED BY <2>1, <2>2 DEF KeysOnce, KeysLive, PassedShards
<1>5. ASSUME NEW c \in Collectors, NEW s \in Shard, Alive(c),
             queue' = [queue EXCEPT ![s] = Enqueued(@, session[c])],
             UNCHANGED <<leases, session>>
      PROVE  /\ KeysOnce' /\ KeysLive'
             /\ \A t \in Shard : t # s =>
                   (Contains(queue'[t], session[c]) => Contains(queue[t], session[c]))
             /\ \A d \in Collectors : d # c /\ Alive(d) =>
                   \A t \in Shard : Contains(queue'[t], session[d])
                                       => Contains(queue[t], session[d])
  <2>1. session[c] \in leases /\ session[c] \in Lease
    BY <1>5 DEF Alive, TypeOK
  <2>2. /\ KeysOnce'
        /\ \A t \in Shard : \A k :
              Contains(queue'[t], k) <=>
                 Contains(queue[t], k) \/ (t = s /\ k = session[c])
    BY <1>5, <2>1, KeyAdded
  <2>3. KeysLive'
    BY <1>5, <2>1, <2>2 DEF KeysLive
  <2>4. \A d \in Collectors : d # c /\ Alive(d) => session[d] # session[c]
    BY OtherSession DEF Alive, TypeOK
  <2> QED BY <2>2, <2>3, <2>4
<1>6. ASSUME NEW c \in Collectors, TryLock(c) PROVE KeyInv'
  <2> DEFINE q == Enqueued(queue[cursor[c]], session[c])
  <2>1. /\ Alive(c) /\ cursor[c] \in Shard /\ pc[c] = "try"
        /\ queue' = [queue EXCEPT ![cursor[c]] = q]
        /\ UNCHANGED <<leases, session, faults>>
    BY <1>6, CursorIsShard DEF TryLock
  <2>2. /\ KeysOnce' /\ KeysLive'
        /\ \A t \in Shard : t # cursor[c] =>
              (Contains(queue'[t], session[c]) => Contains(queue[t], session[c]))
        /\ \A d \in Collectors : d # c /\ Alive(d) =>
              \A t \in Shard : Contains(queue'[t], session[d])
                                  => Contains(queue[t], session[d])
    BY <1>5, <2>1
  <2>3. \/ pc' = [pc EXCEPT ![c] = "idle"] /\ cursor' = [cursor EXCEPT ![c] = 0]
        \/ pc' = [pc EXCEPT ![c] = "drop"] /\ UNCHANGED cursor
    BY <1>6 DEF TryLock
  <2> HIDE DEF q
  <2>4. ASSUME NEW d \in Collectors PROVE PassedAt(d)'
    <3>1. CASE d = c
      <4>1. \A t \in Shard : t < cursor[c] => t # cursor[c]
        BY ShardAssumption DEF TypeOK
      <4>2. pc'[c] = "idle" \/ cursor'[c] = cursor[c]
        BY <2>3 DEF TypeOK
      <4> QED BY <1>1, <2>1, <2>2, <3>1, <4>1, <4>2 DEF PassedAt, Alive
    <3>2. CASE d # c
      <4>1. pc'[d] = pc[d] /\ cursor'[d] = cursor[d]
        BY <2>3, <3>2 DEF TypeOK
      <4>2. Alive(d)' => Alive(d)
        BY <2>1 DEF Alive
      <4> QED BY <1>1, <2>1, <2>2, <3>2, <4>1, <4>2 DEF PassedAt, Alive
    <3> QED BY <3>1, <3>2
  <2> QED BY <2>2, <2>4 DEF PassedShards
<1>7. ASSUME NEW c \in Collectors, TryLockFails(c) PROVE KeyInv'
  <2>1. /\ UNCHANGED <<queue, leases, session>> /\ Continue(c) /\ pc[c] = "try"
        /\ IF Alive(c) THEN Fault ELSE UNCHANGED faults
    BY <1>7 DEF TryLockFails
  <2>2. ASSUME NEW d \in Collectors, ~Alive(c), UNCHANGED faults PROVE PassedAt(d)'
    <3>1. CASE d = c
      BY <2>1, <2>2, <3>1 DEF PassedAt, Alive
    <3>2. CASE d # c
      <4>1. pc'[d] = pc[d] /\ cursor'[d] = cursor[d]
        BY <2>1, <3>2, ContinueOthers
      <4> QED BY <1>1, <2>1, <2>2, <4>1, StillPassed DEF Alive
    <3> QED BY <3>1, <3>2
  <2>3. PassedShards'
    BY <1>2, <2>1, <2>2 DEF PassedShards
  <2> QED BY <2>1, <2>3 DEF KeysOnce, KeysLive
<1>8. ASSUME NEW c \in Collectors, TryLockReplyLost(c) PROVE KeyInv'
  <2>1. /\ Alive(c) /\ cursor[c] \in Shard /\ Fault
        /\ queue' = [queue EXCEPT ![cursor[c]] = Enqueued(@, session[c])]
        /\ UNCHANGED <<leases, session>>
    BY <1>8, CursorIsShard DEF TryLockReplyLost
  <2> QED BY <1>2, <1>5, <2>1
<1>9. ASSUME NEW c \in Collectors, DropKey(c) PROVE KeyInv'
  <2>1. /\ cursor[c] \in Shard /\ pc[c] = "drop" /\ Continue(c)
        /\ queue' = [queue EXCEPT ![cursor[c]] = Dequeued(@, session[c])]
        /\ UNCHANGED <<leases, session, faults>>
    BY <1>9, CursorIsShard DEF DropKey
  <2>2. /\ KeysOnce'
        /\ \A t \in Shard : \A k :
              Contains(queue'[t], k) <=>
                 Contains(queue[t], k) /\ ~(t = cursor[c] /\ k = session[c])
    BY <2>1, KeyDeleted
  <2>3. ASSUME NEW d \in Collectors PROVE PassedAt(d)'
    <3>1. CASE d = c
      BY <1>1, <2>1, <2>2, <3>1, PassedOneMore
    <3>2. CASE d # c
      <4>1. pc'[d] = pc[d] /\ cursor'[d] = cursor[d]
        BY <2>1, <3>2, ContinueOthers
      <4> QED BY <1>1, <2>1, <2>2, <4>1, StillPassed DEF Alive
    <3> QED BY <3>1, <3>2
  <2> QED BY <2>1, <2>2, <2>3 DEF KeysLive, PassedShards
<1>10. ASSUME NEW c \in Collectors, DropFails(c) \/ Crash(c) PROVE KeyInv'
  <2>1. Fault /\ UNCHANGED <<queue, leases>>
    BY <1>10 DEF DropFails, Crash
  <2> QED BY <1>2, <2>1 DEF KeysOnce, KeysLive
<1>11. ASSUME NEW c \in Collectors, NEW h \in Handle, Release(c, h) PROVE KeyInv'
  <2>1. /\ assigned[c][h] \in Shard
        /\ queue' = [queue EXCEPT ![assigned[c][h]] = Dequeued(@, session[c])]
        /\ UNCHANGED <<leases, session, faults, pc, cursor>>
    BY <1>11 DEF Release, TypeOK
  <2>2. /\ KeysOnce'
        /\ \A t \in Shard : \A k : Contains(queue'[t], k) => Contains(queue[t], k)
    BY <2>1, KeyDeleted
  <2>3. ASSUME NEW d \in Collectors PROVE PassedAt(d)'
    BY <1>1, <2>1, <2>2, StillPassed DEF Alive
  <2> QED BY <2>1, <2>2, <2>3 DEF KeysLive, PassedShards
<1>12. ASSUME NEW c \in Collectors, NEW h \in Handle, ReleaseFails(c, h) PROVE KeyInv'
  <2>1. Fault /\ UNCHANGED <<queue, leases>>
    BY <1>12 DEF ReleaseFails
  <2> QED BY <1>2, <2>1 DEF KeysOnce, KeysLive
<1>13. ASSUME NEW c \in Collectors, NEW h \in Handle,
              RegisterCollector(c, h) \/ RegisterFails(c, h)
       PROVE  KeyInv'
  <2>1. PICK l \in Fresh : leases' = leases \cup {l}
    BY <1>13 DEF RegisterCollector, RegisterFails
  <2>2. UNCHANGED <<queue, session, pc, cursor>>
    BY <1>13 DEF RegisterCollector, RegisterFails
  <2>3. faults' = 0 => faults = 0
    BY <1>13 DEF RegisterCollector, RegisterFails, Fault, TypeOK
  <2>4. ASSUME NEW d \in Collectors PROVE PassedAt(d)'
    <3>1. Alive(d)' => Alive(d)
      BY <2>1, <2>2 DEF Alive, Fresh
    <3> QED BY <1>1, <2>2, <2>3, <3>1, StillPassed
  <2> QED BY <2>1, <2>2, <2>4 DEF KeysOnce, KeysLive, PassedShards
<1>14. ASSUME NEW l, DropLease(l), faults' = 0 => faults = 0,
              \A d \in Collectors : pc'[d] = "down" \/
                  (pc'[d] = pc[d] /\ cursor'[d] = cursor[d] /\ session'[d] = session[d])
       PROVE  KeyInv'
  <2>1. /\ KeysOnce' /\ leases' = leases \ {l}
        /\ \A t \in Shard : \A k :
              Contains(queue'[t], k) <=> Contains(queue[t], k) /\ k # l
    BY <1>14, KeysDropped DEF DropLease
  <2>2. ASSUME NEW d \in Collectors PROVE PassedAt(d)'
    <3>1. CASE pc'[d] = "down"
      BY <3>1 DEF PassedAt
    <3>2. CASE pc'[d] # "down"
      <4>1. Alive(d)' => Alive(d)
        BY <1>14, <2>1, <3>2 DEF Alive
      <4> QED BY <1>1, <1>14, <2>1, <3>2, <4>1, StillPassed
    <3> QED BY <3>1, <3>2
  <2> QED BY <2>1, <2>2 DEF KeysLive, PassedShards
<1>15. ASSUME NEW c \in Collectors, Close(c) PROVE KeyInv'
  <2>1. DropLease(session[c]) /\ UNCHANGED faults /\ Gone(c)
    BY <1>15 DEF Close
  <2>2. \A d \in Collectors : pc'[d] = "down" \/
           (pc'[d] = pc[d] /\ cursor'[d] = cursor[d] /\ session'[d] = session[d])
    BY <2>1 DEF Gone, TypeOK
  <2> QED BY <1>14, <2>1, <2>2
<1>16. ASSUME NEW l \in Lease, LeaseExpires(l) PROVE KeyInv'
  <2>1. DropLease(l) /\ UNCHANGED <<pc, cursor, session>> /\ (faults' = 0 => faults = 0)
    BY <1>16 DEF LeaseExpires, Fault, TypeOK
  <2> QED BY <1>14, <2>1
<1>17. CASE UNCHANGED vars
  BY <1>17 DEF vars, KeysOnce, KeysLive, PassedShards, PassedAt, Alive
<1> QED BY <1>3, <1>4, <1>6, <1>7, <1>8, <1>9, <1>10, <1>11, <1>12, <1>13, <1>15,
           <1>16, <1>17 DEF Next

LEMMA KeyInvariance == Spec => [](TypeOK /\ LocalInv /\ KeyInv)
<1>1. Init => LocalInv /\ KeyInv
  <2> SUFFICES ASSUME Init PROVE LocalInv /\ KeyInv
    OBVIOUS
  <2>1. LocalInv
    BY NoneAssumption DEF Init, LocalInv, SessionsDistinct, DownHoldsNothing, RoomToTake
  <2>2. \A s \in Shard : queue[s] = <<>>
    BY DEF Init
  <2>3. KeysOnce /\ KeysLive
    BY <2>2 DEF KeysOnce, KeysLive, Unique, Contains
  <2>4. PassedShards
    BY DEF Init, PassedShards, PassedAt
  <2> QED BY <2>1, <2>3, <2>4 DEF KeyInv
<1>2. TypeOK /\ LocalInv /\ KeyInv /\ [Next]_vars => LocalInv' /\ KeyInv'
  BY LocalStep, KeyStep
<1> QED BY <1>1, <1>2, TypeCorrect, PTL DEF Spec

\* Only TryLock makes a process believe in a shard it did not believe in: the
\* one its loop is at.
LEMMA NewBeliefs ==
    ASSUME TypeOK, [Next]_vars, NEW c \in Collectors,
           NEW s \in Believes(c)' \ Believes(c)
    PROVE  TryLock(c) /\ s = cursor[c]
<1> USE DEF etcd, client
<1>1. PICK h \in Handle : s = assigned'[c][h] /\ s # None
  BY DEF Believes
<1>2. \A g \in Handle : s # assigned[c][g]
  BY <1>1 DEF Believes
<1>3. assigned'[c] # assigned[c]
  BY <1>1, <1>2
<1>4. ASSUME NEW d \in Collectors, NEW g \in Handle, Release(d, g) \/ ReleaseFails(d, g)
      PROVE  FALSE
  <2>1. assigned' = [assigned EXCEPT ![d][g] = None]
    BY <1>4 DEF Release, ReleaseFails
  <2> QED BY <1>1, <1>2, <2>1 DEF TypeOK
<1>5. ASSUME NEW d \in Collectors, Close(d) \/ Crash(d) PROVE FALSE
  <2>1. Gone(d)
    BY <1>5 DEF Close, Crash
  <2> QED BY <1>1, <1>2, <2>1 DEF Gone, TypeOK
<1>6. ASSUME NEW d \in Collectors, TryLock(d) PROVE TryLock(c) /\ s = cursor[c]
  <2> DEFINE q == Enqueued(queue[cursor[d]], session[d])
  <2>1. Takes(d, q)
    BY <1>3, <1>6 DEF TryLock
  <2>2. PICK g \in Handle : assigned' = [assigned EXCEPT ![d][g] = cursor[d]]
    BY <1>6, <2>1 DEF TryLock
  <2> QED BY <1>1, <1>2, <1>6, <2>2 DEF TypeOK
<1>7. ASSUME UNCHANGED assigned PROVE FALSE
  BY <1>3, <1>7
<1>8. CASE \/ \E d \in Collectors :
                \/ NewCoordinator(d) \/ AcquireShard(d) \/ TryLockFails(d)
                \/ TryLockReplyLost(d) \/ DropKey(d) \/ DropFails(d)
                \/ \E g \in Handle : RegisterCollector(d, g) \/ RegisterFails(d, g)
           \/ \E l \in Lease : LeaseExpires(l)
  <2>1. UNCHANGED assigned
    BY <1>8 DEF NewCoordinator, AcquireShard, TryLockFails, TryLockReplyLost, DropKey,
                DropFails, RegisterCollector, RegisterFails, LeaseExpires
  <2> QED BY <1>7, <2>1
<1>9. CASE UNCHANGED vars
  BY <1>7, <1>9 DEF vars
<1> QED BY <1>4, <1>5, <1>6, <1>8, <1>9 DEF Next

\* A caller of AcquireShard that owns a lock already gets no shard above it as
\* long as nothing fails, however many assignments it holds and whatever the
\* others do meanwhile: what its loop is past, it has no key for.
THEOREM NeverClimbs == Spec => SecondCallNeverClimbs
<1> DEFINE Climb == \A c \in Collectors : faults' = 0 =>
                       \A s \in Believes(c)' \ Believes(c), t \in OwnedBy(c) : s <= t
<1>1. TypeOK /\ LocalInv /\ KeyInv /\ [Next]_vars => Climb
  <2> SUFFICES ASSUME TypeOK, KeyInv, [Next]_vars, NEW c \in Collectors, faults' = 0,
                      NEW s \in Believes(c)' \ Believes(c), NEW t \in OwnedBy(c)
               PROVE  s <= t
    OBVIOUS
  <2>1. TryLock(c) /\ s = cursor[c]
    BY NewBeliefs
  <2>2. faults = 0 /\ Alive(c) /\ pc[c] = "try" /\ s \in Nat
    BY <2>1 DEF TryLock, TypeOK
  <2>3. t \in Shard /\ Owns(queue[t], session[c]) /\ queue[t] \in Seq(Lease)
    BY DEF OwnedBy, TypeOK
  <2>4. Contains(queue[t], session[c])
    <3>1. 1 \in 1 .. Len(queue[t])
      BY <2>3 DEF Owns
    <3> QED BY <2>3, <3>1 DEF Owns, Contains
  <2>5. ~(t < cursor[c])
    BY <2>2, <2>3, <2>4 DEF KeyInv, PassedShards, PassedAt
  <2> QED BY <2>1, <2>2, <2>3, <2>5, ShardAssumption
<1>2. TypeOK /\ LocalInv /\ KeyInv /\ [Next]_vars => [Climb]_vars
  BY <1>1
<1> QED BY <1>2, KeyInvariance, PTL DEF Spec, SecondCallNeverClimbs

-----------------------------------------------------------------------------
(* Orphaned keys *)

Orphans == {k \in Collectors \X Shard : Orphaned(k[1], k[2])}

OrphanInv == IsFiniteSet(Orphans) /\ Cardinality(Orphans) <= faults

\* Steps that orphan no key, and steps that may orphan the key of c for shard s.
OrphansNone == \A d \in Collectors, t \in Shard : Orphaned(d, t)' => Orphaned(d, t)

OrphansOne(c, s) ==
    \A d \in Collectors, t \in Shard :
        Orphaned(d, t)' => Orphaned(d, t) \/ (d = c /\ t = s)

LEMMA NotOrphaned ==
    ASSUME NEW d \in Collectors, NEW t \in Shard,
           Alive(d)' => Alive(d) /\ session'[d] = session[d],
           Contains(queue'[t], session[d]) => Contains(queue[t], session[d]),
           t \in Believes(d) => t \in Believes(d)',
           pc[d] = "drop" /\ cursor[d] = t => pc'[d] = "drop" /\ cursor'[d] = t
    PROVE  Orphaned(d, t)' => Orphaned(d, t)
BY DEF Orphaned

LEMMA OrphansCounted ==
    ASSUME TypeOK, OrphanInv,
           \/ OrphansNone /\ (faults' = faults \/ faults' = faults + 1)
           \/ /\ faults' = faults + 1
              /\ \E c \in Collectors, s \in Shard : OrphansOne(c, s)
    PROVE  OrphanInv'
<1>1. faults \in Nat
  BY BoundAssumption DEF TypeOK
<1>2. CASE OrphansNone /\ (faults' = faults \/ faults' = faults + 1)
  <2>1. Orphans' \subseteq Orphans
    BY <1>2 DEF Orphans, OrphansNone
  <2>2. IsFiniteSet(Orphans') /\ Cardinality(Orphans') <= Cardinality(Orphans)
    BY <2>1, FS_Subset DEF OrphanInv
  <2>3. Cardinality(Orphans') \in Nat /\ Cardinality(Orphans) \in Nat
    BY <2>2, FS_CardinalityType DEF OrphanInv
  <2> QED BY <1>1, <1>2, <2>2, <2>3 DEF OrphanInv
<1>3. ASSUME NEW c \in Collectors, NEW s \in Shard, OrphansOne(c, s),
             faults' = faults + 1
      PROVE  OrphanInv'
  <2> DEFINE More == Orphans \cup {<<c, s>>}
  <2>1. Orphans' \subseteq More
    BY <1>3 DEF Orphans, OrphansOne
  <2>2. IsFiniteSet(More) /\ Cardinality(More) <= Cardinality(Orphans) + 1
    <3>1. IsFiniteSet(Orphans) /\ Cardinality(Orphans) \in Nat
      BY FS_CardinalityType DEF OrphanInv
    <3>2. /\ IsFiniteSet(More)
          /\ Cardinality(More) = IF <<c, s>> \in Orphans THEN Cardinality(Orphans)
                                 ELSE Cardinality(Orphans) + 1
      BY <3>1, FS_AddElement
    <3> HIDE DEF More
    <3> QED BY <3>1, <3>2
  <2> HIDE DEF More
  <2>3. IsFiniteSet(Orphans') /\ Cardinality(Orphans') <= Cardinality(More)
    BY <2>1, <2>2, FS_Subset
  <2>4. /\ Cardinality(Orphans') \in Nat /\ Cardinality(More) \in Nat
        /\ Cardinality(Orphans) \in Nat
    BY <2>2, <2>3, FS_CardinalityType DEF OrphanInv
  <2> QED BY <1>1, <1>3, <2>2, <2>3, <2>4 DEF OrphanInv
<1> QED BY <1>2, <1>3

\* The loop of c goes on: only the key for the shard it leaves may be orphaned.
LEMMA ContinueOrphansOne ==
    ASSUME TypeOK, LocalInv, NEW c \in Collectors, Continue(c),
           UNCHANGED <<leases, session, assigned>>,
           \A t \in Shard : \A k :
               Contains(queue'[t], k) => Contains(queue[t], k)
                                         \/ (t = cursor[c] /\ k = session[c])
    PROVE  OrphansOne(c, cursor[c])
<1> SUFFICES ASSUME NEW d \in Collectors, NEW t \in Shard,
                    ~(d = c /\ t = cursor[c]), Orphaned(d, t)'
             PROVE  Orphaned(d, t)
  BY DEF OrphansOne
<1>1. (Alive(d)' <=> Alive(d)) /\ Believes(d)' = Believes(d) /\ session'[d] = session[d]
  BY DEF Alive, Believes
<1>2. Alive(d) /\ session[d] \in Lease
  BY <1>1 DEF Orphaned, Alive, TypeOK
<1>3. CASE d = c
  BY <1>1, <1>3, NotOrphaned
<1>4. CASE d # c
  <2>1. pc'[d] = pc[d] /\ cursor'[d] = cursor[d]
    BY <1>4, ContinueOthers
  <2>2. session[d] # session[c]
    BY <1>2, <1>4, OtherSession
  <2> QED BY <1>1, <2>1, <2>2, NotOrphaned
<1> QED BY <1>3, <1>4

LEMMA OrphanStep ==
    ASSUME TypeOK, LocalInv, KeyInv, [Next]_vars
    PROVE  \/ OrphansNone /\ (faults' = faults \/ faults' = faults + 1)
           \/ /\ faults' = faults + 1
              /\ \E c \in Collectors, s \in Shard : OrphansOne(c, s)
<1> DEFINE Goal == \/ OrphansNone /\ (faults' = faults \/ faults' = faults + 1)
                   \/ /\ faults' = faults + 1
                      /\ \E c \in Collectors, s \in Shard : OrphansOne(c, s)
<1> USE DEF KeyInv, etcd, client
<1>1. ASSUME NEW c \in Collectors, NewCoordinator(c) PROVE Goal
  <2>1. PICK l \in Fresh : /\ leases' = leases \cup {l}
                           /\ session' = [session EXCEPT ![c] = l]
    BY <1>1 DEF NewCoordinator
  <2>2. /\ UNCHANGED <<queue, cursor, faults, assigned>>
        /\ pc' = [pc EXCEPT ![c] = "idle"] /\ pc[c] = "down"
    BY <1>1 DEF NewCoordinator
  <2>3. ASSUME NEW d \in Collectors, NEW t \in Shard, Orphaned(d, t)'
        PROVE  Orphaned(d, t)
    <3>1. CASE d = c
      <4>1. Contains(queue[t], l)
        BY <2>1, <2>2, <2>3, <3>1 DEF Orphaned, TypeOK
      <4> QED BY <4>1 DEF KeysLive, Fresh
    <3>2. CASE d # c
      <4>1. Alive(d)' => Alive(d) /\ session'[d] = session[d]
        BY <2>1, <3>2 DEF Alive, Fresh, TypeOK
      <4>2. pc'[d] = pc[d] /\ Believes(d)' = Believes(d)
        BY <2>2, <3>2 DEF TypeOK, Believes
      <4> QED BY <2>2, <2>3, <4>1, <4>2, NotOrphaned
    <3> QED BY <3>1, <3>2
  <2> QED BY <2>2, <2>3 DEF OrphansNone
<1>2. ASSUME NEW c \in Collectors, AcquireShard(c) PROVE Goal
  <2>1. /\ UNCHANGED <<queue, leases, session, faults, assigned>>
        /\ pc' = [pc EXCEPT ![c] = "try"] /\ cursor' = [cursor EXCEPT ![c] = 0]
        /\ pc[c] = "idle"
    BY <1>2 DEF AcquireShard, FirstShard
  <2>2. ASSUME NEW d \in Collectors, NEW t \in Shard
        PROVE  Orphaned(d, t)' => Orphaned(d, t)
    <3>1. pc[d] = "drop" => pc'[d] = "drop" /\ cursor'[d] = cursor[d]
      BY <2>1 DEF TypeOK
    <3> QED BY <2>1, <3>1, NotOrphaned DEF Alive, Believes
  <2> QED BY <2>1, <2>2 DEF OrphansNone
<1>3. ASSUME NEW c \in Collectors, TryLock(c) PROVE Goal
  <2> DEFINE q == Enqueued(queue[cursor[c]], session[c])
  <2>1. /\ Alive(c) /\ cursor[c] \in Shard /\ pc[c] = "try"
        /\ queue' = [queue EXCEPT ![cursor[c]] = q]
        /\ UNCHANGED <<leases, session, faults>>
    BY <1>3, CursorIsShard DEF TryLock
  <2>2. \A t \in Shard : \A k : Contains(queue'[t], k) =>
            Contains(queue[t], k) \/ (t = cursor[c] /\ k = session[c])
    BY <2>1, KeyAdded DEF Alive, TypeOK
  <2>3. ASSUME Takes(c, q), NEW d \in Collectors, NEW t \in Shard, Orphaned(d, t)'
        PROVE  Orphaned(d, t)
    <3>1. PICK h \in Handle : /\ assigned[c][h] = None
                              /\ assigned' = [assigned EXCEPT ![c][h] = cursor[c]]
      BY <1>3, <2>3 DEF TryLock
    <3>2. /\ pc' = [pc EXCEPT ![c] = "idle"] /\ cursor' = [cursor EXCEPT ![c] = 0]
      BY <1>3, <2>3 DEF TryLock
    <3> HIDE DEF q
    <3>3. \A e \in Collectors, g \in Handle :
             assigned'[e][g] = IF e = c /\ g = h THEN cursor[c] ELSE assigned[e][g]
      BY <3>1 DEF TypeOK
    <3>4. Alive(d) /\ session'[d] = session[d] /\ session[d] \in Lease
      BY <2>1, <2>3 DEF Orphaned, Alive, TypeOK
    <3>5. Believes(d) \subseteq Believes(d)'
      BY <3>1, <3>3 DEF Believes
    <3>6. CASE d = c
      <4>1. cursor[c] \in Believes(c)'
        BY <2>1, <3>3, NoneAssumption DEF Believes
      <4>2. t # cursor[c]
        BY <2>3, <3>6, <4>1 DEF Orphaned
      <4> QED BY <2>1, <2>2, <2>3, <3>4, <3>5, <3>6, <4>2, NotOrphaned
    <3>7. CASE d # c
      <4>1. pc'[d] = pc[d] /\ cursor'[d] = cursor[d]
        BY <3>2, <3>7 DEF TypeOK
      <4>2. session[d] # session[c]
        BY <3>4, <3>7, OtherSession
      <4> QED BY <2>2, <2>3, <3>4, <3>5, <4>1, <4>2, NotOrphaned
    <3> QED BY <3>6, <3>7
  <2>4. ASSUME ~Takes(c, q), NEW d \in Collectors, NEW t \in Shard, Orphaned(d, t)'
        PROVE  Orphaned(d, t)
    <3>1. pc' = [pc EXCEPT ![c] = "drop"] /\ UNCHANGED <<cursor, assigned>>
      BY <1>3, <2>4 DEF TryLock
    <3> HIDE DEF q
    <3>2. Alive(d) /\ session'[d] = session[d] /\ session[d] \in Lease
      BY <2>1, <2>4 DEF Orphaned, Alive, TypeOK
    <3>3. pc'[d] = IF d = c THEN "drop" ELSE pc[d]
      BY <3>1 DEF TypeOK
    <3>4. d = c => t # cursor[c]
      BY <2>4, <3>1, <3>3 DEF Orphaned
    <3>5. d # c => session[d] # session[c]
      BY <3>2, OtherSession
    <3>6. Contains(queue'[t], session[d]) => Contains(queue[t], session[d])
      BY <2>2, <3>4, <3>5
    <3>7. pc[d] = "drop" /\ cursor[d] = t => pc'[d] = "drop" /\ cursor'[d] = t
      BY <3>1, <3>3
    <3> QED BY <2>4, <3>1, <3>2, <3>6, <3>7, NotOrphaned DEF Believes
  <2> QED BY <2>1, <2>3, <2>4 DEF OrphansNone
<1>4. ASSUME NEW c \in Collectors, TryLockFails(c) PROVE Goal
  <2>1. /\ UNCHANGED <<queue, leases, session, assigned>>
        /\ Continue(c) /\ pc[c] = "try"
        /\ faults' = faults \/ faults' = faults + 1
    BY <1>4 DEF TryLockFails, Fault
  <2>2. ASSUME NEW d \in Collectors, NEW t \in Shard
        PROVE  Orphaned(d, t)' => Orphaned(d, t)
    <3>1. pc[d] = "drop" => pc'[d] = pc[d] /\ cursor'[d] = cursor[d]
      BY <2>1, ContinueOthers
    <3> QED BY <2>1, <3>1, NotOrphaned DEF Alive, Believes
  <2> QED BY <2>1, <2>2 DEF OrphansNone
<1>5. ASSUME NEW c \in Collectors, TryLockReplyLost(c) PROVE Goal
  <2>1. /\ Alive(c) /\ cursor[c] \in Shard /\ Continue(c) /\ faults' = faults + 1
        /\ queue' = [queue EXCEPT ![cursor[c]] = Enqueued(@, session[c])]
        /\ UNCHANGED <<leases, session, assigned>>
    BY <1>5, CursorIsShard DEF TryLockReplyLost, Fault
  <2>2. \A t \in Shard : \A k : Contains(queue'[t], k) =>
            Contains(queue[t], k) \/ (t = cursor[c] /\ k = session[c])
    BY <2>1, KeyAdded DEF Alive, TypeOK
  <2>3. OrphansOne(c, cursor[c])
    BY <2>1, <2>2, ContinueOrphansOne
  <2> QED BY <2>1, <2>3
<1>6. ASSUME NEW c \in Collectors, DropKey(c) PROVE Goal
  <2>1. /\ cursor[c] \in Shard /\ Continue(c)
        /\ queue' = [queue EXCEPT ![cursor[c]] = Dequeued(@, session[c])]
        /\ UNCHANGED <<leases, session, assigned, faults>>
    BY <1>6, CursorIsShard DEF DropKey
  <2>2. \A t \in Shard : \A k :
            Contains(queue'[t], k) <=>
               Contains(queue[t], k) /\ ~(t = cursor[c] /\ k = session[c])
    BY <2>1, KeyDeleted
  <2>3. OrphansOne(c, cursor[c])
    BY <2>1, <2>2, ContinueOrphansOne
  <2>4. ASSUME NEW t \in Shard, t = cursor[c] PROVE ~Orphaned(c, t)'
    BY <2>1, <2>2, <2>4 DEF Orphaned
  <2> QED BY <2>1, <2>3, <2>4 DEF OrphansNone, OrphansOne
<1>7. ASSUME NEW c \in Collectors, DropFails(c) PROVE Goal
  <2>1. /\ cursor[c] \in Shard /\ Continue(c) /\ faults' = faults + 1
        /\ UNCHANGED <<queue, leases, session, assigned>>
    BY <1>7, CursorIsShard DEF DropFails, Fault
  <2>2. OrphansOne(c, cursor[c])
    BY <2>1, ContinueOrphansOne
  <2> QED BY <2>1, <2>2
<1>8. ASSUME NEW c \in Collectors, NEW h \in Handle, Release(c, h) \/ ReleaseFails(c, h)
      PROVE  /\ assigned[c][h] \in Shard /\ UNCHANGED <<leases, session, pc, cursor>>
             /\ \A t \in Shard :
                   t # assigned[c][h] => Believes(c) \cap {t} \subseteq Believes(c)'
             /\ \A d \in Collectors : d # c => Believes(d)' = Believes(d)
  <2>1. assigned' = [assigned EXCEPT ![c][h] = None]
    BY <1>8 DEF Release, ReleaseFails
  <2>2. \A e \in Collectors, g \in Handle :
           assigned'[e][g] = IF e = c /\ g = h THEN None ELSE assigned[e][g]
    BY <2>1 DEF TypeOK
  <2>3. assigned[c][h] \in Shard /\ UNCHANGED <<leases, session, pc, cursor>>
    BY <1>8 DEF Release, ReleaseFails, TypeOK
  <2>4. \A t \in Shard : t # assigned[c][h] => Believes(c) \cap {t} \subseteq Believes(c)'
    BY <2>2 DEF Believes
  <2>5. \A d \in Collectors : d # c => Believes(d)' = Believes(d)
    BY <2>2 DEF Believes
  <2> QED BY <2>3, <2>4, <2>5
<1>9. ASSUME NEW c \in Collectors, NEW h \in Handle, Release(c, h) PROVE Goal
  <2>1. /\ queue' = [queue EXCEPT ![assigned[c][h]] = Dequeued(@, session[c])]
        /\ UNCHANGED faults
    BY <1>9 DEF Release
  <2>2. \A t \in Shard : \A k :
            Contains(queue'[t], k) <=>
               Contains(queue[t], k) /\ ~(t = assigned[c][h] /\ k = session[c])
    BY <1>8, <1>9, <2>1, KeyDeleted
  <2>3. ASSUME NEW d \in Collectors, NEW t \in Shard, Orphaned(d, t)'
        PROVE  Orphaned(d, t)
    <3>1. ~(d = c /\ t = assigned[c][h])
      BY <1>8, <1>9, <2>2, <2>3 DEF Orphaned
    <3>2. t \in Believes(d) => t \in Believes(d)'
      BY <1>8, <1>9, <3>1
    <3> QED BY <1>8, <1>9, <2>2, <2>3, <3>2, NotOrphaned DEF Alive
  <2> QED BY <2>1, <2>3 DEF OrphansNone
<1>10. ASSUME NEW c \in Collectors, NEW h \in Handle, ReleaseFails(c, h) PROVE Goal
  <2>1. faults' = faults + 1 /\ UNCHANGED queue
    BY <1>10 DEF ReleaseFails, Fault
  <2>2. ASSUME NEW d \in Collectors, NEW t \in Shard, Orphaned(d, t)',
               ~(d = c /\ t = assigned[c][h])
        PROVE  Orphaned(d, t)
    <3>1. t \in Believes(d) => t \in Believes(d)'
      BY <1>8, <1>10, <2>2
    <3> QED BY <1>8, <1>10, <2>1, <2>2, <3>1, NotOrphaned DEF Alive
  <2>3. OrphansOne(c, assigned[c][h]) /\ assigned[c][h] \in Shard
    BY <1>8, <1>10, <2>2 DEF OrphansOne
  <2> QED BY <2>1, <2>3
<1>11. ASSUME NEW c \in Collectors, NEW h \in Handle,
              RegisterCollector(c, h) \/ RegisterFails(c, h)
       PROVE  Goal
  <2>1. PICK l \in Fresh : leases' = leases \cup {l}
    BY <1>11 DEF RegisterCollector, RegisterFails
  <2>2. /\ UNCHANGED <<queue, session, pc, cursor, assigned>>
        /\ faults' = faults \/ faults' = faults + 1
    BY <1>11 DEF RegisterCollector, RegisterFails, Fault
  <2>3. ASSUME NEW d \in Collectors, NEW t \in Shard
        PROVE  Orphaned(d, t)' => Orphaned(d, t)
    <3>1. Alive(d)' => Alive(d)
      BY <2>1, <2>2 DEF Alive, Fresh
    <3> QED BY <2>2, <3>1, NotOrphaned DEF Believes
  <2> QED BY <2>2, <2>3 DEF OrphansNone
<1>12. ASSUME \A d \in Collectors :
                 Alive(d)' => /\ Alive(d) /\ session'[d] = session[d]
                              /\ assigned'[d] = assigned[d]
                              /\ pc'[d] = pc[d] /\ cursor'[d] = cursor[d],
              \A t \in Shard : \A k : Contains(queue'[t], k) => Contains(queue[t], k)
       PROVE  OrphansNone
  <2>1. ASSUME NEW d \in Collectors, NEW t \in Shard, Orphaned(d, t)'
        PROVE  Orphaned(d, t)
    <3>1. Alive(d)'
      BY <2>1 DEF Orphaned
    <3>2. Believes(d)' = Believes(d)
      BY <1>12, <3>1 DEF Believes
    <3> QED BY <1>12, <2>1, <3>1, <3>2, NotOrphaned
  <2> QED BY <2>1 DEF OrphansNone
<1>13. ASSUME NEW c \in Collectors, Gone(c), leases' \subseteq leases,
              NEW d \in Collectors, Alive(d)'
       PROVE  /\ Alive(d) /\ session'[d] = session[d] /\ assigned'[d] = assigned[d]
              /\ pc'[d] = pc[d] /\ cursor'[d] = cursor[d]
  <2>1. d # c
    BY <1>13, NoneAssumption DEF Gone, Alive, TypeOK
  <2> QED BY <1>13, <2>1 DEF Gone, Alive, TypeOK
<1>14. ASSUME NEW c \in Collectors, Close(c) PROVE Goal
  <2>1. DropLease(session[c]) /\ Gone(c) /\ UNCHANGED faults
    BY <1>14 DEF Close
  <2>2. leases' \subseteq leases
    BY <2>1 DEF DropLease
  <2>3. \A t \in Shard : \A k : Contains(queue'[t], k) => Contains(queue[t], k)
    BY <2>1, KeysDropped
  <2> QED BY <1>12, <1>13, <2>1, <2>2, <2>3
<1>15. ASSUME NEW c \in Collectors, Crash(c) PROVE Goal
  <2>1. Gone(c) /\ faults' = faults + 1 /\ UNCHANGED <<leases, queue>>
    BY <1>15 DEF Crash, Fault
  <2> QED BY <1>12, <1>13, <2>1
<1>16. ASSUME NEW l \in Lease, LeaseExpires(l) PROVE Goal
  <2>1. /\ DropLease(l) /\ UNCHANGED <<pc, cursor, session, assigned>>
        /\ faults' = faults \/ faults' = faults + 1
    BY <1>16 DEF LeaseExpires, Fault
  <2>2. leases' \subseteq leases
    BY <2>1 DEF DropLease
  <2>3. \A t \in Shard : \A k : Contains(queue'[t], k) => Contains(queue[t], k)
    BY <2>1, KeysDropped
  <2>4. OrphansNone
    BY <1>12, <2>1, <2>2, <2>3 DEF Alive
  <2> QED BY <2>1, <2>4
<1>17. CASE UNCHANGED vars
  <2>1. OrphansNone
    BY <1>17 DEF vars, OrphansNone, Orphaned, Alive, Believes
  <2> QED BY <1>17, <2>1 DEF vars
<1> QED BY <1>1, <1>2, <1>3, <1>4, <1>5, <1>6, <1>7, <1>9, <1>10, <1>11, <1>14,
           <1>15, <1>16, <1>17 DEF Next

\* For any number of processes and shards there are never more keys that block
\* a shard for nobody's benefit than there were faults: every lock AcquireShard
\* tried and did not return is given back unless a request of its own failed.
THEOREM OrphansCostFaults == Spec => []OrphansNeedFaults
<1>1. Init => OrphanInv
  <2> SUFFICES ASSUME Init PROVE OrphanInv
    OBVIOUS
  <2>1. \A s \in Shard : queue[s] = <<>>
    BY DEF Init
  <2>2. Orphans = {}
    BY <2>1 DEF Orphans, Orphaned, Contains
  <2>3. faults = 0
    BY DEF Init
  <2> QED BY <2>2, <2>3, FS_EmptySet DEF OrphanInv
<1>2. TypeOK /\ LocalInv /\ KeyInv /\ OrphanInv /\ [Next]_vars => OrphanInv'
  BY OrphanStep, OrphansCounted
<1>3. OrphanInv => OrphansNeedFaults
  BY DEF OrphanInv, OrphansNeedFaults, Orphans
<1> QED BY <1>1, <1>2, <1>3, KeyInvariance, PTL DEF Spec
=============================================================================
