---------------------------- MODULE Coordinator ----------------------------
(***************************************************************************)
(* Shard coordination of the collectors: every operation of                *)
(* pkg/coordinator/coordinator.go over the etcd store it talks to, called  *)
(* by processes that may crash and restart and that may be cut off from    *)
(* etcd.                                                                   *)
(*                                                                         *)
(* An etcd lock is a queue of keys, one per contending session, ordered by *)
(* creation revision; the session that owns the first key owns the lock.   *)
(* Every key hangs on the lease of its session and vanishes with it.  A    *)
(* mutex is TRIED in two requests: one transaction creates the key and     *)
(* reads the owner, and a second request removes the key of a loser.       *)
(*                                                                         *)
(* A fault is a request that fails or whose reply is lost, a keep-alive    *)
(* that does not arrive in time, or a crash; there are at most MaxFaults.  *)
(***************************************************************************)
EXTENDS Integers, FiniteSets, SequencesExt, ShardRanges

CONSTANTS
    Collectors,   \* the collector processes (COLLECTOR_ID)
    Shard,        \* the shard numbers
    Lease,        \* lease ids; an id is granted again once nobody refers to it
    Handle,       \* the ShardAssignment values a process can hold at a time
    Fleets,       \* the flags the processes may be started with
    MaxFaults,    \* bound on faults
    None          \* "no lease", "no entry", "no assignment"

ASSUME ShardAssumption == Shard \subseteq Nat
ASSUME FleetsAssumption ==
    Fleets \subseteq [Collectors -> {f \in Flags : 0 .. (f.shards - 1) \subseteq Shard}]
ASSUME BoundAssumption == MaxFaults \in Nat
ASSUME NoneAssumption == None \notin Lease \cup Shard

VARIABLES
    flags,      \* flags[c]: TOTAL_METERS and NUM_SHARDS of c, fixed at start
    leases,     \* etcd: the leases that are alive
    queue,      \* etcd: queue[s], the leases of the keys of shard s's lock
    registry,   \* etcd: the entry collectors/<c>, with the lease it hangs on
    pc,         \* "down", "idle", or the step AcquireShard is at
    session,    \* session[c]: the lease of c's session
    kept,       \* kept[c]: the leases the client of c keeps alive
    cursor,     \* shardID in the loop of AcquireShard
    assigned,   \* assigned[c][h]: the shard of the ShardAssignment h of c
    faults      \* number of faults so far

etcd   == <<leases, queue, registry>>
client == <<pc, session, kept, cursor, assigned>>
vars   == <<flags, etcd, client, faults>>

-----------------------------------------------------------------------------
(* etcd *)

\* Lease ids nothing refers to.
Fresh == Lease \ (leases \cup {session[c] : c \in Collectors})

\* The queue with a key for lease l: the transaction of tryAcquire creates the
\* key only if the session has none there (it does after a lost reply).
Enqueued(q, l) == IF Contains(q, l) THEN q ELSE Append(q, l)

\* The queue without the key of lease l.
Dequeued(q, l) == RemoveFirst(q, l)

\* Lease l owns the lock: its key is the oldest one.
Owns(q, l) == q # <<>> /\ q[1] = l

\* A lease ends: every key that hangs on it is deleted.
DropLease(l) ==
    /\ leases' = leases \ {l}
    /\ queue' = [s \in Shard |-> Dequeued(queue[s], l)]
    /\ registry' = [c \in Collectors |->
                      IF registry[c] # None /\ registry[c].lease = l
                      THEN None ELSE registry[c]]

Fault == faults < MaxFaults /\ faults' = faults + 1

\* The session of c is alive: etcd has not dropped its lease.
Alive(c) == session[c] \in leases

-----------------------------------------------------------------------------
TypeOK ==
    /\ flags \in [Collectors -> Flags]
    /\ \A c \in Collectors : 0 .. (flags[c].shards - 1) \subseteq Shard
    /\ leases \subseteq Lease
    /\ queue \in [Shard -> Seq(Lease)]
    /\ registry \in [Collectors -> [shard : Shard, lease : Lease] \cup {None}]
    /\ pc \in [Collectors -> {"down", "idle", "try", "drop"}]
    /\ session \in [Collectors -> Lease \cup {None}]
    /\ kept \in [Collectors -> SUBSET Lease]
    /\ cursor \in [Collectors -> Nat]
    /\ \A c \in Collectors : cursor[c] < flags[c].shards
    /\ assigned \in [Collectors -> [Handle -> Shard \cup {None}]]
    /\ faults \in 0 .. MaxFaults

Init ==
    /\ flags \in Fleets
    /\ leases = {}
    /\ queue = [s \in Shard |-> <<>>]
    /\ registry = [c \in Collectors |-> None]
    /\ pc = [c \in Collectors |-> "down"]
    /\ session = [c \in Collectors |-> None]
    /\ kept = [c \in Collectors |-> {}]
    /\ cursor = [c \in Collectors |-> 0]
    /\ assigned = [c \in Collectors |-> [h \in Handle |-> None]]
    /\ faults = 0

-----------------------------------------------------------------------------
(* The operations of a process *)

\* NewCoordinator: a client and a session, whose lease the client keeps alive.
NewCoordinator(c) ==
    /\ pc[c] = "down"
    /\ \E l \in Fresh :
         /\ leases' = leases \cup {l}
         /\ session' = [session EXCEPT ![c] = l]
         /\ kept' = [kept EXCEPT ![c] = {l}]
    /\ pc' = [pc EXCEPT ![c] = "idle"]
    /\ UNCHANGED <<flags, queue, registry, cursor, assigned, faults>>

\* A slip: a process that has shard 0 asks from shard 1 on.
FirstShardAfter(c) ==
    IF flags[c].shards > 1 /\ \E h \in Handle : assigned[c][h] = 0 THEN 1 ELSE 0

\* The shard the loop of AcquireShard begins with.
FirstShard(c) == 0

\* AcquireShard is called: the loop starts.
AcquireShard(c) ==
    /\ pc[c] = "idle"
    /\ \E h \in Handle : assigned[c][h] = None
    /\ pc' = [pc EXCEPT ![c] = "try"]
    /\ cursor' = [cursor EXCEPT ![c] = FirstShard(c)]
    /\ UNCHANGED <<flags, etcd, session, kept, assigned, faults>>

\* A slip: the loop runs one shard too far.
ContinueTooFar(c) ==
    IF cursor[c] < flags[c].shards
    THEN /\ cursor' = [cursor EXCEPT ![c] = @ + 1]
         /\ pc' = [pc EXCEPT ![c] = "try"]
    ELSE /\ cursor' = [cursor EXCEPT ![c] = 0]
         /\ pc' = [pc EXCEPT ![c] = "idle"]

\* A slip: the loop stops before the last shard.
ContinueTooShort(c) ==
    IF cursor[c] + 2 < flags[c].shards
    THEN /\ cursor' = [cursor EXCEPT ![c] = @ + 1]
         /\ pc' = [pc EXCEPT ![c] = "try"]
    ELSE /\ cursor' = [cursor EXCEPT ![c] = 0]
         /\ pc' = [pc EXCEPT ![c] = "idle"]

\* `continue': the next shard, or "no available shards" after the last one.
Continue(c) ==
    IF cursor[c] + 1 < flags[c].shards
    THEN /\ cursor' = [cursor EXCEPT ![c] = @ + 1]
         /\ pc' = [pc EXCEPT ![c] = "try"]
    ELSE /\ cursor' = [cursor EXCEPT ![c] = 0]
         /\ pc' = [pc EXCEPT ![c] = "idle"]

\* A slip: the error of TryLock is not looked at.
TakesUnchecked(c, q) ==
    Assignable(flags[c].meters, flags[c].shards, cursor[c])

\* The lock is taken and the shard has meters: AcquireShard returns it.
Takes(c, q) ==
    Owns(q, session[c]) /\ Assignable(flags[c].meters, flags[c].shards, cursor[c])

\* The transaction of TryLock.  A key that does not win the lock, or wins it for
\* a shard without meters, is to be deleted (by TryLock, or by Unlock).
TryLock(c) ==
    /\ pc[c] = "try"
    /\ Alive(c)
    /\ LET s == cursor[c]
           q == Enqueued(queue[s], session[c])
       IN /\ queue' = [queue EXCEPT ![s] = q]
          /\ IF Takes(c, q)
             THEN /\ \E h \in Handle :
                       /\ assigned[c][h] = None
                       /\ assigned' = [assigned EXCEPT ![c][h] = s]
                  /\ pc' = [pc EXCEPT ![c] = "idle"]
                  /\ cursor' = [cursor EXCEPT ![c] = 0]
             ELSE /\ pc' = [pc EXCEPT ![c] = "drop"]
                  /\ UNCHANGED <<assigned, cursor>>
    /\ UNCHANGED <<flags, leases, registry, session, kept, faults>>

\* TryLock fails: any error, of a dead session or of the request, is `continue'.
TryLockFails(c) ==
    /\ pc[c] = "try"
    /\ IF Alive(c) THEN Fault ELSE UNCHANGED faults
    /\ Continue(c)
    /\ UNCHANGED <<flags, etcd, session, kept, assigned>>

\* The transaction took effect but its reply is lost: the key stays.
TryLockReplyLost(c) ==
    /\ pc[c] = "try"
    /\ Alive(c)
    /\ Fault
    /\ queue' = [queue EXCEPT ![cursor[c]] = Enqueued(@, session[c])]
    /\ Continue(c)
    /\ UNCHANGED <<flags, leases, registry, session, kept, assigned>>

\* A slip: `continue' without deleting the key.
ContinueWithKey(c) ==
    /\ pc[c] = "drop"
    /\ Continue(c)
    /\ UNCHANGED <<flags, etcd, session, kept, assigned, faults>>

\* A slip: the owner's key is deleted.
DropOwnersKey(c) ==
    /\ pc[c] = "drop"
    /\ queue' = [queue EXCEPT ![cursor[c]] = IF @ = <<>> THEN @ ELSE Tail(@)]
    /\ Continue(c)
    /\ UNCHANGED <<flags, leases, registry, session, kept, assigned, faults>>

\* The loser's key is deleted.
DropKey(c) ==
    /\ pc[c] = "drop"
    /\ queue' = [queue EXCEPT ![cursor[c]] = Dequeued(@, session[c])]
    /\ Continue(c)
    /\ UNCHANGED <<flags, leases, registry, session, kept, assigned, faults>>

\* The deletion fails; AcquireShard continues all the same, the key stays.
DropFails(c) ==
    /\ pc[c] = "drop"
    /\ Fault
    /\ Continue(c)
    /\ UNCHANGED <<flags, etcd, session, kept, assigned>>

\* ShardAssignment.Release: Mutex.Unlock deletes the session's key.
Release(c, h) ==
    /\ pc[c] = "idle"
    /\ assigned[c][h] # None
    /\ queue' = [queue EXCEPT ![assigned[c][h]] = Dequeued(@, session[c])]
    /\ assigned' = [assigned EXCEPT ![c][h] = None]
    /\ UNCHANGED <<flags, leases, registry, pc, session, kept, cursor, faults>>

\* Release returns an error and the process forgets the assignment.
ReleaseFails(c, h) ==
    /\ pc[c] = "idle"
    /\ assigned[c][h] # None
    /\ Fault
    /\ assigned' = [assigned EXCEPT ![c][h] = None]
    /\ UNCHANGED <<flags, etcd, pc, session, kept, cursor>>

\* A slip: the put is not bound to the lease.
EntryForEver(s, l) == [shard |-> s, lease |-> None]

\* The value RegisterCollector puts: the shard, on a lease of its own.
Entry(s, l) == [shard |-> s, lease |-> l]

\* RegisterCollector(c, shard) of an assigned shard: grant, put, keep alive.
RegisterCollector(c, h) ==
    /\ pc[c] = "idle"
    /\ assigned[c][h] # None
    /\ \E l \in Fresh :
         /\ leases' = leases \cup {l}
         /\ registry' = [registry EXCEPT ![c] = Entry(assigned[c][h], l)]
         /\ kept' = [kept EXCEPT ![c] = @ \cup {l}]
    /\ UNCHANGED <<flags, queue, pc, session, cursor, assigned, faults>>

\* RegisterCollector returns an error after the put took effect: the entry is
\* there and nobody keeps its lease alive.
RegisterFails(c, h) ==
    /\ pc[c] = "idle"
    /\ assigned[c][h] # None
    /\ Fault
    /\ \E l \in Fresh :
         /\ leases' = leases \cup {l}
         /\ registry' = [registry EXCEPT ![c] = Entry(assigned[c][h], l)]
    /\ UNCHANGED <<flags, queue, client>>

\* GetActiveCollectors: every entry under collectors/, whoever wrote it.
ActiveCollectors ==
    [c \in {d \in Collectors : registry[d] # None} |-> registry[c].shard]

\* The process is gone with everything its memory held.
Gone(c) ==
    /\ pc' = [pc EXCEPT ![c] = "down"]
    /\ session' = [session EXCEPT ![c] = None]
    /\ kept' = [kept EXCEPT ![c] = {}]
    /\ cursor' = [cursor EXCEPT ![c] = 0]
    /\ assigned' = [assigned EXCEPT ![c] = [h \in Handle |-> None]]

\* Close: revokes the session's lease only; the lease of the registry entry is
\* left to expire.
Close(c) ==
    /\ pc[c] = "idle"
    /\ DropLease(session[c])
    /\ Gone(c)
    /\ UNCHANGED <<flags, faults>>

\* The process dies, or its Close cannot revoke the lease (error ignored).
Crash(c) ==
    /\ pc[c] # "down"
    /\ Fault
    /\ Gone(c)
    /\ UNCHANGED <<flags, etcd>>

-----------------------------------------------------------------------------
\* etcd drops a lease that was not refreshed for its time to live.  Unless its
\* process is gone this takes a fault: keep-alives that do not arrive.
LeaseExpires(l) ==
    /\ l \in leases
    /\ IF \E c \in Collectors : l \in kept[c] THEN Fault ELSE UNCHANGED faults
    /\ DropLease(l)
    /\ kept' = [c \in Collectors |-> kept[c] \ {l}]
    /\ UNCHANGED <<flags, pc, session, cursor, assigned>>

Next ==
    \/ \E c \in Collectors :
         \/ NewCoordinator(c) \/ AcquireShard(c)
         \/ TryLock(c) \/ TryLockFails(c) \/ TryLockReplyLost(c)
         \/ DropKey(c) \/ DropFails(c)
         \/ \E h \in Handle : \/ Release(c, h) \/ ReleaseFails(c, h)
                              \/ RegisterCollector(c, h) \/ RegisterFails(c, h)
         \/ Close(c) \/ Crash(c)
    \/ \E l \in Lease : LeaseExpires(l)

Spec == Init /\ [][Next]_vars

\* A process takes its steps, is restarted when it is down (restart policy of
\* docker-compose and Kubernetes), and asks again when it was given no shard;
\* etcd drops leases nobody refreshes.  No request and no fault is owed.
Fairness ==
    /\ \A c \in Collectors :
         /\ WF_vars(NewCoordinator(c))
         /\ WF_vars(AcquireShard(c) /\ \A h \in Handle : assigned[c][h] = None)
         /\ WF_vars(TryLock(c)) /\ WF_vars(TryLockFails(c) /\ ~Alive(c))
         /\ WF_vars(DropKey(c))
    /\ \A l \in Lease :
         WF_vars(LeaseExpires(l) /\ \A c \in Collectors : l \notin kept[c])

FairSpec == Spec /\ Fairness

-----------------------------------------------------------------------------
(* What makes shard coordination correct *)

\* A process keeps at most one ShardAssignment, as the collector does.
SingleHandle == \A g, h \in Handle : g = h

\* The shards process c believes it was assigned.
Believes(c) == {assigned[c][h] : h \in Handle} \ {None}

\* The shards whose lock the session of c owns in etcd.
OwnedBy(c) == {s \in Shard : Alive(c) /\ Owns(queue[s], session[c])}

\* While its session lives, a process that believes it has a shard owns that
\* shard's lock: nothing another process does to the lock's keys (trying and
\* giving up, releasing, crashing, losing its lease) takes it away.
\* (AcquireShard, Release and the key deletions of TryLock.)
HolderOwnsLock ==
    \A c \in Collectors : Alive(c) => Believes(c) \subseteq OwnedBy(c)

\* What makes HolderOwnsLock inductive: sessions are not shared, a process that
\* is down has nothing, and a process inside AcquireShard has a place for the
\* assignment it asks for.
SessionsDistinct ==
    \A c \in Collectors :
        /\ pc[c] = "down" <=> session[c] = None
        /\ \A d \in Collectors \ {c} : session[c] = session[d] => session[c] = None

DownHoldsNothing ==
    \A c \in Collectors : pc[c] = "down" => \A h \in Handle : assigned[c][h] = None

RoomToTake ==
    \A c \in Collectors :
        pc[c] \in {"try", "drop"} => \E h \in Handle : assigned[c][h] = None

LockInv == SessionsDistinct /\ DownHoldsNothing /\ RoomToTake /\ HolderOwnsLock

\* Two processes with live sessions that were started with the same flags never
\* collect the same meter.  (The assignments of AcquireShard.)
MeterExclusion ==
    \A c, d \in Collectors :
        /\ c # d /\ flags[c] = flags[d] /\ Alive(c) /\ Alive(d)
        => \A s \in Believes(c), t \in Believes(d) :
               MetersOf(flags[c], s) \cap MetersOf(flags[d], t) = {}

\* A key that blocks a shard for others although its running owner neither
\* believes in the shard nor is about to delete the key.
Orphaned(c, s) ==
    /\ Alive(c) /\ Contains(queue[s], session[c])
    /\ s \notin Believes(c)
    /\ ~(pc[c] = "drop" /\ cursor[c] = s)

\* AcquireShard strands no key by itself: every key of a running process that
\* nobody will delete before the session ends was left by a fault of its own.
OrphansNeedFaults ==
    Cardinality({k \in Collectors \X Shard : Orphaned(k[1], k[2])}) <= faults

\* Asking again never spreads a process over more of the fleet: TryLock succeeds
\* again on a lock the session owns, so without faults AcquireShard returns no
\* shard above one the caller owns already.  (The loop from shard 0.)
SecondCallNeverClimbs ==
    [][\A c \in Collectors :
          faults' = 0 => \A s \in Believes(c)' \ Believes(c), t \in OwnedBy(c) : s <= t]_vars

\* The abstract owners: the processes that believe in a shard on a live session.
Owners == [s \in Shard |-> {c \in Collectors : Alive(c) /\ s \in Believes(c)}]

Ownership == INSTANCE ShardOwnership WITH owners <- Owners

\* The coordinator implements the promise: a shard goes to a process only when
\* no process with a live session has it.
ImplementsOwnership == Ownership!Spec

\* A shard with meters that only c itself has a key for.
Takeable(c, s) ==
    /\ s < flags[c].shards
    /\ Assignable(flags[c].meters, flags[c].shards, s)
    /\ \A i \in 1 .. Len(queue[s]) : queue[s][i] = session[c]

\* A process with a live session has no shard although one is free for it and
\* nobody else is inside AcquireShard.
Starved(c) ==
    /\ Alive(c) /\ Believes(c) = {}
    /\ \E s \in Shard : Takeable(c, s)
    /\ \A d \in Collectors \ {c} : pc[d] \notin {"try", "drop"}

\* A process that keeps asking is not left without a shard for ever while one is
\* free and nobody competes for it.  (The loop of AcquireShard tries them all.
\* With a competitor it is not so: two losers may see each other's keys.)
LoneContenderServed == \A c \in Collectors : []<>~Starved(c)

\* The registry entry of c is on lease l, which no process keeps alive: its process
\* crashed or closed, the put went through and the call failed, or the lease was lost.
Abandoned(c, l) ==
    /\ registry[c] # None /\ registry[c].lease = l
    /\ \A d \in Collectors : l \notin kept[d]

\* An entry that is abandoned vanishes with its lease, or is put anew on another:
\* GetActiveCollectors does not list it for ever, whether or not its process comes
\* back.  (RegisterCollector binds the put to a lease; one that is bound to none
\* stays.)
StaleEntryExpires ==
    \A c \in Collectors, l \in Lease \cup {None} : Abandoned(c, l) ~> ~Abandoned(c, l)

\* What the task description says of the collectors, "each collecting its own
\* portion of the data", with nothing said of sessions, taken at its word.
OwnPortion ==
    \A c, d \in Collectors : c # d =>
        \A s \in Believes(c), t \in Believes(d) :
            MetersOf(flags[c], s) \cap MetersOf(flags[d], t) = {}
=============================================================================
