------------------------ MODULE AsyncCollectorProofs ------------------------
(***************************************************************************)
(* The safety of the Python collector, for any number of meters, sweeps    *)
(* and callbacks that raise, and any limits.  What the tasks do to the     *)
(* lock, to the place of run in its sweep and to the readings is kept in   *)
(* invariants of their own, one lemma per group of actions.                *)
(***************************************************************************)
EXTENDS AsyncCollector, TLAPS, FiniteSetTheorems, SequenceTheorems

\* A task is in the lock's queue at most once, and only if it waits for the lock
\* or awaits its callback; who awaits a callback is at its head, and the window
\* is empty until the callback ends.
LockInv ==
    /\ \A i, j \in 1 .. Len(queue) : queue[i] = queue[j] => i = j
    /\ \A i \in 1 .. Len(queue) : pc[queue[i]] \in {"lock", "callback"}
    /\ cancelled => \A i \in 2 .. Len(queue) : queue[i] # "flusher"
    /\ \A t \in Tasks : pc[t] = "callback" => calling # <<>> /\ queue # <<>> /\ queue[1] = t
    /\ calling # <<>> => \E t \in Tasks : pc[t] = "callback"
    /\ calling # <<>> => window = <<>>

\* Where run is in its sweeps.
RunInv ==
    /\ pc["run"] \in {"new", "sleep", "sweep", "lock", "callback", "done", "failed"}
    /\ pc["run"] = "new" => pc["flusher"] = "none"
    /\ pc["run"] \in {"sweep", "lock", "callback", "failed"} => sweep > 0
    /\ pc["run"] \in {"lock", "callback", "failed"} => at <= NumMeters
    /\ pc["run"] \in {"new", "sleep"} => sweep = 0 \/ at > NumMeters

\* What is left when stop has returned.
StopInv ==
    /\ pc["stop"] = "none" <=> ~stopped
    /\ cancelled => stopped
    /\ atStop \subseteq Taken
    /\ pc["stop"] = "done" =>
          /\ \A r \in ToSet(window) : r.sweep = sweep
          /\ pc["run"] \in {"new", "sleep"} => window = <<>>

Sorted(b) == \A k, l \in 1 .. Len(b) : k < l => Earlier(b[k], b[l])

AllEarlier(A, B) == \A a \in A, b \in B : Earlier(a, b)

\* InOrder, batch by batch.
OrderInv ==
    /\ Sorted(window) /\ Sorted(calling)
    /\ AllEarlier(ToSet(calling), ToSet(window))
    /\ \A i \in 1 .. Len(delivered) :
          /\ Sorted(delivered[i])
          /\ AllEarlier(ToSet(delivered[i]), ToSet(calling) \cup ToSet(window))
          /\ \A j \in 1 .. Len(delivered) :
                i < j => AllEarlier(ToSet(delivered[i]), ToSet(delivered[j]))

Inv ==
    /\ TypeOK /\ LockInv /\ RunInv
    /\ IsFiniteSet(Taken) /\ Accounted /\ CountsAgree /\ DropsExplained
    /\ StopInv /\ NoneLeftBehind /\ OrderInv

-----------------------------------------------------------------------------
(* Sequences *)

LEMMA EmptySet == ToSet(<<>>) = {} /\ ReadingsIn(<<>>) = {}
  BY DEF ToSet, ReadingsIn

LEMMA ToSetFacts ==
    ASSUME NEW S, NEW s \in Seq(S)
    PROVE  /\ ToSet(s) \subseteq S
           /\ ToSet(s) = {} <=> s = <<>>
           /\ \A e \in S : ToSet(Append(s, e)) = ToSet(s) \cup {e}
<1>1. Len(s) \in Nat /\ DOMAIN s = 1 .. Len(s) /\ \A i \in 1 .. Len(s) : s[i] \in S
  BY LenProperties, ElementOfSeq
<1>2. s # <<>> => 1 \in DOMAIN s
  BY <1>1, EmptySeq
<1>3. ASSUME NEW e \in S PROVE ToSet(Append(s, e)) = ToSet(s) \cup {e}
  <2> DEFINE t == Append(s, e)
  <2>1. /\ DOMAIN t = 1 .. Len(s) + 1
        /\ t[Len(s) + 1] = e /\ \A i \in 1 .. Len(s) : t[i] = s[i]
    BY <1>1, AppendProperties, LenProperties
  <2> HIDE DEF t
  <2> QED BY <1>1, <2>1 DEF ToSet
<1>4. ToSet(s) \subseteq S
  BY <1>1 DEF ToSet
<1>5. s # <<>> => ToSet(s) # {}
  <2>1. s # <<>> => s[1] \in ToSet(s)
    BY <1>2 DEF ToSet
  <2> QED BY <2>1
<1>6. s = <<>> => ToSet(s) = {}
  BY EmptySet
<1> QED BY <1>3, <1>4, <1>5, <1>6

LEMMA ReadingsInAppend ==
    ASSUME NEW bs \in Seq(Seq(Reading)), NEW b \in Seq(Reading)
    PROVE  ReadingsIn(Append(bs, b)) = ReadingsIn(bs) \cup ToSet(b)
<1>1. ToSet(Append(bs, b)) = ToSet(bs) \cup {b}
  BY ToSetFacts
<1> QED BY <1>1 DEF ReadingsIn

-----------------------------------------------------------------------------
(* The queue of the lock *)

LEMMA QueueAppend ==
    ASSUME NEW q \in Seq(Tasks), NEW t \in Tasks
    PROVE  /\ Append(q, t) \in Seq(Tasks) /\ Append(q, t) # <<>>
           /\ Len(q) \in Nat /\ Len(Append(q, t)) = Len(q) + 1
           /\ \A i \in 1 .. Len(q) : Append(q, t)[i] = q[i]
           /\ Append(q, t)[Len(q) + 1] = t
           /\ q # <<>> => Len(q) >= 1
  BY AppendProperties, LenProperties, EmptySeq

LEMMA QueueTail ==
    ASSUME NEW q \in Seq(Tasks), q # <<>>
    PROVE  /\ Tail(q) \in Seq(Tasks) /\ Len(q) \in Nat /\ Len(q) >= 1
           /\ Head(q) = q[1] /\ Len(Tail(q)) = Len(q) - 1
           /\ \A i \in 1 .. Len(q) - 1 : Tail(q)[i] = q[i + 1]
           /\ Tail(q) # <<>> => Len(q) >= 2
<1>1. Tail(q) \in Seq(Tasks) /\ Len(q) \in Nat /\ Len(q) >= 1
  BY HeadTailProperties, LenProperties, EmptySeq
<1> QED BY <1>1, HeadTailProperties, LenProperties, EmptySeq

LEMMA QueueRemove ==
    ASSUME NEW q \in Seq(Tasks), NEW i \in 2 .. Len(q)
    PROVE  /\ RemoveAt(q, i) \in Seq(Tasks) /\ RemoveAt(q, i) # <<>>
           /\ Len(q) \in Nat /\ Len(RemoveAt(q, i)) = Len(q) - 1
           /\ \A j \in 1 .. i - 1 : RemoveAt(q, i)[j] = q[j]
           /\ \A j \in i .. Len(q) - 1 : RemoveAt(q, i)[j] = q[j + 1]
<1> DEFINE a == SubSeq(q, 1, i - 1)
           b == SubSeq(q, i + 1, Len(q))
<1>1. Len(q) \in Nat /\ \A j \in 1 .. Len(q) : q[j] \in Tasks
  BY LenProperties, ElementOfSeq
<1>2. a \in Seq(Tasks) /\ Len(a) = i - 1 /\ \A j \in 1 .. i - 1 : a[j] = q[j]
  BY <1>1, SubSeqProperties
<1>3. /\ b \in Seq(Tasks) /\ Len(b) = Len(q) - i
      /\ \A j \in 1 .. Len(q) - i : b[j] = q[j + i]
  <2>1. /\ b \in Seq(Tasks)
        /\ Len(b) = IF i + 1 <= Len(q) THEN Len(q) - (i + 1) + 1 ELSE 0
        /\ \A j \in 1 .. Len(q) - (i + 1) + 1 : b[j] = q[(i + 1) + j - 1]
    <3>1. \A j \in i + 1 .. Len(q) : q[j] \in Tasks
      BY <1>1
    <3> HIDE DEF b
    <3> QED BY <1>1, <3>1, SubSeqProperties DEF b
  <2> QED BY <1>1, <2>1
<1> HIDE DEF a, b
<1>4. /\ a \o b \in Seq(Tasks) /\ Len(a \o b) = Len(q) - 1
      /\ \A j \in 1 .. Len(q) - 1 :
            (a \o b)[j] = IF j <= i - 1 THEN a[j] ELSE b[j - (i - 1)]
  <2>1. Len(a) + Len(b) = Len(q) - 1 /\ Len(a) = i - 1
    BY <1>1, <1>2, <1>3
  <2>2. /\ a \o b \in Seq(Tasks) /\ Len(a \o b) = Len(a) + Len(b)
        /\ \A j \in 1 .. Len(a) + Len(b) :
              (a \o b)[j] = IF j <= Len(a) THEN a[j] ELSE b[j - Len(a)]
    BY <1>2, <1>3, ConcatProperties
  <2> QED BY <2>1, <2>2
<1>5. a \o b # <<>>
  BY <1>1, <1>4, EmptySeq
<1> QED BY <1>1, <1>2, <1>3, <1>4, <1>5 DEF RemoveAt, a, b

-----------------------------------------------------------------------------
(* Types *)

\* The reading that run is about to add.
Fresh == [sweep |-> sweep, meter |-> at]

LEMMA FreshType ==
    ASSUME TypeOK, sweep > 0, at <= NumMeters
    PROVE  Fresh \in Reading
  BY NumbersAssumption DEF TypeOK, Reading, Fresh

\* Going to another place.
LEMMA GotoType ==
    ASSUME TypeOK, NEW t \in Tasks, NEW g \in BOOLEAN,
           NEW p \in {"none", "new", "sleep", "sweep", "lock", "callback", "join",
                      "done", "failed"},
           Goto(t, p, g)
    PROVE  /\ running' \in Tasks \cup {None}
           /\ pc' \in [Tasks -> {"none", "new", "sleep", "sweep", "lock", "callback",
                                 "join", "done", "failed"}]
           /\ pc'[t] = p /\ \A u \in Tasks \ {t} : pc'[u] = pc[u]
  BY DEF TypeOK, Goto

LEMMA AskLockType ==
    ASSUME TypeOK, NEW t \in Tasks, AskLock(t)
    PROVE  /\ running' \in Tasks \cup {None}
           /\ pc' \in [Tasks -> {"none", "new", "sleep", "sweep", "lock", "callback",
                                 "join", "done", "failed"}]
           /\ queue' \in Seq(Tasks)
           /\ pc'[t] = "lock" /\ \A u \in Tasks \ {t} : pc'[u] = pc[u]
<1>1. (queue = <<>>) \in BOOLEAN
  OBVIOUS
<1> QED BY <1>1, GotoType, QueueAppend DEF TypeOK, AskLock

\* Leaving the lock.
LEMMA AfterLockType ==
    ASSUME TypeOK, NEW t \in Tasks, AfterLock(t), t = "run" => at <= NumMeters
    PROVE  /\ running' \in Tasks \cup {None}
           /\ pc' \in [Tasks -> {"none", "new", "sleep", "sweep", "lock", "callback",
                                 "join", "done", "failed"}]
           /\ \A u \in Tasks \ {t} : pc'[u] = pc[u]
           /\ at' \in 1 .. NumMeters + 1 /\ counted' \in Nat
           /\ t = "run" => pc'[t] = "sweep" /\ at' = at + 1 /\ counted' = counted + 1
           /\ t # "run" => /\ pc'[t] \in {"sleep", "done"} /\ UNCHANGED <<at, counted>>
                           /\ t = "stop" => pc'[t] = "done"
<1>1. CASE t = "run"
  <2>1. Goto(t, "sweep", TRUE) /\ at' = at + 1 /\ counted' = counted + 1
    BY <1>1 DEF AfterLock
  <2>2. /\ running' \in Tasks \cup {None}
        /\ pc' \in [Tasks -> {"none", "new", "sleep", "sweep", "lock", "callback",
                              "join", "done", "failed"}]
        /\ pc'[t] = "sweep" /\ \A u \in Tasks \ {t} : pc'[u] = pc[u]
    BY <2>1, GotoType
  <2>3. at' \in 1 .. NumMeters + 1 /\ counted' \in Nat
    BY <1>1, <2>1, NumbersAssumption DEF TypeOK
  <2> QED BY <1>1, <2>1, <2>2, <2>3
<1>2. CASE t # "run"
  <2>1. /\ UNCHANGED <<at, counted>>
        /\ Goto(t, "sleep", FALSE) \/ Goto(t, "done", FALSE)
        /\ t = "stop" => Goto(t, "done", FALSE)
    BY <1>2 DEF AfterLock
  <2> QED BY <1>2, <2>1, GotoType DEF TypeOK
<1> QED BY <1>1, <1>2
\* A flush of a window that is not empty.
LEMMA FlushLockedType ==
    ASSUME TypeOK, NEW t \in Tasks, NEW w \in Seq(Reading), FlushLocked(t, w)
    PROVE  /\ running' \in Tasks \cup {None}
           /\ pc' \in [Tasks -> {"none", "new", "sleep", "sweep", "lock", "callback",
                                 "join", "done", "failed"}]
           /\ pc'[t] = "callback" /\ \A u \in Tasks \ {t} : pc'[u] = pc[u]
           /\ window' = <<>> /\ calling' = w /\ UNCHANGED queue
           /\ window' \in Seq(Reading) /\ calling' \in Seq(Reading)
<1>1. Goto(t, "callback", TRUE)
  BY DEF FlushLocked
<1> QED BY <1>1, GotoType, EmptySeq DEF FlushLocked

\* A batch is put among those delivered or dropped.
LEMMA BatchType ==
    ASSUME TypeOK
    PROVE  /\ <<>> \in Seq(Reading)
           /\ Append(delivered, calling) \in Seq(Seq(Reading))
           /\ Append(dropped, calling) \in Seq(Seq(Reading))
<1>1. calling \in Seq(Reading) /\ {delivered, dropped} \subseteq Seq(Seq(Reading))
  BY DEF TypeOK
<1>2. \A bs \in Seq(Seq(Reading)) : Append(bs, calling) \in Seq(Seq(Reading))
  BY <1>1, AppendProperties
<1> QED BY <1>1, <1>2, EmptySeq

LEMMA TypeStep ==
    ASSUME TypeOK, LockInv, RunInv, [Next]_vars
    PROVE  TypeOK'
<1> USE DEF Tasks
<1>1. CASE RunStarts
  <2> DEFINE p == IF stopped THEN "done" ELSE "sleep"
             f == IF Timed THEN "new" ELSE "none"
  <2>1. pc' = [pc EXCEPT !["run"] = p, !["flusher"] = f]
    BY <1>1 DEF RunStarts
  <2>2. p \in {"done", "sleep"} /\ f \in {"new", "none"}
    OBVIOUS
  <2> HIDE DEF p, f
  <2> QED BY <1>1, <2>1, <2>2 DEF RunStarts, TypeOK, counts, ghosts
<1>2. CASE RunWakes
  <2>1. Goto("run", "sweep", TRUE)
    BY <1>2 DEF RunWakes
  <2>2. sweep' \in 0 .. MaxSweeps /\ at' \in 1 .. NumMeters + 1
    BY <1>2, NumbersAssumption DEF RunWakes, TypeOK
  <2> QED BY <1>2, <2>1, <2>2, GotoType DEF RunWakes, TypeOK, counts, ghosts
<1>3. CASE Reject
  <2>1. Goto("run", "sweep", TRUE)
    BY <1>3 DEF Reject
  <2>2. at' \in 1 .. NumMeters + 1
    BY <1>3, NumbersAssumption DEF Reject, TypeOK
  <2>3. rejected' = rejected \cup {Fresh} /\ Fresh \in Reading
    BY <1>3, FreshType DEF Reject, RunInv, Fresh
  <2> QED BY <1>3, <2>1, <2>2, <2>3, GotoType DEF Reject, TypeOK, counts, ghosts
<1>4. CASE Accept
  BY <1>4, AskLockType DEF Accept, TypeOK, counts, ghosts
<1>5. CASE Add
  <2> DEFINE w == Append(window, Fresh)
  <2>1. w \in Seq(Reading) /\ at <= NumMeters
    BY <1>5, FreshType, AppendProperties DEF Add, RunInv, TypeOK
  <2>2. CASE FlushLocked("run", w) /\ UNCHANGED <<at, counted>>
    BY <1>5, <2>1, <2>2, FlushLockedType DEF Add, TypeOK, ghosts
  <2>3. CASE window' = w /\ UNCHANGED calling /\ Release /\ AfterLock("run")
    <3>1. queue' \in Seq(Tasks)
      BY <1>5, <2>3, QueueTail DEF Add, Holds, Release, TypeOK
    <3> QED BY <1>5, <2>1, <2>3, <3>1, AfterLockType DEF Add, TypeOK, ghosts
  <2> QED BY <1>5, <2>2, <2>3 DEF Add, Fresh
<1>6. CASE SweepEnds
  <2>1. Goto("run", "done", FALSE) \/ Goto("run", "sleep", FALSE)
    BY <1>6 DEF SweepEnds
  <2> QED BY <1>6, <2>1, GotoType DEF SweepEnds, TypeOK, counts, ghosts
<1>7. CASE FlusherStarts
  <2>1. Goto("flusher", "done", FALSE) \/ Goto("flusher", "sleep", FALSE)
    BY <1>7 DEF FlusherStarts
  <2> QED BY <1>7, <2>1, GotoType DEF FlusherStarts, TypeOK, counts, ghosts
<1>8. CASE FlusherWakes
  BY <1>8, AskLockType DEF FlusherWakes, TypeOK, counts, ghosts
<1>9. ASSUME NEW t \in {"flusher", "stop"}, Holds(t), FlushNothing(t),
             UNCHANGED <<stopped, cancelled, sweep, rejected, delivered, dropped, ghosts>>
      PROVE  TypeOK'
  <2>1. queue' \in Seq(Tasks)
    BY <1>9, QueueTail DEF Holds, FlushNothing, Release, TypeOK
  <2> QED BY <1>9, <2>1, AfterLockType DEF FlushNothing, TypeOK, ghosts
<1>10. ASSUME NEW t \in {"flusher", "stop"}, FlushLocked(t, window),
              UNCHANGED <<at, counted>>,
              UNCHANGED <<stopped, cancelled, sweep, rejected, delivered, dropped, ghosts>>
       PROVE  TypeOK'
  BY <1>10, FlushLockedType DEF TypeOK, ghosts
<1>11. CASE FlusherFlushes
  BY <1>9, <1>10, <1>11 DEF FlusherFlushes
<1>12. CASE FlusherCancelled
  <2>1. Goto("flusher", "done", FALSE)
    BY <1>12 DEF FlusherCancelled
  <2>2. queue' \in Seq(Tasks)
    BY <1>12, QueueTail DEF FlusherCancelled, Holds, TypeOK
  <2>3. calling' \in Seq(Reading) /\ dropped' \in Seq(Seq(Reading))
    BY <1>12, BatchType DEF FlusherCancelled, TypeOK
  <2> QED BY <1>12, <2>1, <2>2, <2>3, GotoType DEF FlusherCancelled, TypeOK, counts, ghosts
<1>13. CASE StopCalled
  <2>1. atStop' \subseteq Reading /\ stopped' \in BOOLEAN
    BY <1>13, ToSetFacts DEF StopCalled, TypeOK
  <2>2. CASE pc["flusher"] = "none"
    BY <1>13, <2>1, <2>2, AskLockType DEF StopCalled, TypeOK, counts
  <2>3. CASE pc["flusher"] # "none"
    <3>1. queue' \in Seq(Tasks)
      BY <1>13, <2>3, QueueRemove DEF StopCalled, LeaveQueue, TypeOK
    <3>2. Goto("stop", "join", pc["flusher"] = "failed") /\ cancelled' \in BOOLEAN
      BY <1>13, <2>3 DEF StopCalled
    <3>3. (pc["flusher"] = "failed") \in BOOLEAN
      OBVIOUS
    <3> QED BY <1>13, <2>1, <3>1, <3>2, <3>3, GotoType DEF StopCalled, TypeOK, counts
  <2> QED BY <2>2, <2>3
<1>14. CASE StopJoins
  <2>1. CASE Goto("stop", "failed", FALSE) /\ UNCHANGED queue
    BY <1>14, <2>1, GotoType DEF StopJoins, TypeOK, counts, ghosts
  <2>2. CASE AskLock("stop")
    BY <1>14, <2>2, AskLockType DEF StopJoins, TypeOK, counts, ghosts
  <2> QED BY <1>14, <2>1, <2>2 DEF StopJoins
<1>15. CASE StopFlushes
  BY <1>9, <1>10, <1>15 DEF StopFlushes
<1>16. ASSUME NEW t \in Tasks, CallbackSuspends(t) PROVE TypeOK'
  BY <1>16 DEF CallbackSuspends, TypeOK, counts, ghosts
<1>17. ASSUME NEW t \in Tasks, CallbackReturns(t) \/ CallbackRaises(t) PROVE TypeOK'
  <2>1. queue' \in Seq(Tasks) /\ (t = "run" => at <= NumMeters)
    BY <1>17, QueueTail
       DEF CallbackReturns, CallbackRaises, Answers, Release, TypeOK, LockInv, RunInv
  <2>2. calling' = <<>> /\ calling' \in Seq(Reading)
    BY <1>17, BatchType DEF CallbackReturns, CallbackRaises
  <2>3. CASE CallbackReturns(t)
    BY <2>1, <2>2, <2>3, AfterLockType, BatchType DEF CallbackReturns, TypeOK, ghosts
  <2>4. CASE CallbackRaises(t)
    <3>1. Goto(t, "failed", FALSE)
      BY <2>4 DEF CallbackRaises
    <3>2. raises' \in 0 .. MaxRaises
      <4>1. raises \in 0 .. MaxRaises /\ raises < MaxRaises /\ raises' = raises + 1
        BY <2>4 DEF CallbackRaises, TypeOK
      <4> QED BY <4>1, NumbersAssumption
    <3> QED BY <2>1, <2>2, <2>4, <3>1, <3>2, GotoType, BatchType
            DEF CallbackRaises, TypeOK, counts
  <2> QED BY <1>17, <2>3, <2>4
<1>18. CASE UNCHANGED vars
  BY <1>18 DEF vars, counts, ghosts, TypeOK
<1> QED
  BY <1>1, <1>2, <1>3, <1>4, <1>5, <1>6, <1>7, <1>8, <1>11, <1>12, <1>13, <1>14,
     <1>15, <1>16, <1>17, <1>18
     DEF Next, Run, Flusher, Stop, Callback, Finished
-----------------------------------------------------------------------------
(* The lock *)

\* Who holds the lock and does not await a callback finds none awaited.
LEMMA HolderAlone ==
    ASSUME TypeOK, LockInv, NEW t \in Tasks, Holds(t), pc[t] # "callback"
    PROVE  calling = <<>>
  BY QueueTail DEF TypeOK, LockInv, Holds

\* Tasks that are not in the queue go on without asking for the lock.
LEMMA LockUntouched ==
    ASSUME TypeOK, LockInv, NEW T \in SUBSET Tasks,
           \A t \in T : pc[t] \notin {"lock", "callback"} /\ pc'[t] # "callback",
           \A t \in Tasks \ T : pc'[t] = pc[t],
           UNCHANGED <<queue, cancelled, calling, window>>
    PROVE  LockInv'
<1>1. \A i \in 1 .. Len(queue) : queue[i] \in Tasks \ T
  BY ElementOfSeq DEF TypeOK, LockInv
<1>2. \A t \in Tasks : pc'[t] = "callback" <=> pc[t] = "callback"
  OBVIOUS
<1> QED BY <1>1, <1>2 DEF LockInv

LEMMA LockAsked ==
    ASSUME TypeOK, LockInv, NEW t \in Tasks, pc[t] \notin {"lock", "callback"},
           AskLock(t), t = "flusher" => ~cancelled, UNCHANGED <<cancelled, calling, window>>
    PROVE  LockInv'
<1>1. /\ queue' = Append(queue, t)
      /\ pc'[t] = "lock" /\ \A u \in Tasks \ {t} : pc'[u] = pc[u]
  BY AskLockType DEF AskLock
<1>2. /\ Len(queue) \in Nat /\ Len(queue') = Len(queue) + 1 /\ queue' # <<>>
      /\ \A i \in 1 .. Len(queue) : queue'[i] = queue[i]
      /\ queue'[Len(queue) + 1] = t /\ (queue # <<>> => Len(queue) >= 1)
  BY <1>1, QueueAppend DEF TypeOK
<1>3. \A i \in 1 .. Len(queue) : queue[i] \in Tasks \ {t}
  BY ElementOfSeq DEF TypeOK, LockInv
<1>4. \A u \in Tasks : pc'[u] = "callback" <=> pc[u] = "callback"
  BY <1>1
<1>5. /\ \A i, j \in 1 .. Len(queue') : queue'[i] = queue'[j] => i = j
      /\ \A i \in 1 .. Len(queue') : pc'[queue'[i]] \in {"lock", "callback"}
  BY <1>1, <1>2, <1>3 DEF LockInv
<1>6. cancelled' => \A i \in 2 .. Len(queue') : queue'[i] # "flusher"
  BY <1>2, <1>3 DEF LockInv
<1> QED BY <1>2, <1>4, <1>5, <1>6 DEF LockInv

\* The holder begins a callback.
LEMMA LockCalling ==
    ASSUME TypeOK, LockInv, NEW t \in Tasks, Holds(t), pc'[t] = "callback",
           \A u \in Tasks \ {t} : pc'[u] = pc[u], pc[t] # "callback",
           calling' # <<>>, window' = <<>>, UNCHANGED <<queue, cancelled>>
    PROVE  LockInv'
<1>1. queue[1] = t /\ queue # <<>>
  BY QueueTail DEF Holds, TypeOK
<1>2. \A u \in Tasks : pc[u] # "callback"
  BY <1>1 DEF LockInv
<1>3. \A i \in 1 .. Len(queue) : pc'[queue[i]] \in {"lock", "callback"}
  BY ElementOfSeq DEF TypeOK, LockInv
<1> QED BY <1>1, <1>2, <1>3 DEF LockInv

\* The holder releases the lock.
LEMMA LockReleased ==
    ASSUME TypeOK, LockInv, NEW t \in Tasks, Holds(t), pc'[t] # "callback",
           \A u \in Tasks \ {t} : pc'[u] = pc[u],
           queue' = Tail(queue), calling' = <<>>, UNCHANGED cancelled
    PROVE  LockInv'
<1>1. /\ queue # <<>> /\ queue[1] = t /\ Len(queue) \in Nat /\ Len(queue) >= 1
      /\ Len(queue') = Len(queue) - 1
      /\ \A i \in 1 .. Len(queue) - 1 : queue'[i] = queue[i + 1]
  BY QueueTail DEF Holds, TypeOK
<1>2. \A u \in Tasks : pc'[u] # "callback"
  BY <1>1 DEF LockInv
<1>3. \A i \in 1 .. Len(queue) - 1 : queue[i + 1] \in Tasks \ {t}
  BY <1>1, ElementOfSeq DEF TypeOK, LockInv
<1>4. /\ \A i, j \in 1 .. Len(queue') : queue'[i] = queue'[j] => i = j
      /\ \A i \in 1 .. Len(queue') : pc'[queue'[i]] \in {"lock", "callback"}
  BY <1>1, <1>3 DEF LockInv
<1>5. cancelled' => \A i \in 2 .. Len(queue') : queue'[i] # "flusher"
  BY <1>1 DEF LockInv
<1> QED BY <1>2, <1>4, <1>5 DEF LockInv

\* The flusher leaves the queue unless it holds the lock.
LEMMA LockLeft ==
    ASSUME TypeOK, LockInv, LeaveQueue("flusher"), pc["stop"] = "none",
           pc' = [pc EXCEPT !["stop"] = "join"], UNCHANGED <<calling, window>>
    PROVE  LockInv'
<1>1. /\ \A t \in Tasks : pc'[t] = "callback" <=> pc[t] = "callback"
      /\ \A t \in Tasks \ {"stop"} : pc'[t] = pc[t]
      /\ \A i \in 1 .. Len(queue) : queue[i] \in Tasks \ {"stop"}
  BY ElementOfSeq DEF TypeOK, LockInv, Tasks
<1>2. CASE (\A i \in 2 .. Len(queue) : queue[i] # "flusher") /\ UNCHANGED queue
  <2>1. \A i \in 1 .. Len(queue) : pc'[queue[i]] = pc[queue[i]]
    BY <1>1
  <2> QED BY <1>1, <1>2, <2>1 DEF LockInv
<1>3. ASSUME NEW k \in 2 .. Len(queue), queue[k] = "flusher", queue' = RemoveAt(queue, k)
      PROVE  LockInv'
  <2>1. /\ queue' # <<>> /\ Len(queue) \in Nat /\ Len(queue') = Len(queue) - 1
        /\ \A i \in 1 .. k - 1 : queue'[i] = queue[i]
        /\ \A i \in k .. Len(queue) - 1 : queue'[i] = queue[i + 1]
    BY <1>3, QueueRemove DEF TypeOK
  <2> DEFINE from == [i \in 1 .. Len(queue) - 1 |-> IF i < k THEN i ELSE i + 1]
  <2>2. \A i \in 1 .. Len(queue') :
           /\ from[i] \in 1 .. Len(queue) /\ from[i] # k /\ queue'[i] = queue[from[i]]
           /\ i > 1 => from[i] > 1
           /\ \A j \in 1 .. Len(queue') : from[i] = from[j] => i = j
    BY <2>1
  <2> HIDE DEF from
  <2>3. /\ \A i, j \in 1 .. Len(queue') : queue'[i] = queue'[j] => i = j
        /\ \A i \in 1 .. Len(queue') : pc'[queue'[i]] \in {"lock", "callback"}
    BY <1>1, <2>2 DEF LockInv
  <2>4. \A i \in 2 .. Len(queue') : queue'[i] # "flusher"
    BY <1>3, <2>1, <2>2 DEF LockInv
  <2>5. queue'[1] = queue[1]
    BY <2>1
  <2> QED BY <1>1, <2>1, <2>3, <2>4, <2>5 DEF LockInv
<1> QED BY <1>2, <1>3 DEF LeaveQueue
LEMMA LockStep ==
    ASSUME TypeOK, LockInv, RunInv, [Next]_vars, TypeOK'
    PROVE  LockInv'
<1> USE DEF Tasks
<1>1. CASE RunStarts
  <2>1. \A t \in {"run", "flusher"} : /\ pc[t] \notin {"lock", "callback"}
                                      /\ pc'[t] # "callback"
    BY <1>1 DEF RunStarts, RunInv, TypeOK
  <2>2. \A t \in Tasks \ {"run", "flusher"} : pc'[t] = pc[t]
    BY <1>1 DEF RunStarts, TypeOK
  <2>3. {"run", "flusher"} \in SUBSET Tasks
    OBVIOUS
  <2> QED BY <1>1, <2>1, <2>2, <2>3, LockUntouched DEF RunStarts
<1>2. ASSUME NEW t \in Tasks, pc[t] \notin {"lock", "callback"},
             NEW p \in {"sweep", "sleep", "done", "failed", "join"},
             pc' = [pc EXCEPT ![t] = p],
             UNCHANGED <<queue, cancelled, calling, window>>
      PROVE  LockInv'
  <2>1. pc'[t] = p /\ \A u \in Tasks \ {t} : pc'[u] = pc[u]
    BY <1>2 DEF TypeOK
  <2>2. {t} \in SUBSET Tasks /\ \A u \in {t} : pc[u] \notin {"lock", "callback"}
                                           /\ pc'[u] # "callback"
    BY <1>2, <2>1
  <2> QED BY <1>2, <2>1, <2>2, LockUntouched
<1>3. CASE RunWakes \/ Reject \/ SweepEnds
  <2>1. \E p \in {"sweep", "sleep", "done"} : pc' = [pc EXCEPT !["run"] = p]
    BY <1>3 DEF RunWakes, Reject, SweepEnds, Goto
  <2> QED BY <1>2, <1>3, <2>1 DEF RunWakes, Reject, SweepEnds, counts
<1>4. CASE Accept
  BY <1>4, LockAsked DEF Accept
<1>5. CASE FlusherStarts
  <2>1. \E p \in {"sleep", "done"} : pc' = [pc EXCEPT !["flusher"] = p]
    BY <1>5 DEF FlusherStarts, Goto
  <2> QED BY <1>2, <1>5, <2>1 DEF FlusherStarts
<1>6. CASE FlusherWakes
  BY <1>6, LockAsked DEF FlusherWakes
<1>7. ASSUME NEW t \in Tasks, Holds(t), pc[t] = "lock", NEW w \in Seq(Reading), w # <<>>,
             FlushLocked(t, w), UNCHANGED cancelled
      PROVE  LockInv'
  BY <1>7, FlushLockedType, LockCalling
<1>8. ASSUME NEW t \in Tasks, Holds(t), pc[t] = "lock" \/ calling' = <<>>, AfterLock(t),
             t = "run" => at <= NumMeters,
             Release, UNCHANGED cancelled, UNCHANGED calling \/ calling' = <<>>
      PROVE  LockInv'
  <2>1. pc'[t] # "callback" /\ \A u \in Tasks \ {t} : pc'[u] = pc[u]
    BY <1>8, AfterLockType
  <2>2. calling' = <<>>
    BY <1>8, HolderAlone
  <2> QED BY <1>8, <2>1, <2>2, LockReleased DEF Release
<1>9. CASE Add
  <2> DEFINE w == Append(window, Fresh)
  <2>1. w \in Seq(Reading) /\ w # <<>> /\ at <= NumMeters
    <3>1. Fresh \in Reading /\ at <= NumMeters /\ window \in Seq(Reading)
      BY <1>9, FreshType DEF Add, RunInv, TypeOK
    <3> QED BY <3>1, AppendProperties
  <2>2. CASE FlushLocked("run", w)
    BY <1>7, <1>9, <2>1, <2>2 DEF Add
  <2>3. CASE window' = w /\ UNCHANGED calling /\ Release /\ AfterLock("run")
    BY <1>8, <1>9, <2>1, <2>3 DEF Add
  <2> QED BY <1>9, <2>2, <2>3 DEF Add, Fresh
<1>10. CASE FlusherFlushes
  <2>1. CASE FlushNothing("flusher")
    BY <1>8, <1>10, <2>1 DEF FlusherFlushes, FlushNothing
  <2>2. CASE window # <<>> /\ FlushLocked("flusher", window)
    BY <1>7, <1>10, <2>2 DEF FlusherFlushes, TypeOK
  <2> QED BY <1>10, <2>1, <2>2 DEF FlusherFlushes
<1>11. CASE StopFlushes
  <2>1. CASE FlushNothing("stop")
    BY <1>8, <1>11, <2>1 DEF StopFlushes, FlushNothing
  <2>2. CASE window # <<>> /\ FlushLocked("stop", window)
    BY <1>7, <1>11, <2>2 DEF StopFlushes, TypeOK
  <2> QED BY <1>11, <2>1, <2>2 DEF StopFlushes
<1>12. CASE FlusherCancelled
  <2>1. pc'["flusher"] = "done" /\ \A u \in Tasks \ {"flusher"} : pc'[u] = pc[u]
    BY <1>12 DEF FlusherCancelled, Goto, TypeOK
  <2>2. CASE Holds("flusher")
    <3>1. calling' = <<>>
      BY <1>12, <2>2, HolderAlone DEF FlusherCancelled
    <3> QED BY <1>12, <2>1, <2>2, <3>1, LockReleased DEF FlusherCancelled
  <2>3. CASE ~Holds("flusher")
    <3>1. pc["flusher"] # "callback" /\ UNCHANGED <<queue, calling, window>>
      BY <1>12, <2>3, QueueTail DEF FlusherCancelled, LockInv, Holds, TypeOK
    <3>2. \A i \in 1 .. Len(queue) : queue[i] # "flusher"
      <4>1. queue # <<>> => queue[1] # "flusher"
        BY <2>3, QueueTail DEF Holds, TypeOK
      <4>2. Len(queue) \in Nat /\ (Len(queue) >= 1 => queue # <<>>)
        BY LenProperties, EmptySeq DEF TypeOK
      <4>3. \A i \in 2 .. Len(queue) : queue[i] # "flusher"
        BY <1>12 DEF FlusherCancelled, LockInv
      <4> QED BY <4>1, <4>2, <4>3
    <3>3. \A i \in 1 .. Len(queue) : pc'[queue[i]] \in {"lock", "callback"}
      <4>1. \A i \in 1 .. Len(queue) : queue[i] \in Tasks
        BY ElementOfSeq DEF TypeOK
      <4> QED BY <2>1, <3>2, <4>1 DEF LockInv
    <3>4. \A t \in Tasks : pc'[t] = "callback" <=> pc[t] = "callback"
      BY <2>1, <3>1
    <3> QED BY <1>12, <3>1, <3>3, <3>4 DEF LockInv, FlusherCancelled
  <2> QED BY <2>2, <2>3
<1>13. CASE StopCalled
  <2>1. CASE pc["flusher"] = "none"
    BY <1>13, <2>1, LockAsked DEF StopCalled
  <2>2. CASE pc["flusher"] # "none"
    BY <1>13, <2>2, LockLeft DEF StopCalled, Goto
  <2> QED BY <2>1, <2>2
<1>14. CASE StopJoins
  <2>1. CASE AskLock("stop")
    BY <1>14, <2>1, LockAsked DEF StopJoins
  <2>2. CASE Goto("stop", "failed", FALSE) /\ UNCHANGED queue
    BY <1>2, <1>14, <2>2 DEF StopJoins, Goto
  <2> QED BY <1>14, <2>1, <2>2 DEF StopJoins
<1>15. ASSUME NEW t \in Tasks, CallbackSuspends(t) PROVE LockInv'
  BY <1>15 DEF CallbackSuspends, LockInv
<1>16. ASSUME NEW t \in Tasks, Answers(t)
       PROVE  Holds(t) /\ (t = "run" => at <= NumMeters)
  BY <1>16, QueueTail DEF Answers, LockInv, RunInv, Holds, TypeOK
<1>17. ASSUME NEW t \in Tasks, CallbackReturns(t) PROVE LockInv'
  BY <1>8, <1>16, <1>17 DEF CallbackReturns
<1>18. ASSUME NEW t \in Tasks, CallbackRaises(t) PROVE LockInv'
  <2>1. pc'[t] # "callback" /\ \A u \in Tasks \ {t} : pc'[u] = pc[u]
    BY <1>18 DEF CallbackRaises, Goto, TypeOK
  <2> QED BY <1>16, <1>18, <2>1, LockReleased DEF CallbackRaises, Release
<1>19. CASE UNCHANGED vars
  BY <1>19 DEF vars, LockInv
<1> QED
  BY <1>1, <1>3, <1>4, <1>5, <1>6, <1>9, <1>10, <1>11, <1>12, <1>13, <1>14,
     <1>15, <1>17, <1>18, <1>19
     DEF Next, Run, Flusher, Stop, Callback, Finished
-----------------------------------------------------------------------------
(* What a step does to the readings *)

\* 1 while the reading at which run is has been taken and is not counted.
Behind == IF pc["run"] \in {"callback", "failed"} THEN 1 ELSE 0

\* Batches stay, or the window becomes the batch of a callback, or the callback
\* of a batch returns, or it drops the batch.
Keeps == UNCHANGED <<window, calling, delivered, dropped>>

Seals ==
    /\ window # <<>> /\ calling = <<>>
    /\ window' = <<>> /\ calling' = window
    /\ UNCHANGED <<delivered, dropped>>

Delivers ==
    /\ calling # <<>> /\ window = <<>>
    /\ calling' = <<>> /\ delivered' = Append(delivered, calling)
    /\ UNCHANGED <<window, dropped>>

Drops ==
    /\ calling # <<>> /\ window = <<>>
    /\ calling' = <<>> /\ dropped' = Append(dropped, calling)
    /\ UNCHANGED <<window, delivered>>

\* The window takes a reading in, and may be full with it.
Takes ==
    /\ calling = <<>>
    /\ \/ window' = Append(window, Fresh) /\ UNCHANGED calling
       \/ window' = <<>> /\ calling' = Append(window, Fresh)
    /\ UNCHANGED <<delivered, dropped>>

\* The steps by what they do to the readings and to the counts.
MovesBatches ==
    /\ Keeps \/ Seals \/ Delivers \/ Drops
    /\ Swept' = Swept /\ rejected' = rejected
    /\ counted' + Behind' = counted + Behind

Refuses ==
    /\ Keeps
    /\ Fresh \in Reading \ Swept /\ Swept' = Swept \cup {Fresh}
    /\ rejected' = rejected \cup {Fresh}
    /\ counted' + Behind' = counted + Behind

TakesIn ==
    /\ Takes
    /\ Fresh \in Reading \ Swept /\ Swept' = Swept \cup {Fresh}
    /\ rejected' = rejected
    /\ counted' + Behind' = counted + Behind + 1

LEMMA FreshIs ==
    ASSUME TypeOK, sweep > 0, at <= NumMeters
    PROVE  /\ Fresh \in Reading
           /\ \A r \in Reading : r = Fresh <=> r.sweep = sweep /\ r.meter = at
<1>1. Fresh \in Reading
  BY FreshType
<1> QED BY <1>1 DEF Fresh, Reading

\* The readings swept when run goes on to the next meter, or suspends at one.
LEMMA SweptOne ==
    ASSUME TypeOK, sweep > 0, at <= NumMeters, pc["run"] \notin {"callback", "failed"},
           sweep' = sweep,
           \/ at' = at + 1 /\ pc'["run"] \notin {"callback", "failed"}
           \/ at' = at /\ pc'["run"] \in {"callback", "failed"}
    PROVE  Fresh \in Reading \ Swept /\ Swept' = Swept \cup {Fresh}
<1>1. /\ Fresh \in Reading
      /\ \A r \in Reading : r = Fresh <=> r.sweep = sweep /\ r.meter = at
  BY FreshIs
<1>2. \A r \in Reading : r.sweep \in Int /\ r.meter \in Int
  BY DEF Reading
<1>3. Fresh \notin Swept
  <2>1. Fresh.sweep = sweep /\ Fresh.meter = at /\ sweep \in Int /\ at \in Int
    BY DEF Fresh, TypeOK
  <2> QED BY <2>1 DEF Swept
<1>4. at \in Int /\ sweep \in Int
  BY DEF TypeOK
<1>5. ASSUME NEW r \in Reading PROVE r \in Swept' <=> r \in Swept \/ r = Fresh
  <2>1. CASE at' = at + 1 /\ pc'["run"] \notin {"callback", "failed"}
    BY <1>1, <1>2, <1>4, <2>1 DEF Swept
  <2>2. CASE at' = at /\ pc'["run"] \in {"callback", "failed"}
    BY <1>1, <1>2, <1>4, <2>2 DEF Swept
  <2> QED BY <2>1, <2>2
<1>6. Swept \subseteq Reading /\ Swept' \subseteq Reading
  BY DEF Swept
<1> QED BY <1>1, <1>3, <1>5, <1>6

LEMMA SweptSame ==
    ASSUME UNCHANGED <<sweep, at>>,
           pc'["run"] \in {"callback", "failed"} <=> pc["run"] \in {"callback", "failed"}
    PROVE  Swept' = Swept /\ Behind' = Behind
  BY DEF Swept, Behind

\* run goes on after a callback that returned, or begins the next sweep.
LEMMA SweptCallback ==
    ASSUME TypeOK, TypeOK', sweep' = sweep, at' = at + 1,
           pc["run"] = "callback", pc'["run"] = "sweep"
    PROVE  Swept' = Swept
<1>1. \A r \in Reading : r.sweep \in Int /\ r.meter \in Int
  BY DEF Reading
<1>2. at \in Int /\ sweep \in Int
  BY DEF TypeOK
<1>3. \A r \in Reading : r \in Swept' <=> r \in Swept
  BY <1>1, <1>2 DEF Swept
<1> QED BY <1>3 DEF Swept

LEMMA SweptWake ==
    ASSUME TypeOK, sweep' = sweep + 1, at' = 1, sweep = 0 \/ at > NumMeters,
           pc["run"] = "sleep", pc'["run"] = "sweep"
    PROVE  Swept' = Swept
<1>1. \A r \in Reading : r.sweep \in 1 .. MaxSweeps /\ r.meter \in 1 .. NumMeters
  BY DEF Reading
<1>2. at \in Int /\ sweep \in Nat /\ NumMeters \in Nat
  BY NumbersAssumption DEF TypeOK
<1>3. \A r \in Reading : r \in Swept' <=> r \in Swept
  BY <1>1, <1>2 DEF Swept
<1> QED BY <1>3 DEF Swept
\* The flush of the window by its holder, and what a callback ends with.
LEMMA HolderSeals ==
    ASSUME TypeOK, LockInv, NEW t \in Tasks, Holds(t), pc[t] = "lock", window # <<>>,
           FlushLocked(t, window), UNCHANGED <<delivered, dropped>>
    PROVE  Seals
  BY HolderAlone DEF Seals, FlushLocked

LEMMA CallbackEnds ==
    ASSUME TypeOK, LockInv, NEW t \in Tasks, pc[t] = "callback"
    PROVE  calling # <<>> /\ window = <<>>
  BY DEF LockInv

\* The flusher and stop leave run where it is.
LEMMA OthersMove ==
    ASSUME TypeOK, LockInv, RunInv,
           Flusher \/ StopCalled \/ Stop
    PROVE  /\ MovesBatches /\ UNCHANGED <<sweep, at, counts>> /\ pc'["run"] = pc["run"]
           /\ pc["flusher"] = "none" => pc'["flusher"] = "none"
<1> USE DEF Tasks
<1>1. /\ Keeps \/ Seals \/ Delivers \/ Drops
      /\ UNCHANGED <<sweep, at, counts>> /\ pc'["run"] = pc["run"]
      /\ pc["flusher"] = "none" => pc'["flusher"] = "none"
  <2>1. CASE FlusherStarts
    BY <2>1 DEF FlusherStarts, Goto, TypeOK, Keeps
  <2>2. CASE FlusherWakes
    BY <2>2, AskLockType DEF FlusherWakes, Keeps
  <2>3. ASSUME NEW t \in {"flusher", "stop"}, Holds(t), pc[t] = "lock",
               \/ FlushNothing(t)
               \/ window # <<>> /\ FlushLocked(t, window) /\ UNCHANGED <<at, counted>>,
               UNCHANGED <<stopped, cancelled, sweep, rejected, delivered, dropped, ghosts>>
        PROVE  /\ (Keeps \/ Seals) /\ UNCHANGED <<sweep, at, counts>> /\ pc'["run"] = pc["run"]
               /\ pc["flusher"] = "none" => pc'["flusher"] = "none"
    <3>1. CASE FlushNothing(t)
      BY <2>3, <3>1, AfterLockType DEF FlushNothing, Keeps, counts
    <3>2. CASE window # <<>> /\ FlushLocked(t, window) /\ UNCHANGED <<at, counted>>
      BY <2>3, <3>2, HolderSeals, FlushLockedType DEF TypeOK, counts
    <3> QED BY <2>3, <3>1, <3>2
  <2>4. CASE FlusherFlushes
    BY <2>3, <2>4 DEF FlusherFlushes
  <2>5. CASE FlusherCancelled
    <3>1. CASE pc["flusher"] = "callback"
      BY <2>5, <3>1, CallbackEnds DEF FlusherCancelled, Goto, TypeOK, Drops
    <3>2. CASE pc["flusher"] # "callback"
      BY <2>5, <3>2 DEF FlusherCancelled, Goto, TypeOK, Keeps
    <3> QED BY <3>1, <3>2
  <2>6. CASE StopCalled
    <3>1. CASE pc["flusher"] = "none"
      BY <2>6, <3>1, AskLockType DEF StopCalled, Keeps
    <3>2. CASE pc["flusher"] # "none"
      BY <2>6, <3>2 DEF StopCalled, Goto, Keeps, TypeOK
    <3> QED BY <3>1, <3>2
  <2>7. CASE StopJoins
    <3>1. CASE AskLock("stop")
      BY <2>7, <3>1, AskLockType DEF StopJoins, Keeps
    <3>2. CASE Goto("stop", "failed", FALSE)
      BY <2>7, <3>2 DEF StopJoins, Goto, Keeps, TypeOK
    <3> QED BY <2>7, <3>1, <3>2 DEF StopJoins
  <2>8. CASE StopFlushes
    BY <2>3, <2>8 DEF StopFlushes
  <2>9. ASSUME NEW t \in {"flusher", "stop"}, CallbackSuspends(t)
        PROVE  /\ Keeps /\ UNCHANGED <<sweep, at, counts>> /\ pc'["run"] = pc["run"]
               /\ pc["flusher"] = "none" => pc'["flusher"] = "none"
    BY <2>9 DEF CallbackSuspends, Keeps
  <2>10. ASSUME NEW t \in {"flusher", "stop"}, CallbackReturns(t)
         PROVE  /\ Delivers /\ UNCHANGED <<sweep, at, counts>> /\ pc'["run"] = pc["run"]
                /\ pc["flusher"] = "none" => pc'["flusher"] = "none"
    <3>1. pc[t] = "callback" /\ calling # <<>> /\ window = <<>>
      BY <2>10, CallbackEnds DEF CallbackReturns, Answers
    <3> QED BY <2>10, <3>1, AfterLockType DEF CallbackReturns, Delivers, counts
  <2>11. ASSUME NEW t \in {"flusher", "stop"}, CallbackRaises(t)
         PROVE  /\ Drops /\ UNCHANGED <<sweep, at, counts>> /\ pc'["run"] = pc["run"]
                /\ pc["flusher"] = "none" => pc'["flusher"] = "none"
    <3>1. pc[t] = "callback" /\ calling # <<>> /\ window = <<>>
      BY <2>11, CallbackEnds DEF CallbackRaises, Answers
    <3> QED BY <2>11, <3>1 DEF CallbackRaises, Drops, Goto, TypeOK
  <2> QED
    BY <2>1, <2>2, <2>4, <2>5, <2>6, <2>7, <2>8, <2>9, <2>10, <2>11
       DEF Flusher, Stop, Callback
<1>2. Swept' = Swept /\ Behind' = Behind
  BY <1>1, SweptSame
<1> QED BY <1>1, <1>2 DEF MovesBatches, counts

LEMMA RunMoves ==
    ASSUME TypeOK, LockInv, RunInv, TypeOK', Run
    PROVE  (MovesBatches \/ Refuses \/ TakesIn) /\ RunInv'
<1> USE DEF Tasks
<1>1. /\ counted \in Nat /\ at \in 1 .. NumMeters + 1 /\ sweep \in Nat
      /\ NumMeters \in Nat
  BY NumbersAssumption DEF TypeOK
<1>2. CASE RunStarts
  <2>1. pc'["run"] \in {"done", "sleep"}
    BY <1>2 DEF RunStarts, TypeOK
  <2>2. Swept' = Swept /\ Behind' = Behind
    BY <1>2, <2>1, SweptSame DEF RunStarts
  <2> QED BY <1>2, <2>1, <2>2 DEF RunStarts, MovesBatches, Keeps, RunInv, counts
<1>3. CASE RunWakes
  <2>1. pc'["run"] = "sweep"
    BY <1>3 DEF RunWakes, Goto, TypeOK
  <2>2. Swept' = Swept
    BY <1>3, <2>1, SweptWake DEF RunWakes, RunInv
  <2> QED BY <1>1, <1>3, <2>1, <2>2 DEF RunWakes, MovesBatches, Keeps, RunInv, Behind, counts
<1>4. CASE Reject
  <2>1. pc'["run"] = "sweep" /\ sweep > 0
    BY <1>4 DEF Reject, Goto, TypeOK, RunInv
  <2>2. Fresh \in Reading \ Swept /\ Swept' = Swept \cup {Fresh}
    BY <1>4, <2>1, SweptOne DEF Reject
  <2> QED BY <1>1, <1>4, <2>1, <2>2
          DEF Reject, Refuses, Keeps, RunInv, Behind, Fresh
<1>5. CASE Accept
  <2>1. pc'["run"] = "lock"
    BY <1>5, AskLockType DEF Accept
  <2>2. Swept' = Swept /\ Behind' = Behind
    BY <1>5, <2>1, SweptSame DEF Accept
  <2> QED BY <1>5, <2>1, <2>2 DEF Accept, MovesBatches, Keeps, RunInv, counts
<1>6. CASE Add
  <2> DEFINE w == Append(window, Fresh)
  <2>1. sweep > 0 /\ at <= NumMeters /\ calling = <<>> /\ pc["run"] = "lock"
    BY <1>6, HolderAlone DEF Add, RunInv
  <2>2. w \in Seq(Reading)
    BY <2>1, FreshType, AppendProperties DEF TypeOK
  <2>3. CASE FlushLocked("run", w) /\ UNCHANGED <<at, counted>>
    <3>1. pc'["run"] = "callback" /\ window' = <<>> /\ calling' = w
      BY <2>2, <2>3, FlushLockedType
    <3>2. Fresh \in Reading \ Swept /\ Swept' = Swept \cup {Fresh}
      BY <1>6, <2>1, <2>3, <3>1, SweptOne DEF Add
    <3>3. Takes
      BY <1>6, <2>1, <3>1 DEF Add, Takes
    <3> QED BY <1>1, <1>6, <2>1, <2>3, <3>1, <3>2, <3>3 DEF Add, TakesIn, RunInv, Behind
  <2>4. CASE window' = w /\ UNCHANGED calling /\ Release /\ AfterLock("run")
    <3>1. pc'["run"] = "sweep" /\ at' = at + 1 /\ counted' = counted + 1
      BY <2>1, <2>4, AfterLockType
    <3>2. Fresh \in Reading \ Swept /\ Swept' = Swept \cup {Fresh}
      BY <1>6, <2>1, <3>1, SweptOne DEF Add
    <3>3. Takes
      BY <1>6, <2>1, <2>4 DEF Add, Takes
    <3> QED BY <1>1, <1>6, <2>1, <3>1, <3>2, <3>3 DEF Add, TakesIn, RunInv, Behind
  <2> QED BY <1>6, <2>3, <2>4 DEF Add, Fresh
<1>7. CASE SweepEnds
  <2>1. pc'["run"] \in {"done", "sleep"}
    BY <1>7 DEF SweepEnds, Goto, TypeOK
  <2>2. Swept' = Swept /\ Behind' = Behind
    BY <1>7, <2>1, SweptSame DEF SweepEnds
  <2> QED BY <1>1, <1>7, <2>1, <2>2 DEF SweepEnds, MovesBatches, Keeps, RunInv, counts
<1>8. CASE CallbackSuspends("run")
  <2>1. Swept' = Swept /\ Behind' = Behind
    BY <1>8, SweptSame DEF CallbackSuspends
  <2> QED BY <1>8, <2>1 DEF CallbackSuspends, MovesBatches, Keeps, RunInv, counts
<1>9. CASE CallbackReturns("run")
  <2>1. pc["run"] = "callback" /\ calling # <<>> /\ window = <<>>
    BY <1>9, CallbackEnds DEF CallbackReturns, Answers
  <2>2. pc'["run"] = "sweep" /\ at' = at + 1 /\ counted' = counted + 1
    BY <1>9, <2>1, AfterLockType DEF CallbackReturns, RunInv
  <2>3. Swept' = Swept
    BY <1>9, <2>1, <2>2, SweptCallback DEF CallbackReturns
  <2>4. counted' + Behind' = counted + Behind
    BY <1>1, <2>1, <2>2 DEF Behind
  <2> QED BY <1>9, <2>1, <2>2, <2>3, <2>4
          DEF CallbackReturns, MovesBatches, Delivers, RunInv
<1>10. CASE CallbackRaises("run")
  <2>1. pc["run"] = "callback" /\ calling # <<>> /\ window = <<>>
    BY <1>10, CallbackEnds DEF CallbackRaises, Answers
  <2>2. pc'["run"] = "failed"
    BY <1>10 DEF CallbackRaises, Goto, TypeOK
  <2>3. Swept' = Swept /\ Behind' = Behind
    BY <1>10, <2>1, <2>2, SweptSame DEF CallbackRaises
  <2> QED BY <1>10, <2>1, <2>2, <2>3
          DEF CallbackRaises, MovesBatches, Drops, RunInv, counts
<1> QED
  BY <1>2, <1>3, <1>4, <1>5, <1>6, <1>7, <1>8, <1>9, <1>10 DEF Run, Callback

\* Every step does one of three things to the readings, and leaves run where a
\* sweep can go on.
LEMMA StepKinds ==
    ASSUME TypeOK, LockInv, RunInv, TypeOK', [Next]_vars
    PROVE  (MovesBatches \/ Refuses \/ TakesIn) /\ RunInv'
<1>1. CASE Run
  BY <1>1, RunMoves
<1>2. CASE Flusher \/ StopCalled \/ Stop
  BY <1>2, OthersMove DEF RunInv
<1>3. CASE UNCHANGED vars
  <2>1. Swept' = Swept /\ Behind' = Behind
    BY <1>3, SweptSame DEF vars
  <2> QED BY <1>3, <2>1 DEF vars, counts, MovesBatches, Keeps, RunInv
<1> QED BY <1>1, <1>2, <1>3 DEF Next, Finished
-----------------------------------------------------------------------------
(* What each task leaves alone *)

LEMMA OnlyRun ==
    ASSUME TypeOK, LockInv, RunInv, Run
    PROVE  /\ pc'["stop"] = pc["stop"] /\ UNCHANGED <<stopped, cancelled, atStop>>
           /\ pc["flusher"] # "none" => pc'["flusher"] = pc["flusher"]
           /\ UNCHANGED <<dropped, raises>> \/ CallbackRaises("run")
           /\ sweep' = sweep \/ (pc["run"] = "sleep" /\ Keeps)
           /\ pc'["run"] \in {"new", "sleep"} =>
                 Keeps /\ (stopped => pc["run"] \in {"new", "sleep"})
<1> USE DEF Tasks
<1>1. CASE RunStarts
  BY <1>1 DEF RunStarts, RunInv, TypeOK, ghosts, Keeps
<1>2. CASE RunWakes
  BY <1>2 DEF RunWakes, Goto, TypeOK, ghosts, Keeps
<1>3. CASE Reject
  BY <1>3 DEF Reject, Goto, TypeOK, ghosts
<1>4. CASE Accept
  BY <1>4, AskLockType DEF Accept, ghosts
<1>5. CASE Add
  <2> DEFINE w == Append(window, Fresh)
  <2>1. w \in Seq(Reading) /\ at <= NumMeters
    <3>1. Fresh \in Reading /\ at <= NumMeters /\ window \in Seq(Reading)
      BY <1>5, FreshType DEF Add, RunInv, TypeOK
    <3> QED BY <3>1, AppendProperties
  <2>2. CASE FlushLocked("run", w)
    BY <1>5, <2>1, <2>2, FlushLockedType DEF Add, ghosts
  <2>3. CASE AfterLock("run")
    BY <1>5, <2>1, <2>3, AfterLockType DEF Add, ghosts
  <2> QED BY <1>5, <2>2, <2>3 DEF Add, Fresh
<1>6. CASE SweepEnds
  BY <1>6 DEF SweepEnds, Goto, TypeOK, ghosts, Keeps
<1>7. CASE CallbackSuspends("run")
  BY <1>7 DEF CallbackSuspends, ghosts
<1>8. CASE CallbackReturns("run")
  BY <1>8, AfterLockType DEF CallbackReturns, Answers, RunInv, ghosts
<1>9. CASE CallbackRaises("run")
  BY <1>9 DEF CallbackRaises, Goto, TypeOK
<1> QED
  BY <1>1, <1>2, <1>3, <1>4, <1>5, <1>6, <1>7, <1>8, <1>9 DEF Run, Callback

\* The flusher is cancelled while it awaits its callback.
CancelsCallback ==
    /\ cancelled /\ pc["flusher"] = "callback" /\ pc'["flusher"] = "done"
    /\ dropped' = Append(dropped, calling) /\ UNCHANGED raises

LEMMA OnlyFlusher ==
    ASSUME TypeOK, LockInv, Flusher
    PROVE  /\ pc'["stop"] = pc["stop"] /\ UNCHANGED <<stopped, cancelled, atStop>>
           /\ pc["flusher"] # "done"
           /\ UNCHANGED <<dropped, raises>> \/ CallbackRaises("flusher") \/ CancelsCallback
<1> USE DEF Tasks
<1>1. CASE FlusherStarts
  BY <1>1 DEF FlusherStarts, Goto, TypeOK, ghosts
<1>2. CASE FlusherWakes
  BY <1>2, AskLockType DEF FlusherWakes, ghosts
<1>3. CASE FlusherFlushes
  <2>1. CASE FlushNothing("flusher")
    BY <1>3, <2>1, AfterLockType DEF FlusherFlushes, FlushNothing, ghosts
  <2>2. CASE FlushLocked("flusher", window)
    BY <1>3, <2>2, FlushLockedType DEF FlusherFlushes, TypeOK, ghosts
  <2> QED BY <1>3, <2>1, <2>2 DEF FlusherFlushes
<1>4. CASE FlusherCancelled
  BY <1>4 DEF FlusherCancelled, Goto, TypeOK, ghosts, CancelsCallback
<1>5. CASE CallbackSuspends("flusher")
  BY <1>5 DEF CallbackSuspends, ghosts
<1>6. CASE CallbackReturns("flusher")
  BY <1>6, AfterLockType DEF CallbackReturns, Answers, ghosts
<1>7. CASE CallbackRaises("flusher")
  BY <1>7 DEF CallbackRaises, Answers, Goto, TypeOK
<1> QED BY <1>1, <1>2, <1>3, <1>4, <1>5, <1>6, <1>7 DEF Flusher, Callback

LEMMA OnlyStop ==
    ASSUME TypeOK, LockInv, Stop
    PROVE  /\ pc'["flusher"] = pc["flusher"] /\ UNCHANGED <<stopped, cancelled, atStop>>
           /\ pc["stop"] # "none" /\ pc'["stop"] # "none"
           /\ pc'["stop"] = "done" => window' = <<>> /\ calling' = <<>>
           /\ UNCHANGED <<dropped, raises>> \/ CallbackRaises("stop")
<1> USE DEF Tasks
<1>1. CASE StopJoins
  <2>1. CASE AskLock("stop")
    BY <1>1, <2>1, AskLockType DEF StopJoins, ghosts
  <2>2. CASE Goto("stop", "failed", FALSE)
    BY <1>1, <2>2 DEF StopJoins, Goto, TypeOK, ghosts
  <2> QED BY <1>1, <2>1, <2>2 DEF StopJoins
<1>2. CASE StopFlushes
  <2>1. CASE FlushNothing("stop")
    BY <1>2, <2>1, AfterLockType, HolderAlone DEF StopFlushes, FlushNothing, ghosts
  <2>2. CASE FlushLocked("stop", window)
    BY <1>2, <2>2, FlushLockedType DEF StopFlushes, TypeOK, ghosts
  <2> QED BY <1>2, <2>1, <2>2 DEF StopFlushes
<1>3. CASE CallbackSuspends("stop")
  BY <1>3 DEF CallbackSuspends, ghosts
<1>4. CASE CallbackReturns("stop")
  BY <1>4, AfterLockType, CallbackEnds DEF CallbackReturns, Answers, ghosts
<1>5. CASE CallbackRaises("stop")
  BY <1>5 DEF CallbackRaises, Answers, Goto, TypeOK
<1> QED BY <1>1, <1>2, <1>3, <1>4, <1>5 DEF Stop, Callback

-----------------------------------------------------------------------------
(* The readings are accounted for *)

LEMMA TakenTypes ==
    ASSUME TypeOK
    PROVE  Taken \subseteq Reading
<1>1. /\ ToSet(window) \subseteq Reading /\ ToSet(calling) \subseteq Reading
      /\ ToSet(delivered) \subseteq Seq(Reading) /\ ToSet(dropped) \subseteq Seq(Reading)
  BY ToSetFacts DEF TypeOK
<1>2. ReadingsIn(delivered) \subseteq Reading /\ ReadingsIn(dropped) \subseteq Reading
  BY <1>1, ToSetFacts DEF ReadingsIn
<1> QED BY <1>1, <1>2 DEF Taken

LEMMA TakenStep ==
    ASSUME TypeOK
    PROVE  /\ Keeps \/ Seals \/ Delivers \/ Drops => Taken' = Taken
           /\ Takes /\ Fresh \in Reading => Taken' = Taken \cup {Fresh}
<1>1. ASSUME Keeps PROVE Taken' = Taken
  BY <1>1 DEF Keeps, Taken
<1>2. ASSUME Seals PROVE Taken' = Taken
  BY <1>2, EmptySet DEF Seals, Taken
<1>3. ASSUME Delivers PROVE Taken' = Taken
  <2>1. ReadingsIn(delivered') = ReadingsIn(delivered) \cup ToSet(calling)
    BY <1>3, ReadingsInAppend DEF Delivers, TypeOK
  <2> QED BY <1>3, <2>1, EmptySet DEF Delivers, Taken
<1>4. ASSUME Drops PROVE Taken' = Taken
  <2>1. ReadingsIn(dropped') = ReadingsIn(dropped) \cup ToSet(calling)
    BY <1>4, ReadingsInAppend DEF Drops, TypeOK
  <2> QED BY <1>4, <2>1, EmptySet DEF Drops, Taken
<1>5. ASSUME Takes, Fresh \in Reading PROVE Taken' = Taken \cup {Fresh}
  <2>1. ToSet(Append(window, Fresh)) = ToSet(window) \cup {Fresh}
    BY <1>5, ToSetFacts DEF TypeOK
  <2> QED BY <1>5, <2>1, EmptySet DEF Takes, Taken
<1> QED BY <1>1, <1>2, <1>3, <1>4, <1>5

LEMMA AccountsStep ==
    ASSUME TypeOK, TypeOK', MovesBatches \/ Refuses \/ TakesIn,
           IsFiniteSet(Taken), Accounted, CountsAgree
    PROVE  /\ IsFiniteSet(Taken)' /\ Accounted' /\ CountsAgree'
           /\ Taken \subseteq Taken'
<1>1. Cardinality(Taken) \in Nat /\ counted \in Nat /\ counted' \in Nat
  BY FS_CardinalityType DEF TypeOK
<1>2. Behind \in {0, 1} /\ Behind' \in {0, 1}
  BY DEF Behind
<1>3. CountsAgree <=> counted + Behind = Cardinality(Taken)
  BY <1>1, <1>2 DEF CountsAgree, Behind
<1>4. CASE MovesBatches
  <2>1. Taken' = Taken
    BY <1>4, TakenStep DEF MovesBatches
  <2>2. CountsAgree'
    BY <1>1, <1>2, <1>3, <1>4, <2>1 DEF MovesBatches, CountsAgree, Behind
  <2> QED BY <1>4, <2>1, <2>2 DEF MovesBatches, Accounted
<1>5. CASE Refuses
  <2>1. Taken' = Taken
    BY <1>5, TakenStep DEF Refuses
  <2>2. CountsAgree'
    BY <1>1, <1>2, <1>3, <1>5, <2>1 DEF Refuses, CountsAgree, Behind
  <2> QED BY <1>5, <2>1, <2>2 DEF Refuses, Accounted
<1>6. CASE TakesIn
  <2>1. Taken' = Taken \cup {Fresh} /\ Fresh \notin Taken
    BY <1>6, TakenStep DEF TakesIn, Accounted
  <2>2. IsFiniteSet(Taken)' /\ Cardinality(Taken)' = Cardinality(Taken) + 1
    BY <2>1, FS_AddElement
  <2>3. CountsAgree'
    BY <1>1, <1>2, <1>3, <1>6, <2>2 DEF TakesIn, CountsAgree, Behind
  <2> QED BY <1>6, <2>1, <2>2, <2>3 DEF TakesIn, Accounted
<1> QED BY <1>4, <1>5, <1>6

-----------------------------------------------------------------------------
(* Why batches are dropped *)

LEMMA OnlyCall ==
    ASSUME TypeOK, StopCalled
    PROVE  /\ pc["stop"] = "none" /\ pc'["stop"] \in {"lock", "join"}
           /\ pc'["flusher"] = pc["flusher"]
           /\ stopped' = TRUE /\ atStop' = ToSet(window)
           /\ UNCHANGED <<dropped, raises>>
<1> USE DEF Tasks
<1>1. CASE pc["flusher"] = "none"
  BY <1>1, AskLockType DEF StopCalled
<1>2. CASE pc["flusher"] # "none"
  BY <1>2 DEF StopCalled, Goto, TypeOK
<1> QED BY <1>1, <1>2

LEMMA DropsStep ==
    ASSUME TypeOK, LockInv, RunInv, StopInv, DropsExplained, [Next]_vars
    PROVE  DropsExplained'
<1> USE DEF Tasks
<1>1. /\ Len(dropped) \in Nat /\ raises \in Nat
      /\ Len(Append(dropped, calling)) = Len(dropped) + 1
  BY LenProperties, AppendProperties, NumbersAssumption DEF TypeOK
<1>2. ASSUME NEW t \in Tasks, CallbackRaises(t),
             pc["flusher"] = "done" => pc'["flusher"] = "done"
      PROVE  DropsExplained'
  <2>1. /\ raises' = raises + 1 /\ Len(dropped') = Len(dropped) + 1
        /\ UNCHANGED cancelled
    BY <1>1, <1>2 DEF CallbackRaises
  <2> QED BY <1>1, <1>2, <2>1 DEF DropsExplained
<1>3. CASE Run
  <2>1. CASE UNCHANGED <<dropped, raises>>
    BY <1>3, <2>1, OnlyRun DEF DropsExplained
  <2>2. CASE CallbackRaises("run")
    BY <1>2, <1>3, <2>2, OnlyRun
  <2> QED BY <1>3, <2>1, <2>2, OnlyRun
<1>4. CASE Flusher
  <2>1. pc["flusher"] # "done" /\ UNCHANGED cancelled /\ Len(dropped) = raises
    BY <1>4, OnlyFlusher DEF DropsExplained
  <2>2. CASE UNCHANGED <<dropped, raises>>
    BY <2>1, <2>2 DEF DropsExplained
  <2>3. CASE CallbackRaises("flusher")
    BY <1>2, <2>1, <2>3
  <2>4. CASE CancelsCallback
    BY <1>1, <2>1, <2>4 DEF CancelsCallback, DropsExplained
  <2> QED BY <1>4, <2>2, <2>3, <2>4, OnlyFlusher
<1>5. CASE StopCalled
  BY <1>5, OnlyCall DEF StopInv, DropsExplained
<1>6. CASE Stop
  <2>1. CASE UNCHANGED <<dropped, raises>>
    BY <1>6, <2>1, OnlyStop DEF DropsExplained
  <2>2. CASE CallbackRaises("stop")
    BY <1>2, <1>6, <2>2, OnlyStop
  <2> QED BY <1>6, <2>1, <2>2, OnlyStop
<1>7. CASE UNCHANGED vars
  BY <1>7 DEF vars, ghosts, DropsExplained
<1> QED BY <1>3, <1>4, <1>5, <1>6, <1>7 DEF Next, Finished

-----------------------------------------------------------------------------
(* What stop leaves *)

\* The readings that are neither delivered nor dropped.
InHand == ToSet(window) \cup ToSet(calling)

LEMMA ConcatSet ==
    ASSUME NEW S, NEW s \in Seq(S), NEW t \in Seq(S)
    PROVE  ToSet(s \o t) = ToSet(s) \cup ToSet(t)
<1>1. /\ Len(s) \in Nat /\ DOMAIN s = 1 .. Len(s)
      /\ Len(t) \in Nat /\ DOMAIN t = 1 .. Len(t)
  BY LenProperties
<1> DEFINE u == s \o t
<1>2. /\ DOMAIN u = 1 .. Len(s) + Len(t)
      /\ \A i \in 1 .. Len(s) + Len(t) :
            u[i] = IF i <= Len(s) THEN s[i] ELSE t[i - Len(s)]
  BY <1>1, ConcatProperties, LenProperties
<1> HIDE DEF u
<1>3. \A i \in 1 .. Len(s) : u[i] = s[i] /\ i \in DOMAIN u
  BY <1>1, <1>2
<1>4. \A i \in 1 .. Len(t) : u[Len(s) + i] = t[i] /\ Len(s) + i \in DOMAIN u
  BY <1>1, <1>2
<1>5. \A i \in DOMAIN u : u[i] \in ToSet(s) \cup ToSet(t)
  <2> SUFFICES ASSUME NEW i \in DOMAIN u PROVE u[i] \in ToSet(s) \cup ToSet(t)
    OBVIOUS
  <2>1. CASE i <= Len(s)
    <3>1. i \in DOMAIN s /\ u[i] = s[i]
      BY <1>1, <1>2, <2>1
    <3> QED BY <3>1 DEF ToSet
  <2>2. CASE i > Len(s)
    <3>1. i - Len(s) \in DOMAIN t /\ u[i] = t[i - Len(s)]
      BY <1>1, <1>2, <2>2
    <3> QED BY <3>1 DEF ToSet
  <2> QED BY <1>1, <1>2, <2>1, <2>2
<1>6. ToSet(s) \subseteq ToSet(u) /\ ToSet(t) \subseteq ToSet(u)
  BY <1>1, <1>3, <1>4 DEF ToSet
<1>7. ToSet(u) \subseteq ToSet(s) \cup ToSet(t)
  BY <1>5 DEF ToSet
<1> QED BY <1>6, <1>7 DEF u

LEMMA InHandStep ==
    ASSUME TypeOK
    PROVE  /\ Keeps \/ Seals \/ Delivers \/ Drops =>
                /\ InHand' \subseteq InHand /\ ToSet(window)' \subseteq ToSet(window)
                /\ window = <<>> => window' = <<>>
           /\ Takes /\ Fresh \in Reading =>
                /\ InHand' \subseteq InHand \cup {Fresh}
                /\ ToSet(window)' \subseteq ToSet(window) \cup {Fresh}
<1>1. CASE Keeps
  BY <1>1 DEF Keeps, InHand
<1>2. CASE Seals
  BY <1>2, EmptySet DEF Seals, InHand
<1>3. CASE Delivers \/ Drops
  BY <1>3, EmptySet DEF Delivers, Drops, InHand
<1>4. ASSUME Takes, Fresh \in Reading
      PROVE  /\ InHand' \subseteq InHand \cup {Fresh}
             /\ ToSet(window)' \subseteq ToSet(window) \cup {Fresh}
  <2>1. ToSet(Append(window, Fresh)) = ToSet(window) \cup {Fresh}
    BY <1>4, ToSetFacts DEF TypeOK
  <2> QED BY <1>4, <2>1, EmptySet DEF Takes, InHand
<1>5. Keeps \/ Seals \/ Delivers \/ Drops =>
        /\ InHand' \subseteq InHand /\ ToSet(window)' \subseteq ToSet(window)
        /\ window = <<>> => window' = <<>>
  <2>1. Keeps \/ Seals \/ Delivers \/ Drops => (window = <<>> => window' = <<>>)
    BY DEF Keeps, Seals, Delivers, Drops
  <2> QED BY <1>1, <1>2, <1>3, <2>1
<1> QED BY <1>4, <1>5

LEMMA StopStep ==
    ASSUME TypeOK, TypeOK', LockInv, RunInv, StopInv, NoneLeftBehind, Accounted,
           MovesBatches \/ Refuses \/ TakesIn, Taken \subseteq Taken', [Next]_vars
    PROVE  StopInv' /\ NoneLeftBehind'
<1> USE DEF Tasks
<1> DEFINE Unstopped == /\ pc["stop"] = "none" <=> ~stopped
                        /\ cancelled => stopped
                        /\ atStop \subseteq Taken
           Left == pc["stop"] = "done" =>
                      /\ \A r \in ToSet(window) : r.sweep = sweep
                      /\ pc["run"] \in {"new", "sleep"} => window = <<>>
<1>1. NoneLeftBehind <=> (pc["stop"] = "done" => atStop \cap InHand = {})
  BY ConcatSet DEF NoneLeftBehind, InHand, TypeOK
<1>2. NoneLeftBehind' <=> (pc'["stop"] = "done" => atStop' \cap InHand' = {})
  BY ConcatSet DEF NoneLeftBehind, InHand, TypeOK
<1>3. ASSUME pc'["stop"] = pc["stop"], UNCHANGED <<stopped, cancelled, atStop>>,
             pc'["run"] \in {"new", "sleep"} /\ stopped =>
                (Keeps /\ pc["run"] \in {"new", "sleep"}) \/ pc'["run"] = pc["run"],
             sweep' = sweep \/ (pc["run"] = "sleep" /\ Keeps),
             \/ Keeps \/ Seals \/ Delivers \/ Drops
             \/ Takes /\ Fresh \in Reading \ Swept /\ pc'["run"] \notin {"new", "sleep"}
      PROVE  StopInv' /\ NoneLeftBehind'
  <2>1. Unstopped'
    BY <1>3 DEF StopInv
  <2>2. InHand' \subseteq InHand \cup (Reading \ Taken)
    BY <1>3, InHandStep DEF Accounted
  <2>3. atStop' \cap InHand' = {} \/ pc["stop"] # "done"
    BY <1>1, <1>3, <2>2 DEF StopInv
  <2>4. Left'
    <3> SUFFICES ASSUME pc["stop"] = "done", stopped
                 PROVE  /\ \A r \in ToSet(window)' : r.sweep = sweep'
                        /\ pc'["run"] \in {"new", "sleep"} => window' = <<>>
      BY <1>3 DEF StopInv
    <3>1. Fresh.sweep = sweep
      BY DEF Fresh
    <3>2. \A r \in ToSet(window)' : r.sweep = sweep
      BY <1>3, <3>1, InHandStep DEF StopInv
    <3>3. pc["run"] \in {"new", "sleep"} => window = <<>>
      BY DEF StopInv
    <3>4. sweep' # sweep => ToSet(window)' = {}
      BY <1>3, <3>3, EmptySet DEF Keeps
    <3>5. pc'["run"] \in {"new", "sleep"} => window' = <<>>
      BY <1>3, <3>3, InHandStep DEF Keeps
    <3> QED BY <3>2, <3>4, <3>5
  <2> QED BY <1>2, <1>3, <2>1, <2>3, <2>4 DEF StopInv
<1>4. CASE Run
  <2>1. Takes /\ Fresh \in Reading \ Swept => pc'["run"] \notin {"new", "sleep"}
    <3>1. \A w \in Seq(Reading), r \in Reading : Append(w, r) # w /\ Append(w, r) # <<>>
      BY LenProperties, AppendProperties, EmptySeq
    <3>2. Fresh \in Reading /\ Keeps /\ Takes => FALSE
      BY <3>1 DEF Keeps, Takes, TypeOK
    <3> QED BY <1>4, <3>2, OnlyRun
  <2> QED BY <1>3, <1>4, <2>1, OnlyRun DEF MovesBatches, Refuses, TakesIn
<1>5. CASE Flusher
  <2>1. MovesBatches /\ UNCHANGED sweep /\ pc'["run"] = pc["run"]
    BY <1>5, OthersMove
  <2> QED BY <1>3, <1>5, <2>1, OnlyFlusher DEF MovesBatches
<1>6. CASE StopCalled
  <2>1. ToSet(window) \subseteq Taken
    BY DEF Taken
  <2> QED BY <1>2, <1>6, <2>1, OnlyCall DEF StopInv
<1>7. CASE Stop
  <2>1. MovesBatches /\ UNCHANGED sweep /\ pc'["run"] = pc["run"]
    BY <1>7, OthersMove
  <2>2. Unstopped'
    BY <1>7, OnlyStop DEF StopInv
  <2>3. pc'["stop"] = "done" => window' = <<>> /\ InHand' = {}
    BY <1>7, OnlyStop, EmptySet DEF InHand
  <2>4. Left'
    BY <2>3, EmptySet
  <2> QED BY <1>2, <2>2, <2>3, <2>4 DEF StopInv
<1>8. CASE UNCHANGED vars
  <2>1. UNCHANGED pc /\ Keeps /\ UNCHANGED <<stopped, cancelled, atStop, sweep>>
    BY <1>8 DEF vars, Keeps, ghosts
  <2> QED BY <1>3, <2>1
<1> QED BY <1>4, <1>5, <1>6, <1>7, <1>8 DEF Next, Finished

-----------------------------------------------------------------------------
(* The order in which readings leave *)

\* What was taken was taken before the reading at which run is.
LEMMA TakenEarlier ==
    ASSUME TypeOK, Accounted, Fresh \in Reading \ Swept
    PROVE  AllEarlier(Taken, {Fresh})
<1>1. \A r \in Reading : r.sweep = sweep /\ r.meter = at => r = Fresh
  BY DEF Fresh, Reading
<1>2. Fresh.sweep = sweep /\ Fresh.meter = at
  BY DEF Fresh
<1>3. \A r \in Taken : r \in Swept /\ r # Fresh
  BY DEF Accounted
<1> QED BY <1>1, <1>2, <1>3 DEF AllEarlier, Earlier, Swept

LEMMA SortedAppend ==
    ASSUME NEW s \in Seq(Reading), NEW r \in Reading, Sorted(s),
           AllEarlier(ToSet(s), {r})
    PROVE  Sorted(Append(s, r))
<1> DEFINE t == Append(s, r)
<1>1. /\ Len(s) \in Nat /\ Len(t) = Len(s) + 1 /\ DOMAIN s = 1 .. Len(s)
      /\ t[Len(s) + 1] = r /\ \A i \in 1 .. Len(s) : t[i] = s[i]
  BY AppendProperties, LenProperties
<1> HIDE DEF t
<1>2. \A i \in 1 .. Len(s) : Earlier(s[i], r)
  BY <1>1 DEF ToSet, AllEarlier
<1>3. ASSUME NEW k \in 1 .. Len(t), NEW l \in 1 .. Len(t), k < l
      PROVE  Earlier(t[k], t[l])
  <2>1. k \in 1 .. Len(s) /\ t[k] = s[k]
    BY <1>1, <1>3
  <2>2. CASE l = Len(s) + 1
    BY <1>1, <1>2, <2>1, <2>2
  <2>3. CASE l \in 1 .. Len(s)
    BY <1>1, <1>3, <2>1, <2>3 DEF Sorted
  <2> QED BY <1>1, <2>2, <2>3
<1> QED BY <1>3 DEF Sorted, t

LEMMA SortedEmpty == Sorted(<<>>)
  BY DEF Sorted

LEMMA OrderStep ==
    ASSUME TypeOK, Accounted, OrderInv, MovesBatches \/ Refuses \/ TakesIn
    PROVE  OrderInv'
<1>1. CASE Keeps
  BY <1>1 DEF Keeps, OrderInv
<1>2. CASE Seals
  BY <1>2, EmptySet, SortedEmpty DEF Seals, OrderInv, AllEarlier
<1>3. CASE Delivers
  <2> DEFINE d == Append(delivered, calling)
  <2>1. /\ Len(delivered) \in Nat /\ Len(d) = Len(delivered) + 1
        /\ d[Len(delivered) + 1] = calling
        /\ \A i \in 1 .. Len(delivered) : d[i] = delivered[i]
    <3>1. delivered \in Seq(Seq(Reading)) /\ calling \in Seq(Reading)
      BY DEF TypeOK
    <3> QED BY <3>1, LenProperties, AppendProperties
  <2> HIDE DEF d
  <2>2. /\ delivered' = d /\ calling' = <<>> /\ window' = window /\ window = <<>>
    BY <1>3 DEF Delivers, d
  <2>3. ToSet(calling)' \cup ToSet(window)' = {}
    BY <2>2, EmptySet
  <2>4. Sorted(window)' /\ Sorted(calling)' /\ AllEarlier(ToSet(calling), ToSet(window))'
    BY <2>2, EmptySet, SortedEmpty DEF AllEarlier
  <2>5. ASSUME NEW i \in 1 .. Len(d)
        PROVE  /\ Sorted(d[i])
               /\ \A j \in 1 .. Len(d) : i < j => AllEarlier(ToSet(d[i]), ToSet(d[j]))
    <3>1. CASE i = Len(delivered) + 1
      BY <2>1, <3>1 DEF OrderInv
    <3>2. CASE i \in 1 .. Len(delivered)
      <4>1. ASSUME NEW j \in 1 .. Len(d), i < j
            PROVE  AllEarlier(ToSet(d[i]), ToSet(d[j]))
        <5>1. CASE j = Len(delivered) + 1
          BY <2>1, <3>2, <5>1 DEF OrderInv, AllEarlier
        <5>2. CASE j \in 1 .. Len(delivered)
          BY <2>1, <3>2, <4>1, <5>2 DEF OrderInv
        <5> QED BY <2>1, <5>1, <5>2
      <4> QED BY <2>1, <3>2, <4>1 DEF OrderInv
    <3> QED BY <2>1, <3>1, <3>2
  <2>6. \A i \in 1 .. Len(d) : AllEarlier(ToSet(d[i]), {})
    BY DEF AllEarlier
  <2> QED BY <2>2, <2>3, <2>4, <2>5, <2>6 DEF OrderInv
<1>4. CASE Drops
  BY <1>4, EmptySet, SortedEmpty DEF Drops, OrderInv, AllEarlier
<1>5. CASE TakesIn
  <2> DEFINE w == Append(window, Fresh)
  <2>1. /\ AllEarlier(Taken, {Fresh}) /\ Fresh \in Reading /\ window \in Seq(Reading)
        /\ calling = <<>> /\ UNCHANGED delivered
        /\ \/ window' = w /\ calling' = <<>>
           \/ window' = <<>> /\ calling' = w
    BY <1>5, TakenEarlier DEF TakesIn, Takes, TypeOK
  <2>2. ToSet(window) \subseteq Taken
    BY DEF Taken
  <2>3. Sorted(w) /\ ToSet(w) = ToSet(window) \cup {Fresh}
    BY <2>1, <2>2, SortedAppend, ToSetFacts DEF OrderInv, AllEarlier
  <2> HIDE DEF w
  <2>4. ASSUME NEW i \in 1 .. Len(delivered)
        PROVE  AllEarlier(ToSet(delivered[i]), ToSet(w))
    <3>1. ToSet(delivered[i]) \subseteq Taken
      <4>1. delivered[i] \in ToSet(delivered)
        BY LenProperties DEF TypeOK, ToSet
      <4> QED BY <4>1 DEF Taken, ReadingsIn
    <3> QED BY <2>1, <2>3, <3>1 DEF OrderInv, AllEarlier
  <2>5. ToSet(calling)' \cup ToSet(window)' = ToSet(w)
    BY <2>1, EmptySet
  <2>6. Sorted(window)' /\ Sorted(calling)' /\ AllEarlier(ToSet(calling), ToSet(window))'
    BY <2>1, <2>3, EmptySet, SortedEmpty DEF AllEarlier
  <2> QED BY <2>1, <2>4, <2>5, <2>6 DEF OrderInv
<1> QED BY <1>1, <1>2, <1>3, <1>4, <1>5 DEF MovesBatches, Refuses

LEMMA OrderIsInOrder ==
    ASSUME TypeOK, OrderInv
    PROVE  InOrder
<1> DEFINE n   == Len(delivered)
           out == delivered \o <<calling, window>>
<1>1. /\ n \in Nat /\ Len(out) = n + 2
      /\ \A i \in 1 .. n : out[i] = delivered[i]
      /\ out[n + 1] = calling /\ out[n + 2] = window
  <2> DEFINE last == <<calling, window>>
  <2>1. delivered \in Seq(Seq(Reading)) /\ last \in Seq(Seq(Reading)) /\ Len(last) = 2
    BY DEF TypeOK
  <2>2. last[1] = calling /\ last[2] = window
    OBVIOUS
  <2> HIDE DEF last
  <2>3. /\ Len(delivered \o last) = Len(delivered) + Len(last)
        /\ \A i \in 1 .. Len(delivered) + Len(last) :
              (delivered \o last)[i] = IF i <= Len(delivered) THEN delivered[i]
                                       ELSE last[i - Len(delivered)]
    BY <2>1, ConcatProperties
  <2>4. n \in Nat
    BY <2>1, LenProperties
  <2>5. out = delivered \o last
    BY DEF last
  <2> HIDE DEF out
  <2> QED BY <2>1, <2>2, <2>3, <2>4, <2>5
<1>2. /\ \A i \in 1 .. n : Len(delivered[i]) \in Nat
      /\ Len(calling) \in Nat /\ Len(window) \in Nat
  <2>1. \A i \in 1 .. n : delivered[i] \in Seq(Reading)
    BY ElementOfSeq DEF TypeOK
  <2> QED BY <2>1, LenProperties DEF TypeOK
<1>3. /\ \A i \in 1 .. n : \A k \in 1 .. Len(delivered[i]) :
            delivered[i][k] \in ToSet(delivered[i])
      /\ \A k \in 1 .. Len(calling) : calling[k] \in ToSet(calling)
      /\ \A k \in 1 .. Len(window) : window[k] \in ToSet(window)
  <2>1. \A i \in 1 .. n : delivered[i] \in Seq(Reading)
    BY ElementOfSeq DEF TypeOK
  <2>2. \A s \in Seq(Reading) : \A k \in 1 .. Len(s) : s[k] \in ToSet(s)
    BY LenProperties DEF ToSet
  <2> QED BY <2>1, <2>2 DEF TypeOK
<1> HIDE DEF out, n
<1>4. ASSUME NEW i \in 1 .. n + 2 PROVE i \in 1 .. n \/ i = n + 1 \/ i = n + 2
  BY <1>1
<1>5. ASSUME NEW i \in 1 .. n + 2 PROVE Sorted(out[i])
  <2>1. CASE i \in 1 .. n
    BY <1>1, <2>1 DEF OrderInv, n
  <2> QED BY <1>1, <1>4, <2>1 DEF OrderInv
<1>6. ASSUME NEW i \in 1 .. n + 2, NEW j \in 1 .. n + 2, i < j
      PROVE  AllEarlier(ToSet(out[i]), ToSet(out[j]))
  <2>1. CASE i \in 1 .. n
    <3>1. CASE j \in 1 .. n
      BY <1>1, <1>6, <2>1, <3>1 DEF OrderInv, n
    <3>2. CASE j \in {n + 1, n + 2}
      <4>1. AllEarlier(ToSet(delivered[i]), ToSet(calling) \cup ToSet(window))
        BY <2>1 DEF OrderInv, n
      <4> QED BY <1>1, <2>1, <3>2, <4>1 DEF AllEarlier
    <3> QED BY <1>4, <3>1, <3>2
  <2>2. CASE i = n + 1 /\ j = n + 2
    BY <1>1, <2>2 DEF OrderInv
  <2> QED BY <1>1, <1>4, <1>6, <2>1, <2>2
<1>7. \A i \in 1 .. n + 2 : \A k \in 1 .. Len(out[i]) : out[i][k] \in ToSet(out[i])
  <2> SUFFICES ASSUME NEW i \in 1 .. n + 2
               PROVE  \A k \in 1 .. Len(out[i]) : out[i][k] \in ToSet(out[i])
    OBVIOUS
  <2>1. CASE i \in 1 .. n
    BY <1>1, <1>3, <2>1
  <2> QED BY <1>1, <1>3, <1>4, <2>1
<1>8. ASSUME NEW i \in 1 .. n + 2, NEW j \in 1 .. n + 2,
             NEW k \in 1 .. Len(out[i]), NEW l \in 1 .. Len(out[j]),
             i < j \/ (i = j /\ k < l)
      PROVE  Earlier(out[i][k], out[j][l])
  <2>1. CASE i < j
    BY <1>6, <1>7, <2>1 DEF AllEarlier
  <2>2. CASE i = j /\ k < l
    BY <1>5, <2>2 DEF Sorted
  <2> QED BY <1>8, <2>1, <2>2
<1> QED BY <1>1, <1>8 DEF InOrder, out

-----------------------------------------------------------------------------
(* The invariant *)

LEMMA InitInv == Init => Inv
<1> SUFFICES ASSUME Init PROVE Inv
  OBVIOUS
<1> USE DEF Init, NewWindow
<1>1. pc \in [Tasks -> {"none", "new", "sleep", "sweep", "lock", "callback", "join",
                        "done", "failed"}]
  BY DEF Tasks
<1>2. pc["run"] = "new" /\ pc["flusher"] = "none" /\ pc["stop"] = "none"
  OBVIOUS
<1>3. TypeOK
  <2>1. /\ queue \in Seq(Tasks) /\ window \in Seq(Reading) /\ calling \in Seq(Reading)
        /\ delivered \in Seq(Seq(Reading)) /\ dropped \in Seq(Seq(Reading))
    BY EmptySeq
  <2>2. /\ sweep \in 0 .. MaxSweeps /\ at \in 1 .. NumMeters + 1
        /\ counted \in Nat /\ raises \in 0 .. MaxRaises
    BY NumbersAssumption
  <2>3. /\ running \in Tasks \cup {None} /\ stopped \in BOOLEAN /\ cancelled \in BOOLEAN
        /\ rejected \subseteq Reading /\ atStop \subseteq Reading
    OBVIOUS
  <2> QED BY <1>1, <2>1, <2>2, <2>3 DEF TypeOK
<1>4. Len(queue) = 0 /\ Len(window) = 0 /\ Len(calling) = 0 /\ Len(delivered) = 0
  OBVIOUS
<1>5. LockInv /\ RunInv /\ OrderInv
  BY <1>2, <1>4, EmptySet DEF LockInv, RunInv, OrderInv, Sorted, AllEarlier, Tasks
<1>6. Taken = {}
  BY EmptySet DEF Taken
<1>7. Swept = {}
  <2>1. \A r \in Reading : r.sweep \in Int /\ r.sweep >= 1
    BY DEF Reading
  <2> QED BY <2>1 DEF Swept
<1>8. IsFiniteSet(Taken) /\ Accounted /\ CountsAgree /\ DropsExplained
  BY <1>2, <1>6, <1>7, FS_EmptySet DEF Accounted, CountsAgree, DropsExplained
<1>9. StopInv /\ NoneLeftBehind
  BY <1>2 DEF StopInv, NoneLeftBehind
<1> QED BY <1>3, <1>5, <1>8, <1>9 DEF Inv

LEMMA InvStep == Inv /\ [Next]_vars => Inv'
<1> SUFFICES ASSUME Inv, [Next]_vars PROVE Inv'
  OBVIOUS
<1>1. TypeOK /\ LockInv /\ RunInv /\ TypeOK'
  BY TypeStep DEF Inv
<1>2. LockInv' /\ RunInv' /\ (MovesBatches \/ Refuses \/ TakesIn)
  BY <1>1, LockStep, StepKinds
<1>3. IsFiniteSet(Taken)' /\ Accounted' /\ CountsAgree' /\ Taken \subseteq Taken'
  BY <1>1, <1>2, AccountsStep DEF Inv
<1>4. DropsExplained'
  BY <1>1, DropsStep DEF Inv
<1>5. StopInv' /\ NoneLeftBehind'
  BY <1>1, <1>2, <1>3, StopStep DEF Inv
<1>6. OrderInv'
  BY <1>1, <1>2, OrderStep DEF Inv
<1> QED BY <1>1, <1>2, <1>3, <1>4, <1>5, <1>6 DEF Inv

LEMMA Invariance == Spec => []Inv
  BY InitInv, InvStep, PTL DEF Spec

\* The variables keep their types.
THEOREM TypeCorrect == Spec => []TypeOK
<1>1. Inv => TypeOK
  BY DEF Inv
<1> QED BY <1>1, Invariance, PTL

\* Readings leave in the order in which they were taken, each once.
THEOREM KeepsOrder == Spec => []InOrder
<1>1. Inv => InOrder
  BY OrderIsInOrder DEF Inv
<1> QED BY <1>1, Invariance, PTL

\* Every reading of a sweep is accounted for and counted, and every batch that is
\* dropped is explained by a callback that raised or by the stop.
THEOREM AccountsForReadings == Spec => []ReadingsAccounted
<1>1. Inv => ReadingsAccounted
  BY DEF Inv, ReadingsAccounted
<1> QED BY <1>1, Invariance, PTL

\* A stop that returned leaves nothing of what it found in the window, and no
\* more than the readings of one sweep.
THEOREM StopLeaves == Spec => []StopLeavesLittle
<1>1. ASSUME Inv PROVE StopLeavesLittle
  <2>1. \A i \in 1 .. Len(window) : window[i] \in ToSet(window)
    BY <1>1, LenProperties DEF Inv, TypeOK, ToSet
  <2>2. AtMostOneSweepStranded
    BY <1>1, <2>1 DEF Inv, StopInv, AtMostOneSweepStranded
  <2> QED BY <1>1, <2>2 DEF Inv, StopLeavesLittle
<1> QED BY <1>1, Invariance, PTL

-----------------------------------------------------------------------------
(* The window implements ReadingBatches, and may lose batches *)

\* What the promise sees: the batch on its way and those delivered as sets.
Sealed == IF calling = <<>> THEN {} ELSE {ToSet(calling)}
Out    == {ToSet(b) : b \in ToSet(delivered)}

LEMMA KnownIsTaken ==
    ASSUME TypeOK
    PROVE  ToSet(window) \cup (UNION Sealed) \cup (UNION Out) \subseteq Taken
<1>1. UNION Sealed \subseteq ToSet(calling)
  BY DEF Sealed
<1>2. UNION Out = ReadingsIn(delivered)
  BY DEF Out, ReadingsIn
<1> QED BY <1>1, <1>2 DEF Taken

LEMMA PromiseStep == Inv /\ [Next]_vars => [Promise!LossyNext]_(Promise!vars)
<1> SUFFICES ASSUME Inv, [Next]_vars PROVE [Promise!LossyNext]_(Promise!vars)
  OBVIOUS
<1>1. TypeOK /\ Accounted /\ (MovesBatches \/ Refuses \/ TakesIn)
  BY TypeStep, StepKinds DEF Inv
<1>2. window \in Seq(Reading) /\ calling \in Seq(Reading) /\ delivered \in Seq(Seq(Reading))
  BY <1>1 DEF TypeOK
<1>3. CASE Keeps
  BY <1>3 DEF Keeps, Promise!vars
<1>4. CASE Seals
  <2>1. ToSet(window) # {} /\ ToSet(window)' = {}
    BY <1>2, <1>4, ToSetFacts, EmptySet DEF Seals
  <2>2. Sealed = {} /\ Sealed' = {ToSet(window)} /\ Out' = Out
    BY <1>4 DEF Seals, Sealed, Out
  <2>3. Promise!Seal
    BY <2>1, <2>2 DEF Promise!Seal, Sealed, Out
  <2> QED BY <2>3 DEF Promise!LossyNext, Promise!Next
<1>5. CASE Delivers \/ Drops
  <2> DEFINE b == ToSet(calling)
  <2>1. Sealed = {b} /\ Sealed' = {} /\ ToSet(window)' = ToSet(window)
    BY <1>5 DEF Delivers, Drops, Sealed
  <2>2. CASE Delivers
    <3>1. ToSet(delivered)' = ToSet(delivered) \cup {calling}
      BY <1>2, <2>2, ToSetFacts DEF Delivers
    <3>2. Out' = Out \cup {b}
      BY <3>1 DEF Out
    <3>3. b \in Sealed /\ Promise!Deliver(b)
      BY <2>1, <3>2 DEF Promise!Deliver, Sealed, Out
    <3> QED BY <3>3 DEF Promise!LossyNext, Promise!Next, Sealed
  <2>3. CASE Drops
    <3>1. Out' = Out
      BY <2>3 DEF Drops, Out
    <3>2. b \in Sealed /\ Promise!Lose(b)
      BY <2>1, <3>1 DEF Promise!Lose, Sealed, Out
    <3> QED BY <3>2 DEF Promise!LossyNext, Sealed
  <2> QED BY <1>5, <2>2, <2>3
<1>6. CASE TakesIn
  <2> DEFINE w == Append(window, Fresh)
  <2>1. Takes /\ Fresh \in Reading /\ Fresh \notin Taken
    BY <1>1, <1>6 DEF TakesIn, Accounted
  <2>2. ToSet(w) = ToSet(window) \cup {Fresh} /\ w # <<>>
    <3>1. w # <<>>
      BY <1>2, <2>1, AppendProperties
    <3> QED BY <1>2, <2>1, <3>1, ToSetFacts
  <2> HIDE DEF w
  <2>3. Fresh \notin Promise!Known
    BY <1>1, <2>1, KnownIsTaken DEF Promise!Known, Sealed, Out
  <2>4. calling = <<>> /\ Sealed = {} /\ Out' = Out
    BY <2>1 DEF Takes, Sealed, Out
  <2>5. CASE window' = w /\ UNCHANGED calling
    <3>1. Sealed' = Sealed /\ ToSet(window)' = ToSet(window) \cup {Fresh}
      BY <2>2, <2>5 DEF Sealed
    <3>2. Promise!Accept(Fresh)
      BY <2>3, <2>4, <3>1 DEF Promise!Accept, Sealed, Out
    <3> QED BY <2>1, <3>2 DEF Promise!LossyNext, Promise!Next
  <2>6. CASE window' = <<>> /\ calling' = w
    <3>1. Sealed' = {ToSet(window) \cup {Fresh}} /\ ToSet(window)' = {}
      BY <2>2, <2>6, EmptySet DEF Sealed
    <3>2. Promise!AcceptAndSeal(Fresh)
      BY <2>3, <2>4, <3>1 DEF Promise!AcceptAndSeal, Sealed, Out
    <3> QED BY <2>1, <3>2 DEF Promise!LossyNext, Promise!Next
  <2> QED BY <2>1, <2>5, <2>6 DEF Takes, w
<1> QED BY <1>1, <1>3, <1>4, <1>5, <1>6 DEF MovesBatches, Refuses

\* The Python window implements batches of which some are lost: it hands out no
\* reading twice, whatever its callback raises and wherever it is cancelled.
THEOREM Implementation == Spec => ImplementsBatches
<1>1. Init => Promise!Init
  BY EmptySet DEF Init, NewWindow, Promise!Init
<1> QED BY <1>1, PromiseStep, Invariance, PTL DEF Spec, ImplementsBatches, Promise!LossySpec
-----------------------------------------------------------------------------
(* What any window that keeps ReadingBatches promises its reader, the one of Go *)
(* as well as this one: batches are exact, also if some of them may be dropped. *)

CONSTANT AnyReading
VARIABLES anyOpen, anySealed, anyDelivered

Batches == INSTANCE ReadingBatches WITH
               Reading <- AnyReading, open <- anyOpen, sealed <- anySealed,
               delivered <- anyDelivered

LEMMA EachOnceStep == Batches!EachOnce /\ [Batches!LossyNext]_(Batches!vars) => Batches!EachOnce'
<1> SUFFICES ASSUME Batches!EachOnce, [Batches!LossyNext]_(Batches!vars) PROVE Batches!EachOnce'
  OBVIOUS
<1>1. ASSUME NEW r, Batches!Accept(r) PROVE Batches!EachOnce'
  <2>1. \A b \in anySealed \cup anyDelivered : r \notin b
    BY <1>1 DEF Batches!Accept, Batches!Known
  <2> QED BY <1>1, <2>1 DEF Batches!Accept, Batches!EachOnce
<1>2. ASSUME NEW b, b \cap UNION (anySealed \cup anyDelivered) = {}, b # {},
             anyOpen' = {}, anySealed' = anySealed \cup {b}, UNCHANGED anyDelivered
      PROVE  Batches!EachOnce'
  <2>1. \A a \in anySealed \cup anyDelivered : a \cap b = {} /\ a # b
    <3> SUFFICES ASSUME NEW a \in anySealed \cup anyDelivered PROVE a \cap b = {} /\ a # b
      OBVIOUS
    <3>1. a \cap b = {}
      BY <1>2
    <3> QED BY <1>2, <3>1
  <2> QED BY <1>2, <2>1 DEF Batches!EachOnce
<1>3. ASSUME NEW r, Batches!AcceptAndSeal(r) PROVE Batches!EachOnce'
  <2>1. (anyOpen \cup {r}) \cap UNION (anySealed \cup anyDelivered) = {}
    BY <1>3 DEF Batches!AcceptAndSeal, Batches!Known, Batches!EachOnce
  <2> QED BY <1>2, <1>3, <2>1 DEF Batches!AcceptAndSeal
<1>4. CASE Batches!Seal
  <2>1. anyOpen \cap UNION (anySealed \cup anyDelivered) = {}
    BY DEF Batches!EachOnce
  <2> QED BY <1>2, <1>4, <2>1 DEF Batches!Seal
<1>5. ASSUME NEW b \in anySealed, Batches!Deliver(b) \/ Batches!Lose(b) PROVE Batches!EachOnce'
  BY <1>5 DEF Batches!Deliver, Batches!Lose, Batches!EachOnce
<1>6. CASE UNCHANGED Batches!vars
  BY <1>6 DEF Batches!vars, Batches!EachOnce
<1> QED BY <1>1, <1>3, <1>4, <1>5, <1>6 DEF Batches!LossyNext, Batches!Next

\* A window that may drop batches still counts no reading twice.
THEOREM LossyExact == Batches!LossySpec => []Batches!EachOnce
<1>1. Batches!Init => Batches!EachOnce
  BY DEF Batches!Init, Batches!EachOnce
<1> QED BY <1>1, EachOnceStep, PTL DEF Batches!LossySpec
=============================================================================
