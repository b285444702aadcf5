--------------------------- MODULE TumblingWindow ---------------------------
(***************************************************************************)
(* The tumbling window of the Go collector (pkg/aggregator/aggregator.go): *)
(* goroutines that read meters add readings to a window guarded by a       *)
(* mutex; the window is flushed when it holds CountWindow readings, at     *)
(* every tick of a ticker, on request and when it is stopped.  A flush     *)
(* starts a new window and hands the aggregate of the old one to the       *)
(* callback in a goroutine of its own, so callbacks run in any order.      *)
(*                                                                         *)
(* Code that runs under the mutex is one action.  A window and a batch     *)
(* carry, beside the fields of the code, the set of the readings in them   *)
(* (`readings'), which only properties look at.  Averages are left out:    *)
(* they are quotients of the sums and counts.                              *)
(***************************************************************************)
EXTENDS Integers, FiniteSets, FiniteSetsExt, Functions

CONSTANTS
    Producers,     \* goroutines that read meters
    Meters,        \* meter ids
    Reads,         \* Reads[p]: the meters that p reads
    Kwh,           \* the values a meter may show
    CountWindow,   \* readings per window, 0 for no limit
    TimeWindow,    \* ticks of the clock per window, 0 for no ticker
    MaxReadings,   \* bound: readings each producer makes
    MaxClock,      \* bound: the last instant
    None

\* A meter is read by one goroutine only.
ASSUME ReadsAssumption ==
    /\ Reads \in [Producers -> SUBSET Meters]
    /\ \A p, q \in Producers : p # q => Reads[p] \cap Reads[q] = {}
ASSUME NumbersAssumption ==
    /\ Kwh \subseteq Int
    /\ CountWindow \in Nat /\ TimeWindow \in Nat
    /\ MaxReadings \in Nat /\ MaxClock \in Nat

\* A reading, identified by who made it and when in its order.
Reading == [by : Producers, seq : 1 .. MaxReadings,
            meter : Meters, ts : 0 .. MaxClock, kwh : Kwh]

\* What a window keeps of a meter (meterAccumulator).
Accumulator == [count : Nat, sum : Int, min : Int, max : Int, first : Nat, last : Nat]

ASSUME NoneAssumption == None \notin Reading \cup Accumulator

VARIABLES
    clock,       \* time.Now()
    made,        \* made[p]: the readings p has generated
    ready,       \* ready[p]: the reading p is about to add
    window,      \* currentWindow
    inflight,    \* batches whose callback goroutine has not run yet
    delivered,   \* batches whose callback has run
    tick,        \* a tick waits in the ticker's channel (of capacity 1)
    flusher,     \* timeBasedFlusher: at the select, at the lock, or gone
    stopper      \* Stop: not called, stopChan closed, or returned

sources == <<clock, made, ready>>
threads == <<tick, flusher, stopper>>
vars    == <<sources, window, inflight, delivered, threads>>

-----------------------------------------------------------------------------
(* Windows *)

\* A slip: the map of a new window is not made.
NewWindowWithoutMap == [start |-> clock, metrics |-> None, count |-> 0, readings |-> {}]

\* A map from meters is a function that is None where the map has no entry.
NewWindow == [start |-> clock, metrics |-> [m \in Meters |-> None],
              count |-> 0, readings |-> {}]

\* A slip: minimum and maximum start from zero.
AccumulatorFromZero(r) ==
    [count |-> 0, sum |-> 0, min |-> 0, max |-> 0, first |-> r.ts, last |-> r.ts]

\* The accumulator of a meter that the window sees for the first time.
NewAccumulator(r) ==
    [count |-> 0, sum |-> 0, min |-> r.kwh, max |-> r.kwh, first |-> r.ts, last |-> r.ts]

Accumulated(acc, r) ==
    [count |-> acc.count + 1,
     sum   |-> acc.sum + r.kwh,
     min   |-> IF r.kwh < acc.min THEN r.kwh ELSE acc.min,
     max   |-> IF r.kwh > acc.max THEN r.kwh ELSE acc.max,
     first |-> acc.first,
     last  |-> r.ts]

\* Window w with reading r added.
WithReading(w, r) ==
    LET acc == IF w.metrics[r.meter] = None THEN NewAccumulator(r) ELSE w.metrics[r.meter]
    IN  [start    |-> w.start,
         metrics  |-> [w.metrics EXCEPT ![r.meter] = Accumulated(acc, r)],
         count    |-> w.count + 1,
         readings |-> w.readings \cup {r}]

\* The AggregatedData of window w.
Aggregated(w) ==
    [start |-> w.start, end |-> clock, count |-> w.count,
     metrics |-> w.metrics, readings |-> w.readings]

\* A slip: the new window keeps the start of the old one.
FlushKeepingStart(w) ==
    IF w.count = 0
    THEN window' = w /\ UNCHANGED inflight
    ELSE /\ window' = [NewWindow EXCEPT !.start = w.start]
         /\ inflight' = inflight \cup {Aggregated(w)}

\* flushLocked, for a current window w.
FlushLocked(w) ==
    IF w.count = 0
    THEN window' = w /\ UNCHANGED inflight
    ELSE window' = NewWindow /\ inflight' = inflight \cup {Aggregated(w)}

\* The window is full.
Full(w) == CountWindow > 0 /\ w.count >= CountWindow

-----------------------------------------------------------------------------
Init ==
    /\ clock = 0
    /\ made = [p \in Producers |-> 0]
    /\ ready = [p \in Producers |-> None]
    /\ window = NewWindow
    /\ inflight = {}
    /\ delivered = {}
    /\ tick = FALSE
    /\ flusher = IF TimeWindow > 0 THEN "select" ELSE "gone"
    /\ stopper = "none"

\* Time passes; the ticker drops a tick when one is waiting already.
Tick ==
    /\ clock < MaxClock
    /\ clock' = clock + 1
    /\ tick' = (tick \/ (/\ TimeWindow > 0 /\ stopper = "none"
                         /\ (clock + 1) % TimeWindow = 0))
    /\ UNCHANGED <<made, ready, window, inflight, delivered, flusher, stopper>>

\* GenerateReading, outside the mutex: the timestamp is taken here.
GenerateReading(p) ==
    /\ ready[p] = None /\ made[p] < MaxReadings
    /\ \E m \in Reads[p], k \in Kwh :
         ready' = [ready EXCEPT ![p] =
           [by |-> p, seq |-> made[p] + 1, meter |-> m, ts |-> clock, kwh |-> k]]
    /\ made' = [made EXCEPT ![p] = @ + 1]
    /\ UNCHANGED <<clock, window, inflight, delivered, threads>>

\* A slip: a full window is flushed without the reading that fills it.
AddFlushingFirst(p) ==
    /\ ready[p] # None
    /\ LET w == WithReading(window, ready[p])
       IN  IF Full(w) THEN FlushLocked(window) ELSE window' = w /\ UNCHANGED inflight
    /\ ready' = [ready EXCEPT ![p] = None]
    /\ UNCHANGED <<clock, made, delivered, threads>>

Add(p) ==
    /\ ready[p] # None
    /\ LET w == WithReading(window, ready[p])
       IN  IF Full(w) THEN FlushLocked(w) ELSE window' = w /\ UNCHANGED inflight
    /\ ready' = [ready EXCEPT ![p] = None]
    /\ UNCHANGED <<clock, made, delivered, threads>>

\* timeBasedFlusher takes a tick; the select may do so after the stop as well.
FlusherWakes ==
    /\ flusher = "select" /\ tick
    /\ tick' = FALSE
    /\ flusher' = "lock"
    /\ UNCHANGED <<sources, window, inflight, delivered, stopper>>

FlusherFlushes ==
    /\ flusher = "lock"
    /\ FlushLocked(window)
    /\ flusher' = "select"
    /\ UNCHANGED <<sources, delivered, tick, stopper>>

FlusherExits ==
    /\ flusher = "select" /\ stopper # "none"
    /\ flusher' = "gone"
    /\ UNCHANGED <<sources, window, inflight, delivered, tick, stopper>>

\* Flush, called by the window's user.
Flush ==
    /\ FlushLocked(window)
    /\ UNCHANGED <<sources, delivered, threads>>

\* Stop, first half: the ticker is stopped and stopChan closed.
StopSignals ==
    /\ stopper = "none"
    /\ stopper' = "flush"
    /\ UNCHANGED <<sources, window, inflight, delivered, tick, flusher>>

\* A slip: Stop does not flush.
StopWithoutFlush ==
    /\ stopper = "flush"
    /\ stopper' = "done"
    /\ UNCHANGED <<sources, window, inflight, delivered, tick, flusher>>

\* Stop, second half: the final flush.
StopFlushes ==
    /\ stopper = "flush"
    /\ FlushLocked(window)
    /\ stopper' = "done"
    /\ UNCHANGED <<sources, delivered, tick, flusher>>

\* A slip: the batch is delivered and kept for another delivery.
DeliverAgain(b) ==
    /\ delivered' = delivered \cup {b}
    /\ UNCHANGED <<sources, window, inflight, threads>>

\* The goroutine of a callback runs.
Deliver(b) ==
    /\ inflight' = inflight \ {b}
    /\ delivered' = delivered \cup {b}
    /\ UNCHANGED <<sources, window, threads>>

Next ==
    \/ Tick
    \/ \E p \in Producers : GenerateReading(p) \/ Add(p)
    \/ FlusherWakes \/ FlusherFlushes \/ FlusherExits
    \/ Flush \/ StopSignals \/ StopFlushes
    \/ \E b \in inflight : Deliver(b)

Spec == Init /\ [][Next]_vars

\* Goroutines are scheduled, and a Stop that was called returns.  Nobody need
\* call Flush or Stop, and producers need not go on.
Fairness ==
    /\ WF_vars(FlusherWakes) /\ WF_vars(FlusherFlushes) /\ WF_vars(StopFlushes)
    /\ WF_vars(\E b \in inflight : Deliver(b))

FairSpec == Spec /\ Fairness

-----------------------------------------------------------------------------
(* What makes the window correct *)

Metrics     == [Meters -> Accumulator \cup {None}]
Window      == [start : Nat, metrics : Metrics, count : Nat, readings : SUBSET Reading]
Batch       == [start : Nat, end : Nat, metrics : Metrics, count : Nat,
                readings : SUBSET Reading]

TypeOK ==
    /\ clock \in 0 .. MaxClock
    /\ made \in [Producers -> 0 .. MaxReadings]
    /\ ready \in [Producers -> Reading \cup {None}]
    /\ window \in Window
    /\ inflight \subseteq Batch
    /\ delivered \subseteq Batch
    /\ tick \in BOOLEAN
    /\ flusher \in {"select", "lock", "gone"}
    /\ stopper \in {"none", "flush", "done"}

Batches == inflight \cup delivered

\* The readings that Add has taken, wherever they are by now.
Added == window.readings \cup UNION {b.readings : b \in Batches}

\* Every reading that was generated is about to be added or is in the window or
\* a batch: none is lost, whatever the order of Add, ticks, Flush and Stop.
NothingLost ==
    \A p \in Producers :
        {r.seq : r \in {x \in Added : x.by = p}}
            = {n \in 1 .. made[p] : ready[p] = None \/ n < made[p]}

\* The aggregate of meter m over the readings R, computed from scratch.
AggregateOf(R, m) ==
    LET mine == {r \in R : r.meter = m}
    IN  IF mine = {} THEN None ELSE
        [count |-> Cardinality(mine),
         sum   |-> SumFunction([r \in mine |-> r.kwh]),
         min   |-> Min({r.kwh : r \in mine}), max  |-> Max({r.kwh : r \in mine}),
         first |-> Min({r.ts : r \in mine}),  last |-> Max({r.ts : r \in mine})]

\* The accumulators that Add keeps are, for the open window and for every batch,
\* the aggregates of exactly the readings in it, first and last in time.
AggregatesExact ==
    \A w \in {window} \cup Batches :
        /\ w.count = Cardinality(w.readings)
        /\ w.metrics = [m \in Meters |-> AggregateOf(w.readings, m)]

\* The windows of the batches do not overlap in time, and the current window
\* starts when the last of them has ended, or later.
WindowsApart ==
    /\ \A b \in Batches : b.start <= b.end /\ b.end <= window.start
    /\ \A a, b \in Batches : a # b => (a.end <= b.start \/ b.end <= a.start)

\* A batch may hold readings from before its window (the timestamp is taken
\* outside the mutex), but at most one of each goroutine, and none from after.
AtMostOneLate ==
    \A b \in Batches :
        /\ \A r \in b.readings : r.ts <= b.end
        /\ \A p \in Producers :
               Cardinality({r \in b.readings : r.by = p /\ r.ts < b.start}) <= 1

\* No batch exceeds the limit of readings, and the window is below it.
CountBound ==
    CountWindow > 0 => /\ window.count < CountWindow
                       /\ \A b \in Batches : b.count \in 1 .. CountWindow

\* The window implements the promise of exactly-once batches.
Promise == INSTANCE ReadingBatches
             WITH open <- window.readings,
                  sealed <- {b.readings : b \in inflight},
                  delivered <- {b.readings : b \in delivered}

ImplementsBatches == Promise!Spec

\* No reading is counted twice: batches, delivered or not, and the window share
\* none, and no callback gets an empty batch.
EachReadingOnce == Promise!EachOnce

\* Every reading generated ends up once: none is lost and none is doubled.
ExactlyOnce == NothingLost /\ EachReadingOnce

\* What a callback gets is a window of its own, of readings no older than one
\* that each goroutine held back, and of no more of them than it may have.
BatchesWellFormed == WindowsApart /\ AtMostOneLate /\ CountBound

\* Reading n of p is in the window / was delivered.
InWindow(p, n) == \E r \in window.readings : r.by = p /\ r.seq = n
Delivered(p, n) == \E b \in delivered : \E r \in b.readings : r.by = p /\ r.seq = n

\* A reading in the window is delivered in the end when a tick is due or Stop
\* was called and has not flushed yet: the tick, or the final flush after it, is
\* not lost in the race of the flusher's select with Stop.
FlushedInTheEnd ==
    \A p \in Producers, n \in 1 .. MaxReadings :
        (InWindow(p, n) /\ (tick \/ stopper = "flush") /\ stopper # "done")
            ~> Delivered(p, n)
=============================================================================
