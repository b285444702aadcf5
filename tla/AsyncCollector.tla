--------------------------- MODULE AsyncCollector ---------------------------
(***************************************************************************)
(* The Python collector (python/async_collector.py): the task that sweeps  *)
(* the meters (AsyncCollector.run), the task that flushes by time          *)
(* (_time_based_flusher) and the task that stops both (AsyncCollector.stop)*)
(* on one event loop.  Unlike the window of the Go collector, this one     *)
(* awaits its callback while it holds its lock.                            *)
(*                                                                         *)
(* A task that runs keeps the event loop until it awaits something that is *)
(* not ready: `running' is the task that has it, None when each is         *)
(* suspended.  The steps of a task between two places where it may be      *)
(* suspended are therefore never interleaved with those of another.        *)
(*                                                                         *)
(* A window is the sequence of its readings; what is kept of a reading     *)
(* (the accumulators) is modelled in TumblingWindow.  The callback is the  *)
(* user's: it may be suspended, return or raise; it lets a cancellation    *)
(* pass and does not call the window.                                      *)
(***************************************************************************)
EXTENDS Integers, Sequences, FiniteSets, SequencesExt

CONSTANTS
    NumMeters,     \* meters of the shard
    CountWindow,   \* window_count, 0 for no limit
    Timed,         \* whether window_time > 0
    MaxSweeps,     \* bound: sweeps over the meters, the last one after a stop
    MaxRaises,     \* bound: callbacks that raise
    None

ASSUME NumbersAssumption ==
    /\ NumMeters \in Nat \ {0} /\ MaxSweeps \in Nat \ {0}
    /\ CountWindow \in Nat /\ MaxRaises \in Nat /\ Timed \in BOOLEAN

Tasks   == {"run", "flusher", "stop"}
Reading == [sweep : 1 .. MaxSweeps, meter : 1 .. NumMeters]

ASSUME NoneAssumption == None \notin Tasks

VARIABLES
    running,    \* the task that has the event loop
    pc,         \* pc[t]: where task t is
    stopped,    \* _stop_event of the collector and of its window
    cancelled,  \* the flusher's cancellation is requested
    queue,      \* the window's lock: its holder, then the waiting tasks
    sweep, at,  \* run is at meter `at' of its sweep
    counted,    \* reading_count, which valid_count always equals
    rejected,   \* the readings found invalid (invalid_count)
    window,     \* _current_window
    calling,    \* the batch whose callback has not returned, <<>> for none
    delivered,  \* the batches whose callback has returned, in order
    dropped,    \* the batches whose callback raised or was cancelled
    raises,     \* callbacks that raised
    atStop      \* the readings in the window when stop was called

counts == <<counted, rejected>>
ghosts == <<raises, atStop>>
vars   == <<running, pc, stopped, cancelled, queue, sweep, at, counts, window,
            calling, delivered, dropped, ghosts>>

-----------------------------------------------------------------------------
(* The event loop and the lock *)

\* Task t may take a step: it has the event loop, or nobody has.
Turn(t) == running \in {None, t}

\* Task t goes on to place p, and keeps the event loop iff `goesOn'.
Goto(t, p, goesOn) ==
    /\ pc' = [pc EXCEPT ![t] = p]
    /\ running' = IF goesOn THEN t ELSE None

\* Task t asks for the lock; it is suspended iff another task has it.
AskLock(t) ==
    /\ queue' = Append(queue, t)
    /\ Goto(t, "lock", queue = <<>>)

Holds(t) == queue # <<>> /\ Head(queue) = t

\* The lock passes to the task that waits, which keeps its place until its turn.
Release == queue' = Tail(queue)

-----------------------------------------------------------------------------
\* TumblingWindow.__init__: its lock is free, its window empty, no flusher runs.
NewWindow == queue = <<>> /\ window = <<>> /\ calling = <<>> /\ cancelled = FALSE

\* The collector is made with its window.
Init ==
    /\ NewWindow
    /\ running = None
    /\ pc = [run |-> "new", flusher |-> "none", stop |-> "none"]
    /\ stopped = FALSE
    /\ sweep = 0 /\ at = 1
    /\ counted = 0 /\ rejected = {}
    /\ delivered = <<>> /\ dropped = <<>>
    /\ raises = 0 /\ atStop = {}

\* A slip: a flushed window is not replaced.
FlushKeepingWindow(t, w) ==
    /\ calling' = w
    /\ window' = w
    /\ Goto(t, "callback", TRUE)
    /\ UNCHANGED queue

\* _flush_locked with a window w that is not empty, by task t, up to the callback.
FlushLocked(t, w) ==
    /\ calling' = w
    /\ window' = <<>>
    /\ Goto(t, "callback", TRUE)
    /\ UNCHANGED queue

\* A slip: the flusher flushes once.
AfterLockOnce(t) ==
    IF t = "run"
    THEN Goto(t, "sweep", TRUE) /\ at' = at + 1 /\ counted' = counted + 1
    ELSE UNCHANGED <<at, counted>> /\ Goto(t, "done", FALSE)

\* Where t goes after `async with self._lock', and what run does there.
AfterLock(t) ==
    IF t = "run"
    THEN Goto(t, "sweep", TRUE) /\ at' = at + 1 /\ counted' = counted + 1
    ELSE /\ UNCHANGED <<at, counted>>
         /\ Goto(t, IF t = "flusher" /\ ~stopped THEN "sleep" ELSE "done", FALSE)

\* _flush_locked with an empty window.
FlushNothing(t) ==
    /\ window = <<>>
    /\ Release
    /\ AfterLock(t)
    /\ UNCHANGED <<window, calling>>

-----------------------------------------------------------------------------
(* AsyncCollector.run *)

\* run starts the window, whose flusher is a task of its own.
RunStarts ==
    /\ pc["run"] = "new" /\ Turn("run")
    /\ pc' = [pc EXCEPT !["run"] = IF stopped THEN "done" ELSE "sleep",
                        !["flusher"] = IF Timed THEN "new" ELSE "none"]
    /\ running' = None
    /\ UNCHANGED <<stopped, cancelled, queue, sweep, at, counts, window, calling,
                   delivered, dropped, ghosts>>

\* The interval is over, whether run was stopped meanwhile or not.
RunWakes ==
    /\ pc["run"] = "sleep" /\ Turn("run")
    /\ sweep < MaxSweeps - (IF stopped THEN 0 ELSE 1)
    /\ sweep' = sweep + 1 /\ at' = 1
    /\ Goto("run", "sweep", TRUE)
    /\ UNCHANGED <<stopped, cancelled, queue, counts, window, calling, delivered,
                   dropped, ghosts>>

\* The next meter's reading is invalid.
Reject ==
    /\ pc["run"] = "sweep" /\ Turn("run") /\ at <= NumMeters
    /\ rejected' = rejected \cup {[sweep |-> sweep, meter |-> at]}
    /\ at' = at + 1
    /\ Goto("run", "sweep", TRUE)
    /\ UNCHANGED <<stopped, cancelled, queue, sweep, counted, window, calling,
                   delivered, dropped, ghosts>>

\* A slip: one meter too many.
AcceptPastEnd ==
    /\ pc["run"] = "sweep" /\ Turn("run") /\ at <= NumMeters + 1
    /\ AskLock("run")
    /\ UNCHANGED <<stopped, cancelled, sweep, at, counts, window, calling,
                   delivered, dropped, ghosts>>

\* The next meter's reading is valid: run awaits window.add(reading).
Accept ==
    /\ pc["run"] = "sweep" /\ Turn("run") /\ at <= NumMeters
    /\ AskLock("run")
    /\ UNCHANGED <<stopped, cancelled, sweep, at, counts, window, calling,
                   delivered, dropped, ghosts>>

Full(w) == CountWindow > 0 /\ Len(w) >= CountWindow

\* TumblingWindow.add, once it has the lock.
Add ==
    /\ pc["run"] = "lock" /\ Turn("run") /\ Holds("run")
    /\ LET w == Append(window, [sweep |-> sweep, meter |-> at])
       IN  \/ Full(w) /\ FlushLocked("run", w) /\ UNCHANGED <<at, counted>>
           \/ ~Full(w) /\ window' = w /\ UNCHANGED calling /\ Release /\ AfterLock("run")
    /\ UNCHANGED <<stopped, cancelled, sweep, rejected, delivered, dropped, ghosts>>

SweepEnds ==
    /\ pc["run"] = "sweep" /\ Turn("run") /\ at > NumMeters
    /\ Goto("run", IF stopped THEN "done" ELSE "sleep", FALSE)
    /\ UNCHANGED <<stopped, cancelled, queue, sweep, at, counts, window, calling,
                   delivered, dropped, ghosts>>

-----------------------------------------------------------------------------
(* TumblingWindow._time_based_flusher *)

FlusherStarts ==
    /\ pc["flusher"] = "new" /\ Turn("flusher") /\ ~cancelled
    /\ Goto("flusher", IF stopped THEN "done" ELSE "sleep", FALSE)
    /\ UNCHANGED <<stopped, cancelled, queue, sweep, at, counts, window, calling,
                   delivered, dropped, ghosts>>

FlusherWakes ==
    /\ pc["flusher"] = "sleep" /\ Turn("flusher") /\ ~cancelled
    /\ AskLock("flusher")
    /\ UNCHANGED <<stopped, cancelled, sweep, at, counts, window, calling,
                   delivered, dropped, ghosts>>

FlusherFlushes ==
    /\ pc["flusher"] = "lock" /\ Turn("flusher") /\ Holds("flusher") /\ ~cancelled
    /\ \/ FlushNothing("flusher")
       \/ window # <<>> /\ FlushLocked("flusher", window) /\ UNCHANGED <<at, counted>>
    /\ UNCHANGED <<stopped, cancelled, sweep, rejected, delivered, dropped, ghosts>>

\* CancelledError is raised where the flusher is suspended, and swallowed: the
\* lock is released, and a batch whose callback is cancelled is gone.
FlusherCancelled ==
    /\ cancelled /\ running = None
    /\ pc["flusher"] \in {"new", "sleep", "lock", "callback"}
    /\ queue' = IF Holds("flusher") THEN Tail(queue) ELSE queue
    /\ IF pc["flusher"] = "callback"
       THEN calling' = <<>> /\ dropped' = Append(dropped, calling)
       ELSE UNCHANGED <<calling, dropped>>
    /\ Goto("flusher", "done", FALSE)
    /\ UNCHANGED <<stopped, cancelled, sweep, at, counts, window, delivered, ghosts>>

-----------------------------------------------------------------------------
(* AsyncCollector.stop and TumblingWindow.stop *)

\* A task that waits for the lock leaves its queue; the holder stays.
LeaveQueue(t) ==
    \/ \E i \in 2 .. Len(queue) : queue[i] = t /\ queue' = RemoveAt(queue, i)
    \/ (\A i \in 2 .. Len(queue) : queue[i] # t) /\ UNCHANGED queue

\* stop is called: a waiting flusher leaves the queue of the lock as it is
\* cancelled; without a flusher, stop goes straight to its flush.
StopCalled ==
    /\ pc["stop"] = "none" /\ running = None
    /\ stopped' = TRUE
    /\ atStop' = ToSet(window)
    /\ IF pc["flusher"] = "none"
       THEN AskLock("stop") /\ UNCHANGED cancelled
       ELSE /\ cancelled' = (pc["flusher"] # "failed")
            /\ LeaveQueue("flusher")
            /\ Goto("stop", "join", pc["flusher"] = "failed")
    /\ UNCHANGED <<sweep, at, counts, window, calling, delivered, dropped, raises>>

\* A slip: stop does not flush when it has ended the flusher.
StopJoinsOnly ==
    /\ pc["stop"] = "join" /\ Turn("stop") /\ pc["flusher"] \in {"done", "failed"}
    /\ Goto("stop", pc["flusher"], FALSE)
    /\ UNCHANGED <<stopped, cancelled, queue, sweep, at, counts, window, calling,
                   delivered, dropped, ghosts>>

\* The flusher is awaited: what its callback raised is raised again here, and
\* then the final flush is skipped.
StopJoins ==
    /\ pc["stop"] = "join" /\ Turn("stop") /\ pc["flusher"] \in {"done", "failed"}
    /\ IF pc["flusher"] = "failed"
       THEN Goto("stop", "failed", FALSE) /\ UNCHANGED queue
       ELSE AskLock("stop")
    /\ UNCHANGED <<stopped, cancelled, sweep, at, counts, window, calling, delivered,
                   dropped, ghosts>>

\* The final flush, once it has the lock.
StopFlushes ==
    /\ pc["stop"] = "lock" /\ Turn("stop") /\ Holds("stop")
    /\ \/ FlushNothing("stop")
       \/ window # <<>> /\ FlushLocked("stop", window) /\ UNCHANGED <<at, counted>>
    /\ UNCHANGED <<stopped, cancelled, sweep, rejected, delivered, dropped, ghosts>>

-----------------------------------------------------------------------------
(* The callback, awaited by task t *)

CallbackSuspends(t) ==
    /\ pc[t] = "callback" /\ running = t
    /\ running' = None
    /\ UNCHANGED <<pc, stopped, cancelled, queue, sweep, at, counts, window, calling,
                   delivered, dropped, ghosts>>

\* A cancelled flusher does not return from its callback any more.
Answers(t) == pc[t] = "callback" /\ Turn(t) /\ ~(t = "flusher" /\ cancelled)

\* A slip: what a callback achieves after the stop is discarded.
CallbackReturnsTooLate(t) ==
    /\ Answers(t)
    /\ calling' = <<>>
    /\ IF stopped THEN dropped' = Append(dropped, calling) /\ UNCHANGED delivered
                  ELSE delivered' = Append(delivered, calling) /\ UNCHANGED dropped
    /\ Release
    /\ AfterLock(t)
    /\ UNCHANGED <<stopped, cancelled, sweep, rejected, window, ghosts>>

CallbackReturns(t) ==
    /\ Answers(t)
    /\ calling' = <<>>
    /\ delivered' = Append(delivered, calling)
    /\ Release
    /\ AfterLock(t)
    /\ UNCHANGED <<stopped, cancelled, sweep, rejected, window, dropped, ghosts>>

\* A slip: the lock is not released when the callback raises.
CallbackRaisesLocked(t) ==
    /\ Answers(t) /\ raises < MaxRaises
    /\ raises' = raises + 1
    /\ calling' = <<>>
    /\ dropped' = Append(dropped, calling)
    /\ Goto(t, "failed", FALSE)
    /\ UNCHANGED <<stopped, cancelled, queue, sweep, at, counts, window, delivered, atStop>>

\* A slip: the batch is put back into the window when the callback raises.
CallbackRaisesRestoring(t) ==
    /\ Answers(t) /\ raises < MaxRaises
    /\ raises' = raises + 1
    /\ calling' = <<>>
    /\ window' = calling \o window
    /\ Release
    /\ Goto(t, "failed", FALSE)
    /\ UNCHANGED <<stopped, cancelled, sweep, at, counts, delivered, dropped, atStop>>

\* What the callback raises releases the lock and ends the task.
CallbackRaises(t) ==
    /\ Answers(t) /\ raises < MaxRaises
    /\ raises' = raises + 1
    /\ calling' = <<>>
    /\ dropped' = Append(dropped, calling)
    /\ Release
    /\ Goto(t, "failed", FALSE)
    /\ UNCHANGED <<stopped, cancelled, sweep, at, counts, window, delivered, atStop>>

Callback(t) == CallbackSuspends(t) \/ CallbackReturns(t) \/ CallbackRaises(t)

-----------------------------------------------------------------------------
Run     == \/ RunStarts \/ RunWakes \/ Reject \/ Accept \/ Add \/ SweepEnds
           \/ Callback("run")
Flusher == \/ FlusherStarts \/ FlusherWakes \/ FlusherFlushes \/ FlusherCancelled
           \/ Callback("flusher")
Stop    == StopJoins \/ StopFlushes \/ Callback("stop")

\* Every task has ended, so the event loop has nothing left to run.
Finished ==
    /\ pc["run"] \in {"done", "failed"}
    /\ pc["flusher"] \in {"none", "done", "failed"}
    /\ pc["stop"] \in {"done", "failed"}
    /\ UNCHANGED vars

Next == Run \/ Flusher \/ StopCalled \/ Stop \/ Finished

Spec == Init /\ [][Next]_vars

\* The event loop runs its ready tasks in the order in which they got ready, a
\* sleep ends, and a callback ends.  Nobody need call stop.
Fairness == SF_vars(Run) /\ SF_vars(Flusher) /\ SF_vars(Stop)

FairSpec == Spec /\ Fairness

-----------------------------------------------------------------------------
(* What makes the collector correct *)

TypeOK ==
    /\ running \in Tasks \cup {None}
    /\ pc \in [Tasks -> {"none", "new", "sleep", "sweep", "lock", "callback", "join",
                         "done", "failed"}]
    /\ stopped \in BOOLEAN /\ cancelled \in BOOLEAN
    /\ queue \in Seq(Tasks)
    /\ sweep \in 0 .. MaxSweeps /\ at \in 1 .. NumMeters + 1
    /\ counted \in Nat /\ rejected \subseteq Reading
    /\ window \in Seq(Reading) /\ calling \in Seq(Reading)
    /\ delivered \in Seq(Seq(Reading)) /\ dropped \in Seq(Seq(Reading))
    /\ raises \in 0 .. MaxRaises /\ atStop \subseteq Reading

Earlier(a, b) == a.sweep < b.sweep \/ (a.sweep = b.sweep /\ a.meter < b.meter)

\* Readings leave the collector in the order in which they were taken, each once:
\* a batch is handed out only after the callback of the one before has ended.
InOrder ==
    LET out == delivered \o <<calling, window>>
    IN  \A i, j \in 1 .. Len(out) :
            \A k \in 1 .. Len(out[i]), l \in 1 .. Len(out[j]) :
                i < j \/ (i = j /\ k < l) => Earlier(out[i][k], out[j][l])

\* The readings in some batches.
ReadingsIn(batches) == UNION {ToSet(b) : b \in ToSet(batches)}

\* The readings that window.add has taken.
Taken == ToSet(window) \cup ToSet(calling) \cup ReadingsIn(delivered) \cup ReadingsIn(dropped)

\* The readings up to where run is, without the one it is about to add.
Swept ==
    {r \in Reading : \/ r.sweep < sweep
                     \/ r.sweep = sweep /\ r.meter < at
                     \/ /\ r.sweep = sweep /\ r.meter = at
                        /\ pc["run"] \in {"callback", "failed"}}

\* Every reading of a sweep was found invalid or is in the window, with the
\* callback, delivered or in a batch that was dropped.
Accounted == Taken \cup rejected = Swept /\ Taken \cap rejected = {}

\* A batch is dropped only when its callback raises, or, once, when stop cancels
\* the flusher in its callback.
DropsExplained ==
    \/ Len(dropped) = raises
    \/ Len(dropped) = raises + 1 /\ cancelled /\ pc["flusher"] = "done"

\* reading_count lags behind the readings taken by at most the one whose add
\* waits for a callback, or for ever by the one whose callback raised.
CountsAgree ==
    counted = Cardinality(Taken) - (IF pc["run"] \in {"callback", "failed"} THEN 1 ELSE 0)

\* The collector accounts for every reading of its sweeps: where it is, that it is
\* counted, and why it was dropped if it was.
ReadingsAccounted == Accounted /\ CountsAgree /\ DropsExplained

\* When stop has returned, no reading that was in the window when it was called
\* is still there.
NoneLeftBehind == pc["stop"] = "done" => atStop \cap ToSet(window \o calling) = {}

\* run may go on after stop has returned, and what it then puts into the window
\* is flushed by nobody: at most the readings of one sweep.
AtMostOneSweepStranded ==
    pc["stop"] = "done" =>
        \A i, j \in 1 .. Len(window) : window[i].sweep = window[j].sweep

\* What a stop that returned leaves in the window: nothing of what it found, and
\* no more than a sweep.
StopLeavesLittle == NoneLeftBehind /\ AtMostOneSweepStranded

\* The window is a lossy implementation of the batches it promises.
Promise == INSTANCE ReadingBatches
             WITH open <- ToSet(window),
                  sealed <- IF calling = <<>> THEN {} ELSE {ToSet(calling)},
                  delivered <- {ToSet(b) : b \in ToSet(delivered)}

ImplementsBatches == Promise!LossySpec

\* stop returns, or raises what a callback raised: it waits for no task that
\* waits for it, and the lock is never left behind.
StopReturns == stopped ~> pc["stop"] \in {"done", "failed"}

\* Unless a callback raises or stop is called, a reading in the window is handed
\* out in the end, though no limit of readings is ever reached.
FlushedByTime ==
    Timed => \A r \in Reading :
        (r \in ToSet(window) /\ raises = 0 /\ ~stopped)
            ~> (r \notin ToSet(window) \/ raises > 0 \/ stopped)
=============================================================================
