------------------------------ MODULE Dashboard ------------------------------
(***************************************************************************)
(* The dashboard (python/dashboard.py) in one browser session: the worker  *)
(* thread that counts the messages of the topic, and the script that draws *)
(* the page.  Streamlit runs the script again and again, each time in a    *)
(* new module: the session's state survives, globals do not.  The thread   *)
(* is started in the first run and keeps the globals of that run.          *)
(*                                                                         *)
(* The script copies the globals under the lock, but the copies of         *)
(* collector_stats and meter_metrics hold the very entries that the worker *)
(* goes on changing while the page is being drawn.  What the worker does   *)
(* under the lock is split where the drawing can see it.                   *)
(*                                                                         *)
(* The messages are any sequence: the topic may repeat one, and other      *)
(* sessions are in the same consumer group and take some of them.  A       *)
(* window has any number of metrics, and a field that is not there counts  *)
(* as the 0 that .get gives; a value of another type raises at one of five *)
(* places.  Numbers are natural, energies in whole kWh.                    *)
(***************************************************************************)
EXTENDS Integers, Sequences, FiniteSets, FiniteSetsExt, Functions

CONSTANTS
    Collectors, Meters,
    Messages,      \* what may be in the topic
    MaxPoints,     \* DASHBOARD_MAX_POINTS
    MaxMessages,   \* bound: messages the worker gets
    NoMeter,       \* the meter_id of a metric that has none
    None

\* A metric, and which of its fields raises: meter_id when it is looked up, count
\* when it is added, min_kwh or max_kwh when they are compared.
Metric == [meter : Meters \cup {NoMeter}, count : Nat, sum : Nat,
           fault : {"none", "id", "count", "bounds"}]

\* A message that is not JSON is malformed; a scalar raises at its total_count, an
\* early one at its window_end or in its list of metrics, an unhashable one at its
\* collector_id.
ASSUME MessagesAssumption ==
    Messages \subseteq [shape : {"window", "malformed", "scalar", "early", "unhashable"},
                        collector : Collectors, total : Nat, metrics : Seq(Metric)]
ASSUME FiniteAssumption == IsFiniteSet(Collectors) /\ IsFiniteSet(Meters)
ASSUME NoneAssumption ==
    /\ None \notin Nat \cup Messages \cup [count : Nat, sum : Nat]
                \cup [windows : Nat, readings : Nat \cup {None}]
                \cup [sum : Nat, count : Nat \cup {None}]
    /\ NoMeter \notin Meters
ASSUME PointsAssumption == MaxPoints \in Nat \ {0} /\ MaxMessages \in Nat

VARIABLES
    worker,      \* where the thread is
    msg,         \* the message it is adding
    at,          \* which of its metrics, 0 for none
    locked,      \* data_lock is held by the worker
    total_readings, window_count, time_series, collector_stats, meter_metrics,
    script,      \* where the script is
    first,       \* this is the first run of the script
    copied,      \* what the script took under the lock
    page,        \* what it has drawn of it
    seen         \* history: the messages counted

globals == <<total_readings, window_count, time_series, collector_stats, meter_metrics>>
workerVars == <<worker, msg, at, locked, globals, seen>>
scriptVars == <<script, first, copied, page>>
vars == <<workerVars, scriptVars>>

NoCopy == [windows |-> 0, readings |-> 0, points |-> <<>>, collectors |-> {}, meters |-> {}]
NoPage == [windows |-> 0, rows |-> [c \in Collectors |-> None],
           averages |-> [m \in Meters |-> None]]

Init ==
    /\ worker = "none" /\ msg = None /\ at = 0 /\ locked = FALSE
    /\ total_readings = 0 /\ window_count = 0 /\ time_series = <<>>
    /\ collector_stats = [c \in Collectors |-> [windows |-> 0, readings |-> 0]]
    /\ meter_metrics = [m \in Meters |-> None]
    /\ script = "start" /\ first = TRUE
    /\ copied = NoCopy /\ page = NoPage
    /\ seen = <<>>

-----------------------------------------------------------------------------
(* The worker *)

\* A slip: the deque has no maximal length.
PushedUnbounded(points, p) == Append(points, p)

\* A deque with a maximal length drops its oldest entry.
Pushed(points, p) ==
    LET all == Append(points, p)
    IN  IF Len(all) > MaxPoints THEN Tail(all) ELSE all

ConsumerStarts ==
    /\ worker = "starting"
    /\ worker' = "waiting"
    /\ UNCHANGED <<msg, at, locked, globals, seen, scriptVars>>

\* The brokers cannot be reached: the thread ends, and no other is started.
ConsumerFails ==
    /\ worker = "starting"
    /\ worker' = "dead"
    /\ UNCHANGED <<msg, at, locked, globals, seen, scriptVars>>

\* A message that is not JSON is skipped; the bound counts it as well.
SkipMalformed ==
    /\ worker = "waiting" /\ Len(seen) < MaxMessages
    /\ \E m \in Messages : m.shape = "malformed" /\ seen' = Append(seen, m)
    /\ UNCHANGED <<worker, msg, at, locked, globals, scriptVars>>

\* The lock is taken, and the totals get the message m.
Totals(m) ==
    /\ ~locked
    /\ total_readings' = total_readings + m.total
    /\ window_count' = window_count + 1
    /\ seen' = Append(seen, m)

\* The first part of the update; the lock is held from here to EndUpdate or Raise.
Count ==
    /\ worker = "waiting" /\ Len(seen) < MaxMessages
    /\ \E m \in Messages :
         /\ m.shape \in {"window", "unhashable"}
         /\ Totals(m)
         /\ time_series' = Pushed(time_series, m)
         /\ msg' = m
    /\ worker' = "counted" /\ locked' = TRUE
    /\ UNCHANGED <<at, collector_stats, meter_metrics, scriptVars>>

\* A slip: the lock is not released when the thread ends.
DieLocked ==
    /\ worker = "waiting" /\ Len(seen) < MaxMessages /\ ~locked
    /\ \E m \in Messages :
         \/ m.shape = "scalar" /\ UNCHANGED <<total_readings, window_count, seen>>
         \/ m.shape = "early" /\ Totals(m)
    /\ worker' = "dead" /\ locked' = TRUE
    /\ UNCHANGED <<msg, at, time_series, collector_stats, meter_metrics, scriptVars>>

\* A scalar raises before anything is changed, an early one after the totals were:
\* the lock is released, the consumer stopped, and the thread ends.
Die ==
    /\ worker = "waiting" /\ Len(seen) < MaxMessages /\ ~locked
    /\ \E m \in Messages :
         \/ m.shape = "scalar" /\ UNCHANGED <<total_readings, window_count, seen>>
         \/ m.shape = "early" /\ Totals(m)
    /\ worker' = "dead"
    /\ UNCHANGED <<msg, at, locked, time_series, collector_stats, meter_metrics, scriptVars>>

\* A slip: the lock is released too early, before the entries are changed.
AddWindowUnlocked ==
    /\ worker = "counted" /\ msg.shape = "window"
    /\ collector_stats' = [collector_stats EXCEPT ![msg.collector].windows = @ + 1]
    /\ worker' = "windowed" /\ locked' = FALSE
    /\ UNCHANGED <<msg, at, total_readings, window_count, time_series,
                   meter_metrics, seen, scriptVars>>

AddWindow ==
    /\ worker = "counted" /\ msg.shape = "window"
    /\ collector_stats' = [collector_stats EXCEPT ![msg.collector].windows = @ + 1]
    /\ worker' = "windowed"
    /\ UNCHANGED <<msg, at, locked, total_readings, window_count, time_series,
                   meter_metrics, seen, scriptVars>>

AddReadings ==
    /\ worker = "windowed"
    /\ collector_stats' =
         [collector_stats EXCEPT ![msg.collector].readings = @ + msg.total]
    /\ worker' = "metrics" /\ at' = 1
    /\ UNCHANGED <<msg, locked, total_readings, window_count, time_series,
                   meter_metrics, seen, scriptVars>>

\* The loop over the metrics, and the one it is at.
HasMetric == worker = "metrics" /\ at <= Len(msg.metrics)
ThisMetric == msg.metrics[at]

\* A metric without a meter is left out.
SkipMetric ==
    /\ HasMetric /\ ThisMetric.meter = NoMeter
    /\ at' = at + 1
    /\ UNCHANGED <<worker, msg, locked, globals, seen, scriptVars>>

\* The entry of a meter is created at its first metric.
MeterEntry ==
    /\ HasMetric /\ ThisMetric.meter # NoMeter /\ ThisMetric.fault # "id"
    /\ meter_metrics' = [meter_metrics EXCEPT ![ThisMetric.meter] =
                             IF @ = None THEN [count |-> 0, sum |-> 0] ELSE @]
    /\ worker' = "entry"
    /\ UNCHANGED <<msg, at, locked, total_readings, window_count, time_series,
                   collector_stats, seen, scriptVars>>

MeterCount ==
    /\ worker = "entry" /\ ThisMetric.fault # "count"
    /\ meter_metrics' =
         [meter_metrics EXCEPT ![ThisMetric.meter].count = @ + ThisMetric.count]
    /\ worker' = "metered"
    /\ UNCHANGED <<msg, at, locked, total_readings, window_count, time_series,
                   collector_stats, seen, scriptVars>>

MeterSum ==
    /\ worker = "metered"
    /\ meter_metrics' =
         [meter_metrics EXCEPT ![ThisMetric.meter].sum = @ + ThisMetric.sum]
    /\ worker' = "bounds"
    /\ UNCHANGED <<msg, at, locked, total_readings, window_count, time_series,
                   collector_stats, seen, scriptVars>>

\* The least and the greatest energy of a meter, which no page shows.
MeterBounds ==
    /\ worker = "bounds" /\ ThisMetric.fault # "bounds"
    /\ worker' = "metrics" /\ at' = at + 1
    /\ UNCHANGED <<msg, locked, globals, seen, scriptVars>>

\* The lock is released.
Release == msg' = None /\ at' = 0 /\ locked' = FALSE

EndUpdate ==
    /\ worker = "metrics" /\ at > Len(msg.metrics)
    /\ worker' = "waiting" /\ Release
    /\ UNCHANGED <<globals, seen, scriptVars>>

\* An exception in the middle of the update: what was changed stays, and the
\* thread ends.
Raise ==
    /\ \/ worker = "counted" /\ msg.shape = "unhashable"
       \/ HasMetric /\ ThisMetric.meter # NoMeter /\ ThisMetric.fault = "id"
       \/ worker = "entry" /\ ThisMetric.fault = "count"
       \/ worker = "bounds" /\ ThisMetric.fault = "bounds"
    /\ worker' = "dead" /\ Release
    /\ UNCHANGED <<globals, seen, scriptVars>>

Worker ==
    \/ ConsumerStarts \/ AddWindow \/ AddReadings \/ SkipMetric \/ MeterEntry
    \/ MeterCount \/ MeterSum \/ MeterBounds \/ EndUpdate \/ Raise

Message == SkipMalformed \/ Count \/ Die

-----------------------------------------------------------------------------
(* The script *)

\* A run begins; the first one starts the thread.
StartScript ==
    /\ script = "start"
    /\ script' = "copy"
    /\ worker' = IF worker = "none" THEN "starting" ELSE worker
    /\ UNCHANGED <<msg, at, locked, globals, seen, first, copied, page>>

\* The globals of the first run, those the thread has.
Globals ==
    [windows |-> window_count, readings |-> total_readings, points |-> time_series,
     collectors |-> {c \in Collectors : collector_stats[c].windows > 0},
     meters |-> {m \in Meters : meter_metrics[m] # None}]

\* A slip: the copies are made without the lock.
CopyUnlocked ==
    /\ script = "copy"
    /\ copied' = IF first THEN Globals ELSE NoCopy
    /\ script' = IF copied'.points = <<>> THEN "sleep" ELSE "charts"
    /\ page' = [NoPage EXCEPT !.windows = copied'.windows]
    /\ UNCHANGED <<workerVars, first>>

\* The script copies its globals: in the first run those of the thread, later
\* new ones that nobody writes.
Copy ==
    /\ script = "copy" /\ (first => ~locked)
    /\ copied' = IF first THEN Globals ELSE NoCopy
    /\ script' = IF copied'.points = <<>> THEN "sleep" ELSE "charts"
    /\ page' = [NoPage EXCEPT !.windows = copied'.windows]
    /\ UNCHANGED <<workerVars, first>>

\* The charts group the points by collector, which fails with an unhashable one.
Charts ==
    /\ script = "charts"
    /\ script' = IF \E i \in DOMAIN copied.points : copied.points[i].shape = "unhashable"
                 THEN "failed" ELSE "rows"
    /\ UNCHANGED <<workerVars, first, copied, page>>

\* A row of the table of collectors: first its windows are read, ...
RowWindows ==
    /\ script = "rows"
    /\ \E c \in copied.collectors :
         /\ page.rows[c] = None
         /\ page' = [page EXCEPT !.rows[c] =
                        [windows |-> collector_stats[c].windows, readings |-> None]]
    /\ script' = "row"
    /\ UNCHANGED <<workerVars, first, copied>>

\* ... then its readings.
RowReadings ==
    /\ script = "row"
    /\ \E c \in copied.collectors :
         /\ page.rows[c] # None /\ page.rows[c].readings = None
         /\ page' = [page EXCEPT !.rows[c].readings = collector_stats[c].readings]
    /\ script' = IF \E c \in copied.collectors : page'.rows[c] = None THEN "rows"
                 ELSE IF copied.meters = {} THEN "sleep" ELSE "averages"
    /\ UNCHANGED <<workerVars, first, copied>>

\* The average of a meter: its energy is read, ...
AverageSum ==
    /\ script = "averages"
    /\ \E m \in copied.meters :
         /\ page.averages[m] = None
         /\ page' = [page EXCEPT !.averages[m] =
                        [sum |-> meter_metrics[m].sum, count |-> None]]
    /\ script' = "average"
    /\ UNCHANGED <<workerVars, first, copied>>

\* ... then the count it is divided by.
AverageCount ==
    /\ script = "average"
    /\ \E m \in copied.meters :
         /\ page.averages[m] # None /\ page.averages[m].count = None
         /\ meter_metrics[m].count > 0
         /\ page' = [page EXCEPT !.averages[m].count = meter_metrics[m].count]
    /\ script' = IF \E m \in copied.meters : page'.averages[m] = None
                 THEN "averages" ELSE "sleep"
    /\ UNCHANGED <<workerVars, first, copied>>

\* A count of zero: the division raises, and the run ends without another.
AverageFails ==
    /\ script = "average"
    /\ \E m \in copied.meters :
         /\ page.averages[m] # None /\ page.averages[m].count = None
         /\ meter_metrics[m].count = 0
    /\ script' = "failed"
    /\ UNCHANGED <<workerVars, first, copied, page>>

\* The script is run again, in new globals.
NewRun ==
    /\ script' = "start" /\ first' = FALSE
    /\ copied' = NoCopy
    /\ UNCHANGED <<workerVars, page>>

\* The page is complete, and the script sleeps before it is run again.
Rerun == script = "sleep" /\ NewRun

\* Only the user can run a script again that failed.
UserReruns == script = "failed" /\ NewRun

Script ==
    \/ StartScript \/ Copy \/ Charts \/ RowWindows \/ RowReadings
    \/ AverageSum \/ AverageCount \/ AverageFails \/ Rerun

Next == Message \/ Worker \/ ConsumerFails \/ Script \/ UserReruns

Spec == Init /\ [][Next]_vars

\* Both threads are scheduled; messages need not come, and users need not ask.
FairSpec == Spec /\ WF_vars(Worker) /\ WF_vars(Script)
-----------------------------------------------------------------------------
Row == [windows : Nat \ {0}, readings : Nat \cup {None}]
Average == [sum : Nat, count : Nat \cup {None}]
Page == [windows : Nat, rows : [Collectors -> Row \cup {None}],
         averages : [Meters -> Average \cup {None}]]

TypeOK ==
    /\ worker \in {"none", "starting", "waiting", "counted", "windowed", "metrics",
                   "entry", "metered", "bounds", "dead"}
    /\ msg \in Messages \cup {None} /\ at \in Nat
    /\ locked \in BOOLEAN
    /\ total_readings \in Nat /\ window_count \in 0 .. MaxMessages
    /\ time_series \in Seq(Messages) /\ Len(time_series) <= MaxPoints
    /\ collector_stats \in [Collectors -> [windows : Nat, readings : Nat]]
    /\ meter_metrics \in [Meters -> [count : Nat, sum : Nat] \cup {None}]
    /\ script \in {"start", "copy", "charts", "rows", "row", "averages", "average",
                   "sleep", "failed"}
    /\ first \in BOOLEAN
    /\ page \in Page
    /\ seen \in Seq(Messages)

Died == worker = "dead"

\* What the entries of the collectors, and those of the meters, add up to.
CollectorWindows == SumFunction([c \in Collectors |-> collector_stats[c].windows])
CollectorReadings == SumFunction([c \in Collectors |-> collector_stats[c].readings])

EntryOf(m) == IF meter_metrics[m] = None THEN [count |-> 0, sum |-> 0] ELSE meter_metrics[m]
MeterReadings == SumFunction([m \in Meters |-> EntryOf(m).count])
MeterEnergy   == SumFunction([m \in Meters |-> EntryOf(m).sum])

\* The windows that the collectors' sender writes (SendAggregatedData: of every meter
\* with readings their number and their energy, here one kWh each), and what is
\* skipped.
Regular(m) ==
    \/ m.shape = "malformed"
    \/ /\ m.shape = "window"
       /\ m.total = SumFunction([i \in DOMAIN m.metrics |-> m.metrics[i].count])
       /\ \A i \in DOMAIN m.metrics :
             /\ m.metrics[i].meter # NoMeter /\ m.metrics[i].fault = "none"
             /\ m.metrics[i].count > 0 /\ m.metrics[i].sum = m.metrics[i].count

AllRegular == \A i \in DOMAIN seen : Regular(seen[i])

\* Whoever gets the lock finds the five globals in agreement, whatever the messages
\* were and wherever one raised: totals, series and entries of collectors tell of
\* the same windows; if the worker died of a message, totals may be ahead of the
\* collectors by just that one, and the series with them or not.  While all
\* messages are regular the entries of the meters agree as well (the `with' of
\* lines 57-94).
FiguresAgree ==
    ~locked =>
        /\ \/ window_count = CollectorWindows /\ total_readings = CollectorReadings
           \/ /\ Died /\ ~AllRegular /\ window_count = CollectorWindows + 1
              /\ total_readings = CollectorReadings + seen[Len(seen)].total
        /\ \E n \in {CollectorWindows, window_count} : Len(time_series) = Min({n, MaxPoints})
        /\ AllRegular => MeterReadings = CollectorReadings /\ MeterEnergy = CollectorReadings

\* The places in seen of the windows of collector c, and of the first n of them.
WindowsOf(c) == {i \in DOMAIN seen : seen[i].shape = "window" /\ seen[i].collector = c}

FirstOf(c, n) ==
    {i \in WindowsOf(c) : Cardinality({j \in WindowsOf(c) : j <= i}) <= n}

\* Their readings.
ReadingsOf(c, n) == SumFunction([i \in FirstOf(c, n) |-> seen[i].total])

\* A page drawn while the worker goes on: a row misses the readings of at most
\* one of the windows it shows, and the rows show no fewer windows than the caption,
\* unless the worker died.  While all messages are regular no run fails, by a count
\* of zero or otherwise, and no average is too high, since the energy is read before
\* the count and written after it (lines 74-94, and 112-117, 144, 155-159, 176-180).
PageHolds ==
    /\ \A c \in Collectors :
          page.rows[c] # None /\ page.rows[c].readings # None =>
              page.rows[c].readings >= ReadingsOf(c, page.rows[c].windows - 1)
    /\ script = "averages" =>
          SumFunction([c \in copied.collectors |-> page.rows[c].windows])
              >= page.windows - (IF Died THEN 1 ELSE 0)
    /\ AllRegular =>
          /\ script # "failed"
          /\ \A m \in Meters :
                page.averages[m] # None /\ page.averages[m].count # None =>
                    page.averages[m].sum <= page.averages[m].count

\* Every run of the script ends, with a page or with an exception, even if the
\* worker dies in the middle of an update: none waits for ever for the lock.
RunsEnd == []<>(script \in {"sleep", "failed"})

\* "Updated in realtime with new data" (PROMPT_LOG.md:74): what the worker has
\* counted is shown by a later page.
ShowsNewData ==
    \A n \in 1 .. MaxMessages : window_count >= n ~> page.windows >= n
=============================================================================
