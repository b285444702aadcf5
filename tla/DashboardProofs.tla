--------------------------- MODULE DashboardProofs ---------------------------
(***************************************************************************)
(* The figures of the dashboard and the pages drawn of them, for any       *)
(* collectors, meters and messages and any length of the series.  The      *)
(* invariant says at every place of the worker what the message at hand    *)
(* still lacks, and of what the script has drawn that it is of some moment *)
(* since it copied.                                                        *)
(***************************************************************************)
EXTENDS Dashboard, SetProofs, SequenceTheorems

Busy == {"counted", "windowed", "metrics", "entry", "metered", "bounds"}

\* Where the worker is, what it holds, and how much it has counted.
WorkerInv ==
    /\ locked <=> worker \in Busy
    /\ worker \in Busy =>
          /\ msg \in Messages /\ msg.shape \in {"window", "unhashable"}
          /\ worker # "counted" => msg.shape = "window"
          /\ Len(seen) > 0 /\ msg = seen[Len(seen)]
    /\ worker \in {"metrics", "entry", "metered", "bounds"} => at > 0 /\ at <= Len(msg.metrics) + 1
    /\ worker \in {"entry", "metered", "bounds"} =>
          at <= Len(msg.metrics) /\ ThisMetric.meter # NoMeter
    /\ window_count <= Len(seen) /\ Len(seen) <= MaxMessages
    /\ copied.windows \in Nat
    /\ copied.collectors \subseteq Collectors /\ copied.meters \subseteq Meters

\* What the message at hand still lacks of, when the worker is at one of places.
Due(places) == IF worker \in places THEN msg.total ELSE 0

\* The readings of its metrics from the k-th on, and what the meters still lack of
\* them when those at the places have the metric at hand before them.
Rest(m, k) == SumFunction([i \in k .. Len(m.metrics) |-> m.metrics[i].count])

Owed(places) ==
    IF worker \in places THEN Rest(msg, at)
    ELSE IF worker \in {"metrics", "entry", "metered", "bounds"} THEN Rest(msg, at + 1)
    ELSE 0

\* FiguresAgree, at every step of an update.
FiguresInv ==
    LET uncounted == IF worker = "counted" THEN 1 ELSE 0
    IN  /\ \/ /\ window_count = CollectorWindows + uncounted
              /\ total_readings = CollectorReadings + Due({"counted", "windowed"})
           \/ /\ Died /\ ~AllRegular /\ window_count = CollectorWindows + 1
              /\ total_readings = CollectorReadings + seen[Len(seen)].total
        /\ \/ Len(time_series) = Min({CollectorWindows + uncounted, MaxPoints})
           \/ Died /\ Len(time_series) = Min({window_count, MaxPoints})
        /\ AllRegular =>
              /\ MeterReadings + Owed({"metrics", "entry"}) = CollectorReadings
              /\ MeterEnergy + Owed({"metrics", "entry", "metered"}) = CollectorReadings

\* The message at hand is a window of collector c, and the worker at one of places.
At(places, c) == worker \in places /\ msg.shape = "window" /\ msg.collector = c

\* The entry of collector c has the windows seen of it, and their readings, but for
\* what it lacks of the message at hand.
CollectorFits(c, lackingWindows, lackingReadings) ==
    LET n == Cardinality(WindowsOf(c))
    IN  /\ collector_stats[c].windows + lackingWindows = n
        /\ collector_stats[c].readings + lackingReadings = ReadingsOf(c, n)
        /\ lackingReadings > 0 =>
              n > 0 /\ collector_stats[c].readings = ReadingsOf(c, n - 1)

Lacking(c) ==
    CollectorFits(c, IF At({"counted"}, c) THEN 1 ELSE 0,
                     IF At({"counted", "windowed"}, c) THEN msg.total ELSE 0)

CollectorsInv == \A c \in Collectors : Lacking(c)

\* The energy of a meter is written after its count.
MeterFits(m) ==
    meter_metrics[m] # None =>
        /\ meter_metrics[m].sum
             + (IF worker = "metered" /\ ThisMetric.meter = m THEN ThisMetric.sum ELSE 0)
             <= meter_metrics[m].count
        /\ meter_metrics[m].count > 0 \/ (worker = "entry" /\ ThisMetric.meter = m)

MetersInv ==
    /\ worker \in {"entry", "metered", "bounds"} => meter_metrics[ThisMetric.meter] # None
    /\ AllRegular => \A m \in Meters : MeterFits(m)

\* The charts can be drawn of what is regular.
Drawable(points) == \A i \in DOMAIN points : points[i].shape # "unhashable"

SeriesInv == AllRegular => Drawable(time_series)

\* A meter that has an entry, with a count while all is regular.
Counted(m) == meter_metrics[m] # None /\ (AllRegular => meter_metrics[m].count > 0)

\* The windows that the row of c shows, or would show now.
Drawn(c) ==
    IF page.rows[c] = None THEN collector_stats[c].windows ELSE page.rows[c].windows

Drawing == {"charts", "rows", "row", "averages", "average"}

\* What was copied is still there, ...
CopiedFits ==
    /\ \A c \in copied.collectors : collector_stats[c].windows > 0
    /\ \A m \in copied.meters : Counted(m)
    /\ AllRegular => Drawable(copied.points)

\* ... and what is drawn of it is of some moment since.
RowFits(c) ==
    page.rows[c] # None =>
        /\ page.rows[c].windows <= collector_stats[c].windows
        /\ page.rows[c].readings # None =>
              page.rows[c].readings >= ReadingsOf(c, page.rows[c].windows - 1)

AverageFits(m) ==
    page.averages[m] # None =>
        /\ Counted(m)
        /\ AllRegular =>
              IF page.averages[m].count = None
              THEN page.averages[m].sum <= meter_metrics[m].count
              ELSE page.averages[m].sum <= page.averages[m].count

TableFits ==
    script \in Drawing =>
        SumFunction([c \in copied.collectors |-> Drawn(c)])
            >= page.windows - (IF Died THEN 1 ELSE 0)

TableComplete ==
    script \in {"averages", "average"} => \A c \in copied.collectors : page.rows[c] # None

PageInv ==
    /\ CopiedFits
    /\ \A c \in Collectors : RowFits(c)
    /\ \A m \in Meters : AverageFits(m)
    /\ TableFits /\ TableComplete
    /\ AllRegular => script # "failed"

Inv ==
    /\ TypeOK /\ WorkerInv /\ FiguresInv /\ CollectorsInv /\ MetersInv /\ SeriesInv
    /\ PageInv

-----------------------------------------------------------------------------
(* Sums *)

\* What one element more adds to a sum.
LEMMA SumGrows ==
    ASSUME NEW S, IsFiniteSet(S), NEW f \in [S -> Nat], NEW h \in [S -> Nat],
           NEW x \in S, NEW n \in Nat,
           h[x] = f[x] + n, \A y \in S \ {x} : h[y] = f[y]
    PROVE  SumFunction(f) \in Nat /\ SumFunction(h) = SumFunction(f) + n
<1>1. DOMAIN f = S /\ DOMAIN h = S
  OBVIOUS
<1>2. SumFunctionOnSet(f, S) \in Nat
  BY SumOfNaturals
<1>3. SumFunctionOnSet(h, S) = SumFunctionOnSet(f, S) - f[x] + h[x]
  BY SumChange
<1>4. h[x] = f[x] + n /\ f[x] \in Nat
  OBVIOUS
<1> QED BY <1>1, <1>2, <1>3, <1>4 DEF SumFunction

\* The readings of the first windows: a new message adds to those of its collector
\* and leaves those that were there.
LEMMA ReadingsAppended ==
    ASSUME TypeOK, NEW m \in Messages, seen' = Append(seen, m), NEW c \in Collectors,
           NEW n, n = Cardinality(WindowsOf(c))
    PROVE  /\ n \in Nat
           /\ \A k \in Nat : k <= n => ReadingsOf(c, k)' = ReadingsOf(c, k)
           /\ IF m.shape = "window" /\ m.collector = c
              THEN /\ Cardinality(WindowsOf(c))' = n + 1
                   /\ ReadingsOf(c, n + 1)' = ReadingsOf(c, n) + m.total
              ELSE Cardinality(WindowsOf(c))' = n
<1> DEFINE w == WindowsOf(c)
           last == Len(seen) + 1
           mine == m.shape = "window" /\ m.collector = c
           after == IF mine THEN w \cup {last} ELSE w
<1>1. /\ Len(seen) \in Nat /\ DOMAIN seen = 1 .. Len(seen)
      /\ DOMAIN seen' = 1 .. last
      /\ \A i \in 1 .. Len(seen) : seen'[i] = seen[i]
      /\ seen'[last] = m
  BY LenProperties, AppendProperties DEF TypeOK
<1>2. w \subseteq 1 .. Len(seen) /\ last \notin w /\ IsFiniteSet(w) /\ n \in Nat
  <2>1. w \subseteq 1 .. Len(seen)
    BY <1>1 DEF WindowsOf
  <2>2. IsFiniteSet(1 .. Len(seen))
    BY <1>1, FS_Interval
  <2>3. IsFiniteSet(w)
    <3> HIDE DEF w
    <3> QED BY <2>1, <2>2, FS_Subset
  <2>4. last \notin w
    <3> HIDE DEF w
    <3> QED BY <2>1, <1>1
  <2> QED BY <2>1, <2>3, <2>4, FS_CardinalityType
<1>3. WindowsOf(c)' = after
  <2>1. WindowsOf(c)' = {i \in 1 .. last : seen'[i].shape = "window" /\ seen'[i].collector = c}
    BY <1>1 DEF WindowsOf
  <2>2. w = {i \in 1 .. Len(seen) : seen[i].shape = "window" /\ seen[i].collector = c}
    BY <1>1 DEF WindowsOf
  <2>3. 1 .. last = (1 .. Len(seen)) \cup {last} /\ last \notin 1 .. Len(seen)
    BY <1>1
  <2> HIDE DEF w, last
  <2> QED BY <1>1, <2>1, <2>2, <2>3
<1>4. IsFiniteSet(after) /\ Cardinality(after) = IF mine THEN n + 1 ELSE n
  BY <1>2, FS_AddElement
<1> DEFINE UpTo(s, i) == {j \in s : j <= i}
<1>5. ASSUME NEW i \in w PROVE UpTo(after, i) = UpTo(w, i)
  <2>1. ~(last <= i)
    <3> HIDE DEF w
    <3> QED BY <1>1, <1>2
  <2> QED BY <2>1
<1>6. ASSUME NEW i \in w PROVE Cardinality(UpTo(w, i)) \in Nat /\ Cardinality(UpTo(w, i)) <= n
  <2>1. UpTo(w, i) \in SUBSET w /\ n = Cardinality(w)
    OBVIOUS
  <2> HIDE DEF UpTo, w
  <2> QED BY <1>2, <2>1, FS_Subset, FS_CardinalityType
<1>7. mine => UpTo(after, last) = after
  <2>1. \A j \in 1 .. last : j <= last
    BY <1>1
  <2>2. mine => after \subseteq 1 .. last
    <3>1. 1 .. Len(seen) \subseteq 1 .. last /\ last \in 1 .. last
      BY <1>1
    <3> HIDE DEF w, last, mine
    <3> QED BY <1>2, <3>1
  <2> HIDE DEF after, last
  <2> QED BY <2>1, <2>2
<1>8. \A k : /\ FirstOf(c, k) = {i \in w : Cardinality(UpTo(w, i)) <= k}
             /\ FirstOf(c, k)' = {i \in after : Cardinality(UpTo(after, i)) <= k}
  BY <1>3 DEF FirstOf
<1>9. ASSUME NEW k \in Nat, k <= n PROVE FirstOf(c, k)' = FirstOf(c, k)
  <2>1. mine => ~(Cardinality(UpTo(after, last)) <= k)
    <3> HIDE DEF UpTo, after, w
    <3> QED BY <1>2, <1>4, <1>7, <1>9
  <2>2. ASSUME NEW i
        PROVE  i \in FirstOf(c, k)' <=> i \in FirstOf(c, k)
    <3>1. /\ i \in FirstOf(c, k) <=> i \in w /\ Cardinality(UpTo(w, i)) <= k
          /\ i \in FirstOf(c, k)' <=> i \in after /\ Cardinality(UpTo(after, i)) <= k
      BY <1>3 DEF FirstOf
    <3>2. CASE i \in w
      <4> HIDE DEF UpTo, w
      <4> QED BY <1>5, <3>1, <3>2
    <3>3. CASE i \notin w
      <4>1. i \in after => mine /\ i = last
        BY <3>3
      <4> HIDE DEF UpTo, w, after
      <4> QED BY <2>1, <3>1, <3>3, <4>1
    <3> QED BY <3>2, <3>3
  <2> QED BY <2>2
<1>10. ASSUME NEW k \in Nat, k <= n PROVE ReadingsOf(c, k)' = ReadingsOf(c, k)
  <2>1. \A i \in FirstOf(c, k) : seen'[i] = seen[i]
    <3>1. FirstOf(c, k) \subseteq w
      BY <1>8
    <3> QED BY <3>1, <1>1, <1>2
  <2> QED BY <1>9, <1>10, <2>1 DEF ReadingsOf
<1>11. ASSUME mine PROVE ReadingsOf(c, n + 1)' = ReadingsOf(c, n) + m.total
  <2> DEFINE f == [i \in w |-> seen[i].total]
             h == [i \in after |-> seen'[i].total]
  <2>1. FirstOf(c, n) = w
    <3> HIDE DEF UpTo, w
    <3> QED BY <1>6, <1>8
  <2>2. FirstOf(c, n + 1)' = after
    <3>1. \A i \in after : Cardinality(UpTo(after, i)) <= n + 1
      <4>1. Cardinality(UpTo(after, last)) <= n + 1
        <5> HIDE DEF UpTo, after, w
        <5> QED BY <1>2, <1>4, <1>7, <1>11
      <4>2. \A i \in w : Cardinality(UpTo(after, i)) <= n + 1
        <5> HIDE DEF UpTo, after, w
        <5> QED BY <1>2, <1>5, <1>6
      <4> HIDE DEF UpTo
      <4> QED BY <4>1, <4>2
    <3>2. FirstOf(c, n + 1)' = {i \in after : Cardinality(UpTo(after, i)) <= n + 1}
      BY <1>3 DEF FirstOf
    <3> HIDE DEF UpTo, after
    <3> QED BY <3>1, <3>2
  <2>3. \A i \in 1 .. Len(seen) : seen[i].total \in Int
    <3>1. \A i \in 1 .. Len(seen) : seen[i] \in Messages
      BY ElementOfSeq DEF TypeOK
    <3> QED BY <3>1, MessagesAssumption
  <2>4. m.total \in Int
    BY MessagesAssumption
  <2>5. SumFunctionOnSet(h, after) = SumFunctionOnSet(h, w) + h[last]
    <3>1. after = w \cup {last}
      BY <1>11
    <3>2. \A y \in w \cup {last} : h[y] \in Int
      BY <1>1, <1>2, <1>11, <2>3, <2>4
    <3> HIDE DEF h, after, w, last
    <3> QED BY <1>2, <3>1, <3>2, SumAdd
  <2>6. SumFunctionOnSet(f, w) = SumFunctionOnSet(h, w)
    <3>1. \A i \in w : f[i] \in Int /\ f[i] = h[i]
      BY <1>1, <1>2, <2>3
    <3> HIDE DEF f, h, w
    <3> QED BY <1>2, <3>1, SumSame
  <2>7. h[last] = m.total
    BY <1>1, <1>11
  <2>8. DOMAIN f = w /\ DOMAIN h = after
    OBVIOUS
  <2>9. ReadingsOf(c, n) = SumFunction(f) /\ ReadingsOf(c, n + 1)' = SumFunction(h)
    BY <2>1, <2>2 DEF ReadingsOf
  <2> HIDE DEF f, h, w, after, last
  <2> QED BY <2>5, <2>6, <2>7, <2>8, <2>9 DEF SumFunction
<1> QED BY <1>2, <1>3, <1>4, <1>10, <1>11

LEMMA ReadingsMonotone ==
    ASSUME TypeOK, NEW c \in Collectors, NEW j \in Int, NEW k \in Int, j <= k
    PROVE  /\ ReadingsOf(c, j) \in Nat /\ ReadingsOf(c, k) \in Nat
           /\ ReadingsOf(c, j) <= ReadingsOf(c, k)
<1> DEFINE w == WindowsOf(c)
           f == [i \in w |-> seen[i].total]
           F(l) == FirstOf(c, l)
           g(l) == [i \in F(l) |-> seen[i].total]
<1>1. Len(seen) \in Nat /\ DOMAIN seen = 1 .. Len(seen)
  BY LenProperties DEF TypeOK
<1>2. w \in SUBSET (1 .. Len(seen)) /\ IsFiniteSet(w)
  <2>1. w \subseteq 1 .. Len(seen)
    BY <1>1 DEF WindowsOf
  <2>2. IsFiniteSet(1 .. Len(seen))
    BY <1>1, FS_Interval
  <2> HIDE DEF w
  <2> QED BY <2>1, <2>2, FS_Subset
<1>3. \A i \in w : seen[i].total \in Nat
  <2>1. \A i \in 1 .. Len(seen) : seen[i] \in Messages
    BY ElementOfSeq DEF TypeOK
  <2> HIDE DEF w
  <2> QED BY <1>2, <2>1, MessagesAssumption
<1>4. F(j) \subseteq F(k) /\ F(k) \subseteq w
  <2>1. ASSUME NEW i \in w PROVE Cardinality({l \in w : l <= i}) \in Nat
    <3>1. {l \in w : l <= i} \in SUBSET w
      OBVIOUS
    <3> HIDE DEF w
    <3> QED BY <1>2, <3>1, FS_Subset, FS_CardinalityType
  <2>2. \A l : F(l) = {i \in w : Cardinality({o \in w : o <= i}) <= l}
    BY DEF FirstOf
  <2>3. F(k) \subseteq w
    BY <2>2
  <2>4. ASSUME NEW i \in F(j) PROVE i \in F(k)
    <3>1. i \in w /\ Cardinality({o \in w : o <= i}) <= j
      BY <2>2
    <3>2. Cardinality({o \in w : o <= i}) \in Int
      <4> HIDE DEF w
      <4> QED BY <2>1, <3>1
    <3> DEFINE d == Cardinality({o \in w : o <= i})
    <3>3. d <= k
      <4>1. d \in Int /\ d <= j
        BY <3>1, <3>2
      <4> HIDE DEF d
      <4> QED BY <4>1
    <3> HIDE DEF w
    <3> QED BY <2>2, <3>1, <3>3
  <2> QED BY <2>3, <2>4
<1>5. ASSUME NEW l \in {j, k} PROVE ReadingsOf(c, l) \in Nat /\ ReadingsOf(c, l) = SumFunctionOnSet(g(l), F(l))
  <2>1. F(l) \in SUBSET w /\ IsFiniteSet(F(l))
    <3> HIDE DEF w, F
    <3> QED BY <1>2, <1>4, FS_Subset
  <2>2. \A i \in F(l) : g(l)[i] \in Nat
    BY <1>3, <2>1
  <2>3. DOMAIN g(l) = F(l) /\ ReadingsOf(c, l) = SumFunction(g(l))
    BY DEF ReadingsOf
  <2> HIDE DEF g, F, w
  <2> QED BY <2>1, <2>2, <2>3, SumOfNaturals DEF SumFunction
<1>6. SumFunctionOnSet(g(j), F(j)) <= SumFunctionOnSet(g(k), F(k))
  <2>1. F(j) \in SUBSET w /\ F(k) \in SUBSET w
    BY <1>4
  <2>2. /\ \A x \in F(j) : g(j)[x] \in Int
        /\ \A x \in F(k) : g(k)[x] \in Int
        /\ \A x \in F(j) \cap F(k) : g(j)[x] <= g(k)[x]
        /\ \A x \in F(j) \ F(k) : g(j)[x] <= 0
        /\ \A x \in F(k) \ F(j) : g(k)[x] >= 0
    BY <1>3, <1>4
  <2> DEFINE a == g(j)
             b == g(k)
             A == F(j)
             B == F(k)
  <2>3. SumFunctionOnSet(a, A) <= SumFunctionOnSet(b, B)
    <3>1. A \in SUBSET w /\ B \in SUBSET w
      BY <2>1
    <3>2. /\ \A x \in A : a[x] \in Int
          /\ \A x \in B : b[x] \in Int
          /\ \A x \in A \cap B : a[x] <= b[x]
          /\ \A x \in A \ B : a[x] <= 0
          /\ \A x \in B \ A : b[x] >= 0
      BY <2>2
    <3> HIDE DEF a, b, A, B, w
    <3> QED BY <1>2, <3>1, <3>2, SumLeq
  <2> QED BY <2>3
<1> HIDE DEF g, F
<1> QED BY <1>5, <1>6

-----------------------------------------------------------------------------
(* Messages and their metrics *)

LEMMA Parts ==
    ASSUME NEW m \in Messages
    PROVE  /\ m.collector \in Collectors /\ m.total \in Nat
           /\ Len(m.metrics) \in Nat /\ DOMAIN m.metrics = 1 .. Len(m.metrics)
           /\ \A i \in 1 .. Len(m.metrics) :
                 /\ m.metrics[i].count \in Nat /\ m.metrics[i].sum \in Nat
                 /\ m.metrics[i].meter # NoMeter => m.metrics[i].meter \in Meters
<1>1. m.collector \in Collectors /\ m.total \in Nat /\ m.metrics \in Seq(Metric)
  BY MessagesAssumption
<1>2. Len(m.metrics) \in Nat /\ DOMAIN m.metrics = 1 .. Len(m.metrics)
  BY <1>1, LenProperties
<1>3. ASSUME NEW i \in 1 .. Len(m.metrics) PROVE m.metrics[i] \in Metric
  BY <1>1, ElementOfSeq
<1> QED BY <1>1, <1>2, <1>3 DEF Metric

\* The metric at hand.
LEMMA AtHand ==
    ASSUME WorkerInv, worker \in {"entry", "metered", "bounds"} \/ HasMetric,
           TypeOK, ThisMetric.meter # NoMeter
    PROVE  /\ msg \in Messages /\ at \in 1 .. Len(msg.metrics) /\ Len(msg.metrics) \in Nat
           /\ ThisMetric.meter \in Meters /\ ThisMetric.count \in Nat /\ ThisMetric.sum \in Nat
<1>1. msg \in Messages /\ at \in Nat /\ at > 0 /\ at <= Len(msg.metrics)
  BY DEF WorkerInv, HasMetric, Busy, TypeOK
<1>2. Len(msg.metrics) \in Nat
  BY <1>1, Parts
<1>3. at \in 1 .. Len(msg.metrics)
  BY <1>1, <1>2
<1> QED BY <1>1, <1>2, <1>3, Parts DEF ThisMetric

\* What the meters lack before a metric, and after it.
LEMMA RestStep ==
    ASSUME NEW m \in Messages, NEW k \in 1 .. Len(m.metrics)
    PROVE  /\ Rest(m, k + 1) \in Nat /\ Rest(m, k) \in Nat
           /\ Rest(m, k) = m.metrics[k].count + Rest(m, k + 1)
<1> DEFINE l == Len(m.metrics)
           S == k .. l
           T == k + 1 .. l
           f == [i \in S |-> m.metrics[i].count]
           h == [i \in T |-> m.metrics[i].count]
<1>1. l \in Nat /\ k \in Nat /\ \A i \in 1 .. l : m.metrics[i].count \in Nat
  BY Parts
<1>2. IsFiniteSet(S) /\ IsFiniteSet(T)
  <2> HIDE DEF l
  <2> QED BY <1>1, FS_Interval
<1>3. S \ {k} = T /\ k \in S /\ T \subseteq S /\ S \subseteq 1 .. l
  <2> HIDE DEF l
  <2>1. k \in 1 .. l
    BY DEF l
  <2> QED BY <1>1, <2>1
<1>4. /\ DOMAIN f = S /\ DOMAIN h = T
      /\ \A i \in S : f[i] \in Nat
      /\ \A i \in T : h[i] \in Nat /\ h[i] = f[i]
      /\ f[k] = m.metrics[k].count
  <2> HIDE DEF S, T
  <2> QED BY <1>1, <1>3
<1>5. Rest(m, k) = SumFunction(f) /\ Rest(m, k + 1) = SumFunction(h)
  BY DEF Rest
<1> HIDE DEF f, h, S, T
<1>6. SumFunctionOnSet(f, S) = f[k] + SumFunctionOnSet(f, T)
  <2>1. \A i \in S : f[i] \in Int
    BY <1>4
  <2>2. SumFunctionOnSet(f, S) = f[k] + SumFunctionOnSet(f, S \ {k})
    BY <1>2, <1>3, <2>1, SumRemove
  <2> QED BY <1>3, <2>2
<1>7. SumFunctionOnSet(h, T) = SumFunctionOnSet(f, T)
  <2>1. \A i \in T : h[i] \in Int /\ h[i] = f[i]
    BY <1>4
  <2> QED BY <1>2, <2>1, SumSame
<1>8. SumFunctionOnSet(f, S) \in Nat /\ SumFunctionOnSet(h, T) \in Nat
  BY <1>2, <1>4, SumOfNaturals
<1> QED BY <1>4, <1>5, <1>6, <1>7, <1>8 DEF SumFunction

LEMMA RestEnds ==
    ASSUME NEW m \in Messages, NEW k \in Nat \ {0}
    PROVE  /\ Rest(m, k) \in Nat
           /\ k > Len(m.metrics) => Rest(m, k) = 0
           /\ Regular(m) /\ m.shape = "window" => Rest(m, 1) = m.total
<1> DEFINE S == k .. Len(m.metrics)
           f == [i \in S |-> m.metrics[i].count]
<1>1. /\ Len(m.metrics) \in Nat /\ DOMAIN m.metrics = 1 .. Len(m.metrics)
      /\ \A i \in 1 .. Len(m.metrics) : m.metrics[i].count \in Nat
  BY Parts
<1>2. DOMAIN f = S /\ Rest(m, k) = SumFunction(f) /\ IsFiniteSet(S)
  <2>1. IsFiniteSet(S)
    BY <1>1, FS_Interval
  <2> QED BY <2>1 DEF Rest
<1>3. \A i \in S : f[i] \in Nat
  BY <1>1
<1>4. k > Len(m.metrics) => S = {}
  BY <1>1
<1>5. Regular(m) /\ m.shape = "window" => Rest(m, 1) = m.total
  BY <1>1 DEF Regular, Rest
<1> HIDE DEF S, f
<1>6. SumFunctionOnSet(f, S) \in Nat
  BY <1>2, <1>3, SumOfNaturals
<1> QED BY <1>2, <1>4, <1>5, <1>6, SumEmpty DEF SumFunction

\* What was seen was regular if what has been seen is, and so is the last of it.
LEMMA RegularKept ==
    ASSUME TypeOK
    PROVE  /\ UNCHANGED seen => (AllRegular' <=> AllRegular)
           /\ \A m \in Messages : seen' = Append(seen, m) /\ AllRegular' =>
                 AllRegular /\ Regular(m)
           /\ AllRegular /\ Len(seen) > 0 => Regular(seen[Len(seen)])
<1>1. UNCHANGED seen => (AllRegular' <=> AllRegular)
  BY DEF AllRegular
<1>2. seen \in Seq(Messages) /\ Len(seen) \in Nat /\ DOMAIN seen = 1 .. Len(seen)
  BY LenProperties DEF TypeOK
<1>3. ASSUME NEW m \in Messages, seen' = Append(seen, m), AllRegular'
      PROVE  AllRegular /\ Regular(m)
  <2>1. /\ DOMAIN seen' = 1 .. Len(seen) + 1
        /\ \A i \in 1 .. Len(seen) : seen'[i] = seen[i]
        /\ seen'[Len(seen) + 1] = m
    BY <1>2, <1>3, AppendProperties
  <2>2. \A i \in DOMAIN seen' : Regular(seen'[i])
    BY <1>3 DEF AllRegular
  <2>3. \A i \in 1 .. Len(seen) : i \in DOMAIN seen' /\ Regular(seen[i])
    BY <1>2, <2>1, <2>2
  <2>4. Regular(m)
    <3>1. Len(seen) + 1 \in DOMAIN seen'
      BY <1>2, <2>1
    <3> QED BY <2>1, <2>2, <3>1
  <2> QED BY <1>2, <2>3, <2>4 DEF AllRegular
<1>4. AllRegular /\ Len(seen) > 0 => Regular(seen[Len(seen)])
  BY <1>2 DEF AllRegular
<1> QED BY <1>1, <1>3, <1>4

\* A metric of a regular window.
LEMMA RegularMetric ==
    ASSUME TypeOK, WorkerInv, AllRegular, worker \in Busy
    PROVE  /\ Regular(msg) /\ msg.shape = "window" /\ Rest(msg, 1) = msg.total
           /\ \A i \in 1 .. Len(msg.metrics) :
                 /\ msg.metrics[i].meter # NoMeter /\ msg.metrics[i].fault = "none"
                 /\ msg.metrics[i].count > 0 /\ msg.metrics[i].sum = msg.metrics[i].count
<1>1. msg \in Messages /\ Len(seen) > 0 /\ msg = seen[Len(seen)]
      /\ msg.shape \in {"window", "unhashable"}
  BY DEF WorkerInv
<1>2. Regular(msg)
  BY <1>1, RegularKept
<1>3. DOMAIN msg.metrics = 1 .. Len(msg.metrics)
  BY <1>1, Parts
<1>4. msg.shape = "window"
  BY <1>1, <1>2 DEF Regular
<1>5. Rest(msg, 1) = msg.total
  BY <1>1, <1>2, <1>4, RestEnds
<1>6. \A i \in DOMAIN msg.metrics :
          /\ msg.metrics[i].meter # NoMeter /\ msg.metrics[i].fault = "none"
          /\ msg.metrics[i].count > 0 /\ msg.metrics[i].sum = msg.metrics[i].count
  BY <1>2, <1>4 DEF Regular
<1> QED BY <1>2, <1>3, <1>4, <1>5, <1>6

-----------------------------------------------------------------------------
(* What the worker does to the entries of the message at hand *)

CollectorsChange(windows, readings) ==
    /\ collector_stats' \in [Collectors -> [windows : Nat, readings : Nat]]
    /\ \A c \in Collectors :
          collector_stats'[c] =
              IF c = msg.collector
              THEN [windows  |-> collector_stats[c].windows + windows,
                    readings |-> collector_stats[c].readings + readings]
              ELSE collector_stats[c]

MetersChange(count, sum) ==
    /\ meter_metrics' \in [Meters -> [count : Nat, sum : Nat] \cup {None}]
    /\ \A m \in Meters :
          meter_metrics'[m] =
              IF m = ThisMetric.meter
              THEN [count |-> EntryOf(m).count + count, sum |-> EntryOf(m).sum + sum]
              ELSE meter_metrics[m]

LEMMA EntryFits ==
    ASSUME TypeOK, NEW m \in Meters
    PROVE  /\ EntryOf(m) \in [count : Nat, sum : Nat]
           /\ EntryOf(m) # None
           /\ meter_metrics[m] # None => meter_metrics[m] = EntryOf(m)
           /\ EntryOf(m).count \in Nat /\ EntryOf(m).sum \in Nat
<1>1. EntryOf(m) \in [count : Nat, sum : Nat]
  BY DEF TypeOK, EntryOf
<1> QED BY <1>1, NoneAssumption DEF EntryOf

\* A record with one field changed, field by field.
LEMMA RecordFields ==
    ASSUME NEW x \in Nat
    PROVE  /\ \A r \in [windows : Nat, readings : Nat] :
                 /\ [r EXCEPT !.windows = x] = [windows |-> x, readings |-> r.readings]
                 /\ [r EXCEPT !.readings = x] = [windows |-> r.windows, readings |-> x]
           /\ \A r \in [count : Nat, sum : Nat] :
                 /\ [r EXCEPT !.count = x] = [count |-> x, sum |-> r.sum]
                 /\ [r EXCEPT !.sum = x] = [count |-> r.count, sum |-> x]
  OBVIOUS

LEMMA Changes ==
    ASSUME TypeOK, WorkerInv, MetersInv
    PROVE  /\ AddWindow => CollectorsChange(1, 0)
           /\ AddReadings => CollectorsChange(0, msg.total)
           /\ MeterEntry => MetersChange(0, 0)
           /\ MeterCount => MetersChange(ThisMetric.count, 0)
           /\ MeterSum => MetersChange(0, ThisMetric.sum)
<1>1. worker \in Busy => msg.collector \in Collectors /\ msg.total \in Nat
  BY Parts DEF WorkerInv
<1>2. /\ collector_stats \in [Collectors -> [windows : Nat, readings : Nat]]
      /\ \A c \in Collectors : /\ collector_stats[c].windows \in Nat
                               /\ collector_stats[c].readings \in Nat
                               /\ collector_stats[c] = [windows |-> collector_stats[c].windows,
                                                        readings |-> collector_stats[c].readings]
  BY DEF TypeOK
<1>3. ASSUME AddWindow PROVE CollectorsChange(1, 0)
  <2> DEFINE c == msg.collector
             r == collector_stats[c]
  <2>1. c \in Collectors /\ msg.total \in Nat
    BY <1>1, <1>3 DEF AddWindow, Busy
  <2>2. r \in [windows : Nat, readings : Nat] /\ r.windows \in Nat /\ r.readings \in Nat
    BY <1>2, <2>1
  <2>3. collector_stats' = [collector_stats EXCEPT ![c] = [r EXCEPT !.windows = r.windows + 1]]
    BY <1>3 DEF AddWindow
  <2>4. [r EXCEPT !.windows = r.windows + 1]
          = [windows |-> r.windows + 1, readings |-> r.readings + 0]
    <3> HIDE DEF r
    <3> QED BY <2>1, <2>2, RecordFields
  <2>5. collector_stats' = [collector_stats EXCEPT ![c] =
                               [windows |-> collector_stats[c].windows + 1,
                                readings |-> collector_stats[c].readings + 0]]
    BY <2>3, <2>4
  <2> QED BY <1>2, <2>1, <2>5 DEF CollectorsChange
<1>4. ASSUME AddReadings PROVE CollectorsChange(0, msg.total)
  <2> DEFINE c == msg.collector
             r == collector_stats[c]
  <2>1. c \in Collectors /\ msg.total \in Nat
    BY <1>1, <1>4 DEF AddReadings, Busy
  <2>2. r \in [windows : Nat, readings : Nat] /\ r.windows \in Nat /\ r.readings \in Nat
    BY <1>2, <2>1
  <2>3. collector_stats' = [collector_stats EXCEPT ![c] = [r EXCEPT !.readings = r.readings + msg.total]]
    BY <1>4 DEF AddReadings
  <2>4. [r EXCEPT !.readings = r.readings + msg.total]
          = [windows |-> r.windows + 0, readings |-> r.readings + msg.total]
    <3> HIDE DEF r
    <3> QED BY <2>1, <2>2, RecordFields
  <2>5. collector_stats' = [collector_stats EXCEPT ![c] =
                               [windows |-> collector_stats[c].windows + 0,
                                readings |-> collector_stats[c].readings + msg.total]]
    BY <2>3, <2>4
  <2> QED BY <1>2, <2>1, <2>5 DEF CollectorsChange
<1>5. ASSUME NEW m \in Meters
      PROVE  /\ EntryOf(m) \in [count : Nat, sum : Nat]
             /\ EntryOf(m).count \in Nat /\ EntryOf(m).sum \in Nat
             /\ EntryOf(m) = [count |-> EntryOf(m).count, sum |-> EntryOf(m).sum]
  BY EntryFits
<1>6. meter_metrics \in [Meters -> [count : Nat, sum : Nat] \cup {None}]
  BY DEF TypeOK
<1>7. ASSUME NEW count \in Nat, NEW sum \in Nat, ThisMetric.meter \in Meters,
             meter_metrics' = [meter_metrics EXCEPT ![ThisMetric.meter] =
                                  [count |-> EntryOf(ThisMetric.meter).count + count,
                                   sum   |-> EntryOf(ThisMetric.meter).sum + sum]]
      PROVE  MetersChange(count, sum)
  BY <1>5, <1>6, <1>7 DEF MetersChange
<1>8. ASSUME MeterEntry PROVE MetersChange(0, 0)
  <2>1. ThisMetric.meter \in Meters
    BY <1>8, AtHand DEF MeterEntry
  <2>2. meter_metrics' = [meter_metrics EXCEPT ![ThisMetric.meter] = EntryOf(ThisMetric.meter)]
    BY <1>6, <1>8, <2>1 DEF MeterEntry, EntryOf
  <2>3. EntryOf(ThisMetric.meter) = [count |-> EntryOf(ThisMetric.meter).count + 0,
                              sum |-> EntryOf(ThisMetric.meter).sum + 0]
    BY <1>5, <2>1
  <2> QED BY <1>7, <2>1, <2>2, <2>3
<1>9. ASSUME MeterCount PROVE MetersChange(ThisMetric.count, 0)
  <2> DEFINE m == ThisMetric.meter
             r == EntryOf(m)
  <2>1. m \in Meters /\ ThisMetric.count \in Nat /\ meter_metrics[m] # None
    BY <1>9, AtHand DEF MeterCount, MetersInv, WorkerInv
  <2>2. /\ meter_metrics[m] = r /\ r \in [count : Nat, sum : Nat]
        /\ r.count \in Nat /\ r.sum \in Nat
    BY <2>1, EntryFits
  <2>3. meter_metrics' = [meter_metrics EXCEPT ![m] = [r EXCEPT !.count = r.count + ThisMetric.count]]
    BY <1>9, <2>2 DEF MeterCount
  <2>4. [r EXCEPT !.count = r.count + ThisMetric.count]
          = [count |-> r.count + ThisMetric.count, sum |-> r.sum + 0]
    <3> HIDE DEF r
    <3> QED BY <2>1, <2>2, RecordFields
  <2> QED BY <1>7, <2>1, <2>3, <2>4
<1>10. ASSUME MeterSum PROVE MetersChange(0, ThisMetric.sum)
  <2> DEFINE m == ThisMetric.meter
             r == EntryOf(m)
  <2>1. m \in Meters /\ ThisMetric.sum \in Nat /\ meter_metrics[m] # None
    BY <1>10, AtHand DEF MeterSum, MetersInv, WorkerInv
  <2>2. /\ meter_metrics[m] = r /\ r \in [count : Nat, sum : Nat]
        /\ r.count \in Nat /\ r.sum \in Nat
    BY <2>1, EntryFits
  <2>3. meter_metrics' = [meter_metrics EXCEPT ![m] = [r EXCEPT !.sum = r.sum + ThisMetric.sum]]
    BY <1>10, <2>2 DEF MeterSum
  <2>4. [r EXCEPT !.sum = r.sum + ThisMetric.sum]
          = [count |-> r.count + 0, sum |-> r.sum + ThisMetric.sum]
    <3> HIDE DEF r
    <3> QED BY <2>1, <2>2, RecordFields
  <2> QED BY <1>7, <2>1, <2>3, <2>4
<1> QED BY <1>3, <1>4, <1>8, <1>9, <1>10

\* The figures of all collectors and of all meters.
LEMMA FigureTypes ==
    ASSUME TypeOK
    PROVE  /\ CollectorWindows \in Nat /\ CollectorReadings \in Nat
           /\ MeterReadings \in Nat /\ MeterEnergy \in Nat
<1> DEFINE w == [c \in Collectors |-> collector_stats[c].windows]
           r == [c \in Collectors |-> collector_stats[c].readings]
           n == [m \in Meters |-> EntryOf(m).count]
           e == [m \in Meters |-> EntryOf(m).sum]
<1>1. /\ \A c \in Collectors : w[c] \in Nat /\ r[c] \in Nat
      /\ DOMAIN w = Collectors /\ DOMAIN r = Collectors
  BY DEF TypeOK
<1>2. /\ \A m \in Meters : n[m] \in Nat /\ e[m] \in Nat
      /\ DOMAIN n = Meters /\ DOMAIN e = Meters
  BY EntryFits
<1>3. /\ CollectorWindows = SumFunction(w) /\ CollectorReadings = SumFunction(r)
      /\ MeterReadings = SumFunction(n) /\ MeterEnergy = SumFunction(e)
  BY DEF CollectorWindows, CollectorReadings, MeterReadings, MeterEnergy
<1> HIDE DEF w, r, n, e
<1> QED BY <1>1, <1>2, <1>3, FiniteAssumption, SumOfNaturals DEF SumFunction

LEMMA CollectorFigures ==
    ASSUME TypeOK, msg.collector \in Collectors,
           NEW windows \in Nat, NEW readings \in Nat, CollectorsChange(windows, readings)
    PROVE  /\ CollectorWindows' = CollectorWindows + windows
           /\ CollectorReadings' = CollectorReadings + readings
<1> DEFINE w == [c \in Collectors |-> collector_stats[c].windows]
           wn == [c \in Collectors |-> collector_stats'[c].windows]
           r == [c \in Collectors |-> collector_stats[c].readings]
           rn == [c \in Collectors |-> collector_stats'[c].readings]
           x == msg.collector
<1>1. w \in [Collectors -> Nat] /\ r \in [Collectors -> Nat]
  BY DEF TypeOK
<1>2. wn \in [Collectors -> Nat] /\ rn \in [Collectors -> Nat]
  BY DEF CollectorsChange
<1>3. wn[x] = w[x] + windows /\ \A c \in Collectors \ {x} : wn[c] = w[c]
  BY DEF CollectorsChange
<1>4. rn[x] = r[x] + readings /\ \A c \in Collectors \ {x} : rn[c] = r[c]
  BY DEF CollectorsChange
<1>5. /\ CollectorWindows = SumFunction(w) /\ CollectorWindows' = SumFunction(wn)
      /\ CollectorReadings = SumFunction(r) /\ CollectorReadings' = SumFunction(rn)
  BY DEF CollectorWindows, CollectorReadings
<1>6. x \in Collectors /\ IsFiniteSet(Collectors)
  BY FiniteAssumption
<1> HIDE DEF w, wn, r, rn, x
<1>7. SumFunction(wn) = SumFunction(w) + windows
  BY <1>1, <1>2, <1>3, <1>6, SumGrows
<1>8. SumFunction(rn) = SumFunction(r) + readings
  BY <1>1, <1>2, <1>4, <1>6, SumGrows
<1> QED BY <1>5, <1>7, <1>8

LEMMA MeterFigures ==
    ASSUME TypeOK, ThisMetric.meter \in Meters,
           NEW count \in Nat, NEW sum \in Nat, MetersChange(count, sum)
    PROVE  /\ MeterReadings' = MeterReadings + count
           /\ MeterEnergy' = MeterEnergy + sum
<1> DEFINE n == [m \in Meters |-> EntryOf(m).count]
           nn == [m \in Meters |-> EntryOf(m)'.count]
           e == [m \in Meters |-> EntryOf(m).sum]
           en == [m \in Meters |-> EntryOf(m)'.sum]
           x == ThisMetric.meter
<1>1. \A m \in Meters : /\ EntryOf(m) \in [count : Nat, sum : Nat]
                        /\ EntryOf(m).count \in Nat /\ EntryOf(m).sum \in Nat
  BY EntryFits
<1>2. ASSUME NEW m \in Meters
      PROVE  /\ EntryOf(m)'.count = IF m = x THEN EntryOf(m).count + count ELSE EntryOf(m).count
             /\ EntryOf(m)'.sum = IF m = x THEN EntryOf(m).sum + sum ELSE EntryOf(m).sum
  <2>1. CASE m = x
    <3>1. meter_metrics'[m] = [count |-> EntryOf(m).count + count, sum |-> EntryOf(m).sum + sum]
      BY <2>1 DEF MetersChange
    <3>2. meter_metrics'[m] # None
      <4>1. meter_metrics'[m] \in [count : Nat, sum : Nat]
        BY <1>1, <3>1
      <4> QED BY <4>1, NoneAssumption
    <3>3. EntryOf(m)' = meter_metrics'[m]
      BY <3>2 DEF EntryOf
    <3> QED BY <2>1, <3>1, <3>3
  <2>2. CASE m # x
    <3>1. meter_metrics'[m] = meter_metrics[m]
      BY <2>2 DEF MetersChange
    <3>2. EntryOf(m)' = EntryOf(m)
      BY <3>1 DEF EntryOf
    <3> QED BY <2>2, <3>2
  <2> QED BY <2>1, <2>2
<1>3. n \in [Meters -> Nat] /\ e \in [Meters -> Nat]
  BY <1>1
<1>4. nn \in [Meters -> Nat] /\ en \in [Meters -> Nat]
  BY <1>1, <1>2
<1>5. nn[x] = n[x] + count /\ \A m \in Meters \ {x} : nn[m] = n[m]
  BY <1>2
<1>6. en[x] = e[x] + sum /\ \A m \in Meters \ {x} : en[m] = e[m]
  BY <1>2
<1>7. /\ MeterReadings = SumFunction(n) /\ MeterReadings' = SumFunction(nn)
      /\ MeterEnergy = SumFunction(e) /\ MeterEnergy' = SumFunction(en)
  BY DEF MeterReadings, MeterEnergy
<1>8. x \in Meters /\ IsFiniteSet(Meters)
  BY FiniteAssumption
<1> HIDE DEF n, nn, e, en, x
<1>9. SumFunction(nn) = SumFunction(n) + count
  BY <1>3, <1>4, <1>5, <1>8, SumGrows
<1>10. SumFunction(en) = SumFunction(e) + sum
  BY <1>3, <1>4, <1>6, <1>8, SumGrows
<1> QED BY <1>7, <1>9, <1>10

-----------------------------------------------------------------------------
(* What the script draws *)

RowDrawn(c, r) ==
    /\ page' \in Page /\ r \in Row
    /\ page'.windows = page.windows /\ page'.averages = page.averages
    /\ \A d \in Collectors : page'.rows[d] = IF d = c THEN r ELSE page.rows[d]

AverageDrawn(m, a) ==
    /\ page' \in Page /\ a \in Average
    /\ page'.windows = page.windows /\ page'.rows = page.rows
    /\ \A d \in Meters : page'.averages[d] = IF d = m THEN a ELSE page.averages[d]

LEMMA DrawsRow ==
    ASSUME TypeOK, NEW c \in Collectors, NEW r \in Row, page' = [page EXCEPT !.rows[c] = r]
    PROVE  RowDrawn(c, r)
<1>1. /\ page.windows \in Nat /\ page.rows \in [Collectors -> Row \cup {None}]
      /\ page.averages \in [Meters -> Average \cup {None}] /\ page \in Page
  BY DEF TypeOK, Page
<1> DEFINE rows == [page.rows EXCEPT ![c] = r]
<1>2. page' = [page EXCEPT !.rows = rows]
  OBVIOUS
<1>3. /\ rows \in [Collectors -> Row \cup {None}]
      /\ \A d \in Collectors : rows[d] = IF d = c THEN r ELSE page.rows[d]
  BY <1>1
<1> HIDE DEF rows
<1>4. page' \in Page /\ page'.rows = rows /\ page'.windows = page.windows
      /\ page'.averages = page.averages
  BY <1>1, <1>2, <1>3 DEF Page
<1> QED BY <1>3, <1>4 DEF RowDrawn

LEMMA DrawsAverage ==
    ASSUME TypeOK, NEW m \in Meters, NEW a \in Average, page' = [page EXCEPT !.averages[m] = a]
    PROVE  AverageDrawn(m, a)
<1>1. /\ page.windows \in Nat /\ page.rows \in [Collectors -> Row \cup {None}]
      /\ page.averages \in [Meters -> Average \cup {None}] /\ page \in Page
  BY DEF TypeOK, Page
<1> DEFINE averages == [page.averages EXCEPT ![m] = a]
<1>2. page' = [page EXCEPT !.averages = averages]
  OBVIOUS
<1>3. /\ averages \in [Meters -> Average \cup {None}]
      /\ \A d \in Meters : averages[d] = IF d = m THEN a ELSE page.averages[d]
  BY <1>1
<1> HIDE DEF averages
<1>4. page' \in Page /\ page'.averages = averages /\ page'.windows = page.windows
      /\ page'.rows = page.rows
  BY <1>1, <1>2, <1>3 DEF Page
<1> QED BY <1>3, <1>4 DEF AverageDrawn

LEMMA Draws ==
    ASSUME TypeOK, WorkerInv, PageInv
    PROVE  /\ RowWindows => \E c \in copied.collectors :
                 /\ page.rows[c] = None
                 /\ RowDrawn(c, [windows |-> collector_stats[c].windows, readings |-> None])
           /\ RowReadings => \E c \in copied.collectors :
                 /\ page.rows[c] # None /\ page.rows[c].readings = None
                 /\ RowDrawn(c, [windows |-> page.rows[c].windows,
                                 readings |-> collector_stats[c].readings])
           /\ AverageSum => \E m \in copied.meters :
                 /\ page.averages[m] = None
                 /\ AverageDrawn(m, [sum |-> meter_metrics[m].sum, count |-> None])
           /\ AverageCount => \E m \in copied.meters :
                 /\ page.averages[m] # None /\ page.averages[m].count = None
                 /\ AverageDrawn(m, [sum |-> page.averages[m].sum,
                                     count |-> meter_metrics[m].count])
<1>1. /\ copied.collectors \subseteq Collectors /\ copied.meters \subseteq Meters
      /\ \A c \in copied.collectors : collector_stats[c].windows > 0
      /\ \A m \in copied.meters : meter_metrics[m] # None
  BY DEF WorkerInv, PageInv, CopiedFits, Counted
<1>2. /\ \A c \in Collectors : /\ collector_stats[c].windows \in Nat
                               /\ collector_stats[c].readings \in Nat
                               /\ page.rows[c] \in Row \cup {None}
      /\ \A m \in Meters : /\ meter_metrics[m] \in [count : Nat, sum : Nat] \cup {None}
                           /\ page.averages[m] \in Average \cup {None}
  BY DEF TypeOK, Page
<1>3. ASSUME RowWindows, NEW c \in copied.collectors, page.rows[c] = None,
             page' = [page EXCEPT !.rows[c] =
                         [windows |-> collector_stats[c].windows, readings |-> None]]
      PROVE  RowDrawn(c, [windows |-> collector_stats[c].windows, readings |-> None])
  <2>1. c \in Collectors /\ [windows |-> collector_stats[c].windows, readings |-> None] \in Row
    BY <1>1, <1>2 DEF Row
  <2> QED BY <1>3, <2>1, DrawsRow
<1>4. ASSUME RowReadings, NEW c \in copied.collectors, page.rows[c] # None,
             page' = [page EXCEPT !.rows[c].readings = collector_stats[c].readings]
      PROVE  RowDrawn(c, [windows |-> page.rows[c].windows,
                          readings |-> collector_stats[c].readings])
  <2> DEFINE r == page.rows[c]
             n == collector_stats[c].readings
  <2>1. c \in Collectors /\ r \in Row /\ n \in Nat
    BY <1>1, <1>2, <1>4
  <2>2. page' = [page EXCEPT !.rows[c] = [r EXCEPT !.readings = n]]
    BY <1>4
  <2>3. [r EXCEPT !.readings = n] = [windows |-> r.windows, readings |-> n]
        /\ [windows |-> r.windows, readings |-> n] \in Row
    <3> HIDE DEF r, n
    <3> QED BY <2>1 DEF Row
  <2> QED BY <2>1, <2>2, <2>3, DrawsRow
<1>5. ASSUME AverageSum, NEW m \in copied.meters, page.averages[m] = None,
             page' = [page EXCEPT !.averages[m] = [sum |-> meter_metrics[m].sum, count |-> None]]
      PROVE  AverageDrawn(m, [sum |-> meter_metrics[m].sum, count |-> None])
  <2>1. m \in Meters /\ [sum |-> meter_metrics[m].sum, count |-> None] \in Average
    BY <1>1, <1>2 DEF Average
  <2> QED BY <1>5, <2>1, DrawsAverage
<1>6. ASSUME AverageCount, NEW m \in copied.meters, page.averages[m] # None,
             page' = [page EXCEPT !.averages[m].count = meter_metrics[m].count]
      PROVE  AverageDrawn(m, [sum |-> page.averages[m].sum, count |-> meter_metrics[m].count])
  <2> DEFINE r == page.averages[m]
             n == meter_metrics[m].count
  <2>1. m \in Meters /\ r \in Average /\ n \in Nat
    BY <1>1, <1>2, <1>6
  <2>2. page' = [page EXCEPT !.averages[m] = [r EXCEPT !.count = n]]
    BY <1>6
  <2>3. [r EXCEPT !.count = n] = [sum |-> r.sum, count |-> n]
        /\ [sum |-> r.sum, count |-> n] \in Average
    <3> HIDE DEF r, n
    <3> QED BY <2>1 DEF Average
  <2> QED BY <2>1, <2>2, <2>3, DrawsAverage
<1>7. RowWindows => \E c \in copied.collectors :
          /\ page.rows[c] = None
          /\ RowDrawn(c, [windows |-> collector_stats[c].windows, readings |-> None])
  BY <1>3 DEF RowWindows
<1>8. RowReadings => \E c \in copied.collectors :
          /\ page.rows[c] # None /\ page.rows[c].readings = None
          /\ RowDrawn(c, [windows |-> page.rows[c].windows,
                          readings |-> collector_stats[c].readings])
  BY <1>4 DEF RowReadings
<1>9. AverageSum => \E m \in copied.meters :
          /\ page.averages[m] = None
          /\ AverageDrawn(m, [sum |-> meter_metrics[m].sum, count |-> None])
  BY <1>5 DEF AverageSum
<1>10. AverageCount => \E m \in copied.meters :
          /\ page.averages[m] # None /\ page.averages[m].count = None
          /\ AverageDrawn(m, [sum |-> page.averages[m].sum, count |-> meter_metrics[m].count])
  BY <1>6 DEF AverageCount
<1> QED BY <1>7, <1>8, <1>9, <1>10

-----------------------------------------------------------------------------
(* Types *)

LEMMA PushedSeries ==
    ASSUME NEW s \in Seq(Messages), Len(s) <= MaxPoints, NEW m \in Messages
    PROVE  /\ Pushed(s, m) \in Seq(Messages)
           /\ Len(Pushed(s, m)) = IF Len(s) = MaxPoints THEN MaxPoints ELSE Len(s) + 1
<1> DEFINE a == Append(s, m)
<1>1. a \in Seq(Messages) /\ Len(a) = Len(s) + 1 /\ Len(s) \in Nat /\ MaxPoints \in Nat
  BY AppendProperties, LenProperties, PointsAssumption
<1>2. a # <<>> /\ Tail(a) \in Seq(Messages) /\ Len(Tail(a)) = Len(a) - 1
  <2>1. a # <<>>
    BY <1>1, EmptySeq
  <2> HIDE DEF a
  <2> QED BY <1>1, <2>1, HeadTailProperties
<1>3. Pushed(s, m) = IF Len(a) > MaxPoints THEN Tail(a) ELSE a
  BY DEF Pushed
<1> HIDE DEF a
<1> QED BY <1>1, <1>2, <1>3

LEMMA SeenType ==
    ASSUME TypeOK, NEW m \in Messages, seen' = Append(seen, m)
    PROVE  seen' \in Seq(Messages) /\ Len(seen) \in Nat /\ Len(seen') = Len(seen) + 1
  BY AppendProperties, LenProperties DEF TypeOK

LEMMA TypeStep ==
    ASSUME Inv, [Next]_vars PROVE TypeOK' /\ WorkerInv'
<1>1. TypeOK /\ WorkerInv /\ MetersInv /\ PageInv
  BY DEF Inv
<1>2. MaxMessages \in Nat /\ MaxPoints \in Nat
  BY PointsAssumption
<1> USE DEF TypeOK, WorkerInv, Busy
<1>3. CASE ConsumerStarts \/ ConsumerFails
  BY <1>1, <1>3 DEF ConsumerStarts, ConsumerFails, globals, scriptVars
<1>4. CASE SkipMalformed
  <2>1. PICK m \in Messages : seen' = Append(seen, m)
    BY <1>4 DEF SkipMalformed
  <2>2. seen' \in Seq(Messages) /\ Len(seen) \in Nat /\ Len(seen') = Len(seen) + 1
    BY <1>1, <2>1, SeenType
  <2>3. window_count \in Nat /\ window_count <= Len(seen') /\ Len(seen') <= MaxMessages
    BY <1>1, <1>2, <1>4, <2>2 DEF SkipMalformed
  <2> QED BY <1>1, <1>4, <2>2, <2>3 DEF SkipMalformed, globals, scriptVars
<1>5. CASE Count
  <2>1. PICK m \in Messages : /\ m.shape \in {"window", "unhashable"} /\ Totals(m)
                             /\ time_series' = Pushed(time_series, m) /\ msg' = m
    BY <1>5 DEF Count
  <2>2. /\ seen' \in Seq(Messages) /\ Len(seen) \in Nat /\ Len(seen') = Len(seen) + 1
        /\ seen'[Len(seen')] = m
    <3>1. seen \in Seq(Messages) /\ seen' = Append(seen, m)
      BY <1>1, <2>1 DEF Totals
    <3> QED BY <3>1, AppendProperties, LenProperties
  <2>3. /\ total_readings' \in Nat /\ window_count' \in 0 .. MaxMessages
        /\ window_count' <= Len(seen') /\ Len(seen') <= MaxMessages
    BY <1>1, <1>2, <1>5, <2>1, <2>2, Parts DEF Count, Totals
  <2>4. time_series' \in Seq(Messages) /\ Len(time_series') <= MaxPoints
    <3>1. /\ Pushed(time_series, m) \in Seq(Messages)
          /\ Len(Pushed(time_series, m)) =
                IF Len(time_series) = MaxPoints THEN MaxPoints ELSE Len(time_series) + 1
      BY <1>1, PushedSeries
    <3>2. Len(time_series) \in Nat /\ Len(time_series) <= MaxPoints
      BY <1>1, LenProperties
    <3> QED BY <1>2, <2>1, <3>1, <3>2
  <2>5. worker' = "counted" /\ locked' = TRUE /\ msg' = m /\ Len(seen') > 0
    BY <1>5, <2>1, <2>2 DEF Count
  <2> QED BY <1>1, <1>5, <2>1, <2>2, <2>3, <2>4, <2>5 DEF Count, scriptVars
<1>6. CASE Die
  <2>1. PICK m \in Messages : \/ UNCHANGED <<total_readings, window_count, seen>>
                             \/ Totals(m)
    BY <1>6 DEF Die
  <2>2. Len(seen) \in Nat /\ worker = "waiting" /\ ~locked
    BY <1>1, <1>6, LenProperties DEF Die
  <2>3. /\ total_readings' \in Nat /\ window_count' \in 0 .. MaxMessages
        /\ window_count' <= Len(seen') /\ Len(seen') <= MaxMessages /\ seen' \in Seq(Messages)
    <3>1. CASE Totals(m)
      <4>1. seen' \in Seq(Messages) /\ Len(seen') = Len(seen) + 1
        BY <1>1, <3>1, SeenType DEF Totals
      <4> QED BY <1>1, <1>2, <1>6, <2>2, <3>1, <4>1, Parts DEF Die, Totals
    <3>2. CASE UNCHANGED <<total_readings, window_count, seen>>
      BY <1>1, <3>2
    <3> QED BY <2>1, <3>1, <3>2
  <2> QED BY <1>1, <1>6, <2>2, <2>3 DEF Die, scriptVars
<1>7. CASE AddWindow
  BY <1>1, <1>7, Changes DEF AddWindow, CollectorsChange, scriptVars
<1>8. CASE AddReadings
  <2>1. Len(msg.metrics) \in Nat
    BY <1>1, <1>8, Parts DEF AddReadings
  <2>2. collector_stats' \in [Collectors -> [windows : Nat, readings : Nat]]
    BY <1>1, <1>8, Changes DEF CollectorsChange
  <2>3. /\ worker = "windowed" /\ worker' = "metrics" /\ at' = 1
        /\ UNCHANGED <<msg, locked, total_readings, window_count, time_series,
                       meter_metrics, seen, script, first, copied, page>>
    BY <1>8 DEF AddReadings, scriptVars
  <2>4. TypeOK'
    BY <1>1, <2>2, <2>3
  <2>5. WorkerInv'
    BY <1>1, <2>1, <2>3
  <2> QED BY <2>4, <2>5
<1>9. CASE SkipMetric \/ MeterBounds
  <2>1. /\ worker \in {"metrics", "bounds"} /\ worker' = "metrics" /\ at' = at + 1
        /\ UNCHANGED <<msg, locked, total_readings, window_count, time_series,
                       collector_stats, meter_metrics, seen, script, first, copied, page>>
    BY <1>9 DEF SkipMetric, MeterBounds, HasMetric, globals, scriptVars
  <2>2. Len(msg.metrics) \in Nat /\ at \in Nat /\ at <= Len(msg.metrics)
    <3>1. msg \in Messages /\ at \in Nat /\ at <= Len(msg.metrics)
      BY <1>1, <1>9, <2>1 DEF SkipMetric, MeterBounds, HasMetric
    <3> QED BY <3>1, Parts
  <2>3. TypeOK'
    BY <1>1, <2>1, <2>2
  <2>4. WorkerInv'
    BY <1>1, <2>1, <2>2
  <2> QED BY <2>3, <2>4
<1>10. CASE MeterEntry
  BY <1>1, <1>10, Changes DEF MeterEntry, HasMetric, ThisMetric, MetersChange, scriptVars
<1>11. CASE MeterCount \/ MeterSum
  <2>1. meter_metrics' \in [Meters -> [count : Nat, sum : Nat] \cup {None}]
    BY <1>1, <1>11, Changes DEF MetersChange
  <2> QED BY <1>1, <1>11, <2>1 DEF MeterCount, MeterSum, ThisMetric, scriptVars
<1>12. CASE EndUpdate \/ Raise
  <2>1. /\ worker' \in {"waiting", "dead"} /\ msg' = None /\ at' = 0 /\ locked' = FALSE
        /\ UNCHANGED <<total_readings, window_count, time_series, collector_stats,
                       meter_metrics, seen, script, first, copied, page>>
    BY <1>12 DEF EndUpdate, Raise, Release, globals, scriptVars
  <2>2. TypeOK'
    BY <1>1, <2>1
  <2>3. WorkerInv'
    BY <1>1, <2>1
  <2> QED BY <2>2, <2>3
<1>13. CASE StartScript
  BY <1>1, <1>13 DEF StartScript, globals, ThisMetric
<1>14. CASE Copy
  <2>1. /\ copied'.windows \in Nat
        /\ copied'.collectors \subseteq Collectors /\ copied'.meters \subseteq Meters
    BY <1>1, <1>14 DEF Copy, NoCopy, Globals
  <2>2. page' \in Page
    BY <1>14, <2>1 DEF Copy, NoPage, Page
  <2>3. UNCHANGED workerVars /\ first' = first /\ script' \in {"sleep", "charts"}
    BY <1>14 DEF Copy
  <2> QED BY <1>1, <2>1, <2>2, <2>3 DEF workerVars, globals, ThisMetric
<1>15. CASE RowWindows
  <2>1. page' \in Page
    BY <1>1, <1>15, Draws DEF RowDrawn
  <2> QED BY <1>1, <1>15, <2>1 DEF RowWindows, workerVars, globals, ThisMetric
<1>16. CASE RowReadings
  <2>1. page' \in Page
    BY <1>1, <1>16, Draws DEF RowDrawn
  <2> QED BY <1>1, <1>16, <2>1 DEF RowReadings, workerVars, globals, ThisMetric
<1>17. CASE AverageSum
  <2>1. page' \in Page
    BY <1>1, <1>17, Draws DEF AverageDrawn
  <2> QED BY <1>1, <1>17, <2>1 DEF AverageSum, workerVars, globals, ThisMetric
<1>18. CASE AverageCount
  <2>1. page' \in Page
    BY <1>1, <1>18, Draws DEF AverageDrawn
  <2> QED BY <1>1, <1>18, <2>1 DEF AverageCount, workerVars, globals, ThisMetric
<1>19. CASE Charts \/ AverageFails
  BY <1>1, <1>19 DEF Charts, AverageFails, workerVars, globals, ThisMetric
<1>20. CASE Rerun \/ UserReruns
  <2>1. /\ copied'.windows \in Nat
        /\ copied'.collectors \subseteq Collectors /\ copied'.meters \subseteq Meters
    BY <1>20 DEF Rerun, UserReruns, NewRun, NoCopy
  <2>2. /\ UNCHANGED <<worker, msg, at, locked, total_readings, window_count, time_series,
                       collector_stats, meter_metrics, seen, page>>
        /\ script' = "start" /\ first' = FALSE
    BY <1>20 DEF Rerun, UserReruns, NewRun, workerVars, globals
  <2>3. TypeOK'
    BY <1>1, <2>2
  <2>4. WorkerInv'
    BY <1>1, <2>1, <2>2 DEF ThisMetric
  <2> QED BY <2>3, <2>4
<1>21. CASE UNCHANGED vars
  BY <1>1, <1>21 DEF vars, workerVars, scriptVars, globals, ThisMetric
<1> QED BY <1>3, <1>4, <1>5, <1>6, <1>7, <1>8, <1>9, <1>10, <1>11, <1>12, <1>13, <1>14,
           <1>15, <1>16, <1>17, <1>18, <1>19, <1>20, <1>21 DEF Next, Message, Worker, Script


-----------------------------------------------------------------------------
(* The figures *)

\* Of one window more a series keeps as much as it can.
LEMMA MinOfTwo ==
    ASSUME NEW a \in Nat, NEW b \in Nat
    PROVE  Min({a, b}) = IF a <= b THEN a ELSE b
<1>1. a <= b => IsMin({a, b}, a)
  BY DEF IsMin
<1>2. ~(a <= b) => IsMin({a, b}, b)
  BY DEF IsMin
<1> QED BY <1>1, <1>2, MinValue

\* FiguresInv, told of any figures: lacking windows and readings are those that
\* the collectors lack of what was counted, owed those that the meters lack.
FiguresFit(lackingWindows, lackingReadings, owedReadings, owedEnergy) ==
    /\ \/ /\ window_count = CollectorWindows + lackingWindows
          /\ total_readings = CollectorReadings + lackingReadings
       \/ /\ Died /\ ~AllRegular /\ window_count = CollectorWindows + 1
          /\ total_readings = CollectorReadings + seen[Len(seen)].total
    /\ \/ Len(time_series) = Min({CollectorWindows + lackingWindows, MaxPoints})
       \/ Died /\ Len(time_series) = Min({window_count, MaxPoints})
    /\ AllRegular =>
          /\ MeterReadings + owedReadings = CollectorReadings
          /\ MeterEnergy + owedEnergy = CollectorReadings

LEMMA FiguresTold ==
    ASSUME NEW windows, NEW readings, NEW owed, NEW energy
    PROVE  /\ /\ windows = (IF worker = "counted" THEN 1 ELSE 0)
              /\ readings = Due({"counted", "windowed"})
              /\ owed = Owed({"metrics", "entry"})
              /\ energy = Owed({"metrics", "entry", "metered"})
              => (FiguresInv <=> FiguresFit(windows, readings, owed, energy))
           /\ /\ windows = (IF worker' = "counted" THEN 1 ELSE 0)
              /\ readings = Due({"counted", "windowed"})'
              /\ owed = Owed({"metrics", "entry"})'
              /\ energy = Owed({"metrics", "entry", "metered"})'
              => (FiguresInv' <=> FiguresFit(windows, readings, owed, energy)')
<1>1. ASSUME windows = (IF worker = "counted" THEN 1 ELSE 0),
             readings = Due({"counted", "windowed"}),
             owed = Owed({"metrics", "entry"}), energy = Owed({"metrics", "entry", "metered"})
      PROVE  FiguresInv <=> FiguresFit(windows, readings, owed, energy)
  BY <1>1, Zenon DEF FiguresInv, FiguresFit
<1>2. ASSUME windows = (IF worker' = "counted" THEN 1 ELSE 0),
             readings = Due({"counted", "windowed"})',
             owed = Owed({"metrics", "entry"})', energy = Owed({"metrics", "entry", "metered"})'
      PROVE  FiguresInv' <=> FiguresFit(windows, readings, owed, energy)'
  BY <1>2, Zenon DEF FiguresInv, FiguresFit
<1> QED BY <1>1, <1>2

LEMMA SumsStay ==
    /\ UNCHANGED collector_stats => UNCHANGED <<CollectorWindows, CollectorReadings>>
    /\ UNCHANGED meter_metrics => UNCHANGED <<MeterReadings, MeterEnergy>>
  BY DEF CollectorWindows, CollectorReadings, MeterReadings, MeterEnergy, EntryOf

\* Nothing that the figures are of changes.
FiguresStay ==
    UNCHANGED <<total_readings, window_count, time_series, collector_stats, meter_metrics>>

\* What the meters lack, at each place.
LEMMA OwedAt ==
    /\ worker \notin {"metrics", "entry", "metered", "bounds"} =>
          /\ Owed({"metrics", "entry"}) = 0 /\ Owed({"metrics", "entry", "metered"}) = 0
    /\ worker \in {"metrics", "entry"} =>
          /\ Owed({"metrics", "entry"}) = Rest(msg, at)
          /\ Owed({"metrics", "entry", "metered"}) = Rest(msg, at)
    /\ worker = "metered" =>
          /\ Owed({"metrics", "entry"}) = Rest(msg, at + 1)
          /\ Owed({"metrics", "entry", "metered"}) = Rest(msg, at)
    /\ worker = "bounds" =>
          /\ Owed({"metrics", "entry"}) = Rest(msg, at + 1)
          /\ Owed({"metrics", "entry", "metered"}) = Rest(msg, at + 1)
  BY DEF Owed

LEMMA OwedAtNext ==
    ASSUME NEW m, m = msg', NEW k, k = at'
    PROVE  /\ worker' \notin {"metrics", "entry", "metered", "bounds"} =>
                 /\ Owed({"metrics", "entry"})' = 0 /\ Owed({"metrics", "entry", "metered"})' = 0
           /\ worker' \in {"metrics", "entry"} =>
                 /\ Owed({"metrics", "entry"})' = Rest(m, k)
                 /\ Owed({"metrics", "entry", "metered"})' = Rest(m, k)
           /\ worker' = "metered" =>
                 /\ Owed({"metrics", "entry"})' = Rest(m, k + 1)
                 /\ Owed({"metrics", "entry", "metered"})' = Rest(m, k)
           /\ worker' = "bounds" =>
                 /\ Owed({"metrics", "entry"})' = Rest(m, k + 1)
                 /\ Owed({"metrics", "entry", "metered"})' = Rest(m, k + 1)
  BY DEF Owed, Rest

LEMMA MetricAtHand ==
    ASSUME TypeOK, WorkerInv, worker \in {"entry", "metered", "bounds"} \/ HasMetric,
           ThisMetric.meter # NoMeter
    PROVE  /\ worker \in Busy /\ ThisMetric.meter \in Meters
           /\ ThisMetric.count \in Nat /\ ThisMetric.sum \in Nat
           /\ Rest(msg, at) \in Nat /\ Rest(msg, at + 1) \in Nat
           /\ Rest(msg, at) = ThisMetric.count + Rest(msg, at + 1)
           /\ AllRegular => /\ ThisMetric.fault = "none" /\ ThisMetric.count > 0
                            /\ ThisMetric.sum = ThisMetric.count
<1>1. /\ msg \in Messages /\ at \in 1 .. Len(msg.metrics)
      /\ ThisMetric.meter \in Meters /\ ThisMetric.count \in Nat /\ ThisMetric.sum \in Nat
  BY AtHand
<1>2. worker \in Busy
  BY DEF Busy, HasMetric
<1>3. /\ Rest(msg, at) \in Nat /\ Rest(msg, at + 1) \in Nat
      /\ Rest(msg, at) = ThisMetric.count + Rest(msg, at + 1)
  BY <1>1, RestStep DEF ThisMetric
<1>4. AllRegular => /\ ThisMetric.fault = "none" /\ ThisMetric.count > 0
                    /\ ThisMetric.sum = ThisMetric.count
  BY <1>1, <1>2, RegularMetric DEF ThisMetric
<1> QED BY <1>1, <1>2, <1>3, <1>4

\* No metric of a regular window is left out, and none raises.
LEMMA RegularSteps ==
    ASSUME TypeOK, WorkerInv PROVE (SkipMetric => ~AllRegular) /\ (Raise => ~AllRegular)
<1>1. ASSUME SkipMetric PROVE ~AllRegular
  <2>1. worker \in Busy /\ msg \in Messages
        /\ at \in Nat /\ at > 0 /\ at <= Len(msg.metrics)
    BY <1>1 DEF SkipMetric, HasMetric, WorkerInv, TypeOK, Busy
  <2>2. at \in 1 .. Len(msg.metrics)
    BY <2>1, Parts
  <2> QED BY <1>1, <2>1, <2>2, RegularMetric DEF SkipMetric, ThisMetric
<1>2. ASSUME Raise PROVE ~AllRegular
  <2>1. worker = "counted" /\ msg.shape = "unhashable" => ~AllRegular
    BY RegularMetric DEF Busy
  <2>2. ASSUME worker \in {"entry", "metered", "bounds"} \/ HasMetric,
               ThisMetric.meter # NoMeter, AllRegular
        PROVE  ThisMetric.fault = "none"
    BY <2>2, MetricAtHand
  <2>3. worker \in {"entry", "bounds"} => ThisMetric.meter # NoMeter
    BY DEF WorkerInv
  <2> QED BY <1>2, <2>1, <2>2, <2>3 DEF Raise
<1> QED BY <1>1, <1>2

\* What FiguresInv says, when the worker is alive, of the places with lacking windows
\* and readings.
LEMMA FiguresAlive ==
    ASSUME FiguresInv, ~Died
    PROVE  /\ window_count = CollectorWindows + (IF worker = "counted" THEN 1 ELSE 0)
           /\ total_readings = CollectorReadings + Due({"counted", "windowed"})
           /\ Len(time_series) =
                 Min({CollectorWindows + (IF worker = "counted" THEN 1 ELSE 0), MaxPoints})
           /\ AllRegular =>
                 /\ MeterReadings + Owed({"metrics", "entry"}) = CollectorReadings
                 /\ MeterEnergy + Owed({"metrics", "entry", "metered"}) = CollectorReadings
  BY Zenon DEF FiguresInv

LEMMA FiguresStep ==
    ASSUME Inv, [Next]_vars PROVE FiguresInv'
<1>1. TypeOK /\ WorkerInv /\ FiguresInv /\ MetersInv /\ PageInv
  BY DEF Inv
<1>2. /\ CollectorWindows \in Nat /\ CollectorReadings \in Nat
      /\ MeterReadings \in Nat /\ MeterEnergy \in Nat
      /\ total_readings \in Nat /\ window_count \in Nat
      /\ MaxPoints \in Nat /\ MaxPoints > 0 /\ Len(time_series) \in Nat
  BY <1>1, FigureTypes, PointsAssumption, LenProperties DEF TypeOK
<1>3. worker \in Busy => /\ msg \in Messages /\ msg.collector \in Collectors
                        /\ msg.total \in Nat /\ msg = seen[Len(seen)]
  BY <1>1, Parts DEF WorkerInv
<1>4. UNCHANGED seen => (AllRegular' <=> AllRegular)
  BY <1>1, RegularKept
<1> DEFINE W == CollectorWindows
           R == CollectorReadings
           N == MeterReadings
           E == MeterEnergy
<1>5. worker \notin Busy =>
          /\ FiguresFit(0, 0, 0, 0)
          /\ ~Died => /\ window_count = W /\ total_readings = R
                      /\ Len(time_series) = Min({W, MaxPoints})
                      /\ AllRegular => N = R /\ E = R
  <2>1. worker \notin Busy => FiguresFit(0, 0, 0, 0)
    BY <1>1, OwedAt, FiguresTold DEF Due, Busy
  <2>2. worker \notin Busy /\ ~Died =>
            /\ window_count = W + 0 /\ total_readings = R + 0
            /\ Len(time_series) = Min({W + 0, MaxPoints})
            /\ AllRegular => N + 0 = R /\ E + 0 = R
    BY <2>1 DEF FiguresFit
  <2>3. W + 0 = W /\ R + 0 = R /\ N + 0 = N /\ E + 0 = E
    BY <1>2
  <2> QED BY <2>1, <2>2, <2>3
<1>6. worker' \notin Busy /\ FiguresFit(0, 0, 0, 0)' => FiguresInv'
  BY OwedAtNext, FiguresTold DEF Due, Busy
<1>7. ASSUME FiguresStay, worker \notin Busy, worker' \notin Busy,
             Died => Died' /\ UNCHANGED seen, AllRegular' => AllRegular
      PROVE  FiguresInv'
  <2>1. UNCHANGED <<W, R, N, E>>
    BY <1>7, SumsStay DEF FiguresStay
  <2>2. FiguresFit(0, 0, 0, 0)'
    BY <1>4, <1>5, <1>7, <2>1 DEF FiguresFit, FiguresStay
  <2> QED BY <1>6, <1>7, <2>2
<1>8. ASSUME FiguresStay, UNCHANGED <<worker, msg, at, seen>> PROVE FiguresInv'
  <2>1. UNCHANGED <<W, R, N, E>>
    BY <1>8, SumsStay DEF FiguresStay
  <2>2. PICK windows, readings, owed, energy :
            /\ windows = (IF worker = "counted" THEN 1 ELSE 0)
            /\ readings = Due({"counted", "windowed"})
            /\ owed = Owed({"metrics", "entry"})
            /\ energy = Owed({"metrics", "entry", "metered"})
    OBVIOUS
  <2>3. /\ windows = (IF worker' = "counted" THEN 1 ELSE 0)
        /\ readings = Due({"counted", "windowed"})'
        /\ owed = Owed({"metrics", "entry"})'
        /\ energy = Owed({"metrics", "entry", "metered"})'
    BY <1>8, <2>2 DEF Due, Owed, Rest
  <2>4. FiguresFit(windows, readings, owed, energy)
    BY <1>1, <2>2, FiguresTold
  <2>5. FiguresFit(windows, readings, owed, energy)'
    BY <1>4, <1>8, <2>1, <2>4 DEF FiguresFit, FiguresStay, Died
  <2> QED BY <2>3, <2>5, FiguresTold
<1>9. CASE ConsumerStarts \/ ConsumerFails
  BY <1>4, <1>7, <1>9 DEF ConsumerStarts, ConsumerFails, globals, FiguresStay, Busy, Died
<1>10. CASE SkipMalformed
  <2>1. PICK m \in Messages : seen' = Append(seen, m)
    BY <1>10 DEF SkipMalformed
  <2>2. AllRegular' => AllRegular
    BY <1>1, <2>1, RegularKept
  <2> QED BY <1>7, <1>10, <2>2 DEF SkipMalformed, globals, FiguresStay, Busy, Died
<1>11. CASE Count
  <2>1. PICK m \in Messages : /\ Totals(m)
                             /\ time_series' = Pushed(time_series, m) /\ msg' = m
    BY <1>11 DEF Count
  <2>2. m.total \in Nat
    BY Parts
  <2>3. W' = W /\ R' = R /\ N' = N /\ E' = E
    BY <1>11, SumsStay DEF Count
  <2>4. /\ Len(time_series') = IF Len(time_series) = MaxPoints THEN MaxPoints ELSE Len(time_series) + 1
        /\ Len(time_series) <= MaxPoints
    BY <1>1, <2>1, PushedSeries DEF TypeOK
  <2>5. /\ window_count = W /\ total_readings = R
        /\ Len(time_series) = Min({W, MaxPoints})
        /\ AllRegular => N = R /\ E = R
    BY <1>5, <1>11 DEF Count, Died, Busy
  <2>6. Len(time_series) = (IF W <= MaxPoints THEN W ELSE MaxPoints)
    BY <1>2, <2>5, MinOfTwo
  <2>7. Len(time_series') = Min({W + 1, MaxPoints})
    <3>1. Min({W + 1, MaxPoints}) = IF W + 1 <= MaxPoints THEN W + 1 ELSE MaxPoints
      <4>1. W + 1 \in Nat
        BY <1>2
      <4> HIDE DEF W
      <4> QED BY <1>2, <4>1, MinOfTwo
    <3>2. W \in Nat
      BY <1>2
    <3> HIDE DEF W
    <3> QED BY <1>2, <2>4, <2>6, <3>1, <3>2
  <2>8. window_count' = W + 1 /\ total_readings' = R + m.total
    BY <2>1, <2>5 DEF Totals
  <2>9. AllRegular' => AllRegular
    <3>1. seen' = Append(seen, m)
      BY <2>1 DEF Totals
    <3> QED BY <1>1, <3>1, RegularKept
  <2>10. worker' = "counted" /\ msg' = m
    BY <1>11, <2>1 DEF Count
  <2>11. FiguresFit(1, m.total, 0, 0)'
    BY <1>2, <2>3, <2>5, <2>7, <2>8, <2>9 DEF FiguresFit
  <2>12. m.total = Due({"counted", "windowed"})' /\ Owed({"metrics", "entry"})' = 0
         /\ Owed({"metrics", "entry", "metered"})' = 0
    BY <2>10 DEF Due, Owed
  <2> QED BY <2>10, <2>11, <2>12, FiguresTold
<1>12. CASE Die
  <2>1. PICK m \in Messages :
            \/ m.shape = "scalar" /\ UNCHANGED <<total_readings, window_count, seen>>
            \/ m.shape = "early" /\ Totals(m)
    BY <1>12, Zenon DEF Die
  <2>2. W' = W /\ R' = R /\ N' = N /\ E' = E /\ Len(time_series)' = Len(time_series)
    BY <1>12, SumsStay DEF Die
  <2>3. /\ window_count = W /\ total_readings = R
        /\ Len(time_series) = Min({W, MaxPoints})
        /\ AllRegular => N = R /\ E = R
    BY <1>5, <1>12 DEF Die, Died, Busy
  <2>4. worker' = "dead" /\ worker' \notin Busy /\ Died'
    BY <1>12 DEF Die, Busy, Died
  <2>5. W + 0 = W /\ R + 0 = R /\ N + 0 = N /\ E + 0 = E
    BY <1>2
  <2>6. CASE UNCHANGED <<total_readings, window_count, seen>>
    <3>1. FiguresFit(0, 0, 0, 0)'
      BY <1>4, <2>2, <2>3, <2>5, <2>6 DEF FiguresFit
    <3> QED BY <1>6, <2>4, <3>1
  <2>7. CASE m.shape = "early" /\ Totals(m)
    <3>1. seen' = Append(seen, m) /\ window_count' = W + 1 /\ total_readings' = R + m.total
      BY <2>3, <2>7 DEF Totals
    <3>2. seen'[Len(seen')] = m
      BY <1>1, <3>1, AppendProperties, LenProperties DEF TypeOK
    <3>3. ~AllRegular'
      <4>1. ~Regular(m)
        BY <2>7 DEF Regular
      <4> QED BY <1>1, <3>1, <4>1, RegularKept
    <3>4. FiguresFit(0, 0, 0, 0)'
      BY <2>2, <2>3, <2>4, <2>5, <3>1, <3>2, <3>3 DEF FiguresFit
    <3> QED BY <1>6, <2>4, <3>4
  <2> QED BY <2>1, <2>6, <2>7
<1>13. CASE AddWindow
  <2>1. /\ worker = "counted" /\ worker' = "windowed" /\ worker \in Busy /\ ~Died
        /\ UNCHANGED <<msg, total_readings, window_count, time_series, meter_metrics, seen>>
    BY <1>13 DEF AddWindow, Busy, Died
  <2>2. W' = W + 1 /\ R' = R + 0
    BY <1>1, <1>3, <1>13, <2>1, Changes, CollectorFigures
  <2>3. N' = N /\ E' = E
    BY <2>1, SumsStay
  <2>4. /\ window_count = W + 1 /\ total_readings = R + msg.total
        /\ Len(time_series) = Min({W + 1, MaxPoints})
        /\ AllRegular => N + 0 = R /\ E + 0 = R
    BY <1>1, <2>1, FiguresAlive DEF Due, Owed
  <2>5. W' + 0 = W + 1 /\ R' = R /\ N' + 0 = N + 0 /\ E' + 0 = E + 0
    BY <1>2, <2>2, <2>3
  <2>6. PICK total : total = msg.total
    OBVIOUS
  <2>7. FiguresFit(0, total, 0, 0)'
    BY <1>4, <2>1, <2>4, <2>5, <2>6 DEF FiguresFit
  <2>8. total = Due({"counted", "windowed"})' /\ Owed({"metrics", "entry"})' = 0
        /\ Owed({"metrics", "entry", "metered"})' = 0
    BY <2>1, <2>6 DEF Due, Owed
  <2> QED BY <2>1, <2>7, <2>8, FiguresTold
<1>14. CASE AddReadings
  <2>1. /\ worker = "windowed" /\ worker' = "metrics" /\ worker \in Busy /\ ~Died
        /\ at' = 1
        /\ UNCHANGED <<msg, total_readings, window_count, time_series, meter_metrics, seen>>
    BY <1>14 DEF AddReadings, Busy, Died
  <2>2. W' = W + 0 /\ R' = R + msg.total
    BY <1>1, <1>3, <1>14, <2>1, Changes, CollectorFigures
  <2>3. N' = N /\ E' = E
    BY <2>1, SumsStay
  <2>4. /\ window_count = W + 0 /\ total_readings = R + msg.total
        /\ Len(time_series) = Min({W + 0, MaxPoints})
        /\ AllRegular => N + 0 = R /\ E + 0 = R
    BY <1>1, <2>1, FiguresAlive DEF Due, Owed
  <2>5. PICK owed, m : owed = Rest(m, 1) /\ m = msg
    OBVIOUS
  <2>6. AllRegular => owed = msg.total
    BY <1>1, <2>1, <2>5, RegularMetric
  <2>7. /\ W' + 0 = W + 0 /\ total_readings = R' + 0
        /\ AllRegular => N' + owed = R' /\ E' + owed = R'
    BY <1>2, <1>3, <2>1, <2>2, <2>3, <2>4, <2>6
  <2>8. FiguresFit(0, 0, owed, owed)'
    BY <1>4, <2>1, <2>4, <2>7 DEF FiguresFit
  <2>9. Owed({"metrics", "entry"})' = owed /\ Owed({"metrics", "entry", "metered"})' = owed
    BY <2>1, <2>5, OwedAtNext
  <2>10. Due({"counted", "windowed"})' = 0
    BY <2>1 DEF Due
  <2> QED BY <2>1, <2>8, <2>9, <2>10, FiguresTold
<1>15. ASSUME worker \in {"metrics", "entry", "metered", "bounds"},
              worker' \in {"metrics", "entry", "metered", "bounds"},
              UNCHANGED <<msg, total_readings, window_count, time_series, collector_stats, seen>>,
              AllRegular =>
                  /\ MeterReadings' + Owed({"metrics", "entry"})'
                        = MeterReadings + Owed({"metrics", "entry"})
                  /\ MeterEnergy' + Owed({"metrics", "entry", "metered"})'
                        = MeterEnergy + Owed({"metrics", "entry", "metered"})
       PROVE  FiguresInv'
  <2>1. W' = W /\ R' = R
    BY <1>15, SumsStay
  <2>2. /\ window_count = W + 0 /\ total_readings = R + 0
        /\ Len(time_series) = Min({W + 0, MaxPoints})
        /\ AllRegular => /\ N + Owed({"metrics", "entry"}) = R
                         /\ E + Owed({"metrics", "entry", "metered"}) = R
    BY <1>1, <1>15, FiguresAlive DEF Due, Died
  <2>3. PICK owed, energy : /\ owed = Owed({"metrics", "entry"})'
                            /\ energy = Owed({"metrics", "entry", "metered"})'
    OBVIOUS
  <2>4. AllRegular => N' + owed = R' /\ E' + energy = R'
    BY <1>15, <2>1, <2>2, <2>3
  <2>5. FiguresFit(0, 0, owed, energy)'
    BY <1>4, <1>15, <2>1, <2>2, <2>4 DEF FiguresFit
  <2>6. Due({"counted", "windowed"})' = 0
    BY <1>15 DEF Due
  <2> QED BY <1>15, <2>3, <2>5, <2>6, FiguresTold
<1>16. worker \in {"metrics", "entry", "metered", "bounds"} => worker \in Busy
  BY DEF Busy
<1>17. CASE SkipMetric
  BY <1>1, <1>15, <1>17, RegularSteps DEF SkipMetric, HasMetric, globals
<1>18. PICK m, k : m = msg /\ k = at
  OBVIOUS
<1>19. CASE MeterEntry
  <2>1. /\ worker = "metrics" /\ worker' = "entry" /\ HasMetric /\ ThisMetric.meter # NoMeter
        /\ UNCHANGED <<msg, at, total_readings, window_count, time_series, collector_stats, seen>>
    BY <1>19 DEF MeterEntry, HasMetric
  <2>2. N' = N + 0 /\ E' = E + 0
    BY <1>1, MetricAtHand, <1>19, <2>1, Changes, MeterFigures
  <2>3. /\ Owed({"metrics", "entry"}) = Rest(m, k)
        /\ Owed({"metrics", "entry", "metered"}) = Rest(m, k)
        /\ Owed({"metrics", "entry"})' = Rest(m, k)
        /\ Owed({"metrics", "entry", "metered"})' = Rest(m, k)
    BY <1>18, <2>1, OwedAt, OwedAtNext
  <2> QED BY <1>2, <1>15, <2>1, <2>2, <2>3
<1>20. CASE MeterCount
  <2>1. /\ worker = "entry" /\ worker' = "metered" /\ ThisMetric.meter # NoMeter
        /\ UNCHANGED <<msg, at, total_readings, window_count, time_series, collector_stats, seen>>
    BY <1>1, <1>20 DEF MeterCount, WorkerInv
  <2>2. /\ N' = N + ThisMetric.count /\ E' = E + 0 /\ ThisMetric.count \in Nat
        /\ Rest(m, k) \in Nat /\ Rest(m, k + 1) \in Nat
        /\ Rest(m, k) = ThisMetric.count + Rest(m, k + 1)
    BY <1>1, MetricAtHand, <1>18, <1>20, <2>1, Changes, MeterFigures
  <2>3. /\ Owed({"metrics", "entry"}) = Rest(m, k)
        /\ Owed({"metrics", "entry", "metered"}) = Rest(m, k)
        /\ Owed({"metrics", "entry"})' = Rest(m, k + 1)
        /\ Owed({"metrics", "entry", "metered"})' = Rest(m, k)
    BY <1>18, <2>1, OwedAt, OwedAtNext
  <2>4. /\ N' + Rest(m, k + 1) = N + Rest(m, k)
        /\ E' + Rest(m, k) = E + Rest(m, k)
    BY <1>2, <2>2
  <2> QED BY <1>15, <2>1, <2>3, <2>4
<1>21. CASE MeterSum
  <2>1. /\ worker = "metered" /\ worker' = "bounds" /\ ThisMetric.meter # NoMeter
        /\ UNCHANGED <<msg, at, total_readings, window_count, time_series, collector_stats, seen>>
    BY <1>1, <1>21 DEF MeterSum, WorkerInv
  <2>2. /\ N' = N + 0 /\ E' = E + ThisMetric.sum /\ ThisMetric.count \in Nat
        /\ AllRegular => ThisMetric.sum = ThisMetric.count
        /\ Rest(m, k) \in Nat /\ Rest(m, k + 1) \in Nat
        /\ Rest(m, k) = ThisMetric.count + Rest(m, k + 1)
    BY <1>1, MetricAtHand, <1>18, <1>21, <2>1, Changes, MeterFigures
  <2>3. /\ Owed({"metrics", "entry"}) = Rest(m, k + 1)
        /\ Owed({"metrics", "entry", "metered"}) = Rest(m, k)
        /\ Owed({"metrics", "entry"})' = Rest(m, k + 1)
        /\ Owed({"metrics", "entry", "metered"})' = Rest(m, k + 1)
    BY <1>18, <2>1, OwedAt, OwedAtNext
  <2>4. /\ N' + Rest(m, k + 1) = N + Rest(m, k + 1)
        /\ AllRegular => E' + Rest(m, k + 1) = E + Rest(m, k)
    BY <1>2, <2>2
  <2> QED BY <1>15, <2>1, <2>3, <2>4
<1>22. CASE MeterBounds
  <2>1. /\ worker = "bounds" /\ worker' = "metrics" /\ at' = at + 1
        /\ UNCHANGED <<msg, total_readings, window_count, time_series, collector_stats,
                      meter_metrics, seen>>
    BY <1>22 DEF MeterBounds, globals
  <2>2. N' = N /\ E' = E
    BY <2>1, SumsStay
  <2>3. /\ Owed({"metrics", "entry"}) = Rest(m, k + 1)
        /\ Owed({"metrics", "entry", "metered"}) = Rest(m, k + 1)
        /\ Owed({"metrics", "entry"})' = Rest(m, k + 1)
        /\ Owed({"metrics", "entry", "metered"})' = Rest(m, k + 1)
    <3>1. PICK l : l = k + 1
      OBVIOUS
    <3>2. l = at' /\ m = msg'
      BY <1>18, <2>1, <3>1
    <3> QED BY <1>18, <2>1, <3>1, <3>2, OwedAt, OwedAtNext
  <2> QED BY <1>15, <2>1, <2>2, <2>3
<1>23. CASE EndUpdate
  <2>1. /\ worker = "metrics" /\ worker' = "waiting" /\ at > Len(msg.metrics) /\ FiguresStay
        /\ UNCHANGED seen /\ msg \in Messages /\ worker' \notin Busy
    BY <1>3, <1>16, <1>23 DEF EndUpdate, globals, FiguresStay, Busy
  <2>2. W' = W /\ R' = R /\ N' = N /\ E' = E
    BY <2>1, SumsStay DEF FiguresStay
  <2>3. Rest(msg, at) = 0
    <3>1. at \in Nat \ {0}
      BY <1>1, <2>1 DEF WorkerInv, TypeOK
    <3> QED BY <2>1, <3>1, RestEnds
  <2>4. /\ window_count = W + 0 /\ total_readings = R + 0
        /\ Len(time_series) = Min({W + 0, MaxPoints})
        /\ AllRegular => N + 0 = R /\ E + 0 = R
    BY <1>1, <2>1, <2>3, OwedAt, FiguresAlive DEF Due, Died
  <2>5. FiguresFit(0, 0, 0, 0)'
    BY <1>4, <2>1, <2>2, <2>4 DEF FiguresFit, FiguresStay
  <2> QED BY <1>6, <2>1, <2>5
<1>24. CASE Raise
  <2>1. /\ worker' = "dead" /\ worker' \notin Busy /\ Died' /\ FiguresStay /\ UNCHANGED seen
        /\ worker \in Busy /\ worker # "windowed" /\ ~Died
    BY <1>24 DEF Raise, HasMetric, globals, FiguresStay, Busy, Died
  <2>2. W' = W /\ R' = R /\ N' = N /\ E' = E
    BY <2>1, SumsStay DEF FiguresStay
  <2>3. ~AllRegular
    BY <1>1, <1>24, RegularSteps
  <2>4. msg = seen'[Len(seen')]
    BY <1>3, <2>1
  <2>5. CASE worker = "counted"
    <3>1. /\ window_count = W + 1 /\ total_readings = R + msg.total
          /\ Len(time_series) = Min({W + 1, MaxPoints})
      BY <1>1, <2>1, <2>5, FiguresAlive DEF Due
    <3>2. FiguresFit(0, 0, 0, 0)'
      BY <1>4, <2>1, <2>2, <2>3, <2>4, <3>1 DEF FiguresFit, FiguresStay
    <3> QED BY <1>6, <2>1, <3>2
  <2>6. CASE worker # "counted"
    <3>1. /\ window_count = W + 0 /\ total_readings = R + 0
          /\ Len(time_series) = Min({W + 0, MaxPoints})
      BY <1>1, <2>1, <2>6, FiguresAlive DEF Due
    <3>2. FiguresFit(0, 0, 0, 0)'
      BY <1>4, <2>1, <2>2, <2>3, <3>1 DEF FiguresFit, FiguresStay
    <3> QED BY <1>6, <2>1, <3>2
  <2> QED BY <2>5, <2>6
<1>25. CASE StartScript
  <2>1. FiguresStay /\ UNCHANGED <<msg, at, seen>>
    BY <1>25 DEF StartScript, globals, FiguresStay
  <2>2. \/ worker' = worker
        \/ worker = "none" /\ worker' = "starting"
    BY <1>25 DEF StartScript
  <2> QED BY <1>4, <1>7, <1>8, <2>1, <2>2 DEF Busy, Died
<1>26. CASE Copy \/ Charts \/ RowWindows \/ RowReadings \/ AverageSum \/ AverageCount
            \/ AverageFails \/ Rerun \/ UserReruns
  BY <1>8, <1>26 DEF Copy, Charts, RowWindows, RowReadings, AverageSum, AverageCount,
                     AverageFails, Rerun, UserReruns, NewRun, workerVars, globals, FiguresStay
<1>27. CASE UNCHANGED vars
  BY <1>8, <1>27 DEF vars, workerVars, globals, FiguresStay
<1> QED BY <1>9, <1>10, <1>11, <1>12, <1>13, <1>14, <1>17, <1>19, <1>20, <1>21, <1>22, <1>23,
           <1>24, <1>25, <1>26, <1>27 DEF Next, Message, Worker, Script

-----------------------------------------------------------------------------
(* The entries of the collectors and of the meters *)

LEMMA WindowsCounted ==
    ASSUME TypeOK, NEW c \in Collectors
    PROVE  Cardinality(WindowsOf(c)) \in Nat
<1>1. Len(seen) \in Nat /\ WindowsOf(c) \in SUBSET (1 .. Len(seen))
  BY LenProperties DEF TypeOK, WindowsOf
<1>2. IsFiniteSet(1 .. Len(seen))
  BY <1>1, FS_Interval
<1>3. IsFiniteSet(WindowsOf(c))
  BY <1>1, <1>2, FS_Subset
<1> QED BY <1>3, FS_CardinalityType

LEMMA CollectorsStep ==
    ASSUME Inv, [Next]_vars, TypeOK', WorkerInv' PROVE CollectorsInv'
<1>1. TypeOK /\ WorkerInv /\ MetersInv /\ CollectorsInv
  BY DEF Inv
<1>2. \A c \in Collectors : /\ Lacking(c) /\ collector_stats[c].windows \in Nat
                            /\ collector_stats[c].readings \in Nat
                            /\ Cardinality(WindowsOf(c)) \in Nat
  BY <1>1, WindowsCounted DEF TypeOK, CollectorsInv
<1>3. (\A c \in Collectors : Lacking(c)') => CollectorsInv'
  BY DEF CollectorsInv
<1>4. worker \in Busy => /\ msg \in Messages /\ msg.collector \in Collectors
                        /\ msg.total \in Nat
  BY <1>1, Parts DEF WorkerInv
<1>5. ASSUME UNCHANGED <<seen, collector_stats>>,
             \/ UNCHANGED <<worker, msg>>
             \/ /\ worker \in {"counted", "windowed"} => msg.shape # "window"
                /\ worker' \notin {"counted", "windowed"}
      PROVE  CollectorsInv'
  <2>1. ASSUME NEW c \in Collectors PROVE Lacking(c)'
    <3>1. WindowsOf(c)' = WindowsOf(c)
      BY <1>5 DEF WindowsOf
    <3>2. \A k : ReadingsOf(c, k)' = ReadingsOf(c, k)
      BY <1>5, <3>1 DEF ReadingsOf, FirstOf
    <3> QED BY <1>2, <1>5, <3>1, <3>2 DEF Lacking, CollectorFits, At
  <2> QED BY <1>3, <2>1
<1>6. ASSUME NEW m \in Messages, seen' = Append(seen, m), UNCHANGED collector_stats,
             worker \notin Busy,
             \/ worker' = "counted" /\ msg' = m
             \/ m.shape # "window" /\ worker' \notin Busy
      PROVE  CollectorsInv'
  <2>1. ASSUME NEW c \in Collectors PROVE Lacking(c)'
    <3>1. PICK n : n = Cardinality(WindowsOf(c))
      OBVIOUS
    <3>2. /\ n \in Nat
          /\ \A k \in Nat : k <= n => ReadingsOf(c, k)' = ReadingsOf(c, k)
          /\ IF m.shape = "window" /\ m.collector = c
             THEN /\ Cardinality(WindowsOf(c))' = n + 1
                  /\ ReadingsOf(c, n + 1)' = ReadingsOf(c, n) + m.total
             ELSE Cardinality(WindowsOf(c))' = n
      BY <1>1, <1>6, <3>1, ReadingsAppended
    <3>3. /\ collector_stats[c].windows = n /\ collector_stats[c].readings = ReadingsOf(c, n)
          /\ collector_stats[c].windows \in Nat /\ collector_stats[c].readings \in Nat
      BY <1>2, <1>6, <3>1 DEF Lacking, CollectorFits, At, Busy
    <3>4. ReadingsOf(c, n)' = ReadingsOf(c, n)
      BY <3>2
    <3>5. collector_stats'[c] = collector_stats[c] /\ m.total \in Nat
      BY <1>6, Parts
    <3>6. CASE m.shape = "window" /\ m.collector = c
      <4>1. At({"counted"}, c)' /\ At({"counted", "windowed"}, c)' /\ msg' = m
        BY <1>6, <3>6 DEF At, Busy
      <4>2. ASSUME NEW k, k = Cardinality(WindowsOf(c))'
            PROVE  /\ k - 1 = n /\ k > 0
                   /\ ReadingsOf(c, k)' = ReadingsOf(c, n) + m.total
                   /\ ReadingsOf(c, k - 1)' = ReadingsOf(c, n)
        <5>1. k = n + 1 /\ k - 1 = n /\ k > 0
          BY <3>2, <3>6, <4>2
        <5> QED BY <3>2, <3>4, <3>6, <5>1
      <4>3. /\ collector_stats'[c].windows + 1 = Cardinality(WindowsOf(c))'
            /\ collector_stats'[c].readings = ReadingsOf(c, n)
        BY <3>2, <3>3, <3>5, <3>6
      <4>4. CollectorFits(c, 1, m.total)'
        BY <4>2, <4>3, <3>3, <3>5, <1>6 DEF CollectorFits
      <4> QED BY <4>1, <4>4 DEF Lacking
    <3>7. CASE ~(m.shape = "window" /\ m.collector = c)
      <4>1. ~At({"counted"}, c)' /\ ~At({"counted", "windowed"}, c)'
        BY <1>6, <3>7 DEF At, Busy
      <4>2. Cardinality(WindowsOf(c))' = n
        BY <3>2, <3>7
      <4>3. CollectorFits(c, 0, 0)'
        BY <3>3, <3>4, <3>5, <4>2 DEF CollectorFits
      <4> QED BY <4>1, <4>3 DEF Lacking
    <3> QED BY <3>6, <3>7
  <2> QED BY <1>3, <2>1
<1>7. CASE ConsumerStarts \/ ConsumerFails
  BY <1>5, <1>7 DEF ConsumerStarts, ConsumerFails, globals
<1>8. CASE SkipMalformed
  <2>1. PICK m \in Messages : m.shape = "malformed" /\ seen' = Append(seen, m)
    BY <1>8 DEF SkipMalformed
  <2> QED BY <1>6, <1>8, <2>1 DEF SkipMalformed, globals, Busy
<1>9. CASE Count
  <2>1. PICK m \in Messages : Totals(m) /\ msg' = m
    BY <1>9 DEF Count
  <2>2. /\ seen' = Append(seen, m) /\ UNCHANGED collector_stats
        /\ worker \notin Busy /\ worker' = "counted"
    BY <1>9, <2>1 DEF Count, Totals, Busy
  <2>3. \/ worker' = "counted" /\ msg' = m
        \/ m.shape # "window" /\ worker' \notin Busy
    BY <2>1, <2>2
  <2> QED BY <1>6, <2>1, <2>2, <2>3
<1>10. CASE Die
  <2>1. PICK m \in Messages :
            \/ m.shape = "scalar" /\ UNCHANGED <<total_readings, window_count, seen>>
            \/ m.shape = "early" /\ Totals(m)
    BY <1>10, Zenon DEF Die
  <2>2. CASE UNCHANGED seen
    BY <1>5, <1>10, <2>2 DEF Die
  <2>3. CASE m.shape = "early" /\ Totals(m)
    BY <1>6, <1>10, <2>3 DEF Die, Totals, Busy
  <2> QED BY <2>1, <2>2, <2>3
<1>11. ASSUME NEW windows \in {0, 1}, NEW readings \in Nat, CollectorsChange(windows, readings),
              UNCHANGED <<seen, msg>>, worker \in Busy, msg.shape = "window",
              \/ worker = "counted" /\ worker' = "windowed" /\ windows = 1 /\ readings = 0
              \/ worker = "windowed" /\ worker' = "metrics" /\ windows = 0 /\ readings = msg.total
       PROVE  CollectorsInv'
  <2>1. ASSUME NEW c \in Collectors PROVE Lacking(c)'
    <3>1. WindowsOf(c)' = WindowsOf(c)
      BY <1>11 DEF WindowsOf
    <3>2. \A k : ReadingsOf(c, k)' = ReadingsOf(c, k)
      BY <1>11, <3>1 DEF ReadingsOf, FirstOf
    <3>3. CASE c = msg.collector
      <4>1. /\ collector_stats'[c].windows = collector_stats[c].windows + windows
            /\ collector_stats'[c].readings = collector_stats[c].readings + readings
        BY <1>11, <3>3 DEF CollectorsChange
      <4>2. msg.total \in Nat
        BY <1>4, <1>11 DEF Busy
      <4> QED BY <1>2, <1>11, <3>1, <3>2, <3>3, <4>1, <4>2 DEF Lacking, CollectorFits, At
    <3>4. CASE c # msg.collector
      <4>1. collector_stats'[c] = collector_stats[c]
        BY <1>11, <3>4 DEF CollectorsChange
      <4> QED BY <1>2, <1>11, <3>1, <3>2, <3>4, <4>1 DEF Lacking, CollectorFits, At
    <3> QED BY <3>3, <3>4
  <2> QED BY <1>3, <2>1
<1>12. CASE AddWindow
  BY <1>1, <1>11, <1>12, Changes DEF AddWindow, Busy
<1>13. CASE AddReadings
  <2>1. msg.total \in Nat /\ worker = "windowed" /\ worker \in Busy /\ msg.shape = "window"
    BY <1>1, <1>4, <1>13 DEF AddReadings, Busy, WorkerInv
  <2> QED BY <1>1, <1>11, <1>13, <2>1, Changes DEF AddReadings
<1>14. CASE SkipMetric \/ MeterEntry \/ MeterCount \/ MeterSum \/ MeterBounds \/ EndUpdate
  BY <1>5, <1>14 DEF SkipMetric, MeterEntry, MeterCount, MeterSum, MeterBounds, EndUpdate,
                     HasMetric, globals
<1>15. CASE Raise
  BY <1>5, <1>15 DEF Raise, HasMetric, globals
<1>16. CASE StartScript
  BY <1>5, <1>16 DEF StartScript, globals
<1>17. CASE Copy \/ Charts \/ RowWindows \/ RowReadings \/ AverageSum \/ AverageCount
            \/ AverageFails \/ Rerun \/ UserReruns
  BY <1>5, <1>17 DEF Copy, Charts, RowWindows, RowReadings, AverageSum, AverageCount,
                     AverageFails, Rerun, UserReruns, NewRun, workerVars, globals
<1>18. CASE UNCHANGED vars
  BY <1>5, <1>18 DEF vars, workerVars, globals
<1> QED BY <1>7, <1>8, <1>9, <1>10, <1>12, <1>13, <1>14, <1>15, <1>16, <1>17, <1>18
        DEF Next, Message, Worker, Script

LEMMA MetersStep ==
    ASSUME Inv, [Next]_vars, TypeOK' PROVE MetersInv'
<1>1. TypeOK /\ WorkerInv /\ MetersInv
  BY DEF Inv
<1>2. \A m \in Meters : /\ meter_metrics[m] # None => meter_metrics[m] = EntryOf(m)
                        /\ meter_metrics[m] = None => EntryOf(m) = [count |-> 0, sum |-> 0]
                        /\ EntryOf(m).count \in Nat /\ EntryOf(m).sum \in Nat
  BY <1>1, EntryFits DEF EntryOf
<1>3. UNCHANGED seen => (AllRegular' <=> AllRegular)
  BY <1>1, RegularKept
<1>4. AllRegular => \A m \in Meters : MeterFits(m)
  BY <1>1 DEF MetersInv
<1>5. ASSUME NEW count \in Nat, NEW sum \in Nat, MetersChange(count, sum),
             ThisMetric.meter \in Meters, UNCHANGED <<msg, at>>
      PROVE  /\ ThisMetric' = ThisMetric
             /\ meter_metrics'[ThisMetric.meter] # None
             /\ \A m \in Meters :
                   /\ m = ThisMetric.meter =>
                         /\ meter_metrics'[m].count = EntryOf(m).count + count
                         /\ meter_metrics'[m].sum = EntryOf(m).sum + sum
                   /\ m # ThisMetric.meter => meter_metrics'[m] = meter_metrics[m]
  <2>1. \A d \in Meters : EntryOf(d).count \in Nat /\ EntryOf(d).sum \in Nat
    BY <1>1, EntryFits
  <2>2. meter_metrics'[ThisMetric.meter] \in [count : Nat, sum : Nat]
    BY <1>5, <2>1 DEF MetersChange
  <2>3. meter_metrics'[ThisMetric.meter] # None
    BY <2>2, NoneAssumption
  <2>4. ThisMetric' = ThisMetric
    BY <1>5 DEF ThisMetric
  <2> QED BY <1>5, <2>1, <2>3, <2>4 DEF MetersChange
<1>6. ASSUME UNCHANGED meter_metrics, AllRegular' => AllRegular,
             \/ UNCHANGED <<worker, msg, at>>
             \/ /\ worker \in {"entry", "metered"} => ~AllRegular
                /\ worker' \notin {"entry", "metered", "bounds"}
      PROVE  MetersInv'
  <2>1. CASE UNCHANGED <<worker, msg, at>>
    <3>1. ThisMetric' = ThisMetric
      BY <2>1 DEF ThisMetric
    <3>2. worker' \in {"entry", "metered", "bounds"} => meter_metrics'[ThisMetric'.meter] # None
      BY <1>1, <1>6, <2>1, <3>1 DEF MetersInv
    <3>3. ASSUME AllRegular', NEW m \in Meters PROVE MeterFits(m)'
      BY <1>4, <1>6, <2>1, <3>1, <3>3 DEF MeterFits
    <3> QED BY <3>2, <3>3 DEF MetersInv
  <2>2. CASE /\ worker \in {"entry", "metered"} => ~AllRegular
             /\ worker' \notin {"entry", "metered", "bounds"}
    <3>1. ASSUME AllRegular', NEW m \in Meters PROVE MeterFits(m)'
      <4>1. MeterFits(m) /\ worker \notin {"entry", "metered"} /\ meter_metrics'[m] = meter_metrics[m]
        BY <1>4, <1>6, <2>2, <3>1
      <4> QED BY <2>2, <4>1 DEF MeterFits
    <3> QED BY <2>2, <3>1 DEF MetersInv
  <2> QED BY <1>6, <2>1, <2>2
<1>7. CASE MeterEntry
  <2>1. /\ worker = "metrics" /\ worker' = "entry" /\ ThisMetric.meter \in Meters
        /\ UNCHANGED <<msg, at, seen>> /\ MetersChange(0, 0)
    BY <1>1, <1>7, MetricAtHand, Changes DEF MeterEntry, HasMetric
  <2>2. /\ ThisMetric' = ThisMetric /\ meter_metrics'[ThisMetric.meter] # None
        /\ \A m \in Meters :
              /\ m = ThisMetric.meter => /\ meter_metrics'[m].count = EntryOf(m).count
                                         /\ meter_metrics'[m].sum = EntryOf(m).sum
              /\ m # ThisMetric.meter => meter_metrics'[m] = meter_metrics[m]
    BY <1>2, <1>5, <2>1
  <2>3. ASSUME AllRegular', NEW m \in Meters PROVE MeterFits(m)'
    <3>1. MeterFits(m)
      BY <1>3, <1>4, <2>1, <2>3
    <3>2. CASE m = ThisMetric.meter
      <4>1. EntryOf(m).sum <= EntryOf(m).count
        BY <1>2, <2>1, <3>1 DEF MeterFits
      <4> QED BY <1>2, <2>1, <2>2, <3>2, <4>1 DEF MeterFits
    <3>3. CASE m # ThisMetric.meter
      BY <2>1, <2>2, <3>1, <3>3 DEF MeterFits
    <3> QED BY <3>2, <3>3
  <2> QED BY <2>1, <2>2, <2>3 DEF MetersInv
<1>8. CASE MeterCount
  <2>1. /\ worker = "entry" /\ worker' = "metered" /\ UNCHANGED <<msg, at, seen>>
        /\ ThisMetric.meter # NoMeter /\ meter_metrics[ThisMetric.meter] # None
        /\ MetersChange(ThisMetric.count, 0)
    BY <1>1, <1>8, Changes DEF MeterCount, WorkerInv, MetersInv
  <2>2. /\ ThisMetric.meter \in Meters
        /\ ThisMetric.count \in Nat /\ ThisMetric.sum \in Nat
        /\ AllRegular => ThisMetric.count > 0 /\ ThisMetric.sum = ThisMetric.count
    BY <1>1, <2>1, MetricAtHand
  <2>3. /\ ThisMetric' = ThisMetric /\ meter_metrics'[ThisMetric.meter] # None
        /\ \A m \in Meters :
              /\ m = ThisMetric.meter =>
                    /\ meter_metrics'[m].count = EntryOf(m).count + ThisMetric.count
                    /\ meter_metrics'[m].sum = EntryOf(m).sum
              /\ m # ThisMetric.meter => meter_metrics'[m] = meter_metrics[m]
    BY <1>2, <1>5, <2>1, <2>2
  <2>4. ASSUME AllRegular', NEW m \in Meters PROVE MeterFits(m)'
    <3>1. MeterFits(m) /\ AllRegular
      BY <1>3, <1>4, <2>1, <2>4
    <3>2. CASE m = ThisMetric.meter
      <4>1. EntryOf(m).sum <= EntryOf(m).count
        BY <1>2, <2>1, <3>1, <3>2 DEF MeterFits
      <4> QED BY <1>2, <2>1, <2>2, <2>3, <3>1, <3>2, <4>1 DEF MeterFits
    <3>3. CASE m # ThisMetric.meter
      BY <2>1, <2>3, <3>1, <3>3 DEF MeterFits
    <3> QED BY <3>2, <3>3
  <2> QED BY <2>1, <2>3, <2>4 DEF MetersInv
<1>9. CASE MeterSum
  <2>1. /\ worker = "metered" /\ worker' = "bounds" /\ UNCHANGED <<msg, at, seen>>
        /\ ThisMetric.meter # NoMeter /\ meter_metrics[ThisMetric.meter] # None
        /\ MetersChange(0, ThisMetric.sum)
    BY <1>1, <1>9, Changes DEF MeterSum, WorkerInv, MetersInv
  <2>2. ThisMetric.meter \in Meters /\ ThisMetric.sum \in Nat
    BY <1>1, <2>1, MetricAtHand
  <2>3. /\ ThisMetric' = ThisMetric /\ meter_metrics'[ThisMetric.meter] # None
        /\ \A m \in Meters :
              /\ m = ThisMetric.meter =>
                    /\ meter_metrics'[m].count = EntryOf(m).count
                    /\ meter_metrics'[m].sum = EntryOf(m).sum + ThisMetric.sum
              /\ m # ThisMetric.meter => meter_metrics'[m] = meter_metrics[m]
    BY <1>2, <1>5, <2>1, <2>2
  <2>4. ASSUME AllRegular', NEW m \in Meters PROVE MeterFits(m)'
    <3>1. MeterFits(m)
      BY <1>3, <1>4, <2>1, <2>4
    <3>2. CASE m = ThisMetric.meter
      <4>1. EntryOf(m).sum + ThisMetric.sum <= EntryOf(m).count /\ EntryOf(m).count > 0
        BY <1>2, <2>1, <3>1, <3>2 DEF MeterFits
      <4> QED BY <1>2, <2>1, <2>2, <2>3, <3>2, <4>1 DEF MeterFits
    <3>3. CASE m # ThisMetric.meter
      BY <2>1, <2>3, <3>1, <3>3 DEF MeterFits
    <3> QED BY <3>2, <3>3
  <2> QED BY <2>1, <2>3, <2>4 DEF MetersInv
<1>10. CASE ConsumerStarts \/ ConsumerFails
  BY <1>3, <1>6, <1>10 DEF ConsumerStarts, ConsumerFails, globals
<1>11. ASSUME NEW m \in Messages, seen' = Append(seen, m) PROVE AllRegular' => AllRegular
  BY <1>1, <1>11, RegularKept
<1>12. CASE SkipMalformed
  BY <1>6, <1>11, <1>12 DEF SkipMalformed, globals
<1>13. CASE Count
  BY <1>6, <1>11, <1>13 DEF Count, Totals
<1>14. CASE Die
  <2>1. AllRegular' => AllRegular
    BY <1>3, <1>11, <1>14 DEF Die, Totals
  <2> QED BY <1>6, <1>14, <2>1 DEF Die
<1>15. CASE AddWindow \/ AddReadings \/ MeterBounds \/ EndUpdate
  BY <1>3, <1>6, <1>15 DEF AddWindow, AddReadings, MeterBounds, EndUpdate, globals
<1>16. CASE SkipMetric \/ Raise
  <2>1. ~AllRegular
    BY <1>1, <1>16, RegularSteps
  <2> QED BY <1>3, <1>6, <1>16, <2>1 DEF SkipMetric, HasMetric, Raise, globals
<1>17. CASE StartScript
  BY <1>3, <1>6, <1>17 DEF StartScript, globals
<1>18. CASE Copy \/ Charts \/ RowWindows \/ RowReadings \/ AverageSum \/ AverageCount
            \/ AverageFails \/ Rerun \/ UserReruns
  BY <1>3, <1>6, <1>18 DEF Copy, Charts, RowWindows, RowReadings, AverageSum, AverageCount,
                           AverageFails, Rerun, UserReruns, NewRun, workerVars, globals
<1>19. CASE UNCHANGED vars
  BY <1>3, <1>6, <1>19 DEF vars, workerVars, globals
<1> QED BY <1>7, <1>8, <1>9, <1>10, <1>12, <1>13, <1>14, <1>15, <1>16, <1>17, <1>18, <1>19
        DEF Next, Message, Worker, Script

-----------------------------------------------------------------------------
(* The series *)

\* A series is of points it had, and of the one that was pushed.
LEMMA PushedDrawable ==
    ASSUME NEW s \in Seq(Messages), NEW m \in Messages, m.shape # "unhashable", Drawable(s)
    PROVE  Drawable(Pushed(s, m))
<1> DEFINE a == Append(s, m)
<1>1. /\ a \in Seq(Messages) /\ Len(a) = Len(s) + 1 /\ Len(s) \in Nat
      /\ \A i \in 1 .. Len(s) : a[i] = s[i]
      /\ a[Len(s) + 1] = m
  BY AppendProperties, LenProperties
<1>2. DOMAIN a = 1 .. Len(s) + 1 /\ DOMAIN s = 1 .. Len(s)
  <2> HIDE DEF a
  <2> QED BY <1>1, LenProperties
<1>3. Drawable(a)
  <2> HIDE DEF a
  <2> QED BY <1>1, <1>2 DEF Drawable
<1>4. Drawable(Tail(a))
  <2>1. a # <<>>
    BY <1>1, EmptySeq
  <2> HIDE DEF a
  <2>2. /\ Tail(a) \in Seq(Messages) /\ Len(Tail(a)) = Len(a) - 1
        /\ \A i \in 1 .. Len(Tail(a)) : Tail(a)[i] = a[i + 1]
    BY <1>1, <2>1, HeadTailProperties
  <2>3. DOMAIN Tail(a) = 1 .. Len(s)
    BY <1>1, <2>2, LenProperties
  <2>4. \A i \in 1 .. Len(s) : Tail(a)[i] = a[i + 1] /\ i + 1 \in DOMAIN a
    BY <1>1, <1>2, <2>2
  <2> QED BY <1>3, <2>3, <2>4 DEF Drawable
<1>5. Pushed(s, m) = a \/ Pushed(s, m) = Tail(a)
  BY DEF Pushed
<1> QED BY <1>3, <1>4, <1>5

LEMMA SeriesStep ==
    ASSUME Inv, [Next]_vars PROVE SeriesInv'
<1>1. TypeOK /\ SeriesInv
  BY DEF Inv
<1>2. ASSUME UNCHANGED time_series, AllRegular' => AllRegular PROVE SeriesInv'
  BY <1>1, <1>2 DEF SeriesInv, Drawable
<1>3. UNCHANGED seen => (AllRegular' <=> AllRegular)
  BY <1>1, RegularKept
<1>4. CASE Count
  <2>1. PICK m \in Messages : Totals(m) /\ time_series' = Pushed(time_series, m)
    BY <1>4 DEF Count
  <2>2. AllRegular' => AllRegular /\ Regular(m)
    <3>1. seen' = Append(seen, m)
      BY <2>1 DEF Totals
    <3> QED BY <1>1, <3>1, RegularKept
  <2>3. ASSUME AllRegular' PROVE Drawable(Pushed(time_series, m))
    <3>1. m.shape # "unhashable" /\ Drawable(time_series)
      BY <1>1, <2>2, <2>3 DEF Regular, SeriesInv
    <3> QED BY <1>1, <3>1, PushedDrawable DEF TypeOK
  <2> QED BY <2>1, <2>3 DEF SeriesInv, Drawable
<1>5. CASE SkipMalformed \/ Die
  <2>1. AllRegular' => AllRegular
    <3>1. (\E m \in Messages : seen' = Append(seen, m)) \/ UNCHANGED seen
      BY <1>5 DEF SkipMalformed, Die, Totals
    <3> QED BY <1>1, <3>1, RegularKept
  <2> QED BY <1>2, <1>5, <2>1 DEF SkipMalformed, Die, globals
<1>6. CASE Worker \/ ConsumerFails
  BY <1>2, <1>3, <1>6
     DEF Worker, ConsumerStarts, ConsumerFails, AddWindow, AddReadings, SkipMetric,
         MeterEntry, MeterCount, MeterSum, MeterBounds, EndUpdate, Raise, globals
<1>7. CASE Script \/ UserReruns
  BY <1>2, <1>3, <1>7
     DEF Script, StartScript, Copy, Charts, RowWindows, RowReadings, AverageSum, AverageCount,
         AverageFails, Rerun, UserReruns, NewRun, workerVars, globals
<1>8. CASE UNCHANGED vars
  BY <1>2, <1>3, <1>8 DEF vars, workerVars, globals
<1> QED BY <1>4, <1>5, <1>6, <1>7, <1>8 DEF Next, Message

-----------------------------------------------------------------------------
(* The page *)

\* What the worker may do to what has been copied: entries get more, and the
\* readings of the windows an entry has stay what they are.
Grows ==
    /\ \A c \in Collectors : /\ collector_stats[c].windows <= collector_stats'[c].windows
                             /\ \A k \in Nat : k <= collector_stats[c].windows =>
                                    ReadingsOf(c, k)' = ReadingsOf(c, k)
    /\ \A m \in Meters : Counted(m) =>
          Counted(m)' /\ meter_metrics[m].count <= meter_metrics'[m].count
    /\ (Died => Died') /\ (AllRegular' => AllRegular)

LEMMA WorkerGrows ==
    ASSUME Inv, [Next]_vars, UNCHANGED scriptVars PROVE Grows
<1>1. TypeOK /\ WorkerInv /\ MetersInv /\ CollectorsInv
  BY DEF Inv
<1>2. \A c \in Collectors : collector_stats[c].windows \in Nat
  BY <1>1 DEF TypeOK
<1>3. \A m \in Meters : /\ EntryOf(m).count \in Nat
                        /\ meter_metrics[m] # None => meter_metrics[m] = EntryOf(m)
  BY <1>1, EntryFits
<1>4. \A c \in Collectors : /\ Cardinality(WindowsOf(c)) \in Nat
                            /\ collector_stats[c].windows <= Cardinality(WindowsOf(c))
  BY <1>1, <1>2, WindowsCounted DEF CollectorsInv, Lacking, CollectorFits
<1> DEFINE SameReadings == \A c \in Collectors : \A k \in Nat :
                              k <= collector_stats[c].windows => ReadingsOf(c, k)' = ReadingsOf(c, k)
           MoreWindows == \A c \in Collectors :
                              collector_stats[c].windows <= collector_stats'[c].windows
           MoreCounts == \A m \in Meters : Counted(m) =>
                              Counted(m)' /\ meter_metrics[m].count <= meter_metrics'[m].count
<1>5. UNCHANGED seen => SameReadings /\ (AllRegular' => AllRegular)
  BY <1>1, RegularKept DEF ReadingsOf, FirstOf, WindowsOf
<1>6. ASSUME NEW m \in Messages, seen' = Append(seen, m)
      PROVE  SameReadings /\ (AllRegular' => AllRegular)
  <2>1. ASSUME NEW c \in Collectors, NEW k \in Nat, k <= collector_stats[c].windows
        PROVE  ReadingsOf(c, k)' = ReadingsOf(c, k)
    <3>1. PICK n : n = Cardinality(WindowsOf(c))
      OBVIOUS
    <3>2. k <= n /\ n \in Nat
      BY <1>2, <1>4, <2>1, <3>1
    <3> QED BY <1>1, <1>6, <3>1, <3>2, ReadingsAppended
  <2> QED BY <1>1, <1>6, <2>1, RegularKept
<1>7. UNCHANGED collector_stats => MoreWindows
  BY <1>2
<1>8. ASSUME NEW windows \in Nat, NEW readings \in Nat, CollectorsChange(windows, readings)
      PROVE  MoreWindows
  BY <1>2, <1>8 DEF CollectorsChange
<1>9. UNCHANGED meter_metrics /\ (AllRegular' => AllRegular) => MoreCounts
  BY <1>3 DEF Counted
<1>10. ASSUME NEW count \in Nat, NEW sum \in Nat, MetersChange(count, sum),
              AllRegular' => AllRegular
       PROVE  MoreCounts
  <2>1. ASSUME NEW m \in Meters, Counted(m)
        PROVE  Counted(m)' /\ meter_metrics[m].count <= meter_metrics'[m].count
    <3>1. CASE m = ThisMetric.meter
      <4>1. /\ meter_metrics'[m] = [count |-> EntryOf(m).count + count, sum |-> EntryOf(m).sum + sum]
            /\ EntryOf(m) \in [count : Nat, sum : Nat]
        BY <1>1, <1>10, <3>1, EntryFits DEF MetersChange
      <4>2. meter_metrics'[m] \in [count : Nat, sum : Nat]
        BY <4>1
      <4>3. meter_metrics'[m] # None
        BY <4>2, NoneAssumption
      <4>4. meter_metrics'[m].count = meter_metrics[m].count + count /\ meter_metrics[m].count \in Nat
        BY <1>3, <2>1, <4>1 DEF Counted
      <4> QED BY <1>10, <2>1, <4>3, <4>4 DEF Counted
    <3>2. CASE m # ThisMetric.meter
      BY <1>3, <1>10, <2>1, <3>2 DEF MetersChange, Counted
    <3> QED BY <3>1, <3>2
  <2> QED BY <2>1
<1>11. SameReadings /\ MoreWindows /\ MoreCounts /\ (Died => Died')
           /\ (AllRegular' => AllRegular) => Grows
  BY DEF Grows
<1> HIDE DEF SameReadings, MoreWindows, MoreCounts
<1>12. /\ worker \in Busy => msg.total \in Nat
       /\ worker \in {"entry", "metered"} =>
              ThisMetric.count \in Nat /\ ThisMetric.sum \in Nat
  BY <1>1, Parts, MetricAtHand DEF WorkerInv
<1>13. CASE ConsumerStarts \/ ConsumerFails
  BY <1>5, <1>7, <1>9, <1>11, <1>13 DEF ConsumerStarts, ConsumerFails, globals, Died
<1>14. CASE SkipMalformed
  BY <1>6, <1>7, <1>9, <1>11, <1>14 DEF SkipMalformed, globals, Died
<1>15. CASE Count
  BY <1>6, <1>7, <1>9, <1>11, <1>15 DEF Count, Totals, Died
<1>16. CASE Die
  BY <1>5, <1>6, <1>7, <1>9, <1>11, <1>16 DEF Die, Totals, Died
<1>17. CASE AddWindow
  BY <1>1, <1>5, <1>8, <1>9, <1>11, <1>17, Changes DEF AddWindow, Died
<1>18. CASE AddReadings
  BY <1>1, <1>5, <1>8, <1>9, <1>11, <1>12, <1>18, Changes DEF AddReadings, Died, Busy
<1>19. CASE MeterEntry
  <2>1. UNCHANGED seen /\ MetersChange(0, 0)
    BY <1>1, <1>19, Changes DEF MeterEntry
  <2>2. MoreCounts
    BY <1>5, <1>10, <2>1
  <2> QED BY <1>5, <1>7, <1>11, <1>19, <2>1, <2>2 DEF MeterEntry, HasMetric, Died
<1>20. CASE MeterCount
  BY <1>1, <1>5, <1>7, <1>10, <1>11, <1>12, <1>20, Changes DEF MeterCount, Died, Busy
<1>21. CASE MeterSum
  BY <1>1, <1>5, <1>7, <1>10, <1>11, <1>12, <1>21, Changes DEF MeterSum, Died, Busy
<1>22. CASE SkipMetric \/ MeterBounds \/ EndUpdate \/ Raise
  BY <1>5, <1>7, <1>9, <1>11, <1>22
     DEF SkipMetric, MeterBounds, EndUpdate, Raise, HasMetric, globals, Died
<1>23. CASE StartScript
  BY <1>23 DEF StartScript, scriptVars
<1>24. CASE Copy \/ Charts \/ RowWindows \/ RowReadings \/ AverageSum \/ AverageCount
            \/ AverageFails \/ Rerun \/ UserReruns
  BY <1>5, <1>7, <1>9, <1>11, <1>24
     DEF Copy, Charts, RowWindows, RowReadings, AverageSum, AverageCount, AverageFails,
         Rerun, UserReruns, NewRun, workerVars, globals, Died
<1>25. CASE UNCHANGED vars
  BY <1>5, <1>7, <1>9, <1>11, <1>25 DEF vars, workerVars, globals, Died
<1> QED BY <1>13, <1>14, <1>15, <1>16, <1>17, <1>18, <1>19, <1>20, <1>21, <1>22, <1>23, <1>24,
           <1>25 DEF Next, Message, Worker, Script

\* What the rows of the table show, and would show.
LEMMA DrawnSums ==
    ASSUME NEW S, IsFiniteSet(S), NEW f \in [S -> Nat], NEW h \in [S -> Nat],
           \A c \in S : f[c] <= h[c]
    PROVE  SumFunction(f) \in Nat /\ SumFunction(h) \in Nat /\ SumFunction(f) <= SumFunction(h)
<1>1. DOMAIN f = S /\ DOMAIN h = S
  OBVIOUS
<1>2. SumFunctionOnSet(f, S) \in Nat /\ SumFunctionOnSet(h, S) \in Nat
  BY SumOfNaturals
<1>3. SumFunctionOnSet(f, S) <= SumFunctionOnSet(h, S)
  <2>1. S \in SUBSET S /\ S \ S = {} /\ S \cap S = S
    OBVIOUS
  <2>2. \A c \in S : f[c] \in Int /\ h[c] \in Int
    OBVIOUS
  <2> QED BY <2>1, <2>2, SumLeq
<1> QED BY <1>1, <1>2, <1>3 DEF SumFunction

\* The windows of the collectors are those of the collectors that have any.
LEMMA CopiedSum ==
    ASSUME TypeOK, NEW S, S = {c \in Collectors : collector_stats[c].windows > 0}
    PROVE  CollectorWindows <= SumFunction([c \in S |-> collector_stats[c].windows])
<1> DEFINE f == [c \in S |-> collector_stats[c].windows]
           h == [c \in Collectors |-> collector_stats[c].windows]
<1>1. S \in SUBSET Collectors /\ Collectors \in SUBSET Collectors /\ IsFiniteSet(Collectors)
  BY FiniteAssumption
<1>2. \A c \in Collectors : collector_stats[c].windows \in Nat
  BY DEF TypeOK
<1>3. /\ \A c \in Collectors : h[c] \in Int
      /\ \A c \in S : f[c] \in Int
      /\ \A c \in Collectors \cap S : h[c] <= f[c]
      /\ \A c \in Collectors \ S : h[c] <= 0
      /\ \A c \in S \ Collectors : f[c] >= 0
  BY <1>2
<1>4. DOMAIN f = S /\ DOMAIN h = Collectors /\ CollectorWindows = SumFunction(h)
  BY DEF CollectorWindows
<1> HIDE DEF f, h
<1>5. SumFunctionOnSet(h, Collectors) <= SumFunctionOnSet(f, S)
  BY <1>1, <1>3, SumLeq
<1> QED BY <1>4, <1>5 DEF SumFunction, f

LEMMA PageTypes ==
    ASSUME TypeOK
    PROVE  /\ \A c \in Collectors :
                 /\ collector_stats[c].windows \in Nat /\ collector_stats[c].readings \in Nat
                 /\ page.rows[c] # None =>
                       /\ page.rows[c].windows \in Nat /\ page.rows[c].windows > 0
                       /\ page.rows[c].readings # None => page.rows[c].readings \in Nat
                 /\ Drawn(c) \in Nat
           /\ \A m \in Meters :
                 /\ meter_metrics[m] # None =>
                       meter_metrics[m].count \in Nat /\ meter_metrics[m].sum \in Nat
                 /\ page.averages[m] # None =>
                       /\ page.averages[m].sum \in Nat
                       /\ page.averages[m].count # None => page.averages[m].count \in Nat
           /\ page.windows \in Nat
<1>1. /\ \A c \in Collectors : page.rows[c] \in Row \cup {None}
      /\ \A m \in Meters : page.averages[m] \in Average \cup {None}
      /\ page.windows \in Nat
  BY DEF TypeOK, Page
<1>2. \A c \in Collectors :
          /\ collector_stats[c].windows \in Nat /\ collector_stats[c].readings \in Nat
          /\ page.rows[c] # None =>
                /\ page.rows[c].windows \in Nat /\ page.rows[c].windows > 0
                /\ page.rows[c].readings # None => page.rows[c].readings \in Nat
  BY <1>1 DEF TypeOK, Row
<1>3. \A m \in Meters :
          /\ meter_metrics[m] # None =>
                meter_metrics[m].count \in Nat /\ meter_metrics[m].sum \in Nat
          /\ page.averages[m] # None =>
                /\ page.averages[m].sum \in Nat
                /\ page.averages[m].count # None => page.averages[m].count \in Nat
  BY <1>1 DEF TypeOK, Average
<1> QED BY <1>1, <1>2, <1>3 DEF Drawn

\* The worker changes nothing that was drawn, and what was copied only grows.
LEMMA PageStays ==
    ASSUME Inv, TypeOK', Grows, UNCHANGED scriptVars PROVE PageInv'
<1>1. TypeOK /\ WorkerInv /\ PageInv /\ UNCHANGED <<script, copied, page>>
  BY DEF Inv, scriptVars
<1>2. CopiedFits /\ TableFits /\ TableComplete /\ (AllRegular => script # "failed")
  BY <1>1 DEF PageInv
<1>3. copied.collectors \in SUBSET Collectors /\ copied.meters \in SUBSET Meters
  BY <1>1 DEF WorkerInv
<1>4. CopiedFits'
  <2>1. \A c \in Collectors : /\ collector_stats[c].windows \in Nat /\ collector_stats'[c].windows \in Nat
                              /\ collector_stats[c].windows <= collector_stats'[c].windows
    BY <1>1 DEF TypeOK, Grows
  <2>2. (\A m \in Meters : Counted(m) => Counted(m)') /\ (AllRegular' => AllRegular)
    BY DEF Grows
  <2>3. \A m \in copied'.meters : Counted(m)'
    BY <1>1, <1>2, <1>3, <2>2 DEF CopiedFits
  <2>4. AllRegular' => Drawable(copied'.points)
    BY <1>1, <1>2, <2>2 DEF CopiedFits
  <2> QED BY <1>1, <1>2, <1>3, <2>1, <2>3, <2>4 DEF CopiedFits, Drawable
<1>5. ASSUME NEW c \in Collectors PROVE RowFits(c)'
  <2>1. RowFits(c)
    BY <1>1 DEF PageInv
  <2>2. /\ collector_stats[c].windows \in Nat /\ collector_stats'[c].windows \in Nat
        /\ collector_stats[c].windows <= collector_stats'[c].windows
        /\ \A k \in Nat : k <= collector_stats[c].windows =>
              ReadingsOf(c, k)' = ReadingsOf(c, k)
    BY <1>1 DEF TypeOK, Grows
  <2>3. page.rows[c] # None => page.rows[c].windows \in Nat /\ page.rows[c].windows > 0
    BY <1>1, PageTypes
  <2>4. CASE page.rows[c] # None
    <3> DEFINE k == page.rows[c].windows - 1
    <3>1. k \in Nat /\ k <= collector_stats[c].windows
      BY <2>1, <2>2, <2>3, <2>4 DEF RowFits
    <3>2. k' = k
      BY <1>1
    <3>3. ReadingsOf(c, k)' = ReadingsOf(c, k)
      <4>1. \A l \in Nat : l = k => ReadingsOf(c, l)' = ReadingsOf(c, l)
        BY <2>2, <3>1
      <4> QED BY <3>1, <3>2, <4>1
    <3> QED BY <1>1, <2>1, <2>2, <2>3, <2>4, <3>3 DEF RowFits
  <2>5. CASE page.rows[c] = None
    BY <1>1, <2>5 DEF RowFits
  <2> QED BY <2>4, <2>5
<1>6. ASSUME NEW m \in Meters PROVE AverageFits(m)'
  <2>1. AverageFits(m)
    BY <1>1 DEF PageInv
  <2>2. Counted(m) => Counted(m)' /\ meter_metrics[m].count <= meter_metrics'[m].count
    BY DEF Grows
  <2>3. /\ meter_metrics[m] # None => meter_metrics[m].count \in Nat
        /\ page.averages[m] # None => page.averages[m].sum \in Nat
        /\ AllRegular' => AllRegular
    BY <1>1, PageTypes DEF Grows
  <2>4. meter_metrics'[m] # None => meter_metrics'[m].count \in Nat
    BY DEF TypeOK
  <2> QED BY <1>1, <2>1, <2>2, <2>3, <2>4 DEF AverageFits, Counted
<1>7. TableFits'
  <2> DEFINE S == copied.collectors
             f == [c \in S |-> Drawn(c)]
             h == [c \in S |-> Drawn(c)']
  <2>1. IsFiniteSet(S)
    BY <1>3, FiniteAssumption, FS_Subset
  <2>2. \A c \in Collectors : Drawn(c) \in Nat /\ page.windows \in Nat
    BY <1>1, PageTypes
  <2>3. \A c \in Collectors : Drawn(c)' \in Nat /\ Drawn(c) <= Drawn(c)'
    <3>1. ASSUME NEW c \in Collectors PROVE Drawn(c)' \in Nat /\ Drawn(c) <= Drawn(c)'
      <4>1. collector_stats[c].windows <= collector_stats'[c].windows /\ collector_stats'[c].windows \in Nat
        BY DEF Grows, TypeOK
      <4> QED BY <1>1, <2>2, <4>1 DEF Drawn
    <3> QED BY <3>1
  <2>4. f \in [S -> Nat] /\ h \in [S -> Nat] /\ \A c \in S : f[c] <= h[c]
    BY <1>3, <2>2, <2>3
  <2>5. SumFunction(f) \in Nat /\ SumFunction(h) \in Nat /\ SumFunction(f) <= SumFunction(h)
    <3> HIDE DEF f, h, S
    <3> QED BY <2>1, <2>4, DrawnSums
  <2>6. Died => Died'
    BY DEF Grows
  <2>7. h = [c \in copied.collectors |-> Drawn(c)]'
    BY <1>1
  <2>8. page.windows \in Nat /\ (script \in Drawing => SumFunction(f) >= page.windows - (IF Died THEN 1 ELSE 0))
    BY <1>1, <1>2, PageTypes DEF TableFits
  <2> HIDE DEF f, h
  <2>9. script \in Drawing => SumFunction(h) >= page.windows - (IF Died' THEN 1 ELSE 0)
    BY <2>5, <2>6, <2>8
  <2> QED BY <1>1, <2>7, <2>9 DEF TableFits
<1>8. TableComplete' /\ (AllRegular' => script' # "failed")
  BY <1>1, <1>2 DEF TableComplete, Grows
<1> QED BY <1>4, <1>5, <1>6, <1>7, <1>8 DEF PageInv

\* Steps of the script that draw nothing.
LEMMA PageKept ==
    ASSUME TypeOK, WorkerInv, PageInv, UNCHANGED <<collector_stats, meter_metrics, seen>>,
           Died' = Died
    PROVE  /\ \A c \in Collectors : /\ page'.rows[c] = page.rows[c] => RowFits(c)'
                                    /\ page'.rows[c] = None => RowFits(c)'
           /\ \A m \in Meters : /\ page'.averages[m] = page.averages[m] => AverageFits(m)'
                                /\ page'.averages[m] = None => AverageFits(m)'
           /\ copied' = copied => CopiedFits'
           /\ copied' = NoCopy => CopiedFits'
           /\ AllRegular' <=> AllRegular
           /\ (\A c \in copied.collectors : Drawn(c)' = Drawn(c)) /\ copied' = copied
                  /\ page'.windows = page.windows /\ script \in Drawing => TableFits'
<1>1. \A c \in Collectors : RowFits(c)
  BY DEF PageInv
<1>2. \A m \in Meters : AverageFits(m)
  BY DEF PageInv
<1>3. CopiedFits /\ TableFits
  BY DEF PageInv
<1>4. \A c \in Collectors : \A k : ReadingsOf(c, k)' = ReadingsOf(c, k)
  BY DEF ReadingsOf, FirstOf, WindowsOf
<1>5. (\A m : Counted(m)' <=> Counted(m)) /\ (AllRegular' <=> AllRegular)
  BY RegularKept DEF Counted
<1>6. ASSUME NEW c \in Collectors, page'.rows[c] = page.rows[c] PROVE RowFits(c)'
  <2>1. page'.rows[c].windows = page.rows[c].windows /\ page'.rows[c].readings = page.rows[c].readings
    BY <1>6
  <2>2. ReadingsOf(c, page.rows[c].windows - 1)' = ReadingsOf(c, page.rows[c].windows - 1)
    <3>1. ASSUME NEW k, k = page.rows[c].windows - 1
          PROVE  ReadingsOf(c, k)' = ReadingsOf(c, k) /\ k = page'.rows[c].windows - 1
      BY <1>4, <2>1, <3>1
    <3> QED BY <2>1, <3>1
  <2> QED BY <1>1, <1>6, <2>1, <2>2 DEF RowFits
<1>7. ASSUME NEW c \in Collectors, page'.rows[c] = None PROVE RowFits(c)'
  BY <1>7 DEF RowFits
<1>8. ASSUME NEW m \in Meters, page'.averages[m] = page.averages[m] PROVE AverageFits(m)'
  BY <1>2, <1>5, <1>8 DEF AverageFits
<1>9. ASSUME NEW m \in Meters, page'.averages[m] = None PROVE AverageFits(m)'
  BY <1>9 DEF AverageFits
<1>10. copied' = copied => CopiedFits'
  BY <1>3, <1>5 DEF CopiedFits, Drawable
<1>11. copied' = NoCopy => CopiedFits'
  BY DEF CopiedFits, NoCopy, Drawable
<1>12. ASSUME \A c \in copied.collectors : Drawn(c)' = Drawn(c), copied' = copied,
              page'.windows = page.windows, script \in Drawing
       PROVE  TableFits'
  <2>1. [c \in copied.collectors |-> Drawn(c)]' = [c \in copied.collectors |-> Drawn(c)]
    BY <1>12
  <2> QED BY <1>3, <1>12, <2>1 DEF TableFits
<1> QED BY <1>5, <1>6, <1>7, <1>8, <1>9, <1>10, <1>11, <1>12

LEMMA CopyStep ==
    ASSUME Inv, TypeOK', Copy PROVE PageInv'
<1>1. TypeOK /\ WorkerInv /\ FiguresInv /\ CollectorsInv /\ MetersInv /\ SeriesInv /\ PageInv
  BY DEF Inv
<1>2. UNCHANGED <<collector_stats, meter_metrics, seen, worker, window_count>> /\ Died' = Died
  BY DEF Copy, workerVars, globals, Died
<1>3. /\ \A c \in Collectors : page'.rows[c] = None
      /\ \A m \in Meters : page'.averages[m] = None
      /\ page'.windows = copied'.windows
      /\ script' \in {"sleep", "charts"}
      /\ copied' = IF first THEN Globals ELSE NoCopy
  <2>1. page' = [NoPage EXCEPT !.windows = copied'.windows]
        /\ copied' = (IF first THEN Globals ELSE NoCopy)
        /\ script' \in {"sleep", "charts"}
    BY DEF Copy
  <2>2. page' = [windows |-> copied'.windows, rows |-> [c \in Collectors |-> None],
                 averages |-> [m \in Meters |-> None]]
    BY <2>1 DEF NoPage
  <2> QED BY <2>1, <2>2
<1>4. TableComplete' /\ (AllRegular' => script' # "failed")
  BY <1>3 DEF TableComplete
<1>5. /\ \A c \in Collectors : RowFits(c)'
      /\ \A m \in Meters : AverageFits(m)'
  BY <1>1, <1>2, <1>3, PageKept
<1>6. CASE ~first
  <2>1. copied' = NoCopy
    BY <1>3, <1>6
  <2>2. CopiedFits'
    BY <1>1, <1>2, <2>1, PageKept DEF NoCopy
  <2>3. script' = "sleep"
    BY <2>1 DEF Copy, NoCopy
  <2>4. TableFits'
    BY <2>3 DEF TableFits, Drawing
  <2> QED BY <1>4, <1>5, <2>2, <2>4 DEF PageInv
<1>7. CASE first
  <2> DEFINE S == {c \in Collectors : collector_stats[c].windows > 0}
  <2>1. /\ copied'.collectors = S
        /\ copied'.meters = {m \in Meters : meter_metrics[m] # None}
        /\ copied'.windows = window_count /\ copied'.points = time_series
    BY <1>3, <1>7 DEF Globals
  <2>2. worker \notin Busy
    BY <1>1, <1>7 DEF Copy, WorkerInv
  <2>3. CopiedFits'
    <3>1. \A m \in Meters :
              meter_metrics[m] # None /\ AllRegular => meter_metrics[m].count > 0
      BY <1>1, <2>2 DEF MetersInv, MeterFits, Busy
    <3>2. AllRegular' <=> AllRegular
      BY <1>1, <1>2, RegularKept
    <3>3. \A m \in copied'.meters : Counted(m)'
      BY <1>2, <2>1, <3>1, <3>2 DEF Counted
    <3>4. AllRegular => Drawable(time_series)
      BY <1>1 DEF SeriesInv
    <3> QED BY <1>2, <2>1, <3>2, <3>3, <3>4 DEF CopiedFits, Drawable
  <2>4. TableFits'
    <3>1. \A c \in S : Drawn(c)' = collector_stats[c].windows
      BY <1>2, <1>3 DEF Drawn
    <3>2. [c \in copied.collectors |-> Drawn(c)]' = [c \in S |-> collector_stats[c].windows]
      BY <2>1, <3>1
    <3> DEFINE s == SumFunction([c \in S |-> collector_stats[c].windows])
    <3>3. CollectorWindows <= s
      <4> HIDE DEF S
      <4>1. S = {c \in Collectors : collector_stats[c].windows > 0}
        BY DEF S
      <4> QED BY <1>1, <4>1, CopiedSum
    <3>4. s \in Nat
      <4> DEFINE f == [c \in S |-> collector_stats[c].windows]
      <4>1. IsFiniteSet(S)
        BY FiniteAssumption, FS_Subset
      <4>2. f \in [S -> Nat] /\ \A c \in S : f[c] <= f[c]
        BY <1>1 DEF TypeOK
      <4>3. SumFunction(f) \in Nat
        <5> HIDE DEF f, S
        <5> QED BY <4>1, <4>2, DrawnSums
      <4> QED BY <4>3
    <3>5. \/ window_count = CollectorWindows
          \/ Died /\ window_count = CollectorWindows + 1
      BY <1>1, <2>2, FigureTypes DEF FiguresInv, Busy
    <3>6. CollectorWindows \in Nat
      BY <1>1, FigureTypes
    <3> HIDE DEF s
    <3>7. s >= window_count - (IF Died THEN 1 ELSE 0)
      BY <3>3, <3>4, <3>5, <3>6
    <3>8. SumFunction([c \in copied.collectors |-> Drawn(c)])' = s
      BY <3>2 DEF s
    <3> QED BY <1>2, <1>3, <2>1, <3>7, <3>8 DEF TableFits
  <2> QED BY <1>4, <1>5, <2>3, <2>4 DEF PageInv
<1> QED BY <1>6, <1>7

LEMMA DrawStep ==
    ASSUME Inv, TypeOK', RowWindows \/ RowReadings \/ AverageSum \/ AverageCount PROVE PageInv'
<1>1. TypeOK /\ WorkerInv /\ CollectorsInv /\ MetersInv /\ PageInv
  BY DEF Inv
<1>2. /\ UNCHANGED <<collector_stats, meter_metrics, seen, worker, copied>> /\ Died' = Died
      /\ script \in Drawing /\ script' # "failed"
  BY DEF RowWindows, RowReadings, AverageSum, AverageCount, workerVars, globals, Died, Drawing
<1>3. /\ copied.collectors \in SUBSET Collectors /\ copied.meters \in SUBSET Meters
      /\ \A m \in copied.meters : Counted(m)
  BY <1>1 DEF PageInv, WorkerInv, CopiedFits
<1>4. CopiedFits'
  BY <1>1, <1>2, PageKept
<1>5. CASE RowWindows
  <2>1. PICK c \in copied.collectors :
            /\ page.rows[c] = None
            /\ RowDrawn(c, [windows |-> collector_stats[c].windows, readings |-> None])
    BY <1>1, <1>5, Draws
  <2>2. /\ c \in Collectors /\ page'.windows = page.windows /\ page'.averages = page.averages
        /\ page'.rows[c] = [windows |-> collector_stats[c].windows, readings |-> None]
        /\ page'.rows[c] # None
        /\ \A d \in Collectors \ {c} : page'.rows[d] = page.rows[d]
    <3>1. c \in Collectors /\ [windows |-> collector_stats[c].windows, readings |-> None] \in Row
      BY <1>3, <2>1 DEF RowDrawn
    <3>2. None \notin Row
      BY NoneAssumption DEF Row
    <3> QED BY <2>1, <3>1, <3>2 DEF RowDrawn
  <2>3. RowFits(c)'
    BY <1>1, <1>2, <2>2, PageTypes DEF RowFits
  <2>4. \A d \in Collectors : RowFits(d)'
    BY <1>1, <1>2, <2>2, <2>3, PageKept
  <2>5. \A m \in Meters : AverageFits(m)'
    BY <1>1, <1>2, <2>2, PageKept
  <2>6. \A d \in Collectors : Drawn(d)' = Drawn(d)
    BY <1>2, <2>1, <2>2 DEF Drawn
  <2>7. TableFits'
    BY <1>1, <1>2, <1>3, <2>2, <2>6, PageKept
  <2>8. TableComplete'
    BY <1>5 DEF RowWindows, TableComplete
  <2> QED BY <1>2, <1>4, <2>4, <2>5, <2>7, <2>8 DEF PageInv
<1>6. CASE RowReadings
  <2>1. PICK c \in copied.collectors :
            /\ page.rows[c] # None /\ page.rows[c].readings = None
            /\ RowDrawn(c, [windows |-> page.rows[c].windows,
                            readings |-> collector_stats[c].readings])
    BY <1>1, <1>6, Draws
  <2>2. /\ c \in Collectors /\ page'.windows = page.windows /\ page'.averages = page.averages
        /\ page'.rows[c] = [windows |-> page.rows[c].windows,
                            readings |-> collector_stats[c].readings]
        /\ page'.rows[c] # None
        /\ \A d \in Collectors \ {c} : page'.rows[d] = page.rows[d]
    <3>1. c \in Collectors /\ [windows |-> page.rows[c].windows,
                               readings |-> collector_stats[c].readings] \in Row
      BY <1>3, <2>1 DEF RowDrawn
    <3>2. None \notin Row
      BY NoneAssumption DEF Row
    <3> QED BY <2>1, <3>1, <3>2 DEF RowDrawn
  <2>3. RowFits(c)'
    <3>1. /\ page.rows[c].windows <= collector_stats[c].windows
          /\ page.rows[c].windows \in Nat /\ page.rows[c].windows > 0
          /\ collector_stats[c].windows \in Nat /\ collector_stats[c].readings \in Nat
      BY <1>1, <2>1, <2>2, PageTypes DEF PageInv, RowFits
    <3> DEFINE k == page.rows[c].windows - 1
               n == Cardinality(WindowsOf(c))
    <3>2. collector_stats[c].readings >= ReadingsOf(c, k)
      <4>1. n \in Nat
        BY <1>1, <2>2, WindowsCounted
      <4>2. \/ collector_stats[c].readings = ReadingsOf(c, n) /\ collector_stats[c].windows <= n
            \/ /\ collector_stats[c].readings = ReadingsOf(c, n - 1)
               /\ collector_stats[c].windows <= n
        <5>1. Lacking(c) /\ (At({"counted", "windowed"}, c) => msg.total \in Nat)
          BY <1>1, <2>2, Parts DEF CollectorsInv, At, WorkerInv, Busy
        <5> QED BY <3>1, <4>1, <5>1 DEF Lacking, CollectorFits
      <4>3. k \in Int /\ k <= n /\ k <= n - 1 /\ n - 1 \in Int
        BY <3>1, <4>1, <4>2
      <4>4. ReadingsOf(c, k) <= ReadingsOf(c, n) /\ ReadingsOf(c, k) <= ReadingsOf(c, n - 1)
        <5> HIDE DEF k, n
        <5> QED BY <1>1, <2>2, <4>1, <4>3, ReadingsMonotone
      <4>5. ReadingsOf(c, k) \in Nat
        <5> HIDE DEF k, n
        <5> QED BY <1>1, <2>2, <4>3, ReadingsMonotone
      <4> HIDE DEF k, n
      <4> QED BY <3>1, <4>2, <4>4, <4>5
    <3>3. ReadingsOf(c, page.rows[c].windows - 1)' = ReadingsOf(c, page.rows[c].windows - 1)
      <4>1. \A l : ReadingsOf(c, l)' = ReadingsOf(c, l)
        BY <1>2 DEF ReadingsOf, FirstOf, WindowsOf
      <4>2. ASSUME NEW l, l = page.rows[c].windows - 1
            PROVE  ReadingsOf(c, l)' = ReadingsOf(c, l) /\ l = page'.rows[c].windows - 1
        BY <2>2, <4>1, <4>2
      <4>3. page'.rows[c].windows = page.rows[c].windows
        BY <2>2
      <4> QED BY <4>2, <4>3
    <3> QED BY <1>2, <2>2, <3>1, <3>2, <3>3 DEF RowFits
  <2>4. \A d \in Collectors : RowFits(d)'
    BY <1>1, <1>2, <2>2, <2>3, PageKept
  <2>5. \A m \in Meters : AverageFits(m)'
    BY <1>1, <1>2, <2>2, PageKept
  <2>6. \A d \in Collectors : Drawn(d)' = Drawn(d)
    BY <1>2, <2>1, <2>2 DEF Drawn
  <2>7. TableFits'
    BY <1>1, <1>2, <1>3, <2>2, <2>6, PageKept
  <2>8. TableComplete'
    BY <1>2, <1>6 DEF RowReadings, TableComplete
  <2> QED BY <1>2, <1>4, <2>4, <2>5, <2>7, <2>8 DEF PageInv
<1>7. ASSUME page'.rows = page.rows, page'.windows = page.windows,
             script \in {"averages", "average"}
      PROVE  (\A d \in Collectors : RowFits(d)') /\ TableFits' /\ TableComplete'
  <2>1. \A d \in Collectors : RowFits(d)'
    BY <1>1, <1>2, <1>7, PageKept
  <2>2. \A d \in Collectors : Drawn(d)' = Drawn(d)
    BY <1>2, <1>7 DEF Drawn
  <2>3. TableFits'
    BY <1>1, <1>2, <1>3, <1>7, <2>2, PageKept
  <2>4. TableComplete
    BY <1>1 DEF PageInv
  <2> QED BY <1>2, <1>7, <2>1, <2>3, <2>4 DEF TableComplete
<1>8. CASE AverageSum
  <2>1. PICK m \in copied.meters :
            /\ page.averages[m] = None
            /\ AverageDrawn(m, [sum |-> meter_metrics[m].sum, count |-> None])
    BY <1>1, <1>8, Draws
  <2>2. /\ m \in Meters /\ page'.windows = page.windows /\ page'.rows = page.rows
        /\ page'.averages[m] = [sum |-> meter_metrics[m].sum, count |-> None]
        /\ \A d \in Meters \ {m} : page'.averages[d] = page.averages[d]
    BY <1>3, <2>1 DEF AverageDrawn
  <2>3. AverageFits(m)'
    <3>1. Counted(m) /\ meter_metrics[m].sum \in Nat /\ meter_metrics[m].count \in Nat
      BY <1>1, <1>3, <2>2, PageTypes DEF Counted
    <3>2. AllRegular => meter_metrics[m].sum <= meter_metrics[m].count
      <4>1. worker = "metered" => ThisMetric.sum \in Nat
        BY <1>1, MetricAtHand DEF WorkerInv
      <4>2. AllRegular => MeterFits(m)
        BY <1>1, <2>2 DEF MetersInv
      <4> QED BY <3>1, <4>1, <4>2 DEF MeterFits, Counted
    <3>3. Counted(m)' /\ (AllRegular' <=> AllRegular)
      BY <1>1, <1>2, <3>1, RegularKept DEF Counted
    <3> QED BY <1>2, <2>2, <3>2, <3>3 DEF AverageFits
  <2>4. \A d \in Meters : AverageFits(d)'
    BY <1>1, <1>2, <2>2, <2>3, PageKept
  <2>5. script = "averages"
    BY <1>8 DEF AverageSum
  <2> QED BY <1>2, <1>4, <1>7, <2>2, <2>4, <2>5 DEF PageInv
<1>9. CASE AverageCount
  <2>1. PICK m \in copied.meters :
            /\ page.averages[m] # None /\ page.averages[m].count = None
            /\ AverageDrawn(m, [sum |-> page.averages[m].sum, count |-> meter_metrics[m].count])
    BY <1>1, <1>9, Draws
  <2>2. /\ m \in Meters /\ page'.windows = page.windows /\ page'.rows = page.rows
        /\ page'.averages[m] = [sum |-> page.averages[m].sum, count |-> meter_metrics[m].count]
        /\ \A d \in Meters \ {m} : page'.averages[d] = page.averages[d]
    BY <1>3, <2>1 DEF AverageDrawn
  <2>3. AverageFits(m)'
    <3>1. AverageFits(m) /\ Counted(m) /\ meter_metrics[m].count \in Nat
      BY <1>1, <1>3, <2>2, PageTypes DEF PageInv, Counted
    <3>2. meter_metrics[m].count # None
      BY <3>1, NoneAssumption
    <3>3. Counted(m)' /\ (AllRegular' <=> AllRegular)
      BY <1>1, <1>2, <3>1, RegularKept DEF Counted
    <3> QED BY <1>2, <2>1, <2>2, <3>1, <3>2, <3>3 DEF AverageFits
  <2>4. \A d \in Meters : AverageFits(d)'
    BY <1>1, <1>2, <2>2, <2>3, PageKept
  <2>5. script = "average"
    BY <1>9 DEF AverageCount
  <2> QED BY <1>2, <1>4, <1>7, <2>2, <2>4, <2>5 DEF PageInv
<1> QED BY <1>5, <1>6, <1>8, <1>9

\* A run that fails: of regular messages there is none.
LEMMA FailStep ==
    ASSUME Inv, Charts \/ AverageFails PROVE PageInv'
<1>1. TypeOK /\ WorkerInv /\ PageInv
  BY DEF Inv
<1>2. /\ UNCHANGED <<collector_stats, meter_metrics, seen, worker, copied, page>>
      /\ Died' = Died /\ script \in Drawing /\ script' \in {"rows", "failed"}
  BY DEF Charts, AverageFails, workerVars, globals, Died, Drawing
<1>3. script' = "failed" => ~AllRegular
  <2>1. Charts /\ script' = "failed" => ~Drawable(copied.points)
    BY DEF Charts, Drawable
  <2>2. AverageFails => \E m \in copied.meters : meter_metrics[m].count = 0
    BY DEF AverageFails
  <2>3. AllRegular => Drawable(copied.points) /\ \A m \in copied.meters : meter_metrics[m].count > 0
    BY <1>1 DEF PageInv, CopiedFits, Counted
  <2> QED BY <2>1, <2>2, <2>3
<1>4. /\ CopiedFits' /\ (AllRegular' <=> AllRegular)
      /\ \A c \in Collectors : RowFits(c)'
      /\ \A m \in Meters : AverageFits(m)'
  BY <1>1, <1>2, PageKept
<1>5. TableFits'
  <2>1. \A c \in copied.collectors : Drawn(c)' = Drawn(c)
    BY <1>2 DEF Drawn
  <2> QED BY <1>1, <1>2, <2>1, PageKept
<1>6. TableComplete'
  BY <1>2 DEF TableComplete
<1> QED BY <1>3, <1>4, <1>5, <1>6 DEF PageInv

LEMMA PageStep ==
    ASSUME Inv, [Next]_vars, TypeOK' PROVE PageInv'
<1>1. TypeOK /\ WorkerInv /\ PageInv
  BY DEF Inv
<1>2. CASE UNCHANGED scriptVars
  BY <1>2, WorkerGrows, PageStays
<1>3. CASE Copy
  BY <1>3, CopyStep
<1>4. CASE RowWindows \/ RowReadings \/ AverageSum \/ AverageCount
  BY <1>4, DrawStep
<1>5. CASE Charts \/ AverageFails
  BY <1>5, FailStep
<1>6. CASE StartScript
  <2>1. /\ UNCHANGED <<collector_stats, meter_metrics, seen, copied, page>>
        /\ Died' = Died /\ script' = "copy"
    BY <1>6 DEF StartScript, globals, Died
  <2>2. TableFits' /\ TableComplete'
    BY <2>1 DEF TableFits, TableComplete, Drawing
  <2> QED BY <1>1, <2>1, <2>2, PageKept DEF PageInv
<1>7. CASE Rerun \/ UserReruns
  <2>1. /\ UNCHANGED <<collector_stats, meter_metrics, seen, page>>
        /\ Died' = Died /\ script' = "start" /\ copied' = NoCopy
    BY <1>7 DEF Rerun, UserReruns, NewRun, workerVars, globals, Died
  <2>2. TableFits' /\ TableComplete'
    BY <2>1 DEF TableFits, TableComplete, Drawing
  <2> QED BY <1>1, <2>1, <2>2, PageKept DEF PageInv
<1>8. CASE Message
  <2>1. UNCHANGED scriptVars
    BY <1>8 DEF Message, SkipMalformed, Count, Die
  <2> QED BY <1>2, <2>1
<1>9. CASE Worker \/ ConsumerFails
  <2>1. UNCHANGED scriptVars
    BY <1>9 DEF Worker, ConsumerStarts, ConsumerFails, AddWindow, AddReadings, SkipMetric,
                MeterEntry, MeterCount, MeterSum, MeterBounds, EndUpdate, Raise
  <2> QED BY <1>2, <2>1
<1>10. CASE UNCHANGED vars
  BY <1>2, <1>10 DEF vars
<1> QED BY <1>3, <1>4, <1>5, <1>6, <1>7, <1>8, <1>9, <1>10 DEF Next, Script
-----------------------------------------------------------------------------
(* The invariant *)

LEMMA SumOfZeros ==
    ASSUME NEW S, IsFiniteSet(S), NEW f, DOMAIN f = S, \A x \in S : f[x] = 0
    PROVE  SumFunction(f) = 0
<1>1. {} \in SUBSET S /\ S \in SUBSET S
  OBVIOUS
<1>2. SumFunctionOnSet(f, {}) <= SumFunctionOnSet(f, S)
  BY <1>1, SumLeq
<1>3. SumFunctionOnSet(f, S) <= SumFunctionOnSet(f, {})
  BY <1>1, SumLeq
<1>4. SumFunctionOnSet(f, S) \in Nat
  BY SumOfNaturals
<1> QED BY <1>2, <1>3, <1>4, SumEmpty DEF SumFunction

LEMMA InitInv == ASSUME Init PROVE Inv
<1>1. IsFiniteSet(Collectors) /\ IsFiniteSet(Meters) /\ MaxPoints \in Nat /\ MaxMessages \in Nat
  BY FiniteAssumption, PointsAssumption
<1>2. \A m \in Meters : meter_metrics[m] = None /\ EntryOf(m) = [count |-> 0, sum |-> 0]
  BY DEF Init, EntryOf
<1>3. \A c \in Collectors : collector_stats[c] = [windows |-> 0, readings |-> 0]
  BY DEF Init
<1>4. \A c \in Collectors : page.rows[c] = None
  BY DEF Init, NoPage
<1>5. \A m \in Meters : page.averages[m] = None
  BY DEF Init, NoPage
<1>6. TypeOK
  <2>1. page \in Page
    BY DEF Init, NoPage, Page
  <2>2. time_series \in Seq(Messages) /\ Len(time_series) = 0 /\ seen \in Seq(Messages)
    BY DEF Init
  <2>3. /\ collector_stats \in [Collectors -> [windows : Nat, readings : Nat]]
        /\ meter_metrics \in [Meters -> [count : Nat, sum : Nat] \cup {None}]
    BY DEF Init
  <2>4. /\ worker = "none" /\ msg = None /\ locked = FALSE /\ first = TRUE
        /\ total_readings = 0 /\ window_count = 0 /\ script = "start" /\ at = 0
    BY DEF Init
  <2>5. Len(time_series) <= MaxPoints /\ window_count \in 0 .. MaxMessages
    BY <1>1, <2>2, <2>4
  <2> QED BY <2>1, <2>2, <2>3, <2>4, <2>5 DEF TypeOK
<1>7. WorkerInv
  BY <1>1 DEF Init, WorkerInv, Busy, NoCopy
<1>8. FiguresInv
  <2>1. CollectorWindows = 0
    <3> DEFINE f == [c \in Collectors |-> collector_stats[c].windows]
    <3>1. \A c \in Collectors : f[c] = 0
      BY <1>3
    <3> HIDE DEF f
    <3>2. DOMAIN f = Collectors
      BY DEF f
    <3>3. SumFunction(f) = 0
      BY <1>1, <3>1, <3>2, SumOfZeros
    <3> QED BY <3>3 DEF CollectorWindows, f
  <2>2. CollectorReadings = 0
    <3> DEFINE f == [c \in Collectors |-> collector_stats[c].readings]
    <3>1. \A c \in Collectors : f[c] = 0
      BY <1>3
    <3> HIDE DEF f
    <3>2. DOMAIN f = Collectors
      BY DEF f
    <3>3. SumFunction(f) = 0
      BY <1>1, <3>1, <3>2, SumOfZeros
    <3> QED BY <3>3 DEF CollectorReadings, f
  <2>3. MeterReadings = 0
    <3> DEFINE f == [m \in Meters |-> EntryOf(m).count]
    <3>1. \A m \in Meters : f[m] = 0
      BY <1>2
    <3> HIDE DEF f
    <3>2. DOMAIN f = Meters
      BY DEF f
    <3>3. SumFunction(f) = 0
      BY <1>1, <3>1, <3>2, SumOfZeros
    <3> QED BY <3>3 DEF MeterReadings, f
  <2>4. MeterEnergy = 0
    <3> DEFINE f == [m \in Meters |-> EntryOf(m).sum]
    <3>1. \A m \in Meters : f[m] = 0
      BY <1>2
    <3> HIDE DEF f
    <3>2. DOMAIN f = Meters
      BY DEF f
    <3>3. SumFunction(f) = 0
      BY <1>1, <3>1, <3>2, SumOfZeros
    <3> QED BY <3>3 DEF MeterEnergy, f
  <2>5. Min({0, MaxPoints}) = 0
    BY <1>1, MinOfTwo
  <2>6. /\ worker = "none" /\ Len(time_series) = 0
        /\ total_readings = 0 /\ window_count = 0
    BY DEF Init
  <2>7. FiguresFit(0, 0, 0, 0)
    BY <2>1, <2>2, <2>3, <2>4, <2>5, <2>6 DEF FiguresFit
  <2> QED BY <2>6, <2>7, OwedAt, FiguresTold DEF Due
<1>9. CollectorsInv
  <2>1. ASSUME NEW c \in Collectors
        PROVE  Cardinality(WindowsOf(c)) = 0 /\ ReadingsOf(c, 0) = 0
    <3>1. WindowsOf(c) = {}
      BY DEF Init, WindowsOf
    <3>2. FirstOf(c, 0) = {}
      BY <3>1 DEF FirstOf
    <3>3. ReadingsOf(c, 0) = SumFunction([i \in {} |-> seen[i].total])
      BY <3>2 DEF ReadingsOf
    <3> DEFINE f == [i \in {} |-> seen[i].total]
    <3>4. DOMAIN f = {}
      OBVIOUS
    <3> HIDE DEF f
    <3>5. SumFunction(f) = 0
      BY <3>4, FS_EmptySet, SumOfZeros
    <3> QED BY <3>1, <3>3, <3>5, FS_EmptySet DEF f
  <2>2. worker = "none"
    BY DEF Init
  <2> QED BY <1>3, <2>1, <2>2 DEF CollectorsInv, Lacking, CollectorFits, At
<1>10. MetersInv
  BY <1>2 DEF Init, MetersInv, MeterFits
<1>11. SeriesInv
  BY DEF Init, SeriesInv, Drawable
<1>12. PageInv
  <2>1. CopiedFits
    BY DEF Init, NoCopy, CopiedFits, Drawable
  <2>2. TableFits /\ TableComplete /\ script # "failed"
    BY DEF Init, TableFits, TableComplete, Drawing
  <2> QED BY <1>4, <1>5, <2>1, <2>2 DEF PageInv, RowFits, AverageFits
<1> QED BY <1>6, <1>7, <1>8, <1>9, <1>10, <1>11, <1>12 DEF Inv

LEMMA Invariance == Spec => []Inv
<1>1. Inv /\ [Next]_vars => Inv'
  <2> SUFFICES ASSUME Inv, [Next]_vars PROVE Inv'
    OBVIOUS
  <2>1. TypeOK' /\ WorkerInv'
    BY TypeStep
  <2>2. FiguresInv' /\ CollectorsInv' /\ MetersInv' /\ SeriesInv' /\ PageInv'
    BY <2>1, FiguresStep, CollectorsStep, MetersStep, SeriesStep, PageStep
  <2> QED BY <2>1, <2>2 DEF Inv
<1> QED BY InitInv, <1>1, PTL DEF Spec

-----------------------------------------------------------------------------
\* The dashboard's figures keep their types: the series never grows beyond
\* DASHBOARD_MAX_POINTS, and what is drawn of a collector has at least one window.
THEOREM TypeCorrect == Spec => []TypeOK
<1>1. Inv => TypeOK
  BY DEF Inv
<1> QED BY <1>1, Invariance, PTL

\* Whoever finds the lock free finds totals, series and entries of the collectors
\* telling of the same windows (kafka_worker), whatever the messages were; a worker
\* that died of a message leaves totals, or totals and series, ahead by that one.
\* The entries of the meters agree too while all messages are regular windows.
THEOREM FiguresMatch == Spec => []FiguresAgree
<1>1. ASSUME Inv PROVE FiguresAgree
  <2> SUFFICES ASSUME ~locked PROVE FiguresAgree
    BY DEF FiguresAgree
  <2>1. worker \notin Busy
    BY <1>1 DEF Inv, WorkerInv
  <2>2. /\ CollectorWindows \in Nat /\ CollectorReadings \in Nat
        /\ MeterReadings \in Nat /\ MeterEnergy \in Nat
    BY <1>1, FigureTypes DEF Inv
  <2>3. FiguresFit(0, 0, 0, 0)
    BY <1>1, <2>1, OwedAt, FiguresTold DEF Inv, Due, Busy
  <2>4. /\ CollectorWindows + 0 = CollectorWindows /\ CollectorReadings + 0 = CollectorReadings
        /\ MeterReadings + 0 = MeterReadings /\ MeterEnergy + 0 = MeterEnergy
    BY <2>2
  <2> QED BY <2>3, <2>4 DEF FiguresFit, FiguresAgree
<1> QED BY <1>1, Invariance, PTL

\* Whatever the messages were, a page drawn while the worker goes on misses of a row
\* the readings of at most one window and, unless the worker died, shows no fewer
\* windows in its rows than in its caption.  While all messages are regular windows
\* no run of the script fails, by a count of zero or by a point that cannot be
\* grouped, and no average is too high (the script, and the entries that
\* kafka_worker changes meanwhile).
THEOREM PagesHold == Spec => []PageHolds
<1>1. ASSUME Inv PROVE PageHolds
  <2>1. /\ TypeOK /\ TableFits /\ TableComplete /\ (AllRegular => script # "failed")
        /\ \A c \in Collectors : RowFits(c)
        /\ \A m \in Meters : AverageFits(m)
    BY <1>1 DEF Inv, PageInv
  <2>2. script = "averages" =>
            SumFunction([c \in copied.collectors |-> page.rows[c].windows])
                >= page.windows - (IF Died THEN 1 ELSE 0)
    <3> SUFFICES ASSUME script = "averages"
                 PROVE  SumFunction([c \in copied.collectors |-> page.rows[c].windows])
                            >= page.windows - (IF Died THEN 1 ELSE 0)
      OBVIOUS
    <3>1. \A c \in copied.collectors : Drawn(c) = page.rows[c].windows
      BY <2>1 DEF TableComplete, Drawn
    <3>2. [c \in copied.collectors |-> Drawn(c)]
              = [c \in copied.collectors |-> page.rows[c].windows]
      BY <3>1
    <3>3. SumFunction([c \in copied.collectors |-> Drawn(c)])
              >= page.windows - (IF Died THEN 1 ELSE 0)
      BY <2>1 DEF TableFits, Drawing
    <3> QED BY <3>2, <3>3
  <2> QED BY <2>1, <2>2 DEF PageHolds, RowFits, AverageFits
<1> QED BY <1>1, Invariance, PTL
=============================================================================
