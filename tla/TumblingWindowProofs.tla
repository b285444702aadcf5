------------------------ MODULE TumblingWindowProofs ------------------------
(***************************************************************************)
(* The Go window loses no reading and counts none twice, for any number of *)
(* producers, meters and readings and any window sizes.                    *)
(***************************************************************************)
EXTENDS TumblingWindow, SetProofs, TLAPS, FiniteSetTheorems

-----------------------------------------------------------------------------
(* Windows and flushes *)

LEMMA WithReadingType ==
    ASSUME NEW w \in Window, NEW r \in Reading
    PROVE  /\ WithReading(w, r) \in Window
           /\ WithReading(w, r).readings = w.readings \cup {r}
           /\ WithReading(w, r).count = w.count + 1
<1> DEFINE acc == IF w.metrics[r.meter] = None THEN NewAccumulator(r)
                                               ELSE w.metrics[r.meter]
<1>1. /\ r.meter \in Meters /\ r.kwh \in Int /\ r.ts \in Nat
      /\ w.metrics \in [Meters -> Accumulator \cup {None}]
      /\ w.count \in Nat /\ w.readings \subseteq Reading /\ w.start \in Nat
  <2>1. r.meter \in Meters /\ r.kwh \in Kwh /\ r.ts \in 0 .. MaxClock
    BY DEF Reading
  <2>2. w.metrics \in Metrics /\ w.count \in Nat /\ w.readings \subseteq Reading
        /\ w.start \in Nat
    BY DEF Window
  <2>3. r.kwh \in Int
    BY <2>1, NumbersAssumption
  <2>4. r.ts \in Nat
    BY <2>1, NumbersAssumption
  <2> QED BY <2>1, <2>2, <2>3, <2>4 DEF Metrics
<1>2. NewAccumulator(r) \in Accumulator
  BY <1>1 DEF NewAccumulator, Accumulator
<1>3. acc \in Accumulator
  BY <1>1, <1>2
<1> HIDE DEF acc
<1>4. Accumulated(acc, r) \in Accumulator
  BY <1>1, <1>3 DEF Accumulated, Accumulator
<1>5. [w.metrics EXCEPT ![r.meter] = Accumulated(acc, r)] \in Metrics
  BY <1>1, <1>4 DEF Metrics
<1>6. WithReading(w, r) =
        [start |-> w.start,
         metrics |-> [w.metrics EXCEPT ![r.meter] = Accumulated(acc, r)],
         count |-> w.count + 1, readings |-> w.readings \cup {r}]
  BY DEF WithReading, acc
<1> QED BY <1>1, <1>5, <1>6 DEF Window

LEMMA NewWindowType ==
    ASSUME clock \in Nat
    PROVE  NewWindow \in Window /\ NewWindow.readings = {} /\ NewWindow.count = 0
  BY DEF NewWindow, Window, Metrics

\* A flush either finds an empty window and leaves everything as it is, or makes
\* one batch of all the readings and starts an empty window.
LEMMA FlushCases ==
    ASSUME NEW w \in Window, clock \in Nat, inflight \subseteq Batch, FlushLocked(w)
    PROVE  /\ window' \in Window /\ inflight' \subseteq Batch
           /\ w.count = 0 => window' = w /\ inflight' = inflight
           /\ w.count # 0 => /\ window'.readings = {} /\ window'.count = 0
                             /\ Aggregated(w).readings = w.readings
                             /\ inflight' = inflight \cup {Aggregated(w)}
<1>1. Aggregated(w) \in Batch /\ Aggregated(w).readings = w.readings
  BY DEF Aggregated, Window, Batch
<1>2. CASE w.count = 0
  BY <1>2 DEF FlushLocked
<1>3. CASE w.count # 0
  <2>1. window' = NewWindow /\ inflight' = inflight \cup {Aggregated(w)}
    BY <1>3 DEF FlushLocked
  <2> QED BY <1>1, <1>3, <2>1, NewWindowType
<1> QED BY <1>2, <1>3

-----------------------------------------------------------------------------
(* Types *)

\* What GenerateReading makes pending.
LEMMA GeneratedIsReading ==
    ASSUME TypeOK, NEW p \in Producers, GenerateReading(p)
    PROVE  \E r \in Reading : /\ r.by = p /\ r.seq = made[p] + 1
                              /\ r.ts = clock /\ r.meter \in Reads[p]
                              /\ ready' = [ready EXCEPT ![p] = r]
<1>1. PICK m \in Reads[p], k \in Kwh :
        ready' = [ready EXCEPT ![p] =
          [by |-> p, seq |-> made[p] + 1, meter |-> m, ts |-> clock, kwh |-> k]]
  BY DEF GenerateReading
<1>2. m \in Meters
  BY ReadsAssumption
<1>3. made[p] \in 0 .. MaxReadings /\ made[p] < MaxReadings
  BY DEF GenerateReading, TypeOK
<1>4. made[p] + 1 \in 1 .. MaxReadings
  BY <1>3, NumbersAssumption
<1>5. [by |-> p, seq |-> made[p] + 1, meter |-> m, ts |-> clock, kwh |-> k] \in Reading
  BY <1>2, <1>4 DEF TypeOK, Reading
<1> QED BY <1>1, <1>5

\* TypeOK holds in every reachable state.
THEOREM TypeCorrect == Spec => []TypeOK
<1> USE NumbersAssumption
<1>1. Init => TypeOK
  <2> SUFFICES ASSUME Init PROVE TypeOK
    OBVIOUS
  <2>1. clock \in Nat /\ window = NewWindow
    BY DEF Init
  <2>2. window \in Window
    BY <2>1, NewWindowType
  <2>3. made \in [Producers -> 0 .. MaxReadings] /\ clock \in 0 .. MaxClock
    BY DEF Init
  <2> QED BY <2>2, <2>3 DEF Init, TypeOK
<1>2. TypeOK /\ [Next]_vars => TypeOK'
  <2> SUFFICES ASSUME TypeOK, [Next]_vars PROVE TypeOK'
    OBVIOUS
  <2> USE DEF sources, threads
  <2>0. clock \in Nat /\ window \in Window /\ inflight \subseteq Batch
    BY DEF TypeOK
  <2>1. CASE Tick
    BY <2>1 DEF Tick, TypeOK
  <2>2. ASSUME NEW p \in Producers, GenerateReading(p) PROVE TypeOK'
    <3>1. PICK r \in Reading : ready' = [ready EXCEPT ![p] = r]
      BY <2>2, GeneratedIsReading
    <3>2. ready' \in [Producers -> Reading \cup {None}]
      BY <3>1 DEF TypeOK
    <3>3. made' \in [Producers -> 0 .. MaxReadings]
      BY <2>2 DEF GenerateReading, TypeOK
    <3> QED BY <2>2, <3>2, <3>3 DEF GenerateReading, TypeOK
  <2>3. ASSUME NEW p \in Producers, Add(p) PROVE TypeOK'
    <3> DEFINE w == WithReading(window, ready[p])
    <3>1. w \in Window
      BY <2>0, <2>3, WithReadingType DEF Add, TypeOK
    <3>2. /\ IF Full(w) THEN FlushLocked(w) ELSE window' = w /\ UNCHANGED inflight
          /\ ready' = [ready EXCEPT ![p] = None]
          /\ UNCHANGED <<clock, made, delivered, threads>>
      BY <2>3 DEF Add
    <3> HIDE DEF w
    <3>3. window' \in Window /\ inflight' \subseteq Batch
      BY <2>0, <3>1, <3>2, FlushCases
    <3> QED BY <3>2, <3>3 DEF TypeOK
  <2>4. CASE FlusherWakes \/ FlusherExits \/ StopSignals
    BY <2>4 DEF FlusherWakes, FlusherExits, StopSignals, TypeOK
  <2>5. CASE FlusherFlushes \/ Flush \/ StopFlushes
    <3>1. FlushLocked(window)
      BY <2>5 DEF FlusherFlushes, Flush, StopFlushes
    <3>2. window' \in Window /\ inflight' \subseteq Batch
      BY <2>0, <3>1, FlushCases
    <3> QED BY <2>5, <3>2 DEF FlusherFlushes, Flush, StopFlushes, TypeOK
  <2>6. ASSUME NEW b \in inflight, Deliver(b) PROVE TypeOK'
    BY <2>6 DEF Deliver, TypeOK
  <2>7. CASE UNCHANGED vars
    BY <2>7 DEF vars, TypeOK
  <2> QED BY <2>1, <2>2, <2>3, <2>4, <2>5, <2>6, <2>7 DEF Next
<1> QED BY <1>1, <1>2, PTL DEF Spec

-----------------------------------------------------------------------------
(* Every reading is numbered, and known in one place *)

\* A producer's pending reading is its latest one.
PendingIsLatest ==
    \A p \in Producers :
        ready[p] # None => ready[p].by = p /\ ready[p].seq = made[p]

\* Added readings were generated, and are not pending any more.
AddedIsOld ==
    \A r \in Added : /\ r.seq <= made[r.by]
                     /\ ready[r.by] # None => r.seq < made[r.by]

\* Every generated reading that is not pending was added.
OldIsAdded ==
    \A p \in Producers : \A n \in 1 .. made[p] :
        (ready[p] = None \/ n < made[p]) => \E r \in Added : r.by = p /\ r.seq = n

\* Readings R of a window and the batches in flight, I, and delivered, D, share
\* no reading, and no batch is empty.
Apart(R, I, D) ==
    /\ \A a, b \in I \cup D : a # b => a.readings \cap b.readings = {}
    /\ \A b \in I \cup D : b.readings # {} /\ b.readings \cap R = {}
    /\ I \cap D = {}

\* An empty window is one without readings.
CountsReadings == window.count = 0 <=> window.readings = {}

Numbered == PendingIsLatest /\ AddedIsOld /\ OldIsAdded

IInv == TypeOK /\ Numbered /\ CountsReadings /\ Apart(window.readings, inflight, delivered)

\* A flush of w moves the readings of w, and loses and doubles none.
LEMMA FlushMoves ==
    ASSUME NEW w \in Window, clock \in Nat, inflight \subseteq Batch, FlushLocked(w),
           UNCHANGED delivered, w.count = 0 <=> w.readings = {},
           Apart(w.readings, inflight, delivered)
    PROVE  /\ Added' = w.readings \cup UNION {b.readings : b \in Batches}
           /\ CountsReadings'
           /\ Apart(window'.readings, inflight', delivered')
<1>1. CASE w.count = 0
  <2>1. window' = w /\ inflight' = inflight
    BY <1>1, FlushCases
  <2> QED BY <2>1 DEF Added, Batches, CountsReadings
<1>2. CASE w.count # 0
  <2> DEFINE a == Aggregated(w)
  <2>1. /\ window'.readings = {} /\ window'.count = 0 /\ a.readings = w.readings
        /\ inflight' = inflight \cup {a}
    BY <1>2, FlushCases
  <2>2. w.readings # {}
    BY <1>2
  <2> HIDE DEF a
  <2>3. Added' = w.readings \cup UNION {b.readings : b \in Batches}
    <3>1. {b.readings : b \in Batches'} = {b.readings : b \in Batches} \cup {w.readings}
      BY <2>1 DEF Batches
    <3> QED BY <2>1, <3>1 DEF Added
  <2>4. Apart({}, inflight \cup {a}, delivered)
    BY <2>1, <2>2 DEF Apart
  <2> QED BY <2>1, <2>3, <2>4 DEF CountsReadings
<1> QED BY <1>1, <1>2

\* Add takes a reading nobody has seen.
LEMMA PendingIsNew ==
    ASSUME TypeOK, PendingIsLatest, AddedIsOld, NEW p \in Producers, ready[p] # None
    PROVE  /\ ready[p] \in Reading /\ ready[p] \notin Added
           /\ ready[p].by = p /\ ready[p].seq = made[p]
<1>1. ready[p] \in Reading /\ ready[p].by = p /\ ready[p].seq = made[p]
  BY DEF TypeOK, PendingIsLatest
<1>2. made[p] \in Nat
  BY NumbersAssumption DEF TypeOK
<1> QED BY <1>1, <1>2 DEF AddedIsOld

\* What Add(p) does to the window before any flush.
LEMMA AddMakes ==
    ASSUME IInv, NEW p \in Producers, ready[p] # None
    PROVE  LET w == WithReading(window, ready[p])
           IN  /\ w \in Window /\ w.count # 0
               /\ w.readings = window.readings \cup {ready[p]}
               /\ Apart(w.readings, inflight, delivered)
<1> DEFINE w == WithReading(window, ready[p])
<1>1. ready[p] \in Reading /\ ready[p] \notin Added
  BY PendingIsNew DEF IInv, Numbered
<1>2. /\ w \in Window /\ w.count = window.count + 1
      /\ w.readings = window.readings \cup {ready[p]}
  BY <1>1, WithReadingType DEF IInv, TypeOK
<1>3. window.count \in Nat
  BY DEF IInv, TypeOK, Window
<1> HIDE DEF w
<1>4. \A b \in inflight \cup delivered : ready[p] \notin b.readings
  BY <1>1 DEF Added, Batches
<1>5. Apart(w.readings, inflight, delivered)
  BY <1>2, <1>4 DEF IInv, Apart
<1> QED BY <1>2, <1>3, <1>5 DEF w

\* Add(p), with or without a flush, adds the pending reading and nothing else.
LEMMA AddAdds ==
    ASSUME IInv, NEW p \in Producers, Add(p)
    PROVE  /\ Added' = Added \cup {ready[p]}
           /\ CountsReadings'
           /\ Apart(window'.readings, inflight', delivered')
<1> DEFINE w == WithReading(window, ready[p])
<1>1. /\ w \in Window /\ w.count # 0 /\ w.readings = window.readings \cup {ready[p]}
      /\ Apart(w.readings, inflight, delivered)
  BY AddMakes DEF Add
<1>2. /\ IF Full(w) THEN FlushLocked(w) ELSE window' = w /\ UNCHANGED inflight
      /\ UNCHANGED delivered
  BY DEF Add
<1>3. clock \in Nat /\ inflight \subseteq Batch
  BY NumbersAssumption DEF IInv, TypeOK
<1> HIDE DEF w
<1>4. Added \cup {ready[p]} = w.readings \cup UNION {b.readings : b \in Batches}
  BY <1>1 DEF Added
<1>5. CASE Full(w)
  BY <1>1, <1>2, <1>3, <1>4, <1>5, FlushMoves
<1>6. CASE ~Full(w)
  BY <1>1, <1>2, <1>4, <1>6 DEF Added, Batches, CountsReadings
<1> QED BY <1>5, <1>6

LEMMA NumberedKept ==
    ASSUME Numbered, Added' = Added, UNCHANGED <<made, ready>>
    PROVE  Numbered'
  BY DEF Numbered, PendingIsLatest, AddedIsOld, OldIsAdded

LEMMA Step == IInv /\ TypeOK' /\ [Next]_vars => IInv'
<1> SUFFICES ASSUME IInv, TypeOK', [Next]_vars PROVE IInv'
  OBVIOUS
<1> USE DEF sources, threads
<1>1. CASE UNCHANGED <<made, ready, window, inflight, delivered>>
  <2>1. Added' = Added
    BY <1>1 DEF Added, Batches
  <2> QED BY <1>1, <2>1, NumberedKept DEF IInv, CountsReadings
<1>2. ASSUME NEW p \in Producers, GenerateReading(p) PROVE IInv'
  <2>1. /\ ready[p] = None /\ made[p] \in Nat /\ made' = [made EXCEPT ![p] = made[p] + 1]
        /\ UNCHANGED <<window, inflight, delivered>> /\ Added' = Added
    BY <1>2, NumbersAssumption DEF GenerateReading, Added, Batches, IInv, TypeOK
  <2>2. PICK r0 \in Reading : /\ r0.by = p /\ r0.seq = made[p] + 1
                             /\ ready' = [ready EXCEPT ![p] = r0]
    BY <1>2, GeneratedIsReading DEF IInv
  <2>3. /\ made'[p] = made[p] + 1
        /\ ready'[p] # None /\ ready'[p].by = p /\ ready'[p].seq = made[p] + 1
        /\ \A q \in Producers : q # p => made'[q] = made[q] /\ ready'[q] = ready[q]
    BY <2>1, <2>2, NoneAssumption DEF IInv, TypeOK
  <2>4. PendingIsLatest'
    BY <2>3 DEF IInv, Numbered, PendingIsLatest
  <2>5. AddedIsOld'
    <3> SUFFICES ASSUME NEW r \in Added
                 PROVE  /\ r.seq <= made'[r.by]
                        /\ ready'[r.by] # None => r.seq < made'[r.by]
      BY <2>1 DEF AddedIsOld
    <3>1. r.by \in Producers /\ r.seq \in Nat
      <4>1. r \in Reading
        BY DEF Added, Batches, IInv, TypeOK, Window, Batch
      <4> QED BY <4>1 DEF Reading
    <3>2. r.seq <= made[r.by] /\ (ready[r.by] # None => r.seq < made[r.by])
      BY DEF IInv, Numbered, AddedIsOld
    <3> QED BY <2>1, <2>3, <3>1, <3>2
  <2>6. OldIsAdded'
    <3> SUFFICES ASSUME NEW q \in Producers, NEW n \in 1 .. made'[q],
                        ready'[q] = None \/ n < made'[q]
                 PROVE  \E r \in Added : r.by = q /\ r.seq = n
      BY <2>1 DEF OldIsAdded
    <3>1. CASE q # p
      BY <2>3, <3>1 DEF IInv, Numbered, OldIsAdded
    <3>2. CASE q = p
      <4>1. n \in 1 .. made[p]
        BY <2>1, <2>3, <3>2
      <4> QED BY <2>1, <3>2, <4>1 DEF IInv, Numbered, OldIsAdded
    <3> QED BY <3>1, <3>2
  <2> QED BY <2>1, <2>4, <2>5, <2>6 DEF IInv, Numbered, CountsReadings
<1>3. ASSUME NEW p \in Producers, Add(p) PROVE IInv'
  <2>1. /\ Added' = Added \cup {ready[p]} /\ CountsReadings'
        /\ Apart(window'.readings, inflight', delivered')
    BY <1>3, AddAdds
  <2>2. /\ ready[p] # None /\ UNCHANGED made
        /\ \A q \in Producers : ready'[q] = IF q = p THEN None ELSE ready[q]
    BY <1>3 DEF Add, IInv, TypeOK
  <2>3. /\ ready[p].by = p /\ ready[p].seq = made[p] /\ made[p] \in Nat
    BY <2>2, PendingIsNew, NumbersAssumption DEF IInv, Numbered, TypeOK
  <2>4. PendingIsLatest'
    BY <2>2 DEF IInv, Numbered, PendingIsLatest
  <2>5. AddedIsOld'
    <3> SUFFICES ASSUME NEW r \in Added'
                 PROVE  /\ r.seq <= made[r.by]
                        /\ ready'[r.by] # None => r.seq < made[r.by]
      BY <2>2 DEF AddedIsOld
    <3>1. CASE r = ready[p]
      BY <2>2, <2>3, <3>1
    <3>2. CASE r \in Added
      <4>1. r.by \in Producers
        BY <3>2 DEF Added, Batches, IInv, TypeOK, Window, Batch, Reading
      <4> QED BY <2>2, <3>2, <4>1 DEF IInv, Numbered, AddedIsOld
    <3> QED BY <2>1, <3>1, <3>2
  <2>6. OldIsAdded'
    <3> SUFFICES ASSUME NEW q \in Producers, NEW n \in 1 .. made[q],
                        ready'[q] = None \/ n < made[q]
                 PROVE  \E r \in Added' : r.by = q /\ r.seq = n
      BY <2>2 DEF OldIsAdded
    <3>1. CASE q = p /\ n = made[p]
      BY <2>1, <2>3, <3>1
    <3>2. CASE ~(q = p /\ n = made[p])
      <4>1. ready[q] = None \/ n < made[q]
        BY <2>2, <2>3, <3>2
      <4> QED BY <2>1, <4>1 DEF IInv, Numbered, OldIsAdded
    <3> QED BY <3>1, <3>2
  <2> QED BY <2>1, <2>4, <2>5, <2>6 DEF IInv, Numbered
<1>4. CASE FlusherFlushes \/ Flush \/ StopFlushes
  <2>1. FlushLocked(window) /\ UNCHANGED <<made, ready, delivered>>
    BY <1>4 DEF FlusherFlushes, Flush, StopFlushes
  <2>2. window \in Window /\ clock \in Nat /\ inflight \subseteq Batch
    BY NumbersAssumption DEF IInv, TypeOK
  <2>3. /\ Added' = Added /\ CountsReadings'
        /\ Apart(window'.readings, inflight', delivered')
    BY <2>1, <2>2, FlushMoves DEF IInv, CountsReadings, Added
  <2> QED BY <2>1, <2>3, NumberedKept DEF IInv
<1>5. ASSUME NEW b \in inflight, Deliver(b) PROVE IInv'
  <2>1. /\ inflight' = inflight \ {b} /\ delivered' = delivered \cup {b}
        /\ UNCHANGED <<made, ready, window>>
    BY <1>5 DEF Deliver
  <2>2. Batches' = Batches
    BY <2>1 DEF Batches
  <2>3. Added' = Added
    BY <2>1, <2>2 DEF Added
  <2>4. Apart(window.readings, inflight', delivered')
    BY <2>1 DEF IInv, Apart
  <2> QED BY <2>1, <2>3, <2>4, NumberedKept DEF IInv, CountsReadings
<1> QED BY <1>1, <1>2, <1>3, <1>4, <1>5
        DEF Next, Tick, FlusherWakes, FlusherExits, StopSignals, vars

LEMMA Invariance == Spec => []IInv
<1>1. Init => Numbered /\ CountsReadings /\ Apart(window.readings, inflight, delivered)
  <2> SUFFICES ASSUME Init
               PROVE  Numbered /\ CountsReadings
                      /\ Apart(window.readings, inflight, delivered)
    OBVIOUS
  <2>1. window.readings = {} /\ window.count = 0 /\ inflight = {} /\ delivered = {}
    BY DEF Init, NewWindow
  <2>2. Added = {}
    BY <2>1 DEF Added, Batches
  <2> QED BY <2>1, <2>2 DEF Init, Numbered, PendingIsLatest, AddedIsOld, OldIsAdded,
                            CountsReadings, Apart
<1> QED BY <1>1, Step, TypeCorrect, PTL DEF Spec, IInv

\* No reading is lost: whatever the interleaving of adds, ticks, flushes and
\* Stop, the readings that were generated and are not pending are all there.
LEMMA LosesNothing == Spec => []NothingLost
<1>1. IInv => NothingLost
  <2> SUFFICES ASSUME IInv, NEW p \in Producers
               PROVE  {r.seq : r \in {x \in Added : x.by = p}}
                        = {n \in 1 .. made[p] : ready[p] = None \/ n < made[p]}
    BY DEF NothingLost
  <2>1. ASSUME NEW r \in Added, r.by = p
        PROVE  r.seq \in 1 .. made[p] /\ (ready[p] = None \/ r.seq < made[p])
    <3>1. r \in Reading
      BY DEF Added, Batches, IInv, TypeOK, Window, Batch
    <3>2. r.seq \in 1 .. MaxReadings
      BY <3>1 DEF Reading
    <3>3. made[p] \in 0 .. MaxReadings
      BY DEF IInv, TypeOK
    <3>4. r.seq <= made[p] /\ (ready[p] = None \/ r.seq < made[p])
      BY <2>1 DEF IInv, Numbered, AddedIsOld
    <3> QED BY <3>2, <3>3, <3>4, NumbersAssumption
  <2>2. ASSUME NEW n \in 1 .. made[p], ready[p] = None \/ n < made[p]
        PROVE  \E r \in Added : r.by = p /\ r.seq = n
    BY <2>2 DEF IInv, Numbered, OldIsAdded
  <2> QED BY <2>1, <2>2
<1> QED BY <1>1, Invariance, PTL

\* No reading is in two batches, and none is both in a batch and in the window.
LEMMA CountsOnce == Spec => []EachReadingOnce
<1>1. IInv => EachReadingOnce
  BY DEF IInv, Apart, EachReadingOnce, Promise!EachOnce
<1> QED BY <1>1, Invariance, PTL

\* Every reading that Add has taken is in one place, and none has gone.
THEOREM CountsExactlyOnce == Spec => []ExactlyOnce
  BY LosesNothing, CountsOnce, PTL DEF ExactlyOnce

-----------------------------------------------------------------------------
(* The window implements ReadingBatches *)

\* What the promise sees: the batches in flight and delivered as reading sets.
Sealed == {b.readings : b \in inflight}
Out    == {b.readings : b \in delivered}

LEMMA KnownIsAdded == Added = window.readings \cup (UNION Sealed) \cup (UNION Out)
  BY DEF Added, Batches, Sealed, Out

LEMMA PromiseStep == IInv /\ [Next]_vars => [Promise!Next]_(Promise!vars)
<1> SUFFICES ASSUME IInv, [Next]_vars PROVE [Promise!Next]_(Promise!vars)
  OBVIOUS
<1> USE DEF sources, threads
<1>1. CASE UNCHANGED <<window, inflight, delivered>>
  BY <1>1 DEF Promise!vars
<1>2. ASSUME NEW p \in Producers, Add(p) PROVE [Promise!Next]_(Promise!vars)
  <2> DEFINE w == WithReading(window, ready[p])
  <2>0. PICK r \in Reading : r = ready[p]
    BY <1>2, PendingIsNew DEF Add, IInv, Numbered
  <2>1. /\ w \in Window /\ w.count # 0 /\ w.readings = window.readings \cup {r}
    BY <1>2, <2>0, AddMakes DEF Add
  <2>2. r \in Reading /\ r \notin Added
    BY <1>2, <2>0, PendingIsNew DEF Add, IInv, Numbered
  <2>3. /\ IF Full(w) THEN FlushLocked(w) ELSE window' = w /\ UNCHANGED inflight
        /\ UNCHANGED delivered
    BY <1>2 DEF Add
  <2>4. clock \in Nat /\ inflight \subseteq Batch
    BY NumbersAssumption DEF IInv, TypeOK
  <2> HIDE DEF w
  <2>5. CASE Full(w)
    <3>1. /\ window'.readings = {} /\ Aggregated(w).readings = w.readings
          /\ inflight' = inflight \cup {Aggregated(w)}
      BY <2>1, <2>3, <2>4, <2>5, FlushCases
    <3>2. Sealed' = Sealed \cup {window.readings \cup {r}}
      BY <2>1, <3>1 DEF Sealed
    <3>3. Promise!AcceptAndSeal(r)
      BY <2>2, <2>3, <3>1, <3>2, KnownIsAdded
         DEF Promise!AcceptAndSeal, Promise!Known, Sealed, Out
    <3> QED BY <2>2, <3>3 DEF Promise!Next
  <2>6. CASE ~Full(w)
    <3>1. Promise!Accept(r)
      BY <2>1, <2>2, <2>3, <2>6, KnownIsAdded
         DEF Promise!Accept, Promise!Known, Sealed, Out
    <3> QED BY <2>2, <3>1 DEF Promise!Next
  <2> QED BY <2>5, <2>6
<1>3. CASE FlusherFlushes \/ Flush \/ StopFlushes
  <2>1. FlushLocked(window) /\ UNCHANGED delivered
    BY <1>3 DEF FlusherFlushes, Flush, StopFlushes
  <2>2. window \in Window /\ clock \in Nat /\ inflight \subseteq Batch
    BY NumbersAssumption DEF IInv, TypeOK
  <2>3. CASE window.count = 0
    BY <1>1, <2>1, <2>2, <2>3, FlushCases
  <2>4. CASE window.count # 0
    <3>1. /\ window'.readings = {} /\ Aggregated(window).readings = window.readings
          /\ inflight' = inflight \cup {Aggregated(window)}
      BY <2>1, <2>2, <2>4, FlushCases
    <3>2. Sealed' = Sealed \cup {window.readings}
      BY <3>1 DEF Sealed
    <3>3. Promise!Seal
      BY <2>1, <2>4, <3>1, <3>2 DEF IInv, CountsReadings, Promise!Seal, Sealed
    <3> QED BY <3>3 DEF Promise!Next
  <2> QED BY <2>3, <2>4
<1>4. ASSUME NEW b \in inflight, Deliver(b) PROVE [Promise!Next]_(Promise!vars)
  <2>1. /\ inflight' = inflight \ {b} /\ delivered' = delivered \cup {b}
        /\ UNCHANGED window
    BY <1>4 DEF Deliver
  <2>2. \A a \in inflight : a # b => a.readings # b.readings
    BY DEF IInv, Apart
  <2>3. Sealed' = Sealed \ {b.readings}
    BY <2>1, <2>2 DEF Sealed
  <2>4. Out' = Out \cup {b.readings}
    BY <2>1 DEF Out
  <2>5. b.readings \in Sealed
    BY DEF Sealed
  <2>6. Promise!Deliver(b.readings)
    BY <2>1, <2>3, <2>4, <2>5 DEF Promise!Deliver, Sealed, Out
  <2> QED BY <2>5, <2>6 DEF Promise!Next, Sealed
<1> QED BY <1>1, <1>2, <1>3, <1>4
        DEF Next, Tick, GenerateReading, FlusherWakes, FlusherExits, StopSignals, vars

\* The Go window implements exactly-once batches: seen as sets of readings, every
\* one of its behaviours is a behaviour of ReadingBatches.
THEOREM Implementation == Spec => ImplementsBatches
<1>1. Init => Promise!Init
  BY DEF Init, NewWindow, Promise!Init
<1> QED BY <1>1, PromiseStep, Invariance, PTL DEF Spec, ImplementsBatches, Promise!Spec

-----------------------------------------------------------------------------
(* The windows of batches *)

\* Of each producer at most one reading is from before start.
OneLate(R, start) ==
    \A r, s \in R : r.by = s.by /\ r.ts < start /\ s.ts < start => r = s

\* Window w may be open: it began after the batches, and holds no reading from
\* the future and no more than it may.
Open(w) ==
    /\ w.start <= clock
    /\ \A r \in w.readings : r.ts <= clock
    /\ OneLate(w.readings, w.start)
    /\ \A b \in Batches : b.end <= w.start
    /\ CountWindow > 0 => w.count <= CountWindow

Sound(b) ==
    /\ b.start <= b.end
    /\ \A r \in b.readings : r.ts <= b.end
    /\ OneLate(b.readings, b.start)
    /\ CountWindow > 0 => b.count \in 1 .. CountWindow

Sequenced == \A a, b \in Batches : a # b => (a.end <= b.start \/ b.end <= a.start)

\* A producer that holds back a reading from before the window has added none of
\* its kind: it made the one it holds back when the window had not begun.
HeldBack(w, held) ==
    /\ \A p \in Producers : held[p] # None => held[p].by = p /\ held[p].ts <= clock
    /\ \A r \in w.readings :
          r.ts < w.start => held[r.by] = None \/ held[r.by].ts >= w.start

WInv == /\ TypeOK /\ Open(window) /\ HeldBack(window, ready) /\ Sequenced
        /\ \A b \in Batches : Sound(b)
        /\ CountWindow > 0 => window.count < CountWindow

\* A flush of w leaves an open window and batches that are sound and in sequence.
LEMMA FlushSound ==
    ASSUME TypeOK, NEW w \in Window, FlushLocked(w), UNCHANGED <<clock, delivered>>,
           Open(w), Sequenced, \A b \in Batches : Sound(b)
    PROVE  /\ Open(window)' /\ Sequenced' /\ \A b \in Batches' : Sound(b)'
           /\ CountWindow > 0 => window'.count < CountWindow
           /\ window' = w \/ window'.readings = {}
<1>1. /\ clock \in Nat /\ inflight \subseteq Batch /\ CountWindow \in Nat
      /\ w.start \in Nat /\ w.count \in Nat /\ w.readings \subseteq Reading
  BY NumbersAssumption DEF TypeOK, Window
<1>2. \A b \in Batches : b.start \in Nat /\ b.end \in Nat
  BY DEF TypeOK, Batches, Batch
<1>3. CASE w.count = 0
  <2>1. window' = w /\ Batches' = Batches
    BY <1>3 DEF FlushLocked, Batches
  <2> QED BY <1>1, <1>3, <2>1 DEF Open, Sequenced, Sound
<1>4. CASE w.count # 0
  <2> DEFINE a == Aggregated(w)
  <2>1. /\ window'.start = clock /\ window'.count = 0 /\ window'.readings = {}
        /\ Batches' = Batches \cup {a}
        /\ a.start = w.start /\ a.end = clock /\ a.count = w.count
        /\ a.readings = w.readings
    BY <1>4 DEF FlushLocked, NewWindow, Aggregated, Batches
  <2> HIDE DEF a
  <2>2. \A b \in Batches' : Sound(b)
    BY <1>1, <1>4, <2>1 DEF Open, Sound
  <2>3. \A b \in Batches' : Sound(b)'
    BY <2>2 DEF Sound, OneLate
  <2>4. \A b \in Batches' : b.end <= clock
    BY <1>1, <1>2, <2>1 DEF Open
  <2>5. Open(window)'
    BY <1>1, <2>1, <2>4 DEF Open, OneLate
  <2>6. Sequenced'
    BY <2>1 DEF Sequenced, Open
  <2> QED BY <1>1, <2>1, <2>3, <2>5, <2>6
<1> QED BY <1>3, <1>4

\* The window with the reading that Add(p) adds, before any flush.
LEMMA AddSound ==
    ASSUME WInv, NEW p \in Producers, Add(p)
    PROVE  LET w == WithReading(window, ready[p])
           IN  w \in Window /\ Open(w) /\ HeldBack(w, ready')
<1> DEFINE w == WithReading(window, ready[p])
<1>1. /\ ready[p] \in Reading /\ ready[p].by = p /\ ready[p].ts <= clock
      /\ ready[p] # None
  BY DEF WInv, TypeOK, HeldBack, Add
<1>2. /\ w \in Window /\ w.readings = window.readings \cup {ready[p]}
      /\ w.count = window.count + 1 /\ w.start = window.start
  BY <1>1, WithReadingType DEF WInv, TypeOK, WithReading
<1>3. /\ clock \in Nat /\ CountWindow \in Nat /\ window.count \in Nat
      /\ window.start \in Nat /\ window.readings \subseteq Reading
      /\ \A r \in Reading : r.by \in Producers /\ r.ts \in Nat
  BY NumbersAssumption DEF WInv, TypeOK, Window, Reading
<1> HIDE DEF w
<1>4. OneLate(w.readings, w.start)
  BY <1>1, <1>2, <1>3 DEF WInv, Open, OneLate, HeldBack
<1>5. Open(w)
  BY <1>1, <1>2, <1>3, <1>4 DEF WInv, Open
<1>6. \A q \in Producers : ready'[q] = IF q = p THEN None ELSE ready[q]
  BY DEF Add, WInv, TypeOK
<1>7. clock' = clock
  BY DEF Add
<1>8. HeldBack(w, ready')
  BY <1>1, <1>2, <1>3, <1>6, <1>7 DEF HeldBack, WInv
<1> QED BY <1>2, <1>5, <1>8 DEF w

LEMMA WStep == WInv /\ TypeOK' /\ [Next]_vars => WInv'
<1> SUFFICES ASSUME WInv, TypeOK', [Next]_vars PROVE WInv'
  OBVIOUS
<1> USE DEF sources, threads
<1>0. /\ clock \in Nat /\ clock' \in Nat /\ CountWindow \in Nat
      /\ window \in Window /\ window.start \in Nat
      /\ \A r \in window.readings : r \in Reading
      /\ \A r \in Reading : r.by \in Producers /\ r.ts \in Nat
  BY NumbersAssumption DEF WInv, TypeOK, Window, Reading
<1>1. CASE /\ UNCHANGED <<ready, window>> /\ Batches' = Batches
           /\ clock' = clock \/ clock' = clock + 1
  <2>1. Open(window)'
    BY <1>0, <1>1 DEF WInv, Open
  <2>2. HeldBack(window, ready)'
    <3>1. \A q \in Producers : ready[q] # None => ready[q] \in Reading
      BY DEF WInv, TypeOK
    <3> QED BY <1>0, <1>1, <3>1 DEF WInv, HeldBack
  <2> QED BY <1>1, <2>1, <2>2 DEF WInv, Sequenced, Sound
<1>2. ASSUME NEW p \in Producers, GenerateReading(p) PROVE WInv'
  <2>1. PICK r0 \in Reading : /\ r0.by = p /\ r0.ts = clock
                              /\ ready' = [ready EXCEPT ![p] = r0]
    BY <1>2, GeneratedIsReading DEF WInv
  <2>2. UNCHANGED <<clock, window>> /\ Batches' = Batches
    BY <1>2 DEF GenerateReading, Batches
  <2>3. \A q \in Producers : ready'[q] = IF q = p THEN r0 ELSE ready[q]
    BY <2>1 DEF WInv, TypeOK
  <2>4. HeldBack(window, ready)'
    BY <1>0, <2>1, <2>2, <2>3 DEF WInv, HeldBack, Open
  <2> QED BY <2>2, <2>4 DEF WInv, Open, Sequenced, Sound
<1>3. ASSUME NEW p \in Producers, Add(p) PROVE WInv'
  <2> DEFINE w == WithReading(window, ready[p])
  <2>1. w \in Window /\ Open(w) /\ HeldBack(w, ready')
    BY <1>3, AddSound
  <2>2. /\ IF Full(w) THEN FlushLocked(w) ELSE window' = w /\ UNCHANGED inflight
        /\ UNCHANGED <<clock, delivered>>
    BY <1>3 DEF Add
  <2> HIDE DEF w
  <2>3. CASE Full(w)
    <3>1. /\ Open(window)' /\ Sequenced' /\ \A b \in Batches' : Sound(b)'
          /\ CountWindow > 0 => window'.count < CountWindow
          /\ window' = w \/ window'.readings = {}
      BY <2>1, <2>2, <2>3, FlushSound DEF WInv
    <3>2. HeldBack(window, ready)'
      BY <2>1, <2>2, <3>1 DEF HeldBack
    <3> QED BY <3>1, <3>2 DEF WInv
  <2>4. CASE ~Full(w)
    <3>1. window' = w /\ Batches' = Batches /\ clock' = clock
      BY <2>2, <2>4 DEF Batches
    <3>2. CountWindow > 0 => w.count < CountWindow
      BY <1>0, <2>1, <2>4 DEF Full, Window
    <3>3. Open(window)' /\ HeldBack(window, ready)'
      BY <2>1, <3>1 DEF Open, HeldBack
    <3> QED BY <3>1, <3>2, <3>3 DEF WInv, Sequenced, Sound
  <2> QED BY <2>3, <2>4
<1>4. CASE FlusherFlushes \/ Flush \/ StopFlushes
  <2>1. FlushLocked(window) /\ UNCHANGED <<clock, ready, delivered>>
    BY <1>4 DEF FlusherFlushes, Flush, StopFlushes
  <2>2. /\ Open(window)' /\ Sequenced' /\ \A b \in Batches' : Sound(b)'
        /\ CountWindow > 0 => window'.count < CountWindow
        /\ window' = window \/ window'.readings = {}
    BY <1>0, <2>1, FlushSound DEF WInv
  <2>3. HeldBack(window, ready)'
    BY <2>1, <2>2 DEF WInv, HeldBack
  <2> QED BY <2>2, <2>3 DEF WInv
<1>5. ASSUME NEW b \in inflight, Deliver(b) PROVE WInv'
  <2>1. UNCHANGED <<clock, ready, window>> /\ Batches' = Batches
    BY <1>5 DEF Deliver, Batches
  <2> QED BY <1>1, <2>1
<1> QED BY <1>1, <1>2, <1>3, <1>4, <1>5
        DEF Next, Tick, FlusherWakes, FlusherExits, StopSignals, vars, Batches

\* A set of which any two elements are equal has at most one.
LEMMA AtMostOne ==
    ASSUME NEW S, \A r, s \in S : r = s
    PROVE  Cardinality(S) <= 1
<1>1. CASE S = {}
  BY <1>1, FS_EmptySet
<1>2. CASE S # {}
  <2>1. PICK x \in S : S = {x}
    BY <1>2
  <2> QED BY <2>1, FS_Singleton
<1> QED BY <1>1, <1>2

\* The windows of batches do not overlap, hold no reading from after their end
\* and at most one of each producer from before their start, and no more readings
\* than they may (Add, flushLocked): the timestamp of a reading is taken outside
\* the mutex, so it may be held back while the window turns over, but once only.
THEOREM WellFormed == Spec => []BatchesWellFormed
<1>1. Init => Open(window) /\ HeldBack(window, ready) /\ Sequenced
              /\ (\A b \in Batches : Sound(b))
              /\ (CountWindow > 0 => window.count < CountWindow)
  BY NumbersAssumption
     DEF Init, NewWindow, Batches, Open, HeldBack, Sequenced, OneLate
<1>2. WInv => BatchesWellFormed
  <2> SUFFICES ASSUME WInv PROVE BatchesWellFormed
    OBVIOUS
  <2>1. WindowsApart /\ CountBound
    BY DEF WInv, WindowsApart, CountBound, Open, Sequenced, Sound
  <2>2. ASSUME NEW b \in Batches, NEW p \in Producers
        PROVE  Cardinality({r \in b.readings : r.by = p /\ r.ts < b.start}) <= 1
    <3> DEFINE late == {r \in b.readings : r.by = p /\ r.ts < b.start}
    <3>1. \A r, s \in late : r = s
      BY <2>2 DEF WInv, Sound, OneLate
    <3> HIDE DEF late
    <3>2. Cardinality(late) <= 1
      BY <3>1, AtMostOne
    <3> QED BY <3>2 DEF late
  <2>3. AtMostOneLate
    BY <2>2 DEF WInv, AtMostOneLate, Sound
  <2> QED BY <2>1, <2>3 DEF BatchesWellFormed
<1> QED BY <1>1, <1>2, WStep, TypeCorrect, PTL DEF Spec, WInv

-----------------------------------------------------------------------------
(* The aggregates are exact *)

\* The accumulator of readings M of a meter, computed from scratch.
Stats(M) ==
    [count |-> Cardinality(M),
     sum   |-> SumFunctionOnSet([r \in M |-> r.kwh], M),
     min   |-> Min({r.kwh : r \in M}), max  |-> Max({r.kwh : r \in M}),
     first |-> Min({r.ts : r \in M}),  last |-> Max({r.ts : r \in M})]

Mine(R, m) == {r \in R : r.meter = m}

LEMMA AggregateIsStats ==
    ASSUME NEW R, NEW m
    PROVE  AggregateOf(R, m) = IF Mine(R, m) = {} THEN None ELSE Stats(Mine(R, m))
  BY DEF AggregateOf, Stats, Mine, SumFunction

LEMMA ReadingFields ==
    ASSUME NEW r \in Reading
    PROVE  r.kwh \in Int /\ r.ts \in Nat /\ r.meter \in Meters /\ r.by \in Producers
<1>1. /\ r.kwh \in Kwh /\ r.ts \in 0 .. MaxClock /\ r.meter \in Meters
      /\ r.by \in Producers
  BY DEF Reading
<1>2. r.kwh \in Int
  BY <1>1, NumbersAssumption
<1>3. r.ts \in Nat
  BY <1>1, NumbersAssumption
<1> QED BY <1>1, <1>2, <1>3

\* The values and the times of finitely many readings.
LEMMA ReadingValues ==
    ASSUME NEW M \in SUBSET Reading, IsFiniteSet(M)
    PROVE  /\ {r.kwh : r \in M} \in SUBSET Int /\ IsFiniteSet({r.kwh : r \in M})
           /\ {r.ts : r \in M} \in SUBSET Int /\ IsFiniteSet({r.ts : r \in M})
           /\ {r.ts : r \in M} \subseteq Nat
<1> DEFINE f == [r \in M |-> r.kwh]
           g == [r \in M |-> r.ts]
<1>1. IsFiniteSet({f[r] : r \in M}) /\ IsFiniteSet({g[r] : r \in M})
  <2> HIDE DEF f, g
  <2> QED BY FiniteImage
<1>2. {f[r] : r \in M} = {r.kwh : r \in M} /\ {g[r] : r \in M} = {r.ts : r \in M}
  OBVIOUS
<1>3. \A r \in M : r.kwh \in Int /\ r.ts \in Nat
  BY ReadingFields
<1>4. IsFiniteSet({r.kwh : r \in M}) /\ IsFiniteSet({r.ts : r \in M})
  BY <1>1, <1>2, Zenon
<1> HIDE DEF f, g
<1>5. /\ {r.kwh : r \in M} \in SUBSET Int /\ {r.ts : r \in M} \subseteq Nat
      /\ {r.ts : r \in M} \in SUBSET Int
  BY <1>3
<1> QED BY <1>4, <1>5

LEMMA StatsType ==
    ASSUME NEW M \in SUBSET Reading, IsFiniteSet(M), M # {}
    PROVE  Stats(M) \in Accumulator
<1> DEFINE K == {r.kwh : r \in M}
           T == {r.ts : r \in M}
           f == [r \in M |-> r.kwh]
<1>1. K # {} /\ T # {}
  OBVIOUS
<1>2. K \in SUBSET Int /\ T \in SUBSET Int /\ IsFiniteSet(K) /\ IsFiniteSet(T) /\ T \subseteq Nat
  BY ReadingValues
<1>3. \A r \in M : f[r] \in Int
  BY ReadingFields
<1>4. Stats(M) = [count |-> Cardinality(M), sum |-> SumFunctionOnSet(f, M),
                  min |-> Min(K), max |-> Max(K), first |-> Min(T), last |-> Max(T)]
  BY DEF Stats
<1> HIDE DEF K, T, f
<1>5. Min(K) \in K /\ Max(K) \in K /\ Min(T) \in T /\ Max(T) \in T
  <2>1. 0 \in Int
    OBVIOUS
  <2> QED BY <1>1, <1>2, <2>1, BoundsAdd
<1>6. Cardinality(M) \in Nat /\ SumFunctionOnSet(f, M) \in Int
  BY <1>3, FS_CardinalityType, SumType
<1>7. Min(K) \in Int /\ Max(K) \in Int /\ Min(T) \in Nat /\ Max(T) \in Nat
  BY <1>2, <1>5
<1> QED BY <1>4, <1>6, <1>7 DEF Accumulator

\* The first reading of a meter.
LEMMA StatsSingle ==
    ASSUME NEW r \in Reading
    PROVE  Stats({r}) = Accumulated(NewAccumulator(r), r)
<1> DEFINE f == [x \in {r} |-> x.kwh]
<1>1. r.kwh \in Int /\ r.ts \in Nat
  BY ReadingFields
<1>2. SumFunctionOnSet(f, {r}) = r.kwh
  <2>1. f[r] = r.kwh /\ \A x \in {} \cup {r} : f[x] \in Int
    BY <1>1
  <2> HIDE DEF f
  <2>2. SumFunctionOnSet(f, {} \cup {r}) = SumFunctionOnSet(f, {}) + f[r]
    BY <2>1, SumAdd, FS_EmptySet
  <2>3. {} \cup {r} = {r} /\ SumFunctionOnSet(f, {}) = 0
    BY SumEmpty
  <2> QED BY <1>1, <2>1, <2>2, <2>3
<1>3. Cardinality({r}) = 1
  BY FS_Singleton
<1>4. {x.kwh : x \in {r}} = {r.kwh} /\ {x.ts : x \in {r}} = {r.ts}
  OBVIOUS
<1>5. /\ Min({r.kwh}) = r.kwh /\ Max({r.kwh}) = r.kwh
      /\ Min({r.ts}) = r.ts /\ Max({r.ts}) = r.ts
  BY <1>1, BoundsSingle
<1>6. Stats({r}) = [count |-> 1, sum |-> r.kwh, min |-> r.kwh, max |-> r.kwh,
                    first |-> r.ts, last |-> r.ts]
  BY <1>2, <1>3, <1>4, <1>5 DEF Stats
<1>7. Accumulated(NewAccumulator(r), r) =
         [count |-> 0 + 1, sum |-> 0 + r.kwh, min |-> r.kwh, max |-> r.kwh,
          first |-> r.ts, last |-> r.ts]
  BY <1>1 DEF Accumulated, NewAccumulator
<1> QED BY <1>1, <1>6, <1>7

\* One reading more, no older than the others.
LEMMA StatsAdd ==
    ASSUME NEW M \in SUBSET Reading, IsFiniteSet(M), M # {}, NEW r \in Reading, r \notin M,
           \A x \in M : x.ts <= r.ts
    PROVE  Stats(M \cup {r}) = Accumulated(Stats(M), r)
<1> DEFINE N == M \cup {r}
           f == [x \in M |-> x.kwh]
           g == [x \in N |-> x.kwh]
           K == {x.kwh : x \in M}
           T == {x.ts : x \in M}
<1>1. r.kwh \in Int /\ r.ts \in Nat
  BY ReadingFields
<1>2. \A x \in N : x.kwh \in Int
  BY ReadingFields
<1>3. SumFunctionOnSet(g, N) = SumFunctionOnSet(f, M) + r.kwh
  <2>1. /\ \A x \in M : g[x] \in Int /\ f[x] \in Int /\ g[x] = f[x]
        /\ \A x \in M \cup {r} : g[x] \in Int
        /\ g[r] = r.kwh
    BY <1>2
  <2> HIDE DEF f, g
  <2>2. SumFunctionOnSet(g, M \cup {r}) = SumFunctionOnSet(g, M) + g[r]
    BY <2>1, SumAdd
  <2>3. SumFunctionOnSet(g, M) = SumFunctionOnSet(f, M)
    BY <2>1, SumSame
  <2> QED BY <2>1, <2>2, <2>3
<1>4. Cardinality(N) = Cardinality(M) + 1
  BY FS_AddElement
<1>5. {x.kwh : x \in N} = K \cup {r.kwh} /\ {x.ts : x \in N} = T \cup {r.ts}
  OBVIOUS
<1>6. K \in SUBSET Int /\ T \in SUBSET Int /\ IsFiniteSet(K) /\ IsFiniteSet(T)
  BY ReadingValues
<1>7. K # {} /\ T # {} /\ \A t \in T : t <= r.ts
  OBVIOUS
<1>8. Stats(N) = [count |-> Cardinality(M) + 1, sum |-> SumFunctionOnSet(f, M) + r.kwh,
                  min |-> Min(K \cup {r.kwh}), max |-> Max(K \cup {r.kwh}),
                  first |-> Min(T \cup {r.ts}), last |-> Max(T \cup {r.ts})]
  BY <1>3, <1>4, <1>5 DEF Stats
<1>9. Stats(M) = [count |-> Cardinality(M), sum |-> SumFunctionOnSet(f, M),
                  min |-> Min(K), max |-> Max(K), first |-> Min(T), last |-> Max(T)]
  BY DEF Stats
<1> HIDE DEF N, f, g, K, T
<1>10. /\ Min(K \cup {r.kwh}) = IF r.kwh < Min(K) THEN r.kwh ELSE Min(K)
       /\ Max(K \cup {r.kwh}) = IF r.kwh > Max(K) THEN r.kwh ELSE Max(K)
  BY <1>1, <1>6, <1>7, BoundsAdd
<1>11. Min(T \cup {r.ts}) = Min(T) /\ Max(T \cup {r.ts}) = r.ts
  <2>1. /\ Min(T) \in T /\ Max(T) \in T
        /\ Min(T \cup {r.ts}) = IF r.ts < Min(T) THEN r.ts ELSE Min(T)
        /\ Max(T \cup {r.ts}) = IF r.ts > Max(T) THEN r.ts ELSE Max(T)
    BY <1>1, <1>6, <1>7, BoundsAdd
  <2>2. Min(T) \in Int /\ Max(T) \in Int /\ Min(T) <= r.ts /\ Max(T) <= r.ts
    BY <1>6, <1>7, <2>1
  <2> QED BY <1>1, <2>1, <2>2
<1>12. Accumulated(Stats(M), r) =
         [count |-> Cardinality(M) + 1, sum |-> SumFunctionOnSet(f, M) + r.kwh,
          min |-> IF r.kwh < Min(K) THEN r.kwh ELSE Min(K),
          max |-> IF r.kwh > Max(K) THEN r.kwh ELSE Max(K),
          first |-> Min(T), last |-> r.ts]
  BY <1>9 DEF Accumulated
<1> QED BY <1>8, <1>10, <1>11, <1>12 DEF N

\* The fields of window or batch w are exact.
Exact(w) ==
    /\ IsFiniteSet(w.readings) /\ w.count = Cardinality(w.readings)
    /\ w.metrics = [m \in Meters |-> AggregateOf(w.readings, m)]

LEMMA ExactAdd ==
    ASSUME NEW w \in Window, Exact(w), NEW r \in Reading, r \notin w.readings,
           \A x \in w.readings : x.meter = r.meter => x.ts <= r.ts
    PROVE  Exact(WithReading(w, r))
<1> DEFINE R == w.readings
           N == R \cup {r}
           acc == IF w.metrics[r.meter] = None THEN NewAccumulator(r)
                                               ELSE w.metrics[r.meter]
<1>1. /\ R \in SUBSET Reading /\ IsFiniteSet(R) /\ r.meter \in Meters
      /\ w.metrics = [m \in Meters |-> AggregateOf(R, m)]
  BY ReadingFields DEF Exact, Window
<1>2. /\ WithReading(w, r).readings = N /\ WithReading(w, r).count = w.count + 1
      /\ WithReading(w, r).metrics = [w.metrics EXCEPT ![r.meter] = Accumulated(acc, r)]
  BY DEF WithReading
<1>3. IsFiniteSet(N) /\ Cardinality(N) = w.count + 1
  BY FS_AddElement DEF Exact
<1> HIDE DEF acc
<1>4. ASSUME NEW m \in Meters, m # r.meter
      PROVE  AggregateOf(N, m) = AggregateOf(R, m)
  <2>1. Mine(N, m) = Mine(R, m)
    BY <1>4 DEF Mine
  <2> QED BY <2>1, AggregateIsStats
<1>5. AggregateOf(N, r.meter) = Accumulated(acc, r)
  <2> DEFINE M == Mine(R, r.meter)
  <2>1. Mine(N, r.meter) = M \cup {r}
    BY DEF Mine
  <2>2. AggregateOf(N, r.meter) = Stats(M \cup {r})
    BY <2>1, AggregateIsStats
  <2>3. M \in SUBSET Reading /\ IsFiniteSet(M) /\ r \notin M /\ \A x \in M : x.ts <= r.ts
    BY <1>1, FS_Subset DEF Mine
  <2>4. w.metrics[r.meter] = IF M = {} THEN None ELSE Stats(M)
    BY <1>1, AggregateIsStats
  <2> HIDE DEF M
  <2>5. CASE M = {}
    <3>1. acc = NewAccumulator(r) /\ M \cup {r} = {r}
      BY <2>4, <2>5 DEF acc
    <3> QED BY <2>2, <3>1, StatsSingle
  <2>6. CASE M # {}
    <3>1. Stats(M) # None
      BY <2>3, <2>6, StatsType, NoneAssumption
    <3>2. acc = Stats(M)
      BY <2>4, <2>6, <3>1 DEF acc
    <3> QED BY <2>2, <2>3, <2>6, <3>2, StatsAdd
  <2> QED BY <2>5, <2>6
<1>6. WithReading(w, r).metrics = [m \in Meters |-> AggregateOf(N, m)]
  BY <1>1, <1>2, <1>4, <1>5
<1> QED BY <1>2, <1>3, <1>6 DEF Exact

LEMMA NewWindowExact == Exact(NewWindow)
<1>1. NewWindow.readings = {} /\ NewWindow.count = 0
      /\ NewWindow.metrics = [m \in Meters |-> None]
  BY DEF NewWindow
<1>2. \A m \in Meters : AggregateOf({}, m) = None
  BY DEF AggregateOf
<1> QED BY <1>1, <1>2, FS_EmptySet DEF Exact

LEMMA FlushExact ==
    ASSUME NEW w \in Window, Exact(w), FlushLocked(w), UNCHANGED delivered,
           \A b \in Batches : Exact(b)
    PROVE  Exact(window') /\ \A b \in Batches' : Exact(b)
<1>1. CASE w.count = 0
  BY <1>1 DEF FlushLocked, Batches
<1>2. CASE w.count # 0
  <2>1. window' = NewWindow /\ Batches' = Batches \cup {Aggregated(w)}
    BY <1>2 DEF FlushLocked, Batches
  <2>2. Exact(Aggregated(w))
    BY DEF Aggregated, Exact
  <2> QED BY <2>1, <2>2, NewWindowExact
<1> QED BY <1>1, <1>2

\* A reading is of a meter of its producer, who holds back no older one.
Traced(A, held) ==
    /\ \A r \in A : /\ r.meter \in Reads[r.by] /\ r.ts <= clock
                    /\ held[r.by] # None => r.ts <= held[r.by].ts
    /\ \A p \in Producers : held[p] # None =>
          held[p].by = p /\ held[p].meter \in Reads[p] /\ held[p].ts <= clock

EInv == IInv /\ Traced(Added, ready) /\ Exact(window) /\ \A b \in Batches : Exact(b)

LEMMA AddedReadings == ASSUME TypeOK PROVE Added \subseteq Reading
  BY DEF TypeOK, Added, Batches, Window, Batch

\* Add(p) leaves the window exact: the reading is new, and no reading of its meter
\* in the window is younger, since p alone reads that meter.
LEMMA AddExact ==
    ASSUME EInv, NEW p \in Producers, Add(p)
    PROVE  Exact(window') /\ \A b \in Batches' : Exact(b)
<1> DEFINE r == ready[p]
           w == WithReading(window, r)
<1>1. r \in Reading /\ r \notin Added /\ r.by = p /\ ready[p] # None
  BY PendingIsNew DEF EInv, IInv, Numbered, Add
<1>2. r.meter \in Reads[p]
  BY <1>1 DEF EInv, Traced
<1>3. ASSUME NEW x \in window.readings, x.meter = r.meter PROVE x.ts <= r.ts
  <2>1. x \in Added /\ x \in Reading
    BY AddedReadings DEF Added, EInv, IInv
  <2>2. x.meter \in Reads[x.by] /\ x.by \in Producers
    BY <2>1, ReadingFields DEF EInv, Traced
  <2>3. x.by = p
    BY <1>2, <1>3, <2>2, ReadsAssumption
  <2> QED BY <1>1, <2>1, <2>3 DEF EInv, Traced
<1>4. r \notin window.readings /\ window \in Window /\ Exact(window)
  BY <1>1 DEF Added, EInv, IInv, TypeOK
<1> HIDE DEF r
<1>5. Exact(w)
  BY <1>1, <1>3, <1>4, ExactAdd
<1>6. w \in Window
  BY <1>1, <1>4, WithReadingType
<1>7. /\ IF Full(w) THEN FlushLocked(w) ELSE window' = w /\ UNCHANGED inflight
      /\ UNCHANGED delivered
  BY DEF Add, r
<1> HIDE DEF w
<1>8. CASE Full(w)
  BY <1>5, <1>6, <1>7, <1>8, FlushExact DEF EInv
<1>9. CASE ~Full(w)
  BY <1>5, <1>7, <1>9 DEF EInv, Batches
<1> QED BY <1>8, <1>9

LEMMA ExactStep == EInv /\ TypeOK' /\ [Next]_vars => EInv'
<1> SUFFICES ASSUME EInv, TypeOK', [Next]_vars PROVE EInv'
  OBVIOUS
<1> USE DEF sources, threads
<1>1. IInv' /\ TypeOK /\ Added \subseteq Reading
  BY Step, AddedReadings DEF EInv, IInv
<1>2. /\ clock \in Nat /\ clock' \in Nat
      /\ \A q \in Producers : ready[q] # None => ready[q] \in Reading
      /\ \A r \in Added : r.by \in Producers /\ r.ts \in Nat
      /\ \A r \in Reading : r.ts \in Nat
  BY <1>1, ReadingFields, NumbersAssumption DEF TypeOK
<1>3. ASSUME UNCHANGED ready, Added' = Added, clock' = clock \/ clock' = clock + 1
      PROVE  Traced(Added, ready)'
  BY <1>2, <1>3 DEF EInv, Traced
<1>4. CASE /\ UNCHANGED <<ready, window>> /\ Batches' = Batches
           /\ clock' = clock \/ clock' = clock + 1
  <2>1. Added' = Added
    BY <1>4 DEF Added
  <2> QED BY <1>1, <1>3, <1>4, <2>1 DEF EInv, Exact, AggregateOf
<1>5. ASSUME NEW p \in Producers, GenerateReading(p) PROVE EInv'
  <2>1. PICK r0 \in Reading : /\ r0.by = p /\ r0.ts = clock /\ r0.meter \in Reads[p]
                              /\ ready' = [ready EXCEPT ![p] = r0]
    BY <1>1, <1>5, GeneratedIsReading
  <2>2. UNCHANGED <<clock, window>> /\ Batches' = Batches /\ Added' = Added
    BY <1>5 DEF GenerateReading, Batches, Added
  <2>3. \A q \in Producers : ready'[q] = IF q = p THEN r0 ELSE ready[q]
    BY <1>1, <2>1 DEF TypeOK
  <2>4. Traced(Added, ready)'
    BY <1>2, <2>1, <2>2, <2>3 DEF EInv, Traced
  <2> QED BY <1>1, <2>2, <2>4 DEF EInv, Exact, AggregateOf
<1>6. ASSUME NEW p \in Producers, Add(p) PROVE EInv'
  <2>1. Exact(window') /\ \A b \in Batches' : Exact(b)
    BY <1>6, AddExact
  <2>2. Added' = Added \cup {ready[p]} /\ ready[p] # None /\ UNCHANGED clock
    BY <1>6, AddAdds DEF EInv, Add
  <2>3. \A q \in Producers : ready'[q] = IF q = p THEN None ELSE ready[q]
    BY <1>1, <1>6 DEF Add, TypeOK
  <2>4. Traced(Added, ready)'
    BY <1>2, <2>2, <2>3 DEF EInv, Traced
  <2>5. Exact(window)' /\ \A b \in Batches' : Exact(b)'
    BY <2>1 DEF Exact, AggregateOf
  <2> QED BY <1>1, <2>4, <2>5 DEF EInv
<1>7. CASE FlusherFlushes \/ Flush \/ StopFlushes
  <2>1. FlushLocked(window) /\ UNCHANGED <<clock, ready, delivered>>
    BY <1>7 DEF FlusherFlushes, Flush, StopFlushes
  <2>2. window \in Window /\ inflight \subseteq Batch
    BY <1>1 DEF TypeOK
  <2>3. Exact(window') /\ \A b \in Batches' : Exact(b)
    BY <2>1, <2>2, FlushExact DEF EInv
  <2>4. Added' = Added
    <3>1. Added' = window.readings \cup UNION {b.readings : b \in Batches}
      BY <1>2, <2>1, <2>2, FlushMoves DEF EInv, IInv, CountsReadings
    <3> QED BY <3>1 DEF Added
  <2>5. Exact(window)' /\ \A b \in Batches' : Exact(b)'
    BY <2>3 DEF Exact, AggregateOf
  <2> QED BY <1>1, <1>3, <2>1, <2>4, <2>5 DEF EInv
<1>8. ASSUME NEW b \in inflight, Deliver(b) PROVE EInv'
  <2>1. UNCHANGED <<clock, ready, window>> /\ Batches' = Batches
    BY <1>8 DEF Deliver, Batches
  <2> QED BY <1>4, <2>1
<1> QED BY <1>4, <1>5, <1>6, <1>7, <1>8
        DEF Next, Tick, FlusherWakes, FlusherExits, StopSignals, vars, Batches

\* The accumulators of Add, kept reading by reading, are what a sum, a count,
\* a minimum, a maximum and the first and last instant of the readings would be
\* if they were computed in the end, for every meter of every window and batch.
THEOREM Aggregates == Spec => []AggregatesExact
<1>1. Init => Traced(Added, ready) /\ Exact(window) /\ \A b \in Batches : Exact(b)
  <2> SUFFICES ASSUME Init
               PROVE  Traced(Added, ready) /\ Exact(window) /\ \A b \in Batches : Exact(b)
    OBVIOUS
  <2>1. window = NewWindow /\ Batches = {} /\ \A p \in Producers : ready[p] = None
    BY DEF Init, Batches
  <2>2. Added = {}
    BY <2>1 DEF Added, NewWindow
  <2> QED BY <2>1, <2>2, NewWindowExact DEF Traced
<1>2. EInv => AggregatesExact
  BY DEF EInv, AggregatesExact, Exact
<1> QED BY <1>1, <1>2, ExactStep, Invariance, TypeCorrect, PTL DEF EInv, Spec
=============================================================================
