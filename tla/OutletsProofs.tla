---------------------------- MODULE OutletsProofs ----------------------------
(***************************************************************************)
(* Both outlets implement a store of windows, and the figures of /stats    *)
(* are in order, for any windows, readers, streams, restarts and faults.   *)
(***************************************************************************)
EXTENDS Outlets, TLAPS, SequenceTheorems

-----------------------------------------------------------------------------
(* The aggregation service *)

\* A window is in the store, or was, iff its request has got so far.
RequestsFit ==
    \A w \in Window :
        /\ sender[w] = "idle" <=> request[w] = "none"
        /\ request[w] \in {"none", "sent"} => w \notin taken
        /\ request[w] \in {"stored", "200"} => w \in taken

\* The fields gone through so far were taken from a list that has only grown.
FiguresFit(s) ==
    LET f == s.figures
    IN  /\ s.since <= Len(store)
        /\ s.at = "windows" => f.readings <= Len(store)
        /\ s.at = "collectors" => /\ f.readings <= f.windows
                                  /\ s.since <= f.windows /\ f.windows <= Len(store)
        /\ s.at = "latest" => /\ f.readings <= f.windows
                              /\ s.since <= f.windows /\ f.windows <= f.collectors
                              /\ f.collectors <= Len(store)

StatsFit == \A r \in Reader : stats[r] # None => FiguresFit(stats[r])

HttpInv == Http!HttpTypeOK /\ RequestsFit /\ StatsFit /\ StatsInOrder

-----------------------------------------------------------------------------
(* The Flight server *)

\* Only the writer's window waits for the lock, and none is added twice.
AddersFit ==
    /\ writer # None => adder[writer] = "sending"
    /\ \A w \in Window : adder[w] \in {"idle", "sending"} => w \notin added

\* Only a client that waits has a call, and a table for it has what was there
\* when it asked.
CallsFit ==
    /\ client # "reading" => since = None
    /\ \A s \in Stream : stream = s /\ handler[s] # "none" =>
          /\ since \in Nat /\ since <= Len(data)
          /\ handler[s] = "writing" => since <= size[s] /\ size[s] <= Len(data)

FlightInv == Flight!FlightTypeOK /\ AddersFit /\ CallsFit

Inv == outlet \in {"http", "flight"} /\ HttpInv /\ FlightInv

-----------------------------------------------------------------------------
(* Lemmas on the aggregation service *)

USE DEF httpVars, flightVars, Http!Requests

\* The service begins without requests.
LEMMA HttpInit == Http!HttpInit => HttpInv
<1> SUFFICES ASSUME Http!HttpInit PROVE HttpInv
  OBVIOUS
<1>1. <<>> \in Seq(Window)
  BY EmptySeq
<1> QED
  BY <1>1, BoundsAssumption
     DEF Http!HttpInit, HttpInv, Http!HttpTypeOK, RequestsFit, StatsFit, StatsInOrder,
         Http!StatsInOrder, Http!NoFigures, Http!Figures

\* A step of the Flight server leaves the service alone.
LEMMA HttpStutter == HttpInv /\ UNCHANGED httpVars => HttpInv'
  BY DEF HttpInv, Http!HttpTypeOK, RequestsFit, StatsFit, FiguresFit, StatsInOrder,
         Http!StatsInOrder, Http!Figures

\* Sends and requests: the figures of readers stay as they are unless a window is
\* stored, and then the list grows.
LEMMA RequestStep ==
  ASSUME HttpInv, NEW w \in Window,
         \/ Http!SendAggregatedData(w) \/ Http!SendReturns(w) \/ Http!SendFails(w)
         \/ Http!RequestLost(w) \/ Http!Refuse(w) \/ Http!ReceiveAggregate(w)
         \/ Http!Process(w)
  PROVE  HttpInv'
<1>1. UNCHANGED <<stats, told, restarts>>
  BY DEF Http!SendAggregatedData, Http!SendReturns, Http!SendFails, Http!RequestLost,
         Http!Refuse, Http!ReceiveAggregate, Http!Process
<1>2. store' \in Seq(Window) /\ Len(store') \in Nat /\ Len(store) \in Nat
         /\ Len(store) <= Len(store')
  <2>1. store \in Seq(Window) /\ Len(store) \in Nat
    BY LenProperties DEF HttpInv, Http!HttpTypeOK
  <2>2. \/ store' = store
        \/ store' = Append(store, w)
    BY DEF Http!SendAggregatedData, Http!SendReturns, Http!SendFails, Http!RequestLost,
           Http!Refuse, Http!ReceiveAggregate, Http!Process
  <2> QED
    BY <2>1, <2>2, AppendProperties
<1>3. Http!HttpTypeOK'
  BY <1>1, <1>2
     DEF Http!SendAggregatedData, Http!SendReturns, Http!SendFails, Http!RequestLost,
         Http!Refuse, Http!ReceiveAggregate, Http!Process, HttpInv, Http!HttpTypeOK
<1>4. RequestsFit'
  BY DEF Http!SendAggregatedData, Http!SendReturns, Http!SendFails, Http!RequestLost,
         Http!Refuse, Http!ReceiveAggregate, Http!Process, HttpInv, Http!HttpTypeOK,
         RequestsFit
<1>5. StatsFit'
  BY <1>1, <1>2 DEF HttpInv, Http!HttpTypeOK, Http!Figures, StatsFit, FiguresFit
<1>6. StatsInOrder'
  BY <1>1 DEF HttpInv, StatsInOrder, Http!StatsInOrder
<1> QED
  BY <1>3, <1>4, <1>5, <1>6 DEF HttpInv

\* Whatever a reader does, it is enough that its own request and answer fit.
LEMMA ReaderFits ==
  ASSUME HttpInv, NEW r \in Reader,
         NEW s \in Http!Requests \cup {None},
         s # None => FiguresFit(s),
         NEW f \in Http!Figures,
         f.readings <= f.windows, f.windows <= f.collectors, f.collectors <= f.latest,
         stats' = [stats EXCEPT ![r] = s], told' = [told EXCEPT ![r] = f],
         UNCHANGED <<sender, request, store, taken, restarts>>
  PROVE  HttpInv'
<1>1. Http!HttpTypeOK'
  BY DEF HttpInv, Http!HttpTypeOK
<1>2. RequestsFit'
  BY DEF HttpInv, RequestsFit
<1>3. StatsFit'
  BY DEF HttpInv, Http!HttpTypeOK, StatsFit, FiguresFit
<1>4. StatsInOrder'
  BY DEF HttpInv, Http!HttpTypeOK, StatsInOrder, Http!StatsInOrder
<1> QED
  BY <1>1, <1>2, <1>3, <1>4 DEF HttpInv

\* A reader asks.
LEMMA AskStep == ASSUME HttpInv, NEW r \in Reader, Http!Ask(r) PROVE HttpInv'
<1> DEFINE s == [at |-> "check", since |-> Len(store), figures |-> Http!NoFigures]
<1>1. Len(store) \in Nat
  BY LenProperties DEF HttpInv, Http!HttpTypeOK
<1>2. /\ s \in Http!Requests
      /\ FiguresFit(s)
  BY <1>1 DEF Http!NoFigures, Http!Figures, FiguresFit
<1>3. stats' = [stats EXCEPT ![r] = s] /\ told' = [told EXCEPT ![r] = told[r]]
      /\ UNCHANGED <<sender, request, store, taken, restarts>>
  BY DEF Http!Ask, HttpInv, Http!HttpTypeOK
<1>4. /\ told[r] \in Http!Figures /\ told[r].readings <= told[r].windows
      /\ told[r].windows <= told[r].collectors /\ told[r].collectors <= told[r].latest
  BY DEF HttpInv, Http!HttpTypeOK, StatsInOrder, Http!StatsInOrder
<1> QED
  BY <1>2, <1>3, <1>4, ReaderFits

\* A reader turns to the next field.
LEMMA FigureStep ==
  ASSUME HttpInv, NEW r \in Reader,
         \/ Http!CheckEmpty(r) /\ store # <<>>
         \/ Http!GetStats(r)
  PROVE  HttpInv'
<1> DEFINE old == stats[r]
           new == stats'[r]
<1>1. /\ Len(store) \in Nat /\ old # None
      /\ old \in Http!Requests
      /\ FiguresFit(old)
  BY LenProperties
     DEF HttpInv, Http!HttpTypeOK, StatsFit, Http!CheckEmpty, Http!GetStats, Http!Figure
<1>2. /\ stats' = [stats EXCEPT ![r] = new] /\ told' = [told EXCEPT ![r] = told[r]]
      /\ UNCHANGED <<sender, request, store, taken, restarts>>
  BY DEF Http!CheckEmpty, Http!GetStats, Http!Figure, HttpInv, Http!HttpTypeOK
<1>3. /\ told[r] \in Http!Figures /\ told[r].readings <= told[r].windows
      /\ told[r].windows <= told[r].collectors /\ told[r].collectors <= told[r].latest
  BY DEF HttpInv, Http!HttpTypeOK, StatsInOrder, Http!StatsInOrder
<1> DEFINE Fits == /\ new \in Http!Requests
                   /\ FiguresFit(new)
<1>4. CASE Http!CheckEmpty(r) /\ store # <<>>
  <2>1. new = [at |-> "readings", since |-> old.since, figures |-> old.figures]
    BY <1>1, <1>4 DEF Http!CheckEmpty, HttpInv, Http!HttpTypeOK
  <2>2. Fits
    BY <1>1, <2>1 DEF FiguresFit
  <2> QED
    BY <1>2, <1>3, <2>2, ReaderFits
<1>5. CASE Http!Figure(r, "readings", "readings", "windows")
  <2>1. new = [at |-> "windows", since |-> old.since,
               figures |-> [readings |-> Len(store), windows |-> old.figures.windows,
                            collectors |-> old.figures.collectors,
                            latest |-> old.figures.latest]]
    BY <1>1, <1>5 DEF Http!Figure, Http!Figures, HttpInv, Http!HttpTypeOK
  <2>2. Fits
    BY <1>1, <2>1 DEF FiguresFit, Http!Figures
  <2> QED
    BY <1>2, <1>3, <2>2, ReaderFits
<1>6. CASE Http!Figure(r, "windows", "windows", "collectors")
  <2>1. old.at = "windows" /\
        new = [at |-> "collectors", since |-> old.since,
               figures |-> [readings |-> old.figures.readings, windows |-> Len(store),
                            collectors |-> old.figures.collectors,
                            latest |-> old.figures.latest]]
    BY <1>1, <1>6 DEF Http!Figure, Http!Figures, HttpInv, Http!HttpTypeOK
  <2>2. Fits
    BY <1>1, <2>1 DEF FiguresFit, Http!Figures
  <2> QED
    BY <1>2, <1>3, <2>2, ReaderFits
<1>7. CASE Http!Figure(r, "collectors", "collectors", "latest")
  <2>1. old.at = "collectors" /\
        new = [at |-> "latest", since |-> old.since,
               figures |-> [readings |-> old.figures.readings,
                            windows |-> old.figures.windows, collectors |-> Len(store),
                            latest |-> old.figures.latest]]
    BY <1>1, <1>7 DEF Http!Figure, Http!Figures, HttpInv, Http!HttpTypeOK
  <2>2. Fits
    BY <1>1, <2>1 DEF FiguresFit, Http!Figures
  <2> QED
    BY <1>2, <1>3, <2>2, ReaderFits
<1> QED
  BY <1>4, <1>5, <1>6, <1>7 DEF Http!GetStats

\* A reader is answered.
LEMMA AnswerStep ==
  ASSUME HttpInv, NEW r \in Reader,
         \/ Http!CheckEmpty(r) /\ store = <<>>
         \/ Http!GetLatest(r)
  PROVE  HttpInv'
<1> DEFINE old == stats[r]
           figures == [readings |-> old.figures.readings, windows |-> old.figures.windows,
                       collectors |-> old.figures.collectors, latest |-> Len(store)]
<1>1. CASE Http!CheckEmpty(r) /\ store = <<>>
  <2>1. /\ stats' = [stats EXCEPT ![r] = None]
        /\ told' = [told EXCEPT ![r] = Http!NoFigures]
        /\ UNCHANGED <<sender, request, store, taken, restarts>>
    BY <1>1 DEF Http!CheckEmpty, Http!Answered
  <2>2. /\ Http!NoFigures \in Http!Figures
        /\ Http!NoFigures.readings <= Http!NoFigures.windows
        /\ Http!NoFigures.windows <= Http!NoFigures.collectors
        /\ Http!NoFigures.collectors <= Http!NoFigures.latest
    BY DEF Http!NoFigures, Http!Figures
  <2> QED
    BY <2>1, <2>2, ReaderFits
<1>2. CASE Http!GetLatest(r)
  <2>1. /\ Len(store) \in Nat /\ old # None /\ old.at = "latest"
        /\ old.figures \in Http!Figures /\ FiguresFit(old)
    BY <1>2, LenProperties DEF HttpInv, Http!HttpTypeOK, StatsFit, Http!GetLatest
  <2>2. [old.figures EXCEPT !.latest = Len(store)] = figures
    BY <2>1 DEF Http!Figures
  <2>3. /\ stats' = [stats EXCEPT ![r] = None] /\ told' = [told EXCEPT ![r] = figures]
        /\ UNCHANGED <<sender, request, store, taken, restarts>>
    BY <1>2, <2>2 DEF Http!GetLatest, Http!Answered
  <2>4. /\ figures \in Http!Figures /\ figures.readings <= figures.windows
        /\ figures.windows <= figures.collectors /\ figures.collectors <= figures.latest
    BY <2>1 DEF FiguresFit, Http!Figures
  <2> HIDE DEF figures
  <2> QED
    BY <2>3, <2>4, ReaderFits
<1> QED
  BY <1>1, <1>2

\* A restart empties the list and gives the readers up.
LEMMA RestartStep == HttpInv /\ Http!Restart => HttpInv'
<1> SUFFICES ASSUME HttpInv, Http!Restart PROVE HttpInv'
  OBVIOUS
<1>1. <<>> \in Seq(Window)
  BY EmptySeq
<1>2. Http!HttpTypeOK'
  BY <1>1, BoundsAssumption DEF Http!Restart, HttpInv, Http!HttpTypeOK
<1>3. RequestsFit'
  BY DEF Http!Restart, HttpInv, Http!HttpTypeOK, RequestsFit
<1>4. StatsFit' /\ StatsInOrder'
  BY DEF Http!Restart, HttpInv, StatsFit, StatsInOrder, Http!StatsInOrder
<1> QED
  BY <1>2, <1>3, <1>4 DEF HttpInv

LEMMA HttpInvStep == HttpInv /\ Http!HttpNext => HttpInv'
<1> SUFFICES ASSUME HttpInv, Http!HttpNext PROVE HttpInv'
  OBVIOUS
<1>1. CASE \E w \in Window :
             \/ Http!SendAggregatedData(w) \/ Http!SendReturns(w) \/ Http!SendFails(w)
             \/ Http!RequestLost(w) \/ Http!Refuse(w) \/ Http!ReceiveAggregate(w)
             \/ Http!Process(w)
  BY <1>1, RequestStep
<1>2. CASE \E r \in Reader :
             Http!Ask(r) \/ Http!CheckEmpty(r) \/ Http!GetStats(r) \/ Http!GetLatest(r)
  BY <1>2, AskStep, FigureStep, AnswerStep
<1>3. CASE Http!Restart
  BY <1>3, RestartStep
<1> QED
  BY <1>1, <1>2, <1>3 DEF Http!HttpNext

-----------------------------------------------------------------------------
(* Lemmas on the Flight server *)

\* The server begins empty.
LEMMA FlightInit == Flight!FlightInit => FlightInv
<1> SUFFICES ASSUME Flight!FlightInit PROVE FlightInv
  OBVIOUS
<1>1. <<>> \in Seq(Window)
  BY EmptySeq
<1> QED
  BY <1>1, BoundsAssumption, NoneAssumption
     DEF Flight!FlightInit, FlightInv, Flight!FlightTypeOK, AddersFit, CallsFit

\* A step of the aggregation service leaves the server alone.
LEMMA FlightStutter == FlightInv /\ UNCHANGED flightVars => FlightInv'
  BY DEF FlightInv, Flight!FlightTypeOK, AddersFit, CallsFit

\* The sender in the process: only its last step changes the data, which grow.
LEMMA AdderStep ==
  ASSUME FlightInv, NEW w \in Window,
         Flight!SendAggregatedData(w) \/ Flight!Lock(w) \/ Flight!AddAggregatedData(w)
  PROVE  FlightInv'
<1>1. UNCHANGED <<readers, handler, size, client, stream, since, table, put, closeEnds,
                  faults>>
  BY DEF Flight!SendAggregatedData, Flight!Lock, Flight!AddAggregatedData,
         Flight!serverVars, Flight!clientVars, Flight!putVars
<1>2. data' \in Seq(Window) /\ Len(data') \in Nat /\ Len(data) \in Nat
         /\ Len(data) <= Len(data')
  <2>1. data \in Seq(Window) /\ Len(data) \in Nat
    BY LenProperties DEF FlightInv, Flight!FlightTypeOK
  <2>2. data' = data \/ data' = Append(data, w)
    BY DEF Flight!SendAggregatedData, Flight!Lock, Flight!AddAggregatedData,
           Flight!serverVars
  <2> QED
    BY <2>1, <2>2, AppendProperties
<1>3. Flight!FlightTypeOK'
  BY <1>1, <1>2
     DEF Flight!SendAggregatedData, Flight!Lock, Flight!AddAggregatedData,
         Flight!serverVars, FlightInv, Flight!FlightTypeOK
<1>4. AddersFit'
  BY NoneAssumption
     DEF Flight!SendAggregatedData, Flight!Lock, Flight!AddAggregatedData,
         Flight!serverVars, FlightInv, Flight!FlightTypeOK, AddersFit
<1>5. CallsFit'
  BY <1>1, <1>2 DEF FlightInv, Flight!FlightTypeOK, CallsFit
<1> QED
  BY <1>3, <1>4, <1>5 DEF FlightInv

\* A call of DoGet.
LEMMA ServeStep == ASSUME FlightInv, NEW s \in Stream, Flight!Serve(s) PROVE FlightInv'
<1>1. UNCHANGED <<adder, writer, data, added, put, closeEnds, faults>>
  BY DEF Flight!Serve, Flight!DoGet, Flight!TableWritten, Flight!WriteFails,
         Flight!Leave, Flight!clientVars, Flight!putVars
<1>2. Len(data) \in Nat
  BY LenProperties DEF FlightInv, Flight!FlightTypeOK
<1>3. Flight!FlightTypeOK'
  <2>1. CASE Flight!DoGet(s)
    BY <1>1, <1>2, <2>1
       DEF Flight!DoGet, Flight!Returned, FlightInv, Flight!FlightTypeOK
  <2>2. CASE Flight!TableWritten(s)
    BY <1>1, <1>2, <2>2
       DEF Flight!TableWritten, Flight!Leave, FlightInv, Flight!FlightTypeOK
  <2>3. CASE Flight!WriteFails(s)
    BY <1>1, <1>2, <2>3
       DEF Flight!WriteFails, Flight!Leave, Flight!clientVars, FlightInv,
           Flight!FlightTypeOK
  <2> QED
    BY <2>1, <2>2, <2>3 DEF Flight!Serve
<1>4. AddersFit'
  BY <1>1 DEF FlightInv, AddersFit
<1>5. CallsFit'
  BY <1>1, <1>2, NoneAssumption
     DEF Flight!Serve, Flight!DoGet, Flight!TableWritten, Flight!WriteFails,
         Flight!Leave, Flight!Returned, Flight!clientVars, Flight!putVars,
         FlightInv, Flight!FlightTypeOK, CallsFit
<1> QED
  BY <1>3, <1>4, <1>5 DEF FlightInv

\* The client.
LEMMA ClientStep ==
  ASSUME FlightInv, Flight!Client \/ Flight!FetchFails \/ Flight!ClientDies
  PROVE  FlightInv'
<1>1. UNCHANGED <<adder, writer, readers, data, added, size, table, put, closeEnds>>
  BY DEF Flight!Client, Flight!Connect, Flight!FetchData, Flight!FetchFails,
         Flight!ServerGone, Flight!ProcessData, Flight!Wakes, Flight!ClientDies,
         Flight!serverVars, Flight!putVars
<1>2. Len(data) \in Nat
  BY LenProperties DEF FlightInv, Flight!FlightTypeOK
<1>3. Flight!FlightTypeOK'
  BY <1>1, <1>2, BoundsAssumption
     DEF Flight!Client, Flight!Connect, Flight!FetchData, Flight!FetchFails,
         Flight!ServerGone, Flight!ProcessData, Flight!Wakes, Flight!ClientDies,
         Flight!serverVars, Flight!Returned, Flight!Fault, FlightInv, Flight!FlightTypeOK
<1>4. AddersFit'
  BY <1>1 DEF FlightInv, AddersFit
<1>5. CallsFit'
  BY <1>1, <1>2, NoneAssumption
     DEF Flight!Client, Flight!Connect, Flight!FetchData, Flight!FetchFails,
         Flight!ServerGone, Flight!ProcessData, Flight!Wakes, Flight!ClientDies,
         Flight!serverVars, Flight!Returned, FlightInv, Flight!FlightTypeOK, CallsFit
<1> QED
  BY <1>3, <1>4, <1>5 DEF FlightInv

\* Puts change nothing but themselves.
LEMMA PutStep ==
  ASSUME FlightInv, NEW p \in Put,
         Flight!SendPut(p) \/ Flight!DoPut(p) \/ Flight!PutFails(p)
  PROVE  FlightInv'
<1>1. UNCHANGED <<adder, writer, readers, data, added, handler, size, client, stream,
                  since, table, closeEnds, faults>>
      /\ put' \in [Put -> {"idle", "open", "ok", "failed"}]
  BY DEF Flight!SendPut, Flight!DoPut, Flight!PutFails, Flight!serverVars,
         Flight!clientVars, FlightInv, Flight!FlightTypeOK
<1> QED
  BY <1>1 DEF FlightInv, Flight!FlightTypeOK, AddersFit, CallsFit

\* A restart of the server's process.
LEMMA ServerRestartStep == ASSUME FlightInv, Flight!Restart PROVE FlightInv'
<1>1. <<>> \in Seq(Window)
  BY EmptySeq
<1>2. Flight!FlightTypeOK'
  BY <1>1, BoundsAssumption
     DEF Flight!Restart, Flight!Fault, FlightInv, Flight!FlightTypeOK
<1>3. AddersFit' /\ CallsFit'
  BY DEF Flight!Restart, FlightInv, Flight!FlightTypeOK, AddersFit, CallsFit
<1> QED
  BY <1>2, <1>3 DEF FlightInv

LEMMA FlightInvStep == FlightInv /\ Flight!FlightNext => FlightInv'
  BY AdderStep, ServeStep, ClientStep, PutStep, ServerRestartStep
     DEF Flight!FlightNext, Flight!Add

-----------------------------------------------------------------------------
(* The invariant *)

LEMMA InvInit == Init => Inv
  BY HttpInit, FlightInit DEF Init, Inv

LEMMA InvStep == Inv /\ [Next]_vars => Inv'
<1> SUFFICES ASSUME Inv, [Next]_vars PROVE Inv'
  OBVIOUS
<1>1. CASE HttpStep
  BY <1>1, HttpInvStep, FlightStutter DEF HttpStep, Inv
<1>2. CASE FlightStep
  BY <1>2, FlightInvStep, HttpStutter DEF FlightStep, Inv
<1>3. CASE UNCHANGED vars
  BY <1>3, HttpStutter, FlightStutter DEF vars, Inv
<1> QED
  BY <1>1, <1>2, <1>3 DEF Next

LEMMA Invariant == Spec => []Inv
  BY InvInit, InvStep, PTL DEF Spec

\* Type correctness of both outlets.
THEOREM TypeCorrect == Spec => []TypeOK
<1>1. Inv => TypeOK
  BY DEF Inv, HttpInv, FlightInv, TypeOK
<1> QED
  BY <1>1, Invariant, PTL

\* However many requests and readers there are at a time, the fields of an answer
\* of /stats do not run ahead of those read after them (get_stats).
THEOREM StatsOrdered == Spec => []StatsInOrder
<1>1. Inv => StatsInOrder
  BY DEF Inv, HttpInv
<1> QED
  BY <1>1, Invariant, PTL

-----------------------------------------------------------------------------
(* The refinement *)

LEMMA PromiseInit == Init => Promise!Init
<1> SUFFICES ASSUME Init PROVE Promise!Init
  OBVIOUS
<1> USE DEF Init, Http!HttpInit, Flight!FlightInit, Http!Asked, Http!Answers,
            Http!NoFigures, Promise!Init
<1>1. CASE outlet = "http"
  BY <1>1
<1>2. CASE outlet = "flight"
  BY <1>2
<1> QED
  BY <1>1, <1>2

\* Requests: a window is stored before it is answered, or nothing a store of
\* windows shows has changed.
LEMMA RequestPromise ==
  ASSUME Inv, outlet = "http", outlet' = outlet, NEW w \in Window,
         \/ Http!SendAggregatedData(w) \/ Http!SendReturns(w) \/ Http!SendFails(w)
         \/ Http!RequestLost(w) \/ Http!Refuse(w) \/ Http!ReceiveAggregate(w)
         \/ Http!Process(w)
  PROVE  [Promise!Next]_Promise!vars
<1> USE DEF Http!Asked, Http!Answers
<1>1. CASE Http!SendAggregatedData(w)
  <2>1. Promise!Send(w)
    BY <1>1 DEF Http!SendAggregatedData, Promise!Send
  <2> QED
    BY <2>1 DEF Promise!Next
<1>2. CASE Http!SendReturns(w) \/ Http!SendFails(w)
  <2>1. Promise!Return(w)
    BY <1>2 DEF Http!SendReturns, Http!SendFails, Promise!Return, Promise!Returns, Inv,
                HttpInv, RequestsFit
  <2> QED
    BY <2>1 DEF Promise!Next
<1>3. CASE Http!RequestLost(w) \/ Http!Refuse(w) \/ Http!Process(w)
  BY <1>3 DEF Http!RequestLost, Http!Refuse, Http!Process, Promise!vars
<1>4. CASE Http!ReceiveAggregate(w)
  <2>1. Promise!Store(w)
    BY <1>4 DEF Http!ReceiveAggregate, Promise!Store, Promise!Stored, Inv, HttpInv,
                RequestsFit
  <2> QED
    BY <2>1 DEF Promise!Next
<1> QED
  BY <1>1, <1>2, <1>3, <1>4

\* Readers: an answer counts at least what was there when it was asked for.
LEMMA ReaderPromise ==
  ASSUME Inv, outlet = "http", outlet' = outlet, NEW r \in Reader,
         Http!Ask(r) \/ Http!CheckEmpty(r) \/ Http!GetStats(r) \/ Http!GetLatest(r)
  PROVE  [Promise!Next]_Promise!vars
<1> DEFINE old == stats[r]
<1>1. /\ Len(store) \in Nat /\ Reader # {} /\ None \notin Nat
      /\ stats \in [Reader -> Http!Requests \cup {None}]
      /\ told \in [Reader -> Http!Figures]
      /\ old # None => /\ old.since \in Nat /\ FiguresFit(old)
                       /\ old.figures \in Http!Figures
  BY LenProperties, NoneAssumption
     DEF Inv, HttpInv, Http!HttpTypeOK, Http!Requests, StatsFit
<1>2. CASE Http!Ask(r)
  <2> DEFINE new == [at |-> "check", since |-> Len(store), figures |-> Http!NoFigures]
  <2>1. /\ old = None /\ stats' = [stats EXCEPT ![r] = new]
        /\ new # None /\ new.since = Len(store)
        /\ UNCHANGED <<sender, taken, store, told>>
    BY <1>1, <1>2, NoneAssumption
       DEF Http!Ask, Http!NoFigures, Http!Figures, Http!Requests
  <2> HIDE DEF new
  <2>2. Http!Asked' = [Http!Asked EXCEPT ![r] = Len(store)]
    BY <1>1, <2>1 DEF Http!Asked
  <2>3. Promise!Ask(r)
    BY <1>1, <2>1, <2>2 DEF Promise!Ask, Http!Asked, Http!Answers
  <2> QED
    BY <2>3 DEF Promise!Next
<1>3. CASE (Http!CheckEmpty(r) /\ store # <<>>) \/ Http!GetStats(r)
  <2>1. /\ old \in Http!Requests /\ stats'[r].since = old.since
        /\ \A q \in Reader \ {r} : stats'[q] = stats[q]
        /\ UNCHANGED <<sender, taken, store, told>>
    BY <1>1, <1>3 DEF Http!CheckEmpty, Http!GetStats, Http!Figure, Http!Requests
  <2>2. stats'[r] \in Http!Requests
    <3>1. CASE Http!CheckEmpty(r) /\ store # <<>>
      BY <1>1, <2>1, <3>1 DEF Http!CheckEmpty, Http!Requests
    <3>2. ASSUME NEW f \in {"readings", "windows", "collectors"},
                 NEW place \in {"readings", "windows", "collectors"},
                 NEW next \in {"windows", "collectors", "latest"},
                 Http!Figure(r, place, f, next)
          PROVE  stats'[r] \in Http!Requests
      <4>1. stats'[r] = [old EXCEPT !.at = next, !.figures[f] = Len(store)]
        BY <1>1, <3>2 DEF Http!Figure
      <4>2. [old.figures EXCEPT ![f] = Len(store)] \in Http!Figures
        BY <1>1, <2>1 DEF Http!Requests, Http!Figures
      <4> HIDE DEF old
      <4> QED
        BY <2>1, <4>1, <4>2 DEF Http!Requests
    <3> QED
      BY <1>3, <3>1, <3>2 DEF Http!GetStats
  <2>3. Http!Asked' = Http!Asked
    BY <2>1, <2>2, NoneAssumption DEF Http!Asked
  <2> QED
    BY <2>1, <2>3 DEF Http!Answers, Promise!vars
<1>4. CASE (Http!CheckEmpty(r) /\ store = <<>>) \/ Http!GetLatest(r)
  <2> DEFINE n == told'[r].windows
  <2>1. /\ old # None /\ stats' = [stats EXCEPT ![r] = None]
        /\ \A q \in Reader \ {r} : told'[q] = told[q]
        /\ UNCHANGED <<sender, taken, store>>
    BY <1>1, <1>4 DEF Http!CheckEmpty, Http!GetLatest, Http!Answered
  <2>2. n \in old.since .. Len(store)
    <3>1. CASE Http!CheckEmpty(r) /\ store = <<>>
      BY <1>1, <2>1, <3>1, EmptySeq
         DEF Http!CheckEmpty, Http!Answered, Http!NoFigures, FiguresFit
    <3>2. CASE Http!GetLatest(r)
      <4>1. old.at = "latest" /\ n = old.figures.windows
        BY <1>1, <3>2 DEF Http!GetLatest, Http!Answered, Http!Figures
      <4> QED
        BY <1>1, <2>1, <4>1 DEF FiguresFit, Http!Figures
    <3> QED
      BY <1>4, <3>1, <3>2
  <2>3. Http!Asked[r] = old.since /\ old.since # None /\ old.since \in Nat
    BY <1>1, <2>1 DEF Http!Asked
  <2>4. Http!Asked' = [Http!Asked EXCEPT ![r] = None]
    BY <1>1, <2>1 DEF Http!Asked
  <2>5. Http!Answers' = [Http!Answers EXCEPT ![r] = n]
    BY <1>1, <2>1 DEF Http!Answers
  <2>6. Promise!Answer(r)
    BY <2>1, <2>2, <2>3, <2>4, <2>5 DEF Promise!Answer
  <2> QED
    BY <2>6 DEF Promise!Next
<1> QED
  BY <1>2, <1>3, <1>4

\* A restart of the service loses the store, and the sends wait for their time-out.
LEMMA RestartPromise ==
  ASSUME Inv, outlet = "http", outlet' = outlet, Http!Restart
  PROVE  [Promise!Next]_Promise!vars
<1>1. sender' = [w \in Window |-> IF w \in {} THEN "failed" ELSE sender[w]]
  BY DEF Http!Restart, Inv, HttpInv, Http!HttpTypeOK
<1>2. Http!Asked' = [r \in Reader |-> None] /\ Http!Answers' = Http!Answers
      /\ store' = <<>> /\ taken' = taken
  BY DEF Http!Restart, Http!Asked, Http!Answers
<1>3. {} \in SUBSET {w \in Window : sender[w] = "sending"}
  OBVIOUS
<1>4. \E given_up \in SUBSET {w \in Window : sender[w] = "sending"} :
         sender' = [w \in Window |-> IF w \in given_up THEN "failed" ELSE sender[w]]
  BY <1>1, <1>3, Zenon
<1>5. Promise!Lose
  BY <1>2, <1>4 DEF Promise!Lose
<1> QED
  BY <1>5 DEF Promise!Next

\* The sender in the server's process.
LEMMA AdderPromise ==
  ASSUME Inv, outlet = "flight", outlet' = outlet, NEW w \in Window,
         Flight!SendAggregatedData(w) \/ Flight!Lock(w) \/ Flight!AddAggregatedData(w)
  PROVE  [Promise!Next]_Promise!vars
<1> USE DEF Flight!serverVars, Flight!clientVars
<1>1. CASE Flight!SendAggregatedData(w)
  <2>1. Promise!Send(w)
    BY <1>1 DEF Flight!SendAggregatedData, Promise!Send
  <2> QED
    BY <2>1 DEF Promise!Next
<1>2. CASE Flight!Lock(w)
  BY <1>2 DEF Flight!Lock, Promise!vars
<1>3. CASE Flight!AddAggregatedData(w)
  <2>1. adder[w] = "sending" /\ w \notin added
    BY <1>3, NoneAssumption
       DEF Flight!AddAggregatedData, Inv, FlightInv, AddersFit
  <2>2. Promise!StoreAndReturn(w)
    BY <1>3, <2>1
       DEF Flight!AddAggregatedData, Promise!StoreAndReturn, Promise!Stored,
           Promise!Returns
  <2> QED
    BY <2>2 DEF Promise!Next
<1> QED
  BY <1>1, <1>2, <1>3

\* A client that gives its call up.
LEMMA GiveUpPromise ==
  ASSUME outlet = "flight", outlet' = outlet, since' = None,
         UNCHANGED <<adder, added, data, table>>
  PROVE  [Promise!Next]_Promise!vars
<1> PICK r \in Reader : Reader = {r}
  BY OneReader
<1>1. Promise!GiveUp(r)
  BY DEF Promise!GiveUp
<1> QED
  BY <1>1 DEF Promise!Next

\* A call that is served is answered with what was there, or the client stays,
\* or it is sent away.
LEMMA ServePromise ==
  ASSUME Inv, outlet = "flight", outlet' = outlet, NEW s \in Stream, Flight!Serve(s)
  PROVE  [Promise!Next]_Promise!vars
<1>1. CASE Flight!DoGet(s)
  <2>1. UNCHANGED <<adder, added, data, table>> /\ (since' = None \/ since' = since)
    BY <1>1 DEF Flight!DoGet, Flight!Returned
  <2>2. CASE since' = None
    BY <2>1, <2>2, GiveUpPromise
  <2>3. CASE since' = since
    BY <2>1, <2>3 DEF Promise!vars
  <2> QED
    BY <2>1, <2>2, <2>3
<1>2. CASE Flight!TableWritten(s)
  <2>1. /\ UNCHANGED <<adder, added, data>> /\ since' = None /\ table' = size[s]
        /\ stream = s /\ handler[s] = "writing"
    BY <1>2 DEF Flight!TableWritten, Flight!Leave
  <2>2. Len(data) \in Nat /\ size[s] \in Nat
    BY LenProperties DEF Inv, FlightInv, Flight!FlightTypeOK
  <2>3. since # None /\ table' \in since .. Len(data)
    BY <2>1, <2>2, NoneAssumption DEF Inv, FlightInv, CallsFit
  <2> PICK r \in Reader : Reader = {r}
    BY OneReader
  <2>4. Promise!Answer(r)
    BY <2>1, <2>3 DEF Promise!Answer
  <2> QED
    BY <2>4 DEF Promise!Next
<1>3. CASE Flight!WriteFails(s)
  BY <1>3 DEF Flight!WriteFails, Flight!Leave, Flight!clientVars, Promise!vars
<1> QED
  BY <1>1, <1>2, <1>3 DEF Flight!Serve

\* The client asks, gives up, or does what the server does not see.
LEMMA ClientPromise ==
  ASSUME Inv, outlet = "flight", outlet' = outlet,
         Flight!Client \/ Flight!FetchFails \/ Flight!ClientDies
  PROVE  [Promise!Next]_Promise!vars
<1>1. CASE Flight!FetchData
  <2>1. /\ UNCHANGED <<adder, added, data, table>> /\ since' = Len(data)
        /\ since = None
    BY <1>1 DEF Flight!FetchData, Inv, FlightInv, CallsFit
  <2> PICK r \in Reader : Reader = {r}
    BY OneReader
  <2>2. Promise!Ask(r)
    BY <2>1 DEF Promise!Ask
  <2> QED
    BY <2>2 DEF Promise!Next
<1>2. CASE Flight!FetchFails \/ Flight!ServerGone \/ Flight!ClientDies
  BY <1>2, GiveUpPromise
     DEF Flight!FetchFails, Flight!ServerGone, Flight!ClientDies, Flight!Returned,
         Flight!serverVars
<1>3. CASE Flight!Connect \/ Flight!ProcessData \/ Flight!Wakes
  BY <1>3 DEF Flight!Connect, Flight!ProcessData, Flight!Wakes, Flight!serverVars,
              Promise!vars
<1> QED
  BY <1>1, <1>2, <1>3 DEF Flight!Client

\* A restart of the server loses the store, and the sends in its process with it.
LEMMA ServerRestartPromise ==
  ASSUME Inv, outlet = "flight", outlet' = outlet, Flight!Restart
  PROVE  [Promise!Next]_Promise!vars
<1> DEFINE lost == {w \in Window : adder[w] = "sending"}
<1>1. adder' = [w \in Window |-> IF w \in lost THEN "failed" ELSE adder[w]]
  BY DEF Flight!Restart
<1>2. data' = <<>> /\ since' = None /\ UNCHANGED <<added, table>>
  BY DEF Flight!Restart
<1>3. Promise!Lose
  BY <1>1, <1>2 DEF Promise!Lose
<1> QED
  BY <1>3 DEF Promise!Next

LEMMA PromiseStep == Inv /\ [Next]_vars => [Promise!Next]_Promise!vars
<1> SUFFICES ASSUME Inv, [Next]_vars PROVE [Promise!Next]_Promise!vars
  OBVIOUS
<1>1. CASE HttpStep
  BY <1>1, RequestPromise, ReaderPromise, RestartPromise DEF HttpStep, Http!HttpNext
<1>2. CASE FlightStep
  <2>1. CASE \E p \in Put : Flight!SendPut(p) \/ Flight!DoPut(p) \/ Flight!PutFails(p)
    BY <1>2, <2>1 DEF FlightStep, Flight!SendPut, Flight!DoPut, Flight!PutFails,
                      Flight!serverVars, Flight!clientVars, Promise!vars, Http!Asked,
                      Http!Answers
  <2> QED
    BY <1>2, <2>1, AdderPromise, ServePromise, ClientPromise, ServerRestartPromise
       DEF FlightStep, Flight!FlightNext, Flight!Add
<1>3. CASE UNCHANGED vars
  BY <1>3 DEF vars, Promise!vars, Http!Asked, Http!Answers
<1> QED
  BY <1>1, <1>2, <1>3 DEF Next

\* Whichever sender the collector has, it is one of a store of windows: nothing is
\* stored twice, what was sent without an error is stored, and a reader that asks
\* afterwards is told of it unless the service was restarted (SendAggregatedData
\* of sender.go and flight_sender.go, receive_aggregate, get_stats, DoGet).
THEOREM Implementation == Spec => ImplementsStore
  BY PromiseInit, PromiseStep, Invariant, PTL DEF Spec, ImplementsStore, Promise!Spec
=============================================================================
