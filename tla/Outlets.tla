------------------------------- MODULE Outlets -------------------------------
(***************************************************************************)
(* A collector hands its windows to the sender it was built with, which    *)
(* all have one method, SendAggregatedData.  Of the two that end at a      *)
(* store in memory this module has the choice: the HTTP sender with the    *)
(* aggregation service, or the Flight sender with the Flight server.  Both *)
(* implement WindowStore.                                                  *)
(***************************************************************************)
EXTENDS Naturals, Sequences, FiniteSets

CONSTANTS
    Window, Reader, None,
    Body, MaxRestarts,        \* of AggregationService
    Put, Stream, MaxFaults    \* of FlightServer

\* The Flight server has one client.
ASSUME OneReader == \E r \in Reader : Reader = {r}
ASSUME BodyAssumption == Body \in [Window -> SUBSET {"map", "list", "empty"}]
ASSUME BoundsAssumption == MaxRestarts \in Nat /\ MaxFaults \in Nat

VARIABLES
    outlet,                                                     \* "http" or "flight"
    sender, request, store, taken, stats, told, restarts,       \* AggregationService
    adder, writer, readers, data, added, handler, size,
    client, stream, since, table, put, closeEnds, faults        \* FlightServer

Http   == INSTANCE AggregationService
Flight == INSTANCE FlightServer

ASSUME NoneAssumption == None \notin Nat \cup Window \cup Stream \cup Http!Requests

httpVars == <<sender, request, store, taken, stats, told, restarts>>
flightVars == <<adder, writer, readers, data, added, handler, size,
                client, stream, since, table, put, closeEnds, faults>>
vars == <<outlet, httpVars, flightVars>>

Init ==
    /\ outlet \in {"http", "flight"}
    /\ Http!HttpInit /\ Flight!FlightInit

HttpStep   == outlet = "http" /\ Http!HttpNext /\ UNCHANGED <<outlet, flightVars>>
FlightStep == outlet = "flight" /\ Flight!FlightNext /\ UNCHANGED <<outlet, httpVars>>

Next == HttpStep \/ FlightStep

Spec == Init /\ [][Next]_vars

\* The time-out of the HTTP client ends a send.
HttpFairness ==
    \A w \in Window :
        WF_vars(/\ outlet = "http" /\ Http!SendFails(w)
                /\ UNCHANGED <<outlet, flightVars>>)

\* The goroutines of the server and the loop of the client go on.  The stream of
\* a put need not end, and nobody need send.
FlightFairness ==
    LET Fair(A) == outlet = "flight" /\ A /\ UNCHANGED <<outlet, httpVars>>
    IN  /\ WF_vars(Fair(Flight!Add)) /\ WF_vars(Fair(Flight!Client))
        /\ \A s \in Stream : WF_vars(Fair(Flight!Serve(s)))

FairSpec == Spec /\ HttpFairness /\ FlightFairness

-----------------------------------------------------------------------------
TypeOK == outlet \in {"http", "flight"} /\ Http!HttpTypeOK /\ Flight!FlightTypeOK

Sending(w) == (IF outlet = "http" THEN sender ELSE adder)[w] = "sending"

\* Whichever sender the collector has, it is one of a store of windows.
Promise == INSTANCE WindowStore
             WITH status   <- IF outlet = "http" THEN sender ELSE adder,
                  accepted <- IF outlet = "http" THEN taken ELSE added,
                  stored   <- IF outlet = "http" THEN store ELSE data,
                  asked    <- IF outlet = "http" THEN Http!Asked
                              ELSE [r \in Reader |-> since],
                  answer   <- IF outlet = "http" THEN Http!Answers
                              ELSE [r \in Reader |-> table]

ImplementsStore == Promise!Spec

StatsInOrder == Http!StatsInOrder

\* A send returns: the HTTP client has a time-out, and the lock that the Flight
\* sender waits for is not kept by a reader that is gone, or by a put whose
\* stream never ends.
SendsReturn == \A w \in Window : Sending(w) ~> ~Sending(w)

\* What the Flight server has is fetched by the client, after any number of
\* failed fetches, restarts and empty answers, unless the server loses it.
ClientCatchesUp ==
    \A n \in 1 .. Cardinality(Window) :
        Len(data) >= n ~> (table >= n \/ Len(data) < n)

\* "Sending data to the Flight server with DoPut, and delivery of the data to the
\* Python client with DoGet" (PROMPT_LOG.md:25): as long as nothing fails, the server
\* has, for DoGet, a window for each that was added and each whose put succeeded.
PutsAreServed ==
    faults = 0 =>
        Len(data) >= Cardinality(added) + Cardinality({p \in Put : put[p] = "ok"})
=============================================================================
