----------------------------- MODULE FlightServer -----------------------------
(***************************************************************************)
(* The Arrow Flight server (pkg/flightserver/server.go), the sender in its *)
(* process (pkg/sender/flight_sender.go), the sender that puts windows     *)
(* over the network (pkg/sender/flight_client_sender.go), and the Python   *)
(* client that fetches the table every 30 seconds (python/flight_client.py)*)
(*                                                                         *)
(* The windows are guarded by a sync.RWMutex.  DoGet holds it for reading  *)
(* until its table is written to the client, and a writer that waits lets  *)
(* no further reader in.  DoPut reads its stream to the end, and keeps     *)
(* nothing.  A table is the number of windows in it.                       *)
(***************************************************************************)
EXTENDS Naturals, Sequences

CONSTANTS
    Window,      \* the windows that the sender in the process adds
    Put,         \* the windows that the other sender puts
    Stream,      \* the calls of DoGet that may be served at a time
    MaxFaults,   \* bound: restarts, failed fetches and deaths of the client
    None

VARIABLES
    adder,      \* of each window's send: "idle", "sending", "ok" or "failed"
    writer,     \* the window whose Lock was called, None for none
    readers,    \* the streams that hold RLock
    data,       \* fs.data
    added,      \* history: the windows that were appended to it
    handler,    \* of each call of DoGet: "none", "asking" or "writing"
    size,       \* of each: the table it writes
    client,     \* where the client is
    stream,     \* the call it waits for
    since,      \* history: what the server had when it called, None if it waits for none
    table,      \* the last table it got
    put,        \* of each put: "idle", "open", "ok" or "failed"
    closeEnds,  \* whether closing the record writer ends the stream
    faults

serverVars == <<writer, readers, data, added, handler, size>>
clientVars == <<client, stream, since, table>>
putVars == <<put, closeEnds>>
flightVars == <<adder, serverVars, clientVars, putVars, faults>>

FlightInit ==
    /\ adder = [w \in Window |-> "idle"]
    /\ writer = None /\ readers = {} /\ data = <<>> /\ added = {}
    /\ handler = [s \in Stream |-> "none"]
    /\ size = [s \in Stream |-> 0]
    /\ client = "connect" /\ stream = None /\ since = None /\ table = 0
    /\ put = [p \in Put |-> "idle"]
    /\ closeEnds \in BOOLEAN
    /\ faults = 0

Fault == faults < MaxFaults /\ faults' = faults + 1

-----------------------------------------------------------------------------
(* The sender in the server's process *)

SendAggregatedData(w) ==
    /\ adder[w] = "idle"
    /\ adder' = [adder EXCEPT ![w] = "sending"]
    /\ UNCHANGED <<serverVars, clientVars, putVars, faults>>

\* Lock: one writer waits for the readers to leave, and keeps new ones out.
Lock(w) ==
    /\ adder[w] = "sending" /\ writer = None
    /\ writer' = w
    /\ UNCHANGED <<adder, readers, data, added, handler, size, clientVars, putVars, faults>>

\* A slip: DoPut holds RLock while it reads its stream.
NoReadersNorPuts == readers = {} /\ \A p \in Put : put[p] # "open"

\* Nobody has the lock for reading.
NoReaders == readers = {}

\* The window is appended, and the send returns.
AddAggregatedData(w) ==
    /\ writer = w /\ NoReaders
    /\ data' = Append(data, w)
    /\ added' = added \cup {w}
    /\ writer' = None
    /\ adder' = [adder EXCEPT ![w] = "ok"]
    /\ UNCHANGED <<readers, handler, size, clientVars, putVars, faults>>

-----------------------------------------------------------------------------
(* DoGet *)

\* The client no longer waits.  A fetch that failed is no reason to leave.
Returned == client' = "sleep" /\ stream' = None /\ since' = None

\* RLock, and the table is built; without windows the call fails at once.
DoGet(s) ==
    /\ handler[s] = "asking" /\ writer = None
    /\ IF data = <<>>
       THEN /\ handler' = [handler EXCEPT ![s] = "none"]
            /\ IF stream = s THEN Returned
                             ELSE UNCHANGED <<client, stream, since>>
            /\ UNCHANGED <<readers, size>>
       ELSE /\ handler' = [handler EXCEPT ![s] = "writing"]
            /\ readers' = readers \cup {s}
            /\ size' = [size EXCEPT ![s] = Len(data)]
            /\ UNCHANGED <<client, stream, since>>
    /\ UNCHANGED <<adder, writer, data, added, table, putVars, faults>>

\* RUnlock, when the handler ends.
Leave(s) ==
    /\ handler' = [handler EXCEPT ![s] = "none"]
    /\ readers' = readers \ {s}
    /\ UNCHANGED <<writer, data, added, size>>

\* The client has read the table.
TableWritten(s) ==
    /\ handler[s] = "writing" /\ stream = s
    /\ Leave(s)
    /\ table' = size[s]
    /\ client' = "process" /\ stream' = None /\ since' = None
    /\ UNCHANGED <<adder, putVars, faults>>

\* The client is gone, and the write fails.
WriteFails(s) ==
    /\ handler[s] = "writing" /\ stream # s
    /\ Leave(s)
    /\ UNCHANGED <<adder, clientVars, putVars, faults>>

-----------------------------------------------------------------------------
(* The client *)

Connect ==
    /\ client = "connect"
    /\ client' = "fetch"
    /\ UNCHANGED <<adder, serverVars, stream, since, table, putVars, faults>>

\* fetch_data calls DoGet.
FetchData ==
    /\ client = "fetch"
    /\ \E s \in Stream :
         /\ handler[s] = "none"
         /\ handler' = [handler EXCEPT ![s] = "asking"]
         /\ stream' = s
    /\ client' = "reading" /\ since' = Len(data)
    /\ UNCHANGED <<adder, writer, readers, data, added, size, table, putVars, faults>>

\* An error of the network: fetch_data returns None.
FetchFails ==
    /\ client = "reading" /\ Fault
    /\ Returned
    /\ UNCHANGED <<adder, serverVars, table, putVars>>

\* So it does when the server that was called is no longer there.
ServerGone ==
    /\ client = "reading" /\ handler[stream] = "none"
    /\ Returned
    /\ UNCHANGED <<adder, serverVars, table, putVars, faults>>

ProcessData ==
    /\ client = "process"
    /\ client' = "sleep"
    /\ UNCHANGED <<adder, serverVars, stream, since, table, putVars, faults>>

\* A slip: the loop goes on only with a table that is not empty.
WakesIfServed ==
    /\ client = "sleep"
    /\ client' = IF table > 0 THEN "fetch" ELSE "sleep"
    /\ UNCHANGED <<adder, serverVars, stream, since, table, putVars, faults>>

\* The next round of main.
Wakes ==
    /\ client = "sleep"
    /\ client' = "fetch"
    /\ UNCHANGED <<adder, serverVars, stream, since, table, putVars, faults>>

\* The client is killed and started again.
ClientDies ==
    /\ Fault
    /\ client' = "connect" /\ stream' = None /\ since' = None
    /\ UNCHANGED <<adder, serverVars, table, putVars>>

-----------------------------------------------------------------------------
(* DoPut, and the sender that calls it *)

SendPut(p) ==
    /\ put[p] = "idle"
    /\ put' = [put EXCEPT ![p] = "open"]
    /\ UNCHANGED <<adder, serverVars, clientVars, closeEnds, faults>>

\* The stream ends, if closing the writer ends it, and the sender is answered.
DoPut(p) ==
    /\ put[p] = "open" /\ closeEnds
    /\ put' = [put EXCEPT ![p] = "ok"]
    /\ UNCHANGED <<adder, serverVars, clientVars, closeEnds, faults>>

\* The sender's context ends, or its connection.
PutFails(p) ==
    /\ put[p] = "open"
    /\ put' = [put EXCEPT ![p] = "failed"]
    /\ UNCHANGED <<adder, serverVars, clientVars, closeEnds, faults>>

\* The server's process ends, with the sender in it, and is started again.
Restart ==
    /\ Fault
    /\ data' = <<>> /\ writer' = None /\ readers' = {}
    /\ handler' = [s \in Stream |-> "none"]
    /\ adder' = [w \in Window |-> IF adder[w] = "sending" THEN "failed" ELSE adder[w]]
    /\ put' = [p \in Put |-> IF put[p] = "open" THEN "failed" ELSE put[p]]
    /\ since' = None
    /\ UNCHANGED <<added, size, client, stream, table, closeEnds>>

Add == \E w \in Window : Lock(w) \/ AddAggregatedData(w)
Serve(s) == DoGet(s) \/ TableWritten(s) \/ WriteFails(s)
Client == Connect \/ FetchData \/ ServerGone \/ ProcessData \/ Wakes

FlightNext ==
    \/ \E w \in Window : SendAggregatedData(w)
    \/ Add \/ Client \/ FetchFails \/ ClientDies
    \/ \E s \in Stream : Serve(s)
    \/ \E p \in Put : SendPut(p) \/ DoPut(p) \/ PutFails(p)
    \/ Restart

FlightSpec == FlightInit /\ [][FlightNext]_flightVars

-----------------------------------------------------------------------------
FlightTypeOK ==
    /\ adder \in [Window -> {"idle", "sending", "ok", "failed"}]
    /\ writer \in Window \cup {None} /\ readers \subseteq Stream
    /\ data \in Seq(Window) /\ added \subseteq Window
    /\ handler \in [Stream -> {"none", "asking", "writing"}]
    /\ size \in [Stream -> Nat]
    /\ client \in {"connect", "fetch", "reading", "process", "sleep"}
    /\ stream \in Stream \cup {None} /\ since \in Nat \cup {None} /\ table \in Nat
    /\ put \in [Put -> {"idle", "open", "ok", "failed"}]
    /\ closeEnds \in BOOLEAN
    /\ faults \in 0 .. MaxFaults
=============================================================================
