-------------------------- MODULE AggregationService --------------------------
(***************************************************************************)
(* The HTTP sender (pkg/sender/sender.go) and the aggregation service      *)
(* (python/aggregation_service.py).  The sender posts a window and waits   *)
(* for the answer no longer than its client's time-out; the request may be *)
(* served all the same.  Flask serves each request in a thread of its own: *)
(* a posted window is put into the list before it is looked at, and /stats *)
(* reads the list several times, without a lock, while others append.  The *)
(* bodies are JSON objects.                                                *)
(***************************************************************************)
EXTENDS Naturals, Sequences

CONSTANTS
    Window,        \* the windows that are posted
    Body,          \* of each: what may be posted: a "map" or a "list" of metrics, or "empty"
    Reader,        \* the clients of /stats
    MaxRestarts,   \* bound: restarts of the service
    None

VARIABLES
    sender,     \* of each window's send: "idle", "sending", "ok" or "failed"
    request,    \* of each: "none", "sent", "stored", "200", "error" or "lost"
    store,      \* aggregated_data_store
    taken,      \* history: the windows that were put into it
    stats,      \* of each reader: the request it waits for, None if it waits for none
    told,       \* of each reader: the last answer of /stats
    restarts

httpVars == <<sender, request, store, taken, stats, told, restarts>>

\* An answer: how many items of the list each of its fields is made of.
NoFigures == [readings |-> 0, windows |-> 0, collectors |-> 0, latest |-> 0]

HttpInit ==
    /\ sender = [w \in Window |-> "idle"]
    /\ request = [w \in Window |-> "none"]
    /\ store = <<>> /\ taken = {}
    /\ stats = [r \in Reader |-> None]
    /\ told = [r \in Reader |-> NoFigures]
    /\ restarts = 0

-----------------------------------------------------------------------------
(* The sender *)

SendAggregatedData(w) ==
    /\ sender[w] = "idle"
    /\ sender' = [sender EXCEPT ![w] = "sending"]
    /\ request' = [request EXCEPT ![w] = "sent"]
    /\ UNCHANGED <<store, taken, stats, told, restarts>>

\* A slip: every answer will do.
SendReturnsOk(w) ==
    /\ sender[w] = "sending" /\ request[w] \in {"200", "error"}
    /\ sender' = [sender EXCEPT ![w] = "ok"]
    /\ UNCHANGED <<request, store, taken, stats, told, restarts>>

\* The answer arrives.
SendReturns(w) ==
    /\ sender[w] = "sending" /\ request[w] \in {"200", "error"}
    /\ sender' = [sender EXCEPT ![w] = IF request[w] = "200" THEN "ok" ELSE "failed"]
    /\ UNCHANGED <<request, store, taken, stats, told, restarts>>

\* The time-out, the end of the context, or an error of the connection.  The
\* request is where it was.
SendFails(w) ==
    /\ sender[w] = "sending"
    /\ sender' = [sender EXCEPT ![w] = "failed"]
    /\ UNCHANGED <<request, store, taken, stats, told, restarts>>

\* A lost answer is a send that fails.
RequestLost(w) ==
    /\ request[w] = "sent"
    /\ request' = [request EXCEPT ![w] = "lost"]
    /\ UNCHANGED <<sender, store, taken, stats, told, restarts>>

-----------------------------------------------------------------------------
(* The service *)

\* A slip: a refusal is answered with a code of its own.
RefuseWithCode(w) ==
    /\ request[w] = "sent" /\ "empty" \in Body[w]
    /\ request' = [request EXCEPT ![w] = "400"]
    /\ UNCHANGED <<sender, store, taken, stats, told, restarts>>

\* A request without data is refused.
Refuse(w) ==
    /\ request[w] = "sent" /\ "empty" \in Body[w]
    /\ request' = [request EXCEPT ![w] = "error"]
    /\ UNCHANGED <<sender, store, taken, stats, told, restarts>>

\* Other data is stored, whatever it is.
ReceiveAggregate(w) ==
    /\ request[w] = "sent" /\ Body[w] # {"empty"}
    /\ request' = [request EXCEPT ![w] = "stored"]
    /\ store' = Append(store, w)
    /\ taken' = taken \cup {w}
    /\ UNCHANGED <<sender, stats, told, restarts>>

\* Metrics that are no map raise, and the answer is 500.
Process(w) ==
    /\ request[w] = "stored"
    /\ \E body \in Body[w] \ {"empty"} :
         request' = [request EXCEPT ![w] = IF body = "map" THEN "200" ELSE "error"]
    /\ UNCHANGED <<sender, store, taken, stats, told, restarts>>

\* A reader asks.  `since' is history: what the list held then.
Ask(r) ==
    /\ stats[r] = None
    /\ stats' = [stats EXCEPT ![r] = [at |-> "check", since |-> Len(store),
                                      figures |-> NoFigures]]
    /\ UNCHANGED <<sender, request, store, taken, told, restarts>>

Answered(r, figures) ==
    /\ stats' = [stats EXCEPT ![r] = None]
    /\ told' = [told EXCEPT ![r] = figures]

\* An empty list is answered at once.
CheckEmpty(r) ==
    /\ stats[r] # None /\ stats[r].at = "check"
    /\ IF store = <<>>
       THEN Answered(r, NoFigures)
       ELSE stats' = [stats EXCEPT ![r].at = "readings"] /\ UNCHANGED told
    /\ UNCHANGED <<sender, request, store, taken, restarts>>

\* The list is gone through for one field, and the next one is turned to.
Figure(r, place, field, next) ==
    /\ stats[r] # None /\ stats[r].at = place
    /\ stats' = [stats EXCEPT ![r].at = next, ![r].figures[field] = Len(store)]
    /\ UNCHANGED <<sender, request, store, taken, told, restarts>>

\* A slip: the windows are counted before their readings.
GetStatsSwapped(r) ==
    \/ Figure(r, "readings", "windows", "windows")
    \/ Figure(r, "windows", "readings", "collectors")
    \/ Figure(r, "collectors", "collectors", "latest")

GetStats(r) ==
    \/ Figure(r, "readings", "readings", "windows")
    \/ Figure(r, "windows", "windows", "collectors")
    \/ Figure(r, "collectors", "collectors", "latest")

\* The last field, and the answer.
GetLatest(r) ==
    /\ stats[r] # None /\ stats[r].at = "latest"
    /\ Answered(r, [stats[r].figures EXCEPT !.latest = Len(store)])
    /\ UNCHANGED <<sender, request, store, taken, restarts>>

\* The process ends and is started again: the list and the requests in it are
\* gone, not those that have not arrived or have been answered.
Restart ==
    /\ restarts < MaxRestarts
    /\ restarts' = restarts + 1
    /\ store' = <<>>
    /\ request' = [w \in Window |-> IF request[w] = "stored" THEN "lost" ELSE request[w]]
    /\ stats' = [r \in Reader |-> None]
    /\ UNCHANGED <<sender, taken, told>>

HttpNext ==
    \/ \E w \in Window :
          \/ SendAggregatedData(w) \/ SendReturns(w) \/ SendFails(w) \/ RequestLost(w)
          \/ Refuse(w) \/ ReceiveAggregate(w) \/ Process(w)
    \/ \E r \in Reader : Ask(r) \/ CheckEmpty(r) \/ GetStats(r) \/ GetLatest(r)
    \/ Restart

HttpSpec == HttpInit /\ [][HttpNext]_httpVars

-----------------------------------------------------------------------------
Figures == [readings : Nat, windows : Nat, collectors : Nat, latest : Nat]

Requests == [at : {"check", "readings", "windows", "collectors", "latest"},
             since : Nat, figures : Figures]

HttpTypeOK ==
    /\ sender \in [Window -> {"idle", "sending", "ok", "failed"}]
    /\ request \in [Window -> {"none", "sent", "stored", "200", "error", "lost"}]
    /\ store \in Seq(Window) /\ taken \subseteq Window
    /\ stats \in [Reader -> Requests \cup {None}]
    /\ told \in [Reader -> Figures]
    /\ restarts \in 0 .. MaxRestarts

\* What the readers of WindowStore ask and are answered.
Asked   == [r \in Reader |-> IF stats[r] = None THEN None ELSE stats[r].since]
Answers == [r \in Reader |-> told[r].windows]

\* The fields of an answer are read one after the other while windows come in: a
\* window whose readings are in the total is counted, one that is counted is its
\* collector's, and the latest window is none from before (get_stats, 54-68).
StatsInOrder ==
    \A r \in Reader :
        /\ told[r].readings <= told[r].windows
        /\ told[r].windows <= told[r].collectors
        /\ told[r].collectors <= told[r].latest
=============================================================================
