---------------------------- MODULE KafkaAnalyzer ----------------------------
(***************************************************************************)
(* The Kafka analyzer (python/kafka_analyzer.py) behind the Kafka sender.  *)
(* A run of the analyzer is one asyncio program: it waits for the next     *)
(* message and for the stop event at the same time, adds a message to its  *)
(* statistics, and prints and clears them when a message arrives and the   *)
(* report interval is over.  The consumer commits the position in the      *)
(* background and once more when it is stopped; a new run goes on at the   *)
(* committed position, or at the end of the topic when there is none.      *)
(* Statistics are the set of the offsets they are made of.                 *)
(***************************************************************************)
EXTENDS KafkaSender

CONSTANTS
    NoOffset,
    MaxRuns,     \* bound: runs of the analyzer
    MaxFaults    \* bound: crashes, failed commits and failed fetches

ASSUME NoOffsetAssumption == NoOffset \notin Nat
ASSUME BoundsAssumption == MaxRuns \in Nat /\ MaxFaults \in Nat

VARIABLES
    pc,          \* "down", "starting", "waiting", "resuming", "closing", "leaving"
    stop,        \* the stop event of this run
    position,    \* the offset getone returns next
    committed,   \* the group's offset at the broker
    stats,       \* offsets in meter_stats and window_count
    first,       \* history: the position at which this run began
    shown,       \* history: offsets in the reports of this run
    dropped,     \* history: offsets this run got and threw away
    origin,      \* history: the position at which the first run began
    reported,    \* history: how often each offset is in a report of any run
    unused,      \* history: offsets any run got and threw away
    runs, faults

runVars == <<stop, position, stats, first, shown, dropped>>
history == <<origin, reported, unused, runs>>
analyzerVars == <<pc, runVars, committed, history, faults>>
vars == <<senderVars, analyzerVars>>

Init ==
    /\ SenderInit
    /\ pc = "down" /\ stop = FALSE
    /\ position = NoOffset /\ committed = NoOffset /\ first = NoOffset
    /\ stats = {} /\ shown = {} /\ dropped = {}
    /\ origin = NoOffset
    /\ reported = [o \in Offset |-> 0]
    /\ unused = {}
    /\ runs = 0 /\ faults = 0

Fault == faults < MaxFaults /\ faults' = faults + 1

\* Nothing changes but the place in the program.
Goto(place) ==
    /\ pc' = place
    /\ UNCHANGED <<senderVars, runVars, committed, history, faults>>

\* The process is started: globals are fresh, the signal handlers are set and
\* consumer.start is awaited.
Start ==
    /\ pc = "down" /\ runs < MaxRuns
    /\ pc' = "starting" /\ stop' = FALSE
    /\ position' = NoOffset /\ first' = NoOffset
    /\ stats' = {} /\ shown' = {} /\ dropped' = {}
    /\ runs' = runs + 1
    /\ UNCHANGED <<senderVars, committed, origin, reported, unused, faults>>

\* The `while' condition: the loop ends with the stop event.
NextRound == IF stop THEN "closing" ELSE "waiting"

Started ==
    /\ pc = "starting"
    /\ Goto(NextRound)

\* The consumer finds the position it begins at.
Assigned ==
    /\ pc = "waiting" /\ position = NoOffset
    /\ position' = IF committed = NoOffset THEN Len(topic) ELSE committed
    /\ first' = position'
    /\ origin' = IF origin = NoOffset THEN position' ELSE origin
    /\ UNCHANGED <<senderVars, pc, stop, committed, stats, shown, dropped,
                   reported, unused, runs, faults>>

\* SIGINT or SIGTERM.
Shutdown ==
    /\ pc # "down" /\ ~stop
    /\ stop' = TRUE
    /\ UNCHANGED <<senderVars, pc, position, committed, stats, first, shown,
                   dropped, history, faults>>

\* A slip: the consumer waits until there is more to fetch.
GetOneOfTwo ==
    /\ pc = "waiting" /\ position # NoOffset /\ position + 1 < Len(topic)
    /\ position' = position + 1
    /\ pc' = "resuming"
    /\ UNCHANGED <<senderVars, stop, committed, stats, first, shown, dropped,
                   history, faults>>

\* The task of getone ends with the next message; main is not yet resumed.
\* The stop event may have been set in the same turn of the event loop.
GetOne ==
    /\ pc = "waiting" /\ position # NoOffset /\ position < Len(topic)
    /\ position' = position + 1
    /\ pc' = "resuming"
    /\ UNCHANGED <<senderVars, stop, committed, stats, first, shown, dropped,
                   history, faults>>

\* getone raises; main leaves the loop with the error.
GetOneFails ==
    /\ pc = "waiting" /\ Fault
    /\ pc' = "closing"
    /\ UNCHANGED <<senderVars, runVars, committed, history>>

\* A slip: main waits for the message only.
StopWaitsForMessage ==
    /\ pc = "waiting" /\ stop /\ position # NoOffset /\ position < Len(topic)
    /\ Goto("closing")

\* main is resumed by the stop event alone and cancels getone.
StopWakes ==
    /\ pc = "waiting" /\ stop
    /\ Goto("closing")

\* The message that main is resumed with.
Message == position - 1

\* Both tasks are done: the message is not looked at.
DropMessage ==
    /\ pc = "resuming" /\ stop
    /\ dropped' = dropped \cup {Message}
    /\ unused' = unused \cup {Message}
    /\ pc' = "closing"
    /\ UNCHANGED <<senderVars, stop, position, committed, stats, first, shown,
                   origin, reported, runs, faults>>

\* A slip: meter_stats is not cleared.
PrintReportKeeps(s) ==
    /\ shown' = shown \cup s
    /\ reported' = [o \in Offset |-> reported[o] + IF o \in s THEN 1 ELSE 0]
    /\ stats' = s

\* print_report: the statistics are printed and cleared.
PrintReport(s) ==
    /\ shown' = shown \cup s
    /\ reported' = [o \in Offset |-> reported[o] + IF o \in s THEN 1 ELSE 0]
    /\ stats' = {}

\* The message is added to the statistics, which are printed if the report
\* interval is over.  The wait may have seen the message only although the
\* event was set since.
HandleMessage ==
    /\ pc = "resuming"
    /\ \/ /\ stats' = stats \cup {Message}
          /\ UNCHANGED <<shown, reported>>
       \/ PrintReport(stats \cup {Message})
    /\ pc' = NextRound
    /\ UNCHANGED <<senderVars, stop, position, committed, first, dropped,
                   origin, unused, runs, faults>>

\* enable_auto_commit: from time to time the position is committed, that of
\* messages included which main has not looked at.
AutoCommit ==
    /\ pc \in {"waiting", "resuming", "closing"}
    /\ position # NoOffset /\ committed # position
    /\ committed' = position
    /\ UNCHANGED <<senderVars, pc, runVars, history, faults>>

\* A slip: the consumer is not stopped before the process ends.
NoConsumerStop ==
    /\ pc = "closing"
    /\ Goto("leaving")

\* consumer.stop commits the position a last time.
ConsumerStop ==
    /\ pc = "closing"
    /\ committed' = IF position = NoOffset THEN committed ELSE position
    /\ pc' = "leaving"
    /\ UNCHANGED <<senderVars, runVars, history, faults>>

\* The last commit fails: the consumer logs it, or stop raises and the last
\* report is skipped.
LastCommitFails ==
    /\ pc = "closing" /\ Fault
    /\ pc' \in {"leaving", "down"}
    /\ UNCHANGED <<senderVars, runVars, committed, history>>

\* What is left is printed, and the process ends.
LastReport ==
    /\ pc = "leaving"
    /\ PrintReport(stats)
    /\ pc' = "down"
    /\ UNCHANGED <<senderVars, stop, position, committed, first, dropped,
                   origin, unused, runs, faults>>

\* The process is killed: its statistics are gone.
Crash ==
    /\ pc # "down" /\ Fault
    /\ pc' = "down" /\ stop' = FALSE
    /\ position' = NoOffset /\ first' = NoOffset
    /\ stats' = {} /\ shown' = {} /\ dropped' = {}
    /\ UNCHANGED <<senderVars, committed, history>>

Run ==
    \/ Started \/ Assigned \/ GetOne \/ StopWakes \/ DropMessage
    \/ HandleMessage \/ ConsumerStop \/ LastReport

Send == SenderNext /\ UNCHANGED analyzerVars

Next ==
    \/ Send
    \/ Start \/ Shutdown \/ Run \/ AutoCommit
    \/ GetOneFails \/ LastCommitFails \/ Crash

Spec == Init /\ [][Next]_vars

\* The event loop resumes what can go on.  Nobody need send, stop or start.
FairSpec == Spec /\ WF_vars(Run)
-----------------------------------------------------------------------------
TypeOK ==
    /\ SenderTypeOK
    /\ pc \in {"down", "starting", "waiting", "resuming", "closing", "leaving"}
    /\ stop \in BOOLEAN
    /\ {position, committed, first, origin} \subseteq Nat \cup {NoOffset}
    /\ {stats, shown, dropped, unused} \subseteq SUBSET Nat
    /\ reported \in [Offset -> Nat]
    /\ runs \in 0 .. MaxRuns /\ faults \in 0 .. MaxFaults

\* A run accounts for every message it got: it is in one report of this run, or
\* in the statistics of the next one, or main is about to look at it; at most
\* one was thrown away, for the stop, and it was the last (main, lines 90-128,
\* and print_report).
RunAccounts ==
    position # NoOffset =>
        LET held == IF pc = "resuming" THEN {Message} ELSE {}
        IN /\ first .. position - 1 = shown \cup stats \cup dropped \cup held
           /\ shown \cap stats = {}
           /\ (shown \cup stats) \cap (dropped \cup held) = {}
           /\ dropped # {} => stop /\ dropped = {Message}

\* Without faults nothing is counted twice or passed over from the first
\* message on, over any number of restarts, but for at most one message per
\* stop; and what a run leaves behind is committed and printed (lines 98-100,
\* 132-135, and the auto-commit of lines 73-76).
CleanRestarts ==
    faults = 0 /\ pc = "down" /\ origin # NoOffset =>
        /\ committed # NoOffset
        /\ \A o \in Offset :
              reported[o] = IF o \in (origin .. committed - 1) \ unused
                            THEN 1 ELSE 0
        /\ Cardinality(unused) <= runs

\* A message is in more than one report only if the analyzer, or a commit,
\* failed: each fault lets it be counted once more.
RepeatsNeedFaults == \A o \in Offset : reported[o] <= 1 + faults

\* Over its runs the analyzer reports each message once, as far as nothing fails,
\* and not much more often when something does.
RestartsCountOnce == CleanRestarts /\ RepeatsNeedFaults

\* Under fairness the analyzer reaches every message behind its position
\* unless it is stopped or fails.
KeepsUp ==
    \A o \in Offset :
        (position # NoOffset /\ position <= o /\ o < Len(topic)) ~>
            (pc = "down" \/ (position # NoOffset /\ position > o))

\* A signal ends the run, whatever goes on in the topic.
StopEnds == stop /\ pc # "down" ~> pc = "down"
=============================================================================
