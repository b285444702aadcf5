------------------------- MODULE KafkaAnalyzerProofs -------------------------
(***************************************************************************)
(* What was sent is in the topic, and a run of the analyzer accounts for   *)
(* every message it got, for any batches, retries, runs and faults.        *)
(***************************************************************************)
EXTENDS KafkaAnalyzer, TLAPS, FiniteSetTheorems, SequenceTheorems

-----------------------------------------------------------------------------
(* The sender *)

\* The numbers of batch b: each of its requests is answered, lost, on its way, or
\* the one that is waited for; and what a successful send leaves.
Fits(b) ==
    /\ IsFiniteSet(Copies(b))
    /\ Cardinality(Copies(b)) + stray[b] <= attempts[b]
    /\ producer[b] = "sending" => Cardinality(Copies(b)) + stray[b] < attempts[b]
    /\ producer[b] = "idle" => attempts[b] = 0
    /\ producer[b] = "sent" => Copies(b) # {}
    /\ producer[b] = "sent" /\ attempts[b] = 1 => Cardinality(Copies(b)) = 1 /\ stray[b] = 0

SenderInv == SenderTypeOK /\ \A b \in Batch : Fits(b)

LEMMA SenderStarts == SenderInit => SenderInv
<1> SUFFICES ASSUME SenderInit PROVE SenderInv
  OBVIOUS
<1>1. topic \in Seq(Batch) /\ Len(topic) = 0
  BY EmptySeq DEF SenderInit
<1>2. \A b \in Batch : Copies(b) = {}
  BY <1>1 DEF Copies
<1>3. IsFiniteSet({}) /\ Cardinality({}) = 0
  BY FS_EmptySet
<1>4. ASSUME NEW b \in Batch PROVE Fits(b)
  <2>1. /\ producer[b] = "idle" /\ attempts[b] = 0 /\ stray[b] = 0 /\ Copies(b) = {}
        /\ IsFiniteSet(Copies(b)) /\ Cardinality(Copies(b)) = 0
    BY <1>2, <1>3 DEF SenderInit
  <2> QED
    BY <2>1 DEF Fits
<1> QED
  BY <1>1, <1>4, AttemptsAssumption DEF SenderInit, SenderInv, SenderTypeOK

\* A message that is written makes one more copy of its batch and of no other.
LEMMA AppendCopies ==
    ASSUME SenderTypeOK, NEW b \in Batch, Appended(b),
           \A c \in Batch : IsFiniteSet(Copies(c))
    PROVE  /\ topic' \in Seq(Batch)
           /\ \A c \in Batch : IsFiniteSet(Copies(c)')
           /\ Copies(b)' # {} /\ Cardinality(Copies(b)') = Cardinality(Copies(b)) + 1
           /\ \A c \in Batch \ {b} : Copies(c)' = Copies(c)
<1>1. /\ topic \in Seq(Batch) /\ Len(topic) \in Nat
      /\ topic' \in Seq(Batch) /\ Len(topic') = Len(topic) + 1
      /\ \A i \in 1 .. Len(topic) : topic'[i] = topic[i]
      /\ topic'[Len(topic) + 1] = b
  BY LenProperties, AppendProperties DEF SenderTypeOK, Appended
<1>2. Copies(b)' = Copies(b) \cup {Len(topic)} /\ Len(topic) \notin Copies(b)
  BY <1>1 DEF Copies
<1>3. \A c \in Batch \ {b} : Copies(c)' = Copies(c)
  BY <1>1 DEF Copies
<1>4. /\ IsFiniteSet(Copies(b) \cup {Len(topic)})
      /\ Cardinality(Copies(b) \cup {Len(topic)}) = Cardinality(Copies(b)) + 1
  BY <1>2, FS_AddElement
<1>5. \A c \in Batch : IsFiniteSet(Copies(c)')
  BY <1>2, <1>3, <1>4
<1> QED
  BY <1>1, <1>2, <1>3, <1>4, <1>5

\* A producer that tries again makes one request more, or fails.
LEMMA TriesOrFails ==
    ASSUME SenderTypeOK, NEW b \in Batch, TriesAgain(b)
    PROVE  /\ producer' \in [Batch -> {"idle", "sending", "sent", "failed"}]
           /\ attempts' \in [Batch -> 0 .. MaxAttempts]
           /\ \A c \in Batch \ {b} : producer'[c] = producer[c] /\ attempts'[c] = attempts[c]
           /\ producer[b] = "sending"
           /\ \/ producer'[b] = "sending" /\ attempts'[b] = attempts[b] + 1
              \/ producer'[b] = "failed" /\ attempts'[b] = attempts[b]
<1>1. /\ MaxAttempts \in Nat /\ attempts[b] \in 0 .. MaxAttempts
      /\ producer[b] = "sending"
  BY AttemptsAssumption DEF SenderTypeOK, TriesAgain
<1>2. CASE attempts[b] < MaxAttempts
  <2>1. /\ producer' = producer /\ attempts' = [attempts EXCEPT ![b] = attempts[b] + 1]
        /\ attempts[b] + 1 \in 0 .. MaxAttempts
    BY <1>1, <1>2 DEF TriesAgain
  <2> QED
    BY <1>1, <2>1 DEF SenderTypeOK
<1>3. CASE ~(attempts[b] < MaxAttempts)
  <2>1. producer' = [producer EXCEPT ![b] = "failed"] /\ attempts' = attempts
    BY <1>1, <1>3 DEF TriesAgain
  <2> QED
    BY <1>1, <2>1 DEF SenderTypeOK
<1> QED
  BY <1>2, <1>3

\* A step that changes the numbers of one batch only.
ChangesOnly(b) ==
    /\ producer' \in [Batch -> {"idle", "sending", "sent", "failed"}]
    /\ attempts' \in [Batch -> 0 .. MaxAttempts]
    /\ stray' \in [Batch -> Nat] /\ topic' \in Seq(Batch)
    /\ \A c \in Batch \ {b} : /\ producer'[c] = producer[c] /\ stray'[c] = stray[c]
                              /\ attempts'[c] = attempts[c] /\ Copies(c)' = Copies(c)

LEMMA OthersFit ==
    ASSUME SenderInv, NEW b \in Batch, ChangesOnly(b), Fits(b)'
    PROVE  SenderInv'
<1>1. \A c \in Batch \ {b} : Fits(c)'
  BY DEF SenderInv, Fits, ChangesOnly
<1>2. stray'[b] <= MaxAttempts
  <2>1. Cardinality(Copies(b)') \in Nat /\ Cardinality(Copies(b)') + stray'[b] <= attempts'[b]
    BY FS_CardinalityType DEF Fits
  <2>2. attempts'[b] \in 0 .. MaxAttempts /\ stray'[b] \in Nat
    BY DEF ChangesOnly
  <2> QED
    BY <2>1, <2>2, AttemptsAssumption
<1>3. ASSUME NEW c \in Batch PROVE stray'[c] \in 0 .. MaxAttempts
  <2>1. CASE c = b
    BY <1>2, <2>1, AttemptsAssumption DEF ChangesOnly
  <2>2. CASE c # b
    BY <2>2 DEF ChangesOnly, SenderInv, SenderTypeOK
  <2> QED
    BY <2>1, <2>2
<1> QED
  BY <1>1, <1>3 DEF ChangesOnly, SenderInv, SenderTypeOK

LEMMA SenderStep == SenderInv /\ SenderNext => SenderInv'
<1> SUFFICES ASSUME SenderInv, NEW b \in Batch,
                    \/ SendAggregatedData(b) \/ Acknowledged(b) \/ AcknowledgementLost(b)
                    \/ RequestLost(b) \/ RequestLate(b) \/ LateAppend(b)
             PROVE  SenderInv'
  BY DEF SenderNext
<1>1. /\ MaxAttempts \in Nat \ {0} /\ attempts[b] \in 0 .. MaxAttempts
      /\ stray[b] \in Nat /\ Cardinality(Copies(b)) \in Nat
      /\ SenderTypeOK /\ Fits(b) /\ \A c \in Batch : IsFiniteSet(Copies(c))
  BY AttemptsAssumption, FS_CardinalityType DEF SenderInv, SenderTypeOK, Fits
<1>2. topic' = topic => \A c \in Batch : Copies(c)' = Copies(c)
  BY DEF Copies
<1>0. /\ stray \in [Batch -> Nat] /\ attempts \in [Batch -> 0 .. MaxAttempts]
      /\ producer \in [Batch -> {"idle", "sending", "sent", "failed"}]
      /\ topic \in Seq(Batch) /\ 1 \in 0 .. MaxAttempts
  BY <1>1 DEF SenderTypeOK
<1>3. Appended(b) => /\ topic' \in Seq(Batch) /\ IsFiniteSet(Copies(b)')
                     /\ Copies(b)' # {}
                     /\ Cardinality(Copies(b)') = Cardinality(Copies(b)) + 1
                     /\ \A c \in Batch \ {b} : Copies(c)' = Copies(c)
  BY <1>1, AppendCopies
<1>4. CASE SendAggregatedData(b)
  <2>1. /\ producer[b] = "idle" /\ producer' = [producer EXCEPT ![b] = "sending"]
        /\ attempts' = [attempts EXCEPT ![b] = 1] /\ UNCHANGED <<stray, topic>>
    BY <1>4 DEF SendAggregatedData
  <2>2. Fits(b)'
    BY <1>1, <1>2, <2>1 DEF Fits, SenderTypeOK
  <2>3. ChangesOnly(b)
    BY <1>0, <1>1, <1>2, <2>1 DEF ChangesOnly
  <2> QED
    BY <2>2, <2>3, OthersFit
<1>5. CASE Acknowledged(b)
  <2>1. /\ producer[b] = "sending" /\ producer' = [producer EXCEPT ![b] = "sent"]
        /\ UNCHANGED <<attempts, stray>> /\ Appended(b)
    BY <1>5 DEF Acknowledged
  <2>2. Fits(b)'
    BY <1>1, <1>3, <2>1 DEF Fits, SenderTypeOK
  <2>3. ChangesOnly(b)
    BY <1>0, <1>1, <1>3, <2>1 DEF ChangesOnly
  <2> QED
    BY <2>2, <2>3, OthersFit
<1>6. CASE AcknowledgementLost(b)
  <2>1. TriesAgain(b) /\ UNCHANGED stray /\ Appended(b)
    BY <1>6 DEF AcknowledgementLost
  <2>2. Fits(b)'
    BY <1>1, <1>3, <2>1, TriesOrFails DEF Fits
  <2>3. ChangesOnly(b)
    BY <1>0, <1>1, <1>3, <2>1, TriesOrFails DEF ChangesOnly
  <2> QED
    BY <2>2, <2>3, OthersFit
<1>7. CASE RequestLost(b) \/ RequestLate(b)
  <2>1. /\ TriesAgain(b) /\ UNCHANGED topic
        /\ stray' = stray \/ stray' = [stray EXCEPT ![b] = stray[b] + 1]
    BY <1>7 DEF RequestLost, RequestLate
  <2>2. stray' \in [Batch -> Nat] /\ \A c \in Batch \ {b} : stray'[c] = stray[c]
    BY <1>1, <2>1 DEF SenderTypeOK
  <2>3. Fits(b)'
    <3>1. stray'[b] \in {stray[b], stray[b] + 1}
      BY <1>1, <2>1 DEF SenderTypeOK
    <3> QED
      BY <1>1, <1>2, <2>1, <3>1, TriesOrFails DEF Fits
  <2>4. ChangesOnly(b)
    BY <1>0, <1>1, <1>2, <2>1, <2>2, TriesOrFails DEF ChangesOnly
  <2> QED
    BY <2>3, <2>4, OthersFit
<1>8. CASE LateAppend(b)
  <2>1. /\ UNCHANGED <<producer, attempts>> /\ stray[b] > 0 /\ Appended(b)
        /\ stray' = [stray EXCEPT ![b] = stray[b] - 1]
    BY <1>8 DEF LateAppend
  <2>2. Fits(b)'
    BY <1>1, <1>3, <2>1 DEF Fits, SenderTypeOK
  <2>3. ChangesOnly(b)
    BY <1>0, <1>1, <1>3, <2>1 DEF ChangesOnly
  <2> QED
    BY <2>2, <2>3, OthersFit
<1> QED
  BY <1>4, <1>5, <1>6, <1>7, <1>8

LEMMA SenderStutters == SenderInv /\ UNCHANGED senderVars => SenderInv'
<1> SUFFICES ASSUME SenderInv, UNCHANGED senderVars PROVE SenderInv'
  OBVIOUS
<1>1. \A b \in Batch : Copies(b)' = Copies(b)
  BY DEF Copies, senderVars
<1> QED
  BY <1>1 DEF SenderInv, senderVars, SenderTypeOK, Fits

-----------------------------------------------------------------------------
(* A run of the analyzer *)

\* A run goes on from where it began, holds a message only while it is resumed,
\* and throws one away only on its way out.
RunFits ==
    /\ position # NoOffset => first \in Nat /\ position \in Nat /\ first <= position
    /\ position = NoOffset => stats = {} /\ shown = {} /\ dropped = {}
    /\ pc = "resuming" => position # NoOffset /\ first < position
    /\ dropped # {} => pc \in {"closing", "leaving", "down"}

RunTypeOK ==
    /\ pc \in {"down", "starting", "waiting", "resuming", "closing", "leaving"}
    /\ stop \in BOOLEAN
    /\ {position, committed, first, origin} \subseteq Nat \cup {NoOffset}
    /\ {stats, shown, dropped, unused} \subseteq SUBSET Nat
    /\ reported \in [Offset -> Nat]
    /\ runs \in 0 .. MaxRuns /\ faults \in 0 .. MaxFaults

Inv == SenderInv /\ RunTypeOK /\ RunFits /\ RunAccounts

LEMMA InvInit == Init => Inv
<1> SUFFICES ASSUME Init PROVE Inv
  OBVIOUS
<1>1. SenderInv
  BY SenderStarts DEF Init
<1>2. reported \in [Offset -> Nat] /\ runs \in 0 .. MaxRuns /\ faults \in 0 .. MaxFaults
  BY BoundsAssumption DEF Init
<1>3. RunTypeOK
  BY <1>2 DEF Init, RunTypeOK
<1>4. RunFits /\ RunAccounts
  BY DEF Init, RunFits, RunAccounts
<1> QED
  BY <1>1, <1>3, <1>4 DEF Inv

\* The analyzer does not touch the topic, nor the sender the analyzer.
LEMMA RunStep ==
    ASSUME Inv, UNCHANGED senderVars, RunTypeOK', RunFits', RunAccounts'
    PROVE  Inv'
  BY SenderStutters DEF Inv

LEMMA SendStep == Inv /\ Send => Inv'
  BY SenderStep DEF Inv, Send, RunTypeOK, RunFits, RunAccounts, Message, analyzerVars, runVars,
                    history

\* Steps that leave the run's messages alone and go to where it holds none.
LEMMA GotoStep ==
    ASSUME Inv, UNCHANGED <<senderVars, position, first, stats, shown, dropped>>,
           RunTypeOK', pc # "resuming", pc' # "resuming", stop => stop',
           dropped # {} => pc' \in {"closing", "leaving", "down"}
    PROVE  Inv'
<1>1. RunFits' /\ RunAccounts'
  BY DEF Inv, RunFits, RunAccounts, Message
<1> QED
  BY <1>1, RunStep

\* Steps that do not move the run either.
LEMMA SameStep ==
    ASSUME Inv, UNCHANGED <<senderVars, pc, position, first, stats, shown, dropped>>,
           RunTypeOK', stop => stop'
    PROVE  Inv'
<1>1. RunFits' /\ RunAccounts'
  BY DEF Inv, RunFits, RunAccounts, Message
<1> QED
  BY <1>1, RunStep

\* A process begins without a position, and one that is killed loses it.
LEMMA FreshStep ==
    ASSUME Inv, UNCHANGED senderVars, RunTypeOK', pc' # "resuming",
           position' = NoOffset, stats' = {}, shown' = {}, dropped' = {}
    PROVE  Inv'
  BY RunStep DEF RunFits, RunAccounts

LEMMA AssignedStep == ASSUME Inv, Assigned PROVE Inv'
<1>1. Len(topic) \in Nat /\ committed \in Nat \cup {NoOffset}
  BY LenProperties DEF Inv, SenderInv, SenderTypeOK, RunTypeOK
<1>2. /\ position' \in Nat /\ first' = position' /\ position = NoOffset
      /\ UNCHANGED <<pc, stop, stats, shown, dropped>> /\ pc = "waiting"
  BY <1>1 DEF Assigned
<1>3. /\ stats = {} /\ shown = {} /\ dropped = {}
  BY <1>2 DEF Inv, RunFits
<1>4. RunTypeOK'
  BY <1>1, <1>2 DEF Assigned, Inv, RunTypeOK
<1>5. RunFits'
  BY <1>2, <1>3, NoOffsetAssumption DEF RunFits
<1>6. first' .. position' - 1 = {}
  <2>1. \A n \in Nat : n .. n - 1 = {}
    OBVIOUS
  <2> QED
    BY <1>2, <2>1
<1>7. RunAccounts'
  BY <1>2, <1>3, <1>6 DEF RunAccounts
<1> QED
  BY <1>4, <1>5, <1>7, RunStep DEF Assigned

\* The message that is fetched is none of those that were accounted for.
LEMMA GetOneStep == ASSUME Inv, GetOne PROVE Inv'
<1>1. /\ position \in Nat /\ first \in Nat /\ first <= position /\ dropped = {}
      /\ first .. position - 1 = shown \cup stats /\ shown \cap stats = {}
  BY DEF GetOne, Inv, RunFits, RunAccounts
<1>2. /\ position' = position + 1 /\ pc' = "resuming"
      /\ UNCHANGED <<stop, committed, stats, first, shown, dropped>>
  BY DEF GetOne
<1>3. RunTypeOK'
  BY <1>1, <1>2 DEF GetOne, history, Inv, RunTypeOK
<1>4. RunFits'
  BY <1>1, <1>2, NoOffsetAssumption DEF RunFits
<1>5. first .. position' - 1 = (first .. position - 1) \cup {position}
  BY <1>1, <1>2
<1>6. position \notin shown \cup stats /\ Message' = position
  BY <1>1, <1>2 DEF Message
<1>7. RunAccounts'
  BY <1>1, <1>2, <1>5, <1>6 DEF RunAccounts
<1> QED
  BY <1>3, <1>4, <1>7, RunStep DEF GetOne

\* What is known of a run that is resumed with a message.
LEMMA Resumed ==
    ASSUME Inv, pc = "resuming"
    PROVE  /\ position \in Nat /\ first \in Nat /\ first < position /\ Message \in Nat
           /\ dropped = {} /\ stats \subseteq Nat /\ shown \subseteq Nat
           /\ first .. position - 1 = shown \cup stats \cup {Message}
           /\ shown \cap stats = {} /\ Message \notin shown \cup stats
<1>1. position \in Nat /\ first \in Nat /\ first < position /\ dropped = {}
  BY DEF Inv, RunFits
<1>2. /\ first .. position - 1 = shown \cup stats \cup {Message}
      /\ shown \cap stats = {} /\ (shown \cup stats) \cap {Message} = {}
  BY <1>1, NoOffsetAssumption DEF Inv, RunAccounts
<1> QED
  BY <1>1, <1>2 DEF Inv, RunTypeOK, Message

LEMMA DropStep == ASSUME Inv, DropMessage PROVE Inv'
<1>1. /\ pc' = "closing" /\ stop /\ dropped' = dropped \cup {Message}
      /\ UNCHANGED <<stop, position, stats, first, shown>> /\ pc = "resuming"
  BY DEF DropMessage
<1>2. RunTypeOK'
  BY <1>1, Resumed DEF DropMessage, Inv, RunTypeOK
<1>3. RunFits'
  BY <1>1, Resumed, NoOffsetAssumption DEF RunFits
<1>4. RunAccounts'
  BY <1>1, Resumed DEF RunAccounts, Message
<1> QED
  BY <1>2, <1>3, <1>4, RunStep DEF DropMessage

\* The counts of reports stay numbers.
LEMMA ReportedType ==
    ASSUME RunTypeOK, NEW s, PrintReport(s)
    PROVE  reported' \in [Offset -> Nat]
  BY DEF PrintReport, RunTypeOK

LEMMA HandleStep == ASSUME Inv, HandleMessage PROVE Inv'
<1>1. /\ pc' \in {"closing", "waiting"} /\ pc = "resuming"
      /\ UNCHANGED <<stop, position, committed, first, dropped, origin, unused, runs, faults>>
      /\ \/ stats' = stats \cup {Message} /\ shown' = shown /\ reported' = reported
         \/ /\ PrintReport(stats \cup {Message})
            /\ stats' = {} /\ shown' = shown \cup stats \cup {Message}
  BY DEF HandleMessage, NextRound, PrintReport
<1>2. reported' \in [Offset -> Nat]
  BY <1>1, ReportedType DEF Inv, RunTypeOK
<1>3. RunTypeOK'
  BY <1>1, <1>2, Resumed DEF Inv, RunTypeOK
<1>4. RunFits'
  BY <1>1, Resumed, NoOffsetAssumption DEF RunFits
<1>5. RunAccounts'
  BY <1>1, Resumed DEF RunAccounts
<1> QED
  BY <1>3, <1>4, <1>5, RunStep DEF HandleMessage

LEMMA LastReportStep == ASSUME Inv, LastReport PROVE Inv'
<1>1. /\ pc' = "down" /\ pc = "leaving" /\ PrintReport(stats)
      /\ UNCHANGED <<stop, position, committed, first, dropped, origin, unused, runs, faults>>
      /\ stats' = {} /\ shown' = shown \cup stats
  BY DEF LastReport, PrintReport
<1>2. reported' \in [Offset -> Nat]
  BY <1>1, ReportedType DEF Inv
<1>3. RunTypeOK'
  BY <1>1, <1>2 DEF Inv, RunTypeOK
<1>4. RunFits'
  BY <1>1 DEF Inv, RunFits
<1>5. RunAccounts'
  BY <1>1 DEF Inv, RunAccounts, Message
<1> QED
  BY <1>3, <1>4, <1>5, RunStep DEF LastReport

LEMMA InvStep == Inv /\ [Next]_vars => Inv'
<1> SUFFICES ASSUME Inv, [Next]_vars PROVE Inv'
  OBVIOUS
<1> USE DEF runVars, history
<1>1. CASE Send
  BY <1>1, SendStep
<1>2. CASE Start \/ Crash
  <2>0. runs' \in 0 .. MaxRuns /\ faults' \in 0 .. MaxFaults
    BY <1>2, BoundsAssumption DEF Start, Crash, Fault, Inv, RunTypeOK
  <2>1. RunTypeOK'
    BY <1>2, <2>0 DEF Start, Crash, Inv, RunTypeOK
  <2> QED
    BY <1>2, <2>1, FreshStep DEF Start, Crash
<1>3. CASE Shutdown \/ AutoCommit
  <2>1. RunTypeOK'
    BY <1>3 DEF Shutdown, AutoCommit, Inv, RunTypeOK
  <2> QED
    BY <1>3, <2>1, SameStep DEF Shutdown, AutoCommit
<1>4. CASE Started \/ StopWakes
  <2>1. RunTypeOK'
    BY <1>4 DEF Started, StopWakes, Goto, NextRound, Inv, RunTypeOK
  <2>2. dropped = {}
    BY <1>4 DEF Started, StopWakes, Inv, RunFits
  <2> QED
    BY <1>4, <2>1, <2>2, GotoStep DEF Started, StopWakes, Goto, NextRound
<1>5. CASE ConsumerStop \/ LastCommitFails \/ GetOneFails
  <2>1. RunTypeOK'
    BY <1>5, BoundsAssumption
       DEF ConsumerStop, LastCommitFails, GetOneFails, Fault, Inv, RunTypeOK
  <2> QED
    BY <1>5, <2>1, GotoStep DEF ConsumerStop, LastCommitFails, GetOneFails
<1>6. CASE Assigned \/ GetOne \/ DropMessage \/ HandleMessage \/ LastReport
  BY <1>6, AssignedStep, GetOneStep, DropStep, HandleStep, LastReportStep
<1>7. CASE UNCHANGED vars
  BY <1>7, SameStep DEF vars, analyzerVars, Inv, RunTypeOK
<1> QED
  BY <1>1, <1>2, <1>3, <1>4, <1>5, <1>6, <1>7 DEF Next, Run

LEMMA Invariant == Spec => []Inv
  BY InvInit, InvStep, PTL DEF Spec

\* Type correctness of the sender, the topic and the analyzer.
THEOREM TypeCorrect == Spec => []TypeOK
<1>1. Inv => TypeOK
  BY DEF Inv, SenderInv, RunTypeOK, TypeOK
<1> QED
  BY <1>1, Invariant, PTL

\* A batch whose send succeeded is in the topic, and no batch is there more often
\* than requests were made for it, however acknowledgements are lost and requests
\* delayed (SendAggregatedData over the synchronous producer).
THEOREM SentArrives == Spec => []SentIsThere
<1>1. Inv => SentIsThere
  BY DEF Inv, SenderInv, Fits, SentIsThere
<1> QED
  BY <1>1, Invariant, PTL

\* A run of the analyzer accounts for every message it got, in whatever order
\* messages, signals, commits, reports and failures come (main).
THEOREM AccountsForAll == Spec => []RunAccounts
<1>1. Inv => RunAccounts
  BY DEF Inv
<1> QED
  BY <1>1, Invariant, PTL

-----------------------------------------------------------------------------
(* The runs of the analyzer *)

Held == IF pc = "resuming" THEN {Message} ELSE {}

\* Where the next run begins.
ComesBack == IF committed = NoOffset THEN Len(topic) ELSE committed

\* How often offset o may still be reported if nothing fails any more.
CanReport(o) ==
    IF pc \notin {"leaving", "down"} /\ position # NoOffset
    THEN IF o \in stats \cup Held \/ o >= position THEN 1 ELSE 0
    ELSE (IF pc = "leaving" /\ o \in stats THEN 1 ELSE 0)
            + (IF o >= ComesBack THEN 1 ELSE 0)

\* Every further report of an offset was paid for by a fault.
FaultsPay == \A o \in Offset : reported[o] + CanReport(o) <= 1 + faults

\* Each run throws away one message at most.
DropsFit ==
    /\ IsFiniteSet(unused) /\ Cardinality(unused) <= runs
    /\ pc # "down" /\ dropped = {} => Cardinality(unused) < runs

\* What the runs have gone through.
Reached == IF position = NoOffset THEN committed ELSE position

\* Without faults nothing was got before the first position is known.
NothingYet ==
    /\ position = NoOffset /\ committed = NoOffset
    /\ unused = {} /\ \A o \in Offset : reported[o] = 0

\* Without faults the runs go on where they ended, and each offset gone through
\* is reported, thrown away, or still in the hands of this run.
GoesOn ==
    /\ Reached # NoOffset /\ origin <= Reached
    /\ pc \in {"leaving", "down"} => committed = Reached
    /\ stats \cup Held \subseteq origin .. Reached - 1
    /\ unused \subseteq origin .. Reached - 1
    /\ unused \cap (stats \cup Held) = {}
    /\ \A o \in Offset :
          reported[o] = IF o \in (origin .. Reached - 1) \ (unused \cup stats \cup Held)
                        THEN 1 ELSE 0

CleanSoFar ==
    faults = 0 =>
        /\ pc = "down" => stats = {}
        /\ IF origin = NoOffset THEN NothingYet ELSE GoesOn

RunsInv == Inv /\ FaultsPay /\ DropsFit /\ CleanSoFar

\* The topic only grows.
LEMMA TopicGrows ==
    ASSUME SenderInv, SenderNext
    PROVE  Len(topic) \in Nat /\ Len(topic') \in Nat /\ Len(topic') >= Len(topic)
<1>1. topic \in Seq(Batch) /\ \A b \in Batch : Len(Append(topic, b)) = Len(topic) + 1
  BY AppendProperties DEF SenderInv, SenderTypeOK
<1>2. topic' = topic \/ \E b \in Batch : topic' = Append(topic, b)
  BY DEF SenderNext, SendAggregatedData, Acknowledged, AcknowledgementLost, RequestLost,
         RequestLate, LateAppend, Appended
<1> QED
  BY <1>1, <1>2, LenProperties

\* Where a run is, as numbers, and that its messages lie behind it.
LEMMA RunNumbers ==
    ASSUME Inv
    PROVE  /\ faults \in Nat /\ runs \in Nat /\ Len(topic) \in Nat /\ ComesBack \in Nat
           /\ \A o \in Offset : o \in Int /\ reported[o] \in Nat
           /\ position \in Nat \cup {NoOffset} /\ committed \in Nat \cup {NoOffset}
           /\ position # NoOffset => \A o \in stats \cup Held : o \in Nat /\ o < position
           /\ position = NoOffset => stats = {} /\ Held = {}
<1>1. Len(topic) \in Nat /\ RunTypeOK
  BY LenProperties DEF Inv, SenderInv, SenderTypeOK
<1>2. /\ faults \in Nat /\ runs \in Nat
      /\ position \in Nat \cup {NoOffset} /\ committed \in Nat \cup {NoOffset}
      /\ stats \subseteq Nat
  BY <1>1, BoundsAssumption DEF RunTypeOK
<1>3. \A o \in Offset : o \in Int /\ reported[o] \in Nat
  BY <1>1 DEF RunTypeOK, Offset
<1>4. ASSUME position # NoOffset
      PROVE  \A o \in stats \cup Held : o \in Nat /\ o < position
  <2>1. position \in Nat /\ first \in Nat /\ Held \subseteq {Message} /\ Message = position - 1
    BY <1>4 DEF Inv, RunFits, Held, Message
  <2>2. \A o \in stats : o \in first .. position - 1
    BY <1>4 DEF Inv, RunAccounts
  <2>3. pc = "resuming" => Message \in Nat
    BY Resumed
  <2>4. \A o \in Held : o \in Nat /\ o < position
    BY <2>1, <2>3 DEF Held
  <2> QED
    BY <1>2, <2>1, <2>2, <2>4
<1>5. position = NoOffset => stats = {} /\ Held = {}
  BY DEF Inv, RunFits, Held
<1> QED
  BY <1>1, <1>2, <1>3, <1>4, <1>5 DEF ComesBack

LEMMA FaultsPayStep ==
    ASSUME Inv, Inv', FaultsPay, [Next]_vars
    PROVE  FaultsPay'
<1> SUFFICES ASSUME NEW o \in Offset
             PROVE  reported'[o] + CanReport(o)' <= 1 + faults'
  BY DEF FaultsPay
<1>0. ComesBack' \in Nat
  <2>1. Len(topic') \in Nat /\ committed' \in Nat \cup {NoOffset}
    BY LenProperties DEF Inv, SenderInv, SenderTypeOK, RunTypeOK
  <2> QED
    BY <2>1 DEF ComesBack
<1>1. /\ faults \in Nat /\ ComesBack \in Nat /\ ComesBack' \in Nat
      /\ o \in Int /\ reported[o] \in Nat
      /\ reported[o] + CanReport(o) <= 1 + faults
  BY <1>0, RunNumbers DEF FaultsPay
<1>2. /\ position \in Nat \cup {NoOffset}
      /\ position # NoOffset => \A n \in stats \cup Held : n \in Nat /\ n < position
      /\ position = NoOffset => stats = {} /\ Held = {}
  BY RunNumbers
<1>3. CanReport(o) \in {0, 1, 2}
  BY DEF CanReport
<1> USE DEF runVars, history
<1>4. CASE Send
  <2>1. UNCHANGED <<pc, position, committed, stats, reported, faults>>
    BY <1>4 DEF Send, analyzerVars
  <2>2. ComesBack <= ComesBack' /\ Held' = Held
    BY <1>4, <2>1, TopicGrows, RunNumbers DEF Send, Inv, ComesBack, Held, Message
  <2> QED
    BY <1>1, <2>1, <2>2 DEF CanReport
<1>5. CASE Start
  <2>1. /\ pc = "down" /\ pc' = "starting" /\ position' = NoOffset
        /\ UNCHANGED <<reported, faults>> /\ ComesBack' = ComesBack
    BY <1>5 DEF Start, senderVars, ComesBack
  <2> QED
    BY <1>1, <2>1 DEF CanReport
<1>6. CASE Shutdown
  <2>1. /\ UNCHANGED <<pc, position, stats, reported, faults>>
        /\ ComesBack' = ComesBack /\ Held' = Held
    BY <1>6 DEF Shutdown, senderVars, ComesBack, Held, Message
  <2> QED
    BY <1>1, <2>1 DEF CanReport
<1>7. CASE Started \/ StopWakes
  <2>1. /\ UNCHANGED <<position, stats, reported, faults>> /\ ComesBack' = ComesBack
        /\ {pc, pc'} \cap {"leaving", "down", "resuming"} = {}
    BY <1>7 DEF Started, StopWakes, Goto, NextRound, senderVars, ComesBack
  <2>2. Held = {} /\ Held' = {}
    BY <2>1 DEF Held
  <2> QED
    BY <1>1, <2>1, <2>2 DEF CanReport
<1>8. CASE Assigned
  <2>1. /\ position = NoOffset /\ position' = ComesBack /\ pc = "waiting" /\ pc' = "waiting"
        /\ UNCHANGED <<stats, reported, faults>>
    BY <1>8 DEF Assigned, ComesBack
  <2>2. stats' = {} /\ Held' = {} /\ position' # NoOffset
    BY <1>1, <1>2, <2>1, NoOffsetAssumption DEF Held
  <2> QED
    BY <1>1, <2>1, <2>2 DEF CanReport
<1>9. CASE GetOne
  <2>1. /\ position \in Nat /\ position # NoOffset /\ position' = position + 1
        /\ pc = "waiting" /\ pc' = "resuming"
        /\ UNCHANGED <<stats, reported, faults>>
    BY <1>2, <1>9 DEF GetOne
  <2>2. Held = {} /\ Held' = {position} /\ position' # NoOffset
    BY <2>1, NoOffsetAssumption DEF Held, Message
  <2> QED
    BY <1>1, <2>1, <2>2 DEF CanReport
<1>10. CASE GetOneFails
  <2>1. /\ pc = "waiting" /\ pc' = "closing" /\ faults' = faults + 1
        /\ UNCHANGED <<position, stats, reported>> /\ ComesBack' = ComesBack
    BY <1>10 DEF GetOneFails, Fault, senderVars, ComesBack
  <2>2. Held = {} /\ Held' = {}
    BY <2>1 DEF Held
  <2> QED
    BY <1>1, <2>1, <2>2 DEF CanReport
<1>11. CASE DropMessage
  <2>1. /\ pc = "resuming" /\ pc' = "closing" /\ position # NoOffset
        /\ UNCHANGED <<position, stats, reported, faults>>
    BY <1>11 DEF DropMessage, Inv, RunFits
  <2>2. Held' = {}
    BY <2>1 DEF Held
  <2> QED
    BY <1>1, <2>1, <2>2 DEF CanReport
<1>12. CASE HandleMessage
  <2>1. /\ pc = "resuming" /\ pc' \in {"waiting", "closing"} /\ position # NoOffset
        /\ UNCHANGED <<position, faults>>
        /\ \/ stats' = stats \cup {Message} /\ UNCHANGED reported
           \/ PrintReport(stats \cup {Message})
    BY <1>12 DEF HandleMessage, NextRound, Inv, RunFits
  <2>2. Held' = {} /\ Held = {Message}
    BY <2>1 DEF Held
  <2>3. CASE stats' = stats \cup {Message} /\ UNCHANGED reported
    BY <1>1, <2>1, <2>2, <2>3 DEF CanReport
  <2>4. CASE PrintReport(stats \cup {Message})
    <3>1. /\ reported'[o] = reported[o] + (IF o \in stats \cup Held THEN 1 ELSE 0)
          /\ stats' = {}
      BY <2>2, <2>4 DEF PrintReport
    <3> QED
      BY <1>1, <1>2, <2>1, <2>2, <3>1 DEF CanReport
  <2> QED
    BY <2>1, <2>3, <2>4
<1>13. CASE AutoCommit
  <2>1. /\ pc \in {"waiting", "resuming", "closing"} /\ position # NoOffset
        /\ UNCHANGED <<pc, position, stats, reported, faults>> /\ Held' = Held
    BY <1>13 DEF AutoCommit, Held, Message
  <2> QED
    BY <1>1, <2>1 DEF CanReport
<1>14. CASE ConsumerStop
  <2>1. /\ pc = "closing" /\ pc' = "leaving" /\ Held = {}
        /\ UNCHANGED <<position, stats, reported, faults>>
        /\ position = NoOffset => ComesBack' = ComesBack
        /\ position # NoOffset => ComesBack' = position
    BY <1>14 DEF ConsumerStop, ComesBack, Held, senderVars
  <2> QED
    BY <1>1, <1>2, <2>1 DEF CanReport
<1>15. CASE LastCommitFails
  <2>1. /\ pc = "closing" /\ pc' \in {"leaving", "down"} /\ Held = {}
        /\ UNCHANGED <<position, stats, reported>> /\ ComesBack' = ComesBack
        /\ faults' = faults + 1
    BY <1>15 DEF LastCommitFails, Fault, ComesBack, Held, senderVars
  <2> QED
    BY <1>1, <1>2, <2>1 DEF CanReport
<1>16. CASE LastReport
  <2>1. /\ pc = "leaving" /\ pc' = "down" /\ ComesBack' = ComesBack /\ UNCHANGED faults
        /\ reported'[o] = reported[o] + (IF o \in stats THEN 1 ELSE 0)
    BY <1>16 DEF LastReport, PrintReport, ComesBack, senderVars
  <2> QED
    BY <1>1, <2>1 DEF CanReport
<1>17. CASE Crash
  <2>1. /\ pc' = "down" /\ ComesBack' = ComesBack /\ UNCHANGED reported /\ faults' = faults + 1
        /\ pc # "down"
    BY <1>17 DEF Crash, Fault, ComesBack, senderVars
  <2>2. CanReport(o)' \in {0, 1}
    BY <2>1 DEF CanReport
  <2>3. CanReport(o)' <= CanReport(o) + 1
    BY <1>3, <2>2
  <2> QED
    BY <1>1, <1>3, <2>1, <2>2, <2>3
<1>18. CASE UNCHANGED vars
  <2>1. /\ UNCHANGED <<pc, position, stats, reported, faults>>
        /\ ComesBack' = ComesBack /\ Held' = Held
    BY <1>18 DEF vars, analyzerVars, senderVars, ComesBack, Held, Message
  <2> QED
    BY <1>1, <2>1 DEF CanReport
<1> QED
  BY <1>4, <1>5, <1>6, <1>7, <1>8, <1>9, <1>10, <1>11, <1>12, <1>13, <1>14, <1>15,
     <1>16, <1>17, <1>18 DEF Next, Run

LEMMA DropsFitStep ==
    ASSUME Inv, Inv', DropsFit, [Next]_vars
    PROVE  DropsFit'
<1>1. runs \in Nat /\ Cardinality(unused) \in Nat /\ IsFiniteSet(unused)
  BY RunNumbers, FS_CardinalityType DEF DropsFit
<1> USE DEF runVars, history
<1>2. CASE Start
  BY <1>1, <1>2 DEF Start, DropsFit
<1>3. CASE DropMessage
  <2>1. /\ pc = "resuming" /\ dropped = {} /\ dropped' = dropped \cup {Message}
        /\ unused' = unused \cup {Message} /\ UNCHANGED runs
    BY <1>3, Resumed DEF DropMessage
  <2>2. IsFiniteSet(unused') /\ Cardinality(unused') <= Cardinality(unused) + 1
    BY <1>1, <2>1, FS_AddElement
  <2>3. Cardinality(unused') \in Nat
    BY <2>2, FS_CardinalityType
  <2> QED
    BY <1>1, <2>1, <2>2, <2>3 DEF DropsFit
<1>4. CASE Crash
  BY <1>4 DEF Crash, DropsFit
<1>5. ASSUME UNCHANGED <<dropped, unused, runs>>, pc' # "down" => pc # "down"
      PROVE  DropsFit'
  BY <1>5 DEF DropsFit
<1>6. CASE Send \/ Shutdown \/ Started \/ Assigned \/ GetOne \/ GetOneFails \/ StopWakes
  BY <1>5, <1>6
     DEF Send, analyzerVars, Shutdown, Started, Assigned, GetOne, GetOneFails, StopWakes, Goto
<1>7. CASE HandleMessage \/ AutoCommit \/ ConsumerStop \/ LastCommitFails \/ LastReport
  BY <1>5, <1>7 DEF HandleMessage, AutoCommit, ConsumerStop, LastCommitFails, LastReport
<1>8. CASE UNCHANGED vars
  BY <1>5, <1>8 DEF vars, analyzerVars
<1> QED
  BY <1>2, <1>3, <1>4, <1>6, <1>7, <1>8 DEF Next, Run

\* A fault is a fault for ever.
LEMMA FaultsStay ==
    ASSUME Inv, [Next]_vars, faults' = 0
    PROVE  faults = 0 /\ ~GetOneFails /\ ~LastCommitFails /\ ~Crash
<1>1. faults \in Nat
  BY RunNumbers
<1>2. Fault => faults' > 0 /\ faults' # 0
  BY <1>1 DEF Fault
<1>3. ~GetOneFails /\ ~LastCommitFails /\ ~Crash
  BY <1>2 DEF GetOneFails, LastCommitFails, Crash
<1> QED
  BY <1>3
     DEF Next, Run, Send, analyzerVars, history, Start, Shutdown, Started, Assigned, GetOne,
         StopWakes, Goto, DropMessage, HandleMessage, AutoCommit, ConsumerStop, LastReport, vars

\* Steps that leave the messages where they are.
LEMMA CleanSame ==
    ASSUME CleanSoFar, faults = 0, Held' = Held, pc' = "down" => pc = "down",
           UNCHANGED <<position, committed, stats, origin, reported, unused>>,
           pc' \in {"leaving", "down"} => pc \in {"leaving", "down"}
    PROVE  CleanSoFar'
<1>1. Reached' = Reached
  BY DEF Reached
<1>2. NothingYet => NothingYet'
  BY DEF NothingYet
<1>3. GoesOn => GoesOn'
  BY <1>1 DEF GoesOn
<1> QED
  BY <1>2, <1>3 DEF CleanSoFar

LEMMA CleanStep ==
    ASSUME Inv, Inv', CleanSoFar, [Next]_vars
    PROVE  CleanSoFar'
<1> SUFFICES ASSUME faults' = 0 PROVE CleanSoFar'
  BY DEF CleanSoFar
<1>1. /\ faults = 0 /\ ~GetOneFails /\ ~LastCommitFails /\ ~Crash
      /\ pc = "down" => stats = {}
      /\ IF origin = NoOffset THEN NothingYet ELSE GoesOn
  BY FaultsStay DEF CleanSoFar
<1>2. /\ position \in Nat \cup {NoOffset} /\ committed \in Nat \cup {NoOffset}
      /\ origin \in Nat \cup {NoOffset} /\ Len(topic) \in Nat
      /\ \A o \in Offset : o \in Int
      /\ position = NoOffset => stats = {} /\ Held = {}
  BY RunNumbers DEF Inv, RunTypeOK
<1>3. pc = "resuming" => position # NoOffset
  BY DEF Inv, RunFits
<1> USE DEF runVars, history
<1>4. CASE Send \/ Shutdown
  BY <1>1, <1>4, CleanSame DEF Send, analyzerVars, Shutdown, Held, Message
<1>5. CASE Start
  <2>1. /\ pc = "down" /\ pc' = "starting" /\ position' = NoOffset /\ stats' = {}
        /\ UNCHANGED <<committed, origin, reported, unused>> /\ stats = {}
    BY <1>1, <1>5 DEF Start
  <2>2. Held = {} /\ Held' = {} /\ Reached' = committed
    BY <2>1 DEF Held, Reached
  <2>3. NothingYet => NothingYet'
    BY <2>1 DEF NothingYet
  <2>4. GoesOn => GoesOn'
    BY <2>1, <2>2 DEF GoesOn
  <2> QED
    BY <1>1, <2>1, <2>3, <2>4 DEF CleanSoFar
<1>6. CASE Started \/ StopWakes
  <2>1. {pc, pc'} \cap {"leaving", "down", "resuming"} = {}
    BY <1>6 DEF Started, StopWakes, Goto, NextRound
  <2>2. Held' = Held
    BY <2>1 DEF Held
  <2> QED
    BY <1>1, <1>6, <2>1, <2>2, CleanSame DEF Started, StopWakes, Goto
<1>7. CASE Assigned
  <2>1. /\ position = NoOffset /\ pc = "waiting" /\ pc' = "waiting" /\ position' \in Nat
        /\ position' = IF committed = NoOffset THEN Len(topic) ELSE committed
        /\ origin' = IF origin = NoOffset THEN position' ELSE origin
        /\ UNCHANGED <<committed, stats, reported, unused>> /\ stats = {}
    BY <1>2, <1>7 DEF Assigned
  <2>2. /\ Held' = {} /\ Held = {} /\ Reached = committed /\ Reached' = position'
        /\ position' # NoOffset
    BY <2>1, NoOffsetAssumption DEF Held, Reached
  <2>3. CASE origin = NoOffset
    <3>1. origin' = position' /\ unused = {} /\ \A o \in Offset : reported[o] = 0
      BY <1>1, <2>1, <2>3 DEF NothingYet
    <3>2. origin' .. Reached' - 1 = {}
      BY <2>1, <2>2, <3>1
    <3>3. GoesOn'
      BY <2>1, <2>2, <3>1, <3>2 DEF GoesOn
    <3> QED
      BY <2>1, <2>2, <3>1, <3>3 DEF CleanSoFar
  <2>4. CASE origin # NoOffset
    <3>1. GoesOn /\ origin' = origin /\ position' = Reached
      BY <1>1, <2>1, <2>2, <2>4 DEF GoesOn
    <3>2. GoesOn'
      BY <2>1, <2>2, <3>1 DEF GoesOn
    <3> QED
      BY <2>1, <2>4, <3>1, <3>2 DEF CleanSoFar
  <2> QED
    BY <2>3, <2>4
<1>8. ASSUME position # NoOffset
      PROVE  /\ GoesOn /\ origin # NoOffset /\ origin \in Nat /\ position \in Nat
             /\ Reached = position
  BY <1>1, <1>2, <1>8 DEF NothingYet, Reached
<1>9. CASE GetOne
  <2>1. /\ position # NoOffset /\ position' = position + 1
        /\ pc = "waiting" /\ pc' = "resuming"
        /\ UNCHANGED <<committed, stats, origin, reported, unused>>
    BY <1>9 DEF GetOne
  <2>2. /\ Held = {} /\ Held' = {position} /\ Reached' = position + 1
        /\ position' # NoOffset
    BY <1>8, <2>1, NoOffsetAssumption DEF Held, Message, Reached
  <2>3. /\ GoesOn /\ origin \in Nat /\ position \in Nat /\ Reached = position
        /\ origin <= position
    BY <1>8, <2>1 DEF GoesOn
  <2>4. /\ origin .. Reached' - 1 = (origin .. Reached - 1) \cup {position}
        /\ position \notin origin .. Reached - 1
    BY <2>2, <2>3
  <2>5. GoesOn'
    BY <2>1, <2>2, <2>3, <2>4 DEF GoesOn
  <2> QED
    BY <1>8, <2>1, <2>5 DEF CleanSoFar
<1>10. CASE DropMessage
  <2>1. /\ pc = "resuming" /\ pc' = "closing" /\ unused' = unused \cup {Message}
        /\ UNCHANGED <<position, committed, stats, origin, reported>>
        /\ Message \notin stats
    BY <1>10, Resumed DEF DropMessage
  <2>2. Held = {Message} /\ Held' = {} /\ Reached' = Reached
    BY <2>1 DEF Held, Reached
  <2>3. GoesOn'
    BY <1>3, <1>8, <2>1, <2>2 DEF GoesOn
  <2> QED
    BY <1>3, <1>8, <2>1, <2>3 DEF CleanSoFar
<1>11. CASE HandleMessage
  <2>1. /\ pc = "resuming" /\ pc' \in {"waiting", "closing"}
        /\ UNCHANGED <<position, committed, origin, unused>>
        /\ \/ stats' = stats \cup {Message} /\ UNCHANGED reported
           \/ PrintReport(stats \cup {Message})
    BY <1>11 DEF HandleMessage, NextRound
  <2>2. Held = {Message} /\ Held' = {} /\ Reached' = Reached
    BY <2>1 DEF Held, Reached
  <2>3. CASE stats' = stats \cup {Message} /\ UNCHANGED reported
    <3>1. stats' \cup Held' = stats \cup Held
      BY <2>2, <2>3
    <3>2. GoesOn'
      BY <1>3, <1>8, <2>1, <2>2, <2>3, <3>1 DEF GoesOn
    <3> QED
      BY <1>3, <1>8, <2>1, <3>2 DEF CleanSoFar
  <2>4. CASE PrintReport(stats \cup {Message})
    <3>1. /\ \A o \in Offset : reported'[o] = reported[o]
                                    + (IF o \in stats \cup Held THEN 1 ELSE 0)
          /\ stats' = {}
      BY <2>2, <2>4 DEF PrintReport
    <3>2. GoesOn'
      BY <1>3, <1>8, <2>1, <2>2, <3>1 DEF GoesOn
    <3> QED
      BY <1>3, <1>8, <2>1, <3>2 DEF CleanSoFar
  <2> QED
    BY <2>1, <2>3, <2>4
<1>12. CASE AutoCommit
  <2>1. /\ pc \in {"waiting", "resuming", "closing"} /\ position # NoOffset
        /\ UNCHANGED <<pc, position, stats, origin, reported, unused>> /\ Held' = Held
    BY <1>12 DEF AutoCommit, Held, Message
  <2>2. GoesOn' /\ origin' # NoOffset
    BY <1>8, <2>1 DEF GoesOn, Reached
  <2> QED
    BY <2>1, <2>2 DEF CleanSoFar
<1>13. CASE ConsumerStop
  <2>1. /\ pc = "closing" /\ pc' = "leaving" /\ Held' = Held
        /\ UNCHANGED <<position, stats, origin, reported, unused>>
        /\ committed' = IF position = NoOffset THEN committed ELSE position
    BY <1>13 DEF ConsumerStop, Held
  <2>2. NothingYet => NothingYet'
    BY <2>1 DEF NothingYet
  <2>3. GoesOn => GoesOn'
    BY <2>1 DEF GoesOn, Reached
  <2> QED
    BY <1>1, <2>1, <2>2, <2>3 DEF CleanSoFar
<1>14. CASE LastReport
  <2>1. /\ pc = "leaving" /\ pc' = "down" /\ Held = {} /\ Held' = {} /\ stats' = {}
        /\ UNCHANGED <<position, committed, origin, unused>>
        /\ \A o \in Offset : reported'[o] = reported[o] + (IF o \in stats THEN 1 ELSE 0)
    BY <1>14 DEF LastReport, PrintReport, Held
  <2>2. NothingYet => NothingYet'
    BY <1>2, <2>1 DEF NothingYet
  <2>3. GoesOn => GoesOn'
    BY <2>1 DEF GoesOn, Reached
  <2> QED
    BY <1>1, <2>1, <2>2, <2>3 DEF CleanSoFar
<1>15. CASE UNCHANGED vars
  BY <1>1, <1>15, CleanSame DEF vars, analyzerVars, Held, Message
<1> QED
  BY <1>1, <1>4, <1>5, <1>6, <1>7, <1>9, <1>10, <1>11, <1>12, <1>13, <1>14, <1>15
     DEF Next, Run

LEMMA RunsInvInit == Init => RunsInv
<1> SUFFICES ASSUME Init PROVE RunsInv
  OBVIOUS
<1>1. Inv /\ faults = 0 /\ runs = 0 /\ unused = {} /\ pc = "down" /\ origin = NoOffset
  BY InvInit DEF Init
<1>2. ComesBack \in Nat /\ \A o \in Offset : reported[o] = 0
  BY <1>1, RunNumbers DEF Init
<1>3. FaultsPay
  BY <1>1, <1>2 DEF FaultsPay, CanReport
<1>4. DropsFit
  BY <1>1, FS_EmptySet DEF DropsFit
<1>5. CleanSoFar
  BY <1>1, <1>2 DEF CleanSoFar, NothingYet, Init
<1> QED
  BY <1>1, <1>3, <1>4, <1>5 DEF RunsInv

LEMMA RunsInvariant == Spec => []RunsInv
<1>1. RunsInv /\ [Next]_vars => RunsInv'
  BY InvStep, FaultsPayStep, DropsFitStep, CleanStep DEF RunsInv
<1> QED
  BY RunsInvInit, <1>1, PTL DEF Spec

\* Over its runs the analyzer reports each message once as far as nothing fails,
\* but for one message per stop; and each crash, failed fetch or failed commit
\* lets a message be reported once more, and no more (main and print_report).
THEOREM RestartsCount == Spec => []RestartsCountOnce
<1>1. ASSUME RunsInv PROVE CleanRestarts
  <2> SUFFICES ASSUME faults = 0, pc = "down", origin # NoOffset
               PROVE  /\ committed # NoOffset
                      /\ \A o \in Offset :
                            reported[o] = IF o \in (origin .. committed - 1) \ unused
                                          THEN 1 ELSE 0
                      /\ Cardinality(unused) <= runs
    BY DEF CleanRestarts
  <2>1. GoesOn /\ stats = {} /\ Held = {}
    BY <1>1 DEF RunsInv, CleanSoFar, Held
  <2> QED
    BY <1>1, <2>1 DEF GoesOn, RunsInv, DropsFit
<1>2. ASSUME RunsInv PROVE RepeatsNeedFaults
  <2> SUFFICES ASSUME NEW o \in Offset PROVE reported[o] <= 1 + faults
    BY DEF RepeatsNeedFaults
  <2>1. CanReport(o) \in {0, 1, 2}
    BY DEF CanReport
  <2> QED
    BY <1>1, <1>2, <2>1, RunNumbers DEF RunsInv, FaultsPay
<1>3. RunsInv => RestartsCountOnce
  BY <1>1, <1>2 DEF RestartsCountOnce
<1> QED
  BY <1>3, RunsInvariant, PTL
=============================================================================
