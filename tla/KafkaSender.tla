----------------------------- MODULE KafkaSender -----------------------------
(***************************************************************************)
(* The Kafka sender (pkg/sender/kafka_sender.go) and the topic it writes.  *)
(* The callback goroutine of a window calls SendAggregatedData, which      *)
(* blocks in the synchronous producer until the message is acknowledged or *)
(* the producer gives up.  The producer resends a message whose request    *)
(* failed or timed out; it is not idempotent, so the broker may append a   *)
(* message once for every request, and may do so after the producer has    *)
(* turned to the next request or has given up.                             *)
(***************************************************************************)
EXTENDS Naturals, Sequences, FiniteSets

CONSTANTS
    Batch,        \* the aggregates that windows hand over
    MaxAttempts   \* requests for one message: 1 + config.Producer.Retry.Max

ASSUME AttemptsAssumption == MaxAttempts \in Nat \ {0}

VARIABLES
    producer,   \* of each batch: not "idle" any more once its send began
    attempts,   \* of each batch: the requests made for it
    stray,      \* of each batch: requests given up that the broker may still see
    topic       \* the messages of the topic's partition

senderVars == <<producer, attempts, stray, topic>>

Offset == 0 .. Cardinality(Batch) * MaxAttempts - 1

\* The offsets at which a batch is in the topic.
Copies(b) == {o \in 0 .. Len(topic) - 1 : topic[o + 1] = b}

SenderInit ==
    /\ producer = [b \in Batch |-> "idle"]
    /\ attempts = [b \in Batch |-> 0]
    /\ stray = [b \in Batch |-> 0]
    /\ topic = <<>>

\* SendAggregatedData marshals the aggregate and makes the first request.
SendAggregatedData(b) ==
    /\ producer[b] = "idle"
    /\ producer' = [producer EXCEPT ![b] = "sending"]
    /\ attempts' = [attempts EXCEPT ![b] = 1]
    /\ UNCHANGED <<stray, topic>>

Appended(b) == topic' = Append(topic, b)

\* A slip: RequiredAcks is NoResponse, a request counts as acknowledged
\* when it has left.
FireAndForget(b) ==
    /\ producer[b] = "sending"
    /\ Appended(b) \/ UNCHANGED topic
    /\ producer' = [producer EXCEPT ![b] = "sent"]
    /\ UNCHANGED <<attempts, stray>>

\* The leader writes the message and its acknowledgement arrives:
\* SendMessage returns no error.
Acknowledged(b) ==
    /\ producer[b] = "sending"
    /\ Appended(b)
    /\ producer' = [producer EXCEPT ![b] = "sent"]
    /\ UNCHANGED <<attempts, stray>>

\* A slip: one request too many.
TriesOnceMore(b) ==
    /\ producer[b] = "sending"
    /\ IF attempts[b] <= MaxAttempts
       THEN /\ attempts' = [attempts EXCEPT ![b] = @ + 1]
            /\ UNCHANGED producer
       ELSE /\ producer' = [producer EXCEPT ![b] = "failed"]
            /\ UNCHANGED attempts

\* The producer makes the next request, or returns an error after the last.
TriesAgain(b) ==
    /\ producer[b] = "sending"
    /\ IF attempts[b] < MaxAttempts
       THEN /\ attempts' = [attempts EXCEPT ![b] = @ + 1]
            /\ UNCHANGED producer
       ELSE /\ producer' = [producer EXCEPT ![b] = "failed"]
            /\ UNCHANGED attempts

\* The message is written, but its acknowledgement is lost or late.
AcknowledgementLost(b) ==
    /\ Appended(b)
    /\ TriesAgain(b)
    /\ UNCHANGED stray

\* The request is lost.
RequestLost(b) ==
    /\ TriesAgain(b)
    /\ UNCHANGED <<stray, topic>>

\* The request takes longer than the producer's time-out, and is still on
\* its way.
RequestLate(b) ==
    /\ TriesAgain(b)
    /\ stray' = [stray EXCEPT ![b] = @ + 1]
    /\ UNCHANGED topic

LateAppend(b) ==
    /\ stray[b] > 0
    /\ Appended(b)
    /\ stray' = [stray EXCEPT ![b] = @ - 1]
    /\ UNCHANGED <<producer, attempts>>

SenderNext ==
    \E b \in Batch :
        \/ SendAggregatedData(b)
        \/ Acknowledged(b)
        \/ AcknowledgementLost(b)
        \/ RequestLost(b)
        \/ RequestLate(b)
        \/ LateAppend(b)

-----------------------------------------------------------------------------
SenderTypeOK ==
    /\ producer \in [Batch -> {"idle", "sending", "sent", "failed"}]
    /\ attempts \in [Batch -> 0 .. MaxAttempts]
    /\ stray \in [Batch -> 0 .. MaxAttempts]
    /\ topic \in Seq(Batch)

\* A batch whose send succeeded is in the topic, it is there once if the first
\* request succeeded, and no batch is there more often than requests were made
\* for it, those counted that may still arrive (SendMessage, line 80, and the
\* producer's configuration, lines 21-28).
SentIsThere ==
    \A b \in Batch :
        /\ producer[b] = "sent" => Copies(b) # {}
        /\ producer[b] = "sent" /\ attempts[b] = 1 => Cardinality(Copies(b)) = 1
        /\ Cardinality(Copies(b)) + stray[b] <= attempts[b]
=============================================================================
