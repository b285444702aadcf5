--------------------------- MODULE ReadingBatches ---------------------------
(***************************************************************************)
(* What a window promises the collector that fills it: every reading it    *)
(* accepts becomes part of exactly one batch, batches are never empty, and *)
(* a batch is delivered once.  A lossy window may drop sealed batches, but *)
(* it duplicates nothing either.                                           *)
(***************************************************************************)
CONSTANT Reading
VARIABLES open,       \* the readings of the batch being filled
          sealed,     \* the batches (sets of readings) on their way
          delivered   \* the batches handed to the consumer

vars == <<open, sealed, delivered>>

\* The readings that are still known, in any place.
Known == open \cup (UNION sealed) \cup (UNION delivered)

TypeOK ==
    /\ open \subseteq Reading
    /\ sealed \subseteq SUBSET Reading
    /\ delivered \subseteq SUBSET Reading

Init == open = {} /\ sealed = {} /\ delivered = {}

\* A reading joins the open batch.
Accept(r) ==
    /\ r \notin Known
    /\ open' = open \cup {r}
    /\ UNCHANGED <<sealed, delivered>>

\* A reading joins the open batch and completes it.
AcceptAndSeal(r) ==
    /\ r \notin Known
    /\ open' = {}
    /\ sealed' = sealed \cup {open \cup {r}}
    /\ UNCHANGED delivered

Seal ==
    /\ open # {}
    /\ open' = {}
    /\ sealed' = sealed \cup {open}
    /\ UNCHANGED delivered

Deliver(b) ==
    /\ b \in sealed
    /\ sealed' = sealed \ {b}
    /\ delivered' = delivered \cup {b}
    /\ UNCHANGED open

\* A sealed batch is dropped.
Lose(b) ==
    /\ b \in sealed
    /\ sealed' = sealed \ {b}
    /\ UNCHANGED <<open, delivered>>

Next ==
    \/ \E r \in Reading : Accept(r) \/ AcceptAndSeal(r)
    \/ Seal
    \/ \E b \in sealed : Deliver(b)

LossyNext == Next \/ \E b \in sealed : Lose(b)

Spec      == Init /\ [][Next]_vars
LossySpec == Init /\ [][LossyNext]_vars

-----------------------------------------------------------------------------
\* No reading is in two batches, or in the open batch and in a sealed one, no
\* batch is both delivered and on its way, and no batch is empty.
EachOnce ==
    /\ \A a, b \in sealed \cup delivered : a # b => a \cap b = {}
    /\ \A b \in sealed \cup delivered : b # {} /\ b \cap open = {}
    /\ sealed \cap delivered = {}
=============================================================================
