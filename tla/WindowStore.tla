----------------------------- MODULE WindowStore -----------------------------
(***************************************************************************)
(* What a collector, and a reader of statistics, may expect of the service *)
(* that a sender hands its windows to.  A window is stored at most once; a *)
(* send that returns no error has been stored; one that returns an error   *)
(* may have been, and may still be.  A reader gets the windows up to some  *)
(* point: all that were stored when it asked, and none that is not stored  *)
(* when it is answered.  The store is in memory and may be lost as a whole.*)
(***************************************************************************)
EXTENDS Naturals, Sequences

CONSTANTS
    Window,    \* the windows that are sent
    Reader,    \* those who ask for what is stored
    None

VARIABLES
    status,    \* of each window's send: "idle", "sending", "ok" or "failed"
    accepted,  \* the windows that were stored, whether they still are or not
    stored,    \* the windows in the store
    asked,     \* how many were there when the reader asked, None if it does not wait
    answer     \* how many the reader was told of last

vars == <<status, accepted, stored, asked, answer>>

Init ==
    /\ status = [w \in Window |-> "idle"]
    /\ accepted = {} /\ stored = <<>>
    /\ asked = [r \in Reader |-> None]
    /\ answer = [r \in Reader |-> 0]

Send(w) ==
    /\ status[w] = "idle"
    /\ status' = [status EXCEPT ![w] = "sending"]
    /\ UNCHANGED <<accepted, stored, asked, answer>>

Stored(w) ==
    /\ status[w] # "idle" /\ w \notin accepted
    /\ accepted' = accepted \cup {w}
    /\ stored' = Append(stored, w)
    /\ UNCHANGED <<asked, answer>>

Returns(w, result) ==
    /\ status[w] = "sending"
    /\ result = "ok" => w \in accepted'
    /\ status' = [status EXCEPT ![w] = result]

Store(w) == Stored(w) /\ UNCHANGED status

StoreAndReturn(w) == Stored(w) /\ Returns(w, "ok")

Return(w) ==
    /\ UNCHANGED <<accepted, stored, asked, answer>>
    /\ \E result \in {"ok", "failed"} : Returns(w, result)

Ask(r) ==
    /\ asked[r] = None
    /\ asked' = [asked EXCEPT ![r] = Len(stored)]
    /\ UNCHANGED <<status, accepted, stored, answer>>

Answer(r) ==
    /\ asked[r] # None
    /\ \E n \in asked[r] .. Len(stored) : answer' = [answer EXCEPT ![r] = n]
    /\ asked' = [asked EXCEPT ![r] = None]
    /\ UNCHANGED <<status, accepted, stored>>

\* The reader, or the service, gives the request up.
GiveUp(r) ==
    /\ asked' = [asked EXCEPT ![r] = None]
    /\ UNCHANGED <<status, accepted, stored, answer>>

\* The service restarts; readers and senders that it was serving are given up.
Lose ==
    /\ stored' = <<>>
    /\ asked' = [r \in Reader |-> None]
    /\ \E given_up \in SUBSET {w \in Window : status[w] = "sending"} :
         status' = [w \in Window |-> IF w \in given_up THEN "failed" ELSE status[w]]
    /\ UNCHANGED <<accepted, answer>>

Next ==
    \/ \E w \in Window : Send(w) \/ Store(w) \/ StoreAndReturn(w) \/ Return(w)
    \/ \E r \in Reader : Ask(r) \/ Answer(r) \/ GiveUp(r)
    \/ Lose

Spec == Init /\ [][Next]_vars
=============================================================================
