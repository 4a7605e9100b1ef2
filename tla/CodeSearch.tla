----------------------------- MODULE CodeSearch -----------------------------
(***************************************************************************)
(* What level3 promises whoever sends it queries: one service that scans   *)
(* every indexed file.  While it is ready a query finds exactly what a     *)
(* scan of the whole tree finds, and is answered.  A query that was asked  *)
(* before, or that a shard's crash overtook, may fail or miss matches, but *)
(* finds nothing that is not there.                                        *)
(***************************************************************************)
CONSTANTS Query,       \* the queries
          Full         \* what a scan of the whole tree finds for each

VARIABLES ready,       \* every shard has indexed its files
          status,      \* "new", "asked", "ok" or "failed"
          sure,        \* queries asked while ready, no shard lost since
          answer       \* the matches in the response

vars == <<ready, status, sure, answer>>

Init ==
    /\ ready = FALSE
    /\ status = [q \in Query |-> "new"]
    /\ sure = {}
    /\ answer = [q \in Query |-> {}]

GetReady ==
    /\ ~ready /\ ready' = TRUE
    /\ UNCHANGED <<status, sure, answer>>

Lose ==
    /\ ready' = FALSE /\ sure' = {}
    /\ UNCHANGED <<status, answer>>

Ask(q) ==
    /\ status[q] = "new"
    /\ status' = [status EXCEPT ![q] = "asked"]
    /\ sure' = IF ready THEN sure \cup {q} ELSE sure
    /\ UNCHANGED <<ready, answer>>

AnswerFully(q) ==
    /\ status[q] = "asked" /\ q \in sure
    /\ status' = [status EXCEPT ![q] = "ok"]
    /\ answer' = [answer EXCEPT ![q] = Full[q]]
    /\ UNCHANGED <<ready, sure>>

AnswerPartly(q) ==
    /\ status[q] = "asked" /\ q \notin sure
    /\ status' = [status EXCEPT ![q] = "ok"]
    /\ \E part \in SUBSET Full[q] : answer' = [answer EXCEPT ![q] = part]
    /\ UNCHANGED <<ready, sure>>

Fail(q) ==
    /\ status[q] = "asked" /\ q \notin sure
    /\ status' = [status EXCEPT ![q] = "failed"]
    /\ UNCHANGED <<ready, sure, answer>>

Next ==
    \/ GetReady \/ Lose
    \/ \E q \in Query : Ask(q) \/ AnswerFully(q) \/ AnswerPartly(q) \/ Fail(q)

Safety == Init /\ [][Next]_vars

Spec == Safety /\ \A q \in Query : WF_vars(AnswerFully(q))
=============================================================================
