------------------------------- MODULE Table -------------------------------
(***************************************************************************)
(* What level4 promises its clients: one table, on which every statement   *)
(* is executed in one step between its arrival and its response.  A        *)
(* statement that was answered has been executed once; one that was        *)
(* refused never is; one that failed may be, at most once, even later.     *)
(***************************************************************************)
EXTENDS Integers, Sequences

CONSTANTS Req,               \* requests
          NewRows,           \* the table at the start
          RowsAfter(_),      \* the rows after a sequence of requests
          Shows(_)           \* does the response to a request show the rows?

VARIABLES order,     \* requests executed so far, in order
          status,    \* "new", "open", "ok", "refused" or "failed"
          place,     \* the place in order that a response reports
          answer     \* the rows in it

vars == <<order, status, place, answer>>

Init ==
    /\ order = <<>>
    /\ status = [q \in Req |-> "new"]
    /\ place = [q \in Req |-> 0]
    /\ answer = [q \in Req |-> NewRows]

Executed == {order[i] : i \in 1 .. Len(order)}

Issue(q) ==
    /\ status[q] = "new"
    /\ status' \in {[status EXCEPT ![q] = "open"], [status EXCEPT ![q] = "refused"]}
    /\ UNCHANGED <<order, place, answer>>

Execute(q) ==
    /\ status[q] \in {"open", "failed"} /\ q \notin Executed
    /\ order' = Append(order, q)
    /\ UNCHANGED <<status, place, answer>>

Respond(q) ==
    /\ status[q] = "open"
    /\ \E i \in 1 .. Len(order) :
         /\ order[i] = q
         /\ place' = [place EXCEPT ![q] = i]
         /\ answer' = [answer EXCEPT ![q] = IF Shows(q)
                         THEN RowsAfter(SubSeq(order, 1, i)) ELSE @]
    /\ status' = [status EXCEPT ![q] = "ok"]
    /\ UNCHANGED order

Refuse(q) ==
    /\ status[q] = "open" /\ q \notin Executed
    /\ status' = [status EXCEPT ![q] = "refused"]
    /\ UNCHANGED <<order, place, answer>>

\* The crash of a node fails several requests at once.
Fail ==
    /\ \E failing \in SUBSET {q \in Req : status[q] = "open"} :
         status' = [q \in Req |-> IF q \in failing THEN "failed" ELSE status[q]]
    /\ UNCHANGED <<order, place, answer>>

Next ==
    \/ \E q \in Req : Issue(q) \/ Execute(q) \/ Respond(q) \/ Refuse(q)
    \/ Fail

Spec == Init /\ [][Next]_vars
=============================================================================
