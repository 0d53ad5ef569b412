------------------------------ MODULE Failover ------------------------------
(***************************************************************************)
(* What the gateway promises of one inference request, whatever the cache, *)
(* the quota rows and the other requests do: it asks one account after     *)
(* another, never the same one twice, a pinned request asks only the       *)
(* account it names, and it is answered once.                              *)
(***************************************************************************)
EXTENDS Naturals

CONSTANTS
    Accounts, Requests, None,
    Verdicts,   \* how a request may end
    Refusals    \* those of them that need no account to have been asked

VARIABLE job   \* per request: phase, pin, accounts asked, calls sent, verdict

Allowed(pin, a) == pin = None \/ pin = a

NewJob == [phase |-> "new", pin |-> None, asked |-> {}, calls |-> 0,
           verdict |-> "none"]

\* The request arrives and may ask a first account in the same turn.
Submit(r, pin, S) ==
    /\ job[r].phase = "new"
    /\ S = {} \/ \E a \in Accounts : S = {a} /\ Allowed(pin, a)
    /\ job' = [job EXCEPT ![r] =
          [phase |-> "open", pin |-> pin, asked |-> S,
           calls |-> IF S = {} THEN 0 ELSE 1, verdict |-> "none"]]

\* The request arrives and finds no account to ask.
Refuse(r, pin, v) ==
    /\ job[r].phase = "new"
    /\ v \in Refusals
    /\ job' = [job EXCEPT ![r] =
          [phase |-> "closed", pin |-> pin, asked |-> {}, calls |-> 0,
           verdict |-> v]]

Ask(r, a) ==
    /\ job[r].phase = "open"
    /\ a \notin job[r].asked
    /\ Allowed(job[r].pin, a)
    /\ job' = [job EXCEPT ![r] =
          [phase |-> "open", pin |-> job[r].pin,
           asked |-> job[r].asked \cup {a}, calls |-> job[r].calls + 1,
           verdict |-> "none"]]

\* A verdict of success or of exhaustion needs an account that was asked.
Close(r, v) ==
    /\ job[r].phase = "open"
    /\ v \in Refusals \/ job[r].asked # {}
    /\ job' = [job EXCEPT ![r] =
          [phase |-> "closed", pin |-> job[r].pin,
           asked |-> job[r].asked, calls |-> job[r].calls, verdict |-> v]]

Init == job = [r \in Requests |-> NewJob]

Next == \E r \in Requests :
    \/ \E pin \in Accounts \cup {None} :
          \/ Submit(r, pin, {})
          \/ \E a \in Accounts : Submit(r, pin, {a})
          \/ \E v \in Refusals : Refuse(r, pin, v)
    \/ \E a \in Accounts : Ask(r, a)
    \/ \E v \in Verdicts : Close(r, v)

Spec == Init /\ [][Next]_job
=============================================================================
