-------------------------------- MODULE Saga --------------------------------
(***************************************************************************)
(* What a store deployment promises about an account's named resources,    *)
(* whatever else is deployed at the same time: it takes only names that    *)
(* nobody holds, it gives up only what it took itself, and only after it   *)
(* has decided to abort; a deployment that has committed keeps everything. *)
(***************************************************************************)
CONSTANTS Deploys, Titles, Nobody, User

VARIABLES
    holder,  \* per title: who created the resource of that name
    phase    \* per deployment: how far it is

Running == {"running", "aborting"}

Begin(d) ==
    /\ phase[d] = "idle"
    /\ phase' = [phase EXCEPT ![d] = "running"]
    /\ UNCHANGED holder

\* A reply that is lost leaves the resource taken and the deployment aborting.
Acquire(d, t, p) ==
    /\ phase[d] = "running"
    /\ holder[t] = Nobody
    /\ p \in Running
    /\ holder' = [holder EXCEPT ![t] = d]
    /\ phase' = [phase EXCEPT ![d] = p]

Decide(d, p) ==
    /\ phase[d] = "running"
    /\ p \in {"aborting", "committed"}
    /\ phase' = [phase EXCEPT ![d] = p]
    /\ UNCHANGED holder

Release(d, t) ==
    /\ phase[d] = "aborting"
    /\ holder[t] = d
    /\ holder' = [holder EXCEPT ![t] = Nobody]
    /\ UNCHANGED phase

Aborted(d) ==
    /\ phase[d] = "aborting"
    /\ phase' = [phase EXCEPT ![d] = "aborted"]
    /\ UNCHANGED holder

Refuse(d) ==
    /\ phase[d] = "idle"
    /\ phase' = [phase EXCEPT ![d] = "aborted"]
    /\ UNCHANGED holder

\* The process dies; what was running is never heard of again.
Crash ==
    /\ phase' = [d \in Deploys |-> IF phase[d] \in Running THEN "lost" ELSE phase[d]]
    /\ UNCHANGED holder

Init ==
    /\ holder \in [Titles -> Deploys \cup {Nobody, User}]
    /\ \A t \in Titles : holder[t] \notin Deploys
    /\ phase = [d \in Deploys |-> "idle"]

Next ==
    \/ \E d \in Deploys :
          \/ Begin(d) \/ Refuse(d) \/ Aborted(d)
          \/ \E p \in {"aborting", "committed"} : Decide(d, p)
          \/ \E t \in Titles :
                \/ Release(d, t)
                \/ \E p \in Running : Acquire(d, t, p)
    \/ Crash

Spec == Init /\ [][Next]_<<holder, phase>>
=============================================================================
