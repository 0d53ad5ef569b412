-------------------------- MODULE StoreDeployProps --------------------------
(***************************************************************************)
(* What must hold of the deployments of StoreDeploy.                       *)
(***************************************************************************)
EXTENDS StoreDeploy

Unsuccessful(rec) == rec.pc = "done" /\ rec.result \in {"failed", "error"}
RollingBackOrOver(rec) == rec.pc \in {"undo", "done", "lost"}

(***************************************************************************)
(* Safety                                                                  *)
(***************************************************************************)

\* No deployment, however it fails, deletes a KV namespace, D1 database or R2
\* bucket that the account's owner had: rollback deletes buckets by name, so
\* this rests on what "created" means in the resolved bindings.
UserResourcesKept ==
    [][\A t \in Titles : holder[t] = User => holder'[t] = User]_vars

\* What a failed deployment leaves behind is known: a resource it created and
\* that still exists was either reported in rollbackErrors or belongs to the
\* one binding at which the deployment failed.
LeftoversExplained ==
    \A d \in Deploys : Unsuccessful(dep[d]) =>
        \A t \in Titles : holder[t] = d =>
            \/ t \in dep[d].errors
            \/ /\ dep[d].next \in DOMAIN dep[d].tpl.bindings
               /\ t = Wanted(dep[d])

\* A deployment reported as a success holds what its bindings name: every
\* resource it created still exists, and one that it found can only have been
\* taken away by the rollback of the deployment that had created it.  Only an
\* id that the request brought along, which nobody looks up, may be of nothing.
SuccessHoldsResources ==
    \A d \in Deploys : dep[d].result = "success" =>
        \A i \in DOMAIN dep[d].resolved :
            LET e == dep[d].resolved[i]
            IN  \/ holder[e.title] = e.by
                \/ e.by = None /\ ~e.created
                \/ e.by \in Deploys \ {d} /\ RollingBackOrOver(dep[e.by])
                                          /\ dep[e.by].result # "success"

\* A deployed Worker outlives the failure of a later step (the Pages part):
\* only the rollback of another deployment to the same name, one that did not
\* get its own Worker deployed, can have removed it.
DeployedWorkerKept ==
    \A d \in Deploys : dep[d].pc = "done" /\ dep[d].deployed =>
        \/ script[dep[d].name] # None
        \/ \E o \in Deploys \ {d} : /\ dep[o].name = dep[d].name
                                    /\ Unsuccessful(dep[o]) /\ ~dep[o].deployed

\* On the account's named resources a deployment is the saga of module Saga.
PhaseOf(rec) ==
    CASE rec.pc = "idle" -> "idle"
      [] rec.pc = "undo" -> "aborting"
      [] rec.pc = "lost" -> "lost"
      [] rec.pc = "done" -> IF rec.result = "success" THEN "committed" ELSE "aborted"
      [] OTHER -> "running"
Phase == [d \in Deploys |-> PhaseOf(dep[d])]
Abstract == INSTANCE Saga WITH Nobody <- None, phase <- Phase
ImplementsSaga == Abstract!Spec

(***************************************************************************)
(* Liveness                                                                *)
(***************************************************************************)

\* A deployment that was started ends, or its process is killed: no refusal,
\* network error or failed rollback leaves it half way.
EveryDeployEnds ==
    \A d \in Deploys : Active(dep[d]) ~> ~Active(dep[d])
=============================================================================
