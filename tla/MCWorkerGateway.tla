-------------------------- MODULE MCWorkerGateway --------------------------
(***************************************************************************)
(* The instances of the Worker's gateway that TLC checks: two accounts,    *)
(* one request of any kind, or two requests side by side.                  *)
(***************************************************************************)
EXTENDS WorkerGatewayProps

CONSTANTS a1, a2, r1, r2

MCAccounts == {a1, a2}
AnyKind == [r \in {r1} |-> AllKinds]
TwoKinds == [r \in {r1, r2} |-> IF r = r1 THEN {"stream", "image"} ELSE {"speech"}]
=============================================================================
