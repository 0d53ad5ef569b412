---------------------------- MODULE MCAiGateway ----------------------------
(***************************************************************************)
(* The instances of the gateway that TLC checks: two accounts and a paid   *)
(* model, which the router takes for a free one until it has listed the    *)
(* models.                                                                 *)
(***************************************************************************)
EXTENDS AiGatewayProps

CONSTANTS a1, a2, flux

MCAccounts == {a1, a2}
MCModels == {flux}
=============================================================================
