--------------------------- MODULE MCCatalogStore ---------------------------
(***************************************************************************)
(* A small instance: the official address and its fallback, of which only  *)
(* the fallback sends ETags; users may add or choose either.               *)
(***************************************************************************)
EXTENDS CatalogStoreProps

CONSTANTS primary, fallback

MCDefaultUrls == <<primary, fallback>>
=============================================================================
