----------------------------- MODULE MCConsole -----------------------------
(***************************************************************************)
(* The instance of the console that TLC checks: two of everything that can *)
(* be selected.                                                            *)
(***************************************************************************)
EXTENDS ConsoleProps, TLC

CONSTANTS a1, a2, k1, k2, t1, t2, s1, s2

MCOwnerOf == (k1 :> a1 @@ k2 :> a2)
MCTabSets == {{"kv"}, {"d1"}, {"kv", "r2"}}
MCTunnelOwner == (t1 :> a1 @@ t2 :> a2)
MCExpressions == {{"host", "else"}}
MCCardOf == (s1 :> a1 @@ s2 :> a1)
MCPaneSets == {{p} : p \in {"secrets", "schedules", "domains", "content", "project", "bindings",
                    "subdomain", "pagesDomains", "pagesDeployments"}} \cup {{"pagesDomains", "bindings"}}
=============================================================================
