------------------------------ MODULE Console ------------------------------
(***************************************************************************)
(* The web console: one page at a time is mounted, and what happens on it  *)
(* leaves the others alone.  A page that is opened again starts from its   *)
(* initial state, except for the store behind the DNS page.                *)
(***************************************************************************)
EXTENDS StorageView, DnsView, TunnelsView, OriginRules, AccountsView, WorkersView

CONSTANT Pages   \* the pages considered

ASSUME ConsoleAssumption == Pages \subseteq {"storage", "dns", "tunnels", "rules", "accounts", "workers"}

VARIABLE page

consoleVars == <<page, storageVars, dnsVars, tunnelsVars, rulesVars, accountsVars, workersVars>>

Init ==
  /\ page \in Pages
  /\ StorageInit /\ DnsInit /\ TunnelsInit /\ RulesInit /\ AccountsInit /\ WorkersInit
  /\ page # "storage" => tabs = CHOOSE ts \in TabSets : TRUE
  /\ page # "rules" => stored = [g \in Targets |-> {}]
  /\ page # "accounts" => query = CHOOSE q \in Queries : TRUE
  /\ page # "workers" => panes = (CHOOSE ps \in PaneSets : TRUE) /\ card = CHOOSE c \in Cards : TRUE

StoragePage ==
  /\ page = "storage" /\ StorageNext
  /\ UNCHANGED <<page, dnsVars, tunnelsVars, rulesVars, accountsVars, workersVars>>

\* The DNS page may also be left and opened again.
DnsPage ==
  /\ page = "dns"
  /\ DnsNext \/ MountDns
  /\ UNCHANGED <<page, storageVars, tunnelsVars, rulesVars, accountsVars, workersVars>>

TunnelsPage ==
  /\ page = "tunnels" /\ TunnelsNext
  /\ UNCHANGED <<page, storageVars, dnsVars, rulesVars, accountsVars, workersVars>>

RulesPage ==
  /\ page = "rules" /\ RulesNext
  /\ UNCHANGED <<page, storageVars, dnsVars, tunnelsVars, accountsVars, workersVars>>

AccountsPage ==
  /\ page = "accounts" /\ AccountsNext
  /\ UNCHANGED <<page, storageVars, dnsVars, tunnelsVars, rulesVars, workersVars>>

WorkersPage ==
  /\ page = "workers" /\ WorkersNext
  /\ UNCHANGED <<page, storageVars, dnsVars, tunnelsVars, rulesVars, accountsVars>>

Next == StoragePage \/ DnsPage \/ TunnelsPage \/ RulesPage \/ AccountsPage \/ WorkersPage

Spec == Init /\ [][Next]_consoleVars
=============================================================================
