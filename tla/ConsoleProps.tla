---------------------------- MODULE ConsoleProps ----------------------------
(***************************************************************************)
(* What must be true of the console's pages.                               *)
(***************************************************************************)
EXTENDS Console

-----------------------------------------------------------------------------
(* Types. *)

StorageRequest ==
  [service : Services, pane : {"list", "items", "page", "create", "delete", "write", "value", "put", "alter"},
   account : Accounts, box : Boxes \cup {None}, from : SUBSET Boxes, astray : BOOLEAN, doubt : BOOLEAN]

StorageDialog == [open : BOOLEAN, from : SUBSET Boxes, doubt : BOOLEAN]

StorageTypeOK ==
  /\ account \in Accounts \cup {None}
  /\ tab \in Services
  /\ lists \in [Services -> SUBSET Accounts]
  /\ chosen \in [Services -> Boxes \cup {None}]
  /\ items \in [Services -> SUBSET Boxes]
  /\ more \in BOOLEAN
  /\ busy \subseteq Panes
  /\ editor \in StorageDialog /\ schema \in StorageDialog
  /\ flights \in Seq(StorageRequest)
  /\ asked \subseteq Services
  /\ astray \subseteq Panes

DnsTypeOK ==
  /\ listed \subseteq Domains /\ currentDomain \in Domains \cup {NoDomain}
  /\ records \subseteq Domains \cup {NoDomain} /\ loading \in BOOLEAN
  /\ zoneSettings \in Domains \cup {NoDomain} /\ settingsLoading \in BOOLEAN
  /\ dnsTab \in {"records", "settings", "cache"}
  /\ zoneForm \in Domains \cup {NoDomain, Defaults}
  /\ dnsAstray \subseteq {"records", "settings"}

TunnelsTypeOK ==
  /\ tunnelAccount \in TunnelAccounts \cup {NoTunnel}
  /\ tunnels \subseteq TunnelAccounts
  /\ spinning \subseteq Loads
  /\ entries \in [of : Tunnels \cup {NoTunnel}, hosts : SUBSET Hosts]
  /\ ingress \in [Tunnels -> SUBSET Hosts]
  /\ tunnelsAstray \subseteq Loads

RulesTypeOK ==
  /\ target \in Targets \cup {NoTarget}
  /\ rows \subseteq [of : Targets, expr : SUBSET {"host", "otherHost", "prefix", "pattern", "else"}]
  /\ loadingRules \in BOOLEAN /\ rowsAstray \in BOOLEAN

AccountsRequest ==
  [kind : Sheets \cup {"list", "batch", "testBatch", "import", "export", "delete", "test"},
   query : Queries \cup {NoMember}, id : Members \cup {NoMember}, from : Members \cup {NoMember},
   after : {"none", "account", "features", "batch", "testBatch", "import"}]

AccountsTypeOK ==
  /\ query \in Queries /\ answered \subseteq Queries
  /\ waits \subseteq {"loading", "submitting", "cred", "batch", "testBatch", "import", "export"}
  /\ checked \in BOOLEAN /\ opened \subseteq Dialogs
  /\ form \in [id : Members \cup {NoMember}, from : Members \cup {NoMember}]
  /\ accountFlights \in Seq(AccountsRequest)
  /\ accountsAstray \subseteq {"table", "cred"}

ScriptRequest ==
  [kind : {"load", "reload", "read", "write"}, pane : Filled \cup {"table"}, to : Scripts \cup Cards,
   from : Scripts \cup {NoScript}, astray : BOOLEAN]

WorkersTypeOK ==
  /\ card \in Cards /\ rowsOf \in Cards \cup {NoScript}
  /\ panes \in PaneSets
  /\ drawer \in Scripts \cup {NoScript} /\ drawerOpen \in BOOLEAN
  /\ logOf \in Scripts \cup {NoScript} /\ formOf \in Scripts \cup {NoScript}
  /\ shown \in [Filled -> Scripts \cup {NoScript}]
  /\ spin \subseteq panes \cup {"table"} /\ saving \subseteq panes
  /\ modal \in Forms \cup {"none"}
  /\ drawerFlights \in Seq(ScriptRequest)
  /\ drawerAstray \subseteq Filled \cup {"table", "form"}

\* Every variable keeps its type.
TypeOK == StorageTypeOK /\ DnsTypeOK /\ TunnelsTypeOK /\ RulesTypeOK /\ AccountsTypeOK /\ WorkersTypeOK

-----------------------------------------------------------------------------
(* What the pages show. *)

\* The lists of containers on the storage page are those of the selected account, and the selected
\* containers are its own, unless an answer about another account has arrived since it was selected.
ListsOwn ==
  \A s \in Services : <<s, "list">> \notin astray =>
    /\ lists[s] \subseteq {account}
    /\ chosen[s] # None => OwnerOf[chosen[s]] = account

\* The contents on the storage page are those of the selected container.
ItemsOwn ==
  \A s \in Services : <<s, "items">> \notin astray => items[s] \subseteq {chosen[s]} \/ BoxAsked(s)

\* The records on the DNS page are those of the current domain.
RecordsOwn ==
  "records" \notin dnsAstray =>
    records \subseteq {currentDomain} \/ \E f \in Range(dnsFlights) : f.kind = "records" /\ f.domain = currentDomain

\* The tunnels listed are those of the selected account, and the rules those of the selected target.
RowsOwn ==
  /\ "tunnels" \notin tunnelsAstray =>
       tunnels \subseteq {tunnelAccount}
         \/ \E f \in Range(tunnelFlights) : "tunnels" \in Holds(f) /\ f.account = tunnelAccount
  /\ ~rowsAstray =>
       {r.of : r \in rows} \subseteq {target} \/ \E f \in Range(ruleFlights) : f.kind = "load" /\ f.to = target

\* The table of accounts answers the current query, and the credentials shown are those of the row asked for.
TableOwn ==
  /\ "table" \notin accountsAstray =>
       answered \subseteq {query} \/ \E f \in Range(accountFlights) : f.kind = "list" /\ f.query = query
  /\ "cred" \in opened \ accountsAstray => form.from \in {form.id, NoMember}

\* The table of the workers page is that of the selected card, the log that of the row it was opened on, and
\* the panes of the drawer, with the zones its domain form offers, those of the row the drawer is open on;
\* a Pages drawer keeps the zones of an earlier row until that form is opened.
DrawerOwn ==
  /\ "table" \notin drawerAstray =>
       rowsOf \in {card, NoScript} \/ \E f \in Range(drawerFlights) : f.pane = "table" /\ f.to = card
  /\ logOf # NoScript /\ "logs" \notin drawerAstray => shown["logs"] \in {logOf, NoScript}
  /\ drawerOpen => \A p \in (panes \cup {"zones"}) \ drawerAstray :
       \/ shown[p] \in {drawer, NoScript}
       \/ \E f \in Range(drawerFlights) : f.kind \in {"load", "reload"} /\ f.pane = p /\ f.to = drawer
       \/ p = "zones" /\ OfPages /\ modal # "pagesDomains"

\* The open tab of the storage page has asked for its list since the account was selected, unless an
\* answer for another account is still to come or came: the tab is not left empty by the watcher that
\* loads lazily and the handler that loads eagerly each leaving it to the other.
TabAsked ==
  account # None =>
    \/ tab \in asked
    \/ <<tab, "list">> \in astray
    \/ \E f \in Range(flights) : f.service = tab /\ f.pane = "list"

\* A page shows what is selected on it, or has asked for it and waits, unless the answer to an older
\* request overtook the selection: nothing of the previous account, container, domain or target is
\* left behind by a handler that forgot to clear it or to load it again.
ShowsSelection == ListsOwn /\ ItemsOwn /\ RecordsOwn /\ RowsOwn /\ TableOwn /\ DrawerOwn /\ TabAsked

-----------------------------------------------------------------------------
(* What the pages send. *)

\* A request of the storage page names a container together with the account that owns it.
BoxesPaired == \A f \in Range(flights) : f.box # None => OwnerOf[f.box] = f.account \/ f.astray

\* A key with its value, a row or a table goes to the container it was read from; in doubt (RowsDoubted, and
\* the doubt of a dialog) are rows that an answer overtook, the tables of the previous database until the new
\* ones arrive, and a dialog opened by the "create" button or by an answer, with what is left in it.
RowsOwned == \A f \in Range(flights) : f.from \subseteq {f.box} \/ f.doubt

\* A record, a zone setting sent from the settings tab, an ingress configuration, a rule, an account,
\* a Worker or a Pages project is written where it was read; a form that could not be read, or was new, says
\* nothing of any other.  The cache tab of the DNS page is the exception: its switch shows the zone it was
\* opened on, whatever domain is selected since.
FormsOwn ==
  /\ \A f \in Range(dnsFlights) : f.tab # "cache" => f.from \in {f.domain, NoDomain, Defaults} \/ f.astray
  /\ \A f \in Range(tunnelFlights) : f.from \in {f.to, NoTunnel} \/ f.astray
  /\ \A f \in Range(ruleFlights) : f.from \in {f.to, NoTarget} \/ f.astray
  /\ \A f \in Range(accountFlights) : f.from = f.id
  /\ \A f \in Range(drawerFlights) : f.kind = "write" => f.from \in {f.to, NoScript} \/ f.astray

\* A page writes back where it read, with the exceptions that the three parts name: a request that names one
\* owner's resource carries another's row or form only when an answer overtook the selection, when the form was
\* sent while it was still being read, or when the page itself kept the other's in a form or a list.
WritesWhereRead == BoxesPaired /\ RowsOwned /\ FormsOwn

-----------------------------------------------------------------------------
(* What becomes of a load. *)

\* A spinner covers a page only while a load that will take it down is in flight: no path through an
\* answer, a failure or a change of selection leaves it up for good.
SpinnersFly ==
  /\ \A p \in busy : \E f \in Range(flights) : p \in Flag(f)
  /\ loading => \E f \in Range(dnsFlights) : f.kind \in {"domains", "records"}
  /\ settingsLoading => \E f \in Range(dnsFlights) : f.kind \in {"settings", "orphan"}
  /\ \A w \in spinning : \E f \in Range(tunnelFlights) : w \in Holds(f)
  /\ loadingRules => \E f \in Range(ruleFlights) : f.kind = "load"
  /\ \A w \in waits : \E f \in Range(accountFlights) : w \in WaitOf(f.kind) \cup Ended(f.after)
  /\ \A p \in spin : \E f \in Range(drawerFlights) : f.kind \in {"load", "reload"} /\ f.pane = p
  /\ \A p \in saving : \E f \in Range(drawerFlights) : f.kind # "load" /\ f.pane = p
=============================================================================
