---------------------------- MODULE TunnelsView ----------------------------
(***************************************************************************)
(* The tunnels tab of the tunnels page of the web console: the tunnels of  *)
(* the selected account, their ingress dialog and the origin wizard.  As   *)
(* on the other pages, a request reads the selection when it is sent and   *)
(* its answer is taken whatever is selected by then.                       *)
(***************************************************************************)
EXTENDS Sequences, SequencesExt

CONSTANTS
  TunnelAccounts,
  NoTunnel,
  Tunnels,
  TunnelOwner,      \* the account of each tunnel
  Hosts,
  ZoneHosts,        \* the hosts in the zones of the tunnel's own account
  MaxTunnelFlights  \* bound on the requests in flight

ASSUME TunnelsAssumption ==
  /\ TunnelOwner \in [Tunnels -> TunnelAccounts]
  /\ ZoneHosts \subseteq Hosts
  /\ NoTunnel \notin TunnelAccounts \cup Tunnels
  /\ MaxTunnelFlights \in Nat

VARIABLES
  tunnelAccount,    \* selectedAccountId
  tunnels,          \* the accounts whose tunnels are listed
  spinning,         \* the loading flags that are up
  configDialog,     \* the ingress dialog: open or not, and its tunnel
  entries,          \* ingressEntries: the tunnel they were read from, and its hosts
  ingress,          \* Cloudflare: the hosts each tunnel routes
  tunnelFlights,    \* the requests in flight, in the order they were sent
  tunnelsAstray     \* history: what an answer about something no longer selected has filled

tunnelsVars == <<tunnelAccount, tunnels, spinning, configDialog, entries, ingress,
                 tunnelFlights, tunnelsAstray>>

Loads == {"accounts", "tunnels", "config"}

(***************************************************************************)
(* A request: what it is for, the tunnel it names, where the row or form   *)
(* it sends was read, the hosts it sets, and, history, whether that had    *)
(* been filled astray or was still being read.                             *)
(***************************************************************************)
Req(kind, to, from, hosts, astray) ==
  [kind |-> kind, account |-> tunnelAccount, to |-> to, from |-> from, hosts |-> hosts, astray |-> astray]

Load(kind, to) == Req(kind, to, NoTunnel, {}, FALSE)

\* The flags a request holds up; the first load of tunnels is part of the load of accounts.
Holds(f) == IF f.kind = "first" THEN {"accounts", "tunnels"} ELSE {f.kind} \cap Loads

Doubtful(what) == what \in tunnelsAstray \/ \E f \in Range(tunnelFlights) : what \in Holds(f)

SendReq(f) ==
  /\ Len(tunnelFlights) < MaxTunnelFlights
  /\ tunnelFlights' = Append(tunnelFlights, f)
  /\ spinning' = spinning \cup Holds(f)

\* The dialog covers the page.
Covered == configDialog.open

NoEntries == [of |-> NoTunnel, hosts |-> {}]

\* onMounted: loadAccounts, and the domains after it.
TunnelsInit ==
  /\ tunnelAccount = NoTunnel
  /\ tunnels = {}
  /\ spinning = {"accounts"}
  /\ configDialog = [open |-> FALSE, tunnel |-> NoTunnel]
  /\ entries = NoEntries
  /\ ingress = [t \in Tunnels |-> Hosts]
  /\ tunnelFlights = <<[kind |-> "accounts", account |-> NoTunnel, to |-> NoTunnel, from |-> NoTunnel, hosts |-> {}, astray |-> FALSE]>>
  /\ tunnelsAstray = {}

-----------------------------------------------------------------------------
\* The refresh button, which takes no click while it spins.
RefreshAccounts ==
  /\ ~Covered /\ "accounts" \notin spinning
  /\ SendReq(Load("accounts", NoTunnel))
  /\ UNCHANGED <<tunnelAccount, tunnels, configDialog, entries, ingress, tunnelsAstray>>

\* onAccountChange: the tunnels of the previous account stay under the spinner.
SelectTunnelAccount(a) ==
  /\ ~Covered /\ tunnelAccount # NoTunnel
  /\ tunnelAccount' = a
  /\ SendReq([Load("tunnels", NoTunnel) EXCEPT !.account = a])
  /\ UNCHANGED <<tunnels, configDialog, entries, ingress, tunnelsAstray>>

\* submitCreateTunnel, and deleteTunnel of a row
ChangeTunnel ==
  /\ ~Covered /\ tunnelAccount # NoTunnel
  /\ \/ SendReq(Load("create", NoTunnel))
     \/ /\ "tunnels" \notin spinning
        /\ \E t \in Tunnels : TunnelOwner[t] \in tunnels /\ SendReq(Req("delete", t, t, {}, Doubtful("tunnels")))
  /\ UNCHANGED <<tunnelAccount, tunnels, configDialog, entries, ingress, tunnelsAstray>>

\* openConfig: the dialog opens at once, on the entries of the tunnel it showed last.
OpenConfig(t) ==
  /\ ~Covered /\ tunnelAccount # NoTunnel
  /\ TunnelOwner[t] \in tunnels /\ "tunnels" \notin spinning
  /\ configDialog' = [open |-> TRUE, tunnel |-> t]
  /\ SendReq(Load("config", t))
  /\ UNCHANGED <<tunnelAccount, tunnels, entries, ingress, tunnelsAstray>>

CloseConfig ==
  /\ configDialog.open
  /\ configDialog' = [configDialog EXCEPT !.open = FALSE]
  /\ UNCHANGED <<tunnelAccount, tunnels, spinning, entries, ingress, tunnelFlights, tunnelsAstray>>

\* saveConfig: the button is outside the spinner.  An entry keeps the name of its host only when
\* the host was found in a zone of the account.
SaveConfig ==
  /\ configDialog.open
  /\ SendReq(Req("save", configDialog.tunnel, entries.of, entries.hosts \cap ZoneHosts, Doubtful("config")))
  /\ UNCHANGED <<tunnelAccount, tunnels, configDialog, entries, ingress, tunnelsAstray>>

\* submitWizard with a listed tunnel: the host is added to its ingress.
SubmitWizard ==
  /\ ~Covered /\ tunnelAccount # NoTunnel
  /\ \E t \in Tunnels, h \in ZoneHosts : TunnelOwner[t] \in tunnels /\ SendReq(Req("wizard", t, t, {h}, Doubtful("tunnels")))
  /\ UNCHANGED <<tunnelAccount, tunnels, configDialog, entries, ingress, tunnelsAstray>>

-----------------------------------------------------------------------------
SettleReq(i, fs) ==
  /\ tunnelFlights' = RemoveAt(tunnelFlights, i) \o fs
  /\ spinning' = (spinning \ Holds(tunnelFlights[i])) \cup UNION {Holds(f) : f \in Range(fs)}

MarkAs(what, own) == tunnelsAstray' = IF own THEN tunnelsAstray \ {what} ELSE tunnelsAstray \cup {what}

\* loadAccounts, answered: without a selection the first account is selected and its tunnels are loaded.
AccountsAnswer(i, ok) ==
  /\ tunnelFlights[i].kind = "accounts"
  /\ IF ok /\ tunnelAccount = NoTunnel
       THEN \E a \in TunnelAccounts :
              /\ tunnelAccount' = a
              /\ SettleReq(i, <<[Load("first", NoTunnel) EXCEPT !.account = a]>>)
       ELSE UNCHANGED tunnelAccount /\ SettleReq(i, <<>>)
  /\ UNCHANGED <<tunnels, configDialog, entries, ingress, tunnelsAstray>>

TunnelsAnswer(i, ok) ==
  LET f == tunnelFlights[i]
  IN  /\ f.kind \in {"first", "tunnels"}
      /\ tunnels' = IF ok THEN {f.account} ELSE {}
      /\ MarkAs("tunnels", f.account = tunnelAccount)
      /\ SettleReq(i, <<>>)
      /\ UNCHANGED <<tunnelAccount, configDialog, entries, ingress>>

\* openConfig, answered: with another account's credentials, as after any failure, only the catch-all is left.
ConfigAnswer(i, ok) ==
  LET f == tunnelFlights[i]
  IN  /\ f.kind = "config"
      /\ entries' = IF ok /\ TunnelOwner[f.to] = f.account THEN [of |-> f.to, hosts |-> ingress[f.to]] ELSE NoEntries
      /\ MarkAs("config", f.to = configDialog.tunnel)
      /\ SettleReq(i, <<>>)
      /\ UNCHANGED <<tunnelAccount, tunnels, configDialog, ingress>>

\* A saved configuration, answered: the dialog closes, whatever tunnel it shows by then.
SaveAnswer(i, ok) ==
  LET f == tunnelFlights[i]
      done == ok /\ TunnelOwner[f.to] = f.account
  IN  /\ f.kind = "save"
      /\ ingress' = IF done THEN [ingress EXCEPT ![f.to] = f.hosts] ELSE ingress
      /\ configDialog' = IF done THEN [configDialog EXCEPT !.open = FALSE] ELSE configDialog
      /\ SettleReq(i, <<>>)
      /\ UNCHANGED <<tunnelAccount, tunnels, entries, tunnelsAstray>>

\* A created or deleted tunnel and the wizard, answered: the tunnels of the account selected by now are loaded.
TunnelAnswer(i, ok) ==
  LET f == tunnelFlights[i]
  IN  /\ f.kind \in {"create", "delete", "wizard"}
      /\ ingress' = IF ok /\ f.kind = "wizard" /\ TunnelOwner[f.to] = f.account
                      THEN [ingress EXCEPT ![f.to] = @ \cup f.hosts] ELSE ingress
      /\ SettleReq(i, IF ok THEN <<Load("tunnels", NoTunnel)>> ELSE <<>>)
      /\ UNCHANGED <<tunnelAccount, tunnels, configDialog, entries, tunnelsAstray>>

TunnelsViewAnswer(i) ==
  \E ok \in BOOLEAN :
    \/ AccountsAnswer(i, ok) \/ TunnelsAnswer(i, ok) \/ ConfigAnswer(i, ok)
    \/ SaveAnswer(i, ok) \/ TunnelAnswer(i, ok)

-----------------------------------------------------------------------------
TunnelsNext ==
  \/ RefreshAccounts \/ ChangeTunnel \/ CloseConfig \/ SaveConfig \/ SubmitWizard
  \/ \E a \in TunnelAccounts : SelectTunnelAccount(a)
  \/ \E t \in Tunnels : OpenConfig(t)
  \/ \E i \in 1..Len(tunnelFlights) : TunnelsViewAnswer(i)
=============================================================================
