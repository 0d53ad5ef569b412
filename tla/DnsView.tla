------------------------------ MODULE DnsView ------------------------------
(***************************************************************************)
(* The DNS page of the web console and the store behind it: the domains,   *)
(* the records and the zone settings of the current domain, and the        *)
(* requests that load and change them.  The store outlives the page; the   *)
(* settings form belongs to the page.  An answer is taken whatever the     *)
(* current domain is by then.                                              *)
(***************************************************************************)
EXTENDS Sequences, SequencesExt

CONSTANTS
  Domains,
  NoDomain,
  Defaults,       \* the settings form filled with defaults, after a failed read
  MaxDnsFlights   \* bound on the requests in flight

ASSUME DnsAssumption ==
  /\ NoDomain \notin Domains /\ Defaults \notin Domains /\ NoDomain # Defaults
  /\ MaxDnsFlights \in Nat

VARIABLES
  listed,           \* dnsStore.domains
  currentDomain,
  records,          \* the domains whose records are on the page
  loading,          \* one flag for the domains and the records
  zoneSettings,     \* the domain whose settings the store holds
  settingsLoading,
  dnsTab,           \* activeTab
  zoneForm,         \* the domain whose settings fill the form
  recordForm,       \* the record dialog: open or not, and the domain its row was read from
  dnsFlights,       \* the requests in flight, in the order they were sent
  dnsAstray         \* history: what the last answer filled with another domain than the current one

storeVars == <<listed, currentDomain, records, loading, zoneSettings, settingsLoading>>
pageVars == <<dnsTab, zoneForm, recordForm>>
dnsVars == <<storeVars, pageVars, dnsFlights, dnsAstray>>

(***************************************************************************)
(* A request: what it is for, the domain it names, where the row or form   *)
(* it sends was read, and, history, the tab it was sent from and whether   *)
(* that was filled astray or still being read.                             *)
(***************************************************************************)
Doubt(what) == what \in dnsAstray \/ \E f \in Range(dnsFlights) : f.kind = what

Write(kind, from, astray) ==
  [kind |-> kind, domain |-> currentDomain, from |-> from, astray |-> astray,
   tab |-> IF kind = "save" THEN dnsTab ELSE "records"]

Call(kind) == Write(kind, NoDomain, FALSE)

SendDns(f) ==
  /\ Len(dnsFlights) < MaxDnsFlights
  /\ dnsFlights' = Append(dnsFlights, f)

Modal == recordForm.open

-----------------------------------------------------------------------------
\* What a page starts with; the store keeps what it had.
FreshPage ==
  [tab |-> "records", form |-> NoDomain, record |-> [open |-> FALSE, from |-> NoDomain, astray |-> FALSE]]

DnsInit ==
  /\ listed = {} /\ currentDomain = NoDomain /\ records = {} /\ loading = TRUE
  /\ zoneSettings = NoDomain /\ settingsLoading = FALSE
  /\ dnsTab = FreshPage.tab /\ zoneForm = FreshPage.form /\ recordForm = FreshPage.record
  /\ dnsAstray = {}
  /\ dnsFlights = <<[kind |-> "domains", domain |-> NoDomain, from |-> NoDomain, tab |-> "records", astray |-> FALSE]>>

\* The page is left: an answer in flight still reaches the store, but not the form of the page that is gone.
Orphaned(f) == IF f.kind = "settings" THEN [f EXCEPT !.kind = "orphan"] ELSE f

\* onMounted: the page is opened again.
MountDns ==
  /\ Len(dnsFlights) < MaxDnsFlights
  /\ dnsTab' = FreshPage.tab /\ zoneForm' = FreshPage.form /\ recordForm' = FreshPage.record
  /\ loading' = TRUE
  /\ dnsAstray' = dnsAstray \ {"settings"}
  /\ dnsFlights' = Append([i \in DOMAIN dnsFlights |-> Orphaned(dnsFlights[i])],
                          Call("domains"))
  /\ UNCHANGED <<listed, currentDomain, records, zoneSettings, settingsLoading>>

fetchDomains ==
  /\ loading' = TRUE
  /\ SendDns(Call("domains"))

\* The refresh button, which takes no click while it spins.
RefreshDomains ==
  /\ ~Modal /\ ~loading
  /\ fetchDomains
  /\ UNCHANGED <<listed, currentDomain, records, zoneSettings, settingsLoading, pageVars, dnsAstray>>

\* fetchRecords: the records of the previous domain stay under the spinner.
fetchRecords(d) == [Call("records") EXCEPT !.domain = d]

SelectDomain(d) ==
  /\ ~Modal /\ ~loading
  /\ d \in listed
  /\ currentDomain' = d
  /\ loading' = TRUE
  /\ dnsTab' = "records"
  /\ SendDns(fetchRecords(d))
  /\ UNCHANGED <<listed, records, zoneSettings, settingsLoading, zoneForm, recordForm, dnsAstray>>

\* onTabChange: the settings are read when their tab is opened, not for the tab of cache and status.
ChangeTab(t) ==
  /\ ~Modal /\ currentDomain # NoDomain
  /\ t \in {"records", "settings", "cache"} \ {dnsTab}
  /\ dnsTab' = t
  /\ IF t = "settings"
       THEN settingsLoading' = TRUE /\ SendDns(Call("settings"))
       ELSE UNCHANGED <<settingsLoading, dnsFlights>>
  /\ UNCHANGED <<listed, currentDomain, records, loading, zoneSettings, zoneForm, recordForm, dnsAstray>>

-----------------------------------------------------------------------------
\* openAddRecordModal; handleEditRecord of a row, which the spinner covers while the table loads
OpenRecord ==
  /\ ~Modal /\ currentDomain # NoDomain /\ dnsTab = "records"
  /\ \E from \in {NoDomain} \cup (IF loading THEN {} ELSE records) :
       recordForm' = [open |-> TRUE, from |-> from, astray |-> Doubt("records")]
  /\ UNCHANGED <<storeVars, dnsTab, zoneForm, dnsFlights, dnsAstray>>

CloseRecord ==
  /\ Modal
  /\ recordForm' = [recordForm EXCEPT !.open = FALSE]
  /\ UNCHANGED <<storeVars, dnsTab, zoneForm, dnsFlights, dnsAstray>>

\* handleSubmitRecord: the record goes to the current domain.
SubmitRecord ==
  /\ Modal
  /\ SendDns(Write("submit", recordForm.from, recordForm.astray))
  /\ UNCHANGED <<storeVars, pageVars, dnsAstray>>

\* handleDeleteRecord and handleProxyToggle of a row
ChangeRow(kind) ==
  /\ ~Modal /\ dnsTab = "records" /\ ~loading
  /\ kind \in {"delete", "proxy"}
  /\ \E from \in records : SendDns(Write(kind, from, Doubt("records")))
  /\ UNCHANGED <<storeVars, pageVars, dnsAstray>>

\* handleSaveSettings: one button under the spinner of the settings, one on the tab of cache and status.
SaveSettings ==
  /\ ~Modal /\ currentDomain # NoDomain
  /\ dnsTab = "cache" \/ (dnsTab = "settings" /\ ~settingsLoading)
  /\ SendDns(Write("save", zoneForm, Doubt("settings")))
  /\ UNCHANGED <<storeVars, pageVars, dnsAstray>>

\* handlePurgeAll, handlePurgeUrls and handleToggleZoneStatus: the status shown follows the answer.
ZoneCommand ==
  /\ ~Modal /\ currentDomain # NoDomain /\ dnsTab = "cache"
  /\ SendDns(Call("command"))
  /\ UNCHANGED <<storeVars, pageVars, dnsAstray>>

\* handleCreateDomains and handleBatchDelete: the domains are fetched again when the answer comes.
ChangeDomains ==
  /\ ~Modal
  /\ SendDns(Call("domains-change"))
  /\ UNCHANGED <<storeVars, pageVars, dnsAstray>>

-----------------------------------------------------------------------------
SettleDns(i, fs) == dnsFlights' = RemoveAt(dnsFlights, i) \o fs

Mark(what, own) == dnsAstray' = IF own THEN dnsAstray \ {what} ELSE dnsAstray \cup {what}

DomainsAnswer(i, ok) ==
  /\ dnsFlights[i].kind = "domains"
  /\ listed' = IF ok THEN Domains ELSE {}
  /\ loading' = FALSE
  /\ SettleDns(i, <<>>)
  /\ UNCHANGED <<currentDomain, records, zoneSettings, settingsLoading, pageVars, dnsAstray>>

RecordsAnswer(i, ok) ==
  LET d == dnsFlights[i].domain
  IN  /\ dnsFlights[i].kind = "records"
      /\ records' = IF ok THEN {d} ELSE {}
      /\ loading' = FALSE
      /\ Mark("records", d = currentDomain)
      /\ SettleDns(i, <<>>)
      /\ UNCHANGED <<listed, currentDomain, zoneSettings, settingsLoading, pageVars>>

\* Variants for the mutants of the runs: the defaults of the form also reach the store; a failure
\* leaves the flag up.
SettingsDefaultsKept(i, ok) ==
  /\ dnsFlights[i].kind \in {"settings", "orphan"}
  /\ zoneSettings' = IF ok THEN dnsFlights[i].domain ELSE Defaults
  /\ zoneForm' = IF ok THEN dnsFlights[i].domain ELSE Defaults
  /\ settingsLoading' = FALSE
  /\ SettleDns(i, <<>>)
  /\ UNCHANGED <<listed, currentDomain, records, loading, dnsTab, recordForm, dnsAstray>>

SettingsFlagLeft(i, ok) ==
  /\ dnsFlights[i].kind \in {"settings", "orphan"}
  /\ zoneSettings' = IF ok THEN dnsFlights[i].domain ELSE NoDomain
  /\ zoneForm' = IF ok THEN dnsFlights[i].domain ELSE Defaults
  /\ settingsLoading' = (settingsLoading /\ ~ok)
  /\ SettleDns(i, <<>>)
  /\ UNCHANGED <<listed, currentDomain, records, loading, dnsTab, recordForm, dnsAstray>>

\* fetchZoneSettings and syncZoneForm: after a failed read the form shows defaults.
SettingsAnswer(i, ok) ==
  LET d == dnsFlights[i].domain
      kind == dnsFlights[i].kind
  IN  /\ kind \in {"settings", "orphan"}
      /\ zoneSettings' = IF ok THEN d ELSE NoDomain
      /\ settingsLoading' = FALSE
      /\ IF kind = "settings"
           THEN zoneForm' = (IF ok THEN d ELSE Defaults) /\ Mark("settings", d = currentDomain)
           ELSE UNCHANGED <<zoneForm, dnsAstray>>
      /\ SettleDns(i, <<>>)
      /\ UNCHANGED <<listed, currentDomain, records, loading, dnsTab, recordForm>>

\* A submitted or deleted record, answered: the records of the current domain are fetched.
RecordAnswer(i, ok) ==
  LET kind == dnsFlights[i].kind
  IN  /\ kind \in {"submit", "delete"}
      /\ recordForm' = IF ok /\ kind = "submit" THEN FreshPage.record ELSE recordForm
      /\ SettleDns(i, IF ok THEN <<fetchRecords(currentDomain)>> ELSE <<>>)
      /\ loading' = IF ok THEN TRUE ELSE loading
      /\ UNCHANGED <<listed, currentDomain, records, zoneSettings, settingsLoading, dnsTab, zoneForm, dnsAstray>>

\* createDomains and deleteDomains, answered; the answers to the other commands change nothing that is kept.
CommandAnswer(i, ok) ==
  LET kind == dnsFlights[i].kind
  IN  /\ kind \in {"proxy", "save", "command", "domains-change"}
      /\ IF ok /\ kind = "domains-change"
           THEN loading' = TRUE /\ SettleDns(i, <<Call("domains")>>)
           ELSE UNCHANGED loading /\ SettleDns(i, <<>>)
      /\ UNCHANGED <<listed, currentDomain, records, zoneSettings, settingsLoading, pageVars, dnsAstray>>

DnsAnswer(i) ==
  \E ok \in BOOLEAN :
    \/ DomainsAnswer(i, ok) \/ RecordsAnswer(i, ok) \/ SettingsAnswer(i, ok)
    \/ RecordAnswer(i, ok) \/ CommandAnswer(i, ok)

-----------------------------------------------------------------------------
DnsNext ==
  \/ RefreshDomains \/ OpenRecord \/ CloseRecord \/ SubmitRecord
  \/ SaveSettings \/ ZoneCommand \/ ChangeDomains
  \/ \E d \in Domains : SelectDomain(d)
  \/ \E t \in {"records", "settings", "cache"} : ChangeTab(t)
  \/ \E kind \in {"delete", "proxy"} : ChangeRow(kind)
  \/ \E i \in 1..Len(dnsFlights) : DnsAnswer(i)
=============================================================================
