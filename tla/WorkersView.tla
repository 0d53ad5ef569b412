------------------------------ MODULE WorkersView ------------------------------
(***************************************************************************)
(* The workers page of the web console: the cards of the accounts, the     *)
(* table of the selected one, the log drawer, and the settings drawer of a *)
(* row, which stays mounted when it is closed and is filled anew, pane by  *)
(* pane, when it is opened.  Handlers read the open row when they send,    *)
(* not when they began.  One drawer is for Workers and one for Pages; the  *)
(* rows of the model are of one kind.                                      *)
(***************************************************************************)
EXTENDS Sequences, SequencesExt

CONSTANTS
  Cards,            \* the accounts
  Scripts,          \* the Workers or Pages projects
  CardOf,           \* the account of each
  NoScript,
  PaneSets,         \* choices of panes to follow: a drawer fills its panes side by side
  MaxDrawerFlights  \* bound on the requests in flight

WorkerPanes == {"secrets", "schedules", "domains", "subdomain", "settings", "content", "deployments"}
PagesPanes == {"project", "pagesDomains", "bindings", "pagesDeployments"}

ASSUME WorkersViewAssumption ==
  /\ NoScript \notin Scripts \cup Cards
  /\ CardOf \in [Scripts -> Cards]
  /\ \A ps \in PaneSets : ps \subseteq WorkerPanes \/ ps \subseteq PagesPanes
  /\ MaxDrawerFlights \in Nat

VARIABLES
  card,           \* selectedAccountId
  rowsOf,         \* the account whose Workers are in the table
  panes,          \* the panes followed
  drawer,         \* settingsWorker: kept when the drawer is closed
  drawerOpen,
  logOf,          \* the row whose log was asked for, while the log drawer is open
  shown,          \* by pane: the script whose contents it shows; zones and logs likewise
  spin,           \* the panes that load, and the table
  modal,          \* the dialog above the drawer, by the pane it changes
  formOf,         \* the row a variable's form was opened on
  saving,         \* the flags of the handlers that change a pane
  drawerFlights,
  drawerAstray    \* history: filled by the answer to an older request, or, of the form, from such a pane

workersVars == <<card, rowsOf, panes, drawer, drawerOpen, logOf, shown, spin, modal, formOf, saving,
                 drawerFlights, drawerAstray>>

Filled == WorkerPanes \cup PagesPanes \cup {"zones", "logs"}
OfPages == panes \subseteq PagesPanes

(***************************************************************************)
(* A request: a load ("load"; "reload" where a handler waits for it), a    *)
(* change ("write"), or the reading of the configuration that a change is  *)
(* made from ("read"); the pane it is for, the script it names, the script *)
(* its contents were read from, and whether they were old when it was sent. *)
(***************************************************************************)
Asked(kind, p, to, from) ==
  [kind |-> kind, pane |-> p, to |-> to, from |-> from,
   astray |-> p \in spin \cup drawerAstray \/ (p = modal /\ "form" \in drawerAstray)]

PaneLoad(kind, p, to) == [Asked(kind, p, to, NoScript) EXCEPT !.astray = FALSE]

PaneLoads(ps, to) == SetToSeq({PaneLoad("load", p, to) : p \in ps})

Depart(fs) ==
  /\ Len(drawerFlights) + Len(fs) <= MaxDrawerFlights
  /\ drawerFlights' = drawerFlights \o fs

\* What the page shows takes a click under neither drawer, and a drawer under no dialog.
TableFree == ~drawerOpen /\ logOf = NoScript /\ "table" \notin spin
DrawerFree == drawerOpen /\ modal = "none"

\* A row or a form in a pane, which its spinner covers while it loads.
Within(p) == p \in panes /\ DrawerFree /\ p \notin spin /\ shown[p] # NoScript

\* onMounted: the summary of the accounts, and with it the first card, is there.
WorkersInit ==
  /\ panes \in PaneSets
  /\ card \in Cards /\ rowsOf = NoScript
  /\ drawer = NoScript /\ drawerOpen = FALSE /\ logOf = NoScript
  /\ shown = [p \in Filled |-> NoScript] /\ spin = {"table"}
  /\ modal = "none" /\ formOf = NoScript /\ saving = {}
  /\ drawerFlights = <<[kind |-> "load", pane |-> "table", to |-> card, from |-> NoScript, astray |-> FALSE]>>
  /\ drawerAstray = {}

-----------------------------------------------------------------------------
(* The page. *)

\* selectAccount; a deployment or a deletion loads the same card again.
SelectCard(c) ==
  /\ ~drawerOpen /\ logOf = NoScript
  /\ card' = c
  /\ spin' = spin \cup {"table"} /\ drawerAstray' = drawerAstray \ {"table"}
  /\ Depart(PaneLoads({"table"}, c))
  /\ UNCHANGED <<rowsOf, panes, drawer, drawerOpen, logOf, shown, modal, formOf, saving>>

\* handleDelete of a row
DeleteScript(w) ==
  /\ TableFree /\ CardOf[w] = rowsOf
  /\ Depart(<<Asked("write", "table", w, w)>>)
  /\ UNCHANGED <<card, rowsOf, panes, drawer, drawerOpen, logOf, shown, spin, modal, formOf, saving, drawerAstray>>

\* handleViewLogs
ViewLogs(w) ==
  /\ TableFree /\ CardOf[w] = rowsOf /\ ~OfPages
  /\ logOf' = w
  /\ shown' = [shown EXCEPT !["logs"] = NoScript]
  /\ drawerAstray' = drawerAstray \ {"logs"}
  /\ Depart(PaneLoads({"logs"}, w))
  /\ UNCHANGED <<card, rowsOf, panes, drawer, drawerOpen, spin, modal, formOf, saving>>

CloseLogs ==
  /\ logOf # NoScript /\ logOf' = NoScript
  /\ UNCHANGED <<card, rowsOf, panes, drawer, drawerOpen, shown, spin, modal, formOf, saving, drawerFlights, drawerAstray>>

\* Variant for the mutants of the runs: the zones are not dropped.
fillKeepingZones(w) ==
  /\ spin' = spin \cup panes /\ drawerAstray' = drawerAstray \ panes
  /\ shown' = shown
  /\ Depart(PaneLoads(panes, w))

\* What the watcher of a drawer does when it is shown: every pane is loaded, and none but the zones is cleared.
Fill(w) ==
  /\ spin' = spin \cup panes /\ drawerAstray' = drawerAstray \ (panes \cup {"zones"})
  /\ shown' = IF OfPages THEN shown ELSE [shown EXCEPT !["zones"] = NoScript]
  /\ Depart(PaneLoads(panes, w))

\* openSettings
OpenSettings(w) ==
  /\ TableFree /\ CardOf[w] = rowsOf
  /\ drawer' = w /\ drawerOpen' = TRUE
  /\ Fill(w)
  /\ UNCHANGED <<card, rowsOf, panes, logOf, modal, formOf, saving>>

CloseSettings ==
  /\ DrawerFree /\ drawerOpen' = FALSE
  /\ UNCHANGED <<card, rowsOf, panes, drawer, logOf, shown, spin, modal, formOf, saving, drawerFlights, drawerAstray>>

-----------------------------------------------------------------------------
(* In the drawer. *)

\* The refresh buttons of the source code and of the deployments stand outside their spinners.
RefreshPane(p) ==
  /\ DrawerFree /\ p \in panes \cap {"content", "deployments", "pagesDeployments"}
  /\ p = "pagesDeployments" => p \notin spin
  /\ spin' = spin \cup {p} /\ drawerAstray' = drawerAstray \ {p}
  /\ Depart(PaneLoads({p}, drawer))
  /\ UNCHANGED <<card, rowsOf, panes, drawer, drawerOpen, logOf, shown, modal, formOf, saving>>

\* The panes that can be changed through a dialog.
Forms == {"secrets", "domains", "pagesDomains", "project", "bindings", "pagesDeployments"}

\* A form about a row is as old as the pane it is in.
FromPane(p) ==
  drawerAstray' = IF p \in spin \cup drawerAstray THEN drawerAstray \cup {"form"} ELSE drawerAstray \ {"form"}

\* openVarModal, openDomainModal, openRouteModal, openPagesDomainModal, openBindingModal: a blank form,
\* or, before deployments are deleted, the ids that are checked; the zones it offers are asked for, by a Worker's drawer only if none are there.
OpenForm(p) ==
  /\ DrawerFree /\ p \in panes \cap Forms
  /\ p = "pagesDeployments" => p \notin saving /\ shown[p] # NoScript
  /\ modal' = p /\ formOf' = IF p = "pagesDeployments" THEN shown[p] ELSE NoScript
  /\ IF p = "pagesDomains" \/ (p = "domains" /\ shown["zones"] = NoScript)
       THEN Depart(PaneLoads({"zones"}, drawer)) /\ drawerAstray' = drawerAstray \ {"zones", "form"}
       ELSE UNCHANGED drawerFlights /\ FromPane(p)
  /\ UNCHANGED <<card, rowsOf, panes, drawer, drawerOpen, logOf, shown, spin, saving>>

\* openVarModal and handleEditPagesEnv of a row
EditVar(p) ==
  /\ p \in {"secrets", "project"} /\ Within(p)
  /\ modal' = p /\ formOf' = shown[p]
  /\ FromPane(p)
  /\ UNCHANGED <<card, rowsOf, panes, drawer, drawerOpen, logOf, shown, spin, saving, drawerFlights>>

CloseForm ==
  /\ modal # "none" /\ modal' = "none"
  /\ UNCHANGED <<card, rowsOf, panes, drawer, drawerOpen, logOf, shown, spin, formOf, saving, drawerFlights, drawerAstray>>

\* Sends a change of pane p and raises its flag, if it has one.
Change(kind, p, from, flagged) ==
  /\ Depart(<<Asked(kind, p, drawer, from)>>)
  /\ saving' = IF flagged THEN saving \cup {p} ELSE saving
  /\ UNCHANGED <<card, rowsOf, panes, drawer, drawerOpen, logOf, shown, spin, modal, formOf, drawerAstray>>

\* handleSaveVar: of a secret, one request; of a plain variable, the configuration is read first.
SaveVar ==
  /\ modal = "secrets" /\ modal \notin saving
  /\ Change("write", modal, formOf, TRUE) \/ Change("read", modal, formOf, TRUE)

\* handleDeleteVar takes no notice of the flag it raises; handleDeletePagesEnv sends one null and raises none.
DeleteVar ==
  \/ Within("secrets") /\ (Change("write", "secrets", shown["secrets"], TRUE) \/ Change("read", "secrets", shown["secrets"], TRUE))
  \/ Within("project") /\ Change("write", "project", shown["project"], FALSE)

\* handleAddPagesEnv: the whole configuration of the project that was read, with one variable more.
SavePagesEnv ==
  /\ modal = "project" /\ modal \notin saving
  /\ Change("write", modal, shown[modal], TRUE)

\* handleAddDomain, handleAddPagesDomain; handleAddBinding reads the project first.
SubmitForm ==
  /\ modal \in {"domains", "pagesDomains", "bindings"} /\ modal \notin saving
  /\ Change(IF modal = "bindings" THEN "read" ELSE "write", modal, NoScript, TRUE)

\* handleBatchDeleteDeployments: the ids that are checked, which every load drops when it ends
DeleteDeployments ==
  /\ modal = "pagesDeployments" /\ modal \notin saving /\ formOf # NoScript
  /\ Change("write", modal, formOf, TRUE)

\* saveSchedules: the list as it was read and edited; a list that could not be read is empty.
SaveSchedules ==
  /\ DrawerFree /\ "schedules" \in panes \ (spin \cup saving)
  /\ Change("write", "schedules", shown["schedules"], TRUE)

\* toggleSubdomain, updateScriptSetting, handleDeleteDomain, handleRemovePagesDomain, handleDeleteBinding
ChangePane(p) ==
  /\ p \in {"subdomain", "settings", "domains", "pagesDomains", "bindings"} /\ Within(p)
  /\ p = "subdomain" => p \notin saving
  /\ Change(IF p = "bindings" THEN "read" ELSE "write", p, shown[p], p = "subdomain")

-----------------------------------------------------------------------------
(* Answers. *)

LoadAnswer(i, ok) ==
  LET f == drawerFlights[i]
      own == CASE f.pane = "table" -> card [] f.pane = "logs" -> logOf [] OTHER -> drawer
  IN  /\ f.kind \in {"load", "reload"}
      /\ drawerFlights' = RemoveAt(drawerFlights, i)
      /\ spin' = spin \ {f.pane}
      /\ rowsOf' = IF f.pane # "table" THEN rowsOf ELSE IF ok THEN f.to ELSE NoScript
      /\ shown' = IF f.pane = "table" THEN shown ELSE [shown EXCEPT ![f.pane] = IF ok THEN f.to ELSE NoScript]
      /\ drawerAstray' = IF ok /\ f.to # own THEN drawerAstray \cup {f.pane} ELSE drawerAstray \ {f.pane}
      /\ saving' = IF f.kind = "reload" THEN saving \ {f.pane} ELSE saving
      /\ formOf' = IF f.pane = "pagesDeployments" THEN NoScript ELSE formOf
      /\ UNCHANGED <<card, panes, drawer, drawerOpen, logOf, modal>>

\* getWorkerConfig and getPagesProject, answered: what was read of one script is sent to the script that
\* is open by now.
ReadAnswer(i, ok) ==
  LET f == drawerFlights[i]
  IN  /\ f.kind = "read"
      /\ drawerFlights' = RemoveAt(drawerFlights, i)
           \o (IF ok THEN <<[f EXCEPT !.kind = "write", !.to = drawer, !.from = f.to,
                                       !.astray = f.astray \/ f.to # drawer]>> ELSE <<>>)
      /\ saving' = IF ok THEN saving ELSE saving \ {f.pane}
      /\ UNCHANGED <<card, rowsOf, panes, drawer, drawerOpen, logOf, shown, spin, modal, formOf, drawerAstray>>

\* handleBatchDeleteDeployments keeps its flag until the table is loaded, and its dialog closes in any case.
Waits(p) == p = "pagesDeployments"

\* A change, answered: its dialog is closed, whichever was opened since, and its pane is loaded for the
\* script that is open; after a deletion the table is.
ScriptAnswer(i, ok) ==
  LET f == drawerFlights[i]
  IN  /\ f.kind = "write"
      /\ saving' = IF ok /\ Waits(f.pane) THEN saving ELSE saving \ {f.pane}
      /\ modal' = IF modal = f.pane /\ (ok \/ Waits(f.pane)) THEN "none" ELSE modal
      /\ drawerFlights' = RemoveAt(drawerFlights, i)
           \o (IF ok THEN <<PaneLoad(IF Waits(f.pane) THEN "reload" ELSE "load", f.pane,
                                 IF f.pane = "table" THEN card ELSE drawer)>> ELSE <<>>)
      /\ spin' = IF ok THEN spin \cup {f.pane} ELSE spin
      /\ drawerAstray' = IF ok THEN drawerAstray \ {f.pane} ELSE drawerAstray
      /\ UNCHANGED <<card, rowsOf, panes, drawer, drawerOpen, logOf, shown, formOf>>

WorkersAnswer(i) == \E ok \in BOOLEAN : LoadAnswer(i, ok) \/ ReadAnswer(i, ok) \/ ScriptAnswer(i, ok)

-----------------------------------------------------------------------------
WorkersNext ==
  \/ \E c \in Cards : SelectCard(c)
  \/ \E w \in Scripts : DeleteScript(w) \/ ViewLogs(w) \/ OpenSettings(w)
  \/ CloseLogs \/ CloseSettings \/ CloseForm
  \/ \E p \in panes : RefreshPane(p) \/ OpenForm(p) \/ EditVar(p) \/ ChangePane(p)
  \/ SaveVar \/ DeleteVar \/ SavePagesEnv \/ SubmitForm \/ DeleteDeployments \/ SaveSchedules
  \/ \E i \in 1..Len(drawerFlights) : WorkersAnswer(i)
=============================================================================
