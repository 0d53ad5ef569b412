----------------------------- MODULE AccountsView -----------------------------
(***************************************************************************)
(* The accounts page of the web console and the store behind it: one query *)
(* (filter, page, search) at a time, the table that answers it, the rows   *)
(* checked for a batch, and the dialogs, which cover the page.  A request  *)
(* is followed, where the handler says so, by another load of the table,   *)
(* and only the answer to that ends the handler.                           *)
(***************************************************************************)
EXTENDS Sequences, SequencesExt

CONSTANTS
  Queries,           \* filter, page, page size and search, together
  Members,           \* the accounts in the table
  NoMember,
  MaxAccountFlights  \* bound on the requests in flight

ASSUME AccountsViewAssumption ==
  /\ Queries # {} /\ NoMember \notin Members
  /\ MaxAccountFlights \in Nat

VARIABLES
  query,         \* what the store asks for
  answered,      \* the queries whose answer is in the table
  waits,         \* the flags that are up: loading, submitting, credLoading, ...
  checked,       \* rows are checked (checkedRowKeys)
  opened,        \* the dialogs that are open
  form,          \* of the sheet opened last: the account it is about, and the row its contents were read from
  accountFlights,
  accountsAstray \* history: the table, the credentials, filled by the answer to an older request

accountsVars == <<query, answered, waits, checked, opened, form, accountFlights, accountsAstray>>

\* The dialogs about one account, only one of which is open at a time, those that show results, and the others.
Sheets == {"account", "features", "proxy", "cred"}
Results == {"batchResult", "testResult"}
Dialogs == Sheets \cup Results \cup {"batch", "import", "export"}

Blank == [id |-> NoMember, from |-> NoMember]

\* The flag a request raises; deleting, testing or clearing one row raises none.
WaitOf(kind) ==
  CASE kind = "list" -> {"loading"}
    [] kind \in {"account", "features", "proxy"} -> {"submitting"}
    [] kind \in {"cred", "batch", "testBatch", "import", "export"} -> {kind}
    [] OTHER -> {}

(***************************************************************************)
(* A request: what it is for, the account it names, the row that the       *)
(* values it sends were read from, and, of a load of the table, the query  *)
(* and the handler that goes on when it is answered.                       *)
(***************************************************************************)
Ask(kind, of) == [kind |-> kind, query |-> NoMember, id |-> of.id, from |-> of.from, after |-> "none"]

Fetch(q, after) == [Ask("list", Blank) EXCEPT !.query = q, !.after = after]

Fly(f) ==
  /\ Len(accountFlights) < MaxAccountFlights
  /\ accountFlights' = Append(accountFlights, f)
  /\ waits' = waits \cup WaitOf(f.kind)

\* The page under a dialog takes no click; a result is shown above the other dialogs.
PageFree == opened = {}
InDialog(d) == d \in opened /\ (d \in Results \/ opened \cap Results = {})

AccountsInit ==
  /\ query \in Queries /\ answered = {} /\ checked = FALSE /\ opened = {}
  /\ form = Blank
  /\ accountFlights = <<Fetch(query, "none")>> /\ waits = {"loading"}
  /\ accountsAstray = {}

-----------------------------------------------------------------------------
\* setFilter, setPage, setPageSize, setSearch: the timer of the search may fire under a dialog.
SetQuery(q) ==
  /\ query' = q
  /\ Fly(Fetch(q, "none"))
  /\ accountsAstray' = accountsAstray \ {"table"}
  /\ UNCHANGED <<answered, checked, opened, form>>

\* The selection outlives the rows on the page: a query does not clear it.
CheckRows ==
  /\ PageFree /\ "loading" \notin waits /\ answered # {}
  /\ checked' \in BOOLEAN
  /\ UNCHANGED <<query, answered, waits, opened, form, accountFlights, accountsAstray>>

OpenSheet(d, id) ==
  /\ PageFree
  /\ opened' = {d}
  /\ form' = [id |-> id, from |-> id]

\* Variant for the mutants of the runs: the "add" button leaves editingId as it was.
openBlankOverId ==
  /\ PageFree
  /\ opened' = {"account"}
  /\ form' = [form EXCEPT !.from = NoMember]
  /\ UNCHANGED <<query, answered, waits, checked, accountFlights, accountsAstray>>

\* The "add" button: no id, a blank form.
OpenAdd ==
  /\ OpenSheet("account", NoMember)
  /\ UNCHANGED <<query, answered, waits, checked, accountFlights, accountsAstray>>

\* openAccountEditor, openFeatureEditor, openProxyEditor of a row
OpenEditor(d, m) ==
  /\ "loading" \notin waits /\ answered # {}
  /\ OpenSheet(d, m)
  /\ UNCHANGED <<query, answered, waits, checked, accountFlights, accountsAstray>>

\* handleViewCredentials: the dialog opens empty, and the credentials are asked for.
ViewCredentials(m) ==
  /\ PageFree /\ "loading" \notin waits /\ answered # {}
  /\ opened' = {"cred"}
  /\ form' = [id |-> m, from |-> NoMember]
  /\ Fly(Ask("cred", [id |-> m, from |-> m]))
  /\ accountsAstray' = accountsAstray \ {"cred"}
  /\ UNCHANGED <<query, answered, checked>>

\* openBatchFeatures, openBatchProxy and the question before a batch is deleted, while rows are checked;
\* the dialogs of import and export.
OpenDialog(d) ==
  /\ PageFree
  /\ d = "batch" => checked
  /\ opened' = {d}
  /\ UNCHANGED <<query, answered, waits, checked, form, accountFlights, accountsAstray>>

CloseDialog(d) ==
  /\ InDialog(d)
  /\ opened' = opened \ {d}
  /\ UNCHANGED <<query, answered, waits, checked, form, accountFlights, accountsAstray>>

\* handleSubmit, handleSaveFeatures, handleSaveProxy: their buttons share one flag, and take no click while it is up.
SaveSheet(d) ==
  /\ InDialog(d) /\ "submitting" \notin waits
  /\ Fly(Ask(d, form))
  /\ UNCHANGED <<query, answered, checked, opened, form, accountsAstray>>

\* handleBatchFeatures, handleBatchProxy, handleBatchDelete; handleImport, handleExport
RunDialog(d) ==
  /\ InDialog(d) /\ d \notin waits
  /\ Fly(Ask(d, Blank))
  /\ UNCHANGED <<query, answered, checked, opened, form, accountsAstray>>

\* handleTestBatch
TestBatch ==
  /\ PageFree /\ "testBatch" \notin waits
  /\ Fly(Ask("testBatch", Blank))
  /\ UNCHANGED <<query, answered, checked, opened, form, accountsAstray>>

\* handleTest, handleDelete and handleClearExhausted of a row
RowCommand(kind) ==
  /\ PageFree /\ "loading" \notin waits /\ answered # {}
  /\ Fly(Ask(kind, Blank))
  /\ UNCHANGED <<query, answered, checked, opened, form, accountsAstray>>

-----------------------------------------------------------------------------
(* Answers. *)

\* Request i is answered: its flag is down unless the handler goes on with another request.
Land(i, fs, down) ==
  /\ accountFlights' = RemoveAt(accountFlights, i) \o fs
  /\ waits' = (waits \ down) \cup UNION {WaitOf(f.kind) : f \in Range(fs)}

\* What the handler does once the table it loaded is there.
Ended(after) ==
  CASE after \in {"account", "features"} -> {"submitting"}
    [] after \in {"batch", "testBatch", "import"} -> {after}
    [] OTHER -> {}

\* fetchAccounts, answered: the table is that of the query it asked for, or empty.  A saved account blanks
\* the account form; a sheet of another kind keeps its own.
TableLoaded(i, ok) ==
  LET f == accountFlights[i]
  IN  /\ f.kind = "list"
      /\ answered' = IF ok THEN {f.query} ELSE {}
      /\ accountsAstray' = IF f.query = query THEN accountsAstray \ {"table"} ELSE accountsAstray \cup {"table"}
      /\ Land(i, <<>>, {"loading"} \cup Ended(f.after))
      /\ opened' = CASE f.after \in {"account", "features"} -> opened \ {f.after}
                     [] f.after = "testBatch" -> opened \cup {"testResult"}
                     [] OTHER -> opened
      /\ form' = IF f.after = "account" /\ opened \cap (Sheets \ {"account"}) = {} THEN Blank ELSE form
      /\ UNCHANGED <<query, checked>>

\* What the server's validation lets through: an update must name the account and its auth_type, and
\* the proxy dialog sends neither.
Accepted(kind) == kind # "proxy"

\* create, update, updateFeatures, testBatch and import, answered: the table is loaded before the handler goes on.
SheetAnswer(i, ok) ==
  LET f == accountFlights[i]
  IN  /\ f.kind \in {"account", "features", "proxy", "testBatch", "import"}
      /\ ok => Accepted(f.kind)
      /\ IF ok THEN Land(i, <<Fetch(query, f.kind)>>, {}) ELSE Land(i, <<>>, WaitOf(f.kind))
      /\ UNCHANGED <<query, answered, checked, opened, form, accountsAstray>>

\* A batch, answered: its result is shown, nothing stays checked, and the table is loaded.
BatchAnswer(i, ok) ==
  /\ accountFlights[i].kind = "batch"
  /\ IF ok
       THEN /\ opened' = (opened \ {"batch"}) \cup {"batchResult"}
            /\ checked' = FALSE
            /\ Land(i, <<Fetch(query, "batch")>>, {})
       ELSE Land(i, <<>>, {"batch"}) /\ UNCHANGED <<opened, checked>>
  /\ UNCHANGED <<query, answered, form, accountsAstray>>

\* getCredentials, answered: shown whatever row was asked for since; a failure closes the dialog.
CredAnswer(i, ok) ==
  LET f == accountFlights[i]
  IN  /\ f.kind = "cred"
      /\ form' = IF ok /\ "cred" \in opened THEN [form EXCEPT !.from = f.id] ELSE form
      /\ opened' = IF ok THEN opened ELSE opened \ {"cred"}
      /\ accountsAstray' = IF ok /\ f.id # form.id THEN accountsAstray \cup {"cred"} ELSE accountsAstray
      /\ Land(i, <<>>, {"cred"})
      /\ UNCHANGED <<query, answered, checked>>

\* exportCsv, and the commands of a row, answered; a test changes a row and does not load the table.
OtherAnswer(i, ok) ==
  LET f == accountFlights[i]
  IN  /\ f.kind \in {"export", "delete", "test"}
      /\ opened' = IF ok /\ f.kind = "export" THEN opened \ {"export"} ELSE opened
      /\ Land(i, IF ok /\ f.kind = "delete" THEN <<Fetch(query, "none")>> ELSE <<>>, WaitOf(f.kind))
      /\ UNCHANGED <<query, answered, checked, form, accountsAstray>>

AccountsViewAnswer(i) ==
  \E ok \in BOOLEAN :
    TableLoaded(i, ok) \/ SheetAnswer(i, ok) \/ BatchAnswer(i, ok) \/ CredAnswer(i, ok) \/ OtherAnswer(i, ok)

-----------------------------------------------------------------------------
AccountsNext ==
  \/ \E q \in Queries : SetQuery(q)
  \/ OpenAdd \/ TestBatch \/ CheckRows
  \/ \E m \in Members : ViewCredentials(m) \/ \E d \in {"account", "features", "proxy"} : OpenEditor(d, m)
  \/ \E kind \in {"delete", "test"} : RowCommand(kind)
  \/ \E d \in {"batch", "import", "export"} : OpenDialog(d) \/ RunDialog(d)
  \/ \E d \in {"account", "features", "proxy"} : SaveSheet(d)
  \/ \E d \in Dialogs : CloseDialog(d)
  \/ \E i \in 1..Len(accountFlights) : AccountsViewAnswer(i)
=============================================================================
