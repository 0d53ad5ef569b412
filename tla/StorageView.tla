----------------------------- MODULE StorageView -----------------------------
(***************************************************************************)
(* The storage page of the web console: KV namespaces, D1 databases and R2 *)
(* buckets of one selected account, their contents, and the requests that  *)
(* load and change them.  Every request reads the selection when it is     *)
(* sent; its answer is written into the page whatever is selected by then. *)
(* A container ("box") stands for a namespace, a database or a bucket.     *)
(***************************************************************************)
EXTENDS Sequences, SequencesExt

CONSTANTS
  Accounts,
  R2Accounts,   \* the accounts whose probe did not find R2 disabled
  Boxes,
  OwnerOf,      \* the account of each container
  None,
  TabSets,      \* bound on the tabs whose contents are used in one behaviour
  MaxFlights    \* bound on the requests in flight

ASSUME StorageAssumption ==
  /\ R2Accounts \subseteq Accounts
  /\ OwnerOf \in [Boxes -> Accounts]
  /\ None \notin Accounts \cup Boxes
  /\ TabSets \subseteq SUBSET {"kv", "d1", "r2"}
  /\ MaxFlights \in Nat

VARIABLES
  account,   \* selectedAccount
  tabs,      \* the tabs whose contents are used in this behaviour, the KV editor only where no other tab is
  tab,       \* activeTab
  lists,     \* by service, the accounts whose containers are listed
  chosen,    \* by service, the selected container
  items,     \* by service, the containers whose contents are on the page
  more,      \* kvCursor: a next page is offered
  busy,      \* the loading flags that are up
  editor,    \* showKvEditor, and the form, which is kept when it closes: the namespaces its key and value came from
  schema,    \* showD1Schema, and d1SchemaTable, which is kept too: the database the table was listed for
  flights,   \* the requests in flight, in the order they were sent
  asked,     \* history: the services whose list was requested for the selected account, or came from it
  astray     \* history: the panes filled since by an answer about something no longer selected, and a tab
             \* opened before the accounts were known

storageVars == <<tabs, account, tab, lists, chosen, items, more, busy, editor, schema, flights, asked, astray>>

Services == {"kv", "d1", "r2"}
Panes == Services \X {"list", "items"}

(***************************************************************************)
(* A request: what its answer is for, the account and container it names,  *)
(* the containers that the row or the form it sends was read from, and,    *)
(* history, whether the list was astray as it was sent and whether that    *)
(* row or form was in doubt.  The tables of a database have no loading flag. *)
(***************************************************************************)
Request(s, pane, box) ==
  [service |-> s, pane |-> pane, account |-> account, box |-> box, from |-> {},
   astray |-> <<s, "list">> \in astray, doubt |-> FALSE]

\* A request about the selected container that sends a row or a form.
Carrying(s, pane, from, doubt) == [Request(s, pane, chosen[s]) EXCEPT !.from = from, !.doubt = doubt]

Flag(f) ==
  CASE f.pane = "list" -> {<<f.service, "list">>}
    [] f.pane \in {"items", "page"} /\ f.service # "d1" -> {<<f.service, "items">>}
    [] OTHER -> {}

Loading(s, pane) == <<s, pane>> \in busy

LoadList(s) == Request(s, "list", None)
LoadItems(s, box) == Request(s, "items", box)

Flying(rs) == Len(flights) + Len(rs) =< MaxFlights

\* A load raises its flag as it is sent; a write shows no spinner over the page.
Raised(rs) == UNION {Flag(f) : f \in Range(rs)}

Send(rs) ==
  /\ Flying(rs)
  /\ flights' = flights \o rs
  /\ busy' = busy \cup Raised(rs)

\* A load of what is selected now is in flight.
BoxAsked(s) == \E f \in Range(flights) : f.service = s /\ f.pane = "items" /\ f.box = chosen[s]

\* Rows in doubt: an answer about another container came last, or those of the previous database are still listed.
RowsDoubted(s) == <<s, "items">> \in astray \/ (s = "d1" /\ BoxAsked(s))

\* The rows take clicks: the spinner over them is down.
RowsFree(s) == ~Loading(s, IF s = "d1" THEN "list" ELSE "items")

\* A dialog that is closed keeps what is in it.
Unused == [open |-> FALSE, from |-> {}, doubt |-> FALSE]
Closed(dialog) == [dialog EXCEPT !.open = FALSE, !.doubt = FALSE]

\* The dialogs are modal: the page under them takes no click.
Clickable == ~editor.open /\ ~schema.open

-----------------------------------------------------------------------------
\* The page appears: the accounts are not known yet.
StorageInit ==
  /\ tabs \in TabSets
  /\ account = None
  /\ tab = "kv"
  /\ lists = [s \in Services |-> {}]
  /\ chosen = [s \in Services |-> None]
  /\ items = [s \in Services |-> {}]
  /\ more = FALSE
  /\ busy = {}
  /\ editor = Unused /\ schema = Unused
  /\ flights = <<>>
  /\ asked = {}
  /\ astray = {}

\* checkR2Available: an account without R2 leaves the R2 tab.
TabFor(a) == IF tab = "r2" /\ a \notin R2Accounts THEN "kv" ELSE tab

\* The accounts arrive: the first is selected and the namespaces are loaded, whatever tab is open.
MountStorage(a) ==
  /\ account = None
  /\ account' = a
  /\ tab' = TabFor(a)
  /\ LET first == [LoadList("kv") EXCEPT !.account = a]
     IN  \* leaving the R2 tab makes the watcher of the tab load the namespaces too, before them
         Send(IF tab' # tab THEN <<first, first>> ELSE <<first>>)
  /\ asked' = {"kv"}
  /\ astray' = IF tab' = "kv" THEN astray ELSE {<<tab', "list">>}
  /\ UNCHANGED <<tabs, lists, chosen, items, more, editor, schema>>

resetStorageCaches ==
  /\ lists' = [s \in Services |-> {}]
  /\ chosen' = [s \in Services |-> None]
  /\ items' = [s \in Services |-> {}]
  /\ more' = FALSE

\* onAccountChange: all caches are dropped, then the list of the final tab is loaded; when the tab
\* changed, its watcher runs first and loads it too, unless it is still loading.
SelectStorageAccount(a) ==
  /\ account # None /\ Clickable
  /\ resetStorageCaches
  /\ account' = a
  /\ tab' = TabFor(a)
  /\ asked' = {tab'}
  /\ astray' = {}
  /\ LET load == [LoadList(tab') EXCEPT !.account = a, !.astray = FALSE]
     IN  Send(IF tab' # tab /\ ~Loading(tab', "list") THEN <<load, load>> ELSE <<load>>)
  /\ UNCHANGED <<tabs, editor, schema>>

\* watch(activeTab): a tab loads its list the first time it is opened.
OpenTab(s) ==
  /\ Clickable
  /\ s \in (tabs \cup {"kv"}) \ {tab}
  /\ s = "r2" => account \in R2Accounts \cup {None}
  /\ tab' = s
  /\ IF account # None /\ lists[s] = {} /\ ~Loading(s, "list")
       THEN Send(<<LoadList(s)>>) /\ asked' = asked \cup {s}
       ELSE UNCHANGED <<busy, flights, asked>>
  /\ UNCHANGED <<tabs, account, lists, chosen, items, more, editor, schema, astray>>

-----------------------------------------------------------------------------
\* selectKvNamespace: the keys of the previous namespace leave the page.
SelectKvNamespace(b) ==
  /\ tab = "kv" /\ "kv" \in tabs /\ Clickable
  /\ OwnerOf[b] \in lists["kv"] /\ ~Loading("kv", "list")
  /\ chosen' = [chosen EXCEPT !["kv"] = b]
  /\ items' = [items EXCEPT !["kv"] = {}]
  /\ more' = FALSE
  /\ astray' = astray \ {<<"kv", "items">>}
  /\ Send(<<LoadItems("kv", b)>>)
  /\ UNCHANGED <<tabs, account, tab, lists, editor, schema, asked>>

\* selectD1Database: the tables of the previous database stay until the answer.
SelectD1Database(b) ==
  /\ tab = "d1" /\ Clickable
  /\ OwnerOf[b] \in lists["d1"]
  /\ chosen' = [chosen EXCEPT !["d1"] = b]
  /\ Send(<<LoadItems("d1", b)>>)
  /\ UNCHANGED <<tabs, account, tab, lists, items, more, editor, schema, asked, astray>>

\* selectR2Bucket: the objects of the previous bucket stay, under the spinner.
SelectR2Bucket(b) ==
  /\ tab = "r2" /\ Clickable
  /\ OwnerOf[b] \in lists["r2"] /\ ~Loading("r2", "list")
  /\ chosen' = [chosen EXCEPT !["r2"] = b]
  /\ Send(<<LoadItems("r2", b)>>)
  /\ UNCHANGED <<tabs, account, tab, lists, items, more, editor, schema, asked, astray>>

\* A prefix in the KV filter, a folder of the bucket: the contents are loaded again.
Reload(s) ==
  /\ tab = s /\ Clickable
  /\ chosen[s] # None
  /\ Send(<<LoadItems(s, chosen[s])>>)
  /\ UNCHANGED <<tabs, account, tab, lists, chosen, items, more, editor, schema, asked, astray>>

\* "Load more": the next page of keys is appended to the page.
LoadMore ==
  /\ tab = "kv" /\ Clickable
  /\ more /\ chosen["kv"] # None
  /\ Send(<<Request("kv", "page", chosen["kv"])>>)
  /\ UNCHANGED <<tabs, account, tab, lists, chosen, items, more, editor, schema, asked, astray>>

-----------------------------------------------------------------------------
\* handleCreateKvNs, handleCreateD1Db, handleCreateR2Bucket
CreateBox(s) ==
  /\ tab = s /\ Clickable /\ account # None
  /\ Send(<<Request(s, "create", None)>>)
  /\ UNCHANGED <<tabs, account, tab, lists, chosen, items, more, editor, schema, asked, astray>>

\* handleDeleteKvNs, handleDeleteR2Bucket from a row of the list; handleDeleteD1Db of the selected database
DeleteBox(s, b) ==
  /\ tab = s /\ Clickable
  /\ IF s = "d1" THEN b = chosen["d1"] ELSE OwnerOf[b] \in lists[s] /\ ~Loading(s, "list")
  /\ Send(<<Request(s, "delete", b)>>)
  /\ UNCHANGED <<tabs, account, tab, lists, chosen, items, more, editor, schema, asked, astray>>

\* A row of the contents is deleted or run, a file is uploaded, a statement of the user's own is run: the
\* request names the selected container, whichever container the row was read from.
ChangeItem(s) ==
  /\ tab = s /\ Clickable
  /\ chosen[s] # None
  /\ \/ RowsFree(s) /\ \E b \in items[s] : Send(<<Carrying(s, "write", {b}, RowsDoubted(s))>>)
     \/ s # "kv" /\ Send(<<Request(s, "write", chosen[s])>>)
  /\ UNCHANGED <<tabs, account, tab, lists, chosen, items, more, editor, schema, asked, astray>>

\* viewKvValue: the value is fetched, and its answer opens the editor.
ViewKvValue ==
  /\ tab = "kv" /\ Clickable
  /\ tabs = {"kv"} /\ chosen["kv"] # None /\ RowsFree("kv")
  /\ \E b \in items["kv"] : Send(<<Carrying("kv", "value", {b}, RowsDoubted("kv"))>>)
  /\ UNCHANGED <<tabs, account, tab, lists, chosen, items, more, editor, schema, asked, astray>>

\* The "create" button: the editor shows what an earlier view or save left in it, of whatever namespace.
OpenKvEditor ==
  /\ tab = "kv" /\ tabs = {"kv"} /\ Clickable /\ chosen["kv"] # None
  /\ editor' = [editor EXCEPT !.open = TRUE, !.doubt = TRUE]
  /\ UNCHANGED <<tabs, account, tab, lists, chosen, items, more, busy, schema, flights, asked, astray>>

CloseKvEditor ==
  /\ editor.open
  /\ editor' = Closed(editor)
  /\ UNCHANGED <<tabs, account, tab, lists, chosen, items, more, busy, schema, flights, asked, astray>>

\* handleSaveKv: the form is written under the selected namespace.
SaveKv ==
  /\ editor.open /\ chosen["kv"] # None
  /\ Send(<<Carrying("kv", "put", editor.from, editor.doubt)>>)
  /\ UNCHANGED <<tabs, account, tab, lists, chosen, items, more, editor, schema, asked, astray>>

\* openD1TableSchema of a row of the tables; what it reads is only shown.
OpenSchema ==
  /\ tab = "d1" /\ Clickable /\ chosen["d1"] # None /\ RowsFree("d1")
  /\ \E b \in items["d1"] : schema' = [open |-> TRUE, from |-> {b}, doubt |-> RowsDoubted("d1")]
  /\ UNCHANGED <<tabs, account, tab, lists, chosen, items, more, busy, editor, flights, asked, astray>>

CloseSchema ==
  /\ schema.open
  /\ schema' = Closed(schema)
  /\ UNCHANGED <<tabs, account, tab, lists, chosen, items, more, busy, editor, flights, asked, astray>>

\* runD1Alter: the table of the dialog is changed or dropped in the selected database.
AlterTable ==
  /\ schema.open /\ chosen["d1"] # None
  /\ Send(<<Carrying("d1", "alter", schema.from, schema.doubt)>>)
  /\ UNCHANGED <<tabs, account, tab, lists, chosen, items, more, editor, schema, asked, astray>>

-----------------------------------------------------------------------------
(***************************************************************************)
(* Answers.  A list names the containers of the account it was asked for;  *)
(* contents come from a container only with its own account's credentials. *)
(***************************************************************************)
Contents(f, ok) == IF ok /\ OwnerOf[f.box] = f.account THEN {f.box} ELSE {}

\* The request that was answered is gone and its flag is down; rs are sent next.
Settle(i, rs) ==
  /\ flights' = RemoveAt(flights, i) \o rs
  /\ busy' = (busy \ Flag(flights[i])) \cup Raised(rs)

\* loadKvNamespaces, loadR2Buckets, loadD1Databases, answered: without a selected database the first is selected.
ListAnswer(i, ok) ==
  LET f == flights[i]
      s == f.service
      new == IF ok THEN {f.account} \cap Range(OwnerOf) ELSE {}
  IN  /\ f.pane = "list"
      /\ lists' = [lists EXCEPT ![s] = new]
      /\ IF f.account = account
           THEN asked' = asked \cup {s} /\ UNCHANGED astray
           ELSE astray' = astray \cup {<<s, "list">>} /\ UNCHANGED asked
      /\ IF s = "d1" /\ new # {} /\ chosen["d1"] = None
           THEN \E b \in {x \in Boxes : OwnerOf[x] = f.account} :
                  /\ chosen' = [chosen EXCEPT !["d1"] = b]
                  /\ Settle(i, <<[LoadItems("d1", b) EXCEPT !.astray = <<"d1", "list">> \in astray']>>)
                  /\ schema' = [schema EXCEPT !.doubt = schema.open]   \* a dialog may be open on the one before
           ELSE /\ UNCHANGED <<chosen, schema>>
                /\ Settle(i, <<>>)
      /\ UNCHANGED <<tabs, account, tab, items, more, editor>>

\* loadKvKeys, loadR2Objects, selectD1Database, answered: a further page of keys is appended; a failure
\* empties the pane and leaves the cursor.
ItemsAnswer(i, ok) ==
  LET f == flights[i]
      s == f.service
      read == Contents(f, ok)
  IN  /\ f.pane \in {"items", "page"}
      /\ items' = [items EXCEPT ![s] = IF f.pane = "page" /\ read # {} THEN @ \cup read ELSE read]
      /\ astray' = IF f.box # chosen[s] THEN astray \cup {<<s, "items">>}
                   ELSE IF f.pane = "items" THEN astray \ {<<s, "items">>} ELSE astray
      /\ IF s # "kv" THEN UNCHANGED more
         ELSE more' \in IF read # {} THEN BOOLEAN ELSE {more, FALSE}
      /\ Settle(i, <<>>)
      /\ UNCHANGED <<tabs, account, tab, lists, chosen, editor, schema, asked>>

\* viewKvValue, answered: the editor opens on what was read, whatever namespace is selected by then; a failure
\* leaves the key of the row in the form.
ValueAnswer(i, ok) ==
  LET f == flights[i]
      read == Contents(f, ok)
      open == editor.open \/ read # {}
  IN  /\ f.pane = "value"
      /\ editor' = [open |-> open, from |-> f.from \cup read, doubt |-> open /\ (f.doubt \/ f.box # chosen["kv"])]
      /\ Settle(i, <<>>)
      /\ UNCHANGED <<tabs, account, tab, lists, chosen, items, more, schema, asked, astray>>

\* A created or deleted container, answered: the list of the account that is selected by now is loaded.
BoxAnswer(i, ok) ==
  LET f == flights[i]
      s == f.service
      gone == ok /\ f.pane = "delete" /\ chosen[s] = f.box
  IN  /\ f.pane \in {"create", "delete"}
      /\ chosen' = IF gone THEN [chosen EXCEPT ![s] = None] ELSE chosen
      /\ items' = IF gone THEN [items EXCEPT ![s] = {}] ELSE items
      /\ Settle(i, IF ok THEN <<LoadList(s)>> ELSE <<>>)
      /\ UNCHANGED <<tabs, account, tab, lists, more, editor, schema, asked, astray>>

\* A changed row, an upload or a statement, answered: the contents selected by now are loaded.
WriteAnswer(i, ok) ==
  LET f == flights[i]
      s == f.service
  IN  /\ f.pane \in {"write", "put"}
      /\ editor' = IF ok /\ f.pane = "put" THEN Closed(editor) ELSE editor
      /\ \/ Settle(i, IF ok /\ chosen[s] # None THEN <<LoadItems(s, chosen[s])>> ELSE <<>>)
         \/ s = "d1" /\ Settle(i, <<>>)   \* a statement that was not run from a dialog
      /\ UNCHANGED <<tabs, account, tab, lists, chosen, items, more, schema, asked, astray>>

\* A change of the table, answered: the dialog opens again, on its table, even if it was closed since, and a
\* dropped table closes it.
AlterAnswer(i, ok) ==
  /\ flights[i].pane = "alter"
  /\ \/ ok /\ schema' = Closed(schema)
        /\ Settle(i, IF chosen["d1"] = None THEN <<>> ELSE <<LoadItems("d1", chosen["d1"])>>)
     \/ /\ schema' = IF ok /\ chosen["d1"] # None
                       THEN [schema EXCEPT !.open = TRUE, !.doubt = @ \/ ~schema.open] ELSE schema
        /\ Settle(i, <<>>)
  /\ UNCHANGED <<tabs, account, tab, lists, chosen, items, more, editor, asked, astray>>

StorageAnswer(i) ==
  \E ok \in BOOLEAN :
    \/ ListAnswer(i, ok) \/ ItemsAnswer(i, ok) \/ ValueAnswer(i, ok)
    \/ BoxAnswer(i, ok) \/ WriteAnswer(i, ok) \/ AlterAnswer(i, ok)

-----------------------------------------------------------------------------
StorageNext ==
  \/ \E a \in Accounts : MountStorage(a) \/ SelectStorageAccount(a)
  \/ \E s \in Services : OpenTab(s) \/ CreateBox(s) \/ ChangeItem(s)
  \/ \E s \in {"kv", "r2"} : Reload(s)
  \/ \E b \in Boxes :
       \/ SelectKvNamespace(b) \/ SelectD1Database(b) \/ SelectR2Bucket(b)
       \/ \E s \in Services : DeleteBox(s, b)
  \/ LoadMore \/ ViewKvValue \/ OpenKvEditor \/ CloseKvEditor \/ SaveKv
  \/ OpenSchema \/ CloseSchema \/ AlterTable
  \/ \E i \in 1..Len(flights) : StorageAnswer(i)
=============================================================================
