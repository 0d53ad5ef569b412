------------------------------ MODULE Accounts ------------------------------
(***************************************************************************)
(* Administration of the accounts table: adding, editing, testing,         *)
(* importing and deleting Cloudflare accounts.  The product has two builds *)
(* with the same handlers: on the server ("node") a handler runs alone     *)
(* from one call to Cloudflare to the next; in the Cloudflare Worker       *)
(* ("worker") every statement on D1 is an await, and other requests run    *)
(* between any two of them.  A statement is atomic in both.                *)
(*                                                                         *)
(* A request is carried out by tasks: one for a request about one account, *)
(* one per account or line for a batch.  A request that is refused before  *)
(* it reads an account is left out.                                        *)
(***************************************************************************)
EXTENDS Naturals

CONSTANTS
  Tokens, Keys,   \* credentials: API tokens; global keys with their e-mail
  CfOf,           \* the Cloudflare account a credential opens
  MaxId,          \* bound on the accounts ever created
  Tables,         \* the tables a behaviour may start with
  Requests,
  MaxTasks,       \* bound on the tasks of a request
  Files,          \* CSV files: the credential on each line
  DemoIds,        \* DEMO_ACCOUNT_IDS
  Builds,         \* the builds considered
  None

Ids == 1..MaxId
Places == 1..MaxTasks
Credentials == Tokens \cup Keys

Row == [type : {"token", "global_key"}, token : Tokens \cup {None}, key : Keys \cup {None},
        acct : {CfOf[c] : c \in Credentials} \cup {None}, active : BOOLEAN,
        from : (Requests \X Credentials) \cup {None}]

ASSUME AccountsAssumption ==
  /\ DOMAIN CfOf = Credentials
  /\ Tokens \cap Keys = {}
  /\ None \notin Credentials \cup {CfOf[c] : c \in Credentials} \cup (Requests \X (Places \cup Credentials)) \cup Row
  /\ MaxId \in Nat
  /\ MaxTasks \in 1..5   \* the batches run five tasks at a time
  /\ DemoIds \subseteq Ids
  /\ Builds \subseteq {"node", "worker"}
  /\ \A file \in Files : \A n \in DOMAIN file : file[n] \in Credentials

VARIABLES
  build,
  rows,      \* the accounts table
  nextId,    \* its AUTOINCREMENT counter
  task,      \* by request and place: what a task keeps
  mode,      \* by request: whether its tasks run one after the other, together, or it has only one
  reply,     \* by request: whether it was answered, and with a result or an error of the server
  cpu,       \* the task that runs between two calls, on the server
  verified,  \* history: the credentials with which a call has succeeded
  astray     \* history: the accounts whose account_id is not known to come from their credentials

vars == <<build, rows, nextId, task, mode, reply, cpu, verified, astray>>

TypeOf(c) == IF c \in Tokens THEN "token" ELSE "global_key"
CredOf(row) == IF row.type = "token" THEN row.token ELSE row.key

\* In the tables that a behaviour starts with, every account has the credential of its type, and none
\* was imported by the requests of the behaviour.
ASSUME TablesAssumption ==
  \A table \in Tables :
    /\ table \in [Ids -> Row \cup {None}]
    /\ \A i \in Ids : table[i] # None => CredOf(table[i]) # None /\ table[i].from = None

\* A row as the database fills it in: the account_id that the request gives, if any; is_active is 1 by default.
NewRow(c, acct, from) ==
  [type |-> TypeOf(c), token |-> IF c \in Tokens THEN c ELSE None, key |-> IF c \in Keys THEN c ELSE None,
   acct |-> acct, active |-> TRUE, from |-> from]

\* What a handler keeps of the row it has read.
Seen(row) == IF row = None THEN None ELSE [type |-> row.type, cred |-> CredOf(row), acct |-> row.acct]

-----------------------------------------------------------------------------
(***************************************************************************)
(* The handlers: what follows when the list of Cloudflare accounts cannot  *)
(* be read, when the row was made active, when it was probed, when the     *)
(* operation was logged, and when it cannot be (audit_log refers to the    *)
(* account, which must exist).                                             *)
(***************************************************************************)
PostAccount ==
  [unlisted |-> "reprobe", activated |-> "reprobe", probed |-> "audit", logged |-> "success", unlogged |-> "broken"]

PutAccount ==
  [unlisted |-> "audit", activated |-> "audit", probed |-> "success", logged |-> "success", unlogged |-> "broken"]

TestAccount ==
  [unlisted |-> "activate", activated |-> "reprobe", probed |-> "success", logged |-> "success", unlogged |-> "broken"]

TestOne ==
  [unlisted |-> "activate", activated |-> "reprobe", probed |-> "audit", logged |-> "success",
   unlogged |-> "deactivate"]

ImportLine ==
  [unlisted |-> "audit", activated |-> "audit", probed |-> "success", logged |-> "success", unlogged |-> "error"]

DeleteAccount ==
  [unlisted |-> "audit", activated |-> "audit", probed |-> "audit", logged |-> "remove", unlogged |-> "broken"]

DeleteOne == [DeleteAccount EXCEPT !.unlogged = "error"]

\* PATCH features, clear-exhausted, credentials: no property is about the columns they concern.
EditAccount ==
  [unlisted |-> "audit", activated |-> "audit", probed |-> "audit", logged |-> "success", unlogged |-> "broken"]

EditOne == [EditAccount EXCEPT !.unlogged = "error"]

Kinds == {"create", "update", "test", "testOne", "import", "importUnverified", "delete", "deleteOne", "edit", "editOne"}

Route(kind) ==
  CASE kind = "create" -> PostAccount
    [] kind = "update" -> PutAccount
    [] kind = "test" -> TestAccount
    [] kind = "testOne" -> TestOne
    [] kind \in {"import", "importUnverified"} -> ImportLine
    [] kind = "delete" -> DeleteAccount
    [] kind = "deleteOne" -> DeleteOne
    [] kind = "edit" -> EditAccount
    [] kind = "editOne" -> EditOne

Calls == {"verify", "user", "list", "probe"}
Over == {"none", "skipped", "success", "refused", "error", "broken"}

(***************************************************************************)
(* What a task keeps: where it is, the account and the credential of the   *)
(* request (type is the auth_type of the form, acct the account_id that    *)
(* the client of POST /accounts gives), the row as it was read.            *)
(***************************************************************************)
Task(kind, pc, id, type, c) ==
  [kind |-> kind, pc |-> pc, id |-> id, type |-> type, cred |-> c, acct |-> None, saw |-> None]
NoTask == Task("edit", "none", 0, "token", None)

\* On the server a task keeps the processor until its next call or its end; a request starts all the
\* tasks it can before it gives the processor away.
Holder(r, n, pc) ==
  IF build = "worker" THEN None
  ELSE IF pc \notin Calls \cup Over THEN <<r, n>>
  ELSE IF \E m \in Places \ {n} : task[r][m].pc \in {"filter", "waiting"} THEN <<r, 0>> ELSE None

\* The task moves on.
Become(r, n, t) ==
  /\ task' = [task EXCEPT ![r][n] = t]
  /\ cpu' = Holder(r, n, t.pc)

Goto(r, n, pc) == Become(r, n, [task[r][n] EXCEPT !.pc = pc])

At(r, n, pc) == cpu \in {None, <<r, n>>} /\ task[r][n].pc = pc

Init ==
  /\ build \in Builds
  /\ rows \in Tables
  /\ \E n \in Ids : nextId = n /\ \A i \in Ids : rows[i] # None => i < n
  /\ \A i \in Ids : i < nextId => rows[i] # None
  /\ task = [r \in Requests |-> [n \in Places |-> NoTask]]
  /\ mode = [r \in Requests |-> "alone"]
  /\ reply = [r \in Requests |-> "unsent"]
  /\ cpu = None
  /\ verified = {CredOf(rows[i]) : i \in {j \in Ids : rows[j] # None /\ rows[j].active}}
  /\ astray = {i \in Ids : rows[i] # None /\ rows[i].acct \notin {None, CfOf[CredOf(rows[i])]}}

-----------------------------------------------------------------------------
(* Requests arrive. *)

Submit(r, m, tasks) ==
  /\ cpu = None
  /\ reply' = [reply EXCEPT ![r] = "open"]
  /\ mode' = [mode EXCEPT ![r] = m]
  /\ task' = [task EXCEPT ![r] = tasks]
  /\ cpu' = IF build = "node" /\ \E n \in Places : tasks[n].pc \in {"filter", "waiting"} THEN <<r, 0>> ELSE None
  /\ UNCHANGED <<build, rows, nextId, verified, astray>>

Alone(t) == [n \in Places |-> IF n = 1 THEN t ELSE NoTask]

\* A batch: its targets, in any order.
Each(ids, kind) ==
  {f \in [Places -> {NoTask} \cup {Task(kind, "waiting", i, "token", None) : i \in ids}] :
     \A i \in ids : \E n \in Places : f[n].id = i /\ \A m \in Places : f[m].id = i => m = n}

\* POST /accounts, after its validation; the client may give any account_id, or none.
SubmitPost(r) ==
  /\ reply[r] = "unsent"
  /\ \E c \in Credentials, acct \in {CfOf[d] : d \in Credentials} \cup {None} :
       Submit(r, "alone", Alone([Task("create", "verify", 0, TypeOf(c), c) EXCEPT !.acct = acct]))

\* PUT /accounts/:id: the form names the auth_type, and gives a credential of that type or none.
SubmitPut(r) ==
  /\ reply[r] = "unsent"
  /\ \E i \in Ids \ DemoIds, type \in {"token", "global_key"}, c \in Credentials \cup {None} :
       /\ c # None => TypeOf(c) = type
       /\ Submit(r, "alone", Alone(Task("update", "read", i, type, c)))

SubmitTest(r) ==
  /\ reply[r] = "unsent"
  /\ \E i \in Ids : Submit(r, "alone", Alone(Task("test", "read", i, "token", None)))

SubmitDelete(r) ==
  /\ reply[r] = "unsent"
  /\ \E i \in Ids \ DemoIds : Submit(r, "alone", Alone(Task("delete", "read", i, "token", None)))

SubmitEdit(r) ==
  /\ reply[r] = "unsent"
  /\ \E i \in Ids \ DemoIds : Submit(r, "alone", Alone(Task("edit", "read", i, "token", None)))

\* POST /accounts/test-batch: all accounts, or those that are not active, as the table is now.
SubmitTestBatch(r) ==
  /\ reply[r] = "unsent"
  /\ \E onlyUnverified \in BOOLEAN :
       LET targets == {i \in Ids \ DemoIds : rows[i] # None /\ (onlyUnverified => ~rows[i].active)}
       IN  \E tasks \in Each(targets, "testOne") : Submit(r, "together", tasks)

\* POST /accounts/batch/delete
SubmitDeleteBatch(r) ==
  /\ reply[r] = "unsent"
  /\ \E ids \in SUBSET (Ids \ DemoIds) \ {{}} : \E tasks \in Each(ids, "deleteOne") : Submit(r, "serial", tasks)

\* POST /accounts/batch/features and /accounts/batch/proxy
SubmitEditBatch(r) ==
  /\ reply[r] = "unsent"
  /\ \E ids \in SUBSET (Ids \ DemoIds) \ {{}} : \E tasks \in Each(ids, "editOne") : Submit(r, "serial", tasks)

\* POST /accounts/import-csv: a valid file, its credentials verified or taken on trust.
SubmitImport(r) ==
  /\ reply[r] = "unsent"
  /\ \E file \in Files, kind \in {"import", "importUnverified"} :
       Submit(r, "together",
         [n \in Places |-> IF n \in DOMAIN file THEN Task(kind, "filter", 0, TypeOf(file[n]), file[n]) ELSE NoTask])

-----------------------------------------------------------------------------
(* Batches. *)

\* Variant for the mutants of the runs: the lines of one file are not compared.
dedupeTableOnly(r, n) ==
  LET c == task[r][n].cred
  IN  \E i \in Ids : rows[i] # None /\ IF c \in Keys THEN rows[i].key = c ELSE CredOf(rows[i]) = c

\* seenKeys, getAccountByEmail, tokenAccountExists: the credential is on an earlier line or in the table.
Known(r, n) ==
  LET c == task[r][n].cred
  IN  \/ \E m \in Places : m < n /\ task[r][m].cred = c
      \/ \E i \in Ids : rows[i] # None /\ IF c \in Keys THEN rows[i].key = c ELSE CredOf(rows[i]) = c

\* The lines are filtered in order, before any of them is imported.
Filter(r, n) ==
  /\ task[r][n].pc = "filter"
  /\ \A m \in Places : task[r][m].pc = "filter" => n =< m
  /\ cpu \in {None, <<r, 0>>}
  /\ task' = [task EXCEPT ![r][n].pc = IF Known(r, n) THEN "skipped" ELSE "waiting"]
  /\ cpu' = IF \E m \in Places : task'[r][m].pc \in {"filter", "waiting"} THEN cpu ELSE None
  /\ UNCHANGED <<build, rows, nextId, mode, reply, verified, astray>>

\* Where a task of a batch starts.
Start(kind) ==
  CASE kind = "import" -> "verify"
    [] kind = "importUnverified" -> "insert"
    [] OTHER -> "read"

\* A task of a batch starts: in parallel with the others, or after those before it.
Begin(r, n) ==
  /\ cpu \in {None, <<r, 0>>}
  /\ task[r][n].pc = "waiting" /\ reply[r] = "open"
  /\ \A m \in Places : task[r][m].pc # "filter"
  /\ mode[r] = "serial" => \A m \in Places : m # n => task[r][m].pc \in Over \cup {"waiting"}
  /\ Goto(r, n, Start(task[r][n].kind))
  /\ UNCHANGED <<build, rows, nextId, mode, reply, verified, astray>>

\* The answer: Promise.all rejects as soon as one task throws; the others go on without an answer.
Answer(r) ==
  /\ cpu = None /\ reply[r] = "open"
  /\ \/ /\ \E n \in Places : task[r][n].pc = "broken"
        /\ reply' = [reply EXCEPT ![r] = "failed"]
     \/ /\ \A n \in Places : task[r][n].pc \in Over \ {"broken"}
        /\ reply' = [reply EXCEPT ![r] = "answered"]
  /\ UNCHANGED <<build, rows, nextId, task, mode, cpu, verified, astray>>

-----------------------------------------------------------------------------
(* Statements on the database. *)

\* Variant for the mutants of the runs: a row that is no longer there is inserted.
upsertRow(i, row) == rows' = [rows EXCEPT ![i] = IF @ = None THEN NewRow(CHOOSE c \in Tokens : TRUE, None, None) ELSE row]

\* An UPDATE of a row that is no longer there changes nothing.
SetRow(i, row) == rows' = [rows EXCEPT ![i] = IF @ = None THEN None ELSE row]

\* The handler reads the account; without it a test in a batch fails like any other, and the rest is refused.
ReadAccount(r, n) ==
  LET t == task[r][n]
      row == rows[t.id]
      seen == [t EXCEPT !.saw = Seen(row)]
  IN  /\ At(r, n, "read")
      /\ Become(r, n, [seen EXCEPT !.pc =
           IF row = None THEN IF t.kind = "testOne" THEN "deactivate" ELSE IF t.kind \in {"deleteOne", "editOne"} THEN "error" ELSE "refused"
           ELSE IF t.kind \in {"test", "testOne"} THEN "user"
           ELSE IF t.kind # "update" THEN "audit"
           ELSE IF t.cred # None THEN "verify"
           ELSE IF row.type # t.type THEN "refused" ELSE "update"])
      /\ UNCHANGED <<build, rows, nextId, mode, reply, verified, astray>>

\* Variant for the mutants of the runs: an import without verification does not put the account aside.
keptActive(kind) == IF kind = "importUnverified" THEN "audit" ELSE "reread"

Inserted(kind) == IF kind = "importUnverified" THEN "park" ELSE "reread"

\* createAccount; a line of an import gives no account_id.
Insert(r, n) ==
  LET t == task[r][n]
      importing == t.kind \in {"import", "importUnverified"}
  IN  /\ At(r, n, "insert")
      /\ nextId \in Ids
      /\ rows' = [rows EXCEPT ![nextId] = NewRow(t.cred, t.acct, IF importing THEN <<r, t.cred>> ELSE None)]
      /\ nextId' = nextId + 1
      /\ Become(r, n, [t EXCEPT !.id = nextId, !.pc = Inserted(t.kind)])
      /\ UNCHANGED <<build, mode, reply, verified, astray>>

\* Variant for the mutants of the runs: a credential that is not given overwrites the one that is there.
editedWhole(row, t) ==
  [row EXCEPT !.type = t.type,
     !.token = IF t.type = "token" THEN t.cred ELSE @,
     !.key = IF t.type = "global_key" THEN t.cred ELSE @]

\* The columns of a PUT: a credential that is not given stays, one of the other type is dropped by a switch.
Edited(row, t) ==
  LET switching == t.saw.type # t.type
  IN  [row EXCEPT !.type = t.type,
         !.token = IF t.cred \in Tokens THEN t.cred ELSE IF switching /\ t.type = "global_key" THEN None ELSE @,
         !.key = IF t.cred \in Keys THEN t.cred ELSE IF switching /\ t.type = "token" THEN None ELSE @]

UpdateRow(r, n) ==
  LET t == task[r][n]
      row == rows[t.id]
  IN  /\ At(r, n, "update")
      /\ SetRow(t.id, Edited(row, t))
      /\ astray' = IF row # None /\ t.cred = None /\ CredOf(Edited(row, t)) # CredOf(row)
                     THEN astray \cup {t.id} ELSE astray
      /\ Goto(r, n, "reread")
      /\ UNCHANGED <<build, nextId, mode, reply, verified>>

\* Variant for the mutants of the runs: account_id is only fetched where there is none.
needsAccountIdIfNone(t, row) == row.acct = None

\* A PUT fetches account_id when there is none, and when the credentials are new.
NeedsAccountId(t, row) == row.acct = None \/ t.cred # None

Reread(r, n) ==
  LET t == task[r][n]
      row == rows[t.id]
      seen == [t EXCEPT !.saw = Seen(row)]
  IN  /\ At(r, n, "reread")
      /\ Become(r, n, [seen EXCEPT !.pc =
           IF row = None THEN IF t.kind = "update" THEN "broken" ELSE Route(t.kind).unlisted
           ELSE IF t.kind = "update" /\ ~NeedsAccountId(t, row) THEN "audit" ELSE "list"])
      /\ UNCHANGED <<build, rows, nextId, mode, reply, verified, astray>>

\* updateAccountId: whatever the row's credentials are by now.
SetAccountId(r, n) ==
  LET t == task[r][n]
      row == rows[t.id]
      acct == CfOf[t.saw.cred]
  IN  /\ At(r, n, "setAccountId")
      /\ SetRow(t.id, [row EXCEPT !.acct = acct])
      /\ astray' = IF row # None /\ CredOf(row) # None /\ CfOf[CredOf(row)] = acct
                     THEN astray \ {t.id} ELSE astray \cup {t.id}
      /\ Goto(r, n, "activate")
      /\ UNCHANGED <<build, nextId, mode, reply, verified>>

\* updateAccountStatus(id, true)
Activate(r, n) ==
  LET t == task[r][n]
  IN  /\ At(r, n, "activate")
      /\ SetRow(t.id, [rows[t.id] EXCEPT !.active = TRUE])
      /\ Goto(r, n, Route(t.kind).activated)
      /\ UNCHANGED <<build, nextId, mode, reply, verified, astray>>

\* An import without verification leaves the account to be tested later.
Park(r, n) ==
  LET t == task[r][n]
  IN  /\ At(r, n, "park")
      /\ SetRow(t.id, [rows[t.id] EXCEPT !.active = FALSE])
      /\ Goto(r, n, "audit")
      /\ UNCHANGED <<build, nextId, mode, reply, verified, astray>>

\* testOne, the catch: the account is not active, and that is logged.
Deactivate(r, n) ==
  LET t == task[r][n]
  IN  /\ At(r, n, "deactivate")
      /\ SetRow(t.id, [rows[t.id] EXCEPT !.active = FALSE])
      /\ Goto(r, n, "auditError")
      /\ UNCHANGED <<build, nextId, mode, reply, verified, astray>>

AuditError(r, n) ==
  /\ At(r, n, "auditError")
  /\ Goto(r, n, IF rows[task[r][n].id] = None THEN "broken" ELSE "error")
  /\ UNCHANGED <<build, rows, nextId, mode, reply, verified, astray>>

\* addAuditLog: fails when the account is gone.  An update with new credentials goes on to the probe.
Audit(r, n) ==
  LET t == task[r][n]
  IN  /\ At(r, n, "audit")
      /\ Goto(r, n, IF rows[t.id] = None THEN Route(t.kind).unlogged
                    ELSE IF t.kind = "update" /\ t.cred # None THEN "reprobe" ELSE Route(t.kind).logged)
      /\ UNCHANGED <<build, rows, nextId, mode, reply, verified, astray>>

\* deleteAccount
Remove(r, n) ==
  /\ At(r, n, "remove")
  /\ rows' = [rows EXCEPT ![task[r][n].id] = None]
  /\ Goto(r, n, "success")
  /\ UNCHANGED <<build, nextId, mode, reply, verified, astray>>

Reprobe(r, n) ==
  LET t == task[r][n]
  IN  /\ At(r, n, "reprobe")
      /\ Goto(r, n, IF rows[t.id] = None THEN Route(t.kind).probed ELSE "probe")
      /\ UNCHANGED <<build, rows, nextId, mode, reply, verified, astray>>

-----------------------------------------------------------------------------
(* Calls to Cloudflare, which succeed or fail; only one with credentials can succeed. *)

Replied(r, n, c, pc) ==
  /\ Goto(r, n, pc)
  /\ verified' = verified \cup {c}
  /\ UNCHANGED <<build, rows, nextId, mode, reply>>

Failed(r, n, pc) ==
  /\ Goto(r, n, pc)
  /\ UNCHANGED <<build, rows, nextId, mode, reply, verified>>

\* verifyCloudflareCredentials, and the same check in a PUT and an import
Verify(r, n) ==
  LET t == task[r][n]
  IN  /\ At(r, n, "verify")
      /\ \/ Replied(r, n, t.cred, IF t.kind = "update" THEN "update" ELSE "insert")
         \/ Failed(r, n, IF t.kind = "import" THEN "error" ELSE "refused")
      /\ UNCHANGED astray

\* Variant for the mutants of the runs: a failed test of a batch is not caught.
testThrows(kind) == "broken"

\* A failed test of one account is not caught: the error handler answers it as an error of the server;
\* in a batch it is a result.
Untested(kind) == IF kind = "testOne" THEN "deactivate" ELSE "broken"

\* A test calls /user; in a batch the server then looks at the row again, the Worker at what it read.
User(r, n) ==
  LET t == task[r][n]
      row == IF build = "node" /\ t.kind = "testOne" THEN Seen(rows[t.id]) ELSE t.saw
  IN  /\ At(r, n, "user")
      /\ \/ t.saw.cred # None
            /\ Replied(r, n, t.saw.cred, IF row # None /\ row.acct = None THEN "list" ELSE "activate")
         \/ Failed(r, n, Untested(t.kind))
      /\ UNCHANGED astray

\* GET /accounts of Cloudflare, with the credentials as they were read: an account, none, or a failure
\* that is only logged.
List(r, n) ==
  LET t == task[r][n]
      after == IF t.kind \in {"test", "testOne"} THEN "activate" ELSE Route(t.kind).unlisted
  IN  /\ At(r, n, "list")
      /\ \/ t.saw.cred # None /\ Replied(r, n, t.saw.cred, "setAccountId") /\ UNCHANGED astray
         \/ /\ \/ t.saw.cred # None /\ Replied(r, n, t.saw.cred, "activate")
               \/ Failed(r, n, after)
            /\ astray' = IF t.cred # None THEN astray \cup {t.id} ELSE astray

\* probeAndStoreAccount: no property is about what it stores.
Probe(r, n) ==
  /\ At(r, n, "probe")
  /\ Failed(r, n, Route(task[r][n].kind).probed)
  /\ UNCHANGED astray

-----------------------------------------------------------------------------
Arrive(r) ==
  \/ SubmitPost(r) \/ SubmitPut(r) \/ SubmitTest(r) \/ SubmitDelete(r) \/ SubmitEdit(r)
  \/ SubmitTestBatch(r) \/ SubmitDeleteBatch(r) \/ SubmitEditBatch(r) \/ SubmitImport(r)

Step(r, n) ==
  \/ Filter(r, n) \/ Begin(r, n)
  \/ ReadAccount(r, n) \/ Insert(r, n) \/ UpdateRow(r, n) \/ Reread(r, n) \/ SetAccountId(r, n)
  \/ Activate(r, n) \/ Park(r, n) \/ Deactivate(r, n) \/ AuditError(r, n) \/ Audit(r, n)
  \/ Remove(r, n) \/ Reprobe(r, n)
  \/ Verify(r, n) \/ User(r, n) \/ List(r, n) \/ Probe(r, n)

Next == \E r \in Requests : Arrive(r) \/ Answer(r) \/ \E n \in Places : Step(r, n)

Spec == Init /\ [][Next]_vars
=============================================================================
