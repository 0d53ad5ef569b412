--------------------------- MODULE Accounts_proofs ---------------------------
(***************************************************************************)
(* What TLAPS proves of the administration of accounts, for any number of  *)
(* requests, accounts and credentials and in both builds: a deleted        *)
(* account stays deleted; a request fails with an error of the server only *)
(* when its account has gone, or fails the test of it alone; on the server, every account has its         *)
(* credential; an account in use has credentials that have served; its     *)
(* account_id is the one they open, but for exceptions that are known; and *)
(* an import creates an account once and reports it truly.                 *)
(***************************************************************************)
EXTENDS AccountsProps, TLAPS

SeenRow == [type : {"token", "global_key"}, cred : Credentials \cup {None},
            acct : {CfOf[c] : c \in Credentials} \cup {None}]

Pcs == {"none", "filter", "waiting", "skipped", "read", "verify", "insert", "update", "reread", "user", "list",
        "setAccountId", "activate", "park", "deactivate", "auditError", "audit", "reprobe", "probe", "remove",
        "success", "refused", "error", "broken"}

TaskRecord == [kind : Kinds, pc : Pcs, id : Nat, type : {"token", "global_key"},
               cred : Credentials \cup {None}, acct : {CfOf[c] : c \in Credentials} \cup {None},
               saw : SeenRow \cup {None}]

TypesOK ==
  /\ rows \in [Ids -> Row \cup {None}]
  /\ nextId \in Nat
  /\ task \in [Requests -> [Places -> TaskRecord]]

-----------------------------------------------------------------------------
(***************************************************************************)
(* The inductive invariant.  What a task keeps fits the place where it is. *)
(***************************************************************************)

Creating == {"create", "import", "importUnverified"}
Importing == {"import", "importUnverified"}

\* What a task is about and where it is, without the table.
Shaped(t) ==
  /\ t.kind \notin Creating /\ t.pc # "none" => t.id \in Ids
  /\ t.kind \in Creating => t.cred \in Credentials
  /\ t.kind \in Importing => t.acct = None
  /\ t.kind = "update" /\ t.cred # None => TypeOf(t.cred) = t.type
  /\ t.pc = "read" => t.kind \notin Creating
  /\ t.pc \in {"filter", "waiting"} => t.kind # "create"
  /\ t.pc = "verify" => t.kind \in {"create", "update", "import"} /\ t.cred # None
  /\ t.pc = "insert" => t.kind \in Creating
  /\ t.pc = "update" => t.kind = "update"
  /\ t.pc = "user" => t.kind \in {"test", "testOne"}
  /\ t.pc \in {"user", "list", "setAccountId"} => t.saw \in SeenRow
  /\ t.pc = "setAccountId" => t.saw.cred # None

\* Where a task has seen its account, or is about to change it.
Past == {"user", "list", "setAccountId", "activate", "reprobe", "probe", "audit", "auditError", "deactivate",
         "update", "reread", "park", "remove", "success", "broken"}

\* The account was there when the task saw it: its id will not be given to another.
Placed(t) == t.pc \in Past \/ (t.kind = "testOne" /\ t.pc # "none") \/ (t.kind = "update" /\ t.pc = "verify")

\* An edit without a credential, between the read and the write of the row.
Renames(t) == t.pc = "update" /\ t.cred = None

Fits(t, r, n) ==
  /\ Shaped(t)
  /\ Placed(t) => t.id \in Ids /\ t.id < nextId
  /\ t.pc = "broken" => rows[t.id] = None \/ t.kind = "test"
  /\ build = "node" /\ Renames(t) =>
       cpu = <<r, n>> /\ t.saw \in SeenRow /\ t.saw.type = t.type
       /\ (rows[t.id] = None \/ rows[t.id].type = t.type)

RowsBelow == \A i \in Ids : rows[i] # None => i < nextId

IInv ==
  /\ TypesOK
  /\ RowsBelow
  /\ CredentialsPresent
  /\ \A r \in Requests, n \in Places : Fits(task[r][n], r, n)

\* How a step treats the table: no row comes back, and no credential goes on the server.
TableKept ==
  /\ rows' \in [Ids -> Row \cup {None}]
  /\ nextId' \in Nat /\ nextId =< nextId'
  /\ \A i \in Ids : rows'[i] # None => i < nextId'
  /\ \A i \in Ids : i < nextId /\ rows[i] = None => rows'[i] = None
  /\ build = "node" => \A i \in Ids : rows'[i] # None => CredOf(rows'[i]) # None

\* What a task becomes.
Moves(r, n) ==
  \E new \in TaskRecord :
    /\ task' = [task EXCEPT ![r][n] = new]
    /\ Shaped(new)
    /\ Placed(new) => new.id \in Ids /\ new.id < nextId'
    /\ new.pc = "broken" => rows'[new.id] = None \/ new.kind = "test"
    /\ build = "node" /\ Renames(new) =>
         cpu' = <<r, n>> /\ new.saw \in SeenRow /\ new.saw.type = new.type
         /\ (rows'[new.id] = None \/ rows'[new.id].type = new.type)

Advances(r, n) ==
  /\ cpu \in {None, <<r, n>>, <<r, 0>>}
  /\ build' = build
  /\ TableKept
  /\ Moves(r, n)

-----------------------------------------------------------------------------
(***************************************************************************)
(* Lemmas                                                                  *)
(***************************************************************************)

LEMMA TableStays ==
  ASSUME IInv, UNCHANGED <<rows, nextId>>
  PROVE  TableKept
BY DEF IInv, TypesOK, RowsBelow, CredentialsPresent, TableKept

\* The processor of one task is not that of another.
LEMMA ProcessorsDiffer ==
  ASSUME NEW r \in Requests, NEW n \in Places, NEW p \in Requests, NEW q \in Places,
         cpu = <<p, q>>, cpu \in {None, <<r, n>>, <<r, 0>>}
  PROVE  p = r /\ q = n
<1>1. <<p, q>> # None BY AccountsAssumption DEF AccountsAssumption
<1>2. q # 0 BY DEF Places
<1> QED BY <1>1, <1>2

LEMMA AdvancePreserves ==
  ASSUME IInv, NEW r \in Requests, NEW n \in Places, Advances(r, n)
  PROVE  IInv'
<1>1. PICK new \in TaskRecord :
    /\ task' = [task EXCEPT ![r][n] = new]
    /\ Shaped(new)
    /\ Placed(new) => new.id \in Ids /\ new.id < nextId'
    /\ new.pc = "broken" => rows'[new.id] = None \/ new.kind = "test"
    /\ build = "node" /\ Renames(new) =>
         cpu' = <<r, n>> /\ new.saw \in SeenRow /\ new.saw.type = new.type
         /\ (rows'[new.id] = None \/ rows'[new.id].type = new.type)
  BY DEF Advances, Moves
<1>2. TypesOK'
  BY <1>1 DEF IInv, TypesOK, Advances, TableKept
<1>3. RowsBelow' /\ CredentialsPresent'
  BY DEF Advances, TableKept, RowsBelow, CredentialsPresent, CredOf
<1>4. ASSUME NEW p \in Requests, NEW q \in Places
      PROVE  Fits(task[p][q], p, q)'
  <2>1. CASE p = r /\ q = n
    <3>1. task'[p][q] = new BY <1>1, <2>1 DEF IInv, TypesOK
    <3> QED BY <1>1, <2>1, <3>1 DEF Fits, Advances, Shaped, Placed, Renames
  <2>2. CASE ~(p = r /\ q = n)
    <3>1. task'[p][q] = task[p][q] BY <1>1, <2>2 DEF IInv, TypesOK
    <3>2. Fits(task[p][q], p, q) BY DEF IInv
    <3>3. build = "node" => ~Renames(task[p][q])
      BY <2>2, <3>2, ProcessorsDiffer DEF Fits, Advances
    <3>4. task[p][q].pc = "broken" => task[p][q].id \in Ids /\ task[p][q].id < nextId
      BY <3>2 DEF Fits, Placed, Past
    <3>5. Placed(task[p][q]) => task[p][q].id \in Ids /\ task[p][q].id < nextId'
      BY <3>2 DEF Fits, Advances, TableKept, IInv, TypesOK, Ids
    <3>6. task[p][q].pc = "broken" => rows'[task[p][q].id] = None \/ task[p][q].kind = "test"
      BY <3>2, <3>4 DEF Fits, Advances, TableKept
    <3> QED BY <3>1, <3>2, <3>3, <3>5, <3>6 DEF Fits, Advances, Shaped, Placed, Renames
  <2> QED BY <2>1, <2>2
<1> QED BY <1>2, <1>3, <1>4 DEF IInv

-----------------------------------------------------------------------------
\* What a handler keeps of a row it has read.
LEMMA SeenTyped ==
  ASSUME NEW row \in Row
  PROVE  /\ Seen(row) \in SeenRow /\ Seen(row).type = row.type /\ Seen(row).cred = CredOf(row)
         /\ CredOf(row) \in Credentials \cup {None}
<1>1. row # None BY AccountsAssumption DEF AccountsAssumption
<1>2. CredOf(row) \in Credentials \cup {None} BY DEF CredOf, Row, Credentials
<1>3. row.type \in {"token", "global_key"} /\ row.acct \in {CfOf[c] : c \in Credentials} \cup {None} BY DEF Row
<1> QED BY <1>1, <1>2, <1>3 DEF Seen, SeenRow

\* Where the handlers go on.
LEMMA RouteFields ==
  ASSUME NEW kind \in Kinds
  PROVE  /\ Route(kind).unlisted \in {"reprobe", "audit", "activate"}
         /\ Route(kind).activated \in {"reprobe", "audit"}
         /\ Route(kind).probed \in {"audit", "success"}
         /\ Route(kind).logged \in {"success", "remove"}
         /\ Route(kind).unlogged \in {"broken", "deactivate", "error"}
BY DEF Kinds, Route, PostAccount, PutAccount, TestAccount, TestOne, ImportLine, DeleteAccount, DeleteOne,
       EditAccount, EditOne

\* A task as it is, and its account.
LEMMA OwnTask ==
  ASSUME IInv, NEW r \in Requests, NEW n \in Places
  PROVE  /\ task[r][n] \in TaskRecord
         /\ Fits(task[r][n], r, n)
         /\ \A i \in Ids : rows[i] \in Row \cup {None}
BY DEF IInv, TypesOK

LEMMA RecordMoved ==
  ASSUME NEW t \in TaskRecord, NEW pc \in Pcs
  PROVE  /\ [t EXCEPT !.pc = pc] \in TaskRecord
         /\ [t EXCEPT !.pc = pc].pc = pc /\ [t EXCEPT !.pc = pc].kind = t.kind
         /\ [t EXCEPT !.pc = pc].id = t.id /\ [t EXCEPT !.pc = pc].type = t.type
         /\ [t EXCEPT !.pc = pc].cred = t.cred /\ [t EXCEPT !.pc = pc].saw = t.saw
         /\ [t EXCEPT !.pc = pc].acct = t.acct
BY DEF TaskRecord

\* An UPDATE keeps the table sound when what it writes has its credential.
LEMMA SetRowKept ==
  ASSUME IInv, NEW i \in Ids, NEW row, SetRow(i, row), UNCHANGED nextId,
         rows[i] # None => row \in Row /\ (build = "node" => CredOf(row) # None)
  PROVE  TableKept
<1>1. rows' = [rows EXCEPT ![i] = IF rows[i] = None THEN None ELSE row] BY DEF SetRow
<1>2. rows \in [Ids -> Row \cup {None}] /\ nextId \in Nat BY DEF IInv, TypesOK
<1>3. rows' \in [Ids -> Row \cup {None}] BY <1>1, <1>2
<1>4. \A j \in Ids : rows[j] = None => rows'[j] = None BY <1>1, <1>2
<1>5. \A j \in Ids : rows'[j] # None => rows[j] # None BY <1>4
<1>6. build = "node" => \A j \in Ids : rows'[j] # None => CredOf(rows'[j]) # None
  <2> SUFFICES ASSUME build = "node", NEW j \in Ids, rows'[j] # None PROVE CredOf(rows'[j]) # None OBVIOUS
  <2>1. CASE j = i BY <2>1, <1>1, <1>2
  <2>2. CASE j # i
    <3>1. rows'[j] = rows[j] BY <2>2, <1>1, <1>2
    <3> QED BY <3>1 DEF IInv, CredentialsPresent
  <2> QED BY <2>1, <2>2
<1> QED BY <1>2, <1>3, <1>4, <1>5, <1>6 DEF TableKept, IInv, RowsBelow, Ids

\* A task that has seen its account, or is over, moves to another such place.
Halls == {"none", "read", "user", "filter", "waiting", "verify", "insert", "update"}

LEMMA GotoAdvances ==
  ASSUME IInv, NEW r \in Requests, NEW n \in Places, NEW pc \in Pcs,
         Goto(r, n, pc), cpu \in {None, <<r, n>>, <<r, 0>>}, build' = build, TableKept,
         task[r][n].pc # "none", pc \notin Halls,
         pc \in {"list", "setAccountId"} => task[r][n].saw \in SeenRow,
         pc = "setAccountId" => task[r][n].saw.cred # None,
         pc \in Past => task[r][n].id \in Ids /\ task[r][n].id < nextId,
         pc = "broken" => rows'[task[r][n].id] = None \/ task[r][n].kind = "test"
  PROVE  Advances(r, n)
<1> DEFINE t == task[r][n]
           new == [t EXCEPT !.pc = pc]
<1>1. t \in TaskRecord /\ Fits(t, r, n) BY OwnTask
<1>2. /\ new \in TaskRecord /\ new.pc = pc /\ new.kind = t.kind /\ new.id = t.id /\ new.type = t.type
      /\ new.cred = t.cred /\ new.acct = t.acct /\ new.saw = t.saw
  BY <1>1, RecordMoved
<1>3. task' = [task EXCEPT ![r][n] = new] BY DEF Goto, Become
<1> HIDE DEF new, t
<1>4. Shaped(new) BY <1>1, <1>2 DEF Fits, Shaped, Halls, t
<1>5. Placed(new) => new.id \in Ids /\ new.id < nextId'
  <2>1. nextId =< nextId' /\ nextId \in Nat /\ nextId' \in Nat BY DEF TableKept, IInv, TypesOK
  <2>2. Placed(new) => t.id \in Ids /\ t.id < nextId BY <1>1, <1>2 DEF Fits, Placed, Halls, t
  <2> QED BY <1>2, <2>1, <2>2 DEF Ids
<1>6. new.pc = "broken" => rows'[new.id] = None \/ new.kind = "test" BY <1>2 DEF t
<1>7. ~Renames(new) BY <1>2 DEF Renames, Halls
<1>8. Moves(r, n) BY <1>2, <1>3, <1>4, <1>5, <1>6, <1>7 DEF Moves
<1> QED BY <1>8 DEF Advances

-----------------------------------------------------------------------------
(***************************************************************************)
(* Every step of a task                                                    *)
(***************************************************************************)

LEMMA FilterAdvances ==
  ASSUME IInv, NEW r \in Requests, NEW n \in Places, Filter(r, n)
  PROVE  Advances(r, n)
<1> DEFINE t == task[r][n]
           pc == IF Known(r, n) THEN "skipped" ELSE "waiting"
           new == [t EXCEPT !.pc = pc]
<1>1. t \in TaskRecord /\ Fits(t, r, n) /\ t.pc = "filter" BY OwnTask DEF Filter
<1>2. pc \in {"skipped", "waiting"} OBVIOUS
<1> HIDE DEF pc
<1>3. pc \in Pcs BY <1>2 DEF Pcs
<1>4. /\ new \in TaskRecord /\ new.pc = pc /\ new.kind = t.kind /\ new.id = t.id /\ new.type = t.type
      /\ new.cred = t.cred /\ new.acct = t.acct /\ new.saw = t.saw
  BY <1>1, <1>3, RecordMoved
<1>5. task' = [task EXCEPT ![r][n] = new] BY <1>1 DEF Filter, pc, IInv, TypesOK, TaskRecord
<1>6. TableKept /\ nextId' = nextId BY TableStays DEF Filter
<1> HIDE DEF new, t
<1>7. Shaped(new) BY <1>1, <1>2, <1>4 DEF Fits, Shaped
<1>8. Placed(new) => new.id \in Ids /\ new.id < nextId'
  BY <1>1, <1>2, <1>4, <1>6 DEF Fits, Placed, Past
<1>9. new.pc # "broken" /\ ~Renames(new) BY <1>2, <1>4 DEF Renames
<1>10. Moves(r, n) BY <1>4, <1>5, <1>7, <1>8, <1>9 DEF Moves
<1> QED BY <1>6, <1>10 DEF Advances, Filter

LEMMA BeginAdvances ==
  ASSUME IInv, NEW r \in Requests, NEW n \in Places, Begin(r, n)
  PROVE  Advances(r, n)
<1> DEFINE t == task[r][n]
           pc == Start(t.kind)
           new == [t EXCEPT !.pc = pc]
<1>1. t \in TaskRecord /\ Fits(t, r, n) /\ t.pc = "waiting" BY OwnTask DEF Begin
<1>2. /\ pc \in {"verify", "insert", "read"}
      /\ pc = "verify" <=> t.kind = "import"
      /\ pc = "insert" <=> t.kind = "importUnverified"
  BY <1>1 DEF Start, TaskRecord, Kinds
<1> HIDE DEF pc
<1>3. pc \in Pcs BY <1>2 DEF Pcs
<1>4. /\ new \in TaskRecord /\ new.pc = pc /\ new.kind = t.kind /\ new.id = t.id /\ new.type = t.type
      /\ new.cred = t.cred /\ new.acct = t.acct /\ new.saw = t.saw
  BY <1>1, <1>3, RecordMoved
<1>5. task' = [task EXCEPT ![r][n] = new] BY DEF Begin, Goto, Become, pc
<1>6. TableKept /\ nextId' = nextId BY TableStays DEF Begin
<1> HIDE DEF new, t
<1>7. None \notin Credentials BY AccountsAssumption DEF AccountsAssumption
<1>8. Shaped(new) BY <1>1, <1>2, <1>4, <1>7 DEF Fits, Shaped, Creating
<1>9. Placed(new) => new.id \in Ids /\ new.id < nextId'
  BY <1>1, <1>2, <1>4, <1>6 DEF Fits, Placed, Past
<1>10. new.pc # "broken" /\ ~Renames(new) BY <1>2, <1>4 DEF Renames
<1>11. Moves(r, n) BY <1>4, <1>5, <1>8, <1>9, <1>10 DEF Moves
<1> QED BY <1>6, <1>11 DEF Advances, Begin

LEMMA ReadAdvances ==
  ASSUME IInv, NEW r \in Requests, NEW n \in Places, ReadAccount(r, n)
  PROVE  Advances(r, n)
<1> DEFINE t == task[r][n]
           row == rows[t.id]
           pc == IF row = None
                 THEN IF t.kind = "testOne" THEN "deactivate"
                      ELSE IF t.kind \in {"deleteOne", "editOne"} THEN "error" ELSE "refused"
                 ELSE IF t.kind \in {"test", "testOne"} THEN "user"
                 ELSE IF t.kind # "update" THEN "audit"
                 ELSE IF t.cred # None THEN "verify"
                 ELSE IF row.type # t.type THEN "refused" ELSE "update"
           seen == [t EXCEPT !.saw = Seen(row)]
           new == [seen EXCEPT !.pc = pc]
<1>1. t \in TaskRecord /\ Fits(t, r, n) /\ t.pc = "read" BY OwnTask DEF ReadAccount, At
<1>2. t.kind \notin Creating /\ t.id \in Ids BY <1>1 DEF Fits, Shaped
<1>3. row \in Row \cup {None} BY <1>2, OwnTask
<1>4. Seen(row) \in SeenRow \cup {None} BY <1>3, SeenTyped DEF Seen
<1>5. seen \in TaskRecord /\ seen.saw = Seen(row) /\ seen.kind = t.kind /\ seen.id = t.id
      /\ seen.type = t.type /\ seen.cred = t.cred /\ seen.acct = t.acct
  BY <1>1, <1>4 DEF TaskRecord
<1>6. task' = [task EXCEPT ![r][n] = new] /\ cpu' = Holder(r, n, new.pc) BY DEF ReadAccount, Become
<1>7. /\ pc \notin {"none", "read", "filter", "waiting", "insert", "broken", "list", "setAccountId"}
      /\ pc \in {"user", "audit", "verify", "update"} => row # None
      /\ pc = "deactivate" => t.kind = "testOne"
      /\ pc = "user" => t.kind \in {"test", "testOne"}
      /\ pc \in {"verify", "update"} => t.kind = "update"
      /\ pc = "verify" => t.cred # None
      /\ pc = "update" => t.cred = None /\ row.type = t.type
  BY <1>3
<1>8. pc \in {"deactivate", "error", "refused", "user", "audit", "verify", "update"} OBVIOUS
<1>9. row # None => t.id < nextId BY <1>2 DEF IInv, RowsBelow
<1>10. row # None => Seen(row) \in SeenRow /\ Seen(row).type = row.type BY <1>3, SeenTyped
<1> HIDE DEF pc, row, seen
<1>11. pc \in Pcs BY <1>8 DEF Pcs
<1>12. /\ new \in TaskRecord /\ new.pc = pc /\ new.kind = t.kind /\ new.id = t.id /\ new.type = t.type
       /\ new.cred = t.cred /\ new.acct = t.acct /\ new.saw = Seen(row)
  BY <1>5, <1>11, RecordMoved
<1>13. TableKept /\ UNCHANGED <<rows, nextId, build>> BY TableStays DEF ReadAccount
<1> HIDE DEF new, t
<1>14. Shaped(new) BY <1>1, <1>2, <1>7, <1>8, <1>10, <1>12 DEF Fits, Shaped, Creating
<1>15. Placed(new) => new.id \in Ids /\ new.id < nextId'
  <2>1. t.kind = "testOne" => t.id < nextId BY <1>1 DEF Fits, Placed
  <2> QED BY <1>2, <1>7, <1>8, <1>9, <1>12, <1>13, <2>1 DEF Placed, Past
<1>16. build = "node" /\ Renames(new) =>
         cpu' = <<r, n>> /\ new.saw \in SeenRow /\ new.saw.type = new.type
         /\ (rows'[new.id] = None \/ rows'[new.id].type = new.type)
  BY <1>6, <1>7, <1>10, <1>12, <1>13 DEF Renames, Holder, Calls, Over, row
<1>17. Moves(r, n) BY <1>6, <1>7, <1>12, <1>14, <1>15, <1>16 DEF Moves
<1> QED BY <1>13, <1>17 DEF Advances, ReadAccount, At

LEMMA InsertAdvances ==
  ASSUME IInv, NEW r \in Requests, NEW n \in Places, Insert(r, n)
  PROVE  Advances(r, n)
<1> DEFINE t == task[r][n]
           importing == t.kind \in {"import", "importUnverified"}
           row == NewRow(t.cred, t.acct, IF importing THEN <<r, t.cred>> ELSE None)
           pc == Inserted(t.kind)
           new == [t EXCEPT !.id = nextId, !.pc = pc]
<1>1. t \in TaskRecord /\ Fits(t, r, n) /\ t.pc = "insert" BY OwnTask DEF Insert, At
<1>2. t.kind \in Creating /\ t.cred \in Credentials BY <1>1 DEF Fits, Shaped
<1>3. row \in Row
  <2>1. t.cred \in Tokens \/ t.cred \in Keys BY <1>2 DEF Credentials
  <2>2. (IF importing THEN <<r, t.cred>> ELSE None) \in (Requests \X Credentials) \cup {None} BY <1>2
  <2> QED BY <1>1, <2>1, <2>2 DEF NewRow, Row, TypeOf, TaskRecord
<1>4. CredOf(row) # None
  <2>1. None \notin Credentials BY AccountsAssumption DEF AccountsAssumption
  <2> QED BY <1>2, <2>1 DEF NewRow, CredOf, TypeOf, Credentials
<1>5. rows' = [rows EXCEPT ![nextId] = row] /\ nextId' = nextId + 1 /\ nextId \in Ids BY DEF Insert
<1>6. task' = [task EXCEPT ![r][n] = new] BY DEF Insert, Become
<1>7. pc \in {"park", "reread"} BY DEF Inserted
<1> HIDE DEF row, pc
<1>8. TableKept
  <2>1. rows \in [Ids -> Row \cup {None}] /\ nextId \in Nat BY DEF IInv, TypesOK
  <2>2. rows' \in [Ids -> Row \cup {None}] BY <1>3, <1>5, <2>1
  <2>3. nextId' \in Nat /\ nextId < nextId' BY <1>5, <2>1
  <2>4. \A i \in Ids \ {nextId} : rows'[i] = rows[i] BY <1>5, <2>1
  <2>5. \A i \in Ids : rows'[i] # None => i < nextId' BY <2>1, <2>3, <2>4 DEF IInv, RowsBelow, Ids
  <2>6. \A i \in Ids : i < nextId /\ rows[i] = None => rows'[i] = None BY <2>1, <2>4
  <2>7. build = "node" => \A i \in Ids : rows'[i] # None => CredOf(rows'[i]) # None
    <3>1. rows'[nextId] = row BY <1>5, <2>1
    <3> QED BY <1>4, <2>4, <3>1 DEF IInv, CredentialsPresent
  <2> QED BY <2>1, <2>2, <2>3, <2>5, <2>6, <2>7 DEF TableKept
<1>9. pc \in Pcs BY <1>7 DEF Pcs
<1>10. /\ new \in TaskRecord /\ new.pc = pc /\ new.kind = t.kind /\ new.id = nextId /\ new.type = t.type
       /\ new.cred = t.cred /\ new.acct = t.acct
  <2>1. nextId \in Nat BY DEF IInv, TypesOK
  <2>2. [t EXCEPT !.id = nextId] \in TaskRecord BY <1>1, <2>1 DEF TaskRecord
  <2> QED BY <1>1, <1>9, <2>2 DEF TaskRecord
<1> HIDE DEF new, t
<1>11. Shaped(new) BY <1>1, <1>2, <1>7, <1>10 DEF Fits, Shaped, Creating
<1>12. new.id \in Ids /\ new.id < nextId' BY <1>5, <1>10 DEF Ids
<1>13. new.pc # "broken" /\ ~Renames(new) BY <1>7, <1>10 DEF Renames
<1>14. Moves(r, n) BY <1>6, <1>10, <1>11, <1>12, <1>13 DEF Moves
<1> QED BY <1>8, <1>14 DEF Advances, Insert, At

LEMMA UpdateRowAdvances ==
  ASSUME IInv, NEW r \in Requests, NEW n \in Places, UpdateRow(r, n)
  PROVE  Advances(r, n)
<1> DEFINE t == task[r][n]
           row == rows[t.id]
<1>1. t \in TaskRecord /\ Fits(t, r, n) /\ t.pc = "update" BY OwnTask DEF UpdateRow, At
<1>2. t.id \in Ids /\ t.id < nextId BY <1>1 DEF Fits, Placed, Past
<1>3. row \in Row \cup {None} BY <1>2, OwnTask
<1>4. t.type \in {"token", "global_key"} /\ t.cred \in Tokens \cup Keys \cup {None}
  BY <1>1 DEF TaskRecord, Credentials
<1>5. ASSUME row # None
      PROVE  Edited(row, t) \in Row /\ (build = "node" => CredOf(Edited(row, t)) # None)
  <2>1. row \in Row BY <1>3, <1>5
  <2> HIDE DEF row, t
  <2>2. Edited(row, t) \in Row BY <1>4, <2>1 DEF Edited, Row
  <2>3. ASSUME build = "node" PROVE CredOf(Edited(row, t)) # None
    <3>1. CASE t.cred # None
      <4>1. TypeOf(t.cred) = t.type BY <1>1, <3>1 DEF Fits, Shaped, t
      <4>2. t.cred \in Tokens => t.cred \notin Keys BY AccountsAssumption DEF AccountsAssumption
      <4> QED BY <1>4, <2>1, <3>1, <4>1, <4>2 DEF TypeOf, Edited, CredOf, Row
    <3>2. CASE t.cred = None
      <4>1. t.saw.type = t.type /\ row.type = t.type
        BY <1>1, <1>5, <2>3, <3>2 DEF Fits, Renames, t, row
      <4>2. None \notin Tokens /\ None \notin Keys BY AccountsAssumption DEF AccountsAssumption, Credentials
      <4>3. CredOf(row) # None BY <1>2, <1>5, <2>3 DEF IInv, CredentialsPresent, row, t
      <4> QED BY <2>1, <3>2, <4>1, <4>2, <4>3 DEF Edited, CredOf, Row
    <3> QED BY <3>1, <3>2
  <2> QED BY <2>2, <2>3
<1>6. SetRow(t.id, Edited(row, t)) /\ UNCHANGED <<nextId, build>> BY DEF UpdateRow
<1>7. TableKept BY <1>2, <1>5, <1>6, SetRowKept
<1>8. "reread" \in Pcs \ Halls BY DEF Pcs, Halls
<1> QED BY <1>1, <1>2, <1>6, <1>7, <1>8, GotoAdvances DEF UpdateRow, At

LEMMA RereadAdvances ==
  ASSUME IInv, NEW r \in Requests, NEW n \in Places, Reread(r, n)
  PROVE  Advances(r, n)
<1> DEFINE t == task[r][n]
           row == rows[t.id]
           pc == IF row = None THEN IF t.kind = "update" THEN "broken" ELSE Route(t.kind).unlisted
                 ELSE IF t.kind = "update" /\ ~NeedsAccountId(t, row) THEN "audit" ELSE "list"
           seen == [t EXCEPT !.saw = Seen(row)]
           new == [seen EXCEPT !.pc = pc]
<1>1. t \in TaskRecord /\ Fits(t, r, n) /\ t.pc = "reread" BY OwnTask DEF Reread, At
<1>2. t.id \in Ids /\ t.id < nextId BY <1>1 DEF Fits, Placed, Past
<1>3. row \in Row \cup {None} BY <1>2, OwnTask
<1>4. Seen(row) \in SeenRow \cup {None} BY <1>3, SeenTyped DEF Seen
<1>5. seen \in TaskRecord /\ seen.saw = Seen(row) /\ seen.kind = t.kind /\ seen.id = t.id
      /\ seen.type = t.type /\ seen.cred = t.cred /\ seen.acct = t.acct
  BY <1>1, <1>4 DEF TaskRecord
<1>6. Route(t.kind).unlisted \in {"reprobe", "audit", "activate"} BY <1>1, RouteFields DEF TaskRecord
<1>7. /\ pc \in {"broken", "reprobe", "audit", "activate", "list"}
      /\ pc = "broken" => row = None
      /\ pc = "list" => row # None
  BY <1>6
<1>8. task' = [task EXCEPT ![r][n] = new] BY DEF Reread, Become
<1>9. row # None => Seen(row) \in SeenRow BY <1>3, SeenTyped
<1> HIDE DEF pc, seen
<1>10. pc \in Pcs BY <1>7 DEF Pcs
<1>11. /\ new \in TaskRecord /\ new.pc = pc /\ new.kind = t.kind /\ new.id = t.id /\ new.type = t.type
       /\ new.cred = t.cred /\ new.acct = t.acct /\ new.saw = Seen(row)
  BY <1>5, <1>10, RecordMoved
<1>12. TableKept /\ UNCHANGED <<rows, nextId, build>> BY TableStays DEF Reread
<1> HIDE DEF new, row, t
<1>13. Shaped(new) BY <1>1, <1>2, <1>7, <1>9, <1>11 DEF Fits, Shaped, Creating
<1>14. new.id \in Ids /\ new.id < nextId' BY <1>2, <1>11, <1>12
<1>15. new.pc = "broken" => rows'[new.id] = None BY <1>7, <1>11, <1>12 DEF row
<1>16. ~Renames(new) BY <1>7, <1>11 DEF Renames
<1>17. Moves(r, n) BY <1>8, <1>11, <1>13, <1>14, <1>15, <1>16 DEF Moves
<1> QED BY <1>12, <1>17 DEF Advances, Reread, At

\* An UPDATE of a column that is no credential.
LEMMA ColumnKept ==
  ASSUME IInv, NEW i \in Ids, NEW row, SetRow(i, row), UNCHANGED nextId,
         rows[i] # None => row \in Row /\ row.type = rows[i].type /\ row.token = rows[i].token
                           /\ row.key = rows[i].key
  PROVE  TableKept
<1>1. rows[i] # None => (build = "node" => CredOf(row) # None) BY DEF IInv, CredentialsPresent, CredOf
<1> QED BY <1>1, SetRowKept

LEMMA SetAccountIdAdvances ==
  ASSUME IInv, NEW r \in Requests, NEW n \in Places, SetAccountId(r, n)
  PROVE  Advances(r, n)
<1> DEFINE t == task[r][n]
           acct == CfOf[t.saw.cred]
           row == [rows[t.id] EXCEPT !.acct = acct]
<1>1. t \in TaskRecord /\ Fits(t, r, n) /\ t.pc = "setAccountId" BY OwnTask DEF SetAccountId, At
<1>2. t.id \in Ids /\ t.id < nextId BY <1>1 DEF Fits, Placed, Past
<1>3. t.saw.cred \in Credentials BY <1>1 DEF Fits, Shaped, SeenRow
<1>4. acct \in {CfOf[c] : c \in Credentials} BY <1>3
<1>5. rows[t.id] \in Row \cup {None} BY <1>2, OwnTask
<1>6. rows[t.id] # None => row \in Row /\ row.type = rows[t.id].type /\ row.token = rows[t.id].token
                           /\ row.key = rows[t.id].key
  <2> HIDE DEF acct
  <2> QED BY <1>4, <1>5 DEF Row
<1>7. SetRow(t.id, row) /\ UNCHANGED <<nextId, build>> BY DEF SetAccountId
<1>8. TableKept BY <1>2, <1>6, <1>7, ColumnKept
<1>9. "activate" \in Pcs \ Halls BY DEF Pcs, Halls
<1> QED BY <1>1, <1>2, <1>7, <1>8, <1>9, GotoAdvances DEF SetAccountId, At

\* is_active alone.
LEMMA ActiveKept ==
  ASSUME IInv, NEW i \in Ids, NEW b \in BOOLEAN, SetRow(i, [rows[i] EXCEPT !.active = b]), UNCHANGED nextId
  PROVE  TableKept
<1> DEFINE row == [rows[i] EXCEPT !.active = b]
<1>1. rows[i] \in Row \cup {None} BY OwnTask DEF IInv, TypesOK
<1>2. rows[i] # None => row \in Row /\ row.type = rows[i].type /\ row.token = rows[i].token
                        /\ row.key = rows[i].key
  BY <1>1 DEF Row
<1> QED BY <1>2, ColumnKept

LEMMA ActivateAdvances ==
  ASSUME IInv, NEW r \in Requests, NEW n \in Places, Activate(r, n)
  PROVE  Advances(r, n)
<1> DEFINE t == task[r][n]
<1>1. t \in TaskRecord /\ Fits(t, r, n) /\ t.pc = "activate" BY OwnTask DEF Activate, At
<1>2. t.id \in Ids /\ t.id < nextId BY <1>1 DEF Fits, Placed, Past
<1>3. TableKept BY <1>2, ActiveKept DEF Activate
<1>4. Route(t.kind).activated \in {"reprobe", "audit"} BY <1>1, RouteFields DEF TaskRecord
<1>5. Route(t.kind).activated \in Pcs \ Halls BY <1>4 DEF Pcs, Halls
<1> QED BY <1>1, <1>2, <1>3, <1>4, <1>5, GotoAdvances DEF Activate, At

LEMMA ParkAdvances ==
  ASSUME IInv, NEW r \in Requests, NEW n \in Places, Park(r, n)
  PROVE  Advances(r, n)
<1> DEFINE t == task[r][n]
<1>1. t \in TaskRecord /\ Fits(t, r, n) /\ t.pc = "park" BY OwnTask DEF Park, At
<1>2. t.id \in Ids /\ t.id < nextId BY <1>1 DEF Fits, Placed, Past
<1>3. TableKept BY <1>2, ActiveKept DEF Park
<1>4. "audit" \in Pcs \ Halls BY DEF Pcs, Halls
<1> QED BY <1>1, <1>2, <1>3, <1>4, GotoAdvances DEF Park, At

LEMMA DeactivateAdvances ==
  ASSUME IInv, NEW r \in Requests, NEW n \in Places, Deactivate(r, n)
  PROVE  Advances(r, n)
<1> DEFINE t == task[r][n]
<1>1. t \in TaskRecord /\ Fits(t, r, n) /\ t.pc = "deactivate" BY OwnTask DEF Deactivate, At
<1>2. t.id \in Ids /\ t.id < nextId BY <1>1 DEF Fits, Placed, Past
<1>3. TableKept BY <1>2, ActiveKept DEF Deactivate
<1>4. "auditError" \in Pcs \ Halls BY DEF Pcs, Halls
<1> QED BY <1>1, <1>2, <1>3, <1>4, GotoAdvances DEF Deactivate, At

LEMMA AuditErrorAdvances ==
  ASSUME IInv, NEW r \in Requests, NEW n \in Places, AuditError(r, n)
  PROVE  Advances(r, n)
<1> DEFINE t == task[r][n]
           pc == IF rows[t.id] = None THEN "broken" ELSE "error"
<1>1. t \in TaskRecord /\ Fits(t, r, n) /\ t.pc = "auditError" BY OwnTask DEF AuditError, At
<1>2. t.id \in Ids /\ t.id < nextId BY <1>1 DEF Fits, Placed, Past
<1>3. TableKept /\ UNCHANGED <<rows, build>> BY TableStays DEF AuditError
<1>4. pc \in {"broken", "error"} /\ (pc = "broken" => rows[t.id] = None) OBVIOUS
<1>5. Goto(r, n, pc) BY DEF AuditError
<1> HIDE DEF pc
<1>6. pc \in Pcs \ Halls BY <1>4 DEF Pcs, Halls
<1> QED BY <1>1, <1>2, <1>3, <1>4, <1>5, <1>6, GotoAdvances DEF AuditError, At

LEMMA AuditAdvances ==
  ASSUME IInv, NEW r \in Requests, NEW n \in Places, Audit(r, n)
  PROVE  Advances(r, n)
<1> DEFINE t == task[r][n]
           pc == IF rows[t.id] = None THEN Route(t.kind).unlogged
                 ELSE IF t.kind = "update" /\ t.cred # None THEN "reprobe" ELSE Route(t.kind).logged
<1>1. t \in TaskRecord /\ Fits(t, r, n) /\ t.pc = "audit" BY OwnTask DEF Audit, At
<1>2. t.id \in Ids /\ t.id < nextId BY <1>1 DEF Fits, Placed, Past
<1>3. TableKept /\ UNCHANGED <<rows, build>> BY TableStays DEF Audit
<1>4. /\ Route(t.kind).unlogged \in {"broken", "deactivate", "error"}
      /\ Route(t.kind).logged \in {"success", "remove"}
  BY <1>1, RouteFields DEF TaskRecord
<1>5. /\ pc \in {"broken", "deactivate", "error", "reprobe", "success", "remove"}
      /\ pc = "broken" => rows[t.id] = None
  BY <1>4
<1>6. Goto(r, n, pc) BY DEF Audit
<1> HIDE DEF pc
<1>7. pc \in Pcs \ Halls BY <1>5 DEF Pcs, Halls
<1> QED BY <1>1, <1>2, <1>3, <1>5, <1>6, <1>7, GotoAdvances DEF Audit, At

LEMMA RemoveAdvances ==
  ASSUME IInv, NEW r \in Requests, NEW n \in Places, Remove(r, n)
  PROVE  Advances(r, n)
<1> DEFINE t == task[r][n]
<1>1. t \in TaskRecord /\ Fits(t, r, n) /\ t.pc = "remove" BY OwnTask DEF Remove, At
<1>2. t.id \in Ids /\ t.id < nextId BY <1>1 DEF Fits, Placed, Past
<1>3. rows' = [rows EXCEPT ![t.id] = None] /\ UNCHANGED <<nextId, build>> BY DEF Remove
<1>4. TableKept
  <2> HIDE DEF t
  <2>1. rows \in [Ids -> Row \cup {None}] /\ nextId \in Nat BY DEF IInv, TypesOK
  <2>2. rows' \in [Ids -> Row \cup {None}] BY <1>3, <2>1
  <2>3. \A i \in Ids : rows'[i] = None \/ rows'[i] = rows[i] BY <1>3, <2>1
  <2> QED BY <1>3, <2>1, <2>2, <2>3 DEF TableKept, IInv, RowsBelow, CredentialsPresent
<1>5. "success" \in Pcs \ Halls BY DEF Pcs, Halls
<1> QED BY <1>1, <1>2, <1>3, <1>4, <1>5, GotoAdvances DEF Remove, At

LEMMA ReprobeAdvances ==
  ASSUME IInv, NEW r \in Requests, NEW n \in Places, Reprobe(r, n)
  PROVE  Advances(r, n)
<1> DEFINE t == task[r][n]
           pc == IF rows[t.id] = None THEN Route(t.kind).probed ELSE "probe"
<1>1. t \in TaskRecord /\ Fits(t, r, n) /\ t.pc = "reprobe" BY OwnTask DEF Reprobe, At
<1>2. t.id \in Ids /\ t.id < nextId BY <1>1 DEF Fits, Placed, Past
<1>3. TableKept /\ UNCHANGED <<rows, build>> BY TableStays DEF Reprobe
<1>4. Route(t.kind).probed \in {"audit", "success"} BY <1>1, RouteFields DEF TaskRecord
<1>5. pc \in {"audit", "success", "probe"} BY <1>4
<1>6. Goto(r, n, pc) BY DEF Reprobe
<1> HIDE DEF pc
<1>7. pc \in Pcs \ Halls BY <1>5 DEF Pcs, Halls
<1> QED BY <1>1, <1>2, <1>3, <1>5, <1>6, <1>7, GotoAdvances DEF Reprobe, At

LEMMA VerifyAdvances ==
  ASSUME IInv, NEW r \in Requests, NEW n \in Places, Verify(r, n)
  PROVE  Advances(r, n)
<1> DEFINE t == task[r][n]
<1>1. t \in TaskRecord /\ Fits(t, r, n) /\ t.pc = "verify" BY OwnTask DEF Verify, At
<1>2. t.kind \in {"create", "update", "import"} /\ t.cred # None BY <1>1 DEF Fits, Shaped
<1>3. PICK pc \in {"update", "insert", "error", "refused"} :
        /\ Goto(r, n, pc)
        /\ pc = "update" => t.kind = "update"
        /\ pc = "insert" => t.kind # "update"
  BY DEF Verify, Replied, Failed
<1>4. TableKept /\ UNCHANGED <<rows, nextId, build>> BY TableStays DEF Verify, Replied, Failed
<1> DEFINE new == [t EXCEPT !.pc = pc]
<1>5. pc \in Pcs BY DEF Pcs
<1>6. /\ new \in TaskRecord /\ new.pc = pc /\ new.kind = t.kind /\ new.id = t.id /\ new.type = t.type
      /\ new.cred = t.cred /\ new.acct = t.acct /\ new.saw = t.saw
  BY <1>1, <1>5, RecordMoved
<1>7. task' = [task EXCEPT ![r][n] = new] BY <1>3 DEF Goto, Become
<1> HIDE DEF new, t
<1>8. Shaped(new) BY <1>1, <1>2, <1>3, <1>6 DEF Fits, Shaped, Creating
<1>9. Placed(new) => new.id \in Ids /\ new.id < nextId'
  BY <1>1, <1>2, <1>3, <1>4, <1>6 DEF Fits, Placed, Past
<1>10. new.pc # "broken" /\ ~Renames(new) BY <1>2, <1>6 DEF Renames
<1>11. Moves(r, n) BY <1>6, <1>7, <1>8, <1>9, <1>10 DEF Moves
<1> QED BY <1>4, <1>11 DEF Advances, Verify, At

LEMMA UserAdvances ==
  ASSUME IInv, NEW r \in Requests, NEW n \in Places, User(r, n)
  PROVE  Advances(r, n)
<1> DEFINE t == task[r][n]
<1>1. t \in TaskRecord /\ Fits(t, r, n) /\ t.pc = "user" BY OwnTask DEF User, At
<1>2. /\ t.id \in Ids /\ t.id < nextId /\ t.saw \in SeenRow
      /\ t.kind \in {"test", "testOne"}
  BY <1>1 DEF Fits, Shaped, Placed, Past
<1>3. PICK pc \in {"list", "activate", "deactivate", "broken"} :
        Goto(r, n, pc) /\ (pc = "broken" => t.kind # "testOne")
  BY DEF User, Replied, Failed, Untested
<1>4. TableKept /\ UNCHANGED <<rows, build>> BY TableStays DEF User, Replied, Failed
<1>5. pc \in Pcs \ Halls BY DEF Pcs, Halls
<1>6. cpu \in {None, <<r, n>>, <<r, 0>>} BY DEF User, At
<1> QED BY <1>1, <1>2, <1>3, <1>4, <1>5, <1>6, GotoAdvances

LEMMA ListAdvances ==
  ASSUME IInv, NEW r \in Requests, NEW n \in Places, List(r, n)
  PROVE  Advances(r, n)
<1> DEFINE t == task[r][n]
<1>1. t \in TaskRecord /\ Fits(t, r, n) /\ t.pc = "list" BY OwnTask DEF List, At
<1>2. t.id \in Ids /\ t.id < nextId /\ t.saw \in SeenRow BY <1>1 DEF Fits, Shaped, Placed, Past
<1>3. Route(t.kind).unlisted \in {"reprobe", "audit", "activate"} BY <1>1, RouteFields DEF TaskRecord
<1>4. PICK pc \in {"setAccountId", "activate", "reprobe", "audit"} :
        Goto(r, n, pc) /\ (pc = "setAccountId" => t.saw.cred # None)
  BY <1>3 DEF List, Replied, Failed
<1>5. TableKept /\ UNCHANGED <<rows, build>> BY TableStays DEF List, Replied, Failed
<1>6. pc \in Pcs \ Halls BY DEF Pcs, Halls
<1>7. cpu \in {None, <<r, n>>, <<r, 0>>} BY DEF List, At
<1> QED BY <1>1, <1>2, <1>4, <1>5, <1>6, <1>7, GotoAdvances

LEMMA ProbeAdvances ==
  ASSUME IInv, NEW r \in Requests, NEW n \in Places, Probe(r, n)
  PROVE  Advances(r, n)
<1> DEFINE t == task[r][n]
           pc == Route(t.kind).probed
<1>1. t \in TaskRecord /\ Fits(t, r, n) /\ t.pc = "probe" BY OwnTask DEF Probe, At
<1>2. t.id \in Ids /\ t.id < nextId BY <1>1 DEF Fits, Placed, Past
<1>3. TableKept /\ UNCHANGED <<rows, build>> BY TableStays DEF Probe, Failed
<1>4. pc \in {"audit", "success"} BY <1>1, RouteFields DEF TaskRecord
<1>5. Goto(r, n, pc) BY DEF Probe, Failed
<1> HIDE DEF pc
<1>6. pc \in Pcs \ Halls BY <1>4 DEF Pcs, Halls
<1> QED BY <1>1, <1>2, <1>3, <1>4, <1>5, <1>6, GotoAdvances DEF Probe, At

LEMMA StepAdvances ==
  ASSUME IInv, NEW r \in Requests, NEW n \in Places, Step(r, n)
  PROVE  Advances(r, n)
BY FilterAdvances, BeginAdvances, ReadAdvances, InsertAdvances, UpdateRowAdvances, RereadAdvances,
   SetAccountIdAdvances, ActivateAdvances, ParkAdvances, DeactivateAdvances, AuditErrorAdvances, AuditAdvances,
   RemoveAdvances, ReprobeAdvances, VerifyAdvances, UserAdvances, ListAdvances, ProbeAdvances DEF Step

-----------------------------------------------------------------------------
(***************************************************************************)
(* The arrival of a request                                                *)
(***************************************************************************)

\* A task as a request starts it.
Fresh(t) ==
  /\ t \in TaskRecord
  /\ Shaped(t)
  /\ t.pc \in {"none", "read", "verify", "filter", "waiting"} /\ ~(t.kind = "update" /\ t.pc = "verify")
  /\ t.kind = "testOne" => t.id \in Ids /\ t.id < nextId
  /\ t.kind \in Importing => t.pc = "filter"

LEMMA SubmitPreserves ==
  ASSUME IInv, NEW r \in Requests, NEW m, NEW tasks \in [Places -> TaskRecord], Submit(r, m, tasks),
         \A n \in Places : Fresh(tasks[n])
  PROVE  IInv' /\ TableKept
<1>1. TableKept /\ UNCHANGED <<rows, nextId, build>> /\ cpu = None BY TableStays DEF Submit
<1>2. task' = [task EXCEPT ![r] = tasks] BY DEF Submit
<1>3. TypesOK' BY <1>1, <1>2 DEF IInv, TypesOK
<1>4. RowsBelow' /\ CredentialsPresent'
  BY <1>1 DEF TableKept, RowsBelow, CredentialsPresent, CredOf
<1>5. ASSUME NEW p \in Requests, NEW q \in Places
      PROVE  Fits(task[p][q], p, q)'
  <2>1. CASE p = r
    <3>1. task'[p][q] = tasks[q] BY <1>2, <2>1 DEF IInv, TypesOK
    <3>2. Fresh(tasks[q]) OBVIOUS
    <3>3. ~Renames(tasks[q]) /\ tasks[q].pc # "broken" BY <3>2 DEF Fresh, Renames
    <3>4. Placed(tasks[q]) => tasks[q].id \in Ids /\ tasks[q].id < nextId
      BY <3>2 DEF Fresh, Placed, Past
    <3> QED BY <1>1, <3>1, <3>2, <3>3, <3>4 DEF Fits, Fresh, Shaped, Placed, Renames
  <2>2. CASE p # r
    <3>1. task'[p][q] = task[p][q] BY <1>2, <2>2 DEF IInv, TypesOK
    <3>2. Fits(task[p][q], p, q) BY DEF IInv
    <3>3. cpu # <<p, q>> BY <1>1, AccountsAssumption DEF AccountsAssumption
    <3> QED BY <1>1, <3>1, <3>2, <3>3 DEF Fits, Shaped, Placed, Renames
  <2> QED BY <2>1, <2>2
<1> QED BY <1>1, <1>3, <1>4, <1>5 DEF IInv

LEMMA TaskTyped ==
  ASSUME NEW kind \in Kinds, NEW pc \in Pcs, NEW id \in Nat, NEW type \in {"token", "global_key"},
         NEW c \in Credentials \cup {None}
  PROVE  /\ Task(kind, pc, id, type, c) \in TaskRecord
         /\ Task(kind, pc, id, type, c).kind = kind /\ Task(kind, pc, id, type, c).pc = pc
         /\ Task(kind, pc, id, type, c).id = id /\ Task(kind, pc, id, type, c).type = type
         /\ Task(kind, pc, id, type, c).cred = c /\ Task(kind, pc, id, type, c).acct = None
BY DEF Task, TaskRecord

LEMMA NoTaskFresh == Fresh(NoTask)
<1>1. "edit" \in Kinds /\ "none" \in Pcs /\ 0 \in Nat BY DEF Kinds, Pcs
<1>2. /\ NoTask \in TaskRecord /\ NoTask.kind = "edit" /\ NoTask.pc = "none"
  BY <1>1, TaskTyped DEF NoTask
<1> QED BY <1>2 DEF Fresh, Shaped, Creating, Importing

LEMMA AloneFresh ==
  ASSUME NEW t, Fresh(t)
  PROVE  Alone(t) \in [Places -> TaskRecord] /\ \A n \in Places : Fresh(Alone(t)[n])
BY NoTaskFresh DEF Alone, Fresh

\* A request about one account that exists or not.
LEMMA ReadFresh ==
  ASSUME NEW kind \in Kinds \ (Creating \cup {"testOne"}), NEW i \in Ids, NEW type \in {"token", "global_key"},
         NEW c \in Credentials \cup {None}, kind = "update" /\ c # None => TypeOf(c) = type
  PROVE  Fresh(Task(kind, "read", i, type, c))
<1>1. "read" \in Pcs /\ i \in Nat BY DEF Pcs, Ids
<1> DEFINE t == Task(kind, "read", i, type, c)
<1>2. t \in TaskRecord /\ t.kind = kind /\ t.pc = "read" /\ t.id = i /\ t.type = type /\ t.cred = c
  BY <1>1, TaskTyped
<1> HIDE DEF t
<1>3. Fresh(t) BY <1>2 DEF Fresh, Shaped, Creating, Importing
<1> QED BY <1>3 DEF t

\* A batch over accounts; those it tests were there.
LEMMA EachFresh ==
  ASSUME NEW ids \in SUBSET Ids, NEW kind \in {"testOne", "deleteOne", "editOne"}, NEW f \in Each(ids, kind),
         kind = "testOne" => \A i \in ids : i < nextId
  PROVE  f \in [Places -> TaskRecord] /\ \A n \in Places : Fresh(f[n])
<1>1. f \in [Places -> {NoTask} \cup {Task(kind, "waiting", i, "token", None) : i \in ids}] BY DEF Each
<1>2. ASSUME NEW i \in ids PROVE Fresh(Task(kind, "waiting", i, "token", None))
  <2> DEFINE t == Task(kind, "waiting", i, "token", None)
  <2>1. "waiting" \in Pcs /\ i \in Nat /\ kind \in Kinds BY DEF Pcs, Ids, Kinds
  <2>2. t \in TaskRecord /\ t.kind = kind /\ t.pc = "waiting" /\ t.id = i
    BY <2>1, TaskTyped
  <2> HIDE DEF t
  <2>3. Fresh(t) BY <2>2 DEF Fresh, Shaped, Creating, Importing
  <2> QED BY <2>3 DEF t
<1>3. ASSUME NEW n \in Places PROVE Fresh(f[n])
  <2>1. CASE f[n] = NoTask BY <2>1, NoTaskFresh
  <2>2. CASE f[n] # NoTask
    <3>1. PICK i \in ids : f[n] = Task(kind, "waiting", i, "token", None) BY <1>1, <2>2
    <3> QED BY <1>2, <3>1
  <2> QED BY <2>1, <2>2
<1>4. f \in [Places -> TaskRecord] BY <1>1, <1>3 DEF Fresh
<1> QED BY <1>3, <1>4

\* Every request arrives with tasks that are fresh, where there were none.
LEMMA ArriveSubmits ==
  ASSUME IInv, NEW r \in Requests, Arrive(r)
  PROVE  /\ reply[r] = "unsent"
         /\ \E m \in {"alone", "together", "serial"}, tasks \in [Places -> TaskRecord] :
              Submit(r, m, tasks) /\ \A n \in Places : Fresh(tasks[n])
<1>0. reply[r] = "unsent"
  BY DEF Arrive, SubmitPost, SubmitPut, SubmitTest, SubmitDelete, SubmitEdit, SubmitTestBatch, SubmitDeleteBatch,
         SubmitEditBatch, SubmitImport
<1>1. CASE SubmitPost(r)
  <2>1. PICK c \in Credentials, acct \in {CfOf[d] : d \in Credentials} \cup {None} :
          Submit(r, "alone", Alone([Task("create", "verify", 0, TypeOf(c), c) EXCEPT !.acct = acct]))
    BY <1>1 DEF SubmitPost
  <2> DEFINE s == Task("create", "verify", 0, TypeOf(c), c)
             t == [s EXCEPT !.acct = acct]
  <2>2. "create" \in Kinds /\ "verify" \in Pcs /\ 0 \in Nat /\ TypeOf(c) \in {"token", "global_key"}
    BY DEF Kinds, Pcs, TypeOf
  <2>3. t \in TaskRecord /\ t.kind = "create" /\ t.pc = "verify" /\ t.cred = c
    <3>1. s \in TaskRecord /\ s.kind = "create" /\ s.pc = "verify" /\ s.cred = c BY <2>2, TaskTyped
    <3> HIDE DEF s
    <3> QED BY <3>1 DEF TaskRecord
  <2>4. c # None BY AccountsAssumption DEF AccountsAssumption
  <2> HIDE DEF t
  <2>5. Fresh(t) BY <2>3, <2>4 DEF Fresh, Shaped, Creating, Importing
  <2>6. Alone(t) \in [Places -> TaskRecord] /\ \A n \in Places : Fresh(Alone(t)[n]) BY <2>5, AloneFresh
  <2>7. Submit(r, "alone", Alone(t)) BY <2>1 DEF t
  <2> QED BY <2>6, <2>7, <1>0
<1>2. CASE SubmitPut(r)
  <2>1. PICK i \in Ids \ DemoIds, type \in {"token", "global_key"}, c \in Credentials \cup {None} :
          /\ c # None => TypeOf(c) = type
          /\ Submit(r, "alone", Alone(Task("update", "read", i, type, c)))
    BY <1>2 DEF SubmitPut
  <2> DEFINE t == Task("update", "read", i, type, c)
  <2>2. "update" \in Kinds \ (Creating \cup {"testOne"}) BY DEF Kinds, Creating
  <2>3. Fresh(t) BY <2>1, <2>2, ReadFresh
  <2> HIDE DEF t
  <2>4. Alone(t) \in [Places -> TaskRecord] /\ \A n \in Places : Fresh(Alone(t)[n]) BY <2>3, AloneFresh
  <2>5. Submit(r, "alone", Alone(t)) BY <2>1 DEF t
  <2> QED BY <2>4, <2>5, <1>0
<1>3. CASE SubmitTest(r) \/ SubmitDelete(r) \/ SubmitEdit(r)
  <2>1. PICK kind \in {"test", "delete", "edit"}, i \in Ids :
          Submit(r, "alone", Alone(Task(kind, "read", i, "token", None)))
    BY <1>3 DEF SubmitTest, SubmitDelete, SubmitEdit
  <2> DEFINE t == Task(kind, "read", i, "token", None)
  <2>2. kind \in Kinds \ (Creating \cup {"testOne"}) /\ kind # "update" BY DEF Kinds, Creating
  <2>3. Fresh(t) BY <2>2, ReadFresh
  <2> HIDE DEF t
  <2>4. Alone(t) \in [Places -> TaskRecord] /\ \A n \in Places : Fresh(Alone(t)[n]) BY <2>3, AloneFresh
  <2>5. Submit(r, "alone", Alone(t)) BY <2>1 DEF t
  <2> QED BY <2>4, <2>5, <1>0
<1>4. CASE SubmitTestBatch(r)
  <2>1. PICK onlyUnverified \in BOOLEAN :
          \E tasks \in Each({i \in Ids \ DemoIds : rows[i] # None /\ (onlyUnverified => ~rows[i].active)}, "testOne") :
            Submit(r, "together", tasks)
    BY <1>4 DEF SubmitTestBatch
  <2> DEFINE targets == {i \in Ids \ DemoIds : rows[i] # None /\ (onlyUnverified => ~rows[i].active)}
  <2>2. targets \in SUBSET Ids /\ \A i \in targets : i < nextId BY DEF IInv, RowsBelow
  <2>3. PICK tasks \in Each(targets, "testOne") : Submit(r, "together", tasks) BY <2>1
  <2> HIDE DEF targets
  <2>4. tasks \in [Places -> TaskRecord] /\ \A n \in Places : Fresh(tasks[n]) BY <2>2, EachFresh
  <2> QED BY <2>3, <2>4, <1>0
<1>5. CASE SubmitDeleteBatch(r) \/ SubmitEditBatch(r)
  <2>1. PICK ids \in SUBSET Ids, kind \in {"deleteOne", "editOne"} :
          \E tasks \in Each(ids, kind) : Submit(r, "serial", tasks)
    BY <1>5 DEF SubmitDeleteBatch, SubmitEditBatch
  <2>2. PICK tasks \in Each(ids, kind) : Submit(r, "serial", tasks) BY <2>1
  <2>3. tasks \in [Places -> TaskRecord] /\ \A n \in Places : Fresh(tasks[n]) BY EachFresh
  <2> QED BY <2>2, <2>3, <1>0
<1>6. CASE SubmitImport(r)
  <2>1. PICK file \in Files, kind \in {"import", "importUnverified"} :
          Submit(r, "together",
            [n \in Places |-> IF n \in DOMAIN file THEN Task(kind, "filter", 0, TypeOf(file[n]), file[n]) ELSE NoTask])
    BY <1>6 DEF SubmitImport
  <2> DEFINE tasks == [n \in Places |->
               IF n \in DOMAIN file THEN Task(kind, "filter", 0, TypeOf(file[n]), file[n]) ELSE NoTask]
  <2>2. ASSUME NEW n \in Places PROVE Fresh(tasks[n])
    <3>1. CASE n \in DOMAIN file
      <4> DEFINE t == Task(kind, "filter", 0, TypeOf(file[n]), file[n])
      <4>1. file[n] \in Credentials BY <3>1, AccountsAssumption DEF AccountsAssumption
      <4>2. kind \in Kinds /\ "filter" \in Pcs /\ 0 \in Nat /\ TypeOf(file[n]) \in {"token", "global_key"}
        BY DEF Kinds, Pcs, TypeOf
      <4>3. t \in TaskRecord /\ t.kind = kind /\ t.pc = "filter" /\ t.cred = file[n] /\ t.acct = None
        BY <4>1, <4>2, TaskTyped
      <4>4. tasks[n] = t BY <3>1
      <4> HIDE DEF t, tasks
      <4>5. Fresh(t) BY <4>1, <4>3 DEF Fresh, Shaped, Creating, Importing
      <4> QED BY <4>4, <4>5
    <3>2. CASE n \notin DOMAIN file
      <4>1. tasks[n] = NoTask BY <3>2
      <4> HIDE DEF tasks
      <4> QED BY <4>1, NoTaskFresh
    <3> QED BY <3>1, <3>2
  <2>3. tasks \in [Places -> TaskRecord] BY <2>2 DEF Fresh
  <2>4. Submit(r, "together", tasks) BY <2>1
  <2> HIDE DEF tasks
  <2> QED BY <2>2, <2>3, <2>4, <1>0
<1> QED BY <1>0, <1>1, <1>2, <1>3, <1>4, <1>5, <1>6 DEF Arrive

LEMMA ArrivePreserves ==
  ASSUME IInv, NEW r \in Requests, Arrive(r)
  PROVE  IInv' /\ TableKept
BY ArriveSubmits, SubmitPreserves

-----------------------------------------------------------------------------
(***************************************************************************)
(* The invariant and what follows                                          *)
(***************************************************************************)

LEMMA InitIInv == ASSUME Init PROVE IInv
<1>1. rows \in Tables /\ task = [r \in Requests |-> [n \in Places |-> NoTask]] BY DEF Init
<1>2. rows \in [Ids -> Row \cup {None}] /\ CredentialsPresent
  BY <1>1, TablesAssumption DEF TablesAssumption, CredentialsPresent
<1>3. nextId \in Nat /\ RowsBelow BY DEF Init, RowsBelow, Ids
<1>4. Fresh(NoTask) BY NoTaskFresh
<1>5. NoTask.pc = "none" BY DEF NoTask, Task
<1>6. TypesOK BY <1>1, <1>2, <1>3, <1>4 DEF TypesOK, Fresh
<1>7. \A r \in Requests, n \in Places : task[r][n] = NoTask BY <1>1
<1>8. Placed(NoTask) => NoTask.id \in Ids /\ NoTask.id < nextId BY <1>4, <1>5 DEF Fresh, Placed, Past
<1>9. \A r \in Requests, n \in Places : Fits(task[r][n], r, n)
  BY <1>4, <1>5, <1>7, <1>8 DEF Fits, Fresh, Renames
<1> QED BY <1>2, <1>3, <1>6, <1>9 DEF IInv

\* One step: the invariant and the table.
LEMMA NextPreserves == ASSUME IInv, [Next]_vars PROVE IInv' /\ TableKept
<1>1. CASE Next
  <2>1. PICK r \in Requests : Arrive(r) \/ Answer(r) \/ \E n \in Places : Step(r, n) BY <1>1 DEF Next
  <2>2. CASE Arrive(r) BY <2>2, ArrivePreserves
  <2>3. CASE Answer(r)
    <3>1. UNCHANGED <<build, rows, nextId, task, cpu>> BY <2>3 DEF Answer
    <3> QED BY <3>1, TableStays DEF IInv, TypesOK, RowsBelow, CredentialsPresent, Fits
  <2>4. CASE \E n \in Places : Step(r, n)
    <3>1. PICK n \in Places : Step(r, n) BY <2>4
    <3>2. Advances(r, n) BY <3>1, StepAdvances
    <3> QED BY <3>2, AdvancePreserves DEF Advances
  <2> QED BY <2>1, <2>2, <2>3, <2>4
<1>2. CASE UNCHANGED vars
  <2>1. UNCHANGED <<build, rows, nextId, task, cpu>> BY <1>2 DEF vars
  <2> QED BY <2>1, TableStays DEF IInv, TypesOK, RowsBelow, CredentialsPresent, Fits
<1> QED BY <1>1, <1>2

LEMMA Invariant == Spec => []IInv
<1>1. Init => IInv BY InitIInv
<1>2. IInv /\ [Next]_vars => IInv' BY NextPreserves
<1> QED BY <1>1, <1>2, PTL DEF Spec

\* On the server every account has the credential its auth_type needs, whatever requests run at once:
\* routes/accounts.ts reads the row and writes it without a call in between when no credential is given.
THEOREM CredentialKept == Spec => []CredentialsPresent
<1>1. IInv => CredentialsPresent BY DEF IInv
<1> QED BY <1>1, Invariant, PTL

\* Accounts, batches of tests and imports fail with an error of the server only where the account was
\* deleted meanwhile: addAuditLog violates its foreign key, or a row read again is not there.  The test of
\* one account (POST /accounts/:id/test) also does where Cloudflare refuses it: nothing catches that.
THEOREM FaultsKnown == Spec => []FaultsExplained
<1>1. IInv => FaultsExplained BY DEF IInv, FaultsExplained, Tasks, Fits
<1> QED BY <1>1, Invariant, PTL

\* No UPDATE and no INSERT of any handler brings a deleted account back or gives its id away.
THEOREM DeletedForGood == Spec => GoneStaysGone
<1>1. IInv /\ [Next]_vars => [\A i \in Ids : i < nextId /\ rows[i] = None => rows'[i] = None]_vars
  BY NextPreserves DEF TableKept
<1> QED BY <1>1, Invariant, PTL DEF Spec, GoneStaysGone

-----------------------------------------------------------------------------
(***************************************************************************)
(* Whose credentials an account holds, whose account_id, and which import  *)
(* made it.  The strengthening says what a task knows where it is: that    *)
(* its credentials have served, that the row it saw has still those        *)
(* credentials or others that have served, and which lines go ahead.       *)
(***************************************************************************)
After == {"park", "reread", "list", "setAccountId", "activate", "audit", "success"}

\* A request that has not come has no tasks.
Replies ==
  /\ reply \in [Requests -> {"unsent", "open", "failed", "answered"}]
  /\ \A r \in Requests : reply[r] = "unsent" => \A n \in Places : task[r][n].pc = "none"

Vetted(c) == c \in verified \cup {None}

\* What a task has verified by the time it writes.
Proven(t) ==
  /\ t.pc = "insert" /\ t.kind \in {"create", "import"} => t.cred \in verified
  /\ t.pc = "update" => Vetted(t.cred)
  /\ t.pc \in {"setAccountId", "activate"} => t.saw \in SeenRow /\ t.saw.cred \in verified
  /\ t.pc = "list" /\ t.kind \in {"test", "testOne"} => t.saw.cred \in verified
  /\ t.pc = "reread" => t.kind \in Creating \cup {"update"}
  /\ t.pc = "list" => t.kind \in Creating \cup {"update", "test", "testOne"}
  /\ t.kind = "update" /\ t.pc \in {"verify", "update"} => t.saw \in SeenRow
  /\ t.kind = "update" /\ t.pc = "update" /\ t.cred = None => t.saw.type = t.type

\* The row may have changed since the task saw it, but only to credentials that have served.
Current(t) ==
  /\ t.pc \in {"user", "list", "setAccountId", "activate"} /\ rows[t.id] # None
       => CredOf(rows[t.id]) = t.saw.cred \/ Vetted(CredOf(rows[t.id]))
  /\ t.kind = "update" /\ t.pc \in {"verify", "update"} /\ rows[t.id] # None /\ t.saw.type # rows[t.id].type
       => Vetted(rows[t.id].token) /\ Vetted(rows[t.id].key)

\* The lines of an import: of those with one credential, only the first goes ahead.
InLine(t) == t.kind \in Importing => t.pc \in {"filter", "waiting", "skipped", "verify", "insert", "error"} \cup After

Apart(r) ==
  \A m, n \in Places :
    /\ m < n /\ task[r][m].cred = task[r][n].cred
    /\ task[r][m].kind \in Importing /\ task[r][n].kind \in Importing
    => task[r][n].pc \in {"filter", "skipped"}

\* The line that made an account.
Brings(t, i, c) == t.kind \in Importing /\ t.cred = c /\ t.id = i /\ t.pc \in After

Origin(i) ==
  rows[i] # None /\ rows[i].from # None =>
    \E n \in Places : Brings(task[rows[i].from[1]][n], i, rows[i].from[2])

\* The parts of ActiveVerified and AccountIdOwn that are about the account i.
InUse(i) ==
  rows[i] # None /\ rows[i].active /\ CredOf(rows[i]) # None =>
    CredOf(rows[i]) \in verified \/ \E t \in Tasks : t.id = i /\ t.pc = "park"

Own(i) ==
  rows[i] # None /\ rows[i].acct # None /\ CredOf(rows[i]) # None =>
    rows[i].acct = CfOf[CredOf(rows[i])] \/ i \in astray \/ Refreshing(i)

Told == \A r \in Requests, n \in Places : Proven(task[r][n]) /\ Current(task[r][n]) /\ InLine(task[r][n])

Grounded ==
  /\ Replies
  /\ Told
  /\ \A r \in Requests : Apart(r)
  /\ \A i \in Ids : InUse(i) /\ Own(i) /\ Origin(i)

-----------------------------------------------------------------------------
(***************************************************************************)
(* What every step of a task has in common                                 *)
(***************************************************************************)
Same(u, t) == u.kind = t.kind /\ u.cred = t.cred /\ u.type = t.type

Turns(r, n) ==
  /\ task'[r][n] \in TaskRecord
  /\ \A p \in Requests, q \in Places : ~(p = r /\ q = n) => task'[p][q] = task[p][q]
  /\ Same(task'[r][n], task[r][n])
  /\ task[r][n].pc # "none"
  /\ UNCHANGED <<build, reply>> /\ verified \subseteq verified'

\* A task that goes on.
LEMMA GotoTurns ==
  ASSUME IInv, NEW r \in Requests, NEW n \in Places, NEW pc \in Pcs, Goto(r, n, pc)
  PROVE  /\ task'[r][n] \in TaskRecord /\ Same(task'[r][n], task[r][n])
         /\ task'[r][n].pc = pc /\ task'[r][n].id = task[r][n].id /\ task'[r][n].saw = task[r][n].saw
         /\ \A p \in Requests, q \in Places : ~(p = r /\ q = n) => task'[p][q] = task[p][q]
<1> DEFINE new == [task[r][n] EXCEPT !.pc = pc]
<1>1. task[r][n] \in TaskRecord /\ task \in [Requests -> [Places -> TaskRecord]] BY DEF IInv, TypesOK
<1>2. /\ new \in TaskRecord /\ new.pc = pc /\ new.id = task[r][n].id /\ new.saw = task[r][n].saw
      /\ Same(new, task[r][n])
  BY <1>1, RecordMoved DEF Same
<1>3. task' = [task EXCEPT ![r][n] = new] BY DEF Goto, Become
<1> HIDE DEF new
<1>4. task'[r][n] = new BY <1>1, <1>3
<1>5. \A p \in Requests, q \in Places : ~(p = r /\ q = n) => task'[p][q] = task[p][q] BY <1>1, <1>3
<1> QED BY <1>2, <1>4, <1>5

LEMMA BecomeTurns ==
  ASSUME IInv, NEW r \in Requests, NEW n \in Places, NEW new, Become(r, n, new)
  PROVE  /\ task'[r][n] = new
         /\ \A p \in Requests, q \in Places : ~(p = r /\ q = n) => task'[p][q] = task[p][q]
BY DEF Become, IInv, TypesOK

\* An UPDATE of the row of a task.
LEMMA SetRowEffect ==
  ASSUME IInv, NEW i \in Ids, NEW row, SetRow(i, row)
  PROVE  /\ \A j \in Ids \ {i} : rows'[j] = rows[j]
         /\ rows'[i] = IF rows[i] = None THEN None ELSE row
BY DEF SetRow, IInv, TypesOK

\* What a task has to know holds where it has nothing to know.
LEMMA NothingToKnow ==
  ASSUME NEW r \in Requests, NEW n \in Places,
         task'[r][n].pc \notin {"insert", "update", "setAccountId", "activate", "list", "reread", "user", "verify"}
  PROVE  Proven(task[r][n])' /\ Current(task[r][n])'
BY DEF Proven, Current

LEMMA TaskKnows ==
  ASSUME IInv, Grounded, NEW r \in Requests, NEW n \in Places
  PROVE  /\ task[r][n] \in TaskRecord /\ Shaped(task[r][n])
         /\ Placed(task[r][n]) => task[r][n].id \in Ids /\ task[r][n].id < nextId
         /\ Proven(task[r][n]) /\ Current(task[r][n]) /\ InLine(task[r][n])
         /\ \A i \in Ids : rows[i] \in Row \cup {None}
BY DEF IInv, TypesOK, Fits, Grounded, Told
-----------------------------------------------------------------------------
(***************************************************************************)
(* What the task of every step knows after it                              *)
(***************************************************************************)
Tells(r, n) ==
  /\ Turns(r, n)
  /\ Proven(task[r][n])' /\ Current(task[r][n])' /\ InLine(task[r][n])'

LEMMA FilterTells ==
  ASSUME IInv, Grounded, NEW r \in Requests, NEW n \in Places, Filter(r, n)
  PROVE  Tells(r, n) /\ task'[r][n].pc \in {"waiting", "skipped"}
         /\ (Known(r, n) => task'[r][n].pc = "skipped")
<1> DEFINE t == task[r][n]
           pc == IF Known(r, n) THEN "skipped" ELSE "waiting"
           new == [t EXCEPT !.pc = pc]
<1>1. t \in TaskRecord /\ t.pc = "filter" /\ InLine(t) BY TaskKnows DEF Filter
<1>2. pc \in {"skipped", "waiting"} /\ (Known(r, n) => pc = "skipped") OBVIOUS
<1>3. task' = [task EXCEPT ![r][n] = new] BY <1>1 DEF Filter, pc, IInv, TypesOK, TaskRecord
<1> HIDE DEF pc
<1>4. pc \in Pcs BY <1>2 DEF Pcs
<1>5. /\ new \in TaskRecord /\ new.pc = pc /\ Same(new, t)
  BY <1>1, <1>4, RecordMoved DEF Same
<1> HIDE DEF new
<1>6. /\ task'[r][n] = new
      /\ \A p \in Requests, q \in Places : ~(p = r /\ q = n) => task'[p][q] = task[p][q]
  BY <1>3 DEF IInv, TypesOK
<1>7. Turns(r, n) BY <1>1, <1>5, <1>6 DEF Turns, Filter
<1>8. Proven(task[r][n])' /\ Current(task[r][n])' BY <1>2, <1>5, <1>6, NothingToKnow
<1>9. InLine(task[r][n])' BY <1>2, <1>5, <1>6 DEF InLine
<1> QED BY <1>2, <1>5, <1>6, <1>7, <1>8, <1>9 DEF Tells

LEMMA BeginTells ==
  ASSUME IInv, Grounded, NEW r \in Requests, NEW n \in Places, Begin(r, n)
  PROVE  Tells(r, n)
<1> DEFINE t == task[r][n]
           pc == Start(t.kind)
<1>1. t \in TaskRecord /\ t.pc = "waiting" BY TaskKnows DEF Begin
<1>2. /\ pc \in {"verify", "insert", "read"}
      /\ pc = "verify" <=> t.kind = "import"
      /\ pc = "insert" <=> t.kind = "importUnverified"
  BY <1>1 DEF Start, TaskRecord, Kinds
<1>3. Goto(r, n, pc) BY DEF Begin
<1> HIDE DEF pc
<1>4. pc \in Pcs BY <1>2 DEF Pcs
<1>5. /\ task'[r][n] \in TaskRecord /\ Same(task'[r][n], t) /\ task'[r][n].pc = pc
      /\ \A p \in Requests, q \in Places : ~(p = r /\ q = n) => task'[p][q] = task[p][q]
  BY <1>3, <1>4, GotoTurns
<1>6. Turns(r, n) BY <1>1, <1>5 DEF Turns, Begin
<1>7. Proven(task[r][n])' /\ Current(task[r][n])' BY <1>2, <1>5 DEF Proven, Current, Same
<1>8. InLine(task[r][n])' BY <1>2, <1>5 DEF InLine, Same, Importing
<1> QED BY <1>6, <1>7, <1>8 DEF Tells

LEMMA ReadTells ==
  ASSUME IInv, Grounded, NEW r \in Requests, NEW n \in Places, ReadAccount(r, n)
  PROVE  Tells(r, n)
<1> DEFINE t == task[r][n]
           row == rows[t.id]
           pc == IF row = None
                 THEN IF t.kind = "testOne" THEN "deactivate"
                      ELSE IF t.kind \in {"deleteOne", "editOne"} THEN "error" ELSE "refused"
                 ELSE IF t.kind \in {"test", "testOne"} THEN "user"
                 ELSE IF t.kind # "update" THEN "audit"
                 ELSE IF t.cred # None THEN "verify"
                 ELSE IF row.type # t.type THEN "refused" ELSE "update"
<1>1. t \in TaskRecord /\ Shaped(t) /\ t.pc = "read" BY TaskKnows DEF ReadAccount, At
<1>2. t.kind \notin Creating /\ t.id \in Ids BY <1>1 DEF Shaped
<1>3. row \in Row \cup {None} BY <1>2, OwnTask
<1>4. Seen(row) \in SeenRow \cup {None} BY <1>3, SeenTyped DEF Seen
<1> DEFINE new == [[t EXCEPT !.saw = Seen(row)] EXCEPT !.pc = pc]
<1>5. Become(r, n, new) BY DEF ReadAccount
<1>6. /\ pc \in {"deactivate", "error", "refused", "user", "audit", "verify", "update"}
      /\ pc \in {"user", "audit", "verify", "update"} => row # None
      /\ pc = "user" => t.kind \in {"test", "testOne"}
      /\ pc \in {"verify", "update"} => t.kind = "update"
      /\ pc = "update" => t.cred = None /\ row.type = t.type
  BY <1>3
<1>7. row # None => Seen(row) \in SeenRow /\ Seen(row).type = row.type /\ Seen(row).cred = CredOf(row)
  BY <1>3, SeenTyped
<1> HIDE DEF pc
<1>8. pc \in Pcs BY <1>6 DEF Pcs
<1>9. /\ task'[r][n] \in TaskRecord /\ Same(task'[r][n], t) /\ task'[r][n].pc = pc
      /\ task'[r][n].id = t.id /\ task'[r][n].saw = Seen(row)
      /\ \A p \in Requests, q \in Places : ~(p = r /\ q = n) => task'[p][q] = task[p][q]
  <2> DEFINE seen == [t EXCEPT !.saw = Seen(row)]
  <2>1. seen \in TaskRecord /\ seen.saw = Seen(row) /\ Same(seen, t) /\ seen.id = t.id
    BY <1>1, <1>4 DEF TaskRecord, Same
  <2>2. new = [seen EXCEPT !.pc = pc] OBVIOUS
  <2> HIDE DEF seen, new
  <2>3. /\ new \in TaskRecord /\ Same(new, t) /\ new.pc = pc /\ new.id = t.id /\ new.saw = Seen(row)
    BY <1>8, <2>1, <2>2, RecordMoved DEF Same
  <2> QED BY <1>5, <2>3, BecomeTurns
<1>10. UNCHANGED <<build, rows, reply, verified>> BY DEF ReadAccount
<1>11. Turns(r, n) BY <1>1, <1>9, <1>10 DEF Turns
<1>12. rows'[task'[r][n].id] = row BY <1>9, <1>10
<1> HIDE DEF row, t
<1>13. Proven(task[r][n])' BY <1>6, <1>7, <1>9 DEF Proven, Same, Vetted
<1>14. Current(task[r][n])' BY <1>6, <1>7, <1>9, <1>12 DEF Current, Same
<1>15. InLine(task[r][n])' BY <1>2, <1>9 DEF InLine, Same, Importing, Creating
<1> QED BY <1>11, <1>13, <1>14, <1>15 DEF Tells

LEMMA InsertTells ==
  ASSUME IInv, Grounded, NEW r \in Requests, NEW n \in Places, Insert(r, n)
  PROVE  /\ Tells(r, n)
         /\ task'[r][n].id = nextId /\ task'[r][n].pc = Inserted(task[r][n].kind)
<1> DEFINE t == task[r][n]
           pc == Inserted(t.kind)
           new == [t EXCEPT !.id = nextId, !.pc = pc]
<1>1. t \in TaskRecord /\ Shaped(t) /\ t.pc = "insert" BY TaskKnows DEF Insert, At
<1>2. t.kind \in Creating /\ t.cred \in Credentials BY <1>1 DEF Shaped
<1>3. task' = [task EXCEPT ![r][n] = new] BY DEF Insert, Become
<1>4. pc \in {"park", "reread"} BY DEF Inserted
<1> HIDE DEF pc
<1>5. pc \in Pcs BY <1>4 DEF Pcs
<1>6. /\ new \in TaskRecord /\ new.pc = pc /\ Same(new, t) /\ new.id = nextId
  <2>1. nextId \in Nat BY DEF IInv, TypesOK
  <2>2. [t EXCEPT !.id = nextId] \in TaskRecord BY <1>1, <2>1 DEF TaskRecord
  <2> QED BY <1>1, <1>5, <2>2 DEF TaskRecord, Same
<1> HIDE DEF new
<1>7. /\ task'[r][n] = new
      /\ \A p \in Requests, q \in Places : ~(p = r /\ q = n) => task'[p][q] = task[p][q]
  BY <1>3 DEF IInv, TypesOK
<1>8. Turns(r, n) BY <1>1, <1>6, <1>7 DEF Turns, Insert
<1>9. Proven(task[r][n])' BY <1>2, <1>4, <1>6, <1>7 DEF Proven, Same
<1>10. Current(task[r][n])' BY <1>4, <1>6, <1>7 DEF Current
<1>11. InLine(task[r][n])' BY <1>4, <1>6, <1>7 DEF InLine, After
<1> QED BY <1>6, <1>7, <1>8, <1>9, <1>10, <1>11 DEF Tells, pc

LEMMA UpdateRowTells ==
  ASSUME IInv, Grounded, NEW r \in Requests, NEW n \in Places, UpdateRow(r, n)
  PROVE  Tells(r, n) /\ task'[r][n].pc = "reread" /\ task'[r][n].id = task[r][n].id
<1> DEFINE t == task[r][n]
<1>1. t \in TaskRecord /\ t.pc = "update" /\ t.kind = "update" BY TaskKnows DEF UpdateRow, At, Shaped
<1>2. Goto(r, n, "reread") /\ "reread" \in Pcs BY DEF UpdateRow, Pcs
<1>3. /\ task'[r][n] \in TaskRecord /\ Same(task'[r][n], t) /\ task'[r][n].pc = "reread"
      /\ task'[r][n].id = t.id
      /\ \A p \in Requests, q \in Places : ~(p = r /\ q = n) => task'[p][q] = task[p][q]
  BY <1>2, GotoTurns
<1>4. Turns(r, n) BY <1>1, <1>3 DEF Turns, UpdateRow
<1>5. Proven(task[r][n])' /\ Current(task[r][n])' BY <1>1, <1>3 DEF Proven, Current, Same
<1>6. InLine(task[r][n])' BY <1>1, <1>3 DEF InLine, Same, Importing
<1> QED BY <1>3, <1>4, <1>5, <1>6 DEF Tells

LEMMA RereadTells ==
  ASSUME IInv, Grounded, NEW r \in Requests, NEW n \in Places, Reread(r, n)
  PROVE  /\ Tells(r, n) /\ task'[r][n].id = task[r][n].id
         /\ task[r][n].kind \in Importing => task'[r][n].pc \in After
         /\ task[r][n].kind \in {"create", "update"} /\ task[r][n].cred # None /\ rows[task[r][n].id] # None
              => task'[r][n].pc = "list"
<1> DEFINE t == task[r][n]
           row == rows[t.id]
           pc == IF row = None THEN IF t.kind = "update" THEN "broken" ELSE Route(t.kind).unlisted
                 ELSE IF t.kind = "update" /\ ~NeedsAccountId(t, row) THEN "audit" ELSE "list"
<1>2. t \in TaskRecord /\ t.pc = "reread" /\ Proven(t) BY TaskKnows DEF Reread, At
<1>3. t.id \in Ids BY <1>2, TaskKnows DEF Placed, Past
<1>4. row \in Row \cup {None} BY <1>3, OwnTask
<1>5. Seen(row) \in SeenRow \cup {None} BY <1>4, SeenTyped DEF Seen
<1>6. t.kind \in Creating \cup {"update"} BY <1>2 DEF Proven
<1> DEFINE new == [[t EXCEPT !.saw = Seen(row)] EXCEPT !.pc = pc]
<1>7. Become(r, n, new) BY DEF Reread
<1>8. t.kind # "update" => Route(t.kind).unlisted \in {"reprobe", "audit"}
  BY <1>6 DEF Route, PostAccount, ImportLine, Creating
<1>9. t.kind \in Importing => Route(t.kind).unlisted = "audit"
  BY DEF Route, ImportLine, Importing
<1>10. /\ pc \in {"broken", "reprobe", "audit", "list"}
       /\ pc = "list" => row # None
       /\ t.kind \in Importing => pc \in {"audit", "list"}
       /\ t.kind \in {"create", "update"} /\ t.cred # None /\ row # None => pc = "list"
  BY <1>8, <1>9 DEF NeedsAccountId, Importing
<1>11. row # None => Seen(row) \in SeenRow /\ Seen(row).cred = CredOf(row) BY <1>4, SeenTyped
<1> HIDE DEF pc
<1>12. pc \in Pcs BY <1>10 DEF Pcs
<1>13. /\ task'[r][n] \in TaskRecord /\ Same(task'[r][n], t) /\ task'[r][n].pc = pc
       /\ task'[r][n].id = t.id /\ task'[r][n].saw = Seen(row)
       /\ \A p \in Requests, q \in Places : ~(p = r /\ q = n) => task'[p][q] = task[p][q]
  <2> DEFINE seen == [t EXCEPT !.saw = Seen(row)]
  <2>1. seen \in TaskRecord /\ seen.saw = Seen(row) /\ Same(seen, t) /\ seen.id = t.id
    BY <1>2, <1>5 DEF TaskRecord, Same
  <2>2. new = [seen EXCEPT !.pc = pc] OBVIOUS
  <2> HIDE DEF seen, new
  <2>3. /\ new \in TaskRecord /\ Same(new, t) /\ new.pc = pc /\ new.id = t.id /\ new.saw = Seen(row)
    BY <1>12, <2>1, <2>2, RecordMoved DEF Same
  <2> QED BY <1>7, <2>3, BecomeTurns
<1>14. UNCHANGED <<build, rows, reply, verified>> BY DEF Reread
<1>15. Turns(r, n) BY <1>2, <1>13, <1>14 DEF Turns
<1>16. rows'[task'[r][n].id] = row BY <1>13, <1>14
<1>17. row = rows[task[r][n].id] OBVIOUS
<1> HIDE DEF row, t
<1>18. Proven(task[r][n])' BY <1>6, <1>10, <1>13 DEF Proven, Same, Creating
<1>19. Current(task[r][n])' BY <1>10, <1>11, <1>13, <1>16 DEF Current
<1>20. InLine(task[r][n])' BY <1>10, <1>13 DEF InLine, Same, After
<1> QED BY <1>10, <1>13, <1>15, <1>17, <1>18, <1>19, <1>20 DEF Tells, After, t

LEMMA SetAccountIdTells ==
  ASSUME IInv, Grounded, NEW r \in Requests, NEW n \in Places, SetAccountId(r, n)
  PROVE  Tells(r, n) /\ task'[r][n].pc = "activate" /\ task'[r][n].id = task[r][n].id
<1> DEFINE t == task[r][n]
<1>1. t \in TaskRecord /\ t.pc = "setAccountId" /\ Proven(t) /\ Current(t) BY TaskKnows DEF SetAccountId, At
<1>2. t.id \in Ids BY <1>1, TaskKnows DEF Placed, Past
<1>3. Goto(r, n, "activate") /\ "activate" \in Pcs BY DEF SetAccountId, Pcs
<1>4. /\ task'[r][n] \in TaskRecord /\ Same(task'[r][n], t) /\ task'[r][n].pc = "activate"
      /\ task'[r][n].id = t.id /\ task'[r][n].saw = t.saw
      /\ \A p \in Requests, q \in Places : ~(p = r /\ q = n) => task'[p][q] = task[p][q]
  BY <1>3, GotoTurns
<1>5. Turns(r, n) BY <1>1, <1>4 DEF Turns, SetAccountId
<1>6. rows'[t.id] # None => rows[t.id] # None /\ CredOf(rows'[t.id]) = CredOf(rows[t.id])
  <2> DEFINE row == [rows[t.id] EXCEPT !.acct = CfOf[t.saw.cred]]
  <2>1. SetRow(t.id, row) BY DEF SetAccountId
  <2>2. rows'[t.id] = IF rows[t.id] = None THEN None ELSE row BY <1>2, <2>1, SetRowEffect
  <2>3. rows[t.id] # None => rows[t.id] \in Row BY <1>2, TaskKnows
  <2>4. rows[t.id] # None => row.type = rows[t.id].type /\ row.token = rows[t.id].token /\ row.key = rows[t.id].key
    BY <2>3 DEF Row
  <2> HIDE DEF row
  <2> QED BY <2>2, <2>4 DEF CredOf
<1>7. verified' = verified BY DEF SetAccountId
<1> HIDE DEF t
<1>8. Proven(task[r][n])' BY <1>1, <1>4, <1>7 DEF Proven
<1>9. Current(task[r][n])' BY <1>1, <1>4, <1>6, <1>7 DEF Current, Vetted
<1>10. InLine(task[r][n])' BY <1>4 DEF InLine, After
<1> QED BY <1>4, <1>5, <1>8, <1>9, <1>10 DEF Tells, t

LEMMA ActivateTells ==
  ASSUME IInv, Grounded, NEW r \in Requests, NEW n \in Places, Activate(r, n)
  PROVE  /\ Tells(r, n) /\ task'[r][n].id = task[r][n].id
         /\ task[r][n].kind \in Importing => task'[r][n].pc \in After
<1> DEFINE t == task[r][n]
           pc == Route(t.kind).activated
<1>1. t \in TaskRecord /\ t.pc = "activate" BY TaskKnows DEF Activate, At
<1>2. pc \in {"reprobe", "audit"} BY <1>1, RouteFields DEF TaskRecord
<1>3. t.kind \in Importing => pc = "audit" BY DEF Route, ImportLine, Importing
<1>4. Goto(r, n, pc) BY DEF Activate
<1> HIDE DEF pc
<1>5. pc \in Pcs BY <1>2 DEF Pcs
<1>6. /\ task'[r][n] \in TaskRecord /\ Same(task'[r][n], t) /\ task'[r][n].pc = pc
      /\ task'[r][n].id = t.id
      /\ \A p \in Requests, q \in Places : ~(p = r /\ q = n) => task'[p][q] = task[p][q]
  BY <1>4, <1>5, GotoTurns
<1>7. Turns(r, n) BY <1>1, <1>6 DEF Turns, Activate
<1>8. Proven(task[r][n])' /\ Current(task[r][n])' BY <1>2, <1>6, NothingToKnow
<1>9. InLine(task[r][n])' BY <1>3, <1>6 DEF InLine, Same, After
<1> QED BY <1>3, <1>6, <1>7, <1>8, <1>9 DEF Tells, After

LEMMA ParkTells ==
  ASSUME IInv, Grounded, NEW r \in Requests, NEW n \in Places, Park(r, n)
  PROVE  Tells(r, n) /\ task'[r][n].id = task[r][n].id /\ task'[r][n].pc \in After
<1> DEFINE t == task[r][n]
<1>1. t \in TaskRecord /\ t.pc = "park" BY TaskKnows DEF Park, At
<1>2. Goto(r, n, "audit") /\ "audit" \in Pcs BY DEF Park, Pcs
<1>3. /\ task'[r][n] \in TaskRecord /\ Same(task'[r][n], t) /\ task'[r][n].pc = "audit"
      /\ task'[r][n].id = t.id
      /\ \A p \in Requests, q \in Places : ~(p = r /\ q = n) => task'[p][q] = task[p][q]
  BY <1>2, GotoTurns
<1>4. Turns(r, n) BY <1>1, <1>3 DEF Turns, Park
<1>5. Proven(task[r][n])' /\ Current(task[r][n])' BY <1>3, NothingToKnow
<1>6. InLine(task[r][n])' BY <1>3 DEF InLine, After
<1> QED BY <1>3, <1>4, <1>5, <1>6 DEF Tells, After

LEMMA DeactivateTells ==
  ASSUME IInv, Grounded, NEW r \in Requests, NEW n \in Places, Deactivate(r, n)
  PROVE  Tells(r, n)
<1> DEFINE t == task[r][n]
<1>1. t \in TaskRecord /\ t.pc = "deactivate" /\ InLine(t) BY TaskKnows DEF Deactivate, At
<1>2. Goto(r, n, "auditError") /\ "auditError" \in Pcs BY DEF Deactivate, Pcs
<1>3. /\ task'[r][n] \in TaskRecord /\ Same(task'[r][n], t) /\ task'[r][n].pc = "auditError"
      /\ \A p \in Requests, q \in Places : ~(p = r /\ q = n) => task'[p][q] = task[p][q]
  BY <1>2, GotoTurns
<1>4. Turns(r, n) BY <1>1, <1>3 DEF Turns, Deactivate
<1>5. Proven(task[r][n])' /\ Current(task[r][n])' BY <1>3, NothingToKnow
<1>6. InLine(task[r][n])' BY <1>1, <1>3 DEF InLine, After, Same
<1> QED BY <1>4, <1>5, <1>6 DEF Tells

LEMMA AuditErrorTells ==
  ASSUME IInv, Grounded, NEW r \in Requests, NEW n \in Places, AuditError(r, n)
  PROVE  Tells(r, n)
<1> DEFINE t == task[r][n]
<1>1. t \in TaskRecord /\ t.pc = "auditError" /\ InLine(t) BY TaskKnows DEF AuditError, At
<1>2. PICK pc \in {"broken", "error"} : Goto(r, n, pc) BY DEF AuditError
<1>3. pc \in Pcs BY DEF Pcs
<1>4. /\ task'[r][n] \in TaskRecord /\ Same(task'[r][n], t) /\ task'[r][n].pc = pc
      /\ \A p \in Requests, q \in Places : ~(p = r /\ q = n) => task'[p][q] = task[p][q]
  BY <1>2, <1>3, GotoTurns
<1>5. Turns(r, n) BY <1>1, <1>4 DEF Turns, AuditError
<1>6. Proven(task[r][n])' /\ Current(task[r][n])' BY <1>4, NothingToKnow
<1>7. InLine(task[r][n])' BY <1>1, <1>4 DEF InLine, After, Same
<1> QED BY <1>5, <1>6, <1>7 DEF Tells

LEMMA AuditTells ==
  ASSUME IInv, Grounded, NEW r \in Requests, NEW n \in Places, Audit(r, n)
  PROVE  /\ Tells(r, n) /\ task'[r][n].id = task[r][n].id
         /\ task[r][n].kind \in Importing => task'[r][n].pc \in After \/ rows[task[r][n].id] = None
<1> DEFINE t == task[r][n]
           pc == IF rows[t.id] = None THEN Route(t.kind).unlogged
                 ELSE IF t.kind = "update" /\ t.cred # None THEN "reprobe" ELSE Route(t.kind).logged
<1>1. t \in TaskRecord /\ t.pc = "audit" BY TaskKnows DEF Audit, At
<1>2. /\ Route(t.kind).unlogged \in {"broken", "deactivate", "error"}
      /\ Route(t.kind).logged \in {"success", "remove"}
  BY <1>1, RouteFields DEF TaskRecord
<1>3. t.kind \in Importing => Route(t.kind).unlogged = "error" /\ Route(t.kind).logged = "success"
  BY DEF Route, ImportLine, Importing
<1>4. /\ pc \in {"broken", "deactivate", "error", "reprobe", "success", "remove"}
      /\ t.kind \in Importing => pc = "success" \/ (pc = "error" /\ rows[t.id] = None)
  BY <1>2, <1>3 DEF Importing
<1>5. Goto(r, n, pc) BY DEF Audit
<1> HIDE DEF pc
<1>6. pc \in Pcs BY <1>4 DEF Pcs
<1>7. /\ task'[r][n] \in TaskRecord /\ Same(task'[r][n], t) /\ task'[r][n].pc = pc
      /\ task'[r][n].id = t.id
      /\ \A p \in Requests, q \in Places : ~(p = r /\ q = n) => task'[p][q] = task[p][q]
  BY <1>5, <1>6, GotoTurns
<1>8. Turns(r, n) BY <1>1, <1>7 DEF Turns, Audit
<1>9. Proven(task[r][n])' /\ Current(task[r][n])' BY <1>4, <1>7, NothingToKnow
<1>10. InLine(task[r][n])' BY <1>4, <1>7 DEF InLine, Same, After
<1> QED BY <1>4, <1>7, <1>8, <1>9, <1>10 DEF Tells, After

LEMMA RemoveTells ==
  ASSUME IInv, Grounded, NEW r \in Requests, NEW n \in Places, Remove(r, n)
  PROVE  Tells(r, n) /\ task'[r][n].id = task[r][n].id
<1> DEFINE t == task[r][n]
<1>1. t \in TaskRecord /\ t.pc = "remove" BY TaskKnows DEF Remove, At
<1>2. Goto(r, n, "success") /\ "success" \in Pcs BY DEF Remove, Pcs
<1>3. /\ task'[r][n] \in TaskRecord /\ Same(task'[r][n], t) /\ task'[r][n].pc = "success"
      /\ task'[r][n].id = t.id
      /\ \A p \in Requests, q \in Places : ~(p = r /\ q = n) => task'[p][q] = task[p][q]
  BY <1>2, GotoTurns
<1>4. Turns(r, n) BY <1>1, <1>3 DEF Turns, Remove
<1>5. Proven(task[r][n])' /\ Current(task[r][n])' BY <1>3, NothingToKnow
<1>6. InLine(task[r][n])' BY <1>3 DEF InLine, After
<1> QED BY <1>3, <1>4, <1>5, <1>6 DEF Tells

LEMMA ReprobeTells ==
  ASSUME IInv, Grounded, NEW r \in Requests, NEW n \in Places, Reprobe(r, n)
  PROVE  Tells(r, n)
<1> DEFINE t == task[r][n]
<1>1. t \in TaskRecord /\ t.pc = "reprobe" /\ InLine(t) BY TaskKnows DEF Reprobe, At
<1>2. Route(t.kind).probed \in {"audit", "success"} BY <1>1, RouteFields DEF TaskRecord
<1>3. PICK pc \in {"audit", "success", "probe"} : Goto(r, n, pc) BY <1>1, <1>2 DEF Reprobe
<1>4. pc \in Pcs BY DEF Pcs
<1>5. /\ task'[r][n] \in TaskRecord /\ Same(task'[r][n], t) /\ task'[r][n].pc = pc
      /\ \A p \in Requests, q \in Places : ~(p = r /\ q = n) => task'[p][q] = task[p][q]
  BY <1>3, <1>4, GotoTurns
<1>6. Turns(r, n) BY <1>1, <1>5 DEF Turns, Reprobe
<1>7. Proven(task[r][n])' /\ Current(task[r][n])' BY <1>5, NothingToKnow
<1>8. InLine(task[r][n])' BY <1>1, <1>5 DEF InLine, After, Same
<1> QED BY <1>6, <1>7, <1>8 DEF Tells

LEMMA ProbeTells ==
  ASSUME IInv, Grounded, NEW r \in Requests, NEW n \in Places, Probe(r, n)
  PROVE  Tells(r, n)
<1> DEFINE t == task[r][n]
<1>1. t \in TaskRecord /\ t.pc = "probe" /\ InLine(t) BY TaskKnows DEF Probe, At
<1>2. Route(t.kind).probed \in {"audit", "success"} BY <1>1, RouteFields DEF TaskRecord
<1>3. PICK pc \in {"audit", "success"} : Goto(r, n, pc) BY <1>2 DEF Probe, Failed
<1>4. pc \in Pcs BY DEF Pcs
<1>5. /\ task'[r][n] \in TaskRecord /\ Same(task'[r][n], t) /\ task'[r][n].pc = pc
      /\ \A p \in Requests, q \in Places : ~(p = r /\ q = n) => task'[p][q] = task[p][q]
  BY <1>3, <1>4, GotoTurns
<1>6. Turns(r, n) BY <1>1, <1>5 DEF Turns, Probe, Failed
<1>7. Proven(task[r][n])' /\ Current(task[r][n])' BY <1>5, NothingToKnow
<1>8. InLine(task[r][n])' BY <1>1, <1>5 DEF InLine, After, Same
<1> QED BY <1>6, <1>7, <1>8 DEF Tells

LEMMA VerifyTells ==
  ASSUME IInv, Grounded, NEW r \in Requests, NEW n \in Places, Verify(r, n)
  PROVE  Tells(r, n)
<1> DEFINE t == task[r][n]
<1>1. t \in TaskRecord /\ Shaped(t) /\ t.pc = "verify" /\ Proven(t) /\ Current(t) /\ InLine(t)
  BY TaskKnows DEF Verify, At
<1>2. t.kind \in {"create", "update", "import"} /\ t.cred # None BY <1>1 DEF Shaped
<1>3. PICK pc \in {"update", "insert", "error", "refused"} :
        /\ Goto(r, n, pc)
        /\ pc = "update" => t.kind = "update"
        /\ pc = "insert" => t.kind # "update"
        /\ pc = "refused" => t.kind # "import"
        /\ pc \in {"update", "insert"} => t.cred \in verified'
  BY DEF Verify, Replied, Failed
<1>4. UNCHANGED <<build, rows, reply>> /\ verified \subseteq verified' BY DEF Verify, Replied, Failed
<1>5. pc \in Pcs BY DEF Pcs
<1>6. /\ task'[r][n] \in TaskRecord /\ Same(task'[r][n], t) /\ task'[r][n].pc = pc
      /\ task'[r][n].id = t.id /\ task'[r][n].saw = t.saw
      /\ \A p \in Requests, q \in Places : ~(p = r /\ q = n) => task'[p][q] = task[p][q]
  BY <1>3, <1>5, GotoTurns
<1> HIDE DEF t
<1>7. Turns(r, n) BY <1>1, <1>4, <1>6 DEF Turns, t
<1>8. Proven(task[r][n])' BY <1>1, <1>2, <1>3, <1>6 DEF Proven, Same, Vetted
<1>9. Current(task[r][n])' BY <1>1, <1>3, <1>4, <1>6 DEF Current, Same, Vetted
<1>10. InLine(task[r][n])' BY <1>2, <1>3, <1>6 DEF InLine, Same, Importing
<1> QED BY <1>7, <1>8, <1>9, <1>10 DEF Tells

LEMMA UserTells ==
  ASSUME IInv, Grounded, NEW r \in Requests, NEW n \in Places, User(r, n)
  PROVE  Tells(r, n)
<1> DEFINE t == task[r][n]
<1>1. t \in TaskRecord /\ Shaped(t) /\ t.pc = "user" /\ Proven(t) /\ Current(t)
  BY TaskKnows DEF User, At
<1>2. t.kind \in {"test", "testOne"} /\ t.saw \in SeenRow BY <1>1 DEF Shaped
<1>3. PICK pc \in {"list", "activate", "deactivate", "broken"} :
        Goto(r, n, pc) /\ (pc \in {"list", "activate"} => t.saw.cred \in verified')
  BY DEF User, Replied, Failed, Untested
<1>4. UNCHANGED <<build, rows, reply>> /\ verified \subseteq verified' BY DEF User, Replied, Failed
<1>5. pc \in Pcs BY DEF Pcs
<1>6. /\ task'[r][n] \in TaskRecord /\ Same(task'[r][n], t) /\ task'[r][n].pc = pc
      /\ task'[r][n].id = t.id /\ task'[r][n].saw = t.saw
      /\ \A p \in Requests, q \in Places : ~(p = r /\ q = n) => task'[p][q] = task[p][q]
  BY <1>3, <1>5, GotoTurns
<1> HIDE DEF t
<1>7. Turns(r, n) BY <1>1, <1>4, <1>6 DEF Turns, t
<1>8. Proven(task[r][n])' BY <1>2, <1>3, <1>6 DEF Proven, Same
<1>9. Current(task[r][n])' BY <1>1, <1>2, <1>3, <1>4, <1>6 DEF Current, Same, Vetted
<1>10. InLine(task[r][n])' BY <1>2, <1>6 DEF InLine, Same, Importing
<1> QED BY <1>7, <1>8, <1>9, <1>10 DEF Tells

LEMMA ListTells ==
  ASSUME IInv, Grounded, NEW r \in Requests, NEW n \in Places, List(r, n)
  PROVE  /\ Tells(r, n) /\ task'[r][n].id = task[r][n].id
         /\ task[r][n].kind \in Importing => task'[r][n].pc \in After
         /\ task[r][n].cred # None => task'[r][n].pc = "setAccountId" \/ task[r][n].id \in astray'
<1> DEFINE t == task[r][n]
           after == IF t.kind \in {"test", "testOne"} THEN "activate" ELSE Route(t.kind).unlisted
<1>1. t \in TaskRecord /\ Shaped(t) /\ t.pc = "list" /\ Proven(t) /\ Current(t)
  BY TaskKnows DEF List, At
<1>2. t.saw \in SeenRow /\ t.kind \in Creating \cup {"update", "test", "testOne"} BY <1>1 DEF Proven, Shaped
<1>3. /\ after \in {"activate", "reprobe", "audit"}
      /\ after = "activate" => t.kind \in {"test", "testOne"}
      /\ t.kind \in Importing => after = "audit"
  BY <1>2 DEF Route, PostAccount, PutAccount, ImportLine, Creating, Importing
<1>4. \/ Goto(r, n, "setAccountId") /\ t.saw.cred \in verified'
      \/ Goto(r, n, "activate") /\ t.saw.cred \in verified' /\ (t.cred # None => t.id \in astray')
      \/ Goto(r, n, after) /\ (t.cred # None => t.id \in astray')
  BY DEF List, Replied, Failed
<1>5. UNCHANGED <<build, rows, reply>> /\ verified \subseteq verified' BY DEF List, Replied, Failed
<1>6. after = "activate" => t.saw.cred \in verified' BY <1>1, <1>3, <1>5 DEF Proven
<1> HIDE DEF after
<1>7. PICK pc \in {"setAccountId", "activate", "reprobe", "audit"} :
        /\ Goto(r, n, pc)
        /\ pc \in {"setAccountId", "activate"} => t.saw.cred \in verified'
        /\ pc = "setAccountId" \/ (t.cred # None => t.id \in astray')
        /\ t.kind \in Importing => pc # "reprobe"
  BY <1>3, <1>4, <1>6
<1>8. pc \in Pcs BY DEF Pcs
<1>9. /\ task'[r][n] \in TaskRecord /\ Same(task'[r][n], t) /\ task'[r][n].pc = pc
      /\ task'[r][n].id = t.id /\ task'[r][n].saw = t.saw
      /\ \A p \in Requests, q \in Places : ~(p = r /\ q = n) => task'[p][q] = task[p][q]
  BY <1>7, <1>8, GotoTurns
<1>10. t = task[r][n] OBVIOUS
<1> HIDE DEF t
<1>11. Turns(r, n) BY <1>1, <1>5, <1>9, <1>10 DEF Turns
<1>12. Proven(task[r][n])' BY <1>2, <1>7, <1>9 DEF Proven, Same
<1>13. Current(task[r][n])' BY <1>1, <1>2, <1>5, <1>7, <1>9 DEF Current, Same, Vetted
<1>14. InLine(task[r][n])' BY <1>7, <1>9 DEF InLine, Same, After
<1> QED BY <1>7, <1>9, <1>10, <1>11, <1>12, <1>13, <1>14 DEF Tells, After

LEMMA StepTells ==
  ASSUME IInv, Grounded, NEW r \in Requests, NEW n \in Places, Step(r, n)
  PROVE  Tells(r, n)
BY FilterTells, BeginTells, ReadTells, InsertTells, UpdateRowTells, RereadTells, SetAccountIdTells, ActivateTells,
   ParkTells, DeactivateTells, AuditErrorTells, AuditTells, RemoveTells, ReprobeTells, VerifyTells, UserTells,
   ListTells, ProbeTells DEF Step

-----------------------------------------------------------------------------
(***************************************************************************)
(* What every step does to the accounts                                    *)
(***************************************************************************)

\* The row w that was o holds the credentials it held, or some that have served.
Betters(w, o, v) ==
  /\ w.token \in {o.token, None} \cup v /\ w.key \in {o.key, None} \cup v
  /\ w.type # o.type => w.token \in {None} \cup v /\ w.key \in {None} \cup v

LEMMA BetterCredential ==
  ASSUME NEW w \in Row, NEW o \in Row, NEW v, Betters(w, o, v)
  PROVE  CredOf(w) \in {CredOf(o), None} \cup v
BY DEF Betters, CredOf, Row

LEMMA EditBetters ==
  ASSUME IInv, Grounded, NEW r \in Requests, NEW n \in Places, UpdateRow(r, n), rows[task[r][n].id] # None
  PROVE  /\ Betters(Edited(rows[task[r][n].id], task[r][n]), rows[task[r][n].id], verified)
         /\ Edited(rows[task[r][n].id], task[r][n]) \in Row
         /\ Edited(rows[task[r][n].id], task[r][n]).active = rows[task[r][n].id].active
         /\ Edited(rows[task[r][n].id], task[r][n]).acct = rows[task[r][n].id].acct
         /\ Edited(rows[task[r][n].id], task[r][n]).from = rows[task[r][n].id].from
<1> DEFINE t == task[r][n]
           o == rows[t.id]
<1>1. t \in TaskRecord /\ Shaped(t) /\ Proven(t) /\ Current(t) /\ t.pc = "update"
  BY TaskKnows DEF UpdateRow, At
<1>2. t.id \in Ids BY <1>1, TaskKnows DEF Placed, Past
<1>3. o \in Row BY <1>2, TaskKnows
<1>4. t.kind = "update" /\ t.cred \in verified \cup {None} /\ (t.cred = None => t.saw.type = t.type)
  BY <1>1 DEF Shaped, Proven, Vetted
<1>5. t.saw.type # o.type => o.token \in verified \cup {None} /\ o.key \in verified \cup {None}
  BY <1>1, <1>4 DEF Current, Vetted
<1>6. t.cred # None => TypeOf(t.cred) = t.type BY <1>1, <1>4 DEF Shaped
<1>7. t.type \in {"token", "global_key"} /\ t.cred \in Tokens \cup Keys \cup {None}
  BY <1>1 DEF TaskRecord, Credentials
<1>8. Tokens \cap Keys = {} /\ None \notin Tokens /\ None \notin Keys
  BY AccountsAssumption DEF AccountsAssumption, Credentials
<1> HIDE DEF t, o
<1> DEFINE w == Edited(o, t)
<1>9. /\ w.type = t.type
      /\ w.token = IF t.cred \in Tokens THEN t.cred
                   ELSE IF t.saw.type # t.type /\ t.type = "global_key" THEN None ELSE o.token
      /\ w.key = IF t.cred \in Keys THEN t.cred
                 ELSE IF t.saw.type # t.type /\ t.type = "token" THEN None ELSE o.key
      /\ w.active = o.active /\ w.acct = o.acct /\ w.from = o.from
  BY <1>3 DEF Edited, Row
<1>10. w \in Row BY <1>3, <1>7 DEF Edited, Row
<1> HIDE DEF w
<1>11. w.token \in {o.token, None} \cup verified /\ w.key \in {o.key, None} \cup verified BY <1>4, <1>9
<1>12. w.type # o.type => w.token \in {None} \cup verified /\ w.key \in {None} \cup verified
  <2>1. CASE t.saw.type = t.type BY <1>4, <1>5, <1>9, <2>1
  <2>2. CASE t.saw.type # t.type
    <3>1. t.cred \in Tokens \cup Keys /\ t.cred \in verified BY <1>4, <1>7, <2>2
    <3>2. t.type = "token" <=> t.cred \in Tokens BY <1>6, <1>8, <3>1 DEF TypeOf
    <3> QED BY <1>7, <1>8, <1>9, <2>2, <3>1, <3>2
  <2> QED BY <2>1, <2>2
<1> QED BY <1>9, <1>10, <1>11, <1>12 DEF Betters, w, o, t

\* A column of a row.
LEMMA AcctColumn ==
  ASSUME NEW o \in Row, NEW a
  PROVE  /\ [o EXCEPT !.acct = a].acct = a /\ [o EXCEPT !.acct = a].active = o.active
         /\ [o EXCEPT !.acct = a].from = o.from /\ CredOf([o EXCEPT !.acct = a]) = CredOf(o)
         /\ Betters([o EXCEPT !.acct = a], o, verified)
BY DEF Row, CredOf, Betters

LEMMA ActiveColumn ==
  ASSUME NEW o \in Row, NEW b
  PROVE  /\ [o EXCEPT !.active = b].active = b /\ [o EXCEPT !.active = b].acct = o.acct
         /\ [o EXCEPT !.active = b].from = o.from /\ CredOf([o EXCEPT !.active = b]) = CredOf(o)
         /\ Betters([o EXCEPT !.active = b], o, verified)
BY DEF Row, CredOf, Betters

LEMMA SameBetters ==
  ASSUME NEW o, NEW v
  PROVE  Betters(o, o, v)
BY DEF Betters

\* No step gives an account credentials that have not served, but for the account it inserts.
LEMMA StepBetters ==
  ASSUME IInv, Grounded, NEW r \in Requests, NEW n \in Places, Step(r, n),
         NEW i \in Ids, i < nextId, rows'[i] # None
  PROVE  rows[i] # None /\ Betters(rows'[i], rows[i], verified')
<1> DEFINE t == task[r][n]
<1>1. /\ Placed(t) => t.id \in Ids
      /\ \A j \in Ids : rows[j] \in Row \cup {None}
  BY TaskKnows
<1>2. CASE UNCHANGED rows BY <1>2, SameBetters
<1>3. CASE Insert(r, n)
  <2>1. nextId \in Ids /\ i # nextId BY <1>3 DEF Insert, Ids
  <2>2. rows'[i] = rows[i] BY <1>3, <2>1 DEF Insert, IInv, TypesOK
  <2> QED BY <2>2, SameBetters
<1>4. CASE UpdateRow(r, n)
  <2>1. t.id \in Ids BY <1>1, <1>4 DEF UpdateRow, At, Placed, Past
  <2>2. SetRow(t.id, Edited(rows[t.id], t)) /\ verified' = verified BY <1>4 DEF UpdateRow
  <2>3. /\ \A j \in Ids \ {t.id} : rows'[j] = rows[j]
        /\ rows'[t.id] = IF rows[t.id] = None THEN None ELSE Edited(rows[t.id], t)
    BY <2>1, <2>2, SetRowEffect
  <2>4. CASE i = t.id BY <1>4, <2>2, <2>3, <2>4, EditBetters
  <2>5. CASE i # t.id BY <2>3, <2>5, SameBetters
  <2> QED BY <2>4, <2>5
<1>5. CASE SetAccountId(r, n)
  <2> DEFINE w == [rows[t.id] EXCEPT !.acct = CfOf[t.saw.cred]]
  <2>1. t.id \in Ids BY <1>1, <1>5 DEF SetAccountId, At, Placed, Past
  <2>2. SetRow(t.id, w) /\ verified' = verified BY <1>5 DEF SetAccountId
  <2>3. /\ \A j \in Ids \ {t.id} : rows'[j] = rows[j]
        /\ rows'[t.id] = IF rows[t.id] = None THEN None ELSE w
    BY <2>1, <2>2, SetRowEffect
  <2>4. rows[t.id] # None => Betters(w, rows[t.id], verified) BY <1>1, <2>1, AcctColumn
  <2> HIDE DEF w
  <2> QED BY <2>2, <2>3, <2>4, SameBetters
<1>6. CASE Activate(r, n) \/ Park(r, n) \/ Deactivate(r, n)
  <2>1. t.id \in Ids BY <1>1, <1>6 DEF Activate, Park, Deactivate, At, Placed, Past
  <2>2. PICK b \in BOOLEAN : SetRow(t.id, [rows[t.id] EXCEPT !.active = b])
    BY <1>6 DEF Activate, Park, Deactivate
  <2> DEFINE w == [rows[t.id] EXCEPT !.active = b]
  <2>3. verified' = verified BY <1>6 DEF Activate, Park, Deactivate
  <2>4. /\ \A j \in Ids \ {t.id} : rows'[j] = rows[j]
        /\ rows'[t.id] = IF rows[t.id] = None THEN None ELSE w
    BY <2>1, <2>2, SetRowEffect
  <2>5. rows[t.id] # None => Betters(w, rows[t.id], verified) BY <1>1, <2>1, ActiveColumn
  <2> HIDE DEF w
  <2> QED BY <2>3, <2>4, <2>5, SameBetters
<1>7. CASE Remove(r, n)
  <2>1. t.id \in Ids BY <1>1, <1>7 DEF Remove, At, Placed, Past
  <2>2. rows'[i] = rows[i] BY <1>7, <2>1 DEF Remove, IInv, TypesOK
  <2> QED BY <2>2, SameBetters
<1> QED
  BY <1>2, <1>3, <1>4, <1>5, <1>6, <1>7 DEF Step, Filter, Begin, ReadAccount, Reread, AuditError, Audit, Reprobe,
     Verify, User, List, Probe, Replied, Failed

\* What the other tasks know stays true.
LEMMA StepTold ==
  ASSUME IInv, Grounded, NEW r \in Requests, NEW n \in Places, Step(r, n)
  PROVE  Told'
<1>1. Tells(r, n) BY StepTells
<1>2. ASSUME NEW p \in Requests, NEW q \in Places, ~(p = r /\ q = n)
      PROVE  Proven(task[p][q])' /\ Current(task[p][q])' /\ InLine(task[p][q])'
  <2> DEFINE s == task[p][q]
  <2>1. task'[p][q] = s /\ verified \subseteq verified' BY <1>1, <1>2 DEF Tells, Turns
  <2>2. /\ Proven(s) /\ Current(s) /\ InLine(s) /\ (Placed(s) => s.id \in Ids /\ s.id < nextId)
        /\ \A i \in Ids : rows[i] \in Row \cup {None}
    BY TaskKnows
  <2>3. Proven(task[p][q])' BY <2>1, <2>2 DEF Proven, Vetted
  <2>4. InLine(task[p][q])' BY <2>1, <2>2 DEF InLine
  <2>5. Current(task[p][q])'
    <3> DEFINE here == s.pc \in {"user", "list", "setAccountId", "activate"}
               edit == s.kind = "update" /\ s.pc \in {"verify", "update"}
    <3>1. CASE (here \/ edit) /\ rows'[s.id] # None
      <4> DEFINE o == rows[s.id]
                 w == rows'[s.id]
      <4>1. s.id \in Ids /\ s.id < nextId BY <2>2, <3>1 DEF Placed, Past
      <4>2. o # None /\ Betters(w, o, verified') BY <3>1, <4>1, StepBetters
      <4>3. o \in Row BY <2>2, <4>1, <4>2
      <4>4. w \in Row
        <5>1. TableKept BY StepAdvances DEF Advances
        <5> QED BY <3>1, <4>1, <5>1 DEF TableKept
      <4>5. CredOf(w) \in {CredOf(o), None} \cup verified' BY <4>2, <4>3, <4>4, BetterCredential
      <4>6. here => CredOf(o) = s.saw.cred \/ CredOf(o) \in verified \cup {None}
        BY <2>2, <4>2 DEF Current, Vetted
      <4>7. edit /\ s.saw.type # o.type => o.token \in verified \cup {None} /\ o.key \in verified \cup {None}
        BY <2>2, <4>2 DEF Current, Vetted
      <4>8. here => CredOf(w) = s.saw.cred \/ CredOf(w) \in verified' \cup {None} BY <2>1, <4>5, <4>6
      <4>9. edit /\ s.saw.type # w.type => w.token \in verified' \cup {None} /\ w.key \in verified' \cup {None}
        BY <2>1, <4>2, <4>7 DEF Betters
      <4> HIDE DEF o
      <4> QED BY <2>1, <4>8, <4>9 DEF Current, Vetted
    <3>2. CASE ~(here \/ edit) \/ rows'[s.id] = None BY <2>1, <3>2 DEF Current
    <3> QED BY <3>1, <3>2
  <2> QED BY <2>3, <2>4, <2>5
<1> QED BY <1>1, <1>2 DEF Told, Tells

\* Of the lines with one credential only the first goes ahead, whatever the others do meanwhile.
LEMMA StepApart ==
  ASSUME IInv, Grounded, NEW r \in Requests, NEW n \in Places, Step(r, n), NEW p \in Requests
  PROVE  Apart(p)'
<1>1. Turns(r, n) BY StepTells DEF Tells
<1>2. Apart(p) BY DEF Grounded
<1> SUFFICES ASSUME NEW m \in Places, NEW q \in Places, m < q,
                    task'[p][m].cred = task'[p][q].cred,
                    task'[p][m].kind \in Importing, task'[p][q].kind \in Importing
             PROVE  task'[p][q].pc \in {"filter", "skipped"}
  BY DEF Apart
<1>3. /\ task'[p][m].cred = task[p][m].cred /\ task'[p][m].kind = task[p][m].kind
      /\ task'[p][q].cred = task[p][q].cred /\ task'[p][q].kind = task[p][q].kind
  BY <1>1 DEF Turns, Same
<1>4. task[p][q].pc \in {"filter", "skipped"} BY <1>2, <1>3 DEF Apart
<1>5. CASE p = r /\ q = n
  <2>1. Filter(r, n) BY <1>4, <1>5 DEF Step, Filter, Begin, ReadAccount, Insert, UpdateRow, Reread, SetAccountId,
          Activate, Park, Deactivate, AuditError, Audit, Remove, Reprobe, Verify, User, List, Probe, At
  <2>2. Known(r, n) BY <1>3, <1>5 DEF Known
  <2> QED BY <1>5, <2>1, <2>2, FilterTells
<1>6. CASE ~(p = r /\ q = n) BY <1>1, <1>4, <1>6 DEF Turns
<1> QED BY <1>5, <1>6

-----------------------------------------------------------------------------
(***************************************************************************)
(* What stays true of an account: the witness of a claim is another task,  *)
(* or the one that moves carries it on.                                    *)
(***************************************************************************)
Asks(t, i) ==
  t.id = i /\ t.cred # None /\ t.kind \in {"create", "update"} /\ t.pc \in {"reread", "list", "setAccountId"}

LEMMA OtherTasks ==
  ASSUME NEW r \in Requests, NEW n \in Places, Turns(r, n)
  PROVE  /\ task'[r][n] \in Tasks'
         /\ \A t \in Tasks : t = task[r][n] \/ t \in Tasks'
BY DEF Tasks, Turns

LEMMA InUseStays ==
  ASSUME NEW r \in Requests, NEW n \in Places, Turns(r, n), NEW i \in Ids, InUse(i),
         task[r][n].pc # "park" \/ task[r][n].id # i,
         rows'[i] # None => /\ rows[i] # None /\ (rows'[i].active => rows[i].active)
                            /\ CredOf(rows'[i]) \in {CredOf(rows[i]), None} \cup verified'
  PROVE  InUse(i)'
<1> SUFFICES ASSUME rows'[i] # None, rows'[i].active, CredOf(rows'[i]) # None,
                    CredOf(rows'[i]) \notin verified'
             PROVE  \E t \in Tasks' : t.id = i /\ t.pc = "park"
  BY DEF InUse, CredOf
<1>1. verified \subseteq verified' BY DEF Turns
<1>2. PICK t \in Tasks : t.id = i /\ t.pc = "park" BY <1>1 DEF InUse
<1> QED BY <1>2, OtherTasks

LEMMA OwnStays ==
  ASSUME NEW r \in Requests, NEW n \in Places, Turns(r, n), NEW i \in Ids, Own(i),
         rows'[i] # None => /\ rows[i] # None /\ rows'[i].acct = rows[i].acct
                            /\ CredOf(rows'[i]) = CredOf(rows[i]) \/ i \in astray'
                            /\ Asks(task[r][n], i) => Asks(task'[r][n], i) \/ i \in astray',
         i \in astray => i \in astray'
  PROVE  Own(i)'
<1> SUFFICES ASSUME rows'[i] # None, rows'[i].acct # None, CredOf(rows'[i]) # None,
                    rows'[i].acct # CfOf[CredOf(rows'[i])], i \notin astray'
             PROVE  \E t \in Tasks' : Asks(t, i)
  BY DEF Own, Refreshing, Asks, CredOf
<1>1. PICK t \in Tasks : Asks(t, i) BY DEF Own, Refreshing, Asks
<1> QED BY <1>1, OtherTasks

LEMMA OriginStays ==
  ASSUME IInv, NEW r \in Requests, NEW n \in Places, Turns(r, n), NEW i \in Ids, Origin(i),
         rows'[i] # None => /\ rows[i] # None /\ rows'[i].from = rows[i].from
                            /\ task[r][n].kind \in Importing /\ task[r][n].id = i /\ task[r][n].pc \in After
                                 => task'[r][n].id = i /\ task'[r][n].pc \in After
  PROVE  Origin(i)'
<1> SUFFICES ASSUME rows'[i] # None, rows'[i].from # None
             PROVE  \E m \in Places : Brings(task'[rows'[i].from[1]][m], i, rows'[i].from[2])
  BY DEF Origin, Brings
<1>1. PICK m \in Places : Brings(task[rows[i].from[1]][m], i, rows[i].from[2]) BY DEF Origin
<1>2. rows[i].from[1] \in Requests
  <2>1. rows[i] \in Row BY DEF IInv, TypesOK
  <2> QED BY <2>1 DEF Row
<1>3. Brings(task'[rows[i].from[1]][m], i, rows[i].from[2])
  <2>1. CASE rows[i].from[1] = r /\ m = n BY <1>1, <2>1 DEF Brings, Turns, Same
  <2>2. CASE ~(rows[i].from[1] = r /\ m = n) BY <1>1, <1>2, <2>2 DEF Turns
  <2> QED BY <2>1, <2>2
<1> QED BY <1>3

\* A step that leaves the table.
LEMMA StillHolds ==
  ASSUME IInv, Grounded, NEW r \in Requests, NEW n \in Places, Turns(r, n), UNCHANGED rows, astray \subseteq astray',
         task[r][n].pc # "park",
         \A i \in Ids : rows[i] # None /\ Asks(task[r][n], i) => Asks(task'[r][n], i) \/ i \in astray',
         \A i \in Ids : /\ rows[i] # None /\ task[r][n].kind \in Importing /\ task[r][n].id = i
                        /\ task[r][n].pc \in After
                        => task'[r][n].id = i /\ task'[r][n].pc \in After,
         NEW i \in Ids
  PROVE  InUse(i)' /\ Own(i)' /\ Origin(i)'
<1>1. InUse(i) /\ Own(i) /\ Origin(i) BY DEF Grounded
<1>2. InUse(i)' BY <1>1, InUseStays
<1>3. Own(i)' BY <1>1, OwnStays
<1>4. Origin(i)' BY <1>1, OriginStays
<1> QED BY <1>2, <1>3, <1>4

LEMMA InsertHolds ==
  ASSUME IInv, Grounded, NEW r \in Requests, NEW n \in Places, Insert(r, n), NEW i \in Ids
  PROVE  InUse(i)' /\ Own(i)' /\ Origin(i)'
<1> DEFINE t == task[r][n]
           u == task'[r][n]
           w == NewRow(t.cred, t.acct, IF t.kind \in {"import", "importUnverified"} THEN <<r, t.cred>> ELSE None)
<1>1. /\ Turns(r, n) /\ u.id = nextId /\ u.pc = Inserted(t.kind) /\ Same(u, t)
  BY InsertTells DEF Tells, Turns
<1>2. /\ t.pc = "insert" /\ t.kind \in Creating /\ t.cred \in Credentials /\ Proven(t)
      /\ t.kind \in Importing => t.acct = None
  BY TaskKnows DEF Insert, At, Shaped
<1>3. rows' = [rows EXCEPT ![nextId] = w] /\ nextId \in Ids /\ UNCHANGED <<astray, verified>> BY DEF Insert
<1>4. /\ w.acct = t.acct /\ CredOf(w) = t.cred
      /\ w.from = IF t.kind \in {"import", "importUnverified"} THEN <<r, t.cred>> ELSE None
  BY <1>2 DEF NewRow, CredOf, TypeOf, Credentials
<1>5. /\ t.pc # "park" /\ t.pc \notin After /\ InUse(i) /\ Own(i) /\ Origin(i) BY <1>2 DEF After, Grounded
<1>6. rows \in [Ids -> Row \cup {None}] BY DEF IInv, TypesOK
<1> HIDE DEF w
<1>7. CASE i = nextId
  <2>1. rows'[i] = w BY <1>3, <1>6, <1>7
  <2>2. InUse(i)'
    <3>1. CASE t.kind = "importUnverified"
      <4>1. u.pc = "park" /\ u \in Tasks' BY <1>1, <3>1, OtherTasks DEF Inserted
      <4> QED BY <1>1, <1>7, <4>1 DEF InUse
    <3>2. CASE t.kind # "importUnverified"
      <4>1. CredOf(w) \in verified BY <1>2, <1>4, <3>2 DEF Proven, Creating
      <4>2. CredOf(rows'[i]) \in verified' BY <1>3, <2>1, <4>1
      <4> QED BY <4>2 DEF InUse, CredOf
    <3> QED BY <3>1, <3>2
  <2>3. Own(i)'
    <3>1. CASE t.kind = "create"
      <4>1. t.cred # None BY <1>2, AccountsAssumption DEF AccountsAssumption
      <4>2. u.pc = "reread" /\ u \in Tasks' BY <1>1, <3>1, OtherTasks DEF Inserted
      <4>3. Asks(u, i) BY <1>1, <1>7, <3>1, <4>1, <4>2 DEF Asks, Same
      <4> QED BY <4>2, <4>3 DEF Own, Refreshing, Asks
    <3>2. CASE t.kind # "create" BY <1>2, <1>4, <2>1, <3>2 DEF Own, Creating, Importing
    <3> QED BY <3>1, <3>2
  <2>4. Origin(i)'
    <3>1. CASE t.kind \in Importing
      <4>1. rows'[i].from[1] = r /\ rows'[i].from[2] = t.cred BY <1>4, <2>1, <3>1 DEF Importing
      <4>2. u.pc \in After BY <1>1 DEF Inserted, After
      <4>3. Brings(u, i, t.cred) BY <1>1, <1>7, <3>1, <4>2 DEF Brings, Same
      <4> QED BY <4>1, <4>3 DEF Origin
    <3>2. CASE t.kind \notin Importing BY <1>4, <2>1, <3>2 DEF Origin, Importing
    <3> QED BY <3>1, <3>2
  <2> QED BY <2>2, <2>3, <2>4
<1>8. CASE i # nextId
  <2>1. rows'[i] = rows[i] BY <1>3, <1>6, <1>8
  <2>2. InUse(i)' BY <1>1, <1>5, <2>1, InUseStays
  <2>3. Own(i)' BY <1>1, <1>2, <1>3, <1>5, <2>1, OwnStays DEF Asks
  <2>4. Origin(i)' BY <1>1, <1>5, <2>1, OriginStays
  <2> QED BY <2>2, <2>3, <2>4
<1> QED BY <1>7, <1>8

LEMMA UpdateRowHolds ==
  ASSUME IInv, Grounded, NEW r \in Requests, NEW n \in Places, UpdateRow(r, n), NEW i \in Ids
  PROVE  InUse(i)' /\ Own(i)' /\ Origin(i)'
<1> DEFINE t == task[r][n]
           u == task'[r][n]
           o == rows[t.id]
           w == Edited(o, t)
<1>1. Turns(r, n) /\ u.id = t.id /\ u.pc = "reread" /\ Same(u, t) BY UpdateRowTells DEF Tells, Turns
<1>2. t.pc = "update" /\ t.kind = "update" BY TaskKnows DEF UpdateRow, At, Shaped
<1>3. t.id \in Ids BY <1>2, TaskKnows DEF Placed, Past
<1>4. /\ \A j \in Ids \ {t.id} : rows'[j] = rows[j]
      /\ rows'[t.id] = IF o = None THEN None ELSE w
  BY <1>3, SetRowEffect DEF UpdateRow
<1>5. o # None => /\ w.active = o.active /\ w.acct = o.acct /\ w.from = o.from
                  /\ CredOf(w) \in {CredOf(o), None} \cup verified
  <2>1. o # None => o \in Row BY <1>3, TaskKnows
  <2> QED BY <2>1, EditBetters, BetterCredential
<1>6. /\ verified' = verified /\ astray \subseteq astray'
      /\ o # None /\ t.cred = None /\ CredOf(w) # CredOf(o) => t.id \in astray'
  BY DEF UpdateRow
<1>7. InUse(i) /\ Own(i) /\ Origin(i) BY DEF Grounded
<1>8. t.pc # "park" /\ t.pc \notin After /\ ~Asks(t, i) BY <1>2 DEF After, Asks
<1>9. t = task[r][n] /\ u = task'[r][n] OBVIOUS
<1> HIDE DEF w, o, t, u
<1>10. rows'[i] # None => /\ rows[i] # None /\ rows'[i].active = rows[i].active /\ rows'[i].acct = rows[i].acct
                          /\ rows'[i].from = rows[i].from
                          /\ CredOf(rows'[i]) \in {CredOf(rows[i]), None} \cup verified'
  BY <1>4, <1>5, <1>6 DEF o
<1>11. InUse(i)' BY <1>1, <1>7, <1>8, <1>9, <1>10, InUseStays
<1>12. Own(i)'
  <2>1. CASE i = t.id /\ t.cred # None
    <3>1. Asks(u, i) BY <1>1, <1>2, <2>1 DEF Asks, Same
    <3>2. u \in Tasks' BY <1>1, <1>9, OtherTasks
    <3> QED BY <3>1, <3>2 DEF Own, Refreshing, Asks
  <2>2. CASE i # t.id \/ t.cred = None
    <3>1. rows'[i] # None => CredOf(rows'[i]) = CredOf(rows[i]) \/ i \in astray'
      BY <1>4, <1>6, <2>2 DEF o
    <3> QED BY <1>1, <1>6, <1>7, <1>8, <1>9, <1>10, <3>1, OwnStays
  <2> QED BY <2>1, <2>2
<1>13. Origin(i)' BY <1>1, <1>7, <1>8, <1>9, <1>10, OriginStays
<1> QED BY <1>11, <1>12, <1>13

LEMMA SetAccountIdHolds ==
  ASSUME IInv, Grounded, NEW r \in Requests, NEW n \in Places, SetAccountId(r, n), NEW i \in Ids
  PROVE  InUse(i)' /\ Own(i)' /\ Origin(i)'
<1> DEFINE t == task[r][n]
           u == task'[r][n]
           o == rows[t.id]
           acct == CfOf[t.saw.cred]
           w == [o EXCEPT !.acct = acct]
<1>1. Turns(r, n) /\ u.id = t.id /\ u.pc = "activate" /\ Same(u, t) BY SetAccountIdTells DEF Tells, Turns
<1>2. t.pc = "setAccountId" BY DEF SetAccountId, At
<1>3. t.id \in Ids BY <1>2, TaskKnows DEF Placed, Past
<1>4. SetRow(t.id, w) BY DEF SetAccountId
<1>5. /\ \A j \in Ids \ {t.id} : rows'[j] = rows[j]
      /\ rows'[t.id] = IF o = None THEN None ELSE w
  BY <1>3, <1>4, SetRowEffect
<1>6. o # None => w.active = o.active /\ w.acct = acct /\ w.from = o.from /\ CredOf(w) = CredOf(o)
  <2>1. o # None => o \in Row BY <1>3, TaskKnows
  <2> HIDE DEF o, acct
  <2> QED BY <2>1, AcctColumn
<1>7. astray' = IF o # None /\ CredOf(o) # None /\ CfOf[CredOf(o)] = acct
                THEN astray \ {t.id} ELSE astray \cup {t.id}
  BY DEF SetAccountId
<1>8. InUse(i) /\ Own(i) /\ Origin(i) BY DEF Grounded
<1>9. t = task[r][n] /\ u = task'[r][n] OBVIOUS
<1> HIDE DEF w, acct, o, t, u
<1>10. rows'[i] # None => /\ rows[i] # None /\ rows'[i].active = rows[i].active
                          /\ rows'[i].from = rows[i].from /\ CredOf(rows'[i]) = CredOf(rows[i])
  BY <1>5, <1>6 DEF o
<1>11. InUse(i)' BY <1>1, <1>2, <1>8, <1>9, <1>10, InUseStays
<1>12. Own(i)'
  <2>1. CASE i = t.id
    <3>1. rows'[i] # None => /\ rows'[i].acct = acct /\ CredOf(rows'[i]) = CredOf(o)
                             /\ (CredOf(o) # None => CfOf[CredOf(o)] = acct) \/ i \in astray'
      BY <1>5, <1>6, <1>7, <2>1
    <3> QED BY <3>1 DEF Own, CredOf
  <2>2. CASE i # t.id
    <3>1. rows'[i] = rows[i] /\ (i \in astray => i \in astray') /\ ~Asks(t, i) BY <1>5, <1>7, <2>2 DEF Asks
    <3> QED BY <1>1, <1>8, <1>9, <3>1, OwnStays
  <2> QED BY <2>1, <2>2
<1>13. Origin(i)' BY <1>1, <1>8, <1>9, <1>10, OriginStays DEF After
<1> QED BY <1>11, <1>12, <1>13

\* An UPDATE of is_active.
LEMMA ActiveColumnHolds ==
  ASSUME IInv, Grounded, NEW r \in Requests, NEW n \in Places, Turns(r, n), UNCHANGED <<verified, astray>>,
         task[r][n].pc \in {"activate", "park", "deactivate"},
         NEW b \in BOOLEAN, SetRow(task[r][n].id, [rows[task[r][n].id] EXCEPT !.active = b]),
         b /\ rows[task[r][n].id] # None => CredOf(rows[task[r][n].id]) \in verified \cup {None},
         task[r][n].kind \in Importing /\ task[r][n].pc \in After
           => task'[r][n].id = task[r][n].id /\ task'[r][n].pc \in After,
         b => task[r][n].pc # "park",
         NEW i \in Ids
  PROVE  InUse(i)' /\ Own(i)' /\ Origin(i)'
<1> DEFINE t == task[r][n]
           o == rows[t.id]
           w == [o EXCEPT !.active = b]
<1>1. t.id \in Ids BY TaskKnows DEF Placed, Past
<1>2. /\ \A j \in Ids \ {t.id} : rows'[j] = rows[j]
      /\ rows'[t.id] = IF o = None THEN None ELSE w
  BY <1>1, SetRowEffect
<1>3. o # None => w.active = b /\ w.acct = o.acct /\ w.from = o.from /\ CredOf(w) = CredOf(o)
  <2>1. o # None => o \in Row BY <1>1, TaskKnows
  <2> HIDE DEF o
  <2> QED BY <2>1, ActiveColumn
<1>4. InUse(i) /\ Own(i) /\ Origin(i) BY DEF Grounded
<1>5. t = task[r][n] /\ o = rows[t.id] OBVIOUS
<1> HIDE DEF w, o, t
<1>6. rows'[i] # None => /\ rows[i] # None /\ rows'[i].acct = rows[i].acct
                         /\ rows'[i].from = rows[i].from /\ CredOf(rows'[i]) = CredOf(rows[i])
  BY <1>2, <1>3, <1>5
<1>7. InUse(i)'
  <2>1. CASE i = t.id
    <3>1. rows'[i] # None => rows'[i].active = b /\ CredOf(rows'[i]) = CredOf(o) /\ o # None
      BY <1>2, <1>3, <2>1
    <3>2. rows'[i] # None /\ rows'[i].active /\ CredOf(rows'[i]) # None => CredOf(rows'[i]) \in verified'
      BY <1>5, <3>1
    <3> QED BY <3>2 DEF InUse, CredOf
  <2>2. CASE i # t.id
    <3>1. rows'[i] = rows[i] BY <1>2, <2>2
    <3> QED BY <1>4, <1>5, <2>2, <3>1, InUseStays
  <2> QED BY <2>1, <2>2
<1>8. Own(i)' BY <1>4, <1>6, OwnStays DEF Asks
<1>9. Origin(i)' BY <1>4, <1>5, <1>6, OriginStays
<1> QED BY <1>7, <1>8, <1>9

LEMMA ActivateHolds ==
  ASSUME IInv, Grounded, NEW r \in Requests, NEW n \in Places, Activate(r, n), NEW i \in Ids
  PROVE  InUse(i)' /\ Own(i)' /\ Origin(i)'
<1> DEFINE t == task[r][n]
<1>1. /\ Turns(r, n) /\ task'[r][n].id = t.id
      /\ t.kind \in Importing => task'[r][n].pc \in After
  BY ActivateTells DEF Tells
<1>2. t.pc = "activate" /\ Proven(t) /\ Current(t) BY TaskKnows DEF Activate, At
<1>3. SetRow(t.id, [rows[t.id] EXCEPT !.active = TRUE]) /\ UNCHANGED <<verified, astray>> BY DEF Activate
<1>4. rows[t.id] # None => CredOf(rows[t.id]) \in verified \cup {None} BY <1>2 DEF Proven, Current, Vetted
<1> DEFINE b == TRUE
<1>5. b \in BOOLEAN /\ SetRow(t.id, [rows[t.id] EXCEPT !.active = b]) BY <1>3
<1> HIDE DEF b
<1> QED BY <1>1, <1>2, <1>3, <1>4, <1>5, ActiveColumnHolds

LEMMA ParkHolds ==
  ASSUME IInv, Grounded, NEW r \in Requests, NEW n \in Places, Park(r, n), NEW i \in Ids
  PROVE  InUse(i)' /\ Own(i)' /\ Origin(i)'
<1> DEFINE t == task[r][n]
<1>1. Turns(r, n) /\ task'[r][n].id = t.id /\ task'[r][n].pc \in After BY ParkTells DEF Tells
<1>2. t.pc = "park" BY DEF Park, At
<1>3. SetRow(t.id, [rows[t.id] EXCEPT !.active = FALSE]) /\ UNCHANGED <<verified, astray>> BY DEF Park
<1> DEFINE b == FALSE
<1>4. b \in BOOLEAN /\ ~b /\ SetRow(t.id, [rows[t.id] EXCEPT !.active = b]) BY <1>3
<1> HIDE DEF b
<1> QED BY <1>1, <1>2, <1>3, <1>4, ActiveColumnHolds

LEMMA DeactivateHolds ==
  ASSUME IInv, Grounded, NEW r \in Requests, NEW n \in Places, Deactivate(r, n), NEW i \in Ids
  PROVE  InUse(i)' /\ Own(i)' /\ Origin(i)'
<1> DEFINE t == task[r][n]
<1>1. Turns(r, n) BY DeactivateTells DEF Tells
<1>2. t.pc = "deactivate" /\ t.pc \notin After BY DEF Deactivate, At, After
<1>3. SetRow(t.id, [rows[t.id] EXCEPT !.active = FALSE]) /\ UNCHANGED <<verified, astray>> BY DEF Deactivate
<1> DEFINE b == FALSE
<1>4. b \in BOOLEAN /\ ~b /\ SetRow(t.id, [rows[t.id] EXCEPT !.active = b]) BY <1>3
<1> HIDE DEF b
<1> QED BY <1>1, <1>2, <1>3, <1>4, ActiveColumnHolds

LEMMA RemoveHolds ==
  ASSUME IInv, Grounded, NEW r \in Requests, NEW n \in Places, Remove(r, n), NEW i \in Ids
  PROVE  InUse(i)' /\ Own(i)' /\ Origin(i)'
<1> DEFINE t == task[r][n]
<1>1. Turns(r, n) BY RemoveTells DEF Tells
<1>2. t.pc = "remove" BY DEF Remove, At
<1>3. rows' = [rows EXCEPT ![t.id] = None] /\ UNCHANGED astray BY DEF Remove
<1>4. rows \in [Ids -> Row \cup {None}] BY DEF IInv, TypesOK
<1>5. InUse(i) /\ Own(i) /\ Origin(i) BY DEF Grounded
<1>6. rows'[i] = None \/ rows'[i] = rows[i] BY <1>3, <1>4
<1>7. t = task[r][n] OBVIOUS
<1> HIDE DEF t
<1>8. t.pc # "park" /\ t.pc \notin After /\ ~Asks(t, i) BY <1>2 DEF After, Asks
<1>9. InUse(i)' BY <1>1, <1>5, <1>6, <1>7, <1>8, InUseStays
<1>10. Own(i)' BY <1>1, <1>3, <1>5, <1>6, <1>7, <1>8, OwnStays
<1>11. Origin(i)' BY <1>1, <1>5, <1>6, <1>7, <1>8, OriginStays
<1> QED BY <1>9, <1>10, <1>11

\* The steps that only read the table, or call Cloudflare.
LEMMA QuietHolds ==
  ASSUME IInv, Grounded, NEW r \in Requests, NEW n \in Places, NEW i \in Ids,
         \/ Filter(r, n) \/ Begin(r, n) \/ ReadAccount(r, n) \/ AuditError(r, n) \/ Reprobe(r, n)
         \/ Verify(r, n) \/ User(r, n) \/ Probe(r, n)
  PROVE  InUse(i)' /\ Own(i)' /\ Origin(i)'
<1> DEFINE t == task[r][n]
<1>1. Turns(r, n)
  BY FilterTells, BeginTells, ReadTells, AuditErrorTells, ReprobeTells, VerifyTells, UserTells, ProbeTells DEF Tells
<1>2. UNCHANGED <<rows, astray>>
  BY DEF Filter, Begin, ReadAccount, AuditError, Reprobe, Verify, User, Probe, Replied, Failed
<1>3. t.pc \in {"filter", "waiting", "read", "auditError", "reprobe", "verify", "user", "probe"}
  BY DEF Filter, Begin, ReadAccount, AuditError, Reprobe, Verify, User, Probe, At
<1>4. t.pc # "park" /\ t.pc \notin After /\ \A j \in Ids : ~Asks(t, j) BY <1>3 DEF After, Asks
<1> QED BY <1>1, <1>2, <1>4, StillHolds

LEMMA RereadHolds ==
  ASSUME IInv, Grounded, NEW r \in Requests, NEW n \in Places, Reread(r, n), NEW i \in Ids
  PROVE  InUse(i)' /\ Own(i)' /\ Origin(i)'
<1> DEFINE t == task[r][n]
           u == task'[r][n]
<1>1. /\ Turns(r, n) /\ Same(u, t) /\ u.id = t.id
      /\ t.kind \in Importing => u.pc \in After
      /\ t.kind \in {"create", "update"} /\ t.cred # None /\ rows[t.id] # None => u.pc = "list"
  BY RereadTells DEF Tells, Turns
<1>2. t.pc = "reread" /\ UNCHANGED <<rows, astray>> BY DEF Reread, At
<1>3. \A j \in Ids : rows[j] # None /\ Asks(t, j) => Asks(u, j) BY <1>1 DEF Asks, Same
<1> QED BY <1>1, <1>2, <1>3, StillHolds

LEMMA ListHolds ==
  ASSUME IInv, Grounded, NEW r \in Requests, NEW n \in Places, List(r, n), NEW i \in Ids
  PROVE  InUse(i)' /\ Own(i)' /\ Origin(i)'
<1> DEFINE t == task[r][n]
           u == task'[r][n]
<1>1. /\ Turns(r, n) /\ Same(u, t) /\ u.id = t.id
      /\ t.kind \in Importing => u.pc \in After
      /\ t.cred # None => u.pc = "setAccountId" \/ t.id \in astray'
  BY ListTells DEF Tells, Turns
<1>2. t.pc = "list" /\ UNCHANGED rows /\ astray \subseteq astray' BY DEF List, At, Replied, Failed
<1>3. \A j \in Ids : Asks(t, j) => Asks(u, j) \/ j \in astray' BY <1>1 DEF Asks, Same
<1> QED BY <1>1, <1>2, <1>3, StillHolds

LEMMA AuditHolds ==
  ASSUME IInv, Grounded, NEW r \in Requests, NEW n \in Places, Audit(r, n), NEW i \in Ids
  PROVE  InUse(i)' /\ Own(i)' /\ Origin(i)'
<1> DEFINE t == task[r][n]
           u == task'[r][n]
<1>1. /\ Turns(r, n) /\ u.id = t.id
      /\ t.kind \in Importing => u.pc \in After \/ rows[t.id] = None
  BY AuditTells DEF Tells
<1>2. t.pc = "audit" /\ UNCHANGED <<rows, astray>> BY DEF Audit, At
<1>3. \A j \in Ids : ~Asks(t, j) BY <1>2 DEF Asks
<1> QED BY <1>1, <1>2, <1>3, StillHolds

LEMMA StepHolds ==
  ASSUME IInv, Grounded, NEW r \in Requests, NEW n \in Places, Step(r, n), NEW i \in Ids
  PROVE  InUse(i)' /\ Own(i)' /\ Origin(i)'
BY QuietHolds, InsertHolds, UpdateRowHolds, RereadHolds, SetAccountIdHolds, ActivateHolds, ParkHolds, DeactivateHolds,
   AuditHolds, RemoveHolds, ListHolds DEF Step

LEMMA StepGrounded ==
  ASSUME IInv, Grounded, NEW r \in Requests, NEW n \in Places, Step(r, n)
  PROVE  Grounded'
<1>1. Turns(r, n) BY StepTells DEF Tells
<1>2. Replies'
  <2>1. Replies BY DEF Grounded
  <2>2. reply' = reply BY <1>1 DEF Turns
  <2> SUFFICES ASSUME NEW p \in Requests, reply[p] = "unsent", NEW q \in Places PROVE task'[p][q].pc = "none"
    BY <2>1, <2>2 DEF Replies
  <2>3. task[p][q].pc = "none" BY <2>1 DEF Replies
  <2>4. p # r BY <1>1, <2>1 DEF Replies, Turns
  <2> QED BY <1>1, <2>3, <2>4 DEF Turns
<1> QED BY <1>2, StepTold, StepApart, StepHolds DEF Grounded

-----------------------------------------------------------------------------
(***************************************************************************)
(* Arrivals, answers and the beginning                                     *)
(***************************************************************************)
LEMMA ArriveGrounded ==
  ASSUME IInv, Grounded, NEW r \in Requests, Arrive(r)
  PROVE  Grounded'
<1>1. PICK m \in {"alone", "together", "serial"}, tasks \in [Places -> TaskRecord] :
        Submit(r, m, tasks) /\ \A n \in Places : Fresh(tasks[n])
  BY ArriveSubmits
<1>2. reply[r] = "unsent" /\ Replies BY ArriveSubmits DEF Grounded
<1>3. \A n \in Places : task[r][n].pc = "none" BY <1>2 DEF Replies
<1>4. UNCHANGED <<rows, verified, astray>> /\ reply' = [reply EXCEPT ![r] = "open"] BY <1>1 DEF Submit
<1>5. /\ \A n \in Places : task'[r][n] = tasks[n]
      /\ \A p \in Requests \ {r}, q \in Places : task'[p][q] = task[p][q]
  BY <1>1 DEF Submit, IInv, TypesOK
<1>6. Replies' BY <1>2, <1>4, <1>5 DEF Replies
<1>7. ASSUME NEW p \in Requests, NEW q \in Places
      PROVE  Proven(task[p][q])' /\ Current(task[p][q])' /\ InLine(task[p][q])'
  <2>1. CASE p = r
    <3>1. Fresh(tasks[q]) /\ task'[p][q] = tasks[q] BY <1>1, <1>5, <2>1
    <3> QED BY <3>1 DEF Fresh, Proven, Current, InLine
  <2>2. CASE p # r
    <3>1. task'[p][q] = task[p][q] BY <1>5, <2>2
    <3> QED BY <1>4, <3>1, TaskKnows DEF Proven, Current, InLine, Vetted
  <2> QED BY <2>1, <2>2
<1>8. ASSUME NEW p \in Requests PROVE Apart(p)'
  <2>1. CASE p = r BY <1>1, <1>5, <2>1 DEF Apart, Fresh
  <2>2. CASE p # r
    <3>1. Apart(p) BY DEF Grounded
    <3> QED BY <1>5, <2>2, <3>1 DEF Apart
  <2> QED BY <2>1, <2>2
<1>9. ASSUME NEW i \in Ids PROVE InUse(i)' /\ Own(i)' /\ Origin(i)'
  <2>1. InUse(i) /\ Own(i) /\ Origin(i) BY DEF Grounded
  <2>2. \A t \in Tasks : t.pc # "none" => t \in Tasks' BY <1>3, <1>5 DEF Tasks
  <2>3. InUse(i)' BY <1>4, <2>1, <2>2 DEF InUse, CredOf
  <2>4. Own(i)' BY <1>4, <2>1, <2>2 DEF Own, Refreshing, CredOf
  <2>5. Origin(i)'
    <3> SUFFICES ASSUME rows[i] # None, rows[i].from # None
                 PROVE  \E n \in Places : Brings(task'[rows[i].from[1]][n], i, rows[i].from[2])
      BY <1>4 DEF Origin, Brings
    <3>1. PICK n \in Places : Brings(task[rows[i].from[1]][n], i, rows[i].from[2]) BY <2>1 DEF Origin
    <3>2. rows[i].from[1] \in Requests
      <4>1. rows[i] \in Row BY DEF IInv, TypesOK
      <4> QED BY <4>1 DEF Row
    <3>3. rows[i].from[1] # r BY <1>3, <3>1 DEF Brings, After
    <3> QED BY <1>5, <3>1, <3>2, <3>3
  <2> QED BY <2>3, <2>4, <2>5
<1> QED BY <1>6, <1>7, <1>8, <1>9 DEF Grounded, Told

LEMMA SameGrounded ==
  ASSUME Grounded, UNCHANGED <<rows, task, verified, astray>>, Replies'
  PROVE  Grounded'
<1>1. Told' BY DEF Grounded, Told, Proven, Current, InLine, Vetted
<1>2. \A r \in Requests : Apart(r)' BY DEF Grounded, Apart
<1>3. ASSUME NEW i \in Ids PROVE InUse(i)' /\ Own(i)' /\ Origin(i)'
  <2>1. InUse(i) /\ Own(i) /\ Origin(i) BY DEF Grounded
  <2>2. Tasks' = Tasks BY DEF Tasks
  <2> QED BY <2>1, <2>2 DEF InUse, Own, Refreshing, Origin, Brings, CredOf
<1> QED BY <1>1, <1>2, <1>3 DEF Grounded

LEMMA InitGrounded == ASSUME Init PROVE Grounded
<1>1. rows \in Tables /\ task = [r \in Requests |-> [n \in Places |-> NoTask]] BY DEF Init
<1>2. NoTask.pc = "none" /\ NoTask.kind = "edit" BY DEF NoTask, Task
<1>3. \A r \in Requests, n \in Places : task[r][n] = NoTask BY <1>1
<1>4. Replies BY <1>2, <1>3 DEF Init, Replies
<1>5. Proven(NoTask) /\ Current(NoTask) /\ InLine(NoTask) BY <1>2 DEF Proven, Current, InLine, Importing
<1>6. \A r \in Requests : Apart(r) BY <1>2, <1>3 DEF Apart, Importing
<1>7. ASSUME NEW i \in Ids PROVE InUse(i) /\ Own(i) /\ Origin(i)
  <2>1. rows[i] # None => rows[i].from = None BY <1>1, TablesAssumption DEF TablesAssumption
  <2>2. InUse(i) BY DEF Init, InUse
  <2>3. Own(i) BY DEF Init, Own
  <2> QED BY <2>1, <2>2, <2>3 DEF Origin
<1> QED BY <1>3, <1>4, <1>5, <1>6, <1>7 DEF Grounded, Told

LEMMA NextGrounded == ASSUME IInv, Grounded, [Next]_vars PROVE Grounded'
<1>1. Replies BY DEF Grounded
<1>2. CASE Next
  <2>1. PICK r \in Requests : Arrive(r) \/ Answer(r) \/ \E n \in Places : Step(r, n) BY <1>2 DEF Next
  <2>2. CASE Arrive(r) BY <2>2, ArriveGrounded
  <2>3. CASE Answer(r)
    <3>1. UNCHANGED <<rows, task, verified, astray>> BY <2>3 DEF Answer
    <3>2. Replies' BY <1>1, <2>3, <3>1 DEF Answer, Replies
    <3> QED BY <3>1, <3>2, SameGrounded
  <2>4. CASE \E n \in Places : Step(r, n) BY <2>4, StepGrounded
  <2> QED BY <2>1, <2>2, <2>3, <2>4
<1>3. CASE UNCHANGED vars
  <2>1. UNCHANGED <<rows, task, verified, astray>> /\ Replies' BY <1>1, <1>3 DEF vars, Replies
  <2> QED BY <2>1, SameGrounded
<1> QED BY <1>2, <1>3

LEMMA GroundedAlways == Spec => []Grounded
<1>1. Init => Grounded BY InitGrounded
<1>2. IInv /\ Grounded /\ [Next]_vars => Grounded' BY NextGrounded
<1> QED BY <1>1, <1>2, Invariant, PTL DEF Spec

\* What makes an account active has called Cloudflare with credentials that the account still has, or
\* with older ones that were replaced by others that had served: whatever edits, tests and batches run
\* at once, in both builds.
THEOREM ActiveKnown == Spec => []ActiveVerified
<1>1. Grounded => ActiveVerified BY DEF Grounded, ActiveVerified, InUse
<1> QED BY <1>1, GroundedAlways, PTL

\* PUT /accounts/:id with new credentials leaves an account_id of the old ones, and POST /accounts the one
\* its client gave, only until they have asked for the one the credentials open: no sequence of edits and tests makes another exception than a late or failed answer.
THEOREM AccountIdKept == Spec => []AccountIdOwn
<1>1. Grounded => AccountIdOwn BY DEF Grounded, AccountIdOwn, Own
<1> QED BY <1>1, GroundedAlways, PTL

\* The results of POST /accounts/import-csv are true, and a credential that a file repeats is imported
\* once, though its lines are imported five at a time beside other requests.
THEOREM ImportHonest == Spec => []ImportTruth
<1>1. ASSUME IInv, Grounded PROVE ImportTruth
  <2> SUFFICES ASSUME NEW i \in Ids, rows[i] # None, rows[i].from # None
               PROVE  /\ \A j \in Ids \ {i} : rows[j] = None \/ rows[j].from # rows[i].from
                      /\ \E n \in Places : /\ task[rows[i].from[1]][n].id = i
                                           /\ task[rows[i].from[1]][n].pc
                                                \notin {"none", "skipped", "refused", "error", "broken"}
    BY DEF ImportTruth
  <2> DEFINE r == rows[i].from[1]
             c == rows[i].from[2]
  <2>1. PICK n \in Places : Brings(task[r][n], i, c) BY <1>1 DEF Grounded, Origin
  <2>2. r \in Requests
    <3>1. rows[i] \in Row BY <1>1 DEF IInv, TypesOK
    <3> QED BY <3>1 DEF Row
  <2>3. ASSUME NEW j \in Ids \ {i}, rows[j] # None, rows[j].from = rows[i].from PROVE FALSE
    <3>1. PICK m \in Places : Brings(task[r][m], j, c) BY <1>1, <2>3 DEF Grounded, Origin
    <3>2. m # n BY <2>1, <3>1 DEF Brings
    <3>3. Apart(r) BY <1>1, <2>2 DEF Grounded
    <3>4. m < n \/ n < m BY <3>2 DEF Places
    <3> HIDE DEF r, c
    <3> QED BY <2>1, <3>1, <3>3, <3>4 DEF Apart, Brings, After
  <2>4. task[r][n].id = i /\ task[r][n].pc \notin {"none", "skipped", "refused", "error", "broken"}
    BY <2>1 DEF Brings, After
  <2> QED BY <2>3, <2>4
<1> QED BY <1>1, Invariant, GroundedAlways, PTL
=============================================================================
