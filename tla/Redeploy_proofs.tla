--------------------------- MODULE Redeploy_proofs ---------------------------
(***************************************************************************)
(* Proofs about module RedeployForms, for any scripts, names, values,      *)
(* requests and bounds: its type invariant; that no step changes or        *)
(* deletes a secret which every request under way keeps; and what a        *)
(* request nothing interferes with makes of its configuration, at every    *)
(* point of its way and when it succeeds, and of the previews.             *)
(***************************************************************************)
EXTENDS RedeployProps, TLAPS

\* What keeps a kept secret out of every write: a version holds what its own form sends, unless its
\* bindings were ignored, a purge is of names the form has no secret for, and only unkept secrets are
\* stored.
VersionOwn == \A r \in Reqs :
  req[r].version # NoVersion =>
    At(r, "resolve") = FALSE /\ (req[r].version = Sent(req[r].rows) \/ "ignored" \in req[r].swallowed)
TodoSpares == \A r \in Reqs, n \in Names :
  n \in req[r].todo => /\ At(r, "purge") => req[r].rows[n].kind # "secret"
                       /\ At(r, "secrets") => ~Keeps(r, n)
IInv == TypeOK /\ VersionOwn /\ TodoSpares

ReqOK(q) ==
  /\ q \in RequestType
  /\ q.pc # "idle" => q.script \in Scripts
  /\ q.version # NoVersion => q.pc # "resolve" /\ (q.version = Sent(q.rows) \/ "ignored" \in q.swallowed)
  /\ \A n \in Names : n \in q.todo =>
       /\ q.pc = "purge" => q.rows[n].kind # "secret"
       /\ q.pc = "secrets" => ~(q.rows[n].kind = "secret" /\ q.rows[n].keep)

\* The invariant of the requests, record by record.
LEMMA PerRequest ==
  ASSUME TypeOK
  PROVE  (VersionOwn /\ TodoSpares) <=> \A r \in Reqs : ReqOK(req[r])
BY DEF TypeOK, VersionOwn, TodoSpares, ReqOK, At, Keeps

LEMMA Sets == Rows = [Names -> RowSet] /\ Configs = [Names -> EntrySet]
BY DEF Rows, Configs

LEMMA RowFields ==
  ASSUME NEW row \in RowSet
  PROVE  /\ row.kind \in {"none", "plain", "secret", "bound", "ai"}
         /\ row.val \in Texts /\ row.keep \in BOOLEAN
         /\ row.kind = "none" => row = Row("none", Empty) /\ row.val = Empty /\ ~row.keep
         /\ row.kind = "ai" => row = Row("ai", Empty) /\ row.val = Empty /\ ~row.keep
<1>1. CASE row = Row("none", Empty)
  BY <1>1 DEF Row, Texts
<1>4. CASE row = Row("ai", Empty)
  BY <1>4 DEF Row, Texts
<1>2. CASE row \in [kind : {"plain", "secret", "bound"}, val : Texts, keep : BOOLEAN]
  BY <1>2
<1>3. QED
  BY <1>1, <1>2, <1>4 DEF RowSet

LEMMA EntryFields ==
  ASSUME NEW e \in EntrySet
  PROVE  /\ e.kind \in {"none", "plain", "secret", "bound", "other", "ai"} /\ e.val \in Texts
         /\ e = [kind |-> e.kind, val |-> e.val]
         /\ e.kind = "none" <=> e = Absent
         /\ e.kind \in {"none", "ai"} => e.val = Empty
<1>1. CASE e \in {Absent, [kind |-> "ai", val |-> Empty]}
  BY <1>1 DEF Absent, Texts
<1>2. CASE e \in [kind : {"plain", "secret", "bound", "other"}, val : Texts]
  BY <1>2 DEF Absent
<1>3. QED
  BY <1>1, <1>2 DEF EntrySet

\* The helpers stay within their types.
LEMMA RowTyped ==
  ASSUME NEW k \in {"none", "plain", "secret", "bound", "ai"}, NEW v \in Texts,
         k \in {"none", "ai"} => v = Empty
  PROVE  Row(k, v) \in RowSet
BY DEF Row, RowSet

LEMMA EntryTyped ==
  ASSUME NEW k \in {"none", "plain", "secret", "bound", "other", "ai"}, NEW v \in Texts,
         k \in {"none", "ai"} => v = Empty
  PROVE  [kind |-> k, val |-> v] \in EntrySet
BY DEF EntrySet, Absent

LEMMA BlankTyped == Blank \in Configs
BY Sets DEF Blank, EntrySet

LEMMA NoRowTyped == NoRow \in Rows
BY RowTyped, Sets DEF NoRow, Texts

LEMMA SentTyped == ASSUME NEW rows \in Rows PROVE Sent(rows) \in Configs
<1>1. \A n \in Names : Sent(rows)[n] \in EntrySet
  <2> SUFFICES ASSUME NEW n \in Names PROVE Sent(rows)[n] \in EntrySet
    OBVIOUS
  <2>1. rows[n] \in RowSet
    BY Sets
  <2>2. Absent \in EntrySet
    BY DEF EntrySet
  <2>3. [kind |-> rows[n].kind, val |-> rows[n].val] \in EntrySet
    BY <2>1, RowFields, EntryTyped
  <2>4. QED
    BY <2>2, <2>3 DEF Sent
<1>2. QED
  BY <1>1, Sets DEF Sent

LEMMA MergedTyped ==
  ASSUME NEW c \in Configs, NEW sent \in Configs
  PROVE  Uploaded(c, sent) \in Configs /\ Patched(c, sent) \in Configs /\ Served(c) \in Configs
BY Sets DEF Uploaded, Patched, Served, EntrySet

LEMMA SetsOfNames ==
  ASSUME NEW c, NEW rows
  PROVE  Doomed(c, rows) \subseteq Names /\ Renewed(rows) \subseteq Names
BY DEF Doomed, Renewed

LEMMA PrefillTyped == ASSUME NEW c \in Configs PROVE Prefill(c) \in Rows
<1>1. \A n \in Names : Prefill(c)[n] \in RowSet
  <2> SUFFICES ASSUME NEW n \in Names PROVE Prefill(c)[n] \in RowSet
    OBVIOUS
  <2>1. c[n] \in EntrySet
    BY Sets
  <2>2. QED
    BY <2>1, EntryFields DEF Prefill, RowSet, Row, Texts
<1>2. QED
  BY <1>1, Sets DEF Prefill

LEMMA ResentTyped ==
  ASSUME NEW c \in Configs, NEW n, NEW row \in RowSet
  PROVE  Resent(c, n, row) \in Rows
<1>1. \A m \in Names : Resent(c, n, row)[m] \in RowSet
  <2> SUFFICES ASSUME NEW m \in Names PROVE Resent(c, n, row)[m] \in RowSet
    OBVIOUS
  <2>1. QED
    BY DEF Resent, RowSet, Row, Texts
<1>2. QED
  BY <1>1, Sets DEF Resent

LEMMA IdleOK == ReqOK(Idle) /\ Idle.pc = "idle"
<1>1. Idle.rows \in Rows /\ Idle.seen \in Configs /\ Idle.start \in Configs
  BY NoRowTyped, BlankTyped DEF Idle, NoRow
<1>2. QED
  BY <1>1 DEF Idle, ReqOK, RequestType

-----------------------------------------------------------------------------
(***************************************************************************)
(* The server's part of the invariant, and the steps that keep it.         *)
(***************************************************************************)
ServerOK ==
  /\ build \in {"node", "worker"}
  /\ sort \in [Scripts -> {"classic", "versioned", "pages", "absent"}]
  /\ live \in [Scripts -> Configs]
  /\ latest \in [Scripts -> Configs]
  /\ preview \in [Scripts -> Configs]
  /\ req \in [Reqs -> RequestType]
  /\ \A r \in Reqs : ReqOK(req[r])

ClientOK ==
  /\ dlg \in DialogType
  /\ dlg.open => dlg.script \in Scripts
  /\ drawer \in DrawerType
  /\ drawer.phase = "reading" => drawer.from \in Scripts /\ drawer.script \in Scripts
  /\ work \in Nat

LEMMA IInvSplit == IInv <=> ServerOK /\ ClientOK
BY DEF IInv, TypeOK, ServerOK, ClientOK, VersionOwn, TodoSpares, ReqOK, At, Keeps

\* A step leaves the other requests as they were but for being alone.
LEMMA StepTyped ==
  ASSUME ServerOK, NEW r \in Reqs, req[r].script \in Scripts,
         NEW to, ReqOK(to), NEW c \in Configs, NEW v \in Configs,
         Step(r, to, c, v), UNCHANGED build, preview' \in [Scripts -> Configs],
         sort' \in [Scripts -> {"classic", "versioned", "pages", "absent"}]
  PROVE  ServerOK'
<1> DEFINE moved == c # live[req[r].script] \/ v # latest[req[r].script]
<1> DEFINE other(q) == [req[q] EXCEPT !.alone = @ /\ ~(moved /\ req[q].script = req[r].script)]
<1>1. live' \in [Scripts -> Configs] /\ latest' \in [Scripts -> Configs]
  BY DEF Step, ServerOK
<1>2. req' = [q \in Reqs |-> IF q = r THEN to ELSE other(q)]
  BY DEF Step
<1>3. \A q \in Reqs : other(q) \in RequestType /\ ReqOK(other(q))
  <2> SUFFICES ASSUME NEW q \in Reqs PROVE other(q) \in RequestType /\ ReqOK(other(q))
    OBVIOUS
  <2>1. req[q] \in RequestType /\ ReqOK(req[q])
    BY DEF ServerOK
  <2>2. (req[q].alone /\ ~(moved /\ req[q].script = req[r].script)) \in BOOLEAN
    OBVIOUS
  <2>3. other(q) = [req[q] EXCEPT !.alone = (req[q].alone /\ ~(moved /\ req[q].script = req[r].script))]
    BY <2>1 DEF RequestType
  <2> HIDE DEF moved
  <2>4. other(q) \in RequestType
    BY <2>1, <2>2, <2>3 DEF RequestType
  <2>5. /\ other(q).pc = req[q].pc /\ other(q).script = req[q].script
        /\ other(q).version = req[q].version /\ other(q).rows = req[q].rows
        /\ other(q).todo = req[q].todo /\ other(q).swallowed = req[q].swallowed
    BY <2>1, <2>3 DEF RequestType
  <2>6. QED
    BY <2>1, <2>4, <2>5 DEF ReqOK
<1>4. to \in RequestType
  BY DEF ReqOK
<1> HIDE DEF other
<1>5. req' \in [Reqs -> RequestType] /\ \A q \in Reqs : ReqOK(req'[q])
  BY <1>2, <1>3, <1>4
<1>6. QED
  BY <1>1, <1>5 DEF ServerOK

LEMMA GoTyped ==
  ASSUME ServerOK, NEW r \in Reqs, req[r].script \in Scripts,
         NEW to, ReqOK(to), Go(r, to), UNCHANGED <<build, sort, preview>>
  PROVE  ServerOK'
<1>1. Conf(r) \in Configs /\ latest[req[r].script] \in Configs
  BY DEF Conf, ServerOK
<1>2. sort' \in [Scripts -> {"classic", "versioned", "pages", "absent"}] /\ preview' \in [Scripts -> Configs]
  BY DEF ServerOK
<1>3. QED
  BY <1>1, <1>2, StepTyped DEF Go

\* What the requests of a server state are.
LEMMA ReqFacts ==
  ASSUME ServerOK, NEW r \in Reqs
  PROVE  /\ req[r] \in RequestType
         /\ ReqOK(req[r])
         /\ req[r].pc # "idle" => req[r].script \in Scripts /\ Conf(r) \in Configs
BY DEF ServerOK, ReqOK, Conf

Quiet == {"read", "fetch", "upload", "junk", "observe", "publish", "reread", "patch", "done"}

\* A request that goes on to a point where it has nothing to delete or to store.
LEMMA Turned ==
  ASSUME NEW q, ReqOK(q), q.pc # "idle", NEW pc \in Quiet
  PROVE  ReqOK([q EXCEPT !.pc = pc])
BY DEF ReqOK, RequestType, Quiet

LEMMA Flagged ==
  ASSUME NEW q, ReqOK(q)
  PROVE  /\ \A b \in BOOLEAN : ReqOK([q EXCEPT !.ok = b])
         /\ \A b \in BOOLEAN : ReqOK([q EXCEPT !.uploaded = b])
         /\ \A w \in {"blind", "undeleted", "ignored", "undeployed"} :
               ReqOK([q EXCEPT !.swallowed = q.swallowed \cup {w}])
BY DEF ReqOK, RequestType

LEMMA Ended ==
  ASSUME NEW q, ReqOK(q), q.pc # "idle", NEW ok \in BOOLEAN
  PROVE  ReqOK([q EXCEPT !.pc = "done", !.ok = ok])
BY DEF ReqOK, RequestType

\* A request that goes on to delete, or to store, what its form lets it.
LEMMA TurnedToPurge ==
  ASSUME NEW q, ReqOK(q), q.pc \notin {"idle", "resolve"}, NEW c \in Configs
  PROVE  ReqOK([q EXCEPT !.pc = "purge", !.seen = c, !.todo = Doomed(c, q.rows)])
<1>1. Doomed(c, q.rows) \in SUBSET Names /\ \A n \in Doomed(c, q.rows) : q.rows[n].kind # "secret"
  BY DEF Doomed
<1>2. QED
  BY <1>1 DEF ReqOK, RequestType

LEMMA TurnedToSecrets ==
  ASSUME NEW q, ReqOK(q), q.pc \notin {"idle", "resolve"}
  PROVE  ReqOK([q EXCEPT !.pc = "secrets", !.todo = Renewed(q.rows)])
<1>1. /\ Renewed(q.rows) \in SUBSET Names
      /\ \A n \in Renewed(q.rows) : ~(q.rows[n].kind = "secret" /\ q.rows[n].keep)
  BY DEF Renewed
<1>2. QED
  BY <1>1 DEF ReqOK, RequestType

LEMMA LessToDo ==
  ASSUME NEW q, ReqOK(q), NEW n
  PROVE  ReqOK([q EXCEPT !.todo = q.todo \ {n}])
BY DEF ReqOK, RequestType

LEMMA Unseen ==
  ASSUME NEW q, ReqOK(q), NEW c \in Configs
  PROVE  ReqOK([q EXCEPT !.seen = c])
BY DEF ReqOK, RequestType

LEMMA Versioned ==
  ASSUME NEW q, ReqOK(q), q.pc # "resolve"
  PROVE  ReqOK([q EXCEPT !.version = Sent(q.rows)])
<1>1. Sent(q.rows) \in Configs
  BY SentTyped DEF ReqOK, RequestType
<1>2. QED
  BY <1>1 DEF ReqOK, RequestType

LEMMA VersionedBlind ==
  ASSUME NEW q, ReqOK(q), q.pc # "resolve", "ignored" \in q.swallowed, NEW v \in Configs
  PROVE  ReqOK([q EXCEPT !.version = v])
BY DEF ReqOK, RequestType

\* A request that fails is answered.
LEMMA Failed ==
  ASSUME ServerOK, NEW r \in Reqs, req[r].pc # "idle", Fail(r), UNCHANGED <<build, sort, preview>>
  PROVE  ServerOK'
<1>1. ReqOK(Answer(r, FALSE))
  BY ReqFacts, Ended DEF Answer
<1>2. QED
  BY <1>1, GoTyped, ReqFacts DEF Fail

-----------------------------------------------------------------------------
(***************************************************************************)
(* One lemma per action of the server.                                     *)
(***************************************************************************)
LEMMA ResolveOK == ASSUME ServerOK, NEW r \in Reqs, Resolve(r) PROVE ServerOK'
<1>1. req[r].pc = "resolve" /\ UNCHANGED <<build, sort, preview>>
  BY DEF Resolve, At
<1>2. CASE Fail(r)
  BY <1>1, <1>2, Failed
<1>3. CASE ~Fail(r)
  <2> DEFINE filled(v) == [n \in Names |->
        IF req[r].rows[n].kind = "bound" /\ req[r].rows[n].val = Empty
        THEN Row("bound", v) ELSE req[r].rows[n]]
  <2> DEFINE next == CASE req[r].mode = "redeploy" -> "read"
                       [] req[r].mode = "deploy" -> "upload"
                       [] OTHER -> "patch"
  <2>1. PICK v \in Values : Go(r, [req[r] EXCEPT !.rows = filled(v), !.pc = next])
    BY <1>3 DEF Resolve
  <2>2. req[r] \in RequestType /\ ReqOK(req[r])
    BY ReqFacts
  <2>3. next \in {"read", "upload", "patch"}
    OBVIOUS
  <2>4. filled(v) \in Rows
    <3>1. \A n \in Names : req[r].rows[n] \in RowSet
      BY <2>2, Sets DEF RequestType
    <3>2. Row("bound", v) \in RowSet
      BY RowTyped DEF Texts
    <3>3. QED
      BY <3>1, <3>2, Sets
  <2> HIDE DEF filled, next
  <2>5. ReqOK([req[r] EXCEPT !.rows = filled(v), !.pc = next])
    BY <1>1, <2>2, <2>3, <2>4 DEF ReqOK, RequestType
  <2>6. QED
    BY <1>1, <2>1, <2>5, GoTyped, ReqFacts
<1>4. QED
  BY <1>2, <1>3

LEMMA SeenOK ==
  ASSUME ServerOK, NEW r \in Reqs, At(r, "read"), NEW c \in {Conf(r), Blank}
  PROVE  ReqOK(Seen(r, c))
<1>1. req[r].pc = "read" /\ req[r] \in RequestType /\ ReqOK(req[r]) /\ c \in Configs
  BY ReqFacts, BlankTyped DEF At
<1> DEFINE q == [req[r] EXCEPT !.pc = "purge", !.seen = c, !.todo = Doomed(c, req[r].rows)]
<1>2. ReqOK(q)
  BY <1>1, TurnedToPurge
<1>3. q.swallowed = req[r].swallowed
  BY <1>1 DEF RequestType
<1>4. CASE c = Conf(r)
  <2>1. Seen(r, c) = q
    BY <1>1, <1>4 DEF Seen, RequestType
  <2>2. QED
    BY <1>2, <2>1
<1>5. CASE c # Conf(r)
  <2>1. Seen(r, c) = [q EXCEPT !.swallowed = q.swallowed \cup {"blind"}]
    BY <1>1, <1>5, <1>3 DEF Seen, RequestType
  <2>2. QED
    BY <1>2, <2>1, Flagged
<1>6. QED
  BY <1>4, <1>5

LEMMA ReadNodeOK == ASSUME ServerOK, NEW r \in Reqs, ReadNode(r) PROVE ServerOK'
<1>1. req[r].pc = "read" /\ At(r, "read") /\ UNCHANGED <<build, sort, preview>>
  BY DEF ReadNode, At
<1>2. CASE Fail(r)
  BY <1>1, <1>2, Failed
<1>3. CASE \E c \in {Conf(r), Blank} : Go(r, Seen(r, c))
  BY <1>1, <1>3, SeenOK, GoTyped, ReqFacts
<1>4. QED
  BY <1>2, <1>3 DEF ReadNode

LEMMA ReadWorkerOK == ASSUME ServerOK, NEW r \in Reqs, ReadWorker(r) PROVE ServerOK'
<1>1. req[r].pc = "read" /\ At(r, "read") /\ UNCHANGED <<build, sort, preview>>
  BY DEF ReadWorker, At
<1>2. CASE Fail(r)
  BY <1>1, <1>2, Failed
<1>3. CASE \E c \in {Conf(r), Blank} : Go(r, Seen(r, c))
  BY <1>1, <1>3, SeenOK, GoTyped, ReqFacts
<1>4. QED
  BY <1>2, <1>3 DEF ReadWorker

LEMMA PurgeOK == ASSUME ServerOK, NEW r \in Reqs, Purge(r) PROVE ServerOK'
<1>1. req[r].pc = "purge" /\ UNCHANGED <<build, sort, preview>>
  BY DEF Purge, At
<1>2. PICK n \in req[r].todo :
        LET to == [req[r] EXCEPT !.todo = @ \ {n}] IN
        \/ Step(r, to, [Conf(r) EXCEPT ![n] = IF @.kind = "secret" THEN Absent ELSE @],
                latest[req[r].script])
        \/ Go(r, [to EXCEPT !.swallowed = @ \cup {"undeleted"}])
  BY DEF Purge
<1>3. req[r] \in RequestType /\ ReqOK(req[r]) /\ req[r].script \in Scripts /\ Conf(r) \in Configs
  BY <1>1, ReqFacts
<1> DEFINE to == [req[r] EXCEPT !.todo = req[r].todo \ {n}]
<1>4. ReqOK(to)
  BY <1>3, LessToDo
<1>5. to.swallowed = req[r].swallowed /\ to = [req[r] EXCEPT !.todo = @ \ {n}]
  BY <1>3 DEF RequestType
<1>6. CASE Step(r, to, [Conf(r) EXCEPT ![n] = IF @.kind = "secret" THEN Absent ELSE @],
                latest[req[r].script])
  <2>1. [Conf(r) EXCEPT ![n] = IF @.kind = "secret" THEN Absent ELSE @] \in Configs
    BY <1>3, BlankTyped DEF Configs, Blank, Absent, Texts
  <2>2. latest[req[r].script] \in Configs /\ sort' \in [Scripts -> {"classic", "versioned", "pages", "absent"}]
    BY <1>1, <1>3 DEF ServerOK
  <2> HIDE DEF to
  <2>3. QED
    BY <1>1, <1>3, <1>4, <1>6, <2>1, <2>2, StepTyped DEF ServerOK
<1>7. CASE Go(r, [to EXCEPT !.swallowed = @ \cup {"undeleted"}])
  <2> HIDE DEF to
  <2>1. ReqOK([to EXCEPT !.swallowed = to.swallowed \cup {"undeleted"}])
    BY <1>4, Flagged
  <2>2. [to EXCEPT !.swallowed = to.swallowed \cup {"undeleted"}] = [to EXCEPT !.swallowed = @ \cup {"undeleted"}]
    BY <1>4 DEF ReqOK, RequestType
  <2>3. QED
    BY <1>1, <1>3, <1>7, <2>1, <2>2, GoTyped
<1>8. QED
  BY <1>2, <1>5, <1>6, <1>7

LEMMA DecideOK == ASSUME ServerOK, NEW r \in Reqs, Decide(r) PROVE ServerOK'
<1>1. req[r].pc = "purge" /\ UNCHANGED <<build, sort, preview>>
  BY DEF Decide, At
<1>2. req[r] \in RequestType /\ ReqOK(req[r]) /\ req[r].script \in Scripts
  BY <1>1, ReqFacts
<1> DEFINE up == To(r, IF req[r].code THEN "upload" ELSE "fetch")
           on == [req[r] EXCEPT !.pc = "secrets", !.todo = Renewed(req[r].rows)]
<1>3. ReqOK(up) /\ ReqOK([up EXCEPT !.seen = Blank])
  BY <1>1, <1>2, Turned, Unseen, BlankTyped DEF To, Quiet
<1>4. ReqOK(on) /\ ReqOK([on EXCEPT !.seen = Blank])
  BY <1>1, <1>2, TurnedToSecrets, Unseen, BlankTyped
<1>5. [To(r, "secrets") EXCEPT !.seen = Blank, !.todo = Renewed(req[r].rows)] = [on EXCEPT !.seen = Blank]
  BY <1>2 DEF To, RequestType
<1> HIDE DEF up, on
<1>6. Go(r, [up EXCEPT !.seen = Blank]) \/ Go(r, [on EXCEPT !.seen = Blank])
  BY <1>5 DEF Decide, up
<1>7. QED
  BY <1>1, <1>2, <1>3, <1>4, <1>6, GoTyped

LEMMA FetchNodeOK == ASSUME ServerOK, NEW r \in Reqs, FetchNode(r) PROVE ServerOK'
<1>1. req[r].pc = "fetch" /\ UNCHANGED <<build, sort, preview>>
  BY DEF FetchNode, At
<1>2. ReqOK(To(r, "upload"))
  BY <1>1, ReqFacts, Turned DEF To, Quiet
<1>3. QED
  BY <1>1, <1>2, Failed, GoTyped, ReqFacts DEF FetchNode

LEMMA FetchWorkerOK == ASSUME ServerOK, NEW r \in Reqs, FetchWorker(r) PROVE ServerOK'
<1>1. req[r].pc = "fetch" /\ UNCHANGED <<build, sort, preview>>
  BY DEF FetchWorker, At
<1>2. ReqOK(To(r, "upload")) /\ ReqOK(To(r, "junk"))
  BY <1>1, ReqFacts, Turned DEF To, Quiet
<1>3. Fail(r) \/ Go(r, To(r, "upload")) \/ Go(r, To(r, "junk"))
  BY DEF FetchWorker
<1>4. QED
  BY <1>1, <1>2, <1>3, Failed, GoTyped, ReqFacts

LEMMA OnOK ==
  ASSUME ServerOK, NEW r \in Reqs, At(r, "upload")
  PROVE  LET on == [To(r, "observe") EXCEPT !.uploaded = TRUE]
         IN /\ ReqOK(on) /\ on.rows = req[r].rows /\ on.pc = "observe"
            /\ ReqOK([on EXCEPT !.version = Sent(req[r].rows)])
            /\ ReqOK(Swallow(r, "ignored", "observe"))
            /\ \A v \in Configs : ReqOK([Swallow(r, "ignored", "observe") EXCEPT !.version = v])
<1>1. req[r].pc = "upload" /\ req[r] \in RequestType /\ ReqOK(req[r])
  BY ReqFacts DEF At
<1> DEFINE go == To(r, "observe")
           on == [go EXCEPT !.uploaded = TRUE]
<1>2. ReqOK(go) /\ go.pc = "observe" /\ go.rows = req[r].rows /\ go.swallowed = req[r].swallowed
  BY <1>1, Turned DEF To, Quiet, RequestType
<1>3. Swallow(r, "ignored", "observe") = [go EXCEPT !.swallowed = go.swallowed \cup {"ignored"}]
  BY <1>1 DEF Swallow, To, RequestType
<1> HIDE DEF go
<1>4. ReqOK(on)
  BY <1>2, Flagged
<1>5. on.pc = "observe" /\ on.rows = req[r].rows
  BY <1>2 DEF ReqOK, RequestType
<1>6. ReqOK([on EXCEPT !.version = Sent(on.rows)])
  <2> HIDE DEF on
  <2> QED BY <1>4, <1>5, Versioned
<1> DEFINE ign == [go EXCEPT !.swallowed = go.swallowed \cup {"ignored"}]
<1>7. ReqOK(ign)
  BY <1>2, Flagged
<1>8. "ignored" \in ign.swallowed /\ ign.pc = "observe"
  BY <1>2 DEF ReqOK, RequestType
<1>9. \A v \in Configs : ReqOK([ign EXCEPT !.version = v])
  <2> HIDE DEF ign
  <2> QED BY <1>7, <1>8, VersionedBlind
<1>10. QED
  BY <1>3, <1>4, <1>5, <1>6, <1>7, <1>9 DEF go

\* What an upload may write: the sent configuration, in what serves or in a version.
LEMMA PutOK ==
  ASSUME ServerOK, NEW r \in Reqs, At(r, "upload"), Put(r), UNCHANGED <<build, preview>>,
         sort' \in [Scripts -> {"classic", "versioned", "pages", "absent"}]
  PROVE  ServerOK'
<1> DEFINE s == req[r].script
           sent == Sent(req[r].rows)
           on == [To(r, "observe") EXCEPT !.uploaded = TRUE]
<1>1. req[r].pc = "upload" /\ req[r] \in RequestType /\ s \in Scripts
  BY ReqFacts DEF At
<1>2. /\ ReqOK(on)
      /\ ReqOK([on EXCEPT !.version = sent])
      /\ ReqOK(Swallow(r, "ignored", "observe"))
      /\ \A v \in Configs : ReqOK([Swallow(r, "ignored", "observe") EXCEPT !.version = v])
  BY OnOK
<1>3. sent \in Configs /\ live[s] \in Configs /\ preview' \in [Scripts -> Configs]
  BY <1>1, SentTyped DEF RequestType, ServerOK
<1>4. Uploaded(live[s], sent) \in Configs /\ Served(live[s]) \in Configs
  BY <1>3, MergedTyped
<1>5. \/ \E to \in {on, [on EXCEPT !.version = sent]} :
            Step(r, to, Uploaded(live[s], sent), sent) \/ Step(r, to, live[s], sent)
      \/ \E to \in {Swallow(r, "ignored", "observe"),
                    [Swallow(r, "ignored", "observe") EXCEPT !.version = Served(live[s])]} :
            Step(r, to, live[s], Served(live[s]))
  BY DEF Put, Replies
<1> HIDE DEF sent, on
<1>6. QED
  BY <1>1, <1>2, <1>3, <1>4, <1>5, StepTyped

LEMMA SortTyped ==
  ASSUME ServerOK, NEW s, \E k \in Born(s) : sort' = [sort EXCEPT ![s] = k]
  PROVE  sort' \in [Scripts -> {"classic", "versioned", "pages", "absent"}]
BY DEF ServerOK, Born

LEMMA UploadNodeOK == ASSUME ServerOK, NEW r \in Reqs, UploadNode(r) PROVE ServerOK'
<1> DEFINE s == req[r].script
           sent == Sent(req[r].rows)
           on == [To(r, "observe") EXCEPT !.uploaded = TRUE]
<1>1. req[r].pc = "upload" /\ At(r, "upload") /\ UNCHANGED <<build, preview>> /\ s \in Scripts
      /\ req[r] \in RequestType
  BY ReqFacts DEF UploadNode, At
<1>2. CASE Fail(r) /\ UNCHANGED sort
  BY <1>1, <1>2, Failed
<1>3. CASE /\ Step(r, [To(r, "observe") EXCEPT !.uploaded = TRUE, !.version = sent], live[s], sent)
           /\ UNCHANGED sort
  <2>1. [To(r, "observe") EXCEPT !.uploaded = TRUE, !.version = sent] = [on EXCEPT !.version = sent]
    BY <1>1 DEF To, RequestType
  <2>2. ReqOK([on EXCEPT !.version = sent])
    BY <1>1, OnOK
  <2>3. sent \in Configs /\ live[s] \in Configs
    BY <1>1, SentTyped DEF RequestType, ServerOK
  <2>4. sort' \in [Scripts -> {"classic", "versioned", "pages", "absent"}]
        /\ preview' \in [Scripts -> Configs]
    BY <1>1, <1>3 DEF ServerOK
  <2> HIDE DEF sent, on
  <2>5. QED
    BY <1>1, <1>3, <2>1, <2>2, <2>3, <2>4, StepTyped
<1>4. CASE Put(r) /\ \E k \in Born(s) : sort' = [sort EXCEPT ![s] = k]
  BY <1>1, <1>4, SortTyped, PutOK
<1>5. QED
  BY <1>2, <1>3, <1>4 DEF UploadNode

LEMMA UploadWorkerOK == ASSUME ServerOK, NEW r \in Reqs, UploadWorker(r) PROVE ServerOK'
<1>1. req[r].pc \in {"upload", "junk"} /\ UNCHANGED <<build, preview>>
  BY DEF UploadWorker
<1>2. CASE Fail(r) /\ UNCHANGED sort
  BY <1>1, <1>2, Failed
<1>3. CASE At(r, "upload") /\ Put(r) /\ \E k \in Born(req[r].script) : sort' = [sort EXCEPT ![req[r].script] = k]
  BY <1>1, <1>3, SortTyped, PutOK
<1>4. QED
  BY <1>2, <1>3 DEF UploadWorker

LEMMA ObserveOK == ASSUME ServerOK, NEW r \in Reqs, Observe(r) PROVE ServerOK'
<1>1. req[r].pc = "observe" /\ UNCHANGED <<build, sort, preview>>
  BY DEF Observe, At
<1>2. ReqOK(To(r, "publish"))
  BY <1>1, ReqFacts, Turned DEF To, Quiet
<1>3. QED
  BY <1>1, <1>2, Failed, GoTyped, ReqFacts DEF Observe

LEMMA PublishedOK ==
  ASSUME ServerOK, NEW r \in Reqs, At(r, "publish")
  PROVE  /\ ReqOK(Published(r))
         /\ ReqOK([Published(r) EXCEPT !.swallowed = @ \cup {"undeployed"}])
<1>1. req[r].pc = "publish" /\ req[r] \in RequestType /\ ReqOK(req[r])
  BY ReqFacts DEF At
<1>2. ReqOK(Answer(r, TRUE)) /\ ReqOK(To(r, "reread"))
  BY <1>1, Ended, Turned DEF Answer, To, Quiet
<1>3. ReqOK([req[r] EXCEPT !.pc = "secrets", !.todo = Renewed(req[r].rows)])
  BY <1>1, TurnedToSecrets
<1>4. [To(r, "secrets") EXCEPT !.todo = Renewed(req[r].rows)]
        = [req[r] EXCEPT !.pc = "secrets", !.todo = Renewed(req[r].rows)]
  BY <1>1 DEF To, RequestType
<1>5. ReqOK(Published(r))
  BY <1>2, <1>3, <1>4 DEF Published
<1> DEFINE p == Published(r)
<1> HIDE DEF p
<1>6. ReqOK([p EXCEPT !.swallowed = p.swallowed \cup {"undeployed"}])
  BY <1>5, Flagged DEF p
<1>7. [p EXCEPT !.swallowed = p.swallowed \cup {"undeployed"}] = [p EXCEPT !.swallowed = @ \cup {"undeployed"}]
  BY <1>5 DEF p, ReqOK, RequestType
<1>8. QED
  BY <1>5, <1>6, <1>7 DEF p

LEMMA PublishOK == ASSUME ServerOK, NEW r \in Reqs, Publish(r) PROVE ServerOK'
<1> DEFINE s == req[r].script
<1>1. req[r].pc = "publish" /\ At(r, "publish") /\ UNCHANGED <<build, sort, preview>>
  BY DEF Publish, At
<1>2. /\ ReqOK(Published(r))
      /\ ReqOK([Published(r) EXCEPT !.swallowed = @ \cup {"undeployed"}])
  BY <1>1, PublishedOK
<1>3. s \in Scripts /\ live[s] \in Configs /\ latest[s] \in Configs /\ req[r] \in RequestType
  BY <1>1, ReqFacts DEF ServerOK
<1>4. CASE Go(r, Published(r)) \/ Go(r, [Published(r) EXCEPT !.swallowed = @ \cup {"undeployed"}])
  BY <1>1, <1>2, <1>3, <1>4, GoTyped
<1>5. CASE Step(r, Published(r), Uploaded(live[s], Chosen(r)), latest[s])
  <2>1. Chosen(r) \in Configs
    BY <1>3 DEF Chosen, RequestType
  <2>2. Uploaded(live[s], Chosen(r)) \in Configs
    BY <1>3, <2>1, MergedTyped
  <2>3. sort' \in [Scripts -> {"classic", "versioned", "pages", "absent"}]
        /\ preview' \in [Scripts -> Configs]
    BY <1>1 DEF ServerOK
  <2>4. QED
    BY <1>1, <1>2, <1>3, <1>5, <2>2, <2>3, StepTyped
<1>6. QED
  BY <1>4, <1>5 DEF Publish

LEMMA RereadOK == ASSUME ServerOK, NEW r \in Reqs, Reread(r) PROVE ServerOK'
<1>1. req[r].pc = "reread" /\ UNCHANGED <<build, sort, preview>>
  BY DEF Reread, At
<1>2. req[r] \in RequestType /\ ReqOK(req[r])
  BY ReqFacts
<1>3. ReqOK([req[r] EXCEPT !.pc = "secrets", !.todo = Renewed(req[r].rows)])
  BY <1>1, <1>2, TurnedToSecrets
<1>4. [To(r, "secrets") EXCEPT !.todo = Renewed(req[r].rows)]
        = [req[r] EXCEPT !.pc = "secrets", !.todo = Renewed(req[r].rows)]
  BY <1>2 DEF To, RequestType
<1>5. QED
  BY <1>1, <1>3, <1>4, Failed, GoTyped, ReqFacts DEF Reread

LEMMA SecretOK == ASSUME ServerOK, NEW r \in Reqs, Secret(r) PROVE ServerOK'
<1> DEFINE s == req[r].script
<1>1. req[r].pc = "secrets" /\ UNCHANGED <<build, sort, preview>>
  BY DEF Secret, At
<1>2. CASE Fail(r)
  BY <1>1, <1>2, Failed
<1>3. CASE \E n \in req[r].todo :
             Step(r, [req[r] EXCEPT !.todo = @ \ {n}],
                  [live[s] EXCEPT ![n] = [kind |-> "secret", val |-> req[r].rows[n].val]], latest[s])
  <2>1. PICK n \in req[r].todo :
          Step(r, [req[r] EXCEPT !.todo = @ \ {n}],
               [live[s] EXCEPT ![n] = [kind |-> "secret", val |-> req[r].rows[n].val]], latest[s])
    BY <1>3
  <2>2. req[r] \in RequestType /\ ReqOK(req[r]) /\ s \in Scripts
        /\ live[s] \in Configs /\ latest[s] \in Configs
    BY <1>1, ReqFacts DEF ServerOK
  <2>3. n \in Names /\ req[r].rows[n].val \in Texts
    <3>1. n \in Names /\ req[r].rows[n] \in RowSet
      BY <2>2, Sets DEF RequestType
    <3>2. QED
      BY <3>1, RowFields
  <2>4. [live[s] EXCEPT ![n] = [kind |-> "secret", val |-> req[r].rows[n].val]] \in Configs
    BY <2>2, <2>3, Sets, EntryTyped
  <2>5. ReqOK([req[r] EXCEPT !.todo = @ \ {n}])
    <3>1. [req[r] EXCEPT !.todo = @ \ {n}] = [req[r] EXCEPT !.todo = req[r].todo \ {n}]
      BY <2>2 DEF RequestType
    <3>2. QED
      BY <2>2, <3>1, LessToDo
  <2>6. sort' \in [Scripts -> {"classic", "versioned", "pages", "absent"}]
        /\ preview' \in [Scripts -> Configs]
    BY <1>1 DEF ServerOK
  <2>7. QED
    BY <1>1, <2>1, <2>2, <2>4, <2>5, <2>6, StepTyped
<1>4. QED
  BY <1>2, <1>3 DEF Secret

LEMMA FinishOK == ASSUME ServerOK, NEW r \in Reqs, Finish(r) PROVE ServerOK'
<1>1. req[r].pc = "secrets" /\ UNCHANGED <<build, sort, preview>> /\ Go(r, Answer(r, TRUE))
  BY DEF Finish, At
<1>2. ReqOK(Answer(r, TRUE))
  BY <1>1, ReqFacts, Ended DEF Answer
<1>3. QED
  BY <1>1, <1>2, GoTyped, ReqFacts

LEMMA PatchOK == ASSUME ServerOK, NEW r \in Reqs, Patch(r) PROVE ServerOK'
<1> DEFINE s == req[r].script
           ans == Answer(r, TRUE)
<1>1. req[r].pc = "patch" /\ UNCHANGED <<build, sort>>
  BY DEF Patch, At
<1>2. CASE Fail(r) /\ UNCHANGED preview
  BY <1>1, <1>2, Failed
<1>3. CASE /\ Step(r, [ans EXCEPT !.uploaded = TRUE], Patched(live[s], Sent(req[r].rows)), latest[s])
           /\ preview' = [preview EXCEPT ![s] = Patched(@, Sent(req[r].rows))]
  <2>1. req[r] \in RequestType /\ s \in Scripts /\ live[s] \in Configs /\ latest[s] \in Configs
    BY <1>1, ReqFacts DEF ServerOK
  <2>2. /\ Patched(live[s], Sent(req[r].rows)) \in Configs
        /\ Patched(preview[s], Sent(req[r].rows)) \in Configs
    BY <2>1, SentTyped, MergedTyped DEF RequestType, ServerOK
  <2>3. ReqOK(ans)
    BY <1>1, ReqFacts, Ended DEF Answer
  <2> HIDE DEF ans
  <2>4. ReqOK([ans EXCEPT !.uploaded = TRUE])
    BY <2>3, Flagged
  <2>5. sort' \in [Scripts -> {"classic", "versioned", "pages", "absent"}]
        /\ preview' \in [Scripts -> Configs]
    BY <1>1, <1>3, <2>2 DEF ServerOK
  <2>6. QED
    BY <1>1, <1>3, <2>1, <2>2, <2>4, <2>5, StepTyped
<1>4. QED
  BY <1>1, <1>2, <1>3 DEF Patch

LEMMA ServeOK == ASSUME ServerOK, NEW r \in Reqs, Serve(r) PROVE ServerOK'
BY ResolveOK, ReadNodeOK, ReadWorkerOK, PurgeOK, DecideOK, FetchNodeOK, FetchWorkerOK, UploadNodeOK,
   UploadWorkerOK, ObserveOK, PublishOK, RereadOK, SecretOK, FinishOK, PatchOK
   DEF Serve

-----------------------------------------------------------------------------
(***************************************************************************)
(* The clients: requests arrive and are taken back; the forms.             *)
(***************************************************************************)
LEMMA AskedOK ==
  ASSUME ServerOK, NEW r \in Reqs, NEW s \in Scripts, NEW rows \in Rows,
         NEW mode \in {"redeploy", "deploy", "pages", "sync"}, NEW code \in BOOLEAN,
         NEW by \in {"dialog", "drawer", "sync"}, NEW faithful \in BOOLEAN,
         Asked(r, s, rows, mode, code, by, faithful), UNCHANGED <<build, sort, live, latest, preview>>
  PROVE  ServerOK'
<1> DEFINE to == [Idle EXCEPT
       !.pc = IF mode = "sync" THEN "secrets" ELSE "resolve",
       !.script = s, !.rows = rows, !.mode = mode, !.code = code, !.by = by,
       !.todo = IF mode = "sync" THEN Renewed(rows) ELSE {},
       !.start = live[s], !.faithful = faithful]
<1>1. live[s] \in Configs /\ Blank \in Configs /\ Renewed(rows) \in SUBSET Names
      /\ \A n \in Renewed(rows) : ~(rows[n].kind = "secret" /\ rows[n].keep)
  BY BlankTyped DEF ServerOK, Renewed
<1>2. ReqOK(to)
  <2>1. /\ to.pc = (IF mode = "sync" THEN "secrets" ELSE "resolve")
        /\ to.script = s /\ to.rows = rows /\ to.version = NoVersion
        /\ to.todo = (IF mode = "sync" THEN Renewed(rows) ELSE {})
    BY DEF Idle
  <2>2. to \in RequestType
    <3> DEFINE pc == IF mode = "sync" THEN "secrets" ELSE "resolve"
               todo == IF mode = "sync" THEN Renewed(rows) ELSE {}
    <3>1. Idle \in RequestType
      BY IdleOK DEF ReqOK
    <3>2. pc \in {"secrets", "resolve"} /\ todo \in SUBSET Names /\ live[s] \in Configs
      BY <1>1
    <3> HIDE DEF pc, todo
    <3>3. [Idle EXCEPT !.pc = pc, !.script = s, !.rows = rows, !.mode = mode, !.code = code, !.by = by,
                       !.todo = todo, !.start = live[s], !.faithful = faithful] \in RequestType
      BY <3>1, <3>2 DEF RequestType
    <3>4. QED
      BY <3>3 DEF pc, todo
  <2>3. QED
    BY <1>1, <2>1, <2>2 DEF ReqOK
<1>3. req' = [req EXCEPT ![r] = to]
  BY DEF Asked
<1> HIDE DEF to
<1>4. req' \in [Reqs -> RequestType] /\ \A q \in Reqs : ReqOK(req'[q])
  BY <1>2, <1>3 DEF ServerOK, ReqOK
<1>5. QED
  BY <1>4 DEF ServerOK

LEMMA TakenBack ==
  ASSUME ServerOK, NEW r \in Reqs, req' = [req EXCEPT ![r] = Idle],
         UNCHANGED <<build, sort, live, latest, preview>>
  PROVE  ServerOK'
<1>1. req' \in [Reqs -> RequestType] /\ \A q \in Reqs : ReqOK(req'[q])
  BY IdleOK DEF ServerOK, ReqOK
<1>2. QED
  BY <1>1 DEF ServerOK

LEMMA SameServer == ASSUME ServerOK, UNCHANGED serverVars PROVE ServerOK'
BY DEF ServerOK, serverVars

LEMMA OpenRowOK == ASSUME ClientOK, NEW s \in Scripts, OpenRow(s) PROVE ClientOK'
<1>1. dlg' \in DialogType
  BY DEF ClientOK, DialogType, OpenRow
<1>2. dlg'.script = s
  BY DEF ClientOK, DialogType, OpenRow
<1>3. QED
  BY <1>1, <1>2 DEF ClientOK, OpenRow, Opening, Working

LEMMA OpenNewOK == ASSUME ClientOK, NEW s \in Scripts, OpenNew(s) PROVE ClientOK'
<1>1. dlg' \in DialogType
  BY NoRowTyped DEF ClientOK, DialogType, OpenNew
<1>2. dlg'.script = s
  BY DEF ClientOK, DialogType, OpenNew
<1>3. QED
  BY <1>1, <1>2 DEF ClientOK, OpenNew, Opening, Working

LEMMA ReadAnsweredOK ==
  ASSUME ServerOK, ClientOK, NEW s \in Scripts, ReadAnswered(s) PROVE ClientOK'
<1>1. CASE dlg' = [dlg EXCEPT !.reading = @ \ {s}]
  BY <1>1 DEF ClientOK, DialogType, ReadAnswered
<1>2. CASE \E c \in {live[s], Blank} :
             dlg' = [dlg EXCEPT !.reading = @ \ {s}, !.rows = Prefill(c),
                                !.basis = IF s = dlg.script THEN c ELSE NoVersion]
  <2>1. PICK c \in {live[s], Blank} :
          dlg' = [dlg EXCEPT !.reading = @ \ {s}, !.rows = Prefill(c),
                             !.basis = IF s = dlg.script THEN c ELSE NoVersion]
    BY <1>2
  <2>2. c \in Configs /\ Prefill(c) \in Rows
    BY BlankTyped, PrefillTyped DEF ServerOK
  <2>3. QED
    BY <2>1, <2>2 DEF ClientOK, DialogType, ReadAnswered
<1>3. QED
  BY <1>1, <1>2 DEF ReadAnswered

LEMMA EditOK ==
  ASSUME ClientOK, NEW n \in Names, NEW k \in {"none", "plain", "secret", "bound", "ai"},
         NEW v \in Texts, Edit(n, k, v)
  PROVE  ClientOK'
<1> DEFINE keep == dlg.rows[n].keep /\ k \in {"plain", "secret"} /\ ~(k = "secret" /\ v # Empty)
           row == [kind |-> k, val |-> v, keep |-> keep]
<1>1. dlg' = [dlg EXCEPT !.rows[n] = row, !.basis = NoVersion]
  BY DEF Edit
<1>2. dlg.rows \in Rows /\ dlg \in DialogType
  BY DEF ClientOK, DialogType
<1>3. keep \in BOOLEAN /\ (k \in {"none", "ai"} => ~keep /\ v = Empty)
  <2>1. dlg.rows[n] \in RowSet
    BY <1>2, Sets
  <2>2. QED
    BY <2>1, RowFields DEF Edit
<1> HIDE DEF keep
<1>4. row \in RowSet
  BY <1>3 DEF RowSet, Row
<1> HIDE DEF row
<1>5. [dlg.rows EXCEPT ![n] = row] \in Rows
  BY <1>2, <1>4, Sets
<1>6. dlg' = [dlg EXCEPT !.rows = [dlg.rows EXCEPT ![n] = row], !.basis = NoVersion]
  BY <1>1, <1>2 DEF DialogType
<1>7. dlg' \in DialogType /\ dlg'.open = dlg.open /\ dlg'.script = dlg.script
  BY <1>2, <1>5, <1>6 DEF DialogType
<1>8. QED
  BY <1>7 DEF ClientOK, Edit, Working

LEMMA ChooseCodeOK == ASSUME ClientOK, NEW c \in {"js", "zip", "url"}, ChooseCode(c) PROVE ClientOK'
BY DEF ClientOK, DialogType, ChooseCode, Working

LEMMA CloseDialogOK == ASSUME ClientOK, CloseDialog PROVE ClientOK'
BY DEF ClientOK, DialogType, CloseDialog

\* The form as it is sent.
LEMMA SendFormOK ==
  ASSUME ServerOK, ClientOK, NEW r \in Reqs, NEW s \in Scripts, NEW source, SendForm(r, s, source)
  PROVE  ServerOK'
<1> DEFINE mode == Way(s, dlg.redeploy, source)
           code == source \in {"js", "zip"} \/ (source = "url" /\ build = "worker")
           faithful == s = dlg.script /\ dlg.basis = live[s]
<1>1. dlg.rows \in Rows /\ mode \in {"redeploy", "deploy", "pages", "sync"}
  BY DEF ClientOK, DialogType, Way
<1>2. code \in BOOLEAN /\ faithful \in BOOLEAN
  OBVIOUS
<1>3. Asked(r, s, dlg.rows, mode, code, "dialog", faithful)
      /\ UNCHANGED <<build, sort, live, latest, preview>>
  BY DEF SendForm, configVars
<1> HIDE DEF mode, code, faithful
<1>4. QED
  BY <1>1, <1>2, <1>3, AskedOK

LEMMA HandleDeployOK ==
  ASSUME ServerOK, ClientOK, NEW r \in Reqs, HandleDeploy(r) PROVE ServerOK' /\ ClientOK'
<1>1. ServerOK'
  BY SendFormOK DEF HandleDeploy, ClientOK
<1>2. ClientOK'
  <2>1. dlg' \in DialogType /\ dlg'.script = dlg.script /\ dlg'.open = dlg.open
    BY DEF ClientOK, DialogType, HandleDeploy
  <2>2. QED
    BY <2>1 DEF ClientOK, HandleDeploy, SendForm, Working
<1>3. QED
  BY <1>1, <1>2

LEMMA RetryAccountOK ==
  ASSUME ServerOK, ClientOK, NEW r \in Reqs, RetryAccount(r) PROVE ServerOK' /\ ClientOK'
<1>1. PICK s \in Scripts : SendForm(r, s, IF dlg.code = "url" THEN "none" ELSE dlg.code)
  BY DEF RetryAccount
<1>2. ServerOK'
  BY <1>1, SendFormOK
<1>3. ClientOK'
  <2>1. dlg' \in DialogType /\ dlg'.script = dlg.script /\ dlg'.open = dlg.open
    BY DEF ClientOK, DialogType, RetryAccount
  <2>2. QED
    BY <1>1, <2>1 DEF ClientOK, SendForm, Working
<1>4. QED
  BY <1>2, <1>3

LEMMA ConnectionLostOK ==
  ASSUME ServerOK, ClientOK, NEW r \in Reqs, ConnectionLost(r) PROVE ServerOK' /\ ClientOK'
<1>1. ServerOK'
  BY SameServer DEF ConnectionLost, configVars, serverVars
<1>2. dlg' \in DialogType /\ dlg'.script = dlg.script /\ dlg'.open = dlg.open
  BY DEF ClientOK, DialogType, ConnectionLost
<1>3. QED
  BY <1>1, <1>2 DEF ClientOK, ConnectionLost, Working

LEMMA DeployAnsweredOK ==
  ASSUME ServerOK, ClientOK, NEW r \in Reqs, DeployAnswered(r) PROVE ServerOK' /\ ClientOK'
<1>1. ServerOK'
  BY TakenBack DEF DeployAnswered, configVars
<1>2. req[r].ok \in BOOLEAN /\ req[r].script \in Scripts \cup {NoVersion}
  BY DEF ServerOK, RequestType
<1>3. dlg' \in DialogType /\ dlg'.script = dlg.script /\ (dlg'.open => dlg.open)
  BY <1>2 DEF ClientOK, DialogType, DeployAnswered
<1>4. QED
  BY <1>1, <1>3 DEF ClientOK, DeployAnswered

LEMMA RetryAnsweredOK ==
  ASSUME ServerOK, ClientOK, NEW r \in Reqs, RetryAnswered(r) PROVE ServerOK' /\ ClientOK'
<1>1. ServerOK'
  BY TakenBack DEF RetryAnswered, configVars
<1>2. req[r].ok \in BOOLEAN
  BY DEF ServerOK, RequestType
<1>3. dlg' \in DialogType /\ dlg'.script = dlg.script /\ dlg'.open = dlg.open
  BY <1>2 DEF ClientOK, DialogType, RetryAnswered
<1>4. QED
  BY <1>1, <1>3 DEF ClientOK, RetryAnswered

\* The drawer: asking for the configuration, and moving to another row meanwhile.
LEMMA DrawerOK ==
  ASSUME ServerOK, ClientOK, NEW s \in Scripts,
         DrawerMoves(s) \/ \E n \in Names, row \in RowSet : SaveVar(s, n, row)
  PROVE  ServerOK' /\ ClientOK'
<1>1. ServerOK'
  BY SameServer DEF DrawerMoves, SaveVar, configVars, serverVars
<1>2. CASE DrawerMoves(s)
  <2>1. drawer' \in DrawerType /\ drawer'.from = drawer.from /\ drawer'.script = s
    BY <1>2 DEF DrawerMoves, ClientOK, DrawerType
  <2>2. QED
    BY <1>1, <1>2, <2>1 DEF DrawerMoves, ClientOK, Working
<1>3. CASE \E n \in Names, row \in RowSet : SaveVar(s, n, row)
  <2>1. PICK n \in Names, row \in RowSet : SaveVar(s, n, row)
    BY <1>3
  <2>2. drawer' \in DrawerType /\ drawer'.from = s /\ drawer'.script = s
    BY <2>1 DEF SaveVar, DrawerType
  <2>3. QED
    BY <1>1, <2>1, <2>2 DEF SaveVar, ClientOK, Working
<1>4. QED
  BY <1>2, <1>3

LEMMA NoDrawerTyped ==
  NoDrawer \in DrawerType /\ NoDrawer.phase = "idle"
BY RowTyped, RedeployAssumption DEF NoDrawer, DrawerType, Texts

LEMMA VarReadOK ==
  ASSUME ServerOK, ClientOK, NEW r \in Reqs, VarRead(r) PROVE ServerOK' /\ ClientOK'
<1>1. CASE drawer' = NoDrawer /\ UNCHANGED req
  <2>1. ServerOK'
    BY <1>1, SameServer DEF VarRead, configVars, serverVars
  <2>2. QED
    BY <1>1, <2>1, NoDrawerTyped DEF VarRead, ClientOK
<1>2. CASE /\ drawer' = [NoDrawer EXCEPT !.phase = "sent", !.name = drawer.name]
           /\ \E c \in {live[drawer.from], Blank} :
                Asked(r, drawer.script, Resent(c, drawer.name, drawer.row), "redeploy", FALSE, "drawer", FALSE)
  <2>1. PICK c \in {live[drawer.from], Blank} :
          Asked(r, drawer.script, Resent(c, drawer.name, drawer.row), "redeploy", FALSE, "drawer", FALSE)
    BY <1>2
  <2>2. drawer.from \in Scripts /\ drawer.script \in Scripts /\ drawer \in DrawerType
    BY DEF VarRead, ClientOK
  <2>3. c \in Configs /\ Resent(c, drawer.name, drawer.row) \in Rows
    BY <2>2, BlankTyped, ResentTyped DEF ServerOK, DrawerType
  <2>4. UNCHANGED <<build, sort, live, latest, preview>>
    BY DEF VarRead, configVars
  <2>5. ServerOK'
    BY <2>1, <2>2, <2>3, <2>4, AskedOK
  <2>6. drawer' \in DrawerType /\ drawer'.phase = "sent"
    BY <1>2, <2>2, NoDrawerTyped DEF DrawerType
  <2>7. QED
    BY <2>5, <2>6 DEF VarRead, ClientOK
<1>3. QED
  BY <1>1, <1>2 DEF VarRead

LEMMA EnvSyncOK ==
  ASSUME ServerOK, ClientOK, NEW r \in Reqs, NEW from \in Scripts, NEW s \in Scripts, NEW v \in Texts,
         EnvSync(r, from, s, v)
  PROVE  ServerOK' /\ ClientOK'
<1> DEFINE rows == [n \in Names |->
             IF live[from][n].kind = "secret" THEN Row("secret", v) ELSE Row("none", Empty)]
<1>1. rows \in Rows
  BY RowTyped, Sets DEF Texts
<1>2. Asked(r, s, rows, "sync", FALSE, "sync", FALSE)
      /\ UNCHANGED <<build, sort, live, latest, preview>>
  BY DEF EnvSync, configVars
<1> HIDE DEF rows
<1>3. ServerOK'
  BY <1>1, <1>2, AskedOK
<1>4. ClientOK'
  BY DEF ClientOK, EnvSync, Working
<1>5. QED
  BY <1>3, <1>4

LEMMA AnsweredOK ==
  ASSUME ServerOK, ClientOK, NEW r \in Reqs, VarAnswered(r) \/ SyncAnswered(r) \/ Unheard(r)
  PROVE  ServerOK' /\ ClientOK'
<1>1. ServerOK'
  BY TakenBack DEF VarAnswered, SyncAnswered, Unheard, configVars
<1>2. ClientOK'
  BY NoDrawerTyped DEF ClientOK, VarAnswered, SyncAnswered, Unheard
<1>3. QED
  BY <1>1, <1>2

-----------------------------------------------------------------------------
(***************************************************************************)
(* The invariant.                                                          *)
(***************************************************************************)
LEMMA Initially == Init => IInv
<1> SUFFICES ASSUME Init PROVE ServerOK /\ ClientOK
  BY IInvSplit
<1>1. /\ build \in {"node", "worker"}
      /\ sort \in [Scripts -> {"classic", "versioned", "pages", "absent"}]
      /\ live \in [Scripts -> Configs] /\ preview \in [Scripts -> Configs]
  <2>1. PICK c \in Starts : build = c.build /\ sort = c.sort /\ live = c.live /\ preview = c.preview
    BY DEF Init, ServerInit
  <2>2. QED
    BY <2>1, RedeployAssumption
<1>2. latest \in [Scripts -> Configs]
  <2>1. \A s \in Scripts : Served(live[s]) \in Configs
    BY <1>1, MergedTyped, BlankTyped
  <2>2. QED
    BY <2>1 DEF Init, ServerInit
<1>4. req \in [Reqs -> RequestType] /\ \A r \in Reqs : ReqOK(req[r])
  BY IdleOK DEF Init, ServerInit, ReqOK
<1>5. ServerOK
  BY <1>1, <1>2, <1>4 DEF ServerOK
<1>6. dlg \in DialogType
  BY NoRowTyped DEF Init, DialogType
<1>7. ClientOK
  BY <1>6, NoDrawerTyped DEF Init, ClientOK
<1>8. QED
  BY <1>5, <1>7

LEMMA DialogOK == ASSUME ServerOK, ClientOK, Dialog PROVE ServerOK' /\ ClientOK'
<1>1. CASE \E s \in Scripts : OpenRow(s)
  BY <1>1, OpenRowOK, SameServer DEF OpenRow, Opening, configVars, serverVars
<1>2. CASE \E s \in Scripts : OpenNew(s)
  BY <1>2, OpenNewOK, SameServer DEF OpenNew, Opening, configVars, serverVars
<1>3. CASE \E s \in Scripts : ReadAnswered(s)
  BY <1>3, ReadAnsweredOK, SameServer DEF ReadAnswered, configVars, serverVars
<1>4. CASE \E n \in Names, k \in {"none", "plain", "secret", "bound", "ai"}, v \in Typed : Edit(n, k, v)
  <2>1. PICK n \in Names, k \in {"none", "plain", "secret", "bound", "ai"}, v \in Typed : Edit(n, k, v)
    BY <1>4
  <2>2. UNCHANGED serverVars
    BY <2>1 DEF Edit, configVars, serverVars
  <2>3. ServerOK' /\ ClientOK'
    <3>1. ServerOK'
      BY <2>2, SameServer
    <3>2. ClientOK'
      BY <2>1, EditOK, RedeployFormsAssumption
    <3>3. QED
      BY <3>1, <3>2
  <2>4. QED
    BY <2>3
<1>5. CASE \E c \in {"js", "zip", "url"} : ChooseCode(c)
  BY <1>5, ChooseCodeOK, SameServer DEF ChooseCode, configVars, serverVars
<1>6. CASE CloseDialog
  BY <1>6, CloseDialogOK, SameServer DEF CloseDialog, configVars, serverVars
<1>7. CASE \E r \in Reqs : HandleDeploy(r) \/ DeployAnswered(r) \/ RetryAccount(r) \/ RetryAnswered(r)
  BY <1>7, HandleDeployOK, DeployAnsweredOK, RetryAccountOK, RetryAnsweredOK
<1>8. CASE \E r \in Reqs : ConnectionLost(r) \/ Unheard(r)
  BY <1>8, ConnectionLostOK, AnsweredOK
<1>9. QED
  BY <1>1, <1>2, <1>3, <1>4, <1>5, <1>6, <1>7, <1>8 DEF Dialog

LEMMA OthersOK == ASSUME ServerOK, ClientOK, Others PROVE ServerOK' /\ ClientOK'
<1>1. CASE \E s \in Scripts, n \in Names :
             DeleteVar(s, n) \/ \E v \in Typed \ {Empty} : SaveVar(s, n, Row("plain", v))
  <2>1. PICK s \in Scripts, n \in Names :
          DeleteVar(s, n) \/ \E v \in Typed \ {Empty} : SaveVar(s, n, Row("plain", v))
    BY <1>1
  <2>2. Row("none", Empty) \in RowSet /\ \A v \in Typed : Row("plain", v) \in RowSet
    BY RowTyped, RedeployFormsAssumption DEF Texts
  <2>3. \E row \in RowSet : SaveVar(s, n, row)
    BY <2>1, <2>2 DEF DeleteVar
  <2>4. QED
    BY <2>3, DrawerOK
<1>2. CASE \E s \in Scripts : DrawerMoves(s)
  BY <1>2, DrawerOK
<1>3. CASE \E r \in Reqs : VarRead(r) \/ VarAnswered(r) \/ SyncAnswered(r)
  BY <1>3, VarReadOK, AnsweredOK
<1>4. CASE \E r \in Reqs, from \in Scripts, s \in Scripts, v \in Typed \ {Empty} : EnvSync(r, from, s, v)
  BY <1>4, EnvSyncOK, RedeployFormsAssumption
<1>5. QED
  BY <1>1, <1>2, <1>3, <1>4 DEF Others

LEMMA Inductive == IInv /\ [Next]_vars => IInv'
<1> SUFFICES ASSUME IInv, [Next]_vars PROVE ServerOK' /\ ClientOK'
  <2>1. (ServerOK /\ ClientOK <=> IInv)'
    BY DEF IInv, TypeOK, ServerOK, ClientOK, VersionOwn, TodoSpares, ReqOK, At, Keeps
  <2>2. QED
    BY <2>1
<1>1. ServerOK /\ ClientOK
  BY IInvSplit
<1>2. CASE Dialog
  BY <1>1, <1>2, DialogOK
<1>3. CASE Others
  BY <1>1, <1>3, OthersOK
<1>4. CASE Service
  <2>1. PICK r \in Reqs : Serve(r) /\ UNCHANGED <<dlg, drawer, work>>
    BY <1>4 DEF Service
  <2>2. ServerOK'
    BY <1>1, <2>1, ServeOK
  <2>3. ClientOK'
    BY <1>1, <2>1 DEF ClientOK
  <2>4. QED
    BY <2>2, <2>3
<1>5. CASE UNCHANGED vars
  <2>1. UNCHANGED serverVars /\ UNCHANGED <<dlg, drawer, work>>
    BY <1>5 DEF vars, serverVars
  <2>2. QED
    BY <1>1, <2>1, SameServer DEF ClientOK
<1>6. QED
  BY <1>2, <1>3, <1>4, <1>5 DEF Next

LEMMA Invariance == Spec => []IInv
BY Initially, Inductive, PTL DEF Spec

\* Every variable keeps its type in every behaviour.
THEOREM TypeCorrect == Spec => []TypeOK
BY Invariance, PTL DEF IInv

-----------------------------------------------------------------------------
(***************************************************************************)
(* No step takes a kept secret away.                                       *)
(***************************************************************************)
AllKeep(s, n) == \A r \in Reqs : Under(r) /\ req[r].script = s => Keeps(r, n)
Protected(s, n) ==
  /\ AllKeep(s, n)
  /\ live[s][n].kind = "secret"
  /\ \A r \in Reqs : OthersVersion(r) /\ req[r].script = s => Chosen(r)[n] = Absent

\* A step of a request disturbs the script it is about, and no other.
LEMMA StepSpares ==
  ASSUME ServerOK, NEW r \in Reqs, NEW to, NEW c, NEW v, Step(r, to, c, v), NEW s \in Scripts, NEW n,
         s = req[r].script => c[n] = live[s][n]
  PROVE  live'[s][n] = live[s][n]
BY DEF Step, ServerOK

LEMMA GoSpares ==
  ASSUME ServerOK, NEW r \in Reqs, NEW to, Go(r, to), NEW s \in Scripts, NEW n
  PROVE  live'[s][n] = live[s][n]
BY DEF Go, Step, Conf, ServerOK

\* What a form that keeps a secret sends leaves it, uploaded or patched.
LEMMA SentSpares ==
  ASSUME NEW c \in Configs, NEW rows \in Rows, NEW n \in Names, c[n].kind = "secret",
         rows[n].kind = "secret" /\ rows[n].keep
  PROVE  Sent(rows)[n] = Absent /\ Uploaded(c, Sent(rows))[n] = c[n] /\ Patched(c, Sent(rows))[n] = c[n]
BY DEF Sent, Uploaded, Patched

LEMMA PutSpares ==
  ASSUME ServerOK, NEW r \in Reqs, At(r, "upload"), Put(r), NEW s \in Scripts, NEW n \in Names, Protected(s, n)
  PROVE  live'[s][n] = live[s][n]
<1> DEFINE sent == Sent(req[r].rows)
           on == [To(r, "observe") EXCEPT !.uploaded = TRUE]
<1>1. \E to : \/ Step(r, to, Uploaded(live[req[r].script], sent), sent)
               \/ Step(r, to, live[req[r].script], sent)
               \/ Step(r, to, live[req[r].script], Served(live[req[r].script]))
  BY DEF Put
<1>2. s = req[r].script => Uploaded(live[s], sent)[n] = live[s][n]
  <2> SUFFICES ASSUME s = req[r].script PROVE Uploaded(live[s], sent)[n] = live[s][n]
    OBVIOUS
  <2>1. Keeps(r, n)
    BY DEF Protected, AllKeep, Under, At
  <2>2. req[r].rows \in Rows /\ live[s] \in Configs
    BY DEF ServerOK, RequestType
  <2>3. QED
    BY <2>1, <2>2, SentSpares DEF Keeps, Protected
<1> HIDE DEF sent, on
<1>3. QED
  BY <1>1, <1>2, StepSpares

LEMMA ServeSpares ==
  ASSUME ServerOK, NEW r \in Reqs, Serve(r), NEW s \in Scripts, NEW n \in Names, Protected(s, n)
  PROVE  live'[s][n] = live[s][n]
<1> DEFINE own == s = req[r].script
<1>1. /\ req[r] \in RequestType /\ ReqOK(req[r]) /\ req[r].rows \in Rows
      /\ live[s] \in Configs /\ latest[s] \in Configs
  BY DEF ServerOK, RequestType
<1>2. ASSUME own, Under(r) PROVE Keeps(r, n) /\ Conf(r) = live[s]
  BY <1>2 DEF Protected, AllKeep, Conf
<1>3. CASE Purge(r)
  <2>1. PICK m \in req[r].todo : \E to :
          \/ Step(r, to, [Conf(r) EXCEPT ![m] = IF @.kind = "secret" THEN Absent ELSE @],
                  latest[req[r].script])
          \/ Go(r, to)
    BY <1>3 DEF Purge
  <2>2. ASSUME own PROVE m # n
    BY <1>1, <1>2, <1>3, <2>2 DEF ReqOK, Purge, At, Under, Keeps
  <2>3. ASSUME own
        PROVE  [Conf(r) EXCEPT ![m] = IF @.kind = "secret" THEN Absent ELSE @][n] = live[s][n]
    BY <1>1, <1>2, <1>3, <2>2, <2>3 DEF Configs, Purge, At, Under
  <2>4. CASE \E to : Go(r, to)
    BY <2>4, GoSpares
  <2>5. CASE \E to : Step(r, to, [Conf(r) EXCEPT ![m] = IF @.kind = "secret" THEN Absent ELSE @],
                           latest[req[r].script])
    <3> DEFINE c == [Conf(r) EXCEPT ![m] = IF @.kind = "secret" THEN Absent ELSE @]
    <3>1. s = req[r].script => c[n] = live[s][n]
      BY <2>3
    <3>2. PICK to : Step(r, to, c, latest[req[r].script])
      BY <2>5
    <3> HIDE DEF c
    <3>3. QED
      BY <3>1, <3>2, StepSpares
  <2>6. QED
    BY <2>1, <2>4, <2>5
<1>4. CASE UploadNode(r)
  <2>1. CASE Fail(r)
    BY <2>1, GoSpares DEF Fail
  <2>2. CASE \E to : Step(r, to, live[req[r].script], Sent(req[r].rows))
    BY <2>2, StepSpares
  <2>3. CASE Put(r)
    BY <1>4, <2>3, PutSpares DEF UploadNode
  <2>4. QED
    BY <1>4, <2>1, <2>2, <2>3 DEF UploadNode
<1>5. CASE UploadWorker(r)
  BY <1>5, PutSpares, GoSpares DEF UploadWorker, Fail
<1>6. CASE Publish(r)
  <2>1. CASE \E to : Go(r, to)
    BY <2>1, GoSpares
  <2>2. CASE /\ sort[req[r].script] = "versioned"
             /\ Step(r, Published(r), Uploaded(live[req[r].script], Chosen(r)), latest[req[r].script])
    <3>1. ASSUME own PROVE Uploaded(live[s], Chosen(r))[n] = live[s][n]
      <4>1. At(r, "publish") /\ Keeps(r, n)
        BY <1>2, <1>6, <3>1 DEF Publish, At, Under
      <4>2. CASE OthersVersion(r)
        BY <3>1, <4>2 DEF Protected, Uploaded
      <4>3. CASE ~OthersVersion(r)
        <5>1. Chosen(r) = Sent(req[r].rows)
          BY <1>1, <2>2, <4>1, <4>3 DEF OthersVersion, Chosen, ReqOK
        <5>2. QED
          BY <1>1, <4>1, <5>1, SentSpares DEF Keeps, Protected
      <4>4. QED
        BY <4>2, <4>3
    <3>2. QED
      BY <2>2, <3>1, StepSpares
  <2>3. QED
    BY <1>6, <2>1, <2>2 DEF Publish
<1>8. CASE Secret(r)
  <2>1. CASE Fail(r)
    BY <2>1, GoSpares DEF Fail
  <2>2. CASE \E m \in req[r].todo : \E to :
               Step(r, to, [live[req[r].script] EXCEPT ![m] = [kind |-> "secret", val |-> req[r].rows[m].val]],
                    latest[req[r].script])
    <3>1. PICK m \in req[r].todo : \E to :
            Step(r, to, [live[req[r].script] EXCEPT ![m] = [kind |-> "secret", val |-> req[r].rows[m].val]],
                 latest[req[r].script])
      BY <2>2
    <3>2. ASSUME own PROVE m # n
      BY <1>1, <1>2, <1>8, <3>2 DEF ReqOK, Secret, At, Under, Keeps
    <3>3. ASSUME own
          PROVE  [live[s] EXCEPT ![m] = [kind |-> "secret", val |-> req[r].rows[m].val]][n] = live[s][n]
      BY <1>1, <3>2, <3>3 DEF Configs
    <3> DEFINE c == [live[req[r].script] EXCEPT ![m] = [kind |-> "secret", val |-> req[r].rows[m].val]]
    <3>4. s = req[r].script => c[n] = live[s][n]
      BY <3>3
    <3>5. PICK to : Step(r, to, c, latest[req[r].script])
      BY <3>1
    <3> HIDE DEF c
    <3>6. QED
      BY <3>4, <3>5, StepSpares
  <2>3. QED
    BY <1>8, <2>1, <2>2 DEF Secret
<1>9. CASE Patch(r)
  <2>1. CASE Fail(r)
    BY <2>1, GoSpares DEF Fail
  <2>2. CASE \E to : Step(r, to, Patched(live[req[r].script], Sent(req[r].rows)), latest[req[r].script])
    <3>1. ASSUME own PROVE Patched(live[s], Sent(req[r].rows))[n] = live[s][n]
      BY <1>1, <1>2, <1>9, <3>1, SentSpares DEF Patch, At, Under, Keeps, Protected
    <3>2. QED
      BY <2>2, <3>1, StepSpares
  <2>3. QED
    BY <1>9, <2>1, <2>2 DEF Patch
<1>10. CASE \/ Resolve(r) \/ ReadNode(r) \/ ReadWorker(r) \/ Decide(r) \/ FetchNode(r) \/ FetchWorker(r)
            \/ Observe(r) \/ Reread(r) \/ Finish(r)
  <2>1. \E to : Go(r, to)
    BY <1>10 DEF Resolve, ReadNode, ReadWorker, Decide, FetchNode, FetchWorker, Observe, Reread, Finish, Fail
  <2>2. QED
    BY <2>1, GoSpares
<1>11. QED
  BY <1>3, <1>4, <1>5, <1>6, <1>8, <1>9, <1>10 DEF Serve

\* Only a patch touches the previews.
LEMMA ServePreview ==
  ASSUME ServerOK, NEW r \in Reqs, Serve(r), NEW s \in Scripts, NEW n \in Names,
         AllKeep(s, n), preview[s][n].kind = "secret"
  PROVE  preview'[s][n] = preview[s][n]
<1>1. CASE ~Patch(r)
  BY <1>1 DEF Serve, Resolve, ReadNode, ReadWorker, Purge, Decide, FetchNode, FetchWorker, UploadNode,
              UploadWorker, Observe, Publish, Reread, Secret, Finish
<1>2. CASE Patch(r)
  <2>1. CASE s # req[r].script
    BY <1>2, <2>1 DEF Patch, ServerOK
  <2>2. CASE s = req[r].script
    <3>1. Keeps(r, n) /\ req[r].rows \in Rows /\ preview[s] \in Configs
      BY <1>2, <2>2 DEF AllKeep, Patch, Under, At, ServerOK, RequestType
    <3>2. Patched(preview[s], Sent(req[r].rows))[n] = preview[s][n]
      BY <3>1, SentSpares DEF Keeps
    <3>3. QED
      BY <1>2, <2>2, <3>2 DEF Patch, ServerOK
  <2>3. QED
    BY <2>1, <2>2
<1>3. QED
  BY <1>1, <1>2

LEMMA ClientsSpare ==
  ASSUME Dialog \/ Others \/ UNCHANGED vars
  PROVE  UNCHANGED <<live, preview>>
<1>1. CASE Dialog
  BY <1>1 DEF Dialog, OpenRow, OpenNew, Opening, ReadAnswered, Edit, ChooseCode, HandleDeploy, SendForm,
              DeployAnswered, RetryAccount, RetryAnswered, ConnectionLost, Unheard, CloseDialog, configVars
<1>2. CASE Others
  BY <1>2 DEF Others, DeleteVar, SaveVar, DrawerMoves, VarRead, VarAnswered, SyncAnswered, EnvSync, configVars
<1>3. QED
  BY <1>1, <1>2 DEF vars

LEMMA NextSpares ==
  ASSUME IInv, [Next]_vars, NEW s \in Scripts, NEW n \in Names
  PROVE  /\ Protected(s, n) => live'[s][n] = live[s][n]
         /\ AllKeep(s, n) /\ preview[s][n].kind = "secret" => preview'[s][n] = preview[s][n]
<1>1. ServerOK
  BY IInvSplit
<1>2. CASE Service
  BY <1>1, <1>2, ServeSpares, ServePreview DEF Service
<1>3. CASE Dialog \/ Others \/ UNCHANGED vars
  BY <1>3, ClientsSpare
<1>4. QED
  BY <1>2, <1>3 DEF Next

\* A secret that every request under way on its script keeps is never changed or deleted, on either
\* server, in production or in previews, whatever is edited meanwhile and whichever calls fail -
\* unless a version is about to be published that is not its request's own and holds the name.
THEOREM KeptSecretsStay == Spec => KeepKept
<1> DEFINE Spared == \A s \in Scripts, n \in Names :
       (\A r \in Reqs : Under(r) /\ req[r].script = s => Keeps(r, n))
       => /\ (/\ live[s][n].kind = "secret"
              /\ \A r \in Reqs : OthersVersion(r) /\ req[r].script = s => Chosen(r)[n] = Absent)
             => live'[s][n] = live[s][n]
          /\ preview[s][n].kind = "secret" => preview'[s][n] = preview[s][n]
<1>1. ASSUME IInv, [Next]_vars PROVE [Spared]_vars
  BY <1>1, NextSpares DEF Protected, AllKeep
<1>2. IInv /\ [Next]_vars => [Spared]_vars
  BY <1>1
<1>3. Spec => []IInv /\ [][Next]_vars
  BY Invariance, PTL DEF Spec
<1>4. Spec => [][Spared]_vars
  BY <1>2, <1>3, PTL
<1>5. QED
  BY <1>4 DEF KeepKept
-----------------------------------------------------------------------------
(***************************************************************************)
(* A request nothing interferes with: what its configuration holds at each *)
(* point of its way.  It is stated of the request q, the configuration c   *)
(* and the latest version w of its script, and what the script is, k.      *)
(***************************************************************************)
May(rows, start, n) ==
  LET gone == \/ start[n].kind = "secret" /\ rows[n].kind # "secret"
              \/ start[n].kind # "secret"
  IN {start[n]} \cup (IF rows[n].kind = "secret" /\ rows[n].keep THEN {} ELSE {Sent(rows)[n]})
       \cup (IF gone THEN {Absent} ELSE {})
AllMay(q, c) == \A n \in Names : c[n] \in May(q.rows, q.start, n)

\* An upload of what was sent has taken effect.
Fits(c, sent) == \A n \in Names :
  IF sent[n] # Absent THEN c[n] = sent[n] ELSE c[n].kind = "secret" \/ c[n] = Absent

\* What one row asks for is in place.
InPlace(q, c, n) ==
  CASE q.rows[n].kind = "none" -> c[n].kind = "secret" \/ q.mode # "redeploy" \/ c[n] = Absent
    [] q.rows[n].kind = "ai" -> c[n].kind = "ai"
    [] q.rows[n].kind = "plain" -> c[n] = [kind |-> "plain", val |-> q.rows[n].val]
    [] q.rows[n].kind = "secret" -> IF q.rows[n].keep
                                    THEN q.start[n].kind = "secret" => c[n] = q.start[n]
                                    ELSE q.rows[n].val # Empty => c[n] = [kind |-> "secret", val |-> q.rows[n].val]
    [] q.rows[n].kind = "bound" -> c[n].kind = "bound" /\ (q.uploaded => c[n].val = q.rows[n].val)

\* Wherever it is: each name holds what it may, and the version to publish, which is the latest, is
\* the request's own or repeats what serves.
Fair(q, c, w) ==
  /\ AllMay(q, c)
  /\ q.pc = "resolve" => c = q.start
  /\ q.pc \in {"resolve", "read", "purge", "fetch", "upload"} => q.version = NoVersion
  /\ q.pc = "purge" => \A n \in q.todo : q.rows[n].kind # "secret"
  /\ q.pc = "secrets" => q.todo \subseteq Renewed(q.rows)
  /\ q.pc \in {"observe", "publish"} => w \in {Sent(q.rows), Served(c)} /\ q.version \in {NoVersion, w}

\* Where none of its calls failed in silence.
Whole(q, c, w, k) ==
  /\ q.pc \in {"resolve", "read"} => c = q.start /\ ~q.uploaded
  /\ q.pc = "purge" => /\ q.seen = q.start /\ ~q.uploaded
                       /\ \A n \in Names : q.start[n].kind # "secret" => c[n] = q.start[n]
  /\ q.pc \in {"observe", "publish"} =>
       w = Sent(q.rows) /\ (Fits(c, Sent(q.rows)) \/ k = "versioned")
  /\ q.pc = "reread" => Fits(c, Sent(q.rows))
  /\ q.pc = "patch" => q.mode \notin {"redeploy", "deploy"}
  /\ q.pc = "secrets" =>
       /\ q.mode # "sync" => \A n \in Names : q.rows[n].kind # "secret" => InPlace(q, c, n)
       /\ \A n \in Renewed(q.rows) : n \in q.todo \/ c[n] = [kind |-> "secret", val |-> q.rows[n].val]
  /\ (q.pc = "done" /\ q.ok) =>
       \A n \in Names : q.mode # "sync" \/ q.rows[n].kind = "secret" => InPlace(q, c, n)

\* Where its form is the configuration as the dialog was filled from it.
Same(q, c) ==
  /\ q.rows = Prefill(q.start)
  /\ \A n \in Names : Shown(q.start, n) => c[n] = q.start[n]

Good(q, c, w, k) ==
  /\ Fair(q, c, w)
  /\ q.swallowed = {} => Whole(q, c, w, k)
  /\ q.faithful => Same(q, c)

\* Every binding names its resource, but for those of a form still to be resolved.
Sound(q, c, w, k) ==
  /\ Named(c) /\ Named(w)
  /\ q.pc \notin {"idle", "resolve", "done"} => Named(q.rows)
  /\ q.version # NoVersion => Named(q.version)
  /\ q.alone => Good(q, c, w, k)

Upright ==
  /\ \A s \in Scripts : Named(live[s]) /\ Named(latest[s])
  /\ \A r \in Reqs : req[r].pc # "idle" =>
       Sound(req[r], live[req[r].script], latest[req[r].script], sort[req[r].script])

\* What is sent of a row.
LEMMA SentFacts ==
  ASSUME NEW rows \in Rows, NEW n \in Names
  PROVE  /\ rows[n].kind \in {"none", "plain", "secret", "bound", "ai"}
         /\ Sent(rows)[n] \in EntrySet
         /\ rows[n].kind = "none" => Sent(rows)[n] = Absent
         /\ rows[n].kind = "secret" /\ rows[n].keep => Sent(rows)[n] = Absent
         /\ rows[n].kind # "none" /\ ~(rows[n].kind = "secret" /\ rows[n].keep) =>
              /\ Sent(rows)[n] = [kind |-> rows[n].kind, val |-> rows[n].val]
              /\ Sent(rows)[n] # Absent
<1>1. rows[n] \in RowSet /\ Sent(rows)[n] \in EntrySet
  BY Sets, SentTyped
<1>2. Sent(rows)[n] = IF rows[n].kind = "secret" /\ rows[n].keep THEN Absent
                      ELSE [kind |-> rows[n].kind, val |-> rows[n].val]
  BY DEF Sent
<1>3. QED
  BY <1>1, <1>2, RowFields, EntryFields DEF Absent

\* The configurations an upload, a patch and a version make, name by name.
LEMMA MergedFacts ==
  ASSUME NEW c, NEW sent, NEW n \in Names
  PROVE  /\ sent[n] # Absent => Uploaded(c, sent)[n] = sent[n] /\ Patched(c, sent)[n] = sent[n]
         /\ sent[n] = Absent =>
              /\ Uploaded(c, sent)[n] = IF c[n].kind = "secret" THEN c[n] ELSE Absent
              /\ Patched(c, sent)[n] = c[n] \/ (c[n].kind = "ai" /\ Patched(c, sent)[n] = Absent)
              /\ c[n].kind # "ai" => Patched(c, sent)[n] = c[n]
BY DEF Uploaded, Patched

LEMMA FitsUploaded ==
  ASSUME NEW c, NEW sent
  PROVE  Fits(Uploaded(c, sent), sent)
BY MergedFacts DEF Fits

\* What each name may hold survives an upload and a patch of what the form sends.
LEMMA MayMerged ==
  ASSUME NEW rows \in Rows, NEW start \in Configs, NEW c \in Configs,
         \A n \in Names : c[n] \in May(rows, start, n)
  PROVE  \A n \in Names : /\ Uploaded(c, Sent(rows))[n] \in May(rows, start, n)
                          /\ Patched(c, Sent(rows))[n] \in May(rows, start, n)
<1> SUFFICES ASSUME NEW n \in Names
             PROVE  /\ Uploaded(c, Sent(rows))[n] \in May(rows, start, n)
                    /\ Patched(c, Sent(rows))[n] \in May(rows, start, n)
  OBVIOUS
<1>1. c[n] \in May(rows, start, n) /\ c[n] \in EntrySet /\ start[n] \in EntrySet
  BY Sets
<1>2. CASE Sent(rows)[n] # Absent
  <2>1. ~(rows[n].kind = "secret" /\ rows[n].keep)
    BY <1>2, SentFacts
  <2>2. Uploaded(c, Sent(rows))[n] = Sent(rows)[n] /\ Patched(c, Sent(rows))[n] = Sent(rows)[n]
    BY <1>2, MergedFacts
  <2>3. QED
    BY <2>1, <2>2 DEF May
<1>3. CASE Sent(rows)[n] = Absent
  <2>1. CASE c[n].kind = "secret"
    BY <1>1, <1>3, <2>1, MergedFacts
  <2>2. CASE c[n].kind # "secret"
    <3>1. Absent \in May(rows, start, n)
      <4>1. CASE rows[n].kind = "secret" /\ rows[n].keep
        BY <1>1, <2>2, <4>1 DEF May
      <4>2. CASE ~(rows[n].kind = "secret" /\ rows[n].keep)
        BY <1>3, <4>2 DEF May
      <4>3. QED
        BY <4>1, <4>2
    <3>2. QED
      BY <1>1, <1>3, <2>2, <3>1, MergedFacts
  <2>3. QED
    BY <2>1, <2>2
<1>4. QED
  BY <1>2, <1>3

\* A version that repeats what serves changes nothing when it is published.
LEMMA Repeated == ASSUME NEW c \in Configs PROVE Uploaded(c, Served(c)) = c
<1>1. \A n \in Names : Uploaded(c, Served(c))[n] = c[n]
  <2> SUFFICES ASSUME NEW n \in Names PROVE Uploaded(c, Served(c))[n] = c[n]
    OBVIOUS
  <2>1. c[n] \in EntrySet /\ Served(c)[n] = IF c[n].kind = "secret" THEN Absent ELSE c[n]
    BY Sets DEF Served
  <2>2. QED
    BY <2>1, MergedFacts, EntryFields
<1>2. Uploaded(c, Served(c)) \in Configs
  BY MergedTyped
<1>3. QED
  BY <1>1, <1>2, Sets

\* What is sent of a form as it was filled in, where the form can show it.
LEMMA SameSent ==
  ASSUME NEW start \in Configs, NEW n \in Names, Shown(start, n)
  PROVE  /\ start[n].kind \in {"none", "plain", "secret", "bound", "ai"}
         /\ Sent(Prefill(start))[n] = IF start[n].kind = "secret" THEN Absent ELSE start[n]
<1>1. start[n] \in EntrySet /\ Prefill(start) \in Rows /\ start[n].kind # "other"
  BY Sets, PrefillTyped DEF Shown
<1>2. CASE n = AiName /\ WithAi(start)
  <2>1. start[n].kind = "ai"
    BY <1>2 DEF Shown, WithAi
  <2>2. start[n] = [kind |-> "ai", val |-> Empty]
    BY <1>1, <2>1, EntryFields
  <2>3. Prefill(start)[n] = Row("ai", Empty)
    BY <1>2 DEF Prefill
  <2>4. QED
    BY <2>1, <2>2, <2>3 DEF Sent, Row
<1>3. CASE ~(n = AiName /\ WithAi(start))
  <2>1. start[n].kind # "ai"
    BY <1>3 DEF Shown, WithAi
  <2>2. Prefill(start)[n] =
          CASE start[n].kind = "secret" -> [kind |-> "secret", val |-> Empty, keep |-> TRUE]
            [] start[n].kind \in {"plain", "bound"} -> Row(start[n].kind, start[n].val)
            [] OTHER -> Row("none", Empty)
    BY <1>3 DEF Prefill
  <2>3. CASE start[n].kind = "secret"
    BY <2>2, <2>3 DEF Sent
  <2>4. CASE start[n].kind \in {"plain", "bound"}
    <3>1. Prefill(start)[n] = Row(start[n].kind, start[n].val)
      BY <2>2, <2>4
    <3>2. Sent(Prefill(start))[n] = [kind |-> start[n].kind, val |-> start[n].val]
      BY <2>4, <3>1 DEF Sent, Row
    <3>3. QED
      BY <1>1, <2>4, <3>2, EntryFields
  <2>5. CASE start[n].kind = "none"
    <3>1. Prefill(start)[n] = Row("none", Empty) /\ start[n] = Absent
      BY <1>1, <2>2, <2>5, EntryFields
    <3>2. QED
      BY <3>1 DEF Sent, Row, Absent
  <2>6. QED
    BY <1>1, <2>1, <2>3, <2>4, <2>5, EntryFields
<1>4. QED
  BY <1>2, <1>3

\* What was filled in from a configuration leaves it as it is when it is sent.
LEMMA SameMerged ==
  ASSUME NEW start \in Configs, NEW c \in Configs,
         \A n \in Names : Shown(start, n) => c[n] = start[n]
  PROVE  \A n \in Names : Shown(start, n) =>
           /\ Uploaded(c, Sent(Prefill(start)))[n] = start[n]
           /\ Patched(c, Sent(Prefill(start)))[n] = start[n]
<1> SUFFICES ASSUME NEW n \in Names, Shown(start, n)
             PROVE  /\ Uploaded(c, Sent(Prefill(start)))[n] = start[n]
                    /\ Patched(c, Sent(Prefill(start)))[n] = start[n]
  OBVIOUS
<1>1. start[n] \in EntrySet /\ c[n] = start[n]
  BY Sets
<1>2. Sent(Prefill(start))[n] = IF start[n].kind = "secret" THEN Absent ELSE start[n]
  BY SameSent
<1>3. CASE start[n].kind = "secret"
  BY <1>1, <1>2, <1>3, MergedFacts
<1>4. CASE start[n].kind # "secret" /\ start[n] # Absent
  BY <1>2, <1>4, MergedFacts
<1>5. CASE start[n] = Absent
  <2>1. start[n].kind = "none"
    BY <1>5 DEF Absent
  <2>2. QED
    BY <1>1, <1>2, <1>5, <2>1, MergedFacts
<1>6. QED
  BY <1>3, <1>4, <1>5

LEMMA NamedMerged ==
  ASSUME NEW c, NEW sent, Named(c)
  PROVE  /\ Named(Served(c))
         /\ Named(sent) => Named(Uploaded(c, sent)) /\ Named(Patched(c, sent))
<1>1. Absent.kind # "bound"
  BY DEF Absent
<1>2. Named(Served(c))
  BY <1>1 DEF Named, Served
<1>3. Named(sent) => Named(Uploaded(c, sent)) /\ Named(Patched(c, sent))
  BY <1>1 DEF Named, Uploaded, Patched
<1>4. QED
  BY <1>2, <1>3

LEMMA NamedSent == ASSUME NEW rows, Named(rows) PROVE Named(Sent(rows))
BY DEF Named, Sent, Absent

\* An upload that has taken effect, on names that hold what they may, puts every row in place.
LEMMA FitsInPlace ==
  ASSUME NEW q, NEW c, q.rows \in Rows, q.start \in Configs, c \in Configs,
         AllMay(q, c), Fits(c, Sent(q.rows))
  PROVE  /\ \A n \in Names : InPlace(q, c, n)
         /\ \A n \in Renewed(q.rows) : c[n] = [kind |-> "secret", val |-> q.rows[n].val]
<1>1. ASSUME NEW n \in Names PROVE InPlace(q, c, n)
  <2>1. /\ c[n] \in May(q.rows, q.start, n)
        /\ IF Sent(q.rows)[n] # Absent THEN c[n] = Sent(q.rows)[n] ELSE c[n].kind = "secret" \/ c[n] = Absent
    BY DEF AllMay, Fits
  <2>2. CASE q.rows[n].kind = "none"
    BY <2>1, <2>2, SentFacts DEF InPlace
  <2>3. CASE q.rows[n].kind = "plain"
    BY <2>1, <2>3, SentFacts DEF InPlace
  <2>8. CASE q.rows[n].kind = "ai"
    <3>1. c[n] = [kind |-> "ai", val |-> q.rows[n].val]
      BY <2>1, <2>8, SentFacts
    <3>2. QED
      BY <2>8, <3>1 DEF InPlace
  <2>4. CASE q.rows[n].kind = "bound"
    <3>1. c[n] = [kind |-> "bound", val |-> q.rows[n].val]
      BY <2>1, <2>4, SentFacts
    <3>2. QED
      BY <2>4, <3>1 DEF InPlace
  <2>5. CASE q.rows[n].kind = "secret" /\ q.rows[n].keep
    BY <2>1, <2>5 DEF InPlace, May
  <2>6. CASE q.rows[n].kind = "secret" /\ ~q.rows[n].keep
    BY <2>1, <2>6, SentFacts DEF InPlace
  <2>7. QED
    BY <2>2, <2>3, <2>4, <2>5, <2>6, <2>8, SentFacts
<1>2. ASSUME NEW n \in Renewed(q.rows) PROVE c[n] = [kind |-> "secret", val |-> q.rows[n].val]
  BY <1>2, SentFacts DEF Fits, Renewed
<1>3. QED
  BY <1>1, <1>2
-----------------------------------------------------------------------------
(***************************************************************************)
(* How a request goes on: from q to `to', over a configuration.            *)
(***************************************************************************)
Alike(q, to) ==
  /\ to.rows = q.rows /\ to.start = q.start /\ to.mode = q.mode
  /\ to.alone = q.alone /\ to.faithful = q.faithful

Ready(q, c, w, k) ==
  /\ q.rows \in Rows /\ q.start \in Configs /\ c \in Configs /\ w \in Configs
  /\ Sound(q, c, w, k)

\* It ends in failure.
LEMMA GoesWrong ==
  ASSUME NEW q, NEW to, NEW c, NEW w, NEW k, Ready(q, c, w, k), Alike(q, to),
         to.pc = "done", ~to.ok, to.version = q.version
  PROVE  Sound(to, c, w, k)
BY DEF Ready, Sound, Alike, Good, Fair, Whole, Same, AllMay

\* It has read the configuration, or taken an empty one for it.
LEMMA GoesToPurge ==
  ASSUME NEW q, NEW to, NEW c, NEW w, NEW k, NEW x, Ready(q, c, w, k), Alike(q, to),
         q.pc = "read", to.pc = "purge", to.seen = x, to.todo = Doomed(x, q.rows),
         to.uploaded = q.uploaded, to.version = q.version,
         to.swallowed = {} => x = c /\ q.swallowed = {}
  PROVE  Sound(to, c, w, k)
<1>1. \A n \in to.todo : to.rows[n].kind # "secret"
  BY DEF Doomed, Alike
<1>2. q.alone => Fair(to, c, w)
  BY <1>1 DEF Ready, Sound, Alike, Good, Fair, AllMay
<1>3. q.alone /\ to.swallowed = {} => Whole(to, c, w, k)
  BY DEF Ready, Sound, Alike, Good, Whole
<1>4. QED
  BY <1>2, <1>3 DEF Ready, Sound, Alike, Good, Same

\* It failed to delete a secret.
LEMMA GoesOnUndeleted ==
  ASSUME NEW q, NEW to, NEW c, NEW w, NEW k, Ready(q, c, w, k), Alike(q, to),
         q.pc = "purge", to.pc = "purge", to.todo \subseteq q.todo,
         to.version = q.version, to.swallowed # {}
  PROVE  Sound(to, c, w, k)
BY DEF Ready, Sound, Alike, Good, Fair, Same, AllMay

\* It deleted one.
LEMMA GoesOnDeleted ==
  ASSUME NEW q, NEW to, NEW c, NEW w, NEW k, NEW n \in Names, Ready(q, c, w, k), Alike(q, to),
         q.pc = "purge", to.pc = "purge", n \in q.todo, to.todo \subseteq q.todo,
         to.version = q.version, to.swallowed = q.swallowed, to.seen = q.seen, to.uploaded = q.uploaded,
         NEW c2, c2 = [c EXCEPT ![n] = IF c[n].kind = "secret" THEN Absent ELSE c[n]]
  PROVE  Sound(to, c2, w, k)
<1>1. c2[n] = (IF c[n].kind = "secret" THEN Absent ELSE c[n]) /\ \A m \in Names : m # n => c2[m] = c[m]
  BY Sets DEF Ready
<1>2. Named(c2)
  BY <1>1 DEF Ready, Sound, Named, Absent
<1>3. ASSUME q.alone PROVE Good(to, c2, w, k)
  <2>1. Good(q, c, w, k) /\ q.rows[n].kind # "secret"
    BY <1>3 DEF Ready, Sound, Good, Fair
  <2>2. c2[n] \in May(q.rows, q.start, n)
    <3>1. c[n] \in May(q.rows, q.start, n)
      BY <2>1 DEF Good, Fair, AllMay
    <3>2. Absent \in May(q.rows, q.start, n)
      BY <2>1 DEF May
    <3>3. QED
      BY <1>1, <3>1, <3>2
  <2>3. Fair(to, c2, w)
    <3>1. AllMay(q, c2)
      BY <1>1, <2>1, <2>2 DEF Good, Fair, AllMay
    <3>2. QED
      BY <2>1, <3>1 DEF Good, Fair, Alike, AllMay
  <2>4. to.swallowed = {} => Whole(to, c2, w, k)
    <3> SUFFICES ASSUME to.swallowed = {} PROVE Whole(to, c2, w, k)
      OBVIOUS
    <3>1. Whole(q, c, w, k)
      BY <2>1 DEF Good
    <3>2. \A m \in Names : q.start[m].kind # "secret" => c2[m] = q.start[m]
      BY <1>1, <3>1 DEF Whole
    <3>3. QED
      BY <3>1, <3>2 DEF Whole, Alike
  <2>5. to.faithful => Same(to, c2)
    <3> SUFFICES ASSUME to.faithful PROVE Same(to, c2)
      OBVIOUS
    <3>1. Same(q, c)
      BY <2>1 DEF Good, Alike
    <3>2. Shown(q.start, n) => q.start[n].kind # "secret"
      BY <2>1, <3>1 DEF Same, Prefill, Shown, WithAi
    <3>3. QED
      BY <1>1, <3>1, <3>2 DEF Same, Alike
  <2>6. QED
    BY <2>3, <2>4, <2>5 DEF Good
<1>4. QED
  BY <1>2, <1>3 DEF Ready, Sound, Alike

\* It has code to upload, or to fetch first.
LEMMA GoesToUpload ==
  ASSUME NEW q, NEW to, NEW c, NEW w, NEW k, Ready(q, c, w, k), Alike(q, to),
         q.pc \in {"purge", "fetch"}, to.pc \in {"fetch", "upload", "junk"},
         to.version = q.version, to.swallowed = q.swallowed
  PROVE  Sound(to, c, w, k)
BY DEF Ready, Sound, Alike, Good, Fair, Whole, Same, AllMay

\* Nothing but secrets changed: every other row is in place already.
LEMMA GoesPastUpload ==
  ASSUME NEW q, NEW to, NEW c, NEW w, NEW k, Ready(q, c, w, k), Alike(q, to),
         q.pc = "purge", q.todo = {}, q.seen \in Configs,
         ~PlainChanged(q.seen, q.rows), ~BindingsChanged(q.seen, q.rows),
         to.pc = "secrets", to.todo = Renewed(q.rows), to.uploaded = q.uploaded,
         to.version = q.version, to.swallowed = q.swallowed
  PROVE  Sound(to, c, w, k)
<1>1. ASSUME q.alone PROVE Good(to, c, w, k)
  <2>1. Good(q, c, w, k)
    BY <1>1 DEF Ready, Sound
  <2>2. Fair(to, c, w)
    BY <2>1 DEF Good, Fair, Alike, AllMay
  <2>3. ASSUME to.swallowed = {}, NEW n \in Names, q.rows[n].kind # "secret" PROVE InPlace(to, c, n)
    <3>1. Whole(q, c, w, k)
      BY <2>1, <2>3 DEF Good
    <3>2. q.seen = q.start /\ ~to.uploaded /\ (q.start[n].kind # "secret" => c[n] = q.start[n])
      BY <3>1 DEF Whole
    <3>3. q.rows[n] \in RowSet /\ q.start[n] \in EntrySet /\ c[n] \in EntrySet
      BY Sets DEF Ready
    <3>4. \A m \in Names : q.rows[m].kind # "plain"
      <4> SUFFICES ASSUME NEW m \in Names, q.rows[m].kind = "plain" PROVE FALSE
        OBVIOUS
      <4>1. <<"plain", m>> \in {<<q.rows[j].kind, j>> : j \in {i \in Names : q.rows[i].kind \in {"bound", "ai", "plain"}}}
        OBVIOUS
      <4>2. <<"plain", m>> \in {<<q.seen[j].kind, j>> : j \in {i \in Names : q.seen[i].kind \in {"bound", "ai", "other"}}}
        BY <4>1 DEF BindingsChanged
      <4>3. QED
        BY <4>2
    <3>5. q.seen[n].kind # "plain"
      <4> SUFFICES ASSUME q.seen[n].kind = "plain" PROVE FALSE
        OBVIOUS
      <4>1. <<n, q.seen[n].val>> \in {<<j, q.seen[j].val>> : j \in {i \in Names : q.seen[i].kind = "plain"}}
        OBVIOUS
      <4>2. <<n, q.seen[n].val>> \in
              {<<j, q.rows[j].val>> : j \in {i \in Names : q.rows[i].kind = "plain" /\ ~q.rows[i].keep}}
        BY <4>1 DEF PlainChanged
      <4>3. QED
        BY <3>4, <4>2
    <3>6. CASE q.rows[n].kind = "bound"
      <4>1. <<"bound", n>> \in {<<q.rows[j].kind, j>> : j \in {i \in Names : q.rows[i].kind \in {"bound", "ai", "plain"}}}
        BY <3>6
      <4>2. <<"bound", n>> \in {<<q.seen[j].kind, j>> : j \in {i \in Names : q.seen[i].kind \in {"bound", "ai", "other"}}}
        BY <4>1 DEF BindingsChanged
      <4>3. c[n].kind = "bound"
        BY <3>2, <4>2
      <4>4. QED
        BY <3>2, <3>6, <4>3 DEF InPlace, Alike
    <3>9. CASE q.rows[n].kind = "ai"
      <4>1. <<"ai", n>> \in {<<q.rows[j].kind, j>> : j \in {i \in Names : q.rows[i].kind \in {"bound", "ai", "plain"}}}
        BY <3>9
      <4>2. <<"ai", n>> \in {<<q.seen[j].kind, j>> : j \in {i \in Names : q.seen[i].kind \in {"bound", "ai", "other"}}}
        BY <4>1 DEF BindingsChanged
      <4>3. c[n].kind = "ai"
        BY <3>2, <4>2
      <4>4. QED
        BY <3>9, <4>3 DEF InPlace, Alike
    <3>7. CASE q.rows[n].kind = "none"
      <4>1. q.seen[n].kind \notin {"bound", "ai", "other"}
        <5> SUFFICES ASSUME q.seen[n].kind \in {"bound", "ai", "other"} PROVE FALSE
          OBVIOUS
        <5>1. <<q.seen[n].kind, n>> \in
                {<<q.seen[j].kind, j>> : j \in {i \in Names : q.seen[i].kind \in {"bound", "ai", "other"}}}
          OBVIOUS
        <5>2. <<q.seen[n].kind, n>> \in
                {<<q.rows[j].kind, j>> : j \in {i \in Names : q.rows[i].kind \in {"bound", "ai", "plain"}}}
          BY <5>1 DEF BindingsChanged
        <5>3. QED
          BY <3>7, <5>2
      <4>2. q.start[n].kind \in {"none", "secret"}
        BY <3>2, <3>3, <3>5, <4>1, EntryFields
      <4>3. c[n].kind = "secret" \/ c[n] = Absent
        <5>1. CASE q.start[n].kind = "none"
          BY <3>2, <3>3, <5>1, EntryFields
        <5>2. CASE q.start[n].kind = "secret"
          <6>1. c[n] \in May(q.rows, q.start, n) /\ q.rows \in Rows
            BY <2>1 DEF Good, Fair, AllMay, Ready
          <6>2. Sent(q.rows)[n] = Absent
            BY <3>7, <6>1, SentFacts
          <6>3. QED
            BY <5>2, <6>1, <6>2 DEF May
        <5>3. QED
          BY <4>2, <5>1, <5>2
      <4>4. QED
        BY <3>7, <4>3 DEF InPlace, Alike
    <3>8. QED
      BY <2>3, <3>3, <3>4, <3>6, <3>7, <3>9, RowFields
  <2>4. to.swallowed = {} => Whole(to, c, w, k)
    BY <2>3 DEF Whole, Alike
  <2>5. to.faithful => Same(to, c)
    BY <2>1 DEF Good, Alike, Same
  <2>6. QED
    BY <2>2, <2>4, <2>5 DEF Good
<1>2. QED
  BY <1>1 DEF Ready, Sound, Alike
\* Its upload replaced what serves.
LEMMA GoesPutLive ==
  ASSUME NEW q, NEW to, NEW c, NEW w, NEW k, NEW k2, Ready(q, c, w, k), Alike(q, to),
         q.pc = "upload", to.pc = "observe", to.version \in {q.version, Sent(q.rows)}, to.swallowed = q.swallowed
  PROVE  Sound(to, Uploaded(c, Sent(q.rows)), Sent(q.rows), k2)
<1> DEFINE c2 == Uploaded(c, Sent(q.rows))
<1>1. Named(Sent(q.rows)) /\ Named(c2)
  BY NamedSent, NamedMerged DEF Ready, Sound
<1>2. Fits(c2, Sent(q.rows))
  BY FitsUploaded
<1>3. ASSUME q.alone PROVE AllMay(q, c2) /\ (q.faithful => Same(q, c2)) /\ Fair(q, c, w)
  <2>1. Good(q, c, w, k) /\ q.rows \in Rows /\ q.start \in Configs /\ c \in Configs
    BY <1>3 DEF Ready, Sound
  <2>2. AllMay(q, c2)
    BY <2>1, MayMerged DEF Good, Fair, AllMay
  <2>3. ASSUME q.faithful PROVE Same(q, c2)
    BY <2>1, <2>3, SameMerged DEF Good, Same
  <2>4. QED
    BY <2>1, <2>2, <2>3 DEF Good
<1> HIDE DEF c2
<1>4. ASSUME q.alone PROVE Good(to, c2, Sent(q.rows), k2)
  <2>1. Fair(to, c2, Sent(q.rows))
    BY <1>3, <1>4 DEF Fair, Alike, AllMay
  <2>2. Whole(to, c2, Sent(q.rows), k2)
    BY <1>2 DEF Whole, Alike
  <2>3. QED
    BY <1>3, <1>4, <2>1, <2>2 DEF Good, Alike, Same
<1>5. Sound(to, c2, Sent(q.rows), k2)
  BY <1>1, <1>4 DEF Ready, Sound, Alike
<1>6. QED
  BY <1>5 DEF c2

\* Its upload is a version to be published.
LEMMA GoesPutVersion ==
  ASSUME NEW q, NEW to, NEW c, NEW w, Ready(q, c, w, "versioned"), Alike(q, to),
         q.pc = "upload", to.pc = "observe", to.version \in {q.version, Sent(q.rows)}, to.swallowed = q.swallowed
  PROVE  Sound(to, c, Sent(q.rows), "versioned")
<1>1. Named(Sent(q.rows))
  BY NamedSent DEF Ready, Sound
<1>2. ASSUME q.alone PROVE Good(to, c, Sent(q.rows), "versioned")
  BY <1>2 DEF Ready, Sound, Good, Fair, Whole, Same, Alike, AllMay
<1>3. QED
  BY <1>1, <1>2 DEF Ready, Sound, Alike

\* Its upload is a version that repeats what serves.
LEMMA GoesIgnored ==
  ASSUME NEW q, NEW to, NEW c, NEW w, NEW k, Ready(q, c, w, k), Alike(q, to),
         q.pc = "upload", to.pc = "observe", to.version \in {q.version, Served(c)}, to.swallowed # {}
  PROVE  Sound(to, c, Served(c), k)
<1>1. Named(Served(c))
  BY NamedMerged DEF Ready, Sound
<1>2. ASSUME q.alone PROVE Good(to, c, Served(c), k)
  BY <1>2 DEF Ready, Sound, Good, Fair, Same, Alike, AllMay
<1>3. QED
  BY <1>1, <1>2 DEF Ready, Sound, Alike

LEMMA GoesToPublish ==
  ASSUME NEW q, NEW to, NEW c, NEW w, NEW k, Ready(q, c, w, k), Alike(q, to),
         q.pc = "observe", to.pc = "publish", to.version = q.version, to.swallowed = q.swallowed
  PROVE  Sound(to, c, w, k)
BY DEF Ready, Sound, Alike, Good, Fair, Whole, Same, AllMay

\* What it uploaded has been published, or was not to be, or could not be.
LEMMA GoesPublished ==
  ASSUME NEW q, NEW to, NEW c, NEW w, NEW k, Ready(q, c, w, k), Alike(q, to),
         q.pc = "publish", to.pc \in {"reread", "secrets", "done"},
         to.pc = "secrets" => to.todo = Renewed(q.rows), to.version = q.version,
         NEW c2 \in Configs, Named(c2),
         q.alone => AllMay(q, c2),
         q.alone /\ q.faithful => Same(q, c2),
         q.alone /\ to.swallowed = {} => Fits(c2, Sent(q.rows))
  PROVE  Sound(to, c2, w, k)
<1>1. ASSUME q.alone PROVE Good(to, c2, w, k)
  <2>1. Fair(to, c2, w)
    BY <1>1 DEF Ready, Sound, Good, Fair, Alike, AllMay
  <2>2. ASSUME to.swallowed = {} PROVE Whole(to, c2, w, k)
    <3>1. AllMay(to, c2) /\ Fits(c2, Sent(to.rows)) /\ to.rows \in Rows /\ to.start \in Configs
      BY <1>1, <2>2 DEF Alike, AllMay, Ready
    <3>2. /\ \A n \in Names : InPlace(to, c2, n)
          /\ \A n \in Renewed(to.rows) : c2[n] = [kind |-> "secret", val |-> to.rows[n].val]
      BY <3>1, FitsInPlace
    <3>3. QED
      BY <3>1, <3>2 DEF Whole
  <2>3. QED
    BY <1>1, <2>1, <2>2 DEF Good, Alike, Same
<1>2. QED
  BY <1>1 DEF Ready, Sound, Alike

\* The two ways a configuration comes to be published: as a version, or not at all.
LEMMA PublishedVersion ==
  ASSUME NEW q, NEW c, NEW w, NEW k, Ready(q, c, w, k), q.pc = "publish",
         NEW x, Named(x), q.alone => x = Sent(q.rows) \/ (x = Served(c) /\ q.swallowed # {})
  PROVE  /\ Named(Uploaded(c, x))
         /\ q.alone => AllMay(q, Uploaded(c, x))
         /\ q.alone /\ q.faithful => Same(q, Uploaded(c, x))
         /\ q.alone /\ q.swallowed = {} => Fits(Uploaded(c, x), Sent(q.rows))
<1>1. Named(Uploaded(c, x))
  BY NamedMerged DEF Ready, Sound
<1>2. ASSUME q.alone
      PROVE  /\ AllMay(q, Uploaded(c, x))
             /\ q.faithful => Same(q, Uploaded(c, x))
             /\ q.swallowed = {} => Fits(Uploaded(c, x), Sent(q.rows))
  <2>1. Good(q, c, w, k) /\ q.rows \in Rows /\ q.start \in Configs /\ c \in Configs
    BY <1>2 DEF Ready, Sound
  <2>2. CASE x = Sent(q.rows)
    <3>1. AllMay(q, Uploaded(c, x))
      BY <2>1, <2>2, MayMerged DEF Good, Fair, AllMay
    <3>2. ASSUME q.faithful PROVE Same(q, Uploaded(c, x))
      BY <2>1, <2>2, <3>2, SameMerged DEF Good, Same
    <3>3. QED
      BY <2>2, <3>1, <3>2, FitsUploaded
  <2>3. CASE x = Served(c) /\ q.swallowed # {}
    <3>1. Uploaded(c, x) = c
      BY <2>1, <2>3, Repeated
    <3>2. QED
      BY <2>1, <2>3, <3>1 DEF Good, Fair
  <2>4. QED
    BY <1>2, <2>2, <2>3
<1>3. QED
  BY <1>1, <1>2

LEMMA PublishedNothing ==
  ASSUME NEW q, NEW c, NEW w, NEW k, Ready(q, c, w, k), q.pc = "publish"
  PROVE  /\ Named(c)
         /\ q.alone => AllMay(q, c)
         /\ q.alone /\ q.faithful => Same(q, c)
         /\ q.alone /\ q.swallowed = {} /\ k # "versioned" =>
              Fits(c, Sent(q.rows))
BY DEF Ready, Sound, Good, Fair, Whole

\* It has read the configuration once more.
LEMMA GoesReread ==
  ASSUME NEW q, NEW to, NEW c, NEW w, NEW k, Ready(q, c, w, k), Alike(q, to),
         q.pc = "reread", to.pc = "secrets", to.todo = Renewed(q.rows),
         to.version = q.version, to.swallowed = q.swallowed
  PROVE  Sound(to, c, w, k)
<1>1. ASSUME q.alone PROVE Good(to, c, w, k)
  <2>1. Good(q, c, w, k)
    BY <1>1 DEF Ready, Sound
  <2>2. Fair(to, c, w)
    BY <2>1 DEF Good, Fair, Alike, AllMay
  <2>3. ASSUME to.swallowed = {} PROVE Whole(to, c, w, k)
    <3>1. AllMay(to, c) /\ Fits(c, Sent(to.rows)) /\ to.rows \in Rows /\ to.start \in Configs /\ c \in Configs
      BY <2>1, <2>3 DEF Alike, AllMay, Ready, Good, Fair, Whole
    <3>2. /\ \A n \in Names : InPlace(to, c, n)
          /\ \A n \in Renewed(to.rows) : c[n] = [kind |-> "secret", val |-> to.rows[n].val]
      BY <3>1, FitsInPlace
    <3>3. QED
      BY <3>2 DEF Whole
  <2>4. QED
    BY <2>1, <2>2, <2>3 DEF Good, Alike, Same
<1>2. QED
  BY <1>1 DEF Ready, Sound, Alike

\* It has stored a secret.
LEMMA GoesStored ==
  ASSUME NEW q, NEW to, NEW c, NEW w, NEW k, NEW n \in Names, Ready(q, c, w, k), Alike(q, to),
         q.pc = "secrets", to.pc = "secrets", n \in q.todo, to.todo = q.todo \ {n},
         to.version = q.version, to.swallowed = q.swallowed, to.uploaded = q.uploaded,
         NEW c2, c2 = [c EXCEPT ![n] = [kind |-> "secret", val |-> q.rows[n].val]]
  PROVE  Sound(to, c2, w, k)
<1>1. c2[n] = [kind |-> "secret", val |-> q.rows[n].val] /\ \A m \in Names : m # n => c2[m] = c[m]
  BY Sets DEF Ready
<1>2. Named(c2)
  BY <1>1 DEF Ready, Sound, Named
<1>3. ASSUME q.alone PROVE Good(to, c2, w, k)
  <2>1. Good(q, c, w, k) /\ n \in Renewed(q.rows) /\ q.rows \in Rows
    BY <1>3 DEF Ready, Sound, Good, Fair
  <2>2. q.rows[n].kind = "secret" /\ ~q.rows[n].keep
    BY <2>1 DEF Renewed
  <2>3. c2[n] = Sent(q.rows)[n]
    BY <1>1, <2>1, <2>2, SentFacts
  <2>4. Fair(to, c2, w)
    <3>1. AllMay(q, c2)
      BY <1>1, <2>1, <2>2, <2>3 DEF Good, Fair, AllMay, May
    <3>2. QED
      BY <2>1, <3>1 DEF Good, Fair, Alike, AllMay
  <2>5. ASSUME to.swallowed = {} PROVE Whole(to, c2, w, k)
    <3>1. Whole(q, c, w, k)
      BY <2>1, <2>5 DEF Good
    <3>2. to.mode # "sync" => \A m \in Names : to.rows[m].kind # "secret" => InPlace(to, c2, m)
      <4> SUFFICES ASSUME q.mode # "sync", NEW m \in Names, q.rows[m].kind # "secret"
                   PROVE  InPlace(to, c2, m)
        BY DEF Alike
      <4>1. InPlace(q, c, m)
        BY <3>1 DEF Whole
      <4>2. c2[m] = c[m]
        BY <1>1, <2>2
      <4>3. QED
        BY <4>1, <4>2 DEF InPlace, Alike
    <3>3. \A m \in Renewed(to.rows) : m \in to.todo \/ c2[m] = [kind |-> "secret", val |-> to.rows[m].val]
      <4> SUFFICES ASSUME NEW m \in Renewed(q.rows), m \notin to.todo
                   PROVE  c2[m] = [kind |-> "secret", val |-> q.rows[m].val]
        BY DEF Alike
      <4>1. m \in Names
        BY DEF Renewed
      <4>2. CASE m = n
        BY <1>1, <4>2
      <4>3. CASE m # n
        BY <1>1, <3>1, <4>1, <4>3 DEF Whole
      <4>4. QED
        BY <4>2, <4>3
    <3>4. QED
      BY <3>2, <3>3 DEF Whole
  <2>6. ASSUME to.faithful PROVE Same(to, c2)
    <3>1. Same(q, c)
      BY <2>1, <2>6 DEF Good, Alike
    <3>2. q.rows[n].keep \/ q.rows[n].kind # "secret"
      BY <3>1 DEF Same, Prefill, Row
    <3>3. QED
      BY <2>2, <3>2
  <2>7. QED
    BY <2>4, <2>5, <2>6 DEF Good
<1>4. QED
  BY <1>2, <1>3 DEF Ready, Sound, Alike

\* It has stored them all, and succeeds.
LEMMA GoesWell ==
  ASSUME NEW q, NEW to, NEW c, NEW w, NEW k, Ready(q, c, w, k), Alike(q, to),
         q.pc = "secrets", q.todo = {}, to.pc = "done",
         to.version = q.version, to.swallowed = q.swallowed, to.uploaded = q.uploaded
  PROVE  Sound(to, c, w, k)
<1>1. ASSUME q.alone PROVE Good(to, c, w, k)
  <2>1. Good(q, c, w, k) /\ q.rows \in Rows
    BY <1>1 DEF Ready, Sound
  <2>2. ASSUME to.swallowed = {} PROVE Whole(to, c, w, k)
    <3>1. Whole(q, c, w, k)
      BY <2>1, <2>2 DEF Good
    <3>2. ASSUME NEW n \in Names, q.rows[n].kind = "secret" PROVE InPlace(to, c, n)
      <4>1. CASE q.rows[n].keep
        <5>1. c[n] \in May(q.rows, q.start, n)
          BY <2>1 DEF Good, Fair, AllMay
        <5>2. QED
          BY <3>2, <4>1, <5>1 DEF May, InPlace, Alike
      <4>2. CASE ~q.rows[n].keep /\ q.rows[n].val # Empty
        <5>1. n \in Renewed(q.rows)
          BY <3>2, <4>2 DEF Renewed
        <5>2. QED
          BY <3>1, <3>2, <4>2, <5>1 DEF Whole, InPlace, Alike
      <4>3. CASE ~q.rows[n].keep /\ q.rows[n].val = Empty
        BY <3>2, <4>3 DEF InPlace, Alike
      <4>4. QED
        BY <4>1, <4>2, <4>3
    <3>3. ASSUME NEW n \in Names, q.rows[n].kind # "secret", q.mode # "sync" PROVE InPlace(to, c, n)
      BY <3>1, <3>3 DEF Whole, InPlace, Alike
    <3>4. QED
      BY <3>2, <3>3 DEF Whole, Alike
  <2>3. QED
    BY <2>1, <2>2 DEF Good, Fair, Same, Alike, AllMay
<1>2. QED
  BY <1>1 DEF Ready, Sound, Alike

\* The project has been patched.
LEMMA GoesPatched ==
  ASSUME NEW q, NEW to, NEW c, NEW w, NEW k, Ready(q, c, w, k), Alike(q, to),
         q.pc = "patch", to.pc = "done", to.version = q.version, to.swallowed = q.swallowed
  PROVE  Sound(to, Patched(c, Sent(q.rows)), w, k)
<1> DEFINE c2 == Patched(c, Sent(q.rows))
<1>1. Named(c2)
  BY NamedSent, NamedMerged DEF Ready, Sound
<1>2. ASSUME q.alone PROVE Good(to, c2, w, k)
  <2>1. Good(q, c, w, k) /\ q.rows \in Rows /\ q.start \in Configs /\ c \in Configs
    BY <1>2 DEF Ready, Sound
  <2>2. AllMay(q, c2)
    BY <2>1, MayMerged DEF Good, Fair, AllMay
  <2>3. ASSUME q.faithful PROVE Same(q, c2)
    BY <2>1, <2>3, SameMerged DEF Good, Same
  <2>4. ASSUME q.swallowed = {}, NEW n \in Names PROVE InPlace(to, c2, n)
    <3>1. q.mode # "redeploy"
      BY <2>1, <2>4 DEF Good, Whole
    <3>2. c2[n] \in May(q.rows, q.start, n) /\ (Sent(q.rows)[n] # Absent => c2[n] = Sent(q.rows)[n])
      BY <2>2, MergedFacts DEF AllMay
    <3> HIDE DEF c2
    <3>3. CASE q.rows[n].kind = "none"
      BY <3>1, <3>3 DEF InPlace, Alike
    <3>4. CASE q.rows[n].kind \in {"plain", "bound", "ai"}
      <4>1. c2[n] = [kind |-> q.rows[n].kind, val |-> q.rows[n].val]
        BY <2>1, <3>2, <3>4, SentFacts
      <4>2. c2[n].kind = q.rows[n].kind /\ c2[n].val = q.rows[n].val
        BY <4>1
      <4>3. CASE q.rows[n].kind = "plain"
        BY <4>1, <4>3 DEF InPlace, Alike
      <4>4. CASE q.rows[n].kind = "bound"
        BY <4>2, <4>4 DEF InPlace, Alike
      <4>6. CASE q.rows[n].kind = "ai"
        BY <4>2, <4>6 DEF InPlace, Alike
      <4>5. QED
        BY <3>4, <4>3, <4>4, <4>6
    <3>5. CASE q.rows[n].kind = "secret" /\ q.rows[n].keep
      BY <3>2, <3>5 DEF InPlace, May, Alike
    <3>6. CASE q.rows[n].kind = "secret" /\ ~q.rows[n].keep
      BY <2>1, <3>2, <3>6, SentFacts DEF InPlace, Alike
    <3>7. QED
      BY <2>1, <3>3, <3>4, <3>5, <3>6, SentFacts
  <2> HIDE DEF c2
  <2>5. to.swallowed = {} => Whole(to, c2, w, k)
    BY <2>4 DEF Whole
  <2>6. QED
    BY <2>1, <2>2, <2>3, <2>5 DEF Good, Fair, Same, Alike, AllMay
<1>3. QED
  BY <1>1, <1>2 DEF Ready, Sound, Alike
\* The rows without a resource have been given one; a form as it was filled in had none of those.
LEMMA GoesResolved ==
  ASSUME NEW q, NEW to, NEW c, NEW w, NEW k, NEW v \in Values, Ready(q, c, w, k),
         q.pc = "resolve", to.pc \in {"read", "upload", "patch"},
         to.pc = "patch" => q.mode \notin {"redeploy", "deploy"},
         to.rows \in Rows,
         \A n \in Names : to.rows[n] = IF q.rows[n].kind = "bound" /\ q.rows[n].val = Empty
                                       THEN Row("bound", v) ELSE q.rows[n],
         to.start = q.start, to.mode = q.mode, to.alone = q.alone, to.faithful = q.faithful,
         to.version = q.version, to.swallowed = q.swallowed, to.uploaded = q.uploaded
  PROVE  Sound(to, c, w, k)
<1>1. Named(to.rows)
  BY RedeployAssumption DEF Named, Row
<1>2. ASSUME q.alone PROVE Good(to, c, w, k)
  <2>1. Good(q, c, w, k) /\ c = q.start
    BY <1>2 DEF Ready, Sound, Good, Fair
  <2>2. Fair(to, c, w)
    BY <2>1 DEF Good, Fair, AllMay, May
  <2>3. to.swallowed = {} => Whole(to, c, w, k)
    BY <2>1 DEF Good, Whole
  <2>4. ASSUME to.faithful PROVE Same(to, c)
    <3>1. Same(q, c) /\ Named(q.start)
      BY <2>1, <2>4 DEF Good, Ready, Sound
    <3>2. \A n \in Names : to.rows[n] = q.rows[n]
      <4> SUFFICES ASSUME NEW n \in Names, q.rows[n].kind = "bound" PROVE q.rows[n].val # Empty
        OBVIOUS
      <4>1. /\ q.rows[n] = Prefill(q.start)[n]
            /\ q.start[n].kind = "bound" => q.start[n].val # Empty
        BY <3>1 DEF Same, Named
      <4>2. CASE q.start[n].kind = "bound"
        <5>1. ~(n = AiName /\ WithAi(q.start))
          <6>1. Row("ai", Empty).kind # "bound"
            BY DEF Row
          <6>2. QED
            BY <4>1, <6>1 DEF Prefill
        <5>3. q.rows[n] = Row(q.start[n].kind, q.start[n].val)
          BY <4>1, <4>2, <5>1 DEF Prefill
        <5>2. QED
          BY <4>1, <4>2, <5>3 DEF Row
      <4>3. CASE q.start[n].kind # "bound"
        BY <4>1, <4>3 DEF Prefill, Row
      <4>4. QED
        BY <4>2, <4>3
    <3>3. to.rows = q.rows
      BY <3>2, Sets DEF Ready
    <3>4. QED
      BY <3>1, <3>3 DEF Same
  <2>5. QED
    BY <2>2, <2>3, <2>4 DEF Good
<1>3. QED
  BY <1>1, <1>2 DEF Ready, Sound

\* A request that arrives.
LEMMA GoesOff ==
  ASSUME NEW to, NEW c \in Configs, NEW w, NEW k, Named(c), Named(w),
         to.pc = IF to.mode = "sync" THEN "secrets" ELSE "resolve", to.rows \in Rows,
         to.todo = IF to.mode = "sync" THEN Renewed(to.rows) ELSE {},
         to.start = c, to.version = NoVersion, ~to.uploaded,
         to.mode = "sync" => Named(to.rows), to.faithful => to.rows = Prefill(c)
  PROVE  Sound(to, c, w, k)
<1>1. Fair(to, c, w)
  BY DEF Fair, AllMay, May
<1>2. Whole(to, c, w, k)
  BY DEF Whole
<1>3. to.faithful => Same(to, c)
  BY DEF Same
<1>4. QED
  BY <1>1, <1>2, <1>3 DEF Sound, Good

-----------------------------------------------------------------------------
(***************************************************************************)
(* The steps of the server.                                                *)
(***************************************************************************)
Sorted == \A s \in Scripts : sort'[s] = sort[s] \/ sort[s] = "absent"

LEMMA ReadyNow ==
  ASSUME ServerOK, Upright, NEW r \in Reqs, req[r].pc # "idle"
  PROVE  /\ Ready(req[r], Conf(r), latest[req[r].script], sort[req[r].script])
         /\ req[r] \in RequestType /\ req[r].script \in Scripts
<1>1. req[r] \in RequestType /\ req[r].script \in Scripts
  BY ReqFacts
<1>2. req[r].rows \in Rows /\ req[r].start \in Configs
  BY <1>1 DEF RequestType
<1>3. live[req[r].script] \in Configs /\ latest[req[r].script] \in Configs
  BY <1>1 DEF ServerOK
<1>4. QED
  BY <1>1, <1>2, <1>3 DEF Ready, Upright, Conf

\* Another request's step takes nothing but its being alone from a request.
LEMMA OtherSound ==
  ASSUME NEW q, NEW to, NEW c, NEW w, NEW k, NEW k2, Sound(q, c, w, k), k2 = k \/ k # "versioned",
         to.pc = q.pc, to.rows = q.rows, to.mode = q.mode, to.todo = q.todo, to.seen = q.seen,
         to.version = q.version, to.ok = q.ok, to.swallowed = q.swallowed, to.uploaded = q.uploaded,
         to.start = q.start, to.faithful = q.faithful, to.alone => q.alone
  PROVE  Sound(to, c, w, k2)
<1>1. ASSUME q.alone PROVE Good(to, c, w, k2)
  <2>1. Good(q, c, w, k)
    BY <1>1 DEF Sound
  <2>2. Fair(to, c, w)
    BY <2>1 DEF Good, Fair, AllMay
  <2>3. \A n \in Names : InPlace(q, c, n) <=> InPlace(to, c, n)
    BY DEF InPlace
  <2>4. to.swallowed = {} => Whole(to, c, w, k2)
    BY <2>1, <2>3 DEF Good, Whole
  <2>5. QED
    BY <2>1, <2>2, <2>4 DEF Good, Same
<1>2. QED
  BY <1>1 DEF Sound

LEMMA StepUpright ==
  ASSUME ServerOK, Upright, NEW r \in Reqs, req[r].pc # "idle", NEW to, NEW c, NEW v,
         Step(r, to, c, v), to.script = req[r].script, Sorted,
         Sound(to, c, v, sort'[req[r].script])
  PROVE  Upright'
<1> DEFINE s == req[r].script
           moved == c # live[s] \/ v # latest[s]
           other(q) == [req[q] EXCEPT !.alone = @ /\ ~(moved /\ req[q].script = s)]
<1>1. s \in Scripts /\ live \in [Scripts -> Configs] /\ latest \in [Scripts -> Configs]
  BY ReqFacts DEF ServerOK
<1>2. live'[s] = c /\ latest'[s] = v
      /\ \A x \in Scripts : x # s => live'[x] = live[x] /\ latest'[x] = latest[x]
  BY <1>1 DEF Step
<1>3. req' = [q \in Reqs |-> IF q = r THEN to ELSE other(q)]
  BY DEF Step
<1>4. \A x \in Scripts : Named(live'[x]) /\ Named(latest'[x])
  BY <1>2 DEF Upright, Sound
<1>5. ASSUME NEW q \in Reqs, q # r, req[q].pc # "idle"
      PROVE  /\ other(q).script = req[q].script
             /\ Sound(other(q), live'[req[q].script], latest'[req[q].script], sort'[req[q].script])
  <2> DEFINE x == req[q].script
  <2>1. req[q] \in RequestType /\ x \in Scripts
    BY <1>5, ReqFacts
  <2>2. Sound(req[q], live[x], latest[x], sort[x])
    BY <1>5 DEF Upright
  <2>3. /\ other(q).pc = req[q].pc /\ other(q).rows = req[q].rows /\ other(q).mode = req[q].mode
        /\ other(q).todo = req[q].todo /\ other(q).seen = req[q].seen /\ other(q).script = req[q].script
        /\ other(q).version = req[q].version /\ other(q).ok = req[q].ok
        /\ other(q).swallowed = req[q].swallowed /\ other(q).uploaded = req[q].uploaded
        /\ other(q).start = req[q].start /\ other(q).faithful = req[q].faithful
    BY <2>1 DEF RequestType
  <2>4. other(q).alone = (req[q].alone /\ ~(moved /\ x = s))
    BY <2>1 DEF RequestType
  <2>5. sort'[x] = sort[x] \/ sort[x] # "versioned"
    BY <2>1 DEF Sorted
  <2>6. CASE live'[x] = live[x] /\ latest'[x] = latest[x]
    <3> DEFINE o == other(q)
    <3>1. o.alone => req[q].alone
      BY <2>4
    <3> HIDE DEF other, moved
    <3>2. /\ o.pc = req[q].pc /\ o.rows = req[q].rows /\ o.mode = req[q].mode
          /\ o.todo = req[q].todo /\ o.seen = req[q].seen
          /\ o.version = req[q].version /\ o.ok = req[q].ok
          /\ o.swallowed = req[q].swallowed /\ o.uploaded = req[q].uploaded
          /\ o.start = req[q].start /\ o.faithful = req[q].faithful
      BY <2>3
    <3> HIDE DEF o
    <3>3. Sound(o, live[x], latest[x], sort'[x])
      BY <2>2, <2>5, <3>1, <3>2, OtherSound
    <3>4. QED
      BY <2>3, <2>6, <3>3 DEF o
  <2>7. CASE ~(live'[x] = live[x] /\ latest'[x] = latest[x])
    <3>1. ~other(q).alone
      BY <1>2, <2>1, <2>4, <2>7
    <3> HIDE DEF other, moved
    <3>2. Named(live'[x]) /\ Named(latest'[x])
      BY <1>4, <2>1
    <3>3. QED
      BY <2>2, <2>3, <3>1, <3>2 DEF Sound
  <2>8. QED
    BY <2>6, <2>7
<1>6. ASSUME NEW q \in Reqs, q # r, other(q).pc # "idle" PROVE req[q].pc # "idle"
  BY <1>6 DEF ServerOK, RequestType
<1> HIDE DEF other
<1>7. ASSUME NEW q \in Reqs, req'[q].pc # "idle"
      PROVE  Sound(req'[q], live'[req'[q].script], latest'[req'[q].script], sort'[req'[q].script])
  <2>1. CASE q = r
    BY <1>2, <1>3, <2>1
  <2>2. CASE q # r
    <3>1. req'[q] = other(q)
      BY <1>3, <2>2
    <3>2. QED
      BY <1>5, <1>6, <1>7, <2>2, <3>1
  <2>3. QED
    BY <2>1, <2>2
<1>8. QED
  BY <1>4, <1>7 DEF Upright

LEMMA GoUpright ==
  ASSUME ServerOK, Upright, NEW r \in Reqs, req[r].pc # "idle", NEW to,
         Go(r, to), to.script = req[r].script, UNCHANGED sort,
         Sound(to, Conf(r), latest[req[r].script], sort[req[r].script])
  PROVE  Upright'
BY StepUpright DEF Go, Sorted

LEMMA FailUpright ==
  ASSUME ServerOK, Upright, NEW r \in Reqs, req[r].pc # "idle", Fail(r), UNCHANGED sort
  PROVE  Upright'
<1> DEFINE to == Answer(r, FALSE)
<1>1. /\ Ready(req[r], Conf(r), latest[req[r].script], sort[req[r].script]) /\ req[r] \in RequestType
  BY ReadyNow
<1>2. Alike(req[r], to) /\ to.pc = "done" /\ ~to.ok /\ to.version = req[r].version /\ to.script = req[r].script
  BY <1>1 DEF Alike, Answer, RequestType
<1> HIDE DEF to
<1>3. Sound(to, Conf(r), latest[req[r].script], sort[req[r].script])
  BY <1>1, <1>2, GoesWrong
<1>4. Go(r, to)
  BY DEF Fail, to
<1>5. QED
  BY <1>2, <1>3, <1>4, GoUpright
LEMMA ResolveUpright == ASSUME ServerOK, Upright, NEW r \in Reqs, Resolve(r) PROVE Upright'
<1> DEFINE q == req[r]
<1>1. q.pc = "resolve" /\ q.pc # "idle" /\ UNCHANGED sort
  BY DEF Resolve, At
<1>2. CASE Fail(r)
  BY <1>1, <1>2, FailUpright
<1>3. CASE ~Fail(r)
  <2> DEFINE filled(v) == [n \in Names |-> IF q.rows[n].kind = "bound" /\ q.rows[n].val = Empty
                                           THEN Row("bound", v) ELSE q.rows[n]]
             next == CASE q.mode = "redeploy" -> "read" [] q.mode = "deploy" -> "upload" [] OTHER -> "patch"
             to(v) == [q EXCEPT !.rows = filled(v), !.pc = next]
  <2>1. PICK v \in Values : Go(r, to(v))
    BY <1>3 DEF Resolve
  <2>2. Ready(q, Conf(r), latest[q.script], sort[q.script]) /\ q \in RequestType
    BY <1>1, ReadyNow
  <2>3. next \in {"read", "upload", "patch"} /\ (next = "patch" => q.mode \notin {"redeploy", "deploy"})
    OBVIOUS
  <2>4. filled(v) \in Rows
    <3>1. \A n \in Names : q.rows[n] \in RowSet
      BY <2>2, Sets DEF RequestType
    <3>2. Row("bound", v) \in RowSet
      BY RowTyped DEF Texts
    <3>3. QED
      BY <3>1, <3>2, Sets
  <2>5. /\ to(v).rows = filled(v) /\ to(v).pc = next /\ to(v).script = q.script
        /\ to(v).start = q.start /\ to(v).mode = q.mode /\ to(v).alone = q.alone /\ to(v).faithful = q.faithful
        /\ to(v).version = q.version /\ to(v).swallowed = q.swallowed /\ to(v).uploaded = q.uploaded
    BY <2>2 DEF RequestType
  <2>6. \A n \in Names : filled(v)[n] = IF q.rows[n].kind = "bound" /\ q.rows[n].val = Empty
                                        THEN Row("bound", v) ELSE q.rows[n]
    OBVIOUS
  <2> HIDE DEF to, filled, next
  <2>7. Sound(to(v), Conf(r), latest[q.script], sort[q.script])
    BY <1>1, <2>2, <2>3, <2>4, <2>5, <2>6, GoesResolved
  <2>8. QED
    BY <1>1, <2>1, <2>5, <2>7, GoUpright
<1>4. QED
  BY <1>2, <1>3

LEMMA SeenUpright ==
  ASSUME ServerOK, Upright, NEW r \in Reqs, At(r, "read"), NEW c, Go(r, Seen(r, c)), UNCHANGED sort
  PROVE  Upright'
<1> DEFINE q == req[r]
           to == Seen(r, c)
<1>1. Ready(q, Conf(r), latest[q.script], sort[q.script]) /\ q \in RequestType /\ q.pc = "read" /\ q.pc # "idle"
  BY ReadyNow DEF At
<1>2. Alike(q, to) /\ to.pc = "purge" /\ to.seen = c /\ to.todo = Doomed(c, q.rows)
      /\ to.uploaded = q.uploaded /\ to.version = q.version /\ to.script = q.script
      /\ (to.swallowed = {} => c = Conf(r) /\ q.swallowed = {})
  BY <1>1 DEF Seen, Alike, RequestType
<1> HIDE DEF to
<1>3. Sound(to, Conf(r), latest[q.script], sort[q.script])
  BY <1>1, <1>2, GoesToPurge
<1>4. Go(r, to)
  BY DEF to
<1>5. QED
  BY <1>1, <1>2, <1>3, <1>4, GoUpright

LEMMA ReadUpright ==
  ASSUME ServerOK, Upright, NEW r \in Reqs, ReadNode(r) \/ ReadWorker(r) PROVE Upright'
<1>1. At(r, "read") /\ req[r].pc # "idle" /\ UNCHANGED sort
      /\ (Fail(r) \/ \E c \in {Conf(r), Blank} : Go(r, Seen(r, c)))
  BY DEF ReadNode, ReadWorker, At
<1>2. QED
  BY <1>1, FailUpright, SeenUpright

LEMMA PurgeUpright == ASSUME ServerOK, Upright, NEW r \in Reqs, Purge(r) PROVE Upright'
<1> DEFINE q == req[r]
<1>1. q.pc = "purge" /\ q.pc # "idle" /\ UNCHANGED sort
  BY DEF Purge, At
<1>2. Ready(q, Conf(r), latest[q.script], sort[q.script]) /\ q \in RequestType
  BY <1>1, ReadyNow
<1>3. PICK n \in q.todo :
        LET to == [q EXCEPT !.todo = @ \ {n}] IN
        \/ Step(r, to, [Conf(r) EXCEPT ![n] = IF @.kind = "secret" THEN Absent ELSE @], latest[q.script])
        \/ Go(r, [to EXCEPT !.swallowed = @ \cup {"undeleted"}])
  BY DEF Purge
<1> DEFINE to == [q EXCEPT !.todo = @ \ {n}]
           un == [to EXCEPT !.swallowed = @ \cup {"undeleted"}]
           c2 == [Conf(r) EXCEPT ![n] = IF Conf(r)[n].kind = "secret" THEN Absent ELSE Conf(r)[n]]
<1>4. n \in Names
  BY <1>2 DEF RequestType
<1>5. Alike(q, to) /\ to.pc = "purge" /\ to.todo = q.todo \ {n} /\ to.version = q.version
      /\ to.swallowed = q.swallowed /\ to.seen = q.seen /\ to.uploaded = q.uploaded /\ to.script = q.script
  BY <1>1, <1>2 DEF Alike, RequestType
<1>6. Alike(q, un) /\ un.pc = "purge" /\ un.todo = q.todo \ {n} /\ un.version = q.version
      /\ un.swallowed = q.swallowed \cup {"undeleted"} /\ un.script = q.script
  BY <1>1, <1>2 DEF Alike, RequestType
<1>7. Step(r, to, c2, latest[q.script]) \/ Go(r, un)
  <2>1. c2 = [Conf(r) EXCEPT ![n] = IF @.kind = "secret" THEN Absent ELSE @]
    BY Sets, <1>2 DEF Ready
  <2>2. QED
    BY <1>3, <2>1
<1> HIDE DEF to, un
<1>8. Sound(to, c2, latest[q.script], sort[q.script])
  BY <1>1, <1>2, <1>4, <1>5, GoesOnDeleted
<1>9. Sound(un, Conf(r), latest[q.script], sort[q.script])
  BY <1>1, <1>2, <1>6, GoesOnUndeleted
<1> HIDE DEF c2
<1>10. CASE Step(r, to, c2, latest[q.script])
  BY <1>1, <1>5, <1>8, <1>10, StepUpright DEF Sorted
<1>11. CASE Go(r, un)
  BY <1>1, <1>6, <1>9, <1>11, GoUpright
<1>12. QED
  BY <1>7, <1>10, <1>11

LEMMA DecideUpright == ASSUME ServerOK, Upright, NEW r \in Reqs, Decide(r) PROVE Upright'
<1> DEFINE q == req[r]
           changed == PlainChanged(q.seen, q.rows) \/ BindingsChanged(q.seen, q.rows)
           up == [To(r, IF q.code THEN "upload" ELSE "fetch") EXCEPT !.seen = Blank]
           past == [To(r, "secrets") EXCEPT !.seen = Blank, !.todo = Renewed(q.rows)]
<1>1. q.pc = "purge" /\ q.pc # "idle" /\ q.todo = {} /\ UNCHANGED sort
      /\ IF changed THEN Go(r, up) ELSE Go(r, past)
  BY DEF Decide, At
<1>2. Ready(q, Conf(r), latest[q.script], sort[q.script]) /\ q \in RequestType
  BY <1>1, ReadyNow
<1>3. Alike(q, up) /\ up.pc \in {"fetch", "upload", "junk"} /\ up.version = q.version
      /\ up.swallowed = q.swallowed /\ up.script = q.script
  BY <1>2 DEF Alike, To, RequestType
<1>4. Alike(q, past) /\ past.pc = "secrets" /\ past.todo = Renewed(q.rows) /\ past.uploaded = q.uploaded
      /\ past.version = q.version /\ past.swallowed = q.swallowed /\ past.script = q.script
  BY <1>2 DEF Alike, To, RequestType
<1>5. q.seen \in Configs
  BY <1>2 DEF RequestType
<1> HIDE DEF up, past
<1>6. CASE changed
  <2>1. Sound(up, Conf(r), latest[q.script], sort[q.script])
    BY <1>1, <1>2, <1>3, GoesToUpload
  <2>2. QED
    BY <1>1, <1>3, <1>6, <2>1, GoUpright
<1>7. CASE ~changed
  <2>1. Sound(past, Conf(r), latest[q.script], sort[q.script])
    BY <1>1, <1>2, <1>4, <1>5, <1>7, GoesPastUpload
  <2>2. QED
    BY <1>1, <1>4, <1>7, <2>1, GoUpright
<1>8. QED
  BY <1>6, <1>7

\* A request that only moves on.
LEMMA TurnUpright ==
  ASSUME ServerOK, Upright, NEW r \in Reqs, NEW pc, Go(r, To(r, pc)), UNCHANGED sort,
         \/ req[r].pc = "fetch" /\ pc \in {"upload", "junk"}
         \/ req[r].pc = "observe" /\ pc = "publish"
  PROVE  Upright'
<1> DEFINE q == req[r]
           to == To(r, pc)
<1>1. Ready(q, Conf(r), latest[q.script], sort[q.script]) /\ q \in RequestType /\ q.pc # "idle"
  BY ReadyNow
<1>2. Alike(q, to) /\ to.pc = pc /\ to.version = q.version /\ to.swallowed = q.swallowed /\ to.script = q.script
  BY <1>1 DEF Alike, To, RequestType
<1>3. Go(r, to)
  OBVIOUS
<1> HIDE DEF to
<1>4. Sound(to, Conf(r), latest[q.script], sort[q.script])
  <2>1. CASE q.pc = "fetch" /\ pc \in {"upload", "junk"}
    BY <1>1, <1>2, <2>1, GoesToUpload
  <2>2. CASE q.pc = "observe" /\ pc = "publish"
    BY <1>1, <1>2, <2>2, GoesToPublish
  <2>3. QED
    BY <2>1, <2>2
<1>5. QED
  BY <1>1, <1>2, <1>3, <1>4, GoUpright

LEMMA FetchUpright ==
  ASSUME ServerOK, Upright, NEW r \in Reqs, FetchNode(r) \/ FetchWorker(r) PROVE Upright'
<1>1. req[r].pc = "fetch" /\ req[r].pc # "idle" /\ UNCHANGED sort
      /\ (Fail(r) \/ Go(r, To(r, "upload")) \/ Go(r, To(r, "junk")))
  BY DEF FetchNode, FetchWorker, At
<1>2. QED
  BY <1>1, FailUpright, TurnUpright

LEMMA ObserveUpright == ASSUME ServerOK, Upright, NEW r \in Reqs, Observe(r) PROVE Upright'
<1>1. req[r].pc = "observe" /\ req[r].pc # "idle" /\ UNCHANGED sort
      /\ (Fail(r) \/ Go(r, To(r, "publish")))
  BY DEF Observe, At
<1>2. QED
  BY <1>1, FailUpright, TurnUpright
\* A version is uploaded, by either way to it.
LEMMA VersionUpright ==
  ASSUME ServerOK, Upright, NEW r \in Reqs, req[r].pc = "upload", UNCHANGED sort,
         sort[req[r].script] = "versioned",
         NEW to \in Replies([To(r, "observe") EXCEPT !.uploaded = TRUE], Sent(req[r].rows)),
         Step(r, to, live[req[r].script], Sent(req[r].rows))
  PROVE  Upright'
<1> DEFINE q == req[r]
<1>1. Ready(q, Conf(r), latest[q.script], sort[q.script]) /\ q \in RequestType /\ q.pc # "idle"
  BY ReadyNow
<1>2. Alike(q, to) /\ to.pc = "observe" /\ to.version \in {q.version, Sent(q.rows)} /\ to.swallowed = q.swallowed
      /\ to.script = q.script
  BY <1>1 DEF Alike, To, Replies, RequestType
<1>3. Step(r, to, Conf(r), Sent(q.rows))
  BY DEF Conf
<1>4. Sound(to, Conf(r), Sent(q.rows), sort'[q.script])
  BY <1>1, <1>2, GoesPutVersion
<1>5. QED
  BY <1>1, <1>2, <1>3, <1>4, StepUpright DEF Sorted

LEMMA PutUpright ==
  ASSUME ServerOK, Upright, NEW r \in Reqs, req[r].pc = "upload", Put(r),
         NEW k \in Born(req[r].script), sort' = [sort EXCEPT ![req[r].script] = k]
  PROVE  Upright'
<1> DEFINE q == req[r]
           s == q.script
           sent == Sent(q.rows)
           on == [To(r, "observe") EXCEPT !.uploaded = TRUE]
           ig == Swallow(r, "ignored", "observe")
<1>1. Ready(q, live[s], latest[s], sort[s]) /\ q \in RequestType /\ q.pc # "idle" /\ s \in Scripts
  BY ReadyNow DEF Conf
<1>2. Sorted
  BY <1>1 DEF Sorted, Born, ServerOK
<1>3. ASSUME NEW to \in Replies(on, sent)
      PROVE  Alike(q, to) /\ to.pc = "observe" /\ to.version \in {q.version, sent}
             /\ to.swallowed = q.swallowed /\ to.script = s
  BY <1>1, <1>3 DEF Alike, To, Replies, RequestType
<1>4. ASSUME NEW to \in Replies(ig, Served(live[s]))
      PROVE  Alike(q, to) /\ to.pc = "observe" /\ to.version \in {q.version, Served(live[s])}
             /\ to.swallowed # {} /\ to.script = s
  <2>1. ig \in RequestType /\ Alike(q, ig) /\ ig.pc = "observe" /\ ig.version = q.version /\ ig.script = s
        /\ ig.swallowed = q.swallowed \cup {"ignored"}
    BY <1>1 DEF Alike, Swallow, RequestType
  <2> HIDE DEF ig
  <2>2. ig.swallowed # {}
    BY <2>1
  <2>3. to = ig \/ to = [ig EXCEPT !.version = Served(live[s])]
    BY <1>4 DEF Replies
  <2>4. QED
    BY <2>1, <2>2, <2>3 DEF Alike, RequestType
<1>5. sort[s] = "versioned" => UNCHANGED sort
  BY <1>1 DEF Born, ServerOK
<1>6. \/ /\ sort[s] \in {"absent", "classic"}
         /\ \E to \in Replies(on, sent) : Step(r, to, Uploaded(live[s], sent), sent)
      \/ sort[s] = "versioned" /\ \E to \in Replies(on, sent) : Step(r, to, live[s], sent)
      \/ /\ sort[s] = "versioned"
         /\ \E to \in Replies(ig, Served(live[s])) : Step(r, to, live[s], Served(live[s]))
  BY DEF Put
<1>7. CASE sort[s] = "versioned" /\ \E to \in Replies(on, sent) : Step(r, to, live[s], sent)
  BY <1>5, <1>7, VersionUpright
<1> HIDE DEF on, ig
<1>8. CASE sort[s] \in {"absent", "classic"} /\ \E to \in Replies(on, sent) : Step(r, to, Uploaded(live[s], sent), sent)
  <2>1. PICK to \in Replies(on, sent) : Step(r, to, Uploaded(live[s], sent), sent)
    BY <1>8
  <2>2. Sound(to, Uploaded(live[s], sent), sent, sort'[s])
    BY <1>1, <1>3, GoesPutLive
  <2>3. QED
    BY <1>1, <1>2, <1>3, <2>1, <2>2, StepUpright
<1>9. CASE sort[s] = "versioned" /\ \E to \in Replies(ig, Served(live[s])) : Step(r, to, live[s], Served(live[s]))
  <2>1. PICK to \in Replies(ig, Served(live[s])) : Step(r, to, live[s], Served(live[s]))
    BY <1>9
  <2>2. Sound(to, live[s], Served(live[s]), sort[s])
    BY <1>1, <1>4, GoesIgnored
  <2>3. QED
    BY <1>1, <1>2, <1>4, <1>5, <1>9, <2>1, <2>2, StepUpright
<1>10. QED
  BY <1>6, <1>7, <1>8, <1>9

LEMMA UploadUpright ==
  ASSUME ServerOK, Upright, NEW r \in Reqs, UploadNode(r) \/ UploadWorker(r) PROVE Upright'
<1>1. CASE Fail(r) /\ UNCHANGED sort /\ req[r].pc \in {"upload", "junk"}
  BY <1>1, FailUpright
<1>2. CASE req[r].pc = "upload" /\ Put(r) /\ \E k \in Born(req[r].script) : sort' = [sort EXCEPT ![req[r].script] = k]
  BY <1>2, PutUpright
<1>3. CASE req[r].pc = "upload" /\ sort[req[r].script] = "versioned" /\ UNCHANGED sort
           /\ Step(r, [To(r, "observe") EXCEPT !.uploaded = TRUE, !.version = Sent(req[r].rows)],
                   live[req[r].script], Sent(req[r].rows))
  <2>1. [To(r, "observe") EXCEPT !.uploaded = TRUE, !.version = Sent(req[r].rows)]
          \in Replies([To(r, "observe") EXCEPT !.uploaded = TRUE], Sent(req[r].rows))
    BY DEF Replies
  <2>2. QED
    BY <1>3, <2>1, VersionUpright
<1>4. QED
  BY <1>1, <1>2, <1>3 DEF UploadNode, UploadWorker, At

\* What publishing makes of the request.
LEMMA PublishedFacts ==
  ASSUME NEW r \in Reqs, req[r] \in RequestType
  PROVE  LET to == Published(r)
             un == [Published(r) EXCEPT !.swallowed = @ \cup {"undeployed"}]
         IN /\ Alike(req[r], to) /\ to.pc \in {"reread", "secrets", "done"} /\ to.script = req[r].script
            /\ to.pc = "secrets" => to.todo = Renewed(req[r].rows)
            /\ to.version = req[r].version /\ to.swallowed = req[r].swallowed
            /\ Alike(req[r], un) /\ un.pc \in {"reread", "secrets", "done"} /\ un.script = req[r].script
            /\ un.pc = "secrets" => un.todo = Renewed(req[r].rows)
            /\ un.version = req[r].version /\ un.swallowed # {}
<1> DEFINE to == Published(r)
           un == [to EXCEPT !.swallowed = @ \cup {"undeployed"}]
<1>1. /\ Alike(req[r], to) /\ to.pc \in {"reread", "secrets", "done"} /\ to.script = req[r].script
      /\ to.pc = "secrets" => to.todo = Renewed(req[r].rows)
      /\ to.version = req[r].version /\ to.swallowed = req[r].swallowed
  BY DEF Alike, Published, Answer, To, RequestType
<1>2. /\ Alike(req[r], un) /\ un.pc = to.pc /\ un.script = to.script /\ un.todo = to.todo
      /\ un.version = to.version /\ "undeployed" \in un.swallowed
  BY <1>1 DEF Alike, Published, Answer, To, RequestType
<1> HIDE DEF to, un
<1>3. QED
  BY <1>1, <1>2 DEF to, un

\* It is published as x, or is not.
LEMMA VersionPublished ==
  ASSUME ServerOK, Upright, NEW r \in Reqs, req[r].pc = "publish", UNCHANGED sort, NEW x \in Configs,
         Named(x), req[r].alone => x = Sent(req[r].rows) \/ (x = Served(Conf(r)) /\ req[r].swallowed # {}),
         \/ Step(r, Published(r), Uploaded(Conf(r), x), latest[req[r].script])
         \/ Go(r, [Published(r) EXCEPT !.swallowed = @ \cup {"undeployed"}])
  PROVE  Upright'
<1> DEFINE q == req[r]
           s == q.script
           to == Published(r)
           un == [Published(r) EXCEPT !.swallowed = @ \cup {"undeployed"}]
           c2 == Uploaded(Conf(r), x)
<1>1. Ready(q, Conf(r), latest[s], sort[s]) /\ q \in RequestType /\ q.pc # "idle" /\ Conf(r) \in Configs
  BY ReadyNow DEF Ready
<1>2. /\ Alike(q, to) /\ to.pc \in {"reread", "secrets", "done"} /\ to.script = s
      /\ to.pc = "secrets" => to.todo = Renewed(q.rows)
      /\ to.version = q.version /\ to.swallowed = q.swallowed
      /\ Alike(q, un) /\ un.pc \in {"reread", "secrets", "done"} /\ un.script = s
      /\ un.pc = "secrets" => un.todo = Renewed(q.rows)
      /\ un.version = q.version /\ un.swallowed # {}
  BY <1>1, PublishedFacts
<1>3. /\ Named(c2) /\ c2 \in Configs
      /\ q.alone => AllMay(q, c2)
      /\ q.alone /\ q.faithful => Same(q, c2)
      /\ q.alone /\ q.swallowed = {} => Fits(c2, Sent(q.rows))
  BY <1>1, PublishedVersion, MergedTyped
<1>4. /\ Named(Conf(r))
      /\ q.alone => AllMay(q, Conf(r))
      /\ q.alone /\ q.faithful => Same(q, Conf(r))
  BY <1>1, PublishedNothing
<1>5. Step(r, to, c2, latest[s]) \/ Go(r, un)
  OBVIOUS
<1> HIDE DEF to, un, c2
<1>6. Sound(to, c2, latest[s], sort[s])
  BY <1>1, <1>2, <1>3, GoesPublished
<1>7. Sound(un, Conf(r), latest[s], sort[s])
  BY <1>1, <1>2, <1>4, GoesPublished
<1>8. CASE Step(r, to, c2, latest[s])
  BY <1>1, <1>2, <1>6, <1>8, StepUpright DEF Sorted
<1>9. CASE Go(r, un)
  BY <1>1, <1>2, <1>7, <1>9, GoUpright
<1>10. QED
  BY <1>5, <1>8, <1>9

\* There is nothing to publish.
LEMMA SkipUpright ==
  ASSUME ServerOK, Upright, NEW r \in Reqs, req[r].pc = "publish", UNCHANGED sort, Go(r, Published(r)),
         sort[req[r].script] # "versioned"
  PROVE  Upright'
<1> DEFINE q == req[r]
           s == q.script
           to == Published(r)
<1>1. Ready(q, Conf(r), latest[s], sort[s]) /\ q \in RequestType /\ q.pc # "idle" /\ Conf(r) \in Configs
  BY ReadyNow DEF Ready
<1>2. /\ Alike(q, to) /\ to.pc \in {"reread", "secrets", "done"} /\ to.script = s
      /\ to.pc = "secrets" => to.todo = Renewed(q.rows)
      /\ to.version = q.version /\ to.swallowed = q.swallowed
  BY <1>1, PublishedFacts
<1>3. /\ Named(Conf(r))
      /\ q.alone => AllMay(q, Conf(r))
      /\ q.alone /\ q.faithful => Same(q, Conf(r))
      /\ q.alone /\ q.swallowed = {} => Fits(Conf(r), Sent(q.rows))
  BY <1>1, PublishedNothing
<1>4. Go(r, to)
  OBVIOUS
<1> HIDE DEF to
<1>5. Sound(to, Conf(r), latest[s], sort[s])
  BY <1>1, <1>2, <1>3, GoesPublished
<1>6. QED
  BY <1>1, <1>2, <1>4, <1>5, GoUpright

LEMMA PublishUpright == ASSUME ServerOK, Upright, NEW r \in Reqs, Publish(r) PROVE Upright'
<1> DEFINE q == req[r]
           s == q.script
<1>1. q.pc = "publish" /\ q.pc # "idle" /\ UNCHANGED sort
  BY DEF Publish, At
<1>2. CASE sort[s] # "versioned"
  BY <1>1, <1>2, SkipUpright DEF Publish
<1>3. CASE sort[s] = "versioned"
  <2>1. Ready(q, Conf(r), latest[s], sort[s]) /\ q \in RequestType
    BY <1>1, ReadyNow
  <2>2. Chosen(r) \in Configs /\ Named(Chosen(r))
    BY <2>1 DEF Ready, Sound, Chosen, RequestType
  <2>3. q.alone => Chosen(r) = Sent(q.rows) \/ (Chosen(r) = Served(Conf(r)) /\ q.swallowed # {})
    <3>1. q.alone => /\ q.version \in {NoVersion, latest[s]}
                     /\ latest[s] \in {Sent(q.rows), Served(Conf(r))}
                     /\ q.swallowed = {} => latest[s] = Sent(q.rows)
      BY <1>1, <2>1 DEF Ready, Sound, Good, Fair, Whole
    <3>2. QED
      BY <3>1 DEF Chosen
  <2>4. \/ Step(r, Published(r), Uploaded(Conf(r), Chosen(r)), latest[s])
        \/ Go(r, [Published(r) EXCEPT !.swallowed = @ \cup {"undeployed"}])
    BY <1>3 DEF Publish, Conf
  <2>5. QED
    BY <1>1, <2>2, <2>3, <2>4, VersionPublished
<1>4. QED
  BY <1>2, <1>3
LEMMA RereadUpright == ASSUME ServerOK, Upright, NEW r \in Reqs, Reread(r) PROVE Upright'
<1> DEFINE q == req[r]
           to == [To(r, "secrets") EXCEPT !.todo = Renewed(q.rows)]
<1>1. q.pc = "reread" /\ q.pc # "idle" /\ UNCHANGED sort /\ (Fail(r) \/ Go(r, to))
  BY DEF Reread, At
<1>2. Ready(q, Conf(r), latest[q.script], sort[q.script]) /\ q \in RequestType
  BY <1>1, ReadyNow
<1>3. Alike(q, to) /\ to.pc = "secrets" /\ to.todo = Renewed(q.rows) /\ to.version = q.version
      /\ to.swallowed = q.swallowed /\ to.script = q.script
  BY <1>2 DEF Alike, To, RequestType
<1> HIDE DEF to
<1>4. Sound(to, Conf(r), latest[q.script], sort[q.script])
  BY <1>1, <1>2, <1>3, GoesReread
<1>5. QED
  BY <1>1, <1>3, <1>4, FailUpright, GoUpright

LEMMA SecretUpright == ASSUME ServerOK, Upright, NEW r \in Reqs, Secret(r) PROVE Upright'
<1> DEFINE q == req[r]
           s == q.script
<1>1. q.pc = "secrets" /\ q.pc # "idle" /\ UNCHANGED sort
  BY DEF Secret, At
<1>2. CASE Fail(r)
  BY <1>1, <1>2, FailUpright
<1>3. CASE ~Fail(r)
  <2>1. PICK n \in q.todo :
          Step(r, [q EXCEPT !.todo = @ \ {n}],
               [live[s] EXCEPT ![n] = [kind |-> "secret", val |-> q.rows[n].val]], latest[s])
    BY <1>3 DEF Secret
  <2> DEFINE to == [q EXCEPT !.todo = @ \ {n}]
             c2 == [live[s] EXCEPT ![n] = [kind |-> "secret", val |-> q.rows[n].val]]
  <2>2. Ready(q, live[s], latest[s], sort[s]) /\ q \in RequestType
    BY <1>1, ReadyNow DEF Conf
  <2>3. n \in Names
    BY <2>2 DEF RequestType
  <2>4. Alike(q, to) /\ to.pc = "secrets" /\ to.todo = q.todo \ {n} /\ to.version = q.version
        /\ to.swallowed = q.swallowed /\ to.uploaded = q.uploaded /\ to.script = s
    BY <1>1, <2>2 DEF Alike, RequestType
  <2> HIDE DEF to
  <2>5. Sound(to, c2, latest[s], sort[s])
    BY <1>1, <2>2, <2>3, <2>4, GoesStored
  <2>6. Step(r, to, c2, latest[s])
    BY <2>1 DEF to
  <2> HIDE DEF c2
  <2>7. QED
    BY <1>1, <2>4, <2>5, <2>6, StepUpright DEF Sorted
<1>4. QED
  BY <1>2, <1>3

LEMMA FinishUpright == ASSUME ServerOK, Upright, NEW r \in Reqs, Finish(r) PROVE Upright'
<1> DEFINE q == req[r]
           to == Answer(r, TRUE)
<1>1. q.pc = "secrets" /\ q.pc # "idle" /\ q.todo = {} /\ UNCHANGED sort /\ Go(r, to)
  BY DEF Finish, At
<1>2. Ready(q, Conf(r), latest[q.script], sort[q.script]) /\ q \in RequestType
  BY <1>1, ReadyNow
<1>3. Alike(q, to) /\ to.pc = "done" /\ to.version = q.version /\ to.swallowed = q.swallowed
      /\ to.uploaded = q.uploaded /\ to.script = q.script
  BY <1>2 DEF Alike, Answer, RequestType
<1> HIDE DEF to
<1>4. Sound(to, Conf(r), latest[q.script], sort[q.script])
  BY <1>1, <1>2, <1>3, GoesWell
<1>5. QED
  BY <1>1, <1>3, <1>4, GoUpright

LEMMA PatchUpright == ASSUME ServerOK, Upright, NEW r \in Reqs, Patch(r) PROVE Upright'
<1> DEFINE q == req[r]
           s == q.script
           to == [Answer(r, TRUE) EXCEPT !.uploaded = TRUE]
           c2 == Patched(live[s], Sent(q.rows))
<1>1. q.pc = "patch" /\ q.pc # "idle" /\ UNCHANGED sort /\ (Fail(r) \/ Step(r, to, c2, latest[s]))
  BY DEF Patch, At
<1>2. Ready(q, live[s], latest[s], sort[s]) /\ q \in RequestType
  BY <1>1, ReadyNow DEF Conf
<1>3. Alike(q, to) /\ to.pc = "done" /\ to.version = q.version /\ to.swallowed = q.swallowed /\ to.script = s
  BY <1>2 DEF Alike, Answer, RequestType
<1> HIDE DEF to
<1>4. Sound(to, c2, latest[s], sort[s])
  BY <1>1, <1>2, <1>3, GoesPatched
<1> HIDE DEF c2
<1>5. QED
  BY <1>1, <1>3, <1>4, FailUpright, StepUpright DEF Sorted

LEMMA ServeUpright == ASSUME ServerOK, Upright, NEW r \in Reqs, Serve(r) PROVE Upright'
BY ResolveUpright, ReadUpright, PurgeUpright, DecideUpright, FetchUpright, UploadUpright,
   ObserveUpright, PublishUpright, RereadUpright, SecretUpright,
   FinishUpright, PatchUpright DEF Serve

-----------------------------------------------------------------------------
(***************************************************************************)
(* The steps of the clients.  What the dialog takes for the configuration  *)
(* of its row is what its form was filled from.                            *)
(***************************************************************************)
Form == dlg.basis # NoVersion => dlg.rows = Prefill(dlg.basis)

LEMMA AskedUpright ==
  ASSUME ServerOK, Upright, NEW r \in Reqs, NEW s \in Scripts, NEW rows \in Rows, NEW mode,
         NEW code \in BOOLEAN, NEW by, NEW faithful \in BOOLEAN, Asked(r, s, rows, mode, code, by, faithful),
         UNCHANGED <<sort, live, latest>>,
         mode = "sync" => Named(rows), faithful => rows = Prefill(live[s])
  PROVE  Upright'
<1> DEFINE to == [Idle EXCEPT
       !.pc = IF mode = "sync" THEN "secrets" ELSE "resolve",
       !.script = s, !.rows = rows, !.mode = mode, !.code = code, !.by = by,
       !.todo = IF mode = "sync" THEN Renewed(rows) ELSE {},
       !.start = live[s], !.faithful = faithful]
<1>1. req' = [req EXCEPT ![r] = to]
  BY DEF Asked
<1>2. /\ to.pc = IF mode = "sync" THEN "secrets" ELSE "resolve"
      /\ to.script = s /\ to.rows = rows /\ to.mode = mode /\ to.start = live[s] /\ to.faithful = faithful
      /\ to.todo = IF mode = "sync" THEN Renewed(rows) ELSE {}
      /\ to.version = NoVersion /\ ~to.uploaded
  BY DEF Idle
<1> HIDE DEF to
<1>3. Named(live[s]) /\ Named(latest[s]) /\ live[s] \in Configs
  BY DEF Upright, ServerOK
<1>4. Sound(to, live[s], latest[s], sort[s])
  BY <1>2, <1>3, GoesOff
<1>5. ASSUME NEW q \in Reqs, req'[q].pc # "idle"
      PROVE  Sound(req'[q], live[req'[q].script], latest[req'[q].script], sort[req'[q].script])
  <2>1. CASE q = r
    BY <1>1, <1>2, <1>4, <2>1 DEF ServerOK
  <2>2. CASE q # r
    BY <1>1, <1>5, <2>2 DEF ServerOK, Upright
  <2>3. QED
    BY <2>1, <2>2
<1>6. QED
  BY <1>5 DEF Upright

LEMMA TakenBackUpright ==
  ASSUME ServerOK, Upright, NEW r \in Reqs, req' = [req EXCEPT ![r] = Idle],
         UNCHANGED <<sort, live, latest>>
  PROVE  Upright'
<1>1. \A q \in Reqs : req'[q].pc # "idle" => req'[q] = req[q]
  BY IdleOK DEF ServerOK
<1>2. QED
  BY <1>1 DEF Upright

LEMMA SendFormUpright ==
  ASSUME ServerOK, ClientOK, Upright, Form, NEW r \in Reqs, NEW s \in Scripts, NEW source,
         SendForm(r, s, source)
  PROVE  Upright'
<1>1. dlg.rows \in Rows /\ live[s] # NoVersion
  BY RedeployAssumption DEF ClientOK, DialogType, ServerOK
<1>2. Way(s, dlg.redeploy, source) # "sync"
  BY DEF Way
<1> DEFINE mode == Way(s, dlg.redeploy, source)
           code == source \in {"js", "zip"} \/ (source = "url" /\ build = "worker")
           faithful == s = dlg.script /\ dlg.basis = live[s]
<1>3. Asked(r, s, dlg.rows, mode, code, "dialog", faithful) /\ UNCHANGED <<sort, live, latest>>
  BY DEF SendForm, configVars
<1>4. code \in BOOLEAN /\ faithful \in BOOLEAN /\ (faithful => dlg.rows = Prefill(live[s]))
  BY <1>1 DEF Form
<1> HIDE DEF mode, code, faithful
<1>5. mode # "sync"
  BY <1>2 DEF mode
<1>6. QED
  BY <1>1, <1>3, <1>4, <1>5, AskedUpright

LEMMA FormKept == ASSUME ClientOK, Form, Dialog PROVE Form'
<1>1. CASE \E s \in Scripts : OpenRow(s) \/ OpenNew(s)
  BY <1>1 DEF OpenRow, OpenNew, Form, ClientOK, DialogType
<1>2. CASE \E s \in Scripts : ReadAnswered(s)
  <2>1. PICK s \in Scripts : ReadAnswered(s)
    BY <1>2
  <2>2. CASE \E c \in {live[s], Blank} :
               dlg' = [dlg EXCEPT !.reading = @ \ {s}, !.rows = Prefill(c),
                                  !.basis = IF s = dlg.script THEN c ELSE NoVersion]
    <3>1. PICK c \in {live[s], Blank} :
               dlg' = [dlg EXCEPT !.reading = @ \ {s}, !.rows = Prefill(c),
                                  !.basis = IF s = dlg.script THEN c ELSE NoVersion]
      BY <2>2
    <3>2. dlg'.rows = Prefill(c) /\ dlg'.basis \in {c, NoVersion}
      BY <3>1 DEF ClientOK, DialogType
    <3>3. QED
      BY <3>2 DEF Form
  <2>3. CASE dlg' = [dlg EXCEPT !.reading = @ \ {s}]
    <3>1. dlg'.rows = dlg.rows /\ dlg'.basis = dlg.basis
      BY <2>3 DEF ClientOK, DialogType
    <3>2. QED
      BY <3>1 DEF Form
  <2>4. QED
    BY <2>1, <2>2, <2>3 DEF ReadAnswered
<1>3. CASE \E n \in Names, k \in {"none", "plain", "secret", "bound", "ai"}, v \in Typed : Edit(n, k, v)
  <2>1. PICK n \in Names, k \in {"none", "plain", "secret", "bound", "ai"}, v \in Typed : Edit(n, k, v)
    BY <1>3
  <2> DEFINE row == [kind |-> k, val |-> v,
                     keep |-> dlg.rows[n].keep /\ k \in {"plain", "secret"} /\ ~(k = "secret" /\ v # Empty)]
  <2>2. dlg' = [dlg EXCEPT !.rows[n] = row, !.basis = NoVersion]
    BY <2>1 DEF Edit
  <2> HIDE DEF row
  <2>3. dlg'.basis = NoVersion
    BY <2>2 DEF ClientOK, DialogType
  <2>4. QED
    BY <2>3 DEF Form
<1>4. CASE \E c \in {"js", "zip", "url"} : ChooseCode(c)
  BY <1>4 DEF ChooseCode, Form, ClientOK, DialogType
<1>5. CASE \E r \in Reqs : HandleDeploy(r) \/ DeployAnswered(r) \/ RetryAccount(r) \/ RetryAnswered(r)
  <2>1. dlg'.basis = dlg.basis /\ dlg'.rows = dlg.rows
    BY <1>5 DEF HandleDeploy, DeployAnswered, RetryAccount, RetryAnswered, ClientOK, DialogType
  <2>2. QED
    BY <2>1 DEF Form
<1>7. CASE \E r \in Reqs : ConnectionLost(r) \/ Unheard(r)
  BY <1>7 DEF ConnectionLost, Unheard, Form, ClientOK, DialogType
<1>6. CASE CloseDialog
  BY <1>6 DEF CloseDialog, Form, ClientOK, DialogType
<1>8. QED
  BY <1>1, <1>2, <1>3, <1>4, <1>5, <1>6, <1>7 DEF Dialog

LEMMA DialogUpright == ASSUME ServerOK, ClientOK, Upright, Form, Dialog PROVE Upright'
<1>1. CASE UNCHANGED serverVars
  BY <1>1 DEF serverVars, Upright
<1>2. CASE \E r \in Reqs : HandleDeploy(r)
  <2>1. PICK r \in Reqs : HandleDeploy(r)
    BY <1>2
  <2>2. dlg.script \in Scripts
    BY <2>1 DEF HandleDeploy, ClientOK
  <2>3. SendForm(r, dlg.script, dlg.code)
    BY <2>1 DEF HandleDeploy
  <2>4. QED
    BY <2>2, <2>3, SendFormUpright
<1>3. CASE \E r \in Reqs : RetryAccount(r)
  BY <1>3, SendFormUpright DEF RetryAccount
<1>4. CASE \E r \in Reqs : DeployAnswered(r) \/ RetryAnswered(r) \/ Unheard(r)
  BY <1>4, TakenBackUpright DEF DeployAnswered, RetryAnswered, Unheard, configVars
<1>5. QED
  BY <1>1, <1>2, <1>3, <1>4
     DEF Dialog, OpenRow, OpenNew, Opening, ReadAnswered, Edit, ChooseCode, ConnectionLost, CloseDialog,
         configVars, serverVars

LEMMA VarReadUpright == ASSUME ServerOK, ClientOK, Upright, NEW r \in Reqs, VarRead(r) PROVE Upright'
<1>1. /\ drawer.from \in Scripts /\ drawer.script \in Scripts /\ drawer.row \in RowSet
      /\ UNCHANGED <<sort, live, latest>>
  BY DEF VarRead, configVars, ClientOK, DrawerType
<1>2. CASE UNCHANGED req
  BY <1>1, <1>2 DEF Upright
<1>3. CASE ~UNCHANGED req
  <2>1. PICK c \in {live[drawer.from], Blank} :
          Asked(r, drawer.script, Resent(c, drawer.name, drawer.row), "redeploy", FALSE, "drawer", FALSE)
    BY <1>3 DEF VarRead
  <2> DEFINE rows == Resent(c, drawer.name, drawer.row)
             no == FALSE
             mode == "redeploy"
  <2>2. rows \in Rows
    BY <1>1, <2>1, BlankTyped, ResentTyped DEF ServerOK
  <2>3. Asked(r, drawer.script, rows, mode, no, "drawer", no)
    BY <2>1
  <2>4. no \in BOOLEAN /\ ~no /\ mode # "sync"
    OBVIOUS
  <2> HIDE DEF rows, no, mode
  <2>5. QED
    BY <1>1, <2>2, <2>3, <2>4, AskedUpright
<1>4. QED
  BY <1>2, <1>3

LEMMA OthersUpright == ASSUME ServerOK, ClientOK, Upright, Others PROVE Upright'
<1>1. CASE UNCHANGED serverVars
  BY <1>1 DEF serverVars, Upright
<1>2. CASE \E r \in Reqs : VarRead(r)
  BY <1>2, VarReadUpright
<1>3. CASE \E r \in Reqs : VarAnswered(r) \/ SyncAnswered(r)
  BY <1>3, TakenBackUpright DEF VarAnswered, SyncAnswered, configVars
<1>4. CASE \E r \in Reqs, from \in Scripts, s \in Scripts, v \in Typed \ {Empty} : EnvSync(r, from, s, v)
  <2>1. PICK r \in Reqs, from \in Scripts, s \in Scripts, v \in Typed \ {Empty} : EnvSync(r, from, s, v)
    BY <1>4
  <2> DEFINE rows == [n \in Names |->
               IF live[from][n].kind = "secret" THEN Row("secret", v) ELSE Row("none", Empty)]
  <2>2. rows \in Rows /\ Named(rows)
    BY RowTyped, Sets, RedeployFormsAssumption DEF Texts, Named, Row
  <2>3. Asked(r, s, rows, "sync", FALSE, "sync", FALSE) /\ UNCHANGED <<sort, live, latest>>
    BY <2>1 DEF EnvSync, configVars
  <2> HIDE DEF rows
  <2>4. QED
    BY <2>2, <2>3, AskedUpright
<1>5. QED
  BY <1>1, <1>2, <1>3, <1>4 DEF Others, DeleteVar, SaveVar, DrawerMoves, configVars, serverVars

LEMMA UprightInitially == Init => Upright /\ Form
<1> SUFFICES ASSUME Init PROVE Upright /\ Form
  OBVIOUS
<1>1. \A r \in Reqs : req[r].pc = "idle"
  BY IdleOK DEF Init, ServerInit
<1>2. \A s \in Scripts : Named(live[s])
  <2>1. PICK c \in Starts : live = c.live
    BY DEF Init, ServerInit
  <2>2. QED
    BY <2>1, RedeployAssumption
<1>3. \A s \in Scripts : Named(latest[s])
  BY <1>2, NamedMerged DEF Init, ServerInit
<1>4. Form
  BY DEF Init, Form
<1>5. QED
  BY <1>1, <1>2, <1>3, <1>4 DEF Upright

LEMMA SameUpright == ASSUME Upright, UNCHANGED <<sort, live, latest, req>> PROVE Upright'
BY DEF Upright

LEMMA UprightKept == IInv /\ Upright /\ Form /\ [Next]_vars => Upright' /\ Form'
<1> SUFFICES ASSUME IInv, Upright, Form, [Next]_vars PROVE Upright' /\ Form'
  OBVIOUS
<1>1. ServerOK /\ ClientOK
  BY IInvSplit
<1>2. CASE Dialog
  BY <1>1, <1>2, DialogUpright, FormKept
<1>3. CASE Others
  <2>1. UNCHANGED dlg
    BY <1>3 DEF Others, DeleteVar, SaveVar, DrawerMoves, VarRead, VarAnswered, SyncAnswered, EnvSync
  <2>2. QED
    BY <1>1, <1>3, <2>1, OthersUpright DEF Form
<1>4. CASE Service
  BY <1>1, <1>4, ServeUpright DEF Service, Form
<1>5. CASE UNCHANGED vars
  <2>1. UNCHANGED <<sort, live, latest, req>> /\ UNCHANGED dlg
    BY <1>5 DEF vars
  <2>2. QED
    BY <2>1, SameUpright DEF Form
<1>6. QED
  BY <1>2, <1>3, <1>4, <1>5 DEF Next

LEMMA UprightAlways == Spec => []Upright
<1>1. Init => IInv /\ Upright /\ Form
  BY Initially, UprightInitially
<1>2. IInv /\ Upright /\ Form /\ [Next]_vars => (IInv /\ Upright /\ Form)'
  BY Inductive, UprightKept
<1>3. QED
  BY <1>1, <1>2, PTL DEF Spec

LEMMA GoodAlone ==
  ASSUME Upright, NEW r \in Reqs, ~At(r, "idle"), req[r].alone
  PROVE  Good(req[r], Conf(r), latest[req[r].script], sort[req[r].script])
BY DEF Upright, Sound, At, Conf

\* A request that nothing interferes with moves each name only from what it found to what its form
\* says, on either server, at any point of its way and whichever of its calls fail.
THEOREM MovesNameByName == Spec => []NameByName
<1>1. Upright => NameByName
  <2> SUFFICES ASSUME Upright, NEW r \in Reqs, ~At(r, "idle"), req[r].alone, NEW n \in Names
               PROVE  Conf(r)[n] \in MayLeave(r, n)
    BY DEF NameByName
  <2>1. Conf(r)[n] \in May(req[r].rows, req[r].start, n)
    BY GoodAlone DEF Good, Fair, AllMay
  <2>2. QED
    BY <2>1 DEF May, MayLeave, Keeps
<1>2. QED
  BY <1>1, UprightAlways, PTL

\* A request that answers success, nothing interfering and none of its calls failing in silence, has
\* put everything its form says in place.
THEOREM SuccessApplied == Spec => []AppliedWhole
<1>1. Upright => AppliedWhole
  <2> SUFFICES ASSUME Upright, NEW r \in Reqs, At(r, "done"), req[r].ok, req[r].alone,
                      req[r].swallowed = {}, NEW n \in Names,
                      req[r].mode # "sync" \/ req[r].rows[n].kind = "secret"
               PROVE  Applied(r, n)
    BY DEF AppliedWhole
  <2>1. InPlace(req[r], Conf(r), n)
    BY GoodAlone DEF Good, Whole, At
  <2>2. QED
    BY <2>1 DEF InPlace, Applied
<1>2. QED
  BY <1>1, UprightAlways, PTL

-----------------------------------------------------------------------------
(***************************************************************************)
(* The previews of a Pages project: an unedited form that was patched in   *)
(* has left them with what production holds, where nothing interfered.     *)
(***************************************************************************)
Copied == \A r \in Reqs : req[r].mode = "pages" =>
  /\ req[r].pc \in {"idle", "resolve", "patch", "done"}
  /\ (req[r].pc = "done" /\ req[r].ok /\ req[r].alone /\ req[r].faithful) =>
       \A n \in Names :
         (Shown(req[r].start, n) /\ req[r].start[n].kind \in {"plain", "bound", "ai"}) =>
           preview[req[r].script][n] = req[r].start[n]

\* What a step of r makes of the requests.
LEMMA StepFacts ==
  ASSUME ServerOK, NEW r \in Reqs, NEW to, NEW c, NEW v, Step(r, to, c, v)
  PROVE  /\ req'[r] = to
         /\ \A q \in Reqs \ {r} :
              /\ req'[q].pc = req[q].pc /\ req'[q].mode = req[q].mode /\ req'[q].ok = req[q].ok
              /\ req'[q].faithful = req[q].faithful /\ req'[q].start = req[q].start
              /\ req'[q].script = req[q].script
              /\ req'[q].alone => req[q].alone
              /\ req'[q].alone /\ req[q].script = req[r].script => c = live[req[r].script]
<1> DEFINE moved == c # live[req[r].script] \/ v # latest[req[r].script]
           other(q) == [req[q] EXCEPT !.alone = @ /\ ~(moved /\ req[q].script = req[r].script)]
<1>1. req' = [q \in Reqs |-> IF q = r THEN to ELSE other(q)]
  BY DEF Step
<1>2. \A q \in Reqs : /\ other(q).pc = req[q].pc /\ other(q).mode = req[q].mode /\ other(q).ok = req[q].ok
                      /\ other(q).faithful = req[q].faithful /\ other(q).start = req[q].start
                      /\ other(q).script = req[q].script
                      /\ other(q).alone = (req[q].alone /\ ~(moved /\ req[q].script = req[r].script))
  BY DEF ServerOK, RequestType
<1> HIDE DEF other
<1>3. QED
  BY <1>1, <1>2

LEMMA StepCopied ==
  ASSUME ServerOK, Copied, NEW r \in Reqs, NEW to, NEW c, NEW v, Step(r, to, c, v), UNCHANGED preview,
         to.mode = "pages" => to.pc = "patch" \/ (to.pc = "done" /\ ~to.ok)
  PROVE  Copied'
<1> SUFFICES ASSUME NEW q \in Reqs, req'[q].mode = "pages"
             PROVE  /\ req'[q].pc \in {"idle", "resolve", "patch", "done"}
                    /\ (req'[q].pc = "done" /\ req'[q].ok /\ req'[q].alone /\ req'[q].faithful) =>
                         \A n \in Names :
                           (Shown(req'[q].start, n) /\ req'[q].start[n].kind \in {"plain", "bound", "ai"}) =>
                             preview'[req'[q].script][n] = req'[q].start[n]
  BY DEF Copied
<1>1. CASE q = r
  BY <1>1, StepFacts
<1>2. CASE q # r
  BY <1>2, StepFacts DEF Copied
<1>3. QED
  BY <1>1, <1>2

\* A step that leaves a request the mode it has, and the previews as they are.
Moded(r) == UNCHANGED preview /\ \E to, c, v : Step(r, to, c, v) /\ to.mode = req[r].mode

LEMMA GoModed ==
  ASSUME NEW r \in Reqs, NEW to, Go(r, to), to.mode = req[r].mode, UNCHANGED preview
  PROVE  Moded(r)
BY DEF Go, Moded

\* Every step of a request but resolving and patching is one.
LEMMA ServeModed ==
  ASSUME ServerOK, NEW r \in Reqs, Serve(r), ~Resolve(r), ~Patch(r)
  PROVE  Moded(r)
<1> DEFINE q == req[r]
<1>1. q \in RequestType
  BY ReqFacts
<1>2. UNCHANGED preview
  BY DEF Serve, ReadNode, ReadWorker, Purge, Decide, FetchNode, FetchWorker, UploadNode, UploadWorker,
         Observe, Publish, Reread, Secret, Finish
<1>3. CASE Fail(r)
  <2>1. Answer(r, FALSE).mode = q.mode
    BY <1>1 DEF Answer, RequestType
  <2>2. QED
    BY <1>2, <1>3, <2>1, GoModed DEF Fail
<1>4. CASE \E c : Go(r, Seen(r, c))
  <2>1. \A c : Seen(r, c).mode = q.mode
    BY <1>1 DEF Seen, RequestType
  <2>2. QED
    BY <1>2, <1>4, <2>1, GoModed
<1>5. CASE Purge(r)
  <2>1. \A n : [q EXCEPT !.todo = @ \ {n}].mode = q.mode
    BY <1>1 DEF RequestType
  <2>2. \A n : [[q EXCEPT !.todo = @ \ {n}] EXCEPT !.swallowed = @ \cup {"undeleted"}].mode = q.mode
    BY <1>1 DEF RequestType
  <2>3. PICK n \in q.todo :
          LET to == [q EXCEPT !.todo = @ \ {n}] IN
          \/ Step(r, to, [Conf(r) EXCEPT ![n] = IF @.kind = "secret" THEN Absent ELSE @], latest[q.script])
          \/ Go(r, [to EXCEPT !.swallowed = @ \cup {"undeleted"}])
    BY <1>5 DEF Purge
  <2>4. QED
    BY <1>2, <2>1, <2>2, <2>3, GoModed DEF Moded
<1>6. CASE Decide(r)
  <2>1. \A pc, w : [To(r, pc) EXCEPT !.seen = Blank].mode = q.mode
                   /\ [To(r, pc) EXCEPT !.seen = Blank, !.todo = w].mode = q.mode
    BY <1>1 DEF To, RequestType
  <2>2. QED
    BY <1>2, <1>6, <2>1, GoModed DEF Decide
<1>7. CASE \E pc : Go(r, To(r, pc))
  <2>1. \A pc : To(r, pc).mode = q.mode
    BY <1>1 DEF To, RequestType
  <2>2. QED
    BY <1>2, <1>7, <2>1, GoModed
<1>8. CASE Put(r)
  <2> DEFINE on == [To(r, "observe") EXCEPT !.uploaded = TRUE]
             ig == Swallow(r, "ignored", "observe")
  <2>1. \A v : \A to \in Replies(on, v) \cup Replies(ig, v) : to.mode = q.mode
    BY <1>1 DEF Replies, To, Swallow, RequestType
  <2>2. \E to, c, v, w : to \in Replies(on, w) \cup Replies(ig, w) /\ Step(r, to, c, v)
    BY <1>8 DEF Put
  <2> HIDE DEF on, ig
  <2>3. QED
    BY <1>2, <2>1, <2>2 DEF Moded
<1>9. CASE UploadNode(r) /\ ~Fail(r) /\ ~Put(r)
  <2> DEFINE to == [To(r, "observe") EXCEPT !.uploaded = TRUE, !.version = Sent(q.rows)]
  <2>1. to.mode = q.mode
    BY <1>1 DEF To, RequestType
  <2>2. Step(r, to, live[q.script], Sent(q.rows))
    BY <1>9 DEF UploadNode
  <2> HIDE DEF to
  <2>3. QED
    BY <1>2, <2>1, <2>2 DEF Moded
<1>10. CASE Publish(r)
  <2> DEFINE un == [Published(r) EXCEPT !.swallowed = @ \cup {"undeployed"}]
  <2>1. Published(r).mode = q.mode /\ un.mode = q.mode
    BY <1>1, PublishedFacts DEF Alike
  <2>2. \/ Go(r, Published(r))
        \/ Step(r, Published(r), Uploaded(live[q.script], Chosen(r)), latest[q.script])
        \/ Go(r, un)
    BY <1>10 DEF Publish
  <2> HIDE DEF un
  <2>3. QED
    BY <1>2, <2>1, <2>2, GoModed DEF Moded
<1>11. CASE Reread(r) /\ ~Fail(r)
  <2> DEFINE to == [To(r, "secrets") EXCEPT !.todo = Renewed(q.rows)]
  <2>1. to.mode = q.mode
    BY <1>1 DEF To, RequestType
  <2>2. Go(r, to)
    BY <1>11 DEF Reread
  <2> HIDE DEF to
  <2>3. QED
    BY <1>2, <2>1, <2>2, GoModed
<1>12. CASE Secret(r) /\ ~Fail(r)
  <2>1. \A n : [q EXCEPT !.todo = @ \ {n}].mode = q.mode
    BY <1>1 DEF RequestType
  <2>2. QED
    BY <1>2, <1>12, <2>1 DEF Secret, Moded
<1>13. CASE Finish(r)
  <2>1. Answer(r, TRUE).mode = q.mode
    BY <1>1 DEF Answer, RequestType
  <2>2. QED
    BY <1>2, <1>13, <2>1, GoModed DEF Finish
<1>14. Purge(r) \/ Decide(r) \/ Put(r) \/ Publish(r) \/ Finish(r) \/ Fail(r)
       \/ (UploadNode(r) /\ ~Fail(r) /\ ~Put(r)) \/ (Reread(r) /\ ~Fail(r)) \/ (Secret(r) /\ ~Fail(r))
       \/ (\E c : Go(r, Seen(r, c))) \/ (\E pc : Go(r, To(r, pc)))
  <2>1. ReadNode(r) \/ ReadWorker(r) => Fail(r) \/ \E c : Go(r, Seen(r, c))
    BY DEF ReadNode, ReadWorker
  <2>2. FetchNode(r) \/ FetchWorker(r) \/ Observe(r) => Fail(r) \/ \E pc : Go(r, To(r, pc))
    BY DEF FetchNode, FetchWorker, Observe
  <2>3. UploadWorker(r) => Fail(r) \/ Put(r)
    BY DEF UploadWorker
  <2>4. QED
    BY <2>1, <2>2, <2>3 DEF Serve
<1>15. QED
  BY <1>3, <1>4, <1>5, <1>6, <1>7, <1>8, <1>9, <1>10, <1>11, <1>12, <1>13, <1>14

\* The patch of r, seen by r and by another request on the project: it copies what was sent to both.
LEMMA PatchCopied ==
  ASSUME ServerOK, Upright, Copied, NEW r \in Reqs, Patch(r), ~Fail(r)
  PROVE  Copied'
<1> DEFINE s == req[r].script
           sent == Sent(req[r].rows)
           to == [Answer(r, TRUE) EXCEPT !.uploaded = TRUE]
<1>1. req[r].pc = "patch" /\ Step(r, to, Patched(live[s], sent), latest[s])
      /\ preview' = [preview EXCEPT ![s] = Patched(preview[s], sent)]
  BY DEF Patch, At
<1>2. req[r] \in RequestType /\ s \in Scripts /\ Ready(req[r], Conf(r), latest[s], sort[s])
  BY <1>1, ReadyNow
<1>3. /\ to.pc = "done" /\ to.start = req[r].start /\ to.script = s
      /\ to.alone = req[r].alone /\ to.faithful = req[r].faithful
  BY <1>2 DEF Answer, RequestType
<1>4. preview'[s] = Patched(preview[s], sent) /\ \A x \in Scripts : x # s => preview'[x] = preview[x]
  BY <1>1, <1>2 DEF ServerOK
<1> HIDE DEF to
<1>5. ASSUME req[r].alone, req[r].faithful, NEW n \in Names,
             Shown(req[r].start, n), req[r].start[n].kind \in {"plain", "bound", "ai"}
      PROVE  preview'[s][n] = req[r].start[n]
  <2>1. req[r].rows = Prefill(req[r].start) /\ req[r].start \in Configs
    BY <1>2, <1>5 DEF Ready, Sound, Good, Same
  <2>2. sent[n] = req[r].start[n] /\ sent[n] # Absent
    BY <1>5, <2>1, SameSent DEF Absent
  <2>3. QED
    BY <1>4, <2>2, MergedFacts
<1>6. ASSUME NEW q \in Reqs, q # r, req[q].pc = "done", req[q].ok, req'[q].alone, req[q].faithful,
             req[q].mode = "pages", NEW n \in Names,
             Shown(req[q].start, n), req[q].start[n].kind \in {"plain", "bound", "ai"}
      PROVE  preview'[req[q].script][n] = req[q].start[n]
  <2>1. req[q].alone /\ (req[q].script = s => Patched(live[s], sent) = live[s])
    BY <1>1, <1>6, StepFacts
  <2>2. preview[req[q].script][n] = req[q].start[n] /\ req[q].script \in Scripts
    BY <1>6, <2>1, ReqFacts DEF Copied
  <2>3. CASE req[q].script # s
    BY <1>4, <2>2, <2>3
  <2>4. CASE req[q].script = s
    <3>1. live[s][n] = req[q].start[n]
      BY <1>6, <2>1, <2>4 DEF Upright, Sound, Good, Same
    <3>2. Patched(preview[s], sent)[n] = Patched(live[s], sent)[n]
      BY <2>2, <2>4, <3>1 DEF Patched
    <3>3. QED
      BY <1>4, <2>1, <2>4, <3>1, <3>2
  <2>5. QED
    BY <2>3, <2>4
<1>7. ASSUME NEW q \in Reqs, req'[q].mode = "pages"
      PROVE  /\ req'[q].pc \in {"idle", "resolve", "patch", "done"}
             /\ (req'[q].pc = "done" /\ req'[q].ok /\ req'[q].alone /\ req'[q].faithful) =>
                  \A n \in Names :
                    (Shown(req'[q].start, n) /\ req'[q].start[n].kind \in {"plain", "bound", "ai"}) =>
                      preview'[req'[q].script][n] = req'[q].start[n]
  <2>1. CASE q = r
    BY <1>1, <1>3, <1>5, <2>1, StepFacts
  <2>2. CASE q # r
    BY <1>1, <1>6, <1>7, <2>2, StepFacts DEF Copied
  <2>3. QED
    BY <2>1, <2>2
<1>8. QED
  BY <1>7 DEF Copied

LEMMA ServeCopied == ASSUME ServerOK, Upright, Copied, NEW r \in Reqs, Serve(r) PROVE Copied'
<1>1. req[r] \in RequestType
  BY ReqFacts
<1>2. CASE Fail(r) /\ UNCHANGED preview
  <2>1. ~Answer(r, FALSE).ok /\ Answer(r, FALSE).pc = "done"
    BY <1>1 DEF Answer, RequestType
  <2>2. QED
    BY <1>2, <2>1, StepCopied DEF Fail, Go
<1>3. CASE Resolve(r) /\ ~Fail(r)
  <2> DEFINE filled(v) == [n \in Names |-> IF req[r].rows[n].kind = "bound" /\ req[r].rows[n].val = Empty
                                           THEN Row("bound", v) ELSE req[r].rows[n]]
             next == CASE req[r].mode = "redeploy" -> "read" [] req[r].mode = "deploy" -> "upload"
                       [] OTHER -> "patch"
             to(v) == [req[r] EXCEPT !.rows = filled(v), !.pc = next]
  <2>1. PICK v \in Values : Go(r, to(v))
    BY <1>3 DEF Resolve
  <2>2. to(v).mode = req[r].mode /\ to(v).pc = next /\ (req[r].mode = "pages" => next = "patch")
    BY <1>1 DEF RequestType
  <2> HIDE DEF to, next
  <2>3. UNCHANGED preview
    BY <1>3 DEF Resolve
  <2>4. QED
    BY <2>1, <2>2, <2>3, StepCopied DEF Go
<1>4. CASE Patch(r) /\ ~Fail(r)
  BY <1>4, PatchCopied
<1>5. CASE ~Resolve(r) /\ ~Patch(r)
  <2>1. req[r].pc \notin {"idle", "resolve", "patch", "done"}
    BY <1>5 DEF Serve, At, ReadNode, ReadWorker, Purge, Decide, FetchNode, FetchWorker, UploadNode,
                UploadWorker, Observe, Publish, Reread, Secret, Finish
  <2>2. req[r].mode # "pages"
    BY <2>1 DEF Copied
  <2>3. QED
    BY <1>5, <2>2, ServeModed, StepCopied DEF Moded
<1>6. (Resolve(r) \/ Patch(r)) /\ Fail(r) => UNCHANGED preview
  <2>1. CASE Resolve(r)
    BY <2>1 DEF Resolve
  <2>2. CASE Patch(r) /\ Fail(r) /\ ~UNCHANGED preview
    <3> DEFINE to == [Answer(r, TRUE) EXCEPT !.uploaded = TRUE]
    <3>1. to.ok /\ ~Answer(r, FALSE).ok
      BY <1>1 DEF Answer, RequestType
    <3>2. \E c, v : Step(r, to, c, v)
      BY <2>2 DEF Patch
    <3>3. \E c, v : Step(r, Answer(r, FALSE), c, v)
      BY <2>2 DEF Fail, Go
    <3> HIDE DEF to
    <3>4. req'[r] = to /\ req'[r] = Answer(r, FALSE)
      BY <3>2, <3>3, StepFacts
    <3>5. QED
      BY <3>1, <3>4
  <2>3. QED
    BY <2>1, <2>2
<1>7. QED
  BY <1>2, <1>3, <1>4, <1>5, <1>6

\* The clients send requests that are to be resolved, and take back answered ones.
LEMMA ClientsCopied ==
  ASSUME ServerOK, Copied, Dialog \/ Others \/ UNCHANGED vars
  PROVE  Copied'
<1> DEFINE asks(r) == \E s, rows, mode, code, by, faithful : Asked(r, s, rows, mode, code, by, faithful)
<1>1. UNCHANGED preview
  BY ClientsSpare
<1>2. CASE UNCHANGED req
  BY <1>1, <1>2 DEF Copied
<1>3. CASE \E r \in Reqs : req' = [req EXCEPT ![r] = Idle]
  <2>1. Idle.mode # "pages"
    BY DEF Idle
  <2>2. QED
    BY <1>1, <1>3, <2>1 DEF Copied, ServerOK
<1>4. CASE \E r \in Reqs : asks(r)
  <2>0. PICK r \in Reqs : asks(r)
    BY <1>4
  <2>1. PICK s, rows, mode, code, by, faithful : Asked(r, s, rows, mode, code, by, faithful)
    BY <2>0
  <2> DEFINE to == [Idle EXCEPT
       !.pc = IF mode = "sync" THEN "secrets" ELSE "resolve",
       !.script = s, !.rows = rows, !.mode = mode, !.code = code, !.by = by,
       !.todo = IF mode = "sync" THEN Renewed(rows) ELSE {},
       !.start = live[s], !.faithful = faithful]
  <2>2. to.mode = "pages" => to.pc = "resolve"
    BY DEF Idle
  <2>3. req' = [req EXCEPT ![r] = to]
    BY <2>1 DEF Asked
  <2> HIDE DEF to
  <2>4. QED
    BY <1>1, <2>2, <2>3 DEF Copied, ServerOK
<1>5. Dialog => UNCHANGED req \/ (\E r \in Reqs : req' = [req EXCEPT ![r] = Idle])
                \/ \E r \in Reqs : asks(r)
  <2>1. \A r \in Reqs : \A s, source : SendForm(r, s, source) => \E q \in Reqs : asks(q)
    BY DEF SendForm
  <2>2. QED
    BY <2>1 DEF Dialog, OpenRow, OpenNew, Opening, ReadAnswered, Edit, ChooseCode, HandleDeploy,
                DeployAnswered, RetryAccount, RetryAnswered, ConnectionLost, Unheard, CloseDialog
<1>6. Others => UNCHANGED req \/ (\E r \in Reqs : req' = [req EXCEPT ![r] = Idle])
                \/ \E r \in Reqs : asks(r)
  <2>1. \A r \in Reqs : VarRead(r) => UNCHANGED req \/ asks(r)
    BY DEF VarRead
  <2>2. \A r \in Reqs : \A from, s, v : EnvSync(r, from, s, v) => asks(r)
    BY DEF EnvSync
  <2>3. QED
    BY <2>1, <2>2 DEF Others, DeleteVar, SaveVar, DrawerMoves, VarAnswered, SyncAnswered
<1>7. QED
  BY <1>2, <1>3, <1>4, <1>5, <1>6 DEF vars

LEMMA CopiedAlways == Spec => []Copied
<1>1. Init => IInv /\ Upright /\ Form /\ Copied
  <2>1. Init => Copied
    BY DEF Init, ServerInit, Idle, Copied
  <2>2. QED
    BY <2>1, Initially, UprightInitially
<1>2. IInv /\ Upright /\ Form /\ Copied /\ [Next]_vars => (IInv /\ Upright /\ Form /\ Copied)'
  <2> SUFFICES ASSUME IInv, Upright, Form, Copied, [Next]_vars
               PROVE  (IInv /\ Upright /\ Form /\ Copied)'
    OBVIOUS
  <2>1. (IInv /\ Upright /\ Form)'
    BY Inductive, UprightKept
  <2>2. ServerOK
    BY IInvSplit
  <2>3. Copied'
    BY <2>2, ServeCopied, ClientsCopied DEF Next, Service
  <2>4. QED
    BY <2>1, <2>3
<1>3. QED
  BY <1>1, <1>2, PTL DEF Spec

\* Opening a row and sending the form as it was filled changes nothing that serves of what the form
\* can hold, at no point of the request and whatever fails; the previews of a project it succeeds for
\* are left with the production's values.
THEOREM UneditedChangesNothing == Spec => []RoundTrip
<1>1. Upright /\ Copied => RoundTrip
  <2> SUFFICES ASSUME Upright, Copied, NEW r \in Reqs, ~At(r, "idle"), req[r].alone, req[r].faithful,
                      NEW n \in Names, Shown(req[r].start, n)
               PROVE  /\ Conf(r)[n] = req[r].start[n]
                      /\ (/\ At(r, "done") /\ req[r].ok /\ req[r].mode = "pages"
                          /\ req[r].start[n].kind \in {"plain", "bound", "ai"})
                         => preview[req[r].script][n] = req[r].start[n]
    BY DEF RoundTrip
  <2>1. Conf(r)[n] = req[r].start[n]
    BY GoodAlone DEF Good, Same
  <2>2. QED
    BY <2>1 DEF Copied, At
<1>2. QED
  BY <1>1, UprightAlways, CopiedAlways, PTL
==================================================
