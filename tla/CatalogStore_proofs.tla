------------------------ MODULE CatalogStore_proofs ------------------------
(***************************************************************************)
(* Proofs about the catalog sources, for any number of callers, addresses, *)
(* versions and ids.  The inductive invariant says of every place an       *)
(* address is kept (row, list of the cron loop, call, cache) that somebody *)
(* gave it for that source, and that nothing refers to an id not handed    *)
(* out yet.                                                                *)
(***************************************************************************)
EXTENDS CatalogStoreProps, TLAPS, SequenceTheorems

AskedFor(s, left) == \A i \in 1..Len(left) : left[i].url \in asked[s]

RowsOwn ==
  \A s \in Live :
    /\ s < nextId
    /\ rows[s].url \in asked[s]
    /\ rows[s].default => \A i \in 1..Len(DefaultUrls) : DefaultUrls[i] \in asked[s]

CacheOwn == \A s \in Ids : cache[s] # None => s < nextId /\ cache[s].url \in asked[s]

CallOwn(c) ==
  c.src # 0 =>
    /\ c.src < nextId
    /\ AskedFor(c.src, c.left)
    /\ c.body # None => c.body.url \in asked[c.src]

CallsOwn == \A j \in Jobs : CallOwn(calls[j])

PendingOwn == \A snap \in pending : snap.src < nextId /\ AskedFor(snap.src, snap.left)

IInv == TypeOK /\ RowsOwn /\ CacheOwn /\ CallsOwn /\ PendingOwn /\ EtagVouchesUnlessClash

-----------------------------------------------------------------------------
(***************************************************************************)
(* The shapes of what a call keeps.                                        *)
(***************************************************************************)
\* The addresses of a row are a sequence that is not empty.
LEMMA CandidateType ==
  ASSUME NEW row \in Rows
  PROVE  CandidateUrls(row) \in Seq(Urls) /\ Len(CandidateUrls(row)) > 0
BY CatalogAssumption DEF CandidateUrls, Rows

\* What the cron loop and a request keep of a row has the type of a snapshot.
LEMMA SnapshotType ==
  ASSUME TypeOK, NEW s \in Live
  PROVE  Snapshot(s) \in Snapshots /\ Len(Snapshot(s).left) > 0
<1> DEFINE row == rows[s]
           urls == CandidateUrls(row)
           f == [i \in DOMAIN urls |-> Ask(urls[i], IF urls[i] = row.url THEN row.etag ELSE None)]
<1>1. s \in Ids /\ row \in Rows
  BY DEF TypeOK, Live
<1>2. urls \in Seq(Urls) /\ Len(urls) > 0
  BY <1>1, CandidateType
<1>3. \A i \in DOMAIN urls : f[i] \in Asks
  BY <1>1, <1>2 DEF Asks, Ask, Rows
<1>4. f \in Seq(Asks) /\ Len(f) = Len(urls)
  <2>1. DOMAIN urls = 1..Len(urls) /\ Len(urls) \in Nat
    BY <1>2
  <2>2. f \in [1..Len(urls) -> Asks]
    BY <1>3, <2>1
  <2> HIDE DEF f
  <2> QED BY <2>1, <2>2
<1>5. Snapshot(s) = [src |-> s, left |-> f]
  BY DEF Snapshot
<1> QED BY <1>1, <1>2, <1>4, <1>5 DEF Snapshots

\* A call that begins is well-formed.
LEMMA CallType ==
  ASSUME NEW kind \in Kinds, NEW snap, snap.src \in Ids \cup {0}, snap.left \in Seq(Asks),
         Len(snap.left) > 0, snap.src = 0 <=> kind = "create"
  PROVE  Call(kind, snap) \in Call0 /\ CallOK(Call(kind, snap))
BY DEF Call, Call0, CallOK

\* So is one that asks a single address, for POST and PUT.
LEMMA SingleCallType ==
  ASSUME NEW kind \in Kinds, NEW s \in Ids \cup {0}, NEW u \in Urls, s = 0 <=> kind = "create"
  PROVE  /\ Call(kind, [src |-> s, left |-> <<Ask(u, None)>>]) \in Call0
         /\ CallOK(Call(kind, [src |-> s, left |-> <<Ask(u, None)>>]))
<1> DEFINE q == <<Ask(u, None)>>
           snap == [src |-> s, left |-> q]
<1>1. Ask(u, None) \in Asks
  BY DEF Ask, Asks
<1>2. q \in Seq(Asks) /\ Len(q) = 1
  BY <1>1
<1>3. q # <<>>
  BY <1>2
<1> HIDE DEF q
<1>4. Call(kind, snap) \in Call0 /\ CallOK(Call(kind, snap))
  BY <1>2, <1>3 DEF Call, Call0, CallOK
<1> QED BY <1>4 DEF q

\* So is a slot without call.
LEMMA NoCallType == NoCall \in Call0 /\ CallOK(NoCall)
BY DEF NoCall, Call0, CallOK, Kinds

\* A well-formed call put into a slot leaves the slots well-formed.
LEMMA BeginType ==
  ASSUME TypeOK, NEW j \in Jobs, NEW c \in Call0, CallOK(c), Begin(j, c)
  PROVE  calls' \in [Jobs -> Call0] /\ \A k \in Jobs : CallOK(calls'[k])
BY DEF TypeOK, Begin

-----------------------------------------------------------------------------
(***************************************************************************)
(* Type correctness, one step per action.                                  *)
(***************************************************************************)
\* Every answer to a fetch leaves the call well-formed.
LEMMA FetchType ==
  ASSUME TypeOK, NEW j \in Jobs, Fetch(j)
  PROVE  calls' \in [Jobs -> Call0] /\ \A k \in Jobs : CallOK(calls'[k])
<1> DEFINE call == calls[j]
<1>1. call \in Call0 /\ CallOK(call) /\ call.at = "ask" /\ call.left \in Seq(Asks) /\ call.left # <<>>
  BY DEF TypeOK, CallOK, Call0, Fetch
<1>2. Tail(call.left) \in Seq(Asks) /\ Head(call.left) \in Asks
  BY <1>1
<1>3. ASSUME NEW status \in {"failed", "unchanged", "ok"}, NEW c \in Catalogs \cup {None},
             status = "ok" <=> c # None, Got(j, status, c)
      PROVE  calls' \in [Jobs -> Call0] /\ \A k \in Jobs : CallOK(calls'[k])
  <2> DEFINE new == [call EXCEPT !.at = "got", !.left = Tail(@), !.status = status, !.body = c]
  <2>1. new \in Call0 /\ CallOK(new)
    BY <1>1, <1>2, <1>3 DEF Call0, CallOK
  <2>2. Begin(j, new)
    BY <1>3 DEF Got
  <2> HIDE DEF new
  <2> QED BY <2>1, <2>2, BeginType
<1>4. CASE Got(j, "failed", None)
  BY <1>3, <1>4
<1>5. ASSUME NEW c \in [url : {Head(call.left).url}, ver : Versions],
             IF EtagOf(c) # None /\ Head(call.left).tag = c THEN Got(j, "unchanged", None) ELSE Got(j, "ok", c)
      PROVE  calls' \in [Jobs -> Call0] /\ \A k \in Jobs : CallOK(calls'[k])
  <2>1. c \in Catalogs /\ c # None
    BY <1>2, CatalogAssumption DEF Catalogs, Asks
  <2> QED BY <1>3, <1>5, <2>1
<1> QED BY <1>4, <1>5 DEF Fetch

\* Every step preserves the type invariant.
LEMMA TypeNext == TypeOK /\ [Next]_vars => TypeOK'
<1> SUFFICES ASSUME TypeOK, [Next]_vars PROVE TypeOK'
  OBVIOUS
<1> USE CatalogAssumption
<1>a. Cron \in Jobs /\ Callers \subseteq Jobs
  BY DEF Jobs
<1>b. /\ rows \in [Ids -> Rows \cup {None}]
      /\ nextId \in 1..(MaxId + 1)
      /\ cache \in [Ids -> Catalogs \cup {None}]
      /\ calls \in [Jobs -> Call0]
      /\ \A j \in Jobs : CallOK(calls[j])
      /\ pending \subseteq Snapshots /\ \A snap \in pending : snap.left # <<>>
      /\ edits \in 0..MaxEdits
      /\ crashes \in 0..MaxCrashes
      /\ asked \in [Ids -> SUBSET Urls]
      /\ clashed \subseteq Ids
  BY DEF TypeOK
<1>c. ASSUME Edit PROVE edits' \in 0..MaxEdits
  BY <1>b, <1>c DEF Edit
<1>d. Live \subseteq Ids /\ \A s \in Live : rows[s] \in Rows
  BY <1>b DEF Live
<1>e. ASSUME NEW c \in Catalogs PROVE EtagOf(c) \in Catalogs \cup {None}
  BY DEF EtagOf
<1>f. ASSUME NEW row \in Rows, NEW c \in Catalogs \cup {None}, NEW urls \in SUBSET Urls,
             nextId \in Ids, Insert(NewId, row, c, urls)
      PROVE  /\ rows' \in [Ids -> Rows \cup {None}]
             /\ nextId' \in 1..(MaxId + 1)
             /\ cache' \in [Ids -> Catalogs \cup {None}]
             /\ asked' \in [Ids -> SUBSET Urls]
  BY <1>b, <1>f DEF Insert, NewId, Ids
<1>1. CASE EnsureDefault
  <2> DEFINE urls == {DefaultUrls[i] : i \in DOMAIN DefaultUrls}
  <2>1. Head(DefaultUrls) \in Urls /\ urls \in SUBSET Urls
    OBVIOUS
  <2>2. NewRow(Head(DefaultUrls), TRUE, None) \in Rows
    BY <2>1 DEF NewRow, Rows
  <2>3. Insert(NewId, NewRow(Head(DefaultUrls), TRUE, None), None, urls) /\ nextId \in Ids
    BY <1>1 DEF EnsureDefault
  <2>4. /\ rows' \in [Ids -> Rows \cup {None}]
        /\ nextId' \in 1..(MaxId + 1)
        /\ cache' \in [Ids -> Catalogs \cup {None}]
        /\ asked' \in [Ids -> SUBSET Urls]
    <3> HIDE DEF urls
    <3> QED BY <1>f, <2>1, <2>2, <2>3
  <2> QED BY <1>1, <1>b, <1>c, <2>4 DEF EnsureDefault, TypeOK
<1>2. ASSUME NEW s \in Ids, NEW b \in BOOLEAN, SetEnabled(s, b) PROVE TypeOK'
  <2>1. rows' \in [Ids -> Rows \cup {None}]
    BY <1>2, <1>b, <1>d DEF SetEnabled, Rows
  <2> QED BY <1>2, <1>b, <1>c, <2>1 DEF SetEnabled, TypeOK
<1>3. ASSUME NEW s \in Ids, Delete(s) PROVE TypeOK'
  BY <1>3, <1>b, <1>c DEF Delete, TypeOK
<1>4. ASSUME NEW j \in Callers, NEW u \in Urls, StartCreate(j, u) PROVE TypeOK'
  <2> DEFINE snap == [src |-> 0, left |-> <<Ask(u, None)>>]
  <2>1. Call("create", snap) \in Call0 /\ CallOK(Call("create", snap))
    BY SingleCallType DEF Kinds
  <2>2. Begin(j, Call("create", snap)) /\ j \in Jobs
    BY <1>4, <1>a DEF StartCreate
  <2>3. calls' \in [Jobs -> Call0] /\ \A k \in Jobs : CallOK(calls'[k])
    BY <2>1, <2>2, BeginType
  <2> QED BY <1>4, <1>b, <1>c, <2>3 DEF StartCreate, TypeOK
<1>5. ASSUME NEW j \in Callers, NEW s \in Ids, NEW u \in Urls, StartEdit(j, s, u) PROVE TypeOK'
  <2> DEFINE snap == [src |-> s, left |-> <<Ask(u, None)>>]
  <2>0. s # 0
    BY DEF Ids
  <2>1. Call("edit", snap) \in Call0 /\ CallOK(Call("edit", snap))
    BY <2>0, SingleCallType DEF Kinds
  <2>2. Begin(j, Call("edit", snap)) /\ j \in Jobs
    BY <1>5, <1>a DEF StartEdit
  <2>3. calls' \in [Jobs -> Call0] /\ \A k \in Jobs : CallOK(calls'[k])
    BY <2>1, <2>2, BeginType
  <2> QED BY <1>5, <1>b, <1>c, <2>3 DEF StartEdit, TypeOK
<1>g. ASSUME NEW s \in Live, NEW kind \in {"load", "refresh"}
      PROVE  Call(kind, Snapshot(s)) \in Call0 /\ CallOK(Call(kind, Snapshot(s)))
  <2>1. Snapshot(s) \in Snapshots /\ Len(Snapshot(s).left) > 0 /\ s # 0
    BY SnapshotType, <1>d DEF Ids
  <2> QED BY <2>1, CallType DEF Snapshots, Kinds, Ids
<1>6. ASSUME NEW j \in Callers, NEW s \in Ids, Load(j, s) PROVE TypeOK'
  <2>1. s \in Live /\ j \in Jobs
    BY <1>6, <1>a DEF Load, Enabled
  <2>2. calls' \in [Jobs -> Call0] /\ \A k \in Jobs : CallOK(calls'[k])
    BY <1>6, <1>g, <2>1, NoCallType, BeginType DEF Load, LoadCached, LoadFetching
  <2> QED BY <1>6, <1>b, <2>2 DEF Load, TypeOK
<1>7. ASSUME NEW j \in Callers, NEW s \in Ids, Refresh(j, s) PROVE TypeOK'
  <2>1. s \in Live /\ j \in Jobs
    BY <1>7, <1>a DEF Refresh, Enabled
  <2>2. calls' \in [Jobs -> Call0] /\ \A k \in Jobs : CallOK(calls'[k])
    BY <1>7, <1>g, <2>1, BeginType DEF Refresh
  <2>3. rows' \in [Ids -> Rows \cup {None}]
    BY <1>7, <1>b, <1>d, <2>1 DEF Refresh, Rows
  <2> QED BY <1>7, <1>b, <2>2, <2>3 DEF Refresh, TypeOK
<1>8. CASE CronTick
  <2>1. \A s \in Enabled : Snapshot(s) \in Snapshots /\ Snapshot(s).left # <<>>
    BY SnapshotType DEF Enabled, Snapshots
  <2>2. pending' \subseteq Snapshots /\ \A snap \in pending' : snap.left # <<>>
    BY <1>8, <2>1 DEF CronTick
  <2> QED BY <1>8, <1>b, <2>2 DEF CronTick, TypeOK
<1>9. CASE CronNext
  <2> PICK snap \in pending : Begin(Cron, Call("refresh", snap)) /\ pending' = pending \ {snap}
    BY <1>9 DEF CronNext
  <2>1. snap \in Snapshots /\ Len(snap.left) > 0 /\ snap.src # 0
    BY <1>b DEF Snapshots, Ids
  <2>2. Call("refresh", snap) \in Call0 /\ CallOK(Call("refresh", snap))
    BY <2>1, CallType DEF Snapshots, Kinds
  <2>3. calls' \in [Jobs -> Call0] /\ \A k \in Jobs : CallOK(calls'[k])
    BY <2>2, <1>a, BeginType
  <2> QED BY <1>9, <1>b, <2>3 DEF CronNext, TypeOK
<1>10. ASSUME NEW j \in Jobs, Fetch(j) PROVE TypeOK'
  BY <1>10, <1>b, FetchType DEF Fetch, TypeOK
<1>h. ASSUME NEW j \in Jobs, Begin(j, NoCall)
      PROVE  calls' \in [Jobs -> Call0] /\ \A k \in Jobs : CallOK(calls'[k])
  BY <1>h, NoCallType, BeginType
<1>11. ASSUME NEW j \in Jobs, Unchanged(j) PROVE TypeOK'
  BY <1>11, <1>b, <1>h DEF Unchanged, TypeOK
<1>i. ASSUME NEW j \in Jobs, calls[j].at = "got", calls[j].status = "ok"
      PROVE  calls[j].body \in Catalogs /\ (calls[j].kind # "create" => calls[j].src \in Ids)
  BY <1>i, <1>b DEF CallOK, Call0
<1>12. ASSUME NEW j \in Jobs, Fresh(j) PROVE TypeOK'
  <2>1. calls[j].body \in Catalogs /\ calls[j].src \in Ids
    BY <1>12, <1>i DEF Fresh, Refreshing
  <2>2. rows' \in [Ids -> Rows \cup {None}]
    <3>1. EtagOf(calls[j].body) \in Catalogs \cup {None}
      BY <1>e, <2>1
    <3>2. rows' = Synced(calls[j].src, EtagOf(calls[j].body))
      BY <1>12 DEF Fresh
    <3> QED BY <1>b, <2>1, <3>1, <3>2 DEF Synced, Rows
  <2> QED BY <1>12, <1>b, <1>h, <2>1, <2>2 DEF Fresh, TypeOK
<1>13. ASSUME NEW j \in Jobs, Failed(j) PROVE TypeOK'
  <2> DEFINE again == [calls[j] EXCEPT !.at = "ask", !.status = "none"]
  <2>1. calls[j].left # <<>> => again \in Call0 /\ CallOK(again)
    BY <1>13, <1>b DEF Failed, Refreshing, Call0, CallOK
  <2>2. calls' \in [Jobs -> Call0] /\ \A k \in Jobs : CallOK(calls'[k])
    <3> HIDE DEF again
    <3>1. CASE calls[j].left # <<>>
      <4>1. Begin(j, again)
        BY <1>13, <3>1 DEF Failed, again
      <4> QED BY <2>1, <3>1, <4>1, BeginType
    <3>2. CASE calls[j].left = <<>>
      <4>1. Begin(j, NoCall)
        BY <1>13, <3>2 DEF Failed
      <4> QED BY <4>1, <1>h
    <3> QED BY <3>1, <3>2
  <2> QED BY <1>13, <1>b, <2>2 DEF Failed, TypeOK
<1>14. ASSUME NEW j \in Jobs, FinishCreate(j) PROVE TypeOK'
  <2> DEFINE c == calls[j].body
  <2>1. calls' \in [Jobs -> Call0] /\ \A k \in Jobs : CallOK(calls'[k])
    BY <1>14, <1>h DEF FinishCreate
  <2>2. CASE calls[j].status = "ok" /\ ~Taken(c.url, 0)
    <3>1. c \in Catalogs /\ EtagOf(c) \in Catalogs \cup {None} /\ c.url \in Urls
      BY <1>14, <1>i, <1>e, <2>2 DEF FinishCreate, Catalogs
    <3>2. NewRow(c.url, FALSE, EtagOf(c)) \in Rows
      BY <3>1 DEF NewRow, Rows
    <3>3. nextId \in Ids /\ Insert(NewId, NewRow(c.url, FALSE, EtagOf(c)), c, {c.url})
      BY <1>14, <2>2 DEF FinishCreate
    <3>4. /\ rows' \in [Ids -> Rows \cup {None}]
          /\ nextId' \in 1..(MaxId + 1)
          /\ cache' \in [Ids -> Catalogs \cup {None}]
          /\ asked' \in [Ids -> SUBSET Urls]
      <4>1. {c.url} \in SUBSET Urls
        BY <3>1
      <4> QED BY <1>f, <3>1, <3>2, <3>3, <4>1
    <3> QED BY <1>14, <1>b, <2>1, <3>4 DEF FinishCreate, TypeOK
  <2>3. CASE ~(calls[j].status = "ok" /\ ~Taken(c.url, 0))
    BY <1>14, <1>b, <2>1, <2>3 DEF FinishCreate, TypeOK
  <2> QED BY <2>2, <2>3
<1>15. ASSUME NEW j \in Jobs, FinishEdit(j) PROVE TypeOK'
  <2> DEFINE c == calls[j].body
             s == calls[j].src
  <2>1. calls' \in [Jobs -> Call0] /\ \A k \in Jobs : CallOK(calls'[k])
    BY <1>15, <1>h DEF FinishEdit
  <2>2. CASE calls[j].status = "ok"
    <3>1. c \in Catalogs /\ s \in Ids /\ EtagOf(c) \in Catalogs \cup {None} /\ c.url \in Urls
      BY <1>15, <1>i, <1>e, <2>2 DEF FinishEdit, Catalogs
    <3>2. rows' \in [Ids -> Rows \cup {None}]
      <4>1. CASE rows' = rows
        BY <1>b, <4>1
      <4>2. CASE s \in Live /\ rows' = [rows EXCEPT ![s] = [@ EXCEPT !.url = c.url, !.etag = EtagOf(c)]]
        <5>1. [rows[s] EXCEPT !.url = c.url, !.etag = EtagOf(c)] \in Rows
          BY <1>d, <3>1, <4>2 DEF Rows
        <5> QED BY <1>b, <3>1, <4>2, <5>1
      <4> QED BY <1>15, <2>2, <4>1, <4>2 DEF FinishEdit
    <3>3. cache' \in [Ids -> Catalogs \cup {None}] /\ clashed' \subseteq Ids
      BY <1>15, <1>b, <2>2, <3>1 DEF FinishEdit
    <3> QED BY <1>15, <1>b, <2>1, <3>2, <3>3 DEF FinishEdit, TypeOK
  <2>3. CASE calls[j].status # "ok"
    BY <1>15, <1>b, <2>1, <2>3 DEF FinishEdit, TypeOK
  <2> QED BY <2>2, <2>3
<1>16. CASE Crash
  BY <1>16, <1>b, NoCallType DEF Crash, TypeOK
<1>17. CASE UNCHANGED vars
  BY <1>17, <1>b DEF vars, TypeOK
<1> QED BY <1>1, <1>2, <1>3, <1>4, <1>5, <1>6, <1>7, <1>8, <1>9, <1>10, <1>11, <1>12, <1>13,
           <1>14, <1>15, <1>16, <1>17 DEF Next, Handle

-----------------------------------------------------------------------------
(***************************************************************************)
(* Addresses stay with the source they were given for.                     *)
(***************************************************************************)
Grows == nextId <= nextId' /\ \A s \in Ids : s < nextId => asked[s] \subseteq asked'[s]

\* No step takes an address from a source whose id has been handed out.
LEMMA GrowsNext == TypeOK /\ [Next]_vars => Grows
<1> SUFFICES ASSUME TypeOK, [Next]_vars PROVE Grows
  OBVIOUS
<1>a. nextId \in Nat /\ asked \in [Ids -> SUBSET Urls] /\ \A s \in Ids : s \in Nat
  BY CatalogAssumption DEF TypeOK, Ids
<1>b. ASSUME NEW row, NEW c, NEW urls, Insert(NewId, row, c, urls) PROVE Grows
  BY <1>a, <1>b DEF Insert, NewId, Grows
<1>c. ASSUME UNCHANGED <<nextId, asked>> PROVE Grows
  BY <1>a, <1>c DEF Grows
<1>1. CASE EnsureDefault
  BY <1>1, <1>b DEF EnsureDefault
<1>2. ASSUME NEW j \in Callers, NEW s \in Ids, NEW u \in Urls, StartEdit(j, s, u) PROVE Grows
  BY <1>2, <1>a DEF StartEdit, Grows
<1>3. ASSUME NEW j \in Jobs, FinishCreate(j) PROVE Grows
  <2>1. CASE calls[j].status = "ok" /\ ~Taken(calls[j].body.url, 0)
    BY <1>3, <1>b, <2>1 DEF FinishCreate
  <2>2. CASE ~(calls[j].status = "ok" /\ ~Taken(calls[j].body.url, 0))
    BY <1>3, <1>c, <2>2 DEF FinishCreate
  <2> QED BY <2>1, <2>2
<1>4. CASE \E s \in Ids : Delete(s)
  BY <1>4, <1>c DEF Delete
<1>5. CASE \E s \in Ids, b \in BOOLEAN : SetEnabled(s, b)
  BY <1>5, <1>c DEF SetEnabled
<1>6. CASE \E j \in Callers, u \in Urls : StartCreate(j, u)
  BY <1>6, <1>c DEF StartCreate
<1>7. CASE \E j \in Callers, s \in Ids : Load(j, s) \/ Refresh(j, s)
  BY <1>7, <1>c DEF Load, Refresh
<1>8. CASE CronTick \/ CronNext
  BY <1>8, <1>c DEF CronTick, CronNext
<1>9. ASSUME NEW j \in Jobs, Fetch(j) \/ Unchanged(j) \/ Fresh(j) \/ Failed(j) \/ FinishEdit(j) PROVE Grows
  BY <1>9, <1>c DEF Fetch, Unchanged, Fresh, Failed, FinishEdit
<1>10. CASE Crash \/ UNCHANGED vars
  BY <1>10, <1>c DEF Crash, vars
<1> QED BY <1>1, <1>2, <1>3, <1>4, <1>5, <1>6, <1>7, <1>8, <1>9, <1>10 DEF Next, Handle

\* A call or a snapshot that was in order stays so.
LEMMA CarryAsked ==
  ASSUME NEW s \in Ids, NEW left, Grows, s < nextId, AskedFor(s, left), nextId \in Nat, nextId' \in Nat
  PROVE  s < nextId' /\ AskedFor(s, left)'
BY CatalogAssumption DEF Grows, AskedFor, Ids

\* The addresses of a row's snapshot were given for it.
LEMMA SnapshotOwn ==
  ASSUME TypeOK, RowsOwn, NEW s \in Live
  PROVE  s < nextId /\ AskedFor(s, Snapshot(s).left)
<1>1. rows[s] \in Rows
  BY DEF TypeOK, Live
<1>2. CandidateUrls(rows[s]) \in Seq(Urls)
  BY <1>1, CandidateType
<1>3. \A i \in 1..Len(CandidateUrls(rows[s])) : CandidateUrls(rows[s])[i] \in asked[s]
  BY <1>1, CatalogAssumption DEF RowsOwn, CandidateUrls, Rows
<1> DEFINE urls == CandidateUrls(rows[s])
           f == [i \in DOMAIN urls |-> Ask(urls[i], IF urls[i] = rows[s].url THEN rows[s].etag ELSE None)]
<1>4. Snapshot(s).left = f
  BY DEF Snapshot
<1>5. DOMAIN f = 1..Len(urls) /\ Len(urls) \in Nat
  BY <1>2
<1>6. \A i \in 1..Len(urls) : f[i].url = urls[i]
  BY <1>2 DEF Ask
<1>7. Len(f) = Len(urls)
  <2> HIDE DEF f
  <2> QED BY <1>5
<1> QED BY <1>3, <1>4, <1>6, <1>7 DEF RowsOwn, AskedFor

\* The list of the cron loop stays in order: it loses entries, or takes snapshots of the rows.
LEMMA PendingOwnNext ==
  ASSUME TypeOK, TypeOK', RowsOwn, PendingOwn, [Next]_vars, Grows
  PROVE  PendingOwn'
<1>a. nextId \in Nat /\ nextId' \in Nat /\ pending \subseteq Snapshots
  BY CatalogAssumption DEF TypeOK
<1>b. ASSUME pending' \subseteq pending PROVE PendingOwn'
  <2>1. \A snap \in pending : snap.src \in Ids /\ snap.src < nextId /\ AskedFor(snap.src, snap.left)
    BY <1>a DEF PendingOwn, Snapshots
  <2>2. \A snap \in pending : snap.src < nextId' /\ AskedFor(snap.src, snap.left)'
    BY <1>a, <2>1, CarryAsked
  <2> QED BY <1>b, <2>2 DEF PendingOwn
<1>1. CASE CronTick
  <2>1. pending' = {Snapshot(s) : s \in Enabled} /\ nextId' = nextId /\ asked' = asked
    BY <1>1 DEF CronTick
  <2>2. \A s \in Enabled : Snapshot(s).src < nextId /\ AskedFor(s, Snapshot(s).left) /\ Snapshot(s).src = s
    BY SnapshotOwn DEF Enabled, Snapshot
  <2>3. ASSUME NEW snap \in pending' PROVE snap.src < nextId' /\ AskedFor(snap.src, snap.left)'
    <3> PICK s \in Enabled : snap = Snapshot(s)
      BY <2>1, <2>3
    <3>1. AskedFor(s, snap.left)
      BY <2>2
    <3>2. AskedFor(s, snap.left)'
      BY <2>1, <3>1 DEF AskedFor
    <3> QED BY <2>1, <2>2, <3>2
  <2> QED BY <2>3 DEF PendingOwn
<1>2. CASE CronNext
  BY <1>2, <1>b DEF CronNext
<1>3. CASE EnsureDefault
  BY <1>3, <1>b DEF EnsureDefault
<1>4. CASE \E s \in Ids : Delete(s)
  BY <1>4, <1>b DEF Delete
<1>5. CASE \E s \in Ids, b \in BOOLEAN : SetEnabled(s, b)
  BY <1>5, <1>b DEF SetEnabled
<1>6. CASE \E j \in Callers, u \in Urls : StartCreate(j, u)
  BY <1>6, <1>b DEF StartCreate
<1>7. CASE \E j \in Callers, s \in Ids, u \in Urls : StartEdit(j, s, u)
  BY <1>7, <1>b DEF StartEdit
<1>8. CASE \E j \in Callers, s \in Ids : Load(j, s) \/ Refresh(j, s)
  BY <1>8, <1>b DEF Load, Refresh
<1>9. CASE \E j \in Jobs : Handle(j)
  BY <1>9, <1>b DEF Handle, Fetch, Unchanged, Fresh, Failed, FinishCreate, FinishEdit
<1>10. CASE Crash \/ UNCHANGED vars
  BY <1>10, <1>b DEF Crash, vars
<1> QED BY <1>1, <1>2, <1>3, <1>4, <1>5, <1>6, <1>7, <1>8, <1>9, <1>10 DEF Next

\* Every call keeps to its own source: what it asks, and what it has got.
LEMMA CallsOwnNext ==
  ASSUME TypeOK, TypeOK', RowsOwn, PendingOwn, CallsOwn, [Next]_vars, Grows
  PROVE  CallsOwn'
<1>a. nextId \in Nat /\ nextId' \in Nat /\ calls \in [Jobs -> Call0] /\ asked \in [Ids -> SUBSET Urls]
  BY CatalogAssumption DEF TypeOK
<1>b. \A j \in Jobs : CallOwn(calls[j])'
  <2> SUFFICES ASSUME NEW j \in Jobs PROVE CallOwn(calls[j])'
    OBVIOUS
  <2>1. calls[j] \in Call0 /\ CallOwn(calls[j])
    BY <1>a DEF CallsOwn
  <2>2. ASSUME calls'[j] = calls[j] PROVE CallOwn(calls[j])'
    <3> DEFINE c == calls[j]
    <3>1. c.src # 0 => c.src \in Ids /\ c.src < nextId /\ AskedFor(c.src, c.left)
      BY <2>1 DEF CallOwn, Call0
    <3>a. c.src # 0 => c.src \in Nat /\ asked[c.src] \subseteq asked'[c.src]
      BY <3>1 DEF Grows, Ids
    <3>b. c.src # 0 => c.src < nextId'
      BY <1>a, <3>1, <3>a DEF Grows
    <3>2. c.src # 0 => c.src < nextId' /\ \A i \in 1..Len(c.left) : c.left[i].url \in asked'[c.src]
      BY <3>1, <3>a, <3>b DEF AskedFor
    <3>3. c.src # 0 /\ c.body # None => c.body.url \in asked'[c.src]
      BY <2>1, <3>1 DEF CallOwn, Grows
    <3> QED BY <2>2, <3>2, <3>3 DEF CallOwn, AskedFor
  <2>3. ASSUME calls'[j] = NoCall PROVE CallOwn(calls[j])'
    BY <2>3 DEF NoCall, CallOwn
  <2>4. ASSUME NEW k \in Jobs, NEW c, Begin(k, c) PROVE calls'[j] = IF j = k THEN c ELSE calls[j]
    BY <1>a, <2>4 DEF Begin
  <2>5. ASSUME NEW kind, NEW s \in Live, calls'[j] = Call(kind, Snapshot(s)), UNCHANGED <<nextId, asked>>
        PROVE  CallOwn(calls[j])'
    <3>1. s < nextId /\ AskedFor(s, Snapshot(s).left)
      BY SnapshotOwn
    <3>2. calls'[j].src = s /\ calls'[j].left = Snapshot(s).left /\ calls'[j].body = None
      BY <2>5 DEF Call, Snapshot
    <3> QED BY <2>5, <3>1, <3>2 DEF CallOwn, AskedFor
  <2>6. ASSUME UNCHANGED calls PROVE CallOwn(calls[j])'
    BY <2>2, <2>6
  <2>7. CASE EnsureDefault
    BY <2>6, <2>7 DEF EnsureDefault
  <2>8. CASE \E s \in Ids : Delete(s)
    BY <2>6, <2>8 DEF Delete
  <2>9. CASE \E s \in Ids, b \in BOOLEAN : SetEnabled(s, b)
    BY <2>6, <2>9 DEF SetEnabled
  <2>10. ASSUME NEW k \in Callers, NEW u \in Urls, StartCreate(k, u) PROVE CallOwn(calls[j])'
    <3>1. calls'[j] = IF j = k THEN Call("create", [src |-> 0, left |-> <<Ask(u, None)>>]) ELSE calls[j]
      BY <2>4, <2>10 DEF StartCreate, Jobs
    <3> QED BY <2>2, <3>1 DEF Call, CallOwn
  <2>11. ASSUME NEW k \in Callers, NEW s \in Ids, NEW u \in Urls, StartEdit(k, s, u) PROVE CallOwn(calls[j])'
    <3> DEFINE c == Call("edit", [src |-> s, left |-> <<Ask(u, None)>>])
    <3>1. calls'[j] = IF j = k THEN c ELSE calls[j]
      BY <2>4, <2>11 DEF StartEdit, Jobs
    <3>2. c.src = s /\ c.body = None /\ c.left = <<Ask(u, None)>>
      BY DEF Call
    <3>3. s < nextId' /\ u \in asked'[s]
      BY <1>a, <2>11 DEF StartEdit, RowsOwn
    <3>4. \A i \in 1..Len(<<Ask(u, None)>>) : <<Ask(u, None)>>[i].url = u
      BY DEF Ask
    <3>5. ASSUME j = k PROVE CallOwn(calls[j])'
      <4>1. calls'[j].src = s /\ calls'[j].body = None /\ calls'[j].left = <<Ask(u, None)>>
        BY <3>1, <3>2, <3>5
      <4> QED BY <3>3, <3>4, <4>1 DEF CallOwn, AskedFor
    <3> QED BY <2>2, <3>1, <3>5
  <2>12. ASSUME NEW k \in Callers, NEW s \in Ids, Load(k, s) PROVE CallOwn(calls[j])'
    <3>1. s \in Live /\ k \in Jobs /\ UNCHANGED <<nextId, asked>>
      BY <2>12 DEF Load, Enabled, Jobs
    <3>2. \/ Begin(k, NoCall)
          \/ Begin(k, Call("refresh", Snapshot(s)))
          \/ Begin(k, Call("load", Snapshot(s)))
      BY <2>12 DEF Load, LoadCached, LoadFetching
    <3>3. CASE Begin(k, NoCall)
      BY <2>2, <2>3, <2>4, <3>1, <3>3
    <3>4. ASSUME NEW kind \in {"load", "refresh"}, Begin(k, Call(kind, Snapshot(s)))
          PROVE  CallOwn(calls[j])'
      <4>1. calls'[j] = IF j = k THEN Call(kind, Snapshot(s)) ELSE calls[j]
        BY <2>4, <3>1, <3>4
      <4> QED BY <2>2, <2>5, <3>1, <4>1
    <3> QED BY <3>2, <3>3, <3>4
  <2>13. ASSUME NEW k \in Callers, NEW s \in Ids, Refresh(k, s) PROVE CallOwn(calls[j])'
    <3>1. s \in Live /\ UNCHANGED <<nextId, asked>>
      BY <2>13 DEF Refresh, Enabled
    <3>2. calls'[j] = IF j = k THEN Call("refresh", Snapshot(s)) ELSE calls[j]
      BY <2>4, <2>13 DEF Refresh, Jobs
    <3> QED BY <2>2, <2>5, <3>1, <3>2
  <2>14. CASE CronTick
    BY <2>6, <2>14 DEF CronTick
  <2>15. CASE CronNext
    <3> PICK snap \in pending : Begin(Cron, Call("refresh", snap))
      BY <2>15 DEF CronNext
    <3>1. snap.src < nextId /\ AskedFor(snap.src, snap.left) /\ UNCHANGED <<nextId, asked>>
      BY <2>15 DEF CronNext, PendingOwn
    <3>2. calls'[j] = IF j = Cron THEN Call("refresh", snap) ELSE calls[j]
      BY <2>4 DEF Jobs
    <3>3. ASSUME j = Cron PROVE CallOwn(calls[j])'
      <4>1. calls'[j].src = snap.src /\ calls'[j].left = snap.left /\ calls'[j].body = None
        BY <3>2, <3>3 DEF Call
      <4> QED BY <3>1, <4>1 DEF CallOwn, AskedFor
    <3> QED BY <2>2, <3>2, <3>3
  <2>16. ASSUME NEW k \in Jobs, Fetch(k) PROVE CallOwn(calls[j])'
    <3> DEFINE c == calls[k]
    <3>1. c \in Call0 /\ CallOwn(c) /\ c.left \in Seq(Asks) /\ c.left # <<>>
      BY <1>a, <2>16 DEF CallsOwn, Call0, Fetch, TypeOK, CallOK
    <3>2. UNCHANGED <<nextId, asked>>
      BY <2>16 DEF Fetch
    <3>3. ASSUME NEW status, NEW b, b # None => b.url = Head(c.left).url, Got(k, status, b)
          PROVE  CallOwn(calls[j])'
      <4> DEFINE new == [c EXCEPT !.at = "got", !.left = Tail(@), !.status = status, !.body = b]
      <4>1. calls'[j] = IF j = k THEN new ELSE calls[j]
        BY <2>4, <3>3 DEF Got
      <4>2. new.src = c.src /\ new.left = Tail(c.left) /\ new.body = b
        BY <3>1 DEF Call0
      <4> HIDE DEF new
      <4>3. ASSUME j = k, c.src # 0
            PROVE  /\ c.src < nextId /\ \A i \in 1..Len(Tail(c.left)) : Tail(c.left)[i].url \in asked[c.src]
                   /\ b # None => b.url \in asked[c.src]
        <5>1. c.src < nextId /\ \A i \in 1..Len(c.left) : c.left[i].url \in asked[c.src]
          BY <3>1, <4>3 DEF CallOwn, AskedFor
        <5>2. /\ Head(c.left) = c.left[1] /\ 1 \in 1..Len(c.left) /\ Len(Tail(c.left)) = Len(c.left) - 1
              /\ \A i \in 1..Len(Tail(c.left)) : Tail(c.left)[i] = c.left[i + 1] /\ i + 1 \in 1..Len(c.left)
          BY <3>1
        <5> QED BY <3>3, <5>1, <5>2
      <4>4. ASSUME j = k PROVE CallOwn(calls[j])'
        <5>1. calls'[j].src = c.src /\ calls'[j].left = Tail(c.left) /\ calls'[j].body = b
          BY <4>1, <4>2, <4>4
        <5> QED BY <3>2, <4>3, <4>4, <5>1 DEF CallOwn, AskedFor
      <4> QED BY <2>2, <4>1, <4>4
    <3>4. CASE Got(k, "failed", None) \/ Got(k, "unchanged", None)
      BY <3>3, <3>4
    <3>5. ASSUME NEW b \in [url : {Head(c.left).url}, ver : Versions], Got(k, "ok", b)
          PROVE  CallOwn(calls[j])'
      BY <3>3, <3>5
    <3> QED BY <2>16, <3>4, <3>5 DEF Fetch
  <2>17. ASSUME NEW k \in Jobs, Failed(k) PROVE CallOwn(calls[j])'
    <3> DEFINE c == calls[k]
               again == [c EXCEPT !.at = "ask", !.status = "none"]
    <3>1. c \in Call0 /\ CallOwn(c)
      BY <1>a DEF CallsOwn
    <3>2. UNCHANGED <<nextId, asked>>
      BY <2>17 DEF Failed
    <3>3. again.src = c.src /\ again.left = c.left /\ again.body = c.body
      BY <3>1 DEF Call0
    <3>4. calls'[j] = IF j = k THEN (IF c.left # <<>> THEN again ELSE NoCall) ELSE calls[j]
      BY <2>4, <2>17 DEF Failed
    <3> HIDE DEF again
    <3>5. ASSUME calls'[j] = again PROVE CallOwn(calls[j])'
      BY <3>1, <3>2, <3>3, <3>5 DEF CallOwn, AskedFor
    <3> QED BY <2>2, <2>3, <3>4, <3>5
  <2>18. ASSUME NEW k \in Jobs, Begin(k, NoCall) PROVE CallOwn(calls[j])'
    BY <2>2, <2>3, <2>4, <2>18
  <2>19. CASE \E k \in Jobs : Unchanged(k) \/ Fresh(k) \/ FinishCreate(k) \/ FinishEdit(k)
    BY <2>18, <2>19 DEF Unchanged, Fresh, FinishCreate, FinishEdit
  <2>20. CASE Crash
    BY <2>3, <2>20 DEF Crash
  <2>21. CASE UNCHANGED vars
    BY <2>6, <2>21 DEF vars
  <2> QED BY <2>7, <2>8, <2>9, <2>10, <2>11, <2>12, <2>13, <2>14, <2>15, <2>16, <2>17, <2>19,
             <2>20, <2>21 DEF Next, Handle
<1> QED BY <1>b DEF CallsOwn

\* The address of every row, and the fallbacks of the official one, stay among those given.
LEMMA RowsOwnNext ==
  ASSUME TypeOK, TypeOK', RowsOwn, CallsOwn, [Next]_vars, Grows
  PROVE  RowsOwn'
<1> DEFINE RowOwn(s, row) ==
      /\ s < nextId'
      /\ row.url \in asked'[s]
      /\ row.default => \A i \in 1..Len(DefaultUrls) : DefaultUrls[i] \in asked'[s]
<1>a. /\ nextId \in Nat /\ nextId' \in Nat /\ rows \in [Ids -> Rows \cup {None}]
      /\ asked \in [Ids -> SUBSET Urls] /\ calls \in [Jobs -> Call0]
  BY CatalogAssumption DEF TypeOK
<1>b. \A s \in Live : RowOwn(s, rows[s])
  BY <1>a DEF RowsOwn, Grows, Live, Ids
<1>c. ASSUME \A s \in Ids : rows'[s] # None => RowOwn(s, rows'[s]) PROVE RowsOwn'
  BY <1>c DEF RowsOwn, Live
<1>d. ASSUME \A s \in Ids : rows'[s] # None =>
               s \in Live /\ rows'[s].url = rows[s].url /\ rows'[s].default = rows[s].default
      PROVE  RowsOwn'
  BY <1>b, <1>c, <1>d
<1>e. ASSUME UNCHANGED rows PROVE RowsOwn'
  BY <1>d, <1>e DEF Live
<1>f. ASSUME NEW s \in Live, NEW f, rows' = [rows EXCEPT ![s] = f], f.url = rows[s].url, f.default = rows[s].default
      PROVE  RowsOwn'
  BY <1>a, <1>d, <1>f DEF Live
<1>g. ASSUME NEW row, NEW c, NEW urls, Insert(NewId, row, c, urls), nextId \in Ids,
             row.url \in urls, row.default => \A i \in 1..Len(DefaultUrls) : DefaultUrls[i] \in urls
      PROVE  RowsOwn'
  <2>1. /\ rows' = [rows EXCEPT ![nextId] = row] /\ nextId' = nextId + 1
        /\ asked'[nextId] = urls
    BY <1>a, <1>g DEF Insert, NewId
  <2>2. ASSUME NEW s \in Ids, rows'[s] # None PROVE RowOwn(s, rows'[s])
    <3>1. CASE s = nextId
      BY <1>a, <1>g, <2>1, <3>1
    <3>2. CASE s # nextId
      <4>1. rows'[s] = rows[s] /\ s \in Live
        BY <1>a, <2>1, <2>2, <3>2 DEF Live
      <4> QED BY <1>b, <4>1
    <3> QED BY <3>1, <3>2
  <2> QED BY <1>c, <2>2
<1>1. CASE EnsureDefault
  <2> DEFINE urls == {DefaultUrls[i] : i \in DOMAIN DefaultUrls}
  <2>1. Insert(NewId, NewRow(Head(DefaultUrls), TRUE, None), None, urls) /\ nextId \in Ids
    BY <1>1 DEF EnsureDefault
  <2>2. Head(DefaultUrls) \in urls /\ \A i \in 1..Len(DefaultUrls) : DefaultUrls[i] \in urls
    BY CatalogAssumption
  <2>3. NewRow(Head(DefaultUrls), TRUE, None).url = Head(DefaultUrls)
    BY DEF NewRow
  <2> HIDE DEF urls
  <2> QED BY <1>g, <2>1, <2>2, <2>3
<1>2. ASSUME NEW s \in Ids, NEW b \in BOOLEAN, SetEnabled(s, b) PROVE RowsOwn'
  <2>1. rows' = [rows EXCEPT ![s] = [rows[s] EXCEPT !.enabled = b]] /\ s \in Live
    BY <1>2 DEF SetEnabled
  <2>2. rows[s] \in Rows
    BY <1>a, <2>1 DEF Live
  <2> QED BY <1>f, <2>1, <2>2 DEF Rows
<1>3. ASSUME NEW s \in Ids, Delete(s) PROVE RowsOwn'
  BY <1>3, <1>a, <1>d DEF Delete, Live
<1>4. ASSUME NEW j \in Callers, NEW s \in Ids, Refresh(j, s) PROVE RowsOwn'
  <2>1. rows' = [rows EXCEPT ![s] = [rows[s] EXCEPT !.etag = None]] /\ s \in Live
    BY <1>4 DEF Refresh, Enabled
  <2>2. rows[s] \in Rows
    BY <1>a, <2>1 DEF Live
  <2> QED BY <1>f, <2>1, <2>2 DEF Rows
<1>5. ASSUME NEW j \in Jobs, Fresh(j) PROVE RowsOwn'
  <2> DEFINE s == calls[j].src
             etag == EtagOf(calls[j].body)
  <2>1. rows' = IF rows[s] = None THEN rows ELSE [rows EXCEPT ![s] = [rows[s] EXCEPT !.etag = etag]]
    BY <1>5 DEF Fresh, Synced
  <2>2. CASE rows[s] # None
    <3>1. s \in Ids
      BY <1>5 DEF Fresh, Refreshing, TypeOK, CallOK, Call0
    <3>2. s \in Live /\ rows[s] \in Rows
      BY <1>a, <2>2, <3>1 DEF Live
    <3> QED BY <1>f, <2>1, <2>2, <3>2 DEF Rows
  <2> QED BY <1>e, <2>1, <2>2
<1>6. ASSUME NEW j \in Jobs, FinishCreate(j) PROVE RowsOwn'
  <2> DEFINE c == calls[j].body
  <2>1. CASE calls[j].status = "ok" /\ ~Taken(c.url, 0)
    <3>1. nextId \in Ids /\ Insert(NewId, NewRow(c.url, FALSE, EtagOf(c)), c, {c.url})
      BY <1>6, <2>1 DEF FinishCreate
    <3>2. NewRow(c.url, FALSE, EtagOf(c)).url = c.url /\ ~NewRow(c.url, FALSE, EtagOf(c)).default
      BY DEF NewRow
    <3> QED BY <1>g, <3>1, <3>2
  <2>2. CASE ~(calls[j].status = "ok" /\ ~Taken(c.url, 0))
    BY <1>6, <1>e, <2>2 DEF FinishCreate
  <2> QED BY <2>1, <2>2
<1>7. ASSUME NEW j \in Jobs, FinishEdit(j) PROVE RowsOwn'
  <2> DEFINE s == calls[j].src
             c == calls[j].body
  <2>1. CASE calls[j].status = "ok" /\ s \in Live /\ ~Taken(c.url, s)
    <3>1. rows' = [rows EXCEPT ![s] = [@ EXCEPT !.url = c.url, !.etag = EtagOf(c)]] /\ UNCHANGED <<nextId, asked>>
      BY <1>7, <2>1 DEF FinishEdit
    <3>2. c # None /\ s # 0
      BY <1>7, <2>1 DEF FinishEdit, TypeOK, CallOK, Live, Ids
    <3>3. c.url \in asked[s]
      BY <3>2 DEF CallsOwn, CallOwn
    <3>4. \A t \in Live : rows[t] \in Rows
      BY <1>a DEF Live
    <3>5. s \in Ids /\ rows'[s].url = c.url /\ rows'[s].default = rows[s].default
      BY <1>a, <2>1, <3>1, <3>4 DEF Live, Rows
    <3>6. ASSUME NEW t \in Ids, rows'[t] # None PROVE RowOwn(t, rows'[t])
      <4>1. CASE t = s
        BY <1>b, <2>1, <3>1, <3>3, <3>5, <4>1
      <4>2. CASE t # s
        <5>1. rows'[t] = rows[t] /\ t \in Live
          BY <1>a, <3>1, <3>6, <4>2 DEF Live
        <5> QED BY <1>b, <5>1
      <4> QED BY <4>1, <4>2
    <3> QED BY <1>c, <3>6
  <2>2. CASE ~(calls[j].status = "ok" /\ s \in Live /\ ~Taken(c.url, s))
    BY <1>7, <1>e, <2>2 DEF FinishEdit
  <2> QED BY <2>1, <2>2
<1>8. CASE \E j \in Callers, u \in Urls : StartCreate(j, u)
  BY <1>8, <1>e DEF StartCreate
<1>9. CASE \E j \in Callers, s \in Ids, u \in Urls : StartEdit(j, s, u)
  BY <1>9, <1>e DEF StartEdit
<1>10. CASE \E j \in Callers, s \in Ids : Load(j, s)
  BY <1>10, <1>e DEF Load
<1>11. CASE CronTick \/ CronNext
  BY <1>11, <1>e DEF CronTick, CronNext
<1>12. CASE \E j \in Jobs : Fetch(j) \/ Unchanged(j) \/ Failed(j)
  BY <1>12, <1>e DEF Fetch, Unchanged, Failed
<1>13. CASE Crash \/ UNCHANGED vars
  BY <1>13, <1>e DEF Crash, vars
<1> QED BY <1>1, <1>2, <1>3, <1>4, <1>5, <1>6, <1>7, <1>8, <1>9, <1>10, <1>11, <1>12, <1>13
        DEF Next, Handle

\* What is cached for a source was fetched from an address given for it.
LEMMA CacheOwnNext ==
  ASSUME TypeOK, TypeOK', CacheOwn, CallsOwn, [Next]_vars, Grows
  PROVE  CacheOwn'
<1> DEFINE Own(s, c) == c # None => s < nextId' /\ c.url \in asked'[s]
<1>a. /\ nextId \in Nat /\ nextId' \in Nat /\ cache \in [Ids -> Catalogs \cup {None}]
      /\ asked \in [Ids -> SUBSET Urls] /\ calls \in [Jobs -> Call0]
  BY CatalogAssumption DEF TypeOK
<1>b. \A s \in Ids : Own(s, cache[s])
  BY <1>a DEF CacheOwn, Grows, Ids
<1>c. ASSUME \A s \in Ids : cache'[s] = cache[s] \/ Own(s, cache'[s]) PROVE CacheOwn'
  BY <1>b, <1>c DEF CacheOwn
<1>d. ASSUME UNCHANGED cache PROVE CacheOwn'
  BY <1>c, <1>d
<1>e. ASSUME NEW s \in Ids, NEW c, cache' = [cache EXCEPT ![s] = c], Own(s, c) PROVE CacheOwn'
  BY <1>a, <1>c, <1>e
<1>1. CASE EnsureDefault
  BY <1>1, <1>d DEF EnsureDefault, Insert
<1>2. ASSUME NEW s \in Ids, Delete(s) PROVE CacheOwn'
  BY <1>2, <1>e DEF Delete
<1>3. ASSUME NEW j \in Jobs, Fresh(j) PROVE CacheOwn'
  <2>1. calls[j].src \in Ids /\ calls[j].src # 0
    BY <1>3 DEF Fresh, Refreshing, TypeOK, CallOK, Call0, Ids
  <2>2. cache' = [cache EXCEPT ![calls[j].src] = calls[j].body] /\ UNCHANGED <<nextId, asked>>
    BY <1>3 DEF Fresh
  <2>3. Own(calls[j].src, calls[j].body)
    BY <2>1, <2>2 DEF CallsOwn, CallOwn
  <2> QED BY <1>e, <2>1, <2>2, <2>3
<1>4. ASSUME NEW j \in Jobs, FinishCreate(j) PROVE CacheOwn'
  <2> DEFINE c == calls[j].body
  <2>1. CASE calls[j].status = "ok" /\ ~Taken(c.url, 0)
    <3>1. nextId \in Ids /\ Insert(NewId, NewRow(c.url, FALSE, EtagOf(c)), c, {c.url}) /\ c # None
      BY <1>4, <2>1 DEF FinishCreate, TypeOK, CallOK
    <3>2. cache' = [cache EXCEPT ![nextId] = c] /\ nextId' = nextId + 1 /\ asked'[nextId] = {c.url}
      BY <1>a, <3>1 DEF Insert, NewId
    <3>3. Own(nextId, c)
      BY <1>a, <3>2
    <3> QED BY <1>e, <3>1, <3>2, <3>3
  <2>2. CASE ~(calls[j].status = "ok" /\ ~Taken(c.url, 0))
    BY <1>4, <1>d, <2>2 DEF FinishCreate
  <2> QED BY <2>1, <2>2
<1>5. ASSUME NEW j \in Jobs, FinishEdit(j) PROVE CacheOwn'
  <2>1. CASE calls[j].status = "ok"
    <3>1. calls[j].src \in Ids /\ calls[j].src # 0
      BY <1>5 DEF FinishEdit, TypeOK, CallOK, Call0, Ids
    <3>2. cache' = [cache EXCEPT ![calls[j].src] = calls[j].body] /\ UNCHANGED <<nextId, asked>>
      BY <1>5, <2>1 DEF FinishEdit
    <3>3. Own(calls[j].src, calls[j].body)
      BY <3>1, <3>2 DEF CallsOwn, CallOwn
    <3> QED BY <1>e, <3>1, <3>2, <3>3
  <2>2. CASE calls[j].status # "ok"
    BY <1>5, <1>d, <2>2 DEF FinishEdit
  <2> QED BY <2>1, <2>2
<1>6. CASE Crash
  BY <1>6, <1>c DEF Crash
<1>7. CASE \E s \in Ids, b \in BOOLEAN : SetEnabled(s, b)
  BY <1>7, <1>d DEF SetEnabled
<1>8. CASE \E j \in Callers, u \in Urls : StartCreate(j, u)
  BY <1>8, <1>d DEF StartCreate
<1>9. CASE \E j \in Callers, s \in Ids, u \in Urls : StartEdit(j, s, u)
  BY <1>9, <1>d DEF StartEdit
<1>10. CASE \E j \in Callers, s \in Ids : Load(j, s) \/ Refresh(j, s)
  BY <1>10, <1>d DEF Load, Refresh
<1>11. CASE CronTick \/ CronNext
  BY <1>11, <1>d DEF CronTick, CronNext
<1>12. CASE \E j \in Jobs : Fetch(j) \/ Unchanged(j) \/ Failed(j)
  BY <1>12, <1>d DEF Fetch, Unchanged, Failed
<1>13. CASE UNCHANGED vars
  BY <1>13, <1>d DEF vars
<1> QED BY <1>1, <1>2, <1>3, <1>4, <1>5, <1>6, <1>7, <1>8, <1>9, <1>10, <1>11, <1>12, <1>13
        DEF Next, Handle

-----------------------------------------------------------------------------
(***************************************************************************)
(* Etag and cached catalog stay those of one answer.                       *)
(***************************************************************************)
LEMMA EtagNext ==
  ASSUME TypeOK, TypeOK', EtagVouchesUnlessClash, [Next]_vars
  PROVE  EtagVouchesUnlessClash'
<1> DEFINE Vouches(row, c) == row.etag # None /\ c # None => row.etag = c
<1>a. /\ rows \in [Ids -> Rows \cup {None}] /\ cache \in [Ids -> Catalogs \cup {None}]
      /\ clashed \subseteq Ids /\ nextId \in Nat
  BY CatalogAssumption DEF TypeOK
<1>b. \A s \in Ids : rows[s] # None /\ s \notin clashed => Vouches(rows[s], cache[s])
  BY DEF EtagVouchesUnlessClash, Live
<1>c. ASSUME \A s \in Ids : rows'[s] # None /\ s \notin clashed' => Vouches(rows'[s], cache'[s])
      PROVE  EtagVouchesUnlessClash'
  BY <1>c DEF EtagVouchesUnlessClash, Live
<1>d. ASSUME UNCHANGED <<rows, cache, clashed>> PROVE EtagVouchesUnlessClash'
  BY <1>b, <1>c, <1>d
<1>e. ASSUME NEW s \in Ids, NEW row, NEW c, rows' = [rows EXCEPT ![s] = row], cache' = [cache EXCEPT ![s] = c],
             clashed \ {s} \subseteq clashed', row # None /\ s \notin clashed' => Vouches(row, c)
      PROVE  EtagVouchesUnlessClash'
  <2>1. ASSUME NEW t \in Ids, rows'[t] # None, t \notin clashed' PROVE Vouches(rows'[t], cache'[t])
    <3>1. CASE t = s
      BY <1>a, <1>e, <2>1, <3>1
    <3>2. CASE t # s
      <4>1. rows'[t] = rows[t] /\ cache'[t] = cache[t] /\ t \notin clashed
        BY <1>a, <1>e, <2>1, <3>2
      <4> QED BY <1>b, <2>1, <4>1
    <3> QED BY <3>1, <3>2
  <2> QED BY <1>c, <2>1
<1>f. \A s \in Ids : cache = [cache EXCEPT ![s] = cache[s]] /\ rows = [rows EXCEPT ![s] = rows[s]]
  BY <1>a
<1>1. CASE EnsureDefault
  <2> DEFINE row == NewRow(Head(DefaultUrls), TRUE, None)
  <2>1. row.etag = None
    BY DEF NewRow
  <2>2. nextId \in Ids /\ rows' = [rows EXCEPT ![nextId] = row] /\ cache' = cache /\ clashed' = clashed
    BY <1>1 DEF EnsureDefault, Insert, NewId
  <2> HIDE DEF row
  <2>3. cache' = [cache EXCEPT ![nextId] = cache[nextId]]
    BY <1>f, <2>2
  <2> QED BY <1>e, <2>1, <2>2, <2>3
<1>2. ASSUME NEW s \in Ids, NEW b \in BOOLEAN, SetEnabled(s, b) PROVE EtagVouchesUnlessClash'
  <2> DEFINE row == [rows[s] EXCEPT !.enabled = b]
  <2>1. rows' = [rows EXCEPT ![s] = row] /\ s \in Live /\ cache' = cache /\ clashed' = clashed
    BY <1>2 DEF SetEnabled
  <2>2. rows[s] \in Rows /\ row.etag = rows[s].etag
    BY <1>a, <2>1 DEF Live, Rows
  <2> HIDE DEF row
  <2>3. cache' = [cache EXCEPT ![s] = cache[s]]
    BY <1>f, <2>1
  <2>4. s \notin clashed => Vouches(row, cache[s])
    BY <1>b, <2>1, <2>2 DEF Live
  <2> QED BY <1>e, <2>1, <2>3, <2>4
<1>3. ASSUME NEW s \in Ids, Delete(s) PROVE EtagVouchesUnlessClash'
  <2>1. /\ cache' = [cache EXCEPT ![s] = None] /\ clashed' = clashed
        /\ rows' = rows \/ rows' = [rows EXCEPT ![s] = None]
    BY <1>3 DEF Delete
  <2> QED BY <1>e, <1>f, <2>1
<1>4. ASSUME NEW j \in Callers, NEW s \in Ids, Refresh(j, s) PROVE EtagVouchesUnlessClash'
  <2> DEFINE row == [rows[s] EXCEPT !.etag = None]
  <2>1. rows' = [rows EXCEPT ![s] = row] /\ s \in Live /\ cache' = cache /\ clashed' = clashed
    BY <1>4 DEF Refresh, Enabled
  <2>2. rows[s] \in Rows /\ row.etag = None
    BY <1>a, <2>1 DEF Live, Rows
  <2> HIDE DEF row
  <2>3. cache' = [cache EXCEPT ![s] = cache[s]]
    BY <1>f, <2>1
  <2> QED BY <1>e, <2>1, <2>2, <2>3
<1>5. ASSUME NEW j \in Jobs, Fresh(j) PROVE EtagVouchesUnlessClash'
  <2> DEFINE s == calls[j].src
             c == calls[j].body
             row == IF rows[s] = None THEN None ELSE [rows[s] EXCEPT !.etag = EtagOf(c)]
  <2>1. s \in Ids
    BY <1>5 DEF Fresh, Refreshing, TypeOK, CallOK, Call0
  <2>2. cache' = [cache EXCEPT ![s] = c] /\ clashed' = clashed \ {s}
    BY <1>5 DEF Fresh
  <2>3. rows' = [rows EXCEPT ![s] = row]
    BY <1>5, <1>f, <2>1 DEF Fresh, Synced
  <2>4. row # None => Vouches(row, c)
    <3> SUFFICES ASSUME rows[s] # None PROVE row.etag = EtagOf(c)
      BY DEF EtagOf
    <3>1. rows[s] \in Rows
      BY <1>a, <2>1
    <3> QED BY <3>1 DEF Rows
  <2> HIDE DEF row, s, c
  <2> QED BY <1>e, <2>1, <2>2, <2>3, <2>4
<1>6. ASSUME NEW j \in Jobs, FinishCreate(j) PROVE EtagVouchesUnlessClash'
  <2> DEFINE c == calls[j].body
             row == NewRow(c.url, FALSE, EtagOf(c))
  <2>1. CASE calls[j].status = "ok" /\ ~Taken(c.url, 0)
    <3>1. nextId \in Ids /\ Insert(NewId, row, c, {c.url}) /\ c # None
      BY <1>6, <2>1 DEF FinishCreate, TypeOK, CallOK
    <3>2. cache' = [cache EXCEPT ![nextId] = c] /\ rows' = [rows EXCEPT ![nextId] = row] /\ clashed' = clashed
      BY <1>6, <3>1 DEF FinishCreate, Insert, NewId
    <3>3. Vouches(row, c)
      BY DEF NewRow, EtagOf
    <3> HIDE DEF row, c
    <3> QED BY <1>e, <3>1, <3>2, <3>3
  <2>2. CASE ~(calls[j].status = "ok" /\ ~Taken(c.url, 0))
    BY <1>6, <1>d, <2>2 DEF FinishCreate
  <2> QED BY <2>1, <2>2
<1>7. ASSUME NEW j \in Jobs, FinishEdit(j) PROVE EtagVouchesUnlessClash'
  <2> DEFINE s == calls[j].src
             c == calls[j].body
  <2>1. s \in Ids
    BY <1>7 DEF FinishEdit, TypeOK, CallOK, Call0
  <2>2. CASE calls[j].status # "ok"
    BY <1>7, <1>d, <2>2 DEF FinishEdit
  <2>3. CASE calls[j].status = "ok" /\ s \in Live /\ Taken(c.url, s)
    <3>1. cache' = [cache EXCEPT ![s] = c] /\ rows' = rows /\ clashed' = clashed \cup {s}
      BY <1>7, <2>3 DEF FinishEdit
    <3> HIDE DEF s, c
    <3>2. rows' = [rows EXCEPT ![s] = rows[s]]
      BY <1>f, <2>1, <3>1
    <3>3. clashed \ {s} \subseteq clashed' /\ s \in clashed'
      BY <3>1
    <3> QED BY <1>e, <2>1, <3>1, <3>2, <3>3
  <2>4. CASE calls[j].status = "ok" /\ s \notin Live
    <3>1. cache' = [cache EXCEPT ![s] = c] /\ rows' = rows /\ clashed' = clashed \ {s} /\ rows[s] = None
      BY <1>7, <2>1, <2>4 DEF FinishEdit, Live
    <3> HIDE DEF s, c
    <3>2. rows' = [rows EXCEPT ![s] = rows[s]]
      BY <1>f, <2>1, <3>1
    <3> QED BY <1>e, <2>1, <3>1, <3>2
  <2>5. CASE calls[j].status = "ok" /\ s \in Live /\ ~Taken(c.url, s)
    <3> DEFINE row == [rows[s] EXCEPT !.url = c.url, !.etag = EtagOf(c)]
    <3>1. cache' = [cache EXCEPT ![s] = c] /\ clashed' = clashed \ {s}
      BY <1>7, <2>5 DEF FinishEdit
    <3>3. rows[s] \in Rows
      BY <1>a, <2>5 DEF Live
    <3>4. rows' = [rows EXCEPT ![s] = row]
      BY <1>7, <2>5 DEF FinishEdit
    <3>5. Vouches(row, c)
      BY <3>3 DEF Rows, EtagOf
    <3> HIDE DEF row, s, c
    <3> QED BY <1>e, <2>1, <3>1, <3>4, <3>5
  <2> QED BY <2>2, <2>3, <2>4, <2>5
<1>8. CASE Crash
  BY <1>8, <1>a, <1>c DEF Crash
<1>9. CASE \E j \in Callers, u \in Urls : StartCreate(j, u)
  BY <1>9, <1>d DEF StartCreate
<1>10. CASE \E j \in Callers, s \in Ids, u \in Urls : StartEdit(j, s, u)
  BY <1>10, <1>d DEF StartEdit
<1>11. CASE \E j \in Callers, s \in Ids : Load(j, s)
  BY <1>11, <1>d DEF Load
<1>12. CASE CronTick \/ CronNext
  BY <1>12, <1>d DEF CronTick, CronNext
<1>13. CASE \E j \in Jobs : Fetch(j) \/ Unchanged(j) \/ Failed(j)
  BY <1>13, <1>d DEF Fetch, Unchanged, Failed
<1>14. CASE UNCHANGED vars
  BY <1>14, <1>d DEF vars
<1> QED BY <1>1, <1>2, <1>3, <1>4, <1>5, <1>6, <1>7, <1>8, <1>9, <1>10, <1>11, <1>12, <1>13,
           <1>14 DEF Next, Handle

-----------------------------------------------------------------------------
(***************************************************************************)
(* The inductive invariant, and what follows from it.                      *)
(***************************************************************************)
LEMMA InitInv == Init => IInv
<1> SUFFICES ASSUME Init PROVE IInv
  OBVIOUS
<1>1. TypeOK
  BY NoCallType, CatalogAssumption DEF Init, TypeOK
<1>2. RowsOwn /\ CacheOwn /\ PendingOwn /\ EtagVouchesUnlessClash
  BY DEF Init, RowsOwn, CacheOwn, PendingOwn, EtagVouchesUnlessClash, Live
<1>3. CallsOwn
  BY DEF Init, CallsOwn, CallOwn, NoCall
<1> QED BY <1>1, <1>2, <1>3 DEF IInv

LEMMA InvNext == IInv /\ [Next]_vars => IInv'
BY TypeNext, GrowsNext, RowsOwnNext, CacheOwnNext, CallsOwnNext, PendingOwnNext, EtagNext DEF IInv

(***************************************************************************)
(* IInv holds in every reachable state.                                    *)
(***************************************************************************)
THEOREM Invariance == Spec => []IInv
BY InitInv, InvNext, PTL DEF Spec

(***************************************************************************)
(* Rows, cache, calls and the list of the cron loop keep their shapes.     *)
(***************************************************************************)
THEOREM TypeCorrect == Spec => []TypeOK
<1>1. IInv => TypeOK
  BY DEF IInv
<1> QED BY Invariance, <1>1, PTL

(***************************************************************************)
(* No source ever offers a catalog from an address not given for it, so    *)
(* nothing fetched for a deleted source reaches another.                   *)
(***************************************************************************)
THEOREM OwnAddressesCorrect == Spec => []OwnAddressesOnly
<1>1. IInv => OwnAddressesOnly
  BY DEF IInv, CacheOwn, OwnAddressesOnly, Live
<1> QED BY Invariance, <1>1, PTL

(***************************************************************************)
(* But for a failed edit, a 304 vouches for the catalog that is cached.    *)
(***************************************************************************)
THEOREM EtagCorrect == Spec => []EtagVouchesUnlessClash
<1>1. IInv => EtagVouchesUnlessClash
  BY DEF IInv
<1> QED BY Invariance, <1>1, PTL

\* One step: a catalog is lost by a restart or a deletion only.
LEMMA KeptNext ==
  ASSUME TypeOK, [Next]_vars, NEW s \in Ids, cache[s] # None, cache'[s] = None
  PROVE  Crash \/ Delete(s)
<1>a. cache \in [Ids -> Catalogs \cup {None}]
  BY DEF TypeOK
<1>b. cache' # cache
  OBVIOUS
<1>1. ASSUME NEW t \in Ids, Delete(t) PROVE s = t
  BY <1>1, <1>a DEF Delete
<1>2. ASSUME NEW j \in Jobs, Fresh(j) PROVE FALSE
  <2>1. calls[j].body # None /\ cache' = [cache EXCEPT ![calls[j].src] = calls[j].body]
    BY <1>2 DEF Fresh, Refreshing, TypeOK, CallOK
  <2> QED BY <1>a, <2>1
<1>3. ASSUME NEW j \in Jobs, FinishCreate(j) PROVE FALSE
  <2>1. CASE calls[j].status = "ok" /\ ~Taken(calls[j].body.url, 0)
    <3>1. calls[j].body # None /\ cache' = [cache EXCEPT ![nextId] = calls[j].body]
      BY <1>3, <2>1 DEF FinishCreate, Insert, NewId, TypeOK, CallOK
    <3> QED BY <1>a, <3>1
  <2>2. CASE ~(calls[j].status = "ok" /\ ~Taken(calls[j].body.url, 0))
    BY <1>3, <1>b, <2>2 DEF FinishCreate
  <2> QED BY <2>1, <2>2
<1>4. ASSUME NEW j \in Jobs, FinishEdit(j) PROVE FALSE
  <2>1. CASE calls[j].status = "ok"
    <3>1. calls[j].body # None /\ cache' = [cache EXCEPT ![calls[j].src] = calls[j].body]
      BY <1>4, <2>1 DEF FinishEdit, TypeOK, CallOK
    <3> QED BY <1>a, <3>1
  <2>2. CASE calls[j].status # "ok"
    BY <1>4, <1>b, <2>2 DEF FinishEdit
  <2> QED BY <2>1, <2>2
<1>5. CASE EnsureDefault
  BY <1>5, <1>b DEF EnsureDefault, Insert
<1>6. CASE \E t \in Ids, b \in BOOLEAN : SetEnabled(t, b)
  BY <1>6, <1>b DEF SetEnabled
<1>7. CASE \E j \in Callers, u \in Urls : StartCreate(j, u)
  BY <1>7, <1>b DEF StartCreate
<1>8. CASE \E j \in Callers, t \in Ids, u \in Urls : StartEdit(j, t, u)
  BY <1>8, <1>b DEF StartEdit
<1>9. CASE \E j \in Callers, t \in Ids : Load(j, t) \/ Refresh(j, t)
  BY <1>9, <1>b DEF Load, Refresh
<1>10. CASE CronTick \/ CronNext
  BY <1>10, <1>b DEF CronTick, CronNext
<1>11. CASE \E j \in Jobs : Fetch(j) \/ Unchanged(j) \/ Failed(j)
  BY <1>11, <1>b DEF Fetch, Unchanged, Failed
<1>12. CASE UNCHANGED vars
  BY <1>12, <1>b DEF vars
<1> QED BY <1>1, <1>2, <1>3, <1>4, <1>5, <1>6, <1>7, <1>8, <1>9, <1>10, <1>11, <1>12 DEF Next, Handle

(***************************************************************************)
(* A source that has a catalog keeps one, and its callers are given one.   *)
(***************************************************************************)
THEOREM CatalogKeptCorrect == Spec => CatalogKept
<1> DEFINE Keeps == /\ \A s \in Ids : cache[s] # None /\ cache'[s] = None => Crash \/ Delete(s)
                    /\ \A j \in Jobs : Returns(j) /\ cache[calls[j].src] # None => Result(calls[j]) # None
<1>1. IInv /\ [Next]_vars => [Keeps]_vars
  <2> SUFFICES ASSUME IInv, [Next]_vars PROVE Keeps
    OBVIOUS
  <2>1. TypeOK
    BY DEF IInv
  <2>2. \A s \in Ids : cache[s] # None /\ cache'[s] = None => Crash \/ Delete(s)
    BY <2>1, KeptNext
  <2>3. ASSUME NEW j \in Jobs, Returns(j), cache[calls[j].src] # None PROVE Result(calls[j]) # None
    BY <2>1, <2>3 DEF Returns, Refreshing, Result, TypeOK, CallOK
  <2> QED BY <2>2, <2>3
<1>2. Spec => [][Keeps]_vars
  BY Invariance, <1>1, PTL DEF Spec
<1> QED BY <1>2 DEF CatalogKept
=============================================================================
