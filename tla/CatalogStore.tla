---------------------------- MODULE CatalogStore ----------------------------
(***************************************************************************)
(* The catalog sources of the template store (routes/store.ts): the rows   *)
(* of catalog_sources, the catalogs cached in memory, and the calls that   *)
(* fetch them from the web with If-None-Match.  A call is one request (or  *)
(* one iteration of the six-hourly cron loop) for one source; it waits at  *)
(* every fetch, and rows and cache may change meanwhile.                   *)
(***************************************************************************)
EXTENDS Naturals, Sequences, FiniteSets

CONSTANTS
  Callers,      \* slots for concurrent requests
  Cron,         \* the slot of the cron loop
  Urls,         \* addresses a catalog can be fetched from
  DefaultUrls,  \* DEFAULT_CATALOG_URLS: the primary and its fallbacks
  Etagged,      \* the addresses whose server sends an ETag
  Steady,       \* the addresses that answer whenever they are asked
  Versions,     \* what an address may publish, at any time
  Empty,        \* the versions that are valid but hold no template
  None,         \* null
  MaxId,        \* bound on the ids AUTOINCREMENT hands out
  MaxEdits,     \* bound on the sources added, edited, switched and deleted
  MaxCrashes    \* bound on restarts of the process

ASSUME CatalogAssumption ==
  /\ Cron \notin Callers
  /\ DefaultUrls \in Seq(Urls) /\ DefaultUrls # <<>>
  /\ Etagged \subseteq Urls /\ Steady \subseteq Urls
  /\ Empty \subseteq Versions
  /\ MaxId \in Nat /\ MaxEdits \in Nat /\ MaxCrashes \in Nat
  /\ None \notin Versions /\ None \notin Urls
  /\ None \notin [url : Urls, ver : Versions]

VARIABLES
  rows,      \* catalog_sources, None where there is no row
  nextId,    \* the next id of AUTOINCREMENT
  cache,     \* catalogCache, lost by a restart
  calls,     \* what runs in each slot
  pending,   \* the rows the cron loop has read and not yet refreshed
  edits,
  crashes,
  asked,     \* history: the addresses ever given for each source
  clashed    \* history: the sources whose last edit failed on UNIQUE(url)

vars == <<rows, nextId, cache, calls, pending, edits, crashes, asked, clashed>>

Jobs == Callers \cup {Cron}
Ids == 1..MaxId
Catalogs == [url : Urls, ver : Versions]
Kinds == {"create", "edit", "load", "refresh"}

Live == {s \in Ids : rows[s] # None}
Enabled == {s \in Live : rows[s].enabled}
Taken(u, s) == \E t \in Live \ {s} : rows[t].url = u
Idle == {j \in Callers : calls[j].at = "idle"}

(***************************************************************************)
(* What a call keeps of its row: refreshSource works on the row it was     *)
(* given, however old it is when the fetch begins or ends.                 *)
(***************************************************************************)
CandidateUrls(row) == IF row.default THEN DefaultUrls ELSE <<row.url>>
Ask(u, tag) == [url |-> u, tag |-> tag]

\* The etag goes to the address of the row only.
Snapshot(s) ==
  LET row == rows[s]
      urls == CandidateUrls(row)
  IN  [src |-> s,
       left |-> [i \in DOMAIN urls |-> Ask(urls[i], IF urls[i] = row.url THEN row.etag ELSE None)]]

Call(kind, snap) ==
  [kind |-> kind, src |-> snap.src, left |-> snap.left, at |-> "ask", status |-> "none", body |-> None]

NoCall == [kind |-> "load", src |-> 0, left |-> <<>>, at |-> "idle", status |-> "none", body |-> None]

\* What refreshSource returns: the catalog just fetched, else whatever is cached by now, be it nothing.
Result(call) == IF call.status = "ok" THEN call.body ELSE cache[call.src]

HasTemplates(c) == c # None /\ c.ver \notin Empty
EtagOf(c) == IF c.url \in Etagged THEN c ELSE None

Init ==
  /\ rows = [s \in Ids |-> None]
  /\ nextId = 1
  /\ cache = [s \in Ids |-> None]
  /\ calls = [j \in Jobs |-> NoCall]
  /\ pending = {}
  /\ edits = 0
  /\ crashes = 0
  /\ asked = [s \in Ids |-> {}]
  /\ clashed = {}

-----------------------------------------------------------------------------
(***************************************************************************)
(* The rows.                                                               *)
(***************************************************************************)
\* Mutant: without AUTOINCREMENT, SQLite takes the largest id in use plus one.
LargestIdPlusOne == CHOOSE n \in 1..(MaxId + 1) : (\A s \in Live : s < n) /\ (n = 1 \/ n - 1 \in Live)

NewId == nextId

NewRow(u, default, etag) == [url |-> u, default |-> default, enabled |-> TRUE, etag |-> etag]

Insert(id, row, c, urls) ==
  /\ rows' = [rows EXCEPT ![id] = row]
  /\ nextId' = id + 1
  /\ cache' = IF c = None THEN cache ELSE [cache EXCEPT ![id] = c]
  /\ asked' = [asked EXCEPT ![id] = urls]

\* One operation of the administrator, bounded.
Edit == edits < MaxEdits /\ edits' = edits + 1

\* GET /init: the official source is inserted unless it is there, or its address is taken.
EnsureDefault ==
  /\ Edit
  /\ nextId \in Ids
  /\ \A s \in Live : ~rows[s].default /\ rows[s].url # Head(DefaultUrls)
  /\ LET u == Head(DefaultUrls) IN
       Insert(NewId, NewRow(u, TRUE, None), None, {DefaultUrls[i] : i \in DOMAIN DefaultUrls})
  /\ UNCHANGED <<calls, pending, crashes, clashed>>

\* PUT /sources/:id that keeps the address: the row is updated at once.
SetEnabled(s, b) ==
  /\ Edit
  /\ s \in Live /\ rows[s].enabled # b
  /\ rows' = [rows EXCEPT ![s].enabled = b]
  /\ UNCHANGED <<nextId, cache, calls, pending, crashes, asked, clashed>>

\* DELETE /sources/:id: the official row stays, but its catalog is dropped all the same.
Delete(s) ==
  /\ Edit
  /\ s \in Live
  /\ rows' = IF rows[s].default THEN rows ELSE [rows EXCEPT ![s] = None]
  /\ cache' = [cache EXCEPT ![s] = None]
  /\ UNCHANGED <<nextId, calls, pending, crashes, asked, clashed>>

-----------------------------------------------------------------------------
(***************************************************************************)
(* The requests, up to their first fetch.                                  *)
(***************************************************************************)
Begin(j, call) == calls' = [calls EXCEPT ![j] = call]

\* POST /sources with a new address.
StartCreate(j, u) ==
  /\ Edit
  /\ j \in Idle
  /\ Begin(j, Call("create", [src |-> 0, left |-> <<Ask(u, None)>>]))
  /\ UNCHANGED <<rows, nextId, cache, pending, crashes, asked, clashed>>

\* PUT /sources/:id with a new address, forbidden for the official source.
StartEdit(j, s, u) ==
  /\ Edit
  /\ j \in Idle /\ s \in Live /\ ~rows[s].default /\ rows[s].url # u
  /\ Begin(j, Call("edit", [src |-> s, left |-> <<Ask(u, None)>>]))
  /\ asked' = [asked EXCEPT ![s] = @ \cup {u}]
  /\ UNCHANGED <<rows, nextId, cache, pending, crashes, clashed>>

\* GET /templates, or the look-up before a deployment, for one enabled source.
\* It is answered from the cache, and refreshes in the background if last_synced is over five minutes old.
LoadCached(j, s) ==
  /\ HasTemplates(cache[s])
  /\ \/ Begin(j, NoCall)
     \/ Begin(j, Call("refresh", Snapshot(s)))

LoadFetching(j, s) ==
  /\ ~HasTemplates(cache[s])
  /\ Begin(j, Call("load", Snapshot(s)))

Load(j, s) ==
  /\ j \in Idle /\ s \in Enabled
  /\ LoadCached(j, s) \/ LoadFetching(j, s)
  /\ UNCHANGED <<rows, nextId, cache, pending, edits, crashes, asked, clashed>>

\* POST /refresh for one enabled source: the row's etag is erased, the one it read is still sent.
Refresh(j, s) ==
  /\ j \in Idle /\ s \in Enabled
  /\ Begin(j, Call("refresh", Snapshot(s)))
  /\ rows' = [rows EXCEPT ![s].etag = None]
  /\ UNCHANGED <<nextId, cache, pending, edits, crashes, asked, clashed>>

\* The cron loop reads all enabled rows, then refreshes one after the other (in any order here).
CronTick ==
  /\ pending = {} /\ calls[Cron].at = "idle"
  /\ pending' = {Snapshot(s) : s \in Enabled}
  /\ UNCHANGED <<rows, nextId, cache, calls, edits, crashes, asked, clashed>>

CronNext ==
  /\ calls[Cron].at = "idle"
  /\ \E snap \in pending :
       /\ Begin(Cron, Call("refresh", snap))
       /\ pending' = pending \ {snap}
  /\ UNCHANGED <<rows, nextId, cache, edits, crashes, asked, clashed>>

-----------------------------------------------------------------------------
(***************************************************************************)
(* A fetch and what follows it.                                            *)
(***************************************************************************)
Got(j, status, c) == Begin(j, [calls[j] EXCEPT !.at = "got", !.left = Tail(@), !.status = status, !.body = c])

\* The server at the head of the list answers with what it publishes now, or fails or answers nonsense.
Fetch(j) ==
  LET ask == Head(calls[j].left) IN
  /\ calls[j].at = "ask"
  /\ \/ ask.url \notin Steady /\ Got(j, "failed", None)
     \/ \E c \in [url : {ask.url}, ver : Versions] :
          IF EtagOf(c) # None /\ ask.tag = c THEN Got(j, "unchanged", None) ELSE Got(j, "ok", c)
  /\ UNCHANGED <<rows, nextId, cache, pending, edits, crashes, asked, clashed>>

Refreshing(j) == calls[j].at = "got" /\ calls[j].kind \notin {"create", "edit"}
\* Mutant: an answer without ETag leaves the old one in the row.
SyncedIfTagged(s, etag) ==
  IF rows[s] = None \/ etag = None THEN rows ELSE [rows EXCEPT ![s].etag = etag]

Synced(s, etag) == IF rows[s] = None THEN rows ELSE [rows EXCEPT ![s].etag = etag]

\* 304: the row is marked as synchronised and keeps its etag.
Unchanged(j) ==
  /\ Refreshing(j) /\ calls[j].status = "unchanged"
  /\ Begin(j, NoCall)
  /\ UNCHANGED <<rows, nextId, cache, pending, edits, crashes, asked, clashed>>

\* The catalog is cached, also when the source has been deleted, and the row takes its etag.
Fresh(j) ==
  LET s == calls[j].src
      c == calls[j].body
  IN
  /\ Refreshing(j) /\ calls[j].status = "ok"
  /\ cache' = [cache EXCEPT ![s] = c]
  /\ rows' = Synced(s, EtagOf(c))
  /\ clashed' = clashed \ {s}
  /\ Begin(j, NoCall)
  /\ UNCHANGED <<nextId, pending, edits, crashes, asked>>

\* Mutant: the first failure ends the call.
FailedGivesUp(j) ==
  /\ Refreshing(j) /\ calls[j].status = "failed"
  /\ Begin(j, NoCall)
  /\ UNCHANGED <<rows, nextId, cache, pending, edits, crashes, asked, clashed>>

\* Mutant: when every address has failed the cached catalog is dropped.
FailedForgets(j) ==
  /\ Refreshing(j) /\ calls[j].status = "failed" /\ calls[j].left = <<>>
  /\ Begin(j, NoCall)
  /\ cache' = [cache EXCEPT ![calls[j].src] = None]
  /\ UNCHANGED <<rows, nextId, pending, edits, crashes, asked, clashed>>

\* The next address is tried; after the last one the cached catalog is returned.
Failed(j) ==
  /\ Refreshing(j) /\ calls[j].status = "failed"
  /\ Begin(j, IF calls[j].left # <<>>
              THEN [calls[j] EXCEPT !.at = "ask", !.status = "none"]
              ELSE NoCall)
  /\ UNCHANGED <<rows, nextId, cache, pending, edits, crashes, asked, clashed>>

\* An address that cannot be fetched, or is taken by another row, is not added.
FinishCreate(j) ==
  LET c == calls[j].body IN
  /\ calls[j].at = "got" /\ calls[j].kind = "create"
  /\ Begin(j, NoCall)
  /\ IF calls[j].status = "ok" /\ ~Taken(c.url, 0)
     THEN nextId \in Ids /\ Insert(NewId, NewRow(c.url, FALSE, EtagOf(c)), c, {c.url})
     ELSE UNCHANGED <<rows, nextId, cache, asked>>
  /\ UNCHANGED <<pending, edits, crashes, clashed>>

\* The catalog is cached first; when another row has the address, the update of the row throws.
FinishEdit(j) ==
  LET s == calls[j].src
      c == calls[j].body
  IN
  /\ calls[j].at = "got" /\ calls[j].kind = "edit"
  /\ Begin(j, NoCall)
  /\ IF calls[j].status = "ok"
     THEN /\ cache' = [cache EXCEPT ![s] = c]
          /\ IF s \in Live /\ Taken(c.url, s)
             THEN clashed' = clashed \cup {s} /\ UNCHANGED rows
             ELSE /\ clashed' = clashed \ {s}
                  /\ rows' = IF s \in Live
                             THEN [rows EXCEPT ![s] = [@ EXCEPT !.url = c.url, !.etag = EtagOf(c)]]
                             ELSE rows
     ELSE UNCHANGED <<rows, cache, clashed>>
  /\ UNCHANGED <<nextId, pending, edits, crashes, asked>>

-----------------------------------------------------------------------------
\* A restart loses the cache and every call; the rows, their etags included, stay.
Crash ==
  /\ crashes < MaxCrashes
  /\ crashes' = crashes + 1
  /\ cache' = [s \in Ids |-> None]
  /\ calls' = [j \in Jobs |-> NoCall]
  /\ pending' = {}
  /\ clashed' = {}
  /\ UNCHANGED <<rows, nextId, edits, asked>>

Handle(j) == Fetch(j) \/ Unchanged(j) \/ Fresh(j) \/ Failed(j) \/ FinishCreate(j) \/ FinishEdit(j)

Next ==
  \/ EnsureDefault
  \/ \E s \in Ids : Delete(s)
  \/ \E s \in Ids, b \in BOOLEAN : SetEnabled(s, b)
  \/ \E j \in Callers, u \in Urls : StartCreate(j, u)
  \/ \E j \in Callers, s \in Ids, u \in Urls : StartEdit(j, s, u)
  \/ \E j \in Callers, s \in Ids : Load(j, s) \/ Refresh(j, s)
  \/ CronTick \/ CronNext
  \/ \E j \in Jobs : Handle(j)
  \/ Crash

Spec == Init /\ [][Next]_vars

\* Fetches time out (undici's defaults) and node-cron fires every six hours; nobody else must act.
FairSpec == Spec /\ WF_vars(CronTick) /\ WF_vars(CronNext) /\ WF_vars(Handle(Cron))
=============================================================================
