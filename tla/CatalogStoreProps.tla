------------------------- MODULE CatalogStoreProps -------------------------
(***************************************************************************)
(* What the catalog sources promise.                                       *)
(***************************************************************************)
EXTENDS CatalogStore

Rows == [url : Urls, default : BOOLEAN, enabled : BOOLEAN, etag : Catalogs \cup {None}]

Asks == [url : Urls, tag : Catalogs \cup {None}]

Snapshots == [src : Ids, left : Seq(Asks)]

Call0 ==
  [kind : Kinds, src : Ids \cup {0}, left : Seq(Asks),
   at : {"idle", "ask", "got"}, status : {"none", "failed", "unchanged", "ok"},
   body : Catalogs \cup {None}]

\* A call that waits has an address left to ask; a 200 has brought a catalog; only POST /sources has no row.
CallOK(c) ==
  /\ c \in Call0
  /\ c.at = "ask" => c.left # <<>>
  /\ c.at # "idle" => (c.src = 0 <=> c.kind = "create")
  /\ c.at = "got" => c.status \in {"failed", "unchanged", "ok"} /\ (c.status = "ok" <=> c.body # None)

(***************************************************************************)
(* The type invariant: rows, cache, calls and the cron loop's list have    *)
(* the shapes of their tables and of refreshSource's locals.               *)
(***************************************************************************)
TypeOK ==
  /\ rows \in [Ids -> Rows \cup {None}]
  /\ nextId \in 1..(MaxId + 1)
  /\ cache \in [Ids -> Catalogs \cup {None}]
  /\ calls \in [Jobs -> Call0]
  /\ \A j \in Jobs : CallOK(calls[j])
  /\ pending \subseteq Snapshots /\ \A snap \in pending : snap.left # <<>>
  /\ edits \in 0..MaxEdits
  /\ crashes \in 0..MaxCrashes
  /\ asked \in [Ids -> SUBSET Urls]
  /\ clashed \subseteq Ids

(***************************************************************************)
(* A source offers only catalogs from an address somebody gave for that    *)
(* very source, whatever fetches of deleted sources and earlier addresses  *)
(* are still under way (store.ts:191 caches under an id read before the    *)
(* fetch; db.ts:89 never hands out an id twice).                           *)
(***************************************************************************)
OwnAddressesOnly ==
  \A s \in Live : cache[s] # None => cache[s].url \in asked[s]

(***************************************************************************)
(* The etag in a row and the catalog in the cache come from one answer,    *)
(* so a 304 vouches for what is cached (store.ts:174-193), but for a       *)
(* source whose last edit failed on the unique address.                    *)
(***************************************************************************)
EtagVouchesUnlessClash ==
  \A s \in Live \ clashed :
    rows[s].etag # None /\ cache[s] # None => rows[s].etag = cache[s]

(***************************************************************************)
(* Nothing but a deletion or a restart takes a source's catalog away, and  *)
(* a call that ends while its source has one returns one, whichever        *)
(* addresses fail (store.ts:200-201).                                      *)
(***************************************************************************)
Returns(j) == Refreshing(j) /\ calls'[j].at = "idle" /\ ~Crash

CatalogKept ==
  [][ /\ \A s \in Ids : cache[s] # None /\ cache'[s] = None => Crash \/ Delete(s)
      /\ \A j \in Jobs : Returns(j) /\ cache[calls[j].src] # None => Result(calls[j]) # None ]_vars

(***************************************************************************)
(* A source without catalog and without etag gets one as long as one of    *)
(* its addresses keeps answering: the cron loop goes on to the fallbacks,  *)
(* whatever the others do and whoever edits meanwhile (store.ts:162-202).  *)
(***************************************************************************)
AnsweredFor(s) ==
  s \in Enabled /\ \E i \in DOMAIN CandidateUrls(rows[s]) : CandidateUrls(rows[s])[i] \in Steady

SourceRecovers ==
  \A s \in Ids :
    []( (s \in Live /\ rows[s].etag = None /\ []AnsweredFor(s)) => <>(cache[s] # None) )
=============================================================================
