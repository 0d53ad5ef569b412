------------------------ MODULE BrowserRenderProps ------------------------
(***************************************************************************)
(* What the browser-rendering limiter promises in each of its builds.      *)
(***************************************************************************)
EXTENDS BrowserRender

Buckets == [cool : 0..Interval, exhausted : BOOLEAN, life : 1..KvTtl]
Maps == [Accounts -> Buckets \cup {None}]

Scans ==
  [todo : SUBSET Accounts, map : Maps, cooling : BOOLEAN, knew : SUBSET Accounts]

ReqSet ==
  [pc : {"done", "scan", "claim", "call", "mark", "row", "again"}, acct : Accounts \cup {None},
   direct : BOOLEAN, tried : BOOLEAN, scan : Scans,
   reply : {"other", "all_exhausted"}]

\* A request that has an account to call or to mark has one; only the Worker scans and writes one by one.
ReqOK(q) ==
  /\ q \in ReqSet
  /\ q.pc \in {"claim", "call", "mark", "row", "again"} => q.acct \in Accounts
  /\ store = "memory" => q.pc \in {"done", "call"}
  /\ q.pc = "mark" => store = "kv"

(***************************************************************************)
(* The type invariant: buckets, rows and requests have the shapes of       *)
(* AccountBucket, quota_usage and the handler's locals, and only the       *)
(* server's build has a timer to wait for.                                 *)
(***************************************************************************)
TypeOK ==
  /\ store \in Stores
  /\ accounts \in [Accounts -> {"active", "inactive", "deleted"}]
  /\ bucket \in Maps
  /\ marked \subseteq Accounts
  /\ due \in BOOLEAN
  /\ due => store = "memory"
  /\ reqs \in [Requests -> ReqSet]
  /\ \A r \in Requests : ReqOK(reqs[r])
  /\ edits \in 0..MaxEdits[store]
  /\ restarts \in 0..MaxRestarts
  /\ gap \in [Accounts -> 0..Interval]
  /\ held \subseteq Accounts
  /\ refused \subseteq Accounts

\* The limiter hands account a to request r.
SentTo(r, a) ==
  /\ Arrive(r) \/ LimitInMemory(r) \/ Claim(r)
  /\ reqs'[r].pc = "call" /\ reqs'[r].acct = a

(***************************************************************************)
(* In the server, two calls that the limiter hands to one account are an   *)
(* interval apart, whichever requests make them and however they fail,     *)
(* unless the bucket was lost in between to a restart or because somebody  *)
(* asked while the account was inactive (browserRateLimiter.ts:99-129).    *)
(***************************************************************************)
RateKept ==
  [][ \A r \in Requests, a \in Accounts : store = "memory" /\ SentTo(r, a) => gap[a] = 0 ]_vars

(***************************************************************************)
(* An account marked for the day is not handed out again that day: in the  *)
(* server as long as its bucket lives, in the Worker without KV to no      *)
(* request that begins to look for an account after it was marked.         *)
(***************************************************************************)
SkipsMarked(r, a) == a \notin (IF store = "memory" THEN held ELSE reqs[r].scan.knew)

MarkedSkipped ==
  [][ \A r \in Requests, a \in Accounts : store # "kv" /\ SentTo(r, a) => SkipsMarked(r, a) ]_vars

(***************************************************************************)
(* The server answers "all accounts are exhausted" only when each active   *)
(* account has itself refused for its daily limit since the last daily     *)
(* reset or restart, whatever was switched and deleted meanwhile.          *)
(***************************************************************************)
VerdictHonest ==
  [][ \A r \in Requests :
        store = "memory" /\ (Arrive(r) \/ LimitInMemory(r)) /\ reqs'[r].reply = "all_exhausted"
          => Active \subseteq refused' ]_vars

(***************************************************************************)
(* No account stays exhausted for ever: whatever late answers and restarts *)
(* do, the daily reset or the date frees it.                               *)
(***************************************************************************)
Exhausted(a) == IF store = "d1" THEN a \in marked ELSE bucket[a] # None /\ bucket[a].exhausted

ExhaustionEnds == \A a \in Accounts : Exhausted(a) ~> ~Exhausted(a)
=============================================================================
