--------------------------- MODULE BrowserRender ---------------------------
(***************************************************************************)
(* Browser rendering: the limiter that hands out accounts, one call per    *)
(* account and interval, and the handler that renders with them.  The      *)
(* product has two builds with the same handler: the server keeps the      *)
(* limiter's buckets in a Map ("memory") and acquires in one synchronous   *)
(* step; the Cloudflare Worker keeps them in KV ("kv") or, without KV, in  *)
(* a settings row of D1 ("d1"), and other requests run at every await.     *)
(***************************************************************************)
EXTENDS Integers

CONSTANTS
  Accounts,
  Requests,     \* slots for concurrent requests
  Stores,       \* the builds considered
  None,         \* no bucket
  Interval,     \* TOKEN_INTERVAL_MS, in ticks
  KvTtl,        \* KV_TOKEN_TTL_SEC, in ticks
  MaxEdits,     \* bounds, by build, on the accounts switched and deleted
  MaxRestarts   \* bound on restarts of the process

ASSUME BrowserAssumption ==
  /\ Stores \subseteq {"memory", "kv", "d1"}
  /\ Interval \in Nat \ {0} /\ KvTtl \in Nat \ {0}
  /\ MaxEdits \in [Stores -> Nat] /\ MaxRestarts \in Nat
  /\ None \notin [cool : 0..Interval, exhausted : BOOLEAN, life : 1..KvTtl]

VARIABLES
  store,     \* the build that runs
  accounts,  \* active (with the feature), inactive or deleted
  bucket,    \* the limiter's bucket of each account
  marked,    \* quota_usage: the accounts marked exhausted today
  due,       \* midnight has passed and the daily reset has not yet run
  reqs,
  edits,
  restarts,
  gap,       \* history: ticks to go until an interval has passed since the last call of the server's limiter
  held,      \* history: the accounts marked today whose mark the limiter was never made to forget
  refused    \* history: the accounts that answered "daily limit" to the server since its daily reset or restart

vars == <<store, accounts, bucket, marked, due, reqs, edits, restarts, gap, held, refused>>

Active == {a \in Accounts : accounts[a] = "active"}
Bucket(cool, exhausted) == [cool |-> cool, exhausted |-> exhausted, life |-> KvTtl]
Full == Bucket(0, FALSE)
Read(b, a) == IF b[a] = None THEN Full ELSE b[a]

(***************************************************************************)
(* What a request keeps: the account it acquired, whether it was told      *)
(* which one to use, whether it retries, and where its scan of the         *)
(* accounts has got to; knew is history: what was held as the scan began.  *)
(***************************************************************************)
NoScan == [todo |-> {}, map |-> [a \in Accounts |-> None], cooling |-> FALSE, knew |-> {}]

Fresh == [pc |-> "done", acct |-> None, direct |-> FALSE, tried |-> FALSE, scan |-> NoScan, reply |-> "other"]

\* The answer that the properties tell from the others is "all accounts are exhausted for today".
Reply(r, code) == reqs' = [reqs EXCEPT ![r] = [Fresh EXCEPT !.reply = code]]
Done(r) == Reply(r, "other")

\* The request takes account a, and its call to Cloudflare is sent.
Calling(a, direct, tried) == [Fresh EXCEPT !.pc = "call", !.acct = a, !.direct = direct, !.tried = tried]
Send(r, a, tried) == reqs' = [reqs EXCEPT ![r] = Calling(a, FALSE, tried)]

Goto(r, pc) == reqs' = [reqs EXCEPT ![r].pc = pc]

Init ==
  /\ store \in Stores
  /\ accounts = [a \in Accounts |-> "active"]
  /\ bucket = [a \in Accounts |-> None]
  /\ marked = {}
  /\ due = FALSE
  /\ reqs = [r \in Requests |-> Fresh]
  /\ edits = 0
  /\ restarts = 0
  /\ gap = [a \in Accounts |-> 0]
  /\ held = {}
  /\ refused = {}

-----------------------------------------------------------------------------
(***************************************************************************)
(* Acquiring from memory, in the step of the handler that asks for it.     *)
(***************************************************************************)
\* ensureBuckets: a bucket for every active account and for no other.
EnsureBuckets(b) == [a \in Accounts |-> IF a \in Active THEN Read(b, a) ELSE None]

\* Mutant: an account that cools down does not count as available.
OpenIfCool(b) == {a \in Active : ~b[a].exhausted /\ b[a].cool = 0}

Open(b) == {a \in Active : ~b[a].exhausted}
Ready(b) == {a \in Open(b) : b[a].cool = 0}

\* The limiter forgets what a dropped bucket held.
Kept(b) == {a \in Accounts : b[a] # None}
Remembered(b) == [a \in Accounts |-> IF b[a] = None THEN 0 ELSE gap[a]]

\* Mutant: the token is not consumed.
Unconsumed(b, a) == b

Consume(b, a) == [b EXCEPT ![a] = [@ EXCEPT !.cool = Interval]]

\* acquireToken with the buckets b, whose marks of today are h.
Acquire(r, b, h, tried) ==
  /\ \/ \E a \in Ready(b) :
          /\ Send(r, a, tried)
          /\ bucket' = Consume(b, a)
          /\ gap' = [Remembered(b) EXCEPT ![a] = Interval]
     \/ /\ Ready(b) = {}
        /\ Reply(r, IF Open(b) = {} THEN "all_exhausted" ELSE "other")
        /\ bucket' = b
        /\ gap' = Remembered(b)
  /\ held' = h \cap Kept(b)

\* GET /status counts the available accounts; it drops and creates buckets as any acquisition does.
Status ==
  LET b == EnsureBuckets(bucket) IN
  /\ store = "memory"
  /\ bucket' = b /\ b # bucket
  /\ gap' = Remembered(b)
  /\ held' = held \cap Kept(b)
  /\ UNCHANGED <<store, accounts, marked, due, reqs, edits, restarts, refused>>

-----------------------------------------------------------------------------
(***************************************************************************)
(* Acquiring in the Worker: one account after the other, with an await for *)
(* every reading and writing of the store.                                 *)
(***************************************************************************)
\* The accounts are listed, and D1's map of last uses is read at once.
StartScan(r, tried) ==
  reqs' = [reqs EXCEPT ![r] =
    [Fresh EXCEPT !.pc = "scan", !.tried = tried,
                  !.scan = [NoScan EXCEPT !.todo = Active, !.knew = held,
                                          !.map = IF store = "d1" THEN bucket ELSE @]]]

\* Mutant: D1's rows are not read.
FoundInBucket(a) == Read(bucket, a).exhausted

\* What the scan finds for account a.
FoundExhausted(a) == IF store = "kv" THEN Read(bucket, a).exhausted ELSE a \in marked
FoundCool(r, a) == Read(IF store = "kv" THEN bucket ELSE reqs[r].scan.map, a).cool

Scan(r) ==
  LET scan == reqs[r].scan IN
  /\ reqs[r].pc = "scan"
  /\ \E a \in scan.todo :
       \/ /\ FoundExhausted(a)
          /\ reqs' = [reqs EXCEPT ![r].scan = [scan EXCEPT !.todo = @ \ {a}] ]
       \/ /\ ~FoundExhausted(a) /\ FoundCool(r, a) > 0
          /\ reqs' = [reqs EXCEPT ![r].scan = [scan EXCEPT !.todo = @ \ {a}, !.cooling = TRUE]]
       \/ /\ ~FoundExhausted(a) /\ FoundCool(r, a) = 0
          /\ reqs' = [reqs EXCEPT ![r] = [@ EXCEPT !.pc = "claim", !.acct = a]]
  /\ UNCHANGED <<store, accounts, bucket, marked, due, edits, restarts, gap, held, refused>>

\* The bucket is written, unexhausted, or the whole map as it was read; then the call is sent.
Claim(r) ==
  LET a == reqs[r].acct IN
  /\ reqs[r].pc = "claim"
  /\ bucket' = [(IF store = "kv" THEN bucket ELSE reqs[r].scan.map) EXCEPT ![a] = Bucket(Interval, FALSE)]
  /\ Send(r, a, reqs[r].tried)
  /\ UNCHANGED <<store, accounts, marked, due, edits, restarts, gap, held, refused>>

ScanEnds(r) ==
  /\ reqs[r].pc = "scan" /\ reqs[r].scan.todo = {}
  /\ Reply(r, IF reqs[r].scan.cooling THEN "other" ELSE "all_exhausted")
  /\ UNCHANGED <<store, accounts, bucket, marked, due, edits, restarts, gap, held, refused>>

-----------------------------------------------------------------------------
(***************************************************************************)
(* POST /render.                                                           *)
(***************************************************************************)
\* The account is left to the limiter.
Arrive(r) ==
  /\ reqs[r].pc = "done"
  /\ \/ store = "memory" /\ Acquire(r, EnsureBuckets(bucket), held, FALSE)
     \/ store # "memory" /\ StartScan(r, FALSE) /\ UNCHANGED <<bucket, gap, held>>
  /\ UNCHANGED <<store, accounts, marked, due, edits, restarts, refused>>

\* accountId is given: the limiter is not asked, and the account need not be active.
ArriveDirect(r, a) ==
  /\ reqs[r].pc = "done" /\ accounts[a] # "deleted"
  /\ reqs' = [reqs EXCEPT ![r] = Calling(a, TRUE, FALSE)]
  /\ UNCHANGED <<store, accounts, bucket, marked, due, edits, restarts, gap, held, refused>>

\* A rendering, or any failure but the daily limit: the answer goes to the client, and the limiter learns nothing.
Rendered(r) ==
  /\ reqs[r].pc = "call"
  /\ Done(r)
  /\ UNCHANGED <<store, accounts, bucket, marked, due, edits, restarts, gap, held, refused>>

\* The daily limit, met by a retry: nothing is marked.
LimitOnRetry(r) ==
  /\ reqs[r].pc = "call" /\ reqs[r].tried
  /\ Done(r)
  /\ refused' = IF store = "memory" THEN refused \cup {reqs[r].acct} ELSE refused
  /\ UNCHANGED <<store, accounts, bucket, marked, due, edits, restarts, gap, held>>

\* markAccountExhausted of the server: a bucket that is gone is not created.
MarkBucket(a) == IF bucket[a] = None THEN bucket ELSE [bucket EXCEPT ![a] = [@ EXCEPT !.exhausted = TRUE]]

\* The daily limit, in the server: mark, and acquire again, in one step.  On a deleted account the row's foreign key throws.
LimitInMemory(r) ==
  LET a == reqs[r].acct
      b == MarkBucket(a)
  IN
  /\ store = "memory"
  /\ reqs[r].pc = "call" /\ ~reqs[r].tried
  /\ refused' = refused \cup {a}
  /\ IF accounts[a] = "deleted"
     THEN Done(r) /\ bucket' = b /\ UNCHANGED <<marked, gap, held>>
     ELSE /\ marked' = marked \cup {a}
          /\ IF reqs[r].direct
             THEN Done(r) /\ bucket' = b /\ held' = (held \cup {a}) \cap Kept(b) /\ UNCHANGED gap
             ELSE Acquire(r, EnsureBuckets(b), (held \cup {a}) \cap Kept(b), TRUE)
  /\ UNCHANGED <<store, accounts, due, edits, restarts>>

\* The daily limit, in the Worker: KV's bucket is written, then the row, then the accounts are scanned again.
LimitInWorker(r) ==
  /\ store # "memory"
  /\ reqs[r].pc = "call" /\ ~reqs[r].tried
  /\ Goto(r, IF store = "kv" THEN "mark" ELSE "row")
  /\ UNCHANGED <<store, accounts, bucket, marked, due, edits, restarts, gap, held, refused>>

Mark(r) ==
  LET a == reqs[r].acct IN
  /\ reqs[r].pc = "mark"
  /\ bucket' = [bucket EXCEPT ![a] = Bucket(Read(bucket, a).cool, TRUE)]
  /\ Goto(r, "row")
  /\ UNCHANGED <<store, accounts, marked, due, edits, restarts, gap, held, refused>>

MarkRow(r) ==
  LET a == reqs[r].acct IN
  /\ reqs[r].pc = "row"
  /\ IF accounts[a] = "deleted"
     THEN Done(r) /\ UNCHANGED <<marked, held>>
     ELSE /\ marked' = marked \cup {a} /\ held' = held \cup {a}
          /\ IF reqs[r].direct THEN Done(r) ELSE Goto(r, "again")
  /\ UNCHANGED <<store, accounts, bucket, due, edits, restarts, gap, refused>>

Again(r) ==
  /\ reqs[r].pc = "again"
  /\ StartScan(r, TRUE)
  /\ UNCHANGED <<store, accounts, bucket, marked, due, edits, restarts, gap, held, refused>>

-----------------------------------------------------------------------------
(***************************************************************************)
(* The clock, the administrator and the process.                           *)
(***************************************************************************)
Acquiring == \E r \in Requests : reqs[r].pc \in {"scan", "claim"}
Less(n) == IF n = 0 THEN 0 ELSE n - 1

\* KV drops an entry at the end of its life.
Aged(b) ==
  IF b = None \/ (store = "kv" /\ b.life = 1) THEN None
  ELSE [b EXCEPT !.cool = Less(@), !.life = IF store = "kv" THEN @ - 1 ELSE @]

\* A tick is longer than a scan of the accounts.
Tick ==
  /\ ~Acquiring
  /\ bucket' = [a \in Accounts |-> Aged(bucket[a])]
  /\ gap' = [a \in Accounts |-> Less(gap[a])]
  /\ UNCHANGED <<store, accounts, marked, due, reqs, edits, restarts, held, refused>>

\* History: no mark of these accounts binds the scans any more.
Unknow(gone) == reqs' = [r \in Requests |-> [reqs[r] EXCEPT !.scan.knew = @ \ gone]]

\* The date changes: rows and entries of yesterday do not count; the server's Map waits for its timer.
Midnight ==
  /\ ~due
  /\ marked' = {}
  /\ IF store = "memory"
     THEN due' = TRUE /\ UNCHANGED <<bucket, reqs, held, refused>>
     ELSE /\ bucket' = [a \in Accounts |-> None]
          /\ held' = {}
          /\ Unknow(Accounts)
          /\ UNCHANGED <<due, refused>>
  /\ UNCHANGED <<store, accounts, edits, restarts, gap>>

\* Mutant: only the buckets of active accounts are reset.
DailyResetActive ==
  /\ due
  /\ due' = FALSE
  /\ bucket' = [a \in Accounts |-> IF bucket[a] = None \/ a \notin Active THEN bucket[a] ELSE [bucket[a] EXCEPT !.exhausted = FALSE]]
  /\ held' = {}
  /\ refused' = {}
  /\ UNCHANGED <<store, accounts, marked, reqs, edits, restarts, gap>>

\* resetAllExhausted, by the timer of scheduleDailyReset, which sets it anew.
DailyReset ==
  /\ due
  /\ due' = FALSE
  /\ bucket' = [a \in Accounts |-> IF bucket[a] = None THEN None ELSE [bucket[a] EXCEPT !.exhausted = FALSE]]
  /\ held' = {}
  /\ refused' = {}
  /\ UNCHANGED <<store, accounts, marked, reqs, edits, restarts, gap>>

Edit == edits < MaxEdits[store] /\ edits' = edits + 1

\* The administrator, or a connection test, switches an account on or off.
Switch(a) ==
  /\ Edit
  /\ accounts[a] # "deleted"
  /\ accounts' = [accounts EXCEPT ![a] = IF @ = "active" THEN "inactive" ELSE "active"]
  /\ UNCHANGED <<store, bucket, marked, due, reqs, restarts, gap, held, refused>>

\* The account's quota rows go with it.
Delete(a) ==
  /\ Edit
  /\ accounts[a] # "deleted"
  /\ accounts' = [accounts EXCEPT ![a] = "deleted"]
  /\ marked' = marked \ {a}
  /\ held' = held \ {a}
  /\ Unknow({a})
  /\ UNCHANGED <<store, bucket, due, restarts, gap, refused>>

\* The server's process ends with its requests, its buckets and its timer, and is started again.
Restart ==
  /\ store = "memory"
  /\ restarts < MaxRestarts
  /\ restarts' = restarts + 1
  /\ bucket' = [a \in Accounts |-> None]
  /\ reqs' = [r \in Requests |-> Fresh]
  /\ due' = FALSE
  /\ gap' = [a \in Accounts |-> 0]
  /\ held' = {}
  /\ refused' = {}
  /\ UNCHANGED <<store, accounts, marked, edits>>

Answer(r) == Rendered(r) \/ LimitOnRetry(r) \/ LimitInMemory(r) \/ LimitInWorker(r)
Handle(r) == Scan(r) \/ Claim(r) \/ ScanEnds(r) \/ Answer(r) \/ Mark(r) \/ MarkRow(r) \/ Again(r)

Next ==
  \/ \E r \in Requests : Arrive(r) \/ Handle(r)
  \/ \E r \in Requests, a \in Accounts : ArriveDirect(r, a)
  \/ \E a \in Accounts : Switch(a) \/ Delete(a)
  \/ Status \/ Tick \/ Midnight \/ DailyReset \/ Restart

Spec == Init /\ [][Next]_vars

\* Days pass, and the server's timer fires; no request needs to be made or to end.
FairSpec == Spec /\ WF_vars(Midnight) /\ WF_vars(DailyReset)
=============================================================================
