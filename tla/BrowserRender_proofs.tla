------------------------ MODULE BrowserRender_proofs ------------------------
(***************************************************************************)
(* Proofs about browser rendering, for any number of accounts, requests    *)
(* and ticks.  The inductive invariant relates the server's buckets to     *)
(* what happened (a call cools its account down, a mark kept in a bucket   *)
(* is set there, a set mark was earned), and the Worker's scans to the     *)
(* rows: what a scan knew to be marked is marked still.                    *)
(***************************************************************************)
EXTENDS BrowserRenderProps, TLAPS

\* Buckets b agree with the gaps g, the marks h and the refusals f.
Agree(b, g, h, f) ==
  \A a \in Accounts :
    /\ b[a] = None => g[a] = 0
    /\ b[a] # None => g[a] <= b[a].cool
    /\ a \in h => b[a] # None /\ b[a].exhausted
    /\ b[a] # None /\ b[a].exhausted => a \in f

BucketsTell == store = "memory" => Agree(bucket, gap, held, refused)

ScanTells(q) ==
  /\ q.scan.knew \subseteq marked
  /\ store = "d1" /\ q.pc = "claim" => q.acct \notin q.scan.knew

RowsTell ==
  store # "memory" => held \subseteq marked /\ \A r \in Requests : ScanTells(reqs[r])

IInv == TypeOK /\ BucketsTell /\ RowsTell

-----------------------------------------------------------------------------
(***************************************************************************)
(* Types of what the steps write.                                          *)
(***************************************************************************)
\* A new bucket, and what is read where there is none, are buckets.
LEMMA BucketType ==
  /\ Full \in Buckets /\ None \notin Buckets
  /\ \A e \in BOOLEAN, c \in 0..Interval : Bucket(c, e) \in Buckets
  /\ \A b \in Maps, a \in Accounts : Read(b, a) \in Buckets
BY BrowserAssumption DEF Full, Bucket, Buckets, Maps, Read

\* A request that has been answered, or has just been sent, has the type of a request.
LEMMA FreshType ==
  /\ NoScan \in Scans /\ Fresh \in ReqSet
  /\ \A c \in {"other", "all_exhausted"} : [Fresh EXCEPT !.reply = c] \in ReqSet
  /\ \A a \in Accounts, d, t \in BOOLEAN : Calling(a, d, t) \in ReqSet
BY DEF Calling, NoScan, Scans, Fresh, ReqSet, Maps

\* Bucketing the active accounts yields buckets for them and for no other.
LEMMA EnsureType ==
  ASSUME TypeOK, NEW b \in Maps
  PROVE  /\ EnsureBuckets(b) \in Maps
         /\ \A a \in Accounts : EnsureBuckets(b)[a] = IF a \in Active THEN Read(b, a) ELSE None
         /\ \A a \in Active : EnsureBuckets(b)[a] \in Buckets
BY BucketType DEF EnsureBuckets, Maps, Active

\* A bucket that is a tick older is a bucket or gone.
LEMMA AgedType ==
  ASSUME NEW b \in Buckets \cup {None}
  PROVE  Aged(b) \in Buckets \cup {None}
<1>1. CASE b = None \/ (store = "kv" /\ b.life = 1)
  BY <1>1 DEF Aged
<1>2. CASE ~(b = None \/ (store = "kv" /\ b.life = 1))
  <2>1. b \in Buckets /\ b.cool \in 0..Interval /\ b.life \in 1..KvTtl
    BY <1>2 DEF Buckets
  <2>2. Less(b.cool) \in 0..Interval
    BY <2>1, BrowserAssumption DEF Less
  <2>3. (IF store = "kv" THEN b.life - 1 ELSE b.life) \in 1..KvTtl
    BY <1>2, <2>1, BrowserAssumption
  <2> QED
    BY <1>2, <2>1, <2>2, <2>3 DEF Aged, Buckets
<1> QED
  BY <1>1, <1>2

\* An acquisition from memory keeps the types, and leaves the request answered or calling.
LEMMA AcquireType ==
  ASSUME TypeOK, store = "memory", NEW r \in Requests, NEW b \in Maps, NEW h \in SUBSET Accounts,
         NEW t \in BOOLEAN, \A a \in Active : b[a] \in Buckets,
         Acquire(r, b, h, t)
  PROVE  /\ bucket' \in Maps /\ gap' \in [Accounts -> 0..Interval] /\ held' \subseteq Accounts
         /\ reqs' \in [Requests -> ReqSet]
         /\ \A q \in Requests : reqs'[q] = reqs[q] \/ (q = r /\ reqs'[q].pc \in {"done", "call"}
                                                        /\ (reqs'[q].pc = "call" => reqs'[q].acct \in Accounts))
<1>1. Remembered(b) \in [Accounts -> 0..Interval]
  BY BrowserAssumption DEF Remembered, TypeOK
<1>2. held' \subseteq Accounts
  BY DEF Acquire
<1>3. CASE Ready(b) = {} /\ Reply(r, IF Open(b) = {} THEN "all_exhausted" ELSE "other") /\ bucket' = b /\ gap' = Remembered(b)
  BY <1>1, <1>2, <1>3, FreshType DEF Reply, TypeOK, Fresh
<1>4. ASSUME NEW a \in Ready(b), Send(r, a, t), bucket' = Consume(b, a), gap' = [Remembered(b) EXCEPT ![a] = Interval]
      PROVE  /\ bucket' \in Maps /\ gap' \in [Accounts -> 0..Interval]
             /\ reqs' \in [Requests -> ReqSet]
             /\ \A q \in Requests : reqs'[q] = reqs[q] \/ (q = r /\ reqs'[q].pc = "call" /\ reqs'[q].acct \in Accounts)
  <2>1. a \in Accounts /\ b[a] \in Buckets
    BY DEF Ready, Open, Active
  <2>2. Interval \in 0..Interval
    BY BrowserAssumption
  <2>3. [b[a] EXCEPT !.cool = Interval] \in Buckets
    BY <2>1, <2>2 DEF Buckets
  <2>4. bucket' \in Maps
    BY <1>4, <2>1, <2>3 DEF Consume, Maps
  <2>5. gap' \in [Accounts -> 0..Interval]
    BY <1>1, <1>4, <2>1, <2>2
  <2> QED
    BY <1>4, <2>1, <2>4, <2>5, FreshType DEF Send, Calling, TypeOK, Fresh
<1> QED
  BY <1>2, <1>3, <1>4 DEF Acquire

-----------------------------------------------------------------------------
(***************************************************************************)
(* What the steps of the server do to the agreement.                       *)
(***************************************************************************)
\* Dropping and creating buckets keeps it, once the limiter's memory of the dropped ones is dropped too.
LEMMA EnsureAgree ==
  ASSUME TypeOK, NEW b \in Maps, NEW h \in SUBSET Accounts, NEW f \in SUBSET Accounts,
         Agree(b, gap, h, f)
  PROVE  LET e == EnsureBuckets(b) IN Agree(e, Remembered(e), h \cap Kept(e), f)
<1> DEFINE e == EnsureBuckets(b)
<1>1. \A a \in Accounts : e[a] = IF a \in Active THEN Read(b, a) ELSE None
  BY EnsureType
<1>2. \A a \in Accounts : e[a] # None /\ b[a] # None => e[a] = b[a]
  BY <1>1 DEF Read
<1>3. \A a \in Accounts : e[a] # None /\ b[a] = None => e[a].cool = 0 /\ ~e[a].exhausted
  BY <1>1 DEF Read, Full, Bucket
<1>4. \A a \in Accounts : Remembered(e)[a] = IF e[a] = None THEN 0 ELSE gap[a]
  BY DEF Remembered
<1>5. \A a \in Accounts : a \in h \cap Kept(e) => a \in h /\ e[a] # None
  BY DEF Kept
<1>6. \A a \in Accounts : gap[a] \in Nat
  BY BrowserAssumption DEF TypeOK
<1> DEFINE m == Remembered(e)
           k == h \cap Kept(e)
<1> SUFFICES ASSUME NEW a \in Accounts
             PROVE  /\ e[a] = None => m[a] = 0
                    /\ e[a] # None => m[a] <= e[a].cool
                    /\ a \in k => e[a] # None /\ e[a].exhausted
                    /\ e[a] # None /\ e[a].exhausted => a \in f
  BY DEF Agree
<1> HIDE DEF e, m, k
<1>7. CASE e[a] = None
  BY <1>4, <1>5, <1>7 DEF k, m
<1>8. CASE e[a] # None /\ b[a] = None
  <2>1. a \notin h /\ gap[a] = 0
    BY <1>8 DEF Agree
  <2>2. m[a] = 0 /\ a \notin k
    BY <1>4, <1>5, <1>8, <2>1 DEF k, m
  <2> QED
    BY <1>3, <1>8, <2>2
<1>9. CASE e[a] # None /\ b[a] # None
  <2>1. e[a] = b[a] /\ m[a] = gap[a]
    BY <1>2, <1>4, <1>9 DEF m
  <2> QED
    BY <1>5, <1>9, <2>1 DEF Agree, k
<1> QED
  BY <1>7, <1>8, <1>9

\* The account that a refusal marks has refused.
LEMMA MarkAgree ==
  ASSUME TypeOK, Agree(bucket, gap, held, refused), NEW a \in Accounts
  PROVE  /\ MarkBucket(a) \in Maps
         /\ Agree(MarkBucket(a), gap, held, refused \cup {a})
         /\ Agree(MarkBucket(a), gap, (held \cup {a}) \cap Kept(MarkBucket(a)), refused \cup {a})
<1> DEFINE b == MarkBucket(a)
<1>1. CASE bucket[a] = None
  <2>1. b = bucket
    BY <1>1 DEF MarkBucket
  <2>2. (held \cup {a}) \cap Kept(b) \subseteq held
    BY <1>1, <2>1 DEF Kept
  <2> QED
    BY <2>1, <2>2 DEF Agree, TypeOK
<1>2. CASE bucket[a] # None
  <2>1. bucket[a] \in Buckets
    BY <1>2 DEF TypeOK, Maps
  <2>2. b = [bucket EXCEPT ![a] = [bucket[a] EXCEPT !.exhausted = TRUE]]
    BY <1>2 DEF MarkBucket
  <2>3. [bucket[a] EXCEPT !.exhausted = TRUE] \in Buckets /\ [bucket[a] EXCEPT !.exhausted = TRUE].exhausted
         /\ [bucket[a] EXCEPT !.exhausted = TRUE].cool = bucket[a].cool
    BY <2>1 DEF Buckets
  <2>4. b \in Maps /\ b[a] # None /\ b[a].exhausted /\ b[a].cool = bucket[a].cool
    BY <2>2, <2>3, BucketType DEF TypeOK, Maps
  <2>5. \A c \in Accounts \ {a} : b[c] = bucket[c]
    BY <2>2 DEF TypeOK, Maps
  <2> HIDE DEF b
  <2> QED
    BY <1>2, <2>4, <2>5 DEF Agree, b
<1> QED
  BY <1>1, <1>2

\* An acquisition keeps it: the account taken cools down.
LEMMA AcquireAgree ==
  ASSUME TypeOK, store = "memory", NEW r \in Requests, NEW b \in Maps, NEW h \in SUBSET Accounts,
         NEW f \in SUBSET Accounts, NEW t \in BOOLEAN, \A a \in Active : b[a] \in Buckets,
         Agree(b, Remembered(b), h \cap Kept(b), f),
         Acquire(r, b, h, t)
  PROVE  Agree(bucket', gap', held', f)
<1>1. held' = h \cap Kept(b)
  BY DEF Acquire
<1>2. CASE bucket' = b /\ gap' = Remembered(b)
  BY <1>1, <1>2
<1>3. ASSUME NEW a \in Ready(b), bucket' = Consume(b, a), gap' = [Remembered(b) EXCEPT ![a] = Interval]
      PROVE  Agree(bucket', gap', held', f)
  <2>1. a \in Accounts /\ b[a] \in Buckets
    BY DEF Ready, Open, Active
  <2>2. bucket'[a] = [b[a] EXCEPT !.cool = Interval]
    BY <1>3, <2>1 DEF Consume, Maps
  <2>3. bucket'[a].cool = Interval /\ bucket'[a].exhausted = b[a].exhausted /\ bucket'[a] \in Buckets
    BY <2>1, <2>2, BrowserAssumption DEF Buckets
  <2>4. \A c \in Accounts \ {a} : bucket'[c] = b[c] /\ gap'[c] = Remembered(b)[c]
    BY <1>3, <2>1 DEF Consume, Maps, Remembered
  <2>5. gap'[a] = Interval
    BY <1>3, <2>1 DEF Remembered
  <2>6. b[a] # None /\ bucket'[a] # None
    BY <2>1, <2>3, BucketType
  <2>7. Interval <= Interval
    BY BrowserAssumption
  <2> QED
    BY <1>1, <2>3, <2>4, <2>5, <2>6, <2>7 DEF Agree
<1> QED
  BY <1>2, <1>3 DEF Acquire

\* Whom an acquisition sends the request to was ready, and the verdict is given when nobody is open.
LEMMA Chosen ==
  ASSUME TypeOK, NEW r \in Requests, NEW b, NEW h, NEW t, Acquire(r, b, h, t)
  PROVE  /\ \A a \in Accounts : reqs'[r].pc = "call" /\ reqs'[r].acct = a => a \in Ready(b)
         /\ reqs'[r].reply = "all_exhausted" => Open(b) = {}
<1>1. CASE Reply(r, IF Open(b) = {} THEN "all_exhausted" ELSE "other")
  BY <1>1 DEF Reply, Fresh, TypeOK
<1>2. ASSUME NEW a \in Ready(b), Send(r, a, t)
      PROVE  reqs'[r].acct = a /\ reqs'[r].reply = "other"
  BY <1>2 DEF Send, Calling, Fresh, TypeOK
<1> QED
  BY <1>1, <1>2 DEF Acquire

-----------------------------------------------------------------------------
(***************************************************************************)
(* The initial state and the steps, one lemma for each.                    *)
(***************************************************************************)
\* An answered request and a sent one are well-formed.
LEMMA FreshTells ==
  /\ ReqOK(Fresh) /\ ScanTells(Fresh)
  /\ \A c \in {"other", "all_exhausted"} :
       LET q == [Fresh EXCEPT !.reply = c] IN q \in ReqSet /\ ReqOK(q) /\ ScanTells(q)
  /\ \A a \in Accounts, d, t \in BOOLEAN :
       LET q == Calling(a, d, t) IN q \in ReqSet /\ ReqOK(q) /\ ScanTells(q)
<1>1. NoScan \in Scans /\ NoScan.knew = {}
  BY FreshType DEF NoScan
<1>2. ReqOK(Fresh) /\ ScanTells(Fresh)
  <2>1. Fresh.pc = "done" /\ Fresh.scan.knew = {} /\ Fresh \in ReqSet
    BY <1>1, FreshType DEF Fresh
  <2> QED
    BY <2>1 DEF ReqOK, ScanTells
<1>3. ASSUME NEW c \in {"other", "all_exhausted"}
      PROVE  LET q == [Fresh EXCEPT !.reply = c] IN q \in ReqSet /\ ReqOK(q) /\ ScanTells(q)
  <2> DEFINE q == [Fresh EXCEPT !.reply = c]
  <2>1. q.pc = "done" /\ q.scan.knew = {} /\ q \in ReqSet
    BY <1>1, FreshType DEF Fresh
  <2> QED
    BY <2>1 DEF ReqOK, ScanTells
<1>4. ASSUME NEW a \in Accounts, NEW d \in BOOLEAN, NEW t \in BOOLEAN
      PROVE  LET q == Calling(a, d, t) IN q \in ReqSet /\ ReqOK(q) /\ ScanTells(q)
  <2> DEFINE q == Calling(a, d, t)
  <2>1. q.pc = "call" /\ q.acct = a /\ q.scan.knew = {}
    BY <1>1 DEF Calling, Fresh
  <2>2. q \in ReqSet
    BY FreshType
  <2> QED
    BY <2>1, <2>2 DEF ReqOK, ScanTells
<1> QED
  BY <1>2, <1>3, <1>4

LEMMA InitIInv == Init => IInv
<1> SUFFICES ASSUME Init PROVE IInv
  OBVIOUS
<1>1. bucket \in Maps /\ gap \in [Accounts -> 0..Interval] /\ edits \in 0..MaxEdits[store] /\ restarts \in 0..MaxRestarts
  BY BrowserAssumption DEF Init, Maps
<1>2. reqs \in [Requests -> ReqSet] /\ \A r \in Requests : reqs[r] = Fresh
  BY FreshType DEF Init
<1>3. \A r \in Requests : ReqOK(reqs[r]) /\ ScanTells(reqs[r])
  BY <1>2, FreshTells
<1>4. TypeOK
  BY <1>1, <1>2, <1>3 DEF Init, TypeOK
<1>5. BucketsTell
  BY DEF Init, BucketsTell, Agree
<1> QED
  BY <1>3, <1>4, <1>5 DEF Init, IInv, RowsTell

\* An acquisition from memory, whatever it follows.
LEMMA AcquireStep ==
  ASSUME IInv, store = "memory", NEW r \in Requests, NEW b \in Maps, NEW h \in SUBSET Accounts, NEW t \in BOOLEAN,
         Agree(b, gap, h, refused'), refused' \subseteq Accounts, marked' \subseteq Accounts,
         Acquire(r, EnsureBuckets(b), h, t),
         UNCHANGED <<store, accounts, due, edits, restarts>>
  PROVE  IInv'
<1> DEFINE e == EnsureBuckets(b)
<1>0. TypeOK
  BY DEF IInv
<1>1. e \in Maps /\ \A a \in Active : e[a] \in Buckets
  BY <1>0, EnsureType
<1>2. Agree(e, Remembered(e), h \cap Kept(e), refused')
  BY <1>0, EnsureAgree
<1> HIDE DEF e
<1>3. Agree(bucket', gap', held', refused')
  BY <1>0, <1>1, <1>2, AcquireAgree DEF e
<1>4. /\ bucket' \in Maps /\ gap' \in [Accounts -> 0..Interval] /\ held' \subseteq Accounts
      /\ reqs' \in [Requests -> ReqSet]
      /\ \A q \in Requests : reqs'[q] = reqs[q] \/ (q = r /\ reqs'[q].pc \in {"done", "call"}
                                                     /\ (reqs'[q].pc = "call" => reqs'[q].acct \in Accounts))
  BY <1>0, <1>1, AcquireType DEF e
<1>5. \A q \in Requests : ReqOK(reqs[q])'
  BY <1>0, <1>4 DEF ReqOK, TypeOK
<1>6. TypeOK'
  BY <1>0, <1>4, <1>5 DEF TypeOK, Maps, Buckets, ReqSet, Scans
<1>7. BucketsTell'
  BY <1>3 DEF BucketsTell, Agree
<1> QED
  BY <1>6, <1>7 DEF IInv, RowsTell

LEMMA StatusStep == IInv /\ Status => IInv'
<1> SUFFICES ASSUME IInv, Status PROVE IInv'
  OBVIOUS
<1> DEFINE e == EnsureBuckets(bucket)
<1>0. TypeOK /\ store = "memory"
  BY DEF IInv, Status
<1>1. e \in Maps
  BY <1>0, EnsureType DEF TypeOK
<1>2. Agree(e, Remembered(e), held \cap Kept(e), refused)
  BY <1>0, EnsureAgree DEF TypeOK, IInv, BucketsTell
<1> HIDE DEF e
<1>3. bucket' = e /\ gap' = Remembered(e) /\ held' = held \cap Kept(e)
  BY DEF Status, e
<1>4. gap' \in [Accounts -> 0..Interval]
  BY <1>0, <1>3, BrowserAssumption DEF Remembered, TypeOK
<1>5. TypeOK'
  BY <1>0, <1>1, <1>3, <1>4 DEF Status, TypeOK, ReqOK, Maps, Buckets, ReqSet, Scans
<1>6. BucketsTell'
  BY <1>2, <1>3 DEF Status, BucketsTell, Agree
<1> QED
  BY <1>0, <1>5, <1>6 DEF IInv, RowsTell, Status

\* A step that changes nothing but one request, and leaves it well-formed, is harmless.
LEMMA RequestStep ==
  ASSUME IInv, NEW r \in Requests, NEW q \in ReqSet, reqs' = [reqs EXCEPT ![r] = q],
         ReqOK(q), store # "memory" => ScanTells(q),
         UNCHANGED <<store, accounts, bucket, marked, due, edits, restarts, gap, held, refused>>
  PROVE  IInv'
<1>1. reqs' \in [Requests -> ReqSet] /\ \A p \in Requests : reqs'[p] = IF p = r THEN q ELSE reqs[p]
  BY DEF IInv, TypeOK
<1>2. \A p \in Requests : ReqOK(reqs[p])'
  BY <1>1 DEF IInv, TypeOK, ReqOK
<1>3. TypeOK'
  BY <1>1, <1>2 DEF IInv, TypeOK, Maps, Buckets, ReqSet, Scans
<1>4. BucketsTell'
  BY DEF IInv, BucketsTell, Agree
<1>5. RowsTell'
  BY <1>1 DEF IInv, RowsTell, ScanTells
<1> QED
  BY <1>3, <1>4, <1>5 DEF IInv

\* The beginning of a scan knows only what is marked.
LEMMA StartTells ==
  ASSUME IInv, store # "memory", NEW t \in BOOLEAN
  PROVE  LET q == [Fresh EXCEPT !.pc = "scan", !.tried = t,
                  !.scan = [NoScan EXCEPT !.todo = Active, !.knew = held, !.map = IF store = "d1" THEN bucket ELSE @]]
         IN  q \in ReqSet /\ ReqOK(q) /\ ScanTells(q)
<1> DEFINE m == IF store = "d1" THEN bucket ELSE NoScan.map
           n == [NoScan EXCEPT !.todo = Active, !.knew = held, !.map = m]
           q == [Fresh EXCEPT !.pc = "scan", !.tried = t, !.scan = n]
<1>1. m \in Maps
  BY FreshType DEF Scans, IInv, TypeOK
<1>2. n \in Scans /\ n.knew = held
  BY <1>1 DEF NoScan, Scans, Active, IInv, TypeOK
<1>3. q \in ReqSet /\ q.pc = "scan" /\ q.scan.knew = held
  BY <1>2 DEF Fresh, ReqSet
<1>4. q \in ReqSet /\ ReqOK(q) /\ ScanTells(q)
  BY <1>3 DEF ReqOK, ScanTells, IInv, RowsTell
<1> QED
  BY <1>4

LEMMA StartScanStep ==
  ASSUME IInv, store # "memory", NEW r \in Requests, NEW t \in BOOLEAN, StartScan(r, t),
         UNCHANGED <<store, accounts, bucket, marked, due, edits, restarts, gap, held, refused>>
  PROVE  IInv'
<1> DEFINE q == [Fresh EXCEPT !.pc = "scan", !.tried = t,
                  !.scan = [NoScan EXCEPT !.todo = Active, !.knew = held, !.map = IF store = "d1" THEN bucket ELSE @]]
<1>1. q \in ReqSet /\ ReqOK(q) /\ ScanTells(q)
  BY StartTells
<1>2. reqs' = [reqs EXCEPT ![r] = q]
  BY DEF StartScan
<1> HIDE DEF q
<1> QED
  BY <1>1, <1>2, RequestStep

LEMMA ArriveStep == ASSUME IInv, NEW r \in Requests, Arrive(r) PROVE IInv'
<1>1. CASE store = "memory" /\ Acquire(r, EnsureBuckets(bucket), held, FALSE)
  <2>1. bucket \in Maps /\ held \in SUBSET Accounts /\ Agree(bucket, gap, held, refused)
    BY <1>1 DEF IInv, TypeOK, BucketsTell
  <2>2. Agree(bucket, gap, held, refused') /\ refused' \subseteq Accounts /\ marked' \subseteq Accounts
    BY <2>1 DEF Arrive, IInv, TypeOK
  <2> QED
    BY <1>1, <2>1, <2>2, AcquireStep DEF Arrive
<1>2. CASE store # "memory" /\ StartScan(r, FALSE) /\ UNCHANGED <<bucket, gap, held>>
  BY <1>2, StartScanStep DEF Arrive
<1> QED
  BY <1>1, <1>2 DEF Arrive

LEMMA AgainStep == ASSUME IInv, NEW r \in Requests, Again(r) PROVE IInv'
<1>1. store # "memory"
  BY DEF Again, IInv, TypeOK, ReqOK
<1> QED
  BY <1>1, StartScanStep DEF Again

LEMMA ArriveDirectStep == ASSUME IInv, NEW r \in Requests, NEW a \in Accounts, ArriveDirect(r, a) PROVE IInv'
<1>1. Calling(a, TRUE, FALSE) \in ReqSet /\ ReqOK(Calling(a, TRUE, FALSE)) /\ ScanTells(Calling(a, TRUE, FALSE))
  BY FreshTells
<1> QED
  BY <1>1, RequestStep DEF ArriveDirect

LEMMA ScanStep == ASSUME IInv, NEW r \in Requests, Scan(r) PROVE IInv'
<1> DEFINE scan == reqs[r].scan
<1>0. reqs[r] \in ReqSet /\ scan \in Scans /\ reqs[r].pc = "scan" /\ store # "memory"
  BY DEF IInv, TypeOK, ReqOK, ReqSet, Scan
<1>1. scan.knew \subseteq marked
  BY <1>0 DEF IInv, RowsTell, ScanTells
<1>2. PICK a \in scan.todo :
       \/ FoundExhausted(a) /\ reqs' = [reqs EXCEPT ![r].scan = [scan EXCEPT !.todo = @ \ {a}]]
       \/ reqs' = [reqs EXCEPT ![r].scan = [scan EXCEPT !.todo = @ \ {a}, !.cooling = TRUE]]
       \/ ~FoundExhausted(a) /\ reqs' = [reqs EXCEPT ![r] = [@ EXCEPT !.pc = "claim", !.acct = a]]
  BY DEF Scan
<1>3. a \in Accounts
  BY <1>0 DEF Scans
<1>4. ASSUME NEW n \in Scans, n.knew = scan.knew, reqs' = [reqs EXCEPT ![r].scan = n]
      PROVE  IInv'
  <2> DEFINE q == [reqs[r] EXCEPT !.scan = n]
  <2>1. q \in ReqSet /\ q.pc = "scan" /\ q.scan.knew = scan.knew
    BY <1>0, <1>4 DEF ReqSet
  <2>2. ReqOK(q) /\ ScanTells(q)
    BY <1>0, <1>1, <2>1 DEF ReqOK, ScanTells
  <2>3. reqs' = [reqs EXCEPT ![r] = q]
    BY <1>4
  <2> HIDE DEF q
  <2> QED
    BY <2>1, <2>2, <2>3, RequestStep DEF Scan
<1>5. CASE reqs' = [reqs EXCEPT ![r].scan = [scan EXCEPT !.todo = @ \ {a}]]
  <2>1. [scan EXCEPT !.todo = @ \ {a}] \in Scans /\ [scan EXCEPT !.todo = @ \ {a}].knew = scan.knew
    BY <1>0 DEF Scans
  <2> QED
    BY <1>4, <1>5, <2>1
<1>6. CASE reqs' = [reqs EXCEPT ![r].scan = [scan EXCEPT !.todo = @ \ {a}, !.cooling = TRUE]]
  <2>1. [scan EXCEPT !.todo = @ \ {a}, !.cooling = TRUE] \in Scans
        /\ [scan EXCEPT !.todo = @ \ {a}, !.cooling = TRUE].knew = scan.knew
    BY <1>0 DEF Scans
  <2> QED
    BY <1>4, <1>6, <2>1
<1>7. CASE ~FoundExhausted(a) /\ reqs' = [reqs EXCEPT ![r] = [@ EXCEPT !.pc = "claim", !.acct = a]]
  <2> DEFINE q == [reqs[r] EXCEPT !.pc = "claim", !.acct = a]
  <2>1. q \in ReqSet /\ q.pc = "claim" /\ q.acct = a /\ q.scan = scan
    BY <1>0, <1>3 DEF ReqSet
  <2>2. store = "d1" => a \notin scan.knew
    BY <1>1, <1>7 DEF FoundExhausted
  <2>3. ReqOK(q) /\ ScanTells(q)
    BY <1>0, <1>1, <1>3, <2>1, <2>2 DEF ReqOK, ScanTells
  <2>4. reqs' = [reqs EXCEPT ![r] = q]
    BY <1>7
  <2> HIDE DEF q
  <2> QED
    BY <2>1, <2>3, <2>4, RequestStep DEF Scan
<1> QED
  BY <1>2, <1>5, <1>6, <1>7

\* A request that is only answered.
LEMMA ReplyStep ==
  ASSUME IInv, NEW r \in Requests, NEW c \in {"other", "all_exhausted"}, Reply(r, c),
         UNCHANGED <<store, accounts, bucket, marked, due, edits, restarts, gap, held, refused>>
  PROVE  IInv'
<1> DEFINE q == [Fresh EXCEPT !.reply = c]
<1>1. q \in ReqSet /\ ReqOK(q) /\ ScanTells(q)
  BY FreshTells
<1>2. reqs' = [reqs EXCEPT ![r] = q]
  BY DEF Reply
<1> HIDE DEF q
<1> QED
  BY <1>1, <1>2, RequestStep

LEMMA ScanEndsStep == ASSUME IInv, NEW r \in Requests, ScanEnds(r) PROVE IInv'
BY ReplyStep DEF ScanEnds

LEMMA RenderedStep == ASSUME IInv, NEW r \in Requests, Rendered(r) PROVE IInv'
BY ReplyStep DEF Rendered, Done

\* The Worker's claim writes a bucket, which its promises do not rest on.
LEMMA ClaimStep == ASSUME IInv, NEW r \in Requests, Claim(r) PROVE IInv'
<1> DEFINE a == reqs[r].acct
           q == Calling(a, FALSE, reqs[r].tried)
           b == IF store = "kv" THEN bucket ELSE reqs[r].scan.map
<1>1. reqs[r] \in ReqSet /\ a \in Accounts /\ store # "memory" /\ b \in Maps
  BY DEF IInv, TypeOK, ReqOK, ReqSet, Scans, Claim
<1>2. q \in ReqSet /\ ReqOK(q) /\ ScanTells(q)
  BY <1>1, FreshTells DEF ReqSet
<1>3. bucket' \in Maps
  <2>1. Interval \in 0..Interval
    BY BrowserAssumption
  <2>2. Bucket(Interval, FALSE) \in Buckets
    BY <2>1, BucketType
  <2>3. bucket' = [b EXCEPT ![a] = Bucket(Interval, FALSE)]
    BY DEF Claim
  <2> QED
    BY <1>1, <2>2, <2>3 DEF Maps
<1>4. reqs' \in [Requests -> ReqSet] /\ \A p \in Requests : reqs'[p] = IF p = r THEN q ELSE reqs[p]
  BY <1>2 DEF Claim, Send, IInv, TypeOK
<1> HIDE DEF q, a, b
<1>5. \A p \in Requests : ReqOK(reqs[p])'
  BY <1>2, <1>4 DEF Claim, IInv, TypeOK, ReqOK
<1>6. TypeOK'
  BY <1>3, <1>4, <1>5 DEF Claim, IInv, TypeOK, Maps, Buckets, ReqSet, Scans
<1>7. RowsTell'
  BY <1>2, <1>4 DEF Claim, IInv, RowsTell, ScanTells
<1> QED
  BY <1>1, <1>6, <1>7 DEF IInv, BucketsTell, Claim

\* A request is answered, and the server hears of a refusal.
LEMMA LimitOnRetryStep == ASSUME IInv, NEW r \in Requests, LimitOnRetry(r) PROVE IInv'
<1> DEFINE q == [Fresh EXCEPT !.reply = "other"]
<1>1. q \in ReqSet /\ ReqOK(q) /\ ScanTells(q)
  BY FreshTells
<1>2. reqs[r] \in ReqSet /\ reqs[r].acct \in Accounts
  BY DEF IInv, TypeOK, ReqOK, LimitOnRetry
<1>3. reqs' \in [Requests -> ReqSet] /\ \A p \in Requests : reqs'[p] = IF p = r THEN q ELSE reqs[p]
  BY <1>1 DEF LimitOnRetry, Done, Reply, IInv, TypeOK
<1> HIDE DEF q
<1>4. refused \subseteq refused' /\ refused' \subseteq Accounts
  BY <1>2 DEF LimitOnRetry, IInv, TypeOK
<1>5. \A p \in Requests : ReqOK(reqs[p])'
  BY <1>1, <1>3 DEF LimitOnRetry, IInv, TypeOK, ReqOK
<1>6. TypeOK'
  BY <1>3, <1>4, <1>5 DEF LimitOnRetry, IInv, TypeOK, Maps, Buckets, ReqSet, Scans
<1>7. BucketsTell'
  BY <1>4 DEF LimitOnRetry, IInv, BucketsTell, Agree
<1>8. RowsTell'
  BY <1>1, <1>3 DEF LimitOnRetry, IInv, RowsTell, ScanTells
<1> QED
  BY <1>6, <1>7, <1>8 DEF IInv

\* The server marks and, unless the account was named or is gone, acquires again.
LEMMA LimitInMemoryStep == ASSUME IInv, NEW r \in Requests, LimitInMemory(r) PROVE IInv'
<1> DEFINE a == reqs[r].acct
           b == MarkBucket(a)
           k == (held \cup {a}) \cap Kept(b)
<1>1. TypeOK /\ store = "memory" /\ a \in Accounts /\ refused' = refused \cup {a}
  BY DEF IInv, TypeOK, ReqOK, LimitInMemory
<1>2. b \in Maps /\ Agree(b, gap, held, refused') /\ Agree(b, gap, k, refused')
  BY <1>1, MarkAgree DEF IInv, BucketsTell
<1>3. refused' \subseteq Accounts /\ k \in SUBSET Accounts
  BY <1>1 DEF TypeOK
<1>4. marked' \subseteq Accounts
  BY <1>1 DEF LimitInMemory, TypeOK
<1> DEFINE q == [Fresh EXCEPT !.reply = "other"]
<1>5. ASSUME Done(r), bucket' = b, gap' = gap, held' \in {held, k}
      PROVE  IInv'
  <2>1. q \in ReqSet /\ ReqOK(q)
    BY FreshTells
  <2>2. reqs' \in [Requests -> ReqSet] /\ \A p \in Requests : reqs'[p] = IF p = r THEN q ELSE reqs[p]
    BY <1>1, <1>5, <2>1 DEF Done, Reply, TypeOK
  <2> HIDE DEF q, b, k, a
  <2>3. UNCHANGED <<store, accounts, due, edits, restarts>>
    BY DEF LimitInMemory
  <2>4. \A p \in Requests : ReqOK(reqs[p])'
    BY <1>1, <2>1, <2>2, <2>3 DEF TypeOK, ReqOK
  <2>5. held' \subseteq Accounts
    BY <1>1, <1>3, <1>5 DEF TypeOK
  <2>6. TypeOK'
    BY <1>1, <1>2, <1>3, <1>4, <1>5, <2>2, <2>3, <2>4, <2>5 DEF TypeOK, Maps, Buckets, ReqSet, Scans
  <2>7. BucketsTell'
    BY <1>2, <1>5 DEF BucketsTell, Agree
  <2> QED
    BY <1>1, <2>3, <2>6, <2>7 DEF IInv, RowsTell
<1>6. CASE accounts[a] = "deleted"
  BY <1>5, <1>6 DEF LimitInMemory
<1>7. CASE accounts[a] # "deleted" /\ reqs[r].direct
  BY <1>5, <1>7 DEF LimitInMemory
<1>8. CASE accounts[a] # "deleted" /\ ~reqs[r].direct
  <2>1. Acquire(r, EnsureBuckets(b), k, TRUE)
    BY <1>8 DEF LimitInMemory
  <2>2. UNCHANGED <<store, accounts, due, edits, restarts>>
    BY DEF LimitInMemory
  <2> HIDE DEF b, k
  <2> QED
    BY <1>1, <1>2, <1>3, <1>4, <2>1, <2>2, AcquireStep
<1> QED
  BY <1>6, <1>7, <1>8

\* A request of the Worker goes on to its next writing.
LEMMA LimitInWorkerStep == ASSUME IInv, NEW r \in Requests, LimitInWorker(r) PROVE IInv'
<1> DEFINE q == [reqs[r] EXCEPT !.pc = IF store = "kv" THEN "mark" ELSE "row"]
<1>1. reqs[r] \in ReqSet /\ reqs[r].acct \in Accounts /\ store # "memory" /\ ScanTells(reqs[r])
  BY DEF IInv, TypeOK, ReqOK, LimitInWorker, RowsTell
<1>2. q \in ReqSet /\ q.pc \in {"mark", "row"} /\ (q.pc = "mark" => store = "kv")
       /\ q.acct = reqs[r].acct /\ q.scan = reqs[r].scan
  BY <1>1 DEF ReqSet
<1>3. ReqOK(q) /\ ScanTells(q)
  BY <1>1, <1>2 DEF ReqOK, ScanTells
<1>4. reqs' = [reqs EXCEPT ![r] = q]
  BY DEF LimitInWorker, Goto
<1> HIDE DEF q
<1> QED
  BY <1>2, <1>3, <1>4, RequestStep DEF LimitInWorker

LEMMA MarkStep == ASSUME IInv, NEW r \in Requests, Mark(r) PROVE IInv'
<1> DEFINE a == reqs[r].acct
           q == [reqs[r] EXCEPT !.pc = "row"]
<1>1. reqs[r] \in ReqSet /\ a \in Accounts /\ store = "kv" /\ ScanTells(reqs[r])
  BY DEF IInv, TypeOK, ReqOK, Mark, RowsTell
<1>2. q \in ReqSet /\ q.pc = "row" /\ q.acct = a /\ q.scan = reqs[r].scan
  BY <1>1 DEF ReqSet
<1>3. ReqOK(q) /\ ScanTells(q)
  BY <1>1, <1>2 DEF ReqOK, ScanTells
<1>4. bucket' \in Maps
  <2>1. bucket \in Maps /\ Read(bucket, a).cool \in 0..Interval
    BY <1>1, BucketType DEF IInv, TypeOK, Buckets
  <2>2. Bucket(Read(bucket, a).cool, TRUE) \in Buckets
    BY <2>1, BucketType
  <2> QED
    BY <1>1, <2>1, <2>2 DEF Mark, Maps
<1>5. reqs' \in [Requests -> ReqSet] /\ \A p \in Requests : reqs'[p] = IF p = r THEN q ELSE reqs[p]
  BY <1>2 DEF Mark, Goto, IInv, TypeOK
<1> HIDE DEF q, a
<1>6. \A p \in Requests : ReqOK(reqs[p])'
  BY <1>3, <1>5 DEF Mark, IInv, TypeOK, ReqOK
<1>7. TypeOK'
  BY <1>4, <1>5, <1>6 DEF Mark, IInv, TypeOK, Maps, Buckets, ReqSet, Scans
<1>8. RowsTell'
  BY <1>3, <1>5 DEF Mark, IInv, RowsTell, ScanTells
<1> QED
  BY <1>1, <1>7, <1>8 DEF IInv, BucketsTell, Mark

LEMMA MarkRowStep == ASSUME IInv, NEW r \in Requests, MarkRow(r) PROVE IInv'
<1> DEFINE a == reqs[r].acct
           d == [Fresh EXCEPT !.reply = "other"]
           g == [reqs[r] EXCEPT !.pc = "again"]
<1>1. reqs[r] \in ReqSet /\ a \in Accounts /\ store # "memory" /\ ScanTells(reqs[r])
  BY DEF IInv, TypeOK, ReqOK, MarkRow, RowsTell
<1>2. d \in ReqSet /\ ReqOK(d) /\ ScanTells(d)
  BY FreshTells
<1>3. g \in ReqSet /\ g.pc = "again" /\ g.acct = a /\ g.scan = reqs[r].scan
  BY <1>1 DEF ReqSet
<1>4. ReqOK(g) /\ ScanTells(g)
  BY <1>1, <1>3 DEF ReqOK, ScanTells
<1>5. PICK q \in ReqSet : ReqOK(q) /\ ScanTells(q) /\ reqs' = [reqs EXCEPT ![r] = q]
  BY <1>2, <1>3, <1>4 DEF MarkRow, Done, Reply, Goto
<1>6. reqs' \in [Requests -> ReqSet] /\ \A p \in Requests : reqs'[p] = IF p = r THEN q ELSE reqs[p]
  BY <1>5 DEF IInv, TypeOK
<1> HIDE DEF a, d, g
<1>7. \/ marked' = marked /\ held' = held
      \/ marked' = marked \cup {a} /\ held' = held \cup {a}
  BY DEF MarkRow, a
<1>8. UNCHANGED <<store, accounts, bucket, due, edits, restarts, gap, refused>>
  BY DEF MarkRow
<1>9. \A p \in Requests : ReqOK(reqs[p])'
  BY <1>5, <1>6, <1>8 DEF IInv, TypeOK, ReqOK
<1>10. TypeOK'
  BY <1>1, <1>6, <1>7, <1>8, <1>9 DEF IInv, TypeOK, Maps, Buckets, ReqSet, Scans
<1>11. RowsTell'
  <2>1. marked \subseteq marked' /\ held' \subseteq marked'
    BY <1>1, <1>7 DEF IInv, RowsTell
  <2>2. \A p \in Requests : ScanTells(reqs'[p])
    BY <1>1, <1>5, <1>6 DEF IInv, RowsTell
  <2>3. \A p \in Requests : ScanTells(reqs[p])'
    BY <1>8, <2>1, <2>2 DEF ScanTells
  <2> QED
    BY <2>1, <2>3 DEF RowsTell
<1> QED
  BY <1>1, <1>8, <1>10, <1>11 DEF IInv, BucketsTell

\* Time takes as much from a gap as from the cool-down of its bucket.
LEMMA TickStep == IInv /\ Tick => IInv'
<1> SUFFICES ASSUME IInv, Tick PROVE IInv'
  OBVIOUS
<1>1. \A a \in Accounts : bucket[a] \in Buckets \cup {None} /\ gap[a] \in 0..Interval
  BY DEF IInv, TypeOK, Maps
<1>2. \A a \in Accounts : bucket'[a] = Aged(bucket[a]) /\ gap'[a] = Less(gap[a])
  BY DEF Tick
<1>3. bucket' \in Maps
  BY <1>1, AgedType DEF Tick, Maps
<1>4. gap' \in [Accounts -> 0..Interval]
  BY <1>1, BrowserAssumption DEF Tick, Less
<1>5. UNCHANGED <<store, accounts, marked, due, reqs, edits, restarts, held, refused>>
  BY DEF Tick
<1>6. TypeOK'
  BY <1>3, <1>4, <1>5 DEF IInv, TypeOK, Maps, Buckets, ReqSet, Scans, ReqOK
<1>7. ASSUME store = "memory", NEW a \in Accounts
      PROVE  /\ bucket'[a] = None => gap'[a] = 0
             /\ bucket'[a] # None => gap'[a] <= bucket'[a].cool
             /\ a \in held => bucket'[a] # None /\ bucket'[a].exhausted
             /\ bucket'[a] # None /\ bucket'[a].exhausted => a \in refused
  <2>1. /\ bucket[a] = None => gap[a] = 0
        /\ bucket[a] # None => gap[a] <= bucket[a].cool
        /\ a \in held => bucket[a] # None /\ bucket[a].exhausted
        /\ bucket[a] # None /\ bucket[a].exhausted => a \in refused
    BY <1>7 DEF IInv, BucketsTell, Agree
  <2>2. CASE bucket[a] = None
    BY <1>2, <1>7, <2>1, <2>2 DEF Aged, Less
  <2>3. CASE bucket[a] # None
    <3>1. bucket[a] \in Buckets /\ bucket[a].cool \in Nat /\ gap[a] \in Nat
      BY <1>1, <2>3, BrowserAssumption DEF Buckets
    <3>2. bucket'[a] = [bucket[a] EXCEPT !.cool = Less(@), !.life = @]
      BY <1>2, <1>7, <2>3 DEF Aged
    <3>3. bucket'[a].cool = Less(bucket[a].cool) /\ bucket'[a].exhausted = bucket[a].exhausted
      BY <3>1, <3>2 DEF Buckets
    <3>4. bucket'[a] # None
      <4>1. Less(bucket[a].cool) \in 0..Interval
        BY <3>1, BrowserAssumption DEF Buckets, Less
      <4>2. [bucket[a] EXCEPT !.cool = Less(@), !.life = @] \in Buckets
        BY <3>1, <4>1 DEF Buckets
      <4> QED
        BY <3>2, <4>2, BucketType
    <3>5. Less(gap[a]) <= Less(bucket[a].cool)
      BY <2>1, <2>3, <3>1 DEF Less
    <3> QED
      BY <1>2, <2>1, <2>3, <3>3, <3>4, <3>5
  <2> QED
    BY <2>2, <2>3
<1>8. BucketsTell'
  BY <1>5, <1>7 DEF BucketsTell, Agree
<1>9. RowsTell'
  BY <1>5 DEF IInv, RowsTell, ScanTells
<1> QED
  BY <1>6, <1>8, <1>9 DEF IInv

\* What the date, or a deletion, removes from the rows it removes from what the scans knew.
LEMMA ForgetStep ==
  ASSUME IInv, NEW gone \in SUBSET Accounts, Unknow(gone), UNCHANGED store,
         store # "memory" => marked' = marked \ gone /\ held' \subseteq held \ gone
  PROVE  /\ reqs' \in [Requests -> ReqSet] /\ \A r \in Requests : ReqOK(reqs[r])'
         /\ RowsTell'
<1>1. ASSUME NEW r \in Requests
      PROVE  /\ reqs'[r] \in ReqSet /\ reqs'[r].pc = reqs[r].pc /\ reqs'[r].acct = reqs[r].acct
             /\ reqs'[r].scan.knew = reqs[r].scan.knew \ gone
  <2>1. reqs[r] \in ReqSet /\ reqs[r].scan \in Scans
    BY DEF IInv, TypeOK, ReqSet
  <2>2. reqs'[r] = [reqs[r] EXCEPT !.scan = [reqs[r].scan EXCEPT !.knew = @ \ gone]]
    BY DEF Unknow
  <2>3. [reqs[r].scan EXCEPT !.knew = @ \ gone] \in Scans
        /\ [reqs[r].scan EXCEPT !.knew = @ \ gone].knew = reqs[r].scan.knew \ gone
    BY <2>1 DEF Scans
  <2> QED
    BY <2>1, <2>2, <2>3 DEF ReqSet
<1>2. reqs' \in [Requests -> ReqSet]
  BY <1>1 DEF Unknow
<1>3. ASSUME NEW r \in Requests PROVE ReqOK(reqs[r])'
  <2>1. ReqOK(reqs[r])
    BY DEF IInv, TypeOK
  <2>2. reqs'[r] \in ReqSet /\ reqs'[r].pc = reqs[r].pc /\ reqs'[r].acct = reqs[r].acct
    BY <1>1
  <2> QED
    BY <2>1, <2>2 DEF ReqOK
<1>4. store # "memory" => \A r \in Requests : ScanTells(reqs[r])'
  BY <1>1 DEF IInv, RowsTell, ScanTells
<1>5. store # "memory" => held' \subseteq marked'
  BY DEF IInv, RowsTell
<1> QED
  BY <1>2, <1>3, <1>4, <1>5 DEF RowsTell

LEMMA MidnightStep == IInv /\ Midnight => IInv'
<1> SUFFICES ASSUME IInv, Midnight PROVE IInv'
  OBVIOUS
<1>1. CASE store = "memory"
  <2>1. marked' = {} /\ due' = TRUE /\ UNCHANGED <<store, accounts, bucket, reqs, edits, restarts, gap, held, refused>>
    BY <1>1 DEF Midnight
  <2>2. TypeOK'
    BY <1>1, <2>1 DEF IInv, TypeOK, Maps, Buckets, ReqSet, Scans, ReqOK
  <2>3. BucketsTell'
    BY <2>1 DEF IInv, BucketsTell, Agree
  <2> QED
    BY <1>1, <2>1, <2>2, <2>3 DEF IInv, RowsTell
<1>2. CASE store # "memory"
  <2>1. bucket' = [a \in Accounts |-> None] /\ marked' = {} /\ held' = {} /\ Unknow(Accounts)
        /\ UNCHANGED <<store, accounts, due, edits, restarts, gap, refused>>
    BY <1>2 DEF Midnight
  <2>2. marked' = marked \ Accounts /\ held' \subseteq held \ Accounts
    BY <2>1 DEF IInv, TypeOK
  <2>3. reqs' \in [Requests -> ReqSet] /\ (\A r \in Requests : ReqOK(reqs[r])') /\ RowsTell'
    BY <2>1, <2>2, ForgetStep
  <2>4. bucket' \in Maps
    BY <2>1 DEF Maps
  <2>5. TypeOK'
    BY <2>1, <2>3, <2>4 DEF IInv, TypeOK, Maps, Buckets, ReqSet, Scans
  <2> QED
    BY <1>2, <2>1, <2>3, <2>5 DEF IInv, BucketsTell
<1> QED
  BY <1>1, <1>2

LEMMA DeleteStep == ASSUME IInv, NEW a \in Accounts, Delete(a) PROVE IInv'
<1>1. marked' = marked \ {a} /\ held' = held \ {a} /\ Unknow({a}) /\ accounts' = [accounts EXCEPT ![a] = "deleted"]
      /\ edits < MaxEdits[store] /\ edits' = edits + 1 /\ UNCHANGED <<store, bucket, due, restarts, gap, refused>>
  BY DEF Delete, Edit
<1>2. reqs' \in [Requests -> ReqSet] /\ (\A r \in Requests : ReqOK(reqs[r])') /\ RowsTell'
  BY <1>1, ForgetStep
<1>3. edits' \in 0..MaxEdits[store]
  BY <1>1, BrowserAssumption DEF IInv, TypeOK
<1>4. accounts' \in [Accounts -> {"active", "inactive", "deleted"}]
  BY <1>1 DEF IInv, TypeOK
<1>5. TypeOK'
  BY <1>1, <1>2, <1>3, <1>4 DEF IInv, TypeOK, Maps, Buckets, ReqSet, Scans
<1>6. BucketsTell'
  BY <1>1 DEF IInv, BucketsTell, Agree
<1> QED
  BY <1>2, <1>5, <1>6 DEF IInv

LEMMA SwitchStep == ASSUME IInv, NEW a \in Accounts, Switch(a) PROVE IInv'
<1>1. accounts' = [accounts EXCEPT ![a] = IF @ = "active" THEN "inactive" ELSE "active"]
      /\ edits < MaxEdits[store] /\ edits' = edits + 1
      /\ UNCHANGED <<store, bucket, marked, due, reqs, restarts, gap, held, refused>>
  BY DEF Switch, Edit
<1>2. edits' \in 0..MaxEdits[store]
  BY <1>1, BrowserAssumption DEF IInv, TypeOK
<1>3. accounts' \in [Accounts -> {"active", "inactive", "deleted"}]
  BY <1>1 DEF IInv, TypeOK
<1>4. TypeOK'
  BY <1>1, <1>2, <1>3 DEF IInv, TypeOK, Maps, Buckets, ReqSet, Scans, ReqOK
<1>5. BucketsTell'
  BY <1>1 DEF IInv, BucketsTell, Agree
<1>6. RowsTell'
  BY <1>1 DEF IInv, RowsTell, ScanTells
<1> QED
  BY <1>4, <1>5, <1>6 DEF IInv

\* The daily reset takes the marks out of the buckets and leaves their cool-downs.
LEMMA DailyResetStep == IInv /\ DailyReset => IInv'
<1> SUFFICES ASSUME IInv, DailyReset PROVE IInv'
  OBVIOUS
<1>1. store = "memory" /\ due' = FALSE /\ held' = {} /\ refused' = {}
      /\ UNCHANGED <<store, accounts, marked, reqs, edits, restarts, gap>>
  BY DEF DailyReset, IInv, TypeOK
<1>2. ASSUME NEW a \in Accounts
      PROVE  /\ bucket[a] = None => bucket'[a] = None
             /\ bucket[a] # None => /\ bucket'[a] \in Buckets
                                    /\ bucket'[a].cool = bucket[a].cool /\ bucket'[a].exhausted = FALSE
  BY DEF DailyReset, IInv, TypeOK, Maps, Buckets
<1>3. bucket' \in Maps
  BY <1>2 DEF DailyReset, Maps
<1>4. TypeOK'
  BY <1>1, <1>3 DEF IInv, TypeOK, Maps, Buckets, ReqSet, Scans, ReqOK
<1>5. \A a \in Accounts : bucket[a] # None => bucket'[a] # None
  BY <1>2, BucketType
<1>6. BucketsTell'
  BY <1>1, <1>2, <1>5 DEF IInv, BucketsTell, Agree
<1> QED
  BY <1>1, <1>4, <1>6 DEF IInv, RowsTell

LEMMA RestartStep == IInv /\ Restart => IInv'
<1> SUFFICES ASSUME IInv, Restart PROVE IInv'
  OBVIOUS
<1>1. /\ store = "memory" /\ restarts < MaxRestarts /\ restarts' = restarts + 1
      /\ bucket' = [a \in Accounts |-> None] /\ reqs' = [r \in Requests |-> Fresh]
      /\ gap' = [a \in Accounts |-> 0] /\ due' = FALSE /\ held' = {} /\ refused' = {}
      /\ UNCHANGED <<store, accounts, marked, edits>>
  BY DEF Restart
<1>2. reqs' \in [Requests -> ReqSet] /\ bucket' \in Maps /\ gap' \in [Accounts -> 0..Interval]
      /\ restarts' \in 0..MaxRestarts
  BY <1>1, FreshType, BrowserAssumption DEF Maps, IInv, TypeOK
<1>3. \A r \in Requests : ReqOK(reqs[r])'
  BY <1>1, FreshType DEF ReqOK, Fresh
<1>4. TypeOK'
  BY <1>1, <1>2, <1>3 DEF IInv, TypeOK, Maps, Buckets, ReqSet, Scans
<1>5. BucketsTell'
  BY <1>1 DEF BucketsTell, Agree
<1> QED
  BY <1>1, <1>4, <1>5 DEF IInv, RowsTell

-----------------------------------------------------------------------------
(***************************************************************************)
(* The theorems.                                                           *)
(***************************************************************************)
\* Every step keeps the inductive invariant.
LEMMA Induction == IInv /\ [Next]_vars => IInv'
<1> SUFFICES ASSUME IInv, [Next]_vars PROVE IInv'
  OBVIOUS
<1>1. CASE UNCHANGED vars
  BY <1>1 DEF vars, IInv, TypeOK, ReqOK, Maps, Buckets, ReqSet, Scans, BucketsTell, Agree, RowsTell, ScanTells
<1>2. ASSUME NEW r \in Requests, Arrive(r) \/ Handle(r)
      PROVE  IInv'
  BY <1>2, ArriveStep, ScanStep, ClaimStep, ScanEndsStep, RenderedStep, LimitOnRetryStep,
     LimitInMemoryStep, LimitInWorkerStep, MarkStep, MarkRowStep, AgainStep DEF Handle, Answer
<1>3. ASSUME NEW r \in Requests, NEW a \in Accounts, ArriveDirect(r, a)
      PROVE  IInv'
  BY <1>3, ArriveDirectStep
<1>4. ASSUME NEW a \in Accounts, Switch(a) \/ Delete(a)
      PROVE  IInv'
  BY <1>4, SwitchStep, DeleteStep
<1>5. CASE Status \/ Tick \/ Midnight \/ DailyReset \/ Restart
  BY <1>5, StatusStep, TickStep, MidnightStep, DailyResetStep, RestartStep
<1> QED
  BY <1>1, <1>2, <1>3, <1>4, <1>5 DEF Next

(***************************************************************************)
(* Buckets, gaps, marks and refusals agree in every reachable state.       *)
(***************************************************************************)
THEOREM Invariance == Spec => []IInv
BY InitIInv, Induction, PTL DEF Spec

(***************************************************************************)
(* Type correctness.                                                       *)
(***************************************************************************)
THEOREM TypeCorrect == Spec => []TypeOK
<1>1. IInv => TypeOK
  BY DEF IInv
<1> QED
  BY <1>1, Invariance, PTL

\* In the server, whatever hands out an account does so from the ensured buckets, with marks that they keep.
LEMMA HandedOut ==
  ASSUME IInv, store = "memory", NEW r \in Requests, Arrive(r) \/ LimitInMemory(r)
  PROVE  \E b \in Maps, h \in SUBSET Accounts, t \in BOOLEAN :
           /\ Agree(b, gap, h, refused') /\ held \subseteq h
           /\ \/ Acquire(r, EnsureBuckets(b), h, t)
              \/ Done(r)
<1>1. CASE Arrive(r)
  <2>1. bucket \in Maps /\ held \in SUBSET Accounts /\ Agree(bucket, gap, held, refused')
    BY <1>1 DEF Arrive, IInv, TypeOK, BucketsTell
  <2>2. Acquire(r, EnsureBuckets(bucket), held, FALSE)
    BY <1>1 DEF Arrive
  <2> QED
    BY <2>1, <2>2
<1>2. CASE LimitInMemory(r)
  <2> DEFINE a == reqs[r].acct
             b == MarkBucket(a)
             k == (held \cup {a}) \cap Kept(b)
  <2>1. TypeOK /\ a \in Accounts /\ refused' = refused \cup {a}
    BY <1>2 DEF IInv, TypeOK, ReqOK, LimitInMemory
  <2>2. b \in Maps /\ Agree(b, gap, k, refused')
    BY <2>1, MarkAgree DEF IInv, BucketsTell
  <2>3. k \in SUBSET Accounts /\ held \subseteq k
    <3>1. \A c \in held : c \in Accounts /\ bucket[c] # None
      BY <1>2, <2>1 DEF IInv, BucketsTell, Agree, TypeOK
    <3>2. ASSUME NEW c \in Accounts, bucket[c] # None
          PROVE  b[c] # None
      <4>1. bucket[c] \in Buckets /\ bucket \in Maps
        BY <2>1, <3>2 DEF TypeOK, Maps
      <4>2. [bucket[c] EXCEPT !.exhausted = TRUE] \in Buckets
        BY <4>1 DEF Buckets
      <4>3. None \notin Buckets
        BY BrowserAssumption DEF Buckets
      <4>4. b[c] = IF c = a THEN [bucket[c] EXCEPT !.exhausted = TRUE] ELSE bucket[c]
        BY <3>2, <4>1 DEF MarkBucket, Maps
      <4> QED
        BY <3>2, <4>2, <4>3, <4>4
    <3> HIDE DEF b
    <3> QED
      BY <2>1, <3>1, <3>2 DEF Kept
  <2>4. Acquire(r, EnsureBuckets(b), k, TRUE) \/ Done(r)
    BY <1>2 DEF LimitInMemory
  <2> HIDE DEF b, k
  <2> QED
    BY <2>2, <2>3, <2>4
<1> QED
  BY <1>1, <1>2

\* An account handed out by the server has no gap to go and is not held; the verdict finds only refusers.
LEMMA ServerStep ==
  ASSUME IInv, store = "memory", NEW r \in Requests, Arrive(r) \/ LimitInMemory(r)
  PROVE  /\ \A a \in Accounts : reqs'[r].pc = "call" /\ reqs'[r].acct = a => gap[a] = 0 /\ a \notin held
         /\ reqs'[r].reply = "all_exhausted" => Active \subseteq refused'
<1>0. TypeOK
  BY DEF IInv
<1>1. PICK b \in Maps, h \in SUBSET Accounts, t \in BOOLEAN :
        /\ Agree(b, gap, h, refused') /\ held \subseteq h
        /\ \/ Acquire(r, EnsureBuckets(b), h, t)
           \/ Done(r)
  BY HandedOut
<1>2. CASE Done(r)
  BY <1>0, <1>2 DEF Done, Reply, Fresh, TypeOK
<1>3. CASE Acquire(r, EnsureBuckets(b), h, t)
  <2> DEFINE e == EnsureBuckets(b)
  <2>1. \A a \in Active : a \in Accounts /\ e[a] = Read(b, a)
    BY <1>0, EnsureType DEF Active
  <2>2. /\ \A a \in Accounts : reqs'[r].pc = "call" /\ reqs'[r].acct = a => a \in Ready(e)
        /\ reqs'[r].reply = "all_exhausted" => Open(e) = {}
    BY <1>0, <1>3, Chosen
  <2> HIDE DEF e
  <2>3. ASSUME NEW a \in Accounts, a \in Ready(e)
        PROVE  gap[a] = 0 /\ a \notin held
    <3>1. a \in Active /\ ~e[a].exhausted /\ e[a].cool = 0
      BY <2>3 DEF Ready, Open
    <3>2. CASE b[a] = None
      <4>1. gap[a] = 0 /\ a \notin h
        BY <1>1, <3>2 DEF Agree
      <4> QED
        BY <1>1, <4>1
    <3>3. CASE b[a] # None
      <4>1. e[a] = b[a]
        BY <2>1, <3>1, <3>3 DEF Read
      <4>2. gap[a] <= 0 /\ a \notin h
        BY <1>1, <3>1, <3>3, <4>1 DEF Agree
      <4>3. gap[a] = 0
        BY <1>0, <4>2, BrowserAssumption DEF TypeOK
      <4> QED
        BY <1>1, <3>3, <4>2, <4>3
    <3> QED
      BY <3>2, <3>3
  <2>4. ASSUME Open(e) = {}, NEW a \in Active
        PROVE  a \in refused'
    <3>1. e[a].exhausted /\ e[a] = Read(b, a) /\ a \in Accounts
      BY <2>1, <2>4 DEF Open
    <3>2. b[a] # None
      BY <3>1 DEF Read, Full, Bucket
    <3> QED
      BY <1>1, <3>1, <3>2 DEF Agree, Read
  <2> QED
    BY <2>2, <2>3, <2>4
<1> QED
  BY <1>1, <1>2, <1>3

(***************************************************************************)
(* The server's limiter keeps an interval between two calls of an account. *)
(***************************************************************************)
THEOREM RateKeptCorrect == Spec => RateKept
<1>1. ASSUME IInv, [Next]_vars, NEW r \in Requests, NEW a \in Accounts, store = "memory" /\ SentTo(r, a)
      PROVE  gap[a] = 0
  <2>1. ~Claim(r)
    BY <1>1 DEF Claim, IInv, TypeOK, ReqOK
  <2> QED
    BY <1>1, <2>1, ServerStep DEF SentTo
<1>2. IInv /\ [Next]_vars => [\A r \in Requests, a \in Accounts : store = "memory" /\ SentTo(r, a) => gap[a] = 0]_vars
  BY <1>1
<1> QED
  BY <1>2, Invariance, PTL DEF Spec, RateKept

(***************************************************************************)
(* No account marked for the day is handed out again, but from KV.         *)
(***************************************************************************)
THEOREM MarkedSkippedCorrect == Spec => MarkedSkipped
<1>1. ASSUME IInv, [Next]_vars, NEW r \in Requests, NEW a \in Accounts, store # "kv" /\ SentTo(r, a)
      PROVE  SkipsMarked(r, a)
  <2>1. CASE store = "memory"
    <3>1. ~Claim(r)
      BY <2>1, <1>1 DEF Claim, IInv, TypeOK, ReqOK
    <3> QED
      BY <1>1, <2>1, <3>1, ServerStep DEF SentTo, SkipsMarked
  <2>2. CASE store # "memory"
    <3>1. store = "d1"
      BY <1>1, <2>2, BrowserAssumption DEF IInv, TypeOK
    <3>2. Claim(r)
      <4>1. ~LimitInMemory(r)
        BY <2>2 DEF LimitInMemory
      <4>2. CASE Arrive(r)
        <5> DEFINE s == [NoScan EXCEPT !.todo = Active, !.knew = held, !.map = IF store = "d1" THEN bucket ELSE @]
                   q == [Fresh EXCEPT !.pc = "scan", !.tried = FALSE, !.scan = s]
        <5>1. reqs' = [reqs EXCEPT ![r] = q]
          BY <2>2, <4>2 DEF Arrive, StartScan
        <5>2. q.pc = "scan"
          <6> HIDE DEF s
          <6> QED
            BY DEF Fresh
        <5>3. reqs'[r].pc = "scan"
          <6> HIDE DEF q
          <6> QED
            BY <1>1, <5>1, <5>2 DEF IInv, TypeOK
        <5> HIDE DEF q, s
        <5> QED
          BY <1>1, <5>3 DEF SentTo
      <4> QED
        BY <1>1, <4>1, <4>2 DEF SentTo
    <3>3. reqs'[r].acct = reqs[r].acct
      <4> DEFINE q == Calling(reqs[r].acct, FALSE, reqs[r].tried)
      <4>1. reqs' = [reqs EXCEPT ![r] = q]
        BY <3>2 DEF Claim, Send
      <4>2. q.acct = reqs[r].acct
        BY DEF Calling, Fresh
      <4> HIDE DEF q
      <4> QED
        BY <1>1, <4>1, <4>2 DEF IInv, TypeOK
    <3>4. reqs[r].acct \notin reqs[r].scan.knew
      BY <1>1, <3>1, <3>2 DEF Claim, IInv, RowsTell, ScanTells
    <3> QED
      BY <1>1, <2>2, <3>3, <3>4 DEF SentTo, SkipsMarked
  <2> QED
    BY <2>1, <2>2
<1>2. IInv /\ [Next]_vars
        => [\A r \in Requests, a \in Accounts : store # "kv" /\ SentTo(r, a) => SkipsMarked(r, a)]_vars
  BY <1>1
<1> QED
  BY <1>2, Invariance, PTL DEF Spec, MarkedSkipped

(***************************************************************************)
(* The server says "all exhausted" only when every active account refused. *)
(***************************************************************************)
THEOREM VerdictHonestCorrect == Spec => VerdictHonest
<1>1. ASSUME IInv, NEW r \in Requests,
             store = "memory" /\ (Arrive(r) \/ LimitInMemory(r)) /\ reqs'[r].reply = "all_exhausted"
      PROVE  Active \subseteq refused'
  BY <1>1, ServerStep
<1>2. IInv /\ [Next]_vars
        => [\A r \in Requests :
              store = "memory" /\ (Arrive(r) \/ LimitInMemory(r)) /\ reqs'[r].reply = "all_exhausted"
                => Active \subseteq refused']_vars
  BY <1>1
<1> QED
  BY <1>2, Invariance, PTL DEF Spec, VerdictHonest
=============================================================================
