----------------------------- MODULE AiGateway -----------------------------
(***************************************************************************)
(* The OpenAI-compatible gateway of the Node backend: the account router   *)
(* (accountRouter.ts), the six inference endpoints (openai.ts), the daily  *)
(* quota rows (quotaUsage.ts), the synchronisation with Cloudflare's own   *)
(* counters (quotaTracker.ts) and the account edits that race with them.   *)
(*                                                                         *)
(* SQLite is synchronous, so a handler is atomic between two awaits: one   *)
(* action is everything a request does from the reply it awaited to its    *)
(* next await.  Neurons are counted in units of the router's optimistic    *)
(* estimate (1000 neurons); a completion costs one unit.                   *)
(***************************************************************************)
EXTENDS Naturals, FiniteSets

CONSTANTS
    Accounts,       \* ids the accounts table ever hands out
    InitialAccounts,\* the accounts that exist when the process starts
    InitialPaid,    \* those of them on a paid or enterprise plan
    Requests,       \* inference requests, each one handled once
    Kinds,          \* the endpoints exercised, a subset of AllKinds
    Models,         \* model names
    PaidModels,     \* models whose metadata says require_workers_paid
    CachedModels,   \* models priced with cachedInput
    None,           \* no account
    Affinity,       \* CACHE_AFFINITY_THRESHOLD, in units
    MaxReport,      \* bound: largest usage Cloudflare reports
    MaxSyncs,       \* bound: synchronisations started
    MaxEdits,       \* bound: account edits, clears and cache expiries
    MaxDays         \* bound: day changes

AllKinds == {"chat", "stream", "image", "speech",
             "transcription", "translation", "embeddings"}

ASSUME AccountsAssumption ==
    /\ IsFiniteSet(Accounts)
    /\ InitialAccounts \subseteq Accounts
    /\ InitialPaid \subseteq InitialAccounts
    /\ None \notin Accounts
ASSUME ModelsAssumption ==
    /\ Models # {}
    /\ PaidModels \subseteq Models
    /\ CachedModels \subseteq Models
    /\ Kinds \subseteq AllKinds
ASSUME BoundsAssumption ==
    /\ Affinity \in Nat
    /\ MaxReport \in Nat
    /\ MaxSyncs \in Nat
    /\ MaxEdits \in Nat
    /\ MaxDays \in Nat

VARIABLES
    acct,      \* table accounts: row state, routable (active and feature ai), plan
    usage,     \* quota_usage.count of ai_neurons, today
    exhausted, \* accounts whose quota_usage.exhausted is 1 today
    snapshot,  \* the ai_neuron_snapshot entry of quotaCache
    lastUsed,  \* lastUsedAiAccount
    paidNames, \* paidModelNames
    editing,   \* progress of POST /accounts or PUT /accounts/:id, per account
    syncing,   \* accounts whose reply the running synchronisation awaits
    syncs,     \* synchronisations started (bounded by MaxSyncs)
    edits,     \* edits made (bounded by MaxEdits)
    day,       \* days since the process started (bounded by MaxDays)
    req        \* per request: the handler's locals and its answer

dbVars == <<acct, usage, exhausted>>
cacheVars == <<snapshot, lastUsed, paidNames>>
adminVars == <<editing, syncing, syncs, edits, day>>
vars == <<acct, usage, exhausted, snapshot, lastUsed, paidNames,
          editing, syncing, syncs, edits, day, req>>

AccountOrNone == Accounts \cup {None}
Replies == {"unasked", "asked", "network", "quota", "busy",
            "fatal", "broken", "empty", "ok"}
Answers == {"none", "ok", "upstream", "quota_exceeded",
            "no_accounts", "not_found", "bad_request", "internal"}
Phases == {"idle", "schema", "calling", "sleeping", "streaming",
           "stalled", "hung", "done"}

AccountRow == [row: {"unborn", "live", "deleted"},
               routable: BOOLEAN, paid: BOOLEAN]
Snapshot == [members: SUBSET Accounts,
             used: [Accounts -> Nat],
             paid: SUBSET Accounts]
\* skipped, quotaHits and tried are the handler's locals (skipped,
\* quotaExhaustedCount or quotaExhausted, totalTriedCount); usageSeen is
\* finalUsage of a stream; reply remembers what each account answered.
Request == [pc: Phases, kind: AllKinds, model: Models, spec: AccountOrNone,
            cur: AccountOrNone, skipped: SUBSET Accounts,
            quotaHits: Nat, tried: Nat, usageSeen: BOOLEAN, gone: BOOLEAN,
            answer: Answers, reply: [Accounts -> Replies]]

TypeOK ==
    /\ acct \in [Accounts -> AccountRow]
    /\ usage \in [Accounts -> Nat]
    /\ exhausted \subseteq Accounts
    /\ snapshot \in Snapshot
    /\ lastUsed \in AccountOrNone
    /\ paidNames \subseteq Models
    /\ editing \in [Accounts -> {"no", "adding", "saved", "probing"}]
    /\ syncing \subseteq Accounts
    /\ syncs \in Nat
    /\ edits \in Nat
    /\ day \in Nat
    /\ req \in [Requests -> Request]

-----------------------------------------------------------------------------
(***************************************************************************)
(* The account router                                                      *)
(***************************************************************************)

EmptySnapshot == [members |-> {}, used |-> [a \in Accounts |-> 0], paid |-> {}]

\* getActiveAccountsByFeature('ai')
Routable == {a \in Accounts : acct[a].row = "live" /\ acct[a].routable}

BuildSnapshot(exh) ==
    LET ranked == Routable \ exh
    IN  [members |-> ranked,
         used    |-> [a \in Accounts |-> IF a \in ranked THEN usage[a] ELSE 0],
         paid    |-> {a \in ranked : acct[a].paid}]

\* getAiAccountSnapshot: an empty cached list counts as a miss.
AiAccountSnapshot(snap, exh) ==
    IF snap.members # {} THEN snap ELSE BuildSnapshot(exh)

\* quotaCache clones on get and on set (node-cache's default), so what is
\* spliced out of, or added to, a list that was read back is lost; only the
\* removal of the last entry reaches the cache, as a del.
RemoveAccountFromAiCache(snap, a) ==
    IF snap.members = {a} THEN EmptySnapshot ELSE snap
UpdateAiCacheAfterUsage(snap, a) == snap

Selectable(snap, rec) ==
    (IF rec.model \in paidNames THEN snap.members \cap snap.paid
                                ELSE snap.members) \ rec.skipped

\* The optimistic estimate is lost with the clone it is written to.  Equal
\* usage leaves the order of the rows (created_at) open.
Cheapest(snap, S) == {a \in S : \A b \in S : snap.used[a] <= snap.used[b]}

\* selectBestAccount: the accounts it may return for the request rec.
BestAccounts(snap, rec) ==
    LET S == Selectable(snap, rec)
        sticky == /\ rec.model \in CachedModels
                  /\ lastUsed \in S
                  /\ \A b \in Cheapest(snap, S) :
                        snap.used[lastUsed] <= snap.used[b] + Affinity
    IN  IF sticky THEN {lastUsed} ELSE Cheapest(snap, S)

-----------------------------------------------------------------------------
(***************************************************************************)
(* The handlers                                                            *)
(***************************************************************************)

Rotating(rec) == rec.spec = None
RowExists(a) == acct[a].row = "live"

\* Chat and image requests log every failed call in audit_log, whose foreign
\* key makes the insert throw when the account was deleted meanwhile.
AuditsFailures(kind) == kind \in {"chat", "stream", "image"}
\* The endpoints that mark a specified account exhausted on error 4006.
MarksSpecified(kind) == kind \in {"chat", "stream", "image", "embeddings"}

\* Faulty variant: one refusal is enough on every endpoint.
AnyQuotaHit(rec) == rec.quotaHits > 0

\* Whether the end of the rotation is reported as quota exhaustion.
QuotaVerdict(rec) ==
    IF rec.kind = "image"
    THEN rec.quotaHits > 0 /\ rec.quotaHits = rec.tried
    ELSE rec.quotaHits > 0

Answered(rec, a) == [rec EXCEPT !.pc = "done", !.answer = a]

\* Faulty variant: the catch does not hand the error on.
Swallowed(rec) == [rec EXCEPT !.pc = "hung"]

\* An exception that reaches the outer catch goes to v1ErrorHandler, which
\* returns without ending the response once the headers are out; a stream
\* has flushed them at its first line.
Thrown(rec) == IF rec.kind = "stream" THEN [rec EXCEPT !.pc = "hung"]
                                      ELSE Answered(rec, "internal")

\* An exception inside the try of a specified account's call.
CaughtDirect(rec) ==
    IF AuditsFailures(rec.kind) /\ ~RowExists(rec.cur)
    THEN Thrown(rec) ELSE Answered(rec, "upstream")

Escaped(rec) == IF Rotating(rec) THEN Thrown(rec) ELSE CaughtDirect(rec)

Finish(r, rec) == /\ req' = [req EXCEPT ![r] = rec]
                  /\ UNCHANGED <<snapshot, lastUsed>>

Called(rec, a) == [rec EXCEPT !.pc = "calling", !.cur = a,
                              !.tried = @ + 1, !.reply[a] = "asked"]

\* The head of the while loop: select an account and send it the request, or
\* leave the loop.  snap and exh are the cache and the flags as they are now.
NextAttempt(r, rec, snap, exh) ==
    LET s == AiAccountSnapshot(snap, exh)
        best == BestAccounts(s, rec)
    IN  /\ snapshot' = s
        /\ \/ /\ best = {}
              /\ req' = [req EXCEPT ![r] =
                    Answered(rec, IF QuotaVerdict(rec) THEN "quota_exceeded"
                                                       ELSE "upstream")]
              /\ lastUsed' = lastUsed
           \/ \E a \in best :
              /\ req' = [req EXCEPT ![r] = Called(rec, a)]
              /\ lastUsed' = IF rec.model \in CachedModels THEN a ELSE lastUsed

\* A specified account is looked up among the active ones, and not replaced.
DirectAttempt(r, rec) ==
    /\ req' = [req EXCEPT ![r] = IF rec.spec \in Routable
                                 THEN Called(rec, rec.spec)
                                 ELSE Answered(rec, "not_found")]
    /\ UNCHANGED <<snapshot, lastUsed>>

Attempt(r, rec) == IF Rotating(rec) THEN NextAttempt(r, rec, snapshot, exhausted)
                                    ELSE DirectAttempt(r, rec)

\* POST /audio/speech picks an account for the model's schema first.
SpeechPrelude(r, rec) ==
    LET s == IF Rotating(rec) THEN AiAccountSnapshot(snapshot, exhausted)
                              ELSE snapshot
        targets == IF Rotating(rec) THEN BestAccounts(s, rec)
                                    ELSE Routable \cap {rec.spec}
    IN  /\ snapshot' = s
        /\ \/ /\ targets = {}
              /\ req' = [req EXCEPT ![r] = Answered(rec, "no_accounts")]
              /\ lastUsed' = lastUsed
           \/ \E a \in targets :
              /\ req' = [req EXCEPT ![r] = [rec EXCEPT !.pc = "schema"]]
              /\ lastUsed' = IF Rotating(rec) /\ rec.model \in CachedModels
                             THEN a ELSE lastUsed

Arrive(r, kind, model, spec) ==
    /\ req[r].pc = "idle"
    /\ LET rec == [req[r] EXCEPT !.kind = kind, !.model = model, !.spec = spec]
       IN  IF kind = "speech" THEN SpeechPrelude(r, rec) ELSE Attempt(r, rec)
    /\ UNCHANGED <<dbVars, paidNames, adminVars>>

\* A body without its required fields, or a model the endpoint cannot serve;
\* the chat endpoint forwards whatever it gets.
Reject(r, kind) ==
    /\ req[r].pc = "idle"
    /\ kind \notin {"chat", "stream"}
    /\ Finish(r, Answered([req[r] EXCEPT !.kind = kind], "bad_request"))
    /\ UNCHANGED <<dbVars, paidNames, adminVars>>

SchemaLoaded(r) ==
    /\ req[r].pc = "schema"
    /\ Attempt(r, req[r])
    /\ UNCHANGED <<dbVars, paidNames, adminVars>>

\* A chat request sleeps a second before it tries the next account.
WakeUp(r) ==
    /\ req[r].pc = "sleeping"
    /\ NextAttempt(r, req[r], snapshot, exhausted)
    /\ UNCHANGED <<dbVars, paidNames, adminVars>>

\* Faulty variant: the failed account is not skipped.
RotateUnskipped(r, rec, snap, exh) ==
    IF rec.kind \in {"chat", "stream"}
    THEN /\ req' = [req EXCEPT ![r] = [rec EXCEPT !.pc = "sleeping"]]
         /\ snapshot' = snap
         /\ lastUsed' = lastUsed
    ELSE NextAttempt(r, rec, snap, exh)

\* What every failed attempt of a rotating request does last.
Rotate(r, rec, snap, exh) ==
    LET skip == [rec EXCEPT !.skipped = @ \cup {rec.cur}]
    IN  IF rec.kind \in {"chat", "stream"}
        THEN /\ req' = [req EXCEPT ![r] = [skip EXCEPT !.pc = "sleeping"]]
             /\ snapshot' = snap
             /\ lastUsed' = lastUsed
        ELSE NextAttempt(r, skip, snap, exh)

\* rec, the request r with the reply of the account it awaits noted.
Replied(r, reply) == [req[r] EXCEPT !.reply[req[r].cur] = reply]

\* proxyFetch throws: connection refused or reset, or its timeout.
NetworkError(r) ==
    LET rec == Replied(r, "network")
        threw == AuditsFailures(rec.kind) /\ ~RowExists(rec.cur)
    IN  /\ req[r].pc = "calling"
        /\ IF Rotating(rec) /\ ~threw
           THEN Rotate(r, rec, snapshot, exhausted)
           ELSE Finish(r, Escaped(rec))
        /\ UNCHANGED <<dbVars, paidNames, adminVars>>

\* A status of RETRYABLE_STATUS without the neuron-limit error.
UpstreamBusy(r) ==
    LET rec == Replied(r, "busy")
        threw == AuditsFailures(rec.kind) /\ ~RowExists(rec.cur)
    IN  /\ req[r].pc = "calling"
        /\ \/ Rotating(rec) /\ ~threw /\ Rotate(r, rec, snapshot, exhausted)
           \/ Rotating(rec) /\ threw  /\ Finish(r, Thrown(rec))
           \/ ~Rotating(rec) /\ Finish(r, Answered(rec, "upstream"))
        /\ UNCHANGED <<dbVars, paidNames, adminVars>>

\* Error 4006: the account's free neurons of the day are spent.  The row of
\* a deleted account cannot be written, and the insert throws.
NeuronLimit(r) ==
    LET rec == [Replied(r, "quota") EXCEPT !.quotaHits = @ + 1]
        a == rec.cur
        marks == Rotating(rec) \/ MarksSpecified(rec.kind)
        snap == RemoveAccountFromAiCache(snapshot, a)
    IN  /\ req[r].pc = "calling"
        /\ IF marks /\ ~RowExists(a)
           THEN /\ Finish(r, Escaped(rec))
                /\ UNCHANGED exhausted
           ELSE /\ exhausted' = IF marks THEN exhausted \cup {a} ELSE exhausted
                /\ IF Rotating(rec)
                   THEN Rotate(r, rec, snap, exhausted')
                   ELSE /\ req' = [req EXCEPT ![r] = Answered(rec, "upstream")]
                        /\ snapshot' = IF marks THEN snap ELSE snapshot
                        /\ UNCHANGED lastUsed
        /\ UNCHANGED <<acct, usage, paidNames, adminVars>>

\* Faulty variant: every error status is retried on the next account.
RetryAnyStatus(r) ==
    LET rec == Replied(r, "fatal")
    IN  /\ req[r].pc = "calling"
        /\ IF Rotating(rec) THEN Rotate(r, rec, snapshot, exhausted)
                            ELSE Finish(r, Answered(rec, "upstream"))
        /\ UNCHANGED <<dbVars, paidNames, adminVars>>

\* Any other error status: returned to the client as it is.
UpstreamFatal(r) ==
    /\ req[r].pc = "calling"
    /\ Finish(r, Answered(Replied(r, "fatal"), "upstream"))
    /\ UNCHANGED <<dbVars, paidNames, adminVars>>

\* The body of the reply cannot be read or parsed.  (A stream's body is read
\* by the stream actions; here it is the body of an error reply.)
BrokenBody(r) ==
    /\ req[r].pc = "calling"
    /\ Finish(r, Escaped(Replied(r, "broken")))
    /\ UNCHANGED <<dbVars, paidNames, adminVars>>

\* A success whose body holds no result: speech and transcription answer 502,
\* image and translation throw, and none of them is accounted.
EmptyResult(r) ==
    LET rec == Replied(r, "empty")
    IN  /\ req[r].pc = "calling"
        /\ \/ /\ rec.kind \in {"speech", "transcription"}
              /\ Finish(r, Answered(rec, "upstream"))
           \/ /\ rec.kind \in {"image", "translation"}
              /\ Finish(r, Escaped(rec))
        /\ UNCHANGED <<dbVars, paidNames, adminVars>>

\* Faulty variant: the new count is the cached one plus this completion.
SuccessFromCache(r) ==
    LET rec == Replied(r, "ok")
        a == rec.cur
    IN  /\ req[r].pc = "calling"
        /\ rec.kind # "stream"
        /\ IF RowExists(a)
           THEN /\ usage' = [usage EXCEPT ![a] = snapshot.used[a] + 1]
                /\ Finish(r, Answered(rec, "ok"))
           ELSE Finish(r, Escaped(rec)) /\ UNCHANGED usage
        /\ UNCHANGED <<acct, exhausted, paidNames, adminVars>>

\* The result is accounted (incrementQuota) before it is sent.
Success(r) ==
    LET rec == Replied(r, "ok")
        a == rec.cur
    IN  /\ req[r].pc = "calling"
        /\ rec.kind # "stream"
        /\ IF RowExists(a)
           THEN /\ usage' = [usage EXCEPT ![a] = @ + 1]
                /\ snapshot' = UpdateAiCacheAfterUsage(snapshot, a)
                /\ req' = [req EXCEPT ![r] = Answered(rec, "ok")]
                /\ UNCHANGED lastUsed
           ELSE Finish(r, Escaped(rec)) /\ UNCHANGED usage
        /\ UNCHANGED <<acct, exhausted, paidNames, adminVars>>

StreamStart(r) ==
    /\ req[r].pc = "calling"
    /\ req[r].kind = "stream"
    /\ Finish(r, [Replied(r, "ok") EXCEPT !.pc = "streaming"])
    /\ UNCHANGED <<dbVars, paidNames, adminVars>>

\* Faulty variant: a stream is accounted without its usage chunk.
StreamEndEstimated(r, seen) ==
    LET rec == [req[r] EXCEPT !.usageSeen = seen]
        a == rec.cur
    IN  /\ rec.pc = "streaming"
        /\ req' = [req EXCEPT ![r] = Answered(rec, "ok")]
        /\ usage' = IF RowExists(a) THEN [usage EXCEPT ![a] = @ + 1] ELSE usage
        /\ UNCHANGED <<acct, exhausted, cacheVars, adminVars>>

\* The stream ends, or its source fails; the response is ended, then the
\* usage is accounted if a chunk carried it and the account still exists.
StreamEnd(r, seen) ==
    LET rec == [req[r] EXCEPT !.usageSeen = seen]
        a == rec.cur
    IN  /\ rec.pc = "streaming"
        /\ req' = [req EXCEPT ![r] = Answered(rec, "ok")]
        /\ IF seen /\ RowExists(a)
           THEN /\ usage' = [usage EXCEPT ![a] = @ + 1]
                /\ snapshot' = UpdateAiCacheAfterUsage(snapshot, a)
           ELSE UNCHANGED <<usage, snapshot>>
        /\ UNCHANGED <<acct, exhausted, lastUsed, paidNames, adminVars>>

\* The client of a stream goes away; res.write then returns false and no
\* drain event follows, so the next chunk blocks processAccount for good.
ClientGone(r) ==
    /\ req[r].kind = "stream"
    /\ req[r].pc \in {"calling", "sleeping", "streaming"}
    /\ ~req[r].gone
    /\ Finish(r, [req[r] EXCEPT !.gone = TRUE])
    /\ UNCHANGED <<dbVars, paidNames, adminVars>>

StreamStall(r) ==
    /\ req[r].pc = "streaming"
    /\ req[r].gone
    /\ Finish(r, [req[r] EXCEPT !.pc = "stalled"])
    /\ UNCHANGED <<dbVars, paidNames, adminVars>>

\* GET /models refreshes the paid-model names from the full model list.
ListModels ==
    LET s == AiAccountSnapshot(snapshot, exhausted)
    IN  /\ paidNames # PaidModels
        /\ snapshot' = s
        /\ s.members # {}
        /\ paidNames' = PaidModels
        /\ UNCHANGED <<dbVars, lastUsed, adminVars, req>>

-----------------------------------------------------------------------------
(***************************************************************************)
(* Synchronisation with Cloudflare, the administrator and the clock        *)
(***************************************************************************)

\* syncUsageFromCloudflare; a call while one runs joins it.
SyncStart ==
    /\ syncing = {}
    /\ syncs < MaxSyncs
    /\ Routable # {}
    /\ syncing' = Routable
    /\ syncs' = syncs + 1
    /\ UNCHANGED <<dbVars, cacheVars, editing, edits, day, req>>

\* Faulty variant: a figure from Cloudflare clears the mark of the day.
SyncReplyClears(a, n) ==
    /\ a \in syncing
    /\ syncing' = syncing \ {a}
    /\ usage' = IF n > 0 /\ RowExists(a) THEN [usage EXCEPT ![a] = n] ELSE usage
    /\ exhausted' = IF n > 0 THEN exhausted \ {a} ELSE exhausted
    /\ snapshot' = IF syncing' = {} THEN EmptySnapshot ELSE snapshot
    /\ UNCHANGED <<acct, lastUsed, paidNames, editing, syncs, edits, day, req>>

\* One account's figure arrives; zero and failure keep the local estimate.
\* When the last one is in, the caller invalidates the snapshot.
SyncReply(a, n) ==
    /\ a \in syncing
    /\ syncing' = syncing \ {a}
    /\ usage' = IF n > 0 /\ RowExists(a) THEN [usage EXCEPT ![a] = n] ELSE usage
    /\ snapshot' = IF syncing' = {} THEN EmptySnapshot ELSE snapshot
    /\ UNCHANGED <<acct, exhausted, lastUsed, paidNames, editing, syncs, edits, day, req>>

Edit == edits < MaxEdits /\ edits' = edits + 1

\* POST /accounts: the new row is active at once, the plan is probed and the
\* caches are cleared last.
AddAccount(a, paid) ==
    /\ Edit
    /\ acct[a].row = "unborn"
    /\ acct' = [acct EXCEPT ![a] = [row |-> "live", routable |-> TRUE, paid |-> paid]]
    /\ editing' = [editing EXCEPT ![a] = "adding"]
    /\ UNCHANGED <<usage, exhausted, cacheVars, syncing, syncs, day, req>>

FinishAdd(a, paid) ==
    /\ editing[a] = "adding"
    /\ acct' = IF RowExists(a) THEN [acct EXCEPT ![a].paid = paid] ELSE acct
    /\ editing' = [editing EXCEPT ![a] = "no"]
    /\ snapshot' = EmptySnapshot
    /\ UNCHANGED <<usage, exhausted, lastUsed, paidNames, syncing, syncs, edits, day, req>>

\* PUT /accounts/:id saves, awaits Cloudflare, clears the caches, and with
\* new credentials probes the plan, which it stores without clearing again.
SaveAccount(a, paid) ==
    /\ Edit
    /\ RowExists(a) /\ editing[a] = "no"
    /\ acct' = [acct EXCEPT ![a].paid = paid]
    /\ editing' = [editing EXCEPT ![a] = "saved"]
    /\ UNCHANGED <<usage, exhausted, cacheVars, syncing, syncs, day, req>>

FinishSave(a, probes) ==
    /\ editing[a] = "saved"
    /\ snapshot' = EmptySnapshot
    /\ editing' = [editing EXCEPT ![a] =
                      IF probes /\ RowExists(a) THEN "probing" ELSE "no"]
    /\ UNCHANGED <<dbVars, lastUsed, paidNames, syncing, syncs, edits, day, req>>

StoreProbe(a, paid) ==
    /\ editing[a] = "probing"
    /\ acct' = IF RowExists(a) THEN [acct EXCEPT ![a].paid = paid] ELSE acct
    /\ editing' = [editing EXCEPT ![a] = "no"]
    /\ UNCHANGED <<usage, exhausted, cacheVars, syncing, syncs, edits, day, req>>

SetFeatures(a, ai) ==
    /\ Edit
    /\ RowExists(a)
    /\ acct' = [acct EXCEPT ![a].routable = ai]
    /\ snapshot' = EmptySnapshot
    /\ UNCHANGED <<usage, exhausted, lastUsed, paidNames, editing, syncing, syncs, day, req>>

\* Deleting a row cascades to its quota rows.  DELETE /:id leaves the caches
\* alone; POST /batch/delete clears them.
DeleteAccount(a, batch) ==
    /\ Edit
    /\ RowExists(a)
    /\ acct' = [acct EXCEPT ![a].row = "deleted"]
    /\ usage' = [usage EXCEPT ![a] = 0]
    /\ exhausted' = exhausted \ {a}
    /\ snapshot' = IF batch THEN EmptySnapshot ELSE snapshot
    /\ UNCHANGED <<lastUsed, paidNames, editing, syncing, syncs, day, req>>

\* POST /accounts/:id/clear-exhausted
ClearExhausted(a) ==
    /\ Edit
    /\ RowExists(a)
    /\ exhausted' = exhausted \ {a}
    /\ UNCHANGED <<acct, usage, cacheVars, editing, syncing, syncs, day, req>>

\* AI_CACHE_TTL passes, or POST /settings/cache/clear.
ClearCache ==
    /\ Edit
    /\ snapshot.members # {}
    /\ snapshot' = EmptySnapshot
    /\ UNCHANGED <<dbVars, lastUsed, paidNames, editing, syncing, syncs, day, req>>

\* The date changes: today's rows do not exist yet.
DayChange ==
    /\ day < MaxDays
    /\ day' = day + 1
    /\ usage' = [a \in Accounts |-> 0]
    /\ exhausted' = {}
    /\ UNCHANGED <<acct, cacheVars, editing, syncing, syncs, edits, req>>

-----------------------------------------------------------------------------
NewRequest == [pc |-> "idle", kind |-> "chat", model |-> CHOOSE m \in Models : TRUE,
               spec |-> None, cur |-> None, skipped |-> {}, quotaHits |-> 0,
               tried |-> 0, usageSeen |-> FALSE, gone |-> FALSE,
               answer |-> "none", reply |-> [a \in Accounts |-> "unasked"]]

Init ==
    /\ acct = [a \in Accounts |->
                 [row      |-> IF a \in InitialAccounts THEN "live" ELSE "unborn",
                  routable |-> a \in InitialAccounts,
                  paid     |-> a \in InitialPaid]]
    /\ usage = [a \in Accounts |-> 0]
    /\ exhausted = {}
    /\ snapshot = EmptySnapshot
    /\ lastUsed = None
    /\ paidNames = {}
    /\ editing = [a \in Accounts |-> "no"]
    /\ syncing = {}
    /\ syncs = 0
    /\ edits = 0
    /\ day = 0
    /\ req = [r \in Requests |-> NewRequest]

Handle(r) ==
    \/ SchemaLoaded(r)
    \/ WakeUp(r)
    \/ NetworkError(r)
    \/ UpstreamBusy(r)
    \/ NeuronLimit(r)
    \/ UpstreamFatal(r)
    \/ BrokenBody(r)
    \/ EmptyResult(r)
    \/ Success(r)
    \/ StreamStart(r)
    \/ \E seen \in BOOLEAN : StreamEnd(r, seen)
    \/ StreamStall(r)

Client(r) ==
    \/ \E k \in Kinds, m \in Models, s \in AccountOrNone : Arrive(r, k, m, s)
    \/ \E k \in Kinds : Reject(r, k)
    \/ ClientGone(r)

Admin(a) ==
    \/ \E paid \in BOOLEAN : AddAccount(a, paid)
    \/ \E paid \in BOOLEAN : FinishAdd(a, paid)
    \/ \E paid \in BOOLEAN : SaveAccount(a, paid)
    \/ \E probes \in BOOLEAN : FinishSave(a, probes)
    \/ \E paid \in BOOLEAN : StoreProbe(a, paid)
    \/ \E ai \in BOOLEAN : SetFeatures(a, ai)
    \/ \E batch \in BOOLEAN : DeleteAccount(a, batch)
    \/ ClearExhausted(a)

Environment ==
    \/ ListModels
    \/ SyncStart
    \/ \E a \in Accounts, n \in 0..MaxReport : SyncReply(a, n)
    \/ ClearCache
    \/ DayChange

Next ==
    \/ \E r \in Requests : Handle(r) \/ Client(r)
    \/ \E a \in Accounts : Admin(a)
    \/ Environment

Spec == Init /\ [][Next]_vars

\* Every call ends (proxyFetch has a timeout) and every timer fires; nothing
\* obliges a client, an administrator or the clock to act.
FairSpec == Spec /\ \A r \in Requests : WF_vars(Handle(r))
=============================================================================
