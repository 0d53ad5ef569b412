--------------------------- MODULE WorkerGateway ---------------------------
(***************************************************************************)
(* The OpenAI-compatible gateway of the Cloudflare Worker build: account   *)
(* selection (quotaTracker.ts), the inference endpoints (openai.ts) and    *)
(* the quota rows of D1 (db/models.ts).                                    *)
(*                                                                         *)
(* Here every query and every KV operation is an await, so a selection is  *)
(* many steps and everything may change between them.  The snapshot lives  *)
(* in KV when the binding exists (store "kv") and is otherwise built anew  *)
(* from D1 by each selection ("d1").                                       *)
(*                                                                         *)
(* Ranking by usage, optimistic estimate and affinity only orders the      *)
(* candidates; here any candidate may come first.  A completion costs one  *)
(* unit of neurons.                                                        *)
(***************************************************************************)
EXTENDS Naturals, FiniteSets

CONSTANTS
    Accounts,        \* ids the accounts table ever hands out
    InitialAccounts, \* those that exist at the start
    PaidAccounts,    \* those on a paid or enterprise plan
    Requests,        \* inference requests, each one handled once
    KindsOf,         \* per request: the endpoints it may be sent to
    Stores,          \* the builds considered, a subset of {"kv", "d1"}
    None,            \* no account, no snapshot
    MaxReport,       \* bound: largest usage Cloudflare reports
    MaxSyncs,        \* bound: synchronisations started
    MaxEdits,        \* bound: account edits, clears and expiries of the KV entry
    MaxDays          \* bound: day changes

AllKinds == {"chat", "stream", "image", "speech",
             "transcription", "translation", "embeddings"}
ChatKinds == {"chat", "stream"}

ASSUME AccountsAssumption ==
    /\ IsFiniteSet(Accounts)
    /\ IsFiniteSet(Requests)
    /\ InitialAccounts \subseteq Accounts
    /\ None \notin Accounts
    /\ \A S \in SUBSET Accounts : S # None
ASSUME KindsAssumption ==
    /\ KindsOf \in [Requests -> SUBSET AllKinds]
    /\ Stores \subseteq {"kv", "d1"}
ASSUME BoundsAssumption ==
    /\ MaxReport \in Nat
    /\ MaxSyncs \in Nat
    /\ MaxEdits \in Nat
    /\ MaxDays \in Nat

VARIABLES
    store,     \* whether the KV binding exists
    acct,      \* table accounts: row, routable (active and feature ai), account_id known
    usage,     \* quota_usage.count of ai_neurons, today
    exhausted, \* accounts whose quota_usage.exhausted is 1 today
    kvSnap,    \* the KV entry ai_neuron_snapshot: accounts, or None
    syncing,   \* per account: replies of Cloudflare that synchronisations await
    syncs,     \* synchronisations started (bounded by MaxSyncs)
    edits,     \* edits made (bounded by MaxEdits)
    day,       \* days since the start (bounded by MaxDays)
    req        \* per request: the handler's locals and its answer

dbVars == <<acct, usage, exhausted>>
worldVars == <<syncing, syncs, edits, day>>
vars == <<store, acct, usage, exhausted, kvSnap, syncing, syncs, edits, day, req>>

AccountOrNone == Accounts \cup {None}
Replies == {"unasked", "asked", "network", "quota", "busy",
            "fatal", "broken", "empty", "ok"}
Answers == {"none", "ok", "upstream", "quota_exceeded",
            "not_found", "bad_request", "internal"}
\* What the handler awaits: the account it names, the KV entry, the accounts to
\* join it with, the KV entry a second time, the accounts, the usage rows, the
\* KV write, the optimistic write, the call and so on.
Phases == {"idle", "lookup", "select", "join", "recheck", "accounts", "usage", "put",
           "claim", "calling", "marking", "streaming", "counting", "replying",
           "done", "cancelled"}

AccountRow == [row: {"unborn", "live", "deleted"}, routable: BOOLEAN, known: BOOLEAN]
\* rows, skipped, hits and tried are locals (snapshot, skipped, quotaExhausted
\* or quotaExhaustedCount, totalTriedCount, which only images keep; here the
\* chat loops, whose calls are unbounded, are the ones that do not count);
\* usageSeen is finalUsage of a stream; reply is what each account answered.
Request == [pc: Phases, kind: AllKinds, spec: AccountOrNone, cur: AccountOrNone,
            rows: SUBSET Accounts, skipped: SUBSET Accounts, hits: Nat, tried: Nat,
            usageSeen: BOOLEAN, answer: Answers, reply: [Accounts -> Replies]]

TypeOK ==
    /\ store \in Stores
    /\ acct \in [Accounts -> AccountRow]
    /\ usage \in [Accounts -> Nat]
    /\ exhausted \subseteq Accounts
    /\ kvSnap \in (SUBSET Accounts) \cup {None}
    /\ syncing \in [Accounts -> Nat]
    /\ syncs \in Nat
    /\ edits \in Nat
    /\ day \in Nat
    /\ req \in [Requests -> Request]

-----------------------------------------------------------------------------
(***************************************************************************)
(* How the endpoints differ.  skips: the failures after which the rotation *)
(* does not ask the account again.  empty: what becomes of a success whose *)
(* body holds no result.  all: exhaustion is reported only if every call   *)
(* was refused with 4006, not if one was.                                  *)
(***************************************************************************)

ChatEndpoint == [skips |-> {"network", "quota"}, empty |-> "kept", all |-> FALSE]
StreamEndpoint == [skips |-> {"network", "quota"}, empty |-> "kept", all |-> FALSE]

\* Faulty variant: one refusal among the calls is enough.
ImageEndpointAny ==
    [skips |-> {"network", "quota", "busy"}, empty |-> "thrown", all |-> FALSE]

ImageEndpoint ==
    [skips |-> {"network", "quota", "busy"}, empty |-> "thrown", all |-> TRUE]

\* Faulty variant: a busy account may be asked again.
SpeechEndpointBusy ==
    [skips |-> {"network", "quota"}, empty |-> "answered", all |-> FALSE]

SpeechEndpoint ==
    [skips |-> {"network", "quota", "busy"}, empty |-> "answered", all |-> FALSE]
TranscriptionEndpoint ==
    [skips |-> {"network", "quota", "busy"}, empty |-> "answered", all |-> FALSE]
TranslationEndpoint ==
    [skips |-> {"network", "quota", "busy"}, empty |-> "thrown", all |-> FALSE]
EmbeddingsEndpoint ==
    [skips |-> {"network", "quota", "busy"}, empty |-> "kept", all |-> FALSE]

Endpoint == [chat |-> ChatEndpoint, stream |-> StreamEndpoint,
             image |-> ImageEndpoint, speech |-> SpeechEndpoint,
             transcription |-> TranscriptionEndpoint,
             translation |-> TranslationEndpoint,
             embeddings |-> EmbeddingsEndpoint]

-----------------------------------------------------------------------------
(***************************************************************************)
(* The accounts and the end of a request                                   *)
(***************************************************************************)

\* getActiveAccountsByFeature(db, 'ai')
Routable == {a \in Accounts : acct[a].row = "live" /\ acct[a].routable}
RowExists(a) == acct[a].row = "live"
Rotating(rec) == rec.spec = None

Answered(rec, a) == [rec EXCEPT !.pc = "done", !.answer = a]

\* An exception goes to app.onError; in a stream it makes hono close it.
Thrown(rec) == Answered(rec, "internal")

\* Only this request's locals change.
Becomes(r, rec) == req' = [req EXCEPT ![r] = rec]

QuotaVerdict(rec) ==
    /\ rec.hits > 0
    /\ Endpoint[rec.kind].all => rec.hits = rec.tried

Called(rec, a) ==
    [rec EXCEPT !.pc = "calling", !.cur = a, !.reply[a] = "asked",
                !.tried = IF rec.kind \in ChatKinds THEN @ ELSE @ + 1]

-----------------------------------------------------------------------------
(***************************************************************************)
(* selectBestAccount                                                       *)
(***************************************************************************)

\* The selection returns null: the loop ends with its verdict.
NoAccount(rec) ==
    Answered([rec EXCEPT !.rows = {}],
             IF QuotaVerdict(rec) THEN "quota_exceeded" ELSE "upstream")

\* What follows the reads: the paid filter, when this isolate knows the model
\* to be a paid one, and the first account of the rest that is not skipped.
Choose(r, rec) ==
    \E knows \in BOOLEAN :
        LET candidates == (IF knows THEN rec.rows \cap PaidAccounts ELSE rec.rows)
                             \ rec.skipped
        IN  \/ candidates = {} /\ Becomes(r, NoAccount(rec))
            \/ \E a \in candidates :
               Becomes(r, [rec EXCEPT !.pc = "claim", !.cur = a, !.rows = {a}])

\* With KV, its entry is read first; an empty list is a hit too.
ReadSnapshot(r) ==
    /\ req[r].pc = "select"
    /\ Becomes(r, IF store = "d1" THEN [req[r] EXCEPT !.pc = "accounts"]
                  ELSE IF kvSnap = None THEN [req[r] EXCEPT !.pc = "recheck"]
                  ELSE [req[r] EXCEPT !.pc = "join", !.rows = kvSnap])
    /\ UNCHANGED <<store, dbVars, kvSnap, worldVars>>

\* After a miss getAiSnapshot reads the entry once more.  If it was written
\* meanwhile, its rows lack the accounts only the caller would have joined,
\* and whatever is chosen the selection returns null.
RecheckSnapshot(r) ==
    /\ req[r].pc = "recheck"
    /\ Becomes(r, IF kvSnap = None THEN [req[r] EXCEPT !.pc = "accounts"]
                  ELSE NoAccount(req[r]))
    /\ UNCHANGED <<store, dbVars, kvSnap, worldVars>>

ReadAccounts(r) ==
    /\ req[r].pc = "accounts"
    /\ Becomes(r, [req[r] EXCEPT !.pc = "usage", !.rows = Routable])
    /\ UNCHANGED <<store, dbVars, kvSnap, worldVars>>

\* A hit is joined with the accounts as they are now.
JoinAccounts(r) ==
    /\ req[r].pc = "join"
    /\ Choose(r, [req[r] EXCEPT !.rows = @ \cap Routable])
    /\ UNCHANGED <<store, dbVars, kvSnap, worldVars>>

\* Faulty variant: the exhausted accounts stay in the list.
ReadUsageUnfiltered(r) ==
    /\ req[r].pc = "usage"
    /\ IF store = "kv" THEN Becomes(r, [req[r] EXCEPT !.pc = "put"])
                       ELSE Choose(r, req[r])
    /\ UNCHANGED <<store, dbVars, kvSnap, worldVars>>

\* The usage rows of the day are read and the exhausted accounts dropped.
ReadUsage(r) ==
    LET rec == [req[r] EXCEPT !.rows = @ \ exhausted]
    IN  /\ req[r].pc = "usage"
        /\ IF store = "kv" THEN Becomes(r, [rec EXCEPT !.pc = "put"])
                           ELSE Choose(r, rec)
        /\ UNCHANGED <<store, dbVars, kvSnap, worldVars>>

PutSnapshot(r) ==
    /\ req[r].pc = "put"
    /\ kvSnap' = req[r].rows
    /\ Choose(r, req[r])
    /\ UNCHANGED <<store, dbVars, worldVars>>

\* The optimistic estimate is written: in KV always, in D1 as a row of the
\* account, whose foreign key fails when the account is gone.  An account
\* without account_id is then skipped, any other is called.
Claim(r) ==
    LET rec == [req[r] EXCEPT !.rows = {}]
        a == rec.cur
    IN  /\ req[r].pc = "claim"
        /\ Becomes(r, IF store = "d1" /\ ~RowExists(a) THEN Thrown(rec)
                      ELSE IF acct[a].known THEN Called(rec, a)
                      ELSE [rec EXCEPT !.pc = "select", !.skipped = @ \cup {a}])
        /\ UNCHANGED <<store, dbVars, kvSnap, worldVars>>

\* Elsewhere than in the chat endpoint the stored credentials are decrypted
\* outside the handler's try.
UnreadableCredentials(r) ==
    LET rec == [req[r] EXCEPT !.rows = {}]
    IN  /\ rec.kind \notin ChatKinds
        /\ \/ rec.pc = "lookup" /\ rec.spec \in Routable /\ acct[rec.spec].known
           \/ rec.pc = "claim" /\ acct[rec.cur].known
        /\ Becomes(r, Thrown(rec))
        /\ UNCHANGED <<store, dbVars, kvSnap, worldVars>>

-----------------------------------------------------------------------------
(***************************************************************************)
(* The handlers                                                            *)
(***************************************************************************)

Arrive(r, kind, spec) ==
    /\ req[r].pc = "idle"
    /\ Becomes(r, [req[r] EXCEPT !.kind = kind, !.spec = spec,
                      !.pc = IF spec = None THEN "select" ELSE "lookup"])
    /\ UNCHANGED <<store, dbVars, kvSnap, worldVars>>

\* A body without its required fields, or a model the endpoint cannot serve;
\* the chat endpoint forwards whatever it gets.
Reject(r, kind) ==
    /\ req[r].pc = "idle"
    /\ kind \notin ChatKinds
    /\ Becomes(r, Answered([req[r] EXCEPT !.kind = kind], "bad_request"))
    /\ UNCHANGED <<store, dbVars, kvSnap, worldVars>>

\* X-Account-ID: the account is looked up among the routable ones by its
\* account_id, and not replaced.
Lookup(r) ==
    /\ req[r].pc = "lookup"
    /\ LET a == req[r].spec
       IN  Becomes(r, IF a \in Routable /\ acct[a].known
                      THEN Called(req[r], a) ELSE Answered(req[r], "not_found"))
    /\ UNCHANGED <<store, dbVars, kvSnap, worldVars>>

\* rec, the request r with the reply of the account it awaits noted.
Replied(r, reply) == [req[r] EXCEPT !.reply[req[r].cur] = reply]

\* Faulty variant: only error 4006 makes the rotation skip the account.
RotateUnskipped(rec, failure) ==
    [rec EXCEPT !.pc = "select",
                !.skipped = IF failure = "quota" THEN @ \cup {rec.cur} ELSE @]

\* A failed attempt goes on to the next account (a chat request after a
\* second), or ends the request that names its account.
Rotate(rec, failure) ==
    [rec EXCEPT !.pc = "select",
                !.skipped = IF failure \in Endpoint[rec.kind].skips
                            THEN @ \cup {rec.cur} ELSE @]

Failed(rec, failure) ==
    IF Rotating(rec) THEN Rotate(rec, failure) ELSE Answered(rec, "upstream")

\* fetch throws: refused, reset, or aborted by its timer.
NetworkError(r) ==
    /\ req[r].pc = "calling"
    /\ Becomes(r, Failed(Replied(r, "network"), "network"))
    /\ UNCHANGED <<store, dbVars, kvSnap, worldVars>>

\* A status of RETRYABLE_STATUS without the neuron-limit error.
UpstreamBusy(r) ==
    /\ req[r].pc = "calling"
    /\ Becomes(r, Failed(Replied(r, "busy"), "busy"))
    /\ UNCHANGED <<store, dbVars, kvSnap, worldVars>>

\* Error 4006; the mark is awaited.
NeuronLimit(r) ==
    /\ req[r].pc = "calling"
    /\ Becomes(r, [Replied(r, "quota") EXCEPT !.pc = "marking", !.hits = @ + 1])
    /\ UNCHANGED <<store, dbVars, kvSnap, worldVars>>

\* setExhausted: the row of a deleted account cannot be written.
MarkExhausted(r) ==
    /\ req[r].pc = "marking"
    /\ IF RowExists(req[r].cur)
       THEN /\ exhausted' = exhausted \cup {req[r].cur}
            /\ Becomes(r, Failed(req[r], "quota"))
       ELSE /\ exhausted' = exhausted
            /\ Becomes(r, Thrown(req[r]))
    /\ UNCHANGED <<store, acct, usage, kvSnap, worldVars>>

UpstreamFatal(r) ==
    /\ req[r].pc = "calling"
    /\ Becomes(r, Answered(Replied(r, "fatal"), "upstream"))
    /\ UNCHANGED <<store, dbVars, kvSnap, worldVars>>

\* The body of the reply cannot be read or parsed; nothing catches it.
BrokenBody(r) ==
    /\ req[r].pc = "calling"
    /\ Becomes(r, Thrown(Replied(r, "broken")))
    /\ UNCHANGED <<store, dbVars, kvSnap, worldVars>>

\* A success without a result is answered 502 or thrown, never accounted.
EmptyResult(r) ==
    LET rec == Replied(r, "empty")
    IN  /\ req[r].pc = "calling"
        /\ \/ /\ Endpoint[rec.kind].empty = "answered"
              /\ Becomes(r, Answered(rec, "upstream"))
           \/ /\ Endpoint[rec.kind].empty = "thrown"
              /\ Becomes(r, Thrown(rec))
        /\ UNCHANGED <<store, dbVars, kvSnap, worldVars>>

Success(r) ==
    /\ req[r].pc = "calling"
    /\ Becomes(r, [Replied(r, "ok") EXCEPT
                     !.pc = IF req[r].kind = "stream" THEN "streaming" ELSE "counting"])
    /\ UNCHANGED <<store, dbVars, kvSnap, worldVars>>

\* pipeCfStream: the stream ends or breaks; [DONE] is written, and the usage
\* is accounted if a chunk carried it.
StreamEnd(r, seen) ==
    /\ req[r].pc = "streaming"
    /\ Becomes(r, IF seen THEN [req[r] EXCEPT !.pc = "counting", !.usageSeen = TRUE]
                          ELSE Answered(req[r], "ok"))
    /\ UNCHANGED <<store, dbVars, kvSnap, worldVars>>

\* Faulty variant: the count is what the handler read before, plus one.
CountFromStart(r) ==
    LET a == req[r].cur
    IN  /\ req[r].pc = "counting"
        /\ usage' = [usage EXCEPT ![a] = IF RowExists(a) THEN 1 ELSE @]
        /\ Becomes(r, [req[r] EXCEPT !.pc = "replying"])
        /\ UNCHANGED <<store, acct, exhausted, kvSnap, worldVars>>

\* incrementQuota: one statement, which fails when the account is gone; a
\* stream has reached its client by then.
Count(r) ==
    LET a == req[r].cur
    IN  /\ req[r].pc = "counting"
        /\ IF RowExists(a)
           THEN /\ usage' = [usage EXCEPT ![a] = @ + 1]
                /\ Becomes(r, [req[r] EXCEPT !.pc = "replying"])
           ELSE /\ usage' = usage
                /\ Becomes(r, IF req[r].kind = "stream" THEN Answered(req[r], "ok")
                                                        ELSE Thrown(req[r]))
        /\ UNCHANGED <<store, acct, exhausted, kvSnap, worldVars>>

\* The estimate is cleared, the audit record tried, the result sent.
Deliver(r) ==
    /\ req[r].pc = "replying"
    /\ Becomes(r, Answered(req[r], "ok"))
    /\ UNCHANGED <<store, dbVars, kvSnap, worldVars>>

\* The client goes away and the runtime drops what is left of the handler.
Cancel(r) ==
    /\ req[r].pc \notin {"idle", "done", "cancelled"}
    /\ Becomes(r, [req[r] EXCEPT !.pc = "cancelled", !.rows = {}])
    /\ UNCHANGED <<store, dbVars, kvSnap, worldVars>>

-----------------------------------------------------------------------------
(***************************************************************************)
(* Synchronisation, the administrator and the clock                        *)
(***************************************************************************)

\* syncUsageFromCloudflare; nothing keeps two of them apart.
SyncStart ==
    /\ syncs < MaxSyncs
    /\ syncs' = syncs + 1
    /\ syncing' = [a \in Accounts |-> syncing[a] + (IF a \in Routable THEN 1 ELSE 0)]
    /\ UNCHANGED <<store, dbVars, kvSnap, edits, day, req>>

\* One account's figure; zero, failure and a lost row leave the count.
SyncReply(a, n) ==
    /\ syncing[a] > 0
    /\ syncing' = [syncing EXCEPT ![a] = @ - 1]
    /\ usage' = IF n > 0 /\ RowExists(a) THEN [usage EXCEPT ![a] = n] ELSE usage
    /\ UNCHANGED <<store, acct, exhausted, kvSnap, syncs, edits, day, req>>

Edit == edits < MaxEdits /\ edits' = edits + 1

\* POST /accounts; the account_id may be missing when Cloudflare did not say.
AddAccount(a, known) ==
    /\ Edit
    /\ acct[a].row = "unborn"
    /\ acct' = [acct EXCEPT ![a] = [row |-> "live", routable |-> TRUE, known |-> known]]
    /\ UNCHANGED <<store, usage, exhausted, kvSnap, syncing, syncs, day, req>>

\* Its features or is_active change.
SetRoutable(a, on) ==
    /\ Edit
    /\ RowExists(a)
    /\ acct[a].routable # on
    /\ acct' = [acct EXCEPT ![a].routable = on]
    /\ UNCHANGED <<store, usage, exhausted, kvSnap, syncing, syncs, day, req>>

\* The quota rows go with the account.
DeleteAccount(a) ==
    /\ Edit
    /\ RowExists(a)
    /\ acct' = [acct EXCEPT ![a].row = "deleted"]
    /\ usage' = [usage EXCEPT ![a] = 0]
    /\ exhausted' = exhausted \ {a}
    /\ UNCHANGED <<store, kvSnap, syncing, syncs, day, req>>

\* POST /accounts/:id/clear-exhausted
ClearExhausted(a) ==
    /\ Edit
    /\ a \in exhausted
    /\ exhausted' = exhausted \ {a}
    /\ UNCHANGED <<store, acct, usage, kvSnap, syncing, syncs, day, req>>

\* KV_TTL passes.
ExpireSnapshot ==
    /\ Edit
    /\ kvSnap # None
    /\ kvSnap' = None
    /\ UNCHANGED <<store, dbVars, syncing, syncs, day, req>>

\* The date changes: today's rows do not exist yet.
DayChange ==
    /\ day < MaxDays
    /\ day' = day + 1
    /\ usage' = [a \in Accounts |-> 0]
    /\ exhausted' = {}
    /\ UNCHANGED <<store, acct, kvSnap, syncing, syncs, edits, req>>

-----------------------------------------------------------------------------
NewRequest == [pc |-> "idle", kind |-> "embeddings", spec |-> None, cur |-> None,
               rows |-> {}, skipped |-> {}, hits |-> 0, tried |-> 0,
               usageSeen |-> FALSE, answer |-> "none",
               reply |-> [a \in Accounts |-> "unasked"]]

Init ==
    /\ store \in Stores
    /\ acct = [a \in Accounts |->
                 [row      |-> IF a \in InitialAccounts THEN "live" ELSE "unborn",
                  routable |-> a \in InitialAccounts,
                  known    |-> a \in InitialAccounts]]
    /\ usage = [a \in Accounts |-> 0]
    /\ exhausted = {}
    /\ kvSnap = None
    /\ syncing = [a \in Accounts |-> 0]
    /\ syncs = 0
    /\ edits = 0
    /\ day = 0
    /\ req = [r \in Requests |-> NewRequest]

Select(r) ==
    \/ ReadSnapshot(r)
    \/ JoinAccounts(r)
    \/ RecheckSnapshot(r)
    \/ ReadAccounts(r)
    \/ ReadUsage(r)
    \/ PutSnapshot(r)
    \/ Claim(r)
    \/ UnreadableCredentials(r)

Handle(r) ==
    \/ Lookup(r)
    \/ Select(r)
    \/ NetworkError(r)
    \/ UpstreamBusy(r)
    \/ NeuronLimit(r)
    \/ MarkExhausted(r)
    \/ UpstreamFatal(r)
    \/ BrokenBody(r)
    \/ EmptyResult(r)
    \/ Success(r)
    \/ \E seen \in BOOLEAN : StreamEnd(r, seen)
    \/ Count(r)
    \/ Deliver(r)

Client(r) ==
    \/ \E k \in KindsOf[r], s \in AccountOrNone : Arrive(r, k, s)
    \/ \E k \in KindsOf[r] : Reject(r, k)
    \/ Cancel(r)

Admin(a) ==
    \/ \E known \in BOOLEAN : AddAccount(a, known)
    \/ \E on \in BOOLEAN : SetRoutable(a, on)
    \/ DeleteAccount(a)
    \/ ClearExhausted(a)

Environment ==
    \/ SyncStart
    \/ \E a \in Accounts, n \in 0..MaxReport : SyncReply(a, n)
    \/ ExpireSnapshot
    \/ DayChange

Next ==
    \/ \E r \in Requests : Handle(r) \/ Client(r)
    \/ \E a \in Accounts : Admin(a)
    \/ Environment

Spec == Init /\ [][Next]_vars

\* Every await of a handler ends: queries and KV operations return, a call
\* has a timer, a stream ends.  Nobody else has to act.
FairSpec == Spec /\ \A r \in Requests : WF_vars(Handle(r))
=============================================================================
