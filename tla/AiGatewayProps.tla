--------------------------- MODULE AiGatewayProps ---------------------------
(***************************************************************************)
(* What must hold of the gateway of AiGateway.                             *)
(***************************************************************************)
EXTENDS AiGateway

Asked(rec) == {a \in Accounts : rec.reply[a] # "unasked"}
RepliedWith(rec, e) == {a \in Accounts : rec.reply[a] = e}

(***************************************************************************)
(* Safety                                                                  *)
(***************************************************************************)

\* The end of a rotation is reported as quota exhaustion (429) only for a
\* reason: an image request, when every account it asked answered 4006; any
\* other request, when at least one did.  The verdict of images is computed
\* from two counters that the loop of routes/openai.ts keeps apart.
QuotaVerdictJustified ==
    \A r \in Requests :
        LET rec == req[r]
        IN  rec.answer = "quota_exceeded" =>
              /\ Rotating(rec)
              /\ RepliedWith(rec, "quota") # {}
              /\ rec.kind = "image" => Asked(rec) = RepliedWith(rec, "quota")

\* Only a network error, a retryable status or error 4006 moves a request on
\* to another account: any other reply is the last one the request gets, and
\* a request is answered "ok" exactly by the account that served it.
FinalReplyIsLast ==
    \A r \in Requests : \A a \in Accounts :
        /\ req[r].reply[a] \in {"fatal", "broken", "empty", "ok"} =>
              /\ a = req[r].cur
              /\ req[r].pc \in {"streaming", "stalled", "hung", "done"}
        /\ req[r].answer = "ok" => req[r].reply[req[r].cur] = "ok"

\* Every completion is accounted once, to the account that served it: until
\* Cloudflare's figures or a new day replace the count, the row of an
\* existing account counts the requests it answered (a stream only when its
\* usage chunk was seen), whatever was deleted, cached or edited meanwhile.
CompletionsAccounted ==
    syncs = 0 /\ day = 0 =>
        \A a \in Accounts : RowExists(a) =>
            usage[a] = Cardinality({r \in Requests :
                /\ req[r].answer = "ok" /\ req[r].cur = a
                /\ req[r].kind = "stream" => req[r].usageSeen})

\* An account that answered 4006 stays marked for the day: a synchronisation
\* with Cloudflare, an edit or a cache miss never clears the mark, only a new
\* day, the administrator's clear-exhausted or the account's deletion does.
MarkSurvives ==
    [][\A a \in exhausted \ exhausted' :
          \/ day' # day
          \/ acct'[a].row = "deleted"
          \/ syncing' = syncing /\ edits' # edits /\ acct' = acct]_vars

\* Seen from its requests, the gateway is the failover of module Failover.
Phase(pc) == IF pc = "idle" THEN "new"
             ELSE IF pc = "done" THEN "closed" ELSE "open"
JobOf(rec) == [phase |-> Phase(rec.pc), pin |-> rec.spec,
               asked |-> Asked(rec), calls |-> rec.tried, verdict |-> rec.answer]
Jobs == [r \in Requests |-> JobOf(req[r])]
Refusals == {"upstream", "no_accounts", "not_found", "bad_request"}
Abstract == INSTANCE Failover WITH Verdicts <- Answers, job <- Jobs
ImplementsFailover == Abstract!Spec

(***************************************************************************)
(* Liveness                                                                *)
(***************************************************************************)

\* A request that is not streamed is answered, whatever fails: its rotation
\* ends because every account is asked at most once.
EveryRequestAnswered ==
    \A r \in Requests :
        (req[r].pc # "idle" /\ req[r].kind # "stream") ~> req[r].pc = "done"

(***************************************************************************)
(* What the repository says and the code does not do                       *)
(***************************************************************************)

\* The error handler of the /v1 routes "returns errors in OpenAI format": a
\* streamed request whose client waits is answered too.
StreamsAnswered ==
    \A r \in Requests :
        (req[r].pc # "idle" /\ req[r].kind = "stream")
            ~> (req[r].pc = "done" \/ req[r].gone)
=============================================================================
