------------------------- MODULE WorkerGatewayProps -------------------------
(***************************************************************************)
(* What must hold of the gateway of WorkerGateway, where everything may    *)
(* change between two awaits of a handler.                                 *)
(***************************************************************************)
EXTENDS WorkerGateway

Asked(rec) == {a \in Accounts : rec.reply[a] # "unasked"}
RepliedWith(rec, e) == {a \in Accounts : rec.reply[a] = e}
Ended(rec) == rec.pc \in {"done", "cancelled"}

(***************************************************************************)
(* Safety                                                                  *)
(***************************************************************************)

\* No completion is lost or counted twice: until Cloudflare's figures or a new
\* day replace the count, the row of an existing account counts every request
\* that was answered with its result (a stream only if its usage was seen),
\* and nothing that it did not complete.  Between the two lie the requests
\* whose client left while the count was being written.
CompletionsAccounted ==
    syncs = 0 /\ day = 0 =>
        \A a \in Accounts : RowExists(a) =>
            LET served == {r \in Requests : req[r].cur = a /\ req[r].reply[a] = "ok"}
            IN  /\ Cardinality({r \in served :
                       /\ req[r].answer = "ok"
                       /\ req[r].kind = "stream" => req[r].usageSeen}) <= usage[a]
                /\ usage[a] <= Cardinality(served)

\* The end of a rotation is reported as quota exhaustion (429) only for a
\* reason: an image request, when every account it asked answered 4006; any
\* other request, when at least one did.  A selection that finds nothing, or
\* loses its snapshot to another request, never turns into that verdict.
QuotaVerdictJustified ==
    \A r \in Requests :
        LET rec == req[r]
        IN  rec.answer = "quota_exceeded" =>
              /\ Rotating(rec)
              /\ RepliedWith(rec, "quota") # {}
              /\ rec.kind = "image" => Asked(rec) = RepliedWith(rec, "quota")

\* An exhausted account only fades from the snapshots.  The KV entry and the
\* lists the handlers carry may hold an account that was marked meanwhile, but
\* none of them takes it in anew: what a handler writes to KV after an await
\* was filtered by the marks as they were, and an expired entry is rebuilt
\* without the account.
\* An account whose mark the clock or the administrator removes starts afresh.
Carried == (IF kvSnap = None THEN {} ELSE kvSnap)
             \cup UNION {req[r].rows : r \in {q \in Requests :
                                req[q].pc \in {"join", "put", "claim"}}}
MarkedOnlyFades ==
    [][\A a \in exhausted \cap exhausted' : a \in Carried' => a \in Carried]_vars

\* Seen from its requests, every endpoint but the chat is the failover of
\* module Failover: no account is asked twice, a pin is respected, a request
\* is answered once, whatever the snapshots in KV say.
Phase(pc) == IF pc = "idle" THEN "new"
             ELSE IF pc \in {"done", "cancelled"} THEN "closed" ELSE "open"
Verdict(rec) == IF rec.pc = "cancelled" THEN "abandoned" ELSE rec.answer
Refusals == {"upstream", "not_found", "bad_request", "internal", "abandoned"}
UnstartedJob == [phase |-> "new", pin |-> None, asked |-> {}, calls |-> 0,
                 verdict |-> "none"]
JobOf(rec) ==
    IF rec.kind \in ChatKinds THEN UnstartedJob
    ELSE [phase |-> Phase(rec.pc), pin |-> rec.spec, asked |-> Asked(rec),
          calls |-> rec.tried, verdict |-> Verdict(rec)]
Jobs == [r \in Requests |-> JobOf(req[r])]
Abstract == INSTANCE Failover
    WITH Verdicts <- Answers \cup {"abandoned"}, job <- Jobs
ImplementsFailover == Abstract!Spec

(***************************************************************************)
(* Liveness                                                                *)
(***************************************************************************)

\* Every request ends, whatever fails and however often the snapshot comes
\* back with accounts that were already asked; only a chat request may go on,
\* and only if accounts keep answering it that they are busy.
EveryRequestAnswered ==
    \A r \in Requests :
        [](req[r].pc # "idle" =>
              \/ <>Ended(req[r])
              \/ /\ req[r].kind \in ChatKinds
                 /\ []<>(RepliedWith(req[r], "busy") # {}))
=============================================================================
