------------------------ MODULE WorkerGateway_proofs ------------------------
(***************************************************************************)
(* What TLAPS proves of the Worker's gateway, for every set of accounts    *)
(* and requests, both stores and every bound.                              *)
(*                                                                         *)
(* The inductive invariant IInv ties what the accounts answered (reply) to *)
(* the handler's locals: the counters count replies, and in the phases of  *)
(* a selection every account whose failure makes the rotation skip it is   *)
(* in skipped, whatever snapshot the selection goes by.                    *)
(***************************************************************************)
EXTENDS WorkerGatewayProps, FiniteSetTheorems, TLAPS

-----------------------------------------------------------------------------
(***************************************************************************)
(* The inductive invariant                                                 *)
(***************************************************************************)

Retried == {"network", "quota", "busy"}
Selecting == {"select", "join", "recheck", "accounts", "usage", "put", "claim"}
Served == {"streaming", "counting", "replying"}

\* The counters of the loop count what was really asked and refused.
Counted(rec) ==
    /\ rec.kind \notin ChatKinds => rec.tried = Cardinality(Asked(rec))
    /\ rec.hits = Cardinality(RepliedWith(rec, "quota"))

\* What became of account a does not forbid a further attempt.
Settled(rec, a) ==
    /\ rec.reply[a] \in Retried \cup {"unasked"}
    /\ rec.reply[a] \in Endpoint[rec.kind].skips => a \in rec.skipped

Between(rec) ==
    /\ Rotating(rec)
    /\ \A a \in Accounts : Settled(rec, a)
    /\ rec.pc = "claim" => rec.cur \in Accounts \ rec.skipped

InFlight(rec) ==
    /\ rec.cur \in Accounts \ rec.skipped
    /\ rec.reply[rec.cur] # "unasked"
    /\ \A a \in Accounts \ {rec.cur} : Settled(rec, a)

Fresh(rec) ==
    /\ \A a \in Accounts : rec.reply[a] = "unasked"
    /\ rec.skipped = {}

ReqInv(rec) ==
    /\ Counted(rec)
    /\ rec.pc = "idle" => Fresh(rec) /\ rec.kind \notin ChatKinds /\ rec.spec = None
    /\ rec.pc = "lookup" => Fresh(rec) /\ rec.spec \in Accounts
    /\ rec.pc \in Selecting => Between(rec)
    /\ rec.pc = "calling" => InFlight(rec) /\ rec.reply[rec.cur] = "asked"
    /\ rec.pc = "marking" => InFlight(rec) /\ rec.reply[rec.cur] = "quota"
    /\ rec.pc \in Served => InFlight(rec) /\ rec.reply[rec.cur] = "ok"
    /\ rec.answer = "quota_exceeded" => Rotating(rec) /\ QuotaVerdict(rec)
    /\ rec.pc # "done" => rec.answer = "none"

IInv == TypeOK /\ \A r \in Requests : ReqInv(req[r])

\* What one step may do to a request: ask one account more, which no request
\* but a chat asked before, or end for a reason, or neither.
Proceeds(old, new) ==
    /\ new.spec = old.spec /\ new.kind = old.kind
    /\ new.pc # "idle"
    /\ \/ /\ Asked(new) = Asked(old)
          /\ new.pc = "done" => new.answer \in Refusals \/ Asked(new) # {}
       \/ /\ new.pc = "calling"
          /\ \E a \in Accounts :
                /\ Asked(new) = Asked(old) \cup {a}
                /\ new.kind \notin ChatKinds => a \notin Asked(old)
                /\ new.spec = None \/ new.spec = a

RequestStep(r, old) ==
    \E new \in Request : /\ ReqInv(new)
                         /\ Proceeds(old, new)
                         /\ req' = [req EXCEPT ![r] = new]

-----------------------------------------------------------------------------
(***************************************************************************)
(* Lemmas about requests                                                   *)
(***************************************************************************)

\* The sets the counters count are finite.
LEMMA FiniteReplies ==
    ASSUME NEW rec, NEW e
    PROVE  IsFiniteSet(Asked(rec)) /\ IsFiniteSet(RepliedWith(rec, e))
<1>1. Asked(rec) \in SUBSET Accounts /\ RepliedWith(rec, e) \in SUBSET Accounts
    BY DEF Asked, RepliedWith
<1>2. QED
    BY <1>1, FS_Subset, AccountsAssumption

\* A step that leaves the replies and the counters alone keeps them right.
LEMMA SameReplies ==
    ASSUME NEW old, NEW new, Counted(old), new.reply = old.reply,
           new.kind = old.kind, new.tried = old.tried, new.hits = old.hits
    PROVE  /\ Counted(new) /\ Asked(new) = Asked(old)
           /\ \A e : RepliedWith(new, e) = RepliedWith(old, e)
BY DEF Counted, Asked, RepliedWith

\* Every endpoint skips an account after a network error and after 4006, and
\* all but the chat after a busy answer too.
LEMMA EndpointSkips ==
    ASSUME NEW k \in AllKinds
    PROVE  /\ Endpoint[k].skips \subseteq Retried
           /\ "quota" \in Endpoint[k].skips
           /\ k \notin ChatKinds => Endpoint[k].skips = Retried
BY DEF AllKinds, Endpoint, ChatEndpoint, StreamEndpoint, ImageEndpoint, SpeechEndpoint,
       TranscriptionEndpoint, TranslationEndpoint, EmbeddingsEndpoint, Retried, ChatKinds

\* An answer ends the request: it rests on the replies that bear it out.
LEMMA AnsweredStep ==
    ASSUME NEW r \in Requests, NEW old, NEW rec \in Request, Counted(rec),
           rec.spec = old.spec, rec.kind = old.kind, Asked(rec) = Asked(old),
           NEW v \in Answers,
           v = "quota_exceeded" => Rotating(rec) /\ QuotaVerdict(rec),
           v \in Refusals \/ Asked(rec) # {},
           Becomes(r, Answered(rec, v))
    PROVE  RequestStep(r, old)
<1> DEFINE new == Answered(rec, v)
<1>1. /\ new \in Request
      /\ new.pc = "done" /\ new.answer = v /\ new.reply = rec.reply
      /\ new.spec = rec.spec /\ new.kind = rec.kind
      /\ new.tried = rec.tried /\ new.hits = rec.hits
    BY DEF Answered, Request, Phases
<1> HIDE DEF new
<1>2. Counted(new) /\ Asked(new) = Asked(rec)
    BY <1>1, SameReplies
<1>3. ReqInv(new)
    BY <1>1, <1>2 DEF ReqInv, Rotating, QuotaVerdict, Selecting, Served
<1>4. Proceeds(old, new)
    BY <1>1, <1>2 DEF Proceeds
<1>5. QED
    BY <1>1, <1>3, <1>4 DEF RequestStep, Becomes, new

\* A call to an account the rotation does not skip, or that was named.
LEMMA CalledStep ==
    ASSUME NEW r \in Requests, NEW old, NEW rec \in Request, Counted(rec),
           rec.spec = old.spec, rec.kind = old.kind, Asked(rec) = Asked(old),
           rec.answer = "none",
           \A a \in Accounts : Settled(rec, a),
           NEW b \in Accounts \ rec.skipped, rec.spec = None \/ rec.spec = b,
           Becomes(r, Called(rec, b))
    PROVE  RequestStep(r, old)
<1> DEFINE new == Called(rec, b)
           replies == [rec.reply EXCEPT ![b] = "asked"]
           count == IF rec.kind \in ChatKinds THEN rec.tried ELSE rec.tried + 1
<1>1. rec.reply \in [Accounts -> Replies] /\ rec.tried \in Nat /\ rec.kind \in AllKinds
    BY DEF Request
<1>2. replies \in [Accounts -> Replies] /\ count \in Nat
    BY <1>1 DEF Replies
<1>3. new = [rec EXCEPT !.pc = "calling", !.cur = b, !.reply = replies, !.tried = count]
    BY DEF Called, Request
<1> HIDE DEF replies, count
<1>4. /\ new \in Request
      /\ new.pc = "calling" /\ new.cur = b /\ new.reply = replies /\ new.tried = count
      /\ new.skipped = rec.skipped /\ new.spec = rec.spec /\ new.kind = rec.kind
      /\ new.hits = rec.hits /\ new.answer = "none"
    BY <1>2, <1>3 DEF Request, Phases, AccountOrNone
<1> HIDE DEF new
<1> USE DEF replies, count
<1>5. Asked(new) = Asked(rec) \cup {b}
    BY <1>1, <1>4 DEF Asked
<1>6. rec.reply[b] # "quota"
    BY <1>1, EndpointSkips DEF Settled
<1>7. RepliedWith(new, "quota") = RepliedWith(rec, "quota")
    BY <1>1, <1>4, <1>6 DEF RepliedWith
<1>8. rec.kind \notin ChatKinds => b \notin Asked(rec)
    BY <1>1, EndpointSkips DEF Settled, Asked
<1>9. Counted(new)
    BY <1>4, <1>5, <1>7, <1>8, FiniteReplies, FS_AddElement DEF Counted
<1>10. InFlight(new) /\ new.reply[new.cur] = "asked"
    BY <1>1, <1>4 DEF InFlight, Settled
<1>11. ReqInv(new)
    BY <1>4, <1>9, <1>10 DEF ReqInv, Selecting, Served
<1>12. Proceeds(old, new)
    BY <1>4, <1>5, <1>8 DEF Proceeds
<1>13. QED
    BY <1>4, <1>11, <1>12 DEF RequestStep, Becomes, new

\* A step within a selection changes pc, cur and the snapshot in hand, and
\* may skip one account more.
LEMMA SelectingStep ==
    ASSUME NEW r \in Requests, NEW old \in Request, Counted(old), Between(old),
           old.answer = "none",
           NEW new \in Request, new.pc \in Selecting, Becomes(r, new),
           new.reply = old.reply, new.kind = old.kind, new.spec = old.spec,
           new.tried = old.tried, new.hits = old.hits, new.answer = old.answer,
           old.skipped \subseteq new.skipped,
           new.pc = "claim" => new.cur \in Accounts \ new.skipped
    PROVE  RequestStep(r, old)
<1>1. Counted(new) /\ Asked(new) = Asked(old)
    BY SameReplies
<1>2. Between(new)
    BY DEF Between, Rotating, Settled
<1>3. ReqInv(new)
    BY <1>1, <1>2 DEF ReqInv, Selecting, Served
<1>4. Proceeds(old, new)
    BY <1>1 DEF Proceeds, Selecting
<1>5. QED
    BY <1>3, <1>4 DEF RequestStep, Becomes

\* Finding no account ends the rotation with its verdict.
LEMMA NoAccountStep ==
    ASSUME NEW r \in Requests, NEW old \in Request, Counted(old), Between(old),
           NEW rec \in Request, rec.reply = old.reply, rec.kind = old.kind,
           rec.spec = old.spec, rec.tried = old.tried, rec.hits = old.hits,
           Becomes(r, NoAccount(rec))
    PROVE  RequestStep(r, old)
<1> DEFINE bare == [rec EXCEPT !.rows = {}]
           v == IF QuotaVerdict(rec) THEN "quota_exceeded" ELSE "upstream"
<1>1. /\ bare \in Request /\ bare.reply = old.reply /\ bare.kind = old.kind
      /\ bare.spec = old.spec /\ bare.tried = old.tried /\ bare.hits = old.hits
    BY DEF Request
<1>2. QuotaVerdict(rec) = QuotaVerdict(bare)
    BY <1>1 DEF QuotaVerdict
<1>3. Becomes(r, Answered(bare, v)) /\ v \in Answers
    BY DEF NoAccount, Answers
<1> HIDE DEF bare
<1>4. Counted(bare) /\ Asked(bare) = Asked(old)
      /\ RepliedWith(bare, "quota") = RepliedWith(old, "quota")
    BY <1>1, SameReplies
<1>5. Rotating(bare)
    BY <1>1 DEF Between, Rotating
<1>6. v = "quota_exceeded" => Asked(bare) # {}
    <2>1. SUFFICES ASSUME QuotaVerdict(bare) PROVE Asked(bare) # {}
        BY <1>2
    <2>2. Cardinality(RepliedWith(bare, "quota")) > 0
        BY <2>1, <1>4 DEF QuotaVerdict, Counted
    <2>3. RepliedWith(bare, "quota") # {}
        BY <2>2, FS_EmptySet
    <2>4. QED
        BY <2>3 DEF RepliedWith, Asked
<1>7. v = "quota_exceeded" => QuotaVerdict(bare)
    BY <1>2
<1>8. v \in Refusals \/ v = "quota_exceeded"
    BY DEF Refusals
<1> HIDE DEF v
<1>9. QED
    BY <1>1, <1>3, <1>4, <1>5, <1>6, <1>7, <1>8, AnsweredStep

\* The end of a selection: an account to claim, or none.
LEMMA ChooseStep ==
    ASSUME NEW r \in Requests, NEW old \in Request, Counted(old), Between(old),
           old.answer = "none",
           NEW rec \in Request, rec.reply = old.reply, rec.kind = old.kind,
           rec.spec = old.spec, rec.tried = old.tried, rec.hits = old.hits,
           rec.skipped = old.skipped, rec.answer = old.answer,
           Choose(r, rec)
    PROVE  RequestStep(r, old)
<1>1. PICK knows \in BOOLEAN :
        LET candidates == (IF knows THEN rec.rows \cap PaidAccounts ELSE rec.rows)
                             \ rec.skipped
        IN  \/ candidates = {} /\ Becomes(r, NoAccount(rec))
            \/ \E a \in candidates :
               Becomes(r, [rec EXCEPT !.pc = "claim", !.cur = a, !.rows = {a}])
    BY DEF Choose
<1>2. CASE Becomes(r, NoAccount(rec))
    BY <1>2, NoAccountStep
<1>3. CASE \E a \in rec.rows \ rec.skipped :
               Becomes(r, [rec EXCEPT !.pc = "claim", !.cur = a, !.rows = {a}])
    <2>1. PICK a \in rec.rows \ rec.skipped :
               Becomes(r, [rec EXCEPT !.pc = "claim", !.cur = a, !.rows = {a}])
        BY <1>3
    <2> DEFINE new == [rec EXCEPT !.pc = "claim", !.cur = a, !.rows = {a}]
    <2>2. a \in Accounts
        BY DEF Request
    <2>3. /\ new \in Request /\ new.pc = "claim" /\ new.cur = a
          /\ new.reply = old.reply /\ new.kind = old.kind /\ new.spec = old.spec
          /\ new.tried = old.tried /\ new.hits = old.hits
          /\ new.answer = old.answer /\ new.skipped = old.skipped
        BY <2>2 DEF Request, Phases, AccountOrNone
    <2> HIDE DEF new
    <2>4. QED
        BY <2>1, <2>2, <2>3, SelectingStep DEF new, Selecting
<1>4. QED
    BY <1>1, <1>2, <1>3

\* rec is the request r, in flight, with the account's reply e noted.
Noted(rec, old, e) ==
    /\ rec \in Request /\ Counted(rec) /\ InFlight(rec)
    /\ rec.reply[rec.cur] = e /\ rec.pc = old.pc
    /\ rec.kind = old.kind /\ rec.spec = old.spec
    /\ rec.skipped = old.skipped /\ rec.answer = old.answer
    /\ Asked(rec) = Asked(old) /\ Asked(rec) # {}

\* Noting a reply other than 4006 keeps the counters right.
LEMMA RepliedInv ==
    ASSUME TypeOK, NEW r \in Requests, ReqInv(req[r]), req[r].pc = "calling",
           NEW e \in Replies \ {"unasked", "asked", "quota"}
    PROVE  Noted(Replied(r, e), req[r], e)
<1> DEFINE old == req[r]
           rec == Replied(r, e)
           replies == [old.reply EXCEPT ![old.cur] = e]
<1>1. old \in Request /\ InFlight(old) /\ Counted(old) /\ old.reply[old.cur] = "asked"
    BY DEF TypeOK, ReqInv
<1>2. rec = [old EXCEPT !.reply = replies]
    BY DEF Replied
<1>3. replies \in [Accounts -> Replies] /\ replies[old.cur] = e
    BY <1>1 DEF Request, InFlight
<1>4. \A a \in Accounts : a # old.cur => replies[a] = old.reply[a]
    BY <1>1 DEF Request
<1> HIDE DEF replies
<1>5. /\ rec \in Request
      /\ rec.pc = old.pc /\ rec.cur = old.cur /\ rec.spec = old.spec
      /\ rec.kind = old.kind /\ rec.skipped = old.skipped
      /\ rec.tried = old.tried /\ rec.hits = old.hits
      /\ rec.answer = old.answer /\ rec.reply = replies
    <2> HIDE DEF rec, old
    <2>1. QED
        BY <1>1, <1>2, <1>3 DEF Request
<1> HIDE DEF rec
<1>6. Asked(rec) = Asked(old)
    BY <1>1, <1>3, <1>4, <1>5 DEF Asked
<1>7. RepliedWith(rec, "quota") = RepliedWith(old, "quota")
    BY <1>1, <1>3, <1>4, <1>5 DEF RepliedWith
<1>8. Counted(rec)
    BY <1>1, <1>5, <1>6, <1>7 DEF Counted
<1>9. InFlight(rec) /\ old.cur \in Asked(old)
    BY <1>1, <1>3, <1>4, <1>5 DEF InFlight, Settled, Asked
<1>10. QED
    BY <1>3, <1>5, <1>6, <1>8, <1>9 DEF Noted, rec

\* Noting error 4006 counts one refusal more.
LEMMA QuotaRepliedInv ==
    ASSUME TypeOK, NEW r \in Requests, ReqInv(req[r]), req[r].pc = "calling"
    PROVE  Noted([Replied(r, "quota") EXCEPT !.hits = @ + 1], req[r], "quota")
<1> DEFINE old == req[r]
           rec == [Replied(r, "quota") EXCEPT !.hits = @ + 1]
           replies == [old.reply EXCEPT ![old.cur] = "quota"]
<1>1. old \in Request /\ InFlight(old) /\ Counted(old) /\ old.reply[old.cur] = "asked"
    BY DEF TypeOK, ReqInv
<1>2. rec = [old EXCEPT !.reply = replies, !.hits = @ + 1]
    BY <1>1 DEF Replied, Request
<1>3. replies \in [Accounts -> Replies] /\ replies[old.cur] = "quota"
    BY <1>1 DEF Request, InFlight, Replies
<1>4. \A a \in Accounts : a # old.cur => replies[a] = old.reply[a]
    BY <1>1 DEF Request
<1>5. old.hits + 1 \in Nat
    BY <1>1 DEF Request
<1> HIDE DEF replies
<1>6. /\ rec \in Request
      /\ rec.pc = old.pc /\ rec.cur = old.cur /\ rec.spec = old.spec
      /\ rec.kind = old.kind /\ rec.skipped = old.skipped
      /\ rec.tried = old.tried /\ rec.hits = old.hits + 1
      /\ rec.answer = old.answer /\ rec.reply = replies
    <2> HIDE DEF rec, old
    <2>1. QED
        BY <1>1, <1>2, <1>3, <1>5 DEF Request
<1> HIDE DEF rec
<1>7. Asked(rec) = Asked(old)
    BY <1>1, <1>3, <1>4, <1>6 DEF Asked
<1>8. /\ RepliedWith(rec, "quota") = RepliedWith(old, "quota") \cup {old.cur}
      /\ old.cur \notin RepliedWith(old, "quota")
    BY <1>1, <1>3, <1>4, <1>6 DEF RepliedWith, InFlight
<1>9. Counted(rec)
    BY <1>1, <1>6, <1>7, <1>8, FiniteReplies, FS_AddElement DEF Counted
<1>10. InFlight(rec) /\ old.cur \in Asked(old)
    BY <1>1, <1>3, <1>4, <1>6 DEF InFlight, Settled, Asked
<1>11. QED
    BY <1>3, <1>6, <1>7, <1>9, <1>10 DEF Noted, rec

\* A reply noted, the handler goes on: to the mark, the stream, the count.
LEMMA FlyingStep ==
    ASSUME NEW r \in Requests, NEW old, NEW rec, NEW e, Noted(rec, old, e),
           rec.answer = "none",
           NEW new \in Request, Becomes(r, new),
           new.reply = rec.reply, new.kind = rec.kind, new.spec = rec.spec,
           new.tried = rec.tried, new.hits = rec.hits, new.answer = rec.answer,
           new.skipped = rec.skipped, new.cur = rec.cur,
           \/ e = "quota" /\ new.pc = "marking"
           \/ e = "ok" /\ new.pc \in Served
    PROVE  RequestStep(r, old)
<1>1. Counted(new) /\ Asked(new) = Asked(rec)
    BY SameReplies DEF Noted
<1>2. InFlight(new) /\ new.reply[new.cur] = e
    BY DEF InFlight, Settled, Noted
<1>3. ReqInv(new)
    BY <1>1, <1>2 DEF ReqInv, Selecting, Served
<1>4. Proceeds(old, new)
    BY <1>1 DEF Proceeds, Noted, Served
<1>5. QED
    BY <1>3, <1>4 DEF RequestStep, Becomes

\* A failure ends a request that names its account, and moves another on.
LEMMA FailedStep ==
    ASSUME NEW r \in Requests, NEW old, NEW rec, NEW e \in Retried, Noted(rec, old, e),
           rec.answer = "none", Becomes(r, Failed(rec, e))
    PROVE  RequestStep(r, old)
<1>1. rec \in Request /\ Counted(rec) /\ InFlight(rec) /\ rec.reply[rec.cur] = e
    BY DEF Noted
<1>2. CASE ~Rotating(rec)
    <2>1. Becomes(r, Answered(rec, "upstream"))
        BY <1>2 DEF Failed
    <2>2. QED
        BY <1>1, <2>1, AnsweredStep DEF Noted, Answers, Refusals
<1>3. CASE Rotating(rec)
    <2> DEFINE skips == IF e \in Endpoint[rec.kind].skips
                        THEN rec.skipped \cup {rec.cur} ELSE rec.skipped
               new == [rec EXCEPT !.pc = "select", !.skipped = skips]
    <2>1. Becomes(r, new)
        BY <1>3, <1>1 DEF Failed, Rotate, Request
    <2>2. skips \in SUBSET Accounts
        BY <1>1 DEF Request, InFlight
    <2> HIDE DEF skips
    <2>3. /\ new \in Request /\ new.pc = "select" /\ new.skipped = skips
          /\ new.reply = rec.reply /\ new.kind = rec.kind /\ new.spec = rec.spec
          /\ new.tried = rec.tried /\ new.hits = rec.hits /\ new.answer = "none"
        BY <1>1, <2>2 DEF Request, Phases
    <2> HIDE DEF new
    <2>4. Counted(new) /\ Asked(new) = Asked(rec)
        BY <1>1, <2>3, SameReplies
    <2>5. Between(new)
        BY <1>1, <1>3, <2>3 DEF Between, InFlight, Settled, Rotating, skips
    <2>6. ReqInv(new)
        BY <2>3, <2>4, <2>5 DEF ReqInv, Selecting, Served
    <2>7. Proceeds(old, new)
        BY <2>3, <2>4 DEF Proceeds, Noted
    <2>8. QED
        BY <2>1, <2>3, <2>6, <2>7 DEF RequestStep, Becomes, new
<1>4. QED
    BY <1>2, <1>3

\* A request in flight whose reply was noted in an earlier step.
LEMMA AlreadyNoted ==
    ASSUME TypeOK, NEW r \in Requests, ReqInv(req[r]),
           req[r].pc \in {"marking"} \cup Served
    PROVE  /\ Noted(req[r], req[r], IF req[r].pc = "marking" THEN "quota" ELSE "ok")
           /\ req[r].answer = "none"
<1>1. req[r] \in Request /\ InFlight(req[r])
    BY DEF TypeOK, ReqInv
<1>2. Asked(req[r]) # {}
    BY <1>1 DEF InFlight, Asked
<1>3. QED
    BY <1>1, <1>2 DEF Noted, ReqInv, Served

-----------------------------------------------------------------------------
(***************************************************************************)
(* Every step of a request                                                 *)
(***************************************************************************)

\* The selection goes by whatever snapshot it finds, and keeps the invariant.
LEMMA SelectStep ==
    ASSUME IInv, NEW r \in Requests, Select(r)
    PROVE  /\ req[r].pc \in Selecting \cup {"lookup"}
           /\ RequestStep(r, req[r])
           /\ kvSnap' \in (SUBSET Accounts) \cup {None}
           /\ UNCHANGED <<store, dbVars, worldVars>>
<1> DEFINE old == req[r]
<1>1. TypeOK /\ ReqInv(old) /\ old \in Request /\ Routable \subseteq Accounts
    BY DEF IInv, TypeOK, Routable
<1>2. old.pc \in Selecting => Counted(old) /\ Between(old) /\ old.answer = "none"
    BY <1>1 DEF ReqInv, Selecting
<1>3. kvSnap \in (SUBSET Accounts) \cup {None} /\ exhausted \subseteq Accounts
    BY <1>1 DEF TypeOK
<1>4. CASE ReadSnapshot(r)
    <2> DEFINE new == IF store = "d1" THEN [old EXCEPT !.pc = "accounts"]
                      ELSE IF kvSnap = None THEN [old EXCEPT !.pc = "recheck"]
                      ELSE [old EXCEPT !.pc = "join", !.rows = kvSnap]
    <2>1. old.pc = "select" /\ Becomes(r, new) /\ UNCHANGED <<store, dbVars, kvSnap, worldVars>>
        BY <1>4 DEF ReadSnapshot
    <2>2. /\ new \in Request /\ new.pc \in Selecting /\ new.pc # "claim"
          /\ new.reply = old.reply /\ new.kind = old.kind /\ new.spec = old.spec
          /\ new.tried = old.tried /\ new.hits = old.hits
          /\ new.answer = old.answer /\ new.skipped = old.skipped
        <3>1. CASE store = "d1"
            BY <1>1, <3>1 DEF Request, Phases, Selecting
        <3>2. CASE store # "d1" /\ kvSnap = None
            BY <1>1, <3>2 DEF Request, Phases, Selecting
        <3>3. CASE store # "d1" /\ kvSnap # None
            <4>1. kvSnap \in SUBSET Accounts
                BY <1>3, <3>3
            <4> DEFINE joined == [old EXCEPT !.pc = "join", !.rows = kvSnap]
            <4>2. new = joined
                <5> HIDE DEF joined, old
                <5>1. QED
                    BY <3>3 DEF joined
            <4> HIDE DEF new
            <4>3. QED
                BY <1>1, <4>1, <4>2 DEF Request, Phases, Selecting
        <3>4. QED
            BY <3>1, <3>2, <3>3
    <2> HIDE DEF new
    <2>3. QED
        BY <1>1, <1>2, <1>3, <2>1, <2>2, SelectingStep DEF Selecting
<1>5. CASE RecheckSnapshot(r)
    <2>1. old.pc = "recheck" /\ UNCHANGED <<store, dbVars, kvSnap, worldVars>>
          /\ Becomes(r, IF kvSnap = None THEN [old EXCEPT !.pc = "accounts"]
                        ELSE NoAccount(old))
        BY <1>5 DEF RecheckSnapshot
    <2>2. CASE Becomes(r, NoAccount(old))
        BY <1>1, <1>2, <1>3, <2>1, <2>2, NoAccountStep DEF Selecting
    <2>3. CASE Becomes(r, [old EXCEPT !.pc = "accounts"])
        <3> DEFINE new == [old EXCEPT !.pc = "accounts"]
        <3>1. /\ new \in Request /\ new.pc = "accounts"
              /\ new.reply = old.reply /\ new.kind = old.kind /\ new.spec = old.spec
              /\ new.tried = old.tried /\ new.hits = old.hits
              /\ new.answer = old.answer /\ new.skipped = old.skipped
            BY <1>1 DEF Request, Phases
        <3>2. Becomes(r, new)
            BY <2>3
        <3> HIDE DEF new
        <3>3. QED
            BY <1>1, <1>2, <1>3, <2>1, <3>1, <3>2, SelectingStep DEF Selecting
    <2>4. QED
        BY <2>1, <2>2, <2>3
<1>6. CASE ReadAccounts(r)
    <2> DEFINE new == [old EXCEPT !.pc = "usage", !.rows = Routable]
    <2>1. old.pc = "accounts" /\ Becomes(r, new) /\ UNCHANGED <<store, dbVars, kvSnap, worldVars>>
        BY <1>6 DEF ReadAccounts
    <2>2. /\ new \in Request /\ new.pc = "usage"
          /\ new.reply = old.reply /\ new.kind = old.kind /\ new.spec = old.spec
          /\ new.tried = old.tried /\ new.hits = old.hits
          /\ new.answer = old.answer /\ new.skipped = old.skipped
        BY <1>1 DEF Request, Phases
    <2> HIDE DEF new
    <2>3. QED
        BY <1>1, <1>2, <1>3, <2>1, <2>2, SelectingStep DEF Selecting
<1>7. CASE JoinAccounts(r)
    <2> DEFINE rec == [old EXCEPT !.rows = @ \cap Routable]
    <2>1. old.pc = "join" /\ Choose(r, rec) /\ UNCHANGED <<store, dbVars, kvSnap, worldVars>>
        BY <1>7 DEF JoinAccounts
    <2>2. /\ rec \in Request
          /\ rec.reply = old.reply /\ rec.kind = old.kind /\ rec.spec = old.spec
          /\ rec.tried = old.tried /\ rec.hits = old.hits
          /\ rec.answer = old.answer /\ rec.skipped = old.skipped
        BY <1>1 DEF Request
    <2> HIDE DEF rec
    <2>3. QED
        BY <1>1, <1>2, <1>3, <2>1, <2>2, ChooseStep DEF Selecting
<1>8. CASE ReadUsage(r)
    <2> DEFINE rec == [old EXCEPT !.rows = @ \ exhausted]
               new == [rec EXCEPT !.pc = "put"]
    <2>1. /\ old.pc = "usage" /\ UNCHANGED <<store, dbVars, kvSnap, worldVars>>
          /\ Becomes(r, new) \/ Choose(r, rec)
        BY <1>8 DEF ReadUsage
    <2>2. /\ rec \in Request
          /\ rec.reply = old.reply /\ rec.kind = old.kind /\ rec.spec = old.spec
          /\ rec.tried = old.tried /\ rec.hits = old.hits
          /\ rec.answer = old.answer /\ rec.skipped = old.skipped
        BY <1>1 DEF Request
    <2>3. /\ new \in Request /\ new.pc = "put"
          /\ new.reply = old.reply /\ new.kind = old.kind /\ new.spec = old.spec
          /\ new.tried = old.tried /\ new.hits = old.hits
          /\ new.answer = old.answer /\ new.skipped = old.skipped
        BY <1>1 DEF Request, Phases
    <2> HIDE DEF rec, new
    <2>4. CASE Becomes(r, new)
        BY <1>1, <1>2, <1>3, <2>1, <2>3, <2>4, SelectingStep DEF Selecting
    <2>5. CASE Choose(r, rec)
        BY <1>1, <1>2, <1>3, <2>1, <2>2, <2>5, ChooseStep DEF Selecting
    <2>6. QED
        BY <2>1, <2>4, <2>5
<1>9. CASE PutSnapshot(r)
    <2>1. /\ old.pc = "put" /\ kvSnap' = old.rows /\ Choose(r, old)
          /\ UNCHANGED <<store, dbVars, worldVars>>
        BY <1>9 DEF PutSnapshot
    <2>2. old.rows \in SUBSET Accounts
        BY <1>1 DEF Request
    <2>3. RequestStep(r, old)
        BY <1>1, <1>2, <2>1, ChooseStep DEF Selecting
    <2>4. QED
        BY <2>1, <2>2, <2>3 DEF Selecting
<1>10. CASE Claim(r)
    <2> DEFINE rec == [old EXCEPT !.rows = {}]
               skip == [rec EXCEPT !.pc = "select", !.skipped = @ \cup {rec.cur}]
    <2>1. /\ old.pc = "claim" /\ UNCHANGED <<store, dbVars, kvSnap, worldVars>>
          /\ \/ Becomes(r, Thrown(rec))
             \/ Becomes(r, Called(rec, rec.cur))
             \/ Becomes(r, skip)
        BY <1>10 DEF Claim
    <2>2. /\ rec \in Request /\ rec.cur = old.cur
          /\ rec.reply = old.reply /\ rec.kind = old.kind /\ rec.spec = old.spec
          /\ rec.tried = old.tried /\ rec.hits = old.hits
          /\ rec.answer = old.answer /\ rec.skipped = old.skipped
        BY <1>1 DEF Request
    <2>3. old.cur \in Accounts \ old.skipped /\ Rotating(old)
          /\ \A a \in Accounts : Settled(old, a)
        BY <1>2, <2>1 DEF Between, Selecting
    <2>4. /\ skip \in Request /\ skip.pc = "select"
          /\ skip.reply = old.reply /\ skip.kind = old.kind /\ skip.spec = old.spec
          /\ skip.tried = old.tried /\ skip.hits = old.hits
          /\ skip.answer = old.answer /\ old.skipped \subseteq skip.skipped
        BY <1>1, <2>2, <2>3 DEF Request, Phases
    <2> HIDE DEF rec, skip
    <2>5. Counted(rec) /\ Asked(rec) = Asked(old)
        BY <1>2, <2>1, <2>2, SameReplies DEF Selecting
    <2>6. CASE Becomes(r, Thrown(rec))
        <3>1. Becomes(r, Answered(rec, "internal"))
            BY <2>6 DEF Thrown
        <3>2. RequestStep(r, old)
            BY <2>2, <2>5, <3>1, AnsweredStep DEF Answers, Refusals
        <3>3. QED
            BY <1>3, <2>1, <3>2 DEF Selecting
    <2>7. CASE Becomes(r, Called(rec, rec.cur))
        <3>1. \A a \in Accounts : Settled(rec, a)
            BY <2>2, <2>3 DEF Settled
        <3>2. rec.answer = "none" /\ rec.spec = None
            BY <1>2, <2>1, <2>2, <2>3 DEF Selecting, Rotating
        <3>3. RequestStep(r, old)
            BY <2>2, <2>3, <2>5, <2>7, <3>1, <3>2, CalledStep
        <3>4. QED
            BY <1>3, <2>1, <3>3 DEF Selecting
    <2>8. CASE Becomes(r, skip)
        BY <1>1, <1>2, <1>3, <2>1, <2>4, <2>8, SelectingStep DEF Selecting
    <2>9. QED
        BY <2>1, <2>6, <2>7, <2>8
<1>11. CASE UnreadableCredentials(r)
    <2> DEFINE rec == [old EXCEPT !.rows = {}]
    <2>1. /\ old.pc \in {"lookup", "claim"} /\ UNCHANGED <<store, dbVars, kvSnap, worldVars>>
          /\ Becomes(r, Answered(rec, "internal"))
        BY <1>1, <1>11 DEF UnreadableCredentials, Thrown, Request
    <2>2. /\ rec \in Request
          /\ rec.reply = old.reply /\ rec.kind = old.kind /\ rec.spec = old.spec
          /\ rec.tried = old.tried /\ rec.hits = old.hits
        BY <1>1 DEF Request
    <2> HIDE DEF rec
    <2>3. Counted(rec) /\ Asked(rec) = Asked(old)
        BY <1>1, <2>2, SameReplies DEF ReqInv
    <2>4. RequestStep(r, old)
        BY <2>1, <2>2, <2>3, AnsweredStep DEF Answers, Refusals
    <2>5. QED
        BY <1>3, <2>1, <2>4 DEF Selecting
<1>12. QED
    BY <1>4, <1>5, <1>6, <1>7, <1>8, <1>9, <1>10, <1>11 DEF Select

\* A named account is called if it is there, and not replaced if it is not.
LEMMA LookupStep ==
    ASSUME IInv, NEW r \in Requests, Lookup(r)
    PROVE  RequestStep(r, req[r]) /\ req[r].pc = "lookup"
<1> DEFINE old == req[r]
<1>1. ReqInv(old) /\ old \in Request /\ old.pc = "lookup"
    BY DEF IInv, TypeOK, Lookup
<1>2. Fresh(old) /\ old.spec \in Accounts /\ Counted(old) /\ old.answer = "none"
    BY <1>1 DEF ReqInv
<1>3. CASE Becomes(r, Called(old, old.spec))
    <2>1. old.kind \in AllKinds
        BY <1>1 DEF Request
    <2>2. \A a \in Accounts : Settled(old, a)
        BY <1>2, <2>1, EndpointSkips DEF Fresh, Settled, Retried
    <2>3. old.spec \in Accounts \ old.skipped
        BY <1>2 DEF Fresh
    <2>4. QED
        BY <1>1, <1>2, <1>3, <2>2, <2>3, CalledStep
<1>4. CASE Becomes(r, Answered(old, "not_found"))
    BY <1>1, <1>2, <1>4, AnsweredStep DEF Answers, Refusals
<1>5. QED
    BY <1>1, <1>3, <1>4 DEF Lookup

\* The reply to a call, whatever it is.
LEMMA ReplyStep ==
    ASSUME IInv, NEW r \in Requests,
           \/ NetworkError(r) \/ UpstreamBusy(r) \/ NeuronLimit(r)
           \/ UpstreamFatal(r) \/ BrokenBody(r) \/ EmptyResult(r) \/ Success(r)
    PROVE  RequestStep(r, req[r]) /\ req[r].pc = "calling"
           /\ UNCHANGED <<store, dbVars, kvSnap, worldVars>>
<1> DEFINE old == req[r]
<1>1. /\ TypeOK /\ ReqInv(old) /\ old \in Request /\ old.pc = "calling"
      /\ UNCHANGED <<store, dbVars, kvSnap, worldVars>>
    BY DEF IInv, TypeOK, NetworkError, UpstreamBusy, NeuronLimit, UpstreamFatal,
           BrokenBody, EmptyResult, Success
<1>2. old.answer = "none"
    BY <1>1 DEF ReqInv
<1>3. ASSUME NEW e \in {"network", "busy", "fatal", "broken", "empty", "ok"}
      PROVE  Noted(Replied(r, e), old, e) /\ Replied(r, e).answer = "none"
    BY <1>1, <1>2, <1>3, RepliedInv DEF Replies, Noted
<1>4. ASSUME NEW e \in {"network", "busy", "fatal", "broken", "empty", "ok"},
             NEW v \in {"upstream", "internal"}, Becomes(r, Answered(Replied(r, e), v))
      PROVE  RequestStep(r, old)
    BY <1>3, <1>4, AnsweredStep DEF Noted, Answers, Refusals
<1>5. CASE NetworkError(r)
    BY <1>3, <1>5, FailedStep DEF NetworkError, Retried
<1>6. CASE UpstreamBusy(r)
    BY <1>3, <1>6, FailedStep DEF UpstreamBusy, Retried
<1>7. CASE NeuronLimit(r)
    <2> DEFINE rec == [Replied(r, "quota") EXCEPT !.hits = @ + 1]
               new == [rec EXCEPT !.pc = "marking"]
    <2>1. Noted(rec, old, "quota")
        BY <1>1, QuotaRepliedInv
    <2>2. Becomes(r, new)
        <3>1. old.hits \in Nat
            BY <1>1 DEF Request
        <3>2. QED
            BY <1>1, <1>7, <3>1 DEF NeuronLimit, Replied, Request
    <2> HIDE DEF rec
    <2>3. /\ new \in Request /\ new.pc = "marking"
          /\ new.reply = rec.reply /\ new.kind = rec.kind /\ new.spec = rec.spec
          /\ new.tried = rec.tried /\ new.hits = rec.hits /\ new.answer = rec.answer
          /\ new.skipped = rec.skipped /\ new.cur = rec.cur
        BY <2>1 DEF Noted, Request, Phases
    <2> HIDE DEF new
    <2>4. rec.answer = "none"
        BY <1>2, <2>1 DEF Noted
    <2>5. QED
        BY <1>1, <2>1, <2>2, <2>3, <2>4, FlyingStep
<1>8. CASE UpstreamFatal(r)
    BY <1>1, <1>4, <1>8 DEF UpstreamFatal
<1>9. CASE BrokenBody(r)
    BY <1>1, <1>4, <1>9 DEF BrokenBody, Thrown
<1>10. CASE EmptyResult(r)
    BY <1>1, <1>4, <1>10 DEF EmptyResult, Thrown
<1>11. CASE Success(r)
    <2> DEFINE rec == Replied(r, "ok")
               next == IF old.kind = "stream" THEN "streaming" ELSE "counting"
               new == [rec EXCEPT !.pc = next]
    <2>1. Noted(rec, old, "ok") /\ rec.answer = "none"
        BY <1>3
    <2>2. Becomes(r, new)
        BY <1>11 DEF Success
    <2>3. next \in Served
        BY DEF Served
    <2> HIDE DEF rec, next
    <2>4. /\ new \in Request /\ new.pc = next
          /\ new.reply = rec.reply /\ new.kind = rec.kind /\ new.spec = rec.spec
          /\ new.tried = rec.tried /\ new.hits = rec.hits /\ new.answer = rec.answer
          /\ new.skipped = rec.skipped /\ new.cur = rec.cur
        BY <2>1, <2>3 DEF Noted, Request, Phases, Served
    <2> HIDE DEF new
    <2>5. QED
        BY <1>1, <2>1, <2>2, <2>3, <2>4, FlyingStep
<1>12. QED
    BY <1>1, <1>5, <1>6, <1>7, <1>8, <1>9, <1>10, <1>11

\* What a handler does with a reply it noted before.
LEMMA AfterwardsStep ==
    ASSUME IInv, NEW r \in Requests,
           \/ MarkExhausted(r) \/ (\E seen \in BOOLEAN : StreamEnd(r, seen))
           \/ Count(r) \/ Deliver(r)
    PROVE  /\ RequestStep(r, req[r])
           /\ req[r].pc \in {"marking"} \cup Served
           /\ usage' \in [Accounts -> Nat]
           /\ exhausted' \subseteq Accounts /\ exhausted \subseteq exhausted'
           /\ UNCHANGED <<store, acct, kvSnap, worldVars>>
<1> DEFINE old == req[r]
           e == IF old.pc = "marking" THEN "quota" ELSE "ok"
<1>1. /\ TypeOK /\ ReqInv(old) /\ old \in Request
      /\ old.pc \in {"marking"} \cup Served
    BY DEF IInv, TypeOK, MarkExhausted, StreamEnd, Count, Deliver, Served
<1>2. Noted(old, old, e) /\ old.answer = "none"
    BY <1>1, AlreadyNoted
<1>3. old.cur \in Accounts
    BY <1>2 DEF Noted, InFlight
<1>4. usage \in [Accounts -> Nat] /\ exhausted \subseteq Accounts
    BY <1>1 DEF TypeOK
<1>5. ASSUME NEW v \in {"ok", "upstream", "internal"}, Becomes(r, Answered(old, v))
      PROVE  RequestStep(r, old)
    BY <1>1, <1>2, <1>5, AnsweredStep DEF Noted, Answers
<1>6. CASE MarkExhausted(r)
    <2>1. /\ old.pc = "marking"
          /\ UNCHANGED <<store, acct, usage, kvSnap, worldVars>>
          /\ \/ exhausted' = exhausted \cup {old.cur} /\ Becomes(r, Failed(old, "quota"))
             \/ exhausted' = exhausted /\ Becomes(r, Answered(old, "internal"))
        BY <1>6 DEF MarkExhausted, Thrown
    <2>2. RequestStep(r, old)
        BY <1>2, <1>5, <2>1, FailedStep DEF Retried
    <2>3. QED
        BY <1>1, <1>3, <1>4, <2>1, <2>2
<1>7. CASE \E seen \in BOOLEAN : StreamEnd(r, seen)
    <2> DEFINE new == [old EXCEPT !.pc = "counting", !.usageSeen = TRUE]
    <2>1. /\ old.pc = "streaming" /\ UNCHANGED <<store, dbVars, kvSnap, worldVars>>
          /\ Becomes(r, new) \/ Becomes(r, Answered(old, "ok"))
        BY <1>7 DEF StreamEnd
    <2>2. CASE Becomes(r, new)
        <3>1. /\ new \in Request /\ new.pc = "counting"
              /\ new.reply = old.reply /\ new.kind = old.kind /\ new.spec = old.spec
              /\ new.tried = old.tried /\ new.hits = old.hits /\ new.answer = old.answer
              /\ new.skipped = old.skipped /\ new.cur = old.cur
            BY <1>1 DEF Request, Phases
        <3> HIDE DEF new
        <3>2. RequestStep(r, old)
            BY <1>2, <2>1, <2>2, <3>1, FlyingStep DEF Served
        <3>3. QED
            BY <1>1, <1>4, <2>1, <3>2 DEF dbVars
    <2>3. CASE Becomes(r, Answered(old, "ok"))
        BY <1>1, <1>4, <1>5, <2>1, <2>3 DEF dbVars
    <2>4. QED
        BY <2>1, <2>2, <2>3
<1>8. CASE Count(r)
    <2> DEFINE new == [old EXCEPT !.pc = "replying"]
    <2>1. /\ old.pc = "counting" /\ UNCHANGED <<store, acct, exhausted, kvSnap, worldVars>>
          /\ \/ usage' = [usage EXCEPT ![old.cur] = @ + 1] /\ Becomes(r, new)
             \/ /\ usage' = usage
                /\ Becomes(r, Answered(old, "ok")) \/ Becomes(r, Answered(old, "internal"))
        BY <1>8 DEF Count, Thrown
    <2>2. usage' \in [Accounts -> Nat]
        BY <1>3, <1>4, <2>1
    <2>3. CASE Becomes(r, new)
        <3>1. /\ new \in Request /\ new.pc = "replying"
              /\ new.reply = old.reply /\ new.kind = old.kind /\ new.spec = old.spec
              /\ new.tried = old.tried /\ new.hits = old.hits /\ new.answer = old.answer
              /\ new.skipped = old.skipped /\ new.cur = old.cur
            BY <1>1 DEF Request, Phases
        <3> HIDE DEF new
        <3>2. RequestStep(r, old)
            BY <1>2, <2>1, <2>3, <3>1, FlyingStep DEF Served
        <3>3. QED
            BY <1>1, <1>4, <2>1, <2>2, <3>2
    <2>4. CASE Becomes(r, Answered(old, "ok")) \/ Becomes(r, Answered(old, "internal"))
        BY <1>1, <1>4, <1>5, <2>1, <2>2, <2>4
    <2>5. QED
        BY <2>1, <2>3, <2>4
<1>9. CASE Deliver(r)
    BY <1>1, <1>4, <1>5, <1>9 DEF Deliver, dbVars
<1>10. QED
    BY <1>6, <1>7, <1>8, <1>9

\* A request arrives, is rejected or is dropped.
LEMMA ClientStep ==
    ASSUME IInv, NEW r \in Requests, Client(r)
    PROVE  /\ \/ RequestStep(r, req[r]) /\ req[r].pc \notin {"idle", "done", "cancelled"}
              \/ \E old \in Request : /\ RequestStep(r, old) /\ Asked(old) = {}
                                      /\ req[r].pc = "idle"
           /\ UNCHANGED <<store, dbVars, kvSnap, worldVars>>
<1> DEFINE old == req[r]
<1>1. ReqInv(old) /\ old \in Request /\ Counted(old)
    BY DEF IInv, TypeOK, ReqInv
<1>2. ASSUME NEW k \in KindsOf[r], NEW s \in AccountOrNone, Arrive(r, k, s)
      PROVE  /\ \E o \in Request : RequestStep(r, o) /\ Asked(o) = {}
             /\ old.pc = "idle" /\ UNCHANGED <<store, dbVars, kvSnap, worldVars>>
    <2> DEFINE next == IF s = None THEN "select" ELSE "lookup"
               from == [old EXCEPT !.kind = k, !.spec = s]
               new == [old EXCEPT !.kind = k, !.spec = s, !.pc = next]
    <2>1. /\ old.pc = "idle" /\ Becomes(r, new)
          /\ UNCHANGED <<store, dbVars, kvSnap, worldVars>>
        BY <1>2 DEF Arrive
    <2>2. Fresh(old) /\ old.kind \notin ChatKinds /\ old.answer = "none"
        BY <1>1, <2>1 DEF ReqInv
    <2>3. k \in AllKinds
        BY KindsAssumption
    <2>4. next \in Phases /\ next \in {"select", "lookup"}
        BY DEF Phases
    <2>5. /\ from \in Request /\ from.kind = k /\ from.spec = s /\ from.reply = old.reply
        BY <1>1, <2>3 DEF Request
    <2>6. /\ new \in Request /\ new.pc = next /\ new.kind = k /\ new.spec = s
          /\ new.reply = old.reply /\ new.tried = old.tried /\ new.hits = old.hits
          /\ new.answer = old.answer /\ new.skipped = old.skipped
        BY <1>1, <2>3, <2>4 DEF Request
    <2>7. next = "select" => s = None
        OBVIOUS
    <2>8. next = "lookup" => s \in Accounts
        BY DEF AccountOrNone
    <2> HIDE DEF new, from, next
    <2>9. Asked(new) = {} /\ Asked(from) = {} /\ Asked(old) = {}
        BY <2>2, <2>5, <2>6 DEF Asked, Fresh
    <2>10. Counted(new)
        BY <1>1, <2>2, <2>6, <2>9 DEF Counted, RepliedWith
    <2>11. Fresh(new)
        BY <2>2, <2>6 DEF Fresh
    <2>12. next = "select" => Between(new)
        BY <2>3, <2>6, <2>7, <2>11, EndpointSkips DEF Between, Rotating, Settled, Fresh, Retried
    <2>13. ReqInv(new)
        BY <2>2, <2>4, <2>6, <2>8, <2>10, <2>11, <2>12 DEF ReqInv, Selecting, Served
    <2>14. Proceeds(from, new)
        BY <2>4, <2>5, <2>6, <2>9 DEF Proceeds
    <2>15. QED
        BY <2>1, <2>5, <2>6, <2>9, <2>13, <2>14 DEF RequestStep, Becomes
<1>3. ASSUME NEW k \in KindsOf[r], Reject(r, k)
      PROVE  /\ \E o \in Request : RequestStep(r, o) /\ Asked(o) = {}
             /\ old.pc = "idle" /\ UNCHANGED <<store, dbVars, kvSnap, worldVars>>
    <2> DEFINE from == [old EXCEPT !.kind = k]
    <2>1. /\ old.pc = "idle" /\ Becomes(r, Answered(from, "bad_request"))
          /\ k \notin ChatKinds /\ UNCHANGED <<store, dbVars, kvSnap, worldVars>>
        BY <1>3 DEF Reject
    <2>2. Fresh(old) /\ old.kind \notin ChatKinds
        BY <1>1, <2>1 DEF ReqInv
    <2>3. k \in AllKinds
        BY KindsAssumption
    <2>4. /\ from \in Request /\ from.kind = k /\ from.reply = old.reply
          /\ from.tried = old.tried /\ from.hits = old.hits
        BY <1>1, <2>3 DEF Request
    <2> HIDE DEF from
    <2>5. Asked(from) = {} /\ Counted(from)
        BY <1>1, <2>1, <2>2, <2>4 DEF Counted, Asked, RepliedWith, Fresh
    <2>6. RequestStep(r, from)
        BY <2>1, <2>4, <2>5, AnsweredStep DEF Answers, Refusals
    <2>7. QED
        BY <2>1, <2>4, <2>5, <2>6
<1>4. ASSUME Cancel(r)
      PROVE  /\ RequestStep(r, old) /\ old.pc \notin {"idle", "done", "cancelled"}
             /\ UNCHANGED <<store, dbVars, kvSnap, worldVars>>
    <2> DEFINE new == [old EXCEPT !.pc = "cancelled", !.rows = {}]
    <2>1. /\ Becomes(r, new) /\ old.pc \notin {"idle", "done", "cancelled"}
          /\ UNCHANGED <<store, dbVars, kvSnap, worldVars>>
        BY <1>4 DEF Cancel
    <2>2. /\ new \in Request /\ new.pc = "cancelled" /\ new.kind = old.kind
          /\ new.spec = old.spec /\ new.reply = old.reply /\ new.tried = old.tried
          /\ new.hits = old.hits /\ new.answer = old.answer
        BY <1>1 DEF Request, Phases
    <2> HIDE DEF new
    <2>3. Counted(new) /\ Asked(new) = Asked(old)
        BY <1>1, <2>2, SameReplies
    <2>4. ReqInv(new)
        BY <1>1, <2>1, <2>2, <2>3 DEF ReqInv, Selecting, Served
    <2>5. Proceeds(old, new)
        BY <2>2, <2>3 DEF Proceeds
    <2>6. QED
        BY <2>1, <2>2, <2>4, <2>5 DEF RequestStep, Becomes
<1>5. QED
    BY <1>2, <1>3, <1>4 DEF Client

\* Every step of a handler is a step of its request.
LEMMA HandleStep ==
    ASSUME IInv, NEW r \in Requests, Handle(r)
    PROVE  /\ req[r].pc \notin {"idle", "done", "cancelled"}
           /\ RequestStep(r, req[r])
           /\ usage' \in [Accounts -> Nat]
           /\ exhausted' \subseteq Accounts /\ exhausted \subseteq exhausted'
           /\ kvSnap' \in (SUBSET Accounts) \cup {None}
           /\ UNCHANGED <<store, acct, worldVars>>
<1>1. /\ usage \in [Accounts -> Nat] /\ exhausted \subseteq Accounts
      /\ kvSnap \in (SUBSET Accounts) \cup {None}
    BY DEF IInv, TypeOK
<1>2. CASE Select(r)
    BY <1>1, <1>2, SelectStep DEF Selecting, dbVars
<1>3. CASE Lookup(r)
    BY <1>1, <1>3, LookupStep DEF Lookup, dbVars
<1>4. CASE \/ NetworkError(r) \/ UpstreamBusy(r) \/ NeuronLimit(r)
           \/ UpstreamFatal(r) \/ BrokenBody(r) \/ EmptyResult(r) \/ Success(r)
    BY <1>1, <1>4, ReplyStep DEF dbVars
<1>5. CASE \/ MarkExhausted(r) \/ (\E seen \in BOOLEAN : StreamEnd(r, seen))
           \/ Count(r) \/ Deliver(r)
    BY <1>1, <1>5, AfterwardsStep DEF Served
<1>6. QED
    BY <1>2, <1>3, <1>4, <1>5 DEF Handle

\* A step of a request keeps the type and the invariant of every request.
LEMMA RequestStepInv ==
    ASSUME IInv, NEW r \in Requests, NEW old, RequestStep(r, old)
    PROVE  /\ req' \in [Requests -> Request]
           /\ \A q \in Requests : ReqInv(req'[q])
<1>1. PICK new \in Request : ReqInv(new) /\ req' = [req EXCEPT ![r] = new]
    BY DEF RequestStep
<1>2. req \in [Requests -> Request] /\ \A q \in Requests : ReqInv(req[q])
    BY DEF IInv, TypeOK
<1>3. QED
    BY <1>1, <1>2

\* Synchronisation, edits, expiry and midnight leave the requests alone.
LEMMA BackgroundType ==
    ASSUME TypeOK, Environment \/ \E a \in Accounts : Admin(a)
    PROVE  TypeOK' /\ req' = req
<1>1. ASSUME Environment PROVE TypeOK' /\ req' = req
    <2>1. CASE SyncStart
        BY <2>1 DEF SyncStart, TypeOK, dbVars
    <2>2. CASE \E a \in Accounts, n \in 0..MaxReport : SyncReply(a, n)
        BY <2>2 DEF SyncReply, TypeOK
    <2>3. CASE ExpireSnapshot
        BY <2>3 DEF ExpireSnapshot, Edit, TypeOK, dbVars
    <2>4. CASE DayChange
        BY <2>4 DEF DayChange, TypeOK
    <2>5. QED
        BY <1>1, <2>1, <2>2, <2>3, <2>4 DEF Environment
<1>2. ASSUME NEW a \in Accounts, Admin(a) PROVE TypeOK' /\ req' = req
    <2>1. CASE \E known \in BOOLEAN : AddAccount(a, known)
        BY <2>1 DEF AddAccount, Edit, TypeOK, AccountRow
    <2>2. CASE \E on \in BOOLEAN : SetRoutable(a, on)
        BY <2>2 DEF SetRoutable, Edit, TypeOK, AccountRow
    <2>3. CASE DeleteAccount(a)
        BY <2>3 DEF DeleteAccount, Edit, TypeOK, AccountRow
    <2>4. CASE ClearExhausted(a)
        BY <2>4 DEF ClearExhausted, Edit, TypeOK
    <2>5. QED
        BY <1>2, <2>1, <2>2, <2>3, <2>4 DEF Admin
<1>3. QED
    BY <1>1, <1>2

-----------------------------------------------------------------------------
(***************************************************************************)
(* The invariant is inductive                                              *)
(***************************************************************************)

LEMMA InitInv == Init => IInv
<1> SUFFICES ASSUME Init PROVE IInv
    OBVIOUS
<1>1. NewRequest \in Request
    BY DEF NewRequest, Request, Phases, AllKinds, AccountOrNone, Answers, Replies
<1>2. TypeOK
    BY <1>1, AccountsAssumption, KindsAssumption DEF Init, TypeOK, AccountRow
<1>3. Asked(NewRequest) = {} /\ RepliedWith(NewRequest, "quota") = {}
    BY DEF NewRequest, Asked, RepliedWith
<1>4. Counted(NewRequest)
    BY <1>3, FS_EmptySet DEF Counted, NewRequest
<1>5. ReqInv(NewRequest)
    BY <1>4 DEF ReqInv, NewRequest, Fresh, Selecting, Served, ChatKinds
<1>6. QED
    BY <1>2, <1>5 DEF Init, IInv

LEMMA NextInv == IInv /\ [Next]_vars => IInv'
<1> SUFFICES ASSUME IInv, [Next]_vars PROVE IInv'
    OBVIOUS
<1>1. TypeOK
    BY DEF IInv
<1>2. CASE UNCHANGED vars
    BY <1>2 DEF vars, IInv, TypeOK
<1>3. ASSUME NEW r \in Requests, Handle(r) PROVE IInv'
    <2>1. /\ RequestStep(r, req[r])
          /\ usage' \in [Accounts -> Nat] /\ exhausted' \subseteq Accounts
          /\ kvSnap' \in (SUBSET Accounts) \cup {None}
          /\ UNCHANGED <<store, acct, worldVars>>
        BY <1>3, HandleStep
    <2>2. req' \in [Requests -> Request] /\ \A q \in Requests : ReqInv(req'[q])
        BY <1>3, <2>1, RequestStepInv
    <2>3. QED
        BY <1>1, <2>1, <2>2 DEF IInv, TypeOK, worldVars
<1>4. ASSUME NEW r \in Requests, Client(r) PROVE IInv'
    <2>1. PICK old : RequestStep(r, old) /\ UNCHANGED <<store, dbVars, kvSnap, worldVars>>
        BY <1>4, ClientStep
    <2>2. req' \in [Requests -> Request] /\ \A q \in Requests : ReqInv(req'[q])
        BY <1>4, <2>1, RequestStepInv
    <2>3. QED
        BY <1>1, <2>1, <2>2 DEF IInv, TypeOK, dbVars, worldVars
<1>5. ASSUME Environment \/ \E a \in Accounts : Admin(a) PROVE IInv'
    BY <1>1, <1>5, BackgroundType DEF IInv
<1>6. QED
    BY <1>2, <1>3, <1>4, <1>5 DEF Next

\* IInv holds in every reachable state of the Worker's gateway.
THEOREM Invariance == Spec => []IInv
<1>1. Init => IInv
    BY InitInv
<1>2. IInv /\ [Next]_vars => IInv'
    BY NextInv
<1>3. QED
    BY <1>1, <1>2, PTL DEF Spec

-----------------------------------------------------------------------------
(***************************************************************************)
(* The properties                                                          *)
(***************************************************************************)

\* Every variable of the Worker's gateway keeps its type.
THEOREM TypeCorrect == Spec => []TypeOK
<1>1. IInv => TypeOK
    BY DEF IInv
<1>2. QED
    BY <1>1, Invariance, PTL

\* A rotation is reported as exhaustion (429) only when an account it asked
\* said 4006, an image request's only when all did, although the selections
\* it went through worked on snapshots other requests had written.
THEOREM QuotaVerdictCorrect == Spec => []QuotaVerdictJustified
<1>1. IInv => QuotaVerdictJustified
    <2> SUFFICES ASSUME IInv, NEW r \in Requests,
                        req[r].answer = "quota_exceeded"
                 PROVE  /\ Rotating(req[r])
                        /\ RepliedWith(req[r], "quota") # {}
                        /\ req[r].kind = "image" =>
                              Asked(req[r]) = RepliedWith(req[r], "quota")
        BY DEF QuotaVerdictJustified
    <2> DEFINE rec == req[r]
               hit == RepliedWith(rec, "quota")
    <2>1. Counted(rec) /\ rec \in Request /\ Rotating(rec) /\ QuotaVerdict(rec)
        BY DEF IInv, ReqInv, TypeOK
    <2>2. Cardinality(hit) > 0
        BY <2>1 DEF QuotaVerdict, Counted
    <2>3. hit # {}
        BY <2>2, FS_EmptySet
    <2>4. hit \in SUBSET Asked(rec) /\ IsFiniteSet(Asked(rec))
        BY FiniteReplies DEF RepliedWith, Asked
    <2>5. rec.kind = "image" => Cardinality(Asked(rec)) = Cardinality(hit)
        BY <2>1 DEF QuotaVerdict, Counted, Endpoint, ImageEndpoint, ChatKinds
    <2>6. QED
        BY <2>1, <2>3, <2>4, <2>5, FS_Subset
<1>2. QED
    BY <1>1, Invariance, PTL

Holding == {"join", "put", "claim"}

\* What a step lets the request carry on: nothing, or accounts that were
\* carried before or are not marked.
Keeps(r) ==
    \E new : /\ Becomes(r, new)
             /\ new.pc \in Holding => new.rows \subseteq Carried \cup (Accounts \ exhausted)

\* The end of a selection takes an account of the list it worked on.
LEMMA ChooseKeeps ==
    ASSUME NEW r \in Requests, NEW rec \in Request, Choose(r, rec),
           rec.rows \subseteq Carried \cup (Accounts \ exhausted)
    PROVE  Keeps(r)
<1>1. CASE Becomes(r, NoAccount(rec))
    <2>1. NoAccount(rec).pc = "done"
        BY DEF NoAccount, Answered, Request
    <2>2. QED
        BY <1>1, <2>1 DEF Keeps, Holding
<1>2. CASE \E a \in rec.rows :
               Becomes(r, [rec EXCEPT !.pc = "claim", !.cur = a, !.rows = {a}])
    <2>1. PICK a \in rec.rows :
               Becomes(r, [rec EXCEPT !.pc = "claim", !.cur = a, !.rows = {a}])
        BY <1>2
    <2> DEFINE new == [rec EXCEPT !.pc = "claim", !.cur = a, !.rows = {a}]
    <2>2. new.rows = {a}
        BY DEF Request
    <2> HIDE DEF new
    <2>3. QED
        BY <2>1, <2>2 DEF Keeps, new
<1>3. QED
    BY <1>1, <1>2 DEF Choose

\* What a handler carries it carried before, took from KV or has filtered.
LEMMA HandleKeeps ==
    ASSUME TypeOK, NEW r \in Requests, Handle(r) \/ Client(r)
    PROVE  Keeps(r) /\ (kvSnap' = kvSnap \/ PutSnapshot(r))
<1> DEFINE old == req[r]
<1>1. old \in Request /\ exhausted \subseteq Accounts
    BY DEF TypeOK
<1>2. old.pc \in Holding => old.rows \subseteq Carried
    BY DEF Carried, Holding
<1>3. ASSUME NEW new, Becomes(r, new), new.pc \notin Holding PROVE Keeps(r)
    BY <1>3 DEF Keeps
<1>4. CASE ReadSnapshot(r)
    <2>1. CASE store # "d1" /\ kvSnap # None
        <3> DEFINE new == [old EXCEPT !.pc = "join", !.rows = kvSnap]
        <3>1. Becomes(r, new)
            <4> HIDE DEF new
            <4>1. QED
                BY <1>4, <2>1 DEF ReadSnapshot, new
        <3>2. new.rows = kvSnap
            BY <1>1 DEF Request
        <3> HIDE DEF new
        <3>3. QED
            BY <1>4, <2>1, <3>1, <3>2 DEF Keeps, Carried, ReadSnapshot
    <2>2. CASE store = "d1" \/ kvSnap = None
        <3>1. \/ Becomes(r, [old EXCEPT !.pc = "accounts"])
              \/ Becomes(r, [old EXCEPT !.pc = "recheck"])
            BY <1>4, <2>2 DEF ReadSnapshot
        <3>2. QED
            BY <1>1, <1>3, <1>4, <3>1 DEF ReadSnapshot, Holding, Request
    <2>3. QED
        BY <2>1, <2>2
<1>5. CASE RecheckSnapshot(r)
    <2>1. \/ Becomes(r, [old EXCEPT !.pc = "accounts"])
          \/ Becomes(r, NoAccount(old))
        BY <1>5 DEF RecheckSnapshot
    <2>2. QED
        BY <1>1, <1>3, <1>5, <2>1
        DEF RecheckSnapshot, Holding, Request, NoAccount, Answered
<1>6. CASE ReadAccounts(r)
    BY <1>1, <1>3, <1>6 DEF ReadAccounts, Holding, Request
<1>7. CASE JoinAccounts(r)
    <2> DEFINE rec == [old EXCEPT !.rows = @ \cap Routable]
    <2>1. Choose(r, rec) /\ old.pc = "join" /\ kvSnap' = kvSnap
        BY <1>7 DEF JoinAccounts
    <2>2. rec \in Request /\ rec.rows \subseteq old.rows
        BY <1>1 DEF Request
    <2> HIDE DEF rec
    <2>3. QED
        BY <1>2, <2>1, <2>2, ChooseKeeps DEF Holding
<1>8. CASE ReadUsage(r)
    <2> DEFINE rec == [old EXCEPT !.rows = @ \ exhausted]
               new == [rec EXCEPT !.pc = "put"]
    <2>1. (Becomes(r, new) \/ Choose(r, rec)) /\ kvSnap' = kvSnap
        BY <1>8 DEF ReadUsage
    <2>2. rec \in Request /\ rec.rows \subseteq Accounts \ exhausted
        BY <1>1 DEF Request
    <2>3. new.rows = rec.rows
        BY <1>1 DEF Request
    <2> HIDE DEF rec, new
    <2>4. QED
        BY <2>1, <2>2, <2>3, ChooseKeeps DEF Keeps
<1>9. CASE PutSnapshot(r)
    <2>1. Choose(r, old) /\ old.pc = "put"
        BY <1>9 DEF PutSnapshot
    <2>2. QED
        BY <1>1, <1>2, <1>9, <2>1, ChooseKeeps DEF Holding
<1>10. CASE Claim(r)
    <2> DEFINE rec == [old EXCEPT !.rows = {}]
               skip == [rec EXCEPT !.pc = "select", !.skipped = @ \cup {rec.cur}]
    <2>1. /\ kvSnap' = kvSnap
          /\ \/ Becomes(r, Thrown(rec))
             \/ Becomes(r, Called(rec, rec.cur))
             \/ Becomes(r, skip)
        BY <1>10 DEF Claim
    <2>2. rec \in Request
        BY <1>1 DEF Request
    <2> HIDE DEF rec
    <2>3. Thrown(rec).pc = "done" /\ Called(rec, rec.cur).pc = "calling" /\ skip.pc = "select"
        BY <2>2 DEF Thrown, Answered, Called, Request
    <2>4. QED
        BY <1>3, <2>1, <2>3 DEF Holding
<1>11. CASE UnreadableCredentials(r)
    <2> DEFINE rec == [old EXCEPT !.rows = {}]
    <2>1. Becomes(r, Thrown(rec)) /\ kvSnap' = kvSnap
        BY <1>11 DEF UnreadableCredentials
    <2>2. Thrown(rec).pc = "done"
        BY <1>1 DEF Thrown, Answered, Request
    <2>3. QED
        BY <1>3, <2>1, <2>2 DEF Holding
<1>12. CASE Lookup(r)
    <2>1. Called(old, old.spec).pc = "calling" /\ Answered(old, "not_found").pc = "done"
        BY <1>1 DEF Called, Answered, Request
    <2>2. QED
        BY <1>3, <1>12, <2>1 DEF Lookup, Holding
<1>13. ASSUME NEW rec \in Request, NEW e \in Retried PROVE Failed(rec, e).pc \notin Holding
    BY DEF Failed, Rotate, Answered, Request, Holding
<1>15. CASE \/ NetworkError(r) \/ UpstreamBusy(r) \/ NeuronLimit(r) \/ UpstreamFatal(r)
            \/ BrokenBody(r) \/ EmptyResult(r) \/ Success(r)
    <2> DEFINE Rec(e) == Replied(r, e)
               marked == [Rec("quota") EXCEPT !.pc = "marking", !.hits = @ + 1]
               next == IF old.kind = "stream" THEN "streaming" ELSE "counting"
               served == [Rec("ok") EXCEPT !.pc = next]
    <2>1. /\ kvSnap' = kvSnap
          /\ \/ \E e, f : Becomes(r, Failed(Rec(e), f))
             \/ Becomes(r, marked)
             \/ \E e, v : Becomes(r, Answered(Rec(e), v))
             \/ Becomes(r, served)
        BY <1>15
        DEF NetworkError, UpstreamBusy, NeuronLimit, UpstreamFatal, BrokenBody,
            EmptyResult, Success, Thrown
    <2>2. /\ \A e, f : Failed(Rec(e), f).pc \in {"select", "done"}
          /\ marked.pc = "marking"
          /\ \A e, v : Answered(Rec(e), v).pc = "done"
          /\ served.pc = next
        BY <1>1 DEF Failed, Rotate, Answered, Replied, Request
    <2>3. next \notin Holding
        BY DEF Holding
    <2> HIDE DEF Rec, marked, next, served
    <2>4. QED
        BY <1>3, <2>1, <2>2, <2>3 DEF Holding
<1>16. CASE MarkExhausted(r)
    <2>1. Becomes(r, Failed(old, "quota")) \/ Becomes(r, Thrown(old))
        BY <1>16 DEF MarkExhausted
    <2>2. Thrown(old).pc = "done"
        BY <1>1 DEF Thrown, Answered, Request
    <2>3. QED
        BY <1>1, <1>3, <1>13, <1>16, <2>1, <2>2 DEF MarkExhausted, Retried, Holding
<1>17. CASE \/ (\E seen \in BOOLEAN : StreamEnd(r, seen)) \/ Count(r) \/ Deliver(r)
    <2>1. \/ \E v : Becomes(r, Answered(old, v))
          \/ Becomes(r, [old EXCEPT !.pc = "counting", !.usageSeen = TRUE])
          \/ Becomes(r, [old EXCEPT !.pc = "replying"])
        BY <1>17 DEF StreamEnd, Count, Deliver, Thrown
    <2>2. /\ \A v : Answered(old, v).pc = "done"
          /\ [old EXCEPT !.pc = "counting", !.usageSeen = TRUE].pc = "counting"
          /\ [old EXCEPT !.pc = "replying"].pc = "replying"
        BY <1>1 DEF Answered, Request
    <2>3. QED
        BY <1>3, <1>17, <2>1, <2>2 DEF StreamEnd, Count, Deliver, Holding
<1>18. CASE Client(r)
    <2>1. ASSUME NEW k, NEW sp, Arrive(r, k, sp) PROVE Keeps(r) /\ kvSnap' = kvSnap
        <3> DEFINE new == [old EXCEPT !.kind = k, !.spec = sp,
                              !.pc = IF sp = None THEN "select" ELSE "lookup"]
        <3>1. Becomes(r, new) /\ kvSnap' = kvSnap
            BY <2>1 DEF Arrive
        <3>2. new.pc \in {"select", "lookup"}
            BY <1>1 DEF Request
        <3> HIDE DEF new
        <3>3. QED
            BY <1>3, <3>1, <3>2 DEF Holding
    <2>2. ASSUME NEW k, Reject(r, k) PROVE Keeps(r) /\ kvSnap' = kvSnap
        <3> DEFINE new == Answered([old EXCEPT !.kind = k], "bad_request")
        <3>1. Becomes(r, new) /\ kvSnap' = kvSnap
            BY <2>2 DEF Reject
        <3>2. new.pc = "done"
            BY <1>1 DEF Request, Answered
        <3> HIDE DEF new
        <3>3. QED
            BY <1>3, <3>1, <3>2 DEF Holding
    <2>3. ASSUME Cancel(r) PROVE Keeps(r) /\ kvSnap' = kvSnap
        BY <1>1, <1>3, <2>3 DEF Cancel, Request, Holding
    <2>4. QED
        BY <1>18, <2>1, <2>2, <2>3 DEF Client
<1>19. QED
    BY <1>4, <1>5, <1>6, <1>7, <1>8, <1>9, <1>10, <1>11, <1>12, <1>15, <1>16, <1>17, <1>18
    DEF Handle, Select

\* Between KV and the handlers an account that was marked is passed on only by
\* those who had it before: no await lets it in again, in no interleaving.
THEOREM MarkedOnlyFadesCorrect == Spec => MarkedOnlyFades
<1> DEFINE Fades == \A a \in exhausted \cap exhausted' : a \in Carried' => a \in Carried
<1>1. IInv /\ [Next]_vars => [Fades]_vars
    <2> SUFFICES ASSUME IInv, Next PROVE Fades
        OBVIOUS
    <2>1. TypeOK
        BY DEF IInv
    <2>2. ASSUME NEW r \in Requests, Handle(r) \/ Client(r) PROVE Fades
        <3>1. PICK new : /\ Becomes(r, new)
                         /\ new.pc \in Holding =>
                               new.rows \subseteq Carried \cup (Accounts \ exhausted)
            BY <2>1, <2>2, HandleKeeps DEF Keeps
        <3>2. \A q \in Requests : req'[q] = IF q = r THEN new ELSE req[q]
            BY <2>1, <3>1 DEF Becomes, TypeOK
        <3>3. \A q \in Requests : req'[q].pc \in Holding =>
                 req'[q].rows \subseteq Carried \cup (Accounts \ exhausted)
            BY <3>1, <3>2 DEF Carried, Holding
        <3>4. kvSnap' # None => kvSnap' \subseteq Carried
            <4>1. CASE kvSnap' = kvSnap
                BY <4>1 DEF Carried
            <4>2. CASE PutSnapshot(r)
                BY <4>2 DEF PutSnapshot, Carried
            <4>3. QED
                BY <2>1, <2>2, <4>1, <4>2, HandleKeeps
        <3>5. QED
            BY <3>3, <3>4 DEF Carried, Holding
    <2>3. ASSUME Environment PROVE Fades
        <3>1. req' = req
            BY <2>1, <2>3, BackgroundType
        <3>2. kvSnap' = kvSnap \/ kvSnap' = None
            BY <2>3 DEF Environment, SyncStart, SyncReply, ExpireSnapshot, DayChange
        <3>3. QED
            BY <3>1, <3>2 DEF Carried
    <2>4. ASSUME NEW a \in Accounts, Admin(a) PROVE Fades
        <3>1. req' = req
            BY <2>1, <2>4, BackgroundType
        <3>2. kvSnap' = kvSnap
            BY <2>4 DEF Admin, AddAccount, SetRoutable, DeleteAccount, ClearExhausted
        <3>3. QED
            BY <3>1, <3>2 DEF Carried
    <2>5. QED
        BY <2>2, <2>3, <2>4 DEF Next
<1>2. QED
    BY <1>1, Invariance, PTL DEF Spec, MarkedOnlyFades

-----------------------------------------------------------------------------
(***************************************************************************)
(* Every endpoint but the chat implements Failover                         *)
(***************************************************************************)

\* A step of one request changes its job only.
LEMMA JobsUpdate ==
    ASSUME IInv, NEW r \in Requests, NEW new, req' = [req EXCEPT ![r] = new]
    PROVE  Jobs' = [Jobs EXCEPT ![r] = JobOf(new)]
BY DEF Jobs, JobOf, Asked, Phase, Verdict, IInv, TypeOK

\* A step of an open request asks a fresh account, closes it or stutters.
LEMMA OpenStepRefines ==
    ASSUME IInv, NEW r \in Requests, req[r].pc \notin {"idle", "done", "cancelled"},
           RequestStep(r, req[r])
    PROVE  Abstract!Next \/ Jobs' = Jobs
<1> DEFINE old == req[r]
<1>1. PICK new \in Request : /\ ReqInv(new) /\ Proceeds(old, new)
                             /\ req' = [req EXCEPT ![r] = new]
    BY DEF RequestStep
<1>2. Jobs' = [Jobs EXCEPT ![r] = JobOf(new)] /\ Jobs[r] = JobOf(old)
    BY <1>1, JobsUpdate DEF Jobs
<1>3. ReqInv(old) /\ old.answer = "none" /\ new.spec = old.spec /\ new.kind = old.kind
      /\ new.pc # "idle"
    BY <1>1 DEF IInv, ReqInv, Proceeds
<1>4. CASE old.kind \in ChatKinds
    <2>1. JobOf(new) = JobOf(old)
        BY <1>3, <1>4 DEF JobOf
    <2>2. QED
        BY <1>2, <2>1 DEF Jobs
<1>5. ASSUME old.kind \notin ChatKinds PROVE Abstract!Next \/ Jobs' = Jobs
    <2> DEFINE v == Verdict(new)
    <2>1. JobOf(old) = [phase |-> "open", pin |-> old.spec, asked |-> Asked(old),
                        calls |-> old.tried, verdict |-> "none"]
        BY <1>3, <1>5 DEF JobOf, Phase, Verdict
    <2>2. JobOf(new) = [phase |-> Phase(new.pc), pin |-> old.spec, asked |-> Asked(new),
                        calls |-> new.tried, verdict |-> v]
        BY <1>3, <1>5 DEF JobOf
    <2>3. new.tried = Cardinality(Asked(new)) /\ old.tried = Cardinality(Asked(old))
        BY <1>1, <1>3, <1>5 DEF ReqInv, Counted
    <2>4. CASE new.pc \notin {"done", "cancelled"} /\ Asked(new) = Asked(old)
        <3>1. v = "none" /\ Phase(new.pc) = "open"
            BY <1>1, <1>3, <2>4 DEF Verdict, Phase, ReqInv
        <3>2. JobOf(new) = JobOf(old)
            BY <2>1, <2>2, <2>3, <2>4, <3>1
        <3>3. QED
            BY <1>2, <3>2 DEF Jobs
    <2>5. CASE new.pc \in {"done", "cancelled"} /\ Asked(new) = Asked(old)
        <3>1. v \in Refusals \/ Asked(old) # {}
            BY <1>1, <2>5 DEF Verdict, Proceeds, Refusals
        <3>2. v \in Answers \cup {"abandoned"}
            BY <1>1 DEF Verdict, Request
        <3>3. JobOf(new) = [phase |-> "closed", pin |-> old.spec, asked |-> Asked(old),
                            calls |-> old.tried, verdict |-> v]
            BY <2>2, <2>3, <2>5 DEF Phase
        <3> HIDE DEF v
        <3>4. Abstract!Close(r, v)
            BY <1>2, <2>1, <3>1, <3>3 DEF Abstract!Close
        <3>5. QED
            BY <3>2, <3>4 DEF Abstract!Next
    <2>6. CASE Asked(new) # Asked(old)
        <3>1. new.pc = "calling"
            BY <1>1, <2>6 DEF Proceeds
        <3>2. PICK a \in Accounts : /\ Asked(new) = Asked(old) \cup {a}
                                    /\ a \notin Asked(old)
                                    /\ new.spec = None \/ new.spec = a
            BY <1>1, <1>3, <1>5, <2>6 DEF Proceeds
        <3>3. new.tried = old.tried + 1
            BY <2>3, <3>2, FiniteReplies, FS_AddElement
        <3>4. v = "none" /\ Phase(new.pc) = "open"
            BY <1>1, <3>1 DEF Verdict, Phase, ReqInv
        <3>5. Abstract!Ask(r, a)
            BY <1>2, <1>3, <2>1, <2>2, <3>2, <3>3, <3>4
            DEF Abstract!Ask, Abstract!Allowed
        <3>6. QED
            BY <3>2, <3>5 DEF Abstract!Next
    <2>7. QED
        BY <1>1, <2>4, <2>5, <2>6 DEF Proceeds
<1>6. QED
    BY <1>4, <1>5

\* An arrival submits the job or refuses it; a chat request is no job.
LEMMA ArrivalRefines ==
    ASSUME IInv, NEW r \in Requests, req[r].pc = "idle",
           NEW old \in Request, Asked(old) = {}, RequestStep(r, old)
    PROVE  Abstract!Next \/ Jobs' = Jobs
<1>1. PICK new \in Request : /\ ReqInv(new) /\ Proceeds(old, new)
                             /\ req' = [req EXCEPT ![r] = new]
    BY DEF RequestStep
<1>2. Jobs' = [Jobs EXCEPT ![r] = JobOf(new)] /\ Jobs[r] = JobOf(req[r])
    BY <1>1, JobsUpdate DEF Jobs
<1>3. ReqInv(req[r])
    BY DEF IInv
<1>4. req[r].kind \notin ChatKinds /\ Asked(req[r]) = {} /\ req[r].tried = 0
      /\ req[r].spec = None /\ req[r].answer = "none"
    BY <1>3, FS_EmptySet DEF ReqInv, Fresh, Asked, Counted
<1>5. JobOf(req[r]) = UnstartedJob
    BY <1>4 DEF JobOf, Phase, Verdict, UnstartedJob
<1>6. CASE new.kind \in ChatKinds
    <2>1. JobOf(new) = JobOf(req[r])
        BY <1>5, <1>6 DEF JobOf
    <2>2. QED
        BY <1>2, <2>1 DEF Jobs
<1>7. ASSUME new.kind \notin ChatKinds PROVE Abstract!Next
    <2> DEFINE v == Verdict(new)
               pin == new.spec
    <2>1. JobOf(new) = [phase |-> Phase(new.pc), pin |-> pin, asked |-> Asked(new),
                        calls |-> new.tried, verdict |-> v]
        BY <1>7 DEF JobOf
    <2>2. new.tried = Cardinality(Asked(new)) /\ pin \in AccountOrNone
        BY <1>1, <1>7 DEF ReqInv, Counted, Request
    <2>3. Jobs[r].phase = "new"
        BY <1>2, <1>5 DEF UnstartedJob
    <2>4. CASE new.pc \in {"done", "cancelled"} /\ Asked(new) = {}
        <3>1. v \in Refusals
            BY <1>1, <2>4 DEF Verdict, Proceeds, Refusals
        <3>2. new.tried = 0 /\ Phase(new.pc) = "closed"
            BY <2>2, <2>4, FS_EmptySet DEF Phase
        <3>3. Abstract!Refuse(r, pin, v)
            BY <1>2, <2>1, <2>3, <2>4, <3>1, <3>2 DEF Abstract!Refuse
        <3>4. QED
            BY <2>2, <3>1, <3>3 DEF Abstract!Next, AccountOrNone
    <2>5. CASE new.pc \notin {"done", "cancelled"} /\ Asked(new) = {}
        <3>1. new.tried = 0 /\ Phase(new.pc) = "open" /\ v = "none"
            BY <1>1, <2>2, <2>5, FS_EmptySet DEF Phase, Verdict, ReqInv, Proceeds
        <3>2. Abstract!Submit(r, pin, {})
            BY <1>2, <2>1, <2>3, <2>5, <3>1 DEF Abstract!Submit
        <3>3. QED
            BY <2>2, <3>2 DEF Abstract!Next, AccountOrNone
    <2>6. CASE Asked(new) # {}
        <3>1. new.pc = "calling"
            BY <1>1, <2>6 DEF Proceeds
        <3>2. PICK a \in Accounts : /\ Asked(new) = {a}
                                    /\ new.spec = None \/ new.spec = a
            BY <1>1, <2>6 DEF Proceeds
        <3>3. new.tried = 1 /\ Phase(new.pc) = "open" /\ v = "none"
            BY <1>1, <2>2, <3>1, <3>2, FS_Singleton DEF Phase, Verdict, ReqInv
        <3>4. Abstract!Submit(r, pin, {a})
            BY <1>2, <2>1, <2>3, <3>2, <3>3 DEF Abstract!Submit, Abstract!Allowed
        <3>5. QED
            BY <2>2, <3>2, <3>4 DEF Abstract!Next, AccountOrNone
    <2>7. QED
        BY <2>4, <2>5, <2>6
<1>8. QED
    BY <1>6, <1>7

\* Whatever snapshots the selections find in KV, a request of an endpoint that
\* is not the chat asks each account at most once, a pinned one only its own,
\* and is answered once.
THEOREM FailoverImplemented == Spec => ImplementsFailover
<1>1. Init => Abstract!Init
    <2>1. JobOf(NewRequest) = Abstract!NewJob
        BY DEF Abstract!NewJob, NewRequest, JobOf, Phase, Verdict, Asked, ChatKinds
    <2>2. QED
        BY <2>1 DEF Init, Abstract!Init, Jobs
<1>2. IInv /\ [Next]_vars => [Abstract!Next]_Jobs
    <2> SUFFICES ASSUME IInv, [Next]_vars PROVE Abstract!Next \/ Jobs' = Jobs
        OBVIOUS
    <2>1. ASSUME req' = req PROVE Jobs' = Jobs
        BY <2>1 DEF Jobs, JobOf, Asked, Phase, Verdict
    <2>2. ASSUME NEW r \in Requests, Handle(r) PROVE Abstract!Next \/ Jobs' = Jobs
        BY <2>2, HandleStep, OpenStepRefines
    <2>3. ASSUME NEW r \in Requests, Client(r) PROVE Abstract!Next \/ Jobs' = Jobs
        BY <2>3, ClientStep, OpenStepRefines, ArrivalRefines
    <2>4. ASSUME Environment \/ \E a \in Accounts : Admin(a) PROVE Jobs' = Jobs
        BY <2>1, <2>4, BackgroundType DEF IInv
    <2>5. QED
        BY <2>1, <2>2, <2>3, <2>4 DEF Next, vars
<1>3. QED
    BY <1>1, <1>2, Invariance, PTL DEF Spec, ImplementsFailover, Abstract!Spec

-----------------------------------------------------------------------------
(***************************************************************************)
(* The accounting                                                          *)
(***************************************************************************)

\* The accounts that exist or existed: the ids the table handed out.
Born == {a \in Accounts : acct[a].row # "unborn"}

\* The completions of account a that are in its count for certain: the client
\* has, or is being sent, a result that was counted.
Delivered(rec, a) ==
    /\ rec.cur = a /\ rec.reply[a] = "ok"
    /\ \/ rec.pc = "replying"
       \/ rec.answer = "ok" /\ (rec.kind = "stream" => rec.usageSeen)

\* Those that may be: the handler is past the place where it counts, whether
\* it counted, failed to or was cancelled.
Countable(rec, a) ==
    rec.cur = a /\ rec.reply[a] = "ok" /\ rec.pc \in {"replying", "done", "cancelled"}

CertainOf(a) == {r \in Requests : Delivered(req[r], a)}
PossibleOf(a) == {r \in Requests : Countable(req[r], a)}

\* A request names accounts that were added, and a stream is on its way to the
\* count only with its usage.
ReqLedger(rec) ==
    /\ rec.cur \in Born \cup {None}
    /\ rec.rows \subseteq Born
    /\ rec.pc = "streaming" => rec.kind = "stream"
    /\ rec.pc \in {"counting", "replying"} /\ rec.kind = "stream" => rec.usageSeen
    /\ rec.usageSeen => rec.pc \in {"counting", "replying", "done", "cancelled"}

LedgerInv ==
    /\ \A r \in Requests : ReqLedger(req[r])
    /\ kvSnap # None => kvSnap \subseteq Born
    /\ syncs = 0 => \A a \in Accounts : syncing[a] = 0
    /\ syncs = 0 /\ day = 0 => \A a \in Accounts :
          /\ acct[a].row = "unborn" => usage[a] = 0
          /\ RowExists(a) => /\ Cardinality(CertainOf(a)) <= usage[a]
                             /\ usage[a] <= Cardinality(PossibleOf(a))

-----------------------------------------------------------------------------
\* A record that differs from the request old in nothing the ledger counts.
Light(rec, old) ==
    /\ rec \in Request /\ rec.answer # "ok" /\ rec.usageSeen = old.usageSeen
    /\ rec.cur \in Born \cup {None} /\ rec.rows \subseteq Born

\* A step that leaves the request short of its count, or ends it unserved.
Quietly(r) ==
    \E new : /\ Light(new, req[r]) /\ Becomes(r, new)
             /\ new.pc \notin {"streaming", "counting", "replying"}

LEMMA LightAnswered ==
    ASSUME NEW rec, NEW old, Light(rec, old), NEW v \in Answers \ {"ok"}
    PROVE  Light(Answered(rec, v), old) /\ Answered(rec, v).pc = "done"
BY DEF Light, Answered, Request, Phases

LEMMA LightCalled ==
    ASSUME NEW rec, NEW old, Light(rec, old), NEW a \in Born
    PROVE  Light(Called(rec, a), old) /\ Called(rec, a).pc = "calling"
<1> DEFINE replies == [rec.reply EXCEPT ![a] = "asked"]
           tries == IF rec.kind \in ChatKinds THEN rec.tried ELSE rec.tried + 1
<1>1. replies \in [Accounts -> Replies] /\ tries \in Nat /\ a \in AccountOrNone
    BY DEF Light, Request, Replies, Born, AccountOrNone
<1>2. Called(rec, a) = [rec EXCEPT !.pc = "calling", !.cur = a, !.reply = replies,
                                   !.tried = tries]
    BY DEF Called, Light, Request
<1> HIDE DEF replies, tries
<1>3. QED
    BY <1>1, <1>2 DEF Light, Request, Phases

LEMMA LightFailed ==
    ASSUME NEW rec, NEW old, Light(rec, old), rec.cur \in Accounts, NEW e
    PROVE  Light(Failed(rec, e), old) /\ Failed(rec, e).pc \in {"select", "done"}
<1>1. CASE Rotating(rec)
    <2> DEFINE skips == IF e \in Endpoint[rec.kind].skips
                        THEN rec.skipped \cup {rec.cur} ELSE rec.skipped
    <2>1. Failed(rec, e) = [rec EXCEPT !.pc = "select", !.skipped = skips]
        BY <1>1 DEF Failed, Rotate
    <2>2. skips \subseteq Accounts
        BY DEF Light, Request
    <2> HIDE DEF skips
    <2>3. QED
        BY <2>1, <2>2 DEF Light, Request, Phases
<1>2. CASE ~Rotating(rec)
    BY <1>2, LightAnswered DEF Failed, Answers
<1>3. QED
    BY <1>1, <1>2

LEMMA LightReplied ==
    ASSUME NEW r \in Requests, Light(req[r], req[r]), NEW e \in Replies
    PROVE  /\ Light(Replied(r, e), req[r])
           /\ Replied(r, e).cur = req[r].cur /\ Replied(r, e).kind = req[r].kind
<1> DEFINE old == req[r]
           replies == [old.reply EXCEPT ![old.cur] = e]
<1>1. replies \in [Accounts -> Replies]
    BY DEF Light, Request
<1>2. Replied(r, e) = [old EXCEPT !.reply = replies]
    BY DEF Replied
<1> HIDE DEF replies
<1>3. QED
    BY <1>1, <1>2 DEF Light, Request

\* The end of a selection takes an account of the list it worked on.
LEMMA ChooseLedger ==
    ASSUME NEW r \in Requests, NEW rec, Light(rec, req[r]), Choose(r, rec)
    PROVE  Quietly(r)
<1>1. CASE Becomes(r, NoAccount(rec))
    <2> DEFINE none == [rec EXCEPT !.rows = {}]
    <2>1. Light(none, req[r])
        BY DEF Light, Request
    <2>2. PICK v \in {"quota_exceeded", "upstream"} : Becomes(r, Answered(none, v))
        BY <1>1 DEF NoAccount
    <2> HIDE DEF none
    <2>3. QED
        BY <2>1, <2>2, LightAnswered DEF Quietly, Answers
<1>2. CASE \E a \in rec.rows :
               Becomes(r, [rec EXCEPT !.pc = "claim", !.cur = a, !.rows = {a}])
    <2>1. PICK a \in rec.rows :
               Becomes(r, [rec EXCEPT !.pc = "claim", !.cur = a, !.rows = {a}])
        BY <1>2
    <2> DEFINE new == [rec EXCEPT !.pc = "claim", !.cur = a, !.rows = {a}]
    <2>2. a \in Born /\ a \in Accounts
        BY <2>1 DEF Light, Request
    <2>3. Light(new, req[r]) /\ new.pc = "claim"
        BY <2>2 DEF Light, Request, Phases, AccountOrNone
    <2> HIDE DEF new
    <2>4. QED
        BY <2>1, <2>3 DEF Quietly, new
<1>3. QED
    BY <1>1, <1>2 DEF Choose

\* The accounts it works on were added: it reads them from the table or from
\* KV, where another selection wrote what it had read.
LEMMA SelectLedger ==
    ASSUME NEW r \in Requests, Light(req[r], req[r]), Select(r),
           req[r].pc = "claim" => req[r].cur \in Accounts,
           kvSnap # None => kvSnap \subseteq Born,
           kvSnap \in (SUBSET Accounts) \cup {None}
    PROVE  Quietly(r) /\ (kvSnap' # None => kvSnap' \subseteq Born) /\ usage' = usage
<1> DEFINE old == req[r]
<1>1. old \in Request /\ Routable \subseteq Born
    BY DEF Light, Routable, Born
<1>2. ASSUME NEW p \in {"accounts", "recheck", "select", "put"}
      PROVE  Light([old EXCEPT !.pc = p], old) /\ [old EXCEPT !.pc = p].pc = p
    BY DEF Light, Request, Phases
<1>3. CASE ReadSnapshot(r)
    <2>0. kvSnap' = kvSnap /\ usage' = usage
        BY <1>3 DEF ReadSnapshot, dbVars
    <2>1. CASE store # "d1" /\ kvSnap # None
        <3> DEFINE new == [old EXCEPT !.pc = "join", !.rows = kvSnap]
        <3>1. Light(new, old) /\ new.pc = "join"
            BY <2>1 DEF Light, Request, Phases
        <3>2. Becomes(r, new)
            <4> HIDE DEF new
            <4>1. QED
                BY <1>3, <2>1 DEF ReadSnapshot, new
        <3> HIDE DEF new
        <3>3. QED
            BY <2>0, <3>1, <3>2 DEF Quietly
    <2>2. CASE store = "d1" \/ kvSnap = None
        <3>1. PICK p \in {"accounts", "recheck"} : Becomes(r, [old EXCEPT !.pc = p])
            BY <1>3, <2>2 DEF ReadSnapshot
        <3>2. QED
            BY <1>2, <2>0, <3>1 DEF Quietly
    <2>3. QED
        BY <2>1, <2>2
<1>4. CASE RecheckSnapshot(r)
    <2>0. kvSnap' = kvSnap /\ usage' = usage
        BY <1>4 DEF RecheckSnapshot, dbVars
    <2>1. CASE Becomes(r, [old EXCEPT !.pc = "accounts"])
        BY <1>2, <2>0, <2>1 DEF Quietly
    <2>2. CASE Becomes(r, NoAccount(old))
        <3> DEFINE none == [old EXCEPT !.rows = {}]
        <3>1. Light(none, old)
            BY DEF Light, Request
        <3>2. PICK v \in {"quota_exceeded", "upstream"} : Becomes(r, Answered(none, v))
            BY <2>2 DEF NoAccount
        <3> HIDE DEF none
        <3>3. QED
            BY <2>0, <3>1, <3>2, LightAnswered DEF Quietly, Answers
    <2>3. QED
        BY <1>4, <2>1, <2>2 DEF RecheckSnapshot
<1>5. CASE ReadAccounts(r)
    <2> DEFINE new == [old EXCEPT !.pc = "usage", !.rows = Routable]
    <2>1. Becomes(r, new) /\ kvSnap' = kvSnap /\ usage' = usage
        BY <1>5 DEF ReadAccounts, dbVars
    <2>2. Light(new, old) /\ new.pc = "usage"
        BY <1>1 DEF Light, Request, Phases, Born
    <2> HIDE DEF new
    <2>3. QED
        BY <2>1, <2>2 DEF Quietly
<1>6. CASE JoinAccounts(r)
    <2> DEFINE rec == [old EXCEPT !.rows = @ \cap Routable]
    <2>1. Choose(r, rec) /\ kvSnap' = kvSnap /\ usage' = usage
        BY <1>6 DEF JoinAccounts, dbVars
    <2>2. Light(rec, old)
        BY DEF Light, Request
    <2> HIDE DEF rec
    <2>3. QED
        BY <2>1, <2>2, ChooseLedger
<1>7. CASE ReadUsage(r)
    <2> DEFINE rec == [old EXCEPT !.rows = @ \ exhausted]
               new == [rec EXCEPT !.pc = "put"]
    <2>1. (Becomes(r, new) \/ Choose(r, rec)) /\ kvSnap' = kvSnap /\ usage' = usage
        BY <1>7 DEF ReadUsage, dbVars
    <2>2. Light(rec, old)
        BY DEF Light, Request
    <2>3. Light(new, old) /\ new.pc = "put"
        BY DEF Light, Request, Phases
    <2> HIDE DEF rec, new
    <2>4. QED
        BY <2>1, <2>2, <2>3, ChooseLedger DEF Quietly
<1>8. CASE PutSnapshot(r)
    <2>1. Choose(r, old) /\ kvSnap' = old.rows /\ usage' = usage
        BY <1>8 DEF PutSnapshot, dbVars
    <2>2. QED
        BY <2>1, ChooseLedger DEF Light
<1>9. CASE Claim(r)
    <2> DEFINE rec == [old EXCEPT !.rows = {}]
               skip == [rec EXCEPT !.pc = "select", !.skipped = @ \cup {rec.cur}]
    <2>1. /\ kvSnap' = kvSnap /\ usage' = usage
          /\ \/ Becomes(r, Thrown(rec))
             \/ acct[rec.cur].known /\ Becomes(r, Called(rec, rec.cur))
             \/ Becomes(r, skip)
        BY <1>9 DEF Claim, dbVars
    <2>2. old.cur \in Accounts /\ old.cur \in Born
        BY <1>9, AccountsAssumption DEF Claim, Light
    <2>3. Light(rec, old) /\ rec.cur = old.cur
        BY DEF Light, Request
    <2>4. Light(skip, old) /\ skip.pc = "select"
        BY <2>2 DEF Light, Request, Phases
    <2> HIDE DEF rec, skip
    <2>5. CASE Becomes(r, Thrown(rec))
        BY <2>1, <2>3, <2>5, LightAnswered DEF Thrown, Quietly, Answers
    <2>6. CASE Becomes(r, Called(rec, rec.cur))
        BY <2>1, <2>2, <2>3, <2>6, LightCalled DEF Quietly
    <2>7. CASE Becomes(r, skip)
        BY <2>1, <2>4, <2>7 DEF Quietly
    <2>8. QED
        BY <2>1, <2>5, <2>6, <2>7
<1>10. CASE UnreadableCredentials(r)
    <2> DEFINE rec == [old EXCEPT !.rows = {}]
    <2>1. Becomes(r, Thrown(rec)) /\ kvSnap' = kvSnap /\ usage' = usage
        BY <1>10 DEF UnreadableCredentials, dbVars
    <2>2. Light(rec, old)
        BY DEF Light, Request
    <2> HIDE DEF rec
    <2>3. QED
        BY <2>1, <2>2, LightAnswered DEF Thrown, Quietly, Answers
<1>11. QED
    BY <1>3, <1>4, <1>5, <1>6, <1>7, <1>8, <1>9, <1>10 DEF Select

\* What a step of r may do to the counts: nothing, and then it delivers nothing
\* that was not counted, or add one for the completion it moves on.
LedgerStep(r) ==
    \E new \in Request :
        /\ Becomes(r, new) /\ ReqLedger(new)
        /\ \/ /\ usage' = usage
              /\ \A a \in Accounts : RowExists(a) =>
                    /\ Delivered(new, a) => Delivered(req[r], a)
                    /\ Countable(req[r], a) => Countable(new, a)
           \/ \E c \in Accounts :
                 /\ RowExists(c) /\ usage' = [usage EXCEPT ![c] = @ + 1]
                 /\ Countable(new, c) /\ ~Countable(req[r], c)
                 /\ \A a \in Accounts \ {c} :
                       ~Delivered(new, a) /\ ~Countable(req[r], a)

LEMMA QuietLedger ==
    ASSUME NEW r \in Requests, ReqLedger(req[r]), Quietly(r), usage' = usage,
           req[r].pc \notin {"streaming", "counting", "replying", "done", "cancelled"}
    PROVE  LedgerStep(r)
<1>1. PICK new : /\ Light(new, req[r]) /\ Becomes(r, new)
                 /\ new.pc \notin {"streaming", "counting", "replying"}
    BY DEF Quietly
<1>2. new \in Request /\ ReqLedger(new)
    BY <1>1 DEF Light, ReqLedger
<1>3. \A a \in Accounts : ~Delivered(new, a) /\ ~Countable(req[r], a)
    BY <1>1 DEF Light, Delivered, Countable
<1>4. QED
    BY <1>1, <1>2, <1>3 DEF LedgerStep

\* Until its result is there a handler delivers and counts nothing.
LEMMA ReplyLedger ==
    ASSUME NEW r \in Requests, Light(req[r], req[r]), ReqLedger(req[r]),
           req[r].cur \in Accounts,
           \/ NetworkError(r) \/ UpstreamBusy(r) \/ NeuronLimit(r)
           \/ UpstreamFatal(r) \/ BrokenBody(r) \/ EmptyResult(r) \/ MarkExhausted(r)
    PROVE  Quietly(r) /\ usage' = usage /\ kvSnap' = kvSnap
<1> DEFINE old == req[r]
<1>1. CASE NetworkError(r) \/ UpstreamBusy(r)
    <2>1. PICK e \in {"network", "busy"} : Becomes(r, Failed(Replied(r, e), e))
        BY <1>1 DEF NetworkError, UpstreamBusy
    <2>2. /\ Light(Replied(r, e), old) /\ Replied(r, e).cur \in Accounts
        BY LightReplied DEF Replies
    <2>3. QED
        BY <1>1, <2>1, <2>2, LightFailed DEF Quietly, NetworkError, UpstreamBusy, dbVars
<1>2. CASE NeuronLimit(r)
    <2> DEFINE rec == Replied(r, "quota")
               new == [rec EXCEPT !.pc = "marking", !.hits = @ + 1]
    <2>1. Light(rec, old)
        BY LightReplied DEF Replies
    <2>2. Becomes(r, new) /\ usage' = usage /\ kvSnap' = kvSnap
        BY <1>2 DEF NeuronLimit, dbVars
    <2> HIDE DEF rec
    <2>3. Light(new, old) /\ new.pc = "marking"
        <3> DEFINE hits == rec.hits + 1
        <3>1. hits \in Nat /\ new = [rec EXCEPT !.pc = "marking", !.hits = hits]
            BY <2>1 DEF Light, Request
        <3> HIDE DEF hits, new
        <3>2. QED
            BY <2>1, <3>1 DEF Light, Request, Phases
    <2> HIDE DEF new
    <2>4. QED
        BY <2>2, <2>3 DEF Quietly
<1>3. CASE UpstreamFatal(r) \/ BrokenBody(r) \/ EmptyResult(r)
    <2>1. PICK e \in Replies, v \in {"upstream", "internal"} :
             Becomes(r, Answered(Replied(r, e), v))
        BY <1>3 DEF UpstreamFatal, BrokenBody, EmptyResult, Thrown, Replies
    <2>2. usage' = usage /\ kvSnap' = kvSnap
        BY <1>3 DEF UpstreamFatal, BrokenBody, EmptyResult, dbVars
    <2>3. QED
        BY <2>1, <2>2, LightReplied, LightAnswered DEF Quietly, Answers
<1>4. CASE MarkExhausted(r)
    <2>1. Becomes(r, Failed(old, "quota")) \/ Becomes(r, Thrown(old))
        BY <1>4 DEF MarkExhausted
    <2>2. usage' = usage /\ kvSnap' = kvSnap
        BY <1>4 DEF MarkExhausted
    <2>3. QED
        BY <2>1, <2>2, LightFailed, LightAnswered DEF Thrown, Quietly, Answers
<1>5. QED
    BY <1>1, <1>2, <1>3, <1>4

\* A result is counted before it is delivered, a stream's after.
LEMMA ResultLedger ==
    ASSUME TypeOK, NEW r \in Requests, ReqInv(req[r]), ReqLedger(req[r]),
           \/ Success(r) \/ (\E seen \in BOOLEAN : StreamEnd(r, seen))
           \/ Count(r) \/ Deliver(r)
    PROVE  LedgerStep(r) /\ kvSnap' = kvSnap
<1> DEFINE old == req[r]
<1>1. /\ old \in Request /\ usage \in [Accounts -> Nat]
      /\ old.cur \in Born \cup {None} /\ old.rows \subseteq Born
    BY DEF TypeOK, ReqLedger
<1>2. old.pc \in {"calling"} \cup Served => old.cur \in Accounts /\ old.answer = "none"
    BY DEF ReqInv, InFlight, Served
<1>3. old.pc \in {"calling", "streaming", "counting"} =>
         \A a : ~Delivered(old, a) /\ ~Countable(old, a)
    BY <1>2 DEF Delivered, Countable, Served
<1>4. CASE Success(r)
    <2> DEFINE next == IF old.kind = "stream" THEN "streaming" ELSE "counting"
               rec == Replied(r, "ok")
               new == [rec EXCEPT !.pc = next]
    <2>1. /\ old.pc = "calling" /\ Becomes(r, new)
          /\ usage' = usage /\ kvSnap' = kvSnap
        BY <1>4 DEF Success, dbVars
    <2>2. Light(old, old)
        BY <1>1, <1>2, <2>1 DEF Light
    <2>3. Light(rec, old) /\ rec.cur = old.cur /\ rec.kind = old.kind
        BY <2>2, LightReplied DEF Replies
    <2> HIDE DEF rec
    <2>4. /\ Light(new, old) /\ new.pc = next /\ new.kind = old.kind
        BY <2>3 DEF Light, Request, Phases
    <2>5. ~new.usageSeen
        BY <2>1, <2>4 DEF Light, ReqLedger
    <2> HIDE DEF new
    <2>6. ReqLedger(new) /\ \A a : ~Delivered(new, a)
        BY <2>4, <2>5 DEF Light, ReqLedger, Delivered
    <2>7. QED
        BY <1>3, <2>1, <2>4, <2>6 DEF LedgerStep, Light
<1>5. CASE \E seen \in BOOLEAN : StreamEnd(r, seen)
    <2>0. /\ old.pc = "streaming" /\ usage' = usage /\ kvSnap' = kvSnap
        BY <1>5 DEF StreamEnd, dbVars
    <2>1. CASE Becomes(r, [old EXCEPT !.pc = "counting", !.usageSeen = TRUE])
        <3> DEFINE new == [old EXCEPT !.pc = "counting", !.usageSeen = TRUE]
        <3>1. /\ new \in Request /\ new.pc = "counting" /\ new.usageSeen
              /\ new.cur = old.cur /\ new.rows = old.rows /\ new.answer = old.answer
            BY <1>1 DEF Request, Phases
        <3> HIDE DEF new
        <3>2. ReqLedger(new) /\ \A a : ~Delivered(new, a)
            BY <1>1, <1>2, <2>0, <3>1 DEF ReqLedger, Delivered, Served
        <3>3. QED
            BY <1>3, <2>0, <2>1, <3>1, <3>2 DEF LedgerStep, new
    <2>2. CASE Becomes(r, Answered(old, "ok"))
        <3> DEFINE new == Answered(old, "ok")
        <3>1. /\ new \in Request /\ new.pc = "done" /\ new.kind = old.kind
              /\ new.cur = old.cur /\ new.rows = old.rows
              /\ new.usageSeen = old.usageSeen
            BY <1>1 DEF Answered, Request, Phases, Answers
        <3>2. new.kind = "stream" /\ ~new.usageSeen
            BY <2>0, <3>1 DEF ReqLedger
        <3> HIDE DEF new
        <3>3. ReqLedger(new) /\ \A a : ~Delivered(new, a)
            BY <1>1, <3>1, <3>2 DEF ReqLedger, Delivered
        <3>4. QED
            BY <1>3, <2>0, <2>2, <3>1, <3>3 DEF LedgerStep, new
    <2>3. QED
        BY <1>5, <2>1, <2>2 DEF StreamEnd
<1>6. CASE Count(r)
    <2>0. /\ old.pc = "counting" /\ kvSnap' = kvSnap /\ old.cur \in Accounts
          /\ old.reply[old.cur] = "ok"
          /\ old.kind = "stream" => old.usageSeen
        BY <1>2, <1>6 DEF Count, ReqInv, ReqLedger, Served
    <2>1. CASE RowExists(old.cur)
        <3> DEFINE new == [old EXCEPT !.pc = "replying"]
        <3>1. Becomes(r, new) /\ usage' = [usage EXCEPT ![old.cur] = @ + 1]
            BY <1>6, <2>1 DEF Count
        <3>2. /\ new \in Request /\ new.pc = "replying" /\ new.kind = old.kind
              /\ new.cur = old.cur /\ new.rows = old.rows /\ new.reply = old.reply
              /\ new.usageSeen = old.usageSeen
            BY <1>1 DEF Request, Phases
        <3> HIDE DEF new
        <3>3. ReqLedger(new) /\ Countable(new, old.cur)
            BY <1>1, <2>0, <3>2 DEF ReqLedger, Countable
        <3>4. \A a \in Accounts \ {old.cur} : ~Delivered(new, a)
            BY <3>2 DEF Delivered
        <3>5. QED
            BY <1>3, <2>0, <2>1, <3>1, <3>2, <3>3, <3>4 DEF LedgerStep
    <2>2. CASE ~RowExists(old.cur)
        <3>1. PICK v \in {"ok", "internal"} : Becomes(r, Answered(old, v))
            BY <1>6, <2>2 DEF Count, Thrown
        <3> DEFINE new == Answered(old, v)
        <3>2. /\ new \in Request /\ new.pc = "done" /\ new.kind = old.kind
              /\ new.cur = old.cur /\ new.rows = old.rows
            BY <1>1 DEF Answered, Request, Phases, Answers
        <3> HIDE DEF new
        <3>3. ReqLedger(new) /\ \A a \in Accounts : RowExists(a) => ~Delivered(new, a)
            BY <1>1, <2>2, <3>2 DEF ReqLedger, Delivered
        <3>4. usage' = usage
            BY <1>6, <2>2 DEF Count
        <3>5. QED
            BY <1>3, <2>0, <3>1, <3>2, <3>3, <3>4 DEF LedgerStep, new
    <2>3. QED
        BY <2>1, <2>2
<1>7. CASE Deliver(r)
    <2> DEFINE new == Answered(old, "ok")
    <2>1. /\ old.pc = "replying" /\ Becomes(r, new)
          /\ usage' = usage /\ kvSnap' = kvSnap
        BY <1>7 DEF Deliver, dbVars
    <2>2. /\ new \in Request /\ new.pc = "done" /\ new.kind = old.kind
          /\ new.cur = old.cur /\ new.rows = old.rows /\ new.reply = old.reply
        BY <1>1 DEF Answered, Request, Phases, Answers
    <2> HIDE DEF new
    <2>3. /\ ReqLedger(new)
          /\ \A a : Delivered(new, a) => Delivered(old, a)
          /\ \A a : Countable(old, a) => Countable(new, a)
        BY <1>1, <2>1, <2>2 DEF ReqLedger, Delivered, Countable
    <2>4. QED
        BY <2>1, <2>2, <2>3 DEF LedgerStep
<1>8. QED
    BY <1>4, <1>5, <1>6, <1>7

\* A client that leaves while its result is on its way makes the count of it
\* possible instead of certain; nothing else a client does touches the counts.
LEMMA ClientLedger ==
    ASSUME TypeOK, NEW r \in Requests, ReqInv(req[r]), ReqLedger(req[r]), Client(r)
    PROVE  LedgerStep(r) /\ kvSnap' = kvSnap /\ UNCHANGED <<acct, worldVars>>
<1> DEFINE old == req[r]
<1>1. old \in Request /\ old.cur \in Born \cup {None} /\ old.rows \subseteq Born
    BY DEF TypeOK, ReqLedger
<1>2. CASE \E k \in KindsOf[r], sp \in AccountOrNone : Arrive(r, k, sp)
    <2>1. PICK k \in KindsOf[r], sp \in AccountOrNone : Arrive(r, k, sp)
        BY <1>2
    <2> DEFINE p == IF sp = None THEN "select" ELSE "lookup"
               new == [old EXCEPT !.kind = k, !.spec = sp, !.pc = p]
    <2>2. /\ old.pc = "idle" /\ Becomes(r, new) /\ kvSnap' = kvSnap
          /\ usage' = usage /\ UNCHANGED <<acct, worldVars>>
        BY <2>1 DEF Arrive, dbVars
    <2>3. old.answer = "none" /\ k \in AllKinds
        BY <2>2, KindsAssumption DEF ReqInv
    <2>4. Light(new, old) /\ new.pc = p
        BY <1>1, <2>3 DEF Light, Request, Phases
    <2> HIDE DEF new
    <2>5. QED
        BY <2>2, <2>4, QuietLedger DEF Quietly
<1>3. CASE \E k \in KindsOf[r] : Reject(r, k)
    <2>1. PICK k \in KindsOf[r] : Reject(r, k)
        BY <1>3
    <2> DEFINE rec == [old EXCEPT !.kind = k]
    <2>2. /\ old.pc = "idle" /\ Becomes(r, Answered(rec, "bad_request"))
          /\ kvSnap' = kvSnap /\ usage' = usage /\ UNCHANGED <<acct, worldVars>>
        BY <2>1 DEF Reject, dbVars
    <2>3. old.answer = "none" /\ k \in AllKinds
        BY <2>2, KindsAssumption DEF ReqInv
    <2>4. Light(rec, old)
        BY <1>1, <2>3 DEF Light, Request
    <2> HIDE DEF rec
    <2>5. QED
        BY <2>2, <2>4, LightAnswered, QuietLedger DEF Quietly, Answers
<1>4. CASE Cancel(r)
    <2> DEFINE new == [old EXCEPT !.pc = "cancelled", !.rows = {}]
    <2>1. /\ old.pc # "done" /\ Becomes(r, new) /\ kvSnap' = kvSnap
          /\ usage' = usage /\ UNCHANGED <<acct, worldVars>>
        BY <1>4 DEF Cancel, dbVars
    <2>2. /\ new \in Request /\ new.pc = "cancelled" /\ new.answer = old.answer
          /\ new.cur = old.cur /\ new.rows = {} /\ new.reply = old.reply
        BY <1>1 DEF Request, Phases
    <2>3. old.answer = "none"
        BY <2>1 DEF ReqInv
    <2> HIDE DEF new
    <2>4. /\ ReqLedger(new)
          /\ \A a : ~Delivered(new, a)
          /\ \A a : Countable(old, a) => Countable(new, a)
        BY <1>1, <2>2, <2>3 DEF ReqLedger, Delivered, Countable
    <2>5. QED
        BY <2>1, <2>2, <2>4 DEF LedgerStep
<1>5. QED
    BY <1>2, <1>3, <1>4 DEF Client

\* Every step of a handler keeps the counts true.
LEMMA HandleLedger ==
    ASSUME IInv, LedgerInv, NEW r \in Requests, Handle(r)
    PROVE  LedgerStep(r) /\ (kvSnap' # None => kvSnap' \subseteq Born)
<1> DEFINE old == req[r]
<1>1. /\ TypeOK /\ ReqInv(old) /\ ReqLedger(old) /\ old \in Request
      /\ kvSnap # None => kvSnap \subseteq Born
      /\ kvSnap \in (SUBSET Accounts) \cup {None}
    BY DEF IInv, LedgerInv, TypeOK
<1>2. old.pc \notin {"idle", "done", "cancelled"}
    BY HandleStep
<1>3. Light(old, old)
    BY <1>1, <1>2 DEF ReqInv, ReqLedger, Light
<1>4. CASE Select(r)
    <2>1. old.pc \in Selecting \cup {"lookup"}
        BY <1>1, <1>4 DEF Request, Select, ReadSnapshot, JoinAccounts, RecheckSnapshot, ReadAccounts,
                    ReadUsage, PutSnapshot, Claim, UnreadableCredentials, Selecting
    <2>2. old.pc = "claim" => old.cur \in Accounts
        BY <1>1 DEF ReqInv, Selecting, Between
    <2>3. Quietly(r) /\ (kvSnap' # None => kvSnap' \subseteq Born) /\ usage' = usage
        BY <1>1, <1>3, <1>4, <2>2, SelectLedger
    <2>4. QED
        BY <1>1, <2>1, <2>3, QuietLedger DEF Selecting
<1>5. CASE Lookup(r)
    <2>1. /\ old.pc = "lookup" /\ kvSnap' = kvSnap /\ usage' = usage
          /\ \/ old.spec \in Routable /\ Becomes(r, Called(old, old.spec))
             \/ Becomes(r, Answered(old, "not_found"))
        BY <1>5 DEF Lookup, dbVars
    <2>2. old.spec \in Routable => old.spec \in Born
        BY DEF Routable, Born
    <2>3. Quietly(r)
        BY <1>3, <2>1, <2>2, LightCalled, LightAnswered DEF Quietly, Answers
    <2>4. QED
        BY <1>1, <2>1, <2>3, QuietLedger
<1>6. CASE \/ NetworkError(r) \/ UpstreamBusy(r) \/ NeuronLimit(r)
           \/ UpstreamFatal(r) \/ BrokenBody(r) \/ EmptyResult(r) \/ MarkExhausted(r)
    <2>1. old.pc \in {"calling", "marking"}
        BY <1>6 DEF NetworkError, UpstreamBusy, NeuronLimit, UpstreamFatal, BrokenBody,
                    EmptyResult, MarkExhausted
    <2>2. old.cur \in Accounts
        BY <1>1, <2>1 DEF ReqInv, InFlight
    <2>3. Quietly(r) /\ usage' = usage /\ kvSnap' = kvSnap
        BY <1>1, <1>3, <1>6, <2>2, ReplyLedger
    <2>4. QED
        BY <1>1, <2>1, <2>3, QuietLedger
<1>7. CASE \/ Success(r) \/ (\E seen \in BOOLEAN : StreamEnd(r, seen))
           \/ Count(r) \/ Deliver(r)
    BY <1>1, <1>7, ResultLedger
<1>8. QED
    BY <1>4, <1>5, <1>6, <1>7 DEF Handle

\* The sets the ledger compares with are finite.
LEMMA FiniteLedger ==
    ASSUME NEW S, S \subseteq Requests
    PROVE  IsFiniteSet(S) /\ Cardinality(S) \in Nat
BY FS_Subset, FS_CardinalityType, AccountsAssumption

\* So the ledger balances after a step of a request.
LEMMA RequestLedger ==
    ASSUME IInv, LedgerInv, NEW r \in Requests, LedgerStep(r),
           kvSnap' # None => kvSnap' \subseteq Born, UNCHANGED <<acct, worldVars>>
    PROVE  LedgerInv'
<1>1. PICK new \in Request :
        /\ Becomes(r, new) /\ ReqLedger(new)
        /\ \/ /\ usage' = usage
              /\ \A a \in Accounts : RowExists(a) =>
                    /\ Delivered(new, a) => Delivered(req[r], a)
                    /\ Countable(req[r], a) => Countable(new, a)
           \/ \E c \in Accounts :
                 /\ RowExists(c) /\ usage' = [usage EXCEPT ![c] = @ + 1]
                 /\ Countable(new, c) /\ ~Countable(req[r], c)
                 /\ \A a \in Accounts \ {c} :
                       ~Delivered(new, a) /\ ~Countable(req[r], a)
    BY DEF LedgerStep
<1>2. TypeOK /\ usage \in [Accounts -> Nat]
    BY DEF IInv, TypeOK
<1>3. \A q \in Requests : req'[q] = IF q = r THEN new ELSE req[q]
    BY <1>1, <1>2 DEF Becomes, TypeOK
<1>4. Born' = Born
    BY DEF Born
<1>5. \A q \in Requests : ReqLedger(req[q])'
    <2>1. \A q \in Requests : ReqLedger(req'[q])
        BY <1>1, <1>3 DEF LedgerInv
    <2>2. QED
        BY <1>4, <2>1 DEF ReqLedger
<1>6. syncs' = 0 => \A a \in Accounts : syncing'[a] = 0
    BY DEF LedgerInv, worldVars
<1>7. ASSUME syncs' = 0, day' = 0, NEW a \in Accounts
      PROVE  /\ acct'[a].row = "unborn" => usage'[a] = 0
             /\ RowExists(a)' => /\ Cardinality(CertainOf(a)') <= usage'[a]
                                 /\ usage'[a] <= Cardinality(PossibleOf(a)')
    <2> DEFINE C == CertainOf(a)
               P == PossibleOf(a)
               C1 == {q \in Requests : Delivered(req'[q], a)}
               P1 == {q \in Requests : Countable(req'[q], a)}
    <2>1. /\ acct[a].row = "unborn" => usage[a] = 0
          /\ RowExists(a) => Cardinality(C) <= usage[a] /\ usage[a] <= Cardinality(P)
        BY <1>7 DEF LedgerInv, worldVars
    <2>2. CertainOf(a)' = C1 /\ PossibleOf(a)' = P1
        BY DEF CertainOf, PossibleOf, Delivered, Countable
    <2>3. /\ r \in C <=> Delivered(req[r], a)
          /\ r \in C1 <=> Delivered(new, a)
          /\ r \in P <=> Countable(req[r], a)
          /\ r \in P1 <=> Countable(new, a)
        BY <1>3 DEF CertainOf, PossibleOf
    <2>4. C1 \ {r} = C \ {r} /\ P1 \ {r} = P \ {r}
        BY <1>3 DEF CertainOf, PossibleOf
    <2>5. C \subseteq Requests /\ C1 \subseteq Requests /\ P \subseteq Requests
          /\ P1 \subseteq Requests
        BY DEF CertainOf, PossibleOf
    <2>6. /\ usage[a] \in Nat
          /\ \A S \in {C, C1, P, P1} : IsFiniteSet(S) /\ Cardinality(S) \in Nat
        BY <1>2, <2>5, FiniteLedger
    <2> HIDE DEF C, P, C1, P1
    <2>7. CASE /\ usage'[a] = usage[a]
               /\ RowExists(a) => /\ Delivered(new, a) => Delivered(req[r], a)
                                  /\ Countable(req[r], a) => Countable(new, a)
        <3>1. RowExists(a) => C1 \subseteq C /\ P \subseteq P1
            BY <2>3, <2>4, <2>7
        <3>2. RowExists(a) => /\ Cardinality(C1) <= Cardinality(C)
                              /\ Cardinality(P) <= Cardinality(P1)
            BY <2>6, <3>1, FS_Subset
        <3>3. RowExists(a) => Cardinality(C1) <= usage[a] /\ usage[a] <= Cardinality(P1)
            BY <2>1, <2>6, <3>2
        <3>4. QED
            BY <2>1, <2>2, <2>7, <3>3 DEF RowExists
    <2>8. CASE /\ RowExists(a) /\ usage'[a] = usage[a] + 1
               /\ Countable(new, a) /\ ~Countable(req[r], a)
        <3>1. P1 = P \cup {r} /\ r \notin P
            BY <2>3, <2>4, <2>8
        <3>2. Cardinality(P1) = Cardinality(P) + 1
            BY <2>6, <3>1, FS_AddElement
        <3>3. C1 \subseteq C \cup {r}
            BY <2>4
        <3>4. /\ IsFiniteSet(C \cup {r}) /\ Cardinality(C \cup {r}) \in Nat
              /\ Cardinality(C \cup {r}) <= Cardinality(C) + 1
            <4>1. CASE r \in C
                <5>1. C \cup {r} = C
                    BY <4>1
                <5>2. \A n \in Nat : n <= n + 1
                    OBVIOUS
                <5>3. QED
                    BY <2>6, <5>1, <5>2, Zenon
            <4>2. CASE r \notin C
                BY <2>6, <4>2, FS_AddElement
            <4>3. QED
                BY <4>1, <4>2
        <3>5. Cardinality(C1) <= Cardinality(C) + 1
            <4>1. Cardinality(C1) <= Cardinality(C \cup {r})
                BY <3>3, <3>4, FS_Subset
            <4>2. QED
                BY <2>6, <3>4, <4>1
        <3>6. Cardinality(C1) <= usage[a] + 1 /\ usage[a] + 1 <= Cardinality(P1)
            BY <2>1, <2>6, <2>8, <3>2, <3>5
        <3>7. QED
            BY <2>2, <2>8, <3>6 DEF RowExists
    <2>9. QED
        <3>1. CASE /\ usage' = usage
                   /\ \A b \in Accounts : RowExists(b) =>
                         /\ Delivered(new, b) => Delivered(req[r], b)
                         /\ Countable(req[r], b) => Countable(new, b)
            BY <2>7, <3>1
        <3>2. CASE \E c \in Accounts :
                      /\ RowExists(c) /\ usage' = [usage EXCEPT ![c] = @ + 1]
                      /\ Countable(new, c) /\ ~Countable(req[r], c)
                      /\ \A b \in Accounts \ {c} :
                            ~Delivered(new, b) /\ ~Countable(req[r], b)
            <4>1. PICK c \in Accounts :
                      /\ RowExists(c) /\ usage' = [usage EXCEPT ![c] = @ + 1]
                      /\ Countable(new, c) /\ ~Countable(req[r], c)
                      /\ \A b \in Accounts \ {c} :
                            ~Delivered(new, b) /\ ~Countable(req[r], b)
                BY <3>2
            <4>2. CASE a = c
                BY <1>2, <2>8, <4>1, <4>2
            <4>3. CASE a # c
                BY <1>2, <2>7, <4>1, <4>3
            <4>4. QED
                BY <4>2, <4>3
        <3>3. QED
            BY <1>1, <3>1, <3>2
<1>8. QED
    BY <1>4, <1>5, <1>6, <1>7 DEF LedgerInv

\* What a step that is not a request's does to the row of an account.
Kept(a) ==
    \/ usage'[a] = usage[a] /\ acct'[a].row = acct[a].row
    \/ usage'[a] = usage[a] /\ acct[a].row = "unborn"
    \/ acct'[a].row = "deleted"

\* A step that keeps or deletes rows, adds new ones, or starts what replaces
\* the count, keeps the ledger.
LEMMA KeptLedger ==
    ASSUME LedgerInv, TypeOK, TypeOK', req' = req,
           \A a \in Accounts : acct[a].row # "unborn" => acct'[a].row # "unborn",
           kvSnap' \in {kvSnap, None},
           syncs' = 0 => syncs = 0 /\ syncing' = syncing,
           syncs' = 0 /\ day' = 0 => day = 0 /\ \A a \in Accounts : Kept(a)
    PROVE  LedgerInv'
<1>1. Born \subseteq Born'
    BY DEF Born
<1>2. \A q \in Requests : ReqLedger(req[q])'
    BY <1>1 DEF LedgerInv, ReqLedger
<1>3. ASSUME syncs' = 0, day' = 0, NEW a \in Accounts
      PROVE  /\ acct'[a].row = "unborn" => usage'[a] = 0
             /\ RowExists(a)' => /\ Cardinality(CertainOf(a)') <= usage'[a]
                                 /\ usage'[a] <= Cardinality(PossibleOf(a)')
    <2>1. /\ acct[a].row = "unborn" => usage[a] = 0
          /\ RowExists(a) => /\ Cardinality(CertainOf(a)) <= usage[a]
                             /\ usage[a] <= Cardinality(PossibleOf(a))
        BY <1>3 DEF LedgerInv
    <2>2. /\ Kept(a)
          /\ CertainOf(a)' = CertainOf(a) /\ PossibleOf(a)' = PossibleOf(a)
        BY <1>3 DEF CertainOf, PossibleOf, Delivered, Countable
    <2>3. CASE usage'[a] = usage[a] /\ acct'[a].row = acct[a].row
        BY <2>1, <2>2, <2>3 DEF RowExists
    <2>4. CASE usage'[a] = usage[a] /\ acct[a].row = "unborn"
        <3>1. a \notin Born \cup {None}
            BY <2>4, AccountsAssumption DEF Born
        <3>2. CertainOf(a) = {} /\ PossibleOf(a) = {}
            BY <3>1 DEF CertainOf, PossibleOf, Delivered, Countable, LedgerInv, ReqLedger
        <3>3. usage'[a] = 0
            BY <2>1, <2>4
        <3>4. QED
            BY <2>2, <3>2, <3>3, FS_EmptySet
    <2>5. CASE acct'[a].row = "deleted"
        BY <2>5 DEF RowExists
    <2>6. QED
        BY <2>2, <2>3, <2>4, <2>5 DEF Kept
<1>4. QED
    BY <1>1, <1>2, <1>3 DEF LedgerInv

\* Synchronisation, edits, expiry and midnight keep the ledger.
LEMMA BackgroundLedger ==
    ASSUME TypeOK, LedgerInv, Environment \/ \E a \in Accounts : Admin(a)
    PROVE  LedgerInv'
<1>1. TypeOK' /\ req' = req
    BY BackgroundType
<1>2. syncs \in Nat /\ day \in Nat /\ syncing \in [Accounts -> Nat]
    BY DEF TypeOK
<1>3. ASSUME Environment PROVE LedgerInv'
    <2>1. acct' = acct /\ kvSnap' \in {kvSnap, None}
        BY <1>3 DEF Environment, SyncStart, SyncReply, ExpireSnapshot, DayChange, dbVars
    <2>2. CASE SyncStart
        <3>1. syncs' # 0
            BY <1>2, <2>2 DEF SyncStart
        <3>2. QED
            BY <1>1, <2>1, <3>1, KeptLedger
    <2>3. CASE \E a \in Accounts, n \in 0..MaxReport : SyncReply(a, n)
        <3>1. syncs' = syncs /\ \E a \in Accounts : syncing[a] # 0
            BY <2>3 DEF SyncReply
        <3>2. syncs' # 0
            BY <3>1 DEF LedgerInv
        <3>3. QED
            BY <1>1, <2>1, <3>2, KeptLedger
    <2>4. CASE ExpireSnapshot
        BY <1>1, <2>1, <2>4, KeptLedger DEF ExpireSnapshot, Kept, dbVars
    <2>5. CASE DayChange
        <3>1. day' # 0 /\ syncs' = syncs /\ syncing' = syncing
            BY <1>2, <2>5 DEF DayChange
        <3>2. QED
            BY <1>1, <2>1, <3>1, KeptLedger
    <2>6. QED
        BY <1>3, <2>2, <2>3, <2>4, <2>5 DEF Environment
<1>4. ASSUME NEW a \in Accounts, Admin(a) PROVE LedgerInv'
    <2>1. UNCHANGED <<kvSnap, syncs, syncing, day>>
        BY <1>4 DEF Admin, AddAccount, SetRoutable, DeleteAccount, ClearExhausted
    <2>2. acct \in [Accounts -> AccountRow] /\ usage \in [Accounts -> Nat]
        BY DEF TypeOK
    <2>3. CASE \E known \in BOOLEAN : AddAccount(a, known)
        <3>1. /\ acct[a].row = "unborn" /\ usage' = usage
              /\ \A b \in Accounts : b # a => acct'[b] = acct[b]
              /\ acct'[a].row = "live"
            BY <2>2, <2>3 DEF AddAccount, AccountRow
        <3>2. QED
            BY <1>1, <2>1, <3>1, KeptLedger DEF Kept
    <2>4. CASE DeleteAccount(a)
        <3>1. /\ acct'[a].row = "deleted"
              /\ \A b \in Accounts : b # a => acct'[b] = acct[b] /\ usage'[b] = usage[b]
            BY <2>2, <2>4 DEF DeleteAccount, AccountRow
        <3>2. QED
            BY <1>1, <2>1, <3>1, KeptLedger DEF Kept
    <2>5. CASE ClearExhausted(a) \/ \E on \in BOOLEAN : SetRoutable(a, on)
        <3>1. usage' = usage /\ \A b \in Accounts : acct'[b].row = acct[b].row
            BY <2>2, <2>5 DEF ClearExhausted, SetRoutable, AccountRow
        <3>2. QED
            BY <1>1, <2>1, <3>1, KeptLedger DEF Kept
    <2>6. QED
        BY <1>4, <2>3, <2>4, <2>5 DEF Admin
<1>5. QED
    BY <1>3, <1>4

\* The ledger balances in every reachable state, with KV and without.
THEOREM LedgerBalances == Spec => []LedgerInv
<1>1. Init => LedgerInv
    <2> SUFFICES ASSUME Init PROVE LedgerInv
        OBVIOUS
    <2>1. \A r \in Requests : req[r] = NewRequest
        BY DEF Init
    <2>2. /\ ReqLedger(NewRequest)
          /\ \A a \in Accounts : ~Delivered(NewRequest, a) /\ ~Countable(NewRequest, a)
        BY DEF ReqLedger, NewRequest, Delivered, Countable
    <2>3. \A a \in Accounts : CertainOf(a) = {} /\ PossibleOf(a) = {}
        BY <2>1, <2>2 DEF CertainOf, PossibleOf
    <2>4. QED
        BY <2>1, <2>2, <2>3, FS_EmptySet DEF Init, LedgerInv
<1>2. IInv /\ LedgerInv /\ [Next]_vars => LedgerInv'
    <2> SUFFICES ASSUME IInv, LedgerInv, [Next]_vars PROVE LedgerInv'
        OBVIOUS
    <2>1. CASE UNCHANGED vars
        BY <2>1, KeptLedger DEF vars, Kept, IInv, TypeOK
    <2>2. ASSUME NEW r \in Requests, Handle(r) PROVE LedgerInv'
        BY <2>2, HandleStep, HandleLedger, RequestLedger
    <2>3. ASSUME NEW r \in Requests, Client(r) PROVE LedgerInv'
        <3>1. TypeOK /\ ReqInv(req[r]) /\ ReqLedger(req[r])
            BY DEF IInv, LedgerInv
        <3>2. LedgerStep(r) /\ kvSnap' = kvSnap /\ UNCHANGED <<acct, worldVars>>
            BY <2>3, <3>1, ClientLedger
        <3>3. kvSnap' # None => kvSnap' \subseteq Born
            BY <3>2 DEF LedgerInv
        <3>4. QED
            BY <3>2, <3>3, RequestLedger
    <2>4. ASSUME Environment \/ \E a \in Accounts : Admin(a) PROVE LedgerInv'
        BY <2>4, BackgroundLedger DEF IInv
    <2>5. QED
        BY <2>1, <2>2, <2>3, <2>4 DEF Next
<1>3. QED
    BY <1>1, <1>2, Invariance, PTL DEF Spec

\* Until Cloudflare's figures or a new day replace it, the count of an account
\* is at least the results its clients received and at most those it produced,
\* though every query of the Worker is an await at which a client may leave.
THEOREM CompletionsCorrect == Spec => []CompletionsAccounted
<1>1. IInv /\ LedgerInv => CompletionsAccounted
    <2> SUFFICES ASSUME IInv, LedgerInv, syncs = 0, day = 0,
                        NEW a \in Accounts, RowExists(a)
                 PROVE  LET served == {r \in Requests : /\ req[r].cur = a
                                                        /\ req[r].reply[a] = "ok"}
                        IN  /\ Cardinality({r \in served :
                                  /\ req[r].answer = "ok"
                                  /\ req[r].kind = "stream" => req[r].usageSeen})
                                  <= usage[a]
                            /\ usage[a] <= Cardinality(served)
        BY DEF CompletionsAccounted
    <2> DEFINE served == {r \in Requests : req[r].cur = a /\ req[r].reply[a] = "ok"}
               sent == {r \in served : /\ req[r].answer = "ok"
                                       /\ req[r].kind = "stream" => req[r].usageSeen}
    <2>1. sent \subseteq CertainOf(a) /\ PossibleOf(a) \subseteq served
        BY DEF CertainOf, PossibleOf, Delivered, Countable
    <2>2. \A S \in {sent, served, CertainOf(a), PossibleOf(a)} :
             IsFiniteSet(S) /\ Cardinality(S) \in Nat
        BY FiniteLedger DEF CertainOf, PossibleOf
    <2>3. /\ Cardinality(sent) <= Cardinality(CertainOf(a))
          /\ Cardinality(PossibleOf(a)) <= Cardinality(served)
        BY <2>1, <2>2, FS_Subset
    <2>4. /\ Cardinality(CertainOf(a)) <= usage[a]
          /\ usage[a] <= Cardinality(PossibleOf(a)) /\ usage[a] \in Nat
        BY DEF LedgerInv, IInv, TypeOK
    <2> HIDE DEF served, sent
    <2>5. Cardinality(sent) <= usage[a] /\ usage[a] <= Cardinality(served)
        BY <2>2, <2>3, <2>4
    <2>6. QED
        BY <2>5 DEF served, sent
<1>2. QED
    BY <1>1, Invariance, LedgerBalances, PTL
=============================================================================
