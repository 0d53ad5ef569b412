-------------------------- MODULE AiGateway_proofs --------------------------
(***************************************************************************)
(* What TLAPS proves of the gateway, for every set of accounts, requests,  *)
(* models and every bound.                                                 *)
(*                                                                         *)
(* The properties speak of reply, which remembers what every account       *)
(* answered, the code only of its counters and of the set skipped.  The    *)
(* inductive invariant IInv ties the two together: a request that may      *)
(* attempt another account has asked exactly the accounts it skips, one    *)
(* that awaits a reply has asked one more, and the counters are the        *)
(* cardinalities of the sets.                                              *)
(***************************************************************************)
EXTENDS AiGatewayProps, FiniteSetTheorems, TLAPS

-----------------------------------------------------------------------------
(***************************************************************************)
(* The inductive invariant                                                 *)
(***************************************************************************)

Retried == {"network", "quota", "busy"}
Final == {"fatal", "broken", "empty", "ok"}

\* The two counters of the loop count what was really asked and refused.
Counted(rec) ==
    /\ rec.tried = Cardinality(Asked(rec))
    /\ rec.quotaHits = Cardinality(RepliedWith(rec, "quota"))

\* The request may attempt an account it does not skip.
Between(rec) ==
    /\ Asked(rec) = rec.skipped
    /\ \A a \in rec.skipped : rec.reply[a] \in Retried
    /\ ~Rotating(rec) => rec.skipped = {}
    /\ rec.answer = "none"

\* The request has asked one account more than it skips.
InFlight(rec) ==
    /\ rec.cur \in Accounts
    /\ rec.cur \notin rec.skipped
    /\ Asked(rec) = rec.skipped \cup {rec.cur}
    /\ \A a \in rec.skipped : rec.reply[a] \in Retried
    /\ ~Rotating(rec) => rec.skipped = {} /\ rec.spec = rec.cur
    /\ rec.answer = "none"

Settled(rec) ==
    /\ \A a \in Accounts : rec.reply[a] \in Final => a = rec.cur
    /\ rec.answer = "ok" => rec.cur \in Accounts /\ rec.reply[rec.cur] = "ok"
    /\ rec.answer = "quota_exceeded" => Rotating(rec) /\ QuotaVerdict(rec)

ReqInv(rec) ==
    /\ Counted(rec)
    /\ rec.pc \in {"idle", "schema"} => rec.skipped = {}
    /\ rec.pc \in {"idle", "schema", "sleeping"} => Between(rec)
    /\ rec.pc = "sleeping" => Rotating(rec)
    /\ rec.pc = "calling" => InFlight(rec) /\ rec.reply[rec.cur] = "asked"
    /\ rec.pc \in {"streaming", "stalled"} =>
          InFlight(rec) /\ rec.reply[rec.cur] = "ok"
    /\ rec.pc \in {"hung", "done"} => Settled(rec)
    /\ rec.pc # "done" => rec.answer = "none"

IInv == TypeOK /\ \A r \in Requests : ReqInv(req[r])

\* What one step may do to an open request: ask one account more that it has
\* not asked, or close for a reason, or neither.
Proceeds(old, new) ==
    /\ new.spec = old.spec
    /\ new.pc # "idle"
    /\ \/ /\ Asked(new) = Asked(old)
          /\ new.pc = "done" => new.answer \in Refusals \/ Asked(new) # {}
       \/ /\ new.pc # "done"
          /\ \E a \in Accounts \ Asked(old) :
                /\ Asked(new) = Asked(old) \cup {a}
                /\ new.spec = None \/ new.spec = a

\* rec is the request old, in flight, with the account's reply e noted.
Noted(rec, old, e) ==
    /\ rec \in Request /\ Counted(rec) /\ InFlight(rec)
    /\ rec.pc = "calling" /\ rec.reply[rec.cur] = e
    /\ rec.kind = old.kind /\ rec.spec = old.spec /\ rec.cur = old.cur
    /\ Asked(rec) = Asked(old)

RequestStep(r, old) ==
    /\ snapshot' \in Snapshot
    /\ lastUsed' \in AccountOrNone
    /\ \E new \in Request : /\ ReqInv(new)
                           /\ Proceeds(old, new)
                           /\ req' = [req EXCEPT ![r] = new]

-----------------------------------------------------------------------------
(***************************************************************************)
(* Lemmas about requests                                                   *)
(***************************************************************************)

\* Asking an account adds it to those asked and leaves the refusals alone.
LEMMA AskedCalled ==
    ASSUME NEW rec \in Request, NEW a \in Accounts, a \notin Asked(rec)
    PROVE  /\ Called(rec, a) \in Request
           /\ Asked(Called(rec, a)) = Asked(rec) \cup {a}
           /\ RepliedWith(Called(rec, a), "quota") = RepliedWith(rec, "quota")
<1> DEFINE new == Called(rec, a)
<1>1. new.reply = [rec.reply EXCEPT ![a] = "asked"]
    BY DEF Called, Request
<1>2. rec.reply \in [Accounts -> Replies] /\ rec.reply[a] = "unasked"
    BY DEF Asked, Request
<1>3. new \in Request
    <2> DEFINE replies == [rec.reply EXCEPT ![a] = "asked"]
    <2>1. replies \in [Accounts -> Replies]
        BY <1>2 DEF Replies
    <2>2. new = [rec EXCEPT !.pc = "calling", !.cur = a,
                            !.tried = @ + 1, !.reply = replies]
        BY DEF Called, Request
    <2>3. rec.tried + 1 \in Nat
        BY DEF Request
    <2> HIDE DEF replies
    <2>4. QED
        BY <2>1, <2>2, <2>3 DEF Request, Phases, AccountOrNone
<1>4. Asked(new) = Asked(rec) \cup {a}
    BY <1>1, <1>2 DEF Asked
<1>5. RepliedWith(new, "quota") = RepliedWith(rec, "quota")
    BY <1>1, <1>2 DEF RepliedWith
<1>6. QED
    BY <1>3, <1>4, <1>5

\* The sets the counters count are finite.
LEMMA FiniteReplies ==
    ASSUME NEW rec, NEW e
    PROVE  IsFiniteSet(Asked(rec)) /\ IsFiniteSet(RepliedWith(rec, e))
<1>1. Asked(rec) \in SUBSET Accounts /\ RepliedWith(rec, e) \in SUBSET Accounts
    BY DEF Asked, RepliedWith
<1>2. QED
    BY <1>1, FS_Subset, AccountsAssumption

\* A call to an account that is not skipped keeps the invariant.
LEMMA CalledInv ==
    ASSUME NEW rec \in Request, Counted(rec), Between(rec),
           NEW a \in Accounts, a \notin rec.skipped,
           ~Rotating(rec) => a = rec.spec
    PROVE  Called(rec, a) \in Request /\ ReqInv(Called(rec, a))
<1> DEFINE new == Called(rec, a)
<1>1. a \notin Asked(rec)
    BY DEF Between
<1>2. /\ new \in Request
      /\ Asked(new) = Asked(rec) \cup {a}
      /\ RepliedWith(new, "quota") = RepliedWith(rec, "quota")
    BY <1>1, AskedCalled
<1>3. /\ new.pc = "calling" /\ new.cur = a /\ new.skipped = rec.skipped
      /\ new.tried = rec.tried + 1 /\ new.quotaHits = rec.quotaHits
      /\ new.spec = rec.spec /\ new.answer = rec.answer
      /\ new.reply = [rec.reply EXCEPT ![a] = "asked"]
    BY DEF Called, Request
<1>4. Counted(new)
    BY <1>1, <1>2, <1>3, FiniteReplies, FS_AddElement DEF Counted
<1>5. InFlight(new) /\ new.reply[new.cur] = "asked"
    BY <1>2, <1>3 DEF InFlight, Between, Rotating, Request
<1>6. QED
    BY <1>2, <1>3, <1>4, <1>5 DEF ReqInv, InFlight

\* An answer keeps the invariant if the replies it rests on bear it out.
LEMMA AnsweredInv ==
    ASSUME NEW rec \in Request, Counted(rec), NEW v \in Answers,
           \A a \in Accounts : rec.reply[a] \in Final => a = rec.cur,
           v = "ok" => rec.cur \in Accounts /\ rec.reply[rec.cur] = "ok",
           v = "quota_exceeded" => Rotating(rec) /\ QuotaVerdict(rec)
    PROVE  Answered(rec, v) \in Request /\ ReqInv(Answered(rec, v))
<1> DEFINE new == Answered(rec, v)
<1>1. /\ new \in Request
      /\ new.pc = "done" /\ new.answer = v /\ new.reply = rec.reply
      /\ new.cur = rec.cur /\ new.spec = rec.spec /\ new.kind = rec.kind
      /\ new.tried = rec.tried /\ new.quotaHits = rec.quotaHits
    BY DEF Answered, Request, Phases
<1>2. Counted(new)
    BY <1>1 DEF Counted, Asked, RepliedWith
<1>3. Settled(new)
    BY <1>1 DEF Settled, Rotating, QuotaVerdict
<1>4. QED
    BY <1>1, <1>2, <1>3 DEF ReqInv

\* An exception closes the request or leaves it hanging, with its replies.
LEMMA EscapedInv ==
    ASSUME NEW rec \in Request, Counted(rec), InFlight(rec)
    PROVE  /\ Escaped(rec) \in Request
           /\ ReqInv(Escaped(rec))
           /\ Proceeds(rec, Escaped(rec))
<1> DEFINE hung == [rec EXCEPT !.pc = "hung"]
<1>1. \A a \in Accounts : rec.reply[a] \in Final => a = rec.cur
    BY DEF InFlight, Asked, Final, Retried
<1>2. hung \in Request /\ ReqInv(hung) /\ Proceeds(rec, hung)
    <2>1. /\ hung \in Request
          /\ hung.pc = "hung" /\ hung.answer = rec.answer
          /\ hung.reply = rec.reply /\ hung.cur = rec.cur /\ hung.spec = rec.spec
          /\ hung.tried = rec.tried /\ hung.quotaHits = rec.quotaHits
        BY DEF Request, Phases
    <2>2. Counted(hung) /\ Asked(hung) = Asked(rec)
        BY <2>1 DEF Counted, Asked, RepliedWith
    <2>3. Settled(hung) /\ hung.answer = "none"
        BY <1>1, <2>1 DEF Settled, InFlight
    <2>4. QED
        BY <2>1, <2>2, <2>3 DEF ReqInv, Proceeds
<1>3. ASSUME NEW v \in {"internal", "upstream"}
      PROVE  /\ Answered(rec, v) \in Request
             /\ ReqInv(Answered(rec, v))
             /\ Proceeds(rec, Answered(rec, v))
    <2>1. Answered(rec, v) \in Request /\ ReqInv(Answered(rec, v))
        BY <1>1, AnsweredInv DEF Answers
    <2>2. /\ Asked(Answered(rec, v)) = Asked(rec)
          /\ Answered(rec, v).spec = rec.spec
          /\ Answered(rec, v).pc = "done"
        BY DEF Answered, Request, Asked
    <2>3. Asked(rec) # {}
        BY DEF InFlight
    <2>4. QED
        BY <2>1, <2>2, <2>3 DEF Proceeds
<1>4. QED
    BY <1>2, <1>3 DEF Escaped, CaughtDirect, Thrown

\* The snapshot the router builds, or finds, lists accounts.
LEMMA SnapshotType ==
    ASSUME TypeOK, NEW snap \in Snapshot, NEW exh
    PROVE  /\ AiAccountSnapshot(snap, exh) \in Snapshot
           /\ AiAccountSnapshot(snap, exh).members \subseteq Accounts
<1>1. BuildSnapshot(exh) \in Snapshot
    <2>1. Routable \subseteq Accounts
        BY DEF Routable
    <2>2. \A a \in Accounts : usage[a] \in Nat
        BY DEF TypeOK
    <2>3. QED
        BY <2>1, <2>2 DEF BuildSnapshot, Snapshot
<1>2. AiAccountSnapshot(snap, exh) \in Snapshot
    BY <1>1 DEF AiAccountSnapshot
<1>3. QED
    BY <1>2 DEF Snapshot

\* The router never returns an account the request skips.
LEMMA BestAccountsAreFresh ==
    ASSUME NEW snap \in Snapshot, NEW rec, NEW a \in BestAccounts(snap, rec)
    PROVE  a \in Accounts /\ a \notin rec.skipped
BY DEF BestAccounts, Cheapest, Selectable, Snapshot

\* The head of the loop calls an account that was not asked or gives up.
LEMMA NextAttemptStep ==
    ASSUME TypeOK, NEW r \in Requests, NEW rec \in Request,
           Counted(rec), Between(rec), Rotating(rec),
           NEW snap \in Snapshot, NEW exh, NextAttempt(r, rec, snap, exh)
    PROVE  RequestStep(r, rec)
<1> DEFINE s == AiAccountSnapshot(snap, exh)
<1>1. s \in Snapshot /\ snapshot' = s
    BY SnapshotType DEF NextAttempt
<1>2. CASE BestAccounts(s, rec) = {}
    <2> DEFINE v == IF QuotaVerdict(rec) THEN "quota_exceeded" ELSE "upstream"
               new == Answered(rec, v)
    <2>1. req' = [req EXCEPT ![r] = new] /\ lastUsed' = lastUsed
        BY <1>2 DEF NextAttempt
    <2>2. \A a \in Accounts : rec.reply[a] \notin Final
        BY DEF Between, Asked, Final, Retried
    <2>3. new \in Request /\ ReqInv(new)
        BY <2>2, AnsweredInv DEF Answers
    <2>4. /\ Asked(new) = Asked(rec) /\ new.spec = rec.spec
          /\ new.pc = "done" /\ new.answer = v
        BY DEF Answered, Request, Asked
    <2>5. QuotaVerdict(rec) => Asked(rec) # {}
        <3>1. QuotaVerdict(rec) => Cardinality(RepliedWith(rec, "quota")) # 0
            BY DEF QuotaVerdict, Counted, Request
        <3>2. RepliedWith(rec, "quota") \subseteq Asked(rec)
            BY DEF RepliedWith, Asked
        <3>3. QED
            BY <3>1, <3>2, FS_EmptySet
    <2>6. Proceeds(rec, new)
        BY <2>4, <2>5 DEF Proceeds, Refusals
    <2>7. QED
        BY <1>1, <2>1, <2>3, <2>6 DEF RequestStep, TypeOK
<1>3. CASE BestAccounts(s, rec) # {}
    <2>1. PICK a \in BestAccounts(s, rec) :
             /\ req' = [req EXCEPT ![r] = Called(rec, a)]
             /\ lastUsed' = IF rec.model \in CachedModels THEN a ELSE lastUsed
        BY <1>3 DEF NextAttempt
    <2>2. a \in Accounts /\ a \notin rec.skipped
        BY <1>1, BestAccountsAreFresh
    <2>3. Called(rec, a) \in Request /\ ReqInv(Called(rec, a))
        BY <2>2, CalledInv
    <2>4. Asked(Called(rec, a)) = Asked(rec) \cup {a} /\ a \notin Asked(rec)
        BY <2>2, AskedCalled DEF Between
    <2>5. Called(rec, a).pc = "calling" /\ Called(rec, a).spec = rec.spec
        BY DEF Called, Request
    <2>6. Proceeds(rec, Called(rec, a))
        BY <2>2, <2>4, <2>5 DEF Proceeds, Rotating
    <2>7. QED
        BY <1>1, <2>1, <2>2, <2>3, <2>6 DEF RequestStep, TypeOK, AccountOrNone
<1>4. QED
    BY <1>2, <1>3

\* The first attempt of a request, pinned to an account or not, is one too.
LEMMA AttemptStep ==
    ASSUME TypeOK, NEW r \in Requests, NEW rec \in Request,
           Counted(rec), Between(rec), rec.skipped = {}, Attempt(r, rec)
    PROVE  RequestStep(r, rec)
<1>1. /\ snapshot \in Snapshot /\ lastUsed \in AccountOrNone
    BY DEF TypeOK
<1>2. CASE Rotating(rec)
    BY <1>1, <1>2, NextAttemptStep DEF Attempt
<1>3. CASE ~Rotating(rec)
    <2>1. DirectAttempt(r, rec)
        BY <1>3 DEF Attempt
    <2>2. CASE rec.spec \in Routable
        <3> DEFINE new == Called(rec, rec.spec)
        <3>1. rec.spec \in Accounts /\ rec.spec \notin Asked(rec)
            BY <2>2 DEF Routable, Between
        <3>2. new \in Request /\ ReqInv(new)
            BY <3>1, CalledInv
        <3>3. Asked(new) = Asked(rec) \cup {rec.spec}
            BY <3>1, AskedCalled
        <3>4. new.pc = "calling" /\ new.spec = rec.spec
            BY DEF Called, Request
        <3>5. Proceeds(rec, new)
            BY <3>1, <3>3, <3>4 DEF Proceeds
        <3>6. QED
            BY <1>1, <2>1, <2>2, <3>2, <3>5 DEF DirectAttempt, RequestStep
    <2>3. CASE rec.spec \notin Routable
        <3> DEFINE new == Answered(rec, "not_found")
        <3>1. \A a \in Accounts : rec.reply[a] \notin Final
            BY DEF Between, Asked, Final, Retried
        <3>2. new \in Request /\ ReqInv(new)
            BY <3>1, AnsweredInv DEF Answers
        <3>3. /\ Asked(new) = Asked(rec) /\ new.spec = rec.spec
              /\ new.pc = "done" /\ new.answer = "not_found"
            BY DEF Answered, Request, Asked
        <3>4. Proceeds(rec, new)
            BY <3>3 DEF Proceeds, Refusals
        <3>5. QED
            BY <1>1, <2>1, <2>3, <3>2, <3>4 DEF DirectAttempt, RequestStep
    <2>4. QED
        BY <2>2, <2>3
<1>4. QED
    BY <1>2, <1>3

\* A step of the request with its reply noted is a step of the request.
LEMMA NotedProceeds ==
    ASSUME NEW rec, NEW old, NEW e, Noted(rec, old, e), NEW r,
           RequestStep(r, rec)
    PROVE  RequestStep(r, old)
BY DEF Noted, RequestStep, Proceeds

\* Noting a reply other than 4006 keeps the counters right.
LEMMA RepliedInv ==
    ASSUME TypeOK, NEW r \in Requests, ReqInv(req[r]), req[r].pc = "calling",
           NEW e \in Replies \ {"unasked", "asked", "quota"}
    PROVE  Noted(Replied(r, e), req[r], e)
<1> DEFINE old == req[r]
           rec == Replied(r, e)
           replies == [old.reply EXCEPT ![old.cur] = e]
<1>1. old \in Request /\ InFlight(old) /\ Counted(old) /\ old.reply[old.cur] = "asked"
    BY DEF TypeOK, ReqInv
<1>2. rec = [old EXCEPT !.reply = replies]
    BY DEF Replied
<1>3. replies \in [Accounts -> Replies] /\ replies[old.cur] = e
    BY <1>1 DEF Request, InFlight
<1>4. \A a \in Accounts : a # old.cur => replies[a] = old.reply[a]
    BY <1>1 DEF Request
<1> HIDE DEF replies
<1>5. /\ rec \in Request
      /\ rec.pc = "calling" /\ rec.cur = old.cur /\ rec.spec = old.spec
      /\ rec.kind = old.kind /\ rec.skipped = old.skipped
      /\ rec.tried = old.tried /\ rec.quotaHits = old.quotaHits
      /\ rec.answer = old.answer /\ rec.reply = replies
    <2> HIDE DEF rec, old
    <2>1. QED
        BY <1>1, <1>2, <1>3, req[r].pc = "calling" DEF Request, old
<1>6. Asked(rec) = Asked(old)
    BY <1>1, <1>3, <1>4, <1>5 DEF Asked
<1>7. RepliedWith(rec, "quota") = RepliedWith(old, "quota")
    BY <1>1, <1>3, <1>4, <1>5 DEF RepliedWith
<1>8. Counted(rec)
    BY <1>1, <1>5, <1>6, <1>7 DEF Counted
<1>9. InFlight(rec)
    BY <1>1, <1>3, <1>4, <1>5, <1>6 DEF InFlight, Rotating, Request
<1>10. QED
    BY <1>3, <1>5, <1>6, <1>8, <1>9 DEF Noted

\* Noting error 4006 counts one refusal more.
LEMMA QuotaRepliedInv ==
    ASSUME TypeOK, NEW r \in Requests, ReqInv(req[r]), req[r].pc = "calling"
    PROVE  Noted([Replied(r, "quota") EXCEPT !.quotaHits = @ + 1], req[r], "quota")
<1> DEFINE old == req[r]
           rec == [Replied(r, "quota") EXCEPT !.quotaHits = @ + 1]
           replies == [old.reply EXCEPT ![old.cur] = "quota"]
<1>1. old \in Request /\ InFlight(old) /\ Counted(old) /\ old.reply[old.cur] = "asked"
    BY DEF TypeOK, ReqInv
<1>2. rec = [old EXCEPT !.reply = replies, !.quotaHits = @ + 1]
    BY <1>1 DEF Replied, Request
<1>3. replies \in [Accounts -> Replies] /\ replies[old.cur] = "quota"
    BY <1>1 DEF Request, InFlight, Replies
<1>4. \A a \in Accounts : a # old.cur => replies[a] = old.reply[a]
    BY <1>1 DEF Request
<1>5. old.quotaHits + 1 \in Nat
    BY <1>1 DEF Request
<1> HIDE DEF replies
<1>6. /\ rec \in Request
      /\ rec.pc = "calling" /\ rec.cur = old.cur /\ rec.spec = old.spec
      /\ rec.kind = old.kind /\ rec.skipped = old.skipped
      /\ rec.tried = old.tried /\ rec.quotaHits = old.quotaHits + 1
      /\ rec.answer = old.answer /\ rec.reply = replies
    <2> HIDE DEF rec, old
    <2>1. QED
        BY <1>1, <1>2, <1>3, <1>5, req[r].pc = "calling" DEF Request, old
<1>7. Asked(rec) = Asked(old)
    BY <1>1, <1>3, <1>4, <1>6 DEF Asked
<1>8. /\ RepliedWith(rec, "quota") = RepliedWith(old, "quota") \cup {old.cur}
      /\ old.cur \notin RepliedWith(old, "quota")
    BY <1>1, <1>3, <1>4, <1>6 DEF RepliedWith, InFlight
<1>9. Counted(rec)
    BY <1>1, <1>6, <1>7, <1>8, FiniteReplies, FS_AddElement DEF Counted
<1>10. InFlight(rec)
    BY <1>1, <1>3, <1>4, <1>6, <1>7 DEF InFlight, Rotating, Request
<1>11. QED
    BY <1>3, <1>6, <1>7, <1>9, <1>10 DEF Noted

\* After a failure that rotates, the request may attempt another account.
LEMMA RotateStep ==
    ASSUME TypeOK, NEW r \in Requests, NEW rec, NEW old, NEW e \in Retried,
           Noted(rec, old, e), Rotating(rec),
           NEW snap \in Snapshot, NEW exh, Rotate(r, rec, snap, exh)
    PROVE  RequestStep(r, old)
<1> DEFINE skip == [rec EXCEPT !.skipped = @ \cup {rec.cur}]
           slept == [skip EXCEPT !.pc = "sleeping"]
<1>1. /\ skip \in Request /\ skip.skipped = rec.skipped \cup {rec.cur}
      /\ skip.pc = rec.pc /\ skip.spec = rec.spec /\ skip.kind = rec.kind
      /\ skip.reply = rec.reply /\ skip.answer = rec.answer
      /\ skip.tried = rec.tried /\ skip.quotaHits = rec.quotaHits
    BY DEF Noted, Request, InFlight
<1>2. Counted(skip) /\ Asked(skip) = Asked(rec)
    BY <1>1 DEF Noted, Counted, Asked, RepliedWith
<1>3. Between(skip) /\ Rotating(skip)
    BY <1>1, <1>2 DEF Noted, InFlight, Between, Rotating
<1>4. CASE rec.kind \in {"chat", "stream"}
    <2>1. req' = [req EXCEPT ![r] = slept] /\ snapshot' = snap /\ lastUsed' = lastUsed
        BY <1>4 DEF Rotate
    <2>2. /\ slept \in Request /\ slept.pc = "sleeping"
          /\ slept.skipped = skip.skipped /\ slept.spec = skip.spec
          /\ slept.reply = skip.reply /\ slept.answer = skip.answer
          /\ slept.tried = skip.tried /\ slept.quotaHits = skip.quotaHits
        BY <1>1 DEF Request, Phases
    <2>3. Counted(slept) /\ Asked(slept) = Asked(skip)
        BY <1>2, <2>2 DEF Counted, Asked, RepliedWith
    <2>4. Between(slept) /\ Rotating(slept)
        BY <1>3, <2>2, <2>3 DEF Between, Rotating
    <2>5. ReqInv(slept)
        BY <2>2, <2>3, <2>4 DEF ReqInv, Between
    <2>6. Proceeds(old, slept)
        BY <1>1, <1>2, <2>2, <2>3 DEF Proceeds, Noted
    <2>7. QED
        BY <2>1, <2>2, <2>5, <2>6 DEF RequestStep, TypeOK
<1>5. CASE rec.kind \notin {"chat", "stream"}
    <2>1. NextAttempt(r, skip, snap, exh)
        BY <1>5 DEF Rotate
    <2>2. RequestStep(r, skip)
        BY <1>1, <1>2, <1>3, <2>1, NextAttemptStep
    <2>3. QED
        BY <1>1, <1>2, <2>2 DEF RequestStep, Proceeds, Noted
<1>6. QED
    BY <1>4, <1>5

\* Ending the response as answered is a step of the request.
LEMMA AnsweredStep ==
    ASSUME TypeOK, NEW r \in Requests, NEW rec, NEW old, NEW e,
           Noted(rec, old, e), NEW v \in {"ok", "upstream"}, v = "ok" => e = "ok",
           req' = [req EXCEPT ![r] = Answered(rec, v)],
           snapshot' \in Snapshot, lastUsed' \in AccountOrNone
    PROVE  RequestStep(r, old)
<1> DEFINE new == Answered(rec, v)
<1>1. \A a \in Accounts : rec.reply[a] \in Final => a = rec.cur
    BY DEF Noted, InFlight, Asked, Final, Retried
<1>2. new \in Request /\ ReqInv(new)
    BY <1>1, AnsweredInv DEF Answers, Noted, InFlight
<1>3. Asked(new) = Asked(rec) /\ new.spec = rec.spec /\ new.pc = "done"
    BY DEF Answered, Request, Asked, Noted
<1>4. Proceeds(old, new)
    BY <1>3 DEF Proceeds, Noted, InFlight
<1>5. QED
    BY <1>2, <1>4 DEF RequestStep

\* So is an exception.
LEMMA EscapedStep ==
    ASSUME TypeOK, NEW r \in Requests, NEW rec, NEW old, NEW e,
           Noted(rec, old, e), Finish(r, Escaped(rec))
    PROVE  RequestStep(r, old)
<1>1. /\ Escaped(rec) \in Request /\ ReqInv(Escaped(rec))
      /\ Proceeds(rec, Escaped(rec))
    BY EscapedInv DEF Noted
<1>2. RequestStep(r, rec)
    BY <1>1 DEF Finish, RequestStep, TypeOK
<1>3. QED
    BY <1>2, NotedProceeds

\* Every action of a handler is a step of its request, in a state the
\* handler can be in, and writes rows of the right type.
LEMMA HandleStep ==
    ASSUME IInv, NEW r \in Requests, Handle(r)
    PROVE  /\ req[r].pc \notin {"idle", "done"}
           /\ RequestStep(r, req[r])
           /\ usage' \in [Accounts -> Nat]
           /\ exhausted' \subseteq Accounts /\ exhausted \subseteq exhausted'
           /\ UNCHANGED <<acct, paidNames, adminVars>>
<1> DEFINE old == req[r]
<1>1. TypeOK /\ ReqInv(old) /\ old \in Request
    BY DEF IInv, TypeOK
<1>2. /\ snapshot \in Snapshot /\ lastUsed \in AccountOrNone
      /\ usage \in [Accounts -> Nat] /\ exhausted \subseteq Accounts
    BY <1>1 DEF TypeOK
<1>3. CASE SchemaLoaded(r)
    <2>1. /\ old.pc = "schema" /\ Attempt(r, old)
          /\ UNCHANGED <<dbVars, paidNames, adminVars>>
        BY <1>3 DEF SchemaLoaded
    <2>2. Between(old) /\ old.skipped = {} /\ Counted(old)
        BY <1>1, <2>1 DEF ReqInv
    <2>3. RequestStep(r, old)
        BY <1>1, <2>1, <2>2, AttemptStep
    <2>4. QED
        BY <1>2, <2>1, <2>3 DEF dbVars
<1>4. CASE WakeUp(r)
    <2>1. /\ old.pc = "sleeping" /\ NextAttempt(r, old, snapshot, exhausted)
          /\ UNCHANGED <<dbVars, paidNames, adminVars>>
        BY <1>4 DEF WakeUp
    <2>2. Between(old) /\ Rotating(old) /\ Counted(old)
        BY <1>1, <2>1 DEF ReqInv
    <2>3. RequestStep(r, old)
        BY <1>1, <1>2, <2>1, <2>2, NextAttemptStep
    <2>4. QED
        BY <1>2, <2>1, <2>3 DEF dbVars
<1>5. CASE NetworkError(r)
    <2> DEFINE rec == Replied(r, "network")
    <2>1. old.pc = "calling" /\ UNCHANGED <<dbVars, paidNames, adminVars>>
        BY <1>5 DEF NetworkError
    <2>2. Noted(rec, old, "network")
        BY <1>1, <2>1, RepliedInv DEF Replies
    <2>3. CASE Rotating(rec) /\ Rotate(r, rec, snapshot, exhausted)
        BY <1>1, <1>2, <2>1, <2>2, <2>3, RotateStep DEF Retried, dbVars
    <2>4. CASE Finish(r, Escaped(rec))
        BY <1>1, <1>2, <2>1, <2>2, <2>4, EscapedStep DEF dbVars
    <2>5. QED
        BY <1>5, <2>3, <2>4 DEF NetworkError
<1>6. CASE UpstreamBusy(r)
    <2> DEFINE rec == Replied(r, "busy")
    <2>1. old.pc = "calling" /\ UNCHANGED <<dbVars, paidNames, adminVars>>
        BY <1>6 DEF UpstreamBusy
    <2>2. Noted(rec, old, "busy")
        BY <1>1, <2>1, RepliedInv DEF Replies
    <2>3. CASE Rotating(rec) /\ Rotate(r, rec, snapshot, exhausted)
        BY <1>1, <1>2, <2>1, <2>2, <2>3, RotateStep DEF Retried, dbVars
    <2>4. CASE Rotating(rec) /\ Finish(r, Thrown(rec))
        BY <1>1, <1>2, <2>1, <2>2, <2>4, EscapedStep DEF dbVars, Escaped
    <2>5. CASE Finish(r, Answered(rec, "upstream"))
        BY <1>1, <1>2, <2>1, <2>2, <2>5, AnsweredStep DEF dbVars, Finish
    <2>6. QED
        BY <1>6, <2>3, <2>4, <2>5 DEF UpstreamBusy
<1>7. CASE NeuronLimit(r)
    <2> DEFINE rec == [Replied(r, "quota") EXCEPT !.quotaHits = @ + 1]
               snap == RemoveAccountFromAiCache(snapshot, rec.cur)
    <2>1. old.pc = "calling" /\ UNCHANGED <<acct, usage, paidNames, adminVars>>
        BY <1>7 DEF NeuronLimit
    <2>2. Noted(rec, old, "quota")
        BY <1>1, <2>1, QuotaRepliedInv
    <2>3. snap \in Snapshot
        BY <1>2 DEF RemoveAccountFromAiCache, EmptySnapshot, Snapshot
    <2>4. exhausted' \subseteq Accounts /\ exhausted \subseteq exhausted'
        BY <1>2, <1>7, <2>2 DEF NeuronLimit, Noted, InFlight
    <2>5. CASE Finish(r, Escaped(rec))
        BY <1>1, <1>2, <2>1, <2>2, <2>4, <2>5, EscapedStep
    <2>6. CASE Rotating(rec) /\ Rotate(r, rec, snap, exhausted')
        BY <1>1, <1>2, <2>1, <2>2, <2>3, <2>4, <2>6, RotateStep DEF Retried
    <2>7. CASE /\ req' = [req EXCEPT ![r] = Answered(rec, "upstream")]
               /\ snapshot' \in {snap, snapshot} /\ UNCHANGED lastUsed
        BY <1>1, <1>2, <2>1, <2>2, <2>3, <2>4, <2>7, AnsweredStep
    <2>8. QED
        BY <1>7, <2>5, <2>6, <2>7 DEF NeuronLimit
<1>8. CASE UpstreamFatal(r)
    <2>1. old.pc = "calling" /\ UNCHANGED <<dbVars, paidNames, adminVars>>
        BY <1>8 DEF UpstreamFatal
    <2>2. Noted(Replied(r, "fatal"), old, "fatal")
        BY <1>1, <2>1, RepliedInv DEF Replies
    <2>3. QED
        BY <1>1, <1>2, <1>8, <2>1, <2>2, AnsweredStep
        DEF UpstreamFatal, Finish, dbVars
<1>9. CASE BrokenBody(r)
    <2>1. old.pc = "calling" /\ UNCHANGED <<dbVars, paidNames, adminVars>>
        BY <1>9 DEF BrokenBody
    <2>2. Noted(Replied(r, "broken"), old, "broken")
        BY <1>1, <2>1, RepliedInv DEF Replies
    <2>3. QED
        BY <1>1, <1>2, <1>9, <2>1, <2>2, EscapedStep DEF BrokenBody, dbVars
<1>10. CASE EmptyResult(r)
    <2> DEFINE rec == Replied(r, "empty")
    <2>1. old.pc = "calling" /\ UNCHANGED <<dbVars, paidNames, adminVars>>
        BY <1>10 DEF EmptyResult
    <2>2. Noted(rec, old, "empty")
        BY <1>1, <2>1, RepliedInv DEF Replies
    <2>3. CASE Finish(r, Answered(rec, "upstream"))
        BY <1>1, <1>2, <2>1, <2>2, <2>3, AnsweredStep DEF Finish, dbVars
    <2>4. CASE Finish(r, Escaped(rec))
        BY <1>1, <1>2, <2>1, <2>2, <2>4, EscapedStep DEF dbVars
    <2>5. QED
        BY <1>10, <2>3, <2>4 DEF EmptyResult
<1>11. CASE Success(r)
    <2> DEFINE rec == Replied(r, "ok")
    <2>1. old.pc = "calling" /\ UNCHANGED <<acct, exhausted, paidNames, adminVars>>
        BY <1>11 DEF Success
    <2>2. Noted(rec, old, "ok")
        BY <1>1, <2>1, RepliedInv DEF Replies
    <2>3. usage' \in [Accounts -> Nat]
        BY <1>2, <1>11 DEF Success
    <2>4. CASE /\ req' = [req EXCEPT ![r] = Answered(rec, "ok")]
               /\ snapshot' = snapshot /\ UNCHANGED lastUsed
        BY <1>1, <1>2, <2>1, <2>2, <2>3, <2>4, AnsweredStep
    <2>5. CASE Finish(r, Escaped(rec))
        BY <1>1, <1>2, <2>1, <2>2, <2>3, <2>5, EscapedStep
    <2>6. QED
        BY <1>11, <2>4, <2>5 DEF Success, UpdateAiCacheAfterUsage
<1>12. CASE StreamStart(r)
    <2> DEFINE rec == Replied(r, "ok")
               new == [rec EXCEPT !.pc = "streaming"]
    <2>1. /\ old.pc = "calling" /\ Finish(r, new)
          /\ UNCHANGED <<dbVars, paidNames, adminVars>>
        BY <1>12 DEF StreamStart
    <2>2. Noted(rec, old, "ok")
        BY <1>1, <2>1, RepliedInv DEF Replies
    <2>3. /\ new \in Request /\ new.pc = "streaming"
          /\ new.spec = rec.spec /\ new.cur = rec.cur /\ new.skipped = rec.skipped
          /\ new.reply = rec.reply /\ new.answer = rec.answer
          /\ new.tried = rec.tried /\ new.quotaHits = rec.quotaHits
        BY <2>2 DEF Noted, Request, Phases
    <2>4. Counted(new) /\ Asked(new) = Asked(rec)
        BY <2>2, <2>3 DEF Noted, Counted, Asked, RepliedWith
    <2>5. InFlight(new) /\ new.reply[new.cur] = "ok"
        BY <2>2, <2>3, <2>4 DEF Noted, InFlight, Rotating
    <2>6. ReqInv(new)
        BY <2>3, <2>4, <2>5 DEF ReqInv, InFlight
    <2>7. Proceeds(old, new)
        BY <2>2, <2>3, <2>4 DEF Proceeds, Noted
    <2>8. QED
        BY <1>2, <2>1, <2>3, <2>6, <2>7 DEF Finish, RequestStep, dbVars
<1>13. CASE \E seen \in BOOLEAN : StreamEnd(r, seen)
    <2>1. PICK seen \in BOOLEAN : StreamEnd(r, seen)
        BY <1>13
    <2> DEFINE rec == [old EXCEPT !.usageSeen = seen]
    <2>2. /\ old.pc = "streaming" /\ req' = [req EXCEPT ![r] = Answered(rec, "ok")]
          /\ UNCHANGED <<acct, exhausted, lastUsed, paidNames, adminVars>>
          /\ snapshot' = snapshot
        BY <1>1, <2>1 DEF StreamEnd, UpdateAiCacheAfterUsage, Request
    <2>3. usage' \in [Accounts -> Nat]
        BY <1>2, <2>1 DEF StreamEnd
    <2>4. /\ rec \in Request
          /\ rec.reply = old.reply /\ rec.cur = old.cur /\ rec.spec = old.spec
          /\ rec.tried = old.tried /\ rec.quotaHits = old.quotaHits
          /\ rec.answer = old.answer
        BY <1>1 DEF Request
    <2>5. InFlight(old) /\ old.reply[old.cur] = "ok" /\ Counted(old)
        BY <1>1, <2>2 DEF ReqInv
    <2>6. \A a \in Accounts : rec.reply[a] \in Final => a = rec.cur
        BY <2>4, <2>5 DEF InFlight, Asked, Final, Retried
    <2>7. Counted(rec) /\ Asked(rec) = Asked(old)
        BY <2>4, <2>5 DEF Counted, Asked, RepliedWith
    <2>8. Answered(rec, "ok") \in Request /\ ReqInv(Answered(rec, "ok"))
        BY <2>4, <2>5, <2>6, <2>7, AnsweredInv DEF Answers, InFlight
    <2>9. /\ Asked(Answered(rec, "ok")) = Asked(rec)
          /\ Answered(rec, "ok").spec = rec.spec /\ Answered(rec, "ok").pc = "done"
        BY <2>4 DEF Answered, Request, Asked
    <2>10. Proceeds(old, Answered(rec, "ok"))
        BY <2>4, <2>5, <2>7, <2>9 DEF Proceeds, InFlight
    <2>11. QED
        BY <1>2, <2>2, <2>3, <2>8, <2>10 DEF RequestStep
<1>14. CASE StreamStall(r)
    <2> DEFINE new == [old EXCEPT !.pc = "stalled"]
    <2>1. /\ old.pc = "streaming" /\ Finish(r, new)
          /\ UNCHANGED <<dbVars, paidNames, adminVars>>
        BY <1>14 DEF StreamStall
    <2>2. /\ new \in Request /\ new.pc = "stalled"
          /\ new.spec = old.spec /\ new.cur = old.cur /\ new.skipped = old.skipped
          /\ new.reply = old.reply /\ new.answer = old.answer
          /\ new.tried = old.tried /\ new.quotaHits = old.quotaHits
        BY <1>1 DEF Request, Phases
    <2>3. InFlight(old) /\ old.reply[old.cur] = "ok" /\ Counted(old)
        BY <1>1, <2>1 DEF ReqInv
    <2>4. Counted(new) /\ Asked(new) = Asked(old)
        BY <2>2, <2>3 DEF Counted, Asked, RepliedWith
    <2>5. InFlight(new)
        BY <2>2, <2>3, <2>4 DEF InFlight, Rotating
    <2>6. ReqInv(new)
        BY <2>2, <2>3, <2>4, <2>5 DEF ReqInv, InFlight
    <2>7. Proceeds(old, new)
        BY <2>2, <2>4 DEF Proceeds
    <2>8. QED
        BY <1>2, <2>1, <2>2, <2>6, <2>7 DEF Finish, RequestStep, dbVars
<1>15. QED
    BY <1>3, <1>4, <1>5, <1>6, <1>7, <1>8, <1>9, <1>10, <1>11, <1>12,
       <1>13, <1>14 DEF Handle

\* A request arrives as a step of a record that has asked nobody yet.
LEMMA ArriveStep ==
    ASSUME IInv, NEW r \in Requests, NEW k \in AllKinds, NEW m \in Models,
           NEW s \in AccountOrNone, Arrive(r, k, m, s)
    PROVE  /\ req[r].pc = "idle"
           /\ \E rec : Asked(rec) = {} /\ rec.spec = s /\ RequestStep(r, rec)
           /\ UNCHANGED <<dbVars, paidNames, adminVars>>
<1> DEFINE rec == [req[r] EXCEPT !.kind = k, !.model = m, !.spec = s]
<1>1. /\ req[r].pc = "idle"
      /\ UNCHANGED <<dbVars, paidNames, adminVars>>
      /\ IF k = "speech" THEN SpeechPrelude(r, rec) ELSE Attempt(r, rec)
    BY DEF Arrive
<1>2. TypeOK /\ req[r] \in Request /\ ReqInv(req[r])
    BY DEF IInv, TypeOK
<1>3. /\ rec \in Request /\ rec.pc = "idle" /\ rec.spec = s
      /\ rec.skipped = req[r].skipped /\ rec.reply = req[r].reply
      /\ rec.answer = req[r].answer
      /\ rec.tried = req[r].tried /\ rec.quotaHits = req[r].quotaHits
    BY <1>1, <1>2 DEF Request
<1>4. Counted(rec) /\ Asked(rec) = Asked(req[r])
    BY <1>2, <1>3 DEF ReqInv, Counted, Asked, RepliedWith
<1>5. Between(rec) /\ rec.skipped = {} /\ Asked(rec) = {}
    BY <1>1, <1>2, <1>3, <1>4 DEF ReqInv, Between, Rotating
<1>6. CASE Attempt(r, rec)
    BY <1>1, <1>2, <1>3, <1>4, <1>5, <1>6, AttemptStep
<1>7. CASE SpeechPrelude(r, rec)
    <2> DEFINE t == IF Rotating(rec) THEN AiAccountSnapshot(snapshot, exhausted)
                                     ELSE snapshot
               schema == [rec EXCEPT !.pc = "schema"]
               none == Answered(rec, "no_accounts")
    <2>1. t \in Snapshot /\ snapshot' = t
        BY <1>2, <1>7, SnapshotType DEF SpeechPrelude, TypeOK
    <2>2. CASE req' = [req EXCEPT ![r] = none] /\ lastUsed' = lastUsed
        <3>1. \A a \in Accounts : rec.reply[a] \notin Final
            BY <1>5 DEF Asked, Final
        <3>2. none \in Request /\ ReqInv(none)
            BY <1>3, <1>4, <3>1, AnsweredInv DEF Answers
        <3>3. /\ Asked(none) = Asked(rec) /\ none.spec = rec.spec
              /\ none.pc = "done" /\ none.answer = "no_accounts"
            BY <1>3 DEF Answered, Request, Asked
        <3>4. Proceeds(rec, none)
            BY <3>3 DEF Proceeds, Refusals
        <3>5. QED
            BY <1>1, <1>2, <1>3, <1>5, <2>1, <2>2, <3>2, <3>4
            DEF RequestStep, TypeOK
    <2>3. CASE \E a \in (IF Rotating(rec) THEN BestAccounts(t, rec)
                                          ELSE Routable \cap {rec.spec}) :
                  /\ req' = [req EXCEPT ![r] = schema]
                  /\ lastUsed' \in {a, lastUsed}
        <3>1. req' = [req EXCEPT ![r] = schema] /\ lastUsed' \in AccountOrNone
            BY <1>2, <2>1, <2>3, BestAccountsAreFresh
            DEF TypeOK, AccountOrNone, Routable
        <3>2. /\ schema \in Request /\ schema.pc = "schema"
              /\ schema.skipped = rec.skipped /\ schema.reply = rec.reply
              /\ schema.answer = rec.answer /\ schema.spec = rec.spec
              /\ schema.tried = rec.tried /\ schema.quotaHits = rec.quotaHits
            BY <1>3 DEF Request, Phases
        <3>3. Counted(schema) /\ Asked(schema) = Asked(rec)
            BY <1>4, <3>2 DEF Counted, Asked, RepliedWith
        <3>4. Between(schema)
            BY <1>5, <3>2, <3>3 DEF Between, Rotating
        <3>5. ReqInv(schema)
            BY <1>5, <3>2, <3>3, <3>4 DEF ReqInv, Between
        <3>6. Proceeds(rec, schema)
            BY <3>2, <3>3 DEF Proceeds
        <3>7. QED
            BY <1>1, <1>3, <1>5, <2>1, <3>1, <3>2, <3>5, <3>6 DEF RequestStep
    <2>4. QED
        BY <1>7, <2>2, <2>3 DEF SpeechPrelude
<1>8. QED
    BY <1>1, <1>6, <1>7

\* So is the refusal of a request that cannot be served.
LEMMA RejectStep ==
    ASSUME IInv, NEW r \in Requests, NEW k \in AllKinds, Reject(r, k)
    PROVE  /\ req[r].pc = "idle"
           /\ \E rec : /\ Asked(rec) = {} /\ rec.spec \in AccountOrNone
                       /\ RequestStep(r, rec)
           /\ UNCHANGED <<dbVars, paidNames, adminVars>>
<1> DEFINE rec == [req[r] EXCEPT !.kind = k]
           new == Answered(rec, "bad_request")
<1>1. /\ req[r].pc = "idle" /\ Finish(r, new)
      /\ UNCHANGED <<dbVars, paidNames, adminVars>>
    BY DEF Reject
<1>2. TypeOK /\ req[r] \in Request /\ ReqInv(req[r])
    BY DEF IInv, TypeOK
<1>3. /\ rec \in Request /\ rec.spec = req[r].spec /\ rec.reply = req[r].reply
      /\ rec.tried = req[r].tried /\ rec.quotaHits = req[r].quotaHits
    BY <1>1, <1>2 DEF Request
<1>4. Counted(rec) /\ Asked(rec) = {}
    BY <1>1, <1>2, <1>3 DEF ReqInv, Between, Counted, Asked, RepliedWith
<1>5. \A a \in Accounts : rec.reply[a] \notin Final
    BY <1>4 DEF Asked, Final
<1>6. new \in Request /\ ReqInv(new)
    BY <1>3, <1>4, <1>5, AnsweredInv DEF Answers
<1>7. /\ Asked(new) = Asked(rec) /\ new.spec = rec.spec
      /\ new.pc = "done" /\ new.answer = "bad_request"
    BY <1>3 DEF Answered, Request, Asked
<1>8. Proceeds(rec, new)
    BY <1>7 DEF Proceeds, Refusals
<1>9. RequestStep(r, rec) /\ rec.spec \in AccountOrNone
    BY <1>1, <1>2, <1>3, <1>6, <1>8 DEF Finish, RequestStep, TypeOK, Request
<1>10. QED
    BY <1>1, <1>4, <1>9

\* A client that goes away changes nothing the invariant speaks of.
LEMMA ClientGoneStep ==
    ASSUME IInv, NEW r \in Requests, ClientGone(r)
    PROVE  /\ req[r].pc \notin {"idle", "done"}
           /\ RequestStep(r, req[r])
           /\ UNCHANGED <<dbVars, paidNames, adminVars>>
<1> DEFINE old == req[r]
           new == [old EXCEPT !.gone = TRUE]
<1>1. /\ old.pc \in {"calling", "sleeping", "streaming"} /\ Finish(r, new)
      /\ UNCHANGED <<dbVars, paidNames, adminVars>>
    BY DEF ClientGone
<1>2. TypeOK /\ old \in Request /\ ReqInv(old)
    BY DEF IInv, TypeOK
<1>3. /\ new \in Request /\ new.pc = old.pc
      /\ new.spec = old.spec /\ new.cur = old.cur /\ new.skipped = old.skipped
      /\ new.reply = old.reply /\ new.answer = old.answer
      /\ new.tried = old.tried /\ new.quotaHits = old.quotaHits
    BY <1>2 DEF Request
<1>4. Counted(new) /\ Asked(new) = Asked(old)
    BY <1>2, <1>3 DEF ReqInv, Counted, Asked, RepliedWith
<1>5. ReqInv(new)
    <2>1. Between(old) => Between(new)
        BY <1>3, <1>4 DEF Between, Rotating
    <2>2. InFlight(old) => InFlight(new)
        BY <1>3, <1>4 DEF InFlight, Rotating
    <2>3. QED
        BY <1>1, <1>2, <1>3, <1>4, <2>1, <2>2 DEF ReqInv, Rotating
<1>6. Proceeds(old, new)
    BY <1>1, <1>3, <1>4 DEF Proceeds
<1>7. QED
    BY <1>1, <1>2, <1>3, <1>5, <1>6 DEF Finish, RequestStep, TypeOK

\* A step of a request keeps the type and the invariant of every request.
LEMMA RequestStepInv ==
    ASSUME IInv, NEW r \in Requests, NEW old, RequestStep(r, old)
    PROVE  /\ req' \in [Requests -> Request]
           /\ \A q \in Requests : ReqInv(req'[q])
<1>1. PICK new \in Request : ReqInv(new) /\ req' = [req EXCEPT ![r] = new]
    BY DEF RequestStep
<1>2. req \in [Requests -> Request] /\ \A q \in Requests : ReqInv(req[q])
    BY DEF IInv, TypeOK
<1>3. QED
    BY <1>1, <1>2

\* Synchronisation, edits, cache expiry and midnight leave requests alone
\* and keep the types of what they write.
LEMMA BackgroundType ==
    ASSUME TypeOK, Environment \/ \E a \in Accounts : Admin(a)
    PROVE  TypeOK' /\ req' = req
<1>1. EmptySnapshot \in Snapshot
    BY DEF EmptySnapshot, Snapshot
<1>2. ASSUME Environment PROVE TypeOK' /\ req' = req
    <2>1. CASE ListModels
        <3>1. AiAccountSnapshot(snapshot, exhausted) \in Snapshot
            BY SnapshotType DEF TypeOK
        <3>2. QED
            BY <2>1, <3>1, ModelsAssumption
            DEF ListModels, TypeOK, dbVars, adminVars
    <2>2. CASE SyncStart
        BY <2>2 DEF SyncStart, TypeOK, Routable, dbVars, cacheVars
    <2>3. CASE \E a \in Accounts, n \in 0..MaxReport : SyncReply(a, n)
        BY <1>1, <2>3 DEF SyncReply, TypeOK
    <2>4. CASE ClearCache
        BY <1>1, <2>4 DEF ClearCache, Edit, TypeOK, dbVars
    <2>5. CASE DayChange
        BY <2>5 DEF DayChange, TypeOK, cacheVars
    <2>6. QED
        BY <1>2, <2>1, <2>2, <2>3, <2>4, <2>5 DEF Environment
<1>3. ASSUME NEW a \in Accounts, Admin(a) PROVE TypeOK' /\ req' = req
    <2>1. CASE \E paid \in BOOLEAN : AddAccount(a, paid)
        BY <2>1 DEF AddAccount, Edit, TypeOK, AccountRow, cacheVars
    <2>2. CASE \E paid \in BOOLEAN : SaveAccount(a, paid)
        BY <2>2 DEF SaveAccount, Edit, TypeOK, AccountRow, cacheVars
    <2>3. CASE \E probes \in BOOLEAN : FinishSave(a, probes)
        BY <1>1, <2>3 DEF FinishSave, TypeOK, dbVars
    <2>4. CASE \E paid \in BOOLEAN : StoreProbe(a, paid)
        BY <2>4 DEF StoreProbe, TypeOK, AccountRow, cacheVars
    <2>5. CASE \E ai \in BOOLEAN : SetFeatures(a, ai)
        BY <1>1, <2>5 DEF SetFeatures, Edit, TypeOK, AccountRow
    <2>6. CASE \E batch \in BOOLEAN : DeleteAccount(a, batch)
        BY <1>1, <2>6 DEF DeleteAccount, Edit, TypeOK, AccountRow
    <2>7. CASE ClearExhausted(a)
        BY <2>7 DEF ClearExhausted, Edit, TypeOK, cacheVars
    <2>8. CASE \E paid \in BOOLEAN : FinishAdd(a, paid)
        BY <1>1, <2>8 DEF FinishAdd, TypeOK, AccountRow
    <2>9. QED
        BY <1>3, <2>1, <2>2, <2>3, <2>4, <2>5, <2>6, <2>7, <2>8 DEF Admin
<1>4. QED
    BY <1>2, <1>3

-----------------------------------------------------------------------------
(***************************************************************************)
(* The invariant is inductive                                              *)
(***************************************************************************)

LEMMA InitInv == Init => IInv
<1> SUFFICES ASSUME Init PROVE IInv
    OBVIOUS
<1>1. NewRequest \in Request
    <2>1. (CHOOSE m \in Models : TRUE) \in Models
        BY ModelsAssumption
    <2>2. QED
        BY <2>1 DEF NewRequest, Request, Phases, AllKinds, AccountOrNone,
                    Answers, Replies
<1>2. TypeOK
    BY <1>1, AccountsAssumption
    DEF Init, TypeOK, AccountRow, Snapshot, EmptySnapshot, AccountOrNone
<1>3. Asked(NewRequest) = {} /\ RepliedWith(NewRequest, "quota") = {}
    BY DEF NewRequest, Asked, RepliedWith
<1>4. Counted(NewRequest)
    BY <1>3, FS_EmptySet DEF Counted, NewRequest
<1>5. ReqInv(NewRequest)
    BY <1>3, <1>4 DEF ReqInv, NewRequest, Between, Rotating
<1>6. QED
    BY <1>2, <1>5 DEF Init, IInv

LEMMA NextInv == IInv /\ [Next]_vars => IInv'
<1> SUFFICES ASSUME IInv, [Next]_vars PROVE IInv'
    OBVIOUS
<1>1. TypeOK
    BY DEF IInv
<1>2. CASE UNCHANGED vars
    BY <1>2 DEF vars, IInv, TypeOK
<1>3. ASSUME NEW r \in Requests, Handle(r) PROVE IInv'
    <2>1. /\ RequestStep(r, req[r])
          /\ usage' \in [Accounts -> Nat] /\ exhausted' \subseteq Accounts
          /\ UNCHANGED <<acct, paidNames, adminVars>>
        BY <1>3, HandleStep
    <2>2. req' \in [Requests -> Request] /\ \A q \in Requests : ReqInv(req'[q])
        BY <1>3, <2>1, RequestStepInv
    <2>3. QED
        BY <1>1, <2>1, <2>2 DEF IInv, TypeOK, RequestStep, adminVars
<1>4. ASSUME NEW r \in Requests, Client(r) PROVE IInv'
    <2>1. PICK old : RequestStep(r, old) /\ UNCHANGED <<dbVars, paidNames, adminVars>>
        BY <1>4, ArriveStep, RejectStep, ClientGoneStep, ModelsAssumption DEF Client
    <2>2. req' \in [Requests -> Request] /\ \A q \in Requests : ReqInv(req'[q])
        BY <1>4, <2>1, RequestStepInv
    <2>3. QED
        BY <1>1, <2>1, <2>2 DEF IInv, TypeOK, RequestStep, dbVars, adminVars
<1>5. ASSUME Environment \/ \E a \in Accounts : Admin(a) PROVE IInv'
    BY <1>1, <1>5, BackgroundType DEF IInv
<1>6. QED
    BY <1>2, <1>3, <1>4, <1>5 DEF Next

\* IInv holds in every reachable state of the gateway.
THEOREM Invariance == Spec => []IInv
<1>1. Init => IInv
    BY InitInv
<1>2. IInv /\ [Next]_vars => IInv'
    BY NextInv
<1>3. QED
    BY <1>1, <1>2, PTL DEF Spec

-----------------------------------------------------------------------------
(***************************************************************************)
(* The properties                                                          *)
(***************************************************************************)

\* Every variable of the gateway keeps its type.
THEOREM TypeCorrect == Spec => []TypeOK
<1>1. IInv => TypeOK
    BY DEF IInv
<1>2. QED
    BY <1>1, Invariance, PTL

\* A request is answered 429 only when an account it asked said 4006, an
\* image request only when all of them did: routes/openai.ts computes both
\* verdicts from counters, and equal counters mean equal sets.
THEOREM QuotaVerdictCorrect == Spec => []QuotaVerdictJustified
<1>1. IInv => QuotaVerdictJustified
    <2> SUFFICES ASSUME IInv, NEW r \in Requests,
                        req[r].answer = "quota_exceeded"
                 PROVE  /\ Rotating(req[r])
                        /\ RepliedWith(req[r], "quota") # {}
                        /\ req[r].kind = "image" =>
                              Asked(req[r]) = RepliedWith(req[r], "quota")
        BY DEF QuotaVerdictJustified
    <2> DEFINE rec == req[r]
               hit == RepliedWith(rec, "quota")
    <2>1. /\ Counted(rec) /\ Settled(rec) /\ rec \in Request
        BY DEF IInv, ReqInv, TypeOK
    <2>2. Rotating(rec) /\ QuotaVerdict(rec)
        BY <2>1 DEF Settled
    <2>3. Cardinality(hit) > 0
        BY <2>1, <2>2 DEF QuotaVerdict, Counted
    <2>4. hit # {}
        BY <2>3, FS_EmptySet
    <2>5. hit \in SUBSET Asked(rec) /\ IsFiniteSet(Asked(rec))
        BY FiniteReplies DEF RepliedWith, Asked
    <2>6. rec.kind = "image" => Cardinality(Asked(rec)) = Cardinality(hit)
        BY <2>1, <2>2 DEF QuotaVerdict, Counted
    <2>7. QED
        BY <2>2, <2>4, <2>5, <2>6, FS_Subset
<1>2. QED
    BY <1>1, Invariance, PTL

\* Nothing but a network error, a retryable status or error 4006 moves a
\* request to another account, and "ok" comes from the account that served.
THEOREM FinalReplyCorrect == Spec => []FinalReplyIsLast
<1>1. IInv => FinalReplyIsLast
    <2> SUFFICES ASSUME IInv, NEW r \in Requests, NEW a \in Accounts
                 PROVE  /\ req[r].reply[a] \in Final =>
                              /\ a = req[r].cur
                              /\ req[r].pc \in {"streaming", "stalled", "hung", "done"}
                        /\ req[r].answer = "ok" => req[r].reply[req[r].cur] = "ok"
        BY DEF FinalReplyIsLast, Final
    <2> DEFINE rec == req[r]
    <2>1. ReqInv(rec) /\ rec \in Request
        BY DEF IInv, TypeOK
    <2>2. CASE rec.pc \in {"idle", "schema", "sleeping"}
        BY <2>1, <2>2 DEF ReqInv, Between, Asked, Retried, Final
    <2>3. CASE rec.pc \in {"calling", "streaming", "stalled"}
        BY <2>1, <2>3 DEF ReqInv, InFlight, Asked, Retried, Final
    <2>4. CASE rec.pc \in {"hung", "done"}
        BY <2>1, <2>4 DEF ReqInv, Settled
    <2>5. QED
        BY <2>1, <2>2, <2>3, <2>4 DEF Request, Phases
<1>2. QED
    BY <1>1, Invariance, PTL

\* The 4006 mark of an account outlives synchronisation, edits and cache
\* misses: services/quotaTracker.ts keeps it on purpose, and no other write
\* to quota_usage loses it.
THEOREM MarkSurvivesCorrect == Spec => MarkSurvives
<1> DEFINE Kept == \A a \in exhausted \ exhausted' :
                      \/ day' # day
                      \/ acct'[a].row = "deleted"
                      \/ syncing' = syncing /\ edits' # edits /\ acct' = acct
<1>1. IInv /\ [Next]_vars => [Kept]_vars
    <2> SUFFICES ASSUME IInv, Next PROVE Kept
        OBVIOUS
    <2>1. ASSUME NEW r \in Requests, Handle(r) PROVE Kept
        BY <2>1, HandleStep
    <2>2. ASSUME NEW r \in Requests, Client(r) PROVE Kept
        BY <2>2, ArriveStep, RejectStep, ClientGoneStep, ModelsAssumption DEF Client, dbVars
    <2>3. ASSUME Environment PROVE Kept
        <3>1. CASE DayChange
            BY <3>1 DEF DayChange, IInv, TypeOK
        <3>2. CASE exhausted' = exhausted
            BY <3>2
        <3>3. QED
            BY <2>3, <3>1, <3>2
            DEF Environment, ListModels, SyncStart, SyncReply, ClearCache, dbVars
    <2>4. ASSUME NEW a \in Accounts, Admin(a) PROVE Kept
        <3>1. CASE \E batch \in BOOLEAN : DeleteAccount(a, batch)
            <4>1. exhausted' = exhausted \ {a} /\ acct'[a].row = "deleted"
                BY <3>1 DEF DeleteAccount, IInv, TypeOK, AccountRow
            <4>2. QED
                BY <4>1
        <3>2. CASE ClearExhausted(a)
            <4>1. edits \in Nat
                BY DEF IInv, TypeOK
            <4>2. QED
                BY <3>2, <4>1 DEF ClearExhausted, Edit
        <3>3. CASE exhausted' = exhausted
            BY <3>3
        <3>4. QED
            BY <2>4, <3>1, <3>2, <3>3
            DEF Admin, AddAccount, FinishAdd, SaveAccount, FinishSave, StoreProbe,
                SetFeatures, dbVars
    <2>5. QED
        BY <2>1, <2>2, <2>3, <2>4 DEF Next
<1>2. QED
    BY <1>1, Invariance, PTL DEF Spec, MarkSurvives

-----------------------------------------------------------------------------
(***************************************************************************)
(* The gateway implements Failover                                         *)
(***************************************************************************)

\* A step of one request changes its job only.
LEMMA JobsUpdate ==
    ASSUME IInv, NEW r \in Requests, NEW new, req' = [req EXCEPT ![r] = new]
    PROVE  Jobs' = [Jobs EXCEPT ![r] = JobOf(new)]
BY DEF Jobs, JobOf, Asked, Phase, IInv, TypeOK

\* A step of an open request asks a fresh account, closes it or stutters.
LEMMA OpenStepRefines ==
    ASSUME IInv, NEW r \in Requests, req[r].pc \notin {"idle", "done"},
           RequestStep(r, req[r])
    PROVE  Abstract!Next \/ Jobs' = Jobs
<1> DEFINE old == req[r]
<1>1. PICK new \in Request : /\ ReqInv(new) /\ Proceeds(old, new)
                             /\ req' = [req EXCEPT ![r] = new]
    BY DEF RequestStep
<1>2. Jobs' = [Jobs EXCEPT ![r] = JobOf(new)] /\ Jobs[r] = JobOf(old)
    BY <1>1, JobsUpdate DEF Jobs
<1>3. ReqInv(old) /\ old.answer = "none"
    BY DEF IInv, ReqInv
<1>4. JobOf(old) = [phase |-> "open", pin |-> old.spec,
                    asked |-> Asked(old), calls |-> old.tried, verdict |-> "none"]
    BY <1>3 DEF JobOf, Phase
<1>5. new.spec = old.spec /\ new.pc # "idle"
    BY <1>1 DEF Proceeds
<1>6. CASE new.pc # "done" /\ Asked(new) = Asked(old)
    <2>1. JobOf(new) = JobOf(old)
        BY <1>1, <1>3, <1>4, <1>5, <1>6 DEF JobOf, Phase, ReqInv, Counted
    <2>2. QED
        BY <1>2, <2>1 DEF Jobs
<1>7. CASE new.pc = "done" /\ Asked(new) = Asked(old)
    <2>1. JobOf(new) = [phase |-> "closed", pin |-> old.spec,
                        asked |-> Asked(old), calls |-> old.tried,
                        verdict |-> new.answer]
        BY <1>1, <1>3, <1>4, <1>5, <1>7 DEF JobOf, Phase, ReqInv, Counted
    <2>2. new.answer \in Answers
        BY <1>1 DEF Request
    <2>3. new.answer \in Refusals \/ Asked(old) # {}
        BY <1>1, <1>7 DEF Proceeds
    <2>4. Abstract!Close(r, new.answer)
        BY <1>2, <1>4, <2>1, <2>3
        DEF Abstract!Close, Refusals
    <2>5. QED
        BY <2>2, <2>4 DEF Abstract!Next
<1>8. CASE new.pc # "done" /\ Asked(new) # Asked(old)
    <2>1. PICK a \in Accounts \ Asked(old) :
             Asked(new) = Asked(old) \cup {a} /\ (new.spec = None \/ new.spec = a)
        BY <1>1, <1>8 DEF Proceeds
    <2>2. new.tried = old.tried + 1
        BY <1>1, <1>3, <2>1, FiniteReplies, FS_AddElement DEF ReqInv, Counted
    <2>3. JobOf(new) = [phase |-> "open", pin |-> old.spec,
                        asked |-> Asked(old) \cup {a}, calls |-> old.tried + 1,
                        verdict |-> "none"]
        BY <1>1, <1>4, <1>5, <1>8, <2>1, <2>2 DEF JobOf, Phase, ReqInv
    <2>4. Abstract!Ask(r, a)
        BY <1>2, <1>4, <1>5, <2>1, <2>3 DEF Abstract!Ask, Abstract!Allowed
    <2>5. QED
        BY <2>1, <2>4 DEF Abstract!Next
<1>9. QED
    BY <1>1, <1>6, <1>7, <1>8 DEF Proceeds

\* An arrival submits the job, with its first account or none, or refuses it.
LEMMA ArrivalRefines ==
    ASSUME IInv, NEW r \in Requests, req[r].pc = "idle",
           NEW rec, Asked(rec) = {}, rec.spec \in AccountOrNone, RequestStep(r, rec)
    PROVE  Abstract!Next
<1>1. PICK new \in Request : /\ ReqInv(new) /\ Proceeds(rec, new)
                             /\ req' = [req EXCEPT ![r] = new]
    BY DEF RequestStep
<1>2. Jobs' = [Jobs EXCEPT ![r] = JobOf(new)] /\ Jobs[r] = JobOf(req[r])
    BY <1>1, JobsUpdate DEF Jobs
<1>3. JobOf(req[r]).phase = "new"
    BY DEF JobOf, Phase
<1>4. new.spec = rec.spec /\ new.pc # "idle"
    BY <1>1 DEF Proceeds
<1>5. CASE new.pc = "done"
    <2>1. Asked(new) = {} /\ new.answer \in Refusals
        BY <1>1, <1>5 DEF Proceeds
    <2>2. JobOf(new) = [phase |-> "closed", pin |-> rec.spec,
                        asked |-> {}, calls |-> 0, verdict |-> new.answer]
        BY <1>1, <1>4, <1>5, <2>1, FS_EmptySet DEF JobOf, Phase, ReqInv, Counted
    <2>3. Abstract!Refuse(r, rec.spec, new.answer)
        BY <1>2, <1>3, <2>1, <2>2
        DEF Abstract!Refuse, Refusals, Jobs
    <2>4. QED
        BY <2>1, <2>3 DEF Abstract!Next, Refusals, AccountOrNone
<1>6. CASE new.pc # "done" /\ Asked(new) = {}
    <2>1. JobOf(new) = [phase |-> "open", pin |-> rec.spec,
                        asked |-> {}, calls |-> 0, verdict |-> "none"]
        BY <1>1, <1>4, <1>6, FS_EmptySet DEF JobOf, Phase, ReqInv, Counted
    <2>2. Abstract!Submit(r, rec.spec, {})
        BY <1>2, <1>3, <2>1 DEF Abstract!Submit, Jobs
    <2>3. QED
        BY <2>2 DEF Abstract!Next, AccountOrNone
<1>7. CASE new.pc # "done" /\ Asked(new) # {}
    <2>1. PICK a \in Accounts : Asked(new) = {a} /\ (new.spec = None \/ new.spec = a)
        BY <1>1, <1>7 DEF Proceeds
    <2>2. JobOf(new) = [phase |-> "open", pin |-> rec.spec,
                        asked |-> {a}, calls |-> 1, verdict |-> "none"]
        BY <1>1, <1>4, <1>7, <2>1, FS_Singleton DEF JobOf, Phase, ReqInv, Counted
    <2>3. Abstract!Submit(r, rec.spec, {a})
        BY <1>2, <1>3, <1>4, <2>1, <2>2 DEF Abstract!Submit, Abstract!Allowed, Jobs
    <2>4. QED
        BY <2>1, <2>3 DEF Abstract!Next, AccountOrNone
<1>8. QED
    BY <1>5, <1>6, <1>7

\* Whatever the cache, the quota rows and the other requests do, a request
\* asks each account at most once, a pinned one only its own, and is
\* answered once: every handler of routes/openai.ts is a Failover.
THEOREM FailoverImplemented == Spec => ImplementsFailover
<1>1. Init => Abstract!Init
    <2>1. JobOf(NewRequest) = Abstract!NewJob
        BY DEF Abstract!NewJob, NewRequest, JobOf, Phase, Asked
    <2>2. QED
        BY <2>1 DEF Init, Abstract!Init, Jobs
<1>2. IInv /\ [Next]_vars => [Abstract!Next]_Jobs
    <2> SUFFICES ASSUME IInv, [Next]_vars PROVE Abstract!Next \/ Jobs' = Jobs
        OBVIOUS
    <2>1. ASSUME req' = req PROVE Jobs' = Jobs
        BY <2>1 DEF Jobs, JobOf, Asked, Phase
    <2>2. ASSUME NEW r \in Requests, Handle(r) PROVE Abstract!Next \/ Jobs' = Jobs
        BY <2>2, HandleStep, OpenStepRefines
    <2>3. ASSUME NEW r \in Requests, Client(r) PROVE Abstract!Next \/ Jobs' = Jobs
        <3>1. CASE ClientGone(r)
            BY <3>1, ClientGoneStep, OpenStepRefines
        <3>2. CASE \E k \in Kinds, m \in Models, s \in AccountOrNone : Arrive(r, k, m, s)
            BY <3>2, ArriveStep, ArrivalRefines, ModelsAssumption
        <3>3. CASE \E k \in Kinds : Reject(r, k)
            BY <3>3, RejectStep, ArrivalRefines, ModelsAssumption
        <3>4. QED
            BY <2>3, <3>1, <3>2, <3>3 DEF Client
    <2>4. ASSUME Environment \/ \E a \in Accounts : Admin(a) PROVE Jobs' = Jobs
        BY <2>1, <2>4, BackgroundType DEF IInv
    <2>5. QED
        BY <2>1, <2>2, <2>3, <2>4 DEF Next, vars
<1>3. QED
    BY <1>1, <1>2, Invariance, PTL DEF Spec, ImplementsFailover, Abstract!Spec

-----------------------------------------------------------------------------
(***************************************************************************)
(* The accounting                                                          *)
(***************************************************************************)

\* The accounts that exist or existed: the ids the table handed out.
Born == {a \in Accounts : acct[a].row # "unborn"}

\* Whether a request counts as a completion of the account a.
Serves(rec, a) ==
    rec.answer = "ok" /\ rec.cur = a /\ (rec.kind = "stream" => rec.usageSeen)

Served(a) == {r \in Requests : Serves(req[r], a)}

\* Requests and the cached snapshot name only accounts that were added, so
\* a new row has served nobody; the rows of the others count what they served.
LedgerInv ==
    /\ snapshot.members \subseteq Born
    /\ \A r \in Requests : /\ req[r].cur \in Born \cup {None}
                           /\ req[r].pc = "streaming" => req[r].kind = "stream"
    /\ syncs = 0 => syncing = {}
    /\ syncs = 0 /\ day = 0 => \A a \in Accounts :
          /\ acct[a].row = "unborn" => usage[a] = 0
          /\ RowExists(a) => /\ IsFiniteSet(Served(a))
                             /\ usage[a] = Cardinality(Served(a))

\* The request r becomes new, naming accounts that were added.
Becomes(r, new) ==
    /\ req' = [req EXCEPT ![r] = new]
    /\ new.cur \in Born \cup {None}
    /\ new.pc = "streaming" => new.kind = "stream"
    /\ snapshot' \in Snapshot /\ snapshot'.members \subseteq Born

\* A step of r that answers nothing.
Unanswered(r) == \E new \in Request : Becomes(r, new) /\ new.answer # "ok"

\* What the router needs of a record and of a cached list.
Known(rec, snap) ==
    /\ rec \in Request /\ rec.answer # "ok" /\ rec.cur \in Born \cup {None}
    /\ snap \in Snapshot /\ snap.members \subseteq Born

\* A call by the router, or of a pinned account, names a live account.
LEMMA CalledKnown ==
    ASSUME NEW rec \in Request, rec.answer # "ok", NEW a \in Born
    PROVE  /\ Called(rec, a) \in Request
           /\ Called(rec, a).answer # "ok" /\ Called(rec, a).cur = a
           /\ Called(rec, a).pc = "calling"
<1> DEFINE replies == [rec.reply EXCEPT ![a] = "asked"]
<1>1. replies \in [Accounts -> Replies]
    BY DEF Request, Replies, Born
<1>2. Called(rec, a) = [rec EXCEPT !.pc = "calling", !.cur = a,
                                   !.tried = @ + 1, !.reply = replies]
    BY DEF Called, Request
<1>3. rec.tried + 1 \in Nat /\ a \in AccountOrNone
    BY DEF Request, Born, AccountOrNone
<1> HIDE DEF replies
<1>4. QED
    BY <1>1, <1>2, <1>3 DEF Request, Phases

\* An answer other than "ok" counts for nobody.
LEMMA AnsweredKnown ==
    ASSUME NEW rec \in Request, NEW v \in Answers
    PROVE  /\ Answered(rec, v) \in Request
           /\ Answered(rec, v).answer = v /\ Answered(rec, v).cur = rec.cur
           /\ Answered(rec, v).pc = "done"
BY DEF Answered, Request, Phases

\* Neither does an exception.
LEMMA EscapedKnown ==
    ASSUME NEW rec \in Request, rec.answer # "ok"
    PROVE  /\ Escaped(rec) \in Request
           /\ Escaped(rec).answer # "ok" /\ Escaped(rec).cur = rec.cur
           /\ Escaped(rec).pc \in {"hung", "done"}
           /\ Thrown(rec) \in Request
           /\ Thrown(rec).answer # "ok" /\ Thrown(rec).cur = rec.cur
           /\ Thrown(rec).pc \in {"hung", "done"}
<1> DEFINE hung == [rec EXCEPT !.pc = "hung"]
<1>1. /\ hung \in Request /\ hung.pc = "hung"
      /\ hung.answer = rec.answer /\ hung.cur = rec.cur
    BY DEF Request, Phases
<1>2. \A v \in {"internal", "upstream"} :
        /\ Answered(rec, v) \in Request
        /\ Answered(rec, v).answer = v /\ Answered(rec, v).cur = rec.cur
        /\ Answered(rec, v).pc = "done"
    BY AnsweredKnown DEF Answers
<1>3. QED
    BY <1>1, <1>2 DEF Escaped, CaughtDirect, Thrown

\* The list the router works on names accounts that were added.
LEMMA SnapshotKnown ==
    ASSUME TypeOK, NEW snap \in Snapshot, snap.members \subseteq Born, NEW exh
    PROVE  /\ AiAccountSnapshot(snap, exh) \in Snapshot
           /\ AiAccountSnapshot(snap, exh).members \subseteq Born
<1>1. BuildSnapshot(exh).members \subseteq Born
    BY DEF BuildSnapshot, Routable, Born
<1>2. QED
    BY <1>1, SnapshotType DEF AiAccountSnapshot

LEMMA NextAttemptLedger ==
    ASSUME TypeOK, NEW r \in Requests, NEW rec, NEW snap, Known(rec, snap), NEW exh,
           NextAttempt(r, rec, snap, exh)
    PROVE  Unanswered(r)
<1> DEFINE s == AiAccountSnapshot(snap, exh)
<1>1. s \in Snapshot /\ s.members \subseteq Born /\ snapshot' = s
    BY SnapshotKnown DEF NextAttempt, Known
<1>2. CASE \E v \in {"quota_exceeded", "upstream"} :
              req' = [req EXCEPT ![r] = Answered(rec, v)]
    <2>1. PICK v \in {"quota_exceeded", "upstream"} :
             req' = [req EXCEPT ![r] = Answered(rec, v)]
        BY <1>2
    <2>2. Becomes(r, Answered(rec, v)) /\ Answered(rec, v) \in Request
        BY <1>1, <2>1, AnsweredKnown DEF Known, Becomes, Answers
    <2>3. Answered(rec, v).answer # "ok"
        BY AnsweredKnown DEF Known, Answers
    <2>4. QED
        BY <2>2, <2>3 DEF Unanswered
<1>3. CASE \E a \in BestAccounts(s, rec) : req' = [req EXCEPT ![r] = Called(rec, a)]
    <2>1. PICK a \in BestAccounts(s, rec) : req' = [req EXCEPT ![r] = Called(rec, a)]
        BY <1>3
    <2>2. a \in Born
        BY <1>1, <2>1 DEF BestAccounts, Cheapest, Selectable
    <2>3. QED
        BY <1>1, <2>1, <2>2, CalledKnown DEF Known, Unanswered, Becomes
<1>4. QED
    BY <1>2, <1>3 DEF NextAttempt

LEMMA AttemptLedger ==
    ASSUME TypeOK, NEW r \in Requests, NEW rec, Known(rec, snapshot), Attempt(r, rec)
    PROVE  Unanswered(r)
<1>1. CASE Rotating(rec)
    BY <1>1, NextAttemptLedger DEF Attempt
<1>2. CASE ~Rotating(rec)
    <2>1. DirectAttempt(r, rec)
        BY <1>2 DEF Attempt
    <2>2. CASE rec.spec \in Routable
        <3>1. rec.spec \in Born
            BY <2>2 DEF Routable, Born
        <3>2. QED
            BY <2>1, <2>2, <3>1, CalledKnown
            DEF DirectAttempt, Known, Unanswered, Becomes
    <2>3. CASE rec.spec \notin Routable
        BY <2>1, <2>3, AnsweredKnown
        DEF DirectAttempt, Known, Unanswered, Becomes, Answers
    <2>4. QED
        BY <2>2, <2>3
<1>3. QED
    BY <1>1, <1>2

LEMMA RotateLedger ==
    ASSUME TypeOK, NEW r \in Requests, NEW rec, NEW snap, Known(rec, snap),
           rec.cur \in Accounts, NEW exh, Rotate(r, rec, snap, exh)
    PROVE  Unanswered(r)
<1> DEFINE skip == [rec EXCEPT !.skipped = @ \cup {rec.cur}]
           slept == [skip EXCEPT !.pc = "sleeping"]
<1>1. skip \in Request /\ skip.answer = rec.answer /\ skip.cur = rec.cur
    BY DEF Known, Request
<1>2. /\ slept \in Request /\ slept.pc = "sleeping"
      /\ slept.answer = rec.answer /\ slept.cur = rec.cur
    BY <1>1 DEF Request, Phases
<1>3. CASE rec.kind \in {"chat", "stream"}
    <2>1. req' = [req EXCEPT ![r] = slept] /\ snapshot' = snap
        BY <1>3 DEF Rotate
    <2>2. QED
        BY <1>2, <2>1 DEF Known, Unanswered, Becomes
<1>4. CASE rec.kind \notin {"chat", "stream"}
    <2>1. NextAttempt(r, skip, snap, exh)
        BY <1>4 DEF Rotate
    <2>2. Known(skip, snap)
        BY <1>1 DEF Known
    <2>3. QED
        BY <2>1, <2>2, NextAttemptLedger
<1>5. QED
    BY <1>3, <1>4

\* An exception, or an answer other than "ok", ends the request uncounted.
LEMMA FinishLedger ==
    ASSUME NEW r \in Requests, NEW rec, Known(rec, snapshot),
           NEW new \in {Escaped(rec), Thrown(rec)}
                       \cup {Answered(rec, v) : v \in Answers \ {"ok"}},
           req' = [req EXCEPT ![r] = new],
           snapshot' \in Snapshot, snapshot'.members \subseteq Born
    PROVE  Unanswered(r)
<1>1. CASE new \in {Escaped(rec), Thrown(rec)}
    BY <1>1, EscapedKnown DEF Known, Unanswered, Becomes
<1>2. CASE new \in {Answered(rec, v) : v \in Answers \ {"ok"}}
    <2>1. PICK v \in Answers \ {"ok"} : new = Answered(rec, v)
        BY <1>2
    <2>2. new \in Request /\ new.answer = v /\ new.cur = rec.cur /\ new.pc = "done"
        BY <2>1, AnsweredKnown DEF Known
    <2>3. QED
        BY <2>2 DEF Known, Unanswered, Becomes
<1>3. QED
    BY <1>1, <1>2

\* The request with a reply noted still has an account that was added.
LEMMA NotedKnown ==
    ASSUME LedgerInv, TypeOK, NEW r \in Requests, NEW rec, NEW e,
           Noted(rec, req[r], e)
    PROVE  Known(rec, snapshot) /\ rec.cur \in Born /\ rec.cur \in Accounts
<1>1. rec.cur \in Accounts /\ rec.cur = req[r].cur /\ rec.answer = "none"
    BY DEF Noted, InFlight
<1>2. rec.cur \in Born
    BY <1>1, AccountsAssumption DEF LedgerInv
<1>3. QED
    BY <1>1, <1>2 DEF Known, Noted, LedgerInv, TypeOK

\* A step that completes the request for new.cur, counted or not.
Completes(r) ==
    \E new \in Request :
        /\ Becomes(r, new)
        /\ new.answer = "ok" /\ new.cur \in Accounts
        /\ usage' = IF Serves(new, new.cur) /\ RowExists(new.cur)
                    THEN [usage EXCEPT ![new.cur] = @ + 1] ELSE usage

\* Every step of a handler counts a completion once, or none.
LEMMA HandleLedger ==
    ASSUME IInv, LedgerInv, NEW r \in Requests, Handle(r)
    PROVE  Completes(r) \/ (Unanswered(r) /\ usage' = usage)
<1> DEFINE old == req[r]
<1>1. /\ TypeOK /\ ReqInv(old) /\ old \in Request
      /\ old.cur \in Born \cup {None}
      /\ snapshot \in Snapshot /\ snapshot.members \subseteq Born
    BY DEF IInv, TypeOK, LedgerInv
<1>2. old.pc # "done"
    BY HandleStep
<1>3. Known(old, snapshot)
    BY <1>1, <1>2 DEF ReqInv, Known
<1>4. CASE SchemaLoaded(r)
    BY <1>1, <1>3, <1>4, AttemptLedger DEF SchemaLoaded, dbVars
<1>5. CASE WakeUp(r)
    BY <1>1, <1>3, <1>5, NextAttemptLedger DEF WakeUp, dbVars
<1>6. CASE NetworkError(r)
    <2> DEFINE rec == Replied(r, "network")
    <2>1. Known(rec, snapshot) /\ rec.cur \in Accounts /\ usage' = usage
        BY <1>1, <1>6, RepliedInv, NotedKnown DEF Replies, NetworkError, dbVars
    <2>2. CASE Rotate(r, rec, snapshot, exhausted)
        BY <1>1, <2>1, <2>2, RotateLedger
    <2>3. CASE Finish(r, Escaped(rec))
        BY <1>1, <2>1, <2>3, FinishLedger DEF Finish
    <2>4. QED
        BY <1>6, <2>2, <2>3 DEF NetworkError
<1>7. CASE UpstreamBusy(r)
    <2> DEFINE rec == Replied(r, "busy")
    <2>1. Known(rec, snapshot) /\ rec.cur \in Accounts /\ usage' = usage
        BY <1>1, <1>7, RepliedInv, NotedKnown DEF Replies, UpstreamBusy, dbVars
    <2>2. CASE Rotate(r, rec, snapshot, exhausted)
        BY <1>1, <2>1, <2>2, RotateLedger
    <2>3. CASE Finish(r, Thrown(rec)) \/ Finish(r, Answered(rec, "upstream"))
        BY <1>1, <2>1, <2>3, FinishLedger DEF Finish, Answers
    <2>4. QED
        BY <1>7, <2>2, <2>3 DEF UpstreamBusy
<1>8. CASE NeuronLimit(r)
    <2> DEFINE rec == [Replied(r, "quota") EXCEPT !.quotaHits = @ + 1]
               snap == RemoveAccountFromAiCache(snapshot, rec.cur)
    <2>1. Known(rec, snapshot) /\ rec.cur \in Accounts /\ usage' = usage
        BY <1>1, <1>8, QuotaRepliedInv, NotedKnown DEF NeuronLimit
    <2>2. snap \in Snapshot /\ snap.members \subseteq Born
        BY <1>1 DEF RemoveAccountFromAiCache, EmptySnapshot, Snapshot
    <2>3. CASE Rotate(r, rec, snap, exhausted')
        <3>1. Known(rec, snap)
            BY <2>1, <2>2 DEF Known
        <3>2. QED
            BY <1>1, <2>1, <2>3, <3>1, RotateLedger
    <2>4. CASE Finish(r, Escaped(rec))
        BY <1>1, <2>1, <2>4, FinishLedger DEF Finish
    <2>5. CASE /\ req' = [req EXCEPT ![r] = Answered(rec, "upstream")]
               /\ snapshot' \in {snap, snapshot}
        BY <1>1, <2>1, <2>2, <2>5, FinishLedger DEF Answers
    <2>6. QED
        BY <1>8, <2>3, <2>4, <2>5 DEF NeuronLimit
<1>9. CASE UpstreamFatal(r)
    <2>1. Known(Replied(r, "fatal"), snapshot) /\ usage' = usage
        BY <1>1, <1>9, RepliedInv, NotedKnown DEF Replies, UpstreamFatal, dbVars
    <2>2. QED
        BY <1>1, <1>9, <2>1, FinishLedger DEF UpstreamFatal, Finish, Answers
<1>10. CASE BrokenBody(r)
    <2>1. Known(Replied(r, "broken"), snapshot) /\ usage' = usage
        BY <1>1, <1>10, RepliedInv, NotedKnown DEF Replies, BrokenBody, dbVars
    <2>2. QED
        BY <1>1, <1>10, <2>1, FinishLedger DEF BrokenBody, Finish
<1>11. CASE EmptyResult(r)
    <2>1. Known(Replied(r, "empty"), snapshot) /\ usage' = usage
        BY <1>1, <1>11, RepliedInv, NotedKnown DEF Replies, EmptyResult, dbVars
    <2>2. QED
        BY <1>1, <1>11, <2>1, FinishLedger DEF EmptyResult, Finish, Answers
<1>12. CASE Success(r)
    <2> DEFINE rec == Replied(r, "ok")
               new == Answered(rec, "ok")
    <2>0. old.pc = "calling" /\ rec.kind # "stream"
        BY <1>12 DEF Success
    <2>1. /\ Noted(rec, old, "ok") /\ rec.kind # "stream"
          /\ Known(rec, snapshot) /\ rec.cur \in Born /\ rec.cur \in Accounts
        BY <1>1, <2>0, RepliedInv, NotedKnown DEF Replies
    <2>2. CASE RowExists(rec.cur)
        <3>1. /\ new \in Request /\ new.pc = "done" /\ new.answer = "ok"
              /\ new.cur = rec.cur /\ new.kind # "stream"
            BY <2>1 DEF Noted, Answered, Request, Phases, Answers
        <3>2. /\ req' = [req EXCEPT ![r] = new] /\ snapshot' = snapshot
              /\ usage' = [usage EXCEPT ![new.cur] = @ + 1]
            BY <1>12, <2>2, <3>1 DEF Success, UpdateAiCacheAfterUsage
        <3>3. Becomes(r, new)
            BY <1>1, <2>1, <3>1, <3>2 DEF Becomes
        <3>4. Serves(new, new.cur) /\ RowExists(new.cur)
            BY <2>2, <3>1 DEF Serves
        <3>5. QED
            BY <2>1, <3>1, <3>2, <3>3, <3>4 DEF Completes
    <2>3. CASE ~RowExists(rec.cur)
        BY <1>1, <1>12, <2>1, <2>3, FinishLedger DEF Success, Finish
    <2>4. QED
        BY <2>2, <2>3
<1>13. CASE StreamStart(r)
    <2> DEFINE rec == Replied(r, "ok")
               new == [rec EXCEPT !.pc = "streaming"]
    <2>1. /\ Noted(rec, old, "ok") /\ old.kind = "stream" /\ usage' = usage
          /\ Known(rec, snapshot)
        BY <1>1, <1>13, RepliedInv, NotedKnown DEF Replies, StreamStart, dbVars
    <2>2. /\ new \in Request /\ new.cur = rec.cur /\ new.kind = rec.kind
          /\ new.answer = rec.answer
        BY <2>1 DEF Known, Request, Phases
    <2>3. req' = [req EXCEPT ![r] = new] /\ snapshot' = snapshot
        BY <1>13 DEF StreamStart, Finish
    <2>4. QED
        BY <1>1, <2>1, <2>2, <2>3 DEF Noted, Known, Unanswered, Becomes
<1>14. CASE \E seen \in BOOLEAN : StreamEnd(r, seen)
    <2>1. PICK seen \in BOOLEAN : StreamEnd(r, seen)
        BY <1>14
    <2> DEFINE rec == [old EXCEPT !.usageSeen = seen]
               new == Answered(rec, "ok")
    <2>2. old.pc = "streaming" /\ old.kind = "stream" /\ old.cur \in Accounts
        BY <1>1, <2>1 DEF StreamEnd, Request, LedgerInv, ReqInv, InFlight
    <2>3. /\ new \in Request /\ new.answer = "ok" /\ new.pc = "done"
          /\ new.cur = old.cur /\ new.kind = "stream" /\ new.usageSeen = seen
        BY <1>1, <2>2 DEF Answered, Request, Phases, Answers
    <2>4. /\ req' = [req EXCEPT ![r] = new] /\ snapshot' = snapshot
          /\ usage' = IF seen /\ RowExists(old.cur)
                      THEN [usage EXCEPT ![old.cur] = @ + 1] ELSE usage
        BY <1>1, <2>1 DEF StreamEnd, UpdateAiCacheAfterUsage, Request
    <2>5. Becomes(r, new)
        BY <1>1, <2>2, <2>3, <2>4 DEF Becomes
    <2>6. Serves(new, new.cur) = seen
        BY <2>3 DEF Serves
    <2>7. QED
        BY <2>2, <2>3, <2>4, <2>5, <2>6 DEF Completes
<1>15. CASE StreamStall(r)
    <2> DEFINE new == [old EXCEPT !.pc = "stalled"]
    <2>1. /\ new \in Request /\ new.pc = "stalled" /\ new.cur = old.cur
          /\ new.answer = old.answer
        BY <1>1 DEF Request, Phases
    <2>2. req' = [req EXCEPT ![r] = new] /\ snapshot' = snapshot /\ usage' = usage
        BY <1>15 DEF StreamStall, Finish, dbVars
    <2>3. QED
        BY <1>3, <2>1, <2>2 DEF Known, Unanswered, Becomes
<1>16. QED
    BY <1>4, <1>5, <1>6, <1>7, <1>8, <1>9, <1>10, <1>11, <1>12, <1>13,
       <1>14, <1>15 DEF Handle

\* A request that answers adds itself to what its account served.
LEMMA ServedUpdate ==
    ASSUME TypeOK, NEW r \in Requests, req[r].answer # "ok",
           NEW new, req' = [req EXCEPT ![r] = new], NEW a
    PROVE  /\ r \notin Served(a)
           /\ Served(a)' = IF Serves(new, a) THEN Served(a) \cup {r} ELSE Served(a)
<1>1. \A q \in Requests : req'[q] = IF q = r THEN new ELSE req[q]
    BY DEF TypeOK
<1>2. r \notin Served(a)
    BY DEF Served, Serves
<1>3. Served(a)' = {q \in Requests : Serves(req'[q], a)}
    BY DEF Served, Serves
<1>4. QED
    BY <1>1, <1>2, <1>3 DEF Served, Serves

\* So the ledger balances after the step of a handler or a client.
LEMMA RequestLedger ==
    ASSUME IInv, LedgerInv, NEW r \in Requests, req[r].answer # "ok",
           Completes(r) \/ (Unanswered(r) /\ usage' = usage),
           UNCHANGED <<acct, adminVars>>
    PROVE  LedgerInv'
<1>1. PICK new \in Request :
         /\ Becomes(r, new)
         /\ new.answer = "ok" => new.cur \in Accounts
         /\ usage' = IF new.answer = "ok" /\ Serves(new, new.cur) /\ RowExists(new.cur)
                     THEN [usage EXCEPT ![new.cur] = @ + 1] ELSE usage
    BY DEF Completes, Unanswered
<1>2. TypeOK /\ usage \in [Accounts -> Nat]
    BY DEF IInv, TypeOK
<1>3. Born' = Born /\ \A a : RowExists(a)' = RowExists(a)
    BY DEF Born, RowExists
<1>4. snapshot'.members \subseteq Born'
    BY <1>1, <1>3 DEF Becomes
<1>5. \A q \in Requests : /\ req'[q].cur \in Born' \cup {None}
                          /\ req'[q].pc = "streaming" => req'[q].kind = "stream"
    <2>1. \A q \in Requests : req'[q] = IF q = r THEN new ELSE req[q]
        BY <1>1, <1>2 DEF Becomes, TypeOK
    <2>2. /\ new.cur \in Born \cup {None}
          /\ new.pc = "streaming" => new.kind = "stream"
        BY <1>1 DEF Becomes
    <2>3. \A q \in Requests : /\ req[q].cur \in Born \cup {None}
                              /\ req[q].pc = "streaming" => req[q].kind = "stream"
        BY DEF LedgerInv
    <2>4. QED
        BY <1>3, <2>1, <2>2, <2>3
<1>6. syncs' = 0 => syncing' = {}
    BY DEF LedgerInv, adminVars
<1>7. ASSUME syncs' = 0, day' = 0, NEW a \in Accounts
      PROVE  /\ acct'[a].row = "unborn" => usage'[a] = 0
             /\ RowExists(a)' => /\ IsFiniteSet(Served(a)')
                                 /\ usage'[a] = Cardinality(Served(a)')
    <2>1. /\ acct[a].row = "unborn" => usage[a] = 0
          /\ RowExists(a) => /\ IsFiniteSet(Served(a))
                             /\ usage[a] = Cardinality(Served(a))
        BY <1>7 DEF LedgerInv, adminVars
    <2>2. /\ r \notin Served(a)
          /\ Served(a)' = IF Serves(new, a) THEN Served(a) \cup {r} ELSE Served(a)
        BY <1>1, <1>2, ServedUpdate DEF Becomes
    <2>3. usage'[a] = IF Serves(new, a) /\ RowExists(a) THEN usage[a] + 1 ELSE usage[a]
        <3>1. Serves(new, a) => new.cur = a /\ new.answer = "ok"
            BY DEF Serves
        <3>2. CASE new.cur = a
            BY <1>1, <1>2, <3>1, <3>2
        <3>3. CASE new.cur # a
            <4>1. usage'[a] = usage[a]
                BY <1>1, <1>2, <3>3
            <4>2. QED
                BY <3>1, <3>3, <4>1
        <3>4. QED
            BY <3>2, <3>3
    <2>4. acct'[a].row = "unborn" => usage'[a] = 0
        BY <2>1, <2>3 DEF RowExists
    <2>5. RowExists(a)' => /\ IsFiniteSet(Served(a)')
                           /\ usage'[a] = Cardinality(Served(a)')
        <3>1. SUFFICES ASSUME RowExists(a)
                       PROVE  /\ IsFiniteSet(Served(a)')
                              /\ usage'[a] = Cardinality(Served(a)')
            BY <1>3
        <3>2. CASE Serves(new, a)
            <4>1. Served(a)' = Served(a) \cup {r} /\ usage'[a] = usage[a] + 1
                BY <2>2, <2>3, <3>1, <3>2
            <4>2. QED
                <5> DEFINE S == Served(a)
                <5>1. IsFiniteSet(S) /\ usage[a] = Cardinality(S) /\ r \notin S
                    BY <2>1, <2>2, <3>1
                <5> HIDE DEF S
                <5>2. IsFiniteSet(S \cup {r}) /\ Cardinality(S \cup {r}) = Cardinality(S) + 1
                    BY <5>1, FS_AddElement
                <5>3. QED
                    BY <4>1, <5>1, <5>2 DEF S
        <3>3. CASE ~Serves(new, a)
            BY <2>1, <2>2, <2>3, <3>1, <3>3
        <3>4. QED
            BY <3>2, <3>3
    <2>6. QED
        BY <2>4, <2>5
<1>8. QED
    BY <1>4, <1>5, <1>6, <1>7 DEF LedgerInv

\* A client's step answers no request "ok".
LEMMA ClientLedger ==
    ASSUME IInv, LedgerInv, NEW r \in Requests, Client(r)
    PROVE  Unanswered(r) /\ req[r].answer # "ok" /\ UNCHANGED <<usage, acct, adminVars>>
<1> DEFINE old == req[r]
<1>1. /\ TypeOK /\ ReqInv(old) /\ old \in Request
      /\ old.cur \in Born \cup {None}
      /\ snapshot \in Snapshot /\ snapshot.members \subseteq Born
    BY DEF IInv, TypeOK, LedgerInv
<1>2. CASE \E k \in Kinds, m \in Models, s \in AccountOrNone : Arrive(r, k, m, s)
    <2>1. PICK k \in Kinds, m \in Models, s \in AccountOrNone : Arrive(r, k, m, s)
        BY <1>2
    <2> DEFINE rec == [old EXCEPT !.kind = k, !.model = m, !.spec = s]
    <2>2. old.answer = "none" /\ UNCHANGED <<usage, acct, adminVars>>
        BY <1>1, <2>1 DEF Arrive, ReqInv, dbVars
    <2>3. /\ rec \in Request /\ rec.answer = "none" /\ rec.cur = old.cur
          /\ rec.pc = "idle"
        BY <1>1, <2>1, <2>2, ModelsAssumption DEF Request, Arrive
    <2>4. Known(rec, snapshot)
        BY <1>1, <2>3 DEF Known
    <2>5. CASE Attempt(r, rec)
        BY <1>1, <2>2, <2>4, <2>5, AttemptLedger
    <2>6. CASE SpeechPrelude(r, rec)
        <3> DEFINE schema == [rec EXCEPT !.pc = "schema"]
        <3>1. /\ schema \in Request /\ schema.pc = "schema"
              /\ schema.answer = "none" /\ schema.cur = rec.cur
            BY <2>3 DEF Request, Phases
        <3>2. snapshot' \in Snapshot /\ snapshot'.members \subseteq Born
            BY <1>1, <2>6, SnapshotKnown DEF SpeechPrelude
        <3>3. CASE req' = [req EXCEPT ![r] = schema]
            BY <2>2, <2>4, <3>1, <3>2, <3>3 DEF Known, Unanswered, Becomes
        <3>4. CASE req' = [req EXCEPT ![r] = Answered(rec, "no_accounts")]
            BY <2>2, <2>4, <3>2, <3>4, FinishLedger DEF Answers
        <3>5. QED
            BY <2>6, <3>3, <3>4 DEF SpeechPrelude
    <2>7. QED
        BY <2>1, <2>5, <2>6 DEF Arrive
<1>3. CASE \E k \in Kinds : Reject(r, k)
    <2>1. PICK k \in Kinds : Reject(r, k)
        BY <1>3
    <2> DEFINE rec == [old EXCEPT !.kind = k]
    <2>2. old.answer = "none" /\ UNCHANGED <<usage, acct, adminVars>>
        BY <1>1, <2>1 DEF Reject, ReqInv, dbVars
    <2>3. Known(rec, snapshot)
        BY <1>1, <2>1, <2>2, ModelsAssumption DEF Known, Request
    <2>4. /\ req' = [req EXCEPT ![r] = Answered(rec, "bad_request")]
          /\ snapshot' = snapshot
        BY <2>1 DEF Reject, Finish
    <2>5. QED
        BY <1>1, <2>2, <2>3, <2>4, FinishLedger DEF Answers
<1>4. CASE ClientGone(r)
    <2> DEFINE new == [old EXCEPT !.gone = TRUE]
    <2>1. /\ old.kind = "stream" /\ old.answer = "none"
          /\ req' = [req EXCEPT ![r] = new] /\ snapshot' = snapshot
          /\ UNCHANGED <<usage, acct, adminVars>>
        BY <1>1, <1>4 DEF ClientGone, Finish, ReqInv, dbVars
    <2>2. /\ new \in Request /\ new.kind = old.kind /\ new.cur = old.cur
          /\ new.answer = old.answer
        BY <1>1 DEF Request
    <2>3. QED
        BY <1>1, <2>1, <2>2 DEF Unanswered, Becomes
<1>5. QED
    BY <1>2, <1>3, <1>4 DEF Client

\* What a step that is not a request's does to the row of an account.
Kept(a) ==
    \/ usage'[a] = usage[a] /\ acct'[a].row = acct[a].row
    \/ usage'[a] = usage[a] /\ acct[a].row = "unborn"
    \/ acct'[a].row = "deleted"

\* A step that keeps or deletes rows, adds new ones, or starts what replaces
\* the count, keeps the ledger.
LEMMA KeptLedger ==
    ASSUME LedgerInv, TypeOK, TypeOK', req' = req,
           \A a \in Accounts : acct[a].row # "unborn" => acct'[a].row # "unborn",
           snapshot'.members \subseteq Born \cup Born',
           syncs' = 0 => syncs = 0 /\ syncing' = {},
           syncs' = 0 /\ day' = 0 => day = 0 /\ \A a \in Accounts : Kept(a)
    PROVE  LedgerInv'
<1>1. Born \subseteq Born'
    BY DEF Born
<1>2. \A q \in Requests : /\ req'[q].cur \in Born' \cup {None}
                          /\ req'[q].pc = "streaming" => req'[q].kind = "stream"
    BY <1>1 DEF LedgerInv
<1>3. ASSUME syncs' = 0, day' = 0, NEW a \in Accounts
      PROVE  /\ acct'[a].row = "unborn" => usage'[a] = 0
             /\ RowExists(a)' => /\ IsFiniteSet(Served(a)')
                                 /\ usage'[a] = Cardinality(Served(a)')
    <2>1. /\ acct[a].row = "unborn" => usage[a] = 0
          /\ RowExists(a) => /\ IsFiniteSet(Served(a))
                             /\ usage[a] = Cardinality(Served(a))
        BY <1>3 DEF LedgerInv
    <2>2. Kept(a) /\ Served(a)' = Served(a)
        BY <1>3 DEF Served, Serves
    <2>3. CASE usage'[a] = usage[a] /\ acct'[a].row = acct[a].row
        BY <2>1, <2>2, <2>3 DEF RowExists
    <2>4. CASE usage'[a] = usage[a] /\ acct[a].row = "unborn"
        <3>1. a \notin Born \cup {None}
            BY <2>4, AccountsAssumption DEF Born
        <3>2. Served(a) = {}
            BY <3>1 DEF Served, Serves, LedgerInv
        <3>3. QED
            BY <2>1, <2>2, <2>4, <3>2, FS_EmptySet
    <2>5. CASE acct'[a].row = "deleted"
        BY <2>5 DEF RowExists
    <2>6. QED
        BY <2>2, <2>3, <2>4, <2>5 DEF Kept
<1>4. QED
    BY <1>1, <1>2, <1>3 DEF LedgerInv

\* Synchronisation, edits, cache expiry and midnight keep the ledger.
LEMMA BackgroundLedger ==
    ASSUME TypeOK, LedgerInv, Environment \/ \E a \in Accounts : Admin(a)
    PROVE  LedgerInv'
<1>1. TypeOK' /\ req' = req
    BY BackgroundType
<1>2. EmptySnapshot.members = {}
    BY DEF EmptySnapshot
<1>3. snapshot \in Snapshot /\ snapshot.members \subseteq Born
    BY DEF TypeOK, LedgerInv
<1>4. syncs \in Nat /\ day \in Nat /\ (syncs = 0 => syncing = {})
    BY DEF TypeOK, LedgerInv
<1>5. ASSUME Environment PROVE LedgerInv'
    <2>1. acct' = acct
        BY <1>5 DEF Environment, ListModels, SyncStart, SyncReply, ClearCache,
                    DayChange, dbVars
    <2>2. snapshot' \in {snapshot, EmptySnapshot, AiAccountSnapshot(snapshot, exhausted)}
        BY <1>5 DEF Environment, ListModels, SyncStart, SyncReply, ClearCache,
                    DayChange, cacheVars
    <2>3. snapshot'.members \subseteq Born
        BY <1>2, <1>3, <2>2, SnapshotKnown
    <2>4. CASE UNCHANGED <<usage, syncs, syncing, day>>
        BY <1>1, <1>4, <2>1, <2>3, <2>4, KeptLedger DEF Kept
    <2>5. CASE SyncStart
        <3>1. syncs' # 0
            BY <1>4, <2>5 DEF SyncStart
        <3>2. QED
            BY <1>1, <2>1, <2>3, <3>1, KeptLedger
    <2>6. CASE \E a \in Accounts, n \in 0..MaxReport : SyncReply(a, n)
        <3>1. syncs' = syncs /\ syncing # {}
            BY <2>6 DEF SyncReply
        <3>2. QED
            BY <1>1, <1>4, <2>1, <2>3, <3>1, KeptLedger
    <2>7. CASE DayChange
        <3>1. day' # 0 /\ syncs' = syncs /\ syncing' = syncing
            BY <1>4, <2>7 DEF DayChange
        <3>2. QED
            BY <1>1, <1>4, <2>1, <2>3, <3>1, KeptLedger
    <2>8. QED
        BY <1>5, <2>4, <2>5, <2>6, <2>7
        DEF Environment, ListModels, ClearCache, dbVars, adminVars
<1>6. ASSUME NEW a \in Accounts, Admin(a) PROVE LedgerInv'
    <2>1. /\ UNCHANGED <<syncs, syncing, day>>
          /\ snapshot' \in {snapshot, EmptySnapshot}
        BY <1>6 DEF Admin, AddAccount, FinishAdd, SaveAccount, FinishSave,
                    StoreProbe, SetFeatures, DeleteAccount, ClearExhausted, cacheVars
    <2>2. snapshot'.members \subseteq Born
        BY <1>2, <1>3, <2>1
    <2>3. acct \in [Accounts -> AccountRow] /\ usage \in [Accounts -> Nat]
        BY DEF TypeOK
    <2>4. CASE \E paid \in BOOLEAN : AddAccount(a, paid)
        <3>1. /\ acct[a].row = "unborn" /\ usage' = usage
              /\ \A b \in Accounts : b # a => acct'[b] = acct[b]
              /\ acct'[a].row = "live"
            BY <2>3, <2>4 DEF AddAccount, AccountRow
        <3>2. QED
            BY <1>1, <1>4, <2>1, <2>2, <3>1, KeptLedger DEF Kept
    <2>5. CASE \E batch \in BOOLEAN : DeleteAccount(a, batch)
        <3>1. /\ acct'[a].row = "deleted"
              /\ \A b \in Accounts : b # a => acct'[b] = acct[b] /\ usage'[b] = usage[b]
            BY <2>3, <2>5 DEF DeleteAccount, AccountRow
        <3>2. QED
            BY <1>1, <1>4, <2>1, <2>2, <3>1, KeptLedger DEF Kept
    <2>6. CASE usage' = usage /\ \A b \in Accounts : acct'[b].row = acct[b].row
        BY <1>1, <1>4, <2>1, <2>2, <2>6, KeptLedger DEF Kept
    <2>7. CASE \E paid \in BOOLEAN : \/ FinishAdd(a, paid) \/ SaveAccount(a, paid)
                                     \/ StoreProbe(a, paid) \/ SetFeatures(a, paid)
        BY <2>3, <2>6, <2>7
        DEF FinishAdd, SaveAccount, StoreProbe, SetFeatures, AccountRow
    <2>8. CASE ClearExhausted(a) \/ \E probes \in BOOLEAN : FinishSave(a, probes)
        BY <2>6, <2>8 DEF ClearExhausted, FinishSave, dbVars
    <2>9. QED
        BY <1>6, <2>4, <2>5, <2>7, <2>8 DEF Admin
<1>7. QED
    BY <1>5, <1>6

\* The ledger balances in every reachable state.
THEOREM LedgerBalances == Spec => []LedgerInv
<1>1. Init => LedgerInv
    <2> SUFFICES ASSUME Init PROVE LedgerInv
        OBVIOUS
    <2>1. \A r \in Requests : req[r] = NewRequest /\ req[r].answer = "none"
        BY DEF Init, NewRequest
    <2>2. \A a \in Accounts : Served(a) = {}
        BY <2>1 DEF Served, Serves
    <2>3. snapshot.members = {} /\ \A a \in Accounts : usage[a] = 0
        BY DEF Init, EmptySnapshot
    <2>4. QED
        BY <2>1, <2>2, <2>3, FS_EmptySet DEF Init, LedgerInv, NewRequest
<1>2. IInv /\ LedgerInv /\ [Next]_vars => LedgerInv'
    <2> SUFFICES ASSUME IInv, LedgerInv, [Next]_vars PROVE LedgerInv'
        OBVIOUS
    <2>1. CASE UNCHANGED vars
        BY <2>1 DEF vars, LedgerInv, Born, Served, Serves, RowExists
    <2>2. ASSUME NEW r \in Requests, Handle(r) PROVE LedgerInv'
        <3>1. /\ req[r].pc # "done" /\ UNCHANGED <<acct, adminVars>>
            BY <2>2, HandleStep
        <3>2. req[r].answer # "ok"
            BY <3>1 DEF IInv, ReqInv
        <3>3. QED
            BY <2>2, <3>1, <3>2, HandleLedger, RequestLedger
    <2>3. ASSUME NEW r \in Requests, Client(r) PROVE LedgerInv'
        BY <2>3, ClientLedger, RequestLedger
    <2>4. ASSUME Environment \/ \E a \in Accounts : Admin(a) PROVE LedgerInv'
        BY <2>4, BackgroundLedger DEF IInv
    <2>5. QED
        BY <2>1, <2>2, <2>3, <2>4 DEF Next
<1>3. QED
    BY <1>1, <1>2, Invariance, PTL DEF Spec

\* Until Cloudflare's figures or a new day replace it, the count of an
\* existing account is the number of requests it answered, whatever the
\* interleaving of handlers, deletions, edits and cache expiries.
THEOREM CompletionsCorrect == Spec => []CompletionsAccounted
<1>1. LedgerInv => CompletionsAccounted
    BY DEF LedgerInv, CompletionsAccounted, Served, Serves
<1>2. QED
    BY <1>1, LedgerBalances, PTL
=============================================================================
