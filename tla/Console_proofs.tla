--------------------------- MODULE Console_proofs ---------------------------
(***************************************************************************)
(* What TLAPS proves of the console, for any number of accounts,           *)
(* containers, domains, tunnels, targets, rows and requests in flight.     *)
(*                                                                         *)
(* Each page has an invariant of its own.  Beside the types it says of     *)
(* every pane that it shows what is selected, was overtaken, or waits for  *)
(* a request that is in flight and is about the selection; of every flag   *)
(* that a request in flight will take it down; and of every form and every *)
(* request where its values were read.  A request that is answered may be  *)
(* the one something waits for: then its own answer is what is shown.  The *)
(* console's invariant is the conjunction, for only one page moves.        *)
(***************************************************************************)
EXTENDS ConsoleProps, FiniteSetTheorems, SequenceTheorems, TLAPS

-----------------------------------------------------------------------------
(***************************************************************************)
(* Requests in flight: sequences of which the order does not matter        *)
(***************************************************************************)

\* A request that was sent is in flight with the others.
LEMMA Appended ==
  ASSUME NEW S, NEW s \in Seq(S), NEW e \in S
  PROVE  /\ Append(s, e) \in Seq(S)
         /\ Range(Append(s, e)) = Range(s) \cup {e}
<1>1. /\ Append(s, e) \in Seq(S) /\ Len(Append(s, e)) = Len(s) + 1
      /\ DOMAIN Append(s, e) = 1..(Len(s) + 1) /\ DOMAIN s = 1..Len(s) /\ Len(s) \in Nat
      /\ Append(s, e)[Len(s) + 1] = e /\ \A k \in 1..Len(s) : Append(s, e)[k] = s[k]
  OBVIOUS
<1>2. QED
  BY <1>1 DEF Range

\* The requests sent together.
LEMMA Joined ==
  ASSUME NEW S, NEW s \in Seq(S), NEW t \in Seq(S)
  PROVE  /\ s \o t \in Seq(S)
         /\ Range(s \o t) = Range(s) \cup Range(t)
<1>1. /\ s \o t \in Seq(S) /\ Len(s \o t) = Len(s) + Len(t) /\ Len(s) \in Nat /\ Len(t) \in Nat
      /\ DOMAIN (s \o t) = 1..(Len(s) + Len(t)) /\ DOMAIN s = 1..Len(s) /\ DOMAIN t = 1..Len(t)
      /\ \A k \in 1..(Len(s) + Len(t)) : (s \o t)[k] = IF k <= Len(s) THEN s[k] ELSE t[k - Len(s)]
  OBVIOUS
<1>2. ASSUME NEW k \in 1..Len(t) PROVE (s \o t)[k + Len(s)] = t[k] /\ k + Len(s) \in DOMAIN (s \o t)
  BY <1>1
<1>3. ASSUME NEW k \in 1..(Len(s) + Len(t))
      PROVE  (s \o t)[k] \in {s[x] : x \in 1..Len(s)} \cup {t[x] : x \in 1..Len(t)}
  <2>1. CASE k <= Len(s)
    BY <1>1, <2>1
  <2>2. CASE k > Len(s)
    <3>1. k - Len(s) \in 1..Len(t) /\ (s \o t)[k] = t[k - Len(s)]
      BY <1>1, <2>2
    <3>2. QED
      BY <3>1
  <2>3. QED
    BY <1>1, <2>1, <2>2
<1>4. \A k \in 1..Len(s) : k \in DOMAIN (s \o t) /\ (s \o t)[k] = s[k]
  BY <1>1
<1>5. DOMAIN s = 1..Len(s) /\ DOMAIN t = 1..Len(t)
  BY <1>1
<1>8. Range(s) \subseteq Range(s \o t)
  BY <1>4, <1>5 DEF Range
<1>9. Range(t) \subseteq Range(s \o t)
  BY <1>2, <1>5 DEF Range
<1>6. Range(s \o t) \subseteq Range(s) \cup Range(t)
  BY <1>1, <1>3 DEF Range
<1>7. QED
  BY <1>1, <1>6, <1>8, <1>9

LEMMA HowMany ==
  ASSUME NEW n \in Nat, NEW i \in 1..n
  PROVE  (IF i + 1 <= n THEN n - (i + 1) + 1 ELSE 0) = n - i
OBVIOUS

\* The request that was answered is gone; the others are still there.
LEMMA Removed ==
  ASSUME NEW S, NEW s \in Seq(S), NEW i \in 1..Len(s)
  PROVE  /\ RemoveAt(s, i) \in Seq(S)
         /\ s[i] \in S /\ s[i] \in Range(s)
         /\ Range(RemoveAt(s, i)) \subseteq Range(s)
         /\ \A f \in Range(s) : f = s[i] \/ f \in Range(RemoveAt(s, i))
<1> DEFINE a == SubSeq(s, 1, i - 1)
           b == SubSeq(s, i + 1, Len(s))
<1>1. Len(s) \in Nat /\ DOMAIN s = 1..Len(s) /\ i \in 1..Len(s)
  OBVIOUS
<1>2. /\ a \in Seq(S) /\ Len(a) = i - 1 /\ \A k \in 1..(i - 1) : a[k] = s[k]
  <2>1. 1 \in Int /\ i - 1 \in Int /\ \A k \in 1..(i - 1) : s[k] \in S
    BY <1>1
  <2>2. /\ SubSeq(s, 1, i - 1) \in Seq(S)
        /\ Len(SubSeq(s, 1, i - 1)) = IF 1 <= i - 1 THEN i - 1 - 1 + 1 ELSE 0
        /\ \A k \in 1..(i - 1 - 1 + 1) : SubSeq(s, 1, i - 1)[k] = s[1 + k - 1]
    BY <2>1, SubSeqProperties
  <2>3. QED
    BY <1>1, <2>2
<1>3. /\ b \in Seq(S) /\ Len(b) = Len(s) - i /\ \A k \in 1..(Len(s) - i) : b[k] = s[k + i]
  <2>1. i + 1 \in Int /\ Len(s) \in Int /\ \A k \in (i + 1)..Len(s) : s[k] \in S
    BY <1>1
  <2>2. /\ SubSeq(s, i + 1, Len(s)) \in Seq(S)
        /\ Len(SubSeq(s, i + 1, Len(s))) = IF i + 1 <= Len(s) THEN Len(s) - (i + 1) + 1 ELSE 0
        /\ \A k \in 1..(Len(s) - (i + 1) + 1) : SubSeq(s, i + 1, Len(s))[k] = s[i + 1 + k - 1]
    BY <2>1, SubSeqProperties
  <2>3. Len(b) = Len(s) - i
    <3>1. (IF i + 1 <= Len(s) THEN Len(s) - (i + 1) + 1 ELSE 0) = Len(s) - i
      BY <1>1, HowMany
    <3>2. QED
      BY <2>2, <3>1
  <2>4. ASSUME NEW k \in 1..(Len(s) - i) PROVE b[k] = s[k + i]
    <3>1. k \in 1..(Len(s) - (i + 1) + 1) /\ i + 1 + k - 1 = k + i
      BY <1>1
    <3>2. QED
      BY <2>2, <3>1
  <2>5. QED
    BY <2>2, <2>3, <2>4
<1> HIDE DEF a, b
<1>9. DOMAIN a = 1..(i - 1) /\ DOMAIN b = 1..(Len(s) - i)
  BY <1>2, <1>3
<1>4. RemoveAt(s, i) = a \o b
  BY DEF RemoveAt, a, b
<1>5. RemoveAt(s, i) \in Seq(S) /\ Range(RemoveAt(s, i)) = Range(a) \cup Range(b)
  BY <1>2, <1>3, <1>4, Joined
<1>6. ASSUME NEW k \in 1..Len(s), k # i PROVE s[k] \in Range(a) \cup Range(b)
  <2>1. CASE k < i
    BY <1>1, <1>2, <1>9, <2>1 DEF Range
  <2>2. CASE k > i
    <3>1. k - i \in 1..(Len(s) - i) /\ b[k - i] = s[k]
      BY <1>1, <1>3, <2>2
    <3>2. QED
      BY <1>9, <3>1 DEF Range
  <2>3. QED
    BY <1>1, <1>6, <2>1, <2>2
<1>7. \A k \in 1..(i - 1) : k \in DOMAIN s /\ a[k] = s[k]
  BY <1>1, <1>2
<1>8. \A k \in 1..(Len(s) - i) : k + i \in DOMAIN s /\ b[k] = s[k + i]
  BY <1>1, <1>3
<1>10. Range(a) \subseteq Range(s) /\ Range(b) \subseteq Range(s)
  BY <1>7, <1>8, <1>9 DEF Range
<1>11. s[i] \in S /\ s[i] \in Range(s)
  BY <1>1 DEF Range
<1>12. \A f \in Range(s) : f = s[i] \/ f \in Range(a) \cup Range(b)
  BY <1>1, <1>6 DEF Range
<1>13. QED
  BY <1>5, <1>10, <1>11, <1>12

\* The answer to request i is taken, and rs are sent in its place.
LEMMA Answered ==
  ASSUME NEW S, NEW s \in Seq(S), NEW i \in 1..Len(s), NEW rs \in Seq(S), NEW t, t = RemoveAt(s, i) \o rs
  PROVE  /\ t \in Seq(S)
         /\ s[i] \in S /\ s[i] \in Range(s)
         /\ Range(t) \subseteq Range(s) \cup Range(rs)
         /\ Range(rs) \subseteq Range(t)
         /\ \A f \in Range(s) : f = s[i] \/ f \in Range(t)
BY Removed, Joined

LEMMA FewInFlight ==
  /\ Range(<<>>) = {}
  /\ \A e : Range(<<e>>) = {e}
  /\ \A d, e : Range(<<d, e>>) = {d, e}
  /\ \A S : <<>> \in Seq(S)
  /\ \A S : \A e \in S : <<e>> \in Seq(S)
  /\ \A S : \A d, e \in S : <<d, e>> \in Seq(S)
<1>1. DOMAIN <<>> = {}
  OBVIOUS
<1>2. \A e : DOMAIN <<e>> = {1} /\ <<e>>[1] = e
  OBVIOUS
<1>3. \A d, e : DOMAIN <<d, e>> = {1, 2} /\ <<d, e>>[1] = d /\ <<d, e>>[2] = e
  OBVIOUS
<1>4. QED
  BY <1>1, <1>2, <1>3 DEF Range

\* Every member of a sequence is of its type.
LEMMA RangeTyped ==
  ASSUME NEW S, NEW s \in Seq(S)
  PROVE  Range(s) \subseteq S
BY DEF Range
-----------------------------------------------------------------------------
(***************************************************************************)
(* The tab of rules                                                        *)
(***************************************************************************)
Clauses == {"host", "otherHost", "prefix", "pattern", "else"}
Matches == {"hostname", "pathPrefix", "pathRegex", "hostAndPath", "custom"}

RuleRequest ==
  [kind : {"load", "submit", "delete"}, to : Targets, from : Targets \cup {NoTarget},
   read : SUBSET Clauses, expr : SUBSET Clauses, astray : BOOLEAN]

RuleForm ==
  [open : BOOLEAN, from : Targets \cup {NoTarget}, read : SUBSET Clauses, match : Matches,
   text : SUBSET Clauses, astray : BOOLEAN]

RulesTyped ==
  /\ target \in Targets \cup {NoTarget}
  /\ rows \subseteq [of : Targets, expr : SUBSET Clauses]
  /\ loadingRules \in BOOLEAN /\ rowsAstray \in BOOLEAN
  /\ ruleForm \in RuleForm
  /\ stored \in [Targets -> SUBSET SUBSET Clauses]
  /\ ruleFlights \in Seq(RuleRequest)
  /\ ruleForm.open \/ Range(ruleFlights) # {} => target \in Targets

\* The rules shown are those of the selected target, or these are on their way.
RulesShown ==
  \/ rowsAstray
  \/ \A r \in rows : r.of = target
  \/ \E f \in Range(ruleFlights) : f.kind = "load" /\ f.to = target

\* A form, like a request that was sent, names the target it was read from.
RulesPaired ==
  /\ ruleForm.open => ruleForm.from \in {target, NoTarget} \/ ruleForm.astray
  /\ \A f \in Range(ruleFlights) : f.from \in {f.to, NoTarget} \/ f.astray

RulesSpin == loadingRules => \E f \in Range(ruleFlights) : f.kind = "load"

RulesInv == RulesTyped /\ RulesShown /\ RulesPaired /\ RulesSpin

LEMMA RuleExpressions ==
  /\ \A e \in SUBSET Clauses : MatchType(e) \in Matches
  /\ \A x \in RuleForm : Expression(x) \in SUBSET Clauses
<1>1. ASSUME NEW e \in SUBSET Clauses PROVE MatchType(e) \in Matches
  BY DEF MatchType, Matches
<1>2. ASSUME NEW x \in RuleForm PROVE Expression(x) \in SUBSET Clauses
  BY DEF Expression, RuleForm, Matches, Clauses
<1>3. QED
  BY <1>1, <1>2

LEMMA RulesStart == ASSUME RulesInit PROVE RulesInv
<1>1. Range(ruleFlights) = {} /\ ruleFlights \in Seq(RuleRequest)
  BY FewInFlight DEF RulesInit
<1>2. stored \in [Targets -> SUBSET SUBSET Clauses]
  <2>1. \A e \in Expressions : {e} \in SUBSET SUBSET Clauses
    BY RulesAssumption DEF Clauses
  <2>2. {{}} \cup {{e} : e \in Expressions} \subseteq SUBSET SUBSET Clauses
    BY <2>1
  <2>3. QED
    BY <2>2 DEF RulesInit
<1>3. QED
  BY <1>1, <1>2 DEF RulesInit, RulesInv, RulesTyped, RulesShown, RulesPaired, RulesSpin, NoForm, RuleForm, Matches

\* A rule request is sent.
LEMMA RuleSent ==
  ASSUME RulesInv, NEW f \in RuleRequest, SendRule(f)
  PROVE  ruleFlights' \in Seq(RuleRequest) /\ Range(ruleFlights') = Range(ruleFlights) \cup {f}
BY Appended DEF SendRule, RulesInv, RulesTyped

LEMMA RuleSettled ==
  ASSUME RulesInv, NEW i \in 1..Len(ruleFlights), NEW fs \in Seq(RuleRequest), SettleRule(i, fs)
  PROVE  /\ ruleFlights' \in Seq(RuleRequest)
         /\ ruleFlights[i] \in RuleRequest /\ ruleFlights[i] \in Range(ruleFlights)
         /\ Range(ruleFlights') \subseteq Range(ruleFlights) \cup Range(fs)
         /\ Range(fs) \subseteq Range(ruleFlights')
         /\ \A f \in Range(ruleFlights) : f = ruleFlights[i] \/ f \in Range(ruleFlights')
BY Answered DEF SettleRule, RulesInv, RulesTyped

LEMMA RulesSelect ==
  ASSUME RulesInv, NEW g \in Targets, SelectTarget(g)
  PROVE  RulesInv'
<1> DEFINE f == [LoadRules EXCEPT !.to = g]
<1>1. f \in RuleRequest /\ f.kind = "load" /\ f.to = g /\ f.from = NoTarget
  BY DEF LoadRules, RuleReq, RuleRequest
<1>2. ruleFlights' \in Seq(RuleRequest) /\ Range(ruleFlights') = Range(ruleFlights) \cup {f}
  BY <1>1, RuleSent DEF SelectTarget
<1> HIDE DEF f
<1>3. QED
  BY <1>1, <1>2 DEF SelectTarget, RulesInv, RulesTyped, RulesShown, RulesPaired, RulesSpin

LEMMA RulesForms ==
  ASSUME RulesInv, OpenAddRule \/ OpenEditRule \/ CloseRule
  PROVE  RulesInv'
<1>1. CASE OpenAddRule
  <2>1. PICK e \in Expressions, match \in {"custom", "structured"} :
          ruleForm' = [NoForm EXCEPT !.open = TRUE, !.match = IF match = "custom" THEN match ELSE MatchType(e), !.text = e]
    BY <1>1 DEF OpenAddRule
  <2>2. e \in SUBSET Clauses
    BY RulesAssumption DEF Clauses
  <2>3. ruleForm' \in RuleForm /\ ruleForm'.from = NoTarget
    BY <2>1, <2>2, RuleExpressions DEF NoForm, RuleForm, Matches
  <2>4. QED
    BY <1>1, <2>3 DEF OpenAddRule, RulesInv, RulesTyped, RulesShown, RulesPaired, RulesSpin
<1>2. CASE OpenEditRule
  <2>1. PICK row \in rows :
          ruleForm' = [open |-> TRUE, from |-> row.of, read |-> row.expr, match |-> MatchType(row.expr),
                       text |-> row.expr, astray |-> DoubtRows]
    BY <1>2 DEF OpenEditRule
  <2>2. row.of \in Targets /\ row.expr \in SUBSET Clauses /\ DoubtRows \in BOOLEAN
    BY DEF RulesInv, RulesTyped, DoubtRows
  <2>3. ruleForm' \in RuleForm /\ ruleForm'.from = row.of /\ ruleForm'.astray = DoubtRows
    BY <2>1, <2>2, RuleExpressions DEF RuleForm
  <2>4. row.of = target \/ DoubtRows
    BY DEF RulesInv, RulesShown, DoubtRows
  <2>5. QED
    BY <1>2, <2>3, <2>4 DEF OpenEditRule, RulesInv, RulesTyped, RulesShown, RulesPaired, RulesSpin
<1>3. CASE CloseRule
  BY <1>3 DEF CloseRule, NoForm, RuleForm, Matches, RulesInv, RulesTyped, RulesShown, RulesPaired, RulesSpin
<1>4. QED
  BY <1>1, <1>2, <1>3

LEMMA RulesSubmit ==
  ASSUME RulesInv, SubmitRule \/ DeleteRule
  PROVE  RulesInv'
<1>1. PICK f \in RuleRequest : SendRule(f) /\ (f.from \in {f.to, NoTarget} \/ f.astray)
  <2>1. CASE SubmitRule
    BY <2>1, RuleExpressions
       DEF SubmitRule, RuleReq, RuleRequest, RuleForm, RulesInv, RulesTyped, RulesPaired
  <2>2. CASE DeleteRule
    <3>1. PICK row \in rows : SendRule(RuleReq("delete", row.of, row.expr, {}, DoubtRows))
      BY <2>2 DEF DeleteRule
    <3>2. row.of \in Targets /\ row.expr \in SUBSET Clauses /\ DoubtRows \in BOOLEAN /\ target \in Targets
      BY <2>2 DEF RulesInv, RulesTyped, DoubtRows, DeleteRule
    <3>3. row.of = target \/ DoubtRows
      BY DEF RulesInv, RulesShown, DoubtRows
    <3>4. QED
      BY <3>1, <3>2, <3>3 DEF RuleReq, RuleRequest
  <2>3. QED
    BY <2>1, <2>2
<1>2. ruleFlights' \in Seq(RuleRequest) /\ Range(ruleFlights') = Range(ruleFlights) \cup {f}
  BY <1>1, RuleSent
<1>3. target \in Targets /\ UNCHANGED <<target, rows, loadingRules, ruleForm, stored, rowsAstray>>
  BY DEF SubmitRule, DeleteRule, RulesInv, RulesTyped
<1>4. QED
  BY <1>1, <1>2, <1>3 DEF RulesInv, RulesTyped, RulesShown, RulesPaired, RulesSpin

LEMMA RulesAnswered ==
  ASSUME RulesInv, NEW i \in 1..Len(ruleFlights), RulesViewAnswer(i)
  PROVE  RulesInv'
<1>1. PICK ok \in BOOLEAN : RulesAnswer(i, ok) \/ RuleAnswer(i, ok)
  BY DEF RulesViewAnswer
<1> DEFINE f == ruleFlights[i]
<1>2. f \in RuleRequest /\ f \in Range(ruleFlights) /\ target \in Targets
  BY Removed DEF RulesInv, RulesTyped
<1>3. CASE RulesAnswer(i, ok)
  <2>1. /\ ruleFlights' \in Seq(RuleRequest) /\ Range(ruleFlights') \subseteq Range(ruleFlights)
        /\ \A e \in Range(ruleFlights) : e = f \/ e \in Range(ruleFlights')
    BY <1>3, RuleSettled, FewInFlight DEF RulesAnswer
  <2>2. rows' \subseteq [of : Targets, expr : SUBSET Clauses] /\ \A r \in rows' : r.of = f.to
    BY <1>2, <1>3 DEF RulesAnswer, RuleRequest, RulesInv, RulesTyped
  <2> HIDE DEF f
  <2>3. QED
    BY <1>2, <1>3, <2>1, <2>2 DEF RulesAnswer, RulesInv, RulesTyped, RulesShown, RulesPaired, RulesSpin, f
<1>4. CASE RuleAnswer(i, ok)
  <2> DEFINE done == ok /\ f.from \in {NoTarget, f.to}
             fs == IF done THEN <<LoadRules>> ELSE <<>>
  <2>1. LoadRules \in RuleRequest /\ LoadRules.kind = "load" /\ LoadRules.to = target /\ LoadRules.from = NoTarget
    BY <1>2 DEF LoadRules, RuleReq, RuleRequest
  <2>2. fs \in Seq(RuleRequest) /\ Range(fs) = IF done THEN {LoadRules} ELSE {}
    BY <2>1, FewInFlight
  <2>3. SettleRule(i, fs)
    BY <1>4 DEF RuleAnswer
  <2> HIDE DEF fs
  <2>4. /\ ruleFlights' \in Seq(RuleRequest) /\ Range(ruleFlights') \subseteq Range(ruleFlights) \cup Range(fs)
        /\ Range(fs) \subseteq Range(ruleFlights')
        /\ \A e \in Range(ruleFlights) : e = f \/ e \in Range(ruleFlights')
    BY <2>2, <2>3, RuleSettled
  <2>5. stored' \in [Targets -> SUBSET SUBSET Clauses]
    BY <1>2, <1>4 DEF RuleAnswer, RuleRequest, RulesInv, RulesTyped
  <2>6. ruleForm' \in {ruleForm, NoForm} /\ NoForm \in RuleForm /\ ~NoForm.open
    BY <1>4 DEF RuleAnswer, NoForm, RuleForm, Matches
  <2>7. UNCHANGED <<target, rows, rowsAstray>> /\ loadingRules' = (done \/ loadingRules) /\ f.kind # "load"
    BY <1>4 DEF RuleAnswer
  <2> HIDE DEF f, done
  <2>8. RulesTyped'
    BY <1>2, <2>4, <2>5, <2>6, <2>7 DEF RulesInv, RulesTyped
  <2>9. RulesShown'
    BY <2>4, <2>7 DEF RulesInv, RulesShown
  <2>10. RulesPaired'
    BY <2>1, <2>2, <2>4, <2>6, <2>7 DEF RulesInv, RulesPaired
  <2>11. RulesSpin'
    BY <2>1, <2>2, <2>4, <2>7 DEF RulesInv, RulesSpin
  <2>12. QED
    BY <2>8, <2>9, <2>10, <2>11 DEF RulesInv
<1>5. QED
  BY <1>1, <1>3, <1>4

LEMMA RulesStep ==
  ASSUME RulesInv, RulesNext \/ UNCHANGED rulesVars
  PROVE  RulesInv'
<1>1. CASE UNCHANGED rulesVars
  BY <1>1 DEF rulesVars, RulesInv, RulesTyped, RulesShown, RulesPaired, RulesSpin
<1>2. QED
  BY <1>1, RulesSelect, RulesForms, RulesSubmit, RulesAnswered DEF RulesNext
-----------------------------------------------------------------------------
(***************************************************************************)
(* The DNS page                                                            *)
(***************************************************************************)
DnsKinds == {"domains", "records", "settings", "orphan", "submit", "delete", "proxy", "save", "command", "domains-change"}
DnsTabs == {"records", "settings", "cache"}

DnsRequest ==
  [kind : DnsKinds, domain : Domains \cup {NoDomain}, from : Domains \cup {NoDomain, Defaults},
   tab : DnsTabs, astray : BOOLEAN]

RecordForm == [open : BOOLEAN, from : Domains \cup {NoDomain}, astray : BOOLEAN]

DnsTyped ==
  /\ DnsTypeOK
  /\ recordForm \in RecordForm
  /\ dnsFlights \in Seq(DnsRequest)

DnsShown ==
  \/ "records" \in dnsAstray
  \/ \A d \in records : d = currentDomain
  \/ \E f \in Range(dnsFlights) : f.kind = "records" /\ f.domain = currentDomain

\* What the record dialog and, on the settings tab, the form of settings were read from.
DnsForms ==
  /\ recordForm.open => recordForm.from \in {currentDomain, NoDomain} \/ recordForm.astray
  /\ dnsTab = "settings" =>
       \/ zoneForm \in {currentDomain, NoDomain, Defaults}
       \/ "settings" \in dnsAstray
       \/ \E f \in Range(dnsFlights) : f.kind = "settings"

Paired(f) == f.tab # "cache" => f.from \in {f.domain, NoDomain, Defaults} \/ f.astray

DnsPaired == \A f \in Range(dnsFlights) : Paired(f)

DnsSpin ==
  /\ loading => \E f \in Range(dnsFlights) : f.kind \in {"domains", "records"}
  /\ settingsLoading => \E f \in Range(dnsFlights) : f.kind \in {"settings", "orphan"}

DnsInv == DnsTyped /\ DnsShown /\ DnsForms /\ DnsPaired /\ DnsSpin

LEMMA DnsStart == ASSUME DnsInit PROVE DnsInv
<1> DEFINE f == [kind |-> "domains", domain |-> NoDomain, from |-> NoDomain, tab |-> "records", astray |-> FALSE]
<1>1. f \in DnsRequest /\ f.kind = "domains" /\ f.from = NoDomain
  BY DEF DnsRequest, DnsKinds, DnsTabs
<1>2. dnsFlights = <<f>>
  BY DEF DnsInit
<1> HIDE DEF f
<1>3. dnsFlights \in Seq(DnsRequest) /\ Range(dnsFlights) = {f}
  BY <1>1, <1>2, FewInFlight
<1>4. /\ listed = {} /\ currentDomain = NoDomain /\ records = {} /\ loading = TRUE
      /\ zoneSettings = NoDomain /\ settingsLoading = FALSE /\ dnsTab = "records" /\ zoneForm = NoDomain
      /\ recordForm = [open |-> FALSE, from |-> NoDomain, astray |-> FALSE] /\ dnsAstray = {}
  BY DEF DnsInit, FreshPage
<1>5. QED
  BY <1>1, <1>3, <1>4 DEF DnsInv, DnsTyped, DnsTypeOK, RecordForm, DnsShown, DnsForms, DnsPaired, Paired, DnsSpin

\* Requests as the handlers make them.
LEMMA DnsCalls ==
  ASSUME DnsInv, NEW kind \in DnsKinds, NEW from \in Domains \cup {NoDomain, Defaults}, NEW b \in BOOLEAN
  PROVE  /\ Write(kind, from, b) \in DnsRequest /\ Write(kind, from, b).kind = kind
         /\ Write(kind, from, b).domain = currentDomain /\ Write(kind, from, b).from = from
         /\ Write(kind, from, b).astray = b
         /\ Write(kind, from, b).tab = IF kind = "save" THEN dnsTab ELSE "records"
         /\ Call(kind) \in DnsRequest /\ Call(kind).kind = kind /\ Call(kind).domain = currentDomain
         /\ Call(kind).from = NoDomain
BY DEF Write, Call, DnsRequest, DnsTabs, DnsInv, DnsTyped, DnsTypeOK

LEMMA RecordCalls ==
  ASSUME DnsInv, NEW d \in Domains \cup {NoDomain}
  PROVE  /\ fetchRecords(d) \in DnsRequest /\ fetchRecords(d).kind = "records" /\ fetchRecords(d).domain = d
         /\ fetchRecords(d).from = NoDomain
BY DEF fetchRecords, Write, Call, DnsRequest, DnsTabs, DnsKinds

LEMMA DnsSent ==
  ASSUME DnsInv, NEW f \in DnsRequest, SendDns(f)
  PROVE  dnsFlights' \in Seq(DnsRequest) /\ Range(dnsFlights') = Range(dnsFlights) \cup {f}
BY Appended DEF SendDns, DnsInv, DnsTyped

LEMMA DnsSettled ==
  ASSUME DnsInv, NEW i \in 1..Len(dnsFlights), NEW fs \in Seq(DnsRequest), SettleDns(i, fs)
  PROVE  /\ dnsFlights' \in Seq(DnsRequest)
         /\ Range(dnsFlights') \subseteq Range(dnsFlights) \cup Range(fs)
         /\ Range(fs) \subseteq Range(dnsFlights')
         /\ \A f \in Range(dnsFlights) : f = dnsFlights[i] \/ f \in Range(dnsFlights')
BY Answered DEF SettleDns, DnsInv, DnsTyped

\* The page is opened again: the loads of the settings lose their form.
LEMMA DnsMounted ==
  ASSUME DnsInv, MountDns
  PROVE  DnsInv'
<1> DEFINE s == [i \in DOMAIN dnsFlights |-> Orphaned(dnsFlights[i])]
           c == Call("domains")
<1>1. \A f \in DnsRequest : /\ Orphaned(f) \in DnsRequest /\ Orphaned(f).domain = f.domain /\ Orphaned(f).from = f.from
                            /\ Orphaned(f).tab = f.tab /\ Orphaned(f).astray = f.astray
                            /\ Orphaned(f).kind = IF f.kind = "settings" THEN "orphan" ELSE f.kind
  BY DEF Orphaned, DnsRequest, DnsKinds
<1>2. DOMAIN dnsFlights = 1..Len(dnsFlights) /\ Len(dnsFlights) \in Nat /\ \A i \in DOMAIN dnsFlights : dnsFlights[i] \in DnsRequest
  BY DEF DnsInv, DnsTyped
<1>3. s \in Seq(DnsRequest)
  BY <1>1, <1>2
<1>4. Range(s) = {Orphaned(f) : f \in Range(dnsFlights)}
  BY DEF Range
<1>5. c \in DnsRequest /\ c.kind = "domains" /\ c.from = NoDomain
  BY DnsCalls DEF DnsKinds
<1>6. dnsFlights' = Append(s, c)
  BY DEF MountDns
<1>7. Range(dnsFlights) \subseteq DnsRequest
  BY RangeTyped DEF DnsInv, DnsTyped
<1> HIDE DEF s, c
<1>8. dnsFlights' \in Seq(DnsRequest) /\ Range(dnsFlights') = {Orphaned(f) : f \in Range(dnsFlights)} \cup {c}
  BY <1>3, <1>4, <1>5, <1>6, Appended
<1>9. /\ dnsTab' = "records" /\ zoneForm' = NoDomain /\ recordForm' = [open |-> FALSE, from |-> NoDomain, astray |-> FALSE]
      /\ loading' = TRUE /\ dnsAstray' = dnsAstray \ {"settings"}
      /\ UNCHANGED <<listed, currentDomain, records, zoneSettings, settingsLoading>>
  BY DEF MountDns, FreshPage
<1>10. DnsTyped'
  BY <1>8, <1>9 DEF DnsInv, DnsTyped, DnsTypeOK, RecordForm
<1>11. DnsShown'
  BY <1>1, <1>7, <1>8, <1>9 DEF DnsInv, DnsShown
<1>12. DnsForms'
  BY <1>9 DEF DnsForms
<1>13. DnsPaired'
  BY <1>1, <1>5, <1>7, <1>8 DEF DnsInv, DnsPaired, Paired
<1>14. DnsSpin'
  BY <1>1, <1>5, <1>7, <1>8, <1>9 DEF DnsInv, DnsSpin
<1>15. QED
  BY <1>10, <1>11, <1>12, <1>13, <1>14 DEF DnsInv

\* The domains, records or settings are asked for.
LEMMA DnsLoads ==
  ASSUME DnsInv, \/ RefreshDomains
                 \/ \E d \in Domains : SelectDomain(d)
                 \/ \E t \in DnsTabs : ChangeTab(t)
  PROVE  DnsInv'
<1>1. CASE RefreshDomains
  <2> DEFINE f == Call("domains")
  <2>1. f \in DnsRequest /\ f.kind = "domains" /\ f.from = NoDomain
    BY DnsCalls DEF DnsKinds
  <2>2. dnsFlights' \in Seq(DnsRequest) /\ Range(dnsFlights') = Range(dnsFlights) \cup {f}
    BY <1>1, <2>1, DnsSent DEF RefreshDomains, fetchDomains
  <2> HIDE DEF f
  <2>3. QED
    BY <1>1, <2>1, <2>2 DEF RefreshDomains, fetchDomains, pageVars,
       DnsInv, DnsTyped, DnsTypeOK, DnsShown, DnsForms, DnsPaired, Paired, DnsSpin
<1>2. ASSUME NEW d \in Domains, SelectDomain(d) PROVE DnsInv'
  <2> DEFINE f == fetchRecords(d)
  <2>1. f \in DnsRequest /\ f.kind = "records" /\ f.domain = d /\ f.from = NoDomain
    BY RecordCalls
  <2>2. dnsFlights' \in Seq(DnsRequest) /\ Range(dnsFlights') = Range(dnsFlights) \cup {f}
    BY <1>2, <2>1, DnsSent DEF SelectDomain
  <2> HIDE DEF f
  <2>3. QED
    BY <1>2, <2>1, <2>2 DEF SelectDomain, Modal,
       DnsInv, DnsTyped, DnsTypeOK, DnsShown, DnsForms, DnsPaired, Paired, DnsSpin
<1>3. ASSUME NEW t \in DnsTabs, ChangeTab(t) PROVE DnsInv'
  <2>1. CASE t = "settings"
    <3> DEFINE f == Call("settings")
    <3>1. f \in DnsRequest /\ f.kind = "settings" /\ f.from = NoDomain
      BY DnsCalls DEF DnsKinds
    <3>2. dnsFlights' \in Seq(DnsRequest) /\ Range(dnsFlights') = Range(dnsFlights) \cup {f}
      BY <1>3, <2>1, <3>1, DnsSent DEF ChangeTab
    <3> HIDE DEF f
    <3>3. QED
      BY <1>3, <2>1, <3>1, <3>2 DEF ChangeTab, DnsTabs,
         DnsInv, DnsTyped, DnsTypeOK, DnsShown, DnsForms, DnsPaired, Paired, DnsSpin
  <2>2. CASE t # "settings"
    BY <1>3, <2>2 DEF ChangeTab, DnsTabs,
       DnsInv, DnsTyped, DnsTypeOK, DnsShown, DnsForms, DnsPaired, Paired, DnsSpin
  <2>3. QED
    BY <2>1, <2>2
<1>4. QED
  BY <1>1, <1>2, <1>3

LEMMA DnsDialog ==
  ASSUME DnsInv, OpenRecord \/ CloseRecord
  PROVE  DnsInv'
<1>1. CASE OpenRecord
  <2>1. PICK from \in {NoDomain} \cup records : recordForm' = [open |-> TRUE, from |-> from, astray |-> Doubt("records")]
    BY <1>1 DEF OpenRecord
  <2>2. from \in {currentDomain, NoDomain} \/ Doubt("records")
    BY DEF Doubt, DnsInv, DnsShown
  <2>3. Doubt("records") \in BOOLEAN
    BY DEF Doubt
  <2>4. recordForm' \in RecordForm /\ recordForm'.from = from /\ recordForm'.astray = Doubt("records")
    BY <2>1, <2>3 DEF RecordForm, DnsInv, DnsTyped, DnsTypeOK
  <2>5. QED
    BY <1>1, <2>2, <2>4 DEF OpenRecord, storeVars,
       DnsInv, DnsTyped, DnsTypeOK, DnsShown, DnsForms, DnsPaired, Paired, DnsSpin
<1>2. CASE CloseRecord
  <2>1. recordForm' \in RecordForm /\ ~recordForm'.open
    BY <1>2 DEF CloseRecord, RecordForm, DnsInv, DnsTyped
  <2>2. QED
    BY <1>2, <2>1 DEF CloseRecord, storeVars,
       DnsInv, DnsTyped, DnsTypeOK, DnsShown, DnsForms, DnsPaired, Paired, DnsSpin
<1>3. QED
  BY <1>1, <1>2

\* A change is sent.
LEMMA DnsWrites ==
  ASSUME DnsInv, \/ SubmitRecord \/ SaveSettings \/ ZoneCommand \/ ChangeDomains
                 \/ \E kind \in {"delete", "proxy"} : ChangeRow(kind)
  PROVE  DnsInv'
<1>1. PICK f \in DnsRequest : SendDns(f) /\ Paired(f)
  <2>1. CASE SubmitRecord
    <3> DEFINE f == Write("submit", recordForm.from, recordForm.astray)
    <3>1. /\ f \in DnsRequest /\ f.domain = currentDomain /\ f.from = recordForm.from /\ f.astray = recordForm.astray
      BY DnsCalls DEF DnsKinds, DnsInv, DnsTyped, RecordForm
    <3>2. SendDns(f) /\ recordForm.open
      BY <2>1 DEF SubmitRecord, Modal
    <3> HIDE DEF f
    <3>3. QED
      BY <3>1, <3>2 DEF Paired, DnsInv, DnsForms
  <2>2. CASE SaveSettings
    <3> DEFINE f == Write("save", zoneForm, Doubt("settings"))
    <3>1. Doubt("settings") \in BOOLEAN
      BY DEF Doubt
    <3> DEFINE b == Doubt("settings")
    <3>5. b \in BOOLEAN /\ "save" \in DnsKinds /\ zoneForm \in Domains \cup {NoDomain, Defaults}
      BY <3>1 DEF DnsKinds, DnsInv, DnsTyped, DnsTypeOK
    <3> HIDE DEF b
    <3>6. LET e == Write("save", zoneForm, b)
          IN  e \in DnsRequest /\ e.domain = currentDomain /\ e.from = zoneForm /\ e.astray = b /\ e.tab = dnsTab
      BY <3>5, DnsCalls
    <3>2. /\ f \in DnsRequest /\ f.domain = currentDomain /\ f.from = zoneForm /\ f.astray = Doubt("settings")
          /\ f.tab = dnsTab
      BY <3>6 DEF b
    <3>3. SendDns(f) /\ dnsTab \in {"cache", "settings"}
      BY <2>2 DEF SaveSettings
    <3> HIDE DEF f
    <3>4. QED
      BY <3>2, <3>3 DEF Paired, Doubt, DnsInv, DnsForms
  <2>3. CASE ZoneCommand
    <3> DEFINE f == Call("command")
    <3>1. f \in DnsRequest /\ f.from = NoDomain
      BY DnsCalls DEF DnsKinds
    <3>2. SendDns(f)
      BY <2>3 DEF ZoneCommand
    <3> HIDE DEF f
    <3>3. Paired(f)
      BY <3>1 DEF Paired
    <3>4. QED
      BY <3>1, <3>2, <3>3
  <2>4. CASE ChangeDomains
    <3> DEFINE f == Call("domains-change")
    <3>1. f \in DnsRequest /\ f.from = NoDomain
      BY DnsCalls DEF DnsKinds
    <3>2. SendDns(f)
      BY <2>4 DEF ChangeDomains
    <3> HIDE DEF f
    <3>3. Paired(f)
      BY <3>1 DEF Paired
    <3>4. QED
      BY <3>1, <3>2, <3>3
  <2>5. ASSUME NEW kind \in {"delete", "proxy"}, ChangeRow(kind)
        PROVE  \E f \in DnsRequest : SendDns(f) /\ Paired(f)
    <3>1. PICK from \in records : SendDns(Write(kind, from, Doubt("records")))
      BY <2>5 DEF ChangeRow
    <3>2. Doubt("records") \in BOOLEAN
      BY DEF Doubt
    <3>3. from = currentDomain \/ Doubt("records")
      BY DEF Doubt, DnsInv, DnsShown
    <3> DEFINE f == Write(kind, from, Doubt("records"))
    <3> DEFINE b == Doubt("records")
    <3>6. b \in BOOLEAN /\ kind \in DnsKinds /\ from \in Domains \cup {NoDomain, Defaults}
      BY <3>2 DEF DnsKinds, DnsInv, DnsTyped, DnsTypeOK
    <3> HIDE DEF b
    <3>7. LET e == Write(kind, from, b)
          IN  e \in DnsRequest /\ e.domain = currentDomain /\ e.from = from /\ e.astray = b
      BY <3>6, DnsCalls
    <3>4. /\ f \in DnsRequest /\ f.domain = currentDomain /\ f.from = from /\ f.astray = Doubt("records")
      BY <3>7 DEF b
    <3> HIDE DEF f
    <3>5. QED
      BY <3>1, <3>3, <3>4 DEF Paired, f
  <2>6. QED
    BY <2>1, <2>2, <2>3, <2>4, <2>5
<1>2. dnsFlights' \in Seq(DnsRequest) /\ Range(dnsFlights') = Range(dnsFlights) \cup {f}
  BY <1>1, DnsSent
<1>3. UNCHANGED <<storeVars, pageVars, dnsAstray>>
  BY DEF SubmitRecord, SaveSettings, ZoneCommand, ChangeDomains, ChangeRow
<1>4. QED
  BY <1>1, <1>2, <1>3 DEF storeVars, pageVars,
     DnsInv, DnsTyped, DnsTypeOK, DnsShown, DnsForms, DnsPaired, DnsSpin

LEMMA DnsAnswered ==
  ASSUME DnsInv, NEW i \in 1..Len(dnsFlights), DnsAnswer(i)
  PROVE  DnsInv'
<1> DEFINE f == dnsFlights[i]
<1>1. f \in DnsRequest /\ f \in Range(dnsFlights)
  BY Removed DEF DnsInv, DnsTyped
<1>2. ASSUME SettleDns(i, <<>>)
      PROVE  /\ dnsFlights' \in Seq(DnsRequest) /\ Range(dnsFlights') \subseteq Range(dnsFlights)
             /\ \A e \in Range(dnsFlights) : e = f \/ e \in Range(dnsFlights')
  BY <1>2, DnsSettled, FewInFlight
<1>3. ASSUME NEW e \in DnsRequest, SettleDns(i, <<e>>)
      PROVE  /\ dnsFlights' \in Seq(DnsRequest) /\ Range(dnsFlights') \subseteq Range(dnsFlights) \cup {e}
             /\ e \in Range(dnsFlights')
             /\ \A d \in Range(dnsFlights) : d = f \/ d \in Range(dnsFlights')
  BY <1>3, DnsSettled, FewInFlight
<1>4. PICK ok \in BOOLEAN :
        \/ DomainsAnswer(i, ok) \/ RecordsAnswer(i, ok) \/ SettingsAnswer(i, ok)
        \/ RecordAnswer(i, ok) \/ CommandAnswer(i, ok)
  BY DEF DnsAnswer
<1>5. f.kind \in DnsKinds /\ f.domain \in Domains \cup {NoDomain}
  BY <1>1 DEF DnsRequest
<1>6. CASE DomainsAnswer(i, ok)
  <2>1. SettleDns(i, <<>>) /\ f.kind = "domains"
    BY <1>6 DEF DomainsAnswer
  <2> HIDE DEF f
  <2>2. QED
    BY <1>2, <1>6, <2>1 DEF DomainsAnswer, pageVars,
       DnsInv, DnsTyped, DnsTypeOK, DnsShown, DnsForms, DnsPaired, DnsSpin
<1>7. CASE RecordsAnswer(i, ok)
  <2>1. SettleDns(i, <<>>) /\ f.kind = "records" /\ records' = (IF ok THEN {f.domain} ELSE {})
        /\ dnsAstray' = IF f.domain = currentDomain THEN dnsAstray \ {"records"} ELSE dnsAstray \cup {"records"}
    BY <1>7 DEF RecordsAnswer, Mark
  <2> HIDE DEF f
  <2>2. QED
    BY <1>2, <1>5, <1>7, <2>1 DEF RecordsAnswer, pageVars,
       DnsInv, DnsTyped, DnsTypeOK, DnsShown, DnsForms, DnsPaired, DnsSpin
<1>8. CASE SettingsAnswer(i, ok)
  <2>1. /\ SettleDns(i, <<>>) /\ f.kind \in {"settings", "orphan"} /\ zoneSettings' \in {f.domain, NoDomain}
        /\ settingsLoading' = FALSE
        /\ UNCHANGED <<listed, currentDomain, records, loading, dnsTab, recordForm>>
        /\ f.kind = "settings" =>
             /\ zoneForm' \in {f.domain, Defaults}
             /\ dnsAstray' = IF f.domain = currentDomain THEN dnsAstray \ {"settings"} ELSE dnsAstray \cup {"settings"}
        /\ f.kind = "orphan" => UNCHANGED <<zoneForm, dnsAstray>>
    BY <1>8 DEF SettingsAnswer, Mark
  <2> HIDE DEF f
  <2>2. QED
    BY <1>2, <1>5, <2>1 DEF DnsInv, DnsTyped, DnsTypeOK, DnsShown, DnsForms, DnsPaired, DnsSpin
<1>9. CASE RecordAnswer(i, ok)
  <2> DEFINE e == fetchRecords(currentDomain)
  <2>1. e \in DnsRequest /\ e.kind = "records" /\ e.from = NoDomain /\ e.domain = currentDomain
    BY RecordCalls DEF DnsInv, DnsTyped, DnsTypeOK
  <2>2. /\ f.kind \in {"submit", "delete"} /\ SettleDns(i, IF ok THEN <<e>> ELSE <<>>)
        /\ recordForm' \in {recordForm, FreshPage.record}
        /\ loading' = (IF ok THEN TRUE ELSE loading)
        /\ UNCHANGED <<listed, currentDomain, records, zoneSettings, settingsLoading, dnsTab, zoneForm, dnsAstray>>
    BY <1>9 DEF RecordAnswer
  <2>3. FreshPage.record \in RecordForm /\ ~FreshPage.record.open
    BY DEF FreshPage, RecordForm
  <2> HIDE DEF e, f
  <2>4. CASE ok
    BY <1>3, <2>1, <2>2, <2>3, <2>4 DEF DnsInv, DnsTyped, DnsTypeOK, DnsShown, DnsForms, DnsPaired, Paired, DnsSpin
  <2>5. CASE ~ok
    BY <1>2, <2>2, <2>3, <2>5 DEF DnsInv, DnsTyped, DnsTypeOK, DnsShown, DnsForms, DnsPaired, DnsSpin
  <2>6. QED
    BY <2>4, <2>5
<1>10. CASE CommandAnswer(i, ok)
  <2> DEFINE e == Call("domains")
  <2>1. e \in DnsRequest /\ e.kind = "domains" /\ e.from = NoDomain
    BY DnsCalls DEF DnsKinds
  <2>2. /\ f.kind \in {"proxy", "save", "command", "domains-change"}
        /\ \/ loading' = TRUE /\ SettleDns(i, <<e>>)
           \/ loading' = loading /\ SettleDns(i, <<>>)
        /\ UNCHANGED <<listed, currentDomain, records, zoneSettings, settingsLoading, dnsTab, zoneForm, recordForm, dnsAstray>>
    BY <1>10 DEF CommandAnswer, pageVars
  <2> HIDE DEF e, f
  <2>3. CASE SettleDns(i, <<e>>) /\ loading' = TRUE
    BY <1>3, <2>1, <2>2, <2>3 DEF DnsInv, DnsTyped, DnsTypeOK, DnsShown, DnsForms, DnsPaired, Paired, DnsSpin
  <2>4. CASE SettleDns(i, <<>>) /\ loading' = loading
    BY <1>2, <2>2, <2>4 DEF DnsInv, DnsTyped, DnsTypeOK, DnsShown, DnsForms, DnsPaired, DnsSpin
  <2>5. QED
    BY <2>2, <2>3, <2>4
<1>11. QED
  BY <1>4, <1>6, <1>7, <1>8, <1>9, <1>10

LEMMA DnsStep ==
  ASSUME DnsInv, DnsNext \/ MountDns \/ UNCHANGED dnsVars
  PROVE  DnsInv'
<1>1. CASE UNCHANGED dnsVars
  BY <1>1 DEF dnsVars, storeVars, pageVars,
     DnsInv, DnsTyped, DnsTypeOK, DnsShown, DnsForms, DnsPaired, DnsSpin
<1>2. QED
  BY <1>1, DnsMounted, DnsLoads, DnsDialog, DnsWrites, DnsAnswered DEF DnsNext, DnsTabs
-----------------------------------------------------------------------------
(***************************************************************************)
(* The tab of tunnels                                                      *)
(***************************************************************************)
TunnelKinds == {"accounts", "first", "tunnels", "create", "delete", "config", "save", "wizard"}

TunnelRequest ==
  [kind : TunnelKinds, account : TunnelAccounts \cup {NoTunnel}, to : Tunnels \cup {NoTunnel},
   from : Tunnels \cup {NoTunnel}, hosts : SUBSET Hosts, astray : BOOLEAN]

\* A request that names what it is about.
Named(f) ==
  /\ f.kind # "accounts" => f.account \in TunnelAccounts
  /\ f.kind \in {"config", "delete", "save", "wizard"} => f.to \in Tunnels

TunnelsTyped ==
  /\ TunnelsTypeOK
  /\ configDialog \in [open : BOOLEAN, tunnel : Tunnels \cup {NoTunnel}]
  /\ tunnelFlights \in Seq(TunnelRequest)
  /\ configDialog.open => tunnelAccount \in TunnelAccounts /\ configDialog.tunnel \in Tunnels
  /\ \A f \in Range(tunnelFlights) : /\ Named(f)
                                     /\ f.kind # "accounts" => tunnelAccount \in TunnelAccounts

TunnelsShown ==
  \/ "tunnels" \in tunnelsAstray
  \/ tunnels \subseteq {tunnelAccount}
  \/ \E f \in Range(tunnelFlights) : "tunnels" \in Holds(f) /\ f.account = tunnelAccount

\* The open dialog shows the entries of its tunnel, or these are on their way.
EntriesOwn ==
  configDialog.open =>
    \/ entries.of \in {configDialog.tunnel, NoTunnel}
    \/ "config" \in tunnelsAstray
    \/ \E f \in Range(tunnelFlights) : "config" \in Holds(f)

Matched(f) == f.from \in {f.to, NoTunnel} \/ f.astray

TunnelsPaired == \A f \in Range(tunnelFlights) : Matched(f)

TunnelsSpin == \A w \in spinning : \E f \in Range(tunnelFlights) : w \in Holds(f)

TunnelsInv == TunnelsTyped /\ TunnelsShown /\ EntriesOwn /\ TunnelsPaired /\ TunnelsSpin

LEMMA TunnelsStart == ASSUME TunnelsInit PROVE TunnelsInv
<1> DEFINE f == [kind |-> "accounts", account |-> NoTunnel, to |-> NoTunnel, from |-> NoTunnel, hosts |-> {}, astray |-> FALSE]
<1>1. f \in TunnelRequest /\ f.kind = "accounts" /\ f.from = NoTunnel
  BY DEF TunnelRequest, TunnelKinds
<1>2. tunnelFlights = <<f>>
  BY DEF TunnelsInit
<1> HIDE DEF f
<1>3. tunnelFlights \in Seq(TunnelRequest) /\ Range(tunnelFlights) = {f} /\ Holds(f) = {"accounts"}
  BY <1>1, <1>2, FewInFlight DEF Holds, Loads
<1>4. Named(f) /\ Matched(f)
  BY <1>1 DEF Named, Matched
<1>5. TunnelsTypeOK /\ configDialog \in [open : BOOLEAN, tunnel : Tunnels \cup {NoTunnel}] /\ ~configDialog.open
  BY DEF TunnelsInit, TunnelsTypeOK, Loads, NoEntries
<1>6. tunnels = {} /\ spinning = {"accounts"}
  BY DEF TunnelsInit
<1>7. QED
  BY <1>1, <1>3, <1>4, <1>5, <1>6 DEF TunnelsInv, TunnelsTyped, TunnelsShown, EntriesOwn, TunnelsPaired, TunnelsSpin

LEMMA TunnelCalls ==
  ASSUME TunnelsInv, NEW kind \in TunnelKinds, NEW to \in Tunnels \cup {NoTunnel},
         NEW from \in Tunnels \cup {NoTunnel}, NEW hs \in SUBSET Hosts, NEW b \in BOOLEAN,
         NEW f, f = Req(kind, to, from, hs, b)
  PROVE  /\ f \in TunnelRequest /\ f.kind = kind /\ f.account = tunnelAccount /\ f.to = to
         /\ f.from = from /\ f.hosts = hs /\ f.astray = b
BY DEF Req, TunnelRequest, TunnelsInv, TunnelsTyped, TunnelsTypeOK

LEMMA TunnelLoads ==
  ASSUME TunnelsInv, NEW kind \in TunnelKinds, NEW to \in Tunnels \cup {NoTunnel},
         NEW f, f = Load(kind, to)
  PROVE  /\ f \in TunnelRequest /\ f.kind = kind /\ f.account = tunnelAccount /\ f.to = to
         /\ f.from = NoTunnel
BY DEF Load, Req, TunnelRequest, TunnelsInv, TunnelsTyped, TunnelsTypeOK

\* A load for an account that is just being selected.
LEMMA TunnelLoadsOf ==
  ASSUME NEW kind \in TunnelKinds, NEW a \in TunnelAccounts
  PROVE  LET f == [Load(kind, NoTunnel) EXCEPT !.account = a]
         IN  f \in TunnelRequest /\ f.kind = kind /\ f.account = a /\ f.from = NoTunnel
BY DEF Load, Req, TunnelRequest

LEMMA HoldsLoads == \A f : Holds(f) \subseteq Loads
BY DEF Holds, Loads

LEMMA TunnelSent ==
  ASSUME TunnelsInv, NEW f \in TunnelRequest, SendReq(f)
  PROVE  /\ tunnelFlights' \in Seq(TunnelRequest) /\ Range(tunnelFlights') = Range(tunnelFlights) \cup {f}
         /\ spinning' = spinning \cup Holds(f)
BY Appended DEF SendReq, TunnelsInv, TunnelsTyped

LEMMA TunnelSettled ==
  ASSUME TunnelsInv, NEW i \in 1..Len(tunnelFlights), NEW fs \in Seq(TunnelRequest), SettleReq(i, fs)
  PROVE  /\ tunnelFlights' \in Seq(TunnelRequest)
         /\ Range(tunnelFlights') \subseteq Range(tunnelFlights) \cup Range(fs)
         /\ Range(fs) \subseteq Range(tunnelFlights')
         /\ \A f \in Range(tunnelFlights) : f = tunnelFlights[i] \/ f \in Range(tunnelFlights')
         /\ spinning' = (spinning \ Holds(tunnelFlights[i])) \cup UNION {Holds(f) : f \in Range(fs)}
<1>1. tunnelFlights' = RemoveAt(tunnelFlights, i) \o fs
  BY DEF SettleReq
<1>2. tunnelFlights \in Seq(TunnelRequest)
  BY DEF TunnelsInv, TunnelsTyped
<1>3. QED
  BY <1>1, <1>2, Answered DEF SettleReq

\* A request for the selected account is sent, and nothing else happens.
LEMMA TunnelsSend ==
  ASSUME TunnelsInv, NEW f \in TunnelRequest, SendReq(f), Named(f), Matched(f),
         f.kind = "accounts" \/ tunnelAccount \in TunnelAccounts,
         UNCHANGED <<tunnelAccount, tunnels, configDialog, entries, ingress, tunnelsAstray>>
  PROVE  TunnelsInv'
BY TunnelSent, HoldsLoads
   DEF TunnelsInv, TunnelsTyped, TunnelsTypeOK, TunnelsShown, EntriesOwn, TunnelsPaired, TunnelsSpin

LEMMA TunnelsSelect ==
  ASSUME TunnelsInv, NEW a \in TunnelAccounts, SelectTunnelAccount(a)
  PROVE  TunnelsInv'
<1> DEFINE f == [Load("tunnels", NoTunnel) EXCEPT !.account = a]
<1>1. f \in TunnelRequest /\ f.kind = "tunnels" /\ f.account = a /\ f.from = NoTunnel
  BY TunnelLoadsOf DEF TunnelKinds
<1>2. SendReq(f)
  BY DEF SelectTunnelAccount
<1> HIDE DEF f
<1>3. Named(f) /\ Matched(f) /\ Holds(f) = {"tunnels"}
  BY <1>1 DEF Named, Matched, Holds, Loads
<1>4. QED
  BY <1>1, <1>2, <1>3, TunnelSent
     DEF SelectTunnelAccount, Covered, TunnelsInv, TunnelsTyped, TunnelsTypeOK, Loads, TunnelsShown, EntriesOwn,
         TunnelsPaired, TunnelsSpin

LEMMA TunnelsOpen ==
  ASSUME TunnelsInv, NEW t \in Tunnels, OpenConfig(t)
  PROVE  TunnelsInv'
<1> DEFINE f == Load("config", t)
<1>1. f \in TunnelRequest /\ f.kind = "config" /\ f.account = tunnelAccount /\ f.to = t /\ f.from = NoTunnel
  BY TunnelLoads DEF TunnelKinds
<1>2. SendReq(f)
  BY DEF OpenConfig
<1> HIDE DEF f
<1>3. tunnelAccount \in TunnelAccounts
  BY DEF OpenConfig, TunnelsInv, TunnelsTyped, TunnelsTypeOK
<1>4. Named(f) /\ Matched(f) /\ Holds(f) = {"config"}
  BY <1>1, <1>3 DEF Named, Matched, Holds, Loads
<1>5. configDialog' \in [open : BOOLEAN, tunnel : Tunnels \cup {NoTunnel}] /\ configDialog'.tunnel = t
  BY DEF OpenConfig
<1>6. UNCHANGED <<tunnelAccount, tunnels, entries, ingress, tunnelsAstray>>
  BY DEF OpenConfig
<1>7. QED
  BY <1>1, <1>2, <1>3, <1>4, <1>5, <1>6, TunnelSent
     DEF TunnelsInv, TunnelsTyped, TunnelsTypeOK, Loads, TunnelsShown, EntriesOwn, TunnelsPaired, TunnelsSpin

LEMMA TunnelsClose ==
  ASSUME TunnelsInv, CloseConfig
  PROVE  TunnelsInv'
<1>1. configDialog' \in [open : BOOLEAN, tunnel : Tunnels \cup {NoTunnel}] /\ ~configDialog'.open
  BY DEF CloseConfig, TunnelsInv, TunnelsTyped
<1>2. QED
  BY <1>1 DEF CloseConfig, TunnelsInv, TunnelsTyped, TunnelsTypeOK, TunnelsShown, EntriesOwn, TunnelsPaired, TunnelsSpin

\* What a dialog or a row sends.
LEMMA TunnelsWrites ==
  ASSUME TunnelsInv, RefreshAccounts \/ ChangeTunnel \/ SaveConfig \/ SubmitWizard
  PROVE  TunnelsInv'
<1>1. UNCHANGED <<tunnelAccount, tunnels, configDialog, entries, ingress, tunnelsAstray>>
  BY DEF RefreshAccounts, ChangeTunnel, SaveConfig, SubmitWizard
<1>2. PICK f \in TunnelRequest : /\ SendReq(f) /\ Named(f) /\ Matched(f)
                                 /\ f.kind = "accounts" \/ tunnelAccount \in TunnelAccounts
  <2>1. CASE RefreshAccounts
    <3> DEFINE f == Load("accounts", NoTunnel)
    <3>1. f \in TunnelRequest /\ f.kind = "accounts" /\ f.from = NoTunnel
      BY TunnelLoads DEF TunnelKinds
    <3>2. SendReq(f)
      BY <2>1 DEF RefreshAccounts
    <3> HIDE DEF f
    <3>3. Named(f) /\ Matched(f)
      BY <3>1 DEF Named, Matched
    <3>4. QED
      BY <3>1, <3>2, <3>3
  <2>2. CASE ChangeTunnel
    <3>1. tunnelAccount \in TunnelAccounts
      BY <2>2 DEF ChangeTunnel, TunnelsInv, TunnelsTyped, TunnelsTypeOK
    <3>2. CASE SendReq(Load("create", NoTunnel))
      <4> DEFINE f == Load("create", NoTunnel)
      <4>1. f \in TunnelRequest /\ f.kind = "create" /\ f.from = NoTunnel /\ f.account = tunnelAccount
        BY TunnelLoads DEF TunnelKinds
      <4>2. SendReq(f)
        BY <3>2
      <4> HIDE DEF f
      <4>3. Named(f) /\ Matched(f)
        BY <3>1, <4>1 DEF Named, Matched
      <4>4. QED
        BY <3>1, <4>1, <4>2, <4>3
    <3>3. ASSUME NEW t \in Tunnels, SendReq(Req("delete", t, t, {}, Doubtful("tunnels")))
          PROVE  \E f \in TunnelRequest : SendReq(f) /\ Named(f) /\ Matched(f)
      <4> DEFINE b == Doubtful("tunnels")
                 f == Req("delete", t, t, {}, b)
      <4>1. b \in BOOLEAN
        BY DEF Doubtful
      <4>2. SendReq(f)
        BY <3>3
      <4> HIDE DEF b
      <4>3. f \in TunnelRequest /\ f.kind = "delete" /\ f.to = t /\ f.from = t /\ f.account = tunnelAccount
        BY <4>1, TunnelCalls DEF TunnelKinds
      <4> HIDE DEF f
      <4>4. Named(f) /\ Matched(f)
        BY <3>1, <4>3 DEF Named, Matched
      <4>5. QED
        BY <4>2, <4>3, <4>4
    <3>4. QED
      BY <2>2, <3>1, <3>2, <3>3 DEF ChangeTunnel
  <2>3. CASE SaveConfig
    <3> DEFINE b == Doubtful("config")
               f == Req("save", configDialog.tunnel, entries.of, entries.hosts \cap ZoneHosts, b)
    <3>1. b \in BOOLEAN
      BY DEF Doubtful
    <3>2. SendReq(f) /\ configDialog.open
      BY <2>3 DEF SaveConfig
    <3>3. b \/ entries.of \in {configDialog.tunnel, NoTunnel}
      BY <3>2 DEF Doubtful, TunnelsInv, EntriesOwn
    <3>4. tunnelAccount \in TunnelAccounts /\ configDialog.tunnel \in Tunnels
      BY <3>2 DEF TunnelsInv, TunnelsTyped
    <3>5. entries.of \in Tunnels \cup {NoTunnel} /\ entries.hosts \cap ZoneHosts \in SUBSET Hosts
      BY DEF TunnelsInv, TunnelsTyped, TunnelsTypeOK
    <3> HIDE DEF b
    <3>6. /\ f \in TunnelRequest /\ f.kind = "save" /\ f.to = configDialog.tunnel /\ f.from = entries.of
          /\ f.account = tunnelAccount /\ f.astray = b
      BY <3>1, <3>4, <3>5, TunnelCalls DEF TunnelKinds
    <3> HIDE DEF f
    <3>7. Named(f) /\ Matched(f)
      BY <3>3, <3>4, <3>6 DEF Named, Matched
    <3>8. QED
      BY <3>2, <3>4, <3>6, <3>7
  <2>4. CASE SubmitWizard
    <3>1. PICK t \in Tunnels, h \in ZoneHosts : SendReq(Req("wizard", t, t, {h}, Doubtful("tunnels")))
      BY <2>4 DEF SubmitWizard
    <3>2. tunnelAccount \in TunnelAccounts
      BY <2>4 DEF SubmitWizard, TunnelsInv, TunnelsTyped, TunnelsTypeOK
    <3> DEFINE b == Doubtful("tunnels")
               f == Req("wizard", t, t, {h}, b)
    <3>3. b \in BOOLEAN /\ {h} \in SUBSET Hosts
      BY TunnelsAssumption DEF Doubtful
    <3>4. SendReq(f)
      BY <3>1
    <3> HIDE DEF b
    <3>5. f \in TunnelRequest /\ f.kind = "wizard" /\ f.to = t /\ f.from = t /\ f.account = tunnelAccount
      BY <3>3, TunnelCalls DEF TunnelKinds
    <3> HIDE DEF f
    <3>6. Named(f) /\ Matched(f)
      BY <3>2, <3>5 DEF Named, Matched
    <3>7. QED
      BY <3>2, <3>4, <3>5, <3>6
  <2>5. QED
    BY <2>1, <2>2, <2>3, <2>4
<1>3. QED
  BY <1>1, <1>2, TunnelsSend

LEMMA TunnelsAnswered ==
  ASSUME TunnelsInv, NEW i \in 1..Len(tunnelFlights), TunnelsViewAnswer(i)
  PROVE  TunnelsInv'
<1> DEFINE f == tunnelFlights[i]
<1>1. f \in TunnelRequest /\ f \in Range(tunnelFlights)
  BY Removed DEF TunnelsInv, TunnelsTyped
<1>2. ASSUME SettleReq(i, <<>>)
      PROVE  /\ tunnelFlights' \in Seq(TunnelRequest) /\ Range(tunnelFlights') \subseteq Range(tunnelFlights)
             /\ \A e \in Range(tunnelFlights) : e = f \/ e \in Range(tunnelFlights')
             /\ spinning' = spinning \ Holds(f)
  <2>1. Range(<<>>) = {} /\ <<>> \in Seq(TunnelRequest)
    BY FewInFlight
  <2>2. /\ tunnelFlights' \in Seq(TunnelRequest)
        /\ Range(tunnelFlights') \subseteq Range(tunnelFlights) \cup Range(<<>>)
        /\ \A e \in Range(tunnelFlights) : e = f \/ e \in Range(tunnelFlights')
        /\ spinning' = (spinning \ Holds(f)) \cup UNION {Holds(e) : e \in Range(<<>>)}
    BY <1>2, <2>1, TunnelSettled
  <2>3. QED
    BY <2>1, <2>2
<1>3. ASSUME NEW e \in TunnelRequest, SettleReq(i, <<e>>)
      PROVE  /\ tunnelFlights' \in Seq(TunnelRequest) /\ Range(tunnelFlights') \subseteq Range(tunnelFlights) \cup {e}
             /\ e \in Range(tunnelFlights')
             /\ \A d \in Range(tunnelFlights) : d = f \/ d \in Range(tunnelFlights')
             /\ spinning' = (spinning \ Holds(f)) \cup Holds(e)
  <2>1. Range(<<e>>) = {e} /\ <<e>> \in Seq(TunnelRequest) /\ UNION {Holds(d) : d \in {e}} = Holds(e)
    BY FewInFlight
  <2>2. QED
    BY <1>3, <2>1, TunnelSettled
<1>4. PICK ok \in BOOLEAN :
        \/ AccountsAnswer(i, ok) \/ TunnelsAnswer(i, ok) \/ ConfigAnswer(i, ok)
        \/ SaveAnswer(i, ok) \/ TunnelAnswer(i, ok)
  BY DEF TunnelsViewAnswer
<1>5. /\ f.kind \in TunnelKinds /\ f.account \in TunnelAccounts \cup {NoTunnel} /\ f.hosts \in SUBSET Hosts
      /\ Named(f) /\ (f.kind # "accounts" => tunnelAccount \in TunnelAccounts)
  BY <1>1 DEF TunnelRequest, TunnelsInv, TunnelsTyped
<1>6. CASE AccountsAnswer(i, ok)
  <2>1. f.kind = "accounts" /\ UNCHANGED <<tunnels, configDialog, entries, ingress, tunnelsAstray>> /\ Holds(f) = {"accounts"}
    BY <1>6 DEF AccountsAnswer, Holds, Loads
  <2>2. CASE ok /\ tunnelAccount = NoTunnel
    <3>1. PICK a \in TunnelAccounts : tunnelAccount' = a /\ SettleReq(i, <<[Load("first", NoTunnel) EXCEPT !.account = a]>>)
      BY <1>6, <2>2 DEF AccountsAnswer
    <3> DEFINE e == [Load("first", NoTunnel) EXCEPT !.account = a]
    <3>2. e \in TunnelRequest /\ e.kind = "first" /\ e.account = a /\ e.from = NoTunnel
      BY TunnelLoadsOf DEF TunnelKinds
    <3>3. SettleReq(i, <<e>>)
      BY <3>1
    <3> HIDE DEF e, f
    <3>4. Named(e) /\ Matched(e) /\ Holds(e) = {"accounts", "tunnels"}
      BY <3>2 DEF Named, Matched, Holds
    <3>5. ~configDialog.open
      BY <2>2, TunnelsAssumption DEF TunnelsInv, TunnelsTyped
    <3>6. QED
      BY <1>3, <2>1, <3>1, <3>2, <3>3, <3>4, <3>5
         DEF TunnelsInv, TunnelsTyped, TunnelsTypeOK, Loads, TunnelsShown, EntriesOwn,
         TunnelsPaired, TunnelsSpin
  <2>3. CASE ~(ok /\ tunnelAccount = NoTunnel)
    <3>1. UNCHANGED tunnelAccount /\ SettleReq(i, <<>>)
      BY <1>6, <2>3 DEF AccountsAnswer
    <3> HIDE DEF f
    <3>2. QED
      BY <1>2, <2>1, <3>1
         DEF TunnelsInv, TunnelsTyped, TunnelsTypeOK, TunnelsShown, EntriesOwn, TunnelsPaired, TunnelsSpin
  <2>4. QED
    BY <2>2, <2>3
<1>7. CASE TunnelsAnswer(i, ok)
  <2>1. /\ f.kind \in {"first", "tunnels"} /\ SettleReq(i, <<>>) /\ tunnels' \in {{f.account}, {}}
        /\ tunnelsAstray' = IF f.account = tunnelAccount THEN tunnelsAstray \ {"tunnels"} ELSE tunnelsAstray \cup {"tunnels"}
        /\ UNCHANGED <<tunnelAccount, configDialog, entries, ingress>>
    BY <1>7 DEF TunnelsAnswer, MarkAs
  <2>2. "config" \notin Holds(f) /\ f.account \in TunnelAccounts
    BY <1>5, <2>1 DEF Holds, Named
  <2> HIDE DEF f
  <2>3. QED
    BY <1>2, <2>1, <2>2
       DEF TunnelsInv, TunnelsTyped, TunnelsTypeOK, Loads, TunnelsShown, EntriesOwn, TunnelsPaired, TunnelsSpin
<1>8. CASE ConfigAnswer(i, ok)
  <2>1. /\ f.kind = "config" /\ SettleReq(i, <<>>)
        /\ entries' = (IF ok /\ TunnelOwner[f.to] = f.account THEN [of |-> f.to, hosts |-> ingress[f.to]] ELSE NoEntries)
        /\ tunnelsAstray' = IF f.to = configDialog.tunnel THEN tunnelsAstray \ {"config"} ELSE tunnelsAstray \cup {"config"}
        /\ UNCHANGED <<tunnelAccount, tunnels, configDialog, ingress>>
    BY <1>8 DEF ConfigAnswer, MarkAs
  <2>2. f.to \in Tunnels /\ Holds(f) = {"config"}
    BY <1>5, <2>1 DEF Holds, Named, Loads
  <2>3. entries' \in [of : Tunnels \cup {NoTunnel}, hosts : SUBSET Hosts] /\ entries'.of \in {f.to, NoTunnel}
    BY <2>1, <2>2 DEF NoEntries, TunnelsInv, TunnelsTyped, TunnelsTypeOK
  <2> HIDE DEF f
  <2>4. QED
    BY <1>2, <2>1, <2>2, <2>3
       DEF TunnelsInv, TunnelsTyped, TunnelsTypeOK, Loads, TunnelsShown, EntriesOwn, TunnelsPaired, TunnelsSpin
<1>9. CASE SaveAnswer(i, ok)
  <2>1. /\ f.kind = "save" /\ SettleReq(i, <<>>)
        /\ ingress' \in {ingress, [ingress EXCEPT ![f.to] = f.hosts]}
        /\ configDialog' \in {configDialog, [configDialog EXCEPT !.open = FALSE]}
        /\ UNCHANGED <<tunnelAccount, tunnels, entries, tunnelsAstray>>
    BY <1>9 DEF SaveAnswer
  <2>2. f.to \in Tunnels /\ Holds(f) = {}
    BY <1>5, <2>1 DEF Holds, Named, Loads
  <2>3. ingress' \in [Tunnels -> SUBSET Hosts]
    BY <1>5, <2>1, <2>2 DEF TunnelsInv, TunnelsTyped, TunnelsTypeOK
  <2>4. /\ configDialog' \in [open : BOOLEAN, tunnel : Tunnels \cup {NoTunnel}]
        /\ configDialog'.open => configDialog.open /\ configDialog'.tunnel = configDialog.tunnel
    BY <2>1 DEF TunnelsInv, TunnelsTyped
  <2> HIDE DEF f
  <2>5. QED
    BY <1>2, <2>1, <2>2, <2>3, <2>4
       DEF TunnelsInv, TunnelsTyped, TunnelsTypeOK, TunnelsShown, EntriesOwn, TunnelsPaired, TunnelsSpin
<1>10. CASE TunnelAnswer(i, ok)
  <2> DEFINE e == Load("tunnels", NoTunnel)
  <2>1. /\ f.kind \in {"create", "delete", "wizard"}
        /\ SettleReq(i, IF ok THEN <<e>> ELSE <<>>)
        /\ f.kind # "wizard" => ingress' = ingress
        /\ ingress' \in {ingress, [ingress EXCEPT ![f.to] = @ \cup f.hosts]}
        /\ UNCHANGED <<tunnelAccount, tunnels, configDialog, entries, tunnelsAstray>>
    BY <1>10 DEF TunnelAnswer
  <2>2. e \in TunnelRequest /\ e.kind = "tunnels" /\ e.account = tunnelAccount /\ e.from = NoTunnel
    BY TunnelLoads DEF TunnelKinds
  <2>3. Holds(f) = {} /\ tunnelAccount \in TunnelAccounts
    BY <1>5, <2>1 DEF Holds, Loads
  <2>4. ingress' \in [Tunnels -> SUBSET Hosts]
    BY <1>5, <2>1 DEF Named, TunnelsInv, TunnelsTyped, TunnelsTypeOK
  <2> HIDE DEF e, f
  <2>5. Named(e) /\ Matched(e) /\ Holds(e) = {"tunnels"}
    BY <2>2, <2>3 DEF Named, Matched, Holds, Loads
  <2>6. CASE ok
    <3>1. /\ tunnelFlights' \in Seq(TunnelRequest) /\ Range(tunnelFlights') \subseteq Range(tunnelFlights) \cup {e}
          /\ e \in Range(tunnelFlights')
          /\ \A d \in Range(tunnelFlights) : d = f \/ d \in Range(tunnelFlights')
          /\ spinning' = spinning \cup {"tunnels"}
      BY <1>3, <2>1, <2>2, <2>3, <2>5, <2>6
    <3>2. TunnelsTyped'
      BY <2>1, <2>3, <2>4, <2>5, <3>1 DEF TunnelsInv, TunnelsTyped, TunnelsTypeOK, Loads
    <3>3. TunnelsShown' /\ EntriesOwn'
      BY <2>1, <2>2, <2>3, <2>5, <3>1 DEF TunnelsInv, TunnelsShown, EntriesOwn
    <3>4. TunnelsPaired' /\ TunnelsSpin'
      BY <2>3, <2>5, <3>1 DEF TunnelsInv, TunnelsPaired, TunnelsSpin
    <3>5. QED
      BY <3>2, <3>3, <3>4 DEF TunnelsInv
  <2>7. CASE ~ok
    BY <1>2, <2>1, <2>3, <2>4, <2>7
       DEF TunnelsInv, TunnelsTyped, TunnelsTypeOK, Loads, TunnelsShown, EntriesOwn, TunnelsPaired, TunnelsSpin
  <2>8. QED
    BY <2>6, <2>7
<1>11. QED
  BY <1>4, <1>6, <1>7, <1>8, <1>9, <1>10

LEMMA TunnelsStep ==
  ASSUME TunnelsInv, TunnelsNext \/ UNCHANGED tunnelsVars
  PROVE  TunnelsInv'
<1>1. CASE UNCHANGED tunnelsVars
  BY <1>1 DEF tunnelsVars, TunnelsInv, TunnelsTyped, TunnelsTypeOK, TunnelsShown, EntriesOwn, TunnelsPaired, TunnelsSpin
<1>2. QED
  BY <1>1, TunnelsSelect, TunnelsOpen, TunnelsClose, TunnelsWrites, TunnelsAnswered DEF TunnelsNext
-----------------------------------------------------------------------------
(***************************************************************************)
(* The accounts page                                                       *)
(***************************************************************************)
AccountKinds == Sheets \cup {"list", "batch", "testBatch", "import", "export", "delete", "test"}
Afters == {"none", "account", "features", "batch", "testBatch", "import"}
WaitFlags == {"loading", "submitting", "cred", "batch", "testBatch", "import", "export"}
Editors == {"account", "features", "proxy"}

\* A request is followed by another only as a load of the table, and names the row it was read from.
Proper(f) ==
  /\ f.kind = "list" => f.query \in Queries
  /\ f.kind # "list" => f.after = "none"
  /\ f.from = f.id

AccountsTyped ==
  /\ AccountsTypeOK
  /\ \A f \in Range(accountFlights) : Proper(f)

\* OneFinite dialog at a time is about an account, and an editor shows the account it is about.
SheetsApart ==
  /\ \A d, e \in opened \cap Sheets : d = e
  /\ opened \cap Editors # {} => form.from = form.id

TableShown ==
  \/ "table" \in accountsAstray
  \/ answered \subseteq {query}
  \/ \E f \in Range(accountFlights) : f.kind = "list" /\ f.query = query

CredShown == "cred" \in opened /\ "cred" \notin accountsAstray => form.from \in {form.id, NoMember}

Keeps(f) == WaitOf(f.kind) \cup Ended(f.after)

AccountsSpin == \A w \in waits : \E f \in Range(accountFlights) : w \in Keeps(f)

AccountsInv == AccountsTyped /\ SheetsApart /\ TableShown /\ CredShown /\ AccountsSpin

LEMMA AccountWaits ==
  /\ \A kind : WaitOf(kind) \subseteq WaitFlags
  /\ \A after : Ended(after) \subseteq WaitFlags
  /\ WaitOf("list") = {"loading"} /\ Ended("none") = {}
  /\ \A kind \in {"account", "features", "batch", "testBatch", "import"} : Ended(kind) = WaitOf(kind)
<1>1. ASSUME NEW kind PROVE WaitOf(kind) \subseteq WaitFlags
  BY DEF WaitOf, WaitFlags
<1>2. ASSUME NEW after PROVE Ended(after) \subseteq WaitFlags
  BY DEF Ended, WaitFlags
<1>3. WaitOf("list") = {"loading"} /\ Ended("none") = {}
  BY DEF WaitOf, Ended
<1>4. ASSUME NEW kind \in {"account", "features", "batch", "testBatch", "import"} PROVE Ended(kind) = WaitOf(kind)
  BY DEF WaitOf, Ended
<1>5. QED
  BY <1>1, <1>2, <1>3, <1>4

\* Requests as the handlers make them.
LEMMA AccountAsks ==
  ASSUME NEW kind \in AccountKinds \ {"list"}, NEW of \in [id : Members \cup {NoMember}, from : Members \cup {NoMember}],
         of.from = of.id
  PROVE  LET f == Ask(kind, of)
         IN  f \in AccountsRequest /\ f.kind = kind /\ f.id = of.id /\ Proper(f)
BY DEF Ask, AccountsRequest, AccountKinds, Proper

LEMMA AccountFetches ==
  ASSUME NEW q \in Queries, NEW after \in Afters
  PROVE  LET f == Fetch(q, after)
         IN  f \in AccountsRequest /\ f.kind = "list" /\ f.query = q /\ f.after = after /\ Proper(f)
BY DEF Fetch, Ask, Blank, AccountsRequest, Afters, Proper

LEMMA AccountsStart == ASSUME AccountsInit PROVE AccountsInv
<1> DEFINE f == Fetch(query, "none")
<1>1. f \in AccountsRequest /\ f.kind = "list" /\ f.query = query /\ f.after = "none" /\ Proper(f)
  BY AccountFetches DEF AccountsInit, Afters
<1>2. accountFlights = <<f>>
  BY DEF AccountsInit
<1> HIDE DEF f
<1>3. accountFlights \in Seq(AccountsRequest) /\ Range(accountFlights) = {f}
  BY <1>1, <1>2, FewInFlight
<1>4. Keeps(f) = {"loading"}
  BY <1>1, AccountWaits DEF Keeps
<1>5. AccountsTypeOK
  BY <1>3 DEF AccountsInit, AccountsTypeOK, Blank
<1>6. answered = {} /\ opened = {} /\ waits = {"loading"}
  BY DEF AccountsInit
<1>7. QED
  BY <1>1, <1>3, <1>4, <1>5, <1>6 DEF AccountsInv, AccountsTyped, SheetsApart, TableShown, CredShown, AccountsSpin

LEMMA AccountSent ==
  ASSUME AccountsInv, NEW f \in AccountsRequest, Fly(f)
  PROVE  /\ accountFlights' \in Seq(AccountsRequest) /\ Range(accountFlights') = Range(accountFlights) \cup {f}
         /\ waits' \subseteq waits \cup Keeps(f) /\ waits' \subseteq WaitFlags
<1>1. accountFlights \in Seq(AccountsRequest) /\ waits \subseteq WaitFlags
  BY DEF AccountsInv, AccountsTyped, AccountsTypeOK, WaitFlags
<1>2. QED
  BY <1>1, Appended, AccountWaits DEF Fly, Keeps

LEMMA AccountLanded ==
  ASSUME AccountsInv, NEW i \in 1..Len(accountFlights), NEW fs \in Seq(AccountsRequest), NEW down, Land(i, fs, down)
  PROVE  /\ accountFlights' \in Seq(AccountsRequest)
         /\ Range(accountFlights') \subseteq Range(accountFlights) \cup Range(fs)
         /\ Range(fs) \subseteq Range(accountFlights')
         /\ \A f \in Range(accountFlights) : f = accountFlights[i] \/ f \in Range(accountFlights')
         /\ waits' = (waits \ down) \cup UNION {WaitOf(f.kind) : f \in Range(fs)}
<1>1. accountFlights' = RemoveAt(accountFlights, i) \o fs
  BY DEF Land
<1>2. accountFlights \in Seq(AccountsRequest)
  BY DEF AccountsInv, AccountsTyped, AccountsTypeOK
<1>3. QED
  BY <1>1, <1>2, Answered DEF Land

\* A request is sent, and nothing else happens.
LEMMA AccountsSend ==
  ASSUME AccountsInv, NEW f \in AccountsRequest, Fly(f), Proper(f),
         UNCHANGED <<query, answered, checked, opened, form, accountsAstray>>
  PROVE  AccountsInv'
BY AccountSent
   DEF AccountsInv, AccountsTyped, AccountsTypeOK, WaitFlags, SheetsApart, TableShown, CredShown, AccountsSpin

LEMMA AccountsWrites ==
  ASSUME AccountsInv, \/ TestBatch
                      \/ \E kind \in {"delete", "test"} : RowCommand(kind)
                      \/ \E d \in {"batch", "import", "export"} : RunDialog(d)
                      \/ \E d \in Editors : SaveSheet(d)
  PROVE  AccountsInv'
<1>1. Blank \in [id : Members \cup {NoMember}, from : Members \cup {NoMember}] /\ Blank.from = Blank.id
  BY DEF Blank
<1>2. PICK f \in AccountsRequest : Fly(f) /\ Proper(f)
  <2>1. CASE TestBatch
    <3>1. "testBatch" \in AccountKinds \ {"list"} /\ Fly(Ask("testBatch", Blank))
      BY <2>1 DEF TestBatch, AccountKinds, Sheets
    <3>2. QED
      BY <1>1, <3>1, AccountAsks
  <2>2. ASSUME NEW kind \in {"delete", "test"}, RowCommand(kind) PROVE \E f \in AccountsRequest : Fly(f) /\ Proper(f)
    <3>1. kind \in AccountKinds \ {"list"} /\ Fly(Ask(kind, Blank))
      BY <2>2 DEF RowCommand, AccountKinds, Sheets
    <3>2. QED
      BY <1>1, <3>1, AccountAsks
  <2>3. ASSUME NEW d \in {"batch", "import", "export"}, RunDialog(d) PROVE \E f \in AccountsRequest : Fly(f) /\ Proper(f)
    <3>1. d \in AccountKinds \ {"list"} /\ Fly(Ask(d, Blank))
      BY <2>3 DEF RunDialog, AccountKinds, Sheets
    <3>2. QED
      BY <1>1, <3>1, AccountAsks
  <2>4. ASSUME NEW d \in Editors, SaveSheet(d) PROVE \E f \in AccountsRequest : Fly(f) /\ Proper(f)
    <3>1. d \in AccountKinds \ {"list"} /\ Fly(Ask(d, form)) /\ d \in opened \cap Editors
      BY <2>4 DEF SaveSheet, InDialog, AccountKinds, Sheets, Editors
    <3>2. form \in [id : Members \cup {NoMember}, from : Members \cup {NoMember}] /\ form.from = form.id
      BY <3>1 DEF AccountsInv, AccountsTyped, AccountsTypeOK, SheetsApart
    <3>3. QED
      BY <3>1, <3>2, AccountAsks
  <2>5. QED
    BY <2>1, <2>2, <2>3, <2>4
<1>3. UNCHANGED <<query, answered, checked, opened, form, accountsAstray>>
  BY DEF TestBatch, RowCommand, RunDialog, SaveSheet
<1>4. QED
  BY <1>2, <1>3, AccountsSend

LEMMA AccountsQuery ==
  ASSUME AccountsInv, NEW q \in Queries, SetQuery(q)
  PROVE  AccountsInv'
<1> DEFINE f == Fetch(q, "none")
<1>1. f \in AccountsRequest /\ f.kind = "list" /\ f.query = q /\ Proper(f)
  BY AccountFetches DEF Afters
<1>2. Fly(f)
  BY DEF SetQuery
<1> HIDE DEF f
<1>3. query' = q /\ accountsAstray' = accountsAstray \ {"table"} /\ UNCHANGED <<answered, checked, opened, form>>
  BY DEF SetQuery
<1>4. QED
  BY <1>1, <1>2, <1>3, AccountSent
     DEF AccountsInv, AccountsTyped, AccountsTypeOK, WaitFlags, SheetsApart, TableShown, CredShown, AccountsSpin

LEMMA AccountsCred ==
  ASSUME AccountsInv, NEW m \in Members, ViewCredentials(m)
  PROVE  AccountsInv'
<1> DEFINE of == [id |-> m, from |-> m]
           f == Ask("cred", of)
<1>1. of \in [id : Members \cup {NoMember}, from : Members \cup {NoMember}] /\ of.from = of.id
      /\ "cred" \in AccountKinds \ {"list"}
  BY DEF AccountKinds, Sheets
<1>2. Fly(f)
  BY DEF ViewCredentials
<1> HIDE DEF of
<1>3. f \in AccountsRequest /\ Proper(f)
  BY <1>1, AccountAsks
<1> HIDE DEF f
<1>4. /\ opened' = {"cred"} /\ form' = [id |-> m, from |-> NoMember]
      /\ accountsAstray' = accountsAstray \ {"cred"} /\ UNCHANGED <<query, answered, checked>>
  BY DEF ViewCredentials
<1>5. form' \in [id : Members \cup {NoMember}, from : Members \cup {NoMember}] /\ form'.from = NoMember
  BY <1>4
<1>6. opened' \subseteq Dialogs /\ opened' \cap Editors = {} /\ \A d, e \in opened' \cap Sheets : d = e
  BY <1>4 DEF Dialogs, Sheets, Editors
<1>7. QED
  BY <1>2, <1>3, <1>4, <1>5, <1>6, AccountSent
     DEF AccountsInv, AccountsTyped, AccountsTypeOK, WaitFlags, SheetsApart, TableShown, CredShown, AccountsSpin

\* Dialogs are opened and closed, and rows are checked.
LEMMA AccountsDialogs ==
  ASSUME AccountsInv, \/ OpenAdd \/ CheckRows
                      \/ \E m \in Members, d \in Editors : OpenEditor(d, m)
                      \/ \E d \in {"batch", "import", "export"} : OpenDialog(d)
                      \/ \E d \in Dialogs : CloseDialog(d)
  PROVE  AccountsInv'
<1>1. UNCHANGED <<query, answered, waits, accountFlights, accountsAstray>>
  BY DEF OpenAdd, CheckRows, OpenEditor, OpenDialog, CloseDialog
<1>2. checked' \in BOOLEAN
  BY DEF OpenAdd, CheckRows, OpenEditor, OpenDialog, CloseDialog, AccountsInv, AccountsTyped, AccountsTypeOK
<1>3. \/ /\ \E d \in Editors : opened' = {d}
         /\ \E id \in Members \cup {NoMember} : form' = [id |-> id, from |-> id]
      \/ \E d \in {"batch", "import", "export"} : opened' = {d} /\ form' = form
      \/ opened' \subseteq opened /\ form' = form
  <2>1. CASE OpenAdd
    BY <2>1 DEF OpenAdd, OpenSheet, Editors
  <2>2. ASSUME NEW m \in Members, NEW d \in Editors, OpenEditor(d, m)
        PROVE  (\E e \in Editors : opened' = {e}) /\ \E id \in Members \cup {NoMember} : form' = [id |-> id, from |-> id]
    BY <2>2 DEF OpenEditor, OpenSheet
  <2>3. QED
    BY <2>1, <2>2 DEF CheckRows, OpenDialog, CloseDialog
<1>4. AccountsTypeOK'
  <2>1. opened \subseteq Dialogs /\ form \in [id : Members \cup {NoMember}, from : Members \cup {NoMember}]
    BY DEF AccountsInv, AccountsTyped, AccountsTypeOK
  <2>2. opened' \subseteq Dialogs
    BY <1>3, <2>1 DEF Dialogs, Sheets, Editors
  <2>3. form' \in [id : Members \cup {NoMember}, from : Members \cup {NoMember}]
    BY <1>3, <2>1
  <2>4. QED
    BY <1>1, <1>2, <2>2, <2>3 DEF AccountsInv, AccountsTyped, AccountsTypeOK
<1>5. SheetsApart'
  BY <1>3 DEF AccountsInv, SheetsApart, Sheets, Editors
<1>6. CredShown'
  BY <1>1, <1>3 DEF AccountsInv, CredShown, Editors
<1>7. QED
  BY <1>1, <1>4, <1>5, <1>6 DEF AccountsInv, AccountsTyped, TableShown, AccountsSpin

LEMMA AccountsAnswered ==
  ASSUME AccountsInv, NEW i \in 1..Len(accountFlights), AccountsViewAnswer(i)
  PROVE  AccountsInv'
<1> DEFINE f == accountFlights[i]
<1>1. f \in AccountsRequest /\ f \in Range(accountFlights) /\ Proper(f)
  BY Removed DEF AccountsInv, AccountsTyped, AccountsTypeOK
<1>2. ASSUME NEW down, Land(i, <<>>, down)
      PROVE  /\ accountFlights' \in Seq(AccountsRequest) /\ Range(accountFlights') \subseteq Range(accountFlights)
             /\ \A e \in Range(accountFlights) : e = f \/ e \in Range(accountFlights')
             /\ waits' = waits \ down
  <2>1. Range(<<>>) = {} /\ <<>> \in Seq(AccountsRequest)
    BY FewInFlight
  <2>2. /\ accountFlights' \in Seq(AccountsRequest)
        /\ Range(accountFlights') \subseteq Range(accountFlights) \cup Range(<<>>)
        /\ \A e \in Range(accountFlights) : e = f \/ e \in Range(accountFlights')
        /\ waits' = (waits \ down) \cup UNION {WaitOf(e.kind) : e \in Range(<<>>)}
    BY <1>2, <2>1, AccountLanded
  <2>3. QED
    BY <2>1, <2>2
<1>3. ASSUME NEW e \in AccountsRequest, e.kind = "list", NEW down, Land(i, <<e>>, down)
      PROVE  /\ accountFlights' \in Seq(AccountsRequest) /\ Range(accountFlights') \subseteq Range(accountFlights) \cup {e}
             /\ e \in Range(accountFlights')
             /\ \A d \in Range(accountFlights) : d = f \/ d \in Range(accountFlights')
             /\ waits' = (waits \ down) \cup {"loading"}
  <2>1. Range(<<e>>) = {e} /\ <<e>> \in Seq(AccountsRequest) /\ UNION {WaitOf(d.kind) : d \in {e}} = {"loading"}
    BY <1>3, FewInFlight, AccountWaits
  <2>2. /\ accountFlights' \in Seq(AccountsRequest)
        /\ Range(accountFlights') \subseteq Range(accountFlights) \cup Range(<<e>>)
        /\ Range(<<e>>) \subseteq Range(accountFlights')
        /\ \A d \in Range(accountFlights) : d = f \/ d \in Range(accountFlights')
        /\ waits' = (waits \ down) \cup UNION {WaitOf(d.kind) : d \in Range(<<e>>)}
    BY <1>3, <2>1, AccountLanded
  <2>3. QED
    BY <2>1, <2>2
<1>4. PICK ok \in BOOLEAN :
        \/ TableLoaded(i, ok) \/ SheetAnswer(i, ok) \/ BatchAnswer(i, ok) \/ CredAnswer(i, ok) \/ OtherAnswer(i, ok)
  BY DEF AccountsViewAnswer
<1>5. /\ f.kind \in AccountKinds /\ f.after \in Afters /\ f.id \in Members \cup {NoMember}
      /\ (f.kind = "list" => f.query \in Queries) /\ (f.kind # "list" => f.after = "none")
  BY <1>1 DEF AccountsRequest, AccountKinds, Afters, Proper
<1>6. form \in [id : Members \cup {NoMember}, from : Members \cup {NoMember}] /\ query \in Queries /\ opened \subseteq Dialogs
  BY DEF AccountsInv, AccountsTyped, AccountsTypeOK
<1>7. CASE TableLoaded(i, ok)
  <2>1. /\ f.kind = "list" /\ Land(i, <<>>, {"loading"} \cup Ended(f.after))
        /\ answered' = (IF ok THEN {f.query} ELSE {})
        /\ accountsAstray' = IF f.query = query THEN accountsAstray \ {"table"} ELSE accountsAstray \cup {"table"}
        /\ opened' \subseteq opened \cup {"testResult"} /\ form' \in {Blank, form}
        /\ UNCHANGED <<query, checked>>
    BY <1>7 DEF TableLoaded
  <2>2. Keeps(f) = {"loading"} \cup Ended(f.after)
    BY <2>1, AccountWaits DEF Keeps
  <2>3. Blank \in [id : Members \cup {NoMember}, from : Members \cup {NoMember}] /\ Blank.from = Blank.id
    BY DEF Blank
  <2>4. opened' \subseteq Dialogs /\ \A d \in opened' : d \in Sheets \cup Editors => d \in opened
    BY <1>6, <2>1 DEF Dialogs, Results, Sheets, Editors
  <2> HIDE DEF f
  <2>5. /\ accountFlights' \in Seq(AccountsRequest) /\ Range(accountFlights') \subseteq Range(accountFlights)
        /\ \A e \in Range(accountFlights) : e = f \/ e \in Range(accountFlights')
        /\ waits' = waits \ Keeps(f)
    BY <1>2, <2>1, <2>2
  <2>6. AccountsTyped'
    BY <1>5, <2>1, <2>3, <2>4, <2>5 DEF AccountsInv, AccountsTyped, AccountsTypeOK
  <2>7. SheetsApart'
    BY <2>1, <2>3, <2>4 DEF AccountsInv, SheetsApart
  <2>8. TableShown'
    BY <2>1 DEF TableShown
  <2>9. CredShown'
    BY <2>1, <2>3 DEF AccountsInv, CredShown
  <2>10. AccountsSpin'
    BY <2>5 DEF AccountsInv, AccountsSpin
  <2>11. QED
    BY <2>6, <2>7, <2>8, <2>9, <2>10 DEF AccountsInv
<1>8. CASE SheetAnswer(i, ok)
  <2> DEFINE e == Fetch(query, f.kind)
  <2>1. /\ f.kind \in {"account", "features", "proxy", "testBatch", "import"}
        /\ IF ok THEN Land(i, <<e>>, {}) ELSE Land(i, <<>>, WaitOf(f.kind))
        /\ UNCHANGED <<query, answered, checked, opened, form, accountsAstray>>
    BY <1>8 DEF SheetAnswer
  <2>2. ok => f.kind # "proxy"
    BY <1>8 DEF SheetAnswer, Accepted
  <2>3. Keeps(f) = WaitOf(f.kind)
    BY <1>5, <2>1, AccountWaits DEF Keeps
  <2>4. CASE ok
    <3>1. f.kind \in Afters
      BY <2>1, <2>2, <2>4 DEF Afters
    <3>2. e \in AccountsRequest /\ e.kind = "list" /\ e.query = query /\ e.after = f.kind /\ Proper(e)
      BY <1>6, <3>1, AccountFetches
    <3>3. Land(i, <<e>>, {})
      BY <2>1, <2>4
    <3> HIDE DEF e, f
    <3>4. Keeps(f) \subseteq Keeps(e) /\ "loading" \in Keeps(e)
      BY <2>1, <2>2, <2>3, <2>4, <3>2, AccountWaits DEF Keeps
    <3>5. /\ accountFlights' \in Seq(AccountsRequest) /\ Range(accountFlights') \subseteq Range(accountFlights) \cup {e}
          /\ e \in Range(accountFlights')
          /\ \A d \in Range(accountFlights) : d = f \/ d \in Range(accountFlights')
          /\ waits' = waits \cup {"loading"}
      BY <1>3, <3>2, <3>3
    <3>6. AccountsTyped'
      BY <2>1, <3>2, <3>5 DEF AccountsInv, AccountsTyped, AccountsTypeOK
    <3>7. TableShown' /\ AccountsSpin'
      BY <2>1, <3>2, <3>4, <3>5 DEF AccountsInv, TableShown, AccountsSpin
    <3>8. SheetsApart' /\ CredShown'
      BY <2>1 DEF AccountsInv, SheetsApart, CredShown
    <3>9. QED
      BY <3>6, <3>7, <3>8 DEF AccountsInv
  <2>5. CASE ~ok
    <3> HIDE DEF f
    <3>1. QED
      BY <1>2, <2>1, <2>3, <2>5
         DEF AccountsInv, AccountsTyped, AccountsTypeOK, SheetsApart, TableShown, CredShown, AccountsSpin
  <2>6. QED
    BY <2>4, <2>5
<1>9. CASE BatchAnswer(i, ok)
  <2> DEFINE e == Fetch(query, "batch")
  <2>1. /\ f.kind = "batch"
        /\ IF ok THEN Land(i, <<e>>, {}) ELSE Land(i, <<>>, {"batch"})
        /\ opened' \subseteq opened \cup {"batchResult"} /\ checked' \in {checked, FALSE}
        /\ UNCHANGED <<query, answered, form, accountsAstray>>
    BY <1>9 DEF BatchAnswer
  <2>2. WaitOf("batch") = {"batch"} /\ Ended("batch") = {"batch"}
    BY DEF WaitOf, Ended
  <2>3. Keeps(f) = {"batch"}
    BY <1>5, <2>1, <2>2, AccountWaits DEF Keeps
  <2>4. opened' \subseteq Dialogs /\ \A d \in opened' : d \in Sheets \cup Editors => d \in opened
    BY <1>6, <2>1 DEF Dialogs, Results, Sheets, Editors
  <2>5. SheetsApart' /\ CredShown'
    BY <2>1, <2>4 DEF AccountsInv, SheetsApart, CredShown, Sheets
  <2>6. CASE ok
    <3>1. e \in AccountsRequest /\ e.kind = "list" /\ e.query = query /\ e.after = "batch" /\ Proper(e)
      BY <1>6, AccountFetches DEF Afters
    <3>2. Land(i, <<e>>, {})
      BY <2>1, <2>6
    <3> HIDE DEF e, f
    <3>3. Keeps(e) = {"loading", "batch"}
      BY <2>2, <3>1, AccountWaits DEF Keeps
    <3>4. /\ accountFlights' \in Seq(AccountsRequest) /\ Range(accountFlights') \subseteq Range(accountFlights) \cup {e}
          /\ e \in Range(accountFlights')
          /\ \A d \in Range(accountFlights) : d = f \/ d \in Range(accountFlights')
          /\ waits' = waits \cup {"loading"}
      BY <1>3, <3>1, <3>2
    <3>5. AccountsTyped'
      BY <2>1, <2>4, <3>1, <3>4 DEF AccountsInv, AccountsTyped, AccountsTypeOK
    <3>6. TableShown' /\ AccountsSpin'
      BY <2>1, <2>3, <3>1, <3>3, <3>4 DEF AccountsInv, TableShown, AccountsSpin
    <3>7. QED
      BY <2>5, <3>5, <3>6 DEF AccountsInv
  <2>7. CASE ~ok
    <3> HIDE DEF f
    <3>1. /\ accountFlights' \in Seq(AccountsRequest) /\ Range(accountFlights') \subseteq Range(accountFlights)
          /\ \A d \in Range(accountFlights) : d = f \/ d \in Range(accountFlights')
          /\ waits' = waits \ Keeps(f)
      BY <1>2, <2>1, <2>3, <2>7
    <3>2. AccountsTyped'
      BY <2>1, <2>4, <3>1 DEF AccountsInv, AccountsTyped, AccountsTypeOK
    <3>3. TableShown' /\ AccountsSpin'
      BY <2>1, <3>1 DEF AccountsInv, TableShown, AccountsSpin
    <3>4. QED
      BY <2>5, <3>2, <3>3 DEF AccountsInv
  <2>8. QED
    BY <2>6, <2>7
<1>10. CASE CredAnswer(i, ok)
  <2>1. /\ f.kind = "cred" /\ Land(i, <<>>, {"cred"})
        /\ form' = (IF ok /\ "cred" \in opened THEN [form EXCEPT !.from = f.id] ELSE form)
        /\ opened' = (IF ok THEN opened ELSE opened \ {"cred"})
        /\ accountsAstray' = IF ok /\ f.id # form.id THEN accountsAstray \cup {"cred"} ELSE accountsAstray
        /\ UNCHANGED <<query, answered, checked>>
    BY <1>10 DEF CredAnswer
  <2>2. Keeps(f) = {"cred"}
    BY <1>5, <2>1, AccountWaits DEF Keeps, WaitOf
  <2>3. /\ form' \in [id : Members \cup {NoMember}, from : Members \cup {NoMember}] /\ form'.id = form.id
        /\ form'.from = IF ok /\ "cred" \in opened THEN f.id ELSE form.from
    BY <1>5, <1>6, <2>1
  <2>4. SheetsApart'
    BY <2>1, <2>3 DEF AccountsInv, SheetsApart, Sheets, Editors
  <2>5. CredShown'
    BY <2>1, <2>3 DEF AccountsInv, CredShown
  <2> HIDE DEF f
  <2>6. /\ accountFlights' \in Seq(AccountsRequest) /\ Range(accountFlights') \subseteq Range(accountFlights)
        /\ \A e \in Range(accountFlights) : e = f \/ e \in Range(accountFlights')
        /\ waits' = waits \ Keeps(f)
    BY <1>2, <2>1, <2>2
  <2>7. AccountsTyped'
    BY <2>1, <2>3, <2>6 DEF AccountsInv, AccountsTyped, AccountsTypeOK
  <2>8. TableShown' /\ AccountsSpin'
    BY <2>1, <2>6 DEF AccountsInv, TableShown, AccountsSpin
  <2>9. QED
    BY <2>4, <2>5, <2>7, <2>8 DEF AccountsInv
<1>11. CASE OtherAnswer(i, ok)
  <2> DEFINE e == Fetch(query, "none")
  <2>1. /\ f.kind \in {"export", "delete", "test"}
        /\ Land(i, <<e>>, WaitOf(f.kind)) \/ Land(i, <<>>, WaitOf(f.kind))
        /\ opened' \subseteq opened
        /\ UNCHANGED <<query, answered, checked, form, accountsAstray>>
    BY <1>11 DEF OtherAnswer
  <2>2. Keeps(f) = WaitOf(f.kind)
    BY <1>5, <2>1, AccountWaits DEF Keeps
  <2>3. SheetsApart' /\ CredShown' /\ opened' \subseteq Dialogs
    BY <1>6, <2>1 DEF AccountsInv, SheetsApart, CredShown
  <2>4. e \in AccountsRequest /\ e.kind = "list" /\ e.query = query /\ e.after = "none" /\ Proper(e)
    BY <1>6, AccountFetches DEF Afters
  <2> HIDE DEF e, f
  <2>5. "loading" \in Keeps(e)
    BY <2>4, AccountWaits DEF Keeps
  <2>6. CASE Land(i, <<e>>, WaitOf(f.kind))
    <3>1. /\ accountFlights' \in Seq(AccountsRequest) /\ Range(accountFlights') \subseteq Range(accountFlights) \cup {e}
          /\ e \in Range(accountFlights')
          /\ \A d \in Range(accountFlights) : d = f \/ d \in Range(accountFlights')
          /\ waits' = (waits \ Keeps(f)) \cup {"loading"}
      BY <1>3, <2>2, <2>4, <2>6
    <3>2. QED
      BY <2>1, <2>3, <2>4, <2>5, <3>1
         DEF AccountsInv, AccountsTyped, AccountsTypeOK, TableShown, AccountsSpin
  <2>7. CASE Land(i, <<>>, WaitOf(f.kind))
    <3>1. /\ accountFlights' \in Seq(AccountsRequest) /\ Range(accountFlights') \subseteq Range(accountFlights)
          /\ \A d \in Range(accountFlights) : d = f \/ d \in Range(accountFlights')
          /\ waits' = waits \ Keeps(f)
      BY <1>2, <2>2, <2>7
    <3>2. QED
      BY <2>1, <2>3, <3>1
         DEF AccountsInv, AccountsTyped, AccountsTypeOK, TableShown, AccountsSpin
  <2>8. QED
    BY <2>1, <2>6, <2>7
<1>12. QED
  BY <1>4, <1>7, <1>8, <1>9, <1>10, <1>11

LEMMA AccountsStep ==
  ASSUME AccountsInv, AccountsNext \/ UNCHANGED accountsVars
  PROVE  AccountsInv'
<1>1. CASE UNCHANGED accountsVars
  BY <1>1 DEF accountsVars, AccountsInv, AccountsTyped, AccountsTypeOK, SheetsApart, TableShown, CredShown, AccountsSpin
<1>2. CASE AccountsNext
  BY <1>2, AccountsQuery, AccountsCred, AccountsDialogs, AccountsWrites, AccountsAnswered DEF AccountsNext, Editors
<1>3. QED
  BY <1>1, <1>2
-----------------------------------------------------------------------------
(***************************************************************************)
(* The storage page                                                        *)
(***************************************************************************)
PaneKinds == {"list", "items", "page", "create", "delete", "write", "value", "put", "alter"}

\* A request about a container names one, with the account that owns it, and carries nothing of another.
Sound(f) ==
  /\ f.pane \notin {"list", "create"} => f.box \in Boxes
  /\ f.box # None => OwnerOf[f.box] = f.account \/ f.astray
  /\ f.from \subseteq {f.box} \/ f.doubt
  /\ f.pane = "page" => f.service = "kv"

StorageTyped ==
  /\ StorageTypeOK
  /\ \A f \in Range(flights) : Sound(f)

\* Until the accounts are known nothing is shown or asked for.
NothingYet ==
  account = None =>
    /\ Range(flights) = {} /\ astray = {}
    /\ \A s \in Services : lists[s] = {} /\ chosen[s] = None /\ items[s] = {}

\* A list that is shown was asked for, or came astray.
ListsAsked == \A s \in Services : lists[s] # {} => s \in asked \/ <<s, "list">> \in astray

StorageSpin == \A p \in busy : \E f \in Range(flights) : p \in Flag(f)

\* Rows of another container are under the spinner or in doubt.
RowsHere ==
  \A s \in Services : <<s, "items">> \notin astray =>
    items[s] \subseteq {chosen[s]} \/ (s = "d1" /\ BoxAsked(s)) \/ (s = "r2" /\ Loading(s, "items"))

\* An open dialog that is not in doubt holds what came from the selected container.
DialogsHere ==
  /\ editor.open /\ ~editor.doubt => editor.from \subseteq {chosen["kv"]} \/ chosen["kv"] = None
  /\ schema.open /\ ~schema.doubt => schema.from \subseteq {chosen["d1"]} \/ chosen["d1"] = None

StorageInv ==
  StorageTyped /\ NothingYet /\ ListsOwn /\ ItemsOwn /\ TabAsked /\ ListsAsked /\ StorageSpin /\ RowsHere /\ DialogsHere

LEMMA StorageFlags ==
  /\ \A f \in StorageRequest : Flag(f) \subseteq Panes
  /\ \A f \in StorageRequest : \A s : <<s, "list">> \in Flag(f) => f.service = s /\ f.pane = "list"
  /\ \A f \in StorageRequest : \A s : <<s, "items">> \in Flag(f) => f.service = s /\ f.pane \in {"items", "page"}
  /\ \A f : f.pane \in {"create", "delete", "write", "value", "put", "alter"} => Flag(f) = {}
<1>1. ASSUME NEW f \in StorageRequest PROVE Flag(f) \subseteq Panes
  BY DEF StorageRequest, Flag, Panes
<1>2. ASSUME NEW f \in StorageRequest, NEW s, <<s, "list">> \in Flag(f) PROVE f.service = s /\ f.pane = "list"
  BY <1>2 DEF StorageRequest, Flag
<1>3. ASSUME NEW f, f.pane \in {"create", "delete", "write", "value", "put", "alter"} PROVE Flag(f) = {}
  BY <1>3 DEF Flag
<1>4. ASSUME NEW f \in StorageRequest, NEW s, <<s, "items">> \in Flag(f)
      PROVE  f.service = s /\ f.pane \in {"items", "page"}
  BY <1>4 DEF StorageRequest, Flag
<1>5. QED
  BY <1>1, <1>2, <1>3, <1>4

LEMMA StorageStart == ASSUME StorageInit PROVE StorageInv
<1>1. Range(flights) = {} /\ flights \in Seq(StorageRequest)
  BY FewInFlight DEF StorageInit
<1>2. StorageTyped
  BY <1>1 DEF StorageInit, StorageTyped, StorageTypeOK, Services, StorageDialog, Unused
<1>3. NothingYet /\ ListsOwn /\ ItemsOwn /\ TabAsked /\ ListsAsked /\ StorageSpin /\ RowsHere /\ DialogsHere
  BY <1>1
     DEF StorageInit, NothingYet, ListsOwn, ItemsOwn, TabAsked, ListsAsked, StorageSpin, RowsHere, DialogsHere, Unused
<1>4. QED
  BY <1>2, <1>3 DEF StorageInv

LEMMA StorageSent ==
  ASSUME StorageInv, NEW rs \in Seq(StorageRequest), Send(rs)
  PROVE  /\ flights' \in Seq(StorageRequest) /\ Range(flights') = Range(flights) \cup Range(rs)
         /\ busy' = busy \cup UNION {Flag(f) : f \in Range(rs)} /\ busy' \subseteq Panes
<1>1. flights \in Seq(StorageRequest) /\ busy \subseteq Panes
  BY DEF StorageInv, StorageTyped, StorageTypeOK
<1>2. \A f \in Range(rs) : Flag(f) \subseteq Panes
  BY StorageFlags, RangeTyped
<1>3. busy' = busy \cup UNION {Flag(f) : f \in Range(rs)} /\ flights' = flights \o rs
  BY DEF Send, Raised
<1>4. QED
  BY <1>1, <1>2, <1>3, Joined

LEMMA StorageSentOne ==
  ASSUME StorageInv, NEW f \in StorageRequest, Send(<<f>>)
  PROVE  /\ flights' \in Seq(StorageRequest) /\ Range(flights') = Range(flights) \cup {f}
         /\ busy' = busy \cup Flag(f) /\ busy' \subseteq Panes
<1>1. <<f>> \in Seq(StorageRequest) /\ Range(<<f>>) = {f}
  BY FewInFlight
<1>2. /\ flights' \in Seq(StorageRequest) /\ Range(flights') = Range(flights) \cup Range(<<f>>)
      /\ busy' = busy \cup UNION {Flag(e) : e \in Range(<<f>>)} /\ busy' \subseteq Panes
  BY <1>1, StorageSent
<1>3. QED
  BY <1>1, <1>2

LEMMA StorageSettled ==
  ASSUME StorageInv, NEW i \in 1..Len(flights), NEW rs \in Seq(StorageRequest), Settle(i, rs)
  PROVE  /\ flights' \in Seq(StorageRequest)
         /\ Range(flights') \subseteq Range(flights) \cup Range(rs)
         /\ Range(rs) \subseteq Range(flights')
         /\ \A f \in Range(flights) : f = flights[i] \/ f \in Range(flights')
         /\ busy' = (busy \ Flag(flights[i])) \cup UNION {Flag(f) : f \in Range(rs)}
         /\ busy' \subseteq Panes
<1>1. flights \in Seq(StorageRequest) /\ busy \subseteq Panes
  BY DEF StorageInv, StorageTyped, StorageTypeOK
<1>2. \A f \in Range(rs) : Flag(f) \subseteq Panes
  BY StorageFlags, RangeTyped
<1>3. busy' = (busy \ Flag(flights[i])) \cup UNION {Flag(f) : f \in Range(rs)} /\ flights' = RemoveAt(flights, i) \o rs
  BY DEF Settle, Raised
<1>4. QED
  BY <1>1, <1>2, <1>3, Answered

LEMMA StorageSettledNone ==
  ASSUME StorageInv, NEW i \in 1..Len(flights), Settle(i, <<>>)
  PROVE  /\ flights' \in Seq(StorageRequest)
         /\ Range(flights') \subseteq Range(flights)
         /\ \A f \in Range(flights) : f = flights[i] \/ f \in Range(flights')
         /\ busy' = busy \ Flag(flights[i]) /\ busy' \subseteq Panes
<1>1. <<>> \in Seq(StorageRequest) /\ Range(<<>>) = {}
  BY FewInFlight
<1>2. /\ flights' \in Seq(StorageRequest)
      /\ Range(flights') \subseteq Range(flights) \cup Range(<<>>)
      /\ \A f \in Range(flights) : f = flights[i] \/ f \in Range(flights')
      /\ busy' = (busy \ Flag(flights[i])) \cup UNION {Flag(f) : f \in Range(<<>>)}
      /\ busy' \subseteq Panes
  BY <1>1, StorageSettled
<1>3. QED
  BY <1>1, <1>2

LEMMA StorageSettledOne ==
  ASSUME StorageInv, NEW i \in 1..Len(flights), NEW e \in StorageRequest, Settle(i, <<e>>)
  PROVE  /\ flights' \in Seq(StorageRequest)
         /\ Range(flights') \subseteq Range(flights) \cup {e}
         /\ e \in Range(flights')
         /\ \A f \in Range(flights) : f = flights[i] \/ f \in Range(flights')
         /\ busy' = (busy \ Flag(flights[i])) \cup Flag(e) /\ busy' \subseteq Panes
<1>1. <<e>> \in Seq(StorageRequest) /\ Range(<<e>>) = {e}
  BY FewInFlight
<1>2. /\ flights' \in Seq(StorageRequest)
      /\ Range(flights') \subseteq Range(flights) \cup Range(<<e>>)
      /\ Range(<<e>>) \subseteq Range(flights')
      /\ \A f \in Range(flights) : f = flights[i] \/ f \in Range(flights')
      /\ busy' = (busy \ Flag(flights[i])) \cup UNION {Flag(f) : f \in Range(<<e>>)}
      /\ busy' \subseteq Panes
  BY <1>1, StorageSettled
<1>3. QED
  BY <1>1, <1>2

\* A request for an account that is selected with it.
LEMMA StorageAsksFor ==
  ASSUME NEW s \in Services, NEW pane \in PaneKinds, NEW b \in Boxes \cup {None}, NEW a \in Accounts
  PROVE  LET f == [Request(s, pane, b) EXCEPT !.account = a]
         IN  f \in StorageRequest /\ f.box = b /\ f.pane = pane /\ f.from = {}
<1> DEFINE r == Request(s, pane, b)
<1>1. /\ r \in [service : Services, pane : PaneKinds, account : {account}, box : Boxes \cup {None},
                 from : SUBSET Boxes, astray : BOOLEAN, doubt : BOOLEAN]
      /\ r.service = s /\ r.pane = pane /\ r.box = b /\ r.from = {}
  BY DEF Request
<1> HIDE DEF r
<1>2. LET f == [r EXCEPT !.account = a]
      IN  f \in StorageRequest /\ f.box = b /\ f.pane = pane /\ f.from = {}
  BY <1>1 DEF StorageRequest, PaneKinds
<1>3. QED
  BY <1>2 DEF r

\* A request that knows whether the list that has just come is astray.
LEMMA StorageAsksAfter ==
  ASSUME NEW s \in Services, NEW pane \in PaneKinds, NEW b \in Boxes \cup {None}, NEW old \in BOOLEAN,
         account \in Accounts
  PROVE  LET e == [Request(s, pane, b) EXCEPT !.astray = old]
         IN  /\ e \in StorageRequest /\ e.service = s /\ e.pane = pane /\ e.account = account /\ e.box = b
             /\ e.from = {} /\ e.astray = old
<1> DEFINE r == Request(s, pane, b)
<1>1. /\ r \in [service : Services, pane : PaneKinds, account : {account}, box : Boxes \cup {None},
                 from : SUBSET Boxes, astray : BOOLEAN, doubt : BOOLEAN]
      /\ r.service = s /\ r.pane = pane /\ r.box = b /\ r.from = {}
  BY DEF Request
<1> HIDE DEF r
<1>2. LET e == [r EXCEPT !.astray = old]
      IN  /\ e \in StorageRequest /\ e.service = s /\ e.pane = pane /\ e.account = account /\ e.box = b
          /\ e.from = {} /\ e.astray = old
  BY <1>1 DEF StorageRequest, PaneKinds
<1>3. QED
  BY <1>2 DEF r

\* What the requests of the selected account are.
LEMMA StorageAsksHere ==
  ASSUME StorageInv, account # None, NEW s \in Services, NEW pane \in PaneKinds, NEW b \in Boxes \cup {None}
  PROVE  LET f == Request(s, pane, b)
         IN  /\ f \in StorageRequest
             /\ f.service = s /\ f.pane = pane /\ f.account = account /\ f.box = b
             /\ f.astray = (<<s, "list">> \in astray) /\ f.from = {}
<1>1. account \in Accounts
  BY DEF StorageInv, StorageTyped, StorageTypeOK
<1>2. QED
  BY <1>1 DEF Request, StorageRequest, PaneKinds

\* A container that is listed, or selected, belongs to the selected account, or the list is astray.
LEMMA StorageBoxes ==
  ASSUME StorageInv, NEW s \in Services, NEW b \in Boxes, b = chosen[s] \/ OwnerOf[b] \in lists[s]
  PROVE  /\ account # None
         /\ OwnerOf[b] = account \/ <<s, "list">> \in astray
<1>1. b # None
  BY StorageAssumption
<1>2. account # None
  BY <1>1 DEF StorageInv, NothingYet
<1>3. OwnerOf[b] = account \/ <<s, "list">> \in astray
  BY <1>1 DEF StorageInv, ListsOwn
<1>4. QED
  BY <1>2, <1>3

\* A request about a container that is listed or selected.
LEMMA StorageAsksBox ==
  ASSUME StorageInv, NEW s \in Services, NEW pane \in PaneKinds, NEW b \in Boxes,
         b = chosen[s] \/ OwnerOf[b] \in lists[s], pane = "page" => s = "kv"
  PROVE  LET f == Request(s, pane, b)
         IN  f \in StorageRequest /\ f.service = s /\ f.pane = pane /\ f.box = b /\ Sound(f)
<1> DEFINE f == Request(s, pane, b)
<1>1. account # None /\ (OwnerOf[b] = account \/ <<s, "list">> \in astray)
  BY StorageBoxes
<1>2. /\ f \in StorageRequest
      /\ f.service = s /\ f.pane = pane /\ f.account = account /\ f.box = b
      /\ f.astray = (<<s, "list">> \in astray) /\ f.from = {}
  BY <1>1, StorageAsksHere
<1>3. Sound(f)
  BY <1>1, <1>2 DEF Sound
<1>4. QED
  BY <1>2, <1>3

\* A request about no container.
LEMMA StorageAsksList ==
  ASSUME StorageInv, account # None, NEW s \in Services, NEW pane \in {"list", "create"}
  PROVE  LET f == Request(s, pane, None)
         IN  f \in StorageRequest /\ f.service = s /\ f.pane = pane /\ f.box = None /\ f.account = account /\ Sound(f)
<1> DEFINE f == Request(s, pane, None)
<1>0. account \in Accounts
  BY DEF StorageInv, StorageTyped, StorageTypeOK
<1>1. /\ f \in StorageRequest
      /\ f.service = s /\ f.pane = pane /\ f.account = account /\ f.box = None /\ f.from = {}
  BY <1>0 DEF Request, StorageRequest
<1>2. Sound(f)
  BY <1>1 DEF Sound
<1>4. QED
  BY <1>1, <1>2

\* A request about the selected container that carries a row or a form.
LEMMA StorageCarries ==
  ASSUME StorageInv, NEW s \in Services, NEW pane \in {"write", "value", "put", "alter"}, chosen[s] # None,
         NEW from \in SUBSET Boxes, NEW doubt \in BOOLEAN, from \subseteq {chosen[s]} \/ doubt
  PROVE  LET f == Carrying(s, pane, from, doubt)
         IN  f \in StorageRequest /\ Sound(f)
<1> DEFINE r == Request(s, pane, chosen[s])
           f == [r EXCEPT !.from = from, !.doubt = doubt]
<1>1. f = Carrying(s, pane, from, doubt)
  BY DEF Carrying
<1>2. chosen[s] \in Boxes
  BY DEF StorageInv, StorageTyped, StorageTypeOK
<1>3. r \in StorageRequest /\ r.service = s /\ r.pane = pane /\ r.box = chosen[s] /\ Sound(r)
  BY <1>2, StorageAsksBox DEF PaneKinds
<1> HIDE DEF r
<1>4. /\ f \in StorageRequest /\ f.service = s /\ f.pane = pane /\ f.box = chosen[s]
      /\ f.from = from /\ f.doubt = doubt /\ f.account = r.account /\ f.astray = r.astray
  BY <1>3 DEF StorageRequest
<1>5. Sound(f)
  BY <1>2, <1>3, <1>4 DEF Sound
<1> HIDE DEF f
<1>6. QED
  BY <1>1, <1>4, <1>5

\* A request is sent, and nothing else happens.
LEMMA StorageSends ==
  ASSUME StorageInv, account # None, NEW f \in StorageRequest, Send(<<f>>), Sound(f),
         UNCHANGED <<account, tab, lists, chosen, items, more, editor, schema, asked, astray>>
  PROVE  StorageInv'
<1>1. /\ flights' \in Seq(StorageRequest) /\ Range(flights') = Range(flights) \cup {f}
      /\ busy' = busy \cup Flag(f) /\ busy' \subseteq Panes
  BY StorageSentOne
<1>2. StorageTyped'
  BY <1>1 DEF StorageInv, StorageTyped, StorageTypeOK
<1>3. NothingYet' /\ ListsOwn' /\ ListsAsked'
  BY DEF StorageInv, NothingYet, ListsOwn, ListsAsked
<1>4. ItemsOwn' /\ TabAsked' /\ StorageSpin'
  BY <1>1 DEF StorageInv, ItemsOwn, BoxAsked, TabAsked, StorageSpin
<1>5. RowsHere' /\ DialogsHere'
  BY <1>1 DEF StorageInv, RowsHere, DialogsHere, BoxAsked, Loading
<1>6. QED
  BY <1>2, <1>3, <1>4, <1>5 DEF StorageInv

LEMMA StorageCommands ==
  ASSUME StorageInv, \/ \E s \in Services : CreateBox(s) \/ ChangeItem(s) \/ \E b \in Boxes : DeleteBox(s, b)
                     \/ \E s \in {"kv", "r2"} : Reload(s)
                     \/ LoadMore \/ ViewKvValue \/ SaveKv \/ AlterTable
  PROVE  StorageInv'
<1>1. UNCHANGED <<account, tab, lists, chosen, items, more, editor, schema, asked, astray>>
  BY DEF CreateBox, ChangeItem, DeleteBox, Reload, LoadMore, ViewKvValue, SaveKv, AlterTable
<1>2. {"kv", "r2"} \subseteq Services /\ "kv" \in Services /\ "d1" \in Services
  BY DEF Services
<1>3. ASSUME NEW s \in Services, NEW pane \in PaneKinds, NEW b \in Boxes, b = chosen[s] \/ OwnerOf[b] \in lists[s],
             pane = "page" => s = "kv", Send(<<Request(s, pane, b)>>)
      PROVE  StorageInv'
  <2> DEFINE f == Request(s, pane, b)
  <2>1. f \in StorageRequest /\ Sound(f)
    BY <1>3, StorageAsksBox
  <2>2. account # None /\ Send(<<f>>)
    BY <1>3, StorageBoxes
  <2> HIDE DEF f
  <2>3. QED
    BY <1>1, <2>1, <2>2, StorageSends
<1>4. ASSUME NEW s \in Services, NEW pane \in PaneKinds, chosen[s] # None, pane = "page" => s = "kv",
             Send(<<Request(s, pane, chosen[s])>>)
      PROVE  StorageInv'
  <2>1. chosen[s] \in Boxes
    BY <1>4 DEF StorageInv, StorageTyped, StorageTypeOK
  <2>2. QED
    BY <1>3, <1>4, <2>1
<1>5. ASSUME NEW s \in Services, CreateBox(s) PROVE StorageInv'
  <2> DEFINE f == Request(s, "create", None)
  <2>1. account # None /\ Send(<<f>>)
    BY <1>5 DEF CreateBox
  <2>2. f \in StorageRequest /\ Sound(f)
    BY <2>1, StorageAsksList
  <2> HIDE DEF f
  <2>3. QED
    BY <1>1, <2>1, <2>2, StorageSends
<1>13. ASSUME NEW s \in Services, NEW pane \in {"write", "value", "put", "alter"}, chosen[s] # None,
              NEW from \in SUBSET Boxes, NEW doubt \in BOOLEAN, from \subseteq {chosen[s]} \/ doubt,
              Send(<<Carrying(s, pane, from, doubt)>>)
       PROVE  StorageInv'
  <2> DEFINE f == Carrying(s, pane, from, doubt)
  <2>1. f \in StorageRequest /\ Sound(f)
    BY <1>13, StorageCarries
  <2>2. chosen[s] \in Boxes
    BY <1>13 DEF StorageInv, StorageTyped, StorageTypeOK
  <2>3. account # None /\ Send(<<f>>)
    BY <1>13, <2>2, StorageBoxes
  <2> HIDE DEF f
  <2>4. QED
    BY <1>1, <2>1, <2>3, StorageSends
\* A row that is shown without a spinner comes from the selected container, or is in doubt.
<1>14. ASSUME NEW s \in Services, NEW b \in items[s], RowsFree(s)
       PROVE  {b} \in SUBSET Boxes /\ RowsDoubted(s) \in BOOLEAN /\ ({b} \subseteq {chosen[s]} \/ RowsDoubted(s))
  BY <1>14 DEF StorageInv, StorageTyped, StorageTypeOK, RowsHere, RowsDoubted, RowsFree
<1>6. ASSUME NEW s \in Services, ChangeItem(s) PROVE StorageInv'
  <2>1. chosen[s] # None
    BY <1>6 DEF ChangeItem
  <2>2. CASE Send(<<Request(s, "write", chosen[s])>>)
    BY <1>4, <2>1, <2>2 DEF PaneKinds
  <2>3. CASE RowsFree(s) /\ \E b \in items[s] : Send(<<Carrying(s, "write", {b}, RowsDoubted(s))>>)
    BY <1>13, <1>14, <2>1, <2>3
  <2>4. QED
    BY <1>6, <2>2, <2>3 DEF ChangeItem
<1>7. ASSUME NEW s \in Services, NEW b \in Boxes, DeleteBox(s, b) PROVE StorageInv'
  BY <1>3, <1>7 DEF DeleteBox, PaneKinds
<1>8. ASSUME NEW s \in {"kv", "r2"}, Reload(s) PROVE StorageInv'
  BY <1>2, <1>4, <1>8 DEF Reload, LoadItems, PaneKinds
<1>9. CASE LoadMore
  BY <1>2, <1>4, <1>9 DEF LoadMore, PaneKinds
<1>10. CASE ViewKvValue
  BY <1>2, <1>10, <1>13, <1>14 DEF ViewKvValue
<1>11. CASE SaveKv
  <2>1. chosen["kv"] # None /\ editor.open /\ Send(<<Carrying("kv", "put", editor.from, editor.doubt)>>)
    BY <1>11 DEF SaveKv
  <2>2. editor.from \in SUBSET Boxes /\ editor.doubt \in BOOLEAN /\ (editor.from \subseteq {chosen["kv"]} \/ editor.doubt)
    BY <2>1 DEF StorageInv, StorageTyped, StorageTypeOK, StorageDialog, DialogsHere
  <2>3. QED
    BY <1>2, <1>13, <2>1, <2>2
<1>15. CASE AlterTable
  <2>1. chosen["d1"] # None /\ schema.open /\ Send(<<Carrying("d1", "alter", schema.from, schema.doubt)>>)
    BY <1>15 DEF AlterTable
  <2>2. schema.from \in SUBSET Boxes /\ schema.doubt \in BOOLEAN /\ (schema.from \subseteq {chosen["d1"]} \/ schema.doubt)
    BY <2>1 DEF StorageInv, StorageTyped, StorageTypeOK, StorageDialog, DialogsHere
  <2>3. QED
    BY <1>2, <1>13, <2>1, <2>2
<1>12. QED
  BY <1>5, <1>6, <1>7, <1>8, <1>9, <1>10, <1>11, <1>15

\* A dialog that holds what is selected, or is in doubt, and nothing else that changes.
LEMMA StorageEditor ==
  ASSUME StorageInv, OpenKvEditor \/ CloseKvEditor \/ OpenSchema \/ CloseSchema
  PROVE  StorageInv'
<1>1. UNCHANGED <<account, tab, lists, chosen, items, more, busy, flights, asked, astray>>
  BY DEF OpenKvEditor, CloseKvEditor, OpenSchema, CloseSchema
<1>2. editor \in StorageDialog /\ schema \in StorageDialog /\ items["d1"] \subseteq Boxes
  BY DEF StorageInv, StorageTyped, StorageTypeOK, Services
<1>3. editor' \in StorageDialog /\ schema' \in StorageDialog /\ DialogsHere'
  <2>1. CASE OpenKvEditor
    BY <1>1, <1>2, <2>1 DEF OpenKvEditor, StorageDialog, StorageInv, DialogsHere
  <2>2. CASE CloseKvEditor
    BY <1>1, <1>2, <2>2 DEF CloseKvEditor, Closed, StorageDialog, StorageInv, DialogsHere
  <2>3. CASE OpenSchema
    <3>1. PICK b \in items["d1"] : schema' = [open |-> TRUE, from |-> {b}, doubt |-> RowsDoubted("d1")]
      BY <2>3 DEF OpenSchema
    <3>2. RowsDoubted("d1") \in BOOLEAN /\ ({b} \subseteq {chosen["d1"]} \/ RowsDoubted("d1"))
      BY <3>1 DEF StorageInv, RowsHere, RowsDoubted, Services
    <3>3. editor' = editor
      BY <2>3 DEF OpenSchema
    <3>4. QED
      BY <1>1, <1>2, <3>1, <3>2, <3>3 DEF StorageDialog, StorageInv, DialogsHere
  <2>4. CASE CloseSchema
    BY <1>1, <1>2, <2>4 DEF CloseSchema, Closed, StorageDialog, StorageInv, DialogsHere
  <2>5. QED
    BY <2>1, <2>2, <2>3, <2>4
<1>4. QED
  BY <1>1, <1>3
     DEF StorageInv, StorageTyped, StorageTypeOK, NothingYet, ListsOwn, ItemsOwn, BoxAsked, TabAsked, ListsAsked,
         StorageSpin, RowsHere, Loading

\* The accounts arrive, or another is selected: nothing of the previous one is left.
LEMMA StorageSelect ==
  ASSUME StorageInv, NEW a \in Accounts, MountStorage(a) \/ SelectStorageAccount(a)
  PROVE  StorageInv'
<1>1. tab' = TabFor(a) /\ tab' \in Services /\ account' = a /\ a # None
  BY StorageAssumption
     DEF MountStorage, SelectStorageAccount, TabFor, Services, StorageInv, StorageTyped, StorageTypeOK
<1>2. /\ \A s \in Services : lists'[s] = {} /\ chosen'[s] = None /\ items'[s] = {}
      /\ lists' \in [Services -> SUBSET Accounts] /\ chosen' \in [Services -> Boxes \cup {None}]
      /\ items' \in [Services -> SUBSET Boxes] /\ more' \in BOOLEAN
      /\ editor' = editor /\ schema' = schema
  BY DEF MountStorage, SelectStorageAccount, resetStorageCaches, StorageInv, StorageTyped, StorageTypeOK, NothingYet
<1>3. /\ asked' \subseteq Services /\ astray' \subseteq Panes
      /\ tab' \in asked' \/ <<tab', "list">> \in astray'
  BY <1>1 DEF MountStorage, SelectStorageAccount, Services, Panes, StorageInv, StorageTyped, StorageTypeOK
<1>4. \E rs \in Seq(StorageRequest) : Send(rs) /\ \A f \in Range(rs) : f.box = None /\ f.pane = "list" /\ f.from = {}
  <2>1. ASSUME NEW f \in StorageRequest, f.box = None, f.pane = "list", f.from = {}, Send(<<f, f>>) \/ Send(<<f>>)
        PROVE  \E rs \in Seq(StorageRequest) : Send(rs) /\ \A e \in Range(rs) : e.box = None /\ e.pane = "list" /\ e.from = {}
    <3>1. /\ <<f, f>> \in Seq(StorageRequest) /\ Range(<<f, f>>) = {f}
          /\ <<f>> \in Seq(StorageRequest) /\ Range(<<f>>) = {f}
      BY FewInFlight
    <3>2. QED
      BY <2>1, <3>1
  <2>2. CASE MountStorage(a)
    <3> DEFINE f == [LoadList("kv") EXCEPT !.account = a]
    <3>1. f \in StorageRequest /\ f.box = None /\ f.pane = "list" /\ f.from = {}
      <4>1. "kv" \in Services /\ "list" \in PaneKinds /\ None \in Boxes \cup {None}
        BY DEF PaneKinds, Services
      <4> DEFINE e == [Request("kv", "list", None) EXCEPT !.account = a]
      <4>2. e \in StorageRequest /\ e.box = None /\ e.pane = "list" /\ e.from = {}
        BY <4>1, StorageAsksFor
      <4>3. f = e
        BY DEF LoadList
      <4> HIDE DEF e, f
      <4>4. QED
        BY <4>2, <4>3
    <3>2. Send(<<f, f>>) \/ Send(<<f>>)
      BY <2>2 DEF MountStorage
    <3> HIDE DEF f
    <3>4. QED
      BY <2>1, <3>1, <3>2
  <2>3. CASE SelectStorageAccount(a)
    <3> DEFINE f == [LoadList(tab') EXCEPT !.account = a, !.astray = FALSE]
    <3>1. f \in StorageRequest /\ f.box = None /\ f.pane = "list" /\ f.from = {}
      BY <1>1 DEF LoadList, Request, StorageRequest
    <3>2. Send(<<f, f>>) \/ Send(<<f>>)
      BY <2>3 DEF SelectStorageAccount
    <3> HIDE DEF f
    <3>3. QED
      BY <2>1, <3>1, <3>2
  <2>4. QED
    BY <2>2, <2>3
<1>5. PICK rs \in Seq(StorageRequest) : Send(rs) /\ \A f \in Range(rs) : f.box = None /\ f.pane = "list" /\ f.from = {}
  BY <1>4
<1>6. /\ flights' \in Seq(StorageRequest) /\ Range(flights') = Range(flights) \cup Range(rs)
      /\ busy' = busy \cup UNION {Flag(f) : f \in Range(rs)} /\ busy' \subseteq Panes
  BY <1>5, StorageSent
<1>7. StorageTyped'
  BY <1>1, <1>2, <1>3, <1>5, <1>6 DEF StorageInv, StorageTyped, StorageTypeOK, Sound
<1>8. NothingYet' /\ ListsOwn' /\ ItemsOwn' /\ ListsAsked' /\ TabAsked' /\ RowsHere' /\ DialogsHere'
  BY <1>1, <1>2, <1>3 DEF NothingYet, ListsOwn, ItemsOwn, ListsAsked, TabAsked, RowsHere, DialogsHere, Services
<1>9. StorageSpin'
  BY <1>6 DEF StorageInv, StorageSpin
<1>10. QED
  BY <1>7, <1>8, <1>9 DEF StorageInv

LEMMA StorageTab ==
  ASSUME StorageInv, NEW s \in Services, OpenTab(s)
  PROVE  StorageInv'
<1>1. tab' = s /\ UNCHANGED <<account, lists, chosen, items, more, editor, schema, astray>>
  BY DEF OpenTab
<1>2. CASE account # None /\ lists[s] = {} /\ ~Loading(s, "list")
  <2> DEFINE f == LoadList(s)
  <2>1. f \in StorageRequest /\ Sound(f)
    BY <1>2, StorageAsksList DEF LoadList
  <2>2. Send(<<f>>) /\ asked' = asked \cup {s}
    BY <1>2 DEF OpenTab
  <2> HIDE DEF f
  <2>3. /\ flights' \in Seq(StorageRequest) /\ Range(flights') = Range(flights) \cup {f}
        /\ busy' = busy \cup Flag(f) /\ busy' \subseteq Panes
    BY <2>1, <2>2, StorageSentOne
  <2>4. StorageTyped'
    BY <1>1, <2>1, <2>2, <2>3 DEF StorageInv, StorageTyped, StorageTypeOK
  <2>5. NothingYet' /\ ListsOwn' /\ ListsAsked' /\ TabAsked'
    BY <1>1, <1>2, <2>2 DEF StorageInv, NothingYet, ListsOwn, ListsAsked, TabAsked
  <2>6. ItemsOwn' /\ StorageSpin' /\ RowsHere' /\ DialogsHere'
    BY <1>1, <2>3 DEF StorageInv, ItemsOwn, BoxAsked, StorageSpin, RowsHere, DialogsHere, Loading
  <2>7. QED
    BY <2>4, <2>5, <2>6 DEF StorageInv
<1>3. CASE ~(account # None /\ lists[s] = {} /\ ~Loading(s, "list"))
  <2>1. UNCHANGED <<busy, flights, asked>>
    BY <1>3 DEF OpenTab
  <2>2. TabAsked'
    <3>1. CASE account = None
      BY <1>1, <3>1 DEF TabAsked
    <3>2. CASE lists[s] # {}
      BY <1>1, <2>1, <3>2 DEF StorageInv, ListsAsked, TabAsked
    <3>3. CASE Loading(s, "list")
      <4>1. PICK f \in Range(flights) : <<s, "list">> \in Flag(f)
        BY <3>3 DEF StorageInv, StorageSpin, Loading
      <4>2. f \in StorageRequest
        BY RangeTyped DEF StorageInv, StorageTyped, StorageTypeOK
      <4>3. f.service = s /\ f.pane = "list"
        BY <4>1, <4>2, StorageFlags
      <4>4. QED
        BY <1>1, <2>1, <4>3 DEF TabAsked
    <3>4. QED
      BY <1>3, <3>1, <3>2, <3>3
  <2>3. QED
    BY <1>1, <2>1, <2>2
       DEF StorageInv, StorageTyped, StorageTypeOK, NothingYet, ListsOwn, ItemsOwn, BoxAsked, ListsAsked, StorageSpin,
           RowsHere, DialogsHere, Loading
<1>4. QED
  BY <1>2, <1>3

\* A container is selected: its contents are asked for, and those of another are dropped or stay until then.
LEMMA StorageChoose ==
  ASSUME StorageInv, NEW b \in Boxes, SelectKvNamespace(b) \/ SelectD1Database(b) \/ SelectR2Bucket(b)
  PROVE  StorageInv'
<1>1. PICK s \in Services :
        /\ OwnerOf[b] \in lists[s] /\ chosen' = [chosen EXCEPT ![s] = b] /\ Send(<<LoadItems(s, b)>>)
        /\ items' \in {items, [items EXCEPT ![s] = {}]}
        /\ more' \in {more, FALSE} /\ astray' \in {astray, astray \ {<<"kv", "items">>}}
        /\ \A z \in Services : <<z, "items">> \notin astray' => z = s \/ <<z, "items">> \notin astray
        /\ s = "kv" => items' = [items EXCEPT ![s] = {}]
        /\ Clickable /\ UNCHANGED <<account, tab, lists, editor, schema, asked>>
  BY DEF SelectKvNamespace, SelectD1Database, SelectR2Bucket, Services
<1> DEFINE f == LoadItems(s, b)
<1>2. f \in StorageRequest /\ f.service = s /\ f.pane = "items" /\ f.box = b /\ Sound(f)
  BY <1>1, StorageAsksBox DEF LoadItems, PaneKinds
<1>3. account # None /\ (OwnerOf[b] = account \/ <<s, "list">> \in astray) /\ Send(<<f>>)
  BY <1>1, StorageBoxes
<1> HIDE DEF f
<1>4. /\ flights' \in Seq(StorageRequest) /\ Range(flights') = Range(flights) \cup {f}
      /\ busy' = busy \cup Flag(f) /\ busy' \subseteq Panes
  BY <1>2, <1>3, StorageSentOne
<1>5. /\ chosen \in [Services -> Boxes \cup {None}] /\ items \in [Services -> SUBSET Boxes]
      /\ more \in BOOLEAN /\ astray \subseteq Panes
  BY DEF StorageInv, StorageTyped, StorageTypeOK
<1>6. /\ chosen' \in [Services -> Boxes \cup {None}] /\ chosen'[s] = b
      /\ \A z \in Services : z # s => chosen'[z] = chosen[z]
  BY <1>1, <1>5
<1>7. items' \in [Services -> SUBSET Boxes] /\ \A z \in Services : z # s => items'[z] = items[z]
  BY <1>1, <1>5
<1>8. StorageTyped'
  BY <1>1, <1>2, <1>4, <1>5, <1>6, <1>7 DEF StorageInv, StorageTyped, StorageTypeOK
<1>9. \A z : <<z, "list">> \in astray' <=> <<z, "list">> \in astray
  BY <1>1
<1>10. NothingYet' /\ ListsOwn' /\ ListsAsked'
  BY <1>1, <1>3, <1>6, <1>9 DEF StorageInv, NothingYet, ListsOwn, ListsAsked
<1>11. ItemsOwn'
  <2> SUFFICES ASSUME NEW z \in Services, <<z, "items">> \notin astray'
               PROVE  items'[z] \subseteq {chosen'[z]} \/ BoxAsked(z)'
    BY DEF ItemsOwn
  <2>1. CASE z = s
    BY <1>2, <1>4, <1>6, <2>1 DEF BoxAsked
  <2>2. CASE z # s
    BY <1>1, <1>4, <1>6, <1>7, <2>2 DEF StorageInv, ItemsOwn, BoxAsked
  <2>3. QED
    BY <2>1, <2>2
<1>12. TabAsked' /\ StorageSpin'
  BY <1>1, <1>4, <1>9 DEF StorageInv, TabAsked, StorageSpin
<1>14. RowsHere'
  <2> SUFFICES ASSUME NEW z \in Services, <<z, "items">> \notin astray'
               PROVE  \/ items'[z] \subseteq {chosen'[z]} \/ (z = "d1" /\ BoxAsked(z)')
                      \/ (z = "r2" /\ Loading(z, "items")')
    BY DEF RowsHere
  <2>1. CASE z = s
    <3>1. CASE s = "kv"
      BY <1>1, <1>5, <2>1, <3>1
    <3>2. CASE s = "d1"
      BY <1>2, <1>4, <1>6, <2>1, <3>2 DEF BoxAsked
    <3>3. CASE s = "r2"
      BY <1>2, <1>4, <2>1, <3>3 DEF Loading, Flag
    <3>4. QED
      BY <3>1, <3>2, <3>3 DEF Services
  <2>2. CASE z # s
    BY <1>1, <1>4, <1>6, <1>7, <2>2 DEF StorageInv, RowsHere, BoxAsked, Loading
  <2>3. QED
    BY <2>1, <2>2
<1>15. DialogsHere'
  BY <1>1 DEF DialogsHere, Clickable
<1>13. QED
  BY <1>8, <1>10, <1>11, <1>12, <1>14, <1>15 DEF StorageInv

LEMMA StorageListed ==
  ASSUME StorageInv, NEW i \in 1..Len(flights), NEW ok \in BOOLEAN, ListAnswer(i, ok)
  PROVE  StorageInv'
<1> DEFINE f == flights[i]
           s == f.service
           new == IF ok THEN {f.account} \cap Range(OwnerOf) ELSE {}
           first == s = "d1" /\ new # {} /\ chosen["d1"] = None
<1>1. f \in StorageRequest /\ f \in Range(flights) /\ f.pane = "list"
  BY Removed DEF StorageInv, StorageTyped, StorageTypeOK, ListAnswer
<1>2. s \in Services /\ f.account \in Accounts /\ new \subseteq {f.account}
  BY <1>1 DEF StorageRequest
<1>3. account # None
  BY <1>1 DEF StorageInv, NothingYet
<1>4. lists' = [lists EXCEPT ![s] = new] /\ UNCHANGED <<account, tab, items, more, editor>>
  BY DEF ListAnswer
<1>9. ASSUME NEW z \in Services PROVE <<z, "items">> \notin Flag(f)
  BY <1>1, StorageFlags
<1>10. schema \in StorageDialog
  BY DEF StorageInv, StorageTyped, StorageTypeOK
<1>5. /\ f.account = account => asked' = asked \cup {s} /\ astray' = astray
      /\ f.account # account => asked' = asked /\ astray' = astray \cup {<<s, "list">>}
  BY DEF ListAnswer
<1>6. CASE first
  <2>1. PICK b \in Boxes :
          /\ OwnerOf[b] = f.account /\ chosen' = [chosen EXCEPT !["d1"] = b]
          /\ Settle(i, <<[LoadItems("d1", b) EXCEPT !.astray = <<"d1", "list">> \in astray']>>)
          /\ schema' = [schema EXCEPT !.doubt = schema.open]
    BY <1>6 DEF ListAnswer
  <2> DEFINE e == [LoadItems("d1", b) EXCEPT !.astray = <<"d1", "list">> \in astray']
  <2> DEFINE old == <<"d1", "list">> \in astray'
  <2>3. /\ e \in StorageRequest /\ e.service = "d1" /\ e.pane = "items" /\ e.account = account /\ e.box = b
        /\ e.from = {} /\ (<<"d1", "list">> \in astray' => e.astray)
    <3>1. account \in Accounts /\ old \in BOOLEAN /\ (<<"d1", "list">> \in astray' => old)
      BY <1>3 DEF StorageInv, StorageTyped, StorageTypeOK
    <3> HIDE DEF old
    <3> DEFINE d == [Request("d1", "items", b) EXCEPT !.astray = old]
    <3>2. "d1" \in Services /\ "items" \in PaneKinds /\ b \in Boxes \cup {None}
      BY DEF PaneKinds, Services
    <3>3. /\ d \in StorageRequest /\ d.service = "d1" /\ d.pane = "items" /\ d.account = account /\ d.box = b
          /\ d.from = {} /\ d.astray = old
      BY <3>1, <3>2, StorageAsksAfter
    <3>4. e = d
      BY DEF LoadItems, old
    <3> HIDE DEF d, e
    <3>5. QED
      BY <3>1, <3>3, <3>4
  <2>4. Sound(e)
    BY <1>5, <1>6, <2>1, <2>3 DEF Sound
  <2>5. Settle(i, <<e>>) /\ s = "d1"
    BY <1>6, <2>1
  <2> HIDE DEF e, f, new
  <2>6. /\ flights' \in Seq(StorageRequest) /\ Range(flights') \subseteq Range(flights) \cup {e} /\ e \in Range(flights')
        /\ \A z \in Range(flights) : z = f \/ z \in Range(flights')
        /\ busy' = (busy \ Flag(f)) \cup Flag(e) /\ busy' \subseteq Panes
    BY <2>3, <2>5, StorageSettledOne DEF f
  <2>7. /\ lists' \in [Services -> SUBSET Accounts] /\ lists'[s] = new /\ \A z \in Services : z # s => lists'[z] = lists[z]
    BY <1>2, <1>4 DEF StorageInv, StorageTyped, StorageTypeOK
  <2>8. /\ chosen' \in [Services -> Boxes \cup {None}] /\ chosen'[s] = b
        /\ \A z \in Services : z # s => chosen'[z] = chosen[z]
    BY <1>2, <2>1, <2>5 DEF StorageInv, StorageTyped, StorageTypeOK
  <2>9. asked' \subseteq Services /\ astray' \subseteq Panes
    BY <1>2, <1>5 DEF StorageInv, StorageTyped, StorageTypeOK, Panes
  <2>16. schema' \in StorageDialog /\ (schema'.open => schema'.doubt)
    BY <1>10, <2>1 DEF StorageDialog
  <2>10. StorageTyped'
    BY <1>4, <2>4, <2>6, <2>7, <2>8, <2>9, <2>16 DEF StorageInv, StorageTyped, StorageTypeOK
  <2>11. NothingYet' /\ ListsOwn' /\ ListsAsked'
    <3>1. NothingYet'
      BY <1>3, <1>4 DEF NothingYet
    <3>2. ListsOwn'
      BY <1>2, <1>4, <1>5, <2>1, <2>7, <2>8 DEF StorageInv, ListsOwn
    <3>3. ListsAsked'
      BY <1>5, <2>7 DEF StorageInv, ListsAsked
    <3>4. QED
      BY <3>1, <3>2, <3>3
  <2>12. ItemsOwn'
    <3> SUFFICES ASSUME NEW z \in Services, <<z, "items">> \notin astray'
                 PROVE  items'[z] \subseteq {chosen'[z]} \/ BoxAsked(z)'
      BY DEF ItemsOwn
    <3>1. CASE z = s
      BY <2>3, <2>5, <2>6, <2>8, <3>1 DEF BoxAsked
    <3>2. CASE z # s
      BY <1>1, <1>4, <1>5, <2>6, <2>8, <3>2 DEF StorageInv, ItemsOwn, BoxAsked
    <3>3. QED
      BY <3>1, <3>2
  <2>13. TabAsked'
    BY <1>1, <1>4, <1>5, <2>6 DEF StorageInv, TabAsked
  <2>14. StorageSpin'
    BY <2>6 DEF StorageInv, StorageSpin
  <2>17. RowsHere'
    <3> SUFFICES ASSUME NEW z \in Services, <<z, "items">> \notin astray'
                 PROVE  \/ items'[z] \subseteq {chosen'[z]} \/ (z = "d1" /\ BoxAsked(z)')
                        \/ (z = "r2" /\ Loading(z, "items")')
      BY DEF RowsHere
    <3>1. CASE z = s
      BY <2>3, <2>5, <2>6, <2>8, <3>1 DEF BoxAsked
    <3>2. CASE z # s
      BY <1>4, <1>5, <1>9, <2>5, <2>6, <2>8, <3>2 DEF StorageInv, RowsHere, Loading
    <3>3. QED
      BY <3>1, <3>2
  <2>18. DialogsHere'
    BY <1>4, <2>5, <2>8, <2>16 DEF StorageInv, DialogsHere, Services
  <2>15. QED
    BY <2>10, <2>11, <2>12, <2>13, <2>14, <2>17, <2>18 DEF StorageInv
<1>7. CASE ~first
  <2>1. chosen' = chosen /\ schema' = schema /\ Settle(i, <<>>)
    BY <1>7 DEF ListAnswer
  <2> HIDE DEF f, new
  <2>2. /\ flights' \in Seq(StorageRequest) /\ Range(flights') \subseteq Range(flights)
        /\ \A z \in Range(flights) : z = f \/ z \in Range(flights')
        /\ busy' = busy \ Flag(f) /\ busy' \subseteq Panes
    BY <2>1, StorageSettledNone DEF f
  <2>3. /\ lists' \in [Services -> SUBSET Accounts] /\ lists'[s] = new /\ \A z \in Services : z # s => lists'[z] = lists[z]
    BY <1>2, <1>4 DEF StorageInv, StorageTyped, StorageTypeOK
  <2>4. asked' \subseteq Services /\ astray' \subseteq Panes
    BY <1>2, <1>5 DEF StorageInv, StorageTyped, StorageTypeOK, Panes
  <2>5. StorageTyped'
    BY <1>4, <2>1, <2>2, <2>3, <2>4 DEF StorageInv, StorageTyped, StorageTypeOK
  <2>6. NothingYet' /\ ListsOwn' /\ ListsAsked'
    BY <1>2, <1>3, <1>4, <1>5, <2>1, <2>3 DEF StorageInv, NothingYet, ListsOwn, ListsAsked
  <2>7. ItemsOwn'
    BY <1>1, <1>4, <1>5, <2>1, <2>2 DEF StorageInv, ItemsOwn, BoxAsked
  <2>8. TabAsked' /\ StorageSpin'
    BY <1>1, <1>4, <1>5, <2>2 DEF StorageInv, TabAsked, StorageSpin
  <2>10. RowsHere'
    BY <1>1, <1>4, <1>5, <1>9, <2>1, <2>2 DEF StorageInv, RowsHere, BoxAsked, Loading
  <2>11. DialogsHere'
    BY <1>4, <2>1 DEF StorageInv, DialogsHere
  <2>9. QED
    BY <2>5, <2>6, <2>7, <2>8, <2>10, <2>11 DEF StorageInv
<1>8. QED
  BY <1>6, <1>7

LEMMA StorageRead ==
  ASSUME StorageInv, NEW i \in 1..Len(flights), NEW ok \in BOOLEAN, ItemsAnswer(i, ok)
  PROVE  StorageInv'
<1> DEFINE f == flights[i]
           s == f.service
           read == Contents(f, ok)
<1>1. f \in StorageRequest /\ f \in Range(flights) /\ f.pane \in {"items", "page"}
  BY Removed DEF StorageInv, StorageTyped, StorageTypeOK, ItemsAnswer
<1>2. s \in Services /\ f.box \in Boxes /\ read \subseteq {f.box}
  BY <1>1 DEF StorageInv, StorageTyped, Sound, StorageRequest, Contents
<1>3. Settle(i, <<>>) /\ UNCHANGED <<account, tab, lists, chosen, editor, schema, asked>>
  BY DEF ItemsAnswer
<1>4. /\ f.pane = "items" \/ read = {} => items' = [items EXCEPT ![s] = read]
      /\ f.pane = "page" /\ read # {} => items' = [items EXCEPT ![s] = items[s] \cup read]
  BY <1>1 DEF ItemsAnswer
<1>5. /\ f.box # chosen[s] => astray' = astray \cup {<<s, "items">>}
      /\ f.box = chosen[s] => astray' = IF f.pane = "items" THEN astray \ {<<s, "items">>} ELSE astray
  BY DEF ItemsAnswer
<1>6. account # None
  BY <1>1 DEF StorageInv, NothingYet
<1>7. more' \in BOOLEAN
  <2>1. more \in BOOLEAN
    BY DEF StorageInv, StorageTyped, StorageTypeOK
  <2>2. more' = more \/ more' \in (IF read # {} THEN BOOLEAN ELSE {more, FALSE})
    BY DEF ItemsAnswer
  <2>3. QED
    BY <2>1, <2>2
<1> HIDE DEF f, read
<1>8. /\ flights' \in Seq(StorageRequest) /\ Range(flights') \subseteq Range(flights)
      /\ \A z \in Range(flights) : z = f \/ z \in Range(flights')
      /\ busy' = busy \ Flag(f) /\ busy' \subseteq Panes
  BY <1>3, StorageSettledNone DEF f
<1>9. items \in [Services -> SUBSET Boxes] /\ read \subseteq Boxes /\ items[s] \subseteq Boxes
  BY <1>2 DEF StorageInv, StorageTyped, StorageTypeOK
<1>10. /\ items' \in [Services -> SUBSET Boxes]
       /\ items'[s] = IF f.pane = "page" /\ read # {} THEN items[s] \cup read ELSE read
       /\ \A z \in Services : z # s => items'[z] = items[z]
  <2>1. CASE f.pane = "page" /\ read # {}
    BY <1>2, <1>4, <1>9, <2>1
  <2>2. CASE ~(f.pane = "page" /\ read # {})
    BY <1>1, <1>2, <1>4, <1>9, <2>2
  <2>3. QED
    BY <2>1, <2>2
<1>11. astray' \subseteq Panes /\ \A z : <<z, "list">> \in astray' <=> <<z, "list">> \in astray
  BY <1>2, <1>5 DEF StorageInv, StorageTyped, StorageTypeOK, Panes
<1>12. StorageTyped'
  BY <1>3, <1>7, <1>8, <1>10, <1>11 DEF StorageInv, StorageTyped, StorageTypeOK
<1>13. NothingYet' /\ ListsOwn' /\ ListsAsked'
  BY <1>3, <1>6, <1>11 DEF StorageInv, NothingYet, ListsOwn, ListsAsked
<1>14. ItemsOwn'
  <2> SUFFICES ASSUME NEW z \in Services, <<z, "items">> \notin astray'
               PROVE  items'[z] \subseteq {chosen'[z]} \/ BoxAsked(z)'
    BY DEF ItemsOwn
  <2>1. CASE z # s
    <3>1. <<z, "items">> \notin astray
      BY <1>5, <2>1
    <3>2. items[z] \subseteq {chosen[z]} \/ BoxAsked(z)
      BY <3>1 DEF StorageInv, ItemsOwn
    <3>3. QED
      BY <1>3, <1>8, <1>10, <2>1, <3>2 DEF BoxAsked
  <2>2. CASE z = s
    <3>1. f.box = chosen[s]
      BY <1>5, <2>2
    <3>2. CASE ~(f.pane = "page" /\ read # {})
      BY <1>2, <1>3, <1>10, <2>2, <3>1, <3>2
    <3>3. CASE f.pane = "page" /\ read # {}
      <4>1. items[s] \subseteq {chosen[s]} \/ BoxAsked(s)
        BY <1>2, <1>5, <2>2, <3>1, <3>3 DEF StorageInv, ItemsOwn
      <4>2. CASE items[s] \subseteq {chosen[s]}
        BY <1>2, <1>3, <1>10, <2>2, <3>1, <3>3, <4>2
      <4>3. CASE BoxAsked(s)
        BY <1>3, <1>8, <2>2, <3>3, <4>3 DEF BoxAsked
      <4>4. QED
        BY <4>1, <4>2, <4>3
    <3>4. QED
      BY <3>2, <3>3
  <2>3. QED
    BY <2>1, <2>2
<1>15. TabAsked' /\ StorageSpin'
  BY <1>1, <1>3, <1>8, <1>11 DEF StorageInv, TabAsked, StorageSpin
<1>17. RowsHere'
  <2> SUFFICES ASSUME NEW z \in Services, <<z, "items">> \notin astray'
               PROVE  \/ items'[z] \subseteq {chosen'[z]} \/ (z = "d1" /\ BoxAsked(z)')
                      \/ (z = "r2" /\ Loading(z, "items")')
    BY DEF RowsHere
  <2>1. CASE z # s
    <3>1. <<z, "items">> \notin astray /\ <<z, "items">> \notin Flag(f)
      BY <1>1, <1>5, <2>1, StorageFlags
    <3>2. items[z] \subseteq {chosen[z]} \/ (z = "d1" /\ BoxAsked(z)) \/ (z = "r2" /\ Loading(z, "items"))
      BY <3>1 DEF StorageInv, RowsHere
    <3>3. QED
      BY <1>3, <1>8, <1>10, <2>1, <3>1, <3>2 DEF BoxAsked, Loading
  <2>2. CASE z = s
    <3>1. f.box = chosen[s]
      BY <1>5, <2>2
    <3>2. CASE ~(f.pane = "page" /\ read # {})
      BY <1>2, <1>3, <1>10, <2>2, <3>1, <3>2
    <3>3. CASE f.pane = "page" /\ read # {}
      <4>1. s = "kv"
        BY <1>1, <3>3 DEF StorageInv, StorageTyped, Sound
      <4>2. items[s] \subseteq {chosen[s]}
        BY <1>2, <1>5, <2>2, <3>1, <3>3, <4>1 DEF StorageInv, RowsHere
      <4>3. QED
        BY <1>2, <1>3, <1>10, <2>2, <3>1, <3>3, <4>2
    <3>4. QED
      BY <3>2, <3>3
  <2>3. QED
    BY <2>1, <2>2
<1>18. DialogsHere'
  BY <1>3 DEF StorageInv, DialogsHere
<1>16. QED
  BY <1>12, <1>13, <1>14, <1>15, <1>17, <1>18 DEF StorageInv

\* A value opens the editor; a request about a container that was created, deleted or changed loads what is selected.
LEMMA StorageChanged ==
  ASSUME StorageInv, NEW i \in 1..Len(flights), NEW ok \in BOOLEAN,
         ValueAnswer(i, ok) \/ BoxAnswer(i, ok) \/ WriteAnswer(i, ok) \/ AlterAnswer(i, ok)
  PROVE  StorageInv'
<1> DEFINE f == flights[i]
           s == f.service
<1>1. f \in StorageRequest /\ f \in Range(flights) /\ f.pane \in {"create", "delete", "write", "value", "put", "alter"}
  BY Removed DEF StorageInv, StorageTyped, StorageTypeOK, ValueAnswer, BoxAnswer, WriteAnswer, AlterAnswer
<1>2. s \in Services
  BY <1>1 DEF StorageRequest
<1>3. account # None
  BY <1>1 DEF StorageInv, NothingYet
<1>4. UNCHANGED <<account, tab, lists, more, asked, astray>>
  BY DEF ValueAnswer, BoxAnswer, WriteAnswer, AlterAnswer
<1>5. \/ UNCHANGED <<chosen, items>>
      \/ chosen' = [chosen EXCEPT ![s] = None] /\ items' = [items EXCEPT ![s] = {}]
  BY DEF ValueAnswer, BoxAnswer, WriteAnswer, AlterAnswer
<1>6. Settle(i, <<>>) \/ \E e \in StorageRequest : Settle(i, <<e>>) /\ Sound(e)
  <2>1. CASE ValueAnswer(i, ok)
    BY <2>1 DEF ValueAnswer
  <2>2. CASE BoxAnswer(i, ok)
    <3> DEFINE e == LoadList(s)
    <3>1. e \in StorageRequest /\ Sound(e)
      BY <1>2, <1>3, StorageAsksList DEF LoadList
    <3>2. Settle(i, <<e>>) \/ Settle(i, <<>>)
      BY <2>2 DEF BoxAnswer
    <3> HIDE DEF e
    <3>3. QED
      BY <3>1, <3>2
  <2>3. CASE WriteAnswer(i, ok)
    <3> DEFINE e == LoadItems(s, chosen[s])
    <3>1. chosen[s] # None => e \in StorageRequest /\ Sound(e)
      <4>1. chosen[s] # None => chosen[s] \in Boxes
        BY <1>2 DEF StorageInv, StorageTyped, StorageTypeOK
      <4>2. QED
        BY <1>2, <4>1, StorageAsksBox DEF LoadItems, PaneKinds
    <3>2. (chosen[s] # None /\ Settle(i, <<e>>)) \/ Settle(i, <<>>)
      BY <2>3 DEF WriteAnswer
    <3> HIDE DEF e
    <3>3. QED
      BY <3>1, <3>2
  <2>5. CASE AlterAnswer(i, ok)
    <3> DEFINE e == LoadItems("d1", chosen["d1"])
    <3>1. chosen["d1"] # None => e \in StorageRequest /\ Sound(e)
      <4>1. chosen["d1"] # None => chosen["d1"] \in Boxes
        BY DEF StorageInv, StorageTyped, StorageTypeOK, Services
      <4>2. QED
        BY <4>1, StorageAsksBox DEF LoadItems, PaneKinds, Services
    <3>2. (chosen["d1"] # None /\ Settle(i, <<e>>)) \/ Settle(i, <<>>)
      BY <2>5 DEF AlterAnswer
    <3> HIDE DEF e
    <3>3. QED
      BY <3>1, <3>2
  <2>4. QED
    BY <2>1, <2>2, <2>3, <2>5
<1>16. /\ editor \in StorageDialog /\ schema \in StorageDialog /\ DialogsHere
       /\ f.from \subseteq Boxes /\ f.doubt \in BOOLEAN /\ (f.from \subseteq {f.box} \/ f.doubt)
  BY <1>1 DEF StorageInv, StorageTyped, StorageTypeOK, StorageRequest, Sound
<1>17. editor' \in StorageDialog /\ schema' \in StorageDialog
  <2>1. CASE ValueAnswer(i, ok)
    <3> DEFINE read == Contents(f, ok)
               open == editor.open \/ read # {}
               doubt == open /\ (f.doubt \/ f.box # chosen["kv"])
    <3>1. f.box \in Boxes
      BY <1>1, <2>1 DEF ValueAnswer, StorageInv, StorageTyped, Sound
    <3>2. f.from \cup read \in SUBSET Boxes /\ open \in BOOLEAN /\ doubt \in BOOLEAN
      BY <1>16, <3>1 DEF Contents, StorageDialog
    <3>3. editor' = [open |-> open, from |-> f.from \cup read, doubt |-> doubt] /\ schema' = schema
      BY <2>1 DEF ValueAnswer
    <3> HIDE DEF read, open, doubt
    <3>4. QED
      BY <1>16, <3>2, <3>3 DEF StorageDialog
  <2>2. CASE BoxAnswer(i, ok)
    BY <1>16, <2>2 DEF BoxAnswer
  <2>3. CASE WriteAnswer(i, ok)
    <3>1. editor' \in {editor, Closed(editor)} /\ schema' = schema
      BY <2>3 DEF WriteAnswer
    <3>2. QED
      BY <1>16, <3>1 DEF Closed, StorageDialog
  <2>4. CASE AlterAnswer(i, ok)
    <3>1. /\ editor' = editor
          /\ schema' \in {schema, Closed(schema), [schema EXCEPT !.open = TRUE, !.doubt = schema.doubt \/ ~schema.open]}
      BY <2>4 DEF AlterAnswer
    <3>2. QED
      BY <1>16, <3>1 DEF Closed, StorageDialog
  <2>5. QED
    BY <2>1, <2>2, <2>3, <2>4
<1>18. DialogsHere'
  <2>1. CASE ValueAnswer(i, ok)
    <3>1. /\ editor'.from = f.from \cup Contents(f, ok) /\ schema' = schema /\ chosen' = chosen
          /\ editor'.open => editor'.doubt = (f.doubt \/ f.box # chosen["kv"])
      BY <2>1 DEF ValueAnswer
    <3>2. Contents(f, ok) \subseteq {f.box}
      BY DEF Contents
    <3>3. QED
      BY <1>16, <3>1, <3>2 DEF DialogsHere
  <2>2. CASE BoxAnswer(i, ok)
    <3>1. editor' = editor /\ schema' = schema
      BY <2>2 DEF BoxAnswer
    <3>2. \A z \in Services : chosen'[z] \in {chosen[z], None}
      BY <1>2, <1>5 DEF StorageInv, StorageTyped, StorageTypeOK
    <3>3. QED
      BY <1>16, <3>1, <3>2 DEF DialogsHere, Services
  <2>3. CASE WriteAnswer(i, ok)
    <3>1. editor' \in {editor, Closed(editor)} /\ schema' = schema /\ chosen' = chosen
      BY <2>3 DEF WriteAnswer
    <3>2. QED
      BY <1>16, <3>1 DEF Closed, StorageDialog, DialogsHere
  <2>4. CASE AlterAnswer(i, ok)
    <3>1. /\ editor' = editor /\ chosen' = chosen
          /\ schema' \in {schema, Closed(schema), [schema EXCEPT !.open = TRUE, !.doubt = schema.doubt \/ ~schema.open]}
      BY <2>4 DEF AlterAnswer
    <3>2. QED
      BY <1>16, <3>1 DEF Closed, StorageDialog, DialogsHere
  <2>5. QED
    BY <2>1, <2>2, <2>3, <2>4
<1>7. Flag(f) = {}
  BY <1>1, StorageFlags
<1> HIDE DEF f
<1>8. /\ flights' \in Seq(StorageRequest)
      /\ \A z \in Range(flights') : Sound(z)
      /\ \A z \in Range(flights) : z = f \/ z \in Range(flights')
      /\ \A p \in busy' : p \in busy \/ \E z \in Range(flights') : p \in Flag(z)
      /\ busy' \subseteq Panes
  <2>1. \A z \in Range(flights) : Sound(z)
    BY DEF StorageInv, StorageTyped
  <2>2. CASE Settle(i, <<>>)
    BY <2>1, <2>2, StorageSettledNone DEF f
  <2>3. ASSUME NEW e \in StorageRequest, Settle(i, <<e>>), Sound(e)
        PROVE  /\ flights' \in Seq(StorageRequest)
               /\ \A z \in Range(flights') : Sound(z)
               /\ \A z \in Range(flights) : z = f \/ z \in Range(flights')
               /\ \A p \in busy' : p \in busy \/ \E z \in Range(flights') : p \in Flag(z)
               /\ busy' \subseteq Panes
    <3>1. /\ flights' \in Seq(StorageRequest)
          /\ Range(flights') \subseteq Range(flights) \cup {e} /\ e \in Range(flights')
          /\ \A z \in Range(flights) : z = f \/ z \in Range(flights')
          /\ busy' = (busy \ Flag(f)) \cup Flag(e) /\ busy' \subseteq Panes
      BY <2>3, StorageSettledOne DEF f
    <3>2. QED
      BY <2>1, <2>3, <3>1
  <2>4. QED
    BY <1>6, <2>2, <2>3
<1>20. busy \subseteq busy'
  <2>1. CASE Settle(i, <<>>)
    BY <1>7, <2>1, StorageSettledNone DEF f
  <2>2. ASSUME NEW e \in StorageRequest, Settle(i, <<e>>) PROVE busy \subseteq busy'
    BY <1>7, <2>2, StorageSettledOne DEF f
  <2>3. QED
    BY <1>6, <2>1, <2>2
<1>9. /\ chosen' \in [Services -> Boxes \cup {None}] /\ items' \in [Services -> SUBSET Boxes]
      /\ \A z \in Services : (chosen'[z] = chosen[z] /\ items'[z] = items[z]) \/ (chosen'[z] = None /\ items'[z] = {})
  BY <1>2, <1>5 DEF StorageInv, StorageTyped, StorageTypeOK
<1>10. StorageTyped'
  BY <1>4, <1>8, <1>9, <1>17 DEF StorageInv, StorageTyped, StorageTypeOK
<1>11. NothingYet' /\ ListsOwn' /\ ListsAsked'
  BY <1>3, <1>4, <1>9 DEF StorageInv, NothingYet, ListsOwn, ListsAsked
<1>12. ItemsOwn'
  <2> SUFFICES ASSUME NEW z \in Services, <<z, "items">> \notin astray'
               PROVE  items'[z] \subseteq {chosen'[z]} \/ BoxAsked(z)'
    BY DEF ItemsOwn
  <2>1. items[z] \subseteq {chosen[z]} \/ BoxAsked(z)
    BY <1>4 DEF StorageInv, ItemsOwn
  <2>2. CASE chosen'[z] = None /\ items'[z] = {}
    BY <2>2
  <2>3. CASE chosen'[z] = chosen[z] /\ items'[z] = items[z]
    BY <1>1, <1>8, <2>1, <2>3 DEF BoxAsked
  <2>4. QED
    BY <1>9, <2>2, <2>3
<1>13. TabAsked'
  BY <1>1, <1>4, <1>8 DEF StorageInv, TabAsked
<1>14. StorageSpin'
  BY <1>7, <1>8 DEF StorageInv, StorageSpin
<1>19. RowsHere'
  <2> SUFFICES ASSUME NEW z \in Services, <<z, "items">> \notin astray'
               PROVE  \/ items'[z] \subseteq {chosen'[z]} \/ (z = "d1" /\ BoxAsked(z)')
                      \/ (z = "r2" /\ Loading(z, "items")')
    BY DEF RowsHere
  <2>1. items[z] \subseteq {chosen[z]} \/ (z = "d1" /\ BoxAsked(z)) \/ (z = "r2" /\ Loading(z, "items"))
    BY <1>4 DEF StorageInv, RowsHere
  <2>2. CASE chosen'[z] = None /\ items'[z] = {}
    BY <2>2
  <2>3. CASE chosen'[z] = chosen[z] /\ items'[z] = items[z]
    BY <1>1, <1>8, <1>20, <2>1, <2>3 DEF BoxAsked, Loading
  <2>4. QED
    BY <1>9, <2>2, <2>3
<1>15. QED
  BY <1>10, <1>11, <1>12, <1>13, <1>14, <1>18, <1>19 DEF StorageInv

LEMMA StorageStep ==
  ASSUME StorageInv, StorageNext \/ UNCHANGED storageVars
  PROVE  StorageInv'
<1>1. CASE UNCHANGED storageVars
  BY <1>1 DEF storageVars, StorageInv, StorageTyped, StorageTypeOK, NothingYet, ListsOwn, ItemsOwn, BoxAsked, TabAsked,
              ListsAsked, StorageSpin, RowsHere, DialogsHere, Loading
<1>2. ASSUME NEW i \in 1..Len(flights), StorageAnswer(i) PROVE StorageInv'
  BY <1>2, StorageListed, StorageRead, StorageChanged DEF StorageAnswer
<1>3. CASE StorageNext
  BY <1>2, <1>3, StorageSelect, StorageTab, StorageCommands, StorageChoose, StorageEditor DEF StorageNext
<1>4. QED
  BY <1>1, <1>3
-----------------------------------------------------------------------------
(***************************************************************************)
(* The workers page                                                        *)
(***************************************************************************)

\* The members of a finite set, one after another.
LEMMA SetListed ==
  ASSUME NEW S, IsFiniteSet(S)
  PROVE  SetToSeq(S) \in Seq(S) /\ Range(SetToSeq(S)) = S
<1> DEFINE n == Cardinality(S)
           s == SetToSeq(S)
<1>1. n \in Nat /\ ExistsBijection(1..n, S)
  BY FS_CardinalityType
<1>2. \E f \in [1..n -> S] : IsInjective(f)
  BY <1>1 DEF ExistsBijection, Bijection, Injection
<1>3. s \in [1..n -> S] /\ IsInjective(s)
  BY <1>2 DEF SetToSeq
<1>4. Cardinality(1..n) = n
  BY <1>1, FS_Interval
<1> HIDE DEF s
<1>5. s \in Surjection(1..n, S)
  <2>1. s \in Injection(1..n, S)
    BY <1>3 DEF Injection
  <2>2. QED
    BY <1>4, <2>1, FS_Injection
<1>6. s \in Seq(S)
  BY <1>1, <1>3
<1>7. Range(s) = S
  BY <1>3, <1>5 DEF Range, Surjection
<1>8. QED
  BY <1>6, <1>7 DEF s

Loaded == {"load", "reload"}

\* The script the drawer is open on, or nothing.
Here(w) == w \in {drawer, NoScript}

\* What the requests in flight are about.
Fit(f) ==
  /\ f.pane = "table" => f.kind \in {"load", "write"}
  /\ f.pane = "table" /\ f.kind = "load" => f.to \in Cards
  /\ f.pane # "table" \/ f.kind # "load" => f.to \in Scripts
  /\ f.kind # "load" => f.pane \in panes \cup {"table"}
  /\ f.pane \notin {"table", "logs"} => drawer \in Scripts

WorkersTyped ==
  /\ WorkersTypeOK
  /\ \A f \in Range(drawerFlights) : Fit(f)
  /\ drawerOpen => drawer \in Scripts
  /\ modal # "none" => drawerOpen /\ modal \in panes \cap Forms

\* The table is that of the selected card, and the log that of its row.
RowsShown ==
  \/ "table" \in drawerAstray
  \/ rowsOf \in {card, NoScript}
  \/ \E f \in Range(drawerFlights) : f.kind = "load" /\ f.pane = "table" /\ f.to = card

LogShown == logOf # NoScript /\ "logs" \notin drawerAstray => shown["logs"] \in {logOf, NoScript}

Coming(p) == \E f \in Range(drawerFlights) : f.kind \in Loaded /\ f.pane = p /\ f.to = drawer

\* A pane that does not load shows the open row; one that does may wait for it.
PanesShown ==
  \A p \in panes \ drawerAstray : Here(shown[p]) \/ (p \in spin /\ Coming(p))

\* The zones of a Pages drawer are asked for by its domain form.
ZonesShown ==
  \/ "zones" \in drawerAstray
  \/ Here(shown["zones"]) \/ Coming("zones")
  \/ OfPages /\ modal # "pagesDomains"

FormShown == modal # "none" /\ "form" \notin drawerAstray => Here(formOf)

ScriptsPaired == \A f \in Range(drawerFlights) : f.kind = "write" => f.from \in {f.to, NoScript} \/ f.astray

PanesSpin ==
  /\ \A p \in spin : \E f \in Range(drawerFlights) : f.kind \in Loaded /\ f.pane = p
  /\ \A p \in saving : \E f \in Range(drawerFlights) : f.kind # "load" /\ f.pane = p

WorkersInv ==
  WorkersTyped /\ RowsShown /\ LogShown /\ PanesShown /\ ZonesShown /\ FormShown /\ ScriptsPaired /\ PanesSpin

LEMMA FourMore ==
  ASSUME NEW S, IsFiniteSet(S), NEW a, NEW b, NEW c, NEW d
  PROVE  IsFiniteSet(S \cup {a, b, c, d})
<1>1. IsFiniteSet(S \cup {a})
  BY FS_AddElement
<1>2. IsFiniteSet((S \cup {a}) \cup {b})
  BY <1>1, FS_AddElement
<1>3. IsFiniteSet(((S \cup {a}) \cup {b}) \cup {c})
  BY <1>2, FS_AddElement
<1>4. IsFiniteSet((((S \cup {a}) \cup {b}) \cup {c}) \cup {d})
  BY <1>3, FS_AddElement
<1>5. (((S \cup {a}) \cup {b}) \cup {c}) \cup {d} = S \cup {a, b, c, d}
  OBVIOUS
<1>6. QED
  BY <1>4, <1>5

\* The panes are those of one kind of drawer.
LEMMA PanesKnown ==
  ASSUME panes \in PaneSets
  PROVE  /\ panes \subseteq Filled /\ IsFiniteSet(panes)
         /\ panes \cap {"table", "zones", "logs", "form", "none"} = {}
<1>1. panes \subseteq WorkerPanes \/ panes \subseteq PagesPanes
  BY WorkersViewAssumption
<1>2. IsFiniteSet(WorkerPanes \cup PagesPanes)
  <2> DEFINE A == {} \cup {"secrets", "schedules", "domains", "subdomain"}
             B == A \cup {"settings", "content", "deployments", "deployments"}
             C == B \cup {"project", "pagesDomains", "bindings", "pagesDeployments"}
  <2>1. IsFiniteSet(A)
    BY FS_EmptySet, FourMore
  <2> HIDE DEF A
  <2>2. IsFiniteSet(B)
    BY <2>1, FourMore
  <2> HIDE DEF B
  <2>3. IsFiniteSet(C)
    BY <2>2, FourMore
  <2>4. C = WorkerPanes \cup PagesPanes
    BY DEF A, B, WorkerPanes, PagesPanes
  <2>5. QED
    BY <2>3, <2>4
<1>3. IsFiniteSet(panes)
  BY <1>1, <1>2, FS_Subset
<1>4. panes \subseteq Filled
  BY <1>1 DEF Filled
<1>5. panes \cap {"table", "zones", "logs", "form", "none"} = {}
  BY <1>1 DEF WorkerPanes, PagesPanes
<1>6. QED
  BY <1>3, <1>4, <1>5

LEMMA PaneLoadIs ==
  ASSUME NEW kind \in {"load", "reload"}, NEW p \in Filled \cup {"table"}, NEW to \in Scripts \cup Cards
  PROVE  LET f == PaneLoad(kind, p, to)
         IN  f \in ScriptRequest /\ f.kind = kind /\ f.pane = p /\ f.to = to /\ f.from = NoScript
<1> DEFINE old == p \in spin \cup drawerAstray \/ (p = modal /\ "form" \in drawerAstray)
           e == [kind |-> kind, pane |-> p, to |-> to, from |-> NoScript, astray |-> old]
<1>1. PaneLoad(kind, p, to) = [e EXCEPT !.astray = FALSE]
  BY DEF PaneLoad, Asked
<1>2. old \in BOOLEAN
  OBVIOUS
<1> HIDE DEF old
<1>3. e \in ScriptRequest /\ e.kind = kind /\ e.pane = p /\ e.to = to /\ e.from = NoScript
  BY <1>2 DEF ScriptRequest
<1> HIDE DEF e
<1>4. QED
  BY <1>1, <1>3 DEF ScriptRequest

\* The loads of some panes, together.
LEMMA PanesLoaded ==
  ASSUME NEW ps, IsFiniteSet(ps), ps \subseteq Filled \cup {"table"}, NEW to \in Scripts \cup Cards
  PROVE  /\ PaneLoads(ps, to) \in Seq(ScriptRequest)
         /\ \A f \in Range(PaneLoads(ps, to)) :
              f.kind = "load" /\ f.pane \in ps /\ f.to = to /\ f.from = NoScript
         /\ \A p \in ps : \E f \in Range(PaneLoads(ps, to)) : f.kind = "load" /\ f.pane = p /\ f.to = to
<1> DEFINE load == [p \in ps |-> PaneLoad("load", p, to)]
           S == {PaneLoad("load", p, to) : p \in ps}
<1>1. load \in Surjection(ps, S)
  BY DEF Surjection
<1>2. IsFiniteSet(S)
  BY <1>1, FS_Surjection
<1>9. ASSUME NEW p \in ps
      PROVE  LET f == PaneLoad("load", p, to)
             IN  f \in ScriptRequest /\ f.kind = "load" /\ f.pane = p /\ f.to = to /\ f.from = NoScript
  BY PaneLoadIs
<1>3. \A f \in S : f \in ScriptRequest /\ f.kind = "load" /\ f.pane \in ps /\ f.to = to /\ f.from = NoScript
  BY <1>9
<1>4. \A p \in ps : \E f \in S : f.kind = "load" /\ f.pane = p /\ f.to = to
  BY <1>9
<1>5. PaneLoads(ps, to) = SetToSeq(S)
  BY DEF PaneLoads
<1> HIDE DEF S
<1>6. SetToSeq(S) \in Seq(S) /\ Range(SetToSeq(S)) = S
  BY <1>2, SetListed
<1>7. PaneLoads(ps, to) \in Seq(ScriptRequest)
  <2>1. S \subseteq ScriptRequest
    BY <1>3
  <2>2. Seq(S) \subseteq Seq(ScriptRequest)
    BY <2>1
  <2>3. QED
    BY <1>5, <1>6, <2>2
<1>8. QED
  BY <1>3, <1>4, <1>5, <1>6, <1>7

LEMMA WorkersStart == ASSUME WorkersInit PROVE WorkersInv
<1> DEFINE f == [kind |-> "load", pane |-> "table", to |-> card, from |-> NoScript, astray |-> FALSE]
<1>1. f \in ScriptRequest /\ f.kind = "load" /\ f.pane = "table" /\ f.to \in Cards
  BY DEF WorkersInit, ScriptRequest
<1>2. drawerFlights = <<f>>
  BY DEF WorkersInit
<1> HIDE DEF f
<1>3. drawerFlights \in Seq(ScriptRequest) /\ Range(drawerFlights) = {f}
  BY <1>1, <1>2, FewInFlight
<1>4. /\ panes \in PaneSets /\ card \in Cards /\ rowsOf = NoScript
      /\ drawer = NoScript /\ drawerOpen = FALSE /\ logOf = NoScript
      /\ shown = [p \in Filled |-> NoScript] /\ spin = {"table"}
      /\ modal = "none" /\ formOf = NoScript /\ saving = {} /\ drawerAstray = {}
  BY DEF WorkersInit
<1>5. panes \subseteq Filled /\ "zones" \in Filled
  BY <1>4, PanesKnown DEF Filled
<1>6. WorkersTyped
  BY <1>1, <1>3, <1>4 DEF WorkersTyped, WorkersTypeOK, Fit
<1>7. RowsShown /\ LogShown /\ PanesShown /\ ZonesShown /\ FormShown
  BY <1>4, <1>5 DEF RowsShown, LogShown, PanesShown, ZonesShown, FormShown, Here
<1>8. ScriptsPaired /\ PanesSpin
  BY <1>1, <1>3, <1>4 DEF ScriptsPaired, PanesSpin, Loaded
<1>9. QED
  BY <1>6, <1>7, <1>8 DEF WorkersInv

LEMMA Departed ==
  ASSUME WorkersInv, NEW fs \in Seq(ScriptRequest), Depart(fs)
  PROVE  /\ drawerFlights' \in Seq(ScriptRequest)
         /\ Range(drawerFlights') = Range(drawerFlights) \cup Range(fs)
BY Joined DEF Depart, WorkersInv, WorkersTyped, WorkersTypeOK

\* Some panes, or the table, or the log, are loaded, and nothing else happens in flight.
LEMMA DepartedLoads ==
  ASSUME WorkersInv, NEW ps, IsFiniteSet(ps), ps \subseteq Filled \cup {"table"}, NEW to \in Scripts \cup Cards,
         Depart(PaneLoads(ps, to))
  PROVE  /\ drawerFlights' \in Seq(ScriptRequest)
         /\ Range(drawerFlights) \subseteq Range(drawerFlights')
         /\ \A f \in Range(drawerFlights') : f \in Range(drawerFlights) \/ (f.kind = "load" /\ f.pane \in ps /\ f.to = to)
         /\ \A p \in ps : \E f \in Range(drawerFlights') : f.kind = "load" /\ f.pane = p /\ f.to = to
<1> DEFINE fs == PaneLoads(ps, to)
<1>1. /\ fs \in Seq(ScriptRequest)
      /\ \A f \in Range(fs) : f.kind = "load" /\ f.pane \in ps /\ f.to = to /\ f.from = NoScript
      /\ \A p \in ps : \E f \in Range(fs) : f.kind = "load" /\ f.pane = p /\ f.to = to
  BY PanesLoaded
<1> HIDE DEF fs
<1>2. drawerFlights' \in Seq(ScriptRequest) /\ Range(drawerFlights') = Range(drawerFlights) \cup Range(fs)
  BY <1>1, Departed DEF fs
<1>3. QED
  BY <1>1, <1>2

LEMMA OneFinite ==
  ASSUME NEW e PROVE IsFiniteSet({e})
BY FS_Singleton

\* The card, the log and the drawer: what is opened is loaded.
LEMMA WorkersCard ==
  ASSUME WorkersInv, NEW c \in Cards, SelectCard(c)
  PROVE  WorkersInv'
<1>1. /\ card' = c /\ spin' = spin \cup {"table"} /\ drawerAstray' = drawerAstray \ {"table"}
      /\ Depart(PaneLoads({"table"}, c))
      /\ UNCHANGED <<rowsOf, panes, drawer, drawerOpen, logOf, shown, modal, formOf, saving>>
  BY DEF SelectCard
<1>2. IsFiniteSet({"table"}) /\ {"table"} \subseteq Filled \cup {"table"} /\ c \in Scripts \cup Cards
  BY OneFinite
<1>3. /\ drawerFlights' \in Seq(ScriptRequest)
      /\ Range(drawerFlights) \subseteq Range(drawerFlights')
      /\ \A f \in Range(drawerFlights') : f \in Range(drawerFlights) \/ (f.kind = "load" /\ f.pane \in {"table"} /\ f.to = c)
      /\ \A p \in {"table"} : \E f \in Range(drawerFlights') : f.kind = "load" /\ f.pane = p /\ f.to = c
  BY <1>1, <1>2, DepartedLoads
<1>4. panes \in PaneSets /\ panes \subseteq Filled /\ "table" \notin panes
  BY PanesKnown DEF WorkersInv, WorkersTyped, WorkersTypeOK
<1>5. WorkersTyped'
  BY <1>1, <1>3 DEF WorkersInv, WorkersTyped, WorkersTypeOK, Fit
<1>6. RowsShown' /\ LogShown'
  BY <1>1, <1>3 DEF WorkersInv, RowsShown, LogShown
<1>7. PanesShown' /\ ZonesShown' /\ FormShown'
  BY <1>1, <1>3, <1>4 DEF WorkersInv, PanesShown, ZonesShown, FormShown, Here, Coming, OfPages
<1>8. ScriptsPaired' /\ PanesSpin'
  BY <1>1, <1>3 DEF WorkersInv, ScriptsPaired, PanesSpin, Loaded
<1>9. QED
  BY <1>5, <1>6, <1>7, <1>8 DEF WorkersInv

LEMMA WorkersLogs ==
  ASSUME WorkersInv, NEW w \in Scripts, ViewLogs(w)
  PROVE  WorkersInv'
<1>1. /\ logOf' = w /\ shown' = [shown EXCEPT !["logs"] = NoScript] /\ drawerAstray' = drawerAstray \ {"logs"}
      /\ Depart(PaneLoads({"logs"}, w))
      /\ UNCHANGED <<card, rowsOf, panes, drawer, drawerOpen, spin, modal, formOf, saving>>
  BY DEF ViewLogs
<1>2. IsFiniteSet({"logs"}) /\ {"logs"} \subseteq Filled \cup {"table"} /\ w \in Scripts \cup Cards
  BY OneFinite DEF Filled
<1>3. /\ drawerFlights' \in Seq(ScriptRequest)
      /\ Range(drawerFlights) \subseteq Range(drawerFlights')
      /\ \A f \in Range(drawerFlights') : f \in Range(drawerFlights) \/ (f.kind = "load" /\ f.pane \in {"logs"} /\ f.to = w)
  BY <1>1, <1>2, DepartedLoads
<1>4. panes \in PaneSets /\ panes \subseteq Filled /\ "logs" \notin panes /\ shown \in [Filled -> Scripts \cup {NoScript}]
      /\ "zones" \in Filled
  BY PanesKnown DEF WorkersInv, WorkersTyped, WorkersTypeOK, Filled
<1>5. /\ shown' \in [Filled -> Scripts \cup {NoScript}] /\ shown'["logs"] = NoScript
      /\ \A p \in Filled : p # "logs" => shown'[p] = shown[p]
  BY <1>1, <1>2, <1>4 DEF Filled
<1>6. WorkersTyped'
  BY <1>1, <1>3, <1>5 DEF WorkersInv, WorkersTyped, WorkersTypeOK, Fit
<1>7. RowsShown' /\ LogShown'
  BY <1>1, <1>3, <1>5 DEF WorkersInv, RowsShown, LogShown
<1>8. PanesShown' /\ ZonesShown' /\ FormShown'
  BY <1>1, <1>3, <1>4, <1>5 DEF WorkersInv, PanesShown, ZonesShown, FormShown, Here, Coming, OfPages
<1>9. ScriptsPaired' /\ PanesSpin'
  BY <1>1, <1>3 DEF WorkersInv, ScriptsPaired, PanesSpin
<1>10. QED
  BY <1>6, <1>7, <1>8, <1>9 DEF WorkersInv

LEMMA WorkersOpen ==
  ASSUME WorkersInv, NEW w \in Scripts, OpenSettings(w)
  PROVE  WorkersInv'
<1>1. /\ drawer' = w /\ drawerOpen' = TRUE /\ ~drawerOpen /\ logOf = NoScript
      /\ spin' = spin \cup panes /\ drawerAstray' = drawerAstray \ (panes \cup {"zones"})
      /\ shown' = IF OfPages THEN shown ELSE [shown EXCEPT !["zones"] = NoScript]
      /\ Depart(PaneLoads(panes, w))
      /\ UNCHANGED <<card, rowsOf, panes, logOf, modal, formOf, saving>>
  BY DEF OpenSettings, TableFree, Fill
<1>2. /\ panes \in PaneSets /\ panes \subseteq Filled /\ panes \cap {"table", "zones", "logs", "form", "none"} = {}
      /\ IsFiniteSet(panes) /\ panes \subseteq Filled \cup {"table"} /\ w \in Scripts \cup Cards
      /\ shown \in [Filled -> Scripts \cup {NoScript}] /\ "zones" \in Filled
  BY PanesKnown DEF WorkersInv, WorkersTyped, WorkersTypeOK, Filled
<1>3. /\ drawerFlights' \in Seq(ScriptRequest)
      /\ Range(drawerFlights) \subseteq Range(drawerFlights')
      /\ \A f \in Range(drawerFlights') : f \in Range(drawerFlights) \/ (f.kind = "load" /\ f.pane \in panes /\ f.to = w)
      /\ \A p \in panes : \E f \in Range(drawerFlights') : f.kind = "load" /\ f.pane = p /\ f.to = w
  BY <1>1, <1>2, DepartedLoads
<1>4. modal = "none"
  BY <1>1 DEF WorkersInv, WorkersTyped
<1>5. /\ shown' \in [Filled -> Scripts \cup {NoScript}] /\ (OfPages \/ shown'["zones"] = NoScript)
      /\ \A p \in Filled : p # "zones" => shown'[p] = shown[p]
  BY <1>1, <1>2
<1>6. WorkersTyped'
  BY <1>1, <1>2, <1>3, <1>4, <1>5 DEF WorkersInv, WorkersTyped, WorkersTypeOK, Fit
<1>7. RowsShown' /\ LogShown'
  BY <1>1, <1>2, <1>3, <1>5 DEF WorkersInv, RowsShown, LogShown, Filled
<1>8. PanesShown'
  BY <1>1, <1>3 DEF PanesShown, Coming, Loaded
<1>9. ZonesShown' /\ FormShown'
  BY <1>1, <1>4, <1>5 DEF ZonesShown, FormShown, Here, OfPages
<1>10. ScriptsPaired' /\ PanesSpin'
  BY <1>1, <1>3 DEF WorkersInv, ScriptsPaired, PanesSpin, Loaded
<1>11. QED
  BY <1>6, <1>7, <1>8, <1>9, <1>10 DEF WorkersInv

LEMMA WorkersRefresh ==
  ASSUME WorkersInv, NEW q \in panes, RefreshPane(q)
  PROVE  WorkersInv'
<1>1. /\ drawerOpen /\ spin' = spin \cup {q} /\ drawerAstray' = drawerAstray \ {q}
      /\ Depart(PaneLoads({q}, drawer))
      /\ UNCHANGED <<card, rowsOf, panes, drawer, drawerOpen, logOf, shown, modal, formOf, saving>>
  BY DEF RefreshPane, DrawerFree
<1>2. /\ panes \in PaneSets /\ panes \subseteq Filled /\ panes \cap {"table", "zones", "logs", "form", "none"} = {}
      /\ IsFiniteSet({q}) /\ {q} \subseteq Filled \cup {"table"} /\ drawer \in Scripts /\ drawer \in Scripts \cup Cards
  BY <1>1, PanesKnown, OneFinite DEF WorkersInv, WorkersTyped, WorkersTypeOK
<1>3. /\ drawerFlights' \in Seq(ScriptRequest)
      /\ Range(drawerFlights) \subseteq Range(drawerFlights')
      /\ \A f \in Range(drawerFlights') : f \in Range(drawerFlights) \/ (f.kind = "load" /\ f.pane \in {q} /\ f.to = drawer)
      /\ \A p \in {q} : \E f \in Range(drawerFlights') : f.kind = "load" /\ f.pane = p /\ f.to = drawer
  BY <1>1, <1>2, DepartedLoads
<1>4. WorkersTyped'
  BY <1>1, <1>2, <1>3 DEF WorkersInv, WorkersTyped, WorkersTypeOK, Fit
<1>5. RowsShown' /\ LogShown'
  BY <1>1, <1>2, <1>3 DEF WorkersInv, RowsShown, LogShown
<1>6. PanesShown' /\ ZonesShown' /\ FormShown'
  BY <1>1, <1>2, <1>3 DEF WorkersInv, PanesShown, ZonesShown, FormShown, Here, Coming, Loaded, OfPages
<1>7. ScriptsPaired' /\ PanesSpin'
  BY <1>1, <1>3 DEF WorkersInv, ScriptsPaired, PanesSpin, Loaded
<1>8. QED
  BY <1>4, <1>5, <1>6, <1>7 DEF WorkersInv

LEMMA WorkersCloses ==
  ASSUME WorkersInv, CloseLogs \/ CloseSettings \/ CloseForm
  PROVE  WorkersInv'
<1>1. /\ UNCHANGED <<card, rowsOf, panes, drawer, shown, spin, formOf, saving, drawerFlights, drawerAstray>>
      /\ logOf' \in {logOf, NoScript} /\ modal' \in {modal, "none"}
      /\ drawerOpen' = drawerOpen \/ (drawerOpen' = FALSE /\ modal' = "none")
  BY DEF CloseLogs, CloseSettings, CloseForm, DrawerFree
<1>2. WorkersTyped'
  <2>1. WorkersTypeOK'
    <3>1. drawerOpen \in BOOLEAN /\ drawerOpen' \in BOOLEAN
      BY <1>1 DEF WorkersInv, WorkersTyped, WorkersTypeOK
    <3>2. logOf' \in Scripts \cup {NoScript} /\ modal' \in Forms \cup {"none"}
      BY <1>1 DEF WorkersInv, WorkersTyped, WorkersTypeOK
    <3>3. QED
      BY <1>1, <3>1, <3>2 DEF WorkersInv, WorkersTyped, WorkersTypeOK
  <2>2. /\ \A f \in Range(drawerFlights') : Fit(f)'
        /\ drawerOpen' => drawer' \in Scripts
        /\ modal' # "none" => drawerOpen' /\ modal' \in panes' \cap Forms
    BY <1>1 DEF WorkersInv, WorkersTyped, Fit
  <2>3. QED
    BY <2>1, <2>2 DEF WorkersTyped
<1>3. RowsShown' /\ LogShown' /\ PanesShown' /\ ZonesShown' /\ FormShown'
  BY <1>1 DEF WorkersInv, RowsShown, LogShown, PanesShown, ZonesShown, FormShown, Here, Coming, OfPages
<1>4. ScriptsPaired' /\ PanesSpin'
  BY <1>1 DEF WorkersInv, ScriptsPaired, PanesSpin
<1>5. QED
  BY <1>2, <1>3, <1>4 DEF WorkersInv

LEMMA WorkersForms ==
  ASSUME WorkersInv, NEW q \in panes, OpenForm(q) \/ EditVar(q)
  PROVE  WorkersInv'
<1>1. /\ panes \in PaneSets /\ panes \subseteq Filled /\ panes \cap {"table", "zones", "logs", "form", "none"} = {}
      /\ shown \in [Filled -> Scripts \cup {NoScript}]
      /\ drawerAstray \subseteq Filled \cup {"table", "form"}
  BY PanesKnown DEF WorkersInv, WorkersTyped, WorkersTypeOK
<1>2. /\ UNCHANGED <<card, rowsOf, panes, drawer, drawerOpen, logOf, shown, spin, saving>>
      /\ modal' = q /\ q \in Forms /\ drawerOpen
      /\ formOf' \in {shown[q], NoScript}
  BY DEF OpenForm, EditVar, DrawerFree, Within, Forms
<1>3. drawer \in Scripts
  BY <1>2 DEF WorkersInv, WorkersTyped
<1>4. shown[q] \in Scripts \cup {NoScript} /\ (q \notin spin \cup drawerAstray => Here(shown[q]))
  BY <1>1 DEF WorkersInv, PanesShown
<1>5. \/ /\ Depart(PaneLoads({"zones"}, drawer)) /\ drawerAstray' = drawerAstray \ {"zones", "form"}
         /\ formOf' = NoScript
      \/ q # "pagesDomains" /\ drawerFlights' = drawerFlights /\ FromPane(q)
  BY DEF OpenForm, EditVar
<1>6. IsFiniteSet({"zones"}) /\ {"zones"} \subseteq Filled \cup {"table"} /\ drawer \in Scripts \cup Cards
  BY <1>3, OneFinite DEF Filled
<1>7. /\ drawerFlights' \in Seq(ScriptRequest)
      /\ Range(drawerFlights) \subseteq Range(drawerFlights')
      /\ \A f \in Range(drawerFlights') : f \in Range(drawerFlights) \/ (f.kind = "load" /\ f.pane = "zones" /\ f.to = drawer)
      /\ drawerAstray' \subseteq drawerAstray \cup {"form"}
      /\ \A p \in Filled \cup {"table"} : p \in drawerAstray =>
           p \in drawerAstray' \/ (p = "zones" /\ \E f \in Range(drawerFlights') : f.kind = "load" /\ f.pane = "zones" /\ f.to = drawer)
      /\ "form" \notin drawerAstray' => Here(formOf')
      /\ q = "pagesDomains" => \E f \in Range(drawerFlights') : f.kind = "load" /\ f.pane = "zones" /\ f.to = drawer
  <2>1. CASE Depart(PaneLoads({"zones"}, drawer)) /\ drawerAstray' = drawerAstray \ {"zones", "form"} /\ formOf' = NoScript
    <3>1. /\ drawerFlights' \in Seq(ScriptRequest)
          /\ Range(drawerFlights) \subseteq Range(drawerFlights')
          /\ \A f \in Range(drawerFlights') : f \in Range(drawerFlights) \/ (f.kind = "load" /\ f.pane \in {"zones"} /\ f.to = drawer)
          /\ \A p \in {"zones"} : \E f \in Range(drawerFlights') : f.kind = "load" /\ f.pane = p /\ f.to = drawer
      BY <1>6, <2>1, DepartedLoads
    <3>2. "form" \notin Filled \cup {"table"} /\ Here(formOf')
      BY <2>1 DEF Filled, WorkerPanes, PagesPanes, Here
    <3>3. QED
      BY <2>1, <3>1, <3>2
  <2>2. CASE q # "pagesDomains" /\ drawerFlights' = drawerFlights /\ FromPane(q)
    <3>1. "form" \notin Filled \cup {"table"} /\ Here(NoScript)
      BY DEF Filled, WorkerPanes, PagesPanes, Here
    <3>2. /\ q \in spin \cup drawerAstray => drawerAstray' = drawerAstray \cup {"form"}
          /\ q \notin spin \cup drawerAstray => drawerAstray' = drawerAstray \ {"form"}
      BY <2>2 DEF FromPane
    <3>3. drawerFlights \in Seq(ScriptRequest)
      BY DEF WorkersInv, WorkersTyped, WorkersTypeOK
    <3>4. "form" \notin drawerAstray' => Here(formOf')
      BY <1>2, <1>4, <3>1, <3>2
    <3>5. QED
      BY <2>2, <3>1, <3>2, <3>3, <3>4
  <2>3. QED
    BY <1>5, <2>1, <2>2
<1>8. WorkersTyped'
  <2>1. formOf' \in Scripts \cup {NoScript} /\ drawerAstray' \subseteq Filled \cup {"table", "form"}
    BY <1>1, <1>2, <1>4, <1>7
  <2>2. WorkersTypeOK'
    BY <1>2, <1>7, <2>1 DEF WorkersInv, WorkersTyped, WorkersTypeOK
  <2>3. \A f \in Range(drawerFlights') : Fit(f)'
    BY <1>2, <1>3, <1>7 DEF WorkersInv, WorkersTyped, Fit
  <2>4. QED
    BY <1>2, <1>3, <2>2, <2>3 DEF WorkersTyped
<1>9. RowsShown' /\ LogShown'
  <2>1. "logs" \in Filled
    BY DEF Filled
  <2>2. QED
    BY <1>2, <1>7, <2>1 DEF WorkersInv, RowsShown, LogShown
<1>10. PanesShown'
  <2>1. \A p \in panes : p \in drawerAstray => p \in drawerAstray'
    BY <1>1, <1>7
  <2>2. QED
    BY <1>2, <1>7, <2>1 DEF WorkersInv, PanesShown, Here, Coming
<1>11. ZonesShown'
  <2>1. "zones" \in Filled
    BY DEF Filled
  <2>2. CASE q = "pagesDomains"
    BY <1>2, <1>7, <2>2 DEF ZonesShown, Coming, Loaded
  <2>3. CASE q # "pagesDomains"
    BY <1>2, <1>7, <2>1, <2>3 DEF WorkersInv, ZonesShown, Here, Coming, Loaded, OfPages
  <2>4. QED
    BY <2>2, <2>3
<1>12. FormShown'
  BY <1>2, <1>7 DEF FormShown, Here
<1>13. ScriptsPaired' /\ PanesSpin'
  BY <1>2, <1>7 DEF WorkersInv, ScriptsPaired, PanesSpin
<1>14. QED
  BY <1>8, <1>9, <1>10, <1>11, <1>12, <1>13 DEF WorkersInv

\* A change is sent, or the reading it is made from, with what the pane or the form shows.
LEMMA WorkersChange ==
  ASSUME WorkersInv, NEW f \in ScriptRequest, Depart(<<f>>), Fit(f), f.kind # "load",
         f.kind = "write" => f.from \in {f.to, NoScript} \/ f.astray,
         saving' \subseteq saving \cup ({f.pane} \cap panes),
         UNCHANGED <<card, rowsOf, panes, drawer, drawerOpen, logOf, shown, spin, modal, formOf, drawerAstray>>
  PROVE  WorkersInv'
<1>1. Range(<<f>>) = {f} /\ <<f>> \in Seq(ScriptRequest)
  BY FewInFlight
<1>2. drawerFlights' \in Seq(ScriptRequest) /\ Range(drawerFlights') = Range(drawerFlights) \cup Range(<<f>>)
  BY <1>1, Departed
<1>3. Range(drawerFlights') = Range(drawerFlights) \cup {f}
  BY <1>1, <1>2
<1>4. WorkersTyped'
  BY <1>2, <1>3 DEF WorkersInv, WorkersTyped, WorkersTypeOK, Fit
<1>5. RowsShown' /\ LogShown' /\ PanesShown' /\ ZonesShown' /\ FormShown'
  BY <1>3 DEF WorkersInv, RowsShown, LogShown, PanesShown, ZonesShown, FormShown, Here, Coming, OfPages
<1>6. ScriptsPaired' /\ PanesSpin'
  BY <1>3 DEF WorkersInv, ScriptsPaired, PanesSpin
<1>7. QED
  BY <1>4, <1>5, <1>6 DEF WorkersInv

LEMMA AskedIs ==
  ASSUME NEW kind \in {"read", "write"}, NEW p \in Filled \cup {"table"}, NEW to \in Scripts, NEW from \in Scripts \cup {NoScript}
  PROVE  LET f == Asked(kind, p, to, from)
         IN  /\ f \in ScriptRequest /\ f.kind = kind /\ f.pane = p /\ f.to = to /\ f.from = from
             /\ p \in spin \cup drawerAstray \/ (p = modal /\ "form" \in drawerAstray) => f.astray
<1> DEFINE old == p \in spin \cup drawerAstray \/ (p = modal /\ "form" \in drawerAstray)
           f == Asked(kind, p, to, from)
<1>1. f = [kind |-> kind, pane |-> p, to |-> to, from |-> from, astray |-> old]
  BY DEF Asked
<1>2. old \in BOOLEAN
  OBVIOUS
<1> HIDE DEF old, f
<1>3. f \in ScriptRequest /\ f.kind = kind /\ f.pane = p /\ f.to = to /\ f.from = from /\ f.astray = old
  BY <1>1, <1>2 DEF ScriptRequest
<1>4. QED
  BY <1>3 DEF old, f

LEMMA WorkersSends ==
  ASSUME WorkersInv, NEW kind \in {"read", "write"}, NEW q \in panes, NEW from \in Scripts \cup {NoScript}, NEW flagged \in BOOLEAN,
         drawer \in Scripts,
         Here(from) \/ q \in spin \cup drawerAstray \/ (q = modal /\ "form" \in drawerAstray),
         Change(kind, q, from, flagged)
  PROVE  WorkersInv'
<1> DEFINE f == Asked(kind, q, drawer, from)
<1>1. panes \subseteq Filled /\ "table" \notin panes
  BY PanesKnown DEF WorkersInv, WorkersTyped, WorkersTypeOK
<1>2. /\ f \in ScriptRequest /\ f.kind = kind /\ f.pane = q /\ f.to = drawer /\ f.from = from
      /\ q \in spin \cup drawerAstray \/ (q = modal /\ "form" \in drawerAstray) => f.astray
  BY <1>1, AskedIs
<1>3. Depart(<<f>>) /\ UNCHANGED <<card, rowsOf, panes, drawer, drawerOpen, logOf, shown, spin, modal, formOf, drawerAstray>>
  BY DEF Change
<1>4. saving' \subseteq saving \cup ({q} \cap panes)
  BY DEF Change
<1> HIDE DEF f
<1>5. Fit(f)
  BY <1>1, <1>2 DEF Fit
<1>6. f.kind # "load" /\ (f.from \in {f.to, NoScript} \/ f.astray)
  BY <1>2 DEF Here
<1>7. QED
  BY <1>2, <1>3, <1>4, <1>5, <1>6, WorkersChange

LEMMA WorkersDelete ==
  ASSUME WorkersInv, NEW w \in Scripts, DeleteScript(w)
  PROVE  WorkersInv'
<1> DEFINE f == Asked("write", "table", w, w)
<1>1. f \in ScriptRequest /\ f.kind = "write" /\ f.pane = "table" /\ f.to = w /\ f.from = w
  BY AskedIs
<1>2. /\ Depart(<<f>>)
      /\ UNCHANGED <<card, rowsOf, panes, drawer, drawerOpen, logOf, shown, spin, modal, formOf, saving, drawerAstray>>
  BY DEF DeleteScript
<1> HIDE DEF f
<1>3. Fit(f)
  BY <1>1 DEF Fit
<1>4. QED
  BY <1>1, <1>2, <1>3, WorkersChange

LEMMA WorkersChanges ==
  ASSUME WorkersInv, \/ \E p \in panes : ChangePane(p)
                     \/ SaveVar \/ DeleteVar \/ SavePagesEnv \/ SubmitForm \/ DeleteDeployments \/ SaveSchedules
  PROVE  WorkersInv'
<1>1. /\ panes \subseteq Filled /\ shown \in [Filled -> Scripts \cup {NoScript}]
      /\ formOf \in Scripts \cup {NoScript}
  BY PanesKnown DEF WorkersInv, WorkersTyped, WorkersTypeOK
<1>2. ASSUME modal # "none" PROVE modal \in panes /\ drawer \in Scripts /\ (Here(formOf) \/ "form" \in drawerAstray)
  BY <1>2 DEF WorkersInv, WorkersTyped, FormShown
<1>3. ASSUME NEW q \in panes
      PROVE  shown[q] \in Scripts \cup {NoScript} /\ (Here(shown[q]) \/ q \in spin \cup drawerAstray)
  BY <1>1 DEF WorkersInv, PanesShown
<1>4. DrawerFree => drawer \in Scripts
  BY DEF DrawerFree, WorkersInv, WorkersTyped
<1>5. NoScript \in Scripts \cup {NoScript} /\ Here(NoScript)
  BY DEF Here
<1>6. ASSUME NEW kind \in {"read", "write"}, NEW q \in panes, NEW flagged \in BOOLEAN, drawer \in Scripts,
             Change(kind, q, shown[q], flagged)
      PROVE  WorkersInv'
  BY <1>3, <1>6, WorkersSends
<1>7. ASSUME NEW kind \in {"read", "write"}, modal # "none", Change(kind, modal, formOf, TRUE)
      PROVE  WorkersInv'
  BY <1>1, <1>2, <1>7, WorkersSends
<1>8. ASSUME NEW kind \in {"read", "write"}, modal # "none", Change(kind, modal, NoScript, TRUE)
      PROVE  WorkersInv'
  BY <1>2, <1>5, <1>8, WorkersSends
<1>9. ASSUME NEW q \in panes, ChangePane(q) PROVE WorkersInv'
  <2> DEFINE flagged == q = "subdomain"
             kind == IF q = "bindings" THEN "read" ELSE "write"
  <2>1. Change(kind, q, shown[q], flagged) /\ DrawerFree
    BY <1>9 DEF ChangePane, Within
  <2>2. kind \in {"read", "write"} /\ flagged \in BOOLEAN
    OBVIOUS
  <2> HIDE DEF flagged, kind
  <2>3. QED
    BY <1>4, <1>6, <2>1, <2>2
<1>10. CASE SaveVar
  BY <1>7, <1>10 DEF SaveVar
<1>11. CASE DeleteVar
  <2>1. CASE /\ Within("secrets")
             /\ \/ Change("write", "secrets", shown["secrets"], TRUE)
                \/ Change("read", "secrets", shown["secrets"], TRUE)
    <3>1. "secrets" \in panes /\ drawer \in Scripts
      BY <1>4, <2>1 DEF Within
    <3>2. QED
      BY <1>6, <2>1, <3>1
  <2>2. CASE Within("project") /\ Change("write", "project", shown["project"], FALSE)
    <3>1. "project" \in panes /\ drawer \in Scripts
      BY <1>4, <2>2 DEF Within
    <3>2. QED
      BY <1>6, <2>2, <3>1
  <2>3. QED
    BY <1>11, <2>1, <2>2 DEF DeleteVar
<1>12. CASE SavePagesEnv
  <2>1. modal # "none" /\ Change("write", modal, shown[modal], TRUE)
    BY <1>12 DEF SavePagesEnv
  <2>2. QED
    BY <1>2, <1>6, <2>1
<1>13. CASE SubmitForm
  <2> DEFINE kind == IF modal = "bindings" THEN "read" ELSE "write"
  <2>1. modal # "none" /\ Change(kind, modal, NoScript, TRUE)
    BY <1>13 DEF SubmitForm
  <2>2. kind \in {"read", "write"}
    OBVIOUS
  <2> HIDE DEF kind
  <2>3. QED
    BY <1>8, <2>1, <2>2
<1>14. CASE DeleteDeployments
  BY <1>7, <1>14 DEF DeleteDeployments
<1>15. CASE SaveSchedules
  <2>1. DrawerFree /\ "schedules" \in panes /\ Change("write", "schedules", shown["schedules"], TRUE)
    BY <1>15 DEF SaveSchedules
  <2>2. QED
    BY <1>4, <1>6, <2>1
<1>16. QED
  BY <1>9, <1>10, <1>11, <1>12, <1>13, <1>14, <1>15

\* Request i is answered, and at most one follows.
LEMMA WorkersLanded ==
  ASSUME WorkersInv, NEW i \in 1..Len(drawerFlights), drawerFlights' = RemoveAt(drawerFlights, i)
  PROVE  /\ drawerFlights' \in Seq(ScriptRequest)
         /\ Range(drawerFlights') \subseteq Range(drawerFlights)
         /\ \A e \in Range(drawerFlights) : e = drawerFlights[i] \/ e \in Range(drawerFlights')
BY Removed DEF WorkersInv, WorkersTyped, WorkersTypeOK

LEMMA WorkersFollowed ==
  ASSUME WorkersInv, NEW i \in 1..Len(drawerFlights), NEW d \in ScriptRequest,
         drawerFlights' = RemoveAt(drawerFlights, i) \o <<d>>
  PROVE  /\ drawerFlights' \in Seq(ScriptRequest)
         /\ Range(drawerFlights') \subseteq Range(drawerFlights) \cup {d} /\ d \in Range(drawerFlights')
         /\ \A e \in Range(drawerFlights) : e = drawerFlights[i] \/ e \in Range(drawerFlights')
<1> DEFINE ds == <<d>>
           r == drawerFlights
           t == drawerFlights'
<1>1. ds \in Seq(ScriptRequest) /\ Range(ds) = {d}
  BY FewInFlight
<1>2. r \in Seq(ScriptRequest) /\ i \in 1..Len(r) /\ t = RemoveAt(r, i) \o ds
  BY DEF WorkersInv, WorkersTyped, WorkersTypeOK
<1> HIDE DEF ds, r, t
<1>3. /\ t \in Seq(ScriptRequest)
      /\ Range(t) \subseteq Range(r) \cup Range(ds)
      /\ Range(ds) \subseteq Range(t)
      /\ \A e \in Range(r) : e = r[i] \/ e \in Range(t)
  BY <1>1, <1>2, Answered
<1>4. QED
  BY <1>1, <1>3 DEF r, t

LEMMA WorkersLoaded ==
  ASSUME WorkersInv, NEW i \in 1..Len(drawerFlights), NEW ok \in BOOLEAN, LoadAnswer(i, ok)
  PROVE  WorkersInv'
<1> DEFINE f == drawerFlights[i]
<1>1. f \in ScriptRequest /\ f \in Range(drawerFlights) /\ Fit(f) /\ f.kind \in Loaded
  BY Removed DEF WorkersInv, WorkersTyped, WorkersTypeOK, LoadAnswer, Loaded
<1>2. /\ panes \in PaneSets /\ panes \subseteq Filled /\ panes \cap {"table", "zones", "logs", "form", "none"} = {}
      /\ shown \in [Filled -> Scripts \cup {NoScript}] /\ "zones" \in Filled /\ "logs" \in Filled
      /\ "table" \notin Filled /\ "form" \notin Filled
      /\ drawerAstray \subseteq Filled \cup {"table", "form"} /\ spin \subseteq panes \cup {"table"} /\ saving \subseteq panes
  BY PanesKnown DEF WorkersInv, WorkersTyped, WorkersTypeOK, Filled, WorkerPanes, PagesPanes
<1>3. f.pane \in Filled \cup {"table"}
  BY <1>1 DEF ScriptRequest
<1>4. /\ drawerFlights' = RemoveAt(drawerFlights, i) /\ spin' = spin \ {f.pane}
      /\ rowsOf' = IF f.pane # "table" THEN rowsOf ELSE IF ok THEN f.to ELSE NoScript
      /\ shown' = IF f.pane = "table" THEN shown ELSE [shown EXCEPT ![f.pane] = IF ok THEN f.to ELSE NoScript]
      /\ saving' = IF f.kind = "reload" THEN saving \ {f.pane} ELSE saving
      /\ formOf' \in {formOf, NoScript}
      /\ UNCHANGED <<card, panes, drawer, drawerOpen, logOf, modal>>
  BY DEF LoadAnswer
<1>5. \E own : /\ own = IF f.pane = "table" THEN card ELSE IF f.pane = "logs" THEN logOf ELSE drawer
               /\ drawerAstray' = IF ok /\ f.to # own THEN drawerAstray \cup {f.pane} ELSE drawerAstray \ {f.pane}
  <2>1. CASE f.pane = "table"
    BY <2>1 DEF LoadAnswer
  <2>2. CASE f.pane = "logs"
    BY <2>2 DEF LoadAnswer
  <2>3. CASE f.pane # "table" /\ f.pane # "logs"
    BY <2>3 DEF LoadAnswer
  <2>4. QED
    BY <2>1, <2>2, <2>3
<1> HIDE DEF f
<1>6. /\ drawerFlights' \in Seq(ScriptRequest) /\ Range(drawerFlights') \subseteq Range(drawerFlights)
      /\ \A e \in Range(drawerFlights) : e = f \/ e \in Range(drawerFlights')
  BY <1>4, WorkersLanded DEF f
<1>7. f.pane # "table" => /\ f.to \in Scripts
                          /\ shown' \in [Filled -> Scripts \cup {NoScript}]
                          /\ shown'[f.pane] \in (IF ok THEN {f.to} ELSE {NoScript})
  <2>1. ASSUME f.pane # "table" PROVE f.to \in Scripts
    BY <1>1, <2>1 DEF Fit
  <2>2. QED
    BY <1>2, <1>3, <1>4, <2>1
<1>8. \A p \in Filled : p # f.pane => shown'[p] = shown[p]
  BY <1>2, <1>4
<1>9. f.pane = "table" => f.to \in Cards /\ shown' = shown
  BY <1>1, <1>4 DEF Fit, Loaded
<1>10. /\ drawerAstray' \subseteq Filled \cup {"table", "form"}
       /\ \A p : p # f.pane => (p \in drawerAstray' <=> p \in drawerAstray)
  BY <1>2, <1>3, <1>5
<1>11. WorkersTyped'
  <2>1. shown' \in [Filled -> Scripts \cup {NoScript}] /\ rowsOf' \in Cards \cup {NoScript} /\ formOf' \in Scripts \cup {NoScript}
    BY <1>2, <1>4, <1>7, <1>9 DEF WorkersInv, WorkersTyped, WorkersTypeOK
  <2>2. WorkersTypeOK'
    BY <1>2, <1>4, <1>6, <1>10, <2>1 DEF WorkersInv, WorkersTyped, WorkersTypeOK
  <2>3. QED
    BY <1>4, <1>6, <2>2 DEF WorkersInv, WorkersTyped, Fit
<1>12. RowsShown'
  <2>1. CASE f.pane = "table"
    BY <1>4, <1>5, <2>1 DEF RowsShown
  <2>2. CASE f.pane # "table"
    BY <1>4, <1>6, <1>10, <2>2 DEF WorkersInv, RowsShown
  <2>3. QED
    BY <2>1, <2>2
<1>13. LogShown'
  <2>1. CASE f.pane = "logs"
    BY <1>4, <1>5, <1>7, <2>1 DEF LogShown
  <2>2. CASE f.pane # "logs"
    BY <1>2, <1>4, <1>8, <1>10, <2>2 DEF WorkersInv, LogShown
  <2>3. QED
    BY <2>1, <2>2
<1>14. ASSUME f.pane \notin {"table", "logs"}, f.pane \notin drawerAstray' PROVE Here(shown'[f.pane]) /\ UNCHANGED drawer
  BY <1>4, <1>5, <1>7, <1>14 DEF Here
<1>15. ASSUME NEW p, p # f.pane, Coming(p) PROVE Coming(p)'
  BY <1>4, <1>6, <1>15 DEF Coming
<1>16. PanesShown'
  <2> SUFFICES ASSUME NEW p \in panes, p \notin drawerAstray'
               PROVE  Here(shown[p])' \/ (p \in spin' /\ Coming(p)')
    BY <1>4 DEF PanesShown
  <2>1. CASE p = f.pane
    BY <1>2, <1>14, <2>1 DEF Here
  <2>2. CASE p # f.pane
    <3>1. Here(shown[p]) \/ (p \in spin /\ Coming(p))
      BY <1>10, <2>2 DEF WorkersInv, PanesShown
    <3>2. QED
      BY <1>2, <1>4, <1>8, <1>15, <2>2, <3>1 DEF Here
  <2>3. QED
    BY <2>1, <2>2
<1>17. ZonesShown'
  <2>1. CASE f.pane = "zones"
    BY <1>14, <2>1 DEF ZonesShown, Here
  <2>2. CASE f.pane # "zones"
    <3>1. "zones" \in drawerAstray \/ Here(shown["zones"]) \/ Coming("zones") \/ (OfPages /\ modal # "pagesDomains")
      BY DEF WorkersInv, ZonesShown
    <3>2. QED
      BY <1>2, <1>4, <1>8, <1>10, <1>15, <2>2, <3>1 DEF ZonesShown, Here, OfPages
  <2>3. QED
    BY <2>1, <2>2
<1>18. FormShown'
  BY <1>2, <1>3, <1>4, <1>10 DEF WorkersInv, FormShown, Here
<1>19. ScriptsPaired' /\ PanesSpin'
  BY <1>1, <1>4, <1>6 DEF WorkersInv, ScriptsPaired, PanesSpin, Loaded
<1>20. QED
  BY <1>11, <1>12, <1>13, <1>16, <1>17, <1>18, <1>19 DEF WorkersInv

\* What was read is written to the row that is open by now, and says so.
LEMMA WorkersRead ==
  ASSUME WorkersInv, NEW i \in 1..Len(drawerFlights), NEW ok \in BOOLEAN, ReadAnswer(i, ok)
  PROVE  WorkersInv'
<1> DEFINE f == drawerFlights[i]
           old == f.astray \/ f.to # drawer
           d == [f EXCEPT !.kind = "write", !.to = drawer, !.from = f.to, !.astray = old]
<1>1. f \in ScriptRequest /\ f \in Range(drawerFlights) /\ Fit(f) /\ f.kind = "read"
  BY Removed DEF WorkersInv, WorkersTyped, WorkersTypeOK, ReadAnswer
<1>2. /\ panes \in PaneSets /\ panes \cap {"table", "zones", "logs", "form", "none"} = {}
  BY PanesKnown DEF WorkersInv, WorkersTyped, WorkersTypeOK
<1>3. f.pane \in panes /\ f.to \in Scripts /\ drawer \in Scripts
  BY <1>1, <1>2 DEF Fit
<1>4. /\ drawerFlights' = RemoveAt(drawerFlights, i) \o (IF ok THEN <<d>> ELSE <<>>)
      /\ saving' = IF ok THEN saving ELSE saving \ {f.pane}
      /\ UNCHANGED <<card, rowsOf, panes, drawer, drawerOpen, logOf, shown, spin, modal, formOf, drawerAstray>>
  BY DEF ReadAnswer
<1>5. old \in BOOLEAN
  OBVIOUS
<1>6. f.to # drawer => old
  OBVIOUS
<1> HIDE DEF old, f
<1>7. d \in ScriptRequest /\ d.kind = "write" /\ d.pane = f.pane /\ d.to = drawer /\ d.from = f.to /\ d.astray = old
  BY <1>1, <1>3, <1>5 DEF ScriptRequest
<1> HIDE DEF d
<1>8. Fit(d) /\ (d.from \in {d.to, NoScript} \/ d.astray)
  BY <1>2, <1>3, <1>6, <1>7 DEF Fit
<1>9. /\ drawerFlights' \in Seq(ScriptRequest)
      /\ Range(drawerFlights') \subseteq Range(drawerFlights) \cup {d}
      /\ \A e \in Range(drawerFlights) : e = f \/ e \in Range(drawerFlights')
      /\ ok => d \in Range(drawerFlights')
  <2>1. CASE ok
    BY <1>4, <1>7, <2>1, WorkersFollowed DEF f
  <2>2. CASE ~ok
    <3>1. drawerFlights' = RemoveAt(drawerFlights, i)
      <4>1. RemoveAt(drawerFlights, i) \in Seq(ScriptRequest)
        BY Removed DEF WorkersInv, WorkersTyped, WorkersTypeOK
      <4>2. RemoveAt(drawerFlights, i) \o <<>> = RemoveAt(drawerFlights, i)
        BY <4>1
      <4>3. QED
        BY <1>4, <2>2, <4>2
    <3>2. QED
      BY <2>2, <3>1, WorkersLanded DEF f
  <2>3. QED
    BY <2>1, <2>2
<1>10. WorkersTyped'
  <2>1. saving' \subseteq panes
    BY <1>4 DEF WorkersInv, WorkersTyped, WorkersTypeOK
  <2>2. WorkersTypeOK'
    BY <1>4, <1>9, <2>1 DEF WorkersInv, WorkersTyped, WorkersTypeOK
  <2>3. QED
    BY <1>4, <1>8, <1>9, <2>2 DEF WorkersInv, WorkersTyped, Fit
<1>11. RowsShown' /\ LogShown' /\ PanesShown' /\ ZonesShown' /\ FormShown'
  BY <1>1, <1>4, <1>9
     DEF WorkersInv, RowsShown, LogShown, PanesShown, ZonesShown, FormShown, Here, Coming, OfPages, Loaded
<1>12. ScriptsPaired'
  BY <1>4, <1>8, <1>9 DEF WorkersInv, ScriptsPaired
<1>13. PanesSpin'
  <2>1. \A p \in spin' : \E e \in Range(drawerFlights') : e.kind \in Loaded /\ e.pane = p
    BY <1>1, <1>4, <1>9 DEF WorkersInv, PanesSpin, Loaded
  <2>2. \A p \in saving' : \E e \in Range(drawerFlights') : e.kind # "load" /\ e.pane = p
    BY <1>4, <1>7, <1>9 DEF WorkersInv, PanesSpin
  <2>3. QED
    BY <2>1, <2>2 DEF PanesSpin
<1>14. QED
  BY <1>10, <1>11, <1>12, <1>13 DEF WorkersInv

\* A change is answered, and the pane it was in is loaded for the row that is open.
LEMMA WorkersWritten ==
  ASSUME WorkersInv, NEW i \in 1..Len(drawerFlights), NEW ok \in BOOLEAN, ScriptAnswer(i, ok)
  PROVE  WorkersInv'
<1> DEFINE f == drawerFlights[i]
           kind == IF Waits(f.pane) THEN "reload" ELSE "load"
           to == IF f.pane = "table" THEN card ELSE drawer
           d == PaneLoad(kind, f.pane, to)
<1>1. f \in ScriptRequest /\ f \in Range(drawerFlights) /\ Fit(f) /\ f.kind = "write"
  BY Removed DEF WorkersInv, WorkersTyped, WorkersTypeOK, ScriptAnswer
<1>2. /\ panes \in PaneSets /\ panes \subseteq Filled /\ panes \cap {"table", "zones", "logs", "form", "none"} = {}
      /\ spin \subseteq panes \cup {"table"} /\ saving \subseteq panes /\ card \in Cards
      /\ drawerAstray \subseteq Filled \cup {"table", "form"}
  BY PanesKnown DEF WorkersInv, WorkersTyped, WorkersTypeOK
<1>3. f.pane \in panes \cup {"table"} /\ (f.pane # "table" => drawer \in Scripts)
  BY <1>1, <1>2 DEF Fit
<1>4. /\ saving' = IF ok /\ Waits(f.pane) THEN saving ELSE saving \ {f.pane}
      /\ modal' = IF modal = f.pane /\ (ok \/ Waits(f.pane)) THEN "none" ELSE modal
      /\ drawerFlights' = RemoveAt(drawerFlights, i) \o (IF ok THEN <<d>> ELSE <<>>)
      /\ spin' = IF ok THEN spin \cup {f.pane} ELSE spin
      /\ drawerAstray' = IF ok THEN drawerAstray \ {f.pane} ELSE drawerAstray
      /\ UNCHANGED <<card, rowsOf, panes, drawer, drawerOpen, logOf, shown, formOf>>
  BY DEF ScriptAnswer
<1>5. /\ kind \in {"load", "reload"} /\ (Waits(f.pane) => kind = "reload") /\ (f.pane = "table" => kind = "load")
      /\ f.pane \in Filled \cup {"table"} /\ to \in Scripts \cup Cards
      /\ f.pane = "table" => to = card
      /\ f.pane # "table" => to = drawer
  BY <1>2, <1>3 DEF Waits
<1> HIDE DEF f, kind, to
<1>6. d \in ScriptRequest /\ d.kind = kind /\ d.pane = f.pane /\ d.to = to
  BY <1>5, PaneLoadIs
<1> HIDE DEF d
<1>7. Fit(d)
  BY <1>2, <1>3, <1>5, <1>6 DEF Fit
<1>8. /\ drawerFlights' \in Seq(ScriptRequest)
      /\ Range(drawerFlights') \subseteq Range(drawerFlights) \cup {d}
      /\ \A e \in Range(drawerFlights) : e = f \/ e \in Range(drawerFlights')
      /\ ok => d \in Range(drawerFlights')
  <2>1. CASE ok
    BY <1>4, <1>6, <2>1, WorkersFollowed DEF f
  <2>2. CASE ~ok
    <3>1. drawerFlights' = RemoveAt(drawerFlights, i)
      <4>1. RemoveAt(drawerFlights, i) \in Seq(ScriptRequest)
        BY Removed DEF WorkersInv, WorkersTyped, WorkersTypeOK
      <4>2. RemoveAt(drawerFlights, i) \o <<>> = RemoveAt(drawerFlights, i)
        BY <4>1
      <4>3. QED
        BY <1>4, <2>2, <4>2
    <3>2. QED
      BY <2>2, <3>1, WorkersLanded DEF f
  <2>3. QED
    BY <2>1, <2>2
<1>9. modal' \in {modal, "none"}
  BY <1>4
<1>10. WorkersTyped'
  <2>1. saving' \subseteq panes /\ spin' \subseteq panes \cup {"table"} /\ drawerAstray' \subseteq Filled \cup {"table", "form"}
    BY <1>2, <1>3, <1>4
  <2>2. modal' \in Forms \cup {"none"}
    BY <1>9 DEF WorkersInv, WorkersTyped, WorkersTypeOK
  <2>3. WorkersTypeOK'
    BY <1>4, <1>8, <2>1, <2>2 DEF WorkersInv, WorkersTyped, WorkersTypeOK
  <2>4. \A e \in Range(drawerFlights') : Fit(e)'
    BY <1>4, <1>7, <1>8 DEF WorkersInv, WorkersTyped, Fit
  <2>5. QED
    BY <1>4, <1>9, <2>3, <2>4 DEF WorkersInv, WorkersTyped
<1>11. RowsShown'
  <2>1. CASE ok /\ f.pane = "table"
    BY <1>4, <1>5, <1>6, <1>8, <2>1 DEF RowsShown
  <2>2. CASE ~(ok /\ f.pane = "table")
    BY <1>1, <1>4, <1>8, <2>2 DEF WorkersInv, RowsShown
  <2>3. QED
    BY <2>1, <2>2
<1>12. LogShown'
  BY <1>2, <1>3, <1>4 DEF WorkersInv, LogShown
<1>13. ASSUME NEW p, Coming(p) PROVE Coming(p)'
  BY <1>1, <1>4, <1>8, <1>13 DEF Coming, Loaded
<1>14. PanesShown'
  <2> SUFFICES ASSUME NEW p \in panes, p \notin drawerAstray'
               PROVE  Here(shown[p])' \/ (p \in spin' /\ Coming(p)')
    BY <1>4 DEF PanesShown
  <2>1. CASE ok /\ p = f.pane
    BY <1>2, <1>4, <1>5, <1>6, <1>8, <2>1 DEF Coming, Loaded
  <2>2. CASE ~(ok /\ p = f.pane)
    <3>1. Here(shown[p]) \/ (p \in spin /\ Coming(p))
      BY <1>4, <2>2 DEF WorkersInv, PanesShown
    <3>2. QED
      BY <1>4, <1>13, <3>1 DEF Here
  <2>3. QED
    BY <2>1, <2>2
<1>15. ZonesShown'
  <2>1. "zones" \in drawerAstray \/ Here(shown["zones"]) \/ Coming("zones") \/ (OfPages /\ modal # "pagesDomains")
    BY DEF WorkersInv, ZonesShown
  <2>2. "zones" \in drawerAstray => "zones" \in drawerAstray'
    BY <1>2, <1>3, <1>4
  <2>3. QED
    BY <1>4, <1>9, <1>13, <2>1, <2>2 DEF ZonesShown, Here, OfPages
<1>16. FormShown'
  <2>1. "form" \in drawerAstray => "form" \in drawerAstray'
    BY <1>2, <1>3, <1>4
  <2>2. QED
    BY <1>4, <1>9, <2>1 DEF WorkersInv, FormShown, Here
<1>17. ScriptsPaired'
  BY <1>5, <1>6, <1>8 DEF WorkersInv, ScriptsPaired
<1>18. PanesSpin'
  <2>1. \A p \in spin' : \E e \in Range(drawerFlights') : e.kind \in Loaded /\ e.pane = p
    BY <1>1, <1>4, <1>5, <1>6, <1>8 DEF WorkersInv, PanesSpin, Loaded
  <2>2. \A p \in saving' : \E e \in Range(drawerFlights') : e.kind # "load" /\ e.pane = p
    BY <1>4, <1>5, <1>6, <1>8 DEF WorkersInv, PanesSpin
  <2>3. QED
    BY <2>1, <2>2 DEF PanesSpin
<1>19. QED
  BY <1>10, <1>11, <1>12, <1>14, <1>15, <1>16, <1>17, <1>18 DEF WorkersInv

LEMMA WorkersStep ==
  ASSUME WorkersInv, WorkersNext \/ UNCHANGED workersVars
  PROVE  WorkersInv'
<1>1. CASE UNCHANGED workersVars
  <2>1. WorkersTyped'
    BY <1>1 DEF workersVars, WorkersInv, WorkersTyped, WorkersTypeOK, Fit
  <2>2. RowsShown' /\ LogShown' /\ PanesShown' /\ ZonesShown' /\ FormShown'
    BY <1>1 DEF workersVars, WorkersInv, RowsShown, LogShown, PanesShown, ZonesShown, FormShown, Here, Coming, OfPages
  <2>3. ScriptsPaired' /\ PanesSpin'
    BY <1>1 DEF workersVars, WorkersInv, ScriptsPaired, PanesSpin
  <2>4. QED
    BY <2>1, <2>2, <2>3 DEF WorkersInv
<1>2. ASSUME NEW i \in 1..Len(drawerFlights), WorkersAnswer(i) PROVE WorkersInv'
  BY <1>2, WorkersLoaded, WorkersRead, WorkersWritten DEF WorkersAnswer
<1>3. CASE WorkersNext
  BY <1>2, <1>3, WorkersCard, WorkersLogs, WorkersOpen, WorkersRefresh, WorkersCloses, WorkersForms, WorkersDelete, WorkersChanges
     DEF WorkersNext
<1>4. QED
  BY <1>1, <1>3
-----------------------------------------------------------------------------
(***************************************************************************)
(* The console: a step of the page that is mounted leaves the others as    *)
(* they are, so that the invariants of the pages hold together.            *)
(***************************************************************************)
ConsoleInv == StorageInv /\ DnsInv /\ TunnelsInv /\ RulesInv /\ AccountsInv /\ WorkersInv

LEMMA ConsoleStart == Init => ConsoleInv
BY StorageStart, DnsStart, TunnelsStart, RulesStart, AccountsStart, WorkersStart DEF Init, ConsoleInv

LEMMA ConsoleStep == ConsoleInv /\ [Next]_consoleVars => ConsoleInv'
<1> SUFFICES ASSUME ConsoleInv, [Next]_consoleVars PROVE ConsoleInv'
  OBVIOUS
<1>1. /\ StorageNext \/ UNCHANGED storageVars
      /\ DnsNext \/ MountDns \/ UNCHANGED dnsVars
      /\ TunnelsNext \/ UNCHANGED tunnelsVars
      /\ RulesNext \/ UNCHANGED rulesVars
      /\ AccountsNext \/ UNCHANGED accountsVars
      /\ WorkersNext \/ UNCHANGED workersVars
  BY DEF Next, consoleVars, StoragePage, DnsPage, TunnelsPage, RulesPage, AccountsPage, WorkersPage
<1>2. StorageInv'
  BY <1>1, StorageStep DEF ConsoleInv
<1>3. DnsInv'
  BY <1>1, DnsStep DEF ConsoleInv
<1>4. TunnelsInv'
  BY <1>1, TunnelsStep DEF ConsoleInv
<1>5. RulesInv'
  BY <1>1, RulesStep DEF ConsoleInv
<1>6. AccountsInv'
  BY <1>1, AccountsStep DEF ConsoleInv
<1>7. WorkersInv'
  BY <1>1, WorkersStep DEF ConsoleInv
<1>8. QED
  BY <1>2, <1>3, <1>4, <1>5, <1>6, <1>7 DEF ConsoleInv

LEMMA ConsoleAlways == Spec => []ConsoleInv
<1>1. QED
  BY ConsoleStart, ConsoleStep, PTL DEF Spec

\* Every variable of every page keeps its type, through any order of clicks and answers.
THEOREM ConsoleTypes == Spec => []TypeOK
<1>1. ConsoleInv => TypeOK
  <2> SUFFICES ASSUME ConsoleInv PROVE TypeOK
    OBVIOUS
  <2>1. StorageTypeOK /\ DnsTypeOK /\ TunnelsTypeOK
    BY DEF ConsoleInv, StorageInv, StorageTyped, DnsInv, DnsTyped, TunnelsInv, TunnelsTyped
  <2>2. RulesTypeOK
    BY DEF ConsoleInv, RulesInv, RulesTyped, RulesTypeOK, Clauses
  <2>3. AccountsTypeOK /\ WorkersTypeOK
    BY DEF ConsoleInv, AccountsInv, AccountsTyped, WorkersInv, WorkersTyped
  <2>4. QED
    BY <2>1, <2>2, <2>3 DEF TypeOK
<1>2. QED
  BY <1>1, ConsoleAlways, PTL

\* Every page shows what is selected on it, or waits for it, unless an answer to an older request overtook
\* the selection: the handlers of the six pages that select something clear or load what depends on it.
THEOREM SelectionShown == Spec => []ShowsSelection
<1>1. ConsoleInv => ShowsSelection
  <2> SUFFICES ASSUME ConsoleInv PROVE ShowsSelection
    OBVIOUS
  <2>1. ListsOwn /\ ItemsOwn /\ TabAsked
    BY DEF ConsoleInv, StorageInv
  <2>2. RecordsOwn
    BY DEF ConsoleInv, DnsInv, DnsShown, RecordsOwn
  <2>3. RowsOwn
    BY DEF ConsoleInv, TunnelsInv, TunnelsShown, RulesInv, RulesShown, RowsOwn
  <2>4. TableOwn
    BY DEF ConsoleInv, AccountsInv, TableShown, CredShown, TableOwn
  <2>5. DrawerOwn
    <3>1. RowsShown /\ LogShown /\ PanesShown /\ ZonesShown
      BY DEF ConsoleInv, WorkersInv
    <3>2. QED
      BY <3>1 DEF RowsShown, LogShown, PanesShown, ZonesShown, Here, Coming, Loaded, DrawerOwn
  <2>6. QED
    BY <2>1, <2>2, <2>3, <2>4, <2>5 DEF ShowsSelection
<1>2. QED
  BY <1>1, ConsoleAlways, PTL

\* A request names a container with its own account, and a row or a form is written where it was read, with the
\* exceptions the property names: an answer that overtook the selection, a form sent while it was still being
\* read, the tables of the previous database, a dialog that keeps what is in it, and the cache tab of the DNS page.
THEOREM WrittenWhereRead == Spec => []WritesWhereRead
<1>1. ConsoleInv => WritesWhereRead
  <2> SUFFICES ASSUME ConsoleInv PROVE WritesWhereRead
    OBVIOUS
  <2>1. BoxesPaired
    BY DEF ConsoleInv, StorageInv, StorageTyped, Sound, BoxesPaired
  <2>8. RowsOwned
    BY DEF ConsoleInv, StorageInv, StorageTyped, Sound, RowsOwned
  <2>2. \A f \in Range(dnsFlights) : f.tab # "cache" => f.from \in {f.domain, NoDomain, Defaults} \/ f.astray
    BY DEF ConsoleInv, DnsInv, DnsPaired, Paired
  <2>3. \A f \in Range(tunnelFlights) : f.from \in {f.to, NoTunnel} \/ f.astray
    BY DEF ConsoleInv, TunnelsInv, TunnelsPaired, Matched
  <2>4. \A f \in Range(ruleFlights) : f.from \in {f.to, NoTarget} \/ f.astray
    BY DEF ConsoleInv, RulesInv, RulesPaired
  <2>5. \A f \in Range(accountFlights) : f.from = f.id
    BY DEF ConsoleInv, AccountsInv, AccountsTyped, Proper
  <2>6. \A f \in Range(drawerFlights) : f.kind = "write" => f.from \in {f.to, NoScript} \/ f.astray
    BY DEF ConsoleInv, WorkersInv, ScriptsPaired
  <2>7. QED
    BY <2>1, <2>2, <2>3, <2>4, <2>5, <2>6, <2>8 DEF FormsOwn, WritesWhereRead
<1>2. QED
  BY <1>1, ConsoleAlways, PTL

\* No page spins for good: a flag is up only while a load that will take it down is in flight.
THEOREM SpinnersEnd == Spec => []SpinnersFly
<1>1. ConsoleInv => SpinnersFly
  BY DEF ConsoleInv, StorageInv, StorageSpin, DnsInv, DnsSpin, TunnelsInv, TunnelsSpin, RulesInv, RulesSpin,
         AccountsInv, AccountsSpin, Keeps, WorkersInv, PanesSpin, Loaded, SpinnersFly
<1>2. QED
  BY <1>1, ConsoleAlways, PTL
=============================================================================
