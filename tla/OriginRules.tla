----------------------------- MODULE OriginRules -----------------------------
(***************************************************************************)
(* The rules tab of the tunnels page: the rules of a domain and phase (a   *)
(* "target"), and the dialog that adds or edits one.  Editing takes the    *)
(* rule's expression apart into the fields of the form, and submitting     *)
(* puts an expression together from them.                                  *)
(***************************************************************************)
EXTENDS Sequences, SequencesExt

CONSTANTS
  Targets,
  NoTarget,
  Expressions,     \* the expressions that rules have been given, here or elsewhere
  MaxRuleFlights   \* bound on the requests in flight

ASSUME RulesAssumption ==
  /\ NoTarget \notin Targets
  /\ Expressions \subseteq SUBSET {"host", "otherHost", "prefix", "pattern", "else"}
  /\ MaxRuleFlights \in Nat

VARIABLES
  target,       \* the selected domain and phase
  rows,         \* rules: the rules on the page, each with the target it was read for
  loadingRules,
  ruleForm,     \* the dialog, with the rule it edits
  stored,       \* Cloudflare: the expressions of the rules of each target
  ruleFlights,  \* the requests in flight, in the order they were sent
  rowsAstray    \* history: the last answer was for another target than the selected one

rulesVars == <<target, rows, loadingRules, ruleForm, stored, ruleFlights, rowsAstray>>

(***************************************************************************)
(* An expression is a conjunction of clauses: the host of the domain, the  *)
(* host of another domain, a path by prefix or by pattern, anything else.  *)
(***************************************************************************)
\* openEditRule: the fields that an expression is taken apart into.
MatchType(e) ==
  CASE "otherHost" \in e -> "custom"
    [] "host" \in e -> IF e \cap {"prefix", "pattern"} # {} THEN "hostAndPath" ELSE "hostname"
    [] "prefix" \in e -> "pathPrefix"
    [] "pattern" \in e -> "pathRegex"
    [] OTHER -> "custom"

\* ruleExpressionPreview: the expression of a form.
Expression(form) ==
  CASE form.match = "hostname" -> {"host"}
    [] form.match = "pathPrefix" -> {"prefix"}
    [] form.match = "pathRegex" -> {"pattern"}
    [] form.match = "hostAndPath" -> {"host", "prefix"}
    [] form.match = "custom" -> form.text

NoForm == [open |-> FALSE, from |-> NoTarget, read |-> {}, match |-> "hostname", text |-> {}, astray |-> FALSE]

\* What was read is doubtful when the page was filled for another target or is still being filled.
DoubtRows == rowsAstray \/ \E f \in Range(ruleFlights) : f.kind = "load"

RuleReq(kind, from, read, expr, astray) ==
  [kind |-> kind, to |-> target, from |-> from, read |-> read, expr |-> expr, astray |-> astray]

LoadRules == RuleReq("load", NoTarget, {}, {}, FALSE)

SendRule(f) == Len(ruleFlights) < MaxRuleFlights /\ ruleFlights' = Append(ruleFlights, f)

-----------------------------------------------------------------------------
RulesInit ==
  /\ target = NoTarget /\ rows = {} /\ loadingRules = FALSE
  /\ ruleForm = NoForm
  /\ stored \in [Targets -> {{}} \cup {{e} : e \in Expressions}]
  /\ ruleFlights = <<>> /\ rowsAstray = FALSE

\* onDomainChange and the phase selector: the rules of the previous target stay under the spinner.
SelectTarget(g) ==
  /\ ~ruleForm.open
  /\ target' = g
  /\ loadingRules' = TRUE
  /\ SendRule([LoadRules EXCEPT !.to = g])
  /\ UNCHANGED <<rows, ruleForm, stored, rowsAstray>>

\* openAddRule: the form starts from nothing, and the user fills it.
OpenAddRule ==
  /\ ~ruleForm.open /\ target # NoTarget
  /\ \E e \in Expressions, match \in {"custom", "structured"} :
       ruleForm' = [NoForm EXCEPT !.open = TRUE, !.match = IF match = "custom" THEN match ELSE MatchType(e), !.text = e]
  /\ UNCHANGED <<target, rows, loadingRules, stored, ruleFlights, rowsAstray>>

OpenEditRule ==
  /\ ~ruleForm.open /\ target # NoTarget /\ ~loadingRules
  /\ \E row \in rows :
       ruleForm' = [open |-> TRUE, from |-> row.of, read |-> row.expr, match |-> MatchType(row.expr),
                    text |-> row.expr, astray |-> DoubtRows]
  /\ UNCHANGED <<target, rows, loadingRules, stored, ruleFlights, rowsAstray>>

CloseRule ==
  /\ ruleForm.open
  /\ ruleForm' = NoForm
  /\ UNCHANGED <<target, rows, loadingRules, stored, ruleFlights, rowsAstray>>

\* submitRule: the rule is written under the selected domain and phase.
SubmitRule ==
  /\ ruleForm.open
  /\ SendRule(RuleReq("submit", ruleForm.from, ruleForm.read, Expression(ruleForm), ruleForm.astray))
  /\ UNCHANGED <<target, rows, loadingRules, ruleForm, stored, rowsAstray>>

DeleteRule ==
  /\ ~ruleForm.open /\ target # NoTarget /\ ~loadingRules
  /\ \E row \in rows : SendRule(RuleReq("delete", row.of, row.expr, {}, DoubtRows))
  /\ UNCHANGED <<target, rows, loadingRules, ruleForm, stored, rowsAstray>>

-----------------------------------------------------------------------------
SettleRule(i, fs) == ruleFlights' = RemoveAt(ruleFlights, i) \o fs

\* loadRules, answered
RulesAnswer(i, ok) ==
  LET g == ruleFlights[i].to
  IN  /\ ruleFlights[i].kind = "load"
      /\ rows' = IF ok THEN {[of |-> g, expr |-> e] : e \in stored[g]} ELSE {}
      /\ loadingRules' = FALSE
      /\ rowsAstray' = (g # target)
      /\ SettleRule(i, <<>>)
      /\ UNCHANGED <<target, ruleForm, stored>>

\* A submitted or deleted rule, answered: a rule that Cloudflare does not know under that target is an
\* error; after a success the rules selected by now are loaded.
RuleAnswer(i, ok) ==
  LET f == ruleFlights[i]
      done == ok /\ f.from \in {NoTarget, f.to}
  IN  /\ f.kind \in {"submit", "delete"}
      /\ stored' = IF ~done THEN stored
                   ELSE [stored EXCEPT ![f.to] = (@ \ {f.read}) \cup (IF f.kind = "submit" THEN {f.expr} ELSE {})]
      /\ ruleForm' = IF done /\ f.kind = "submit" THEN NoForm ELSE ruleForm
      /\ loadingRules' = (done \/ loadingRules)
      /\ SettleRule(i, IF done THEN <<LoadRules>> ELSE <<>>)
      /\ UNCHANGED <<target, rows, rowsAstray>>

RulesViewAnswer(i) == \E ok \in BOOLEAN : RulesAnswer(i, ok) \/ RuleAnswer(i, ok)

-----------------------------------------------------------------------------
RulesNext ==
  \/ OpenAddRule \/ OpenEditRule \/ CloseRule \/ SubmitRule \/ DeleteRule
  \/ \E g \in Targets : SelectTarget(g)
  \/ \E i \in 1..Len(ruleFlights) : RulesViewAnswer(i)
=============================================================================
