---------------------------- MODULE RedeployForms ----------------------------
(***************************************************************************)
(* The clients of module Redeploy: the deploy dialog, which is opened on a *)
(* row, filled from its configuration and edited; the drawer's form for    *)
(* one variable, which reads the configuration and then sends it back with *)
(* one change; and the synchronisation of secrets between Workers.  The    *)
(* dialog's form survives its closing, and so does its list of results.    *)
(***************************************************************************)
EXTENDS Redeploy

CONSTANTS
  Account, Title,  \* by script: the account it is in and the name it has there
  Typed,           \* bound on texts: those that users enter
  MaxWork          \* bound on what users do - open, edit, choose code, send, change rows - and on calls lost

VARIABLES
  dlg,     \* the deploy dialog
  drawer,  \* the drawer's form for a variable: the script it is open on, the one it read
  work     \* how many of these they did

vars == <<build, sort, live, latest, preview, req, dlg, drawer, work>>
configVars == <<build, sort, live, latest, preview>>

ASSUME RedeployFormsAssumption == Typed \subseteq Texts /\ MaxWork \in Nat

NoRow == [n \in Names |-> Row("none", Empty)]
NoDrawer == [phase |-> "idle", from |-> NoVersion, script |-> NoVersion, name |-> AiName,
             row |-> Row("none", Empty)]

\* Workers AI is bound under some name.
WithAi(c) == \E n \in Names : c[n].kind = "ai"

\* Variant: a secret is filled in without being kept.
prefillUnkept(c) == [n \in Names |->
  CASE n = AiName /\ WithAi(c) -> Row("ai", Empty)
    [] c[n].kind = "secret" -> Row("secret", Empty)
    [] c[n].kind \in {"plain", "bound"} -> Row(c[n].kind, c[n].val)
    [] OTHER -> Row("none", Empty)]

\* loadConfigForRedeploy and allBindings: a secret comes without its value and is kept; a binding of
\* Workers AI becomes a switch, which sends it back under the name AI; other bindings have no row.
Prefill(c) == [n \in Names |->
  IF n = AiName /\ WithAi(c) THEN Row("ai", Empty)
  ELSE CASE c[n].kind = "secret" -> [kind |-> "secret", val |-> Empty, keep |-> TRUE]
         [] c[n].kind \in {"plain", "bound"} -> Row(c[n].kind, c[n].val)
         [] OTHER -> Row("none", Empty)]

Working == work < MaxWork /\ work' = work + 1
Opening == ~dlg.open /\ Working /\ UNCHANGED <<configVars, req, drawer>>

\* The dialog opens on a row: what it held stays until the configuration is read.
OpenRow(s) ==
  /\ Opening /\ sort[s] # "absent"
  /\ dlg' = [dlg EXCEPT !.open = TRUE, !.redeploy = TRUE, !.script = s,
                        !.code = IF @ = "url" /\ sort[s] = "pages" THEN "none" ELSE @,
                        !.reading = @ \cup {s}, !.basis = NoVersion]

\* It opens for a new deployment, and is emptied.
OpenNew(s) ==
  /\ Opening
  /\ dlg' = [dlg EXCEPT !.open = TRUE, !.redeploy = FALSE, !.script = s, !.rows = NoRow,
                        !.code = "none", !.failed = NoVersion, !.retrying = {}, !.basis = NoVersion]

\* An answer fills the form, of whichever row it is; an error leaves it.
ReadAnswered(s) ==
  /\ s \in dlg.reading
  /\ \/ \E c \in {live[s], Blank} :
          dlg' = [dlg EXCEPT !.reading = @ \ {s}, !.rows = Prefill(c),
                             !.basis = IF s = dlg.script THEN c ELSE NoVersion]
     \/ dlg' = [dlg EXCEPT !.reading = @ \ {s}]
  /\ UNCHANGED <<configVars, req, drawer, work>>

\* A row is edited, added or removed; a kept secret that is given a value is no longer kept.  The
\* name AI belongs to the switch.
Edit(n, k, v) ==
  /\ dlg.open /\ Working
  /\ IF n = AiName THEN k \in {"none", "ai"} ELSE k # "ai"
  /\ k \in {"none", "ai"} => v = Empty
  /\ LET keep == dlg.rows[n].keep /\ k \in {"plain", "secret"} /\ ~(k = "secret" /\ v # Empty)
     IN dlg' = [dlg EXCEPT !.rows[n] = [kind |-> k, val |-> v, keep |-> keep], !.basis = NoVersion]
  /\ UNCHANGED <<configVars, req, drawer>>

\* A file of code is chosen, or a URL for a new Worker; on a row it stays chosen until a new
\* deployment is begun.
ChooseCode(c) ==
  /\ dlg.open /\ dlg.code # c /\ Working
  /\ c = "url" => dlg.code = "none" /\ ~dlg.redeploy /\ sort[dlg.script] # "pages"
  /\ dlg' = [dlg EXCEPT !.code = c]
  /\ UNCHANGED <<configVars, req, drawer>>

\* The form is sent to s.  Only the Worker takes the code of a URL into a redeployment.
SendForm(r, s, code) ==
  /\ Working
  /\ Asked(r, s, dlg.rows, Way(s, dlg.redeploy, code),
           code \in {"js", "zip"} \/ (code = "url" /\ build = "worker"),
           "dialog", s = dlg.script /\ dlg.basis = live[s])
  /\ UNCHANGED <<configVars, drawer>>

\* handleDeploy: only code can be deployed anew; the results listed before are dropped.
HandleDeploy(r) ==
  /\ dlg.open /\ dlg.deploying = {} /\ (dlg.redeploy \/ dlg.code # "none")
  /\ SendForm(r, dlg.script, dlg.code)
  /\ dlg' = [dlg EXCEPT !.deploying = {r}, !.failed = NoVersion, !.retrying = {}]

\* The answer closes the dialog, whatever row it is open on; a failure is listed.
DeployAnswered(r) ==
  /\ r \in dlg.deploying /\ At(r, "done")
  /\ dlg' = [dlg EXCEPT !.deploying = {}, !.open = @ /\ ~req[r].ok,
                        !.failed = IF req[r].ok THEN NoVersion ELSE req[r].script]
  /\ req' = [req EXCEPT ![r] = Idle]
  /\ UNCHANGED <<configVars, drawer, work>>

\* retryAccount: the form as it is now goes to the account that failed, under the name the dialog has
\* now.  A URL is not sent again, and without code a new deployment is refused.
RetryAccount(r) ==
  /\ dlg.open /\ dlg.failed # NoVersion /\ dlg.retrying = {}
  /\ dlg.redeploy \/ dlg.code \in {"js", "zip"}
  /\ \E s \in Scripts :
       /\ Account[s] = Account[dlg.failed] /\ Title[s] = Title[dlg.script]
       /\ (sort[s] = "pages") = (sort[dlg.script] = "pages")
       /\ SendForm(r, s, IF dlg.code = "url" THEN "none" ELSE dlg.code)
  /\ dlg' = [dlg EXCEPT !.retrying = {r}]

RetryAnswered(r) ==
  /\ r \in dlg.retrying /\ At(r, "done")
  /\ dlg' = [dlg EXCEPT !.retrying = {}, !.failed = IF req[r].ok THEN NoVersion ELSE @]
  /\ req' = [req EXCEPT ![r] = Idle]
  /\ UNCHANGED <<configVars, drawer, work>>

\* The call fails on its way or is refused whole: no result is listed, and the request may go on.
ConnectionLost(r) ==
  /\ r \in dlg.deploying \cup dlg.retrying /\ Working
  /\ dlg' = [dlg EXCEPT !.deploying = @ \ {r}, !.retrying = @ \ {r}]
  /\ UNCHANGED <<configVars, req, drawer>>

\* Nobody waits for the answer.
Unheard(r) ==
  /\ At(r, "done") /\ req[r].by = "dialog" /\ r \notin dlg.deploying \cup dlg.retrying
  /\ req' = [req EXCEPT ![r] = Idle]
  /\ UNCHANGED <<configVars, dlg, drawer, work>>

CloseDialog ==
  /\ dlg.open
  /\ dlg' = [dlg EXCEPT !.open = FALSE]
  /\ UNCHANGED <<configVars, req, drawer, work>>

-----------------------------------------------------------------------------
\* handleSaveVar: the other variables are read, and sent back without their values; no bindings.
Resent(c, n, row) == [m \in Names |->
  IF m = n THEN row
  ELSE IF c[m].kind \in {"plain", "secret"}
       THEN [kind |-> c[m].kind, val |-> Empty, keep |-> c[m].kind = "secret"]
       ELSE Row("none", Empty)]

\* A plain variable is saved: the configuration is asked for first.
SaveVar(s, n, row) ==
  /\ drawer.phase = "idle" /\ Working
  /\ n # AiName /\ sort[s] \in {"classic", "versioned"}
  /\ drawer' = [phase |-> "reading", from |-> s, script |-> s, name |-> n, row |-> row]
  /\ UNCHANGED <<configVars, req, dlg>>

\* handleDeleteVar: the same without the variable.
DeleteVar(s, n) == live[s][n].kind = "plain" /\ SaveVar(s, n, Row("none", Empty))

\* The drawer is opened on another row while the configuration is read.
DrawerMoves(s) ==
  /\ drawer.phase = "reading" /\ s # drawer.script /\ Working
  /\ sort[s] \in {"classic", "versioned"}
  /\ drawer' = [drawer EXCEPT !.script = s]
  /\ UNCHANGED <<configVars, req, dlg>>

\* The configuration, or none in its place, is sent back, to the row the drawer is open on now; an
\* error ends it.
VarRead(r) ==
  /\ drawer.phase = "reading"
  /\ \/ \E c \in {live[drawer.from], Blank} :
          /\ Asked(r, drawer.script, Resent(c, drawer.name, drawer.row), "redeploy", FALSE, "drawer", FALSE)
          /\ drawer' = [NoDrawer EXCEPT !.phase = "sent", !.name = drawer.name]
     \/ drawer' = NoDrawer /\ UNCHANGED req
  /\ UNCHANGED <<configVars, dlg, work>>

VarAnswered(r) ==
  /\ At(r, "done") /\ req[r].by = "drawer"
  /\ drawer' = NoDrawer
  /\ req' = [req EXCEPT ![r] = Idle]
  /\ UNCHANGED <<configVars, dlg, work>>

\* env-sync/execute: the secrets of one Worker, with the values given, are stored in another.
EnvSync(r, from, s, v) ==
  /\ from # s /\ Working
  /\ Asked(r, s, [n \in Names |-> IF live[from][n].kind = "secret" THEN Row("secret", v) ELSE Row("none", Empty)],
           "sync", FALSE, "sync", FALSE)
  /\ UNCHANGED <<configVars, dlg, drawer>>

SyncAnswered(r) ==
  /\ At(r, "done") /\ req[r].by = "sync"
  /\ req' = [req EXCEPT ![r] = Idle]
  /\ UNCHANGED <<configVars, dlg, drawer, work>>

Init ==
  /\ ServerInit
  /\ dlg = [open |-> FALSE, redeploy |-> FALSE, script |-> NoVersion, rows |-> NoRow, code |-> "none",
            reading |-> {}, deploying |-> {}, retrying |-> {}, failed |-> NoVersion, basis |-> NoVersion]
  /\ drawer = NoDrawer
  /\ work = 0

Dialog ==
  \/ \E s \in Scripts : OpenRow(s) \/ OpenNew(s) \/ ReadAnswered(s)
  \/ \E n \in Names, k \in {"none", "plain", "secret", "bound", "ai"}, v \in Typed : Edit(n, k, v)
  \/ \E c \in {"js", "zip", "url"} : ChooseCode(c)
  \/ \E r \in Reqs : HandleDeploy(r) \/ DeployAnswered(r) \/ RetryAccount(r) \/ RetryAnswered(r)
  \/ \E r \in Reqs : ConnectionLost(r) \/ Unheard(r)
  \/ CloseDialog

Others ==
  \/ \E s \in Scripts, n \in Names :
       DeleteVar(s, n) \/ \E v \in Typed \ {Empty} : SaveVar(s, n, Row("plain", v))
  \/ \E s \in Scripts : DrawerMoves(s)
  \/ \E r \in Reqs : VarRead(r) \/ VarAnswered(r) \/ SyncAnswered(r)
  \/ \E r \in Reqs, from \in Scripts, s \in Scripts, v \in Typed \ {Empty} : EnvSync(r, from, s, v)

Service == \E r \in Reqs : Serve(r) /\ UNCHANGED <<dlg, drawer, work>>

Next == Dialog \/ Others \/ Service

Spec == Init /\ [][Next]_vars
=============================================================================
