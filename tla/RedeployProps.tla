---------------------------- MODULE RedeployProps ----------------------------
(* What the redeployment of a configuration promises, over the dialog, the  *)
(* drawer and the requests of module Redeploy.                              *)
EXTENDS RedeployForms

RequestType == [
  pc : {"idle", "resolve", "read", "purge", "fetch", "upload", "junk", "observe", "publish", "reread",
        "secrets", "patch", "done"},
  script : Scripts \cup {NoVersion}, rows : Rows, mode : {"redeploy", "deploy", "pages", "sync"},
  code : BOOLEAN, todo : SUBSET Names, seen : Configs, version : Configs \cup {NoVersion},
  ok : BOOLEAN, swallowed : SUBSET {"blind", "undeleted", "ignored", "undeployed"}, uploaded : BOOLEAN,
  start : Configs, alone : BOOLEAN, by : {"dialog", "drawer", "sync"}, faithful : BOOLEAN]

DialogType == [
  open : BOOLEAN, redeploy : BOOLEAN, script : Scripts \cup {NoVersion}, rows : Rows,
  code : {"none", "js", "zip", "url"}, reading : SUBSET Scripts, deploying : SUBSET Reqs,
  retrying : SUBSET Reqs, failed : Scripts \cup {NoVersion}, basis : Configs \cup {NoVersion}]

DrawerType == [
  phase : {"idle", "reading", "sent"}, from : Scripts \cup {NoVersion}, script : Scripts \cup {NoVersion},
  name : Names, row : RowSet]

\* Every variable has its type; a request under way names a script, as do an open dialog and a drawer
\* that reads.
TypeOK ==
  /\ build \in {"node", "worker"}
  /\ sort \in [Scripts -> {"classic", "versioned", "pages", "absent"}]
  /\ live \in [Scripts -> Configs]
  /\ latest \in [Scripts -> Configs]
  /\ preview \in [Scripts -> Configs]
  /\ req \in [Reqs -> RequestType]
  /\ \A r \in Reqs : ~At(r, "idle") => req[r].script \in Scripts
  /\ dlg \in DialogType
  /\ dlg.open => dlg.script \in Scripts
  /\ drawer \in DrawerType
  /\ drawer.phase = "reading" => drawer.from \in Scripts /\ drawer.script \in Scripts
  /\ work \in Nat

Keeps(r, n) == req[r].rows[n].kind = "secret" /\ req[r].rows[n].keep

\* A request about to publish a version that may not be made of its own form: the first of the list,
\* or one that repeats what served when it was uploaded.
OthersVersion(r) ==
  /\ At(r, "publish") /\ sort[req[r].script] = "versioned"
  /\ req[r].version = NoVersion \/ "ignored" \in req[r].swallowed

\* While every request under way on a script keeps a secret, whose value no form can show, no step
\* changes or deletes it, where it serves or in the previews, whatever fails - unless one of them is
\* about to publish a version not its own with that name in it (bindings.ts: keeping is what spares a
\* secret).
KeepKept ==
  [][\A s \in Scripts, n \in Names :
       (\A r \in Reqs : Under(r) /\ req[r].script = s => Keeps(r, n))
       => /\ (/\ live[s][n].kind = "secret"
              /\ \A r \in Reqs : OthersVersion(r) /\ req[r].script = s => Chosen(r)[n] = Absent)
             => live'[s][n] = live[s][n]
          /\ preview[s][n].kind = "secret" => preview'[s][n] = preview[s][n]]_vars

\* What a request may leave of a name: what it found, what its form says, or nothing where the form
\* has no secret any more.
MayLeave(r, n) ==
  LET old == req[r].start[n]
      new == Sent(req[r].rows)[n]
      gone == \/ old.kind = "secret" /\ req[r].rows[n].kind # "secret"
              \/ old.kind # "secret"
  IN {old} \cup (IF Keeps(r, n) THEN {} ELSE {new}) \cup (IF gone THEN {Absent} ELSE {})

\* A request nothing interferes with moves each name from what it found to what its form says,
\* at any point of its way and whichever of its calls fail or answer with nothing.
NameByName ==
  \A r \in Reqs : (~At(r, "idle") /\ req[r].alone) =>
    \A n \in Names : Conf(r)[n] \in MayLeave(r, n)

Applied(r, n) ==
  LET row == req[r].rows[n]
      now == Conf(r)[n]
  IN CASE row.kind = "none" -> now.kind = "secret" \/ req[r].mode # "redeploy" \/ now = Absent
       [] row.kind = "ai" -> now.kind = "ai"
       [] row.kind = "plain" -> now = [kind |-> "plain", val |-> row.val]
       [] row.kind = "secret" -> IF row.keep
                                 THEN req[r].start[n].kind = "secret" => now = req[r].start[n]
                                 ELSE row.val # Empty => now = [kind |-> "secret", val |-> row.val]
       [] row.kind = "bound" -> now.kind = "bound" /\ (req[r].uploaded => now.val = row.val)

\* A redeployment or synchronisation that answers success, nothing interfering and none of its calls
\* failing in silence, has put everything its form says in place.
AppliedWhole ==
  \A r \in Reqs : (At(r, "done") /\ req[r].ok /\ req[r].alone /\ req[r].swallowed = {}) =>
    \A n \in Names : req[r].mode # "sync" \/ req[r].rows[n].kind = "secret" => Applied(r, n)

\* What the form can hold of a configuration under a name: not a binding it has no row for, nor one
\* of Workers AI under another name than AI, which comes back as AI (DeployDialog.vue:140-143,162).
Shown(c, n) ==
  /\ c[n].kind # "other"
  /\ \A m \in Names \ {AiName} : c[m].kind = "ai" => n \notin {m, AiName}

\* Opening a row and sending the form as it was filled changes nothing of what serves, though secrets
\* have no value there and every part is written again: at no point of the request, and whatever
\* fails.  The previews of a Pages project are another matter: the form was read from production and
\* is written to both (bindings.ts:106-124), so that success leaves them with production's values.
RoundTrip ==
  \A r \in Reqs : (~At(r, "idle") /\ req[r].alone /\ req[r].faithful) =>
    \A n \in Names : Shown(req[r].start, n) =>
      /\ Conf(r)[n] = req[r].start[n]
      /\ (/\ At(r, "done") /\ req[r].ok /\ req[r].mode = "pages"
          /\ req[r].start[n].kind \in {"plain", "bound", "ai"})
         => preview[req[r].script][n] = req[r].start[n]

\* WorkerSettingsDrawer.vue:543 says of saving a variable: all current variables are collected, that
\* one is replaced or added, and the Worker is redeployed.  The others should keep their values.
OthersKept ==
  \A r \in Reqs : (~At(r, "idle") /\ req[r].alone /\ req[r].by = "drawer") =>
    \A n \in Names : (n # drawer.name /\ req[r].start[n].kind = "plain") => Conf(r)[n] = req[r].start[n]
=============================================================================
