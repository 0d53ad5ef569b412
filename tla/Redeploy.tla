------------------------------- MODULE Redeploy -------------------------------
(***************************************************************************)
(* The configuration of a Worker or Pages project - plain variables,       *)
(* secrets, bindings - and the requests that change it: the diff of a      *)
(* redeployment, a deployment of new code, the patch of a Pages project    *)
(* and the synchronisation of secrets.  Every call to Cloudflare is a step *)
(* of its own and may fail; requests interleave call by call.  The Node    *)
(* server and the Cloudflare Worker read, upload and publish in their own  *)
(* ways.  Cloudflare is external: an upload replaces plain variables and   *)
(* bindings and leaves secrets; a patch of a project merges, in production *)
(* and in previews alike.                                                  *)
(***************************************************************************)
EXTENDS Naturals, FiniteSets

CONSTANTS
  Scripts, Names,  \* Workers or projects; the names of variables and bindings
  AiName,          \* the name AI, which a form gives to every binding of Workers AI
  Values, Empty,   \* texts and resource identifiers; the empty text
  NoVersion,
  Reqs,            \* requests that can be under way
  Starts           \* the server, what the scripts are and their configurations, to start from

VARIABLES
  build,   \* the server: "node" or "worker"
  sort,    \* by script: "classic", "versioned", "pages", or "absent"
  live,    \* by script: the configuration that serves
  latest,  \* by script: what the latest version was uploaded with
  preview, \* by script: what the previews of a Pages project are configured with
  req      \* the requests: one target of a batch each

serverVars == <<build, sort, live, latest, preview, req>>

Absent == [kind |-> "none", val |-> Empty]
Blank == [n \in Names |-> Absent]
Texts == Values \cup {Empty}
Row(k, v) == [kind |-> k, val |-> v, keep |-> FALSE]

\* What a configuration, and what a form, holds under a name.
EntrySet == {Absent, [kind |-> "ai", val |-> Empty]}
              \cup [kind : {"plain", "secret", "bound", "other"}, val : Texts]
RowSet == {Row("none", Empty), Row("ai", Empty)}
            \cup [kind : {"plain", "secret", "bound"}, val : Texts, keep : BOOLEAN]
Configs == [Names -> EntrySet]
Rows == [Names -> RowSet]

\* A binding names its resource.
Named(c) == \A n \in Names : c[n].kind = "bound" => c[n].val # Empty

ASSUME RedeployAssumption ==
  /\ Empty \notin Values
  /\ Values # {}
  /\ NoVersion \notin Configs
  /\ AiName \in Names
  /\ Starts \subseteq [build : {"node", "worker"},
                     sort : [Scripts -> {"classic", "versioned", "pages", "absent"}],
                     live : [Scripts -> Configs], preview : [Scripts -> Configs]]
  /\ \A c \in Starts, s \in Scripts :
       Named(c.live[s]) /\ c.live[s][AiName].kind \in {"none", "ai"}

Idle == [pc |-> "idle", script |-> NoVersion, rows |-> [n \in Names |-> Row("none", Empty)],
         mode |-> "redeploy", code |-> FALSE, todo |-> {}, seen |-> Blank, version |-> NoVersion,
         ok |-> FALSE, swallowed |-> {}, uploaded |-> FALSE,
         start |-> Blank, alone |-> TRUE, by |-> "dialog", faithful |-> FALSE]

Under(r) == req[r].pc \notin {"idle", "done"}
At(r, pc) == req[r].pc = pc
Conf(r) == live[req[r].script]

\* Variant: a kept secret is sent like any other, without a value.
sentWithKept(rows) == [n \in Names |-> [kind |-> rows[n].kind, val |-> rows[n].val]]

\* What varsToBindings and resolveManualBindings make of the form: a kept secret sends nothing.
Sent(rows) == [n \in Names |->
  IF rows[n].kind = "secret" /\ rows[n].keep THEN Absent ELSE [kind |-> rows[n].kind, val |-> rows[n].val]]

\* External: what an upload and a published version make of a configuration.
Uploaded(c, sent) == [n \in Names |->
  IF sent[n] # Absent THEN sent[n] ELSE IF c[n].kind = "secret" THEN c[n] ELSE Absent]
Served(c) == [n \in Names |-> IF c[n].kind = "secret" THEN Absent ELSE c[n]]

\* External: a patch merges, but for the one binding of Workers AI a project can have.
Patched(c, sent) == [n \in Names |->
  IF sent[n] # Absent THEN sent[n]
  ELSE IF c[n].kind = "ai" /\ \E m \in Names : sent[m].kind = "ai" THEN Absent ELSE c[n]]

\* Variant: what was removed is not compared.
addedOnly(seen, rows) ==
  \E n \in Names : rows[n].kind = "plain" /\ ~rows[n].keep
    /\ seen[n] # [kind |-> "plain", val |-> rows[n].val]

\* plainChanged and bindingsChanged.  The bindings asked for include the plain variables, those
\* read do not; a binding counts by its name, not by its resource.
PlainChanged(seen, rows) ==
  {<<n, seen[n].val>> : n \in {m \in Names : seen[m].kind = "plain"}}
    # {<<n, rows[n].val>> : n \in {m \in Names : rows[m].kind = "plain" /\ ~rows[m].keep}}
BindingsChanged(seen, rows) ==
  {<<seen[n].kind, n>> : n \in {m \in Names : seen[m].kind \in {"bound", "ai", "other"}}}
    # {<<rows[n].kind, n>> : n \in {m \in Names : rows[m].kind \in {"bound", "ai", "plain"}}}

\* Variant: every secret of the form is stored, kept or empty.
renewedAll(rows) == {n \in Names : rows[n].kind = "secret"}

\* The secrets to delete, and those to store: a kept or an empty one is skipped.
Doomed(seen, rows) == {n \in Names : seen[n].kind = "secret" /\ rows[n].kind # "secret"}
Renewed(rows) == {n \in Names : rows[n].kind = "secret" /\ ~rows[n].keep /\ rows[n].val # Empty}

-----------------------------------------------------------------------------
(***************************************************************************)
(* A step of request r leaves it as `to' and the script's configuration as *)
(* c, its latest version as v.  The other requests on the script are told  *)
(* apart from those nothing interfered with.                               *)
(***************************************************************************)
Step(r, to, c, v) ==
  LET s == req[r].script
      moved == c # live[s] \/ v # latest[s]
  IN /\ live' = [live EXCEPT ![s] = c]
     /\ latest' = [latest EXCEPT ![s] = v]
     /\ req' = [q \in Reqs |->
          IF q = r THEN to
          ELSE [req[q] EXCEPT !.alone = @ /\ ~(moved /\ req[q].script = s)]]

Go(r, to) == Step(r, to, Conf(r), latest[req[r].script])
To(r, pc) == [req[r] EXCEPT !.pc = pc]
Swallow(r, what, pc) == [req[r] EXCEPT !.pc = pc, !.swallowed = @ \cup {what}]
Answer(r, ok) == [req[r] EXCEPT !.pc = "done", !.ok = ok]
Fail(r) == Go(r, Answer(r, FALSE))

\* A request arrives for a target: batch-deploy, batch-deploy-pages, env-sync/execute.
Asked(r, s, rows, mode, code, by, faithful) ==
  /\ At(r, "idle")
  /\ req' = [req EXCEPT ![r] = [Idle EXCEPT
       !.pc = IF mode = "sync" THEN "secrets" ELSE "resolve",
       !.script = s, !.rows = rows, !.mode = mode, !.code = code, !.by = by,
       !.todo = IF mode = "sync" THEN Renewed(rows) ELSE {},
       !.start = live[s], !.faithful = faithful]]

\* Which way batch-deploy takes a target: a zip, or any new deployment, is uploaded whole.
Way(s, redeploy, code) ==
  IF sort[s] = "pages" THEN "pages" ELSE IF redeploy /\ code # "zip" THEN "redeploy" ELSE "deploy"

\* resolveManualBindings: a row without a resource is given one that was found or created.
Resolve(r) ==
  /\ At(r, "resolve")
  /\ \/ Fail(r)
     \/ \E v \in Values :
          LET rows == [n \in Names |-> IF req[r].rows[n].kind = "bound" /\ req[r].rows[n].val = Empty
                                       THEN Row("bound", v) ELSE req[r].rows[n]]
              next == CASE req[r].mode = "redeploy" -> "read"
                        [] req[r].mode = "deploy" -> "upload"
                        [] OTHER -> "patch"
          IN Go(r, [req[r] EXCEPT !.rows = rows, !.pc = next])
  /\ UNCHANGED <<build, sort, preview>>

\* The configuration was read, or an empty one in its place: the secrets to delete follow.
Seen(r, c) == [req[r] EXCEPT !.pc = "purge", !.seen = c, !.todo = Doomed(c, req[r].rows),
                             !.swallowed = IF c = Conf(r) THEN @ ELSE @ \cup {"blind"}]

\* Node: no answer fails the request, an error or a version that cannot be read is an empty configuration.
ReadNode(r) ==
  /\ build = "node" /\ At(r, "read")
  /\ \/ Fail(r)
     \/ \E c \in {Conf(r), Blank} : Go(r, Seen(r, c))
  /\ UNCHANGED <<build, sort, preview>>

\* Worker: the same, and the configuration of a versioned Worker is never seen.
ReadWorker(r) ==
  /\ build = "worker" /\ At(r, "read")
  /\ \/ Fail(r)
     \/ \E c \in {Conf(r), Blank} :
          (sort[req[r].script] = "versioned" => c = Blank) /\ Go(r, Seen(r, c))
  /\ UNCHANGED <<build, sort, preview>>

\* A secret the form does not name is deleted; a failure is swallowed.
Purge(r) ==
  /\ At(r, "purge")
  /\ \E n \in req[r].todo :
       LET to == [req[r] EXCEPT !.todo = @ \ {n}] IN
       \/ Step(r, to, [Conf(r) EXCEPT ![n] = IF @.kind = "secret" THEN Absent ELSE @],
               latest[req[r].script])
       \/ Go(r, [to EXCEPT !.swallowed = @ \cup {"undeleted"}])
  /\ UNCHANGED <<build, sort, preview>>

\* Something other than secrets changed: the code is uploaded again with the new bindings.
Decide(r) ==
  /\ At(r, "purge") /\ req[r].todo = {}
  /\ IF PlainChanged(req[r].seen, req[r].rows) \/ BindingsChanged(req[r].seen, req[r].rows)
     THEN Go(r, [To(r, IF req[r].code THEN "upload" ELSE "fetch") EXCEPT !.seen = Blank])
     ELSE Go(r, [To(r, "secrets") EXCEPT !.seen = Blank, !.todo = Renewed(req[r].rows)])
  /\ UNCHANGED <<build, sort, preview>>

\* Node: a refused download of the code fails the request.
FetchNode(r) ==
  /\ build = "node" /\ At(r, "fetch")
  /\ \/ Fail(r)
     \/ sort[req[r].script] # "absent" /\ Go(r, To(r, "upload"))
  /\ UNCHANGED <<build, sort, preview>>

\* Worker: whatever was answered is taken for the code.
FetchWorker(r) ==
  /\ build = "worker" /\ At(r, "fetch")
  /\ \/ Fail(r)
     \/ \E junk \in BOOLEAN :
          /\ sort[req[r].script] = "absent" => junk
          /\ Go(r, To(r, IF junk THEN "junk" ELSE "upload"))
  /\ UNCHANGED <<build, sort, preview>>

-----------------------------------------------------------------------------
\* The reply to a PUT may name the version it made.
Replies(to, v) == {to, [to EXCEPT !.version = v]}

\* What a traditional PUT does: it creates, replaces what serves, or stores a version whose
\* bindings may be ignored.
Put(r) ==
  LET s == req[r].script
      sent == Sent(req[r].rows)
      on == [To(r, "observe") EXCEPT !.uploaded = TRUE]
  IN \/ /\ sort[s] \in {"absent", "classic"}
        /\ \E to \in Replies(on, sent) : Step(r, to, Uploaded(live[s], sent), sent)
     \/ /\ sort[s] = "versioned"
        /\ \E to \in Replies(on, sent) : Step(r, to, live[s], sent)
     \/ /\ sort[s] = "versioned"
        /\ \E to \in Replies(Swallow(r, "ignored", "observe"), Served(live[s])) :
             Step(r, to, live[s], Served(live[s]))

\* A new script may come to life in either form.
Born(s) == IF sort[s] = "absent" THEN {"classic", "versioned"} ELSE {sort[s]}

\* Node: an existing script is given a version, and a PUT only where that is refused.
UploadNode(r) ==
  LET s == req[r].script
      sent == Sent(req[r].rows)
  IN /\ build = "node" /\ At(r, "upload")
     /\ \/ Fail(r) /\ UNCHANGED sort
        \/ /\ sort[s] = "versioned"
           /\ Step(r, [To(r, "observe") EXCEPT !.uploaded = TRUE, !.version = sent], live[s], sent)
           /\ UNCHANGED sort
        \/ Put(r) /\ \E k \in Born(s) : sort' = [sort EXCEPT ![s] = k]
     /\ UNCHANGED <<build, preview>>

\* Worker: always a PUT.
UploadWorker(r) ==
  LET s == req[r].script IN
  /\ build = "worker" /\ req[r].pc \in {"upload", "junk"}
  /\ \/ Fail(r) /\ UNCHANGED sort
     \/ At(r, "upload") /\ Put(r) /\ \E k \in Born(s) : sort' = [sort EXCEPT ![s] = k]
  /\ UNCHANGED <<build, preview>>

\* Traces and logs are switched on; a refusal fails the request, its version uploaded.
Observe(r) ==
  /\ At(r, "observe")
  /\ Fail(r) \/ Go(r, To(r, "publish"))
  /\ UNCHANGED <<build, sort, preview>>

Published(r) ==
  IF req[r].mode = "deploy" THEN Answer(r, TRUE)
  ELSE IF build = "node" THEN To(r, "reread")
  ELSE [To(r, "secrets") EXCEPT !.todo = Renewed(req[r].rows)]

\* The version to publish: the one the reply named, or the first of the list, whoever made it.  (Node
\* takes the script's name for one if the reply has that alone, which then fails to be published.)
Chosen(r) == IF req[r].version = NoVersion THEN latest[req[r].script] ELSE req[r].version

\* A version is made to serve; a failure is logged.  Without versions the upload serves already.
Publish(r) ==
  LET s == req[r].script IN
  /\ At(r, "publish")
  /\ IF sort[s] # "versioned"
     THEN Go(r, Published(r))
     ELSE \/ Step(r, Published(r), Uploaded(live[s], Chosen(r)), latest[s])
          \/ Go(r, [Published(r) EXCEPT !.swallowed = @ \cup {"undeployed"}])
  /\ UNCHANGED <<build, sort, preview>>

\* Node reads the configuration once more, for the log; no answer fails the request here too.
Reread(r) ==
  /\ At(r, "reread")
  /\ Fail(r) \/ Go(r, [To(r, "secrets") EXCEPT !.todo = Renewed(req[r].rows)])
  /\ UNCHANGED <<build, sort, preview>>

\* A secret with a new value is stored; the first refusal fails the request.
Secret(r) ==
  LET s == req[r].script IN
  /\ At(r, "secrets")
  /\ \/ Fail(r) /\ req[r].todo # {}
     \/ \E n \in req[r].todo :
          /\ sort[s] # "absent" /\ live[s][n].kind \in {"none", "secret"}
          /\ Step(r, [req[r] EXCEPT !.todo = @ \ {n}],
                  [live[s] EXCEPT ![n] = [kind |-> "secret", val |-> req[r].rows[n].val]], latest[s])
  /\ UNCHANGED <<build, sort, preview>>

Finish(r) ==
  /\ At(r, "secrets") /\ req[r].todo = {}
  /\ Go(r, Answer(r, TRUE))
  /\ UNCHANGED <<build, sort, preview>>

\* A Pages project is patched with what the form sends, after its files if there are any: the same
\* for production, from which the form was read, and for previews.
Patch(r) ==
  LET s == req[r].script
      sent == Sent(req[r].rows)
  IN /\ At(r, "patch")
     /\ \/ Fail(r) /\ UNCHANGED preview
        \/ /\ Step(r, [Answer(r, TRUE) EXCEPT !.uploaded = TRUE], Patched(live[s], sent), latest[s])
           /\ preview' = [preview EXCEPT ![s] = Patched(@, sent)]
     /\ UNCHANGED <<build, sort>>

Serve(r) ==
  \/ Resolve(r) \/ ReadNode(r) \/ ReadWorker(r) \/ Purge(r) \/ Decide(r)
  \/ FetchNode(r) \/ FetchWorker(r) \/ UploadNode(r) \/ UploadWorker(r) \/ Observe(r)
  \/ Publish(r) \/ Reread(r) \/ Secret(r) \/ Finish(r) \/ Patch(r)

ServerInit ==
  /\ \E c \in Starts : build = c.build /\ sort = c.sort /\ live = c.live /\ preview = c.preview
  /\ latest = [s \in Scripts |-> Served(live[s])]
  /\ req = [r \in Reqs |-> Idle]
=============================================================================
