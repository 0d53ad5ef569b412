---------------------------- MODULE StoreDeploy ----------------------------
(***************************************************************************)
(* One-click deployments from the catalog store (routes/store.ts and       *)
(* services/deploy of the Node backend): a deployment finds or creates the *)
(* resources its template binds, uploads a Worker, publishes a Pages       *)
(* project, and rolls back what it created when a step throws.  A batch    *)
(* runs its deployments concurrently, and two of them may name the same    *)
(* resources or the same script.                                           *)
(*                                                                         *)
(* Every call to Cloudflare is awaited: one action is a reply and all that *)
(* follows it up to the next call.  A call may be refused, fail without    *)
(* effect, or fail after it took effect (its reply is lost).               *)
(***************************************************************************)
EXTENDS Naturals, Sequences

CONSTANTS
    Deploys,     \* deployments, each one run once, on one Cloudflare account
    Names,       \* project names: the script and the Pages project share it
    Titles,      \* resources: a type and a title, e.g. the D1 database "db"
    Databases,   \* those of them that are D1 databases
    Buckets,     \* those of them that are R2 buckets
    Templates,   \* catalog templates with the deployType chosen
    Prompt,      \* a required variable in a template's bindings
    User,        \* the account's owner, outside this program
    None,
    MaxCrashes   \* bound: how often the process is killed

ASSUME TemplatesAssumption ==
    \A tpl \in Templates :
        /\ tpl.bindings \in Seq(Titles \cup {Prompt})
        /\ tpl.worker \in BOOLEAN /\ tpl.pages \in BOOLEAN
        /\ \A i, j \in DOMAIN tpl.bindings :
              tpl.bindings[i] = tpl.bindings[j] /\ tpl.bindings[i] # Prompt => i = j
ASSUME NamesAssumption ==
    /\ Names # {} /\ Prompt \notin Titles
    /\ User \notin Deploys /\ None \notin Deploys /\ User # None
    /\ Databases \subseteq Titles /\ Buckets \subseteq Titles
    /\ Databases \cap Buckets = {}
    /\ MaxCrashes \in Nat

VARIABLES
    holder,     \* per title: who created the resource that exists, if any
    script,     \* per name: who deployed the script's active version, if any
    projects,   \* Pages projects that exist
    accountRow, \* the account is still in the accounts table
    crashes,    \* restarts so far (bounded by MaxCrashes)
    dep         \* per deployment: the locals of deployTemplate

cloudVars == <<holder, script, projects>>
vars == <<holder, script, projects, accountRow, crashes, dep>>

Owners == Deploys \cup {User, None}
\* A resolved binding; the pair of title and by stands for the resource id, None for one of nothing.
Entry == [title: Titles, by: Owners, created: BOOLEAN]
Phases == {"idle", "binding", "creating", "initsql", "download", "check", "put",
           "version", "release", "fetch", "project", "publish", "finish", "undo",
           "done", "lost"}
NoTemplate == [bindings |-> << >>, worker |-> FALSE, pages |-> FALSE]

Deployment ==
    [pc: Phases, tpl: Templates \cup {NoTemplate}, name: Names,
     next: Nat \ {0}, resolved: Seq(Entry), pending: Entry \cup {None},
     deployed: BOOLEAN, undoAt: Nat, errors: SUBSET Titles,
     result: {"none", "refused", "success", "failed", "error"}]

TypeOK ==
    /\ holder \in [Titles -> Owners]
    /\ script \in [Names -> Owners]
    /\ projects \in SUBSET Names
    /\ accountRow \in BOOLEAN
    /\ crashes \in 0..MaxCrashes
    /\ dep \in [Deploys -> Deployment]

-----------------------------------------------------------------------------
(***************************************************************************)
(* Bindings                                                                *)
(***************************************************************************)

\* Faulty variant: the last entry is passed over.
FailShort(rec) == [rec EXCEPT !.pc = "undo", !.pending = None,
    !.undoAt = IF Len(rec.resolved) = 0 THEN 0 ELSE Len(rec.resolved) - 1]

\* The catch block of deployTemplate starts the rollback at the last entry.
Fail(rec) == [rec EXCEPT !.pc = "undo", !.undoAt = Len(rec.resolved),
                         !.pending = None]

\* Where the deployment goes when the bindings are resolved.
AfterBindings(tpl) == IF tpl.worker THEN "download"
                      ELSE IF tpl.pages THEN "fetch" ELSE "finish"

Advance(rec) ==
    [rec EXCEPT !.next = @ + 1,
                !.pending = None,
                !.pc = IF rec.next < Len(rec.tpl.bindings) THEN "binding"
                       ELSE AfterBindings(rec.tpl)]

Resolve(rec, e) == Advance([rec EXCEPT !.resolved = Append(@, e)])

Set(d, rec) == dep' = [dep EXCEPT ![d] = rec]
Wanted(rec) == rec.tpl.bindings[rec.next]

\* Faulty variant: a resource that was found counts as created.
FoundAsCreated(t, d) == [title |-> t, by |-> holder[t], created |-> TRUE]
Found(t, d) == [title |-> t, by |-> holder[t], created |-> FALSE]
Made(t, d) == [title |-> t, by |-> d, created |-> TRUE]

Start(d, tpl, n) ==
    /\ dep[d].pc = "idle"
    /\ accountRow
    /\ Set(d, [dep[d] EXCEPT !.tpl = tpl, !.name = n,
                  !.pc = IF tpl.bindings = << >> THEN AfterBindings(tpl) ELSE "binding"])
    /\ UNCHANGED <<cloudVars, accountRow, crashes>>

\* Unknown account or template, or a name that is not a valid project name.
Refuse(d) ==
    /\ dep[d].pc = "idle"
    /\ Set(d, [dep[d] EXCEPT !.pc = "done", !.result = "refused"])
    /\ UNCHANGED <<cloudVars, accountRow, crashes>>

Declare(d, filled) ==
    /\ dep[d].pc = "binding"
    /\ Wanted(dep[d]) = Prompt
    /\ Set(d, IF filled THEN Advance(dep[d]) ELSE Fail(dep[d]))
    /\ UNCHANGED <<cloudVars, accountRow, crashes>>

\* With an entry in hand: run the init script if the request asks for it.
Bind(d, e, init) ==
    IF init /\ e.title \in Databases
    THEN Set(d, [dep[d] EXCEPT !.pc = "initsql", !.pending = e])
    ELSE Set(d, Resolve(dep[d], e))

SameType(t, u) == /\ t \in Databases <=> u \in Databases
                  /\ t \in Buckets <=> u \in Buckets

\* Mode "existing": the id comes with the request and no call is made for it, though it may be of
\* nothing by now.
UseExisting(d, t, init) ==
    /\ dep[d].pc = "binding"
    /\ Wanted(dep[d]) \in Titles /\ SameType(t, Wanted(dep[d]))
    /\ Bind(d, Found(t, d), init)
    /\ UNCHANGED <<cloudVars, accountRow, crashes>>

\* The list is searched for the title; only an R2 list may fail unnoticed.
List(d, ok, init) ==
    LET t == Wanted(dep[d])
    IN  /\ dep[d].pc = "binding"
        /\ t \in Titles
        /\ \/ ok /\ holder[t] # None /\ Bind(d, Found(t, d), init)
           \/ /\ IF ok THEN holder[t] = None ELSE t \in Buckets
              /\ Set(d, [dep[d] EXCEPT !.pc = "creating"])
           \/ ~ok /\ t \notin Buckets /\ Set(d, Fail(dep[d]))
        /\ UNCHANGED <<cloudVars, accountRow, crashes>>

\* Faulty variant: a refusal because the title is taken counts as created.
CreateAnyway(d, init) ==
    LET t == Wanted(dep[d])
    IN  /\ dep[d].pc = "creating"
        /\ Bind(d, Made(t, d), init)
        /\ holder' = [holder EXCEPT ![t] = IF @ = None THEN d ELSE @]
        /\ UNCHANGED <<script, projects, accountRow, crashes>>

\* Cloudflare refuses a title that is taken; the reply may be lost.
Create(d, init) ==
    LET t == Wanted(dep[d])
    IN  /\ dep[d].pc = "creating"
        /\ \/ /\ holder[t] = None
              /\ holder' = [holder EXCEPT ![t] = d]
              /\ Bind(d, Made(t, d), init) \/ Set(d, Fail(dep[d]))
           \/ UNCHANGED holder /\ Set(d, Fail(dep[d]))
        /\ UNCHANGED <<script, projects, accountRow, crashes>>

\* A D1 database created just before is not yet among the resolved bindings.
InitSql(d, ok) ==
    /\ dep[d].pc = "initsql"
    /\ ok => dep[d].pending.by \in {holder[dep[d].pending.title]} \ {None}
    /\ Set(d, IF ok THEN Resolve(dep[d], dep[d].pending) ELSE Fail(dep[d]))
    /\ UNCHANGED <<cloudVars, accountRow, crashes>>

-----------------------------------------------------------------------------
(***************************************************************************)
(* The Worker and the Pages project                                        *)
(***************************************************************************)

\* A call that leaves the account alone: on with the next step, or fail.
Step(d, from, to) ==
    /\ dep[d].pc = from
    /\ Set(d, [dep[d] EXCEPT !.pc = to]) \/ Set(d, Fail(dep[d]))
    /\ UNCHANGED <<cloudVars, accountRow, crashes>>

Deployed(rec) == [rec EXCEPT !.deployed = TRUE,
                             !.pc = IF rec.tpl.pages THEN "fetch" ELSE "finish"]

Download(d) == Step(d, "download", "check")

CheckScript(d) ==
    Step(d, "check", IF script[dep[d].name] = None THEN "put" ELSE "version")

PutScript(d) ==
    LET n == dep[d].name
    IN  /\ dep[d].pc = "put"
        /\ \/ /\ script' = [script EXCEPT ![n] = d]
              /\ Set(d, Deployed(dep[d])) \/ Set(d, Fail(dep[d]))
           \/ UNCHANGED script /\ Set(d, Fail(dep[d]))
        /\ UNCHANGED <<holder, projects, accountRow, crashes>>

\* Versions exist only for a script that exists.
UploadVersion(d) ==
    /\ dep[d].pc = "version"
    /\ \/ script[dep[d].name] # None /\ Set(d, [dep[d] EXCEPT !.pc = "release"])
       \/ Set(d, Fail(dep[d]))
    /\ UNCHANGED <<cloudVars, accountRow, crashes>>

\* A refusal of the deployment is only logged; a network error throws.
Release(d) ==
    LET n == dep[d].name
    IN  /\ dep[d].pc = "release"
        /\ \/ /\ script[n] # None
              /\ script' = [script EXCEPT ![n] = d]
              /\ Set(d, Deployed(dep[d])) \/ Set(d, Fail(dep[d]))
           \/ /\ UNCHANGED script
              /\ Set(d, Deployed(dep[d])) \/ Set(d, Fail(dep[d]))
        /\ UNCHANGED <<holder, projects, accountRow, crashes>>

FetchPages(d) == Step(d, "fetch", "project")

\* An error status of the creation is not looked at; an archive without
\* files ends the step here.
CreateProject(d) ==
    /\ dep[d].pc = "project"
    /\ projects' \in {projects, projects \cup {dep[d].name}}
    /\ \/ Set(d, [dep[d] EXCEPT !.pc = "publish"])
       \/ Set(d, [dep[d] EXCEPT !.pc = "finish"])
       \/ Set(d, Fail(dep[d]))
    /\ UNCHANGED <<holder, script, accountRow, crashes>>

\* Token, assets, deployment and the polling of its status, which may throw
\* although the deployment is live; a failed build is only logged.
Publish(d) ==
    /\ dep[d].pc = "publish"
    /\ \/ dep[d].name \in projects /\ Set(d, [dep[d] EXCEPT !.pc = "finish"])
       \/ Set(d, Fail(dep[d]))
    /\ UNCHANGED <<cloudVars, accountRow, crashes>>

\* The audit record of the success is written inside the try block, and its
\* foreign key fails when the account has been deleted.
Finish(d) ==
    /\ dep[d].pc = "finish"
    /\ Set(d, IF accountRow
              THEN [dep[d] EXCEPT !.pc = "done", !.result = "success"]
              ELSE Fail(dep[d]))
    /\ UNCHANGED <<cloudVars, accountRow, crashes>>

-----------------------------------------------------------------------------
(***************************************************************************)
(* Rollback                                                                *)
(***************************************************************************)

\* Whose resource a delete by id reaches: an R2 bucket's id is its name.
Reached(e) == e.title \in Buckets \/ holder[e.title] = e.by

\* Faulty variant: the next entry is never reached.
UndoneStuck(rec, failed) ==
    [rec EXCEPT !.errors = IF failed THEN @ \cup {rec.resolved[rec.undoAt].title} ELSE @]

Undone(rec, failed) ==
    [rec EXCEPT !.undoAt = @ - 1,
                !.errors = IF failed THEN @ \cup {rec.resolved[rec.undoAt].title} ELSE @]

\* Faulty variant: the rollback deletes what it found as well.
UndoEverything(d, failed) ==
    LET e == dep[d].resolved[dep[d].undoAt]
    IN  /\ dep[d].pc = "undo"
        /\ dep[d].undoAt > 0
        /\ holder' = IF failed THEN holder ELSE [holder EXCEPT ![e.title] = None]
        /\ Set(d, Undone(dep[d], failed))
        /\ UNCHANGED <<script, projects, accountRow, crashes>>

\* One entry, the last first; what was not created here is passed over.
Undo(d, failed) ==
    LET e == dep[d].resolved[dep[d].undoAt]
        gone == [holder EXCEPT ![e.title] = None]
    IN  /\ dep[d].pc = "undo"
        /\ dep[d].undoAt > 0
        /\ \/ ~e.created /\ ~failed /\ UNCHANGED holder
           \/ e.created /\ ~failed /\ Reached(e) /\ holder' = gone
           \/ e.created /\ failed /\ UNCHANGED holder
           \/ e.created /\ failed /\ Reached(e) /\ holder' = gone
        /\ Set(d, Undone(dep[d], failed))
        /\ UNCHANGED <<script, projects, accountRow, crashes>>

\* Faulty variant: the script is deleted whatever this deployment did.
CloseUnguarded(d) ==
    LET n == dep[d].name
    IN  /\ dep[d].pc = "undo"
        /\ dep[d].undoAt = 0
        /\ script' \in {script, [script EXCEPT ![n] = None]}
        /\ Set(d, [dep[d] EXCEPT !.pc = "done",
                      !.result = IF accountRow THEN "failed" ELSE "error"])
        /\ UNCHANGED <<holder, projects, accountRow, crashes>>

\* The script is deleted by name unless this deployment deployed it; an
\* error is swallowed.  Then the audit record: without the account's row it
\* throws, and the client gets an internal error.
Close(d) ==
    LET n == dep[d].name
    IN  /\ dep[d].pc = "undo"
        /\ dep[d].undoAt = 0
        /\ \/ UNCHANGED script
           \/ ~dep[d].deployed /\ script' = [script EXCEPT ![n] = None]
        /\ Set(d, [dep[d] EXCEPT !.pc = "done",
                      !.result = IF accountRow THEN "failed" ELSE "error"])
        /\ UNCHANGED <<holder, projects, accountRow, crashes>>

-----------------------------------------------------------------------------
DeleteAccount ==
    /\ accountRow
    /\ accountRow' = FALSE
    /\ UNCHANGED <<cloudVars, crashes, dep>>

Active(rec) == rec.pc \notin {"idle", "done", "lost"}

NewDeployment ==
    [pc |-> "idle", tpl |-> NoTemplate, name |-> CHOOSE n \in Names : TRUE,
     next |-> 1, resolved |-> << >>, pending |-> None, deployed |-> FALSE,
     undoAt |-> 0, errors |-> {}, result |-> "none"]

\* Nothing of a deployment is stored: a restart forgets it.
Crash ==
    /\ crashes < MaxCrashes
    /\ \E d \in Deploys : Active(dep[d])
    /\ crashes' = crashes + 1
    /\ dep' = [d \in Deploys |->
                  IF Active(dep[d]) THEN [NewDeployment EXCEPT !.pc = "lost"] ELSE dep[d]]
    /\ UNCHANGED <<cloudVars, accountRow>>

Init ==
    /\ holder \in [Titles -> {None, User}]
    /\ script \in [Names -> {None, User}]
    /\ projects \in SUBSET Names
    /\ accountRow = TRUE
    /\ crashes = 0
    /\ dep = [d \in Deploys |-> NewDeployment]

Resolving(d) ==
    \/ \E filled \in BOOLEAN : Declare(d, filled)
    \/ \E t \in Titles, init \in BOOLEAN : UseExisting(d, t, init)
    \/ \E ok, init \in BOOLEAN : List(d, ok, init)
    \/ \E init \in BOOLEAN : Create(d, init)
    \/ \E ok \in BOOLEAN : InitSql(d, ok)

Deploying(d) ==
    \/ Download(d) \/ CheckScript(d) \/ PutScript(d) \/ UploadVersion(d) \/ Release(d)
    \/ FetchPages(d) \/ CreateProject(d) \/ Publish(d) \/ Finish(d)

RollingBack(d) ==
    \/ \E failed \in BOOLEAN : Undo(d, failed)
    \/ Close(d)

Handle(d) == Resolving(d) \/ Deploying(d) \/ RollingBack(d)

Next ==
    \/ \E d \in Deploys :
          \/ \E tpl \in Templates, n \in Names : Start(d, tpl, n)
          \/ Refuse(d)
          \/ Handle(d)
    \/ DeleteAccount
    \/ Crash

Spec == Init /\ [][Next]_vars

\* Every call to Cloudflare returns or times out (proxyFetch).
FairSpec == Spec /\ \A d \in Deploys : WF_vars(Handle(d))
=============================================================================
