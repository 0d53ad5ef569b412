------------------------- MODULE StoreDeploy_proofs -------------------------
(***************************************************************************)
(* What TLAPS proves of the store's deployments, for any number of         *)
(* deployments, names, titles and templates.                               *)
(*                                                                         *)
(* A rollback deletes by id, buckets even by name, and checks nothing: it  *)
(* is right only because an entry marked created names a resource that     *)
(* this deployment holds until it deletes it.  That is what IInv says, and *)
(* the rest of it is there to keep two created entries from naming the     *)
(* same resource.                                                          *)
(***************************************************************************)
EXTENDS StoreDeployProps, SequenceTheorems, TLAPS

Opening == {"binding", "creating", "initsql"}
Uploading == {"download", "check", "put", "version", "release",
              "fetch", "project", "publish", "finish"}
RunningPhases == Opening \cup Uploading

-----------------------------------------------------------------------------
(***************************************************************************)
(* The inductive invariant                                                 *)
(***************************************************************************)

\* A binding is being resolved.
Bound(rec) ==
    /\ rec.pc \in Opening =>
          rec.tpl \in Templates /\ rec.next \in DOMAIN rec.tpl.bindings
    /\ rec.pc \in {"creating", "initsql"} => Wanted(rec) \in Titles
    /\ rec.pc = "idle" => rec.resolved = << >> /\ rec.next = 1

\* The entries this deployment created come from bindings already passed.
Traced(d, rec) ==
    \A i \in DOMAIN rec.resolved : rec.resolved[i].created =>
        /\ rec.resolved[i].by = d
        /\ \E k \in DOMAIN rec.tpl.bindings :
              k < rec.next /\ rec.resolved[i].title = rec.tpl.bindings[k]

NoTwice(rec) ==
    \A i, j \in DOMAIN rec.resolved :
        (/\ rec.resolved[i].created /\ rec.resolved[j].created
         /\ rec.resolved[i].title = rec.resolved[j].title) => i = j

\* The entries a rollback has yet to delete.
Standing(rec, i) ==
    /\ rec.resolved[i].created
    /\ rec.pc \notin {"done", "lost"}
    /\ rec.pc = "undo" => i <= rec.undoAt

Held(d, rec, h) ==
    \A i \in DOMAIN rec.resolved :
        Standing(rec, i) => h[rec.resolved[i].title] = d

\* e is good to be appended to the entries of rec.
Sound(d, rec, h, e) ==
    /\ e \in Entry
    /\ e.created => e.by = d /\ e.title = Wanted(rec) /\ h[e.title] = d

RecInv(d, rec, h) ==
    /\ Bound(rec)
    /\ Traced(d, rec)
    /\ NoTwice(rec)
    /\ Held(d, rec, h)
    /\ rec.pc = "initsql" => Sound(d, rec, h, rec.pending)
    /\ rec.pc = "undo" => rec.undoAt <= Len(rec.resolved)

IInv == TypeOK /\ \A d \in Deploys : RecInv(d, dep[d], holder)

\* What one step of a deployment may do to the named resources: take one that
\* nobody holds, give up one of its own while it rolls back, or nothing.
Moves(p, q) ==
    \/ p = q
    \/ p = "running" /\ q \in {"aborting", "committed"}
    \/ p = "aborting" /\ q = "aborted"
HolderStep(d, p, q) ==
    \/ holder' = holder /\ Moves(p, q)
    \/ /\ p = "running" /\ q \in {"running", "aborting"}
       /\ \E t \in Titles : holder[t] = None /\ holder' = [holder EXCEPT ![t] = d]
    \/ /\ p = "aborting" /\ q = "aborting"
       /\ \E t \in Titles : holder[t] = d /\ holder' = [holder EXCEPT ![t] = None]

\* rec becomes new in one step of deployment d.
StepTo(d, rec, new) ==
    /\ new \in Deployment
    /\ RecInv(d, new, holder')
    /\ dep' = [dep EXCEPT ![d] = new]
    /\ HolderStep(d, PhaseOf(rec), PhaseOf(new))
DeployStep(d) ==
    /\ \E new \in Deployment : StepTo(d, dep[d], new)
    /\ script' \in [Names -> Owners]
    /\ projects' \subseteq Names
    /\ UNCHANGED <<accountRow, crashes>>

-----------------------------------------------------------------------------
(***************************************************************************)
(* Lemmas about one deployment                                             *)
(***************************************************************************)

LEMMA PhaseRunning ==
    ASSUME NEW rec, rec.pc \in RunningPhases
    PROVE  PhaseOf(rec) = "running"
BY DEF PhaseOf, RunningPhases, Opening, Uploading

\* A step that throws starts a rollback over all the entries.
LEMMA FailInv ==
    ASSUME NEW d \in Deploys, NEW rec \in Deployment, NEW h,
           RecInv(d, rec, h), rec.pc \in RunningPhases
    PROVE  /\ Fail(rec) \in Deployment
           /\ RecInv(d, Fail(rec), h)
           /\ PhaseOf(Fail(rec)) = "aborting"
<1> DEFINE new == Fail(rec)
<1>1. Len(rec.resolved) \in Nat /\ DOMAIN rec.resolved = 1..Len(rec.resolved)
    BY DEF Deployment
<1>2. new \in Deployment
    BY <1>1 DEF Fail, Deployment, Phases
<1>3. /\ new.pc = "undo" /\ new.undoAt = Len(rec.resolved)
      /\ new.resolved = rec.resolved /\ new.tpl = rec.tpl /\ new.next = rec.next
    BY DEF Fail, Deployment
<1> HIDE DEF new
<1>4. Bound(new) /\ Traced(d, new) /\ NoTwice(new)
    BY <1>3 DEF RecInv, Bound, Traced, NoTwice, Opening
<1>5. Held(d, new, h)
    BY <1>1, <1>3 DEF RecInv, Held, Standing, RunningPhases, Opening, Uploading
<1>6. RecInv(d, new, h) /\ PhaseOf(new) = "aborting"
    BY <1>1, <1>3, <1>4, <1>5 DEF RecInv, PhaseOf
<1>7. QED
    BY <1>2, <1>6 DEF new

\* A step that only moves the deployment on keeps its invariant.
LEMMA MoveInv ==
    ASSUME NEW d \in Deploys, NEW rec \in Deployment, NEW h, RecInv(d, rec, h),
           NEW new \in Deployment,
           rec.pc \in RunningPhases,
           new.resolved = rec.resolved, new.tpl = rec.tpl,
           new.next \in {rec.next, rec.next + 1},
           \/ new.pc \in Uploading
           \/ new.pc = "binding" /\ new.tpl \in Templates
                                 /\ new.next \in DOMAIN new.tpl.bindings
           \/ /\ new.pc \in {"creating", "initsql"} /\ rec.pc = "binding"
              /\ new.next = rec.next /\ Wanted(rec) \in Titles
              /\ new.pc = "initsql" => Sound(d, new, h, new.pending)
    PROVE  RecInv(d, new, h) /\ PhaseOf(new) = "running"
<1>1. PhaseOf(new) = "running"
    BY PhaseRunning DEF RunningPhases, Opening
<1>2. Bound(new)
    BY DEF RecInv, Bound, Wanted, Opening, Uploading
<1>3. rec.next \in Nat
    BY DEF Deployment
<1>4. Traced(d, new)
    <2> SUFFICES ASSUME NEW i \in DOMAIN new.resolved, new.resolved[i].created
                 PROVE  /\ new.resolved[i].by = d
                        /\ \E k \in DOMAIN new.tpl.bindings :
                              k < new.next /\ new.resolved[i].title = new.tpl.bindings[k]
        BY DEF Traced
    <2>1. new.resolved[i].by = d
        BY DEF RecInv, Traced
    <2>2. PICK k \in DOMAIN rec.tpl.bindings :
             k < rec.next /\ rec.resolved[i].title = rec.tpl.bindings[k]
        BY DEF RecInv, Traced
    <2>3. k < new.next
        <3>1. k \in Nat
            <4>1. rec.tpl.bindings \in Seq(Titles \cup {Prompt})
                BY TemplatesAssumption DEF Deployment, NoTemplate
            <4>2. QED
                BY <4>1
        <3>2. QED
            BY <1>3, <2>2, <3>1
    <2>4. QED
        BY <2>1, <2>2, <2>3
<1>5. NoTwice(new) /\ Held(d, new, h)
    BY DEF RecInv, NoTwice, Held, Standing, RunningPhases, Opening, Uploading
<1>6. QED
    BY <1>1, <1>2, <1>4, <1>5 DEF RecInv, Opening, Uploading

LEMMA TemplateBindings ==
    ASSUME NEW rec \in Deployment
    PROVE  /\ rec.tpl.bindings \in Seq(Titles \cup {Prompt})
           /\ rec.tpl.worker \in BOOLEAN /\ rec.tpl.pages \in BOOLEAN
           /\ \A i, j \in DOMAIN rec.tpl.bindings :
                 rec.tpl.bindings[i] = rec.tpl.bindings[j]
                 /\ rec.tpl.bindings[i] # Prompt => i = j
           /\ rec.next \in Nat \ {0}
<1>1. CASE rec.tpl = NoTemplate
    BY <1>1 DEF NoTemplate, Deployment
<1>2. CASE rec.tpl \in Templates
    BY <1>2, TemplatesAssumption DEF Deployment
<1>3. QED
    BY <1>1, <1>2 DEF Deployment

\* Passing to the next binding, or to the Worker, the Pages or the end.
LEMMA AdvanceInv ==
    ASSUME NEW d \in Deploys, NEW rec \in Deployment, NEW h, RecInv(d, rec, h),
           rec.pc \in Opening
    PROVE  /\ Advance(rec) \in Deployment
           /\ RecInv(d, Advance(rec), h)
           /\ PhaseOf(Advance(rec)) = "running"
<1> DEFINE new == Advance(rec)
<1>1. /\ rec.tpl \in Templates /\ rec.next \in DOMAIN rec.tpl.bindings
      /\ rec.next \in Nat \ {0}
      /\ rec.tpl.bindings \in Seq(Titles \cup {Prompt})
    BY TemplateBindings DEF RecInv, Bound
<1>2. AfterBindings(rec.tpl) \in Uploading
    BY DEF AfterBindings, Uploading
<1>3. new \in Deployment
    <2> DEFINE q == IF rec.next < Len(rec.tpl.bindings) THEN "binding"
                    ELSE AfterBindings(rec.tpl)
    <2>1. q \in Phases /\ rec.next + 1 \in Nat \ {0}
        BY <1>1, <1>2 DEF Uploading, Phases
    <2>2. new = [rec EXCEPT !.next = rec.next + 1, !.pending = None, !.pc = q]
        BY DEF Advance, Deployment
    <2> HIDE DEF q, new
    <2>3. QED
        BY <2>1, <2>2 DEF Deployment
<1>4. /\ new.next = rec.next + 1 /\ new.resolved = rec.resolved /\ new.tpl = rec.tpl
      /\ \/ new.pc \in Uploading
         \/ new.pc = "binding" /\ rec.next < Len(rec.tpl.bindings)
    BY <1>2 DEF Advance, Deployment
<1>5. rec.next < Len(rec.tpl.bindings) => new.next \in DOMAIN new.tpl.bindings
    BY <1>1, <1>4
<1> HIDE DEF new
<1>6. RecInv(d, new, h) /\ PhaseOf(new) = "running"
    BY <1>1, <1>3, <1>4, <1>5, MoveInv DEF RunningPhases
<1>7. QED
    BY <1>3, <1>6 DEF new

\* Appending a sound entry: its title is that of no entry created before.
LEMMA ResolveInv ==
    ASSUME NEW d \in Deploys, NEW rec \in Deployment, NEW h, RecInv(d, rec, h),
           rec.pc \in Opening, Wanted(rec) \in Titles, NEW e, Sound(d, rec, h, e)
    PROVE  /\ Resolve(rec, e) \in Deployment
           /\ RecInv(d, Resolve(rec, e), h)
           /\ PhaseOf(Resolve(rec, e)) = "running"
<1> DEFINE n == Len(rec.resolved)
           R == Append(rec.resolved, e)
           new == Resolve(rec, e)
<1>1. /\ rec.tpl \in Templates /\ rec.next \in DOMAIN rec.tpl.bindings
      /\ rec.next \in Nat \ {0}
      /\ rec.tpl.bindings \in Seq(Titles \cup {Prompt})
    BY TemplateBindings DEF RecInv, Bound
<1>2. AfterBindings(rec.tpl) \in Uploading
    BY DEF AfterBindings, Uploading
<1>3. e \in Entry /\ rec.resolved \in Seq(Entry) /\ n \in Nat
    BY DEF Sound, Deployment
<1>4. /\ R \in Seq(Entry) /\ DOMAIN R = 1..(n + 1) /\ R[n + 1] = e
      /\ DOMAIN rec.resolved = 1..n
      /\ \A i \in 1..n : R[i] = rec.resolved[i]
    BY <1>3
<1>5. new = [rec EXCEPT !.resolved = R, !.next = @ + 1, !.pending = None,
                        !.pc = IF rec.next < Len(rec.tpl.bindings) THEN "binding"
                               ELSE AfterBindings(rec.tpl)]
    BY DEF Resolve, Advance, Deployment
<1> HIDE DEF R, new
<1>6. new \in Deployment
    <2> DEFINE q == IF rec.next < Len(rec.tpl.bindings) THEN "binding"
                    ELSE AfterBindings(rec.tpl)
    <2>1. q \in Phases /\ rec.next + 1 \in Nat \ {0}
        BY <1>1, <1>2 DEF Uploading, Phases
    <2>2. new = [rec EXCEPT !.resolved = R, !.next = rec.next + 1,
                            !.pending = None, !.pc = q]
        BY <1>5 DEF Deployment
    <2> HIDE DEF q
    <2>3. QED
        BY <1>4, <2>1, <2>2 DEF Deployment
<1>7. /\ new.next = rec.next + 1 /\ new.resolved = R /\ new.tpl = rec.tpl
      /\ \/ new.pc \in Uploading
         \/ new.pc = "binding" /\ rec.next < Len(rec.tpl.bindings)
    BY <1>2, <1>5 DEF Deployment
<1>8. Bound(new)
    BY <1>1, <1>7 DEF Bound, Opening, Uploading
<1>9. ASSUME NEW i \in 1..n, R[i].created
      PROVE  /\ R[i].by = d
             /\ \E k \in DOMAIN rec.tpl.bindings :
                   k < rec.next /\ R[i].title = rec.tpl.bindings[k]
    BY <1>4, <1>9 DEF RecInv, Traced
<1>10. Traced(d, new)
    <2>1. ASSUME NEW i \in 1..(n + 1), R[i].created
          PROVE  /\ R[i].by = d
                 /\ \E k \in DOMAIN rec.tpl.bindings :
                       k < rec.next + 1 /\ R[i].title = rec.tpl.bindings[k]
        <3>1. CASE i = n + 1
            BY <1>1, <1>4, <2>1, <3>1 DEF Sound, Wanted
        <3>2. CASE i # n + 1
            <4>1. i \in 1..n
                BY <1>3, <3>2
            <4>2. PICK k \in DOMAIN rec.tpl.bindings :
                     k < rec.next /\ R[i].title = rec.tpl.bindings[k]
                BY <1>9, <2>1, <4>1
            <4>3. k < rec.next + 1
                BY <1>1, <4>2
            <4>4. QED
                BY <1>9, <2>1, <4>1, <4>2, <4>3
        <3>3. QED
            BY <3>1, <3>2
    <2>2. QED
        BY <1>4, <1>7, <2>1 DEF Traced
<1>11. ASSUME NEW i \in 1..n, R[i].created, e.created PROVE R[i].title # e.title
    <2>1. PICK k \in DOMAIN rec.tpl.bindings :
             k < rec.next /\ R[i].title = rec.tpl.bindings[k]
        BY <1>9, <1>11
    <2>2. e.title = rec.tpl.bindings[rec.next] /\ e.title # Prompt
        BY <1>11, NamesAssumption DEF Sound, Wanted
    <2>3. k # rec.next
        BY <1>1, <2>1
    <2>4. QED
        BY <1>1, <2>1, <2>2, <2>3, TemplateBindings
<1>12. NoTwice(new)
    <2>1. ASSUME NEW i \in 1..(n + 1), NEW j \in 1..(n + 1), R[i].created,
                 R[j].created, R[i].title = R[j].title
          PROVE  i = j
        <3>1. CASE i \in 1..n /\ j \in 1..n
            BY <1>4, <2>1, <3>1 DEF RecInv, NoTwice
        <3>2. CASE i = n + 1 \/ j = n + 1
            BY <1>3, <1>4, <1>11, <2>1, <3>2
        <3>3. QED
            BY <1>3, <3>1, <3>2
    <2>2. QED
        BY <1>4, <1>7, <2>1 DEF NoTwice
<1>13. Held(d, new, h)
    <2>1. ASSUME NEW i \in 1..(n + 1), R[i].created PROVE h[R[i].title] = d
        <3>1. CASE i = n + 1
            BY <1>4, <2>1, <3>1 DEF Sound
        <3>2. CASE i \in 1..n
            BY <1>4, <2>1, <3>2 DEF RecInv, Held, Standing, Opening
        <3>3. QED
            BY <1>3, <3>1, <3>2
    <2>2. QED
        BY <1>4, <1>7, <2>1 DEF Held, Standing
<1>14. RecInv(d, new, h) /\ PhaseOf(new) = "running"
    BY <1>7, <1>8, <1>10, <1>12, <1>13, PhaseRunning
    DEF RecInv, Uploading, RunningPhases, Opening
<1>15. QED
    BY <1>6, <1>14 DEF new

\* What a deployment holds is all its invariant asks of the account.
LEMMA RecInvMonotone ==
    ASSUME NEW d \in Deploys, NEW rec \in Deployment, NEW h, NEW g, RecInv(d, rec, h),
           \A t \in Titles : h[t] = d => g[t] = d
    PROVE  RecInv(d, rec, g)
<1>1. ASSUME NEW i \in DOMAIN rec.resolved PROVE rec.resolved[i].title \in Titles
    <2>1. rec.resolved \in Seq(Entry)
        BY DEF Deployment
    <2>2. rec.resolved[i] \in Entry
        BY <2>1
    <2>3. QED
        BY <2>2 DEF Entry
<1>2. Held(d, rec, g)
    BY <1>1 DEF RecInv, Held
<1>3. rec.pc = "initsql" => Sound(d, rec, g, rec.pending)
    BY DEF RecInv, Sound, Entry
<1>4. QED
    BY <1>2, <1>3 DEF RecInv

-----------------------------------------------------------------------------
(***************************************************************************)
(* Every handler is a DeployStep                                           *)
(***************************************************************************)

\* A step that changes neither titles nor more than one deployment.
LEMMA QuietStep ==
    ASSUME IInv, NEW d \in Deploys, NEW new \in Deployment, RecInv(d, new, holder),
           Set(d, new), Moves(PhaseOf(dep[d]), PhaseOf(new)), holder' = holder,
           script' \in [Names -> Owners], projects' \subseteq Names,
           UNCHANGED <<accountRow, crashes>>
    PROVE  DeployStep(d)
BY DEF DeployStep, StepTo, Set, HolderStep

\* A step that throws.
LEMMA FailStep ==
    ASSUME IInv, NEW d \in Deploys, dep[d].pc \in RunningPhases,
           Set(d, Fail(dep[d])), holder' = holder,
           script' \in [Names -> Owners], projects' \subseteq Names,
           UNCHANGED <<accountRow, crashes>>
    PROVE  DeployStep(d)
<1>1. dep[d] \in Deployment /\ RecInv(d, dep[d], holder)
    BY DEF IInv, TypeOK
<1>2. QED
    BY <1>1, FailInv, PhaseRunning, QuietStep DEF Moves

\* A step to another call of the Worker or the Pages part.
LEMMA UploadStep ==
    ASSUME IInv, NEW d \in Deploys, dep[d].pc \in Uploading, NEW q \in Uploading,
           NEW b \in BOOLEAN, Set(d, [dep[d] EXCEPT !.deployed = b, !.pc = q]),
           holder' = holder, script' \in [Names -> Owners], projects' \subseteq Names,
           UNCHANGED <<accountRow, crashes>>
    PROVE  DeployStep(d)
<1> DEFINE rec == dep[d]
           new == [dep[d] EXCEPT !.deployed = b, !.pc = q]
<1>1. rec \in Deployment /\ RecInv(d, rec, holder)
    BY DEF IInv, TypeOK
<1>2. new \in Deployment
    BY <1>1 DEF Deployment, Uploading, Phases
<1>3. /\ new.resolved = rec.resolved /\ new.tpl = rec.tpl /\ new.next = rec.next
      /\ new.pc = q
    BY <1>1 DEF Deployment
<1> HIDE DEF new
<1>4. RecInv(d, new, holder) /\ PhaseOf(new) = "running"
    BY <1>1, <1>2, <1>3, MoveInv DEF RunningPhases
<1>5. QED
    BY <1>2, <1>4, PhaseRunning, QuietStep DEF Moves, RunningPhases, new

\* An entry in hand is appended, or waits for its init script.
LEMMA BindInv ==
    ASSUME NEW d \in Deploys, NEW rec \in Deployment, NEW h, RecInv(d, rec, h),
           rec = dep[d], rec.pc \in {"binding", "creating"}, Wanted(rec) \in Titles,
           NEW e, Sound(d, rec, h, e), NEW init, Bind(d, e, init)
    PROVE  \E new \in Deployment : /\ RecInv(d, new, h)
                                   /\ PhaseOf(new) = "running"
                                   /\ dep' = [dep EXCEPT ![d] = new]
<1>1. CASE init /\ e.title \in Databases
    <2> DEFINE new == [rec EXCEPT !.pc = "initsql", !.pending = e]
    <2>1. new \in Deployment
        BY DEF Deployment, Sound, Phases
    <2>2. /\ new.pc = "initsql" /\ new.pending = e /\ new.resolved = rec.resolved
          /\ new.tpl = rec.tpl /\ new.next = rec.next
        BY DEF Deployment
    <2>3. dep' = [dep EXCEPT ![d] = new]
        BY <1>1 DEF Bind, Set
    <2> HIDE DEF new
    <2>4. Bound(new)
        BY <2>2 DEF RecInv, Bound, Wanted, Opening
    <2>5. Traced(d, new) /\ NoTwice(new) /\ Held(d, new, h)
        BY <2>2 DEF RecInv, Traced, NoTwice, Held, Standing
    <2>6. Sound(d, new, h, new.pending)
        BY <2>2 DEF Sound, Wanted
    <2>7. QED
        BY <2>1, <2>2, <2>3, <2>4, <2>5, <2>6, PhaseRunning
        DEF RecInv, RunningPhases, Opening
<1>2. CASE ~(init /\ e.title \in Databases)
    <2>1. dep' = [dep EXCEPT ![d] = Resolve(rec, e)]
        BY <1>2 DEF Bind, Set
    <2>2. QED
        BY <2>1, ResolveInv DEF Opening
<1>3. QED
    BY <1>1, <1>2

LEMMA BindStep ==
    ASSUME IInv, NEW d \in Deploys, dep[d].pc = "binding", Wanted(dep[d]) \in Titles,
           NEW e \in Entry, ~e.created, NEW init, Bind(d, e, init),
           UNCHANGED <<cloudVars, accountRow, crashes>>
    PROVE  DeployStep(d)
<1>1. dep[d] \in Deployment /\ RecInv(d, dep[d], holder)
    BY DEF IInv, TypeOK
<1>2. Sound(d, dep[d], holder, e)
    BY DEF Sound
<1>3. PICK new \in Deployment : /\ RecInv(d, new, holder)
                                /\ PhaseOf(new) = "running"
                                /\ dep' = [dep EXCEPT ![d] = new]
    BY <1>1, <1>2, BindInv
<1>4. QED
    BY <1>3, PhaseRunning, QuietStep
    DEF Set, Moves, RunningPhases, Opening, cloudVars, IInv, TypeOK

LEMMA DeclareStep ==
    ASSUME IInv, NEW d \in Deploys, NEW filled \in BOOLEAN, Declare(d, filled)
    PROVE  DeployStep(d)
<1>1. dep[d] \in Deployment /\ RecInv(d, dep[d], holder) /\ dep[d].pc \in Opening
    BY DEF IInv, TypeOK, Declare, Opening
<1>2. /\ holder' = holder /\ script' \in [Names -> Owners] /\ projects' \subseteq Names
      /\ UNCHANGED <<accountRow, crashes>>
    BY DEF Declare, cloudVars, IInv, TypeOK
<1>3. CASE filled
    BY <1>1, <1>2, <1>3, AdvanceInv, PhaseRunning, QuietStep
    DEF Declare, Moves, RunningPhases
<1>4. CASE ~filled
    BY <1>1, <1>2, <1>4, FailStep DEF Declare, RunningPhases
<1>5. QED
    BY <1>3, <1>4

LEMMA ListStep ==
    ASSUME IInv, NEW d \in Deploys, NEW ok \in BOOLEAN, NEW init \in BOOLEAN,
           List(d, ok, init)
    PROVE  DeployStep(d)
<1> DEFINE t == Wanted(dep[d])
<1>1. /\ dep[d] \in Deployment /\ RecInv(d, dep[d], holder)
      /\ dep[d].pc = "binding" /\ t \in Titles
    BY DEF IInv, TypeOK, List
<1>2. /\ holder' = holder /\ script' \in [Names -> Owners] /\ projects' \subseteq Names
      /\ UNCHANGED <<accountRow, crashes>>
    BY DEF List, cloudVars, IInv, TypeOK
<1>3. CASE holder[t] # None /\ Bind(d, Found(t, d), init)
    BY <1>1, <1>3, BindStep DEF List, Found, Entry, IInv, TypeOK
<1>4. CASE Set(d, [dep[d] EXCEPT !.pc = "creating"])
    <2> DEFINE new == [dep[d] EXCEPT !.pc = "creating"]
    <2>1. /\ new \in Deployment
          /\ new.pc = "creating" /\ new.resolved = dep[d].resolved
          /\ new.tpl = dep[d].tpl /\ new.next = dep[d].next
        BY <1>1 DEF Deployment, Phases
    <2> HIDE DEF new
    <2>2. RecInv(d, new, holder) /\ PhaseOf(new) = "running"
        BY <1>1, <2>1, MoveInv DEF RunningPhases, Opening
    <2>3. QED
        BY <1>1, <1>2, <1>4, <2>1, <2>2, PhaseRunning, QuietStep
        DEF Moves, RunningPhases, Opening, new
<1>5. CASE Set(d, Fail(dep[d]))
    BY <1>1, <1>2, <1>5, FailStep DEF RunningPhases, Opening
<1>6. QED
    BY <1>3, <1>4, <1>5 DEF List

\* A title that was free is taken: the invariant of the taker gains nothing
\* and loses nothing by it.
LEMMA CreateStep ==
    ASSUME IInv, NEW d \in Deploys, NEW init \in BOOLEAN, Create(d, init)
    PROVE  DeployStep(d)
<1> DEFINE t == Wanted(dep[d])
           taken == [holder EXCEPT ![t] = d]
<1>1. /\ dep[d] \in Deployment /\ RecInv(d, dep[d], holder)
      /\ dep[d].pc = "creating" /\ t \in Titles
    BY DEF IInv, TypeOK, Create, RecInv, Bound
<1>2. /\ script' \in [Names -> Owners] /\ projects' \subseteq Names
      /\ UNCHANGED <<accountRow, crashes>>
    BY DEF Create, IInv, TypeOK
<1>3. holder \in [Titles -> Owners]
    BY DEF IInv, TypeOK
<1>4. CASE holder' = holder /\ Set(d, Fail(dep[d]))
    BY <1>1, <1>2, <1>4, FailStep DEF RunningPhases, Opening
<1>5. CASE holder[t] = None /\ holder' = taken
    <2>1. RecInv(d, dep[d], taken)
        BY <1>1, <1>3, RecInvMonotone
    <2>2. Sound(d, dep[d], taken, Made(t, d))
        BY <1>1, <1>3 DEF Sound, Made, Entry, Owners
    <2>3. \A q \in {"running", "aborting"} : HolderStep(d, "running", q)
        BY <1>1, <1>5 DEF HolderStep
    <2>4. PhaseOf(dep[d]) = "running"
        BY <1>1, PhaseRunning DEF RunningPhases, Opening
    <2>5. CASE Bind(d, Made(t, d), init)
        <3>1. PICK new \in Deployment : /\ RecInv(d, new, taken)
                                        /\ PhaseOf(new) = "running"
                                        /\ dep' = [dep EXCEPT ![d] = new]
            BY <1>1, <2>1, <2>2, <2>5, BindInv
        <3>2. QED
            BY <1>2, <1>5, <2>3, <2>4, <3>1 DEF DeployStep, StepTo
    <2>6. CASE Set(d, Fail(dep[d]))
        <3>1. /\ Fail(dep[d]) \in Deployment /\ RecInv(d, Fail(dep[d]), taken)
              /\ PhaseOf(Fail(dep[d])) = "aborting"
            BY <1>1, <2>1, FailInv DEF RunningPhases, Opening
        <3>2. QED
            BY <1>2, <1>5, <2>3, <2>4, <2>6, <3>1 DEF DeployStep, StepTo, Set
    <2>7. QED
        BY <1>1, <1>2, <1>5, <2>5, <2>6, FailStep DEF Create
<1>6. QED
    BY <1>4, <1>5 DEF Create

LEMMA InitSqlStep ==
    ASSUME IInv, NEW d \in Deploys, NEW ok \in BOOLEAN, InitSql(d, ok)
    PROVE  DeployStep(d)
<1>1. /\ dep[d] \in Deployment /\ RecInv(d, dep[d], holder)
      /\ dep[d].pc = "initsql" /\ Wanted(dep[d]) \in Titles
      /\ Sound(d, dep[d], holder, dep[d].pending)
    BY DEF IInv, TypeOK, InitSql, RecInv, Bound
<1>2. /\ holder' = holder /\ script' \in [Names -> Owners] /\ projects' \subseteq Names
      /\ UNCHANGED <<accountRow, crashes>>
    BY DEF InitSql, cloudVars, IInv, TypeOK
<1>3. CASE ok
    <2>1. Set(d, Resolve(dep[d], dep[d].pending))
        BY <1>3 DEF InitSql
    <2>2. QED
        BY <1>1, <1>2, <2>1, ResolveInv, PhaseRunning, QuietStep
        DEF Moves, RunningPhases, Opening
<1>4. CASE ~ok
    BY <1>1, <1>2, <1>4, FailStep DEF InitSql, RunningPhases, Opening
<1>5. QED
    BY <1>3, <1>4

LEMMA ResolvingStep ==
    ASSUME IInv, NEW d \in Deploys, Resolving(d)
    PROVE  DeployStep(d)
<1>1. ASSUME NEW t \in Titles, NEW init \in BOOLEAN, UseExisting(d, t, init)
      PROVE  DeployStep(d)
    <2>1. Found(t, d) \in Entry /\ ~Found(t, d).created
        BY DEF Found, Entry, IInv, TypeOK
    <2>2. QED
        BY <1>1, <2>1, BindStep DEF UseExisting
<1>2. QED
    BY <1>1, DeclareStep, ListStep, CreateStep, InitSqlStep DEF Resolving

\* Every step of the Worker and Pages parts goes on or throws.
LEMMA DeployingStep ==
    ASSUME IInv, NEW d \in Deploys, Deploying(d)
    PROVE  DeployStep(d)
<1> DEFINE rec == dep[d]
<1>1. /\ rec \in Deployment /\ RecInv(d, rec, holder)
      /\ rec.pc \in Uploading /\ rec.name \in Names
    BY DEF IInv, TypeOK, Deploying, Download, CheckScript, PutScript, UploadVersion,
           Release, FetchPages, CreateProject, Publish, Finish, Step, Uploading,
           Deployment
<1>2. /\ holder' = holder /\ script' \in [Names -> Owners] /\ projects' \subseteq Names
      /\ UNCHANGED <<accountRow, crashes>>
    <2>1. holder' = holder /\ UNCHANGED <<accountRow, crashes>>
        BY DEF Deploying, Download, CheckScript, PutScript, UploadVersion,
               Release, FetchPages, CreateProject, Publish, Finish, Step, cloudVars
    <2>2. script \in [Names -> Owners] /\ projects \subseteq Names
        BY DEF IInv, TypeOK
    <2>3. [script EXCEPT ![rec.name] = d] \in [Names -> Owners]
        BY <2>2 DEF Owners
    <2>4. script' \in {script, [script EXCEPT ![rec.name] = d]}
        BY DEF Deploying, Download, CheckScript, PutScript, UploadVersion,
               Release, FetchPages, CreateProject, Publish, Finish, Step, cloudVars
    <2>5. projects' \in {projects, projects \cup {rec.name}}
        BY DEF Deploying, Download, CheckScript, PutScript, UploadVersion,
               Release, FetchPages, CreateProject, Publish, Finish, Step, cloudVars
    <2>6. QED
        BY <1>1, <2>1, <2>2, <2>3, <2>4, <2>5
<1>3. CASE Set(d, Fail(rec))
    BY <1>1, <1>2, <1>3, FailStep DEF RunningPhases
<1>4. CASE \E q \in Uploading : Set(d, [rec EXCEPT !.pc = q])
    <2>1. PICK q \in Uploading : Set(d, [rec EXCEPT !.pc = q])
        BY <1>4
    <2>2. rec.deployed \in BOOLEAN
        BY <1>1 DEF Deployment
    <2>3. [rec EXCEPT !.pc = q] = [rec EXCEPT !.deployed = rec.deployed, !.pc = q]
        BY <1>1 DEF Deployment
    <2>4. QED
        BY <1>1, <1>2, <2>1, <2>2, <2>3, UploadStep
<1>5. CASE Set(d, Deployed(rec))
    <2> DEFINE q == IF rec.tpl.pages THEN "fetch" ELSE "finish"
    <2>1. q \in Uploading
        BY DEF Uploading
    <2>2. Deployed(rec) = [rec EXCEPT !.deployed = TRUE, !.pc = q]
        BY DEF Deployed
    <2> HIDE DEF q
    <2>3. QED
        BY <1>1, <1>2, <1>5, <2>1, <2>2, UploadStep
<1>6. CASE Set(d, [rec EXCEPT !.pc = "done", !.result = "success"]) /\ rec.pc = "finish"
    <2> DEFINE new == [rec EXCEPT !.pc = "done", !.result = "success"]
    <2>1. /\ new \in Deployment /\ new.pc = "done" /\ new.result = "success"
          /\ new.resolved = rec.resolved /\ new.tpl = rec.tpl /\ new.next = rec.next
        BY <1>1 DEF Deployment, Phases
    <2> HIDE DEF new
    <2>2. RecInv(d, new, holder)
        BY <1>1, <2>1
        DEF RecInv, Bound, Traced, NoTwice, Held, Standing, Opening
    <2>3. PhaseOf(new) = "committed" /\ PhaseOf(rec) = "running"
        BY <1>1, <2>1, PhaseRunning DEF PhaseOf, RunningPhases
    <2>4. QED
        BY <1>2, <1>6, <2>1, <2>2, <2>3, QuietStep DEF Moves, new
<1>7. QED
    BY <1>3, <1>4, <1>5, <1>6
    DEF Deploying, Download, CheckScript, PutScript, UploadVersion, Release,
        FetchPages, CreateProject, Publish, Finish, Step, Uploading

\* The entry at the counter is deleted; the entries below it, which have
\* other titles, still stand.
LEMMA UndoneInv ==
    ASSUME NEW d \in Deploys, NEW rec \in Deployment, NEW h \in [Titles -> Owners],
           RecInv(d, rec, h), rec.pc = "undo", rec.undoAt > 0,
           NEW failed \in BOOLEAN, NEW g,
           \/ g = h
           \/ /\ rec.resolved[rec.undoAt].created
              /\ g = [h EXCEPT ![rec.resolved[rec.undoAt].title] = None]
    PROVE  /\ rec.undoAt \in DOMAIN rec.resolved
           /\ rec.resolved[rec.undoAt] \in Entry
           /\ Undone(rec, failed) \in Deployment
           /\ RecInv(d, Undone(rec, failed), g)
           /\ PhaseOf(Undone(rec, failed)) = "aborting"
<1> DEFINE u == rec.undoAt
           e == rec.resolved[u]
           new == Undone(rec, failed)
<1>1. rec.resolved \in Seq(Entry) /\ u \in Nat /\ u <= Len(rec.resolved)
    BY DEF RecInv, Deployment
<1>2. u \in DOMAIN rec.resolved /\ e \in Entry
    BY <1>1
<1>3. e.title \in Titles
    BY <1>2 DEF Entry
<1>4. /\ new \in Deployment
      /\ new.pc = "undo" /\ new.undoAt = u - 1 /\ new.resolved = rec.resolved
      /\ new.tpl = rec.tpl /\ new.next = rec.next
    <2> DEFINE errs == IF failed THEN rec.errors \cup {e.title} ELSE rec.errors
    <2>1. errs \in SUBSET Titles
        BY <1>3 DEF Deployment
    <2>2. new = [rec EXCEPT !.undoAt = u - 1, !.errors = errs]
        <3>1. CASE failed
            BY <3>1 DEF Undone, Deployment
        <3>2. CASE ~failed
            BY <3>2 DEF Undone, Deployment
        <3>3. QED
            BY <3>1, <3>2
    <2>3. u - 1 \in Nat
        BY <1>1
    <2> HIDE DEF errs, new, u
    <2>4. QED
        BY <2>1, <2>2, <2>3 DEF Deployment
<1> HIDE DEF new
<1>5. Bound(new) /\ Traced(d, new) /\ NoTwice(new)
    BY <1>4 DEF RecInv, Bound, Traced, NoTwice, Opening
<1>6. Held(d, new, g)
    <2> SUFFICES ASSUME NEW i \in DOMAIN rec.resolved, rec.resolved[i].created,
                        i <= u - 1
                 PROVE  g[rec.resolved[i].title] = d
        BY <1>4 DEF Held, Standing
    <2>1. i \in Nat /\ i <= u /\ i # u
        BY <1>1
    <2>2. h[rec.resolved[i].title] = d
        BY <2>1 DEF RecInv, Held, Standing
    <2>3. e.created => rec.resolved[i].title # e.title
        BY <1>2, <2>1 DEF RecInv, NoTwice
    <2>4. rec.resolved[i].title \in Titles
        <3>1. rec.resolved[i] \in Entry
            BY <1>1
        <3>2. QED
            BY <3>1 DEF Entry
    <2>5. QED
        BY <2>2, <2>3, <2>4
<1>7. RecInv(d, new, g) /\ PhaseOf(new) = "aborting"
    BY <1>1, <1>4, <1>5, <1>6 DEF RecInv, PhaseOf
<1>8. QED
    BY <1>2, <1>4, <1>7 DEF new

LEMMA UndoStep ==
    ASSUME IInv, NEW d \in Deploys, NEW failed \in BOOLEAN, Undo(d, failed)
    PROVE  DeployStep(d)
<1> DEFINE rec == dep[d]
           e == rec.resolved[rec.undoAt]
           new == Undone(rec, failed)
<1>1. /\ rec \in Deployment /\ RecInv(d, rec, holder)
      /\ rec.pc = "undo" /\ rec.undoAt > 0
      /\ holder \in [Titles -> Owners]
    BY DEF IInv, TypeOK, Undo
<1>2. /\ script' \in [Names -> Owners] /\ projects' \subseteq Names
      /\ UNCHANGED <<accountRow, crashes>> /\ dep' = [dep EXCEPT ![d] = new]
    BY DEF Undo, IInv, TypeOK, Set
<1>3. \/ holder' = holder
      \/ e.created /\ holder' = [holder EXCEPT ![e.title] = None]
    BY DEF Undo
<1>4. /\ rec.undoAt \in DOMAIN rec.resolved /\ e \in Entry /\ new \in Deployment
      /\ RecInv(d, new, holder') /\ PhaseOf(new) = "aborting"
    BY <1>1, <1>3, UndoneInv
<1>5. PhaseOf(rec) = "aborting"
    BY <1>1 DEF PhaseOf
<1>6. e.created => holder[e.title] = d /\ e.title \in Titles
    <2>1. rec.undoAt \in Nat
        BY <1>1 DEF Deployment
    <2>2. QED
        BY <1>1, <1>4, <2>1 DEF RecInv, Held, Standing, Entry
<1> HIDE DEF new
<1>7. HolderStep(d, PhaseOf(rec), PhaseOf(new))
    BY <1>3, <1>4, <1>5, <1>6 DEF HolderStep, Moves
<1>8. QED
    BY <1>2, <1>4, <1>7 DEF DeployStep, StepTo

LEMMA CloseStep ==
    ASSUME IInv, NEW d \in Deploys, Close(d)
    PROVE  DeployStep(d)
<1> DEFINE rec == dep[d]
           q == IF accountRow THEN "failed" ELSE "error"
           new == [rec EXCEPT !.pc = "done", !.result = q]
<1>1. rec \in Deployment /\ RecInv(d, rec, holder) /\ rec.pc = "undo"
    BY DEF IInv, TypeOK, Close
<1>2. /\ holder' = holder /\ projects' \subseteq Names
      /\ UNCHANGED <<accountRow, crashes>> /\ Set(d, new)
    BY DEF Close, IInv, TypeOK
<1>3. script' \in [Names -> Owners]
    BY DEF Close, IInv, TypeOK, Owners
<1>4. q \in {"failed", "error"}
    OBVIOUS
<1> HIDE DEF q
<1>5. /\ new \in Deployment /\ new.pc = "done" /\ new.result = q
      /\ new.resolved = rec.resolved /\ new.tpl = rec.tpl /\ new.next = rec.next
    BY <1>1, <1>4 DEF Deployment, Phases
<1> HIDE DEF new
<1>6. RecInv(d, new, holder)
    BY <1>1, <1>5 DEF RecInv, Bound, Traced, NoTwice, Held, Standing, Opening
<1>7. PhaseOf(new) = "aborted" /\ PhaseOf(rec) = "aborting"
    BY <1>1, <1>4, <1>5 DEF PhaseOf
<1>8. QED
    BY <1>2, <1>3, <1>5, <1>6, <1>7, QuietStep DEF Moves

LEMMA HandleStep ==
    ASSUME IInv, NEW d \in Deploys, Handle(d)
    PROVE  DeployStep(d)
BY ResolvingStep, DeployingStep, UndoStep, CloseStep DEF Handle, RollingBack

\* What the other deployments hold survives a step of one of them.
LEMMA OthersKeep ==
    ASSUME IInv, NEW d \in Deploys, DeployStep(d), NEW t \in Titles,
           holder[t] \notin {None, d}
    PROVE  holder'[t] = holder[t]
BY DEF DeployStep, StepTo, HolderStep, IInv, TypeOK

LEMMA DeployStepInv ==
    ASSUME IInv, NEW d \in Deploys, DeployStep(d)
    PROVE  IInv'
<1>1. PICK new \in Deployment : StepTo(d, dep[d], new)
    BY DEF DeployStep
<1>2. holder' \in [Titles -> Owners]
    BY <1>1 DEF StepTo, HolderStep, IInv, TypeOK, Owners
<1>3. dep' = [dep EXCEPT ![d] = new] /\ dep' \in [Deploys -> Deployment]
    BY <1>1 DEF StepTo, IInv, TypeOK
<1>4. TypeOK'
    BY <1>2, <1>3 DEF DeployStep, IInv, TypeOK
<1>5. ASSUME NEW o \in Deploys PROVE RecInv(o, dep'[o], holder')
    <2>1. CASE o = d
        BY <1>1, <1>3, <2>1 DEF StepTo, IInv, TypeOK
    <2>2. CASE o # d
        <3>1. dep'[o] = dep[o] /\ dep[o] \in Deployment /\ RecInv(o, dep[o], holder)
            BY <1>3, <2>2 DEF IInv, TypeOK
        <3>2. \A t \in Titles : holder[t] = o => holder'[t] = o
            BY <2>2, OthersKeep, NamesAssumption
        <3>3. QED
            BY <3>1, <3>2, RecInvMonotone
    <2>3. QED
        BY <2>1, <2>2
<1>6. QED
    BY <1>4, <1>5 DEF IInv

LEMMA RefuseInv ==
    ASSUME IInv, NEW d \in Deploys, Refuse(d)
    PROVE  /\ IInv' /\ holder' = holder
           /\ \E new \in Deployment : /\ dep' = [dep EXCEPT ![d] = new]
                                      /\ PhaseOf(new) = "aborted"
<1> DEFINE new == [dep[d] EXCEPT !.pc = "done", !.result = "refused"]
<1>1. dep[d] \in Deployment /\ RecInv(d, dep[d], holder) /\ dep[d].pc = "idle"
    BY DEF IInv, TypeOK, Refuse
<1>2. /\ new \in Deployment /\ new.pc = "done" /\ new.result = "refused"
      /\ new.resolved = dep[d].resolved /\ new.tpl = dep[d].tpl
      /\ new.next = dep[d].next
    BY <1>1 DEF Deployment, Phases
<1>3. /\ dep' = [dep EXCEPT ![d] = new]
      /\ UNCHANGED <<holder, script, projects, accountRow, crashes>>
    BY DEF Refuse, Set, cloudVars
<1> HIDE DEF new
<1>4. RecInv(d, new, holder)
    BY <1>1, <1>2 DEF RecInv, Bound, Traced, NoTwice, Held, Standing, Opening
<1>5. PhaseOf(new) = "aborted"
    BY <1>2 DEF PhaseOf
<1>6. QED
    BY <1>2, <1>3, <1>4, <1>5 DEF IInv, TypeOK

LEMMA StartInv ==
    ASSUME IInv, NEW d \in Deploys, NEW tpl \in Templates, NEW n \in Names,
           Start(d, tpl, n)
    PROVE  /\ IInv' /\ holder' = holder
           /\ \E new \in Deployment : /\ dep' = [dep EXCEPT ![d] = new]
                                      /\ PhaseOf(new) = "running"
<1> DEFINE q == IF tpl.bindings = << >> THEN AfterBindings(tpl) ELSE "binding"
           new == [dep[d] EXCEPT !.tpl = tpl, !.name = n, !.pc = q]
<1>1. /\ dep[d] \in Deployment /\ RecInv(d, dep[d], holder)
      /\ dep[d].pc = "idle" /\ dep[d].resolved = << >> /\ dep[d].next = 1
    BY DEF IInv, TypeOK, Start, RecInv, Bound
<1>2. AfterBindings(tpl) \in Uploading
    BY DEF AfterBindings, Uploading
<1>3. /\ q \in Uploading \/ (q = "binding" /\ 1 \in DOMAIN tpl.bindings)
      /\ q \in Phases
    <2>1. tpl.bindings \in Seq(Titles \cup {Prompt})
        BY TemplatesAssumption
    <2>2. tpl.bindings # << >> => 1 \in DOMAIN tpl.bindings
        BY <2>1
    <2>3. QED
        BY <1>2, <2>2 DEF Uploading, Phases
<1>4. /\ dep' = [dep EXCEPT ![d] = new]
      /\ UNCHANGED <<holder, script, projects, accountRow, crashes>>
    BY DEF Start, Set, cloudVars
<1> HIDE DEF q
<1>5. /\ new \in Deployment /\ new.pc = q /\ new.tpl = tpl
      /\ new.resolved = << >> /\ new.next = 1
    BY <1>1, <1>3 DEF Deployment
<1> HIDE DEF new
<1>6. RecInv(d, new, holder)
    BY <1>3, <1>5
    DEF RecInv, Bound, Traced, NoTwice, Held, Standing, Opening, Uploading
<1>7. PhaseOf(new) = "running"
    BY <1>3, <1>5, PhaseRunning DEF RunningPhases, Opening
<1>8. QED
    BY <1>4, <1>5, <1>6, <1>7 DEF IInv, TypeOK

\* A restart forgets what was running and leaves the account as it is.
LEMMA CrashInv ==
    ASSUME IInv, Crash
    PROVE  /\ IInv' /\ holder' = holder
           /\ \A d \in Deploys : PhaseOf(dep'[d]) =
                 IF PhaseOf(dep[d]) \in {"running", "aborting"} THEN "lost"
                                                               ELSE PhaseOf(dep[d])
<1>1. /\ UNCHANGED <<holder, script, projects, accountRow>>
      /\ crashes' \in 0..MaxCrashes
    BY NamesAssumption DEF Crash, cloudVars, IInv, TypeOK
<1>2. ASSUME NEW d \in Deploys
      PROVE  /\ dep'[d] \in Deployment /\ RecInv(d, dep'[d], holder)
             /\ PhaseOf(dep'[d]) =
                   IF PhaseOf(dep[d]) \in {"running", "aborting"} THEN "lost"
                                                                 ELSE PhaseOf(dep[d])
    <2> DEFINE gone == [NewDeployment EXCEPT !.pc = "lost"]
    <2>1. dep[d] \in Deployment /\ RecInv(d, dep[d], holder)
        BY DEF IInv, TypeOK
    <2>2. gone \in Deployment /\ gone.pc = "lost" /\ gone.resolved = << >>
        <3>1. NewDeployment \in Deployment /\ NewDeployment.resolved = << >>
            BY NamesAssumption DEF NewDeployment, Deployment, Phases
        <3>2. QED
            BY <3>1 DEF Deployment, Phases
    <2>3. dep'[d] = IF Active(dep[d]) THEN gone ELSE dep[d]
        BY DEF Crash
    <2> HIDE DEF gone
    <2>4. RecInv(d, gone, holder) /\ PhaseOf(gone) = "lost"
        BY <2>1, <2>2
        DEF RecInv, Bound, Traced, NoTwice, Held, Standing, Opening, PhaseOf
    <2>5. Active(dep[d]) <=> PhaseOf(dep[d]) \in {"running", "aborting"}
        BY <2>1 DEF Active, PhaseOf, Deployment, Phases
    <2>6. QED
        BY <2>1, <2>2, <2>3, <2>4, <2>5
<1>3. dep' \in [Deploys -> Deployment]
    BY <1>2 DEF Crash
<1>4. QED
    BY <1>1, <1>2, <1>3 DEF IInv, TypeOK

-----------------------------------------------------------------------------
(***************************************************************************)
(* The theorems                                                            *)
(***************************************************************************)

LEMMA InitInv == Init => IInv
<1> SUFFICES ASSUME Init PROVE IInv
    OBVIOUS
<1>1. NewDeployment \in Deployment
    BY NamesAssumption DEF NewDeployment, Deployment, Phases
<1>2. TypeOK
    BY <1>1, NamesAssumption DEF Init, TypeOK, Owners
<1>3. ASSUME NEW d \in Deploys PROVE RecInv(d, dep[d], holder)
    <2>1. dep[d] = NewDeployment
        BY DEF Init
    <2>2. RecInv(d, NewDeployment, holder)
        BY DEF NewDeployment, RecInv, Bound, Traced, NoTwice, Held, Standing, Opening
    <2>3. QED
        BY <2>1, <2>2
<1>4. QED
    BY <1>2, <1>3 DEF IInv

LEMMA NextInv ==
    ASSUME IInv, [Next]_vars
    PROVE  IInv'
<1>1. CASE UNCHANGED vars
    BY <1>1 DEF vars, IInv, TypeOK, RecInv, Held
<1>2. CASE DeleteAccount
    BY <1>2 DEF DeleteAccount, cloudVars, IInv, TypeOK, RecInv, Held
<1>3. CASE Crash
    BY <1>3, CrashInv
<1>4. ASSUME NEW d \in Deploys,
             \/ \E tpl \in Templates, n \in Names : Start(d, tpl, n)
             \/ Refuse(d)
             \/ Handle(d)
      PROVE  IInv'
    BY <1>4, StartInv, RefuseInv, HandleStep, DeployStepInv
<1>5. QED
    BY <1>1, <1>2, <1>3, <1>4 DEF Next

\* Every reachable state satisfies the inductive invariant.
THEOREM Invariance == Spec => []IInv
<1>1. Init => IInv
    BY InitInv
<1>2. IInv /\ [Next]_vars => IInv'
    BY NextInv
<1>3. QED
    BY <1>1, <1>2, PTL DEF Spec

\* The type invariant of the deployments.
THEOREM TypeCorrect == Spec => []TypeOK
<1>1. IInv => TypeOK
    BY DEF IInv
<1>2. QED
    BY <1>1, Invariance, PTL

\* No rollback in services/deploy/index.ts deletes a resource that the
\* account's owner had: what an entry marked created names is held by the
\* deployment itself, although buckets are deleted by name.
THEOREM UserResourcesSafe == Spec => UserResourcesKept
<1> DEFINE Kept == \A t \in Titles : holder[t] = User => holder'[t] = User
<1>1. IInv /\ [Next]_vars => [Kept]_vars
    <2> SUFFICES ASSUME IInv, Next PROVE Kept
        OBVIOUS
    <2>1. ASSUME holder' = holder PROVE Kept
        BY <2>1
    <2>2. ASSUME NEW d \in Deploys, Handle(d) PROVE Kept
        BY <2>2, HandleStep, OthersKeep, NamesAssumption
    <2>3. ASSUME NEW d \in Deploys,
                 \/ \E tpl \in Templates, n \in Names : Start(d, tpl, n)
                 \/ Refuse(d)
          PROVE  Kept
        BY <2>1, <2>3, StartInv, RefuseInv
    <2>4. QED
        BY <2>1, <2>2, <2>3, CrashInv DEF Next, DeleteAccount, cloudVars
<1>2. QED
    BY <1>1, Invariance, PTL DEF Spec, UserResourcesKept

-----------------------------------------------------------------------------
(***************************************************************************)
(* The deployments implement Saga                                          *)
(***************************************************************************)

LEMMA PhaseUpdate ==
    ASSUME IInv, NEW d \in Deploys, NEW new, dep' = [dep EXCEPT ![d] = new]
    PROVE  Phase' = [Phase EXCEPT ![d] = PhaseOf(new)] /\ Phase[d] = PhaseOf(dep[d])
BY DEF Phase, IInv, TypeOK

LEMMA DeployStepRefines ==
    ASSUME IInv, NEW d \in Deploys, DeployStep(d)
    PROVE  Abstract!Next \/ UNCHANGED <<holder, Phase>>
<1>1. PICK new \in Deployment : StepTo(d, dep[d], new)
    BY DEF DeployStep
<1> DEFINE p == PhaseOf(dep[d])
           q == PhaseOf(new)
<1>2. /\ Phase' = [Phase EXCEPT ![d] = q] /\ Phase[d] = p
      /\ HolderStep(d, p, q)
    BY <1>1, PhaseUpdate DEF StepTo
<1>3. p = q => Phase' = Phase
    BY <1>2 DEF Phase
<1> HIDE DEF p, q
<1>4. CASE holder' = holder /\ Moves(p, q)
    <2>1. CASE p = q
        BY <1>3, <1>4, <2>1
    <2>2. CASE p = "running" /\ q \in {"aborting", "committed"}
        <3>1. Abstract!Decide(d, q)
            BY <1>2, <1>4, <2>2 DEF Abstract!Decide
        <3>2. QED
            BY <2>2, <3>1 DEF Abstract!Next
    <2>3. CASE p = "aborting" /\ q = "aborted"
        <3>1. Abstract!Aborted(d)
            BY <1>2, <1>4, <2>3 DEF Abstract!Aborted
        <3>2. QED
            BY <3>1 DEF Abstract!Next
    <2>4. QED
        BY <1>4, <2>1, <2>2, <2>3 DEF Moves
<1>5. CASE /\ p = "running" /\ q \in {"running", "aborting"}
           /\ \E t \in Titles : holder[t] = None /\ holder' = [holder EXCEPT ![t] = d]
    <2>1. PICK t \in Titles : holder[t] = None /\ holder' = [holder EXCEPT ![t] = d]
        BY <1>5
    <2>2. Abstract!Acquire(d, t, q)
        BY <1>2, <1>5, <2>1 DEF Abstract!Acquire, Abstract!Running
    <2>3. QED
        BY <1>5, <2>2 DEF Abstract!Next, Abstract!Running
<1>6. CASE /\ p = "aborting" /\ q = "aborting"
           /\ \E t \in Titles : holder[t] = d /\ holder' = [holder EXCEPT ![t] = None]
    <2>1. PICK t \in Titles : holder[t] = d /\ holder' = [holder EXCEPT ![t] = None]
        BY <1>6
    <2>2. Abstract!Release(d, t)
        BY <1>2, <1>3, <1>6, <2>1 DEF Abstract!Release
    <2>3. QED
        BY <2>2 DEF Abstract!Next
<1>7. QED
    BY <1>2, <1>4, <1>5, <1>6 DEF HolderStep

\* Seen from the account's named resources, concurrent deployments are sagas:
\* they take only free names and give up only what is their own.
THEOREM SagaImplemented == Spec => ImplementsSaga
<1>1. Init => Abstract!Init
    <2> SUFFICES ASSUME Init PROVE Abstract!Init
        OBVIOUS
    <2>1. PhaseOf(NewDeployment) = "idle"
        BY DEF NewDeployment, PhaseOf
    <2>2. Phase = [d \in Deploys |-> "idle"]
        BY <2>1 DEF Init, Phase
    <2>3. QED
        BY <2>2, NamesAssumption DEF Init, Abstract!Init
<1>2. IInv /\ [Next]_vars => [Abstract!Next]_<<holder, Phase>>
    <2> SUFFICES ASSUME IInv, [Next]_vars
                 PROVE  Abstract!Next \/ UNCHANGED <<holder, Phase>>
        OBVIOUS
    <2>1. CASE UNCHANGED vars \/ DeleteAccount
        BY <2>1 DEF vars, DeleteAccount, cloudVars, Phase, PhaseOf
    <2>2. ASSUME NEW d \in Deploys, Handle(d)
          PROVE  Abstract!Next \/ UNCHANGED <<holder, Phase>>
        BY <2>2, HandleStep, DeployStepRefines
    <2>3. ASSUME NEW d \in Deploys, Refuse(d) PROVE Abstract!Next
        <3>1. Phase[d] = "idle"
            BY <2>3 DEF Phase, PhaseOf, Refuse
        <3>2. Abstract!Refuse(d)
            BY <2>3, <3>1, RefuseInv, PhaseUpdate DEF Abstract!Refuse
        <3>3. QED
            BY <3>2 DEF Abstract!Next
    <2>4. ASSUME NEW d \in Deploys, NEW tpl \in Templates, NEW n \in Names,
                 Start(d, tpl, n)
          PROVE  Abstract!Next
        <3>1. Phase[d] = "idle"
            BY <2>4 DEF Phase, PhaseOf, Start
        <3>2. Abstract!Begin(d)
            BY <2>4, <3>1, StartInv, PhaseUpdate DEF Abstract!Begin
        <3>3. QED
            BY <3>2 DEF Abstract!Next
    <2>5. CASE Crash
        <3>1. Abstract!Crash
            BY <2>5, CrashInv DEF Abstract!Crash, Abstract!Running, Phase
        <3>2. QED
            BY <3>1 DEF Abstract!Next
    <2>6. QED
        BY <2>1, <2>2, <2>3, <2>4, <2>5 DEF Next
<1>3. QED
    BY <1>1, <1>2, Invariance, PTL DEF Spec, ImplementsSaga, Abstract!Spec

-----------------------------------------------------------------------------
(***************************************************************************)
(* What a deployment leaves on the account when it is over: the Worker of  *)
(* a deployment that got it deployed, the resources of one that succeeded, *)
(* and those of one that failed.  First, its script.                       *)
(***************************************************************************)

\* From the check that finds a script to its release the deployment relies on it.
Relies(rec) == rec.deployed \/ rec.pc \in {"version", "release"}

\* What can be said of the script then.
Excused(d) ==
    \/ script[dep[d].name] # None
    \/ \E o \in Deploys \ {d} : /\ dep[o].name = dep[d].name
                                /\ Unsuccessful(dep[o]) /\ ~dep[o].deployed

ScriptInv ==
    \A d \in Deploys : /\ dep[d].pc = "idle" => ~dep[d].deployed
                       /\ Relies(dep[d]) => Excused(d)

\* How a step of deployment d treats its script: it stays or is replaced, and
\* d comes to rely on it only if it is there; or d, which did not, removes it.
Treats(d, rec, new) ==
    \/ /\ script' \in {script, [script EXCEPT ![rec.name] = d]}
       /\ Relies(new) => Relies(rec) \/ script'[rec.name] # None
    \/ /\ ~rec.deployed /\ ~new.deployed /\ Unsuccessful(new)
       /\ script' = [script EXCEPT ![rec.name] = None]

ScriptStep(d) ==
    \E new \in Deployment :
        /\ dep' = [dep EXCEPT ![d] = new]
        /\ dep[d].pc \notin {"idle", "done", "lost"}
        /\ new.name = dep[d].name /\ new.pc # "idle"
        /\ Treats(d, dep[d], new)

\* Reading a record after the functions that build the next one.
LEMMA FailFields ==
    ASSUME NEW rec \in Deployment
    PROVE  /\ Fail(rec).name = rec.name /\ Fail(rec).deployed = rec.deployed
           /\ Fail(rec).pc = "undo" /\ Fail(rec).tpl = rec.tpl /\ Fail(rec).next = rec.next
           /\ Fail(rec).resolved = rec.resolved /\ Fail(rec).undoAt = Len(rec.resolved)
           /\ Fail(rec).errors = rec.errors /\ Fail(rec).result = rec.result
BY DEF Fail, Deployment

LEMMA AdvanceFields ==
    ASSUME NEW rec \in Deployment
    PROVE  /\ Advance(rec).name = rec.name /\ Advance(rec).deployed = rec.deployed
           /\ Advance(rec).pc \in {"binding", "download", "fetch", "finish"}
           /\ Advance(rec).resolved = rec.resolved
           /\ Advance(rec).result = rec.result
BY DEF Advance, AfterBindings, Deployment

LEMMA ResolveFields ==
    ASSUME NEW rec \in Deployment, NEW e
    PROVE  /\ Resolve(rec, e).name = rec.name /\ Resolve(rec, e).deployed = rec.deployed
           /\ Resolve(rec, e).pc \in {"binding", "download", "fetch", "finish"}
           /\ Resolve(rec, e).resolved = Append(rec.resolved, e)
           /\ Resolve(rec, e).result = rec.result
BY DEF Resolve, Advance, AfterBindings, Deployment

\* A step that neither touches the script nor comes to rely on one.
LEMMA ScriptLeft ==
    ASSUME IInv, NEW d \in Deploys, NEW new \in Deployment,
           dep' = [dep EXCEPT ![d] = new], script' = script,
           dep[d].pc \notin {"idle", "done", "lost"},
           new.name = dep[d].name, new.deployed = dep[d].deployed,
           new.pc \notin {"idle", "version", "release"}
    PROVE  ScriptStep(d)
BY DEF ScriptStep, Treats, Relies

LEMMA ResolvingTreats ==
    ASSUME IInv, NEW d \in Deploys, Resolving(d)
    PROVE  ScriptStep(d)
<1> DEFINE rec == dep[d]
<1>1. /\ rec \in Deployment /\ RecInv(d, rec, holder)
      /\ rec.pc \in Opening /\ script' = script
    BY DEF IInv, TypeOK, Resolving, Declare, UseExisting, List, Create, InitSql, Opening, cloudVars
<1>2. dep'[d] \in Deployment
    BY ResolvingStep, DeployStepInv DEF IInv, TypeOK
<1>3. CASE dep' = [dep EXCEPT ![d] = Fail(rec)]
    BY <1>1, <1>2, <1>3, FailFields, ScriptLeft DEF Opening, IInv, TypeOK
<1>4. CASE dep' = [dep EXCEPT ![d] = Advance(rec)]
    BY <1>1, <1>2, <1>4, AdvanceFields, ScriptLeft DEF Opening, IInv, TypeOK
<1>5. CASE \E e : dep' = [dep EXCEPT ![d] = Resolve(rec, e)]
    BY <1>1, <1>2, <1>5, ResolveFields, ScriptLeft DEF Opening, IInv, TypeOK
<1>6. CASE \E e : dep' = [dep EXCEPT ![d] = [rec EXCEPT !.pc = "initsql", !.pending = e]]
    <2>1. PICK e : dep' = [dep EXCEPT ![d] = [rec EXCEPT !.pc = "initsql", !.pending = e]]
        BY <1>6
    <2>2. dep'[d] = [rec EXCEPT !.pc = "initsql", !.pending = e]
        BY <2>1 DEF IInv, TypeOK
    <2>3. /\ dep'[d].name = rec.name /\ dep'[d].deployed = rec.deployed /\ dep'[d].pc = "initsql"
        BY <1>1, <2>2 DEF Deployment
    <2>4. QED
        BY <1>1, <1>2, <2>1, <2>2, <2>3, ScriptLeft DEF Opening
<1>7. CASE dep' = [dep EXCEPT ![d] = [rec EXCEPT !.pc = "creating"]]
    <2>1. dep'[d] = [rec EXCEPT !.pc = "creating"]
        BY <1>7 DEF IInv, TypeOK
    <2>2. /\ dep'[d].name = rec.name /\ dep'[d].deployed = rec.deployed /\ dep'[d].pc = "creating"
        BY <1>1, <2>1 DEF Deployment
    <2>3. QED
        BY <1>1, <1>2, <1>7, <2>1, <2>2, ScriptLeft DEF Opening
<1>8. QED
    BY <1>3, <1>4, <1>5, <1>6, <1>7
    DEF Resolving, Declare, UseExisting, List, Create, InitSql, Bind, Set

LEMMA DeployingTreats ==
    ASSUME IInv, NEW d \in Deploys, Deploying(d)
    PROVE  ScriptStep(d)
<1> DEFINE rec == dep[d]
           n == rec.name
           new == dep'[d]
<1>1. /\ rec \in Deployment /\ rec.pc \in Uploading /\ n \in Names
      /\ script \in [Names -> Owners] /\ rec.deployed \in BOOLEAN
    BY DEF IInv, TypeOK, Deploying, Download, CheckScript, PutScript, UploadVersion,
           Release, FetchPages, CreateProject, Publish, Finish, Step, Uploading, Deployment
<1>2. new \in Deployment
    BY DeployingStep, DeployStepInv DEF IInv, TypeOK
<1>3. script' \in {script, [script EXCEPT ![n] = d]}
    BY DEF Deploying, Download, CheckScript, PutScript, UploadVersion,
           Release, FetchPages, CreateProject, Publish, Finish, Step, cloudVars
<1>4. d # None /\ [script EXCEPT ![n] = d][n] = d
    BY <1>1, NamesAssumption
<1>5. CASE Set(d, Fail(rec))
    <2>1. dep' = [dep EXCEPT ![d] = new] /\ new = Fail(rec)
        BY <1>5 DEF Set, IInv, TypeOK
    <2>2. QED
        BY <1>1, <1>2, <1>3, <2>1, FailFields DEF ScriptStep, Treats, Relies, Uploading
<1>6. CASE \E q \in Uploading : /\ Set(d, [rec EXCEPT !.pc = q])
                                /\ q \in {"version", "release"} => script[n] # None /\ script' = script
    <2>1. PICK q \in Uploading : /\ Set(d, [rec EXCEPT !.pc = q])
                                 /\ q \in {"version", "release"} => script[n] # None /\ script' = script
        BY <1>6
    <2>2. dep' = [dep EXCEPT ![d] = [rec EXCEPT !.pc = q]]
        BY <2>1 DEF Set
    <2>3. dep' = [dep EXCEPT ![d] = new] /\ new = [rec EXCEPT !.pc = q]
        BY <2>2 DEF IInv, TypeOK
    <2>4. new.pc = q /\ new.name = n /\ new.deployed = rec.deployed
        BY <1>1, <2>3 DEF Deployment
    <2>5. script' \in {script, [script EXCEPT ![n] = d]} /\ (Relies(new) => Relies(rec) \/ script'[n] # None)
        BY <1>3, <2>1, <2>4 DEF Relies
    <2>6. Treats(d, rec, new)
        BY <2>5 DEF Treats
    <2>7. QED
        BY <1>1, <1>2, <2>3, <2>4, <2>6 DEF ScriptStep, Uploading
<1>7. CASE /\ Set(d, Deployed(rec))
           /\ rec.pc = "release" \/ script' = [script EXCEPT ![n] = d]
    <2>1. dep' = [dep EXCEPT ![d] = new] /\ new = Deployed(rec)
        BY <1>7 DEF Set, IInv, TypeOK
    <2>2. new.pc \in {"fetch", "finish"} /\ new.name = n
        BY <1>1, <2>1 DEF Deployed, Deployment
    <2>3. Relies(rec) \/ script'[n] # None
        BY <1>4, <1>7 DEF Relies
    <2>4. QED
        BY <1>1, <1>2, <1>3, <2>1, <2>2, <2>3 DEF ScriptStep, Treats, Uploading
<1>8. CASE Set(d, [rec EXCEPT !.pc = "done", !.result = "success"])
    <2>1. dep' = [dep EXCEPT ![d] = new] /\ new = [rec EXCEPT !.pc = "done", !.result = "success"]
        BY <1>8 DEF Set, IInv, TypeOK
    <2>2. new.pc = "done" /\ new.name = n /\ new.deployed = rec.deployed
        BY <1>1, <2>1 DEF Deployment
    <2>3. QED
        BY <1>1, <1>2, <1>3, <2>1, <2>2 DEF ScriptStep, Treats, Relies, Uploading
<1>9. QED
    BY <1>5, <1>6, <1>7, <1>8
    DEF Deploying, Download, CheckScript, PutScript, UploadVersion, Release,
        FetchPages, CreateProject, Publish, Finish, Step, Uploading, cloudVars

LEMMA RollingBackTreats ==
    ASSUME IInv, NEW d \in Deploys, RollingBack(d)
    PROVE  ScriptStep(d)
<1> DEFINE rec == dep[d]
           new == dep'[d]
<1>1. rec \in Deployment /\ rec.pc = "undo" /\ rec.deployed \in BOOLEAN
    BY DEF IInv, TypeOK, RollingBack, Undo, Close, Deployment
<1>2. new \in Deployment
    BY UndoStep, CloseStep, DeployStepInv DEF RollingBack, IInv, TypeOK
<1>3. ASSUME NEW failed \in BOOLEAN, Undo(d, failed) PROVE ScriptStep(d)
    <2>1. /\ dep' = [dep EXCEPT ![d] = new] /\ new = Undone(rec, failed)
          /\ script' = script
        BY <1>3 DEF Undo, Set, IInv, TypeOK
    <2>2. new.pc = "undo" /\ new.name = rec.name /\ new.deployed = rec.deployed
        BY <1>1, <2>1 DEF Undone, Deployment
    <2>3. QED
        BY <1>1, <1>2, <2>1, <2>2, ScriptLeft
<1>4. ASSUME Close(d) PROVE ScriptStep(d)
    <2> DEFINE q == IF accountRow THEN "failed" ELSE "error"
    <2>1. /\ dep' = [dep EXCEPT ![d] = new] /\ new = [rec EXCEPT !.pc = "done", !.result = q]
        BY <1>4 DEF Close, Set, IInv, TypeOK
    <2>2. \/ script' = script
          \/ ~rec.deployed /\ script' = [script EXCEPT ![rec.name] = None]
        BY <1>4 DEF Close
    <2>3. q \in {"failed", "error"}
        OBVIOUS
    <2> HIDE DEF q
    <2>4. new.pc = "done" /\ new.name = rec.name /\ new.deployed = rec.deployed /\ new.result = q
        BY <1>1, <2>1 DEF Deployment
    <2>5. QED
        BY <1>1, <1>2, <2>1, <2>2, <2>3, <2>4 DEF ScriptStep, Treats, Relies, Unsuccessful
<1>5. QED
    BY <1>3, <1>4 DEF RollingBack

LEMMA HandleTreats ==
    ASSUME IInv, NEW d \in Deploys, Handle(d)
    PROVE  ScriptStep(d)
BY ResolvingTreats, DeployingTreats, RollingBackTreats DEF Handle

\* A step of one deployment leaves every deployment that relies on its script excused.
LEMMA ScriptStepInv ==
    ASSUME IInv, ScriptInv, NEW d \in Deploys, ScriptStep(d)
    PROVE  ScriptInv'
<1>1. PICK new \in Deployment :
         /\ dep' = [dep EXCEPT ![d] = new]
         /\ dep[d].pc \notin {"idle", "done", "lost"}
         /\ new.name = dep[d].name /\ new.pc # "idle"
         /\ Treats(d, dep[d], new)
    BY DEF ScriptStep
<1>2. /\ dep'[d] = new /\ \A o \in Deploys \ {d} : dep'[o] = dep[o]
      /\ script \in [Names -> Owners] /\ \A o \in Deploys : dep[o].name \in Names
      /\ d # None /\ ~Unsuccessful(dep[d])
    BY <1>1, NamesAssumption DEF IInv, TypeOK, Deployment, Unsuccessful
<1>3. \A o \in Deploys : dep'[o].name = dep[o].name
    BY <1>1, <1>2
<1>4. ASSUME NEW o \in Deploys, dep[o].deployed \/ Relies(dep[o]), o # d \/ Relies(dep[d]), Relies(dep'[o])
      PROVE  Excused(o)'
    <2>1. CASE script[dep[o].name] # None
        <3>1. CASE script' \in {script, [script EXCEPT ![dep[d].name] = d]}
            BY <1>2, <1>3, <2>1, <3>1 DEF Excused
        <3>2. CASE /\ ~dep[d].deployed /\ ~new.deployed /\ Unsuccessful(new)
                   /\ script' = [script EXCEPT ![dep[d].name] = None]
            <4>1. CASE o = d
                BY <1>2, <1>4, <3>2, <4>1 DEF Relies, Unsuccessful
            <4>2. CASE o # d /\ dep[o].name = dep[d].name
                BY <1>2, <1>3, <3>2, <4>2 DEF Excused
            <4>3. CASE dep[o].name # dep[d].name
                BY <1>2, <1>3, <2>1, <3>2, <4>3 DEF Excused
            <4>4. QED
                BY <4>1, <4>2, <4>3
        <3>3. QED
            BY <1>1, <3>1, <3>2 DEF Treats
    <2>2. CASE \E w \in Deploys \ {o} : /\ dep[w].name = dep[o].name
                                        /\ Unsuccessful(dep[w]) /\ ~dep[w].deployed
        <3>1. PICK w \in Deploys \ {o} : /\ dep[w].name = dep[o].name
                                         /\ Unsuccessful(dep[w]) /\ ~dep[w].deployed
            BY <2>2
        <3>2. w # d
            BY <1>2, <3>1
        <3>3. QED
            BY <1>2, <1>3, <3>1, <3>2 DEF Excused
    <2>3. QED
        BY <1>4, <2>1, <2>2 DEF ScriptInv, Excused, Relies
<1>5. ASSUME Relies(new), ~Relies(dep[d]) PROVE Excused(d)'
    <2>1. script'[dep[d].name] # None
        BY <1>1, <1>5 DEF Treats, Relies, Unsuccessful
    <2>2. QED
        BY <1>3, <2>1 DEF Excused
<1>6. ASSUME NEW o \in Deploys, Relies(dep'[o]) PROVE Excused(o)'
    <2>1. CASE o = d
        BY <1>2, <1>4, <1>5, <1>6, <2>1
    <2>2. CASE o # d
        BY <1>2, <1>4, <1>6, <2>2
    <2>3. QED
        BY <2>1, <2>2
<1>7. ASSUME NEW o \in Deploys, dep'[o].pc = "idle" PROVE ~dep'[o].deployed
    BY <1>1, <1>2, <1>7 DEF ScriptInv
<1>8. QED
    BY <1>6, <1>7 DEF ScriptInv

\* What else may happen to a deployment leaves the scripts alone.
LEMMA BesideScripts ==
    ASSUME ScriptInv, script' = script,
           \A o \in Deploys :
              /\ dep'[o].deployed => dep[o].deployed
              /\ Unsuccessful(dep[o]) => dep'[o] = dep[o]
              /\ Relies(dep'[o]) /\ dep[o].pc # "idle" => Relies(dep[o]) /\ dep'[o].name = dep[o].name
              /\ dep[o].pc = "idle" => dep'[o].pc \notin {"version", "release"}
              /\ dep'[o].pc = "idle" => dep[o].pc = "idle"
    PROVE  ScriptInv'
<1>1. ASSUME NEW o \in Deploys, Relies(dep'[o]) PROVE Excused(o)'
    <2>1. dep[o].pc # "idle"
        BY <1>1 DEF ScriptInv, Relies
    <2>2. Relies(dep[o]) /\ dep'[o].name = dep[o].name
        BY <1>1, <2>1
    <2>3. Excused(o)
        BY <2>2 DEF ScriptInv
    <2>4. QED
        BY <2>2, <2>3 DEF Excused
<1>2. QED
    BY <1>1 DEF ScriptInv

LEMMA StartRec ==
    ASSUME IInv, NEW d \in Deploys, NEW tpl \in Templates, NEW n \in Names, Start(d, tpl, n)
    PROVE  /\ dep[d].pc = "idle" /\ dep' = [dep EXCEPT ![d] = dep'[d]]
           /\ dep'[d].pc \in RunningPhases \ {"initsql", "creating", "version", "release"}
           /\ dep'[d].deployed = dep[d].deployed /\ dep'[d].result = dep[d].result
           /\ dep'[d].resolved = dep[d].resolved
           /\ UNCHANGED cloudVars
<1> DEFINE q == IF tpl.bindings = << >> THEN AfterBindings(tpl) ELSE "binding"
<1>1. dep[d] \in Deployment /\ dep[d].pc = "idle" /\ UNCHANGED cloudVars
    BY DEF Start, IInv, TypeOK
<1>2. q \in RunningPhases \ {"initsql", "creating", "version", "release"}
    BY DEF AfterBindings, RunningPhases, Opening, Uploading
<1>3. dep' = [dep EXCEPT ![d] = [dep[d] EXCEPT !.tpl = tpl, !.name = n, !.pc = q]]
    BY DEF Start, Set
<1> HIDE DEF q
<1>4. /\ dep' = [dep EXCEPT ![d] = dep'[d]]
      /\ dep'[d] = [dep[d] EXCEPT !.tpl = tpl, !.name = n, !.pc = q]
    BY <1>3 DEF IInv, TypeOK
<1>5. /\ dep'[d].pc = q /\ dep'[d].deployed = dep[d].deployed
      /\ dep'[d].result = dep[d].result /\ dep'[d].resolved = dep[d].resolved
    BY <1>1, <1>4 DEF Deployment
<1>6. QED
    BY <1>1, <1>2, <1>4, <1>5

LEMMA RefuseRec ==
    ASSUME IInv, NEW d \in Deploys, Refuse(d)
    PROVE  /\ dep[d].pc = "idle" /\ dep' = [dep EXCEPT ![d] = dep'[d]]
           /\ dep'[d].pc = "done" /\ dep'[d].result = "refused"
           /\ dep'[d].deployed = dep[d].deployed /\ dep'[d].resolved = dep[d].resolved
           /\ UNCHANGED cloudVars
<1>1. dep[d] \in Deployment /\ dep[d].pc = "idle" /\ UNCHANGED cloudVars
    BY DEF Refuse, IInv, TypeOK
<1>2. /\ dep' = [dep EXCEPT ![d] = dep'[d]]
      /\ dep'[d] = [dep[d] EXCEPT !.pc = "done", !.result = "refused"]
    BY DEF Refuse, Set, IInv, TypeOK
<1>3. /\ dep'[d].pc = "done" /\ dep'[d].result = "refused"
      /\ dep'[d].deployed = dep[d].deployed /\ dep'[d].resolved = dep[d].resolved
    BY <1>1, <1>2 DEF Deployment
<1>4. QED
    BY <1>1, <1>2, <1>3

LEMMA CrashRec ==
    ASSUME IInv, Crash, NEW d \in Deploys
    PROVE  /\ UNCHANGED cloudVars
           /\ \/ dep'[d] = dep[d]
              \/ /\ dep[d].pc \notin {"idle", "done", "lost"} /\ dep'[d].pc = "lost"
                 /\ ~dep'[d].deployed /\ dep'[d].result = "none"
<1>1. dep[d] \in Deployment /\ UNCHANGED cloudVars
    BY DEF Crash, IInv, TypeOK
<1>2. dep'[d] = IF Active(dep[d]) THEN [NewDeployment EXCEPT !.pc = "lost"] ELSE dep[d]
    BY DEF Crash
<1>3. QED
    BY <1>1, <1>2 DEF Active, NewDeployment

LEMMA NextScripts ==
    ASSUME IInv, ScriptInv, [Next]_vars
    PROVE  ScriptInv'
<1>1. CASE UNCHANGED vars \/ DeleteAccount
    BY <1>1 DEF vars, DeleteAccount, cloudVars, ScriptInv, Excused
<1>2. CASE Crash
    <2>1. script' = script
        BY <1>2 DEF Crash, cloudVars
    <2>2. QED
        BY <1>2, <2>1, CrashRec, BesideScripts DEF Relies, Unsuccessful
<1>3. ASSUME NEW d \in Deploys, Handle(d) PROVE ScriptInv'
    BY <1>3, HandleTreats, ScriptStepInv
<1>4. ASSUME NEW d \in Deploys,
             Refuse(d) \/ \E tpl \in Templates, n \in Names : Start(d, tpl, n)
      PROVE  ScriptInv'
    <2>1. /\ dep[d].pc = "idle" /\ dep' = [dep EXCEPT ![d] = dep'[d]]
          /\ dep'[d].pc \notin {"idle", "version", "release"}
          /\ dep'[d].deployed = dep[d].deployed
          /\ script' = script
        BY <1>4, RefuseRec, StartRec DEF cloudVars, RunningPhases, Opening, Uploading
    <2>2. ASSUME NEW o \in Deploys
          PROVE  /\ dep'[o].deployed = dep[o].deployed
                 /\ Unsuccessful(dep[o]) => dep'[o] = dep[o]
                 /\ Relies(dep'[o]) /\ dep[o].pc # "idle" => Relies(dep[o]) /\ dep'[o].name = dep[o].name
                 /\ dep[o].pc = "idle" => dep'[o].pc \notin {"version", "release"}
                 /\ dep'[o].pc = "idle" => dep[o].pc = "idle"
        <3>1. CASE o = d
            BY <2>1, <3>1 DEF Unsuccessful
        <3>2. CASE o # d
            BY <2>1, <3>2 DEF IInv, TypeOK
        <3>3. QED
            BY <3>1, <3>2
    <2>3. QED
        BY <2>1, <2>2, BesideScripts
<1>5. QED
    BY <1>1, <1>2, <1>3, <1>4 DEF Next

\* In services/deploy/index.ts the rollback deletes the script by name, but not of a deployment that
\* deployed it: a deployed Worker outlives the failure of the Pages part, and only another deployment
\* to the same name that failed before it deployed its own can have removed it.
THEOREM DeployedWorkerSafe == Spec => []DeployedWorkerKept
<1>1. Init => ScriptInv
    <2>1. ~NewDeployment.deployed /\ NewDeployment.pc = "idle"
        BY DEF NewDeployment
    <2>2. QED
        BY <2>1 DEF Init, ScriptInv, Relies
<1>2. IInv /\ ScriptInv /\ [Next]_vars => ScriptInv'
    BY NextScripts
<1>3. ScriptInv => DeployedWorkerKept
    BY DEF ScriptInv, Relies, Excused, DeployedWorkerKept
<1>4. QED
    BY <1>1, <1>2, <1>3, Invariance, PTL DEF Spec

-----------------------------------------------------------------------------
(***************************************************************************)
(* The steps of a deployment, seen from its resources                      *)
(***************************************************************************)

Calm == RunningPhases \ {"initsql"}

\* It throws, perhaps after the resource was created.
Throws(d, rec, new) ==
    /\ rec.pc \in RunningPhases
    /\ new = Fail(rec)
    /\ \/ holder' = holder
       \/ /\ rec.pc = "creating" /\ holder[Wanted(rec)] = None
          /\ holder' = [holder EXCEPT ![Wanted(rec)] = d]

\* It goes on with the entries it has.
GoesOn(rec, new) ==
    /\ rec.pc \in Calm /\ new.pc \in Calm
    /\ new.resolved = rec.resolved /\ new.result = rec.result
    /\ holder' = holder

\* It gets hold of an entry, found or created, ...
Takes(d, rec, e) ==
    \/ rec.pc = "initsql" /\ e = rec.pending /\ holder' = holder
    \/ /\ rec.pc = "binding" /\ ~e.created /\ holder[e.title] = e.by
       /\ holder' = holder
    \/ /\ rec.pc = "creating" /\ e = Made(Wanted(rec), d)
       /\ holder[e.title] = None /\ holder' = [holder EXCEPT ![e.title] = d]
\* ... and appends it or waits for its init script.
Gains(d, rec, new) ==
    \E e \in Entry :
        /\ Takes(d, rec, e)
        /\ \/ new.pc \in Calm /\ new.resolved = Append(rec.resolved, e)
           \/ /\ rec.pc \in {"binding", "creating"} /\ new.pc = "initsql"
              /\ new.pending = e /\ new.resolved = rec.resolved
        /\ new.result = rec.result

Succeeds(rec, new) ==
    /\ rec.pc = "finish"
    /\ new.pc = "done" /\ new.result = "success" /\ new.resolved = rec.resolved
    /\ holder' = holder

Undoes(rec, new) ==
    LET e == rec.resolved[rec.undoAt]
    IN  /\ rec.pc = "undo" /\ rec.undoAt > 0
        /\ new.pc = "undo" /\ new.undoAt = rec.undoAt - 1
        /\ new.resolved = rec.resolved /\ new.result = rec.result
        /\ new.tpl = rec.tpl /\ new.next = rec.next
        /\ rec.errors \subseteq new.errors
        /\ \/ e.created /\ holder' = [holder EXCEPT ![e.title] = None]
           \/ holder' = holder /\ (e.created => e.title \in new.errors)

Closes(rec, new) ==
    /\ rec.pc = "undo" /\ rec.undoAt = 0
    /\ new.pc = "done" /\ new.result \in {"failed", "error"}
    /\ new.tpl = rec.tpl /\ new.next = rec.next /\ new.errors = rec.errors
    /\ holder' = holder

ResourceStep(d, rec, new) ==
    \/ Throws(d, rec, new) \/ GoesOn(rec, new) \/ Gains(d, rec, new)
    \/ Succeeds(rec, new) \/ Undoes(rec, new) \/ Closes(rec, new)

LEMMA BindGains ==
    ASSUME NEW d \in Deploys, NEW rec \in Deployment, NEW new, NEW e \in Entry, Takes(d, rec, e),
           rec.pc \in {"binding", "creating"},
           NEW init, new = IF init /\ e.title \in Databases
                           THEN [rec EXCEPT !.pc = "initsql", !.pending = e] ELSE Resolve(rec, e)
    PROVE  Gains(d, rec, new)
<1>1. CASE init /\ e.title \in Databases
    <2>1. new = [rec EXCEPT !.pc = "initsql", !.pending = e]
        BY <1>1
    <2>2. /\ new.pc = "initsql" /\ new.pending = e /\ new.resolved = rec.resolved
          /\ new.result = rec.result
        BY <2>1 DEF Deployment
    <2>3. QED
        BY <2>2 DEF Gains
<1>2. CASE ~(init /\ e.title \in Databases)
    BY <1>2, ResolveFields DEF Gains, Calm, RunningPhases, Opening, Uploading
<1>3. QED
    BY <1>1, <1>2

LEMMA BindIs ==
    ASSUME IInv, NEW d \in Deploys, NEW e, NEW init, Bind(d, e, init)
    PROVE  dep'[d] = IF init /\ e.title \in Databases
                     THEN [dep[d] EXCEPT !.pc = "initsql", !.pending = e] ELSE Resolve(dep[d], e)
BY DEF Bind, Set, IInv, TypeOK

LEMMA ResolvingResources ==
    ASSUME IInv, NEW d \in Deploys, Resolving(d)
    PROVE  ResourceStep(d, dep[d], dep'[d])
<1> DEFINE rec == dep[d]
           new == dep'[d]
           t == Wanted(rec)
<1>1. /\ rec \in Deployment /\ rec.pc \in Opening /\ RecInv(d, rec, holder)
      /\ holder \in [Titles -> Owners]
    BY DEF IInv, TypeOK, Resolving, Declare, UseExisting, List, Create, InitSql, Opening
<1>2. ASSUME Set(d, Fail(rec)), holder' = holder PROVE Throws(d, rec, new)
    BY <1>1, <1>2 DEF Set, Throws, IInv, TypeOK, RunningPhases
<1>3. ASSUME NEW u \in Titles PROVE Found(u, d) \in Entry
    BY <1>1, <1>3 DEF Found, Entry
<1>4. ASSUME NEW u \in Titles, NEW init, Bind(d, Found(u, d), init),
             rec.pc = "binding", holder' = holder
      PROVE  Gains(d, rec, new)
    <2>1. Takes(d, rec, Found(u, d))
        BY <1>4 DEF Takes, Found
    <2>2. QED
        BY <1>1, <1>3, <1>4, <2>1, BindIs, BindGains
<1>5. ASSUME NEW filled \in BOOLEAN, Declare(d, filled) PROVE ResourceStep(d, rec, new)
    <2>1. holder' = holder /\ rec.pc = "binding"
        BY <1>5 DEF Declare, cloudVars
    <2>2. CASE Set(d, Advance(rec))
        <3>1. new = Advance(rec)
            BY <2>2 DEF Set, IInv, TypeOK
        <3>2. QED
            BY <1>1, <2>1, <3>1, AdvanceFields
            DEF ResourceStep, GoesOn, Calm, RunningPhases, Opening, Uploading
    <2>3. QED
        BY <1>2, <1>5, <2>1, <2>2 DEF Declare, ResourceStep
<1>6. ASSUME NEW u \in Titles, NEW init \in BOOLEAN, UseExisting(d, u, init)
      PROVE  ResourceStep(d, rec, new)
    BY <1>4, <1>6 DEF UseExisting, cloudVars, ResourceStep
<1>7. ASSUME NEW ok \in BOOLEAN, NEW init \in BOOLEAN, List(d, ok, init)
      PROVE  ResourceStep(d, rec, new)
    <2>1. holder' = holder /\ rec.pc = "binding" /\ t \in Titles
        BY <1>7 DEF List, cloudVars
    <2>2. CASE Set(d, [rec EXCEPT !.pc = "creating"])
        <3>1. new = [rec EXCEPT !.pc = "creating"]
            BY <2>2 DEF Set, IInv, TypeOK
        <3>2. new.pc = "creating" /\ new.resolved = rec.resolved /\ new.result = rec.result
            BY <1>1, <3>1 DEF Deployment
        <3>3. QED
            BY <2>1, <3>2 DEF ResourceStep, GoesOn, Calm, RunningPhases, Opening
    <2>3. QED
        BY <1>2, <1>4, <1>7, <2>1, <2>2 DEF List, ResourceStep
<1>8. ASSUME NEW init \in BOOLEAN, Create(d, init) PROVE ResourceStep(d, rec, new)
    <2>1. rec.pc = "creating" /\ t \in Titles
        BY <1>1, <1>8 DEF Create, RecInv, Bound
    <2>2. CASE holder[t] = None /\ holder' = [holder EXCEPT ![t] = d] /\ Bind(d, Made(t, d), init)
        <3>1. Made(t, d) \in Entry /\ Takes(d, rec, Made(t, d))
            BY <2>1, <2>2 DEF Made, Entry, Takes, Owners
        <3>2. QED
            BY <1>1, <2>1, <2>2, <3>1, BindIs, BindGains DEF ResourceStep
    <2>3. CASE holder[t] = None /\ holder' = [holder EXCEPT ![t] = d] /\ Set(d, Fail(rec))
        BY <2>1, <2>3 DEF Set, ResourceStep, Throws, IInv, TypeOK, RunningPhases, Opening
    <2>4. QED
        BY <1>2, <1>8, <2>2, <2>3 DEF Create, ResourceStep
<1>9. ASSUME NEW ok \in BOOLEAN, InitSql(d, ok) PROVE ResourceStep(d, rec, new)
    <2>1. holder' = holder /\ rec.pc = "initsql" /\ rec.pending \in Entry
        BY <1>1, <1>9 DEF InitSql, cloudVars, RecInv, Sound
    <2>2. CASE Set(d, Resolve(rec, rec.pending))
        <3>1. new = Resolve(rec, rec.pending)
            BY <2>2 DEF Set, IInv, TypeOK
        <3>2. QED
            BY <1>1, <2>1, <3>1, ResolveFields
            DEF ResourceStep, Gains, Takes, Calm, RunningPhases, Opening, Uploading
    <2>3. QED
        BY <1>2, <1>9, <2>1, <2>2 DEF InitSql, ResourceStep
<1>10. QED
    BY <1>5, <1>6, <1>7, <1>8, <1>9 DEF Resolving

LEMMA DeployingResources ==
    ASSUME IInv, NEW d \in Deploys, Deploying(d)
    PROVE  ResourceStep(d, dep[d], dep'[d])
<1> DEFINE rec == dep[d]
           new == dep'[d]
<1>1. rec \in Deployment /\ rec.pc \in Uploading /\ holder' = holder
    BY DEF IInv, TypeOK, Deploying, Download, CheckScript, PutScript, UploadVersion,
           Release, FetchPages, CreateProject, Publish, Finish, Step, Uploading, cloudVars
<1>2. CASE Set(d, Fail(rec))
    BY <1>1, <1>2 DEF Set, ResourceStep, Throws, IInv, TypeOK, RunningPhases
<1>3. CASE \E q \in Uploading : Set(d, [rec EXCEPT !.pc = q])
    <2>1. PICK q \in Uploading : Set(d, [rec EXCEPT !.pc = q])
        BY <1>3
    <2>2. new = [rec EXCEPT !.pc = q]
        BY <2>1 DEF Set, IInv, TypeOK
    <2>3. new.pc = q /\ new.resolved = rec.resolved /\ new.result = rec.result
        BY <1>1, <2>2 DEF Deployment
    <2>4. QED
        BY <1>1, <2>3 DEF ResourceStep, GoesOn, Calm, RunningPhases, Uploading
<1>4. CASE Set(d, Deployed(rec))
    <2>1. new = Deployed(rec)
        BY <1>4 DEF Set, IInv, TypeOK
    <2>2. /\ new.pc \in {"fetch", "finish"}
          /\ new.resolved = rec.resolved /\ new.result = rec.result
        BY <1>1, <2>1 DEF Deployed, Deployment
    <2>3. QED
        BY <1>1, <2>2 DEF ResourceStep, GoesOn, Calm, RunningPhases, Uploading
<1>5. CASE Set(d, [rec EXCEPT !.pc = "done", !.result = "success"]) /\ rec.pc = "finish"
    <2>1. new = [rec EXCEPT !.pc = "done", !.result = "success"]
        BY <1>5 DEF Set, IInv, TypeOK
    <2>2. new.pc = "done" /\ new.result = "success" /\ new.resolved = rec.resolved
        BY <1>1, <2>1 DEF Deployment
    <2>3. QED
        BY <1>1, <1>5, <2>2 DEF ResourceStep, Succeeds
<1>6. QED
    BY <1>2, <1>3, <1>4, <1>5
    DEF Deploying, Download, CheckScript, PutScript, UploadVersion, Release,
        FetchPages, CreateProject, Publish, Finish, Step, Uploading

LEMMA RollingBackResources ==
    ASSUME IInv, NEW d \in Deploys, RollingBack(d)
    PROVE  ResourceStep(d, dep[d], dep'[d])
<1> DEFINE rec == dep[d]
           new == dep'[d]
           e == rec.resolved[rec.undoAt]
<1>1. rec \in Deployment /\ rec.pc = "undo"
    BY DEF IInv, TypeOK, RollingBack, Undo, Close
<1>2. ASSUME NEW failed \in BOOLEAN, Undo(d, failed) PROVE Undoes(rec, new)
    <2>1. new = Undone(rec, failed) /\ rec.undoAt > 0
        BY <1>2 DEF Undo, Set, IInv, TypeOK
    <2>2. /\ new.pc = "undo" /\ new.undoAt = rec.undoAt - 1
          /\ new.resolved = rec.resolved /\ new.result = rec.result
          /\ new.tpl = rec.tpl /\ new.next = rec.next
          /\ new.errors = IF failed THEN rec.errors \cup {e.title} ELSE rec.errors
        BY <1>1, <2>1 DEF Undone, Deployment
    <2>3. \/ e.created /\ holder' = [holder EXCEPT ![e.title] = None]
          \/ holder' = holder /\ (e.created => failed)
        BY <1>2 DEF Undo
    <2>4. QED
        BY <1>1, <2>1, <2>2, <2>3 DEF Undoes
<1>3. ASSUME Close(d) PROVE Closes(rec, new)
    <2> DEFINE q == IF accountRow THEN "failed" ELSE "error"
    <2>1. /\ new = [rec EXCEPT !.pc = "done", !.result = q]
          /\ rec.undoAt = 0 /\ holder' = holder
        BY <1>3 DEF Close, Set, IInv, TypeOK
    <2>2. q \in {"failed", "error"}
        OBVIOUS
    <2> HIDE DEF q
    <2>3. /\ new.pc = "done" /\ new.result = q
          /\ new.tpl = rec.tpl /\ new.next = rec.next /\ new.errors = rec.errors
        BY <1>1, <2>1 DEF Deployment
    <2>4. QED
        BY <1>1, <2>1, <2>2, <2>3 DEF Closes
<1>4. QED
    BY <1>2, <1>3 DEF RollingBack, ResourceStep

LEMMA HandleResources ==
    ASSUME IInv, NEW d \in Deploys, Handle(d)
    PROVE  /\ ResourceStep(d, dep[d], dep'[d])
           /\ \A o \in Deploys \ {d} : dep'[o] = dep[o]
<1>1. ResourceStep(d, dep[d], dep'[d])
    BY ResolvingResources, DeployingResources, RollingBackResources DEF Handle
<1>2. PICK new \in Deployment : dep' = [dep EXCEPT ![d] = new]
    BY HandleTreats DEF ScriptStep
<1>3. QED
    BY <1>1, <1>2 DEF IInv, TypeOK

-----------------------------------------------------------------------------
(***************************************************************************)
(* What becomes of the resources                                           *)
(***************************************************************************)

Doomed(rec) == RollingBackOrOver(rec) /\ rec.result # "success"

\* Deployment d can count on entry e, or another that created it gave it up.
Has(d, e) == \/ holder[e.title] = e.by
             \/ e.by = None
             \/ e.by \in Deploys \ {d} /\ Doomed(dep[e.by])

\* Where the deployment of record rec knows a resource from that it holds.
Sourced(rec, t) ==
    \/ /\ rec.pc \in RunningPhases \cup {"undo"}
       /\ \E i \in DOMAIN rec.resolved : /\ rec.resolved[i].created /\ rec.resolved[i].title = t
                                         /\ rec.pc = "undo" => i <= rec.undoAt
    \/ rec.pc = "initsql" /\ rec.pending.created /\ rec.pending.title = t
    \/ /\ rec.pc \in {"undo", "done"}
       /\ t \in rec.errors \/ (rec.next \in DOMAIN rec.tpl.bindings /\ t = Wanted(rec))
    \/ rec.pc = "lost" \/ rec.result = "success"

Verdict(rec) == rec.pc # "done" => rec.result = "none"
Possesses(d) ==
    /\ dep[d].pc \in RunningPhases \/ dep[d].result = "success" =>
          \A i \in DOMAIN dep[d].resolved : Has(d, dep[d].resolved[i])
    /\ dep[d].pc = "initsql" => Has(d, dep[d].pending)
AccountsFor(d) == \A t \in Titles : holder[t] = d => Sourced(dep[d], t)

OutcomeInv == \A d \in Deploys : Verdict(dep[d]) /\ Possesses(d) /\ AccountsFor(d)

\* The changes of the account in a step of d: it takes a free title, or gives up one it holds.
LEMMA HolderChange ==
    ASSUME IInv, NEW d \in Deploys, ResourceStep(d, dep[d], dep'[d])
    PROVE  \/ holder' = holder
           \/ /\ ~Undoes(dep[d], dep'[d])
              /\ \E t \in Titles : holder[t] = None /\ holder' = [holder EXCEPT ![t] = d]
           \/ /\ Undoes(dep[d], dep'[d])
              /\ \E t \in Titles : holder[t] = d /\ holder' = [holder EXCEPT ![t] = None]
<1> DEFINE rec == dep[d]
           new == dep'[d]
           e == rec.resolved[rec.undoAt]
<1>1. rec \in Deployment /\ RecInv(d, rec, holder)
    BY DEF IInv, TypeOK
<1>2. CASE Throws(d, rec, new)
    BY <1>1, <1>2 DEF Throws, Undoes, RecInv, Bound, RunningPhases, Opening, Uploading
<1>3. CASE Gains(d, rec, new)
    BY <1>3 DEF Gains, Takes, Undoes, Entry
<1>4. CASE Undoes(rec, new)
    <2>1. rec.resolved \in Seq(Entry) /\ rec.undoAt \in Nat /\ rec.undoAt <= Len(rec.resolved)
        BY <1>1, <1>4 DEF RecInv, Undoes, Deployment
    <2>2. rec.undoAt \in DOMAIN rec.resolved /\ e \in Entry
        BY <1>4, <2>1 DEF Undoes
    <2>3. e.title \in Titles
        BY <2>2 DEF Entry
    <2>4. e.created => holder[e.title] = d
        BY <1>1, <1>4, <2>1, <2>2 DEF RecInv, Held, Standing, Undoes
    <2>5. QED
        BY <1>4, <2>3, <2>4 DEF Undoes
<1>5. QED
    BY <1>2, <1>3, <1>4 DEF ResourceStep, GoesOn, Succeeds, Closes

\* A deployment that is to fail does not succeed after all.
LEMMA DoomedStays ==
    ASSUME OutcomeInv, NEW d \in Deploys, ResourceStep(d, dep[d], dep'[d]), Doomed(dep[d])
    PROVE  Doomed(dep'[d])
BY DEF ResourceStep, Throws, GoesOn, Gains, Takes, Succeeds, Undoes, Closes, Calm, Doomed,
       RollingBackOrOver, RunningPhases, Opening, Uploading

\* What a deployment counts on it can count on after a step, except its own while it rolls back.
LEMMA HasStays ==
    ASSUME IInv, OutcomeInv, NEW d \in Deploys, ResourceStep(d, dep[d], dep'[d]),
           \A o \in Deploys \ {d} : dep'[o] = dep[o],
           NEW o \in Deploys, o # d \/ ~Undoes(dep[d], dep'[d]),
           NEW e \in Entry, Has(o, e)
    PROVE  Has(o, e)'
<1> SUFFICES ASSUME e.by # None PROVE Has(o, e)'
    BY DEF Has
<1>1. CASE holder[e.title] = e.by
    <2>1. e.title \in Titles /\ e.by \in Owners /\ e.by # None /\ holder \in [Titles -> Owners]
        BY DEF Entry, IInv, TypeOK
    <2>2. d # None
        BY NamesAssumption
    <2>3. CASE holder'[e.title] = e.by
        BY <2>3 DEF Has
    <2>4. CASE holder'[e.title] # e.by
        <3>1. Undoes(dep[d], dep'[d]) /\ holder[e.title] = d
            BY <1>1, <2>1, <2>2, <2>4, HolderChange
        <3>2. dep'[d].pc = "undo" /\ dep'[d].result = "none"
            BY <3>1 DEF Undoes, OutcomeInv, Verdict
        <3>3. QED
            BY <1>1, <3>1, <3>2 DEF Has, Doomed, RollingBackOrOver
    <2>5. QED
        BY <2>3, <2>4
<1>2. CASE e.by \in Deploys \ {o} /\ Doomed(dep[e.by])
    BY <1>2, DoomedStays DEF Has
<1>3. QED
    BY <1>1, <1>2 DEF Has

LEMMA EntriesTyped ==
    ASSUME IInv, NEW d \in Deploys
    PROVE  /\ dep[d].resolved \in Seq(Entry)
           /\ \A i \in DOMAIN dep[d].resolved : dep[d].resolved[i] \in Entry
           /\ dep[d].pc = "initsql" => dep[d].pending \in Entry
BY DEF IInv, TypeOK, RecInv, Sound, Deployment

LEMMA PossessesOther ==
    ASSUME IInv, OutcomeInv, NEW d \in Deploys, ResourceStep(d, dep[d], dep'[d]),
           \A o \in Deploys \ {d} : dep'[o] = dep[o], NEW o \in Deploys \ {d}
    PROVE  Possesses(o)'
<1>1. ASSUME NEW e \in Entry, Has(o, e) PROVE Has(o, e)'
    BY <1>1, HasStays
<1>2. QED
    BY <1>1, EntriesTyped DEF Possesses, OutcomeInv

LEMMA PossessesOwn ==
    ASSUME IInv, OutcomeInv, NEW d \in Deploys, ResourceStep(d, dep[d], dep'[d]),
           \A o \in Deploys \ {d} : dep'[o] = dep[o]
    PROVE  Possesses(d)'
<1> DEFINE rec == dep[d]
           new == dep'[d]
           HasNext(e) == \/ holder'[e.title] = e.by
                         \/ e.by = None
                         \/ e.by \in Deploys \ {d} /\ Doomed(dep'[e.by])
<1>1. ASSUME NEW e \in Entry, Has(d, e), ~Undoes(rec, new) PROVE HasNext(e)
    BY <1>1, HasStays DEF Has
<1>2. /\ rec.resolved \in Seq(Entry)
      /\ \A i \in DOMAIN rec.resolved : rec.resolved[i] \in Entry
      /\ rec.pc = "initsql" => rec.pending \in Entry
      /\ Possesses(d) /\ Verdict(rec)
    BY EntriesTyped DEF OutcomeInv
<1>3. CASE GoesOn(rec, new) \/ Succeeds(rec, new)
    <2>1. /\ rec.pc \in RunningPhases /\ new.pc # "initsql" /\ new.resolved = rec.resolved
          /\ ~Undoes(rec, new)
        BY <1>3 DEF GoesOn, Succeeds, Undoes, Calm, RunningPhases, Opening, Uploading
    <2>2. QED
        BY <1>1, <1>2, <2>1 DEF Possesses, Has
<1>4. CASE Throws(d, rec, new) \/ Undoes(rec, new) \/ Closes(rec, new)
    <2>1. rec.pc # "done" /\ rec.result = "none"
        BY <1>2, <1>4 DEF Throws, Undoes, Closes, RunningPhases, Opening, Uploading, Verdict
    <2>2. rec \in Deployment
        BY DEF IInv, TypeOK
    <2>3. new.pc \in {"undo", "done"} /\ new.result # "success"
        BY <1>4, <2>1, <2>2, FailFields DEF Throws, Undoes, Closes
    <2>4. QED
        BY <2>3 DEF Possesses, RunningPhases, Opening, Uploading
<1>5. CASE Gains(d, rec, new)
    <2>1. PICK e \in Entry :
             /\ Takes(d, rec, e)
             /\ \/ new.pc \in Calm /\ new.resolved = Append(rec.resolved, e)
                \/ /\ rec.pc \in {"binding", "creating"} /\ new.pc = "initsql"
                   /\ new.pending = e /\ new.resolved = rec.resolved
        BY <1>5 DEF Gains
    <2>2. rec.pc \in RunningPhases /\ ~Undoes(rec, new)
        BY <2>1 DEF Takes, Undoes, RunningPhases, Opening
    <2>3. \A i \in DOMAIN rec.resolved : HasNext(rec.resolved[i])
        BY <1>1, <1>2, <2>2 DEF Possesses
    <2>4. HasNext(e)
        <3>1. CASE rec.pc = "creating" /\ e = Made(Wanted(rec), d) /\ holder' = [holder EXCEPT ![e.title] = d]
            <4>1. holder'[e.title] = d /\ e.by = d
                BY <3>1 DEF Made, Entry, IInv, TypeOK
            <4>2. QED
                BY <4>1
        <3>2. CASE rec.pc = "binding" /\ holder[e.title] = e.by
            BY <1>1, <2>2, <3>2 DEF Has
        <3>3. CASE rec.pc = "initsql" /\ e = rec.pending
            BY <1>1, <1>2, <2>2, <3>3 DEF Possesses
        <3>4. QED
            BY <2>1, <3>1, <3>2, <3>3 DEF Takes
    <2>5. CASE new.pc \in Calm /\ new.resolved = Append(rec.resolved, e)
        <3>1. ASSUME NEW i \in DOMAIN new.resolved PROVE HasNext(new.resolved[i])
            <4>1. /\ i = Len(rec.resolved) + 1 => new.resolved[i] = e
                  /\ i # Len(rec.resolved) + 1 =>
                       i \in DOMAIN rec.resolved /\ new.resolved[i] = rec.resolved[i]
                BY <1>2, <2>5, <3>1
            <4>2. QED
                BY <2>3, <2>4, <4>1
        <3>2. QED
            BY <2>5, <3>1 DEF Possesses, Has, Calm
    <2>6. QED
        BY <2>1, <2>3, <2>4, <2>5 DEF Possesses, Has
<1>6. QED
    BY <1>3, <1>4, <1>5 DEF ResourceStep

LEMMA AccountsOther ==
    ASSUME IInv, OutcomeInv, NEW d \in Deploys, ResourceStep(d, dep[d], dep'[d]),
           \A o \in Deploys \ {d} : dep'[o] = dep[o], NEW o \in Deploys \ {d}
    PROVE  AccountsFor(o)'
<1>1. ASSUME NEW t \in Titles, holder'[t] = o PROVE holder[t] = o
    BY <1>1, HolderChange, NamesAssumption DEF IInv, TypeOK
<1>2. QED
    BY <1>1 DEF OutcomeInv, AccountsFor

LEMMA AccountsOwn ==
    ASSUME IInv, OutcomeInv, NEW d \in Deploys, ResourceStep(d, dep[d], dep'[d])
    PROVE  AccountsFor(d)'
<1> DEFINE rec == dep[d]
           new == dep'[d]
<1>1. /\ rec \in Deployment /\ RecInv(d, rec, holder) /\ Verdict(rec)
      /\ holder \in [Titles -> Owners] /\ d # None
    BY NamesAssumption DEF IInv, TypeOK, OutcomeInv
<1>2. \A t \in Titles : holder[t] = d => Sourced(rec, t)
    BY DEF OutcomeInv, AccountsFor
<1>3. /\ rec.resolved \in Seq(Entry) /\ Len(rec.resolved) \in Nat
      /\ DOMAIN rec.resolved = 1..Len(rec.resolved)
    BY EntriesTyped
<1> SUFFICES ASSUME NEW t \in Titles, holder'[t] = d PROVE Sourced(new, t)
    BY DEF AccountsFor
<1>4. CASE Throws(d, rec, new)
    <2>1. /\ new.pc = "undo" /\ new.tpl = rec.tpl /\ new.next = rec.next
          /\ new.resolved = rec.resolved /\ new.undoAt = Len(rec.resolved)
        BY <1>1, <1>4, FailFields DEF Throws
    <2>2. rec.pc \in RunningPhases /\ rec.result = "none"
        BY <1>1, <1>4 DEF Throws, Verdict, RunningPhases, Opening, Uploading
    <2>3. CASE holder[t] = d
        <3>1. \/ \E i \in DOMAIN rec.resolved : rec.resolved[i].created /\ rec.resolved[i].title = t
              \/ rec.pc = "initsql" /\ rec.pending.created /\ rec.pending.title = t
            BY <1>2, <2>2, <2>3 DEF Sourced, RunningPhases, Opening, Uploading
        <3>2. CASE \E i \in DOMAIN rec.resolved : rec.resolved[i].created /\ rec.resolved[i].title = t
            BY <1>3, <2>1, <3>2 DEF Sourced
        <3>3. CASE rec.pc = "initsql" /\ rec.pending.created /\ rec.pending.title = t
            BY <1>1, <2>1, <3>3 DEF RecInv, Bound, Sound, Sourced, Wanted, Opening
        <3>4. QED
            BY <3>1, <3>2, <3>3
    <2>4. CASE holder[t] # d
        <3>1. rec.pc = "creating" /\ t = Wanted(rec)
            BY <1>1, <1>4, <2>4 DEF Throws
        <3>2. QED
            BY <1>1, <2>1, <3>1 DEF RecInv, Bound, Sourced, Wanted, Opening
    <2>5. QED
        BY <2>3, <2>4
<1>5. CASE GoesOn(rec, new)
    <2>1. rec.result = "none"
        BY <1>1, <1>5 DEF GoesOn, Verdict, Calm, RunningPhases, Opening, Uploading
    <2>2. QED
        BY <1>2, <1>5, <2>1 DEF GoesOn, Sourced, Calm, RunningPhases, Opening, Uploading
<1>6. CASE Gains(d, rec, new)
    <2>1. PICK e \in Entry :
             /\ Takes(d, rec, e)
             /\ \/ new.pc \in Calm /\ new.resolved = Append(rec.resolved, e)
                \/ /\ rec.pc \in {"binding", "creating"} /\ new.pc = "initsql"
                   /\ new.pending = e /\ new.resolved = rec.resolved
        BY <1>6 DEF Gains
    <2>2. rec.pc \in Opening /\ rec.result = "none"
        BY <1>1, <2>1 DEF Takes, Verdict, Opening
    <2>3. \/ \E i \in DOMAIN rec.resolved : rec.resolved[i].created /\ rec.resolved[i].title = t
          \/ e.created /\ e.title = t
        <3>1. CASE holder[t] = d
            BY <1>2, <2>1, <2>2, <3>1 DEF Takes, Sourced, Opening
        <3>2. CASE holder[t] # d
            <4>1. e = Made(Wanted(rec), d) /\ t = e.title
                BY <1>1, <2>1, <3>2 DEF Takes
            <4>2. QED
                BY <4>1 DEF Made
        <3>3. QED
            BY <3>1, <3>2
    <2>4. CASE new.pc \in Calm /\ new.resolved = Append(rec.resolved, e)
        <3>1. /\ \A i \in DOMAIN rec.resolved :
                    i \in DOMAIN new.resolved /\ new.resolved[i] = rec.resolved[i]
              /\ Len(rec.resolved) + 1 \in DOMAIN new.resolved
              /\ new.resolved[Len(rec.resolved) + 1] = e
            BY <1>3, <2>4
        <3>2. new.pc \in RunningPhases /\ new.pc # "undo"
            BY <2>4 DEF Calm, RunningPhases, Opening, Uploading
        <3>3. QED
            BY <2>3, <3>1, <3>2 DEF Sourced
    <2>5. CASE /\ rec.pc \in {"binding", "creating"} /\ new.pc = "initsql"
               /\ new.pending = e /\ new.resolved = rec.resolved
        BY <2>3, <2>5 DEF Sourced, RunningPhases, Opening
    <2>6. QED
        BY <2>1, <2>4, <2>5
<1>7. CASE Succeeds(rec, new)
    BY <1>7 DEF Succeeds, Sourced
<1>8. CASE Undoes(rec, new)
    <2> DEFINE u == rec.undoAt
               e == rec.resolved[u]
    <2>1. rec.result = "none" /\ u \in Nat
        BY <1>1, <1>8 DEF Undoes, Verdict, Deployment
    <2>2. holder[t] = d /\ (e.created /\ e.title = t => t \in new.errors)
        BY <1>1, <1>8 DEF Undoes
    <2>3. \/ \E i \in DOMAIN rec.resolved : /\ rec.resolved[i].created /\ rec.resolved[i].title = t
                                            /\ i <= u
          \/ t \in rec.errors \/ (rec.next \in DOMAIN rec.tpl.bindings /\ t = Wanted(rec))
        BY <1>2, <1>8, <2>1, <2>2 DEF Sourced, Undoes
    <2>4. CASE t \in rec.errors \/ (rec.next \in DOMAIN rec.tpl.bindings /\ t = Wanted(rec))
        BY <1>8, <2>4 DEF Sourced, Undoes, Wanted
    <2>5. CASE \E i \in DOMAIN rec.resolved : /\ rec.resolved[i].created /\ rec.resolved[i].title = t
                                              /\ i <= u
        <3>1. PICK i \in DOMAIN rec.resolved : /\ rec.resolved[i].created /\ rec.resolved[i].title = t
                                               /\ i <= u
            BY <2>5
        <3>2. CASE i = u
            BY <1>8, <2>2, <3>1, <3>2 DEF Sourced, Undoes
        <3>3. CASE i # u
            <4>1. i <= u - 1
                BY <1>3, <2>1, <3>1, <3>3
            <4>2. QED
                BY <1>8, <3>1, <4>1 DEF Sourced, Undoes
        <3>4. QED
            BY <3>2, <3>3
    <2>6. QED
        BY <2>3, <2>4, <2>5
<1>9. CASE Closes(rec, new)
    <2>1. rec.result = "none" /\ holder[t] = d
        BY <1>1, <1>9 DEF Closes, Verdict
    <2>2. t \in rec.errors \/ (rec.next \in DOMAIN rec.tpl.bindings /\ t = Wanted(rec))
        BY <1>2, <1>3, <1>9, <2>1 DEF Sourced, Closes
    <2>3. QED
        BY <1>9, <2>2 DEF Sourced, Closes, Wanted
<1>10. QED
    BY <1>4, <1>5, <1>6, <1>7, <1>8, <1>9 DEF ResourceStep

\* What else may happen to a deployment changes nothing of what it has: it
\* stays, is forgotten, or begins.
LEMMA BesideResources ==
    ASSUME IInv, OutcomeInv, holder' = holder,
           \A o \in Deploys :
              \/ dep'[o] = dep[o]
              \/ dep'[o].pc = "lost" /\ dep'[o].result = "none"
              \/ /\ dep[o].pc = "idle" /\ dep'[o].pc # "initsql" /\ dep'[o].resolved = << >>
                 /\ \/ dep'[o].result = "none"
                    \/ dep'[o].pc = "done" /\ dep'[o].result = "refused"
    PROVE  OutcomeInv'
<1>1. ASSUME NEW o \in Deploys, Doomed(dep[o]) PROVE Doomed(dep'[o])
    BY <1>1 DEF Doomed, RollingBackOrOver
<1>2. ASSUME NEW o \in Deploys, NEW e, Has(o, e) PROVE Has(o, e)'
    BY <1>1, <1>2 DEF Has
<1>3. ASSUME NEW o \in Deploys PROVE Verdict(dep'[o]) /\ Possesses(o)' /\ AccountsFor(o)'
    <2>1. Verdict(dep[o]) /\ Possesses(o) /\ AccountsFor(o)
        BY DEF OutcomeInv
    <2>2. CASE dep'[o] = dep[o]
        BY <1>2, <2>1, <2>2 DEF Possesses, AccountsFor
    <2>3. CASE dep'[o].pc = "lost" /\ dep'[o].result = "none"
        BY <2>3 DEF Verdict, Possesses, AccountsFor, Sourced, RunningPhases, Opening, Uploading
    <2>4. CASE /\ dep[o].pc = "idle" /\ dep'[o].pc # "initsql" /\ dep'[o].resolved = << >>
               /\ \/ dep'[o].result = "none"
                  \/ dep'[o].pc = "done" /\ dep'[o].result = "refused"
        <3>1. \A t \in Titles : holder[t] # o
            BY <2>1, <2>4 DEF AccountsFor, Sourced, Verdict, RunningPhases, Opening, Uploading
        <3>2. AccountsFor(o)'
            BY <3>1 DEF AccountsFor
        <3>3. Possesses(o)'
            BY <2>4 DEF Possesses
        <3>4. QED
            BY <2>4, <3>2, <3>3 DEF Verdict
    <2>5. QED
        BY <2>2, <2>3, <2>4
<1>4. QED
    BY <1>3 DEF OutcomeInv

LEMMA NextOutcome ==
    ASSUME IInv, OutcomeInv, [Next]_vars
    PROVE  OutcomeInv'
<1>1. CASE UNCHANGED vars \/ DeleteAccount
    <2>1. holder' = holder /\ dep' = dep
        BY <1>1 DEF vars, DeleteAccount, cloudVars
    <2>2. QED
        BY <2>1, BesideResources
<1>2. CASE Crash
    <2>1. holder' = holder
        BY <1>2 DEF Crash, cloudVars
    <2>2. ASSUME NEW o \in Deploys
          PROVE  dep'[o] = dep[o] \/ (dep'[o].pc = "lost" /\ dep'[o].result = "none")
        BY <1>2, CrashRec DEF OutcomeInv, Verdict
    <2>3. QED
        BY <2>1, <2>2, BesideResources
<1>3. ASSUME NEW d \in Deploys, Handle(d) PROVE OutcomeInv'
    <2>1. /\ ResourceStep(d, dep[d], dep'[d])
          /\ \A o \in Deploys \ {d} : dep'[o] = dep[o]
        BY <1>3, HandleResources
    <2>2. ASSUME NEW o \in Deploys PROVE Possesses(o)' /\ AccountsFor(o)'
        BY <2>1, PossessesOwn, PossessesOther, AccountsOwn, AccountsOther
    <2>3. Verdict(dep[d]) /\ dep[d] \in Deployment
        BY DEF OutcomeInv, IInv, TypeOK
    <2>4. Verdict(dep'[d])
        BY <2>1, <2>3, FailFields
        DEF ResourceStep, Throws, GoesOn, Gains, Takes, Succeeds, Undoes, Closes, Calm, Verdict,
            RunningPhases, Opening, Uploading
    <2>5. QED
        BY <2>1, <2>2, <2>4 DEF OutcomeInv
<1>4. ASSUME NEW d \in Deploys,
             Refuse(d) \/ \E tpl \in Templates, n \in Names : Start(d, tpl, n)
      PROVE  OutcomeInv'
    <2>1. dep[d].pc = "idle" => dep[d].resolved = << >> /\ dep[d].result = "none"
        BY DEF IInv, RecInv, Bound, OutcomeInv, Verdict
    <2>2. /\ dep[d].pc = "idle" /\ dep' = [dep EXCEPT ![d] = dep'[d]]
          /\ dep'[d].pc # "initsql" /\ dep'[d].resolved = << >>
          /\ \/ dep'[d].result = "none"
             \/ dep'[d].pc = "done" /\ dep'[d].result = "refused"
          /\ holder' = holder
        BY <1>4, <2>1, RefuseRec, StartRec DEF cloudVars
    <2>3. \A o \in Deploys \ {d} : dep'[o] = dep[o]
        BY <2>2 DEF IInv, TypeOK
    <2>4. QED
        BY <2>2, <2>3, BesideResources
<1>5. QED
    BY <1>1, <1>2, <1>3, <1>4 DEF Next

\* Every reachable state accounts for the resources of every deployment.
LEMMA OutcomeInvariance == Spec => []OutcomeInv
<1>1. Init => OutcomeInv
    <2> SUFFICES ASSUME Init PROVE OutcomeInv
        OBVIOUS
    <2>1. ASSUME NEW d \in Deploys
          PROVE  /\ dep[d].pc = "idle" /\ dep[d].result = "none"
                 /\ \A t \in Titles : holder[t] # d
        BY NamesAssumption DEF Init, NewDeployment
    <2>2. QED
        BY <2>1 DEF OutcomeInv, Verdict, Possesses, AccountsFor, RunningPhases, Opening, Uploading
<1>2. IInv /\ OutcomeInv /\ [Next]_vars => OutcomeInv'
    BY NextOutcome
<1>3. QED
    BY <1>1, <1>2, Invariance, PTL DEF Spec

\* The response of a failed deployment (services/deploy/index.ts) tells what is left: a resource it
\* created and that still exists is among its rollback errors or is the binding at which it failed.
THEOREM LeftoversKnown == Spec => []LeftoversExplained
<1>1. IInv /\ OutcomeInv => LeftoversExplained
    <2> SUFFICES ASSUME IInv, OutcomeInv, NEW d \in Deploys, Unsuccessful(dep[d]),
                        NEW t \in Titles, holder[t] = d
                 PROVE  \/ t \in dep[d].errors
                        \/ /\ dep[d].next \in DOMAIN dep[d].tpl.bindings
                           /\ t = Wanted(dep[d])
        BY DEF LeftoversExplained
    <2>1. Sourced(dep[d], t)
        BY DEF OutcomeInv, AccountsFor
    <2>2. QED
        BY <2>1 DEF Sourced, Unsuccessful, RunningPhases, Opening, Uploading
<1>2. QED
    BY <1>1, Invariance, OutcomeInvariance, PTL

\* A deployment reported as a success holds what its bindings name: only the rollback of the
\* deployment that created a resource can have taken it away, and only an id of the request can be
\* of nothing: what the deployment created carries its own name.
THEOREM SuccessHolds == Spec => []SuccessHoldsResources
<1>1. IInv /\ OutcomeInv => SuccessHoldsResources
    <2> SUFFICES ASSUME IInv, OutcomeInv, NEW d \in Deploys, dep[d].result = "success",
                        NEW i \in DOMAIN dep[d].resolved
                 PROVE  \/ holder[dep[d].resolved[i].title] = dep[d].resolved[i].by
                        \/ dep[d].resolved[i].by = None /\ ~dep[d].resolved[i].created
                        \/ /\ dep[d].resolved[i].by \in Deploys \ {d}
                           /\ RollingBackOrOver(dep[dep[d].resolved[i].by])
                           /\ dep[dep[d].resolved[i].by].result # "success"
        BY DEF SuccessHoldsResources
    <2>1. dep[d].resolved[i].created => dep[d].resolved[i].by = d
        BY DEF IInv, RecInv, Traced
    <2>2. d # None
        BY NamesAssumption
    <2>3. Has(d, dep[d].resolved[i])
        BY DEF OutcomeInv, Possesses
    <2>4. QED
        BY <2>1, <2>2, <2>3 DEF Has, Doomed
<1>2. QED
    BY <1>1, Invariance, OutcomeInvariance, PTL
=============================================================================
