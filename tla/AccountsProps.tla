---------------------------- MODULE AccountsProps ----------------------------
(***************************************************************************)
(* What must be true of the administration of accounts.                    *)
(***************************************************************************)
EXTENDS Accounts

Tasks == {task[r][n] : r \in Requests, n \in Places}

-----------------------------------------------------------------------------
\* On the server an account always has the credential its auth_type needs: requests that switch the
\* type, replace a credential or only rename the account, in any order, never leave a token account
\* without a token.  (In the Worker build they can: the type is compared with a row read earlier.)
CredentialsPresent == build = "node" => \A i \in Ids : rows[i] # None => CredOf(rows[i]) # None

\* An account in use has credentials with which a call to Cloudflare has succeeded; only an import
\* without verification is, in the Worker build for a moment, seen by others before it is put aside.
ActiveVerified ==
  \A i \in Ids :
    rows[i] # None /\ rows[i].active /\ CredOf(rows[i]) # None =>
      \/ CredOf(rows[i]) \in verified
      \/ \E t \in Tasks : t.id = i /\ t.pc = "park"

\* The credentials of account i were written, by an edit or with the account itself, and its account_id
\* is still to be asked for.
Refreshing(i) ==
  \E t \in Tasks :
    /\ t.id = i /\ t.cred # None
    /\ t.kind \in {"create", "update"}
    /\ t.pc \in {"reread", "list", "setAccountId"}

\* The account_id that requests are sent with is the one the credentials open, unless a request is
\* about to ask for it, or it could not be asked for, or an answer for older credentials came late.
\* (POST /accounts first stores the account_id that its client gave, whatever the credentials open.)
AccountIdOwn ==
  \A i \in Ids :
    rows[i] # None /\ rows[i].acct # None /\ CredOf(rows[i]) # None =>
      rows[i].acct = CfOf[CredOf(rows[i])] \/ i \in astray \/ Refreshing(i)

\* An import creates an account once however often its file names it, and the result of a line tells
\* whether it did: a line reported as failed or skipped leaves no account behind.
ImportTruth ==
  \A i \in Ids : rows[i] # None /\ rows[i].from # None =>
    LET r == rows[i].from[1]
        c == rows[i].from[2]
    IN  /\ \A j \in Ids \ {i} : rows[j] = None \/ rows[j].from # rows[i].from
        /\ \E n \in Places : task[r][n].id = i /\ task[r][n].pc \notin {"none", "skipped", "refused", "error", "broken"}

\* A request fails with an error of the server only when the account it was about has been deleted
\* under it, or when it is the test of a single account and that account fails: a batch of tests, an
\* edit, an import or a deletion answers a failing account as a result.
FaultsExplained == \A t \in Tasks : t.pc = "broken" => rows[t.id] = None \/ t.kind = "test"

\* A deleted account stays deleted: none of the writes that were under way brings its row back, and
\* its id is not given to another.
GoneStaysGone == [][\A i \in Ids : i < nextId /\ rows[i] = None => rows'[i] = None]_vars
=============================================================================
