--------------------------- MODULE MCStoreDeploy ---------------------------
(***************************************************************************)
(* Two deployments to one name: a hybrid template with a database and a    *)
(* bucket, and a Pages site with a required variable and the bucket.  A    *)
(* KV namespace behaves as a database whose script is never run.           *)
(***************************************************************************)
EXTENDS StoreDeployProps

CONSTANTS db, bucket

MCTitles == {db, bucket}
MCDatabases == {db}
MCBuckets == {bucket}
Hybrid == [bindings |-> <<db, bucket>>, worker |-> TRUE, pages |-> TRUE]
Site == [bindings |-> <<Prompt, bucket>>, worker |-> FALSE, pages |-> TRUE]
MCTemplates == {Hybrid, Site}
=============================================================================
