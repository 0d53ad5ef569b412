-------------------------- MODULE MCBrowserRender --------------------------
(***************************************************************************)
(* Two accounts, two requests at a time, an interval of one tick.          *)
(***************************************************************************)
EXTENDS BrowserRenderProps

\* The server forgets a bucket only after two edits; in the Worker with KV one deletes an account that is being scanned or marked.
MCMaxEdits == [s \in Stores |-> CASE s = "memory" -> 2 [] s = "kv" -> 1 [] OTHER -> 0]
=============================================================================
