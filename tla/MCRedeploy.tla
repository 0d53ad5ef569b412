----------------------------- MODULE MCRedeploy -----------------------------
EXTENDS RedeployProps, TLC

CONSTANTS r1, r2, s1, s2, n1, n2, AI, a, b

Entry(k, v) == [kind |-> k, val |-> v]
Nothing == Entry("none", Empty)
MCSymmetry == Permutations({r1, r2})
MCAccount == s1 :> 1 @@ s2 :> 1
MCTitle == s1 :> 1 @@ s2 :> 2
Conf3(n1s, n2s, ais) == n1 :> n1s @@ n2 :> n2s @@ AI :> ais
AiEntry == Entry("ai", Empty)
NoPreview == [s \in Scripts |-> Blank]

\* Two Workers on the Worker; a project and, on Node, a Worker of each kind, one yet to be made.
MCStarts == {
  [build |-> "worker", sort |-> s1 :> "versioned" @@ s2 :> "classic",
   live |-> s1 :> Conf3(Entry("secret", b), Entry("bound", b), Nothing) @@
            s2 :> Conf3(Entry("plain", b), Entry("other", b), AiEntry),
   preview |-> NoPreview],
  [build |-> "node", sort |-> s1 :> "versioned" @@ s2 :> "absent",
   live |-> s1 :> Conf3(Entry("secret", b), Entry("bound", b), Nothing) @@ s2 :> Blank,
   preview |-> NoPreview],
  [build |-> "node", sort |-> s1 :> "classic" @@ s2 :> "pages",
   live |-> s1 :> Conf3(Entry("plain", b), Entry("secret", b), AiEntry) @@
            s2 :> Conf3(AiEntry, Entry("plain", b), Nothing),
   preview |-> s1 :> Blank @@ s2 :> Conf3(Entry("secret", a), Entry("bound", a), Nothing)],
  [build |-> "worker", sort |-> s1 :> "absent" @@ s2 :> "pages",
   live |-> s1 :> Blank @@ s2 :> Conf3(Entry("plain", b), Entry("secret", b), AiEntry),
   preview |-> s1 :> Blank @@ s2 :> Conf3(Entry("bound", a), Nothing, Nothing)]}
=============================================================================
