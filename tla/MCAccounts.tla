----------------------------- MODULE MCAccounts -----------------------------
EXTENDS AccountsProps, TLC

CONSTANTS t1, t2, k1, cfA, cfB

MCTokens == {t1, t2}
MCKeys == {k1}
MCCfOf == (t1 :> cfA @@ t2 :> cfB @@ k1 :> cfA)

Tested == NewRow(t1, cfA, None)
Untested1 == [NewRow(k1, None, None) EXCEPT !.active = FALSE]

\* One account in use, or one in use and one imported without verification.
MCTables == {<<Tested, None, None>>, <<Tested, Untested1, None>>}
MCFiles == {<<t2, t2>>, <<k1>>}
=============================================================================
