--------------------------- MODULE MCModelCatalog ---------------------------
EXTENDS Canary
CONSTANTS m1, m2, h1, a, b, g, t1, t2
MCChains == {<<>>, <<a>>, <<g, b>>}
MCMaxChain == 5
MCActive == <<b, g>>
Custom(n, t, v, c) == [names |-> {n}, target |-> t, verified |-> v, chain |-> c]
Provider(n, t, v) == [names |-> {n}, target |-> t, verified |-> v, chain |-> <<>>]
Table(x, y) == [r \in Rows |-> IF r = m1 THEN x ELSE IF r = h1 THEN y ELSE None]
\* A chain to a self-hosted model, two chains that name each other, one model.
MCInitialTables ==
    {Table(Custom(a, t1, TRUE, <<g, b>>), Provider(b, t1, TRUE)),
     [Table(Custom(a, t1, TRUE, <<g, b>>), None) EXCEPT ![m2] = Custom(b, t1, TRUE, <<a>>)],
     Table(Custom(a, t1, FALSE, <<>>), None)}
=============================================================================
