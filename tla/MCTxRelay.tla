----------------------------- MODULE MCTxRelay ------------------------------
(* TxRelay on a block g with two branches a1-a2 and b1-b2.  c is in g, ca  *)
(* and cb are the coinbases of a1 and b1.  tp and tq spend the same        *)
(* output, x (not valid) and tr spend tp, s spends tr and another output   *)
(* of c, z is a shielded spend of the tree of a1, m spends the coinbase of *)
(* a1; tp can no longer be mined when a1 is disconnected.                  *)
EXTENDS TxRelay, TLC

CONSTANTS g, a1, a2, b1, b2, c, ca, cb, tp, tq, tr, s, x, z, m, n1, r0, r1, r2

Tree == (a1 :> g) @@ (a2 :> a1) @@ (b1 :> g) @@ (b2 :> b1)
Heights == (g :> 5) @@ (a1 :> 6) @@ (b1 :> 6) @@ (a2 :> 7) @@ (b2 :> 7)
Roots == (g :> r0) @@ (a1 :> r1) @@ (a2 :> r1) @@ (b1 :> r2) @@ (b2 :> r2)
BlockTxs == (g :> <<c>>) @@ (a1 :> <<ca, tp>>) @@ (a2 :> <<>>) @@ (b1 :> <<cb>>) @@ (b2 :> <<tq>>)

Order == <<c, ca, cb, tp, tq, x, tr, s, z, m>>
Spends == (c :> {}) @@ (ca :> {}) @@ (cb :> {}) @@ (z :> {})
          @@ (tp :> {<<c, 0>>}) @@ (tq :> {<<c, 0>>}) @@ (tr :> {<<tp, 0>>}) @@ (x :> {<<tp, 1>>})
          @@ (s :> {<<tr, 0>>, <<c, 1>>}) @@ (m :> {<<ca, 0>>})
With(ts, yes, no) == [t \in Range(Order) |-> IF t \in ts THEN yes ELSE no]
Makes == With({c, tp}, 2, 1)
Reveals == With({z}, {n1}, {})
From == With({z}, r1, NoRoot)
Locked == With({s}, 6, 0)
Expires == [With({tr}, 7, 0) EXCEPT ![tp] = 6]
Commits == With({m}, 1, 0)
=============================================================================
