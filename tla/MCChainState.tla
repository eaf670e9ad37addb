---------------------------- MODULE MCChainState ----------------------------
(***************************************************************************)
(* Instances of ChainState: block trees of a few blocks, named by letters  *)
(* for branches and digits for heights.                                    *)
(***************************************************************************)
EXTENDS ChainState, TLC

CONSTANTS g, a1, a2, a3, b1, b2, c2, none

RECURSIVE ChainOf(_, _)
ChainOf(P, b) == IF b = g THEN {g} ELSE {b} \cup ChainOf(P, P[b])

\* The chain a1-a2-a3, the branch b1-b2 from the genesis block and the block
\* c2 on a1; and two chains of two blocks.
ThreeWay == (a1 :> g) @@ (a2 :> a1) @@ (a3 :> a2) @@ (b1 :> g) @@ (b2 :> b1)
            @@ (c2 :> a1)
ShortFork == [b \in {a1, a2, b1, b2} |-> ThreeWay[b]]

BlocksOf(P) == {g} \cup DOMAIN P
ChainsOf(P) == [b \in BlocksOf(P) |-> ChainOf(P, b)]
HeightsOf(P) == [b \in BlocksOf(P) |-> Cardinality(ChainsOf(P)[b]) - 1]

ThreeWayBlocks == BlocksOf(ThreeWay)
ThreeWayChain == ChainsOf(ThreeWay)
ThreeWayHeight == HeightsOf(ThreeWay)

ShortForkBlocks == BlocksOf(ShortFork)
ShortForkChain == ChainsOf(ShortFork)
ShortForkHeight == HeightsOf(ShortFork)

\* The branch b1-b2 weighs more than its length says.
HeavyWork == [b \in ThreeWayBlocks |-> IF b = b2 THEN 4 ELSE ThreeWayHeight[b]]

NoNotarization(B) == [b \in B |-> none]
ThreeWayPlain == NoNotarization(ThreeWayBlocks)
ShortForkPlain == NoNotarization(ShortForkBlocks)
\* a2 carries a notarization of a1, a3 one of a2.
ThreeWayNotarizes == [ThreeWayPlain EXCEPT ![a2] = a1, ![a3] = a2]
=============================================================================
