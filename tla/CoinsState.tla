----------------------------- MODULE CoinsState -----------------------------
(***************************************************************************)
(* What the stack of coin views promises to the rest of the node, with no  *)
(* caches in it: three copies of the chain state, each a plain record.     *)
(*   disk  what a restart finds,                                           *)
(*   tip   what pcoinsTip answers,                                         *)
(*   view  what the scratch view of the block in progress answers; equal   *)
(*         to tip when no block is in progress.                            *)
(* CoinsViewCache implements it with the caches of src/src/coins.cpp.      *)
(***************************************************************************)
EXTENDS Integers

CONSTANTS
    Txids,       \* transaction ids
    Outputs,     \* output positions; an unspent output is one in the set
    Nullifiers,
    Roots,       \* roots of the Sapling commitment tree
    EmptyRoot,   \* SaplingMerkleTree::empty_root()
    Blocks,      \* block hashes
    NullHash     \* uint256()

VARIABLES disk, tip, view

vars == <<disk, tip, view>>

Coins == SUBSET Outputs
Pruned == {}

States == [coins: [Txids -> Coins], nullifiers: [Nullifiers -> BOOLEAN],
           anchors: [Roots -> BOOLEAN], block: Blocks \cup {NullHash}, root: Roots]

Fresh == [coins |-> [k \in Txids |-> Pruned],
          nullifiers |-> [n \in Nullifiers |-> FALSE],
          anchors |-> [r \in Roots |-> r = EmptyRoot],
          block |-> NullHash, root |-> EmptyRoot]

Init == disk = Fresh /\ tip = Fresh /\ view = Fresh

\* The operations of a block in progress touch the view and nothing else.
UpdateView(st) == view' = st /\ UNCHANGED <<disk, tip>>

ModifyCoins(k, new) == UpdateView([view EXCEPT !.coins = [@ EXCEPT ![k] = new]])

SetNullifier(n, spent) == UpdateView([view EXCEPT !.nullifiers = [@ EXCEPT ![n] = spent]])

SetAnchors(anchors, r) ==
    UpdateView([coins |-> view.coins, nullifiers |-> view.nullifiers,
                anchors |-> anchors, block |-> view.block, root |-> r])

PushAnchor(r) == SetAnchors([view.anchors EXCEPT ![r] = TRUE], r)

PopAnchor(r) ==
    /\ view.anchors[view.root]
    /\ SetAnchors([view.anchors EXCEPT ![view.root] = FALSE], r)

SetBestBlock(b) == UpdateView([view EXCEPT !.block = b])

\* A block is connected or disconnected: all of its effects, at once.
Commit == tip' = view /\ UNCHANGED <<disk, view>>

\* A block is refused: none of its effects.
Discard == view' = tip /\ UNCHANGED <<disk, tip>>

ConnectGenesis(b) ==
    /\ tip.block = NullHash
    /\ tip' = [tip EXCEPT !.block = b]
    /\ view' = [view EXCEPT !.block = b]
    /\ UNCHANGED disk

\* The chain state reaches the disk, all of it at once.
Sync == disk' = tip /\ UNCHANGED <<tip, view>>

Crash == tip' = disk /\ view' = disk /\ UNCHANGED disk

Next ==
    \/ \E k \in Txids, new \in Coins : ModifyCoins(k, new)
    \/ \E n \in Nullifiers, spent \in BOOLEAN : SetNullifier(n, spent)
    \/ \E r \in Roots : PushAnchor(r) \/ PopAnchor(r)
    \/ \E b \in Blocks : SetBestBlock(b) \/ ConnectGenesis(b)
    \/ Commit \/ Discard \/ Sync \/ Crash

Spec == Init /\ [][Next]_vars
=============================================================================
