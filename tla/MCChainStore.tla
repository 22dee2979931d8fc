---------------------------- MODULE MCChainStore ----------------------------
(* A tree of six blocks for ChainStore: a trunk g - a1 and, on a1, the       *)
(* branches a2 - a3 and b2 - b3. Block a2 holds two txs, so the branches     *)
(* number the txs of heights 2 and 3 differently.                            *)
EXTENDS ChainStore

MCBlocks == {"g", "a1", "a2", "a3", "b2", "b3"}
MCNoBlock == "none"
MCHashXs == {"x", "y"}

MCParent == [g |-> "none", a1 |-> "g", a2 |-> "a1", a3 |-> "a2",
             b2 |-> "a1", b3 |-> "b2"]

Txs == [g |-> 1, a1 |-> 1, a2 |-> 2, a3 |-> 1, b2 |-> 1, b3 |-> 1]

MCHeight ==
  LET H[b \in MCBlocks \cup {"none"}] ==
        IF b = "none" THEN -1 ELSE H[MCParent[b]] + 1
  IN H
MCTxCount ==
  LET T[b \in MCBlocks \cup {"none"}] ==
        IF b = "none" THEN 0 ELSE T[MCParent[b]] + Txs[b]
  IN T
MCChain ==
  LET C[b \in MCBlocks \cup {"none"}] ==
        IF b = "none" THEN {} ELSE C[MCParent[b]] \cup {b}
  IN C

\* x is touched in every block, y only at heights 2 and 3
MCTouches ==
  [g |-> {<<"x", 0>>}, a1 |-> {<<"x", 1>>},
   a2 |-> {<<"x", 2>>, <<"y", 3>>}, a3 |-> {<<"y", 4>>},
   b2 |-> {<<"y", 2>>}, b3 |-> {<<"x", 3>>, <<"y", 3>>}]
=============================================================================
