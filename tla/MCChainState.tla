---------------------------- MODULE MCChainState ----------------------------
(* ChainState for TLC: branches from the genesis block.                    *)
EXTENDS ChainState

CONSTANTS g, a1, b1, b2, b3

MCBlocks == {g, a1, b1, b2, b3}
MCParent == [b \in MCBlocks |-> CASE b = b2 -> b1 [] b = b3 -> b2 [] OTHER -> g]
=============================================================================
