---------------------------- MODULE MCWriteQueue ----------------------------
(* Instances of WriteQueue for TLC.  Blocks with an even identity spend an *)
(* output, the others hold a coinbase only.                                *)
EXTENDS WriteQueue

MCSpending == {n \in 1 .. MaxBlocks : n % 2 = 0}
=============================================================================
