------------------------------ MODULE MCPeers -------------------------------
(* Peers for TLC: all inbound connections from one source.                 *)
EXTENDS Peers, TLC

CONSTANT s1
MCSource == [i \in Ins |-> s1]
MCSymmetry == Permutations(Reqs) \cup Permutations(Ins) \cup Permutations(Addrs)
=============================================================================
