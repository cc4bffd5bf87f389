---------------------------- MODULE MCHeaderSync ----------------------------
\* Two peers on the network's chain, one of them behind.
EXTENDS HeaderSync

CONSTANTS p1, p2

Main(n) == [h \in 1 .. n |-> "m"]
Chains == [p \in Peers |-> IF p = p2 THEN Main(2) ELSE Main(3)]
Heights == [p \in Peers |-> Len(Chains[p])]
\* The connected and the header chain of a fresh node; headers ahead; a block
\* mined here on genesis, on the network's chain, or where headers have left it;
\* and the header tip a block behind.
Starts0 == {<< <<>>, <<>> >>, << Main(1), Main(2) >>, << <<"f">>, <<"f">> >>,
            << <<"m", "f">>, <<"m", "f">> >>, << <<"m", "f">>, Main(3) >>,
            << Main(1), <<>> >>}
=============================================================================
