---------------------------- MODULE DurableChain ----------------------------
(***************************************************************************)
(* What the write queue promises the rest of the node: a chain that grows  *)
(* and shrinks at its tip, of which a prefix is durable.  The durable part *)
(* only ever grows along the chain, except that a block detached from the  *)
(* tip leaves the disk in the same step, with its parent durable.  A crash *)
(* at any moment therefore finds a chain the node once had.                *)
(***************************************************************************)
EXTENDS Naturals, Sequences

CONSTANT Block

VARIABLES chain,    \* the blocks connected, oldest first
          durable   \* how many of them are on disk

Init == chain = <<>> /\ durable = 0

Connect == /\ \E b \in Block : chain' = Append(chain, b)
           /\ UNCHANGED durable

Persist == /\ durable' \in durable + 1 .. Len(chain)
           /\ UNCHANGED chain

Disconnect == /\ chain # <<>>
              /\ chain' = SubSeq(chain, 1, Len(chain) - 1)
              /\ durable' = Len(chain) - 1

Next == Connect \/ Persist \/ Disconnect

Spec == Init /\ [][Next]_<<chain, durable>>
=============================================================================
