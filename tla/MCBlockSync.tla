---------------------------- MODULE MCBlockSync ----------------------------
\* A prompt peer that announces a further block and a peer without it, that
\* answers late or never.
EXTENDS BlockSync
CONSTANTS p1, p2
MCTip == (p1 :> 5) @@ (p2 :> 4)
=============================================================================
