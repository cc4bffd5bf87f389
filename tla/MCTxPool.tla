------------------------------ MODULE MCTxPool ------------------------------
\* a and x spend the same coin, b spends the output of a, d that of b.
EXTENDS TxPool

CONSTANTS a, b, x, d, p

Coin == <<"coin", 1>>
Inputs == [t \in Txs |-> IF t \in {a, x} THEN {Coin} ELSE IF t = b THEN {<<a, 1>>} ELSE {<<b, 1>>}]
OneOutput == [t \in Txs |-> 1]
Fees == [t \in Txs |-> IF t = x THEN 5 ELSE 2]
Bodies == {<<a>>, <<b>>, <<x>>, <<a, b>>}
TheCoin == {Coin}
=============================================================================
