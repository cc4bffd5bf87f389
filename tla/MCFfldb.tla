------------------------------ MODULE MCFfldb ------------------------------
\* A block of one unit and one of two; a file holds two units.
EXTENDS Ffldb
CONSTANTS short, long
MCBlocks == {short, long}
MCBlockLen == [x \in MCBlocks |-> IF x = long THEN 2 ELSE 1]
=============================================================================
