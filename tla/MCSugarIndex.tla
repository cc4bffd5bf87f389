---------------------------- MODULE MCSugarIndex ----------------------------
(* Branches of two and of three blocks over one genesis block.              *)
EXTENDS SugarIndex

CONSTANTS g, a1, a2, b1, b2, b3, c, t, u, v

MCPath == g :> <<g>>
       @@ a1 :> <<g, a1>> @@ a2 :> <<g, a1, a2>>
       @@ b1 :> <<g, b1>> @@ b2 :> <<g, b1, b2>> @@ b3 :> <<g, b1, b2, b3>>

\* t is in both branches, at one height; u at different heights; v spends an
\* output of its own block.
MCBody == g :> {c} @@ a1 :> {t} @@ a2 :> {u, v} @@ b1 :> {t} @@ b2 :> {} @@ b3 :> {u}
MCIn == c :> {} @@ t :> {c} @@ u :> {t} @@ v :> {u}
=============================================================================
