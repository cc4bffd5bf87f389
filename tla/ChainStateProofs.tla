-------------------------- MODULE ChainStateProofs --------------------------
(***************************************************************************)
(* Proofs about the chain, for every tree of blocks, every set of bad ones, *)
(* every last checkpoint and bound: no checked bad block is on the chain,  *)
(* the UTXO set and the payloads are those of the chain, the assertions hold,  *)
(* the chain has the most work, and nothing is left behind.                *)
(*                                                                         *)
(* Views are compared through the tree: Line(b) is the set of blocks from  *)
(* the genesis block to b, and the view of a node, whichever nodes its     *)
(* ancestors are, has the blocks of the line to its block (ViewLine).      *)
(*                                                                         *)
(* The invariants build on each other.                                     *)
(*   Typed    types, and which operation is where and holds the lock;      *)
(*   Safe     a reorganization has its way from the tip down to the fork   *)
(*            and up to a checked block before it: what is detached Falls  *)
(*            from the tip, what is attached Rises from the fork;          *)
(*   Lone     without a command the RPC goroutine is idle;                 *)
(*   Led      when the header view may be behind the chain;                *)
(*   Peace    undisturbed, a block has one node and only bad blocks are    *)
(*            to blame for flags;                                          *)
(*   Calm     undisturbed, what is stored, on disk, an orphan or waited    *)
(*            for, at every step of acceptance;                            *)
(*   Struck   what the first InvalidateBlock detaches and blames;          *)
(*   Bounded  the heights in the block index have a bound.                 *)
(***************************************************************************)
EXTENDS ChainState, SequenceTheorems, FiniteSetTheorems, WellFoundedInduction, TLAPS

-----------------------------------------------------------------------------
(* Induction, with a set in place of a predicate.                          *)

LEMMA LeastNumber ==
    ASSUME NEW S \in SUBSET Nat, S # {}
    PROVE  \E m \in S : \A n \in S : m <= n
  <1>1. \E x \in S : \A y \in S : ~ (<<y, x>> \in OpToRel(<, Nat))
    BY WFMin, NatLessThanWellFounded, Zenon
  <1>2. PICK x \in S : \A y \in S : ~ (<<y, x>> \in OpToRel(<, Nat))
    BY <1>1, Zenon
  <1>3. \A y \in S : ~ (y < x)
    BY <1>2 DEF OpToRel
  <1> QED
    BY <1>3

\* Down from m to 0.
LEMMA Downward ==
    ASSUME NEW m \in Nat, NEW S, m \in S,
           \A k \in 0 .. m - 1 : k + 1 \in S => k \in S
    PROVE  0 .. m \subseteq S
  <1> DEFINE T == {k \in 0 .. m : m - k \notin S}
  <1> SUFFICES ASSUME T # {} PROVE FALSE
    <2>1. ASSUME NEW k \in 0 .. m PROVE k \in S
      <3>1. m - k \in 0 .. m /\ m - (m - k) = k
        OBVIOUS
      <3>2. m - k \notin T
        OBVIOUS
      <3> QED
        BY <3>1, <3>2
    <2> QED
      BY <2>1
  <1>1. T \in SUBSET Nat
    OBVIOUS
  <1>2. PICK k \in T : \A j \in T : k <= j
    <2> HIDE DEF T
    <2> QED
      BY <1>1, LeastNumber
  <1>3. k # 0
    BY m - 0 = m
  <1>4. k - 1 \in 0 .. m /\ k - 1 \notin T
    BY <1>2, <1>3
  <1>5. m - (k - 1) \in S /\ m - (k - 1) = (m - k) + 1
    BY <1>4
  <1>6. m - k \in 0 .. m - 1
    BY <1>3
  <1> QED
    BY <1>5, <1>6

\* Up the tree of blocks.
LEMMA TreeInduction ==
    ASSUME NEW S, Genesis \in S,
           \A b \in Blocks \ {Genesis} : Parent[b] \in S => b \in S
    PROVE  Blocks \subseteq S
  <1> DEFINE T == {height[b] : b \in Blocks \ S}
  <1> SUFFICES ASSUME T # {} PROVE FALSE
    OBVIOUS
  <1>1. T \in SUBSET Nat
    BY TreeAssumption
  <1>2. PICK k \in T : \A j \in T : k <= j
    <2> HIDE DEF T
    <2> QED
      BY <1>1, LeastNumber
  <1>3. PICK b \in Blocks \ S : height[b] = k
    BY <1>2
  <1>4. b # Genesis /\ Parent[b] \in Blocks
    BY <1>3, ChainAssumption
  <1>5. height[b] = 1 + height[Parent[b]] /\ height[Parent[b]] \in Nat
    BY <1>3, <1>4, TreeAssumption
  <1>6. Parent[b] \in S
    <2>1. height[Parent[b]] \notin T
      <3> HIDE DEF T
      <3> QED
        BY <1>1, <1>2, <1>3, <1>5
    <2> QED
      BY <2>1, <1>4
  <1> QED
    BY <1>3, <1>4, <1>6

-----------------------------------------------------------------------------
(* Ancestors.                                                              *)

Gens == [Nodes -> 1 .. MaxGen]

\* The parent of a node, and the walk down to the genesis block, for a given
\* function par.
Up(q, n) == <<Parent[blockOf(n)], q[n]>>
Walk(q, n, at) ==
    at = [k \in 0 .. H(n) |-> IF k = H(n) THEN n ELSE Up(q, at[k + 1])]
Anc(q, n, h) == (CHOOSE at : Walk(q, n, at))[h]

LEMMA AncestorIs ==
    ASSUME NEW n, NEW h PROVE Ancestor(n, h) = Anc(par, n, h)
  BY DEF Ancestor, Anc, Walk, Up

LEMMA NodeFacts ==
    ASSUME NEW n \in Nodes
    PROVE  /\ blockOf(n) \in Blocks /\ H(n) \in Nat
           /\ n = <<blockOf(n), n[2]>> /\ n[2] \in 1 .. MaxGen
           /\ H(n) = 0 => blockOf(n) = Genesis
           /\ H(n) > 0 => blockOf(n) # Genesis
  <1>1. blockOf(n) \in Blocks /\ n = <<blockOf(n), n[2]>> /\ n[2] \in 1 .. MaxGen
    BY DEF Nodes, blockOf
  <1>2. Parent[blockOf(n)] \in Blocks
    BY <1>1, ChainAssumption
  <1> QED
    BY <1>1, <1>2, TreeAssumption, ChainAssumption DEF H

LEMMA UpFacts ==
    ASSUME NEW q \in Gens, NEW n \in Nodes
    PROVE  /\ Up(q, n) \in Nodes /\ blockOf(Up(q, n)) = Parent[blockOf(n)]
           /\ H(n) > 0 => H(Up(q, n)) = H(n) - 1
  <1>1. blockOf(n) \in Blocks /\ H(n) \in Nat /\ (H(n) > 0 => blockOf(n) # Genesis)
    BY NodeFacts
  <1>2. Parent[blockOf(n)] \in Blocks /\ q[n] \in 1 .. MaxGen
    BY <1>1, ChainAssumption DEF Gens
  <1>3. Up(q, n) \in Nodes /\ blockOf(Up(q, n)) = Parent[blockOf(n)]
    BY <1>2 DEF Up, Nodes, blockOf
  <1> QED
    BY <1>1, <1>2, <1>3, TreeAssumption DEF H

LEMMA WalkExists ==
    ASSUME NEW q \in Gens
    PROVE  \A n \in Nodes : \E at : Walk(q, n, at)
  <1> DEFINE S == {b \in Blocks : \A n \in Nodes : blockOf(n) = b => \E at : Walk(q, n, at)}
  <1>1. Genesis \in S
    <2> SUFFICES ASSUME NEW n \in Nodes, blockOf(n) = Genesis
                 PROVE  \E at : Walk(q, n, at)
      BY ChainAssumption
    <2>1. H(n) = 0
      BY TreeAssumption, ChainAssumption DEF H
    <2>2. Walk(q, n, [k \in 0 .. 0 |-> n])
      BY <2>1 DEF Walk
    <2> QED
      BY <2>2
  <1>2. ASSUME NEW b \in Blocks \ {Genesis}, Parent[b] \in S PROVE b \in S
    <2> SUFFICES ASSUME NEW n \in Nodes, blockOf(n) = b
                 PROVE  \E at : Walk(q, n, at)
      OBVIOUS
    <2>1. H(n) \in Nat /\ H(n) > 0
      BY TreeAssumption, ChainAssumption DEF H
    <2>2. Up(q, n) \in Nodes /\ blockOf(Up(q, n)) = Parent[b] /\ H(Up(q, n)) = H(n) - 1
      BY <2>1, UpFacts
    <2>3. PICK g : Walk(q, Up(q, n), g)
      BY <2>2, <1>2
    <2> DEFINE at == [k \in 0 .. H(n) |-> IF k = H(n) THEN n ELSE g[k]]
    <2>4. ASSUME NEW k \in 0 .. H(n), k # H(n)
          PROVE  at[k] = Up(q, at[k + 1])
      <3>1. k \in 0 .. H(n) - 1 /\ k + 1 \in 0 .. H(n) /\ at[k] = g[k]
        <4>1. k \in 0 .. H(n) - 1 /\ k + 1 \in 0 .. H(n)
          BY <2>1, <2>4
        <4>2. at[k] = g[k]
          BY <2>4
        <4> QED
          BY <4>1, <4>2
      <3>2. g[k] = IF k = H(n) - 1 THEN Up(q, n) ELSE Up(q, g[k + 1])
        BY <3>1, <2>2, <2>3 DEF Walk
      <3>3. CASE k = H(n) - 1
        BY <3>1, <3>2, <3>3, <2>1
      <3>4. CASE k # H(n) - 1
        BY <3>1, <3>2, <3>4, <2>1
      <3> QED
        BY <3>3, <3>4
    <2>5. at[H(n)] = n
      <3>1. H(n) \in 0 .. H(n)
        BY <2>1
      <3> QED
        BY <3>1
    <2>6. at = [k \in 0 .. H(n) |-> at[k]]
      OBVIOUS
    <2>7. Walk(q, n, at)
      <3> HIDE DEF at
      <3>1. [k \in 0 .. H(n) |-> at[k]] =
              [k \in 0 .. H(n) |-> IF k = H(n) THEN n ELSE Up(q, at[k + 1])]
        BY <2>4, <2>5
      <3> QED
        BY <3>1, <2>6 DEF Walk
    <2> QED
      BY <2>7
  <1>3. Blocks \subseteq S
    <2> HIDE DEF S
    <2> QED
      BY <1>1, <1>2, TreeInduction
  <1> QED
    BY <1>3, NodeFacts

LEMMA AncFacts ==
    ASSUME NEW q \in Gens, NEW n \in Nodes
    PROVE  /\ Anc(q, n, H(n)) = n
           /\ \A k \in 0 .. H(n) : Anc(q, n, k) \in Nodes /\ H(Anc(q, n, k)) = k
           /\ \A k \in 0 .. H(n) - 1 : Anc(q, n, k) = Up(q, Anc(q, n, k + 1))
  <1> DEFINE at == CHOOSE at : Walk(q, n, at)
  <1>1. Walk(q, n, at)
    BY WalkExists
  <1>2. \A k : Anc(q, n, k) = at[k]
    BY DEF Anc
  <1> HIDE DEF at
  <1>3. H(n) \in Nat
    BY NodeFacts
  <1>4. at[H(n)] = n
    BY <1>1, <1>3 DEF Walk
  <1>5. ASSUME NEW k \in 0 .. H(n) - 1 PROVE at[k] = Up(q, at[k + 1])
    <2>1. k \in 0 .. H(n) /\ k # H(n)
      BY <1>3
    <2> QED
      BY <1>1, <2>1 DEF Walk
  <1> DEFINE S == {k \in 0 .. H(n) : at[k] \in Nodes /\ H(at[k]) = k}
  <1>6. H(n) \in S
    BY <1>3, <1>4
  <1>7. ASSUME NEW k \in 0 .. H(n) - 1, k + 1 \in S PROVE k \in S
    <2>1. at[k + 1] \in Nodes /\ H(at[k + 1]) = k + 1
      BY <1>7
    <2>2. H(at[k + 1]) > 0 /\ k \in 0 .. H(n)
      BY <2>1, <1>3
    <2>3. at[k] \in Nodes /\ H(at[k]) = (k + 1) - 1
      BY <2>1, <2>2, <1>5, UpFacts
    <2> QED
      BY <2>2, <2>3
  <1>8. 0 .. H(n) \subseteq S
    <2> HIDE DEF S
    <2> QED
      BY <1>3, <1>6, <1>7, Downward
  <1> QED
    BY <1>2, <1>4, <1>5, <1>8

LEMMA AncUp ==
    ASSUME NEW q \in Gens, NEW n \in Nodes, H(n) > 0, NEW h \in 0 .. H(n) - 1
    PROVE  Anc(q, n, h) = Anc(q, Up(q, n), h)
  <1>1. H(n) \in Nat /\ Up(q, n) \in Nodes /\ H(Up(q, n)) = H(n) - 1
    BY NodeFacts, UpFacts
  <1> DEFINE S == {k \in 0 .. H(n) - 1 : Anc(q, n, k) = Anc(q, Up(q, n), k)}
  <1>2. H(n) - 1 \in S
    <2>1. H(n) - 1 \in 0 .. H(n) - 1 /\ (H(n) - 1) + 1 = H(n)
      BY <1>1
    <2>2. Anc(q, n, H(n) - 1) = Up(q, Anc(q, n, H(n)))
      BY <2>1, AncFacts
    <2> QED
      BY <2>1, <2>2, <1>1, AncFacts
  <1>3. ASSUME NEW k \in 0 .. (H(n) - 1) - 1, k + 1 \in S PROVE k \in S
    <2>1. k \in 0 .. H(n) - 1 /\ k \in 0 .. H(Up(q, n)) - 1
      BY <1>1
    <2>2. Anc(q, n, k) = Up(q, Anc(q, n, k + 1))
      BY <2>1, AncFacts
    <2>3. Anc(q, Up(q, n), k) = Up(q, Anc(q, Up(q, n), k + 1))
      BY <2>1, <1>1, AncFacts
    <2> QED
      BY <2>1, <2>2, <2>3, <1>3
  <1>4. 0 .. H(n) - 1 \subseteq S
    <2>1. H(n) - 1 \in Nat
      BY <1>1
    <2> HIDE DEF S
    <2> QED
      BY <2>1, <1>2, <1>3, Downward
  <1> QED
    BY <1>4

LEMMA AncAnc ==
    ASSUME NEW q \in Gens, NEW n \in Nodes, NEW h \in 0 .. H(n), NEW j \in 0 .. h
    PROVE  Anc(q, Anc(q, n, h), j) = Anc(q, n, j)
  <1>1. H(n) \in Nat /\ Anc(q, n, h) \in Nodes /\ H(Anc(q, n, h)) = h /\ h \in Nat
    BY NodeFacts, AncFacts
  <1> DEFINE S == {k \in 0 .. h : Anc(q, Anc(q, n, h), k) = Anc(q, n, k)}
  <1>2. h \in S
    BY <1>1, AncFacts
  <1>3. ASSUME NEW k \in 0 .. h - 1, k + 1 \in S PROVE k \in S
    <2>1. k \in 0 .. H(n) - 1 /\ k \in 0 .. H(Anc(q, n, h)) - 1 /\ k \in 0 .. h
      BY <1>1
    <2>2. Anc(q, n, k) = Up(q, Anc(q, n, k + 1))
      BY <2>1, AncFacts
    <2>3. Anc(q, Anc(q, n, h), k) = Up(q, Anc(q, Anc(q, n, h), k + 1))
      BY <2>1, <1>1, AncFacts
    <2> QED
      BY <2>1, <2>2, <2>3, <1>3
  <1>4. 0 .. h \subseteq S
    <2> HIDE DEF S
    <2> QED
      BY <1>1, <1>2, <1>3, Downward
  <1> QED
    BY <1>4

\* The blocks on the way down are those of the tree.
LEMMA AncBlock ==
    ASSUME NEW q \in Gens, NEW r \in Gens, NEW m \in Nodes, NEW n \in Nodes,
           blockOf(m) = blockOf(n), NEW h \in 0 .. H(n)
    PROVE  blockOf(Anc(q, m, h)) = blockOf(Anc(r, n, h))
  <1>1. H(n) \in Nat /\ H(m) = H(n)
    BY NodeFacts DEF H
  <1> DEFINE S == {k \in 0 .. H(n) : blockOf(Anc(q, m, k)) = blockOf(Anc(r, n, k))}
  <1>2. H(n) \in S
    BY <1>1, AncFacts
  <1>3. ASSUME NEW k \in 0 .. H(n) - 1, k + 1 \in S PROVE k \in S
    <2>1. k \in 0 .. H(n) /\ k + 1 \in 0 .. H(n)
      BY <1>1
    <2>2. Anc(r, n, k) = Up(r, Anc(r, n, k + 1)) /\ Anc(r, n, k + 1) \in Nodes
      BY <2>1, AncFacts
    <2>3. Anc(q, m, k) = Up(q, Anc(q, m, k + 1)) /\ Anc(q, m, k + 1) \in Nodes
      BY <2>1, <1>1, AncFacts
    <2>4. blockOf(Anc(r, n, k)) = Parent[blockOf(Anc(r, n, k + 1))]
      BY <2>2, UpFacts
    <2>5. blockOf(Anc(q, m, k)) = Parent[blockOf(Anc(q, m, k + 1))]
      BY <2>3, UpFacts
    <2> QED
      BY <2>1, <2>4, <2>5, <1>3
  <1>4. 0 .. H(n) \subseteq S
    <2> HIDE DEF S
    <2> QED
      BY <1>1, <1>2, <1>3, Downward
  <1> QED
    BY <1>4

\* A node's ancestors do not depend on the parents of other nodes.
LEMMA AncSame ==
    ASSUME NEW q \in Gens, NEW r \in Gens, NEW n \in Nodes,
           \A k \in 0 .. H(n) : r[Anc(q, n, k)] = q[Anc(q, n, k)],
           NEW h \in 0 .. H(n)
    PROVE  Anc(r, n, h) = Anc(q, n, h)
  <1>1. H(n) \in Nat
    BY NodeFacts
  <1> DEFINE S == {k \in 0 .. H(n) : Anc(r, n, k) = Anc(q, n, k)}
  <1>2. H(n) \in S
    BY <1>1, AncFacts
  <1>3. ASSUME NEW k \in 0 .. H(n) - 1, k + 1 \in S PROVE k \in S
    <2>1. k \in 0 .. H(n) /\ k + 1 \in 0 .. H(n)
      BY <1>1
    <2>2. Anc(r, n, k) = Up(r, Anc(r, n, k + 1))
      BY <2>1, AncFacts
    <2>3. Anc(q, n, k) = Up(q, Anc(q, n, k + 1))
      BY <2>1, AncFacts
    <2>4. Anc(r, n, k + 1) = Anc(q, n, k + 1)
      BY <1>3
    <2>5. r[Anc(q, n, k + 1)] = q[Anc(q, n, k + 1)]
      BY <2>1
    <2> QED
      BY <2>1, <2>2, <2>3, <2>4, <2>5 DEF Up
  <1>4. 0 .. H(n) \subseteq S
    <2> HIDE DEF S
    <2> QED
      BY <1>1, <1>2, <1>3, Downward
  <1> QED
    BY <1>4

-----------------------------------------------------------------------------
(* The blocks from the genesis block to a block.                           *)

Ones == [n \in Nodes |-> 1]
Line(b) == {blockOf(Anc(Ones, <<b, 1>>, h)) : h \in 0 .. height[b]}

LEMMA OnesFacts ==
    /\ Ones \in Gens
    /\ \A b \in Blocks : <<b, 1>> \in Nodes /\ blockOf(<<b, 1>>) = b
                         /\ H(<<b, 1>>) = height[b]
  <1>1. 1 \in 1 .. MaxGen
    BY ChainAssumption
  <1> QED
    BY <1>1 DEF Ones, Gens, Nodes, blockOf, H

\* The view of a node has the blocks of the line to its block.
LEMMA ViewLine ==
    ASSUME NEW q \in Gens, NEW n \in Nodes
    PROVE  Line(blockOf(n)) = {blockOf(Anc(q, n, h)) : h \in 0 .. H(n)}
  <1> DEFINE o == <<blockOf(n), 1>>
  <1>1. blockOf(n) \in Blocks
    BY NodeFacts
  <1>2. o \in Nodes /\ blockOf(o) = blockOf(n) /\ H(o) = H(n) /\ Ones \in Gens
    BY <1>1, OnesFacts DEF H
  <1> HIDE DEF o
  <1>3. \A h \in 0 .. H(n) : blockOf(Anc(Ones, o, h)) = blockOf(Anc(q, n, h))
    BY <1>2, AncBlock
  <1>4. Line(blockOf(n)) = {blockOf(Anc(Ones, o, h)) : h \in 0 .. H(n)}
    BY DEF Line, H, o
  <1> QED
    BY <1>3, <1>4

LEMMA LineStep ==
    ASSUME NEW b \in Blocks
    PROVE  /\ Line(b) \subseteq Blocks /\ b \in Line(b)
           /\ b = Genesis => Line(b) = {Genesis}
           /\ b # Genesis => Line(b) = Line(Parent[b]) \cup {b}
           /\ \A c \in Line(b) : height[c] <= height[b]
           /\ \A c \in Line(b) : height[c] = height[b] => c = b
  <1> DEFINE n == <<b, 1>>
  <1>1. n \in Nodes /\ blockOf(n) = b /\ H(n) = height[b] /\ Ones \in Gens
    BY OnesFacts
  <1> HIDE DEF n
  <1>2. H(n) \in Nat
    BY <1>1, NodeFacts
  <1>3. Line(b) = {blockOf(Anc(Ones, n, h)) : h \in 0 .. H(n)}
    BY <1>1, ViewLine
  <1>4. Anc(Ones, n, H(n)) = n
    BY <1>1, AncFacts
  <1>5. \A h \in 0 .. H(n) : /\ blockOf(Anc(Ones, n, h)) \in Blocks
                             /\ height[blockOf(Anc(Ones, n, h))] = h
    <2> TAKE h \in 0 .. H(n)
    <2>1. Anc(Ones, n, h) \in Nodes /\ H(Anc(Ones, n, h)) = h
      BY <1>1, AncFacts
    <2> QED
      BY <2>1, NodeFacts DEF H
  <1>6. Line(b) \subseteq Blocks /\ b \in Line(b)
    <2>1. H(n) \in 0 .. H(n)
      BY <1>2
    <2> QED
      BY <2>1, <1>1, <1>3, <1>4, <1>5
  <1>7. /\ \A c \in Line(b) : height[c] <= height[b]
        /\ \A c \in Line(b) : height[c] = height[b] => c = b
    BY <1>1, <1>2, <1>3, <1>4, <1>5
  <1>8. ASSUME b = Genesis PROVE Line(b) = {Genesis}
    <2>1. H(n) = 0
      BY <1>8, <1>1, TreeAssumption
    <2>2. 0 .. H(n) = {0}
      BY <2>1
    <2> QED
      BY <2>1, <2>2, <1>1, <1>3, <1>4, <1>8
  <1>9. ASSUME b # Genesis PROVE Line(b) = Line(Parent[b]) \cup {b}
    <2>1. H(n) > 0
      BY <1>9, <1>1, TreeAssumption, ChainAssumption
    <2>2. /\ Up(Ones, n) \in Nodes /\ blockOf(Up(Ones, n)) = Parent[b]
          /\ H(Up(Ones, n)) = H(n) - 1
      BY <2>1, <1>1, UpFacts
    <2>3. Line(Parent[b]) = {blockOf(Anc(Ones, Up(Ones, n), h)) : h \in 0 .. H(n) - 1}
      BY <2>2, <1>1, ViewLine
    <2>4. \A h \in 0 .. H(n) - 1 : Anc(Ones, Up(Ones, n), h) = Anc(Ones, n, h)
      BY <2>1, <1>1, AncUp
    <2>5. Line(Parent[b]) = {blockOf(Anc(Ones, n, h)) : h \in 0 .. H(n) - 1}
      BY <2>3, <2>4
    <2>6. 0 .. H(n) = (0 .. H(n) - 1) \cup {H(n)}
      BY <1>2, <2>1
    <2> QED
      BY <2>5, <2>6, <1>1, <1>3, <1>4
  <1> QED
    BY <1>6, <1>7, <1>8, <1>9

\* A line goes on below each of its blocks.
LEMMA LineBelow ==
    ASSUME NEW b \in Blocks, NEW c \in Line(b)
    PROVE  c \in Blocks /\ Line(c) \subseteq Line(b)
  <1> DEFINE S == {x \in Blocks : \A y \in Line(x) : y \in Blocks /\ Line(y) \subseteq Line(x)}
  <1>1. Genesis \in S
    BY LineStep, ChainAssumption
  <1>2. ASSUME NEW x \in Blocks \ {Genesis}, Parent[x] \in S PROVE x \in S
    BY <1>2, LineStep
  <1>3. Blocks \subseteq S
    <2> HIDE DEF S
    <2> QED
      BY <1>1, <1>2, TreeInduction
  <1> QED
    BY <1>3

LEMMA ParentFacts ==
    ASSUME NEW b \in Blocks
    PROVE  /\ Parent[b] \in Blocks /\ height[b] \in Nat
           /\ b # Genesis => /\ height[Parent[b]] = height[b] - 1 /\ height[b] > 0
                             /\ Line(b) = Line(Parent[b]) \cup {b}
                             /\ Line(b) \ {b} = Line(Parent[b])
                             /\ b \notin Line(Parent[b]) /\ Parent[b] \in Line(b)
           /\ height[b] = 0 => b = Genesis
  <1>1. Parent[b] \in Blocks /\ height[b] \in Nat /\ height[Parent[b]] \in Nat
    BY ChainAssumption, TreeAssumption
  <1>2. b # Genesis => height[b] = 1 + height[Parent[b]]
    BY TreeAssumption
  <1>3. \A c \in Line(Parent[b]) : height[c] <= height[Parent[b]]
    BY <1>1, LineStep
  <1>4. b # Genesis => b \notin Line(Parent[b])
    BY <1>1, <1>2, <1>3
  <1>5. Parent[b] \in Line(Parent[b])
    BY <1>1, LineStep
  <1> QED
    BY <1>1, <1>2, <1>4, <1>5, LineStep

-----------------------------------------------------------------------------
(* Sequences without some of their elements.                               *)

\* A nonempty set of numbers with a bound has a greatest element.
LEMMA GreatestNumber ==
    ASSUME NEW S \in SUBSET Nat, S # {}, NEW m \in Nat, \A n \in S : n <= m
    PROVE  \E x \in S : \A n \in S : n <= x
  <1> DEFINE T == {m - n : n \in S}
  <1>1. T \in SUBSET Nat /\ T # {}
    <2>1. \A n \in S : m - n \in Nat
      OBVIOUS
    <2> QED
      BY <2>1
  <1>2. PICK k \in T : \A j \in T : k <= j
    <2> HIDE DEF T
    <2> QED
      BY <1>1, LeastNumber
  <1>3. PICK x \in S : k = m - x
    BY <1>2
  <1>4. ASSUME NEW n \in S PROVE n <= x
    <2>1. m - n \in T /\ n \in Nat /\ x \in Nat
      OBVIOUS
    <2>2. m - x <= m - n
      BY <2>1, <1>2, <1>3
    <2> QED
      BY <2>1, <2>2
  <1> QED
    BY <1>4

\* The number of elements of a set of numbers up to one of them.
Rank(at, i) == Cardinality({j \in at : j <= i})

LEMMA RankFacts ==
    ASSUME NEW n \in Nat, NEW at \in SUBSET (1 .. n)
    PROVE  /\ IsFiniteSet(at) /\ Cardinality(at) \in Nat
           /\ \A i \in at : Rank(at, i) \in 1 .. Cardinality(at)
           /\ \A i, j \in at : i < j => Rank(at, i) < Rank(at, j)
           /\ \A k \in 1 .. Cardinality(at) : \E i \in at : Rank(at, i) = k
  <1>1. IsFiniteSet(at)
    <2>1. IsFiniteSet(1 .. n)
      BY FS_Interval
    <2> QED
      BY <2>1, FS_Subset
  <1>2. Cardinality(at) \in Nat
    BY <1>1, FS_CardinalityType
  <1> DEFINE up(i) == {j \in at : j <= i}
  <1>3. ASSUME NEW i \in at
        PROVE  /\ IsFiniteSet(up(i)) /\ Rank(at, i) \in 1 .. Cardinality(at)
               /\ Cardinality(up(i) \ {i}) = Rank(at, i) - 1
    <2>1. up(i) \in SUBSET at /\ i \in up(i)
      OBVIOUS
    <2>2. IsFiniteSet(up(i)) /\ Cardinality(up(i)) <= Cardinality(at)
      BY <1>1, <2>1, FS_Subset
    <2>3. Cardinality(up(i)) \in Nat
      BY <2>2, FS_CardinalityType
    <2>4. Cardinality(up(i)) # 0
      BY <2>1, <2>2, FS_EmptySet
    <2>5. Cardinality(up(i) \ {i}) = Cardinality(up(i)) - 1
      BY <2>1, <2>2, FS_RemoveElement
    <2> QED
      BY <1>2, <2>2, <2>3, <2>4, <2>5 DEF Rank
  <1>4. ASSUME NEW i \in at, NEW j \in at, i < j PROVE Rank(at, i) < Rank(at, j)
    <2>1. up(i) \in SUBSET up(j) /\ j \notin up(i) /\ j \in up(j)
      <3>1. at \subseteq Nat
        OBVIOUS
      <3> QED
        <4>1. i \in Nat /\ j \in Nat
          BY <3>1
        <4>2. \A x \in Nat : x <= i => x <= j
          BY <4>1, <1>4
        <4>3. up(i) \subseteq up(j)
          BY <3>1, <4>2
        <4>4. ~(j <= i) /\ j <= j
          BY <4>1, <1>4
        <4> QED
          BY <4>3, <4>4
    <2>2. Cardinality(up(i)) <= Cardinality(up(j)) /\ Cardinality(up(i)) # Cardinality(up(j))
      <3>1. IsFiniteSet(up(j))
        BY <1>3
      <3> HIDE DEF up
      <3> QED
        BY <2>1, <3>1, FS_Subset
    <2>3. Cardinality(up(i)) \in Nat /\ Cardinality(up(j)) \in Nat
      BY <1>3, FS_CardinalityType
    <2> QED
      BY <2>2, <2>3 DEF Rank
  <1> DEFINE S == {k \in 0 .. Cardinality(at) : k = 0 \/ \E i \in at : Rank(at, i) = k}
  <1>5. Cardinality(at) \in S
    <2>1. CASE at = {}
      BY <2>1, FS_EmptySet
    <2>2. CASE at # {}
      <3>1. PICK i \in at : \A j \in at : j <= i
        <4>1. at \in SUBSET Nat /\ \A j \in at : j <= n
          OBVIOUS
        <4> QED
          BY <4>1, <2>2, GreatestNumber
      <3>2. up(i) = at
        BY <3>1
      <3> QED
        BY <3>2, <1>2 DEF Rank
    <2> QED
      BY <2>1, <2>2
  <1>6. ASSUME NEW k \in 0 .. Cardinality(at) - 1, k + 1 \in S PROVE k \in S
    <2>0. k \in 0 .. Cardinality(at)
      BY <1>2
    <2>1. SUFFICES ASSUME k # 0 PROVE \E i \in at : Rank(at, i) = k
      BY <2>0
    <2>2. PICK i \in at : Rank(at, i) = k + 1
      BY <1>6, <1>2
    <2> DEFINE low == up(i) \ {i}
    <2>3. Cardinality(low) = k
      <3>1. Cardinality(low) = Rank(at, i) - 1
        BY <1>3
      <3> QED
        BY <2>2, <3>1
    <2>4. low # {}
      BY <2>1, <2>3, FS_EmptySet
    <2>5. PICK j \in low : \A x \in low : x <= j
      <3>1. low \subseteq 1 .. n
        OBVIOUS
      <3> HIDE DEF low
      <3>2. low \in SUBSET Nat /\ \A x \in low : x <= n
        BY <3>1
      <3> QED
        BY <3>2, <2>4, GreatestNumber
    <2>6. low = up(j) /\ j \in at
      <3>1. j \in at /\ j <= i /\ j # i /\ at \subseteq Nat
        BY <2>5
      <3>2. ASSUME NEW x \in at PROVE x \in low <=> x <= j
        BY <3>1, <2>5
      <3> QED
        BY <3>1, <3>2
    <2> QED
      BY <2>3, <2>6 DEF Rank
  <1>7. 0 .. Cardinality(at) \subseteq S
    <2> HIDE DEF S
    <2> QED
      BY <1>2, <1>5, <1>6, Downward
  <1>8. \A k \in 1 .. Cardinality(at) : \E i \in at : Rank(at, i) = k
    BY <1>7, <1>2
  <1> QED
    BY <1>1, <1>2, <1>3, <1>4, <1>8

LEMMA KeptFacts ==
    ASSUME NEW S, NEW s \in Seq(S), NEW out
    PROVE  /\ Kept(s, out) \in Seq(S)
           /\ ToSet(Kept(s, out)) = ToSet(s) \ out
           /\ (\A i \in DOMAIN s : s[i] \notin out) => Kept(s, out) = s
  <1> DEFINE at == {i \in DOMAIN s : s[i] \notin out}
             nth(k) == CHOOSE i \in at : Rank(at, i) = k
             m == Cardinality(at)
             r == [k \in 1 .. m |-> s[nth(k)]]
  <1>0. Kept(s, out) = r
    BY DEF Kept, Rank
  <1>1. DOMAIN s = 1 .. Len(s) /\ Len(s) \in Nat /\ at \in SUBSET (1 .. Len(s))
    OBVIOUS
  <1>2. /\ m \in Nat
        /\ \A i \in at : Rank(at, i) \in 1 .. m
        /\ \A i, j \in at : i < j => Rank(at, i) < Rank(at, j)
        /\ \A k \in 1 .. m : \E i \in at : Rank(at, i) = k
    <2> HIDE DEF at
    <2> QED
      BY <1>1, RankFacts
  <1>3. \A k \in 1 .. m : nth(k) \in at /\ Rank(at, nth(k)) = k
    <2> HIDE DEF at, m
    <2> QED
      BY <1>2
  <1>4. \A i \in at : nth(Rank(at, i)) = i
    <2> TAKE i \in at
    <2> DEFINE j == nth(Rank(at, i))
    <2>1. j \in at /\ Rank(at, j) = Rank(at, i)
      <3> HIDE DEF at, m
      <3> QED
        BY <1>2
    <2>2. i \in Nat /\ j \in Nat
      BY <1>1, <2>1
    <2>3. Rank(at, i) \in Nat
      BY <1>2
    <2>4. ~(i < j) /\ ~(j < i)
      <3> HIDE DEF at, j
      <3> QED
        BY <1>2, <2>1, <2>3
    <2> QED
      BY <2>2, <2>4
  <1>5. \A k \in 1 .. m : r[k] = s[nth(k)] /\ r[k] \in S /\ r[k] \notin out /\ nth(k) \in DOMAIN s
    <2> TAKE k \in 1 .. m
    <2>1. nth(k) \in at
      BY <1>3
    <2>2. r[k] = s[nth(k)]
      BY Zenon
    <2>3. nth(k) \in DOMAIN s /\ s[nth(k)] \notin out
      BY <2>1
    <2> QED
      BY <2>2, <2>3, <1>1
  <1>6. r \in Seq(S) /\ DOMAIN r = 1 .. m /\ Len(r) = m
    <2>1. r \in [1 .. m -> S]
      BY <1>5
    <2> HIDE DEF r, m
    <2> QED
      BY <2>1, <1>2
  <1>7. ToSet(r) = ToSet(s) \ out
    <2>1. ASSUME NEW x \in ToSet(r) PROVE x \in ToSet(s) \ out
      <3>1. PICK k \in 1 .. m : x = r[k]
        BY <1>6 DEF ToSet
      <3> QED
        BY <3>1, <1>5 DEF ToSet
    <2>2. ASSUME NEW x \in ToSet(s) \ out PROVE x \in ToSet(r)
      <3>1. PICK i \in at : x = s[i]
        BY DEF ToSet
      <3>2. Rank(at, i) \in 1 .. m
        BY <1>2
      <3>3. r[Rank(at, i)] = s[i]
        BY <3>2, <1>4, <1>5
      <3> QED
        BY <3>1, <3>2, <3>3, <1>6 DEF ToSet
    <2> QED
      BY <2>1, <2>2
  <1>8. ASSUME \A i \in DOMAIN s : s[i] \notin out PROVE r = s
    <2>1. at = 1 .. Len(s)
      BY <1>8, <1>1
    <2>2. m = Len(s)
      <3>1. Cardinality(1 .. Len(s)) = IF 1 > Len(s) THEN 0 ELSE Len(s) - 1 + 1
        BY <1>1, FS_Interval
      <3>2. Cardinality(1 .. Len(s)) = Len(s)
        BY <1>1, <3>1
      <3> QED
        BY <2>1, <3>2
    <2>3. ASSUME NEW i \in 1 .. Len(s) PROVE Rank(at, i) = i
      <3>1. {j \in 1 .. Len(s) : j <= i} = 1 .. i
        BY <1>1
      <3>2. Cardinality(1 .. i) = i
        BY FS_Interval
      <3> QED
        BY <2>1, <3>1, <3>2 DEF Rank
    <2>4. ASSUME NEW i \in 1 .. Len(s) PROVE r[i] = s[i]
      <3>1. nth(i) = i
        BY <1>4, <2>1, <2>3
      <3> QED
        BY <3>1, <2>2, <1>5
    <2> HIDE DEF r, m, at, nth
    <2> QED
      BY <2>2, <2>4, <1>6, <1>1, SeqEqual
  <1> HIDE DEF r
  <1> QED
    BY <1>0, <1>6, <1>7, <1>8

-----------------------------------------------------------------------------
(* Nodes of the block index, branches and forks.                           *)

\* The genesis block has one node.
Real(n) == n \in Nodes /\ (blockOf(n) = Genesis => n = <<Genesis, 1>>)
RealGens == {q \in Gens : \A n \in Nodes : Parent[blockOf(n)] = Genesis => q[n] = 1}

LEMMA RealUp ==
    ASSUME NEW q \in RealGens, NEW n \in Nodes
    PROVE  Real(Up(q, n))
  <1>1. q \in Gens
    BY DEF RealGens
  <1>2. Up(q, n) \in Nodes /\ blockOf(Up(q, n)) = Parent[blockOf(n)]
    BY <1>1, UpFacts
  <1>3. Parent[blockOf(n)] = Genesis => q[n] = 1
    BY DEF RealGens
  <1> QED
    BY <1>2, <1>3 DEF Real, Up

LEMMA RealAnc ==
    ASSUME NEW q \in RealGens, NEW n, Real(n)
    PROVE  /\ q \in Gens /\ n \in Nodes /\ H(n) \in Nat
           /\ \A h \in 0 .. H(n) : Real(Anc(q, n, h)) /\ H(Anc(q, n, h)) = h
           /\ Anc(q, n, 0) = <<Genesis, 1>>
  <1>1. q \in Gens /\ n \in Nodes
    BY DEF RealGens, Real
  <1>2. H(n) \in Nat /\ Anc(q, n, H(n)) = n
    BY <1>1, NodeFacts, AncFacts
  <1>3. \A h \in 0 .. H(n) : Real(Anc(q, n, h)) /\ H(Anc(q, n, h)) = h
    <2> TAKE h \in 0 .. H(n)
    <2>1. H(Anc(q, n, h)) = h
      BY <1>1, AncFacts
    <2>2. CASE h = H(n)
      BY <2>1, <2>2, <1>2
    <2>3. CASE h # H(n)
      <3>1. h \in 0 .. H(n) - 1 /\ h + 1 \in 0 .. H(n)
        BY <2>3, <1>2
      <3>2. Anc(q, n, h) = Up(q, Anc(q, n, h + 1)) /\ Anc(q, n, h + 1) \in Nodes
        BY <3>1, <1>1, AncFacts
      <3> QED
        BY <3>2, <2>1, RealUp
    <2> QED
      BY <2>2, <2>3
  <1>4. Anc(q, n, 0) = <<Genesis, 1>>
    <2>1. 0 \in 0 .. H(n)
      BY <1>2
    <2>2. Real(Anc(q, n, 0)) /\ H(Anc(q, n, 0)) = 0
      BY <2>1, <1>3
    <2> QED
      BY <2>2, NodeFacts DEF Real
  <1> QED
    BY <1>1, <1>2, <1>3, <1>4

\* A sequence of nodes, each the parent of the one before it, from a block down
\* to the block above another one; and one from there up.
Falls(s, from, to) ==
    /\ s = <<>> => from = to
    /\ s # <<>> => blockOf(s[1]) = from /\ Parent[blockOf(s[Len(s)])] = to
    /\ \A i \in 1 .. Len(s) - 1 : blockOf(s[i + 1]) = Parent[blockOf(s[i])]
Rises(s, from) ==
    /\ s # <<>> => Parent[blockOf(s[1])] = from
    /\ \A i \in 1 .. Len(s) - 1 : Parent[blockOf(s[i + 1])] = blockOf(s[i])
Grown(s) == \A i \in 1 .. Len(s) : Real(s[i]) /\ blockOf(s[i]) # Genesis

LEMMA TailFacts ==
    ASSUME NEW s \in Seq(Nodes), s # <<>>
    PROVE  /\ Tail(s) \in Seq(Nodes)
           /\ Grown(s) => Grown(Tail(s))
           /\ \A from, to : Falls(s, from, to) =>
                /\ blockOf(s[1]) = from
                /\ Falls(Tail(s), Parent[from], to)
           /\ \A from : Rises(s, from) =>
                /\ Parent[blockOf(s[1])] = from
                /\ Rises(Tail(s), blockOf(s[1]))
  <1> DEFINE u == Tail(s)
  <1>1. /\ Len(s) \in Nat \ {0} /\ u \in Seq(Nodes) /\ Len(u) = Len(s) - 1
        /\ \A i \in 1 .. Len(u) : u[i] = s[i + 1]
    BY EmptySeq, HeadTailProperties
  <1> HIDE DEF u
  <1>2. u = <<>> => Len(s) = 1
    BY <1>1, EmptySeq
  <1>3. u # <<>> => u[1] = s[2] /\ u[Len(u)] = s[Len(s)] /\ Len(s) > 1
    BY <1>1, EmptySeq
  <1>4. Grown(s) => Grown(u)
    BY <1>1 DEF Grown
  <1>5. ASSUME NEW from, NEW to, Falls(s, from, to)
        PROVE  blockOf(s[1]) = from /\ Falls(u, Parent[from], to)
    <2>1. blockOf(s[1]) = from
      BY <1>5 DEF Falls
    <2>2. u = <<>> => Parent[from] = to
      BY <1>5, <1>2 DEF Falls
    <2>3. u # <<>> => blockOf(u[1]) = Parent[from] /\ Parent[blockOf(u[Len(u)])] = to
      <3> SUFFICES ASSUME u # <<>>
                   PROVE  blockOf(u[1]) = Parent[from] /\ Parent[blockOf(u[Len(u)])] = to
        OBVIOUS
      <3>1. 1 \in 1 .. Len(s) - 1 /\ 1 + 1 = 2
        BY <1>1, <1>3
      <3>2. blockOf(s[2]) = Parent[blockOf(s[1])]
        BY <3>1, <1>5 DEF Falls
      <3> QED
        BY <3>2, <1>3, <1>5 DEF Falls
    <2>4. ASSUME NEW i \in 1 .. Len(u) - 1 PROVE blockOf(u[i + 1]) = Parent[blockOf(u[i])]
      <3>1. /\ i + 1 \in 1 .. Len(s) - 1 /\ i \in 1 .. Len(u) /\ i + 1 \in 1 .. Len(u)
        BY <1>1
      <3>2. u[i] = s[i + 1] /\ u[i + 1] = s[(i + 1) + 1]
        BY <3>1, <1>1
      <3> QED
        BY <3>1, <3>2, <1>5 DEF Falls
    <2> QED
      BY <2>1, <2>2, <2>3, <2>4 DEF Falls
  <1>6. ASSUME NEW from, Rises(s, from)
        PROVE  Parent[blockOf(s[1])] = from /\ Rises(u, blockOf(s[1]))
    <2>1. Parent[blockOf(s[1])] = from
      BY <1>6 DEF Rises
    <2>2. u # <<>> => Parent[blockOf(u[1])] = blockOf(s[1])
      <3> SUFFICES ASSUME u # <<>> PROVE Parent[blockOf(u[1])] = blockOf(s[1])
        OBVIOUS
      <3>1. 1 \in 1 .. Len(s) - 1 /\ 1 + 1 = 2
        BY <1>1, <1>3
      <3>2. Parent[blockOf(s[2])] = blockOf(s[1])
        BY <3>1, <1>6 DEF Rises
      <3> QED
        BY <3>2, <1>3
    <2>4. ASSUME NEW i \in 1 .. Len(u) - 1 PROVE Parent[blockOf(u[i + 1])] = blockOf(u[i])
      <3>1. /\ i + 1 \in 1 .. Len(s) - 1 /\ i \in 1 .. Len(u) /\ i + 1 \in 1 .. Len(u)
        BY <1>1
      <3>2. u[i] = s[i + 1] /\ u[i + 1] = s[(i + 1) + 1]
        BY <3>1, <1>1
      <3> QED
        BY <3>1, <3>2, <1>6 DEF Rises
    <2> QED
      BY <2>1, <2>2, <2>4 DEF Rises
  <1> QED
    BY <1>1, <1>4, <1>5, <1>6 DEF u

\* Ancestors of a node, of its parent, and the blocks between two heights.
LEMMA DownFacts ==
    ASSUME par \in RealGens, NEW n, Real(n), NEW h \in 0 .. H(n)
    PROVE  /\ Down(n, h) \in Seq(Nodes) /\ Len(Down(n, h)) = H(n) - h
           /\ \A i \in 1 .. H(n) - h : Down(n, h)[i] = Anc(par, n, H(n) + 1 - i)
           /\ Grown(Down(n, h))
           /\ Falls(Down(n, h), blockOf(n), blockOf(Anc(par, n, h)))
           /\ Grown(Reverse(Down(n, h))) /\ Reverse(Down(n, h)) \in Seq(Nodes)
           /\ Rises(Reverse(Down(n, h)), blockOf(Anc(par, n, h)))
           /\ Len(Reverse(Down(n, h))) = H(n) - h
           /\ \A i \in 1 .. H(n) - h : Reverse(Down(n, h))[i] = Anc(par, n, h + i)
  <1> DEFINE s == Down(n, h)
             r == Reverse(s)
             k == H(n) - h
  <1>1. /\ par \in Gens /\ n \in Nodes /\ H(n) \in Nat /\ k \in Nat
        /\ \A j \in 0 .. H(n) : Real(Anc(par, n, j)) /\ H(Anc(par, n, j)) = j
        /\ Anc(par, n, H(n)) = n
    BY RealAnc, AncFacts
  <1>2. s = [i \in 1 .. k |-> Anc(par, n, H(n) + 1 - i)]
    BY AncestorIs DEF Down
  <1>3. \A i \in 1 .. k : s[i] = Anc(par, n, H(n) + 1 - i) /\ H(n) + 1 - i \in h + 1 .. H(n)
    BY <1>1, <1>2
  <1>4. \A j \in h + 1 .. H(n) : /\ Real(Anc(par, n, j)) /\ Anc(par, n, j) \in Nodes
                                 /\ blockOf(Anc(par, n, j)) # Genesis
    <2> TAKE j \in h + 1 .. H(n)
    <2>1. j \in 0 .. H(n) /\ j > 0
      BY <1>1
    <2>2. Real(Anc(par, n, j)) /\ H(Anc(par, n, j)) > 0
      BY <2>1, <1>1
    <2> QED
      BY <2>2, NodeFacts DEF Real
  <1>5. s \in Seq(Nodes) /\ Len(s) = k
    <2>1. s \in [1 .. k -> Nodes]
      BY <1>2, <1>3, <1>4
    <2> HIDE DEF s, k
    <2> QED
      BY <2>1, <1>1
  <1> HIDE DEF s
  <1>6. /\ r \in Seq(Nodes) /\ Len(r) = k
        /\ \A i \in 1 .. k : r[i] = Anc(par, n, h + i) /\ h + i \in h + 1 .. H(n)
    <2>1. r = [i \in 1 .. k |-> s[(k - i) + 1]]
      BY <1>5 DEF Reverse
    <2>2. ASSUME NEW i \in 1 .. k PROVE s[(k - i) + 1] = Anc(par, n, h + i) /\ h + i \in h + 1 .. H(n)
      <3>1. (k - i) + 1 \in 1 .. k /\ H(n) + 1 - ((k - i) + 1) = h + i /\ h + i \in h + 1 .. H(n)
        BY <1>1
      <3> QED
        BY <3>1, <1>3
    <2>3. r \in [1 .. k -> Nodes]
      BY <2>1, <2>2, <1>4
    <2> HIDE DEF r, k
    <2> QED
      BY <2>1, <2>2, <2>3, <1>1
  <1> HIDE DEF r
  <1>7. Grown(s) /\ Grown(r)
    BY <1>3, <1>4, <1>5, <1>6 DEF Grown
  <1>8. ASSUME NEW j \in h + 1 .. H(n)
        PROVE  Parent[blockOf(Anc(par, n, j))] = blockOf(Anc(par, n, j - 1))
    <2>1. j - 1 \in 0 .. H(n) - 1 /\ (j - 1) + 1 = j /\ j \in 0 .. H(n)
      BY <1>1
    <2>2. Anc(par, n, j - 1) = Up(par, Anc(par, n, j)) /\ Anc(par, n, j) \in Nodes
      BY <2>1, <1>1, AncFacts
    <2> QED
      BY <2>2, <1>1, UpFacts
  <1>9. Falls(s, blockOf(n), blockOf(Anc(par, n, h)))
    <2>1. s = <<>> => h = H(n)
      BY <1>5, <1>1
    <2>2. ASSUME s # <<>>
          PROVE  blockOf(s[1]) = blockOf(n) /\ Parent[blockOf(s[Len(s)])] = blockOf(Anc(par, n, h))
      <3>1. k # 0 /\ 1 \in 1 .. k /\ k \in 1 .. k /\ H(n) + 1 - 1 = H(n) /\ H(n) + 1 - k = h + 1
            /\ h + 1 \in h + 1 .. H(n) /\ (h + 1) - 1 = h
        BY <2>2, <1>1, <1>5, EmptySeq
      <3>2. s[1] = n /\ s[Len(s)] = Anc(par, n, h + 1)
        BY <3>1, <1>1, <1>3, <1>5
      <3> QED
        BY <3>1, <3>2, <1>8
    <2>3. ASSUME NEW i \in 1 .. Len(s) - 1 PROVE blockOf(s[i + 1]) = Parent[blockOf(s[i])]
      <3>1. /\ i \in 1 .. k /\ i + 1 \in 1 .. k /\ H(n) + 1 - i \in h + 1 .. H(n)
            /\ H(n) + 1 - (i + 1) = (H(n) + 1 - i) - 1
        BY <1>1, <1>5
      <3> QED
        BY <3>1, <1>3, <1>8
    <2> QED
      BY <2>1, <2>2, <2>3, <1>1 DEF Falls
  <1>10. Rises(r, blockOf(Anc(par, n, h)))
    <2>1. ASSUME r # <<>> PROVE Parent[blockOf(r[1])] = blockOf(Anc(par, n, h))
      <3>1. 1 \in 1 .. k /\ h + 1 \in h + 1 .. H(n) /\ (h + 1) - 1 = h
        BY <2>1, <1>1, <1>6, EmptySeq
      <3> QED
        BY <3>1, <1>6, <1>8
    <2>2. ASSUME NEW i \in 1 .. Len(r) - 1 PROVE Parent[blockOf(r[i + 1])] = blockOf(r[i])
      <3>1. /\ i \in 1 .. k /\ i + 1 \in 1 .. k /\ h + (i + 1) \in h + 1 .. H(n)
            /\ (h + (i + 1)) - 1 = h + i
        BY <1>1, <1>6
      <3> QED
        BY <3>1, <1>6, <1>8
    <2> QED
      BY <2>1, <2>2 DEF Rises
  <1> QED
    BY <1>3, <1>5, <1>6, <1>7, <1>9, <1>10 DEF s, r

\* FindFork is the highest node both branches have.
LEMMA ForkFacts ==
    ASSUME par \in RealGens, NEW t, Real(t), NEW n, Real(n)
    PROVE  LET f == FindFork(t, n) IN
           /\ Real(f) /\ H(f) \in 0 .. H(t) /\ H(f) \in 0 .. H(n)
           /\ f = Anc(par, t, H(f)) /\ f = Anc(par, n, H(f))
           /\ \A k \in View(t) \cap View(n) : H(k) <= H(f)
  <1> DEFINE V == View(t) \cap View(n)
  <1>1. /\ par \in Gens /\ n \in Nodes /\ H(n) \in Nat /\ t \in Nodes /\ H(t) \in Nat
        /\ \A j \in 0 .. H(n) : Real(Anc(par, n, j)) /\ H(Anc(par, n, j)) = j
        /\ \A j \in 0 .. H(t) : Real(Anc(par, t, j)) /\ H(Anc(par, t, j)) = j
        /\ Anc(par, n, 0) = <<Genesis, 1>> /\ Anc(par, t, 0) = <<Genesis, 1>>
    BY RealAnc
  <1>2. /\ View(n) = {Anc(par, n, j) : j \in 0 .. H(n)}
        /\ View(t) = {Anc(par, t, j) : j \in 0 .. H(t)}
    BY AncestorIs DEF View
  <1>3. <<Genesis, 1>> \in V
    <2>1. 0 \in 0 .. H(n) /\ 0 \in 0 .. H(t)
      BY <1>1
    <2> QED
      BY <2>1, <1>1, <1>2
  <1>4. \A m \in V : /\ Real(m) /\ H(m) \in 0 .. H(t) /\ H(m) \in 0 .. H(n)
                     /\ m = Anc(par, t, H(m)) /\ m = Anc(par, n, H(m))
    <2> TAKE m \in V
    <2>1. PICK j \in 0 .. H(t) : m = Anc(par, t, j)
      BY <1>2
    <2>2. PICK k \in 0 .. H(n) : m = Anc(par, n, k)
      BY <1>2
    <2> QED
      BY <2>1, <2>2, <1>1
  <1>5. \E m \in V : \A k \in V : H(k) <= H(m)
    <2> DEFINE Hs == {H(m) : m \in V}
    <2>1. Hs \in SUBSET Nat /\ Hs # {} /\ \A x \in Hs : x <= H(t)
      <3>1. \A m \in V : H(m) \in Nat /\ H(m) <= H(t)
        BY <1>1, <1>4
      <3> HIDE DEF V
      <3> QED
        BY <3>1, <1>3
    <2>2. PICK x \in Hs : \A y \in Hs : y <= x
      <3> HIDE DEF Hs
      <3> QED
        BY <2>1, <1>1, GreatestNumber
    <2> HIDE DEF V
    <2> QED
      BY <2>2
  <1>6. FindFork(t, n) \in V /\ \A k \in V : H(k) <= H(FindFork(t, n))
    BY <1>5 DEF FindFork
  <1> HIDE DEF V
  <1>7. \A k \in V : H(k) <= H(FindFork(t, n))
    BY <1>6
  <1> QED
    BY <1>4, <1>6, <1>7 DEF V

\* What getReorganizeNodes returns: a way down from the tip and up to the node,
\* or nothing.
LEMMA ReorgFacts ==
    ASSUME par \in RealGens, Real(tip), NEW n, Real(n)
    PROVE  /\ Reorg(n).detach \in Seq(Nodes) /\ Grown(Reorg(n).detach)
           /\ Reorg(n).attach \in Seq(Nodes) /\ Grown(Reorg(n).attach)
           /\ Reorg(n).mark \subseteq Nodes
           /\ \E f \in Blocks : Falls(Reorg(n).detach, blockOf(tip), f) /\ Rises(Reorg(n).attach, f)
  <1> DEFINE fork == FindFork(tip, n)
             up == Down(n, H(fork))
             bad == {i \in DOMAIN up : Invalid(up[i])}
             first == CHOOSE i \in bad : \A j \in bad : i <= j
  <1>1. /\ Real(fork) /\ H(fork) \in 0 .. H(tip) /\ H(fork) \in 0 .. H(n)
        /\ fork = Anc(par, tip, H(fork)) /\ fork = Anc(par, n, H(fork))
    BY ForkFacts
  <1>2. blockOf(fork) \in Blocks /\ blockOf(tip) \in Blocks /\ n \in Nodes
    BY <1>1, NodeFacts DEF Real
  <1> DEFINE dn == Down(tip, H(fork))
  <1>3. /\ up \in Seq(Nodes) /\ Reverse(up) \in Seq(Nodes) /\ Grown(Reverse(up))
        /\ Rises(Reverse(up), blockOf(fork))
    <2> HIDE DEF fork
    <2> QED
      BY <1>1, DownFacts
  <1>4. dn \in Seq(Nodes) /\ Grown(dn) /\ Falls(dn, blockOf(tip), blockOf(fork))
    <2> HIDE DEF fork
    <2> QED
      BY <1>1, DownFacts
  <1>5. Grown(<<>>) /\ <<>> \in Seq(Nodes) /\ Falls(<<>>, blockOf(tip), blockOf(tip))
        /\ Rises(<<>>, blockOf(tip))
    <2>1. Len(<<>>) = 0
      OBVIOUS
    <2> QED
      BY <2>1 DEF Grown, Falls, Rises
  <1>6. CASE Invalid(parentOf(n))
    <2>1. Reorg(n) = [detach |-> <<>>, attach |-> <<>>, mark |-> {n}]
      BY <1>6 DEF Reorg
    <2> QED
      BY <2>1, <1>2, <1>5
  <1>7. CASE ~Invalid(parentOf(n)) /\ bad # {}
    <2>1. Reorg(n) = [detach |-> <<>>, attach |-> <<>>, mark |-> {up[i] : i \in 1 .. first - 1}]
      BY <1>7 DEF Reorg
    <2> HIDE DEF up
    <2>2. first \in bad
      <3>1. bad \in SUBSET Nat
        BY <1>3
      <3> HIDE DEF bad
      <3> QED
        BY <3>1, <1>7, LeastNumber
    <2>3. {up[i] : i \in 1 .. first - 1} \subseteq Nodes
      <3>1. first \in 1 .. Len(up)
        BY <2>2, <1>3
      <3> HIDE DEF first
      <3>2. \A i \in 1 .. first - 1 : i \in 1 .. Len(up)
        BY <3>1, <1>3
      <3> QED
        BY <3>2, <1>3
    <2> HIDE DEF first
    <2> QED
      BY <2>1, <2>3, <1>2, <1>5
  <1>8. CASE ~Invalid(parentOf(n)) /\ bad = {}
    <2>1. Reorg(n) = [detach |-> dn, attach |-> Reverse(up), mark |-> {}]
      BY <1>8 DEF Reorg
    <2> HIDE DEF dn, up
    <2> QED
      BY <2>1, <1>2, <1>3, <1>4
  <1> QED
    BY <1>6, <1>7, <1>8

-----------------------------------------------------------------------------
(* Types and control.                                                      *)

Pcs == {"idle", "accept", "connect", "connected", "side", "reorganized", "orphans",
        "remove", "verify", "reorg", "invalidate", "branch", "rollback"}
Ops == {"none", "accept", "resume", "rollback", "invalidate", "rehome", "reconsider"}
Tasks == [pc : Pcs, op : Ops, block : Blocks, flags : SUBSET {"mined", "fast", "orphan"},
          detach : Seq(Nodes), attach : Seq(Nodes), gone : Seq(Nodes),
          queue : Seq(Blocks \cup Nodes)]

\* The flags a block is delivered with.
LEMMA GivenFacts == {} \in Given /\ Given \subseteq SUBSET {"mined", "fast"}
  BY DEF Given

\* Where a goroutine holds the lock between two actions.
Inside == {"accept", "connect", "side", "reorganized", "verify", "invalidate",
           "branch", "rollback"}

IndexOK ==
    /\ made \in [Blocks -> 0 .. MaxGen] /\ lookup \in [Blocks -> 0 .. MaxGen]
    /\ \A b \in Blocks : lookup[b] <= made[b]
    /\ made[Genesis] = 1 /\ lookup[Genesis] = 1
    /\ par \in RealGens

StateOK ==
    /\ data \subseteq Nodes /\ valid \subseteq Nodes
    /\ failed \subseteq Nodes /\ invAnc \subseteq Nodes
    /\ disk \subseteq Blocks /\ rows \subseteq Blocks /\ applied \subseteq Blocks
    /\ Real(tip) /\ Real(htip)
    /\ orphans \in Seq(Blocks) /\ Genesis \notin ToSet(orphans)
    /\ oldest \in Blocks \cup {None}
    /\ lock \in Procs \cup {None}
    /\ events \subseteq Events
    /\ commands \in Nat /\ rollbacks \in Nat
    /\ commands + rollbacks <= MaxInterventions

\* Goroutine p at t, with the block index look and the lock held by lk.
Ctl(p, t, look, lk) ==
    /\ t \in Tasks
    /\ t.pc = "idle" => t = Idle
    /\ t.pc \in Inside => lk = p
    /\ lk = p => t.pc \in Inside \cup {"orphans", "reorg"}
    /\ p = Handler => t.op \in {"none", "accept", "resume", "rollback"}
    /\ p = Rpc => t.op \in {"none", "invalidate", "rehome", "reconsider"}
    /\ t.pc \in {"accept", "connect", "connected", "side", "reorganized"} =>
            t.op \in {"accept", "resume"}
    /\ t.pc \in {"verify", "reorg"} => t.op # "none"
    /\ t.pc = "orphans" => t.op = "accept"
    /\ t.pc = "remove" => t.op = "resume"
    /\ t.pc \in {"invalidate", "rollback"} => t.op = t.pc
    /\ t.pc = "branch" => t.op = "reconsider" /\ Len(t.attach) = 1 /\ Real(t.attach[1])
    /\ t.pc # "branch" => Grown(t.attach)
    /\ Grown(t.detach) /\ Grown(t.gone)
    /\ t.op \in {"accept", "resume"} =>
            /\ t.block # Genesis
            /\ t.pc \notin {"accept", "orphans", "remove"} => look[t.block] # 0
    /\ t.op # "rollback" => t.queue \in Seq(Blocks)
    /\ t.op = "rollback" => Len(t.queue) = 1 /\ Real(t.queue[1])

Controlled == \A p \in Procs : Ctl(p, task[p], lookup, lock)
TaskDomain == task \in [Procs -> Tasks]

Typed == IndexOK /\ StateOK /\ Controlled /\ TaskDomain

LEMMA ProcFacts ==
    Procs = {Handler, Rpc} /\ Handler # Rpc /\ None \notin Procs /\ Handler \in Procs /\ Rpc \in Procs
  BY ChainAssumption DEF Procs

LEMMA KnownNode ==
    ASSUME IndexOK, NEW b \in Blocks, Known(b)
    PROVE  Real(LookupNode(b)) /\ blockOf(LookupNode(b)) = b /\ H(LookupNode(b)) = height[b]
  <1>1. lookup[b] \in 1 .. MaxGen
    BY ChainAssumption DEF IndexOK, Known
  <1>2. LookupNode(b) \in Nodes /\ blockOf(LookupNode(b)) = b
    BY <1>1 DEF LookupNode, Nodes, blockOf
  <1> QED
    BY <1>2 DEF IndexOK, LookupNode, Real, H

LEMMA IdleFacts ==
    /\ Idle \in Tasks /\ Grown(Idle.detach) /\ Grown(Idle.attach) /\ Grown(Idle.gone)
    /\ Idle.queue \in Seq(Blocks) /\ Idle.op = "none" /\ Idle.pc = "idle" /\ Idle.block = Genesis
    /\ Idle.detach = <<>> /\ Idle.attach = <<>> /\ Idle.queue = <<>> /\ Idle.gone = <<>>
  <1>1. /\ <<>> \in Seq(Nodes) /\ <<>> \in Seq(Blocks) /\ <<>> \in Seq(Blocks \cup Nodes)
        /\ Len(<<>>) = 0
    OBVIOUS
  <1>2. Grown(<<>>)
    BY <1>1 DEF Grown
  <1> QED
    BY <1>1, <1>2, ChainAssumption DEF Idle, Tasks, Pcs, Ops

LEMMA IdleCtl ==
    ASSUME NEW p \in Procs, NEW look, NEW lk, lk # p
    PROVE  Ctl(p, Idle, look, lk)
  BY IdleFacts DEF Ctl, Inside

\* A step of p: the other goroutine is not inside a section, and stays where it is.
LEMMA StepCtl ==
    ASSUME Typed, NEW p \in Procs, lock \in {None, p}, NEW t,
           task' = [task EXCEPT ![p] = t], lock' \in {None, p},
           Ctl(p, t, lookup', lock'),
           \A q \in Procs \ {p} : task[q].op \in {"accept", "resume"} =>
                lookup'[task[q].block] = lookup[task[q].block]
    PROVE  Controlled' /\ TaskDomain'
  <1>1. t \in Tasks
    BY DEF Ctl
  <1>2. task' \in [Procs -> Tasks] /\ task'[p] = t
    BY <1>1 DEF Typed, TaskDomain
  <1>3. ASSUME NEW q \in Procs \ {p} PROVE Ctl(q, task'[q], lookup', lock')
    <2>1. task'[q] = task[q]
      BY DEF Typed, TaskDomain
    <2>2. lock # q /\ lock' # q
      BY ProcFacts
    <2>3. Ctl(q, task[q], lookup, lock)
      BY DEF Typed, Controlled
    <2> QED
      BY <2>1, <2>2, <2>3 DEF Ctl
  <1> QED
    BY <1>2, <1>3 DEF Controlled, TaskDomain

\* The same where no goroutine moves and the lock stays.
LEMMA StayCtl ==
    ASSUME Typed, task' = task, lock' = lock,
           \A q \in Procs : task[q].op \in {"accept", "resume"} =>
                (lookup'[task[q].block] = lookup[task[q].block] \/ lookup'[task[q].block] # 0)
    PROVE  Controlled' /\ TaskDomain'
  <1>3. ASSUME NEW q \in Procs PROVE Ctl(q, task'[q], lookup', lock')
    <2>3. Ctl(q, task[q], lookup, lock)
      BY DEF Typed, Controlled
    <2> QED
      BY <2>3 DEF Ctl
  <1> QED
    BY <1>3 DEF Controlled, TaskDomain, Typed

LEMMA InitTyped == Init => Typed
  <1> SUFFICES ASSUME Init PROVE Typed
    OBVIOUS
  <1> USE DEF Init
  <1>1. 1 \in 1 .. MaxGen /\ 0 \in 0 .. MaxGen /\ 1 \in 0 .. MaxGen /\ Genesis \in Blocks
    BY ChainAssumption
  <1>2. made \in [Blocks -> 0 .. MaxGen] /\ made[Genesis] = 1 /\ \A b \in Blocks : made[b] <= made[b]
    BY <1>1
  <1>3. par \in RealGens
    BY <1>1 DEF RealGens, Gens, Nodes
  <1>4. Real(<<Genesis, 1>>)
    BY <1>1 DEF Real, Nodes
  <1>5. {<<Genesis, 1>>} \subseteq Nodes
    BY <1>1 DEF Nodes
  <1>6. IndexOK
    BY <1>2, <1>3 DEF IndexOK
  <1>7. StateOK
    <2>1. <<>> \in Seq(Blocks) /\ ToSet(<<>>) = {}
      BY DEF ToSet
    <2> QED
      BY <2>1, <1>1, <1>4, <1>5, ChainAssumption DEF StateOK
  <1>8. Controlled /\ TaskDomain
    BY IdleFacts, IdleCtl, ProcFacts DEF Controlled, TaskDomain
  <1> QED
    BY <1>6, <1>7, <1>8 DEF Typed

LEMMA FailCtl ==
    ASSUME Typed, NEW p \in Procs, lock \in {None, p}, task[p].pc # "branch",
           NEW r, NEW es \in SUBSET Events, Fail(p, r, es), lookup' = lookup
    PROVE  /\ Controlled' /\ TaskDomain' /\ lock' = None
           /\ disk' \subseteq disk /\ events' \subseteq Events
           /\ events \cup es \subseteq events'
           /\ task' = [task EXCEPT ![p] = task'[p]]
           /\ task'[p].pc \in {"idle", "remove"}
  <1> DEFINE t == task[p]
             u == IF t.op = "resume" /\ r THEN [t EXCEPT !.pc = "remove"] ELSE Idle
  <1>1. task' = [task EXCEPT ![p] = u] /\ lock' = None
    BY DEF Fail, Yield
  <1>2. Ctl(p, t, lookup, lock) /\ t \in Tasks
    BY DEF Typed, Controlled, TaskDomain
  <1>3. Ctl(p, u, lookup', lock')
    <2>1. CASE t.op = "resume" /\ r
      <3>1. u = [t EXCEPT !.pc = "remove"]
        BY <2>1
      <3>2. /\ u \in Tasks /\ u.pc = "remove" /\ u.op = t.op /\ u.block = t.block
            /\ u.detach = t.detach /\ u.attach = t.attach /\ u.gone = t.gone /\ u.queue = t.queue
        BY <3>1, <1>2 DEF Tasks, Pcs
      <3>3. lock' # p
        BY <1>1, ProcFacts
      <3> HIDE DEF u, t
      <3> QED
        BY <3>2, <3>3, <1>2, <2>1 DEF Ctl, Inside, t
    <2>2. CASE ~(t.op = "resume" /\ r)
      BY <2>2, <1>1, IdleCtl, ProcFacts
    <2> QED
      BY <2>1, <2>2
  <1>4. Controlled' /\ TaskDomain'
    <2> HIDE DEF u
    <2> QED
      BY <1>1, <1>3, StepCtl
  <1>5. /\ disk' \subseteq disk
        /\ events' \subseteq Events /\ events \cup es \subseteq events'
    BY DEF Fail, Happens, Events, Typed, StateOK
  <1>6. task'[p] = u /\ u.pc \in {"idle", "remove"}
    <2>1. u.pc \in {"idle", "remove"}
      BY <1>2, IdleFacts DEF Tasks
    <2>2. task'[p] = u
      <3> HIDE DEF u
      <3> QED
        BY <1>1 DEF Typed, TaskDomain
    <2> QED
      BY <2>1, <2>2
  <1> HIDE DEF u
  <1> QED
    BY <1>1, <1>4, <1>5, <1>6

\* AddNode of a block whose parent is in the index.
LEMMA AddNodeFacts ==
    ASSUME IndexOK, NEW b \in Blocks \ {Genesis}, Known(Parent[b]), ~Known(b), AddNode(b)
    PROVE  /\ IndexOK' /\ lookup'[b] = made[b] + 1 /\ lookup'[b] \in 1 .. MaxGen
           /\ \A c \in Blocks \ {b} : lookup'[c] = lookup[c] /\ made'[c] = made[c]
           /\ \A n \in Nodes : n # <<b, made[b] + 1>> => par'[n] = par[n]
           /\ par'[<<b, made[b] + 1>>] = lookup[Parent[b]]
           /\ Real(<<b, lookup'[b]>>)
  <1>1. made[b] \in 0 .. MaxGen /\ made[b] < MaxGen /\ MaxGen \in Nat
    BY ChainAssumption DEF IndexOK, AddNode
  <1>2. /\ made' = [made EXCEPT ![b] = @ + 1] /\ made'[b] = made[b] + 1
        /\ \A c \in Blocks \ {b} : made'[c] = made[c]
    BY DEF AddNode, IndexOK
  <1>3. made[b] + 1 \in 1 .. MaxGen
    BY <1>1
  <1>4. /\ lookup' = [lookup EXCEPT ![b] = made[b] + 1] /\ lookup'[b] = made[b] + 1
        /\ \A c \in Blocks \ {b} : lookup'[c] = lookup[c]
    BY <1>2 DEF AddNode, IndexOK
  <1> DEFINE m == <<b, made[b] + 1>>
  <1>5. m \in Nodes /\ blockOf(m) = b
    BY <1>3 DEF Nodes, blockOf
  <1>6. par' = [par EXCEPT ![m] = lookup[Parent[b]]]
    BY <1>2 DEF AddNode
  <1>7. Parent[b] \in Blocks /\ lookup[Parent[b]] \in 1 .. MaxGen
    <2>1. Parent[b] \in Blocks
      BY ChainAssumption
    <2>2. lookup[Parent[b]] \in 0 .. MaxGen /\ lookup[Parent[b]] # 0
      BY <2>1 DEF IndexOK, Known
    <2> QED
      BY <2>1, <2>2, <1>1
  <1> HIDE DEF m
  <1>8. /\ par \in Gens /\ par'[m] = lookup[Parent[b]] /\ par' \in Gens
        /\ \A n \in Nodes : n # m => par'[n] = par[n]
    BY <1>5, <1>6, <1>7 DEF IndexOK, RealGens, Gens
  <1>9. par' \in RealGens
    <2>1. ASSUME NEW n \in Nodes, Parent[blockOf(n)] = Genesis PROVE par'[n] = 1
      BY <2>1, <1>5, <1>8 DEF IndexOK, RealGens
    <2> QED
      BY <2>1, <1>8 DEF RealGens
  <1>10. IndexOK'
    <2>1. made' \in [Blocks -> 0 .. MaxGen]
      BY <1>2, <1>3 DEF IndexOK
    <2>2. lookup' \in [Blocks -> 0 .. MaxGen]
      BY <1>4, <1>3 DEF IndexOK
    <2>3. \A c \in Blocks : lookup'[c] <= made'[c]
      BY <1>1, <1>2, <1>4 DEF IndexOK
    <2>4. made'[Genesis] = 1 /\ lookup'[Genesis] = 1
      BY <1>2, <1>4, ChainAssumption DEF IndexOK
    <2> QED
      BY <2>1, <2>2, <2>3, <2>4, <1>9 DEF IndexOK
  <1> QED
    BY <1>2, <1>3, <1>4, <1>5, <1>8, <1>10 DEF m, Real

LEMMA AddOrphanFacts ==
    ASSUME StateOK, NEW b \in Blocks, NEW k \in 0 .. Len(orphans), addOrphanBlock(b, k)
    PROVE  /\ orphans' \in Seq(Blocks) /\ oldest' \in Blocks \cup {None}
           /\ ToSet(orphans') \subseteq ToSet(orphans) \cup {b}
           /\ ToSet(orphans) \cap disk' \subseteq ToSet(orphans')
           /\ disk' \subseteq disk \cup {b} /\ events' \subseteq Events /\ events \subseteq events'
           /\ events' \subseteq events \cup {"misfire"}
           /\ \/ "misfire" \in events'
              \/ disk \cup {b} \subseteq disk' \cup ToSet(orphans)
  <1> DEFINE expired == {orphans[i] : i \in 1 .. k}
             live == SubSeq(orphans, k + 1, Len(orphans))
             old == IF oldest = None /\ live # <<>> THEN live[1] ELSE oldest
             full == Len(live) + 1 > MaxOrphans
             out == IF full THEN {old} ELSE {}
  <1>1. /\ orphans \in Seq(Blocks) /\ Len(orphans) \in Nat
        /\ \A i \in 1 .. Len(orphans) : orphans[i] \in Blocks /\ orphans[i] \in ToSet(orphans)
    BY DEF StateOK, ToSet
  <1>2. /\ live \in Seq(Blocks) /\ Len(live) = Len(orphans) - k
        /\ \A i \in 1 .. Len(live) : live[i] = orphans[k + i] /\ k + i \in 1 .. Len(orphans)
    <2>1. \A i \in k + 1 .. Len(orphans) : orphans[i] \in Blocks
      BY <1>1
    <2>2. k + 1 \in Int /\ Len(orphans) \in Int
      BY <1>1
    <2>3. /\ live \in Seq(Blocks)
          /\ Len(live) = IF k + 1 <= Len(orphans) THEN Len(orphans) - (k + 1) + 1 ELSE 0
          /\ \A i \in 1 .. Len(orphans) - (k + 1) + 1 : live[i] = orphans[(k + 1) + i - 1]
      BY <2>1, <2>2, SubSeqProperties
    <2> HIDE DEF live
    <2>4. Len(live) = Len(orphans) - k
      BY <2>3, <1>1
    <2>5. \A i \in 1 .. Len(live) : /\ (k + 1) + i - 1 = k + i /\ k + i \in 1 .. Len(orphans)
                                    /\ i \in 1 .. Len(orphans) - (k + 1) + 1
      BY <2>4, <1>1
    <2> QED
      BY <2>3, <2>4, <2>5
  <1>3. /\ orphans' = Append(Kept(live, out), b)
        /\ oldest' = IF full THEN None ELSE old
        /\ disk' = (disk \cup {b}) \ (expired \cup out)
        /\ events' = events \cup (IF full /\ old \notin ToSet(live) THEN {"misfire"} ELSE {})
    BY DEF addOrphanBlock, Happens
  <1> HIDE DEF live
  <1>4. ToSet(live) \subseteq ToSet(orphans)
    <2>1. ASSUME NEW x \in ToSet(live) PROVE x \in ToSet(orphans)
      <3>1. PICK i \in DOMAIN live : x = live[i]
        BY DEF ToSet
      <3>2. i \in 1 .. Len(live)
        BY <1>2, <3>1
      <3> QED
        BY <1>1, <1>2, <3>1, <3>2
    <2> QED
      BY <2>1
  <1>5. Kept(live, out) \in Seq(Blocks) /\ ToSet(Kept(live, out)) = ToSet(live) \ out
    <2> HIDE DEF out
    <2> QED
      BY <1>2, KeptFacts
  <1> DEFINE r == Kept(live, out)
  <1>6. orphans' \in Seq(Blocks) /\ ToSet(orphans') = ToSet(r) \cup {b}
    <2>1. r \in Seq(Blocks)
      BY <1>5
    <2>2. orphans' = Append(r, b)
      BY <1>3
    <2> HIDE DEF r
    <2>3. /\ orphans' \in Seq(Blocks) /\ Len(orphans') = Len(r) + 1 /\ Len(r) \in Nat
          /\ \A i \in 1 .. Len(r) : orphans'[i] = r[i]
          /\ orphans'[Len(r) + 1] = b
      BY <2>1, <2>2, AppendProperties
    <2>4. DOMAIN r = 1 .. Len(r) /\ DOMAIN orphans' = (1 .. Len(r)) \cup {Len(r) + 1}
      BY <2>1, <2>3
    <2> QED
      BY <2>3, <2>4 DEF ToSet
  <1>7. oldest' \in Blocks \cup {None}
    <2>1. live # <<>> => live[1] \in Blocks
      BY <1>2
    <2> QED
      BY <2>1, <1>3 DEF StateOK
  <1>8. expired \subseteq ToSet(orphans)
    BY <1>1
  <1>10. ToSet(orphans) \subseteq ToSet(live) \cup expired
    <2> SUFFICES ASSUME NEW i \in 1 .. Len(orphans) PROVE orphans[i] \in ToSet(live) \cup expired
      BY <1>1 DEF ToSet
    <2>1. CASE i <= k
      BY <2>1
    <2>2. CASE ~(i <= k)
      <3>1. i - k \in 1 .. Len(live) /\ k + (i - k) = i
        BY <1>1, <1>2, <2>2
      <3>2. live[i - k] = orphans[i] /\ DOMAIN live = 1 .. Len(live)
        BY <1>2, <3>1
      <3> QED
        BY <3>1, <3>2 DEF ToSet
    <2> QED
      BY <2>1, <2>2
  <1>9. "misfire" \notin events' => out \subseteq ToSet(live)
    BY <1>3
  <1> HIDE DEF out, expired, r, full
  <1> QED
    BY <1>3, <1>4, <1>5, <1>6, <1>7, <1>8, <1>9, <1>10 DEF StateOK, Events, r

LEMMA TaskFacts ==
    ASSUME Typed, NEW p \in Procs
    PROVE  /\ task[p] \in Tasks /\ Ctl(p, task[p], lookup, lock)
           /\ \A t : [task EXCEPT ![p] = t][p] = t
           /\ \A t : \A q \in Procs \ {p} : [task EXCEPT ![p] = t][q] = task[q]
  BY DEF Typed, Controlled, TaskDomain

LEMMA TypedProcessOrphanBlock ==
    ASSUME Typed, NEW b \in Blocks, ProcessOrphanBlock(b) PROVE Typed'
  <1> USE DEF ProcessOrphanBlock, indexVars, flagVars, bounds
  <1>1. IndexOK'
    BY DEF Typed, IndexOK
  <1>2. StateOK'
    <2>1. PICK k \in 0 .. Len(orphans) : addOrphanBlock(b, k)
      OBVIOUS
    <2>2. /\ orphans' \in Seq(Blocks) /\ ToSet(orphans') \subseteq ToSet(orphans) \cup {b}
          /\ oldest' \in Blocks \cup {None}
          /\ disk' \subseteq disk \cup {b} /\ events' \subseteq Events
      BY <2>1, AddOrphanFacts DEF Typed
    <2> QED
      BY <2>2 DEF Typed, StateOK, Real
  <1>3. Controlled' /\ TaskDomain'
    BY StayCtl
  <1> QED
    BY <1>1, <1>2, <1>3 DEF Typed

LEMMA TypedProcessBlock ==
    ASSUME Typed, NEW b \in Blocks, NEW flags \in Given, ProcessBlock(b, flags) PROVE Typed'
  <1> USE DEF ProcessBlock, indexVars, flagVars, orphanVars, bounds
  <1> DEFINE t == [Idle EXCEPT !.pc = "accept", !.op = "accept", !.block = b,
                               !.flags = flags]
  <1>1. IndexOK'
    BY DEF Typed, IndexOK
  <1>2. StateOK'
    BY ProcFacts DEF Typed, StateOK, Real, Happens, Events, Keep
  <1>3. task' = [task EXCEPT ![Handler] = t] /\ lock' = Handler /\ lock = None
    BY DEF Keep, Begin
  <1>4. Ctl(Handler, t, lookup', lock')
    <2>1. t \in Tasks
      BY IdleFacts, GivenFacts DEF Idle, Tasks, Pcs, Ops
    <2> QED
      BY <2>1, <1>3, IdleFacts, ProcFacts DEF Ctl, Inside, Idle
  <1>5. Controlled' /\ TaskDomain'
    <2> HIDE DEF t
    <2> QED
      BY <1>3, <1>4, StepCtl, ProcFacts
  <1> QED
    BY <1>1, <1>2, <1>5 DEF Typed

LEMMA TypedResumeBlockConnect ==
    ASSUME Typed, ResumeBlockConnect PROVE Typed'
  <1> DEFINE b == blockOf(Ancestor(htip, H(tip) + 1))
  <1> DEFINE t == [Idle EXCEPT !.pc = "accept", !.op = "resume", !.block = b]
  <1>0. b \in Blocks /\ b # Genesis
    <2>1. par \in RealGens /\ Real(htip) /\ Real(tip)
      BY DEF Typed, IndexOK, StateOK
    <2>2. H(tip) \in Nat /\ H(htip) \in Nat /\ H(tip) < H(htip)
      BY <2>1, RealAnc DEF ResumeBlockConnect
    <2>3. H(tip) + 1 \in 0 .. H(htip)
      BY <2>2
    <2>4. Real(Anc(par, htip, H(tip) + 1)) /\ H(Anc(par, htip, H(tip) + 1)) = H(tip) + 1
      BY <2>1, <2>3, RealAnc
    <2>5. H(tip) + 1 > 0
      BY <2>2
    <2> QED
      BY <2>4, <2>5, AncestorIs, NodeFacts DEF Real
  <1>1. IndexOK'
    BY DEF Typed, IndexOK, ResumeBlockConnect, indexVars
  <1>3. task' = [task EXCEPT ![Handler] = t] /\ lock' = Handler /\ lock = None
    BY DEF Keep, Begin, ResumeBlockConnect
  <1>2. StateOK'
    <2>1. UNCHANGED <<indexVars, data, flagVars, disk, tip, htip, applied, orphanVars, bounds>>
      BY DEF ResumeBlockConnect
    <2>2. events' \subseteq events \cup {"bypass"}
      BY DEF ResumeBlockConnect, Happens
    <2> HIDE DEF t
    <2> QED
      BY <2>1, <2>2, <1>3, ProcFacts DEF Typed, StateOK, Real, Events, flagVars, indexVars,
            orphanVars, bounds
  <1> HIDE DEF b
  <1>4. Ctl(Handler, t, lookup', lock')
    <2>1. t \in Tasks
      BY <1>0, IdleFacts DEF Idle, Tasks, Pcs, Ops
    <2> QED
      BY <2>1, <1>0, <1>3, IdleFacts, ProcFacts DEF Ctl, Inside, Idle
  <1>5. Controlled' /\ TaskDomain'
    <2> HIDE DEF t
    <2>1. lookup' = lookup
      BY DEF ResumeBlockConnect, indexVars
    <2> QED
      BY <2>1, <1>3, <1>4, StepCtl, ProcFacts
  <1> QED
    BY <1>1, <1>2, <1>5 DEF Typed

LEMMA TypedProcessBlockHeader ==
    ASSUME Typed, NEW b \in Blocks, ProcessBlockHeader(b) PROVE Typed'
  <1> USE DEF ProcessBlockHeader
  <1> DEFINE node == <<b, lookup'[b]>>
  <1>1. /\ IndexOK' /\ Real(node)
        /\ \A c \in Blocks : lookup'[c] = lookup[c] \/ lookup'[c] # 0
    <2>1. CASE Known(b) /\ UNCHANGED <<made, lookup, par>>
      <3>1. IndexOK' /\ lookup' = lookup
        BY <2>1 DEF Typed, IndexOK
      <3>2. Real(LookupNode(b)) /\ LookupNode(b) = node
        BY <2>1, <3>1, KnownNode DEF Typed, LookupNode
      <3> QED
        BY <3>1, <3>2
    <2>2. CASE ~Known(b) /\ AddNode(b)
      <3>1. Known(Parent[b]) /\ b # Genesis /\ IndexOK
        BY DEF Links, Typed
      <3>2. /\ IndexOK' /\ lookup'[b] \in 1 .. MaxGen /\ Real(<<b, lookup'[b]>>)
            /\ \A c \in Blocks \ {b} : lookup'[c] = lookup[c]
        BY <3>1, <2>2, AddNodeFacts
      <3> QED
        BY <3>2
    <2> QED
      BY <2>1, <2>2
  <1>2. StateOK'
    <2>1. Real(htip')
      BY <1>1 DEF Typed, StateOK
    <2> HIDE DEF node
    <2>2. failed' \subseteq failed /\ invAnc' \subseteq invAnc
      OBVIOUS
    <2>3. Real(tip')
      BY DEF Typed, StateOK
    <2> QED
      BY <2>1, <2>2, <2>3 DEF Typed, StateOK, orphanVars, bounds
  <1>3. Controlled' /\ TaskDomain'
    <2>1. \A q \in Procs : task[q].block \in Blocks
      BY TaskFacts DEF Tasks
    <2> QED
      BY <1>1, <2>1, StayCtl
  <1> QED
    BY <1>1, <1>2, <1>3 DEF Typed

LEMMA TypedMaybeAcceptBlock ==
    ASSUME Typed, NEW p \in Procs, maybeAcceptBlock(p) PROVE Typed'
  <1> DEFINE t == task[p]
             b == t.block
  <1>1. /\ t \in Tasks /\ Ctl(p, t, lookup, lock) /\ t.pc = "accept" /\ lock \in {None, p}
        /\ b \in Blocks /\ b # Genesis /\ t.op \in {"accept", "resume"}
    BY TaskFacts DEF maybeAcceptBlock, At, Free, Ctl, Tasks
  <1>2. CASE rejected(b, "mined" \in t.flags) /\ Fail(p, TRUE, {}) /\ UNCHANGED <<indexVars, data>>
    <2>1. lookup' = lookup
      BY <1>2 DEF indexVars
    <2>2. Controlled' /\ TaskDomain' /\ lock' = None /\ disk' \subseteq disk /\ events' \subseteq Events
      BY <1>1, <1>2, <2>1, FailCtl
    <2>3. IndexOK'
      BY <1>2 DEF indexVars, Typed, IndexOK
    <2>4. StateOK'
      BY <1>2, <2>2 DEF Typed, StateOK, Real, indexVars, flagVars, orphanVars, bounds,
                        maybeAcceptBlock
    <2> QED
      BY <2>2, <2>3, <2>4 DEF Typed
  <1>3. CASE /\ ~rejected(b, "mined" \in t.flags)
             /\ disk' = disk \cup {b}
             /\ \/ Known(b) /\ UNCHANGED <<made, lookup, par>>
                \/ ~Known(b) /\ AddNode(b)
             /\ data' = data \cup {<<b, lookup'[b]>>}
             /\ rows' = rows \cup {c \in Blocks : lookup'[c] # 0}
             /\ Keep(p, [t EXCEPT !.pc = "connect"])
             /\ UNCHANGED events
    <2>1. /\ IndexOK' /\ <<b, lookup'[b]>> \in Nodes /\ lookup'[b] # 0
          /\ \A c \in Blocks \ {b} : lookup'[c] = lookup[c]
      <3>1. CASE Known(b) /\ UNCHANGED <<made, lookup, par>>
        <4>1. IndexOK' /\ lookup' = lookup
          BY <3>1 DEF Typed, IndexOK
        <4>2. LookupNode(b) \in Nodes
          BY <1>1, <3>1, KnownNode DEF Typed, Real
        <4> QED
          BY <4>1, <4>2, <3>1 DEF Known, LookupNode
      <3>2. CASE ~Known(b) /\ AddNode(b)
        <4>1. Known(Parent[b]) /\ IndexOK /\ b \in Blocks \ {Genesis}
          BY <1>1, <1>3 DEF rejected, Typed
        <4>2. /\ IndexOK' /\ lookup'[b] \in 1 .. MaxGen /\ Real(<<b, lookup'[b]>>)
              /\ \A c \in Blocks \ {b} : lookup'[c] = lookup[c]
          BY <4>1, <3>2, AddNodeFacts
        <4> QED
          BY <4>2 DEF Real
      <3> QED
        BY <1>3, <3>1, <3>2
    <2> DEFINE u == [t EXCEPT !.pc = "connect"]
    <2>2. task' = [task EXCEPT ![p] = u] /\ lock' = p
      BY <1>3 DEF Keep
    <2>3. Ctl(p, u, lookup', lock')
      <3>1. /\ u \in Tasks /\ u.pc = "connect" /\ u.op = t.op /\ u.block = t.block
            /\ u.detach = t.detach /\ u.attach = t.attach /\ u.gone = t.gone /\ u.queue = t.queue
        BY <1>1 DEF Tasks, Pcs
      <3> HIDE DEF u
      <3> QED
        BY <1>1, <2>1, <2>2, <3>1 DEF Ctl, Inside
    <2>4. Controlled' /\ TaskDomain'
      <3>1. ASSUME NEW q \in Procs \ {p} PROVE task[q].op \notin {"accept", "resume"}
        BY <1>1, <3>1, TaskFacts, ProcFacts DEF Ctl
      <3> HIDE DEF u
      <3> QED
        BY <1>1, <2>2, <2>3, <3>1, StepCtl
    <2>5. StateOK'
      BY <1>1, <1>3, <2>1, <2>2 DEF Typed, StateOK, Real, flagVars, orphanVars, bounds, maybeAcceptBlock
    <2> QED
      BY <2>1, <2>4, <2>5 DEF Typed
  <1> QED
    BY <1>2, <1>3 DEF maybeAcceptBlock

LEMMA TypedConnectBestChain ==
    ASSUME Typed, NEW p \in Procs, connectBestChain(p) PROVE Typed'
  <1> DEFINE t == task[p]
             b == t.block
             n == LookupNode(b)
             r == Reorg(n)
             extends == Parent[b] = blockOf(tip)
             fast == "fast" \in t.flags \/ n \in valid
  <1>1. /\ t \in Tasks /\ Ctl(p, t, lookup, lock) /\ t.pc = "connect" /\ lock \in {None, p}
        /\ b \in Blocks /\ b # Genesis /\ t.op \in {"accept", "resume"} /\ Known(b)
    BY TaskFacts DEF connectBestChain, At, Free, Ctl, Tasks, Known
  <1>2. Real(n) /\ n \in Nodes
    BY <1>1, KnownNode DEF Typed, Real
  <1>3. UNCHANGED <<indexVars, data, htip, orphanVars, bounds>>
    BY DEF connectBestChain
  <1>4. IndexOK' /\ lookup' = lookup
    BY <1>3 DEF Typed, IndexOK, indexVars
  <1>5. CASE /\ extends /\ ~fast /\ b \in Bad
             /\ failed' = failed \cup {n}
             /\ Fail(p, TRUE, {})
             /\ UNCHANGED <<valid, invAnc, tip, applied>>
    <2>1. Controlled' /\ TaskDomain' /\ lock' = None /\ disk' \subseteq disk /\ events' \subseteq Events
      BY <1>1, <1>4, <1>5, FailCtl
    <2>2. StateOK'
      BY <1>2, <1>3, <1>5, <2>1 DEF Typed, StateOK, Real, indexVars, orphanVars, bounds
    <2> QED
      BY <1>4, <2>1, <2>2 DEF Typed
  <1>6. CASE /\ extends /\ (fast \/ b \notin Bad)
             /\ valid' = IF fast THEN valid ELSE valid \cup {n}
             /\ tip' = n
             /\ applied' = applied \cup {b}
             /\ Happens(Overlap(p) \cup (IF Breaks(n) THEN {"unchecked"} ELSE {}))
             /\ Yield(p, [t EXCEPT !.pc = "connected"])
             /\ UNCHANGED <<failed, invAnc, disk>>
    <2> DEFINE u == [t EXCEPT !.pc = "connected"]
    <2>1. task' = [task EXCEPT ![p] = u] /\ lock' = None
      BY <1>6 DEF Yield
    <2>2. Ctl(p, u, lookup', lock')
      <3>1. /\ u \in Tasks /\ u.pc = "connected" /\ u.op = t.op /\ u.block = t.block
            /\ u.detach = t.detach /\ u.attach = t.attach /\ u.gone = t.gone /\ u.queue = t.queue
        BY <1>1 DEF Tasks, Pcs
      <3> HIDE DEF u
      <3> QED
        BY <1>1, <1>4, <2>1, <3>1, ProcFacts DEF Ctl, Inside
    <2>3. Controlled' /\ TaskDomain'
      <3> HIDE DEF u
      <3> QED
        BY <1>1, <1>4, <2>1, <2>2, StepCtl
    <2>4. StateOK'
      <3>1. Real(tip') /\ Real(htip')
        BY <1>2, <1>3, <1>6 DEF Typed, StateOK
      <3> QED
        BY <3>1, <1>1, <1>2, <1>3, <1>6, <2>1
           DEF Typed, StateOK, indexVars, orphanVars, bounds, Overlap, Happens, Events
    <2> QED
      BY <1>4, <2>3, <2>4 DEF Typed
  <1>7. CASE /\ ~extends /\ ~MoreWork(n)
             /\ Keep(p, [t EXCEPT !.pc = "side"])
             /\ UNCHANGED <<flagVars, disk, tip, applied, events>>
    <2> DEFINE u == [t EXCEPT !.pc = "side"]
    <2>1. task' = [task EXCEPT ![p] = u] /\ lock' = p
      BY <1>7 DEF Keep
    <2>2. Ctl(p, u, lookup', lock')
      <3>1. /\ u \in Tasks /\ u.pc = "side" /\ u.op = t.op /\ u.block = t.block
            /\ u.detach = t.detach /\ u.attach = t.attach /\ u.gone = t.gone /\ u.queue = t.queue
        BY <1>1 DEF Tasks, Pcs
      <3> HIDE DEF u
      <3> QED
        BY <1>1, <1>4, <2>1, <3>1, ProcFacts DEF Ctl, Inside
    <2>3. Controlled' /\ TaskDomain'
      <3> HIDE DEF u
      <3> QED
        BY <1>1, <1>4, <2>1, <2>2, StepCtl
    <2>4. StateOK'
      BY <1>3, <1>7, <2>1 DEF Typed, StateOK, Real, indexVars, flagVars, orphanVars, bounds
    <2> QED
      BY <1>4, <2>3, <2>4 DEF Typed
  <1>8. CASE /\ ~extends /\ MoreWork(n)
             /\ invAnc' = invAnc \cup r.mark
             /\ Keep(p, [t EXCEPT !.pc = "verify", !.detach = r.detach, !.attach = r.attach])
             /\ UNCHANGED <<valid, failed, disk, tip, applied, events>>
    <2> DEFINE u == [t EXCEPT !.pc = "verify", !.detach = r.detach, !.attach = r.attach]
    <2>1. task' = [task EXCEPT ![p] = u] /\ lock' = p
      BY <1>8 DEF Keep
    <2>0. /\ r.detach \in Seq(Nodes) /\ Grown(r.detach) /\ r.attach \in Seq(Nodes) /\ Grown(r.attach)
          /\ r.mark \subseteq Nodes
      BY <1>2, ReorgFacts DEF Typed, StateOK, IndexOK
    <2>2. Ctl(p, u, lookup', lock')
      <3> HIDE DEF r
      <3>1. /\ u \in Tasks /\ u.pc = "verify" /\ u.op = t.op /\ u.block = t.block
            /\ u.detach = r.detach /\ u.attach = r.attach /\ u.gone = t.gone /\ u.queue = t.queue
        BY <1>1, <2>0 DEF Tasks, Pcs
      <3> HIDE DEF u
      <3> QED
        BY <1>1, <1>4, <2>0, <2>1, <3>1, ProcFacts DEF Ctl, Inside
    <2>3. Controlled' /\ TaskDomain'
      <3> HIDE DEF u
      <3> QED
        BY <1>1, <1>4, <2>1, <2>2, StepCtl
    <2>4. StateOK'
      <3> HIDE DEF r, u
      <3> QED
        BY <1>3, <1>8, <2>0, <2>1 DEF Typed, StateOK, Real, indexVars, flagVars, orphanVars, bounds
    <2> QED
      BY <1>4, <2>3, <2>4 DEF Typed
  <1> QED
    BY <1>5, <1>6, <1>7, <1>8 DEF connectBestChain

LEMMA TypedFinishAccept ==
    ASSUME Typed, NEW p \in Procs, finishAccept(p) PROVE Typed'
  <1> DEFINE t == task[p]
             n == LookupNode(t.block)
             u == IF t.op = "resume" THEN Idle ELSE [t EXCEPT !.pc = "orphans", !.queue = Queued(t)]
  <1>1. /\ t \in Tasks /\ Ctl(p, t, lookup, lock) /\ t.pc \in {"connected", "side", "reorganized"}
        /\ lock \in {None, p} /\ t.block \in Blocks /\ t.block # Genesis
        /\ t.op \in {"accept", "resume"} /\ Known(t.block)
    BY TaskFacts DEF finishAccept, At, Free, Ctl, Tasks, Known
  <1>2. Real(n) /\ n \in Nodes
    BY <1>1, KnownNode DEF Typed, Real
  <1>3. /\ UNCHANGED <<made, lookup, par, data, failed, disk, tip, applied, orphanVars, bounds, events>>
        /\ task' = [task EXCEPT ![p] = u] /\ lock' = None
    BY DEF finishAccept, Yield
  <1>4. IndexOK'
    BY <1>3 DEF Typed, IndexOK
  <1>5. StateOK'
    <2>1. Real(htip') /\ Real(tip')
      BY <1>2, <1>3 DEF finishAccept, HeaderTip, Typed, StateOK
    <2>2. valid' \subseteq valid \cup {n} /\ invAnc' \subseteq invAnc /\ rows' \subseteq rows \cup Blocks
      BY DEF finishAccept
    <2> QED
      BY <1>2, <1>3, <2>1, <2>2 DEF Typed, StateOK, orphanVars, bounds
  <1>6. Ctl(p, u, lookup', lock')
    <2>1. CASE t.op = "resume"
      BY <2>1, <1>3, IdleCtl, ProcFacts
    <2>2. CASE t.op = "accept"
      <3>1. Queued(t) \in Seq(Blocks) /\ Queued(t) \in Seq(Blocks \cup Nodes)
        BY <1>1, <2>2, AppendProperties DEF Queued, Ctl
      <3>2. /\ u \in Tasks /\ u.pc = "orphans" /\ u.op = t.op /\ u.block = t.block
            /\ u.detach = t.detach /\ u.attach = t.attach /\ u.gone = t.gone /\ u.queue = Queued(t)
        BY <1>1, <2>2, <3>1 DEF Tasks, Pcs
      <3> HIDE DEF u
      <3> QED
        BY <1>1, <1>3, <2>2, <3>1, <3>2, ProcFacts DEF Ctl, Inside
    <2> QED
      BY <2>1, <2>2, <1>1
  <1>7. Controlled' /\ TaskDomain'
    <2> HIDE DEF u
    <2> QED
      BY <1>1, <1>3, <1>6, StepCtl
  <1> QED
    BY <1>4, <1>5, <1>7 DEF Typed

LEMMA TypedProcessOrphans ==
    ASSUME Typed, NEW p \in Procs, processOrphans(p) PROVE Typed'
  <1> DEFINE t == task[p]
             q == t.queue[1]
             kids == Kept(orphans, {o \in Blocks : Parent[o] # q})
  <1>1. /\ t \in Tasks /\ Ctl(p, t, lookup, lock) /\ t.pc = "orphans"
        /\ lock \in {None, p} /\ t.block \in Blocks /\ t.op = "accept" /\ t.queue \in Seq(Blocks)
    BY TaskFacts DEF processOrphans, At, Free, Ctl, Tasks
  <1>2. UNCHANGED <<indexVars, data, flagVars, disk, tip, htip, applied, oldest, bounds, events>>
    BY DEF processOrphans
  <1>3. IndexOK' /\ lookup' = lookup
    BY <1>2 DEF Typed, IndexOK, indexVars
  <1>4. orphans \in Seq(Blocks)
    BY DEF Typed, StateOK
  <1>5. CASE /\ t.queue # <<>> /\ kids # <<>>
             /\ orphans' = Kept(orphans, {kids[1]})
             /\ Keep(p, [t EXCEPT !.pc = "accept", !.block = kids[1],
                               !.flags = @ \cup {"orphan"}])
    <2> DEFINE u == [t EXCEPT !.pc = "accept", !.block = kids[1], !.flags = @ \cup {"orphan"}]
    <2>0. q \in Blocks
      <3>1. Len(t.queue) \in Nat \ {0}
        BY <1>1, <1>5, EmptySeq
      <3> QED
        BY <3>1, <1>1
    <2>1. kids \in Seq(Blocks) /\ ToSet(kids) = ToSet(orphans) \ {o \in Blocks : Parent[o] # q}
      BY <1>4, KeptFacts
    <2>2. orphans' \in Seq(Blocks)
      BY <1>4, <1>5, KeptFacts
    <2>3. kids[1] \in Blocks /\ Parent[kids[1]] = q /\ kids[1] \in ToSet(orphans)
      <3> HIDE DEF kids
      <3>1. Len(kids) \in Nat \ {0}
        BY <2>1, <1>5, EmptySeq
      <3>2. 1 \in DOMAIN kids
        BY <3>1, <2>1
      <3>3. kids[1] \in ToSet(kids) /\ kids[1] \in Blocks
        BY <3>2, <2>1 DEF ToSet
      <3> QED
        BY <3>3, <2>1
    <2>4. kids[1] # Genesis /\ Genesis \notin ToSet(orphans')
      <3> HIDE DEF kids
      <3>1. ToSet(orphans') = ToSet(orphans) \ {kids[1]}
        BY <1>4, <1>5, KeptFacts
      <3> QED
        BY <3>1, <2>3 DEF Typed, StateOK
    <2> HIDE DEF kids
    <2>5. task' = [task EXCEPT ![p] = u] /\ lock' = p
      BY <1>5 DEF Keep
    <2>6. Ctl(p, u, lookup', lock')
      <3>2. /\ u \in Tasks /\ u.pc = "accept" /\ u.op = t.op /\ u.block = kids[1]
            /\ u.detach = t.detach /\ u.attach = t.attach /\ u.gone = t.gone /\ u.queue = t.queue
        BY <1>1, <2>3 DEF Tasks, Pcs
      <3> HIDE DEF u
      <3> QED
        BY <1>1, <2>4, <2>5, <3>2, ProcFacts DEF Ctl, Inside
    <2>7. Controlled' /\ TaskDomain'
      <3> HIDE DEF u
      <3> QED
        BY <1>1, <1>3, <2>5, <2>6, StepCtl
    <2>8. StateOK'
      BY <1>2, <2>2, <2>4, <2>5 DEF Typed, StateOK, Real, indexVars, flagVars, bounds
    <2> QED
      BY <1>3, <2>7, <2>8 DEF Typed
  <1>6. CASE t.queue # <<>> /\ kids = <<>> /\ Keep(p, [t EXCEPT !.queue = Tail(@)]) /\ UNCHANGED orphans
    <2> DEFINE u == [t EXCEPT !.queue = Tail(@)]
    <2>5. task' = [task EXCEPT ![p] = u] /\ lock' = p
      BY <1>6 DEF Keep
    <2>6. Ctl(p, u, lookup', lock')
      <3>1. Tail(t.queue) \in Seq(Blocks) /\ Tail(t.queue) \in Seq(Blocks \cup Nodes)
        <4>1. Tail(t.queue) \in Seq(Blocks)
          BY <1>1, <1>6, HeadTailProperties
        <4> QED
          BY <4>1, SeqMonotonic
      <3>2. /\ u \in Tasks /\ u.pc = "orphans" /\ u.op = t.op /\ u.block = t.block
            /\ u.detach = t.detach /\ u.attach = t.attach /\ u.gone = t.gone /\ u.queue = Tail(t.queue)
        BY <1>1, <3>1 DEF Tasks, Pcs
      <3> HIDE DEF u
      <3> QED
        BY <1>1, <2>5, <3>1, <3>2, ProcFacts DEF Ctl, Inside
    <2>7. Controlled' /\ TaskDomain'
      <3> HIDE DEF u
      <3> QED
        BY <1>1, <1>3, <2>5, <2>6, StepCtl
    <2>8. StateOK'
      BY <1>2, <1>6, <2>5 DEF Typed, StateOK, Real, indexVars, flagVars, bounds
    <2> QED
      BY <1>3, <2>7, <2>8 DEF Typed
  <1>7. CASE t.queue = <<>> /\ Yield(p, Idle) /\ UNCHANGED orphans
    <2>5. task' = [task EXCEPT ![p] = Idle] /\ lock' = None
      BY <1>7 DEF Yield
    <2>7. Controlled' /\ TaskDomain'
      <3>1. Ctl(p, Idle, lookup', lock')
        BY <2>5, IdleCtl, ProcFacts
      <3> QED
        BY <1>1, <1>3, <2>5, <3>1, StepCtl
    <2>8. StateOK'
      BY <1>2, <1>7, <2>5 DEF Typed, StateOK, Real, indexVars, flagVars, bounds
    <2> QED
      BY <1>3, <2>7, <2>8 DEF Typed
  <1> QED
    BY <1>5, <1>6, <1>7 DEF processOrphans

LEMMA TypedRemoveBlockData ==
    ASSUME Typed, NEW p \in Procs, RemoveBlockData(p) PROVE Typed'
  <1> USE DEF RemoveBlockData, flagVars, orphanVars, bounds
  <1>1. task[p].pc = "remove" /\ Ctl(p, task[p], lookup, lock) /\ lock # p
    BY TaskFacts DEF Ctl, Inside
  <1>2. task' = [task EXCEPT ![p] = Idle] /\ lock' = lock /\ lookup' = lookup
    OBVIOUS
  <1>3. Controlled' /\ TaskDomain'
    <2>1. ASSUME NEW q \in Procs PROVE Ctl(q, task'[q], lookup', lock')
      <3>1. CASE q = p
        <4>1. task'[q] = Idle
          BY <3>1, <1>2, TaskFacts
        <4> QED
          BY <4>1, <3>1, <1>1, <1>2, IdleCtl
      <3>2. CASE q # p
        BY <3>2, <1>2, TaskFacts
      <3> QED
        BY <3>1, <3>2
    <2> QED
      BY <2>1, <1>2, IdleFacts DEF Controlled, TaskDomain, Typed
  <1>4. IndexOK' /\ StateOK'
    BY DEF Typed, IndexOK, StateOK, Real
  <1> QED
    BY <1>3, <1>4 DEF Typed

LEMMA TypedVerify ==
    ASSUME Typed, NEW p \in Procs, verifyReorganizationValidity(p) PROVE Typed'
  <1> DEFINE t == task[p]
        lacking == {i \in DOMAIN t.attach : blockOf(t.attach[i]) \notin disk}
        wrong == {i \in DOMAIN t.attach : Breaks(t.attach[i])}
        stop == CHOOSE i \in lacking \cup wrong : \A j \in lacking \cup wrong : i <= j
        below(i) == {t.attach[j] : j \in 1 .. i - 1}
        above(i) == {t.attach[j] : j \in i + 1 .. Len(t.attach)}
        notTip == t.detach # <<>> /\ blockOf(t.detach[1]) # blockOf(tip)
        noPayload == \E i \in DOMAIN t.detach : blockOf(t.detach[i]) \notin disk
  <1>1. /\ t \in Tasks /\ Ctl(p, t, lookup, lock) /\ t.pc = "verify" /\ t.op # "none"
        /\ lock \in {None, p} /\ t.attach \in Seq(Nodes) /\ t.detach \in Seq(Nodes)
        /\ Grown(t.attach) /\ Grown(t.detach)
        /\ t.op \in {"accept", "resume"} => Known(t.block)
    BY TaskFacts DEF verifyReorganizationValidity, At, Free, Ctl, Tasks, Known
  <1>2. UNCHANGED <<indexVars, data, tip, htip, applied, orphanVars, bounds>>
    BY DEF verifyReorganizationValidity
  <1>3. IndexOK' /\ lookup' = lookup
    BY <1>2 DEF Typed, IndexOK, indexVars
  <1>4. CASE /\ notTip \/ noPayload
             /\ Fail(p, FALSE, IF notTip THEN {"assert"} ELSE {})
             /\ UNCHANGED flagVars
    <2>0. (IF notTip THEN {"assert"} ELSE {}) \in SUBSET Events
      BY DEF Events
    <2>1. Controlled' /\ TaskDomain' /\ lock' = None /\ disk' \subseteq disk /\ events' \subseteq Events
      BY <1>1, <1>3, <1>4, <2>0, FailCtl
    <2>2. StateOK'
      BY <1>2, <1>4, <2>1 DEF Typed, StateOK, Real, indexVars, flagVars, orphanVars, bounds
    <2> QED
      BY <1>3, <2>1, <2>2 DEF Typed
  <1>5. CASE /\ ~notTip /\ ~noPayload /\ lacking \cup wrong # {}
             /\ valid' = valid \cup below(stop)
             /\ failed' = IF stop \in lacking THEN failed ELSE failed \cup {t.attach[stop]}
             /\ invAnc' = IF stop \in lacking THEN invAnc ELSE invAnc \cup above(stop)
             /\ Fail(p, stop \notin lacking, {})
    <2>1. Controlled' /\ TaskDomain' /\ lock' = None /\ disk' \subseteq disk /\ events' \subseteq Events
      BY <1>1, <1>3, <1>5, FailCtl
    <2>2. stop \in 1 .. Len(t.attach)
      <3>1. lacking \cup wrong \in SUBSET Nat /\ lacking \cup wrong \subseteq 1 .. Len(t.attach)
        BY <1>1
      <3>2. stop \in lacking \cup wrong
        <4> HIDE DEF lacking, wrong
        <4> QED
          BY <3>1, <1>5, LeastNumber
      <3> HIDE DEF stop, lacking, wrong
      <3> QED
        BY <3>1, <3>2
    <2>3. below(stop) \subseteq Nodes /\ above(stop) \subseteq Nodes /\ t.attach[stop] \in Nodes
      <3> HIDE DEF stop
      <3>1. \A j \in 1 .. Len(t.attach) : t.attach[j] \in Nodes
        BY <1>1
      <3>2. \A j \in 1 .. stop - 1 : j \in 1 .. Len(t.attach)
        BY <2>2, <1>1
      <3>3. \A j \in stop + 1 .. Len(t.attach) : j \in 1 .. Len(t.attach)
        BY <2>2, <1>1
      <3> QED
        BY <3>1, <3>2, <3>3, <2>2
    <2>4. StateOK'
      <3> HIDE DEF stop, below, above, lacking
      <3>1. valid' \subseteq Nodes /\ failed' \subseteq Nodes /\ invAnc' \subseteq Nodes
        BY <1>5, <2>3 DEF Typed, StateOK
      <3> QED
        BY <1>2, <2>1, <3>1 DEF Typed, StateOK, Real, indexVars, orphanVars, bounds
    <2> QED
      BY <1>3, <2>1, <2>4 DEF Typed
  <1>6. CASE /\ ~notTip /\ ~noPayload /\ lacking \cup wrong = {}
             /\ valid' = valid \cup ToSet(t.attach)
             /\ Keep(p, [t EXCEPT !.pc = "reorg"])
             /\ UNCHANGED <<failed, invAnc, disk, events>>
    <2> DEFINE u == [t EXCEPT !.pc = "reorg"]
    <2>1. task' = [task EXCEPT ![p] = u] /\ lock' = p
      BY <1>6 DEF Keep
    <2>2. Ctl(p, u, lookup', lock')
      <3>1. /\ u \in Tasks /\ u.pc = "reorg" /\ u.op = t.op /\ u.block = t.block
            /\ u.detach = t.detach /\ u.attach = t.attach /\ u.gone = t.gone /\ u.queue = t.queue
        BY <1>1 DEF Tasks, Pcs
      <3> HIDE DEF u
      <3> QED
        BY <1>1, <1>3, <2>1, <3>1, ProcFacts DEF Ctl, Inside, Known
    <2>3. Controlled' /\ TaskDomain'
      <3> HIDE DEF u
      <3> QED
        BY <1>1, <1>3, <2>1, <2>2, StepCtl
    <2>4. StateOK'
      <3>1. ToSet(t.attach) \subseteq Nodes
        BY <1>1 DEF ToSet
      <3> QED
        BY <3>1, <1>2, <1>6, <2>1 DEF Typed, StateOK, Real, indexVars, orphanVars, bounds
    <2> QED
      BY <1>3, <2>3, <2>4 DEF Typed
  <1> QED
    BY <1>4, <1>5, <1>6 DEF verifyReorganizationValidity

LEMMA ViewFacts ==
    ASSUME par \in RealGens, NEW n, Real(n)
    PROVE  /\ View(n) = {Anc(par, n, h) : h \in 0 .. H(n)}
           /\ \A m \in View(n) : /\ Real(m) /\ m \in Nodes /\ H(m) \in 0 .. H(n)
                                 /\ m = Anc(par, n, H(m))
           /\ n \in View(n) /\ <<Genesis, 1>> \in View(n)
           /\ {blockOf(m) : m \in View(n)} = Line(blockOf(n))
  <1>1. /\ par \in Gens /\ n \in Nodes /\ H(n) \in Nat
        /\ \A h \in 0 .. H(n) : Real(Anc(par, n, h)) /\ H(Anc(par, n, h)) = h
        /\ Anc(par, n, 0) = <<Genesis, 1>> /\ Anc(par, n, H(n)) = n
    BY RealAnc, AncFacts
  <1>2. View(n) = {Anc(par, n, h) : h \in 0 .. H(n)}
    BY AncestorIs DEF View
  <1>3. ASSUME NEW m \in View(n)
        PROVE  Real(m) /\ m \in Nodes /\ H(m) \in 0 .. H(n) /\ m = Anc(par, n, H(m))
    BY <1>1, <1>2 DEF Real
  <1>4. n \in View(n) /\ <<Genesis, 1>> \in View(n)
    <2>1. 0 \in 0 .. H(n) /\ H(n) \in 0 .. H(n)
      BY <1>1
    <2> QED
      BY <2>1, <1>1, <1>2
  <1>5. {blockOf(m) : m \in View(n)} = Line(blockOf(n))
    <2>1. Line(blockOf(n)) = {blockOf(Anc(par, n, h)) : h \in 0 .. H(n)}
      BY <1>1, ViewLine
    <2> QED
      BY <2>1, <1>2
  <1> QED
    BY <1>2, <1>3, <1>4, <1>5

LEMMA GrownSet ==
    ASSUME NEW s \in Seq(Nodes)
    PROVE  Grown(s) <=> \A n \in ToSet(s) : Real(n) /\ blockOf(n) # Genesis
  BY DEF Grown, ToSet

LEMMA InactiveFacts ==
    ASSUME IndexOK, NEW t \in InactiveTips
    PROVE  /\ Real(t) /\ t \notin View(tip)
           /\ \E b \in Blocks : Known(b) /\ t = LookupNode(b)
  BY KnownNode DEF InactiveTips

LEMMA TypedDisconnectBlock ==
    ASSUME Typed, NEW p \in Procs, disconnectBlock(p) PROVE Typed'
  <1> DEFINE t == task[p]
             n == t.detach[1]
             prev == parentOf(n)
  <1>1. /\ t \in Tasks /\ Ctl(p, t, lookup, lock) /\ t.pc = "reorg" /\ t.detach # <<>>
        /\ lock \in {None, p} /\ t.detach \in Seq(Nodes) /\ Grown(t.detach)
    BY TaskFacts DEF disconnectBlock, At, Free, Ctl, Tasks
  <1>2. UNCHANGED <<made, lookup, par, data, flagVars, htip, orphanVars, bounds>>
    BY DEF disconnectBlock
  <1>3. IndexOK' /\ lookup' = lookup
    BY <1>2 DEF Typed, IndexOK
  <1>4. CASE /\ blockOf(n) # blockOf(tip) \/ blockOf(prev) \notin disk
             /\ Fail(p, FALSE, IF blockOf(n) # blockOf(tip) THEN {"assert"} ELSE {})
             /\ UNCHANGED <<tip, applied, rows>>
    <2>0. (IF blockOf(n) # blockOf(tip) THEN {"assert"} ELSE {}) \in SUBSET Events
      BY DEF Events
    <2>1. Controlled' /\ TaskDomain' /\ lock' = None /\ disk' \subseteq disk /\ events' \subseteq Events
      BY <1>1, <1>3, <1>4, <2>0, FailCtl
    <2>2. StateOK'
      BY <1>2, <1>4, <2>1 DEF Typed, StateOK, Real, flagVars, orphanVars, bounds
    <2> QED
      BY <1>3, <2>1, <2>2 DEF Typed
  <1>5. CASE /\ blockOf(n) = blockOf(tip) /\ blockOf(prev) \in disk
             /\ tip' = prev
             /\ applied' = Undo(n)
             /\ rows' = (rows \cup {b \in Blocks : Known(b)}) \ {blockOf(n)}
             /\ Overlaps(p)
             /\ Yield(p, [t EXCEPT !.detach = Tail(@)])
             /\ UNCHANGED disk
    <2> DEFINE u == [t EXCEPT !.detach = Tail(@)]
    <2>1. task' = [task EXCEPT ![p] = u] /\ lock' = None
      BY <1>5 DEF Yield
    <2>2. Ctl(p, u, lookup', lock')
      <3>0. Tail(t.detach) \in Seq(Nodes) /\ Grown(Tail(t.detach))
        BY <1>1, TailFacts
      <3>1. /\ u \in Tasks /\ u.pc = "reorg" /\ u.op = t.op /\ u.block = t.block
            /\ u.detach = Tail(t.detach) /\ u.attach = t.attach /\ u.gone = t.gone /\ u.queue = t.queue
        BY <1>1, <3>0 DEF Tasks, Pcs
      <3> HIDE DEF u
      <3> QED
        BY <1>1, <1>3, <2>1, <3>0, <3>1, ProcFacts DEF Ctl, Inside
    <2>3. Controlled' /\ TaskDomain'
      <3> HIDE DEF u
      <3> QED
        BY <1>1, <1>3, <2>1, <2>2, StepCtl
    <2>4. Real(tip')
      <3>1. n \in Nodes
        BY <1>1, EmptySeq
      <3>2. prev = Up(par, n) /\ par \in RealGens
        BY DEF parentOf, Up, Typed, IndexOK
      <3> QED
        BY <1>5, <3>1, <3>2, RealUp
    <2>5. StateOK'
      <3>1. applied' \subseteq applied /\ rows' \subseteq rows \cup Blocks
        BY <1>5 DEF Undo
      <3>2. events' \subseteq events \cup {"overlap"}
        BY <1>5 DEF Overlaps, Overlap, Happens
      <3>3. Real(htip')
        BY <1>2 DEF Typed, StateOK
      <3> HIDE DEF u, n, t
      <3> QED
        BY <1>2, <1>5, <2>1, <2>4, <3>1, <3>2, <3>3
           DEF Typed, StateOK, flagVars, orphanVars, bounds, Events
    <2> QED
      BY <1>3, <2>3, <2>5 DEF Typed
  <1> QED
    BY <1>4, <1>5 DEF disconnectBlock

LEMMA TypedConnectBlock ==
    ASSUME Typed, NEW p \in Procs, connectBlock(p) PROVE Typed'
  <1> DEFINE t == task[p]
             n == t.attach[1]
  <1>1. /\ t \in Tasks /\ Ctl(p, t, lookup, lock) /\ t.pc = "reorg" /\ t.attach # <<>>
        /\ lock \in {None, p} /\ t.attach \in Seq(Nodes) /\ Grown(t.attach)
    BY TaskFacts DEF connectBlock, At, Free, Ctl, Tasks
  <1>2. UNCHANGED <<indexVars, data, flagVars, htip, orphanVars, bounds>>
    BY DEF connectBlock
  <1>3. IndexOK' /\ lookup' = lookup
    BY <1>2 DEF Typed, IndexOK, indexVars
  <1>4. Real(n) /\ blockOf(n) \in Blocks
    <2>1. 1 \in 1 .. Len(t.attach)
      BY <1>1, EmptySeq
    <2> QED
      BY <2>1, <1>1, NodeFacts DEF Grown, Real
  <1>5. CASE /\ Parent[blockOf(n)] # blockOf(tip)
             /\ Fail(p, FALSE, {"assert"})
             /\ applied' \in {applied, applied \cup {blockOf(n)}}
             /\ UNCHANGED tip
    <2>1. Controlled' /\ TaskDomain' /\ lock' = None /\ disk' \subseteq disk /\ events' \subseteq Events
      <3>1. {"assert"} \in SUBSET Events
        BY DEF Events
      <3> QED
        BY <1>1, <1>3, <1>5, <3>1, FailCtl
    <2>2. StateOK'
      <3> HIDE DEF n
      <3> QED
        BY <1>2, <1>4, <1>5, <2>1 DEF Typed, StateOK, Real, indexVars, flagVars, orphanVars, bounds
    <2> QED
      BY <1>3, <2>1, <2>2 DEF Typed
  <1>6. CASE /\ Parent[blockOf(n)] = blockOf(tip)
             /\ tip' = n
             /\ applied' = applied \cup {blockOf(n)}
             /\ Overlaps(p)
             /\ Yield(p, [t EXCEPT !.attach = Tail(@)])
             /\ UNCHANGED disk
    <2> DEFINE u == [t EXCEPT !.attach = Tail(@)]
    <2>1. task' = [task EXCEPT ![p] = u] /\ lock' = None
      BY <1>6 DEF Yield
    <2>2. Ctl(p, u, lookup', lock')
      <3>0. Tail(t.attach) \in Seq(Nodes) /\ Grown(Tail(t.attach))
        BY <1>1, TailFacts
      <3>1. /\ u \in Tasks /\ u.pc = "reorg" /\ u.op = t.op /\ u.block = t.block
            /\ u.detach = t.detach /\ u.attach = Tail(t.attach) /\ u.gone = t.gone /\ u.queue = t.queue
        BY <1>1, <3>0 DEF Tasks, Pcs
      <3> HIDE DEF u
      <3> QED
        BY <1>1, <1>3, <2>1, <3>0, <3>1, ProcFacts DEF Ctl, Inside
    <2>3. Controlled' /\ TaskDomain'
      <3> HIDE DEF u
      <3> QED
        BY <1>1, <1>3, <2>1, <2>2, StepCtl
    <2>5. StateOK'
      <3>1. applied' \subseteq Blocks
        BY <1>4, <1>6 DEF Typed, StateOK
      <3>2. events' \subseteq events \cup {"overlap"}
        BY <1>6 DEF Overlaps, Overlap, Happens
      <3>3. Real(htip') /\ Real(tip')
        BY <1>2, <1>4, <1>6 DEF Typed, StateOK
      <3> HIDE DEF u, n, t
      <3> QED
        BY <1>2, <1>6, <2>1, <3>1, <3>2, <3>3
           DEF Typed, StateOK, indexVars, flagVars, orphanVars, bounds, Events
    <2> QED
      BY <1>3, <2>3, <2>5 DEF Typed
  <1> QED
    BY <1>5, <1>6 DEF connectBlock

LEMMA TypedEndReorganize ==
    ASSUME Typed, NEW p \in Procs, endReorganize(p) PROVE Typed'
  <1> DEFINE t == task[p]
  <1>1. /\ t \in Tasks /\ Ctl(p, t, lookup, lock) /\ t.pc = "reorg" /\ lock \in {None, p}
    BY TaskFacts DEF endReorganize, At, Free, Tasks
  <1>2. UNCHANGED <<indexVars, data, flagVars, disk, tip, htip, applied, orphanVars, bounds, events>>
    BY DEF endReorganize
  <1>3. IndexOK' /\ lookup' = lookup
    BY <1>2 DEF Typed, IndexOK, indexVars
  <1>4. \E u : /\ task' = [task EXCEPT ![p] = u] /\ lock' \in {None, p} /\ Ctl(p, u, lookup', lock')
    <2>1. ASSUME t.op \in {"accept", "resume"}, Keep(p, [t EXCEPT !.pc = "reorganized"]) PROVE <1>4
      <3> DEFINE u == [t EXCEPT !.pc = "reorganized"]
      <3>1. /\ u \in Tasks /\ u.pc = "reorganized" /\ u.op = t.op /\ u.block = t.block
            /\ u.detach = t.detach /\ u.attach = t.attach /\ u.gone = t.gone /\ u.queue = t.queue
        BY <1>1 DEF Tasks, Pcs
      <3>2. task' = [task EXCEPT ![p] = u] /\ lock' = p
        BY <2>1 DEF Keep
      <3> HIDE DEF u
      <3>3. Ctl(p, u, lookup', lock')
        BY <1>1, <1>3, <2>1, <3>1, <3>2, ProcFacts DEF Ctl, Inside
      <3> QED
        BY <3>2, <3>3
    <2>2. ASSUME t.op \in {"invalidate", "rollback"}, Keep(p, [t EXCEPT !.pc = t.op]) PROVE <1>4
      <3> DEFINE u == [t EXCEPT !.pc = t.op]
      <3>1. /\ u \in Tasks /\ u.pc = t.op /\ u.op = t.op /\ u.block = t.block
            /\ u.detach = t.detach /\ u.attach = t.attach /\ u.gone = t.gone /\ u.queue = t.queue
        BY <1>1, <2>2 DEF Tasks, Pcs
      <3>2. task' = [task EXCEPT ![p] = u] /\ lock' = p
        BY <2>2 DEF Keep
      <3> HIDE DEF u
      <3>3. Ctl(p, u, lookup', lock')
        BY <1>1, <1>3, <2>2, <3>1, <3>2, ProcFacts DEF Ctl, Inside
      <3> QED
        BY <3>2, <3>3
    <2>3. ASSUME Yield(p, Idle) PROVE <1>4
      BY <2>3, IdleCtl, ProcFacts DEF Yield
    <2> QED
      BY <2>1, <2>2, <2>3 DEF endReorganize
  <1>5. Controlled' /\ TaskDomain' /\ lock' \in Procs \cup {None}
    BY <1>1, <1>3, <1>4, StepCtl
  <1>6. StateOK'
    BY <1>2, <1>5 DEF Typed, StateOK, Real, indexVars, flagVars, orphanVars, bounds
  <1> QED
    BY <1>3, <1>5, <1>6 DEF Typed

LEMMA BetweenFacts ==
    ASSUME par \in RealGens, NEW t, Real(t), NEW n
    PROVE  Between(t, n) \subseteq View(t) /\ Between(t, n) \subseteq Nodes
  BY ViewFacts DEF Between

LEMMA TypedInvalidateBlock ==
    ASSUME Typed, NEW b \in Blocks, InvalidateBlock(b) PROVE Typed'
  <1> DEFINE n == LookupNode(b)
             branches == {t \in InactiveTips : IsAncestor(t, n)}
             marked == {m \in UNION {Between(t, n) : t \in branches} : ~Invalid(m)}
             onChain == {m \in Between(tip, n) : ~Invalid(m)}
             doomed == Kept(Down(tip, H(n)), failed \cup invAnc)
  <1>0. IndexOK /\ StateOK /\ par \in RealGens /\ Real(tip)
    BY DEF Typed, IndexOK, StateOK
  <1>1. /\ lock = None /\ commands + rollbacks < MaxInterventions
        /\ b # Genesis /\ Known(b) /\ commands' = commands + 1 /\ failed' = failed \cup {n}
        /\ UNCHANGED <<made, lookup, par, data, disk, tip, htip, applied, orphanVars, rollbacks, events>>
    BY DEF InvalidateBlock, Begin
  <1>2. Real(n) /\ n \in Nodes /\ blockOf(n) = b
    BY <1>0, <1>1, KnownNode DEF Real
  <1>3. IndexOK'
    BY <1>0, <1>1 DEF IndexOK
  <1>4. ASSUME marked \subseteq Nodes, onChain \subseteq Nodes,
               rows' \subseteq rows \cup Blocks, lock' \in Procs \cup {None},
               invAnc' \subseteq invAnc \cup marked \cup onChain, valid' \subseteq valid
        PROVE  StateOK'
    <2> HIDE DEF n, branches, marked, onChain, doomed
    <2>1. commands' \in Nat /\ commands' + rollbacks' <= MaxInterventions
      BY <1>0, <1>1, ChainAssumption DEF StateOK
    <2> QED
      BY <1>0, <1>1, <1>2, <1>4, <2>1 DEF StateOK, Real, orphanVars
  <1>5. marked \subseteq Nodes /\ onChain \subseteq Nodes
    <2>1. \A t \in branches : Between(t, n) \subseteq Nodes
      BY <1>0, InactiveFacts, BetweenFacts
    <2>2. Between(tip, n) \subseteq Nodes
      BY <1>0, BetweenFacts
    <2> HIDE DEF n, branches
    <2> QED
      BY <2>1, <2>2
  <1>6. CASE /\ n \notin View(tip)
             /\ invAnc' = invAnc \cup (marked \ {n})
             /\ valid' = valid \ (marked \cup {n})
             /\ rows' = rows \cup {c \in Blocks : Known(c)}
             /\ UNCHANGED <<lock, task>>
    <2>1. StateOK'
      <3>1. lock' \in Procs \cup {None}
        BY <1>0, <1>6 DEF StateOK
      <3> HIDE DEF n, marked, onChain
      <3> QED
        BY <3>1, <1>4, <1>5, <1>6
    <2>2. Controlled' /\ TaskDomain'
      BY <1>1, <1>6, StayCtl
    <2> QED
      BY <1>3, <2>1, <2>2 DEF Typed
  <1>7. CASE /\ n \in View(tip)
             /\ invAnc' = invAnc \cup onChain
             /\ valid' = valid \ (onChain \cup {n})
             /\ Keep(Rpc, [Idle EXCEPT !.pc = "verify", !.op = "invalidate",
                                    !.detach = Append(doomed, n)])
             /\ UNCHANGED rows
    <2> DEFINE d == Append(doomed, n)
               u == [Idle EXCEPT !.pc = "verify", !.op = "invalidate", !.detach = d]
    <2>1. task' = [task EXCEPT ![Rpc] = u] /\ lock' = Rpc
      BY <1>7 DEF Keep
    <2>2. d \in Seq(Nodes) /\ Grown(d)
      <3>1. H(n) \in 0 .. H(tip)
        BY <1>0, <1>7, ViewFacts
      <3>2. Down(tip, H(n)) \in Seq(Nodes) /\ Grown(Down(tip, H(n)))
        <4> HIDE DEF n
        <4> QED
          BY <1>0, <3>1, DownFacts
      <3>3. doomed \in Seq(Nodes) /\ ToSet(doomed) \subseteq ToSet(Down(tip, H(n)))
        BY <3>2, KeptFacts
      <3>4. Grown(doomed)
        BY <3>2, <3>3, GrownSet
      <3> HIDE DEF n, doomed
      <3>5. /\ d \in Seq(Nodes) /\ Len(d) = Len(doomed) + 1 /\ Len(doomed) \in Nat
            /\ \A i \in 1 .. Len(doomed) : d[i] = doomed[i]
            /\ d[Len(doomed) + 1] = n
        BY <3>3, <1>2, AppendProperties
      <3> HIDE DEF d
      <3>6. ASSUME NEW i \in 1 .. Len(d) PROVE Real(d[i]) /\ blockOf(d[i]) # Genesis
        <4>1. i \in 1 .. Len(doomed) \/ i = Len(doomed) + 1
          BY <3>5
        <4> QED
          BY <4>1, <3>4, <3>5, <1>1, <1>2 DEF Grown
      <3> QED
        BY <3>5, <3>6 DEF Grown
    <2> HIDE DEF d
    <2>3. Ctl(Rpc, u, lookup', lock')
      <3>1. /\ u \in Tasks /\ u.pc = "verify" /\ u.op = "invalidate" /\ u.block = Idle.block
            /\ u.detach = d /\ u.attach = Idle.attach /\ u.gone = Idle.gone /\ u.queue = Idle.queue
        BY <2>2, IdleFacts DEF Tasks, Pcs, Ops
      <3> HIDE DEF u
      <3> QED
        BY <2>1, <2>2, <3>1, IdleFacts, ProcFacts DEF Ctl, Inside
    <2>4. Controlled' /\ TaskDomain'
      <3> HIDE DEF u
      <3> QED
        BY <1>1, <2>1, <2>3, StepCtl, ProcFacts
    <2>5. StateOK'
      <3>1. lock' \in Procs \cup {None}
        BY <2>1, ProcFacts
      <3> HIDE DEF n, marked, onChain
      <3> QED
        BY <3>1, <1>4, <1>5, <1>7
    <2> QED
      BY <1>3, <2>4, <2>5 DEF Typed
  <1> QED
    BY <1>6, <1>7 DEF InvalidateBlock

LEMMA TypedRehome ==
    ASSUME Typed, NEW p \in Procs, rehome(p) PROVE Typed'
  <1> DEFINE tips == {t \in InactiveTips \cup {tip} : ~Invalid(t)}
             most == {t \in tips : \A u \in tips : H(u) <= H(t)}
             best == IF most = {tip} THEN most ELSE most \ {tip}
  <1>0. IndexOK /\ StateOK /\ par \in RealGens /\ Real(tip)
    BY DEF Typed, IndexOK, StateOK
  <1>1. /\ Ctl(p, task[p], lookup, lock) /\ task[p].pc = "invalidate" /\ lock \in {None, p}
        /\ task[p].op = "invalidate" /\ p = Rpc
    BY TaskFacts, ProcFacts DEF rehome, At, Free, Ctl, Tasks
  <1>2. /\ UNCHANGED <<made, lookup, par, data, valid, failed, disk, tip, htip, applied, orphanVars, bounds>>
        /\ rows' \subseteq rows \cup Blocks
    BY DEF rehome
  <1>3. IndexOK' /\ lookup' = lookup
    BY <1>0, <1>2 DEF IndexOK
  <1>4. ASSUME lock' \in Procs \cup {None}, invAnc' \subseteq Nodes, events' \subseteq Events
        PROVE  StateOK'
    BY <1>0, <1>2, <1>4 DEF StateOK, Real, orphanVars, bounds
  <1>5. CASE Happens({"panic"}) /\ UNCHANGED <<invAnc, lock, task>>
    <2>1. StateOK'
      BY <1>0, <1>4, <1>5 DEF StateOK, Happens, Events
    <2>2. Controlled' /\ TaskDomain'
      BY <1>3, <1>5, StayCtl
    <2> QED
      BY <1>3, <2>1, <2>2 DEF Typed
  <1>6. CASE Yield(p, Idle) /\ UNCHANGED <<invAnc, events>>
    <2>0. task' = [task EXCEPT ![p] = Idle] /\ lock' = None
      BY <1>6 DEF Yield
    <2>1. StateOK'
      BY <1>0, <1>4, <1>6, <2>0 DEF StateOK
    <2>2. Controlled' /\ TaskDomain'
      <3>1. Ctl(p, Idle, lookup', lock')
        BY <2>0, IdleCtl, ProcFacts
      <3> QED
        BY <3>1, <1>1, <1>3, <2>0, StepCtl
    <2> QED
      BY <1>3, <2>1, <2>2 DEF Typed
  <1>7. ASSUME NEW t \in best \ {tip},
               invAnc' = invAnc \cup Reorg(t).mark,
               Keep(p, [Idle EXCEPT !.pc = "verify", !.op = "rehome",
                      !.detach = Reorg(t).detach, !.attach = Reorg(t).attach]),
               UNCHANGED events
        PROVE  Typed'
    <2>1. Real(t)
      BY <1>0, InactiveFacts
    <2> DEFINE r == Reorg(t)
               u == [Idle EXCEPT !.pc = "verify", !.op = "rehome", !.detach = r.detach, !.attach = r.attach]
    <2>2. /\ r.detach \in Seq(Nodes) /\ Grown(r.detach) /\ r.attach \in Seq(Nodes) /\ Grown(r.attach)
          /\ r.mark \subseteq Nodes
      BY <1>0, <2>1, ReorgFacts
    <2>3. task' = [task EXCEPT ![p] = u] /\ lock' = p /\ invAnc' = invAnc \cup r.mark
      BY <1>7 DEF Keep
    <2> HIDE DEF r
    <2>4. Ctl(p, u, lookup', lock')
      <3>1. /\ u \in Tasks /\ u.pc = "verify" /\ u.op = "rehome" /\ u.block = Idle.block
            /\ u.detach = r.detach /\ u.attach = r.attach /\ u.gone = Idle.gone /\ u.queue = Idle.queue
        BY <2>2, IdleFacts DEF Tasks, Pcs, Ops
      <3> HIDE DEF u
      <3> QED
        BY <1>1, <2>2, <2>3, <3>1, IdleFacts, ProcFacts DEF Ctl, Inside
    <2>5. Controlled' /\ TaskDomain'
      <3> HIDE DEF u
      <3> QED
        BY <1>1, <1>3, <2>3, <2>4, StepCtl
    <2>6. StateOK'
      <3> HIDE DEF u
      <3> QED
        BY <1>0, <1>4, <1>7, <2>2, <2>3 DEF StateOK
    <2> QED
      BY <1>3, <2>5, <2>6 DEF Typed
  <1> QED
    BY <1>5, <1>6, <1>7 DEF rehome

LEMMA TypedReconsiderBlock ==
    ASSUME Typed, NEW b \in Blocks, ReconsiderBlock(b) PROVE Typed'
  <1> DEFINE n == LookupNode(b)
             branches == {t \in InactiveTips \cup {tip} :
                        \/ t = n
                        \/ H(n) < H(t) /\ LET a == Ancestor(t, H(n)) IN
                              blockOf(a) = b /\ (a = n \/ Status(a) = <<n \in data, FALSE, FALSE, FALSE>>)}
             cleared == {n} \cup UNION {Between(t, n) : t \in branches}
  <1>0. IndexOK /\ StateOK /\ par \in RealGens /\ Real(tip)
    BY DEF Typed, IndexOK, StateOK
  <1>1. /\ lock = None /\ commands + rollbacks < MaxInterventions
        /\ commands' = commands + 1 /\ failed' = failed \ {n}
        /\ UNCHANGED <<indexVars, data, valid, disk, tip, htip, applied, orphanVars, rollbacks>>
    BY DEF ReconsiderBlock, Begin
  <1>3. IndexOK' /\ lookup' = lookup
    BY <1>0, <1>1 DEF IndexOK, indexVars
  <1>4. ASSUME lock' \in Procs \cup {None}, invAnc' \subseteq invAnc, events' \subseteq Events
        PROVE  StateOK'
    <2> HIDE DEF n
    <2>1. commands' \in Nat /\ commands' + rollbacks' <= MaxInterventions
      BY <1>0, <1>1, ChainAssumption DEF StateOK
    <2> QED
      BY <1>0, <1>1, <1>4, <2>1 DEF StateOK, Real, orphanVars, indexVars
  <1>5. CASE invAnc' \subseteq invAnc /\ events' \subseteq events \cup {"panic"} /\ UNCHANGED <<lock, task>>
    <2>1. StateOK'
      BY <1>0, <1>4, <1>5 DEF StateOK, Events
    <2>2. Controlled' /\ TaskDomain'
      BY <1>3, <1>5, StayCtl
    <2> QED
      BY <1>3, <2>1, <2>2 DEF Typed
  <1>6. ASSUME NEW t \in branches, invAnc' \subseteq invAnc, UNCHANGED events,
               Keep(Rpc, [Idle EXCEPT !.pc = "branch", !.op = "reconsider", !.attach = <<t>>])
        PROVE  Typed'
    <2>1. Real(t) /\ t \in Nodes
      <3>1. t \in InactiveTips \cup {tip}
        OBVIOUS
      <3> QED
        BY <3>1, <1>0, InactiveFacts DEF Real
    <2> DEFINE u == [Idle EXCEPT !.pc = "branch", !.op = "reconsider", !.attach = <<t>>]
    <2>3. task' = [task EXCEPT ![Rpc] = u] /\ lock' = Rpc
      BY <1>6 DEF Keep
    <2> HIDE DEF branches
    <2>4. Ctl(Rpc, u, lookup', lock')
      <3>0. <<t>> \in Seq(Nodes) /\ Len(<<t>>) = 1 /\ <<t>>[1] = t
        BY <2>1
      <3>1. /\ u \in Tasks /\ u.pc = "branch" /\ u.op = "reconsider" /\ u.block = Idle.block
            /\ u.detach = Idle.detach /\ u.attach = <<t>> /\ u.gone = Idle.gone /\ u.queue = Idle.queue
        BY <3>0, IdleFacts DEF Tasks, Pcs, Ops
      <3> HIDE DEF u
      <3> QED
        BY <2>1, <2>3, <3>0, <3>1, IdleFacts, ProcFacts DEF Ctl, Inside
    <2>5. Controlled' /\ TaskDomain'
      <3> HIDE DEF u
      <3> QED
        BY <1>1, <1>3, <2>3, <2>4, StepCtl, ProcFacts
    <2>6. StateOK'
      <3> HIDE DEF u
      <3> QED
        BY <1>0, <1>4, <1>6, <2>3, ProcFacts DEF StateOK
    <2> QED
      BY <1>3, <2>5, <2>6 DEF Typed
  <1> HIDE DEF branches, cleared
  <1>7. \/ branches = {} /\ Happens({"panic"}) /\ invAnc' = invAnc \ {n} /\ UNCHANGED <<lock, task>>
        \/ \E t \in branches :
              ~MoreWork(t) /\ invAnc' = invAnc \ cleared /\ UNCHANGED <<lock, task, events>>
        \/ \E t \in branches :
          /\ MoreWork(t)
          /\ invAnc' = invAnc \ cleared
          /\ Keep(Rpc, [Idle EXCEPT !.pc = "branch", !.op = "reconsider", !.attach = <<t>>])
          /\ UNCHANGED events
    BY DEF ReconsiderBlock, branches, cleared
  <1> QED
    BY <1>5, <1>6, <1>7 DEF Happens

LEMMA TypedReconsiderBranch ==
    ASSUME Typed, NEW p \in Procs, reconsiderBranch(p) PROVE Typed'
  <1> DEFINE t == task[p]
             r == Reorg(t.attach[1])
             u == [t EXCEPT !.pc = "verify", !.detach = r.detach, !.attach = r.attach]
  <1>0. IndexOK /\ StateOK /\ par \in RealGens /\ Real(tip)
    BY DEF Typed, IndexOK, StateOK
  <1>1. /\ t \in Tasks /\ Ctl(p, t, lookup, lock) /\ t.pc = "branch" /\ lock \in {None, p}
        /\ t.op = "reconsider" /\ Real(t.attach[1])
    BY TaskFacts DEF reconsiderBranch, At, Free, Ctl, Tasks
  <1>2. /\ r.detach \in Seq(Nodes) /\ Grown(r.detach) /\ r.attach \in Seq(Nodes) /\ Grown(r.attach)
        /\ r.mark \subseteq Nodes
    BY <1>0, <1>1, ReorgFacts
  <1>3. /\ task' = [task EXCEPT ![p] = u] /\ lock' = p /\ invAnc' = invAnc \cup r.mark
        /\ rows' \subseteq rows \cup Blocks
        /\ UNCHANGED <<made, lookup, par, data, valid, failed, disk, tip, htip, applied, orphanVars, bounds, events>>
    BY DEF reconsiderBranch, Keep
  <1> HIDE DEF r
  <1>4. Ctl(p, u, lookup', lock')
    <2>1. /\ u \in Tasks /\ u.pc = "verify" /\ u.op = "reconsider" /\ u.block = t.block
          /\ u.detach = r.detach /\ u.attach = r.attach /\ u.gone = t.gone /\ u.queue = t.queue
      BY <1>1, <1>2 DEF Tasks, Pcs
    <2> HIDE DEF u
    <2> QED
      BY <1>1, <1>2, <1>3, <2>1, ProcFacts DEF Ctl, Inside
  <1> HIDE DEF u
  <1>5. Controlled' /\ TaskDomain'
    BY <1>1, <1>3, <1>4, StepCtl
  <1>6. IndexOK' /\ StateOK'
    BY <1>0, <1>2, <1>3 DEF IndexOK, StateOK, Real, orphanVars, bounds
  <1> QED
    BY <1>5, <1>6 DEF Typed

LEMMA TypedInvalidateHeaderChain ==
    ASSUME Typed, NEW h \in 0 .. H(tip), InvalidateHeaderChain(h) PROVE Typed'
  <1> DEFINE root == Ancestor(tip, h)
             marked == {m \in View(htip) : H(m) > h /\ ~Invalid(m)}
             away == Down(tip, h)
  <1>0. IndexOK /\ StateOK /\ par \in RealGens /\ Real(tip) /\ Real(htip)
    BY DEF Typed, IndexOK, StateOK
  <1>1. /\ lock = None /\ commands + rollbacks < MaxInterventions
        /\ rollbacks' = rollbacks + 1 /\ invAnc' = invAnc \cup marked /\ valid' = valid \ marked
        /\ UNCHANGED <<indexVars, data, failed, disk, tip, applied, orphanVars, commands, events>>
    BY DEF InvalidateHeaderChain, Begin
  <1>2. Real(root) /\ root \in Nodes /\ blockOf(root) \in Blocks /\ marked \subseteq Nodes
    BY <1>0, RealAnc, AncestorIs, ViewFacts, NodeFacts DEF Real
  <1>3. away \in Seq(Nodes) /\ Grown(away)
    BY <1>0, DownFacts
  <1> HIDE DEF root, marked, away
  <1>4. IndexOK' /\ lookup' = lookup
    BY <1>0, <1>1 DEF IndexOK, indexVars
  <1>5. ASSUME lock' \in Procs \cup {None}, Real(htip')
        PROVE  StateOK'
    <2>1. rollbacks' \in Nat /\ commands' + rollbacks' <= MaxInterventions
      BY <1>0, <1>1, ChainAssumption DEF StateOK
    <2>2. Real(tip')
      BY <1>0, <1>1
    <2> QED
      BY <1>0, <1>1, <1>2, <1>5, <2>1, <2>2 DEF StateOK, orphanVars, indexVars
  <1>6. CASE UNCHANGED <<htip, lock, task>>
    <2>1. Real(htip') /\ lock' \in Procs \cup {None}
      BY <1>0, <1>6 DEF StateOK
    <2>2. Controlled' /\ TaskDomain'
      BY <1>4, <1>6, StayCtl
    <2> QED
      BY <1>4, <1>5, <2>1, <2>2 DEF Typed
  <1>7. CASE /\ htip' = root
             /\ Keep(Handler, [Idle EXCEPT !.pc = "verify", !.op = "rollback",
                    !.block = blockOf(root), !.queue = <<root>>,
                    !.detach = away, !.gone = away])
    <2> DEFINE u == [Idle EXCEPT !.pc = "verify", !.op = "rollback",
                    !.block = blockOf(root), !.queue = <<root>>, !.detach = away, !.gone = away]
    <2>1. task' = [task EXCEPT ![Handler] = u] /\ lock' = Handler
      BY <1>7 DEF Keep
    <2>2. Ctl(Handler, u, lookup', lock')
      <3>0. <<root>> \in Seq(Blocks \cup Nodes) /\ Len(<<root>>) = 1 /\ <<root>>[1] = root
        BY <1>2
      <3>1. /\ u \in Tasks /\ u.pc = "verify" /\ u.op = "rollback" /\ u.block = blockOf(root)
            /\ u.detach = away /\ u.attach = Idle.attach /\ u.gone = away /\ u.queue = <<root>>
        BY <3>0, <1>2, <1>3, IdleFacts DEF Tasks, Pcs, Ops
      <3> HIDE DEF u
      <3> QED
        BY <1>2, <1>3, <2>1, <3>0, <3>1, IdleFacts, ProcFacts DEF Ctl, Inside
    <2> HIDE DEF u
    <2>3. Controlled' /\ TaskDomain'
      BY <1>1, <1>4, <2>1, <2>2, StepCtl, ProcFacts
    <2>4. StateOK'
      BY <1>2, <1>5, <1>7, <2>1, ProcFacts
    <2> QED
      BY <1>4, <2>3, <2>4 DEF Typed
  <1> QED
    BY <1>6, <1>7 DEF InvalidateHeaderChain, root, away

LEMMA TypedRemoveDisconnectedBlocks ==
    ASSUME Typed, NEW p \in Procs, removeDisconnectedBlocks(p) PROVE Typed'
  <1> DEFINE t == task[p]
             gone == Gone(t)
  <1>0. IndexOK /\ StateOK /\ par \in RealGens /\ Real(htip)
    BY DEF Typed, IndexOK, StateOK
  <1>1. /\ t \in Tasks /\ Ctl(p, t, lookup, lock) /\ t.pc = "rollback" /\ lock \in {None, p}
        /\ t.op = "rollback" /\ p = Handler /\ Real(t.queue[1]) /\ Grown(t.gone) /\ t.gone \in Seq(Nodes)
    BY TaskFacts, ProcFacts DEF removeDisconnectedBlocks, At, Free, Ctl, Tasks
  <1>2. Genesis \notin gone
    BY <1>1 DEF Gone, Grown
  <1>3. /\ disk' = disk \ gone
        /\ lookup' = [b \in Blocks |-> IF b \in gone THEN 0 ELSE lookup[b]]
        /\ orphans' = Kept(orphans, {o \in Blocks : Parent[o] \in gone})
        /\ tip' = t.queue[1]
        /\ rows' \subseteq rows \cup Blocks /\ events' \subseteq events \cup {"overlap"}
        /\ task' = [task EXCEPT ![p] = Idle] /\ lock' = None
        /\ UNCHANGED <<made, par, data, flagVars, htip, applied, oldest, bounds>>
    BY DEF removeDisconnectedBlocks, Overlaps, Overlap, Happens, Yield, Root
  <1> HIDE DEF gone
  <1>4. IndexOK'
    <2>1. lookup' \in [Blocks -> 0 .. MaxGen] /\ lookup'[Genesis] = 1
      <3>1. 0 \in 0 .. MaxGen
        BY ChainAssumption
      <3> QED
        BY <3>1, <1>0, <1>2, <1>3, ChainAssumption DEF IndexOK
    <2>2. \A b \in Blocks : lookup'[b] <= made[b]
      <3>1. \A b \in Blocks : 0 <= made[b]
        BY <1>0 DEF IndexOK
      <3> QED
        BY <3>1, <1>0, <1>3 DEF IndexOK
    <2> QED
      BY <2>1, <2>2, <1>0, <1>3 DEF IndexOK
  <1>5. StateOK'
    <2>1. orphans' \in Seq(Blocks) /\ ToSet(orphans') \subseteq ToSet(orphans)
      BY <1>0, <1>3, KeptFacts DEF StateOK
    <2>2. Real(tip') /\ Real(htip')
      BY <1>0, <1>1, <1>3
    <2> QED
      BY <1>0, <1>3, <2>1, <2>2 DEF StateOK, flagVars, bounds, Events
  <1>6. Controlled' /\ TaskDomain'
    <2>1. Ctl(p, Idle, lookup', lock')
      BY <1>3, IdleCtl, ProcFacts
    <2>2. \A q \in Procs \ {p} : task[q].op \notin {"accept", "resume"}
      BY <1>1, TaskFacts, ProcFacts DEF Ctl
    <2> QED
      BY <2>1, <2>2, <1>1, <1>3, StepCtl
  <1> QED
    BY <1>4, <1>5, <1>6 DEF Typed

LEMMA TypedStay == ASSUME Typed, UNCHANGED vars PROVE Typed'
  BY DEF Typed, IndexOK, StateOK, Controlled, TaskDomain, Ctl, Real, vars, indexVars, flagVars, orphanVars, bounds

LEMMA TypedNext == Typed /\ [Next]_vars => Typed'
  <1> SUFFICES ASSUME Typed, [Next]_vars PROVE Typed'
    OBVIOUS
  <1>1. CASE UNCHANGED vars
    BY <1>1, TypedStay
  <1>2. CASE \E b \in Blocks :
          \/ ProcessOrphanBlock(b)
          \/ \E flags \in Given : ProcessBlock(b, flags)
          \/ ProcessBlockHeader(b)
          \/ InvalidateBlock(b)
          \/ ReconsiderBlock(b)
    BY <1>2, TypedProcessOrphanBlock, TypedProcessBlock, TypedProcessBlockHeader, TypedInvalidateBlock,
       TypedReconsiderBlock
  <1>3. CASE ResumeBlockConnect
    BY <1>3, TypedResumeBlockConnect
  <1>4. CASE \E h \in 0 .. H(tip) : InvalidateHeaderChain(h)
    BY <1>4, TypedInvalidateHeaderChain
  <1>5. CASE \E p \in Procs :
          \/ maybeAcceptBlock(p) \/ connectBestChain(p) \/ finishAccept(p)
          \/ processOrphans(p) \/ RemoveBlockData(p)
          \/ verifyReorganizationValidity(p)
          \/ disconnectBlock(p) \/ connectBlock(p) \/ endReorganize(p)
          \/ rehome(p) \/ reconsiderBranch(p) \/ removeDisconnectedBlocks(p)
    BY <1>5, TypedMaybeAcceptBlock, TypedConnectBestChain, TypedFinishAccept, TypedProcessOrphans,
       TypedRemoveBlockData, TypedVerify, TypedDisconnectBlock, TypedConnectBlock, TypedEndReorganize,
       TypedRehome, TypedReconsiderBranch, TypedRemoveDisconnectedBlocks
  <1> QED
    BY <1>1, <1>2, <1>3, <1>4, <1>5 DEF Next

\* The block index, the flags, the pool and the two goroutines are well formed at
\* every step: a goroutine inside a critical section holds chainLock, and what it
\* detaches and attaches are nodes above the genesis block.
THEOREM TypedAlways == Spec => []Typed
  BY InitTyped, TypedNext, PTL DEF Spec

-----------------------------------------------------------------------------
(* The chain has no bad block and the UTXO set is its own.                 *)

\* The blocks that are kept off the chain: none, once a bad one was connected
\* without a check.
Foul(es) == IF "unchecked" \in es THEN {} ELSE Bad

LEMMA FoulShrinks ==
    ASSUME NEW es, NEW fs, es \subseteq fs PROVE Foul(fs) \subseteq Foul(es) /\ Foul(fs) \subseteq Bad
  BY DEF Foul

\* A goroutine in the middle of a reorganization has its way from the tip to
\* where it goes before it, unless the other one moved the chain meanwhile; what
\* it attaches has been checked, what it rolls back to was on the chain.
SafeTask(t, tp, es) ==
    /\ t.pc = "reorg" => \A i \in 1 .. Len(t.attach) : blockOf(t.attach[i]) \notin Foul(es)
    /\ t.pc = "connected" => t.block \notin Foul(es)
    /\ t.op = "rollback" => Line(blockOf(t.queue[1])) \cap Foul(es) = {}
    /\ t.op \in {"invalidate", "rollback"} => t.attach = <<>>
    /\ t.pc = "rollback" => t.detach = <<>>
    /\ "overlap" \notin es /\ t.pc \in {"verify", "reorg", "rollback"} /\ t.op # "invalidate" =>
          \E f \in Blocks : /\ Falls(t.detach, blockOf(tp), f) /\ Rises(t.attach, f)
                            /\ t.op = "rollback" => blockOf(t.queue[1]) = f

Safe ==
    /\ \A n \in valid : blockOf(n) \notin Foul(events)
    /\ Line(blockOf(tip)) \cap Foul(events) = {}
    /\ "overlap" \notin events => applied = Line(blockOf(tip))
    /\ \A p \in Procs : SafeTask(task[p], tip, events)

Near ==
    "overlap" \notin events' =>
          \/ blockOf(tip') = blockOf(tip)
          \/ Parent[blockOf(tip')] = blockOf(tip)
          \/ Parent[blockOf(tip)] = blockOf(tip')

\* An operation of the other goroutine in which the chain moves is on record.
Noted(p) == Overlap(p) \subseteq events'

LEMMA OverlapsNoted == ASSUME NEW p, NEW es, Overlaps(p) \/ Happens(Overlap(p) \cup es) PROVE Noted(p)
  BY DEF Overlaps, Happens, Noted

LEMMA SafeIdle == ASSUME NEW tp, NEW o PROVE SafeTask(Idle, tp, o)
  BY IdleFacts DEF SafeTask

LEMMA SafeStep ==
    ASSUME Typed, Safe, NEW p \in Procs, lock \in {None, p}, NEW u,
           task' = [task EXCEPT ![p] = u], events \subseteq events',
           tip' = tip \/ Noted(p),
           \A n \in valid' : n \in valid \/ blockOf(n) \notin Foul(events'),
           Line(blockOf(tip')) \cap Foul(events') = {},
           "overlap" \notin events' => applied' = Line(blockOf(tip')),
           SafeTask(u, tip', events')
    PROVE  Safe'
  <1>0. Foul(events') \subseteq Foul(events)
    BY FoulShrinks
  <1>1. ASSUME NEW q \in Procs PROVE SafeTask(task'[q], tip', events')
    <2>1. CASE q = p
      BY <2>1, TaskFacts
    <2>2. CASE q # p
      <3>1. task'[q] = task[q] /\ SafeTask(task[q], tip, events)
        BY <2>2, TaskFacts DEF Safe
      <3>2. task[q].pc \notin {"verify", "rollback"}
        BY <2>2, TaskFacts, ProcFacts DEF Ctl, Inside
      <3>3. CASE tip' = tip
        BY <1>0, <3>1, <3>3 DEF SafeTask
      <3>4. CASE Noted(p)
        <4>1. task[q].pc = "reorg" => "overlap" \in events'
          BY <2>2, <3>4 DEF Noted, Overlap
        <4> QED
          BY <1>0, <3>1, <3>2, <4>1 DEF SafeTask
      <3> QED
        BY <3>3, <3>4
    <2> QED
      BY <2>1, <2>2
  <1>2. \A n \in valid' : blockOf(n) \notin Foul(events')
    BY <1>0 DEF Safe
  <1> QED
    BY <1>1, <1>2 DEF Safe

LEMMA SafeStay ==
    ASSUME Typed, Safe, task' = task, tip' = tip, applied' = applied, events \subseteq events',
           valid' \subseteq valid
    PROVE  Safe' /\ Near
  <1>0. Foul(events') \subseteq Foul(events)
    BY FoulShrinks
  <1>1. ASSUME NEW q \in Procs PROVE SafeTask(task'[q], tip', events')
    BY <1>0 DEF Safe, SafeTask
  <1> QED
    BY <1>0, <1>1 DEF Safe, Near

\* The same where the operation fails.
LEMMA SafeFail ==
    ASSUME Typed, Safe, NEW p \in Procs, lock \in {None, p}, NEW r, NEW es, Fail(p, r, es),
           tip' = tip, "overlap" \notin events => applied' = applied,
           \A n \in valid' : n \in valid \/ blockOf(n) \notin Foul(events')
    PROVE  Safe' /\ Near
  <1> DEFINE t == task[p]
             u == IF t.op = "resume" /\ r THEN [t EXCEPT !.pc = "remove"] ELSE Idle
  <1>1. task' = [task EXCEPT ![p] = u] /\ events \subseteq events'
    BY DEF Fail, Yield, Happens
  <1>2. SafeTask(u, tip', events')
    <2>1. CASE t.op = "resume" /\ r
      <3>1. t \in Tasks
        BY TaskFacts
      <3>2. u.pc = "remove" /\ u.op = "resume"
        BY <2>1, <3>1 DEF Tasks
      <3> HIDE DEF u
      <3> QED
        BY <3>2 DEF SafeTask
    <2>2. CASE ~(t.op = "resume" /\ r)
      BY <2>2, SafeIdle
    <2> QED
      BY <2>1, <2>2
  <1> HIDE DEF u
  <1>3. Line(blockOf(tip')) \cap Foul(events') = {}
    BY <1>1, FoulShrinks DEF Safe
  <1>4. Safe'
    BY <1>1, <1>2, <1>3, SafeStep DEF Safe
  <1> QED
    BY <1>4 DEF Near

\* A step that leaves the chain alone, and a goroutine that is not reorganizing.
LEMMA SafeMove ==
    ASSUME Typed, Safe, NEW p \in Procs, lock \in {None, p}, NEW u,
           task' = [task EXCEPT ![p] = u], events \subseteq events',
           tip' = tip, applied' = applied,
           \A n \in valid' : n \in valid \/ blockOf(n) \notin Foul(events'),
           SafeTask(u, tip, events')
    PROVE  Safe' /\ Near
  <1>1. Line(blockOf(tip')) \cap Foul(events') = {}
    BY FoulShrinks DEF Safe
  <1> QED
    BY <1>1, SafeStep DEF Safe, Near

LEMMA SafeQuiet ==
    ASSUME NEW t, t.pc \notin {"verify", "reorg", "rollback", "connected"},
           t.op \notin {"rollback", "invalidate"}, NEW tp, NEW o
    PROVE  SafeTask(t, tp, o)
  BY DEF SafeTask

LEMMA SafeInit == Init => Safe
  <1> SUFFICES ASSUME Init PROVE Safe
    OBVIOUS
  <1>1. blockOf(<<Genesis, 1>>) = Genesis /\ Genesis \in Blocks \ Bad
    BY ChainAssumption DEF blockOf
  <1>2. Line(Genesis) = {Genesis}
    BY <1>1, LineStep
  <1>3. \A p \in Procs : task[p] = Idle
    BY DEF Init
  <1> QED
    BY <1>1, <1>2, <1>3, SafeIdle DEF Init, Safe, Foul

\* Steps of the block handler that start an operation, and headers.
LEMMA SafeBegin ==
    ASSUME Typed, Safe, NEW b \in Blocks,
           \/ ProcessOrphanBlock(b)
           \/ \E flags \in Given : ProcessBlock(b, flags)
           \/ ResumeBlockConnect
           \/ ProcessBlockHeader(b)
    PROVE  Safe' /\ Near
  <1>1. CASE ProcessOrphanBlock(b)
    <2>1. PICK k \in 0 .. Len(orphans) : addOrphanBlock(b, k)
      BY <1>1 DEF ProcessOrphanBlock
    <2>2. events \subseteq events'
      BY <2>1, AddOrphanFacts DEF Typed
    <2> QED
      BY <1>1, <2>2, SafeStay DEF ProcessOrphanBlock, flagVars
  <1>2. ASSUME NEW flags \in Given, ProcessBlock(b, flags) PROVE Safe' /\ Near
    <2> DEFINE t == [Idle EXCEPT !.pc = "accept", !.op = "accept", !.block = b,
                                 !.flags = flags]
    <2>1. task' = [task EXCEPT ![Handler] = t] /\ events \subseteq events' /\ lock = None
      BY <1>2 DEF ProcessBlock, Keep, Happens, Begin
    <2>2. SafeTask(t, tip, events')
      BY SafeQuiet DEF Idle
    <2> HIDE DEF t
    <2> QED
      BY <1>2, <2>1, <2>2, SafeMove, ProcFacts DEF ProcessBlock, flagVars
  <1>3. CASE ResumeBlockConnect
    <2> DEFINE c == blockOf(Ancestor(htip, H(tip) + 1))
    <2> DEFINE t == [Idle EXCEPT !.pc = "accept", !.op = "resume", !.block = c]
    <2>1. task' = [task EXCEPT ![Handler] = t] /\ events \subseteq events' /\ lock = None
      BY <1>3 DEF ResumeBlockConnect, Keep, Happens, Begin
    <2> HIDE DEF c
    <2>2. SafeTask(t, tip, events')
      BY SafeQuiet DEF Idle
    <2> HIDE DEF t
    <2>3. tip' = tip /\ applied' = applied /\ valid' = valid
      BY <1>3 DEF ResumeBlockConnect, flagVars
    <2> QED
      BY <2>1, <2>2, <2>3, SafeMove, ProcFacts
  <1>4. CASE ProcessBlockHeader(b)
    <2>1. task' = task /\ tip' = tip /\ applied' = applied /\ events' = events /\ valid' = valid
      BY <1>4 DEF ProcessBlockHeader
    <2> QED
      BY <2>1, SafeStay
  <1> QED
    BY <1>1, <1>2, <1>3, <1>4

LEMMA SafeMaybeAcceptBlock ==
    ASSUME Typed, Safe, NEW p \in Procs, maybeAcceptBlock(p) PROVE Safe' /\ Near
  <1> DEFINE t == task[p]
             u == [t EXCEPT !.pc = "connect"]
  <1>1. /\ t \in Tasks /\ t.pc = "accept" /\ lock \in {None, p} /\ t.op \in {"accept", "resume"}
        /\ tip' = tip /\ applied' = applied /\ valid' = valid
    BY TaskFacts DEF maybeAcceptBlock, At, Free, Ctl, flagVars
  <1>2. CASE Fail(p, TRUE, {})
    BY <1>1, <1>2, SafeFail
  <1>3. CASE Keep(p, u) /\ UNCHANGED events
    <2>1. u.pc = "connect" /\ u.op = t.op
      BY <1>1 DEF Tasks
    <2>2. task' = [task EXCEPT ![p] = u]
      BY <1>3 DEF Keep
    <2> HIDE DEF u
    <2>3. SafeTask(u, tip, events')
      BY <1>1, <2>1, SafeQuiet
    <2> QED
      BY <1>1, <1>3, <2>2, <2>3, SafeMove
  <1> QED
    BY <1>2, <1>3 DEF maybeAcceptBlock

LEMMA SafeConnectBestChain ==
    ASSUME Typed, Safe, NEW p \in Procs, connectBestChain(p) PROVE Safe' /\ Near
  <1> DEFINE t == task[p]
             b == t.block
             n == LookupNode(b)
             r == Reorg(n)
             extends == Parent[b] = blockOf(tip)
             fast == "fast" \in t.flags \/ n \in valid
  <1>1. /\ t \in Tasks /\ Ctl(p, t, lookup, lock) /\ t.pc = "connect" /\ lock \in {None, p}
        /\ b \in Blocks /\ b # Genesis /\ t.op \in {"accept", "resume"} /\ Known(b)
    BY TaskFacts DEF connectBestChain, At, Free, Ctl, Tasks, Known
  <1>2. Real(n) /\ n \in Nodes /\ blockOf(n) = b
    BY <1>1, KnownNode DEF Typed, Real
  <1>5. CASE /\ Fail(p, TRUE, {})
             /\ UNCHANGED <<valid, invAnc, tip, applied>>
    BY <1>1, <1>5, SafeFail
  <1>6. CASE /\ extends /\ (fast \/ b \notin Bad)
             /\ valid' = IF fast THEN valid ELSE valid \cup {n}
             /\ tip' = n
             /\ applied' = applied \cup {b}
             /\ Happens(Overlap(p) \cup (IF Breaks(n) THEN {"unchecked"} ELSE {}))
             /\ Yield(p, [t EXCEPT !.pc = "connected"])
    <2> DEFINE u == [t EXCEPT !.pc = "connected"]
    <2>1. task' = [task EXCEPT ![p] = u] /\ events \subseteq events'
      BY <1>6 DEF Yield, Happens
    <2>2. u.pc = "connected" /\ u.op = t.op /\ u.block = b
      BY <1>1 DEF Tasks
    <2>3. b \notin Foul(events')
      <3>1. CASE Breaks(n)
        BY <1>6, <3>1 DEF Happens, Foul
      <3>2. CASE ~Breaks(n)
        BY <1>2, <2>1, <3>2, FoulShrinks DEF Safe, Breaks
      <3> QED
        BY <3>1, <3>2
    <2>10. Noted(p)
      BY <1>6, OverlapsNoted
    <2>4. Line(b) = Line(blockOf(tip)) \cup {b}
      BY <1>1, <1>6, ParentFacts
    <2> HIDE DEF u, n, fast, extends
    <2>5. Line(blockOf(tip')) \cap Foul(events') = {}
      BY <1>2, <1>6, <2>1, <2>3, <2>4, FoulShrinks DEF Safe
    <2>6. "overlap" \notin events' => applied' = Line(blockOf(tip'))
      BY <1>2, <1>6, <2>1, <2>4 DEF Safe
    <2>7. SafeTask(u, tip', events')
      BY <1>1, <2>2, <2>3 DEF SafeTask
    <2>8. \A m \in valid' : m \in valid \/ blockOf(m) \notin Foul(events')
      BY <1>2, <1>6, <2>3
    <2>9. Safe'
      BY <1>1, <2>1, <2>5, <2>6, <2>7, <2>8, <2>10, SafeStep
    <2> QED
      BY <2>9, <1>2, <1>6 DEF Near, extends
  <1>7. CASE /\ Keep(p, [t EXCEPT !.pc = "side"])
             /\ UNCHANGED <<flagVars, disk, tip, applied, events>>
    <2> DEFINE u == [t EXCEPT !.pc = "side"]
    <2>1. u.pc = "side" /\ u.op = t.op
      BY <1>1 DEF Tasks
    <2>2. task' = [task EXCEPT ![p] = u] /\ valid' = valid
      BY <1>7 DEF Keep, flagVars
    <2> HIDE DEF u
    <2>3. SafeTask(u, tip, events')
      BY <1>1, <2>1, SafeQuiet
    <2> QED
      BY <1>1, <1>7, <2>2, <2>3, SafeMove
  <1>8. CASE /\ Keep(p, [t EXCEPT !.pc = "verify", !.detach = r.detach, !.attach = r.attach])
             /\ UNCHANGED <<valid, failed, disk, tip, applied, events>>
    <2> DEFINE u == [t EXCEPT !.pc = "verify", !.detach = r.detach, !.attach = r.attach]
    <2>1. task' = [task EXCEPT ![p] = u]
      BY <1>8 DEF Keep
    <2>2. \E f \in Blocks : Falls(r.detach, blockOf(tip), f) /\ Rises(r.attach, f)
      BY <1>2, ReorgFacts DEF Typed, StateOK, IndexOK
    <2> HIDE DEF r
    <2>3. u.pc = "verify" /\ u.op = t.op /\ u.detach = r.detach /\ u.attach = r.attach
      BY <1>1 DEF Tasks
    <2> HIDE DEF u
    <2>4. SafeTask(u, tip, events')
      BY <1>1, <2>2, <2>3 DEF SafeTask
    <2> QED
      BY <1>1, <1>8, <2>1, <2>4, SafeMove
  <1> QED
    BY <1>5, <1>6, <1>7, <1>8 DEF connectBestChain

LEMMA SafeFinishAccept ==
    ASSUME Typed, Safe, NEW p \in Procs, finishAccept(p) PROVE Safe' /\ Near
  <1> DEFINE t == task[p]
             n == LookupNode(t.block)
             u == IF t.op = "resume" THEN Idle ELSE [t EXCEPT !.pc = "orphans", !.queue = Queued(t)]
  <1>1. /\ t \in Tasks /\ Ctl(p, t, lookup, lock) /\ t.pc \in {"connected", "side", "reorganized"}
        /\ lock \in {None, p} /\ t.block \in Blocks
        /\ t.op \in {"accept", "resume"} /\ Known(t.block)
        /\ (t.pc = "connected" => t.block \notin Foul(events))
    BY TaskFacts DEF finishAccept, At, Free, Ctl, Tasks, Known, Safe, SafeTask
  <1>2. blockOf(n) = t.block
    BY <1>1, KnownNode DEF Typed
  <1>3. /\ tip' = tip /\ applied' = applied /\ events' = events /\ task' = [task EXCEPT ![p] = u]
        /\ valid' = IF t.pc = "connected" THEN valid \cup {n} ELSE valid
    BY DEF finishAccept, Yield
  <1>4. SafeTask(u, tip, events')
    <2>1. CASE t.op = "resume"
      BY <2>1, SafeIdle
    <2>2. CASE t.op = "accept"
      <3>1. u.pc = "orphans" /\ u.op = "accept"
        BY <1>1, <2>2 DEF Tasks
      <3> HIDE DEF u
      <3> QED
        BY <3>1, SafeQuiet
    <2> QED
      BY <1>1, <2>1, <2>2
  <1> HIDE DEF u, n
  <1> QED
    BY <1>1, <1>2, <1>3, <1>4, SafeMove

LEMMA SafeProcessOrphans ==
    ASSUME Typed, Safe, NEW p \in Procs, processOrphans(p) PROVE Safe' /\ Near
  <1> DEFINE t == task[p]
             kids == Kept(orphans, {o \in Blocks : Parent[o] # t.queue[1]})
  <1>1. /\ t \in Tasks /\ t.pc = "orphans" /\ lock \in {None, p} /\ t.op = "accept"
        /\ tip' = tip /\ applied' = applied /\ valid' = valid /\ events' = events
    BY TaskFacts DEF processOrphans, At, Free, Ctl, flagVars
  <1>2. \E u : task' = [task EXCEPT ![p] = u] /\ SafeTask(u, tip, events')
    <2>1. CASE Keep(p, [t EXCEPT !.pc = "accept", !.block = kids[1], !.flags = @ \cup {"orphan"}])
      <3> DEFINE u == [t EXCEPT !.pc = "accept", !.block = kids[1], !.flags = @ \cup {"orphan"}]
      <3>1. u.pc = "accept" /\ u.op = "accept" /\ task' = [task EXCEPT ![p] = u]
        BY <1>1, <2>1 DEF Tasks, Keep
      <3> HIDE DEF u
      <3> QED
        BY <3>1, SafeQuiet
    <2>2. CASE Keep(p, [t EXCEPT !.queue = Tail(@)])
      <3> DEFINE u == [t EXCEPT !.queue = Tail(@)]
      <3>1. u.pc = "orphans" /\ u.op = "accept" /\ task' = [task EXCEPT ![p] = u]
        BY <1>1, <2>2 DEF Tasks, Keep
      <3> HIDE DEF u
      <3> QED
        BY <3>1, SafeQuiet
    <2>3. CASE Yield(p, Idle)
      BY <2>3, SafeIdle DEF Yield
    <2> QED
      BY <2>1, <2>2, <2>3 DEF processOrphans
  <1> QED
    BY <1>1, <1>2, SafeMove

LEMMA SafeRemoveBlockData ==
    ASSUME Typed, Safe, NEW p \in Procs, RemoveBlockData(p) PROVE Safe' /\ Near
  <1>1. /\ tip' = tip /\ applied' = applied /\ valid' = valid /\ events' = events
        /\ task' = [task EXCEPT ![p] = Idle]
    BY DEF RemoveBlockData, flagVars
  <1>2. ASSUME NEW q \in Procs PROVE SafeTask(task'[q], tip', events')
    <2>1. CASE q = p
      BY <2>1, <1>1, TaskFacts, SafeIdle
    <2>2. CASE q # p
      BY <2>2, <1>1, TaskFacts DEF Safe
    <2> QED
      BY <2>1, <2>2
  <1> QED
    BY <1>1, <1>2 DEF Safe, Near

LEMMA SafeVerify ==
    ASSUME Typed, Safe, NEW p \in Procs, verifyReorganizationValidity(p) PROVE Safe' /\ Near
  <1> DEFINE t == task[p]
        lacking == {i \in DOMAIN t.attach : blockOf(t.attach[i]) \notin disk}
        wrong == {i \in DOMAIN t.attach : Breaks(t.attach[i])}
        stop == CHOOSE i \in lacking \cup wrong : \A j \in lacking \cup wrong : i <= j
        below(i) == {t.attach[j] : j \in 1 .. i - 1}
        notTip == t.detach # <<>> /\ blockOf(t.detach[1]) # blockOf(tip)
        noPayload == \E i \in DOMAIN t.detach : blockOf(t.detach[i]) \notin disk
  <1>1. /\ t \in Tasks /\ t.pc = "verify" /\ lock \in {None, p} /\ t.attach \in Seq(Nodes)
        /\ SafeTask(t, tip, events) /\ tip' = tip /\ applied' = applied
    BY TaskFacts DEF verifyReorganizationValidity, At, Free, Tasks, Safe
  <1>2. \A i \in DOMAIN t.attach : i \notin wrong => blockOf(t.attach[i]) \notin Foul(events)
    BY FoulShrinks DEF Breaks, Safe
  <1>0. \A i \in DOMAIN t.attach : events \subseteq events' /\ i \notin wrong =>
                                      blockOf(t.attach[i]) \notin Foul(events')
    BY <1>2, FoulShrinks
  <1>3. CASE Fail(p, FALSE, IF notTip THEN {"assert"} ELSE {}) /\ UNCHANGED flagVars
    BY <1>1, <1>3, SafeFail DEF flagVars
  <1>4. CASE /\ lacking \cup wrong # {}
             /\ valid' = valid \cup below(stop)
             /\ Fail(p, stop \notin lacking, {})
    <2>1. lacking \cup wrong \in SUBSET Nat /\ lacking \cup wrong \subseteq 1 .. Len(t.attach)
      BY <1>1
    <2>2. stop \in lacking \cup wrong /\ \A j \in lacking \cup wrong : stop <= j
      <3> HIDE DEF lacking, wrong
      <3> QED
        BY <2>1, <1>4, LeastNumber
    <2> HIDE DEF stop, lacking
    <2>3. \A j \in 1 .. stop - 1 : j \in DOMAIN t.attach /\ j \notin wrong
      <3> HIDE DEF wrong
      <3> QED
        BY <2>1, <2>2, <1>1
    <2>4. \A n \in valid' : n \in valid \/ blockOf(n) \notin Foul(events')
      <3> HIDE DEF wrong
      <3>1. events \subseteq events'
        BY <1>4 DEF Fail, Happens
      <3> QED
        BY <1>0, <1>4, <2>3, <3>1
    <2> QED
      BY <1>1, <1>4, <2>4, SafeFail
  <1>5. CASE /\ lacking \cup wrong = {}
             /\ valid' = valid \cup ToSet(t.attach)
             /\ Keep(p, [t EXCEPT !.pc = "reorg"])
             /\ UNCHANGED <<failed, invAnc, disk, events>>
    <2> DEFINE u == [t EXCEPT !.pc = "reorg"]
    <2>1. /\ task' = [task EXCEPT ![p] = u]
          /\ u.pc = "reorg" /\ u.op = t.op /\ u.detach = t.detach /\ u.attach = t.attach /\ u.queue = t.queue
      BY <1>1, <1>5 DEF Keep, Tasks
    <2> HIDE DEF u
    <2>2. wrong = {}
      BY <1>5
    <2>3. \A i \in DOMAIN t.attach : blockOf(t.attach[i]) \notin Foul(events')
      <3> HIDE DEF wrong
      <3> QED
        BY <1>0, <1>5, <2>2
    <2>4. \A n \in valid' : n \in valid \/ blockOf(n) \notin Foul(events')
      BY <1>5, <2>3 DEF ToSet
    <2>5. SafeTask(u, tip, events')
      <3>1. \A i \in 1 .. Len(t.attach) : blockOf(t.attach[i]) \notin Foul(events')
        BY <1>1, <2>3
      <3> QED
        BY <1>1, <1>5, <2>1, <3>1 DEF SafeTask
    <2> QED
      BY <1>1, <1>5, <2>1, <2>4, <2>5, SafeMove
  <1> QED
    BY <1>3, <1>4, <1>5 DEF verifyReorganizationValidity

LEMMA SafeDisconnectBlock ==
    ASSUME Typed, Safe, NEW p \in Procs, disconnectBlock(p) PROVE Safe' /\ Near
  <1> DEFINE t == task[p]
             n == t.detach[1]
             prev == parentOf(n)
             c == blockOf(tip)
  <1>1. /\ t \in Tasks /\ t.pc = "reorg" /\ lock \in {None, p} /\ t.detach # <<>>
        /\ t.detach \in Seq(Nodes) /\ Grown(t.detach)
        /\ SafeTask(t, tip, events) /\ valid' = valid
    BY TaskFacts DEF disconnectBlock, At, Free, Ctl, Tasks, Safe, flagVars
  <1>2. n \in Nodes /\ blockOf(n) # Genesis /\ blockOf(n) \in Blocks
    <2>1. 1 \in 1 .. Len(t.detach)
      BY <1>1, EmptySeq
    <2> QED
      BY <2>1, <1>1, NodeFacts DEF Grown
  <1>3. CASE /\ Fail(p, FALSE, IF blockOf(n) # blockOf(tip) THEN {"assert"} ELSE {})
             /\ UNCHANGED <<tip, applied, rows>>
    BY <1>1, <1>3, SafeFail
  <1>4. CASE /\ blockOf(n) = blockOf(tip) /\ blockOf(prev) \in disk
             /\ tip' = prev
             /\ applied' = Undo(n)
             /\ Overlaps(p)
             /\ Yield(p, [t EXCEPT !.detach = Tail(@)])
    <2> DEFINE u == [t EXCEPT !.detach = Tail(@)]
    <2>1. /\ task' = [task EXCEPT ![p] = u] /\ events \subseteq events'
          /\ u.pc = "reorg" /\ u.op = t.op /\ u.detach = Tail(t.detach) /\ u.attach = t.attach
          /\ u.queue = t.queue
      BY <1>1, <1>4 DEF Yield, Tasks, Overlaps, Happens
    <2> HIDE DEF u
    <2>2. blockOf(tip') = Parent[c]
      BY <1>4 DEF parentOf, blockOf
    <2>3. c \in Blocks /\ Parent[c] \in Blocks /\ Line(c) \ {c} = Line(Parent[c])
      BY <1>2, <1>4, ParentFacts
    <2>4. Line(blockOf(tip')) \cap Foul(events') = {}
      BY <2>1, <2>2, <2>3, FoulShrinks DEF Safe
    <2>5. "overlap" \notin events' => applied' = Line(blockOf(tip'))
      BY <1>4, <2>1, <2>2, <2>3 DEF Safe, Undo
    <2>6. SafeTask(u, tip', events')
      <3>1. ASSUME "overlap" \notin events', t.op # "invalidate"
            PROVE  \E f \in Blocks : /\ Falls(Tail(t.detach), blockOf(tip'), f) /\ Rises(t.attach, f)
                                     /\ t.op = "rollback" => blockOf(t.queue[1]) = f
        <4>1. PICK f \in Blocks : /\ Falls(t.detach, blockOf(tip), f) /\ Rises(t.attach, f)
                                  /\ t.op = "rollback" => blockOf(t.queue[1]) = f
          BY <1>1, <2>1, <3>1 DEF SafeTask
        <4>2. Falls(Tail(t.detach), Parent[c], f)
          BY <1>1, <4>1, TailFacts
        <4> QED
          BY <4>1, <4>2, <2>2
      <3> QED
        BY <1>1, <2>1, <3>1, FoulShrinks DEF SafeTask
    <2>7. Safe'
      BY <1>1, <1>4, <2>1, <2>4, <2>5, <2>6, SafeStep, OverlapsNoted
    <2> QED
      BY <2>7, <2>2 DEF Near
  <1> QED
    BY <1>3, <1>4 DEF disconnectBlock

LEMMA SafeConnectBlock ==
    ASSUME Typed, Safe, NEW p \in Procs, connectBlock(p) PROVE Safe' /\ Near
  <1> DEFINE t == task[p]
             n == t.attach[1]
             b == blockOf(n)
  <1>1. /\ t \in Tasks /\ t.pc = "reorg" /\ lock \in {None, p} /\ t.attach # <<>> /\ t.detach = <<>>
        /\ t.attach \in Seq(Nodes) /\ Grown(t.attach)
        /\ SafeTask(t, tip, events) /\ valid' = valid
    BY TaskFacts DEF connectBlock, At, Free, Ctl, Tasks, Safe, flagVars
  <1>2. n \in Nodes /\ b # Genesis /\ b \in Blocks /\ b \notin Foul(events)
    <2>1. 1 \in 1 .. Len(t.attach)
      BY <1>1, EmptySeq
    <2> QED
      BY <2>1, <1>1, NodeFacts DEF Grown, SafeTask
  <1>0. t.op # "invalidate"
    BY <1>1 DEF SafeTask
  <1>3. CASE /\ Parent[blockOf(n)] # blockOf(tip)
             /\ Fail(p, FALSE, {"assert"})
             /\ UNCHANGED tip
    <2>1. ASSUME "overlap" \notin events PROVE FALSE
      <3>1. PICK f \in Blocks : Falls(t.detach, blockOf(tip), f) /\ Rises(t.attach, f)
        BY <1>0, <1>1, <2>1 DEF SafeTask
      <3>2. f = blockOf(tip) /\ Parent[b] = f
        BY <1>1, <3>1, TailFacts DEF Falls
      <3> QED
        BY <1>3, <3>2
    <2> QED
      BY <1>1, <1>3, <2>1, SafeFail
  <1>4. CASE /\ Parent[blockOf(n)] = blockOf(tip)
             /\ tip' = n
             /\ applied' = applied \cup {blockOf(n)}
             /\ Overlaps(p)
             /\ Yield(p, [t EXCEPT !.attach = Tail(@)])
    <2> DEFINE u == [t EXCEPT !.attach = Tail(@)]
    <2>1. /\ task' = [task EXCEPT ![p] = u] /\ events \subseteq events'
          /\ u.pc = "reorg" /\ u.op = t.op /\ u.detach = t.detach /\ u.attach = Tail(t.attach)
          /\ u.queue = t.queue
      BY <1>1, <1>4 DEF Yield, Tasks, Overlaps, Happens
    <2> HIDE DEF u
    <2>3. Line(b) = Line(blockOf(tip)) \cup {b}
      BY <1>2, <1>4, ParentFacts
    <2>4. Line(blockOf(tip')) \cap Foul(events') = {}
      BY <1>2, <1>4, <2>1, <2>3, FoulShrinks DEF Safe
    <2>5. "overlap" \notin events' => applied' = Line(blockOf(tip'))
      BY <1>4, <2>1, <2>3 DEF Safe
    <2>6. SafeTask(u, tip', events')
      <3>0. \A i \in 1 .. Len(Tail(t.attach)) : blockOf(Tail(t.attach)[i]) \notin Foul(events')
        <4>1. /\ Len(t.attach) \in Nat \ {0} /\ Len(Tail(t.attach)) = Len(t.attach) - 1
              /\ \A i \in 1 .. Len(Tail(t.attach)) : Tail(t.attach)[i] = t.attach[i + 1]
          BY <1>1, EmptySeq, HeadTailProperties
        <4>2. \A i \in 1 .. Len(Tail(t.attach)) : i + 1 \in 1 .. Len(t.attach)
          BY <4>1
        <4> QED
          BY <4>1, <4>2, <1>1, <2>1, FoulShrinks DEF SafeTask
      <3>1. ASSUME "overlap" \notin events'
            PROVE  \E f \in Blocks : /\ Falls(t.detach, blockOf(tip'), f) /\ Rises(Tail(t.attach), f)
                                     /\ t.op = "rollback" => blockOf(t.queue[1]) = f
        <4>1. PICK f \in Blocks : /\ Falls(t.detach, blockOf(tip), f) /\ Rises(t.attach, f)
                                  /\ t.op = "rollback" => blockOf(t.queue[1]) = f
          BY <1>0, <1>1, <2>1, <3>1 DEF SafeTask
        <4>2. Rises(Tail(t.attach), b)
          BY <1>1, <4>1, TailFacts
        <4>3. Falls(t.detach, b, b)
          BY <1>1, EmptySeq DEF Falls
        <4>4. t.op # "rollback"
          BY <1>1 DEF SafeTask
        <4> QED
          BY <4>2, <4>3, <4>4, <1>2, <1>4
      <3> QED
        BY <1>0, <1>1, <2>1, <3>0, <3>1, FoulShrinks DEF SafeTask
    <2>7. Safe'
      BY <1>1, <1>4, <2>1, <2>4, <2>5, <2>6, SafeStep, OverlapsNoted
    <2> QED
      BY <2>7, <1>4 DEF Near
  <1> QED
    BY <1>3, <1>4 DEF connectBlock

LEMMA SafeEndReorganize ==
    ASSUME Typed, Safe, NEW p \in Procs, endReorganize(p) PROVE Safe' /\ Near
  <1> DEFINE t == task[p]
  <1>1. /\ t \in Tasks /\ t.pc = "reorg" /\ lock \in {None, p} /\ t.detach = <<>> /\ t.attach = <<>>
        /\ SafeTask(t, tip, events)
        /\ tip' = tip /\ applied' = applied /\ valid' = valid /\ events' = events
    BY TaskFacts DEF endReorganize, At, Free, Tasks, Safe, flagVars
  <1>2. \E u : task' = [task EXCEPT ![p] = u] /\ SafeTask(u, tip, events')
    <2>1. CASE t.op \in {"accept", "resume"} /\ Keep(p, [t EXCEPT !.pc = "reorganized"])
      <3> DEFINE u == [t EXCEPT !.pc = "reorganized"]
      <3>1. task' = [task EXCEPT ![p] = u] /\ u.pc = "reorganized" /\ u.op = t.op
        BY <1>1, <2>1 DEF Tasks, Keep
      <3> HIDE DEF u
      <3> QED
        BY <2>1, <3>1, SafeQuiet
    <2>2. CASE t.op \in {"invalidate", "rollback"} /\ Keep(p, [t EXCEPT !.pc = t.op])
      <3> DEFINE u == [t EXCEPT !.pc = t.op]
      <3>1. /\ task' = [task EXCEPT ![p] = u] /\ u.pc = t.op /\ u.op = t.op /\ u.queue = t.queue
            /\ u.detach = t.detach /\ u.attach = t.attach
        BY <1>1, <2>2 DEF Tasks, Keep
      <3> HIDE DEF u
      <3>2. SafeTask(u, tip, events')
        BY <1>1, <2>2, <3>1 DEF SafeTask
      <3> QED
        BY <3>1, <3>2
    <2>3. CASE Yield(p, Idle)
      BY <2>3, SafeIdle DEF Yield
    <2> QED
      BY <2>1, <2>2, <2>3 DEF endReorganize
  <1> QED
    BY <1>1, <1>2, SafeMove

LEMMA SafeInvalidateBlock ==
    ASSUME Typed, Safe, NEW b \in Blocks, InvalidateBlock(b) PROVE Safe' /\ Near
  <1> DEFINE n == LookupNode(b)
             d == Append(Kept(Down(tip, H(n)), failed \cup invAnc), n)
             u == [Idle EXCEPT !.pc = "verify", !.op = "invalidate", !.detach = d]
  <1>1. lock = None /\ tip' = tip /\ applied' = applied /\ events' = events /\ valid' \subseteq valid
    BY DEF InvalidateBlock, Begin
  <1>2. CASE UNCHANGED <<lock, task>>
    BY <1>1, <1>2, SafeStay
  <1>3. CASE Keep(Rpc, u)
    <2>1. task' = [task EXCEPT ![Rpc] = u]
      BY <1>3 DEF Keep
    <2> HIDE DEF d
    <2>2. u.pc = "verify" /\ u.op = "invalidate" /\ u.attach = <<>>
      BY DEF Idle
    <2> HIDE DEF u
    <2>3. SafeTask(u, tip, events')
      BY <2>2 DEF SafeTask
    <2> QED
      BY <1>1, <2>1, <2>3, SafeMove, ProcFacts
  <1> QED
    BY <1>2, <1>3 DEF InvalidateBlock

LEMMA SafeRehome ==
    ASSUME Typed, Safe, NEW p \in Procs, rehome(p) PROVE Safe' /\ Near
  <1>1. /\ lock \in {None, p} /\ tip' = tip /\ applied' = applied /\ events \subseteq events' /\ valid' = valid
    BY DEF rehome, At, Free, Happens
  <1>2. CASE UNCHANGED task
    BY <1>1, <1>2, SafeStay
  <1>3. CASE Yield(p, Idle)
    BY <1>1, <1>3, SafeMove, SafeIdle DEF Yield
  <1>4. ASSUME NEW t \in InactiveTips,
               Keep(p, [Idle EXCEPT !.pc = "verify", !.op = "rehome",
                      !.detach = Reorg(t).detach, !.attach = Reorg(t).attach])
        PROVE  Safe' /\ Near
    <2> DEFINE r == Reorg(t)
               u == [Idle EXCEPT !.pc = "verify", !.op = "rehome", !.detach = r.detach, !.attach = r.attach]
    <2>1. task' = [task EXCEPT ![p] = u]
      BY <1>4 DEF Keep
    <2>2. \E f \in Blocks : Falls(r.detach, blockOf(tip), f) /\ Rises(r.attach, f)
      BY InactiveFacts, ReorgFacts DEF Typed, StateOK, IndexOK
    <2> HIDE DEF r
    <2>3. u.pc = "verify" /\ u.op = "rehome" /\ u.detach = r.detach /\ u.attach = r.attach
      BY DEF Idle
    <2> HIDE DEF u
    <2>4. SafeTask(u, tip, events')
      BY <2>2, <2>3 DEF SafeTask
    <2> QED
      BY <1>1, <2>1, <2>4, SafeMove
  <1> QED
    BY <1>2, <1>3, <1>4 DEF rehome

LEMMA SafeReconsiderBlock ==
    ASSUME Typed, Safe, NEW b \in Blocks, ReconsiderBlock(b) PROVE Safe' /\ Near
  <1>1. lock = None /\ tip' = tip /\ applied' = applied /\ events \subseteq events' /\ valid' = valid
    BY DEF ReconsiderBlock, Begin, Happens
  <1>2. CASE UNCHANGED task
    BY <1>1, <1>2, SafeStay
  <1>3. ASSUME NEW t, Keep(Rpc, [Idle EXCEPT !.pc = "branch", !.op = "reconsider", !.attach = <<t>>])
        PROVE  Safe' /\ Near
    <2> DEFINE u == [Idle EXCEPT !.pc = "branch", !.op = "reconsider", !.attach = <<t>>]
    <2>1. task' = [task EXCEPT ![Rpc] = u] /\ u.pc = "branch" /\ u.op = "reconsider"
      BY <1>3 DEF Keep, Idle
    <2> HIDE DEF u
    <2>2. SafeTask(u, tip, events')
      BY <2>1, SafeQuiet
    <2> QED
      BY <1>1, <2>1, <2>2, SafeMove, ProcFacts
  <1> QED
    BY <1>2, <1>3 DEF ReconsiderBlock

LEMMA SafeReconsiderBranch ==
    ASSUME Typed, Safe, NEW p \in Procs, reconsiderBranch(p) PROVE Safe' /\ Near
  <1> DEFINE t == task[p]
             r == Reorg(t.attach[1])
             u == [t EXCEPT !.pc = "verify", !.detach = r.detach, !.attach = r.attach]
  <1>1. /\ t \in Tasks /\ t.pc = "branch" /\ lock \in {None, p} /\ t.op = "reconsider"
        /\ Real(t.attach[1])
    BY TaskFacts DEF reconsiderBranch, At, Free, Ctl, Tasks
  <1>2. \E f \in Blocks : Falls(r.detach, blockOf(tip), f) /\ Rises(r.attach, f)
    BY <1>1, ReorgFacts DEF Typed, StateOK, IndexOK
  <1>3. /\ task' = [task EXCEPT ![p] = u]
        /\ tip' = tip /\ applied' = applied /\ events' = events /\ valid' = valid
    BY DEF reconsiderBranch, Keep
  <1> HIDE DEF r
  <1>4. u.pc = "verify" /\ u.op = "reconsider" /\ u.detach = r.detach /\ u.attach = r.attach
    BY <1>1 DEF Tasks
  <1> HIDE DEF u
  <1>5. SafeTask(u, tip, events')
    BY <1>2, <1>4 DEF SafeTask
  <1> QED
    BY <1>1, <1>3, <1>5, SafeMove

LEMMA SafeInvalidateHeaderChain ==
    ASSUME Typed, Safe, NEW h \in 0 .. H(tip), InvalidateHeaderChain(h) PROVE Safe' /\ Near
  <1> DEFINE root == Ancestor(tip, h)
             away == Down(tip, h)
             u == [Idle EXCEPT !.pc = "verify", !.op = "rollback", !.block = blockOf(root),
                               !.queue = <<root>>, !.detach = away, !.gone = away]
  <1>0. par \in RealGens /\ Real(tip)
    BY DEF Typed, IndexOK, StateOK
  <1>1. lock = None /\ tip' = tip /\ applied' = applied /\ events' = events /\ valid' \subseteq valid
    BY DEF InvalidateHeaderChain, Begin
  <1>2. CASE UNCHANGED task
    BY <1>1, <1>2, SafeStay
  <1>3. CASE Keep(Handler, u)
    <2>1. task' = [task EXCEPT ![Handler] = u]
      BY <1>3 DEF Keep
    <2>2. root = Anc(par, tip, h) /\ Falls(away, blockOf(tip), blockOf(root))
      BY <1>0, AncestorIs, DownFacts
    <2>3. Real(root) /\ blockOf(root) \in Line(blockOf(tip)) /\ blockOf(tip) \in Blocks
      <3>1. root \in View(tip)
        BY DEF View
      <3> HIDE DEF root
      <3> QED
        BY <1>0, <3>1, ViewFacts, NodeFacts DEF Real
    <2>4. Line(blockOf(root)) \cap Foul(events') = {} /\ blockOf(root) \in Blocks
      BY <1>1, <2>3, LineBelow DEF Safe
    <2> HIDE DEF root, away
    <2>5. /\ u.pc = "verify" /\ u.op = "rollback" /\ u.detach = away /\ u.attach = <<>>
          /\ u.queue[1] = root
      BY DEF Idle
    <2> HIDE DEF u
    <2>6. Rises(<<>>, blockOf(root))
      BY DEF Rises
    <2>7. SafeTask(u, tip, events')
      BY <2>2, <2>4, <2>5, <2>6 DEF SafeTask
    <2> QED
      BY <1>1, <2>1, <2>7, SafeMove, ProcFacts
  <1> QED
    BY <1>2, <1>3 DEF InvalidateHeaderChain

LEMMA SafeRemoveDisconnectedBlocks ==
    ASSUME Typed, Safe, NEW p \in Procs, removeDisconnectedBlocks(p) PROVE Safe' /\ Near
  <1> DEFINE t == task[p]
  <1>1. /\ t.pc = "rollback" /\ lock \in {None, p} /\ t.op = "rollback"
        /\ SafeTask(t, tip, events)
    BY TaskFacts DEF removeDisconnectedBlocks, At, Free, Ctl, Safe
  <1>2. /\ tip' = t.queue[1] /\ task' = [task EXCEPT ![p] = Idle] /\ applied' = applied /\ valid' = valid
        /\ Overlaps(p) /\ events \subseteq events'
    BY DEF removeDisconnectedBlocks, Root, Yield, flagVars, Overlaps, Happens
  <1>3. "overlap" \notin events => blockOf(tip') = blockOf(tip)
    BY <1>1, <1>2 DEF SafeTask, Falls
  <1>4. Line(blockOf(tip')) \cap Foul(events') = {}
    BY <1>1, <1>2, FoulShrinks DEF SafeTask
  <1>5. SafeTask(Idle, tip', events')
    BY SafeIdle
  <1>6. "overlap" \notin events' => applied' = Line(blockOf(tip'))
    BY <1>2, <1>3 DEF Safe
  <1>7. Safe'
    BY <1>1, <1>2, <1>4, <1>5, <1>6, SafeStep, OverlapsNoted
  <1> QED
    BY <1>2, <1>3, <1>7 DEF Near

LEMMA SafeNext == Typed /\ Safe /\ [Next]_vars => Safe' /\ Near
  <1> SUFFICES ASSUME Typed, Safe, [Next]_vars PROVE Safe' /\ Near
    OBVIOUS
  <1>1. CASE UNCHANGED vars
    BY <1>1, SafeStay DEF vars, flagVars
  <1>2. CASE \E b \in Blocks :
          \/ ProcessOrphanBlock(b)
          \/ \E flags \in Given : ProcessBlock(b, flags)
          \/ ProcessBlockHeader(b)
          \/ InvalidateBlock(b)
          \/ ReconsiderBlock(b)
    BY <1>2, SafeBegin, SafeInvalidateBlock, SafeReconsiderBlock
  <1>3. CASE ResumeBlockConnect
    BY <1>3, SafeBegin, ChainAssumption
  <1>4. CASE \E h \in 0 .. H(tip) : InvalidateHeaderChain(h)
    BY <1>4, SafeInvalidateHeaderChain
  <1>5. CASE \E p \in Procs :
          \/ maybeAcceptBlock(p) \/ connectBestChain(p) \/ finishAccept(p)
          \/ processOrphans(p) \/ RemoveBlockData(p)
          \/ verifyReorganizationValidity(p)
          \/ disconnectBlock(p) \/ connectBlock(p) \/ endReorganize(p)
          \/ rehome(p) \/ reconsiderBranch(p) \/ removeDisconnectedBlocks(p)
    BY <1>5, SafeMaybeAcceptBlock, SafeConnectBestChain, SafeFinishAccept, SafeProcessOrphans,
       SafeRemoveBlockData, SafeVerify, SafeDisconnectBlock, SafeConnectBlock, SafeEndReorganize,
       SafeRehome, SafeReconsiderBranch, SafeRemoveDisconnectedBlocks
  <1> QED
    BY <1>1, <1>2, <1>3, <1>4, <1>5 DEF Next

LEMMA ChainIs == ASSUME Typed PROVE Chain = Line(blockOf(tip))
  BY ViewFacts DEF Chain, Typed, IndexOK, StateOK

LEMMA SafeAlways == Spec => []Safe
  BY InitTyped, TypedNext, SafeInit, SafeNext, PTL DEF Spec

\* The types of the index, the flags, the orphan pool and the two views hold in
\* every state, whatever the block handler and the RPC goroutine do.
THEOREM ChainTypesAlways == Spec => []TypeOK
  <1>1. Typed => TypeOK
    BY DEF Typed, IndexOK, StateOK, TaskDomain, TypeOK, RealGens, Gens, Real, ToSet
  <1> QED
    BY <1>1, TypedAlways, PTL

\* A block that checkConnectBlock rejects is on the best chain only if it, or a
\* block before it, extended the tip under BFFastAdd: no reorganization, resumed
\* block, command, rollback or overlap of the two brings one there.
THEOREM NoBadAlways == Spec => []NoBadBlock
  <1>1. Typed /\ Safe => NoBadBlock
    BY ChainIs DEF Safe, NoBadBlock, Foul
  <1> QED
    BY <1>1, TypedAlways, SafeAlways, PTL

\* The UTXO set is that of the best chain at every step of connectBlock and
\* disconnectBlock, as long as no goroutine moves the chain inside a
\* reorganization of the other.
THEOREM UtxoAlways == Spec => []UtxoMatchesChain
  <1>1. Typed /\ Safe => UtxoMatchesChain
    BY ChainIs DEF Safe, UtxoMatchesChain
  <1> QED
    BY <1>1, TypedAlways, SafeAlways, PTL

\* The best chain grows and shrinks by one block at a time: every connected and
\* disconnected block has its own notification.
THEOREM OneBlockAlways == Spec => OneBlockAtATime
  <1>1. Typed /\ Safe /\ [Next]_vars => [Near]_vars
    BY SafeNext
  <1> QED
    BY <1>1, TypedAlways, SafeAlways, PTL DEF Spec, OneBlockAtATime, Near

-----------------------------------------------------------------------------
(* Without a command only the block handler moves.                         *)

Lone == commands = 0 => task[Rpc] = Idle /\ "overlap" \notin events

HandlerBegins ==
    \/ \E b \in Blocks :
          \/ ProcessOrphanBlock(b)
          \/ \E flags \in Given : ProcessBlock(b, flags)
          \/ ProcessBlockHeader(b)
    \/ ResumeBlockConnect
    \/ \E h \in 0 .. H(tip) : InvalidateHeaderChain(h)

HandlerGoesOn ==
    \/ maybeAcceptBlock(Handler) \/ connectBestChain(Handler) \/ finishAccept(Handler)
    \/ processOrphans(Handler) \/ RemoveBlockData(Handler)
    \/ verifyReorganizationValidity(Handler)
    \/ disconnectBlock(Handler) \/ connectBlock(Handler) \/ endReorganize(Handler)
    \/ removeDisconnectedBlocks(Handler)

\* A goroutine that does something in the middle of an operation is not idle.
LEMMA GoesOn ==
    ASSUME Typed, NEW p \in Procs,
          \/ maybeAcceptBlock(p) \/ connectBestChain(p) \/ finishAccept(p)
          \/ processOrphans(p) \/ RemoveBlockData(p)
          \/ verifyReorganizationValidity(p)
          \/ disconnectBlock(p) \/ connectBlock(p) \/ endReorganize(p)
          \/ rehome(p) \/ reconsiderBranch(p) \/ removeDisconnectedBlocks(p)
    PROVE  /\ task[p].pc # "idle" /\ task[p] # Idle /\ commands' = commands /\ rollbacks' = rollbacks
           /\ rehome(p) \/ reconsiderBranch(p) => p = Rpc
  <1>1. task[p].pc # "idle" => task[p] # Idle
    BY IdleFacts
  <1>2. ASSUME maybeAcceptBlock(p) \/ connectBestChain(p) \/ finishAccept(p)
               \/ processOrphans(p) \/ RemoveBlockData(p)
        PROVE  task[p].pc # "idle" /\ commands' = commands /\ rollbacks' = rollbacks
    BY <1>2 DEF maybeAcceptBlock, connectBestChain, finishAccept, processOrphans, RemoveBlockData,
                At, bounds
  <1>3. ASSUME verifyReorganizationValidity(p) \/ disconnectBlock(p) \/ connectBlock(p)
               \/ endReorganize(p) \/ removeDisconnectedBlocks(p)
        PROVE  task[p].pc # "idle" /\ commands' = commands /\ rollbacks' = rollbacks
    BY <1>3 DEF verifyReorganizationValidity, disconnectBlock, connectBlock, endReorganize,
                removeDisconnectedBlocks, At, bounds
  <1>4. ASSUME rehome(p) \/ reconsiderBranch(p)
        PROVE  task[p].pc \in {"invalidate", "branch"} /\ commands' = commands /\ rollbacks' = rollbacks
    BY <1>4 DEF rehome, reconsiderBranch, At, bounds
  <1>5. task[p].pc \in {"invalidate", "branch"} => p = Rpc
    BY TaskFacts, ProcFacts DEF Ctl
  <1> QED
    BY <1>1, <1>2, <1>3, <1>4, <1>5

LEMMA Begins ==
    ASSUME Typed,
           \/ HandlerBegins
           \/ \E b \in Blocks : InvalidateBlock(b) \/ ReconsiderBlock(b)
    PROVE  /\ commands' = commands \/ (commands' = commands + 1 /\ ~HandlerBegins)
           /\ rollbacks' \in {rollbacks, rollbacks + 1}
           /\ HandlerBegins => task[Handler] = Idle /\ commands' = commands
  <1>1. ASSUME NEW b \in Blocks, InvalidateBlock(b) \/ ReconsiderBlock(b)
        PROVE  commands' = commands + 1 /\ rollbacks' = rollbacks
    BY <1>1 DEF InvalidateBlock, ReconsiderBlock
  <1>2. ASSUME NEW b \in Blocks, NEW flags \in Given,
               ProcessOrphanBlock(b) \/ ProcessBlock(b, flags) \/ ProcessBlockHeader(b) \/ ResumeBlockConnect
        PROVE  commands' = commands /\ rollbacks' = rollbacks /\ task[Handler].pc = "idle"
    BY <1>2 DEF ProcessOrphanBlock, ProcessBlock, ProcessBlockHeader, ResumeBlockConnect, Begin, bounds
  <1>3. ASSUME NEW h, InvalidateHeaderChain(h)
        PROVE  commands' = commands /\ rollbacks' = rollbacks + 1 /\ task[Handler].pc = "idle"
    BY <1>3 DEF InvalidateHeaderChain, Begin
  <1>4. task[Handler].pc = "idle" => task[Handler] = Idle
    BY TaskFacts, ProcFacts DEF Ctl
  <1>5. commands \in Nat
    BY DEF Typed, StateOK
  <1>6. CASE HandlerBegins
    <2>1. commands' = commands /\ rollbacks' \in {rollbacks, rollbacks + 1} /\ task[Handler] = Idle
      BY <1>2, <1>3, <1>4, <1>6, GivenFacts, ChainAssumption DEF HandlerBegins
    <2> QED
      BY <2>1
  <1>7. CASE ~HandlerBegins
    BY <1>1, <1>7
  <1> QED
    BY <1>6, <1>7

LEMMA HandlerSteps ==
    ASSUME Typed, Lone, [Next]_vars, commands' = 0
    PROVE  /\ commands = 0 /\ task[Rpc] = Idle /\ "overlap" \notin events
           /\ UNCHANGED vars \/ HandlerBegins \/ HandlerGoesOn
           /\ Overlaps(Handler) => events' = events
           /\ rollbacks' \in {rollbacks, rollbacks + 1}
  <1>0. commands \in Nat
    BY DEF Typed, StateOK
  <1>1. CASE UNCHANGED vars
    <2>1. commands = 0 /\ rollbacks' = rollbacks /\ events' = events
      BY <1>1 DEF vars, bounds
    <2> QED
      BY <1>1, <2>1 DEF Lone
  <1>2. CASE \/ HandlerBegins
             \/ \E b \in Blocks : InvalidateBlock(b) \/ ReconsiderBlock(b)
    <2>0. commands' = commands \/ (commands' = commands + 1 /\ ~HandlerBegins)
      BY <1>2, Begins
    <2>1. commands = 0 /\ HandlerBegins
      <3>1. commands' = commands
        BY <1>0, <2>0
      <3>2. ASSUME NEW b \in Blocks, InvalidateBlock(b) \/ ReconsiderBlock(b) PROVE FALSE
        <4>1. commands' = commands + 1
          BY <3>2 DEF InvalidateBlock, ReconsiderBlock
        <4> QED
          BY <1>0, <3>1, <4>1
      <3> QED
        BY <1>2, <3>1, <3>2
    <2>2. task[Rpc] = Idle /\ "overlap" \notin events
      BY <2>1 DEF Lone
    <2>3. Overlaps(Handler) => events' = events
      BY <2>2, IdleFacts, ProcFacts DEF Overlaps, Overlap, Happens
    <2> QED
      BY <2>1, <2>2, <2>3, <1>2, Begins
  <1>3. CASE \E p \in Procs :
          \/ maybeAcceptBlock(p) \/ connectBestChain(p) \/ finishAccept(p)
          \/ processOrphans(p) \/ RemoveBlockData(p)
          \/ verifyReorganizationValidity(p)
          \/ disconnectBlock(p) \/ connectBlock(p) \/ endReorganize(p)
          \/ rehome(p) \/ reconsiderBranch(p) \/ removeDisconnectedBlocks(p)
    <2>0. PICK p \in Procs :
          \/ maybeAcceptBlock(p) \/ connectBestChain(p) \/ finishAccept(p)
          \/ processOrphans(p) \/ RemoveBlockData(p)
          \/ verifyReorganizationValidity(p)
          \/ disconnectBlock(p) \/ connectBlock(p) \/ endReorganize(p)
          \/ rehome(p) \/ reconsiderBranch(p) \/ removeDisconnectedBlocks(p)
      BY <1>3
    <2>1. /\ task[p] # Idle /\ commands' = commands /\ rollbacks' = rollbacks
          /\ rehome(p) \/ reconsiderBranch(p) => p = Rpc
      BY <2>0, GoesOn
    <2>2. task[Rpc] = Idle /\ "overlap" \notin events
      BY <2>1 DEF Lone
    <2>3. p = Handler
      BY <2>1, <2>2, ProcFacts
    <2>4. HandlerGoesOn
      BY <2>0, <2>1, <2>3, ProcFacts DEF HandlerGoesOn
    <2>5. Overlaps(Handler) => events' = events
      BY <2>2, IdleFacts, ProcFacts DEF Overlaps, Overlap, Happens
    <2> QED
      BY <2>1, <2>2, <2>4, <2>5
  <1> QED
    BY <1>1, <1>2, <1>3 DEF Next, HandlerBegins

LEMMA LoneNext == Typed /\ Lone /\ [Next]_vars => Lone'
  <1> SUFFICES ASSUME Typed, Lone, [Next]_vars, commands' = 0
               PROVE  task'[Rpc] = Idle /\ "overlap" \notin events'
    BY DEF Lone
  <1>1. /\ commands = 0 /\ task[Rpc] = Idle /\ "overlap" \notin events
        /\ UNCHANGED vars \/ HandlerBegins \/ HandlerGoesOn
        /\ Overlaps(Handler) => events' = events
    BY HandlerSteps
  <1>2. ASSUME NEW u, task' = [task EXCEPT ![Handler] = u] PROVE task'[Rpc] = Idle
    BY <1>1, <1>2, TaskFacts, ProcFacts
  <1>3. ASSUME NEW r, NEW es, Fail(Handler, r, es) PROVE task'[Rpc] = Idle
    BY <1>2, <1>3 DEF Fail, Yield
  <1>4. ASSUME NEW r, NEW es, Fail(Handler, r, es), "overlap" \notin es PROVE "overlap" \notin events'
    BY <1>1, <1>4 DEF Fail, Happens
  <1>5. ASSUME NEW u, Keep(Handler, u) \/ Yield(Handler, u) PROVE task'[Rpc] = Idle
    BY <1>2, <1>5 DEF Keep, Yield
  <1>6. CASE UNCHANGED vars
    BY <1>1, <1>6 DEF vars
  <1>7. ASSUME NEW b \in Blocks, ProcessOrphanBlock(b) PROVE task'[Rpc] = Idle /\ "overlap" \notin events'
    BY <1>1, <1>7 DEF ProcessOrphanBlock, addOrphanBlock, Happens
  <1>8. ASSUME NEW b \in Blocks, NEW flags \in Given, ProcessBlock(b, flags)
        PROVE  task'[Rpc] = Idle /\ "overlap" \notin events'
    BY <1>1, <1>5, <1>8 DEF ProcessBlock, Happens
  <1>9. ASSUME NEW b \in Blocks, ProcessBlockHeader(b) PROVE task'[Rpc] = Idle /\ "overlap" \notin events'
    BY <1>1, <1>9 DEF ProcessBlockHeader
  <1>10. CASE ResumeBlockConnect
    BY <1>1, <1>5, <1>10 DEF ResumeBlockConnect, Happens
  <1>11. ASSUME NEW h, InvalidateHeaderChain(h) PROVE task'[Rpc] = Idle /\ "overlap" \notin events'
    BY <1>1, <1>5, <1>11 DEF InvalidateHeaderChain
  <1>12. CASE maybeAcceptBlock(Handler)
    BY <1>1, <1>3, <1>4, <1>5, <1>12 DEF maybeAcceptBlock
  <1>13. CASE connectBestChain(Handler)
    <2>1. Overlap(Handler) = {}
      BY <1>1, IdleFacts, ProcFacts DEF Overlap
    <2>2. \/ \E r : Fail(Handler, r, {})
          \/ /\ events' \subseteq events \cup {"unchecked"}
             /\ \E u : Keep(Handler, u) \/ Yield(Handler, u)
      BY <1>13, <2>1 DEF connectBestChain, Happens
    <2> QED
      BY <1>1, <1>3, <1>4, <1>5, <2>2
  <1>14. CASE finishAccept(Handler) \/ processOrphans(Handler) \/ endReorganize(Handler)
    BY <1>1, <1>5, <1>14 DEF finishAccept, processOrphans, endReorganize
  <1>15. CASE RemoveBlockData(Handler)
    BY <1>1, <1>2, <1>15 DEF RemoveBlockData
  <1>16. CASE verifyReorganizationValidity(Handler)
    BY <1>1, <1>3, <1>4, <1>5, <1>16 DEF verifyReorganizationValidity
  <1>17. CASE disconnectBlock(Handler)
    BY <1>1, <1>3, <1>4, <1>5, <1>17 DEF disconnectBlock
  <1>18. CASE connectBlock(Handler)
    BY <1>1, <1>3, <1>4, <1>5, <1>18 DEF connectBlock
  <1>19. CASE removeDisconnectedBlocks(Handler)
    BY <1>1, <1>5, <1>19 DEF removeDisconnectedBlocks
  <1>20. CASE HandlerBegins
    BY <1>7, <1>8, <1>9, <1>10, <1>11, <1>20 DEF HandlerBegins
  <1>21. CASE HandlerGoesOn
    BY <1>12, <1>13, <1>14, <1>15, <1>16, <1>17, <1>18, <1>19, <1>21 DEF HandlerGoesOn
  <1> QED
    BY <1>1, <1>6, <1>20, <1>21

LEMMA LoneAlways == Spec => []Lone
  <1>1. Init => Lone
    BY ProcFacts DEF Init, Lone
  <1> QED
    BY <1>1, TypedAlways, LoneNext, PTL DEF Spec

\* What happened stays recorded.
LEMMA EventsGrow == Typed /\ [Next]_vars => events \subseteq events'
  <1> SUFFICES ASSUME Typed, [Next]_vars PROVE events \subseteq events'
    OBVIOUS
  <1>1. ASSUME NEW p, NEW r, NEW es, Fail(p, r, es) PROVE events \subseteq events'
    BY <1>1 DEF Fail, Happens
  <1>2. ASSUME NEW p, Overlaps(p) PROVE events \subseteq events'
    BY <1>2 DEF Overlaps, Happens
  <1>3. CASE UNCHANGED vars
    BY <1>3 DEF vars
  <1>4. ASSUME NEW b \in Blocks, ProcessOrphanBlock(b) PROVE events \subseteq events'
    BY <1>4 DEF ProcessOrphanBlock, addOrphanBlock, Happens
  <1>5. ASSUME NEW b \in Blocks, NEW flags \in Given,
               ProcessBlock(b, flags) \/ ProcessBlockHeader(b) \/ ResumeBlockConnect
        PROVE  events \subseteq events'
    BY <1>5 DEF ProcessBlock, ProcessBlockHeader, ResumeBlockConnect, Happens
  <1>6. ASSUME NEW b \in Blocks, InvalidateBlock(b) PROVE events \subseteq events'
    BY <1>6 DEF InvalidateBlock
  <1>7. ASSUME NEW b \in Blocks, ReconsiderBlock(b) PROVE events \subseteq events'
    BY <1>7 DEF ReconsiderBlock, Happens
  <1>8. ASSUME NEW h, InvalidateHeaderChain(h) PROVE events \subseteq events'
    BY <1>8 DEF InvalidateHeaderChain
  <1>9. ASSUME NEW p \in Procs, maybeAcceptBlock(p) \/ verifyReorganizationValidity(p)
        PROVE  events \subseteq events'
    BY <1>1, <1>9 DEF maybeAcceptBlock, verifyReorganizationValidity
  <1>10. ASSUME NEW p \in Procs, connectBestChain(p) PROVE events \subseteq events'
    BY <1>1, <1>10 DEF connectBestChain, Happens
  <1>11. ASSUME NEW p \in Procs, disconnectBlock(p) \/ connectBlock(p) PROVE events \subseteq events'
    BY <1>1, <1>2, <1>11 DEF disconnectBlock, connectBlock
  <1>12. ASSUME NEW p \in Procs,
                \/ finishAccept(p) \/ processOrphans(p) \/ RemoveBlockData(p) \/ endReorganize(p)
                \/ reconsiderBranch(p) \/ removeDisconnectedBlocks(p)
         PROVE  events \subseteq events'
    BY <1>2, <1>12 DEF finishAccept, processOrphans, RemoveBlockData, endReorganize, reconsiderBranch,
                       removeDisconnectedBlocks
  <1>13. ASSUME NEW p \in Procs, rehome(p) PROVE events \subseteq events'
    BY <1>13 DEF rehome, Happens
  <1> QED
    BY <1>3, <1>4, <1>5, <1>6, <1>7, <1>8, <1>9, <1>10, <1>11, <1>12, <1>13, GivenFacts,
       ChainAssumption DEF Next

\* More on getReorganizeNodes: what it attaches ends at the node it is asked for,
\* and every node it marks stands on an invalid one.
LEMMA ReorgMore ==
    ASSUME par \in RealGens, Real(tip), NEW n, Real(n)
    PROVE  /\ \A i \in 1 .. Len(Reorg(n).attach) :
                 /\ Reorg(n).attach[i] \in View(n) /\ H(Reorg(n).attach[i]) <= H(n)
           /\ Reorg(n).attach # <<>> => Reorg(n).attach[Len(Reorg(n).attach)] = n
           /\ Reorg(n).attach = <<>> /\ n \notin View(tip) =>
                 /\ Reorg(n).detach = <<>>
                 /\ \E m \in View(n) : Invalid(m)
           /\ \A m \in Reorg(n).mark :
                 m \in Nodes /\ \E k \in failed \cup invAnc : blockOf(k) \in Line(blockOf(m))
  <1> DEFINE fork == FindFork(tip, n)
             up == Down(n, H(fork))
             bad == {i \in DOMAIN up : Invalid(up[i])}
             first == CHOOSE i \in bad : \A j \in bad : i <= j
             dn == Down(tip, H(fork))
  <1>1. /\ Real(fork) /\ H(fork) \in 0 .. H(tip) /\ H(fork) \in 0 .. H(n)
        /\ fork = Anc(par, tip, H(fork)) /\ fork = Anc(par, n, H(fork))
    BY ForkFacts
  <1> HIDE DEF fork
  <1>2. /\ n \in Nodes /\ H(n) \in Nat /\ par \in Gens /\ blockOf(n) \in Blocks
        /\ \A h \in 0 .. H(n) : Real(Anc(par, n, h)) /\ H(Anc(par, n, h)) = h
        /\ Anc(par, n, H(n)) = n
    BY RealAnc, AncFacts, NodeFacts
  <1>3. /\ up \in Seq(Nodes) /\ Len(up) = H(n) - H(fork)
        /\ \A i \in 1 .. H(n) - H(fork) : up[i] = Anc(par, n, H(n) + 1 - i)
        /\ Reverse(up) \in Seq(Nodes) /\ Len(Reverse(up)) = H(n) - H(fork)
        /\ \A i \in 1 .. H(n) - H(fork) : Reverse(up)[i] = Anc(par, n, H(fork) + i)
    BY <1>1, DownFacts
  <1>4. \A h \in 0 .. H(n) : Anc(par, n, h) \in View(n)
    BY ViewFacts
  <1>5. parentOf(n) = Up(par, n) /\ blockOf(parentOf(n)) = Parent[blockOf(n)]
        /\ Parent[blockOf(n)] \in Line(blockOf(n))
    <2>1. blockOf(n) = Genesis => Parent[blockOf(n)] = blockOf(n)
      BY ChainAssumption
    <2> QED
      BY <1>2, <2>1, ParentFacts, LineStep DEF parentOf, Up, blockOf
  <1>6. n \notin View(tip) => H(fork) < H(n)
    <2> SUFFICES ASSUME H(fork) >= H(n) PROVE n \in View(tip)
      BY <1>1, <1>2
    <2>1. fork = n
      BY <1>1, <1>2
    <2> QED
      BY <1>1, <2>1, ViewFacts
  <1>7. CASE Invalid(parentOf(n))
    <2>1. Reorg(n) = [detach |-> <<>>, attach |-> <<>>, mark |-> {n}]
      BY <1>7 DEF Reorg
    <2>2. Reorg(n).detach = <<>> /\ Reorg(n).attach = <<>> /\ Reorg(n).mark = {n} /\ Len(<<>>) = 0
      BY <2>1
    <2>3. n \notin View(tip) => \E m \in View(n) : Invalid(m)
      <3> SUFFICES ASSUME n \notin View(tip) PROVE \E m \in View(n) : Invalid(m)
        OBVIOUS
      <3>1. H(n) - 1 \in 0 .. H(n) - 1 /\ (H(n) - 1) + 1 = H(n)
        BY <1>1, <1>2, <1>6
      <3>2. Anc(par, n, H(n) - 1) = Up(par, n)
        BY <3>1, <1>2, AncFacts
      <3>3. parentOf(n) \in View(n)
        BY <3>1, <3>2, <1>4, <1>5, <1>2
      <3> QED
        BY <3>3, <1>7
    <2>4. \E k \in failed \cup invAnc : blockOf(k) \in Line(blockOf(n))
      BY <1>5, <1>7 DEF Invalid
    <2> QED
      BY <1>2, <2>2, <2>3, <2>4
  <1>8. CASE ~Invalid(parentOf(n)) /\ bad # {}
    <2>1. Reorg(n) = [detach |-> <<>>, attach |-> <<>>, mark |-> {up[i] : i \in 1 .. first - 1}]
      BY <1>8 DEF Reorg, fork
    <2> HIDE DEF up
    <2>2. first \in bad
      <3>1. bad \in SUBSET Nat
        BY <1>3
      <3> HIDE DEF bad
      <3> QED
        BY <3>1, <1>8, LeastNumber
    <2>3. first \in 1 .. Len(up) /\ Invalid(up[first])
      BY <2>2, <1>3
    <2> HIDE DEF first
    <2>4. Reorg(n).detach = <<>> /\ Reorg(n).attach = <<>> /\ Len(<<>>) = 0
          /\ Reorg(n).mark = {up[i] : i \in 1 .. first - 1}
      BY <2>1
    <2> DEFINE j == H(n) + 1 - first
    <2>5. up[first] = Anc(par, n, j) /\ j \in 0 .. H(n)
      <3>1. first \in 1 .. H(n) - H(fork) /\ j \in 0 .. H(n)
        BY <2>3, <1>1, <1>2, <1>3
      <3> QED
        BY <3>1, <1>3
    <2>6. up[first] \in View(n)
      BY <2>5, <1>4
    <2>7. ASSUME NEW i \in 1 .. first - 1
          PROVE  /\ up[i] \in Nodes
                 /\ blockOf(up[first]) \in Line(blockOf(up[i]))
      <3> DEFINE h == H(n) + 1 - i
      <3>1. i \in 1 .. H(n) - H(fork) /\ h \in 0 .. H(n) /\ j \in 0 .. h
        BY <2>3, <1>1, <1>2, <1>3
      <3> HIDE DEF j
      <3>2. up[i] = Anc(par, n, h)
        BY <3>1, <1>3
      <3> HIDE DEF h
      <3>3. Anc(par, up[i], j) = Anc(par, n, j) /\ H(up[i]) = h /\ Real(up[i])
        BY <3>1, <3>2, <1>2, AncAnc
      <3>4. Anc(par, up[i], j) \in View(up[i])
        BY <3>1, <3>3, ViewFacts
      <3>5. up[first] \in View(up[i])
        BY <3>3, <3>4, <2>5
      <3> QED
        BY <3>3, <3>5, ViewFacts DEF Real
    <2> QED
      BY <2>3, <2>4, <2>6, <2>7 DEF Invalid
  <1>9. CASE ~Invalid(parentOf(n)) /\ bad = {}
    <2>1. Reorg(n) = [detach |-> dn, attach |-> Reverse(up), mark |-> {}]
      BY <1>9 DEF Reorg, fork
    <2> DEFINE r == Reverse(up)
    <2>2. /\ Reorg(n).attach = r /\ Reorg(n).mark = {} /\ Len(r) = H(n) - H(fork)
          /\ \A i \in 1 .. H(n) - H(fork) : r[i] = Anc(par, n, H(fork) + i)
      BY <2>1, <1>3
    <2> HIDE DEF r
    <2>3. ASSUME NEW i \in 1 .. Len(r) PROVE r[i] \in View(n) /\ H(r[i]) <= H(n)
      <3>1. H(fork) + i \in 0 .. H(n) /\ i \in 1 .. H(n) - H(fork)
        BY <2>2, <1>1, <1>2
      <3>2. H(r[i]) = H(fork) + i
        BY <3>1, <2>2, <1>2
      <3> QED
        BY <3>1, <3>2, <2>2, <1>2, <1>4
    <2>4. r # <<>> => r[Len(r)] = n
      <3> SUFFICES ASSUME r # <<>> PROVE r[Len(r)] = n
        OBVIOUS
      <3>0. Len(r) # 0
        BY <1>3, EmptySeq DEF r
      <3>1. Len(r) \in 1 .. H(n) - H(fork) /\ H(fork) + Len(r) = H(n)
        BY <3>0, <2>2, <1>1, <1>2
      <3> QED
        BY <3>1, <2>2, <1>2
    <2>5. r = <<>> => n \in View(tip)
      <3> SUFFICES ASSUME r = <<>> PROVE n \in View(tip)
        OBVIOUS
      <3>1. H(n) - H(fork) = 0
        BY <2>2
      <3>2. ~(H(fork) < H(n))
        BY <3>1, <1>1, <1>2
      <3> QED
        BY <3>2, <1>6
    <2> QED
      BY <2>2, <2>3, <2>4, <2>5
  <1> QED
    BY <1>7, <1>8, <1>9

-----------------------------------------------------------------------------
(* The header view is not behind the chain.                                *)

\* The block handler at t: it attaches no block above the one it works on; it has
\* set the header view back to the block it rolls back to; and the header view is
\* behind the chain only while one of the two is on its way.
LedOK(t, tp, ht) ==
    /\ t.pc \in {"verify", "reorg"} /\ t.op \in {"accept", "resume"} =>
          \A i \in 1 .. Len(t.attach) : H(t.attach[i]) <= height[t.block]
    /\ t.op = "rollback" => ht = t.queue[1]
    /\ \/ H(tp) <= H(ht)
       \/ t.op = "rollback"
       \/ /\ t.op \in {"accept", "resume"} /\ H(tp) <= height[t.block]
          /\ t.pc \in {"connected", "reorganized"} \/ (t.pc = "reorg" /\ t.detach = <<>>)

Led == commands = 0 /\ "unrolled" \notin events => LedOK(task[Handler], tip, htip)

LEMMA LedQuiet ==
    ASSUME NEW t, NEW tp, NEW ht, t.pc \notin {"verify", "reorg"}, t.op # "rollback", H(tp) <= H(ht)
    PROVE  LedOK(t, tp, ht)
  BY DEF LedOK

LEMMA LedLow ==
    ASSUME NEW t, NEW tp, NEW ht, LedOK(t, tp, ht), t.op # "rollback",
           t.pc \notin {"connected", "reorganized"}, t.pc = "reorg" => t.detach # <<>>
    PROVE  H(tp) <= H(ht)
  BY DEF LedOK

\* The record of the handler after a step.
LEMMA TaskIs ==
    ASSUME Typed, NEW u, task' = [task EXCEPT ![Handler] = u] PROVE task'[Handler] = u
  BY TaskFacts, ProcFacts

LEMMA FailIs ==
    ASSUME Typed, NEW r, NEW es, Fail(Handler, r, es)
    PROVE  LET t == task[Handler]
               u == task'[Handler]
               orphan == t.op = "accept" /\ "orphan" \in t.flags IN
           /\ \/ /\ t.op = "resume" /\ r /\ u.pc = "remove" /\ u.op = t.op /\ u.block = t.block
                 /\ u.flags = t.flags /\ u.detach = t.detach /\ u.attach = t.attach /\ u.queue = t.queue
              \/ ~(t.op = "resume" /\ r) /\ u = Idle
           /\ disk' = IF orphan THEN disk \ {t.block} ELSE disk
           /\ es \subseteq events' /\ (orphan => "halted" \in events')
           /\ t.op = "rollback" => "unrolled" \in events'
  <1> DEFINE t == task[Handler]
             v == IF t.op = "resume" /\ r THEN [t EXCEPT !.pc = "remove"] ELSE Idle
  <1>1. task' = [task EXCEPT ![Handler] = v]
    BY DEF Fail, Yield
  <1>2. t \in Tasks
    BY TaskFacts, ProcFacts
  <1>3. /\ t.op = "resume" /\ r => /\ v.pc = "remove" /\ v.op = t.op /\ v.block = t.block
                 /\ v.flags = t.flags /\ v.detach = t.detach /\ v.attach = t.attach /\ v.queue = t.queue
        /\ ~(t.op = "resume" /\ r) => v = Idle
    BY <1>2 DEF Tasks
  <1> HIDE DEF v
  <1>4. task'[Handler] = v
    BY <1>1, TaskIs
  <1> QED
    BY <1>3, <1>4 DEF Fail, Happens

\* A failure that leaves the two views alone.
LEMMA LedFail ==
    ASSUME Typed, NEW r, NEW es, Fail(Handler, r, es), "unrolled" \notin events', tip' = tip, htip' = htip,
           LedOK(task[Handler], tip, htip),
           task[Handler].pc \notin {"connected", "reorganized"},
           task[Handler].pc = "reorg" => task[Handler].detach # <<>>
    PROVE  LedOK(task'[Handler], tip', htip')
  <1> DEFINE t == task[Handler]
             u == task'[Handler]
  <1>1. t.op # "rollback" /\ (u = Idle \/ (u.pc = "remove" /\ u.op = "resume"))
    BY FailIs
  <1>2. H(tip) <= H(htip)
    BY <1>1, LedLow
  <1> QED
    BY <1>1, <1>2, LedQuiet, IdleFacts

LEMMA LedMaybeAcceptBlock ==
    ASSUME Typed, LedOK(task[Handler], tip, htip), "unrolled" \notin events', maybeAcceptBlock(Handler)
    PROVE  LedOK(task'[Handler], tip', htip')
  <1> DEFINE t == task[Handler]
             u == [t EXCEPT !.pc = "connect"]
  <1>1. /\ t \in Tasks /\ t.pc = "accept" /\ t.op \in {"accept", "resume"}
        /\ tip' = tip /\ htip' = htip
    BY TaskFacts, ProcFacts DEF maybeAcceptBlock, At, Ctl
  <1>2. CASE Fail(Handler, TRUE, {})
    BY <1>1, <1>2, LedFail
  <1>3. CASE Keep(Handler, u)
    <2>1. u.pc = "connect" /\ u.op = t.op
      BY <1>1 DEF Tasks
    <2>2. task' = [task EXCEPT ![Handler] = u]
      BY <1>3 DEF Keep
    <2> HIDE DEF u
    <2>3. task'[Handler] = u
      BY <2>2, TaskIs
    <2>4. H(tip) <= H(htip)
      BY <1>1, LedLow
    <2> QED
      BY <1>1, <2>1, <2>3, <2>4, LedQuiet
  <1> QED
    BY <1>2, <1>3 DEF maybeAcceptBlock

LEMMA LedConnectBestChain ==
    ASSUME Typed, LedOK(task[Handler], tip, htip), "unrolled" \notin events', connectBestChain(Handler)
    PROVE  LedOK(task'[Handler], tip', htip')
  <1> DEFINE t == task[Handler]
             n == LookupNode(t.block)
             r == Reorg(n)
  <1>1. /\ t \in Tasks /\ t.pc = "connect" /\ t.op \in {"accept", "resume"}
        /\ t.block \in Blocks /\ Known(t.block) /\ htip' = htip
    BY TaskFacts, ProcFacts DEF connectBestChain, At, Ctl, Tasks, Known
  <1>2. Real(n) /\ H(n) = height[t.block] /\ height[t.block] \in Nat
    BY <1>1, KnownNode, TreeAssumption DEF Typed
  <1>3. H(tip) <= H(htip)
    BY <1>1, LedLow
  <1>4. CASE Fail(Handler, TRUE, {}) /\ UNCHANGED tip
    BY <1>1, <1>4, LedFail
  <1>5. CASE tip' = n /\ Yield(Handler, [t EXCEPT !.pc = "connected"])
    <2> DEFINE u == [t EXCEPT !.pc = "connected"]
    <2>1. u.pc = "connected" /\ u.op = t.op /\ u.block = t.block /\ task' = [task EXCEPT ![Handler] = u]
      BY <1>1, <1>5 DEF Tasks, Yield
    <2> HIDE DEF u
    <2>2. task'[Handler] = u
      BY <2>1, TaskIs
    <2> QED
      BY <1>1, <1>2, <1>5, <2>1, <2>2 DEF LedOK
  <1>6. CASE UNCHANGED tip /\ Keep(Handler, [t EXCEPT !.pc = "side"])
    <2> DEFINE u == [t EXCEPT !.pc = "side"]
    <2>1. u.pc = "side" /\ u.op = t.op /\ task' = [task EXCEPT ![Handler] = u]
      BY <1>1, <1>6 DEF Tasks, Keep
    <2> HIDE DEF u
    <2>2. task'[Handler] = u
      BY <2>1, TaskIs
    <2> QED
      BY <1>1, <1>3, <1>6, <2>1, <2>2, LedQuiet
  <1>7. CASE /\ UNCHANGED tip
             /\ Keep(Handler, [t EXCEPT !.pc = "verify", !.detach = r.detach, !.attach = r.attach])
    <2> DEFINE u == [t EXCEPT !.pc = "verify", !.detach = r.detach, !.attach = r.attach]
    <2>1. \A i \in 1 .. Len(r.attach) : H(r.attach[i]) <= height[t.block]
      BY <1>2, ReorgMore DEF Typed, IndexOK, StateOK
    <2>2. u.pc = "verify" /\ u.op = t.op /\ u.block = t.block /\ u.attach = r.attach
          /\ task' = [task EXCEPT ![Handler] = u]
      BY <1>1, <1>7 DEF Tasks, Keep
    <2> HIDE DEF u, r
    <2>3. task'[Handler] = u
      BY <2>2, TaskIs
    <2> QED
      BY <1>1, <1>3, <1>7, <2>1, <2>2, <2>3 DEF LedOK
  <1> QED
    BY <1>4, <1>5, <1>6, <1>7 DEF connectBestChain

LEMMA LedFinishAccept ==
    ASSUME Typed, LedOK(task[Handler], tip, htip), finishAccept(Handler)
    PROVE  LedOK(task'[Handler], tip', htip')
  <1> DEFINE t == task[Handler]
             n == LookupNode(t.block)
             u == IF t.op = "resume" THEN Idle ELSE [t EXCEPT !.pc = "orphans", !.queue = Queued(t)]
  <1>1. /\ t \in Tasks /\ t.pc \in {"connected", "side", "reorganized"}
        /\ t.block \in Blocks /\ t.op \in {"accept", "resume"} /\ Known(t.block)
    BY TaskFacts, ProcFacts DEF finishAccept, At, Ctl, Tasks, Known
  <1>2. H(n) = height[t.block] /\ height[t.block] \in Nat
    BY <1>1, KnownNode, TreeAssumption DEF Typed
  <1>3. /\ tip' = tip /\ task' = [task EXCEPT ![Handler] = u]
        /\ htip' = IF t.pc # "side" THEN HeaderTip(n) ELSE htip
    BY DEF finishAccept, Yield
  <1>4. u.pc \notin {"verify", "reorg"} /\ u.op # "rollback"
    BY <1>1, IdleFacts DEF Tasks
  <1> HIDE DEF u, n
  <1>5. task'[Handler] = u
    BY <1>3, TaskIs
  <1>6. H(tip) \in Nat /\ H(htip) \in Nat
    BY NodeFacts DEF Typed, StateOK, Real
  <1>7. H(tip') <= H(htip')
    <2>1. CASE t.pc = "side"
      BY <1>1, <1>3, <2>1, LedLow
    <2>2. CASE t.pc # "side"
      <3>1. H(tip) <= H(htip) \/ H(tip) <= height[t.block]
        BY <1>1 DEF LedOK
      <3> QED
        BY <1>2, <1>3, <1>6, <2>2, <3>1 DEF HeaderTip
    <2> QED
      BY <2>1, <2>2
  <1> QED
    BY <1>4, <1>5, <1>7, LedQuiet

LEMMA LedProcessOrphans ==
    ASSUME Typed, LedOK(task[Handler], tip, htip), processOrphans(Handler)
    PROVE  LedOK(task'[Handler], tip', htip')
  <1> DEFINE t == task[Handler]
             kids == Kept(orphans, {o \in Blocks : Parent[o] # t.queue[1]})
  <1>1. /\ t \in Tasks /\ t.pc = "orphans" /\ t.op = "accept" /\ tip' = tip /\ htip' = htip
    BY TaskFacts, ProcFacts DEF processOrphans, At, Ctl
  <1>2. H(tip) <= H(htip)
    BY <1>1, LedLow
  <1>3. \E u : task' = [task EXCEPT ![Handler] = u] /\ u.pc \notin {"verify", "reorg"} /\ u.op # "rollback"
    <2>1. CASE Keep(Handler, [t EXCEPT !.pc = "accept", !.block = kids[1], !.flags = @ \cup {"orphan"}])
      <3> DEFINE u == [t EXCEPT !.pc = "accept", !.block = kids[1], !.flags = @ \cup {"orphan"}]
      <3>1. u.pc = "accept" /\ u.op = "accept" /\ task' = [task EXCEPT ![Handler] = u]
        BY <1>1, <2>1 DEF Tasks, Keep
      <3> QED
        BY <3>1
    <2>2. CASE Keep(Handler, [t EXCEPT !.queue = Tail(@)])
      <3> DEFINE u == [t EXCEPT !.queue = Tail(@)]
      <3>1. u.pc = "orphans" /\ u.op = "accept" /\ task' = [task EXCEPT ![Handler] = u]
        BY <1>1, <2>2 DEF Tasks, Keep
      <3> QED
        BY <3>1
    <2>3. CASE Yield(Handler, Idle)
      BY <2>3, IdleFacts DEF Yield
    <2> QED
      BY <2>1, <2>2, <2>3 DEF processOrphans
  <1>4. PICK u : task' = [task EXCEPT ![Handler] = u] /\ u.pc \notin {"verify", "reorg"} /\ u.op # "rollback"
    BY <1>3
  <1>5. task'[Handler] = u
    BY <1>4, TaskIs
  <1> QED
    BY <1>1, <1>2, <1>4, <1>5, LedQuiet

LEMMA LedVerify ==
    ASSUME Typed, LedOK(task[Handler], tip, htip), "unrolled" \notin events',
           verifyReorganizationValidity(Handler)
    PROVE  LedOK(task'[Handler], tip', htip')
  <1> DEFINE t == task[Handler]
             u == [t EXCEPT !.pc = "reorg"]
  <1>1. t \in Tasks /\ t.pc = "verify" /\ tip' = tip /\ htip' = htip
    BY TaskFacts, ProcFacts DEF verifyReorganizationValidity, At
  <1>2. ASSUME NEW r, NEW es, Fail(Handler, r, es) PROVE LedOK(task'[Handler], tip', htip')
    BY <1>1, <1>2, LedFail
  <1>3. CASE Keep(Handler, u)
    <2>1. /\ u.pc = "reorg" /\ u.op = t.op /\ u.block = t.block /\ u.attach = t.attach /\ u.queue = t.queue
          /\ task' = [task EXCEPT ![Handler] = u]
      BY <1>1, <1>3 DEF Tasks, Keep
    <2> HIDE DEF u
    <2>2. task'[Handler] = u
      BY <2>1, TaskIs
    <2> QED
      BY <1>1, <2>1, <2>2 DEF LedOK
  <1> QED
    BY <1>2, <1>3 DEF verifyReorganizationValidity

LEMMA LedDisconnectBlock ==
    ASSUME Typed, LedOK(task[Handler], tip, htip), "unrolled" \notin events', disconnectBlock(Handler)
    PROVE  LedOK(task'[Handler], tip', htip')
  <1> DEFINE t == task[Handler]
             n == t.detach[1]
             u == [t EXCEPT !.detach = Tail(@)]
  <1>1. /\ t \in Tasks /\ t.pc = "reorg" /\ t.detach # <<>> /\ htip' = htip
        /\ t.detach \in Seq(Nodes) /\ Grown(t.detach)
    BY TaskFacts, ProcFacts DEF disconnectBlock, At, Tasks, Ctl
  <1>2. ASSUME NEW r, NEW es, Fail(Handler, r, es), tip' = tip PROVE LedOK(task'[Handler], tip', htip')
    BY <1>1, <1>2, LedFail
  <1>3. CASE blockOf(n) = blockOf(tip) /\ tip' = parentOf(n) /\ Yield(Handler, u)
    <2>1. /\ u.pc = "reorg" /\ u.op = t.op /\ u.block = t.block /\ u.attach = t.attach /\ u.queue = t.queue
          /\ task' = [task EXCEPT ![Handler] = u]
      BY <1>1, <1>3 DEF Tasks, Yield
    <2> HIDE DEF u
    <2>2. task'[Handler] = u
      BY <2>1, TaskIs
    <2>3. H(tip') <= H(tip)
      <3>1. 1 \in 1 .. Len(t.detach)
        BY <1>1, EmptySeq
      <3>2. blockOf(n) \in Blocks /\ blockOf(n) # Genesis
        BY <3>1, <1>1, NodeFacts DEF Grown, Real
      <3>3. blockOf(tip') = Parent[blockOf(tip)]
        BY <1>3 DEF parentOf, blockOf
      <3>4. height[Parent[blockOf(tip)]] = height[blockOf(tip)] - 1 /\ height[blockOf(tip)] \in Nat
        BY <1>3, <3>2, ParentFacts
      <3> QED
        BY <3>3, <3>4 DEF H
    <2>4. H(tip) \in Nat /\ H(htip) \in Nat /\ H(tip') \in Nat \cup {-1}
      <3>1. H(tip) \in Nat /\ H(htip) \in Nat
        BY NodeFacts DEF Typed, StateOK, Real
      <3>2. blockOf(tip) \in Blocks /\ blockOf(tip') = Parent[blockOf(tip)]
        BY <1>3, NodeFacts DEF Typed, StateOK, Real, parentOf, blockOf
      <3> QED
        BY <3>1, <3>2, TreeAssumption, ChainAssumption DEF H
    <2>5. t.op = "rollback" \/ H(tip') <= H(htip')
      BY <1>1, <2>3, <2>4, LedLow
    <2> QED
      BY <1>1, <2>1, <2>2, <2>5 DEF LedOK
  <1> QED
    BY <1>2, <1>3 DEF disconnectBlock

LEMMA LedConnectBlock ==
    ASSUME Typed, Safe, "overlap" \notin events, LedOK(task[Handler], tip, htip), connectBlock(Handler)
    PROVE  LedOK(task'[Handler], tip', htip')
  <1> DEFINE t == task[Handler]
             n == t.attach[1]
             u == [t EXCEPT !.attach = Tail(@)]
  <1>1. /\ t \in Tasks /\ t.pc = "reorg" /\ t.attach # <<>> /\ t.detach = <<>> /\ htip' = htip
        /\ t.attach \in Seq(Nodes) /\ t.op # "none"
        /\ SafeTask(t, tip, events) /\ t.op \in {"none", "accept", "resume", "rollback"}
    BY TaskFacts, ProcFacts DEF connectBlock, At, Tasks, Ctl, Safe
  <1>2. t.op \in {"accept", "resume"}
    BY <1>1 DEF SafeTask
  <1>3. Parent[blockOf(n)] = blockOf(tip)
    <2>1. PICK f \in Blocks : Falls(t.detach, blockOf(tip), f) /\ Rises(t.attach, f)
      BY <1>1, <1>2 DEF SafeTask
    <2> QED
      BY <1>1, <2>1 DEF Falls, Rises
  <1>4. tip' = n /\ Yield(Handler, u)
    BY <1>3 DEF connectBlock
  <1>5. /\ u.pc = "reorg" /\ u.op = t.op /\ u.block = t.block /\ u.detach = t.detach
        /\ u.attach = Tail(t.attach) /\ task' = [task EXCEPT ![Handler] = u]
    BY <1>1, <1>4 DEF Tasks, Yield
  <1> HIDE DEF u
  <1>6. task'[Handler] = u
    BY <1>5, TaskIs
  <1>7. /\ Len(t.attach) \in Nat \ {0} /\ Len(Tail(t.attach)) = Len(t.attach) - 1
        /\ \A i \in 1 .. Len(Tail(t.attach)) : Tail(t.attach)[i] = t.attach[i + 1]
    BY <1>1, EmptySeq, HeadTailProperties
  <1>8. \A i \in 1 .. Len(t.attach) : H(t.attach[i]) <= height[t.block]
    BY <1>1, <1>2 DEF LedOK
  <1>9. \A i \in 1 .. Len(Tail(t.attach)) : H(Tail(t.attach)[i]) <= height[t.block]
    <2>1. \A i \in 1 .. Len(Tail(t.attach)) : i + 1 \in 1 .. Len(t.attach)
      BY <1>7
    <2> QED
      BY <1>7, <1>8, <2>1
  <1>10. H(tip') <= height[t.block]
    <2>1. 1 \in 1 .. Len(t.attach)
      BY <1>7
    <2> QED
      BY <1>4, <1>8, <2>1
  <1> QED
    BY <1>1, <1>2, <1>5, <1>6, <1>9, <1>10 DEF LedOK

LEMMA LedEndReorganize ==
    ASSUME Typed, LedOK(task[Handler], tip, htip), endReorganize(Handler)
    PROVE  LedOK(task'[Handler], tip', htip')
  <1> DEFINE t == task[Handler]
  <1>1. /\ t \in Tasks /\ t.pc = "reorg" /\ tip' = tip /\ htip' = htip
        /\ t.op \in {"accept", "resume", "rollback"}
    BY TaskFacts, ProcFacts DEF endReorganize, At, Ctl
  <1>2. CASE t.op \in {"accept", "resume"} /\ Keep(Handler, [t EXCEPT !.pc = "reorganized"])
    <2> DEFINE u == [t EXCEPT !.pc = "reorganized"]
    <2>1. task' = [task EXCEPT ![Handler] = u] /\ u.pc = "reorganized" /\ u.op = t.op /\ u.block = t.block
      BY <1>1, <1>2 DEF Tasks, Keep
    <2> HIDE DEF u
    <2>2. task'[Handler] = u
      BY <2>1, TaskIs
    <2> QED
      BY <1>1, <1>2, <2>1, <2>2 DEF LedOK
  <1>3. CASE t.op = "rollback" /\ Keep(Handler, [t EXCEPT !.pc = t.op])
    <2> DEFINE u == [t EXCEPT !.pc = t.op]
    <2>1. task' = [task EXCEPT ![Handler] = u] /\ u.pc = t.op /\ u.op = t.op /\ u.queue = t.queue
      BY <1>1, <1>3 DEF Tasks, Keep
    <2> HIDE DEF u
    <2>2. task'[Handler] = u
      BY <2>1, TaskIs
    <2> QED
      BY <1>1, <1>3, <2>1, <2>2 DEF LedOK
  <1> QED
    BY <1>1, <1>2, <1>3 DEF endReorganize

LEMMA LedBegins ==
    ASSUME Typed, LedOK(task[Handler], tip, htip), HandlerBegins
    PROVE  LedOK(task'[Handler], tip', htip')
  <1>0. H(tip) \in Nat /\ H(htip) \in Nat /\ blockOf(htip) \in Blocks
    BY NodeFacts DEF Typed, StateOK, Real
  <1>1. task[Handler] = Idle
    BY Begins
  <1>2. H(tip) <= H(htip)
    BY <1>1, LedLow, IdleFacts
  <1>3. ASSUME NEW b \in Blocks, ProcessOrphanBlock(b) PROVE LedOK(task'[Handler], tip', htip')
    BY <1>3 DEF ProcessOrphanBlock
  <1>4. ASSUME NEW u, Keep(Handler, u), tip' = tip, htip' = htip, u.pc = "accept", u.op # "rollback"
        PROVE  LedOK(task'[Handler], tip', htip')
    <2>1. task'[Handler] = u
      BY <1>4, TaskIs DEF Keep
    <2> QED
      BY <1>2, <1>4, <2>1, LedQuiet
  <1>5. ASSUME NEW b \in Blocks, NEW flags \in Given, ProcessBlock(b, flags)
        PROVE  LedOK(task'[Handler], tip', htip')
    <2> DEFINE u == [Idle EXCEPT !.pc = "accept", !.op = "accept", !.block = b,
                                 !.flags = flags]
    <2>1. Keep(Handler, u) /\ tip' = tip /\ htip' = htip /\ u.pc = "accept" /\ u.op # "rollback"
      BY <1>5 DEF ProcessBlock, Idle
    <2> HIDE DEF u
    <2> QED
      BY <2>1, <1>4
  <1>6. CASE ResumeBlockConnect
    <2> DEFINE c == blockOf(Ancestor(htip, H(tip) + 1))
               u == [Idle EXCEPT !.pc = "accept", !.op = "resume", !.block = c]
    <2>1. Keep(Handler, u) /\ tip' = tip /\ htip' = htip
      BY <1>6 DEF ResumeBlockConnect
    <2> HIDE DEF c
    <2>2. u.pc = "accept" /\ u.op # "rollback"
      BY DEF Idle
    <2> HIDE DEF u
    <2> QED
      BY <2>1, <2>2, <1>4
  <1>7. ASSUME NEW b \in Blocks, ProcessBlockHeader(b) PROVE LedOK(task'[Handler], tip', htip')
    <2> DEFINE node == <<b, lookup'[b]>>
    <2>1. /\ task' = task /\ tip' = tip /\ b # Genesis
          /\ htip' \in {htip, node}
          /\ htip' = node /\ htip' # htip => Parent[b] = blockOf(htip) \/ H(node) > H(htip)
      BY <1>7 DEF ProcessBlockHeader
    <2>2. H(node) = height[b] /\ height[b] \in Nat /\ (Parent[b] = blockOf(htip) => H(node) = H(htip) + 1)
      BY <2>1, ParentFacts DEF H, blockOf
    <2> HIDE DEF node
    <2>3. H(htip) <= H(htip')
      BY <1>0, <2>1, <2>2
    <2>4. H(tip') <= H(htip')
      <3>1. H(htip') \in Nat
        BY <1>0, <2>1, <2>2
      <3> QED
        BY <1>0, <1>2, <2>1, <2>3, <3>1
    <2> QED
      BY <1>1, <2>1, <2>4, LedQuiet, IdleFacts
  <1>8. ASSUME NEW h \in 0 .. H(tip), InvalidateHeaderChain(h) PROVE LedOK(task'[Handler], tip', htip')
    <2> DEFINE root == Ancestor(tip, h)
               away == Down(tip, h)
               u == [Idle EXCEPT !.pc = "verify", !.op = "rollback", !.block = blockOf(root),
                                 !.queue = <<root>>, !.detach = away, !.gone = away]
    <2>1. CASE UNCHANGED <<htip, task, tip>>
      BY <2>1
    <2>2. CASE htip' = root /\ Keep(Handler, u)
      <3> HIDE DEF root, away
      <3>1. u.pc = "verify" /\ u.op = "rollback" /\ u.queue[1] = root
        BY DEF Idle
      <3> HIDE DEF u
      <3>2. task'[Handler] = u
        BY <2>2, TaskIs DEF Keep
      <3> QED
        BY <2>2, <3>1, <3>2 DEF LedOK
    <2> QED
      BY <1>8, <2>1, <2>2 DEF InvalidateHeaderChain
  <1> QED
    BY <1>3, <1>5, <1>6, <1>7, <1>8 DEF HandlerBegins

LEMMA LedNext == Typed /\ Safe /\ Lone /\ Led /\ [Next]_vars => Led'
  <1> SUFFICES ASSUME Typed, Safe, Lone, Led, [Next]_vars, commands' = 0, "unrolled" \notin events'
               PROVE  LedOK(task'[Handler], tip', htip')
    BY DEF Led
  <1>1. /\ commands = 0 /\ "overlap" \notin events
        /\ UNCHANGED vars \/ HandlerBegins \/ HandlerGoesOn
    BY HandlerSteps
  <1>2. LedOK(task[Handler], tip, htip)
    BY <1>1, EventsGrow DEF Led
  <1>3. CASE UNCHANGED vars
    BY <1>2, <1>3 DEF vars
  <1>4. CASE HandlerBegins
    BY <1>2, <1>4, LedBegins
  <1>5. CASE RemoveBlockData(Handler)
    <2>1. task' = [task EXCEPT ![Handler] = Idle] /\ tip' = tip /\ htip' = htip /\ task[Handler].pc = "remove"
      BY <1>5 DEF RemoveBlockData
    <2>2. task'[Handler] = Idle /\ task[Handler].op = "resume"
      BY <2>1, TaskIs, TaskFacts, ProcFacts DEF Ctl
    <2>3. H(tip) <= H(htip)
      BY <1>2, <2>1, <2>2, LedLow
    <2> QED
      BY <2>1, <2>2, <2>3, LedQuiet, IdleFacts
  <1>6. CASE removeDisconnectedBlocks(Handler)
    <2>1. /\ task' = [task EXCEPT ![Handler] = Idle] /\ tip' = task[Handler].queue[1] /\ htip' = htip
          /\ task[Handler].pc = "rollback"
      BY <1>6 DEF removeDisconnectedBlocks, Root, At, Yield
    <2>2. task'[Handler] = Idle /\ task[Handler].op = "rollback"
      BY <2>1, TaskIs, TaskFacts, ProcFacts DEF Ctl
    <2>3. tip' = htip' /\ H(htip) \in Nat
      BY <1>2, <2>1, <2>2, NodeFacts DEF LedOK, Typed, StateOK, Real
    <2>4. H(tip') <= H(htip')
      BY <2>1, <2>3
    <2> QED
      BY <2>2, <2>4, LedQuiet, IdleFacts
  <1> QED
    BY <1>1, <1>2, <1>3, <1>4, <1>5, <1>6, LedMaybeAcceptBlock, LedConnectBestChain, LedFinishAccept,
       LedProcessOrphans, LedVerify, LedDisconnectBlock, LedConnectBlock, LedEndReorganize
       DEF HandlerGoesOn

LEMMA LedAlways == Spec => []Led
  <1>1. Init => Led
    <2> SUFFICES ASSUME Init PROVE LedOK(task[Handler], tip, htip)
      BY DEF Led
    <2>1. task[Handler] = Idle /\ tip = htip /\ H(tip) \in Nat
      BY ProcFacts, OnesFacts, ChainAssumption, TreeAssumption DEF Init
    <2>2. H(tip) <= H(htip)
      BY <2>1
    <2> QED
      BY <2>1, <2>2, LedQuiet, IdleFacts
  <1> QED
    BY <1>1, TypedAlways, SafeAlways, LoneAlways, LedNext, PTL DEF Spec

LEMMA LedLeads == Typed /\ Led => HeaderLeads
  <1> SUFFICES ASSUME Typed, Led, Quiet, commands = 0, "unrolled" \notin events PROVE H(htip) >= H(tip)
    BY DEF HeaderLeads
  <1>1. task[Handler] = Idle
    BY TaskFacts, ProcFacts DEF Quiet, Ctl
  <1>2. H(tip) <= H(htip)
    BY <1>1, LedLow, IdleFacts DEF Led
  <1>3. H(tip) \in Nat /\ H(htip) \in Nat
    BY NodeFacts DEF Typed, StateOK, Real
  <1> QED
    BY <1>2, <1>3

-----------------------------------------------------------------------------
(* Branches and the lines of their blocks.                                 *)

LEMMA FallsLine ==
    ASSUME NEW s \in Seq(Nodes), NEW from \in Blocks, NEW to, Falls(s, from, to)
    PROVE  /\ \A i \in 1 .. Len(s) : blockOf(s[i]) \in Line(from)
           /\ to \in Line(from)
  <1>0. from \in Line(from)
    BY LineStep
  <1>1. CASE s = <<>>
    BY <1>0, <1>1 DEF Falls
  <1>2. CASE s # <<>>
    <2> DEFINE m == Len(s) - 1
               S == {k \in 0 .. m : blockOf(s[Len(s) - k]) \in Line(from)}
    <2>1. Len(s) \in Nat /\ m \in Nat /\ \A i \in 1 .. Len(s) : s[i] \in Nodes
      BY <1>2, EmptySeq
    <2>2. m \in S
      <3>1. m \in 0 .. m /\ Len(s) - m = 1
        BY <2>1
      <3> QED
        BY <3>1, <1>0, <1>2 DEF Falls
    <2>3. ASSUME NEW k \in 0 .. m - 1, k + 1 \in S PROVE k \in S
      <3> DEFINE i == Len(s) - (k + 1)
      <3>1. i \in 1 .. Len(s) - 1 /\ i + 1 = Len(s) - k /\ k \in 0 .. m /\ i \in 1 .. Len(s)
        BY <2>1
      <3>2. blockOf(s[i]) \in Line(from)
        BY <2>3
      <3> HIDE DEF i
      <3>3. blockOf(s[i]) \in Blocks /\ Line(blockOf(s[i])) \subseteq Line(from)
        BY <3>2, LineBelow
      <3>4. blockOf(s[i + 1]) = Parent[blockOf(s[i])]
        BY <3>1 DEF Falls
      <3>5. Parent[blockOf(s[i])] \in Line(blockOf(s[i]))
        <4>1. blockOf(s[i]) = Genesis => Parent[blockOf(s[i])] = blockOf(s[i])
          BY ChainAssumption
        <4> QED
          BY <4>1, <3>3, ParentFacts, LineStep
      <3> QED
        BY <3>1, <3>3, <3>4, <3>5
    <2>4. 0 .. m \subseteq S
      <3> HIDE DEF S, m
      <3> QED
        BY <2>1, <2>2, <2>3, Downward
    <2>5. ASSUME NEW i \in 1 .. Len(s) PROVE blockOf(s[i]) \in Line(from)
      <3>1. Len(s) - i \in 0 .. m /\ Len(s) - (Len(s) - i) = i
        BY <2>1
      <3>2. Len(s) - i \in S
        BY <3>1, <2>4
      <3> QED
        BY <3>1, <3>2
    <2>6. to \in Line(from)
      <3> DEFINE c == blockOf(s[Len(s)])
      <3>1. Len(s) \in 1 .. Len(s)
        BY <2>1
      <3>2. c \in Line(from)
        BY <3>1, <2>5
      <3> HIDE DEF c
      <3>3. c \in Blocks /\ Line(c) \subseteq Line(from)
        BY <3>2, LineBelow
      <3>4. Parent[c] \in Line(c)
        <4>1. c = Genesis => Parent[c] = c
          BY ChainAssumption
        <4> QED
          BY <4>1, <3>3, ParentFacts, LineStep
      <3> QED
        BY <1>2, <3>3, <3>4 DEF Falls, c
    <2> QED
      BY <2>5, <2>6
  <1> QED
    BY <1>1, <1>2

LEMMA RisesLine ==
    ASSUME NEW s \in Seq(Nodes), Grown(s), NEW from, Rises(s, from), NEW j \in 1 .. Len(s)
    PROVE  \A i \in 1 .. j : blockOf(s[i]) \in Line(blockOf(s[j]))
  <1> DEFINE b == blockOf(s[j])
             S == {k \in 0 .. j : k # 0 => blockOf(s[k]) \in Line(b)}
  <1>1. /\ Len(s) \in Nat /\ j \in Nat /\ \A i \in 1 .. Len(s) : blockOf(s[i]) \in Blocks
    BY NodeFacts
  <1>2. j \in S
    BY <1>1, LineStep
  <1>3. ASSUME NEW k \in 0 .. j - 1, k + 1 \in S PROVE k \in S
    <2>1. k \in 0 .. j /\ k + 1 # 0 /\ k + 1 \in 1 .. Len(s)
      BY <1>1
    <2>2. CASE k = 0
      BY <2>1, <2>2
    <2>3. CASE k # 0
      <3>1. k \in 1 .. Len(s) - 1
        BY <1>1, <2>3
      <3>2. Parent[blockOf(s[k + 1])] = blockOf(s[k])
        BY <3>1 DEF Rises
      <3>3. blockOf(s[k + 1]) # Genesis /\ blockOf(s[k + 1]) \in Blocks
        BY <2>1, <1>1 DEF Grown
      <3>4. blockOf(s[k + 1]) \in Line(b)
        BY <1>3, <2>1
      <3> HIDE DEF b
      <3>5. Line(blockOf(s[k + 1])) \subseteq Line(b)
        BY <3>4, <1>1, LineBelow DEF b
      <3>6. blockOf(s[k]) \in Line(b)
        BY <3>2, <3>3, <3>5, ParentFacts
      <3> QED
        BY <2>1, <3>6
    <2> QED
      BY <2>2, <2>3
  <1>4. 0 .. j \subseteq S
    <2> HIDE DEF S
    <2> QED
      BY <1>1, <1>2, <1>3, Downward
  <1>5. ASSUME NEW i \in 1 .. j PROVE blockOf(s[i]) \in Line(b)
    <2>1. i \in 0 .. j /\ i # 0
      BY <1>1
    <2>2. i \in S
      BY <2>1, <1>4
    <2> QED
      BY <2>1, <2>2
  <1> QED
    BY <1>5

\* A branch that rises from a block has the line of that block below it.
LEMMA RisesCover ==
    ASSUME NEW s \in Seq(Nodes), s # <<>>, Grown(s), NEW from \in Blocks, Rises(s, from),
           NEW X, Line(from) \cap X = {}, \A i \in 1 .. Len(s) : blockOf(s[i]) \notin X
    PROVE  Line(blockOf(s[Len(s)])) \cap X = {}
  <1> DEFINE m == Len(s) - 1
             S == {i \in 1 .. Len(s) : Line(blockOf(s[i])) \cap X # {}}
  <1>1. /\ Len(s) \in Nat \ {0} /\ \A i \in 1 .. Len(s) : blockOf(s[i]) \in Blocks /\ blockOf(s[i]) # Genesis
    BY EmptySeq, NodeFacts DEF Grown
  <1>2. S \in SUBSET Nat
    OBVIOUS
  <1>3. ASSUME S # {} PROVE FALSE
    <2>1. PICK i \in S : \A j \in S : i <= j
      <3> HIDE DEF S
      <3> QED
        BY <1>2, <1>3, LeastNumber
    <2>2. i \in 1 .. Len(s) /\ Line(blockOf(s[i])) \cap X # {} /\ blockOf(s[i]) \notin X
      BY <2>1
    <2>3. Line(blockOf(s[i])) = Line(Parent[blockOf(s[i])]) \cup {blockOf(s[i])}
      BY <2>2, <1>1, ParentFacts
    <2>4. Line(Parent[blockOf(s[i])]) \cap X # {}
      BY <2>2, <2>3
    <2>5. CASE i = 1
      BY <2>4, <2>5 DEF Rises
    <2>6. CASE i # 1
      <3>1. i - 1 \in 1 .. Len(s) - 1 /\ (i - 1) + 1 = i /\ i - 1 \in 1 .. Len(s) /\ ~(i <= i - 1)
        BY <1>1, <2>2, <2>6
      <3>2. Parent[blockOf(s[i])] = blockOf(s[i - 1])
        BY <3>1 DEF Rises
      <3>3. i - 1 \in S
        BY <3>1, <3>2, <2>4
      <3> QED
        BY <3>1, <3>3, <2>1
    <2> QED
      BY <2>5, <2>6
  <1>4. Len(s) \in 1 .. Len(s)
    BY <1>1
  <1> QED
    BY <1>3, <1>4

-----------------------------------------------------------------------------
(* Flags.                                                                  *)

\* Every flagged node has a block of X at or below it.
Blamed(X) == \A n \in failed \cup invAnc : Line(blockOf(n)) \cap X # {}

LEMMA BlamedMark ==
    ASSUME Typed, NEW X, Blamed(X), NEW n, Real(n)
    PROVE  \A m \in Reorg(n).mark : Line(blockOf(m)) \cap X # {}
  <1> TAKE m \in Reorg(n).mark
  <1>1. PICK k \in failed \cup invAnc : blockOf(k) \in Line(blockOf(m)) /\ m \in Nodes
    BY ReorgMore DEF Typed, IndexOK, StateOK
  <1>2. Line(blockOf(k)) \subseteq Line(blockOf(m))
    BY <1>1, LineBelow, NodeFacts
  <1> QED
    BY <1>1, <1>2 DEF Blamed

LEMMA BlamedVerify ==
    ASSUME Typed, Safe, NEW p \in Procs, verifyReorganizationValidity(p), "overlap" \notin events,
           NEW X, Bad \subseteq X, Blamed(X)
    PROVE  Blamed(X)'
  <1> DEFINE t == task[p]
        lacking == {i \in DOMAIN t.attach : blockOf(t.attach[i]) \notin disk}
        wrong == {i \in DOMAIN t.attach : Breaks(t.attach[i])}
        stop == CHOOSE i \in lacking \cup wrong : \A j \in lacking \cup wrong : i <= j
        above(i) == {t.attach[j] : j \in i + 1 .. Len(t.attach)}
  <1>1. /\ t \in Tasks /\ t.attach \in Seq(Nodes) /\ Grown(t.attach) /\ t.pc = "verify"
        /\ SafeTask(t, tip, events)
    BY TaskFacts DEF verifyReorganizationValidity, At, Ctl, Tasks, Safe
  <1>2. CASE UNCHANGED <<failed, invAnc>>
    BY <1>2 DEF Blamed
  <1>3. CASE /\ lacking \cup wrong # {}
             /\ failed' = IF stop \in lacking THEN failed ELSE failed \cup {t.attach[stop]}
             /\ invAnc' = IF stop \in lacking THEN invAnc ELSE invAnc \cup above(stop)
    <2>1. stop \in lacking \cup wrong
      <3>1. lacking \cup wrong \in SUBSET Nat
        BY <1>1
      <3> HIDE DEF lacking, wrong
      <3> QED
        BY <3>1, <1>3, LeastNumber
    <2>2. CASE stop \in lacking
      BY <1>3, <2>2 DEF Blamed
    <2>3. CASE stop \notin lacking
      <3>0. stop \in wrong
        <4> HIDE DEF stop, lacking, wrong
        <4> QED
          BY <2>1, <2>3
      <3> HIDE DEF stop
      <3>1. stop \in 1 .. Len(t.attach) /\ blockOf(t.attach[stop]) \in Bad
        BY <1>1, <3>0 DEF Breaks
      <3> HIDE DEF lacking, wrong
      <3>2. t.op # "invalidate"
        BY <1>1, <3>1 DEF SafeTask
      <3>3. PICK f \in Blocks : Rises(t.attach, f)
        BY <1>1, <3>2 DEF SafeTask
      <3>4. ASSUME NEW j \in stop .. Len(t.attach) PROVE Line(blockOf(t.attach[j])) \cap X # {}
        <4>1. j \in 1 .. Len(t.attach) /\ stop \in 1 .. j
          BY <1>1, <3>1
        <4>2. blockOf(t.attach[stop]) \in Line(blockOf(t.attach[j]))
          BY <4>1, <1>1, <3>3, RisesLine
        <4> QED
          BY <3>1, <4>2
      <3>5. /\ stop \in stop .. Len(t.attach)
            /\ \A j \in stop + 1 .. Len(t.attach) : j \in stop .. Len(t.attach)
        BY <1>1, <3>1
      <3>6. \A m \in above(stop) : Line(blockOf(m)) \cap X # {}
        BY <3>4, <3>5
      <3> HIDE DEF above
      <3>7. failed' = failed \cup {t.attach[stop]} /\ invAnc' = invAnc \cup above(stop)
        BY <1>3, <2>3
      <3>8. Line(blockOf(t.attach[stop])) \cap X # {}
        BY <3>4, <3>5
      <3> QED
        BY <3>6, <3>7, <3>8 DEF Blamed
    <2> QED
      BY <2>2, <2>3
  <1> QED
    BY <1>2, <1>3 DEF verifyReorganizationValidity, flagVars

\* Without a command or a rollback, flags come from bad blocks and from flags.
LEMMA BlamedNext ==
    ASSUME Typed, Safe, [Next]_vars, "overlap" \notin events, commands' = commands, rollbacks' = rollbacks,
           NEW X, Bad \subseteq X, Blamed(X)
    PROVE  Blamed(X)'
  <1>0. commands \in Nat /\ rollbacks \in Nat
    BY DEF Typed, StateOK
  <1>1. CASE UNCHANGED vars
    BY <1>1 DEF vars, flagVars, Blamed
  <1>2. ASSUME NEW b \in Blocks, NEW flags \in Given,
               ProcessOrphanBlock(b) \/ ProcessBlock(b, flags) \/ ResumeBlockConnect
        PROVE  Blamed(X)'
    BY <1>2 DEF ProcessOrphanBlock, ProcessBlock, ResumeBlockConnect, flagVars, Blamed
  <1>3. ASSUME NEW b \in Blocks, ProcessBlockHeader(b) PROVE Blamed(X)'
    <2>1. failed' \subseteq failed /\ invAnc' \subseteq invAnc
      BY <1>3 DEF ProcessBlockHeader
    <2> QED
      BY <2>1 DEF Blamed
  <1>4. ASSUME NEW b \in Blocks, InvalidateBlock(b) \/ ReconsiderBlock(b) PROVE FALSE
    <2>1. commands' = commands + 1
      BY <1>4 DEF InvalidateBlock, ReconsiderBlock
    <2> QED
      BY <1>0, <2>1
  <1>5. ASSUME NEW h, InvalidateHeaderChain(h) PROVE FALSE
    <2>1. rollbacks' = rollbacks + 1
      BY <1>5 DEF InvalidateHeaderChain
    <2> QED
      BY <1>0, <2>1
  <1>6. ASSUME NEW p \in Procs,
               \/ maybeAcceptBlock(p) \/ processOrphans(p) \/ RemoveBlockData(p)
               \/ disconnectBlock(p) \/ connectBlock(p) \/ endReorganize(p) \/ removeDisconnectedBlocks(p)
        PROVE  Blamed(X)'
    <2>1. failed' = failed /\ invAnc' = invAnc
      BY <1>6 DEF maybeAcceptBlock, processOrphans, RemoveBlockData, disconnectBlock, connectBlock,
                  endReorganize, removeDisconnectedBlocks, flagVars
    <2> QED
      BY <2>1 DEF Blamed
  <1>7. ASSUME NEW p \in Procs, finishAccept(p) PROVE Blamed(X)'
    <2>1. failed' = failed /\ invAnc' \subseteq invAnc
      BY <1>7 DEF finishAccept
    <2> QED
      BY <2>1 DEF Blamed
  <1>8. ASSUME NEW n, Real(n), failed' = failed, invAnc' = invAnc \cup Reorg(n).mark PROVE Blamed(X)'
    <2>1. \A m \in Reorg(n).mark : Line(blockOf(m)) \cap X # {}
      BY <1>8, BlamedMark
    <2> QED
      BY <1>8, <2>1 DEF Blamed
  <1>9. ASSUME NEW p \in Procs, connectBestChain(p) PROVE Blamed(X)'
    <2> DEFINE b == task[p].block
               n == LookupNode(b)
    <2>1. b \in Blocks /\ Known(b)
      BY <1>9, TaskFacts DEF connectBestChain, At, Ctl, Tasks, Known
    <2>2. Real(n) /\ blockOf(n) = b /\ b \in Line(b)
      BY <2>1, KnownNode, LineStep DEF Typed
    <2>3. \/ b \in Bad /\ failed' = failed \cup {n} /\ invAnc' = invAnc
          \/ failed' = failed /\ invAnc' = invAnc
          \/ failed' = failed /\ invAnc' = invAnc \cup Reorg(n).mark
      BY <1>9 DEF connectBestChain, flagVars
    <2> HIDE DEF n
    <2>4. Line(b) \cap X # {} \/ b \notin Bad
      BY <2>2
    <2> QED
      BY <2>2, <2>3, <2>4, <1>8 DEF Blamed
  <1>10. ASSUME NEW p \in Procs, rehome(p) PROVE Blamed(X)'
    <2>1. \/ failed' = failed /\ invAnc' = invAnc
          \/ \E n \in InactiveTips : failed' = failed /\ invAnc' = invAnc \cup Reorg(n).mark
      BY <1>10 DEF rehome
    <2>2. \A n \in InactiveTips : Real(n)
      BY InactiveFacts DEF Typed
    <2> QED
      BY <2>1, <2>2, <1>8 DEF Blamed
  <1>11. ASSUME NEW p \in Procs, reconsiderBranch(p) PROVE Blamed(X)'
    <2>1. Real(task[p].attach[1])
      BY <1>11, TaskFacts DEF reconsiderBranch, At, Ctl
    <2> QED
      BY <2>1, <1>8, <1>11 DEF reconsiderBranch
  <1> QED
    BY <1>1, <1>2, <1>3, <1>4, <1>5, <1>6, <1>7, <1>9, <1>10, <1>11, BlamedVerify, GivenFacts,
       ChainAssumption DEF Next

-----------------------------------------------------------------------------
(* Without a command and a rollback.                                       *)

Good(b) == Line(b) \cap Bad = {}
First(n) == n = <<blockOf(n), 1>>

\* Every block has at most one node.
OneNode ==
    /\ \A b \in Blocks : lookup[b] \in {0, 1} /\ made[b] = lookup[b]
    /\ par = Ones
FirstNodes ==
    /\ First(tip) /\ First(htip)
    /\ \A n \in data : First(n) /\ Known(blockOf(n))

\* The handler reorganizes towards the block it works on, and past the check
\* only if no block on the way there is bad.
PeaceTask(t, tp) ==
    /\ t.op # "rollback"
    /\ \A i \in 1 .. Len(t.attach) : First(t.attach[i])
    /\ t.pc \in {"verify", "reorg"} =>
          /\ t.attach # <<>> => blockOf(t.attach[Len(t.attach)]) = t.block
          /\ t.attach = <<>> => t.detach = <<>> /\ (~Good(t.block) \/ blockOf(tp) = t.block)
    /\ t.pc = "reorg" /\ t.attach # <<>> => Good(t.block)

Peace ==
    Undisturbed /\ "unchecked" \notin events => OneNode /\ FirstNodes /\ Blamed(Bad) /\ PeaceTask(task[Handler], tip)

LEMMA OnesView ==
    ASSUME par = Ones, NEW b \in Blocks
    PROVE  /\ View(<<b, 1>>) = {<<c, 1>> : c \in Line(b)}
           /\ \A h \in 0 .. height[b] : First(Ancestor(<<b, 1>>, h))
  <1> DEFINE n == <<b, 1>>
  <1>1. Ones \in Gens /\ n \in Nodes /\ blockOf(n) = b /\ H(n) = height[b] /\ height[b] \in Nat
    BY OnesFacts, TreeAssumption
  <1>2. ASSUME NEW h \in 0 .. H(n) PROVE First(Anc(Ones, n, h))
    <2>1. CASE h = H(n)
      BY <1>1, <2>1, AncFacts DEF First
    <2>2. CASE h # H(n)
      <3>1. h \in 0 .. H(n) - 1 /\ h + 1 \in 0 .. H(n)
        BY <1>1, <2>2
      <3>2. Anc(Ones, n, h) = Up(Ones, Anc(Ones, n, h + 1)) /\ Anc(Ones, n, h + 1) \in Nodes
        BY <1>1, <3>1, AncFacts
      <3> QED
        BY <3>2 DEF Up, Ones, First, blockOf
    <2> QED
      BY <2>1, <2>2
  <1>3. View(n) = {Anc(Ones, n, h) : h \in 0 .. H(n)}
    BY AncestorIs DEF View
  <1>4. Line(b) = {blockOf(Anc(Ones, n, h)) : h \in 0 .. H(n)}
    BY <1>1 DEF Line
  <1>5. \A h \in 0 .. H(n) : Anc(Ones, n, h) = <<blockOf(Anc(Ones, n, h)), 1>>
    BY <1>2 DEF First
  <1>6. \A h \in 0 .. height[b] : First(Ancestor(n, h))
    BY <1>1, <1>2, AncestorIs
  <1> HIDE DEF n
  <1>7. View(n) = {<<c, 1>> : c \in Line(b)}
    BY <1>3, <1>4, <1>5
  <1> QED
    BY <1>6, <1>7 DEF n

LEMMA OneNodeFacts ==
    ASSUME IndexOK, OneNode, NEW b \in Blocks
    PROVE  Known(b) => LookupNode(b) = <<b, 1>> /\ First(LookupNode(b))
  BY DEF OneNode, Known, LookupNode, First, blockOf

LEMMA OneNodeAdd ==
    ASSUME IndexOK, OneNode, NEW b \in Blocks \ {Genesis}, Known(Parent[b]), ~Known(b), AddNode(b)
    PROVE  /\ OneNode' /\ lookup'[b] = 1
           /\ \A c \in Blocks : Known(c) => Known(c)'
           /\ Known(b)'
  <1>1. /\ IndexOK' /\ lookup'[b] = made[b] + 1
        /\ \A c \in Blocks \ {b} : lookup'[c] = lookup[c] /\ made'[c] = made[c]
        /\ \A n \in Nodes : n # <<b, made[b] + 1>> => par'[n] = par[n]
        /\ par'[<<b, made[b] + 1>>] = lookup[Parent[b]]
    BY AddNodeFacts
  <1>2. made[b] = 0 /\ lookup'[b] = 1
    BY <1>1 DEF OneNode, Known
  <1>3. made'[b] = 1
    BY <1>1, <1>2 DEF AddNode, IndexOK
  <1>4. Parent[b] \in Blocks /\ lookup[Parent[b]] = 1
    BY ChainAssumption DEF OneNode, Known
  <1>5. par' = Ones
    <2>1. par' \in [Nodes -> 1 .. MaxGen]
      BY <1>1 DEF IndexOK, RealGens, Gens
    <2>2. \A n \in Nodes : par[n] = 1
      BY DEF OneNode, Ones
    <2>3. \A n \in Nodes : par'[n] = 1
      BY <1>1, <1>4, <2>2
    <2> QED
      BY <2>1, <2>3 DEF Ones
  <1>6. OneNode'
    BY <1>1, <1>2, <1>3, <1>5 DEF OneNode
  <1> QED
    BY <1>1, <1>2, <1>6 DEF Known

PeaceBegins ==
    \/ \E b \in Blocks :
          \/ ProcessOrphanBlock(b)
          \/ \E flags \in Given : ProcessBlock(b, flags)
          \/ ProcessBlockHeader(b)
    \/ ResumeBlockConnect

PeaceGoesOn ==
    \/ maybeAcceptBlock(Handler) \/ connectBestChain(Handler) \/ finishAccept(Handler)
    \/ processOrphans(Handler) \/ RemoveBlockData(Handler)
    \/ verifyReorganizationValidity(Handler)
    \/ disconnectBlock(Handler) \/ connectBlock(Handler) \/ endReorganize(Handler)

LEMMA PeaceSteps ==
    ASSUME Typed, Lone, Peace, [Next]_vars, Undisturbed', "unchecked" \notin events'
    PROVE  /\ Undisturbed /\ commands = 0 /\ rollbacks = 0
           /\ commands' = commands /\ rollbacks' = rollbacks
           /\ task[Rpc] = Idle /\ "overlap" \notin events /\ Foul(events) = Bad
           /\ OneNode /\ FirstNodes /\ Blamed(Bad) /\ PeaceTask(task[Handler], tip)
           /\ UNCHANGED vars \/ PeaceBegins \/ PeaceGoesOn
           /\ Overlaps(Handler) => events' = events
           /\ PeaceBegins => task[Handler] = Idle
  <1>0. /\ commands \in Nat /\ rollbacks \in Nat /\ commands' \in Nat /\ rollbacks' \in Nat
    BY TypedNext DEF Typed, StateOK
  <1>1. commands' = 0 /\ rollbacks' = 0
    <2>1. commands' + rollbacks' = 0
      BY DEF Undisturbed
    <2>2. \A x, y \in Nat : x + y = 0 => x = 0 /\ y = 0
      OBVIOUS
    <2> QED
      BY <1>0, <2>1, <2>2
  <1>2. /\ commands = 0 /\ task[Rpc] = Idle /\ "overlap" \notin events
        /\ UNCHANGED vars \/ HandlerBegins \/ HandlerGoesOn
        /\ Overlaps(Handler) => events' = events
        /\ rollbacks' \in {rollbacks, rollbacks + 1}
    BY <1>1, HandlerSteps
  <1>3. rollbacks = 0 /\ Undisturbed
    BY <1>0, <1>1, <1>2 DEF Undisturbed
  <1>9. "unchecked" \notin events /\ Foul(events) = Bad
    BY EventsGrow DEF Foul
  <1>4. OneNode /\ FirstNodes /\ Blamed(Bad) /\ PeaceTask(task[Handler], tip)
    BY <1>3, <1>9 DEF Peace
  <1>5. ASSUME NEW h, InvalidateHeaderChain(h) PROVE FALSE
    <2>1. rollbacks' = rollbacks + 1
      BY <1>5 DEF InvalidateHeaderChain
    <2> QED
      BY <1>1, <1>3, <2>1
  <1>6. ~removeDisconnectedBlocks(Handler)
    <2> SUFFICES ASSUME removeDisconnectedBlocks(Handler) PROVE FALSE
      OBVIOUS
    <2>1. task[Handler].pc = "rollback"
      BY DEF removeDisconnectedBlocks, At
    <2> QED
      BY <1>4, <2>1, TaskFacts, ProcFacts DEF Ctl, PeaceTask
  <1>7. UNCHANGED vars \/ PeaceBegins \/ PeaceGoesOn
    BY <1>2, <1>5, <1>6 DEF HandlerBegins, HandlerGoesOn, PeaceBegins, PeaceGoesOn
  <1>8. PeaceBegins => task[Handler] = Idle
    BY Begins DEF HandlerBegins, PeaceBegins
  <1> QED
    BY <1>1, <1>2, <1>3, <1>4, <1>7, <1>8, <1>9

\* The block index: the first node of every block is the only one.
LEMMA OneNodeNext ==
    ASSUME Typed, OneNode, FirstNodes, PeaceTask(task[Handler], tip), PeaceBegins \/ PeaceGoesOn
    PROVE  OneNode' /\ FirstNodes'
  <1>0. IndexOK
    BY DEF Typed
  <1>1. ASSUME UNCHANGED <<made, lookup, par>>, First(tip'), First(htip'), data' \subseteq data
        PROVE  OneNode' /\ FirstNodes'
    <2>1. lookup' = lookup /\ made' = made /\ par' = par
      BY <1>1
    <2> QED
      BY <1>1, <2>1 DEF OneNode, FirstNodes, Known
  <1>2. First(tip) /\ First(htip)
    BY DEF FirstNodes
  <1>3. ASSUME NEW b \in Blocks, NEW flags \in Given,
               ProcessOrphanBlock(b) \/ ProcessBlock(b, flags) \/ ResumeBlockConnect
        PROVE  OneNode' /\ FirstNodes'
    <2>1. made' = made /\ lookup' = lookup /\ par' = par /\ tip' = tip /\ htip' = htip /\ data' \subseteq data
      BY <1>3 DEF ProcessOrphanBlock, ProcessBlock, ResumeBlockConnect, indexVars
    <2> QED
      BY <1>1, <1>2, <2>1
  <1>4. ASSUME NEW b \in Blocks, ProcessBlockHeader(b) PROVE OneNode' /\ FirstNodes'
    <2> DEFINE node == <<b, lookup'[b]>>
    <2>1. /\ tip' = tip /\ data' = data /\ htip' \in {htip, node} /\ b # Genesis /\ Known(Parent[b])
          /\ (Known(b) /\ UNCHANGED <<made, lookup, par>>) \/ (~Known(b) /\ AddNode(b))
      BY <1>4 DEF ProcessBlockHeader, Links
    <2>2. /\ OneNode' /\ lookup'[b] = 1 /\ \A c \in Blocks : Known(c) => Known(c)'
      <3>1. CASE Known(b) /\ UNCHANGED <<made, lookup, par>>
        <4>1. lookup' = lookup /\ made' = made /\ par' = par
          BY <3>1
        <4> QED
          BY <3>1, <4>1 DEF OneNode, Known
      <3>2. CASE ~Known(b) /\ AddNode(b)
        BY <1>0, <2>1, <3>2, OneNodeAdd
      <3> QED
        BY <2>1, <3>1, <3>2
    <2>3. First(htip') /\ First(tip')
      BY <1>2, <2>1, <2>2 DEF First, blockOf
    <2>4. \A n \in data' : First(n) /\ Known(blockOf(n))'
      <3>1. data \subseteq Nodes
        BY DEF Typed, StateOK
      <3> QED
        BY <2>1, <2>2, <3>1, NodeFacts DEF FirstNodes
    <2> QED
      BY <2>2, <2>3, <2>4 DEF FirstNodes
  <1>5. CASE maybeAcceptBlock(Handler)
    <2> DEFINE b == task[Handler].block
    <2>1. b \in Blocks /\ b # Genesis
      BY <1>5, TaskFacts, ProcFacts DEF maybeAcceptBlock, At, Ctl, Tasks
    <2>2. tip' = tip /\ htip' = htip
      BY <1>5 DEF maybeAcceptBlock
    <2>3. CASE UNCHANGED <<indexVars, data>>
      <3>1. made' = made /\ lookup' = lookup /\ par' = par /\ data' = data
        BY <2>3 DEF indexVars
      <3> QED
        BY <1>1, <1>2, <2>2, <3>1
    <2>4. CASE /\ ~rejected(b, "mined" \in task[Handler].flags)
               /\ \/ Known(b) /\ UNCHANGED <<made, lookup, par>>
                  \/ ~Known(b) /\ AddNode(b)
               /\ data' = data \cup {<<b, lookup'[b]>>}
      <3>1. Known(Parent[b])
        BY <2>4 DEF rejected
      <3>2. /\ OneNode' /\ lookup'[b] = 1 /\ \A c \in Blocks : Known(c) => Known(c)'
        <4>1. CASE Known(b) /\ UNCHANGED <<made, lookup, par>>
          <5>1. lookup' = lookup /\ made' = made /\ par' = par
            BY <4>1
          <5> QED
            BY <2>1, <4>1, <5>1 DEF OneNode, Known
        <4>2. CASE ~Known(b) /\ AddNode(b)
          BY <1>0, <2>1, <3>1, <4>2, OneNodeAdd
        <4> QED
          BY <2>4, <4>1, <4>2
      <3>3. \A n \in data : First(n) /\ Known(blockOf(n))'
        <4>1. data \subseteq Nodes
          BY DEF Typed, StateOK
        <4> QED
          BY <3>2, <4>1, NodeFacts DEF FirstNodes
      <3>4. data' = data \cup {<<b, 1>>} /\ First(<<b, 1>>) /\ blockOf(<<b, 1>>) = b
            /\ lookup'[b] = 1
        BY <2>1, <2>4, <3>2 DEF First, blockOf
      <3>5. \A n \in data' : First(n) /\ Known(blockOf(n))'
        BY <3>3, <3>4 DEF Known
      <3>6. First(tip)' /\ First(htip)'
        BY <1>2, <2>2
      <3> QED
        BY <3>2, <3>5, <3>6 DEF FirstNodes
    <2> QED
      BY <1>5, <2>3, <2>4 DEF maybeAcceptBlock
  <1>6. CASE connectBestChain(Handler)
    <2> DEFINE b == task[Handler].block
    <2>1. b \in Blocks /\ Known(b)
      BY <1>6, TaskFacts, ProcFacts DEF connectBestChain, At, Ctl, Tasks, Known
    <2>2. First(LookupNode(b))
      BY <1>0, <2>1, OneNodeFacts
    <2>3. /\ made' = made /\ lookup' = lookup /\ par' = par /\ htip' = htip /\ data' = data
          /\ tip' \in {tip, LookupNode(b)}
      BY <1>6 DEF connectBestChain, indexVars
    <2> QED
      BY <1>1, <1>2, <2>2, <2>3
  <1>7. CASE finishAccept(Handler)
    <2> DEFINE b == task[Handler].block
    <2>1. b \in Blocks /\ Known(b)
      BY <1>7, TaskFacts, ProcFacts DEF finishAccept, At, Ctl, Tasks, Known
    <2>2. First(LookupNode(b))
      BY <1>0, <2>1, OneNodeFacts
    <2>3. /\ made' = made /\ lookup' = lookup /\ par' = par /\ tip' = tip /\ data' = data
          /\ htip' \in {htip, LookupNode(b)}
      BY <1>7 DEF finishAccept, HeaderTip
    <2> QED
      BY <1>1, <1>2, <2>2, <2>3
  <1>8. CASE \/ processOrphans(Handler) \/ verifyReorganizationValidity(Handler) \/ endReorganize(Handler)
             \/ RemoveBlockData(Handler)
    <2>1. made' = made /\ lookup' = lookup /\ par' = par /\ tip' = tip /\ htip' = htip /\ data' \subseteq data
      BY <1>8 DEF processOrphans, verifyReorganizationValidity, endReorganize, RemoveBlockData, indexVars
    <2> QED
      BY <1>1, <1>2, <2>1
  <1>9. CASE disconnectBlock(Handler)
    <2> DEFINE n == task[Handler].detach[1]
    <2>1. task[Handler].detach \in Seq(Nodes) /\ task[Handler].detach # <<>>
      BY <1>9, TaskFacts, ProcFacts DEF disconnectBlock, Tasks
    <2>2. n \in Nodes
      <3>1. 1 \in 1 .. Len(task[Handler].detach)
        BY <2>1, EmptySeq
      <3> QED
        BY <2>1, <3>1
    <2>3. /\ made' = made /\ lookup' = lookup /\ par' = par /\ htip' = htip /\ data' = data
          /\ tip' \in {tip, parentOf(n)}
      BY <1>9 DEF disconnectBlock
    <2>4. First(parentOf(n))
      BY <2>2 DEF parentOf, OneNode, Ones, First, blockOf
    <2> QED
      BY <1>1, <1>2, <2>3, <2>4
  <1>10. CASE connectBlock(Handler)
    <2> DEFINE n == task[Handler].attach[1]
    <2>1. task[Handler].attach \in Seq(Nodes) /\ task[Handler].attach # <<>>
      BY <1>10, TaskFacts, ProcFacts DEF connectBlock, Tasks
    <2>2. First(n)
      <3>1. 1 \in 1 .. Len(task[Handler].attach)
        BY <2>1, EmptySeq
      <3> QED
        BY <3>1 DEF PeaceTask
    <2>3. /\ made' = made /\ lookup' = lookup /\ par' = par /\ htip' = htip /\ data' = data
          /\ tip' \in {tip, n}
      BY <1>10 DEF connectBlock, indexVars
    <2> QED
      BY <1>1, <1>2, <2>2, <2>3
  <1> QED
    BY <1>3, <1>4, <1>5, <1>6, <1>7, <1>8, <1>9, <1>10, GivenFacts, ChainAssumption
    DEF PeaceBegins, PeaceGoesOn

LEMMA PeaceQuiet ==
    ASSUME NEW t, NEW tp, t.op # "rollback", t.pc \notin {"verify", "reorg"},
           \A i \in 1 .. Len(t.attach) : First(t.attach[i])
    PROVE  PeaceTask(t, tp)
  BY DEF PeaceTask

LEMMA PeaceIdle == ASSUME NEW tp PROVE PeaceTask(Idle, tp)
  <1>1. Len(<<>>) = 0
    OBVIOUS
  <1> QED
    BY <1>1, IdleFacts, PeaceQuiet

LEMMA PeaceFail ==
    ASSUME Typed, PeaceTask(task[Handler], tip), NEW r, NEW es, Fail(Handler, r, es)
    PROVE  PeaceTask(task'[Handler], tip')
  <1> DEFINE t == task[Handler]
             u == task'[Handler]
  <1>1. u = Idle \/ (u.pc = "remove" /\ u.op = "resume" /\ u.attach = t.attach)
    BY FailIs
  <1>2. \A i \in 1 .. Len(t.attach) : First(t.attach[i])
    BY DEF PeaceTask
  <1> HIDE DEF t, u
  <1>3. CASE u = Idle
    BY <1>3, PeaceIdle DEF u
  <1>4. CASE u.pc = "remove" /\ u.op = "resume" /\ u.attach = t.attach
    BY <1>2, <1>4, PeaceQuiet DEF u
  <1> QED
    BY <1>1, <1>3, <1>4

\* The handler keeps what it attaches, and is not reorganizing.
LEMMA PeaceMove ==
    ASSUME Typed, PeaceTask(task[Handler], tip), NEW u, task' = [task EXCEPT ![Handler] = u],
           u.op = task[Handler].op, u.pc \notin {"verify", "reorg"}, u.attach = task[Handler].attach
    PROVE  PeaceTask(task'[Handler], tip')
  <1>1. task'[Handler] = u
    BY TaskIs
  <1> QED
    BY <1>1, PeaceQuiet DEF PeaceTask

LEMMA PeaceTaskBegins ==
    ASSUME Typed, PeaceTask(task[Handler], tip), task[Handler] = Idle, PeaceBegins
    PROVE  PeaceTask(task'[Handler], tip')
  <1>0. Len(<<>>) = 0
    OBVIOUS
  <1>1. ASSUME NEW b \in Blocks, ProcessOrphanBlock(b) \/ ProcessBlockHeader(b)
        PROVE  PeaceTask(task'[Handler], tip')
    <2>1. task' = task /\ tip' = tip
      BY <1>1 DEF ProcessOrphanBlock, ProcessBlockHeader
    <2> QED
      BY <2>1
  <1>2. ASSUME NEW b \in Blocks, NEW flags \in Given, ProcessBlock(b, flags)
        PROVE  PeaceTask(task'[Handler], tip')
    <2> DEFINE u == [Idle EXCEPT !.pc = "accept", !.op = "accept", !.block = b,
                                 !.flags = flags]
    <2>1. task' = [task EXCEPT ![Handler] = u] /\ u.pc = "accept" /\ u.op = "accept" /\ u.attach = <<>>
      BY <1>2 DEF ProcessBlock, Keep, Idle
    <2> HIDE DEF u
    <2>2. task'[Handler] = u
      BY <2>1, TaskIs
    <2> QED
      BY <1>0, <2>1, <2>2, PeaceQuiet
  <1>3. CASE ResumeBlockConnect
    <2> DEFINE c == blockOf(Ancestor(htip, H(tip) + 1))
               u == [Idle EXCEPT !.pc = "accept", !.op = "resume", !.block = c]
    <2>1. task' = [task EXCEPT ![Handler] = u]
      BY <1>3 DEF ResumeBlockConnect, Keep
    <2> HIDE DEF c
    <2>2. u.pc = "accept" /\ u.op = "resume" /\ u.attach = <<>>
      BY DEF Idle
    <2> HIDE DEF u
    <2>3. task'[Handler] = u
      BY <2>1, TaskIs
    <2> QED
      BY <1>0, <2>2, <2>3, PeaceQuiet
  <1> QED
    BY <1>1, <1>2, <1>3 DEF PeaceBegins

LEMMA PeaceConnectBestChain ==
    ASSUME Typed, OneNode, Blamed(Bad), PeaceTask(task[Handler], tip), connectBestChain(Handler)
    PROVE  PeaceTask(task'[Handler], tip')
  <1> DEFINE t == task[Handler]
             b == t.block
             n == LookupNode(b)
             r == Reorg(n)
  <1>1. t \in Tasks /\ t.pc = "connect" /\ t.op \in {"accept", "resume"} /\ b \in Blocks /\ Known(b)
    BY TaskFacts, ProcFacts DEF connectBestChain, At, Ctl, Tasks, Known
  <1>2. n = <<b, 1>> /\ Real(n) /\ blockOf(n) = b
    BY <1>1, OneNodeFacts, KnownNode DEF Typed
  <1>4. CASE Fail(Handler, TRUE, {})
    BY <1>4, PeaceFail
  <1>5. CASE Yield(Handler, [t EXCEPT !.pc = "connected"])
    <2> DEFINE u == [t EXCEPT !.pc = "connected"]
    <2>1. u.pc = "connected" /\ u.op = t.op /\ u.attach = t.attach /\ task' = [task EXCEPT ![Handler] = u]
      BY <1>1, <1>5 DEF Tasks, Yield
    <2> HIDE DEF u
    <2> QED
      BY <2>1, PeaceMove
  <1>6. CASE Keep(Handler, [t EXCEPT !.pc = "side"])
    <2> DEFINE u == [t EXCEPT !.pc = "side"]
    <2>1. u.pc = "side" /\ u.op = t.op /\ u.attach = t.attach /\ task' = [task EXCEPT ![Handler] = u]
      BY <1>1, <1>6 DEF Tasks, Keep
    <2> HIDE DEF u
    <2> QED
      BY <2>1, PeaceMove
  <1>7. CASE /\ MoreWork(n)
             /\ Keep(Handler, [t EXCEPT !.pc = "verify", !.detach = r.detach, !.attach = r.attach])
    <2> DEFINE u == [t EXCEPT !.pc = "verify", !.detach = r.detach, !.attach = r.attach]
    <2>1. n \notin View(tip)
      <3>1. \A m \in View(tip) : H(m) <= H(tip)
        BY ViewFacts DEF Typed, IndexOK, StateOK
      <3>2. H(n) > H(tip) /\ H(n) \in Nat /\ H(tip) \in Nat
        BY <1>2, <1>7, NodeFacts DEF MoreWork, Real, Typed, StateOK
      <3> QED
        BY <3>1, <3>2
    <2>2. /\ \A i \in 1 .. Len(r.attach) : r.attach[i] \in View(n)
          /\ r.attach # <<>> => r.attach[Len(r.attach)] = n
          /\ r.attach = <<>> => r.detach = <<>> /\ \E m \in View(n) : Invalid(m)
      BY <1>2, <2>1, ReorgMore DEF Typed, IndexOK, StateOK
    <2>3. View(n) = {<<c, 1>> : c \in Line(b)}
      BY <1>1, <1>2, OnesView DEF OneNode
    <2>4. \A i \in 1 .. Len(r.attach) : First(r.attach[i])
      BY <2>2, <2>3 DEF First, blockOf
    <2>5. (\E m \in View(n) : Invalid(m)) => ~Good(b)
      <3> SUFFICES ASSUME NEW m \in View(n), Invalid(m) PROVE ~Good(b)
        OBVIOUS
      <3>1. blockOf(m) \in Line(b)
        BY <2>3 DEF blockOf
      <3>2. Line(blockOf(m)) \subseteq Line(b)
        BY <1>1, <3>1, LineBelow
      <3> QED
        BY <3>2 DEF Invalid, Blamed, Good
    <2>6. /\ u.pc = "verify" /\ u.op = t.op /\ u.block = b /\ u.detach = r.detach /\ u.attach = r.attach
          /\ task' = [task EXCEPT ![Handler] = u]
      BY <1>1, <1>7 DEF Tasks, Keep
    <2> HIDE DEF u, r
    <2>7. task'[Handler] = u
      BY <2>6, TaskIs
    <2> QED
      BY <1>1, <1>2, <2>2, <2>4, <2>5, <2>6, <2>7 DEF PeaceTask
  <1> QED
    BY <1>4, <1>5, <1>6, <1>7 DEF connectBestChain

LEMMA PeaceVerify ==
    ASSUME Typed, Safe, "overlap" \notin events, Foul(events) = Bad, PeaceTask(task[Handler], tip),
           verifyReorganizationValidity(Handler)
    PROVE  PeaceTask(task'[Handler], tip')
  <1> DEFINE t == task[Handler]
             u == [t EXCEPT !.pc = "reorg"]
             wrong == {i \in DOMAIN t.attach : Breaks(t.attach[i])}
  <1>1. /\ t \in Tasks /\ t.pc = "verify" /\ tip' = tip /\ t.attach \in Seq(Nodes) /\ t.detach \in Seq(Nodes)
        /\ Grown(t.attach) /\ SafeTask(t, tip, events)
        /\ t.op \in {"accept", "resume", "rollback"}
    BY TaskFacts, ProcFacts DEF verifyReorganizationValidity, At, Ctl, Tasks, Safe
  <1>2. ASSUME NEW r, NEW es, Fail(Handler, r, es) PROVE PeaceTask(task'[Handler], tip')
    BY <1>2, PeaceFail
  <1>3. CASE wrong = {} /\ Keep(Handler, u)
    <2>1. /\ u.pc = "reorg" /\ u.op = t.op /\ u.block = t.block /\ u.attach = t.attach /\ u.detach = t.detach
          /\ task' = [task EXCEPT ![Handler] = u]
      BY <1>1, <1>3 DEF Tasks, Keep
    <2> HIDE DEF u
    <2>2. task'[Handler] = u
      BY <2>1, TaskIs
    <2>3. \A i \in 1 .. Len(t.attach) : blockOf(t.attach[i]) \notin Bad
      BY <1>1, <1>3 DEF Breaks, Safe
    <2>4. PICK f \in Blocks : Falls(t.detach, blockOf(tip), f) /\ Rises(t.attach, f)
      BY <1>1 DEF SafeTask
    <2>5. blockOf(tip) \in Blocks
      BY NodeFacts DEF Typed, StateOK, Real
    <2>6. Line(f) \subseteq Line(blockOf(tip))
      BY <1>1, <2>4, <2>5, FallsLine, LineBelow
    <2>7. Line(f) \cap Bad = {}
      BY <2>6 DEF Safe
    <2>8. t.attach # <<>> => Good(t.block)
      BY <1>1, <2>3, <2>4, <2>7, RisesCover DEF PeaceTask, Good
    <2> QED
      BY <1>1, <2>1, <2>2, <2>8 DEF PeaceTask
  <1> QED
    BY <1>2, <1>3 DEF verifyReorganizationValidity

LEMMA PeaceDisconnectBlock ==
    ASSUME Typed, PeaceTask(task[Handler], tip), disconnectBlock(Handler)
    PROVE  PeaceTask(task'[Handler], tip')
  <1> DEFINE t == task[Handler]
             u == [t EXCEPT !.detach = Tail(@)]
  <1>1. t \in Tasks /\ t.pc = "reorg" /\ t.detach # <<>>
    BY TaskFacts, ProcFacts DEF disconnectBlock, At
  <1>2. ASSUME NEW r, NEW es, Fail(Handler, r, es) PROVE PeaceTask(task'[Handler], tip')
    BY <1>2, PeaceFail
  <1>3. CASE Yield(Handler, u)
    <2>1. /\ u.pc = "reorg" /\ u.op = t.op /\ u.block = t.block /\ u.attach = t.attach
          /\ task' = [task EXCEPT ![Handler] = u]
      BY <1>1, <1>3 DEF Tasks, Yield
    <2> HIDE DEF u
    <2>2. task'[Handler] = u
      BY <2>1, TaskIs
    <2>3. t.attach # <<>>
      BY <1>1 DEF PeaceTask
    <2> QED
      BY <1>1, <2>1, <2>2, <2>3 DEF PeaceTask
  <1> QED
    BY <1>2, <1>3 DEF disconnectBlock

LEMMA PeaceConnectBlock ==
    ASSUME Typed, PeaceTask(task[Handler], tip), connectBlock(Handler)
    PROVE  PeaceTask(task'[Handler], tip')
  <1> DEFINE t == task[Handler]
             s == t.attach
             u == [t EXCEPT !.attach = Tail(@)]
  <1>1. t \in Tasks /\ t.pc = "reorg" /\ t.detach = <<>> /\ s # <<>> /\ s \in Seq(Nodes)
    BY TaskFacts, ProcFacts DEF connectBlock, At, Tasks
  <1>2. ASSUME NEW r, NEW es, Fail(Handler, r, es) PROVE PeaceTask(task'[Handler], tip')
    BY <1>2, PeaceFail
  <1>3. CASE tip' = s[1] /\ Yield(Handler, u)
    <2>1. /\ u.pc = "reorg" /\ u.op = t.op /\ u.block = t.block /\ u.attach = Tail(s) /\ u.detach = t.detach
          /\ task' = [task EXCEPT ![Handler] = u]
      BY <1>1, <1>3 DEF Tasks, Yield
    <2> HIDE DEF u
    <2>2. task'[Handler] = u
      BY <2>1, TaskIs
    <2> DEFINE v == Tail(s)
    <2>3. /\ Len(s) \in Nat \ {0} /\ Len(v) = Len(s) - 1 /\ v \in Seq(Nodes)
          /\ \A i \in 1 .. Len(v) : v[i] = s[i + 1]
      BY <1>1, EmptySeq, HeadTailProperties
    <2>4. /\ \A i \in 1 .. Len(s) : First(s[i])
          /\ blockOf(s[Len(s)]) = t.block /\ Good(t.block) /\ t.op # "rollback"
      BY <1>1 DEF PeaceTask
    <2> HIDE DEF v, s
    <2>5. \A i \in 1 .. Len(v) : First(v[i])
      <3>1. \A i \in 1 .. Len(v) : i + 1 \in 1 .. Len(s)
        BY <2>3
      <3> QED
        BY <2>3, <2>4, <3>1
    <2>6. v # <<>> => v[Len(v)] = s[Len(s)]
      <3> SUFFICES ASSUME v # <<>> PROVE v[Len(v)] = s[Len(s)]
        OBVIOUS
      <3>1. Len(v) \in 1 .. Len(v) /\ Len(v) + 1 = Len(s)
        BY <2>3, EmptySeq
      <3> QED
        BY <2>3, <3>1
    <2>7. v = <<>> => blockOf(tip') = t.block
      <3> SUFFICES ASSUME v = <<>> PROVE blockOf(tip') = t.block
        OBVIOUS
      <3>1. Len(v) = 0
        OBVIOUS
      <3>2. Len(s) = 1
        BY <2>3, <3>1
      <3> QED
        BY <1>3, <2>4, <3>2
    <2>8. u.attach = v /\ u.detach = <<>>
      BY <1>1, <2>1 DEF v
    <2> QED
      BY <2>1, <2>2, <2>4, <2>5, <2>6, <2>7, <2>8 DEF PeaceTask
  <1> QED
    BY <1>2, <1>3 DEF connectBlock

LEMMA PeaceTaskNext ==
    ASSUME Typed, Safe, OneNode, Blamed(Bad), "overlap" \notin events, Foul(events) = Bad, PeaceTask(task[Handler], tip), PeaceGoesOn
    PROVE  PeaceTask(task'[Handler], tip')
  <1> DEFINE t == task[Handler]
  <1>0. t \in Tasks /\ Ctl(Handler, t, lookup, lock)
    BY TaskFacts, ProcFacts
  <1>1. ASSUME NEW r, NEW es, Fail(Handler, r, es) PROVE PeaceTask(task'[Handler], tip')
    BY <1>1, PeaceFail
  <1>2. CASE maybeAcceptBlock(Handler)
    <2> DEFINE u == [t EXCEPT !.pc = "connect"]
    <2>1. CASE Keep(Handler, u)
      <3>1. u.pc = "connect" /\ u.op = t.op /\ u.attach = t.attach /\ task' = [task EXCEPT ![Handler] = u]
        BY <1>0, <2>1 DEF Tasks, Keep
      <3> HIDE DEF u
      <3> QED
        BY <3>1, PeaceMove
    <2> QED
      BY <1>1, <1>2, <2>1 DEF maybeAcceptBlock
  <1>3. CASE finishAccept(Handler)
    <2> DEFINE u == [t EXCEPT !.pc = "orphans", !.queue = Queued(t)]
    <2>1. CASE Yield(Handler, Idle)
      <3>1. task'[Handler] = Idle
        BY <2>1, TaskIs DEF Yield
      <3> QED
        BY <3>1, PeaceIdle
    <2>2. CASE Yield(Handler, u)
      <3>1. u.pc = "orphans" /\ u.op = t.op /\ u.attach = t.attach /\ task' = [task EXCEPT ![Handler] = u]
        BY <1>0, <2>2 DEF Tasks, Yield
      <3> HIDE DEF u
      <3> QED
        BY <3>1, PeaceMove
    <2> QED
      BY <1>3, <2>1, <2>2 DEF finishAccept
  <1>4. CASE processOrphans(Handler)
    <2> DEFINE kids == Kept(orphans, {o \in Blocks : Parent[o] # t.queue[1]})
               u == [t EXCEPT !.pc = "accept", !.block = kids[1], !.flags = @ \cup {"orphan"}]
               v == [t EXCEPT !.queue = Tail(@)]
    <2>0. t.pc = "orphans"
      BY <1>4 DEF processOrphans, At
    <2>1. CASE Yield(Handler, Idle)
      <3>1. task'[Handler] = Idle
        BY <2>1, TaskIs DEF Yield
      <3> QED
        BY <3>1, PeaceIdle
    <2>2. CASE Keep(Handler, u)
      <3>1. u.pc = "accept" /\ u.op = t.op /\ u.attach = t.attach /\ task' = [task EXCEPT ![Handler] = u]
        BY <1>0, <2>2 DEF Tasks, Keep
      <3> HIDE DEF u
      <3> QED
        BY <3>1, PeaceMove
    <2>3. CASE Keep(Handler, v)
      <3>1. v.pc = "orphans" /\ v.op = t.op /\ v.attach = t.attach /\ task' = [task EXCEPT ![Handler] = v]
        BY <1>0, <2>0, <2>3 DEF Tasks, Keep
      <3> HIDE DEF v
      <3> QED
        BY <3>1, PeaceMove
    <2> QED
      BY <1>4, <2>1, <2>2, <2>3 DEF processOrphans
  <1>5. CASE RemoveBlockData(Handler)
    <2>1. task'[Handler] = Idle
      BY <1>5, TaskIs DEF RemoveBlockData
    <2> QED
      BY <2>1, PeaceIdle
  <1>6. CASE endReorganize(Handler)
    <2> DEFINE u == [t EXCEPT !.pc = "reorganized"]
               v == [t EXCEPT !.pc = t.op]
    <2>1. CASE Yield(Handler, Idle)
      <3>1. task'[Handler] = Idle
        BY <2>1, TaskIs DEF Yield
      <3> QED
        BY <3>1, PeaceIdle
    <2>2. CASE Keep(Handler, u)
      <3>1. u.pc = "reorganized" /\ u.op = t.op /\ u.attach = t.attach /\ task' = [task EXCEPT ![Handler] = u]
        BY <1>0, <2>2 DEF Tasks, Keep
      <3> HIDE DEF u
      <3> QED
        BY <3>1, PeaceMove
    <2>3. CASE t.op \in {"invalidate", "rollback"}
      BY <1>0, <2>3 DEF Ctl, PeaceTask
    <2> QED
      BY <1>6, <2>1, <2>2, <2>3 DEF endReorganize
  <1> QED
    BY <1>2, <1>3, <1>4, <1>5, <1>6, PeaceConnectBestChain, PeaceVerify, PeaceDisconnectBlock,
       PeaceConnectBlock DEF PeaceGoesOn

LEMMA PeaceNext == Typed /\ Safe /\ Lone /\ Peace /\ [Next]_vars => Peace'
  <1> SUFFICES ASSUME Typed, Safe, Lone, Peace, [Next]_vars, Undisturbed', "unchecked" \notin events'
               PROVE  OneNode' /\ FirstNodes' /\ Blamed(Bad)' /\ PeaceTask(task'[Handler], tip')
    BY DEF Peace
  <1>1. /\ commands' = commands /\ rollbacks' = rollbacks /\ "overlap" \notin events /\ Foul(events) = Bad
        /\ OneNode /\ FirstNodes /\ Blamed(Bad) /\ PeaceTask(task[Handler], tip)
        /\ UNCHANGED vars \/ PeaceBegins \/ PeaceGoesOn
        /\ PeaceBegins => task[Handler] = Idle
    BY PeaceSteps
  <1>2. Blamed(Bad)'
    BY <1>1, BlamedNext
  <1>3. CASE UNCHANGED vars
    <2>1. /\ made' = made /\ lookup' = lookup /\ par' = par /\ data' = data /\ tip' = tip /\ htip' = htip
          /\ task' = task
      BY <1>3 DEF vars, indexVars
    <2> QED
      BY <1>1, <1>2, <2>1 DEF OneNode, FirstNodes, Known
  <1>4. CASE PeaceBegins \/ PeaceGoesOn
    BY <1>1, <1>2, <1>4, OneNodeNext, PeaceTaskBegins, PeaceTaskNext
  <1> QED
    BY <1>1, <1>3, <1>4

LEMMA PeaceAlways == Spec => []Peace
  <1>1. Init => Peace
    <2> SUFFICES ASSUME Init PROVE OneNode /\ FirstNodes /\ Blamed(Bad) /\ PeaceTask(task[Handler], tip)
      BY DEF Peace
    <2>1. OneNode
      BY DEF Init, OneNode, Ones
    <2>2. FirstNodes
      BY ChainAssumption DEF Init, FirstNodes, First, blockOf, Known
    <2>3. Blamed(Bad)
      BY DEF Init, Blamed
    <2>4. task[Handler] = Idle
      BY ProcFacts DEF Init
    <2> QED
      BY <2>1, <2>2, <2>3, <2>4, PeaceIdle
  <1> QED
    BY <1>1, TypedAlways, SafeAlways, LoneAlways, PeaceNext, PTL DEF Spec

-----------------------------------------------------------------------------
(* Nothing is left behind, and nothing that happened excuses it.           *)

Has(d, b) == <<b, 1>> \in d
Busy == {"connect", "connected", "side", "verify", "reorg", "reorganized"}

\* Blocks whose orphans the handler at t still looks at.
Waiting(t) ==
    IF t.op = "accept"
    THEN ToSet(t.queue) \cup (IF t.pc \in Busy THEN {t.block} ELSE {})
    ELSE {}

\* The height the handler at t is on its way to, with the tip tp.
Reach(t, tp) ==
    IF t.pc \in {"verify", "reorg"} /\ Good(t.block) THEN height[t.block] ELSE H(tp)

Popped(t, b) == t.pc = "accept" /\ "orphan" \in t.flags /\ t.block = b

\* With d for the nodes that have their data, k for the payloads on disk, os for
\* the orphans and tp for the tip: of the good blocks, a stored one is on disk with
\* those below it and is no orphan; a payload on disk is stored or of an orphan;
\* none that is stored is above the tip; the orphans of a stored one are waited for.
StoredOK(d, k, os) ==
    \A b \in Blocks : Good(b) /\ Has(d, b) => b \in k /\ Has(d, Parent[b]) /\ b \notin os
PayloadsOK(d, k, os, t) ==
    \A b \in Blocks : Good(b) /\ b \in k => Has(d, b) \/ b \in os \/ Popped(t, b)
HeightsOK(d, tp, t) ==
    \A b \in Blocks : Good(b) /\ Has(d, b) =>
        height[b] <= Reach(t, tp) \/ (t.pc = "connect" /\ b = t.block)
OrphansOK(d, os, t) ==
    \A o \in os : Good(Parent[o]) /\ Has(d, Parent[o]) => Parent[o] \in Waiting(t)
\* What the handler at t works on.
ErrandOK(d, os, t) ==
    /\ t.pc \in Busy => Has(d, t.block)
    /\ t.pc = "accept" /\ Good(t.block) =>
          /\ t.block \notin os /\ Has(d, Parent[t.block])
          /\ t.op = "resume" => Has(d, t.block)
    /\ t.pc = "remove" => ~Good(t.block)
    /\ t.op = "resume" => t.flags = {}
    /\ t.op = "accept" => \A b \in ToSet(t.queue) : Good(b) => Has(d, b)
    /\ t.op = "accept" /\ t.pc # "orphans" /\ "orphan" \notin t.flags => t.queue = <<>>

CalmOK(d, k, os, tp, t) ==
    /\ tp \in d /\ StoredOK(d, k, os) /\ PayloadsOK(d, k, os, t) /\ HeightsOK(d, tp, t)
    /\ OrphansOK(d, os, t) /\ ErrandOK(d, os, t)

CalmNow == CalmOK(data, disk, ToSet(orphans), tip, task[Handler])
Calm == Undisturbed /\ events = {} => CalmNow

Ground ==
    /\ Typed /\ Safe /\ "overlap" \notin events /\ Foul(events) = Bad
    /\ OneNode /\ FirstNodes /\ Blamed(Bad) /\ PeaceTask(task[Handler], tip)
    /\ CalmNow

LEMMA GoodFacts ==
    ASSUME NEW b \in Blocks, Good(b)
    PROVE  /\ b \notin Bad /\ Good(Parent[b]) /\ Parent[b] \in Blocks
           /\ \A c \in Line(b) : c \in Blocks /\ Good(c) /\ c \notin Bad
  <1>1. \A c \in Line(b) : c \in Blocks /\ Good(c) /\ c \notin Bad
    BY LineBelow DEF Good
  <1>2. b \in Line(b) /\ Parent[b] \in Line(b)
    <2>1. b = Genesis => Parent[b] = b
      BY ChainAssumption
    <2> QED
      BY <2>1, LineStep, ParentFacts
  <1> QED
    BY <1>1, <1>2

LEMMA NotInvalid ==
    ASSUME Blamed(Bad), NEW n, Good(blockOf(n)) PROVE ~Invalid(n)
  BY DEF Blamed, Good, Invalid

\* Everything below a stored block is stored.
LEMMA DataLine ==
    ASSUME NEW d, NEW k, NEW os, StoredOK(d, k, os), NEW b \in Blocks, Good(b), Has(d, b)
    PROVE  \A c \in Line(b) : Has(d, c) /\ c \in k /\ Good(c) /\ c \notin os /\ c \in Blocks
  <1> DEFINE S == {a \in Blocks : Good(a) /\ Has(d, a) =>
                     \A c \in Line(a) : Has(d, c) /\ c \in k /\ Good(c) /\ c \notin os /\ c \in Blocks}
  <1>1. Genesis \in S
    <2>1. Genesis \in Blocks /\ Line(Genesis) = {Genesis}
      BY ChainAssumption, LineStep
    <2> QED
      BY <2>1 DEF StoredOK
  <1>2. ASSUME NEW a \in Blocks \ {Genesis}, Parent[a] \in S PROVE a \in S
    <2> SUFFICES ASSUME Good(a), Has(d, a)
                 PROVE  \A c \in Line(a) : Has(d, c) /\ c \in k /\ Good(c) /\ c \notin os /\ c \in Blocks
      OBVIOUS
    <2>1. Good(Parent[a]) /\ Line(a) = Line(Parent[a]) \cup {a}
      BY GoodFacts, ParentFacts
    <2>2. Has(d, Parent[a]) /\ a \in k /\ a \notin os
      BY DEF StoredOK
    <2>3. \A c \in Line(Parent[a]) : Has(d, c) /\ c \in k /\ Good(c) /\ c \notin os /\ c \in Blocks
      BY <1>2, <2>1, <2>2
    <2> QED
      BY <2>1, <2>2, <2>3
  <1>3. Blocks \subseteq S
    <2> HIDE DEF S
    <2> QED
      BY <1>1, <1>2, TreeInduction
  <1>4. b \in S
    BY <1>3
  <1> QED
    BY <1>4

LEMMA TipFacts ==
    ASSUME Ground
    PROVE  /\ blockOf(tip) \in Blocks /\ tip = <<blockOf(tip), 1>> /\ Good(blockOf(tip))
           /\ \A c \in Line(blockOf(tip)) : Has(data, c) /\ c \in disk /\ Good(c) /\ c \notin ToSet(orphans)
                                            /\ c \in Blocks
           /\ H(tip) = height[blockOf(tip)] /\ H(tip) \in Nat
  <1>1. blockOf(tip) \in Blocks /\ tip = <<blockOf(tip), 1>> /\ Good(blockOf(tip))
    BY NodeFacts DEF Ground, Typed, StateOK, Real, FirstNodes, First, Safe, Good
  <1>2. Has(data, blockOf(tip)) /\ StoredOK(data, disk, ToSet(orphans))
    BY <1>1 DEF Ground, CalmNow, CalmOK, Has
  <1>3. H(tip) = height[blockOf(tip)] /\ H(tip) \in Nat
    BY <1>1, TreeAssumption DEF H
  <1> QED
    BY <1>1, <1>2, <1>3, DataLine

LEMMA IdleCalm ==
    ASSUME NEW tp, NEW d, NEW os
    PROVE  /\ Waiting(Idle) = {} /\ Reach(Idle, tp) = H(tp) /\ ErrandOK(d, os, Idle)
           /\ \A b : ~Popped(Idle, b)
  BY IdleFacts DEF Waiting, Reach, ErrandOK, Popped, Busy

\* A failure: none of an orphan, so the pool and the payloads stay; and what the
\* handler works on is not a good block that was stored.
LEMMA CalmFail ==
    ASSUME Ground, NEW r, NEW es, Fail(Handler, r, es), events' = {}, data' = data, tip' = tip,
           orphans' = orphans, task[Handler].op \in {"accept", "resume"}, task[Handler].pc # "orphans",
           r => task[Handler].op = "accept" \/ ~Good(task[Handler].block),
           task[Handler].pc \in Busy => ~Good(task[Handler].block)
    PROVE  CalmNow'
  <1> DEFINE t == task[Handler]
             u == task'[Handler]
             os == ToSet(orphans)
  <1>0. CalmOK(data, disk, os, tip, t) /\ t \in Tasks
    BY TaskFacts, ProcFacts DEF Ground, CalmNow
  <1>1. /\ \/ /\ t.op = "resume" /\ r /\ u.pc = "remove" /\ u.op = t.op /\ u.block = t.block
              /\ u.flags = t.flags /\ u.queue = t.queue
           \/ u = Idle
        /\ ~(t.op = "accept" /\ "orphan" \in t.flags) /\ disk' = disk
    BY FailIs DEF Ground
  <1>2. \A b : ~Popped(t, b)
    BY <1>0, <1>1 DEF CalmOK, ErrandOK, Popped
  <1>3. \A b : Good(b) => b \notin Waiting(t)
    <2>1. t.op = "accept" => t.queue = <<>>
      BY <1>0, <1>1 DEF CalmOK, ErrandOK
    <2>2. ToSet(<<>>) = {}
      BY DEF ToSet
    <2> QED
      BY <1>1, <2>1, <2>2 DEF Waiting
  <1>4. HeightsOK(data, tip, u)
    <2>1. u.pc \notin {"verify", "reorg", "connect"}
      BY <1>1, IdleFacts
    <2>2. Reach(u, tip) = H(tip)
      BY <2>1 DEF Reach
    <2>3. ASSUME NEW b \in Blocks, Good(b), Has(data, b) PROVE height[b] <= H(tip)
      <3>1. height[b] <= Reach(t, tip) \/ (t.pc = "connect" /\ b = t.block)
        BY <1>0, <2>3 DEF CalmOK, HeightsOK
      <3>2. ~(t.pc = "connect" /\ b = t.block)
        BY <2>3 DEF Busy
      <3>3. Reach(t, tip) = H(tip)
        BY DEF Reach, Busy
      <3> QED
        BY <3>1, <3>2, <3>3
    <2> QED
      BY <2>2, <2>3 DEF HeightsOK
  <1>5. ErrandOK(data, os, u)
    <2>1. CASE u = Idle
      BY <2>1, IdleCalm
    <2>2. CASE t.op = "resume" /\ r /\ u.pc = "remove" /\ u.op = t.op /\ u.block = t.block /\ u.flags = t.flags
      BY <1>0, <2>2 DEF ErrandOK, CalmOK, Busy
    <2> QED
      BY <1>1, <2>1, <2>2
  <1>6. OrphansOK(data, os, u)
    BY <1>0, <1>3 DEF CalmOK, OrphansOK
  <1>7. PayloadsOK(data, disk, os, u)
    BY <1>0, <1>2 DEF CalmOK, PayloadsOK
  <1>8. CalmOK(data', disk', ToSet(orphans'), tip', u)
    BY <1>0, <1>1, <1>4, <1>5, <1>6, <1>7 DEF CalmOK
  <1> QED
    BY <1>8 DEF CalmNow

\* What blockExists clears and RemoveBlockData removes is nothing good.
LEMMA UnstoredFacts ==
    ASSUME Ground, NEW bs \in SUBSET Blocks
    PROVE  /\ \A b \in Blocks : Good(b) => (Has(data \ Unstored(bs), b) <=> Has(data, b))
           /\ tip \in data \ Unstored(bs)
  <1>1. ASSUME NEW b \in Blocks, Good(b), Has(data, b) PROVE <<b, 1>> \notin Unstored(bs)
    <2>1. b \in disk
      BY <1>1 DEF Ground, CalmNow, CalmOK, StoredOK
    <2> QED
      BY <2>1 DEF Unstored, LookupNode
  <1>2. tip \in data /\ tip = <<blockOf(tip), 1>> /\ blockOf(tip) \in Blocks /\ Good(blockOf(tip))
    BY TipFacts DEF Ground, CalmNow, CalmOK
  <1> QED
    BY <1>1, <1>2 DEF Has

\* A good block that is stored exists; its node is its first one.
LEMMA ExistsFacts ==
    ASSUME Ground, NEW b \in Blocks
    PROVE  /\ Good(b) /\ Has(data, b) => blockExists(b)
           /\ Has(data, b) => Known(b) /\ LookupNode(b) = <<b, 1>>
           /\ LookupNode(b) \in data => Has(data, b)
  <1>1. IndexOK
    BY DEF Ground, Typed
  <1>2. \A n \in data : First(n) /\ Known(blockOf(n))
    BY DEF Ground, FirstNodes
  <1>3. Has(data, b) => Known(b) /\ LookupNode(b) = <<b, 1>>
    BY <1>1, <1>2, OneNodeFacts DEF Has, blockOf, Ground
  <1>4. LookupNode(b) \in data => Has(data, b)
    BY <1>2 DEF Has, LookupNode, First, blockOf
  <1>5. Good(b) /\ Has(data, b) => b \in disk
    BY DEF Ground, CalmNow, CalmOK, StoredOK
  <1> QED
    BY <1>3, <1>4, <1>5 DEF blockExists, Has

LEMMA CalmBegins ==
    ASSUME Ground, events' = {}, task[Handler] = Idle, PeaceBegins
    PROVE  CalmNow'
  <1> DEFINE os == ToSet(orphans)
             os2 == ToSet(orphans')
             u == task'[Handler]
  <1>0. /\ CalmOK(data, disk, os, tip, Idle) /\ Typed /\ StateOK
        /\ disk \subseteq Blocks
    BY DEF Ground, CalmNow, Typed, StateOK
  <1>1. /\ Waiting(Idle) = {} /\ Reach(Idle, tip) = H(tip) /\ \A b : ~Popped(Idle, b) /\ Idle.pc = "idle"
        /\ \A d, o : ErrandOK(d, o, Idle)
    BY IdleCalm, IdleFacts
  <1>2. ToSet(<<>>) = {}
    BY DEF ToSet
  <1>3. ASSUME NEW b \in Blocks, ProcessBlockHeader(b) PROVE CalmNow'
    <2>1. data' = data /\ disk' = disk /\ orphans' = orphans /\ tip' = tip /\ task' = task
      BY <1>3 DEF ProcessBlockHeader, orphanVars
    <2> QED
      BY <2>1 DEF Ground, CalmNow
  <1>4. ASSUME NEW b \in Blocks, ProcessOrphanBlock(b) PROVE CalmNow'
    <2> DEFINE d == data \ Unstored({b, Parent[b]})
    <2>1. PICK k \in 0 .. Len(orphans) : addOrphanBlock(b, k)
      BY <1>4 DEF ProcessOrphanBlock
    <2>2. /\ data' = d /\ tip' = tip /\ task' = task /\ ~blockExists(b) /\ ~blockExists(Parent[b])
          /\ Parent[b] \in Blocks
      BY <1>4, ChainAssumption DEF ProcessOrphanBlock
    <2>3. /\ os2 \subseteq os \cup {b} /\ os \cap disk' \subseteq os2 /\ disk' \subseteq disk \cup {b}
          /\ disk \cup {b} \subseteq disk' \cup os
      BY <1>0, <2>1, AddOrphanFacts
    <2>4. b \in os2
      <3> DEFINE live == SubSeq(orphans, k + 1, Len(orphans))
      <3>1. PICK out : orphans' = Append(Kept(live, out), b)
        BY <2>1 DEF addOrphanBlock
      <3>2. orphans \in Seq(Blocks)
        BY <1>0 DEF StateOK
      <3>3. live \in Seq(Blocks)
        BY <3>2, SubSeqProperties
      <3>4. Kept(live, out) \in Seq(Blocks)
        <4> HIDE DEF live
        <4> QED
          BY <3>3, KeptFacts
      <3> HIDE DEF live
      <3> DEFINE w == Kept(live, out)
      <3>5. w \in Seq(Blocks)
        BY <3>4
      <3> HIDE DEF w
      <3>6. Len(w) + 1 \in DOMAIN Append(w, b) /\ Append(w, b)[Len(w) + 1] = b
        BY <3>5, AppendProperties
      <3>7. orphans' = Append(w, b)
        BY <3>1 DEF w
      <3> QED
        BY <3>6, <3>7 DEF ToSet
    <2>5. tip \in d /\ \A c \in Blocks : Good(c) => (Has(d, c) <=> Has(data, c))
      BY <2>2, UnstoredFacts
    <2>6. \A c \in Blocks : Good(c) /\ Has(data, c) => blockExists(c)
      BY ExistsFacts
    <2> HIDE DEF d, os, os2
    <2>7. StoredOK(d, disk', os2)
      BY <1>0, <2>2, <2>3, <2>5, <2>6, GoodFacts DEF CalmOK, StoredOK
    <2>8. PayloadsOK(d, disk', os2, Idle)
      BY <1>0, <1>1, <2>3, <2>4, <2>5 DEF CalmOK, PayloadsOK
    <2>9. HeightsOK(d, tip, Idle)
      BY <1>0, <1>1, <2>5 DEF CalmOK, HeightsOK
    <2>10. OrphansOK(d, os2, Idle)
      <3>1. \A o \in os2 : o \in Blocks /\ Parent[o] \in Blocks
        <4>1. os \subseteq Blocks
          BY <1>0 DEF StateOK, ToSet, os
        <4> QED
          BY <2>3, <4>1, ChainAssumption
      <3> QED
        BY <1>0, <1>1, <2>2, <2>3, <2>5, <2>6, <3>1 DEF CalmOK, OrphansOK
    <2>11. CalmOK(data', disk', os2, tip', u)
      BY <1>1, <2>2, <2>5, <2>7, <2>8, <2>9, <2>10 DEF CalmOK
    <2> QED
      BY <2>11 DEF CalmNow, os2
  <1>5. ASSUME NEW b \in Blocks, NEW flags \in Given, ProcessBlock(b, flags) PROVE CalmNow'
    <2> DEFINE d == data \ Unstored({b})
               v == [Idle EXCEPT !.pc = "accept", !.op = "accept", !.block = b,
                                 !.flags = flags]
    <2>1. /\ data' = d /\ tip' = tip /\ disk' = disk /\ orphans' = orphans /\ Parent[b] \in Blocks
          /\ b \notin os /\ LookupNode(Parent[b]) \in data
      BY <1>5, ChainAssumption DEF ProcessBlock, orphanVars, Happens
    <2>2. v.pc = "accept" /\ v.op = "accept" /\ v.block = b /\ "orphan" \notin v.flags /\ v.queue = <<>>
          /\ task' = [task EXCEPT ![Handler] = v]
      BY <1>5, GivenFacts DEF ProcessBlock, Keep, Idle
    <2> HIDE DEF v
    <2>3. u = v
      BY <1>0, <2>2, TaskIs
    <2>4. tip \in d /\ \A c \in Blocks : Good(c) => (Has(d, c) <=> Has(data, c))
      BY UnstoredFacts
    <2>5. Has(data, Parent[b])
      BY <2>1, ExistsFacts
    <2> HIDE DEF d, os, u
    <2>6. Waiting(v) = {} /\ Reach(v, tip) = H(tip) /\ \A c : ~Popped(v, c)
      BY <1>2, <2>2 DEF Waiting, Reach, Popped, Busy
    <2>7. ErrandOK(d, os, v)
      BY <1>2, <2>1, <2>2, <2>4, <2>5, GoodFacts DEF ErrandOK, Busy
    <2>8. StoredOK(d, disk, os)
      BY <1>0, <2>4, GoodFacts DEF CalmOK, StoredOK
    <2>9. PayloadsOK(d, disk, os, v)
      BY <1>0, <1>1, <2>4 DEF CalmOK, PayloadsOK
    <2>10. HeightsOK(d, tip, v)
      BY <1>0, <1>1, <2>2, <2>4, <2>6 DEF CalmOK, HeightsOK
    <2>11. OrphansOK(d, os, v)
      <3>1. \A o \in os : Parent[o] \in Blocks
        <4>1. os \subseteq Blocks
          BY <1>0 DEF StateOK, ToSet, os
        <4> QED
          BY <4>1, ChainAssumption
      <3> QED
        BY <1>0, <1>1, <2>4, <3>1 DEF CalmOK, OrphansOK
    <2>12. CalmOK(data', disk', ToSet(orphans'), tip', u)
      BY <2>1, <2>3, <2>4, <2>7, <2>8, <2>9, <2>10, <2>11 DEF CalmOK, os
    <2> QED
      BY <2>12 DEF CalmNow, u
  <1>6. CASE ResumeBlockConnect
    <2> DEFINE b == blockOf(Ancestor(htip, H(tip) + 1))
               v == [Idle EXCEPT !.pc = "accept", !.op = "resume", !.block = b]
    <2>1. /\ data' = data /\ tip' = tip /\ disk' = disk /\ orphans' = orphans
          /\ b \in disk /\ LookupNode(Parent[b]) \in data /\ task' = [task EXCEPT ![Handler] = v]
      BY <1>6 DEF ResumeBlockConnect, orphanVars, Happens, Keep, blockExists
    <2> HIDE DEF b
    <2>2. v.pc = "accept" /\ v.op = "resume" /\ v.block = b /\ v.flags = {} /\ v.queue = <<>>
      BY DEF Idle
    <2> HIDE DEF v
    <2>3. u = v
      BY <1>0, <2>1, TaskIs
    <2>4. b \in Blocks /\ Parent[b] \in Blocks
      BY <1>0, <2>1, ChainAssumption
    <2>5. Has(data, Parent[b])
      BY <2>1, <2>4, ExistsFacts
    <2> HIDE DEF os, u
    <2>6. Waiting(v) = {} /\ Reach(v, tip) = H(tip) /\ \A c : ~Popped(v, c)
      BY <2>2 DEF Waiting, Reach, Popped
    <2>7. Good(b) => Has(data, b) /\ b \notin os
      BY <1>0, <1>1, <2>1, <2>4, <2>5, GoodFacts DEF CalmOK, PayloadsOK, OrphansOK, StoredOK
    <2>8. ErrandOK(data, os, v)
      BY <2>2, <2>5, <2>7 DEF ErrandOK, Busy
    <2>9. PayloadsOK(data, disk, os, v)
      BY <1>0, <1>1 DEF CalmOK, PayloadsOK
    <2>10. HeightsOK(data, tip, v)
      BY <1>0, <1>1, <2>2, <2>6 DEF CalmOK, HeightsOK
    <2>11. OrphansOK(data, os, v)
      BY <1>0, <1>1 DEF CalmOK, OrphansOK
    <2>12. CalmOK(data', disk', ToSet(orphans'), tip', u)
      BY <1>0, <2>1, <2>3, <2>8, <2>9, <2>10, <2>11 DEF CalmOK, os
    <2> QED
      BY <2>12 DEF CalmNow, u
  <1> QED
    BY <1>3, <1>4, <1>5, <1>6 DEF PeaceBegins

LEMMA CalmMaybeAcceptBlock ==
    ASSUME Ground, events' = {}, maybeAcceptBlock(Handler) PROVE CalmNow'
  <1> DEFINE t == task[Handler]
             b == t.block
             os == ToSet(orphans)
             u == [t EXCEPT !.pc = "connect"]
  <1>0. CalmOK(data, disk, os, tip, t) /\ Typed
    BY DEF Ground, CalmNow
  <1>1. /\ t \in Tasks /\ t.pc = "accept" /\ t.op \in {"accept", "resume"} /\ b \in Blocks /\ b # Genesis
        /\ tip' = tip /\ orphans' = orphans
    BY <1>0, TaskFacts, ProcFacts DEF maybeAcceptBlock, At, Ctl, Tasks, orphanVars
  <1>2. Parent[b] \in Blocks
    BY <1>1, ChainAssumption
  <1>3. CASE rejected(b, "mined" \in t.flags) /\ Fail(Handler, TRUE, {}) /\ data' = data
    <2>1. ASSUME t.op = "resume", Good(b) PROVE FALSE
      <3>1. "mined" \notin t.flags /\ Has(data, Parent[b])
        BY <1>0, <1>1, <2>1 DEF CalmOK, ErrandOK
      <3>2. Known(Parent[b]) /\ LookupNode(Parent[b]) = <<Parent[b], 1>>
        BY <1>2, <3>1, ExistsFacts
      <3>3. ~Invalid(LookupNode(Parent[b]))
        BY <1>1, <2>1, <3>2, GoodFacts, NotInvalid DEF Ground, blockOf
      <3> QED
        BY <1>3, <3>1, <3>2, <3>3 DEF rejected
    <2>2. t.op = "accept" \/ ~Good(b)
      BY <1>1, <2>1
    <2> QED
      BY <1>1, <1>3, <2>2, CalmFail DEF Busy
  <1>4. CASE /\ disk' = disk \cup {b} /\ data' = data \cup {<<b, lookup'[b]>>} /\ Keep(Handler, u)
    <2>1. lookup'[b] = 1
      <3>1. FirstNodes'
        BY OneNodeNext DEF Ground, PeaceGoesOn
      <3>2. First(<<b, lookup'[b]>>)
        BY <1>4, <3>1 DEF FirstNodes
      <3> QED
        BY <3>2 DEF First, blockOf
    <2>2. /\ u.pc = "connect" /\ u.op = t.op /\ u.block = b /\ u.flags = t.flags /\ u.queue = t.queue
          /\ task' = [task EXCEPT ![Handler] = u]
      BY <1>1, <1>4 DEF Tasks, Keep
    <2> HIDE DEF u
    <2>3. task'[Handler] = u
      BY <1>0, <2>2, TaskIs
    <2> DEFINE d == data \cup {<<b, 1>>}
    <2>4. data' = d
      BY <1>4, <2>1
    <2>5. \A c : Has(d, c) <=> Has(data, c) \/ c = b
      BY DEF Has
    <2>6. tip \in d
      BY <1>0 DEF CalmOK
    <2> HIDE DEF d, os, t
    <2> DEFINE bb == t.block
    <2>7. StoredOK(d, disk \cup {b}, os)
      BY <1>0, <1>1, <2>5 DEF CalmOK, StoredOK, ErrandOK
    <2>8. PayloadsOK(d, disk \cup {b}, os, u)
      BY <1>0, <2>2, <2>5 DEF CalmOK, PayloadsOK, Popped
    <2>9. HeightsOK(d, tip, u)
      BY <1>0, <1>1, <2>2, <2>5 DEF CalmOK, HeightsOK, Reach
    <2>10. OrphansOK(d, os, u)
      <3>1. Waiting(t) \subseteq Waiting(u)
        BY <1>1, <2>2 DEF Waiting, Busy
      <3>2. t.op = "accept" => b \in Waiting(u)
        BY <2>2 DEF Waiting, Busy
      <3>3. t.op = "resume" => Waiting(t) = {}
        BY DEF Waiting
      <3>4. t.op = "resume" /\ Good(b) => Has(data, b)
        BY <1>0, <1>1 DEF CalmOK, ErrandOK
      <3> QED
        BY <1>0, <1>1, <2>5, <3>1, <3>2, <3>3, <3>4 DEF CalmOK, OrphansOK
    <2>11. ErrandOK(d, os, u)
      BY <1>0, <1>1, <2>2, <2>5 DEF CalmOK, ErrandOK
    <2>12. CalmOK(data', disk', ToSet(orphans'), tip', task'[Handler])
      BY <1>1, <1>4, <2>3, <2>4, <2>6, <2>7, <2>8, <2>9, <2>10, <2>11 DEF CalmOK, os
    <2> QED
      BY <2>12 DEF CalmNow
  <1> QED
    BY <1>3, <1>4 DEF maybeAcceptBlock

\* The handler goes on with the block it works on.
LEMMA CalmBusy ==
    ASSUME Ground, data' = data, disk' = disk, orphans' = orphans, tip' \in data,
           NEW u, task' = [task EXCEPT ![Handler] = u],
           task[Handler].pc \in Busy, u.pc \in Busy,
           u.op = task[Handler].op, u.block = task[Handler].block,
           u.flags = task[Handler].flags, u.queue = task[Handler].queue,
           \A b \in Blocks : Good(b) /\ Has(data, b) => height[b] <= Reach(u, tip')
    PROVE  CalmNow'
  <1> DEFINE t == task[Handler]
             os == ToSet(orphans)
  <1>0. CalmOK(data, disk, os, tip, t)
    BY DEF Ground, CalmNow
  <1>1. task'[Handler] = u
    BY TaskIs DEF Ground
  <1> HIDE DEF os, t
  <1>2. t.pc \in Busy /\ u.op = t.op /\ u.block = t.block /\ u.flags = t.flags /\ u.queue = t.queue
    BY DEF t
  <1>3. Waiting(u) = Waiting(t) /\ \A b : ~Popped(u, b) /\ ~Popped(t, b)
    BY <1>2 DEF Waiting, Popped, Busy
  <1>4. ErrandOK(data, os, u)
    BY <1>0, <1>2 DEF CalmOK, ErrandOK, Busy
  <1>5. PayloadsOK(data, disk, os, u)
    BY <1>0, <1>3 DEF CalmOK, PayloadsOK
  <1>6. OrphansOK(data, os, u)
    BY <1>0, <1>3 DEF CalmOK, OrphansOK
  <1>7. HeightsOK(data, tip', u)
    BY DEF HeightsOK
  <1>8. CalmOK(data', disk', ToSet(orphans'), tip', task'[Handler])
    BY <1>0, <1>1, <1>4, <1>5, <1>6, <1>7 DEF CalmOK, os
  <1> QED
    BY <1>8 DEF CalmNow

LEMMA CalmConnectBestChain ==
    ASSUME Ground, events' = {}, connectBestChain(Handler) PROVE CalmNow'
  <1> DEFINE t == task[Handler]
             b == t.block
             n == LookupNode(b)
             r == Reorg(n)
  <1>0. CalmOK(data, disk, ToSet(orphans), tip, t) /\ Typed
    BY DEF Ground, CalmNow
  <1>1. /\ t \in Tasks /\ t.pc = "connect" /\ t.op \in {"accept", "resume"} /\ b \in Blocks /\ b # Genesis
        /\ data' = data /\ orphans' = orphans
    BY <1>0, TaskFacts, ProcFacts DEF connectBestChain, At, Ctl, Tasks, orphanVars
  <1>2. Has(data, b)
    BY <1>0, <1>1 DEF CalmOK, ErrandOK, Busy
  <1>3. n = <<b, 1>> /\ n \in data /\ H(n) = height[b] /\ blockOf(n) = b
    BY <1>1, <1>2, ExistsFacts DEF Has, H, blockOf
  <1>4. tip \in data /\ blockOf(tip) \in Blocks /\ H(tip) = height[blockOf(tip)] /\ H(tip) \in Nat
    BY <1>0, TipFacts DEF CalmOK
  <1>5. /\ height[b] \in Nat /\ height[Parent[b]] = height[b] - 1
        /\ \A c \in Blocks : height[c] \in Nat
    BY <1>1, ParentFacts
  <1>6. \A c \in Blocks : Good(c) /\ Has(data, c) => height[c] <= H(tip) \/ c = b
    BY <1>0, <1>1 DEF CalmOK, HeightsOK, Reach
  <1>7. CASE b \in Bad /\ Fail(Handler, TRUE, {}) /\ tip' = tip
    <2>1. ~Good(b)
      BY <1>1, <1>7, GoodFacts
    <2> QED
      BY <1>1, <1>7, <2>1, CalmFail
  <1>8. CASE /\ Parent[b] = blockOf(tip) /\ tip' = n /\ disk' = disk
             /\ Yield(Handler, [t EXCEPT !.pc = "connected"])
    <2> DEFINE u == [t EXCEPT !.pc = "connected"]
    <2>1. /\ u.pc = "connected" /\ u.op = t.op /\ u.block = b /\ u.flags = t.flags /\ u.queue = t.queue
          /\ task' = [task EXCEPT ![Handler] = u]
      BY <1>1, <1>8 DEF Tasks, Yield
    <2> HIDE DEF u
    <2>2. Reach(u, tip') = height[b]
      BY <1>3, <1>8, <2>1 DEF Reach
    <2>3. H(tip) = height[b] - 1
      BY <1>4, <1>5, <1>8
    <2>4. \A c \in Blocks : Good(c) /\ Has(data, c) => height[c] <= height[b]
      <3>1. \A c \in Blocks : height[c] <= H(tip) => height[c] <= height[b]
        BY <1>5, <2>3
      <3>2. height[b] <= height[b]
        BY <1>5
      <3> QED
        BY <1>6, <3>1, <3>2
    <2> QED
      BY <1>1, <1>3, <1>8, <2>1, <2>2, <2>4, CalmBusy DEF Busy
  <1>9. CASE /\ ~MoreWork(n) /\ tip' = tip /\ disk' = disk
             /\ Keep(Handler, [t EXCEPT !.pc = "side"])
    <2> DEFINE u == [t EXCEPT !.pc = "side"]
    <2>1. /\ u.pc = "side" /\ u.op = t.op /\ u.block = b /\ u.flags = t.flags /\ u.queue = t.queue
          /\ task' = [task EXCEPT ![Handler] = u]
      BY <1>1, <1>9 DEF Tasks, Keep
    <2> HIDE DEF u
    <2>2. Reach(u, tip') = H(tip)
      BY <1>9, <2>1 DEF Reach
    <2>3. height[b] <= H(tip)
      BY <1>3, <1>4, <1>5, <1>9 DEF MoreWork
    <2> QED
      BY <1>1, <1>4, <1>6, <1>9, <2>1, <2>2, <2>3, CalmBusy DEF Busy
  <1>10. CASE /\ MoreWork(n) /\ tip' = tip /\ disk' = disk
              /\ Keep(Handler, [t EXCEPT !.pc = "verify", !.detach = r.detach, !.attach = r.attach])
    <2> HIDE DEF r
    <2> DEFINE u == [t EXCEPT !.pc = "verify", !.detach = r.detach, !.attach = r.attach]
    <2>1. /\ u.pc = "verify" /\ u.op = t.op /\ u.block = b /\ u.flags = t.flags /\ u.queue = t.queue
          /\ task' = [task EXCEPT ![Handler] = u]
      BY <1>1, <1>10 DEF Tasks, Keep
    <2> HIDE DEF u
    <2>2. \A c \in Blocks : Good(c) /\ Has(data, c) => height[c] <= Reach(u, tip')
      <3>1. CASE Good(b)
        <4>1. Reach(u, tip') = height[b]
          BY <2>1, <3>1 DEF Reach
        <4>2. \A c \in Blocks : height[c] <= H(tip) => height[c] <= height[b]
          BY <1>3, <1>4, <1>5, <1>10 DEF MoreWork
        <4>3. height[b] <= height[b]
          BY <1>5
        <4> QED
          BY <1>6, <4>1, <4>2, <4>3
      <3>2. CASE ~Good(b)
        <4>1. Reach(u, tip') = H(tip)
          BY <1>10, <2>1, <3>2 DEF Reach
        <4> QED
          BY <1>6, <3>2, <4>1
      <3> QED
        BY <3>1, <3>2
    <2> QED
      BY <1>1, <1>4, <1>10, <2>1, <2>2, CalmBusy DEF Busy
  <1> QED
    BY <1>7, <1>8, <1>9, <1>10 DEF connectBestChain

LEMMA CalmFinishAccept ==
    ASSUME Ground, events' = {}, finishAccept(Handler) PROVE CalmNow'
  <1> DEFINE t == task[Handler]
             os == ToSet(orphans)
             u == [t EXCEPT !.pc = "orphans", !.queue = Queued(t)]
  <1>0. CalmOK(data, disk, os, tip, t) /\ Typed
    BY DEF Ground, CalmNow
  <1>1. /\ t \in Tasks /\ t.pc \in {"connected", "side", "reorganized"} /\ t.op \in {"accept", "resume"}
        /\ t.queue \in Seq(Blocks) /\ t.block \in Blocks
        /\ data' = data /\ disk' = disk /\ orphans' = orphans /\ tip' = tip
    BY <1>0, TaskFacts, ProcFacts DEF finishAccept, At, Ctl, Tasks, orphanVars
  <1>2. Reach(t, tip) = H(tip) /\ (\A b : ~Popped(t, b)) /\ Has(data, t.block)
    BY <1>0, <1>1 DEF Reach, Popped, CalmOK, ErrandOK, Busy
  <1>3. CASE t.op = "resume" /\ Yield(Handler, Idle)
    <2>1. task'[Handler] = Idle
      BY <1>0, <1>3, TaskIs DEF Yield
    <2>2. Waiting(t) = {}
      BY <1>3 DEF Waiting
    <2>3. /\ Waiting(Idle) = {} /\ Reach(Idle, tip) = H(tip) /\ ErrandOK(data, os, Idle)
      BY IdleCalm
    <2> HIDE DEF os, t
    <2>4. PayloadsOK(data, disk, os, Idle)
      BY <1>0, <1>2 DEF CalmOK, PayloadsOK
    <2>5. HeightsOK(data, tip, Idle)
      BY <1>0, <1>1, <1>2, <2>3 DEF CalmOK, HeightsOK
    <2>6. OrphansOK(data, os, Idle)
      BY <1>0, <2>2, <2>3 DEF CalmOK, OrphansOK
    <2>7. CalmOK(data', disk', ToSet(orphans'), tip', task'[Handler])
      BY <1>0, <1>1, <2>1, <2>3, <2>4, <2>5, <2>6 DEF CalmOK, os
    <2> QED
      BY <2>7 DEF CalmNow
  <1>4. CASE t.op = "accept" /\ Yield(Handler, u)
    <2>1. /\ u.pc = "orphans" /\ u.op = t.op /\ u.block = t.block /\ u.flags = t.flags
          /\ u.queue = Append(t.queue, t.block)
          /\ task' = [task EXCEPT ![Handler] = u]
      BY <1>1, <1>4 DEF Tasks, Yield, Queued
    <2> HIDE DEF u
    <2>2. task'[Handler] = u
      BY <1>0, <2>1, TaskIs
    <2> DEFINE q == t.queue
               x == t.block
    <2>3. ToSet(Append(q, x)) = ToSet(q) \cup {x}
      <3>1. q \in Seq(Blocks) /\ x \in Blocks
        BY <1>1
      <3> HIDE DEF q, x
      <3>2. /\ Len(q) \in Nat /\ Len(Append(q, x)) = Len(q) + 1 /\ DOMAIN Append(q, x) = 1 .. Len(q) + 1
            /\ DOMAIN q = 1 .. Len(q)
            /\ \A i \in 1 .. Len(q) : Append(q, x)[i] = q[i]
            /\ Append(q, x)[Len(q) + 1] = x
        BY <3>1, AppendProperties
      <3>3. 1 .. Len(q) + 1 = (1 .. Len(q)) \cup {Len(q) + 1}
        BY <3>2
      <3> HIDE DEF q, x
      <3> QED
        BY <3>2, <3>3 DEF ToSet
    <2>4. ToSet(u.queue) = ToSet(t.queue) \cup {t.block}
      BY <2>1, <2>3
    <2> HIDE DEF os, t
    <2>5. Waiting(u) = Waiting(t)
      BY <1>1, <1>4, <2>1, <2>4 DEF Waiting, Busy
    <2>6. /\ Reach(u, tip) = H(tip) /\ \A b : ~Popped(u, b)
      BY <2>1 DEF Reach, Popped
    <2>7. ErrandOK(data, os, u)
      BY <1>0, <1>2, <1>4, <2>1, <2>4 DEF CalmOK, ErrandOK, Busy
    <2>8. PayloadsOK(data, disk, os, u)
      BY <1>0, <1>2 DEF CalmOK, PayloadsOK
    <2>9. HeightsOK(data, tip, u)
      BY <1>0, <1>1, <1>2, <2>6 DEF CalmOK, HeightsOK
    <2>10. OrphansOK(data, os, u)
      BY <1>0, <2>5 DEF CalmOK, OrphansOK
    <2>11. CalmOK(data', disk', ToSet(orphans'), tip', task'[Handler])
      BY <1>0, <1>1, <2>2, <2>7, <2>8, <2>9, <2>10 DEF CalmOK, os
    <2> QED
      BY <2>11 DEF CalmNow
  <1> QED
    BY <1>1, <1>3, <1>4 DEF finishAccept

LEMMA CalmProcessOrphans ==
    ASSUME Ground, events' = {}, processOrphans(Handler) PROVE CalmNow'
  <1> DEFINE t == task[Handler]
             os == ToSet(orphans)
             q == t.queue[1]
             kids == Kept(orphans, {o \in Blocks : Parent[o] # q})
  <1>0. CalmOK(data, disk, os, tip, t) /\ Typed
    BY DEF Ground, CalmNow
  <1>1. /\ t \in Tasks /\ t.pc = "orphans" /\ t.op = "accept" /\ t.queue \in Seq(Blocks)
        /\ data' = data /\ disk' = disk /\ tip' = tip
    BY <1>0, TaskFacts, ProcFacts DEF processOrphans, At, Ctl, Tasks
  <1>2. Reach(t, tip) = H(tip) /\ (\A b : ~Popped(t, b)) /\ Waiting(t) = ToSet(t.queue)
    BY <1>1 DEF Reach, Popped, Waiting, Busy
  <1>3. orphans \in Seq(Blocks) /\ os \subseteq Blocks
    BY <1>0 DEF Typed, StateOK, ToSet
  <1>4. kids \in Seq(Blocks) /\ ToSet(kids) = {o \in os : Parent[o] = q}
    <2>1. kids \in Seq(Blocks) /\ ToSet(kids) = os \ {o \in Blocks : Parent[o] # q}
      BY <1>3, KeptFacts
    <2> QED
      BY <1>3, <2>1
  <1>5. CASE /\ t.queue # <<>> /\ kids # <<>>
             /\ orphans' = Kept(orphans, {kids[1]})
             /\ Keep(Handler, [t EXCEPT !.pc = "accept", !.block = kids[1], !.flags = @ \cup {"orphan"}])
    <2> DEFINE kid == kids[1]
               u == [t EXCEPT !.pc = "accept", !.block = kid, !.flags = @ \cup {"orphan"}]
    <2>1. kid \in os /\ Parent[kid] = q
      <3> HIDE DEF kids
      <3>1. 1 \in DOMAIN kids
        BY <1>4, <1>5, EmptySeq
      <3>2. kids[1] \in ToSet(kids)
        BY <3>1 DEF ToSet
      <3> QED
        BY <1>4, <3>2
    <2>2. ToSet(orphans') = os \ {kid}
      BY <1>3, <1>5, KeptFacts
    <2>3. q \in ToSet(t.queue)
      <3>1. 1 \in DOMAIN t.queue
        BY <1>1, <1>5, EmptySeq
      <3> QED
        BY <3>1 DEF ToSet
    <2>4. task' = [task EXCEPT ![Handler] = u]
      BY <1>5 DEF Keep
    <2> HIDE DEF kid, kids
    <2>5. /\ u.pc = "accept" /\ u.op = t.op /\ u.block = kid /\ "orphan" \in u.flags /\ u.queue = t.queue
      BY <1>1 DEF Tasks
    <2> HIDE DEF u
    <2>6. task'[Handler] = u
      BY <1>0, <2>4, TaskIs
    <2>7. kid \in Blocks
      BY <1>3, <2>1
    <2> HIDE DEF os, t, q
    <2>8. /\ Waiting(u) = Waiting(t) /\ Reach(u, tip) = H(tip)
          /\ Popped(u, kid)
      BY <1>1, <1>2, <2>5 DEF Waiting, Reach, Popped, Busy
    <2> DEFINE os2 == os \ {kid}
    <2>9. StoredOK(data, disk, os2)
      BY <1>0 DEF CalmOK, StoredOK
    <2>10. PayloadsOK(data, disk, os2, u)
      BY <1>0, <1>2, <2>8 DEF CalmOK, PayloadsOK
    <2>11. HeightsOK(data, tip, u)
      BY <1>0, <1>1, <1>2, <2>8 DEF CalmOK, HeightsOK
    <2>12. OrphansOK(data, os2, u)
      BY <1>0, <2>8 DEF CalmOK, OrphansOK
    <2>13. ErrandOK(data, os2, u)
      <3>1. Good(kid) => Has(data, Parent[kid])
        <4>1. Good(kid) => Good(q)
          BY <2>1, <2>7, GoodFacts
        <4> QED
          BY <1>0, <1>1, <2>1, <2>3, <4>1 DEF CalmOK, ErrandOK
      <3> QED
        BY <1>0, <1>1, <2>5, <3>1 DEF CalmOK, ErrandOK, Busy
    <2> HIDE DEF os2
    <2>14. CalmOK(data', disk', ToSet(orphans'), tip', task'[Handler])
      BY <1>0, <1>1, <2>2, <2>6, <2>9, <2>10, <2>11, <2>12, <2>13 DEF CalmOK, os2
    <2> QED
      BY <2>14 DEF CalmNow
  <1>6. CASE /\ t.queue # <<>> /\ kids = <<>> /\ orphans' = orphans
             /\ Keep(Handler, [t EXCEPT !.queue = Tail(@)])
    <2> DEFINE u == [t EXCEPT !.queue = Tail(@)]
               s == t.queue
    <2>1. /\ u.pc = "orphans" /\ u.op = t.op /\ u.block = t.block /\ u.flags = t.flags /\ u.queue = Tail(t.queue)
          /\ task' = [task EXCEPT ![Handler] = u]
      BY <1>1, <1>6 DEF Tasks, Keep
    <2> HIDE DEF u
    <2>2. task'[Handler] = u
      BY <1>0, <2>1, TaskIs
    <2>3. ToSet(s) = ToSet(Tail(s)) \cup {s[1]}
      <3>1. s \in Seq(Blocks) /\ s # <<>>
        BY <1>1, <1>6
      <3> HIDE DEF s
      <3>2. /\ Tail(s) \in Seq(Blocks) /\ Len(s) \in Nat \ {0} /\ Len(Tail(s)) = Len(s) - 1
            /\ \A i \in 1 .. Len(Tail(s)) : Tail(s)[i] = s[i + 1]
            /\ DOMAIN s = 1 .. Len(s) /\ DOMAIN Tail(s) = 1 .. Len(Tail(s))
        BY <3>1, EmptySeq, HeadTailProperties
      <3>3. \A i \in DOMAIN s : i = 1 \/ (i - 1 \in DOMAIN Tail(s) /\ Tail(s)[i - 1] = s[i])
        BY <3>2
      <3>4. \A i \in DOMAIN Tail(s) : i + 1 \in DOMAIN s /\ Tail(s)[i] = s[i + 1]
        BY <3>2
      <3>5. 1 \in DOMAIN s
        BY <3>2
      <3> DEFINE w == Tail(s)
      <3>6. /\ \A i \in DOMAIN s : i = 1 \/ (i - 1 \in DOMAIN w /\ w[i - 1] = s[i])
            /\ \A i \in DOMAIN w : i + 1 \in DOMAIN s /\ w[i] = s[i + 1]
        BY <3>3, <3>4
      <3> HIDE DEF w
      <3>7. {s[i] : i \in DOMAIN s} = {w[i] : i \in DOMAIN w} \cup {s[1]}
        BY <3>5, <3>6
      <3> QED
        BY <3>7 DEF ToSet, w
    <2>4. ToSet(kids) = {}
      BY <1>6 DEF ToSet
    <2>5. \A o \in os : Parent[o] # q
      BY <1>4, <2>4
    <2>6. ToSet(t.queue) = ToSet(u.queue) \cup {q}
      BY <2>1, <2>3
    <2> HIDE DEF os, t, q
    <2>7. Waiting(u) = ToSet(u.queue) /\ Reach(u, tip) = H(tip) /\ \A b : ~Popped(u, b)
      BY <1>1, <2>1 DEF Waiting, Reach, Popped, Busy
    <2>8. PayloadsOK(data, disk, os, u)
      BY <1>0, <1>2 DEF CalmOK, PayloadsOK
    <2>9. HeightsOK(data, tip, u)
      BY <1>0, <1>1, <1>2, <2>7 DEF CalmOK, HeightsOK
    <2>10. OrphansOK(data, os, u)
      BY <1>0, <1>2, <2>5, <2>6, <2>7 DEF CalmOK, OrphansOK
    <2>11. ErrandOK(data, os, u)
      BY <1>0, <1>1, <2>1, <2>6 DEF CalmOK, ErrandOK, Busy
    <2>12. CalmOK(data', disk', ToSet(orphans'), tip', task'[Handler])
      BY <1>0, <1>1, <1>6, <2>2, <2>8, <2>9, <2>10, <2>11 DEF CalmOK, os
    <2> QED
      BY <2>12 DEF CalmNow
  <1>7. CASE t.queue = <<>> /\ Yield(Handler, Idle) /\ orphans' = orphans
    <2>1. task'[Handler] = Idle
      BY <1>0, <1>7, TaskIs DEF Yield
    <2>2. Waiting(t) = {}
      BY <1>2, <1>7 DEF ToSet
    <2>3. /\ Waiting(Idle) = {} /\ Reach(Idle, tip) = H(tip) /\ ErrandOK(data, os, Idle)
      BY IdleCalm
    <2> HIDE DEF os, t
    <2>4. PayloadsOK(data, disk, os, Idle)
      BY <1>0, <1>2 DEF CalmOK, PayloadsOK
    <2>5. HeightsOK(data, tip, Idle)
      BY <1>0, <1>1, <1>2, <2>3 DEF CalmOK, HeightsOK
    <2>6. OrphansOK(data, os, Idle)
      BY <1>0, <2>2, <2>3 DEF CalmOK, OrphansOK
    <2>7. CalmOK(data', disk', ToSet(orphans'), tip', task'[Handler])
      BY <1>0, <1>1, <1>7, <2>1, <2>3, <2>4, <2>5, <2>6 DEF CalmOK, os
    <2> QED
      BY <2>7 DEF CalmNow
  <1> QED
    BY <1>5, <1>6, <1>7 DEF processOrphans

LEMMA CalmRemoveBlockData ==
    ASSUME Ground, events' = {}, RemoveBlockData(Handler) PROVE CalmNow'
  <1> DEFINE t == task[Handler]
             b == t.block
             os == ToSet(orphans)
             d == data \ {LookupNode(b)}
             k == disk \ {b}
  <1>0. CalmOK(data, disk, os, tip, t) /\ Typed
    BY DEF Ground, CalmNow
  <1>1. /\ t \in Tasks /\ t.pc = "remove" /\ t.op = "resume" /\ b \in Blocks
        /\ data' = d /\ disk' = k /\ tip' = tip /\ orphans' = orphans /\ task' = [task EXCEPT ![Handler] = Idle]
    BY <1>0, TaskFacts, ProcFacts DEF RemoveBlockData, At, Ctl, Tasks, orphanVars
  <1>2. ~Good(b)
    BY <1>0, <1>1 DEF CalmOK, ErrandOK
  <1>3. \A c \in Blocks : Good(c) => (Has(d, c) <=> Has(data, c)) /\ (c \in k <=> c \in disk)
    BY <1>2 DEF Has, LookupNode
  <1>4. tip \in d
    <2>1. tip = <<blockOf(tip), 1>> /\ Good(blockOf(tip)) /\ tip \in data
      BY <1>0, TipFacts DEF CalmOK
    <2> QED
      BY <1>2, <2>1 DEF LookupNode
  <1>5. task'[Handler] = Idle
    BY <1>0, <1>1, TaskIs
  <1>6. Waiting(t) = {} /\ Reach(t, tip) = H(tip) /\ (\A c : ~Popped(t, c))
    BY <1>1 DEF Waiting, Reach, Popped
  <1>7. /\ Waiting(Idle) = {} /\ Reach(Idle, tip) = H(tip) /\ ErrandOK(d, os, Idle)
    BY IdleCalm
  <1> HIDE DEF d, k, os, t
  <1>8. StoredOK(d, k, os)
    BY <1>0, <1>3, GoodFacts DEF CalmOK, StoredOK
  <1>9. PayloadsOK(d, k, os, Idle)
    BY <1>0, <1>3, <1>6 DEF CalmOK, PayloadsOK
  <1>10. HeightsOK(d, tip, Idle)
    BY <1>0, <1>1, <1>3, <1>6, <1>7 DEF CalmOK, HeightsOK
  <1>11. OrphansOK(d, os, Idle)
    <2>1. \A o \in os : Parent[o] \in Blocks
      <3>1. os \subseteq Blocks
        BY <1>0 DEF Typed, StateOK, ToSet, os
      <3> QED
        BY <3>1, ChainAssumption
    <2> QED
      BY <1>0, <1>3, <1>6, <2>1 DEF CalmOK, OrphansOK
  <1>12. CalmOK(data', disk', ToSet(orphans'), tip', task'[Handler])
    BY <1>1, <1>4, <1>5, <1>7, <1>8, <1>9, <1>10, <1>11 DEF CalmOK, os
  <1> QED
    BY <1>12 DEF CalmNow

\* The blocks of a reorganization are stored, if the block it goes to is good.
LEMMA ReorgStored ==
    ASSUME Ground, task[Handler].pc \in {"verify", "reorg"}
    PROVE  LET t == task[Handler] IN
           /\ t \in Tasks /\ t.op \in {"accept", "resume"} /\ t.block \in Blocks /\ Has(data, t.block)
           /\ t.detach \in Seq(Nodes) /\ t.attach \in Seq(Nodes) /\ Grown(t.detach)
           /\ \E f \in Blocks : Falls(t.detach, blockOf(tip), f) /\ Rises(t.attach, f)
           /\ \A i \in 1 .. Len(t.detach) : blockOf(t.detach[i]) \in Line(blockOf(tip))
           /\ Good(t.block) => \A i \in 1 .. Len(t.attach) :
                 /\ blockOf(t.attach[i]) \in disk \ Bad /\ Has(data, blockOf(t.attach[i]))
                 /\ t.attach[i] = <<blockOf(t.attach[i]), 1>>
  <1> DEFINE t == task[Handler]
  <1>0. CalmOK(data, disk, ToSet(orphans), tip, t) /\ Typed /\ Safe /\ PeaceTask(t, tip)
        /\ "overlap" \notin events
    BY DEF Ground, CalmNow
  <1>1. /\ t \in Tasks /\ t.op \in {"accept", "resume"} /\ t.block \in Blocks
        /\ t.detach \in Seq(Nodes) /\ t.attach \in Seq(Nodes) /\ Grown(t.detach) /\ Grown(t.attach)
    BY <1>0, TaskFacts, ProcFacts DEF Ctl, Tasks, PeaceTask
  <1>2. Has(data, t.block)
    BY <1>0 DEF CalmOK, ErrandOK, Busy
  <1>3. PICK f \in Blocks : Falls(t.detach, blockOf(tip), f) /\ Rises(t.attach, f)
    BY <1>0, <1>1, ProcFacts DEF Safe, SafeTask
  <1>4. blockOf(tip) \in Blocks
    BY TipFacts
  <1>5. \A i \in 1 .. Len(t.detach) : blockOf(t.detach[i]) \in Line(blockOf(tip))
    BY <1>1, <1>3, <1>4, FallsLine
  <1>6. ASSUME Good(t.block), NEW i \in 1 .. Len(t.attach)
        PROVE  /\ blockOf(t.attach[i]) \in disk \ Bad /\ Has(data, blockOf(t.attach[i]))
               /\ t.attach[i] = <<blockOf(t.attach[i]), 1>>
    <2>1. t.attach # <<>> /\ Len(t.attach) \in Nat /\ Len(t.attach) \in 1 .. Len(t.attach)
      BY <1>1, <1>6, EmptySeq
    <2>2. blockOf(t.attach[Len(t.attach)]) = t.block /\ First(t.attach[i])
      BY <1>0, <1>6, <2>1 DEF PeaceTask
    <2>3. blockOf(t.attach[i]) \in Line(t.block)
      BY <1>1, <1>3, <1>6, <2>1, <2>2, RisesLine
    <2>4. StoredOK(data, disk, ToSet(orphans))
      BY <1>0 DEF CalmOK
    <2>5. blockOf(t.attach[i]) \in disk /\ Has(data, blockOf(t.attach[i]))
      BY <1>1, <1>2, <1>6, <2>3, <2>4, DataLine
    <2> QED
      BY <1>1, <1>6, <2>2, <2>3, <2>5, GoodFacts DEF First
  <1> QED
    BY <1>1, <1>2, <1>3, <1>5, <1>6

LEMMA CalmVerify ==
    ASSUME Ground, events' = {}, verifyReorganizationValidity(Handler) PROVE CalmNow'
  <1> DEFINE t == task[Handler]
             u == [t EXCEPT !.pc = "reorg"]
             lacking == {i \in DOMAIN t.attach : blockOf(t.attach[i]) \notin disk}
             wrong == {i \in DOMAIN t.attach : Breaks(t.attach[i])}
             notTip == t.detach # <<>> /\ blockOf(t.detach[1]) # blockOf(tip)
             noPayload == \E i \in DOMAIN t.detach : blockOf(t.detach[i]) \notin disk
  <1>0. CalmOK(data, disk, ToSet(orphans), tip, t) /\ Typed /\ PeaceTask(t, tip)
    BY DEF Ground, CalmNow
  <1>1. t.pc = "verify" /\ data' = data /\ orphans' = orphans /\ tip' = tip
    BY DEF verifyReorganizationValidity, At, orphanVars
  <1>2. /\ t \in Tasks /\ t.op \in {"accept", "resume"} /\ t.block \in Blocks /\ Has(data, t.block)
        /\ t.detach \in Seq(Nodes) /\ t.attach \in Seq(Nodes)
        /\ \E f \in Blocks : Falls(t.detach, blockOf(tip), f) /\ Rises(t.attach, f)
        /\ \A i \in 1 .. Len(t.detach) : blockOf(t.detach[i]) \in Line(blockOf(tip))
        /\ Good(t.block) => \A i \in 1 .. Len(t.attach) :
                 /\ blockOf(t.attach[i]) \in disk \ Bad /\ Has(data, blockOf(t.attach[i]))
    BY <1>1, ReorgStored
  <1>3. ~notTip
    BY <1>2 DEF Falls
  <1>4. ~noPayload
    BY <1>2, TipFacts
  <1>5. Good(t.block) => lacking \cup wrong = {}
    BY <1>2 DEF Breaks
  <1>6. CASE \E r, es : Fail(Handler, r, es) /\ ~Good(t.block)
    BY <1>1, <1>2, <1>6, CalmFail
  <1>7. CASE Keep(Handler, u) /\ disk' = disk
    <2>1. /\ u.pc = "reorg" /\ u.op = t.op /\ u.block = t.block /\ u.flags = t.flags /\ u.queue = t.queue
          /\ task' = [task EXCEPT ![Handler] = u]
      BY <1>2, <1>7 DEF Tasks, Keep
    <2> HIDE DEF u
    <2>2. Reach(u, tip') = Reach(t, tip)
      BY <1>1, <2>1 DEF Reach
    <2>3. tip' \in data /\ \A b \in Blocks : Good(b) /\ Has(data, b) => height[b] <= Reach(t, tip)
      BY <1>0, <1>1 DEF CalmOK, HeightsOK
    <2> QED
      BY <1>1, <1>7, <2>1, <2>2, <2>3, CalmBusy DEF Busy
  <1> QED
    BY <1>3, <1>4, <1>5, <1>6, <1>7 DEF verifyReorganizationValidity

LEMMA CalmDisconnectBlock ==
    ASSUME Ground, events' = {}, disconnectBlock(Handler) PROVE CalmNow'
  <1> DEFINE t == task[Handler]
             u == [t EXCEPT !.detach = Tail(@)]
             n == t.detach[1]
             prev == parentOf(n)
  <1>0. CalmOK(data, disk, ToSet(orphans), tip, t) /\ Typed /\ PeaceTask(t, tip) /\ OneNode
    BY DEF Ground, CalmNow
  <1>1. t.pc = "reorg" /\ t.detach # <<>> /\ data' = data /\ orphans' = orphans
    BY DEF disconnectBlock, At, orphanVars
  <1>2. /\ t \in Tasks /\ t.op \in {"accept", "resume"} /\ t.block \in Blocks /\ Has(data, t.block)
        /\ t.detach \in Seq(Nodes) /\ Grown(t.detach)
        /\ \E f \in Blocks : Falls(t.detach, blockOf(tip), f) /\ Rises(t.attach, f)
    BY <1>1, ReorgStored
  <1>3. blockOf(n) = blockOf(tip)
    BY <1>1, <1>2 DEF Falls
  <1>4. n \in Nodes /\ blockOf(n) # Genesis
    <2>1. 1 \in 1 .. Len(t.detach)
      BY <1>1, <1>2, EmptySeq
    <2> QED
      BY <1>2, <2>1 DEF Grown
  <1>5. prev = <<Parent[blockOf(tip)], 1>> /\ blockOf(prev) = Parent[blockOf(tip)]
    BY <1>0, <1>3, <1>4 DEF parentOf, OneNode, Ones, blockOf
  <1>6. blockOf(tip) \in Blocks /\ Parent[blockOf(tip)] \in Line(blockOf(tip))
    BY <1>3, <1>4, TipFacts, ParentFacts
  <1>7. blockOf(prev) \in disk /\ prev \in data
    BY <1>5, <1>6, TipFacts DEF Has
  <1>8. Good(t.block)
    BY <1>0, <1>1 DEF PeaceTask
  <1>9. tip' = prev /\ disk' = disk /\ Yield(Handler, u)
    BY <1>3, <1>7 DEF disconnectBlock
  <1>10. /\ u.pc = "reorg" /\ u.op = t.op /\ u.block = t.block /\ u.flags = t.flags /\ u.queue = t.queue
         /\ task' = [task EXCEPT ![Handler] = u]
    BY <1>1, <1>2, <1>9 DEF Tasks, Yield
  <1> HIDE DEF u, n, prev
  <1>11. Reach(u, tip') = Reach(t, tip)
    BY <1>1, <1>8, <1>10 DEF Reach
  <1>12. \A b \in Blocks : Good(b) /\ Has(data, b) => height[b] <= Reach(t, tip)
    BY <1>0, <1>1 DEF CalmOK, HeightsOK
  <1> QED
    BY <1>1, <1>7, <1>9, <1>10, <1>11, <1>12, CalmBusy DEF Busy

LEMMA CalmConnectBlock ==
    ASSUME Ground, events' = {}, connectBlock(Handler) PROVE CalmNow'
  <1> DEFINE t == task[Handler]
             u == [t EXCEPT !.attach = Tail(@)]
             n == t.attach[1]
  <1>0. CalmOK(data, disk, ToSet(orphans), tip, t) /\ Typed /\ PeaceTask(t, tip)
    BY DEF Ground, CalmNow
  <1>1. t.pc = "reorg" /\ t.detach = <<>> /\ t.attach # <<>> /\ data' = data /\ orphans' = orphans
    BY DEF connectBlock, At, orphanVars
  <1>2. Good(t.block)
    BY <1>0, <1>1 DEF PeaceTask
  <1>3. /\ t \in Tasks /\ t.attach \in Seq(Nodes)
        /\ \E f \in Blocks : Falls(t.detach, blockOf(tip), f) /\ Rises(t.attach, f)
        /\ \A i \in 1 .. Len(t.attach) :
              Has(data, blockOf(t.attach[i])) /\ t.attach[i] = <<blockOf(t.attach[i]), 1>>
    BY <1>1, <1>2, ReorgStored
  <1>4. Parent[blockOf(n)] = blockOf(tip)
    BY <1>1, <1>3 DEF Falls, Rises
  <1>5. n \in data
    <2>1. 1 \in 1 .. Len(t.attach)
      BY <1>1, <1>3, EmptySeq
    <2> QED
      BY <1>3, <2>1 DEF Has
  <1>6. tip' = n /\ disk' = disk /\ Yield(Handler, u)
    BY <1>4 DEF connectBlock
  <1>7. /\ u.pc = "reorg" /\ u.op = t.op /\ u.block = t.block /\ u.flags = t.flags /\ u.queue = t.queue
        /\ task' = [task EXCEPT ![Handler] = u]
    BY <1>1, <1>3, <1>6 DEF Tasks, Yield
  <1> HIDE DEF u, n
  <1>8. Reach(u, tip') = Reach(t, tip)
    BY <1>1, <1>2, <1>7 DEF Reach
  <1>9. \A b \in Blocks : Good(b) /\ Has(data, b) => height[b] <= Reach(t, tip)
    BY <1>0, <1>1 DEF CalmOK, HeightsOK
  <1> QED
    BY <1>1, <1>5, <1>6, <1>7, <1>8, <1>9, CalmBusy DEF Busy

LEMMA CalmEndReorganize ==
    ASSUME Ground, events' = {}, endReorganize(Handler) PROVE CalmNow'
  <1> DEFINE t == task[Handler]
             u == [t EXCEPT !.pc = "reorganized"]
  <1>0. CalmOK(data, disk, ToSet(orphans), tip, t) /\ Typed /\ PeaceTask(t, tip)
    BY DEF Ground, CalmNow
  <1>1. /\ t.pc = "reorg" /\ t.detach = <<>> /\ t.attach = <<>>
        /\ data' = data /\ orphans' = orphans /\ tip' = tip /\ disk' = disk
    BY DEF endReorganize, At, orphanVars
  <1>2. t \in Tasks /\ t.op \in {"accept", "resume"}
    BY <1>1, ReorgStored
  <1>3. Keep(Handler, u)
    BY <1>2 DEF endReorganize
  <1>4. /\ u.pc = "reorganized" /\ u.op = t.op /\ u.block = t.block /\ u.flags = t.flags /\ u.queue = t.queue
        /\ task' = [task EXCEPT ![Handler] = u]
    BY <1>2, <1>3 DEF Tasks, Keep
  <1> HIDE DEF u
  <1>5. Reach(u, tip') = Reach(t, tip)
    <2>1. Reach(u, tip') = H(tip)
      BY <1>1, <1>4 DEF Reach
    <2>2. Good(t.block) => H(tip) = height[t.block]
      BY <1>0, <1>1 DEF PeaceTask, H
    <2> QED
      BY <1>1, <2>1, <2>2 DEF Reach
  <1>6. tip' \in data /\ \A b \in Blocks : Good(b) /\ Has(data, b) => height[b] <= Reach(t, tip)
    BY <1>0, <1>1 DEF CalmOK, HeightsOK
  <1> QED
    BY <1>1, <1>4, <1>5, <1>6, CalmBusy DEF Busy

LEMMA CalmNext == Typed /\ Safe /\ Lone /\ Peace /\ Calm /\ [Next]_vars => Calm'
  <1> SUFFICES ASSUME Typed, Safe, Lone, Peace, Calm, [Next]_vars, Undisturbed', events' = {}
               PROVE  CalmNow'
    BY DEF Calm
  <1>1. /\ Undisturbed /\ "overlap" \notin events /\ Foul(events) = Bad
        /\ OneNode /\ FirstNodes /\ Blamed(Bad) /\ PeaceTask(task[Handler], tip)
        /\ UNCHANGED vars \/ PeaceBegins \/ PeaceGoesOn
        /\ PeaceBegins => task[Handler] = Idle
    BY PeaceSteps
  <1>2. events = {}
    BY EventsGrow
  <1>3. Ground
    BY <1>1, <1>2 DEF Ground, Calm
  <1>4. CASE UNCHANGED vars
    <2>1. data' = data /\ disk' = disk /\ orphans' = orphans /\ tip' = tip /\ task' = task
      BY <1>4 DEF vars, orphanVars
    <2> QED
      BY <1>3, <2>1 DEF Ground, CalmNow
  <1>5. CASE PeaceBegins
    BY <1>1, <1>3, <1>5, CalmBegins
  <1>6. CASE PeaceGoesOn
    BY <1>3, <1>6, CalmMaybeAcceptBlock, CalmConnectBestChain, CalmFinishAccept, CalmProcessOrphans,
       CalmRemoveBlockData, CalmVerify, CalmDisconnectBlock, CalmConnectBlock, CalmEndReorganize
       DEF PeaceGoesOn
  <1> QED
    BY <1>1, <1>4, <1>5, <1>6

LEMMA CalmInit == Init => Calm
  <1> SUFFICES ASSUME Init PROVE CalmNow
    BY DEF Calm
  <1>1. /\ task[Handler] = Idle /\ data = {<<Genesis, 1>>} /\ disk = {Genesis} /\ tip = <<Genesis, 1>>
        /\ Parent[Genesis] = Genesis /\ Genesis \in Blocks
    BY ProcFacts, ChainAssumption DEF Init
  <1>2. ToSet(orphans) = {}
    BY DEF Init, ToSet
  <1>3. \A b : Has(data, b) <=> b = Genesis
    BY <1>1 DEF Has
  <1>4. H(tip) = height[Genesis] /\ height[Genesis] <= height[Genesis]
    BY <1>1, TreeAssumption DEF H, blockOf
  <1>5. Reach(Idle, tip) = H(tip) /\ ErrandOK(data, {}, Idle)
    BY IdleCalm
  <1>6. StoredOK(data, disk, {}) /\ PayloadsOK(data, disk, {}, Idle) /\ OrphansOK(data, {}, Idle)
    BY <1>1, <1>3 DEF StoredOK, PayloadsOK, OrphansOK
  <1>7. HeightsOK(data, tip, Idle)
    BY <1>3, <1>4, <1>5 DEF HeightsOK
  <1> QED
    BY <1>1, <1>2, <1>5, <1>6, <1>7 DEF CalmNow, CalmOK

LEMMA CalmAlways == Spec => []Calm
  BY CalmInit, CalmNext, TypedAlways, SafeAlways, LoneAlways, PeaceAlways, PTL DEF Spec

LEMMA CalmGround ==
    ASSUME Typed, Safe, Peace, Calm, Undisturbed, events = {} PROVE Ground
  BY DEF Peace, Calm, Ground, Foul

LEMMA OnDisk == ASSUME Typed, Safe, Peace, Calm PROVE ChainOnDisk
  <1> SUFFICES ASSUME Undisturbed, events = {} PROVE Chain \subseteq disk
    BY DEF ChainOnDisk
  <1>1. Ground /\ Chain = Line(blockOf(tip))
    BY CalmGround, ChainIs
  <1> QED
    BY <1>1, TipFacts

LEMMA Most == ASSUME Typed, Safe, Peace, Calm PROVE MostWork
  <1> SUFFICES ASSUME Quiet, Undisturbed, events = {}, NEW b \in Blocks, Ready(b)
               PROVE  height[b] <= H(tip)
    BY DEF MostWork
  <1> DEFINE n == LookupNode(b)
  <1>1. Ground
    BY CalmGround
  <1>2. Known(b) /\ n = <<b, 1>> /\ blockOf(tip) \in Blocks /\ tip = <<blockOf(tip), 1>>
    BY <1>1, OneNodeFacts, TipFacts DEF Ready, Ground, Typed
  <1>3. /\ View(n) = {<<c, 1>> : c \in Line(b)}
        /\ View(tip) = {<<c, 1>> : c \in Line(blockOf(tip))}
    BY <1>1, <1>2, OnesView DEF Ground, OneNode
  <1>4. \A c \in Line(b) : c \notin Bad
    <2> SUFFICES ASSUME NEW c \in Line(b) PROVE c \notin Bad
      OBVIOUS
    <2>1. <<c, 1>> \in View(n) /\ blockOf(<<c, 1>>) = c
      BY <1>3 DEF blockOf
    <2>2. CASE <<c, 1>> \in View(tip)
      <3>1. c \in Line(blockOf(tip))
        BY <1>3, <2>2
      <3> QED
        BY <1>1, <3>1 DEF Safe, Ground
    <2>3. CASE <<c, 1>> \notin View(tip)
      BY <2>1, <2>3 DEF Ready
    <2> QED
      BY <2>2, <2>3
  <1>5. Good(b) /\ b \in Line(b)
    BY <1>4, LineStep DEF Good
  <1>6. Has(data, b)
    <2>1. <<b, 1>> \in View(n)
      BY <1>3, <1>5
    <2>2. CASE <<b, 1>> \in View(tip)
      <3>1. b \in Line(blockOf(tip))
        BY <1>3, <2>2
      <3> QED
        BY <1>1, <3>1, TipFacts
    <2>3. CASE <<b, 1>> \notin View(tip)
      BY <2>1, <2>3 DEF Ready, Has
    <2> QED
      BY <2>2, <2>3
  <1>7. task[Handler].pc = "idle"
    BY ProcFacts DEF Quiet
  <1>8. HeightsOK(data, tip, task[Handler])
    BY <1>1 DEF Ground, CalmNow, CalmOK
  <1>9. Reach(task[Handler], tip) = H(tip)
    BY <1>7 DEF Reach
  <1> QED
    BY <1>5, <1>6, <1>7, <1>8, <1>9 DEF HeightsOK

LEMMA NoneStuck == ASSUME Typed, Safe, Peace, Calm PROVE NoStuckOrphan
  <1> SUFFICES ASSUME Quiet, Undisturbed, events = {}, NEW o \in ToSet(orphans), Parent[o] \in Chain
               PROVE  FALSE
    BY DEF NoStuckOrphan
  <1>1. Ground /\ Chain = Line(blockOf(tip))
    BY CalmGround, ChainIs
  <1>2. Good(Parent[o]) /\ Has(data, Parent[o])
    BY <1>1, TipFacts
  <1>3. task[Handler] = Idle
    BY TaskFacts, ProcFacts DEF Quiet, Ctl
  <1>4. OrphansOK(data, ToSet(orphans), Idle)
    BY <1>1, <1>3 DEF Ground, CalmNow, CalmOK
  <1>5. Waiting(Idle) = {}
    BY IdleCalm
  <1> QED
    BY <1>2, <1>4, <1>5 DEF OrphansOK

\* The UTXO set is that of the best chain, and undisturbed the payload of every
\* block of the chain is stored, through reorganizations that fail and orphans that
\* expire, are evicted or are removed.
THEOREM ChainBackedAlways == Spec => []ChainBacked
  <1>1. Typed /\ Safe /\ Peace /\ Calm => ChainOnDisk
    BY OnDisk
  <1>2. Spec => []ChainOnDisk
    BY <1>1, TypedAlways, SafeAlways, PeaceAlways, CalmAlways, PTL
  <1> QED
    BY <1>2, UtxoAlways, PTL DEF ChainBacked

\* Between two operations no stored branch that could be connected has more work
\* than the best chain, whatever the order its blocks and headers came in.
THEOREM MostWorkAlways == Spec => []MostWork
  <1>1. Typed /\ Safe /\ Peace /\ Calm => MostWork
    BY Most
  <1> QED
    BY <1>1, TypedAlways, SafeAlways, PeaceAlways, CalmAlways, PTL

\* Between two operations no orphan waits for a connected block, and the header view
\* is not behind the best chain.
THEOREM NothingLeftAlways == Spec => []NothingLeftBehind
  <1>1. Typed /\ Safe /\ Peace /\ Calm => NoStuckOrphan
    BY NoneStuck
  <1>2. Typed /\ Led => HeaderLeads
    BY LedLeads
  <1> QED
    BY <1>1, <1>2, ChainTypesAlways, TypedAlways, SafeAlways, PeaceAlways, CalmAlways, LedAlways, PTL
       DEF NothingLeftBehind

-----------------------------------------------------------------------------
(* The assertions.                                                         *)

\* Of two blocks of a line, the lower one is on the line of the other.
LEMMA LineOrder ==
    ASSUME NEW b \in Blocks, NEW c \in Line(b), NEW e \in Line(b), height[c] <= height[e]
    PROVE  c \in Line(e)
  <1> DEFINE S == {x \in Blocks : \A y, z \in Line(x) : height[y] <= height[z] => y \in Line(z)}
  <1>1. Genesis \in S
    BY LineStep, ChainAssumption
  <1>2. ASSUME NEW x \in Blocks \ {Genesis}, Parent[x] \in S PROVE x \in S
    <2> SUFFICES ASSUME NEW y \in Line(x), NEW z \in Line(x), height[y] <= height[z] PROVE y \in Line(z)
      OBVIOUS
    <2>1. /\ Parent[x] \in Blocks /\ height[Parent[x]] = height[x] - 1 /\ height[x] \in Nat
          /\ Line(x) = Line(Parent[x]) \cup {x}
      BY ParentFacts
    <2>2. CASE z = x
      BY <2>2
    <2>3. CASE z # x
      <3>1. z \in Line(Parent[x]) /\ height[z] <= height[Parent[x]] /\ height[z] \in Nat
        BY <2>1, <2>3, LineStep, LineBelow, ParentFacts
      <3>2. y # x
        BY <2>1, <3>1
      <3> QED
        BY <1>2, <2>1, <3>1, <3>2
    <2> QED
      BY <2>2, <2>3
  <1>3. Blocks \subseteq S
    <2> HIDE DEF S
    <2> QED
      BY <1>1, <1>2, TreeInduction
  <1>4. b \in S
    BY <1>3
  <1> QED
    BY <1>4

\* Where every block has one node, the ancestor at the height of a block of the
\* line is that block's node.
LEMMA OnesAncestor ==
    ASSUME par = Ones, NEW c \in Blocks, NEW b \in Line(c)
    PROVE  Ancestor(<<c, 1>>, height[b]) = <<b, 1>> /\ b \in Blocks /\ height[b] \in 0 .. height[c]
  <1> DEFINE n == <<c, 1>>
  <1>1. n \in Nodes /\ H(n) = height[c] /\ Ones \in Gens /\ height[c] \in Nat
    BY OnesFacts, ParentFacts
  <1>2. PICK h \in 0 .. height[c] : b = blockOf(Anc(Ones, n, h))
    BY DEF Line
  <1>3. H(Anc(Ones, n, h)) = h
    BY <1>1, <1>2, AncFacts
  <1>4. height[b] = h
    BY <1>2, <1>3 DEF H
  <1>5. First(Ancestor(n, h)) /\ Ancestor(n, h) = Anc(Ones, n, h)
    BY <1>2, OnesView, AncestorIs
  <1> QED
    BY <1>2, <1>4, <1>5, LineBelow DEF First

\* The heights of the blocks in the index are bounded.
Bounded == \E k \in Nat : \A b \in Blocks : Known(b) => height[b] <= k

LEMMA BoundedSub ==
    ASSUME Bounded, NEW x \in Blocks, \A b \in Blocks \ {x} : lookup'[b] \in {0, lookup[b]}
    PROVE  Bounded'
  <1>1. PICK k \in Nat : \A b \in Blocks : Known(b) => height[b] <= k
    BY DEF Bounded
  <1>2. height[x] \in Nat /\ \A b \in Blocks : height[b] \in Nat
    BY ParentFacts
  <1>3. k + height[x] \in Nat /\ height[x] <= k + height[x]
        /\ \A b \in Blocks : height[b] <= k => height[b] <= k + height[x]
    BY <1>2
  <1>4. \A b \in Blocks : lookup'[b] # 0 => height[b] <= k + height[x]
    BY <1>1, <1>3 DEF Known
  <1> QED
    BY <1>3, <1>4 DEF Bounded, Known

LEMMA BoundedNext == Typed /\ Bounded /\ [Next]_vars => Bounded'
  <1> SUFFICES ASSUME Typed, Bounded, [Next]_vars PROVE Bounded'
    OBVIOUS
  <1>0. lookup \in [Blocks -> 0 .. MaxGen] /\ Genesis \in Blocks
    BY ChainAssumption DEF Typed, IndexOK
  <1>1. ASSUME lookup' = lookup PROVE Bounded'
    BY <1>0, <1>1, BoundedSub
  <1>2. ASSUME NEW b \in Blocks, lookup' = lookup \/ AddNode(b) PROVE Bounded'
    <2>1. \A c \in Blocks \ {b} : lookup'[c] = lookup[c]
      BY <1>0, <1>2 DEF AddNode
    <2> QED
      BY <2>1, BoundedSub
  <1>3. CASE UNCHANGED vars
    BY <1>1, <1>3 DEF vars, indexVars
  <1>4. ASSUME NEW b \in Blocks, NEW flags \in Given,
               ProcessOrphanBlock(b) \/ ProcessBlock(b, flags) \/ ResumeBlockConnect
        PROVE  Bounded'
    BY <1>1, <1>4 DEF ProcessOrphanBlock, ProcessBlock, ResumeBlockConnect, indexVars
  <1>5. ASSUME NEW b \in Blocks, ProcessBlockHeader(b) PROVE Bounded'
    BY <1>2, <1>5 DEF ProcessBlockHeader
  <1>6. ASSUME NEW b \in Blocks, InvalidateBlock(b) PROVE Bounded'
    BY <1>1, <1>6 DEF InvalidateBlock
  <1>7. ASSUME NEW b \in Blocks, ReconsiderBlock(b) PROVE Bounded'
    BY <1>1, <1>7 DEF ReconsiderBlock, indexVars
  <1>8. ASSUME NEW h, InvalidateHeaderChain(h) PROVE Bounded'
    BY <1>1, <1>8 DEF InvalidateHeaderChain, indexVars
  <1>9. ASSUME NEW p \in Procs, maybeAcceptBlock(p) PROVE Bounded'
    <2>1. task[p].block \in Blocks
      BY TaskFacts DEF Tasks
    <2>2. lookup' = lookup \/ AddNode(task[p].block)
      BY <1>9 DEF maybeAcceptBlock, indexVars
    <2> QED
      BY <1>2, <2>1, <2>2
  <1>10. ASSUME NEW p \in Procs,
                \/ connectBestChain(p) \/ verifyReorganizationValidity(p) \/ connectBlock(p) \/ endReorganize(p)
         PROVE  Bounded'
    BY <1>1, <1>10 DEF connectBestChain, verifyReorganizationValidity, connectBlock, endReorganize, indexVars
  <1>11. ASSUME NEW p \in Procs,
                \/ finishAccept(p) \/ processOrphans(p) \/ RemoveBlockData(p) \/ disconnectBlock(p)
                \/ reconsiderBranch(p) \/ rehome(p)
         PROVE  Bounded'
    BY <1>1, <1>11 DEF finishAccept, processOrphans, RemoveBlockData, disconnectBlock, reconsiderBranch, rehome,
                       indexVars
  <1>12. ASSUME NEW p \in Procs, removeDisconnectedBlocks(p) PROVE Bounded'
    <2>1. \A c \in Blocks : lookup'[c] \in {0, lookup[c]}
      BY <1>12 DEF removeDisconnectedBlocks
    <2> QED
      BY <1>0, <2>1, BoundedSub
  <1> QED
    BY <1>3, <1>4, <1>5, <1>6, <1>7, <1>8, <1>9, <1>10, <1>11, <1>12, GivenFacts, ChainAssumption DEF Next

LEMMA BoundedAlways == Spec => []Bounded
  <1>1. Init => Bounded
    <2> SUFFICES ASSUME Init PROVE Bounded
      OBVIOUS
    <2>1. \A b \in Blocks : Known(b) => b = Genesis
      BY DEF Init, Known
    <2>2. height[Genesis] \in Nat /\ height[Genesis] <= height[Genesis]
      BY ParentFacts, ChainAssumption
    <2> QED
      BY <2>1, <2>2 DEF Bounded
  <1> QED
    BY <1>1, TypedAlways, BoundedNext, PTL DEF Spec

\* ReconsiderBlock finds a branch with the block, if every block has one node.
LEMMA BranchFound ==
    ASSUME Typed, Bounded, OneNode, FirstNodes, NEW b \in Blocks, Known(b)
    PROVE  LET n == LookupNode(b) IN
           \E t \in InactiveTips \cup {tip} : t = n \/ (H(n) < H(t) /\ Ancestor(t, H(n)) = n)
  <1> DEFINE n == LookupNode(b)
             T == blockOf(tip)
             off == {LookupNode(c) : c \in {e \in Blocks : Known(e)}} \ View(tip)
  <1>1. IndexOK /\ par = Ones
    BY DEF Typed, OneNode
  <1>2. n = <<b, 1>> /\ H(n) = height[b] /\ height[b] \in Nat
    BY <1>1, OneNodeFacts, ParentFacts DEF H, blockOf
  <1>3. T \in Blocks /\ tip = <<T, 1>> /\ View(tip) = {<<c, 1>> : c \in Line(T)}
        /\ H(tip) = height[T]
    <2>1. T \in Blocks /\ tip = <<T, 1>>
      BY NodeFacts DEF Typed, StateOK, Real, FirstNodes, First
    <2>2. View(<<T, 1>>) = {<<c, 1>> : c \in Line(T)}
      BY <1>1, <2>1, OnesView
    <2> QED
      BY <2>1, <2>2 DEF H
  <1>4. ASSUME NEW c \in Blocks, b \in Line(c)
        PROVE  LET t == <<c, 1>> IN t = n \/ (H(n) < H(t) /\ Ancestor(t, H(n)) = n)
    <2>1. height[b] <= height[c] /\ (height[b] = height[c] => b = c) /\ height[c] \in Nat
      BY <1>4, LineStep, ParentFacts
    <2>2. Ancestor(<<c, 1>>, height[b]) = <<b, 1>>
      BY <1>1, <1>4, OnesAncestor
    <2>3. H(<<c, 1>>) = height[c]
      BY DEF H, blockOf
    <2>4. b = c \/ height[b] < height[c]
      BY <1>2, <2>1
    <2> QED
      BY <1>2, <2>2, <2>3, <2>4
  <1>5. CASE b \in Line(T)
    BY <1>3, <1>4, <1>5
  <1>6. CASE b \notin Line(T)
    <2> DEFINE S == {c \in Blocks : Known(c) /\ b \in Line(c)}
               hs == {height[c] : c \in S}
    <2>1. PICK k \in Nat : \A c \in Blocks : Known(c) => height[c] <= k
      BY DEF Bounded
    <2>2. hs \in SUBSET Nat /\ hs # {} /\ \A h \in hs : h <= k
      BY <2>1, LineStep, ParentFacts
    <2> HIDE DEF hs
    <2>3. PICK x \in hs : \A h \in hs : h <= x
      BY <2>1, <2>2, GreatestNumber
    <2>4. PICK c \in S : x = height[c]
      BY <2>3 DEF hs
    <2>5. \A e \in S : height[e] <= height[c]
      BY <2>3, <2>4 DEF hs
    <2>6. c \in Blocks /\ Known(c) /\ b \in Line(c)
      BY <2>4
    <2>7. LookupNode(c) = <<c, 1>>
      BY <1>1, <2>6, OneNodeFacts
    <2>8. c \notin Line(T)
      BY <1>3, <1>6, <2>6, LineBelow
    <2>9. <<c, 1>> \in off
      <3>1. <<c, 1>> \notin View(tip)
        BY <1>3, <2>8
      <3> QED
        BY <2>6, <2>7, <3>1
    <2>10. ASSUME NEW m \in off, Parent[blockOf(m)] = c PROVE FALSE
      <3>1. PICK e \in Blocks : Known(e) /\ m = LookupNode(e)
        BY <2>10
      <3>2. blockOf(m) = e /\ m = <<e, 1>>
        BY <1>1, <3>1, OneNodeFacts, KnownNode
      <3>3. e # Genesis
        <4>1. Genesis \in Line(Genesis) /\ Parent[Genesis] = Genesis
          BY LineStep, ChainAssumption
        <4>2. Genesis \in Line(T)
          <5> DEFINE Q == {y \in Blocks : Genesis \in Line(y)}
          <5>1. Genesis \in Q
            BY <4>1, ChainAssumption
          <5>2. \A y \in Blocks \ {Genesis} : Parent[y] \in Q => y \in Q
            BY ParentFacts
          <5>3. Blocks \subseteq Q
            <6> HIDE DEF Q
            <6> QED
              BY <5>1, <5>2, TreeInduction
          <5> QED
            BY <1>3, <5>3
        <4> QED
          BY <2>8, <2>10, <3>2, <4>1, <4>2
      <3>4. height[Parent[e]] = height[e] - 1 /\ height[e] \in Nat /\ Line(e) = Line(Parent[e]) \cup {e}
        BY <3>3, ParentFacts
      <3>5. Parent[e] = c
        BY <2>10, <3>2
      <3>6. e \in S
        BY <2>6, <3>1, <3>4, <3>5
      <3>7. height[e] <= height[c]
        BY <2>5, <3>6
      <3> QED
        BY <3>4, <3>5, <3>7
    <2>11. <<c, 1>> \in InactiveTips
      <3>1. blockOf(<<c, 1>>) = c
        BY DEF blockOf
      <3> QED
        BY <2>9, <2>10, <3>1 DEF InactiveTips
    <2> QED
      BY <1>4, <2>6, <2>11
  <1> QED
    BY <1>5, <1>6

\* The goroutine that invalidates block x: what it detaches leads from the tip
\* down to the parent of x, and only x and the bad blocks are blamed.
StruckAt(x, t, tp) ==
    /\ Falls(t.detach, blockOf(tp), Parent[x])
    /\ t.pc = "invalidate" => t.detach = <<>>
Struck ==
    events \cap {"overlap", "unchecked"} = {} /\ commands = 1 /\ rollbacks = 0 /\ task[Rpc].op = "invalidate" =>
        \E x \in Blocks \ {Genesis} : Blamed(Bad \cup {x}) /\ StruckAt(x, task[Rpc], tip)

LEMMA FallsAppend ==
    ASSUME NEW s \in Seq(Nodes), NEW from, NEW n \in Nodes, Falls(s, from, blockOf(n))
    PROVE  Falls(Append(s, n), from, Parent[blockOf(n)])
  <1> DEFINE w == Append(s, n)
  <1>1. /\ w \in Seq(Nodes) /\ Len(s) \in Nat /\ Len(w) = Len(s) + 1 /\ w[Len(s) + 1] = n
        /\ \A i \in 1 .. Len(s) : w[i] = s[i]
    BY AppendProperties
  <1> HIDE DEF w
  <1>2. w # <<>> /\ w[Len(w)] = n
    <2>1. Len(<<>>) = 0
      OBVIOUS
    <2> QED
      BY <1>1, <2>1
  <1>3. blockOf(w[1]) = from
    <2>1. CASE s = <<>>
      <3>1. Len(s) = 0
        BY <2>1
      <3>2. w[1] = n
        BY <1>1, <3>1
      <3> QED
        BY <2>1, <3>2 DEF Falls
    <2>2. CASE s # <<>>
      <3>1. 1 \in 1 .. Len(s)
        BY <2>2, EmptySeq
      <3> QED
        BY <1>1, <2>2, <3>1 DEF Falls
    <2> QED
      BY <2>1, <2>2
  <1>4. ASSUME NEW i \in 1 .. Len(w) - 1 PROVE blockOf(w[i + 1]) = Parent[blockOf(w[i])]
    <2>1. i \in 1 .. Len(s) /\ w[i] = s[i]
      BY <1>1
    <2>2. CASE i = Len(s)
      <3>1. s # <<>>
        BY <2>1, EmptySeq
      <3>2. w[i + 1] = n
        BY <1>1, <2>2
      <3> QED
        BY <2>1, <2>2, <3>1, <3>2 DEF Falls
    <2>3. CASE i # Len(s)
      <3>1. i \in 1 .. Len(s) - 1 /\ i + 1 \in 1 .. Len(s)
        BY <1>1, <2>1, <2>3
      <3>2. w[i + 1] = s[i + 1]
        BY <1>1, <3>1
      <3> QED
        BY <2>1, <3>1, <3>2 DEF Falls
    <2> QED
      BY <2>2, <2>3
  <1> QED
    BY <1>2, <1>3, <1>4 DEF Falls, w

\* InvalidateBlock of a block of the chain, as the first command.
LEMMA StruckBegins ==
    ASSUME Typed, Safe, OneNode, FirstNodes, Blamed(Bad), Foul(events) = Bad, task[Rpc] = Idle,
           NEW b \in Blocks, InvalidateBlock(b), task'[Rpc].op = "invalidate"
    PROVE  b # Genesis /\ Blamed(Bad \cup {b})' /\ StruckAt(b, task'[Rpc], tip')
  <1> DEFINE n == LookupNode(b)
             T == blockOf(tip)
             s == Down(tip, H(n))
             d == Append(Kept(s, failed \cup invAnc), n)
             u == [Idle EXCEPT !.pc = "verify", !.op = "invalidate", !.detach = d]
             onChain == {m \in Between(tip, n) : ~Invalid(m)}
  <1>1. /\ b # Genesis /\ Known(b) /\ tip' = tip /\ failed' = failed \cup {n}
    BY DEF InvalidateBlock
  <1>2. n \in View(tip) /\ invAnc' = invAnc \cup onChain /\ task' = [task EXCEPT ![Rpc] = u]
    <2>1. ASSUME task' = task PROVE FALSE
      BY <2>1, IdleFacts
    <2> QED
      BY <2>1 DEF InvalidateBlock, Keep
  <1>3. IndexOK /\ par = Ones /\ par \in RealGens /\ Real(tip)
    BY DEF Typed, OneNode, IndexOK, StateOK
  <1>4. n = <<b, 1>> /\ blockOf(n) = b /\ H(n) = height[b] /\ n \in Nodes
    BY <1>1, <1>3, OneNodeFacts, KnownNode DEF Real
  <1>5. T \in Blocks /\ tip = <<T, 1>> /\ View(tip) = {<<c, 1>> : c \in Line(T)}
    <2>1. T \in Blocks /\ tip = <<T, 1>>
      BY <1>3, NodeFacts DEF Real, FirstNodes, First
    <2>2. View(<<T, 1>>) = {<<c, 1>> : c \in Line(T)}
      BY <1>3, <2>1, OnesView
    <2> QED
      BY <2>1, <2>2
  <1>6. b \in Line(T)
    BY <1>2, <1>4, <1>5
  <1>7. H(n) \in 0 .. H(tip) /\ Anc(par, tip, H(n)) = n
    BY <1>2, <1>3, ViewFacts
  <1> HIDE DEF s, d, u, n, onChain
  <1>8. /\ s \in Seq(Nodes) /\ Len(s) = H(tip) - H(n)
        /\ \A i \in 1 .. H(tip) - H(n) : s[i] = Anc(par, tip, H(tip) + 1 - i)
        /\ Falls(s, T, b)
    <2>1. /\ Down(tip, H(n)) \in Seq(Nodes) /\ Len(Down(tip, H(n))) = H(tip) - H(n)
          /\ \A i \in 1 .. H(tip) - H(n) : Down(tip, H(n))[i] = Anc(par, tip, H(tip) + 1 - i)
          /\ Falls(Down(tip, H(n)), blockOf(tip), blockOf(Anc(par, tip, H(n))))
      BY <1>3, <1>7, DownFacts
    <2> QED
      BY <1>4, <1>7, <2>1 DEF s
  <1>9. \A i \in DOMAIN s : s[i] \notin failed \cup invAnc
    <2> SUFFICES ASSUME NEW i \in DOMAIN s PROVE s[i] \notin failed \cup invAnc
      OBVIOUS
    <2>1. blockOf(s[i]) \in Line(T)
      BY <1>5, <1>8, FallsLine
    <2>2. Line(blockOf(s[i])) \cap Bad = {}
      BY <1>5, <2>1, LineBelow DEF Safe
    <2> QED
      BY <2>2 DEF Blamed
  <1>10. d = Append(s, n)
    BY <1>8, <1>9, KeptFacts DEF d
  <1>11. Falls(d, T, Parent[b])
    BY <1>4, <1>8, <1>10, FallsAppend
  <1>12. u.pc = "verify" /\ u.detach = d
    BY DEF u, Idle
  <1>13. task'[Rpc] = u
    BY <1>2, TaskFacts, ProcFacts
  <1>14. \A m \in onChain : b \in Line(blockOf(m))
    <2> SUFFICES ASSUME NEW m \in onChain PROVE b \in Line(blockOf(m))
      OBVIOUS
    <2>1. m \in View(tip) /\ H(m) > H(n)
      BY DEF onChain, Between
    <2>2. PICK c \in Line(T) : m = <<c, 1>>
      BY <1>5, <2>1
    <2>3. blockOf(m) = c /\ H(m) = height[c] /\ c \in Blocks
      BY <1>5, <2>2, LineBelow DEF blockOf, H
    <2>4. height[b] <= height[c]
      BY <1>4, <2>1, <2>3, ParentFacts
    <2> QED
      BY <1>5, <1>6, <2>2, <2>3, <2>4, LineOrder
  <1>15. \A m \in failed' \cup invAnc' : Line(blockOf(m)) \cap (Bad \cup {b}) # {}
    <2>1. \A m \in failed \cup invAnc : Line(blockOf(m)) \cap (Bad \cup {b}) # {}
      BY DEF Blamed
    <2>2. b \in Line(b)
      BY LineStep
    <2> QED
      BY <1>1, <1>2, <1>4, <1>14, <2>1, <2>2
  <1>16. blockOf(tip') = T
    BY <1>1
  <1>17. StruckAt(b, task'[Rpc], tip')
    BY <1>11, <1>12, <1>13, <1>16 DEF StruckAt
  <1>18. Blamed(Bad \cup {b})'
    BY <1>15 DEF Blamed
  <1> QED
    BY <1>1, <1>17, <1>18

\* A step of the block handler: the chain moves only where an overlap is noted.
LEMMA HandlerStill ==
    ASSUME Typed, HandlerBegins \/ HandlerGoesOn
    PROVE  /\ task'[Rpc] = task[Rpc]
           /\ tip' = tip \/ (Noted(Handler) /\ lock \in {None, Handler})
  <1>1. ASSUME NEW u, task' = [task EXCEPT ![Handler] = u] PROVE task'[Rpc] = task[Rpc]
    BY <1>1, TaskFacts, ProcFacts
  <1>2. ASSUME NEW u, Keep(Handler, u) \/ Yield(Handler, u) PROVE task'[Rpc] = task[Rpc]
    BY <1>1, <1>2 DEF Keep, Yield
  <1>3. ASSUME NEW r, NEW es, Fail(Handler, r, es) PROVE task'[Rpc] = task[Rpc]
    BY <1>2, <1>3 DEF Fail
  <1>4. ASSUME NEW b \in Blocks, ProcessOrphanBlock(b) \/ ProcessBlockHeader(b)
        PROVE  task'[Rpc] = task[Rpc] /\ tip' = tip
    BY <1>4 DEF ProcessOrphanBlock, ProcessBlockHeader
  <1>5. ASSUME NEW b \in Blocks, NEW flags \in Given, ProcessBlock(b, flags) \/ ResumeBlockConnect
        PROVE  task'[Rpc] = task[Rpc] /\ tip' = tip
    BY <1>2, <1>5 DEF ProcessBlock, ResumeBlockConnect
  <1>6. ASSUME NEW h, InvalidateHeaderChain(h) PROVE task'[Rpc] = task[Rpc] /\ tip' = tip
    BY <1>2, <1>6 DEF InvalidateHeaderChain
  <1>7. CASE maybeAcceptBlock(Handler) \/ verifyReorganizationValidity(Handler)
    BY <1>2, <1>3, <1>7 DEF maybeAcceptBlock, verifyReorganizationValidity
  <1>8. CASE connectBestChain(Handler)
    BY <1>2, <1>3, <1>8, OverlapsNoted DEF connectBestChain, At, Free
  <1>9. CASE disconnectBlock(Handler)
    BY <1>2, <1>3, <1>9, OverlapsNoted DEF disconnectBlock, At, Free
  <1>10. CASE connectBlock(Handler)
    BY <1>2, <1>3, <1>10, OverlapsNoted DEF connectBlock, At, Free
  <1>11. CASE removeDisconnectedBlocks(Handler)
    BY <1>2, <1>11, OverlapsNoted DEF removeDisconnectedBlocks, At, Free
  <1>12. CASE finishAccept(Handler) \/ processOrphans(Handler) \/ endReorganize(Handler)
    BY <1>2, <1>12 DEF finishAccept, processOrphans, endReorganize
  <1>13. CASE RemoveBlockData(Handler)
    BY <1>1, <1>13 DEF RemoveBlockData
  <1>14. CASE HandlerBegins
    BY <1>4, <1>5, <1>6, <1>14, GivenFacts, ChainAssumption DEF HandlerBegins
  <1>15. CASE HandlerGoesOn
    BY <1>7, <1>8, <1>9, <1>10, <1>11, <1>12, <1>13, <1>15 DEF HandlerGoesOn
  <1> QED
    BY <1>14, <1>15

RpcGoesOn ==
    \/ verifyReorganizationValidity(Rpc) \/ disconnectBlock(Rpc) \/ connectBlock(Rpc) \/ endReorganize(Rpc)
    \/ rehome(Rpc) \/ reconsiderBranch(Rpc)

\* The steps the two goroutines take.
LEMMA Steps ==
    ASSUME Typed, [Next]_vars
    PROVE  \/ UNCHANGED vars
           \/ \E b \in Blocks : InvalidateBlock(b) \/ ReconsiderBlock(b)
           \/ \E h \in 0 .. H(tip) : InvalidateHeaderChain(h)
           \/ /\ HandlerBegins \/ HandlerGoesOn \/ RpcGoesOn
              /\ commands' = commands /\ rollbacks' = rollbacks
  <1>1. Ctl(Rpc, task[Rpc], lookup, lock)
    BY TaskFacts, ProcFacts
  <1>2. ~(maybeAcceptBlock(Rpc) \/ connectBestChain(Rpc) \/ finishAccept(Rpc) \/ processOrphans(Rpc)
          \/ RemoveBlockData(Rpc) \/ removeDisconnectedBlocks(Rpc))
    <2>1. task[Rpc].pc \notin {"accept", "connect", "connected", "side", "reorganized", "orphans", "remove", "rollback"}
      BY <1>1, ProcFacts DEF Ctl
    <2> QED
      BY <2>1 DEF maybeAcceptBlock, connectBestChain, finishAccept, processOrphans, RemoveBlockData,
                  removeDisconnectedBlocks, At
  <1>3. ASSUME NEW p \in Procs,
               \/ maybeAcceptBlock(p) \/ connectBestChain(p) \/ finishAccept(p)
               \/ processOrphans(p) \/ RemoveBlockData(p)
               \/ verifyReorganizationValidity(p)
               \/ disconnectBlock(p) \/ connectBlock(p) \/ endReorganize(p)
               \/ rehome(p) \/ reconsiderBranch(p) \/ removeDisconnectedBlocks(p)
        PROVE  /\ HandlerGoesOn \/ RpcGoesOn
               /\ commands' = commands /\ rollbacks' = rollbacks
    <2>1. /\ commands' = commands /\ rollbacks' = rollbacks
          /\ rehome(p) \/ reconsiderBranch(p) => p = Rpc
      BY <1>3, GoesOn
    <2>2. CASE p = Handler
      BY <1>3, <2>1, <2>2, ProcFacts DEF HandlerGoesOn
    <2>3. CASE p = Rpc
      BY <1>2, <1>3, <2>1, <2>3 DEF RpcGoesOn
    <2> QED
      BY <2>1, <2>2, <2>3, ProcFacts
  <1>4. ASSUME NEW b \in Blocks, NEW flags \in Given,
               \/ ProcessOrphanBlock(b) \/ ProcessBlock(b, flags) \/ ProcessBlockHeader(b)
               \/ ResumeBlockConnect
        PROVE  HandlerBegins /\ commands' = commands /\ rollbacks' = rollbacks
    <2>1. commands' = commands /\ rollbacks' = rollbacks
      BY <1>4 DEF ProcessOrphanBlock, ProcessBlock, ProcessBlockHeader, ResumeBlockConnect, bounds
    <2> QED
      BY <1>4, <2>1 DEF HandlerBegins
  <1> QED
    BY <1>3, <1>4, GivenFacts, ChainAssumption DEF Next

\* Where a goroutine is that invalidates.
LEMMA Invalidating ==
    ASSUME Typed, NEW p \in Procs, task[p].op = "invalidate"
    PROVE  /\ p = Rpc /\ task[p].pc \in {"verify", "reorg", "invalidate"}
           /\ task[p].pc # "reorg" => lock = Rpc
  <1>1. Ctl(p, task[p], lookup, lock) /\ task[p] \in Tasks
    BY TaskFacts
  <1>2. p = Rpc
    BY <1>1, ProcFacts DEF Ctl
  <1>3. task[p].pc \in Pcs
    BY <1>1 DEF Tasks
  <1>4. task[p].pc \in {"verify", "reorg", "invalidate"}
    BY <1>1, <1>3, IdleFacts DEF Ctl, Pcs
  <1> QED
    BY <1>1, <1>2, <1>4 DEF Ctl, Inside

LEMMA StruckRpc ==
    ASSUME Typed, Safe, RpcGoesOn, task'[Rpc].op = "invalidate",
           NEW x \in Blocks, task[Rpc].op = "invalidate" => StruckAt(x, task[Rpc], tip)
    PROVE  task[Rpc].op = "invalidate" /\ StruckAt(x, task'[Rpc], tip')
  <1> DEFINE t == task[Rpc]
  <1>1. t \in Tasks /\ t.detach \in Seq(Nodes) /\ SafeTask(t, tip, events)
        /\ \A u : [task EXCEPT ![Rpc] = u][Rpc] = u
    BY TaskFacts, ProcFacts DEF Tasks, Safe
  <1>2. ASSUME NEW u, Keep(Rpc, u) \/ Yield(Rpc, u) PROVE task'[Rpc] = u
    BY <1>1, <1>2 DEF Keep, Yield
  <1>3. ASSUME NEW r, NEW es, Fail(Rpc, r, es) PROVE FALSE
    <2>1. t.op # "resume"
      BY TaskFacts, ProcFacts DEF Ctl
    <2>2. Yield(Rpc, Idle)
      BY <1>3, <2>1 DEF Fail
    <2> QED
      BY <1>2, <2>2, IdleFacts
  <1>4. ~Yield(Rpc, Idle)
    BY <1>2, IdleFacts
  <1>5. CASE verifyReorganizationValidity(Rpc)
    <2> DEFINE u == [t EXCEPT !.pc = "reorg"]
    <2>1. Keep(Rpc, u) /\ tip' = tip
      BY <1>3, <1>5 DEF verifyReorganizationValidity
    <2>2. u.pc = "reorg" /\ u.op = t.op /\ u.detach = t.detach
      BY <1>1 DEF Tasks
    <2> HIDE DEF u
    <2>3. task'[Rpc] = u
      BY <1>2, <2>1
    <2> QED
      BY <2>1, <2>2, <2>3 DEF StruckAt
  <1>6. CASE disconnectBlock(Rpc)
    <2> DEFINE u == [t EXCEPT !.detach = Tail(@)]
    <2>1. /\ Yield(Rpc, u) /\ tip' = parentOf(t.detach[1]) /\ t.pc = "reorg" /\ t.detach # <<>>
          /\ blockOf(t.detach[1]) = blockOf(tip)
      BY <1>3, <1>6 DEF disconnectBlock, At
    <2>2. u.pc = "reorg" /\ u.op = t.op /\ u.detach = Tail(t.detach)
      BY <1>1, <2>1 DEF Tasks
    <2> HIDE DEF u
    <2>3. task'[Rpc] = u
      BY <1>2, <2>1
    <2>4. t.op = "invalidate" /\ Falls(t.detach, blockOf(tip), Parent[x])
      BY <2>2, <2>3 DEF StruckAt
    <2>5. Falls(Tail(t.detach), Parent[blockOf(tip)], Parent[x])
      BY <1>1, <2>1, <2>4, TailFacts
    <2>6. blockOf(tip') = Parent[blockOf(tip)]
      BY <2>1 DEF parentOf, blockOf
    <2> QED
      BY <2>2, <2>3, <2>4, <2>5, <2>6 DEF StruckAt
  <1>7. CASE connectBlock(Rpc)
    <2> DEFINE u == [t EXCEPT !.attach = Tail(@)]
    <2>1. Yield(Rpc, u) /\ t.attach # <<>>
      BY <1>3, <1>7 DEF connectBlock
    <2>2. u.op = t.op
      BY <1>1 DEF Tasks
    <2> HIDE DEF u
    <2>3. t.op = "invalidate"
      BY <1>2, <2>1, <2>2
    <2> QED
      BY <1>1, <2>1, <2>3 DEF SafeTask
  <1>8. CASE endReorganize(Rpc)
    <2> DEFINE u == [t EXCEPT !.pc = t.op]
               v == [t EXCEPT !.pc = "reorganized"]
    <2>1. t.op \notin {"accept", "resume"}
      BY TaskFacts, ProcFacts DEF Ctl
    <2>2. Keep(Rpc, u) /\ tip' = tip /\ t.detach = <<>>
      BY <1>4, <1>8, <2>1 DEF endReorganize
    <2>3. u.op = t.op /\ u.detach = t.detach
      BY <1>1 DEF Tasks
    <2> HIDE DEF u
    <2>4. task'[Rpc] = u
      BY <1>2, <2>2
    <2> QED
      BY <2>2, <2>3, <2>4 DEF StruckAt
  <1>9. CASE rehome(Rpc)
    <2>1. CASE task' = task /\ tip' = tip
      BY <2>1
    <2>2. ASSUME NEW d, NEW a, Keep(Rpc, [Idle EXCEPT !.pc = "verify", !.op = "rehome", !.detach = d, !.attach = a])
          PROVE  FALSE
      <3> DEFINE u == [Idle EXCEPT !.pc = "verify", !.op = "rehome", !.detach = d, !.attach = a]
      <3>1. u.op = "rehome"
        BY DEF Idle
      <3> HIDE DEF u
      <3>2. task'[Rpc] = u
        BY <1>2, <2>2 DEF u
      <3> QED
        BY <3>1, <3>2
    <2> QED
      BY <1>4, <1>9, <2>1, <2>2 DEF rehome
  <1>10. CASE reconsiderBranch(Rpc)
    <2> DEFINE r == Reorg(t.attach[1])
               u == [t EXCEPT !.pc = "verify", !.detach = r.detach, !.attach = r.attach]
    <2>1. Keep(Rpc, u) /\ t.pc = "branch"
      BY <1>10 DEF reconsiderBranch, At
    <2> HIDE DEF r
    <2>2. u.op = t.op
      BY <1>1 DEF Tasks
    <2> HIDE DEF u
    <2>3. t.op = "invalidate"
      BY <1>2, <2>1, <2>2
    <2> QED
      BY <2>1, <2>3, Invalidating, ProcFacts
  <1> QED
    BY <1>5, <1>6, <1>7, <1>8, <1>9, <1>10 DEF RpcGoesOn

LEMMA StruckNext == Typed /\ Safe /\ Lone /\ Peace /\ Struck /\ [Next]_vars => Struck'
  <1> SUFFICES ASSUME Typed, Safe, Lone, Peace, Struck, [Next]_vars,
                      events' \cap {"overlap", "unchecked"} = {}, commands' = 1, rollbacks' = 0,
                      task'[Rpc].op = "invalidate"
               PROVE  \E x \in Blocks \ {Genesis} : Blamed(Bad \cup {x})' /\ StruckAt(x, task'[Rpc], tip')
    BY DEF Struck
  <1>0. /\ commands \in Nat /\ rollbacks \in Nat /\ events \cap {"overlap", "unchecked"} = {}
        /\ "overlap" \notin events' /\ Foul(events) = Bad
    BY EventsGrow DEF Typed, StateOK, Foul
  <1>1. ASSUME NEW b \in Blocks, InvalidateBlock(b) \/ ReconsiderBlock(b)
        PROVE  /\ task[Rpc] = Idle /\ OneNode /\ FirstNodes /\ Blamed(Bad)
    <2>1. commands' = commands + 1 /\ rollbacks' = rollbacks
      BY <1>1 DEF InvalidateBlock, ReconsiderBlock
    <2>2. commands = 0 /\ rollbacks = 0
      BY <1>0, <2>1
    <2>3. Undisturbed
      BY <2>2 DEF Undisturbed
    <2> QED
      BY <1>0, <2>2, <2>3 DEF Lone, Peace
  <1>2. ASSUME NEW b \in Blocks, InvalidateBlock(b)
        PROVE  \E x \in Blocks \ {Genesis} : Blamed(Bad \cup {x})' /\ StruckAt(x, task'[Rpc], tip')
    BY <1>0, <1>1, <1>2, StruckBegins
  <1>3. ASSUME NEW b \in Blocks, ReconsiderBlock(b) PROVE FALSE
    <2>1. task[Rpc] = Idle
      BY <1>1, <1>3
    <2>2. task' # task
      BY <2>1, IdleFacts
    <2>3. PICK t : Keep(Rpc, [Idle EXCEPT !.pc = "branch", !.op = "reconsider", !.attach = <<t>>])
      BY <1>3, <2>2 DEF ReconsiderBlock
    <2> DEFINE u == [Idle EXCEPT !.pc = "branch", !.op = "reconsider", !.attach = <<t>>]
    <2>4. u.op = "reconsider"
      BY DEF Idle
    <2> HIDE DEF u
    <2>5. task'[Rpc] = u
      BY <2>3, TaskFacts, ProcFacts DEF Keep, u
    <2> QED
      BY <2>4, <2>5
  <1>4. ASSUME NEW h, InvalidateHeaderChain(h) PROVE FALSE
    <2>1. rollbacks' = rollbacks + 1
      BY <1>4 DEF InvalidateHeaderChain
    <2> QED
      BY <1>0, <2>1
  <1>5. ASSUME commands' = commands, rollbacks' = rollbacks, task[Rpc].op = "invalidate",
               \A x \in Blocks : StruckAt(x, task[Rpc], tip) => StruckAt(x, task'[Rpc], tip')
        PROVE  \E x \in Blocks \ {Genesis} : Blamed(Bad \cup {x})' /\ StruckAt(x, task'[Rpc], tip')
    <2>1. PICK x \in Blocks \ {Genesis} : Blamed(Bad \cup {x}) /\ StruckAt(x, task[Rpc], tip)
      BY <1>0, <1>5 DEF Struck
    <2>2. Bad \subseteq Bad \cup {x}
      OBVIOUS
    <2>3. Blamed(Bad \cup {x})'
      BY <1>0, <1>5, <2>1, <2>2, BlamedNext
    <2> QED
      BY <1>5, <2>1, <2>3
  <1>6. CASE UNCHANGED vars
    <2>1. commands' = commands /\ rollbacks' = rollbacks /\ task' = task /\ tip' = tip
      BY <1>6 DEF vars, bounds
    <2> QED
      BY <1>5, <2>1
  <1>7. CASE (HandlerBegins \/ HandlerGoesOn) /\ commands' = commands /\ rollbacks' = rollbacks
    <2>1. task'[Rpc] = task[Rpc] /\ (tip' = tip \/ (Noted(Handler) /\ lock \in {None, Handler}))
      BY <1>7, HandlerStill
    <2>2. ASSUME Noted(Handler), lock \in {None, Handler} PROVE FALSE
      <3>1. lock # Rpc
        BY <2>2, ProcFacts
      <3>2. task[Rpc].pc = "reorg"
        BY <2>1, <3>1, Invalidating, ProcFacts
      <3> QED
        BY <1>0, <2>2, <3>2, ProcFacts DEF Noted, Overlap
    <2>3. tip' = tip
      BY <2>1, <2>2
    <2> QED
      BY <1>5, <1>7, <2>1, <2>3
  <1>8. CASE RpcGoesOn /\ commands' = commands /\ rollbacks' = rollbacks
    <2>1. task[Rpc].op = "invalidate"
      <3>1. CASE task[Rpc].op # "invalidate"
        <4>1. Genesis \in Blocks
          BY ChainAssumption
        <4> QED
          BY <1>8, <3>1, <4>1, StruckRpc
      <3> QED
        BY <3>1
    <2>2. \A x \in Blocks : StruckAt(x, task[Rpc], tip) => StruckAt(x, task'[Rpc], tip')
      BY <1>8, StruckRpc
    <2> QED
      BY <1>5, <1>8, <2>1, <2>2
  <1> QED
    BY <1>2, <1>3, <1>4, <1>6, <1>7, <1>8, Steps

LEMMA StruckAlways == Spec => []Struck
  <1>1. Init => Struck
    <2> SUFFICES ASSUME Init PROVE commands # 1
      BY DEF Struck
    <2> QED
      BY DEF Init
  <1> QED
    BY <1>1, TypedAlways, SafeAlways, LoneAlways, PeaceAlways, StruckNext, PTL DEF Spec

Alarms == {"assert", "panic"}
Sane == events \cap {"overlap", "unchecked"} = {} /\ (commands = 0 \/ commands + rollbacks = 1)

\* What a goroutine detaches first is the tip.
LEMMA DetachesTip ==
    ASSUME Typed, Safe, Lone, Struck, Sane, NEW p \in Procs, task[p].pc \in {"verify", "reorg"},
           task[p].detach # <<>>
    PROVE  blockOf(task[p].detach[1]) = blockOf(tip)
  <1> DEFINE t == task[p]
  <1>1. SafeTask(t, tip, events) /\ "overlap" \notin events
    BY DEF Safe, Sane
  <1>2. CASE t.op # "invalidate"
    BY <1>1, <1>2 DEF SafeTask, Falls
  <1>3. CASE t.op = "invalidate"
    <2>1. p = Rpc
      BY <1>3, Invalidating
    <2>2. commands \in Nat /\ rollbacks \in Nat
      BY DEF Typed, StateOK
    <2>3. commands # 0
      BY <1>3, <2>1, IdleFacts DEF Lone
    <2>4. commands = 1 /\ rollbacks = 0
      BY <2>2, <2>3 DEF Sane
    <2>5. PICK x \in Blocks : StruckAt(x, t, tip)
      BY <1>3, <2>1, <2>4 DEF Struck, Sane
    <2> QED
      BY <2>5 DEF StruckAt, Falls
  <1> QED
    BY <1>2, <1>3

LEMMA AlarmsVerify ==
    ASSUME Typed, Safe, Lone, Struck, Sane, NEW p \in Procs, verifyReorganizationValidity(p)
    PROVE  events' \cap Alarms \subseteq events
  <1> DEFINE t == task[p]
             notTip == t.detach # <<>> /\ blockOf(t.detach[1]) # blockOf(tip)
  <1>1. t.pc = "verify"
    BY DEF verifyReorganizationValidity, At
  <1>2. ~notTip
    BY <1>1, DetachesTip
  <1>3. ASSUME NEW r, Fail(p, r, {}) PROVE events' \cap Alarms \subseteq events
    BY <1>3 DEF Fail, Happens, Alarms
  <1>4. \/ \E r : Fail(p, r, {})
        \/ events' = events
    BY <1>2 DEF verifyReorganizationValidity
  <1> QED
    BY <1>3, <1>4

LEMMA AlarmsReorg ==
    ASSUME Typed, Safe, Lone, Struck, Sane, NEW p \in Procs, disconnectBlock(p) \/ connectBlock(p)
    PROVE  events' \cap Alarms \subseteq events
  <1> DEFINE t == task[p]
  <1>1. t.pc = "reorg"
    BY DEF disconnectBlock, connectBlock, At
  <1>2. ASSUME NEW r, Fail(p, r, {}) PROVE events' \cap Alarms \subseteq events
    BY <1>2 DEF Fail, Happens, Alarms
  <1>3. Overlaps(p) => events' \cap Alarms \subseteq events
    BY DEF Overlaps, Overlap, Happens, Alarms
  <1>4. CASE disconnectBlock(p)
    <2>1. blockOf(t.detach[1]) = blockOf(tip)
      BY <1>1, <1>4, DetachesTip DEF disconnectBlock
    <2>2. Fail(p, FALSE, {}) \/ Overlaps(p)
      BY <1>4, <2>1 DEF disconnectBlock
    <2> QED
      BY <1>2, <1>3, <2>2
  <1>5. CASE connectBlock(p)
    <2>1. t.detach = <<>> /\ t.attach # <<>>
      BY <1>5 DEF connectBlock
    <2>2. SafeTask(t, tip, events) /\ "overlap" \notin events
      BY DEF Safe, Sane
    <2>3. t.op # "invalidate"
      BY <2>1, <2>2 DEF SafeTask
    <2>4. PICK f \in Blocks : Falls(t.detach, blockOf(tip), f) /\ Rises(t.attach, f)
      BY <1>1, <2>2, <2>3 DEF SafeTask
    <2>5. Parent[blockOf(t.attach[1])] = blockOf(tip)
      BY <2>1, <2>4 DEF Falls, Rises
    <2>6. Overlaps(p)
      BY <1>5, <2>5 DEF connectBlock
    <2> QED
      BY <1>3, <2>6
  <1> QED
    BY <1>4, <1>5

\* The tip is not flagged once the block above it has been invalidated.
LEMMA AlarmsRehome ==
    ASSUME Typed, Safe, Lone, Struck, Sane, NEW p \in Procs, rehome(p)
    PROVE  events' \cap Alarms \subseteq events
  <1> DEFINE t == task[p]
             tips == {n \in InactiveTips \cup {tip} : ~Invalid(n)}
  <1>1. t.pc = "invalidate" /\ t.op = "invalidate"
    BY TaskFacts DEF rehome, At, Ctl
  <1>2. p = Rpc
    BY <1>1, Invalidating
  <1>3. commands = 1 /\ rollbacks = 0
    <2>1. commands \in Nat /\ rollbacks \in Nat
      BY DEF Typed, StateOK
    <2>2. commands # 0
      BY <1>1, <1>2, IdleFacts DEF Lone
    <2> QED
      BY <2>1, <2>2 DEF Sane
  <1>4. PICK x \in Blocks \ {Genesis} : Blamed(Bad \cup {x}) /\ StruckAt(x, t, tip)
    BY <1>1, <1>2, <1>3 DEF Struck, Sane
  <1>5. blockOf(tip) = Parent[x]
    BY <1>1, <1>4 DEF StruckAt, Falls
  <1>6. Line(blockOf(tip)) \cap (Bad \cup {x}) = {}
    BY <1>5, ParentFacts DEF Safe, Sane, Foul
  <1>7. tip \in tips
    BY <1>4, <1>6 DEF Blamed, Invalid
  <1>8. events' = events
    BY <1>7 DEF rehome
  <1> QED
    BY <1>8

LEMMA AlarmsReconsiderBlock ==
    ASSUME Typed, Bounded, Peace, Sane', NEW b \in Blocks, ReconsiderBlock(b)
    PROVE  events' \cap Alarms \subseteq events
  <1> DEFINE n == LookupNode(b)
             branches == {t \in InactiveTips \cup {tip} :
                        \/ t = n
                        \/ H(n) < H(t) /\ LET a == Ancestor(t, H(n)) IN
                              blockOf(a) = b /\ (a = n \/ Status(a) = <<n \in data, FALSE, FALSE, FALSE>>)}
  <1>0. commands \in Nat /\ rollbacks \in Nat
    BY DEF Typed, StateOK
  <1>1. commands' = commands + 1 /\ rollbacks' = rollbacks /\ Known(b)
    BY DEF ReconsiderBlock
  <1>2. Undisturbed
    BY <1>0, <1>1 DEF Sane, Undisturbed
  <1>3. OneNode /\ FirstNodes
    BY <1>2 DEF Peace, Sane, ReconsiderBlock, Happens
  <1>4. blockOf(n) = b
    BY DEF LookupNode, blockOf
  <1>5. PICK t \in InactiveTips \cup {tip} : t = n \/ (H(n) < H(t) /\ Ancestor(t, H(n)) = n)
    BY <1>1, <1>3, BranchFound
  <1>6. t \in branches
    BY <1>4, <1>5
  <1>7. branches # {}
    BY <1>6
  <1>8. events' = events
    BY <1>7 DEF ReconsiderBlock
  <1> QED
    BY <1>8

LEMMA AssertsNext ==
    Typed /\ Safe /\ Lone /\ Peace /\ Struck /\ Bounded /\ AssertionsHold /\ [Next]_vars => AssertionsHold'
  <1> SUFFICES ASSUME Typed, Safe, Lone, Peace, Struck, Bounded, AssertionsHold, [Next]_vars, Sane'
               PROVE  events' \cap Alarms = {}
    BY DEF AssertionsHold, Sane, Alarms
  <1>0. /\ commands \in Nat /\ rollbacks \in Nat /\ events \cap {"overlap", "unchecked"} = {}
        /\ commands' \in Nat /\ rollbacks' \in Nat
    BY EventsGrow, TypedNext DEF Typed, StateOK, Sane
  <1>1. /\ commands' = commands \/ commands' = commands + 1
        /\ rollbacks' = rollbacks \/ rollbacks' = rollbacks + 1
    <2>1. ASSUME NEW b \in Blocks, InvalidateBlock(b) \/ ReconsiderBlock(b)
          PROVE  commands' = commands + 1 /\ rollbacks' = rollbacks
      BY <2>1 DEF InvalidateBlock, ReconsiderBlock
    <2>2. ASSUME NEW h, InvalidateHeaderChain(h) PROVE commands' = commands /\ rollbacks' = rollbacks + 1
      BY <2>2 DEF InvalidateHeaderChain
    <2>3. ASSUME UNCHANGED vars PROVE commands' = commands /\ rollbacks' = rollbacks
      BY <2>3 DEF vars, bounds
    <2> QED
      BY <2>1, <2>2, <2>3, Steps
  <1>2. Sane
    <2>2. commands' = 0 \/ commands' + rollbacks' = 1
      BY DEF Sane
    <2>3. commands = 0 \/ commands + rollbacks = 1
      <3>1. \A c, r \in Nat : c + 1 # 0 /\ (c + 1 + r = 1 => c = 0) /\ (c + (r + 1) = 1 => c = 0)
                               /\ (c + 1 + (r + 1) # 1)
        OBVIOUS
      <3>2. CASE commands' = commands + 1
        BY <1>0, <1>1, <2>2, <3>1, <3>2
      <3>3. CASE commands' = commands
        BY <1>0, <1>1, <2>2, <3>1, <3>3
      <3> QED
        BY <1>1, <3>2, <3>3
    <2> QED
      BY <1>0, <2>3 DEF Sane
  <1>3. events \cap Alarms = {}
    BY <1>2 DEF AssertionsHold, Sane, Alarms
  <1>4. ASSUME NEW p, NEW r, Fail(p, r, {}) PROVE events' \cap Alarms \subseteq events
    BY <1>4 DEF Fail, Happens, Alarms
  <1>5. ASSUME NEW p, Overlaps(p) PROVE events' \cap Alarms \subseteq events
    BY <1>5 DEF Overlaps, Overlap, Happens, Alarms
  <1>6. ASSUME NEW b \in Blocks, ProcessOrphanBlock(b) PROVE events' \cap Alarms \subseteq events
    BY <1>6 DEF ProcessOrphanBlock, addOrphanBlock, Happens, Alarms
  <1>7. ASSUME NEW b \in Blocks, NEW flags \in Given,
               ProcessBlock(b, flags) \/ ProcessBlockHeader(b) \/ ResumeBlockConnect
        PROVE  events' \cap Alarms \subseteq events
    BY <1>7 DEF ProcessBlock, ProcessBlockHeader, ResumeBlockConnect, Happens, Alarms
  <1>8. ASSUME NEW b \in Blocks, InvalidateBlock(b) PROVE events' = events
    BY <1>8 DEF InvalidateBlock
  <1>9. ASSUME NEW h, InvalidateHeaderChain(h) PROVE events' = events
    BY <1>9 DEF InvalidateHeaderChain
  <1>10. ASSUME NEW p, maybeAcceptBlock(p) PROVE events' \cap Alarms \subseteq events
    BY <1>4, <1>10 DEF maybeAcceptBlock
  <1>11. ASSUME NEW p, connectBestChain(p) PROVE events' \cap Alarms \subseteq events
    <2>1. ASSUME NEW es, Happens(Overlap(p) \cup (IF es THEN {"unchecked"} ELSE {}))
          PROVE  events' \cap Alarms \subseteq events
      BY <2>1 DEF Overlap, Happens, Alarms
    <2> QED
      BY <1>4, <1>11, <2>1 DEF connectBestChain
  <1>12. ASSUME NEW p, \/ finishAccept(p) \/ processOrphans(p) \/ RemoveBlockData(p) \/ endReorganize(p)
                       \/ reconsiderBranch(p) \/ removeDisconnectedBlocks(p)
         PROVE  events' \cap Alarms \subseteq events
    BY <1>5, <1>12 DEF finishAccept, processOrphans, RemoveBlockData, endReorganize, reconsiderBranch,
                       removeDisconnectedBlocks
  <1>13. ASSUME UNCHANGED vars PROVE events' = events
    BY <1>13 DEF vars
  <1>14. ASSUME NEW p \in Procs, \/ verifyReorganizationValidity(p) \/ disconnectBlock(p) \/ connectBlock(p)
                                 \/ rehome(p)
         PROVE  events' \cap Alarms \subseteq events
    BY <1>2, <1>14, AlarmsVerify, AlarmsReorg, AlarmsRehome
  <1>15. ASSUME NEW b \in Blocks, ReconsiderBlock(b) PROVE events' \cap Alarms \subseteq events
    BY <1>15, AlarmsReconsiderBlock
  <1>16. events' \cap Alarms \subseteq events
    BY <1>6, <1>7, <1>8, <1>9, <1>10, <1>11, <1>12, <1>13, <1>14, <1>15, GivenFacts,
       ChainAssumption DEF Next
  <1> QED
    BY <1>3, <1>16

\* The assertions of verifyReorganizationValidity, disconnectBlock and connectBlock
\* hold and no command dereferences a nil tip, with rollbacks alone or one command.
THEOREM AssertionsAlways == Spec => []AssertionsHold
  <1>1. Init => AssertionsHold
    BY DEF Init, AssertionsHold
  <1> QED
    BY <1>1, AssertsNext, TypedAlways, SafeAlways, LoneAlways, PeaceAlways, StruckAlways, BoundedAlways, PTL DEF Spec
=============================================================================
