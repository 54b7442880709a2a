----------------------------- MODULE CliProofs -----------------------------
(***************************************************************************)
(* Machine-checked proofs about CliSession, for every tree, every naming   *)
(* of its nodes, every path and every pattern of failures: CliInv is       *)
(* inductive.                                                              *)
(***************************************************************************)
EXTENDS CliSession, SequenceTheorems, FiniteSetTheorems, TLAPS

-----------------------------------------------------------------------------
(* The tree.                                                               *)

\* Part of the assumption.
LEMMA RootIsNode == Root \in Node
  BY TreeAssumption

\* What holds of the root, and of a child when it holds of its parent, holds of
\* every node.
LEMMA TreeInduction ==
  ASSUME NEW S, Root \in S,
         \A p \in Node : p \in S => \A n \in Node : IsParent(p, n) => n \in S
  PROVE  \A n \in Node : n \in S
<1> DEFINE T == S \cap Node
<1>1. T \in SUBSET Node /\ Root \in T
  BY TreeAssumption
<1>2. ASSUME NEW p \in T
      PROVE  ToSet(Kids[p]) \subseteq T
  <2>1. Kids[p] \in Seq(Node)
    BY TreeAssumption
  <2>2. ToSet(Kids[p]) \subseteq Node
    BY <2>1 DEF ToSet
  <2>3. QED
    BY <2>2 DEF IsParent
<1>3. T = Node
  BY <1>1, <1>2, TreeAssumption
<1>4. QED
  BY <1>3

\* A listed node has the one parent, and is not the root.
LEMMA OneParent ==
  ASSUME NEW p \in Node, NEW n, IsParent(p, n)
  PROVE  n \in Node /\ n # Root /\ ParentOf(n) = p
<1>1. Kids[p] \in Seq(Node)
  BY TreeAssumption
<1>2. n \in Node /\ n # Root
  BY <1>1, TreeAssumption DEF IsParent, ToSet
<1>3. ASSUME NEW q \in Node, IsParent(q, n)
      PROVE  q = p
  <2>1. PICK j \in DOMAIN Kids[p] : Kids[p][j] = n
    BY DEF IsParent, ToSet
  <2>2. PICK k \in DOMAIN Kids[q] : Kids[q][k] = n
    BY <1>3 DEF IsParent, ToSet
  <2>3. QED
    BY <2>1, <2>2, TreeAssumption
<1>4. QED
  BY <1>2, <1>3 DEF ParentOf

\* Every node but the root has a parent.
LEMMA SomeParent ==
  ASSUME NEW n \in Node, n # Root
  PROVE  ParentOf(n) \in Node /\ IsParent(ParentOf(n), n)
<1> DEFINE S == {Root} \cup {m \in Node : \E p \in Node : IsParent(p, m)}
<1>1. \A m \in Node : m \in S
  BY TreeInduction
<1>2. QED
  BY <1>1 DEF ParentOf

-----------------------------------------------------------------------------
(* Lineage is defined.                                                     *)

\* s leads from the root down to n.
IsChain(s, n) ==
  /\ s \in Seq(Node)
  /\ n = IF s = << >> THEN Root ELSE s[Len(s)]
  /\ \A k \in 1 .. Len(s) : IsParent(IF k = 1 THEN Root ELSE s[k - 1], s[k])

\* A chain to a child is one to its parent and the child.
LEMMA ChainDown ==
  ASSUME NEW p \in Node, NEW n \in Node, IsParent(p, n), NEW s, IsChain(s, p)
  PROVE  IsChain(Append(s, n), n)
<1>1. s \in Seq(Node)
  BY DEF IsChain
<1>2. /\ Append(s, n) \in Seq(Node) /\ Len(Append(s, n)) = Len(s) + 1 /\ Append(s, n) # << >>
      /\ Append(s, n)[Len(s) + 1] = n /\ \A k \in 1 .. Len(s) : Append(s, n)[k] = s[k]
  BY <1>1
<1> DEFINE t == Append(s, n)
<1> HIDE DEF t
<1>3. /\ t \in Seq(Node) /\ Len(t) = Len(s) + 1 /\ t # << >> /\ Len(s) \in Nat
      /\ t[Len(s) + 1] = n /\ \A k \in 1 .. Len(s) : t[k] = s[k]
  BY <1>1, <1>2 DEF t
<1>4. p = IF s = << >> THEN Root ELSE s[Len(s)]
  BY DEF IsChain
<1>5. s = << >> <=> Len(s) = 0
  BY <1>1
<1>6. ASSUME NEW k \in 1 .. Len(t)
      PROVE  IsParent(IF k = 1 THEN Root ELSE t[k - 1], t[k])
  <2>1. CASE k = Len(s) + 1
    <3>1. t[k] = n
      BY <1>3, <2>1
    <3>2. (IF k = 1 THEN Root ELSE t[k - 1]) = p
      BY <1>3, <1>4, <1>5, <2>1
    <3>3. QED
      BY <3>1, <3>2
  <2>2. CASE k \in 1 .. Len(s)
    <3>1. t[k] = s[k] /\ (k # 1 => t[k - 1] = s[k - 1])
      BY <1>3, <2>2
    <3>2. IsParent(IF k = 1 THEN Root ELSE s[k - 1], s[k])
      BY <2>2 DEF IsChain
    <3>3. QED
      BY <3>1, <3>2
  <2>3. QED
    BY <2>1, <2>2, <1>3
<1>7. IsChain(t, n)
  BY <1>3, <1>6 DEF IsChain
<1>8. QED
  BY <1>7 DEF t

\* And the other way round.
LEMMA ChainUp ==
  ASSUME NEW n \in Node, n # Root, NEW t, IsChain(t, n)
  PROVE  \E s : IsChain(s, ParentOf(n)) /\ t = Append(s, n)
<1>1. t \in Seq(Node) /\ t # << >> /\ t[Len(t)] = n
  BY DEF IsChain
<1> DEFINE s == SubSeq(t, 1, Len(t) - 1)
<1>2. Len(t) \in Nat \ {0} /\ \A k \in 1 .. Len(t) : t[k] \in Node
  BY <1>1
<1>3. s \in Seq(Node) /\ Len(s) = Len(t) - 1
  <2>1. Len(t) - 1 \in Int /\ \A k \in 1 .. Len(t) - 1 : t[k] \in Node
    BY <1>2
  <2>2. s \in Seq(Node)
    BY <2>1, SubSeqProperties
  <2>3. Len(s) = IF 1 <= Len(t) - 1 THEN Len(t) - 1 - 1 + 1 ELSE 0
    BY <2>1, SubSeqProperties
  <2>4. PICK m \in Nat \ {0} : m = Len(t)
    BY <1>2
  <2>5. (IF 1 <= m - 1 THEN m - 1 - 1 + 1 ELSE 0) = m - 1
    BY <2>4
  <2>6. QED
    BY <2>2, <2>3, <2>4, <2>5
<1>4. \A k \in 1 .. Len(t) - 1 : s[k] = t[k]
  BY <1>2
<1> HIDE DEF s
<1>5. t = Append(s, n)
  <2>1. /\ Append(s, n) \in Seq(Node) /\ Len(Append(s, n)) = Len(t)
        /\ Append(s, n)[Len(s) + 1] = n /\ \A k \in 1 .. Len(s) : Append(s, n)[k] = s[k]
    BY <1>2, <1>3
  <2>2. \A k \in 1 .. Len(t) : t[k] = Append(s, n)[k]
    BY <1>1, <1>2, <1>3, <1>4, <2>1
  <2>3. QED
    BY <1>1, <2>1, <2>2, SeqEqual
<1> DEFINE p == IF s = << >> THEN Root ELSE s[Len(s)]
<1>6. IsParent(p, n) /\ p \in Node
  <2>1. IsParent(IF Len(t) = 1 THEN Root ELSE t[Len(t) - 1], t[Len(t)])
    <3>1. \A k \in 1 .. Len(t) : IsParent(IF k = 1 THEN Root ELSE t[k - 1], t[k])
      BY DEF IsChain
    <3>2. Len(t) \in 1 .. Len(t)
      BY <1>2
    <3>3. QED
      BY <3>1, <3>2
  <2>2. s = << >> <=> Len(t) = 1
    BY <1>2, <1>3
  <2>3. p = IF Len(t) = 1 THEN Root ELSE t[Len(t) - 1]
    BY <1>2, <1>3, <1>4, <2>2
  <2>4. p \in Node
    <3>1. CASE Len(t) = 1
      BY <2>3, <3>1, RootIsNode
    <3>2. CASE Len(t) # 1
      <4>0. PICK m \in Nat \ {0} : m = Len(t)
        BY <1>2
      <4>1. Len(t) - 1 \in 1 .. Len(t)
        BY <4>0, <3>2
      <4>2. QED
        BY <1>2, <2>3, <3>2, <4>1
    <3>3. QED
      BY <3>1, <3>2
  <2>5. QED
    BY <1>1, <2>1, <2>3, <2>4
<1>7. p = ParentOf(n)
  BY <1>6, OneParent
<1> HIDE DEF p
<1>8. \A k \in 1 .. Len(s) : IsParent(IF k = 1 THEN Root ELSE s[k - 1], s[k])
  <2>1. ASSUME NEW k \in 1 .. Len(s)
        PROVE  IsParent(IF k = 1 THEN Root ELSE s[k - 1], s[k])
    <3>1. k \in 1 .. Len(t) /\ s[k] = t[k] /\ (k # 1 => s[k - 1] = t[k - 1])
      BY <1>2, <1>3, <1>4
    <3>2. QED
      BY <3>1 DEF IsChain
  <2>2. QED
    BY <2>1
<1>9. IsChain(s, ParentOf(n))
  BY <1>3, <1>7, <1>8 DEF IsChain, p
<1>10. QED
  BY <1>5, <1>9

\* Each node has one chain.
LEMMA ChainExists ==
  ASSUME NEW n \in Node
  PROVE  \E s : IsChain(s, n)
<1> DEFINE S == {m \in Node : \E s : IsChain(s, m)}
<1>1. Root \in S
  <2>1. IsChain(<< >>, Root)
    BY DEF IsChain
  <2>2. QED
    BY <2>1, TreeAssumption
<1>2. ASSUME NEW p \in Node, p \in S, NEW m \in Node, IsParent(p, m)
      PROVE  m \in S
  BY <1>2, ChainDown
<1> HIDE DEF S
<1>3. \A m \in Node : m \in S
  BY <1>1, <1>2, TreeInduction
<1>4. QED
  BY <1>3 DEF S

\* And only one.
LEMMA ChainUnique ==
  ASSUME NEW n \in Node, NEW s, NEW t, IsChain(s, n), IsChain(t, n)
  PROVE  s = t
<1> DEFINE S == {m \in Node : \A u, v : IsChain(u, m) /\ IsChain(v, m) => u = v}
<1>1. Root \in S
  <2>1. ASSUME NEW u, IsChain(u, Root), u # << >>
        PROVE  FALSE
    <3>1. u \in Seq(Node) /\ Len(u) \in 1 .. Len(u) /\ u[Len(u)] = Root
      BY <2>1 DEF IsChain
    <3>2. PICK p : p = IF Len(u) = 1 THEN Root ELSE u[Len(u) - 1]
      OBVIOUS
    <3>3. IsParent(p, Root)
      BY <2>1, <3>1, <3>2 DEF IsChain
    <3>4. p \in Node
      <4>1. Len(u) \in Nat /\ \A k \in 1 .. Len(u) : u[k] \in Node
        BY <3>1
      <4>2. CASE Len(u) = 1
        BY <3>2, <4>2, RootIsNode
      <4>3. CASE Len(u) # 1
        <5>0. PICK m \in Nat : m = Len(u)
          BY <4>1
        <5>1. Len(u) - 1 \in 1 .. Len(u)
          BY <3>1, <5>0, <4>3
        <5>2. QED
          BY <3>2, <4>1, <4>3, <5>1
      <4>4. QED
        BY <4>2, <4>3
    <3>5. QED
      BY <3>3, <3>4, OneParent
  <2>2. QED
    BY <2>1, TreeAssumption
<1>2. ASSUME NEW p \in Node, p \in S, NEW m \in Node, IsParent(p, m)
      PROVE  m \in S
  <2>1. m # Root /\ ParentOf(m) = p
    BY <1>2, OneParent
  <2>2. ASSUME NEW u, NEW v, IsChain(u, m), IsChain(v, m)
        PROVE  u = v
    <3>1. PICK a : IsChain(a, p) /\ u = Append(a, m)
      BY <2>1, <2>2, ChainUp
    <3>2. PICK b : IsChain(b, p) /\ v = Append(b, m)
      BY <2>1, <2>2, ChainUp
    <3>3. a = b
      BY <1>2, <3>1, <3>2
    <3>4. QED
      BY <3>1, <3>2, <3>3
  <2>3. QED
    BY <2>2
<1> HIDE DEF S
<1>3. \A m \in Node : m \in S
  BY <1>1, <1>2, TreeInduction
<1>4. QED
  BY <1>3 DEF S

\* What Lineage is of a node, and that it is.
LEMMA LineageOf ==
  /\ Lineage[Root] = << >>
  /\ \A n \in Node : Lineage[n] \in Seq(Node)
  /\ \A p \in Node : \A n : IsParent(p, n) => Lineage[n] = Append(Lineage[p], n)
<1> DEFINE chain == [n \in Node |-> CHOOSE s : IsChain(s, n)]
<1>1. \A n \in Node : IsChain(chain[n], n)
  BY ChainExists
<1> HIDE DEF chain
<1>2. chain = [n \in Node |-> IF n = Root THEN << >> ELSE Append(chain[ParentOf(n)], n)]
  <2>1. chain[Root] = << >>
    <3>1. IsChain(<< >>, Root) /\ Root \in Node
      BY TreeAssumption DEF IsChain
    <3>2. QED
      BY <1>1, <3>1, ChainUnique
  <2>2. ASSUME NEW n \in Node, n # Root
        PROVE  chain[n] = Append(chain[ParentOf(n)], n)
    <3>1. ParentOf(n) \in Node /\ IsParent(ParentOf(n), n)
      BY <2>2, SomeParent
    <3>2. IsChain(Append(chain[ParentOf(n)], n), n)
      BY <1>1, <3>1, ChainDown
    <3>3. QED
      BY <1>1, <3>2, ChainUnique
  <2>3. chain = [n \in Node |-> chain[n]]
    BY DEF chain
  <2>4. QED
    BY <2>1, <2>2, <2>3
<1>3. Lineage = [n \in Node |-> IF n = Root THEN << >> ELSE Append(Lineage[ParentOf(n)], n)]
  BY <1>2 DEF Lineage
<1>4. Lineage[Root] = << >>
  BY <1>3, TreeAssumption
<1>5. ASSUME NEW p \in Node, NEW n, IsParent(p, n)
      PROVE  Lineage[n] = Append(Lineage[p], n)
  BY <1>3, <1>5, OneParent
<1>6. \A n \in Node : Lineage[n] \in Seq(Node)
  <2> DEFINE S == {n \in Node : Lineage[n] \in Seq(Node)}
  <2>1. Root \in S
    <3>1. Lineage[Root] \in Seq(Node)
      BY <1>4
    <3>2. QED
      BY <3>1, RootIsNode
  <2>2. ASSUME NEW p \in Node, p \in S, NEW n \in Node, IsParent(p, n)
        PROVE  n \in S
    BY <1>5, <2>2
  <2> HIDE DEF S
  <2>3. \A n \in Node : n \in S
    BY <2>1, <2>2, TreeInduction
  <2>4. QED
    BY <2>3 DEF S
<1>7. QED
  BY <1>4, <1>5, <1>6

-----------------------------------------------------------------------------
(* Lines of descent and subtrees.                                          *)

\* The nodes n is below, n and the root among them.
Line(n) == {Root, n} \cup ToSet(Lineage[n])

\* Appending adds the one element.
LEMMA OneMore ==
  ASSUME NEW S, NEW s \in Seq(S), NEW e \in S
  PROVE  ToSet(Append(s, e)) = ToSet(s) \cup {e}
<1>1. /\ DOMAIN Append(s, e) = DOMAIN s \cup {Len(s) + 1}
      /\ \A k \in DOMAIN s : Append(s, e)[k] = s[k]
      /\ Append(s, e)[Len(s) + 1] = e
  OBVIOUS
<1>2. QED
  BY <1>1 DEF ToSet

\* The lineage of a child has its parent's and the child.
LEMMA LineageGrows ==
  ASSUME NEW p \in Node, NEW n, IsParent(p, n)
  PROVE  ToSet(Lineage[n]) = ToSet(Lineage[p]) \cup {n}
<1>1. n \in Node /\ Lineage[p] \in Seq(Node) /\ Lineage[n] = Append(Lineage[p], n)
  BY LineageOf, OneParent
<1>2. ToSet(Append(Lineage[p], n)) = ToSet(Lineage[p]) \cup {n}
  BY <1>1, OneMore
<1>3. QED
  BY <1>1, <1>2

\* A subtree is what has its top in the line.
LEMMA BelowIsLine ==
  \A n, m : m \in Below(n) <=> m \in Node /\ n \in Line(m)
  BY DEF Below, Line

\* The line of a child is its parent's and the child.
LEMMA LineOf ==
  /\ Line(Root) = {Root}
  /\ \A n : n \in Line(n) /\ Root \in Line(n)
  /\ \A p \in Node : \A n : IsParent(p, n) => Line(n) = Line(p) \cup {n}
<1>1. Line(Root) = {Root}
  <2>1. ToSet(Lineage[Root]) = {}
    BY LineageOf DEF ToSet
  <2>2. QED
    BY <2>1 DEF Line
<1>2. ASSUME NEW p \in Node, NEW n, IsParent(p, n)
      PROVE  ToSet(Lineage[n]) = ToSet(Lineage[p]) \cup {n}
  BY <1>2, LineageGrows
<1>3. \A p \in Node : p # Root => p \in ToSet(Lineage[p])
  <2>1. ASSUME NEW p \in Node, p # Root
        PROVE  p \in ToSet(Lineage[p])
    BY <2>1, <1>2, SomeParent
  <2>2. QED
    BY <2>1
<1>4. ASSUME NEW p \in Node, NEW n, IsParent(p, n)
      PROVE  Line(n) = Line(p) \cup {n}
  BY <1>2, <1>3, <1>4 DEF Line
<1>5. \A n : n \in Line(n) /\ Root \in Line(n)
  BY DEF Line
<1>6. QED
  BY <1>1, <1>4, <1>5

\* A line is one of nodes.
LEMMA LineInNode == \A n \in Node : Line(n) \subseteq Node
<1> DEFINE S == {n \in Node : Line(n) \subseteq Node}
<1>1. Root \in S
  BY LineOf, RootIsNode
<1>2. ASSUME NEW p \in Node, p \in S, NEW n \in Node, IsParent(p, n)
      PROVE  n \in S
  BY <1>2, LineOf
<1> HIDE DEF S
<1>3. \A n \in Node : n \in S
  BY <1>1, <1>2, TreeInduction
<1>4. QED
  BY <1>3 DEF S

\* What is above something above n is above n.
LEMMA LineTransitive ==
  \A n \in Node : \A b \in Line(n) : Line(b) \subseteq Line(n)
<1> DEFINE S == {n \in Node : \A b \in Line(n) : Line(b) \subseteq Line(n)}
<1>1. Root \in S
  BY LineOf, RootIsNode
<1>2. ASSUME NEW p \in Node, p \in S, NEW n \in Node, IsParent(p, n)
      PROVE  n \in S
  BY <1>2, LineOf
<1> HIDE DEF S
<1>3. \A n \in Node : n \in S
  BY <1>1, <1>2, TreeInduction
<1>4. QED
  BY <1>3 DEF S

\* A line gets longer on the way down.
LEMMA LineDepth ==
  \A n \in Node : \A a \in Line(n) : a # n => Len(Lineage[a]) < Len(Lineage[n])
<1> DEFINE S == {n \in Node : \A a \in Line(n) : a # n => Len(Lineage[a]) < Len(Lineage[n])}
<1>1. Root \in S
  BY LineOf, RootIsNode
<1>2. ASSUME NEW p \in Node, p \in S, NEW n \in Node, IsParent(p, n)
      PROVE  n \in S
  <2>1. Line(n) = Line(p) \cup {n}
    BY <1>2, LineOf
  <2>2. Lineage[p] \in Seq(Node) /\ Lineage[n] = Append(Lineage[p], n)
    BY <1>2, LineageOf
  <2>3. Len(Lineage[p]) \in Nat /\ Len(Lineage[n]) = Len(Lineage[p]) + 1
    BY <2>2
  <2>4. ASSUME NEW a \in Line(p)
        PROVE  Len(Lineage[a]) < Len(Lineage[n])
    <3>1. CASE a = p
      BY <3>1, <2>3
    <3>2. CASE a # p
      <4>1. a \in Node
        BY LineInNode
      <4>2. Len(Lineage[a]) \in Nat
        BY <4>1, LineageOf
      <4>3. Len(Lineage[a]) < Len(Lineage[p])
        BY <1>2, <3>2
      <4>4. QED
        BY <2>3, <4>2, <4>3
    <3>3. QED
      BY <3>1, <3>2
  <2>5. QED
    BY <2>1, <2>4
<1> HIDE DEF S
<1>3. \A n \in Node : n \in S
  BY <1>1, <1>2, TreeInduction
<1>4. QED
  BY <1>3 DEF S

\* Two nodes are not below each other.
LEMMA LineAntisymmetric ==
  ASSUME NEW a \in Node, NEW b \in Node, a \in Line(b), b \in Line(a)
  PROVE  a = b
<1>1. Len(Lineage[a]) \in Nat /\ Len(Lineage[b]) \in Nat
  BY LineageOf
<1>2. a # b => Len(Lineage[a]) < Len(Lineage[b]) /\ Len(Lineage[b]) < Len(Lineage[a])
  BY LineDepth
<1>3. QED
  BY <1>1, <1>2

\* Of two nodes above a third, one is above the other.
LEMMA LineTotal ==
  \A n \in Node : \A a, b \in Line(n) : a \in Line(b) \/ b \in Line(a)
<1> DEFINE S == {n \in Node : \A a, b \in Line(n) : a \in Line(b) \/ b \in Line(a)}
<1>1. Root \in S
  BY LineOf, RootIsNode
<1>2. ASSUME NEW p \in Node, p \in S, NEW n \in Node, IsParent(p, n)
      PROVE  n \in S
  <2>1. Line(n) = Line(p) \cup {n}
    BY <1>2, LineOf
  <2>2. QED
    BY <1>2, <2>1
<1> HIDE DEF S
<1>3. \A n \in Node : n \in S
  BY <1>1, <1>2, TreeInduction
<1>4. QED
  BY <1>3 DEF S

\* A subtree is its top and the subtrees of the children.
LEMMA SubtreeOf ==
  ASSUME NEW h \in Node, NEW n \in Below(h), n # h
  PROVE  \E c \in ToSet(Kids[h]) : n \in Below(c)
<1> DEFINE S == {m \in Node : h \in Line(m) /\ m # h => \E c \in ToSet(Kids[h]) : c \in Line(m)}
<1>1. Root \in S
  BY LineOf, RootIsNode
<1>2. ASSUME NEW p \in Node, p \in S, NEW m \in Node, IsParent(p, m)
      PROVE  m \in S
  <2>1. Line(m) = Line(p) \cup {m} /\ m \in Line(m)
    BY <1>2, LineOf
  <2>2. CASE p = h
    <3>1. m \in ToSet(Kids[h])
      BY <1>2, <2>2 DEF IsParent
    <3>2. QED
      BY <2>1, <3>1
  <2>3. CASE p # h
    BY <1>2, <2>1, <2>3
  <2>4. QED
    BY <2>2, <2>3
<1> HIDE DEF S
<1>3. \A m \in Node : m \in S
  BY <1>1, <1>2, TreeInduction
<1>4. n \in Node /\ h \in Line(n)
  BY BelowIsLine
<1>5. PICK c \in ToSet(Kids[h]) : c \in Line(n)
  BY <1>3, <1>4 DEF S
<1>6. QED
  BY <1>4, <1>5, BelowIsLine

\* A child is below its parent, the parent not below it, and two children have
\* nothing in common.
LEMMA SubtreesApart ==
  ASSUME NEW h \in Node, NEW c \in ToSet(Kids[h])
  PROVE  /\ c \in Node /\ Below(c) \subseteq Below(h) /\ h \notin Below(c) /\ c \in Below(h)
         /\ \A d \in ToSet(Kids[h]) : d # c => Below(c) \cap Below(d) = {}
         /\ \A a \in Node : c \in Below(a) /\ a # c => h \in Below(a)
<1>1. IsParent(h, c) /\ c \in Node
  BY OneParent DEF IsParent
<1>2. Line(c) = Line(h) \cup {c} /\ h \in Line(h)
  BY <1>1, LineOf
<1>3. Len(Lineage[h]) < Len(Lineage[c]) /\ Len(Lineage[h]) \in Nat /\ Len(Lineage[c]) \in Nat
  <2>1. Lineage[h] \in Seq(Node) /\ Lineage[c] = Append(Lineage[h], c)
    BY <1>1, LineageOf
  <2>2. QED
    BY <2>1, <1>1
<1>4. c # h
  BY <1>3
<1>5. h \notin Below(c)
  BY <1>1, <1>2, <1>4, LineAntisymmetric, BelowIsLine
<1>6. Below(c) \subseteq Below(h)
  BY <1>1, <1>2, LineTransitive, BelowIsLine
<1>7. ASSUME NEW d \in ToSet(Kids[h]), d # c, NEW n \in Below(c), n \in Below(d)
      PROVE  FALSE
  <2>1. IsParent(h, d) /\ d \in Node
    BY OneParent DEF IsParent
  <2>2. Line(d) = Line(h) \cup {d}
    BY <2>1, LineOf
  <2>3. n \in Node /\ c \in Line(n) /\ d \in Line(n)
    BY <1>7, BelowIsLine
  <2>4. c \in Line(d) \/ d \in Line(c)
    BY <2>3, LineTotal
  <2>5. c \in Line(h) \/ d \in Line(h)
    BY <1>2, <1>7, <2>2, <2>4
  <2>6. c \notin Line(h)
    BY <1>1, <1>2, <1>4, LineAntisymmetric
  <2>7. d \notin Line(h)
    <3>1. Lineage[h] \in Seq(Node) /\ Lineage[d] = Append(Lineage[h], d)
      BY <2>1, LineageOf
    <3>2. d # h
      <4>1. Len(Lineage[d]) = Len(Lineage[h]) + 1 /\ Len(Lineage[h]) \in Nat
        BY <2>1, <3>1
      <4>2. QED
        BY <4>1
    <3>3. QED
      BY <1>2, <2>1, <2>2, <3>2, LineAntisymmetric
  <2>8. QED
    BY <2>5, <2>6, <2>7
<1>8. \A a \in Node : c \in Below(a) /\ a # c => h \in Below(a)
  BY <1>2, BelowIsLine
<1>9. c \in Below(h)
  BY <1>1, <1>2, BelowIsLine
<1>10. QED
  BY <1>1, <1>5, <1>6, <1>7, <1>8, <1>9

-----------------------------------------------------------------------------
(* Paths.                                                                  *)

\* The path of a child is its parent's and its name.
LEMMA PathDown ==
  ASSUME NEW p \in Node, NEW n, IsParent(p, n)
  PROVE  /\ Len(PathOf(p)) \in Nat /\ DOMAIN PathOf(p) = 1 .. Len(PathOf(p))
         /\ Len(PathOf(n)) = Len(PathOf(p)) + 1
         /\ DOMAIN PathOf(n) = 1 .. Len(PathOf(p)) + 1
         /\ \A k \in 1 .. Len(PathOf(p)) : PathOf(n)[k] = PathOf(p)[k]
         /\ PathOf(n)[Len(PathOf(p)) + 1] = NameOf[n]
<1>1. /\ Lineage[p] \in Seq(Node) /\ Lineage[n] = Append(Lineage[p], n) /\ n \in Node
      /\ Len(Lineage[p]) \in Nat
  BY LineageOf, OneParent
<1>2. /\ DOMAIN Lineage[p] = 1 .. Len(Lineage[p])
      /\ DOMAIN Lineage[n] = 1 .. Len(Lineage[p]) + 1
      /\ Lineage[n][Len(Lineage[p]) + 1] = n
      /\ \A k \in 1 .. Len(Lineage[p]) : Lineage[n][k] = Lineage[p][k]
  BY <1>1
<1>3. /\ DOMAIN PathOf(p) = 1 .. Len(Lineage[p]) /\ DOMAIN PathOf(n) = 1 .. Len(Lineage[p]) + 1
      /\ \A k \in 1 .. Len(Lineage[p]) : PathOf(n)[k] = PathOf(p)[k]
      /\ PathOf(n)[Len(Lineage[p]) + 1] = NameOf[n]
  BY <1>1, <1>2 DEF PathOf
<1>4. Len(PathOf(p)) = Len(Lineage[p]) /\ Len(PathOf(n)) = Len(Lineage[p]) + 1
  BY <1>1, <1>3
<1>5. QED
  BY <1>1, <1>3, <1>4

\* The root's path is empty, and every path is a sequence of names.
LEMMA PathIsSeq ==
  /\ PathOf(Root) = << >>
  /\ \A n \in Node : PathOf(n) \in Seq(Name)
<1>1. PathOf(Root) = << >>
  BY LineageOf DEF PathOf
<1>2. ASSUME NEW n \in Node
      PROVE  PathOf(n) \in Seq(Name)
  <2>1. Lineage[n] \in Seq(Node) /\ Len(Lineage[n]) \in Nat /\ DOMAIN Lineage[n] = 1 .. Len(Lineage[n])
    BY LineageOf
  <2>2. PathOf(n) \in [1 .. Len(Lineage[n]) -> Name]
    BY <2>1 DEF PathOf, Name
  <2>3. QED
    BY <2>1, <2>2
<1>3. QED
  BY <1>1, <1>2

\* A child is addressable when its parent is and no elder sibling has its name.
LEMMA AddressableDown ==
  ASSUME NEW p \in Node, NEW n, IsParent(p, n), NEW N
  PROVE  Addressable(n, N) <=> Addressable(p, N) /\ Eldest(n, N)
<1>1. ToSet(Lineage[n]) = ToSet(Lineage[p]) \cup {n}
  BY LineageGrows
<1>2. QED
  BY <1>1 DEF Addressable

\* Eldest siblings have different names.
LEMMA EldestNames ==
  ASSUME NEW p \in Node, NEW n, NEW m, IsParent(p, n), IsParent(p, m),
         NEW N, Eldest(n, N), Eldest(m, N), NameOf[n] = NameOf[m]
  PROVE  n = m
<1>1. PICK j \in DOMAIN Kids[p] : Kids[p][j] = n
  BY DEF IsParent, ToSet
<1>2. PICK k \in DOMAIN Kids[p] : Kids[p][k] = m
  BY DEF IsParent, ToSet
<1>3. k <= j /\ j <= k
  BY <1>1, <1>2 DEF Eldest
<1>4. DOMAIN Kids[p] \subseteq Nat
  BY TreeAssumption
<1>5. QED
  BY <1>1, <1>2, <1>3, <1>4

\* One path leads to one addressable node.
LEMMA PathsDiffer ==
  ASSUME NEW N
  PROVE  \A n \in Node : \A m \in Node :
           Addressable(n, N) /\ Addressable(m, N) /\ PathOf(n) = PathOf(m) => n = m
<1> DEFINE S == {n \in Node : \A m \in Node :
                   Addressable(n, N) /\ Addressable(m, N) /\ PathOf(n) = PathOf(m) => n = m}
<1>1. Root \in S
  <2>1. ASSUME NEW m \in Node, m # Root, PathOf(m) = << >>
        PROVE  FALSE
    <3>1. ParentOf(m) \in Node /\ IsParent(ParentOf(m), m)
      BY <2>1, SomeParent
    <3>2. Len(PathOf(ParentOf(m))) \in Nat /\ Len(PathOf(m)) = Len(PathOf(ParentOf(m))) + 1
      BY <3>1, PathDown
    <3>3. QED
      BY <2>1, <3>2
  <2>2. QED
    BY <2>1, PathIsSeq, RootIsNode
<1>2. ASSUME NEW p \in Node, p \in S, NEW n \in Node, IsParent(p, n)
      PROVE  n \in S
  <2>1. SUFFICES ASSUME NEW m \in Node, Addressable(n, N), Addressable(m, N),
                        PathOf(n) = PathOf(m)
                 PROVE  n = m
    OBVIOUS
  <2>2. /\ Len(PathOf(p)) \in Nat /\ Len(PathOf(n)) = Len(PathOf(p)) + 1
        /\ \A k \in 1 .. Len(PathOf(p)) : PathOf(n)[k] = PathOf(p)[k]
        /\ PathOf(n)[Len(PathOf(p)) + 1] = NameOf[n]
    BY <1>2, PathDown
  <2>3. m # Root
    BY <2>1, <2>2, PathIsSeq
  <2>4. PICK q \in Node : IsParent(q, m)
    BY <2>3, SomeParent
  <2>5. /\ Len(PathOf(q)) \in Nat /\ Len(PathOf(m)) = Len(PathOf(q)) + 1
        /\ \A k \in 1 .. Len(PathOf(q)) : PathOf(m)[k] = PathOf(q)[k]
        /\ PathOf(m)[Len(PathOf(q)) + 1] = NameOf[m]
    BY <2>4, PathDown
  <2>6. Len(PathOf(p)) = Len(PathOf(q)) /\ NameOf[n] = NameOf[m]
    BY <2>1, <2>2, <2>5
  <2>7. \A k \in 1 .. Len(PathOf(p)) : PathOf(p)[k] = PathOf(q)[k]
    BY <2>1, <2>2, <2>5, <2>6
  <2>8. PathOf(p) = PathOf(q)
    BY <2>6, <2>7, PathIsSeq, SeqEqual
  <2>9. Addressable(p, N) /\ Addressable(q, N) /\ Eldest(n, N) /\ Eldest(m, N)
    BY <1>2, <2>1, <2>4, AddressableDown
  <2>10. p = q
    BY <1>2, <2>8, <2>9
  <2>11. QED
    BY <1>2, <2>4, <2>6, <2>9, <2>10, EldestNames
<1> HIDE DEF S
<1>3. \A n \in Node : n \in S
  BY <1>1, <1>2, TreeInduction
<1>4. QED
  BY <1>3 DEF S

\* The path of an addressable node that begins with that of another goes on with
\* the name of an eldest one of its children.
LEMMA PathGoesOn ==
  ASSUME NEW N, NEW c \in Node, Addressable(c, N)
  PROVE  \A n \in Node :
           /\ Addressable(n, N) /\ Len(PathOf(c)) < Len(PathOf(n))
           /\ \A k \in 1 .. Len(PathOf(c)) : PathOf(n)[k] = PathOf(c)[k]
           => \E b \in ToSet(Kids[c]) : Eldest(b, N) /\ NameOf[b] = PathOf(n)[Len(PathOf(c)) + 1]
<1> DEFINE S == {n \in Node :
           /\ Addressable(n, N) /\ Len(PathOf(c)) < Len(PathOf(n))
           /\ \A k \in 1 .. Len(PathOf(c)) : PathOf(n)[k] = PathOf(c)[k]
           => \E b \in ToSet(Kids[c]) : Eldest(b, N) /\ NameOf[b] = PathOf(n)[Len(PathOf(c)) + 1]}
<1>0. PathOf(c) \in Seq(Name) /\ Len(PathOf(c)) \in Nat
  BY PathIsSeq
<1>1. Root \in S
  <2>1. Len(PathOf(Root)) = 0
    BY PathIsSeq
  <2>2. QED
    BY <1>0, <2>1, RootIsNode
<1>2. ASSUME NEW p \in Node, p \in S, NEW n \in Node, IsParent(p, n)
      PROVE  n \in S
  <2>1. SUFFICES ASSUME Addressable(n, N), Len(PathOf(c)) < Len(PathOf(n)),
                        \A k \in 1 .. Len(PathOf(c)) : PathOf(n)[k] = PathOf(c)[k]
                 PROVE  \E b \in ToSet(Kids[c]) :
                          Eldest(b, N) /\ NameOf[b] = PathOf(n)[Len(PathOf(c)) + 1]
    OBVIOUS
  <2>2. /\ Len(PathOf(p)) \in Nat /\ Len(PathOf(n)) = Len(PathOf(p)) + 1
        /\ \A k \in 1 .. Len(PathOf(p)) : PathOf(n)[k] = PathOf(p)[k]
        /\ PathOf(n)[Len(PathOf(p)) + 1] = NameOf[n]
    BY <1>2, PathDown
  <2>3. Addressable(p, N) /\ Eldest(n, N)
    BY <1>2, <2>1, AddressableDown
  <2>4. \A k \in 1 .. Len(PathOf(c)) : PathOf(p)[k] = PathOf(c)[k]
    BY <1>0, <2>1, <2>2
  <2>5. CASE Len(PathOf(c)) = Len(PathOf(p))
    <3>1. PathOf(p) = PathOf(c)
      BY <2>4, <2>5, PathIsSeq, SeqEqual
    <3>2. p = c
      BY <2>3, <3>1, PathsDiffer
    <3>3. n \in ToSet(Kids[c])
      BY <1>2, <3>2 DEF IsParent
    <3>4. QED
      BY <2>2, <2>3, <2>5, <3>3
  <2>6. CASE Len(PathOf(c)) < Len(PathOf(p))
    <3>1. \E b \in ToSet(Kids[c]) : Eldest(b, N) /\ NameOf[b] = PathOf(p)[Len(PathOf(c)) + 1]
      BY <1>2, <2>3, <2>4, <2>6
    <3>2. PathOf(p)[Len(PathOf(c)) + 1] = PathOf(n)[Len(PathOf(c)) + 1]
      BY <1>0, <2>2, <2>6
    <3>3. QED
      BY <3>1, <3>2
  <2>7. QED
    BY <1>0, <2>1, <2>2, <2>5, <2>6
<1> HIDE DEF S
<1>3. \A n \in Node : n \in S
  BY <1>1, <1>2, TreeInduction
<1>4. QED
  BY <1>3 DEF S

\* Hiding children of a node leaves it addressable.
LEMMA HidingChildren ==
  ASSUME NEW N, NEW c \in Node, NEW K \in SUBSET ToSet(Kids[c]), Addressable(c, N)
  PROVE  Addressable(c, N \cup K)
<1>1. ASSUME NEW m \in ToSet(Lineage[c])
      PROVE  Eldest(m, N \cup K)
  <2>1. Eldest(m, N)
    BY <1>1 DEF Addressable
  <2>2. m \notin K
    <3>1. SUFFICES ASSUME m \in ToSet(Kids[c]) PROVE FALSE
      OBVIOUS
    <3>2. c \notin Below(m)
      BY <3>1, SubtreesApart
    <3>3. m \in Line(c)
      BY <1>1 DEF Line
    <3>4. QED
      BY <3>2, <3>3, BelowIsLine
  <2>3. QED
    BY <2>1, <2>2 DEF Eldest
<1>2. QED
  BY <1>1 DEF Addressable

-----------------------------------------------------------------------------
(* Sequences.                                                              *)

\* What a concatenation holds, and where.
LEMMA Joined ==
  ASSUME NEW S, NEW s \in Seq(S), NEW t \in Seq(S)
  PROVE  /\ s \o t \in Seq(S) /\ Len(s \o t) = Len(s) + Len(t)
         /\ Len(s) \in Nat /\ Len(t) \in Nat
         /\ \A k \in 1 .. Len(s) : (s \o t)[k] = s[k]
         /\ \A k \in Len(s) + 1 .. Len(s) + Len(t) : (s \o t)[k] = t[k - Len(s)]
         /\ ToSet(s \o t) = ToSet(s) \cup ToSet(t)
<1>1. Len(s) \in Nat /\ Len(t) \in Nat /\ DOMAIN s = 1 .. Len(s) /\ DOMAIN t = 1 .. Len(t)
  OBVIOUS
<1>2. s \o t \in Seq(S) /\ Len(s \o t) = Len(s) + Len(t)
  BY ConcatProperties
<1>3. /\ \A k \in 1 .. Len(s) : (s \o t)[k] = s[k]
      /\ \A k \in Len(s) + 1 .. Len(s) + Len(t) : (s \o t)[k] = t[k - Len(s)]
  BY <1>1, ConcatProperties
<1> DEFINE u == s \o t
<1> HIDE DEF u
<1>4. /\ DOMAIN u = 1 .. Len(s) + Len(t)
      /\ \A k \in 1 .. Len(s) : u[k] = s[k]
      /\ \A k \in Len(s) + 1 .. Len(s) + Len(t) : u[k] = t[k - Len(s)]
  BY <1>2, <1>3 DEF u
<1>5. ToSet(u) \subseteq ToSet(s) \cup ToSet(t)
  <2>1. ASSUME NEW k \in DOMAIN u
        PROVE  u[k] \in ToSet(s) \cup ToSet(t)
    <3>1. CASE k \in 1 .. Len(s)
      BY <1>1, <1>4, <3>1 DEF ToSet
    <3>2. CASE k \in Len(s) + 1 .. Len(s) + Len(t)
      <4>1. k - Len(s) \in DOMAIN t
        BY <1>1, <3>2
      <4>2. QED
        BY <1>4, <3>2, <4>1 DEF ToSet
    <3>3. QED
      BY <1>1, <1>4, <2>1, <3>1, <3>2
  <2>2. QED
    BY <2>1 DEF ToSet
<1>6. ASSUME NEW k \in DOMAIN s
      PROVE  s[k] \in ToSet(u)
  BY <1>1, <1>4, <1>6 DEF ToSet
<1>7. ASSUME NEW k \in DOMAIN t
      PROVE  t[k] \in ToSet(u)
  <2>1. Len(s) + k \in Len(s) + 1 .. Len(s) + Len(t) /\ (Len(s) + k) - Len(s) = k
    BY <1>1
  <2>2. u[Len(s) + k] = t[k] /\ Len(s) + k \in DOMAIN u
    BY <1>1, <1>4, <2>1
  <2>3. QED
    BY <2>2 DEF ToSet
<1>8. ToSet(u) = ToSet(s) \cup ToSet(t)
  BY <1>5, <1>6, <1>7 DEF ToSet
<1>9. QED
  BY <1>1, <1>2, <1>3, <1>8 DEF u

\* A beginning holds no more than the whole.
LEMMA BeginningOf ==
  ASSUME NEW S, NEW s \in Seq(S), NEW k \in 0 .. Len(s)
  PROVE  SubSeq(s, 1, k) \in Seq(S) /\ ToSet(SubSeq(s, 1, k)) \subseteq ToSet(s)
<1>1. Len(s) \in Nat /\ DOMAIN s = 1 .. Len(s) /\ \A j \in 1 .. k : s[j] \in S
  OBVIOUS
<1>2. SubSeq(s, 1, k) \in Seq(S)
  BY <1>1, SubSeqProperties
<1>3. /\ DOMAIN SubSeq(s, 1, k) = 1 .. k
      /\ \A j \in 1 .. k : SubSeq(s, 1, k)[j] = s[j]
  BY <1>1
<1>4. QED
  BY <1>1, <1>2, <1>3 DEF ToSet

\* The members of a sequence are finitely many.
LEMMA FinitelyMany ==
  ASSUME NEW S, NEW s \in Seq(S)
  PROVE  IsFiniteSet(ToSet(s))
<1>1. Len(s) \in Nat /\ DOMAIN s = 1 .. Len(s)
  OBVIOUS
<1>2. s \in Surjection(1 .. Len(s), ToSet(s))
  BY <1>1 DEF Surjection, ToSet
<1>3. IsFiniteSet(1 .. Len(s))
  BY <1>1, FS_Interval
<1>4. QED
  BY <1>2, <1>3, FS_Surjection

\* Moving the head of a rest to the end of what comes before changes nothing.
LEMMA MoveHead ==
  ASSUME NEW S, NEW s \in Seq(S), NEW T, NEW r \in Seq(T), r # << >>, NEW t \in Seq(S),
         Len(t) = Len(s) + 1, \A k \in 1 .. Len(s) : t[k] = s[k], t[Len(s) + 1] = Head(r)
  PROVE  t \o Tail(r) = s \o r
<1> DEFINE U == S \cup T
<1>1. s \in Seq(U) /\ t \in Seq(U) /\ r \in Seq(U)
  BY SeqMonotonic
<1>2. Head(r) \in U /\ Tail(r) \in Seq(U) /\ Len(Tail(r)) = Len(r) - 1 /\ Head(r) = r[1]
      /\ Len(r) \in Nat \ {0} /\ Len(s) \in Nat
  BY <1>1
<1> HIDE DEF U
<1>3. t = s \o <<r[1]>>
  <2>1. <<r[1]>> \in Seq(U)
    BY <1>2
  <2>2. s \o <<r[1]>> = Append(s, r[1])
    BY <1>1, <1>2, AppendIsConcat
  <2>3. /\ Append(s, r[1]) \in Seq(U) /\ Len(Append(s, r[1])) = Len(s) + 1
        /\ \A k \in 1 .. Len(s) : Append(s, r[1])[k] = s[k]
        /\ Append(s, r[1])[Len(s) + 1] = r[1]
    BY <1>1, <1>2
  <2>4. \A k \in 1 .. Len(s) + 1 : t[k] = Append(s, r[1])[k]
    BY <1>2, <2>3
  <2>5. QED
    BY <1>1, <2>2, <2>3, <2>4, SeqEqual
<1>4. r = <<r[1]>> \o Tail(r)
  BY <1>1, <1>2, HeadTailProperties
<1>5. QED
  <2>1. <<r[1]>> \in Seq(U)
    BY <1>2
  <2>2. (s \o <<r[1]>>) \o Tail(r) = s \o (<<r[1]>> \o Tail(r))
    BY <1>1, <1>2, <2>1, ConcatAssociative
  <2>3. QED
    BY <1>3, <1>4, <2>2

-----------------------------------------------------------------------------
(* get_children.                                                           *)

\* What the object has listed, as long as no populate of it failed, is its
\* listing.
LEMMA ChildrenOf ==
  ASSUME TypeOK, ListsOK, NEW o \in Node
  PROVE  /\ Kids[o] \in Seq(Node) /\ Owes(o) \in Seq(Node) /\ kids[o] \in Seq(Node)
         /\ ToSet(Owes(o)) \subseteq ToSet(Kids[o])
         /\ Children(o) \in Seq(Node) /\ ToSet(Children(o)) \subseteq ToSet(Kids[o])
         /\ failures[o] = 0 => Children(o) = Kids[o]
<1>1. Kids[o] \in Seq(Node) /\ kids[o] \in Seq(Node) /\ ToSet(kids[o]) \subseteq ToSet(Kids[o])
  BY TreeAssumption DEF TypeOK, ListsOK
<1>2. Owes(o) \in Seq(Node) /\ ToSet(Owes(o)) \subseteq ToSet(Kids[o])
  BY <1>1 DEF Owes, ToSet
<1>3. Children(o) \in Seq(Node) /\ ToSet(Children(o)) \subseteq ToSet(Kids[o])
  <2>1. kids[o] \o Owes(o) \in Seq(Node) /\ ToSet(kids[o] \o Owes(o)) = ToSet(kids[o]) \cup ToSet(Owes(o))
    BY <1>1, <1>2, Joined
  <2>2. QED
    BY <1>1, <1>2, <2>1 DEF Children
<1>4. ASSUME failures[o] = 0
      PROVE  Children(o) = Kids[o]
  <2>1. kids[o] = IF o \in done THEN Kids[o] ELSE << >>
    BY <1>4 DEF ListsOK
  <2>2. Owes(o) = Kids[o]
    BY <1>4 DEF Owes
  <2>3. << >> \o Kids[o] = Kids[o]
    BY <1>1, ConcatEmptySeq
  <2>4. QED
    BY <2>1, <2>2, <2>3 DEF Children
<1>5. QED
  BY <1>1, <1>2, <1>3, <1>4

\* A call of get_children keeps the lists; only its object becomes listed, or
\* counts one more failure.
LEMMA ListingStep ==
  ASSUME TypeOK, ListsOK, NEW o \in Node, Listed(o) \/ ListFails(o)
  PROVE  /\ kids' \in [Node -> Seq(Node)] /\ done' \subseteq Node
         /\ failures' \in [Node -> Nat] /\ alive' \subseteq alive
         /\ ListsOK'
         /\ done' \subseteq done \cup {o}
         /\ \A n \in Node : n # o => failures'[n] = failures[n]
         /\ Listed(o) => failures' = failures
         /\ ListFails(o) => failures'[o] > 0
<1>1. CASE Listed(o)
  <2>1. kids' = [kids EXCEPT ![o] = Children(o)] /\ done' = done \cup {o}
        /\ UNCHANGED <<alive, failures>>
    BY <1>1 DEF Listed
  <2>2. kids' \in [Node -> Seq(Node)] /\ done' \subseteq Node
    BY <2>1, ChildrenOf DEF TypeOK
  <2>3. kids'[o] = Children(o) /\ \A n \in Node : n # o => kids'[n] = kids[n]
    BY <2>1 DEF TypeOK
  <2>4. \A n \in Node : ToSet(kids'[n]) \subseteq ToSet(Kids[n])
    BY <2>3, ChildrenOf DEF ListsOK
  <2>5. \A n \in Node : failures[n] = 0 => kids'[n] = IF n \in done' THEN Kids[n] ELSE << >>
    BY <2>1, <2>3, ChildrenOf DEF ListsOK
  <2>6. ListsOK'
    BY <2>1, <2>4, <2>5 DEF ListsOK
  <2>7. ~ListFails(o)
    BY <2>1 DEF ListFails, TypeOK
  <2>8. QED
    BY <2>1, <2>2, <2>6, <2>7 DEF TypeOK
<1>2. CASE ListFails(o)
  <2>1. PICK k \in 0 .. (IF o = Root THEN Len(Owes(o)) - 1 ELSE Len(Owes(o))) :
          /\ kids' = [kids EXCEPT ![o] = @ \o SubSeq(Owes(o), 1, k)]
          /\ alive' = IF o = Root THEN alive \ ToSet(SubSeq(Owes(o), k + 1, Len(Owes(o)))) ELSE alive
    BY <1>2 DEF ListFails
  <2>2. failures' = [failures EXCEPT ![o] = @ + 1] /\ done' = done
    BY <1>2 DEF ListFails
  <2>3. Kids[o] \in Seq(Node) /\ Owes(o) \in Seq(Node) /\ kids[o] \in Seq(Node)
        /\ ToSet(Owes(o)) \subseteq ToSet(Kids[o])
    BY ChildrenOf
  <2>4. k \in 0 .. Len(Owes(o))
    BY <2>1, <2>3
  <2>5. SubSeq(Owes(o), 1, k) \in Seq(Node) /\ ToSet(SubSeq(Owes(o), 1, k)) \subseteq ToSet(Kids[o])
    BY <2>3, <2>4, BeginningOf
  <2>6. /\ kids[o] \o SubSeq(Owes(o), 1, k) \in Seq(Node)
        /\ ToSet(kids[o] \o SubSeq(Owes(o), 1, k)) \subseteq ToSet(Kids[o])
    <3>1. PICK b \in Seq(Node) : b = SubSeq(Owes(o), 1, k) /\ ToSet(b) \subseteq ToSet(Kids[o])
      BY <2>5
    <3>2. PICK a \in Seq(Node) : a = kids[o] /\ ToSet(a) \subseteq ToSet(Kids[o])
      BY <2>3 DEF ListsOK
    <3>3. a \o b \in Seq(Node) /\ ToSet(a \o b) = ToSet(a) \cup ToSet(b)
      BY Joined
    <3>4. QED
      BY <3>1, <3>2, <3>3
  <2>7. kids' \in [Node -> Seq(Node)]
    BY <2>1, <2>6 DEF TypeOK
  <2>8. kids'[o] = kids[o] \o SubSeq(Owes(o), 1, k) /\ \A n \in Node : n # o => kids'[n] = kids[n]
    BY <2>1 DEF TypeOK
  <2>9. failures' \in [Node -> Nat] /\ failures'[o] > 0
        /\ \A n \in Node : n # o => failures'[n] = failures[n]
    BY <2>2 DEF TypeOK
  <2>10. ListsOK'
    <3>1. ASSUME NEW n \in Node
          PROVE  ToSet(kids'[n]) \subseteq ToSet(Kids[n])
      <4>1. CASE n = o
        <5>1. kids'[n] = kids[o] \o SubSeq(Owes(o), 1, k)
          BY <2>8, <4>1
        <5>2. QED
          BY <2>6, <4>1, <5>1
      <4>2. CASE n # o
        BY <2>8, <4>2 DEF ListsOK
      <4>3. QED
        BY <4>1, <4>2
    <3>2. ASSUME NEW n \in Node, failures'[n] = 0
          PROVE  kids'[n] = IF n \in done' THEN Kids[n] ELSE << >>
      <4>1. n # o
        BY <2>9, <3>2
      <4>2. kids'[n] = kids[n] /\ failures[n] = 0
        BY <2>8, <2>9, <3>2, <4>1
      <4>3. QED
        BY <2>2, <4>2 DEF ListsOK
    <3>3. QED
      BY <3>1, <3>2 DEF ListsOK
  <2>11. ~Listed(o)
    BY <2>2, <2>9 DEF Listed, TypeOK
  <2>12. QED
    BY <2>1, <2>2, <2>7, <2>9, <2>10, <2>11 DEF TypeOK
<1>3. QED
  BY <1>1, <1>2

-----------------------------------------------------------------------------
(* What every step does.                                                   *)

\* The steps that create the transports and the root.
Creating == CreateTransport \/ CreateFails \/ RootCreate \/ RootFails

\* What resolve_path can say.
Walking == Descend \/ NoMatch \/ NoListing \/ NoCopy \/ Resolved

\* What main does with the object.
Using == Report \/ Invoke \/ InvokeFails \/ Show \/ List \/ Visit \/ Visited

\* The next segment is one of the path.
LEMMA NextSegment ==
  ASSUME TypeOK, RoundTrip, rest # << >>
  PROVE  /\ Head(rest) \in ToSet(path) /\ rest \in Seq(ToSet(path)) /\ path \in Seq(ToSet(path))
         /\ PathOf(cur) \in Seq(Name) /\ Len(rest) \in Nat \ {0} /\ Len(PathOf(cur)) \in Nat
         /\ Len(path) = Len(PathOf(cur)) + Len(rest)
         /\ \A k \in 1 .. Len(PathOf(cur)) : path[k] = PathOf(cur)[k]
         /\ path[Len(PathOf(cur)) + 1] = Head(rest)
<1> DEFINE T == UNION {ToSet(p) : p \in Paths}
           S == Name \cup T
<1>1. rest \in Seq(T) /\ path \in Paths /\ cur \in Node
  BY DEF TypeOK
<1>2. PathOf(cur) \in Seq(Name) /\ path \in Seq(ToSet(path))
  BY <1>1, PathIsSeq, ArgumentAssumption
<1> HIDE DEF T
<1>3. PathOf(cur) \in Seq(S) /\ rest \in Seq(S)
  BY <1>1, <1>2, SeqMonotonic
<1> HIDE DEF S
<1>4. PICK a \in Seq(S) : a = PathOf(cur)
  BY <1>3
<1>5. path = a \o rest
  BY <1>4 DEF RoundTrip
<1>6. /\ Len(a \o rest) = Len(a) + Len(rest) /\ Len(a) \in Nat /\ Len(rest) \in Nat
      /\ \A k \in 1 .. Len(a) : (a \o rest)[k] = a[k]
      /\ \A k \in Len(a) + 1 .. Len(a) + Len(rest) : (a \o rest)[k] = rest[k - Len(a)]
      /\ ToSet(a \o rest) = ToSet(a) \cup ToSet(rest)
  BY <1>3, Joined
<1>7. Len(rest) # 0 /\ Head(rest) = rest[1] /\ DOMAIN rest = 1 .. Len(rest)
  BY <1>3
<1>8. path[Len(a) + 1] = rest[1]
  <2>1. PICK n \in Nat : n = Len(a)
    BY <1>6
  <2>2. n + 1 \in n + 1 .. n + Len(rest) /\ (n + 1) - n = 1
    BY <1>6, <1>7, <2>1
  <2>3. (a \o rest)[n + 1] = rest[1]
    BY <1>6, <2>1, <2>2
  <2>4. QED
    BY <1>5, <2>1, <2>3
<1>9. ToSet(rest) \subseteq ToSet(path)
  BY <1>5, <1>6
<1>10. rest[1] \in ToSet(rest)
  BY <1>6, <1>7 DEF ToSet
<1>11. rest \in Seq(ToSet(path))
  <2>1. \A k \in 1 .. Len(rest) : rest[k] \in ToSet(path)
    BY <1>7, <1>9 DEF ToSet
  <2>2. rest \in [1 .. Len(rest) -> ToSet(path)]
    BY <1>3, <1>7, <2>1
  <2>3. QED
    BY <1>6, <2>2
<1>12. QED
  BY <1>2, <1>4, <1>5, <1>6, <1>7, <1>8, <1>9, <1>10, <1>11

\* A step of resolve_path that lists.
LEMMA WalkLists ==
  ASSUME TypeOK, ListsOK, Walking
  PROVE  /\ kids' \in [Node -> Seq(Node)] /\ done' \subseteq Node
         /\ failures' \in [Node -> Nat] /\ alive' \subseteq alive
         /\ ListsOK' /\ UNCHANGED <<mode, path, printed, code>>
         /\ done' \subseteq done \cup {cur}
         /\ \A n \in Node : n # cur => failures'[n] = failures[n]
         /\ pc = "resolve" /\ pc' \in Mode \cup {"resolve", "report"}
<1>1. cur \in Node
  BY DEF TypeOK
<1>2. Listed(cur) \/ ListFails(cur) \/ UNCHANGED tree
  BY DEF Walking, Descend, NoMatch, NoListing, NoCopy, Resolved
<1>3. UNCHANGED <<mode, path, printed, code>> /\ pc = "resolve"
      /\ pc' \in Mode \cup {"resolve", "report"}
  BY DEF Walking, Descend, NoMatch, NoListing, NoCopy, Resolved, NotFound, arguments, TypeOK
<1>4. CASE UNCHANGED tree
  BY <1>3, <1>4 DEF tree, TypeOK, ListsOK
<1>5. CASE Listed(cur) \/ ListFails(cur)
  BY <1>1, <1>3, <1>5, ListingStep
<1>6. QED
  BY <1>2, <1>4, <1>5

\* The object a step of main lists.
Subject == IF pc = "recurse" THEN Head(agenda) ELSE cur

\* A step of main that lists.
LEMMA UseLists ==
  ASSUME TypeOK, ListsOK, Using
  PROVE  /\ kids' \in [Node -> Seq(Node)] /\ done' \subseteq Node
         /\ failures' \in [Node -> Nat] /\ alive' \subseteq alive
         /\ ListsOK' /\ UNCHANGED <<mode, path, cur, rest, missing, found, nameless>>
         /\ done' \subseteq done \cup (IF pc = "recurse" /\ agenda = << >> THEN {} ELSE {Subject})
         /\ \A n \in Node : (n = Subject /\ ~(pc = "recurse" /\ agenda = << >>))
                            \/ failures'[n] = failures[n]
         /\ pc \in Mode \cup {"report"} /\ pc' \in {"list", "recurse", "teardown"}
         /\ code' \in 0 .. 2
<1>1. UNCHANGED <<mode, path, cur, rest, missing, found, nameless>> /\ pc \in Mode \cup {"report"}
      /\ pc' \in {"list", "recurse", "teardown"} /\ code' \in 0 .. 2
  <2>1. UNCHANGED arguments /\ UNCHANGED walk
    BY DEF Using, Report, Invoke, InvokeFails, Show, List, Visit, Visited
  <2>2. pc \in Mode \cup {"report"}
    BY DEF Using, Report, Invoke, InvokeFails, Show, List, Visit, Visited, Mode
  <2>3. CASE Report \/ Invoke \/ InvokeFails \/ List \/ Visited
    BY <2>1, <2>2, <2>3
       DEF Report, Invoke, InvokeFails, List, Visited, Finish, arguments, walk
  <2>4. CASE Show \/ Visit
    BY <2>1, <2>2, <2>4 DEF Show, Visit, arguments, walk, TypeOK
  <2>5. QED
    BY <2>3, <2>4 DEF Using
<1>2. CASE UNCHANGED tree
  BY <1>1, <1>2 DEF tree, TypeOK, ListsOK
<1>3. CASE ~UNCHANGED tree
  <2>1. /\ Listed(Subject) \/ ListFails(Subject)
        /\ ~(pc = "recurse" /\ agenda = << >>)
        /\ Subject \in Node
    <3>1. CASE Visit
      <4>1. pc = "recurse" /\ agenda # << >> /\ (Listed(Head(agenda)) \/ ListFails(Head(agenda)))
        BY <3>1 DEF Visit
      <4>2. Head(agenda) \in Node
        BY <4>1 DEF TypeOK
      <4>3. QED
        BY <4>1, <4>2 DEF Subject
    <3>2. CASE ~Visit
      <4>1. pc # "recurse" /\ (Listed(cur) \/ ListFails(cur))
        BY <1>3, <3>2 DEF Using, Report, Invoke, InvokeFails, Show, List, Visited, PrintChildren
      <4>2. QED
        BY <4>1 DEF Subject, TypeOK
    <3>3. QED
      BY <3>1, <3>2
  <2>2. PICK o \in Node : o = Subject
    BY <2>1
  <2>3. /\ kids' \in [Node -> Seq(Node)] /\ done' \subseteq Node
        /\ failures' \in [Node -> Nat] /\ alive' \subseteq alive /\ ListsOK'
        /\ done' \subseteq done \cup {o}
        /\ \A n \in Node : n # o => failures'[n] = failures[n]
    BY <2>1, <2>2, ListingStep
  <2>4. QED
    BY <1>1, <2>1, <2>2, <2>3
<1>4. QED
  BY <1>2, <1>3

-----------------------------------------------------------------------------
(* Types, what is alive, and where the walk is.                            *)

\* A transport that is created is the next one.
LEMMA NextTransport ==
  ASSUME TypeOK, AliveOK, CreateTransport
  PROVE  /\ IsFiniteSet(alive') /\ Cardinality(alive') <= Len(Transports)
         /\ alive' = {Transports[k] : k \in 1 .. Cardinality(alive')}
         /\ alive' \subseteq ToSet(Transports)
<1>1. /\ pc = "create" /\ IsFiniteSet(alive) /\ Cardinality(alive) < Len(Transports)
      /\ alive = {Transports[k] : k \in 1 .. Cardinality(alive)}
      /\ alive' = alive \cup {Transports[Cardinality(alive) + 1]}
      /\ Cardinality(alive) \in Nat /\ Len(Transports) \in Nat
  <2>1. pc = "create" /\ Cardinality(alive) # Len(Transports)
        /\ alive' = alive \cup {Transports[Cardinality(alive) + 1]}
    BY DEF CreateTransport, AllCreated
  <2>2. IsFiniteSet(alive) /\ Cardinality(alive) <= Len(Transports)
        /\ alive = {Transports[k] : k \in 1 .. Cardinality(alive)}
    BY <2>1 DEF AliveOK
  <2>3. Cardinality(alive) \in Nat
    BY <2>2, FS_CardinalityType
  <2>4. Transports \in Seq(Node)
    BY TreeAssumption, RootIsNode DEF Transports
  <2>5. Len(Transports) \in Nat
    BY <2>4
  <2>6. QED
    BY <2>1, <2>2, <2>3, <2>5
<1>2. PICK n \in Nat : n = Cardinality(alive)
  BY <1>1
<1>3. DOMAIN Transports = 1 .. Len(Transports) /\ n + 1 \in DOMAIN Transports
  <2>1. Transports \in Seq(Node)
    BY TreeAssumption, RootIsNode DEF Transports
  <2>2. DOMAIN Transports = 1 .. Len(Transports)
    BY <2>1
  <2>3. QED
    BY <1>1, <1>2, <2>2
<1>4. Transports[n + 1] \notin alive
  <2>1. ASSUME NEW k \in 1 .. n, Transports[k] = Transports[n + 1]
        PROVE  FALSE
    <3>1. k \in DOMAIN Transports /\ k # n + 1
      BY <1>1, <1>2, <1>3
    <3>2. QED
      BY <1>3, <2>1, <3>1, TreeAssumption, RootIsNode DEF Transports
  <2>2. QED
    BY <1>1, <1>2, <2>1
<1>5. IsFiniteSet(alive') /\ Cardinality(alive') = n + 1
  BY <1>1, <1>2, <1>4, FS_AddElement
<1>6. alive' = {Transports[k] : k \in 1 .. n + 1}
  <2>1. 1 .. n + 1 = 1 .. n \cup {n + 1}
    OBVIOUS
  <2>2. QED
    BY <1>1, <1>2, <2>1
<1>7. alive' \subseteq ToSet(Transports)
  <2>1. 1 .. n + 1 \subseteq DOMAIN Transports
    BY <1>3
  <2>2. QED
    BY <1>6, <2>1 DEF ToSet
<1>8. Cardinality(alive') <= Len(Transports)
  <2>1. PICK m \in Nat : m = Len(Transports)
    BY <1>1
  <2>2. n < m
    BY <1>1, <1>2, <2>1
  <2>3. QED
    BY <1>5, <2>1, <2>2
<1>9. alive' = {Transports[k] : k \in 1 .. Cardinality(alive')}
  BY <1>5, <1>6
<1>10. QED
  BY <1>5, <1>7, <1>8, <1>9

\* At the start.
LEMMA InitTypes == Init => TypeOK /\ AliveOK /\ ListsOK
<1> SUFFICES ASSUME Init PROVE TypeOK /\ AliveOK /\ ListsOK
  OBVIOUS
<1>1. /\ mode \in Mode /\ path \in Paths /\ pc = "create" /\ alive = {} /\ done = {}
      /\ kids = [n \in Node |-> << >>] /\ failures = [n \in Node |-> 0]
      /\ cur = Root /\ rest = path /\ missing = NoName /\ found = FALSE /\ nameless = {}
      /\ agenda = << >> /\ printed = << >> /\ code = 0
  BY DEF Init
<1>2. rest \in Seq(UNION {ToSet(p) : p \in Paths})
  <2>1. path \in Seq(ToSet(path)) /\ ToSet(path) \subseteq UNION {ToSet(p) : p \in Paths}
    BY <1>1, ArgumentAssumption
  <2>2. PICK T : T = UNION {ToSet(p) : p \in Paths}
    OBVIOUS
  <2>3. path \in Seq(T)
    BY <2>1, <2>2, SeqMonotonic
  <2>4. QED
    BY <1>1, <2>2, <2>3
<1>3. << >> \in Seq(Node)
  OBVIOUS
<1>4. kids \in [Node -> Seq(Node)] /\ failures \in [Node -> Nat]
  BY <1>1, <1>3
<1>5. TypeOK
  <2>1. pc \in Mode \cup {"create", "resolve", "report", "teardown", "exit"} /\ code \in 0 .. 2
    BY <1>1
  <2>2. found \in BOOLEAN
    BY <1>1
  <2>3. alive \subseteq ToSet(Transports) \cup {Root} /\ done \subseteq Node
    BY <1>1
  <2>4. cur \in Node /\ agenda \in Seq(Node) /\ printed \in Seq(Node)
    BY <1>1, <1>3, RootIsNode
  <2>5. nameless \subseteq Node
    BY <1>1
  <2>6. QED
    BY <1>1, <1>2, <1>4, <2>1, <2>2, <2>3, <2>4, <2>5 DEF TypeOK
<1>6. IsFiniteSet(alive) /\ Cardinality(alive) = 0
  BY <1>1, FS_EmptySet
<1>7. AliveOK
  <2>1. Transports \in Seq(Node)
    BY TreeAssumption, RootIsNode DEF Transports
  <2>2. 0 <= Len(Transports)
    BY <2>1
  <2>3. alive = {Transports[k] : k \in 1 .. 0}
    BY <1>1
  <2>4. QED
    BY <1>1, <1>6, <2>2, <2>3 DEF AliveOK, TornDown
<1>8. ListsOK
  BY <1>1 DEF ListsOK, ToSet
<1>9. QED
  BY <1>5, <1>7, <1>8

\* Every step keeps the types and the lists.
LEMMA TypesKept ==
  ASSUME TypeOK, AliveOK, ListsOK, RoundTrip, [Next]_vars
  PROVE  TypeOK' /\ ListsOK'
<1>1. CASE UNCHANGED vars
  BY <1>1 DEF vars, arguments, tree, walk, TypeOK, ListsOK
<1>2. CASE Creating
  <2>1. UNCHANGED <<mode, path, kids, done, failures, cur, rest, missing, found, nameless,
                    agenda, printed>>
        /\ pc' \in {"create", "resolve", "exit"} /\ code' \in 0 .. 2
    BY <1>2 DEF Creating, CreateTransport, CreateFails, RootCreate, RootFails, arguments, tree, walk,
            TypeOK
  <2>2. alive' \subseteq ToSet(Transports) \cup {Root}
    <3>1. CASE CreateTransport
      BY <3>1, NextTransport
    <3>2. CASE CreateFails \/ RootCreate \/ RootFails
      BY <3>2 DEF CreateFails, RootCreate, RootFails, TypeOK
    <3>3. QED
      BY <1>2, <3>1, <3>2 DEF Creating
  <2>3. QED
    BY <2>1, <2>2 DEF TypeOK, ListsOK
<1>3. CASE Walking
  <2>1. /\ kids' \in [Node -> Seq(Node)] /\ done' \subseteq Node
        /\ failures' \in [Node -> Nat] /\ alive' \subseteq alive
        /\ ListsOK' /\ UNCHANGED <<mode, path, printed, code>>
        /\ pc = "resolve" /\ pc' \in Mode \cup {"resolve", "report"}
    BY <1>3, WalkLists
  <2>2. cur' \in Node /\ found' \in BOOLEAN /\ agenda' \in Seq(Node)
    <3>1. Children(cur) \in Seq(Node)
      BY ChildrenOf DEF TypeOK
    <3>2. CASE Descend
      <4>1. PICK k \in DOMAIN Children(cur) : cur' = Children(cur)[k]
        BY <3>2 DEF Descend, Matches
      <4>2. Children(cur)[k] \in Node
        BY <3>1
      <4>3. UNCHANGED <<found, agenda>>
        BY <3>2 DEF Descend
      <4>4. QED
        BY <4>1, <4>2, <4>3 DEF TypeOK
    <3>3. CASE NoMatch \/ NoListing \/ NoCopy
      BY <3>3 DEF NoMatch, NoListing, NoCopy, NotFound, TypeOK
    <3>4. CASE Resolved
      <4>1. <<cur>> \in Seq(Node) /\ << >> \in Seq(Node)
        BY DEF TypeOK
      <4>2. QED
        BY <3>4, <4>1 DEF Resolved, TypeOK
    <3>5. QED
      BY <1>3, <3>2, <3>3, <3>4 DEF Walking
  <2>3. rest' \in Seq(UNION {ToSet(p) : p \in Paths})
    <3>1. PICK T : T = UNION {ToSet(p) : p \in Paths}
      OBVIOUS
    <3>2. rest \in Seq(T)
      BY <3>1 DEF TypeOK
    <3>3. rest' = rest \/ (rest # << >> /\ rest' = Tail(rest))
      BY <1>3 DEF Walking, Descend, NoMatch, NoListing, NoCopy, Resolved, NotFound
    <3>4. rest' \in Seq(T)
      BY <3>2, <3>3
    <3>5. QED
      BY <3>1, <3>4
  <2>4. missing' = NoName \/ missing' \in ToSet(path)
    <3>1. missing' = missing \/ missing' = NoName \/ (rest # << >> /\ missing' = Head(rest))
      BY <1>3 DEF Walking, Descend, NoMatch, NoListing, NoCopy, Resolved, NotFound
    <3>2. QED
      BY <3>1, NextSegment DEF TypeOK
  <2>6. nameless' \subseteq Node
    <3>1. Children(cur) \in Seq(Node)
      BY ChildrenOf DEF TypeOK
    <3>2. \A k \in Matches : Children(cur)[k] \in Node
      BY <3>1 DEF Matches
    <3>3. CASE Descend
      <4>1. PICK k \in Matches : PassedOver({j \in Matches : j < k})
        BY <3>3 DEF Descend
      <4>2. nameless' = nameless \cup {Children(cur)[j] : j \in {j \in Matches : j < k}}
        BY <4>1 DEF PassedOver
      <4>3. QED
        BY <3>2, <4>2 DEF TypeOK
    <3>4. CASE NoMatch
      BY <3>2, <3>4 DEF NoMatch, PassedOver, TypeOK
    <3>5. CASE NoListing \/ NoCopy \/ Resolved
      BY <3>5 DEF NoListing, NoCopy, Resolved, TypeOK
    <3>6. QED
      BY <1>3, <3>3, <3>4, <3>5 DEF Walking
  <2>5. QED
    BY <2>1, <2>2, <2>3, <2>4, <2>6 DEF TypeOK
<1>4. CASE Using
  <2>1. /\ kids' \in [Node -> Seq(Node)] /\ done' \subseteq Node
        /\ failures' \in [Node -> Nat] /\ alive' \subseteq alive
        /\ ListsOK' /\ UNCHANGED <<mode, path, cur, rest, missing, found, nameless>>
        /\ pc' \in {"list", "recurse", "teardown"} /\ code' \in 0 .. 2
    BY <1>4, UseLists
  <2>2. agenda' \in Seq(Node) /\ printed' \in Seq(Node)
    <3>1. Children(cur) \in Seq(Node)
      BY ChildrenOf DEF TypeOK
    <3>2. CASE Report \/ List
      BY <3>1, <3>2 DEF Report, List, PrintChildren, TypeOK
    <3>3. CASE Invoke \/ InvokeFails \/ Show \/ Visited
      BY <3>3 DEF Invoke, InvokeFails, Show, Visited, TypeOK
    <3>4. CASE Visit
      <4>1. agenda # << >> /\ agenda \in Seq(Node) /\ printed \in Seq(Node)
            /\ printed' = Append(printed, Head(agenda))
            /\ (agenda' = Children(Head(agenda)) \o Tail(agenda) \/ agenda' = Tail(agenda))
        BY <3>4 DEF Visit, TypeOK
      <4>2. Head(agenda) \in Node /\ Tail(agenda) \in Seq(Node)
        BY <4>1
      <4>3. PICK h \in Node : h = Head(agenda)
        BY <4>2
      <4>4. Children(h) \in Seq(Node)
        BY ChildrenOf
      <4>5. Children(h) \o Tail(agenda) \in Seq(Node)
        BY <4>2, <4>4, ConcatProperties
      <4>6. printed' \in Seq(Node)
        BY <4>1, <4>2
      <4>7. QED
        BY <4>1, <4>2, <4>3, <4>5, <4>6
    <3>5. QED
      BY <1>4, <3>2, <3>3, <3>4 DEF Using
  <2>3. QED
    BY <2>1, <2>2 DEF TypeOK, Mode
<1>5. CASE Teardown
  <2>1. /\ alive' = {} /\ kids' = [n \in Node |-> << >>] /\ done' = {} /\ pc' = "exit"
        /\ UNCHANGED <<mode, path, failures, cur, rest, missing, found, nameless, agenda, printed,
                       code>>
    BY <1>5 DEF Teardown, arguments, walk
  <2>2. kids' \in [Node -> Seq(Node)]
    BY <2>1
  <2>3. TypeOK'
    BY <2>1, <2>2 DEF TypeOK
  <2>4. ListsOK'
    BY <2>1 DEF ListsOK, ToSet
  <2>5. QED
    BY <2>3, <2>4
<1>6. QED
  BY <1>1, <1>2, <1>3, <1>4, <1>5 DEF Next, Creating, Walking, Using

\* Every step keeps what is alive.
LEMMA AliveKept ==
  ASSUME TypeOK, AliveOK, ListsOK, [Next]_vars
  PROVE  AliveOK'
<1>1. CASE UNCHANGED vars
  BY <1>1 DEF vars, tree, AliveOK, TornDown
<1>2. CASE CreateTransport
  <2>1. pc' = "create"
    BY <1>2 DEF CreateTransport
  <2>2. QED
    BY <1>2, <2>1, NextTransport DEF AliveOK, TornDown
<1>3. CASE CreateFails \/ RootCreate \/ Teardown
  BY <1>3 DEF CreateFails, RootCreate, Teardown, AliveOK, TornDown
<1>4. CASE RootFails
  <2>1. /\ pc = "create" /\ Cardinality(alive) = Len(Transports)
        /\ alive' = alive \ {Transports[1]} /\ code' = 1 /\ pc' = "exit"
    BY <1>4 DEF RootFails, AllCreated
  <2>2. alive = {Transports[k] : k \in 1 .. Len(Transports)}
    BY <2>1 DEF AliveOK
  <2>3. Transports \in Seq(Node)
    BY TreeAssumption, RootIsNode DEF Transports
  <2>4. CASE Len(Transports) = 0
    BY <2>1, <2>2, <2>4 DEF AliveOK, TornDown
  <2>5. CASE Len(Transports) # 0
    <3>1. PICK n \in Nat \ {0} : n = Len(Transports)
      BY <2>3, <2>5
    <3>2. /\ Len(Tail(Transports)) = n - 1 /\ DOMAIN Tail(Transports) = 1 .. n - 1
          /\ \A k \in 1 .. n - 1 : Tail(Transports)[k] = Transports[k + 1]
      BY <2>3, <3>1
    <3>3. \A j, k \in 1 .. n : Transports[j] = Transports[k] => j = k
      <4>1. DOMAIN Transports = 1 .. n
        BY <2>3, <3>1
      <4>2. QED
        BY <4>1, TreeAssumption, RootIsNode DEF Transports
    <3>4. ASSUME NEW k \in 1 .. n - 1
          PROVE  Tail(Transports)[k] \in alive'
      <4>1. k + 1 \in 1 .. n /\ 1 \in 1 .. n /\ k + 1 # 1
        BY <3>1
      <4>2. Transports[k + 1] # Transports[1]
        BY <3>3, <4>1
      <4>3. QED
        BY <2>1, <2>2, <3>1, <3>2, <4>1, <4>2
    <3>5. ASSUME NEW k \in 1 .. n, Transports[k] # Transports[1]
          PROVE  Transports[k] \in ToSet(Tail(Transports))
      <4>1. k - 1 \in 1 .. n - 1 /\ (k - 1) + 1 = k
        BY <3>5
      <4>2. Tail(Transports)[k - 1] = Transports[k]
        BY <3>2, <4>1
      <4>3. QED
        BY <3>2, <4>1, <4>2 DEF ToSet
    <3>6. alive' = ToSet(Tail(Transports))
      <4>1. \A x \in alive' : x \in ToSet(Tail(Transports))
        BY <2>1, <2>2, <3>1, <3>5
      <4>2. \A x \in ToSet(Tail(Transports)) : x \in alive'
        BY <3>2, <3>4 DEF ToSet
      <4>3. QED
        BY <4>1, <4>2
    <3>7. QED
      BY <2>1, <3>6 DEF AliveOK, TornDown
  <2>6. QED
    BY <2>4, <2>5
<1>5. CASE Walking
  <2>1. pc' \in Mode \cup {"resolve", "report"}
    BY <1>5, WalkLists
  <2>2. QED
    BY <2>1 DEF AliveOK, TornDown, Mode
<1>6. CASE Using
  <2>1. pc' \in {"list", "recurse", "teardown"}
    BY <1>6, UseLists
  <2>2. QED
    BY <2>1 DEF AliveOK, TornDown
<1>7. QED
  BY <1>1, <1>2, <1>3, <1>4, <1>5, <1>6 DEF Next, Walking, Using

-----------------------------------------------------------------------------
(* Where the walk is, and the path there.                                  *)

\* A match is the eldest child of that name whose name was got: the object it
\* reaches is addressable by the path so far.
LEMMA DescendsByPath ==
  ASSUME TypeOK, ListsOK, WalkOK, RoundTrip, Descend
  PROVE  /\ cur' \in Node /\ IsParent(cur, cur') /\ Addressable(cur', nameless')
         /\ PathOf(cur') \o rest' = path
         /\ \A n \in Below(cur') : ToSet(Kids[n]) \cap nameless' = {}
<1>1. /\ pc = "resolve" /\ rest # << >> /\ rest' = Tail(rest) /\ cur \in Node
      /\ failures[cur] = 0 /\ \A n \in Below(cur) : ToSet(Kids[n]) \cap nameless = {}
      /\ Addressable(cur, nameless)
  BY DEF Descend, TypeOK, WalkOK
<1>2. Children(cur) = Kids[cur] /\ Kids[cur] \in Seq(Node)
  BY <1>1, ChildrenOf
<1>3. PICK k \in DOMAIN Kids[cur] :
        /\ NameOf[Kids[cur][k]] = Head(rest) /\ cur' = Kids[cur][k]
        /\ PassedOver({j \in Matches : j < k})
  BY <1>2 DEF Descend, Matches
<1>10. PICK H : H = {Kids[cur][j] : j \in {j \in Matches : j < k}}
  OBVIOUS
<1>11. nameless' = nameless \cup H /\ H \in SUBSET ToSet(Kids[cur])
  BY <1>2, <1>3, <1>10 DEF PassedOver, Matches, ToSet
<1>12. Addressable(cur, nameless')
  BY <1>1, <1>11, HidingChildren
<1>4. PICK c : c = cur'
  OBVIOUS
<1>5. c \in Node /\ IsParent(cur, c) /\ NameOf[c] = Head(rest)
  BY <1>2, <1>3, <1>4 DEF IsParent, ToSet
<1>13. DOMAIN Kids[cur] = 1 .. Len(Kids[cur]) /\ Len(Kids[cur]) \in Nat
  BY <1>2
<1>6. Eldest(c, nameless')
  <2>1. ASSUME NEW p \in Node, NEW j \in DOMAIN Kids[p], NEW i \in DOMAIN Kids[p],
               Kids[p][i] = c, NameOf[Kids[p][j]] = NameOf[c], Kids[p][j] \notin nameless'
        PROVE  i <= j
    <3>1. p = cur /\ i = k
      BY <1>1, <1>3, <1>4, <2>1, TreeAssumption
    <3>2. j < k => Kids[p][j] \in H
      BY <1>2, <1>5, <1>10, <2>1, <3>1 DEF Matches
    <3>3. QED
      BY <1>11, <1>13, <2>1, <3>1, <3>2
  <2>2. c \notin nameless
    <3>1. cur \in Below(cur)
      BY <1>1, LineOf, BelowIsLine
    <3>2. QED
      BY <1>1, <1>5, <3>1 DEF IsParent
  <2>3. c \notin H
    <3>1. ASSUME NEW j \in DOMAIN Kids[cur], j < k, Kids[cur][j] = c
          PROVE  FALSE
      <4>1. \A i \in DOMAIN Kids[cur] : Kids[cur][j] = Kids[cur][i] => j = i
        BY <1>1, TreeAssumption
      <4>2. Kids[cur][j] = Kids[cur][k] /\ k \in DOMAIN Kids[cur]
        BY <1>3, <1>4, <1>5, <3>1
      <4>3. j = k /\ j \in Nat
        BY <1>13, <4>1, <4>2
      <4>4. QED
        BY <3>1, <4>3
    <3>2. QED
      BY <1>2, <1>10, <3>1 DEF Matches
  <2>4. QED
    BY <1>11, <2>1, <2>2, <2>3 DEF Eldest
<1>7. Addressable(c, nameless')
  BY <1>1, <1>5, <1>6, <1>12, AddressableDown
<1>14. ASSUME NEW n \in Below(c)
       PROVE  ToSet(Kids[n]) \cap nameless' = {}
  <2>1. c \in ToSet(Kids[cur])
    BY <1>5 DEF IsParent
  <2>2. n \in Below(cur) /\ n # cur /\ n \in Node
    BY <1>1, <1>14, <2>1, SubtreesApart, BelowIsLine
  <2>3. ASSUME NEW b, b \in ToSet(Kids[n]), b \in ToSet(Kids[cur])
        PROVE  FALSE
    BY <1>1, <2>2, <2>3, TreeAssumption DEF ToSet
  <2>4. QED
    BY <1>1, <1>11, <2>2, <2>3
<1>8. PathOf(c) \o Tail(rest) = path
  <2>1. /\ rest \in Seq(ToSet(path)) /\ PathOf(cur) \in Seq(Name) /\ PathOf(c) \in Seq(Name)
    BY <1>1, <1>5, NextSegment, PathIsSeq
  <2>2. /\ Len(PathOf(c)) = Len(PathOf(cur)) + 1
        /\ \A i \in 1 .. Len(PathOf(cur)) : PathOf(c)[i] = PathOf(cur)[i]
        /\ PathOf(c)[Len(PathOf(cur)) + 1] = Head(rest)
    BY <1>1, <1>5, PathDown
  <2>3. PathOf(c) \o Tail(rest) = PathOf(cur) \o rest
    BY <1>1, <2>1, <2>2, MoveHead
  <2>4. QED
    BY <2>3 DEF RoundTrip
<1>9. QED
  BY <1>1, <1>4, <1>5, <1>7, <1>8, <1>14

\* When no child matches, or none whose name is got, no addressable object has the
\* path.
LEMMA NoneThere ==
  ASSUME TypeOK, ListsOK, WalkOK, RoundTrip, NoMatch
  PROVE  /\ Addressable(cur, nameless')
         /\ \A n \in Node : Addressable(n, nameless') => PathOf(n) # path
<1>1. /\ pc = "resolve" /\ rest # << >> /\ cur \in Node /\ Addressable(cur, nameless)
      /\ failures[cur] = 0
  BY DEF NoMatch, TypeOK, WalkOK
<1>2. Children(cur) = Kids[cur] /\ Kids[cur] \in Seq(Node)
  BY <1>1, ChildrenOf
<1>3. PICK H : H = {Kids[cur][k] : k \in Matches}
  OBVIOUS
<1>4. nameless' = nameless \cup H /\ H \in SUBSET ToSet(Kids[cur])
  BY <1>2, <1>3 DEF NoMatch, PassedOver, Matches, ToSet
<1>5. Addressable(cur, nameless')
  BY <1>1, <1>4, HidingChildren
<1>6. \A b \in ToSet(Kids[cur]) : NameOf[b] = Head(rest) => b \in nameless'
  BY <1>2, <1>3, <1>4 DEF Matches, ToSet
<1>7. ASSUME NEW n \in Node, Addressable(n, nameless'), PathOf(n) = path
      PROVE  FALSE
  <2>1. /\ Len(path) = Len(PathOf(cur)) + Len(rest) /\ Len(rest) \in Nat \ {0}
        /\ Len(PathOf(cur)) \in Nat
        /\ \A k \in 1 .. Len(PathOf(cur)) : path[k] = PathOf(cur)[k]
        /\ path[Len(PathOf(cur)) + 1] = Head(rest)
    BY <1>1, NextSegment
  <2>2. Len(PathOf(cur)) < Len(PathOf(n))
    BY <1>7, <2>1
  <2>3. PICK b \in ToSet(Kids[cur]) :
          Eldest(b, nameless') /\ NameOf[b] = PathOf(n)[Len(PathOf(cur)) + 1]
    BY <1>1, <1>5, <1>7, <2>1, <2>2, PathGoesOn
  <2>4. QED
    BY <1>6, <1>7, <2>1, <2>3 DEF Eldest
<1>8. QED
  BY <1>5, <1>7

\* What resolve_path says keeps the walk and the path.
LEMMA WalkStepKept ==
  ASSUME TypeOK, ListsOK, WalkOK, RoundTrip, Walking
  PROVE  WalkOK' /\ RoundTrip'
<1>0. /\ UNCHANGED <<mode, path, printed, code>> /\ pc = "resolve" /\ cur \in Node
      /\ ~found /\ printed = << >> /\ \A n \in Node : failures[n] = 0
  BY WalkLists DEF WalkOK, TypeOK
<1>1. CASE Descend
  <2>1. pc' = "resolve" /\ failures' = failures /\ found' = found
    BY <1>0, <1>1 DEF Descend, Listed
  <2>2. PICK c : /\ c = cur' /\ Addressable(c, nameless') /\ PathOf(c) \o rest' = path
                 /\ \A n \in Below(c) : ToSet(Kids[n]) \cap nameless' = {}
    BY <1>1, DescendsByPath
  <2>3. WalkOK'
    BY <1>0, <2>1, <2>2 DEF WalkOK, Mode
  <2>4. RoundTrip'
    BY <1>0, <2>1, <2>2 DEF RoundTrip
  <2>5. QED
    BY <2>3, <2>4
<1>2. CASE NoMatch
  <2>1. pc' = "report" /\ UNCHANGED <<cur, rest, found>>
    BY <1>2 DEF NoMatch, NotFound
  <2>2. /\ Addressable(cur, nameless')
        /\ \A n \in Node : Addressable(n, nameless') => PathOf(n) # path
    BY <1>2, NoneThere
  <2>3. WalkOK'
    BY <1>0, <2>1, <2>2 DEF WalkOK, Mode
  <2>4. RoundTrip'
    BY <1>0, <2>1, <2>2 DEF RoundTrip
  <2>5. QED
    BY <2>3, <2>4
<1>3. CASE NoListing \/ NoCopy
  <2>1. pc' = "report" /\ UNCHANGED <<cur, rest, found, nameless>>
    BY <1>3 DEF NoListing, NoCopy, NotFound
  <2>2. missing' = NoName \/ failures'[cur] > 0
    <3>1. CASE NoCopy
      BY <3>1 DEF NoCopy, NotFound
    <3>2. CASE NoListing
      <4>1. ListFails(cur)
        BY <3>2 DEF NoListing
      <4>2. failures'[cur] > 0
        BY <1>0, <4>1, ListingStep
      <4>3. QED
        BY <4>2
    <3>3. QED
      BY <1>3, <3>1, <3>2
  <2>3. WalkOK'
    BY <1>0, <2>1 DEF WalkOK, Mode
  <2>4. RoundTrip'
    BY <1>0, <2>1, <2>2 DEF RoundTrip
  <2>5. QED
    BY <2>3, <2>4
<1>4. CASE Resolved
  <2>1. /\ pc' = mode /\ mode \in Mode /\ found' = TRUE /\ rest = << >>
        /\ UNCHANGED <<cur, rest, failures, nameless>>
    BY <1>4 DEF Resolved, tree, TypeOK
  <2>2. PathOf(cur) = path
    <3>1. PathOf(cur) \in Seq(Name)
      BY <1>0, PathIsSeq
    <3>2. PathOf(cur) \o << >> = PathOf(cur)
      BY <3>1, ConcatEmptySeq
    <3>3. QED
      BY <2>1, <3>2 DEF RoundTrip
  <2>3. WalkOK'
    BY <1>0, <2>1 DEF WalkOK, Mode
  <2>4. RoundTrip'
    BY <1>0, <2>1, <2>2 DEF RoundTrip, WalkOK, Mode
  <2>5. QED
    BY <2>3, <2>4
<1>5. QED
  BY <1>1, <1>2, <1>3, <1>4 DEF Walking

\* Every step keeps the walk and the path.
LEMMA WalkKept ==
  ASSUME TypeOK, ListsOK, WalkOK, RoundTrip, [Next]_vars
  PROVE  WalkOK' /\ RoundTrip'
<1>1. CASE UNCHANGED vars
  BY <1>1 DEF vars, arguments, tree, walk, WalkOK, RoundTrip
<1>2. CASE Creating
  <2>1. /\ UNCHANGED <<mode, path, failures, cur, rest, missing, found, nameless, printed>>
        /\ pc = "create" /\ pc' \in {"create", "resolve", "exit"}
    BY <1>2 DEF Creating, CreateTransport, CreateFails, RootCreate, RootFails, arguments, tree, walk
  <2>2. WalkOK'
    BY <2>1 DEF WalkOK, Mode
  <2>3. RoundTrip'
    BY <2>1 DEF RoundTrip
  <2>4. QED
    BY <2>2, <2>3
<1>3. CASE Walking
  BY <1>3, WalkStepKept
<1>4. CASE Using
  <2>1. UNCHANGED <<mode, path, cur, rest, missing, found, nameless>> /\ pc' \in {"list", "recurse", "teardown"}
    BY <1>4, UseLists
  <2>2. RoundTrip'
    BY <2>1 DEF RoundTrip
  <2>3. /\ pc' = "list" => pc = "show" /\ printed' = printed
        /\ pc' = "recurse" => pc = "recurse"
    BY <1>4 DEF Using, Report, Invoke, InvokeFails, Show, List, Visit, Visited, Finish
  <2>4. WalkOK'
    BY <2>1, <2>3 DEF WalkOK, Mode
  <2>5. QED
    BY <2>2, <2>4
<1>5. CASE Teardown
  <2>1. pc' = "exit" /\ UNCHANGED <<mode, path, failures, cur, rest, missing, found, nameless, printed>>
    BY <1>5 DEF Teardown, arguments, walk
  <2>2. WalkOK'
    BY <2>1 DEF WalkOK, Mode
  <2>3. RoundTrip'
    BY <2>1 DEF RoundTrip
  <2>4. QED
    BY <2>2, <2>3
<1>6. QED
  BY <1>1, <1>2, <1>3, <1>4, <1>5 DEF Next, Creating, Walking, Using

\* At the start.
LEMMA InitWalk == Init => WalkOK /\ RoundTrip
<1> SUFFICES ASSUME Init PROVE WalkOK /\ RoundTrip
  OBVIOUS
<1>1. /\ pc = "create" /\ failures = [n \in Node |-> 0] /\ cur = Root /\ rest = path
      /\ path \in Paths /\ found = FALSE /\ printed = << >>
  BY DEF Init
<1>2. Addressable(Root, nameless) /\ \A n \in Below(Root) : ToSet(Kids[n]) \cap nameless = {}
  <2>1. ToSet(Lineage[Root]) = {}
    BY LineageOf DEF ToSet
  <2>2. QED
    BY <2>1 DEF Addressable, Init
<1>3. << >> \o path = path
  <2>1. path \in Seq(ToSet(path))
    BY <1>1, ArgumentAssumption
  <2>2. QED
    BY <2>1, ConcatEmptySeq
<1>4. WalkOK
  BY <1>1, <1>2 DEF WalkOK, Mode
<1>5. RoundTrip
  BY <1>1, <1>3, PathIsSeq DEF RoundTrip
<1>6. QED
  BY <1>4, <1>5

-----------------------------------------------------------------------------
(* What is asked to list itself.                                           *)

\* The object reached stays below what it was below.
LEMMA GoesDown ==
  ASSUME TypeOK, ListsOK, WalkOK, RoundTrip, Walking
  PROVE  cur' \in Node /\ Line(cur) \subseteq Line(cur')
<1>1. CASE Descend
  <2>1. PICK c \in Node : c = cur' /\ IsParent(cur, c)
    BY <1>1, DescendsByPath
  <2>2. Line(c) = Line(cur) \cup {c}
    BY <2>1, LineOf DEF TypeOK
  <2>3. QED
    BY <2>1, <2>2
<1>2. CASE ~Descend
  <2>1. cur' = cur
    BY <1>2 DEF Walking, NoMatch, NoListing, NoCopy, NotFound, Resolved
  <2>2. QED
    BY <2>1 DEF TypeOK
<1>3. QED
  BY <1>1, <1>2

\* Every step keeps what is not asked to list itself.
LEMMA LazyKept ==
  ASSUME TypeOK, ListsOK, WalkOK, RoundTrip, AgendaOK, LazyListing, [Next]_vars
  PROVE  LazyListing'
<1>1. CASE UNCHANGED vars
  BY <1>1 DEF vars, arguments, tree, walk, LazyListing
<1>2. CASE Creating
  <2>1. UNCHANGED <<mode, done, failures, cur, found>>
    BY <1>2 DEF Creating, CreateTransport, CreateFails, RootCreate, RootFails, arguments, tree, walk
  <2>2. QED
    BY <2>1 DEF LazyListing
<1>3. CASE Walking
  <2>1. /\ done' \subseteq done \cup {cur} /\ \A n \in Node : n # cur => failures'[n] = failures[n]
        /\ ~found /\ cur \in Node
    BY <1>3, WalkLists DEF WalkOK, TypeOK
  <2>2. PICK c \in Node : c = cur' /\ Line(cur) \subseteq Line(c)
    BY <1>3, GoesDown
  <2>3. ASSUME NEW n \in Node, n \in done' \/ failures'[n] > 0
        PROVE  c \in Below(n)
    <3>1. CASE n = cur
      BY <2>1, <2>2, <3>1, LineOf, BelowIsLine
    <3>2. CASE n # cur
      <4>1. cur \in Below(n)
        BY <2>1, <2>3, <3>2 DEF LazyListing
      <4>2. QED
        BY <2>2, <4>1, BelowIsLine
    <3>3. QED
      BY <3>1, <3>2
  <2>4. QED
    BY <2>2, <2>3 DEF LazyListing
<1>4. CASE Using
  <2>1. /\ UNCHANGED <<mode, cur, found>>
        /\ done' \subseteq done \cup (IF pc = "recurse" /\ agenda = << >> THEN {} ELSE {Subject})
        /\ \A n \in Node : (n = Subject /\ ~(pc = "recurse" /\ agenda = << >>))
                           \/ failures'[n] = failures[n]
    BY <1>4, UseLists
  <2>2. CASE pc = "recurse" /\ agenda = << >>
    BY <2>1, <2>2 DEF LazyListing
  <2>3. CASE ~(pc = "recurse" /\ agenda = << >>)
    <3>1. Subject \in Node =>
            \/ cur \in Below(Subject)
            \/ mode = "recurse" /\ found /\ Subject \in Below(cur)
      <4>1. CASE pc = "recurse"
        <5>1. agenda \in Seq(Node) /\ agenda # << >>
          BY <2>3, <4>1 DEF TypeOK
        <5>2. 1 \in DOMAIN agenda /\ Head(agenda) = agenda[1]
          BY <5>1
        <5>3. agenda[1] \in Below(cur)
          BY <4>1, <5>2 DEF AgendaOK
        <5>4. mode = "recurse" /\ found
          BY <4>1 DEF WalkOK, Mode
        <5>5. QED
          BY <4>1, <5>2, <5>3, <5>4 DEF Subject
      <4>2. CASE pc # "recurse"
        BY <4>2, LineOf, BelowIsLine DEF Subject, TypeOK
      <4>3. QED
        BY <4>1, <4>2
    <3>2. ASSUME NEW n \in Node, n \in done' \/ failures'[n] > 0
          PROVE  cur \in Below(n) \/ (mode = "recurse" /\ found /\ n \in Below(cur))
      <4>1. CASE n = Subject
        BY <3>1, <4>1
      <4>2. CASE n # Subject
        BY <2>1, <2>3, <3>2, <4>2 DEF LazyListing
      <4>3. QED
        BY <4>1, <4>2
    <3>3. QED
      BY <2>1, <3>2 DEF LazyListing
  <2>4. QED
    BY <2>2, <2>3
<1>5. CASE Teardown
  <2>1. done' = {} /\ UNCHANGED <<mode, failures, cur, found>>
    BY <1>5 DEF Teardown, arguments, walk
  <2>2. QED
    BY <2>1 DEF LazyListing
<1>6. QED
  BY <1>1, <1>2, <1>3, <1>4, <1>5 DEF Next, Creating, Walking, Using

-----------------------------------------------------------------------------
(* Printing a subtree.                                                     *)

\* What is printed (P) and left (A) of the subtree of c, as AgendaOK and
\* RecurseExact have it.
Unfolded(P, A, c) ==
  /\ ToSet(P) \subseteq Below(c)
  /\ Cardinality(ToSet(P)) = Len(P)
  /\ \A j, k \in DOMAIN P : P[k] \in Below(P[j]) => j <= k
  /\ \A j, k, l \in DOMAIN P : j < k /\ k < l /\ P[l] \in Below(P[j]) => P[k] \in Below(P[j])
  /\ \A k \in DOMAIN A : A[k] \in Below(c) /\ \A n \in ToSet(P) : n \notin Below(A[k])
  /\ \A j, k \in DOMAIN A : j # k => Below(A[j]) \cap Below(A[k]) = {}
  /\ \A j \in DOMAIN P : \A k, l \in DOMAIN A :
       k < l /\ A[l] \in Below(P[j]) => A[k] \in Below(P[j])
  /\ \A j, k \in DOMAIN P : \A l \in DOMAIN A :
       j < k /\ A[l] \in Below(P[j]) => P[k] \in Below(P[j])

\* Everything below c is printed or left.
NothingMissed(P, A, c) ==
  \A n \in Below(c) : n \in ToSet(P) \/ \E k \in DOMAIN A : n \in Below(A[k])

\* A new agenda is the children of the head, if any, then the tail of the old.
LEMMA NewAgenda ==
  ASSUME NEW A \in Seq(Node), A # << >>, NEW K \in Seq(Node)
  PROVE  /\ Head(A) = A[1] /\ 1 \in DOMAIN A /\ DOMAIN A = 1 .. Len(A) /\ Len(A) \in Nat
         /\ Len(K) \in Nat /\ DOMAIN K = 1 .. Len(K)
         /\ K \o Tail(A) \in Seq(Node)
         /\ DOMAIN (K \o Tail(A)) = 1 .. Len(K) + Len(A) - 1
         /\ \A l \in 1 .. Len(K) : (K \o Tail(A))[l] = K[l]
         /\ \A l \in Len(K) + 1 .. Len(K) + Len(A) - 1 : (K \o Tail(A))[l] = A[l - Len(K) + 1]
<1>1. /\ Head(A) = A[1] /\ 1 \in DOMAIN A /\ DOMAIN A = 1 .. Len(A) /\ Len(A) \in Nat
      /\ Len(K) \in Nat /\ DOMAIN K = 1 .. Len(K)
      /\ Tail(A) \in Seq(Node) /\ Len(Tail(A)) = Len(A) - 1
      /\ \A i \in 1 .. Len(A) - 1 : Tail(A)[i] = A[i + 1]
  OBVIOUS
<1>2. PICK t \in Seq(Node) : t = Tail(A)
  BY <1>1
<1>3. /\ K \o t \in Seq(Node) /\ Len(K \o t) = Len(K) + Len(t)
      /\ \A k \in 1 .. Len(K) : (K \o t)[k] = K[k]
      /\ \A k \in Len(K) + 1 .. Len(K) + Len(t) : (K \o t)[k] = t[k - Len(K)]
  BY Joined
<1>4. PICK n \in Nat, m \in Nat : n = Len(K) /\ m = Len(A)
  BY <1>1
<1>5. DOMAIN (K \o t) = 1 .. n + m - 1
  BY <1>1, <1>2, <1>3, <1>4
<1>6. ASSUME NEW l \in n + 1 .. n + m - 1
      PROVE  (K \o t)[l] = A[l - n + 1]
  <2>1. l - n \in 1 .. m - 1 /\ l \in n + 1 .. n + (m - 1)
    BY <1>4
  <2>2. (K \o t)[l] = t[l - n]
    BY <1>1, <1>2, <1>3, <1>4, <2>1
  <2>3. QED
    BY <1>1, <1>2, <1>4, <2>1, <2>2
<1>7. QED
  BY <1>1, <1>2, <1>3, <1>4, <1>5, <1>6

\* Children of h at two places of its list are two, below h, and have nothing in
\* common.
LEMMA KidsApart ==
  ASSUME NEW h \in Node, NEW K, K = << >> \/ K = Kids[h]
  PROVE  /\ \A i \in DOMAIN K : /\ K[i] \in Node /\ K[i] \in Below(h) /\ h \notin Below(K[i])
                                /\ Below(K[i]) \subseteq Below(h)
                                /\ \A a \in Node : K[i] \in Below(a) /\ a # K[i] => h \in Below(a)
         /\ \A i, j \in DOMAIN K : i # j => Below(K[i]) \cap Below(K[j]) = {}
<1>1. CASE K = << >>
  BY <1>1
<1>2. CASE K = Kids[h]
  <2>1. \A i \in DOMAIN K : K[i] \in ToSet(Kids[h])
    BY <1>2 DEF ToSet
  <2>2. \A i, j \in DOMAIN K : i # j => K[i] # K[j]
    BY <1>2, TreeAssumption
  <2>3. QED
    BY <2>1, <2>2, SubtreesApart
<1>3. QED
  BY <1>1, <1>2

\* A subtree holds its top and lies inside every subtree that holds its top.
LEMMA SubtreeInside ==
  /\ \A h \in Node : h \in Below(h)
  /\ \A a, h \in Node : h \in Below(a) => Below(h) \subseteq Below(a)
<1>1. \A h \in Node : h \in Below(h)
  BY LineOf, BelowIsLine
<1>2. ASSUME NEW a \in Node, NEW h \in Node, h \in Below(a), NEW n \in Below(h)
      PROVE  n \in Below(a)
  BY <1>2, LineTransitive, BelowIsLine
<1>3. QED
  BY <1>1, <1>2

\* Printing the head of the agenda and putting its children, or nothing, in its
\* place keeps what is printed and left in order.
LEMMA Unfolds ==
  ASSUME NEW c \in Node, NEW P \in Seq(Node), NEW A \in Seq(Node), A # << >>, Unfolded(P, A, c),
         NEW K \in Seq(Node), K = << >> \/ K = Kids[Head(A)]
  PROVE  Unfolded(Append(P, Head(A)), K \o Tail(A), c)
<1>1. /\ Head(A) = A[1] /\ 1 \in DOMAIN A /\ DOMAIN A = 1 .. Len(A) /\ Len(A) \in Nat
      /\ Len(K) \in Nat /\ DOMAIN K = 1 .. Len(K)
      /\ K \o Tail(A) \in Seq(Node)
      /\ DOMAIN (K \o Tail(A)) = 1 .. Len(K) + Len(A) - 1
      /\ \A l \in 1 .. Len(K) : (K \o Tail(A))[l] = K[l]
      /\ \A l \in Len(K) + 1 .. Len(K) + Len(A) - 1 : (K \o Tail(A))[l] = A[l - Len(K) + 1]
  BY NewAgenda
<1>2. PICK h \in Node : h = Head(A) /\ h = A[1]
  BY <1>1
<1>3. PICK m \in Nat : m = Len(K)
  BY <1>1
<1>4. PICK B \in Seq(Node) :
        /\ B = K \o Tail(A)
        /\ \A l \in DOMAIN B : (l \in DOMAIN K /\ B[l] = K[l])
                               \/ (l > m /\ l - m + 1 \in DOMAIN A /\ l - m + 1 > 1
                                   /\ B[l] = A[l - m + 1])
        /\ DOMAIN B \subseteq Nat
  <2>1. PICK u : u = K \o Tail(A)
    OBVIOUS
  <2>2. ASSUME NEW l \in DOMAIN u
        PROVE  (l \in DOMAIN K /\ u[l] = K[l])
               \/ (l > m /\ l - m + 1 \in DOMAIN A /\ l - m + 1 > 1 /\ u[l] = A[l - m + 1])
    BY <1>1, <1>3, <2>1
  <2>3. u \in Seq(Node) /\ DOMAIN u \subseteq Nat
    BY <1>1, <2>1
  <2>4. QED
    BY <2>1, <2>2, <2>3
<1>5. PICK N \in Nat : N = Len(P) /\ DOMAIN P = 1 .. N
  OBVIOUS
<1>6. PICK Q \in Seq(Node) :
        /\ Q = Append(P, Head(A)) /\ Len(Q) = N + 1 /\ DOMAIN Q = 1 .. N + 1 /\ Q[N + 1] = h
        /\ \A j \in 1 .. N : Q[j] = P[j]
  <2>1. PICK q : q = Append(P, h)
    OBVIOUS
  <2>2. q \in Seq(Node) /\ Len(q) = N + 1 /\ q[N + 1] = h /\ \A j \in 1 .. N : q[j] = P[j]
    BY <1>5, <2>1
  <2>3. DOMAIN q = 1 .. N + 1
    BY <2>2
  <2>4. QED
    BY <1>2, <2>1, <2>2, <2>3
<1>7. ToSet(Q) = ToSet(P) \cup {h}
  BY <1>2, <1>6, OneMore
<1>8. /\ \A i \in DOMAIN K : /\ K[i] \in Node /\ K[i] \in Below(h) /\ h \notin Below(K[i])
                             /\ Below(K[i]) \subseteq Below(h)
                             /\ \A a \in Node : K[i] \in Below(a) /\ a # K[i] => h \in Below(a)
      /\ \A i, j \in DOMAIN K : i # j => Below(K[i]) \cap Below(K[j]) = {}
  BY <1>2, KidsApart
<1>9. /\ \A i \in DOMAIN A : A[i] \in Node /\ A[i] \in Below(A[i])
      /\ \A j \in DOMAIN P : P[j] \in Node /\ P[j] \in ToSet(P)
      /\ h \in Below(h) /\ h \in Below(c) /\ 1 \in DOMAIN A /\ A[1] = h
  BY <1>1, <1>2, SubtreeInside DEF Unfolded, ToSet
<1>10. /\ \A n \in ToSet(P) : n \notin Below(h)
       /\ \A i \in DOMAIN A : i > 1 => Below(A[i]) \cap Below(h) = {} /\ h \notin Below(A[i])
                                        /\ A[i] \notin Below(h)
  <2>1. \A n \in ToSet(P) : n \notin Below(h)
    BY <1>9 DEF Unfolded
  <2>2. ASSUME NEW i \in DOMAIN A, i > 1
        PROVE  Below(A[i]) \cap Below(h) = {}
    <3>1. i # 1
      BY <2>2
    <3>2. QED
      BY <1>9, <3>1 DEF Unfolded
  <2>3. QED
    BY <1>9, <2>1, <2>2
\* What is left below something printed is so because the head is.
<1>11. ASSUME NEW j \in DOMAIN P, NEW l \in DOMAIN B, B[l] \in Below(P[j])
       PROVE  h \in Below(P[j])
  <2>1. CASE l \in DOMAIN K /\ B[l] = K[l]
    <3>1. P[j] # K[l]
      BY <1>8, <1>9, <1>10, <2>1
    <3>2. QED
      BY <1>8, <1>9, <1>11, <2>1, <3>1
  <2>2. CASE l > m /\ l - m + 1 \in DOMAIN A /\ l - m + 1 > 1 /\ B[l] = A[l - m + 1]
    <3>1. PICK i \in DOMAIN A : i = l - m + 1 /\ i > 1 /\ B[l] = A[i]
      BY <2>2
    <3>2. QED
      BY <1>9, <1>11, <3>1 DEF Unfolded
  <2>3. QED
    BY <1>4, <2>1, <2>2
\* What is left below the head is a child of it.
<1>12. ASSUME NEW l \in DOMAIN B, B[l] \in Below(h)
       PROVE  l \in DOMAIN K /\ B[l] = K[l]
  BY <1>4, <1>10, <1>12
<1>13. ToSet(Q) \subseteq Below(c)
  BY <1>7, <1>9 DEF Unfolded
<1>14. Cardinality(ToSet(Q)) = Len(Q)
  <2>1. h \notin ToSet(P)
    BY <1>9, <1>10
  <2>2. IsFiniteSet(ToSet(P))
    BY FinitelyMany
  <2>3. Cardinality(ToSet(Q)) = Cardinality(ToSet(P)) + 1
    BY <1>7, <2>1, <2>2, FS_AddElement
  <2>4. Cardinality(ToSet(P)) = N
    BY <1>5 DEF Unfolded
  <2>5. QED
    BY <1>6, <2>3, <2>4
<1>15. ASSUME NEW j \in DOMAIN Q, NEW k \in DOMAIN Q, Q[k] \in Below(Q[j])
       PROVE  j <= k
  <2>1. CASE j \in DOMAIN P /\ k \in DOMAIN P
    BY <1>5, <1>6, <1>15, <2>1 DEF Unfolded
  <2>2. CASE k = N + 1
    BY <1>6, <2>2
  <2>3. CASE j = N + 1 /\ k \in DOMAIN P
    BY <1>5, <1>6, <1>9, <1>10, <1>15, <2>3
  <2>4. QED
    BY <1>5, <1>6, <2>1, <2>2, <2>3
<1>16. ASSUME NEW j \in DOMAIN Q, NEW k \in DOMAIN Q, NEW l \in DOMAIN Q, j < k, k < l,
              Q[l] \in Below(Q[j])
       PROVE  Q[k] \in Below(Q[j])
  <2>1. j \in DOMAIN P /\ k \in DOMAIN P /\ Q[j] = P[j] /\ Q[k] = P[k]
    BY <1>5, <1>6, <1>16
  <2>2. CASE l \in DOMAIN P
    BY <1>5, <1>6, <1>16, <2>1, <2>2 DEF Unfolded
  <2>3. CASE l = N + 1
    <3>1. h \in Below(P[j])
      BY <1>6, <1>16, <2>1, <2>3
    <3>2. QED
      BY <1>9, <1>16, <2>1, <3>1 DEF Unfolded
  <2>4. QED
    BY <1>5, <1>6, <2>2, <2>3
<1>17. ASSUME NEW l \in DOMAIN B
       PROVE  B[l] \in Below(c) /\ \A n \in ToSet(Q) : n \notin Below(B[l])
  <2>1. CASE l \in DOMAIN K /\ B[l] = K[l]
    <3>1. Below(h) \subseteq Below(c)
      BY <1>9, SubtreeInside
    <3>2. QED
      BY <1>7, <1>8, <1>10, <2>1, <3>1
  <2>2. CASE l > m /\ l - m + 1 \in DOMAIN A /\ l - m + 1 > 1 /\ B[l] = A[l - m + 1]
    <3>1. PICK i \in DOMAIN A : i = l - m + 1 /\ i > 1 /\ B[l] = A[i]
      BY <2>2
    <3>2. QED
      BY <1>7, <1>10, <3>1 DEF Unfolded
  <2>3. QED
    BY <1>4, <2>1, <2>2
<1>18. ASSUME NEW k \in DOMAIN B, NEW l \in DOMAIN B, k # l
       PROVE  Below(B[k]) \cap Below(B[l]) = {}
  <2>1. CASE k \in DOMAIN K /\ B[k] = K[k] /\ l \in DOMAIN K /\ B[l] = K[l]
    BY <1>8, <1>18, <2>1
  <2>2. ASSUME NEW i \in DOMAIN K, NEW j \in DOMAIN A, j > 1
        PROVE  Below(K[i]) \cap Below(A[j]) = {}
    <3>1. Below(K[i]) \subseteq Below(h)
      BY <1>8
    <3>2. Below(A[j]) \cap Below(h) = {}
      BY <1>10, <2>2
    <3>3. QED
      BY <3>1, <3>2
  <2>3. CASE ~(k \in DOMAIN K /\ B[k] = K[k]) /\ ~(l \in DOMAIN K /\ B[l] = K[l])
    <3>1. PICK i \in DOMAIN A : i = k - m + 1 /\ B[k] = A[i]
      BY <1>4, <2>3
    <3>2. PICK j \in DOMAIN A : j = l - m + 1 /\ B[l] = A[j]
      BY <1>4, <2>3
    <3>3. i # j
      BY <1>4, <1>18, <3>1, <3>2
    <3>4. QED
      BY <3>1, <3>2, <3>3 DEF Unfolded
  <2>4. QED
    BY <1>4, <2>1, <2>2, <2>3
<1>19. ASSUME NEW j \in DOMAIN Q, NEW k \in DOMAIN B, NEW l \in DOMAIN B, k < l,
              B[l] \in Below(Q[j])
       PROVE  B[k] \in Below(Q[j])
  <2>1. CASE j = N + 1
    <3>1. l \in DOMAIN K /\ Q[j] = h
      BY <1>6, <1>12, <1>19, <2>1
    <3>2. k \in DOMAIN K /\ B[k] = K[k]
      BY <1>1, <1>3, <1>4, <1>19, <3>1
    <3>3. QED
      BY <1>8, <3>1, <3>2
  <2>2. CASE j \in DOMAIN P
    <3>1. Q[j] = P[j] /\ h \in Below(P[j])
      BY <1>5, <1>6, <1>11, <1>19, <2>2
    <3>2. CASE k \in DOMAIN K /\ B[k] = K[k]
      <4>1. Below(h) \subseteq Below(P[j])
        BY <1>9, <2>2, <3>1, SubtreeInside
      <4>2. QED
        BY <1>8, <3>1, <3>2, <4>1
    <3>3. CASE ~(k \in DOMAIN K /\ B[k] = K[k])
      <4>1. PICK i \in DOMAIN A : i = k - m + 1 /\ k > m /\ B[k] = A[i]
        BY <1>4, <3>3
      <4>2. l \notin DOMAIN K
        BY <1>1, <1>3, <1>4, <1>19, <4>1
      <4>3. PICK g \in DOMAIN A : g = l - m + 1 /\ B[l] = A[g]
        BY <1>4, <4>2
      <4>4. i < g
        BY <1>4, <1>19, <4>1, <4>3
      <4>5. QED
        BY <1>19, <2>2, <3>1, <4>1, <4>3, <4>4 DEF Unfolded
    <3>4. QED
      BY <3>2, <3>3
  <2>3. QED
    BY <1>5, <1>6, <2>1, <2>2
<1>20. ASSUME NEW j \in DOMAIN Q, NEW k \in DOMAIN Q, NEW l \in DOMAIN B, j < k,
              B[l] \in Below(Q[j])
       PROVE  Q[k] \in Below(Q[j])
  <2>1. j \in DOMAIN P /\ Q[j] = P[j]
    BY <1>5, <1>6, <1>20
  <2>2. h \in Below(P[j])
    BY <1>11, <1>20, <2>1
  <2>3. CASE k = N + 1
    BY <1>6, <2>1, <2>2, <2>3
  <2>4. CASE k \in DOMAIN P
    <3>1. Q[k] = P[k]
      BY <1>5, <1>6, <2>4
    <3>2. QED
      BY <1>9, <1>20, <2>1, <2>2, <2>4, <3>1 DEF Unfolded
  <2>5. QED
    BY <1>5, <1>6, <2>3, <2>4
<1>21. Unfolded(Q, B, c)
  BY <1>13, <1>14, <1>15, <1>16, <1>17, <1>18, <1>19, <1>20 DEF Unfolded
<1>22. QED
  BY <1>4, <1>6, <1>21

\* With all children of the head in its place, nothing is missed.
LEMMA NothingLost ==
  ASSUME NEW c \in Node, NEW P \in Seq(Node), NEW A \in Seq(Node), A # << >>,
         NothingMissed(P, A, c), Head(A) \in Node
  PROVE  NothingMissed(Append(P, Head(A)), Kids[Head(A)] \o Tail(A), c)
<1>1. PICK h \in Node : h = Head(A)
  OBVIOUS
<1>2. PICK K \in Seq(Node) : K = Kids[h]
  BY TreeAssumption
<1>3. /\ h = A[1] /\ DOMAIN A = 1 .. Len(A) /\ Len(A) \in Nat
      /\ Len(K) \in Nat /\ DOMAIN K = 1 .. Len(K)
      /\ DOMAIN (K \o Tail(A)) = 1 .. Len(K) + Len(A) - 1
      /\ \A l \in 1 .. Len(K) : (K \o Tail(A))[l] = K[l]
      /\ \A l \in Len(K) + 1 .. Len(K) + Len(A) - 1 : (K \o Tail(A))[l] = A[l - Len(K) + 1]
  BY <1>1, NewAgenda
<1>4. PICK B : B = K \o Tail(A)
  OBVIOUS
<1>5. PICK Q : Q = Append(P, h) /\ ToSet(Q) = ToSet(P) \cup {h}
  <2>1. ToSet(Append(P, h)) = ToSet(P) \cup {h}
    BY OneMore
  <2>2. QED
    BY <2>1
<1>6. ASSUME NEW n \in Below(c)
      PROVE  n \in ToSet(Q) \/ \E l \in DOMAIN B : n \in Below(B[l])
  <2>1. CASE n \in ToSet(Q)
    BY <2>1
  <2>2. CASE n \notin ToSet(Q)
    <3>1. PICK i \in DOMAIN A : n \in Below(A[i])
      BY <1>5, <1>6, <2>2 DEF NothingMissed
    <3>2. CASE i = 1
      <4>1. PICK b \in ToSet(Kids[h]) : n \in Below(b)
        BY <1>3, <1>5, <2>2, <3>1, <3>2, SubtreeOf
      <4>2. PICK l \in DOMAIN K : K[l] = b
        BY <1>2, <4>1 DEF ToSet
      <4>3. l \in DOMAIN B /\ B[l] = K[l]
        BY <1>3, <1>4, <4>2
      <4>4. QED
        BY <4>1, <4>2, <4>3
    <3>3. CASE i # 1
      <4>1. PICK l \in Int : l = i + Len(K) - 1
        BY <1>3
      <4>2. l \in Len(K) + 1 .. Len(K) + Len(A) - 1 /\ l - Len(K) + 1 = i
        <5>1. PICK m \in Nat, a \in Nat : m = Len(K) /\ a = Len(A)
          BY <1>3
        <5>2. i \in 1 .. a /\ l = i + m - 1
          BY <1>3, <4>1, <5>1
        <5>3. l \in m + 1 .. m + a - 1 /\ l - m + 1 = i
          BY <3>3, <5>2
        <5>4. QED
          BY <5>1, <5>3
      <4>3. l \in DOMAIN B /\ B[l] = A[i]
        BY <1>3, <1>4, <4>2
      <4>4. QED
        BY <3>1, <4>3
    <3>4. QED
      BY <3>2, <3>3
  <2>3. QED
    BY <2>1, <2>2
<1>7. NothingMissed(Q, B, c)
  BY <1>6 DEF NothingMissed
<1>8. QED
  BY <1>1, <1>2, <1>4, <1>5, <1>7

-----------------------------------------------------------------------------
(* What is printed.                                                        *)

\* AgendaOK and RecurseExact, in the words of this module.
LEMMA InTheMiddle ==
  ASSUME WalkOK, AgendaOK, RecurseExact, pc = "recurse"
  PROVE  /\ Unfolded(printed, agenda, cur)
         /\ (\A n \in Node : failures[n] = 0) => NothingMissed(printed, agenda, cur)
         /\ \A n \in Node : failures[n] > 0 => n \in ToSet(printed)
<1>1. mode = "recurse" /\ found
  BY DEF WalkOK, Mode
<1>2. Unfolded(printed, agenda, cur)
  BY <1>1 DEF AgendaOK, RecurseExact, Unfolded
<1>3. (\A n \in Node : failures[n] = 0) => NothingMissed(printed, agenda, cur)
  BY DEF AgendaOK, NothingMissed
<1>4. \A n \in Node : failures[n] > 0 => n \in ToSet(printed)
  BY DEF AgendaOK
<1>5. QED
  BY <1>2, <1>3, <1>4

\* recurse_subtree prints the next object.
LEMMA VisitKept ==
  ASSUME TypeOK, ListsOK, WalkOK, AgendaOK, RecurseExact, Visit
  PROVE  AgendaOK' /\ RecurseExact'
<1>1. /\ pc = "recurse" /\ agenda # << >> /\ UNCHANGED <<mode, pc, cur, found>>
      /\ printed' = Append(printed, Head(agenda))
      /\ \/ Listed(Head(agenda)) /\ agenda' = Children(Head(agenda)) \o Tail(agenda)
         \/ ListFails(Head(agenda)) /\ agenda' = Tail(agenda)
      /\ cur \in Node /\ printed \in Seq(Node) /\ agenda \in Seq(Node)
      /\ failures \in [Node -> Nat]
  BY DEF Visit, arguments, walk, TypeOK
<1>2. PICK h \in Node : h = Head(agenda) /\ 1 \in DOMAIN agenda /\ h = agenda[1]
  BY <1>1
<1>3. /\ Unfolded(printed, agenda, cur)
      /\ (\A n \in Node : failures[n] = 0) => NothingMissed(printed, agenda, cur)
      /\ \A n \in Node : failures[n] > 0 => n \in ToSet(printed)
  BY <1>1, InTheMiddle
<1>4. failures[h] = 0
  <2>1. h \in Below(h)
    BY SubtreeInside
  <2>2. h \notin ToSet(printed)
    BY <1>2, <1>3, <2>1 DEF Unfolded
  <2>3. QED
    BY <1>1, <1>3, <2>2
<1>5. Children(h) = Kids[h] /\ Kids[h] \in Seq(Node)
  BY <1>4, ChildrenOf
<1>6. PICK K \in Seq(Node) :
        /\ K = << >> \/ K = Kids[h]
        /\ agenda' = K \o Tail(agenda)
        /\ Listed(h) => K = Kids[h]
  <2>1. CASE Listed(h) /\ agenda' = Children(h) \o Tail(agenda)
    BY <1>5, <2>1
  <2>2. CASE ListFails(h) /\ agenda' = Tail(agenda)
    <3>1. Tail(agenda) \in Seq(Node)
      BY <1>1
    <3>2. << >> \o Tail(agenda) = Tail(agenda) /\ << >> \in Seq(Node)
      BY <3>1, ConcatEmptySeq
    <3>3. ~Listed(h)
      BY <2>2 DEF ListFails, Listed, TypeOK
    <3>4. QED
      BY <2>2, <3>2, <3>3
  <2>3. QED
    BY <1>1, <1>2, <2>1, <2>2
<1>7. PICK Q : Q = printed' /\ Q = Append(printed, h) /\ ToSet(Q) = ToSet(printed) \cup {h}
  <2>1. ToSet(Append(printed, h)) = ToSet(printed) \cup {h}
    BY <1>1, OneMore
  <2>2. QED
    BY <1>1, <1>2, <2>1
<1>8. PICK B : B = agenda' /\ B = K \o Tail(agenda)
  BY <1>6
<1>9. Unfolded(Q, B, cur)
  BY <1>1, <1>2, <1>3, <1>6, <1>7, <1>8, Unfolds
<1>10. /\ \A n \in Node : n # h => failures'[n] = failures[n]
       /\ Listed(h) => failures' = failures
       /\ ListFails(h) => failures'[h] > 0
       /\ Listed(h) \/ ListFails(h)
  BY <1>1, <1>2, ListingStep
<1>11. \A n \in Node : failures'[n] > 0 => n \in ToSet(Q)
  BY <1>3, <1>7, <1>10
<1>12. ASSUME \A n \in Node : failures'[n] = 0
       PROVE  NothingMissed(Q, B, cur)
  <2>1. Listed(h) /\ failures' = failures
    BY <1>10, <1>12
  <2>2. NothingMissed(printed, agenda, cur)
    BY <1>3, <1>12, <2>1
  <2>3. NothingMissed(Append(printed, Head(agenda)), Kids[Head(agenda)] \o Tail(agenda), cur)
    BY <1>1, <1>2, <2>2, NothingLost
  <2>4. QED
    BY <1>2, <1>6, <1>7, <1>8, <2>1, <2>3
<1>13. AgendaOK'
  <2>1. /\ \A k \in DOMAIN B : B[k] \in Below(cur) /\ \A n \in ToSet(Q) : n \notin Below(B[k])
        /\ \A j, k \in DOMAIN B : j # k => Below(B[j]) \cap Below(B[k]) = {}
        /\ \A j \in DOMAIN Q : \A k, l \in DOMAIN B :
             k < l /\ B[l] \in Below(Q[j]) => B[k] \in Below(Q[j])
        /\ \A j, k \in DOMAIN Q : \A l \in DOMAIN B :
             j < k /\ B[l] \in Below(Q[j]) => Q[k] \in Below(Q[j])
    BY <1>9 DEF Unfolded
  <2>2. (\A n \in Node : failures'[n] = 0) =>
          \A n \in Below(cur) : n \in ToSet(Q) \/ \E k \in DOMAIN B : n \in Below(B[k])
    BY <1>12 DEF NothingMissed
  <2>3. QED
    BY <1>1, <1>7, <1>8, <1>11, <2>1, <2>2 DEF AgendaOK
<1>14. RecurseExact'
  <2>1. /\ ToSet(Q) \subseteq Below(cur)
        /\ Cardinality(ToSet(Q)) = Len(Q)
        /\ \A j, k \in DOMAIN Q : Q[k] \in Below(Q[j]) => j <= k
        /\ \A j, k, l \in DOMAIN Q : j < k /\ k < l /\ Q[l] \in Below(Q[j]) => Q[k] \in Below(Q[j])
    BY <1>9 DEF Unfolded
  <2>2. QED
    BY <1>1, <1>7, <2>1 DEF RecurseExact
<1>15. QED
  BY <1>13, <1>14

\* When nothing is left, what is printed is the subtree, unless a populate failed.
LEMMA VisitedKept ==
  ASSUME TypeOK, WalkOK, AgendaOK, RecurseExact, Visited
  PROVE  AgendaOK' /\ RecurseExact'
<1>1. /\ pc = "recurse" /\ agenda = << >> /\ pc' = "teardown"
      /\ UNCHANGED <<mode, failures, cur, found, printed>>
  BY DEF Visited, Finish, arguments, tree, walk
<1>2. /\ Unfolded(printed, agenda, cur)
      /\ (\A n \in Node : failures[n] = 0) => NothingMissed(printed, agenda, cur)
  BY <1>1, InTheMiddle
<1>3. (\A n \in Node : failures[n] = 0) => ToSet(printed) = Below(cur)
  <2>1. DOMAIN agenda = {}
    BY <1>1
  <2>2. ToSet(printed) \subseteq Below(cur)
    BY <1>2 DEF Unfolded
  <2>3. ASSUME \A n \in Node : failures[n] = 0
        PROVE  \A n \in Below(cur) : n \in ToSet(printed)
    BY <1>2, <2>1, <2>3 DEF NothingMissed
  <2>4. QED
    BY <2>2, <2>3
<1>4. AgendaOK'
  BY <1>1 DEF AgendaOK
<1>5. RecurseExact'
  BY <1>1, <1>3 DEF RecurseExact
<1>6. QED
  BY <1>4, <1>5

\* resolve_path starts the recursion with the object alone.
LEMMA ResolvedKept ==
  ASSUME TypeOK, WalkOK, Resolved
  PROVE  AgendaOK' /\ RecurseExact'
<1>1. /\ pc = "resolve" /\ pc' = mode /\ UNCHANGED <<mode, failures, cur, printed>>
      /\ agenda' = IF mode = "recurse" THEN <<cur>> ELSE << >>
      /\ printed = << >> /\ (\A n \in Node : failures[n] = 0) /\ cur \in Node /\ mode \in Mode
  BY DEF Resolved, arguments, tree, WalkOK, TypeOK
<1>2. cur \in Below(cur)
  BY <1>1, SubtreeInside
<1>3. PICK Q : Q = printed' /\ Q = << >> /\ DOMAIN Q = {} /\ ToSet(Q) = {}
  BY <1>1 DEF ToSet
<1>4. AgendaOK'
  <2>1. CASE mode = "recurse"
    <3>1. PICK B : B = agenda' /\ DOMAIN B = {1} /\ B[1] = cur
      BY <1>1, <2>1
    <3>2. QED
      BY <1>1, <1>2, <1>3, <3>1 DEF AgendaOK
  <2>2. CASE mode # "recurse"
    BY <1>1, <2>2 DEF AgendaOK
  <2>3. QED
    BY <2>1, <2>2
<1>5. Cardinality(ToSet(Q)) = Len(Q)
  BY <1>3, FS_EmptySet
<1>6. pc' # "teardown"
  BY <1>1 DEF Mode
<1>7. RecurseExact'
  BY <1>1, <1>3, <1>5, <1>6 DEF RecurseExact
<1>8. QED
  BY <1>4, <1>7

\* print_children prints the whole listing, or nothing.
LEMMA PrintedExactly ==
  ASSUME TypeOK, ListsOK, WalkOK, Report \/ List
  PROVE  ListExact'
<1>1. /\ printed = << >> /\ cur' = cur /\ cur \in Node
      /\ \/ Listed(cur) /\ printed' = Children(cur)
         \/ printed' = printed
  BY DEF Report, List, PrintChildren, walk, WalkOK, Mode, TypeOK
<1>2. CASE Listed(cur) /\ printed' = Children(cur)
  <2>1. failures' = failures
    BY <1>2 DEF Listed
  <2>2. failures[cur] = 0 => Children(cur) = Kids[cur]
    BY <1>1, ChildrenOf
  <2>3. QED
    BY <1>1, <1>2, <2>1, <2>2 DEF ListExact
<1>3. CASE printed' = printed
  BY <1>1, <1>3 DEF ListExact
<1>4. QED
  BY <1>1, <1>2, <1>3

\* Every step keeps what is printed in order.
LEMMA PrintKept ==
  ASSUME TypeOK, ListsOK, WalkOK, AgendaOK, ListingExact, [Next]_vars
  PROVE  AgendaOK' /\ ListingExact'
<1>0. ListExact /\ RecurseExact
  BY DEF ListingExact
<1>1. CASE UNCHANGED vars
  BY <1>0, <1>1 DEF vars, arguments, tree, walk, AgendaOK, ListingExact, ListExact, RecurseExact
<1>2. CASE Creating \/ (Walking /\ ~Resolved)
  <2>1. pc' \in {"create", "resolve", "report", "exit"} /\ found' = found /\ ~found
    <3>1. CASE Creating
      BY <3>1 DEF Creating, CreateTransport, CreateFails, RootCreate, RootFails, walk, WalkOK
    <3>2. CASE Walking /\ ~Resolved
      BY <3>2 DEF Walking, Descend, NoMatch, NoListing, NoCopy, NotFound, WalkOK
    <3>3. QED
      BY <1>2, <3>1, <3>2
  <2>2. QED
    BY <2>1 DEF AgendaOK, ListingExact, ListExact, RecurseExact
<1>3. CASE Resolved
  <2>1. pc' # "teardown"
    BY <1>3 DEF Resolved, TypeOK, Mode
  <2>2. ListExact'
    BY <2>1 DEF ListExact
  <2>3. QED
    BY <1>3, <2>2, ResolvedKept DEF ListingExact
<1>4. CASE Report \/ List
  <2>1. pc' = "teardown" /\ (~found' \/ mode' # "recurse")
    BY <1>4 DEF Report, List, Finish, arguments, walk, WalkOK, Mode
  <2>2. ListExact'
    BY <1>4, PrintedExactly
  <2>3. QED
    BY <2>1, <2>2 DEF AgendaOK, ListingExact, RecurseExact
<1>5. CASE Invoke \/ InvokeFails \/ Show
  <2>1. pc' \in {"teardown", "list"} /\ mode' # "recurse" /\ printed' = << >>
    BY <1>5 DEF Invoke, InvokeFails, Show, Finish, arguments, WalkOK, Mode
  <2>2. QED
    BY <2>1 DEF AgendaOK, ListingExact, ListExact, RecurseExact
<1>6. CASE Visit
  <2>1. pc' = "recurse"
    BY <1>6 DEF Visit
  <2>2. QED
    BY <1>0, <1>6, <2>1, VisitKept DEF ListingExact, ListExact
<1>7. CASE Visited
  <2>1. mode' = "recurse"
    BY <1>7 DEF Visited, arguments, WalkOK, Mode
  <2>2. QED
    BY <1>0, <1>7, <2>1, VisitedKept DEF ListingExact, ListExact
<1>8. CASE Teardown
  <2>1. pc' = "exit" /\ UNCHANGED <<mode, cur, found, printed>>
    BY <1>8 DEF Teardown, arguments, walk
  <2>2. QED
    BY <1>0, <2>1 DEF AgendaOK, ListingExact, ListExact, RecurseExact
<1>9. QED
  BY <1>1, <1>2, <1>3, <1>4, <1>5, <1>6, <1>7, <1>8
     DEF Next, Creating, Walking

-----------------------------------------------------------------------------
(* The theorems.                                                           *)

\* CliInv holds at the start.
LEMMA InitKept == Init => CliInv
<1> SUFFICES ASSUME Init PROVE CliInv
  OBVIOUS
<1>1. TypeOK /\ AliveOK /\ ListsOK /\ WalkOK /\ RoundTrip
  BY InitTypes, InitWalk
<1>2. /\ pc = "create" /\ done = {} /\ failures = [n \in Node |-> 0] /\ found = FALSE
  BY DEF Init
<1>3. AgendaOK /\ LazyListing /\ ListingExact
  BY <1>2 DEF AgendaOK, LazyListing, ListingExact, ListExact, RecurseExact
<1>4. QED
  BY <1>1, <1>3 DEF CliInv

\* CliInv is inductive: it holds at the start and every step keeps it.
THEOREM CliInductive == Spec => []CliInv
<1>1. Init => CliInv
  BY InitKept
<1>2. CliInv /\ [Next]_vars => CliInv'
  <2> SUFFICES ASSUME CliInv, [Next]_vars
               PROVE  CliInv'
    OBVIOUS
  <2>1. TypeOK /\ AliveOK /\ ListsOK /\ WalkOK /\ AgendaOK /\ RoundTrip /\ LazyListing /\ ListingExact
    BY DEF CliInv
  <2>2. TypeOK' /\ ListsOK'
    BY <2>1, TypesKept
  <2>3. AliveOK'
    BY <2>1, AliveKept
  <2>4. WalkOK' /\ RoundTrip'
    BY <2>1, WalkKept
  <2>5. LazyListing'
    BY <2>1, LazyKept
  <2>6. AgendaOK' /\ ListingExact'
    BY <2>1, PrintKept
  <2>7. QED
    BY <2>2, <2>3, <2>4, <2>5, <2>6 DEF CliInv
<1>3. QED
  BY <1>1, <1>2, PTL DEF Spec

\* Every variable of the command keeps its type.
THEOREM TypeCorrect == Spec => []TypeOK
<1>1. CliInv => TypeOK
  BY DEF CliInv
<1>2. QED
  BY <1>1, CliInductive, PTL

\* The path get_path prints for an addressable object leads resolve_path back to
\* it and to nothing else, and a path is not found only if no addressable object
\* has it or a listing on the way failed.  An object whose get_name failed on the
\* way is not addressable.  PathOf has the names get_name returns, no former ones.
THEOREM PathsLeadBack == Spec => []RoundTrip
<1>1. CliInv => RoundTrip
  BY DEF CliInv
<1>2. QED
  BY <1>1, CliInductive, PTL

\* Nothing off the path is asked to list itself, however the command ends.
THEOREM NothingListedInVain == Spec => []LazyListing
<1>1. CliInv => LazyListing
  BY DEF CliInv
<1>2. QED
  BY <1>1, CliInductive, PTL

\* A listing shows what the transports have, each child once and in order;
\* recurse_subtree prints an object, then at once all below it, nothing twice and
\* nothing from elsewhere, and without failures it misses nothing.
THEOREM ListingsExact == Spec => []ListingExact
<1>1. CliInv => ListingExact
  BY DEF CliInv
<1>2. QED
  BY <1>1, CliInductive, PTL

\* At the exit nothing is left but the later transports after root_create failed.
THEOREM NothingLeftAlive == Spec => []TornDown
<1>1. CliInv => TornDown
  BY DEF CliInv, AliveOK
<1>2. QED
  BY <1>1, CliInductive, PTL
=============================================================================
