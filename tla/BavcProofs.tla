----------------------------- MODULE BavcProofs -----------------------------
(***************************************************************************)
(* Theorems about the vector commitment, for every tree, every T_open and  *)
(* every generator: the tree layout; bavc_open alone; bavc_commit,         *)
(* bavc_open and bavc_reconstruct together.  What is proved of bavc_open   *)
(* alone holds between the other two, which do not touch its state; an     *)
(* honest opening is accepted and leads to the committer's hash and seeds; *)
(* and, where calls do not collide, nothing else leads to that hash.       *)
(***************************************************************************)
EXTENDS BavcExchange, FiniteSetTheorems, TLAPS

(***************************************************************************)
(* The tree layout.                                                        *)
(***************************************************************************)
LEMMA MulMonotone ==
  ASSUME NEW a \in Nat, NEW b \in Nat, NEW t \in Nat, a < b
  PROVE  t * a \in Nat /\ t * b \in Nat /\ t * a + t <= t * b
<1> DEFINE c == b - a - 1
<1>1. c \in Nat /\ b = a + 1 + c
  OBVIOUS
<1>2. t * b = t * a + t + t * c
  BY <1>1
<1>3. t * c \in Nat /\ t * a \in Nat /\ t * b \in Nat
  BY <1>1
<1> QED
  BY <1>2, <1>3

LEMMA LeafCount ==
  /\ L \in Nat \ {0}
  /\ Tau * Width \in Nat \ {0}
  /\ Tau1 * Width \in Nat
  /\ L = Tau * Width + Tau1 * Width
<1>1. Tau * Width \in Nat \ {0} /\ Tau1 * Width \in Nat
  BY ParamAssumption
<1>2. L = Tau * Width + Tau1 * Width
  BY ParamAssumption DEF L
<1> QED
  BY <1>1, <1>2

(* The leaves with j < Width come first, vector by vector inside a column. *)
LEMMA ShortPart ==
  ASSUME NEW v \in Vectors, NEW j \in Nat, j < Width
  PROVE  /\ PosInTree(v, j) = L - 1 + Tau * j + v
         /\ Tau * j \in Nat
         /\ Tau * j + Tau <= Tau * Width
<1>1. Tau * j \in Nat /\ Tau * j + Tau <= Tau * Width
  BY ParamAssumption, MulMonotone
<1> QED
  BY <1>1 DEF PosInTree

(* The leaves with j >= Width, which only the long vectors have, follow.   *)
LEMMA LongPart ==
  ASSUME NEW v \in Vectors, NEW j \in Nat, Width <= j, j < MaxNodeIndex(v)
  PROVE  /\ v < Tau1
         /\ j - Width \in Nat /\ j - Width < Width
         /\ PosInTree(v, j) = L - 1 + Tau * Width + Tau1 * (j - Width) + v
         /\ Tau1 * (j - Width) \in Nat
         /\ Tau1 * (j - Width) + Tau1 <= Tau1 * Width
<1>1. v < Tau1 /\ j < 2 * Width
  BY ParamAssumption DEF MaxNodeIndex
<1>2. j - Width \in Nat /\ j - Width < Width /\ j % Width = j - Width
  BY <1>1, ParamAssumption
<1>3. Tau1 * (j - Width) \in Nat /\ Tau1 * (j - Width) + Tau1 <= Tau1 * Width
  BY <1>2, ParamAssumption, MulMonotone
<1>4. PosInTree(v, j) = L - 1 + Tau * Width + Tau1 * (j - Width) + v
  BY <1>2, ParamAssumption DEF PosInTree
<1> QED
  BY <1>1, <1>2, <1>3, <1>4

(* pos_in_tree maps every leaf of every vector to a leaf of the tree.      *)
THEOREM PosInTreeIsLeaf ==
  ASSUME NEW v \in Vectors, NEW j \in Nat, j < MaxNodeIndex(v)
  PROVE  PosInTree(v, j) \in Leaves
<1>0. v \in 0 .. Tau - 1 /\ Tau \in Nat /\ Width \in Nat
  BY ParamAssumption DEF Vectors
<1>1. CASE j < Width
  <2>1. /\ PosInTree(v, j) = L - 1 + Tau * j + v
        /\ Tau * j \in Nat
        /\ Tau * j + Tau <= Tau * Width
    BY <1>1, ShortPart
  <2> QED
    BY <2>1, <1>0, LeafCount DEF Leaves
<1>2. CASE Width <= j
  <2> DEFINE c == Tau1 * (j - Width)
             short == Tau * Width
             long  == Tau1 * Width
  <2>1. /\ v < Tau1
        /\ PosInTree(v, j) = L - 1 + short + c + v
        /\ c \in Nat
        /\ c + Tau1 <= long
    BY <1>2, LongPart
  <2>2. L \in Nat /\ short \in Nat /\ long \in Nat /\ L = short + long /\ Tau1 \in Nat
    BY LeafCount, ParamAssumption
  <2> HIDE DEF c, short, long
  <2> QED
    BY <2>1, <2>2, <1>0 DEF Leaves
<1> QED
  BY <1>1, <1>2, <1>0

(* A product plus a remainder below the factor determines both.            *)
LEMMA DivisionUnique ==
  ASSUME NEW t \in Nat, NEW a \in Nat, NEW b \in Nat,
         NEW x \in 0 .. t - 1, NEW y \in 0 .. t - 1,
         t * a + x = t * b + y
  PROVE  a = b /\ x = y
<1>0. t * a \in Nat /\ t * b \in Nat
  OBVIOUS
<1>1. ~ (a < b)
  BY <1>0, MulMonotone
<1>2. ~ (b < a)
  BY <1>0, MulMonotone
<1>3. a = b
  BY <1>1, <1>2
<1> QED
  BY <1>0, <1>3

(* pos_in_tree gives different leaves of the commitment different nodes.   *)
THEOREM PosInTreeInjective ==
  ASSUME NEW i1 \in Vectors, NEW j1 \in Nat, j1 < MaxNodeIndex(i1),
         NEW i2 \in Vectors, NEW j2 \in Nat, j2 < MaxNodeIndex(i2),
         PosInTree(i1, j1) = PosInTree(i2, j2)
  PROVE  i1 = i2 /\ j1 = j2
<1>0. L \in Nat /\ Tau * Width \in Nat /\ Tau \in Nat /\ Tau1 \in Nat /\ Width \in Nat
  BY LeafCount, ParamAssumption
<1>1. CASE j1 < Width /\ j2 < Width
  <2>1. Tau * j1 + i1 = Tau * j2 + i2
    BY <1>0, <1>1, ShortPart DEF Vectors
  <2> QED
    BY <2>1, <1>0, DivisionUnique DEF Vectors
<1>2. CASE Width <= j1 /\ Width <= j2
  <2>1. Tau1 * (j1 - Width) + i1 = Tau1 * (j2 - Width) + i2
    BY <1>0, <1>2, LongPart DEF Vectors
  <2>2. j1 - Width \in Nat /\ j2 - Width \in Nat /\ i1 \in 0 .. Tau1 - 1 /\ i2 \in 0 .. Tau1 - 1
    BY <1>0, <1>2, LongPart DEF Vectors
  <2>3. j1 - Width = j2 - Width /\ i1 = i2
    BY <2>1, <2>2, <1>0, DivisionUnique
  <2> QED
    BY <2>3, <1>0
<1>3. ASSUME NEW v \in Vectors, NEW j \in Nat, j < Width
      PROVE  PosInTree(v, j) < L - 1 + Tau * Width
  <2>1. /\ PosInTree(v, j) = L - 1 + Tau * j + v
        /\ Tau * j \in Nat
        /\ Tau * j + Tau <= Tau * Width
    BY <1>3, ShortPart
  <2> QED
    BY <2>1, <1>0 DEF Vectors
<1>4. ASSUME NEW v \in Vectors, NEW j \in Nat, Width <= j, j < MaxNodeIndex(v)
      PROVE  ~ (PosInTree(v, j) < L - 1 + Tau * Width)
  <2>1. /\ PosInTree(v, j) = L - 1 + Tau * Width + Tau1 * (j - Width) + v
        /\ Tau1 * (j - Width) \in Nat
    BY <1>4, LongPart
  <2> QED
    BY <2>1, <1>0 DEF Vectors
<1>5. ~ (j1 < Width /\ Width <= j2) /\ ~ (Width <= j1 /\ j2 < Width)
  BY <1>3, <1>4
<1> QED
  BY <1>0, <1>1, <1>2, <1>5

(* Every inner node has two distinct children below it, every other node   *)
(* but the root one parent.                                                *)
LEMMA ParentOfChild ==
  ASSUME NEW p \in Nat
  PROVE  Parent(LeftChild(p)) = p /\ Parent(RightChild(p)) = p
BY DEF Parent, LeftChild, RightChild

LEMMA ParentInner ==
  ASSUME NEW a \in Nodes, a # 0
  PROVE  /\ Parent(a) \in 0 .. L - 2
         /\ Parent(a) < a
         /\ a = LeftChild(Parent(a)) \/ a = RightChild(Parent(a))
BY LeafCount DEF Parent, LeftChild, RightChild, Nodes

LEMMA ChildNode ==
  ASSUME NEW p \in 0 .. L - 2
  PROVE  LeftChild(p) \in Nodes \ {0} /\ RightChild(p) \in Nodes \ {0}
BY LeafCount DEF LeftChild, RightChild, Nodes

LEMMA FiniteNodes ==
  ASSUME NEW S \in SUBSET Nodes
  PROVE  IsFiniteSet(S) /\ Cardinality(S) \in Nat
<1>1. IsFiniteSet(Nodes)
  BY LeafCount, FS_Interval DEF Nodes
<1> QED
  BY <1>1, FS_Subset, FS_CardinalityType

(* Counting one side: a set of inner nodes has as many members as the set  *)
(* of their left (right) children.                                         *)
LEMMA LeftChildrenCount ==
  ASSUME NEW P \in SUBSET (0 .. L - 2), NEW C \in SUBSET Nodes,
         C = {a \in Nodes : \E p \in P : a = LeftChild(p)}
  PROVE  Cardinality(C) = Cardinality(P)
<1> DEFINE f == [p \in P |-> LeftChild(p)]
<1>1. f \in Bijection(P, C)
  BY ChildNode DEF Bijection, Injection, IsInjective, Surjection, LeftChild
<1>2. P \in SUBSET Nodes
  BY LeafCount DEF Nodes
<1> QED
  BY <1>1, <1>2, FiniteNodes, FS_Bijection DEF ExistsBijection

LEMMA RightChildrenCount ==
  ASSUME NEW P \in SUBSET (0 .. L - 2), NEW C \in SUBSET Nodes,
         C = {a \in Nodes : \E p \in P : a = RightChild(p)}
  PROVE  Cardinality(C) = Cardinality(P)
<1> DEFINE f == [p \in P |-> RightChild(p)]
<1>1. f \in Bijection(P, C)
  BY ChildNode DEF Bijection, Injection, IsInjective, Surjection, RightChild
<1>2. P \in SUBSET Nodes
  BY LeafCount DEF Nodes
<1> QED
  BY <1>1, <1>2, FiniteNodes, FS_Bijection DEF ExistsBijection

(***************************************************************************)
(* The size of a cover.  S is a set of marked nodes that holds the root,   *)
(* the parent of every marked node but the root, and a child of every      *)
(* marked inner node.  The inner nodes with exactly one marked child are   *)
(* |S| - 2 |S \cap Leaves| + 1 in number, the figure bavc_open computes    *)
(* from its counter of marks.                                              *)
(***************************************************************************)
THEOREM CoverSize ==
  ASSUME NEW S \in SUBSET Nodes, 0 \in S,
         \A a \in S \ {0} : Parent(a) \in S,
         \A a \in S \ Leaves : LeftChild(a) \in S \/ RightChild(a) \in S,
         NEW One, One = {p \in 0 .. L - 2 : (LeftChild(p) \in S) # (RightChild(p) \in S)}
  PROVE  Cardinality(One) = Cardinality(S) - 2 * Cardinality(S \intersect Leaves) + 1
<1> DEFINE Inner == S \ Leaves
           Lm == {p \in Inner : LeftChild(p) \in S}
           Rm == {p \in Inner : RightChild(p) \in S}
           Lc == {a \in Nodes : \E p \in Lm : a = LeftChild(p)}
           Rc == {a \in Nodes : \E p \in Rm : a = RightChild(p)}
<1>1. Inner \in SUBSET (0 .. L - 2) /\ Lm \in SUBSET (0 .. L - 2) /\ Rm \in SUBSET (0 .. L - 2)
  <2>1. ASSUME NEW a \in S, a \notin Leaves
        PROVE  a \in 0 .. L - 2
    <3>1. a \in 0 .. 2 * L - 2 /\ a \notin L - 1 .. 2 * L - 2 /\ L \in Nat
      BY <2>1, LeafCount DEF Nodes, Leaves
    <3> QED
      BY <3>1
  <2> QED
    BY <2>1
<1>2. /\ Inner \in SUBSET Nodes /\ Lm \in SUBSET Nodes /\ Rm \in SUBSET Nodes
      /\ One \in SUBSET Nodes /\ Lm \intersect Rm \in SUBSET Nodes
      /\ Lc \in SUBSET Nodes /\ Rc \in SUBSET Nodes
  BY <1>1, LeafCount DEF Nodes
<1>3. Cardinality(Lc) = Cardinality(Lm) /\ Cardinality(Rc) = Cardinality(Rm)
  <2>1. Cardinality(Lc) = Cardinality(Lm)
    BY <1>1, <1>2, LeftChildrenCount
  <2>2. Cardinality(Rc) = Cardinality(Rm)
    BY <1>1, <1>2, RightChildrenCount
  <2> QED
    BY <2>1, <2>2
<1>4. S \ {0} = Lc \union Rc
  <2>1. ASSUME NEW a \in S \ {0}
        PROVE  a \in Lc \union Rc
    <3>1. Parent(a) \in 0 .. L - 2 /\ (a = LeftChild(Parent(a)) \/ a = RightChild(Parent(a)))
      BY ParentInner
    <3>2. Parent(a) \in Inner
      BY <3>1, LeafCount DEF Leaves
    <3> QED
      BY <3>1, <3>2
  <2>2. Lc \subseteq S \ {0} /\ Rc \subseteq S \ {0}
    BY <1>1, ChildNode
  <2> QED
    BY <2>1, <2>2
<1>5. Lc \intersect Rc = {}
  BY <1>1 DEF LeftChild, RightChild
<1>6. Lm \union Rm = Inner
  OBVIOUS
<1>7. One = Inner \ (Lm \intersect Rm)
  <2>1. ASSUME NEW p \in One
        PROVE  p \in Inner
    <3>1. p \in 0 .. L - 2 /\ (LeftChild(p) \in S \/ RightChild(p) \in S)
      OBVIOUS
    <3>2. p \in S
      BY <3>1, ParentOfChild, ChildNode
    <3> QED
      BY <3>1, <3>2, LeafCount DEF Leaves
  <2> QED
    BY <2>1, <1>1, <1>6
<1>8. Cardinality(S) - 1 = Cardinality(Lm) + Cardinality(Rm)
  <2>1. Cardinality(S \ {0}) = Cardinality(S) - 1
    BY FiniteNodes, FS_RemoveElement
  <2>2. IsFiniteSet(Lc) /\ IsFiniteSet(Rc) /\ Cardinality(Lc) \in Nat /\ Cardinality(Rc) \in Nat
    BY <1>2, FiniteNodes
  <2>3. Cardinality(Lc \union Rc) = Cardinality(Lc) + Cardinality(Rc) - Cardinality(Lc \intersect Rc)
    BY <2>2, FS_Union
  <2>4. Cardinality(Lc \intersect Rc) = 0
    BY <1>5, FS_EmptySet
  <2>5. Cardinality(S \ {0}) = Cardinality(Lc \union Rc)
    BY <1>4
  <2> HIDE DEF Lc, Rc, Lm, Rm, Inner
  <2> QED
    BY <2>1, <2>2, <2>3, <2>4, <2>5, <1>3
<1>9. Cardinality(Inner) = Cardinality(Lm) + Cardinality(Rm) - Cardinality(Lm \intersect Rm)
  <2>1. IsFiniteSet(Lm) /\ IsFiniteSet(Rm)
    BY <1>2, FiniteNodes
  <2> QED
    BY <2>1, <1>6, FS_Union
<1>10. Cardinality(One) = Cardinality(Inner) - Cardinality(Lm \intersect Rm)
  <2>1. Inner \intersect (Lm \intersect Rm) = Lm \intersect Rm
    OBVIOUS
  <2>2. IsFiniteSet(Inner)
    BY <1>2, FiniteNodes
  <2> QED
    BY <2>1, <2>2, <1>7, FS_Difference
<1>11. Cardinality(Inner) = Cardinality(S) - Cardinality(S \intersect Leaves)
  BY FiniteNodes, FS_Difference
<1>12. /\ Cardinality(Inner) \in Nat /\ Cardinality(Lm) \in Nat /\ Cardinality(Rm) \in Nat
       /\ Cardinality(Lm \intersect Rm) \in Nat /\ Cardinality(S) \in Nat
       /\ Cardinality(S \intersect Leaves) \in Nat
  <2>1. S \intersect Leaves \in SUBSET Nodes
    OBVIOUS
  <2> QED
    BY <1>2, <2>1, FiniteNodes
<1> QED
  BY <1>8, <1>9, <1>10, <1>11, <1>12

-----------------------------------------------------------------------------
(***************************************************************************)
(* Paths to the root.  Facts that need induction are proved by a least     *)
(* counterexample.                                                         *)
(***************************************************************************)
LEMMA LeastNat ==
  ASSUME NEW T \in SUBSET Nat, T # {}
  PROVE  \E x \in T : \A y \in T : x <= y
<1> DEFINE R == OpToRel(<, Nat)
<1>1. IsWellFoundedOn(R, Nat)
  BY NatLessThanWellFounded
<1>2. \A x, y \in Nat : y < x => <<y, x>> \in R
  BY DEF OpToRel
<1> HIDE DEF R
<1>3. PICK x \in T : \A y \in T : ~ (<<y, x>> \in R)
  BY <1>1, WFMin
<1>4. ASSUME NEW y \in T PROVE x <= y
  <2>1. x \in Nat /\ y \in Nat /\ ~ (y < x)
    BY <1>2, <1>3
  <2> QED
    BY <2>1
<1> QED
  BY <1>4

(* A set of nodes that holds, with every node, its parent.                 *)
ParentClosed(X) == \A x \in X \ {0} : Parent(x) \in X

(* The recursive definition has the value its equation gives it: the least *)
(* set that holds the node and is closed under parents satisfies it.       *)
LEMMA PathToRootEquation ==
  /\ PathToRoot \in [Nodes -> SUBSET Nodes]
  /\ \A a \in Nodes : PathToRoot[a] = IF a = 0 THEN {0} ELSE {a} \union PathToRoot[Parent(a)]
<1> DEFINE Up(a) == {b \in Nodes : \A X \in SUBSET Nodes : a \in X /\ ParentClosed(X) => b \in X}
           g == [a \in Nodes |-> Up(a)]
           F(f) == [a \in Nodes |-> IF a = 0 THEN {0} ELSE {a} \union f[Parent(a)]]
<1>0. 0 \in Nodes
  BY LeafCount DEF Nodes
<1>1. Up(0) = {0}
  <2>1. {0} \in SUBSET Nodes /\ ParentClosed({0})
    BY <1>0 DEF ParentClosed
  <2> QED
    BY <1>0, <2>1
<1>2. ASSUME NEW a \in Nodes, a # 0
      PROVE  Parent(a) \in Nodes /\ Up(a) = {a} \union Up(Parent(a))
  <2> DEFINE p == Parent(a)
  <2>1. p \in Nodes
    BY <1>2, ParentInner, LeafCount DEF Nodes
  <2> HIDE DEF p
  <2>2. Up(a) \subseteq {a} \union Up(p)
    <3>1. p \in Up(p) /\ Up(p) \subseteq Nodes
      BY <2>1
    <3>2. ParentClosed(Up(p))
      <4> SUFFICES ASSUME NEW x \in Up(p), x # 0 PROVE Parent(x) \in Up(p)
        BY DEF ParentClosed
      <4>1. Parent(x) \in Nodes
        BY ParentInner, LeafCount DEF Nodes
      <4> QED
        BY <4>1 DEF ParentClosed
    <3> DEFINE U == Up(p)
    <3> HIDE DEF U
    <3>3. {a} \union U \in SUBSET Nodes /\ ParentClosed({a} \union U)
      BY <3>1, <3>2 DEF ParentClosed, p, U
    <3> QED
      BY <3>3 DEF U
  <2>3. Up(p) \subseteq Up(a)
    BY <1>2 DEF ParentClosed, p
  <2>4. a \in Up(a)
    OBVIOUS
  <2> QED
    BY <2>1, <2>2, <2>3, <2>4 DEF p
<1>3. g = F(g)
  <2>1. ASSUME NEW a \in Nodes
        PROVE  Up(a) = IF a = 0 THEN {0} ELSE {a} \union g[Parent(a)]
    <3> HIDE DEF Up
    <3> QED
      BY <1>1, <1>2
  <2> HIDE DEF Up
  <2> QED
    BY <2>1
<1>4. PathToRoot = CHOOSE f : f = F(f)
  BY DEF PathToRoot
<1> HIDE DEF g
<1>5. PathToRoot = F(PathToRoot)
  <2> HIDE DEF F
  <2> QED
    BY <1>3, <1>4
<1>6. \A a \in Nodes : PathToRoot[a] = IF a = 0 THEN {0} ELSE {a} \union PathToRoot[Parent(a)]
  BY <1>5
<1>7. \A a \in Nodes : PathToRoot[a] \in SUBSET Nodes
  <2> DEFINE T == {a \in Nodes : PathToRoot[a] \notin SUBSET Nodes}
  <2> SUFFICES ASSUME T # {} PROVE FALSE
    OBVIOUS
  <2>1. T \in SUBSET Nat
    BY DEF Nodes
  <2>2. PICK a \in T : \A b \in T : a <= b
    <3> HIDE DEF T
    <3> QED
      BY <2>1, LeastNat
  <2>3. a # 0
    BY <1>0, <1>6
  <2>4. Parent(a) \in Nodes /\ Parent(a) < a /\ Parent(a) \in Nat /\ a \in Nat
    BY <2>3, ParentInner, LeafCount DEF Nodes
  <2>5. Parent(a) \notin T
    BY <2>2, <2>4
  <2> QED
    BY <1>6, <2>3, <2>4, <2>5
<1> QED
  BY <1>5, <1>6, <1>7

(* The path of a node is the least set that holds it and is closed under   *)
(* parents.                                                                *)
LEMMA PathIsLeast ==
  ASSUME NEW a \in Nodes
  PROVE  /\ PathToRoot[a] \in SUBSET Nodes
         /\ a \in PathToRoot[a]
         /\ ParentClosed(PathToRoot[a])
         /\ \A X \in SUBSET Nodes : a \in X /\ ParentClosed(X) => PathToRoot[a] \subseteq X
<1> DEFINE Good(b) == /\ ParentClosed(PathToRoot[b])
                      /\ \A X \in SUBSET Nodes :
                           b \in X /\ ParentClosed(X) => PathToRoot[b] \subseteq X
<1>1. \A b \in Nodes : b \in PathToRoot[b] /\ PathToRoot[b] \in SUBSET Nodes
  BY PathToRootEquation
<1>2. \A b \in Nodes : Good(b)
  <2> DEFINE T == {b \in Nodes : ~ Good(b)}
  <2> SUFFICES ASSUME T # {} PROVE FALSE
    OBVIOUS
  <2>1. T \in SUBSET Nat
    BY DEF Nodes
  <2>2. PICK b \in T : \A c \in T : b <= c
    <3> HIDE DEF T
    <3> QED
      BY <2>1, LeastNat
  <2>3. b # 0
    <3>1. PathToRoot[0] = {0}
      BY LeafCount, PathToRootEquation DEF Nodes
    <3>2. Good(0)
      BY <3>1 DEF ParentClosed
    <3> QED
      BY <3>2
  <2>4. Parent(b) \in Nodes /\ Parent(b) < b /\ Parent(b) \in Nat /\ b \in Nat
    BY <2>3, ParentInner, LeafCount DEF Nodes
  <2>5. Good(Parent(b))
    <3> HIDE DEF Good
    <3> QED
      BY <2>2, <2>4
  <2>6. PathToRoot[b] = {b} \union PathToRoot[Parent(b)]
    BY <2>3, PathToRootEquation
  <2>7. ParentClosed(PathToRoot[b])
    BY <1>1, <2>4, <2>5, <2>6 DEF ParentClosed
  <2>8. \A X \in SUBSET Nodes : b \in X /\ ParentClosed(X) => PathToRoot[b] \subseteq X
    <3> SUFFICES ASSUME NEW X \in SUBSET Nodes, b \in X, ParentClosed(X)
                 PROVE  PathToRoot[b] \subseteq X
      OBVIOUS
    <3>1. Parent(b) \in X
      BY <2>3 DEF ParentClosed
    <3> QED
      BY <2>5, <2>6, <3>1
  <2> QED
    BY <2>7, <2>8
<1> QED
  BY <1>1, <1>2

(***************************************************************************)
(* The nodes just below a set of marked nodes that hangs from the root.    *)
(***************************************************************************)
Below(S) == {c \in Nodes \ S : c # 0 /\ Parent(c) \in S}

(* They cut the path of every unmarked node exactly once, and no path of a *)
(* marked one.                                                             *)
LEMMA PathsMeetBelow ==
  ASSUME NEW S \in SUBSET Nodes, 0 \in S, ParentClosed(S), NEW a \in Nodes
  PROVE  /\ a \in S => PathToRoot[a] \intersect Below(S) = {}
         /\ a \notin S => \E c \in Nodes : PathToRoot[a] \intersect Below(S) = {c}
<1>1. a \in S => PathToRoot[a] \intersect Below(S) = {}
  BY PathIsLeast DEF Below
<1>2. a \notin S => \E c \in Nodes : PathToRoot[a] \intersect Below(S) = {c}
  <2> DEFINE T == {b \in Nodes \ S : ~ \E c \in Nodes : PathToRoot[b] \intersect Below(S) = {c}}
  <2> SUFFICES ASSUME T # {} PROVE FALSE
    OBVIOUS
  <2>1. T \in SUBSET Nat
    BY DEF Nodes
  <2>2. PICK b \in T : \A c \in T : b <= c
    <3> HIDE DEF T
    <3> QED
      BY <2>1, LeastNat
  <2>3. b # 0 /\ b \in Nodes \ S
    OBVIOUS
  <2> DEFINE p == Parent(b)
  <2>4. p \in Nodes /\ p < b /\ p \in Nat /\ b \in Nat
    BY <2>3, ParentInner, LeafCount DEF Nodes
  <2>5. PathToRoot[b] = {b} \union PathToRoot[p]
    BY <2>3, PathToRootEquation
  <2>6. CASE p \in S
    <3>1. PathToRoot[p] \intersect Below(S) = {}
      BY <2>4, <2>6, PathIsLeast DEF Below
    <3>2. b \in Below(S)
      BY <2>3, <2>6 DEF Below
    <3>3. PathToRoot[b] \intersect Below(S) = {b}
      BY <2>5, <3>1, <3>2
    <3> QED
      BY <2>3, <3>3
  <2>7. CASE p \notin S
    <3>1. p \notin T
      BY <2>2, <2>4
    <3>2. \E c \in Nodes : PathToRoot[p] \intersect Below(S) = {c}
      BY <2>4, <2>7, <3>1
    <3>3. b \notin Below(S)
      BY <2>7 DEF Below
    <3>4. PathToRoot[b] \intersect Below(S) = PathToRoot[p] \intersect Below(S)
      BY <2>5, <3>3
    <3> QED
      BY <3>2, <3>4
  <2> QED
    BY <2>6, <2>7
<1> QED
  BY <1>1, <1>2

(* Marks that lead down to leaves are the paths of the marked leaves.      *)
LEMMA MarksArePaths ==
  ASSUME NEW S \in SUBSET Nodes, ParentClosed(S),
         \A a \in S \ Leaves : LeftChild(a) \in S \/ RightChild(a) \in S
  PROVE  S = UNION {PathToRoot[a] : a \in S \intersect Leaves}
<1> DEFINE U == UNION {PathToRoot[a] : a \in S \intersect Leaves}
<1>1. U \subseteq S
  BY PathIsLeast
<1>2. S \subseteq U
  <2> DEFINE T == {m \in Nat : 2 * L - 2 - m \in S \ U}
  <2> SUFFICES ASSUME NEW b \in S, b \notin U PROVE FALSE
    OBVIOUS
  <2>1. T \in SUBSET Nat
    OBVIOUS
  <2>2. 2 * L - 2 - b \in T
    <3>1. b \in Nat /\ 2 * L - 2 - b \in Nat /\ 2 * L - 2 - (2 * L - 2 - b) = b
      BY LeafCount DEF Nodes
    <3> HIDE DEF U
    <3> QED
      BY <3>1
  <2>3. PICK m \in T : \A l \in T : m <= l
    <3> HIDE DEF T
    <3> QED
      BY <2>1, <2>2, LeastNat
  <2> DEFINE a == 2 * L - 2 - m
  <2>4. a \in S /\ a \notin U /\ a \in Nodes /\ m \in Nat
    OBVIOUS
  <2> HIDE DEF U
  <2>5. a \notin Leaves
    BY <2>4, PathIsLeast DEF U
  <2>6. PICK c \in {LeftChild(a), RightChild(a)} : c \in S
    BY <2>4, <2>5
  <2>7. c > a /\ c \in Nat /\ c <= 2 * L - 2 /\ Parent(c) = a /\ c # 0
    <3>1. a \in Nat /\ L \in Nat
      BY <2>4, LeafCount DEF Nodes
    <3>2. c \in 0 .. 2 * L - 2
      BY <2>6 DEF Nodes
    <3>3. c > a
      BY <2>6, <3>1 DEF LeftChild, RightChild
    <3>4. Parent(c) = a
      BY <2>6, <3>1, ParentOfChild
    <3> HIDE DEF a
    <3> QED
      BY <3>1, <3>2, <3>3, <3>4
  <2>8. c \in U
    <3> DEFINE l == 2 * L - 2 - c
    <3>1. l \in Nat /\ l < m /\ 2 * L - 2 - l = c
      BY <2>4, <2>7, LeafCount
    <3>2. l \notin T
      <4> HIDE DEF l, a, T
      <4> QED
        BY <2>3, <2>4, <3>1
    <3> HIDE DEF l
    <3> QED
      BY <2>6, <3>1, <3>2
  <2>9. PICK x \in S \intersect Leaves : c \in PathToRoot[x]
    BY <2>8 DEF U
  <2>10. a \in PathToRoot[x]
    BY <2>7, <2>9, PathIsLeast DEF ParentClosed
  <2> QED
    BY <2>4, <2>9, <2>10 DEF U
<1> QED
  BY <1>1, <1>2

(* One node hangs below every marked node with exactly one marked child.   *)
LEMMA BelowCount ==
  ASSUME NEW S \in SUBSET Nodes, ParentClosed(S),
         \A a \in S \ Leaves : LeftChild(a) \in S \/ RightChild(a) \in S,
         NEW One, One = {p \in 0 .. L - 2 : (LeftChild(p) \in S) # (RightChild(p) \in S)}
  PROVE  Cardinality(Below(S)) = Cardinality(One) /\ IsFiniteSet(Below(S))
<1> DEFINE f == [c \in Below(S) |-> Parent(c)]
<1>1. \A c \in Below(S) : /\ c \in Nodes \ S /\ c # 0 /\ Parent(c) \in S /\ Parent(c) \in 0 .. L - 2
                          /\ c = LeftChild(Parent(c)) \/ c = RightChild(Parent(c))
  BY ParentInner DEF Below
<1>2. \A c \in Below(S) : Parent(c) \notin Leaves
  BY <1>1, LeafCount DEF Leaves
<1>3. \A c \in Below(S) : Parent(c) \in One
  BY <1>1, <1>2
<1>4. \A b, c \in Below(S) : Parent(b) = Parent(c) => b = c
  BY <1>1, <1>3
<1>5. \A p \in One : \E c \in Below(S) : Parent(c) = p
  <2> SUFFICES ASSUME NEW p \in One PROVE \E c \in Below(S) : Parent(c) = p
    OBVIOUS
  <2>1. /\ p \in 0 .. L - 2 /\ p \in Nat
        /\ LeftChild(p) \in Nodes \ {0} /\ RightChild(p) \in Nodes \ {0}
        /\ Parent(LeftChild(p)) = p /\ Parent(RightChild(p)) = p
    BY ChildNode, ParentOfChild
  <2>2. p \in S
    BY <2>1 DEF ParentClosed
  <2>3. PICK c \in {LeftChild(p), RightChild(p)} : c \notin S
    OBVIOUS
  <2>4. c \in Nodes /\ c # 0 /\ Parent(c) = p
    BY <2>1, <2>3
  <2> QED
    BY <2>2, <2>3, <2>4 DEF Below
<1>6. f \in Bijection(Below(S), One)
  BY <1>3, <1>4, <1>5 DEF Bijection, Injection, IsInjective, Surjection
<1>7. IsFiniteSet(Below(S))
  <2>1. Below(S) \in SUBSET Nodes
    BY DEF Below
  <2> QED
    BY <2>1, FiniteNodes
<1> QED
  BY <1>6, <1>7, FS_Bijection DEF ExistsBijection

(* Multiplying keeps the order.                                            *)
LEMMA ProductOrder ==
  ASSUME NEW a \in Nat, NEW b \in Nat, NEW t \in Nat, a <= b
  PROVE  t * a \in Nat /\ t * b \in Nat /\ t * a <= t * b
<1>1. CASE a = b
  BY <1>1
<1>2. CASE a < b
  BY <1>2, MulMonotone
<1> QED
  BY <1>1, <1>2

-----------------------------------------------------------------------------
(* Quotient and remainder exist.                                           *)
LEMMA DivisionExists ==
  ASSUME NEW t \in Nat \ {0}, NEW r \in Nat
  PROVE  \E q \in Nat : \E m \in 0 .. t - 1 : r = t * q + m
<1> DEFINE Divided(x) == \E q \in Nat : \E m \in 0 .. t - 1 : x = t * q + m
           Bad == {x \in Nat : ~ Divided(x)}
<1> HIDE DEF Divided
<1>1. Bad = {}
  <2> SUFFICES ASSUME Bad # {} PROVE FALSE
    OBVIOUS
  <2>1. PICK x \in Bad : \A y \in Bad : x <= y
    BY LeastNat
  <2>2. CASE x < t
    <3>1. x = t * 0 + x /\ x \in 0 .. t - 1
      BY <2>2
    <3> QED
      BY <3>1 DEF Divided
  <2>3. CASE x >= t
    <3>1. x - t \in Nat /\ x - t < x
      BY <2>3
    <3>2. Divided(x - t)
      BY <2>1, <3>1
    <3>3. PICK q \in Nat, m \in 0 .. t - 1 : x - t = t * q + m
      BY <3>2 DEF Divided
    <3>4. x = t * (q + 1) + m
      BY <3>3
    <3>5. Divided(x)
      <4> DEFINE p == q + 1
      <4>1. p \in Nat /\ x = t * p + m
        BY <3>4
      <4> HIDE DEF p
      <4> QED
        BY <4>1 DEF Divided
    <3> QED
      BY <3>5
  <2> QED
    BY <2>2, <2>3
<1> QED
  BY <1>1 DEF Divided

(* Every leaf of the tree belongs to a vector.                             *)
LEMMA PosInTreeOnto ==
  ASSUME NEW a \in Leaves
  PROVE  \E v \in Vectors : \E l \in 0 .. MaxNodeIndex(v) - 1 : a = PosInTree(v, l)
<1> DEFINE r == a - (L - 1)
<1>1. /\ L \in Nat \ {0} /\ Tau \in Nat \ {0} /\ Tau1 \in Nat /\ Width \in Nat \ {0} /\ Tau1 < Tau
      /\ Tau * Width \in Nat /\ Tau1 * Width \in Nat /\ L = Tau * Width + Tau1 * Width
  BY LeafCount, ParamAssumption
<1>2. r \in Nat /\ r < L /\ a = L - 1 + r
  BY <1>1 DEF Leaves
<1> HIDE DEF r
<1>3. CASE r < Tau * Width
  <2>1. PICK q \in Nat, m \in 0 .. Tau - 1 : r = Tau * q + m
    BY <1>1, <1>2, DivisionExists
  <2>2. q < Width
    <3> SUFFICES ASSUME q >= Width PROVE FALSE
      BY <1>1
    <3>1. q = Width \/ Width < q
      BY <1>1
    <3>2. Tau * Width <= Tau * q /\ Tau * q \in Nat
      BY <1>1, <3>1, MulMonotone
    <3> QED
      BY <1>1, <1>3, <2>1, <3>2
  <2>3. m \in Vectors /\ q \in 0 .. MaxNodeIndex(m) - 1
    BY <1>1, <2>2 DEF Vectors, MaxNodeIndex
  <2>4. PosInTree(m, q) = L - 1 + Tau * q + m
    BY <2>2, <2>3, ShortPart
  <2> QED
    BY <1>1, <1>2, <2>1, <2>3, <2>4
<1>4. CASE r >= Tau * Width
  <2> DEFINE r1 == r - Tau * Width
  <2>1. r1 \in Nat /\ r1 < Tau1 * Width /\ r = Tau * Width + r1
    BY <1>1, <1>2, <1>4
  <2> HIDE DEF r1
  <2>2. Tau1 \in Nat \ {0}
    <3>1. Tau1 = 0 => Tau1 * Width = 0
      BY <1>1
    <3> QED
      BY <1>1, <2>1, <3>1
  <2>3. PICK q \in Nat, m \in 0 .. Tau1 - 1 : r1 = Tau1 * q + m
    BY <2>1, <2>2, DivisionExists
  <2>4. q < Width
    <3> SUFFICES ASSUME q >= Width PROVE FALSE
      BY <1>1
    <3>1. q = Width \/ Width < q
      BY <1>1
    <3>2. Tau1 * Width <= Tau1 * q /\ Tau1 * q \in Nat
      BY <1>1, <3>1, MulMonotone
    <3> QED
      BY <1>1, <2>1, <2>3, <3>2
  <2>5. m \in Vectors /\ q + Width \in 0 .. MaxNodeIndex(m) - 1 /\ q + Width - Width = q
    BY <1>1, <2>2, <2>4 DEF Vectors, MaxNodeIndex
  <2>6. PICK j \in 0 .. MaxNodeIndex(m) - 1 : j = q + Width
    BY <2>5
  <2>7. PosInTree(m, j) = L - 1 + Tau * Width + Tau1 * (j - Width) + m
    <3>1. j \in Nat /\ Width <= j /\ j < MaxNodeIndex(m)
      BY <1>1, <2>2, <2>4, <2>6 DEF MaxNodeIndex
    <3> QED
      BY <2>5, <3>1, LongPart
  <2>8. j - Width = q
    BY <1>1, <2>6
  <2>9. PosInTree(m, j) = L - 1 + Tau * Width + Tau1 * q + m
    BY <2>7, <2>8
  <2>10. Tau1 * q \in Nat
    BY <2>2
  <2> QED
    BY <1>1, <1>2, <2>1, <2>3, <2>5, <2>9, <2>10
<1> QED
  BY <1>1, <1>2, <1>3, <1>4

-----------------------------------------------------------------------------
(* Every path ends at the root.                                            *)
LEMMA RootOnPath ==
  ASSUME NEW a \in Nodes
  PROVE  0 \in PathToRoot[a]
<1> DEFINE T == PathToRoot[a]
<1>1. T \in SUBSET Nodes /\ a \in T /\ ParentClosed(T)
  BY PathIsLeast
<1> HIDE DEF T
<1>2. T \in SUBSET Nat /\ T # {}
  BY <1>1 DEF Nodes
<1>3. PICK x \in T : \A y \in T : x <= y
  BY <1>2, LeastNat
<1>4. x = 0
  <2> SUFFICES ASSUME x # 0 PROVE FALSE
    OBVIOUS
  <2>1. Parent(x) \in T /\ Parent(x) < x /\ Parent(x) \in Nat /\ x \in Nat
    BY <1>1, <1>2, ParentInner DEF ParentClosed
  <2> QED
    BY <1>3, <2>1
<1> QED
  BY <1>3, <1>4 DEF T

(* Below a leaf the path has a child of each of its inner nodes, and it    *)
(* holds no other leaf.                                                    *)
LEMMA PathOfLeaf ==
  ASSUME NEW h \in Leaves, h \in Nodes
  PROVE  /\ PathToRoot[h] \intersect Leaves = {h}
         /\ \A p \in PathToRoot[h] \ Leaves :
              LeftChild(p) \in PathToRoot[h] \/ RightChild(p) \in PathToRoot[h]
<1> DEFINE T == PathToRoot[h]
<1>1. T \in SUBSET Nodes /\ h \in T /\ ParentClosed(T)
  BY PathIsLeast
<1>2. T \subseteq {h} \union (Nodes \ Leaves)
  <2> DEFINE X == {h} \union (Nodes \ Leaves)
  <2>1. \A x \in Nodes \ {0} : Parent(x) \in Nodes \ Leaves
    BY ParentInner, LeafCount DEF Nodes, Leaves
  <2>2. X \in SUBSET Nodes /\ h \in X /\ ParentClosed(X)
    BY <2>1 DEF ParentClosed
  <2> HIDE DEF X
  <2>3. T \subseteq X
    BY <2>2, PathIsLeast
  <2> QED
    BY <2>3 DEF X
<1>3. ASSUME NEW p \in T \ Leaves, LeftChild(p) \notin T, RightChild(p) \notin T
      PROVE  FALSE
  <2> DEFINE X == T \ {p}
  <2>1. \A x \in T \ {0} : Parent(x) # p
    BY <1>1, <1>3, ParentInner
  <2>2. X \in SUBSET Nodes /\ h \in X /\ ParentClosed(X)
    BY <1>1, <1>3, <2>1 DEF ParentClosed
  <2> HIDE DEF X
  <2>3. T \subseteq X
    BY <2>2, PathIsLeast
  <2> QED
    BY <2>3 DEF X
<1> HIDE DEF T
<1>4. T \intersect Leaves = {h}
  BY <1>1, <1>2
<1> QED
  BY <1>3, <1>4 DEF T

(* What an opening keeps secret, as bavc_reconstruct marks it.             *)
LEMMA PuncturedFacts ==
  ASSUME NEW d \in Deltas
  PROVE  /\ Punctured(d) \in SUBSET Nodes
         /\ 0 \in Punctured(d)
         /\ ParentClosed(Punctured(d))
         /\ HiddenLeaves(d) \subseteq Leaves
         /\ Punctured(d) \intersect Leaves = HiddenLeaves(d)
         /\ \A p \in 0 .. L - 2 :
              p \in Punctured(d) <=> LeftChild(p) \in Punctured(d) \/ RightChild(p) \in Punctured(d)
<1> DEFINE P == Punctured(d)
           H == HiddenLeaves(d)
<1>0. Leaves \subseteq Nodes /\ \A p \in 0 .. L - 2 : p \notin Leaves /\ p \in Nodes /\ p \in Nat
  BY LeafCount DEF Leaves, Nodes
<1>1. H \subseteq Leaves /\ H # {}
  <2>1. \A v \in Vectors : PosInTree(v, d[v]) \in Leaves
    BY PosInTreeIsLeaf, ParamAssumption DEF Deltas
  <2>2. 0 \in Vectors
    BY ParamAssumption DEF Vectors
  <2> QED
    BY <2>1, <2>2 DEF HiddenLeaves
<1>2. P = UNION {PathToRoot[a] : a \in H}
  BY DEF Punctured
<1> HIDE DEF P, H
<1>3. P \in SUBSET Nodes /\ ParentClosed(P)
  <2>1. \A a \in H : PathToRoot[a] \in SUBSET Nodes /\ ParentClosed(PathToRoot[a])
    BY <1>0, <1>1, PathIsLeast
  <2> QED
    BY <1>2, <2>1 DEF ParentClosed
<1>4. 0 \in P
  BY <1>0, <1>1, <1>2, RootOnPath
<1>5. P \intersect Leaves = H
  <2>1. \A a \in H : PathToRoot[a] \intersect Leaves = {a}
    BY <1>0, <1>1, PathOfLeaf
  <2> QED
    BY <1>1, <1>2, <2>1
<1>6. ASSUME NEW p \in 0 .. L - 2
      PROVE  p \in P <=> LeftChild(p) \in P \/ RightChild(p) \in P
  <2>1. p \in P => LeftChild(p) \in P \/ RightChild(p) \in P
    <3> SUFFICES ASSUME p \in P PROVE LeftChild(p) \in P \/ RightChild(p) \in P
      OBVIOUS
    <3>1. PICK a \in H : p \in PathToRoot[a]
      BY <1>2
    <3>2. LeftChild(p) \in PathToRoot[a] \/ RightChild(p) \in PathToRoot[a]
      BY <1>0, <1>1, <3>1, PathOfLeaf
    <3> QED
      BY <1>2, <3>2
  <2>2. LeftChild(p) \in P \/ RightChild(p) \in P => p \in P
    BY <1>0, <1>3, ChildNode, ParentOfChild DEF ParentClosed
  <2> QED
    BY <2>1, <2>2
<1> QED
  BY <1>1, <1>3, <1>4, <1>5, <1>6 DEF P, H

-----------------------------------------------------------------------------

(***************************************************************************)
(* bavc_open: the inductive invariant.                                     *)
(***************************************************************************)

(* The number of hidden leaves marked so far.                              *)
Placed == CASE pc = "mark"  -> i
            [] pc = "climb" -> i + 1
            [] OTHER        -> Tau

Writing == pc \in {"emit", "done"}

(* The inner nodes above n that have revealed, or will reveal, a child.    *)
Ones(m) == {p \in m + 1 .. L - 2 : OneChild(p)}

Control ==
  /\ pc = "climb" => i < Tau
  /\ pc = "climb" => alpha \in s
  /\ pc = "done" => n = -1
  /\ ~ Writing => n = L - 2 /\ nodes = <<>>
  /\ pc # "done" => pad = 0

(* The marked leaves are the hidden leaves of the vectors done so far.     *)
MarkedLeaves ==
  /\ \A v \in Vectors : v < Placed => PosInTree(v, i_delta[v]) \in s
  /\ \A a \in s : a \in Leaves => \E v \in Vectors : v < Placed /\ a = PosInTree(v, i_delta[v])
  /\ Cardinality(s \intersect Leaves) = Placed

(* The marks lead up to the root, but for the node being climbed from.     *)
UpClosed ==
  /\ \A a \in s : a = 0 \/ Parent(a) \in s \/ (pc = "climb" /\ a = alpha)
  /\ pc = "mark" /\ i = 0 => s = {}
  /\ pc = "climb" /\ i = 0 => \A a \in s : alpha <= a
  /\ i > 0 \/ pc \in {"copy", "emit", "done", "failed"} => 0 \in s

(* They lead down to a leaf.                                               *)
DownSupported == \A a \in s : a \in Leaves \/ LeftChild(a) \in s \/ RightChild(a) \in s

(* The guard has been passed, and the keys written are counted exactly.    *)
Budget ==
  /\ pc \in {"copy", "emit", "done"} => nh - 2 * Tau + 1 <= TOpen
  /\ Writing => Len(nodes) = Cardinality(Ones(n))
  /\ pc = "done" => pad = TOpen - Len(nodes)

(* A revealed key is the sibling of a marked node, itself unmarked.        *)
RevealedUnmarked ==
  \A m \in 1 .. Len(nodes) : nodes[m] \in Nodes \ s /\ nodes[m] # 0 /\ Parent(nodes[m]) \in s

IInv == /\ TypeOK
        /\ Control
        /\ CountsMarks
        /\ MarkedLeaves
        /\ UpClosed
        /\ DownSupported
        /\ Budget
        /\ RevealedUnmarked

-----------------------------------------------------------------------------
LEMMA HiddenLeafFacts ==
  ASSUME i_delta \in Deltas, NEW v \in Vectors
  PROVE  /\ i_delta[v] \in Nat
         /\ i_delta[v] < MaxNodeIndex(v)
         /\ PosInTree(v, i_delta[v]) \in Leaves
         /\ \A w \in Vectors : PosInTree(w, i_delta[w]) = PosInTree(v, i_delta[v]) => w = v
<1>1. \A w \in Vectors : i_delta[w] \in Nat /\ i_delta[w] < MaxNodeIndex(w)
  BY ParamAssumption DEF Deltas
<1> QED
  BY <1>1, PosInTreeIsLeaf, PosInTreeInjective

LEMMA LeavesAreNodes == /\ Leaves \subseteq Nodes
                        /\ \A a \in Nodes : a \notin Leaves <=> a \in 0 .. L - 2
                        /\ \A a \in Leaves : a \in Nat
                        /\ 0 \in Nodes
BY LeafCount DEF Leaves, Nodes

LEMMA InitIInv == Init => IInv
<1> SUFFICES ASSUME Init PROVE IInv
  OBVIOUS
<1> USE DEF Init
<1>1. TypeOK
  BY LeafCount, ParamAssumption, LeavesAreNodes DEF TypeOK
<1>2. CountsMarks /\ MarkedLeaves
  <2>1. {} \intersect Leaves = {} /\ Cardinality({}) = 0
    BY FS_EmptySet
  <2>2. Placed = 0
    BY DEF Placed
  <2> QED
    BY <2>1, <2>2 DEF CountsMarks, MarkedLeaves, Vectors
<1>3. Control /\ UpClosed /\ DownSupported /\ Budget /\ RevealedUnmarked
  BY DEF Control, UpClosed, DownSupported, Budget, RevealedUnmarked, Writing
<1> QED
  BY <1>1, <1>2, <1>3 DEF IInv

LEMMA MarkLeafIInv == IInv /\ MarkLeaf => IInv'
<1> SUFFICES ASSUME IInv, MarkLeaf PROVE IInv'
  OBVIOUS
<1> USE DEF IInv, MarkLeaf
<1> DEFINE leaf == PosInTree(i, i_delta[i])
<1>1. i \in Vectors /\ i \in Nat /\ s \subseteq Nodes /\ i_delta \in Deltas /\ nh \in Nat /\ Tau \in Nat
  BY ParamAssumption DEF TypeOK, Vectors
<1>2. leaf \in Leaves /\ leaf \in Nodes
  BY <1>1, HiddenLeafFacts, LeavesAreNodes
<1>3. leaf \notin s
  BY <1>1, <1>2, HiddenLeafFacts DEF MarkedLeaves, Placed
<1>4. alpha' = leaf /\ s' = s \union {leaf} /\ nh' = nh + 1
  OBVIOUS
<1> HIDE DEF leaf
<1>5. TypeOK'
  BY <1>1, <1>2, <1>4 DEF TypeOK
<1>6. CountsMarks'
  BY <1>1, <1>3, <1>4, FiniteNodes, FS_AddElement DEF CountsMarks
<1>7. MarkedLeaves'
  <2>1. Placed = i /\ Placed' = i + 1
    BY DEF Placed
  <2>2. Cardinality(s' \intersect Leaves) = i + 1
    <3>1. s' \intersect Leaves = (s \intersect Leaves) \union {leaf}
      BY <1>2, <1>4
    <3>2. s \intersect Leaves \in SUBSET Nodes /\ leaf \notin s \intersect Leaves
      BY <1>1, <1>3
    <3> QED
      BY <2>1, <3>1, <3>2, FiniteNodes, FS_AddElement DEF MarkedLeaves
  <2>3. \A v \in Vectors : v < i + 1 <=> v < i \/ v = i
    BY <1>1 DEF Vectors
  <2> QED
    BY <1>1, <1>4, <2>1, <2>2, <2>3 DEF MarkedLeaves, leaf
<1>8. UpClosed'
  <2>1. i = 0 => s = {}
    BY DEF UpClosed
  <2>2. \A a \in s : a = 0 \/ Parent(a) \in s
    BY DEF UpClosed
  <2>3. i > 0 => 0 \in s
    BY DEF UpClosed
  <2> QED
    BY <1>1, <1>2, <1>4, <2>1, <2>2, <2>3, LeavesAreNodes DEF UpClosed
<1>9. DownSupported'
  BY <1>2, <1>4 DEF DownSupported
<1>10. Control' /\ Budget' /\ RevealedUnmarked'
  BY <1>4 DEF Control, Budget, RevealedUnmarked, Writing
<1> QED
  BY <1>5, <1>6, <1>7, <1>8, <1>9, <1>10

LEMMA ClimbIInv == IInv /\ Climb => IInv'
<1> SUFFICES ASSUME IInv, Climb PROVE IInv'
  OBVIOUS
<1> USE DEF IInv, Climb
<1> DEFINE up == Parent(alpha)
<1>1. alpha \in s /\ alpha \in Nodes /\ alpha # 0 /\ s \subseteq Nodes /\ i \in Nat /\ nh \in Nat
  BY DEF ParentUnmarked, TypeOK, Control
<1>2. /\ up \in 0 .. L - 2 /\ up < alpha /\ up \in Nodes /\ up \notin Leaves
      /\ alpha = LeftChild(up) \/ alpha = RightChild(up)
  <2>1. up \in 0 .. L - 2 /\ up < alpha /\ (alpha = LeftChild(up) \/ alpha = RightChild(up))
    BY <1>1, ParentInner
  <2> QED
    BY <2>1, LeavesAreNodes, LeafCount DEF Nodes
<1>3. up \notin s
  BY DEF ParentUnmarked
<1>4. alpha' = up /\ s' = s \union {up} /\ nh' = nh + 1
  OBVIOUS
<1> HIDE DEF up
<1>5. TypeOK'
  BY <1>1, <1>2, <1>4 DEF TypeOK
<1>6. CountsMarks'
  BY <1>1, <1>3, <1>4, FiniteNodes, FS_AddElement DEF CountsMarks
<1>7. MarkedLeaves'
  <2>1. s' \intersect Leaves = s \intersect Leaves
    BY <1>2, <1>4
  <2>2. Placed' = Placed
    BY DEF Placed
  <2> QED
    BY <1>2, <1>4, <2>1, <2>2 DEF MarkedLeaves
<1>8. UpClosed'
  <2>1. \A a \in s : a = 0 \/ Parent(a) \in s \/ a = alpha
    BY DEF UpClosed
  <2>2. i = 0 => \A a \in s : up <= a
    BY <1>1, <1>2 DEF UpClosed, Nodes
  <2>3. up = Parent(alpha) /\ up <= up
    BY <1>2 DEF up
  <2> QED
    BY <1>1, <1>4, <2>1, <2>2, <2>3 DEF UpClosed
<1>9. DownSupported'
  BY <1>1, <1>2, <1>4 DEF DownSupported
<1>10. Control' /\ Budget' /\ RevealedUnmarked'
  BY <1>4 DEF Control, Budget, RevealedUnmarked, Writing
<1> QED
  BY <1>5, <1>6, <1>7, <1>8, <1>9, <1>10

LEMMA NextVectorIInv == IInv /\ NextVector => IInv'
<1> SUFFICES ASSUME IInv, NextVector PROVE IInv'
  OBVIOUS
<1> USE DEF IInv, NextVector
<1>1. /\ alpha \in s /\ alpha \in Nodes /\ s \subseteq Nodes /\ i \in Nat /\ i < Tau /\ Tau \in Nat
      /\ alpha = 0 \/ Parent(alpha) \in s
  BY ParamAssumption DEF ParentUnmarked, TypeOK, Control, Nodes
<1>2. UpClosed'
  <2>1. \A a \in s : a = 0 \/ Parent(a) \in s
    BY <1>1 DEF UpClosed
  <2>2. CASE i > 0
    BY <1>1, <2>1, <2>2 DEF UpClosed
  <2>3. CASE i = 0
    <3>1. alpha # 0 => Parent(alpha) < alpha /\ Parent(alpha) \in Nat
      <4>1. alpha # 0 => Parent(alpha) < alpha /\ Parent(alpha) \in 0 .. L - 2
        BY <1>1, ParentInner
      <4> QED
        BY <4>1
    <3>2. alpha # 0 => alpha <= Parent(alpha)
      BY <1>1, <2>3 DEF UpClosed
    <3>3. alpha = 0
      BY <1>1, <3>1, <3>2, LeafCount DEF Nodes
    <3>4. 0 \in s' /\ pc' = "mark" /\ i' # 0
      BY <1>1, <2>3, <3>3
    <3> QED
      BY <2>1, <3>4 DEF UpClosed
  <2> QED
    BY <1>1, <2>2, <2>3
<1>3. TypeOK'
  BY <1>1 DEF TypeOK
<1>4. MarkedLeaves'
  <2>1. Placed' = Placed
    BY DEF Placed
  <2> QED
    BY <2>1 DEF MarkedLeaves
<1>5. Control' /\ CountsMarks' /\ DownSupported' /\ Budget' /\ RevealedUnmarked'
  BY DEF Control, CountsMarks, DownSupported, Budget, RevealedUnmarked, Writing
<1> QED
  BY <1>2, <1>3, <1>4, <1>5

LEMMA RejectIInv == IInv /\ Reject => IInv'
<1> SUFFICES ASSUME IInv, Reject PROVE IInv'
  OBVIOUS
<1> USE DEF IInv, Reject
<1>1. i = Tau /\ Tau \in Nat \ {0}
  BY ParamAssumption
<1>2. TypeOK' /\ Control' /\ CountsMarks' /\ DownSupported' /\ Budget' /\ RevealedUnmarked'
  BY DEF TypeOK, Control, CountsMarks, DownSupported, Budget, RevealedUnmarked, Writing
<1>3. MarkedLeaves'
  <2>1. Placed' = Placed
    BY <1>1 DEF Placed
  <2> QED
    BY <2>1 DEF MarkedLeaves
<1>4. UpClosed'
  BY <1>1 DEF UpClosed
<1> QED
  BY <1>2, <1>3, <1>4

(* The guard computes modulo UINT.  When it lets the call go on, the exact *)
(* difference is within TOpen: a negative one would have wrapped to a      *)
(* number above TOpen.                                                     *)
LEMMA GuardExact ==
  ASSUME NEW d \in Int, 0 - UINT <= d - TOpen - 1, d < UINT, d % UINT <= TOpen
  PROVE  0 <= d /\ d <= TOpen
<1>1. UINT \in Nat /\ UINT > 0 /\ TOpen \in Nat
  BY OpenAssumption, LeafCount
<1>2. CASE d >= 0
  <2>1. d % UINT = d
    BY <1>1, <1>2
  <2> QED
    BY <1>2, <2>1
<1>3. CASE d < 0
  <2>1. d % UINT = d + UINT
    BY <1>1, <1>3
  <2> QED
    BY <1>1, <1>3, <2>1
<1> QED
  BY <1>2, <1>3

LEMMA MarksBound ==
  ASSUME TypeOK, CountsMarks
  PROVE  nh <= 2 * L - 1
<1>1. IsFiniteSet(Nodes) /\ Cardinality(Nodes) = 2 * L - 1
  <2>1. 2 * L - 2 \in Int /\ ~ (0 > 2 * L - 2) /\ 0 \in Int
    BY LeafCount
  <2>2. Cardinality(0 .. 2 * L - 2) = (2 * L - 2) - 0 + 1
    BY <2>1, FS_Interval
  <2>3. IsFiniteSet(0 .. 2 * L - 2)
    BY <2>1, FS_Interval
  <2> QED
    BY <2>1, <2>2, <2>3, LeafCount DEF Nodes
<1>2. Cardinality(s) <= Cardinality(Nodes)
  BY <1>1, FS_Subset DEF TypeOK
<1> QED
  BY <1>1, <1>2 DEF CountsMarks

LEMMA AcceptIInv == IInv /\ Accept => IInv'
<1> SUFFICES ASSUME IInv, Accept PROVE IInv'
  OBVIOUS
<1> USE DEF IInv, Accept
<1>1. i = Tau /\ Tau \in Nat \ {0} /\ nh \in Nat /\ L \in Nat
  BY ParamAssumption, LeafCount DEF TypeOK
<1>2. nh - 2 * Tau + 1 <= TOpen
  <2>1. nh <= 2 * L - 1
    BY MarksBound
  <2>2. (nh - 2 * Tau + 1) % UINT <= TOpen
    <3>1. (nh - 2 * Tau + 1) % UINT \in Int /\ TOpen \in Int
      BY <1>1, OpenAssumption, LeafCount
    <3> QED
      BY <3>1 DEF TooManyKeys, KeysNeeded
  <2>3. nh - 2 * Tau + 1 \in Int /\ nh - 2 * Tau + 1 < UINT
    BY <1>1, <2>1, OpenAssumption
  <2>4. 0 - UINT <= (nh - 2 * Tau + 1) - TOpen - 1
    BY <1>1, OpenAssumption
  <2> QED
    BY <2>2, <2>3, <2>4, GuardExact
<1>3. TypeOK' /\ Control' /\ CountsMarks' /\ DownSupported' /\ RevealedUnmarked'
  BY <1>1 DEF TypeOK, Control, CountsMarks, DownSupported, RevealedUnmarked, Writing
<1>4. MarkedLeaves'
  <2>1. Placed' = Placed
    BY <1>1 DEF Placed
  <2> QED
    BY <2>1 DEF MarkedLeaves
<1>5. UpClosed'
  BY <1>1 DEF UpClosed
<1>6. Budget'
  BY <1>2 DEF Budget, Writing
<1> QED
  BY <1>3, <1>4, <1>5, <1>6

LEMMA CopyCommitmentIInv == IInv /\ CopyCommitment => IInv'
<1> SUFFICES ASSUME IInv, CopyCommitment PROVE IInv'
  OBVIOUS
<1> USE DEF IInv, CopyCommitment
<1>1. /\ i \in Nat /\ i < Tau /\ Tau \in Nat /\ i \in Vectors /\ com \in Nat
      /\ i_delta[i] \in Nat /\ MaxNodeIndex(i) \in Nat
  BY ParamAssumption, HiddenLeafFacts DEF TypeOK, Vectors, MaxNodeIndex
<1>2. TypeOK'
  BY <1>1 DEF TypeOK
<1>3. MarkedLeaves'
  <2>1. Placed' = Placed
    BY DEF Placed
  <2> QED
    BY <2>1 DEF MarkedLeaves
<1>4. UpClosed'
  BY <1>1 DEF UpClosed
<1>5. Control' /\ CountsMarks' /\ DownSupported' /\ RevealedUnmarked'
  BY DEF Control, CountsMarks, DownSupported, RevealedUnmarked, Writing
<1>6. Budget'
  <2>1. n = L - 2 /\ nodes = <<>> /\ n' = n /\ nodes' = nodes /\ pc' # "done"
    BY DEF Control, Writing
  <2>2. Ones(n)' = {}
    BY <2>1, LeafCount DEF Ones
  <2> QED
    BY <2>1, <2>2, FS_EmptySet DEF Budget, Writing
<1> QED
  BY <1>2, <1>3, <1>4, <1>5, <1>6

(* In the second loop the marks form whole paths, so the bit of n agrees   *)
(* with its children's before it is recomputed.                            *)
LEMMA RecomputationIdle ==
  ASSUME IInv, pc = "emit", n >= 0
  PROVE  /\ n \in 0 .. L - 2
         /\ \A a \in s \ {0} : Parent(a) \in s
         /\ n \in s <=> (LeftChild(n) \in s \/ RightChild(n) \in s)
<1>1. n \in 0 .. L - 2 /\ s \subseteq Nodes
  BY DEF IInv, TypeOK
<1>2. \A a \in s \ {0} : Parent(a) \in s
  BY DEF IInv, UpClosed
<1>3. n \notin Leaves /\ n \in Nat
  BY <1>1, LeavesAreNodes, LeafCount DEF Nodes
<1>4. n \in s => LeftChild(n) \in s \/ RightChild(n) \in s
  BY <1>3 DEF IInv, DownSupported
<1>5. LeftChild(n) # 0 /\ RightChild(n) # 0
  BY <1>1, ChildNode
<1>6. Parent(LeftChild(n)) = n /\ Parent(RightChild(n)) = n
  BY <1>3, ParentOfChild
<1> QED
  BY <1>1, <1>2, <1>4, <1>5, <1>6

LEMMA EmitNodeIInv == IInv /\ EmitNode => IInv'
<1> SUFFICES ASSUME IInv, EmitNode PROVE IInv'
  OBVIOUS
<1>0. /\ pc = "emit" /\ n >= 0 /\ pc' = pc /\ n' = n - 1
      /\ UNCHANGED <<i_delta, i, alpha, nh, com, coms, pad>>
  BY DEF EmitNode
<1>1. /\ n \in 0 .. L - 2 /\ s \subseteq Nodes /\ nodes \in Seq(Nodes) /\ L \in Nat
      /\ \A a \in s \ {0} : Parent(a) \in s
  BY <1>0, RecomputationIdle, LeafCount DEF IInv, TypeOK
<1>2. s' = s
  <2>1. n \in s <=> (LeftChild(n) \in s \/ RightChild(n) \in s)
    BY <1>0, RecomputationIdle
  <2>2. s' = IF Children(n) \intersect s # {} THEN s \union {n} ELSE s \ {n}
    BY DEF EmitNode
  <2> QED
    BY <2>1, <2>2 DEF Children
<1>3. Ones(n)' = IF OneChild(n) THEN Ones(n) \union {n} ELSE Ones(n)
  <2>1. \A p : p \in (n - 1) + 1 .. L - 2 <=> p = n \/ p \in n + 1 .. L - 2
    BY <1>1
  <2>2. \A p : OneChild(p)' <=> OneChild(p)
    BY <1>2 DEF OneChild
  <2>3. Ones(n)' = {p \in (n - 1) + 1 .. L - 2 : OneChild(p)}
    BY <1>0, <2>2 DEF Ones
  <2> QED
    BY <2>1, <2>3 DEF Ones
<1>4. Cardinality(Ones(n)) \in Nat /\ IsFiniteSet(Ones(n)) /\ n \notin Ones(n)
  <2>1. Ones(n) \in SUBSET Nodes /\ n \notin Ones(n)
    BY <1>1 DEF Ones, Nodes
  <2> QED
    BY <2>1, FiniteNodes
<1>5. /\ nodes' \in Seq(Nodes)
      /\ Len(nodes') = Cardinality(Ones(n)')
      /\ \A m \in 1 .. Len(nodes') :
           nodes'[m] \in Nodes \ s /\ nodes'[m] # 0 /\ Parent(nodes'[m]) \in s
  <2>0. /\ Len(nodes) = Cardinality(Ones(n)) /\ Len(nodes) \in Nat
        /\ \A m \in 1 .. Len(nodes) :
             nodes[m] \in Nodes \ s /\ nodes[m] # 0 /\ Parent(nodes[m]) \in s
    BY <1>0, <1>4 DEF IInv, Budget, Writing, RevealedUnmarked
  <2>1. CASE ~ OneChild(n)
    <3>1. nodes' = nodes
      BY <2>1 DEF EmitNode
    <3> QED
      BY <1>1, <1>3, <2>0, <2>1, <3>1
  <2>2. CASE OneChild(n)
    <3> DEFINE c == RevealedChild(n)
    <3>1. nodes' = Append(nodes, c)
      BY <2>2 DEF EmitNode
    <3>2. c \in Nodes \ s /\ c # 0 /\ Parent(c) = n /\ n \in s
      <4>1. c = LeftChild(n) \/ c = RightChild(n)
        BY <1>1 DEF RevealedChild, LeftChild, RightChild
      <4>2. c \notin s
        <5>1. CASE LeftChild(n) \in s
          <6>1. c = RightChild(n) /\ RightChild(n) \notin s
            BY <1>1, <2>2, <5>1 DEF RevealedChild, OneChild, RightChild
          <6> QED
            BY <6>1
        <5>2. CASE LeftChild(n) \notin s
          <6>1. c = LeftChild(n)
            BY <1>1, <5>2 DEF RevealedChild, LeftChild
          <6> QED
            BY <5>2, <6>1
        <5> QED
          BY <5>1, <5>2
      <4>3. c \in Nodes /\ c # 0
        BY <1>1, <4>1, ChildNode
      <4>4. Parent(c) = n
        BY <1>1, <4>1, ParentOfChild
      <4>5. n \in s
        BY <1>0, <2>2, RecomputationIdle DEF OneChild
      <4> QED
        BY <4>2, <4>3, <4>4, <4>5
    <3> HIDE DEF c
    <3>3. /\ nodes' \in Seq(Nodes) /\ Len(nodes') = Len(nodes) + 1
          /\ \A m \in 1 .. Len(nodes') :
               nodes'[m] = IF m = Len(nodes) + 1 THEN c ELSE nodes[m]
      BY <1>1, <3>1, <3>2
    <3>4. Cardinality(Ones(n)') = Cardinality(Ones(n)) + 1
      BY <1>3, <1>4, <2>2, FS_AddElement
    <3>5. \A m \in 1 .. Len(nodes) + 1 : m = Len(nodes) + 1 \/ m \in 1 .. Len(nodes)
      BY <2>0
    <3> QED
      BY <2>0, <3>2, <3>3, <3>4, <3>5
  <2> QED
    BY <2>1, <2>2
<1>6. TypeOK'
  BY <1>0, <1>1, <1>2, <1>5 DEF IInv, TypeOK
<1>7. Control' /\ CountsMarks' /\ DownSupported' /\ RevealedUnmarked'
  BY <1>0, <1>2, <1>5 DEF IInv, Control, CountsMarks, DownSupported, RevealedUnmarked, Writing
<1>8. MarkedLeaves'
  <2>1. Placed' = Placed
    BY <1>0 DEF Placed
  <2> QED
    BY <1>0, <1>2, <2>1 DEF IInv, MarkedLeaves
<1>9. UpClosed'
  BY <1>0, <1>2 DEF IInv, UpClosed
<1>10. Budget'
  BY <1>0, <1>5 DEF IInv, Budget, Writing
<1> QED
  BY <1>6, <1>7, <1>8, <1>9, <1>10 DEF IInv

LEMMA PadIInv == IInv /\ Pad => IInv'
<1> SUFFICES ASSUME IInv, Pad PROVE IInv'
  OBVIOUS
<1> USE DEF IInv, Pad
<1>1. TypeOK'
  BY OpenAssumption DEF TypeOK
<1>2. Control'
  <2>1. n = -1
    BY LeafCount DEF TypeOK
  <2> QED
    BY <2>1 DEF Control, Writing
<1>3. MarkedLeaves'
  <2>1. Placed' = Placed
    BY DEF Placed
  <2> QED
    BY <2>1 DEF MarkedLeaves
<1>4. UpClosed'
  BY DEF UpClosed
<1>5. CountsMarks' /\ DownSupported' /\ RevealedUnmarked'
  BY DEF CountsMarks, DownSupported, RevealedUnmarked
<1>6. Budget'
  <2>1. Ones(n)' = Ones(n)
    BY DEF Ones, OneChild
  <2> QED
    BY <2>1 DEF Budget, Writing
<1> QED
  BY <1>1, <1>2, <1>3, <1>4, <1>5, <1>6

LEMMA StutterIInv == IInv /\ UNCHANGED vars => IInv'
<1> SUFFICES ASSUME IInv, UNCHANGED vars PROVE IInv'
  OBVIOUS
<1> USE DEF IInv, vars
<1>1. Placed' = Placed /\ Ones(n)' = Ones(n)
  BY DEF Placed, Ones, OneChild
<1> QED
  BY <1>1 DEF TypeOK, Control, CountsMarks, MarkedLeaves, UpClosed, DownSupported, Budget,
              RevealedUnmarked, Writing

LEMMA Invariance == Spec => []IInv
<1>1. Init => IInv
  BY InitIInv
<1>2. IInv /\ [Next]_vars => IInv'
  BY MarkLeafIInv, ClimbIInv, NextVectorIInv, RejectIInv, AcceptIInv, CopyCommitmentIInv,
     EmitNodeIInv, PadIInv, StutterIInv DEF Next
<1> QED
  BY <1>1, <1>2, PTL DEF Spec

-----------------------------------------------------------------------------
(* The size of the whole cover, from the counter of marks.                 *)
LEMMA AllOnes ==
  ASSUME IInv, Writing \/ pc \in {"copy", "failed"}
  PROVE  /\ Cardinality(Ones(-1)) = nh - 2 * Tau + 1
         /\ \A m \in -1 .. L - 2 : Cardinality(Ones(m)) \in Nat
         /\ \A m \in -1 .. L - 2 : Cardinality(Ones(m)) <= Cardinality(Ones(-1))
<1>1. pc \in {"copy", "emit", "done", "failed"}
  BY DEF Writing
<1>2. s \in SUBSET Nodes /\ 0 \in s /\ \A a \in s \ {0} : Parent(a) \in s
  BY <1>1 DEF IInv, TypeOK, UpClosed
<1>3. \A a \in s \ Leaves : LeftChild(a) \in s \/ RightChild(a) \in s
  BY DEF IInv, DownSupported
<1>4. Ones(-1) = {p \in 0 .. L - 2 : (LeftChild(p) \in s) # (RightChild(p) \in s)}
  BY DEF Ones, OneChild
<1>5. Cardinality(s \intersect Leaves) = Tau
  BY <1>1 DEF IInv, MarkedLeaves, Placed
<1>6. Cardinality(Ones(-1)) = Cardinality(s) - 2 * Cardinality(s \intersect Leaves) + 1
  BY <1>2, <1>3, <1>4, CoverSize
<1>7. Ones(-1) \in SUBSET Nodes
  BY LeafCount DEF Ones, Nodes
<1>8. ASSUME NEW m \in -1 .. L - 2
      PROVE  Cardinality(Ones(m)) \in Nat /\ Cardinality(Ones(m)) <= Cardinality(Ones(-1))
  <2>1. Ones(m) \in SUBSET Ones(-1)
    BY LeafCount DEF Ones
  <2>2. Ones(m) \in SUBSET Nodes
    BY <1>7, <2>1
  <2> QED
    BY <1>7, <2>1, <2>2, FiniteNodes, FS_Subset
<1> QED
  BY <1>5, <1>6, <1>8 DEF IInv, CountsMarks

(* bavc_open keeps its variables in their ranges (TypeOK).                 *)
THEOREM TypeCorrect == Spec => []TypeOK
<1>1. IInv => TypeOK
  BY DEF IInv
<1> QED
  BY <1>1, Invariance, PTL

(* bavc_open counts every marked node once (CountsMarks).                  *)
THEOREM MarksCounted == Spec => []CountsMarks
<1>1. IInv => CountsMarks
  BY DEF IInv
<1> QED
  BY <1>1, Invariance, PTL

(* bavc_open never writes a key past the T_open slots of the opening,      *)
(* whatever the parameters and the hidden leaves (FitsBuffer).             *)
THEOREM NoOverrun == Spec => []FitsBuffer
<1>1. IInv => FitsBuffer
  <2> SUFFICES ASSUME IInv PROVE FitsBuffer
    OBVIOUS
  <2>1. TOpen \in Nat /\ n \in -1 .. L - 2
    BY OpenAssumption DEF IInv, TypeOK
  <2>2. CASE Writing
    <3>1. Len(nodes) = Cardinality(Ones(n)) /\ nh - 2 * Tau + 1 <= TOpen
      BY <2>2 DEF IInv, Budget, Writing
    <3>2. /\ Cardinality(Ones(-1)) = nh - 2 * Tau + 1
          /\ Cardinality(Ones(n)) \in Nat
          /\ Cardinality(Ones(n)) <= Cardinality(Ones(-1))
      BY <2>1, <2>2, AllOnes
    <3>3. Cardinality(Ones(-1)) \in Nat
      BY <2>2, AllOnes, LeafCount
    <3>4. Len(nodes) <= TOpen
      BY <2>1, <3>1, <3>2, <3>3
    <3>5. pad >= 0
      BY <2>1, <3>1, <3>2, <3>4 DEF IInv, Budget, Control
    <3> QED
      BY <3>4, <3>5 DEF FitsBuffer
  <2>3. CASE ~ Writing
    BY <2>1, <2>3 DEF IInv, Control, Writing, FitsBuffer
  <2> QED
    BY <2>2, <2>3
<1> QED
  BY <1>1, Invariance, PTL

(* The guard's arithmetic is exact: an accepted opening writes nh - 2tau+1 *)
(* keys (GuardIsExact).                                                    *)
THEOREM GuardCountsKeys == Spec => []GuardIsExact
<1>1. IInv => GuardIsExact
  <2> SUFFICES ASSUME IInv, pc = "done" PROVE Len(nodes) = nh - 2 * Tau + 1
    BY DEF GuardIsExact
  <2>1. Len(nodes) = Cardinality(Ones(n)) /\ n = -1
    BY DEF IInv, Budget, Control, Writing
  <2>2. Cardinality(Ones(-1)) = nh - 2 * Tau + 1
    BY AllOnes DEF Writing
  <2> QED
    BY <2>1, <2>2
<1> QED
  BY <1>1, Invariance, PTL

(***************************************************************************)
(* Nothing hidden is revealed: some set of nodes holds the hidden leaves   *)
(* and, with every node, its parent -- so the paths of the hidden leaves   *)
(* to the root -- and no key of the opening belongs to it.                 *)
(***************************************************************************)
HiddenPathsSealed ==
  pc = "done" =>
    \E S \in SUBSET Nodes :
      /\ HiddenLeaves(i_delta) \subseteq S
      /\ \A a \in S \ {0} : Parent(a) \in S
      /\ Revealed \intersect S = {}

(* bavc_open reveals no key on the path of a hidden leaf.                  *)
THEOREM HiddenLeavesSealed == Spec => []HiddenPathsSealed
<1>1. IInv => HiddenPathsSealed
  <2> SUFFICES ASSUME IInv, pc = "done"
               PROVE  /\ s \in SUBSET Nodes
                      /\ HiddenLeaves(i_delta) \subseteq s
                      /\ \A a \in s \ {0} : Parent(a) \in s
                      /\ Revealed \intersect s = {}
    BY DEF HiddenPathsSealed
  <2>1. HiddenLeaves(i_delta) \subseteq s
    BY ParamAssumption DEF HiddenLeaves, IInv, MarkedLeaves, Placed, Vectors
  <2>2. \A a \in s \ {0} : Parent(a) \in s
    BY DEF IInv, UpClosed
  <2>3. Revealed \intersect s = {}
    BY DEF IInv, RevealedUnmarked, Revealed
  <2> QED
    BY <2>1, <2>2, <2>3 DEF IInv, TypeOK
<1> QED
  BY <1>1, Invariance, PTL

-----------------------------------------------------------------------------
(* The copying loop: com is where the leaves of the next vector begin.     *)
CopyInv ==
  /\ com = FirstLeaf(Len(coms))
  /\ coms \in Seq(Nat)
  /\ pc = "copy" => Len(coms) = i
  /\ Writing => Len(coms) = Tau
  /\ pc # "copy" /\ ~ Writing => Len(coms) = 0
  /\ \A v \in 1 .. Len(coms) : coms[v] = FirstLeaf(v - 1) + i_delta[v - 1]

LEMMA FirstLeafNext ==
  ASSUME NEW v \in Nat
  PROVE  FirstLeaf(v + 1) = FirstLeaf(v) + MaxNodeIndex(v)
<1>0. Width \in Nat /\ Tau1 \in Nat
  BY ParamAssumption
<1>1. CASE v < Tau1
  <2>1. 2 * Width * (v + 1) = 2 * Width * v + 2 * Width
    BY <1>0
  <2> QED
    BY <1>0, <1>1, <2>1 DEF FirstLeaf, MaxNodeIndex
<1>2. CASE v > Tau1
  <2>1. Width * ((v + 1) + Tau1) = Width * (v + Tau1) + Width
    BY <1>0
  <2> QED
    BY <1>0, <1>2, <2>1 DEF FirstLeaf, MaxNodeIndex
<1>3. CASE v = Tau1
  <2>1. Width * ((v + 1) + Tau1) = 2 * Width * v + Width
    BY <1>0, <1>3
  <2> QED
    BY <1>0, <1>3, <2>1 DEF FirstLeaf, MaxNodeIndex
<1> QED
  BY <1>0, <1>1, <1>2, <1>3

(* The leaves of a vector come before those of the next ones.              *)
LEMMA FirstLeafOrder ==
  ASSUME NEW v \in Nat, NEW w \in Nat
  PROVE  /\ FirstLeaf(v) \in Nat
         /\ MaxNodeIndex(v) \in Nat \ {0}
         /\ v <= w => FirstLeaf(v) <= FirstLeaf(w)
         /\ v < w => FirstLeaf(v) + MaxNodeIndex(v) <= FirstLeaf(w)
<1>0. Width \in Nat \ {0} /\ Tau1 \in Nat
  BY ParamAssumption
<1>1. ASSUME NEW a \in Nat, NEW b \in Nat, a <= b
      PROVE  FirstLeaf(a) \in Nat /\ FirstLeaf(a) <= FirstLeaf(b)
  <2>1. 2 * Width * a \in Nat /\ 2 * Width * a <= 2 * Width * b
    BY <1>0, <1>1, ProductOrder
  <2>2. Width * (a + Tau1) \in Nat /\ Width * (a + Tau1) <= Width * (b + Tau1)
    BY <1>0, <1>1, ProductOrder
  <2>3. a <= Tau1 => 2 * Width * a <= 2 * Width * Tau1
    BY <1>0, ProductOrder
  <2>4. 2 * Width * Tau1 = Width * (Tau1 + Tau1)
    BY <1>0
  <2>5. b >= Tau1 => Width * (Tau1 + Tau1) <= Width * (b + Tau1)
    BY <1>0, ProductOrder
  <2>6. Width * (Tau1 + Tau1) \in Nat /\ Width * (b + Tau1) \in Nat /\ 2 * Width * b \in Nat
    BY <1>0
  <2>7. CASE a <= Tau1 /\ b <= Tau1
    BY <2>1, <2>7 DEF FirstLeaf
  <2>8. CASE a > Tau1
    BY <1>0, <1>1, <2>2, <2>8 DEF FirstLeaf
  <2>9. CASE a <= Tau1 /\ b > Tau1
    <3>1. FirstLeaf(a) = 2 * Width * a /\ FirstLeaf(b) = Width * (b + Tau1)
      BY <1>0, <2>9 DEF FirstLeaf
    <3> QED
      BY <1>0, <2>1, <2>3, <2>4, <2>5, <2>6, <2>9, <3>1
  <2> QED
    BY <1>0, <2>7, <2>8, <2>9
<1>2. MaxNodeIndex(v) \in Nat \ {0}
  BY <1>0 DEF MaxNodeIndex
<1>3. v < w => FirstLeaf(v + 1) <= FirstLeaf(w)
  BY <1>1
<1>4. FirstLeaf(v + 1) = FirstLeaf(v) + MaxNodeIndex(v)
  BY FirstLeafNext
<1> QED
  BY <1>1, <1>2, <1>3, <1>4

LEMMA CopyStep == IInv /\ CopyInv /\ [Next]_vars => CopyInv'
<1> SUFFICES ASSUME IInv, CopyInv, [Next]_vars PROVE CopyInv'
  OBVIOUS
<1>1. CASE CopyCommitment
  <2>0. /\ i \in Nat /\ i \in Vectors /\ Tau \in Nat /\ pc = "copy" /\ Len(coms) = i
        /\ com \in Nat /\ i_delta[i] \in Nat /\ coms \in Seq(Nat)
    <3>1. i \in Nat /\ i \in Vectors /\ Tau \in Nat /\ pc = "copy" /\ com \in Nat
      BY <1>1, ParamAssumption DEF CopyCommitment, IInv, TypeOK, Vectors
    <3>2. i_delta[i] \in Nat
      BY <3>1, HiddenLeafFacts DEF IInv, TypeOK
    <3>3. Len(coms) = i /\ coms \in Seq(Nat)
      BY <3>1 DEF CopyInv
    <3> QED
      BY <3>1, <3>2, <3>3
  <2>1. /\ coms' = Append(coms, com + i_delta[i]) /\ com' = com + MaxNodeIndex(i)
        /\ i' = i + 1 /\ i_delta' = i_delta /\ pc' = IF i' = Tau THEN "emit" ELSE "copy"
    BY <1>1 DEF CopyCommitment
  <2>2. /\ Len(coms') = i + 1 /\ coms' \in Seq(Nat)
        /\ \A v \in 1 .. i + 1 : coms'[v] = IF v = i + 1 THEN com + i_delta[i] ELSE coms[v]
    <3> DEFINE c == com + i_delta[i]
    <3>1. c \in Nat /\ coms' = Append(coms, c)
      BY <2>0, <2>1
    <3> HIDE DEF c
    <3>2. /\ coms' \in Seq(Nat) /\ Len(coms') = Len(coms) + 1
          /\ \A v \in 1 .. Len(coms) + 1 : coms'[v] = IF v = Len(coms) + 1 THEN c ELSE coms[v]
      BY <2>0, <3>1
    <3> QED
      BY <2>0, <3>2 DEF c
  <2>3. com' = FirstLeaf(Len(coms'))
    <3>1. com = FirstLeaf(i)
      BY <2>0 DEF CopyInv
    <3>2. FirstLeaf(i + 1) = FirstLeaf(i) + MaxNodeIndex(i)
      BY <2>0, FirstLeafNext
    <3> QED
      BY <2>1, <2>2, <3>1, <3>2
  <2>4. \A v \in 1 .. i + 1 : v = i + 1 \/ v \in 1 .. Len(coms)
    BY <2>0
  <2>5. \A v \in 1 .. Len(coms') : coms'[v] = FirstLeaf(v - 1) + i_delta'[v - 1]
    <3> TAKE v \in 1 .. Len(coms')
    <3>1. v \in 1 .. i + 1
      BY <2>2
    <3>2. CASE v = i + 1
      <4>1. v - 1 = i /\ com = FirstLeaf(i)
        BY <2>0, <3>2 DEF CopyInv
      <4> QED
        BY <2>1, <2>2, <3>1, <3>2, <4>1
    <3>3. CASE v \in 1 .. Len(coms)
      <4>1. v # i + 1
        BY <2>0, <3>3
      <4> QED
        BY <2>1, <2>2, <3>1, <3>3, <4>1 DEF CopyInv
    <3> QED
      BY <2>4, <3>1, <3>2, <3>3
  <2>6. /\ pc' = "copy" => Len(coms') = i'
        /\ Writing' => Len(coms') = Tau
        /\ pc' # "copy" /\ ~ Writing' => Len(coms') = 0
    BY <2>0, <2>1, <2>2 DEF Writing
  <2> QED
    BY <2>2, <2>3, <2>5, <2>6 DEF CopyInv
<1>2. CASE MarkLeaf \/ Climb \/ NextVector \/ Reject
  BY <1>2 DEF MarkLeaf, Climb, NextVector, Reject, CopyInv, Writing
<1>3. CASE Accept
  BY <1>3 DEF Accept, CopyInv, Writing
<1>4. CASE EmitNode \/ Pad
  BY <1>4 DEF EmitNode, Pad, CopyInv, Writing
<1>5. CASE UNCHANGED vars
  BY <1>5 DEF vars, CopyInv, Writing
<1> QED
  BY <1>1, <1>2, <1>3, <1>4, <1>5 DEF Next

LEMMA CopyInvariant == Spec => []CopyInv
<1>1. Init => CopyInv
  BY ParamAssumption DEF Init, CopyInv, Writing, FirstLeaf
<1> QED
  BY <1>1, CopyStep, Invariance, PTL DEF Spec

(* The commitments copied into the opening are those of the hidden leaves. *)
THEOREM CommitmentsCopied == Spec => []CopiesHiddenCommitments
<1>1. CopyInv => CopiesHiddenCommitments
  BY DEF CopyInv, CopiesHiddenCommitments, Writing
<1> QED
  BY <1>1, CopyInvariant, PTL

-----------------------------------------------------------------------------
(***************************************************************************)
(* Every covering key is written, and in descending order.                 *)
(***************************************************************************)
Descending(t) == \A l, m \in 1 .. Len(t) : l < m => t[m] < t[l]

KeyInv ==
  /\ Descending(nodes)
  /\ \A m \in 1 .. Len(nodes) : Parent(nodes[m]) > n
  /\ \A c \in Below(s) : Parent(c) > n => \E m \in 1 .. Len(nodes) : nodes[m] = c

(* Before the second loop there is nothing to show.                        *)
LEMMA KeyInvEmpty ==
  ASSUME nodes = <<>>, n = L - 2
  PROVE  KeyInv
<1>1. \A c \in Below(s) : ~ (Parent(c) > n)
  BY ParentInner, LeafCount DEF Below
<1>2. Len(nodes) = 0
  OBVIOUS
<1> QED
  BY <1>1, <1>2 DEF KeyInv, Descending

(* What the step for inner node n appends, if anything.                    *)
LEMMA EmitNodeKeys ==
  ASSUME IInv, EmitNode
  PROVE  /\ s' = s /\ n' = n - 1 /\ n \in 0 .. L - 2
         /\ n \in s <=> (LeftChild(n) \in s \/ RightChild(n) \in s)
         /\ ~ OneChild(n) => nodes' = nodes
         /\ OneChild(n) => /\ nodes' = Append(nodes, RevealedChild(n))
                           /\ RevealedChild(n) \in {LeftChild(n), RightChild(n)} \ s
<1>1. /\ pc = "emit" /\ n >= 0 /\ n' = n - 1
      /\ s' = IF Children(n) \intersect s # {} THEN s \union {n} ELSE s \ {n}
      /\ nodes' = IF OneChild(n) THEN Append(nodes, RevealedChild(n)) ELSE nodes
  BY DEF EmitNode
<1>2. n \in 0 .. L - 2 /\ (n \in s <=> (LeftChild(n) \in s \/ RightChild(n) \in s))
  BY <1>1, RecomputationIdle
<1>3. s' = s
  BY <1>1, <1>2 DEF Children
<1>4. OneChild(n) => RevealedChild(n) \in {LeftChild(n), RightChild(n)} \ s
  <2>1. RevealedChild(n) = IF LeftChild(n) \in s THEN RightChild(n) ELSE LeftChild(n)
    BY <1>2 DEF RevealedChild, LeftChild, RightChild
  <2> QED
    BY <2>1 DEF OneChild
<1> QED
  BY <1>1, <1>2, <1>3, <1>4

LEMMA EmitNodeKeyInv == IInv /\ KeyInv /\ EmitNode => KeyInv'
<1> SUFFICES ASSUME IInv, KeyInv, EmitNode PROVE KeyInv'
  OBVIOUS
<1>1. /\ s' = s /\ n' = n - 1 /\ n \in 0 .. L - 2 /\ n \in Nat
      /\ n \in s <=> (LeftChild(n) \in s \/ RightChild(n) \in s)
  BY EmitNodeKeys
<1>2. /\ nodes \in Seq(Nodes) /\ s \in SUBSET Nodes
      /\ \A m \in 1 .. Len(nodes) : nodes[m] \in Nodes /\ nodes[m] \in Nat /\ nodes[m] # 0
  BY DEF IInv, TypeOK, RevealedUnmarked, Nodes
<1>3. Below(s)' = Below(s)
  BY <1>1 DEF Below
<1>4. \A c \in Below(s) : /\ c \in Nodes /\ c \notin s /\ Parent(c) \in s /\ Parent(c) \in Nat
                          /\ c = LeftChild(Parent(c)) \/ c = RightChild(Parent(c))
  BY ParentInner, LeafCount DEF Below
<1>5. /\ Descending(nodes)
      /\ \A m \in 1 .. Len(nodes) : Parent(nodes[m]) > n
      /\ \A c \in Below(s) : Parent(c) > n => \E m \in 1 .. Len(nodes) : nodes[m] = c
  BY DEF KeyInv
<1>6. CASE ~ OneChild(n)
  <2>1. nodes' = nodes
    BY <1>6, EmitNodeKeys
  <2>2. \A m \in 1 .. Len(nodes) : Parent(nodes[m]) > n - 1
    <3> TAKE m \in 1 .. Len(nodes)
    <3>1. Parent(nodes[m]) \in Int
      BY <1>2, ParentInner
    <3> QED
      BY <1>1, <1>5, <3>1
  <2>3. ASSUME NEW c \in Below(s), Parent(c) > n - 1
        PROVE  \E m \in 1 .. Len(nodes) : nodes[m] = c
    <3>1. Parent(c) # n
      BY <1>1, <1>4, <1>6 DEF OneChild
    <3>2. Parent(c) > n
      BY <1>1, <1>4, <2>3, <3>1
    <3> QED
      BY <1>5, <3>2
  <2> QED
    BY <1>1, <1>3, <1>5, <2>1, <2>2, <2>3 DEF KeyInv, Descending
<1>7. CASE OneChild(n)
  <2> DEFINE c == RevealedChild(n)
  <2>1. nodes' = Append(nodes, c) /\ c \in {LeftChild(n), RightChild(n)} /\ c \notin s
    BY <1>7, EmitNodeKeys
  <2>2. c \in Nodes /\ c \in Nat /\ Parent(c) = n /\ c <= 2 * n + 2
    <3>1. c = 2 * n + 1 \/ c = 2 * n + 2
      BY <2>1 DEF LeftChild, RightChild
    <3>2. c \in Nodes /\ Parent(c) = n
      BY <1>1, <2>1, ChildNode, ParentOfChild
    <3> HIDE DEF c
    <3> QED
      BY <1>1, <3>1, <3>2
  <2> HIDE DEF c
  <2>3. /\ Len(nodes) \in Nat /\ Len(nodes') = Len(nodes) + 1
        /\ \A m \in 1 .. Len(nodes) + 1 : nodes'[m] = IF m = Len(nodes) + 1 THEN c ELSE nodes[m]
    BY <1>2, <2>1, <2>2
  <2>4. \A m \in 1 .. Len(nodes) + 1 : m = Len(nodes) + 1 \/ m \in 1 .. Len(nodes)
    BY <2>3
  <2>5. \A m \in 1 .. Len(nodes) : c < nodes[m] /\ Parent(nodes[m]) > n - 1
    <3> TAKE m \in 1 .. Len(nodes)
    <3> DEFINE p == Parent(nodes[m])
    <3>1. p \in Nat /\ p > n /\ (nodes[m] = LeftChild(p) \/ nodes[m] = RightChild(p))
      <4>1. p \in 0 .. L - 2 /\ (nodes[m] = LeftChild(p) \/ nodes[m] = RightChild(p))
        BY <1>2, ParentInner
      <4> QED
        BY <1>5, <4>1, LeafCount
    <3> HIDE DEF p
    <3>2. nodes[m] >= 2 * p + 1
      BY <3>1 DEF LeftChild, RightChild
    <3>3. p > n - 1 /\ c < nodes[m]
      BY <1>1, <1>2, <2>2, <3>1, <3>2
    <3> QED
      BY <3>3 DEF p
  <2>6. Descending(nodes')
    <3> SUFFICES ASSUME NEW l \in 1 .. Len(nodes) + 1, NEW m \in 1 .. Len(nodes) + 1, l < m
                 PROVE  nodes'[m] < nodes'[l]
      BY <2>3 DEF Descending
    <3>1. l \in 1 .. Len(nodes)
      BY <2>3
    <3>2. nodes'[l] = nodes[l]
      BY <2>3, <3>1
    <3>3. CASE m = Len(nodes) + 1
      BY <2>3, <2>5, <3>1, <3>2, <3>3
    <3>4. CASE m \in 1 .. Len(nodes)
      <4>1. nodes'[m] = nodes[m]
        BY <2>3, <3>4
      <4> QED
        BY <1>5, <3>1, <3>2, <3>4, <4>1 DEF Descending
    <3> QED
      BY <2>4, <3>3, <3>4
  <2>7. \A m \in 1 .. Len(nodes') : Parent(nodes'[m]) > n - 1
    BY <1>1, <2>2, <2>3, <2>4, <2>5
  <2>8. ASSUME NEW b \in Below(s), Parent(b) > n - 1
        PROVE  \E m \in 1 .. Len(nodes') : nodes'[m] = b
    <3>1. CASE Parent(b) > n
      <4>1. PICK m \in 1 .. Len(nodes) : nodes[m] = b
        BY <1>5, <3>1
      <4>2. m \in 1 .. Len(nodes') /\ nodes'[m] = b
        BY <2>3, <4>1
      <4> QED
        BY <4>2
    <3>2. CASE Parent(b) = n
      <4>1. b = c
        BY <1>4, <1>7, <2>1, <3>2 DEF OneChild
      <4>2. Len(nodes) + 1 \in 1 .. Len(nodes') /\ nodes'[Len(nodes) + 1] = c
        BY <2>3
      <4> QED
        BY <4>1, <4>2
    <3> QED
      BY <1>1, <1>4, <2>8, <3>1, <3>2
  <2> QED
    BY <1>1, <1>3, <2>6, <2>7, <2>8 DEF KeyInv
<1> QED
  BY <1>6, <1>7

LEMMA KeysInvariant == Spec => []KeyInv
<1>1. Init => KeyInv
  BY KeyInvEmpty DEF Init
<1>2. IInv /\ IInv' /\ KeyInv /\ [Next]_vars => KeyInv'
  <2> SUFFICES ASSUME IInv, IInv', KeyInv, [Next]_vars PROVE KeyInv'
    OBVIOUS
  <2>1. CASE MarkLeaf \/ Climb \/ NextVector \/ Reject \/ Accept
    <3>1. ~ Writing' /\ n' = L - 2 /\ nodes' = <<>>
      BY <2>1 DEF MarkLeaf, Climb, NextVector, Reject, Accept, Writing, IInv, Control
    <3>2. (nodes = <<>> /\ n = L - 2 => KeyInv)'
      BY KeyInvEmpty, PTL
    <3> QED
      BY <3>1, <3>2
  <2>2. CASE CopyCommitment
    <3>1. n' = L - 2 /\ nodes' = <<>>
      BY <2>2 DEF CopyCommitment, Writing, IInv, Control
    <3>2. (nodes = <<>> /\ n = L - 2 => KeyInv)'
      BY KeyInvEmpty, PTL
    <3> QED
      BY <3>1, <3>2
  <2>3. CASE EmitNode
    BY <2>3, EmitNodeKeyInv
  <2>4. CASE Pad \/ UNCHANGED vars
    BY <2>4 DEF Pad, vars, KeyInv, Below
  <2> QED
    BY <2>1, <2>2, <2>3, <2>4 DEF Next
<1> QED
  BY <1>1, <1>2, Invariance, PTL DEF Spec

(* After the second loop the keys written are the nodes just below the     *)
(* marked ones.                                                            *)
LEMMA RevealedIsBelow ==
  ASSUME IInv, KeyInv, n = -1
  PROVE  Revealed = Below(s)
<1>1. Revealed \subseteq Below(s)
  BY DEF IInv, RevealedUnmarked, Revealed, Below
<1>2. \A c \in Below(s) : Parent(c) > -1
  BY ParentInner, LeafCount DEF Below
<1>3. Below(s) \subseteq Revealed
  BY <1>2 DEF KeyInv, Revealed
<1> QED
  BY <1>1, <1>3

(* Once every hidden leaf is marked, no other leaf is.                     *)
LEMMA AllPlaced ==
  ASSUME IInv, pc \in {"copy", "emit", "done", "failed"} \/ (pc = "mark" /\ i = Tau)
  PROVE  /\ s \in SUBSET Nodes /\ 0 \in s /\ ParentClosed(s)
         /\ s \intersect Leaves = HiddenLeaves(i_delta)
         /\ \A a \in s \ Leaves : LeftChild(a) \in s \/ RightChild(a) \in s
<1>1. Placed = Tau /\ Tau \in Nat \ {0}
  BY ParamAssumption DEF Placed
<1>2. s \intersect Leaves = HiddenLeaves(i_delta)
  <2>1. \A v \in Vectors : v < Tau
    BY <1>1 DEF Vectors
  <2>2. \A v \in Vectors : PosInTree(v, i_delta[v]) \in Leaves
    BY HiddenLeafFacts DEF IInv, TypeOK
  <2> QED
    BY <1>1, <2>1, <2>2 DEF IInv, MarkedLeaves, HiddenLeaves
<1>3. 0 \in s /\ ParentClosed(s)
  BY <1>1 DEF IInv, UpClosed, ParentClosed
<1> QED
  BY <1>2, <1>3 DEF IInv, TypeOK, DownSupported

(* From the keys of an opening exactly the leaves that are not hidden can  *)
(* be derived, each from one key (OpensAllButHidden).                      *)
THEOREM OpeningIsComplete == Spec => []OpensAllButHidden
<1>1. IInv /\ KeyInv => OpensAllButHidden
  <2> SUFFICES ASSUME IInv, KeyInv, pc = "done", NEW a \in Leaves
               PROVE  Cardinality(PathToRoot[a] \intersect Revealed)
                        = IF a \in HiddenLeaves(i_delta) THEN 0 ELSE 1
    BY DEF OpensAllButHidden
  <2>1. Revealed = Below(s)
    BY RevealedIsBelow DEF IInv, Control
  <2>2. /\ s \in SUBSET Nodes /\ 0 \in s /\ ParentClosed(s)
        /\ s \intersect Leaves = HiddenLeaves(i_delta)
    BY AllPlaced
  <2>3. a \in Nodes /\ (a \in s <=> a \in HiddenLeaves(i_delta))
    BY <2>2, LeavesAreNodes
  <2>4. CASE a \in s
    <3>1. PathToRoot[a] \intersect Revealed = {}
      BY <2>1, <2>2, <2>3, <2>4, PathsMeetBelow
    <3> QED
      BY <2>3, <2>4, <3>1, FS_EmptySet
  <2>5. CASE a \notin s
    <3>1. PICK c \in Nodes : PathToRoot[a] \intersect Revealed = {c}
      BY <2>1, <2>2, <2>3, <2>5, PathsMeetBelow
    <3> QED
      BY <2>3, <2>5, <3>1, FS_Singleton
  <2> QED
    BY <2>4, <2>5
<1> QED
  BY <1>1, Invariance, KeysInvariant, PTL

-----------------------------------------------------------------------------
(***************************************************************************)
(* The refinement of PuncturedOpening.                                     *)
(***************************************************************************)
LEMMA PromiseTree ==
  /\ Promise!Deltas = Deltas
  /\ \A d : Promise!Cover(d) = Cover(d)
  /\ \A S : Promise!Cardinality(S) = Cardinality(S)
  /\ \A d : Promise!Canonical(d) =
              [m \in 1 .. Cardinality(Cover(d)) |->
                 CHOOSE c \in Cover(d) : Cardinality({b \in Cover(d) : b >= c}) = m]
<1>1. Promise!Deltas = Deltas
  BY DEF Promise!Deltas, Deltas, Promise!Vectors, Vectors, Promise!MaxNodeIndex, MaxNodeIndex
<1>2. Promise!L = L /\ Promise!Nodes = Nodes
  BY DEF Promise!L, L, Promise!Nodes, Nodes
<1>3. \A a : Promise!Parent(a) = Parent(a)
  BY DEF Promise!Parent, Parent
<1>4. Promise!PathToRoot = PathToRoot
  BY DEF Promise!PathToRoot, PathToRoot, Promise!Nodes, Nodes, Promise!L, L, Promise!Parent, Parent
<1>5. \A d : Promise!HiddenLeaves(d) = HiddenLeaves(d)
  BY DEF Promise!HiddenLeaves, HiddenLeaves, Promise!Vectors, Vectors, Promise!PosInTree, PosInTree,
         Promise!L, L
<1>6. \A d : Promise!Punctured(d) = Punctured(d)
  BY <1>4, <1>5 DEF Promise!Punctured, Punctured
<1>7. \A S : Promise!Cardinality(S) = Cardinality(S)
  BY DEF Promise!Cardinality, Cardinality
<1>8. \A d : Promise!Cover(d) = Cover(d)
  BY <1>2, <1>3, <1>6 DEF Promise!Cover, Cover
<1>9. \A d : Promise!Canonical(d) =
               [m \in 1 .. Cardinality(Cover(d)) |->
                  CHOOSE c \in Cover(d) : Cardinality({b \in Cover(d) : b >= c}) = m]
  BY DEF Promise!Canonical, Promise!Cardinality, Cardinality, Promise!Cover, Cover,
         Promise!Punctured, Punctured, Promise!HiddenLeaves, HiddenLeaves, Promise!Vectors, Vectors,
         Promise!PosInTree, PosInTree, Promise!PathToRoot, PathToRoot, Promise!Parent, Parent,
         Promise!Nodes, Nodes, Promise!L, L
<1> QED
  BY <1>1, <1>7, <1>8, <1>9

LEMMA NodeSequence ==
  ASSUME NEW t \in Seq(Nodes)
  PROVE  /\ Len(t) \in Nat
         /\ t = [m \in 1 .. Len(t) |-> t[m]]
         /\ \A m \in 1 .. Len(t) : t[m] \in Nodes /\ t[m] \in Nat
<1>1. Len(t) \in Nat /\ t = [m \in 1 .. Len(t) |-> t[m]] /\ \A m \in 1 .. Len(t) : t[m] \in Nodes
  OBVIOUS
<1> QED
  BY <1>1 DEF Nodes

(* The number of a set's members that are not smaller than a given one     *)
(* tells its place in the descending order.                                *)
LEMMA PlaceInOrder ==
  ASSUME NEW t \in Seq(Nodes), Descending(t), NEW m \in 1 .. Len(t),
         NEW C, C = {t[l] : l \in 1 .. Len(t)}
  PROVE  Cardinality({b \in C : b >= t[m]}) = m
<1> DEFINE D == {b \in C : b >= t[m]}
           f == [l \in 1 .. m |-> t[l]]
<1>1. \A l \in 1 .. Len(t) : t[l] \in Nat
  BY NodeSequence
<1>2. \A l \in 1 .. Len(t) : t[l] >= t[m] <=> l <= m
  <2> TAKE l \in 1 .. Len(t)
  <2>1. l \in Nat /\ m \in Nat /\ t[l] \in Nat /\ t[m] \in Nat
    BY <1>1
  <2>2. l < m => t[m] < t[l]
    BY DEF Descending
  <2>3. m < l => t[l] < t[m]
    BY DEF Descending
  <2> QED
    BY <2>1, <2>2, <2>3
<1>3. \A l \in 1 .. m : l \in 1 .. Len(t)
  OBVIOUS
<1>4. \A e, l \in 1 .. m : t[e] = t[l] => e = l
  <2> TAKE e, l \in 1 .. m
  <2>1. e < l => t[l] < t[e]
    BY <1>3 DEF Descending
  <2>2. l < e => t[e] < t[l]
    BY <1>3 DEF Descending
  <2>3. t[e] \in Nat /\ t[l] \in Nat
    BY <1>1, <1>3
  <2> QED
    BY <2>1, <2>2, <2>3
<1>5. \A l \in 1 .. m : t[l] \in D
  BY <1>2, <1>3
<1>6. \A b \in D : \E l \in 1 .. m : t[l] = b
  <2> TAKE b \in D
  <2>1. PICK l \in 1 .. Len(t) : t[l] = b
    OBVIOUS
  <2>2. l \in 1 .. m
    BY <1>2, <2>1
  <2> QED
    BY <2>1, <2>2
<1>7. f \in Bijection(1 .. m, D)
  <2> HIDE DEF D
  <2> QED
    BY <1>4, <1>5, <1>6 DEF Bijection, Injection, IsInjective, Surjection
<1>8. IsFiniteSet(1 .. m) /\ Cardinality(1 .. m) = m
  BY FS_Interval
<1> HIDE DEF D, f
<1>9. Cardinality(D) = m
  BY <1>7, <1>8, FS_Bijection DEF ExistsBijection
<1> QED
  BY <1>9 DEF D

(* So a descending sequence is determined by the set of its members.       *)
LEMMA CanonicalOrder ==
  ASSUME NEW t \in Seq(Nodes), Descending(t),
         NEW C, C = {t[l] : l \in 1 .. Len(t)}
  PROVE  /\ Cardinality(C) = Len(t)
         /\ t = [m \in 1 .. Cardinality(C) |-> CHOOSE c \in C : Cardinality({b \in C : b >= c}) = m]
<1> DEFINE rank(c) == Cardinality({b \in C : b >= c})
           e == Len(t)
<1>1. \A m \in 1 .. e : rank(t[m]) = m
  BY PlaceInOrder
<1>2. e \in Nat /\ t = [m \in 1 .. e |-> t[m]] /\ \A m \in 1 .. e : t[m] \in Nat /\ t[m] \in C
  BY NodeSequence
<1>3. \A c \in C : \E m \in 1 .. e : t[m] = c
  OBVIOUS
<1>4. \A l, m \in 1 .. e : l < m => t[m] < t[l]
  BY DEF Descending
<1> HIDE DEF e
<1>5. Cardinality(C) = e
  <2>1. CASE e = 0
    <3>1. 1 .. e = {}
      BY <2>1
    <3>2. C = {}
      BY <1>3, <3>1
    <3> QED
      BY <2>1, <3>2, FS_EmptySet
  <2>2. CASE e > 0
    <3>1. e \in 1 .. e
      BY <1>2, <2>2
    <3>2. \A m \in 1 .. e : t[m] >= t[e]
      <4> TAKE m \in 1 .. e
      <4>1. m < e => t[e] < t[m]
        BY <1>4, <3>1
      <4>2. m <= e /\ m \in Nat /\ t[m] \in Nat /\ t[e] \in Nat
        BY <1>2, <3>1
      <4> QED
        BY <1>2, <4>1, <4>2
    <3>3. {b \in C : b >= t[e]} = C
      BY <1>3, <3>2
    <3>4. rank(t[e]) = e
      BY <1>1, <3>1
    <3> QED
      BY <3>3, <3>4
  <2> QED
    BY <1>2, <2>1, <2>2
<1> HIDE DEF rank
<1>6. ASSUME NEW m \in 1 .. e
      PROVE  t[m] = CHOOSE c \in C : rank(c) = m
  <2>1. t[m] \in C /\ rank(t[m]) = m
    BY <1>1, <1>2
  <2>2. \A c \in C : rank(c) = m => c = t[m]
    BY <1>1, <1>3
  <2> QED
    BY <2>1, <2>2
<1>7. t = [m \in 1 .. Cardinality(C) |-> CHOOSE c \in C : rank(c) = m]
  BY <1>2, <1>5, <1>6
<1> QED
  BY <1>5, <1>7 DEF e, rank

(* What bavc_open has marked is what an opening has to keep secret, and    *)
(* the keys below the marks are the ones it has to reveal.                 *)
LEMMA MarksArePunctured ==
  ASSUME IInv, pc \in {"copy", "emit", "done", "failed"} \/ (pc = "mark" /\ i = Tau)
  PROVE  /\ s = Punctured(i_delta)
         /\ Below(s) = Cover(i_delta)
         /\ IsFiniteSet(Cover(i_delta))
         /\ Cardinality(Cover(i_delta)) = nh - 2 * Tau + 1
         /\ Cardinality(Cover(i_delta)) \in 0 .. 2 * L - 1
<1>1. /\ s \in SUBSET Nodes /\ 0 \in s /\ ParentClosed(s)
      /\ s \intersect Leaves = HiddenLeaves(i_delta)
      /\ \A a \in s \ Leaves : LeftChild(a) \in s \/ RightChild(a) \in s
  BY AllPlaced
<1>2. s = Punctured(i_delta)
  BY <1>1, MarksArePaths DEF Punctured
<1>3. Below(s) = Cover(i_delta)
  BY <1>1, <1>2 DEF Below, Cover
<1> DEFINE One == {p \in 0 .. L - 2 : (LeftChild(p) \in s) # (RightChild(p) \in s)}
<1>4. Cardinality(Below(s)) = Cardinality(One) /\ IsFiniteSet(Below(s))
  BY <1>1, BelowCount
<1>5. Cardinality(One) = Cardinality(s) - 2 * Cardinality(s \intersect Leaves) + 1
  BY <1>1, CoverSize DEF ParentClosed
<1>6. Cardinality(s) = nh /\ Cardinality(s \intersect Leaves) = Tau
  <2>1. Placed = Tau
    BY DEF Placed
  <2> QED
    BY <2>1 DEF IInv, CountsMarks, MarkedLeaves
<1>7. Cardinality(Below(s)) \in 0 .. 2 * L - 1
  <2>1. Below(s) \in SUBSET Nodes /\ Cardinality(Below(s)) \in Nat
    BY FiniteNodes DEF Below
  <2>2. nh \in Nat /\ nh <= 2 * L - 1 /\ Tau \in Nat \ {0} /\ L \in Nat
    BY MarksBound, ParamAssumption, LeafCount DEF IInv, TypeOK
  <2>3. Cardinality(Below(s)) = nh - 2 * Tau + 1
    BY <1>4, <1>5, <1>6
  <2> QED
    BY <2>1, <2>2, <2>3
<1> QED
  BY <1>2, <1>3, <1>4, <1>5, <1>6, <1>7

(* The guard refuses exactly the openings that need more than T_open keys. *)
LEMMA RefusalIsExact ==
  ASSUME IInv, pc = "mark", i = Tau
  PROVE  TooManyKeys <=> Cardinality(Cover(i_delta)) > TOpen
<1>1. /\ Cardinality(Cover(i_delta)) = nh - 2 * Tau + 1
      /\ Cardinality(Cover(i_delta)) \in 0 .. 2 * L - 1
  BY MarksArePunctured
<1>2. UINT \in Nat /\ 2 * L <= UINT /\ L \in Nat \ {0}
  BY OpenAssumption, LeafCount
<1>3. Cardinality(Cover(i_delta)) % UINT = Cardinality(Cover(i_delta))
  BY <1>1, <1>2
<1> QED
  BY <1>1, <1>3 DEF TooManyKeys, KeysNeeded

LEMMA OutcomeCases ==
  /\ pc = "done" => Outcome = [status |-> "opened", nodes |-> nodes, pad |-> pad]
  /\ pc = "failed" => Outcome = [status |-> "refused"]
  /\ pc \notin {"done", "failed"} => Outcome = [status |-> "pending"]
BY DEF Outcome

LEMMA OutcomeCasesNext ==
  /\ pc' = "done" => Outcome' = [status |-> "opened", nodes |-> nodes', pad |-> pad']
  /\ pc' = "failed" => Outcome' = [status |-> "refused"]
  /\ pc' \notin {"done", "failed"} => Outcome' = [status |-> "pending"]
<1>1. (/\ pc = "done" => Outcome = [status |-> "opened", nodes |-> nodes, pad |-> pad]
       /\ pc = "failed" => Outcome = [status |-> "refused"]
       /\ pc \notin {"done", "failed"} => Outcome = [status |-> "pending"])'
  BY OutcomeCases, PTL
<1> QED
  BY <1>1

(* bavc_open answers a request once: with the canonical opening, padded to *)
(* T_open keys, or with the refusal that is due (PuncturedOpening).        *)
THEOREM OpeningIsCanonical == Spec => Promise!SafeSpec
<1>1. Init => Promise!Init
  <2> SUFFICES ASSUME Init PROVE Promise!Init
    OBVIOUS
  <2>1. Outcome = [status |-> "pending"]
    BY OutcomeCases DEF Init
  <2> QED
    BY <2>1, PromiseTree DEF Init, Promise!Init, Promise!Pending
<1>2. IInv /\ KeyInv /\ IInv' /\ [Next]_vars => [Promise!Answer]_(Promise!vars)
  <2> SUFFICES ASSUME IInv, KeyInv, IInv', [Next]_vars
               PROVE  [Promise!Answer]_(Promise!vars)
    OBVIOUS
  <2>0. i_delta' = i_delta
    BY DEF Next, vars, MarkLeaf, Climb, NextVector, Reject, Accept, CopyCommitment, EmitNode, Pad
  <2>1. CASE MarkLeaf \/ Climb \/ NextVector \/ Accept \/ CopyCommitment \/ EmitNode
    <3>1. pc \notin {"done", "failed"} /\ pc' \notin {"done", "failed"}
      BY <2>1 DEF MarkLeaf, Climb, NextVector, Accept, CopyCommitment, EmitNode
    <3>2. Outcome' = Outcome
      BY <3>1, OutcomeCases, OutcomeCasesNext
    <3> QED
      BY <2>0, <3>2 DEF Promise!vars
  <2>2. CASE UNCHANGED vars
    <3>1. pc' = pc /\ nodes' = nodes /\ pad' = pad
      BY <2>2 DEF vars
    <3>2. CASE pc \in {"done", "failed"}
      BY <2>0, <3>1, <3>2, OutcomeCases, OutcomeCasesNext DEF Promise!vars
    <3>3. CASE pc \notin {"done", "failed"}
      BY <2>0, <3>1, <3>3, OutcomeCases, OutcomeCasesNext DEF Promise!vars
    <3> QED
      BY <3>2, <3>3
  <2>3. CASE Reject
    <3>1. pc = "mark" /\ i = Tau /\ TooManyKeys /\ pc' = "failed"
      BY <2>3 DEF Reject
    <3>2. ~ (Cardinality(Cover(i_delta)) <= TOpen)
      BY <3>1, RefusalIsExact, MarksArePunctured, OpenAssumption
    <3>3. Outcome = [status |-> "pending"] /\ Outcome' = [status |-> "refused"]
      BY <3>1, OutcomeCases, OutcomeCasesNext
    <3> QED
      BY <2>0, <3>2, <3>3, PromiseTree DEF Promise!Answer, Promise!Pending
  <2>4. CASE Pad
    <3>1. pc = "emit" /\ n < 0 /\ pc' = "done" /\ pad' = TOpen - Len(nodes) /\ nodes' = nodes /\ s' = s /\ n' = n
      BY <2>4 DEF Pad
    <3>2. Below(s) = Cover(i_delta)
      BY <3>1, MarksArePunctured
    <3>3. Revealed = Below(s)
      <4>1. n = -1
        BY <3>1, LeafCount DEF IInv, TypeOK
      <4> QED
        BY <4>1, RevealedIsBelow
    <3>4. nodes \in Seq(Nodes) /\ Descending(nodes)
      BY DEF IInv, TypeOK, KeyInv
    <3>5. /\ Cardinality(Cover(i_delta)) = Len(nodes)
          /\ nodes = Promise!Canonical(i_delta)
      <4>1. Cover(i_delta) = {nodes[l] : l \in 1 .. Len(nodes)}
        BY <3>2, <3>3 DEF Revealed
      <4> QED
        BY <3>4, <4>1, CanonicalOrder, PromiseTree
    <3>6. Cardinality(Cover(i_delta)) <= TOpen
      BY <3>1, MarksArePunctured DEF IInv, Budget
    <3>7. Outcome = [status |-> "pending"]
      BY <3>1, OutcomeCases, OutcomeCasesNext
    <3>8. Outcome' = [status |-> "opened", nodes |-> nodes, pad |-> TOpen - Len(nodes)]
      BY <3>1, OutcomeCases, OutcomeCasesNext
    <3> QED
      BY <2>0, <3>5, <3>6, <3>7, <3>8, PromiseTree DEF Promise!Answer, Promise!Pending
  <2> QED
    BY <2>1, <2>2, <2>3, <2>4 DEF Next
<1> QED
  BY <1>1, <1>2, Invariance, KeysInvariant, PTL DEF Spec, Promise!SafeSpec

-----------------------------------------------------------------------------
(***************************************************************************)
(* The three calls together.                                               *)
(***************************************************************************)
(* Every step of the exchange is one of bavc_open or leaves it alone.      *)
LEMMA ExchangeStep == [ExchangeNext]_all => [Next]_vars
<1> SUFFICES ASSUME [ExchangeNext]_all PROVE [Next]_vars
  OBVIOUS
<1>1. CASE CommitStep
  BY <1>1 DEF CommitStep
<1>2. CASE OpenStep
  BY <1>2 DEF OpenStep
<1>3. CASE Deliver
  BY <1>3 DEF Deliver
<1>4. CASE ReconstructStep
  BY <1>4 DEF ReconstructStep
<1>5. CASE UNCHANGED all
  BY <1>5 DEF all
<1> QED
  BY <1>1, <1>2, <1>3, <1>4, <1>5 DEF ExchangeNext

(* The exchange implements bavc_open: commit, delivery and reconstruct are *)
(* stuttering steps of it (bavc.c:318-384, 655-662).                       *)
THEOREM ExchangeOpens == ExchangeSpec => Spec
<1>1. ExchangeInit => Init
  BY DEF ExchangeInit
<1> QED
  BY <1>1, ExchangeStep, PTL DEF ExchangeSpec, Spec

(* Whatever was committed, an opening never writes more than T_open keys   *)
(* into the signature (bavc.c:371-383).                                    *)
THEOREM ExchangeWithinBuffer == ExchangeSpec => []FitsBuffer
BY ExchangeOpens, NoOverrun, PTL

(* The number compared with T_open is the number of keys the verifier will *)
(* look for (bavc.c:359).                                                  *)
THEOREM ExchangeGuardExact == ExchangeSpec => []GuardIsExact
BY ExchangeOpens, GuardCountsKeys, PTL

-----------------------------------------------------------------------------
(* Appending to a sequence whose entries may be anything.                  *)
IsTuple(t, m) == t = [l \in 1 .. m |-> t[l]]

LEMMA AppendTuple ==
  ASSUME NEW m \in Nat, NEW t, IsTuple(t, m), NEW e
  PROVE  /\ IsTuple(Append(t, e), m + 1)
         /\ Append(t, e)[m + 1] = e
         /\ \A l \in 1 .. m : Append(t, e)[l] = t[l]
         /\ Len(t) = m
<1> DEFINE S == {t[l] : l \in 1 .. m} \union {e}
<1>1. t \in Seq(S) /\ Len(t) = m /\ e \in S
  <2>1. [l \in 1 .. m |-> t[l]] \in [1 .. m -> S]
    OBVIOUS
  <2>2. t \in [1 .. m -> S]
    BY <2>1 DEF IsTuple
  <2> HIDE DEF S
  <2>3. t \in Seq(S) /\ Len(t) = m
    BY <2>2
  <2> QED
    BY <2>3 DEF S
<1> HIDE DEF S
<1>2. /\ Append(t, e) \in Seq(S) /\ Len(Append(t, e)) = m + 1
      /\ Append(t, e)[m + 1] = e
      /\ \A l \in 1 .. m : Append(t, e)[l] = t[l]
  BY <1>1
<1>3. \A u \in Seq(S) : u = [l \in 1 .. Len(u) |-> u[l]]
  OBVIOUS
<1>4. IsTuple(Append(t, e), m + 1)
  BY <1>2, <1>3 DEF IsTuple
<1> QED
  BY <1>1, <1>2, <1>4

-----------------------------------------------------------------------------
(***************************************************************************)
(* bavc_commit: the keys derive from each other along the tree, the        *)
(* commitments and seeds stand vector by vector, and the hash has absorbed *)
(* every commitment.                                                       *)
(***************************************************************************)
LeafCommitment(v, l) == LeafCom(em, k[PosInTree(v, l)], v + L - 1, IF em THEN 0 ELSE v + 1)
SeedOf(v, l) == LeafSeed(em, k[PosInTree(v, l)], v + L - 1)
RowOf(v) == [m \in 1 .. MaxNodeIndex(v) |-> LeafCommitment(v, m - 1)]

CommitControl ==
  /\ em \in BOOLEAN
  /\ cpc \in {"expand", "vector", "leaf", "done"}
  /\ calpha \in 0 .. L - 1 /\ ci \in 0 .. Tau /\ cj \in Nat
  /\ cpc = "expand" => ci = 0
  /\ cpc # "expand" => calpha = L - 1
  /\ cpc \in {"vector", "leaf"} => ci < Tau
  /\ cpc = "done" => ci = Tau
  /\ cpc = "leaf" => cj <= MaxNodeIndex(ci)
  /\ cpc \in {"expand", "vector"} => uhash = IF em THEN 0 ELSE ci
  /\ cpc = "leaf" => uhash = IF em THEN 0 ELSE ci + 1

(* The keys of the children of the first m nodes are derived from theirs.  *)
Derived(m) ==
  \A p \in 0 .. L - 2 :
    p < m => k[LeftChild(p)] = Prg(k[p], p, 0) /\ k[RightChild(p)] = Prg(k[p], p, 1)

Committed(v, l) == v < ci \/ (cpc = "leaf" /\ v = ci /\ l < cj)

CommitArrays ==
  LET size == FirstLeaf(ci) + (IF cpc = "leaf" THEN cj ELSE 0)
  IN  /\ IsTuple(ccom, size) /\ IsTuple(sd, size)
      /\ \A v \in Vectors : \A l \in 0 .. MaxNodeIndex(v) - 1 :
           Committed(v, l) => /\ ccom[FirstLeaf(v) + l + 1] = LeafCommitment(v, l)
                              /\ sd[FirstLeaf(v) + l + 1] = SeedOf(v, l)

CommitHash ==
  /\ cpc = "leaf" => crow = [m \in 1 .. cj |-> LeafCommitment(ci, m - 1)]
  /\ hcom = [v \in 1 .. ci |-> RowOf(v - 1)]

CommitInv ==
  /\ CommitControl
  /\ k = [a \in Nodes |-> k[a]]
  /\ Derived(calpha)
  /\ CommitArrays
  /\ CommitHash

LEMMA CommitTree ==
  /\ Commit!L = L
  /\ Commit!Nodes = Nodes
  /\ \A a : Commit!LeftChild(a) = LeftChild(a) /\ Commit!RightChild(a) = RightChild(a)
  /\ \A v : Commit!MaxNodeIndex(v) = MaxNodeIndex(v)
  /\ \A v, l : Commit!PosInTree(v, l) = PosInTree(v, l)
BY DEF Commit!L, L, Commit!Nodes, Nodes, Commit!LeftChild, LeftChild, Commit!RightChild, RightChild,
       Commit!MaxNodeIndex, MaxNodeIndex, Commit!PosInTree, PosInTree

LEMMA CommitInit == ExchangeInit => CommitInv
<1> SUFFICES ASSUME ExchangeInit PROVE CommitInv
  OBVIOUS
<1>1. /\ em \in BOOLEAN /\ cpc = "expand" /\ calpha = 0 /\ ci = 0 /\ cj = 0 /\ uhash = 0
      /\ sd = <<>> /\ ccom = <<>> /\ hcom = <<>>
      /\ k = [a \in Nodes |-> IF a = 0 THEN RootKey ELSE Zero]
  BY CommitTree DEF ExchangeInit, Commit!Init
<1>2. FirstLeaf(0) = 0
  BY ParamAssumption DEF FirstLeaf
<1>3. IsTuple(<<>>, 0)
  BY DEF IsTuple
<1>4. CommitControl /\ Derived(calpha)
  BY <1>1, LeafCount, ParamAssumption DEF CommitControl, Derived
<1>5. CommitArrays
  BY <1>1, <1>2, <1>3 DEF CommitArrays, Committed, Vectors
<1>6. CommitHash
  BY <1>1 DEF CommitHash
<1> QED
  BY <1>1, <1>4, <1>5, <1>6 DEF CommitInv

(* An expansion step derives the keys of the next node's children.         *)
LEMMA ExpandSeedInv == CommitInv /\ Commit!ExpandSeed => CommitInv'
<1> SUFFICES ASSUME CommitInv, Commit!ExpandSeed PROVE CommitInv'
  OBVIOUS
<1>0. PICK a : a = calpha
  OBVIOUS
<1>1. /\ cpc = "expand" /\ a < L - 1 /\ calpha' = a + 1
      /\ k' = [k EXCEPT ![LeftChild(a)] = Prg(k[a], a, 0), ![RightChild(a)] = Prg(k[a], a, 1)]
      /\ UNCHANGED <<em, cpc, ci, cj, uhash, sd, ccom, crow, hcom>>
  BY <1>0, CommitTree DEF Commit!ExpandSeed, Commit!Expanded
<1>2. a \in 0 .. L - 2 /\ a \in Nat /\ L \in Nat
  BY <1>0, <1>1, LeafCount DEF CommitInv, CommitControl
<1>3. k = [x \in Nodes |-> k[x]] /\ Derived(a)
  BY <1>0 DEF CommitInv
<1>4. LeftChild(a) \in Nodes /\ RightChild(a) \in Nodes /\ LeftChild(a) # RightChild(a)
  BY <1>2, ChildNode DEF LeftChild, RightChild
<1>5. /\ k' = [x \in Nodes |-> k'[x]]
      /\ k'[LeftChild(a)] = Prg(k[a], a, 0)
      /\ k'[RightChild(a)] = Prg(k[a], a, 1)
      /\ \A x \in Nodes : x # LeftChild(a) /\ x # RightChild(a) => k'[x] = k[x]
  <2> DEFINE x0 == Prg(k[a], a, 0)
             x1 == Prg(k[a], a, 1)
  <2>1. k' = [k EXCEPT ![LeftChild(a)] = x0, ![RightChild(a)] = x1]
    BY <1>1
  <2>2. DOMAIN k = Nodes
    BY <1>3
  <2> HIDE DEF x0, x1
  <2>3. /\ k' = [x \in Nodes |-> k'[x]] /\ k'[LeftChild(a)] = x0 /\ k'[RightChild(a)] = x1
        /\ \A x \in Nodes : x # LeftChild(a) /\ x # RightChild(a) => k'[x] = k[x]
    BY <1>4, <2>1, <2>2
  <2> QED
    BY <2>3 DEF x0, x1
<1>6. Derived(a + 1)'
  <2> SUFFICES ASSUME NEW p \in 0 .. L - 2, p < a + 1
               PROVE  /\ k'[LeftChild(p)] = Prg(k'[p], p, 0)
                      /\ k'[RightChild(p)] = Prg(k'[p], p, 1)
    BY DEF Derived
  <2>1. p \in Nodes /\ p \in Nat /\ p # LeftChild(a) /\ p # RightChild(a)
    BY <1>2 DEF Nodes, LeftChild, RightChild
  <2>2. k'[p] = k[p]
    BY <1>5, <2>1
  <2>3. CASE p = a
    BY <1>5, <2>2, <2>3
  <2>4. CASE p < a
    <3>1. /\ LeftChild(p) \in Nodes /\ RightChild(p) \in Nodes
          /\ LeftChild(p) \notin {LeftChild(a), RightChild(a)}
          /\ RightChild(p) \notin {LeftChild(a), RightChild(a)}
      BY <1>2, <2>1, <2>4, ChildNode DEF LeftChild, RightChild
    <3>2. k'[LeftChild(p)] = k[LeftChild(p)] /\ k'[RightChild(p)] = k[RightChild(p)]
      BY <1>5, <3>1
    <3> QED
      BY <1>3, <2>2, <2>4, <3>2 DEF Derived
  <2> QED
    BY <1>2, <2>1, <2>3, <2>4
<1>7. CommitControl'
  BY <1>1, <1>2 DEF CommitInv, CommitControl
<1>8. ci = 0
  BY <1>1 DEF CommitInv, CommitControl
<1>9. CommitArrays'
  <2>1. \A v \in Vectors : \A l \in 0 .. MaxNodeIndex(v) - 1 : ~ Committed(v, l)'
    BY <1>1, <1>8 DEF Committed, Vectors
  <2>2. IsTuple(ccom, FirstLeaf(ci)) /\ IsTuple(sd, FirstLeaf(ci))
    <3>1. FirstLeaf(ci) + 0 = FirstLeaf(ci)
      BY <1>8, FirstLeafOrder
    <3> QED
      BY <1>1, <3>1 DEF CommitInv, CommitArrays
  <2>3. FirstLeaf(ci') + 0 = FirstLeaf(ci)
    BY <1>1, <1>8, FirstLeafOrder
  <2> QED
    BY <1>1, <2>1, <2>2, <2>3 DEF CommitArrays
<1>10. CommitHash'
  BY <1>1, <1>8 DEF CommitInv, CommitHash
<1> QED
  BY <1>1, <1>5, <1>6, <1>7, <1>9, <1>10 DEF CommitInv

(* When keys and kind of instance stay, so do the leaves' commitments.     *)
LEMMA LeavesStay ==
  ASSUME k' = k, em' = em
  PROVE  /\ \A v, l : LeafCommitment(v, l)' = LeafCommitment(v, l) /\ SeedOf(v, l)' = SeedOf(v, l)
         /\ \A v : RowOf(v)' = RowOf(v)
         /\ \A m : Derived(m)' = Derived(m)
<1>1. \A v, l : LeafCommitment(v, l)' = LeafCommitment(v, l) /\ SeedOf(v, l)' = SeedOf(v, l)
  BY DEF LeafCommitment, SeedOf
<1>2. \A v : RowOf(v)' = RowOf(v)
  BY DEF RowOf, LeafCommitment
<1>3. \A m : Derived(m)' = Derived(m)
  BY DEF Derived
<1> QED
  BY <1>1, <1>2, <1>3

LEMMA EndExpansionInv == CommitInv /\ Commit!EndExpansion => CommitInv'
<1> SUFFICES ASSUME CommitInv, Commit!EndExpansion PROVE CommitInv'
  OBVIOUS
<1>1. /\ cpc = "expand" /\ calpha = L - 1 /\ cpc' = "vector"
      /\ UNCHANGED <<em, calpha, k, ci, cj, uhash, sd, ccom, crow, hcom>>
  BY CommitTree DEF Commit!EndExpansion
<1>2. CommitControl'
  BY <1>1, ParamAssumption DEF CommitInv, CommitControl
<1>3. CommitArrays'
  BY <1>1, LeavesStay DEF CommitInv, CommitArrays, Committed
<1>4. CommitHash' /\ Derived(calpha)' /\ k' = [a \in Nodes |-> k'[a]]
  BY <1>1, LeavesStay DEF CommitInv, CommitHash
<1> QED
  BY <1>2, <1>3, <1>4 DEF CommitInv

LEMMA StartVectorInv == CommitInv /\ Commit!StartVector => CommitInv'
<1> SUFFICES ASSUME CommitInv, Commit!StartVector PROVE CommitInv'
  OBVIOUS
<1>1. /\ cpc = "vector" /\ ci < Tau /\ cpc' = "leaf" /\ cj' = 0 /\ crow' = <<>>
      /\ uhash' = IF em THEN uhash ELSE uhash + 1
      /\ UNCHANGED <<em, calpha, k, ci, sd, ccom, hcom>>
  BY DEF Commit!StartVector, Commit!NextUhash
<1>2. ci \in Nat
  BY DEF CommitInv, CommitControl
<1>3. CommitControl'
  BY <1>1, <1>2, FirstLeafOrder, ParamAssumption DEF CommitInv, CommitControl
<1>4. CommitArrays'
  BY <1>1, LeavesStay DEF CommitInv, CommitArrays, Committed
<1>5. CommitHash' /\ Derived(calpha)' /\ k' = [a \in Nodes |-> k'[a]]
  BY <1>1, LeavesStay DEF CommitInv, CommitHash
<1> QED
  BY <1>3, <1>4, <1>5 DEF CommitInv

(* A leaf is committed to at the place of its vector and its index.        *)
LEMMA CommitLeafInv == CommitInv /\ Commit!CommitLeaf => CommitInv'
<1> SUFFICES ASSUME CommitInv, Commit!CommitLeaf PROVE CommitInv'
  OBVIOUS
<1> DEFINE c == LeafCommitment(ci, cj)
           e == SeedOf(ci, cj)
           size == FirstLeaf(ci) + cj
<1>1. /\ cpc = "leaf" /\ cj < MaxNodeIndex(ci) /\ cj' = cj + 1
      /\ UNCHANGED <<em, cpc, calpha, k, ci, uhash, hcom>>
  BY CommitTree DEF Commit!CommitLeaf
<1>2. /\ ci \in Vectors /\ ci \in Nat /\ cj \in Nat
      /\ uhash = IF em THEN 0 ELSE ci + 1
      /\ cj \in 0 .. MaxNodeIndex(ci) - 1 /\ MaxNodeIndex(ci) \in Nat
  <2>1. ci \in Nat /\ ci \in 0 .. Tau - 1 /\ cj \in Nat /\ uhash = IF em THEN 0 ELSE ci + 1
    BY <1>1, ParamAssumption DEF CommitInv, CommitControl
  <2> QED
    BY <1>1, <2>1, FirstLeafOrder DEF Vectors
<1>3. sd' = Append(sd, e) /\ ccom' = Append(ccom, c) /\ crow' = Append(crow, c)
  BY <1>2, CommitTree DEF Commit!CommitLeaf, Commit!LeafTweak, LeafCommitment, SeedOf
<1>4. IsTuple(sd, size) /\ IsTuple(ccom, size) /\ size \in Nat /\ FirstLeaf(ci) \in Nat
  BY <1>1, <1>2, FirstLeafOrder DEF CommitInv, CommitArrays
<1> HIDE DEF c, e, size
<1>5. /\ IsTuple(sd', size + 1) /\ sd'[size + 1] = e /\ \A l \in 1 .. size : sd'[l] = sd[l]
      /\ IsTuple(ccom', size + 1) /\ ccom'[size + 1] = c /\ \A l \in 1 .. size : ccom'[l] = ccom[l]
  <2>1. /\ IsTuple(Append(sd, e), size + 1) /\ Append(sd, e)[size + 1] = e
        /\ \A l \in 1 .. size : Append(sd, e)[l] = sd[l]
    BY <1>4, AppendTuple
  <2>2. /\ IsTuple(Append(ccom, c), size + 1) /\ Append(ccom, c)[size + 1] = c
        /\ \A l \in 1 .. size : Append(ccom, c)[l] = ccom[l]
    BY <1>4, AppendTuple
  <2> QED
    BY <1>3, <2>1, <2>2
<1>6. CommitControl'
  BY <1>1, <1>2 DEF CommitInv, CommitControl
<1>7. ASSUME NEW v \in Vectors, NEW l \in 0 .. MaxNodeIndex(v) - 1, Committed(v, l)'
      PROVE  /\ ccom'[FirstLeaf(v) + l + 1] = LeafCommitment(v, l)
             /\ sd'[FirstLeaf(v) + l + 1] = SeedOf(v, l)
  <2>1. v \in Nat /\ l \in Nat /\ FirstLeaf(v) \in Nat /\ MaxNodeIndex(v) \in Nat
    <3>1. v \in Nat
      BY DEF Vectors
    <3> QED
      BY <3>1, FirstLeafOrder
  <2>2. CASE v = ci /\ l = cj
    BY <1>5, <2>2 DEF c, e, size
  <2>3. CASE Committed(v, l)
    <3>1. FirstLeaf(v) + l + 1 \in 1 .. size
      <4>1. CASE v < ci
        <5>1. FirstLeaf(v) + MaxNodeIndex(v) <= FirstLeaf(ci)
          BY <1>2, <2>1, <4>1, FirstLeafOrder
        <5> QED
          BY <1>2, <1>4, <2>1, <5>1 DEF size
      <4>2. CASE v = ci /\ l < cj
        BY <1>2, <1>4, <2>1, <4>2 DEF size
      <4> QED
        BY <2>3, <4>1, <4>2 DEF Committed
    <3>2. /\ ccom[FirstLeaf(v) + l + 1] = LeafCommitment(v, l)
          /\ sd[FirstLeaf(v) + l + 1] = SeedOf(v, l)
      BY <2>3 DEF CommitInv, CommitArrays
    <3> QED
      BY <1>5, <3>1, <3>2
  <2>4. v < ci \/ (v = ci /\ l < cj + 1)
    BY <1>1, <1>7 DEF Committed
  <2> QED
    BY <1>1, <1>2, <2>1, <2>2, <2>3, <2>4 DEF Committed
<1>8. CommitArrays'
  <2>1. FirstLeaf(ci') + cj' = size + 1
    BY <1>1, <1>2, <1>4 DEF size
  <2> QED
    BY <1>1, <1>5, <1>7, <2>1, LeavesStay DEF CommitArrays
<1>9. CommitHash'
  <2>1. crow = [m \in 1 .. cj |-> LeafCommitment(ci, m - 1)]
    BY <1>1 DEF CommitInv, CommitHash
  <2>2. IsTuple(crow, cj)
    BY <2>1 DEF IsTuple
  <2>3. /\ IsTuple(crow', cj + 1) /\ crow'[cj + 1] = c
        /\ \A m \in 1 .. cj : crow'[m] = crow[m]
    BY <1>2, <1>3, <2>2, AppendTuple
  <2>4. \A m \in 1 .. cj + 1 : crow'[m] = LeafCommitment(ci, m - 1)
    <3> TAKE m \in 1 .. cj + 1
    <3>1. CASE m = cj + 1
      BY <1>2, <2>3, <3>1 DEF c
    <3>2. CASE m \in 1 .. cj
      BY <2>1, <2>3, <3>2
    <3> QED
      BY <1>2, <3>1, <3>2
  <2>5. crow' = [m \in 1 .. cj + 1 |-> LeafCommitment(ci, m - 1)]
    BY <2>3, <2>4 DEF IsTuple
  <2>6. crow' = [m \in 1 .. cj + 1 |-> LeafCommitment(ci, m - 1)']
    BY <1>1, <2>5, LeavesStay
  <2> QED
    BY <1>1, <2>6, LeavesStay DEF CommitInv, CommitHash, LeafCommitment
<1>10. Derived(calpha)' /\ k' = [a \in Nodes |-> k'[a]]
  BY <1>1, LeavesStay DEF CommitInv
<1> QED
  BY <1>6, <1>8, <1>9, <1>10 DEF CommitInv

LEMMA EndVectorInv == CommitInv /\ Commit!EndVector => CommitInv'
<1> SUFFICES ASSUME CommitInv, Commit!EndVector PROVE CommitInv'
  OBVIOUS
<1>1. /\ cpc = "leaf" /\ cj = MaxNodeIndex(ci) /\ hcom' = Append(hcom, crow)
      /\ ci' = ci + 1 /\ cpc' = IF ci' = Tau THEN "done" ELSE "vector"
      /\ UNCHANGED <<em, calpha, k, cj, uhash, sd, ccom, crow>>
  BY CommitTree DEF Commit!EndVector
<1>2. ci \in Nat /\ ci < Tau /\ Tau \in Nat /\ uhash = IF em THEN 0 ELSE ci + 1
  BY <1>1, ParamAssumption DEF CommitInv, CommitControl
<1>3. CommitControl'
  BY <1>1, <1>2 DEF CommitInv, CommitControl
<1>4. CommitArrays'
  <2>1. FirstLeaf(ci') + 0 = FirstLeaf(ci) + cj
    <3>1. FirstLeaf(ci + 1) = FirstLeaf(ci) + MaxNodeIndex(ci)
      BY <1>2, FirstLeafNext
    <3>2. FirstLeaf(ci + 1) \in Nat
      BY <1>2, FirstLeafOrder
    <3>3. ci' = ci + 1 /\ cj = MaxNodeIndex(ci)
      BY <1>1
    <3> QED
      BY <3>1, <3>2, <3>3
  <2>2. ASSUME NEW v \in Vectors, NEW l \in 0 .. MaxNodeIndex(v) - 1, Committed(v, l)'
        PROVE  Committed(v, l)
    <3>1. v < ci + 1 /\ v \in Nat
      BY <1>1, <2>2 DEF Committed, Vectors
    <3>2. MaxNodeIndex(v) \in Nat
      BY <3>1, FirstLeafOrder
    <3>3. v < ci \/ (v = ci /\ l < MaxNodeIndex(v))
      BY <1>2, <3>1, <3>2
    <3> QED
      BY <1>1, <3>3 DEF Committed
  <2> QED
    BY <1>1, <2>1, <2>2, LeavesStay DEF CommitInv, CommitArrays
<1>5. CommitHash'
  <2>1. crow = RowOf(ci) /\ hcom = [v \in 1 .. ci |-> RowOf(v - 1)]
    BY <1>1 DEF CommitInv, CommitHash, RowOf
  <2>2. IsTuple(hcom, ci)
    BY <2>1 DEF IsTuple
  <2>3. /\ IsTuple(hcom', ci + 1) /\ hcom'[ci + 1] = RowOf(ci)
        /\ \A v \in 1 .. ci : hcom'[v] = hcom[v]
    BY <1>1, <1>2, <2>1, <2>2, AppendTuple
  <2>4. \A v \in 1 .. ci + 1 : hcom'[v] = RowOf(v - 1)
    <3> TAKE v \in 1 .. ci + 1
    <3>1. CASE v = ci + 1
      BY <1>2, <2>3, <3>1
    <3>2. CASE v \in 1 .. ci
      BY <2>1, <2>3, <3>2
    <3> QED
      BY <1>2, <3>1, <3>2
  <2>5. hcom' = [v \in 1 .. ci + 1 |-> RowOf(v - 1)]
    BY <2>3, <2>4 DEF IsTuple
  <2>6. hcom' = [v \in 1 .. ci' |-> RowOf(v - 1)']
    BY <1>1, <2>5, LeavesStay
  <2>7. cpc' # "leaf"
    BY <1>1
  <2> QED
    BY <2>6, <2>7 DEF CommitHash
<1>6. Derived(calpha)' /\ k' = [a \in Nodes |-> k'[a]]
  BY <1>1, LeavesStay DEF CommitInv
<1> QED
  BY <1>3, <1>4, <1>5, <1>6 DEF CommitInv

LEMMA CommitStays == CommitInv /\ UNCHANGED committer => CommitInv'
<1> SUFFICES ASSUME CommitInv, UNCHANGED committer PROVE CommitInv'
  OBVIOUS
<1>1. UNCHANGED <<em, cpc, calpha, ci, cj, uhash, crow, k, sd, ccom, hcom>>
  BY DEF committer
<1>2. CommitControl' /\ Derived(calpha)' /\ k' = [a \in Nodes |-> k'[a]]
  BY <1>1, LeavesStay DEF CommitInv, CommitControl
<1>3. CommitArrays'
  BY <1>1, LeavesStay DEF CommitInv, CommitArrays, Committed
<1>4. CommitHash'
  BY <1>1, LeavesStay DEF CommitInv, CommitHash
<1> QED
  BY <1>2, <1>3, <1>4 DEF CommitInv

(* Where the seeds of a vector stand when one of each vector is left out.  *)
LEMMA FirstSdOrder ==
  ASSUME NEW v \in Nat, NEW w \in Nat
  PROVE  /\ FirstSd(v) \in Nat
         /\ FirstSd(v + 1) = FirstSd(v) + MaxNodeIndex(v) - 1
         /\ v <= w => FirstSd(v) <= FirstSd(w)
         /\ v < w => FirstSd(v) + MaxNodeIndex(v) - 1 <= FirstSd(w)
<1> DEFINE A == 2 * Width - 1
           B == Width - 1
<1>0. Width \in Nat \ {0} /\ Tau1 \in Nat /\ A \in Nat /\ B \in Nat
  BY ParamAssumption
<1>1. \A a \in Nat : FirstSd(a) = IF a <= Tau1 THEN A * a ELSE B * (a + Tau1) + Tau1
  <2> TAKE a \in Nat
  <2>1. 2 * Width * a - a = A * a
    BY <1>0
  <2>2. Width * (a + Tau1) - a = B * (a + Tau1) + Tau1
    BY <1>0
  <2> QED
    BY <2>1, <2>2 DEF FirstSd, FirstLeaf
<1>2. A * Tau1 = B * (Tau1 + Tau1) + Tau1
  BY <1>0
<1> HIDE DEF A, B
<1>3. ASSUME NEW a \in Nat, NEW b \in Nat, a <= b
      PROVE  FirstSd(a) \in Nat /\ FirstSd(a) <= FirstSd(b)
  <2>1. A * a \in Nat /\ A * b \in Nat /\ A * a <= A * b
    BY <1>0, <1>3, ProductOrder
  <2>2. /\ B * (a + Tau1) \in Nat /\ B * (b + Tau1) \in Nat
        /\ B * (a + Tau1) <= B * (b + Tau1)
    BY <1>0, <1>3, ProductOrder
  <2>3. A * Tau1 \in Nat /\ (a <= Tau1 => A * a <= A * Tau1)
    BY <1>0, ProductOrder
  <2>4. b >= Tau1 => B * (Tau1 + Tau1) <= B * (b + Tau1)
    BY <1>0, ProductOrder
  <2>5. B * (Tau1 + Tau1) \in Nat
    BY <1>0
  <2>6. CASE b <= Tau1
    BY <1>0, <1>1, <1>3, <2>1, <2>6
  <2>7. CASE a > Tau1
    BY <1>0, <1>1, <1>3, <2>2, <2>7
  <2>8. CASE a <= Tau1 /\ b > Tau1
    <3>1. FirstSd(a) = A * a /\ FirstSd(b) = B * (b + Tau1) + Tau1
      BY <1>0, <1>1, <2>8
    <3> QED
      BY <1>0, <1>2, <2>1, <2>2, <2>3, <2>4, <2>5, <2>8, <3>1
  <2> QED
    BY <1>0, <2>6, <2>7, <2>8
<1>4. FirstSd(v + 1) = FirstSd(v) + MaxNodeIndex(v) - 1
  BY FirstLeafNext, FirstLeafOrder DEF FirstSd
<1>5. v < w => FirstSd(v + 1) <= FirstSd(w)
  BY <1>3
<1> QED
  BY <1>3, <1>4, <1>5

LEMMA FirstSdLast == FirstSd(Tau) = L - Tau
<1>1. Tau > Tau1 /\ Tau \in Nat /\ Tau1 \in Nat /\ Width \in Nat
  BY ParamAssumption
<1>2. FirstLeaf(Tau) = Width * (Tau + Tau1)
  BY <1>1 DEF FirstLeaf
<1>3. L = Width * (Tau + Tau1)
  BY <1>1, LeafCount
<1> QED
  BY <1>2, <1>3 DEF FirstSd

-----------------------------------------------------------------------------
(***************************************************************************)
(* bavc_reconstruct: what it holds of an opening, and of an honest one.    *)
(***************************************************************************)
VControl ==
  /\ vpc \in {"wait", "mark", "take", "expand", "leaf", "done", "failed"}
  /\ vpc # "wait" => pc = "done" /\ cpc = "done" /\ decom \in Received
  /\ delta \in Deltas
  /\ vn \in -1 .. L - 2 /\ va \in 0 .. L - 1 /\ vi \in 0 .. Tau /\ vj \in Nat /\ nd \in Nat
  /\ keys = [x \in Nodes |-> keys[x]]
  /\ vpc \in {"wait", "mark"} => vn = L - 2 /\ nd = 0
  /\ vpc \in {"wait", "mark", "take"} => va = 0
  /\ vpc \in {"expand", "leaf", "done"} => vn = -1
  /\ vpc \in {"leaf", "done"} => va = L - 1
  /\ vpc \notin {"leaf", "done"} => vi = 0 /\ vj = 0 /\ sds = <<>> /\ vrow = <<>> /\ vh = <<>>
  /\ vpc = "leaf" => vi < Tau /\ vj <= MaxNodeIndex(vi)
  /\ vpc = "done" => vi = Tau /\ vj = 0

(* The marks above the index of the descending loop are the secret nodes.  *)
VMarks ==
  vpc \in {"take", "expand", "leaf", "done"} => vs = {x \in Punctured(delta) : x > vn}

(* The seeds so far, each at its place and made of the key at its leaf.    *)
Taken(v, l) == v < vi \/ (vpc = "leaf" /\ v = vi /\ l < vj)
SeedPlace(v, l) == FirstSd(v) + (IF l > delta[v] THEN l ELSE l + 1)
SeedCount == FirstSd(vi) + (IF vpc = "leaf" /\ vj > delta[vi] THEN vj - 1 ELSE vj)
VSeeds ==
  /\ IsTuple(sds, SeedCount)
  /\ \A v \in Vectors : \A l \in (0 .. MaxNodeIndex(v) - 1) \ {delta[v]} :
       Taken(v, l) => sds[SeedPlace(v, l)] = LeafSeed(em, keys[PosInTree(v, l)], v + L - 1)

(* When the verifier has the committer's challenge, the keys taken so far  *)
(* went to the nodes bavc_open copied them from ...                        *)
TakenKeys ==
  /\ nd <= Len(nodes)
  /\ \A m \in 1 .. Len(nodes) : /\ m <= nd <=> Parent(nodes[m]) > vn
                                /\ m <= nd => keys[nodes[m]] = decom.nodes[m]

(* ... and in the end all have, and the slots left over are zero.          *)
AllTaken ==
  /\ \A m \in 1 .. Len(nodes) : keys[nodes[m]] = decom.nodes[m]
  /\ \A m \in Len(nodes) + 1 .. TOpen : decom.nodes[m] = Zero

VTaken ==
  vpc # "wait" /\ delta = i_delta =>
    /\ vpc \in {"mark", "take"} => TakenKeys
    /\ vpc \in {"expand", "leaf", "done"} => AllTaken
    /\ vpc = "failed" => decom # Sent

(* Below the secret nodes the keys are derived from each other.            *)
VDerived ==
  vpc \in {"expand", "leaf", "done"} =>
    \A p \in (0 .. L - 2) \ Punctured(delta) :
      p < va => /\ keys[LeftChild(p)] = Prg(keys[p], p, 0)
                /\ keys[RightChild(p)] = Prg(keys[p], p, 1)

(* The hash has absorbed the commitment sent for a hidden leaf and those   *)
(* recomputed for the others.                                              *)
Rehashed(v, l) ==
  IF l = delta[v] THEN decom.coms[v + 1]
  ELSE LeafCom(em, keys[PosInTree(v, l)], v + L - 1, IF em THEN 0 ELSE v + 1)
RehashedRow(v) == [m \in 1 .. MaxNodeIndex(v) |-> Rehashed(v, m - 1)]
VHash ==
  /\ vpc = "leaf" => vrow = [m \in 1 .. vj |-> Rehashed(vi, m - 1)]
  /\ vpc \in {"leaf", "done"} => vh = [v \in 1 .. vi |-> RehashedRow(v - 1)]

VerifyInv == VControl /\ VMarks /\ VSeeds /\ VTaken /\ VDerived /\ VHash

LEMMA VerifierTree ==
  /\ Verifier!L = L
  /\ Verifier!Nodes = Nodes
  /\ Verifier!Vectors = Vectors
  /\ \A a : /\ Verifier!LeftChild(a) = LeftChild(a) /\ Verifier!RightChild(a) = RightChild(a)
            /\ Verifier!Children(a) = Children(a)
  /\ \A v : Verifier!MaxNodeIndex(v) = MaxNodeIndex(v)
  /\ \A v, l : Verifier!PosInTree(v, l) = PosInTree(v, l)
  /\ \A d : Verifier!HiddenLeaves(d) = HiddenLeaves(d)
BY DEF Verifier!L, L, Verifier!Nodes, Nodes, Verifier!Vectors, Vectors,
       Verifier!LeftChild, LeftChild, Verifier!RightChild, RightChild, Verifier!Children, Children,
       Verifier!MaxNodeIndex, MaxNodeIndex, Verifier!PosInTree, PosInTree,
       Verifier!HiddenLeaves, HiddenLeaves

(* The hidden leaf of each vector, for any challenge.                      *)
LEMMA DeltaFacts ==
  ASSUME NEW d \in Deltas, NEW v \in Vectors
  PROVE  /\ v \in Nat /\ MaxNodeIndex(v) \in Nat
         /\ d[v] \in Nat /\ d[v] < MaxNodeIndex(v)
         /\ \A l \in 0 .. MaxNodeIndex(v) - 1 :
              /\ PosInTree(v, l) \in Leaves /\ PosInTree(v, l) \in Nodes
              /\ PosInTree(v, l) \in Punctured(d) <=> l = d[v]
<1>1. \A w \in Vectors : w \in Nat /\ d[w] \in Nat /\ d[w] < MaxNodeIndex(w) /\ MaxNodeIndex(w) \in Nat
  <2> TAKE w \in Vectors
  <2>1. w \in Nat
    BY ParamAssumption DEF Vectors
  <2>2. d[w] \in 0 .. 2 * Width - 1 /\ d[w] < MaxNodeIndex(w)
    BY DEF Deltas
  <2> QED
    BY <2>1, <2>2, FirstLeafOrder, ParamAssumption
<1>2. ASSUME NEW l \in 0 .. MaxNodeIndex(v) - 1
      PROVE  /\ PosInTree(v, l) \in Leaves /\ PosInTree(v, l) \in Nodes
             /\ PosInTree(v, l) \in Punctured(d) <=> l = d[v]
  <2>1. l \in Nat /\ l < MaxNodeIndex(v)
    BY <1>1
  <2>2. PosInTree(v, l) \in Leaves /\ PosInTree(v, l) \in Nodes
    BY <2>1, PosInTreeIsLeaf, LeavesAreNodes
  <2>3. PosInTree(v, l) \in Punctured(d) <=> PosInTree(v, l) \in HiddenLeaves(d)
    BY <2>2, PuncturedFacts
  <2>4. PosInTree(v, l) \in HiddenLeaves(d) <=> \E w \in Vectors : PosInTree(v, l) = PosInTree(w, d[w])
    BY DEF HiddenLeaves
  <2>5. \A w \in Vectors : PosInTree(v, l) = PosInTree(w, d[w]) => w = v /\ l = d[v]
    BY <1>1, <2>1, PosInTreeInjective
  <2> QED
    BY <2>2, <2>3, <2>4, <2>5
<1> QED
  BY <1>1, <1>2

(* While the verifier works the committed arrays, the opening and what     *)
(* arrived of it stay.                                                     *)
LEMMA ExchangeStays ==
  ASSUME UNCHANGED <<vars, committer>>
  PROVE  /\ UNCHANGED <<i_delta, pc, s, coms, n, nodes, pad, em, cpc, k, sd, ccom, hcom>>
         /\ Sent' = Sent /\ Received' = Received
<1>1. UNCHANGED <<i_delta, pc, s, coms, n, nodes, pad, em, cpc, k, sd, ccom, hcom>>
  BY DEF vars, committer
<1>2. Sent' = Sent
  BY <1>1 DEF Sent
<1>3. Received' = Received
  BY <1>1, <1>2 DEF Received
<1> QED
  BY <1>1, <1>2, <1>3

(* What bavc_open has written when it is done (bavc.c:361-384).            *)
LEMMA OpeningFacts ==
  ASSUME IInv, KeyInv, CopyInv, CommitInv, pc = "done", cpc = "done"
  PROVE  /\ i_delta \in Deltas
         /\ nodes \in Seq(Nodes) /\ Descending(nodes)
         /\ Below(Punctured(i_delta)) = {nodes[m] : m \in 1 .. Len(nodes)}
         /\ Len(nodes) \in Nat /\ Len(nodes) <= TOpen
         /\ \A m \in 1 .. TOpen :
              Sent.nodes[m] = IF m <= Len(nodes) THEN k[nodes[m]] ELSE Zero
         /\ \A v \in Vectors : Sent.coms[v + 1] = LeafCommitment(v, i_delta[v])
         /\ Derived(L - 1)
<1>1. /\ i_delta \in Deltas /\ nodes \in Seq(Nodes) /\ n = -1 /\ pad = TOpen - Len(nodes)
      /\ Descending(nodes) /\ TOpen \in Nat
  BY OpenAssumption DEF IInv, TypeOK, Control, Budget, KeyInv
<1>2. Below(Punctured(i_delta)) = {nodes[m] : m \in 1 .. Len(nodes)}
  <2>1. s = Punctured(i_delta)
    BY MarksArePunctured
  <2> QED
    BY <1>1, <2>1, RevealedIsBelow DEF Revealed
<1>3. Len(nodes) \in Nat /\ Len(nodes) <= TOpen
  <2>1. Len(nodes) = Cardinality(Ones(n)) /\ nh - 2 * Tau + 1 <= TOpen
    BY DEF IInv, Budget, Writing
  <2>2. Cardinality(Ones(-1)) = nh - 2 * Tau + 1
    BY AllOnes DEF Writing
  <2>3. Len(nodes) \in Nat
    BY <1>1
  <2> QED
    BY <1>1, <2>1, <2>2, <2>3
<1>4. ASSUME NEW m \in 1 .. TOpen
      PROVE  Sent.nodes[m] = IF m <= Len(nodes) THEN k[nodes[m]] ELSE Zero
  <2>1. Len(nodes) + pad = TOpen
    BY <1>1, <1>3
  <2>2. Sent.nodes = [l \in 1 .. TOpen |-> IF l <= Len(nodes) THEN k[nodes[l]] ELSE Zero]
    BY <2>1 DEF Sent
  <2> QED
    BY <2>2
<1>5. ASSUME NEW v \in Vectors
      PROVE  Sent.coms[v + 1] = LeafCommitment(v, i_delta[v])
  <2>1. v \in Nat /\ v + 1 \in 1 .. Tau /\ (v + 1) - 1 = v /\ v < Tau
    BY ParamAssumption DEF Vectors
  <2>2. i_delta[v] \in 0 .. MaxNodeIndex(v) - 1
    BY <1>1, DeltaFacts
  <2>3. Sent.coms[v + 1] = ccom[coms[v + 1] + 1]
    BY <2>1 DEF Sent
  <2>4. coms[v + 1] = FirstLeaf(v) + i_delta[v]
    <3>1. Len(coms) = Tau /\ \A w \in 1 .. Len(coms) : coms[w] = FirstLeaf(w - 1) + i_delta[w - 1]
      BY DEF CopyInv, Writing
    <3>2. coms[v + 1] = FirstLeaf((v + 1) - 1) + i_delta[(v + 1) - 1]
      BY <2>1, <3>1
    <3> QED
      BY <2>1, <3>2
  <2>5. Committed(v, i_delta[v])
    BY <2>1 DEF CommitInv, CommitControl, Committed
  <2> QED
    BY <2>2, <2>3, <2>4, <2>5 DEF CommitInv, CommitArrays
<1>6. Derived(L - 1)
  BY DEF CommitInv, CommitControl
<1> QED
  BY <1>1, <1>2, <1>3, <1>4, <1>5, <1>6

SignerInv == IInv /\ KeyInv /\ CopyInv /\ CommitInv

LEMMA VerifyInit == ExchangeInit => VerifyInv
<1> SUFFICES ASSUME ExchangeInit PROVE VerifyInv
  OBVIOUS
<1>1. /\ vpc = "wait" /\ delta = [v \in Vectors |-> 0] /\ vn = L - 2 /\ va = 0 /\ vi = 0 /\ vj = 0
      /\ nd = 0 /\ keys = [x \in Nodes |-> Zero] /\ sds = <<>> /\ vrow = <<>> /\ vh = <<>>
  BY VerifierTree DEF ExchangeInit, Verifier!Init
<1>2. delta \in Deltas
  <2>1. \A v \in Vectors : 0 < MaxNodeIndex(v)
    BY FirstLeafOrder, ParamAssumption DEF Vectors
  <2> QED
    BY <1>1, <2>1, ParamAssumption DEF Deltas
<1>3. VControl
  BY <1>1, <1>2, LeafCount, ParamAssumption DEF VControl
<1>4. VMarks /\ VTaken /\ VDerived /\ VHash
  BY <1>1 DEF VMarks, VTaken, VDerived, VHash
<1>5. VSeeds
  <2>1. SeedCount = 0
    <3>1. FirstSd(0) = 0
      BY ParamAssumption DEF FirstSd, FirstLeaf
    <3> QED
      BY <1>1, <3>1 DEF SeedCount
  <2>2. \A v \in Vectors : \A l : ~ Taken(v, l)
    BY <1>1 DEF Taken, Vectors
  <2> QED
    BY <1>1, <2>1, <2>2 DEF VSeeds, IsTuple
<1> QED
  BY <1>3, <1>4, <1>5 DEF VerifyInv

(* Before the loop over the leaves no seed is written.                     *)
LEMMA NoSeedsYet == (vi = 0 /\ vj = 0 /\ sds = <<>> /\ vpc # "leaf") => VSeeds
<1> SUFFICES ASSUME vi = 0, vj = 0, sds = <<>>, vpc # "leaf" PROVE VSeeds
  OBVIOUS
<1>1. SeedCount = 0
  <2>1. FirstSd(0) = 0
    BY ParamAssumption DEF FirstSd, FirstLeaf
  <2> QED
    BY <2>1 DEF SeedCount
<1>2. \A v \in Vectors : \A l : ~ Taken(v, l)
  BY DEF Taken, Vectors
<1> QED
  BY <1>1, <1>2 DEF VSeeds, IsTuple

LEMMA DeliverInv == SignerInv /\ VerifyInv /\ cpc = "done" /\ Deliver => VerifyInv'
<1> SUFFICES ASSUME SignerInv, VerifyInv, cpc = "done", Deliver PROVE VerifyInv'
  OBVIOUS
<1>1. /\ vpc = "wait" /\ vpc' = "mark" /\ delta' \in Deltas /\ decom' \in Received /\ pc = "done"
      /\ UNCHANGED <<vs, keys, nd, vn, va, vi, vj, sds, vrow, vh>>
      /\ UNCHANGED <<vars, committer>>
  BY DEF Deliver, Verifier!Receive
<1>2. /\ UNCHANGED <<i_delta, pc, s, coms, n, nodes, pad, em, cpc, k, sd, ccom, hcom>>
      /\ Received' = Received
  BY <1>1, ExchangeStays
<1>3. VControl'
  BY <1>1, <1>2 DEF VerifyInv, VControl
<1>4. VMarks'
  BY <1>1 DEF VMarks
<1>5. VSeeds'
  <2>1. (vi = 0 /\ vj = 0 /\ sds = <<>> /\ vpc # "leaf")'
    BY <1>1 DEF VerifyInv, VControl
  <2> QED
    BY <2>1, NoSeedsYet, PTL
<1>6. VTaken' /\ VDerived' /\ VHash'
  <2>1. nd = 0 /\ vn = L - 2 /\ Len(nodes) \in Nat
    BY <1>1, OpeningFacts DEF SignerInv, VerifyInv, VControl
  <2>2. \A m \in 1 .. Len(nodes) : nodes[m] \in Nodes \ {0}
    BY DEF SignerInv, IInv, RevealedUnmarked
  <2>3. \A m \in 1 .. Len(nodes) : ~ (Parent(nodes[m]) > L - 2) /\ ~ (m <= 0)
    BY <2>2, ParentInner, LeafCount
  <2>4. TakenKeys'
    BY <1>1, <1>2, <2>1, <2>3 DEF TakenKeys
  <2> QED
    BY <1>1, <2>4 DEF VTaken, VDerived, VHash
<1> QED
  BY <1>3, <1>4, <1>5, <1>6 DEF VerifyInv

LEMMA MarkLeavesInv ==
  ASSUME SignerInv, VerifyInv, Verifier!MarkLeaves, UNCHANGED <<vars, committer>>
  PROVE  VerifyInv'
<1>1. /\ vpc = "mark" /\ vs' = HiddenLeaves(delta) /\ vpc' = "take"
      /\ UNCHANGED <<delta, decom, keys, nd, vn, va, vi, vj, sds, vrow, vh>>
  BY VerifierTree DEF Verifier!MarkLeaves
<1>2. UNCHANGED <<i_delta, pc, cpc, nodes>> /\ Received' = Received
  BY ExchangeStays
<1>3. VControl'
  BY <1>1, <1>2 DEF VerifyInv, VControl
<1>4. VMarks'
  <2>1. vn = L - 2 /\ delta \in Deltas
    BY <1>1 DEF VerifyInv, VControl
  <2>2. \A x \in Nodes : x \in Leaves <=> x > L - 2
    BY LeafCount DEF Nodes, Leaves
  <2>3. HiddenLeaves(delta) = {x \in Punctured(delta) : x > L - 2}
    BY <2>1, <2>2, PuncturedFacts
  <2> QED
    BY <1>1, <2>1, <2>3 DEF VMarks
<1>5. VSeeds'
  <2>1. (vi = 0 /\ vj = 0 /\ sds = <<>> /\ vpc # "leaf")'
    BY <1>1 DEF VerifyInv, VControl
  <2> QED
    BY <2>1, NoSeedsYet, PTL
<1>6. VTaken' /\ VDerived' /\ VHash'
  <2>1. delta = i_delta => TakenKeys
    BY <1>1 DEF VerifyInv, VTaken
  <2>2. TakenKeys => TakenKeys'
    BY <1>1, <1>2 DEF TakenKeys
  <2> QED
    BY <1>1, <1>2, <2>1, <2>2 DEF VTaken, VDerived, VHash
<1> QED
  BY <1>3, <1>4, <1>5, <1>6 DEF VerifyInv

(* An inner node whose bit is recomputed: it becomes the bit of the tree.  *)
LEMMA Remarked ==
  ASSUME NEW d \in Deltas, NEW p \in 0 .. L - 2,
         NEW S, S = {x \in Punctured(d) : x > p}
  PROVE  /\ LeftChild(p) \in S <=> LeftChild(p) \in Punctured(d)
         /\ RightChild(p) \in S <=> RightChild(p) \in Punctured(d)
         /\ (IF Children(p) \intersect S # {} THEN S \union {p} ELSE S \ {p})
              = {x \in Punctured(d) : x > p - 1}
<1> DEFINE P == Punctured(d)
<1>1. /\ P \in SUBSET Nodes
      /\ p \in P <=> LeftChild(p) \in P \/ RightChild(p) \in P
  BY PuncturedFacts
<1>2. p \in Nat /\ LeftChild(p) > p /\ RightChild(p) > p
  BY DEF LeftChild, RightChild
<1>3. Nodes \subseteq Nat
  BY DEF Nodes
<1> HIDE DEF P
<1>4. S = {x \in P : x > p}
  BY DEF P
<1>5. /\ LeftChild(p) \in S <=> LeftChild(p) \in P
      /\ RightChild(p) \in S <=> RightChild(p) \in P
  BY <1>2, <1>4
<1>6. Children(p) \intersect S # {} <=> p \in P
  BY <1>1, <1>5 DEF Children
<1>7. \A x \in P : x > p - 1 <=> x > p \/ x = p
  BY <1>1, <1>2, <1>3
<1>8. (IF p \in P THEN S \union {p} ELSE S \ {p}) = {x \in P : x > p - 1}
  <2>1. p \in P => S \union {p} = {x \in P : x > p - 1}
    BY <1>4, <1>7
  <2>2. p \notin P => S \ {p} = {x \in P : x > p - 1}
    BY <1>4, <1>7
  <2> QED
    BY <2>1, <2>2
<1> QED
  BY <1>5, <1>6, <1>8 DEF P

(* The next key of an honest opening is the one the verifier lacks: the    *)
(* opening has a key for inner node p exactly when one child of p is       *)
(* secret, and then it is the key of the other one.                        *)
LEMMA NextKey ==
  ASSUME SignerInv, VerifyInv, pc = "done", cpc = "done", delta = i_delta, TakenKeys,
         NEW p \in 0 .. L - 2, p = vn,
         NEW P, P = Punctured(delta),
         NEW c, c = 2 * p + 1 + (IF LeftChild(p) \in P THEN 1 ELSE 0)
  PROVE  IF (LeftChild(p) \in P) # (RightChild(p) \in P)
         THEN /\ nd + 1 \in 1 .. Len(nodes)
              /\ nodes[nd + 1] = c /\ c \in Nodes
              /\ \A m \in 1 .. Len(nodes) : m <= nd + 1 <=> Parent(nodes[m]) > p - 1
         ELSE \A m \in 1 .. Len(nodes) : m <= nd <=> Parent(nodes[m]) > p - 1
<1>1. /\ nodes \in Seq(Nodes) /\ Descending(nodes) /\ Len(nodes) \in Nat
      /\ Below(P) = {nodes[m] : m \in 1 .. Len(nodes)}
      /\ delta \in Deltas
  BY OpeningFacts DEF SignerInv
<1>2. /\ nd \in Nat /\ nd <= Len(nodes) /\ p \in Nat
      /\ \A m \in 1 .. Len(nodes) : m <= nd <=> Parent(nodes[m]) > p
  BY DEF TakenKeys, VerifyInv, VControl
<1>3. /\ P \in SUBSET Nodes
      /\ \A x \in 0 .. L - 2 : x \in P <=> LeftChild(x) \in P \/ RightChild(x) \in P
  BY <1>1, PuncturedFacts
<1>4. \A m \in 1 .. Len(nodes) :
        /\ nodes[m] \in Nat
        /\ Parent(nodes[m]) \in P /\ Parent(nodes[m]) \in Nat
        /\ nodes[m] \in {LeftChild(Parent(nodes[m])), RightChild(Parent(nodes[m]))} \ P
  <2> TAKE m \in 1 .. Len(nodes)
  <2>1. nodes[m] \in Nodes \ P /\ nodes[m] # 0 /\ Parent(nodes[m]) \in P
    BY <1>1 DEF Below
  <2>2. /\ Parent(nodes[m]) \in 0 .. L - 2
        /\ nodes[m] = LeftChild(Parent(nodes[m])) \/ nodes[m] = RightChild(Parent(nodes[m]))
    BY <2>1, ParentInner
  <2> QED
    BY <2>1, <2>2 DEF Nodes
<1>5. CASE (LeftChild(p) \in P) # (RightChild(p) \in P)
  <2>1. /\ c \in Nodes /\ c \notin P /\ c # 0 /\ Parent(c) = p /\ c \in Nat
        /\ \A x \in {LeftChild(p), RightChild(p)} \ P : x = c
    <3>1. c \in {LeftChild(p), RightChild(p)} \ P /\ \A x \in {LeftChild(p), RightChild(p)} \ P : x = c
      BY <1>2, <1>5 DEF LeftChild, RightChild
    <3>2. c \in Nodes /\ c # 0
      BY <3>1, ChildNode
    <3> QED
      BY <1>2, <3>1, <3>2, ParentOfChild DEF Nodes
  <2>2. c \in Below(P)
    BY <1>3, <1>5, <2>1 DEF Below
  <2>3. PICK m0 \in 1 .. Len(nodes) : nodes[m0] = c
    BY <1>1, <2>2
  <2>4. m0 > nd
    BY <1>2, <2>1, <2>3
  <2>5. \A m \in 1 .. Len(nodes) : Parent(nodes[m]) = p => m = m0
    <3> SUFFICES ASSUME NEW m \in 1 .. Len(nodes), Parent(nodes[m]) = p PROVE m = m0
      OBVIOUS
    <3>1. nodes[m] = c
      BY <1>4, <2>1
    <3>2. ~ (m < m0) /\ ~ (m0 < m)
      BY <1>4, <1>1, <2>3, <3>1 DEF Descending
    <3> QED
      BY <3>2
  <2>6. \A m \in 1 .. Len(nodes) : m < m0 => Parent(nodes[m]) > p
    <3> SUFFICES ASSUME NEW m \in 1 .. Len(nodes), m < m0 PROVE Parent(nodes[m]) > p
      OBVIOUS
    <3>1. nodes[m] > c
      BY <1>1, <2>3 DEF Descending
    <3>2. Parent(nodes[m]) # p
      BY <2>5
    <3>3. Parent(nodes[m]) >= p
      <4>1. nodes[m] <= 2 * Parent(nodes[m]) + 2
        <5>1. /\ nodes[m] \in Nat /\ Parent(nodes[m]) \in Nat
              /\ nodes[m] = LeftChild(Parent(nodes[m])) \/ nodes[m] = RightChild(Parent(nodes[m]))
          BY <1>4
        <5>2. \A q \in Nat : LeftChild(q) <= 2 * q + 2 /\ RightChild(q) <= 2 * q + 2
          BY DEF LeftChild, RightChild
        <5> QED
          BY <5>1, <5>2
      <4>2. c >= 2 * p + 1
        BY <1>2
      <4> QED
        BY <1>2, <1>4, <2>1, <3>1, <4>1, <4>2
    <3> QED
      BY <1>2, <1>4, <3>2, <3>3
  <2>7. m0 = nd + 1
    BY <1>1, <1>2, <2>4, <2>6
  <2>8. \A m \in 1 .. Len(nodes) : m <= nd + 1 <=> Parent(nodes[m]) > p - 1
    <3> TAKE m \in 1 .. Len(nodes)
    <3>1. Parent(nodes[m]) > p - 1 <=> Parent(nodes[m]) > p \/ Parent(nodes[m]) = p
      BY <1>2, <1>4
    <3>2. Parent(nodes[m]) = p <=> m = nd + 1
      BY <2>1, <2>3, <2>5, <2>7
    <3> QED
      BY <1>2, <3>1, <3>2
  <2> QED
    BY <1>5, <2>1, <2>3, <2>7, <2>8
<1>6. CASE ~ ((LeftChild(p) \in P) # (RightChild(p) \in P))
  <2>1. \A m \in 1 .. Len(nodes) : Parent(nodes[m]) # p
    BY <1>3, <1>4, <1>6
  <2>2. \A m \in 1 .. Len(nodes) : m <= nd <=> Parent(nodes[m]) > p - 1
    BY <1>2, <1>4, <2>1
  <2> QED
    BY <1>6, <2>2
<1> QED
  BY <1>5, <1>6

(* One child of p is marked, told from the marks or from the tree.         *)
LEMMA TakeAsked ==
  ASSUME VerifyInv, vpc = "take", vn >= 0
  PROVE  /\ vn \in 0 .. L - 2 /\ delta \in Deltas
         /\ Verifier!OneChild(vn) <=>
              ((LeftChild(vn) \in Punctured(delta)) # (RightChild(vn) \in Punctured(delta)))
         /\ Verifier!MissingChild(vn)
              = 2 * vn + 1 + (IF LeftChild(vn) \in Punctured(delta) THEN 1 ELSE 0)
         /\ Verifier!Remark(vn) => vs' = {x \in Punctured(delta) : x > vn - 1}
<1>1. vn \in 0 .. L - 2 /\ delta \in Deltas /\ vs = {x \in Punctured(delta) : x > vn}
  BY DEF VerifyInv, VControl, VMarks
<1>2. /\ LeftChild(vn) \in vs <=> LeftChild(vn) \in Punctured(delta)
      /\ RightChild(vn) \in vs <=> RightChild(vn) \in Punctured(delta)
      /\ (IF Children(vn) \intersect vs # {} THEN vs \union {vn} ELSE vs \ {vn})
           = {x \in Punctured(delta) : x > vn - 1}
  BY <1>1, Remarked
<1>3. Verifier!OneChild(vn) <=> ((LeftChild(vn) \in vs) # (RightChild(vn) \in vs))
  BY VerifierTree DEF Verifier!OneChild
<1>4. Verifier!MissingChild(vn) = 2 * vn + 1 + (IF LeftChild(vn) \in vs THEN 1 ELSE 0)
  BY VerifierTree DEF Verifier!MissingChild
<1>5. Verifier!Remark(vn) =>
        vs' = IF Children(vn) \intersect vs # {} THEN vs \union {vn} ELSE vs \ {vn}
  BY VerifierTree DEF Verifier!Remark
<1> QED
  BY <1>1, <1>2, <1>3, <1>4, <1>5

LEMMA TakeNodeInv ==
  ASSUME SignerInv, VerifyInv, Verifier!TakeNode, UNCHANGED <<vars, committer>>
  PROVE  VerifyInv'
<1> DEFINE One == (LeftChild(vn) \in Punctured(delta)) # (RightChild(vn) \in Punctured(delta))
           c == 2 * vn + 1 + (IF LeftChild(vn) \in Punctured(delta) THEN 1 ELSE 0)
<1>1. /\ vpc = "take" /\ vn >= 0 /\ vn' = vn - 1
      /\ UNCHANGED <<delta, decom, vpc, va, vi, vj, sds, vrow, vh>>
  BY DEF Verifier!TakeNode
<1>2. /\ vn \in 0 .. L - 2 /\ delta \in Deltas
      /\ vs' = {x \in Punctured(delta) : x > vn - 1}
      /\ IF One THEN keys' = [keys EXCEPT ![c] = decom.nodes[nd + 1]] /\ nd' = nd + 1
                ELSE keys' = keys /\ nd' = nd
  BY <1>1, TakeAsked DEF Verifier!TakeNode
<1>3. UNCHANGED <<i_delta, pc, cpc, nodes>> /\ Received' = Received
  BY ExchangeStays
<1>4. /\ pc = "done" /\ cpc = "done" /\ va = 0 /\ vi = 0 /\ vj = 0
      /\ sds = <<>> /\ vrow = <<>> /\ vh = <<>> /\ nd \in Nat
      /\ keys = [x \in Nodes |-> keys[x]] /\ decom \in Received
  BY <1>1 DEF VerifyInv, VControl
<1> HIDE DEF One, c
<1>5. VControl'
  <2>1. keys' = [x \in Nodes |-> keys'[x]] /\ nd' \in Nat
    BY <1>2, <1>4
  <2>2. vn' \in -1 .. L - 2 /\ vpc' = "take" /\ delta' \in Deltas
    BY <1>1, <1>2, LeafCount
  <2>3. va' = 0 /\ vi' = 0 /\ vj' = 0 /\ sds' = <<>> /\ vrow' = <<>> /\ vh' = <<>>
    BY <1>1, <1>4
  <2>4. 0 \in 0 .. L - 1 /\ 0 \in 0 .. Tau
    BY LeafCount, ParamAssumption
  <2> QED
    BY <1>1, <1>3, <1>4, <2>1, <2>2, <2>3, <2>4 DEF VControl
<1>6. VMarks'
  BY <1>1, <1>2 DEF VMarks
<1>7. VSeeds'
  <2>1. (vi = 0 /\ vj = 0 /\ sds = <<>> /\ vpc # "leaf")'
    BY <1>1, <1>4
  <2> QED
    BY <2>1, NoSeedsYet, PTL
<1>8. ASSUME delta = i_delta PROVE TakenKeys'
  <2>1. TakenKeys
    BY <1>1, <1>8 DEF VerifyInv, VTaken
  <2>2. IF One
        THEN /\ nd + 1 \in 1 .. Len(nodes)
             /\ nodes[nd + 1] = c /\ c \in Nodes
             /\ \A m \in 1 .. Len(nodes) : m <= nd + 1 <=> Parent(nodes[m]) > vn - 1
        ELSE \A m \in 1 .. Len(nodes) : m <= nd <=> Parent(nodes[m]) > vn - 1
    BY <1>2, <1>4, <1>8, <2>1, NextKey DEF One, c
  <2>3. CASE One
    <3>1. /\ nd + 1 \in 1 .. Len(nodes) /\ nodes[nd + 1] = c /\ c \in Nodes
          /\ \A m \in 1 .. Len(nodes) : m <= nd + 1 <=> Parent(nodes[m]) > vn - 1
          /\ nd' = nd + 1
      BY <1>2, <2>2, <2>3
    <3>3. keys'[c] = decom.nodes[nd + 1] /\ \A x \in Nodes : x # c => keys'[x] = keys[x]
      <4> DEFINE e == decom.nodes[nd + 1]
      <4>1. keys' = [keys EXCEPT ![c] = e]
        BY <1>2, <2>3
      <4> HIDE DEF e
      <4>2. keys'[c] = e /\ \A x \in Nodes : x # c => keys'[x] = keys[x]
        BY <1>4, <3>1, <4>1
      <4> QED
        BY <4>2 DEF e
    <3>4. ASSUME NEW m \in 1 .. Len(nodes), m <= nd + 1
          PROVE  keys'[nodes[m]] = decom.nodes[m]
      <4>1. nodes[m] \in Nodes
        BY DEF SignerInv, IInv, RevealedUnmarked
      <4>2. CASE m = nd + 1
        BY <3>1, <3>3, <4>2
      <4>3. CASE m <= nd
        <5>1. keys[nodes[m]] = decom.nodes[m]
          BY <2>1, <4>3 DEF TakenKeys
        <5>2. nodes[m] # c
          <6>1. Descending(nodes) /\ Len(nodes) \in Nat
            BY <1>4, OpeningFacts DEF SignerInv
          <6>2. nodes[nd + 1] < nodes[m]
            BY <1>4, <3>1, <4>3, <6>1 DEF Descending
          <6>3. nodes[m] \in Nat
            BY <4>1 DEF Nodes
          <6> QED
            BY <3>1, <6>2, <6>3
        <5> QED
          BY <3>3, <4>1, <5>1, <5>2
      <4> QED
        BY <1>4, <3>4, <4>2, <4>3
    <3>5. nd + 1 <= Len(nodes)
      BY <3>1
    <3> QED
      BY <1>1, <1>3, <3>1, <3>4, <3>5 DEF TakenKeys
  <2>4. CASE ~ One
    BY <1>1, <1>2, <1>3, <2>1, <2>2, <2>4 DEF TakenKeys
  <2> QED
    BY <2>3, <2>4
<1>9. VTaken' /\ VDerived' /\ VHash'
  BY <1>1, <1>3, <1>8 DEF VTaken, VDerived, VHash
<1> QED
  BY <1>5, <1>6, <1>7, <1>9 DEF VerifyInv

(* An opening for the verifier's challenge does not run out of keys.       *)
LEMMA OutOfNodesInv ==
  ASSUME SignerInv, VerifyInv, Verifier!OutOfNodes, UNCHANGED <<vars, committer>>
  PROVE  VerifyInv'
<1>1. /\ vpc = "take" /\ vn >= 0 /\ Verifier!OneChild(vn) /\ nd = TOpen /\ vpc' = "failed"
      /\ UNCHANGED <<delta, decom, keys, nd, vn, va, vi, vj, sds, vrow, vh>>
  BY DEF Verifier!OutOfNodes, Verifier!NodesEnd
<1>2. UNCHANGED <<i_delta, pc, cpc, nodes>> /\ Received' = Received /\ Sent' = Sent
  BY ExchangeStays
<1>3. VControl'
  BY <1>1, <1>2 DEF VerifyInv, VControl
<1>4. VMarks'
  BY <1>1 DEF VMarks
<1>5. VSeeds'
  <2>1. (vi = 0 /\ vj = 0 /\ sds = <<>> /\ vpc # "leaf")'
    BY <1>1 DEF VerifyInv, VControl
  <2> QED
    BY <2>1, NoSeedsYet, PTL
<1>6. delta # i_delta
  <2> SUFFICES ASSUME delta = i_delta PROVE FALSE
    OBVIOUS
  <2>1. /\ TakenKeys /\ pc = "done" /\ cpc = "done"
        /\ vn \in 0 .. L - 2
        /\ (LeftChild(vn) \in Punctured(delta)) # (RightChild(vn) \in Punctured(delta))
    BY <1>1, TakeAsked DEF VerifyInv, VControl, VTaken
  <2>2. nd + 1 \in 1 .. Len(nodes)
    BY <2>1, NextKey
  <2>3. Len(nodes) <= TOpen /\ Len(nodes) \in Nat
    BY <2>1, OpeningFacts DEF SignerInv
  <2> QED
    BY <1>1, <2>2, <2>3, OpenAssumption
<1>7. VTaken' /\ VDerived' /\ VHash'
  BY <1>1, <1>2, <1>6 DEF VTaken, VDerived, VHash
<1> QED
  BY <1>3, <1>4, <1>5, <1>7 DEF VerifyInv

(* All keys of the opening have been taken when the loop ends, so the test *)
(* for zeros is about exactly the slots bavc_open has cleared.             *)
LEMMA CheckPaddingInv ==
  ASSUME SignerInv, VerifyInv, Verifier!CheckPadding, UNCHANGED <<vars, committer>>
  PROVE  VerifyInv'
<1>1. /\ vpc = "take" /\ vn < 0
      /\ vpc' = IF Verifier!PaddingOK THEN "expand" ELSE "failed"
      /\ UNCHANGED <<delta, decom, vs, keys, nd, vn, va, vi, vj, sds, vrow, vh>>
  BY DEF Verifier!CheckPadding
<1>2. UNCHANGED <<i_delta, pc, cpc, nodes>> /\ Received' = Received /\ Sent' = Sent
  BY ExchangeStays
<1>3. vn = -1 /\ vpc' \in {"expand", "failed"}
  BY <1>1 DEF VerifyInv, VControl
<1>4. VControl'
  BY <1>1, <1>2, <1>3 DEF VerifyInv, VControl
<1>5. VMarks'
  BY <1>1 DEF VerifyInv, VMarks
<1>6. VSeeds'
  <2>1. (vi = 0 /\ vj = 0 /\ sds = <<>> /\ vpc # "leaf")'
    BY <1>1, <1>3 DEF VerifyInv, VControl
  <2> QED
    BY <2>1, NoSeedsYet, PTL
<1>7. ASSUME delta = i_delta
      PROVE  /\ Verifier!PaddingOK => AllTaken'
             /\ decom = Sent => Verifier!PaddingOK
  <2>1. TakenKeys /\ pc = "done" /\ cpc = "done" /\ nd \in Nat
    BY <1>1, <1>7 DEF VerifyInv, VControl, VTaken
  <2>2. /\ Len(nodes) <= TOpen /\ Len(nodes) \in Nat /\ TOpen \in Nat
        /\ \A m \in 1 .. TOpen : Sent.nodes[m] = IF m <= Len(nodes) THEN k[nodes[m]] ELSE Zero
    BY <2>1, OpeningFacts, OpenAssumption DEF SignerInv
  <2>3. \A m \in 1 .. Len(nodes) : Parent(nodes[m]) > -1
    <3>1. \A m \in 1 .. Len(nodes) : nodes[m] \in Nodes \ {0}
      BY DEF SignerInv, IInv, RevealedUnmarked
    <3> QED
      BY <3>1, ParentInner
  <2>4. nd = Len(nodes) /\ \A m \in 1 .. Len(nodes) : keys[nodes[m]] = decom.nodes[m]
    <3>1. \A m \in 1 .. Len(nodes) : m <= nd
      BY <1>3, <2>1, <2>3 DEF TakenKeys
    <3> QED
      BY <2>1, <2>2, <3>1 DEF TakenKeys
  <2>5. Verifier!PaddingOK <=> \A m \in Len(nodes) + 1 .. TOpen : decom.nodes[m] = Zero
    BY <2>4 DEF Verifier!PaddingOK
  <2>6. \A m \in Len(nodes) + 1 .. TOpen : Sent.nodes[m] = Zero
    BY <2>2
  <2> QED
    BY <1>1, <1>2, <2>4, <2>5, <2>6 DEF AllTaken
<1>8. VTaken' /\ VDerived' /\ VHash'
  <2>1. va = 0
    BY <1>1 DEF VerifyInv, VControl
  <2> QED
    BY <1>1, <1>2, <1>3, <1>7, <2>1 DEF VTaken, VDerived, VHash
<1> QED
  BY <1>4, <1>5, <1>6, <1>8 DEF VerifyInv

(* The children of a node that is not secret get their keys from it.       *)
LEMMA ExpandNodeInv ==
  ASSUME SignerInv, VerifyInv, Verifier!ExpandNode, UNCHANGED <<vars, committer>>
  PROVE  VerifyInv'
<1>0. PICK a : a = va
  OBVIOUS
<1> DEFINE x0 == Prg(keys[a], a, 0)
           x1 == Prg(keys[a], a, 1)
<1>1. /\ vpc = "expand" /\ a < L - 1 /\ va' = a + 1
      /\ keys' = IF a \in vs THEN keys ELSE [keys EXCEPT ![LeftChild(a)] = x0, ![RightChild(a)] = x1]
      /\ UNCHANGED <<delta, decom, vpc, vs, nd, vn, vi, vj, sds, vrow, vh>>
  BY <1>0, VerifierTree DEF Verifier!ExpandNode, Verifier!Derive
<1>2. /\ a \in 0 .. L - 2 /\ a \in Nat /\ a \in Nodes /\ delta \in Deltas
      /\ pc = "done" /\ cpc = "done" /\ vn = -1
      /\ vi = 0 /\ vj = 0 /\ sds = <<>> /\ vrow = <<>> /\ vh = <<>>
      /\ keys = [x \in Nodes |-> keys[x]]
  BY <1>0, <1>1, LeafCount DEF VerifyInv, VControl, Nodes
<1>3. UNCHANGED <<i_delta, pc, cpc, nodes>> /\ Received' = Received
  BY ExchangeStays
<1>4. vs = Punctured(delta)
  <2>1. Punctured(delta) \in SUBSET Nodes
    BY <1>2, PuncturedFacts
  <2>2. \A x \in Punctured(delta) : x > -1
    BY <2>1 DEF Nodes
  <2>3. vs = {x \in Punctured(delta) : x > -1}
    BY <1>1, <1>2 DEF VerifyInv, VMarks
  <2> QED
    BY <2>2, <2>3
<1>5. /\ LeftChild(a) \in Nodes /\ RightChild(a) \in Nodes /\ LeftChild(a) # RightChild(a)
      /\ Parent(LeftChild(a)) = a /\ Parent(RightChild(a)) = a
  BY <1>2, ChildNode, ParentOfChild DEF LeftChild, RightChild
<1>6. a \notin vs => /\ keys'[LeftChild(a)] = x0 /\ keys'[RightChild(a)] = x1
  <2> HIDE DEF x0, x1
  <2> QED
    BY <1>1, <1>2, <1>5
<1>7. /\ keys' = [x \in Nodes |-> keys'[x]]
      /\ \A x \in Nodes : x # LeftChild(a) /\ x # RightChild(a) => keys'[x] = keys[x]
  <2> HIDE DEF x0, x1
  <2> QED
    BY <1>1, <1>2, <1>5
<1>8. VControl'
  <2>1. va' \in 0 .. L - 1
    BY <1>1, <1>2, LeafCount
  <2> QED
    BY <1>1, <1>2, <1>3, <1>7, <2>1 DEF VerifyInv, VControl
<1>9. VMarks'
  BY <1>1 DEF VerifyInv, VMarks
<1>10. VSeeds'
  <2>1. (vi = 0 /\ vj = 0 /\ sds = <<>> /\ vpc # "leaf")'
    BY <1>1, <1>2
  <2> QED
    BY <2>1, NoSeedsYet, PTL
<1>11. ASSUME delta = i_delta PROVE AllTaken'
  <2>1. AllTaken
    BY <1>1, <1>2, <1>11 DEF VerifyInv, VTaken, VControl
  <2>2. ASSUME NEW m \in 1 .. Len(nodes) PROVE keys'[nodes[m]] = keys[nodes[m]]
    <3>1. nodes[m] \in Below(Punctured(delta))
      BY <1>2, <1>11, OpeningFacts DEF SignerInv
    <3>2. nodes[m] \in Nodes /\ Parent(nodes[m]) \in vs
      BY <1>4, <3>1 DEF Below
    <3>3. CASE a \in vs
      BY <1>1, <3>3
    <3>4. CASE a \notin vs
      BY <1>5, <1>7, <3>2, <3>4
    <3> QED
      BY <3>3, <3>4
  <2> QED
    BY <1>1, <1>3, <2>1, <2>2 DEF AllTaken
<1>12. VDerived'
  <2> DEFINE P == Punctured(delta)
  <2>1. ASSUME NEW p \in (0 .. L - 2) \ P, p < a + 1
        PROVE  /\ keys'[LeftChild(p)] = Prg(keys'[p], p, 0)
               /\ keys'[RightChild(p)] = Prg(keys'[p], p, 1)
    <3>1. p \in Nat /\ p \in Nodes /\ p # LeftChild(a) /\ p # RightChild(a)
      BY <1>2, <2>1, LeafCount DEF LeftChild, RightChild, Nodes
    <3>2. keys'[p] = keys[p]
      BY <1>7, <3>1
    <3>3. CASE p = a
      BY <1>4, <1>6, <3>2, <3>3
    <3>4. CASE p < a
      <4>1. /\ LeftChild(p) \in Nodes /\ LeftChild(p) # LeftChild(a) /\ LeftChild(p) # RightChild(a)
            /\ RightChild(p) \in Nodes /\ RightChild(p) # LeftChild(a) /\ RightChild(p) # RightChild(a)
        BY <1>5, <3>1, <3>4, ChildNode, ParentOfChild
      <4>2. /\ keys[LeftChild(p)] = Prg(keys[p], p, 0)
            /\ keys[RightChild(p)] = Prg(keys[p], p, 1)
        BY <1>0, <1>1, <3>4 DEF VerifyInv, VDerived
      <4> QED
        BY <1>7, <3>2, <4>1, <4>2
    <3> QED
      BY <1>2, <2>1, <3>1, <3>3, <3>4
  <2> HIDE DEF P
  <2> QED
    BY <1>1, <2>1 DEF VDerived, P
<1>13. VTaken' /\ VHash'
  BY <1>1, <1>3, <1>11 DEF VTaken, VHash
<1> QED
  BY <1>8, <1>9, <1>10, <1>12, <1>13 DEF VerifyInv

LEMMA ReadLeavesInv ==
  ASSUME SignerInv, VerifyInv, Verifier!EndExpansion, UNCHANGED <<vars, committer>>
  PROVE  VerifyInv'
<1>1. /\ vpc = "expand" /\ va = L - 1 /\ vpc' = "leaf"
      /\ UNCHANGED <<delta, decom, vs, keys, nd, vn, va, vi, vj, sds, vrow, vh>>
  BY VerifierTree DEF Verifier!EndExpansion
<1>2. UNCHANGED <<i_delta, pc, cpc, nodes, em>> /\ Received' = Received
  BY ExchangeStays
<1>3. vi = 0 /\ vj = 0 /\ sds = <<>> /\ vrow = <<>> /\ vh = <<>> /\ delta \in Deltas
  BY <1>1 DEF VerifyInv, VControl
<1>4. 0 \in Vectors /\ 0 < Tau
  BY ParamAssumption DEF Vectors
<1>5. VControl'
  BY <1>1, <1>2, <1>3, <1>4, FirstLeafOrder DEF VerifyInv, VControl
<1>6. VMarks'
  BY <1>1 DEF VerifyInv, VMarks
<1>7. VSeeds'
  <2>1. SeedCount' = 0
    <3>1. ~ (0 > delta[0])
      BY <1>3, <1>4, DeltaFacts
    <3>2. FirstSd(0) = 0
      BY ParamAssumption DEF FirstSd, FirstLeaf
    <3> QED
      BY <1>1, <1>3, <3>1, <3>2 DEF SeedCount
  <2>2. \A v \in Vectors : \A l \in 0 .. MaxNodeIndex(v) - 1 : ~ Taken(v, l)'
    BY <1>1, <1>3 DEF Taken, Vectors
  <2>3. IsTuple(sds, 0)
    BY <1>3 DEF IsTuple
  <2> QED
    BY <1>1, <2>1, <2>2, <2>3 DEF VSeeds
<1>8. VTaken' /\ VDerived' /\ VHash'
  <2>1. delta = i_delta => AllTaken'
    BY <1>1, <1>2 DEF VerifyInv, VTaken, AllTaken
  <2>2. VDerived'
    BY <1>1 DEF VerifyInv, VDerived
  <2>3. VHash'
    BY <1>1, <1>3 DEF VHash
  <2> QED
    BY <1>1, <1>2, <2>1, <2>2, <2>3 DEF VTaken
<1> QED
  BY <1>5, <1>6, <1>7, <1>8 DEF VerifyInv

LEMMA AllMarked ==
  ASSUME VerifyInv, vpc = "leaf"
  PROVE  /\ vs = Punctured(delta) /\ delta \in Deltas
         /\ vi \in Vectors /\ vi \in Nat /\ vj \in Nat /\ vj <= MaxNodeIndex(vi)
         /\ pc = "done" /\ cpc = "done"
<1>1. /\ delta \in Deltas /\ vn = -1 /\ vi \in Nat /\ vj \in Nat /\ vi \in 0 .. Tau /\ vi < Tau
      /\ pc = "done" /\ cpc = "done" /\ vj <= MaxNodeIndex(vi)
  BY DEF VerifyInv, VControl
<1>2. vi \in Vectors
  BY <1>1, ParamAssumption DEF Vectors
<1>3. vs = Punctured(delta)
  <2>1. Punctured(delta) \in SUBSET Nodes
    BY <1>1, PuncturedFacts
  <2>2. \A x \in Punctured(delta) : x > -1
    BY <2>1 DEF Nodes
  <2>3. vs = {x \in Punctured(delta) : x > -1}
    BY <1>1 DEF VerifyInv, VMarks
  <2> QED
    BY <2>2, <2>3
<1> QED
  BY <1>1, <1>2, <1>3

(* A seed written earlier stands before the place of the next one.         *)
LEMMA EarlierPlaces ==
  ASSUME VerifyInv, vpc = "leaf",
         NEW v \in Vectors, NEW l \in (0 .. MaxNodeIndex(v) - 1) \ {delta[v]}, Taken(v, l)
  PROVE  SeedCount \in Nat /\ SeedPlace(v, l) \in 1 .. SeedCount
<1>1. delta \in Deltas /\ vi \in Vectors /\ vi \in Nat /\ vj \in Nat /\ v \in Nat
  BY AllMarked DEF Vectors
<1>2. /\ delta[v] \in Nat /\ delta[v] < MaxNodeIndex(v) /\ MaxNodeIndex(v) \in Nat
      /\ delta[vi] \in Nat
  BY <1>1, DeltaFacts
<1>3. /\ FirstSd(v) \in Nat /\ FirstSd(vi) \in Nat
      /\ v < vi => FirstSd(v) + MaxNodeIndex(v) - 1 <= FirstSd(vi)
  BY <1>1, FirstSdOrder
<1>4. SeedCount \in Nat /\ SeedCount >= FirstSd(vi)
  BY <1>1, <1>2, <1>3 DEF SeedCount
<1>5. CASE v < vi
  BY <1>2, <1>3, <1>4, <1>5 DEF SeedPlace
<1>6. CASE v = vi /\ l < vj
  <2>1. SeedCount = FirstSd(v) + (IF vj > delta[v] THEN vj - 1 ELSE vj)
    BY <1>6 DEF SeedCount
  <2>2. SeedPlace(v, l) = FirstSd(v) + (IF l > delta[v] THEN l ELSE l + 1)
    BY DEF SeedPlace
  <2> QED
    BY <1>1, <1>2, <1>3, <1>4, <1>6, <2>1, <2>2
<1> QED
  BY <1>5, <1>6 DEF Taken

LEMMA HashStays ==
  ASSUME UNCHANGED <<delta, decom, keys, em>>
  PROVE  /\ \A v, l : Rehashed(v, l)' = Rehashed(v, l)
         /\ \A v : RehashedRow(v)' = RehashedRow(v)
<1>1. \A v, l : Rehashed(v, l)' = Rehashed(v, l)
  BY DEF Rehashed
<1>2. \A v : RehashedRow(v)' = RehashedRow(v)
  BY DEF RehashedRow, Rehashed
<1> QED
  BY <1>1, <1>2

LEMMA RehashLeafInv ==
  ASSUME SignerInv, VerifyInv, Verifier!CommitLeaf, UNCHANGED <<vars, committer>>
  PROVE  VerifyInv'
<1> DEFINE at == PosInTree(vi, vj)
           e == LeafSeed(em, keys[at], vi + L - 1)
           c == IF at \in vs THEN decom.coms[vi + 1]
                ELSE LeafCom(em, keys[at], vi + L - 1, IF em THEN 0 ELSE vi + 1)
           place == FirstSd(vi) + (IF vj > delta[vi] THEN vj ELSE vj + 1)
<1>1. /\ vpc = "leaf" /\ vj < MaxNodeIndex(vi) /\ vj' = vj + 1
      /\ vrow' = Append(vrow, c)
      /\ sds' = IF at \in vs THEN sds ELSE Append(sds, e)
      /\ UNCHANGED <<delta, decom, vpc, vs, keys, nd, vn, va, vi, vh>>
  BY VerifierTree DEF Verifier!CommitLeaf, Verifier!LeavesLeft, Verifier!SeedsWith,
     Verifier!Commitment, Verifier!LeafSd, Verifier!Tweak, Verifier!HashKey
<1>2. /\ vs = Punctured(delta) /\ delta \in Deltas
      /\ vi \in Vectors /\ vi \in Nat /\ vj \in Nat
      /\ pc = "done" /\ cpc = "done"
  BY <1>1, AllMarked
<1>3. /\ MaxNodeIndex(vi) \in Nat /\ delta[vi] \in Nat /\ FirstSd(vi) \in Nat
      /\ vj \in 0 .. MaxNodeIndex(vi) - 1
      /\ at \in Nodes
      /\ at \in vs <=> vj = delta[vi]
  <2>1. MaxNodeIndex(vi) \in Nat /\ delta[vi] \in Nat /\ FirstSd(vi) \in Nat
    BY <1>2, DeltaFacts, FirstSdOrder
  <2>2. vj \in 0 .. MaxNodeIndex(vi) - 1
    BY <1>1, <1>2, <2>1
  <2>3. at \in Nodes /\ (at \in Punctured(delta) <=> vj = delta[vi])
    BY <1>2, <2>2, DeltaFacts
  <2> QED
    BY <1>2, <2>1, <2>2, <2>3
<1>4. /\ UNCHANGED <<i_delta, pc, cpc, nodes, em>> /\ Received' = Received
      /\ \A v, l : Rehashed(v, l)' = Rehashed(v, l)
      /\ \A v : RehashedRow(v)' = RehashedRow(v)
  BY <1>1, ExchangeStays, HashStays
<1> HIDE DEF at, e, c, place
<1>5. VControl'
  <2>1. vj' \in Nat /\ vj' <= MaxNodeIndex(vi)
    BY <1>1, <1>2, <1>3
  <2> QED
    BY <1>1, <1>4, <2>1 DEF VerifyInv, VControl
<1>6. VMarks'
  BY <1>1 DEF VerifyInv, VMarks
<1>7. VSeeds'
  <2>1. IsTuple(sds, SeedCount) /\ SeedCount \in Nat
    BY <1>1, <1>2, <1>3 DEF VerifyInv, VSeeds, SeedCount
  <2>2. /\ vj = delta[vi] => SeedCount' = SeedCount
        /\ vj # delta[vi] => SeedCount' = SeedCount + 1 /\ place = SeedCount + 1
    <3>1. SeedCount = FirstSd(vi) + (IF vj > delta[vi] THEN vj - 1 ELSE vj)
      BY <1>1 DEF SeedCount
    <3>2. SeedCount' = FirstSd(vi) + (IF vj + 1 > delta[vi] THEN vj ELSE vj + 1)
      <4>1. vpc' = "leaf" /\ vi' = vi /\ vj' = vj + 1 /\ delta' = delta /\ vj + 1 - 1 = vj
        BY <1>1, <1>2
      <4>2. SeedCount' = FirstSd(vi') + (IF vj' > delta'[vi'] THEN vj' - 1 ELSE vj')
        BY <4>1 DEF SeedCount
      <4>3. (IF vj' > delta'[vi'] THEN vj' - 1 ELSE vj') = IF vj + 1 > delta[vi] THEN vj ELSE vj + 1
        <5>1. delta'[vi'] = delta[vi]
          BY <4>1
        <5> QED
          BY <1>2, <1>3, <4>1, <5>1
      <4>4. FirstSd(vi') = FirstSd(vi)
        BY <4>1
      <4> QED
        BY <4>2, <4>3, <4>4
    <3> QED
      BY <1>2, <1>3, <3>1, <3>2 DEF place
  <2>3. /\ vj = delta[vi] => sds' = sds
        /\ vj # delta[vi] =>
             /\ IsTuple(sds', SeedCount + 1) /\ sds'[SeedCount + 1] = e
             /\ \A m \in 1 .. SeedCount : sds'[m] = sds[m]
    <3>1. /\ IsTuple(Append(sds, e), SeedCount + 1) /\ Append(sds, e)[SeedCount + 1] = e
          /\ \A m \in 1 .. SeedCount : Append(sds, e)[m] = sds[m]
      BY <2>1, AppendTuple
    <3>2. sds' = IF vj = delta[vi] THEN sds ELSE Append(sds, e)
      BY <1>1, <1>3
    <3> QED
      BY <3>1, <3>2
  <2>4. IsTuple(sds', SeedCount')
    BY <2>1, <2>2, <2>3
  <2>5. ASSUME NEW v \in Vectors, NEW l \in (0 .. MaxNodeIndex(v) - 1) \ {delta[v]}, Taken(v, l)'
        PROVE  sds'[SeedPlace(v, l)] = LeafSeed(em, keys[PosInTree(v, l)], v + L - 1)
    <3>1. v < vi \/ (v = vi /\ l < vj + 1)
      BY <1>1, <2>5 DEF Taken
    <3>2. CASE v = vi /\ l = vj
      <4>1. SeedPlace(v, l) = SeedCount + 1 /\ sds'[SeedCount + 1] = e
        BY <2>2, <2>3, <2>5, <3>2 DEF SeedPlace, place
      <4> QED
        BY <3>2, <4>1 DEF e, at
    <3>3. CASE Taken(v, l)
      <4>1. SeedPlace(v, l) \in 1 .. SeedCount
        BY <1>1, <3>3, EarlierPlaces
      <4>2. sds'[SeedPlace(v, l)] = sds[SeedPlace(v, l)]
        BY <2>3, <4>1
      <4> QED
        BY <3>3, <4>2 DEF VerifyInv, VSeeds
    <3>4. v \in Nat /\ l \in Nat
      <4>1. v \in Nat
        BY DEF Vectors
      <4> QED
        BY <4>1, FirstLeafOrder
    <3>5. v < vi \/ (v = vi /\ l < vj) \/ (v = vi /\ l = vj)
      BY <1>2, <3>1, <3>4
    <3>6. v < vi \/ (v = vi /\ l < vj) => Taken(v, l)
      BY <1>1 DEF Taken
    <3> QED
      BY <3>2, <3>3, <3>5, <3>6
  <2>6. \A v, l : SeedPlace(v, l)' = SeedPlace(v, l)
    BY <1>1 DEF SeedPlace
  <2> QED
    BY <1>1, <1>4, <2>4, <2>5, <2>6 DEF VSeeds
<1>8. VHash'
  <2>1. c = Rehashed(vi, vj)
    BY <1>2, <1>3 DEF c, at, Rehashed
  <2>2. vrow = [m \in 1 .. vj |-> Rehashed(vi, m - 1)] /\ vh = [v \in 1 .. vi |-> RehashedRow(v - 1)]
    BY <1>1 DEF VerifyInv, VHash
  <2>3. vrow' = [m \in 1 .. vj + 1 |-> Rehashed(vi, m - 1)]
    <3>1. IsTuple(vrow, vj)
      BY <2>2 DEF IsTuple
    <3>2. /\ IsTuple(vrow', vj + 1) /\ vrow'[vj + 1] = c
          /\ \A m \in 1 .. vj : vrow'[m] = vrow[m]
      BY <1>1, <1>2, <3>1, AppendTuple
    <3>3. \A m \in 1 .. vj + 1 : vrow'[m] = Rehashed(vi, m - 1)
      <4> TAKE m \in 1 .. vj + 1
      <4>1. CASE m = vj + 1
        BY <1>2, <2>1, <3>2, <4>1
      <4>2. CASE m \in 1 .. vj
        BY <2>2, <3>2, <4>2
      <4> QED
        BY <1>2, <4>1, <4>2
    <3> QED
      BY <3>2, <3>3 DEF IsTuple
  <2>4. (vrow = [m \in 1 .. vj |-> Rehashed(vi, m - 1)])'
    BY <1>1, <1>4, <2>3 DEF Rehashed
  <2>5. vh' = [v \in 1 .. vi' |-> RehashedRow(v - 1)']
    BY <1>1, <1>4, <2>2
  <2> QED
    BY <2>4, <2>5 DEF VHash
<1>9. VTaken' /\ VDerived'
  BY <1>1, <1>4 DEF VerifyInv, VTaken, AllTaken, VDerived
<1> QED
  BY <1>5, <1>6, <1>7, <1>8, <1>9 DEF VerifyInv

LEMMA RehashVectorInv ==
  ASSUME SignerInv, VerifyInv, Verifier!EndVector, UNCHANGED <<vars, committer>>
  PROVE  VerifyInv'
<1>1. /\ vpc = "leaf" /\ ~ (vj < MaxNodeIndex(vi)) /\ vh' = Append(vh, vrow) /\ vrow' = <<>>
      /\ vi' = vi + 1 /\ vj' = 0 /\ vpc' = IF vi' = Tau THEN "done" ELSE "leaf"
      /\ UNCHANGED <<delta, decom, vs, keys, nd, vn, va, sds>>
  BY VerifierTree DEF Verifier!EndVector, Verifier!LeavesLeft
<1>2. /\ delta \in Deltas /\ vi \in Vectors /\ vi \in Nat /\ vi < Tau /\ Tau \in Nat
      /\ pc = "done" /\ cpc = "done"
  BY <1>1, AllMarked, ParamAssumption DEF VerifyInv, VControl
<1>3. /\ MaxNodeIndex(vi) \in Nat /\ delta[vi] \in Nat /\ delta[vi] < MaxNodeIndex(vi)
      /\ vj = MaxNodeIndex(vi)
  BY <1>1, <1>2, DeltaFacts, AllMarked
<1>4. /\ UNCHANGED <<i_delta, pc, cpc, nodes, em>> /\ Received' = Received
      /\ \A v, l : Rehashed(v, l)' = Rehashed(v, l)
      /\ \A v : RehashedRow(v)' = RehashedRow(v)
  BY <1>1, ExchangeStays, HashStays
<1>5. VControl'
  <2>1. vi' \in 0 .. Tau /\ (vpc' = "leaf" => vi' < Tau) /\ 0 <= MaxNodeIndex(vi')
    <3>1. vi + 1 \in Nat
      BY <1>2
    <3>2. MaxNodeIndex(vi + 1) \in Nat
      BY <3>1, FirstLeafOrder
    <3>3. vi' = vi + 1 /\ (vpc' = "leaf" => vi' # Tau)
      BY <1>1
    <3> QED
      BY <1>2, <3>2, <3>3
  <2> QED
    BY <1>1, <1>4, <2>1 DEF VerifyInv, VControl
<1>6. VMarks'
  BY <1>1 DEF VerifyInv, VMarks
<1>7. VSeeds'
  <2>1. SeedCount' = SeedCount
    <3>1. SeedCount = FirstSd(vi) + vj - 1
      BY <1>1, <1>2, <1>3, FirstSdOrder DEF SeedCount
    <3>2. SeedCount' = FirstSd(vi + 1)
      <4>1. vpc' = "leaf" => ~ (0 > delta[vi + 1])
        <5>1. vpc' = "leaf" => vi + 1 \in Vectors
          BY <1>1, <1>2 DEF Vectors
        <5> QED
          BY <1>2, <5>1, DeltaFacts
      <4>2. FirstSd(vi + 1) \in Nat
        BY <1>2, FirstSdOrder
      <4>3. vi' = vi + 1 /\ vj' = 0 /\ delta' = delta
        BY <1>1
      <4> QED
        BY <4>1, <4>2, <4>3 DEF SeedCount
    <3> QED
      BY <1>2, <1>3, <3>1, <3>2, FirstSdOrder
  <2>2. ASSUME NEW v \in Vectors, NEW l \in 0 .. MaxNodeIndex(v) - 1, Taken(v, l)'
        PROVE  Taken(v, l)
    <3>1. v < vi + 1 /\ v \in Nat
      BY <1>1, <1>2, <2>2 DEF Taken, Vectors
    <3>2. MaxNodeIndex(v) \in Nat
      BY <3>1, FirstLeafOrder
    <3>3. v < vi \/ (v = vi /\ l < MaxNodeIndex(v))
      BY <1>2, <3>1, <3>2
    <3> QED
      BY <1>1, <1>3, <3>3 DEF Taken
  <2>3. \A v, l : SeedPlace(v, l)' = SeedPlace(v, l)
    BY <1>1 DEF SeedPlace
  <2> QED
    BY <1>1, <1>4, <2>1, <2>2, <2>3 DEF VerifyInv, VSeeds
<1>8. VHash'
  <2>1. vrow = RehashedRow(vi) /\ vh = [v \in 1 .. vi |-> RehashedRow(v - 1)]
    BY <1>1, <1>3 DEF VerifyInv, VHash, RehashedRow
  <2>2. vh' = [v \in 1 .. vi + 1 |-> RehashedRow(v - 1)]
    <3>1. IsTuple(vh, vi)
      BY <2>1 DEF IsTuple
    <3>2. /\ IsTuple(vh', vi + 1) /\ vh'[vi + 1] = RehashedRow(vi)
          /\ \A v \in 1 .. vi : vh'[v] = vh[v]
      BY <1>1, <1>2, <2>1, <3>1, AppendTuple
    <3>3. \A v \in 1 .. vi + 1 : vh'[v] = RehashedRow(v - 1)
      <4> TAKE v \in 1 .. vi + 1
      <4>1. CASE v = vi + 1
        BY <1>2, <3>2, <4>1
      <4>2. CASE v \in 1 .. vi
        BY <2>1, <3>2, <4>2
      <4> QED
        BY <1>2, <4>1, <4>2
    <3> QED
      BY <3>2, <3>3 DEF IsTuple
  <2>3. vh' = [v \in 1 .. vi' |-> RehashedRow(v - 1)']
    BY <1>1, <1>4, <2>2
  <2>4. (vpc = "leaf" => vrow = [m \in 1 .. vj |-> Rehashed(vi, m - 1)])'
    BY <1>1 DEF Rehashed
  <2> QED
    BY <2>3, <2>4 DEF VHash
<1>9. VTaken' /\ VDerived'
  BY <1>1, <1>4 DEF VerifyInv, VTaken, AllTaken, VDerived
<1> QED
  BY <1>5, <1>6, <1>7, <1>8, <1>9 DEF VerifyInv

(* The opening is written from a finished commitment.                      *)
OpensCommitted == pc = "done" => cpc = "done"

LEMMA CommitDone == Commit!Next => cpc # "done"
BY DEF Commit!Next, Commit!ExpandSeed, Commit!EndExpansion, Commit!StartVector,
       Commit!CommitLeaf, Commit!EndVector

LEMMA OpenDone == Next => pc # "done"
BY DEF Next, MarkLeaf, Climb, NextVector, Reject, Accept, CopyCommitment, EmitNode, Pad

LEMMA CommitInvariant == ExchangeSpec => [](CommitInv /\ OpensCommitted)
<1>1. ExchangeInit => CommitInv /\ OpensCommitted
  BY CommitInit DEF ExchangeInit, Init, OpensCommitted
<1>2. CommitInv /\ OpensCommitted /\ [ExchangeNext]_all => (CommitInv /\ OpensCommitted)'
  <2> SUFFICES ASSUME CommitInv, OpensCommitted, [ExchangeNext]_all
               PROVE  (CommitInv /\ OpensCommitted)'
    OBVIOUS
  <2>1. CASE CommitStep
    <3>1. Commit!Next /\ pc' = pc /\ cpc # "done"
      BY <2>1, CommitDone DEF CommitStep, vars
    <3>2. CommitInv'
      BY <3>1, ExpandSeedInv, EndExpansionInv, StartVectorInv, CommitLeafInv, EndVectorInv
         DEF Commit!Next
    <3> QED
      BY <3>1, <3>2 DEF OpensCommitted
  <2>2. CASE UNCHANGED committer /\ cpc = "done"
    BY <2>2, CommitStays DEF committer, OpensCommitted
  <2>3. CASE UNCHANGED <<vars, committer>>
    BY <2>3, CommitStays DEF committer, vars, OpensCommitted
  <2>4. OpenStep => UNCHANGED committer /\ cpc = "done"
    BY DEF OpenStep
  <2>5. Deliver \/ ReconstructStep \/ UNCHANGED all => UNCHANGED <<vars, committer>>
    BY DEF Deliver, ReconstructStep, all
  <2> QED
    BY <2>1, <2>2, <2>3, <2>4, <2>5 DEF ExchangeNext
<1> QED
  BY <1>1, <1>2, PTL DEF ExchangeSpec

(* Before the delivery the verifier rests, whatever the others do.         *)
LEMMA VerifierRests ==
  ASSUME VerifyInv, vpc = "wait", UNCHANGED verifier
  PROVE  VerifyInv'
<1>1. UNCHANGED <<delta, decom, vpc, vs, keys, nd, vn, va, vi, vj, sds, vrow, vh>>
  BY DEF verifier
<1>2. VControl'
  BY <1>1 DEF VerifyInv, VControl
<1>3. VSeeds'
  <2>1. (vi = 0 /\ vj = 0 /\ sds = <<>> /\ vpc # "leaf")'
    BY <1>1 DEF VerifyInv, VControl
  <2> QED
    BY <2>1, NoSeedsYet, PTL
<1>4. VMarks' /\ VTaken' /\ VDerived' /\ VHash'
  BY <1>1 DEF VMarks, VTaken, VDerived, VHash
<1> QED
  BY <1>2, <1>3, <1>4 DEF VerifyInv

LEMMA VerifierStays ==
  ASSUME VerifyInv, UNCHANGED all
  PROVE  VerifyInv'
<1>1. /\ UNCHANGED <<delta, decom, vpc, vs, keys, nd, vn, va, vi, vj, sds, vrow, vh>>
      /\ UNCHANGED <<vars, committer>>
  BY DEF all, verifier
<1>2. /\ UNCHANGED <<i_delta, pc, s, coms, n, nodes, pad, em, cpc, k, sd, ccom, hcom>>
      /\ Sent' = Sent /\ Received' = Received
      /\ \A v, l : Rehashed(v, l)' = Rehashed(v, l)
      /\ \A v : RehashedRow(v)' = RehashedRow(v)
  BY <1>1, ExchangeStays, HashStays
<1>3. VControl' /\ VMarks'
  BY <1>1, <1>2 DEF VerifyInv, VControl, VMarks
<1>4. VSeeds'
  BY <1>1, <1>2 DEF VerifyInv, VSeeds, SeedCount, SeedPlace, Taken
<1>5. VTaken' /\ VDerived'
  BY <1>1, <1>2 DEF VerifyInv, VTaken, TakenKeys, AllTaken, VDerived
<1>6. VHash'
  <2>1. (vpc = "leaf" => vrow = [m \in 1 .. vj |-> Rehashed(vi, m - 1)])'
    BY <1>1, <1>2 DEF VerifyInv, VHash, Rehashed
  <2>2. (vpc \in {"leaf", "done"} => vh = [v \in 1 .. vi |-> RehashedRow(v - 1)])'
    BY <1>1, <1>2 DEF VerifyInv, VHash, RehashedRow, Rehashed
  <2> QED
    BY <2>1, <2>2 DEF VHash
<1> QED
  BY <1>3, <1>4, <1>5, <1>6 DEF VerifyInv

LEMMA VerifyStep ==
  SignerInv /\ OpensCommitted /\ VerifyInv /\ [ExchangeNext]_all => VerifyInv'
<1> SUFFICES ASSUME SignerInv, OpensCommitted, VerifyInv, [ExchangeNext]_all PROVE VerifyInv'
  OBVIOUS
<1>0. vpc # "wait" => pc = "done" /\ cpc = "done"
  BY DEF VerifyInv, VControl
<1>1. CASE CommitStep
  <2>1. vpc = "wait" /\ UNCHANGED verifier
    BY <1>0, <1>1, CommitDone DEF CommitStep
  <2> QED
    BY <2>1, VerifierRests
<1>2. CASE OpenStep
  <2>1. vpc = "wait" /\ UNCHANGED verifier
    BY <1>0, <1>2, OpenDone DEF OpenStep
  <2> QED
    BY <2>1, VerifierRests
<1>3. CASE Deliver
  <2>1. cpc = "done"
    BY <1>3 DEF Deliver, OpensCommitted
  <2> QED
    BY <1>3, <2>1, DeliverInv
<1>4. CASE ReconstructStep
  <2>1. Verifier!Reconstruct /\ UNCHANGED <<vars, committer>>
    BY <1>4 DEF ReconstructStep
  <2> QED
    BY <2>1, MarkLeavesInv, TakeNodeInv, OutOfNodesInv, CheckPaddingInv, ExpandNodeInv,
       ReadLeavesInv, RehashLeafInv, RehashVectorInv DEF Verifier!Reconstruct
<1>5. CASE UNCHANGED all
  BY <1>5, VerifierStays
<1> QED
  BY <1>1, <1>2, <1>3, <1>4, <1>5 DEF ExchangeNext

LEMMA ExchangeInvariant == ExchangeSpec => [](SignerInv /\ VerifyInv)
<1>1. ExchangeSpec => []IInv /\ []KeyInv /\ []CopyInv
  BY ExchangeOpens, Invariance, KeysInvariant, CopyInvariant, PTL
<1>2. ExchangeSpec => []SignerInv /\ []OpensCommitted
  BY <1>1, CommitInvariant, PTL DEF SignerInv
<1>3. ExchangeInit => VerifyInv
  BY VerifyInit
<1> QED
  BY <1>2, <1>3, VerifyStep, PTL DEF ExchangeSpec

(* Keys that agree where the committer's are revealed agree below: the     *)
(* same generator runs over both arrays.                                   *)
LEMMA KeysRecovered ==
  ASSUME SignerInv, VerifyInv, Honest, vpc \in {"leaf", "done"}
  PROVE  \A x \in Nodes \ Punctured(delta) : keys[x] = k[x]
<1> DEFINE P == Punctured(delta)
           Bad == {x \in Nodes \ P : keys[x] # k[x]}
<1>1. /\ delta \in Deltas /\ delta = i_delta /\ decom = Sent /\ va = L - 1
      /\ pc = "done" /\ cpc = "done" /\ AllTaken
  BY DEF VerifyInv, VControl, VTaken, Honest
<1>2. /\ Below(P) = {nodes[m] : m \in 1 .. Len(nodes)}
      /\ Len(nodes) \in Nat /\ Len(nodes) <= TOpen /\ TOpen \in Nat
      /\ \A m \in 1 .. TOpen : Sent.nodes[m] = IF m <= Len(nodes) THEN k[nodes[m]] ELSE Zero
      /\ Derived(L - 1)
  BY <1>1, OpeningFacts, OpenAssumption DEF SignerInv
<1>3. 0 \in P /\ P \in SUBSET Nodes /\ ParentClosed(P)
  BY <1>1, PuncturedFacts
<1>4. \A p \in (0 .. L - 2) \ P : /\ keys[LeftChild(p)] = Prg(keys[p], p, 0)
                                  /\ keys[RightChild(p)] = Prg(keys[p], p, 1)
  BY <1>1, LeafCount DEF VerifyInv, VDerived
<1> HIDE DEF P
<1>5. \A x \in Below(P) : keys[x] = k[x]
  BY <1>1, <1>2 DEF AllTaken
<1>6. Bad = {}
  <2> SUFFICES ASSUME Bad # {} PROVE FALSE
    OBVIOUS
  <2>1. Bad \in SUBSET Nat
    BY DEF Nodes
  <2>2. PICK x \in Bad : \A y \in Bad : x <= y
    BY <2>1, LeastNat
  <2>3. /\ x \in Nodes \ P /\ keys[x] # k[x] /\ x # 0
        /\ Parent(x) \in 0 .. L - 2 /\ Parent(x) < x
        /\ x = LeftChild(Parent(x)) \/ x = RightChild(Parent(x))
    BY <1>3, <2>2, ParentInner
  <2>4. Parent(x) \notin P
    BY <1>5, <2>3 DEF Below
  <2>5. Parent(x) \in Nodes /\ x \in Nat
    BY <2>3, LeafCount DEF Nodes
  <2>6. keys[Parent(x)] = k[Parent(x)]
    BY <2>2, <2>3, <2>4, <2>5
  <2>7. Parent(x) < L - 1
    BY <2>3, LeafCount
  <2> QED
    BY <1>2, <1>4, <2>3, <2>4, <2>6, <2>7 DEF Derived
<1> QED
  BY <1>6 DEF P

LEMMA RehashedHonest ==
  ASSUME SignerInv, VerifyInv, Honest, vpc = "done",
         NEW v \in Vectors, NEW l \in 0 .. MaxNodeIndex(v) - 1
  PROVE  Rehashed(v, l) = LeafCommitment(v, l)
<1>1. /\ delta \in Deltas /\ delta = i_delta /\ decom = Sent /\ pc = "done" /\ cpc = "done"
  BY DEF VerifyInv, VControl, Honest
<1>2. CASE l = delta[v]
  BY <1>1, <1>2, OpeningFacts DEF SignerInv, Rehashed
<1>3. CASE l # delta[v]
  <2>1. PosInTree(v, l) \in Nodes \ Punctured(delta)
    BY <1>1, <1>3, DeltaFacts
  <2>2. keys[PosInTree(v, l)] = k[PosInTree(v, l)]
    BY <2>1, KeysRecovered
  <2> QED
    BY <1>3, <2>2 DEF Rehashed, LeafCommitment
<1> QED
  BY <1>2, <1>3

(* Both hashes, when both are complete.                                    *)
LEMMA HashesAre ==
  ASSUME SignerInv, VerifyInv, vpc = "done"
  PROVE  /\ vh = [v \in 1 .. Tau |-> RehashedRow(v - 1)]
         /\ hcom = [v \in 1 .. Tau |-> RowOf(v - 1)]
<1>1. vi = Tau /\ cpc = "done"
  BY DEF VerifyInv, VControl
<1> QED
  BY <1>1 DEF VerifyInv, VHash, SignerInv, CommitInv, CommitControl, CommitHash

(* An opening that arrives as it was sent, with its challenge, is accepted *)
(* and leads to the committer's hash (bavc.c:114-208 and 318-384 against   *)
(* 431-632), for every tree and every T_open that holds the opening.       *)
THEOREM HonestOpeningAccepted == ExchangeSpec => []HonestAccepted
<1>1. SignerInv /\ VerifyInv => HonestAccepted
  <2> SUFFICES ASSUME SignerInv, VerifyInv, Honest PROVE vpc # "failed" /\ (vpc = "done" => vh = hcom)
    BY DEF HonestAccepted
  <2>1. vpc # "failed"
    BY DEF VerifyInv, VTaken, Honest
  <2>2. ASSUME vpc = "done" PROVE vh = hcom
    <3>1. \A v \in 1 .. Tau : v - 1 \in Vectors
      BY ParamAssumption DEF Vectors
    <3>2. \A v \in Vectors : RehashedRow(v) = RowOf(v)
      <4> TAKE v \in Vectors
      <4>1. \A m \in 1 .. MaxNodeIndex(v) : m - 1 \in 0 .. MaxNodeIndex(v) - 1
        BY FirstLeafOrder, ParamAssumption DEF Vectors, MaxNodeIndex
      <4>2. \A m \in 1 .. MaxNodeIndex(v) : Rehashed(v, m - 1) = LeafCommitment(v, m - 1)
        BY <2>2, <4>1, RehashedHonest
      <4> QED
        BY <4>2 DEF RehashedRow, RowOf
    <3> QED
      BY <2>2, <3>1, <3>2, HashesAre
  <2> QED
    BY <2>1, <2>2
<1> QED
  BY <1>1, ExchangeInvariant, PTL

(* bavc_reconstruct writes L - tau seeds and never more, and those of an   *)
(* honest opening are the committer's, where vole_reconstruct reads them   *)
(* (bavc.c:592-615).                                                       *)
THEOREM SeedsWhereRead == ExchangeSpec => []SeedsInPlace
<1>1. SignerInv /\ VerifyInv => SeedsInPlace
  <2> SUFFICES ASSUME SignerInv, VerifyInv PROVE SeedsInPlace
    OBVIOUS
  <2>0. Tau \in Nat /\ IsTuple(sds, SeedCount) /\ FirstSd(Tau) = L - Tau /\ FirstSd(0) \in Nat
        /\ FirstSd(0) <= FirstSd(Tau)
    BY ParamAssumption, FirstSdOrder, FirstSdLast DEF VerifyInv, VSeeds
  <2>1. SeedCount \in Nat /\ SeedCount <= L - Tau
    <3>1. CASE vpc = "leaf"
      <4>1. /\ vi \in Vectors /\ vi \in Nat /\ vj \in Nat /\ vj <= MaxNodeIndex(vi) /\ vi < Tau
            /\ delta \in Deltas
        BY <3>1, AllMarked DEF VerifyInv, VControl
      <4>2. /\ delta[vi] \in Nat /\ delta[vi] < MaxNodeIndex(vi) /\ MaxNodeIndex(vi) \in Nat
            /\ FirstSd(vi) \in Nat /\ FirstSd(vi) + MaxNodeIndex(vi) - 1 <= L - Tau
        BY <2>0, <4>1, DeltaFacts, FirstSdOrder
      <4>3. SeedCount = FirstSd(vi) + (IF vj > delta[vi] THEN vj - 1 ELSE vj)
        BY <3>1 DEF SeedCount
      <4> QED
        BY <4>1, <4>2, <4>3, LeafCount, ParamAssumption
    <3>2. CASE vpc # "leaf"
      <4>1. SeedCount = FirstSd(vi) + vj
        BY <3>2 DEF SeedCount
      <4>2. vj = 0 /\ (vi = 0 \/ vi = Tau)
        BY <3>2 DEF VerifyInv, VControl
      <4>3. FirstSd(Tau) \in Nat
        BY <2>0, FirstSdOrder
      <4> QED
        BY <2>0, <4>1, <4>2, <4>3
    <3> QED
      BY <3>1, <3>2
  <2>2. Len(sds) = SeedCount
    BY <2>0, <2>1, AppendTuple
  <2>3. ASSUME vpc = "done" PROVE SeedCount = L - Tau
    <3>1. vi = Tau /\ vj = 0
      BY <2>3 DEF VerifyInv, VControl
    <3> QED
      BY <2>0, <2>3, <3>1, FirstSdOrder DEF SeedCount
  <2>4. ASSUME vpc = "done", Honest,
               NEW v \in Vectors, NEW l \in (0 .. MaxNodeIndex(v) - 1) \ {delta[v]}
        PROVE  sds[FirstSd(v) + (IF l > delta[v] THEN l ELSE l + 1)] = sd[FirstLeaf(v) + l + 1]
    <3>1. vi = Tau /\ delta \in Deltas /\ pc = "done" /\ cpc = "done"
      BY <2>4 DEF VerifyInv, VControl
    <3>2. v < Tau /\ v \in Nat
      BY ParamAssumption DEF Vectors
    <3>3. sds[SeedPlace(v, l)] = LeafSeed(em, keys[PosInTree(v, l)], v + L - 1)
      BY <3>1, <3>2 DEF VerifyInv, VSeeds, Taken
    <3>4. keys[PosInTree(v, l)] = k[PosInTree(v, l)]
      <4>1. PosInTree(v, l) \in Nodes \ Punctured(delta)
        BY <3>1, DeltaFacts
      <4> QED
        BY <2>4, <4>1, KeysRecovered
    <3>5. sd[FirstLeaf(v) + l + 1] = SeedOf(v, l)
      <4>1. Committed(v, l)
        BY <3>1, <3>2 DEF SignerInv, CommitInv, CommitControl, Committed
      <4> QED
        BY <4>1 DEF SignerInv, CommitInv, CommitArrays
    <3> QED
      BY <3>3, <3>4, <3>5 DEF SeedPlace, SeedOf
  <2> QED
    BY <2>1, <2>2, <2>3, <2>4 DEF SeedsInPlace
<1> QED
  BY <1>1, ExchangeInvariant, PTL

-----------------------------------------------------------------------------
(***************************************************************************)
(* The converse needs that computing differently gives another result: the *)
(* generator and the leaf commitment have no collisions, the root key is   *)
(* no derived key and Junk is no commitment.  Terms that record the call   *)
(* they stand for, those the model checker is given, satisfy this.         *)
(***************************************************************************)
Collisionless ==
  /\ \A x, y, p, q, b, c : Prg(x, p, b) = Prg(y, q, c) => x = y /\ p = q /\ b = c
  /\ \A x, p, b : Prg(x, p, b) # RootKey
  /\ \A e, x, y, t, u : LeafCom(e, x, t, u) = LeafCom(e, y, t, u) => x = y
  /\ \A e, x, t, u : LeafCom(e, x, t, u) # Junk

LEMMA RootStays == ExchangeSpec => [](k[0] = RootKey)
<1>1. ExchangeInit => k[0] = RootKey
  <2>1. 0 \in Nodes
    BY LeavesAreNodes
  <2> QED
    BY <2>1, CommitTree DEF ExchangeInit, Commit!Init
<1>2. CommitInv /\ k[0] = RootKey /\ [ExchangeNext]_all => (k[0] = RootKey)'
  <2> SUFFICES ASSUME CommitInv, k[0] = RootKey, [ExchangeNext]_all PROVE k'[0] = RootKey
    OBVIOUS
  <2>1. CASE CommitStep
    <3>1. CASE Commit!ExpandSeed
      <4> DEFINE x0 == Prg(k[calpha], calpha, 0)
                 x1 == Prg(k[calpha], calpha, 1)
      <4>1. k' = [k EXCEPT ![LeftChild(calpha)] = x0, ![RightChild(calpha)] = x1]
        BY <3>1, CommitTree DEF Commit!ExpandSeed, Commit!Expanded
      <4>2. k = [x \in Nodes |-> k[x]] /\ calpha \in Nat
        BY DEF CommitInv, CommitControl
      <4>3. 0 # LeftChild(calpha) /\ 0 # RightChild(calpha) /\ 0 \in Nodes
        BY <4>2, LeavesAreNodes DEF LeftChild, RightChild
      <4> HIDE DEF x0, x1
      <4> QED
        BY <4>1, <4>2, <4>3
    <3>2. CASE UNCHANGED k
      BY <3>2
    <3>3. Commit!Next /\ ~ Commit!ExpandSeed => UNCHANGED k
      BY DEF Commit!Next, Commit!EndExpansion, Commit!StartVector, Commit!CommitLeaf, Commit!EndVector
    <3> QED
      BY <2>1, <3>1, <3>2, <3>3 DEF CommitStep
  <2>2. OpenStep \/ Deliver \/ ReconstructStep \/ UNCHANGED all => UNCHANGED k
    BY DEF OpenStep, Deliver, ReconstructStep, all, committer
  <2> QED
    BY <2>1, <2>2 DEF ExchangeNext
<1>3. ExchangeSpec => []CommitInv
  BY CommitInvariant, PTL
<1> QED
  BY <1>1, <1>2, <1>3, PTL DEF ExchangeSpec

(* No two nodes of a finished tree have the same key.                      *)
LEMMA KeysDiffer ==
  ASSUME Collisionless, Derived(L - 1), k[0] = RootKey,
         NEW x \in Nodes, NEW y \in Nodes, k[x] = k[y]
  PROVE  x = y
<1>1. ASSUME NEW z \in Nodes, z # 0
      PROVE  \E b \in {0, 1} : /\ k[z] = Prg(k[Parent(z)], Parent(z), b)
                               /\ z = 2 * Parent(z) + 1 + b
  <2>1. /\ Parent(z) \in 0 .. L - 2 /\ Parent(z) < L - 1
        /\ z = LeftChild(Parent(z)) \/ z = RightChild(Parent(z))
    BY <1>1, ParentInner, LeafCount
  <2>2. CASE z = LeftChild(Parent(z))
    <3>1. k[z] = Prg(k[Parent(z)], Parent(z), 0)
      BY <2>1, <2>2 DEF Derived
    <3>2. z = 2 * Parent(z) + 1 + 0
      BY <2>1, <2>2 DEF LeftChild
    <3> QED
      BY <3>1, <3>2
  <2>3. CASE z = RightChild(Parent(z))
    <3>1. k[z] = Prg(k[Parent(z)], Parent(z), 1)
      BY <2>1, <2>3 DEF Derived
    <3>2. z = 2 * Parent(z) + 1 + 1
      BY <2>1, <2>3 DEF RightChild
    <3> QED
      BY <3>1, <3>2
  <2> QED
    BY <2>1, <2>2, <2>3
<1>2. CASE x = 0 /\ y # 0
  BY <1>1, <1>2 DEF Collisionless
<1>3. CASE x # 0 /\ y = 0
  BY <1>1, <1>3 DEF Collisionless
<1>4. CASE x # 0 /\ y # 0
  <2>1. PICK b \in {0, 1} : k[x] = Prg(k[Parent(x)], Parent(x), b) /\ x = 2 * Parent(x) + 1 + b
    BY <1>1, <1>4
  <2>2. PICK c \in {0, 1} : k[y] = Prg(k[Parent(y)], Parent(y), c) /\ y = 2 * Parent(y) + 1 + c
    BY <1>1, <1>4
  <2>3. Prg(k[Parent(x)], Parent(x), b) = Prg(k[Parent(y)], Parent(y), c)
    BY <2>1, <2>2
  <2>4. Parent(x) = Parent(y) /\ b = c
    BY <2>3 DEF Collisionless
  <2> QED
    BY <2>1, <2>2, <2>4
<1> QED
  BY <1>2, <1>3, <1>4

(* From the leaves up: equal children come from equal keys.                *)
LEMMA KeysForced ==
  ASSUME Collisionless, SignerInv, VerifyInv, vpc = "done", vh = hcom
  PROVE  /\ \A v \in Vectors : decom.coms[v + 1] = LeafCommitment(v, delta[v])
         /\ \A x \in Nodes \ Punctured(delta) : keys[x] = k[x]
<1> DEFINE P == Punctured(delta)
           Bad == {x \in Nodes \ P : keys[x] # k[x]}
           T == {2 * L - 2 - x : x \in Bad}
<1>1. delta \in Deltas /\ va = L - 1 /\ pc = "done" /\ cpc = "done"
  BY DEF VerifyInv, VControl
<1>2. ASSUME NEW v \in Vectors, NEW l \in 0 .. MaxNodeIndex(v) - 1
      PROVE  Rehashed(v, l) = LeafCommitment(v, l)
  <2>1. v + 1 \in 1 .. Tau /\ v + 1 - 1 = v /\ l + 1 - 1 = l /\ l + 1 \in 1 .. MaxNodeIndex(v)
    BY ParamAssumption DEF Vectors, MaxNodeIndex
  <2>2. RehashedRow(v) = RowOf(v)
    <3>1. \A w \in 1 .. Tau : RehashedRow(w - 1) = RowOf(w - 1)
      <4> TAKE w \in 1 .. Tau
      <4>1. [z \in 1 .. Tau |-> RehashedRow(z - 1)] = [z \in 1 .. Tau |-> RowOf(z - 1)]
        BY HashesAre
      <4>2. [z \in 1 .. Tau |-> RehashedRow(z - 1)][w] = [z \in 1 .. Tau |-> RowOf(z - 1)][w]
        BY <4>1
      <4> QED
        BY <4>2
    <3>2. PICK w \in 1 .. Tau : w = v + 1
      BY <2>1
    <3>3. w - 1 = v
      BY <3>2, ParamAssumption DEF Vectors
    <3> QED
      BY <3>1, <3>3
  <2>3. /\ RehashedRow(v)[l + 1] = Rehashed(v, l + 1 - 1)
        /\ RowOf(v)[l + 1] = LeafCommitment(v, l + 1 - 1)
    BY <2>1 DEF RehashedRow, RowOf
  <2> QED
    BY <2>1, <2>2, <2>3
<1>3. ASSUME NEW v \in Vectors
      PROVE  decom.coms[v + 1] = LeafCommitment(v, delta[v])
  <2>1. delta[v] \in 0 .. MaxNodeIndex(v) - 1
    BY <1>1, DeltaFacts
  <2> QED
    BY <1>2, <2>1 DEF Rehashed
<1>4. \A x \in Leaves \ P : keys[x] = k[x]
  <2> SUFFICES ASSUME NEW x \in Leaves, x \notin P PROVE keys[x] = k[x]
    OBVIOUS
  <2>1. PICK v \in Vectors : \E l \in 0 .. MaxNodeIndex(v) - 1 : x = PosInTree(v, l)
    BY PosInTreeOnto
  <2>2. PICK l \in 0 .. MaxNodeIndex(v) - 1 : x = PosInTree(v, l)
    BY <2>1
  <2>3. l # delta[v]
    BY <1>1, <2>2, DeltaFacts
  <2>4. LeafCom(em, keys[x], v + L - 1, IF em THEN 0 ELSE v + 1)
          = LeafCom(em, k[x], v + L - 1, IF em THEN 0 ELSE v + 1)
    BY <1>2, <2>2, <2>3 DEF Rehashed, LeafCommitment
  <2> QED
    BY <2>4 DEF Collisionless
<1>5. Derived(L - 1) /\ P \in SUBSET Nodes /\ ParentClosed(P)
  BY <1>1, OpeningFacts, PuncturedFacts DEF SignerInv
<1>6. \A p \in (0 .. L - 2) \ P : keys[LeftChild(p)] = Prg(keys[p], p, 0)
  BY <1>1, LeafCount DEF VerifyInv, VDerived
<1> HIDE DEF P
<1>7. Bad = {}
  <2> SUFFICES ASSUME Bad # {} PROVE FALSE
    OBVIOUS
  <2>1. T \in SUBSET Nat /\ T # {}
    BY LeafCount DEF Nodes
  <2>2. PICK t \in T : \A u \in T : t <= u
    BY <2>1, LeastNat
  <2>3. PICK x \in Bad : t = 2 * L - 2 - x
    BY <2>2
  <2>4. x \in Nodes \ P /\ keys[x] # k[x] /\ x \in Nat
    BY <2>3 DEF Nodes
  <2>5. x \in 0 .. L - 2
    BY <1>4, <2>4, LeavesAreNodes
  <2>6. /\ LeftChild(x) \in Nodes /\ LeftChild(x) # 0 /\ Parent(LeftChild(x)) = x
        /\ LeftChild(x) > x
    BY <2>4, <2>5, ChildNode, ParentOfChild DEF LeftChild
  <2>7. LeftChild(x) \notin P
    BY <1>5, <2>4, <2>6 DEF ParentClosed
  <2>8. keys[LeftChild(x)] = k[LeftChild(x)]
    <3> SUFFICES ASSUME LeftChild(x) \in Bad PROVE FALSE
      BY <2>6, <2>7
    <3>1. 2 * L - 2 - LeftChild(x) \in T
      OBVIOUS
    <3>2. LeftChild(x) \in Nat /\ L \in Nat
      BY <2>6, LeafCount DEF Nodes
    <3> QED
      BY <2>2, <2>3, <2>4, <2>6, <3>1, <3>2
  <2>9. Prg(keys[x], x, 0) = Prg(k[x], x, 0)
    BY <1>5, <1>6, <2>4, <2>5, <2>8, LeafCount DEF Derived
  <2> QED
    BY <2>4, <2>9 DEF Collisionless
<1> QED
  BY <1>3, <1>7 DEF P

LEMMA ReceivedCases ==
  ASSUME decom \in Received
  PROVE  \/ decom = Sent
         \/ \E m \in 1 .. TOpen : \E key : decom = [Sent EXCEPT !.nodes[m] = key]
         \/ \E v \in 1 .. Tau : decom = [Sent EXCEPT !.coms[v] = Junk]
<1> DEFINE Forged(m, key) == [Sent EXCEPT !.nodes[m] = key]
           Swapped(v) == [Sent EXCEPT !.coms[v] = Junk]
<1>1. Received = {Sent} \union {Forged(m, key) : m \in 1 .. TOpen, key \in {Zero, Junk, k[2 * L - 2]}}
                       \union {Swapped(v) : v \in 1 .. Tau}
  BY DEF Received
<1> HIDE DEF Forged, Swapped
<1>2. \/ decom = Sent
      \/ \E m \in 1 .. TOpen : \E key : decom = Forged(m, key)
      \/ \E v \in 1 .. Tau : decom = Swapped(v)
  BY <1>1
<1> QED
  BY <1>2 DEF Forged, Swapped

(* An opening that leads to the committer's hash was made for the          *)
(* challenge the verifier has: no two leaves have the same commitment.     *)
LEMMA ChallengeForced ==
  ASSUME Collisionless, SignerInv, VerifyInv, k[0] = RootKey, vpc = "done", vh = hcom
  PROVE  delta = i_delta /\ decom.coms = Sent.coms
<1>1. /\ delta \in Deltas /\ i_delta \in Deltas /\ pc = "done" /\ cpc = "done"
      /\ decom \in Received /\ Derived(L - 1)
      /\ \A v \in Vectors : Sent.coms[v + 1] = LeafCommitment(v, i_delta[v])
  BY OpeningFacts DEF VerifyInv, VControl, SignerInv
<1>2. \A v \in Vectors : decom.coms[v + 1] = LeafCommitment(v, delta[v])
  BY KeysForced
<1>3. Sent.coms = [v \in 1 .. Tau |-> Sent.coms[v]]
  BY DEF Sent
<1>4. decom.coms = Sent.coms
  <2>1. CASE decom = Sent
    BY <2>1
  <2>2. ASSUME NEW m \in 1 .. TOpen, NEW key, decom = [Sent EXCEPT !.nodes[m] = key]
        PROVE  decom.coms = Sent.coms
    BY <2>2 DEF Sent
  <2>3. ASSUME NEW w \in 1 .. Tau, decom = [Sent EXCEPT !.coms[w] = Junk]
        PROVE  FALSE
    <3>1. PICK v \in Vectors : w = v + 1
      <4>1. w - 1 \in Vectors /\ w = w - 1 + 1
        BY ParamAssumption DEF Vectors
      <4> QED
        BY <4>1
    <3>2. decom.coms = [Sent.coms EXCEPT ![w] = Junk]
      BY <2>3 DEF Sent
    <3>3. decom.coms[w] = Junk
      BY <1>3, <3>2
    <3>4. decom.coms[w] = LeafCommitment(v, delta[v])
      BY <1>2, <3>1
    <3> QED
      BY <3>3, <3>4 DEF Collisionless, LeafCommitment
  <2> QED
    BY <1>1, <2>1, <2>2, <2>3, ReceivedCases
<1>5. ASSUME NEW v \in Vectors PROVE delta[v] = i_delta[v]
  <2>1. LeafCommitment(v, delta[v]) = LeafCommitment(v, i_delta[v])
    BY <1>1, <1>2, <1>4
  <2>2. k[PosInTree(v, delta[v])] = k[PosInTree(v, i_delta[v])]
    BY <2>1 DEF LeafCommitment, Collisionless
  <2>3. /\ delta[v] \in Nat /\ delta[v] < MaxNodeIndex(v)
        /\ i_delta[v] \in Nat /\ i_delta[v] < MaxNodeIndex(v)
    BY <1>1, DeltaFacts
  <2>4. PosInTree(v, delta[v]) \in Nodes /\ PosInTree(v, i_delta[v]) \in Nodes
    BY <2>3, PosInTreeIsLeaf, LeavesAreNodes
  <2>5. PosInTree(v, delta[v]) = PosInTree(v, i_delta[v])
    BY <1>1, <2>2, <2>4, KeysDiffer
  <2> QED
    BY <2>3, <2>5, PosInTreeInjective
<1>6. delta = [v \in Vectors |-> delta[v]] /\ i_delta = [v \in Vectors |-> i_delta[v]]
  BY <1>1 DEF Deltas
<1>7. delta = i_delta
  BY <1>5, <1>6
<1> QED
  BY <1>4, <1>7

(* ... and it arrived unchanged: a used slot has the key the verifier      *)
(* needs for the hash, an unused one is tested for zero.                   *)
LEMMA OpeningForced ==
  ASSUME Collisionless, SignerInv, VerifyInv, k[0] = RootKey, vpc = "done", vh = hcom
  PROVE  decom = Sent
<1>1. /\ delta = i_delta /\ delta \in Deltas /\ decom \in Received /\ decom.coms = Sent.coms
      /\ AllTaken /\ pc = "done" /\ cpc = "done"
  BY ChallengeForced DEF VerifyInv, VControl, VTaken
<1>2. /\ Below(Punctured(i_delta)) = {nodes[m] : m \in 1 .. Len(nodes)}
      /\ Len(nodes) \in Nat /\ Len(nodes) <= TOpen /\ TOpen \in Nat
      /\ \A m \in 1 .. TOpen : Sent.nodes[m] = IF m <= Len(nodes) THEN k[nodes[m]] ELSE Zero
      /\ nodes \in Seq(Nodes)
  BY <1>1, OpeningFacts, OpenAssumption DEF SignerInv
<1>3. \A x \in Nodes \ Punctured(delta) : keys[x] = k[x]
  BY KeysForced
<1>4. ASSUME NEW m \in 1 .. TOpen PROVE decom.nodes[m] = Sent.nodes[m]
  <2>1. CASE m <= Len(nodes)
    <3>1. m \in 1 .. Len(nodes)
      BY <1>2, <2>1
    <3>2. nodes[m] \in Nodes \ Punctured(delta)
      BY <1>1, <1>2, <3>1 DEF Below
    <3>3. keys[nodes[m]] = decom.nodes[m]
      BY <1>1, <3>1 DEF AllTaken
    <3> QED
      BY <1>2, <1>3, <2>1, <3>2, <3>3
  <2>2. CASE m > Len(nodes)
    <3>1. m \in Len(nodes) + 1 .. TOpen
      BY <1>2, <2>2
    <3> QED
      BY <1>1, <1>2, <2>2, <3>1 DEF AllTaken
  <2> QED
    BY <1>2, <2>1, <2>2
<1>5. CASE decom = Sent
  BY <1>5
<1>6. ASSUME NEW m \in 1 .. TOpen, NEW key, decom = [Sent EXCEPT !.nodes[m] = key]
      PROVE  decom = Sent
  <2>1. Sent.nodes = [l \in 1 .. TOpen |-> Sent.nodes[l]]
    <3>1. Len(nodes) + pad = TOpen
      <4>1. pad = TOpen - Len(nodes)
        BY <1>1 DEF SignerInv, IInv, Budget
      <4> QED
        BY <1>2, <4>1
    <3> QED
      BY <3>1 DEF Sent
  <2>2. /\ Sent = [coms |-> Sent.coms, nodes |-> Sent.nodes]
        /\ decom = [coms |-> Sent.coms, nodes |-> [Sent.nodes EXCEPT ![m] = key]]
    BY <1>6 DEF Sent
  <2>3. decom.nodes[m] = key
    BY <2>1, <2>2
  <2>4. key = Sent.nodes[m]
    BY <1>4, <2>3
  <2>5. [Sent.nodes EXCEPT ![m] = key] = Sent.nodes
    BY <2>1, <2>4
  <2> QED
    BY <2>2, <2>5
<1>7. ASSUME NEW v \in 1 .. Tau, decom = [Sent EXCEPT !.coms[v] = Junk]
      PROVE  decom = Sent
  <2>1. /\ Sent = [coms |-> Sent.coms, nodes |-> Sent.nodes]
        /\ decom = [coms |-> [Sent.coms EXCEPT ![v] = Junk], nodes |-> Sent.nodes]
    BY <1>7 DEF Sent
  <2>2. decom.nodes = Sent.nodes
    BY <2>1
  <2> QED
    BY <1>1, <2>1
<1> QED
  BY <1>1, <1>5, <1>6, <1>7, ReceivedCases

(* An opening determines its encoding and its challenge: whatever of the   *)
(* deliveries the model makes is accepted with the committer's hash is     *)
(* what bavc_open wrote, for its challenge (bavc.c:417-421, 548-557).      *)
THEOREM CanonicalOnly ==
  ASSUME Collisionless
  PROVE  ExchangeSpec => []OnlyCanonicalAccepted
<1>1. SignerInv /\ VerifyInv /\ k[0] = RootKey => OnlyCanonicalAccepted
  <2> SUFFICES ASSUME SignerInv, VerifyInv, k[0] = RootKey, vpc = "done", vh = hcom
               PROVE  Honest
    BY DEF OnlyCanonicalAccepted
  <2> QED
    BY ChallengeForced, OpeningForced DEF Honest
<1> QED
  BY <1>1, ExchangeInvariant, RootStays, PTL

(* The keys of an opening lead to every leaf but the hidden ones, and to   *)
(* each of them from one key only (bavc.c:361-383).                        *)
THEOREM ExchangeComplete == ExchangeSpec => []OpensAllButHidden
BY ExchangeOpens, OpeningIsComplete, PTL

(* The whole exchange answers a challenge as PuncturedOpening says: with   *)
(* the canonical cover, or with a refusal when that has no room.           *)
THEOREM ExchangeCanonical == ExchangeSpec => Promise!SafeSpec
BY ExchangeOpens, OpeningIsCanonical, PTL
=============================================================================
