------------------------------ MODULE BavcTree ------------------------------
(***************************************************************************)
(* The GGM tree of the batched all-but-one vector commitment (bavc.c).     *)
(*                                                                         *)
(* tau vectors share one binary tree of 2L-1 nodes, stored in an array:    *)
(* node 0 is the root, the children of a are 2a+1 and 2a+2, the last L     *)
(* nodes are the leaves.  Vector i has 2^k leaves when i < tau1 and        *)
(* 2^(k-1) otherwise; pos_in_tree interleaves the vectors' leaves.         *)
(*                                                                         *)
(* Width stands for 1 << (k-1), the "tmp" of pos_in_tree: no definition    *)
(* below needs it to be a power of two, so the theorems are about every    *)
(* positive Width.                                                         *)
(***************************************************************************)
EXTENDS Integers, FiniteSets

CONSTANTS
  Tau,     \* number of vectors (params->tau)
  Tau1,    \* number of long vectors (params->tau1 = (lambda - w_grind) % tau)
  Width    \* 1 << (params->k - 1)

ASSUME ParamAssumption ==
  /\ Tau \in Nat \ {0}
  /\ Tau1 \in 0 .. Tau - 1
  /\ Width \in Nat \ {0}

Vectors == 0 .. Tau - 1

(* params->L: the number of leaves.                                        *)
L == Tau1 * (2 * Width) + (Tau - Tau1) * Width

Nodes  == 0 .. 2 * L - 2
Leaves == L - 1 .. 2 * L - 2

(* Children and parent in the array layout.                                *)
LeftChild(a)  == 2 * a + 1
RightChild(a) == 2 * a + 2
Children(a)   == {LeftChild(a), RightChild(a)}
Parent(a)     == (a - 1) \div 2

(* bavc_max_node_index: the number of leaves of vector i.                  *)
MaxNodeIndex(i) == IF i < Tau1 THEN 2 * Width ELSE Width

(* BAVC.PosInTree: the node that holds leaf j of vector i.                 *)
PosInTree(i, j) ==
  IF j < Width
  THEN L - 1 + Tau * j + i
  ELSE L - 1 + Tau * Width + Tau1 * (j % Width) + i

(* The arrays i_delta a caller can pass: one leaf of each vector.          *)
Deltas == {d \in [Vectors -> 0 .. 2 * Width - 1] :
             \A i \in Vectors : d[i] < MaxNodeIndex(i)}

(* The hidden leaves of an opening.                                        *)
HiddenLeaves(d) == {PosInTree(i, d[i]) : i \in Vectors}

(***************************************************************************)
(* Reference definitions, independent of the loops of bavc.c.              *)
(***************************************************************************)

(* The nodes on the path from a node up to the root, both included.        *)
PathToRoot[a \in Nodes] ==
  IF a = 0 THEN {0} ELSE {a} \union PathToRoot[Parent(a)]

(* What an opening of d must keep secret: the paths of the hidden leaves.  *)
Punctured(d) == UNION {PathToRoot[a] : a \in HiddenLeaves(d)}

(* What it has to reveal: the roots of the maximal subtrees that hold no   *)
(* hidden leaf.                                                            *)
Cover(d) == {a \in Nodes \ Punctured(d) : Parent(a) \in Punctured(d)}
=============================================================================
