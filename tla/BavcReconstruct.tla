-------------------------- MODULE BavcReconstruct --------------------------
(***************************************************************************)
(* bavc_reconstruct (bavc.c): from an opening and the challenge, recompute *)
(* every node key that is not on the path of a hidden leaf, every leaf     *)
(* seed but the hidden ones and the hash of all commitments.               *)
(***************************************************************************)
EXTENDS BavcTree, Sequences

CONSTANTS
  Prg(_, _, _), LeafSeed(_, _, _), LeafCom(_, _, _, _),
  Zero,     \* a key of zero bytes
  TOpen

VARIABLES
  em,       \* faest_is_em(params)
  i_delta,  \* the challenge the verifier decoded
  decom,    \* the opening it received: commitments and node keys
  pc,       \* "wait" -> "mark" -> "take" -> "expand" -> "leaf" -> ... -> "done" | "failed"
  s,        \* the marked nodes
  keys,     \* the calloc'ed node keys
  nd,       \* number of node keys taken from decom
  n,        \* index of the descending loop
  a,        \* index of the expansion loop
  i, j,     \* indices of the loops over vectors and leaves
  sds,      \* bavc_rec->s; offset is its length
  row, h    \* what the inner and the outer hash have absorbed

(* The commitment and the seed of leaf j of vector v, from its key.        *)
Tweak(v) == v + L - 1
HashKey(v) == IF em THEN 0 ELSE v + 1
Commitment(v, key) == LeafCom(em, key, Tweak(v), HashKey(v))
LeafSd(v, key) == LeafSeed(em, key, Tweak(v))

Init ==
  /\ i_delta = [v \in Vectors |-> 0] /\ decom = [coms |-> <<>>, nodes |-> <<>>]
  /\ pc = "wait"
  /\ s = {}
  /\ keys = [x \in Nodes |-> Zero]
  /\ nd = 0
  /\ n = L - 2
  /\ a = 0
  /\ i = 0 /\ j = 0
  /\ sds = <<>> /\ row = <<>> /\ h = <<>>

(* The call, with a challenge and an opening.                              *)
Receive(delta, opening) ==
  /\ pc = "wait"
  /\ i_delta' = delta /\ decom' = opening
  /\ pc' = "mark"
  /\ UNCHANGED <<s, keys, nd, n, a, i, j, sds, row, h>>

(* Step 7..10.                                                             *)
MarkLeaves ==
  /\ pc = "mark"
  /\ s' = HiddenLeaves(i_delta)
  /\ pc' = "take"
  /\ UNCHANGED <<i_delta, decom, keys, nd, n, a, i, j, sds, row, h>>

(* Exactly one child of p is marked, and the other one is in the opening;  *)
(* for comparison, a test for at least one.                                *)
SomeChild(p) == LeftChild(p) \in s \/ RightChild(p) \in s
OneChild(p) == (LeftChild(p) \in s) # (RightChild(p) \in s)
MissingChild(p) == 2 * p + 1 + (IF LeftChild(p) \in s THEN 1 ELSE 0)
Remark(p) == s' = IF Children(p) \intersect s # {} THEN s \union {p} ELSE s \ {p}

NodesEnd == nd = TOpen    \* nodes == end

(* Step 12.12 for inner node n: a missing sibling comes from the opening.  *)
TakeNode ==
  /\ pc = "take" /\ n >= 0
  /\ OneChild(n) => ~ NodesEnd
  /\ Remark(n)
  /\ IF OneChild(n)
     THEN /\ keys' = [keys EXCEPT ![MissingChild(n)] = decom.nodes[nd + 1]]
          /\ nd' = nd + 1
     ELSE UNCHANGED <<keys, nd>>
  /\ n' = n - 1
  /\ UNCHANGED <<i_delta, decom, pc, a, i, j, sds, row, h>>

(* The opening has too few keys for this challenge.                        *)
OutOfNodes ==
  /\ pc = "take" /\ n >= 0 /\ OneChild(n) /\ NodesEnd
  /\ Remark(n)
  /\ pc' = "failed"
  /\ UNCHANGED <<i_delta, decom, keys, nd, n, a, i, j, sds, row, h>>

(* The slots left over have to be zero; for comparison, no such check.     *)
PaddingIgnored == TRUE
PaddingOK == \A m \in nd + 1 .. TOpen : decom.nodes[m] = Zero

CheckPadding ==
  /\ pc = "take" /\ n < 0
  /\ pc' = IF PaddingOK THEN "expand" ELSE "failed"
  /\ UNCHANGED <<i_delta, decom, s, keys, nd, n, a, i, j, sds, row, h>>

(* Recompute the keys below the known ones, in ascending order.            *)
Derive(from, p) ==
  [from EXCEPT ![LeftChild(p)] = Prg(from[p], p, 0), ![RightChild(p)] = Prg(from[p], p, 1)]

ExpandNode ==
  /\ pc = "expand" /\ a < L - 1
  /\ keys' = IF a \in s THEN keys ELSE Derive(keys, a)
  /\ a' = a + 1
  /\ UNCHANGED <<i_delta, decom, pc, s, nd, n, i, j, sds, row, h>>

EndExpansion ==
  /\ pc = "expand" /\ a = L - 1
  /\ pc' = "leaf"
  /\ UNCHANGED <<i_delta, decom, s, keys, nd, n, a, i, j, sds, row, h>>

(* The loop over the leaves of vector i.                                   *)
LeavesLeft == j < MaxNodeIndex(i)

(* What bavc_rec->s holds after the leaf in node x: offset only counts the *)
(* leaves that are not hidden; for comparison, one that counts them all.   *)
SeedsWithAll(x) == Append(sds, LeafSd(i, keys[x]))
SeedsWith(x) == IF x \in s THEN sds ELSE Append(sds, LeafSd(i, keys[x]))

(* The commitment of leaf (i, j): sent for a hidden leaf, else recomputed. *)
CommitLeaf ==
  /\ pc = "leaf" /\ LeavesLeft
  /\ LET at == PosInTree(i, j)
     IN  /\ row' = Append(row, IF at \in s THEN decom.coms[i + 1] ELSE Commitment(i, keys[at]))
         /\ sds' = SeedsWith(at)
  /\ j' = j + 1
  /\ UNCHANGED <<i_delta, decom, pc, s, keys, nd, n, a, i, h>>

EndVector ==
  /\ pc = "leaf" /\ ~ LeavesLeft
  /\ h' = Append(h, row)
  /\ row' = <<>>
  /\ i' = i + 1
  /\ j' = 0
  /\ pc' = IF i' = Tau THEN "done" ELSE "leaf"
  /\ UNCHANGED <<i_delta, decom, s, keys, nd, n, a, sds>>

Reconstruct ==
  \/ MarkLeaves \/ TakeNode \/ OutOfNodes \/ CheckPadding
  \/ ExpandNode \/ EndExpansion \/ CommitLeaf \/ EndVector
=============================================================================
