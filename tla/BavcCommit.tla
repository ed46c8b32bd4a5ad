----------------------------- MODULE BavcCommit -----------------------------
(***************************************************************************)
(* bavc_commit (bavc.c): expands a root key into the tree of node keys,    *)
(* commits to every leaf and hashes the commitments, vector by vector.     *)
(* The AES and the Even-Mansour instances differ in the leaf commitment    *)
(* and in the hash key uhash squeezed once per vector; the three loops     *)
(* bavc_commit_faest_{128,192,256}_loop differ in lengths only.            *)
(*                                                                         *)
(* The pseudorandom generator and the leaf commitment are arbitrary        *)
(* functions; a hash is the sequence of what was absorbed.                 *)
(***************************************************************************)
EXTENDS BavcTree, Sequences

CONSTANTS
  Prg(_, _, _),        \* prg_2_lambda(key, tweak), first or second half
  LeafSeed(_, _, _),   \* sd of leaf_commit(em, key, tweak)
  LeafCom(_, _, _, _), \* com of leaf_commit(em, key, tweak, uhash)
  RootKey,
  Zero                 \* the contents of a calloc'ed key

VARIABLES
  em,       \* faest_is_em(params)
  pc,       \* "expand" -> "vector" -> "leaf" -> ... -> "done"
  alpha,    \* index of the expansion loop
  k,        \* bavc->k, the node keys
  i, j,     \* indices of the loops over vectors and leaves
  uhash,    \* the hash key of the current vector: how often H0 was squeezed
  sd, com,  \* bavc->sd and bavc->com, L entries each; offset is their length
  row,      \* what the hash h1_ctx of the current vector has absorbed
  h         \* what the outer hash has absorbed

(* generate_seeds: the array is cleared and the root key copied into it.   *)
Init ==
  /\ em \in BOOLEAN
  /\ pc = "expand"
  /\ alpha = 0
  /\ k = [a \in Nodes |-> IF a = 0 THEN RootKey ELSE Zero]
  /\ i = 0 /\ j = 0
  /\ uhash = 0
  /\ sd = <<>> /\ com = <<>>
  /\ row = <<>> /\ h = <<>>

(* The two keys prg_2_lambda writes: nodes 2a+1 and 2a+2 are adjacent.      *)
Expanded(keys, a) ==
  [keys EXCEPT ![LeftChild(a)] = Prg(keys[a], a, 0), ![RightChild(a)] = Prg(keys[a], a, 1)]

(* One iteration of expand_seeds.                                          *)
ExpandSeed ==
  /\ pc = "expand" /\ alpha < L - 1
  /\ k' = Expanded(k, alpha)
  /\ alpha' = alpha + 1
  /\ UNCHANGED <<em, pc, i, j, uhash, sd, com, row, h>>

EndExpansion ==
  /\ pc = "expand" /\ alpha = L - 1
  /\ pc' = "vector"
  /\ UNCHANGED <<em, alpha, k, i, j, uhash, sd, com, row, h>>

(* The head of the loop over the vectors: squeeze uhash, init h1_ctx.      *)
NextUhash == IF em THEN uhash ELSE uhash + 1

StartVector ==
  /\ pc = "vector" /\ i < Tau
  /\ uhash' = NextUhash
  /\ row' = <<>>
  /\ j' = 0
  /\ pc' = "leaf"
  /\ UNCHANGED <<em, alpha, k, i, sd, com, h>>

(* The tweak of the leaf commitments of vector v.                          *)
LeafTweak(v) == v + L - 1

CommitLeaf ==
  /\ pc = "leaf" /\ j < MaxNodeIndex(i)
  /\ LET key == k[PosInTree(i, j)]
         c   == LeafCom(em, key, LeafTweak(i), uhash)
     IN  /\ sd' = Append(sd, LeafSeed(em, key, LeafTweak(i)))
         /\ com' = Append(com, c)
         /\ row' = Append(row, c)
  /\ j' = j + 1
  /\ UNCHANGED <<em, pc, alpha, k, i, uhash, h>>

(* Step 11..12: close the vector's hash into the outer one.                *)
EndVector ==
  /\ pc = "leaf" /\ j = MaxNodeIndex(i)
  /\ h' = Append(h, row)
  /\ i' = i + 1
  /\ pc' = IF i' = Tau THEN "done" ELSE "vector"
  /\ UNCHANGED <<em, alpha, k, j, uhash, sd, com, row>>

Next == ExpandSeed \/ EndExpansion \/ StartVector \/ CommitLeaf \/ EndVector
=============================================================================
