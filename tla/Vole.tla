-------------------------------- MODULE Vole --------------------------------
(***************************************************************************)
(* vole_commit and vole_reconstruct (vole.c), run one after the other: the *)
(* signer turns the leaf seeds into u, the corrections c and the columns   *)
(* of V, and the verifier the seeds it reconstructed, the corrections and  *)
(* its challenge into the columns of q.                                    *)
(*                                                                         *)
(* A row of outlen bytes is the set of the seed expansions it is the sum   *)
(* of: the program combines rows with xor only.  A seed is named by its    *)
(* vector and leaf, its expansion by the seed and the vector whose tweak   *)
(* prg was given.                                                          *)
(***************************************************************************)
EXTENDS ChallengeBits, Sequences, SequencesExt

Leaf(i) == 0 .. Leaves(i) - 1
Columns == 0 .. Lambda - 1

(* The malloc'ed buffer of vole_reconstruct before a seed is written.      *)
Garbage == <<Tau, 0>>

VARIABLES
  i_delta,  \* the indices decoded from chall_3, vector 0 first
  side,     \* "commit" or "reconstruct"
  pc,       \* "load" -> "expand" -> "fold" -> "return" -> ... -> "pad" -> "done";
            \* "failed" when vole_reconstruct refuses
  i,        \* index of the loop over the vectors
  src,      \* how far sd_i has advanced, in seeds
  sd,       \* the seeds convert_to_vole is given
  r,        \* its two rows of the triangle
  j, idx,   \* the indices of its loops
  out,      \* its output v: depth columns
  ui,       \* the u of every vector
  col,      \* v_idx or q_idx
  v, q,     \* the matrices
  u, c      \* c[i] corrects vector i

Xor(x, y) == {z \in x \union y : ~(z \in x /\ z \in y)}

Delta(x) == i_delta[x + 1]

(* bavc->sd and bavc_rec->s: the seeds of all vectors one after the other, *)
(* the verifier's without the hidden ones (see BavcReconstruct).           *)
CommitSeeds ==
  FlattenSeq([x \in 1 .. Tau |-> [y \in 1 .. Leaves(x - 1) |-> <<x - 1, y - 1>>]])
ReconstructSeeds ==
  FlattenSeq([x \in 1 .. Tau |-> [y \in 1 .. Leaves(x - 1) - 1 |->
                <<x - 1, IF y - 1 < Delta(x - 1) THEN y - 1 ELSE y>>]])

Init ==
  /\ side = "commit" /\ pc = "load"
  /\ i = 0 /\ src = 0 /\ j = 0 /\ idx = 0 /\ col = 0
  /\ sd = [x \in 0 .. 2 ^ K - 1 |-> Garbage]
  /\ r = [x \in 0 .. 1 |-> [y \in 0 .. 2 ^ K - 1 |-> {}]]
  /\ out = [d \in 0 .. K - 1 |-> {}]
  /\ ui = [x \in Vectors |-> {}]
  /\ v = [x \in Columns |-> {}] /\ q = [x \in Columns |-> {}]
  /\ u = {}
  /\ c = [x \in Vectors \ {0} |-> {}]

(* The leaf index a ^ b.                                                   *)
XorIndex(a, b) == NumRec([d \in 0 .. K - 1 |-> (BitOf(a, d) + BitOf(b, d)) % 2], K)

(* The signer converts the seeds of vector i where they are ...            *)
LoadCommit ==
  /\ pc = "load" /\ side = "commit" /\ i < Tau
  /\ sd' = [x \in DOMAIN sd |-> IF x \in Leaf(i) THEN CommitSeeds[src + x + 1] ELSE Garbage]
  /\ pc' = "expand"
  /\ UNCHANGED <<side, i, src, r, j, idx, out, ui, col, v, q, u, c>>

(* ... the verifier permutes them first, into a buffer that still holds    *)
(* the seeds of the vector before.  The seed of leaf l goes to l ^ delta,  *)
(* and nothing is written to 0, the place of the hidden leaf.  The seeds   *)
(* after the hidden one are one place lower in the source.                 *)
Place(l) == IF l < Delta(i) THEN l ELSE l - 1

LoadReconstruct ==
  /\ pc = "load" /\ side = "reconstruct" /\ i < Tau
  /\ sd' = [x \in DOMAIN sd |->
              IF x \in Leaf(i) \ {0}
              THEN ReconstructSeeds[src + Place(XorIndex(x, Delta(i))) + 1]
              ELSE sd[x]]
  /\ pc' = "expand"
  /\ UNCHANGED <<side, i, src, r, j, idx, out, ui, col, v, q, u, c>>

(* vole_reconstruct refuses an opening that bavc_reconstruct refuses, and  *)
(* would refuse indices that cannot be decoded, before it writes a column. *)
ReconstructFails ==
  /\ pc = "load" /\ side = "reconstruct" /\ i = 0
  /\ pc' = "failed"
  /\ UNCHANGED <<side, i, src, sd, r, j, idx, out, ui, col, v, q, u, c>>

(* The verifier has no seed 0.                                             *)
Sd0Bot == side = "reconstruct"

(* prg(seed, tweak of vector i).                                           *)
Prg(seed) == {<<seed, i>>}

(* convert_to_vole, step 2..4: row 0 of the triangle; r is fresh.          *)
Expand ==
  /\ pc = "expand"
  /\ r' = [x \in 0 .. 1 |-> [y \in 0 .. 2 ^ K - 1 |->
             IF x = 0 /\ y \in Leaf(i) /\ ~ (y = 0 /\ Sd0Bot) THEN Prg(sd[y]) ELSE {}]]
  /\ out' = [d \in 0 .. K - 1 |-> IF d < Depth(i) THEN {} ELSE out[d]]
  /\ j' = 0 /\ idx' = 0
  /\ pc' = "fold"
  /\ UNCHANGED <<side, i, src, sd, ui, col, v, q, u, c>>

(* The length of row j + 1, depthloop.                                     *)
DepthLoop == Leaves(i) \div 2 ^ (j + 1)

(* Step 5..9, one iteration of the inner loop: row j + 1 overwrites the    *)
(* row before row j.                                                       *)
Fold ==
  /\ pc = "fold" /\ j < Depth(i) /\ idx < DepthLoop
  /\ out' = [out EXCEPT ![j] = Xor(r[j % 2][2 * idx + 1], @)]
  /\ r' = [r EXCEPT ![(j + 1) % 2][idx] = Xor(r[j % 2][2 * idx], r[j % 2][2 * idx + 1])]
  /\ idx' = idx + 1
  /\ UNCHANGED <<side, pc, i, src, sd, j, ui, col, v, q, u, c>>

EndRow ==
  /\ pc = "fold" /\ j < Depth(i) /\ idx = DepthLoop
  /\ j' = j + 1
  /\ idx' = 0
  /\ UNCHANGED <<side, pc, i, src, sd, r, out, ui, col, v, q, u, c>>

(* Step 10: the signer gets u_i, the last entry left.                      *)
EndConvert ==
  /\ pc = "fold" /\ j = Depth(i)
  /\ ui' = IF Sd0Bot THEN ui ELSE [ui EXCEPT ![i] = r[Depth(i) % 2][0]]
  /\ pc' = "return"
  /\ UNCHANGED <<side, i, src, sd, r, j, idx, out, col, v, q, u, c>>

(* The first column of the next vector.                                    *)
NextCol == col + Depth(i)

(* The matrix m with the call's output in its columns.                     *)
With(m, f(_)) ==
  [x \in Columns |-> IF x \in col .. col + Depth(i) - 1 THEN f(x - col) ELSE m[x]]

ReturnCommit ==
  /\ pc = "return" /\ side = "commit"
  /\ v' = With(v, LAMBDA d : out[d])
  /\ col' = NextCol
  /\ src' = src + Leaves(i)
  /\ i' = i + 1
  /\ pc' = IF i' = Tau THEN "pad" ELSE "load"
  /\ UNCHANGED <<side, sd, r, j, idx, out, ui, q, u, c>>

(* The first vector needs no correction; the others get theirs where the   *)
(* index has a bit set.  For comparison, one that masks nothing.           *)
CorrectionUnmasked(d) == IF i = 0 THEN {} ELSE c[i]
Correction(d) == IF i = 0 \/ BitOf(Delta(i), d) = 0 THEN {} ELSE c[i]

(* The seeds bavc_rec->s has of vector x.                                  *)
KnownLeaves(x) == Leaves(x) - 1

ReturnReconstruct ==
  /\ pc = "return" /\ side = "reconstruct"
  /\ q' = With(q, LAMBDA d : Xor(out[d], Correction(d)))
  /\ col' = NextCol
  /\ src' = src + KnownLeaves(i)
  /\ i' = i + 1
  /\ pc' = IF i' = Tau THEN "pad" ELSE "load"
  /\ UNCHANGED <<side, sd, r, j, idx, out, ui, v, u, c>>

(* Zero columns up to lambda.                                              *)
Padded(m) == [x \in Columns |-> IF x >= col THEN {} ELSE m[x]]

(* The end of vole_commit; vole_reconstruct starts with buffers of its own.*)
FinishCommit ==
  /\ pc = "pad" /\ side = "commit"
  /\ v' = Padded(v)
  /\ u' = ui[0]
  /\ c' = [x \in Vectors \ {0} |-> Xor(ui[0], ui[x])]
  /\ side' = "reconstruct"
  /\ pc' = "load"
  /\ i' = 0 /\ src' = 0 /\ col' = 0
  /\ sd' = [x \in DOMAIN sd |-> Garbage]
  /\ UNCHANGED <<r, j, idx, out, ui, q>>

FinishReconstruct ==
  /\ pc = "pad" /\ side = "reconstruct"
  /\ q' = Padded(q)
  /\ pc' = "done"
  /\ UNCHANGED <<side, i, src, sd, r, j, idx, out, ui, col, v, u, c>>

Next == \/ LoadCommit \/ LoadReconstruct \/ ReconstructFails \/ Expand \/ Fold \/ EndRow \/ EndConvert
        \/ ReturnCommit \/ ReturnReconstruct \/ FinishCommit \/ FinishReconstruct
=============================================================================
