----------------------------- MODULE VoleExchange -----------------------------
(***************************************************************************)
(* VOLE and challenge together.  faest_sign has committed when it draws a  *)
(* candidate for chall_3; the candidate is checked and decoded (the module *)
(* extended here), by the verifier as by the signer; with the indices it   *)
(* decoded, the verifier calls vole_reconstruct.                           *)
(***************************************************************************)
EXTENDS Challenge

VARIABLES side, vpc, vi, src, sd, r, vj, idx, out, ui, col, v, q, u, c

V == INSTANCE Vole WITH i_delta <- decoded, pc <- vpc, i <- vi, j <- vj

vole == <<side, vpc, vi, src, sd, r, vj, idx, out, ui, col, v, q, u, c>>
all == <<vars, vole>>

ExchangeInit == Init /\ V!Init

CommitStep ==
  /\ side = "commit"
  /\ V!Next
  /\ UNCHANGED vars

ChallengeStep ==
  /\ side = "reconstruct"
  /\ Next
  /\ UNCHANGED vole

(* A candidate that is rejected never gets here.                           *)
ReconstructStep ==
  /\ side = "reconstruct" /\ pc = "decoded"
  /\ V!Next
  /\ UNCHANGED vars

ExchangeNext == CommitStep \/ ChallengeStep \/ ReconstructStep

ExchangeSpec == ExchangeInit /\ [][ExchangeNext]_all

-----------------------------------------------------------------------------
(* The expansions of the leaves of vector x in S, with the vector's tweak. *)
Rows(x, S) == {<<<<x, l>>, x>> : l \in S}

(* Column d of vector x by its definition: the sum of the leaves whose     *)
(* index has bit d set.                                                    *)
ColumnSum(x, d) == Rows(x, {l \in V!Leaf(x) : BitOf(l, d) = 1})

(* convert_to_vole, which folds a triangle of which it keeps two rows,     *)
(* gives the signer the columns and the u of the definition; and the       *)
(* verifier, who never saw u nor the hidden leaves and whose index comes   *)
(* from the decoding, gets column by column what the proof system rests    *)
(* on: q is V plus the bit of chall_3 in that column times u, although     *)
(* faest_verify takes these bits from chall_3 itself (vole.c:31-188,       *)
(* faest_impl.c:495-505).                                                  *)
Correlation ==
  vpc = "done" =>
    /\ u = Rows(0, V!Leaf(0))
    /\ \A x \in Vectors, d \in 0 .. K - 1 :
         d < Depth(x) => v[FirstColumn(x) + d] = ColumnSum(x, d)
    /\ \A x \in Start .. Lambda - 1 : v[x] = {}
    /\ \A x \in V!Columns : q[x] = IF chall[x] = 1 THEN V!Xor(v[x], u) ELSE v[x]
=============================================================================
