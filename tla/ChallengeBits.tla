---------------------------- MODULE ChallengeBits ----------------------------
(***************************************************************************)
(* How the bits of the last challenge chall_3 are shared between the tau   *)
(* vectors (utils.c).  Of the lambda bits, the upper w_grind have to be    *)
(* zero; the others are the leaf indices i_delta[0 .. tau-1], k bits each  *)
(* for the first tau1 vectors and k-1 bits for the rest.                   *)
(*                                                                         *)
(* A bit string of length n is a function from 0 .. n-1 to {0, 1}.         *)
(***************************************************************************)
EXTENDS Integers

CONSTANTS
  Lambda,   \* params->lambda
  WGrind,   \* params->w_grind
  Tau,      \* params->tau
  Tau1,     \* params->tau1 = (lambda - w_grind) % tau
  K         \* params->k = (lambda - w_grind) / tau + 1

ASSUME ChallengeAssumption ==
  /\ Tau \in Nat \ {0}
  /\ Tau1 \in 0 .. Tau - 1
  /\ K \in Nat \ {0}
  /\ WGrind \in Nat
  /\ Lambda = Tau * (K - 1) + Tau1 + WGrind

Bit == {0, 1}
Vectors == 0 .. Tau - 1

(* bavc_max_node_depth: the number of bits of vector i's leaf index.       *)
Depth(i) == IF i < Tau1 THEN K ELSE K - 1

(* bavc_max_node_index                                                     *)
Leaves(i) == 2 ^ Depth(i)

(* decode_chall_3: the bits of vector i are lo .. hi - 1; for comparison,  *)
(* a bound that gives every earlier vector k bits.                         *)
LoUniform(i) == i * K
Lo(i) == IF i < Tau1 THEN i * K ELSE Tau1 * K + (i - Tau1) * (K - 1)
Hi(i) == IF i < Tau1 THEN (i + 1) * K ELSE Tau1 * K + (i - Tau1 + 1) * (K - 1)

(* num_rec_2: the number with the given bits, the lowest first.            *)
NumRec(bits, len) ==
  LET sum[x \in 0 .. len] == IF x = 0 THEN 0 ELSE sum[x - 1] + bits[x - 1] * 2 ^ (x - 1)
  IN  sum[len]

BitOf(number, d) == (number \div 2 ^ d) % 2
=============================================================================
