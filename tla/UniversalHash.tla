----------------------------- MODULE UniversalHash -----------------------------
(***************************************************************************)
(* The universal hashes (universal_hashing.c) and the constraints that are *)
(* hashed by them (aes_prove and aes_verify, faest_aes.c.in), in the order *)
(* in which faest_sign calls them and writes their results into the        *)
(* signature.  The copies for 128, 192 and 256 bits differ in their size.  *)
(*                                                                         *)
(* vole_hash is linear: an accumulator is the set of terms it sums, each   *)
(* an input byte, its offset in a block or a word, and the power of s or t *)
(* that multiplies it.  zk_hash sums constraints, which are polynomials in *)
(* delta over the tags and the values of committed elements.               *)
(***************************************************************************)
EXTENDS SigLayout, FiniteSetsExt

CONSTANT MaxConstraints    \* how many constraints are hashed at most

ASSUME MaxConstraintsAssumption == MaxConstraints \in Nat

VARIABLES
  i,        \* loop index of vole_hash and compute_h1
  h0, h1,   \* their accumulators
  u_tilde,  \* what vole_hash stores, byte by byte
  kinds,    \* history: the constraints so far
  prover,   \* zk_hash_*_3_ctx
  verifier, \* zk_hash_*_ctx
  a_tilde,  \* a0, a1 and a2 of the prover, then a0 of the verifier
  stage

hvars == <<i, h0, h1, u_tilde, kinds, prover, verifier, a_tilde, stage>>

Plus(x, y) == (x \ y) \union (y \ x)

-----------------------------------------------------------------------------
(* vole_hash: the input's first bytes are hashed, the last ones, x1, mask  *)
(* the result.  A block or word with its last byte first in x is the       *)
(* highest: the powers count from the end, which is padded with zeros.     *)
LengthLambda == (p.ell + 3 * p.lambda - 1) \div p.lambda
X1 == (p.ell + 2 * p.lambda) \div 8

TailBytesFull == LambdaBytes
TailBytes ==
  IF (p.ell + p.lambda) % p.lambda = 0 THEN LambdaBytes
  ELSE ((p.ell + p.lambda) % p.lambda) \div 8

(* n bytes of x from at, of which the tail's bytes behind the end are zero.*)
Loaded(at, n, power) ==
  LET last == (LengthLambda - 1) * LambdaBytes
      IsInput(b) == b < last + TailBytes
  IN  {<<at + b, b, power>> : b \in {c \in 0 .. n - 1 : IsInput(at + c)}}

HashTail ==
  /\ stage = "idle" /\ done = 2
  /\ h0' = Loaded((LengthLambda - 1) * LambdaBytes, LambdaBytes, 0)
  /\ h1' = {}
  /\ i' = 1
  /\ stage' = "h0"
  /\ UNCHANGED <<u_tilde, kinds, prover, verifier, a_tilde>>

HashBlock ==
  /\ stage = "h0" /\ i # LengthLambda
  /\ h0' = Plus(h0, Loaded((LengthLambda - 1 - i) * LambdaBytes, LambdaBytes, i))
  /\ i' = i + 1
  /\ UNCHANGED <<h1, u_tilde, kinds, prover, verifier, a_tilde, stage>>

EndBlocks ==
  /\ stage = "h0" /\ i = LengthLambda
  /\ i' = 0
  /\ stage' = "h1"
  /\ UNCHANGED <<h0, h1, u_tilde, kinds, prover, verifier, a_tilde>>

(* compute_h1: its first loop reads the padded tail, its second one x.     *)
HashWord ==
  /\ stage = "h1" /\ i < LengthLambda * LambdaBytes
  /\ h1' = Plus(h1, Loaded(LengthLambda * LambdaBytes - i - 8, 8, i \div 8))
  /\ i' = i + 8
  /\ UNCHANGED <<h0, u_tilde, kinds, prover, verifier, a_tilde, stage>>

(* h2 = r0 h0 + r1 h1, the first bytes of h3 = r2 h0 + r3 h1, and the mask.*)
Output(b) ==
  [sum  |-> IF b < LambdaBytes THEN <<"r0", "r1", b>> ELSE <<"r2", "r3", b - LambdaBytes>>,
   mask |-> X1 + b]
EndHash ==
  /\ stage = "h1" /\ i = LengthLambda * LambdaBytes
  /\ u_tilde' = [b \in 0 .. LambdaBytes + B - 1 |-> Output(b)]
  /\ stage' = "hashed"
  /\ UNCHANGED <<i, h0, h1, kinds, prover, verifier, a_tilde>>

-----------------------------------------------------------------------------
(* Polynomials: sets of monomials, each a set of symbols and a power of    *)
(* delta.  A committed element has a tag, a value and a key, which the     *)
(* verifier knows.                                                         *)
Times(x, y) ==
  LET By(m) == {<<m[1] \union n[1], m[2] + n[2]>> : n \in y}
  IN  FoldSet(LAMBDA m, sum : Plus(By(m), sum), {}, x)
Sum(polys) == FoldSet(Plus, {}, polys)
Delta  == {<<{}, 1>>}
Delta2 == {<<{}, 2>>}
Tag(e)   == {<<{<<e, "tag">>}, 0>>}
Value(e) == {<<{<<e, "value">>}, 0>>}
Key(e)   == Plus(Tag(e), Times(Delta, Value(e)))
Squared(poly) == {<<{<<e[1], e[2] \o "^2">> : e \in m[1]}, 2 * m[2]>> : m \in poly}

(* The prover's product of elements, by the power of delta.                *)
Deg0(d, e) == Times(Tag(d), Tag(e))
Deg1(d, e) == Plus(Times(Value(d), Tag(e)), Times(Tag(d), Value(e)))
Deg2(d, e) == Times(Value(d), Value(e))

(* An S-box's output in round r before the round key is added: conjugates  *)
(* of state and norm, the affine map's constant; for b = 1, squared.       *)
Conj(b) == IF b = 0 THEN "conj for st" ELSE "conj for st^2"
Norm(b) == IF b = 0 THEN "norm for st" ELSE "norm for st^2"
Const(b) == {<<{<<IF b = 0 THEN "c[8]" ELSE "c[8]^2", "value">>}, 0>>}

(* st_b_deg0, st_b_deg1, st_b_deg2 after the round key is added.           *)
StB(b) ==
  LET product == <<Deg0(Conj(b), Norm(b)), Deg1(Conj(b), Norm(b)),
                   Plus(Deg2(Conj(b), Norm(b)), Const(b))>>
      k0 == <<Tag("k_0"), Value("k_0")>>
  IN  IF b = 0 THEN <<product[1], Plus(product[2], k0[1]), Plus(product[3], k0[2])>>
      ELSE <<Plus(product[1], Squared(k0[1])), product[2], Plus(product[3], Squared(k0[2]))>>

(* st_b_key.                                                               *)
StBKey(b) ==
  Sum({Times(Key(Conj(b)), Key(Norm(b))), Times(Delta2, Const(b)),
       IF b = 0 THEN Times(Delta, Key("k_0")) ELSE Squared(Key("k_0"))})

(* What the prover passes to zk_hash_*_3_update for each kind of           *)
(* constraint, by power of delta; Raised is what ..._raise_and_update      *)
(* makes of its two arguments, for comparison without the raising.         *)
Kinds == {"first bits", "key", "key squared", "norm", "round", "round squared"}

RaisedNot(v0, v1) == <<v0, v1, {}>>
Raised(v1, v2) == <<{}, v1, v2>>

ProverValues(kind) ==
  CASE kind = "first bits"  -> Raised(Deg0("w0", "w1"), Deg1("w0", "w1"))
    [] kind = "key"         -> Raised(Deg0("k^sq", "w"), Plus(Deg1("k^sq", "w"), Tag("k")))
    [] kind = "key squared" -> Raised(Deg0("k", "w^sq"), Plus(Deg1("k", "w^sq"), Tag("w")))
    [] kind = "norm" ->
         <<Times(Tag("y"), Deg0("conj1", "conj4")),
           Sum({Times(Value("y"), Deg0("conj1", "conj4")), Times(Tag("y"), Deg1("conj1", "conj4"))}),
           Sum({Times(Value("y"), Deg1("conj1", "conj4")), Times(Tag("y"), Deg2("conj1", "conj4")),
                Tag("conj0")})>>
    [] kind = "round" ->
         LET st == StB(0) IN
         <<Times(Tag("s^sq"), st[1]),
           Plus(Times(Tag("s^sq"), st[2]), Times(Value("s^sq"), st[1])),
           Sum({Times(Tag("s^sq"), st[3]), Times(Value("s^sq"), st[2]), Tag("s")})>>
    [] kind = "round squared" ->
         LET st == StB(1) other == StB(0) IN
         <<Times(Tag("s"), st[1]),
           Sum({Times(Tag("s"), st[2]), Times(Value("s"), st[1]), other[1]}),
           Sum({Times(Tag("s"), st[3]), Times(Value("s"), st[2]), other[2]})>>

(* What the verifier passes to zk_hash_*_update.                           *)
VerifierValue(kind) ==
  CASE kind = "first bits"  -> Times(Delta, Times(Key("w0"), Key("w1")))
    [] kind = "key" ->
         Times(Delta, Plus(Times(Key("k^sq"), Key("w")), Times(Delta, Key("k"))))
    [] kind = "key squared" ->
         Times(Delta, Plus(Times(Key("k"), Key("w^sq")), Times(Delta, Key("w"))))
    [] kind = "norm" ->
         Plus(Times(Times(Key("y"), Key("conj1")), Key("conj4")),
              Times(Delta2, Key("conj0")))
    [] kind = "round" -> Plus(Times(Key("s^sq"), StBKey(0)), Times(Delta2, Key("s")))
    [] kind = "round squared" -> Plus(Times(Key("s"), StBKey(1)), Times(Delta, StBKey(0)))

-----------------------------------------------------------------------------
(* Contexts of zk_hash: a term is the number of the constraint, a monomial *)
(* and the power of s or t.                                                *)
EmptyContext(n) == [h0 |-> [d \in 0 .. n - 1 |-> {}], h1 |-> [d \in 0 .. n - 1 |-> {}]]
Scaled(h) == {<<x[1], x[2], x[3] + 1>> : x \in h}
Terms(poly, power) == {<<Len(kinds) + 1, m, power>> : m \in poly}

Update(ctx, v) ==
  [h0 |-> [d \in DOMAIN ctx.h0 |-> Plus(Scaled(ctx.h0[d]), Terms(v[d + 1], 0))],
   h1 |-> [d \in DOMAIN ctx.h1 |-> Plus(Scaled(ctx.h1[d]), Terms(v[d + 1], 0))]]

(* r0 h0 + r1 h1 + x1.                                                     *)
Finalize(ctx, d, x1) ==
  {<<"r0", x>> : x \in ctx.h0[d]} \union {<<"r1", x>> : x \in ctx.h1[d]}
    \union {<<"x1", <<0, m, 0>>>> : m \in x1}

StartConstraints ==
  /\ stage = "hashed" /\ done = 4
  /\ prover' = EmptyContext(3)
  /\ verifier' = EmptyContext(1)
  /\ kinds' = <<>>
  /\ stage' = "constraints"
  /\ UNCHANGED <<i, h0, h1, u_tilde, a_tilde>>

(* Both sides meet the constraints in the same order.                      *)
Constrain(kind) ==
  /\ stage = "constraints" /\ Len(kinds) < MaxConstraints
  /\ prover' = Update(prover, ProverValues(kind))
  /\ verifier' = Update(verifier, <<VerifierValue(kind)>>)
  /\ kinds' = Append(kinds, kind)
  /\ UNCHANGED <<i, h0, h1, u_tilde, a_tilde, stage>>

(* aes_prove: the masks are two committed elements, u_star and v_star.     *)
Prove ==
  /\ stage = "constraints"
  /\ a_tilde' = <<Finalize(prover, 0, Tag("star0")),
                  Finalize(prover, 1, Plus(Value("star0"), Tag("star1"))),
                  Finalize(prover, 2, Value("star1"))>>
  /\ stage' = "proved"
  /\ UNCHANGED <<i, h0, h1, u_tilde, kinds, prover, verifier>>

(* aes_verify: q_tilde + delta a1_tilde + delta^2 a2_tilde.                *)
TimesDelta(a, n) == {<<x[1], <<x[2][1], <<x[2][2][1], x[2][2][2] + n>>, x[2][3]>>>> : x \in a}
Verify ==
  /\ stage = "proved" /\ {"d", "a1", "a2"} \subseteq DOMAIN read
  /\ LET q_star == Plus(Key("star0"), Times(Delta, Key("star1")))
         q_tilde == Finalize(verifier, 0, q_star)
     IN  a_tilde' = Append(a_tilde, Plus(q_tilde, Plus(TimesDelta(a_tilde[2], 1),
                                                       TimesDelta(a_tilde[3], 2))))
  /\ stage' = "verified"
  /\ UNCHANGED <<i, h0, h1, u_tilde, kinds, prover, verifier>>

-----------------------------------------------------------------------------
HashInit ==
  /\ Init
  /\ i = 0 /\ h0 = {} /\ h1 = {} /\ u_tilde = <<>>
  /\ kinds = <<>> /\ prover = EmptyContext(3) /\ verifier = EmptyContext(1)
  /\ a_tilde = <<>>
  /\ stage = "idle"

Hash ==
  \/ HashTail \/ HashBlock \/ EndBlocks \/ HashWord \/ EndHash
  \/ StartConstraints \/ (\E kind \in Kinds : Constrain(kind))
  \/ Prove \/ Verify

(* faest_sign writes a part when its value is there.                       *)
Ready(part) ==
  /\ part = "u_tilde" => stage = "hashed"
  /\ part \in {"a1", "a2"} => stage = "proved"

SignPart ==
  /\ done < Len(Order) /\ Ready(Order[done + 1])
  /\ WritePart
  /\ UNCHANGED hvars

VerifyPart == ReadPart /\ UNCHANGED hvars

HashNext == (Hash /\ UNCHANGED vars) \/ SignPart \/ VerifyPart

HashSpec == HashInit /\ [][HashNext]_<<vars, hvars>>

-----------------------------------------------------------------------------
(* vole_hash sums each of the ell + 2 lambda bits once, every block with a *)
(* power of s and every word with a power of t that no other one has; the  *)
(* mask is the whole rest of the input; and the result is as long as the   *)
(* place for it in the signature (universal_hashing.c:16-92).              *)
VoleHashAsMeant ==
  stage \notin {"idle", "h0", "h1"} =>
    /\ h0 = {<<b, b % LambdaBytes, LengthLambda - 1 - (b \div LambdaBytes)>> : b \in 0 .. X1 - 1}
    /\ h1 = {<<b, b % 8, ((LengthLambda * LambdaBytes) \div 8) - 1 - (b \div 8)>> : b \in 0 .. X1 - 1}
    /\ {u_tilde[b].mask : b \in DOMAIN u_tilde} = X1 .. EllHatBytes - 1
    /\ "u_tilde" \in DOMAIN written => written["u_tilde"].len = Cardinality(DOMAIN u_tilde)

(* What must vanish for a constraint to hold: the relations of the bits of *)
(* the key, of an S-box and its inverse, and of a norm.                    *)
Claim(kind) ==
  CASE kind = "first bits"    -> Deg2("w0", "w1")
    [] kind = "key"           -> Plus(Deg2("k^sq", "w"), Value("k"))
    [] kind = "key squared"   -> Plus(Deg2("k", "w^sq"), Value("w"))
    [] kind = "norm"          -> Plus(Times(Value("y"), Deg2("conj1", "conj4")), Value("conj0"))
    [] kind = "round"         -> Plus(Times(Value("s^sq"), StB(0)[3]), Value("s"))
    [] kind = "round squared" -> Plus(Times(Value("s"), StB(1)[3]), StB(0)[3])
Claims ==
  UNION {{<<n, <<m[1], 3>>, Len(kinds) - n>> : m \in Claim(kinds[n])} : n \in DOMAIN kinds}

(* The verifier's a0 differs from the prover's by the hash of the claims,  *)
(* times delta^3, and by nothing else: tags, masks and lower powers cancel *)
(* for every sequence of constraints, so honest proofs are accepted, and   *)
(* no two claims share a power of s or t that could cancel one of them     *)
(* (faest_aes.c.in:251-297, 1069-1530, 1678-1772).                         *)
ProofChecksClaims ==
  stage = "verified" =>
    Plus(a_tilde[1], a_tilde[4]) = {<<r, x>> : r \in {"r0", "r1"}, x \in Claims}
=============================================================================
