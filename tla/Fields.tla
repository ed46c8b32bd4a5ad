--------------------------------- MODULE Fields ---------------------------------
(***************************************************************************)
(* The binary fields of fields.c at their real widths.  A word or an       *)
(* element is the set of its one bits, so that xor is the symmetric        *)
(* difference.  A register consists of lanes; bit b of lane n has slot     *)
(* word * n + b.  In the builds with vector types a 192-bit value has a    *)
(* fourth lane that belongs to no element, and without shuffles the shift  *)
(* of a 576-bit value leaves that lane of a local variable unset: its      *)
(* slots are "wild", and may hold anything from then on.                   *)
(*                                                                         *)
(* The state machine is the loop that all multiplications share, with one  *)
(* doubling of the left operand a step, and the loop of sum_poly.          *)
(***************************************************************************)
EXTENDS FieldTables, Integers, Sequences, FiniteSets, SequencesExt

VARIABLES
  op,    \* the call: field, build, operands
  idx,   \* loop counter
  tmp,   \* the left operand times x^(idx - 1), reduced
  dst    \* the result so far

vars == <<op, idx, tmp, dst>>

Sym(x, y) == {p \in x \union y : p \in x <=> p \notin y}

-----------------------------------------------------------------------------
(* The fields.  carry[b][n + 1] is the lane whose top bit moves into lane  *)
(* n when build b shifts by one: the words of a structure, a vector with   *)
(* shuffles, or a vector set lane by lane; clears, the lanes masked after. *)
None    == -1
Unset   == -2
Builds  == {"words", "shuffle", "lanes"}
Below(n) == [l \in 1 .. n |-> l - 2]
Plain(n) == [b \in Builds |-> Below(n)]
NoLanes  == [b \in Builds |-> {}]

GF8 == [bits |-> 8, word |-> 8, inner |-> 8, mod |-> {4, 3, 1, 0}, by |-> {8},
        carry |-> Plain(1), clears |-> NoLanes]
GF64 == [bits |-> 64, word |-> 64, inner |-> 64, mod |-> {4, 3, 1, 0}, by |-> {64},
         carry |-> Plain(1), clears |-> NoLanes]
GF128 == [bits |-> 128, word |-> 64, inner |-> 128, mod |-> {7, 2, 1, 0}, by |-> {128, 64},
          carry |-> Plain(2), clears |-> NoLanes]
GF192 == [bits |-> 192, word |-> 64, inner |-> 192, mod |-> {7, 2, 1, 0}, by |-> {192, 64},
          carry |-> [b \in Builds |-> IF b = "words" THEN Below(3) ELSE <<None, 0, 1, None>>],
          clears |-> [b \in Builds |-> IF b = "words" THEN {} ELSE {3}]]
GF256 == [bits |-> 256, word |-> 64, inner |-> 256, mod |-> {10, 5, 2, 0}, by |-> {256, 64},
          carry |-> Plain(4), clears |-> NoLanes]
GF384 == [bits |-> 384, word |-> 64, inner |-> 128, mod |-> {12, 3, 2, 0}, by |-> {128},
          carry |-> Plain(6), clears |-> NoLanes]

(* For comparison, the middle vectors shifted as those of 768 bits are.    *)
Shuffles576As768 == <<None, 0, 1, None, 3, 4, 5, None, 7, 8, 9, None>>
Shuffles576 == <<None, 0, 1, None, 2, 4, 5, None, 6, 8, 9, None>>
GF576 == [bits |-> 576, word |-> 64, inner |-> 192, mod |-> {13, 4, 3, 0}, by |-> {192},
          carry |-> [b \in Builds |->
            CASE b = "words"   -> Below(9)
              [] b = "shuffle" -> Shuffles576
              [] b = "lanes"   -> [l \in 1 .. 12 |-> IF l % 4 = 0 THEN Unset ELSE Shuffles576[l]]],
          clears |-> NoLanes]
GF768 == [bits |-> 768, word |-> 64, inner |-> 256, mod |-> {19, 17, 4, 0}, by |-> {256},
          carry |-> Plain(12), clears |-> NoLanes]

GF == [n \in {8, 64, 128, 192, 256, 384, 576, 768} |->
  CASE n = 8 -> GF8     [] n = 64 -> GF64   [] n = 128 -> GF128 [] n = 192 -> GF192
    [] n = 256 -> GF256 [] n = 384 -> GF384 [] n = 576 -> GF576 [] n = 768 -> GF768]

-----------------------------------------------------------------------------
(* Registers: the typedefs, loads and stores of fields.h.                  *)
InnerSlots(f, b) == IF f.inner = 192 /\ b # "words" THEN 256 ELSE f.inner
Slot(f, b, p) == (p \div f.inner) * InnerSlots(f, b) + (p % f.inner)

Zero == [one |-> {}, wild |-> {}]
Load(f, b, x) == [one |-> {Slot(f, b, p) : p \in x}, wild |-> {}]
Store(f, b, v) == {p \in 0 .. f.bits - 1 : Slot(f, b, p) \in v.one}

(* bfN_add_inplace.                                                        *)
Add(v, w) == [one |-> Sym(v.one, w.one), wild |-> v.wild \union w.wild]

(* bfN_shift_left_1.                                                       *)
ShiftLeft1(f, b, v) ==
  LET carry == f.carry[b]
      InLane(s) == {x + 1 : x \in {y \in s : y % f.word # f.word - 1}}
      Across(s) == {f.word * (l - 1) : l \in {n \in DOMAIN carry :
                     carry[n] >= 0 /\ f.word * carry[n] + f.word - 1 \in s}}
      Unknown   == {f.word * (l - 1) : l \in {n \in DOMAIN carry : carry[n] = Unset}}
      Kept(s)   == {x \in s : x \div f.word \notin f.clears[b]}
  IN  [one  |-> Kept(InLane(v.one) \union Across(v.one)),
       wild |-> Kept(InLane(v.wild) \union Across(v.wild) \union Unknown)]

(* bfN_bit_to_uint64_mask: the values the bit may be read as.              *)
BitAt(f, b, v, p) ==
  LET s == Slot(f, b, p)
  IN  IF s \in v.wild THEN BOOLEAN ELSE {s \in v.one}

(* Times x: the bit shifted out is read before the shift; for comparison,  *)
(* after it.                                                               *)
ReducedIf(mask, f, v) == IF mask THEN Add(v, [one |-> f.mod, wild |-> {}]) ELSE v
DoubledLate(f, b, v) ==
  LET w == ShiftLeft1(f, b, v) IN {ReducedIf(m, f, w) : m \in BitAt(f, b, w, f.bits - 1)}
Doubled(f, b, v) ==
  {ReducedIf(m, f, ShiftLeft1(f, b, v)) : m \in BitAt(f, b, v, f.bits - 1)}

-----------------------------------------------------------------------------
(* GF(2^8).                                                                *)
Bytes == SUBSET (0 .. 7)
Bf8Mul[x \in Bytes, y \in Bytes] ==
  LET Step(s, k) ==
        LET t == CHOOSE d \in Doubled(GF8, "words", s.t) : TRUE
        IN  [t |-> t, d |-> IF k \in y THEN Add(s.d, t) ELSE s.d]
      start == [t |-> Load(GF8, "words", x),
                d |-> IF 0 \in y THEN Load(GF8, "words", x) ELSE Zero]
  IN  FoldLeft(Step, start, <<1, 2, 3, 4, 5, 6, 7>>).d.one

Bf8Inv[x \in Bytes] ==
  LET Square(y) == Bf8Mul[y, y]
      t2 == Square(x)  t3 == Bf8Mul[x, t2]  t5 == Bf8Mul[t3, t2]  t7 == Bf8Mul[t5, t2]
      t56 == Square(Square(Square(t7)))
      t63 == Bf8Mul[t56, t7]
  IN  Bf8Mul[Square(Square(t63)), t2]

(* bits_sq: the terms of bit n of the square.                              *)
SquareTerms == <<{0, 4, 6}, {4, 6, 7}, {1, 5}, {4, 5, 6, 7}, {2, 4, 7}, {5, 6}, {3, 5}, {6, 7}>>
Odd(s) == Cardinality(s) % 2 = 1
BitsSq(x) == {n \in 0 .. 7 : Odd(x \intersect SquareTerms[n + 1])}

(* bfN_sq_bit and bfN_sq_bit_inplace, on eight elements; for comparison,   *)
(* without the copies of overwritten elements.                             *)
SqBit(t) ==
  LET o7 == Sym(t[6], t[7])
      o1 == Sym(t[4], o7)
  IN  [n \in 0 .. 7 |->
        CASE n = 0 -> Sym(Sym(t[0], t[4]), t[6]) [] n = 1 -> o1 [] n = 2 -> Sym(t[1], t[5])
          [] n = 3 -> Sym(o1, t[5]) [] n = 4 -> Sym(Sym(t[2], t[4]), t[7])
          [] n = 5 -> Sym(t[5], t[6]) [] n = 6 -> Sym(t[3], t[5]) [] n = 7 -> o7]
InplaceWith(t, i3, i5, i6) ==
  LET a == [t EXCEPT ![0] = Sym(Sym(t[0], t[4]), t[6]),
                     ![1] = Sym(Sym(t[4], t[6]), t[7]), ![2] = Sym(t[1], t[5]),
                     ![3] = Sym(Sym(t[4], t[5]), Sym(t[6], t[7]))]
      c == [a EXCEPT ![4] = Sym(Sym(a[4], a[7]), t[2]), ![5] = Sym(a[5], a[6])]
      d == [c EXCEPT ![6] = Sym(i3, i5)]
  IN  [d EXCEPT ![7] = Sym(d[7], i6)]
SqBitInplaceUnsaved(t) == InplaceWith(t, t[3], Sym(t[5], t[6]), t[6])
SqBitInplace(t) == InplaceWith(t, t[3], t[5], t[6])

(* bfN_alpha and bfN_byte_combine_bits; for comparison, one row too far.   *)
BitsOf(bytes) == {p \in 0 .. 8 * Len(bytes) - 1 : (bytes[p \div 8 + 1] \div 2 ^ (p % 8)) % 2 = 1}
Rows == [n \in {128, 192, 256} |->
  LET table == CASE n = 128 -> Alpha128 [] n = 192 -> Alpha192 [] n = 256 -> Alpha256
  IN  [k \in 0 .. 7 |-> IF k = 0 THEN {0} ELSE BitsOf(table[k])]]
ByteCombineNext(f, x) ==
  FoldLeft(LAMBDA s, k: Sym(s, IF k \in x THEN Rows[f.bits][IF k \in 1 .. 6 THEN k + 1 ELSE k] ELSE {}),
           {}, <<0, 1, 2, 3, 4, 5, 6, 7>>)
ByteCombine(f, x) ==
  FoldLeft(LAMBDA s, k: Sym(s, IF k \in x THEN Rows[f.bits][k] ELSE {}),
           {}, <<0, 1, 2, 3, 4, 5, 6, 7>>)

-----------------------------------------------------------------------------
(* The calls: every multiplication of every build on some pairs of         *)
(* operands, one of which has the top bit of all its words set, one the    *)
(* top bit of the element alone; powers of the embedded root; every        *)
(* byte times its inverse; sum_poly on a few of its many elements; and     *)
(* leaf_hash_N on one input.                                               *)
Call(kind, n, b, r, x, y, i, j) ==
  [kind |-> kind, field |-> n, build |-> b, by |-> r, lhs |-> x, rhs |-> y, rest |-> {},
   i |-> i, j |-> j]
TopBits(f) == {p \in 0 .. f.bits - 1 : p % f.word = f.word - 1}
Sparse(step, n) == {p \in 0 .. n - 1 : p % step = 0 \/ p = n - 1}

Factors(f, r) ==
  {<<TopBits(f), 0 .. r - 1>>, <<{f.bits - 1}, Sparse(3, r)>>,
   <<Sparse(5, f.bits), Sparse(7, r)>>, <<0 .. f.bits - 1, {r - 1}>>}
WideCalls == UNION {UNION {{Call("mul", n, b, r, xy[1], xy[2], 0, 0) :
                       xy \in Factors(GF[n], r), b \in Builds} :
                      r \in GF[n].by} : n \in DOMAIN GF \ {8}}
PowerCalls == {Call("mul", n, b, n, Rows[n][1], Rows[n][j], 1, j) :
                 n \in DOMAIN Rows, b \in Builds, j \in 1 .. 7}
ByteCalls == {Call("mul", 8, "words", 8, x, Bf8Inv[x], 0, 0) : x \in Bytes}
SumCalls == {Call("sum", n, b, n, {}, Sparse(13, n), 0, 0) :
               n \in DOMAIN Rows, b \in Builds}
(* leaf_hash_N: uhash times the first N bits of x, plus the rest of x.     *)
LeafSeed(n, x) == {p \in x : p < n}
LeafRest(n, x) == {p - n : p \in {q \in x : q >= n}}
LeafInput(n) == Sparse(5, 4 * n)
LeafCalls == {[Call("leaf", 3 * n, b, n, TopBits(GF[3 * n]), LeafSeed(n, LeafInput(n)), 0, 0)
                 EXCEPT !.rest = LeafRest(n, LeafInput(n))] : n \in DOMAIN Rows, b \in Builds}

f == GF[op.field]
SumItem(k) == IF k \in op.rhs THEN Rows[op.field][k % 8] ELSE {}

Init ==
  /\ op \in WideCalls \union PowerCalls \union ByteCalls \union SumCalls \union LeafCalls
  /\ idx = 1
  /\ tmp = IF op.kind = "sum" THEN Zero ELSE Load(f, op.build, op.lhs)
  /\ dst = IF op.kind = "sum" THEN Load(f, op.build, SumItem(op.by - 1))
           ELSE IF 0 \in op.rhs THEN tmp ELSE Zero

(* One turn of the loop of bfN_mul, bfN_mul_inplace, bfN_mul_64_inplace.   *)
MulTurn ==
  /\ op.kind \in {"mul", "leaf"} /\ idx < op.by
  /\ tmp' \in Doubled(f, op.build, tmp)
  /\ dst' = IF idx \in op.rhs THEN Add(dst, tmp') ELSE dst
  /\ idx' = idx + 1
  /\ UNCHANGED op

(* One turn of the loop of bfN_sum_poly.                                   *)
SumTurn ==
  /\ op.kind = "sum" /\ idx < op.by
  /\ \E d \in Doubled(f, op.build, dst) :
       dst' = Add(d, Load(f, op.build, SumItem(op.by - 1 - idx)))
  /\ idx' = idx + 1
  /\ UNCHANGED <<op, tmp>>

(* leaf_hash_N adds the rest of x after the multiplication.                *)
AddLeafRest ==
  /\ op.kind = "leaf" /\ idx = op.by
  /\ dst' = Add(dst, Load(f, op.build, op.rest))
  /\ idx' = idx + 1
  /\ UNCHANGED <<op, tmp>>

Next == MulTurn \/ SumTurn \/ AddLeafRest

Spec == Init /\ [][Next]_vars

-----------------------------------------------------------------------------
Done == idx = IF op.kind = "leaf" THEN op.by + 1 ELSE op.by
Result == Store(f, op.build, dst)

(* Polynomials over GF(2) as sets of exponents: the sum of Term(k) x^k     *)
(* over the k in ks, and the remainder modulo x^bits + mod, where the part *)
(* from x^bits up is replaced twice, as mod is short: the textbook         *)
(* definition of the fields.                                               *)
PolySum(Term(_), ks) == {n \in 0 .. 2 * f.bits : Odd({k \in ks : n - k \in Term(k)})}
Folded(poly) ==
  Sym({p \in poly : p < f.bits},
      PolySum(LAMBDA k: {p - f.bits : p \in {q \in poly : q >= f.bits}}, f.mod))
Remainder(poly) == Folded(Folded(poly))
Factor(k) == IF op.kind = "sum" THEN SumItem(k) ELSE op.lhs

(* What a multiplication or sum_poly stores is the product, or the         *)
(* polynomial's value at x, modulo the polynomial named in the comment of  *)
(* its field, in all three builds; a leaf's hash is uhash x0 + x1          *)
(* (fields.c:45-1096, universal_hashing.c:501-541).                        *)
ResultCorrect ==
  Done => Result = Sym(Remainder(PolySum(Factor, op.rhs)),
                       IF op.kind = "leaf"
                       THEN {p \in 0 .. f.bits - 1 : p + op.by \in LeafInput(op.by)} ELSE {})

(* Neither the lane that pads a 192-bit vector nor anything read from an   *)
(* unset lane ever reaches a bit of an element, on the way or in the       *)
(* result; and where the code masks the padding lane, it stays zero        *)
(* (bf192_shift_left_1, bf576_shift_right_64, fields.c:444-452, 918-942).  *)
ElementSlots == {Slot(f, op.build, p) : p \in 0 .. f.bits - 1}
PaddingStaysOut ==
  \A v \in {tmp, dst} :
    /\ v.wild \intersect ElementSlots = {}
    /\ f.bits # 576 => v.one \subseteq ElementSlots /\ v.wild = {}

(* The tables embed GF(2^8): the product of two powers of the root is the  *)
(* combination of the product of the bytes, so that constraints on bytes   *)
(* can be checked in the large field (fields.c:96-190, 309, 534).          *)
EmbedsBytes ==
  (Done /\ op.i > 0) => Result = ByteCombine(f, Bf8Mul[{op.i}, {op.j}])

(* Squaring a byte by bits_sq, and its committed bits by sq_bit or in      *)
(* place, is squaring in GF(2^8); the addition chain of bf8_inv inverts    *)
(* every byte but zero (fields.c:33-78, 128-171).                          *)
Combined(t, x) == {n \in 0 .. 7 : Odd(t[n] \intersect x)}
UnitBits == [n \in 0 .. 7 |-> {n}]
ByteMapsAgree ==
  (Done /\ op.field = 8) =>
    /\ \A square \in {BitsSq(op.lhs), Combined(SqBit(UnitBits), op.lhs),
                      Combined(SqBitInplace(UnitBits), op.lhs)} :
         square = Bf8Mul[op.lhs, op.lhs]
    /\ Result = IF op.lhs = {} THEN {} ELSE {0}
=============================================================================
