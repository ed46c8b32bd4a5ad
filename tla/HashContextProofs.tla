-------------------------- MODULE HashContextProofs --------------------------
(***************************************************************************)
(* Theorems about the hash contexts for blocks of every size, messages and *)
(* outputs of every length: what a context gives is SHAKE of what it was   *)
(* fed, and two contexts have a byte in common only on one message and one *)
(* function.                                                               *)
(***************************************************************************)
EXTENDS HashContext, SequenceTheorems, TLAPS

(* Facts about products and division that Z3 needs to be told.             *)
LEMMA Products ==
  ASSUME NEW a \in Int, NEW b \in Int, NEW c \in Int
  PROVE  /\ a * c \in Int
         /\ (a + b) * c = a * c + b * c
         /\ (a + 1) * c = a * c + c
OBVIOUS

LEMMA ProductsOrdered ==
  ASSUME NEW a \in Int, NEW b \in Int, NEW c \in Nat, a <= b
  PROVE  a * c <= b * c
OBVIOUS

LEMMA DivMod ==
  ASSUME NEW a \in Nat, NEW b \in Nat \ {0}
  PROVE  /\ a \div b \in Nat /\ a % b \in 0 .. b - 1
         /\ a = (a \div b) * b + (a % b)
OBVIOUS

(* A place in a row of blocks belongs to one block only.                   *)
LEMMA OnePlace ==
  ASSUME NEW b \in Nat \ {0}, NEW n \in Nat, NEW i \in 0 .. b - 1,
         NEW k \in Nat, NEW j \in 0 .. b - 1, n * b + i = k * b + j
  PROVE  n = k /\ i = j
<1>1. ASSUME NEW x \in Nat, NEW y \in Nat, x < y
      PROVE  x * b + b <= y * b
  <2>1. (x + 1) * b <= y * b
    BY <1>1, ProductsOrdered
  <2> QED
    BY <2>1, Products
<1>2. n * b \in Int /\ k * b \in Int
  BY Products
<1>3. ~(n < k)
  BY <1>1, <1>2
<1>4. ~(k < n)
  BY <1>1, <1>2
<1>5. n = k
  BY <1>3, <1>4
<1> QED
  BY <1>5, <1>2

LEMMA Quotient ==
  ASSUME NEW b \in Nat \ {0}, NEW n \in Nat, NEW i \in 0 .. b - 1
  PROVE  /\ n * b + i \in Nat
         /\ (n * b + i) \div b = n /\ (n * b + i) % b = i
<1>1. n * b \in Nat
  BY ProductsOrdered, Products
<1>2. n * b + i \in Nat
  BY <1>1
<1> DEFINE a == n * b + i
<1> HIDE DEF a
<1>3. a \in Nat
  BY <1>2 DEF a
<1>4. a = (a \div b) * b + (a % b) /\ a \div b \in Nat /\ a % b \in 0 .. b - 1
  BY <1>3, DivMod
<1>5. n = a \div b /\ i = a % b
  BY <1>4, OnePlace DEF a
<1> QED
  BY <1>2, <1>5 DEF a

-----------------------------------------------------------------------------
(* Sequences by their entries.                                             *)
LEMMA AppendIs ==
  ASSUME NEW n \in Nat, NEW f, f = [x \in 1 .. n |-> f[x]], NEW e
  PROVE  Append(f, e) = [x \in 1 .. n + 1 |-> IF x = n + 1 THEN e ELSE f[x]]
<1> DEFINE S == {f[x] : x \in 1 .. n} \union {e}
<1>1. f \in [1 .. n -> S]
  OBVIOUS
<1>2. f \in Seq(S) /\ Len(f) = n
  BY <1>1
<1> HIDE DEF S
<1>3. Append(f, e) = [x \in 1 .. Len(f) + 1 |-> IF x <= Len(f) THEN f[x] ELSE e]
  BY <1>2
<1> QED
  BY <1>2, <1>3

LEMMA ConcatIs ==
  ASSUME NEW n \in Nat, NEW f, f = [x \in 1 .. n |-> f[x]],
         NEW k \in Nat, NEW g, g = [x \in 1 .. k |-> g[x]]
  PROVE  f \o g = [x \in 1 .. n + k |-> IF x <= n THEN f[x] ELSE g[x - n]]
<1> DEFINE S == {f[x] : x \in 1 .. n} \union {g[x] : x \in 1 .. k}
<1>1. f \in [1 .. n -> S] /\ g \in [1 .. k -> S]
  OBVIOUS
<1> HIDE DEF S
<1>2. f \in Seq(S) /\ Len(f) = n
  BY <1>1
<1>3. g \in Seq(S) /\ Len(g) = k
  BY <1>1
<1> QED
  BY <1>2, <1>3

LEMMA SliceIs ==
  ASSUME NEW m \in Seq(Int), NEW a \in Nat, NEW n \in Nat, a + n <= Len(m)
  PROVE  /\ Len(SubSeq(m, a + 1, a + n)) = n
         /\ SubSeq(m, a + 1, a + n) \in Seq(Int)
         /\ \A x \in 1 .. n : SubSeq(m, a + 1, a + n)[x] = m[a + x]
<1>1. \A x \in a + 1 .. a + n : m[x] \in Int
  OBVIOUS
<1> QED
  BY <1>1, SubSeqProperties

-----------------------------------------------------------------------------
(* A sponge by its fields.  The two phases have names of their own, which  *)
(* are terms to the provers.                                               *)
Absorbing == FALSE
Squeezing == TRUE
Sponge(r, b, l, i, q) == [rate |-> r, blocks |-> b, lanes |-> l, index |-> i, squeezing |-> q]

LEMMA SpongeFields ==
  ASSUME NEW r, NEW b, NEW l, NEW i, NEW q
  PROVE  /\ Sponge(r, b, l, i, q).rate = r
         /\ Sponge(r, b, l, i, q).blocks = b
         /\ Sponge(r, b, l, i, q).lanes = l
         /\ Sponge(r, b, l, i, q).index = i
         /\ Sponge(r, b, l, i, q).squeezing = q
BY DEF Sponge

LEMMA SpongeIs ==
  ASSUME NEW w, w = [z \in {"rate", "blocks", "lanes", "index", "squeezing"} |-> w[z]]
  PROVE  w = Sponge(w.rate, w.blocks, w.lanes, w.index, w.squeezing)
BY DEF Sponge

(* A sponge with another index or other lanes.                             *)
WithIndex(t, x) == [t EXCEPT !.index = x]
WithLanes(t, x) == [t EXCEPT !.lanes = x]

Advanced(t, n) == [t EXCEPT !.index = @ + n]

LEMMA AdvancedIs ==
  ASSUME NEW t, NEW n
  PROVE  Advanced(t, n) = WithIndex(t, t.index + n)
BY DEF Advanced, WithIndex

LEMMA WithIndexIs ==
  ASSUME NEW r, NEW b, NEW l, NEW i, NEW q, NEW x
  PROVE  WithIndex(Sponge(r, b, l, i, q), x) = Sponge(r, b, l, x, q)
BY DEF Sponge, WithIndex

LEMMA WithLanesIs ==
  ASSUME NEW r, NEW b, NEW l, NEW i, NEW q, NEW x
  PROVE  WithLanes(Sponge(r, b, l, i, q), x) = Sponge(r, b, x, i, q)
BY DEF Sponge, WithLanes

LEMMA PermuteIs ==
  ASSUME NEW r, NEW b, NEW l, NEW i, NEW q
  PROVE  Permute(Sponge(r, b, l, i, q)) = Sponge(r, Append(b, l), NoLanes(r), i, q)
<1> DEFINE w == Permute(Sponge(r, b, l, i, q))
<1>1. w = [z \in {"rate", "blocks", "lanes", "index", "squeezing"} |-> w[z]]
  BY DEF Sponge, Permute
<1>2. w["rate"] = r
  BY DEF Sponge, Permute
<1>3. w["blocks"] = Append(b, l)
  BY DEF Sponge, Permute
<1>4. w["lanes"] = NoLanes(r)
  BY DEF Sponge, Permute
<1>5. w["index"] = i
  BY DEF Sponge, Permute
<1>6. w["squeezing"] = q
  BY DEF Sponge, Permute
<1> HIDE DEF w
<1> QED
  BY <1>1, <1>2, <1>3, <1>4, <1>5, <1>6, SpongeIs, Zenon DEF w

(* The lanes l after the bytes x have been added from y on.                *)
AddedLanes(l, x, y) ==
  [z \in DOMAIN l |-> IF z - y \in 0 .. Len(x) - 1 THEN Plus(l[z], {x[z - y + 1]}) ELSE l[z]]

LEMMA AddBytesIs ==
  ASSUME NEW r, NEW b, NEW l, NEW i, NEW q, NEW x, NEW y
  PROVE  AddBytes(Sponge(r, b, l, i, q), x, y) = Sponge(r, b, AddedLanes(l, x, y), i, q)
<1> DEFINE t == Sponge(r, b, l, i, q)
<1>1. t.lanes = l
  BY SpongeFields
<1>2. AddBytes(t, x, y) = WithLanes(t, AddedLanes(t.lanes, x, y))
  BY Zenon DEF AddBytes, WithLanes, AddedLanes
<1>3. AddedLanes(t.lanes, x, y) = AddedLanes(l, x, y)
  BY <1>1
<1>4. WithLanes(t, AddedLanes(l, x, y)) = Sponge(r, b, AddedLanes(l, x, y), i, q)
  BY WithLanesIs
<1> QED
  BY <1>2, <1>3, <1>4

WithByte(l, x, y) == [l EXCEPT ![y] = Plus(@, {x})]

LEMMA AddByteIs ==
  ASSUME NEW r, NEW b, NEW l, NEW i, NEW q, NEW x, NEW y
  PROVE  AddByte(Sponge(r, b, l, i, q), x, y) = Sponge(r, b, WithByte(l, x, y), i, q)
BY DEF Sponge, AddByte, WithByte

-----------------------------------------------------------------------------
(* Block b of the message m, the first n blocks, and a block with i bytes. *)
BlockOf(m, rate, b) == [l \in 0 .. rate - 1 |-> {m[b * rate + l + 1]}]
FullBlocks(m, rate, n) == [b \in 1 .. n |-> BlockOf(m, rate, b - 1)]
Queue(m, rate, n, i) == [l \in 0 .. rate - 1 |-> IF l < i THEN {m[n * rate + l + 1]} ELSE {}]

(* The sponge that has absorbed them.                                      *)
Fills(m, rate, n, i) ==
  Sponge(rate, FullBlocks(m, rate, n), Queue(m, rate, n, i), i, Absorbing)

(* Only the bytes absorbed matter.                                         *)
Agree(m, w, rate, n, i) == \A x \in 1 .. n * rate + i : m[x] = w[x]

LEMMA FillsPrefix ==
  ASSUME NEW rate \in Nat \ {0}, NEW n \in Nat, NEW i \in 0 .. rate - 1, NEW m, NEW w
  PROVE  Agree(m, w, rate, n, i) => Fills(m, rate, n, i) = Fills(w, rate, n, i)
<1>h. SUFFICES ASSUME \A x \in 1 .. n * rate + i : m[x] = w[x]
               PROVE  Fills(m, rate, n, i) = Fills(w, rate, n, i)
  BY Zenon DEF Agree
<1>1. n * rate \in Nat
  BY ProductsOrdered, Products
<1>2. ASSUME NEW b \in 1 .. n, NEW l \in 0 .. rate - 1
      PROVE  (b - 1) * rate + l + 1 \in 1 .. n * rate + i
  <2>1. (b - 1) * rate \in Nat /\ (b - 1) * rate + rate = b * rate
    BY ProductsOrdered, Products
  <2>2. b * rate <= n * rate
    BY ProductsOrdered
  <2> QED
    BY <1>1, <2>1, <2>2
<1>3. \A b \in 1 .. n, l \in 0 .. rate - 1 :
        m[(b - 1) * rate + l + 1] = w[(b - 1) * rate + l + 1]
  BY <1>h, <1>2
<1>4. \A l \in 0 .. rate - 1 : l < i => m[n * rate + l + 1] = w[n * rate + l + 1]
  BY <1>h, <1>1
<1>5. FullBlocks(m, rate, n) = FullBlocks(w, rate, n)
  BY <1>3, Zenon DEF FullBlocks, BlockOf
<1>6. Queue(m, rate, n, i) = Queue(w, rate, n, i)
  BY <1>4, Zenon DEF Queue
<1> QED
  BY <1>5, <1>6, Zenon DEF Fills

(* data are bytes of m behind the first k.                                 *)
Matches(data, m, k) == \A x \in 1 .. Len(data) : data[x] = m[k + x]

(* The next d bytes are absorbed, within a block.                          *)
LEMMA AddIs ==
  ASSUME NEW rate \in Nat \ {0}, NEW n \in Nat, NEW i \in 0 .. rate - 1, NEW m,
         NEW d \in Nat, NEW data
  PROVE  i + d <= rate /\ Len(data) = d /\ Matches(data, m, n * rate + i)
           => AddBytes(Fills(m, rate, n, i), data, i)
                = Sponge(rate, FullBlocks(m, rate, n), Queue(m, rate, n, i + d), i, Absorbing)
<1>h. SUFFICES ASSUME i + d <= rate, Len(data) = d, Matches(data, m, n * rate + i)
               PROVE  AddBytes(Fills(m, rate, n, i), data, i)
                = Sponge(rate, FullBlocks(m, rate, n), Queue(m, rate, n, i + d), i, Absorbing)
  BY Zenon
<1> DEFINE old == Queue(m, rate, n, i)
           new == Queue(m, rate, n, i + d)
           Lane(l) == IF l - i \in 0 .. Len(data) - 1 THEN Plus(old[l], {data[l - i + 1]}) ELSE old[l]
<1>1. n * rate \in Nat
  BY ProductsOrdered, Products
<1>2. DOMAIN old = 0 .. rate - 1
  BY DEF Queue
<1>3. ASSUME NEW l \in 0 .. rate - 1
      PROVE  Lane(l) = IF l < i + d THEN {m[n * rate + l + 1]} ELSE {}
  <2>1. old[l] = IF l < i THEN {m[n * rate + l + 1]} ELSE {}
    BY DEF Queue
  <2>2. CASE l - i \in 0 .. Len(data) - 1
    <3>1. l - i + 1 \in 1 .. d /\ l < i + d /\ ~(l < i)
      BY <1>h, <2>2
    <3>2. data[l - i + 1] = m[n * rate + i + (l - i + 1)]
      BY <1>h, <3>1 DEF Matches
    <3>3. n * rate + i + (l - i + 1) = n * rate + l + 1
      BY <1>1
    <3>4. Plus({}, {data[l - i + 1]}) = {data[l - i + 1]}
      BY DEF Plus
    <3> QED
      BY <2>1, <2>2, <3>1, <3>2, <3>3, <3>4
  <2>3. CASE ~(l - i \in 0 .. Len(data) - 1)
    <3>1. l < i + d <=> l < i
      BY <1>h, <2>3
    <3> QED
      BY <2>1, <2>3, <3>1
  <2> QED
    BY <2>2, <2>3
<1>4. AddedLanes(old, data, i) = new
  <2>1. AddedLanes(old, data, i) = [l \in 0 .. rate - 1 |-> Lane(l)]
    BY <1>2, Zenon DEF AddedLanes
  <2> HIDE DEF Lane
  <2> QED
    BY <1>3, <2>1, Zenon DEF Queue
<1> HIDE DEF new, old
<1>5. AddBytes(Sponge(rate, FullBlocks(m, rate, n), old, i, Absorbing), data, i)
        = Sponge(rate, FullBlocks(m, rate, n), AddedLanes(old, data, i), i, Absorbing)
  BY AddBytesIs
<1> QED
  BY <1>4, <1>5 DEF Fills, old, new

(* A full block is permuted and leaves an empty one.                       *)
LEMMA BlockFull ==
  ASSUME NEW rate \in Nat \ {0}, NEW n \in Nat, NEW m, NEW i
  PROVE  WithIndex(Permute(Sponge(rate, FullBlocks(m, rate, n), Queue(m, rate, n, rate), i, Absorbing)),
                   0) = Fills(m, rate, n + 1, 0)
<1> DEFINE Lanes(b) == BlockOf(m, rate, b - 1)
           old == FullBlocks(m, rate, n)
           full == Queue(m, rate, n, rate)
           new == FullBlocks(m, rate, n + 1)
<1>1. old = [b \in 1 .. n |-> Lanes(b)] /\ new = [b \in 1 .. n + 1 |-> Lanes(b)]
  BY Zenon DEF FullBlocks
<1>2. full = Lanes(n + 1)
  <2>1. full = BlockOf(m, rate, n)
    BY DEF Queue, BlockOf
  <2>2. n + 1 - 1 = n
    OBVIOUS
  <2> QED
    BY <2>1, <2>2
<1> HIDE DEF Lanes, old, full, new
<1>3. Append(old, full) = new
  <2>1. Append(old, full) = [x \in 1 .. n + 1 |-> IF x = n + 1 THEN full ELSE old[x]]
    <3>1. old = [x \in 1 .. n |-> old[x]]
      BY <1>1
    <3> QED
      BY <3>1, AppendIs
  <2>2. \A x \in 1 .. n + 1 : (IF x = n + 1 THEN full ELSE old[x]) = Lanes(x)
    BY <1>1, <1>2
  <2> QED
    BY <1>1, <2>1, <2>2, Zenon
<1>4. Queue(m, rate, n + 1, 0) = NoLanes(rate)
  BY DEF NoLanes, Queue
<1>5. Permute(Sponge(rate, old, full, i, Absorbing)) = Sponge(rate, new, NoLanes(rate), i, Absorbing)
  <2>1. Permute(Sponge(rate, old, full, i, Absorbing))
          = Sponge(rate, Append(old, full), NoLanes(rate), i, Absorbing)
    BY PermuteIs
  <2> QED
    BY <1>3, <2>1
<1> QED
  BY <1>4, <1>5, WithIndexIs DEF Fills, old, full, new

(* The state of a context that has absorbed the first k bytes of m.        *)
Absorbed(t, rate, m, k) ==
  \E n \in Nat, i \in 0 .. rate - 1 : k = n * rate + i /\ t = Fills(m, rate, n, i)

(* What fits into the block is absorbed.                                   *)
LEMMA PartAbsorbed ==
  ASSUME NEW rate \in Nat \ {0}, NEW t, NEW m, NEW k \in Nat, NEW data, NEW d \in Nat, NEW w
  PROVE  /\ Absorbed(t, rate, m, k) /\ Matches(data, m, k) /\ Len(data) = d
         /\ t.index + d <= rate
         /\ w = WithIndex(AddBytes(t, data, t.index), t.index + d)
         => /\ w.index = rate => Absorbed(WithIndex(Permute(w), 0), rate, m, k + d)
            /\ w.index # rate => Absorbed(w, rate, m, k + d)
<1>h. SUFFICES ASSUME Absorbed(t, rate, m, k), Matches(data, m, k), Len(data) = d,
                      t.index + d <= rate, w = WithIndex(AddBytes(t, data, t.index), t.index + d)
               PROVE  /\ w.index = rate => Absorbed(WithIndex(Permute(w), 0), rate, m, k + d)
                      /\ w.index # rate => Absorbed(w, rate, m, k + d)
  BY Zenon
<1>1. PICK n \in Nat, i \in 0 .. rate - 1 : k = n * rate + i /\ t = Fills(m, rate, n, i)
  BY <1>h, Zenon DEF Absorbed
<1>2. t.index = i
  BY <1>1, Zenon DEF Fills, Sponge
<1>d. i + d <= rate
  BY <1>h, <1>2
<1> DEFINE blocks == FullBlocks(m, rate, n)
           lanes == Queue(m, rate, n, i + d)
<1> HIDE DEF blocks, lanes
<1>3. AddBytes(t, data, i) = Sponge(rate, blocks, lanes, i, Absorbing)
  BY <1>h, <1>1, <1>2, AddIs DEF blocks, lanes
<1>4. w = Sponge(rate, blocks, lanes, i + d, Absorbing)
  BY <1>h, <1>2, <1>3, WithIndexIs
<1>5. n * rate \in Int /\ (n + 1) * rate = n * rate + rate
  BY Products
<1>6. w.index = i + d
  BY <1>4, Zenon DEF Sponge
<1>7. CASE i + d = rate
  <2>1. WithIndex(Permute(w), 0) = Fills(m, rate, n + 1, 0)
    BY <1>4, <1>7, BlockFull DEF blocks, lanes
  <2>2. k + d = (n + 1) * rate + 0 /\ n + 1 \in Nat /\ 0 \in 0 .. rate - 1
    BY <1>1, <1>5, <1>7
  <2>3. Absorbed(WithIndex(Permute(w), 0), rate, m, k + d)
    BY <2>1, <2>2, Zenon DEF Absorbed
  <2> QED
    BY <1>6, <1>7, <2>3, Zenon
<1>8. CASE i + d # rate
  <2>1. w = Fills(m, rate, n, i + d)
    BY <1>4, Zenon DEF Fills, blocks, lanes
  <2>2. i + d \in 0 .. rate - 1 /\ k + d = n * rate + (i + d)
    BY <1>1, <1>d, <1>5, <1>8
  <2>3. Absorbed(w, rate, m, k + d)
    BY <2>1, <2>2, Zenon DEF Absorbed
  <2> QED
    BY <1>6, <1>8, <2>3, Zenon
<1> QED
  BY <1>7, <1>8

(* A whole block is absorbed; the queue stays empty.                       *)
LEMMA BlockAbsorbed ==
  ASSUME NEW rate \in Nat \ {0}, NEW t, NEW m, NEW k \in Nat, NEW data
  PROVE  /\ Absorbed(t, rate, m, k) /\ Matches(data, m, k) /\ Len(data) = rate
         /\ t.index = 0
         => Absorbed(Permute(AddBytes(t, data, 0)), rate, m, k + rate)
<1>h. SUFFICES ASSUME Absorbed(t, rate, m, k), Matches(data, m, k), Len(data) = rate, t.index = 0
               PROVE  Absorbed(Permute(AddBytes(t, data, 0)), rate, m, k + rate)
  BY Zenon
<1>1. PICK n \in Nat, i \in 0 .. rate - 1 : k = n * rate + i /\ t = Fills(m, rate, n, i)
  BY <1>h, Zenon DEF Absorbed
<1>2. i = 0
  BY <1>h, <1>1, Zenon DEF Fills, Sponge
<1>3. AddBytes(t, data, 0)
        = Sponge(rate, FullBlocks(m, rate, n), Queue(m, rate, n, rate), 0, Absorbing)
  <2>1. AddBytes(Fills(m, rate, n, 0), data, 0)
          = Sponge(rate, FullBlocks(m, rate, n), Queue(m, rate, n, 0 + rate), 0, Absorbing)
    BY <1>h, <1>1, <1>2, AddIs
  <2> QED
    BY <1>1, <1>2, <2>1
<1>4. WithIndex(Permute(AddBytes(t, data, 0)), 0) = Fills(m, rate, n + 1, 0)
  BY <1>3, BlockFull
<1>5. WithIndex(Permute(AddBytes(t, data, 0)), 0) = Permute(AddBytes(t, data, 0))
  <2> DEFINE b == Append(FullBlocks(m, rate, n), Queue(m, rate, n, rate))
             l == NoLanes(rate)
  <2>1. Permute(AddBytes(t, data, 0)) = Sponge(rate, b, l, 0, Absorbing)
    BY <1>3, PermuteIs
  <2> HIDE DEF b, l
  <2>2. WithIndex(Sponge(rate, b, l, 0, Absorbing), 0) = Sponge(rate, b, l, 0, Absorbing)
    BY WithIndexIs
  <2> QED
    BY <2>1, <2>2
<1>6. k + rate = (n + 1) * rate + 0 /\ n + 1 \in Nat /\ 0 \in 0 .. rate - 1
  BY <1>1, <1>2, Products
<1> QED
  BY <1>4, <1>5, <1>6, Zenon DEF Absorbed

-----------------------------------------------------------------------------
(* What has been permuted when p blocks behind the first one are due, and  *)
(* the sponge of which i bytes have been read since.                       *)
After(m, rate, p) == Padded(m, rate) \o [k \in 1 .. p |-> NoLanes(rate)]
Empties(m, rate, p, i) == Sponge(rate, After(m, rate, p), NoLanes(rate), i, Squeezing)

(* The block with the padding.                                             *)
LastBlock(m, rate, n, i) ==
  [l \in 0 .. rate - 1 |->
     (IF l < i THEN {m[n * rate + l + 1]} ELSE IF l = i THEN {Suffix} ELSE {})
       \union (IF l = rate - 1 THEN {SecondBit} ELSE {})]

(* m has n blocks and i bytes more.                                        *)
Splits(m, rate, n, i) == Len(m) = n * rate + i

LEMMA PaddedIs ==
  ASSUME NEW rate \in Nat \ {0}, NEW n \in Nat, NEW i \in 0 .. rate - 1, NEW m
  PROVE  Splits(m, rate, n, i)
           => Padded(m, rate) = [k \in 1 .. n + 1 |-> IF k = n + 1 THEN LastBlock(m, rate, n, i)
                                                     ELSE BlockOf(m, rate, k - 1)]
<1>h. SUFFICES ASSUME Len(m) = n * rate + i
               PROVE  Padded(m, rate) = [k \in 1 .. n + 1 |-> IF k = n + 1 THEN LastBlock(m, rate, n, i)
                                                     ELSE BlockOf(m, rate, k - 1)]
  BY Zenon DEF Splits
<1> DEFINE last == Len(m) \div rate
           Lane(q) == IF q < Len(m) THEN {m[q + 1]} ELSE IF q = Len(m) THEN {Suffix} ELSE {}
           Block(k) == [l \in 0 .. rate - 1 |->
             Lane((k - 1) * rate + l)
               \union (IF k = last + 1 /\ l = rate - 1 THEN {SecondBit} ELSE {})]
<1>1. last = n
  BY <1>h, Quotient
<1>2. n * rate \in Nat
  BY ProductsOrdered, Products
<1> HIDE DEF last
<1>3. ASSUME NEW k \in 1 .. n
      PROVE  Block(k) = BlockOf(m, rate, k - 1)
  <2>1. ASSUME NEW l \in 0 .. rate - 1
        PROVE  (k - 1) * rate + l < Len(m) /\ k # last + 1
    <3>1. (k - 1) * rate \in Int /\ (k - 1) * rate + rate = k * rate
      BY Products
    <3>2. k * rate <= n * rate
      BY ProductsOrdered
    <3> QED
      BY <1>h, <1>1, <1>2, <3>1, <3>2
  <2>2. \A l \in 0 .. rate - 1 :
          Lane((k - 1) * rate + l)
               \union (IF k = last + 1 /\ l = rate - 1 THEN {SecondBit} ELSE {})
            = {m[(k - 1) * rate + l + 1]}
    BY <2>1
  <2> QED
    BY <2>2, Zenon DEF BlockOf
<1>4. Block(n + 1) = LastBlock(m, rate, n, i)
  <2>1. (n + 1) - 1 = n /\ n + 1 = last + 1
    BY <1>1
  <2>2. \A l \in 0 .. rate - 1 :
          Lane(n * rate + l) = IF l < i THEN {m[n * rate + l + 1]} ELSE IF l = i THEN {Suffix} ELSE {}
    BY <1>h, <1>2
  <2>3. \A l \in 0 .. rate - 1 : Lane(((n + 1) - 1) * rate + l) = Lane(n * rate + l)
    BY <2>1
  <2> DEFINE Byte(l) == IF l < i THEN {m[n * rate + l + 1]} ELSE IF l = i THEN {Suffix} ELSE {}
  <2> HIDE DEF Lane
  <2>4. \A l \in 0 .. rate - 1 : Lane(((n + 1) - 1) * rate + l) = Byte(l)
    BY <2>2, <2>3, Zenon
  <2> HIDE DEF Byte
  <2> DEFINE F(l) == Lane(((n + 1) - 1) * rate + l)
                       \union (IF n + 1 = last + 1 /\ l = rate - 1 THEN {SecondBit} ELSE {})
             G(l) == Byte(l) \union (IF l = rate - 1 THEN {SecondBit} ELSE {})
  <2>5. \A l \in 0 .. rate - 1 : F(l) = G(l)
    BY <2>1, <2>4, Zenon
  <2>6. LastBlock(m, rate, n, i) = [l \in 0 .. rate - 1 |-> G(l)]
    BY Zenon DEF LastBlock, Byte
  <2>7. Block(n + 1) = [l \in 0 .. rate - 1 |-> F(l)]
    BY Zenon
  <2> HIDE DEF F, G, Block
  <2> QED
    BY <2>5, <2>6, <2>7, Zenon
<1>5. Padded(m, rate) = [k \in 1 .. last + 1 |-> Block(k)]
  BY Zenon DEF Padded, last
<1> HIDE DEF Block
<1>6. \A k \in 1 .. n + 1 :
        Block(k) = IF k = n + 1 THEN LastBlock(m, rate, n, i) ELSE BlockOf(m, rate, k - 1)
  BY <1>3, <1>4
<1> QED
  BY <1>1, <1>5, <1>6, Zenon

(* Padding ends the message.                                               *)
Restarted(t) == [t EXCEPT !.index = 0, !.squeezing = TRUE]

LEMMA RestartedIs ==
  ASSUME NEW r, NEW b, NEW l, NEW i, NEW q
  PROVE  Restarted(Sponge(r, b, l, i, q)) = Sponge(r, b, l, 0, Squeezing)
<1> DEFINE w == Restarted(Sponge(r, b, l, i, q))
<1>1. w = [z \in {"rate", "blocks", "lanes", "index", "squeezing"} |-> w[z]]
  BY DEF Sponge, Restarted
<1>2. w["rate"] = r
  BY DEF Sponge, Restarted
<1>3. w["blocks"] = b
  BY DEF Sponge, Restarted
<1>4. w["lanes"] = l
  BY DEF Sponge, Restarted
<1>5. w["index"] = 0
  BY DEF Sponge, Restarted
<1>6. w["squeezing"] = Squeezing
  BY DEF Sponge, Restarted, Squeezing
<1> HIDE DEF w
<1> QED
  BY <1>1, <1>2, <1>3, <1>4, <1>5, <1>6, SpongeIs, Zenon DEF w

LEMMA LanesPadded ==
  ASSUME NEW rate \in Nat \ {0}, NEW n \in Nat, NEW i \in 0 .. rate - 1, NEW m
  PROVE  WithByte(WithByte(Queue(m, rate, n, i), Suffix, i), SecondBit, rate - 1)
           = LastBlock(m, rate, n, i)
<1> DEFINE q == Queue(m, rate, n, i)
           one == WithByte(q, Suffix, i)
           two == WithByte(one, SecondBit, rate - 1)
           Byte(l) == {m[n * rate + l + 1]}
<1>1. q = [l \in 0 .. rate - 1 |-> q[l]]
      /\ \A l \in 0 .. rate - 1 : q[l] = IF l < i THEN Byte(l) ELSE {}
  BY DEF Queue
<1>l. LastBlock(m, rate, n, i)
        = [l \in 0 .. rate - 1 |->
            (IF l < i THEN Byte(l) ELSE IF l = i THEN {Suffix} ELSE {})
               \union (IF l = rate - 1 THEN {SecondBit} ELSE {})]
  BY Zenon DEF LastBlock
<1> HIDE DEF q, Byte
<1>2. one = [l \in 0 .. rate - 1 |-> IF l = i THEN Plus(q[l], {Suffix}) ELSE q[l]]
  BY <1>1 DEF WithByte
<1> HIDE DEF one
<1>3. two = [l \in 0 .. rate - 1 |-> IF l = rate - 1 THEN Plus(one[l], {SecondBit}) ELSE one[l]]
  BY <1>2 DEF WithByte
<1> HIDE DEF two
<1>4. Plus({}, {Suffix}) = {Suffix} /\ Plus({Suffix}, {SecondBit}) = {Suffix} \union {SecondBit}
      /\ Plus({}, {SecondBit}) = {} \union {SecondBit}
  BY DEF Plus, Suffix, SecondBit
<1>5. ASSUME NEW l \in 0 .. rate - 1
      PROVE  (IF l = rate - 1 THEN Plus(one[l], {SecondBit}) ELSE one[l])
               = (IF l < i THEN Byte(l) ELSE IF l = i THEN {Suffix} ELSE {})
                   \union (IF l = rate - 1 THEN {SecondBit} ELSE {})
  <2>1. one[l] = IF l = i THEN Plus(q[l], {Suffix}) ELSE q[l]
    BY <1>2
  <2>2. CASE l < i
    <3>1. l # i /\ l # rate - 1 /\ q[l] = Byte(l)
      BY <1>1, <2>2
    <3>2. Byte(l) \union {} = Byte(l)
      OBVIOUS
    <3> QED
      BY <2>1, <2>2, <3>1, <3>2
  <2>3. CASE l = i
    <3>1. ~(l < i) /\ q[l] = {}
      BY <1>1, <2>3
    <3>2. {Suffix} \union {} = {Suffix}
      OBVIOUS
    <3> QED
      BY <1>4, <2>1, <2>3, <3>1, <3>2
  <2>4. CASE l > i
    <3>1. ~(l < i) /\ l # i /\ q[l] = {}
      BY <1>1, <2>4
    <3>2. {} \union {} = {}
      OBVIOUS
    <3> QED
      BY <1>4, <2>1, <3>1, <3>2
  <2> QED
    BY <2>2, <2>3, <2>4
<1>6. two = LastBlock(m, rate, n, i)
  BY <1>3, <1>5, <1>l, Zenon
<1> QED
  BY <1>6 DEF two, one, q

(* The state when the message has ended is that of SHAKE's definition.     *)
LEMMA MessageEnds ==
  ASSUME NEW rate \in Nat \ {0}, NEW t, NEW m
  PROVE  Absorbed(t, rate, m, Len(m)) => AbsorbLastFewBits(t, Suffix) = Empties(m, rate, 0, 0)
<1>h. SUFFICES ASSUME Absorbed(t, rate, m, Len(m))
               PROVE  AbsorbLastFewBits(t, Suffix) = Empties(m, rate, 0, 0)
  BY Zenon
<1>1. PICK n \in Nat, i \in 0 .. rate - 1 : Len(m) = n * rate + i /\ t = Fills(m, rate, n, i)
  BY <1>h, Zenon DEF Absorbed
<1> DEFINE blocks == FullBlocks(m, rate, n)
           last == LastBlock(m, rate, n, i)
           q == Queue(m, rate, n, i)
           one == WithByte(q, Suffix, i)
           two == WithByte(one, SecondBit, rate - 1)
<1>2. t.rate = rate /\ t.index = i
  BY <1>1, Zenon DEF Fills, Sponge
<1>3. AbsorbLastFewBits(t, Suffix)
        = Restarted(Permute(AddByte(AddByte(t, Suffix, i), SecondBit, rate - 1)))
  <2>1. ~(Suffix >= 128)
    BY DEF Suffix
  <2> QED
    BY <1>2, <2>1, Zenon DEF AbsorbLastFewBits, Restarted
<1>4. two = last
  BY LanesPadded
<1>5. t = Sponge(rate, blocks, q, i, Absorbing)
  BY <1>1, Zenon DEF Fills
<1> HIDE DEF blocks, last, q
<1>6. AddByte(t, Suffix, i) = Sponge(rate, blocks, one, i, Absorbing)
  BY <1>5, AddByteIs
<1> HIDE DEF one
<1>7. AddByte(AddByte(t, Suffix, i), SecondBit, rate - 1) = Sponge(rate, blocks, two, i, Absorbing)
  BY <1>6, AddByteIs
<1> HIDE DEF two
<1>8. Permute(AddByte(AddByte(t, Suffix, i), SecondBit, rate - 1))
        = Sponge(rate, Append(blocks, last), NoLanes(rate), i, Absorbing)
  BY <1>4, <1>7, PermuteIs
<1>9. AbsorbLastFewBits(t, Suffix) = Sponge(rate, Append(blocks, last), NoLanes(rate), 0, Squeezing)
  BY <1>3, <1>8, RestartedIs
<1>10. Append(blocks, last) = After(m, rate, 0)
  <2>1. blocks = [k \in 1 .. n |-> BlockOf(m, rate, k - 1)]
    BY Zenon DEF blocks, FullBlocks
  <2>2. blocks = [k \in 1 .. n |-> blocks[k]] /\ \A k \in 1 .. n : blocks[k] = BlockOf(m, rate, k - 1)
    BY <2>1
  <2>3. Append(blocks, last) = [k \in 1 .. n + 1 |-> IF k = n + 1 THEN last ELSE blocks[k]]
    BY <2>2, AppendIs
  <2>4. \A k \in 1 .. n + 1 : (IF k = n + 1 THEN last ELSE blocks[k])
                                = IF k = n + 1 THEN last ELSE BlockOf(m, rate, k - 1)
    BY <2>2
  <2>5. Padded(m, rate) = [k \in 1 .. n + 1 |-> IF k = n + 1 THEN last ELSE BlockOf(m, rate, k - 1)]
    BY <1>1, PaddedIs DEF last, Splits
  <2>6. Append(blocks, last) = Padded(m, rate)
    BY <2>3, <2>4, <2>5, Zenon
  <2> DEFINE P == Padded(m, rate)
             Z == [k \in 1 .. 0 |-> NoLanes(rate)]
  <2>7. P = [k \in 1 .. n + 1 |-> P[k]]
    BY <2>5
  <2>8. Z = [k \in 1 .. 0 |-> Z[k]]
    OBVIOUS
  <2> HIDE DEF P, Z
  <2>9. P \o Z = [k \in 1 .. n + 1 + 0 |-> IF k <= n + 1 THEN P[k] ELSE Z[k - (n + 1)]]
    BY <2>7, <2>8, ConcatIs
  <2>10. P \o Z = P
    BY <2>7, <2>9
  <2> QED
    BY <2>6, <2>10 DEF After, P, Z
<1> QED
  BY <1>9, <1>10, Zenon DEF Empties

-----------------------------------------------------------------------------
(* Every further block of output takes one more permutation.               *)
PaddedLen(m, rate) == Len(m) \div rate + 1

LEMMA AfterIs ==
  ASSUME NEW rate \in Nat \ {0}, NEW m \in Seq(Int), NEW p \in Nat
  PROVE  /\ PaddedLen(m, rate) \in Nat \ {0}
         /\ Padded(m, rate) = [k \in 1 .. PaddedLen(m, rate) |-> Padded(m, rate)[k]]
         /\ After(m, rate, p) = [k \in 1 .. PaddedLen(m, rate) + p |->
              IF k <= PaddedLen(m, rate) THEN Padded(m, rate)[k] ELSE NoLanes(rate)]
<1> DEFINE n == PaddedLen(m, rate)
           P == Padded(m, rate)
           Z == [k \in 1 .. p |-> NoLanes(rate)]
<1>1. n \in Nat \ {0}
  <2> HIDE DEF P, Z
  <2>1. Len(m) \in Nat
    OBVIOUS
  <2> DEFINE h == Len(m)
  <2> HIDE DEF h
  <2>2. h \div rate \in Nat
    BY <2>1, DivMod DEF h
  <2> QED
    BY <2>2 DEF PaddedLen, h
<1>2. P = [k \in 1 .. n |-> P[k]]
  BY DEF Padded, PaddedLen
<1>3. Z = [k \in 1 .. p |-> Z[k]] /\ \A k \in 1 .. p : Z[k] = NoLanes(rate)
  OBVIOUS
<1>4. After(m, rate, p) = P \o Z
  BY Zenon DEF After
<1> HIDE DEF n, P, Z
<1>5. P \o Z = [k \in 1 .. n + p |-> IF k <= n THEN P[k] ELSE Z[k - n]]
  BY <1>1, <1>2, <1>3, ConcatIs
<1>6. \A k \in 1 .. n + p : (IF k <= n THEN P[k] ELSE Z[k - n]) = IF k <= n THEN P[k] ELSE NoLanes(rate)
  BY <1>1, <1>3
<1>7. P \o Z = [k \in 1 .. n + p |-> IF k <= n THEN P[k] ELSE NoLanes(rate)]
  BY <1>5, <1>6, Zenon
<1> QED
  BY <1>1, <1>2, <1>4, <1>7 DEF n, P

LEMMA AfterGrows ==
  ASSUME NEW rate \in Nat \ {0}, NEW m \in Seq(Int), NEW p \in Nat
  PROVE  Append(After(m, rate, p), NoLanes(rate)) = After(m, rate, p + 1)
<1> DEFINE n == PaddedLen(m, rate)
           P == Padded(m, rate)
           A == After(m, rate, p)
           e == NoLanes(rate)
<1>1. n \in Nat \ {0} /\ A = [k \in 1 .. n + p |-> IF k <= n THEN P[k] ELSE e]
  BY AfterIs
<1>2. After(m, rate, p + 1) = [k \in 1 .. n + (p + 1) |-> IF k <= n THEN P[k] ELSE e]
  <2>1. p + 1 \in Nat
    OBVIOUS
  <2> QED
    BY <2>1, AfterIs, Zenon
<1> HIDE DEF n, P, A, e
<1>3. A = [k \in 1 .. n + p |-> A[k]]
  BY <1>1
<1>4. Append(A, e) = [k \in 1 .. n + p + 1 |-> IF k = n + p + 1 THEN e ELSE A[k]]
  BY <1>1, <1>3, AppendIs
<1>5. \A k \in 1 .. n + p + 1 : (IF k = n + p + 1 THEN e ELSE A[k]) = IF k <= n THEN P[k] ELSE e
  BY <1>1
<1>6. n + p + 1 = n + (p + 1)
  BY <1>1
<1>7. Append(A, e) = [k \in 1 .. n + p + 1 |-> IF k <= n THEN P[k] ELSE e]
  BY <1>4, <1>5, Zenon
<1> QED
  BY <1>2, <1>6, <1>7 DEF A, e

LEMMA PermuteEmpties ==
  ASSUME NEW rate \in Nat \ {0}, NEW m \in Seq(Int), NEW p \in Nat, NEW i
  PROVE  Permute(Empties(m, rate, p, i)) = Empties(m, rate, p + 1, i)
<1> DEFINE a == After(m, rate, p)
           b == After(m, rate, p + 1)
           e == NoLanes(rate)
<1>1. Append(a, e) = b
  BY AfterGrows
<1> HIDE DEF a, b, e
<1>2. Permute(Sponge(rate, a, e, i, Squeezing)) = Sponge(rate, Append(a, e), NoLanes(rate), i, Squeezing)
  BY PermuteIs
<1>3. Permute(Sponge(rate, a, e, i, Squeezing)) = Sponge(rate, b, e, i, Squeezing)
  BY <1>1, <1>2 DEF e
<1> QED
  BY <1>3 DEF Empties, a, b, e

(* The first g bytes of a stream, and what the next ones are taken from.   *)
OutputOf(m, rate, g) == [x \in 1 .. g |-> Stream(m, rate, x - 1)]

LEMMA StreamIs ==
  ASSUME NEW rate \in Nat \ {0}, NEW m, NEW p \in Nat, NEW l \in 0 .. rate - 1
  PROVE  Stream(m, rate, p * rate + l) = [after |-> After(m, rate, p), plus |-> {}, lane |-> l]
<1> DEFINE q == p * rate + l
<1>1. q \div rate = p /\ q % rate = l
  BY Quotient
<1> HIDE DEF q
<1>2. Stream(m, rate, q) = [after |-> After(m, rate, q \div rate), plus |-> {}, lane |-> q % rate]
  BY Zenon DEF Stream, After
<1>3. Stream(m, rate, q) = [after |-> After(m, rate, p), plus |-> {}, lane |-> l]
  BY <1>1, <1>2
<1> QED
  BY <1>3 DEF q

(* The output up to place i of block p.                                    *)
OutputTo(m, rate, p, i) == OutputOf(m, rate, p * rate + i)

(* n bytes from place i on end at place k of a block.                      *)
Within(i, n, k, rate) == i + n = k /\ k <= rate

Grows(m, rate, p, j, i, n, k) ==
  OutputTo(m, rate, p, i) \o ExtractBytes(Empties(m, rate, p, j), i, n) = OutputTo(m, rate, p, k)

LEMMA OutputGrows ==
  ASSUME NEW rate \in Nat \ {0}, NEW m \in Seq(Int), NEW p \in Nat, NEW j,
         NEW i \in Nat, NEW n \in Nat, NEW k \in Nat
  PROVE  Within(i, n, k, rate) => Grows(m, rate, p, j, i, n, k)
<1>h. SUFFICES ASSUME i + n = k, k <= rate
               PROVE  OutputTo(m, rate, p, i) \o ExtractBytes(Empties(m, rate, p, j), i, n)
                        = OutputTo(m, rate, p, k)
  BY Zenon DEF Within, Grows
<1> DEFINE g == p * rate + i
           A == OutputOf(m, rate, g)
           E == ExtractBytes(Empties(m, rate, p, j), i, n)
           S(x) == Stream(m, rate, x - 1)
<1>1. p * rate \in Nat
  BY ProductsOrdered, Products
<1>2. g \in Nat /\ p * rate + k = g + n
  BY <1>h, <1>1
<1>3. Empties(m, rate, p, j).blocks = After(m, rate, p)
      /\ Empties(m, rate, p, j).lanes = NoLanes(rate)
  BY Zenon DEF Empties, Sponge
<1>4. ASSUME NEW x \in 1 .. n
      PROVE  [after |-> Empties(m, rate, p, j).blocks, plus |-> Empties(m, rate, p, j).lanes[i + x - 1],
              lane |-> i + x - 1] = S(g + x)
  <2> DEFINE l == i + x - 1
  <2>1. l \in 0 .. rate - 1 /\ (g + x) - 1 = p * rate + l
    BY <1>h, <1>1
  <2>2. NoLanes(rate)[l] = {}
    BY <2>1 DEF NoLanes
  <2> HIDE DEF l, g
  <2>3. Stream(m, rate, p * rate + l) = [after |-> After(m, rate, p), plus |-> {}, lane |-> l]
    BY <2>1, StreamIs
  <2>4. S(g + x) = Stream(m, rate, p * rate + l)
    BY <2>1, Zenon
  <2>5. [after |-> Empties(m, rate, p, j).blocks, plus |-> Empties(m, rate, p, j).lanes[l], lane |-> l]
          = [after |-> After(m, rate, p), plus |-> {}, lane |-> l]
    BY <1>3, <2>2
  <2> HIDE DEF S
  <2> QED
    BY <2>3, <2>4, <2>5 DEF l
<1>5. E = [x \in 1 .. n |-> [after |-> Empties(m, rate, p, j).blocks,
                             plus |-> Empties(m, rate, p, j).lanes[i + x - 1], lane |-> i + x - 1]]
  BY Zenon DEF ExtractBytes
<1>6. A = [x \in 1 .. g |-> S(x)]
  BY Zenon DEF OutputOf
<1>7. OutputOf(m, rate, g + n) = [x \in 1 .. g + n |-> S(x)]
  BY Zenon DEF OutputOf
<1> HIDE DEF A, E, S, g
<1>8. E = [x \in 1 .. n |-> S(g + x)]
  BY <1>4, <1>5, Zenon
<1>9. A = [x \in 1 .. g |-> A[x]] /\ E = [x \in 1 .. n |-> E[x]]
  BY <1>6, <1>8
<1>g. g \in Nat
  BY <1>2
<1>10. A \o E = [x \in 1 .. g + n |-> IF x <= g THEN A[x] ELSE E[x - g]]
  BY <1>g, <1>9, ConcatIs
<1>11. \A x \in 1 .. g + n : (IF x <= g THEN A[x] ELSE E[x - g]) = S(x)
  <2> TAKE x \in 1 .. g + n
  <2>1. CASE x <= g
    BY <1>2, <1>6, <2>1
  <2>2. CASE ~(x <= g)
    <3>1. x - g \in 1 .. n /\ g + (x - g) = x
      BY <1>2, <2>2
    <3>2. E[x - g] = S(g + (x - g))
      BY <1>8, <3>1
    <3> QED
      BY <2>2, <3>1, <3>2
  <2> QED
    BY <2>1, <2>2
<1>12. A \o E = OutputOf(m, rate, g + n)
  BY <1>7, <1>10, <1>11, Zenon
<1> QED
  BY <1>2, <1>12 DEF A, E, g, OutputTo

-----------------------------------------------------------------------------
(* The inductive invariant.  What a context has to absorb in all, and how  *)
(* much of it the call in progress still has to add.                       *)
Oracles == Finals \union {"H0"}
Fed(c) == IF fn[c] = "none" THEN msg[c] ELSE Append(msg[c], DomainByte(fn[c]))
Pending(c) == IF c = cur /\ Running("update") THEN Left ELSE 0
Rate == sponge[1].rate

Ops == [op : {"update", "final", "squeeze", "clear"}, data : Seq(Int), n : Nat]
Stages == {"unused", "absorbing", "squeezing", "cleared"}

Typed ==
  /\ sponge = [c \in Contexts |-> sponge[c]] /\ Rate \in Nat \ {0}
  /\ msg \in [Contexts -> Seq(Int)]
  /\ fn \in [Contexts -> Oracles \union {"none"}]
  /\ given = [c \in Contexts |-> given[c]]
  /\ use \in [Contexts -> Stages] /\ use[1] # "unused"
  /\ cur \in Contexts /\ todo \in Seq(Ops) /\ done \in Nat

(* Only output is due from entry k of the call on.                         *)
OutputsFrom(k) == \A x \in k .. Len(todo) : todo[x].op \in {"squeeze", "clear"}

(* The data of a call are the last bytes of what the context is fed.       *)
LastOf(data, m) ==
  Len(data) <= Len(m) /\ \A x \in 1 .. Len(data) : data[x] = m[Len(m) - Len(data) + x]

Updating ==
  /\ todo[1].op = "update" /\ use[cur] = "absorbing"
  /\ done <= Len(todo[1].data) /\ LastOf(todo[1].data, Fed(cur))
  /\ \/ fn[cur] = "none" /\ Len(todo) = 1
     \/ fn[cur] # "none" /\ Len(todo) >= 2 /\ todo[2].op = "final" /\ OutputsFrom(3)
Finalising ==
  todo[1].op = "final" /\ use[cur] = "absorbing" /\ fn[cur] # "none" /\ OutputsFrom(2)
Outputting == OutputsFrom(1) /\ use[cur] \in {"squeezing", "cleared"}
CallInShape == todo # <<>> => Updating \/ Finalising \/ Outputting

(* Each context is as its stage, its message and its output make it.       *)
Fresh(c) == msg[c] = <<>> /\ fn[c] = "none" /\ given[c] = <<>>
Filling(c) ==
  /\ given[c] = <<>> /\ (fn[c] = "none" \/ (c = cur /\ todo # <<>>))
  /\ Absorbed(sponge[c], Rate, Fed(c), Len(Fed(c)) - Pending(c))
Emptying(c) ==
  /\ fn[c] # "none"
  /\ \E p \in Nat, i \in 0 .. Rate :
       /\ sponge[c] = Empties(Fed(c), Rate, p, i)
       /\ given[c] = OutputTo(Fed(c), Rate, p, i)
StageOf(c) ==
  /\ use[c] = "unused" => Fresh(c)
  /\ use[c] = "absorbing" => Filling(c)
  /\ use[c] \in {"squeezing", "cleared"} => Emptying(c)

Inv == Typed /\ CallInShape /\ \A c \in Contexts : StageOf(c)

-----------------------------------------------------------------------------
(* What the parts of the invariant say of one step's operands.             *)
LEMMA FillingFields ==
  ASSUME NEW rate \in Nat \ {0}, NEW t, NEW m, NEW k
  PROVE  Absorbed(t, rate, m, k)
           => /\ t.rate = rate /\ t.index \in 0 .. rate - 1
              /\ \A x, y, z : /\ AddBytes(t, x, y).index = t.index
                             /\ WithIndex(AddBytes(t, x, y), z).rate = rate
<1>h. SUFFICES ASSUME Absorbed(t, rate, m, k)
               PROVE  /\ t.rate = rate /\ t.index \in 0 .. rate - 1
                      /\ \A x, y, z : /\ AddBytes(t, x, y).index = t.index
                                     /\ WithIndex(AddBytes(t, x, y), z).rate = rate
  BY Zenon
<1>1. PICK n \in Nat, i \in 0 .. rate - 1 : t = Fills(m, rate, n, i)
  BY <1>h, Zenon DEF Absorbed
<1>2. t.rate = rate /\ t.index = i
  BY <1>1, Zenon DEF Fills, Sponge
<1>3. ASSUME NEW x, NEW y, NEW z
      PROVE  AddBytes(t, x, y).index = i /\ WithIndex(AddBytes(t, x, y), z).rate = rate
  <2>1. AddBytes(t, x, y)
          = Sponge(rate, FullBlocks(m, rate, n), AddedLanes(Queue(m, rate, n, i), x, y), i, Absorbing)
    BY <1>1, AddBytesIs DEF Fills
  <2> QED
    BY <2>1, SpongeFields, WithIndexIs
<1> QED
  BY <1>2, <1>3

LEMMA EmptyingFields ==
  ASSUME NEW rate, NEW m, NEW p, NEW i
  PROVE  /\ Empties(m, rate, p, i).rate = rate /\ Empties(m, rate, p, i).index = i
         /\ WithIndex(Empties(m, rate, p, i), 0) = Empties(m, rate, p, 0)
<1>1. Empties(m, rate, p, i).rate = rate /\ Empties(m, rate, p, i).index = i
  BY Zenon DEF Empties, Sponge
<1>2. WithIndex(Sponge(rate, After(m, rate, p), NoLanes(rate), i, Squeezing), 0)
        = Sponge(rate, After(m, rate, p), NoLanes(rate), 0, Squeezing)
  BY WithIndexIs
<1> QED
  BY <1>1, <1>2 DEF Empties

LEMMA FedIs ==
  ASSUME Typed, NEW c \in Contexts
  PROVE  /\ Fed(c) \in Seq(Int) /\ msg[c] \in Seq(Int)
         /\ fn[c] # "none" => DomainByte(fn[c]) \in Int /\ fn[c] \in Oracles
<1>1. msg[c] \in Seq(Int) /\ fn[c] \in Oracles \union {"none"}
  BY DEF Typed
<1>2. ASSUME NEW f \in Oracles
      PROVE  DomainByte(f) \in Int
  BY DEF Oracles, Finals, DomainByte
<1>3. fn[c] # "none" => DomainByte(fn[c]) \in Int /\ fn[c] \in Oracles
  BY <1>1, <1>2
<1>4. ASSUME NEW d \in Int
      PROVE  Append(msg[c], d) \in Seq(Int)
  BY <1>1
<1>5. Fed(c) \in Seq(Int)
  BY <1>1, <1>3, <1>4 DEF Fed
<1> QED
  BY <1>1, <1>3, <1>5

LEMMA CallIs ==
  ASSUME Typed, todo # <<>>
  PROVE  /\ Head(todo) = todo[1] /\ todo[1] \in Ops /\ Len(todo) \in Nat \ {0}
         /\ Tail(todo) \in Seq(Ops) /\ Len(Tail(todo)) = Len(todo) - 1
         /\ \A x \in 1 .. Len(todo) - 1 : Tail(todo)[x] = todo[x + 1]
<1>1. todo \in Seq(Ops)
  BY DEF Typed
<1> HIDE DEF Ops
<1>2. Len(todo) \in Nat \ {0} /\ Head(todo) = todo[1]
  BY <1>1
<1>3. todo[1] \in Ops
  BY <1>1, <1>2
<1> QED
  BY <1>1, <1>2, <1>3

(* A context that a step leaves alone.                                     *)
LEMMA LeftAlone ==
  ASSUME NEW c, StageOf(c), Rate' = Rate, sponge'[c] = sponge[c], msg'[c] = msg[c],
         fn'[c] = fn[c], given'[c] = given[c], use'[c] = use[c], Pending(c)' = Pending(c),
         use[c] = "absorbing" => fn[c] = "none" \/ (c = cur' /\ todo' # <<>>)
  PROVE  StageOf(c)'
<1>1. Fed(c)' = Fed(c)
  BY DEF Fed
<1>2. Fresh(c) => Fresh(c)'
  BY DEF Fresh
<1>3. use[c] = "absorbing" /\ Filling(c) => Filling(c)'
  <2>1. Absorbed(sponge[c], Rate, Fed(c), Len(Fed(c)) - Pending(c))
          => Absorbed(sponge[c], Rate, Fed(c), Len(Fed(c)) - Pending(c))'
    <3>1. (Len(Fed(c)) - Pending(c))' = Len(Fed(c)) - Pending(c)
      BY <1>1
    <3> QED
      BY <1>1, <3>1, Zenon DEF Absorbed, Fills
  <2> QED
    BY <2>1, Zenon DEF Filling
<1>4. Emptying(c) => Emptying(c)'
  BY <1>1, Zenon DEF Emptying
<1> QED
  BY <1>2, <1>3, <1>4, Zenon DEF StageOf

(* A step on the sponge of the call's context.                             *)
LEMMA SetIs ==
  ASSUME Typed, NEW t, Set(t), t.rate = Rate
  PROVE  /\ Rate' = Rate /\ sponge' = [c \in Contexts |-> sponge'[c]]
         /\ sponge'[cur] = t /\ \A c \in Contexts \ {cur} : sponge'[c] = sponge[c]
<1>1. sponge = [c \in Contexts |-> sponge[c]] /\ cur \in Contexts
  BY DEF Typed
<1>2. sponge' = [c \in Contexts |-> IF c = cur THEN t ELSE sponge[c]]
  BY <1>1 DEF Set
<1>3. sponge'[cur] = t /\ \A c \in Contexts \ {cur} : sponge'[c] = sponge[c]
  BY <1>1, <1>2
<1>4. sponge' = [c \in Contexts |-> sponge'[c]]
  BY <1>2
<1>5. Rate' = Rate
  BY <1>3 DEF Rate, Contexts
<1> QED
  BY <1>3, <1>4, <1>5

-----------------------------------------------------------------------------
(* Absorbing.                                                              *)
LEMMA UpdateRuns ==
  ASSUME Inv, Running("update")
  PROVE  /\ todo # <<>> /\ Updating /\ Head(todo) = todo[1] /\ todo[1].data \in Seq(Int)
         /\ Left = Len(todo[1].data) - done /\ Left \in Nat /\ Pending(cur) = Left
         /\ Len(Fed(cur)) - Left \in Nat
         /\ Absorbed(s, Rate, Fed(cur), Len(Fed(cur)) - Left)
         /\ given[cur] = <<>> /\ use[cur] = "absorbing"
         /\ (fn[cur] = "none" \/ Len(todo) >= 2)
<1>1. Typed /\ cur \in Contexts /\ done \in Nat
  BY DEF Inv, Typed
<1>2. todo # <<>> /\ Head(todo) = todo[1] /\ todo[1] \in Ops /\ todo[1].op = "update"
      /\ Len(todo) \in Nat \ {0}
  BY <1>1, CallIs DEF Running
<1>3. todo[1].data \in Seq(Int)
  BY <1>2 DEF Ops
<1>4. Updating
  <2>1. ~Finalising
    BY <1>2 DEF Finalising
  <2>2. ~Outputting
    BY <1>2 DEF Outputting, OutputsFrom
  <2> QED
    BY <1>2, <2>1, <2>2 DEF Inv, CallInShape
<1>5. Left = Len(todo[1].data) - done
  BY <1>2 DEF Left
<1>6. Len(todo[1].data) \in Nat /\ Len(Fed(cur)) \in Nat
  BY <1>1, <1>3, FedIs
<1>7. done <= Len(todo[1].data) /\ Len(todo[1].data) <= Len(Fed(cur))
  BY <1>4 DEF Updating, LastOf
<1>8. Left \in Nat /\ Len(Fed(cur)) - Left \in Nat
  BY <1>1, <1>5, <1>6, <1>7
<1>9. Pending(cur) = Left
  BY DEF Pending
<1>10. use[cur] = "absorbing"
  BY <1>4 DEF Updating
<1>11. Filling(cur)
  BY <1>1, <1>10 DEF Inv, StageOf
<1>12. Absorbed(s, Rate, Fed(cur), Len(Fed(cur)) - Left) /\ given[cur] = <<>>
  BY <1>9, <1>11, Zenon DEF Filling, s
<1>13. fn[cur] = "none" \/ Len(todo) >= 2
  BY <1>4 DEF Updating
<1> QED
  BY <1>2, <1>3, <1>4, <1>5, <1>8, <1>9, <1>10, <1>12, <1>13

(* The next n bytes of the call's data are the next ones to absorb.        *)
LEMMA NextBytes ==
  ASSUME Inv, Running("update"), NEW n \in Nat, n <= Left
  PROVE  LET part == SubSeq(Head(todo).data, done + 1, done + n)
         IN  Len(part) = n /\ Matches(part, Fed(cur), Len(Fed(cur)) - Left)
<1> DEFINE data == todo[1].data
           m == Fed(cur)
           part == SubSeq(data, done + 1, done + n)
<1>1. Head(todo).data = data /\ data \in Seq(Int) /\ Left = Len(data) - done /\ Updating
  BY UpdateRuns
<1>2. done \in Nat /\ Typed /\ cur \in Contexts
  BY DEF Inv, Typed
<1>3. m \in Seq(Int)
  BY <1>2, FedIs
<1>4. Len(data) <= Len(m) /\ \A x \in 1 .. Len(data) : data[x] = m[Len(m) - Len(data) + x]
  BY <1>1 DEF Updating, LastOf
<1> HIDE DEF data, m
<1>5. Len(data) \in Nat /\ Len(m) \in Nat
  BY <1>1, <1>3
<1>6. done + n <= Len(data)
  BY <1>1, <1>2, <1>5
<1>7. Len(part) = n /\ \A x \in 1 .. n : part[x] = data[done + x]
  BY <1>1, <1>2, <1>6, SliceIs
<1> HIDE DEF part
<1>8. \A x \in 1 .. n : part[x] = m[Len(m) - Left + x]
  <2> TAKE x \in 1 .. n
  <2>1. done + x \in 1 .. Len(data)
    BY <1>2, <1>5, <1>6
  <2>2. Len(m) - Len(data) + (done + x) = Len(m) - Left + x
    BY <1>1, <1>2, <1>5
  <2> QED
    BY <1>4, <1>7, <2>1, <2>2
<1>9. Matches(part, m, Len(m) - Left)
  BY <1>7, <1>8 DEF Matches
<1> QED
  BY <1>1, <1>7, <1>9 DEF part, m

LEMMA AbsorbStep ==
  ASSUME Inv, Running("update"), NEW d \in Nat, d <= Left, NEW t,
         Absorbed(t, Rate, Fed(cur), Len(Fed(cur)) - Left + d),
         Set(t), done' = done + d, UNCHANGED <<msg, fn, given, use, copied, cur, todo>>
  PROVE  Inv'
<1>1. Typed /\ cur \in Contexts /\ done \in Nat /\ Rate \in Nat \ {0}
  BY DEF Inv, Typed
<1>2. t.rate = Rate
  BY <1>1, FillingFields
<1>3. /\ Rate' = Rate /\ sponge' = [c \in Contexts |-> sponge'[c]]
      /\ sponge'[cur] = t /\ \A c \in Contexts \ {cur} : sponge'[c] = sponge[c]
  BY <1>1, <1>2, SetIs
<1>4. /\ todo # <<>> /\ Updating /\ Left = Len(todo[1].data) - done /\ Left \in Nat
      /\ Len(Fed(cur)) - Left \in Nat /\ given[cur] = <<>> /\ use[cur] = "absorbing"
      /\ Pending(cur) = Left
  BY UpdateRuns
<1>5. Typed'
  <2>1. done' \in Nat
    BY <1>1
  <2> QED
    BY <1>1, <1>3, <2>1 DEF Typed
<1>6. Fed(cur)' = Fed(cur)
  BY DEF Fed
<1>l. Len(todo[1].data) \in Nat /\ Len(Fed(cur)) \in Nat
  <2>1. todo[1].data \in Seq(Int) /\ Fed(cur) \in Seq(Int)
    BY <1>1, FedIs, UpdateRuns
  <2> QED
    BY <2>1
<1>7. CallInShape'
  <2>1. done' <= Len(todo[1].data)
    BY <1>1, <1>4, <1>l
  <2>2. OutputsFrom(3)' <=> OutputsFrom(3)
    BY DEF OutputsFrom
  <2>3. Updating'
    BY <1>4, <1>6, <2>1, <2>2 DEF Updating
  <2> QED
    BY <2>3 DEF CallInShape
<1>8. Left' = Left - d
  BY <1>1, <1>4, <1>l, UpdateRuns DEF Left, Running
<1>9. Pending(cur)' = Left - d
  BY <1>8 DEF Pending, Running
<1>10. StageOf(cur)'
  <2>1. Len(Fed(cur)) - (Left - d) = Len(Fed(cur)) - Left + d
    BY <1>4, <1>l
  <2>2. Absorbed(t, Rate, Fed(cur), Len(Fed(cur)) - (Left - d))
    BY <2>1
  <2>3. Absorbed(sponge[cur], Rate, Fed(cur), Len(Fed(cur)) - Pending(cur))'
    <3>1. (Len(Fed(cur)) - Pending(cur))' = Len(Fed(cur)) - (Left - d)
      BY <1>6, <1>9
    <3> QED
      BY <1>3, <1>6, <2>2, <3>1, Zenon DEF Absorbed, Fills
  <2>4. Filling(cur)'
    BY <1>4, <2>3 DEF Filling
  <2> QED
    BY <1>4, <2>4 DEF StageOf
<1>11. ASSUME NEW c \in Contexts \ {cur}
       PROVE  StageOf(c)'
  <2>1. StageOf(c)
    BY DEF Inv
  <2>2. Pending(c) = 0 /\ Pending(c)' = 0
    BY DEF Pending
  <2>3. use[c] = "absorbing" => fn[c] = "none"
    BY <2>1 DEF StageOf, Filling
  <2> QED
    BY <1>3, <2>1, <2>2, <2>3, LeftAlone
<1> QED
  BY <1>5, <1>7, <1>10, <1>11 DEF Inv

LEMMA AbsorbBlockKeeps ==
  ASSUME Inv, AbsorbBlock
  PROVE  Inv'
<1> DEFINE k == Len(Fed(cur)) - Left
           part == SubSeq(Head(todo).data, done + 1, done + Rate)
<1>1. Running("update") /\ Rate \in Nat \ {0}
  BY DEF AbsorbBlock, Inv, Typed
<1>2. Left \in Nat /\ k \in Nat /\ Absorbed(s, Rate, Fed(cur), k)
  BY <1>1, UpdateRuns
<1>3. s.rate = Rate /\ s.index = 0 /\ Left >= Rate
  BY <1>1, <1>2, FillingFields DEF AbsorbBlock, Whole
<1>4. Len(part) = Rate /\ Matches(part, Fed(cur), k)
  BY <1>1, <1>2, <1>3, NextBytes
<1>5. Absorbed(Permute(AddBytes(s, part, 0)), Rate, Fed(cur), k + Rate)
  BY <1>1, <1>2, <1>3, <1>4, BlockAbsorbed
<1>6. /\ Set(Permute(AddBytes(s, part, 0))) /\ done' = done + Rate
      /\ UNCHANGED <<msg, fn, given, use, copied, cur, todo>>
  BY <1>3 DEF AbsorbBlock
<1> QED
  BY <1>1, <1>2, <1>3, <1>5, <1>6, AbsorbStep

LEMMA AbsorbPartKeeps ==
  ASSUME Inv, AbsorbPart
  PROVE  Inv'
<1> DEFINE k == Len(Fed(cur)) - Left
           n == Partial(s)
           part == SubSeq(Head(todo).data, done + 1, done + n)
           b == AddBytes(s, part, s.index)
           w == Advanced(b, n)
<1>1. Running("update") /\ Rate \in Nat \ {0}
  BY DEF AbsorbPart, Inv, Typed
<1>2. Left \in Nat /\ k \in Nat /\ Absorbed(s, Rate, Fed(cur), k)
  BY <1>1, UpdateRuns
<1>3. s.rate = Rate /\ s.index \in 0 .. Rate - 1 /\ b.index = s.index
  BY <1>1, <1>2, FillingFields
<1>4. n \in Nat /\ n <= Left /\ s.index + n <= Rate
  BY <1>1, <1>2, <1>3 DEF Partial
<1>5. /\ Set(IF w.index = w.rate THEN WithIndex(Permute(w), 0) ELSE w) /\ done' = done + n
      /\ UNCHANGED <<msg, fn, given, use, copied, cur, todo>>
  <2>1. Set(IF w.index = w.rate THEN WithIndex(Permute(w), 0) ELSE w)
    BY Zenon DEF AbsorbPart, WithIndex, Advanced
  <2>2. done' = done + n
    BY Zenon DEF AbsorbPart
  <2>3. UNCHANGED <<msg, fn, given, use, copied, cur, todo>>
    BY Zenon DEF AbsorbPart
  <2> QED
    BY <2>1, <2>2, <2>3
<1> HIDE DEF n
<1>6. Len(part) = n /\ Matches(part, Fed(cur), k)
  BY <1>1, <1>4, NextBytes
<1> HIDE DEF part, k
<1>w. w = WithIndex(AddBytes(s, part, s.index), s.index + n)
  BY <1>3, AdvancedIs
<1>r. w.rate = Rate
  BY <1>1, <1>2, <1>w, FillingFields
<1>7. /\ w.index = Rate => Absorbed(WithIndex(Permute(w), 0), Rate, Fed(cur), k + n)
      /\ w.index # Rate => Absorbed(w, Rate, Fed(cur), k + n)
  BY <1>1, <1>2, <1>4, <1>6, <1>w, PartAbsorbed
<1> HIDE DEF w
<1>8. Absorbed(IF w.index = w.rate THEN WithIndex(Permute(w), 0) ELSE w, Rate, Fed(cur), k + n)
  BY <1>r, <1>7
<1> QED
  BY <1>1, <1>4, <1>5, <1>8, AbsorbStep DEF k

-----------------------------------------------------------------------------
(* From one primitive of a call to the next.                               *)
LEMMA ReturnIs ==
  ASSUME Typed, todo # <<>>, Return
  PROVE  /\ todo' \in Seq(Ops) /\ done' = 0 /\ Len(todo') = Len(todo) - 1
         /\ todo' # <<>> <=> Len(todo) >= 2
         /\ todo' # <<>> => Head(todo') = todo[2] /\ todo'[1] = todo[2]
         /\ \A k \in Nat : OutputsFrom(k + 2) => OutputsFrom(k + 1)'
<1>1. /\ Len(todo) \in Nat \ {0} /\ todo' \in Seq(Ops) /\ Len(todo') = Len(todo) - 1
      /\ \A x \in 1 .. Len(todo) - 1 : todo'[x] = todo[x + 1]
  BY CallIs DEF Return
<1> HIDE DEF Ops
<1>2. todo' # <<>> <=> Len(todo) >= 2
  BY <1>1
<1>3. todo' # <<>> => Head(todo') = todo[2] /\ todo'[1] = todo[2]
  <2> SUFFICES ASSUME todo' # <<>>
               PROVE  Head(todo') = todo[2] /\ todo'[1] = todo[2]
    OBVIOUS
  <2>1. Head(todo') = todo'[1]
    BY <1>1
  <2>2. 1 \in 1 .. Len(todo) - 1
    BY <1>1, <1>2
  <2> QED
    BY <1>1, <2>1, <2>2
<1>4. ASSUME NEW k \in Nat, OutputsFrom(k + 2)
      PROVE  OutputsFrom(k + 1)'
  BY <1>1, <1>4 DEF OutputsFrom
<1> QED
  BY <1>1, <1>2, <1>3, <1>4 DEF Return

LEMMA AbsorbEndKeeps ==
  ASSUME Inv, AbsorbEnd
  PROVE  Inv'
<1>1. Running("update") /\ Left = 0 /\ Return
      /\ UNCHANGED <<sponge, msg, fn, given, use, copied, cur>>
  BY DEF AbsorbEnd
<1>2. todo # <<>> /\ Updating /\ Pending(cur) = 0 /\ (fn[cur] = "none" \/ Len(todo) >= 2)
  BY <1>1, UpdateRuns
<1>3. Typed
  BY DEF Inv
<1>4. /\ todo' \in Seq(Ops) /\ done' = 0 /\ Len(todo') = Len(todo) - 1
      /\ todo' # <<>> <=> Len(todo) >= 2
      /\ todo' # <<>> => Head(todo') = todo[2] /\ todo'[1] = todo[2]
      /\ OutputsFrom(3) => OutputsFrom(2)'
  <2>1. OutputsFrom(1 + 2) => OutputsFrom(1 + 1)'
    BY <1>1, <1>2, <1>3, ReturnIs
  <2> QED
    BY <1>1, <1>2, <1>3, <2>1, ReturnIs
<1>5. Rate' = Rate
  BY <1>1 DEF Rate
<1>6. Typed'
  BY <1>1, <1>3, <1>4, <1>5 DEF Typed
<1>7. todo' # <<>> => Finalising'
  BY <1>1, <1>2, <1>4 DEF Updating, Finalising
<1>8. CallInShape'
  BY <1>7 DEF CallInShape
<1>9. ~Running("update")'
  <2>1. todo' # <<>> => Head(todo').op = "final"
    BY <1>4, <1>7 DEF Finalising
  <2> QED
    BY <2>1 DEF Running
<1>10. ASSUME NEW c \in Contexts
       PROVE  StageOf(c)'
  <2>1. StageOf(c)
    BY DEF Inv
  <2>2. Pending(c) = 0 /\ Pending(c)' = 0
    BY <1>2, <1>9 DEF Pending
  <2>3. use[c] = "absorbing" => fn[c] = "none" \/ (c = cur' /\ todo' # <<>>)
    BY <1>1, <1>2, <1>4, <2>1 DEF StageOf, Filling
  <2> QED
    BY <1>1, <1>5, <2>1, <2>2, <2>3, LeftAlone
<1> QED
  BY <1>6, <1>8, <1>10 DEF Inv

LEMMA HashFinalKeeps ==
  ASSUME Inv, HashFinal
  PROVE  Inv'
<1> DEFINE m == Fed(cur)
           t == AbsorbLastFewBits(s, Suffix)
<1>1. /\ Running("final") /\ Set(t) /\ use' = [use EXCEPT ![cur] = "squeezing"] /\ Return
      /\ UNCHANGED <<msg, fn, given, copied, cur>>
  BY DEF HashFinal
<1>2. Typed /\ cur \in Contexts /\ Rate \in Nat \ {0}
  BY DEF Inv, Typed
<1>3. todo # <<>> /\ todo[1].op = "final" /\ Head(todo) = todo[1] /\ Len(todo) \in Nat \ {0}
  BY <1>1, <1>2, CallIs DEF Running
<1>4. Finalising
  <2>1. ~Updating
    BY <1>3 DEF Updating
  <2>2. ~Outputting
    BY <1>3 DEF Outputting, OutputsFrom
  <2> QED
    BY <1>3, <2>1, <2>2 DEF Inv, CallInShape
<1>5. m \in Seq(Int) /\ Len(m) \in Nat
  BY <1>2, FedIs
<1>6. Filling(cur) /\ Pending(cur) = 0
  BY <1>2, <1>3, <1>4 DEF Finalising, Inv, StageOf, Pending, Running
<1>7. Absorbed(s, Rate, m, Len(m)) /\ given[cur] = <<>>
  <2>1. Absorbed(s, Rate, m, Len(m) - 0) /\ given[cur] = <<>>
    BY <1>6 DEF Filling, s
  <2> QED
    BY <1>5, <2>1
<1>8. t = Empties(m, Rate, 0, 0)
  BY <1>2, <1>7, MessageEnds
<1> HIDE DEF t
<1>9. /\ Rate' = Rate /\ sponge' = [c \in Contexts |-> sponge'[c]]
      /\ sponge'[cur] = t /\ \A c \in Contexts \ {cur} : sponge'[c] = sponge[c]
  <2>1. t.rate = Rate
    BY <1>8, EmptyingFields
  <2> QED
    BY <1>1, <1>2, <2>1, SetIs
<1>10. /\ todo' \in Seq(Ops) /\ done' = 0
       /\ OutputsFrom(1)'
  <2>1. OutputsFrom(0 + 2) => OutputsFrom(0 + 1)'
    BY <1>1, <1>2, <1>3, ReturnIs
  <2> QED
    BY <1>1, <1>2, <1>3, <1>4, <2>1, ReturnIs DEF Finalising
<1>11. use' \in [Contexts -> Stages] /\ use'[cur] = "squeezing"
       /\ \A c \in Contexts \ {cur} : use'[c] = use[c]
  BY <1>1, <1>2 DEF Typed, Stages
<1>12. Typed'
  <2>1. use'[1] # "unused"
    BY <1>2, <1>11 DEF Typed, Contexts
  <2> QED
    BY <1>1, <1>2, <1>9, <1>10, <1>11, <2>1 DEF Typed
<1>13. CallInShape'
  BY <1>1, <1>10, <1>11 DEF CallInShape, Outputting
<1>14. StageOf(cur)'
  <2>1. Fed(cur)' = m
    BY <1>1 DEF Fed
  <2>2. given'[cur] = OutputTo(m, Rate, 0, 0)
    <3>1. OutputOf(m, Rate, 0) = <<>>
      BY DEF OutputOf
    <3>2. 0 * Rate + 0 = 0
      BY <1>2
    <3> QED
      BY <1>1, <1>7, <3>1, <3>2 DEF OutputTo
  <2>3. sponge'[cur] = Empties(m, Rate, 0, 0)
    BY <1>8, <1>9
  <2>4. fn'[cur] # "none" /\ 0 \in Nat /\ 0 \in 0 .. Rate
    BY <1>1, <1>2, <1>4 DEF Finalising
  <2> HIDE DEF m
  <2>5. Emptying(cur)'
    BY <1>1, <1>9, <2>1, <2>2, <2>3, <2>4, Zenon DEF Emptying
  <2> QED
    BY <1>1, <1>11, <2>5 DEF StageOf
<1>15. ASSUME NEW c \in Contexts \ {cur}
       PROVE  StageOf(c)'
  <2>1. StageOf(c)
    BY DEF Inv
  <2>2. Pending(c) = 0 /\ Pending(c)' = 0
    BY <1>1 DEF Pending
  <2>3. use[c] = "absorbing" => fn[c] = "none"
    BY <2>1 DEF StageOf, Filling
  <2> QED
    BY <1>1, <1>9, <1>11, <2>1, <2>2, <2>3, LeftAlone
<1> QED
  BY <1>1, <1>12, <1>13, <1>14, <1>15 DEF Inv

-----------------------------------------------------------------------------
(* Squeezing.                                                              *)
LEMMA OutputRuns ==
  ASSUME Inv, todo # <<>>, todo[1].op \in {"squeeze", "clear"}
  PROVE  Outputting /\ Head(todo) = todo[1] /\ Emptying(cur) /\ ~Running("update")
<1>1. Typed /\ cur \in Contexts
  BY DEF Inv, Typed
<1>2. Head(todo) = todo[1]
  BY <1>1, CallIs
<1>3. ~Updating /\ ~Finalising
  BY DEF Updating, Finalising
<1>4. Outputting
  BY <1>3 DEF Inv, CallInShape
<1>5. Emptying(cur)
  BY <1>1, <1>4 DEF Outputting, Inv, StageOf
<1>6. ~Running("update")
  BY <1>2 DEF Running
<1> QED
  BY <1>2, <1>4, <1>5, <1>6

(* The part of a step that is about contexts that are not being updated.   *)
LEMMA OthersStay ==
  ASSUME Inv, ~Running("update"), ~Running("update")', Rate' = Rate,
         NEW c \in Contexts \ {cur}, sponge'[c] = sponge[c], msg'[c] = msg[c], fn'[c] = fn[c],
         given'[c] = given[c], use'[c] = use[c]
  PROVE  StageOf(c)'
<1>1. StageOf(c)
  BY DEF Inv
<1>2. Pending(c) = 0 /\ Pending(c)' = 0
  BY DEF Pending
<1>3. use[c] = "absorbing" => fn[c] = "none"
  BY <1>1 DEF StageOf, Filling
<1> QED
  BY <1>1, <1>2, <1>3, LeftAlone

LEMMA SqueezeStep ==
  ASSUME Inv, Running("squeeze"), NEW p \in Nat, NEW i \in 0 .. Rate,
         Set(Empties(Fed(cur), Rate, p, i)),
         given' = [given EXCEPT ![cur] = OutputTo(Fed(cur), Rate, p, i)],
         done' \in Nat, UNCHANGED <<msg, fn, use, copied, cur, todo>>
  PROVE  Inv'
<1> DEFINE m == Fed(cur)
<1>1. Typed /\ cur \in Contexts
  BY DEF Inv, Typed
<1>2. todo # <<>> /\ todo[1].op = "squeeze"
  BY <1>1, CallIs DEF Running
<1>3. Outputting /\ Emptying(cur) /\ ~Running("update")
  BY <1>2, OutputRuns
<1>4. /\ Rate' = Rate /\ sponge' = [c \in Contexts |-> sponge'[c]]
      /\ sponge'[cur] = Empties(m, Rate, p, i) /\ \A c \in Contexts \ {cur} : sponge'[c] = sponge[c]
  <2>1. Empties(m, Rate, p, i).rate = Rate
    BY EmptyingFields
  <2> QED
    BY <1>1, <2>1, SetIs
<1>5. /\ given' = [c \in Contexts |-> given'[c]]
      /\ given'[cur] = OutputTo(m, Rate, p, i)
      /\ \A c \in Contexts \ {cur} : given'[c] = given[c]
  <2>1. given = [c \in Contexts |-> given[c]]
    BY <1>1 DEF Typed
  <2> DEFINE o == OutputTo(m, Rate, p, i)
  <2> HIDE DEF o, m
  <2>2. given' = [c \in Contexts |-> IF c = cur THEN o ELSE given[c]]
    BY <1>1, <2>1 DEF o, m
  <2>3. given'[cur] = o /\ \A c \in Contexts \ {cur} : given'[c] = given[c]
    BY <1>1, <2>2
  <2>4. given' = [c \in Contexts |-> given'[c]]
    BY <2>2
  <2> QED
    BY <2>3, <2>4 DEF o
<1>6. Typed'
  BY <1>1, <1>4, <1>5 DEF Typed
<1>7. CallInShape'
  BY <1>3 DEF CallInShape, Outputting, OutputsFrom
<1>8. ~Running("update")'
  BY <1>3 DEF Running
<1>9. StageOf(cur)'
  <2>1. Fed(cur)' = m
    BY DEF Fed
  <2>2. fn'[cur] # "none"
    BY <1>3 DEF Emptying
  <2> HIDE DEF m
  <2>3. Emptying(cur)'
    BY <1>4, <1>5, <2>1, <2>2, Zenon DEF Emptying
  <2>4. use'[cur] \in {"squeezing", "cleared"}
    BY <1>3 DEF Outputting
  <2> QED
    BY <2>3, <2>4 DEF StageOf
<1>10. ASSUME NEW c \in Contexts \ {cur}
       PROVE  StageOf(c)'
  BY <1>3, <1>4, <1>5, <1>8, OthersStay
<1> QED
  BY <1>6, <1>7, <1>9, <1>10 DEF Inv

(* What a squeezing step starts from.                                      *)
LEMMA SqueezeRuns ==
  ASSUME Inv, Running("squeeze")
  PROVE  /\ Rate \in Nat \ {0} /\ cur \in Contexts /\ done \in Nat /\ Left \in Int
         /\ Fed(cur) \in Seq(Int) /\ given = [c \in Contexts |-> given[c]]
         /\ \E p \in Nat, i \in 0 .. Rate :
              /\ s = Empties(Fed(cur), Rate, p, i) /\ s.rate = Rate /\ s.index = i
              /\ given[cur] = OutputTo(Fed(cur), Rate, p, i)
<1>1. Typed /\ Rate \in Nat \ {0} /\ cur \in Contexts /\ done \in Nat
      /\ given = [c \in Contexts |-> given[c]]
  BY DEF Inv, Typed
<1>2. todo # <<>> /\ todo[1].op = "squeeze" /\ Head(todo) = todo[1] /\ todo[1] \in Ops
  BY <1>1, CallIs DEF Running
<1>3. Emptying(cur) /\ ~Running("update")
  BY <1>2, OutputRuns
<1>4. Left \in Int
  BY <1>1, <1>2, <1>3 DEF Left, Ops
<1>5. Fed(cur) \in Seq(Int)
  BY <1>1, FedIs
<1>6. PICK p \in Nat, i \in 0 .. Rate :
        /\ sponge[cur] = Empties(Fed(cur), Rate, p, i)
        /\ given[cur] = OutputTo(Fed(cur), Rate, p, i)
  BY <1>3, Zenon DEF Emptying
<1>7. s = Empties(Fed(cur), Rate, p, i) /\ s.rate = Rate /\ s.index = i
  BY <1>6, EmptyingFields DEF s
<1> QED
  BY <1>1, <1>4, <1>5, <1>6, <1>7

LEMMA SqueezeBlockKeeps ==
  ASSUME Inv, SqueezeBlock
  PROVE  Inv'
<1> DEFINE m == Fed(cur)
           t == Permute(s)
<1>1. /\ Running("squeeze") /\ s.index = s.rate /\ Set(t)
      /\ given' = [given EXCEPT ![cur] = @ \o ExtractBytes(t, 0, s.rate)]
      /\ done' = done + s.rate /\ UNCHANGED <<msg, fn, use, copied, cur, todo>>
  BY Zenon DEF SqueezeBlock, Exhausted
<1>2. Rate \in Nat \ {0} /\ cur \in Contexts /\ done \in Nat /\ m \in Seq(Int)
      /\ given = [c \in Contexts |-> given[c]]
  BY <1>1, SqueezeRuns
<1>3. PICK p \in Nat, i \in 0 .. Rate :
        /\ s = Empties(m, Rate, p, i) /\ s.rate = Rate /\ s.index = i
        /\ given[cur] = OutputTo(m, Rate, p, i)
  BY <1>1, SqueezeRuns
<1> HIDE DEF m
<1>4. t = Empties(m, Rate, p + 1, i) /\ i = Rate
  BY <1>1, <1>2, <1>3, PermuteEmpties
<1>r. Rate \in Nat \ {0} /\ m \in Seq(Int)
  BY <1>2
<1>5. p * Rate + i = (p + 1) * Rate + 0 /\ p + 1 \in Nat /\ Rate \in 0 .. Rate
      /\ 0 + Rate = Rate /\ 0 + Rate <= Rate /\ 0 \in Nat /\ Rate \in Nat
  BY <1>r, <1>4, Products
<1>6. OutputTo(m, Rate, p + 1, 0) \o ExtractBytes(Empties(m, Rate, p + 1, i), 0, Rate)
        = OutputTo(m, Rate, p + 1, Rate)
  <2> DEFINE q == p + 1
  <2>1. q \in Nat
    BY <1>5
  <2> HIDE DEF q
  <2>w. Within(0, Rate, Rate, Rate) /\ 0 \in Nat /\ Rate \in Nat
    BY <1>r DEF Within
  <2>2. Grows(m, Rate, q, i, 0, Rate, Rate)
    BY <1>r, <2>1, <2>w, OutputGrows
  <2> QED
    BY <2>2 DEF q, Grows
<1>o. OutputTo(m, Rate, p, i) = OutputTo(m, Rate, p + 1, 0)
  BY <1>5 DEF OutputTo
<1> HIDE DEF t
<1>7. given[cur] \o ExtractBytes(t, 0, s.rate) = OutputTo(m, Rate, p + 1, Rate)
  BY <1>3, <1>4, <1>6, <1>o
<1>8. given' = [given EXCEPT ![cur] = OutputTo(m, Rate, p + 1, Rate)]
  BY <1>1, <1>7, Zenon
<1>9. Set(Empties(m, Rate, p + 1, Rate)) /\ done' \in Nat
  BY <1>1, <1>2, <1>3, <1>4
<1> QED
  BY <1>1, <1>5, <1>8, <1>9, SqueezeStep DEF m

LEMMA SqueezePartKeeps ==
  ASSUME Inv, SqueezePart
  PROVE  Inv'
<1> DEFINE m == Fed(cur)
           t == IF Exhausted(s) THEN WithIndex(Permute(s), 0) ELSE s
           n == Partial(t)
<1>1. Running("squeeze")
  BY DEF SqueezePart
<1>2. /\ Left > 0 /\ Set(Advanced(t, n))
      /\ given' = [given EXCEPT ![cur] = @ \o ExtractBytes(t, t.index, n)]
      /\ done' = done + n /\ UNCHANGED <<msg, fn, use, copied, cur, todo>>
  BY Zenon DEF SqueezePart, WithIndex, Advanced
<1>3. Rate \in Nat \ {0} /\ cur \in Contexts /\ done \in Nat /\ m \in Seq(Int) /\ Left \in Int
      /\ given = [c \in Contexts |-> given[c]]
  BY <1>1, SqueezeRuns
<1>4. PICK p0 \in Nat, i0 \in 0 .. Rate :
        /\ s = Empties(m, Rate, p0, i0) /\ s.rate = Rate /\ s.index = i0
        /\ given[cur] = OutputTo(m, Rate, p0, i0)
  BY <1>1, SqueezeRuns
<1> HIDE DEF m
<1>r. Rate \in Nat \ {0} /\ m \in Seq(Int)
  BY <1>3
<1>l. Left \in Nat
  BY <1>2, <1>3
<1>5. \E p \in Nat, i \in 0 .. Rate - 1 :
        t = Empties(m, Rate, p, i) /\ given[cur] = OutputTo(m, Rate, p, i)
  <2>1. CASE Exhausted(s)
    <3>1. i0 = Rate
      BY <1>4, <2>1 DEF Exhausted
    <3>2. Permute(s) = Empties(m, Rate, p0 + 1, i0)
      BY <1>3, <1>4, PermuteEmpties
    <3>3. t = Empties(m, Rate, p0 + 1, 0)
      BY <2>1, <3>2, EmptyingFields
    <3>4. p0 * Rate + i0 = (p0 + 1) * Rate + 0 /\ p0 + 1 \in Nat /\ 0 \in 0 .. Rate - 1
      BY <1>r, <3>1, Products
    <3> QED
      BY <1>4, <3>3, <3>4 DEF OutputTo
  <2>2. CASE ~Exhausted(s)
    <3>1. t = s /\ i0 \in 0 .. Rate - 1
      BY <1>3, <1>4, <2>2 DEF Exhausted
    <3> QED
      BY <1>4, <3>1
  <2> QED
    BY <2>1, <2>2
<1>6. PICK p \in Nat, i \in 0 .. Rate - 1 :
        t = Empties(m, Rate, p, i) /\ given[cur] = OutputTo(m, Rate, p, i)
  BY <1>5
<1>7. t.rate = Rate /\ t.index = i
  BY <1>6, EmptyingFields
<1>8. n \in Nat /\ i + n \in 0 .. Rate /\ i + n <= Rate
  BY <1>r, <1>l, <1>7 DEF Partial
<1> HIDE DEF n, t
<1>9. Advanced(t, n) = Empties(m, Rate, p, i + n)
  <2>1. Advanced(t, n) = WithIndex(t, i + n)
    BY <1>7, AdvancedIs
  <2>2. t = Sponge(Rate, After(m, Rate, p), NoLanes(Rate), i, Squeezing)
    BY <1>6 DEF Empties
  <2>3. WithIndex(t, i + n) = Sponge(Rate, After(m, Rate, p), NoLanes(Rate), i + n, Squeezing)
    BY <2>2, WithIndexIs
  <2> QED
    BY <2>1, <2>3 DEF Empties
<1> DEFINE k == i + n
<1> HIDE DEF k
<1>10. OutputTo(m, Rate, p, i) \o ExtractBytes(Empties(m, Rate, p, i), i, n)
         = OutputTo(m, Rate, p, k)
  <2>1. i \in Nat /\ p \in Nat
    BY <1>6, <1>r
  <2>2. n \in Nat /\ k \in Nat /\ Within(i, n, k, Rate)
    BY <1>8, <2>1 DEF k, Within
  <2>3. Grows(m, Rate, p, i, i, n, k)
    BY <1>r, <2>1, <2>2, OutputGrows
  <2> QED
    BY <2>3 DEF Grows
<1>11. given[cur] \o ExtractBytes(t, t.index, n) = OutputTo(m, Rate, p, k)
  BY <1>6, <1>7, <1>10
<1>12. given' = [given EXCEPT ![cur] = OutputTo(m, Rate, p, k)]
  BY <1>2, <1>11, Zenon
<1>13. Set(Empties(m, Rate, p, k)) /\ done' \in Nat /\ k \in 0 .. Rate
  BY <1>2, <1>3, <1>8, <1>9 DEF k
<1> QED
  BY <1>1, <1>2, <1>8, <1>12, <1>13, SqueezeStep DEF m

(* A primitive of an output call is done with.                             *)
LEMMA OutputReturns ==
  ASSUME Inv, todo # <<>>, todo[1].op \in {"squeeze", "clear"}, Return,
         UNCHANGED <<sponge, msg, fn, given, copied, cur>>,
         use' = use \/ use' = [use EXCEPT ![cur] = "cleared"]
  PROVE  Inv'
<1>1. Typed /\ cur \in Contexts /\ Len(todo) \in Nat \ {0}
  BY CallIs DEF Inv, Typed
<1>2. Outputting /\ Emptying(cur) /\ ~Running("update")
  BY OutputRuns
<1>3. todo' \in Seq(Ops) /\ done' = 0 /\ OutputsFrom(1)'
      /\ (todo' # <<>> => Head(todo') = todo'[1] /\ Len(todo') \in Nat \ {0})
  <2>1. OutputsFrom(0 + 2) => OutputsFrom(0 + 1)'
    BY <1>1, ReturnIs
  <2>2. OutputsFrom(0 + 2)
    BY <1>2 DEF Outputting, OutputsFrom
  <2>3. todo' # <<>> => Head(todo') = todo'[1] /\ Len(todo') \in Nat \ {0}
    BY <1>1, ReturnIs
  <2> QED
    BY <1>1, <2>1, <2>2, <2>3, ReturnIs
<1>4. /\ use' \in [Contexts -> Stages] /\ use'[cur] \in {"squeezing", "cleared"}
      /\ \A c \in Contexts \ {cur} : use'[c] = use[c]
      /\ use'[1] # "unused"
  BY <1>1, <1>2 DEF Typed, Stages, Outputting, Contexts
<1>5. Rate' = Rate
  BY DEF Rate
<1>6. Typed'
  BY <1>1, <1>3, <1>4, <1>5 DEF Typed
<1>7. CallInShape'
  BY <1>3, <1>4 DEF CallInShape, Outputting
<1>8. ~Running("update")'
  BY <1>3 DEF Running, OutputsFrom
<1>9. StageOf(cur)'
  <2>1. Emptying(cur)'
    BY <1>2, <1>5 DEF Emptying, Fed
  <2> QED
    BY <1>4, <2>1 DEF StageOf
<1>10. ASSUME NEW c \in Contexts \ {cur}
       PROVE  StageOf(c)'
  BY <1>2, <1>4, <1>5, <1>8, OthersStay
<1> QED
  BY <1>6, <1>7, <1>9, <1>10 DEF Inv

LEMMA SqueezeEndKeeps ==
  ASSUME Inv, SqueezeEnd
  PROVE  Inv'
<1>1. todo # <<>> /\ todo[1].op = "squeeze"
  BY CallIs DEF SqueezeEnd, Running, Inv
<1> QED
  BY <1>1, OutputReturns DEF SqueezeEnd

LEMMA HashClearKeeps ==
  ASSUME Inv, HashClear
  PROVE  Inv'
<1>1. todo # <<>> /\ todo[1].op = "clear"
  BY CallIs DEF HashClear, Running, Inv
<1> QED
  BY <1>1, OutputReturns DEF HashClear

-----------------------------------------------------------------------------
(* Calls begin.  Before one, a context that takes bytes has absorbed all   *)
(* it was fed.                                                             *)
LEMMA BetweenCalls ==
  ASSUME Inv, todo = <<>>, NEW c \in Contexts
  PROVE  /\ Pending(c) = 0 /\ (use[c] = "absorbing" => fn[c] = "none")
         /\ use[c] = "absorbing" => /\ given[c] = <<>> /\ Fed(c) = msg[c]
                                   /\ Absorbed(sponge[c], Rate, msg[c], Len(msg[c]))
<1>1. Typed /\ StageOf(c)
  BY DEF Inv
<1>2. Pending(c) = 0
  BY DEF Pending, Running
<1>3. use[c] = "absorbing" => fn[c] = "none"
  BY <1>1 DEF StageOf, Filling
<1>4. Len(msg[c]) \in Nat
  <2>1. msg[c] \in Seq(Int)
    BY <1>1, FedIs
  <2> QED
    BY <2>1
<1>5. use[c] = "absorbing" => Fed(c) = msg[c]
  BY <1>3 DEF Fed
<1>6. use[c] = "absorbing"
        => given[c] = <<>> /\ Absorbed(sponge[c], Rate, msg[c], Len(msg[c]) - 0)
  BY <1>1, <1>2, <1>5 DEF StageOf, Filling
<1> QED
  BY <1>2, <1>3, <1>4, <1>5, <1>6

LEMMA AbsorbedPrefix ==
  ASSUME NEW rate \in Nat \ {0}, NEW t, NEW m \in Seq(Int), NEW data \in Seq(Int)
  PROVE  Absorbed(t, rate, m, Len(m)) => Absorbed(t, rate, m \o data, Len(m))
<1>h. SUFFICES ASSUME Absorbed(t, rate, m, Len(m))
               PROVE  Absorbed(t, rate, m \o data, Len(m))
  BY Zenon
<1> DEFINE w == m \o data
<1>1. PICK n \in Nat, i \in 0 .. rate - 1 : Len(m) = n * rate + i /\ t = Fills(m, rate, n, i)
  BY <1>h, Zenon DEF Absorbed
<1>2. \A x \in 1 .. Len(m) : m[x] = w[x]
  OBVIOUS
<1> HIDE DEF w
<1>3. Agree(m, w, rate, n, i)
  BY <1>1, <1>2 DEF Agree
<1>4. Fills(m, rate, n, i) = Fills(w, rate, n, i)
  BY <1>3, FillsPrefix
<1> QED
  BY <1>1, <1>4, Zenon DEF Absorbed, w

(* A call that feeds bytes to a context, alone or with what ends it.       *)
LEMMA FeedStep ==
  ASSUME Inv, NEW c \in Contexts, use[c] = "absorbing",
         NEW data \in Seq(Int), NEW ops \in Seq(Ops),
         ops # <<>>, ops[1].op = "update", ops[1].data = data, Begin(c, ops),
         msg' \in [Contexts -> Seq(Int)], fn' \in [Contexts -> Oracles \union {"none"}],
         \A d \in Contexts \ {c} : msg'[d] = msg[d] /\ fn'[d] = fn[d],
         Fed(c)' = msg[c] \o data,
         \/ fn'[c] = "none" /\ Len(ops) = 1
         \/ /\ fn'[c] # "none" /\ Len(ops) >= 2 /\ ops[2].op = "final"
            /\ \A x \in 3 .. Len(ops) : ops[x].op \in {"squeeze", "clear"},
         UNCHANGED <<sponge, given, use, copied>>
  PROVE  Inv'
<1> DEFINE m == msg[c]
           w == m \o data
<1>1. Typed /\ todo = <<>> /\ cur' = c /\ todo' = ops /\ done' = 0
  BY DEF Inv, Begin
<1>2. Rate' = Rate /\ Rate \in Nat \ {0}
  BY <1>1 DEF Rate, Typed
<1>3. Typed'
  BY <1>1, <1>2 DEF Typed
<1>4. m \in Seq(Int) /\ given[c] = <<>> /\ Absorbed(sponge[c], Rate, m, Len(m))
  BY <1>1, BetweenCalls, FedIs
<1>5. /\ Len(w) = Len(m) + Len(data) /\ Len(m) \in Nat /\ Len(data) \in Nat
      /\ \A x \in 1 .. Len(data) : data[x] = w[Len(m) + x]
  BY <1>4
<1>6. Absorbed(sponge[c], Rate, w, Len(m))
  BY <1>2, <1>4, AbsorbedPrefix
<1> HIDE DEF m, w
<1>7. Fed(c)' = w
  BY DEF w, m
<1>8. Head(todo') = ops[1] /\ todo'[1] = ops[1]
  BY <1>1
<1>9. Updating'
  <2>1. LastOf(data, w)
    <3>1. Len(w) - Len(data) = Len(m)
      BY <1>5
    <3> QED
      BY <1>5, <3>1 DEF LastOf
  <2>2. done' <= Len(data)
    BY <1>1, <1>5
  <2>3. Fed(cur)' = w
    BY <1>1, <1>7
  <2> QED
    BY <1>1, <1>8, <2>1, <2>2, <2>3 DEF Updating, OutputsFrom
<1>10. CallInShape'
  BY <1>9 DEF CallInShape
<1>11. Pending(c)' = Len(data)
  BY <1>1, <1>5, <1>8 DEF Pending, Running, Left
<1>12. StageOf(c)'
  <2>1. (Len(Fed(c)) - Pending(c))' = Len(m)
    BY <1>5, <1>7, <1>11
  <2>2. Absorbed(sponge[c], Rate, Fed(c), Len(Fed(c)) - Pending(c))'
    BY <1>2, <1>6, <1>7, <2>1, Zenon DEF Absorbed, Fills
  <2>3. Filling(c)'
    BY <1>1, <1>4, <2>2 DEF Filling
  <2> QED
    BY <2>3 DEF StageOf
<1>13. ASSUME NEW d \in Contexts \ {c}
       PROVE  StageOf(d)'
  <2>1. StageOf(d)
    BY DEF Inv
  <2>2. Pending(d) = 0 /\ Pending(d)' = 0 /\ (use[d] = "absorbing" => fn[d] = "none")
    BY <1>1, BetweenCalls DEF Pending
  <2> QED
    BY <1>2, <2>1, <2>2, LeftAlone
<1> QED
  BY <1>3, <1>10, <1>12, <1>13 DEF Inv

(* The bytes that end a message and the primitives of the call that does.  *)
LEMMA EndingCall ==
  ASSUME NEW d \in Int, NEW mid \in Seq({o \in Ops : o.op \in {"squeeze", "clear"}})
  PROVE  LET ops == <<Absorb(<<d>>), Final>> \o mid \o <<Clear>>
         IN  /\ ops \in Seq(Ops) /\ ops # <<>> /\ Len(ops) >= 2
             /\ ops[1] = Absorb(<<d>>) /\ ops[2] = Final
             /\ \A x \in 3 .. Len(ops) : ops[x].op \in {"squeeze", "clear"}
<1> DEFINE Outs == {o \in Ops : o.op \in {"squeeze", "clear"}}
           two == <<Absorb(<<d>>), Final>>
           a == two \o mid
           ops == a \o <<Clear>>
<1>1. <<d>> \in Seq(Int) /\ <<>> \in Seq(Int)
  OBVIOUS
<1>2. Absorb(<<d>>) \in Ops /\ Final \in Ops /\ Clear \in Outs
  BY <1>1 DEF Ops, Absorb, Final, Clear, Op
<1>3. two \in Seq(Ops) /\ Len(two) = 2 /\ two[1] = Absorb(<<d>>) /\ two[2] = Final
  BY <1>2
<1>4. mid \in Seq(Ops) /\ <<Clear>> \in Seq(Ops) /\ Len(<<Clear>>) = 1 /\ <<Clear>>[1] = Clear
  <2>1. mid \in Seq(Outs)
    OBVIOUS
  <2>2. \A o \in Outs : o \in Ops
    OBVIOUS
  <2> HIDE DEF Outs
  <2>3. mid \in Seq(Ops)
    BY <2>1, <2>2
  <2> QED
    BY <1>2, <2>2, <2>3
<1>5. \A x \in 1 .. Len(mid) : mid[x] \in Outs
  OBVIOUS
<1> HIDE DEF Outs, two, a
<1>6. a \in Seq(Ops) /\ Len(a) = 2 + Len(mid) /\ a[1] = two[1] /\ a[2] = two[2]
      /\ \A x \in 3 .. Len(a) : a[x] = mid[x - 2] /\ x - 2 \in 1 .. Len(mid)
  <2>1. Len(mid) \in Nat
    BY <1>4
  <2>2. a \in Seq(Ops) /\ Len(a) = Len(two) + Len(mid)
        /\ \A x \in 1 .. Len(two) + Len(mid) :
             a[x] = IF x <= Len(two) THEN two[x] ELSE mid[x - Len(two)]
    BY <1>3, <1>4, ConcatProperties, Zenon DEF a
  <2>3. a[1] = two[1] /\ a[2] = two[2]
    BY <1>3, <2>1, <2>2
  <2>4. ASSUME NEW x \in 3 .. Len(a)
        PROVE  a[x] = mid[x - 2] /\ x - 2 \in 1 .. Len(mid)
    BY <1>3, <2>1, <2>2
  <2> QED
    BY <1>3, <2>2, <2>3, <2>4
<1> HIDE DEF ops
<1>7. ops \in Seq(Ops) /\ Len(ops) = Len(a) + 1 /\ ops[1] = a[1] /\ ops[2] = a[2]
      /\ (\A x \in 3 .. Len(a) : ops[x] = a[x]) /\ ops[Len(a) + 1] = Clear
  <2>1. Len(a) \in Nat /\ Len(a) >= 2
    BY <1>4, <1>6
  <2> QED
    BY <1>4, <1>6, <2>1 DEF ops
<1>8. Len(a) \in Nat /\ Len(a) >= 2
  BY <1>4, <1>6
<1>9. \A x \in 3 .. Len(ops) : ops[x].op \in {"squeeze", "clear"}
  <2> TAKE x \in 3 .. Len(ops)
  <2>1. ops[x] \in Outs
    <3>1. CASE x \in 3 .. Len(a)
      <4>1. a[x] = mid[x - 2] /\ x - 2 \in 1 .. Len(mid)
        BY <1>6, <3>1
      <4> QED
        BY <1>5, <1>7, <3>1, <4>1
    <3>2. CASE x = Len(a) + 1
      BY <1>2, <1>7, <3>2
    <3> QED
      BY <1>7, <1>8, <3>1, <3>2
  <2> QED
    BY <2>1 DEF Outs
<1>10. ops # <<>> /\ Len(ops) >= 2
  BY <1>7, <1>8
<1> QED
  BY <1>3, <1>6, <1>7, <1>9, <1>10 DEF ops, a, two

LEMMA UpdateKeeps ==
  ASSUME Inv, NEW c \in Contexts, Update(c)
  PROVE  Inv'
<1>1. Typed /\ use[c] = "absorbing" /\ msg[c] \in Seq(Int)
  BY FedIs DEF Inv, Update
<1>2. PICK data \in Updates(c) :
        msg' = [msg EXCEPT ![c] = @ \o data] /\ Begin(c, <<Absorb(data)>>)
  BY DEF Update
<1>3. UNCHANGED <<sponge, fn, given, use, copied>>
  BY DEF Update
<1>4. data \in Seq(Int)
  <2>1. Len(msg[c]) \in Nat /\ MaxMessage \in Nat
    BY <1>1, RatesAssumption
  <2>2. ASSUME NEW n \in 1 .. MaxMessage - Len(msg[c])
        PROVE  [x \in 1 .. n |-> 100 + Len(msg[c]) + x] \in Seq(Int)
    <3>1. n \in Nat /\ \A x \in 1 .. n : 100 + Len(msg[c]) + x \in Int
      BY <2>1
    <3> QED
      BY <3>1
  <2>3. <<DomainByte("H2_0")>> \in Seq(Int)
    BY DEF DomainByte
  <2> QED
    BY <1>2, <2>2, <2>3 DEF Updates
<1> DEFINE ops == <<Absorb(data)>>
<1>5. Absorb(data) \in Ops /\ Absorb(data).op = "update" /\ Absorb(data).data = data
  BY <1>4 DEF Ops, Absorb, Op
<1>6. ops \in Seq(Ops) /\ ops # <<>> /\ Len(ops) = 1 /\ ops[1] = Absorb(data)
  BY <1>5
<1>7. Begin(c, ops)
  BY <1>2
<1> HIDE DEF ops
<1>8. fn[c] = "none"
  BY <1>1, <1>7, BetweenCalls DEF Begin
<1>9. msg' \in [Contexts -> Seq(Int)] /\ msg'[c] = msg[c] \o data
      /\ \A d \in Contexts \ {c} : msg'[d] = msg[d]
  <2>1. msg \in [Contexts -> Seq(Int)] /\ msg[c] \o data \in Seq(Int)
    BY <1>1, <1>4 DEF Typed
  <2> QED
    BY <1>2, <2>1
<1>10. Fed(c)' = msg[c] \o data
  BY <1>3, <1>8, <1>9 DEF Fed
<1>11. fn' \in [Contexts -> Oracles \union {"none"}]
  BY <1>1, <1>3 DEF Typed
<1> QED
  BY <1>1, <1>3, <1>4, <1>5, <1>6, <1>7, <1>8, <1>9, <1>10, <1>11, FeedStep

(* A call that ends a message with the byte of function f.                 *)
LEMMA FinishStep ==
  ASSUME Inv, NEW c \in Contexts, use[c] = "absorbing", NEW f \in Oracles,
         NEW ops \in Seq(Ops), Len(ops) >= 2, ops[1] = Absorb(<<DomainByte(f)>>), ops[2] = Final,
         \A x \in 3 .. Len(ops) : ops[x].op \in {"squeeze", "clear"},
         Begin(c, ops), fn' = [fn EXCEPT ![c] = f],
         UNCHANGED <<sponge, msg, given, use, copied>>
  PROVE  Inv'
<1> DEFINE b == DomainByte(f)
           data == <<b>>
<1>1. Typed /\ msg[c] \in Seq(Int)
  BY FedIs DEF Inv
<1>2. b \in Int
  BY DEF Oracles, Finals, DomainByte
<1>3. f # "none"
  BY DEF Oracles, Finals
<1>4. ops[1].op = "update" /\ ops[1].data = data /\ ops[2].op = "final"
  BY DEF Absorb, Final, Op
<1> HIDE DEF b
<1>5. data \in Seq(Int) /\ Append(msg[c], b) = msg[c] \o data
  BY <1>1, <1>2
<1>6. fn' \in [Contexts -> Oracles \union {"none"}] /\ fn'[c] = f
      /\ \A d \in Contexts \ {c} : fn'[d] = fn[d]
  BY <1>1 DEF Typed
<1>7. Fed(c)' = msg[c] \o data
  BY <1>3, <1>5, <1>6 DEF Fed, b
<1> HIDE DEF data
<1>8. msg' \in [Contexts -> Seq(Int)] /\ ops # <<>>
  BY <1>1 DEF Typed
<1> QED
  BY <1>3, <1>4, <1>5, <1>6, <1>7, <1>8, FeedStep

LEMMA SqueezeIs ==
  ASSUME NEW n \in Nat
  PROVE  /\ Squeeze(n) \in Ops /\ Squeeze(n).op = "squeeze"
         /\ Clear \in Ops /\ Clear.op = "clear"
<1>1. <<>> \in Seq(Int)
  OBVIOUS
<1> QED
  BY <1>1 DEF Ops, Squeeze, Clear, Op

LEMMA FinishKeeps ==
  ASSUME Inv, NEW c \in Contexts, NEW f \in Finals, Finish(c, f)
  PROVE  Inv'
<1> DEFINE Outs == {o \in Ops : o.op \in {"squeeze", "clear"}}
           mid == CASE f = "H3" -> <<Squeeze(Size), Squeeze(IvSize)>>
                    [] f = "H4" -> <<Squeeze(IvSize)>>
                    [] OTHER    -> <<Squeeze(Size)>>
           d == DomainByte(f)
           ops == <<Absorb(<<d>>), Final>> \o mid \o <<Clear>>
<1>1. /\ use[c] = "absorbing" /\ Begin(c, ops) /\ fn' = [fn EXCEPT ![c] = f]
      /\ UNCHANGED <<sponge, msg, given, use, copied>>
  BY Zenon DEF Finish
<1>2. d \in Int /\ f \in Oracles
  BY DEF Finals, Oracles, DomainByte
<1>3. mid \in Seq(Outs)
  <2>1. Size \in Nat /\ IvSize \in Nat
    <3>1. Rate \in Nat
      BY DEF Inv, Typed
    <3> QED
      BY <3>1 DEF Size, IvSize, Rate
  <2>2. Squeeze(Size) \in Outs /\ Squeeze(IvSize) \in Outs
    BY <2>1, SqueezeIs
  <2> HIDE DEF Outs
  <2>3. <<Squeeze(Size), Squeeze(IvSize)>> \in Seq(Outs) /\ <<Squeeze(IvSize)>> \in Seq(Outs)
        /\ <<Squeeze(Size)>> \in Seq(Outs)
    BY <2>2
  <2>4. CASE f = "H3"
    BY <2>3, <2>4
  <2>5. CASE f = "H4"
    BY <2>3, <2>5
  <2>6. CASE f # "H3" /\ f # "H4"
    BY <2>3, <2>6
  <2> QED
    BY <2>4, <2>5, <2>6
<1> HIDE DEF mid, d
<1>4. /\ ops \in Seq(Ops) /\ Len(ops) >= 2
      /\ ops[1] = Absorb(<<d>>) /\ ops[2] = Final
      /\ \A x \in 3 .. Len(ops) : ops[x].op \in {"squeeze", "clear"}
  BY <1>2, <1>3, EndingCall
<1> HIDE DEF ops
<1> QED
  BY <1>1, <1>2, <1>4, FinishStep DEF d

LEMMA FinishH0Keeps ==
  ASSUME Inv, NEW c \in Contexts, FinishH0(c)
  PROVE  Inv'
<1> DEFINE d == DomainByte("H0")
           whole == <<Absorb(<<d>>), Final, Squeeze(Size), Squeeze(2 * Size), Clear>>
           open == <<Absorb(<<d>>), Final>>
<1>1. /\ use[c] = "absorbing" /\ (Begin(c, whole) \/ Begin(c, open))
      /\ fn' = [fn EXCEPT ![c] = "H0"] /\ UNCHANGED <<sponge, msg, given, use, copied>>
  BY Zenon DEF FinishH0
<1>2. d \in Int /\ "H0" \in Oracles
  BY DEF Oracles, DomainByte
<1>3. Size \in Nat /\ 2 * Size \in Nat
  <2>1. Rate \in Nat
    BY DEF Inv, Typed
  <2> QED
    BY <2>1 DEF Size, Rate
<1>4. /\ Squeeze(Size) \in Ops /\ Squeeze(Size).op = "squeeze"
      /\ Squeeze(2 * Size) \in Ops /\ Squeeze(2 * Size).op = "squeeze"
      /\ Clear \in Ops /\ Clear.op = "clear"
  BY <1>3, SqueezeIs
<1>5. Absorb(<<d>>) \in Ops /\ Final \in Ops
  <2>1. <<d>> \in Seq(Int) /\ <<>> \in Seq(Int)
    BY <1>2
  <2> QED
    BY <2>1 DEF Ops, Absorb, Final, Op
<1> HIDE DEF d
<1>6. /\ whole \in Seq(Ops) /\ Len(whole) = 5
      /\ whole[1] = Absorb(<<d>>) /\ whole[2] = Final
      /\ whole[3] = Squeeze(Size) /\ whole[4] = Squeeze(2 * Size) /\ whole[5] = Clear
  BY <1>4, <1>5
<1>7. open \in Seq(Ops) /\ Len(open) = 2 /\ open[1] = Absorb(<<d>>) /\ open[2] = Final
  BY <1>5
<1> HIDE DEF whole, open
<1>8. \A x \in 3 .. Len(whole) : whole[x].op \in {"squeeze", "clear"}
  BY <1>4, <1>6
<1>9. \A x \in 3 .. Len(open) : open[x].op \in {"squeeze", "clear"}
  BY <1>7
<1>10. Len(whole) >= 2 /\ Len(open) >= 2
  BY <1>6, <1>7
<1>11. CASE Begin(c, whole)
  BY <1>1, <1>2, <1>6, <1>8, <1>10, <1>11, FinishStep DEF d
<1>12. CASE Begin(c, open)
  BY <1>1, <1>2, <1>7, <1>9, <1>10, <1>12, FinishStep DEF d
<1> QED
  BY <1>1, <1>11, <1>12

(* A call that only asks for output, or ends it.                           *)
LEMMA AskStep ==
  ASSUME Inv, NEW c \in Contexts, use[c] = "squeezing", NEW o \in Ops,
         o.op \in {"squeeze", "clear"}, Begin(c, <<o>>),
         UNCHANGED <<sponge, msg, fn, given, use, copied>>
  PROVE  Inv'
<1>1. Typed /\ todo = <<>> /\ cur' = c /\ todo' = <<o>> /\ done' = 0
  BY DEF Inv, Begin
<1> HIDE DEF Ops
<1>2. todo' \in Seq(Ops) /\ Len(todo') = 1 /\ todo'[1] = o /\ Head(todo') = o
  BY <1>1
<1>3. Rate' = Rate
  BY DEF Rate
<1>4. Typed'
  BY <1>1, <1>2, <1>3 DEF Typed
<1>5. CallInShape'
  BY <1>1, <1>2 DEF CallInShape, Outputting, OutputsFrom
<1>6. ASSUME NEW d \in Contexts
      PROVE  StageOf(d)'
  <2>1. StageOf(d)
    BY DEF Inv
  <2>2. Pending(d) = 0 /\ (use[d] = "absorbing" => fn[d] = "none")
    BY <1>1, BetweenCalls
  <2>3. Pending(d)' = 0
    BY <1>2 DEF Pending, Running
  <2> QED
    BY <1>3, <2>1, <2>2, <2>3, LeftAlone
<1> QED
  BY <1>4, <1>5, <1>6 DEF Inv

LEMMA SqueezeH0Keeps ==
  ASSUME Inv, NEW c \in Contexts, NEW n \in Nat, SqueezeH0(c, n)
  PROVE  Inv'
<1>1. Squeeze(n) \in Ops /\ Squeeze(n).op = "squeeze"
  BY SqueezeIs
<1> QED
  BY <1>1, AskStep DEF SqueezeH0

LEMMA ClearH0Keeps ==
  ASSUME Inv, NEW c \in Contexts, ClearH0(c)
  PROVE  Inv'
<1>1. Clear \in Ops /\ Clear.op = "clear"
  BY SqueezeIs
<1> QED
  BY <1>1, AskStep DEF ClearH0

-----------------------------------------------------------------------------
(* Contexts begin.                                                         *)
LEMMA NothingAbsorbed ==
  ASSUME NEW rate \in Nat \ {0}
  PROVE  Absorbed(SpongeInitialize(rate), rate, <<>>, 0)
<1> DEFINE m == <<>>
<1>1. FullBlocks(m, rate, 0) = <<>>
  BY DEF FullBlocks
<1>2. Queue(m, rate, 0, 0) = NoLanes(rate)
  BY DEF Queue, NoLanes
<1>3. SpongeInitialize(rate) = Sponge(rate, <<>>, NoLanes(rate), 0, Absorbing)
  BY Zenon DEF SpongeInitialize, Sponge, Absorbing
<1>4. SpongeInitialize(rate) = Fills(m, rate, 0, 0)
  BY <1>1, <1>2, <1>3 DEF Fills
<1>5. 0 \in Nat /\ 0 \in 0 .. rate - 1 /\ 0 = 0 * rate + 0
  BY Products
<1> QED
  BY <1>4, <1>5, Zenon DEF Absorbed

(* A context that starts where another one is, or afresh.                  *)
LEMMA StartStep ==
  ASSUME Inv, todo = <<>>, use[2] = "unused", NEW t, NEW m \in Seq(Int),
         Absorbed(t, Rate, m, Len(m)),
         sponge' = [sponge EXCEPT ![2] = t], msg' = [msg EXCEPT ![2] = m],
         use' = [use EXCEPT ![2] = "absorbing"], UNCHANGED <<fn, given, cur, todo, done>>
  PROVE  Inv'
<1>1. Typed /\ StageOf(1) /\ StageOf(2) /\ 1 \in Contexts /\ 2 \in Contexts
  BY DEF Inv, Contexts
<1>2. /\ sponge' = [c \in Contexts |-> sponge'[c]] /\ sponge'[1] = sponge[1] /\ sponge'[2] = t
  <2>1. sponge = [c \in Contexts |-> sponge[c]]
    BY <1>1 DEF Typed
  <2>2. sponge' = [c \in Contexts |-> IF c = 2 THEN t ELSE sponge[c]]
    BY <2>1
  <2>3. sponge' = [c \in Contexts |-> sponge'[c]]
    BY <2>2
  <2>4. sponge'[1] = sponge[1] /\ sponge'[2] = t
    BY <2>2 DEF Contexts
  <2> QED
    BY <2>3, <2>4
<1>3. msg' \in [Contexts -> Seq(Int)] /\ msg'[1] = msg[1] /\ msg'[2] = m
      /\ use' \in [Contexts -> Stages] /\ use'[1] = use[1] /\ use'[2] = "absorbing"
  <2>1. msg \in [Contexts -> Seq(Int)] /\ use \in [Contexts -> Stages]
    BY <1>1 DEF Typed
  <2> QED
    BY <1>1, <2>1 DEF Stages
<1>4. Rate' = Rate
  BY <1>2 DEF Rate
<1>5. Typed'
  BY <1>1, <1>2, <1>3, <1>4 DEF Typed
<1>6. CallInShape'
  BY DEF CallInShape
<1>7. ~Running("update") /\ ~Running("update")'
  BY DEF Running
<1>8. StageOf(1)'
  <2>1. Pending(1) = 0 /\ Pending(1)' = 0 /\ (use[1] = "absorbing" => fn[1] = "none")
    BY <1>1, <1>7, BetweenCalls DEF Pending
  <2> QED
    BY <1>1, <1>2, <1>3, <1>4, <2>1, LeftAlone
<1>9. StageOf(2)'
  <2>1. fn'[2] = "none" /\ given'[2] = <<>>
    BY <1>1 DEF StageOf, Fresh
  <2>2. Fed(2)' = m /\ Pending(2)' = 0
    BY <1>3, <1>7, <2>1 DEF Fed, Pending
  <2>3. (Len(Fed(2)) - Pending(2))' = Len(m)
    <3>1. Len(m) \in Nat
      OBVIOUS
    <3> QED
      BY <2>2, <3>1
  <2>4. Absorbed(sponge[2], Rate, Fed(2), Len(Fed(2)) - Pending(2))'
    BY <1>2, <1>4, <2>2, <2>3, Zenon DEF Absorbed, Fills
  <2>5. Filling(2)'
    BY <2>1, <2>4 DEF Filling
  <2> QED
    BY <1>3, <2>5 DEF StageOf
<1> QED
  BY <1>5, <1>6, <1>8, <1>9 DEF Inv, Contexts

LEMMA CopyKeeps ==
  ASSUME Inv, Copy
  PROVE  Inv'
<1>1. 1 \in Contexts /\ Typed
  BY DEF Contexts, Inv
<1>2. msg[1] \in Seq(Int) /\ Absorbed(sponge[1], Rate, msg[1], Len(msg[1]))
  BY <1>1, FedIs, BetweenCalls DEF Copy
<1> QED
  BY <1>2, StartStep DEF Copy

LEMMA RenewKeeps ==
  ASSUME Inv, Renew
  PROVE  Inv'
<1>1. Typed /\ Rate \in Nat \ {0} /\ StageOf(2)
  BY DEF Inv, Typed, Contexts
<1>2. Absorbed(SpongeInitialize(Rate), Rate, <<>>, 0) /\ Len(<<>>) = 0 /\ <<>> \in Seq(Int)
  BY <1>1, NothingAbsorbed
<1>3. msg[2] = <<>>
  BY <1>1 DEF StageOf, Fresh, Renew
<1>4. msg' = [msg EXCEPT ![2] = <<>>]
  BY <1>1, <1>3 DEF Renew, Typed
<1> QED
  BY <1>2, <1>4, StartStep DEF Renew, Rate

LEMMA InitHolds ==
  ASSUME Init
  PROVE  Inv
<1>1. PICK security \in {128, 192, 256} : sponge = [c \in Contexts |-> HashInit(security)]
  BY DEF Init
<1> DEFINE rate == IF security = 128 THEN Rate128 ELSE Rate256
<1>2. rate \in Nat \ {0}
  BY RatesAssumption
<1>3. sponge[1] = SpongeInitialize(rate) /\ sponge = [c \in Contexts |-> sponge[c]]
  BY <1>1 DEF HashInit, Contexts
<1> HIDE DEF rate
<1>4. Rate = rate
  BY <1>3 DEF Rate, SpongeInitialize
<1>5. Typed
  <2>1. <<>> \in Seq(Int) /\ <<>> \in Seq(Ops)
    OBVIOUS
  <2> QED
    BY <1>2, <1>3, <1>4, <2>1 DEF Init, Typed, Stages, Contexts
<1>6. CallInShape
  BY DEF Init, CallInShape
<1>7. StageOf(1)
  <2>1. Fed(1) = <<>> /\ Pending(1) = 0 /\ given[1] = <<>> /\ fn[1] = "none"
    BY DEF Init, Fed, Pending, Running, Contexts
  <2>2. Absorbed(sponge[1], Rate, <<>>, 0)
    BY <1>2, <1>3, <1>4, NothingAbsorbed
  <2>3. Filling(1)
    BY <2>1, <2>2 DEF Filling
  <2> QED
    BY <2>3 DEF StageOf, Init, Contexts
<1>8. StageOf(2)
  BY DEF StageOf, Fresh, Init, Contexts
<1> QED
  BY <1>5, <1>6, <1>7, <1>8 DEF Inv, Contexts

LEMMA StepKeeps ==
  ASSUME Inv, [Next]_vars
  PROVE  Inv'
<1>1. CASE Primitive
  BY <1>1, AbsorbBlockKeeps, AbsorbPartKeeps, AbsorbEndKeeps, HashFinalKeeps,
     SqueezeBlockKeeps, SqueezePartKeeps, SqueezeEndKeeps, HashClearKeeps DEF Primitive
<1>2. CASE Copy \/ Renew
  BY <1>2, CopyKeeps, RenewKeeps
<1>3. ASSUME NEW c \in Contexts,
             \/ Update(c) \/ (\E f \in Finals : Finish(c, f)) \/ FinishH0(c) \/ ClearH0(c)
      PROVE  Inv'
  BY <1>3, UpdateKeeps, FinishKeeps, FinishH0Keeps, ClearH0Keeps
<1>4. ASSUME NEW c \in Contexts, NEW n \in {1, 2 * Size - 1}, SqueezeH0(c, n)
      PROVE  Inv'
  <2>1. n \in Nat
    <3>1. Rate \in Nat \ {0}
      BY DEF Inv, Typed
    <3> QED
      BY <3>1 DEF Size, Rate
  <2> QED
    BY <1>4, <2>1, SqueezeH0Keeps
<1>5. CASE UNCHANGED vars
  <2>1. UNCHANGED <<sponge, msg, fn, given, use, copied, cur, todo, done>>
    BY <1>5 DEF vars
  <2>2. Rate' = Rate /\ Typed'
    BY <2>1 DEF Rate, Inv, Typed
  <2>3. CallInShape'
    BY <2>1 DEF Inv, CallInShape, Updating, Finalising, Outputting, OutputsFrom, Fed
  <2>4. ASSUME NEW c \in Contexts
        PROVE  StageOf(c)'
    <3>1. StageOf(c)
      BY DEF Inv
    <3>2. Pending(c)' = Pending(c)
      BY <2>1 DEF Pending, Running, Left
    <3>3. use[c] = "absorbing" => fn[c] = "none" \/ (c = cur' /\ todo' # <<>>)
      BY <2>1, <3>1 DEF StageOf, Filling
    <3> QED
      BY <2>1, <2>2, <3>1, <3>2, <3>3, LeftAlone
  <2> QED
    BY <2>2, <2>3, <2>4 DEF Inv
<1> QED
  BY <1>1, <1>2, <1>3, <1>4, <1>5 DEF Next

(* The invariant holds throughout, for blocks of every size.               *)
THEOREM InvHolds == Spec => []Inv
<1>1. Init => Inv
  BY InitHolds
<1>2. Inv /\ [Next]_vars => Inv'
  BY StepKeeps
<1> QED
  BY <1>1, <1>2, PTL DEF Spec

-----------------------------------------------------------------------------
(* What a context gives is the stream it should be.                        *)
LEMMA InvStream ==
  ASSUME Inv
  PROVE  StreamAsMeant
<1> SUFFICES ASSUME NEW c \in Contexts, NEW n \in DOMAIN given[c]
             PROVE  given[c][n] = Stream(Append(msg[c], DomainByte(fn[c])), sponge[c].rate, n - 1)
  BY DEF StreamAsMeant
<1>1. StageOf(c) /\ use[c] \in Stages
  BY DEF Inv, Typed
<1>2. given[c] # <<>>
  OBVIOUS
<1>3. Emptying(c)
  BY <1>1, <1>2 DEF StageOf, Fresh, Filling, Stages
<1>4. PICK p \in Nat, i \in 0 .. Rate :
        sponge[c] = Empties(Fed(c), Rate, p, i) /\ given[c] = OutputTo(Fed(c), Rate, p, i)
  BY <1>3, Zenon DEF Emptying
<1>5. Fed(c) = Append(msg[c], DomainByte(fn[c]))
  BY <1>3 DEF Emptying, Fed
<1>6. sponge[c].rate = Rate
  BY <1>4, EmptyingFields
<1> DEFINE m == Fed(c)
<1> HIDE DEF m
<1>7. given[c] = [x \in 1 .. p * Rate + i |-> Stream(m, Rate, x - 1)]
  BY <1>4 DEF OutputTo, OutputOf, m
<1>8. given[c][n] = Stream(m, Rate, n - 1)
  BY <1>7
<1> QED
  BY <1>5, <1>6, <1>8 DEF m

(* What a context gives is SHAKE of what it was fed and of its function's  *)
(* byte, from the start and without a gap, for blocks, messages and        *)
(* outputs of every size and however they are split over calls             *)
(* (random_oracle.c, KeccakSponge.inc:151-298).                            *)
THEOREM StreamsAsMeant == Spec => []StreamAsMeant
<1>1. Inv => StreamAsMeant
  BY InvStream
<1> QED
  BY <1>1, InvHolds, PTL

-----------------------------------------------------------------------------
(* A byte of a stream tells the message and the place it comes from.  In   *)
(* the last lane every block of the padded message has something, so that  *)
(* the number of blocks can be told; the lane with the suffix tells the    *)
(* length.                                                                 *)
PaddedTo(A, P, n, p, rate) ==
  /\ n \in Nat \ {0} /\ Len(A) = n + p
  /\ \A k \in 1 .. n : A[k][rate - 1] # {}
  /\ \A k \in n + 1 .. n + p : A[k][rate - 1] = {}
  /\ \A k \in 1 .. n : A[k] = P[k]

LEMMA LastLane ==
  ASSUME NEW rate \in Nat \ {0}, NEW m \in Seq(Int), NEW p \in Nat
  PROVE  PaddedTo(After(m, rate, p), Padded(m, rate), PaddedLen(m, rate), p, rate)
<1> DEFINE n == PaddedLen(m, rate)
           P == Padded(m, rate)
           A == After(m, rate, p)
           full == Len(m) \div rate
           rest == Len(m) % rate
<1>1. n \in Nat \ {0} /\ A = [k \in 1 .. n + p |-> IF k <= n THEN P[k] ELSE NoLanes(rate)]
  BY AfterIs
<1>2. full \in Nat /\ rest \in 0 .. rate - 1 /\ Len(m) = full * rate + rest
  <2>1. Len(m) \in Nat
    OBVIOUS
  <2> DEFINE h == Len(m)
  <2> HIDE DEF h
  <2>2. h \div rate \in Nat /\ h % rate \in 0 .. rate - 1 /\ h = (h \div rate) * rate + (h % rate)
    BY <2>1, DivMod DEF h
  <2> QED
    BY <2>2 DEF h
<1>n. n = full + 1
  BY DEF PaddedLen
<1> HIDE DEF n, A, full, rest
<1>s. Splits(m, rate, full, rest)
  BY <1>2 DEF Splits
<1>3. P = [k \in 1 .. full + 1 |-> IF k = full + 1 THEN LastBlock(m, rate, full, rest)
                                  ELSE BlockOf(m, rate, k - 1)]
  BY <1>2, <1>s, PaddedIs
<1> HIDE DEF P
<1>4. rate - 1 \in 0 .. rate - 1
  OBVIOUS
<1>5. LastBlock(m, rate, full, rest)[rate - 1] # {}
  BY <1>4 DEF LastBlock
<1>6. \A k \in 1 .. full : BlockOf(m, rate, k - 1)[rate - 1] # {}
  BY <1>4 DEF BlockOf
<1>7. ASSUME NEW k \in 1 .. n
      PROVE  P[k][rate - 1] # {}
  <2>1. P[k] = IF k = full + 1 THEN LastBlock(m, rate, full, rest) ELSE BlockOf(m, rate, k - 1)
    BY <1>3, <1>n
  <2>2. k = full + 1 \/ k \in 1 .. full
    BY <1>2, <1>n
  <2> QED
    BY <1>5, <1>6, <2>1, <2>2
<1>8. NoLanes(rate)[rate - 1] = {}
  BY <1>4 DEF NoLanes
<1>9. Len(A) = n + p
  BY <1>1
<1>10. \A k \in 1 .. n : A[k] = P[k]
  BY <1>1
<1>11. \A k \in n + 1 .. n + p : A[k] = NoLanes(rate)
  BY <1>1
<1>12. (\A k \in 1 .. n : A[k][rate - 1] # {}) /\ (\A k \in n + 1 .. n + p : A[k][rate - 1] = {})
  BY <1>7, <1>8, <1>10, <1>11
<1>13. PaddedTo(A, P, n, p, rate)
  BY <1>1, <1>9, <1>10, <1>12 DEF PaddedTo
<1> QED
  BY <1>13 DEF n, A, P

LEMMA PaddingTells ==
  ASSUME NEW rate \in Nat \ {0}, NEW m \in Seq(Int), NEW w \in Seq(Int), NEW p \in Nat, NEW q \in Nat
  PROVE  After(m, rate, p) = After(w, rate, q)
           => /\ PaddedLen(m, rate) = PaddedLen(w, rate) /\ p = q
              /\ Padded(m, rate) = Padded(w, rate)
<1>h. SUFFICES ASSUME After(m, rate, p) = After(w, rate, q)
               PROVE  /\ PaddedLen(m, rate) = PaddedLen(w, rate) /\ p = q
                      /\ Padded(m, rate) = Padded(w, rate)
  BY Zenon
<1> DEFINE A == After(m, rate, p)
           n == PaddedLen(m, rate)
           k == PaddedLen(w, rate)
           P == Padded(m, rate)
           Q == Padded(w, rate)
<1>p. PaddedTo(A, P, n, p, rate) /\ PaddedTo(A, Q, k, q, rate)
  BY <1>h, LastLane
<1>3. P = [x \in 1 .. n |-> P[x]] /\ Q = [x \in 1 .. k |-> Q[x]]
  BY AfterIs
<1> HIDE DEF A, n, k, P, Q
<1>1. /\ n \in Nat \ {0} /\ Len(A) = n + p
      /\ \A x \in 1 .. n : A[x][rate - 1] # {}
      /\ \A x \in n + 1 .. n + p : A[x][rate - 1] = {}
      /\ \A x \in 1 .. n : A[x] = P[x]
  BY <1>p DEF PaddedTo
<1>2. /\ k \in Nat \ {0} /\ Len(A) = k + q
      /\ \A x \in 1 .. k : A[x][rate - 1] # {}
      /\ \A x \in k + 1 .. k + q : A[x][rate - 1] = {}
      /\ \A x \in 1 .. k : A[x] = Q[x]
  BY <1>p DEF PaddedTo
<1>4. ~(n < k)
  <2> SUFFICES ASSUME n < k
               PROVE  FALSE
    OBVIOUS
  <2>1. k \in 1 .. k /\ k \in n + 1 .. n + p
    BY <1>1, <1>2
  <2> QED
    BY <1>1, <1>2, <2>1
<1>5. ~(k < n)
  <2> SUFFICES ASSUME k < n
               PROVE  FALSE
    OBVIOUS
  <2>1. n \in 1 .. n /\ n \in k + 1 .. k + q
    BY <1>1, <1>2
  <2> QED
    BY <1>1, <1>2, <2>1
<1>6. n = k /\ p = q
  BY <1>1, <1>2, <1>4, <1>5
<1>7. \A x \in 1 .. n : P[x] = Q[x]
  BY <1>1, <1>2, <1>6
<1>8. P = Q
  BY <1>3, <1>6, <1>7
<1> QED
  BY <1>6, <1>8 DEF n, k, P, Q

SameTail(m, w, rate, n, i) ==
  \A l \in 0 .. rate - 1 : l < i => m[n * rate + l + 1] = w[n * rate + l + 1]

LEMMA LengthTells ==
  ASSUME NEW rate \in Nat \ {0}, NEW m, NEW w, NEW n \in Nat,
         NEW i \in 0 .. rate - 1, NEW j \in 0 .. rate - 1
  PROVE  LastBlock(m, rate, n, i) = LastBlock(w, rate, n, j)
           => i = j /\ SameTail(m, w, rate, n, i)
<1>h. SUFFICES ASSUME LastBlock(m, rate, n, i) = LastBlock(w, rate, n, j)
               PROVE  i = j /\ SameTail(m, w, rate, n, i)
  BY Zenon
<1> DEFINE A == LastBlock(m, rate, n, i)
           B == LastBlock(w, rate, n, j)
           M(l) == m[n * rate + l + 1]
           W(l) == w[n * rate + l + 1]
           End(l) == IF l = rate - 1 THEN {SecondBit} ELSE {}
<1>1. \A l \in 0 .. rate - 1 :
        A[l] = (IF l < i THEN {M(l)} ELSE IF l = i THEN {Suffix} ELSE {}) \union End(l)
  BY DEF LastBlock
<1>2. \A l \in 0 .. rate - 1 :
        B[l] = (IF l < j THEN {W(l)} ELSE IF l = j THEN {Suffix} ELSE {}) \union End(l)
  BY DEF LastBlock
<1>3. A = B
  BY <1>h
<1> HIDE DEF A, B, M, W
<1>4. Suffix # SecondBit
  BY DEF Suffix, SecondBit
<1>5. ~(i < j)
  <2> SUFFICES ASSUME i < j
               PROVE  FALSE
    OBVIOUS
  <2>1. Suffix \in B[j]
    BY <1>2
  <2>2. A[j] = {} \union End(j)
    BY <1>1
  <2> QED
    BY <1>3, <1>4, <2>1, <2>2
<1>6. ~(j < i)
  <2> SUFFICES ASSUME j < i
               PROVE  FALSE
    OBVIOUS
  <2>1. Suffix \in A[i]
    BY <1>1
  <2>2. B[i] = {} \union End(i)
    <3>1. ~(i < j) /\ i # j
      OBVIOUS
    <3> QED
      BY <1>2, <3>1
  <2> QED
    BY <1>3, <1>4, <2>1, <2>2
<1>7. i = j
  BY <1>5, <1>6
<1>8. ASSUME NEW l \in 0 .. rate - 1, l < i
      PROVE  M(l) = W(l)
  <2>1. End(l) = {}
    BY <1>8
  <2>2. A[l] = {M(l)} \union End(l) /\ B[l] = {W(l)} \union End(l)
    BY <1>1, <1>2, <1>7, <1>8
  <2> QED
    BY <1>3, <2>1, <2>2
<1> QED
  BY <1>7, <1>8 DEF M, W, SameTail

LEMMA SplitsSomewhere ==
  ASSUME NEW rate \in Nat \ {0}, NEW m \in Seq(Int)
  PROVE  \E n \in Nat, i \in 0 .. rate - 1 : Splits(m, rate, n, i) /\ PaddedLen(m, rate) = n + 1
<1> DEFINE h == Len(m)
<1>1. h \in Nat
  OBVIOUS
<1> HIDE DEF h
<1>2. h \div rate \in Nat /\ h % rate \in 0 .. rate - 1 /\ h = (h \div rate) * rate + (h % rate)
  BY <1>1, DivMod
<1>3. Splits(m, rate, h \div rate, h % rate) /\ PaddedLen(m, rate) = (h \div rate) + 1
  BY <1>2 DEF Splits, PaddedLen, h
<1> QED
  BY <1>2, <1>3, Zenon

LEMMA MessageTells ==
  ASSUME NEW rate \in Nat \ {0}, NEW m \in Seq(Int), NEW w \in Seq(Int)
  PROVE  PaddedLen(m, rate) = PaddedLen(w, rate) /\ Padded(m, rate) = Padded(w, rate) => m = w
<1>h. SUFFICES ASSUME PaddedLen(m, rate) = PaddedLen(w, rate), Padded(m, rate) = Padded(w, rate)
               PROVE  m = w
  BY Zenon
<1>1. PICK n \in Nat, i \in 0 .. rate - 1 : Splits(m, rate, n, i) /\ PaddedLen(m, rate) = n + 1
  BY SplitsSomewhere
<1>2. PICK k \in Nat, j \in 0 .. rate - 1 : Splits(w, rate, k, j) /\ PaddedLen(w, rate) = k + 1
  BY SplitsSomewhere
<1>3. k = n
  <2>1. n + 1 = k + 1
    BY <1>h, <1>1, <1>2
  <2> QED
    BY <2>1
<1> DEFINE P == Padded(m, rate)
           Q == Padded(w, rate)
<1>4. P = [x \in 1 .. n + 1 |-> IF x = n + 1 THEN LastBlock(m, rate, n, i)
                               ELSE BlockOf(m, rate, x - 1)]
  BY <1>1, PaddedIs
<1>5. Q = [x \in 1 .. n + 1 |-> IF x = n + 1 THEN LastBlock(w, rate, n, j)
                               ELSE BlockOf(w, rate, x - 1)]
  BY <1>2, <1>3, PaddedIs
<1>6. P = Q
  BY <1>h
<1> HIDE DEF P, Q
<1>7. LastBlock(m, rate, n, i) = LastBlock(w, rate, n, j)
  <2>1. n + 1 \in 1 .. n + 1
    OBVIOUS
  <2>2. P[n + 1] = LastBlock(m, rate, n, i) /\ Q[n + 1] = LastBlock(w, rate, n, j)
    BY <1>4, <1>5, <2>1
  <2> QED
    BY <1>6, <2>2
<1>8. ASSUME NEW b \in 0 .. n - 1
      PROVE  BlockOf(m, rate, b) = BlockOf(w, rate, b)
  <2> DEFINE x == b + 1
  <2>1. x \in 1 .. n + 1 /\ x # n + 1 /\ x - 1 = b
    OBVIOUS
  <2> HIDE DEF x
  <2>2. P[x] = BlockOf(m, rate, x - 1) /\ Q[x] = BlockOf(w, rate, x - 1)
    BY <1>4, <1>5, <2>1
  <2> QED
    BY <1>6, <2>1, <2>2
<1>9. i = j /\ \A l \in 0 .. rate - 1 : l < i => m[n * rate + l + 1] = w[n * rate + l + 1]
  <2>1. i = j /\ SameTail(m, w, rate, n, i)
    BY <1>7, LengthTells
  <2> QED
    BY <2>1 DEF SameTail
<1>10. Len(m) = n * rate + i /\ Len(w) = n * rate + i /\ n * rate \in Nat
  <2>1. n * rate \in Nat
    BY ProductsOrdered, Products
  <2> QED
    BY <1>1, <1>2, <1>3, <1>9, <2>1 DEF Splits
<1>11. ASSUME NEW x \in 1 .. Len(m)
       PROVE  m[x] = w[x]
  <2> DEFINE a == x - 1
             b == a \div rate
             l == a % rate
  <2>1. a \in Nat
    BY <1>10
  <2> HIDE DEF a
  <2>2. b \in Nat /\ l \in 0 .. rate - 1 /\ a = b * rate + l
    BY <2>1, DivMod
  <2> HIDE DEF b, l
  <2>3. b * rate \in Nat
    BY <2>2, ProductsOrdered, Products
  <2>4. x = b * rate + l + 1
    BY <1>10, <2>2, <2>3 DEF a
  <2>5. b <= n
    <3> SUFFICES ASSUME b > n
                 PROVE  FALSE
      BY <2>2
    <3>1. (n + 1) * rate <= b * rate
      BY <2>2, ProductsOrdered
    <3>2. (n + 1) * rate = n * rate + rate
      BY Products
    <3> QED
      BY <1>10, <2>2, <2>3, <2>4, <3>1, <3>2
  <2>6. CASE b = n
    <3>1. l < i
      BY <1>10, <2>2, <2>4, <2>6
    <3>2. m[n * rate + l + 1] = w[n * rate + l + 1]
      BY <1>9, <2>2, <3>1
    <3> QED
      BY <2>4, <2>6, <3>2
  <2>7. CASE b # n
    <3>1. b \in 0 .. n - 1
      BY <2>2, <2>5, <2>7
    <3>2. BlockOf(m, rate, b)[l] = BlockOf(w, rate, b)[l]
      BY <1>8, <3>1
    <3>3. {m[b * rate + l + 1]} = {w[b * rate + l + 1]}
      BY <2>2, <3>2 DEF BlockOf
    <3> QED
      BY <2>4, <3>3
  <2> QED
    BY <2>6, <2>7
<1>12. Len(m) = Len(w)
  BY <1>10
<1> QED
  BY <1>11, <1>12, SeqEqual

LEMMA StreamTells ==
  ASSUME NEW rate \in Nat \ {0}, NEW m \in Seq(Int), NEW w \in Seq(Int), NEW a \in Nat, NEW b \in Nat
  PROVE  Stream(m, rate, a) = Stream(w, rate, b) => m = w /\ a = b
<1>h. SUFFICES ASSUME Stream(m, rate, a) = Stream(w, rate, b)
               PROVE  m = w /\ a = b
  BY Zenon
<1> DEFINE p == a \div rate
           q == b \div rate
           x == a % rate
           y == b % rate
<1>1. p \in Nat /\ x \in 0 .. rate - 1 /\ a = p * rate + x
  BY DivMod
<1>2. q \in Nat /\ y \in 0 .. rate - 1 /\ b = q * rate + y
  BY DivMod
<1>3. Stream(m, rate, a) = [after |-> After(m, rate, p), plus |-> {}, lane |-> x]
  BY Zenon DEF Stream, After
<1>4. Stream(w, rate, b) = [after |-> After(w, rate, q), plus |-> {}, lane |-> y]
  BY Zenon DEF Stream, After
<1> HIDE DEF p, q, x, y
<1>5. After(m, rate, p) = After(w, rate, q) /\ x = y
  <2> DEFINE A == After(m, rate, p)
             B == After(w, rate, q)
  <2>1. Stream(m, rate, a) = [after |-> A, plus |-> {}, lane |-> x]
    BY <1>3
  <2>2. Stream(w, rate, b) = [after |-> B, plus |-> {}, lane |-> y]
    BY <1>4
  <2> HIDE DEF A, B
  <2> DEFINE r == [after |-> A, plus |-> {}, lane |-> x]
             u == [after |-> B, plus |-> {}, lane |-> y]
  <2>3. r.after = A /\ u.after = B /\ r.lane = x /\ u.lane = y
    OBVIOUS
  <2>4. r = u
    BY <1>h, <2>1, <2>2
  <2> HIDE DEF r, u
  <2>5. A = B /\ x = y
    BY <2>3, <2>4
  <2> QED
    BY <2>5 DEF A, B
<1>6. /\ PaddedLen(m, rate) = PaddedLen(w, rate) /\ p = q /\ Padded(m, rate) = Padded(w, rate)
  BY <1>1, <1>2, <1>5, PaddingTells
<1>7. m = w
  BY <1>6, MessageTells
<1>8. a = b
  BY <1>1, <1>2, <1>5, <1>6
<1> QED
  BY <1>7, <1>8

(* The bytes of the functions are different.                               *)
LEMMA BytesTell ==
  ASSUME NEW f \in Oracles, NEW g \in Oracles, DomainByte(f) = DomainByte(g)
  PROVE  f = g
BY DEF Oracles, Finals, DomainByte

LEMMA InvSeparate ==
  ASSUME Inv
  PROVE  OraclesSeparate
<1> SUFFICES ASSUME NEW n \in DOMAIN given[1], NEW k \in DOMAIN given[2], given[1][n] = given[2][k]
             PROVE  msg[1] = msg[2] /\ fn[1] = fn[2] /\ n = k
  BY DEF OraclesSeparate
<1>1. ASSUME NEW c \in Contexts, NEW x \in DOMAIN given[c]
      PROVE  /\ given[c][x] = Stream(Fed(c), Rate, x - 1) /\ x - 1 \in Nat /\ x \in Nat
             /\ fn[c] \in Oracles /\ Fed(c) = Append(msg[c], DomainByte(fn[c]))
             /\ Fed(c) \in Seq(Int) /\ msg[c] \in Seq(Int) /\ DomainByte(fn[c]) \in Int
  <2>1. StageOf(c) /\ use[c] \in Stages /\ Typed /\ Rate \in Nat \ {0}
    BY DEF Inv, Typed
  <2>2. given[c] # <<>>
    BY <1>1
  <2>3. Emptying(c)
    BY <2>1, <2>2 DEF StageOf, Fresh, Filling, Stages
  <2>4. PICK p \in Nat, i \in 0 .. Rate :
          sponge[c] = Empties(Fed(c), Rate, p, i) /\ given[c] = OutputTo(Fed(c), Rate, p, i)
    BY <2>3, Zenon DEF Emptying
  <2> DEFINE m == Fed(c)
             g == p * Rate + i
  <2>5. g \in Nat
    BY <2>1, ProductsOrdered, Products
  <2> HIDE DEF m, g
  <2>6. given[c] = [z \in 1 .. g |-> Stream(m, Rate, z - 1)]
    BY <2>4 DEF OutputTo, OutputOf, m, g
  <2>7. x \in 1 .. g
    BY <1>1, <2>6
  <2>8. given[c][x] = Stream(m, Rate, x - 1) /\ x - 1 \in Nat /\ x \in Nat
    BY <2>5, <2>6, <2>7
  <2>9. fn[c] # "none" /\ Fed(c) = Append(msg[c], DomainByte(fn[c]))
    BY <2>3 DEF Emptying, Fed
  <2> QED
    BY <2>1, <2>8, <2>9, FedIs DEF m
<1>2. 1 \in Contexts /\ 2 \in Contexts /\ Rate \in Nat \ {0}
  BY DEF Inv, Typed, Contexts
<1> DEFINE a == Fed(1)
           b == Fed(2)
<1>3. /\ given[1][n] = Stream(a, Rate, n - 1) /\ n - 1 \in Nat /\ n \in Nat
      /\ fn[1] \in Oracles /\ a = Append(msg[1], DomainByte(fn[1])) /\ a \in Seq(Int)
      /\ msg[1] \in Seq(Int) /\ DomainByte(fn[1]) \in Int
  BY <1>1, <1>2
<1>4. /\ given[2][k] = Stream(b, Rate, k - 1) /\ k - 1 \in Nat /\ k \in Nat
      /\ fn[2] \in Oracles /\ b = Append(msg[2], DomainByte(fn[2])) /\ b \in Seq(Int)
      /\ msg[2] \in Seq(Int) /\ DomainByte(fn[2]) \in Int
  BY <1>1, <1>2
<1> HIDE DEF a, b
<1>5. a = b /\ n = k
  <2> DEFINE x == n - 1
             y == k - 1
  <2>1. x \in Nat /\ y \in Nat /\ Stream(a, Rate, x) = Stream(b, Rate, y)
    BY <1>3, <1>4
  <2>2. x = y => n = k
    BY <1>3, <1>4
  <2> HIDE DEF x, y
  <2>3. a \in Seq(Int) /\ b \in Seq(Int)
    BY <1>3, <1>4
  <2>4. a = b /\ x = y
    BY <1>2, <2>1, <2>3, StreamTells
  <2> QED
    BY <2>2, <2>4
<1>6. msg[1] = msg[2] /\ DomainByte(fn[1]) = DomainByte(fn[2])
  <2>1. Append(msg[1], DomainByte(fn[1])) = Append(msg[2], DomainByte(fn[2]))
    BY <1>3, <1>4, <1>5
  <2> DEFINE d == DomainByte(fn[1])
             e == DomainByte(fn[2])
             m == msg[1]
             w == msg[2]
  <2>2. m \in Seq(Int) /\ w \in Seq(Int) /\ d \in Int /\ e \in Int /\ Append(m, d) = Append(w, e)
    BY <1>3, <1>4, <2>1
  <2> HIDE DEF d, e, m, w
  <2>3. Len(m) = Len(w)
    BY <2>2
  <2>4. d = e
    <3>1. Append(m, d)[Len(m) + 1] = d /\ Append(w, e)[Len(w) + 1] = e
      BY <2>2
    <3> QED
      BY <2>2, <2>3, <3>1
  <2>5. \A x \in 1 .. Len(m) : m[x] = w[x]
    <3> TAKE x \in 1 .. Len(m)
    <3>1. Append(m, d)[x] = m[x] /\ Append(w, e)[x] = w[x]
      BY <2>2, <2>3
    <3> QED
      BY <2>2, <3>1
  <2>6. m = w
    BY <2>2, <2>3, <2>5, SeqEqual
  <2> QED
    BY <2>4, <2>6 DEF d, e, m, w
<1>7. fn[1] = fn[2]
  BY <1>3, <1>4, <1>6, BytesTell
<1> QED
  BY <1>5, <1>6, <1>7

(* No two functions ever give the same byte, nor one on two messages:      *)
(* contexts that have a byte in common are on one message, one function    *)
(* and one position, for blocks, messages and outputs of every size        *)
(* (random_oracle.c:31-139).                                               *)
THEOREM OraclesNeverMeet == Spec => []OraclesSeparate
<1>1. Inv => OraclesSeparate
  BY InvSeparate
<1> QED
  BY <1>1, InvHolds, PTL

=============================================================================
