------------------------------ MODULE PrgProofs ------------------------------
(***************************************************************************)
(* Theorems about prg, prg_2_lambda and prg_4_lambda, for words and blocks *)
(* of any width, any number of leaves and vectors and any iv.              *)
(***************************************************************************)
EXTENDS Prg, SequenceTheorems, TLAPS

(***************************************************************************)
(* The inductive invariant.                                                *)
(***************************************************************************)
(* The counter of block c of the call, and the bytes of the first blocks.  *)
Upper(p) == (iv.up + Tweak(p)) % Word
Counter(c) == [low |-> (iv.low + c) % Word, up |-> Upper(use)]
StreamByte(x) == <<(iv.low + x \div B) % Word, Upper(use), Rounds(seclvl), (x % B) + 1>>
Stream(n) == [x \in 1 .. n |-> StreamByte(x - 1)]

Calling == pc \in {"loop", "ecb", "fill", "return"}

Typed ==
  /\ backend \in {"library", "portable", "aesni"} /\ seclvl \in Levels
  /\ iv \in [low : IvWords, up : IvWords]
  /\ pc \in {"idle", "loop", "ecb", "fill", "return"}
  /\ Calling => use \in Uses /\ outlen \in Nat
  /\ before.use # None => before.use \in Uses

(* The generic loop: n bytes are written, and while there are more to      *)
(* write they are c whole blocks.                                          *)
Written(n) ==
  /\ out = Stream(n)
  /\ n < outlen => \E c \in Nat : n = c * B /\ ctr = Counter(c)
Looping == pc \in {"loop", "ecb"} => \E n \in 0 .. outlen : Written(n)

(* The portable cipher: it is called for one block, and encrypts before it *)
(* falls through to the loops of the smaller levels.                       *)
InCipher ==
  pc = "ecb" =>
    /\ Left > 0 /\ label \in Levels
    /\ \/ blocks = 1 /\ label = seclvl
       \/ blocks = 0 /\ last = Encrypted(ctr, Rounds(seclvl))

Filling ==
  pc = "fill" =>
    /\ ctr = Counter(0)
    /\ outlen = Unrolled(fn, seclvl) * B
    /\ \E n \in 0 .. Unrolled(fn, seclvl) : temp = [x \in 1 .. n |-> Counter(x - 1)]

Returned == pc = "return" => out = Stream(outlen)

(* All counters of a call share its tweaked word.                          *)
Tweaked ==
  /\ Calling => \A v \in used : v.up = Upper(use)
  /\ before.use # None => \A v \in before.used : v.up = Upper(before.use)

IInv == Typed /\ Looping /\ InCipher /\ Filling /\ Returned /\ Tweaked

-----------------------------------------------------------------------------
(* Numbers.                                                                *)
LEMMA Numbers ==
  /\ B \in Nat \ {0} /\ Word \in Nat \ {0} /\ Half \in Nat /\ 2 * Half = Word
  /\ L \in Nat \ {0} /\ Tau \in Nat /\ L - 1 + Tau <= Half
BY ScaleAssumption DEF Word

LEMMA Distribute ==
  ASSUME NEW a \in Int, NEW b \in Int
  PROVE  a * b \in Int /\ (a + 1) * b = a * b + b
OBVIOUS

LEMMA Monotone ==
  ASSUME NEW a \in Int, NEW b \in Int, NEW c \in Nat, a <= b
  PROVE  a * c <= b * c
OBVIOUS

LEMMA DivMod ==
  ASSUME NEW a \in Nat, NEW b \in Nat \ {0}
  PROVE  /\ a \div b \in Nat /\ a % b \in 0 .. b - 1
         /\ a = (a \div b) * b + (a % b)
OBVIOUS

LEMMA FactorsOrdered ==
  ASSUME NEW a \in Int, NEW c \in Int, NEW b \in Nat \ {0}, a * b < c * b + b
  PROVE  a <= c
<1> SUFFICES ASSUME c + 1 <= a PROVE FALSE
  OBVIOUS
<1>1. (c + 1) * b <= a * b
  BY Monotone
<1> QED
  BY <1>1, Distribute

(* Quotient and remainder are unique.                                      *)
LEMMA QuotientIs ==
  ASSUME NEW a \in Nat, NEW b \in Nat \ {0}, NEW h \in Nat, NEW t \in 0 .. b - 1,
         a = h * b + t
  PROVE  a \div b = h /\ a % b = t
<1>1. PICK d \in Nat : d = a \div b
  BY DivMod
<1>2. PICK r \in 0 .. b - 1 : r = a % b
  BY DivMod
<1>3. a = d * b + r
  BY <1>1, <1>2, DivMod
<1>4. d * b \in Int /\ h * b \in Int
  BY Distribute
<1>5. d <= h
  <2>1. d * b < h * b + b
    BY <1>3, <1>4
  <2> QED
    BY <2>1, FactorsOrdered
<1>6. h <= d
  <2>1. h * b < d * b + b
    BY <1>3, <1>4
  <2> QED
    BY <2>1, FactorsOrdered
<1>7. d = h
  BY <1>5, <1>6
<1> QED
  BY <1>1, <1>2, <1>3, <1>4, <1>7

(* A word that is counted up holds the number modulo its width.            *)
LEMMA CountUp ==
  ASSUME NEW a \in Nat, NEW w \in Nat \ {0}
  PROVE  ((a % w) + 1) % w = (a + 1) % w
<1>1. PICK d \in Nat, r \in 0 .. w - 1 : a = d * w + r /\ r = a % w
  BY DivMod
<1>0. PICK f \in Nat : f = a + 1
  OBVIOUS
<1>4. d * w \in Int /\ (d + 1) * w = d * w + w
  BY Distribute
<1>2. CASE r + 1 < w
  <2>1. PICK y \in 0 .. w - 1 : y = r + 1
    BY <1>2
  <2>2. f = d * w + y /\ y = 0 * w + y
    BY <1>0, <1>1, <1>4, <2>1
  <2>3. f % w = y
    BY <2>2, QuotientIs
  <2>4. y % w = y
    BY <2>2, QuotientIs
  <2> QED
    BY <1>0, <1>1, <2>1, <2>3, <2>4
<1>3. CASE r + 1 = w
  <2>1. PICK e \in Nat : e = d + 1
    OBVIOUS
  <2>4. f = e * w + 0
    BY <1>0, <1>1, <1>3, <1>4, <2>1
  <2>2. f % w = 0
    BY <2>4, QuotientIs
  <2>3. w % w = 0
    <3>1. w = 1 * w + 0
      OBVIOUS
    <3> QED
      BY <3>1, QuotientIs
  <2> QED
    BY <1>0, <1>1, <1>3, <2>2, <2>3
<1> QED
  BY <1>1, <1>2, <1>3

(* Small numbers added to a word leave different words.                    *)
LEMMA OffsetsDiffer ==
  ASSUME NEW a \in Nat, NEW w \in Nat \ {0}, NEW x \in 0 .. w - 1, NEW y \in 0 .. w - 1,
         (a + x) % w = (a + y) % w
  PROVE  x = y
<1>0. PICK f \in Nat, g \in Nat : f = a + x /\ g = a + y
  OBVIOUS
<1>1. PICK d \in Nat, r \in 0 .. w - 1 : a + x = d * w + r /\ r = (a + x) % w
  <2>1. \E d \in Nat, r \in 0 .. w - 1 : f = d * w + r /\ r = f % w
    BY DivMod
  <2> QED
    BY <1>0, <2>1
<1>2. PICK e \in Nat, q \in 0 .. w - 1 : a + y = e * w + q /\ q = (a + y) % w
  <2>1. \E e \in Nat, q \in 0 .. w - 1 : g = e * w + q /\ q = g % w
    BY DivMod
  <2> QED
    BY <1>0, <2>1
<1>3. q = r /\ d * w \in Int /\ e * w \in Int
  BY <1>1, <1>2, Distribute
<1>4. d <= e
  <2>1. d * w < e * w + w
    BY <1>1, <1>2, <1>3
  <2> QED
    BY <2>1, FactorsOrdered
<1>5. e <= d
  <2>1. e * w < d * w + w
    BY <1>1, <1>2, <1>3
  <2> QED
    BY <2>1, FactorsOrdered
<1>6. d = e
  BY <1>4, <1>5
<1> QED
  BY <1>1, <1>2, <1>3, <1>6

(* Byte y of block c.                                                      *)
LEMMA BlockPlace ==
  ASSUME NEW c \in Nat, NEW y \in 0 .. B - 1
  PROVE  (c * B + y) \div B = c /\ (c * B + y) % B = y
<1>1. PICK a : a = c * B + y
  OBVIOUS
<1>2. PICK b \in Nat \ {0} : b = B
  BY Numbers
<1>3. a \in Nat
  <2>1. 0 * b <= c * b
    BY Monotone
  <2> QED
    BY <1>1, <1>2, <2>1, Distribute
<1>4. a \div b = c /\ a % b = y
  BY <1>1, <1>2, <1>3, QuotientIs
<1> QED
  BY <1>1, <1>2, <1>4

-----------------------------------------------------------------------------
(* A sequence followed by the first entries of another.                    *)
IsTuple(o, n) == o = [x \in 1 .. n |-> o[x]]

LEMMA FunctionSeq ==
  ASSUME NEW n \in Nat, NEW S, NEW o \in [1 .. n -> S]
  PROVE  o \in Seq(S) /\ Len(o) = n
OBVIOUS

LEMMA TupleSeq ==
  ASSUME NEW n \in Nat, NEW o, IsTuple(o, n), NEW S, \A x \in 1 .. n : o[x] \in S
  PROVE  o \in Seq(S) /\ Len(o) = n
<1>1. [x \in 1 .. n |-> o[x]] \in [1 .. n -> S]
  OBVIOUS
<1>2. o \in [1 .. n -> S]
  BY <1>1 DEF IsTuple
<1>3. o \in Seq(S)
  BY <1>2, FunctionSeq, Zenon
<1>4. Len(o) = n
  BY <1>2, FunctionSeq, Zenon
<1> QED
  BY <1>3, <1>4

LEMMA TupleLen == ASSUME NEW n \in Nat, NEW o, IsTuple(o, n) PROVE Len(o) = n
<1>1. \A x \in 1 .. n : o[x] \in {o[y] : y \in 1 .. n}
  OBVIOUS
<1> QED
  BY <1>1, TupleSeq

Joined(o, b, n, m) == [x \in 1 .. n + m |-> IF x <= n THEN o[x] ELSE b[x - n]]

LEMMA JoinTuple ==
  ASSUME NEW n \in Nat, NEW o, IsTuple(o, n), NEW l \in Nat, NEW b, IsTuple(b, l), NEW m \in 0 .. l
  PROVE  o \o SubSeq(b, 1, m) = Joined(o, b, n, m)
<1> DEFINE S == {o[x] : x \in 1 .. n} \cup {b[x] : x \in 1 .. l}
<1>0. \A x \in 1 .. n : o[x] \in S
  OBVIOUS
<1>2. \A x \in 1 .. m : b[x] \in S
  OBVIOUS
<1> HIDE DEF S
<1>1. o \in Seq(S) /\ Len(o) = n
  <2>1. o \in Seq(S)
    BY <1>0, TupleSeq
  <2>2. Len(o) = n
    BY <1>0, TupleSeq
  <2> QED
    BY <2>1, <2>2
<1>3. PICK q : q = SubSeq(b, 1, m)
  OBVIOUS
<1>4. q \in Seq(S) /\ Len(q) = m /\ \A x \in 1 .. m : q[x] = b[x]
  <2>1. /\ q \in Seq(S)
        /\ Len(q) = IF 1 <= m THEN m - 1 + 1 ELSE 0
        /\ \A x \in 1 .. m - 1 + 1 : q[x] = b[1 + x - 1]
    BY <1>2, <1>3, SubSeqProperties
  <2> QED
    BY <2>1
<1>5. PICK r : r = o \o q
  OBVIOUS
<1>6. /\ r \in Seq(S) /\ Len(r) = n + m
      /\ \A x \in 1 .. n + m : r[x] = IF x <= n THEN o[x] ELSE q[x - n]
  BY <1>1, <1>4, <1>5, ConcatProperties
<1>7. r = [x \in 1 .. n + m |-> r[x]]
  BY <1>6, LenProperties
<1>8. \A x \in 1 .. n + m : r[x] = IF x <= n THEN o[x] ELSE b[x - n]
  BY <1>4, <1>6
<1> QED
  BY <1>3, <1>5, <1>7, <1>8 DEF Joined

-----------------------------------------------------------------------------
(* The tweaks of bavc.c and vole.c are different words.                    *)
LEMMA TweakInWord == ASSUME NEW p \in Uses PROVE Tweak(p) \in 0 .. Word - 1
<1>1. CASE \E a \in 0 .. L - 2 : p = <<"node", a>>
  BY <1>1, Numbers DEF Tweak
<1>2. CASE \E a \in 0 .. Tau - 1 : p = <<"leaf", a>>
  BY <1>2, Numbers DEF Tweak, LeafTweak
<1>3. CASE \E a \in 0 .. Tau - 1 : p = <<"vole", a>>
  BY <1>3, Numbers DEF Tweak
<1> QED
  BY <1>1, <1>2, <1>3 DEF Uses, BavcUses, VoleUses

LEMMA TweaksDiffer ==
  ASSUME NEW p \in Uses, NEW q \in Uses, Tweak(p) = Tweak(q)
  PROVE  p = q
<1>1. /\ \A a : Tweak(<<"node", a>>) = a
      /\ \A a : Tweak(<<"leaf", a>>) = a + L - 1
      /\ \A a : Tweak(<<"vole", a>>) = a + Half
  BY DEF Tweak, LeafTweak
<1> DEFINE Is(x, a) == \/ a \in 0 .. L - 2 /\ x = <<"node", a>> /\ Tweak(x) = a
                       \/ a \in 0 .. Tau - 1 /\ x = <<"leaf", a>> /\ Tweak(x) = a + L - 1
                       \/ a \in 0 .. Tau - 1 /\ x = <<"vole", a>> /\ Tweak(x) = a + Half
<1>2. \A x \in Uses : \E a : Is(x, a)
  BY <1>1 DEF Uses, BavcUses, VoleUses
<1>3. PICK a : Is(p, a)
  BY <1>2
<1>4. PICK b : Is(q, b)
  BY <1>2
<1>5. PICK d : d = Tweak(p) /\ d = Tweak(q)
  OBVIOUS
<1> QED
  BY <1>3, <1>4, <1>5, Numbers

LEMMA IvInWord == Typed => iv.low \in Nat /\ iv.up \in Nat
<1>1. \A x \in IvWords : x \in Nat
  BY Numbers, ScaleAssumption
<1>2. Typed => iv.low \in IvWords /\ iv.up \in IvWords
  BY DEF Typed
<1> QED
  BY <1>1, <1>2

(* Counters of two purposes have different tweaked words.                  *)
LEMMA UpperDiffers ==
  ASSUME Typed, NEW p \in Uses, NEW q \in Uses, Upper(p) = Upper(q)
  PROVE  p = q
<1>1. PICK a \in Nat : a = iv.up
  BY IvInWord
<1>2. PICK x \in 0 .. Word - 1 : x = Tweak(p)
  BY TweakInWord
<1>3. PICK y \in 0 .. Word - 1 : y = Tweak(q)
  BY TweakInWord
<1>4. PICK w \in Nat \ {0} : w = Word
  BY Numbers
<1>5. (a + x) % w = (a + y) % w
  BY <1>1, <1>2, <1>3, <1>4 DEF Upper
<1>6. x = y
  BY <1>2, <1>3, <1>4, <1>5, OffsetsDiffer
<1> QED
  BY <1>2, <1>3, <1>6, TweaksDiffer

-----------------------------------------------------------------------------
(* A block more of the stream, or a part of one.                           *)
LEMMA StreamGrows ==
  ASSUME NEW c \in Nat, NEW m \in 0 .. B
  PROVE  Stream(c * B) \o SubSeq(Encrypted(Counter(c), Rounds(seclvl)), 1, m) = Stream(c * B + m)
<1>1. PICK n \in Nat : n = c * B
  <2>1. 0 * B <= c * B
    BY Monotone, Numbers
  <2> QED
    BY <2>1, Numbers, Distribute
<1>2. PICK l \in Nat : l = B
  BY Numbers
<1>3. PICK o : o = Stream(n)
  OBVIOUS
<1>4. PICK b : b = Encrypted(Counter(c), Rounds(seclvl))
  OBVIOUS
<1>5. IsTuple(o, n) /\ IsTuple(b, l)
  BY <1>2, <1>3, <1>4 DEF IsTuple, Stream, Encrypted
<1>6. o \o SubSeq(b, 1, m) = Joined(o, b, n, m)
  <2>1. PICK k \in 0 .. l : k = m
    BY <1>2
  <2>2. o \o SubSeq(b, 1, k) = Joined(o, b, n, k)
    BY <1>5, JoinTuple
  <2> QED
    BY <2>1, <2>2
<1>7. ASSUME NEW x \in 1 .. n + m
      PROVE  (IF x <= n THEN o[x] ELSE b[x - n]) = StreamByte(x - 1)
  <2>1. CASE x <= n
    BY <1>3, <2>1 DEF Stream
  <2>2. CASE ~ (x <= n)
    <3>1. PICK y \in 0 .. B - 1 : y = x - n - 1 /\ y + 1 = x - n /\ x - n \in 1 .. B
      BY <1>2, <2>2
    <3>2. b[x - n] = <<Counter(c).low, Counter(c).up, Rounds(seclvl), y + 1>>
      BY <1>4, <3>1 DEF Encrypted
    <3>3. (x - 1) \div B = c /\ (x - 1) % B = y
      <4>1. x - 1 = c * B + y
        BY <1>1, <3>1
      <4> QED
        BY <4>1, BlockPlace
    <3> QED
      BY <2>2, <3>2, <3>3 DEF StreamByte, Counter
  <2> QED
    BY <2>1, <2>2
<1>8. Stream(n + m) = [x \in 1 .. n + m |-> StreamByte(x - 1)]
  BY DEF Stream
<1> QED
  BY <1>1, <1>3, <1>4, <1>6, <1>7, <1>8 DEF Joined

LEMMA StreamLen == ASSUME NEW n \in Nat PROVE Len(Stream(n)) = n
<1>1. PICK o : o = Stream(n)
  OBVIOUS
<1>2. IsTuple(o, n)
  BY <1>1 DEF Stream, IsTuple
<1> QED
  BY <1>1, <1>2, TupleLen

LEMMA CounterNext == ASSUME Typed, NEW c \in Nat PROVE Increment(Counter(c)) = Counter(c + 1)
<1>1. PICK a \in Nat : a = iv.low
  BY IvInWord
<1>2. PICK w \in Nat \ {0} : w = Word
  BY Numbers
<1>3. PICK d \in Nat : d = a + c
  OBVIOUS
<1>4. ((d % w) + 1) % w = (d + 1) % w
  BY CountUp
<1>5. (((iv.low + c) % Word) + 1) % Word = (iv.low + (c + 1)) % Word
  <2>1. d + 1 = a + (c + 1)
    BY <1>3
  <2> QED
    BY <1>1, <1>2, <1>3, <1>4, <2>1
<1> QED
  BY <1>5 DEF Increment, Counter

-----------------------------------------------------------------------------
(* What stays the same during a call.                                      *)
LEMMA SameCall ==
  ASSUME UNCHANGED <<seclvl, iv, use>>
  PROVE  /\ \A n : Stream(n)' = Stream(n)
         /\ \A c : Counter(c)' = Counter(c)
         /\ \A p : Upper(p)' = Upper(p)
         /\ Upper(use)' = Upper(use)
BY DEF Stream, StreamByte, Counter, Upper

LEMMA TypedStays ==
  ASSUME Typed, UNCHANGED <<backend, seclvl, iv, use, outlen, before>>,
         pc' \in {"idle", "loop", "ecb", "fill", "return"}, Calling' => Calling
  PROVE  Typed'
BY DEF Typed

LEMMA TweakedStays ==
  ASSUME Tweaked, UNCHANGED <<seclvl, iv, use, before>>, Calling' => Calling,
         \A v \in used' : v \in used \/ v.up = Upper(use)
  PROVE  Tweaked'
<1>1. /\ Upper(use)' = Upper(use)
      /\ \A p : Upper(p)' = Upper(p)
  BY SameCall
<1>2. Upper(before.use)' = Upper(before.use)
  BY DEF Upper
<1> QED
  BY <1>1, <1>2 DEF Tweaked

LEMMA InitIInv == Init => IInv
<1> SUFFICES ASSUME Init PROVE IInv
  OBVIOUS
<1>1. Typed
  BY DEF Init, Typed, Calling
<1> QED
  BY <1>1 DEF Init, IInv, Looping, InCipher, Filling, Returned, Tweaked, Calling

-----------------------------------------------------------------------------
(* The lengths of the unrolled variants are whole blocks: three of them at *)
(* level 192, since blocks have an even length.                            *)
LEMMA UnrolledLength ==
  ASSUME seclvl \in Levels, NEW f \in {"prg_2_lambda", "prg_4_lambda"}, NEW n
  PROVE  Wanted(f, n) = Unrolled(f, seclvl) * B /\ Unrolled(f, seclvl) \in Nat \ {0}
<1>1. PICK h \in Nat : B = 2 * h
  <2>1. B = (B \div 2) * 2 + (B % 2) /\ B \div 2 \in Nat
    BY Numbers, DivMod
  <2>2. B % 2 = 0
    BY ScaleAssumption
  <2>3. PICK h \in Nat : h = B \div 2
    BY <2>1
  <2>4. B = h * 2
    BY <2>1, <2>2, <2>3
  <2> QED
    BY <2>4
<1>2. LambdaBytes(128) = B
  <2>1. (B * 128) \div 128 = B
    BY Numbers
  <2> QED
    BY <2>1 DEF LambdaBytes
<1>3. LambdaBytes(192) = 3 * h
  <2>1. ((2 * h) * 192) \div 128 = 3 * h
    OBVIOUS
  <2> QED
    BY <1>1, <2>1 DEF LambdaBytes
<1>4. LambdaBytes(256) = 2 * B
  <2>1. (B * 256) \div 128 = 2 * B
    BY Numbers
  <2> QED
    BY <2>1 DEF LambdaBytes
<1>5. CASE seclvl = 128
  BY <1>2, <1>5, Numbers DEF Wanted, Unrolled
<1>6. CASE seclvl = 192
  <2>1. PICK b \in Nat : b = B /\ b = 2 * h
    BY <1>1, Numbers
  <2>2. Wanted(f, n) = (IF f = "prg_2_lambda" THEN 2 ELSE 4) * (3 * h)
    BY <1>3, <1>6 DEF Wanted
  <2>3. Unrolled(f, seclvl) = IF f = "prg_2_lambda" THEN 3 ELSE 6
    BY <1>6 DEF Unrolled
  <2> QED
    BY <2>1, <2>2, <2>3
<1>7. CASE seclvl = 256
  BY <1>4, <1>7, Numbers DEF Wanted, Unrolled
<1> QED
  BY <1>5, <1>6, <1>7 DEF Levels

LEMMA CallIInv ==
  ASSUME IInv, NEW p \in Uses, NEW f \in Calls(p), NEW n \in Nat, Call(p, f, n)
  PROVE  IInv'
<1>1. /\ pc = "idle" /\ use' = p /\ fn' = f /\ outlen' = Wanted(f, n)
      /\ ctr' = AddToUpperWord(iv, Tweak(p))
      /\ out' = <<>> /\ used' = {} /\ temp' = <<>>
      /\ pc' = IF backend = "aesni" /\ f # "prg" THEN "fill" ELSE "loop"
      /\ UNCHANGED <<backend, seclvl, iv, last, blocks, label, before>>
  BY DEF Call
<1>2. f \in {"prg", "prg_2_lambda", "prg_4_lambda"}
  BY DEF Calls, Uses, BavcUses, VoleUses
<1>3. seclvl \in Levels
  BY DEF IInv, Typed
<1>4. outlen' \in Nat
  <2>1. CASE f = "prg"
    BY <1>1, <2>1 DEF Wanted
  <2>2. CASE f \in {"prg_2_lambda", "prg_4_lambda"}
    <3>1. PICK u \in Nat : u = Unrolled(f, seclvl) /\ outlen' = u * B
      BY <1>1, <1>3, <2>2, UnrolledLength
    <3>2. 0 * B <= u * B
      BY Monotone, Numbers
    <3> QED
      BY <3>1, <3>2, Numbers
  <2> QED
    BY <1>2, <2>1, <2>2
<1>5. Typed'
  BY <1>1, <1>4 DEF IInv, Typed
<1>6. ctr' = Counter(0)'
  <2>1. iv = [low |-> iv.low, up |-> iv.up] /\ iv.low \in 0 .. Word - 1
    BY ScaleAssumption DEF IInv, Typed
  <2>2. (iv.low + 0) % Word = iv.low
    <3>1. PICK a \in 0 .. Word - 1 : a = iv.low
      BY <2>1
    <3>2. PICK w \in Nat \ {0} : w = Word
      BY Numbers
    <3>3. a = 0 * w + a
      BY <3>2
    <3>4. a % w = a
      BY <3>2, <3>3, QuotientIs
    <3> QED
      BY <3>1, <3>2, <3>4
  <2>3. AddToUpperWord(iv, Tweak(p)) = [low |-> iv.low, up |-> Upper(p)]
    <3>1. PICK v : v = iv /\ v = [low |-> v.low, up |-> v.up]
      BY <2>1
    <3>2. [v EXCEPT !.up = (v.up + Tweak(p)) % Word] = [low |-> v.low, up |-> (v.up + Tweak(p)) % Word]
      BY <3>1
    <3> QED
      BY <3>1, <3>2 DEF AddToUpperWord, Upper
  <2> QED
    BY <1>1, <2>2, <2>3 DEF Counter, Upper
<1>7. Looping'
  <2>1. out' = Stream(0)'
    BY <1>1 DEF Stream
  <2>2. 0 \in 0 .. outlen' /\ 0 \in Nat /\ 0 = 0 * B
    BY <1>4, Numbers
  <2>3. Written(0)'
    BY <1>6, <2>1, <2>2 DEF Written
  <2> QED
    BY <2>2, <2>3 DEF Looping
<1>8. Filling'
  <2> SUFFICES ASSUME pc' = "fill"
               PROVE  /\ outlen' = Unrolled(f, seclvl) * B
                      /\ (\E x \in 0 .. Unrolled(fn, seclvl) : temp = [y \in 1 .. x |-> Counter(y - 1)])'
    BY <1>1, <1>6 DEF Filling
  <2>1. f \in {"prg_2_lambda", "prg_4_lambda"}
    BY <1>1, <1>2
  <2>2. outlen' = Unrolled(f, seclvl) * B /\ Unrolled(f, seclvl) \in Nat
    BY <1>1, <1>3, <2>1, UnrolledLength
  <2>3. temp' = [y \in 1 .. 0 |-> Counter(y - 1)']
    BY <1>1
  <2>4. 0 \in 0 .. Unrolled(fn', seclvl')
    BY <1>1, <2>2
  <2> QED
    BY <2>2, <2>3, <2>4
<1>9. InCipher' /\ Returned' /\ Tweaked'
  <2>1. \A q : Upper(q)' = Upper(q)
    BY <1>1 DEF Upper
  <2>2. Upper(before.use)' = Upper(before.use)
    BY <1>1 DEF Upper
  <2> QED
    BY <1>1, <2>1, <2>2 DEF IInv, InCipher, Returned, Tweaked
<1> QED
  BY <1>5, <1>7, <1>8, <1>9 DEF IInv

-----------------------------------------------------------------------------
(* A block from the cipher: whole, or what is still wanted of it.          *)
LEMMA TakeStep ==
  ASSUME Typed, Calling, Looping, pc \in {"loop", "ecb"}, Left > 0,
         Take(Encrypted(ctr, Rounds(seclvl))), Advance,
         UNCHANGED <<seclvl, iv, use, outlen>>
  PROVE  Looping'
<1>1. PICK n \in 0 .. outlen : Written(n)
  BY DEF Looping
<1>2. outlen \in Nat
  BY DEF Typed
<1>3. PICK e \in Nat : e = outlen
  BY <1>2
<1>4. n \in Nat /\ n <= e
  BY <1>1, <1>3
<1>5. Left = e - n
  <2>1. Len(out) = n
    BY <1>1, <1>4, StreamLen DEF Written
  <2> QED
    BY <1>3, <2>1 DEF Left
<1>6. PICK c \in Nat : n = c * B /\ ctr = Counter(c)
  <2>1. n < outlen
    BY <1>3, <1>4, <1>5
  <2> QED
    BY <1>1, <2>1 DEF Written
<1>7. PICK m \in 0 .. B : m = IF Left < B THEN e - n ELSE B
  BY <1>4, <1>5, Numbers
<1>8. out' = Stream(n) \o SubSeq(Encrypted(Counter(c), Rounds(seclvl)), 1, m)
  <2>1. out' = out \o SubSeq(Encrypted(ctr, Rounds(seclvl)), 1, IF Left < B THEN Left ELSE B)
    BY DEF Take
  <2>2. m = IF Left < B THEN Left ELSE B
    BY <1>5, <1>7
  <2> QED
    BY <1>1, <1>6, <2>1, <2>2 DEF Written
<1>9. out' = Stream(n + m)
  BY <1>6, <1>8, StreamGrows
<1>10. PICK x \in 0 .. e : x = n + m
  BY <1>4, <1>5, <1>7, Numbers
<1>11. x < e => ctr' = Counter(c + 1) /\ x = (c + 1) * B
  <2> SUFFICES ASSUME x < e PROVE ctr' = Counter(c + 1) /\ x = (c + 1) * B
    OBVIOUS
  <2>1. ~ (Left < B) /\ m = B
    BY <1>4, <1>7, <1>10
  <2>2. ctr' = Increment(ctr)
    BY <2>1 DEF Advance
  <2>3. (c + 1) * B = c * B + B
    BY Distribute, Numbers
  <2> QED
    BY <1>6, <1>10, <2>1, <2>2, <2>3, CounterNext
<1>12. Written(x)'
  <2>1. out' = Stream(x)'
    BY <1>9, <1>10, SameCall
  <2>2. x < outlen' => \E y \in Nat : x = y * B /\ ctr' = Counter(y)'
    <3>1. c + 1 \in Nat
      OBVIOUS
    <3> QED
      BY <1>3, <1>11, <3>1, SameCall
  <2> QED
    BY <2>1, <2>2 DEF Written
<1> QED
  BY <1>3, <1>12 DEF Looping

LEMMA LoopingStays ==
  ASSUME Looping, pc \in {"loop", "ecb"}, UNCHANGED <<seclvl, iv, use, outlen, out, ctr>>
  PROVE  Looping'
<1>1. PICK n \in 0 .. outlen : Written(n)
  BY DEF Looping
<1>2. Written(n)'
  BY <1>1, SameCall DEF Written
<1> QED
  BY <1>1, <1>2 DEF Looping

(* The counter of a block that is still to be written has the tweaked word.*)
LEMMA NextCounter ==
  ASSUME Typed, Calling, Looping, pc = "loop", Left > 0
  PROVE  ctr.up = Upper(use)
<1>1. PICK n \in 0 .. outlen : Written(n)
  BY DEF Looping
<1>2. PICK e \in Nat : e = outlen
  BY DEF Typed
<1>3. Len(out) = n /\ n \in Nat /\ n <= e
  BY <1>1, <1>2, StreamLen DEF Written
<1>4. n < outlen
  BY <1>2, <1>3 DEF Left
<1> QED
  BY <1>1, <1>4 DEF Written, Counter

LEMMA EncryptNextIInv == IInv /\ EncryptNext => IInv'
<1> SUFFICES ASSUME IInv, EncryptNext PROVE IInv'
  OBVIOUS
<1>1. /\ pc = "loop" /\ pc' = "loop" /\ Left > 0 /\ used' = used \cup {ctr}
      /\ UNCHANGED <<backend, seclvl, iv, use, fn, outlen, last, blocks, label, temp, before>>
      /\ Calling /\ Calling'
  BY DEF EncryptNext, Calling
<1>2. Typed'
  BY <1>1, TypedStays DEF IInv
<1>3. Looping'
  BY <1>1, TakeStep DEF IInv, EncryptNext
<1>4. Tweaked'
  BY <1>1, NextCounter, TweakedStays DEF IInv
<1> QED
  BY <1>1, <1>2, <1>3, <1>4 DEF IInv, InCipher, Filling, Returned

LEMMA StartEcbIInv == IInv /\ StartEcb => IInv'
<1> SUFFICES ASSUME IInv, StartEcb PROVE IInv'
  OBVIOUS
<1>1. /\ pc = "loop" /\ pc' = "ecb" /\ Left > 0 /\ used' = used \cup {ctr}
      /\ blocks' = 1 /\ label' = seclvl
      /\ UNCHANGED <<backend, seclvl, iv, use, fn, outlen, ctr, out, temp, before>>
      /\ Calling /\ Calling'
  BY DEF StartEcb, Calling
<1>2. Typed'
  BY <1>1, TypedStays DEF IInv
<1>3. Looping'
  BY <1>1, LoopingStays DEF IInv
<1>4. Tweaked'
  BY <1>1, NextCounter, TweakedStays DEF IInv
<1>5. InCipher'
  <2>1. Left' = Left
    BY <1>1 DEF Left
  <2> QED
    BY <1>1, <2>1 DEF IInv, Typed, InCipher
<1> QED
  BY <1>1, <1>2, <1>3, <1>4, <1>5 DEF IInv, Filling, Returned

LEMMA InsideIInv == IInv /\ (EcbLoop \/ FallThrough) => IInv'
<1> SUFFICES ASSUME IInv, EcbLoop \/ FallThrough PROVE IInv'
  OBVIOUS
<1>1. /\ pc = "ecb" /\ pc' = "ecb"
      /\ UNCHANGED <<backend, seclvl, iv, use, fn, outlen, ctr, out, temp, used, before>>
      /\ Calling /\ Calling'
  BY DEF EcbLoop, FallThrough, Calling
<1>2. Typed'
  BY <1>1, TypedStays DEF IInv
<1>3. Looping'
  BY <1>1, LoopingStays DEF IInv
<1>4. Tweaked'
  BY <1>1, TweakedStays DEF IInv
<1>5. InCipher'
  <2>1. Left' = Left /\ Encrypted(ctr, Rounds(seclvl))' = Encrypted(ctr, Rounds(seclvl))
    BY <1>1 DEF Left
  <2>2. CASE EcbLoop
    BY <1>1, <2>1, <2>2 DEF IInv, InCipher, EcbLoop
  <2>3. CASE FallThrough
    BY <1>1, <2>1, <2>3 DEF IInv, InCipher, FallThrough, Levels
  <2> QED
    BY <2>2, <2>3
<1> QED
  BY <1>1, <1>2, <1>3, <1>4, <1>5 DEF IInv, Filling, Returned

LEMMA EndEcbIInv == IInv /\ EndEcb => IInv'
<1> SUFFICES ASSUME IInv, EndEcb PROVE IInv'
  OBVIOUS
<1>1. /\ pc = "ecb" /\ pc' = "loop" /\ blocks = 0
      /\ UNCHANGED <<backend, seclvl, iv, use, fn, outlen, last, blocks, label, temp, used, before>>
      /\ Calling /\ Calling'
  BY DEF EndEcb, Calling
<1>2. Typed'
  BY <1>1, TypedStays DEF IInv
<1>3. Looping'
  <2>1. last = Encrypted(ctr, Rounds(seclvl)) /\ Left > 0
    BY <1>1 DEF IInv, InCipher
  <2>2. Take(Encrypted(ctr, Rounds(seclvl))) /\ Advance
    BY <2>1 DEF EndEcb
  <2> QED
    BY <1>1, <2>1, <2>2, TakeStep DEF IInv
<1>4. Tweaked'
  BY <1>1, TweakedStays DEF IInv
<1> QED
  BY <1>1, <1>2, <1>3, <1>4 DEF IInv, InCipher, Filling, Returned

LEMMA EndLoopIInv == IInv /\ EndLoop => IInv'
<1> SUFFICES ASSUME IInv, EndLoop PROVE IInv'
  OBVIOUS
<1>1. /\ pc = "loop" /\ pc' = "return" /\ Left = 0
      /\ UNCHANGED <<backend, seclvl, iv, use, fn, outlen, ctr, out, last, blocks, label, temp, used, before>>
      /\ Calling /\ Calling'
  BY DEF EndLoop, Calling
<1>2. Typed'
  BY <1>1, TypedStays DEF IInv
<1>3. out = Stream(outlen)
  <2>1. PICK n \in 0 .. outlen : Written(n)
    BY <1>1 DEF IInv, Looping
  <2>2. PICK e \in Nat : e = outlen
    BY <1>1 DEF IInv, Typed
  <2>3. Len(out) = n /\ n \in Nat
    BY <2>1, <2>2, StreamLen DEF Written
  <2>4. n = e
    BY <1>1, <2>2, <2>3 DEF Left
  <2> QED
    BY <2>1, <2>2, <2>4 DEF Written
<1>4. Tweaked'
  BY <1>1, TweakedStays DEF IInv
<1>5. Returned'
  <2>1. Stream(outlen)' = Stream(outlen)
    BY <1>1 DEF Stream, StreamByte, Upper
  <2> QED
    BY <1>1, <1>3, <2>1 DEF Returned
<1> QED
  BY <1>1, <1>2, <1>4, <1>5 DEF IInv, Looping, InCipher, Filling

LEMMA ReturnIInv == IInv /\ Return => IInv'
<1> SUFFICES ASSUME IInv, Return PROVE IInv'
  OBVIOUS
<1>1. /\ pc = "return" /\ pc' = "idle" /\ before' = [use |-> use, used |-> used]
      /\ UNCHANGED <<backend, seclvl, iv, use, fn, outlen, ctr, out, last, blocks, label, temp, used>>
      /\ Calling /\ ~ Calling'
  BY DEF Return, Calling
<1>2. use \in Uses /\ \A v \in used : v.up = Upper(use)
  BY <1>1 DEF IInv, Typed, Tweaked
<1>3. before'.use = use /\ before'.used = used
  BY <1>1
<1>4. Upper(before.use)' = Upper(use)
  BY <1>1, <1>3 DEF Upper
<1>5. Tweaked'
  BY <1>1, <1>2, <1>3, <1>4 DEF Tweaked
<1>6. Typed'
  BY <1>1, <1>2, <1>3 DEF IInv, Typed
<1> QED
  BY <1>1, <1>5, <1>6 DEF IInv, Looping, InCipher, Filling, Returned

-----------------------------------------------------------------------------
(* The unrolled variants: the counters first, ...                          *)
LEMMA AppendTuple ==
  ASSUME NEW n \in Nat, NEW o, IsTuple(o, n), NEW e
  PROVE  Append(o, e) = [x \in 1 .. n + 1 |-> IF x <= n THEN o[x] ELSE e]
<1> DEFINE S == {o[x] : x \in 1 .. n} \cup {e}
<1>1. (\A x \in 1 .. n : o[x] \in S) /\ e \in S
  OBVIOUS
<1> HIDE DEF S
<1>2. o \in Seq(S)
  BY <1>1, TupleSeq
<1>3. Len(o) = n
  BY TupleLen
<1>4. PICK r : r = Append(o, e)
  OBVIOUS
<1>5. r \in Seq(S) /\ Len(r) = n + 1 /\ \A x \in 1 .. n + 1 : r[x] = IF x <= n THEN o[x] ELSE e
  BY <1>1, <1>2, <1>3, <1>4
<1>6. r = [x \in 1 .. n + 1 |-> r[x]]
  BY <1>5, LenProperties
<1> QED
  BY <1>4, <1>5, <1>6

Counters(n) == [x \in 1 .. n |-> Counter(x - 1)]

LEMMA CountersGrow ==
  ASSUME Typed, NEW n \in Nat, NEW o, o = Counters(n), NEW e,
         e = IF o = <<>> THEN Counter(0) ELSE Increment(Last(o))
  PROVE  Len(o) = n /\ Append(o, e) = Counters(n + 1)
<1>1. IsTuple(o, n)
  BY DEF Counters, IsTuple
<1>2. Len(o) = n
  BY <1>1, TupleLen
<1>3. e = Counter(n)
  <2>1. CASE n = 0
    BY <2>1 DEF Counters
  <2>2. CASE n # 0
    <3>1. o # <<>>
      BY <1>2, <2>2
    <3>2. PICK c \in Nat : c = n - 1 /\ c + 1 = n
      BY <2>2
    <3>3. Last(o) = Counter(c)
      BY <1>2, <2>2, <3>2 DEF Last, Counters
    <3>4. Increment(Counter(c)) = Counter(c + 1)
      BY CounterNext
    <3> QED
      BY <3>1, <3>2, <3>3, <3>4
  <2> QED
    BY <2>1, <2>2
<1>4. Append(o, e) = [x \in 1 .. n + 1 |-> IF x <= n THEN o[x] ELSE e]
  BY <1>1, AppendTuple
<1>5. \A x \in 1 .. n + 1 : (IF x <= n THEN o[x] ELSE e) = Counter(x - 1)
  <2> SUFFICES ASSUME NEW x \in 1 .. n + 1
               PROVE  (IF x <= n THEN o[x] ELSE e) = Counter(x - 1)
    OBVIOUS
  <2>1. CASE x <= n
    BY <2>1 DEF Counters
  <2>2. CASE ~ (x <= n)
    <3>1. x - 1 = n
      BY <2>2
    <3> QED
      BY <1>3, <2>2, <3>1
  <2> QED
    BY <2>1, <2>2
<1> QED
  BY <1>2, <1>4, <1>5 DEF Counters

LEMMA FillCounterIInv == IInv /\ FillCounter => IInv'
<1> SUFFICES ASSUME IInv, FillCounter PROVE IInv'
  OBVIOUS
<1>1. /\ pc = "fill" /\ pc' = "fill" /\ Len(temp) < Unrolled(fn, seclvl)
      /\ temp' = Append(temp, IF temp = <<>> THEN ctr ELSE Increment(Last(temp)))
      /\ UNCHANGED <<backend, seclvl, iv, use, fn, outlen, ctr, out, last, blocks, label, used, before>>
      /\ Calling /\ Calling'
  BY DEF FillCounter, Calling
<1>2. Typed'
  BY <1>1, TypedStays DEF IInv
<1>3. Tweaked'
  BY <1>1, TweakedStays DEF IInv
<1>4. PICK n \in 0 .. Unrolled(fn, seclvl) : temp = Counters(n)
  BY <1>1 DEF IInv, Filling, Counters
<1>5. ctr = Counter(0) /\ outlen = Unrolled(fn, seclvl) * B
  BY <1>1 DEF IInv, Filling
<1>6. PICK e : e = IF temp = <<>> THEN Counter(0) ELSE Increment(Last(temp))
  OBVIOUS
<1>7. PICK o : o = temp
  OBVIOUS
<1>8. Len(o) = n /\ Append(o, e) = Counters(n + 1)
  <2>1. n \in Nat /\ Typed /\ o = Counters(n) /\ e = IF o = <<>> THEN Counter(0) ELSE Increment(Last(o))
    BY <1>4, <1>6, <1>7 DEF IInv
  <2>2. Len(o) = n
    BY <2>1, CountersGrow
  <2>3. Append(o, e) = Counters(n + 1)
    BY <2>1, CountersGrow
  <2> QED
    BY <2>2, <2>3
<1>9. temp' = Counters(n + 1)
  BY <1>1, <1>5, <1>6, <1>7, <1>8
<1>10. PICK u \in Nat : u = Unrolled(fn, seclvl)
  BY DEF Unrolled, IInv, Typed, Levels
<1>11. n + 1 \in 0 .. Unrolled(fn, seclvl)
  <2>1. n < u
    BY <1>1, <1>7, <1>8, <1>10
  <2>2. n + 1 \in 0 .. u
    BY <1>10, <2>1
  <2> QED
    BY <1>10, <2>2
<1>12. Filling'
  <2>1. temp' = Counters(n + 1)'
    BY <1>1, <1>9, SameCall DEF Counters
  <2>2. ctr' = Counter(0)'
    BY <1>1, <1>5, SameCall
  <2>3. n + 1 \in 0 .. Unrolled(fn', seclvl') /\ outlen' = Unrolled(fn', seclvl') * B
    BY <1>1, <1>5, <1>11
  <2> QED
    BY <2>1, <2>2, <2>3 DEF Filling, Counters
<1> QED
  BY <1>1, <1>2, <1>3, <1>12 DEF IInv, Looping, InCipher, Returned

(* ... then all blocks.                                                    *)
LEMMA StoredIsStream ==
  ASSUME NEW n \in Nat, NEW o, o = Counters(n)
  PROVE  Stored([x \in DOMAIN o |-> Encrypted(o[x], Rounds(seclvl))]) = Stream(n * B)
<1>1. PICK b : b = [x \in 1 .. n |-> Encrypted(Counter(x - 1), Rounds(seclvl))]
  OBVIOUS
<1>2. [x \in DOMAIN o |-> Encrypted(o[x], Rounds(seclvl))] = b
  BY <1>1 DEF Counters
<1>3. Len(b) = n
  <2>1. IsTuple(b, n)
    BY <1>1 DEF IsTuple
  <2> QED
    BY <2>1, TupleLen
<1>4. PICK k \in Nat : k = n * B
  <2>1. 0 * B <= n * B
    BY Monotone, Numbers
  <2> QED
    BY <2>1, Numbers, Distribute
<1>5. ASSUME NEW x \in 1 .. k
      PROVE  b[(x - 1) \div B + 1][((x - 1) % B) + 1] = StreamByte(x - 1)
  <2>1. PICK y \in Nat : y = x - 1 /\ y < k
    OBVIOUS
  <2>2. PICK h \in Nat, t \in 0 .. B - 1 : y = h * B + t /\ h = y \div B /\ t = y % B
    <3>1. PICK w \in Nat \ {0} : w = B
      BY Numbers
    <3> QED
      BY <3>1, DivMod
  <2>3. h <= n - 1
    <3>1. h * B < (n - 1) * B + B
      <4>1. ((n - 1) + 1) * B = (n - 1) * B + B /\ (n - 1) + 1 = n /\ h * B \in Int
        BY Distribute, Numbers
      <4> QED
        BY <1>4, <2>1, <2>2, <4>1
    <3>2. n - 1 \in Int
      OBVIOUS
    <3> QED
      BY <3>1, <3>2, FactorsOrdered, Numbers
  <2>4. h + 1 \in 1 .. n /\ h + 1 - 1 = h /\ t + 1 \in 1 .. B
    BY <2>3, Numbers
  <2>5. b[h + 1] = Encrypted(Counter(h), Rounds(seclvl))
    BY <1>1, <2>4
  <2>6. b[h + 1][t + 1] = <<Counter(h).low, Counter(h).up, Rounds(seclvl), t + 1>>
    BY <2>4, <2>5 DEF Encrypted
  <2>7. StreamByte(y) = <<(iv.low + h) % Word, Upper(use), Rounds(seclvl), t + 1>>
    BY <2>2 DEF StreamByte
  <2> QED
    BY <2>1, <2>2, <2>6, <2>7 DEF Counter
<1>6. Stored(b) = [x \in 1 .. k |-> b[(x - 1) \div B + 1][((x - 1) % B) + 1]]
  BY <1>3, <1>4 DEF Stored
<1> QED
  BY <1>2, <1>4, <1>5, <1>6 DEF Stream

LEMMA StoreBlocksIInv == IInv /\ StoreBlocks => IInv'
<1> SUFFICES ASSUME IInv, StoreBlocks PROVE IInv'
  OBVIOUS
<1>1. /\ pc = "fill" /\ pc' = "return" /\ Len(temp) = Unrolled(fn, seclvl)
      /\ out' = Stored([x \in DOMAIN temp |-> Encrypted(temp[x], Rounds(seclvl))])
      /\ used' = ToSet(temp)
      /\ UNCHANGED <<backend, seclvl, iv, use, fn, outlen, ctr, last, blocks, label, temp, before>>
      /\ Calling /\ Calling'
  BY DEF StoreBlocks, Calling
<1>2. Typed'
  BY <1>1, TypedStays DEF IInv
<1>3. PICK n \in 0 .. Unrolled(fn, seclvl) : temp = Counters(n)
  BY <1>1 DEF IInv, Filling, Counters
<1>4. outlen = Unrolled(fn, seclvl) * B
  BY <1>1 DEF IInv, Filling
<1>5. n \in Nat /\ n = Unrolled(fn, seclvl)
  <2>1. n \in Nat
    BY <1>3
  <2>2. PICK o : o = temp /\ IsTuple(o, n)
    BY <1>3 DEF IsTuple, Counters
  <2>3. Len(o) = n
    BY <2>1, <2>2, TupleLen
  <2> QED
    BY <1>1, <2>1, <2>2, <2>3
<1>6. PICK o : o = temp
  OBVIOUS
<1>7. out' = Stream(n * B)
  <2>1. Stored([x \in DOMAIN o |-> Encrypted(o[x], Rounds(seclvl))]) = Stream(n * B)
    BY <1>3, <1>5, <1>6, StoredIsStream
  <2> QED
    BY <1>1, <1>6, <2>1
<1>8. Returned'
  <2>1. n * B = outlen'
    BY <1>1, <1>4, <1>5
  <2>2. Stream(n * B)' = Stream(n * B)
    BY <1>1 DEF Stream, StreamByte, Upper
  <2>3. out' = Stream(outlen)'
    BY <1>7, <2>1, <2>2 DEF Stream
  <2> QED
    BY <2>3 DEF Returned
<1>9. Tweaked'
  <2>1. \A v \in used' : v.up = Upper(use)
    <3>1. \A x \in DOMAIN temp : temp[x].up = Upper(use)
      BY <1>3 DEF Counters, Counter
    <3> QED
      BY <1>1, <3>1 DEF ToSet
  <2> QED
    BY <1>1, <2>1, TweakedStays DEF IInv
<1> QED
  BY <1>1, <1>2, <1>8, <1>9 DEF IInv, Looping, InCipher, Filling

LEMMA StutterIInv == IInv /\ UNCHANGED vars => IInv'
<1> SUFFICES ASSUME IInv, UNCHANGED vars PROVE IInv'
  OBVIOUS
<1> USE DEF vars
<1>1. Typed' /\ Tweaked'
  BY DEF IInv, Typed, Tweaked, Calling, Upper
<1>2. Looping' /\ InCipher' /\ Filling' /\ Returned'
  BY DEF IInv, Looping, Written, InCipher, Filling, Returned, Left, Stream, StreamByte, Counter, Upper
<1> QED
  BY <1>1, <1>2 DEF IInv

LEMMA Invariance == Spec => []IInv
<1>1. ASSUME IInv, NEW p \in Uses, NEW f \in Calls(p), NEW n \in IF f = "prg" THEN 0 .. MaxLen ELSE {0},
             Call(p, f, n)
      PROVE  IInv'
  <2>1. n \in Nat
    BY <1>1
  <2> QED
    BY <1>1, <2>1, CallIInv
<1>2. IInv /\ [Next]_vars => IInv'
  BY <1>1, EncryptNextIInv, StartEcbIInv, InsideIInv, EndEcbIInv, FillCounterIInv, StoreBlocksIInv,
     EndLoopIInv, ReturnIInv, StutterIInv DEF Next
<1> QED
  BY <1>2, InitIInv, PTL DEF Spec

-----------------------------------------------------------------------------
(* Every variant writes the same bytes: the encrypted counters from the    *)
(* tweaked iv on, as many as were asked for (aes.c:307-900, 1159-1189).    *)
THEOREM SameStream == Spec => []StreamIsCounter
<1>1. IInv => StreamIsCounter
  <2> SUFFICES ASSUME IInv, pc = "return"
        PROVE  /\ Len(out) = outlen
               /\ \A x \in 1 .. outlen :
                    out[x] = <<(iv.low + (x - 1) \div B) % Word, (iv.up + Tweak(use)) % Word,
                               Rounds(seclvl), ((x - 1) % B) + 1>>
    BY DEF StreamIsCounter
  <2>1. out = Stream(outlen) /\ outlen \in Nat
    BY DEF IInv, Returned, Typed, Calling
  <2>2. Len(out) = outlen
    BY <2>1, StreamLen
  <2> QED
    BY <2>1, <2>2 DEF Stream, StreamByte, Upper
<1> QED
  BY <1>1, Invariance, PTL

(* Different purposes never encrypt the same counter under one key, for    *)
(* any number of leaves and vectors below TWEAK_OFFSET (bavc.c:25-30,      *)
(* 44-76, vole.c:17, 38).                                                  *)
THEOREM PurposesApart == Spec => []TweaksSeparate
<1>1. IInv => TweaksSeparate
  <2> SUFFICES ASSUME IInv, pc = "return", before.use # None, before.use # use,
                      NEW v \in used \cap before.used
               PROVE  FALSE
    BY DEF TweaksSeparate
  <2>1. use \in Uses /\ before.use \in Uses /\ Typed
    BY DEF IInv, Typed, Calling
  <2>2. Upper(use) = Upper(before.use)
    BY DEF IInv, Tweaked, Calling
  <2>3. PICK p \in Uses, q \in Uses : p = use /\ q = before.use
    BY <2>1
  <2>4. Upper(p) = Upper(q)
    BY <2>2, <2>3
  <2>5. p = q
    BY <2>1, <2>4, UpperDiffers
  <2> QED
    BY <2>3, <2>5
<1> QED
  BY <1>1, Invariance, PTL
=============================================================================
