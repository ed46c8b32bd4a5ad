--------------------------- MODULE CryptoSignProofs ---------------------------
(***************************************************************************)
(* Theorems about crypto_sign and crypto_sign_open for every memory, every *)
(* size of a signature and every placement of the buffers.                 *)
(***************************************************************************)
EXTENDS CryptoSign, TLAPS

(* The n values from address a of memory f on.                             *)
Read(f, a, n) == [x \in 1 .. n |-> f[a + x - 1]]

(* memmove has moved the first kk cells, in its order, of the n from       *)
(* `from' in bb to `to': the places still to be read hold what they held.  *)
MovedPart(to, from, n, kk) == IF to <= from THEN 0 .. kk - 1 ELSE n - kk .. n - 1
Moved(to, from, n, kk, bb, mm) ==
  mm = [a \in Addresses |-> IF a - to \in MovedPart(to, from, n, kk) THEN bb[from + (a - to)]
                                                                   ELSE bb[a]]

(* f is a memory.                                                          *)
IsMemory(f) == f = [a \in Addresses |-> f[a]]

(* The memory f holds the signed message.                                  *)
Sealed(f) ==
  /\ \A x \in 1 .. mlen : f[sm + x - 1] = given[x]
  /\ \A x \in 0 .. Size - 1 : f[sm + mlen + x] = <<"s", x, given>>

Placed ==
  /\ mlen \in Nat /\ m \in Nat /\ sm \in Nat
  /\ m + mlen <= Cells /\ sm + mlen + Size <= Cells
  /\ pc \in {"open", "move out", "opened"} => out \in Nat /\ out + mlen <= Cells
  /\ pc \in {"sign", "move in", "signed", "unsigned", "open", "move out", "opened"}
  /\ IsMemory(mem)
  /\ given = [x \in 1 .. mlen |-> given[x]]
  /\ \A x \in 1 .. mlen : given[x] \in {<<"v", y>> : y \in Values}

Signing ==
  /\ pc \in {"sign", "move in"} => given = Read(before, m, mlen)
  /\ pc \in {"sign", "move in", "signed"} => outlen = None /\ ~damaged /\ ret # "rejected"
  /\ pc = "sign" => mem = before /\ smlen = None
  /\ pc = "move in" => /\ smlen = mlen + Size /\ k \in 0 .. mlen
                       /\ Moved(sm, m, mlen, k, before, mem)
  /\ pc = "signed" => /\ smlen = mlen + Size /\ Sealed(mem)
                      /\ \A a \in Addresses \ (sm .. sm + smlen - 1) : mem[a] = before[a]
  /\ pc = "unsigned" => /\ outlen = None /\ smlen = mlen + Size
                        /\ Moved(sm, m, mlen, mlen, before, mem)

Opening ==
  /\ pc = "open" => /\ mem = before /\ outlen = None /\ ret = "pending"
                    /\ damaged => ~ Accepted
                    /\ ~ damaged => smlen = mlen + Size /\ Sealed(mem)
  /\ pc = "move out" => /\ ~ damaged /\ outlen = mlen /\ ret = "pending"
                        /\ k \in 0 .. mlen /\ Sealed(before)
                        /\ Moved(out, sm, mlen, k, before, mem)
  /\ pc = "opened" /\ damaged => ret = "rejected" /\ outlen = None /\ mem = before
  /\ pc = "opened" /\ ~ damaged => /\ ret = "ok" /\ outlen = mlen /\ Sealed(before)
                                   /\ Moved(out, sm, mlen, mlen, before, mem)

IInv == Placed /\ Signing /\ Opening

-----------------------------------------------------------------------------
(* memmove: nothing is moved before the first step, ...                    *)
LEMMA MoveStarts ==
  ASSUME NEW to \in Int, NEW from \in Int, NEW n \in Nat, NEW f, IsMemory(f)
  PROVE  Moved(to, from, n, 0, f, f)
<1>1. \A a \in Addresses : a \in Int
  BY DEF Addresses
<1>2. \A a \in Addresses : a - to \notin MovedPart(to, from, n, 0)
  BY <1>1 DEF MovedPart
<1> QED
  BY <1>2 DEF Moved, IsMemory

(* ... each step moves one cell, which no earlier step has overwritten,    *)
(* however the two places overlap, ...                                     *)
LEMMA MoveStep ==
  ASSUME NEW to \in Nat, NEW from \in Nat, NEW n \in Nat, NEW kk \in 0 .. n - 1,
         NEW bb, NEW mm, NEW x, NEW new, Cells \in Nat,
         to + n <= Cells, from + n <= Cells,
         Moved(to, from, n, kk, bb, mm),
         x = IF to <= from THEN kk ELSE n - 1 - kk,
         new = [mm EXCEPT ![to + x] = mm[from + x]]
  PROVE  Moved(to, from, n, kk + 1, bb, new)
<1>1. x \in 0 .. n - 1 /\ to + x \in Addresses /\ from + x \in Addresses
  BY DEF Addresses
<1>2. from + x - to \notin MovedPart(to, from, n, kk)
  BY DEF MovedPart
<1>3. mm[from + x] = bb[from + x]
  BY <1>1, <1>2 DEF Moved
<1>4. \A a \in Addresses : a - to \in MovedPart(to, from, n, kk + 1) <=>
                             a - to \in MovedPart(to, from, n, kk) \/ a = to + x
  <2> SUFFICES ASSUME NEW a \in Addresses
        PROVE  a - to \in MovedPart(to, from, n, kk + 1) <=>
                 a - to \in MovedPart(to, from, n, kk) \/ a = to + x
    OBVIOUS
  <2>1. a \in Int
    BY DEF Addresses
  <2>2. CASE to <= from
    BY <2>1, <2>2 DEF MovedPart
  <2>3. CASE ~ (to <= from)
    BY <2>1, <2>3 DEF MovedPart
  <2> QED
    BY <2>2, <2>3
<1>5. from + (to + x - to) = from + x
  BY <1>1
<1>6. new = [a \in Addresses |-> IF a = to + x THEN bb[from + x] ELSE mm[a]]
  BY <1>1, <1>3 DEF Moved
<1>7. \A a \in Addresses : mm[a] = IF a - to \in MovedPart(to, from, n, kk)
                                   THEN bb[from + (a - to)] ELSE bb[a]
  BY DEF Moved
<1>8. ASSUME NEW a \in Addresses
      PROVE  (IF a = to + x THEN bb[from + x] ELSE mm[a]) =
               IF a - to \in MovedPart(to, from, n, kk + 1) THEN bb[from + (a - to)] ELSE bb[a]
  <2>1. CASE a = to + x
    BY <1>4, <1>5, <2>1
  <2>2. CASE a # to + x
    BY <1>4, <1>7, <2>2
  <2> QED
    BY <2>1, <2>2
<1> QED
  BY <1>6, <1>8 DEF Moved

(* ... and at the end all of it is there.                                  *)
LEMMA MoveEnds ==
  ASSUME NEW to \in Nat, NEW from \in Nat, NEW n \in Nat, NEW bb, NEW mm, Cells \in Nat,
         to + n <= Cells,
         Moved(to, from, n, n, bb, mm)
  PROVE  \A x \in 1 .. n : mm[to + x - 1] = bb[from + x - 1]
<1> SUFFICES ASSUME NEW x \in 1 .. n PROVE mm[to + x - 1] = bb[from + x - 1]
  OBVIOUS
<1>1. MovedPart(to, from, n, n) = 0 .. n - 1
  BY DEF MovedPart
<1>2. PICK a \in Addresses : a = to + x - 1
  BY DEF Addresses
<1>3. a - to \in 0 .. n - 1 /\ from + (a - to) = from + x - 1
  BY <1>2
<1>4. mm[a] = bb[from + (a - to)]
  BY <1>1, <1>3 DEF Moved
<1> QED
  BY <1>2, <1>3, <1>4

(* While it moves, nothing outside the target has changed.                 *)
LEMMA MoveWithin ==
  ASSUME NEW to \in Nat, NEW from \in Nat, NEW n \in Nat, NEW kk \in 0 .. n, NEW bb, NEW mm,
         Moved(to, from, n, kk, bb, mm)
  PROVE  \A a \in Addresses \ (to .. to + n - 1) : mm[a] = bb[a]
<1> SUFFICES ASSUME NEW a \in Addresses, a \notin to .. to + n - 1 PROVE mm[a] = bb[a]
  OBVIOUS
<1>1. a \in Int
  BY DEF Addresses
<1>2. a - to \notin MovedPart(to, from, n, kk)
  BY <1>1 DEF MovedPart
<1> QED
  BY <1>2 DEF Moved

LEMMA ReadFacts ==
  ASSUME NEW f, NEW a \in Int, NEW n \in Int
  PROVE  /\ Read(f, a, n) = [x \in 1 .. n |-> Read(f, a, n)[x]]
         /\ \A x \in 1 .. n : Read(f, a, n)[x] = f[a + x - 1]
BY DEF Read

LEMMA AtIsRead == \A a, n : At(a, n) = Read(mem, a, n)
BY DEF At, Read

-----------------------------------------------------------------------------
(* faest_verify at work: the condition of Verifies for any memory.         *)
VerifiesIn(f, a, n) == \A x \in 0 .. Size - 1 : f[a + n + x] = <<"s", x, Read(f, a, n)>>

LEMMA AcceptedIs ==
  ASSUME smlen \in Int
  PROVE  Accepted <=> smlen >= Size /\ VerifiesIn(mem, sm, smlen - Size)
BY AtIsRead, SizeAssumption DEF Accepted, TooShort, Verifies, VerifiesIn, MessageLength

(* The message in sealed memory is the one that was given.                 *)
LEMMA SealedReads ==
  ASSUME Placed, NEW f, Sealed(f)
  PROVE  Read(f, sm, mlen) = given
<1>1. \A x \in 1 .. mlen : Read(f, sm, mlen)[x] = given[x]
  BY DEF Sealed, Read
<1>2. PICK g : g = Read(f, sm, mlen) /\ g = [x \in 1 .. mlen |-> g[x]]
  BY DEF Read
<1> QED
  BY <1>1, <1>2 DEF Placed

LEMMA SealedVerifies ==
  ASSUME Placed, NEW f, Sealed(f)
  PROVE  VerifiesIn(f, sm, mlen)
BY SealedReads DEF VerifiesIn, Sealed

(* A signature of no cells does not exist, so its first cell decides: a    *)
(* message cut short is followed by a cell that is none of a signature ... *)
LEMMA CutFails ==
  ASSUME Placed, NEW f, Sealed(f), NEW n \in 0 .. mlen - 1
  PROVE  ~ VerifiesIn(f, sm, n)
<1>1. 0 \in 0 .. Size - 1
  BY SizeAssumption
<1>2. n + 1 \in 1 .. mlen /\ sm + (n + 1) - 1 = sm + n + 0
  <2>1. mlen \in Nat /\ sm \in Nat
    BY DEF Placed
  <2> QED
    BY <2>1
<1>3. f[sm + n + 0] = given[n + 1] /\ given[n + 1] \in {<<"v", y>> : y \in Values}
  BY <1>2 DEF Placed, Sealed
<1>4. \A y, t : <<"v", y>> # <<"s", 0, t>>
  OBVIOUS
<1>5. f[sm + n + 0] # <<"s", 0, Read(f, sm, n)>>
  BY <1>3, <1>4
<1> QED
  BY <1>1, <1>5 DEF VerifiesIn

(* ... and a changed cell is one of the message, for which the signature   *)
(* was not made, or one of the signature, which it no longer is.           *)
LEMMA ChangeFails ==
  ASSUME Placed, NEW f, Sealed(f), NEW a \in sm .. sm + mlen + Size - 1, NEW y \in Values,
         f[a] # <<"v", y>>, NEW g, g = [f EXCEPT ![a] = <<"v", y>>], IsMemory(f)
  PROVE  ~ VerifiesIn(g, sm, mlen)
<1>0. Size \in Nat \ {0} /\ Cells \in Nat /\ mlen \in Nat /\ sm \in Nat /\ sm + mlen + Size <= Cells
  BY SizeAssumption DEF Placed
<1>1. a \in Addresses /\ g[a] = <<"v", y>> /\ \A b \in Addresses : b # a => g[b] = f[b]
  BY <1>0 DEF Addresses, IsMemory
<1>2. CASE a >= sm + mlen
  <2>1. PICK x \in 0 .. Size - 1 : x = a - (sm + mlen) /\ sm + mlen + x = a
    BY <1>0, <1>2
  <2>2. \A t : <<"v", y>> # <<"s", x, t>>
    OBVIOUS
  <2>3. g[sm + mlen + x] # <<"s", x, Read(g, sm, mlen)>>
    BY <1>1, <2>1, <2>2
  <2> QED
    BY <2>3 DEF VerifiesIn
<1>3. CASE a < sm + mlen
  <2>1. PICK z \in 1 .. mlen : z = a - sm + 1 /\ sm + z - 1 = a
    BY <1>0, <1>3
  <2>2. Read(g, sm, mlen)[z] = <<"v", y>> /\ given[z] # <<"v", y>>
    BY <1>1, <2>1 DEF Read, Sealed
  <2>3. Read(g, sm, mlen) # given
    BY <2>2
  <2>4. PICK b \in Addresses : b = sm + mlen + 0 /\ b # a
    BY <1>0, <1>3 DEF Addresses
  <2>5. 0 \in 0 .. Size - 1
    BY <1>0
  <2>6. g[b] = <<"s", 0, given>>
    BY <1>1, <2>4, <2>5 DEF Sealed
  <2>7. \A t : t # given => <<"s", 0, given>> # <<"s", 0, t>>
    OBVIOUS
  <2>8. g[sm + mlen + 0] # <<"s", 0, Read(g, sm, mlen)>>
    BY <2>3, <2>4, <2>6, <2>7
  <2> QED
    BY <2>5, <2>8 DEF VerifiesIn
<1> QED
  BY <1>0, <1>2, <1>3

-----------------------------------------------------------------------------
(* IInv holds at the start and after every step.                           *)
LEMMA PlacedFacts ==
  Placed => /\ Cells \in Nat /\ Size \in Nat \ {0}
            /\ mlen \in Nat /\ m \in Nat /\ sm \in Nat
            /\ m + mlen <= Cells /\ sm + mlen <= Cells /\ sm + mlen + Size <= Cells
            /\ IsMemory(mem)
<1> SUFFICES ASSUME Placed
             PROVE  /\ Cells \in Nat /\ Size \in Nat \ {0}
                    /\ mlen \in Nat /\ m \in Nat /\ sm \in Nat
                    /\ m + mlen <= Cells /\ sm + mlen <= Cells /\ sm + mlen + Size <= Cells
                    /\ IsMemory(mem)
  OBVIOUS
<1>1. /\ Cells \in Nat /\ Size \in Nat \ {0} /\ mlen \in Nat /\ m \in Nat /\ sm \in Nat
      /\ m + mlen <= Cells /\ sm + mlen + Size <= Cells /\ IsMemory(mem)
  BY SizeAssumption DEF Placed
<1>2. sm + mlen <= Cells
  BY <1>1
<1> QED
  BY <1>1, <1>2

LEMMA InitIInv == Init => IInv
<1> SUFFICES ASSUME Init PROVE IInv
  OBVIOUS
<1> USE SizeAssumption
<1>1. /\ mlen \in Nat /\ m \in Nat /\ sm \in Nat
      /\ m + mlen <= Cells /\ sm + mlen + Size <= Cells
      /\ pc = "sign" /\ outlen = None /\ damaged = FALSE /\ ret = "pending" /\ smlen = None
      /\ mem = before /\ mem \in [Addresses -> {<<"v", y>> : y \in Values}]
  BY DEF Init
<1>2. given = Read(mem, m, mlen)
  BY AtIsRead DEF Init
<1>3. \A x \in 1 .. mlen : given[x] \in {<<"v", y>> : y \in Values}
  <2> SUFFICES ASSUME NEW x \in 1 .. mlen PROVE given[x] \in {<<"v", y>> : y \in Values}
    OBVIOUS
  <2>1. m + x - 1 \in Addresses
    BY <1>1 DEF Addresses
  <2>2. given[x] = mem[m + x - 1]
    BY <1>2 DEF Read
  <2> QED
    BY <1>1, <2>1, <2>2
<1>4. given = [x \in 1 .. mlen |-> given[x]]
  BY <1>2 DEF Read
<1>5. Placed
  BY <1>1, <1>3, <1>4 DEF Placed, IsMemory
<1>6. Signing /\ Opening
  BY <1>1, <1>2 DEF Signing, Opening
<1> QED
  BY <1>5, <1>6 DEF IInv

LEMMA StartSignIInv == IInv /\ StartSign => IInv'
<1> SUFFICES ASSUME IInv, StartSign PROVE IInv'
  OBVIOUS
<1>1. /\ pc = "sign" /\ pc' = "move in" /\ smlen' = mlen + Size /\ k' = 0
      /\ UNCHANGED <<mem, m, mlen, sm, out, outlen, given, before, damaged, ret>>
  BY DEF StartSign
<1>2. Placed'
  BY <1>1 DEF IInv, Placed, IsMemory
<1>3. Moved(sm, m, mlen, 0, before, mem)
  <2>1. mem = before /\ IsMemory(mem)
        /\ sm \in Int /\ m \in Int /\ mlen \in Nat
    <3>1. mem = before
      BY <1>1 DEF IInv, Signing
    <3> QED
      BY <3>1, PlacedFacts DEF IInv
  <2>2. PICK f : f = mem
    OBVIOUS
  <2>3. IsMemory(f)
    BY <2>1, <2>2
  <2>4. Moved(sm, m, mlen, 0, f, f)
    BY <2>1, <2>3, MoveStarts
  <2> QED
    BY <2>1, <2>2, <2>4
<1>4. Signing'
  <2>1. 0 \in 0 .. mlen
    BY PlacedFacts DEF IInv
  <2>2. given = Read(before, m, mlen) /\ outlen = None /\ ~ damaged /\ ret # "rejected"
    BY <1>1 DEF IInv, Signing
  <2> QED
    BY <1>1, <1>3, <2>1, <2>2 DEF Signing
<1>5. Opening'
  BY <1>1 DEF Opening
<1> QED
  BY <1>2, <1>4, <1>5 DEF IInv

LEMMA MoveInIInv == IInv /\ MoveIn => IInv'
<1> SUFFICES ASSUME IInv, MoveIn PROVE IInv'
  OBVIOUS
<1>1. /\ pc = "move in" /\ pc' = "move in" /\ k' = k + 1 /\ k < mlen
      /\ UNCHANGED <<m, mlen, sm, smlen, out, outlen, given, before, damaged, ret>>
  BY DEF MoveIn
<1>2. /\ mlen \in Nat /\ sm \in Nat /\ m \in Nat /\ Cells \in Nat
      /\ sm + mlen <= Cells /\ m + mlen <= Cells
  BY PlacedFacts DEF IInv
<1>3. /\ k \in 0 .. mlen - 1 /\ k + 1 \in 0 .. mlen /\ smlen = mlen + Size
      /\ Moved(sm, m, mlen, k, before, mem)
  <2>1. k \in 0 .. mlen /\ smlen = mlen + Size /\ Moved(sm, m, mlen, k, before, mem)
    BY <1>1 DEF IInv, Signing
  <2>2. PICK n \in Nat : n = mlen
    BY <1>2
  <2>3. k \in 0 .. n /\ k < n
    BY <1>1, <2>1, <2>2
  <2>4. k \in 0 .. n - 1 /\ k + 1 \in 0 .. n
    BY <2>3
  <2> QED
    BY <2>1, <2>2, <2>4
<1>4. Moved(sm, m, mlen, k + 1, before, mem')
  <2>1. PICK x : /\ x = IF sm <= m THEN k ELSE mlen - 1 - k
                 /\ mem' = [mem EXCEPT ![sm + x] = mem[m + x]]
    <3> DEFINE x == IF sm <= m THEN k ELSE mlen - 1 - k
    <3>1. mem' = [mem EXCEPT ![sm + x] = mem[m + x]]
      BY DEF MoveIn, MoveCell, NextCell
    <3> HIDE DEF x
    <3> QED
      BY <3>1 DEF x
  <2>2. PICK to \in Nat : to = sm
    BY <1>2
  <2>3. PICK from \in Nat : from = m
    BY <1>2
  <2>4. PICK n \in Nat : n = mlen
    BY <1>2
  <2>5. PICK kk \in 0 .. n - 1 : kk = k
    BY <1>3, <2>4
  <2>6. PICK bb : bb = before
    OBVIOUS
  <2>7. PICK mm : mm = mem
    OBVIOUS
  <2>8. PICK new : new = mem'
    OBVIOUS
  <2>9. Moved(to, from, n, kk + 1, bb, new)
    BY <1>2, <1>3, <2>1, <2>2, <2>3, <2>4, <2>5, <2>6, <2>7, <2>8, MoveStep
  <2> QED
    BY <2>2, <2>3, <2>4, <2>5, <2>6, <2>8, <2>9
<1>5. Placed'
  <2>1. IsMemory(mem')
    BY <1>4 DEF Moved, IsMemory
  <2> QED
    BY <1>1, <2>1 DEF IInv, Placed, IsMemory
<1>6. Signing'
  BY <1>1, <1>3, <1>4 DEF IInv, Signing
<1>7. Opening'
  BY <1>1 DEF Opening
<1> QED
  BY <1>5, <1>6, <1>7 DEF IInv

(* The signature is made for the message in its new place, which is the    *)
(* one that was given.                                                     *)
LEMMA SealIInv == IInv /\ Seal => IInv'
<1> SUFFICES ASSUME IInv, Seal PROVE IInv'
  OBVIOUS
<1>1. /\ pc = "move in" /\ pc' = "signed" /\ k = mlen /\ ret' = "ok"
      /\ UNCHANGED <<m, mlen, sm, smlen, out, outlen, k, given, before, damaged>>
  BY DEF Seal
<1>2. /\ mlen \in Nat /\ sm \in Nat /\ m \in Nat /\ Cells \in Nat /\ Size \in Nat \ {0}
      /\ sm + mlen + Size <= Cells /\ sm + mlen <= Cells /\ m + mlen <= Cells
  BY PlacedFacts DEF IInv
<1>3. smlen = mlen + Size /\ Moved(sm, m, mlen, mlen, before, mem) /\ given = Read(before, m, mlen)
  BY <1>1 DEF IInv, Signing
<1>4. /\ \A x \in 1 .. mlen : mem[sm + x - 1] = before[m + x - 1]
      /\ \A a \in Addresses \ (sm .. sm + mlen - 1) : mem[a] = before[a]
  <2>1. PICK bb : bb = before
    OBVIOUS
  <2>2. PICK mm : mm = mem
    OBVIOUS
  <2>3. PICK to \in Nat : to = sm
    BY <1>2
  <2>4. PICK from \in Nat : from = m
    BY <1>2
  <2>5. PICK n \in Nat : n = mlen
    BY <1>2
  <2>6. Moved(to, from, n, n, bb, mm) /\ to + n <= Cells /\ from + n <= Cells /\ Cells \in Nat
    BY <1>2, <1>3, <2>1, <2>2, <2>3, <2>4, <2>5
  <2>7. \A x \in 1 .. n : mm[to + x - 1] = bb[from + x - 1]
    BY <2>6, MoveEnds
  <2>8. \A a \in Addresses \ (to .. to + n - 1) : mm[a] = bb[a]
    <3>1. PICK kk \in 0 .. n : kk = n
      OBVIOUS
    <3>2. Moved(to, from, n, kk, bb, mm)
      BY <2>6, <3>1
    <3> QED
      BY <3>2, MoveWithin
  <2> QED
    BY <2>1, <2>2, <2>3, <2>4, <2>5, <2>7, <2>8
<1>5. \A x \in 1 .. mlen : mem[sm + x - 1] = given[x]
  BY <1>3, <1>4 DEF Read
<1>6. Read(mem, sm, mlen) = given
  <2>1. Read(mem, sm, mlen) = [x \in 1 .. mlen |-> given[x]]
    BY <1>5 DEF Read
  <2> QED
    BY <2>1 DEF IInv, Placed
<1>7. mem' = [a \in Addresses |-> IF a \in sm + mlen .. sm + mlen + Size - 1
                                  THEN <<"s", a - (sm + mlen), given>> ELSE mem[a]]
  BY <1>6, AtIsRead DEF Seal, SignaturePlace
<1>8. Sealed(mem')
  <2>1. ASSUME NEW x \in 1 .. mlen PROVE mem'[sm + x - 1] = given[x]
    <3>1. PICK a \in Addresses : a = sm + x - 1 /\ a \notin sm + mlen .. sm + mlen + Size - 1
      BY <1>2 DEF Addresses
    <3> QED
      BY <1>5, <1>7, <3>1
  <2>2. ASSUME NEW x \in 0 .. Size - 1 PROVE mem'[sm + mlen + x] = <<"s", x, given>>
    <3>1. PICK a \in Addresses : a = sm + mlen + x /\ a \in sm + mlen .. sm + mlen + Size - 1
                                 /\ a - (sm + mlen) = x
      BY <1>2 DEF Addresses
    <3> QED
      BY <1>7, <3>1
  <2> QED
    BY <2>1, <2>2 DEF Sealed
<1>9. \A a \in Addresses \ (sm .. sm + smlen - 1) : mem'[a] = before[a]
  <2> SUFFICES ASSUME NEW a \in Addresses, a \notin sm .. sm + smlen - 1 PROVE mem'[a] = before[a]
    OBVIOUS
  <2>1. a \notin sm .. sm + mlen - 1 /\ a \notin sm + mlen .. sm + mlen + Size - 1
    BY <1>2, <1>3 DEF Addresses
  <2> QED
    BY <1>4, <1>7, <2>1
<1>10. Placed'
  <2>1. IsMemory(mem')
    BY <1>7 DEF IsMemory
  <2> QED
    BY <1>1, <2>1 DEF IInv, Placed, IsMemory
<1>11. Signing'
  <2>1. Sealed(mem)'
    BY <1>1, <1>8 DEF Sealed
  <2> QED
    BY <1>1, <1>3, <1>9, <2>1 DEF IInv, Signing
<1>12. Opening'
  BY <1>1 DEF Opening
<1> QED
  BY <1>10, <1>11, <1>12 DEF IInv

LEMMA SealFailsIInv == IInv /\ SealFails => IInv'
<1> SUFFICES ASSUME IInv, SealFails PROVE IInv'
  OBVIOUS
<1>1. /\ pc = "move in" /\ pc' = "unsigned" /\ k = mlen
      /\ UNCHANGED <<mem, m, mlen, sm, smlen, out, outlen, k, given, before, damaged>>
  BY DEF SealFails
<1>2. /\ outlen = None /\ smlen = mlen + Size /\ Moved(sm, m, mlen, mlen, before, mem)
  BY <1>1 DEF IInv, Signing
<1>3. Placed' /\ Opening'
  BY <1>1 DEF IInv, Placed, Opening, IsMemory
<1>4. Signing'
  BY <1>1, <1>2 DEF Signing
<1> QED
  BY <1>3, <1>4 DEF IInv

LEMMA SumFacts ==
  ASSUME NEW n \in Nat, NEW s, s = n + Size
  PROVE  /\ s - Size = n
         /\ 0 .. s - 1 = 0 .. n + Size - 1
<1>1. Size \in Nat
  BY SizeAssumption
<1> QED
  BY <1>1

(* Whatever is delivered, it opens only if it is what was sealed.          *)
LEMMA DeliverIInv == ASSUME IInv, NEW o \in 0 .. Cells - mlen, Deliver(o) PROVE IInv'
<1>1. /\ pc = "signed" /\ pc' = "open" /\ out' = o /\ before' = mem' /\ ret' = "pending"
      /\ UNCHANGED <<m, mlen, sm, outlen, k, given>>
  BY DEF Deliver
<1>2. /\ Cells \in Nat /\ Size \in Nat \ {0} /\ mlen \in Nat /\ sm \in Nat
      /\ sm + mlen + Size <= Cells /\ IsMemory(mem)
  BY PlacedFacts DEF IInv
<1>3. smlen = mlen + Size /\ Sealed(mem) /\ outlen = None /\ ~ damaged
  BY <1>1 DEF IInv, Signing
<1>4. PICK f : f = mem /\ Sealed(f) /\ IsMemory(f)
  BY <1>2, <1>3
<1>5. PICK n \in Nat : n = mlen
  BY <1>2
<1>6. IsMemory(mem')
  <2>1. CASE mem' = mem
    BY <1>2, <2>1 DEF IsMemory
  <2>2. CASE \E a \in sm .. sm + smlen - 1, x \in Values : mem' = [mem EXCEPT ![a] = <<"v", x>>]
    <3>1. PICK a, x : mem' = [f EXCEPT ![a] = <<"v", x>>]
      BY <1>4, <2>2
    <3> QED
      BY <1>4, <3>1 DEF IsMemory
  <2> QED
    BY <2>1, <2>2 DEF Deliver
<1>7. Placed'
  <2>1. o \in Nat /\ o + n <= Cells
    BY <1>2, <1>5
  <2> QED
    BY <1>1, <1>5, <1>6, <2>1 DEF IInv, Placed
<1>8. Signing'
  BY <1>1 DEF Signing
<1>9. /\ damaged' => ~ Accepted'
      /\ ~ damaged' => smlen' = mlen + Size /\ mem' = mem
  <2>1. CASE UNCHANGED <<mem, smlen, damaged>>
    BY <1>3, <2>1
  <2>2. CASE (\E l \in 0 .. smlen - 1 : smlen' = l) /\ damaged' = TRUE /\ UNCHANGED mem
    <3>1. PICK l \in 0 .. n + Size - 1 : smlen' = l
      <4>1. smlen = n + Size
        BY <1>3, <1>5
      <4>2. PICK s : s = smlen
        OBVIOUS
      <4>3. PICK l \in 0 .. s - 1 : smlen' = l
        BY <2>2, <4>2
      <4>4. s = n + Size
        BY <4>1, <4>2
      <4>5. l \in 0 .. n + Size - 1
        <5>1. 0 .. s - 1 = 0 .. n + Size - 1
          BY <4>4, SumFacts
        <5> QED
          BY <5>1
      <4> QED
        BY <4>3, <4>5
    <3>2. Accepted' <=> l >= Size /\ VerifiesIn(mem', sm', l - Size)
      <4>1. smlen' \in Int
        BY <1>2, <1>5, <3>1
      <4>2. Accepted' <=> smlen' >= Size /\ VerifiesIn(mem', sm', smlen' - Size)
        <5>1. smlen \in Int => (Accepted <=> smlen >= Size /\ VerifiesIn(mem, sm, smlen - Size))
          BY AcceptedIs
        <5>2. (smlen \in Int => (Accepted <=> smlen >= Size /\ VerifiesIn(mem, sm, smlen - Size)))'
          BY <5>1, AcceptedIs, PTL
        <5> QED
          BY <4>1, <5>2
      <4> QED
        BY <3>1, <4>2
    <3>3. l >= Size => ~ VerifiesIn(f, sm, l - Size)
      <4> SUFFICES ASSUME l >= Size PROVE ~ VerifiesIn(f, sm, l - Size)
        OBVIOUS
      <4>1. PICK w \in 0 .. mlen - 1 : w = l - Size
        BY <1>2, <1>5
      <4>2. ~ VerifiesIn(f, sm, w)
        BY <1>4, CutFails DEF IInv
      <4> QED
        BY <4>1, <4>2
    <3> QED
      BY <1>1, <1>4, <2>2, <3>2, <3>3
  <2>3. CASE /\ \E a \in sm .. sm + smlen - 1, x \in Values :
                  mem[a] # <<"v", x>> /\ mem' = [mem EXCEPT ![a] = <<"v", x>>]
             /\ damaged' = TRUE /\ UNCHANGED smlen
    <3>1. PICK a \in sm .. sm + mlen + Size - 1, y \in Values :
            f[a] # <<"v", y>> /\ mem' = [f EXCEPT ![a] = <<"v", y>>]
      <4>1. sm + smlen - 1 = sm + mlen + Size - 1
        BY <1>2, <1>3
      <4> QED
        BY <1>4, <2>3, <4>1
    <3>2. PICK g : g = mem' /\ g = [f EXCEPT ![a] = <<"v", y>>]
      BY <3>1
    <3>3. ~ VerifiesIn(g, sm, mlen)
      BY <1>4, <3>1, <3>2, ChangeFails DEF IInv
    <3>4. smlen' = n + Size /\ n + Size \in Int /\ n + Size - Size = n
      <4>1. smlen' = n + Size
        BY <1>3, <1>5, <2>3
      <4>2. n + Size \in Int /\ n + Size - Size = n
        BY <1>2
      <4> QED
        BY <4>1, <4>2
    <3>5. Accepted' <=> smlen' >= Size /\ VerifiesIn(mem', sm', smlen' - Size)
      <4>1. (smlen \in Int => (Accepted <=> smlen >= Size /\ VerifiesIn(mem, sm, smlen - Size)))'
        BY AcceptedIs, PTL
      <4> QED
        BY <3>4, <4>1
    <3>6. VerifiesIn(mem', sm', smlen' - Size) <=> VerifiesIn(g, sm, mlen)
      <4>1. smlen' - Size = mlen
        <5>1. PICK s : s = smlen' /\ s = n + Size
          BY <3>4
        <5>2. s - Size = n
          BY <5>1, SumFacts
        <5> QED
          BY <1>5, <5>1, <5>2
      <4>2. mem' = g /\ sm' = sm
        BY <1>1, <3>2
      <4> QED
        BY <4>1, <4>2
    <3>7. ~ Accepted'
      BY <3>3, <3>5, <3>6
    <3> QED
      BY <2>3, <3>7
  <2> QED
    BY <2>1, <2>2, <2>3 DEF Deliver
<1>10. Opening'
  <2>1. ~ damaged' => Sealed(mem)'
    BY <1>1, <1>3, <1>9 DEF Sealed
  <2> QED
    BY <1>1, <1>3, <1>9, <2>1 DEF Opening
<1> QED
  BY <1>7, <1>8, <1>10 DEF IInv

(* What was sealed and arrived unchanged is accepted.                      *)
LEMMA OpenFacts ==
  ASSUME IInv, pc = "open"
  PROVE  Accepted <=> ~ damaged
<1>1. ASSUME ~ damaged PROVE Accepted
  <2>1. smlen = mlen + Size /\ Sealed(mem)
    BY <1>1 DEF IInv, Opening
  <2>2. Size \in Nat /\ mlen \in Nat
    BY PlacedFacts DEF IInv
  <2>3. smlen \in Int /\ smlen >= Size /\ smlen - Size = mlen
    BY <2>1, <2>2
  <2>4. PICK f : f = mem /\ Sealed(f)
    BY <2>1
  <2>5. VerifiesIn(f, sm, mlen)
    BY <2>4, SealedVerifies DEF IInv
  <2> QED
    BY <2>3, <2>4, <2>5, AcceptedIs
<1> QED
  BY <1>1 DEF IInv, Opening

LEMMA RejectOpenIInv == IInv /\ RejectOpen => IInv'
<1> SUFFICES ASSUME IInv, RejectOpen PROVE IInv'
  OBVIOUS
<1>1. /\ pc = "open" /\ pc' = "opened" /\ ret' = "rejected" /\ ~ Accepted
      /\ UNCHANGED <<mem, m, mlen, sm, smlen, out, outlen, k, given, before, damaged>>
  BY DEF RejectOpen
<1>2. damaged /\ mem = before /\ outlen = None
  BY <1>1, OpenFacts DEF IInv, Opening
<1>3. Placed' /\ Signing'
  BY <1>1 DEF IInv, Placed, Signing, IsMemory
<1>4. Opening'
  BY <1>1, <1>2 DEF Opening
<1> QED
  BY <1>3, <1>4 DEF IInv

LEMMA AcceptOpenIInv == IInv /\ AcceptOpen => IInv'
<1> SUFFICES ASSUME IInv, AcceptOpen PROVE IInv'
  OBVIOUS
<1>1. /\ pc = "open" /\ pc' = "move out" /\ Accepted /\ outlen' = smlen - Size /\ k' = 0
      /\ UNCHANGED <<mem, m, mlen, sm, smlen, out, given, before, damaged, ret>>
  BY DEF AcceptOpen, MessageLength
<1>2. ~ damaged /\ mem = before /\ ret = "pending" /\ smlen = mlen + Size /\ Sealed(mem)
  BY <1>1, OpenFacts DEF IInv, Opening
<1>3. mlen \in Nat /\ sm \in Int /\ Size \in Nat /\ IsMemory(mem)
  BY PlacedFacts DEF IInv
<1>4. outlen' = mlen /\ 0 \in 0 .. mlen
  <2>1. PICK n \in Nat : n = mlen
    BY <1>3
  <2>2. smlen = n + Size /\ outlen' = smlen - Size
    BY <1>1, <1>2, <2>1
  <2>3. PICK s : s = smlen /\ s = n + Size
    BY <2>2
  <2>4. s - Size = n /\ 0 \in 0 .. n
    BY <1>3, <2>3
  <2> QED
    BY <2>1, <2>2, <2>3, <2>4
<1>5. out \in Nat
  BY <1>1 DEF IInv, Placed
<1>6. Moved(out, sm, mlen, 0, before, mem)
  <2>1. PICK f : f = mem
    OBVIOUS
  <2>2. IsMemory(f)
    BY <1>3, <2>1
  <2>3. PICK to \in Int : to = out
    BY <1>5
  <2>4. PICK from \in Int : from = sm
    BY <1>3
  <2>5. PICK n \in Nat : n = mlen
    BY <1>3
  <2>6. Moved(to, from, n, 0, f, f)
    BY <2>2, MoveStarts
  <2> QED
    BY <1>2, <2>1, <2>3, <2>4, <2>5, <2>6
<1>7. Placed' /\ Signing'
  BY <1>1 DEF IInv, Placed, Signing, IsMemory
<1>8. Opening'
  <2>1. Sealed(before)'
    BY <1>1, <1>2 DEF Sealed
  <2> QED
    BY <1>1, <1>2, <1>4, <1>6, <2>1 DEF Opening
<1> QED
  BY <1>7, <1>8 DEF IInv

LEMMA MoveOutIInv == IInv /\ MoveOut => IInv'
<1> SUFFICES ASSUME IInv, MoveOut PROVE IInv'
  OBVIOUS
<1>1. /\ pc = "move out" /\ pc' = "move out" /\ k' = k + 1 /\ k < outlen
      /\ UNCHANGED <<m, mlen, sm, smlen, out, outlen, given, before, damaged, ret>>
  BY DEF MoveOut
<1>2. /\ ~ damaged /\ outlen = mlen /\ ret = "pending" /\ k \in 0 .. mlen /\ Sealed(before)
      /\ Moved(out, sm, mlen, k, before, mem)
  BY <1>1 DEF IInv, Opening
<1>3. mlen \in Nat /\ sm \in Nat /\ Cells \in Nat /\ sm + mlen <= Cells
  BY PlacedFacts DEF IInv
<1>4. out \in Nat /\ out + mlen <= Cells
  BY <1>1 DEF IInv, Placed
<1>5. PICK n \in Nat : n = mlen
  BY <1>3
<1>6. PICK kk \in 0 .. n - 1 : kk = k /\ kk + 1 \in 0 .. n
  <2>1. k \in 0 .. n /\ k < n
    BY <1>1, <1>2, <1>5
  <2> QED
    BY <2>1
<1>7. Moved(out, sm, mlen, k + 1, before, mem')
  <2>1. PICK x : /\ x = IF out <= sm THEN kk ELSE n - 1 - kk
                 /\ mem' = [mem EXCEPT ![out + x] = mem[sm + x]]
    <3> DEFINE x == IF out <= sm THEN k ELSE outlen - 1 - k
    <3>1. mem' = [mem EXCEPT ![out + x] = mem[sm + x]]
      BY DEF MoveOut, MoveCell, NextCell
    <3>2. x = IF out <= sm THEN kk ELSE n - 1 - kk
      BY <1>2, <1>5, <1>6
    <3> HIDE DEF x
    <3> QED
      BY <3>1, <3>2
  <2>2. PICK to \in Nat : to = out
    BY <1>4
  <2>3. PICK from \in Nat : from = sm
    BY <1>3
  <2>4. PICK bb : bb = before
    OBVIOUS
  <2>5. PICK mm : mm = mem
    OBVIOUS
  <2>6. PICK new : new = mem'
    OBVIOUS
  <2>7. Moved(to, from, n, kk + 1, bb, new)
    BY <1>2, <1>3, <1>4, <1>5, <1>6, <2>1, <2>2, <2>3, <2>4, <2>5, <2>6, MoveStep
  <2> QED
    BY <1>5, <1>6, <2>2, <2>3, <2>4, <2>6, <2>7
<1>8. Placed'
  <2>1. IsMemory(mem')
    BY <1>7 DEF Moved, IsMemory
  <2> QED
    BY <1>1, <2>1 DEF IInv, Placed, IsMemory
<1>9. Signing'
  BY <1>1 DEF Signing
<1>10. Opening'
  <2>1. Sealed(before)'
    BY <1>1, <1>2 DEF Sealed
  <2> QED
    BY <1>1, <1>2, <1>5, <1>6, <1>7, <2>1 DEF Opening
<1> QED
  BY <1>8, <1>9, <1>10 DEF IInv

LEMMA OpenedIInv == IInv /\ Opened => IInv'
<1> SUFFICES ASSUME IInv, Opened PROVE IInv'
  OBVIOUS
<1>1. /\ pc = "move out" /\ pc' = "opened" /\ k = outlen /\ ret' = "ok"
      /\ UNCHANGED <<mem, m, mlen, sm, smlen, out, outlen, k, given, before, damaged>>
  BY DEF Opened
<1>2. /\ ~ damaged /\ outlen = mlen /\ Sealed(before) /\ Moved(out, sm, mlen, mlen, before, mem)
  BY <1>1 DEF IInv, Opening
<1>3. Placed' /\ Signing'
  BY <1>1 DEF IInv, Placed, Signing, IsMemory
<1>4. Opening'
  <2>1. Sealed(before)'
    BY <1>1, <1>2 DEF Sealed
  <2> QED
    BY <1>1, <1>2, <2>1 DEF Opening
<1> QED
  BY <1>3, <1>4 DEF IInv

LEMMA StutterIInv == IInv /\ UNCHANGED vars => IInv'
<1> SUFFICES ASSUME IInv, UNCHANGED vars PROVE IInv'
  OBVIOUS
<1> USE DEF vars
<1>1. Placed' /\ Signing'
  BY DEF IInv, Placed, Signing, Sealed, IsMemory
<1>2. Accepted' <=> Accepted
  BY DEF Accepted, TooShort, Verifies, MessageLength, At
<1>3. Opening'
  BY <1>2 DEF IInv, Opening, Sealed
<1> QED
  BY <1>1, <1>3 DEF IInv

LEMMA Invariance == Spec => []IInv
<1>1. IInv /\ [Next]_vars => IInv'
  BY StartSignIInv, MoveInIInv, SealIInv, SealFailsIInv, DeliverIInv, RejectOpenIInv, AcceptOpenIInv, MoveOutIInv,
     OpenedIInv, StutterIInv DEF Next
<1> QED
  BY <1>1, InitIInv, PTL DEF Spec

-----------------------------------------------------------------------------
(* crypto_sign_open gives back the message that was signed, wherever the   *)
(* buffers lie, and nothing that was changed (crypto_sign.c.in:26, 37-44). *)
THEOREM OpensToWhatWasSigned == Spec => []OpensToMessage
<1>1. IInv => OpensToMessage
  <2> SUFFICES ASSUME IInv, pc = "opened", ret = "ok"
               PROVE  ~ damaged /\ outlen = mlen /\ At(out, outlen) = given
    BY DEF OpensToMessage
  <2>1. ~ damaged /\ outlen = mlen /\ Sealed(before) /\ Moved(out, sm, mlen, mlen, before, mem)
    BY DEF IInv, Opening
  <2>2. Cells \in Nat /\ mlen \in Nat /\ sm \in Nat /\ sm + mlen <= Cells
    BY PlacedFacts DEF IInv
  <2>3. PICK to \in Nat : to = out /\ to + mlen <= Cells
    BY DEF IInv, Placed
  <2>4. PICK from \in Nat : from = sm
    BY <2>2
  <2>5. PICK n \in Nat : n = mlen
    BY <2>2
  <2>6. PICK bb : bb = before
    OBVIOUS
  <2>7. PICK mm : mm = mem
    OBVIOUS
  <2>8. \A x \in 1 .. n : mm[to + x - 1] = bb[from + x - 1]
    BY <2>1, <2>2, <2>3, <2>4, <2>5, <2>6, <2>7, MoveEnds
  <2>9. \A x \in 1 .. n : mem[out + x - 1] = given[x]
    BY <2>1, <2>3, <2>4, <2>5, <2>6, <2>7, <2>8 DEF Sealed
  <2>10. At(out, outlen) = [x \in 1 .. mlen |-> given[x]]
    BY <2>1, <2>5, <2>9 DEF At
  <2> QED
    BY <2>1, <2>10 DEF IInv, Placed
<1> QED
  BY <1>1, Invariance, PTL

(* A signed message that arrives as it was made opens                      *)
(* (crypto_sign.c.in:23-30, 38-39).                                        *)
THEOREM IntactIsOpened == Spec => []IntactOpens
<1>1. IInv => IntactOpens
  BY DEF IInv, Opening, IntactOpens
<1> QED
  BY <1>1, Invariance, PTL

(* A length is not None; the message lies within the signed message.       *)
LEMMA NotNone == ASSUME NEW n \in Nat PROVE n \in 0 .. n /\ n # None
BY DEF None

LEMMA Within ==
  ASSUME NEW a \in Nat, NEW n \in Nat, NEW l, Size \in Nat, l = n + Size
  PROVE  a .. a + n - 1 \subseteq a .. a + l - 1 /\ l # None
BY DEF None

(* Neither function writes a cell outside its result, and an opening that  *)
(* fails writes none (crypto_sign.c.in:25-29, 34-44).                      *)
THEOREM WritesOnlyItsResult == Spec => []OtherCellsUntouched
<1>1. IInv => OtherCellsUntouched
  <2> SUFFICES ASSUME IInv PROVE OtherCellsUntouched
    OBVIOUS
  <2>0. /\ Cells \in Nat /\ Size \in Nat \ {0} /\ mlen \in Nat /\ m \in Nat /\ sm \in Nat
        /\ pc \in {"sign", "move in", "signed", "unsigned", "open", "move out", "opened"}
    BY PlacedFacts DEF IInv, Placed
  <2>1. CASE pc = "sign"
    BY <2>1 DEF IInv, Signing, OtherCellsUntouched
  <2>2. CASE pc \in {"move in", "unsigned"}
    <3>1. PICK moved \in 0 .. mlen : /\ smlen = mlen + Size
                                     /\ Moved(sm, m, mlen, moved, before, mem)
                                     /\ outlen = None
      <4>1. CASE pc = "move in"
        BY <4>1 DEF IInv, Signing
      <4>2. CASE pc = "unsigned"
        <5>1. mlen \in 0 .. mlen
          BY <2>0, NotNone
        <5> QED
          BY <4>2, <5>1 DEF IInv, Signing
      <4> QED
        BY <2>2, <4>1, <4>2
    <3>2. PICK bb : bb = before
      OBVIOUS
    <3>3. PICK mm : mm = mem
      OBVIOUS
    <3>4. \A a \in Addresses \ (sm .. sm + mlen - 1) : mm[a] = bb[a]
      <4>1. PICK to \in Nat : to = sm
        BY <2>0
      <4>2. PICK from \in Nat : from = m
        BY <2>0
      <4>3. PICK n \in Nat : n = mlen
        BY <2>0
      <4>4. PICK kk \in 0 .. n : kk = moved
        BY <3>1, <4>3
      <4>5. Moved(to, from, n, kk, bb, mm)
        BY <3>1, <3>2, <3>3, <4>1, <4>2, <4>3, <4>4
      <4>6. \A a \in Addresses \ (to .. to + n - 1) : mm[a] = bb[a]
        BY <4>5, MoveWithin
      <4> QED
        BY <4>1, <4>3, <4>6
    <3>5. sm .. sm + mlen - 1 \subseteq sm .. sm + smlen - 1 /\ smlen # None
      BY <2>0, <3>1, Within
    <3> QED
      BY <2>2, <3>1, <3>2, <3>3, <3>4, <3>5 DEF OtherCellsUntouched
  <2>3. CASE pc = "signed"
    <3>1. /\ smlen = mlen + Size /\ outlen = None
          /\ \A a \in Addresses \ (sm .. sm + smlen - 1) : mem[a] = before[a]
      BY <2>3 DEF IInv, Signing
    <3>2. smlen # None
      BY <2>0, <3>1, Within
    <3> QED
      BY <2>3, <3>1, <3>2 DEF OtherCellsUntouched
  <2>4. CASE pc = "open"
    BY <2>4 DEF IInv, Opening, OtherCellsUntouched
  <2>5. CASE pc \in {"move out", "opened"} /\ outlen = mlen
    <3>0. mlen \in 0 .. mlen /\ outlen # None
      BY <2>0, <2>5, NotNone
    <3>1. PICK kk \in 0 .. mlen : Moved(out, sm, mlen, kk, before, mem) /\ ret # "rejected"
      <4>1. CASE pc = "move out"
        BY <4>1 DEF IInv, Opening
      <4>2. CASE pc = "opened" /\ ~ damaged
        BY <3>0, <4>2 DEF IInv, Opening
      <4>3. ~ (pc = "opened" /\ damaged)
        BY <3>0 DEF IInv, Opening
      <4> QED
        BY <2>5, <4>1, <4>2, <4>3
    <3>2. PICK bb : bb = before
      OBVIOUS
    <3>3. PICK mm : mm = mem
      OBVIOUS
    <3>4. PICK to \in Nat : to = out
      BY <2>5 DEF IInv, Placed
    <3>5. \A a \in Addresses \ (to .. to + mlen - 1) : mm[a] = bb[a]
      <4>1. PICK from \in Nat : from = sm
        BY <2>0
      <4>2. PICK n \in Nat : n = mlen
        BY <2>0
      <4>3. kk \in 0 .. n /\ Moved(to, from, n, kk, bb, mm)
        BY <3>1, <3>2, <3>3, <3>4, <4>1, <4>2
      <4>4. \A a \in Addresses \ (to .. to + n - 1) : mm[a] = bb[a]
        BY <4>3, MoveWithin
      <4> QED
        BY <4>2, <4>4
    <3> QED
      BY <2>5, <3>0, <3>1, <3>2, <3>3, <3>4, <3>5 DEF OtherCellsUntouched
  <2>6. CASE pc = "opened" /\ damaged
    BY <2>6 DEF IInv, Opening, OtherCellsUntouched
  <2>7. pc \in {"move out", "opened"} => outlen = mlen \/ (pc = "opened" /\ damaged)
    BY DEF IInv, Opening
  <2> QED
    BY <2>0, <2>1, <2>2, <2>3, <2>4, <2>5, <2>6, <2>7
<1> QED
  BY <1>1, Invariance, PTL
=============================================================================
