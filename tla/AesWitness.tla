---------------------------- MODULE AesWitness ----------------------------
(***************************************************************************)
(* The extended witness of the AES circuit (aes_extend_witness, aes.c) and *)
(* the constraints that are proved about it (faest_aes.c.in), for the real *)
(* numbers of the six kinds of instances.                                  *)
(*                                                                         *)
(* One behaviour computes the one-way function and the witness, may alter  *)
(* one nibble of the witness, and evaluates all constraints.  Prover and   *)
(* verifier have functions of their own with the same loops and indices;   *)
(* the model evaluates the values that both commit to.                     *)
(*                                                                         *)
(* A byte is a linear combination of atoms with coefficients 1 and 2, as a *)
(* set of terms: unknown bytes, constants, and outputs of S-boxes, each    *)
(* named for its place in the circuit and defined by `arg`.  No byte is    *)
(* doubled twice, as S-boxes lie between.  An altered nibble is another    *)
(* unknown.  That S-box inputs may be zero, when the inverse norm is free, *)
(* is not distinguished.                                                   *)
(***************************************************************************)
EXTENDS Integers, Sequences, SequencesExt, TLC

CONSTANT Altered    \* which nibbles may be altered: those = 0 modulo Altered

ASSUME AlteredAssumption == Altered \in Nat \ {0}

Kinds == [lambda : {128, 192, 256}, em : BOOLEAN]

VARIABLES
  kind,      \* lambda, and whether the roles of key and input are exchanged
  rk,        \* bytes of the round keys
  w,         \* the witness, a sequence of nibbles
  arg,       \* inputs of the S-boxes
  out,       \* output blocks of the one-way function
  block, round, state,
  altered,   \* history: the position of the altered nibble
  y,         \* round keys that the prover derives from the witness
  iwd,       \* the index into the witness, in bits; later, into the round keys
  j,         \* byte index of the key constraints
  failed,    \* a constraint does not hold
  pc

vars == <<kind, rk, w, arg, out, block, round, state, altered, y, iwd, j, failed, pc>>

-----------------------------------------------------------------------------
(* The numbers of meson.build.                                             *)
Nst == IF kind.em THEN kind.lambda \div 32 ELSE 4
R   == CASE kind.lambda = 128 -> 10 [] kind.lambda = 192 -> 12 [] kind.lambda = 256 -> 14
Ske == CASE kind.em -> 0
         [] kind.lambda = 128 -> 40 [] kind.lambda = 192 -> 32 [] kind.lambda = 256 -> 52
Lke == CASE kind.em -> kind.lambda
         [] kind.lambda = 128 -> 448 [] kind.lambda = 192 -> 448 [] kind.lambda = 256 -> 672
Lenc == CASE kind.em /\ kind.lambda = 192 -> 1536
          [] kind.em /\ kind.lambda = 256 -> 2432
          [] kind.lambda = 128 -> 832
          [] kind.lambda = 192 -> 1024
          [] kind.lambda = 256 -> 1216
Ell == CASE kind.em /\ kind.lambda = 128 -> 960
         [] kind.em /\ kind.lambda = 192 -> 1728
         [] kind.em /\ kind.lambda = 256 -> 2688
         [] kind.lambda = 128 -> 1280
         [] kind.lambda = 192 -> 2496
         [] kind.lambda = 256 -> 3104

Nk == kind.lambda \div 32
Nstbits == 32 * Nst
Nstbytes == Nstbits \div 8
RconEvery == 4 * (kind.lambda \div 128)
IwdInc == IF kind.lambda = 192 THEN 192 ELSE 128

Beta == (kind.lambda + Nstbits - 1) \div Nstbits

-----------------------------------------------------------------------------
(* Bytes.                                                                  *)
Atom(name, a, b, c) == <<name, a, b, c>>
One(atom) == {<<1, atom>>}
Xor(a, b) == (a \ b) \cup (b \ a)
Double(a) == {<<2, t[2]>> : t \in a}

KeyByte(i)  == One(Atom("key", i, 0, 0))
InByte(i)   == One(Atom("in", i, 0, 0))
Rcon(i)     == One(Atom("rcon", i, 0, 0))
OneByte     == One(Atom("one", 0, 0, 0))

(* Sequences of bytes, indexed from 0 as in the program.                   *)
At(s, i) == s[i + 1]
Bytes(n, Byte(_)) == [x \in 1 .. n |-> Byte(x - 1)]
XorSeq(s, t) == [x \in DOMAIN s |-> Xor(s[x], t[x])]
From(s, i, n) == SubSeq(s, i + 1, i + n)

(* Nibbles.                                                                *)
BytesOut(s) == FlattenSeq([x \in DOMAIN s |-> <<<<"lo", s[x]>>, <<"hi", s[x]>>>>])
NormsOut(s) == [x \in DOMAIN s |-> <<"norm", s[x]>>]

(* A byte read at nibble p, which is another one if a half was altered.    *)
ByteIn(p) ==
  IF At(w, p)[1] = "lo" /\ At(w, p + 1) = <<"hi", At(w, p)[2]>>
  THEN At(w, p)[2] ELSE One(Atom("unknown", p, 0, 0))
BytesIn(bits, n) == Bytes(n, LAMBDA i : ByteIn(bits \div 4 + 2 * i))

(* S-boxes of the key schedule and of the rounds.                          *)
KeyBox(k, b) == Atom("key box", k, b, 0)
RoundBox(b, r, i) == Atom("box", b, r, i)

(* The output of a box for the input v.                                    *)
Image(box, v) == IF arg[box] = v THEN One(box) ELSE One(Atom("other", box, 0, 0))

(* Addition of round key r.                                                *)
RoundKey(keys, r) == From(keys, r * Nstbytes, Nstbytes)
AddRoundKey(s, keys, r) == XorSeq(s, RoundKey(keys, r))

(* shift_row of aes.c and its inverse, and those of faest_aes.c.in: the    *)
(* place that byte 4 c + r comes from.                                     *)
ShiftRow(s) ==
  LET Offset(r) == IF Nst = 8 THEN (CASE r = 0 -> 0 [] r = 1 -> 1 [] r = 2 -> 3 [] r = 3 -> 4)
                              ELSE r
      Source(x) == 4 * (((x \div 4) + Offset(x % 4)) % Nst) + (x % 4)
  IN Bytes(Nstbytes, LAMBDA x : At(s, Source(x)))

ExtraUniform(r) == 0
Extra(r) == IF Nst # 8 \/ r <= 1 THEN 0 ELSE 1

ShiftRows(s) ==
  LET Source(x) == 4 * (((x \div 4) + (x % 4) + Extra(x % 4)) % Nst) + (x % 4)
  IN Bytes(Nstbytes, LAMBDA x : At(s, Source(x)))
InverseShiftRows(s) ==
  LET Source(x) == 4 * (((x \div 4) + Nst - (x % 4) - Extra(x % 4)) % Nst) + (x % 4)
  IN Bytes(Nstbytes, LAMBDA x : At(s, Source(x)))

(* mix_column: 2 a + 3 b + c + d, rotated.                                 *)
MixColumn(s) ==
  LET In(c, r) == At(s, 4 * c + (r % 4))
      Mixed(c, r) == Xor(Xor(Double(In(c, r)), Xor(Double(In(c, r + 1)), In(c, r + 1))),
                         Xor(In(c, r + 2), In(c, r + 3)))
  IN Bytes(Nstbytes, LAMBDA x : Mixed(x \div 4, x % 4))

-----------------------------------------------------------------------------
(* The block cipher's key and input; block 1 has a bit of its input turned.*)
CipherKey == Bytes(kind.lambda \div 8, LAMBDA i : IF kind.em THEN InByte(i) ELSE KeyByte(i))
Input(b) ==
  LET in == Bytes(Nstbytes, LAMBDA i : IF kind.em THEN KeyByte(i) ELSE InByte(i))
  IN IF b = 0 THEN in ELSE [in EXCEPT ![1] = Xor(@, OneByte)]

Init ==
  /\ kind \in Kinds
  /\ rk = CipherKey
  /\ w = <<>> /\ arg = <<>> /\ out = <<>>
  /\ block = 0 /\ round = 0 /\ state = <<>>
  /\ altered = -1
  /\ y = <<>> /\ iwd = 0 /\ j = 0 /\ failed = FALSE
  /\ pc = "expand"

Word == Len(rk) \div 4      \* k of expand_key

Rotated(k) == k % Nk = 0
Substituted(k) == Rotated(k) \/ (Nk > 6 /\ k % Nk = 4)

(* expand_key, a word at a time.                                           *)
ExpandWord ==
  /\ pc = "expand" /\ Word < Nst * (R + 1)
  /\ LET k == Word
         Prev(b) == At(rk, 4 * (k - 1) + (IF Rotated(k) THEN (b + 1) % 4 ELSE b))
         Tmp(b) == IF Substituted(k) THEN One(KeyBox(k, b)) ELSE Prev(b)
         RoundConstant(b) == IF Rotated(k) /\ b = 0 THEN Rcon(k \div Nk - 1) ELSE {}
     IN /\ rk' = rk \o Bytes(4, LAMBDA b :
                         Xor(At(rk, 4 * (k - Nk) + b), Xor(Tmp(b), RoundConstant(b))))
        /\ arg' = IF Substituted(k)
                  THEN arg @@ [x \in {KeyBox(k, b) : b \in 0 .. 3} |-> Prev(x[3])]
                  ELSE arg
  /\ UNCHANGED <<kind, w, out, block, round, state, altered, y, iwd, j, failed, pc>>

(* The key, and every word that was substituted.                           *)
WitnessStep == IF kind.lambda = 192 THEN 6 ELSE 4

WriteKey ==
  /\ pc = "expand" /\ Word = Nst * (R + 1)
  /\ w' = IF kind.em
          THEN BytesOut(Input(0))
          ELSE LET W(k) == BytesOut(From(rk, 4 * k, 4))
               IN FlattenSeq([x \in 1 .. Nk |-> W(x - 1)])
                    \o FlattenSeq([x \in 1 .. Ske \div 4 |-> W(Nk + (x - 1) * WitnessStep)])
  /\ pc' = "encrypt"
  /\ UNCHANGED <<kind, rk, arg, out, block, round, state, altered, y, iwd, j, failed>>

StartBlock ==
  /\ pc = "encrypt" /\ block < Beta /\ round = 0
  /\ state' = AddRoundKey(Input(block), rk, 0)
  /\ round' = 1
  /\ UNCHANGED <<kind, rk, w, arg, out, block, altered, y, iwd, j, failed, pc>>

(* sub_bytes defines the boxes of the round.                               *)
SubBytes ==
  /\ arg' = arg @@ [x \in {RoundBox(block, round, i) : i \in 0 .. Nstbytes - 1} |-> At(state, x[4])]
Subbed == Bytes(Nstbytes, LAMBDA i : One(RoundBox(block, round, i)))

NormWritten(r) == r % 2 = 1
StatePart(r) == r % 2 = 0

EncryptRound ==
  /\ pc = "encrypt" /\ round \in 1 .. R - 1
  /\ SubBytes
  /\ w' = w \o (IF NormWritten(round) THEN NormsOut(state) ELSE <<>>)
            \o (IF StatePart(round) THEN BytesOut(ShiftRow(Subbed)) ELSE <<>>)
  /\ state' = AddRoundKey(MixColumn(ShiftRow(Subbed)), rk, round)
  /\ round' = round + 1
  /\ UNCHANGED <<kind, rk, out, block, altered, y, iwd, j, failed, pc>>

(* The last round is computed by the one-way function only.                *)
LastRound ==
  /\ pc = "encrypt" /\ round = R
  /\ SubBytes
  /\ LET c == AddRoundKey(ShiftRow(Subbed), rk, R)
     IN out' = Append(out, IF kind.em THEN XorSeq(c, Input(0)) ELSE c)
  /\ block' = block + 1 /\ round' = 0 /\ state' = <<>>
  /\ UNCHANGED <<kind, rk, w, altered, y, iwd, j, failed, pc>>

(* The witness goes to the prover as it is or with one nibble altered.     *)
Commit(p) ==
  /\ pc = "encrypt" /\ block = Beta
  /\ p = -1 \/ (p \in 0 .. Len(w) - 1 /\ p % Altered = 0)
  /\ altered' = p
  /\ w' = IF p = -1 THEN w ELSE [w EXCEPT ![p + 1] = <<"altered", {}>>]
  /\ block' = 0
  /\ pc' = "forward"
  /\ UNCHANGED <<kind, rk, arg, out, round, state, y, iwd, j, failed>>

-----------------------------------------------------------------------------
(* aes_keyexp_forward: the round keys from the witness.                    *)
StartForward ==
  /\ pc = "forward" /\ y = <<>>
  /\ IF kind.em
     THEN y' = rk /\ pc' = "constraints" /\ UNCHANGED iwd
     ELSE y' = BytesIn(0, kind.lambda \div 8) /\ iwd' = kind.lambda /\ UNCHANGED pc
  /\ UNCHANGED <<kind, rk, w, arg, out, block, round, state, altered, j, failed>>

Witnessed(k) == k % Nk = 0 \/ (Nk > 6 /\ k % Nk = 4)

ForwardWord ==
  /\ pc = "forward" /\ y # <<>> /\ Len(y) < 16 * (R + 1)
  /\ LET k == Len(y) \div 4 IN
       IF Witnessed(k)
       THEN y' = y \o BytesIn(iwd, 4) /\ iwd' = iwd + 32
       ELSE /\ y' = y \o XorSeq(From(y, 4 * (k - Nk), 4), From(y, 4 * (k - 1), 4))
            /\ UNCHANGED iwd
  /\ UNCHANGED <<kind, rk, w, arg, out, block, round, state, altered, j, failed, pc>>

EndForward ==
  /\ pc = "forward" /\ Len(y) = 16 * (R + 1)
  /\ iwd' = 32 * (Nk - 1) /\ j' = 0 /\ pc' = "key constraints"
  /\ UNCHANGED <<kind, rk, w, arg, out, block, round, state, altered, y, failed>>

(* aes_keyexp_backward: the output of the S-box for byte i of the words in *)
(* the witness; first is its own index into the round keys.                *)
Backward(i) ==
  LET first == (i \div 4) * IwdInc
      x == Xor(ByteIn((kind.lambda \div 4) + 2 * i), At(y, (first + (i % 4) * 8) \div 8))
  IN IF i % RconEvery = 0 THEN Xor(x, Rcon(i \div RconEvery)) ELSE x

RPrime(r) == IF kind.lambda = 256 /\ j % 8 # 0 THEN r ELSE (r + 1) % 4

(* The word of byte j; iwd stands at the word in front of it.              *)
KeyConstraints ==
  /\ pc = "key constraints" /\ j < Ske
  /\ LET Holds(r) ==
           LET box == KeyBox(iwd \div 32 + 1, r) IN
             box \in DOMAIN arg /\ Backward(j + r) = Image(box, At(y, (iwd + 8 * RPrime(r)) \div 8))
     IN failed' = (failed \/ \E r \in 0 .. 3 : ~Holds(r))
  /\ j' = j + 4 /\ iwd' = iwd + IwdInc
  /\ UNCHANGED <<kind, rk, w, arg, out, block, round, state, altered, y, pc>>

EndKeyConstraints ==
  /\ pc = "key constraints" /\ j >= Ske
  /\ pc' = "constraints"
  /\ UNCHANGED <<kind, rk, w, arg, out, block, round, state, altered, y, iwd, j, failed>>

-----------------------------------------------------------------------------
(* aes_enc_constraints, two rounds at a time; round is its r.              *)
BlockStart == Lke + block * Lenc

ProverInput == IF kind.em THEN BytesIn(0, Nstbytes) ELSE Input(block)
ProverOutput == IF kind.em THEN XorSeq(out[1], BytesIn(0, Nstbytes)) ELSE out[block + 1]

StartConstraints ==
  /\ pc = "constraints" /\ block < Beta /\ round = 0 /\ state = <<>>
  /\ state' = AddRoundKey(ProverInput, y, 0)
  /\ UNCHANGED <<kind, rk, w, arg, out, block, round, altered, y, iwd, j, failed, pc>>

(* Norms: the value lies in half a byte, its tags are counted in bits.     *)
NormNibble(r, i) == 2 * ((((3 * Nstbits * r) \div 2) + 4 * i) \div 8) + (i % 2)
NormTags(r, i) == (((3 * Nstbits * r) \div 2) + 4 * i) \div 4

NormUnchecked(r, i) == TRUE
NormHolds(r, i) ==
  /\ NormNibble(r, i) = NormTags(r, i)
  /\ At(w, BlockStart \div 4 + NormNibble(r, i)) = <<"norm", At(state, i)>>

Committed(r) == BytesIn(BlockStart + Nstbits \div 2 + (Nstbits \div 2) * 3 * r, Nstbytes)

TwoRounds ==
  /\ pc = "constraints" /\ state # <<>> /\ round < R \div 2
  /\ LET r == round
         first == Bytes(Nstbytes, LAMBDA i : Image(RoundBox(block, 2 * r + 1, i), At(state, i)))
         st == AddRoundKey(MixColumn(ShiftRows(first)), y, 2 * r + 1)
         last == r = R \div 2 - 1
         tilde == IF last THEN AddRoundKey(ProverOutput, y, R) ELSE Committed(r)
         s == InverseShiftRows(tilde)
         BoxHolds(i) == At(s, i) = Image(RoundBox(block, 2 * r + 2, i), At(st, i))
     IN /\ failed' = (failed \/ \E i \in 0 .. Nstbytes - 1 : ~NormHolds(r, i) \/ ~BoxHolds(i))
        /\ state' = IF last THEN state ELSE AddRoundKey(MixColumn(tilde), y, 2 * r + 2)
  /\ round' = round + 1
  /\ UNCHANGED <<kind, rk, w, arg, out, block, altered, y, iwd, j, pc>>

EndBlock ==
  /\ pc = "constraints" /\ round = R \div 2
  /\ block' = block + 1 /\ round' = 0 /\ state' = <<>>
  /\ pc' = IF block + 1 = Beta THEN "done" ELSE "constraints"
  /\ UNCHANGED <<kind, rk, w, arg, out, altered, y, iwd, j, failed>>

Next ==
  \/ ExpandWord \/ WriteKey
  \/ StartBlock \/ EncryptRound \/ LastRound
  \/ \E p \in -1 .. Len(w) - 1 : Commit(p)
  \/ StartForward \/ ForwardWord \/ EndForward
  \/ KeyConstraints \/ EndKeyConstraints
  \/ StartConstraints \/ TwoRounds \/ EndBlock

Spec == Init /\ [][Next]_vars

-----------------------------------------------------------------------------
(* The witness that aes_extend_witness wrote has the length the parameter  *)
(* set allocates for it, which only assertions compare (aes.c:988, 1055),  *)
(* and satisfies every constraint: prover and verifier look for each value *)
(* where it was written, with the same shifts, mixing and round keys       *)
(* (aes.c:919-1056, faest_aes.c.in:1069-1142, 1205-1401).                  *)
HonestSatisfies ==
  altered = -1 =>
    /\ ~failed
    /\ pc \notin {"expand", "encrypt"} => 4 * Len(w) = Ell

(* Each nibble of the witness is bound by a constraint: altered, it makes  *)
(* one fail (faest_aes.c.in:1085-1140, 1236-1396).                         *)
AlteredCaught == pc = "done" /\ altered # -1 => failed
=============================================================================
