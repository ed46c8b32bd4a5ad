-------------------------------- MODULE Prg --------------------------------
(***************************************************************************)
(* prg, prg_2_lambda and prg_4_lambda (aes.c): AES in counter mode on an   *)
(* iv whose last word carries a tweak and whose first word counts.  The    *)
(* three functions exist as a loop over a block cipher (OpenSSL, Windows,  *)
(* or the portable one of aes.c) and, with AES-NI, as a loop of their own  *)
(* or unrolled for the lengths 2 lambda and 4 lambda.                      *)
(*                                                                         *)
(* Two calls are made with one key and iv, for the purposes that bavc.c    *)
(* and vole.c have.  A block is named by the words it encrypts and the     *)
(* number of rounds; the two words in the middle of the iv do not change.  *)
(***************************************************************************)
EXTENDS Integers, Sequences, SequencesExt, FiniteSets

CONSTANTS
  Half,      \* 2^31, scaled: TWEAK_OFFSET
  B,         \* IV_SIZE, the bytes of a block, scaled
  L, Tau,    \* leaves and vectors of the BAVC
  IvWords,   \* values of the iv's first and last word
  MaxLen     \* bound on outlen

Word == 2 * Half

ASSUME ScaleAssumption ==
  /\ B \in Nat /\ B % 2 = 0 /\ B > 0
  /\ L \in Nat \ {0} /\ Tau \in Nat /\ Half \in Nat /\ L - 1 + Tau <= Half
  /\ IvWords \subseteq 0 .. Word - 1
  /\ MaxLen \in Nat /\ MaxLen < Word * B /\ 8 <= Word

Levels == {128, 192, 256}
LambdaBytes(s) == (B * s) \div 128

(* What bavc.c and vole.c draw randomness for: the children of a node, the *)
(* leaf commitments of a vector, the expansion of a vector's seeds.        *)
BavcUses == {<<"node", a>> : a \in 0 .. L - 2} \cup {<<"leaf", i>> : i \in 0 .. Tau - 1}
VoleUses == {<<"vole", i>> : i \in 0 .. Tau - 1}
Uses == BavcUses \cup VoleUses

LeafTweakLow(i) == i + L - 2
LeafTweak(i) == i + L - 1

Tweak(use) ==
  CASE use[1] = "node" -> use[2]
    [] use[1] = "leaf" -> LeafTweak(use[2])
    [] use[1] = "vole" -> use[2] + Half      \* i ^ TWEAK_OFFSET

Calls(use) ==
  CASE use[1] = "node" -> {"prg_2_lambda"}
    [] use[1] = "leaf" -> {"prg_2_lambda", "prg_4_lambda"}   \* EM or not
    [] use[1] = "vole" -> {"prg"}

VARIABLES
  backend,    \* what the build and the processor offer
  seclvl,
  iv,         \* first and last word
  use, fn,    \* purpose of the call, function called
  outlen,
  ctr,        \* internal_iv
  out,        \* bytes written so far
  last,       \* the block that the portable cipher writes to
  blocks,     \* its argument, counted down
  label,      \* the case of its switch
  temp,       \* the counters of the unrolled variants
  used,       \* history: counter blocks encrypted in this call
  before,     \* history: purpose and counter blocks of the call before
  pc

vars == <<backend, seclvl, iv, use, fn, outlen, ctr, out,
          last, blocks, label, temp, used, before, pc>>

None == <<"none", 0>>

Init ==
  /\ backend \in {"library", "portable", "aesni"}
  /\ seclvl \in Levels
  /\ iv \in [low : IvWords, up : IvWords]
  /\ use = None /\ fn = "none" /\ outlen = 0
  /\ ctr = iv /\ out = <<>> /\ last = <<>>
  /\ blocks = 0 /\ label = 0 /\ temp = <<>>
  /\ used = {} /\ before = [use |-> None, used |-> {}]
  /\ pc = "idle"

-----------------------------------------------------------------------------
AddToUpperWord(v, t) == [v EXCEPT !.up = (@ + t) % Word]

Increment(v) == [v EXCEPT !.low = (@ + 1) % Word]

Rounds(s) == CASE s = 128 -> 10 [] s = 192 -> 12 [] s = 256 -> 14

(* The bytes of an encrypted block, and of blocks stored one by one.       *)
Encrypted(v, rounds) == [x \in 1 .. B |-> <<v.low, v.up, rounds, x>>]
Stored(bs) == [x \in 1 .. Len(bs) * B |-> bs[(x - 1) \div B + 1][((x - 1) % B) + 1]]

Wanted(f, n) ==
  CASE f = "prg" -> n
    [] f = "prg_2_lambda" -> 2 * LambdaBytes(seclvl)
    [] f = "prg_4_lambda" -> 4 * LambdaBytes(seclvl)

(* The number of blocks that the unrolled variants are written for.        *)
UnrolledRoundedDown(f, s) ==
  LET n == CASE s = 128 -> 2 [] s = 192 -> 2 [] s = 256 -> 4
  IN IF f = "prg_2_lambda" THEN n ELSE 2 * n
Unrolled(f, s) ==
  LET n == CASE s = 128 -> 2 [] s = 192 -> 3 [] s = 256 -> 4
  IN IF f = "prg_2_lambda" THEN n ELSE 2 * n

Call(p, f, n) ==
  /\ pc = "idle" /\ f \in Calls(p)
  /\ use' = p /\ fn' = f /\ outlen' = Wanted(f, n)
  /\ ctr' = AddToUpperWord(iv, Tweak(p))
  /\ out' = <<>> /\ used' = {} /\ temp' = <<>>
  /\ pc' = IF backend = "aesni" /\ f # "prg" THEN "fill" ELSE "loop"
  /\ UNCHANGED <<backend, seclvl, iv, last, blocks, label, before>>

Left == outlen - Len(out)

(* A whole block to out, or the last bytes through last_block.             *)
Take(block) == out' = out \o SubSeq(block, 1, IF Left < B THEN Left ELSE B)

Advance == ctr' = IF Left < B THEN ctr ELSE Increment(ctr)

EncryptNext ==
  /\ pc = "loop" /\ Left > 0 /\ backend # "portable"
  /\ Take(Encrypted(ctr, Rounds(seclvl))) /\ Advance
  /\ used' = used \cup {ctr}
  /\ UNCHANGED <<backend, seclvl, iv, use, fn, outlen, last, blocks, label, temp, before, pc>>

-----------------------------------------------------------------------------
(* The portable generic_aes_ecb_encrypt: no case of its switch ends with a *)
(* break, so control falls through the loops below.                        *)
StartEcb ==
  /\ pc = "loop" /\ Left > 0 /\ backend = "portable"
  /\ blocks' = 1 /\ label' = seclvl /\ last' = <<>>
  /\ used' = used \cup {ctr}
  /\ pc' = "ecb"
  /\ UNCHANGED <<backend, seclvl, iv, use, fn, outlen, ctr, out, temp, before>>

EcbLoop ==
  /\ pc = "ecb" /\ blocks > 0
  /\ last' = Encrypted(ctr, Rounds(label))
  /\ blocks' = blocks - 1
  /\ UNCHANGED <<backend, seclvl, iv, use, fn, outlen, ctr, out, label, temp, used, before, pc>>

FallThrough ==
  /\ pc = "ecb" /\ blocks = 0 /\ label # 128
  /\ label' = (IF label = 256 THEN 192 ELSE 128)
  /\ UNCHANGED <<backend, seclvl, iv, use, fn, outlen, ctr, out, last, blocks, temp, used, before, pc>>

EndEcb ==
  /\ pc = "ecb" /\ blocks = 0 /\ label = 128
  /\ Take(last) /\ Advance
  /\ pc' = "loop"
  /\ UNCHANGED <<backend, seclvl, iv, use, fn, outlen, last, blocks, label, temp, used, before>>

-----------------------------------------------------------------------------
(* The unrolled variants compute all counters first, then all blocks.      *)
FillCounter ==
  /\ pc = "fill" /\ Len(temp) < Unrolled(fn, seclvl)
  /\ temp' = Append(temp, IF temp = <<>> THEN ctr ELSE Increment(Last(temp)))
  /\ UNCHANGED <<backend, seclvl, iv, use, fn, outlen, ctr, out, last, blocks, label, used, before, pc>>

StoreBlocks ==
  /\ pc = "fill" /\ Len(temp) = Unrolled(fn, seclvl)
  /\ out' = Stored([x \in DOMAIN temp |-> Encrypted(temp[x], Rounds(seclvl))])
  /\ used' = ToSet(temp)
  /\ pc' = "return"
  /\ UNCHANGED <<backend, seclvl, iv, use, fn, outlen, ctr, last, blocks, label, temp, before>>

EndLoop ==
  /\ pc = "loop" /\ Left = 0
  /\ pc' = "return"
  /\ UNCHANGED <<backend, seclvl, iv, use, fn, outlen, ctr, out, last, blocks, label, temp, used, before>>

(* The second call is the last.                                            *)
Return ==
  /\ pc = "return" /\ before.use = None
  /\ before' = [use |-> use, used |-> used]
  /\ pc' = "idle"
  /\ UNCHANGED <<backend, seclvl, iv, use, fn, outlen, ctr, out, last, blocks, label, temp, used>>

Next ==
  \/ \E p \in Uses : \E f \in Calls(p) :
       \E n \in IF f = "prg" THEN 0 .. MaxLen ELSE {0} : Call(p, f, n)
  \/ EncryptNext
  \/ StartEcb \/ EcbLoop \/ FallThrough \/ EndEcb
  \/ FillCounter \/ StoreBlocks
  \/ EndLoop \/ Return

Spec == Init /\ [][Next]_vars /\ WF_vars(Next)

-----------------------------------------------------------------------------
(* Whichever variant ran, the output is the same: the first outlen bytes   *)
(* of the encrypted counters from the tweaked iv on, every block with the  *)
(* rounds of the security level, and not a byte more (aes.c:307-900,       *)
(* 1159-1189).                                                             *)
StreamIsCounter ==
  pc = "return" =>
    /\ Len(out) = outlen
    /\ \A x \in 1 .. outlen :
         out[x] = <<(iv.low + (x - 1) \div B) % Word, (iv.up + Tweak(use)) % Word,
                    Rounds(seclvl), ((x - 1) % B) + 1>>

(* Two purposes never encrypt the same counter under the same key, though  *)
(* both words wrap: a leaf's key that is also its seed commits and expands *)
(* to unrelated bytes (bavc.c:25-30, 44-76, vole.c:17, 38).                *)
TweaksSeparate ==
  pc = "return" /\ before.use # None /\ before.use # use => used \cap before.used = {}
=============================================================================
