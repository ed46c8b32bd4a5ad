------------------------------ MODULE Challenge ------------------------------
(***************************************************************************)
(* What is done with one candidate for chall_3: check_challenge_3          *)
(* (faest_impl.c) tests the grinding bits byte by byte, and then           *)
(* decode_all_chall_3 (utils.c) splits the other bits into leaf indices.   *)
(* faest_sign does both for every counter it tries; faest_verify does the  *)
(* same to the challenge it received.                                      *)
(***************************************************************************)
EXTENDS ChallengeBits, Sequences

CONSTANT ByteBits   \* bits of a byte (8)

ASSUME ByteAssumption ==
  /\ ByteBits \in Nat \ {0}
  /\ Lambda % ByteBits = 0
  /\ K <= 2 * ByteBits      \* MAX_DEPTH bits fit tmp[2]

VARIABLES
  chall,     \* the candidate
  pc,        \* "start" -> "check" -> "vector" -> "bit" -> ... -> "decoded", or "rejected"
  bytes,     \* index of the byte loop
  res,       \* whether res has a bit set
  i, j,      \* indices of the loops over vectors and bits
  tmp,       \* the two bytes the current index is collected in
  decoded    \* decoded_chall[0 .. i-1]

vars == <<chall, pc, bytes, res, i, j, tmp, decoded>>

Init ==
  /\ chall \in [0 .. Lambda - 1 -> Bit]
  /\ pc = "start"
  /\ bytes = 0 /\ res = FALSE
  /\ i = 0 /\ j = 0
  /\ tmp = [x \in 0 .. 2 * ByteBits - 1 |-> 0]
  /\ decoded = <<>>

Start == Lambda - WGrind

(* chall_3[b] >> shift is not zero.                                        *)
ByteSet(b, shift) == \E x \in shift .. ByteBits - 1 : chall[b * ByteBits + x] = 1

(* The byte the loop starts with, after the one that Start splits; for     *)
(* comparison, the split byte itself.                                      *)
FirstWholeByteEarly == Start \div ByteBits
FirstWholeByte == (Start + ByteBits - 1) \div ByteBits

StartCheck ==
  /\ pc = "start"
  /\ res' = (Start % ByteBits # 0 /\ ByteSet(Start \div ByteBits, Start % ByteBits))
  /\ bytes' = FirstWholeByte
  /\ pc' = "check"
  /\ UNCHANGED <<chall, i, j, tmp, decoded>>

CheckByte ==
  /\ pc = "check" /\ bytes # Lambda \div ByteBits
  /\ res' = (res \/ ByteSet(bytes, 0))
  /\ bytes' = bytes + 1
  /\ UNCHANGED <<chall, pc, i, j, tmp, decoded>>

EndCheck ==
  /\ pc = "check" /\ bytes = Lambda \div ByteBits
  /\ pc' = IF res THEN "rejected" ELSE "vector"
  /\ UNCHANGED <<chall, bytes, res, i, j, tmp, decoded>>

(* decode_chall_3 is called with a fresh tmp.                              *)
StartVector ==
  /\ pc = "vector" /\ i # Tau
  /\ tmp' = [x \in 0 .. 2 * ByteBits - 1 |-> 0]
  /\ j' = Lo(i)
  /\ pc' = "bit"
  /\ UNCHANGED <<chall, bytes, res, i, decoded>>

DecodeBit ==
  /\ pc = "bit" /\ j < Hi(i)
  /\ tmp' = [tmp EXCEPT ![j - Lo(i)] = chall[j]]
  /\ j' = j + 1
  /\ UNCHANGED <<chall, pc, bytes, res, i, decoded>>

EndVector ==
  /\ pc = "bit" /\ j >= Hi(i)
  /\ decoded' = Append(decoded, NumRec(tmp, 2 * ByteBits))
  /\ i' = i + 1
  /\ pc' = "vector"
  /\ UNCHANGED <<chall, bytes, res, j, tmp>>

EndDecoding ==
  /\ pc = "vector" /\ i = Tau
  /\ pc' = "decoded"
  /\ UNCHANGED <<chall, bytes, res, i, j, tmp, decoded>>

Next == \/ StartCheck \/ CheckByte \/ EndCheck
        \/ StartVector \/ DecodeBit \/ EndVector \/ EndDecoding

Spec == Init /\ [][Next]_vars

-----------------------------------------------------------------------------
TypeOK ==
  /\ chall \in [0 .. Lambda - 1 -> Bit]
  /\ pc \in {"start", "check", "vector", "bit", "decoded", "rejected"}
  /\ bytes \in 0 .. Lambda \div ByteBits
  /\ res \in BOOLEAN
  /\ i \in 0 .. Tau
  /\ j \in 0 .. Start
  /\ tmp \in [0 .. 2 * ByteBits - 1 -> Bit]
  /\ Len(decoded) = i

(* The byte-wise check is exact although w_grind is not a multiple of 8:   *)
(* it rejects a candidate if and only if one of its upper w_grind bits is  *)
(* set, and never looks at a bit that belongs to a leaf index.             *)
GrindExact ==
  LET clear == \A x \in Start .. Lambda - 1 : chall[x] = 0
  IN  /\ pc = "rejected" => ~ clear
      /\ pc \in {"vector", "bit", "decoded"} => clear

(* The first column of vector v in the matrices V and q, as vole_commit    *)
(* and vole_reconstruct count their columns.                               *)
FirstColumn(v) ==
  LET idx[x \in 0 .. Tau] == IF x = 0 THEN 0 ELSE idx[x - 1] + Depth(x - 1) IN idx[v]

(* faest_verify corrects column c with bit c of chall_3, vole_reconstruct  *)
(* with a bit of i_delta: the two are the same bit, for every column, and  *)
(* the columns use up the bits below the grinding bits.  Every index is    *)
(* that of a leaf its vector has, as bavc_open and bavc_reconstruct assume *)
(* (utils.c:50-60, vole.c:80-100, faest_impl.c:495-505).                   *)
ColumnBitsAgree ==
  pc = "decoded" =>
    /\ FirstColumn(Tau) = Start
    /\ \A v \in Vectors : decoded[v + 1] \in 0 .. Leaves(v) - 1
    /\ \A v \in Vectors : \A d \in 0 .. Depth(v) - 1 :
         chall[FirstColumn(v) + d] = BitOf(decoded[v + 1], d)
=============================================================================
