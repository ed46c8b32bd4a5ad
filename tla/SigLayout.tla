------------------------------ MODULE SigLayout ------------------------------
(***************************************************************************)
(* Where the parts of a signature lie in the caller's buffer of sig_size   *)
(* bytes (the signature_* and dsignature_* helpers of faest_impl.c).  The  *)
(* parts up to decom_i are placed from the front, each after the one       *)
(* before; chall_3, iv_pre and ctr from the back.  No code compares the    *)
(* two: they meet only if sig_size of meson.build is right for tau, ell,   *)
(* lambda and T_open.                                                      *)
(*                                                                         *)
(* The signer writes each part with the length the writing function gives  *)
(* it; the verifier reads with its own copy of the helpers.                *)
(***************************************************************************)
EXTENDS ParamSets, FiniteSets, Sequences

VARIABLES
  name,     \* the parameter set
  done,     \* how many parts faest_sign has written
  written,  \* the regions written: part |-> [at, len]
  read      \* the regions faest_verify has read

vars == <<name, done, written, read>>

p == Param(name)
LambdaBytes == p.lambda \div 8
EllBytes    == p.ell \div 8
EllHatBytes == EllBytes + 3 * LambdaBytes + B
UTildeBytes == LambdaBytes + B

(* signature_c: correction index of the tau - 1.                           *)
SignatureC(index) == index * EllHatBytes

(* signature_u_tilde, ..., signature_ctr.                                  *)
Front == (p.tau - 1) * EllHatBytes
Position(part) ==
  CASE part = "c"       -> SignatureC(0)
    [] part = "u_tilde" -> Front
    [] part = "d"       -> Front + UTildeBytes
    [] part = "a1"      -> Front + UTildeBytes + EllBytes
    [] part = "a2"      -> Front + UTildeBytes + EllBytes + LambdaBytes
    [] part = "decom_i" -> Front + UTildeBytes + EllBytes + 2 * LambdaBytes
    [] part = "chall_3" -> p.sigSize - 4 - IvSize - LambdaBytes
    [] part = "iv_pre"  -> p.sigSize - 4 - IvSize
    [] part = "ctr"     -> p.sigSize - 4

(* The verifier's copy, dsignature_*.                                      *)
DPosition(part) ==
  CASE part = "c"       -> 0
    [] part = "u_tilde" -> (p.tau - 1) * EllHatBytes
    [] part = "d"       -> (p.tau - 1) * EllHatBytes + UTildeBytes
    [] part = "a1"      -> (p.tau - 1) * EllHatBytes + UTildeBytes + EllBytes
    [] part = "a2"      -> (p.tau - 1) * EllHatBytes + UTildeBytes + EllBytes + LambdaBytes
    [] part = "decom_i" -> (p.tau - 1) * EllHatBytes + UTildeBytes + EllBytes + 2 * LambdaBytes
    [] part = "chall_3" -> p.sigSize - 4 - IvSize - LambdaBytes
    [] part = "iv_pre"  -> p.sigSize - 4 - IvSize
    [] part = "ctr"     -> p.sigSize - 4

(* The bytes a leaf commitment takes in an opening (com_size of bavc_open  *)
(* and of bavc_reconstruct); for comparison, the same for all instances.   *)
ComSizeUniform == 3 * LambdaBytes
ComSize == (IF p.em THEN 2 ELSE 3) * LambdaBytes

(* The bytes each writing function writes: hash_r_iv, vole_commit (tau - 1 *)
(* corrections of ell_hat_bytes), vole_hash, xor_u8_array, aes_prove,      *)
(* hash_challenge_3_final, bavc_open up to decom_i_end, memcpy.            *)
Length(part) ==
  CASE part = "iv_pre"  -> IvSize
    [] part = "c"       -> (p.tau - 1) * ((p.ell + 3 * p.lambda + 8 * B + 7) \div 8)
    [] part = "u_tilde" -> UTildeBytes
    [] part = "d"       -> EllBytes
    [] part = "a1"      -> LambdaBytes
    [] part = "a2"      -> LambdaBytes
    [] part = "chall_3" -> LambdaBytes
    [] part = "decom_i" -> ComSize * p.tau + p.topen * LambdaBytes
    [] part = "ctr"     -> 4

(* The order faest_sign writes the parts in.                               *)
Order == <<"iv_pre", "c", "u_tilde", "d", "a1", "a2", "chall_3", "decom_i", "ctr">>
Parts == {Order[x] : x \in 1 .. Len(Order)}

(* The order faest_verify first reads them in.                             *)
ReadOrder == <<"chall_3", "iv_pre", "decom_i", "c", "u_tilde", "d", "a1", "a2", "ctr">>

Empty == [x \in {} |-> x]
Extend(f, x, y) == [z \in DOMAIN f \union {x} |-> IF z = x THEN y ELSE f[z]]

Init ==
  /\ name \in Names
  /\ done = 0
  /\ written = Empty
  /\ read = Empty

(* faest_sign writes its next part.                                        *)
WritePart ==
  /\ done < Len(Order)
  /\ LET part == Order[done + 1]
     IN  written' = Extend(written, part, [at |-> Position(part), len |-> Length(part)])
  /\ done' = done + 1
  /\ UNCHANGED <<name, read>>

(* faest_verify reads its next part of a finished signature.               *)
ReadPart ==
  /\ done = Len(Order) /\ Cardinality(DOMAIN read) < Len(ReadOrder)
  /\ LET part == ReadOrder[Cardinality(DOMAIN read) + 1]
     IN  read' = Extend(read, part, [at |-> DPosition(part), len |-> Length(part)])
  /\ UNCHANGED <<name, done, written>>

-----------------------------------------------------------------------------
Before(x, y) == x.at + x.len <= y.at
TotalWritten ==
  LET sum[x \in 0 .. Len(Order)] == IF x = 0 THEN 0 ELSE sum[x - 1] + written[Order[x]].len
  IN  sum[Len(Order)]
FillsSignature ==
  /\ \A x \in DOMAIN written :
       /\ written[x].at + written[x].len <= p.sigSize
       /\ \A y \in DOMAIN written \ {x} :
            Before(written[x], written[y]) \/ Before(written[y], written[x])
  /\ TotalWritten = p.sigSize
ReadsWhatWasWritten == \A x \in DOMAIN read : read[x] = written[x]

(* In a finished signature no part runs into another one or out of the     *)
(* buffer, and no byte is left over: the parts add up to sig_size, in any  *)
(* of the twelve sets.  The verifier, with helpers of his own, finds every *)
(* part where the signer left it (faest_impl.c:22-168, instances.c).       *)
PartsTile == (done = Len(Order) => FillsSignature) /\ ReadsWhatWasWritten
=============================================================================
