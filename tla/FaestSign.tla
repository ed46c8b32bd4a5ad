------------------------------ MODULE FaestSign ------------------------------
(***************************************************************************)
(* faest_sign and faest_verify (faest_impl.c): the signer's chain of       *)
(* commitments and challenges, the grinding loop that tries counters until *)
(* the last challenge can be answered, and the verifier, which rebuilds    *)
(* the same chain from the other end.  Between the two the signature may   *)
(* be delivered intact or with one part altered.                           *)
(*                                                                         *)
(* Values are terms: a tuple of a tag and the values it was computed from. *)
(* So equal hashes mean equal inputs, and the linear algebra of VOLE and   *)
(* of the constraint proofs is given by what it restores (Recovered,       *)
(* VerifierA0), which the modules on bavc.c and vole.c justify.            *)
(***************************************************************************)
EXTENDS Integers, Sequences

CONSTANTS
  Deltas,     \* values of i_delta, as terms
  ZeroDelta,  \* the one with every bit zero
  Openable,   \* those bavc_open opens within T_open keys
  CtrMod,     \* the counter is a uint32_t, here modulo CtrMod
  Rho         \* the randomness the caller has for faest_sign, or NoRho

ASSUME SignAssumption ==
  /\ ZeroDelta \in Deltas
  /\ Openable \subseteq Deltas
  /\ CtrMod \in Nat \ {0}

Counters == 0 .. CtrMod - 1
Grinds == {<<"clear">>, <<"set">>}   \* the upper w_grind bits
Answers == {<<d, g>> : d \in Deltas, g \in Grinds}

Parts == {"iv_pre", "c", "u_tilde", "d", "a1", "a2", "chall_3", "decom_i", "ctr"}

VARIABLES
  oracle,   \* the answers of H2_3 to the signer's transcript, by counter
  pc,       \* where the signer, the delivery and the verifier are
  sig,      \* the signature buffer
  h2,       \* what the signer's or verifier's H2 context has absorbed
  ctr,      \* the signer's counter
  key,      \* the rootkey and iv of the signer
  given,    \* pk and message handed to the verifier
  changed,  \* what delivery changed: "given" or a part of the signature
  q, hcom,  \* the verifier's VOLE columns and commitment hash
  heap      \* live heap buffers

vars == <<oracle, pc, sig, h2, ctr, key, given, changed, q, hcom, heap>>
verifier == <<given, changed, q, hcom>>

Garbage == <<"garbage">>
Signed == [pk |-> <<"pk">>, msg |-> <<"msg">>]   \* what the signer signs
Secret == <<"sk">>
Witness == <<"w">>
NoRho == <<>>                                    \* a null pointer, or no bytes

Init ==
  /\ oracle \in [Counters -> Answers]
  /\ pc = "start"
  /\ sig = [x \in Parts |-> Garbage]
  /\ h2 = <<>> /\ ctr = 0
  /\ key = [root |-> Garbage, iv |-> Garbage]
  /\ given = Signed /\ changed = {}
  /\ q = Garbage /\ hcom = Garbage
  /\ heap = {}

-----------------------------------------------------------------------------
(* The hashes and what they absorb.                                        *)
Mu(in) == <<"mu", in.pk, in.msg>>
Iv(pre) == <<"iv", pre>>
Chall1(mu, com, c, iv) == <<"chall_1", mu, com, c, iv>>
VoleHash(chall1, x) == <<"vole_hash", chall1, x>>

(* What hash_challenge_2 absorbs before d; for comparison, without u_tilde.*)
BeforeDShort(chall1, ut, vt) == <<chall1, vt>>
BeforeD(chall1, ut, vt) == <<chall1, ut, vt>>
Chall2(before, d) == <<"chall_2", before, d>>

(* A counter's four bytes, lowest first: how the signer hashes it          *)
(* (H2_update_u32_le), puts it into the signature (htole32) and the        *)
(* verifier hashes it, which takes them from there.                        *)
CtrBytes(x) == <<"u32_le", x>>
CtrOf(bytes) == bytes[2]

(* H2_3: the signer's oracle answers, marked with the transcript asked     *)
(* about, so that another transcript never gets an equal answer.           *)
Chall3(transcript, bytes) == <<"chall_3", oracle[CtrOf(bytes)], transcript>>
DeltaOf(chall3) == chall3[2][1]
GrindBitsClear(chall3) == chall3[2][2] = <<"clear">>

(* vole_commit: the commitment, u, V and the corrections.                  *)
Committed(k) == <<"hcom", k.root, k.iv>>
U(k) == <<"u", k.root, k.iv>>
V(k) == <<"V", k.root, k.iv>>
Corrections(k) == <<"c", k.root, k.iv>>
Opening(k, delta) == <<"decom", k.root, k.iv, delta>>

(* aes_prove: the coefficients of the constraints' polynomial.             *)
Coefficient(name, chall2, d) == <<name, chall2, d>>

-----------------------------------------------------------------------------
(* Lines 3..5: rho is absorbed if there is any.                            *)
KeyInput == <<Secret, Mu(Signed)>> \o (IF Rho = NoRho THEN <<>> ELSE <<Rho>>)

HashInputs ==
  /\ pc = "start"
  /\ LET pre == <<"iv_pre", KeyInput>>
     IN  /\ key' = [root |-> <<"r", KeyInput>>, iv |-> Iv(pre)]
         /\ sig' = [sig EXCEPT !["iv_pre"] = pre]
  /\ pc' = "vole"
  /\ UNCHANGED <<oracle, h2, ctr, heap, verifier>>

(* Lines 6..7.                                                             *)
VoleCommit ==
  /\ pc = "vole"
  /\ heap' = heap \union {"u", "V", "bavc"}
  /\ sig' = [sig EXCEPT !["c"] = Corrections(key)]
  /\ pc' = "mask"
  /\ UNCHANGED <<oracle, h2, ctr, key, verifier>>

(* Lines 8..14.                                                            *)
MaskWitness ==
  /\ pc = "mask"
  /\ LET chall1 == Chall1(Mu(Signed), Committed(key), sig["c"], key.iv)
         ut     == VoleHash(chall1, U(key))
     IN  /\ sig' = [sig EXCEPT !["u_tilde"] = ut, !["d"] = <<"d", Witness, U(key)>>]
         /\ h2' = BeforeD(chall1, ut, VoleHash(chall1, V(key)))
  /\ pc' = "prove"
  /\ UNCHANGED <<oracle, ctr, key, heap, verifier>>

(* Lines 15..22: u and V are no longer needed.                             *)
Prove ==
  /\ pc = "prove"
  /\ LET chall2 == Chall2(h2, sig["d"])
         a(name) == Coefficient(name, chall2, sig["d"])
     IN  /\ sig' = [sig EXCEPT !["a1"] = a("a1"), !["a2"] = a("a2")]
         /\ h2' = <<chall2, a("a0"), a("a1"), a("a2")>>
  /\ heap' = heap \ {"u", "V"}
  /\ pc' = "grind"
  /\ UNCHANGED <<oracle, ctr, key, verifier>>

(* The context an attempt leaves for the next one: the hash is finished on *)
(* a copy.  For comparison, one that is finished in place.                 *)
ContextUsed == Append(h2, CtrBytes(ctr))
ContextLeft == h2

(* hash_challenge_3_final, into the signature.                             *)
Attempt ==
  /\ pc = "grind"
  /\ sig' = [sig EXCEPT !["chall_3"] = Chall3(h2, CtrBytes(ctr))]
  /\ h2' = ContextLeft
  /\ pc' = "try"
  /\ UNCHANGED <<oracle, ctr, key, heap, verifier>>

(* Lines 23..27: the challenge must have its grinding bits clear and be    *)
(* openable; for comparison, a loop without the second test, and a counter *)
(* that only a failed opening advances.                                    *)
UsableUnopened == GrindBitsClear(sig["chall_3"])
Usable == GrindBitsClear(sig["chall_3"]) /\ DeltaOf(sig["chall_3"]) \in Openable
NextCtrStuck == IF GrindBitsClear(sig["chall_3"]) THEN (ctr + 1) % CtrMod ELSE ctr
NextCtr == (ctr + 1) % CtrMod

Retry ==
  /\ pc = "try" /\ ~ Usable
  /\ ctr' = NextCtr
  /\ pc' = "grind"
  /\ UNCHANGED <<oracle, sig, h2, key, heap, verifier>>

Open ==
  /\ pc = "try" /\ Usable
  /\ sig' = [sig EXCEPT !["decom_i"] = Opening(key, DeltaOf(sig["chall_3"]))]
  /\ pc' = "finish"
  /\ UNCHANGED <<oracle, h2, ctr, key, heap, verifier>>

Finish ==
  /\ pc = "finish"
  /\ h2' = <<>>
  /\ heap' = heap \ {"bavc"}
  /\ sig' = [sig EXCEPT !["ctr"] = CtrBytes(ctr)]
  /\ pc' = "signed"
  /\ UNCHANGED <<oracle, ctr, key, verifier>>

-----------------------------------------------------------------------------
(* What a part may be altered to.                                          *)
Altered(part) ==
  CASE part = "chall_3" -> {<<"chall_3", a, sig["chall_3"][3]>> : a \in Answers}
    [] part = "decom_i" -> {Opening(key, d) : d \in Deltas} \union {<<"altered">>}
    [] part = "ctr"     -> {CtrBytes(x) : x \in Counters}
    [] OTHER            -> {<<"altered">>}

Deliver ==
  /\ pc = "signed"
  /\ pc' = "verify"
  /\ UNCHANGED <<oracle, sig, h2, ctr, key, given, changed, q, hcom, heap>>

DeliverOtherInput ==
  /\ pc = "signed"
  /\ given' \in {[Signed EXCEPT !.pk = <<"pk2">>], [Signed EXCEPT !.msg = <<"msg2">>]}
  /\ changed' = {"given"}
  /\ pc' = "verify"
  /\ UNCHANGED <<oracle, sig, h2, ctr, key, q, hcom, heap>>

DeliverAltered ==
  /\ pc = "signed"
  /\ \E part \in Parts : \E x \in Altered(part) \ {sig[part]} :
       sig' = [sig EXCEPT ![part] = x] /\ changed' = {part}
  /\ pc' = "verify"
  /\ UNCHANGED <<oracle, h2, ctr, key, given, q, hcom, heap>>

-----------------------------------------------------------------------------
Delta == DeltaOf(sig["chall_3"])

(* The verifier's first test, before anything is allocated.                *)
RejectGrind ==
  /\ pc = "verify" /\ ~ GrindBitsClear(sig["chall_3"])
  /\ pc' = "rejected"
  /\ UNCHANGED <<oracle, sig, h2, ctr, key, given, changed, q, hcom, heap>>

AllocateQ ==
  /\ pc = "verify" /\ GrindBitsClear(sig["chall_3"])
  /\ heap' = heap \union {"q"}
  /\ pc' = "reconstruct"
  /\ UNCHANGED <<oracle, sig, h2, ctr, key, verifier>>

(* An opening is understood by a verifier with the same iv and challenge.  *)
VerifierIv == Iv(sig["iv_pre"])
OpeningFits == sig["decom_i"] = Opening([key EXCEPT !.iv = VerifierIv], Delta)

Reconstruct ==
  /\ pc = "reconstruct"
  /\ hcom' = IF OpeningFits THEN Committed([key EXCEPT !.iv = VerifierIv])
                            ELSE <<"other_hcom", sig["decom_i"], VerifierIv, Delta>>
  /\ q' = <<"q", hcom', sig["c"], Delta>>
  /\ pc' = "respond"
  /\ UNCHANGED <<oracle, sig, h2, ctr, key, given, changed, heap>>

(* What vole_reconstruct's failure leaves; for comparison, a return that   *)
(* forgets the columns.                                                    *)
HeapAfterFailureKept == heap
HeapAfterFailure == heap \ {"q"}

(* An opening made for something else need not even decode.                *)
ReconstructFails ==
  /\ pc = "reconstruct" /\ ~ OpeningFits
  /\ heap' = HeapAfterFailure
  /\ pc' = "rejected"
  /\ UNCHANGED <<oracle, sig, h2, ctr, key, verifier>>

(* Q_tilde + delta u_tilde is V_tilde if the columns and u_tilde are the   *)
(* signer's; a delta of zero selects no u_tilde and no correction.         *)
Recovered(chall1) ==
  IF /\ hcom = Committed(key)
     /\ Delta = ZeroDelta \/ (sig["c"] = Corrections(key)
                                /\ sig["u_tilde"] = VoleHash(chall1, U(key)))
  THEN VoleHash(chall1, V(key))
  ELSE <<"other_v_tilde", chall1, q, sig["u_tilde"]>>

(* aes_verify: q* less the higher coefficients, each times a power of      *)
(* delta.                                                                  *)
VerifierA0(chall2) ==
  LET a(name) == Coefficient(name, chall2, <<"d", Witness, U(key)>>)
  IN  IF /\ hcom = Committed(key)
         /\ Delta = ZeroDelta \/ (/\ sig["c"] = Corrections(key)
                                  /\ sig["d"] = <<"d", Witness, U(key)>>
                                  /\ sig["a1"] = a("a1") /\ sig["a2"] = a("a2"))
      THEN a("a0")
      ELSE <<"other_a0", chall2, q, sig["d"], sig["a1"], sig["a2"]>>

Respond ==
  /\ pc = "respond"
  /\ LET chall1 == Chall1(Mu(given), hcom, sig["c"], VerifierIv)
         chall2 == Chall2(BeforeD(chall1, sig["u_tilde"], Recovered(chall1)), sig["d"])
     IN  h2' = <<chall2, VerifierA0(chall2), sig["a1"], sig["a2"]>>
  /\ heap' = heap \ {"q"}
  /\ pc' = "compare"
  /\ UNCHANGED <<oracle, sig, ctr, key, verifier>>

(* The last line: the challenge recomputed with the signature's counter.   *)
Matches == Chall3(h2, sig["ctr"]) = sig["chall_3"]

Compare ==
  /\ pc = "compare"
  /\ pc' = IF Matches THEN "accepted" ELSE "rejected"
  /\ h2' = <<>>
  /\ UNCHANGED <<oracle, sig, ctr, key, heap, verifier>>

Sign == \/ HashInputs \/ VoleCommit \/ MaskWitness \/ Prove
        \/ Attempt \/ Retry \/ Open \/ Finish
Delivery == Deliver \/ DeliverOtherInput \/ DeliverAltered
Verify == RejectGrind \/ AllocateQ \/ Reconstruct \/ ReconstructFails \/ Respond \/ Compare

Next == Sign \/ Delivery \/ Verify

Spec == Init /\ [][Next]_vars

(* Neither function waits for anything: each takes its next step.          *)
FairSpec == Spec /\ WF_vars(Sign) /\ WF_vars(Delivery) /\ WF_vars(Verify)
-----------------------------------------------------------------------------
(* A counter whose challenge can be answered.                              *)
Good(x) == oracle[x][2] = <<"clear">> /\ oracle[x][1] \in Openable

(* What the signer returns belongs together, although chall_3 is written   *)
(* anew by every attempt, decom_i by the last one only and ctr after the   *)
(* loop: the counter is the first good one, and the challenge and the      *)
(* opening are the ones that counter leads to.                             *)
SignatureConsistent ==
  pc = "signed" =>
    LET x == CtrOf(sig["ctr"])
    IN  /\ Good(x) /\ \A y \in 0 .. x - 1 : ~ Good(y)
        /\ sig["chall_3"][2] = oracle[x]
        /\ sig["decom_i"] = Opening(key, oracle[x][1])

(* A signature that arrives as it was sent is accepted.                    *)
IntactAccepted == changed = {} => pc # "rejected"

(* Nothing else is: a change of the key, the message or any one part of    *)
(* the signature is noticed, whatever the challenge is, even one that      *)
(* selects no correction at all.  Only a counter can be exchanged for one  *)
(* whose hash happens to be the same.                                      *)
OnlySignedAccepted ==
  pc = "accepted" =>
    changed \subseteq {"ctr"} /\ oracle[CtrOf(sig["ctr"])] = oracle[ctr]

(* Every return has freed what its call allocated, and the commitment      *)
(* stays alive while openings may still be tried.                          *)
HeapBalanced ==
  /\ pc \in {"signed", "accepted", "rejected"} => heap = {}
  /\ pc \in {"grind", "try"} => heap = {"bavc"}

(* If some counter is good the signer finds one, without a bound on the    *)
(* attempts, and the verifier answers.                                     *)
Completes == (\E x \in Counters : Good(x)) => <>(pc \in {"accepted", "rejected"})
=============================================================================
