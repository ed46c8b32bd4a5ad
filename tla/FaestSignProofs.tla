--------------------------- MODULE FaestSignProofs ---------------------------
(***************************************************************************)
(* Theorems about faest_sign and faest_verify for every set of leaf index  *)
(* vectors, every bound of the counter and every oracle.                   *)
(***************************************************************************)
EXTENDS FaestSign, TLAPS

(***************************************************************************)
(* The terms the signer arrives at, whatever the oracle says.              *)
(***************************************************************************)
PreTerm  == <<"iv_pre", KeyInput>>
KeyTerm  == [root |-> <<"r", KeyInput>>, iv |-> Iv(PreTerm)]
CTerm    == Corrections(KeyTerm)
Ch1Term  == Chall1(Mu(Signed), Committed(KeyTerm), CTerm, KeyTerm.iv)
UtTerm   == VoleHash(Ch1Term, U(KeyTerm))
DTerm    == <<"d", Witness, U(KeyTerm)>>
Before   == BeforeD(Ch1Term, UtTerm, VoleHash(Ch1Term, V(KeyTerm)))
Ch2Term  == Chall2(Before, DTerm)
ATerm(name) == Coefficient(name, Ch2Term, DTerm)
Final    == <<Ch2Term, ATerm("a0"), ATerm("a1"), ATerm("a2")>>

(* How far the signer has come.                                            *)
Hashed    == pc # "start"
VoleDone  == Hashed /\ pc # "vole"
Masked    == VoleDone /\ pc # "mask"
Proved    == Masked /\ pc # "prove"
Grinding  == pc \in {"grind", "try", "finish"}
Delivered == Proved /\ ~ Grinding /\ pc # "signed"

(***************************************************************************)
(* The inductive invariant.                                                *)
(***************************************************************************)
Typed ==
  /\ oracle \in [Counters -> Answers]
  /\ pc \in {"start", "vole", "mask", "prove", "grind", "try", "finish", "signed",
             "verify", "reconstruct", "respond", "compare", "accepted", "rejected"}
  /\ DOMAIN sig = Parts
  /\ ctr \in Counters
  /\ changed \subseteq Parts \union {"given"}
  /\ heap \subseteq {"u", "V", "bavc", "q"}

(* Until it is altered, a part that has been written is the signer's term. *)
Unaltered == changed = {} \/ ~ Delivered
SignerTerms ==
  /\ Hashed => key = KeyTerm
  /\ Unaltered =>
       /\ Hashed => sig["iv_pre"] = PreTerm
       /\ VoleDone => sig["c"] = CTerm
       /\ Masked => sig["u_tilde"] = UtTerm /\ sig["d"] = DTerm
       /\ Proved => sig["a1"] = ATerm("a1") /\ sig["a2"] = ATerm("a2")
  /\ pc = "prove" => h2 = Before
  /\ pc \in {"grind", "try", "finish"} => h2 = Final

(* Every counter before the current one has been tried in vain, and the    *)
(* attempt under way is that of the current one.                           *)
Attempts ==
  /\ ~ Proved => ctr = 0
  /\ pc \in {"grind", "try", "finish"} => \A y \in 0 .. ctr - 1 : ~ Good(y)
  /\ pc \in {"try", "finish"} => sig["chall_3"] = Chall3(Final, CtrBytes(ctr))
  /\ pc = "finish" => Good(ctr) /\ sig["decom_i"] = Opening(key, oracle[ctr][1])

(* A finished signature, as long as it is unaltered.                       *)
Whole ==
  /\ Good(ctr) /\ \A y \in 0 .. ctr - 1 : ~ Good(y)
  /\ sig["chall_3"] = Chall3(Final, CtrBytes(ctr))
  /\ sig["decom_i"] = Opening(key, oracle[ctr][1])
  /\ sig["ctr"] = CtrBytes(ctr)
Finished == (pc = "signed" \/ Delivered) /\ Unaltered => Whole

(* The verifier of an unaltered signature walks the signer's way.          *)
VerifierTerms ==
  changed = {} =>
    /\ given = Signed
    /\ pc = "respond" => hcom = Committed(KeyTerm)
    /\ pc = "compare" => h2 = Final
    /\ pc # "rejected"

HeapShape ==
  /\ pc \in {"start", "vole", "signed", "verify", "compare", "accepted", "rejected"} => heap = {}
  /\ pc \in {"mask", "prove"} => heap = {"u", "V", "bavc"}
  /\ pc \in {"grind", "try", "finish"} => heap = {"bavc"}
  /\ pc \in {"reconstruct", "respond"} => heap = {"q"}

(* Nothing is changed before it is delivered.                              *)
Untouched == ~ Delivered => changed = {}

(* What the signer returned for part p.                                     *)
Sent ==
  [p \in Parts |->
     CASE p = "iv_pre"  -> PreTerm
       [] p = "c"       -> CTerm
       [] p = "u_tilde" -> UtTerm
       [] p = "d"       -> DTerm
       [] p = "a1"      -> ATerm("a1")
       [] p = "a2"      -> ATerm("a2")
       [] p = "chall_3" -> Chall3(Final, CtrBytes(ctr))
       [] p = "decom_i" -> Opening(KeyTerm, oracle[ctr][1])
       [] OTHER         -> CtrBytes(ctr)]

(* A delivery changes one thing at most, and really changes it.            *)
Tampering ==
  Delivered =>
    /\ \E z \in Parts \union {"given"} : changed \subseteq {z}
    /\ Mu(given) = Mu(Signed) <=> "given" \notin changed
    /\ \A p \in Parts : sig[p] = Sent[p] <=> p \notin changed
    /\ sig["chall_3"][3] = Final

(* The commitment hash is the signer's only if the opening fits, and the   *)
(* verifier's transcript absorbs the input and most of the signature.      *)
Absorbed ==
  /\ pc \in {"respond", "compare"} /\ hcom = Committed(KeyTerm) => OpeningFits
  /\ pc = "compare" =>
       h2 = <<Chall2(BeforeD(Chall1(Mu(given), hcom, sig["c"], VerifierIv),
                             sig["u_tilde"], h2[1][2][3]), sig["d"]),
              h2[2], sig["a1"], sig["a2"]>>

IInv ==
  Typed /\ SignerTerms /\ Attempts /\ Finished /\ VerifierTerms /\ HeapShape /\ Untouched

(* For the acceptance of altered signatures, inductive relative to IInv.   *)
TInv == Tampering /\ Absorbed /\ OnlySignedAccepted
-----------------------------------------------------------------------------
(* The signature is whole after a step that touches neither it nor what it *)
(* was made from, if it was before.                                        *)
LEMMA WholeKept ==
  ASSUME IInv, pc = "signed" \/ Delivered, UNCHANGED <<oracle, sig, ctr, key>>, changed' = {} => changed = {},
         Delivered'
  PROVE  Finished'
<1>1. Whole => Whole'
  BY DEF Whole, Good, Chall3, CtrOf, CtrBytes, Opening, Final, Ch2Term, ATerm, Before, DTerm, UtTerm, Ch1Term, CTerm, KeyTerm, PreTerm
<1>2. Unaltered' => Unaltered
  BY DEF Unaltered
<1> QED
  BY <1>1, <1>2 DEF IInv, Finished

(* An intact signature that has been delivered is whole, and its terms are *)
(* the signer's.                                                           *)
LEMMA DeliveredIntact ==
  ASSUME IInv, Delivered, changed = {}
  PROVE  /\ Good(ctr) /\ key = KeyTerm /\ given = Signed
         /\ sig["iv_pre"] = PreTerm /\ sig["c"] = CTerm
         /\ sig["u_tilde"] = UtTerm /\ sig["d"] = DTerm
         /\ sig["a1"] = ATerm("a1") /\ sig["a2"] = ATerm("a2")
         /\ sig["chall_3"] = Chall3(Final, CtrBytes(ctr))
         /\ sig["decom_i"] = Opening(key, oracle[ctr][1])
         /\ sig["ctr"] = CtrBytes(ctr)
BY DEF IInv, Finished, Whole, SignerTerms, VerifierTerms, Unaltered, Hashed, VoleDone, Masked, Proved, Grinding, Delivered

(* So it passes the test of the grinding bits, and its opening fits.       *)
LEMMA IntactGrind == ASSUME IInv, Delivered, changed = {} PROVE GrindBitsClear(sig["chall_3"])
BY DeliveredIntact DEF GrindBitsClear, Chall3, CtrOf, CtrBytes, Good

LEMMA IntactOpeningFits == ASSUME IInv, Delivered, changed = {} PROVE OpeningFits
<1>1. VerifierIv = key.iv
  BY DeliveredIntact DEF VerifierIv, KeyTerm
<1>2. [key EXCEPT !.iv = VerifierIv] = key
  BY <1>1, DeliveredIntact DEF KeyTerm
<1>3. Delta = oracle[ctr][1]
  BY DeliveredIntact DEF Delta, DeltaOf, Chall3, CtrOf, CtrBytes
<1> QED
  BY <1>2, <1>3, DeliveredIntact DEF OpeningFits

(* Lines 3..5 establish the key and iv_pre.                                *)
LEMMA HashInputsIInv == IInv /\ HashInputs => IInv'
<1> SUFFICES ASSUME IInv, HashInputs PROVE IInv'
  OBVIOUS
<1> USE DEF IInv
<1>1. Typed'
  BY SignAssumption DEF Typed, HashInputs, verifier, Counters, Parts
<1>2. SignerTerms'
  BY <1>1 DEF SignerTerms, Unaltered, Hashed, VoleDone, Masked, Proved, Grinding, Delivered, Typed, HashInputs, verifier, Parts, PreTerm, KeyTerm
<1>3. Attempts'
  BY <1>1 DEF Attempts, Typed, HashInputs, verifier, Parts, Good, Hashed, VoleDone, Masked, Proved, Grinding, Delivered
<1>4. Finished'
  BY <1>1 DEF Finished, Attempts, Unaltered, Hashed, VoleDone, Masked, Proved, Grinding, Delivered, Typed, HashInputs, verifier, Parts, Good
<1>5. VerifierTerms'
  BY <1>1 DEF VerifierTerms, HashInputs, verifier
<1>7. Untouched'
  BY <1>1 DEF Untouched, Hashed, VoleDone, Masked, Proved, Grinding, Delivered, HashInputs, verifier
<1>6. HeapShape'
  BY DEF HeapShape, HashInputs, verifier
<1> QED
  BY <1>1, <1>2, <1>3, <1>4, <1>5, <1>6, <1>7

(* The corrections are written.                                            *)
LEMMA VoleCommitIInv == IInv /\ VoleCommit => IInv'
<1> SUFFICES ASSUME IInv, VoleCommit PROVE IInv'
  OBVIOUS
<1> USE DEF IInv
<1>1. Typed'
  BY SignAssumption DEF Typed, VoleCommit, verifier, Counters, Parts
<1>2. SignerTerms'
  BY <1>1 DEF SignerTerms, Unaltered, Hashed, VoleDone, Masked, Proved, Grinding, Delivered, Typed, VoleCommit, verifier, Parts, CTerm
<1>3. Attempts'
  BY <1>1 DEF Attempts, Typed, VoleCommit, verifier, Parts, Good, Hashed, VoleDone, Masked, Proved, Grinding, Delivered
<1>4. Finished'
  BY <1>1 DEF Finished, Attempts, Unaltered, Hashed, VoleDone, Masked, Proved, Grinding, Delivered, Typed, VoleCommit, verifier, Parts, Good
<1>5. VerifierTerms'
  BY <1>1 DEF VerifierTerms, VoleCommit, verifier
<1>7. Untouched'
  BY <1>1 DEF Untouched, Hashed, VoleDone, Masked, Proved, Grinding, Delivered, VoleCommit, verifier
<1>6. HeapShape'
  BY DEF HeapShape, VoleCommit, verifier
<1> QED
  BY <1>1, <1>2, <1>3, <1>4, <1>5, <1>6, <1>7

(* The transcript of the second challenge.                                 *)
LEMMA MaskWitnessIInv == IInv /\ MaskWitness => IInv'
<1> SUFFICES ASSUME IInv, MaskWitness PROVE IInv'
  OBVIOUS
<1> USE DEF IInv
<1>1. Typed'
  BY SignAssumption DEF Typed, MaskWitness, verifier, Counters, Parts
<1>2. SignerTerms'
  BY <1>1 DEF SignerTerms, Unaltered, Hashed, VoleDone, Masked, Proved, Grinding, Delivered, Typed, MaskWitness, verifier, Parts, Ch1Term, UtTerm, DTerm, Before
<1>3. Attempts'
  BY <1>1 DEF Attempts, Typed, MaskWitness, verifier, Parts, Good, Hashed, VoleDone, Masked, Proved, Grinding, Delivered
<1>4. Finished'
  BY <1>1 DEF Finished, Attempts, Unaltered, Hashed, VoleDone, Masked, Proved, Grinding, Delivered, Typed, MaskWitness, verifier, Parts, Good
<1>5. VerifierTerms'
  BY <1>1 DEF VerifierTerms, MaskWitness, verifier
<1>7. Untouched'
  BY <1>1 DEF Untouched, Hashed, VoleDone, Masked, Proved, Grinding, Delivered, MaskWitness, verifier
<1>6. HeapShape'
  BY DEF HeapShape, MaskWitness, verifier
<1> QED
  BY <1>1, <1>2, <1>3, <1>4, <1>5, <1>6, <1>7

(* The transcript of the third challenge; the counter is still 0.          *)
LEMMA ProveIInv == IInv /\ Prove => IInv'
<1> SUFFICES ASSUME IInv, Prove PROVE IInv'
  OBVIOUS
<1> USE DEF IInv
<1>1. Typed'
  BY SignAssumption DEF Typed, Prove, verifier, Counters, Parts
<1>2. SignerTerms'
  BY <1>1 DEF SignerTerms, Unaltered, Hashed, VoleDone, Masked, Proved, Grinding, Delivered, Typed, Prove, verifier, Parts, ATerm, Ch2Term, Final
<1>3. Attempts'
  BY <1>1 DEF Attempts, Typed, Prove, verifier, Parts, Good, Hashed, VoleDone, Masked, Proved, Grinding, Delivered
<1>4. Finished'
  BY <1>1 DEF Finished, Attempts, Unaltered, Hashed, VoleDone, Masked, Proved, Grinding, Delivered, Typed, Prove, verifier, Parts, Good
<1>5. VerifierTerms'
  BY <1>1 DEF VerifierTerms, Prove, verifier
<1>7. Untouched'
  BY <1>1 DEF Untouched, Hashed, VoleDone, Masked, Proved, Grinding, Delivered, Prove, verifier
<1>6. HeapShape'
  BY DEF HeapShape, Prove, verifier
<1> QED
  BY <1>1, <1>2, <1>3, <1>4, <1>5, <1>6, <1>7

(* A challenge for the current counter.                                    *)
LEMMA AttemptIInv == IInv /\ Attempt => IInv'
<1> SUFFICES ASSUME IInv, Attempt PROVE IInv'
  OBVIOUS
<1> USE DEF IInv
<1>1. Typed'
  BY SignAssumption DEF Typed, Attempt, verifier, Counters, Parts
<1>2. SignerTerms'
  BY <1>1 DEF SignerTerms, Unaltered, Hashed, VoleDone, Masked, Proved, Grinding, Delivered, Typed, Attempt, verifier, Parts, ContextLeft
<1>3. Attempts'
  <2>1. h2 = Final /\ sig'["chall_3"] = Chall3(Final, CtrBytes(ctr))
    BY <1>1 DEF SignerTerms, Typed, Attempt, Parts
  <2>2. UNCHANGED <<oracle, ctr, key>> /\ Chall3(Final, CtrBytes(ctr))' = Chall3(Final, CtrBytes(ctr))
    BY DEF Attempt, Chall3, CtrOf, CtrBytes
  <2> QED
    BY <2>1, <2>2 DEF Attempts, Attempt, Good, Hashed, VoleDone, Masked, Proved, Grinding, Delivered
<1>4. Finished'
  BY <1>1 DEF Finished, Attempts, Unaltered, Hashed, VoleDone, Masked, Proved, Grinding, Delivered, Typed, Attempt, verifier, Parts, Good
<1>5. VerifierTerms'
  BY <1>1 DEF VerifierTerms, Attempt, verifier
<1>7. Untouched'
  BY <1>1 DEF Untouched, Hashed, VoleDone, Masked, Proved, Grinding, Delivered, Attempt, verifier
<1>6. HeapShape'
  BY DEF HeapShape, Attempt, verifier
<1> QED
  BY <1>1, <1>2, <1>3, <1>4, <1>5, <1>6, <1>7

(* The counter just tried is not good.                                     *)
LEMMA RetryIInv == IInv /\ Retry => IInv'
<1> SUFFICES ASSUME IInv, Retry PROVE IInv'
  OBVIOUS
<1> USE DEF IInv
<1>1. Typed'
  <2>1. NextCtr \in Counters
    BY SignAssumption DEF NextCtr, Counters, Typed
  <2> QED
    BY <2>1 DEF Typed, Retry, verifier
<1>2. SignerTerms'
  BY <1>1 DEF SignerTerms, Unaltered, Hashed, VoleDone, Masked, Proved, Grinding, Delivered, Typed, Retry, verifier, Parts
<1>3. Attempts'
  <2>1. ~ Good(ctr)
    BY DEF Retry, Usable, Attempts, GrindBitsClear, DeltaOf, Chall3, CtrOf, CtrBytes, Good
  <2>2. ctr \in Nat /\ (ctr' = ctr + 1 \/ ctr' = 0)
    BY SignAssumption DEF Retry, NextCtr, Counters, Typed
  <2>3. \A y \in 0 .. ctr - 1 : ~ Good(y)
    BY DEF Retry, Attempts
  <2>4. \A y \in 0 .. ctr' - 1 : ~ Good(y)
    BY <2>1, <2>2, <2>3
  <2>5. (\A y \in 0 .. ctr - 1 : ~ Good(y))'
    BY <2>4 DEF Retry, Good
  <2> QED
    BY <2>5 DEF Attempts, Retry, Hashed, VoleDone, Masked, Proved, Grinding, Delivered
<1>4. Finished'
  BY <1>1 DEF Finished, Attempts, Unaltered, Hashed, VoleDone, Masked, Proved, Grinding, Delivered, Typed, Retry, verifier, Parts, Good
<1>5. VerifierTerms'
  BY <1>1 DEF VerifierTerms, Retry, verifier
<1>7. Untouched'
  BY <1>1 DEF Untouched, Hashed, VoleDone, Masked, Proved, Grinding, Delivered, Retry, verifier
<1>6. HeapShape'
  BY DEF HeapShape, Retry, verifier
<1> QED
  BY <1>1, <1>2, <1>3, <1>4, <1>5, <1>6, <1>7

(* The counter just tried is good.                                         *)
LEMMA OpenIInv == IInv /\ Open => IInv'
<1> SUFFICES ASSUME IInv, Open PROVE IInv'
  OBVIOUS
<1> USE DEF IInv
<1>1. Typed'
  BY SignAssumption DEF Typed, Open, verifier, Counters, Parts
<1>2. SignerTerms'
  BY <1>1 DEF SignerTerms, Unaltered, Hashed, VoleDone, Masked, Proved, Grinding, Delivered, Typed, Open, verifier, Parts
<1>3. Attempts'
  <2>1. sig["chall_3"] = Chall3(Final, CtrBytes(ctr)) /\ sig'["chall_3"] = sig["chall_3"]
    BY DEF Open, Attempts, Typed, Parts
  <2>2. Good(ctr) /\ DeltaOf(sig["chall_3"]) = oracle[ctr][1]
    BY <2>1 DEF Open, Usable, GrindBitsClear, DeltaOf, Chall3, CtrOf, CtrBytes, Good
  <2>3. sig'["decom_i"] = Opening(key, oracle[ctr][1])
    BY <2>2 DEF Open, Typed, Parts
  <2>4. /\ UNCHANGED <<oracle, ctr, key>> /\ Chall3(Final, CtrBytes(ctr))' = Chall3(Final, CtrBytes(ctr))
        /\ Opening(key, oracle[ctr][1])' = Opening(key, oracle[ctr][1])
    BY DEF Open, Chall3, CtrOf, CtrBytes, Opening
  <2> QED
    BY <2>1, <2>2, <2>3, <2>4 DEF Attempts, Open, Good, Hashed, VoleDone, Masked, Proved, Grinding, Delivered
<1>4. Finished'
  BY <1>1 DEF Finished, Attempts, Unaltered, Hashed, VoleDone, Masked, Proved, Grinding, Delivered, Typed, Open, verifier, Parts, Good
<1>5. VerifierTerms'
  BY <1>1 DEF VerifierTerms, Open, verifier
<1>7. Untouched'
  BY <1>1 DEF Untouched, Hashed, VoleDone, Masked, Proved, Grinding, Delivered, Open, verifier
<1>6. HeapShape'
  BY DEF HeapShape, Open, verifier
<1> QED
  BY <1>1, <1>2, <1>3, <1>4, <1>5, <1>6, <1>7

(* The parts of the signature belong together.                             *)
LEMMA FinishIInv == IInv /\ Finish => IInv'
<1> SUFFICES ASSUME IInv, Finish PROVE IInv'
  OBVIOUS
<1> USE DEF IInv
<1>1. Typed'
  BY SignAssumption DEF Typed, Finish, verifier, Counters, Parts
<1>2. SignerTerms'
  BY <1>1 DEF SignerTerms, Unaltered, Hashed, VoleDone, Masked, Proved, Grinding, Delivered, Typed, Finish, verifier, Parts
<1>3. Attempts'
  BY <1>1 DEF Attempts, Typed, Finish, verifier, Parts, Good, Hashed, VoleDone, Masked, Proved, Grinding, Delivered
<1>4. Finished'
  <2>1. /\ sig'["chall_3"] = sig["chall_3"] /\ sig'["decom_i"] = sig["decom_i"]
        /\ sig'["ctr"] = CtrBytes(ctr)
    BY DEF Finish, Typed, Parts
  <2>2. /\ UNCHANGED <<oracle, ctr, key>> /\ Chall3(Final, CtrBytes(ctr))' = Chall3(Final, CtrBytes(ctr))
        /\ Opening(key, oracle[ctr][1])' = Opening(key, oracle[ctr][1])
    BY DEF Finish, Chall3, CtrOf, CtrBytes, Opening
  <2> QED
    BY <2>1, <2>2 DEF Finished, Whole, Attempts, Finish, Good
<1>5. VerifierTerms'
  BY <1>1 DEF VerifierTerms, Finish, verifier
<1>7. Untouched'
  BY <1>1 DEF Untouched, Hashed, VoleDone, Masked, Proved, Grinding, Delivered, Finish, verifier
<1>6. HeapShape'
  BY DEF HeapShape, Finish, verifier
<1> QED
  BY <1>1, <1>2, <1>3, <1>4, <1>5, <1>6, <1>7

(* An intact delivery.                                                     *)
LEMMA DeliverIInv == IInv /\ Deliver => IInv'
<1> SUFFICES ASSUME IInv, Deliver PROVE IInv'
  OBVIOUS
<1> USE DEF IInv
<1>1. Typed'
  BY SignAssumption DEF Typed, Deliver, verifier, Counters, Parts
<1>2. SignerTerms'
  BY <1>1 DEF SignerTerms, Unaltered, Hashed, VoleDone, Masked, Proved, Grinding, Delivered, Typed, Deliver, verifier, Parts
<1>3. Attempts'
  BY <1>1 DEF Attempts, Typed, Deliver, verifier, Parts, Good, Hashed, VoleDone, Masked, Proved, Grinding, Delivered
<1>4. Finished'
  <2>1. /\ pc = "signed" \/ Delivered
        /\ UNCHANGED <<oracle, sig, ctr, key, changed>>
        /\ Delivered'
    BY <1>1 DEF Deliver, verifier, Typed, Hashed, VoleDone, Masked, Proved, Grinding, Delivered
  <2> QED
    BY <2>1, WholeKept
<1>5. VerifierTerms'
  BY <1>1 DEF VerifierTerms, Deliver, verifier
<1>7. Untouched'
  BY <1>1 DEF Untouched, Hashed, VoleDone, Masked, Proved, Grinding, Delivered, Deliver, verifier
<1>6. HeapShape'
  BY DEF HeapShape, Deliver, verifier
<1> QED
  BY <1>1, <1>2, <1>3, <1>4, <1>5, <1>6, <1>7

(* A delivery with other inputs.                                           *)
LEMMA DeliverOtherInputIInv == IInv /\ DeliverOtherInput => IInv'
<1> SUFFICES ASSUME IInv, DeliverOtherInput PROVE IInv'
  OBVIOUS
<1> USE DEF IInv
<1>1. Typed'
  BY SignAssumption DEF Typed, DeliverOtherInput, verifier, Counters, Parts
<1>2. SignerTerms'
  BY <1>1 DEF SignerTerms, Unaltered, Hashed, VoleDone, Masked, Proved, Grinding, Delivered, Typed, DeliverOtherInput, verifier, Parts
<1>3. Attempts'
  BY <1>1 DEF Attempts, Typed, DeliverOtherInput, verifier, Parts, Good, Hashed, VoleDone, Masked, Proved, Grinding, Delivered
<1>4. Finished'
  BY <1>1 DEF Finished, Attempts, Unaltered, Hashed, VoleDone, Masked, Proved, Grinding, Delivered, Typed, DeliverOtherInput, verifier, Parts, Good
<1>5. VerifierTerms'
  BY <1>1 DEF VerifierTerms, DeliverOtherInput, verifier
<1>7. Untouched'
  BY <1>1 DEF Untouched, Hashed, VoleDone, Masked, Proved, Grinding, Delivered, DeliverOtherInput, verifier
<1>6. HeapShape'
  BY DEF HeapShape, DeliverOtherInput, verifier
<1> QED
  BY <1>1, <1>2, <1>3, <1>4, <1>5, <1>6, <1>7

(* An altered delivery.                                                    *)
LEMMA DeliverAlteredIInv == IInv /\ DeliverAltered => IInv'
<1> SUFFICES ASSUME IInv, DeliverAltered PROVE IInv'
  OBVIOUS
<1> USE DEF IInv
<1>1. Typed'
  BY SignAssumption DEF Typed, DeliverAltered, verifier, Counters, Parts
<1>2. SignerTerms'
  BY <1>1 DEF SignerTerms, Unaltered, Hashed, VoleDone, Masked, Proved, Grinding, Delivered, Typed, DeliverAltered, verifier, Parts
<1>3. Attempts'
  BY <1>1 DEF Attempts, Typed, DeliverAltered, verifier, Parts, Good, Hashed, VoleDone, Masked, Proved, Grinding, Delivered
<1>4. Finished'
  BY <1>1 DEF Finished, Attempts, Unaltered, Hashed, VoleDone, Masked, Proved, Grinding, Delivered, Typed, DeliverAltered, verifier, Parts, Good
<1>5. VerifierTerms'
  BY <1>1 DEF VerifierTerms, DeliverAltered, verifier
<1>7. Untouched'
  BY <1>1 DEF Untouched, Hashed, VoleDone, Masked, Proved, Grinding, Delivered, DeliverAltered, verifier
<1>6. HeapShape'
  BY DEF HeapShape, DeliverAltered, verifier
<1> QED
  BY <1>1, <1>2, <1>3, <1>4, <1>5, <1>6, <1>7

(* An intact signature passes the first test.                              *)
LEMMA RejectGrindIInv == IInv /\ RejectGrind => IInv'
<1> SUFFICES ASSUME IInv, RejectGrind PROVE IInv'
  OBVIOUS
<1> USE DEF IInv
<1>1. Typed'
  BY SignAssumption DEF Typed, RejectGrind, verifier, Counters, Parts
<1>2. SignerTerms'
  BY <1>1 DEF SignerTerms, Unaltered, Hashed, VoleDone, Masked, Proved, Grinding, Delivered, Typed, RejectGrind, verifier, Parts
<1>3. Attempts'
  BY <1>1 DEF Attempts, Typed, RejectGrind, verifier, Parts, Good, Hashed, VoleDone, Masked, Proved, Grinding, Delivered
<1>4. Finished'
  <2>1. /\ pc = "signed" \/ Delivered
        /\ UNCHANGED <<oracle, sig, ctr, key, changed>>
        /\ Delivered'
    BY <1>1 DEF RejectGrind, verifier, Typed, Hashed, VoleDone, Masked, Proved, Grinding, Delivered
  <2> QED
    BY <2>1, WholeKept
<1>5. VerifierTerms'
  BY IntactGrind DEF VerifierTerms, RejectGrind, Hashed, VoleDone, Masked, Proved, Grinding, Delivered
<1>7. Untouched'
  BY <1>1 DEF Untouched, Hashed, VoleDone, Masked, Proved, Grinding, Delivered, RejectGrind, verifier
<1>6. HeapShape'
  BY DEF HeapShape, RejectGrind, verifier
<1> QED
  BY <1>1, <1>2, <1>3, <1>4, <1>5, <1>6, <1>7

(* The columns are allocated.                                              *)
LEMMA AllocateQIInv == IInv /\ AllocateQ => IInv'
<1> SUFFICES ASSUME IInv, AllocateQ PROVE IInv'
  OBVIOUS
<1> USE DEF IInv
<1>1. Typed'
  BY SignAssumption DEF Typed, AllocateQ, verifier, Counters, Parts
<1>2. SignerTerms'
  BY <1>1 DEF SignerTerms, Unaltered, Hashed, VoleDone, Masked, Proved, Grinding, Delivered, Typed, AllocateQ, verifier, Parts
<1>3. Attempts'
  BY <1>1 DEF Attempts, Typed, AllocateQ, verifier, Parts, Good, Hashed, VoleDone, Masked, Proved, Grinding, Delivered
<1>4. Finished'
  <2>1. /\ pc = "signed" \/ Delivered
        /\ UNCHANGED <<oracle, sig, ctr, key, changed>>
        /\ Delivered'
    BY <1>1 DEF AllocateQ, verifier, Typed, Hashed, VoleDone, Masked, Proved, Grinding, Delivered
  <2> QED
    BY <2>1, WholeKept
<1>5. VerifierTerms'
  BY <1>1 DEF VerifierTerms, AllocateQ, verifier
<1>7. Untouched'
  BY <1>1 DEF Untouched, Hashed, VoleDone, Masked, Proved, Grinding, Delivered, AllocateQ, verifier
<1>6. HeapShape'
  BY DEF HeapShape, AllocateQ, verifier
<1> QED
  BY <1>1, <1>2, <1>3, <1>4, <1>5, <1>6, <1>7

(* An intact opening leads to the signer's hash.                           *)
LEMMA ReconstructIInv == IInv /\ Reconstruct => IInv'
<1> SUFFICES ASSUME IInv, Reconstruct PROVE IInv'
  OBVIOUS
<1> USE DEF IInv
<1>1. Typed'
  BY SignAssumption DEF Typed, Reconstruct, verifier, Counters, Parts
<1>2. SignerTerms'
  BY <1>1 DEF SignerTerms, Unaltered, Hashed, VoleDone, Masked, Proved, Grinding, Delivered, Typed, Reconstruct, verifier, Parts
<1>3. Attempts'
  BY <1>1 DEF Attempts, Typed, Reconstruct, verifier, Parts, Good, Hashed, VoleDone, Masked, Proved, Grinding, Delivered
<1>4. Finished'
  <2>1. /\ pc = "signed" \/ Delivered
        /\ UNCHANGED <<oracle, sig, ctr, key, changed>>
        /\ Delivered'
    BY <1>1 DEF Reconstruct, verifier, Typed, Hashed, VoleDone, Masked, Proved, Grinding, Delivered
  <2> QED
    BY <2>1, WholeKept
<1>5. VerifierTerms'
  <2>1. CASE changed = {}
    <3>1. OpeningFits /\ key = KeyTerm /\ sig["iv_pre"] = PreTerm
      BY <2>1, IntactOpeningFits, DeliveredIntact DEF Reconstruct, Hashed, VoleDone, Masked, Proved, Grinding, Delivered
    <3>2. [key EXCEPT !.iv = VerifierIv] = KeyTerm
      BY <3>1 DEF VerifierIv, KeyTerm
    <3>3. hcom' = Committed(KeyTerm)
      BY <3>1, <3>2 DEF Reconstruct
    <3> QED
      BY <3>3 DEF VerifierTerms, Reconstruct
  <2>2. CASE changed # {}
    BY <2>2 DEF VerifierTerms, Reconstruct
  <2> QED
    BY <2>1, <2>2
<1>7. Untouched'
  BY <1>1 DEF Untouched, Hashed, VoleDone, Masked, Proved, Grinding, Delivered, Reconstruct, verifier
<1>6. HeapShape'
  BY DEF HeapShape, Reconstruct, verifier
<1> QED
  BY <1>1, <1>2, <1>3, <1>4, <1>5, <1>6, <1>7

(* An intact opening fits.                                                 *)
LEMMA ReconstructFailsIInv == IInv /\ ReconstructFails => IInv'
<1> SUFFICES ASSUME IInv, ReconstructFails PROVE IInv'
  OBVIOUS
<1> USE DEF IInv
<1>1. Typed'
  BY SignAssumption DEF Typed, ReconstructFails, verifier, Counters, Parts, HeapAfterFailure
<1>2. SignerTerms'
  BY <1>1 DEF SignerTerms, Unaltered, Hashed, VoleDone, Masked, Proved, Grinding, Delivered, Typed, ReconstructFails, verifier, Parts
<1>3. Attempts'
  BY <1>1 DEF Attempts, Typed, ReconstructFails, verifier, Parts, Good, Hashed, VoleDone, Masked, Proved, Grinding, Delivered
<1>4. Finished'
  <2>1. /\ pc = "signed" \/ Delivered
        /\ UNCHANGED <<oracle, sig, ctr, key, changed>>
        /\ Delivered'
    BY <1>1 DEF ReconstructFails, verifier, Typed, Hashed, VoleDone, Masked, Proved, Grinding, Delivered
  <2> QED
    BY <2>1, WholeKept
<1>5. VerifierTerms'
  BY IntactOpeningFits DEF VerifierTerms, ReconstructFails, verifier, Hashed, VoleDone, Masked, Proved, Grinding, Delivered
<1>7. Untouched'
  BY <1>1 DEF Untouched, Hashed, VoleDone, Masked, Proved, Grinding, Delivered, ReconstructFails, verifier
<1>6. HeapShape'
  BY DEF HeapShape, ReconstructFails, verifier, HeapAfterFailure
<1> QED
  BY <1>1, <1>2, <1>3, <1>4, <1>5, <1>6, <1>7

(* The verifier's transcript is the signer's.                              *)
LEMMA RespondIInv == IInv /\ Respond => IInv'
<1> SUFFICES ASSUME IInv, Respond PROVE IInv'
  OBVIOUS
<1> USE DEF IInv
<1>1. Typed'
  BY SignAssumption DEF Typed, Respond, verifier, Counters, Parts
<1>2. SignerTerms'
  BY <1>1 DEF SignerTerms, Unaltered, Hashed, VoleDone, Masked, Proved, Grinding, Delivered, Typed, Respond, verifier, Parts
<1>3. Attempts'
  BY <1>1 DEF Attempts, Typed, Respond, verifier, Parts, Good, Hashed, VoleDone, Masked, Proved, Grinding, Delivered
<1>4. Finished'
  <2>1. /\ pc = "signed" \/ Delivered
        /\ UNCHANGED <<oracle, sig, ctr, key, changed>>
        /\ Delivered'
    BY <1>1 DEF Respond, verifier, Typed, Hashed, VoleDone, Masked, Proved, Grinding, Delivered
  <2> QED
    BY <2>1, WholeKept
<1>5. VerifierTerms'
  <2>1. CASE changed = {}
    <3>1. Delivered /\ hcom = Committed(KeyTerm)
      BY <2>1 DEF VerifierTerms, Respond, Hashed, VoleDone, Masked, Proved, Grinding, Delivered
    <3>2. VerifierIv = KeyTerm.iv
      BY <2>1, <3>1, DeliveredIntact DEF VerifierIv, KeyTerm
    <3>3. Chall1(Mu(given), hcom, sig["c"], VerifierIv) = Ch1Term
      BY <2>1, <3>1, <3>2, DeliveredIntact DEF Ch1Term
    <3>4. Recovered(Ch1Term) = VoleHash(Ch1Term, V(KeyTerm))
      BY <2>1, <3>1, DeliveredIntact DEF Recovered, CTerm, UtTerm
    <3>5. Chall2(BeforeD(Ch1Term, sig["u_tilde"], Recovered(Ch1Term)), sig["d"]) = Ch2Term
      BY <2>1, <3>1, <3>4, DeliveredIntact DEF Ch2Term, Before
    <3>6. VerifierA0(Ch2Term) = ATerm("a0")
      BY <2>1, <3>1, DeliveredIntact DEF VerifierA0, CTerm, DTerm, ATerm
    <3>7. h2' = Final
      BY <2>1, <3>1, <3>3, <3>5, <3>6, DeliveredIntact DEF Respond, Final
    <3> QED
      BY <3>7 DEF VerifierTerms, Respond, verifier
  <2>2. CASE changed # {}
    BY <2>2 DEF VerifierTerms, Respond, verifier
  <2> QED
    BY <2>1, <2>2
<1>7. Untouched'
  BY <1>1 DEF Untouched, Hashed, VoleDone, Masked, Proved, Grinding, Delivered, Respond, verifier
<1>6. HeapShape'
  BY DEF HeapShape, Respond, verifier
<1> QED
  BY <1>1, <1>2, <1>3, <1>4, <1>5, <1>6, <1>7

(* An intact signature matches.                                            *)
LEMMA CompareIInv == IInv /\ Compare => IInv'
<1> SUFFICES ASSUME IInv, Compare PROVE IInv'
  OBVIOUS
<1> USE DEF IInv
<1>1. Typed'
  BY SignAssumption DEF Typed, Compare, verifier, Counters, Parts
<1>2. SignerTerms'
  BY <1>1 DEF SignerTerms, Unaltered, Hashed, VoleDone, Masked, Proved, Grinding, Delivered, Typed, Compare, verifier, Parts
<1>3. Attempts'
  BY <1>1 DEF Attempts, Typed, Compare, verifier, Parts, Good, Hashed, VoleDone, Masked, Proved, Grinding, Delivered
<1>4. Finished'
  <2>1. /\ pc = "signed" \/ Delivered
        /\ UNCHANGED <<oracle, sig, ctr, key, changed>>
        /\ Delivered'
    BY <1>1 DEF Compare, verifier, Typed, Hashed, VoleDone, Masked, Proved, Grinding, Delivered
  <2> QED
    BY <2>1, WholeKept
<1>5. VerifierTerms'
  <2>1. CASE changed = {}
    <3>1. Delivered /\ h2 = Final
      BY <2>1 DEF VerifierTerms, Compare, Hashed, VoleDone, Masked, Proved, Grinding, Delivered
    <3>2. sig["ctr"] = CtrBytes(ctr) /\ sig["chall_3"] = Chall3(Final, CtrBytes(ctr))
      BY <2>1, <3>1, DeliveredIntact
    <3>3. Matches
      BY <3>1, <3>2 DEF Matches
    <3> QED
      BY <3>3 DEF VerifierTerms, Compare, verifier
  <2>2. CASE changed # {}
    BY <2>2 DEF VerifierTerms, Compare, verifier
  <2> QED
    BY <2>1, <2>2
<1>7. Untouched'
  BY <1>1 DEF Untouched, Hashed, VoleDone, Masked, Proved, Grinding, Delivered, Compare, verifier
<1>6. HeapShape'
  BY DEF HeapShape, Compare, verifier
<1> QED
  BY <1>1, <1>2, <1>3, <1>4, <1>5, <1>6, <1>7

(***************************************************************************)
(* The invariant holds in every behaviour.                                 *)
(***************************************************************************)
LEMMA InitIInv == Init => IInv
<1> SUFFICES ASSUME Init PROVE IInv
  OBVIOUS
<1>1. Typed
  BY SignAssumption DEF Init, Typed, Counters
<1>2. SignerTerms /\ Attempts /\ Finished /\ VerifierTerms /\ HeapShape /\ Untouched
  BY DEF Init, Untouched, SignerTerms, Attempts, Finished, VerifierTerms, HeapShape, Hashed, VoleDone, Masked, Proved, Grinding, Delivered
<1> QED
  BY <1>1, <1>2 DEF IInv

LEMMA StutterIInv == IInv /\ UNCHANGED vars => IInv'
<1> SUFFICES ASSUME IInv, UNCHANGED vars PROVE IInv'
  OBVIOUS
<1> USE DEF IInv, vars
<1>1. Typed' /\ HeapShape' /\ VerifierTerms' /\ Untouched'
  BY DEF Untouched, Hashed, VoleDone, Masked, Proved, Grinding, Delivered, Typed, HeapShape, VerifierTerms
<1>2. SignerTerms'
  BY DEF SignerTerms, Unaltered, Hashed, VoleDone, Masked, Proved, Grinding, Delivered
<1>3. Attempts'
  BY DEF Attempts, Good, Chall3, CtrOf, CtrBytes, Opening, Hashed, VoleDone, Masked, Proved, Grinding, Delivered
<1>4. Finished'
  BY DEF Finished, Whole, Good, Chall3, CtrOf, CtrBytes, Opening, Unaltered, Hashed, VoleDone, Masked, Proved, Grinding, Delivered
<1> QED
  BY <1>1, <1>2, <1>3, <1>4

LEMMA Invariance == Spec => []IInv
<1>1. IInv /\ [Next]_vars => IInv'
  BY HashInputsIInv, VoleCommitIInv, MaskWitnessIInv, ProveIInv, AttemptIInv, RetryIInv, OpenIInv, FinishIInv, DeliverIInv, DeliverOtherInputIInv, DeliverAlteredIInv, RejectGrindIInv, AllocateQIInv, ReconstructIInv, ReconstructFailsIInv, RespondIInv, CompareIInv, StutterIInv
     DEF Next, Sign, Delivery, Verify
<1> QED
  BY <1>1, InitIInv, PTL DEF Spec

(* Challenge, opening and counter of a finished signature belong together, *)
(* and the counter is the first that leads to a challenge faest_sign can   *)
(* answer (SignatureConsistent).                                           *)
THEOREM SignaturesConsistent == Spec => []SignatureConsistent
<1>1. IInv => SignatureConsistent
  <2> SUFFICES ASSUME IInv, pc = "signed" PROVE Whole
    BY DEF SignatureConsistent, Whole, Chall3, CtrOf, CtrBytes
  <2> QED
    BY DEF IInv, Finished, Unaltered, Hashed, VoleDone, Masked, Proved, Grinding, Delivered
<1> QED
  BY <1>1, Invariance, PTL

(* faest_verify accepts what faest_sign returned, after any number of      *)
(* attempts of the grinding loop (IntactAccepted).                         *)
THEOREM SignedIsAccepted == Spec => []IntactAccepted
<1>1. IInv => IntactAccepted
  BY DEF IInv, VerifierTerms, IntactAccepted
<1> QED
  BY <1>1, Invariance, PTL

(* Every return of both functions has released its buffers, and the        *)
(* commitment is alive during the grinding loop (HeapBalanced).            *)
THEOREM HeapIsBalanced == Spec => []HeapBalanced
<1>1. IInv => HeapBalanced
  BY DEF IInv, HeapShape, HeapBalanced
<1> QED
  BY <1>1, Invariance, PTL
-----------------------------------------------------------------------------
(***************************************************************************)
(* Nothing but what was signed is accepted.                                *)
(***************************************************************************)

(* The signer does not get to the states TInv is about.                    *)
LEMMA SignTInv == Sign => TInv'
<1> SUFFICES ASSUME Sign PROVE TInv'
  OBVIOUS
<1>1. pc' \in {"vole", "mask", "prove", "grind", "try", "finish", "signed"}
  BY DEF Sign, HashInputs, VoleCommit, MaskWitness, Prove, Attempt, Retry, Open, Finish
<1> QED
  BY <1>1 DEF TInv, Tampering, Absorbed, OnlySignedAccepted, Hashed, VoleDone, Masked, Proved,
              Grinding, Delivered

(* When the signer returns every part is the one that is sent.             *)
LEMMA SignedSent ==
  ASSUME IInv, pc = "signed"
  PROVE  /\ \A p \in Parts : sig[p] = Sent[p]
         /\ sig["chall_3"][3] = Final
         /\ changed = {} => given = Signed
<1>1. /\ sig["iv_pre"] = PreTerm /\ sig["c"] = CTerm
      /\ sig["u_tilde"] = UtTerm /\ sig["d"] = DTerm
      /\ sig["a1"] = ATerm("a1") /\ sig["a2"] = ATerm("a2")
      /\ key = KeyTerm
  BY DEF IInv, SignerTerms, Unaltered, Hashed, VoleDone, Masked, Proved, Grinding, Delivered
<1>2. Whole
  BY DEF IInv, Finished, Unaltered, Hashed, VoleDone, Masked, Proved, Grinding, Delivered
<1>3. sig["chall_3"][3] = Final
  BY <1>2 DEF Whole, Chall3, CtrOf, CtrBytes
<1>4. changed = {} => given = Signed
  BY DEF IInv, VerifierTerms
<1> QED
  BY <1>1, <1>2, <1>3, <1>4 DEF Whole, Sent, Parts

(* What is delivered is what was sent, but for the one change.             *)
LEMMA DeliverTInv == IInv /\ Deliver => TInv'
<1> SUFFICES ASSUME IInv, Deliver PROVE TInv'
  OBVIOUS
<1>1. changed = {} /\ given = Signed
  BY SignedSent DEF IInv, Untouched, Deliver, Hashed, VoleDone, Masked, Proved, Grinding, Delivered
<1>2. Sent' = Sent
  BY DEF Deliver, Sent, Chall3, CtrOf, CtrBytes, Opening
<1>3. Tampering'
  BY <1>1, <1>2, SignedSent DEF Deliver, Tampering, Parts
<1> QED
  BY <1>3 DEF Deliver, TInv, Absorbed, OnlySignedAccepted

LEMMA DeliverOtherInputTInv == IInv /\ DeliverOtherInput => TInv'
<1> SUFFICES ASSUME IInv, DeliverOtherInput PROVE TInv'
  OBVIOUS
<1>1. Sent' = Sent
  BY DEF DeliverOtherInput, Sent, Chall3, CtrOf, CtrBytes, Opening
<1>2. Mu(given') # Mu(Signed)
  BY DEF DeliverOtherInput, Mu, Signed
<1>3. Mu(given)' = Mu(given')
  BY DEF Mu
<1>4. Tampering'
  BY <1>1, <1>2, <1>3, SignedSent DEF DeliverOtherInput, Tampering, Parts
<1> QED
  BY <1>4 DEF DeliverOtherInput, TInv, Absorbed, OnlySignedAccepted

LEMMA DeliverAlteredTInv == IInv /\ DeliverAltered => TInv'
<1> SUFFICES ASSUME IInv, DeliverAltered PROVE TInv'
  OBVIOUS
<1>0. given = Signed /\ given' = given
  BY SignedSent DEF IInv, Untouched, DeliverAltered, Hashed, VoleDone, Masked, Proved, Grinding, Delivered
<1>1. Sent' = Sent
  BY DEF DeliverAltered, Sent, Chall3, CtrOf, CtrBytes, Opening
<1>2. PICK part \in Parts : \E x \in Altered(part) \ {sig[part]} :
         sig' = [sig EXCEPT ![part] = x] /\ changed' = {part}
  BY DEF DeliverAltered
<1>3. PICK x \in Altered(part) : x # sig[part] /\ sig' = [sig EXCEPT ![part] = x]
  BY <1>2
<1>4. DOMAIN sig = Parts
  BY DEF IInv, Typed
<1>5. /\ sig'[part] = x
      /\ \A p \in Parts \ {part} : sig'[p] = sig[p]
  BY <1>3, <1>4
<1>6. \A p \in Parts : sig'[p] = Sent[p] <=> p # part
  BY <1>3, <1>5, SignedSent DEF DeliverAltered
<1>7. sig'["chall_3"][3] = Final
  <2>1. CASE part = "chall_3"
    <3>1. PICK a \in Answers : x = <<"chall_3", a, sig["chall_3"][3]>>
      BY <2>1, <1>3 DEF Altered
    <3> QED
      BY <3>1, <2>1, <1>5, SignedSent DEF DeliverAltered
  <2>2. CASE part # "chall_3"
    <3>1. "chall_3" \in Parts
      BY DEF Parts
    <3> QED
      BY <3>1, <2>2, <1>5, SignedSent DEF DeliverAltered
  <2> QED
    BY <2>1, <2>2
<1>8. (Mu(given) = Mu(Signed))' /\ "given" \notin changed'
  BY <1>0, <1>2 DEF Mu, Parts
<1>9. Tampering'
  BY <1>1, <1>2, <1>6, <1>7, <1>8 DEF Tampering
<1> QED
  BY <1>9 DEF DeliverAltered, TInv, Absorbed, OnlySignedAccepted

(* The verifier changes neither its inputs nor the oracle.                 *)
LEMMA TamperingKept ==
  ASSUME Tampering, Delivered, UNCHANGED <<oracle, sig, ctr, given, changed>>
  PROVE  Tampering'
<1>1. Sent' = Sent
  BY DEF Sent, Chall3, CtrOf, CtrBytes, Opening
<1>2. Mu(given)' = Mu(given)
  BY DEF Mu
<1> QED
  BY <1>1, <1>2 DEF Tampering

LEMMA VerifyKeeps ==
  Verify => Delivered /\ UNCHANGED <<oracle, sig, ctr, key, given, changed>>
BY DEF Verify, RejectGrind, AllocateQ, Reconstruct, ReconstructFails, Respond, Compare, verifier,
       Hashed, VoleDone, Masked, Proved, Grinding, Delivered

LEMMA ReconstructTInv == IInv /\ TInv /\ Reconstruct => TInv'
<1> SUFFICES ASSUME IInv, TInv, Reconstruct PROVE TInv'
  OBVIOUS
<1>1. Tampering'
  BY TamperingKept, VerifyKeeps DEF Verify, TInv
<1>2. key = KeyTerm
  BY DEF IInv, SignerTerms, Reconstruct, Hashed
<1>3. VerifierIv' = VerifierIv /\ Delta' = Delta
  BY DEF Reconstruct, VerifierIv, Delta, DeltaOf, Iv
<1>4. OpeningFits' = OpeningFits
  BY <1>3 DEF Reconstruct, OpeningFits, Opening
<1>5. ~ OpeningFits => hcom' # Committed(KeyTerm)
  BY DEF Reconstruct, Committed
<1> QED
  BY <1>1, <1>4, <1>5 DEF Reconstruct, TInv, Absorbed, OnlySignedAccepted

LEMMA RespondTInv == IInv /\ TInv /\ Respond => TInv'
<1> SUFFICES ASSUME IInv, TInv, Respond PROVE TInv'
  OBVIOUS
<1>1. Tampering'
  BY TamperingKept, VerifyKeeps DEF Verify, TInv
<1>2. UNCHANGED <<sig, key, given, hcom>> /\ pc = "respond" /\ pc' = "compare"
  BY DEF Respond, verifier
<1>3. VerifierIv' = VerifierIv /\ Delta' = Delta /\ Mu(given)' = Mu(given)
  BY <1>2 DEF VerifierIv, Delta, DeltaOf, Iv, Mu
<1>4. OpeningFits' = OpeningFits
  BY <1>2, <1>3 DEF OpeningFits, Opening
<1> DEFINE chall1 == Chall1(Mu(given), hcom, sig["c"], VerifierIv)
<1>5. h2' = <<Chall2(BeforeD(chall1, sig["u_tilde"], Recovered(chall1)), sig["d"]),
              VerifierA0(Chall2(BeforeD(chall1, sig["u_tilde"], Recovered(chall1)), sig["d"])),
              sig["a1"], sig["a2"]>>
  BY DEF Respond
<1>6. /\ h2'[1][2][3] = Recovered(chall1)
      /\ h2' = <<Chall2(BeforeD(chall1, sig["u_tilde"], h2'[1][2][3]), sig["d"]),
                 h2'[2], sig["a1"], sig["a2"]>>
  BY <1>5 DEF Chall2, BeforeD
<1>7. Absorbed'
  BY <1>2, <1>3, <1>4, <1>6 DEF TInv, Absorbed, Chall1, Chall2, BeforeD
<1> QED
  BY <1>1, <1>2, <1>7 DEF TInv, OnlySignedAccepted

(* The last comparison binds every part but the counter.                   *)
LEMMA MatchBinds ==
  ASSUME IInv, TInv, Compare, Matches
  PROVE  OnlySignedAccepted'
<1> DEFINE chall1 == Chall1(Mu(given), hcom, sig["c"], VerifierIv)
           before == BeforeD(chall1, sig["u_tilde"], h2[1][2][3])
<1>1. /\ Tampering /\ Delivered
      /\ h2 = <<Chall2(before, sig["d"]), h2[2], sig["a1"], sig["a2"]>>
      /\ hcom = Committed(KeyTerm) => OpeningFits
      /\ key = KeyTerm
  BY VerifyKeeps DEF Verify, Compare, TInv, Absorbed, IInv, SignerTerms, Hashed
<1>2. /\ sig["chall_3"] = <<"chall_3", oracle[CtrOf(sig["ctr"])], h2>>
      /\ h2 = Final
  BY <1>1 DEF Matches, Chall3, CtrOf, CtrBytes, Tampering
<1>3. /\ Chall2(before, sig["d"]) = Ch2Term
      /\ sig["a1"] = ATerm("a1") /\ sig["a2"] = ATerm("a2")
  BY <1>1, <1>2 DEF Final
<1>4. before = Before /\ sig["d"] = DTerm
  BY <1>3 DEF Ch2Term, Chall2
<1>5. chall1 = Ch1Term /\ sig["u_tilde"] = UtTerm
  BY <1>4 DEF Before, BeforeD
<1>6. /\ Mu(given) = Mu(Signed) /\ hcom = Committed(KeyTerm)
      /\ sig["c"] = CTerm /\ VerifierIv = KeyTerm.iv
  BY <1>5 DEF Ch1Term, Chall1
<1>7. sig["iv_pre"] = PreTerm
  BY <1>6 DEF VerifierIv, KeyTerm, Iv
<1>8. sig["decom_i"] = Opening(KeyTerm, Delta)
  <2>1. [key EXCEPT !.iv = VerifierIv] = KeyTerm
    BY <1>1, <1>6 DEF KeyTerm
  <2> QED
    BY <1>1, <1>6, <2>1 DEF OpeningFits
<1>9. changed \cap {"given", "iv_pre", "c", "u_tilde", "d", "a1", "a2"} = {}
  BY <1>1, <1>3, <1>4, <1>5, <1>6, <1>7 DEF Tampering, Sent, Parts
<1>10. "chall_3" \notin changed
  <2> SUFFICES ASSUME "chall_3" \in changed PROVE FALSE
    OBVIOUS
  <2>1. "ctr" \notin changed
    BY <1>1 DEF Tampering
  <2>2. sig["ctr"] = CtrBytes(ctr)
    BY <2>1, <1>1 DEF Tampering, Sent, Parts
  <2>3. sig["chall_3"] = Sent["chall_3"]
    BY <2>2, <1>2 DEF Sent, Parts, Chall3, CtrOf, CtrBytes
  <2> QED
    BY <2>3, <1>1 DEF Tampering, Parts
<1>11. sig["chall_3"] = Chall3(Final, CtrBytes(ctr))
  BY <1>10, <1>1 DEF Tampering, Sent, Parts
<1>12. "decom_i" \notin changed
  <2>1. sig["decom_i"] = Sent["decom_i"]
    BY <1>8, <1>11 DEF Sent, Parts, Delta, DeltaOf, Chall3, CtrOf, CtrBytes
  <2> QED
    BY <2>1, <1>1 DEF Tampering, Parts
<1>13. changed \subseteq {"ctr"}
  BY <1>9, <1>10, <1>12 DEF IInv, Typed, Parts
<1>14. oracle[CtrOf(sig["ctr"])] = oracle[ctr]
  BY <1>2, <1>11 DEF Chall3, CtrOf, CtrBytes
<1>15. UNCHANGED <<oracle, sig, ctr, changed>>
  BY DEF Compare, verifier
<1> QED
  BY <1>13, <1>14, <1>15 DEF OnlySignedAccepted

LEMMA CompareTInv == IInv /\ TInv /\ Compare => TInv'
<1> SUFFICES ASSUME IInv, TInv, Compare PROVE TInv'
  OBVIOUS
<1>1. Tampering'
  BY TamperingKept, VerifyKeeps DEF Verify, TInv
<1>2. Absorbed'
  BY DEF Compare, Absorbed
<1>3. OnlySignedAccepted'
  <2>1. CASE Matches
    BY <2>1, MatchBinds
  <2>2. CASE ~ Matches
    BY <2>2 DEF Compare, OnlySignedAccepted
  <2> QED
    BY <2>1, <2>2
<1> QED
  BY <1>1, <1>2, <1>3 DEF TInv

(* The remaining steps of the verifier leave what TInv is about alone.     *)
LEMMA OtherVerifyTInv == TInv /\ (RejectGrind \/ AllocateQ \/ ReconstructFails) => TInv'
<1> SUFFICES ASSUME TInv, RejectGrind \/ AllocateQ \/ ReconstructFails PROVE TInv'
  OBVIOUS
<1>1. Tampering'
  BY TamperingKept, VerifyKeeps DEF Verify, TInv
<1>2. pc' \in {"rejected", "reconstruct"}
  BY DEF RejectGrind, AllocateQ, ReconstructFails
<1> QED
  BY <1>1, <1>2 DEF TInv, Absorbed, OnlySignedAccepted

LEMMA StutterTInv == TInv /\ UNCHANGED vars => TInv'
<1> SUFFICES ASSUME TInv, UNCHANGED vars PROVE TInv'
  OBVIOUS
<1>1. Sent' = Sent /\ Mu(given)' = Mu(given) /\ VerifierIv' = VerifierIv /\ Delta' = Delta
  BY DEF vars, Sent, Chall3, CtrOf, CtrBytes, Opening, Mu, VerifierIv, Iv, Delta, DeltaOf
<1>2. OpeningFits' = OpeningFits
  BY <1>1 DEF vars, OpeningFits, Opening
<1>3. Tampering'
  BY <1>1 DEF vars, TInv, Tampering, Hashed, VoleDone, Masked, Proved, Grinding, Delivered
<1>4. Absorbed'
  BY <1>1, <1>2 DEF vars, TInv, Absorbed, Chall1, Chall2, BeforeD
<1>5. OnlySignedAccepted'
  BY DEF vars, TInv, OnlySignedAccepted
<1> QED
  BY <1>3, <1>4, <1>5 DEF TInv

(* faest_verify accepts nothing but the message, the key and the signature *)
(* that faest_sign returned: the only part that may differ is the counter, *)
(* and only for one the oracle answers alike (OnlySignedAccepted).         *)
THEOREM NothingElseIsAccepted == Spec => []OnlySignedAccepted
<1>1. Init => TInv
  BY DEF Init, TInv, Tampering, Absorbed, OnlySignedAccepted, Hashed, VoleDone, Masked, Proved, Delivered
<1>2. IInv /\ TInv /\ [Next]_vars => TInv'
  BY SignTInv, DeliverTInv, DeliverOtherInputTInv, DeliverAlteredTInv, ReconstructTInv,
     RespondTInv, CompareTInv, OtherVerifyTInv, StutterTInv
     DEF Next, Delivery, Verify
<1>3. TInv => OnlySignedAccepted
  BY DEF TInv
<1> QED
  BY <1>1, <1>2, <1>3, Invariance, PTL DEF Spec
=============================================================================
