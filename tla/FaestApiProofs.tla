--------------------------- MODULE FaestApiProofs ---------------------------
(***************************************************************************)
(* Theorems about the public functions of a parameter set, for every set   *)
(* of keys and inputs and for any number of calls in any order.            *)
(***************************************************************************)
EXTENDS FaestApi, TLAPS

(* The unpacked key that belongs to key k and input x.                     *)
Made(k, x) == [input |-> x, key |-> k, output |-> Owf(k, x), witness |-> Witness(k, x)]
UnpackedKeys == {Made(k, x) : k \in Keys, x \in Inputs} \cup {Cleared}

AllPointers == {"pk", "sk", "unpacked_sk", "message", "rho", "signature", "signature_len"}
Args == [null : SUBSET AllPointers, message_len : 0 .. 1, rho_len : 0 .. 1,
         signature_len : 0 .. Size + 1]

(***************************************************************************)
(* The inductive invariant.                                                *)
(***************************************************************************)
(* What the buffers hold: a secret key, and unpacked keys that are whole   *)
(* or cleared, never half of one.                                          *)
Typed ==
  /\ sk \in [key : Keys, input : Inputs]
  /\ unpacked \in UnpackedKeys
  /\ arg \in Args
  /\ pc \in {"returned", "key", "input", "derive", "rho", "unpack", "seal"}

(* Inside a call the program is in the function the application called.    *)
InFunction ==
  /\ pc \in {"key", "input", "derive"} => fn = "keygen"
  /\ pc = "rho" => fn \in {"sign", "unpacked_sign"}
  /\ pc = "unpack" => OwnsLocal
  /\ pc = "seal" => fn \in Signers

(* Once a key has been drawn its two bits are not both set, and a key      *)
(* generation that returned 0 leaves a pair that belongs together.         *)
KeyDrawn ==
  /\ pc \in {"input", "derive"} => ~ BothBitsSet(sk.key)
  /\ Done("keygen") => pk = KeyOf(sk) /\ ~ BothBitsSet(sk.key)

(* What was passed has been checked, for the function and all it calls.    *)
Checked ==
  pc \in {"rho", "unpack", "seal"} =>
    /\ ~ BadOutput(arg) /\ ~ MissingMessage(arg)
    /\ OwnsLocal => "sk" \notin arg.null
    /\ ~ OwnsLocal => "unpacked_sk" \notin arg.null
NoLateRefusal == pc = "returned" /\ fn \in Signers /\ worked => ret = 0

(* The key on the stack is that of the secret key, and the signature is    *)
(* made with the unpacked key the caller meant.                            *)
LocalMade == pc = "seal" /\ OwnsLocal => local = Made(sk.key, sk.input)
SignatureMade ==
  pc = "returned" /\ fn \in Signers /\ ret = 0 =>
    /\ siglen = Size
    /\ signature = Signed(IF OwnsLocal THEN Made(sk.key, sk.input) ELSE unpacked,
                          Message(arg))

IInv ==
  /\ Typed /\ InFunction /\ KeyDrawn /\ Checked /\ NoLateRefusal
  /\ LocalMade /\ SignatureMade

-----------------------------------------------------------------------------
LEMMA PointersTyped == \A f \in Functions : Pointers(f) \subseteq AllPointers
<1> SUFFICES ASSUME NEW f \in Functions PROVE Pointers(f) \subseteq AllPointers
  OBVIOUS
<1>1. CASE f \in {"keygen", "validate"}
  <2>1. Pointers(f) = {"pk", "sk"}
    BY <1>1, Zenon DEF Pointers
  <2> QED
    BY <2>1 DEF AllPointers
<1>2. CASE f = "unpack"
  <2>1. Pointers(f) = {"unpacked_sk", "sk"}
    BY <1>2 DEF Pointers
  <2> QED
    BY <2>1 DEF AllPointers
<1>3. CASE f = "verify"
  <2>1. Pointers(f) = {"pk", "message", "signature"}
    BY <1>3 DEF Pointers
  <2> QED
    BY <2>1 DEF AllPointers
<1>4. CASE f = "sign"
  <2>1. Pointers(f) = {"sk", "message", "signature", "signature_len"}
    BY <1>4 DEF Pointers
  <2> QED
    BY <2>1 DEF AllPointers
<1>5. CASE f = "sign_with_randomness"
  <2>1. Pointers(f) = {"sk", "message", "rho", "signature", "signature_len"}
    BY <1>5 DEF Pointers
  <2> QED
    BY <2>1 DEF AllPointers
<1>6. CASE f = "unpacked_sign"
  <2>1. Pointers(f) = {"unpacked_sk", "message", "signature", "signature_len"}
    BY <1>6 DEF Pointers
  <2> QED
    BY <2>1 DEF AllPointers
<1>7. CASE f = "unpacked_sign_with_randomness"
  <2>1. Pointers(f) = {"unpacked_sk", "message", "rho", "signature", "signature_len"}
    BY <1>7 DEF Pointers
  <2> QED
    BY <2>1 DEF AllPointers
<1> QED
  BY <1>1, <1>2, <1>3, <1>4, <1>5, <1>6, <1>7 DEF Functions, Signers

LEMMA ArgumentsTyped == \A f \in Functions : Arguments(f) \subseteq Args
<1> SUFFICES ASSUME NEW f \in Functions, NEW a \in Arguments(f) PROVE a \in Args
  OBVIOUS
<1>1. Pointers(f) \subseteq AllPointers
  BY PointersTyped
<1>2. PICK P : P = Pointers(f)
  OBVIOUS
<1>3. a \in [null : SUBSET P,
             message_len : IF "message" \in P THEN 0 .. 1 ELSE {0},
             rho_len : IF "rho" \in P THEN 0 .. 1 ELSE {0},
             signature_len : IF "signature" \in P THEN 0 .. Size + 1 ELSE {Size}]
  BY <1>2, Zenon DEF Arguments
<1> QED
  BY <1>1, <1>2, <1>3 DEF Args, Size

(* What the first check of a signing function means for the calls it makes. *)
LEMMA SignersCheck ==
  ASSUME NEW f \in Signers, NEW a, ~ Refuses(f, a)
  PROVE  /\ ~ BadOutput(a) /\ ~ MissingMessage(a)
         /\ f \in {"sign", "sign_with_randomness"} => "sk" \notin a.null
         /\ f \notin {"sign", "sign_with_randomness"} => "unpacked_sk" \notin a.null
<1>1. CASE f = "sign"
  <2>1. Refuses(f, a) = BadSign(a)
    BY <1>1 DEF Refuses
  <2> QED
    BY <1>1, <2>1 DEF BadSign
<1>2. CASE f = "sign_with_randomness"
  <2>1. Refuses(f, a) = BadSignWithRandomness(a)
    BY <1>2 DEF Refuses
  <2> QED
    BY <1>2, <2>1 DEF BadSignWithRandomness, BadSign
<1>3. CASE f \in {"unpacked_sign", "unpacked_sign_with_randomness"}
  <2>1. Refuses(f, a) = BadUnpackedSign(a)
    <3>1. CASE f = "unpacked_sign"
      BY <3>1 DEF Refuses
    <3>2. CASE f = "unpacked_sign_with_randomness"
      BY <3>2 DEF Refuses
    <3> QED
      BY <1>3, <3>1, <3>2
  <2> QED
    BY <1>3, <2>1 DEF BadUnpackedSign
<1> QED
  BY <1>1, <1>2, <1>3 DEF Signers

LEMMA EntryPoints ==
  ASSUME NEW f \in Signers
  PROVE  /\ Entry(f) \in {"rho", "unpack", "seal"}
         /\ Entry(f) = "rho" => f \in {"sign", "unpacked_sign"}
         /\ Entry(f) = "unpack" => f = "sign_with_randomness"
         /\ Entry(f) = "seal" => f = "unpacked_sign_with_randomness"
<1>1. CASE f \in {"sign", "unpacked_sign"}
  <2>1. Entry(f) = "rho"
    BY <1>1, Zenon DEF Entry
  <2> QED
    BY <1>1, <2>1
<1>2. CASE f = "sign_with_randomness"
  <2>1. Entry(f) = "unpack"
    BY <1>2 DEF Entry
  <2> QED
    BY <1>2, <2>1
<1>3. CASE f = "unpacked_sign_with_randomness"
  <2>1. Entry(f) = "seal"
    BY <1>3 DEF Entry
  <2> QED
    BY <1>3, <2>1
<1> QED
  BY <1>1, <1>2, <1>3 DEF Signers

LEMMA KeyWrittenTyped ==
  ASSUME NEW old \in Keys, NEW new \in Keys, NEW n \in 0 .. 2
  PROVE  KeyWritten(old, new, n) \in Keys
<1>1. <<new[1], old[2]>> \in Keys
  BY DEF Keys
<1>2. CASE n = 0
  <2>1. KeyWritten(old, new, 0) = old
    BY DEF KeyWritten
  <2> QED
    BY <1>2, <2>1
<1>3. CASE n = 1
  <2>1. 1 # 0
    OBVIOUS
  <2>2. KeyWritten(old, new, 1) = <<new[1], old[2]>>
    BY DEF KeyWritten
  <2> QED
    BY <1>1, <1>3, <2>2
<1>4. CASE n = 2
  <2>2. KeyWritten(old, new, 2) = new
    BY DEF KeyWritten
  <2> QED
    BY <1>4, <2>2
<1> QED
  BY <1>2, <1>3, <1>4

LEMMA UnpackedMade ==
  ASSUME NEW u, NEW k
  PROVE  Unpacked(u, k) = Made(k.key, k.input)
BY DEF Unpacked, Made

-----------------------------------------------------------------------------
LEMMA Initially == Init => IInv
<1> SUFFICES ASSUME Init PROVE IInv
  OBVIOUS
<1>1. Typed
  <2>1. sk \in [key : Keys, input : Inputs]
    BY ZeroAssumption DEF Init
  <2>2. arg \in Args
    BY DEF Init, NoCall, Args, Size
  <2> QED
    BY <2>1, <2>2 DEF Init, Typed, UnpackedKeys
<1>2. InFunction /\ KeyDrawn /\ Checked /\ NoLateRefusal /\ LocalMade /\ SignatureMade
  BY DEF Init, InFunction, KeyDrawn, Done, Checked, NoLateRefusal, LocalMade,
         SignatureMade, Signers
<1> QED
  BY <1>1, <1>2 DEF IInv

(* A call that is refused.                                                 *)
LEMMA RefusedKeeps ==
  ASSUME IInv, NEW f \in Functions, NEW a \in Arguments(f), Refused(f, a)
  PROVE  IInv'
<1> USE DEF Refused, Call, Return, keys
<1>1. Typed'
  BY DEF IInv, Typed, NoCall, Args, Size
<1>2. (InFunction /\ KeyDrawn /\ Checked /\ NoLateRefusal /\ LocalMade /\ SignatureMade)'
  BY DEF InFunction, KeyDrawn, Done, Checked, NoLateRefusal, LocalMade, SignatureMade
<1> QED
  BY <1>1, <1>2 DEF IInv

(* A signing function that passes its first check.                         *)
LEMMA SignKeeps ==
  ASSUME IInv, NEW f \in Signers, NEW a \in Arguments(f), Sign(f, a)
  PROVE  IInv'
<1>1. /\ ~ Refuses(f, a) /\ fn' = f /\ arg' = a /\ pc' = Entry(f) /\ worked'
      /\ UNCHANGED <<sk, pk, unpacked, signature, local, ret>>
  BY DEF Sign, Enter, Call, keys
<1>2. /\ Entry(f) \in {"rho", "unpack", "seal"}
      /\ Entry(f) = "rho" => f \in {"sign", "unpacked_sign"}
      /\ Entry(f) = "unpack" => f = "sign_with_randomness"
      /\ Entry(f) = "seal" => f = "unpacked_sign_with_randomness"
  BY EntryPoints
<1>3. Typed'
  <2>1. a \in Args
    BY ArgumentsTyped DEF Functions
  <2> QED
    BY <1>1, <1>2, <2>1 DEF IInv, Typed
<1>4. InFunction'
  BY <1>1, <1>2 DEF InFunction, OwnsLocal, Signers
<1>5. Checked'
  <2>1. /\ ~ BadOutput(a) /\ ~ MissingMessage(a)
        /\ f \in {"sign", "sign_with_randomness"} => "sk" \notin a.null
        /\ f \notin {"sign", "sign_with_randomness"} => "unpacked_sk" \notin a.null
    BY <1>1, SignersCheck
  <2> QED
    BY <1>1, <2>1 DEF Checked, OwnsLocal
<1>6. (KeyDrawn /\ NoLateRefusal /\ SignatureMade)'
  BY <1>1, <1>2 DEF KeyDrawn, Done, NoLateRefusal, SignatureMade
<1>7. LocalMade'
  BY <1>1, <1>2 DEF LocalMade, OwnsLocal
<1> QED
  BY <1>3, <1>4, <1>5, <1>6, <1>7 DEF IInv

LEMMA KeygenKeeps ==
  ASSUME IInv, NEW a \in Arguments("keygen"), Keygen(a)
  PROVE  IInv'
<1>1. /\ fn' = "keygen" /\ arg' = a /\ pc' = "key"
      /\ UNCHANGED <<sk, pk, unpacked, signature, local, ret>>
  BY DEF Keygen, Enter, Call, keys
<1>2. Typed'
  <2>1. a \in Args
    BY ArgumentsTyped DEF Functions
  <2> QED
    BY <1>1, <2>1 DEF IInv, Typed
<1>3. (InFunction /\ KeyDrawn /\ Checked /\ NoLateRefusal /\ LocalMade /\ SignatureMade)'
  BY <1>1 DEF InFunction, KeyDrawn, Done, Checked, NoLateRefusal, LocalMade, SignatureMade,
              Signers
<1> QED
  BY <1>2, <1>3 DEF IInv

(* The calls that are over in one step: they are no signing functions and  *)
(* no key generation, and leave the keys whole.                            *)
LEMMA AnswerKeeps ==
  ASSUME IInv, NEW f, f \notin Signers, f # "keygen",
         pc' = "returned", fn' = f, arg' \in Args,
         (sk \in [key : Keys, input : Inputs])', (unpacked \in UnpackedKeys)'
  PROVE  IInv'
<1>1. Typed'
  BY DEF Typed
<1>2. (InFunction /\ KeyDrawn /\ Checked /\ NoLateRefusal /\ LocalMade /\ SignatureMade)'
  BY DEF InFunction, KeyDrawn, Done, Checked, NoLateRefusal, LocalMade, SignatureMade
<1> QED
  BY <1>1, <1>2 DEF IInv

LEMMA UnpackKeeps ==
  ASSUME IInv, NEW a \in Arguments("unpack"), UnpackPrivateKey(a)
  PROVE  IInv'
<1>1. /\ fn' = "unpack" /\ arg' = a /\ pc' = "returned" /\ sk' = sk
      /\ unpacked' = Unpacked(unpacked, sk)
  BY DEF UnpackPrivateKey, Answer, Call, Return
<1>2. a \in Args
  BY ArgumentsTyped DEF Functions
<1>3. unpacked' \in UnpackedKeys
  BY <1>1, UnpackedMade DEF IInv, Typed, UnpackedKeys
<1>4. "unpack" \notin Signers /\ "unpack" # "keygen"
  BY DEF Signers
<1> QED
  BY <1>1, <1>2, <1>3, <1>4, AnswerKeeps DEF IInv, Typed

LEMMA QueryKeeps ==
  ASSUME IInv,
         \/ \E a \in Arguments("validate") : ValidateKeypair(a)
         \/ \E a \in Arguments("verify") : Verify(a)
  PROVE  IInv'
<1>1. PICK f \in {"validate", "verify"} : \E a \in Arguments(f) :
        /\ fn' = f /\ arg' = a /\ pc' = "returned" /\ sk' = sk /\ unpacked' = unpacked
  BY DEF ValidateKeypair, Verify, Answer, Call, Return, keys
<1>2. arg' \in Args
  BY <1>1, ArgumentsTyped DEF Functions
<1>3. f \notin Signers /\ f # "keygen"
  BY DEF Signers
<1> QED
  BY <1>1, <1>2, <1>3, AnswerKeeps DEF IInv, Typed

LEMMA ClearKeeps ==
  ASSUME IInv, ClearPrivateKey \/ ClearUnpackedPrivateKey
  PROVE  IInv'
<1>1. NoCall \in Args
  BY DEF NoCall, Args, Size
<1>2. "clear" \notin Signers /\ "clear" # "keygen"
  BY DEF Signers
<1>3. CASE ClearPrivateKey
  <2>1. /\ fn' = "clear" /\ arg' = NoCall /\ pc' = "returned"
        /\ sk' = [key |-> ZeroKey, input |-> 0] /\ unpacked' = unpacked
    BY <1>3 DEF ClearPrivateKey, Call, Return
  <2>2. sk' \in [key : Keys, input : Inputs]
    BY <2>1, ZeroAssumption DEF ZeroKey, Keys
  <2> QED
    BY <1>1, <1>2, <2>1, <2>2, AnswerKeeps DEF IInv, Typed
<1>4. CASE ClearUnpackedPrivateKey
  <2>1. /\ fn' = "clear" /\ arg' = NoCall /\ pc' = "returned"
        /\ sk' = sk /\ unpacked' = Cleared
    BY <1>4 DEF ClearUnpackedPrivateKey, Call, Return
  <2> QED
    BY <1>1, <1>2, <2>1, AnswerKeeps DEF IInv, Typed, UnpackedKeys
<1> QED
  BY <1>3, <1>4

-----------------------------------------------------------------------------
LEMMA SampleKeyKeeps ==
  ASSUME IInv, NEW new \in Keys, NEW n \in 0 .. 2, SampleKey(new, n)
  PROVE  IInv'
<1>1. /\ pc = "key" /\ sk' = [sk EXCEPT !.key = KeyWritten(sk.key, new, n)]
      /\ UNCHANGED <<unpacked, local, fn, arg>>
  BY DEF SampleKey
<1>2. sk' \in [key : Keys, input : Inputs]
  <2>1. KeyWritten(sk.key, new, n) \in Keys
    BY KeyWrittenTyped DEF IInv, Typed
  <2> QED
    BY <1>1, <2>1 DEF IInv, Typed
<1>3. pc' \in {"key", "input"} /\ (pc' = "input" => ~ BothBitsSet(sk'.key))
  BY DEF SampleKey, Reject
<1>4. Typed'
  BY <1>1, <1>2, <1>3 DEF IInv, Typed
<1>5. (InFunction /\ KeyDrawn /\ Checked /\ NoLateRefusal /\ LocalMade /\ SignatureMade)'
  BY <1>1, <1>3 DEF IInv, InFunction, KeyDrawn, Done, Checked, NoLateRefusal, LocalMade,
                    SignatureMade
<1> QED
  BY <1>4, <1>5 DEF IInv

LEMMA SampleInputKeeps ==
  ASSUME IInv, NEW new \in Inputs, NEW n \in 0 .. 1, SampleInput(new, n)
  PROVE  IInv'
<1>1. /\ pc = "input" /\ pc' = "derive"
      /\ sk' = [sk EXCEPT !.input = IF n = 1 THEN new ELSE sk.input]
      /\ UNCHANGED <<unpacked, local, fn, arg>>
  BY DEF SampleInput
<1>2. sk' \in [key : Keys, input : Inputs] /\ sk'.key = sk.key
  BY <1>1 DEF IInv, Typed
<1>3. Typed'
  BY <1>1, <1>2 DEF IInv, Typed
<1>4. KeyDrawn'
  <2>1. ~ BothBitsSet(sk.key)
    BY <1>1 DEF IInv, KeyDrawn
  <2>2. ~ BothBitsSet(sk'.key)
    BY <1>2, <2>1
  <2> QED
    BY <1>1, <2>2 DEF KeyDrawn, Done
<1>5. (InFunction /\ Checked /\ NoLateRefusal /\ LocalMade /\ SignatureMade)'
  BY <1>1 DEF IInv, InFunction, Checked, NoLateRefusal, LocalMade, SignatureMade
<1> QED
  BY <1>3, <1>4, <1>5 DEF IInv

LEMMA DeriveKeeps ==
  ASSUME IInv, Derive
  PROVE  IInv'
<1>1. /\ pc = "derive" /\ pc' = "returned" /\ pk' = KeyOf(sk) /\ fn = "keygen"
      /\ UNCHANGED <<sk, unpacked, fn, arg>>
  BY DEF Derive, Return, IInv, InFunction
<1>2. Typed'
  BY <1>1 DEF IInv, Typed
<1>3. KeyDrawn'
  <2>1. ~ BothBitsSet(sk.key)
    BY <1>1 DEF IInv, KeyDrawn
  <2> QED
    BY <1>1, <2>1 DEF KeyDrawn
<1>4. (InFunction /\ Checked /\ NoLateRefusal /\ LocalMade /\ SignatureMade)'
  BY <1>1 DEF InFunction, Checked, NoLateRefusal, LocalMade, SignatureMade, Signers
<1> QED
  BY <1>2, <1>3, <1>4 DEF IInv

-----------------------------------------------------------------------------
(* The inner function checks again what has been checked already.          *)
LEMMA SampleRhoKeeps ==
  ASSUME IInv, NEW full \in BOOLEAN, SampleRho(full)
  PROVE  IInv'
<1>1. /\ pc = "rho" /\ fn \in {"sign", "unpacked_sign"} /\ arg \in Args
      /\ arg' = WithRho(arg)
      /\ ~ BadOutput(arg) /\ ~ MissingMessage(arg)
      /\ fn = "sign" => "sk" \notin arg.null
      /\ fn = "unpacked_sign" => "unpacked_sk" \notin arg.null
      /\ UNCHANGED <<sk, pk, unpacked, signature, local, fn>>
  BY DEF IInv, Typed, InFunction, Checked, OwnsLocal, SampleRho, keys
<1>2. /\ arg' \in Args
      /\ arg'.null \subseteq arg.null /\ "rho" \notin arg'.null
      /\ arg'.message_len = arg.message_len /\ arg'.signature_len = arg.signature_len
  <2>1. PICK b \in Args : b = arg
    BY <1>1
  <2>2. /\ WithRho(b).null = b.null \ {"rho"}
        /\ WithRho(b).message_len = b.message_len
        /\ WithRho(b).signature_len = b.signature_len
    BY DEF WithRho, Args
  <2>3. WithRho(b) \in Args
    <3>1. PICK S : S = 0 .. Size + 1
      OBVIOUS
    <3>2. b \in [null : SUBSET AllPointers, message_len : 0 .. 1, rho_len : 0 .. 1,
                 signature_len : S]
      BY <3>1 DEF Args
    <3>3. b.null \ {"rho"} \in SUBSET AllPointers /\ 1 \in 0 .. 1
      BY <3>2
    <3>4. [b EXCEPT !.null = b.null \ {"rho"}, !.rho_len = 1] \in
            [null : SUBSET AllPointers, message_len : 0 .. 1, rho_len : 0 .. 1,
             signature_len : S]
      BY <3>2, <3>3
    <3> QED
      BY <3>1, <3>4 DEF WithRho, Args
  <2> QED
    BY <1>1, <2>1, <2>2, <2>3
<1>3. ~ BadOutput(arg') /\ ~ MissingMessage(arg') /\ ~ MissingRho(arg')
  BY <1>1, <1>2 DEF BadOutput, MissingMessage, MissingRho, TooShort
<1>4. /\ pc' = (IF fn = "sign" THEN "unpack" ELSE "seal")
  <2>1. fn = "sign" => ~ BadSignWithRandomness(arg')
    BY <1>1, <1>2, <1>3 DEF BadSignWithRandomness, BadSign
  <2> QED
    BY <2>1 DEF SampleRho
<1>5. Typed'
  BY <1>1, <1>2, <1>4 DEF IInv, Typed
<1>6. InFunction'
  BY <1>1, <1>4 DEF InFunction, OwnsLocal, Signers
<1>7. Checked'
  BY <1>1, <1>2, <1>3 DEF Checked, OwnsLocal
<1>8. (KeyDrawn /\ NoLateRefusal /\ LocalMade /\ SignatureMade)'
  BY <1>1, <1>4 DEF KeyDrawn, Done, NoLateRefusal, LocalMade, OwnsLocal, SignatureMade
<1> QED
  BY <1>5, <1>6, <1>7, <1>8 DEF IInv

LEMMA UnpackLocalKeeps ==
  ASSUME IInv, UnpackLocal
  PROVE  IInv'
<1>1. /\ pc = "unpack" /\ pc' = "seal" /\ OwnsLocal
      /\ local' = Unpacked(local, sk)
      /\ UNCHANGED <<sk, pk, unpacked, signature, fn, arg>>
  BY DEF IInv, InFunction, UnpackLocal, keys
<1>2. Typed'
  BY <1>1 DEF IInv, Typed
<1>3. InFunction'
  BY <1>1 DEF InFunction, OwnsLocal, Signers
<1>4. Checked'
  BY <1>1 DEF IInv, Checked, OwnsLocal
<1>5. LocalMade'
  BY <1>1, UnpackedMade DEF LocalMade
<1>6. (KeyDrawn /\ NoLateRefusal /\ SignatureMade)'
  BY <1>1 DEF KeyDrawn, Done, NoLateRefusal, SignatureMade
<1> QED
  BY <1>2, <1>3, <1>4, <1>5, <1>6 DEF IInv

LEMMA SealKeeps ==
  ASSUME IInv, Seal
  PROVE  IInv'
<1> DEFINE inner == [arg EXCEPT !.null = IF OwnsLocal THEN arg.null \ {"unpacked_sk"}
                                         ELSE arg.null]
           u == IF OwnsLocal THEN local ELSE unpacked
<1>1. /\ pc = "seal" /\ fn \in Signers /\ arg \in Args
      /\ ~ BadOutput(arg) /\ ~ MissingMessage(arg)
      /\ ~ OwnsLocal => "unpacked_sk" \notin arg.null
      /\ UNCHANGED <<sk, pk, unpacked, fn, arg>>
  BY DEF IInv, Typed, InFunction, Checked, Seal, keys
<1>2. /\ inner.null \subseteq arg.null /\ "unpacked_sk" \notin inner.null
      /\ inner.message_len = arg.message_len /\ inner.signature_len = arg.signature_len
  BY <1>1 DEF Args
<1>3. ~ BadUnpackedSign(inner)
  BY <1>1, <1>2 DEF BadUnpackedSign, BadOutput, MissingMessage, TooShort
<1>4. /\ signature' = Signed(u, Message(arg)) /\ siglen' = Size
      /\ pc' = "returned" /\ ret' = 0
  BY <1>3 DEF Seal, Return
<1>5. Typed'
  BY <1>1, <1>4 DEF IInv, Typed
<1>6. SignatureMade'
  <2>1. u = IF OwnsLocal THEN Made(sk.key, sk.input) ELSE unpacked
    BY <1>1 DEF IInv, LocalMade
  <2> QED
    BY <1>1, <1>4, <2>1 DEF SignatureMade, OwnsLocal
<1>7. (InFunction /\ KeyDrawn /\ Checked /\ NoLateRefusal /\ LocalMade)'
  BY <1>1, <1>4 DEF InFunction, KeyDrawn, Done, Checked, NoLateRefusal, LocalMade, Signers
<1> QED
  BY <1>5, <1>6, <1>7 DEF IInv

-----------------------------------------------------------------------------
LEMMA Inductive == IInv /\ [Next]_vars => IInv'
<1> SUFFICES ASSUME IInv, [Next]_vars PROVE IInv'
  OBVIOUS
<1>1. CASE UNCHANGED vars
  BY <1>1 DEF vars, IInv, Typed, InFunction, KeyDrawn, Done, Checked, NoLateRefusal,
              LocalMade, SignatureMade, OwnsLocal
<1>2. CASE Application
  <2>1. CASE \E f \in Functions : \E a \in Arguments(f) : Refused(f, a)
    BY <2>1, RefusedKeeps
  <2>2. CASE \E f \in Signers : \E a \in Arguments(f) : Sign(f, a)
    BY <2>2, SignKeeps
  <2>3. CASE \E a \in Arguments("keygen") : Keygen(a)
    BY <2>3, KeygenKeeps
  <2>4. CASE \E a \in Arguments("unpack") : UnpackPrivateKey(a)
    BY <2>4, UnpackKeeps
  <2>5. CASE \/ \E a \in Arguments("validate") : ValidateKeypair(a)
             \/ \E a \in Arguments("verify") : Verify(a)
    BY <2>5, QueryKeeps
  <2> QED
    BY <1>2, <2>1, <2>2, <2>3, <2>4, <2>5 DEF Application
<1>3. CASE ClearPrivateKey \/ ClearUnpackedPrivateKey
  BY <1>3, ClearKeeps
<1>4. CASE Program
  BY <1>4, SampleKeyKeeps, SampleInputKeeps, DeriveKeeps, SampleRhoKeeps,
     UnpackLocalKeeps, SealKeeps DEF Program
<1> QED
  BY <1>1, <1>2, <1>3, <1>4 DEF Next

LEMMA Invariant == Spec => []IInv
BY Initially, Inductive, PTL DEF Spec

(* The key pair of a key generation that returned 0 is one that            *)
(* validate_keypair accepts, whatever the random source delivered          *)
(* (faest_param.c.in:38-52, 78-86).                                        *)
THEOREM GeneratedIsValid == Spec => []KeygenValid
<1>1. IInv => KeygenValid
  BY DEF IInv, KeyDrawn, KeygenValid, Validate
<1> QED
  BY <1>1, Invariant, PTL

(* A signing function refuses at its own first check or returns 0: no      *)
(* check of the functions it calls fails after work was done               *)
(* (faest_param.c.in:90, 107, 118, 129).                                   *)
THEOREM NoRefusalAfterWork == Spec => []RefusedAtOnce
<1>1. IInv => RefusedAtOnce
  BY DEF IInv, NoLateRefusal, RefusedAtOnce
<1> QED
  BY <1>1, Invariant, PTL

(* Every signature that is returned verifies under the public key of the   *)
(* secret key it was asked to sign with, after any sequence of calls       *)
(* (faest_param.c.in:55-71, 128-138).                                      *)
THEOREM SignaturesVerify == Spec => []SignedVerifies
<1>1. ASSUME IInv, NEW f \in Signers, Done(f)
      PROVE  LET k == IF OwnsLocal THEN [key |-> sk.key, input |-> sk.input]
                      ELSE [key |-> unpacked.key, input |-> unpacked.input]
             IN /\ siglen = Size
                /\ ~BothBitsSet(k.key) /\ (OwnsLocal \/ unpacked # Cleared)
                     => Accepts(KeyOf(k), Message(arg), signature)
  <2> DEFINE u == IF OwnsLocal THEN Made(sk.key, sk.input) ELSE unpacked
  <2>1. siglen = Size /\ signature = Signed(u, Message(arg))
    BY <1>1 DEF IInv, SignatureMade, Done
  <2>2. ASSUME NEW kk, NEW x, u = Made(kk, x), ~ BothBitsSet(kk)
        PROVE  Accepts(KeyOf([key |-> kk, input |-> x]), Message(arg), signature)
    <3>1. signature = <<"signature", Made(kk, x), Message(arg)>>
      BY <2>1, <2>2 DEF Signed
    <3>2. signature # Junk /\ signature[3] = Message(arg) /\ signature[2] = Made(kk, x)
      BY <3>1 DEF Junk
    <3>3. KeyOf([key |-> kk, input |-> x]) = [input |-> x, output |-> Owf(kk, x)]
      BY DEF KeyOf
    <3> QED
      BY <2>2, <3>2, <3>3 DEF Accepts, Made
  <2>3. CASE OwnsLocal
    BY <2>1, <2>2, <2>3
  <2>4. CASE ~ OwnsLocal
    <3>1. CASE unpacked = Cleared
      BY <2>1, <2>4, <3>1
    <3>2. CASE unpacked # Cleared
      <4>1. PICK kk \in Keys, x \in Inputs : unpacked = Made(kk, x)
        BY <1>1, <3>2 DEF IInv, Typed, UnpackedKeys
      <4>2. unpacked.key = kk /\ unpacked.input = x
        BY <4>1 DEF Made
      <4> QED
        BY <2>1, <2>2, <2>4, <4>1, <4>2
    <3> QED
      BY <3>1, <3>2
  <2> QED
    BY <2>3, <2>4
<1>2. IInv => SignedVerifies
  BY <1>1 DEF SignedVerifies
<1> QED
  BY <1>2, Invariant, PTL
-----------------------------------------------------------------------------
(***************************************************************************)
(* No null pointer is followed: inductive relative to IInv, with what the  *)
(* check of the key generation established.                                *)
(***************************************************************************)
KeygenChecked == pc \in {"key", "input", "derive"} => {"pk", "sk"} \cap arg.null = {}
NInv == NoNullFollowed /\ KeygenChecked

(* What passes the first check of a function that is no signing function.  *)
LEMMA OthersCheck ==
  ASSUME NEW a
  PROVE  /\ ~ Refuses("keygen", a) => {"pk", "sk"} \cap a.null = {}
         /\ ~ Refuses("validate", a) => {"pk", "sk"} \cap a.null = {}
         /\ ~ Refuses("unpack", a) => {"unpacked_sk", "sk"} \cap a.null = {}
         /\ ~ Refuses("verify", a) => ({"pk", "signature"} \cup MessageUsed(a)) \cap a.null = {}
<1>1. Refuses("keygen", a) <=> {"pk", "sk"} \cap a.null # {}
  BY Zenon DEF Refuses
<1>2. Refuses("validate", a) <=> {"pk", "sk"} \cap a.null # {}
  BY Zenon DEF Refuses
<1>3. Refuses("unpack", a) <=> {"unpacked_sk", "sk"} \cap a.null # {}
  BY DEF Refuses
<1>4. ~ Refuses("verify", a) => ({"pk", "signature"} \cup MessageUsed(a)) \cap a.null = {}
  <2>1. Refuses("verify", a) <=> BadVerify(a)
    BY DEF Refuses
  <2> QED
    BY <2>1 DEF BadVerify, MissingMessage, MessageUsed
<1> QED
  BY <1>1, <1>2, <1>3, <1>4

(* The calls.                                                              *)
LEMMA RefusedNull ==
  ASSUME NEW f \in Functions, NEW a \in Arguments(f), Refused(f, a)
  PROVE  NInv'
<1>1. used' = {} /\ pc' = "returned"
  BY DEF Refused, Return
<1> QED
  BY <1>1 DEF NInv, NoNullFollowed, KeygenChecked

LEMMA SignNull ==
  ASSUME NEW f \in Signers, NEW a \in Arguments(f), Sign(f, a)
  PROVE  NInv'
<1>1. /\ ~ Refuses(f, a) /\ arg' = a /\ pc' = Entry(f) /\ used' \subseteq {"signature_len"}
  BY DEF Sign, Enter
<1>2. "signature_len" \notin a.null
  BY <1>1, SignersCheck DEF BadOutput
<1>3. pc' \in {"rho", "unpack", "seal"}
  BY <1>1, EntryPoints
<1> QED
  BY <1>1, <1>2, <1>3 DEF NInv, NoNullFollowed, KeygenChecked

LEMMA KeygenNull ==
  ASSUME NEW a \in Arguments("keygen"), Keygen(a)
  PROVE  NInv'
<1>1. ~ Refuses("keygen", a) /\ arg' = a
  BY DEF Keygen, Enter
<1>2. used' = {}
  <2>1. Pointers("keygen") = {"pk", "sk"}
    BY Zenon DEF Pointers
  <2> QED
    BY <2>1 DEF Keygen, Enter
<1>3. {"pk", "sk"} \cap a.null = {}
  BY <1>1, OthersCheck
<1> QED
  BY <1>1, <1>2, <1>3 DEF NInv, NoNullFollowed, KeygenChecked

LEMMA AnswersNull ==
  ASSUME \/ \E a \in Arguments("unpack") : UnpackPrivateKey(a)
         \/ \E a \in Arguments("validate") : ValidateKeypair(a)
         \/ \E a \in Arguments("verify") : Verify(a)
  PROVE  NInv'
<1>1. CASE \E a \in Arguments("unpack") : UnpackPrivateKey(a)
  <2>1. PICK a : ~ Refuses("unpack", a) /\ arg' = a /\ pc' = "returned" /\ used' = {"unpacked_sk", "sk"}
    BY <1>1 DEF UnpackPrivateKey, Answer, Return
  <2> QED
    BY <2>1, OthersCheck DEF NInv, NoNullFollowed, KeygenChecked
<1>2. CASE \E a \in Arguments("validate") : ValidateKeypair(a)
  <2>1. PICK a : ~ Refuses("validate", a) /\ arg' = a /\ pc' = "returned" /\ used' = {"pk", "sk"}
    BY <1>2 DEF ValidateKeypair, Answer, Return
  <2> QED
    BY <2>1, OthersCheck DEF NInv, NoNullFollowed, KeygenChecked
<1>3. CASE \E a \in Arguments("verify") : Verify(a)
  <2>1. PICK a : /\ ~ Refuses("verify", a) /\ arg' = a /\ pc' = "returned"
                 /\ used' = {"pk", "signature"} \cup MessageUsed(a)
    BY <1>3 DEF Verify, Answer, Return
  <2> QED
    BY <2>1, OthersCheck DEF NInv, NoNullFollowed, KeygenChecked
<1> QED
  BY <1>1, <1>2, <1>3

LEMMA ClearNull ==
  ASSUME ClearPrivateKey \/ ClearUnpackedPrivateKey
  PROVE  NInv'
<1>1. used' = {} /\ pc' = "returned"
  BY DEF ClearPrivateKey, ClearUnpackedPrivateKey, Return
<1> QED
  BY <1>1 DEF NInv, NoNullFollowed, KeygenChecked

(* The steps inside a call.                                                *)
LEMMA KeygenStepsNull ==
  ASSUME NInv,
         \/ \E new \in Keys, n \in 0 .. 2 : SampleKey(new, n)
         \/ \E new \in Inputs, n \in 0 .. 1 : SampleInput(new, n)
         \/ Derive
  PROVE  NInv'
<1>1. /\ pc \in {"key", "input", "derive"} /\ arg' = arg
      /\ used' \subseteq used \cup {"pk", "sk"}
  BY DEF SampleKey, SampleInput, Derive
<1> QED
  BY <1>1 DEF NInv, NoNullFollowed, KeygenChecked

LEMMA SampleRhoNull ==
  ASSUME IInv, NInv, NEW full \in BOOLEAN, SampleRho(full)
  PROVE  NInv'
<1>1. arg \in Args /\ arg' = WithRho(arg) /\ used' = used
      /\ pc' \in {"returned", "unpack", "seal"}
  BY DEF IInv, Typed, SampleRho, Return
<1>2. arg'.null \subseteq arg.null
  BY <1>1 DEF WithRho, Args
<1> QED
  BY <1>1, <1>2 DEF NInv, NoNullFollowed, KeygenChecked

LEMMA UnpackLocalNull ==
  ASSUME IInv, NInv, UnpackLocal
  PROVE  NInv'
<1>1. /\ pc = "unpack" /\ pc' = "seal" /\ arg' = arg
      /\ used' = used \cup {"sk"} /\ "sk" \notin arg.null
  BY DEF IInv, InFunction, Checked, UnpackLocal
<1> QED
  BY <1>1 DEF NInv, NoNullFollowed, KeygenChecked

LEMMA SealNull ==
  ASSUME IInv, NInv, Seal
  PROVE  NInv'
<1>1. /\ arg' = arg /\ pc' = "returned"
      /\ used' = used \/ used' = used \cup SealUses
      /\ ~ BadOutput(arg) /\ ~ MissingMessage(arg)
      /\ ~ OwnsLocal => "unpacked_sk" \notin arg.null
  BY DEF IInv, Checked, Seal, Return
<1>2. SealUses \cap arg.null = {}
  <2>1. MessageUsed(arg) \cap arg.null = {}
    BY <1>1 DEF MessageUsed, MissingMessage
  <2>2. RhoUsed(arg) \cap arg.null = {}
    BY DEF RhoUsed, RhoAbsorbed
  <2> QED
    BY <1>1, <2>1, <2>2 DEF SealUses, BadOutput
<1> QED
  BY <1>1, <1>2 DEF NInv, NoNullFollowed, KeygenChecked

(* A null pointer that a caller passes is never followed, in any order of  *)
(* calls: every function checks for itself and for those it calls, and the *)
(* one rho that passes unchecked is left out of the hash                   *)
(* (faest_param.c.in:90, 107, 118, 129, faest_impl.c:197).                 *)
THEOREM NullIsNotFollowed == Spec => []NoNullFollowed
<1>1. Init => NInv
  BY DEF Init, NInv, NoNullFollowed, KeygenChecked
<1>2. IInv /\ NInv /\ [Next]_vars => NInv'
  <2> SUFFICES ASSUME IInv, NInv, [Next]_vars PROVE NInv'
    OBVIOUS
  <2>1. CASE UNCHANGED vars
    BY <2>1 DEF vars, NInv, NoNullFollowed, KeygenChecked
  <2>2. CASE Application
    BY <2>2, RefusedNull, SignNull, KeygenNull, AnswersNull DEF Application
  <2>3. CASE ClearPrivateKey \/ ClearUnpackedPrivateKey
    BY <2>3, ClearNull
  <2>4. CASE Program
    BY <2>4, KeygenStepsNull, SampleRhoNull, UnpackLocalNull, SealNull DEF Program
  <2> QED
    BY <2>1, <2>2, <2>3, <2>4 DEF Next
<1>3. NInv => NoNullFollowed
  BY DEF NInv
<1> QED
  BY <1>1, <1>2, <1>3, Invariant, PTL DEF Spec
=============================================================================
