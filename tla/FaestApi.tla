------------------------------ MODULE FaestApi ------------------------------
(***************************************************************************)
(* The public functions of one parameter set (faest_param.c.in), called by *)
(* an application in any order: key generation, unpacking, validation, the *)
(* four ways of signing, verification and the clearing of keys.            *)
(*                                                                         *)
(* A key is two bytes: the first one is represented by its bits 0 and 1,   *)
(* all that the code looks at.  The one-way function, the witness and the  *)
(* signature are terms, with the acceptance of faest_verify that FaestSign *)
(* establishes.  rand_bytes behaves as RandomPromise says.                 *)
(***************************************************************************)
EXTENDS Integers, FiniteSets

CONSTANTS
  Tails,         \* values of the rest of a key
  Inputs,        \* inputs of the one-way function
  MaxCalls       \* bound on the calls of the application

ASSUME ZeroAssumption == 0 \in Tails /\ 0 \in Inputs

Size == 1                                 \* FAEST_*_SIGNATURE_SIZE, scaled
Keys == (0 .. 3) \X Tails
ZeroKey == <<0, 0>>
Messages == {"empty", "text"}

Signers == {"sign", "sign_with_randomness",
            "unpacked_sign", "unpacked_sign_with_randomness"}
Functions == Signers \cup {"keygen", "unpack", "validate", "verify"}

(* The pointers a function is given, and the lengths.                      *)
Pointers(f) ==
  CASE f \in {"keygen", "validate"} -> {"pk", "sk"}
    [] f = "unpack" -> {"unpacked_sk", "sk"}
    [] f = "verify" -> {"pk", "message", "signature"}
    [] f = "sign" -> {"sk", "message", "signature", "signature_len"}
    [] f = "sign_with_randomness" ->
         {"sk", "message", "rho", "signature", "signature_len"}
    [] f = "unpacked_sign" -> {"unpacked_sk", "message", "signature", "signature_len"}
    [] f = "unpacked_sign_with_randomness" ->
         {"unpacked_sk", "message", "rho", "signature", "signature_len"}

(* signature_len is what the pointer leads to; verify gets the length.     *)
Arguments(f) ==
  [null : SUBSET Pointers(f),
   message_len : IF "message" \in Pointers(f) THEN 0 .. 1 ELSE {0},
   rho_len : IF "rho" \in Pointers(f) THEN 0 .. 1 ELSE {0},
   signature_len : IF "signature" \in Pointers(f) THEN 0 .. Size + 1 ELSE {Size}]

VARIABLES
  sk, pk,        \* the application's key buffers
  unpacked,      \* its unpacked key
  signature,     \* its signature buffer
  siglen,        \* what its signature_len points to
  local,         \* the unpacked key on the stack of sign_with_randomness
  fn, arg,       \* the function called last and its arguments
  pc,            \* where in it the program is
  ret,           \* what it returned
  failed,        \* history: rand_bytes reported an error during the call
  worked,        \* history: the call got past its first check
  used,          \* history: the caller's pointers it has followed
  draw,          \* history: parity of the draws of keygen's loop
  calls

keys == <<sk, pk, unpacked>>
vars == <<sk, pk, unpacked, signature, siglen, local,
          fn, arg, pc, ret, failed, worked, used, draw, calls>>

-----------------------------------------------------------------------------
(* The one-way function and the witness, as terms.                         *)
Owf(k, x) == <<"owf", k, x>>
Witness(k, x) == <<"witness", k, x>>
Zeros == <<"zeros">>

Cleared == [input |-> 0, key |-> ZeroKey, output |-> Zeros, witness |-> Zeros]

(* ptr_get_bit(key, 0) & ptr_get_bit(key, 1).                              *)
BothBitsSet(k) == k[1] = 3

KeyOf(k) == [input |-> k.input, output |-> Owf(k.key, k.input)]

UnpackedStale(u, k) ==
  [input |-> k.input, key |-> k.key,
   output |-> u.output, witness |-> Witness(k.key, k.input)]
Unpacked(u, k) ==
  [input |-> k.input, key |-> k.key,
   output |-> Owf(k.key, k.input), witness |-> Witness(k.key, k.input)]

Validate(p, k) ==
  IF BothBitsSet(k.key) THEN 1 ELSE IF KeyOf(k) = p THEN 0 ELSE 2

(* faest_sign, and the signatures faest_verify accepts: made for this      *)
(* message and public key from a witness that satisfies the constraints.   *)
Signed(u, m) == <<"signature", u, m>>
Junk == <<"junk">>
Accepts(p, m, s) ==
  /\ s # Junk
  /\ s[3] = m
  /\ s[2].input = p.input /\ s[2].output = p.output
  /\ s[2].output = Owf(s[2].key, p.input)
  /\ s[2].witness = Witness(s[2].key, p.input)
  /\ ~BothBitsSet(s[2].key)

Message(a) == IF a.message_len = 0 THEN "empty" ELSE "text"

-----------------------------------------------------------------------------
(* The argument checks.  A null signature_len is not dereferenced.         *)
TooShort(n) == n < Size
MissingMessage(a) == "message" \in a.null /\ a.message_len > 0
MissingRhoWhenAny(a) == a.rho_len > 0
MissingRho(a) == "rho" \in a.null /\ a.rho_len > 0

BadOutput(a) ==
  \/ "signature" \in a.null \/ "signature_len" \in a.null
  \/ TooShort(a.signature_len)
BadSign(a) == "sk" \in a.null \/ BadOutput(a) \/ MissingMessage(a)
BadSignWithRandomness(a) == BadSign(a) \/ MissingRho(a)
BadUnpackedSign(a) == "unpacked_sk" \in a.null \/ BadOutput(a) \/ MissingMessage(a)
BadVerify(a) ==
  {"pk", "signature"} \cap a.null # {} \/ MissingMessage(a) \/ a.signature_len # Size

Refuses(f, a) ==
  CASE f \in {"keygen", "validate"} -> {"pk", "sk"} \cap a.null # {}
    [] f = "unpack"                 -> {"unpacked_sk", "sk"} \cap a.null # {}
    [] f = "sign"                   -> BadSign(a)
    [] f = "sign_with_randomness"   -> BadSignWithRandomness(a)
    [] f \in {"unpacked_sign", "unpacked_sign_with_randomness"} -> BadUnpackedSign(a)
    [] f = "verify"                 -> BadVerify(a)

(* The pointers that the work behind the checks follows, as long as there  *)
(* is anything to read; hash_r_iv tests rho itself.  For comparison, a     *)
(* test of the length alone.                                               *)
RhoAbsorbedUnchecked(a) == a.rho_len > 0
RhoAbsorbed(a) == "rho" \notin a.null /\ a.rho_len > 0
MessageUsed(a) == IF a.message_len > 0 THEN {"message"} ELSE {}
RhoUsed(a) == IF RhoAbsorbed(a) THEN {"rho"} ELSE {}

(* What the functions that sample rho pass on.                             *)
WithRho(a) == [a EXCEPT !.null = @ \ {"rho"}, !.rho_len = 1]

-----------------------------------------------------------------------------
NoCall == [null |-> {}, message_len |-> 0, rho_len |-> 0, signature_len |-> Size]

Init ==
  /\ sk \in [key : Keys, input : {0}]     \* whatever the buffer held
  /\ pk = [input |-> 0, output |-> Zeros]
  /\ unpacked = Cleared /\ local = Cleared
  /\ signature = Junk /\ siglen = Size
  /\ fn = "none" /\ arg = NoCall
  /\ pc = "returned" /\ ret = 0
  /\ failed = FALSE /\ worked = FALSE
  /\ used = {} /\ draw = 0
  /\ calls = 0

Return(r) == pc' = "returned" /\ ret' = r

(* The application calls f; siglen holds the length it passes.             *)
Call(f, a) ==
  /\ pc = "returned" /\ calls < MaxCalls
  /\ calls' = calls + 1
  /\ fn' = f
  /\ siglen' = IF f \in Signers THEN a.signature_len ELSE siglen
  /\ failed' = FALSE
  /\ UNCHANGED draw

Refused(f, a) ==
  /\ Call(f, a) /\ Refuses(f, a)
  /\ worked' = FALSE /\ arg' = NoCall /\ used' = {} /\ Return(-1)
  /\ UNCHANGED <<keys, signature, local>>

(* A call that passes the first check of f and goes on at point p.         *)
Enter(f, a, p) ==
  /\ Call(f, a) /\ ~Refuses(f, a)
  /\ worked' = TRUE /\ arg' = a /\ pc' = p
  /\ used' = Pointers(f) \cap {"signature_len"}     \* read by the check
  /\ UNCHANGED <<keys, signature, local, ret>>

(* A call that passes the first check, follows some pointers and returns r.*)
Answer(f, a, pointers, r) ==
  /\ Call(f, a) /\ ~Refuses(f, a)
  /\ worked' = TRUE /\ arg' = a /\ used' = pointers /\ Return(r)

-----------------------------------------------------------------------------
(* rand_bytes writes the first n bytes of a new value over an old one; it  *)
(* reports an error if that is not all.  Its result is ignored.            *)
KeyWritten(old, new, n) ==
  CASE n = 0 -> old [] n = 1 -> <<new[1], old[2]>> [] n = 2 -> new

Keygen(a) == Enter("keygen", a, "key")

RejectNever(k) == FALSE
RejectAlways(k) == TRUE
Reject(k) == BothBitsSet(k)

SampleKey(new, n) ==
  /\ pc = "key"
  /\ sk' = [sk EXCEPT !.key = KeyWritten(@, new, n)]
  /\ failed' = (failed \/ n < 2)
  /\ pc' = IF Reject(sk'.key) THEN "key" ELSE "input"
  /\ draw' = IF Reject(sk'.key) THEN 1 - draw ELSE 0
  /\ used' = used \cup {"sk"}
  /\ UNCHANGED <<pk, unpacked, signature, siglen, local, fn, arg, ret, worked, calls>>

SampleInput(new, n) ==
  /\ pc = "input"
  /\ sk' = [sk EXCEPT !.input = IF n = 1 THEN new ELSE @]
  /\ failed' = (failed \/ n < 1)
  /\ pc' = "derive"
  /\ used' = used \cup {"sk"}
  /\ UNCHANGED <<pk, unpacked, signature, siglen, local, fn, arg, ret, worked, draw, calls>>

Derive ==
  /\ pc = "derive"
  /\ pk' = KeyOf(sk)
  /\ used' = used \cup {"pk", "sk"}
  /\ Return(0)
  /\ UNCHANGED <<sk, unpacked, signature, siglen, local, fn, arg, failed, worked, draw, calls>>

-----------------------------------------------------------------------------
UnpackPrivateKey(a) ==
  /\ Answer("unpack", a, {"unpacked_sk", "sk"}, 0)
  /\ unpacked' = Unpacked(unpacked, sk)
  /\ UNCHANGED <<sk, pk, signature, local>>

ValidateKeypair(a) ==
  /\ Answer("validate", a, {"pk", "sk"}, Validate(pk, sk))
  /\ UNCHANGED <<keys, signature, local>>

Verify(a) ==
  /\ Answer("verify", a, {"pk", "signature"} \cup MessageUsed(a),
            IF Accepts(pk, Message(a), signature) THEN 0 ELSE -1)
  /\ UNCHANGED <<keys, signature, local>>

ClearPrivateKey ==
  /\ Call("clear", NoCall) /\ worked' = TRUE /\ arg' = NoCall /\ used' = {} /\ Return(0)
  /\ sk' = [key |-> ZeroKey, input |-> 0]
  /\ UNCHANGED <<pk, unpacked, signature, local>>

ClearUnpackedPrivateKey ==
  /\ Call("clear", NoCall) /\ worked' = TRUE /\ arg' = NoCall /\ used' = {} /\ Return(0)
  /\ unpacked' = Cleared
  /\ UNCHANGED <<sk, pk, signature, local>>

-----------------------------------------------------------------------------
Entry(f) ==
  CASE f \in {"sign", "unpacked_sign"}     -> "rho"
    [] f = "sign_with_randomness"          -> "unpack"
    [] f = "unpacked_sign_with_randomness" -> "seal"

Sign(f, a) == f \in Signers /\ Enter(f, a, Entry(f))

(* rho is sampled on the stack and the inner function called, whose checks *)
(* are made again.                                                         *)
SampleRho(full) ==
  /\ pc = "rho"
  /\ failed' = ~full
  /\ arg' = WithRho(arg)
  /\ IF fn = "sign" /\ BadSignWithRandomness(arg')
     THEN Return(-1)
     ELSE pc' = (IF fn = "sign" THEN "unpack" ELSE "seal") /\ UNCHANGED ret
  /\ UNCHANGED <<keys, signature, siglen, local, fn, worked, used, draw, calls>>

UnpackLocal ==
  /\ pc = "unpack"
  /\ local' = Unpacked(local, sk)
  /\ pc' = "seal"
  /\ used' = used \cup {"sk"}
  /\ UNCHANGED <<keys, signature, siglen, fn, arg, ret, failed, worked, draw, calls>>

OwnsLocal == fn \in {"sign", "sign_with_randomness"}

LocalCleared == Cleared

SealUses ==
  {"signature", "signature_len"} \cup MessageUsed(arg) \cup RhoUsed(arg)
    \cup (IF OwnsLocal THEN {} ELSE {"unpacked_sk"})

(* unpacked_sign_with_randomness, and the return through its callers.      *)
Seal ==
  /\ pc = "seal"
  /\ LET u == IF OwnsLocal THEN local ELSE unpacked IN
       IF BadUnpackedSign([arg EXCEPT !.null = IF OwnsLocal THEN @ \ {"unpacked_sk"} ELSE @])
       THEN Return(-1) /\ UNCHANGED <<signature, siglen, used>>
       ELSE /\ signature' = Signed(u, Message(arg)) /\ siglen' = Size
            /\ used' = used \cup SealUses
            /\ Return(0)
  /\ local' = IF OwnsLocal THEN LocalCleared ELSE local
  /\ UNCHANGED <<keys, fn, arg, failed, worked, draw, calls>>

-----------------------------------------------------------------------------
(* A call that the application makes, with any arguments.                  *)
Application ==
  \/ \E f \in Functions : \E a \in Arguments(f) : Refused(f, a)
  \/ \E f \in Signers : \E a \in Arguments(f) : Sign(f, a)
  \/ \E a \in Arguments("keygen") : Keygen(a)
  \/ \E a \in Arguments("unpack") : UnpackPrivateKey(a)
  \/ \E a \in Arguments("validate") : ValidateKeypair(a)
  \/ \E a \in Arguments("verify") : Verify(a)

Program ==
  \/ \E new \in Keys, n \in 0 .. 2 : SampleKey(new, n)
  \/ \E new \in Inputs, n \in 0 .. 1 : SampleInput(new, n)
  \/ Derive
  \/ \E full \in BOOLEAN : SampleRho(full)
  \/ UnpackLocal
  \/ Seal

Next == Application \/ ClearPrivateKey \/ ClearUnpackedPrivateKey \/ Program

(* The program does not stop inside a call.  Nothing is assumed about the  *)
(* random source, which may fail, or deliver keys that are rejected, for   *)
(* ever.                                                                   *)
Fairness == WF_vars(Program)

Spec == Init /\ [][Next]_vars /\ Fairness

-----------------------------------------------------------------------------
Done(f) == pc = "returned" /\ fn = f /\ ret = 0

(* Whatever the random source delivered, the key pair of a key generation  *)
(* that returned 0 is one that validate_keypair accepts                    *)
(* (faest_param.c.in:38-52, 78-86).                                        *)
KeygenValid == Done("keygen") => Validate(pk, sk) = 0

(* A signing function either refuses at its own first check or returns 0:  *)
(* the checks of the functions it calls never fail after work was done     *)
(* (faest_param.c.in:90, 107, 118, 129).                                   *)
RefusedAtOnce == pc = "returned" /\ fn \in Signers /\ ret = -1 => ~worked

(* A signature verifies under the public key that belongs to the secret    *)
(* key it was asked to sign with, however many keys came and went in the   *)
(* same buffers, and its length is reported                                *)
(* (faest_param.c.in:55-71, 128-138).                                      *)
SignedVerifies ==
  \A f \in Signers : Done(f) =>
    LET k == IF OwnsLocal THEN [key |-> sk.key, input |-> sk.input]
                          ELSE [key |-> unpacked.key, input |-> unpacked.input]
    IN /\ siglen = Size
       /\ ~BothBitsSet(k.key) /\ (OwnsLocal \/ unpacked # Cleared)
            => Accepts(KeyOf(k), Message(arg), signature)

(* Every call returns, but for a key generation whose source goes on to    *)
(* leave a key in the buffer that is rejected (faest_param.c.in:39-43).    *)
EveryCallReturns ==
  pc # "returned" ~> (pc = "returned" \/ [](pc = "key" /\ BothBitsSet(sk.key)))

(* No function follows a pointer that it was given as null: each checks    *)
(* for itself and for the functions it calls, a null message may come with *)
(* the length 0 only, and the one rho that no signing function checks is   *)
(* left out by faest_sign (faest_param.c.in:90, 107, 118, 129,             *)
(* faest_impl.c:197).                                                      *)
NoNullFollowed == used \cap arg.null = {}

(* "Generates a public and private key pair [...] Returns 0 for success, or *)
(* a nonzero value indicating an error" (faest_param.h.in:46, 51): a key   *)
(* generation that could not draw its randomness does not return 0.        *)
FailureReported == Done("keygen") => ~failed
=============================================================================
