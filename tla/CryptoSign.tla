----------------------------- MODULE CryptoSign -----------------------------
(***************************************************************************)
(* crypto_sign and crypto_sign_open (crypto_sign.c.in), the interface in   *)
(* which message and signature share one buffer.  The functions get        *)
(* addresses of one memory, so the message may lie anywhere with respect   *)
(* to the signed message: apart, at the same place (tests/api_test.c) or   *)
(* overlapping it.                                                         *)
(*                                                                         *)
(* A cell holds a value; a signature of Size cells is made for the values  *)
(* of the message, and faest_verify accepts it for those only (FaestSign). *)
(***************************************************************************)
EXTENDS Integers, Sequences, FiniteSets

CONSTANTS
  Cells,    \* number of cells of memory
  Size      \* FAEST_*_SIGNATURE_SIZE, in cells

ASSUME SizeAssumption == Cells \in Nat /\ Size \in Nat \ {0}

Addresses == 0 .. Cells - 1
Values == {"a", "b"}

VARIABLES
  mem,              \* the memory
  m, mlen,          \* address and length of the message to sign
  sm, smlen,        \* of the signed message
  out, outlen,      \* where crypto_sign_open puts the message, and *mlen
  k,                \* index of the memmove that is running
  given,            \* history: the message as it was before signing
  before,           \* history: the memory when the function was called
  damaged,          \* history: the signed message was changed on the way
  pc, ret

vars == <<mem, m, mlen, sm, smlen, out, outlen, k, given, before, damaged, pc, ret>>

None == -1

At(a, n) == [x \in 1 .. n |-> mem[a + x - 1]]

Init ==
  /\ mem \in [Addresses -> {<<"v", x>> : x \in Values}]
  /\ mlen \in 0 .. Cells - Size
  /\ m \in 0 .. Cells - mlen /\ sm \in 0 .. Cells - mlen - Size
  /\ smlen = None /\ out = None /\ outlen = None
  /\ k = 0
  /\ given = At(m, mlen) /\ before = mem /\ damaged = FALSE
  /\ pc = "sign" /\ ret = "pending"

-----------------------------------------------------------------------------
(* memmove copies a cell at a time, from the end that is safe.             *)
NextCellUp(to, from, n) == k
NextCell(to, from, n) == IF to <= from THEN k ELSE n - 1 - k


MoveCell(to, from, n) ==
  LET x == NextCell(to, from, n) IN mem' = [mem EXCEPT ![to + x] = mem[from + x]]

(* crypto_sign: *smlen first, then the message moves to its place.         *)
StartSign ==
  /\ pc = "sign"
  /\ smlen' = mlen + Size
  /\ k' = 0 /\ pc' = "move in"
  /\ UNCHANGED <<mem, m, mlen, sm, out, outlen, given, before, damaged, ret>>

MoveIn ==
  /\ pc = "move in" /\ k < mlen
  /\ MoveCell(sm, m, mlen)
  /\ k' = k + 1
  /\ UNCHANGED <<m, mlen, sm, smlen, out, outlen, given, before, damaged, pc, ret>>

(* faest_sign of the moved message into the cells behind it.               *)
SignaturePlaceFront == sm
SignaturePlace == sm + mlen

Seal ==
  /\ pc = "move in" /\ k = mlen
  /\ mem' = [a \in Addresses |->
               IF a \in SignaturePlace .. SignaturePlace + Size - 1
               THEN <<"s", a - SignaturePlace, At(sm, mlen)>> ELSE mem[a]]
  /\ ret' = "ok" /\ pc' = "signed"
  /\ UNCHANGED <<m, mlen, sm, smlen, out, outlen, k, given, before, damaged>>

(* faest_sign refuses, a null key for instance (FaestApi): its result is   *)
(* handed on, with the message moved and *smlen set all the same.          *)
SealFails ==
  /\ pc = "move in" /\ k = mlen
  /\ ret' = "rejected" /\ pc' = "unsigned"
  /\ UNCHANGED <<mem, m, mlen, sm, smlen, out, outlen, k, given, before, damaged>>

(* The signed message may be cut short or changed in one cell, and is then *)
(* opened at any place that holds a message of its length.                 *)
Deliver(o) ==
  /\ pc = "signed"
  /\ \/ UNCHANGED <<mem, smlen, damaged>>
     \/ /\ \E n \in 0 .. smlen - 1 : smlen' = n
        /\ damaged' = TRUE /\ UNCHANGED mem
     \/ /\ \E a \in sm .. sm + smlen - 1, x \in Values :
             mem[a] # <<"v", x>> /\ mem' = [mem EXCEPT ![a] = <<"v", x>>]
        /\ damaged' = TRUE /\ UNCHANGED smlen
  /\ out' = o /\ before' = mem'
  /\ ret' = "pending" /\ pc' = "open"
  /\ UNCHANGED <<m, mlen, sm, outlen, k, given>>

-----------------------------------------------------------------------------
MessageLength == smlen - Size

TooShort == smlen < Size

(* faest_verify over the first MessageLength cells and the Size cells that *)
(* follow them.                                                            *)
Verifies ==
  \A x \in 0 .. Size - 1 :
    mem[sm + MessageLength + x] = <<"s", x, At(sm, MessageLength)>>

Accepted == ~TooShort /\ Verifies

RejectOpenEarlyLength ==
  /\ pc = "open" /\ ~Accepted
  /\ ret' = "rejected" /\ pc' = "opened"
  /\ outlen' = (IF TooShort THEN outlen ELSE MessageLength)
  /\ UNCHANGED <<mem, m, mlen, sm, smlen, out, k, given, before, damaged>>

RejectOpen ==
  /\ pc = "open" /\ ~Accepted
  /\ ret' = "rejected" /\ pc' = "opened"
  /\ UNCHANGED <<mem, m, mlen, sm, smlen, out, outlen, k, given, before, damaged>>

(* *mlen is set and the message moved only after verification.             *)
AcceptOpen ==
  /\ pc = "open" /\ Accepted
  /\ outlen' = MessageLength
  /\ k' = 0 /\ pc' = "move out"
  /\ UNCHANGED <<mem, m, mlen, sm, smlen, out, given, before, damaged, ret>>

MoveOut ==
  /\ pc = "move out" /\ k < outlen
  /\ MoveCell(out, sm, outlen)
  /\ k' = k + 1
  /\ UNCHANGED <<m, mlen, sm, smlen, out, outlen, given, before, damaged, pc, ret>>

Opened ==
  /\ pc = "move out" /\ k = outlen
  /\ ret' = "ok" /\ pc' = "opened"
  /\ UNCHANGED <<mem, m, mlen, sm, smlen, out, outlen, k, given, before, damaged>>

Next ==
  \/ StartSign \/ MoveIn \/ Seal \/ SealFails
  \/ \E o \in 0 .. Cells - mlen : Deliver(o)
  \/ RejectOpen \/ AcceptOpen \/ MoveOut \/ Opened

Spec == Init /\ [][Next]_vars /\ WF_vars(Next)

-----------------------------------------------------------------------------
(* What opens is the message that was signed, at the place asked for,      *)
(* wherever the buffers lay; nothing that was changed or cut short opens   *)
(* (crypto_sign.c.in:26, 37-44).                                           *)
OpensToMessage ==
  pc = "opened" /\ ret = "ok" =>
    ~damaged /\ outlen = mlen /\ At(out, outlen) = given

(* A signed message that arrived as it was made opens                      *)
(* (crypto_sign.c.in:23-30, 38-39).                                        *)
IntactOpens == pc = "opened" /\ ~damaged => ret = "ok"

(* Signing writes the signed message and no other cell, whether it         *)
(* succeeds or not, opening the message and no other cell, and an opening  *)
(* that fails writes nothing                                               *)
(* (crypto_sign.c.in:25-29, 34-44).                                        *)
OtherCellsUntouched ==
  LET Written == CASE pc \in {"sign", "move in", "signed", "unsigned"} ->
                        IF smlen = None THEN {} ELSE sm .. sm + smlen - 1
                   [] pc = "open" -> {}
                   [] pc \in {"move out", "opened"} ->
                        IF outlen = None THEN {} ELSE out .. out + outlen - 1
  IN /\ \A a \in Addresses \ Written : mem[a] = before[a]
     /\ ret = "rejected" => outlen = None
=============================================================================
