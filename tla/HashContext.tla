----------------------------- MODULE HashContext -----------------------------
(***************************************************************************)
(* The random oracles H_0 to H_4 (random_oracle.c), over hash_shake.h and  *)
(* the sponge of sha3/, as built without another SHAKE library.            *)
(*                                                                         *)
(* The permutation is symbolic: the state of a sponge is the sequence of   *)
(* blocks that were permuted into it and what was added to its bytes       *)
(* since, a set for each, which xor makes it.  A byte squeezed is named by *)
(* the state it comes from and its place in it.  That sha3/ keeps the      *)
(* bytes eight to a word and splits every access accordingly is left out:  *)
(* AddByte, AddBytes and ExtractBytes do what the accesses amount to.      *)
(*                                                                         *)
(* Left out because no call of random_oracle.c gets there: a message that  *)
(* ends within a byte, absorbing after the sponge has been finished, and   *)
(* squeezing before.                                                       *)
(*                                                                         *)
(* `todo` holds the primitives (hash_update, hash_final, hash_squeeze,     *)
(* hash_clear) that the call in progress still has to make.  Context 2 is  *)
(* a copy of context 1, which H_2 alone is used with and the grinding loop *)
(* makes, or a new one after context 1 has been cleared.                   *)
(***************************************************************************)
EXTENDS Integers, Sequences, Functions

CONSTANTS
  Rate128,     \* bytes of a block of SHAKE128
  Rate256,     \* and of SHAKE256
  MaxMessage,  \* how many bytes a context is fed at most
  MaxSqueezes  \* how often H0_squeeze is called

ASSUME RatesAssumption ==
  /\ Rate128 \in Nat \ {0} /\ Rate256 \in Nat \ {0}
  /\ MaxMessage \in Nat /\ MaxSqueezes \in Nat

Contexts == {1, 2}

VARIABLES
  sponge,  \* the contexts
  msg,     \* history: the bytes a context was fed
  fn,      \* history: the function that ended it
  given,   \* the bytes squeezed from it
  use,     \* history: the contexts' stage, as the callers know it
  copied,  \* history: context 2 is a copy
  cur,     \* the context of the call in progress
  todo,    \* what remains of the call
  done     \* i of the loops of absorbing and squeezing

vars == <<sponge, msg, fn, given, use, copied, cur, todo, done>>

-----------------------------------------------------------------------------
(* The sponge.                                                             *)
Plus(a, b) == (a \ b) \union (b \ a)
NoLanes(rate) == [l \in 0 .. rate - 1 |-> {}]

SpongeInitialize(rate) ==
  [rate |-> rate, blocks |-> <<>>, lanes |-> NoLanes(rate), index |-> 0, squeezing |-> FALSE]

(* hash_init: SHAKE128 for 128 bits, else SHAKE256.                        *)
HashInit(security) ==
  SpongeInitialize(IF security = 128 THEN Rate128 ELSE Rate256)

Permute(s) == [s EXCEPT !.blocks = Append(@, s.lanes), !.lanes = NoLanes(s.rate)]
AddByte(s, byte, at) == [s EXCEPT !.lanes[at] = Plus(@, {byte})]
AddBytes(s, bytes, at) ==
  [s EXCEPT !.lanes = [l \in DOMAIN s.lanes |->
     IF l - at \in 0 .. Len(bytes) - 1 THEN Plus(s.lanes[l], {bytes[l - at + 1]}) ELSE s.lanes[l]]]
ExtractBytes(s, at, n) ==
  [x \in 1 .. n |-> [after |-> s.blocks, plus |-> s.lanes[at + x - 1], lane |-> at + x - 1]]

(* The suffix of SHAKE includes the first bit of the padding.              *)
Suffix == 31
SecondBit == 128

AbsorbLastFewBits(s, delimited) ==
  LET t == AddByte(s, delimited, s.index)
      u == IF delimited >= 128 /\ s.index = s.rate - 1 THEN Permute(t) ELSE t
  IN  [Permute(AddByte(u, SecondBit, s.rate - 1)) EXCEPT !.index = 0, !.squeezing = TRUE]

-----------------------------------------------------------------------------
Op(name, data, n) == [op |-> name, data |-> data, n |-> n]
Absorb(data) == Op("update", data, 0)
Final        == Op("final", <<>>, 0)
Squeeze(n)   == Op("squeeze", <<>>, n)
Clear        == Op("clear", <<>>, 0)

(* The bytes that keep the functions apart; for comparison, a slip.        *)
DomainByteShared(f) ==
  CASE f = "H0" -> 0 [] f = "H1" -> 1 [] f = "H3" -> 3 [] f = "H4" -> 4
    [] f = "H2_0" -> 8 [] f = "H2_1" -> 9 [] f = "H2_2" -> 10 [] f = "H2_3" -> 10
DomainByte(f) ==
  CASE f = "H0" -> 0 [] f = "H1" -> 1 [] f = "H3" -> 3 [] f = "H4" -> 4
    [] f = "H2_0" -> 8 + 0 [] f = "H2_1" -> 8 + 1 [] f = "H2_2" -> 8 + 2 [] f = "H2_3" -> 8 + 3
Finals == {"H1", "H2_0", "H2_1", "H2_2", "H2_3", "H3", "H4"}

Size == 1 + sponge[1].rate     \* digests; more than one block
IvSize == 2

(* Starts a call on context c.                                             *)
Begin(c, ops) ==
  /\ todo = <<>>
  /\ cur' = c
  /\ todo' = ops
  /\ done' = 0

(* hash_update with the next n bytes of a message, each of its own value,  *)
(* or, once, with a byte that is also a domain byte.                       *)
Updates(c) ==
  {[x \in 1 .. n |-> 100 + Len(msg[c]) + x] : n \in 1 .. MaxMessage - Len(msg[c])}
    \union {<<d>> : d \in {DomainByte("H2_0")} \ Range(msg[c])}

Update(c) ==
  /\ use[c] = "absorbing"
  /\ \E data \in Updates(c) :
       /\ Len(msg[c]) + Len(data) <= MaxMessage
       /\ msg' = [msg EXCEPT ![c] = @ \o data]
       /\ Begin(c, <<Absorb(data)>>)
  /\ UNCHANGED <<sponge, fn, given, use, copied>>

(* H2_copy.                                                                *)
Copy ==
  /\ todo = <<>> /\ use[1] = "absorbing" /\ use[2] = "unused"
  /\ sponge' = [sponge EXCEPT ![2] = sponge[1]]
  /\ msg' = [msg EXCEPT ![2] = msg[1]]
  /\ use' = [use EXCEPT ![2] = "absorbing"]
  /\ copied' = TRUE
  /\ UNCHANGED <<fn, given, cur, todo, done>>

(* H*_init once more.                                                      *)
Renew ==
  /\ todo = <<>> /\ use[1] = "cleared" /\ use[2] = "unused"
  /\ sponge' = [sponge EXCEPT ![2] = SpongeInitialize(sponge[1].rate)]
  /\ use' = [use EXCEPT ![2] = "absorbing"]
  /\ UNCHANGED <<msg, fn, given, copied, cur, todo, done>>

(* H1_final, H2_*_final, H3_final, H4: the last two write an iv.           *)
Finish(c, f) ==
  /\ use[c] = "absorbing" /\ (copied => f \notin {"H1", "H3", "H4"})
  /\ Begin(c, <<Absorb(<<DomainByte(f)>>), Final>>
              \o (CASE f = "H3" -> <<Squeeze(Size), Squeeze(IvSize)>>
                    [] f = "H4" -> <<Squeeze(IvSize)>>
                    [] OTHER    -> <<Squeeze(Size)>>)
              \o <<Clear>>)
  /\ fn' = [fn EXCEPT ![c] = f]
  /\ UNCHANGED <<sponge, msg, given, use, copied>>

(* H0_final; H0_final_for_squeeze, H0_squeeze and H0_clear.                *)
FinishH0(c) ==
  /\ use[c] = "absorbing" /\ ~copied
  /\ \/ Begin(c, <<Absorb(<<DomainByte("H0")>>), Final, Squeeze(Size), Squeeze(2 * Size), Clear>>)
     \/ Begin(c, <<Absorb(<<DomainByte("H0")>>), Final>>)
  /\ fn' = [fn EXCEPT ![c] = "H0"]
  /\ UNCHANGED <<sponge, msg, given, use, copied>>

SqueezeH0(c, n) ==
  /\ use[c] = "squeezing" /\ Len(given[c]) + n <= MaxSqueezes * Size
  /\ Begin(c, <<Squeeze(n)>>)
  /\ UNCHANGED <<sponge, msg, fn, given, use, copied>>

ClearH0(c) ==
  /\ use[c] = "squeezing"
  /\ Begin(c, <<Clear>>)
  /\ UNCHANGED <<sponge, msg, fn, given, use, copied>>

-----------------------------------------------------------------------------
(* The primitives, a turn of the loops of SpongeAbsorb and of SpongeSqueeze*)
(* a step.                                                                 *)
s == sponge[cur]
Running(name) == todo # <<>> /\ Head(todo).op = name
Left == IF Running("update") THEN Len(Head(todo).data) - done ELSE Head(todo).n - done
Set(t) == sponge' = [sponge EXCEPT ![cur] = t]

(* A whole block, if the queue is empty; for comparison, in any case.  The *)
(* queue stays empty, so the next turn is again one of the inner loop as   *)
(* long as there is a block.                                               *)
WholeAnyway(t) == Left >= t.rate
Whole(t) == t.index = 0 /\ Left >= t.rate
AbsorbBlock ==
  /\ Running("update") /\ Whole(s)
  /\ Set(Permute(AddBytes(s, SubSeq(Head(todo).data, done + 1, done + s.rate), 0)))
  /\ done' = done + s.rate
  /\ UNCHANGED <<msg, fn, given, use, copied, cur, todo>>

(* Else what fits into the block.                                          *)
Partial(t) == IF Left + t.index > t.rate THEN t.rate - t.index ELSE Left

AbsorbPart ==
  /\ Running("update") /\ Left > 0 /\ ~Whole(s)
  /\ LET n == Partial(s)
         t == [AddBytes(s, SubSeq(Head(todo).data, done + 1, done + n), s.index)
                 EXCEPT !.index = @ + n]
     IN  /\ Set(IF t.index = t.rate THEN [Permute(t) EXCEPT !.index = 0] ELSE t)
         /\ done' = done + n
  /\ UNCHANGED <<msg, fn, given, use, copied, cur, todo>>

Return == todo' = Tail(todo) /\ done' = 0

AbsorbEnd ==
  /\ Running("update") /\ Left = 0
  /\ Return
  /\ UNCHANGED <<sponge, msg, fn, given, use, copied, cur>>

(* Keccak_HashFinal; it squeezes no bytes.                                 *)
HashFinal ==
  /\ Running("final")
  /\ Set(AbsorbLastFewBits(s, Suffix))
  /\ use' = [use EXCEPT ![cur] = "squeezing"]
  /\ Return
  /\ UNCHANGED <<msg, fn, given, copied, cur>>

(* A block is permuted only when a byte of the next one is asked for.      *)
Exhausted(t) == t.index = t.rate

SqueezeBlock ==
  /\ Running("squeeze") /\ s.squeezing
  /\ Exhausted(s) /\ Left >= s.rate
  /\ LET t == Permute(s)
     IN  /\ Set(t)
         /\ given' = [given EXCEPT ![cur] = @ \o ExtractBytes(t, 0, s.rate)]
  /\ done' = done + s.rate
  /\ UNCHANGED <<msg, fn, use, copied, cur, todo>>

SqueezePart ==
  /\ Running("squeeze") /\ s.squeezing /\ Left > 0
  /\ ~(Exhausted(s) /\ Left >= s.rate)
  /\ LET t == IF Exhausted(s) THEN [Permute(s) EXCEPT !.index = 0] ELSE s
         n == Partial(t)
     IN  /\ Set([t EXCEPT !.index = @ + n])
         /\ given' = [given EXCEPT ![cur] = @ \o ExtractBytes(t, t.index, n)]
         /\ done' = done + n
  /\ UNCHANGED <<msg, fn, use, copied, cur, todo>>

SqueezeEnd ==
  /\ Running("squeeze") /\ Left = 0
  /\ Return
  /\ UNCHANGED <<sponge, msg, fn, given, use, copied, cur>>

HashClear ==
  /\ Running("clear")
  /\ use' = [use EXCEPT ![cur] = "cleared"]
  /\ Return
  /\ UNCHANGED <<sponge, msg, fn, given, copied, cur>>

-----------------------------------------------------------------------------
Init ==
  /\ \E security \in {128, 192, 256} : sponge = [c \in Contexts |-> HashInit(security)]
  /\ msg = [c \in Contexts |-> <<>>]
  /\ fn = [c \in Contexts |-> "none"]
  /\ given = [c \in Contexts |-> <<>>]
  /\ use = [c \in Contexts |-> IF c = 1 THEN "absorbing" ELSE "unused"]
  /\ copied = FALSE /\ cur = 1 /\ todo = <<>> /\ done = 0

Primitive ==
  \/ AbsorbBlock \/ AbsorbPart \/ AbsorbEnd
  \/ HashFinal
  \/ SqueezeBlock \/ SqueezePart \/ SqueezeEnd
  \/ HashClear

Next ==
  \/ Primitive
  \/ Copy \/ Renew
  \/ \E c \in Contexts :
       \/ Update(c)
       \/ \E f \in Finals : Finish(c, f)
       \/ FinishH0(c) \/ ClearH0(c)
       \/ \E n \in {1, 2 * Size - 1} : SqueezeH0(c, n)

Spec == Init /\ [][Next]_vars

-----------------------------------------------------------------------------
(* SHAKE by its definition: the message, the suffix and the padding in     *)
(* blocks, and one more permutation for every further block of output.     *)
Padded(m, rate) ==
  LET last == Len(m) \div rate
      Lane(q) == IF q < Len(m) THEN {m[q + 1]} ELSE IF q = Len(m) THEN {Suffix} ELSE {}
  IN  [k \in 1 .. last + 1 |-> [l \in 0 .. rate - 1 |->
         Lane((k - 1) * rate + l)
           \union (IF k = last + 1 /\ l = rate - 1 THEN {SecondBit} ELSE {})]]
Stream(m, rate, n) ==
  [after |-> Padded(m, rate) \o [k \in 1 .. n \div rate |-> NoLanes(rate)],
   plus |-> {}, lane |-> n % rate]

(* What a context gives is the stream of the message it was fed and its    *)
(* function's byte, from its start and without a gap, however message and  *)
(* output are split over calls, whether the context is a copy or was       *)
(* copied (random_oracle.c, KeccakSponge.inc:151-298).                     *)
StreamAsMeant ==
  \A c \in Contexts : \A n \in DOMAIN given[c] :
    given[c][n] = Stream(Append(msg[c], DomainByte(fn[c])), sponge[c].rate, n - 1)

(* No two functions ever give the same byte, nor one on two messages, even *)
(* if a message ends in the byte of another function: contexts that have a *)
(* byte in common are on one message, function and position                *)
(* (random_oracle.c:31-139).                                               *)
OraclesSeparate ==
  \A n \in DOMAIN given[1], k \in DOMAIN given[2] :
    given[1][n] = given[2][k] => msg[1] = msg[2] /\ fn[1] = fn[2] /\ n = k
=============================================================================
