--------------------------- MODULE RandomnessProofs ---------------------------
(***************************************************************************)
(* Theorems about rand_bytes for requests of every length: the buffer      *)
(* fills from the front without gaps, the device is closed on every way    *)
(* out, and each build keeps the promise of RandomPromise.                 *)
(***************************************************************************)
EXTENDS Randomness, FiniteSetTheorems, TLAPS

Front(n) == 0 .. n - 1

(* What holds between the steps: while the answer is pending the pointer   *)
(* and the remaining length add up to the request and the buffer is filled *)
(* up to the pointer.                                                      *)
Filling ==
  ret = "pending" =>
    /\ filled = Front(dst) /\ dst + left = len
    /\ pc \in {"call", "open failed", "entropy"} => dst = 0
    /\ pc = "read failed" => left > 0

(* An answer says what is in the buffer.                                   *)
Answered ==
  /\ (ret = "pending") <=> (pc # "returned")
  /\ ret = "ok" => filled = Front(len)
  /\ ret = "error" =>
       \E n \in 0 .. len : filled = Front(n) /\ (n < len \/ len = 0)

Holding == fds = IF pc \in {"entropy", "read", "read failed"} THEN 1 ELSE 0

IInv == TypeOK /\ Filling /\ Answered /\ Holding

-----------------------------------------------------------------------------
(* Writing behind a full front makes a longer one.                         *)
LEMMA FrontGrows ==
  ASSUME NEW a \in Nat, NEW n \in Int, n >= -1
  PROVE  /\ Front(a) \cup (a .. a + n - 1) = IF n = -1 THEN Front(a) ELSE Front(a + n)
         /\ Front(0) = {}
BY DEF Front

LEMMA FrontSize ==
  ASSUME NEW n \in Nat
  PROVE  IsFiniteSet(Front(n)) /\ Cardinality(Front(n)) = n
BY FS_Interval DEF Front

LEMMA FrontInside ==
  ASSUME NEW n \in Nat, NEW m \in Nat, n <= m
  PROVE  Front(n) \subseteq 0 .. m - 1
BY DEF Front

LEMMA Numbers ==
  ASSUME IInv
  PROVE  /\ len \in Nat /\ dst \in Nat /\ left \in Nat
         /\ dst <= len /\ left <= len
         /\ ret \in {"pending", "ok", "error"}
<1>1. len \in 0 .. MaxLen /\ dst \in 0 .. len /\ left \in 0 .. len
  BY DEF IInv, TypeOK
<1>2. ret \in {"pending", "ok", "error"}
  BY DEF IInv, TypeOK
<1> QED
  BY <1>1, <1>2, MaxLenAssumption

LEMMA InitInv == Init => IInv
<1> SUFFICES ASSUME Init PROVE IInv
  OBVIOUS
<1> USE MaxLenAssumption DEF Init
<1>1. TypeOK
  BY DEF TypeOK, Builds
<1>2. Filling
  BY FrontGrows DEF Filling
<1> QED
  BY <1>1, <1>2 DEF IInv, Answered, Holding

(* The answers that leave the buffer incomplete come when the front is     *)
(* shorter than the request: before the first read, or with bytes left.    *)
LEMMA StepInv == IInv /\ [Next]_vars => IInv'
<1> SUFFICES ASSUME IInv, [Next]_vars PROVE IInv'
  OBVIOUS
<1>a. len \in Nat /\ dst \in Nat /\ left \in Nat
  BY Numbers
<1>b. 0 \in 0 .. len /\ (0 < len \/ len = 0)
  BY <1>a
<1>1. CASE Infallible
  <2>1. filled' = Front(len)
    <3>1. filled = Front(0) /\ dst = 0
      BY <1>1 DEF IInv, Filling, Answered, Infallible
    <3> QED
      BY <1>1, <3>1, <1>a, FrontGrows DEF Infallible, WriteAt
  <2> QED
    BY <1>1, <2>1, <1>a, FrontInside
    DEF Infallible, Return, IInv, TypeOK, Filling, Answered, Holding
<1>2. CASE System
  <2>1. filled = Front(0) /\ dst = 0 /\ filled \cup (dst .. dst + len - 1) = Front(len)
    <3>1. filled = Front(0) /\ dst = 0
      BY <1>2 DEF IInv, Filling, Answered, System
    <3> QED
      BY <3>1, <1>a, FrontGrows
  <2>2. \/ filled' = Front(len) /\ ret' = "ok"
        \/ filled' = Front(0) /\ ret' = "error"
    BY <1>2, <2>1 DEF System, WriteAt, Return
  <2>3. Answered'
    BY <1>2, <2>2, <1>a DEF System, Return, Answered, IInv
  <2>4. filled' \subseteq 0 .. len - 1
    BY <2>2, <1>a, FrontInside
  <2>5. TypeOK'
    BY <1>2, <2>2, <2>4 DEF System, Return, TypeOK, IInv
  <2> QED
    BY <1>2, <2>3, <2>5 DEF System, Return, IInv, Filling, Holding
<1>3. CASE GetRandom
  <2>1. filled = Front(0) /\ dst = 0
    BY <1>3 DEF IInv, Filling, Answered, GetRandom
  <2>2. PICK n \in -1 .. len :
          WriteAt(n) /\ Return(IF Complete(n) THEN "ok" ELSE "error")
    BY <1>3 DEF GetRandom
  <2>3. PICK m \in 0 .. len : filled' = Front(m) /\ ((n = -1 /\ m = 0) \/ n = m)
    <3>1. filled' = IF n = -1 THEN Front(0) ELSE Front(0 + n)
      BY <2>1, <2>2, <1>a, FrontGrows DEF WriteAt
    <3> QED
      BY <3>1, <1>a
  <2>4. Answered'
    BY <1>3, <2>2, <2>3, <1>a DEF GetRandom, Return, Complete, Answered, IInv
  <2>5. TypeOK'
    <3>1. filled' \subseteq 0 .. len - 1
      BY <2>3, <1>a, FrontInside
    <3> QED
      BY <1>3, <2>2, <3>1 DEF GetRandom, Return, TypeOK, IInv
  <2> QED
    BY <1>3, <2>2, <2>4, <2>5 DEF GetRandom, Return, IInv, Filling, Holding
<1>4. CASE OpenDevice
  BY <1>4 DEF OpenDevice, FromDevice, IInv, TypeOK, Filling, Answered, Holding
<1>5. ASSUME NEW e \in Errors, OpenFails(e) PROVE IInv'
  BY <1>5 DEF OpenFails, FromDevice, IInv, TypeOK, Filling, Answered, Holding
<1>6. CASE AfterOpenFailed
  <2>1. filled = Front(0) /\ dst = 0
    BY <1>6 DEF AfterOpenFailed, IInv, Filling, Answered
  <2>2. Answered'
    BY <1>6, <2>1, <1>b DEF AfterOpenFailed, Return, Answered, IInv
  <2> QED
    BY <1>6, <2>2 DEF AfterOpenFailed, Return, IInv, TypeOK, Filling, Holding
<1>7. CASE EntropyCount
  <2>1. filled = Front(0) /\ dst = 0
    BY <1>7 DEF EntropyCount, IInv, Filling, Answered
  <2>2. Answered'
    BY <1>7, <2>1, <1>b DEF EntropyCount, Return, Answered, IInv
  <2>3. fds = 1
    BY <1>7 DEF EntropyCount, IInv, Holding
  <2>4. \/ pc' = "read" /\ fds' = 1 /\ ret' = ret
        \/ pc' = "returned" /\ fds' = 0 /\ ret' = "error"
    BY <1>7, <2>3 DEF EntropyCount, Return, Closed
  <2>5. TypeOK'
    <3>1. fds' \in 0 .. 1 /\ ret' \in {"pending", "ok", "error"}
      BY <2>4, Numbers
    <3> QED
      BY <1>7, <2>4, <3>1 DEF EntropyCount, TypeOK, IInv
  <2>6. Filling'
    BY <1>7, <2>4 DEF EntropyCount, Filling, IInv
  <2> QED
    BY <2>2, <2>4, <2>5, <2>6 DEF IInv, Holding
<1>8. ASSUME NEW n \in 1 .. MaxLen, ReadSome(n) PROVE IInv'
  <2>1. /\ filled = Front(dst) /\ dst + left = len /\ pc = "read" /\ pc' = "read"
        /\ n \in 1 .. left /\ dst' = dst + n /\ left' = left - n
        /\ ret = "pending" /\ ret' = "pending"
    BY <1>8 DEF ReadSome, Advanced, Remaining, IInv, Filling, Answered
  <2>2. filled' = Front(dst')
    <3>1. n \in Int /\ n >= -1 /\ n # -1
      BY <2>1, <1>a
    <3>2. Front(dst) \cup (dst .. dst + n - 1) = Front(dst + n)
      BY <1>a, <3>1, FrontGrows
    <3> QED
      BY <1>8, <2>1, <3>2 DEF ReadSome, WriteAt
  <2>3. dst' + left' = len /\ dst' \in 0 .. len /\ left' \in 0 .. len
    BY <2>1, <1>a
  <2>4. filled' \subseteq 0 .. len - 1
    BY <2>2, <2>3, <1>a, FrontInside
  <2>5. TypeOK'
    BY <1>8, <2>1, <2>3, <2>4 DEF ReadSome, TypeOK, IInv
  <2>6. Filling'
    BY <1>8, <2>1, <2>2, <2>3 DEF ReadSome, Filling
  <2> QED
    BY <1>8, <2>1, <2>5, <2>6 DEF ReadSome, IInv, Answered, Holding
<1>9. ASSUME NEW e \in Errors, ReadFails(e) PROVE IInv'
  BY <1>9 DEF ReadFails, IInv, TypeOK, Filling, Answered, Holding
<1>10. CASE AfterReadFailed
  <2>1. filled = Front(dst) /\ dst \in 0 .. len /\ dst < len
    <3>1. filled = Front(dst) /\ dst + left = len /\ left > 0
      BY <1>10 DEF AfterReadFailed, IInv, Filling, Answered
    <3> QED
      BY <3>1, <1>a
  <2>2. Answered'
    BY <1>10, <2>1 DEF AfterReadFailed, Return, Answered, IInv
  <2>3. fds = 1
    BY <1>10 DEF AfterReadFailed, IInv, Holding
  <2>4. \/ pc' = "read" /\ fds' = 1 /\ ret' = ret
        \/ pc' = "returned" /\ fds' = 0 /\ ret' = "error"
    <3>1. CASE RetryRead(errno)
      BY <1>10, <2>3, <3>1 DEF AfterReadFailed
    <3>2. CASE ~RetryRead(errno)
      <4>1. fds' = Closed(fds) /\ Return("error")
        BY <1>10, <3>2 DEF AfterReadFailed
      <4> QED
        BY <2>3, <4>1 DEF Return, Closed
    <3> QED
      BY <3>1, <3>2
  <2>5. TypeOK'
    <3>1. fds' \in 0 .. 1 /\ ret' \in {"pending", "ok", "error"}
      BY <2>4, Numbers
    <3> QED
      BY <1>10, <2>4, <3>1 DEF AfterReadFailed, TypeOK, IInv
  <2>6. Filling'
    BY <1>10, <2>4 DEF AfterReadFailed, Filling, IInv
  <2> QED
    BY <2>2, <2>4, <2>5, <2>6 DEF IInv, Holding
<1>11. CASE CloseDevice
  <2>1. filled = Front(len)
    BY <1>11, <1>a DEF CloseDevice, IInv, Filling, Answered
  <2>2. Answered'
    BY <1>11, <2>1 DEF CloseDevice, Return, Answered, IInv
  <2> QED
    BY <1>11, <2>2 DEF CloseDevice, Return, IInv, TypeOK, Filling, Holding
<1>12. CASE UNCHANGED vars
  BY <1>12 DEF vars, IInv, TypeOK, Filling, Answered, Holding
<1> QED
  BY <1>1, <1>2, <1>3, <1>4, <1>5, <1>6, <1>7, <1>8, <1>9, <1>10, <1>11, <1>12
  DEF Next, Own, Kernel

LEMMA Invariance == Spec => []IInv
BY InitInv, StepInv, PTL DEF Spec

-----------------------------------------------------------------------------
(* Random bytes lie at the front of the buffer without a gap, for every    *)
(* build and every way of splitting the request into reads                 *)
(* (randomness.c:101-116).                                                 *)
THEOREM FillsFromTheFront == Spec => []NoGapInBuffer
<1>1. IInv => NoGapInBuffer
  <2> SUFFICES ASSUME IInv PROVE \E n \in 0 .. len : filled = Front(n)
    BY DEF NoGapInBuffer, Front
  <2>1. len \in 0 .. len /\ dst \in 0 .. len /\ ret \in {"pending", "ok", "error"}
    BY Numbers
  <2>2. CASE ret = "error"
    BY <2>2 DEF IInv, Answered
  <2>3. CASE ret # "error"
    BY <2>1, <2>3 DEF IInv, Filling, Answered
  <2> QED
    BY <2>2, <2>3
<1> QED
  BY <1>1, Invariance, PTL

(* A call that reports success has written every byte it was asked for.    *)
THEOREM SuccessIsFull == Spec => []OkMeansFilled
<1>1. IInv => OkMeansFilled
  BY DEF IInv, Answered, OkMeansFilled, Front
<1> QED
  BY <1>1, Invariance, PTL

(* The device is open exactly while the program reads it, whichever error  *)
(* ends the call (randomness.c:93-118).                                    *)
THEOREM DeviceIsClosed == Spec => []DescriptorClosed
<1>1. IInv => DescriptorClosed
  BY DEF IInv, Answered, Holding, DescriptorClosed
<1> QED
  BY <1>1, Invariance, PTL

-----------------------------------------------------------------------------
(* Until it answers a call changes nothing that RandomPromise shows, and   *)
(* the step that answers is one of its answers.                            *)
LEMMA StepKeepsPromise ==
  ASSUME IInv, IInv', [Next]_vars
  PROVE  [Promise!Answer]_(Promise!vars)
<1> DEFINE g == IF ret = "pending" THEN 0 ELSE Cardinality(filled)
<1>a. len \in Nat /\ len' \in Nat /\ ret \in {"pending", "ok", "error"}
                  /\ ret' \in {"pending", "ok", "error"}
  <2>1. (len \in Nat /\ ret \in {"pending", "ok", "error"})'
    BY Numbers, PTL
  <2> QED
    BY Numbers, <2>1
<1>b. len' = len
  BY DEF Next, Own, Kernel, vars, Infallible, System, GetRandom, OpenDevice, OpenFails,
         AfterOpenFailed, EntropyCount, ReadSome, ReadFails, AfterReadFailed, CloseDevice
<1>c. ret # "pending" => UNCHANGED <<filled, ret>>
  <2> SUFFICES ASSUME pc = "returned" PROVE UNCHANGED <<filled, ret>>
    BY DEF IInv, Answered
  <2> QED
    BY DEF Next, Own, Kernel, vars, Infallible, System, GetRandom, OpenDevice, OpenFails,
           AfterOpenFailed, EntropyCount, ReadSome, ReadFails, AfterReadFailed, CloseDevice
<1>1. CASE ret # "pending"
  <2>1. g' = g /\ ret' = ret
    BY <1>c, <1>1
  <2> QED
    BY <2>1, <1>b DEF Promise!vars
<1>2. CASE ret = "pending" /\ ret' = "pending"
  BY <1>2, <1>b DEF Promise!vars
<1>3. CASE ret = "pending" /\ ret' = "ok"
  <2>1. filled' = Front(len)
    BY <1>3, <1>b DEF IInv, Answered
  <2>2. g' = len
    BY <2>1, <1>3, <1>a, FrontSize
  <2> QED
    BY <2>2, <1>3, <1>b DEF Promise!Answer, Promise!Fill
<1>4. CASE ret = "pending" /\ ret' = "error"
  <2>1. PICK n \in 0 .. len : filled' = Front(n) /\ (n < len \/ len = 0)
    BY <1>4, <1>b DEF IInv, Answered
  <2>2. g' = n
    BY <2>1, <1>4, <1>a, FrontSize
  <2> QED
    BY <2>1, <2>2, <1>4, <1>b DEF Promise!Answer, Promise!Fail
<1> QED
  BY <1>1, <1>2, <1>3, <1>4, <1>a

(* Every build of rand_bytes keeps the promise, but for termination: all   *)
(* at once and only then success, or an error with a part of the front.    *)
THEOREM KeepsPromise == Spec => Promise!Init /\ [][Promise!Answer]_(Promise!vars)
<1>1. Init => Promise!Init
  BY DEF Init, Promise!Init
<1>2. IInv /\ IInv' /\ [Next]_vars => [Promise!Answer]_(Promise!vars)
  BY StepKeepsPromise
<1> QED
  BY <1>1, <1>2, Invariance, PTL DEF Spec
=============================================================================
