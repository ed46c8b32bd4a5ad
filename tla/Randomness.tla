----------------------------- MODULE Randomness -----------------------------
(***************************************************************************)
(* rand_bytes (randomness.c) in the variants the build can choose: a       *)
(* source that cannot fail, one call of the operating system, getrandom    *)
(* without blocking, and reading /dev/urandom.                             *)
(*                                                                         *)
(* The kernel is external: a system call may succeed, fail for good or be  *)
(* interrupted, and a read may return fewer bytes than asked for.  A read  *)
(* of the random device never returns 0.                                   *)
(***************************************************************************)
EXTENDS Integers, FiniteSets

CONSTANT MaxLen   \* bound on the request

ASSUME MaxLenAssumption == MaxLen \in Nat

Builds == {"infallible", "system", "getrandom", "urandom_linux", "urandom"}
Errors == {"EINTR", "EAGAIN", "EIO"}

VARIABLES
  build,    \* the variant compiled in
  len,      \* bytes asked for
  dst,      \* how far the pointer dst has advanced
  left,     \* the program's len, which it counts down
  filled,   \* offsets of the buffer that are random
  fds,      \* descriptors held
  errno,
  pc, ret

vars == <<build, len, dst, left, filled, fds, errno, pc, ret>>

Init ==
  /\ build \in Builds
  /\ len \in 0 .. MaxLen /\ left = len
  /\ dst = 0 /\ filled = {} /\ fds = 0 /\ errno = "none"
  /\ pc = "call" /\ ret = "pending"

Return(r) == pc' = "returned" /\ ret' = r

(* The kernel or a library writes n bytes at dst.                          *)
WriteAt(n) == filled' = filled \cup (dst .. dst + n - 1)

-----------------------------------------------------------------------------
(* randombytes, OQS_randombytes, arc4random_buf.                           *)
Infallible ==
  /\ pc = "call" /\ build = "infallible"
  /\ WriteAt(len) /\ Return("ok")
  /\ UNCHANGED <<build, len, dst, left, fds, errno>>

(* SecRandomCopyBytes, BCryptGenRandom.                                    *)
System ==
  /\ pc = "call" /\ build = "system"
  /\ \/ WriteAt(len) /\ Return("ok")
     \/ UNCHANGED filled /\ Return("error")
  /\ UNCHANGED <<build, len, dst, left, fds, errno>>

CompleteShort(n) == n >= 0
Complete(n) == n = len

(* getrandom returns -1 or the number of bytes it wrote.                   *)
GetRandom ==
  /\ pc = "call" /\ build = "getrandom"
  /\ \E n \in -1 .. len :
       WriteAt(n) /\ Return(IF Complete(n) THEN "ok" ELSE "error")
  /\ UNCHANGED <<build, len, dst, left, fds, errno>>

-----------------------------------------------------------------------------
FromDevice == build \in {"urandom_linux", "urandom"}

OpenDevice ==
  /\ pc = "call" /\ FromDevice
  /\ fds' = fds + 1
  /\ pc' = IF build = "urandom_linux" THEN "entropy" ELSE "read"
  /\ UNCHANGED <<build, len, dst, left, filled, errno, ret>>

OpenFails(e) ==
  /\ pc = "call" /\ FromDevice
  /\ errno' = e /\ pc' = "open failed"
  /\ UNCHANGED <<build, len, dst, left, filled, fds, ret>>

RetryOpen(e) == e = "EINTR"

AfterOpenFailed ==
  /\ pc = "open failed"
  /\ IF RetryOpen(errno) THEN pc' = "call" /\ UNCHANGED ret ELSE Return("error")
  /\ UNCHANGED <<build, len, dst, left, filled, fds, errno>>

(* close on the way out of an error.                                       *)
ClosedNever(n) == n
Closed(n) == n - 1

(* ioctl(RNDGETENTCNT).                                                    *)
EntropyCount ==
  /\ pc = "entropy"
  /\ \/ pc' = "read" /\ UNCHANGED <<fds, ret>>
     \/ fds' = Closed(fds) /\ Return("error")
  /\ UNCHANGED <<build, len, dst, left, filled, errno>>

AdvancedByRequest(at, n) == at + left
Advanced(at, n) == at + n

Remaining(l, n) == l - n

ReadSome(n) ==
  /\ pc = "read" /\ left > 0 /\ n \in 1 .. left
  /\ WriteAt(n)
  /\ dst' = Advanced(dst, n) /\ left' = Remaining(left, n)
  /\ UNCHANGED <<build, len, fds, errno, pc, ret>>

ReadFails(e) ==
  /\ pc = "read" /\ left > 0
  /\ errno' = e /\ pc' = "read failed"
  /\ UNCHANGED <<build, len, dst, left, filled, fds, ret>>

RetryRead(e) == e \in {"EAGAIN", "EINTR"}

AfterReadFailed ==
  /\ pc = "read failed"
  /\ IF RetryRead(errno)
     THEN pc' = "read" /\ UNCHANGED <<fds, ret>>
     ELSE fds' = Closed(fds) /\ Return("error")
  /\ UNCHANGED <<build, len, dst, left, filled, errno>>

CloseDevice ==
  /\ pc = "read" /\ left = 0
  /\ fds' = fds - 1 /\ Return("ok")
  /\ UNCHANGED <<build, len, dst, left, filled, errno>>

-----------------------------------------------------------------------------
Own == Infallible \/ System \/ GetRandom \/ AfterOpenFailed \/ EntropyCount
         \/ AfterReadFailed \/ CloseDevice

Kernel ==
  \/ OpenDevice
  \/ \E e \in Errors : OpenFails(e)
  \/ \E n \in 1 .. MaxLen : ReadSome(n)
  \/ \E e \in Errors : ReadFails(e)

Next == Own \/ Kernel

(* An answer of the kernel that is not an interruption.                    *)
OpenAnswered == OpenDevice \/ \E e \in Errors \ {"EINTR"} : OpenFails(e)
ReadAnswered == (\E n \in 1 .. MaxLen : ReadSome(n)) \/ ReadFails("EIO")

(* The program and the kernel never stop, and signals do not interrupt a   *)
(* call for ever.                                                          *)
Fairness == WF_vars(Next) /\ SF_vars(OpenAnswered) /\ SF_vars(ReadAnswered)

Spec == Init /\ [][Next]_vars /\ Fairness

-----------------------------------------------------------------------------
(* left is unsigned in the program: it must never go below zero.           *)
TypeOK ==
  /\ build \in Builds
  /\ len \in 0 .. MaxLen /\ dst \in 0 .. len /\ left \in 0 .. len
  /\ filled \subseteq 0 .. len - 1
  /\ fds \in 0 .. 1
  /\ errno \in Errors \cup {"none"}
  /\ pc \in {"call", "open failed", "entropy", "read", "read failed", "returned"}
  /\ ret \in {"pending", "ok", "error"}

(* Success means that every byte was written, however the reads were split *)
(* (randomness.c:101-118, 40-46).                                          *)
OkMeansFilled == ret = "ok" => filled = 0 .. len - 1

(* Before an answer, and after an error, what is random is a prefix of the *)
(* buffer without gaps: no read overwrites an earlier one                  *)
(* (randomness.c:112-113).                                                 *)
NoGapInBuffer == \E n \in 0 .. len : filled = 0 .. n - 1

(* The device is open while it is read and closed on every way out         *)
(* (randomness.c:93-118).                                                  *)
DescriptorClosed ==
  /\ ret # "pending" => fds = 0
  /\ pc \in {"entropy", "read", "read failed"} => fds = 1

(* rand_bytes does what RandomPromise says.  Bytes written before the      *)
(* answer are not promised to anybody yet.                                 *)
Promise == INSTANCE RandomPromise WITH
  got <- IF ret = "pending" THEN 0 ELSE Cardinality(filled)
PromiseSpec == Promise!Spec
=============================================================================
