--------------------------- MODULE RandomPromise ---------------------------
(***************************************************************************)
(* What rand_bytes promises, whatever the platform: in one step it fills   *)
(* the whole buffer and reports success, or reports an error after filling *)
(* some of the buffer's front, none included.                              *)
(***************************************************************************)
EXTENDS Naturals

CONSTANT MaxLen

VARIABLES
  len,   \* bytes asked for
  got,   \* bytes at the front of the buffer that are random
  ret    \* "pending", "ok" (0) or "error" (-1)

vars == <<len, got, ret>>

Init == len \in 0 .. MaxLen /\ got = 0 /\ ret = "pending"

Fill == got' = len /\ ret' = "ok"

(* Only a request for nothing can fail with nothing missing.               *)
Fail == /\ got' \in {g \in 0 .. len : g < len \/ len = 0}
        /\ ret' = "error"

Answer == ret = "pending" /\ (Fill \/ Fail) /\ UNCHANGED len

Spec == Init /\ [][Answer]_vars /\ WF_vars(Answer)
=============================================================================
