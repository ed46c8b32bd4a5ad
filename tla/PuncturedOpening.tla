-------------------------- MODULE PuncturedOpening --------------------------
(***************************************************************************)
(* What bavc_open promises: in one step it answers a request with the      *)
(* covering keys in the order bavc_reconstruct consumes them, padded to    *)
(* T_open, or with a refusal exactly when the cover has more than T_open   *)
(* nodes.                                                                  *)
(***************************************************************************)
EXTENDS BavcTree

CONSTANT TOpen

VARIABLES request, result

vars == <<request, result>>

(* The keys from the largest node down: the m-th is the one that m of them *)
(* are not smaller than.                                                   *)
Canonical(d) ==
  [m \in 1 .. Cardinality(Cover(d)) |->
     CHOOSE c \in Cover(d) : Cardinality({b \in Cover(d) : b >= c}) = m]

Pending == [status |-> "pending"]

Init == request \in Deltas /\ result = Pending

Answer ==
  /\ result = Pending
  /\ result' = IF Cardinality(Cover(request)) <= TOpen
               THEN [status |-> "opened",
                     nodes  |-> Canonical(request),
                     pad    |-> TOpen - Cardinality(Cover(request))]
               ELSE [status |-> "refused"]
  /\ UNCHANGED request

(* What is answered, and that there is an answer.                          *)
SafeSpec == Init /\ [][Answer]_vars
Spec == SafeSpec /\ WF_vars(Answer)
=============================================================================
