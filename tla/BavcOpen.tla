------------------------------ MODULE BavcOpen ------------------------------
(***************************************************************************)
(* bavc_open (bavc.c): opens the commitment at all leaves but one per      *)
(* vector.  The program marks the path of every hidden leaf, rejects the   *)
(* opening when it would need more than T_open keys, and then copies the   *)
(* commitments of the hidden leaves and the keys of the covering subtrees  *)
(* into the caller's buffer, which has room for exactly T_open keys.       *)
(*                                                                         *)
(* The bit array s is the set of the nodes whose bit is set.  A key or a   *)
(* commitment in the buffer is named by the place it is copied from: the   *)
(* node index for vc->k, the flat leaf index for vc->com.                  *)
(***************************************************************************)
EXTENDS BavcTree, Sequences

CONSTANTS
  TOpen,   \* params->T_open: room for node keys in the opening
  UINT     \* unsigned int is arithmetic modulo UINT (2^32 in the code, which
           \* TLC's own integers cannot hold)

ASSUME OpenAssumption ==
  /\ TOpen \in Nat
  /\ UINT \in Nat /\ 2 * L <= UINT /\ 2 * Tau + TOpen <= UINT

VARIABLES
  i_delta,  \* the argument: the hidden leaf of each vector
  pc,       \* "mark" -> "climb" -> ... -> "copy" -> "emit" -> "done" | "failed"
  i,        \* index of the loops over the vectors
  alpha,    \* the node the climbing loop stands on
  s,        \* the marked nodes
  nh,       \* number of marks counted so far
  com,      \* leaf index vc->com has advanced to
  coms,     \* commitments written to the buffer
  n,        \* index of the loop over the inner nodes (int i = L - 2 .. 0)
  nodes,    \* node keys written to the buffer
  pad       \* bytes (in keys) cleared at the end of the buffer

vars == <<i_delta, pc, i, alpha, s, nh, com, coms, n, nodes, pad>>

Init ==
  /\ i_delta \in Deltas
  /\ pc = "mark"
  /\ i = 0
  /\ alpha = 0
  /\ s = {}
  /\ nh = 0
  /\ com = 0
  /\ coms = <<>>
  /\ n = L - 2
  /\ nodes = <<>>
  /\ pad = 0

(* Step 7..10: mark the hidden leaf of vector i.                           *)
MarkLeaf ==
  /\ pc = "mark" /\ i < Tau
  /\ alpha' = PosInTree(i, i_delta[i])
  /\ s' = s \union {alpha'}
  /\ nh' = nh + 1
  /\ pc' = "climb"
  /\ UNCHANGED <<i_delta, i, com, coms, n, nodes, pad>>

(* The condition of the while loop of step 11..15.                         *)
ParentUnmarked == alpha > 0 /\ Parent(alpha) \notin s

(* One iteration of that loop.                                             *)
Climb ==
  /\ pc = "climb" /\ ParentUnmarked
  /\ alpha' = Parent(alpha)
  /\ s' = s \union {alpha'}
  /\ nh' = nh + 1
  /\ UNCHANGED <<i_delta, pc, i, com, coms, n, nodes, pad>>

NextVector ==
  /\ pc = "climb" /\ ~ParentUnmarked
  /\ i' = i + 1
  /\ pc' = "mark"
  /\ UNCHANGED <<i_delta, alpha, s, nh, com, coms, n, nodes, pad>>

(* Step 16: the keys this opening will need, in unsigned arithmetic.       *)
KeysNeededLow == (nh - 2 * Tau) % UINT
KeysNeeded == (nh - 2 * Tau + 1) % UINT

TooManyKeysOrFull == KeysNeeded >= TOpen
TooManyKeys == KeysNeeded > TOpen

(* Step 16..17: give up before anything is written ...                     *)
Reject ==
  /\ pc = "mark" /\ i = Tau /\ TooManyKeys
  /\ pc' = "failed"
  /\ UNCHANGED <<i_delta, i, alpha, s, nh, com, coms, n, nodes, pad>>

(* ... or go on to write the opening.                                      *)
Accept ==
  /\ pc = "mark" /\ i = Tau /\ ~TooManyKeys
  /\ pc' = "copy"
  /\ i' = 0
  /\ UNCHANGED <<i_delta, alpha, s, nh, com, coms, n, nodes, pad>>

(* Step 3: the commitment of the hidden leaf of vector i.                  *)
CopyCommitment ==
  /\ pc = "copy" /\ i < Tau
  /\ coms' = Append(coms, com + i_delta[i])
  /\ com' = com + MaxNodeIndex(i)
  /\ i' = i + 1
  /\ pc' = IF i' = Tau THEN "emit" ELSE "copy"
  /\ UNCHANGED <<i_delta, alpha, s, nh, n, nodes, pad>>

(* Exactly one child of p is marked, and the other one is to be revealed.  *)
OnlyLeft(p) == LeftChild(p) \in s /\ RightChild(p) \notin s
OneChild(p) == (LeftChild(p) \in s) # (RightChild(p) \in s)
MarkedChildPlusOne(p) == 2 * p + 2 + (IF RightChild(p) \in s THEN 1 ELSE 0)
RevealedChild(p) == 2 * p + 1 + (IF LeftChild(p) \in s THEN 1 ELSE 0)

(* Step 19..25 for inner node n: recompute its bit from its children and   *)
(* reveal the unmarked child when exactly one is marked.                   *)
EmitNode ==
  /\ pc = "emit" /\ n >= 0
  /\ s' = IF Children(n) \intersect s # {} THEN s \union {n} ELSE s \ {n}
  /\ nodes' = IF OneChild(n)
              THEN Append(nodes, RevealedChild(n))
              ELSE nodes
  /\ n' = n - 1
  /\ UNCHANGED <<i_delta, pc, i, alpha, nh, com, coms, pad>>

(* Clear the rest of the buffer.  A negative pad would be a write past it. *)
Pad ==
  /\ pc = "emit" /\ n < 0
  /\ pad' = TOpen - Len(nodes)
  /\ pc' = "done"
  /\ UNCHANGED <<i_delta, i, alpha, s, nh, com, coms, n, nodes>>

Next == \/ MarkLeaf \/ Climb \/ NextVector \/ Reject \/ Accept
        \/ CopyCommitment \/ EmitNode \/ Pad

Spec == Init /\ [][Next]_vars

(* Nothing blocks or preempts the call: it takes its next step.            *)
FairSpec == Spec /\ WF_vars(Next)

-----------------------------------------------------------------------------
TypeOK ==
  /\ i_delta \in Deltas
  /\ pc \in {"mark", "climb", "copy", "emit", "done", "failed"}
  /\ i \in 0 .. Tau
  /\ alpha \in Nodes
  /\ s \in SUBSET Nodes
  /\ nh \in Nat
  /\ com \in Nat
  /\ coms \in Seq(Nat)
  /\ n \in -1 .. L - 2
  /\ nodes \in Seq(Nodes)
  /\ pad \in Int

(* The counter nh is the number of marked nodes: no node is counted twice, *)
(* though leaves of different vectors share ancestors and a leaf's own bit *)
(* is set without being tested (bavc_open, the loop of step 7..15).        *)
CountsMarks == nh = Cardinality(s)

(* The keys written never overrun the T_open slots of the caller's buffer, *)
(* although the test that guards them counts marks, not keys, and is made  *)
(* before the first key is known.                                          *)
FitsBuffer == Len(nodes) <= TOpen /\ pad >= 0

(* The guard's count is exact: an accepted opening writes nh - 2 tau + 1   *)
(* keys, and the subtraction does not wrap.                                *)
GuardIsExact == pc = "done" => Len(nodes) = nh - 2 * Tau + 1

(* The commitments written are those of the hidden leaves: vc->com has     *)
(* advanced past the leaves of all earlier vectors when entry i is copied. *)
FirstLeaf(v) == IF v <= Tau1 THEN 2 * Width * v ELSE Width * (v + Tau1)
CopiesHiddenCommitments ==
  /\ \A v \in 1 .. Len(coms) : coms[v] = FirstLeaf(v - 1) + i_delta[v - 1]
  /\ pc \in {"emit", "done"} => Len(coms) = Tau

(* All but one: no revealed key leads to a hidden leaf, and every other    *)
(* leaf is under exactly one revealed key.                                 *)
Revealed == {nodes[m] : m \in 1 .. Len(nodes)}
OpensAllButHidden ==
  pc = "done" =>
    \A a \in Leaves :
      Cardinality(PathToRoot[a] \intersect Revealed)
        = IF a \in HiddenLeaves(i_delta) THEN 0 ELSE 1

-----------------------------------------------------------------------------
(* The refinement: every call of bavc_open returns, and what it returns is *)
(* the canonical opening or the refusal that PuncturedOpening promises.    *)
Outcome == CASE pc = "done"   -> [status |-> "opened", nodes |-> nodes, pad |-> pad]
             [] pc = "failed" -> [status |-> "refused"]
             [] OTHER         -> [status |-> "pending"]
Promise == INSTANCE PuncturedOpening WITH request <- i_delta, result <- Outcome
PromiseSpec == Promise!Spec
=============================================================================
