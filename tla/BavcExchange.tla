---------------------------- MODULE BavcExchange ----------------------------
(***************************************************************************)
(* The three calls of the vector commitment together: bavc_commit fills    *)
(* the arrays of bavc_t, bavc_open (the module extended here) writes an    *)
(* opening of them into the signature, and bavc_reconstruct is given what  *)
(* arrives.  bavc_open's buffers name the places of the arrays a key or a  *)
(* commitment is copied from; Sent is what those places hold.              *)
(*                                                                         *)
(* The opening is for one challenge, the verifier decodes any other or the *)
(* same; on the way one slot of the opening may be replaced.               *)
(***************************************************************************)
EXTENDS BavcOpen

CONSTANTS
  Prg(_, _, _), LeafSeed(_, _, _), LeafCom(_, _, _, _),
  RootKey,
  Zero,     \* a key of zero bytes
  Junk      \* a key that belongs to no node

VARIABLES   \* the commitment; k, sd, ccom and hcom are the fields of bavc_t
  em, cpc, calpha, ci, cj, uhash, crow, k, sd, ccom, hcom

Commit == INSTANCE BavcCommit WITH
  pc <- cpc, alpha <- calpha, i <- ci, j <- cj, row <- crow, com <- ccom, h <- hcom

VARIABLES   \* the verifier
  delta, decom, vpc, vs, keys, nd, vn, va, vi, vj, sds, vrow, vh

Verifier == INSTANCE BavcReconstruct WITH
  i_delta <- delta, pc <- vpc, s <- vs, n <- vn, a <- va, i <- vi, j <- vj,
  row <- vrow, h <- vh

committer == <<em, cpc, calpha, ci, cj, uhash, crow, k, sd, ccom, hcom>>
verifier == <<delta, decom, vpc, vs, keys, nd, vn, va, vi, vj, sds, vrow, vh>>
all == <<vars, committer, verifier>>

ExchangeInit == Init /\ Commit!Init /\ Verifier!Init

(* faest_sign commits, and opens when it knows the challenge.              *)
CommitStep ==
  /\ Commit!Next
  /\ UNCHANGED <<vars, verifier>>

OpenStep ==
  /\ cpc = "done"
  /\ Next
  /\ UNCHANGED <<committer, verifier>>

(* The bytes bavc_open has written when it is done.                        *)
Sent ==
  [coms  |-> [v \in 1 .. Tau |-> ccom[coms[v] + 1]],
   nodes |-> [m \in 1 .. Len(nodes) + pad |-> IF m <= Len(nodes) THEN k[nodes[m]] ELSE Zero]]

(* What may arrive: the opening, or one with another key in slot m or      *)
(* another commitment for vector v.                                        *)
Received ==
  {Sent} \union
  {[Sent EXCEPT !.nodes[m] = key] : m \in 1 .. TOpen, key \in {Zero, Junk, k[2 * L - 2]}} \union
  {[Sent EXCEPT !.coms[v] = Junk] : v \in 1 .. Tau}

Deliver ==
  /\ pc = "done"
  /\ \E d \in Deltas, opening \in Received : Verifier!Receive(d, opening)
  /\ UNCHANGED <<vars, committer>>

ReconstructStep ==
  /\ Verifier!Reconstruct
  /\ UNCHANGED <<vars, committer>>

ExchangeNext == CommitStep \/ OpenStep \/ Deliver \/ ReconstructStep

(* The signer's calls run one after the other and nothing blocks them;     *)
(* whether an opening is ever delivered is left open.                      *)
ExchangeSpec == ExchangeInit /\ [][ExchangeNext]_all /\ WF_all(CommitStep \/ OpenStep)

-----------------------------------------------------------------------------
Honest == vpc # "wait" /\ delta = i_delta /\ decom = Sent

(* The verifier of an honest opening accepts it, takes each key for the    *)
(* node it was revealed for although no index is transmitted, and arrives  *)
(* at the committer's hash (bavc.c:371-378 against 403-415).               *)
HonestAccepted ==
  Honest => /\ vpc # "failed"
            /\ vpc = "done" => vh = hcom

(* The seeds arrive where vole_reconstruct reads them: leaf j of vector v  *)
(* at j, or at j-1 when the hidden leaf of v comes before it, after the    *)
(* seeds of the earlier vectors; all L - tau entries are written, and they *)
(* are the committer's seeds (bavc.c:114-208 against 431-632).             *)
FirstSd(v) == FirstLeaf(v) - v
SeedsInPlace ==
  /\ Len(sds) <= L - Tau
  /\ vpc = "done" =>
       /\ Len(sds) = L - Tau
       /\ Honest =>
            \A v \in Vectors : \A l \in (0 .. MaxNodeIndex(v) - 1) \ {delta[v]} :
              sds[FirstSd(v) + (IF l > delta[v] THEN l ELSE l + 1)]
                = sd[FirstLeaf(v) + l + 1]

(* An opening determines its own encoding and its challenge: one that is   *)
(* accepted and leads to the committer's hash is, byte for byte, the one   *)
(* bavc_open writes for that challenge (bavc.c:417-421 checks the slots    *)
(* left over).                                                             *)
OnlyCanonicalAccepted ==
  vpc = "done" /\ vh = hcom => Honest
=============================================================================
