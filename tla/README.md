# A TLA+ model of FAEST

FAEST is a signature scheme: a signature is a non-interactive proof that the
signer knows an AES key (the secret key) that maps the plaintext block of the
public key to its ciphertext block. The C code in `src/` is a library without threads, files or network. It is
sequential, but far from simple: one function writes a compressed tree of keys
without indices and another one has to read it in the same order, a loop of
unknown length overwrites parts of its own output, two functions have to derive
the same transcript from opposite ends, and many loop bounds are macros over
numbers of the build file. That is what the modules here are about.

Contents: the system · the modules · the runs · the bounds · fairness ·
the proofs · what is not modelled · the plan.

## The system

A signature is made in this order (`faest_sign`, `faest_impl.c`); the verifier
goes the same way from the other end (`faest_verify`).

    sk, msg --> mu, rootkey, iv --> vole_commit (vole.c)
                                      bavc_commit (bavc.c): tree of seeds,
                                        leaf commitments, hash hcom
                                      convert_to_vole: columns u, V; corrections c
            --> chall_1 --> u_tilde, V_tilde (vole_hash) --> chall_2
            --> aes_prove: a0, a1, a2
            --> loop: chall_3 = H(.., ctr)
                      grinding bits clear?  bavc_open within T_open keys?
                      if not, ctr := ctr + 1
            --> signature c u_tilde d a1 a2 decom_i chall_3 iv_pre ctr

| component | state it keeps | operations | interacts with | what makes it correct |
|---|---|---|---|---|
| tree layout (`bavc.c`, `bavc.h`) | none | `pos_in_tree`, `bavc_max_node_index` | all of bavc.c | leaves of the tau vectors fill the last L nodes, none twice |
| BAVC commit | `nodes`, `com`, `sd`, `h` (heap, lives until `bavc_clear`) | `bavc_commit` | called by `vole_commit`; its `nodes` and `com` are read by every `bavc_open` | keys form a binary tree; each leaf's seed and commitment is at its index |
| BAVC open | bit set `s`, count `nh`, write pointer | `bavc_open` | called repeatedly by the grinding loop; writes into the signature | writes exactly the siblings of the hidden paths, never more than T_open, refuses otherwise |
| BAVC reconstruct | bit set `s`, `keys`, read pointer | `bavc_reconstruct` | called by `vole_reconstruct`; reads the signature | restores all but the hidden seeds and the same `h`; accepts one encoding only |
| challenge (`utils.c`, `check_challenge_3`) | byte and bit indices | `decode_all_chall_3`, `check_challenge_3` | both sides of the protocol | every bit below the grinding bits goes to one vector; the byte-wise check is exact |
| VOLE (`vole.c`) | `sd`, two rows `r`, columns u, V, q, corrections c | `vole_commit`, `vole_reconstruct`, `convert_to_vole` | between bavc and faest_impl | `q = V + delta u`, column by column |
| signing, verification (`faest_impl.c`) | signature buffer, hash contexts, counter, heap buffers | `faest_sign`, `faest_verify` | everything above | consistent signatures, accepted if and only if unaltered, no leaks |
| parameter sets, layout (`instances.c`, `meson.build`, `signature_*`) | constant tables | `faest_get_paramset`, 18 accessors | sign and verify | the parts are disjoint, without gaps, and found where they were put |
| public API (`faest_param.c.in`, `crypto_sign.c.in`) | keys, unpacked keys, one buffer for message and signature | keygen, unpacking, validation, four ways to sign, verification, clearing, `crypto_sign(_open)` | callers; `rand_bytes`, `faest_sign`, `faest_verify` | refuses before it works; signatures belong to the key asked for; overlapping buffers are safe |
| randomness (`randomness.c`) | a descriptor, pointer and remaining length | `rand_bytes` | API, the kernel | success means a full buffer; every call returns |
| random oracle (`random_oracle.c`, `hash_shake.h`) and the sponge (`sha3/KeccakSponge.inc`, `KeccakHash.c`) | per context: state, block position, phase | init, update, copy, final, squeeze, clear of H_0 .. H_4 | everything | the output depends on the bytes and the function only, not on how calls split them; no two functions share an output |
| PRG (`aes.c`) | iv, counter blocks | `prg`, `prg_2_lambda`, `prg_4_lambda`, in three variants | vole, bavc | all variants give the same stream; purposes never share a counter |
| OWF, witness (`aes.c`, `owf.c`), constraints (`faest_aes.c.in`) | cipher state, write pointer; bit and byte indices | `owf_*`, `aes_extend_witness`, `aes_prove`, `aes_verify` | sign, verify | each constraint looks for a value where the witness has it; the witness has the length of the parameter set |
| universal hashing (`universal_hashing.c`) | accumulators `h0`, `h1`, one or three of each | `vole_hash`, `zk_hash_*`, `zk_hash_*_3_*`, `leaf_hash_*` | sign, verify, the constraints, bavc | each input byte is used once with a power of its own; prover's and verifier's hashes differ by the claims only |
| fields (`fields.c`, `fields.h`) | none; vectors with padding lanes | multiplications, `bf*_sum_poly`, `bits_sq`, `bf*_sq_bit(_inplace)`, `bf*_byte_combine` | universal hashing, constraints | all builds compute in the field that the comments name; bytes are embedded |
| platform layer (`compat.c`, `cpu.c`), tests, tools | a byte in front of allocated memory; cpu feature word | allocation, comparison, CPU features | all | not modelled |

Hard behaviours. There is no concurrency in the library. What is hard is:

- *order without indices*: `bavc_open` writes keys in the order a descending
  loop meets them while that loop overwrites the bits it reads;
  `bavc_reconstruct` relies on meeting them in the same order;
- *counting before doing*: whether an opening fits in T_open slots is decided
  from an unsigned count of marks before anything is written;
- *retries over shared state*: each attempt of the grinding loop rewrites
  `chall_3` in the signature, may then fail, and continues with a copied hash
  context;
- *in-place algorithms and reused buffers*: the two-row fold, `sd` and `qtmp`
  reused between vectors with an uninitialized first entry, squaring over its own input;
- *data that is there but not meant*: padding lanes of vectors, one of them uninitialized;
  the queue of a sponge between calls; the partial last element of an input;
- *an unreliable environment*: the kernel may split, interrupt or refuse reads, and the
  caller may pass null pointers, wrong lengths, overlapping buffers or a key that was cleared;
- *edges of numbers*: vectors of two lengths, grinding bits that start inside a
  byte, columns padded by a loop that tests with `!=`, wrap-around of unsigned
  expressions and of the counter;
- *two implementations of one format*: separate accessors for signing and
  verifying; the cipher once on bytes and once as constraints; three variants of one generator and of
  each field; a proof's polynomials by their coefficients for the prover and at a point for the verifier.

## The modules

| module | models | notes |
|---|---|---|
| `BavcTree` | node numbering, `pos_in_tree`, vector lengths | pure; constants `Tau`, `Tau1`, `Width` (2^(k-1)) |
| `PuncturedOpening` | nothing in the code: what an opening promises | one step: write all siblings of hidden paths, or refuse |
| `BavcOpen` | `bavc_open` | one action per loop iteration; property `PromiseSpec` is `PuncturedOpening` under a refinement mapping |
| `BavcCommit` | `generate_seeds`, `bavc_commit`, the leaf loops | both kinds of instances; PRG and leaf commitment are operators given as constants |
| `BavcReconstruct` | `reconstruct_keys`, `bavc_reconstruct` | given a challenge and an opening by its environment |
| `BavcExchange`, `MCBavcExchange` | the three calls together: an instance of `BavcCommit`, `BavcOpen` itself, an instance of `BavcReconstruct` | the opening is for one challenge, the verifier's is any, one slot may be damaged between |
| `ChallengeBits`, `Challenge` | `decode_all_chall_3`, `check_challenge_3` | byte and bit loops |
| `Vole` | `vole_commit`, `vole_reconstruct`, `convert_to_vole` | a row is the set of seed expansions it sums; both sides run in one behaviour |
| `VoleExchange` | signer's VOLE, then `Challenge`, then the verifier's VOLE with the decoded indices | an instance of `Vole` next to `Challenge` |
| `ParamSets`, `SigLayout` | the build file's numbers, the derived macros, the accessors | real numbers, no abstraction |
| `FaestSign`, `MCFaestSign` | `faest_sign`, a delivery, `faest_verify` | symbolic terms |
| `RandomPromise` | nothing in the code: what a caller of `rand_bytes` may rely on | one step: fill the buffer, or report an error with some of it filled |
| `Randomness` | every build of `rand_bytes`, with the kernel as the environment | property `PromiseSpec` is `RandomPromise` under a refinement mapping |
| `FaestApi` | every function of `faest_param.c.in` and the application that calls them | keys are the two bits the code looks at and a tail; OWF, witness, signature are terms |
| `CryptoSign` | `crypto_sign`, `crypto_sign_open` over one memory of cells | the two moves run a cell at a time, as `memmove` may |
| `Prg` | `prg`, `prg_2_lambda`, `prg_4_lambda` and `generic_aes_ecb_*`, all variants | a block is named by the two counter words it encrypts |
| `FieldTables`, `Fields` | `fields.c`, `fields.h`, `leaf_hash_*` | real widths, lanes, tables; a value is the set of its one bits |
| `UniversalHash` | `vole_hash`, `zk_hash_*` and the polynomials that are hashed by them, next to `SigLayout` | real lengths, symbolic elements |
| `HashContext` | `random_oracle.c`, the wrappers of `hash_shake.h`, the sponge of `sha3/` | small blocks, symbolic permutation |
| `AesWitness` | `expand_key`, the one-way function, `aes_extend_witness`, key and round constraints | real sizes, symbolic bytes: sets of terms under xor |
| `BavcProofs`, `VoleExchangeProofs`, `FaestSignProofs`, `FaestApiProofs`, `CryptoSignProofs`, `PrgProofs`, `HashContextProofs`, `RandomnessProofs` | theorems | see below |

How they compose. `BavcOpen`, `BavcCommit` and `BavcReconstruct` extend
`BavcTree`. `BavcExchange` extends `BavcOpen` and holds an instance of each of the other two:
commit runs to its end, `bavc_open` reads what it left, and `bavc_reconstruct`
reads what `bavc_open` wrote, after a delivery. In the same way
`VoleExchange` extends `Challenge` and holds an instance of `Vole`, whose second half waits for
a challenge that passed the grinding check and for the indices decoded from it. `UniversalHash` extends `SigLayout`, which
extends `ParamSets`: a part of the signature is written when its value has been hashed, at the
real place and length. `FaestApi` and `CryptoSign` take from `FaestSign` that a signature is accepted
for its own key and message only, and `FaestApi` takes from `Randomness`, through `RandomPromise`, what `rand_bytes` may leave behind. `FaestSign` uses the results of the others as the equations
of its terms: that an opening leads back to `hcom` for its own challenge only, and some
challenges cannot be opened (`BavcExchange`), that the verifier's columns are `V + delta u`
(`VoleExchange`), that the verifier's `a0` is the prover's (`UniversalHash`, `AesWitness`), and that
the hashes are functions of what was absorbed, one for each domain (`HashContext`).

Correspondence of state, where the name does not say it:

- `BavcOpen`: `s`, `nh` are the locals; `i`, `alpha`, `n` the indices and the node
  of the loops; `coms`, `nodes`, `pad` what has been written at `decom_i`; `pc` the loop that is running.
  The C loops' bodies are single actions because nothing can observe their inside.
- `BavcExchange`: `BavcOpen`'s buffers hold the *places* that keys and commitments are copied from;
  `Sent` is what those places hold. `keys` is the verifier's array, with a distinguished value for the
  zeros it starts with, so that a key that is read too early becomes part of what is computed. The
  variables of the committer's instance that would clash are `cpc`, `ci`, `cj`, `calpha`, `crow`, `ccom`, `hcom`,
  those of the verifier's begin with `v`. Keys are terms: two are equal only if they were computed alike.
- `Vole`: `r` holds the two rows the C code keeps; a row is the set of expansions `<<seed, vector>>`
  whose xor it is, because nothing else is ever done to a row of `ellhat` bits. `pc = "failed"` is the return of
  `vole_reconstruct` when `bavc_reconstruct` refuses, before any column is made; which openings it refuses is
  `BavcExchange`'s matter.
- `Fields`: `tmp` and `dst` are registers with the slots of their type in that build: bit b of
  lane n is slot n * word + b. `wild` are the slots that came from an unset lane; a test of one may go either way.
- `UniversalHash`: an accumulator is the set of terms it sums, each with the power of `s` or `t` it has been
  multiplied by so far; `prover` and `verifier` are the two kinds of zk contexts. `kinds` is a history of the constraints.
- `HashContext`: `sponge` holds the fields of `Keccak_HashInstance`, the state as the blocks permuted into it and the lanes
  added since; `todo` the primitives that the call in progress has still to make. `msg`, `fn`, `use` are histories.
- `FaestSign`: a value is a tuple of a tag and the values it was computed from.
  `oracle` fixes the answers of the last hash in advance, by counter; a query with
  another transcript gets an answer that is marked with it. The counter enters the hash as its four bytes in little
  endian (`CtrBytes`), in the same way for both sides, and `Rho` is what the signer may mix into the key of the seeds. Only `Deliver*` has no
  counterpart in the code: it is the caller between the two functions. `changed`
  is a history variable that names what it altered.
- `FaestApi`: `sk`, `pk`, `unpacked` are the caller's buffers and keep their
  contents between calls; `local` is the unpacked key on the stack of
  `sign_with_randomness`; `worked`, `failed`, `used` and `draw` are history variables: `used` holds the pointers of the
  caller that have been followed, and `draw` makes each draw of keygen's loop a step, also one that
  leaves the same key in the buffer, so that the loop can go on for ever in the model as it can in the code. The calls that only
  forward to another function run as one behaviour with the callee's checks.
- `CryptoSign`: `pc = "unsigned"` is the return after `faest_sign` has failed: the message has been moved and `*smlen` written by then.
- `Prg`: `Uses` are the purposes of all calls, those of `bavc.c` (`BavcUses`) and the one of `vole.c` (`VoleUses`). `out` is the sequence of output bytes, each with its counter words, rounds and place in the block;
  `label` is the case at which the switch of the portable cipher stands, so that falling
  through the cases is a step. `before` keeps the other call.
- `AesWitness`: `w` is the sequence of nibbles behind the pointer `w`; `arg` maps each S-box
  of the circuit to its input, which makes its output a name; `iwd`, `j`, `round`, `block` are the
  C variables. `Commit` has no counterpart: it is the prover who may hold another witness.

Every definition next to a mapped one that the specification does not use
(`PosInTreeColliding`, `UsableUnopened`, ...) is a plausible mistake of the definition next to it; `PROJECT.json` lists which property notices which of them.

## The runs

| run | question | properties |
|---|---|---|
| `bavc_exchange` | do commit, open and reconstruct agree on every seed that is not hidden, and from one encoding only? | `GuardIsExact`: the unsigned `nh - 2 tau + 1` is the number of keys that will be written. `FitsBuffer`: never more than T_open slots. `OpensAllButHidden`: with the revealed keys exactly the leaves that are not hidden can be derived. `PromiseSpec`: refinement of `PuncturedOpening`, so the order of the keys is the canonical one. `HonestAccepted`: an honest opening leads to the committer's hash. `SeedsInPlace`: the seeds that are not hidden arrive where `vole_reconstruct` looks for them. `OnlyCanonicalAccepted`: no other bytes and no other challenge lead there |
| `vole_exchange` | from candidate to columns: is the grinding check exact, is the decoding the verifier's reading of the bits, do the columns correlate? | `GrindExact`, `ColumnBitsAgree` (which also bounds the indices). `Correlation`: the in-place fold gives the sums it stands for, and `q = V + delta u` in every column, padding included |
| `faest_sign` | is what the signer returns consistent, accepted, and nothing else accepted? | `SignatureConsistent`, `IntactAccepted`, `OnlySignedAccepted`, `HeapBalanced`, liveness `Completes` |
| `universal_hash` | for the real parameter sets: do the parts of a signature fit, and are they hashed as they should be? | `PartsTile`: the parts lie side by side and fill the signature, and the verifier's accessors find each of them. `VoleHashAsMeant`: every byte once, at its own power. `ProofChecksClaims`: prover's and verifier's `a0` differ by the hash of the claims, whatever the constraints and their order |
| `faest_api` | any three calls, any arguments, a random source that may fail | `KeygenValid`, `RefusedAtOnce`, `SignedVerifies` (also after the buffers were reused for another key), `NoNullFollowed`: no pointer that was given as null is read or written, neither behind a function's own check nor in those it calls; liveness `EveryCallReturns`: nothing but a source that leaves a rejected key for ever keeps a call from returning |
| `faest_api_errors` | is a failed key generation reported? (it is not, see below) | `FailureReported` |
| `crypto_sign` | do message and signed message survive any placement of the buffers? | `OpensToMessage`, `IntactOpens`, `OtherCellsUntouched` |
| `randomness` | is a buffer full when `rand_bytes` says so, however the kernel answers? | `NoGapInBuffer`, `DescriptorClosed`, refinement `PromiseSpec`, which includes that every call returns |
| `prg` | do the variants agree, and do purposes stay apart? | `StreamIsCounter`, `TweaksSeparate` |
| `aes_witness` | do the constraints find what the witness holds, and bind all of it? | `HonestSatisfies`, `AlteredCaught` |
| `fields` | does every build compute in the field the comments name? | `ResultCorrect`: products, polynomial values and leaf hashes against polynomials over GF(2). `PaddingStaysOut`: no padding or unset lane reaches an element. `EmbedsBytes`: the tables of alpha embed GF(2^8). `ByteMapsAgree`: each way to square or invert a byte |
| `hash_context` | is a context's output SHAKE of what it was fed, for any split into calls and with copies? | `StreamAsMeant`, `OraclesSeparate` |

`bavc_exchange` also checks the `TypeOK` of `BavcOpen`, which the proofs rest on. All properties but one hold.

The one that does not is `FailureReported`. The header says that keygen "Returns 0 for
success, or a nonzero value indicating an error" (`faest_param.h.in:51`). `keygen`
ignores the result of `rand_bytes` (`faest_param.c.in:40`, `44`) and returns 0 (line 52): the counterexample is one
call in which the source delivers too little over a buffer that held an acceptable
key before. What still holds then is `KeygenValid`: the pair is one that
`validate_keypair` accepts.

`unpacked_sign_with_randomness` is the only signing function that does not test `rho`
against `rho_len` (`faest_param.c.in:129`, compare 90). The functions that call it have
tested it before; for an application that calls it directly the header promises nothing. What
keeps a missing `rho` with a length from being read is the test of the pointer in `hash_r_iv`
(`faest_impl.c:197`): `NoNullFollowed` fails without it, and with it such a call signs as if there were no `rho`.

What `faest_sign` assumes and what it shows: hashes do not collide (terms). Even
so acceptance of altered signatures is not obvious: a challenge of all zero bits
selects no correction and no `u_tilde`, so the algebra notices nothing and only
the transcripts do (leave `u_tilde` out of the second challenge and the run
finds an accepted alteration). The one part that may legally be exchanged is a
counter with the same hash, which the property allows.

## The bounds and why they are enough

- `bavc_exchange`: vectors of 4, 2 and 2 leaves, one longer than the others (`Tau1 = 1`), so that leaves
  interleave in both halves; every challenge opened, and every challenge against
  each opening, intact or with one damaged key, padding slot or
  commitment, for both kinds of instances. `TOpen = 3` with covers of 2 to 4 keys: a
  slot may be unused, an opening may not exist, and a challenge may need more keys
  than the buffer has. `UINT = 65536` stands for 2^32: the guard's
  expression is computed modulo it. Any wrap would show as it would at 2^32.
- `vole_exchange`: all 4096 strings of 12 bits with bytes of 4 bits, grinding bits that
  start inside the second byte, vectors of 3, 2 and 2 bits (the depth changes
  between vectors) and five columns of padding. Seeds are symbolic, so no value of them is singled out.
- `faest_sign`: three counters, hence 216 oracles; three leaf index vectors: one
  that cannot be opened, one that is all zero, one ordinary. With three counters
  the loop fails on both conditions in either order, succeeds at every counter
  including the last, and wraps. `CtrMod` stands for 2^32.
- `universal_hash`: no bound on the layout and on `vole_hash`, they are those of the twelve sets of `meson.build`.
  `MaxConstraints = 2`: zk_hash treats a constraint in the same way whatever came before it, except for the powers,
  and two are enough for every pair of kinds to meet in either order.
- `fields`: no bound on widths, tables and bytes. The operands of the wide multiplications are
  selected, four pairs for each field, build and multiplier (`Factors`): the top bits of all words against ones only, so that every lane carries and
  every reduction is due at some time; the top bit alone, which is reduced in the first turn; an irregular pair;
  and ones against the last bit of the multiplier, which takes all the doublings. Sums, leaves and powers of alpha add others.
- `hash_context`: blocks of 2 and 3 bytes, messages up to 4 bytes: calls end
  before, at and behind the end of a block, the domain byte or the padding may need a block of their own, and two squeezes cross a block
  together or alone (`MaxSqueezes = 2`, each of up to a byte less than two digests). Real blocks are 168 and 136 bytes.
- `faest_api`: one tail and two inputs give eight key and input pairs, a quarter of which keygen must reject; three calls
  make a key, replace or unpack it, and use it. Longer sequences repeat these over buffers that
  already hold arbitrary keys.
- `crypto_sign`: signatures of two cells, messages of none to three, in a memory of five: apart,
  equal, and overlapping by one or more cells to either side.
- `randomness`: up to 8 bytes, hence every split into reads, with interruptions and permanent errors between any two.
- `prg`: words of 3 bits, ivs that are small or wrap within the output, blocks of 2 bytes,
  outputs up to 2.5 blocks for `prg` and the full 2 lambda and 4 lambda of all levels.
- `aes_witness`: no bound on the sizes, they are the real ones. `Altered = 3`: every third nibble is altered,
  which meets both halves of every byte of a word, and every word, norm and round.

Deadlock checking is off where the program ends: each model of a function stops
when the function returns.

## Fairness

Liveness is stated where a loop has no bound of its own. The library is sequential: a step
that can be taken is taken, which is weak fairness of the program's steps. Whatever more is
assumed is about the environment, and said here.

- `BavcExchange`: weak fairness of the signer's two calls, so the `PromiseSpec` checked includes that `bavc_open`
  answers; whether an opening is ever delivered is left open, and no property needs it.
- `FaestSign`, `FairSpec`: weak fairness of the signer's, the caller's and the
  verifier's steps. `Completes` carries the condition that some counter is
  good, which is what the code relies on: `ctr` is never bounded and wraps, and with
  no good counter the loop really runs forever (a behaviour the run contains).
- `Randomness`: weak fairness of all steps, and strong fairness of an answer of the kernel
  other than an interruption, for `open` and for `read`: signals do not interrupt one call for ever. Without it
  the loops over `EINTR` do not end, in the model as in the code. The abstract answer of
  `RandomPromise` is weakly fair, so `PromiseSpec` contains that a call returns.
- `FaestApi`: weak fairness of the steps inside a call, nothing about the random source. It may deliver rejected
  keys, or fail over one, for ever; then `keygen` does not return, and `EveryCallReturns` says that this
  is the only way in which a call does not: in the end it has returned, or it is at keygen's loop with both low bits set from then on.

## What is proved

TLAPS checks the following for every value of the constants that satisfies the
modules' assumptions.

*Tree* (`BavcProofs`, first part). `PosInTreeIsLeaf`, `PosInTreeInjective`: `pos_in_tree` maps
the leaves of all vectors one to one to the last L nodes. `CoverSize`: a set s of
nodes closed under parents, in which each inner node has a marked child and with
tau leaves, has |s| - 2 tau + 1 nodes with exactly one marked child. This is the
arithmetic behind the guard of `bavc_open`; the argument counts parent-child pairs
twice: every marked node but the root is the child of one marked node, and every
marked inner node has one or two marked children.

*Opening* (`BavcProofs`, second part). `TypeCorrect`, `MarksCounted`, `NoOverrun`, `GuardCountsKeys`,
`HiddenLeavesSealed`, `CommitmentsCopied`, `OpeningIsComplete`, each a statement about `Spec`. The inductive
invariant says that during the first loop s is closed under parents up to the node the climb
stands at, that its leaves are those of the vectors done, that nh is its cardinality,
and that during the second loop the nodes written so far are as many as the nodes above the
index with one marked child. `NoOverrun` needs all of it together with `CoverSize`: the
bound was tested before the loop, on a number that only the counting argument ties
to what the loop writes. `OpeningIsComplete` adds `KeyInv`, the keys written so far in descending order with
none left out, and goes up from a leaf to the revealed node above it. `OpeningIsCanonical` is
the safety half of the refinement: each step of `bavc_open` is a stutter of `PuncturedOpening` or its one step.

*Challenge* (`VoleExchangeProofs`, first part). `EveryBitUsedOnce`: each bit below the grinding bits
belongs to exactly one vector (from products with K and K - 1, ordered by cases on
tau1). `ChallengeTyped`, `CheckIsExact`: the loops stay inside the string, and the
byte-wise check is exact for every width of a byte; the invariant is that the loop's
flag says whether a bit is set between the first grinding bit and the current byte.
`BitsAgree`: bit d of a vector's index is the bit of the challenge at the place where the verifier reads it; the loop's
invariant is kept on bits, and the sum they make is taken apart by halving.

*Commit, open, reconstruct* (`BavcProofs`, third part). `ExchangeOpens`: a behaviour of the composition, seen through the
variables of `BavcOpen`, is one of that component, because each other action leaves them alone. So its theorems hold
between its neighbours: `ExchangeWithinBuffer`, `ExchangeGuardExact`, `ExchangeComplete`, `ExchangeCanonical`.
`HonestOpeningAccepted` and `SeedsWhereRead`: an opening that arrives as it was sent leads to the committer's hash, and to his
seeds, in the places where they are read, for every tree and every generator. The invariants say of both sides
what the loops have filled so far: each key is derived from its parent's or taken from the opening (`Derived`, `VDerived`,
`VTaken`), rows and hashes are those of the leaves done (`CommitArrays`, `CommitHash`, `VSeeds`, `VHash`), and
the verifier's marks are the signer's (`VMarks`). `CanonicalOnly`: of all deliveries the model makes no other is accepted with that hash. Its
hypothesis `Collisionless` says that generator and leaf commitment do not collide, which the terms of the runs satisfy by
their form; without it the claim would be false of any real generator's outputs, so it is the theorem's and not the module's.

*Challenge to columns* (`VoleExchangeProofs`, second part). `ExchangeChecks`, `ExchangeGrindExact`, `ExchangeBitsAgree` in the same way from
`Challenge`. `VoleCorrelation`: after `vole_reconstruct` q = V + delta u in every column, padding included, for every depth and number
of vectors. The invariant `VoleInv` gives every entry of the two rows as the sum of the seeds in certain
places of the buffer (`Triangle`): entry y of row x sums the places z with z \div 2^x = y, and column d those with bit
d set that have been folded. At the end of a vector column d of the signer sums the leaves with bit d; the verifier's
sums the leaves whose place, that is their number xor delta, has it. The two differ, if delta has bit d, by the sum of all (`Reconstructing`).

*Application interface* (`FaestApiProofs`). `GeneratedIsValid`, `NoRefusalAfterWork`, `SignaturesVerify`, `NullIsNotFollowed`, for any keys and any number of
calls in any order. The invariant: unpacked keys are whole or cleared, never half of one; what was tested on entry is known in
the functions called; a signature on the caller's side is that of the key which was passed, whatever the buffers have held since. For the pointers
it says that what was followed so far is not null, and that inside a call the function's check has excluded the null pointers which are still to be followed.

*Buffers of `crypto_sign`* (`CryptoSignProofs`). `OpensToWhatWasSigned`, `IntactIsOpened`, `WritesOnlyItsResult`, for every size
of memory, message and signature, and every placement. The invariant says that `memmove` has moved its first k cells in the direction it
chose and that the places it has still to read hold what they held (`Moved`), that the signed message lies
where it should (`Sealed`), and that one that was damaged, in whatever way, does not verify.

*Signing* (`FaestSignProofs`). `SignaturesConsistent`, `SignedIsAccepted`,
`NothingElseIsAccepted`, `HeapIsBalanced`, for every oracle, every set of openable
challenges and every bound of the counter. The invariant `IInv` names the term each
part has when it is written (`SignerTerms`), says that all counters before the current one were
tried in vain and that `chall_3` belongs to the current one (`Attempts`), that a returned signature is
whole (`Finished`), and that the verifier of an unaltered one arrives at the same terms
(`VerifierTerms`). For altered ones `TInv` adds that exactly the changed part differs from
what was sent (`Tampering`) and what the verifier's transcript absorbs (`Absorbed`); a match of the
last challenge then forces every part but the counter to be the sent one.

*Generator* (`PrgProofs`). `SameStream`: each variant writes the bytes of the encrypted counters from the tweaked iv on. The
invariant says of the loop that while bytes are wanted those written are c whole blocks and the counter is the c-th;
of the portable cipher that it has encrypted its block before it falls through; of the unrolled variants that the
counters filled so far are the first ones, and that their number makes the output's length, at level 192 too. `PurposesApart`
rests on the tweaks of all uses being different words and on a small number added modulo a word being found again.

*Hash contexts* (`HashContextProofs`). `StreamsAsMeant`, `OraclesNeverMeet`, for blocks, messages and outputs of every size and
every split into calls. The invariant `Inv` says of a context that takes bytes that its sponge is the one which the bytes absorbed so
far determine, n blocks and i bytes of the next (`Absorbed`), and of one that gives bytes that it stands at place i of the p-th block behind
the padded message (`Empties`) and has given the p * rate + i bytes before. In between the call's data are the last bytes of what the context
is fed (`LastOf`), and what is still to be called has the one order that the functions use (`CallInShape`), so that output never comes before
the padding nor input after it. One lemma for each way a step can change a sponge (`PartAbsorbed`, `BlockAbsorbed`, `MessageEnds`,
`PermuteEmpties`) is about functions of lanes, with the boundary of the block as the case that matters. `OraclesNeverMeet` takes
an output apart: each block of a padded message has something in its last lane and no later one has (`PaddingTells`), the suffix
tells the length (`LengthTells`), whatever bytes the message has, and the last byte tells the function (`BytesTell`).
The permutation is symbolic there as in the runs: that different inputs of it have different outputs is what an ideal one has.

*Randomness* (`RandomnessProofs`). `FillsFromTheFront`, `SuccessIsFull`, `DeviceIsClosed` and
`KeepsPromise`: for requests of every length each step of `rand_bytes` is the answer that
`RandomPromise` allows or changes nothing a caller sees. The invariant says that while the
answer is pending the advanced pointer and the remaining length add up to the request and the
buffer is filled up to the pointer, and that the device is held at exactly three places.

Assumptions: `ParamAssumption`, `OpenAssumption`, `ChallengeAssumption`, `ByteAssumption`,
`SignAssumption`, `ZeroAssumption`, `SizeAssumption`, `ScaleAssumption`, `MaxLenAssumption` and `RatesAssumption` only restrict constants (numbers are natural, tau1 < tau, and the like).
`AlteredAssumption` and `MaxConstraintsAssumption` do the same for modules without theorems.

How induction is done. The library's induction theorems take an operator as a parameter, which no prover at hand can
instantiate. Where an argument goes along a path or a sum, it uses a least counterexample, a set of
numbers that contains 0 and each successor (`Induction` in `VoleExchangeProofs`), or the steps of the program itself. Powers of two come
from the number of subsets of a finite set (`PowerIsSubsets`), since the provers know nothing of `^`.

Only model-checked:

- liveness: `Completes`, `EveryCallReturns`, and that an answer comes in both `PromiseSpec`s (their safety halves are `OpeningIsCanonical` and
  `KeepsPromise`). It needs fairness and ENABLED;
- what is about the twelve parameter sets with their real numbers, the bytes of the S-box or the real fields: `PartsTile`,
  `VoleHashAsMeant`, `ProofChecksClaims`, `HonestSatisfies`, `AlteredCaught`, `ResultCorrect`, `PaddingStaysOut`, `EmbedsBytes`, `ByteMapsAgree`. There
  is no constant to generalise over, or (in the sequence of constraints) only a bound.

## What is not modelled, and why

- The permutation of Keccak, in its several implementations: a function of data without control, symbolic in `HashContext`. The
  state is there a sequence of bytes, and adding to or extracting a range of them is one operation: how
  `SnP-Relaned.h` and `opt64/KeccakP-1600-opt64.c` take the range apart into whole lanes and parts of lanes is idealised.
- Branches of the sponge that `random_oracle.c` cannot reach, as it absorbs whole bytes, finalises once and squeezes after that: the bit-wise
  input of `Keccak_HashUpdate` (`KeccakHash.c:42-60`), the refusals in `KeccakSponge.inc:158-159` and `216-219`
  and the finalisation on demand in `261-262`.
- The other two branches of `hash_shake.h`, over OpenSSL and over OQS: calls of those libraries, one for one.
- How tags and keys are carried through the bit-wise linear maps of a round in `faest_aes.c.in`: `AesWitness` has
  the values that the constraints relate, `UniversalHash` the polynomials by kind of constraint, with the results of the linear maps as committed elements.
- S-box inputs of zero, for which a norm can be exchanged: `AesWitness` keeps bytes symbolic.
- Failing allocations and a failing cipher library: the code asserts that they do not happen.
- The allocation fallbacks of `compat.c`: a sequential computation of one address, with a size
  (`compat.c:77`) that no caller brings near an overflow.
- The intrinsics themselves and `cpu.c`: only the control around them is in `Prg`, and the lanes they move in `Fields`.
- `tests/` and `tools/`.

## The plan

Done, in this order: tree layout and opening (the heart of the scheme), commit,
reconstruct, challenge, VOLE, layout, signing and verification, API, randomness,
generator, witness and constraints; then fields, universal hashing, hash contexts, and
the exchanges that run commit, open and reconstruct, and challenge and VOLE, in one behaviour.

To extend the model: the linear maps of `AesWitness` with the tags of the prover and the keys of the verifier;
`crypto_sign` over the buffers of `FaestApi`.

To prove: `ProofChecksClaims` of `UniversalHash` for a sequence of constraints of every length; the runs bound it by `MaxConstraints`.
A new property takes the place of the one it implies: each run should keep one question and few answers.
