------------------------------ MODULE ParamSets ------------------------------
(***************************************************************************)
(* The twelve parameter sets (meson.build), as far as the lengths and the  *)
(* hashes of a signature depend on them.                                   *)
(***************************************************************************)
EXTENDS Integers

B      == 2     \* UNIVERSAL_HASH_B, bytes
IvSize == 16    \* IV_SIZE

Set(lambda, ell, tau, w, topen, em, sigSize) ==
  [lambda |-> lambda, ell |-> ell, tau |-> tau, w |-> w, topen |-> topen,
   em |-> em, sigSize |-> sigSize]

Names == {"128s", "128f", "em128s", "em128f", "192s", "192f",
          "em192s", "em192f", "256s", "256f", "em256s", "em256f"}

Param(name) ==
  CASE name = "128s"   -> Set(128, 1280, 11, 7, 102, FALSE, 4506)
    [] name = "128f"   -> Set(128, 1280, 16, 8, 110, FALSE, 5924)
    [] name = "em128s" -> Set(128, 960, 11, 7, 103, TRUE, 3906)
    [] name = "em128f" -> Set(128, 960, 16, 8, 112, TRUE, 5060)
    [] name = "192s"   -> Set(192, 2496, 16, 12, 162, FALSE, 11260)
    [] name = "192f"   -> Set(192, 2496, 24, 8, 163, FALSE, 14948)
    [] name = "em192s" -> Set(192, 1728, 16, 8, 162, TRUE, 9340)
    [] name = "em192f" -> Set(192, 1728, 24, 8, 176, TRUE, 12380)
    [] name = "256s"   -> Set(256, 3104, 22, 6, 245, FALSE, 20696)
    [] name = "256f"   -> Set(256, 3104, 32, 8, 246, FALSE, 26548)
    [] name = "em256s" -> Set(256, 2688, 22, 6, 218, TRUE, 17984)
    [] name = "em256f" -> Set(256, 2688, 32, 8, 234, TRUE, 23476)
=============================================================================
