----------------------------- MODULE MCFaestSign -----------------------------
(* FaestSign with three leaf index vectors, one of them too costly to open *)
(* and one of them all zero.                                               *)
EXTENDS FaestSign

MCDeltas == {<<"zero">>, <<"delta1">>, <<"delta2">>}
MCZero == <<"zero">>
MCOpenable == {<<"zero">>, <<"delta1">>}
MCRho == <<"rho">>
=============================================================================
