--------------------------- MODULE MCBavcExchange ---------------------------
(* BavcExchange with terms for keys: a key is the tree of the calls that   *)
(* made it, so two keys are equal only if they were computed alike.        *)
EXTENDS BavcExchange

MCPrg(key, tweak, b) == <<key, tweak, b>>
MCLeafSeed(e, key, tweak) == IF e THEN key ELSE <<key, tweak, "sd">>
MCLeafCom(e, key, tweak, u) == <<key, tweak, u, "com">>
MCRoot == <<"root">>
MCZero == <<>>
MCJunk == <<"junk">>
=============================================================================
