-------------------------- MODULE MCCalledFunctions --------------------------
(* Model-checking instance of CalledFunctions: main, an external function,   *)
(* two static ones and one known only by its prototype.                     *)
EXTENDS CalledFunctions

CONSTANTS main, ext, stat1, stat2, proto

MCFunction == {main, ext, stat1, stat2, proto}
MCBody == {main, ext, stat1, stat2}
MCDefinitions == <<stat2, stat1, ext, main>>
MCStatic == {stat1, stat2}
=============================================================================
