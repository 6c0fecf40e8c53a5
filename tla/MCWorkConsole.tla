---------------------------- MODULE MCWorkConsole ----------------------------
(* WorkConsole on small instances.                                           *)
EXTENDS WorkConsole

CONSTANTS w1, i1

OneOfEach == {w1, i1}
=============================================================================
