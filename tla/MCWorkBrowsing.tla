---------------------------- MODULE MCWorkBrowsing ----------------------------
(* WorkBrowsing on small instances: of the works, one uses the tech stack.   *)
EXTENDS WorkBrowsing

CONSTANTS w1, t1

OneUsesIt == [w \in WorkIds |-> IF w = w1 THEN {t1} ELSE {}]
=============================================================================
