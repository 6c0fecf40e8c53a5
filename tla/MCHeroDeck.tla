----------------------------- MODULE MCHeroDeck -----------------------------
(* HeroDeck with the two pages of the site, on a scale of a few ticks.       *)
EXTENDS HeroDeck, TLC

HeroPages == <<"opening", "portfolio">>
HeroDurations == [opening |-> 2, portfolio |-> 3]
=============================================================================
