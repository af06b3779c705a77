---------------------------- MODULE MCDiscovery -----------------------------
(* Model-checking instance of Discovery: two pairs on different pages, and a     *)
(* match that is better than one of them and never an arbitrage.               *)
EXTENDS Discovery

TwoArbs == {<<0, 1, 1>>, <<1, 1, 3>>}
ThreeMatches == TwoArbs \cup {<<1, 1, 2>>}
=============================================================================
