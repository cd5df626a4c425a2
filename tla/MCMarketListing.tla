-------------------------- MODULE MCMarketListing --------------------------
(* MarketListing with three markets the filters admit and one they do not,
   one of them traded under its condition id as well; m1 and m2 were traded in
   the same minute. *)
EXTENDS MarketListing, TLC

CONSTANTS m1, m2, m3, m4, c1

MCCanonical == (c1 :> m1) @@ [m \in Market |-> m]

LastSeen(f) == f @@ [i \in Id |-> 0]

MCStart == {[lastSeen |-> LastSeen((c1 :> 2) @@ (m2 :> 1) @@ (m1 :> 1)), created |-> <<m1, m4, m2, m3>>],
            [lastSeen |-> LastSeen(m4 :> 1), created |-> <<m2, m1>>]}
===========================================================================
