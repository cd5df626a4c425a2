--------------------------- MODULE MCPriceEngine ---------------------------
(* PriceEngine with two tokens: snapshots of two and of one level a side, a
   change of levels, a quote for each token, and a quote without an ask. *)
EXTENDS PriceEngine, TLC

CONSTANTS yes, no

Levels(t, reset, bids, asks) ==
  [kind |-> "levels", token |-> t, reset |-> reset, bids |-> bids, asks |-> asks]
Only(p) == [q \in Price |-> IF q = p THEN "set" ELSE "absent"]

MCFeed == {Levels(yes, TRUE, Only(1), Only(3)),
           Levels(yes, FALSE, [Only(2) EXCEPT ![1] = "gone"], Only(0)),
           [kind |-> "changes", quotes |-> <<[token |-> yes, bid |-> 1, ask |-> 2],
                                             [token |-> no, bid |-> 1, ask |-> 0]>>]}
MCTrade == {[price |-> 1, size |-> 2]}
===========================================================================
