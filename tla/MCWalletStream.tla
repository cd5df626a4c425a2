--------------------------- MODULE MCWalletStream ---------------------------
(* WalletStream on two trades: one between two wallets, and one of a wallet
   with itself.  Users write one of the wallets in three ways. *)
EXTENDS WalletStream

CONSTANTS c1, t1, t2

MCAddress == {"0xab", "0xAB", " 0xab", "0xcd"}
MCLower == [a \in MCAddress |-> IF a = "0xAB" THEN "0xab" ELSE a]
MCTrim == [a \in MCAddress |-> IF a = " 0xab" THEN "0xab" ELSE a]
MCMaker == [trade \in Trade |-> "0xab"]
MCTaker == [trade \in Trade |-> IF trade = t1 THEN "0xcd" ELSE "0xab"]
MCFollowLists == {{"0xAB"}}
=============================================================================
