---------------------------- MODULE MCStreamHub ----------------------------
(* StreamHub with one connection.  Two spellings of one wallet address make
   the lower-casing of hub.go:92 and hub.go:151 observable; lists with an
   empty name, what hub.go:81 and hub.go:91 leave out. *)
EXTENDS StreamHub

CONSTANTS c1

MCAddress == {"0xAB", "0xab"}
MCMarketLists == {{}, {"m1", ""}}
MCWalletLists == {{}, {"0xAB", ""}}
MCLower == [a \in Address |-> "0xab"]
=============================================================================
