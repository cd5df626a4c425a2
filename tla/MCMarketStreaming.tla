-------------------------- MODULE MCMarketStreaming -------------------------
(* MarketStreaming with two markets, listed one by one, or in one event behind
   another without markets. *)
EXTENDS MarketStreaming, TLC

CONSTANTS markets, events, m1, m2, yes1, no1, yes2, no2

MCTokens == (m1 :> <<yes1, no1>>) @@ (m2 :> <<yes2, no2>>)
MCPairs == {MCTokens[m] : m \in TwoTokens}
MCLists == {[c \in Crawl |-> <<<<m1>>, <<m2>>>>], [c \in Crawl |-> <<<<>>, <<m1, m2>>>>]}
===========================================================================
