---------------------------- MODULE MCNormalizer ----------------------------
(* Normalizer on a WebSocket event with two trades, a backfilled event and
   the market's metadata. *)
EXTENDS Normalizer

MCDirect == {"markets"}
MCN == [t \in {"ws", "backfill"} \cup MCDirect |-> 1]
MCChanges == <<2>>
===========================================================================
