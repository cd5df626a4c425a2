----------------------------- MODULE MCApiKeys ------------------------------
(* Keys that may be generated and handlers are interchangeable; plans are not
   (FreePlan), nor is the string that is no key. *)
EXTENDS ApiKeys, TLC

KeySymmetry == Permutations(Key \ Stranger) \cup Permutations(Handler)
===========================================================================
