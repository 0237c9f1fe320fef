----------------------------- MODULE MCListing -----------------------------
(* Listing with the symmetry of its requests and of its tokens, for TLC.   *)
EXTENDS Listing, TLC

Symmetry == Permutations(Requests) \cup Permutations(Tokens)
=============================================================================
