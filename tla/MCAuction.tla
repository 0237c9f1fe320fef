------------------------------ MODULE MCAuction ------------------------------
(* Auction with the symmetry of its bidders and of its requests, for TLC.  *)
EXTENDS Auction, TLC

Symmetry == Permutations(Requests) \cup Permutations(Bidders)
=============================================================================
