--------------------------- MODULE MCAuctionHouse ---------------------------
(* AuctionHouse for TLC: two players who log in, one who is away and an item.*)
EXTENDS AuctionHouse, TLC
CONSTANTS p1, p2, p3, sword

Symmetry == Permutations(Visitors)
=============================================================================
