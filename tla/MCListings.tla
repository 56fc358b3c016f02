----------------------------- MODULE MCListings -----------------------------
(* A small instance of Listings: one client and tables of a few rows.      *)
EXTENDS Listings

CONSTANT W

OneWalker == {W}
JustTwo == {2}
TwoColumns == {0, 1}
=============================================================================
