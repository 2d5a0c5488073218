----------------------------- MODULE MCXhciRings -----------------------------
(* XhciRings for TLC; no definition tells one TRB from another.             *)
EXTENDS XhciRings, TLC

AnyTrb == Permutations(TRB)
=============================================================================
