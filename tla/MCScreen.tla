------------------------------ MODULE MCScreen ------------------------------
(* Screen for TLC. The cursor moves from the upper left corner to where it   *)
(* is cut off on both sides, out of sight, and back.                         *)
EXTENDS Screen

MCMoves == {[x |-> 1, y |-> 2], [x |-> -3, y |-> -3]}
MCTexts == {<<"a">>, <<"b", "a">>}
=============================================================================
