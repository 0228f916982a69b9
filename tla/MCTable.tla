------------------------------- MODULE MCTable -------------------------------
(***************************************************************************)
(* A small instance of Table: three keys, two of which collide at the      *)
(* last slot, so that probing wraps around, in arrays of two, four, eight. *)
(***************************************************************************)
EXTENDS Table, TLC

CONSTANTS a, b, c, v

SmallHash == (a :> 7 @@ b :> 7 @@ c :> 0)
=============================================================================
