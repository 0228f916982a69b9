------------------------------ MODULE MCVmStack ------------------------------
(***************************************************************************)
(* Small instances of VmStack: a function without parameters and one with  *)
(* one, a script, and a stack that grows once.                             *)
(***************************************************************************)
EXTENDS VmStack, TLC

CONSTANTS main, f, m

SmallArity == (main :> 0 @@ f :> 1 @@ m :> 0)
=============================================================================
