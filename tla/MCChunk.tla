------------------------------- MODULE MCChunk -------------------------------
(***************************************************************************)
(* Small instances of Chunk: three numbers, two of which collide at the    *)
(* last entry, and a string.                                               *)
(***************************************************************************)
EXTENDS Chunk, TLC

CONSTANTS one, two, three, text

SmallHash == (one :> 7 @@ two :> 7 @@ three :> 0 @@ text :> 1)
=============================================================================
