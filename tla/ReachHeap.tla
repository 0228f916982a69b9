------------------------------ MODULE ReachHeap ------------------------------
(***************************************************************************)
(* What a garbage-collected heap promises the program that runs on it.     *)
(* The program may do anything with the objects it can reach from its      *)
(* roots.  An object it can no longer reach stays unreachable, untouched,  *)
(* until a collection removes it; a collection removes all of those, and   *)
(* nothing else.                                                           *)
(***************************************************************************)
CONSTANT Objects

VARIABLES
  heap,   \* the objects that exist
  refs,   \* refs[o]: the objects o refers to
  roots   \* the objects the program refers to

vars == <<heap, refs, roots>>

Closed(S) == \A o \in S : refs[o] \subseteq S

\* The least closed set that contains the roots.
Reachable ==
  {o \in heap : \A S \in SUBSET heap : roots \subseteq S /\ Closed(S) => o \in S}

Init ==
  /\ heap = {}
  /\ refs = [o \in Objects |-> {}]
  /\ roots = {}

\* A step of the program, which may create one object.
Run ==
  /\ \/ heap' = heap
     \/ \E o \in Objects \ heap : heap' = heap \union {o}
  /\ Reachable' \subseteq Reachable \union (heap' \ heap)
  /\ \A o \in heap \ Reachable : refs'[o] = refs[o]

CollectGarbage ==
  /\ heap' = Reachable
  /\ refs' = [o \in Objects |-> IF o \in Reachable THEN refs[o] ELSE {}]
  /\ UNCHANGED roots

Next == Run \/ CollectGarbage

Spec == Init /\ [][Next]_vars
=============================================================================
