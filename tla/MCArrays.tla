------------------------------- MODULE MCArrays -------------------------------
(* A small instance of Arrays for TLC.                                     *)
EXTENDS Arrays

\* In halves: a byte holds 0 or 1, and 9, the number 4.5, fits no byte.
MCBytes == {0, 2}
MCValues == {9}
MCPushes == {<<>>, <<9>>, <<9, Nil>>}
MCSizes == {1, 3, 26, 30}
MCIndices == {-2, 2, 26}
MCCuts == {-2, 3}
MCTexts == {<<>>, <<Quote>>, [i \in 1..13 |-> Quote]}
MCLines == {<<>>, <<Backslash, LetterN, Backslash, Backslash>>, <<Backslash, LetterN, Backslash>>}
MCLengths == (0..2) \union {13}

MCSymmetry == Permutations(Ids)

\* What the next step depends on; a process that has ended takes none.
Data == IF running THEN <<array, held, bytesAllocated>> ELSE <<>>
===============================================================================
