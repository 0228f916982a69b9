------------------------------ MODULE MCScanner ------------------------------
(* Small instances of Scanner for TLC: all texts over a few alphabets.     *)
EXTENDS Scanner, TLC

CONSTANTS Longest    \* bound: the characters of a text

MCKeywords == <<"d", "o">> :> "DO" @@ <<"o", "r">> :> "OR" @@ <<"i", "f">> :> "IF"
MCModules == <<"s", "y", "s">> :> "MODULE_SYSTEM"

Alphabets ==
  {{"0", "7", "x", ".", "e", "+"}, {"1", "b", "a", ".", Newline},
   {Newline, "/", "*", Quote, "a"}, {Newline, "/", Quote, Backslash, "n"},
   {"=", "<", ">", "!", " "}, {"#", "@", "s", "y", Newline}, {"d", "o", "r", "i", "f"}}

MCSources == UNION {UNION {[1..n -> chars] : n \in 0..Longest} : chars \in Alphabets}
===============================================================================
