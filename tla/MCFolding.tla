------------------------------ MODULE MCFolding ------------------------------
(***************************************************************************)
(* The expressions that Folding is checked on.                             *)
(***************************************************************************)
EXTENDS Folding

Leaves ==
  {<<"value", Num(1)>>, <<"value", Num(2)>>, <<"value", Str(1)>>, <<"value", Nil>>, <<"x">>, <<"g">>}

Unaries(E) == {<<"unary", op, e>> : op \in {"NOT", "NEGATE"}, e \in E}
Binaries(E, F) == {<<"binary", op, e, f>> : op \in {"ADD", "SUBTRACT", "LESS", "EQUAL"}, e \in E, f \in F}
Logic(E, F) == {<<op, e, f>> : op \in {"and", "or"}, e \in E, f \in F}
Others(E) == {<<op, e>> : op \in {"assign", "index"}, e \in E}

Shallow == Leaves \union Unaries(Leaves) \union Binaries(Leaves, Leaves) \union Others(Leaves)

\* and, or: as an expression of its own, or assigned, or an operand whose
\* last instruction the optimizer cannot merge.
Plain ==
  Shallow \union Unaries(Shallow) \union Others(Shallow)
    \union Binaries(Shallow, Leaves) \union Binaries(Leaves, Shallow)
    \union Logic(Shallow, Leaves) \union Logic(Leaves, Shallow)
    \union {<<"assign", e>> : e \in Logic(Leaves, Leaves)}
    \union Binaries(Logic(Leaves, {<<"g">>}), Leaves)
    \union Unaries(Logic(Leaves, {<<"g">>}))

\* and, or as an operand whose last instruction is a load.
LogicOperands == Unaries(Logic(Leaves, Leaves)) \union Binaries(Logic(Leaves, Leaves), Leaves)

SomeX == {Num(3), Nil}
SomeG == {Num(4), <<"array", 0>>, <<"instance", 0>>}
=============================================================================
