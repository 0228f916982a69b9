------------------------------- MODULE MCScopes -------------------------------
(***************************************************************************)
(* The functions that Scopes is checked on.  Loops: a loop around a block  *)
(* of up to three statements, with closures that outlive it.  Nested:      *)
(* functions in functions, with names that are shadowed, shared, constant, *)
(* parameters, or captured over more than one level. Classes: a class and  *)
(* its subclass, with closures and classes in a method.                    *)
(***************************************************************************)
EXTENDS Scopes

UpTo(n, S) == UNION {[1 .. m -> S] : m \in 1 .. n}
Blocks(bodies) == {<<"block", b>> : b \in bodies}

Get(n) == <<"expr", <<"get", n>>>>
Set(n, e) == <<"expr", <<"set", n, e>>>>
Lambda(ps, b) == <<"lambda", ps, b>>
Run(n) == <<"expr", <<"call", n, <<>>>>>>
Lit(k) == <<"lit", k>>
Var(n, k) == <<"var", n, Lit(k)>>

\* Loops.

Bump(n) == Lambda(<<>>, <<Set(n, Lit(7)), Get(n)>>)
Simple == {Var("y", 2), Set("f", Bump("x")), Set("f", Bump("y"))}
Guarded == {<<"branch", <<j>>>> : j \in {<<"break">>, <<"continue">>, <<"return", Lit(1)>>}} \union
           {<<"branch", <<<<"break">>, <<"none", <<"continue">>>>>>>>,
            <<"else", <<"continue">>, <<"break">>>>}
Plain == Simple \union Guarded

InnerBlocks == Blocks({<<s>> : s \in Plain} \union {<<s, t>> : s \in Simple, t \in Plain})
Inner == InnerBlocks \union {<<"while", b>> : b \in InnerBlocks}
Bodies == Blocks(UpTo(3, Plain) \union {<<s, t>> : s \in Plain, t \in Inner}
                               \union {<<s, t>> : s \in Inner, t \in Plain})

Loops ==
  {<<Var("x", 1), Var("f", 0), loop, Var("z", 3), Run("f"), Get("z")>> :
     loop \in UNION {{<<"while", b>>, <<"do", b>>, <<"for", "i", b>>} : b \in Bodies}}

\* Nested functions.

Uses == {Get("x"), Set("x", Lit(8)), Get("y"), Set("y", Lit(9))}
Deep == {<<s>> : s \in Uses \union {Run("g")}} \union
        {<<Get("w"), Get("x"), Set("y", Lit(5))>>, <<Get("x"), Set("w", Lit(5)), Get("y")>>}
Within == Uses \union {Var("y", 4), Var("w", 6), Run("g")} \union {<<"fun", "g", <<>>, b>> : b \in Deep}

Declared(n, k) == {Var(n, k), <<"const", n, Lit(k)>>}

Nested ==
  LET program(x, y, b) ==
        <<x, Var("f", 0), <<"block", <<y, Set("f", Lambda(<<>>, b))>>>>, Var("z", 3), Run("f"), Run("f")>>
  IN {program(Var("x", 1), Var("y", 2), b) : b \in UpTo(3, Within)} \union
     {program(x, y, b) : x \in Declared("x", 1), y \in Declared("y", 2), b \in UpTo(2, Within)}

\* Two closures share variables, in a slot and closed.
Shared ==
  {<<Var("x", 1), Var("f", 0), Var("h", 0),
     <<"block", <<Var("y", 2), Set("f", Lambda(<<>>, a)), Set("h", Lambda(<<>>, b)), Run("h")>>>>,
     Run("f"), Run("h")>> : a \in UpTo(2, Uses), b \in UpTo(2, Uses)}

\* A closure over a parameter, made twice, after the function has returned.
Parameters ==
  {<<Var("x", 1),
     <<"fun", "f", <<"p", "y">>, <<s, <<"return", Lambda(<<>>, <<t, u, Get("p")>>)>>>>>>,
     <<"var", "h", <<"call", "f", <<Lit(2)>>>>>>,
     <<"var", "k", <<"call", "f", <<<<"get", "x">>, <<"call", "h", <<>>>>>>>>>>,
     Run("k"), Run("h")>> : s \in Uses, t \in Uses, u \in Uses \union {Set("p", <<"get", "y">>)}}

\* Classes: `super' lives in a scope around the methods, `this' in slot 0.

Self == <<"expr", <<"this">>>>
Super(m) == <<"expr", <<"super", m, <<>>>>>>
Send(n, m) == <<"expr", <<"invoke", n, m, <<>>>>>>
Method(m, b) == <<"method", m, <<>>, b>>

InMethod ==
  {Self, Get("x"), Super("m"), Set("f", Lambda(<<>>, <<Self>>)),
   Set("f", Lambda(<<>>, <<Super("m"), Get("y")>>)), Var("y", 4), <<"leave">>,
   <<"return", <<"this">>>>,
   <<"class", "C", "", <<Method("m", <<Self>>)>>>>,
   <<"class", "C", "B", <<Method("m", <<Super("m"), Self>>)>>>>,
   <<"class", "C", "C", <<>>>>, <<"class", "C", "", <<Method("m", <<Super("m")>>)>>>>}

Initializers == {<<>>, <<Method("init", <<Set("x", Lit(6))>>)>>,
                 <<Method("init", <<Self, <<"leave">>>>)>>,
                 <<Method("init", <<Self, <<"return", Lit(1)>>>>)>>}

Classes ==
  {<<Var("x", 1), Var("f", 0),
     <<"class", "A", "", init \o <<Method("m", <<Self>>)>>>>,
     <<"block",
       <<Var("y", 2), <<"class", "B", "A", own \o <<Method("m", b)>>>>,
         <<"var", "b", <<"call", "B", <<>>>>>>, Send("b", "m")>>>>,
     Var("z", 3), Run("f"), <<"expr", <<"call", "A", <<>>>>>>>> :
       init \in Initializers, own \in Initializers, b \in UpTo(2, InMethod)} \union
  {<<Var("x", 1), Self>>, <<Var("f", 0), Set("f", Lambda(<<>>, <<Self>>)), Run("f")>>}

Programs == Loops \union Nested \union Shared \union Parameters \union Classes
=============================================================================
