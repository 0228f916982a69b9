----------------------------- MODULE LoxSequences -----------------------------
(***************************************************************************)
(* What arrays, typed arrays and string builders promise a program: each   *)
(* is a finite sequence, and each operation answers for the sequence.      *)
(* Numbers are counted in halves, so that 3 is the number 1.5, and a size  *)
(* or an index may have a fraction.                                        *)
(***************************************************************************)
EXTENDS Integers, Sequences, FiniteSets

CONSTANTS
  Ids,       \* the names a program has for its sequences
  None,      \* a name that denotes no sequence
  Nil,       \* the value nil
  Absent,    \* an argument that is not given
  Bytes,     \* the numbers a byte can hold
  Longest,   \* the length no sequence exceeds
  Values,    \* the values that are stored
  Pushes,    \* the sequences of values that are added at once
  Sizes,     \* the numbers that are sizes
  Indices,   \* the numbers that are subscripts
  Cuts,      \* the numbers that are the ends of a slice
  Texts,     \* the strings of a program, sequences of bytes
  Lines,     \* the lines that are typed
  Backslash, Quote, LetterN, Newline

VARIABLES
  object,    \* the sequence each name denotes, with its type
  running,   \* whether the program still runs
  asked,     \* the last operation and its arguments
  answer     \* what it told the program

vars == <<object, running, asked, answer>>

Boxed == "ARRAY"
Builder == "STRING_BUILDER"
Types == {Boxed, "ARRAY_F64", "ARRAY_U8", Builder}

Number(n) == <<"number", n>>
Value(v) == <<"value", v>>
Truth(b) == <<"bool", b>>
Object(a) == <<"object", a>>
Refusals == {<<"NaN">>, <<"error">>, Value(Nil)}

Trunc(h) == IF h >= 0 THEN h \div 2 ELSE -((-h) \div 2)

\* What a cell of this type may hold when v is stored in it: whatever a byte can
\* hold when v is a number that does not fit.
Stored(type, v) ==
  CASE type = Boxed -> {v}
    [] type # Boxed /\ v = Nil -> {0}
    [] type = "ARRAY_F64" /\ v # Nil -> {v}
    [] OTHER -> IF 2 * Trunc(v) \in Bytes THEN {2 * Trunc(v)} ELSE Bytes

StoredAll(type, vs) ==
  {s \in [DOMAIN vs -> UNION {Stored(type, vs[i]) : i \in DOMAIN vs}] :
     \A i \in DOMAIN vs : s[i] \in Stored(type, vs[i])}

Default(type) == IF type = Boxed THEN Nil ELSE 0

\* The elements from position f to before position t, where a negative position
\* counts from the end.
Section(s, f, t) ==
  LET Position(h) == IF Trunc(h) < 0 THEN Len(s) + Trunc(h) ELSE Trunc(h)
      before == {i \in DOMAIN s : f # Absent /\ i <= Position(f)}
      behind == {i \in DOMAIN s : t # Absent /\ i > Position(t)}
      inside == DOMAIN s \ (before \union behind)
  IN [k \in 1..Cardinality(inside) |-> s[k + Cardinality(before)]]

\* A line as typed, with \\ \" and \n for the characters they stand for.
Unescaped(s) ==
  LET from[i \in 1..Len(s) + 1] ==
        IF i > Len(s) THEN <<>>
        ELSE IF s[i] # Backslash \/ i = Len(s) THEN <<s[i]>> \o from[i + 1]
        ELSE (CASE s[i + 1] = LetterN -> <<Newline>>
                [] s[i + 1] \in {Backslash, Quote} -> <<s[i + 1]>>
                [] OTHER -> <<Backslash, s[i + 1]>>) \o from[i + 2]
  IN from[1]

Elements(a) == object[a].seq
Type(a) == object[a].type
Lives(a) == object[a] # None
InRange(a, h) == h >= 0 /\ h < 2 * Len(Elements(a))
Text(src) == IF src \in Ids THEN Elements(src) ELSE src
IsText(src) == src # Absent /\ (src \in Ids => Lives(src) /\ Type(src) = Builder)

Becomes(a, type, s) == object' = [object EXCEPT ![a] = [type |-> type, seq |-> s]]
Told(request, what) == asked' = request /\ answer' = what /\ UNCHANGED running
Same == UNCHANGED object

Init ==
  /\ object = [a \in Ids |-> None] /\ running = TRUE
  /\ asked = <<>> /\ answer = Value(Nil)

Create(a, type, s, request) ==
  ~Lives(a) /\ Told(request, Object(a)) /\ Becomes(a, type, s)

Push(a, vs) ==
  /\ Told(<<"push", a, vs>>, Number(2 * (Len(Elements(a)) + Len(vs))))
  /\ \E s \in StoredAll(Type(a), vs) : Becomes(a, Type(a), Elements(a) \o s)

PopLast(a) ==
  /\ Becomes(a, Type(a), SubSeq(Elements(a), 1, Len(Elements(a)) - 1))
  /\ Told(<<"pop", a>>, Value(Elements(a)[Len(Elements(a))]))

\* The first n elements, and the default value where there are none.
Resize(a, h) ==
  /\ Told(<<"resize", a, h>>, Truth(TRUE))
  /\ Becomes(a, Type(a), [i \in 1..Trunc(h) |->
       IF i <= Len(Elements(a)) THEN Elements(a)[i] ELSE Default(Type(a))])

Get(a, h) ==
  Same /\ Told(<<"get", a, h>>, Value(IF InRange(a, h) THEN Elements(a)[Trunc(h) + 1] ELSE Nil))

\* The value of an assignment is what was assigned, not what was stored.
Set(a, h, v) ==
  /\ InRange(a, h)
  /\ Told(<<"set", a, h, v>>, Value(v))
  /\ \E x \in Stored(Type(a), v) : Becomes(a, Type(a), [Elements(a) EXCEPT ![Trunc(h) + 1] = x])

Length(a) == Same /\ Told(<<"length", a>>, Number(2 * Len(Elements(a))))

ArrayOperation(a) ==
  /\ Lives(a) /\ Type(a) # Builder
  /\ \/ \E vs \in Pushes : Push(a, vs)
     \/ Elements(a) # <<>> /\ PopLast(a)
     \/ Elements(a) = <<>> /\ Same /\ Told(<<"pop", a>>, Value(Nil))
     \/ \E h \in Sizes : Resize(a, h)
     \/ \E h \in Indices, v \in Values : Set(a, h, v)
     \/ Length(a)
     \/ \E b \in Ids, f, t \in Cuts \union {Absent} :
          Create(b, Type(a), Section(Elements(a), f, t), <<"slice", a, f, t>>)

TextOperation(b) ==
  \E src \in Texts \union Ids :
    /\ IsText(src)
    /\ \/ /\ Lives(b) /\ Type(b) = Builder
          /\ Told(<<"append", b, src>>, Object(b)) /\ Becomes(b, Builder, Elements(b) \o Text(src))
       \/ Create(b, Builder, Text(src), <<"builder", src>>)
       \/ \E f \in Cuts, t \in Cuts \union {Absent} :
            Create(b, Builder, Section(Text(src), f, t), <<"textSlice", src, f, t>>)

Equals(b, src) ==
  /\ Lives(b) /\ Same
  /\ Told(<<"equals", b, src>>, Truth(Type(b) = Builder /\ IsText(src) /\ Elements(b) = Text(src)))

Constructor(a) ==
  \/ \E src \in Ids \union {Absent} : ~IsText(src) /\ Create(a, Builder, <<>>, <<"builder", src>>)
  \/ \E vs \in Pushes : Create(a, Boxed, vs, <<"literal", vs>>)
  \/ \E type \in Types \ {Builder}, h \in Sizes :
       Create(a, type, [i \in 1..Trunc(h) |-> Default(type)], <<"create", type, h>>)
  \/ \E type \in Types : Create(a, type, <<>>, <<"create", type, Absent>>)
  \/ \E s \in Lines : Create(a, Builder, Unescaped(s), <<"input", s>>)

\* A request that the object is not made for, or out of range, changes nothing.
UnsuitedArray(a, op, arguments) ==
  \/ Type(a) = Builder /\ op \in {"push", "pop", "resize", "length", "slice", "set"}
  \/ Type(a) # Builder /\ op = "append"
  \/ op = "set" /\ ~InRange(a, arguments[3])
  \/ op = "append" /\ ~IsText(arguments[3])
  \/ op = "textSlice" /\ ~IsText(a)

Refuse ==
  /\ UNCHANGED <<object, running>> /\ answer' \in Refusals
  /\ \E a \in Ids : asked'[2] = a /\ Lives(a) /\ UnsuitedArray(a, asked'[1], asked')

\* The process ends, with its objects as they were, when it asks for a size that no
\* sequence has, below zero or above the longest.
NoSize(h) == h < 0 \/ h > 2 * Longest

Exit ==
  /\ running' = FALSE /\ UNCHANGED <<object, answer>>
  /\ \/ asked'[1] = "create" /\ NoSize(asked'[3])
     \/ \E a \in Ids :
          /\ asked'[2] = a /\ Lives(a)
          /\ \/ asked'[1] = "resize" /\ NoSize(asked'[3])
             \/ asked'[1] = "push" /\ Len(Elements(a)) + Len(asked'[3]) > Longest
             \/ asked'[1] = "append" /\ Len(Elements(a)) + Len(Text(asked'[3])) + 1 > Longest

Forget(a) ==
  /\ Lives(a) /\ object' = [object EXCEPT ![a] = None]
  /\ asked' = <<"forget", a>> /\ UNCHANGED <<running, answer>>

Next ==
  /\ running
  /\ \/ \E a \in Ids :
          \/ ArrayOperation(a) \/ TextOperation(a) \/ Constructor(a) \/ Forget(a)
          \/ \E src \in Texts \union Ids : Equals(a, src)
          \/ Lives(a) /\ \E h \in Indices : Get(a, h)
     \/ Refuse \/ Exit

Spec == Init /\ [][Next]_vars
===============================================================================
