-------------------------------- MODULE Arrays --------------------------------
(***************************************************************************)
(* ObjArray: arrays, typed arrays and string builders (object.c:142-259),  *)
(* the natives of @array, @string and @ctor that work on them, @sys.input, *)
(* and the handlers of subscripts.  payload is the block of memory, a      *)
(* function on the cells that exist, length and capacity are uint32_t.     *)
(* ARRAY_F64 stands for the two floating types and ARRAY_U8 for the six    *)
(* integer types.  Numbers are counted in halves (see LoxSequences).       *)
(***************************************************************************)
EXTENDS Integers, Sequences, FiniteSets, SequencesExt

CONSTANTS
  Ids, Nil, Absent, Bytes, Values, Pushes, Sizes, Indices, Cuts, Texts, Lines,
  Backslash, Quote, LetterN, Newline,
  Junk,          \* a cell nobody has written
  Width,         \* of length and capacity, 32 in the code
  Align,         \* capacities are multiples of it, 8 in the code
  DoubleBelow,   \* below it capacities double, 64 in the code
  BuilderSize,   \* the capacity of an empty builder, 16 in the code
  Lengths        \* bound: the lengths that are explored

VARIABLES
  array,           \* the objects, by address
  held,            \* the objects a program can reach
  bytesAllocated,  \* vm.bytesAllocated, the part that is arrays
  running,         \* exit(1) has not been called
  asked, answer    \* the last operation and its result: only the properties look

vars == <<array, held, bytesAllocated, running, asked, answer>>

Modulus == 2 ^ Width
ARRAYLIKE_MAX == Modulus - Align
HeaderSize == 32

Chars == Bytes \union {Backslash, Quote, LetterN, Newline}

\* 2^32 is a multiple of the 8 of reserveArray, and the constants are small beside it.
ASSUME WidthAssumption ==
  /\ Modulus \in Nat /\ Align \in Nat \ {0} /\ Modulus % Align = 0 /\ 2 * Align <= Modulus
  /\ DoubleBelow \in Nat /\ 2 * DoubleBelow <= ARRAYLIKE_MAX
  /\ BuilderSize \in 2..ARRAYLIKE_MAX
ASSUME InputAssumption ==
  /\ IsFiniteSet(Ids)
  /\ Sizes \subseteq Int /\ Indices \subseteq Int /\ Cuts \subseteq Int
  /\ Pushes \subseteq Seq(Values \union {Nil})
\* An argument that is not given is none of those that are, a string is no address
\* of an array, and characters are distinct.
ASSUME DistinctAssumption ==
  /\ Absent \notin Ids /\ Absent \notin Texts /\ Absent \notin Cuts
  /\ \A text \in Texts : text \notin Ids
  /\ LetterN \notin {Backslash, Quote}
ASSUME BoundAssumption ==
  /\ Lengths \subseteq 0..ARRAYLIKE_MAX
  /\ Texts \subseteq Seq(Chars) /\ \A text \in Texts : Len(text) < ARRAYLIKE_MAX
  /\ Lines \subseteq Seq(Chars)

Boxed == "ARRAY"
Builder == "STRING_BUILDER"
TypedArrays == {"ARRAY_F64", "ARRAY_U8"}
Types == TypedArrays \union {Boxed, Builder}

\* No object at this address.
Free == [type |-> "free", length |-> 0, capacity |-> 0, payload |-> <<>>]
Live == {a \in Ids : array[a] # Free}
Garbage == Live \ held

\* An array must show this many elements and no cell that was never written.
Contents(x) == [i \in 1..x.length |-> x.payload[i - 1]]

\* What a program sees of its objects.
Shown ==
  [a \in Ids |-> IF a \in held THEN [type |-> array[a].type, seq |-> Contents(array[a])]
                ELSE Free]

Abstract == INSTANCE LoxSequences WITH
  Longest <- ARRAYLIKE_MAX, None <- Free, object <- Shown

------------------------------------------------------------------------------
\* Arithmetic.

AtMost(m, n) == IF m < n THEN m ELSE n
AtLeast(m, n) == IF m > n THEN m ELSE n
Aligned(n) == ((n + Align - 1) \div Align) * Align
OneAndHalf(n) == (n * 3) \div 2                              \* in 64 bits
OneAndHalf32(n) == ((n * 3) % Modulus) \div 2                \* in 32 bits

\* The capacity push asks for when the elements no longer fit.
Grown(capacity, needed) ==
  AtLeast(needed, IF capacity < DoubleBelow THEN capacity * 2 ELSE OneAndHalf32(capacity))

BuilderCapacity(n) ==
  AtMost(ARRAYLIKE_MAX,
         IF n + 1 < DoubleBelow THEN AtLeast(BuilderSize, Aligned((n + 1) * 2))
         ELSE Aligned(OneAndHalf(n + 1)))

Trunc(h) == IF h >= 0 THEN h \div 2 ELSE -((-h) \div 2)

\* A position, counted from the end when it is negative, between 0 and n.
Position(n, h) ==
  LET i == IF Trunc(h) < 0 THEN n + Trunc(h) ELSE Trunc(h)
  IN IF i < 0 THEN 0 ELSE IF i > n THEN n ELSE i

------------------------------------------------------------------------------
\* Cells. Each of these answers an object; a write past the block makes a cell.

NewArray(type) == [type |-> type, length |-> 0, capacity |-> 0, payload |-> <<>>]

Reserve(x, size) ==
  IF Aligned(size) < x.capacity THEN x
  ELSE [x EXCEPT !.capacity = Aligned(size),
                 !.payload = [i \in 0..Aligned(size) - 1 |->
                               IF i < x.capacity THEN x.payload[i] ELSE Junk]]

Write(x, at, vs) ==
  [x EXCEPT !.payload = [i \in DOMAIN x.payload \union (at..at + Len(vs) - 1) |->
                          IF i \in at..at + Len(vs) - 1 THEN vs[i - at + 1] ELSE x.payload[i]]]

\* Mutation of Fill: the stale cells are taken as they are.
FillNothing(x, n) == [x EXCEPT !.length = n]

Add(x, vs) == [Write(x, x.length, vs) EXCEPT !.length = x.length + Len(vs)]
Terminate(x) == Write(x, x.length, <<0>>)
Default(type) == IF type = Boxed THEN Nil ELSE 0
Fill(x, n) == Add(x, [i \in 1..n - x.length |-> Default(x.type)])

\* What setTypedArrayElement stores: 0 for what is no number, and any byte for a
\* number that does not fit, which C leaves undefined.
Stored(type, v) ==
  IF type = Boxed THEN {v}
  ELSE IF v = Nil THEN {0}
  ELSE IF type = "ARRAY_F64" THEN {v}
  ELSE IF 2 * Trunc(v) \in Bytes THEN {2 * Trunc(v)}
  ELSE Bytes

StoredAll(type, vs) ==
  {s \in [DOMAIN vs -> UNION {Stored(type, vs[i]) : i \in DOMAIN vs}] :
     \A i \in DOMAIN vs : s[i] \in Stored(type, vs[i])}

------------------------------------------------------------------------------
\* Memory. Only reallocate() counts bytes; growing, it may collect the garbage.

GrowSize(type) == IF type \in {Boxed, "ARRAY_F64"} THEN 8 ELSE 1

\* Mutation of FreeSize: one size for all typed arrays.
FreeSizeOfBytes(type) == IF type = Boxed THEN 8 ELSE 1

FreeSize(type) == CASE type = Boxed -> 8 [] type = "ARRAY_F64" -> 8 [] OTHER -> 1

FreedBytes(freed) ==
  MapThenSumSet(LAMBDA a : FreeSize(array[a].type) * array[a].capacity + HeaderSize, freed)

Stores(a, new, size, freed) ==
  /\ array' = [b \in Ids |-> IF b = a THEN new ELSE IF b \in freed THEN Free ELSE array[b]]
  /\ bytesAllocated' = bytesAllocated + size - FreedBytes(freed)

\* A handler leaves an object of the program changed.
Update(a, new) ==
  LET grows == new.capacity > array[a].capacity IN
  /\ \E freed \in {{}} \union (IF grows THEN {Garbage} ELSE {}) :
       Stores(a, new, GrowSize(new.type) * (new.capacity - array[a].capacity), freed)
  /\ UNCHANGED <<held, running>>

\* A handler makes an object and gives it to the program.
Insert(a, new) ==
  /\ a \notin Live
  /\ \E freed \in {{}, Garbage} :
       Stores(a, new, HeaderSize + GrowSize(new.type) * new.capacity, freed)
  /\ held' = held \union {a}
  /\ UNCHANGED running

\* Only a program that has not ended asks.
Asks(request) == running /\ asked' = request
Told(request, what) == Asks(request) /\ answer' = what
Number(n) == <<"number", n>>
Value(v) == <<"value", v>>
Truth(b) == <<"bool", b>>
Object(a) == <<"object", a>>
NaN == <<"NaN">>
Error == <<"error">>

Unchanged == UNCHANGED <<array, held, bytesAllocated, running>>
Refuses(request, what) == Told(request, what) /\ Unchanged
Exits(request) ==
  Asks(request) /\ running' = FALSE /\ UNCHANGED <<array, held, bytesAllocated, answer>>

Init ==
  /\ array = [a \in Ids |-> Free] /\ held = {}
  /\ bytesAllocated = 0 /\ running = TRUE
  /\ asked = <<>> /\ answer = Value(Nil)

------------------------------------------------------------------------------
\* Making objects.

\* OP_NEW_ARRAY: the elements are copied from the stack.
NewArrayLiteral(a, vs) ==
  /\ Len(vs) \in Lengths
  /\ Insert(a, IF vs = <<>> THEN NewArray(Boxed) ELSE Add(Reserve(NewArray(Boxed), Len(vs)), vs))
  /\ Told(<<"literal", vs>>, Object(a))

\* Array(), F64Array() ...: size is a number, or not given.
ArrayNative(a, type, size) ==
  LET length == IF size = Absent THEN 0 ELSE Trunc(size) IN
  /\ size # Absent => size > 0 /\ size <= 2 * ARRAYLIKE_MAX
  /\ length \in Lengths
  /\ Insert(a, Fill(Reserve(NewArray(type), length), length))
  /\ Told(<<"create", type, size>>, Object(a))

ArrayOverflows(type, size) ==
  /\ size # Absent /\ (size <= 0 \/ size > 2 * ARRAYLIKE_MAX)
  /\ Exits(<<"create", type, size>>)

\* A constant string or a builder: its characters, and whether there is a
\* pointer to them. A builder that was sliced from nothing has no payload.
IsText(src) == src \in Ids => src \in held /\ array[src].type = Builder
Text(src) == IF src \in Ids THEN Contents(array[src]) ELSE src
NoPointer(src) == src \in Ids => array[src].capacity = 0

\* StringBuilder(): what is not text is ignored.
StringBuilderNative(a, src) ==
  LET given == src # Absent /\ IsText(src)
      made(n) == [NewArray(Builder) EXCEPT !.capacity = n, !.payload = [i \in 0..n - 1 |-> Junk]]
  IN /\ src \in Ids => src \in held
     /\ given => Len(Text(src)) \in Lengths
     /\ Insert(a, IF given /\ (src \in Ids => ~NoPointer(src))
                  THEN Terminate(Add(made(BuilderCapacity(Len(Text(src)))), Text(src)))
                  ELSE Terminate(made(BuilderSize)))
     /\ Told(<<"builder", src>>, Object(a))

------------------------------------------------------------------------------
\* @array

IsArrayLike(a) == array[a].type # Builder

PushNative(a, vs) ==
  LET x == array[a]  newSize == x.length + Len(vs) IN
  /\ IsArrayLike(a) /\ newSize <= ARRAYLIKE_MAX /\ newSize \in Lengths
  /\ \E cells \in StoredAll(x.type, vs) :
       Update(a, Add(IF vs # <<>> /\ Aligned(newSize) > x.capacity
                     THEN Reserve(x, Grown(x.capacity, Aligned(newSize))) ELSE x, cells))
  /\ Told(<<"push", a, vs>>, Number(2 * newSize))

PushOverflows(a, vs) ==
  /\ IsArrayLike(a) /\ vs # <<>> /\ array[a].length + Len(vs) > ARRAYLIKE_MAX
  /\ Exits(<<"push", a, vs>>)

PopNative(a) ==
  LET x == array[a] IN
  /\ IsArrayLike(a) /\ x.length > 0 /\ x.length - 1 \in Lengths
  /\ Update(a, [x EXCEPT !.length = x.length - 1])
  /\ Told(<<"pop", a>>, Value(x.payload[x.length - 1]))

PopEmpty(a) ==
  IsArrayLike(a) /\ array[a].length = 0 /\ Refuses(<<"pop", a>>, Value(Nil))

\* Shrinking leaves the cells and the capacity alone.
ResizeNative(a, size) ==
  LET x == array[a]  length == Trunc(size) IN
  /\ IsArrayLike(a) /\ size > 0 /\ size <= 2 * ARRAYLIKE_MAX /\ length \in Lengths
  /\ Update(a, IF length > x.length THEN Fill(Reserve(x, length), length)
               ELSE [x EXCEPT !.length = length])
  /\ Told(<<"resize", a, size>>, Truth(TRUE))

ResizeOverflows(a, size) ==
  /\ IsArrayLike(a) /\ (size <= 0 \/ size > 2 * ARRAYLIKE_MAX)
  /\ Exits(<<"resize", a, size>>)

SliceNative(a, b, from, to) ==
  LET x == array[a]
      start == IF from = Absent THEN 0 ELSE Position(x.length, from)
      end == IF to = Absent THEN x.length ELSE Position(x.length, to)
      first == IF start > end THEN end ELSE start
      copied == [i \in 1..end - first |-> x.payload[first + i - 1]]
  IN /\ IsArrayLike(a) /\ Len(copied) \in Lengths
     /\ Insert(b, IF copied = <<>> THEN NewArray(x.type)
                  ELSE Add(Reserve(NewArray(x.type), Len(copied)), copied))
     /\ Told(<<"slice", a, from, to>>, Object(b))

LengthNative(a) ==
  IsArrayLike(a) /\ Refuses(<<"length", a>>, Number(2 * array[a].length))

\* A builder is not an array: what these natives answer to one.
ArrayNativeRefuses(a) ==
  /\ ~IsArrayLike(a)
  /\ \/ \E vs \in Pushes : Refuses(<<"push", a, vs>>, NaN)
     \/ Refuses(<<"pop", a>>, NaN) \/ Refuses(<<"length", a>>, NaN)
     \/ \E size \in Sizes : Refuses(<<"resize", a, size>>, NaN)
     \/ Refuses(<<"slice", a, Absent, Absent>>, Value(Nil))

------------------------------------------------------------------------------
\* @string

\* Mutation of NeedsGrowth: no place for the '\0'.
NeedsGrowthOfText(x, n) == x.length + n > x.capacity

\* Mutation of GrowStringBuilder: the new capacity has no limit.
GrowUnlimited(x, n) ==
  IF x.length + n + 1 > x.capacity THEN Reserve(x, OneAndHalf(x.length + n + 1)) ELSE x

\* growStringBuilder, in 64 bits.
NeedsGrowth(x, n) == x.length + n + 1 > x.capacity
GrowStringBuilder(x, n) ==
  IF NeedsGrowth(x, n)
  THEN Reserve(x, AtMost(ARRAYLIKE_MAX, OneAndHalf(x.length + n + 1))) ELSE x

\* The builder grows before the characters are found, so that it may be
\* appended to itself, and grows for a text without a pointer too.
AppendNative(b, src) ==
  LET x == array[b]
      n == Len(Text(src))
      grown == GrowStringBuilder(x, n)
      chars == IF src = b THEN [i \in 1..n |-> grown.payload[i - 1]] ELSE Text(src)
  IN /\ ~IsArrayLike(b) /\ IsText(src)
     /\ NeedsGrowth(x, n) => x.length + n + 1 <= ARRAYLIKE_MAX
     /\ x.length + n \in Lengths
     /\ Update(b, IF src \in Ids \ {b} /\ NoPointer(src) THEN grown
                  ELSE Terminate(Add(grown, chars)))
     /\ Told(<<"append", b, src>>, Object(b))

AppendOverflows(b, src) ==
  LET n == Len(Text(src)) IN
  /\ ~IsArrayLike(b) /\ IsText(src)
  /\ NeedsGrowth(array[b], n) /\ array[b].length + n + 1 > ARRAYLIKE_MAX
  /\ Exits(<<"append", b, src>>)

AppendRefuses(b, src) ==
  /\ src \in Ids => src \in held
  /\ IsArrayLike(b) \/ ~IsText(src)
  /\ Refuses(<<"append", b, src>>, Value(Nil))

\* slice() of text always makes a builder; nothing is reserved for no characters.
TextSliceNative(b, src, from, to) ==
  LET n == Len(Text(src))
      begin == Position(n, from)
      end == IF to = Absent THEN n ELSE LET i == Trunc(to) + (IF Trunc(to) < 0 THEN n ELSE 0)
             IN IF i < begin THEN begin ELSE IF i > n THEN n ELSE i
      copied == [i \in 1..end - begin |-> Text(src)[begin + i]]
  IN /\ Len(copied) \in Lengths
     /\ Insert(b, IF copied = <<>> THEN NewArray(Builder)
                  ELSE Terminate(Add(Reserve(NewArray(Builder), Len(copied) + 1), copied)))
     /\ Told(<<"textSlice", src, from, to>>, Object(b))

TextSliceRefuses(src, from) ==
  ~IsText(src) /\ Refuses(<<"textSlice", src, from, Absent>>, Value(Nil))

EqualsNative(b, src) ==
  Refuses(<<"equals", b, src>>, Truth(
    /\ ~IsArrayLike(b) /\ IsText(src)
    /\ array[b].length = Len(Text(src))
    /\ \A i \in 1..array[b].length : array[b].payload[i - 1] = Text(src)[i]))

------------------------------------------------------------------------------
\* @sys.input: the characters of a line one by one, and then, in place, the
\* escaped ones.

Room(x) ==
  IF x.length + 1 >= x.capacity
  THEN Reserve(x, AtMost(ARRAYLIKE_MAX, OneAndHalf32(x.capacity))) ELSE x

\* Lines below the length at which OneAndHalf32 wraps: what the theorems ask for, and
\* nothing in the code.
LinesFit == \A line \in Lines : 3 * (Len(line) + 1) < Modulus

ReadLine(line) ==
  LET read[n \in 0..Len(line)] ==   \* the first n characters
        IF n = 0 THEN Reserve(NewArray(Builder), BuilderSize)
        ELSE Add(Room(read[n - 1]), <<line[n]>>)
  IN Terminate(Room(read[Len(line)]))

\* One turn of the loop, at readPos or behind the backslash there.
Put(s, chars) ==
  [x |-> Write(s.x, s.writePos, chars), escaped |-> FALSE, writePos |-> s.writePos + Len(chars)]

UnescapeOne(s, i) ==
  LET c == s.x.payload[i]
      starts == c = Backslash /\ i + 1 < s.x.length
  IN IF s.escaped
     THEN Put(s, IF c \in {Backslash, Quote} THEN <<c>>
                 ELSE IF c = LetterN THEN <<Newline>> ELSE <<Backslash, c>>)
     ELSE IF starts THEN [s EXCEPT !.escaped = TRUE]
     ELSE Put(s, <<c>>)

Unescaped(x) ==
  LET done[i \in 0..x.length] ==   \* readPos is i
        IF i = 0 THEN [x |-> x, escaped |-> FALSE, writePos |-> 0]
        ELSE UnescapeOne(done[i - 1], i - 1)
  IN done[x.length]

\* Mutation of Unescape: the shorter text keeps the '\0' of the longer one.
UnescapeInPlace(x) == [Unescaped(x).x EXCEPT !.length = Unescaped(x).writePos]

Unescape(x) == Terminate([Unescaped(x).x EXCEPT !.length = Unescaped(x).writePos])

InputNative(b, line) ==
  /\ Insert(b, IF line = <<>> THEN ReadLine(line) ELSE Unescape(ReadLine(line)))
  /\ Told(<<"input", line>>, Object(b))

------------------------------------------------------------------------------
\* OP_GET_INDEX, OP_GET_SUBSCRIPT, OP_SET_INDEX and OP_SET_SUBSCRIPT.

InRange(a, h) == h >= 0 /\ h < 2 * array[a].length

GetSubscript(a, h) ==
  Refuses(<<"get", a, h>>, Value(IF InRange(a, h) THEN array[a].payload[Trunc(h)] ELSE Nil))

SetSubscript(a, h, v) ==
  /\ IsArrayLike(a) /\ InRange(a, h)
  /\ \E cell \in Stored(array[a].type, v) : Update(a, Write(array[a], Trunc(h), <<cell>>))
  /\ Told(<<"set", a, h, v>>, Value(v))

SetSubscriptFails(a, h, v) ==
  ~(IsArrayLike(a) /\ InRange(a, h)) /\ Refuses(<<"set", a, h, v>>, Error)

\* The program lets go of an object; @sys.gc() frees what nobody holds.
Forget(a) ==
  /\ Asks(<<"forget", a>>) /\ held' = held \ {a}
  /\ UNCHANGED <<array, bytesAllocated, running, answer>>

GcNative ==
  /\ running /\ Garbage # {}
  /\ array' = [a \in Ids |-> IF a \in Garbage THEN Free ELSE array[a]]
  /\ bytesAllocated' = bytesAllocated - FreedBytes(Garbage)
  /\ UNCHANGED <<held, running, asked, answer>>

ArrayOperation(a) ==
  \/ \E vs \in Pushes : PushNative(a, vs) \/ PushOverflows(a, vs)
  \/ PopNative(a) \/ PopEmpty(a) \/ LengthNative(a) \/ ArrayNativeRefuses(a)
  \/ \E size \in Sizes : ResizeNative(a, size) \/ ResizeOverflows(a, size)
  \/ \E b \in Ids, from, to \in Cuts \union {Absent} : SliceNative(a, b, from, to)
  \/ \E h \in Indices : GetSubscript(a, h)
  \/ \E h \in Indices, v \in Values : SetSubscript(a, h, v) \/ SetSubscriptFails(a, h, v)
  \/ Forget(a)

TextOperation(src) ==
  \/ \E b \in held : AppendNative(b, src) \/ AppendOverflows(b, src) \/ AppendRefuses(b, src)
                    \/ EqualsNative(b, src)
  \/ \E from \in Cuts : TextSliceRefuses(src, from)
  \/ \E b \in Ids, from \in Cuts, to \in Cuts \union {Absent} :
       IsText(src) /\ TextSliceNative(b, src, from, to)

Construct(a) ==
  \/ \E vs \in Pushes : NewArrayLiteral(a, vs)
  \/ \E type \in Types \ {Builder}, size \in Sizes \union {Absent} : ArrayNative(a, type, size)
  \/ \E src \in Texts \union Ids \union {Absent} : StringBuilderNative(a, src)
  \/ \E line \in Lines : InputNative(a, line)

Next ==
  \/ \E a \in held : ArrayOperation(a)
  \/ \E src \in Texts \union held : TextOperation(src)
  \/ \E a \in Ids : Construct(a)
  \/ \E type \in Types \ {Builder}, size \in Sizes : ArrayOverflows(type, size)
  \/ GcNative

Spec == Init /\ [][Next]_vars

------------------------------------------------------------------------------
\* Properties.

\* Every object has its fields, and what a program holds is an object.
TypeOK ==
  /\ \A a \in Live :
       /\ array[a].type \in Types
       /\ array[a].length \in Nat /\ array[a].capacity \in 0..ARRAYLIKE_MAX
  /\ held \subseteq Live
  /\ bytesAllocated \in Nat /\ running \in BOOLEAN

\* No native writes behind the block it has reserved (object.c:151), and what an
\* object shows of itself is inside it, whatever was pushed, resized, cut or typed.
WritesInside ==
  \A a \in Live : /\ DOMAIN array[a].payload = 0..array[a].capacity - 1
                  /\ array[a].length <= array[a].capacity

\* A builder with characters ends in '\0' behind them: parseFloat and @sys.error
\* hand its payload to C functions that look for it (nativeString.c:359).
Terminated ==
  \A a \in Live :
    LET x == array[a] IN
    x.type = Builder /\ x.length > 0 => x.length < x.capacity /\ x.payload[x.length] = 0

\* bytesAllocated, which paces the collector, counts each block once, at the size
\* with which it is freed (memory.c:124, object.c:160).
BytesExact ==
  bytesAllocated =
    MapThenSumSet(LAMBDA a : HeaderSize + array[a].capacity *
                    (IF array[a].type \in {Boxed, "ARRAY_F64"} THEN 8 ELSE 1), Live)

\* Every native and every subscript does to the sequence what it is asked for, and
\* nothing to any other: whatever growth, collections and stale cells do below.
ImplementsSequences == Abstract!Spec
===============================================================================
