# Verification of LoxFlux

LoxFlux is a bytecode interpreter for the Lox language, in C: one thread, one
global `VM`, a single-pass compiler, a mark-and-sweep collector. This directory
holds TLA+ models of its parts, the configurations with which TLC checks them,
and proofs that TLAPS checks. Paths such as `vm.c:1268` are relative to
`src/src/` of the repository. The models describe the default build: constant
folding on (`common.h:36`), stress collection off.

## 1. The system

```
 entrance.c  --line or file-->  interpret()  (vm.c:1913)
                                  |  compile()                     run()
                                  v                                  v
 scanner.c -> compiler.c -> Chunk (code, lines)  --------->  run loop of vm.c
                 | opStack: folding                  frames, stack, open upvalues
                 v                                       |          |
       shared constants, string and number pools        tables     objects
       (vm.c, stringTable.c, numberTable.c)            (table.c)  (object.c)
                                                         |          |
                                                  reallocate() (memory.c)
                                                         |
                                              garbageCollect() (gc.c)
```

| Component | State | Operations | What is hard |
|---|---|---|---|
| Collector (`gc.c`, `memory.c`) | `vm.objects`, marks, `gcMark`, `grayStack`, `bytesAllocated`, `nextGC` | `reallocate`, `markRoots`, `blackenObject`, `traceReferences`, `sweep`, flip | it runs inside any allocation, in the middle of a handler; the meaning of a mark flips |
| Objects (`object.c`) | header (type, mark, next) and fields | `newClosure`, `newClass`, ... | half-built objects seen by the collector |
| Run loop (`vm.c`) | stack, frames, open upvalues, globals | one handler per opcode, `call`, `callValue`, `captureUpvalue`, `closeUpvalues`, natives | C locals that are not roots; pointers into the stack |
| Table (`table.c`) | entries, count, tombstones; `symbol` in each key | get, set, delete, grow, freeze | stale cached slots, tombstones and the load factor |
| Pools (`stringTable.c`, `numberTable.c`, `addConstant`) | interned strings and numbers, shared constants | intern, look up, add | deduplication, 24-bit indices |
| Expression compiler (`compiler.c`) | chunk, `opStack` | Pratt parser, `instructionOptimize` | rewriting emitted code around jumps |
| Scanner (`scanner.c`) | position, line | `scanToken` and its helpers | longest lexeme, the end of the text, lines inside comments and strings |
| Statement compiler (`compiler.c`) | the chain of compilers: locals, scopes, loops, upvalues | declarations, functions, classes, loops, `break`, `continue` | compile-time slots against the run-time stack, names across nested functions |
| Line table (`lineArray.c`) | run-length ranges | write, fall back, search | boundaries after a fallback |
| Arrays and builders (`object.c`, `nativeArray.c`, `nativeString.c`, `nativeCtor.c`) | payload, length, capacity | constructors, push, pop, resize, slice, append, input, subscripts | capacity arithmetic, negative indices, typed conversion, the `'\0'` behind a text |
| Imports (`vm.c:39`, `vm.c:1648`) | cache of scripts | load, compile, call | errors half way, cycles, the frame limit |
| REPL (`entrance.c`) | globals across lines | `interpret_repl`, `stack_reset` | what survives an error |

Not components of their own: the mathematical, time and random natives, which
have no state the others share.

**What makes each of them correct.** Collector: nothing reachable is freed,
everything unreachable is, every collection ends. Run loop: a handler never uses
an object that a collection inside it has freed. Table: a map, whatever the
probe sequences and caches do, and every search ends. Expression compiler: the
code computes what the expression means. Statement compiler: each variable is
where the compiler says, a captured variable does not leave the stack before
its upvalue is closed, a name means what its lexical scope says however many
functions are between, and a constant keeps its value. Scanner: the tokens and
what is skipped between them are the text, each token is the longest lexeme, and
the end is reached. Arrays: each is a sequence, and no operation writes outside
its block. Stack: a frame's callee and parameters stay where its
`slots` says, and whoever is called leaves the slots of its callers alone.
Chunk: each operand names the constant it was emitted for, each byte the line it
was written for, whatever was folded in between.

The places of the code that are hard to test are listed, with their lines, under
`hazards` in `PROJECT.json`.

## 2. The modules

| Module | Models | Extends / instantiates |
|---|---|---|
| `Collector` | `gc.c`, `memory.c:41-77`, `allocateObject` | |
| `VmHeap` | the handlers of `vm.c` that touch collectable objects, and the natives that allocate | `Collector`; refines `ReachHeap` |
| `ReachHeap` | abstract: what a garbage-collected heap promises | |
| `VmHeapProofs` | the flip of the mark; what a handler, marking and sweep keep; the safety theorems | `VmHeap`, `TLAPS` |
| `VmHeapReach` | that the heap implements `ReachHeap`, proved | `VmHeapProofs` |
| `Table` | `table.c` and the global cache of `vm.c:1272-1318` | refines `LoxMap` |
| `LoxMap` | abstract: a finite map that can be frozen | |
| `Folding` | expressions: `compiler.c:1120-1219`, `1310-1365`, `1724-2107`, and the handlers that run them | |
| `Scopes` | statements, functions and classes: `compiler.c:125-355`, `391-537`, `577-1118`, `1467-1554`, and the handlers that run them | |
| `Scanner` | `scanner.c` | |
| `Arrays` | arrays, typed arrays, string builders and their natives | refines `LoxSequences` |
| `LoxSequences` | abstract: named finite sequences and what each operation answers | |
| `VmStack` | the stack as memory that moves, calls, returns, errors, `OP_IMPORT`, lines of the REPL | |
| `Chunk` | `chunk.c`, `lineArray.c`, the pools of numbers and strings, `makeConstant`, the folds that take code back | |
| `SetInduction` | induction over the naturals, stated for sets; remainders | |
| `VmStackProofs` | the stack and its frames, proved | `VmStack`, `SetInduction` |
| `TableProofs` | open addressing, the cache and the refinement of `LoxMap`, proved | `Table`, `SetInduction` |
| `ChunkProofs` | the line table, the pools and the operands, proved | `Chunk`, `SetInduction` |
| `ArraysProofs` | blocks, terminators and bytes of arrays and builders, and the refinement of `LoxSequences`, proved | `Arrays`, `SetInduction` |
| `ScannerProofs` | theorems about `Scanner` | `Scanner`, `SetInduction` |
| `MC...` | instances for TLC | |

### Collector and VmHeap

`heap` is the list `vm.objects` as a set; `kind`, `slot` and `isMarked` are the
type, the fields and the mark of each object; `gray` is the gray stack. A field
is the set of collectable objects it refers to: names, positions and numbers do
not matter to a collection, and strings, functions and natives are never
collected (`gc.c:76-83`), so all of them are `Nil`. `stack`, `top`, `base`,
`closureOf`, `openUp`, `loc` and `globals` are the stack, the frames, the open
upvalues and `vm.globals`.

A handler that allocates is **split at its allocations**. `Request` is the call
of `reallocate`: the handler suspends, its C locals go to `pend`, and either the
handler resumes at once or the collector runs first (`MarkRoots`, `Blacken` per
object, `Sweep`). So `NewArray`, `NewArrayPush` and `NewArrayFill` are one
handler, with a collection possible between any two of them. This is the finest
interleaving there is: the program has one thread.

What the bytecode may contain is left open but for two guarantees of the
compiler: operands lie above the slots of the running frame, and a captured
local leaves the stack by `OP_CLOSE_UPVALUE` or `OP_RETURN`. The second is the
property `UpvalueOwnsSlot` of `Scopes`, and `break` and `continue` do not
honour it (section 5). `VmHeap` speaks of programs without such jumps, and the
property `UpvaluesInUse` says no more than that returns and `OP_CLOSE_UPVALUE` do
their part. It is a conjunct of `Inductive`, which needs it, and no theorem of its own.

Stack growth, runtime errors and imports are in `VmStack`, strings in `Chunk`; a
program of `VmHeap` may stop in any state, which stands for a runtime error or the end of
the program, hence `CHECK_DEADLOCK FALSE`.

### Table

`entries` is the array, with `Hole` and `Tombstone` as `table.c` represents
them; `symbol` is the slot cached in each key (`ObjString.symbol`), kept only by
the table of globals. `FindEntry` is the probe loop: it stops at the key or at a
hole and answers the first tombstone if it stopped at a hole. `Set` grows the
array first, as the code does. Every search of the table of globals writes the
`symbol` of its key, the one of a deletion as well. `out` is what the caller learns, so that the
refinement of `LoxMap` compares answers too. Keys may be deleted from the table
of globals, which a program gets as `@object.getGlobal()` (`nativeObject.c:56`).

### Folding

`Compile` translates an expression as `parsePrecedence` and the rule functions
do, with `MergeBinary`, `MergeUnary` and `MergeSubscript` for
`instructionOptimize` and `mergeSubscript` (of a read; an assignment to a subscript
is no expression here); `opStack` is the field `ops`. The
actions run the code. `Eval` is the meaning of the expression. Four operators
stand for all: `ADD` (numbers or strings), `SUBTRACT` (numbers), `LESS`
(comparison) and `EQUAL` (any values); the other cases of the switch are the
same text. Strings are numbers that concatenate as digits.

### Scopes

The compiler is one pass, and a machine of its own here: `Parse` lists the calls
that the recursive descent makes for a program, in their order, and each call is
one step of `Compile`. `compiler` is `current`, a record with the compilers around
it in `enclosing`; `locals`, `upvalues`, `depth` and `loops` are the fields of
`Compiler` and `LoopContext`; `kept` holds the C locals of calls that have not
returned (the position of a jump to patch, the variable to assign to). A function
that ends gives its code to the compiler around it. `classes` in that record is
the chain `currentClass`.

`Start` is the end of `compile()` of a module, whose variables are locals as
well, and the first call. From then on the actions are the handlers: frames with
their closures, `upvalues` as objects that are open on a slot or closed with a
value, classes with their methods and the cached initializer, instances. Both
outcomes of each condition are explored.

What a program means is kept next to it, in terms that have no slots:
`visible` is the lexical scope during compilation, `env` of a frame is its
environment and `store` the value of each variable that came to be. The
pseudo-instruction `DECLARE` marks where a variable begins; a slot and an
upvalue remember the variable they were made for. `NamesMean` and
`ConstantsStay` compare the two.

Not in it: `print` and `throw`, `import` and `export`, globals (`Table`), fields and
bound methods (`VmHeap`), the limits of locals, upvalues and nesting, and what the
parser does after an error, as nothing is run then.

### Scanner

One action, `ScanToken`, is `scanToken()`: it skips blanks and comments, then
takes identifiers, keywords, numbers, strings, operators, modules behind `@`, or
gives an error. Texts are any, with a last newline or without: nothing in `scanner.c`
or its callers adds one. A loop of the form "while the next character is one of these,
advance" is the first position where it is not. `At` gives `Nul` at the end and
`Outside` behind it, so that reading past the end shows; once the scanner has moved
behind the `'\0'`, which it does at two ends (section 5), what it reads is memory nobody
knows, and the model ends there. Keywords and modules are
constants, from spelling to type. A few characters of each kind stand for all of it;
`"#"` is any that begins no token.

### Arrays and LoxSequences

`array` has the objects by address: type, length, capacity, and `payload` as a
function on the cells that exist; `Junk` is a cell nobody wrote. `Width` is the
width of length and capacity, 32 in the code: all the arithmetic of capacities
is done modulo `2 ^ Width`, or in 64 bits where the code does. `ARRAY_U8` stands for the
integer types and `ARRAY_F64` for the floating ones; numbers are counted in
halves, as truncation is part of a typed conversion. So elements have 8 bytes or 1 here;
the rows of 2 and 4 bytes of `reserveArray` and `freeObject` are the same text and are not in the
model, and `BytesExact` says nothing of them. A conversion out of the range
of the type is undefined behaviour in C and may give any byte. `held` is what a
program can still reach; a collection may free the rest at each growth.
`LoxSequences` has the same operations on sequences, without capacities, cells,
bytes or a collector; `Arrays` implements it, but for the size 0. There `LoxSequences` has what
`README.md:245` of the repository says, a sequence that loses its elements, and the code ends the process
(section 5). `Shown` is the refinement mapping: what is
held shows its type and the cells below its length, and every other name nothing (`Free`).
The two loops of `input()` are recursive
functions (`ReadLine`, `Unescaped`), one value per turn.

### VmStack

`mem` is the stack: the block of memory it is in, its slots and `top`
(`stackTop`). `Push` is `stack_push`: it writes, and if that was the last slot
the stack grows, in the same block or in another, as `realloc` may; new slots
are `"junk"`. `frames[i].block` and `.base` are the pointer `slots`, and so is an
open upvalue: they are `Valid` when their block is the stack's. A handler that
follows a pointer needs a valid one; `UseStale` is what is left when there is
none, undefined behaviour in C, and ends the model's behaviour there. `CallFails`
is both error exits of `call`, `EndLine` what every error and every end of a line
comes to (`stack_reset`). `cached` is `vm.scripts`; `compiled` counts what
`compile` returned for a path. At the two limits, `FRAMES_MAX` and the largest
stack, the code resets the stack and goes on in some places: `ImportAtLimit`, `PushAtLimit` and
the second half of `CallNative` have the run loop with no frame left. What it
then reads is `frames[-1]`, and the model follows it no further. Where a C pointer is left
below the stack (`CallOrFail`, `CompileAtLimit`) the outcome is `"undefined"` at once. Not in it:
what a closure that outlives a line does with the upvalues `stack_reset` forgets, string builders
as paths, and the bytes written through stale pointers.

### Chunk

`chunk.code` is the sequence of instructions with their widths in bytes, each
with the line and value it was written for, which the code does not keep:
they are what the properties compare with. `chunk.ranges` is the line table.
`opStack` holds opcodes, as in the code. `FoldAdd`, `FoldNegate`, `FoldNot` and
`Fuse` stand for the cases of `instructionOptimize`: write the operator, fall back
over it (and its operands), emit the result or rewrite the operand's opcode. What
the folded value is, is left open (that is `Folding`'s question); here it matters
which constants are made. An operand has 3 bytes, and so has the index that an
entry keeps: `IndexLimit` is `2^24`, `Truncated` the mask of `makeConstant`, and `constants` has no limit,
as in the code. The folds read their operands through the index again (`Operand`). `pools` are `vm.numbers` and `vm.strings` with their
open addressing; `InternString` is a string made at run time, which makes an entry
without an index.

## 3. The runs

| Run | Question | Bounds |
|---|---|---|
| `heap_values` | do programs of arrays, natives, globals, functions and closures ever hold a dangling reference; do handlers and collector implement `ReachHeap`; does every collection end? | 3 objects (4 where closures capture: two closures, two upvalues), 4 slots, 2 frames, 1 upvalue per function; no symmetry, as a temporal property is checked |
| `heap_classes` | is the invariant of the proofs, of which `NoDangling` is a conjunct, true of programs with classes, bound methods, fields, super and inheritance? | 6 objects, a few of each kind, 5 slots, 3 frames |
| `table` | is the table a map, with searches that end and a cache that agrees? | 3 keys of which 2 collide at the last slot; 2, 4 and 8 slots; 2 values |
| `folding_plain` | does folding keep the meaning of expressions? | all expressions of depth 2 over 6 leaves, and depth 3 on one side; `and`/`or` where nothing is merged into them |
| `folding_logic` | ... also when `and`/`or` is an operand? (violated) | all of those of depth 2 |
| `scopes_plain` | do compile-time and run-time slots agree, are captured variables closed, do names mean the same to the code as to a reader, are constants constant? | five families of programs: a loop of each kind around blocks of up to three statements; functions in functions up to three deep, with three statements; two closures over the same variables; closures over parameters, made twice; a class, its subclass and a class in a method. 4 frames, 10 variables in a run |
| `scopes_escapes` | ... also when `break` or `continue` leaves a captured variable's scope? (violated) | the same programs |
| `stack_calls` | do frames keep their callee and parameters, and callers their slots, through calls, natives, growth, errors and imports, and does the loop keep a frame but at the limits? | a stack of 3 slots that grows to 6, 3 frames, functions of 0 and 1 parameters, 1 script |
| `stack_grows` | ... and do all pointers into the stack follow it? (violated) | the same |
| `chunk` | do operands keep their constants and instructions their lines, whatever is folded? | 3 instructions at a time, 2 lines, 3 numbers (2 collide at the last entry), 1 string, 3 indices; pools of 2 and 4 entries; any number of chunks |
| `arrays` | do arrays and builders behave as sequences, within their blocks, and are their bytes counted? | 2 addresses, capacities of 4 bits in multiples of 2; lengths 0 to 2 and 13, next to the longest, 14; every operation with a negative, a fractional and a too large argument; lines of up to 4 characters; symmetry of addresses, and a view without the last answer |
| `scanner` | does the scanner read each text as its longest lexemes, to the end? | all texts of up to 5 characters over seven alphabets, a last newline or none |

*Why the bounds are enough.* A dangling reference needs a handler that holds one
object, a second that is allocated, and a third that refers to either: three
objects (six with classes) and one collection per allocation reach every pair of
(suspended handler, collection), and two consecutive collections, in which the
flipped mark matters, fit in them; section 4 proves safety for all bounds. In the table, three keys make probe sequences that wrap,
pass a tombstone, pass a foreign key, and survive two growths. For expressions,
a merge looks at three opcodes at most, so two levels of operators reach each
case of `instructionOptimize` with each kind of operand. For scopes, one
variable before, inside and behind a loop, one capture and one jump are what a
wrong slot needs; three statements leave room for all. A name can be a local, an
upvalue on a local around, or an upvalue on an upvalue, and functions three deep have all
three, with equal indices among them. Ten variables and four frames end only the runs that
loop or recurse for longer; what a loop or a call leaves behind shows in its second round.
For arrays, 4 bits reach each wrap of the arithmetic that 32 bits have; lengths
between 2 and 13 take the same branches. Five characters hold the longest thing
that needs a look ahead (`0.0e+`) or a comment and what surrounds it. The stack
grows once, so that pointers of before and after growth meet; a second growth
repeats this, and `StackMax` is the size at which it overflows. Two closures and two
upvalues are what it takes to capture one variable twice and split it. Three
instructions are two operands and their operator; chunks follow each other with
the same pools, so all orders of making and finding four constants occur, the last of
which has no index of its own.

*Each property has a mutant*: a definition of the model changed the way a
plausible bug would change the code, which the property's run must then refute.
They stand beside the definitions as "Mutation of".

*Fairness.* `CollectionEnds` needs it: `FairSpec` is weak fairness of
the collector's steps. The collector is a loop of the only thread
(`gc.c:162-219`); once entered it runs until it is done. So does `ReachesEnd` of the
scanner: `compile()` asks for tokens until `TOKEN_EOF` (`compiler.c:1699`), whatever
errors there are.

## 4. The proofs

`VmHeapProofs` proves, for every set of objects, every set of programs and every
bound, `Spec => []Unmarked`: outside a collection no live object carries the mark
that the next collection will use. The argument: `Unmarked` alone is not
inductive: `MarkInvariant` adds the types it needs, and says nothing of the
marks while tracing, where `Sweep` re-establishes it: it keeps only marked
objects and flips the mark, so that none of them carries it. A handler's step is
a `MutatorStep`: it runs outside a collection, allocates one object at most,
born with the other mark, and touches no mark else (`HandlersAreMutators`).

It also proves the safety of the heap, for the same generality:

| Theorem | for every reachable state |
|---|---|
| `InductiveInvariant` | `Inductive` |
| `TypeCorrect` | `TypeOK` |
| `MemorySafety` | `NoDangling`: a root or a field of a live object refers to live objects |
| `LocalsSurvive` | `LocalsLive`: so does each C local of the suspended handler, across a collection |
| `TriColourMarking` | `TriColour`: while tracing, roots are marked and a black object refers to no white one |
| `UpvaluesShared` | `OpenUpvalues`: a slot has one open upvalue at most, which its closures share |

None of these is inductive alone. `NoDangling` says nothing of the C locals of a
suspended handler, which are not roots. That they survive needs `OperandsHeld`:
per suspended handler, its locals are operands it left on the stack, or the
method of `bindMethod`, which is at most three references away from one
(`Protected`). When the handler resumes it stores these locals into objects, so
`OperandKinds` and `FieldsOfKind` must know their types: a field that
`blackenObject` does not visit for a type must stay empty. The invariant
`Inductive` has two halves, and each kind of step keeps them by an argument of
its own:

* **Core** (types, `OperandsHeld`, `OperandKinds`, `FieldsOfKind`, `NoDangling`,
  `OpenUpvalues`, `UpvaluesInUse`) speaks of everything but marks. There is a lemma
  per disjunct of `MutatorNext` that it keeps Core. They all rest on a few facts
  of `VmHeapProofs`: a stack cut, extended or changed in one slot; a live object
  with one field changed; an object born.
* **Marks** (`Unmarked`, nothing marked outside tracing, `TriColour`). A handler
  runs only between collections and marks nothing (`MutatorMarks`); `MarkRoots`
  and `Blacken` change nothing else.
* **Sweep** is where both meet. When the gray set is empty, `TriColour` says that
  the marked objects are closed under references. Roots are marked, and each C
  local is in `Protected`; hence all of them are marked, none is freed, and what
  remains refers only to what remains.

`VmHeapReach` proves `CollectsExactly`, that `Spec` implements `ReachHeap`: no step of a
program makes an unreachable object reachable again, or touches it, and a collection
removes the unreachable objects and no other. That nothing reachable is freed is
safety; the two other halves need arguments of their own:

* *A handler cannot reach what its roots do not.* A set is a `Home` if it holds the
  roots and, with an object, the objects of its fields. `HandlersWithin`, for every
  home: what a handler leaves in the roots or stores in a field comes from the home or
  is the object it allocated, and no field outside is assigned (`Within`). The proof
  needs no notion of reachability, and `Reachable` is a home (`ReachHome`), the least;
  hence nothing enters it but a new object. The C locals of a
  suspended handler are `Protected`, hence in every home (`HomeLocals`).
* *A collection frees all that is unreachable.* `Exact`: the collector marks only
  reachable objects, and a free address has no fields. Marked objects are closed under
  references when the gray set is empty and hold the roots (`TriColour`), so they are
  a home and contain `Reachable`; with `Exact` they are `Reachable` (`SweepCollects`).

The constants are assumed to be what `AddressAssumption`, `BoundAssumption` and
`ProgramAssumption` say: `Nil` and `EmptyClass` are no addresses, the bounds are
numbers, and `Pool` gives each program addresses of its kinds.

### The stack

`VmStackProofs`, for any functions, arities, stack sizes and numbers of frames:

| Theorem | for every reachable state |
|---|---|
| `StackInvariant` | `Inductive` |
| `StackTypes` | `TypeOK` |
| `StackHasRoom` | `RoomForPush`: the push that writes before it tests has a slot to write to |
| `FramesStayOnStack` | `FramesOnStack`: a frame's callee and parameters are on the stack, below the next frame |
| `LoopHasFrame` | `FrameLostAtLimits`, of every step: the loop loses its frame only with all frames in use or a full stack |
| `ScriptsCompiledOnce` | `CompiledOnce` |
| `CallersKeepSlots` | `CallersUntouched`, of every step: a function changes no slot of its callers but through an open upvalue |

`FramesOnStack` relates neighbours only, so a return that removes the top frame
would leave nothing to say of the one below. `Inductive` has
the order of all pairs of frames (`Nested`): parameters included, each ends below
the base of each later one. An assignment through an upvalue could still overwrite
a callee; hence `UpvaluesOK`: an open upvalue is on the first slot of a frame only
if this is the `this` of a method, which the compiler lets no assignment change. A push that moves the
stack changes no slot (`Extends`, by induction over the values pushed), and a
pointer that is stale keeps its index: the theorems say where a frame's slots are
in the stack, and `stack_grows` (section 5) shows that the code may look for them elsewhere. The
theorems hold of `Spec` with its limits: a stack that was reset has no frame, and no slot in use. That the
loop always has a frame is false there (section 5); `LoopHasFrame` says
that it is false nowhere else. `SizeAssumption` has an
initial stack of at least two slots, `ArityAssumption` that a module has no
parameters, `LiteralAssumption` that the literals are values.

### The table

`TableProofs`, for any keys, any hash of each and any first capacity:

| Theorem | for every reachable state |
|---|---|
| `TableInvariant` | `Inductive` |
| `TableTypes` | `TypeOK` |
| `SearchesEnd` | `SearchEnds`: a search meets its key or a hole |
| `CacheIsRight` | `CacheAgrees`: the slot cached in a key is the one a search finds, if the key is there |
| `TableIsMap` | `ImplementsMap`: `Spec` implements `LoxMap`, step by step |

The invariant is that of open addressing. `Searchable`: no key is twice in the
array, and from the slot of its hash to the slot of the key there is no hole
(`Reaches`). `ArrayOK`: `count` is the number of slots in use, tombstones
included, and below the capacity. So a hole is left; and as the remainders of a
hash and the numbers that follow it are all slots (`Remainder`,
`RemainderReached`), the search meets it: `FindPresent` and `FindAbsent` say what
`FindEntry` answers. Without the tombstones of deleted keys a delete would open
a hole before another key, and without their count the holes would run out.
`Rehashed` is the induction over `adjustCapacity`: after each slot, the new array
has the live entries of those before it and is `Searchable`. The cached slot may be
stale, by growth, by deletion, and by the search of a deletion itself, which writes it, and `CacheOK` says only that it is in the array, for which capacities must
never shrink: the code looks whether the key is in the slot. The refinement maps
`entries` to the function of its live entries (`MapOf`), and each action to the
one of its name. An assignment to an undefined variable sets it and then deletes
it again: in the map nothing happens but the answer, in the array a tombstone is left.
`TableAssumption` has a first capacity of at least two (the code: 8), and that
`nil` is not the `true` of a tombstone.

### The chunk

`ChunkProofs`, for any numbers and strings, hashes, lengths of code and lines:

| Theorem | for every reachable state |
|---|---|
| `ChunkInvariant` | `Inductive` |
| `ErrorLines` | `OperandLines`: `getLine` answers the right line for an instruction with operands |
| `BytesHaveLines` | `LinesFound`: it answers for each byte: never a later line, never an earlier one than that of the instruction before |
| `OperandsNameValues` | `ConstantsMeant`: an operand is the index of the constant it was emitted for, while 3 bytes can number the constants |
| `NoConstantTwice` | `Deduplicated` |
| `PoolSearchesEnd` | `PoolSearchEnds` |

*Lines.* After a fold the offsets of two ranges may be equal and a range may end a byte
too far (section 5), so that which of them the binary search answers depends on how its
bounds fell. `Candidate` are those it may answer: one that ends at the byte, or the
first that ends behind it. `GetLineIs` shows, by induction over the size of the
interval, that it answers one of them. The invariant says that *each* candidate
of an instruction's last byte has its line, or, for an instruction of one byte, not a
later one (`Fits`), that a range that ends behind an instruction has no earlier line (`Behind`),
that offsets grow, and that the table
covers the code up to one byte (`Covers`). A write keeps this (`Written`) and so
does taking back any number of instructions (`Fallen`), which is why folding does.
That the source is compiled from its start to its end is used: lines never decrease.

*Constants.* Each pool is a table without deletion, with the invariant of
`Table`. `Points` and `Listed` say how pools and constants belong together: an
entry with an index has a place in the array, of which the index is what 24 bits keep, and
each constant is in its pool with the index of its place. The place is unique, the
index is so only while there are no more constants than indices; hence the condition of `ConstantsMeant`;
past them it is false (section 5). No value is twice in the array at any length. So `makeConstant` finds what is there, and adds what is
not (`MadeIs`); `Listed` with no key twice in a pool gives `Deduplicated`. An entry without
an index, a string made at run time, gets one when the compiler meets it.
`HashAssumption` has numbers and strings disjoint, `BoundAssumption` a first
capacity of at least two.

### Arrays

`ArraysProofs`, for any width, step and start of the growth, and any inputs:

| Theorem | for every reachable state |
|---|---|
| `ArraysInvariant` | `Inductive` |
| `ArraysTyped` | `TypeOK`: no capacity exceeds `ARRAYLIKE_MAX`, what is held is not freed |
| `WritesStayInside` | `WritesInside`: no write makes a cell, and the length is inside the block |
| `BuildersTerminated` | `Terminated` |
| `BytesCounted` | `BytesExact` |
| `SequencesImplemented` | the steps implement `LoxSequences` |

*One object.* `Sound` says what is true of an object between two natives: its cells are
those below its capacity, its length is inside, and a builder with characters has
a `'\0'` behind them. Inside a native this holds in part: `Block` (the cells) after
`reserveArray`, `Inside` (and the length) after the elements are written, `Sound` again
after `Terminate`. There is one lemma per operator (`ReserveIs`, `WriteIs`, `AddIs`,
`FillIs`, `TerminateIs`, `GrowIs`), and the proof of a native is the chain of those it
calls; the work is in the capacities. Rounding up never exceeds the longest array, as
this is a multiple of the step too (`AlignedIs`); `push` computes in 32 bits, and takes the larger of
the result and what it needs (`GrownIs`); a new builder keeps a cell back
(`BuilderCapacityIs`); the text that is appended or sliced is shorter than the longest
array, because a builder is never full (`TextIs`). `input()` is two inductions: while it reads,
there is room for one more character (`RoomIs`); while it unescapes, it has written no
more than it has read (`Unescaping`), which is why it may do so in place.

*What it shows.* The same lemmas say what each operator does to `Contents`: `reserveArray` and
`Terminate` nothing (`SameContents`), a write behind the elements appends them
(`WriteShows`), `Fill` gives the default value to the rest. So a native *leaves* its object with
a sequence or *makes* one that has it (`Leaves`, `Makes`; `PushLeaves`, `SliceMakes` and so on), and
both the invariant (`StepsKeep`) and the refinement (`LeavesShows`, `MakesShows`) are read off that.
Where `LoxSequences` says it in another way than the code there is more to
show. A slice is there what is left when the positions before and behind it are
taken away, counted with `Cardinality`; the code clamps two ends and counts from the first
(`SectionIs`). An unescaped line is there a function of the rest of the line, read from its end; the
code goes forward and overwrites the line it reads. The invariant of its loop is that what
is written, followed by what the rest that was not yet read means, is what the whole line
means (`Unescaping`), and that the rest is still the one that was typed. A builder that is appended
to itself reads its characters from the block after the growth, which still has them
(`AppendLeaves`). An answer of `equals` compares cells, in `LoxSequences` sequences (`EqualsShown`).
A collection is a step that shows nothing (`GcShown`), as what is held is no garbage, also
one in the middle of a growth (`LeavesShows`).

*All objects.* `bytesAllocated` is a sum over the live objects, in the model a fold over
a set in an order nobody knows. `Sums` to `SumSplit` show, by induction over the
size of the set, that it does not depend on the order. What a growth, an allocation and a collection in the
middle of either do to it is then `SumAfter`. That a size grows by what it is freed
with (`SizesAre`) is the point where the code could be wrong.

The assumptions: `Modulus` is a multiple of the step, at least twice as large; the
first capacities are small beside it. Two hypotheses stand in the theorems themselves, as nothing in
the code gives them. `LinesFit`, of all six: the lines typed at `input()` are shorter than
the 32-bit wrap of `capacity * 3` (`3 * (Len(line) + 1) < Modulus`, some 1.43 G
characters in the code); beyond it they are false (section 5). And `0 \notin Sizes`, of
`SequencesImplemented`: no array is made or resized to the size 0, which ends the process
where `LoxSequences` has an empty sequence (section 5). `Lengths` bounds what TLC
explores, and is any set of lengths in the proofs. `DistinctAssumption` is what types give in C:
a missing argument is no argument, a string is no address of an array, and `n` is neither
the backslash nor the quote.

### The scanner

`ScannerProofs`, for any text, with a last newline or without, and any spelling of keywords
and modules:

| Theorem | for every reachable state |
|---|---|
| `ScannerInvariant` | `Inductive` |
| `StaysInText` | `InsideText`: the scanner moves behind the `'\0'` at two ends of a text only, and answers an error there |
| `TokensHaveLines` | `LinesCounted`: a token has the line it ends on |
| `TokensAreLongest` | `LongestLexeme`: it is the longest lexeme at its place, of that kind |
| `BetweenTokens` | `NothingLost`, of every step: blanks and closed comments lie between two tokens |

The invariant is short (the scanner stands at the end of its last token, and `line`
counts the newlines in front of it); the work is in the functions it calls. For each, a
lemma says that it ends in the text with its newlines counted (`Counted`), and one
that what it took is a lexeme that no longer one begins with (`Longest`). What the
loops answer is proved by induction on the distance to the end:

* `skipWhitespace` and the switch of `string()` jump two characters at a comment or
  a backslash. The jumps of comments begin with two characters that are there. The
  one behind a backslash may pass the `'\0'`, if the backslash is the last character
  (`LastEscape`), and so may the two steps behind the prefix of a number with a base
  (`LastPrefix`): that there is no third place is the theorem; the two are in section 5.
* `string()` goes forward and `LongestLexeme` looks back: a quote ends the string when
  an even number of backslashes stands before it. `BareStep` has the step from one
  character to the next, `LookedBare` that both mean the same positions.
* A number ends where its whole part, its fraction and its exponent do; each of the
  three has one possible end (`IntegerIs`, `FractionIs`), which is why greed is right.
* `IsBlank` looks for any division into blanks and comments; `SkippedIsBlank` shows
  that the turns of `skipWhitespace` are one.

### How induction is done

The functions that these proofs are about are recursive: the fold over an array, the
halving of an interval, the bytes of some instructions. The induction theorems of
the library take an operator, which the provers here cannot instantiate.
`SetInduction` states induction for a set of numbers (`NatBySteps`,
`LeastNat`), from the minimum that a well-founded relation has
(`WFMin`). A proof then names the set of those numbers for which its claim
holds. It needs the functions of the models to be recursive functions, not
`RECURSIVE` operators.

### What is only model-checked

* Liveness (`CollectionEnds`, `ReachesEnd`): there is no proof rule for fairness here.
* The properties of `Folding` and `Scopes`: their compilers are recursive
  operators over the structure of programs.

## 5. Where the code disagrees with its documents

* `folding_logic`. `compiler.c:44` says of `clearOpStack` "for which complex
  logical/control flows, merge is not used". `patchJump` (`compiler.c:217`) does
  not clear `opStack`, so an operator after `and`/`or` is merged with the last
  load of the right operand. `!(x and x)` becomes `NOT_LOCAL x` where only one of
  the two paths expects it. For the same reason `-(x or nil)` is refused by the compiler, whatever `x` is.
* `scopes_escapes`. `README.md:87` has `break` and `continue` "Supported within
  loops", and `scripts/branchBlockInLoop.lfx:8` expects them to pop the loop's
  variables. They do, with `OP_POP_N` (`compiler.c:992`), captured or not;
  `endScope` would emit `OP_CLOSE_UPVALUE` (`compiler.c:343`). The closure then
  shares the slot with the next variable that takes it.
* `stack_grows`. `vm.h:21` calls `CallFrame.slots` the "first avilable slot" of
  the frame. `stack_push` (`vm.c:160`) reallocates the stack and refreshes
  `vm.stack`, `vm.stackBoundary` and `vm.stackTop`; `slots` of every frame,
  `location` of every open upvalue and the `stackTop` that `call_native` saved
  stay in the old block. Whether the block moves is the allocator's choice.

Seen while modelling, and modelled as the code is, without a run of their own:

* `OP_IMPORT` does not look at what `call` answers (`vm.c:1684`) and says "we
  entered the function" (`vm.c:1686`). At `FRAMES_MAX` `call` has reset the stack;
  the handler then takes `frames[-1]`. The push that would exceed `UINT24_COUNT`
  slots also resets the stack and returns to its handler (`vm.c:155`). So `RunHasFrame`
  is no invariant; that these limits are the only exceptions is `FrameLostAtLimits`.
* `makeConstant` masks the index of a number or a string to 24 bits (`compiler.c:190`,
  `201`), so that the error "Too many constants in chunk." (`compiler.c:152`) is reached by functions
  only: past `2^24` constants an operand names another value. `ConstantsMeant` speaks of
  the states before, and the model goes on past them.
* `lineArray.h:10` calls the field `offset` "the chunk offset end".
  `lineArray_write` stores the last byte of the range, `lineArray_fallback`
  (`lineArray.c:54`) the number of bytes left, one more. An instruction of one
  byte that follows on a later line is in both ranges: after `f() + 1`, a
  `throw` whose semicolon is on the next line is reported a line early.
  `OperandLines` and `LinesFound` say how much is wrong: never an instruction with
  operands, and one without gets a line between that of the instruction before and its own.
* `input()` triples its capacity in 32 bits under the comment "check capcity"
  (`nativeSystem.c:105-107`): a line of some 1.43 G characters is written behind the block.
* `resize(a, 0)` ends the process with "Array size overflow" (`nativeArray.c:137`), where
  `README.md:245` says that with a smaller length "excess elements are discarded".
* A string that is not closed and ends in a backslash is read past the `'\0'`
  (`scanner.c:382`), although `scanner.c:380` and `400` look for the end to answer "Unterminated
  string.". A text that ends in `0x` or `0b` is too (`scanner.c:301`).
* The prefix of a number with a base is looked for behind the first digit, and
  the step commented "Skip '0'" (`scanner.c:314`) skips the `x`, the next one a digit: `0x5`
  and `0b1` are errors, and `7b01` is binary (`scanner.c:296`). `README.md:70` and `71` have
  binary and hexadecimal literals.
* `continue` in a `do`-`while` goes to the start of the body and skips the
  condition (`compiler.c:959`). `OP_INHERIT` copies the methods and not the
  initializer (`vm.c:991`) that `defineMethod` caches (`vm.c:544`): a subclass without
  an `init` of its own is made without one, while `super.init()` finds it.
* A named function with an arrow body returns before `endCompiler()`
  (`compiler.c:604`) and leaves `current` on a C frame that is gone.
* An unexpected character takes the next one with it, a newline as well, which
  then is not counted; one at the very end gives `TOKEN_EOF` and no error. A
  backslash before a newline in a string hides the newline from the count.
* `append(b, c)` with an empty slice to add may grow the builder without writing
  its `'\0'` (`nativeString.c:206`). `StringBuilder(array)` gives an empty builder.
* The REPL promises "512 characters maximum per line" (`entrance.c:20`) and reads
  into a buffer of 256 (`entrance.c:85`).

## 6. The plan

Done: the core (`Collector`, `VmHeap`, `ReachHeap`), `Table` with `LoxMap`,
`Folding`, `Scopes` with nested functions and classes, `VmStack`, `Chunk`,
`Arrays` with `LoxSequences`, `Scanner`; the proofs of `VmHeap`, `Table` and `Arrays`
(with their refinements), `VmStack`, `Chunk` and `Scanner`. Left, in order of what they add:

1. `GcPacing`: `bytesAllocated` and `nextGC` over the whole heap, with the arrays
   of loop jumps that are freed with another macro than they were allocated with
   (`compiler.c:954`).
2. Globals and the lines of the REPL in `Scopes`: closures that survive
   `stack_reset` (`vm.c:35`), imports inside functions.

**Not modelled.** Printing and debugging output, file access, libc wrappers
(mathematics, time), random numbers and parsing of numbers in natives: no state
that others see. The commands and editing of the REPL: input and output. Vendored code, the
editor extension and the example scripts, which were read as tests.
