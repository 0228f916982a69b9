---------------------------- MODULE VmStackProofs ----------------------------
(***************************************************************************)
(* Proofs about VmStack, for any functions and scripts, any arity and any  *)
(* sizes: the stack always has a slot to write to, each frame keeps its    *)
(* callee and its parameters on the stack below the next frame, callers'   *)
(* slots keep their values, and a script is compiled once.                 *)
(*                                                                         *)
(* These are not inductive by themselves. What carries them is Inductive:  *)
(* a frame, a block and an index, points into the stack or into a block it *)
(* has left; the frames lie one above the other with their parameters      *)
(* between them; and an open upvalue is on the first slot of a frame only  *)
(* if that is `this`, which no assignment changes: one through any other   *)
(* would overwrite a callee.                                               *)
(***************************************************************************)
EXTENDS VmStack, SetInduction, SequenceTheorems

-----------------------------------------------------------------------------
(* The inductive invariant *)

Memory == [block : Nat, top : Nat, slots : Seq(Value)]

FrameRecord == [closure : Closures, block : Nat, base : Nat]

Pointer == [block : Nat, index : Nat]

MemoryOK(m) == m \in Memory /\ m.top < Len(m.slots)

\* Frame f has its callee and its parameters on the stack m.
OnStack(f, m) ==
  /\ f.block <= m.block
  /\ 1 <= f.base
  /\ f.base + Arity[f.closure] <= m.top
  /\ m.slots[f.base] \in {f.closure, "instance"}

\* Each frame ends below the frames it has called.
Nested(fs) ==
  \A i \in 1 .. Len(fs), j \in 1 .. Len(fs) :
    i < j => fs[i].base + Arity[fs[i].closure] < fs[j].base

FramesOK(fs, m) ==
  /\ fs \in Seq(FrameRecord)
  /\ Len(fs) <= FrameMax
  /\ Nested(fs)
  /\ \A i \in 1 .. Len(fs) : OnStack(fs[i], m)

\* Open upvalues point to slots in use; to the first of a frame only if it is
\* the `this` of a method.
UpvaluesOK(up, fs, m) ==
  /\ up \subseteq Pointer
  /\ \A p \in up :
       /\ p.block <= m.block
       /\ 1 <= p.index /\ p.index <= m.top
       /\ \A i \in 1 .. Len(fs) : p.index = fs[i].base => m.slots[p.index] = "instance"

ScriptsOK ==
  /\ cached \subseteq Modules
  /\ compiled \in [Modules -> Nat]
  /\ \A m \in Modules : compiled[m] <= IF m \in cached THEN 1 ELSE 0

StatusOK ==
  /\ status \in {"ready", "run", "exit", "undefined"}
  /\ status = "ready" => frames = <<>> /\ openUp = {}

Inductive ==
  /\ MemoryOK(mem)
  /\ FramesOK(frames, mem)
  /\ UpvaluesOK(openUp, frames, mem)
  /\ ScriptsOK
  /\ StatusOK

-----------------------------------------------------------------------------
(* What stack_push does to memory *)

\* x is the stack m with n values more on top of it, perhaps elsewhere.
Extends(x, m, n) ==
  /\ m.block <= x.block
  /\ x.top = m.top + n
  /\ Len(m.slots) <= Len(x.slots)
  /\ \A i \in 1 .. m.top : x.slots[i] = m.slots[i]

\* The stack m with v in slot n, and t slots in use.
Assigned(m, n, v, t) ==
  [m EXCEPT !.slots = [m.slots EXCEPT ![n] = v], !.top = t]

\* Assigning to one slot of the stack changes that slot.
LEMMA SlotAssigned ==
  ASSUME NEW m \in Memory, NEW n \in 1 .. Len(m.slots), NEW v \in Value, NEW t \in Nat
  PROVE  LET x == Assigned(m, n, v, t) IN
         /\ x \in Memory
         /\ x.block = m.block /\ x.top = t /\ Len(x.slots) = Len(m.slots)
         /\ \A i \in 1 .. Len(m.slots) : x.slots[i] = IF i = n THEN v ELSE m.slots[i]
  <1> DEFINE s == [m.slots EXCEPT ![n] = v]
  <1>1. m.slots \in Seq(Value) /\ m.block \in Nat
    BY DEF Memory
  <1>2. /\ s \in Seq(Value) /\ Len(s) = Len(m.slots)
        /\ \A i \in 1 .. Len(m.slots) : s[i] = IF i = n THEN v ELSE m.slots[i]
    BY <1>1, ExceptSeq
  <1>3. Assigned(m, n, v, t) = [m EXCEPT !.slots = s, !.top = t]
    BY DEF Assigned
  <1> HIDE DEF s
  <1> QED BY <1>1, <1>2, <1>3 DEF Memory

\* stack_push writes its value above what was there: there is a slot for it.
LEMMA WrittenAbove ==
  ASSUME NEW m, MemoryOK(m), NEW v \in Value
  PROVE  /\ Written(m, v) \in Memory
         /\ Extends(Written(m, v), m, 1)
         /\ Written(m, v).block = m.block
         /\ Len(Written(m, v).slots) = Len(m.slots)
         /\ Written(m, v).slots[m.top + 1] = v
  <1> DEFINE w == Written(m, v)
             n == m.top + 1
  <1>1. /\ m \in Memory /\ m.top \in Nat /\ m.block \in Nat /\ Len(m.slots) \in Nat
        /\ n \in 1 .. Len(m.slots) /\ n \in Nat
    BY DEF MemoryOK, Memory
  <1>2. w = Assigned(m, n, v, n)
    BY Zenon DEF Written, Assigned
  <1>3. /\ w \in Memory
        /\ w.block = m.block /\ w.top = n /\ Len(w.slots) = Len(m.slots)
        /\ \A i \in 1 .. Len(m.slots) : w.slots[i] = IF i = n THEN v ELSE m.slots[i]
    <2> HIDE DEF n, w
    <2> QED BY <1>1, <1>2, SlotAssigned
  <1> HIDE DEF w
  <1> QED BY <1>1, <1>3 DEF Extends, w

\* GROW_CAPACITY answers more than it got.
LEMMA CapacityGrows ==
  ASSUME NEW n \in Nat \ {0}
  PROVE  GrowCapacity(n) \in Nat /\ n < GrowCapacity(n)
  BY SizeAssumption DEF GrowCapacity

\* Growing a full stack keeps what is in it and adds slots.
LEMMA GrownKeeps ==
  ASSUME NEW m \in Memory, Len(m.slots) # 0, m.top <= Len(m.slots)
  PROVE  /\ MemoryOK(Grown(m))
         /\ Grown(m).block = m.block /\ Grown(m).top = m.top
         /\ Len(m.slots) <= Len(Grown(m).slots)
         /\ \A i \in 1 .. Len(m.slots) : Grown(m).slots[i] = m.slots[i]
  <1> DEFINE more == GrowCapacity(Len(m.slots)) - Len(m.slots)
             junk == [i \in 1 .. more |-> "junk"]
  <1>1. m.slots \in Seq(Value) /\ Len(m.slots) \in Nat /\ m.top \in Nat /\ m.block \in Nat
    BY DEF Memory
  <1>2. more \in Nat /\ 1 <= more
    BY <1>1, CapacityGrows
  <1>3. junk \in Seq(Value) /\ Len(junk) = more
    <2> HIDE DEF more
    <2>1. "junk" \in Value
      BY DEF Value
    <2> QED BY <1>2, <2>1
  <1>4. Grown(m) = [block |-> m.block, top |-> m.top, slots |-> m.slots \o junk]
    <2>1. Grown(m) = [m EXCEPT !.slots = m.slots \o junk]
      BY DEF Grown, Capacity
    <2> HIDE DEF junk
    <2> QED BY <2>1 DEF Memory
  <1> HIDE DEF more, junk
  <1>5. /\ m.slots \o junk \in Seq(Value)
        /\ Len(m.slots \o junk) = Len(m.slots) + more
        /\ \A i \in 1 .. Len(m.slots) : (m.slots \o junk)[i] = m.slots[i]
    <2>1. \A i \in 1 .. Len(m.slots) + Len(junk) :
            (m.slots \o junk)[i] = IF i <= Len(m.slots) THEN m.slots[i] ELSE junk[i - Len(m.slots)]
      BY <1>1, <1>3, ConcatProperties
    <2>2. m.slots \o junk \in Seq(Value) /\ Len(m.slots \o junk) = Len(m.slots) + Len(junk)
      BY <1>1, <1>3, ConcatProperties
    <2> QED BY <1>1, <1>2, <1>3, <2>1, <2>2
  <1> DEFINE s == m.slots \o junk
  <1> HIDE DEF s
  <1>6. /\ s \in Seq(Value) /\ Len(s) = Len(m.slots) + more
        /\ \A i \in 1 .. Len(m.slots) : s[i] = m.slots[i]
        /\ Grown(m) = [block |-> m.block, top |-> m.top, slots |-> s]
    BY <1>4, <1>5 DEF s
  <1> QED BY <1>1, <1>2, <1>6 DEF MemoryOK, Memory

\* stack_push: one value more, and room for the next.
LEMMA PushKeeps ==
  ASSUME NEW m, MemoryOK(m), NEW v \in Value, NEW x \in Push(m, v)
  PROVE  MemoryOK(x) /\ Extends(x, m, 1) /\ x.slots[m.top + 1] = v
  <1> DEFINE w == Written(m, v)
  <1>1. /\ w \in Memory /\ Extends(w, m, 1) /\ w.block = m.block
        /\ Len(w.slots) = Len(m.slots) /\ w.slots[m.top + 1] = v
    BY WrittenAbove
  <1>2. m.top \in Nat /\ m.block \in Nat /\ Len(m.slots) \in Nat /\ m.top < Len(m.slots)
    BY DEF MemoryOK, Memory
  <1>3. w.top = m.top + 1 /\ w.top <= Len(w.slots) /\ Len(w.slots) # 0
    BY <1>1, <1>2 DEF Extends
  <1> HIDE DEF w
  <1>4. CASE w.top < Len(m.slots)
    <2>1. x = w
      BY <1>4 DEF Push, Capacity, w
    <2> QED BY <1>1, <1>4, <2>1 DEF MemoryOK
  <1>5. CASE ~(w.top < Len(m.slots))
    <2> DEFINE g == Grown(w)
    <2>1. /\ MemoryOK(g) /\ g.block = w.block /\ g.top = w.top
          /\ Len(w.slots) <= Len(g.slots)
          /\ \A i \in 1 .. Len(w.slots) : g.slots[i] = w.slots[i]
      BY <1>1, <1>3, GrownKeeps
    <2>2. x = g \/ x = [g EXCEPT !.block = @ + 1]
      BY <1>5 DEF Push, Capacity, w
    <2> HIDE DEF g
    <2>3. /\ MemoryOK(x) /\ w.block <= x.block /\ x.top = g.top /\ x.slots = g.slots
      BY <1>1, <1>2, <2>1, <2>2 DEF MemoryOK, Memory
    <2> QED BY <1>1, <1>2, <1>3, <2>1, <2>3 DEF Extends
  <1> QED BY <1>4, <1>5

\* Pushing on a stack that extends m extends m.
LEMMA ExtendsMore ==
  ASSUME NEW m, MemoryOK(m), NEW n \in Nat, NEW x, MemoryOK(x), Extends(x, m, n),
         NEW k \in Nat, NEW y, MemoryOK(y), Extends(y, x, k)
  PROVE  Extends(y, m, n + k)
  <1>1. /\ m.top \in Nat /\ x.top \in Nat /\ m.block \in Nat /\ x.block \in Nat /\ y.block \in Nat
        /\ Len(m.slots) \in Nat /\ Len(x.slots) \in Nat /\ Len(y.slots) \in Nat
    BY DEF MemoryOK, Memory
  <1>2. m.block <= y.block /\ y.top = m.top + (n + k) /\ Len(m.slots) <= Len(y.slots)
    <2>1. m.block <= x.block /\ x.block <= y.block /\ x.top = m.top + n /\ y.top = x.top + k
      BY DEF Extends
    <2>2. Len(m.slots) <= Len(x.slots) /\ Len(x.slots) <= Len(y.slots)
      BY DEF Extends
    <2>3. m.block <= y.block
      BY <1>1, <2>1
    <2>4. y.top = m.top + (n + k)
      BY <1>1, <2>1
    <2>5. Len(m.slots) <= Len(y.slots)
      BY <1>1, <2>2
    <2> QED BY <2>3, <2>4, <2>5
  <1>3. ASSUME NEW i \in 1 .. m.top
        PROVE  y.slots[i] = m.slots[i]
    <2>1. i \in 1 .. x.top
      BY <1>1 DEF Extends
    <2> QED BY <2>1 DEF Extends
  <1> QED BY <1>2, <1>3 DEF Extends

-----------------------------------------------------------------------------
(* The missing parameters of a call, pushed one after the other *)

\* after[k] is the set of stacks that k times nil make of m, for k up to n.
AfterNils(after, m, n) ==
  after = [k \in 0 .. n |-> IF k = 0 THEN {m} ELSE PushNil(after[k - 1])]

\* Such a function gives what it says for each k.
LEMMA AfterEach ==
  ASSUME NEW g, NEW m, NEW n \in Nat, AfterNils(g, m, n)
  PROVE  \A k \in 0 .. n : g[k] = IF k = 0 THEN {m} ELSE PushNil(g[k - 1])
  <1> DEFINE next(k) == IF k = 0 THEN {m} ELSE PushNil(g[k - 1])
  <1>1. g = [k \in 0 .. n |-> next(k)]
    BY DEF AfterNils
  <1> HIDE DEF next
  <1>2. \A k \in 0 .. n : g[k] = next(k)
    BY <1>1
  <1> QED BY <1>2 DEF next

\* There is such a function for every n: the recursion of PushNils is sound.
LEMMA AfterExists ==
  ASSUME NEW m, NEW n \in Nat
  PROVE  \E g : AfterNils(g, m, n)
  <1> DEFINE Defined == {k \in Nat : \E g : AfterNils(g, m, k)}
  <1>1. 0 \in Defined
    <2> DEFINE g == [k \in 0 .. 0 |-> {m}]
    <2>1. AfterNils(g, m, 0)
      BY DEF AfterNils
    <2> QED BY <2>1
  <1>2. ASSUME NEW k \in Nat, k \in Defined
        PROVE  k + 1 \in Defined
    <2>1. PICK g : AfterNils(g, m, k)
      BY <1>2
    <2>2. \A i \in 0 .. k : g[i] = IF i = 0 THEN {m} ELSE PushNil(g[i - 1])
      BY <2>1, AfterEach
    <2> DEFINE h == [i \in 0 .. k + 1 |-> IF i = k + 1 THEN PushNil(g[k]) ELSE g[i]]
    <2>3. ASSUME NEW i \in 0 .. k + 1
          PROVE  h[i] = IF i = 0 THEN {m} ELSE PushNil(h[i - 1])
      <3>1. CASE i = k + 1
        BY <3>1
      <3>2. CASE i = 0
        BY <3>2, <2>2
      <3>3. CASE i \in 1 .. k
        <4>1. h[i] = g[i] /\ h[i - 1] = g[i - 1]
          BY <3>3
        <4> QED BY <2>2, <3>3, <4>1
      <3> QED BY <3>1, <3>2, <3>3
    <2>4. h = [i \in 0 .. k + 1 |-> h[i]]
      OBVIOUS
    <2>5. AfterNils(h, m, k + 1)
      <3> HIDE DEF h
      <3> QED BY <2>3, <2>4 DEF AfterNils
    <2> HIDE DEF h
    <2> QED BY <2>5
  <1> HIDE DEF Defined
  <1>3. Nat \subseteq Defined
    BY <1>1, <1>2, NatBySteps
  <1> QED BY <1>3 DEF Defined

\* The padding of a call: n values more, and nothing below them changed.
LEMMA NilsKeep ==
  ASSUME NEW m, MemoryOK(m), NEW n \in Nat, NEW x \in PushNils(m, n)
  PROVE  MemoryOK(x) /\ Extends(x, m, n)
  <1> DEFINE g == CHOOSE g : AfterNils(g, m, n)
  <1>1. AfterNils(g, m, n)
    BY AfterExists
  <1>2. x \in g[n]
    BY DEF PushNils, AfterNils
  <1> HIDE DEF g
  <1>3. \A k \in 0 .. n : g[k] = IF k = 0 THEN {m} ELSE PushNil(g[k - 1])
    BY <1>1, AfterEach
  <1> DEFINE Kept(k) == \A y \in g[k] : MemoryOK(y) /\ Extends(y, m, k)
             Holds == {k \in Nat : k <= n => Kept(k)}
  <1>4. 0 \in Holds
    <2>1. m.top \in Nat /\ m.block \in Nat /\ Len(m.slots) \in Nat
      BY DEF MemoryOK, Memory
    <2>2. Extends(m, m, 0)
      BY <2>1 DEF Extends
    <2>3. g[0] = {m}
      BY <1>3
    <2> QED BY <2>2, <2>3
  <1>5. ASSUME NEW k \in Nat, k \in Holds
        PROVE  k + 1 \in Holds
    <2> SUFFICES ASSUME k + 1 <= n, NEW z \in g[k + 1]
                 PROVE  MemoryOK(z) /\ Extends(z, m, k + 1)
      OBVIOUS
    <2>1. g[k + 1] = PushNil(g[k])
      BY <1>3
    <2>2. PICK y \in g[k] : z \in Push(y, "nil")
      BY <2>1 DEF PushNil
    <2>3. MemoryOK(y) /\ Extends(y, m, k)
      BY <1>5
    <2>4. "nil" \in Value
      BY DEF Value
    <2>5. MemoryOK(z) /\ Extends(z, y, 1)
      BY <2>2, <2>3, <2>4, PushKeeps
    <2> QED BY <2>3, <2>5, ExtendsMore
  <1>6. n \in Holds
    <2> HIDE DEF Holds
    <2> QED BY <1>4, <1>5, NatBySteps
  <1> QED BY <1>2, <1>6

-----------------------------------------------------------------------------
(* Frames and upvalues, while memory changes *)

\* What the invariant says of the numbers of the running frame.
LEMMA RunningBase ==
  ASSUME MemoryOK(mem), FramesOK(frames, mem), frames # <<>>
  PROVE  /\ Len(frames) \in Nat \ {0}
         /\ Running = frames[Len(frames)] /\ Running \in FrameRecord
         /\ Running.closure \in Closures
         /\ Running.base \in Nat \ {0} /\ Running.block \in Nat
         /\ Arity[Running.closure] \in Nat
         /\ Running.block <= mem.block
         /\ Running.base + Arity[Running.closure] <= mem.top
         /\ \A i \in 1 .. Len(frames) :
               /\ frames[i] \in FrameRecord /\ frames[i].base \in Nat \ {0}
               /\ Arity[frames[i].closure] \in Nat
               /\ frames[i].base <= Running.base
               /\ i < Len(frames) => frames[i].base + Arity[frames[i].closure] < Running.base
  <1>1. frames \in Seq(FrameRecord) /\ Len(frames) \in Nat \ {0}
    BY EmptySeq DEF FramesOK
  <1>2. \A i \in 1 .. Len(frames) :
          /\ frames[i] \in FrameRecord
          /\ frames[i].base \in Nat \ {0}
          /\ Arity[frames[i].closure] \in Nat
    <2>1. \A i \in 1 .. Len(frames) : frames[i] \in FrameRecord
      BY <1>1
    <2> QED BY <2>1, ArityAssumption DEF FramesOK, OnStack, FrameRecord
  <1>3. Running = frames[Len(frames)] /\ Len(frames) \in 1 .. Len(frames)
    BY <1>1 DEF Running, Last
  <1>4. OnStack(Running, mem) /\ mem.top \in Nat
    BY <1>3 DEF FramesOK, MemoryOK, Memory
  <1>5. \A i \in 1 .. Len(frames) :
          i < Len(frames) => frames[i].base + Arity[frames[i].closure] < Running.base
    BY <1>3 DEF FramesOK, Nested
  <1>6. \A i \in 1 .. Len(frames) : i < Len(frames) \/ i = Len(frames)
    BY <1>1
  <1>7. \A i \in 1 .. Len(frames) : frames[i].base <= Running.base
    BY <1>2, <1>3, <1>5, <1>6
  <1> QED BY <1>1, <1>2, <1>3, <1>4, <1>5, <1>7 DEF OnStack, FrameRecord

\* The frames survive a change of memory that keeps their first slots and what
\* the running frame has for parameters.
LEMMA SameFrames ==
  ASSUME MemoryOK(mem), FramesOK(frames, mem), frames # <<>>,
         NEW x, MemoryOK(x), mem.block <= x.block,
         Running.base + Arity[Running.closure] <= x.top,
         \A i \in 1 .. Len(frames) : x.slots[frames[i].base] = mem.slots[frames[i].base]
  PROVE  FramesOK(frames, x)
  <1>1. x.block \in Nat /\ x.top \in Nat /\ mem.block \in Nat
    BY DEF MemoryOK, Memory
  <1>2. ASSUME NEW i \in 1 .. Len(frames)
        PROVE  OnStack(frames[i], x)
    <2>1. OnStack(frames[i], mem) /\ frames[i].block \in Nat
      BY RunningBase DEF FramesOK, FrameRecord
    <2>2. frames[i].base + Arity[frames[i].closure] <= x.top
      <3>1. CASE i = Len(frames)
        BY <3>1, RunningBase
      <3>2. CASE i # Len(frames)
        <4>1. i < Len(frames)
          BY <3>2, RunningBase
        <4>2. frames[i].base + Arity[frames[i].closure] < Running.base
          BY <4>1, RunningBase
        <4> QED BY <1>1, <4>2, RunningBase
      <3> QED BY <3>1, <3>2
    <2> QED BY <1>1, <2>1, <2>2 DEF OnStack
  <1> QED BY <1>2 DEF FramesOK

\* Open upvalues survive a change of memory that keeps them below the top, and
\* the first slots of the frames.
LEMMA SameUpvalues ==
  ASSUME MemoryOK(mem), UpvaluesOK(openUp, frames, mem),
         NEW x, MemoryOK(x), mem.block <= x.block,
         NEW up, up \subseteq openUp, \A p \in up : p.index <= x.top,
         \A i \in 1 .. Len(frames) : x.slots[frames[i].base] = mem.slots[frames[i].base]
  PROVE  UpvaluesOK(up, frames, x)
  <1>1. /\ up \subseteq Pointer /\ mem.block \in Nat /\ x.block \in Nat
        /\ \A p \in up : p \in openUp /\ p.block \in Nat
    BY DEF UpvaluesOK, Pointer, MemoryOK, Memory
  <1>2. \A p \in up : p.block <= x.block /\ 1 <= p.index
    BY <1>1 DEF UpvaluesOK
  <1>3. ASSUME NEW p \in up, NEW i \in 1 .. Len(frames), p.index = frames[i].base
        PROVE  x.slots[p.index] = "instance"
    BY <1>1, <1>3 DEF UpvaluesOK
  <1> QED BY <1>1, <1>2, <1>3 DEF UpvaluesOK

\* Frames and open upvalues of a stack are those of a stack that extends it.
LEMMA FramesExtended ==
  ASSUME NEW m, MemoryOK(m), NEW x, MemoryOK(x), NEW n \in Nat, Extends(x, m, n),
         FramesOK(frames, m)
  PROVE  FramesOK(frames, x)
  <1>1. /\ m.block \in Nat /\ x.block \in Nat /\ m.top \in Nat /\ x.top \in Nat
        /\ m.block <= x.block /\ m.top <= x.top
    BY DEF MemoryOK, Memory, Extends
  <1>2. ASSUME NEW i \in 1 .. Len(frames)
        PROVE  OnStack(frames[i], x)
    <2>1. /\ frames[i] \in FrameRecord /\ OnStack(frames[i], m)
      BY DEF FramesOK
    <2>2. /\ frames[i].block \in Nat /\ frames[i].base \in Nat /\ Arity[frames[i].closure] \in Nat
      BY <2>1, ArityAssumption DEF FrameRecord
    <2>3. frames[i].base \in 1 .. m.top
      BY <1>1, <2>1, <2>2 DEF OnStack
    <2>4. x.slots[frames[i].base] = m.slots[frames[i].base]
      BY <2>3 DEF Extends
    <2>5. frames[i].block <= x.block /\ frames[i].base + Arity[frames[i].closure] <= x.top
      BY <1>1, <2>1, <2>2 DEF OnStack
    <2> QED BY <2>1, <2>4, <2>5 DEF OnStack
  <1> QED BY <1>2 DEF FramesOK

\* Open upvalues stay good when memory grows above the top and moves no slot.
LEMMA UpvaluesExtended ==
  ASSUME NEW m, MemoryOK(m), NEW x, MemoryOK(x), NEW n \in Nat, Extends(x, m, n),
         NEW up, UpvaluesOK(up, frames, m)
  PROVE  UpvaluesOK(up, frames, x)
  <1>1. /\ m.block \in Nat /\ x.block \in Nat /\ m.top \in Nat /\ x.top \in Nat
        /\ m.block <= x.block /\ m.top <= x.top
    BY DEF MemoryOK, Memory, Extends
  <1>2. \A p \in up : p \in Pointer /\ p.index \in 1 .. m.top /\ p.block \in Nat
    BY <1>1 DEF UpvaluesOK, Pointer
  <1>3. ASSUME NEW p \in up, NEW i \in 1 .. Len(frames), p.index = frames[i].base
        PROVE  x.slots[p.index] = "instance"
    <2>1. x.slots[p.index] = m.slots[p.index]
      BY <1>2 DEF Extends
    <2> QED BY <1>3, <2>1 DEF UpvaluesOK
  <1>4. \A p \in up : p.block <= x.block /\ 1 <= p.index /\ p.index <= x.top
    BY <1>1, <1>2 DEF UpvaluesOK
  <1> QED BY <1>2, <1>3, <1>4 DEF UpvaluesOK

-----------------------------------------------------------------------------
(* Parts of a step *)

\* The invariant after a step, part by part.
LEMMA InductiveAfter ==
  /\ MemoryOK(mem')
  /\ FramesOK(frames', mem')
  /\ UpvaluesOK(openUp', frames', mem')
  /\ ScriptsOK'
  /\ StatusOK'
  => Inductive'
  BY DEF Inductive, MemoryOK, FramesOK, UpvaluesOK, OnStack, Nested

\* The scripts know nothing of the stack.
LEMMA SameScripts ==
  ASSUME ScriptsOK, UNCHANGED <<cached, compiled>>
  PROVE  ScriptsOK'
  BY DEF ScriptsOK

\* The stack m with v in slot n.
Put(m, n, v) == [m EXCEPT !.slots[n] = v]

\* An assignment to one slot.
LEMMA PutOK ==
  ASSUME NEW m, MemoryOK(m), NEW n \in 1 .. Len(m.slots), NEW v \in Value
  PROVE  LET x == Put(m, n, v) IN
         /\ MemoryOK(x)
         /\ x.block = m.block /\ x.top = m.top /\ Len(x.slots) = Len(m.slots)
         /\ \A i \in 1 .. Len(m.slots) : x.slots[i] = IF i = n THEN v ELSE m.slots[i]
  <1> DEFINE x == Put(m, n, v)
             s == [m.slots EXCEPT ![n] = v]
  <1>1. m \in Memory /\ m.slots \in Seq(Value) /\ m.top < Len(m.slots)
    BY DEF MemoryOK, Memory
  <1>2. /\ s \in Seq(Value) /\ Len(s) = Len(m.slots)
        /\ \A i \in 1 .. Len(m.slots) : s[i] = IF i = n THEN v ELSE m.slots[i]
    BY <1>1, ExceptSeq
  <1>3. x = [m EXCEPT !.slots = s]
    BY Zenon DEF Put
  <1> HIDE DEF s
  <1>4. x \in Memory /\ x.slots = s /\ x.block = m.block /\ x.top = m.top
    <2> HIDE DEF x
    <2> QED BY <1>1, <1>2, <1>3 DEF Memory
  <1> HIDE DEF x
  <1>5. MemoryOK(x)
    BY <1>1, <1>2, <1>4 DEF MemoryOK
  <1> QED BY <1>2, <1>4, <1>5 DEF x

\* STACK_PEEK(d) = v.
LEMMA Replaced ==
  ASSUME NEW m, MemoryOK(m), NEW d \in Nat, d < m.top, NEW v \in Value
  PROVE  LET x == Replace(m, d, v) IN
         /\ MemoryOK(x)
         /\ x.block = m.block /\ x.top = m.top /\ Len(x.slots) = Len(m.slots)
         /\ \A i \in 1 .. Len(m.slots) : x.slots[i] = IF i = m.top - d THEN v ELSE m.slots[i]
  <1>1. Replace(m, d, v) = Put(m, m.top - d, v)
    BY DEF Replace, Put
  <1>2. m.top - d \in 1 .. Len(m.slots)
    BY DEF MemoryOK, Memory
  <1> QED BY <1>1, <1>2, PutOK

\* What an operand holds.
LEMMA Peeked ==
  ASSUME MemoryOK(mem), NEW d \in Nat, d < mem.top
  PROVE  Peek(d) \in Value
  <1>1. mem.slots \in Seq(Value) /\ mem.top - d \in 1 .. Len(mem.slots)
    BY DEF MemoryOK, Memory
  <1> QED BY <1>1, ElementOfSeq DEF Peek

\* Dropping values from the stack.
LEMMA Dropped ==
  ASSUME NEW m, MemoryOK(m), NEW t \in Nat, t <= m.top
  PROVE  LET x == [m EXCEPT !.top = t] IN
         MemoryOK(x) /\ x.top = t /\ x.block = m.block /\ x.slots = m.slots
  <1>1. LET x == [m EXCEPT !.top = t] IN
        x \in Memory /\ x.top = t /\ x.block = m.block /\ x.slots = m.slots
    BY DEF MemoryOK, Memory
  <1> QED BY <1>1 DEF MemoryOK, Memory

\* stack_reset leaves an empty stack of the same size.
LEMMA ResetOK ==
  ASSUME NEW m, MemoryOK(m)
  PROVE  MemoryOK(Reset(m))
  <1> DEFINE nils == [i \in 1 .. Len(m.slots) |-> "nil"]
             x == [m EXCEPT !.top = 0, !.slots = nils]
  <1>1. m \in Memory /\ Len(m.slots) \in Nat /\ m.top \in Nat /\ m.top < Len(m.slots)
    BY DEF MemoryOK, Memory
  <1>2. nils \in Seq(Value) /\ Len(nils) = Len(m.slots)
    <2>1. "nil" \in Value
      BY DEF Value
    <2> QED BY <1>1, <2>1
  <1>3. x \in Memory /\ x.top = 0 /\ x.slots = nils
    <2> HIDE DEF nils
    <2> QED BY <1>1, <1>2 DEF Memory
  <1>4. x = Reset(m)
    BY DEF Reset, Capacity
  <1> HIDE DEF x, nils
  <1> QED BY <1>1, <1>2, <1>3, <1>4 DEF MemoryOK

-----------------------------------------------------------------------------
(* Kinds of steps *)

\* An instruction with n operands: they are above the running frame's variables.
LEMMA StepFacts ==
  ASSUME Inductive, NEW n \in Nat, Step(n)
  PROVE  /\ status = "run" /\ frames # <<>>
         /\ mem.top \in Nat /\ mem.block \in Nat /\ mem.top < Len(mem.slots) /\ Len(mem.slots) \in Nat
         /\ Running.base \in Nat \ {0} /\ Arity[Running.closure] \in Nat
         /\ Running.base + Arity[Running.closure] + n <= mem.top
         /\ \A p \in openUp : p \in Pointer /\ p.index <= mem.top - n
  <1>1. MemoryOK(mem) /\ FramesOK(frames, mem) /\ frames # <<>> /\ status = "run"
    BY DEF Inductive, Step
  <1>2. /\ mem.top \in Nat /\ mem.block \in Nat /\ mem.top < Len(mem.slots)
        /\ Len(mem.slots) \in Nat
    BY <1>1 DEF MemoryOK, Memory
  <1>3. Running.base \in Nat \ {0} /\ Arity[Running.closure] \in Nat
    BY <1>1, RunningBase
  <1>4. Running.base + Arity[Running.closure] + n <= mem.top
    BY <1>2, <1>3 DEF Step, Operands
  <1>5. \A p \in openUp : p \in Pointer /\ p.index <= mem.top - n
    BY DEF Step, Inductive, UpvaluesOK
  <1> QED BY <1>1, <1>2, <1>3, <1>4, <1>5

\* An instruction that keeps the frames, and of the stack what lies below the
\* operands of the running frame.
LEMMA OperandStep ==
  ASSUME Inductive, status = "run", frames # <<>>,
         MemoryOK(mem'), mem.block <= mem'.block,
         Running.base + Arity[Running.closure] <= mem'.top,
         \A i \in 1 .. Running.base : mem'.slots[i] = mem.slots[i],
         UpvaluesOK(openUp', frames, mem'),
         status' \in {"run", "exit", "undefined"},
         UNCHANGED <<frames, cached, compiled>>
  PROVE  Inductive' /\ CallerSlotsKept
  <1>1. frames # <<>> /\ MemoryOK(mem) /\ FramesOK(frames, mem) /\ ScriptsOK
    BY DEF Inductive
  <1>2. \A i \in 1 .. Len(frames) : frames[i].base \in 1 .. Running.base
    BY <1>1, RunningBase
  <1>3. FramesOK(frames, mem')
    BY <1>1, <1>2, SameFrames
  <1>4. ScriptsOK'
    BY <1>1, SameScripts
  <1>5. StatusOK'
    BY <1>1 DEF StatusOK
  <1>6. CallerSlotsKept
    <2>1. \A i \in 1 .. Running.base - 1 : i \in 1 .. Running.base
      BY <1>1, RunningBase
    <2> QED BY <2>1 DEF CallerSlotsKept
  <1> QED BY <1>3, <1>4, <1>5, <1>6, InductiveAfter

\* No frame is a right stack of frames.
LEMMA NoFrames ==
  ASSUME NEW m
  PROVE  FramesOK(<<>>, m)
  <1>1. <<>> \in Seq(FrameRecord) /\ Len(<<>>) = 0
    BY EmptySeq
  <1>2. 0 <= FrameMax /\ 1 .. 0 = {}
    BY SizeAssumption
  <1> QED BY <1>1, <1>2 DEF FramesOK, Nested

\* After stack_reset nothing is left, whatever the handler does then.
LEMMA Resets ==
  ASSUME Inductive, NEW m, MemoryOK(m),
         NEW t \in {"ready", "run", "undefined"}, ResetAs(m, t), ScriptsOK'
  PROVE  Inductive' /\ CallerSlotsKept
  <1> USE DEF ResetAs
  <1>1. MemoryOK(mem')
    BY ResetOK
  <1>2. FramesOK(frames', mem')
    BY NoFrames
  <1>3. UpvaluesOK(openUp', frames', mem')
    BY DEF UpvaluesOK
  <1>4. StatusOK'
    BY DEF StatusOK
  <1>5. CallerSlotsKept
    BY DEF CallerSlotsKept
  <1> QED BY <1>1, <1>2, <1>3, <1>4, <1>5, InductiveAfter

\* call, from a stack m that has the callee, or the receiver, below argc
\* arguments: the new frame takes them and the nils that make up for the rest.
LEMMA Called ==
  ASSUME NEW m, MemoryOK(m), FramesOK(frames, m), UpvaluesOK(openUp, frames, m),
         NEW c \in Closures, NEW argc \in Nat, argc <= Arity[c], argc < m.top,
         Len(frames) < FrameMax,
         m.slots[m.top - argc] \in {c, "instance"},
         \A i \in 1 .. Len(frames) : frames[i].base + Arity[frames[i].closure] < m.top - argc,
         \A p \in openUp : p.index < m.top - argc,
         Call(m, c, argc)
  PROVE  /\ MemoryOK(mem') /\ Extends(mem', m, Arity[c] - argc)
         /\ FramesOK(frames', mem') /\ frames' # <<>>
         /\ UpvaluesOK(openUp, frames', mem')
  <1> DEFINE n == Arity[c] - argc
             x == mem'
             f == [closure |-> c, block |-> x.block, base |-> x.top - Arity[c]]
  <1>1. Arity[c] \in Nat /\ n \in Nat /\ m.top \in Nat /\ m.slots \in Seq(Value)
    BY ArityAssumption DEF MemoryOK, Memory
  <1>2. x \in PushNils(m, n) /\ frames' = Append(frames, f)
    BY DEF Call
  <1>3. MemoryOK(x) /\ Extends(x, m, n)
    BY <1>1, <1>2, NilsKeep
  <1>4. /\ x.top = m.top + n /\ x.top \in Nat /\ x.block \in Nat
        /\ x.top - Arity[c] = m.top - argc /\ m.top - argc \in 1 .. m.top
    <2>1. x.top \in Nat /\ x.block \in Nat
      BY <1>3 DEF MemoryOK, Memory
    <2>2. x.top = m.top + n
      BY <1>3 DEF Extends
    <2>3. x.top - Arity[c] = m.top - argc
      BY <1>1, <2>2
    <2>4. m.top - argc \in 1 .. m.top
      BY <1>1
    <2> QED BY <2>1, <2>2, <2>3, <2>4
  <1>5. f \in FrameRecord /\ f.closure = c /\ f.base = m.top - argc /\ f.block = x.block
    BY <1>4 DEF FrameRecord
  <1>6. FramesOK(frames, x) /\ UpvaluesOK(openUp, frames, x)
    BY <1>1, <1>3, FramesExtended, UpvaluesExtended
  <1>7. frames \in Seq(FrameRecord) /\ Len(frames) \in Nat
    BY DEF FramesOK
  <1> HIDE DEF f, n
  <1>8. /\ frames' \in Seq(FrameRecord) /\ frames' # <<>> /\ Len(frames') = Len(frames) + 1
        /\ \A i \in 1 .. Len(frames) : frames'[i] = frames[i]
        /\ frames'[Len(frames) + 1] = f
    BY <1>2, <1>5, <1>7, AppendProperties
  <1>9. ASSUME NEW i \in 1 .. Len(frames')
        PROVE  \/ i \in 1 .. Len(frames) /\ frames'[i] = frames[i]
               \/ i = Len(frames) + 1 /\ frames'[i] = f
    <2>1. i \in 1 .. Len(frames) \/ i = Len(frames) + 1
      BY <1>7, <1>8
    <2> QED BY <1>8, <2>1
  <1>10. OnStack(f, x)
    <2>1. x.slots[f.base] = m.slots[m.top - argc]
      BY <1>3, <1>4, <1>5 DEF Extends
    <2>2. f.base + Arity[f.closure] <= x.top
      BY <1>1, <1>4, <1>5
    <2> QED BY <1>4, <1>5, <2>1, <2>2 DEF OnStack
  <1>11. Nested(frames')
    <2> SUFFICES ASSUME NEW i \in 1 .. Len(frames'), NEW j \in 1 .. Len(frames'), i < j
                 PROVE  frames'[i].base + Arity[frames'[i].closure] < frames'[j].base
      BY DEF Nested
    <2>1. i \in 1 .. Len(frames) /\ frames'[i] = frames[i]
      BY <1>7, <1>8, <1>9
    <2>2. CASE j \in 1 .. Len(frames)
      BY <1>8, <2>1, <2>2 DEF FramesOK, Nested
    <2>3. CASE j = Len(frames) + 1
      BY <1>5, <1>8, <2>1, <2>3
    <2> QED BY <1>9, <2>2, <2>3
  <1>12. FramesOK(frames', x)
    <2>1. Len(frames') <= FrameMax
      BY <1>7, <1>8, SizeAssumption
    <2>2. \A i \in 1 .. Len(frames) : OnStack(frames[i], x)
      BY <1>6 DEF FramesOK
    <2>3. \A i \in 1 .. Len(frames') : OnStack(frames'[i], x)
      BY <1>9, <1>10, <2>2
    <2> QED BY <1>8, <1>11, <2>1, <2>3 DEF FramesOK
  <1>13. UpvaluesOK(openUp, frames', x)
    <2>1. ASSUME NEW p \in openUp, NEW i \in 1 .. Len(frames'), p.index = frames'[i].base
          PROVE  x.slots[p.index] = "instance"
      <3>1. CASE i \in 1 .. Len(frames)
        BY <1>6, <1>8, <2>1, <3>1 DEF UpvaluesOK
      <3>2. CASE frames'[i] = f
        <4>1. p.index \in Nat /\ p.index < m.top - argc
          BY DEF UpvaluesOK, Pointer
        <4> QED BY <1>4, <1>5, <2>1, <3>2, <4>1
      <3> QED BY <1>9, <3>1, <3>2
    <2> QED BY <1>6, <2>1 DEF UpvaluesOK
  <1> QED BY <1>3, <1>8, <1>12, <1>13 DEF n

-----------------------------------------------------------------------------
(* The steps, one by one *)

\* The frames that are there end below an operand of the running one.
LEMMA FramesBelow ==
  ASSUME MemoryOK(mem), FramesOK(frames, mem), frames # <<>>,
         NEW n \in Nat, Running.base + Arity[Running.closure] < n
  PROVE  \A i \in 1 .. Len(frames) : frames[i].base + Arity[frames[i].closure] < n
  <1> SUFFICES ASSUME NEW i \in 1 .. Len(frames)
               PROVE  frames[i].base + Arity[frames[i].closure] < n
    OBVIOUS
  <1>1. CASE i = Len(frames)
    BY <1>1, RunningBase
  <1>2. CASE i # Len(frames)
    <2>1. i < Len(frames)
      BY <1>2, RunningBase
    <2>2. frames[i].base + Arity[frames[i].closure] < Running.base
      BY <2>1, RunningBase
    <2> QED BY <2>2, RunningBase
  <1> QED BY <1>1, <1>2

\* OP_CALL and OP_INVOKE: the callee is below argc arguments, on the stack m
\* that a bound method or a class has put its receiver on.
LEMMA CallStep ==
  ASSUME Inductive, NEW argc \in Nat, Step(argc + 1),
         NEW m, MemoryOK(m), m.block = mem.block, m.top = mem.top,
         \A i \in 1 .. Running.base : m.slots[i] = mem.slots[i],
         NEW c \in Closures, m.slots[mem.top - argc] \in {c, "instance"},
         CallOrFail(m, c, argc)
  PROVE  Inductive' /\ CallerSlotsKept
  <1>1. /\ MemoryOK(mem) /\ FramesOK(frames, mem) /\ UpvaluesOK(openUp, frames, mem)
        /\ ScriptsOK /\ StatusOK
    BY DEF Inductive
  <1>2. /\ status = "run" /\ frames # <<>>
        /\ mem.top \in Nat /\ mem.block \in Nat /\ Len(mem.slots) \in Nat
        /\ Running.base \in Nat \ {0} /\ Arity[Running.closure] \in Nat
        /\ Running.base + Arity[Running.closure] + (argc + 1) <= mem.top
        /\ \A p \in openUp : p \in Pointer /\ p.index <= mem.top - (argc + 1)
    BY StepFacts
  <1>3. CASE ResetAs(mem, "ready") \/ ResetAs(mem, "undefined")
    <2>1. UNCHANGED <<cached, compiled>>
      BY DEF CallOrFail
    <2> QED BY <1>1, <1>3, <2>1, Resets, SameScripts
  <1>4. CASE /\ ~CallFails(c, argc) /\ Call(m, c, argc)
             /\ UNCHANGED <<openUp, cached, compiled, status>>
    <2>1. Call(m, c, argc) /\ UNCHANGED <<openUp, cached, compiled, status>>
      BY <1>4
    <2>2. argc <= Arity[c] /\ Len(frames) < FrameMax
      <3>1. Arity[c] \in Nat
        BY ArityAssumption
      <3>2. Len(frames) \in Nat /\ Len(frames) <= FrameMax
        BY <1>1 DEF FramesOK
      <3> QED BY <1>4, <3>1, <3>2, SizeAssumption DEF CallFails
    <2>3. FramesOK(frames, m)
      <3>1. \A i \in 1 .. Len(frames) : frames[i].base \in 1 .. Running.base
        BY <1>1, <1>2, RunningBase
      <3>2. mem.block <= m.block /\ Running.base + Arity[Running.closure] <= m.top
        BY <1>2
      <3> QED BY <1>1, <1>2, <3>1, <3>2, SameFrames
    <2>4. UpvaluesOK(openUp, frames, m)
      <3>1. mem.block <= m.block /\ \A p \in openUp : p.index <= m.top
        BY <1>2 DEF Pointer
      <3>2. \A i \in 1 .. Len(frames) : m.slots[frames[i].base] = mem.slots[frames[i].base]
        <4>1. \A i \in 1 .. Len(frames) : frames[i].base \in 1 .. Running.base
          BY <1>1, <1>2, RunningBase
        <4> QED BY <4>1
      <3> QED BY <1>1, <1>2, <3>1, <3>2, SameUpvalues
    <2>5. argc < m.top /\ m.top - argc \in Nat /\ Running.base + Arity[Running.closure] < m.top - argc
      BY <1>2
    <2>6. \A i \in 1 .. Len(frames) : frames[i].base + Arity[frames[i].closure] < m.top - argc
      BY <1>1, <1>2, <2>5, FramesBelow
    <2>7. \A p \in openUp : p.index < m.top - argc
      BY <1>2 DEF Pointer
    <2>8. /\ MemoryOK(mem') /\ Extends(mem', m, Arity[c] - argc)
          /\ FramesOK(frames', mem') /\ frames' # <<>>
          /\ UpvaluesOK(openUp, frames', mem')
      BY <2>1, <2>2, <2>3, <2>4, <2>5, <2>6, <2>7, Called
    <2>9. CallerSlotsKept
      <3>1. \A i \in 1 .. Running.base - 1 : i \in 1 .. Running.base /\ i \in 1 .. m.top
        BY <1>2
      <3>2. \A i \in 1 .. Running.base - 1 : mem'.slots[i] = mem.slots[i]
        BY <3>1, <2>8 DEF Extends
      <3> QED BY <3>2 DEF CallerSlotsKept
    <2>10. ScriptsOK'
      BY <1>1, <2>1, SameScripts
    <2>11. StatusOK'
      BY <1>2, <2>1, <2>8 DEF StatusOK
    <2> QED BY <2>1, <2>8, <2>9, <2>10, <2>11, InductiveAfter
  <1> QED BY <1>3, <1>4 DEF CallOrFail, EndLine

\* A line is compiled and its script called, on an empty stack.
LEMMA InterpretStep ==
  ASSUME Inductive, NEW f \in Functions, Interpret(f)
  PROVE  Inductive' /\ CallerSlotsKept
  <1>1. /\ MemoryOK(mem) /\ ScriptsOK /\ StatusOK /\ FramesOK(frames, mem)
        /\ status = "ready" /\ frames = <<>> /\ openUp = {}
    BY DEF Inductive, StatusOK, Interpret
  <1>2. f \in Closures /\ f \in Value /\ Arity[f] = 0
    BY DEF Closures, Value, Interpret
  <1>3. PICK m \in Push(mem, f) : Call(m, f, 0)
    BY DEF Interpret
  <1>4. MemoryOK(m) /\ Extends(m, mem, 1) /\ m.slots[mem.top + 1] = f
    BY <1>1, <1>2, <1>3, PushKeeps
  <1>5. m.top \in Nat /\ mem.top \in Nat /\ m.top = mem.top + 1
    BY <1>1, <1>4 DEF MemoryOK, Memory, Extends
  <1>6. FramesOK(frames, m) /\ Len(frames) = 0 /\ 0 < FrameMax
    BY <1>1, <1>4, FramesExtended, SizeAssumption
  <1>7. UpvaluesOK(openUp, frames, m)
    BY <1>1 DEF UpvaluesOK
  <1>8. /\ \A i \in 1 .. Len(frames) : frames[i].base + Arity[frames[i].closure] < m.top - 0
        /\ \A p \in openUp : p.index < m.top - 0
    BY <1>1, <1>6
  <1>9. m.slots[m.top - 0] \in {f, "instance"} /\ 0 <= Arity[f] /\ 0 < m.top
    BY <1>2, <1>4, <1>5
  <1>10. MemoryOK(mem') /\ FramesOK(frames', mem') /\ frames' # <<>> /\ UpvaluesOK(openUp, frames', mem')
    BY <1>2, <1>3, <1>4, <1>6, <1>7, <1>8, <1>9, Called
  <1>11. ScriptsOK' /\ StatusOK' /\ UNCHANGED openUp
    BY <1>1, <1>10, SameScripts DEF Interpret, StatusOK
  <1>12. CallerSlotsKept
    BY <1>1 DEF CallerSlotsKept
  <1> QED BY <1>10, <1>11, <1>12, InductiveAfter

\* runtimeError: the frames and the open upvalues are gone.
LEMMA RuntimeErrorStep ==
  ASSUME Inductive, RuntimeError
  PROVE  Inductive' /\ CallerSlotsKept
  <1>1. MemoryOK(mem) /\ ScriptsOK'
    BY SameScripts DEF RuntimeError, Inductive
  <1> QED BY <1>1, Resets DEF RuntimeError, EndLine

\* A value of any kind pushed by an instruction.
LEMMA PushStep ==
  ASSUME Inductive, Step(0), NEW v \in Value, mem' \in Push(mem, v),
         UNCHANGED <<frames, openUp, cached, compiled, status>>
  PROVE  Inductive' /\ CallerSlotsKept
  <1>1. MemoryOK(mem) /\ UpvaluesOK(openUp, frames, mem)
    BY DEF Inductive
  <1>2. MemoryOK(mem') /\ Extends(mem', mem, 1)
    BY <1>1, PushKeeps
  <1>3. /\ status = "run" /\ frames # <<>> /\ mem.top \in Nat
        /\ Running.base \in Nat \ {0} /\ Arity[Running.closure] \in Nat
        /\ Running.base + Arity[Running.closure] + 0 <= mem.top
    BY StepFacts
  <1>4. mem.block <= mem'.block /\ mem'.top = mem.top + 1
    BY <1>2 DEF Extends
  <1>5. Running.base + Arity[Running.closure] <= mem'.top
    BY <1>3, <1>4
  <1>6. \A i \in 1 .. Running.base : mem'.slots[i] = mem.slots[i]
    <2>1. \A i \in 1 .. Running.base : i \in 1 .. mem.top
      BY <1>3
    <2> QED BY <1>2, <2>1 DEF Extends
  <1>7. UpvaluesOK(openUp', frames, mem')
    BY <1>1, <1>2, UpvaluesExtended
  <1> QED BY <1>2, <1>3, <1>4, <1>5, <1>6, <1>7, OperandStep

\* OP_CONSTANT and the literals.
LEMMA PushConstantStep ==
  ASSUME Inductive, NEW v \in Literals, PushConstant(v)
  PROVE  Inductive' /\ CallerSlotsKept
  BY PushStep, LiteralAssumption DEF PushConstant

\* OP_GET_LOCAL: the slot it reads is one of the running frame.
LEMMA GetLocalStep ==
  ASSUME Inductive, NEW n \in Locate, GetLocal(n)
  PROVE  Inductive' /\ CallerSlotsKept
  <1>1. mem.slots \in Seq(Value) /\ n \in 1 .. Len(mem.slots)
    BY DEF Inductive, MemoryOK, Memory, Locate, Capacity
  <1>2. mem.slots[n] \in Value
    BY <1>1, ElementOfSeq
  <1> QED BY <1>2, PushStep DEF GetLocal

\* An instruction that takes one value away.
LEMMA PopStep ==
  ASSUME Inductive, Step(0), Operands >= 1, mem' = [mem EXCEPT !.top = @ - 1],
         openUp' \subseteq openUp, \A p \in openUp' : p.index < mem.top,
         UNCHANGED <<frames, cached, compiled, status>>
  PROVE  Inductive' /\ CallerSlotsKept
  <1>1. MemoryOK(mem) /\ UpvaluesOK(openUp, frames, mem)
    BY DEF Inductive
  <1>2. /\ status = "run" /\ frames # <<>> /\ mem.top \in Nat /\ mem.block \in Nat
        /\ Running.base \in Nat \ {0} /\ Arity[Running.closure] \in Nat
    BY StepFacts
  <1>3. Running.base + Arity[Running.closure] + 1 <= mem.top
    BY <1>2 DEF Operands
  <1>4. mem.top - 1 \in Nat /\ mem.top - 1 <= mem.top
    BY <1>2, <1>3
  <1>5. mem' = [mem EXCEPT !.top = mem.top - 1]
    OBVIOUS
  <1>6. MemoryOK(mem') /\ mem'.top = mem.top - 1 /\ mem'.block = mem.block /\ mem'.slots = mem.slots
    BY <1>1, <1>4, <1>5, Dropped
  <1>7. Running.base + Arity[Running.closure] <= mem'.top /\ mem.block <= mem'.block
    BY <1>2, <1>3, <1>6
  <1>8. UpvaluesOK(openUp', frames, mem')
    <2>1. \A p \in openUp' : p.index <= mem'.top
      BY <1>1, <1>2, <1>6 DEF UpvaluesOK, Pointer
    <2> QED BY <1>1, <1>6, <1>7, <2>1, SameUpvalues
  <1> QED BY <1>2, <1>6, <1>7, <1>8, OperandStep

\* An instruction that assigns to a slot no frame begins with.
LEMMA PutStep ==
  ASSUME Inductive, Step(0), NEW n \in 1 .. mem.top, NEW v \in Value, mem' = Put(mem, n, v),
         \A i \in 1 .. Len(frames) : n # frames[i].base,
         n < Running.base => [block |-> mem.block, index |-> n] \in openUp,
         UNCHANGED <<frames, openUp, cached, compiled, status>>
  PROVE  Inductive' /\ CallerSlotsKept
  <1>1. /\ MemoryOK(mem) /\ FramesOK(frames, mem) /\ UpvaluesOK(openUp, frames, mem)
        /\ ScriptsOK /\ StatusOK
    BY DEF Inductive
  <1>2. /\ frames # <<>> /\ mem.top \in Nat /\ mem.block \in Nat
        /\ mem.top < Len(mem.slots) /\ Len(mem.slots) \in Nat
        /\ Running.base \in Nat \ {0} /\ Arity[Running.closure] \in Nat
        /\ Running.base + Arity[Running.closure] + 0 <= mem.top
        /\ \A p \in openUp : p \in Pointer /\ p.index <= mem.top - 0
    BY StepFacts
  <1>3. n \in 1 .. Len(mem.slots)
    BY <1>2
  <1>4. /\ MemoryOK(mem') /\ mem'.block = mem.block /\ mem'.top = mem.top
        /\ \A i \in 1 .. Len(mem.slots) : mem'.slots[i] = IF i = n THEN v ELSE mem.slots[i]
    BY <1>1, <1>3, PutOK
  <1>5. \A i \in 1 .. Running.base : i \in 1 .. Len(mem.slots)
    BY <1>2
  <1>6. FramesOK(frames, mem')
    <2>1. \A i \in 1 .. Len(frames) : frames[i].base \in 1 .. Running.base
      BY <1>1, <1>2, RunningBase
    <2>2. \A i \in 1 .. Len(frames) : mem'.slots[frames[i].base] = mem.slots[frames[i].base]
      BY <1>4, <1>5, <2>1
    <2>3. mem.block <= mem'.block /\ Running.base + Arity[Running.closure] <= mem'.top
      BY <1>2, <1>4
    <2> QED BY <1>1, <1>2, <1>4, <2>2, <2>3, SameFrames
  <1>7. UpvaluesOK(openUp, frames, mem')
    <2>1. mem.block <= mem'.block /\ \A p \in openUp : p.index <= mem'.top
      BY <1>2, <1>4 DEF Pointer
    <2>2. \A i \in 1 .. Len(frames) : mem'.slots[frames[i].base] = mem.slots[frames[i].base]
      <3>1. \A i \in 1 .. Len(frames) : frames[i].base \in 1 .. Running.base
        BY <1>1, <1>2, RunningBase
      <3> QED BY <1>4, <1>5, <3>1
    <2> QED BY <1>1, <1>4, <2>1, <2>2, SameUpvalues
  <1>8. CallerSlotsKept
    <2> SUFFICES ASSUME NEW i \in 1 .. Running.base - 1
                 PROVE  \/ mem'.slots[i] = mem.slots[i]
                        \/ [block |-> mem.block, index |-> i] \in openUp
      BY DEF CallerSlotsKept
    <2>1. i \in 1 .. Running.base /\ i < Running.base
      BY <1>2
    <2> QED BY <1>4, <1>5, <2>1
  <1>9. ScriptsOK' /\ StatusOK'
    BY <1>1, SameScripts DEF StatusOK
  <1> QED BY <1>4, <1>6, <1>7, <1>8, <1>9, InductiveAfter

\* A slot above the running frame's first is the first of no frame.
LEMMA LocalsApart ==
  ASSUME Inductive, frames # <<>>, NEW n \in Nat, Running.base < n
  PROVE  \A i \in 1 .. Len(frames) : n # frames[i].base
  <1>1. MemoryOK(mem) /\ FramesOK(frames, mem)
    BY DEF Inductive
  <1> QED BY <1>1, RunningBase

\* An instruction with an operand reads a value, and is one without operands.
LEMMA OneOperand ==
  ASSUME Inductive, Step(1)
  PROVE  Peek(0) \in Value /\ Step(0) /\ mem.top \in 1 .. Len(mem.slots)
  <1>1. /\ mem.top \in Nat /\ Len(mem.slots) \in Nat /\ mem.top < Len(mem.slots)
        /\ Running.base \in Nat \ {0} /\ Arity[Running.closure] \in Nat
        /\ Running.base + Arity[Running.closure] + 1 <= mem.top
    BY StepFacts
  <1>2. MemoryOK(mem) /\ 0 < mem.top
    BY <1>1 DEF Inductive
  <1>3. Operands >= 0
    BY <1>1 DEF Operands
  <1>4. \A p \in openUp : p.index <= mem.top - 0
    BY <1>1 DEF Inductive, UpvaluesOK, Pointer
  <1> QED BY <1>1, <1>2, <1>3, <1>4, Peeked DEF Step

\* OP_SET_LOCAL writes above the running frame's first slot.
LEMMA SetLocalStep ==
  ASSUME Inductive, NEW n \in Locate, SetLocal(n)
  PROVE  Inductive' /\ CallerSlotsKept
  <1>1. /\ MemoryOK(mem) /\ Step(1) /\ n \in Running.base + 1 .. mem.top
        /\ mem' = Put(mem, n, Peek(0))
    BY DEF Inductive, SetLocal, Locals, Put
  <1>2. /\ frames # <<>> /\ mem.top \in Nat
        /\ Running.base \in Nat \ {0} /\ Arity[Running.closure] \in Nat
        /\ Running.base + Arity[Running.closure] + 1 <= mem.top
    BY <1>1, StepFacts
  <1>3. Peek(0) \in Value /\ Step(0)
    BY <1>1, OneOperand
  <1>4. n \in 1 .. mem.top /\ n \in Nat /\ Running.base < n /\ ~(n < Running.base)
    BY <1>1, <1>2
  <1>5. \A i \in 1 .. Len(frames) : n # frames[i].base
    BY <1>2, <1>4, LocalsApart
  <1>6. UNCHANGED <<frames, openUp, cached, compiled, status>>
    BY DEF SetLocal
  <1> QED BY <1>1, <1>3, <1>4, <1>5, <1>6, PutStep

\* OP_SET_UPVALUE through an upvalue that is still open.
LEMMA SetUpvalueStep ==
  ASSUME Inductive, NEW p \in openUp, SetUpvalue(p)
  PROVE  Inductive' /\ CallerSlotsKept
  <1>1. /\ MemoryOK(mem) /\ Step(1) /\ p.block = mem.block
        /\ mem' = Put(mem, p.index, Peek(0))
    BY DEF Inductive, SetUpvalue, Valid, Put
  <1>2. /\ frames # <<>> /\ mem.top \in Nat
        /\ Running.base \in Nat \ {0} /\ Arity[Running.closure] \in Nat
        /\ Running.base + Arity[Running.closure] + 1 <= mem.top
    BY <1>1, StepFacts
  <1>3. Peek(0) \in Value /\ Step(0)
    BY <1>1, OneOperand
  <1>4. /\ p \in Pointer /\ p.index \in 1 .. mem.top
        /\ \A i \in 1 .. Len(frames) : p.index # frames[i].base
    <2>1. p \in Pointer /\ p.index \in 1 .. mem.top
      BY <1>2 DEF Inductive, UpvaluesOK, Pointer
    <2>2. \A i \in 1 .. Len(frames) : p.index = frames[i].base => mem.slots[p.index] = "instance"
      BY DEF Inductive, UpvaluesOK
    <2>3. DOMAIN frames = 1 .. Len(frames)
      BY DEF Inductive, FramesOK
    <2> QED BY <2>1, <2>2, <2>3 DEF SetUpvalue, IsThis
  <1>5. p = [block |-> mem.block, index |-> p.index]
    BY <1>1, <1>4 DEF Pointer
  <1>6. UNCHANGED <<frames, openUp, cached, compiled, status>>
    BY DEF SetUpvalue
  <1> QED BY <1>1, <1>3, <1>4, <1>5, <1>6, PutStep

\* OP_POP of a slot that no open upvalue is on.
LEMMA OpPopStep ==
  ASSUME Inductive, Pop
  PROVE  Inductive' /\ CallerSlotsKept
  <1>1. Step(1) /\ Operands >= 1
    BY DEF Pop, Step
  <1>2. \A p \in openUp : p.index < mem.top
    BY <1>1, StepFacts DEF Pointer
  <1>3. Step(0)
    BY <1>1, OneOperand
  <1> QED BY <1>1, <1>2, <1>3, PopStep DEF Pop

\* OP_CLOSE_UPVALUE: the upvalue goes with the slot.
LEMMA CloseUpvalueStep ==
  ASSUME Inductive, CloseUpvalue
  PROVE  Inductive' /\ CallerSlotsKept
  BY PopStep DEF CloseUpvalue, OpenBelow

\* The new upvalue points into the running frame, to its first slot only if that
\* is `this`.
LEMMA CaptureUpvalueStep ==
  ASSUME Inductive, NEW n \in Locate, CaptureUpvalue(n)
  PROVE  Inductive' /\ CallerSlotsKept
  <1> DEFINE p == [block |-> Running.block, index |-> n]
  <1>1. /\ MemoryOK(mem) /\ FramesOK(frames, mem) /\ UpvaluesOK(openUp, frames, mem)
        /\ Step(0) /\ n \in Running.base .. mem.top /\ (n = Running.base => IsThis(n))
        /\ openUp' = openUp \union {p}
        /\ UNCHANGED <<mem, frames, cached, compiled, status>>
    BY DEF Inductive, CaptureUpvalue, Named
  <1>2. /\ status = "run" /\ frames # <<>> /\ mem.top \in Nat /\ mem.block \in Nat
        /\ Running.base \in Nat \ {0} /\ Arity[Running.closure] \in Nat
        /\ Running.base + Arity[Running.closure] + 0 <= mem.top
    BY <1>1, StepFacts
  <1>3. n \in Nat /\ n \in 1 .. mem.top /\ Running.base <= n
    BY <1>1, <1>2
  <1>4. Running.block \in Nat /\ Running.block <= mem.block
    BY <1>1, <1>2, RunningBase
  <1>5. \A i \in 1 .. Len(frames) : n = frames[i].base => mem.slots[n] = "instance"
    <2>1. CASE n = Running.base
      BY <1>1, <2>1 DEF IsThis
    <2>2. CASE n # Running.base
      <3>1. Running.base < n
        BY <1>2, <1>3, <2>2
      <3> QED BY <1>2, <1>3, <3>1, LocalsApart
    <2> QED BY <2>1, <2>2
  <1>6. p \in Pointer /\ p.block = Running.block /\ p.index = n
    BY <1>3, <1>4 DEF Pointer
  <1> HIDE DEF p
  <1>7. UpvaluesOK(openUp', frames, mem')
    BY <1>1, <1>3, <1>4, <1>5, <1>6 DEF UpvaluesOK
  <1>8. /\ MemoryOK(mem') /\ mem.block <= mem'.block
        /\ Running.base + Arity[Running.closure] <= mem'.top
    BY <1>1, <1>2
  <1> QED BY <1>1, <1>2, <1>7, <1>8, OperandStep

\* A return drops the frame's slots and leaves its result where the callee was;
\* the upvalues that stay open lie below.
LEMMA ReturnStep ==
  ASSUME Inductive, Return
  PROVE  Inductive' /\ CallerSlotsKept
  <1>1. /\ MemoryOK(mem) /\ FramesOK(frames, mem) /\ UpvaluesOK(openUp, frames, mem)
        /\ ScriptsOK /\ StatusOK /\ Step(1)
        /\ UNCHANGED <<cached, compiled>>
    BY DEF Inductive, Return
  <1>2. /\ status = "run" /\ frames # <<>> /\ mem.top \in Nat /\ mem.block \in Nat
        /\ Len(mem.slots) \in Nat /\ mem.top < Len(mem.slots)
        /\ Running.base \in Nat \ {0} /\ Arity[Running.closure] \in Nat
        /\ Running.base + Arity[Running.closure] + 1 <= mem.top
    BY <1>1, StepFacts
  <1>3. CASE EndLine
    <2>1. ScriptsOK'
      BY <1>1, SameScripts
    <2> QED BY <1>1, <1>3, <2>1, Resets DEF EndLine
  <1>4. CASE /\ Len(frames) > 1
             /\ mem' = [mem EXCEPT !.slots[Running.base] = Peek(0), !.top = Running.base]
             /\ openUp' = OpenBelow(Running.base)
             /\ frames' = Front(frames)
             /\ UNCHANGED status
    <2> DEFINE b == Running.base
               len == Len(frames) - 1
    <2>1. Peek(0) \in Value /\ b \in 1 .. Len(mem.slots) /\ b \in Nat
      BY <1>1, <1>2, OneOperand
    <2>2. mem' = Assigned(mem, b, Peek(0), b)
      BY <1>4, Zenon DEF Assigned
    <2>3. mem \in Memory
      BY <1>1 DEF MemoryOK
    <2> HIDE DEF b
    <2>4. /\ mem' \in Memory /\ mem'.block = mem.block /\ mem'.top = b
          /\ Len(mem'.slots) = Len(mem.slots)
          /\ \A i \in 1 .. Len(mem.slots) : mem'.slots[i] = IF i = b THEN Peek(0) ELSE mem.slots[i]
      BY <2>1, <2>2, <2>3, SlotAssigned
    <2>5. b < Len(mem.slots)
      BY <1>2 DEF b
    <2>6. MemoryOK(mem')
      BY <2>4, <2>5 DEF MemoryOK
    <2>7. \A i \in 1 .. b - 1 : mem'.slots[i] = mem.slots[i]
      BY <1>2, <2>1, <2>4
    <2>8. /\ frames' \in Seq(FrameRecord) /\ len \in Nat \ {0} /\ Len(frames') = len
          /\ \A i \in 1 .. len : frames'[i] = frames[i] /\ i \in 1 .. Len(frames) /\ i < Len(frames)
      <3>1. frames \in Seq(FrameRecord) /\ Len(frames) \in Nat
        BY <1>1 DEF FramesOK
      <3>2. \A i \in 1 .. len : frames[i] \in FrameRecord /\ i \in 1 .. Len(frames) /\ i < Len(frames)
        BY <3>1
      <3>3. len \in Nat \ {0} /\ frames' = SubSeq(frames, 1, len)
        BY <1>4, <3>1 DEF Front
      <3> HIDE DEF len
      <3> QED BY <3>2, <3>3, SubSeqProperties
    <2>9. ASSUME NEW i \in 1 .. len
          PROVE  OnStack(frames'[i], mem')
      <3>1. /\ OnStack(frames[i], mem) /\ frames[i].base \in Nat /\ frames[i].block \in Nat
            /\ Arity[frames[i].closure] \in Nat
            /\ frames[i].base + Arity[frames[i].closure] < b
        <4>1. i \in 1 .. Len(frames) /\ i < Len(frames)
          BY <2>8
        <4> QED BY <1>1, <1>2, <4>1, RunningBase DEF FramesOK, FrameRecord, b
      <3>2. frames[i].base \in 1 .. b - 1
        BY <2>1, <3>1 DEF OnStack
      <3>3. mem'.slots[frames[i].base] = mem.slots[frames[i].base]
        BY <2>7, <3>2
      <3>4. frames[i].base + Arity[frames[i].closure] <= mem'.top
        BY <2>1, <2>4, <3>1
      <3>5. frames'[i] = frames[i]
        BY <2>8
      <3> QED BY <2>4, <3>1, <3>3, <3>4, <3>5 DEF OnStack
    <2>10. Nested(frames')
      <3> SUFFICES ASSUME NEW i \in 1 .. len, NEW j \in 1 .. len, i < j
                   PROVE  frames'[i].base + Arity[frames'[i].closure] < frames'[j].base
        BY <2>8 DEF Nested
      <3>1. frames'[i] = frames[i] /\ i \in 1 .. Len(frames)
        BY <2>8
      <3>2. frames'[j] = frames[j] /\ j \in 1 .. Len(frames)
        BY <2>8
      <3>3. Nested(frames)
        BY <1>1 DEF FramesOK
      <3> QED BY <3>1, <3>2, <3>3 DEF Nested
    <2>11. FramesOK(frames', mem')
      <3>1. Len(frames') <= FrameMax
        BY <1>1, <2>8, SizeAssumption DEF FramesOK
      <3> QED BY <2>8, <2>9, <2>10, <3>1 DEF FramesOK
    <2>12. UpvaluesOK(openUp', frames', mem')
      <3>1. openUp' \subseteq openUp /\ \A p \in openUp' : p.index < b
        BY <1>4 DEF OpenBelow, b
      <3>2. \A p \in openUp' : p \in Pointer /\ p.block <= mem.block /\ 1 <= p.index
        BY <1>1, <3>1 DEF UpvaluesOK
      <3>3. ASSUME NEW p \in openUp', NEW i \in 1 .. len, p.index = frames'[i].base
            PROVE  mem'.slots[p.index] = "instance"
        <4>1. p \in openUp /\ p.index \in 1 .. b - 1
          BY <2>1, <3>1, <3>2 DEF Pointer
        <4>2. mem.slots[p.index] = "instance"
          BY <1>1, <2>8, <3>3, <4>1 DEF UpvaluesOK
        <4> QED BY <2>7, <4>1, <4>2
      <3> QED BY <2>1, <2>4, <2>8, <3>1, <3>2, <3>3 DEF UpvaluesOK, Pointer
    <2>13. StatusOK'
      <3>1. frames' # <<>>
        BY <2>8
      <3> QED BY <1>2, <1>4, <3>1 DEF StatusOK
    <2>14. ScriptsOK'
      BY <1>1, SameScripts
    <2>15. CallerSlotsKept
      BY <2>7 DEF CallerSlotsKept, b
    <2> QED BY <2>6, <2>11, <2>12, <2>13, <2>14, <2>15, InductiveAfter
  <1> QED BY <1>3, <1>4 DEF Return

-----------------------------------------------------------------------------
(* The steps that call *)

\* OP_CALL of a closure: the new frame lies above the running one.
LEMMA CallClosureStep ==
  ASSUME Inductive, NEW argc \in 0 .. MaxArgs, CallClosure(argc)
  PROVE  Inductive' /\ CallerSlotsKept
  <1>1. argc \in Nat /\ argc + 1 \in Nat /\ Step(argc + 1) /\ MemoryOK(mem)
    BY SizeAssumption DEF CallClosure, Inductive
  <1>2. mem.slots[mem.top - argc] = Peek(argc) /\ Peek(argc) \in Closures
    BY DEF CallClosure, Peek
  <1>3. CallOrFail(mem, Peek(argc), argc)
    BY DEF CallClosure
  <1> QED BY <1>1, <1>2, <1>3, CallStep

\* An operand replaced: a receiver takes the slot of the callee.
LEMMA OperandReplaced ==
  ASSUME Inductive, NEW d \in Nat, Step(d + 1), NEW v \in Value
  PROVE  LET x == Replace(mem, d, v) IN
         /\ MemoryOK(x) /\ x.block = mem.block /\ x.top = mem.top
         /\ x.slots[mem.top - d] = v
         /\ \A i \in 1 .. Running.base : x.slots[i] = mem.slots[i]
  <1>1. d + 1 \in Nat
    OBVIOUS
  <1>2. /\ mem.top \in Nat /\ mem.top < Len(mem.slots) /\ Len(mem.slots) \in Nat
        /\ Running.base \in Nat \ {0} /\ Arity[Running.closure] \in Nat
        /\ Running.base + Arity[Running.closure] + (d + 1) <= mem.top
    BY <1>1, StepFacts
  <1>3. MemoryOK(mem) /\ d < mem.top
    BY <1>2 DEF Inductive
  <1>4. LET x == Replace(mem, d, v) IN
        /\ MemoryOK(x) /\ x.block = mem.block /\ x.top = mem.top
        /\ \A i \in 1 .. Len(mem.slots) : x.slots[i] = IF i = mem.top - d THEN v ELSE mem.slots[i]
    BY <1>3, Replaced
  <1>5. mem.top - d \in 1 .. Len(mem.slots)
    BY <1>2
  <1>6. \A i \in 1 .. Running.base : i \in 1 .. Len(mem.slots) /\ i # mem.top - d
    BY <1>2
  <1> HIDE DEF Replace
  <1> QED BY <1>4, <1>5, <1>6

\* OP_CALL of a bound method or a class: the callee's slot is the receiver's.
LEMMA CallMethodStep ==
  ASSUME Inductive, NEW argc \in 0 .. MaxArgs, NEW c \in Functions, CallMethod(argc, c)
  PROVE  Inductive' /\ CallerSlotsKept
  <1> DEFINE m == Replace(mem, argc, "instance")
  <1>1. argc \in Nat /\ Step(argc + 1) /\ c \in Closures /\ "instance" \in Value
    BY SizeAssumption DEF CallMethod, Closures, Value
  <1>2. /\ MemoryOK(m) /\ m.block = mem.block /\ m.top = mem.top
        /\ m.slots[mem.top - argc] = "instance"
        /\ \A i \in 1 .. Running.base : m.slots[i] = mem.slots[i]
    BY <1>1, OperandReplaced
  <1>3. CallOrFail(m, c, argc)
    BY DEF CallMethod
  <1> HIDE DEF m
  <1> QED BY <1>1, <1>2, <1>3, CallStep

\* OP_CALL of a class without an initializer: no frame.
LEMMA CallPlainClassStep ==
  ASSUME Inductive, CallPlainClass
  PROVE  Inductive' /\ CallerSlotsKept
  <1>1. /\ Step(0 + 1) /\ mem' = Replace(mem, 0, "instance") /\ "instance" \in Value
        /\ UNCHANGED <<frames, openUp, cached, compiled, status>>
    BY DEF CallPlainClass, Value
  <1>2. /\ MemoryOK(mem') /\ mem'.block = mem.block /\ mem'.top = mem.top
        /\ \A i \in 1 .. Running.base : mem'.slots[i] = mem.slots[i]
    BY <1>1, OperandReplaced
  <1>3. /\ status = "run" /\ frames # <<>> /\ mem.top \in Nat /\ mem.block \in Nat
        /\ Running.base \in Nat \ {0} /\ Arity[Running.closure] \in Nat
        /\ Running.base + Arity[Running.closure] + (0 + 1) <= mem.top
        /\ \A p \in openUp : p \in Pointer /\ p.index <= mem.top - (0 + 1)
    BY <1>1, StepFacts
  <1>4. Running.base + Arity[Running.closure] <= mem'.top /\ mem.block <= mem'.block
    BY <1>2, <1>3
  <1>5. UpvaluesOK(openUp', frames, mem')
    <2>1. MemoryOK(mem) /\ UpvaluesOK(openUp, frames, mem)
      BY DEF Inductive
    <2>2. \A p \in openUp : p.index <= mem'.top
      BY <1>2, <1>3 DEF Pointer
    <2>3. FramesOK(frames, mem) /\ frames # <<>>
      BY <1>1, StepFacts DEF Inductive
    <2>4. \A i \in 1 .. Len(frames) : mem'.slots[frames[i].base] = mem.slots[frames[i].base]
      BY <1>2, <2>1, <2>3, RunningBase
    <2> QED BY <1>1, <1>2, <1>4, <2>1, <2>2, <2>4, SameUpvalues
  <1> QED BY <1>1, <1>2, <1>3, <1>4, <1>5, OperandStep

\* A native whose values do not fit: the stack is reset, and its result put where
\* the callee was.
LEMMA NativeAtLimit ==
  ASSUME Inductive, NEW argc \in 0 .. MaxArgs, NEW n \in 0 .. 1, NEW v \in Literals,
         CallNative(argc, n, v), ~Fits(n)
  PROVE  Inductive' /\ CallerSlotsKept
  <1> DEFINE m == Reset(mem)
             t == mem.top - argc
             s == [m.slots EXCEPT ![t] = v]
  <1>1. /\ argc \in Nat /\ argc + 1 \in Nat /\ v \in Value /\ Step(argc + 1)
        /\ mem' = NativeResult(m, argc, v) /\ frames' = <<>> /\ openUp' = {}
        /\ UNCHANGED <<cached, compiled, status>>
    BY SizeAssumption, LiteralAssumption DEF CallNative
  <1>2. /\ status = "run" /\ mem.top \in Nat /\ mem.top < Len(mem.slots) /\ Len(mem.slots) \in Nat
        /\ Running.base \in Nat \ {0} /\ Arity[Running.closure] \in Nat
        /\ Running.base + Arity[Running.closure] + (argc + 1) <= mem.top
    BY <1>1, StepFacts
  <1>3. MemoryOK(mem) /\ ScriptsOK
    BY DEF Inductive
  <1>4. MemoryOK(m) /\ Len(m.slots) = Len(mem.slots)
    <2>1. mem \in Memory /\ Len(mem.slots) \in Nat
      BY <1>2, <1>3 DEF MemoryOK
    <2>2. m.slots = [i \in 1 .. Len(mem.slots) |-> "nil"]
      BY <2>1 DEF Reset, Capacity, Memory
    <2> QED BY <1>3, <2>1, <2>2, ResetOK
  <1> HIDE DEF m
  <1>5. t \in Nat /\ t \in 1 .. Len(m.slots) /\ t < Len(m.slots)
    BY <1>1, <1>2, <1>4
  <1>6. m \in Memory /\ m.slots \in Seq(Value)
    BY <1>4 DEF MemoryOK, Memory
  <1>7. mem' = [m EXCEPT !.top = t, !.slots = s]
    BY <1>1, Zenon DEF NativeResult
  <1> HIDE DEF t
  <1>8. s \in Seq(Value) /\ Len(s) = Len(m.slots)
    BY <1>1, <1>5, <1>6, ExceptSeq
  <1> HIDE DEF s
  <1>9. mem' \in Memory /\ mem'.slots = s /\ mem'.top = t
    BY <1>5, <1>6, <1>7, <1>8 DEF Memory
  <1>10. MemoryOK(mem')
    BY <1>5, <1>8, <1>9 DEF MemoryOK
  <1>11. FramesOK(frames', mem') /\ UpvaluesOK(openUp', frames', mem')
    BY <1>1, NoFrames DEF UpvaluesOK
  <1>12. ScriptsOK' /\ StatusOK' /\ CallerSlotsKept
    BY <1>1, <1>2, <1>3, SameScripts DEF StatusOK, CallerSlotsKept
  <1> QED BY <1>10, <1>11, <1>12, InductiveAfter

\* A native: the values it pushed are dropped with its arguments, unless the
\* stack has moved.
LEMMA CallNativeStep ==
  ASSUME Inductive, NEW argc \in 0 .. MaxArgs, NEW n \in 0 .. 1, NEW v \in Literals,
         CallNative(argc, n, v)
  PROVE  Inductive' /\ CallerSlotsKept
  <1> SUFFICES ASSUME Fits(n) PROVE Inductive' /\ CallerSlotsKept
    BY NativeAtLimit
  <1>1. /\ argc \in Nat /\ argc + 1 \in Nat /\ n \in Nat /\ v \in Value /\ Step(argc + 1)
        /\ UNCHANGED <<frames, openUp, cached, compiled>>
    BY SizeAssumption, LiteralAssumption DEF CallNative
  <1>2. /\ status = "run" /\ frames # <<>> /\ mem.top \in Nat /\ mem.block \in Nat
        /\ Running.base \in Nat \ {0} /\ Arity[Running.closure] \in Nat
        /\ Running.base + Arity[Running.closure] + (argc + 1) <= mem.top
        /\ \A p \in openUp : p \in Pointer /\ p.index <= mem.top - (argc + 1)
    BY <1>1, StepFacts
  <1>3. MemoryOK(mem) /\ UpvaluesOK(openUp, frames, mem)
    BY DEF Inductive
  <1>4. PICK m \in PushNils(mem, n) :
          IF m.block = mem.block
          THEN mem' = NativeResult(m, argc, v) /\ UNCHANGED status
          ELSE mem' = m /\ status' = "undefined"
    BY DEF CallNative
  <1>5. MemoryOK(m) /\ Extends(m, mem, n)
    BY <1>1, <1>3, <1>4, NilsKeep
  <1>6. /\ m \in Memory /\ m.slots \in Seq(Value) /\ m.top \in Nat /\ m.block \in Nat /\ Len(m.slots) \in Nat
        /\ m.top < Len(m.slots) /\ m.top = mem.top + n /\ mem.block <= m.block
    BY <1>5 DEF MemoryOK, Memory, Extends
  <1>7. \A i \in 1 .. Running.base : i \in 1 .. mem.top /\ i < mem.top - argc
    BY <1>1, <1>2
  <1>8. CASE m.block = mem.block
    <2> DEFINE t == mem.top - argc
               s == [m.slots EXCEPT ![t] = v]
    <2>1. t \in 1 .. Len(m.slots) /\ t \in Nat /\ t <= m.top
      <3>1. t \in 1 .. mem.top
        BY <1>1, <1>2
      <3>2. mem.top <= m.top /\ mem.top <= Len(m.slots)
        BY <1>1, <1>2, <1>6
      <3> HIDE DEF t
      <3> QED BY <1>2, <1>6, <3>1, <3>2
    <2>2. mem' = [m EXCEPT !.top = t, !.slots = s] /\ UNCHANGED status
      BY <1>4, <1>8, Zenon DEF NativeResult
    <2>3. /\ s \in Seq(Value) /\ Len(s) = Len(m.slots)
          /\ \A i \in 1 .. Len(m.slots) : s[i] = IF i = t THEN v ELSE m.slots[i]
      <3> HIDE DEF t
      <3> QED BY <1>1, <1>6, <2>1, ExceptSeq
    <2> HIDE DEF s, t
    <2>4. mem' \in Memory /\ mem'.slots = s /\ mem'.top = t /\ mem'.block = m.block
      BY <1>6, <2>1, <2>2, <2>3 DEF Memory
    <2>5. MemoryOK(mem')
      BY <1>6, <2>1, <2>3, <2>4 DEF MemoryOK
    <2>6. ASSUME NEW i \in 1 .. Running.base
          PROVE  mem'.slots[i] = mem.slots[i]
      <3>1. i \in 1 .. Len(m.slots) /\ i # t /\ i \in 1 .. mem.top
        <4>1. i \in 1 .. mem.top /\ i < t
          BY <1>7 DEF t
        <4>2. mem.top <= Len(m.slots)
          BY <1>1, <1>2, <1>6
        <4> QED BY <1>2, <1>6, <2>1, <4>1, <4>2
      <3> QED BY <1>5, <2>3, <2>4, <3>1 DEF Extends
    <2>7. Running.base + Arity[Running.closure] <= mem'.top /\ mem.block <= mem'.block
      <3>1. Running.base + Arity[Running.closure] <= t
        BY <1>1, <1>2 DEF t
      <3> QED BY <1>6, <2>4, <3>1
    <2>8. UpvaluesOK(openUp', frames, mem')
      <3>1. \A p \in openUp : p.index <= mem'.top
        BY <1>1, <1>2, <2>4 DEF Pointer, t
      <3>2. FramesOK(frames, mem) /\ frames # <<>>
        BY <1>1, StepFacts DEF Inductive
      <3>3. \A i \in 1 .. Len(frames) : mem'.slots[frames[i].base] = mem.slots[frames[i].base]
        BY <1>3, <2>6, <3>2, RunningBase
      <3> QED BY <1>1, <1>3, <2>5, <2>7, <3>1, <3>3, SameUpvalues
    <2> QED BY <1>1, <1>2, <2>2, <2>5, <2>6, <2>7, <2>8, OperandStep
  <1>9. CASE m.block # mem.block
    <2>1. mem' = m /\ status' = "undefined"
      BY <1>4, <1>9
    <2>2. UpvaluesOK(openUp', frames, mem')
      BY <1>1, <1>3, <1>5, <2>1, UpvaluesExtended
    <2>3. \A i \in 1 .. Running.base : mem'.slots[i] = mem.slots[i]
      BY <1>5, <1>7, <2>1 DEF Extends
    <2>4. Running.base + Arity[Running.closure] <= mem'.top
      BY <1>1, <1>2, <1>6, <2>1
    <2> QED BY <1>1, <1>2, <1>5, <1>6, <2>1, <2>2, <2>3, <2>4, OperandStep
  <1> QED BY <1>8, <1>9

\* A read through a pointer into a block that was freed ends the run.
LEMMA UseStaleStep ==
  ASSUME Inductive, UseStale
  PROVE  Inductive' /\ CallerSlotsKept
  <1>1. Step(0) /\ status' = "undefined" /\ UNCHANGED <<mem, frames, openUp, cached, compiled>>
    BY DEF UseStale
  <1> QED BY <1>1 DEF Step, Inductive, MemoryOK, FramesOK, UpvaluesOK, OnStack, Nested,
                      ScriptsOK, StatusOK, CallerSlotsKept

\* OP_IMPORT of a file that cannot be read: the process exits.
LEMMA ImportMissingStep ==
  ASSUME Inductive, ImportMissing
  PROVE  Inductive' /\ CallerSlotsKept
  <1>1. Step(1) /\ status' = "exit" /\ UNCHANGED <<mem, frames, openUp, cached, compiled>>
    BY DEF ImportMissing
  <1> QED BY <1>1 DEF Step, Inductive, MemoryOK, FramesOK, UpvaluesOK, OnStack, Nested,
                      ScriptsOK, StatusOK, CallerSlotsKept

-----------------------------------------------------------------------------
(* OP_IMPORT *)

\* Compiling a script leaves on the stack what was there.
LEMMA CompilingKeeps ==
  ASSUME MemoryOK(mem), NEW path, NEW m \in AfterCompiling(path)
  PROVE  MemoryOK(m) /\ Extends(m, mem, 0)
  <1>1. mem.top \in Nat /\ mem.block \in Nat /\ Len(mem.slots) \in Nat
    BY DEF MemoryOK, Memory
  <1>2. CASE path \in cached
    BY <1>1, <1>2 DEF AfterCompiling, Extends
  <1>3. CASE path \notin cached
    <2>1. PICK x \in Push(mem, "string") : m = [x EXCEPT !.top = mem.top]
      BY <1>3 DEF AfterCompiling
    <2>2. MemoryOK(x) /\ Extends(x, mem, 1)
      BY PushKeeps DEF Value
    <2>3. mem.top <= x.top
      BY <1>1, <2>2 DEF Extends
    <2>4. MemoryOK(m) /\ m.top = mem.top /\ m.block = x.block /\ m.slots = x.slots
      BY <1>1, <2>1, <2>2, <2>3, Dropped
    <2> QED BY <1>1, <2>2, <2>4 DEF Extends
  <1> QED BY <1>2, <1>3

\* getCachedScript counts a compilation and caches its path together.
LEMMA CacheStep ==
  ASSUME ScriptsOK, NEW path \in Modules, Cache(path)
  PROVE  ScriptsOK'
  BY DEF ScriptsOK, Cache

\* OP_IMPORT that ends in a reset: the file does not compile, what the compiler
\* pushes does not fit, or no frame is left.
LEMMA ImportResets ==
  ASSUME Inductive, NEW path \in Modules,
         ImportError(path) \/ CompileAtLimit(path) \/ ImportAtLimit(path)
  PROVE  Inductive' /\ CallerSlotsKept
  <1>1. MemoryOK(mem) /\ ScriptsOK
    BY DEF Inductive
  <1>2. \A m \in AfterCompiling(path) : MemoryOK(m)
    BY <1>1, CompilingKeeps
  <1>3. CASE ImportError(path)
    <2>1. PICK m \in {mem} \union AfterCompiling(path) : ResetAs(m, "ready")
      BY <1>3 DEF ImportError
    <2>2. MemoryOK(m) /\ UNCHANGED <<cached, compiled>>
      BY <1>1, <1>2, <1>3 DEF ImportError
    <2> QED BY <1>1, <2>1, <2>2, Resets, SameScripts
  <1>4. CASE CompileAtLimit(path)
    BY <1>1, <1>4, Resets, SameScripts DEF CompileAtLimit
  <1>5. CASE ImportAtLimit(path)
    <2>1. PICK m \in AfterCompiling(path) : ResetAs(m, "run")
      BY <1>5 DEF ImportAtLimit
    <2>2. MemoryOK(m) /\ ScriptsOK'
      BY <1>1, <1>2, <1>5, CacheStep DEF ImportAtLimit
    <2> QED BY <2>1, <2>2, Resets
  <1> QED BY <1>3, <1>4, <1>5

\* A push that does not fit resets the stack.
LEMMA PushAtLimitStep ==
  ASSUME Inductive, PushAtLimit
  PROVE  Inductive' /\ CallerSlotsKept
  <1>1. MemoryOK(mem) /\ ScriptsOK'
    BY SameScripts DEF Inductive, PushAtLimit
  <1> QED BY <1>1, Resets DEF PushAtLimit

\* The closure of the script replaces its path and is called like any other.
LEMMA ImportStep ==
  ASSUME Inductive, NEW path \in Modules, Import(path)
  PROVE  Inductive' /\ CallerSlotsKept
  <1>1. /\ MemoryOK(mem) /\ FramesOK(frames, mem) /\ UpvaluesOK(openUp, frames, mem)
        /\ ScriptsOK /\ StatusOK /\ Step(1) /\ ~CallFails(path, 0) /\ Cache(path)
        /\ UNCHANGED <<openUp, status>>
    BY DEF Inductive, Import
  <1>2. /\ status = "run" /\ frames # <<>> /\ mem.top \in Nat /\ mem.block \in Nat
        /\ Len(mem.slots) \in Nat /\ mem.top < Len(mem.slots)
        /\ Running.base \in Nat \ {0} /\ Arity[Running.closure] \in Nat
        /\ Running.base + Arity[Running.closure] + 1 <= mem.top
        /\ \A p \in openUp : p \in Pointer /\ p.index <= mem.top - 1
    BY <1>1, StepFacts
  <1>3. path \in Closures /\ path \in Value /\ Arity[path] = 0
    BY ArityAssumption DEF Closures, Value
  <1>4. PICK m \in AfterCompiling(path) : Call(Replace(m, 0, path), path, 0)
    BY DEF Import
  <1>5. MemoryOK(m) /\ Extends(m, mem, 0)
    BY <1>1, <1>4, CompilingKeeps
  <1>6. /\ m.top = mem.top /\ mem.block <= m.block /\ Len(mem.slots) <= Len(m.slots)
        /\ Len(m.slots) \in Nat /\ m.block \in Nat
        /\ \A i \in 1 .. mem.top : m.slots[i] = mem.slots[i]
    BY <1>2, <1>5 DEF Extends, MemoryOK, Memory
  <1> DEFINE x == Replace(m, 0, path)
  <1>7. /\ MemoryOK(x) /\ x.block = m.block /\ x.top = mem.top
        /\ \A i \in 1 .. Len(m.slots) : x.slots[i] = IF i = mem.top - 0 THEN path ELSE m.slots[i]
    <2>1. 0 < m.top
      BY <1>2, <1>6
    <2> QED BY <1>3, <1>5, <1>6, <2>1, Replaced
  <1> HIDE DEF x
  <1>8. ASSUME NEW i \in 1 .. Running.base
        PROVE  i \in 1 .. mem.top /\ x.slots[i] = mem.slots[i]
    <2>1. i \in 1 .. mem.top /\ i \in 1 .. Len(m.slots) /\ i # mem.top - 0
      <3>1. i \in 1 .. mem.top /\ i # mem.top
        BY <1>2
      <3> QED BY <1>2, <1>6, <3>1
    <2> QED BY <1>6, <1>7, <2>1
  <1>9. x.slots[x.top - 0] \in {path, "instance"}
    <2>1. mem.top \in 1 .. Len(m.slots) /\ mem.top - 0 = mem.top
      BY <1>2, <1>6
    <2> QED BY <1>7, <2>1
  <1>10. FramesOK(frames, x)
    <2>1. \A i \in 1 .. Len(frames) : frames[i].base \in 1 .. Running.base
      BY <1>1, <1>2, RunningBase
    <2>2. mem.block <= x.block /\ Running.base + Arity[Running.closure] <= x.top
      BY <1>2, <1>6, <1>7
    <2> QED BY <1>1, <1>2, <1>7, <1>8, <2>1, <2>2, SameFrames
  <1>11. UpvaluesOK(openUp, frames, x)
    <2>1. mem.block <= x.block /\ \A p \in openUp : p.index <= x.top
      BY <1>2, <1>6, <1>7 DEF Pointer
    <2>2. \A i \in 1 .. Len(frames) : x.slots[frames[i].base] = mem.slots[frames[i].base]
      <3>1. \A i \in 1 .. Len(frames) : frames[i].base \in 1 .. Running.base
        BY <1>1, <1>2, RunningBase
      <3> QED BY <1>8, <3>1
    <2> QED BY <1>1, <1>7, <2>1, <2>2, SameUpvalues
  <1>12. /\ \A i \in 1 .. Len(frames) : frames[i].base + Arity[frames[i].closure] < x.top - 0
         /\ \A p \in openUp : p.index < x.top - 0
    <2>1. Running.base + Arity[Running.closure] < mem.top /\ x.top - 0 = mem.top
      BY <1>2, <1>7
    <2>2. \A p \in openUp : p.index < mem.top
      BY <1>2 DEF Pointer
    <2> QED BY <1>1, <1>2, <2>1, <2>2, FramesBelow
  <1>13. Len(frames) < FrameMax /\ 0 <= Arity[path] /\ 0 < x.top
    <2>1. Len(frames) \in Nat /\ Len(frames) <= FrameMax
      BY <1>1 DEF FramesOK
    <2> QED BY <1>1, <1>2, <1>3, <1>7, <2>1, SizeAssumption DEF CallFails
  <1>14. /\ MemoryOK(mem') /\ Extends(mem', x, Arity[path] - 0)
         /\ FramesOK(frames', mem') /\ frames' # <<>>
         /\ UpvaluesOK(openUp, frames', mem')
    BY <1>3, <1>4, <1>7, <1>9, <1>10, <1>11, <1>12, <1>13, Called DEF x
  <1>15. CallerSlotsKept
    <2>1. \A i \in 1 .. Running.base - 1 : i \in 1 .. Running.base
      BY <1>2
    <2>2. \A i \in 1 .. Running.base - 1 : mem'.slots[i] = mem.slots[i]
      BY <1>7, <1>8, <1>14, <2>1 DEF Extends
    <2> QED BY <2>2 DEF CallerSlotsKept
  <1>16. ScriptsOK' /\ StatusOK'
    BY <1>1, <1>2, <1>14, CacheStep DEF StatusOK
  <1> QED BY <1>1, <1>14, <1>15, <1>16, InductiveAfter

-----------------------------------------------------------------------------
(* The theorems *)

\* The invariant holds of an empty stack.
LEMMA InductiveInit == Init => Inductive
  <1> SUFFICES ASSUME Init PROVE Inductive
    OBVIOUS
  <1> DEFINE nils == [i \in 1 .. InitialSize |-> "nil"]
  <1>1. /\ mem = [block |-> 0, top |-> 0, slots |-> nils] /\ frames = <<>> /\ openUp = {}
        /\ cached = {} /\ compiled = [m \in Modules |-> 0] /\ status = "ready"
    BY DEF Init
  <1>2. nils \in Seq(Value) /\ Len(nils) = InitialSize /\ InitialSize \in Nat /\ 0 < InitialSize
    <2>1. "nil" \in Value
      BY DEF Value
    <2> QED BY <2>1, SizeAssumption
  <1> HIDE DEF nils
  <1>3. MemoryOK(mem)
    BY <1>1, <1>2 DEF MemoryOK, Memory
  <1>4. FramesOK(frames, mem)
    BY <1>1, NoFrames
  <1> QED BY <1>1, <1>3, <1>4 DEF Inductive, UpvaluesOK, ScriptsOK, StatusOK

\* Every step keeps the invariant and the slots of the callers.
LEMMA InductiveNext ==
  ASSUME Inductive, [Next]_vars
  PROVE  Inductive' /\ (CallerSlotsKept \/ UNCHANGED vars)
  <1>1. CASE UNCHANGED vars
    BY <1>1 DEF vars, Inductive, MemoryOK, FramesOK, UpvaluesOK, OnStack, Nested,
                ScriptsOK, StatusOK
  <1>2. ASSUME NEW f \in Functions, Interpret(f)
        PROVE  Inductive' /\ CallerSlotsKept
    BY <1>2, InterpretStep
  <1>3. CASE RuntimeError
    BY <1>3, RuntimeErrorStep
  <1>4. ASSUME NEW v \in Literals, PushConstant(v)
        PROVE  Inductive' /\ CallerSlotsKept
    BY <1>4, PushConstantStep
  <1>5. CASE Pop
    BY <1>5, OpPopStep
  <1>6. ASSUME NEW n \in Locate, GetLocal(n) \/ SetLocal(n) \/ CaptureUpvalue(n)
        PROVE  Inductive' /\ CallerSlotsKept
    BY <1>6, GetLocalStep, SetLocalStep, CaptureUpvalueStep
  <1>7. ASSUME NEW p \in openUp, SetUpvalue(p)
        PROVE  Inductive' /\ CallerSlotsKept
    BY <1>7, SetUpvalueStep
  <1>8. CASE CloseUpvalue
    BY <1>8, CloseUpvalueStep
  <1>9. CASE Return
    BY <1>9, ReturnStep
  <1>10. ASSUME NEW argc \in 0 .. MaxArgs,
                \/ CallClosure(argc)
                \/ \E c \in Functions : CallMethod(argc, c)
                \/ \E n \in 0 .. 1, v \in Literals : CallNative(argc, n, v)
         PROVE  Inductive' /\ CallerSlotsKept
    BY <1>10, CallClosureStep, CallMethodStep, CallNativeStep
  <1>11. CASE CallPlainClass
    BY <1>11, CallPlainClassStep
  <1>12. CASE UseStale
    BY <1>12, UseStaleStep
  <1>13. ASSUME NEW path \in Modules,
                ImportError(path) \/ CompileAtLimit(path) \/ Import(path) \/ ImportAtLimit(path)
         PROVE  Inductive' /\ CallerSlotsKept
    BY <1>13, ImportResets, ImportStep
  <1>14. CASE ImportMissing
    BY <1>14, ImportMissingStep
  <1>15. CASE PushAtLimit
    BY <1>15, PushAtLimitStep
  <1> QED BY <1>1, <1>2, <1>3, <1>4, <1>5, <1>6, <1>7, <1>8, <1>9, <1>10, <1>11, <1>12,
             <1>13, <1>14, <1>15 DEF Next

\* The stack, its frames, the upvalues into it and the cache of scripts are what
\* Inductive says, in every state of every program.
THEOREM StackInvariant == Spec => []Inductive
  <1>1. Inductive /\ [Next]_vars => Inductive'
    BY InductiveNext
  <1> QED BY <1>1, InductiveInit, PTL DEF Spec

\* Types, whatever realloc answers: a frame and an upvalue never point beyond
\* the block the stack is in.
THEOREM StackTypes == Spec => []TypeOK
  <1>1. Inductive => TypeOK
    <2> SUFFICES ASSUME Inductive PROVE TypeOK
      OBVIOUS
    <2>1. /\ mem.block \in Nat /\ mem.slots \in Seq(Value) /\ mem.top \in Nat
          /\ Len(mem.slots) \in Nat /\ mem.top < Len(mem.slots)
      BY DEF Inductive, MemoryOK, Memory
    <2> DEFINE F == [closure : Closures, block : 0 .. mem.block, base : 1 .. Capacity(mem)]
    <2>2. frames \in Seq(FrameRecord) /\ Len(frames) \in Nat /\ Len(frames) <= FrameMax
      BY DEF Inductive, FramesOK
    <2>3. ASSUME NEW i \in 1 .. Len(frames)
          PROVE  frames[i] \in F
      <3>1. frames[i] \in FrameRecord /\ OnStack(frames[i], mem) /\ Arity[frames[i].closure] \in Nat
        <4>1. frames[i] \in FrameRecord /\ OnStack(frames[i], mem)
          BY <2>2, ElementOfSeq DEF Inductive, FramesOK
        <4> QED BY <4>1, ArityAssumption DEF FrameRecord
      <3>2. frames[i].block \in 0 .. mem.block
        BY <2>1, <3>1 DEF OnStack, FrameRecord
      <3>3. frames[i].base \in 1 .. Len(mem.slots)
        BY <2>1, <3>1 DEF OnStack, FrameRecord
      <3> QED BY <3>1, <3>2, <3>3 DEF FrameRecord, Capacity
    <2>4. frames \in Seq(F)
      <3> HIDE DEF F
      <3>1. frames \in [1 .. Len(frames) -> F]
        BY <2>2, <2>3, LenProperties
      <3> QED BY <2>2, <3>1, SeqDef
    <2>5. openUp \subseteq [block : 0 .. mem.block, index : 1 .. Capacity(mem)]
      <3> SUFFICES ASSUME NEW p \in openUp
                   PROVE  p \in [block : 0 .. mem.block, index : 1 .. Capacity(mem)]
        OBVIOUS
      <3>1. p \in Pointer /\ p.block \in 0 .. mem.block
        BY <2>1 DEF Inductive, UpvaluesOK, Pointer
      <3>2. p.index \in 1 .. Len(mem.slots)
        BY <2>1 DEF Inductive, UpvaluesOK, Pointer
      <3> QED BY <3>1, <3>2 DEF Pointer, Capacity
    <2> HIDE DEF F
    <2>6. frames \in Seq([closure : Closures, block : 0 .. mem.block, base : 1 .. Capacity(mem)])
      BY <2>4 DEF F
    <2>7. mem.top \in 0 .. Capacity(mem)
      BY <2>1 DEF Capacity
    <2> QED BY <2>1, <2>2, <2>5, <2>6, <2>7 DEF TypeOK, Inductive, ScriptsOK, StatusOK
  <1> QED BY <1>1, StackInvariant, PTL

\* stack_push always has a slot to write to: it grows the stack when it has taken
\* the last one, and nothing else fills it.
THEOREM StackHasRoom == Spec => []RoomForPush
  <1>1. Inductive => RoomForPush
    BY DEF Inductive, MemoryOK, RoomForPush, Capacity
  <1> QED BY <1>1, StackInvariant, PTL

\* Each frame keeps its callee and its parameters on the stack, below the frame it
\* called, whatever calls, natives, imports, returns and assignments do.
THEOREM FramesStayOnStack == Spec => []FramesOnStack
  <1>1. Inductive => FramesOnStack
    <2> SUFFICES ASSUME Inductive, NEW i \in 1 .. Len(frames)
                 PROVE  /\ mem.slots[frames[i].base] \in {frames[i].closure, "instance"}
                        /\ frames[i].base + Arity[frames[i].closure] <
                              IF i < Len(frames) THEN frames[i + 1].base ELSE mem.top + 1
      BY DEF FramesOnStack
    <2>1. FramesOK(frames, mem) /\ MemoryOK(mem)
      BY DEF Inductive
    <2>2. frames \in Seq(FrameRecord) /\ OnStack(frames[i], mem) /\ mem.top \in Nat
      BY <2>1 DEF FramesOK, MemoryOK, Memory
    <2>3. frames[i].base \in Nat /\ Arity[frames[i].closure] \in Nat
      <3>1. frames[i] \in FrameRecord
        BY <2>2, ElementOfSeq
      <3> QED BY <3>1, ArityAssumption DEF FrameRecord
    <2>4. frames[i].base + Arity[frames[i].closure] < mem.top + 1
      BY <2>2, <2>3 DEF OnStack
    <2>5. CASE i < Len(frames)
      <3>1. i + 1 \in 1 .. Len(frames) /\ i < i + 1
        BY <2>2, <2>5
      <3>2. frames[i].base + Arity[frames[i].closure] < frames[i + 1].base
        BY <2>1, <3>1 DEF FramesOK, Nested
      <3> QED BY <2>2, <2>5, <3>2 DEF OnStack
    <2> QED BY <2>2, <2>4, <2>5 DEF OnStack
  <1> QED BY <1>1, StackInvariant, PTL

\* A return leaves a frame to run, or the loop.
LEMMA ReturnKeepsFrame ==
  ASSUME Inductive, Return
  PROVE  status' = "run" => frames' # <<>>
  <1>1. frames \in Seq(FrameRecord) /\ Len(frames) \in Nat
    BY LenProperties DEF Inductive, FramesOK
  <1>2. CASE Len(frames) = 1 /\ EndLine
    BY <1>2 DEF EndLine, ResetAs
  <1>3. CASE Len(frames) > 1 /\ frames' = Front(frames)
    <2>1. frames' = SubSeq(frames, 1, Len(frames) - 1)
      BY <1>3 DEF Front
    <2>2. Len(frames') = Len(frames) - 1 /\ Len(frames') # 0
      BY <1>1, <1>3, <2>1
    <2> QED BY <2>2, EmptySeq
  <1> QED BY <1>2, <1>3 DEF Return

\* So does a call.
LEMMA CallKeepsFrame ==
  ASSUME Inductive, NEW m, NEW c, NEW argc, Call(m, c, argc)
  PROVE  frames' # <<>>
  <1>1. PICK x : frames' = Append(frames, x)
    BY DEF Call
  <1>2. frames \in Seq(FrameRecord) /\ Len(frames) \in Nat
    BY LenProperties DEF Inductive, FramesOK
  <1>3. Len(frames') = Len(frames) + 1
    BY <1>1, <1>2
  <1> QED BY <1>2, <1>3, EmptySeq

\* Where all frames are in use or the stack is full, and nowhere else, the run
\* loop goes on without a frame: what else fails leaves it, what returns and what
\* calls leaves it a frame.
THEOREM LoopHasFrame == Spec => FrameLostAtLimits
  <1>1. ASSUME Inductive, [Next]_vars PROVE [LostAtLimit]_vars
    <2> SUFFICES ASSUME RunHasFrame, ~RunHasFrame'
                 PROVE  Len(frames) = FrameMax \/ ~Fits(1)
      BY <1>1 DEF LostAtLimit
    <2>1. status' = "run" /\ frames' = <<>>
      BY DEF RunHasFrame
    <2>2. ~UNCHANGED <<frames, status>> /\ (status = "run" => frames # <<>>)
      BY DEF RunHasFrame
    <2>3. CASE UNCHANGED vars
      BY <2>2, <2>3 DEF vars
    <2>4. ASSUME NEW f \in Functions, Interpret(f)
          PROVE  FALSE
      BY <1>1, <2>1, <2>4, CallKeepsFrame DEF Interpret
    <2>5. CASE RuntimeError \/ Return
      BY <1>1, <2>1, <2>5, ReturnKeepsFrame DEF RuntimeError, EndLine, ResetAs
    <2>6. ASSUME NEW m, NEW c, NEW argc, CallOrFail(m, c, argc)
          PROVE  FALSE
      BY <1>1, <2>1, <2>6, CallKeepsFrame DEF CallOrFail, EndLine, ResetAs
    <2>7. ASSUME NEW argc \in 0 .. MaxArgs, NEW n \in 0 .. 1, NEW v \in Literals,
                 CallNative(argc, n, v)
          PROVE  ~Fits(1)
      <3>1. ~Fits(n)
        BY <2>1, <2>7 DEF CallNative, Step
      <3>2. mem.top \in Nat /\ mem.top < Len(mem.slots) /\ Len(mem.slots) \in Nat
        BY <1>1 DEF Inductive, MemoryOK, Memory
      <3>3. n # 0
        BY <3>1, <3>2 DEF Fits, Capacity
      <3>4. n = 1
        BY <3>3
      <3> QED BY <3>1, <3>4
    <2>8. ASSUME NEW path \in Modules,
                 ImportError(path) \/ CompileAtLimit(path) \/ Import(path)
          PROVE  FALSE
      BY <1>1, <2>1, <2>8, CallKeepsFrame DEF ImportError, CompileAtLimit, Import, ResetAs
    <2>9. ASSUME NEW path \in Modules, ImportAtLimit(path)
          PROVE  Len(frames) = FrameMax
      BY <2>9, ArityAssumption DEF ImportAtLimit, CallFails
    <2>10. CASE PushAtLimit
      BY <2>10 DEF PushAtLimit
    <2>11. \/ \E v \in Literals : PushConstant(v)
           \/ Pop
           \/ \E n \in Locate : GetLocal(n) \/ SetLocal(n) \/ CaptureUpvalue(n)
           \/ \E p \in openUp : SetUpvalue(p)
           \/ CloseUpvalue \/ CallPlainClass \/ UseStale \/ ImportMissing
           => UNCHANGED frames /\ status = "run"
      BY DEF PushConstant, Pop, GetLocal, SetLocal, CaptureUpvalue, SetUpvalue, CloseUpvalue,
             CallPlainClass, UseStale, ImportMissing, Step
    <2>12. ASSUME NEW argc \in 0 .. MaxArgs,
                  CallClosure(argc) \/ \E c \in Functions : CallMethod(argc, c)
           PROVE  FALSE
      BY <2>6, <2>12 DEF CallClosure, CallMethod
    <2> QED BY <1>1, <2>1, <2>2, <2>3, <2>4, <2>5, <2>7, <2>8, <2>9, <2>10, <2>11, <2>12 DEF Next
  <1> QED BY <1>1, StackInvariant, PTL DEF Spec, FrameLostAtLimits

\* A script is compiled once, however often and wherever it is imported.
THEOREM ScriptsCompiledOnce == Spec => []CompiledOnce
  <1>1. Inductive => CompiledOnce
    BY DEF Inductive, ScriptsOK, CompiledOnce
  <1> QED BY <1>1, StackInvariant, PTL

\* No step of a function changes the slots of the functions that called it,
\* except through an open upvalue.
THEOREM CallersKeepSlots == Spec => CallersUntouched
  <1>1. Inductive /\ [Next]_vars => [CallerSlotsKept]_vars
    BY InductiveNext
  <1> QED BY <1>1, StackInvariant, PTL DEF Spec, CallersUntouched
=============================================================================
