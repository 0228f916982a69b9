----------------------------- MODULE VmHeapReach ------------------------------
(***************************************************************************)
(* VmHeap implements ReachHeap: the collector frees exactly what the       *)
(* program cannot reach, and no handler makes an unreachable object        *)
(* reachable again or touches it.                                          *)
(*                                                                         *)
(* The argument about the handlers is one fact, Within, shown for every    *)
(* set H of objects that holds the roots and whatever its members refer    *)
(* to: what a handler leaves in the roots or in a field comes from H, or   *)
(* is the object it allocated; and it assigns no field outside of H.       *)
(* Reachable is such a set.                                                *)
(***************************************************************************)
EXTENDS VmHeapProofs

\* H holds the roots, and with an object the objects it refers to.
Home(H) ==
  /\ H \subseteq heap
  /\ Live(stack, top, H)
  /\ Framed(closureOf, frameCount, H)
  /\ openUp \subseteq H
  /\ globals \subseteq H
  /\ \A o \in H, r \in Role : slot[o][r] \subseteq H \union {EmptyClass}

\* A step after which G is a home, and which assigned no field outside of G.
Keeps(G) ==
  /\ Live(stack', top', G)
  /\ Framed(closureOf', frameCount', G)
  /\ openUp' \subseteq G
  /\ globals' \subseteq G
  /\ \A o \in G, r \in Role : slot'[o][r] \subseteq G \union {EmptyClass}
  /\ \A o \in Addr \ G : slot'[o] = slot[o]

\* H, and the object the step allocated, if any.
Within(H) == Keeps(H \union (heap' \ heap))

-----------------------------------------------------------------------------
(* What a handler can get hold of *)

\* Fields other than klass refer to objects of the heap only.
LEMMA HomeField ==
  ASSUME Core, NEW H, Home(H), NEW o \in H, NEW r \in Role \ {"klass"}
  PROVE  slot[o][r] \subseteq H
  BY DEF Core, HeapOK, Home, Addr

\* An operand that is an object.
LEMMA HomeKind ==
  ASSUME Core, NEW H, NEW v \in H \union {Nil}, NEW k, IsKind(v, k)
  PROVE  v \in H
  BY AddressAssumption DEF IsKind, Core, HeapOK

\* The operands of an instruction, and the running closure.
LEMMA HomeOperands ==
  ASSUME Core, NEW H, Home(H), frameCount > 0, NEW n \in Nat, Operands(n)
  PROVE  /\ top \in Nat /\ Frame \in Nat /\ frameCount \in Nat
         /\ n < top
         /\ \A d \in 0 .. n : Peek(d) \in Value /\ Peek(d) \in H \union {Nil}
         /\ Current \in H
<1>1. top \in Nat /\ Frame \in Nat /\ frameCount \in Nat /\ n < top
  BY CoreOperands
<1>2. \A d \in 0 .. n : Peek(d) \in Value /\ Peek(d) \in H \union {Nil}
  BY <1>1, PeekLive DEF Core, Home
<1>3. frameCount - 1 \in 0 .. frameCount - 1
  BY <1>1
<1> QED BY <1>1, <1>2, <1>3 DEF Home, Framed, Current

\* The C locals of a suspended handler.
LEMMA HomeLocals ==
  ASSUME Core, NEW H, Home(H)
  PROVE  pend.a \in H \union {Nil} /\ pend.b \in H \union {Nil}
<1> DEFINE M == H \union {EmptyClass}
<1>1. \A o \in M, r \in Role : slot[o][r] \subseteq M
  BY DEF Home, Core, FieldsOfKind, NoRefs
<1>2. \A S \in SUBSET M : Kids(S) \subseteq M
  BY <1>1 DEF Kids
<1>3. Roots \subseteq M
  <2>1. Roots \subseteq H
    BY RootsLive DEF Home
  <2> QED BY <2>1
<1> HIDE DEF M
<1>4. Protected \subseteq M
  BY <1>2, <1>3 DEF Protected
<1>5. pend.a \in Value /\ pend.b \in Value
  BY DEF Core, ControlOK
<1> QED BY <1>4, <1>5, AddressAssumption DEF Core, Held, OperandsHeld, M, Value

-----------------------------------------------------------------------------
(* Handlers in general *)

\* A handler that leaves the heap, the frames and the globals alone.
LEMMA StackHome ==
  ASSUME NEW H, Home(H), UNCHANGED <<heap, slot, closureOf, frameCount, openUp, globals>>,
         Live(stack', top', H)
  PROVE  Within(H)
<1>1. H \union (heap' \ heap) = H
  OBVIOUS
<1>2. Keeps(H)
  BY DEF Home, Keeps, Framed
<1> QED BY <1>1, <1>2 DEF Within

\* A handler that moves nothing at all.
LEMMA SuspendHome ==
  ASSUME NEW H, Home(H), FramesAside, UNCHANGED <<heap, slot, stack, top>>
  PROVE  Within(H)
  BY StackHome DEF FramesAside, Home

\* A handler that assigns a field.
LEMMA FieldHome ==
  ASSUME Core, NEW H, Home(H), UNCHANGED <<heap, closureOf, frameCount, openUp, globals>>,
         NEW o \in H, NEW r \in Role, NEW S \in SUBSET H,
         slot' = [slot EXCEPT ![o][r] = S], Live(stack', top', H)
  PROVE  Within(H)
<1>1. H \union (heap' \ heap) = H
  OBVIOUS
<1>2. \A w \in Addr, q \in Role : slot'[w][q] = IF w = o /\ q = r THEN S ELSE slot[w][q]
  BY DEF Core, HeapOK, Home, Addr
<1>3. H \subseteq Addr
  BY DEF Core, HeapOK, Home, Addr
<1>4. \A w \in Addr \ H : slot'[w] = slot[w]
  BY <1>3 DEF Core, HeapOK
<1>5. \A w \in H, q \in Role : slot'[w][q] \subseteq H \union {EmptyClass}
  BY <1>2, <1>3 DEF Home
<1>6. Keeps(H)
  BY <1>4, <1>5 DEF Home, Keeps, Framed
<1> QED BY <1>1, <1>6 DEF Within

\* What Put leaves in the heap.
LEMMA PutFields ==
  ASSUME Core, NEW H, Home(H), NEW k \in Kind, NEW o \in Fresh(k), NEW refs,
         \A r \in Role : refs[r] \subseteq H \union {EmptyClass}, Put(o, k, refs)
  PROVE  /\ H \union (heap' \ heap) = H \union {o}
         /\ \A w \in H \union {o}, q \in Role : slot'[w][q] \subseteq H \union {o, EmptyClass}
         /\ \A w \in Addr \ (H \union {o}) : slot'[w] = slot[w]
<1>1. o \in Objects \ heap /\ o \in Addr
  BY FreshObjects DEF Core, ControlOK, Addr
<1>2. heap' = heap \union {o} /\ slot' = [slot EXCEPT ![o] = refs]
  BY DEF Put
<1>3. H \subseteq Addr /\ o \notin H
  BY <1>1 DEF Core, HeapOK, Home, Addr
<1>4. \A w \in Addr : slot'[w] = IF w = o THEN refs ELSE slot[w]
  BY <1>2 DEF Core, HeapOK
<1> QED BY <1>1, <1>2, <1>3, <1>4 DEF Home

\* A handler that allocates the object o.
LEMMA PutHome ==
  ASSUME Core, NEW H, Home(H), UNCHANGED <<closureOf, frameCount, openUp, globals>>,
         NEW k \in Kind, NEW o \in Fresh(k), NEW refs,
         \A r \in Role : refs[r] \subseteq H \union {EmptyClass},
         Put(o, k, refs), Live(stack', top', H \union {o})
  PROVE  Within(H)
<1> DEFINE G == H \union {o}
<1>1. /\ H \union (heap' \ heap) = G
      /\ \A w \in G, q \in Role : slot'[w][q] \subseteq G \union {EmptyClass}
      /\ \A w \in Addr \ G : slot'[w] = slot[w]
  BY PutFields
<1>2. Framed(closureOf', frameCount', G) /\ openUp' \subseteq G /\ globals' \subseteq G
  BY DEF Home, Framed
<1> HIDE DEF G
<1>3. Live(stack', top', G)
  BY DEF G
<1>4. Keeps(G)
  BY <1>1, <1>2, <1>3 DEF Keeps
<1> QED BY <1>1, <1>4 DEF Within

\* A larger set keeps the stack live.
LEMMA LiveGrows ==
  ASSUME NEW H, NEW G, H \subseteq G, NEW s, NEW t, Live(s, t, H)
  PROVE  Live(s, t, G)
  BY DEF Live

-----------------------------------------------------------------------------
(* The handlers, one by one *)

\* Constants, locals and globals.
LEMMA MovesWithin ==
  ASSUME Core, NEW H, Home(H), StackNext \/ GlobalNext
  PROVE  Within(H)
<1>1. CASE PushConstant
  <2>1. Live(stack', top', H)
    BY <1>1, PushLive DEF PushConstant, Core, Value, Home
  <2> QED BY <1>1, <2>1, StackHome DEF PushConstant, MovesOnly, gcVars
<1>2. CASE GetLocal
  <2>1. PICK i \in Locals : Push(stack[i])
    BY <1>2 DEF GetLocal
  <2>2. i \in 0 .. top - 1 /\ stack[i] \in Value
    BY <2>1, <1>2, BoundAssumption DEF Locals, Core, StackOK, FramesOK, Slots, Frame, GetLocal, Running
  <2>3. Live(stack', top', H)
    BY <2>1, <2>2, PushLive DEF Core, Home, Live
  <2> QED BY <1>2, <2>3, StackHome DEF GetLocal, MovesOnly, gcVars
<1>3. CASE SetLocal
  <2>1. PICK i \in Locals \ {Frame, top - 1} : stack' = [stack EXCEPT ![i] = Peek(0)] /\ top' = top
    BY <1>3 DEF SetLocal
  <2>2. Peek(0) \in H \union {Nil}
    BY <1>3, HomeOperands DEF SetLocal, Running
  <2>3. Live(stack', top', H)
    BY <2>1, <2>2, BoundAssumption DEF Core, StackOK, Live, Slots, Home
  <2> QED BY <1>3, <2>3, StackHome DEF SetLocal, MovesOnly, gcVars
<1>4. CASE Pop
  <2>1. top > 0
    BY <1>4, CoreOperands DEF Pop, Running
  <2>2. Live(stack', top', H)
    BY <1>4, <2>1, PopLive DEF Pop, Core, Home
  <2> QED BY <1>4, <2>2, StackHome DEF Pop, MovesOnly, gcVars
<1>5. CASE GetGlobal
  <2>1. PICK v \in globals \union {Nil} : Push(v)
    BY <1>5 DEF GetGlobal
  <2>2. v \in H \union {Nil} /\ v \in Value
    BY <2>1 DEF Value, Home, Core, FramesOK
  <2>3. Live(stack', top', H)
    BY <2>1, <2>2, PushLive DEF Core, Home
  <2> QED BY <1>5, <2>3, StackHome DEF GetGlobal, MovesOnly, gcVars
<1>6. CASE DefineGlobal
  BY <1>6, SuspendHome DEF DefineGlobal
<1>7. CASE DefineGlobalEnd \/ SetGlobalEnd
  <2>1. /\ StoreGlobal /\ Operands(1) /\ frameCount > 0 /\ 1 < top /\ top \in Nat
        /\ \E old \in globals \union {Nil} : globals' = (globals \ {old}) \union Obj(pend.b)
    BY <1>7, CoreOperands DEF DefineGlobalEnd, SetGlobalEnd, Resumed, Core, Held, OperandsHeld,
                              OperandCount, StoreGlobal
  <2>2. globals' \subseteq H
    BY <2>1, HomeLocals DEF Home, Obj
  <2>3. Live(stack', top', H)
    BY <1>7, <2>1, PopLive DEF DefineGlobalEnd, SetGlobalEnd, Core, Home
  <2>4. /\ H \union (heap' \ heap) = H /\ slot' = slot
        /\ UNCHANGED <<closureOf, frameCount, openUp>>
    BY <2>1 DEF StoreGlobal
  <2>5. Keeps(H)
    BY <2>2, <2>3, <2>4 DEF Home, Keeps, Framed
  <2> QED BY <2>4, <2>5 DEF Within
<1> QED BY <1>1, <1>2, <1>3, <1>4, <1>5, <1>6, <1>7 DEF StackNext, GlobalNext

\* Arrays and natives.
LEMMA ArraysWithin ==
  ASSUME Core, NEW H, Home(H), ArrayNext
  PROVE  Within(H)
<1> Nil \in Value /\ "elements" \in Role \ {"klass"} /\ "array" \in Kind /\ H \subseteq Objects
  BY DEF Value, Role, Kind, Home, Core, HeapOK
<1> /\ StackOK
    /\ Live(stack, top, H) /\ \A G : H \subseteq G => Live(stack, top, G)
    /\ \A r \in Role : NoRefs[r] = {}
  BY LiveGrows DEF Home, Core, NoRefs
<1>1. CASE NewArray \/ PushNative \/ SliceNative \/ GcNative
  BY <1>1, SuspendHome DEF NewArray, PushNative, SliceNative, GcNative
<1>2. CASE NewArrayPush \/ SliceNativePush
  <2>1. PICK o \in Fresh("array") : Put(o, "array", NoRefs) /\ Push(o)
    BY <1>2 DEF NewArrayPush, SliceNativePush
  <2>2. o \in Value
    BY FreshObjects DEF Core, ControlOK, Value
  <2>3. Live(stack', top', H \union {o})
    BY <2>1, <2>2, PushLive
  <2> QED BY <1>2, <2>1, <2>3, PutHome DEF NewArrayPush, SliceNativePush, FramesAside
<1>3. CASE NewArrayFill
  <2> DEFINE S == {stack[i] : i \in top - 1 - pend.n .. top - 2} \ {Nil}
  <2>1. /\ slot' = [slot EXCEPT ![Peek(0)]["elements"] = S] /\ PopReplace(pend.n, Peek(0))
        /\ UNCHANGED <<heap, closureOf, frameCount, openUp, globals>>
    BY <1>3 DEF NewArrayFill, FramesAside
  <2>2. pend.n \in Nat
    BY DEF Core, ControlOK
  <2>3. frameCount > 0 /\ Operands(pend.n + 1) /\ IsKind(Peek(0), "array")
    BY <1>3, <2>2 DEF NewArrayFill, Resumed, Core, Held, OperandsHeld, OperandKinds, OperandCount
  <2>4. top \in Nat /\ pend.n + 1 < top /\ Peek(0) \in Value /\ Peek(0) \in H \union {Nil}
    BY <2>2, <2>3, HomeOperands
  <2>5. S \subseteq H
    BY <2>2, <2>4 DEF Live
  <2>6. Live(stack', top', H)
    BY <2>1, <2>2, <2>4, PopReplaceLive
  <2>7. Peek(0) \in H
    BY <2>3, <2>4, HomeKind
  <2> HIDE DEF S
  <2> QED BY <2>1, <2>5, <2>6, <2>7, FieldHome
<1>4. CASE GetElement
  <2>1. frameCount > 0 /\ Operands(1) /\ IsKind(Peek(0), "array")
    BY <1>4 DEF GetElement, Running
  <2>2. PICK v \in slot[Peek(0)]["elements"] \union {Nil} : PopReplace(0, v)
    BY <1>4 DEF GetElement
  <2>3. top \in Nat /\ 1 < top /\ Peek(0) \in H \union {Nil}
    BY <2>1, HomeOperands
  <2>4. v \in H \union {Nil} /\ v \in Value
    BY <2>1, <2>2, <2>3, HomeKind, HomeField DEF Value
  <2>5. Live(stack', top', H)
    BY <2>2, <2>3, <2>4, PopReplaceLive
  <2> QED BY <1>4, <2>5, StackHome DEF GetElement, MovesOnly, gcVars
<1>5. CASE SetElement
  <2>1. /\ frameCount > 0 /\ Operands(2) /\ IsKind(Peek(1), "array") /\ PopReplace(1, Peek(0))
        /\ UNCHANGED <<heap, closureOf, frameCount, openUp, globals>>
    BY <1>5 DEF SetElement, Running, FramesAside
  <2>2. PICK old \in slot[Peek(1)]["elements"] \union {Nil} :
          slot' = [slot EXCEPT ![Peek(1)]["elements"] = (@ \ {old}) \union Obj(Peek(0))]
    BY <1>5 DEF SetElement
  <2> DEFINE S == (slot[Peek(1)]["elements"] \ {old}) \union Obj(Peek(0))
  <2>3. /\ top \in Nat /\ 2 < top /\ Peek(0) \in Value
        /\ Peek(0) \in H \union {Nil} /\ Peek(1) \in H \union {Nil}
    BY <2>1, HomeOperands
  <2>4. Peek(1) \in H
    BY <2>1, <2>3, HomeKind
  <2>5. S \subseteq H
    BY <2>3, <2>4, HomeField DEF Obj
  <2>6. Live(stack', top', H)
    BY <2>1, <2>3, PopReplaceLive
  <2>7. slot' = [slot EXCEPT ![Peek(1)]["elements"] = S]
    BY <2>2
  <2> HIDE DEF S
  <2> QED BY <2>1, <2>4, <2>5, <2>6, <2>7, FieldHome
<1>6. CASE PushNativeEnd
  <2>1. /\ PopReplace(2, Nil) /\ UNCHANGED <<heap, closureOf, frameCount, openUp, globals>>
    BY <1>6 DEF PushNativeEnd, FramesAside
  <2>2. frameCount > 0 /\ Operands(3) /\ IsKind(pend.a, "array")
    BY <1>6 DEF PushNativeEnd, Resumed, Core, Held, OperandsHeld, OperandKinds, OperandCount
  <2> DEFINE S == slot[pend.a]["elements"] \union Obj(pend.b)
  <2>3. top \in Nat /\ 3 < top
    BY <2>2, HomeOperands
  <2>4. pend.a \in H /\ pend.b \in H \union {Nil}
    BY <2>2, HomeLocals, HomeKind
  <2>5. S \subseteq H
    BY <2>4, HomeField DEF Obj
  <2>6. Live(stack', top', H)
    BY <2>1, <2>3, PopReplaceLive
  <2>7. slot' = [slot EXCEPT ![pend.a]["elements"] = S]
    BY <1>6 DEF PushNativeEnd
  <2> HIDE DEF S
  <2> QED BY <2>1, <2>4, <2>5, <2>6, <2>7, FieldHome
<1>7. CASE SliceNativeEnd
  <2>1. PopReplace(2, pend.b) /\ UNCHANGED <<heap, closureOf, frameCount, openUp, globals>>
    BY <1>7 DEF SliceNativeEnd, FramesAside
  <2>2. PICK S \in SUBSET slot[pend.a]["elements"] : slot' = [slot EXCEPT ![pend.b]["elements"] = S]
    BY <1>7 DEF SliceNativeEnd
  <2>3. /\ frameCount > 0 /\ Operands(3) /\ IsKind(pend.a, "array") /\ IsKind(pend.b, "array")
        /\ pend.b \in Value
    BY <1>7 DEF SliceNativeEnd, Resumed, Core, ControlOK, Held, OperandsHeld, OperandKinds, OperandCount
  <2>4. top \in Nat /\ 3 < top
    BY <2>3, HomeOperands
  <2>5. pend.a \in H /\ pend.b \in H
    BY <2>3, HomeLocals, HomeKind
  <2>6. S \subseteq H
    BY <2>2, <2>5, HomeField
  <2>7. Live(stack', top', H)
    BY <2>1, <2>3, <2>4, <2>5, PopReplaceLive
  <2> QED BY <2>1, <2>2, <2>5, <2>6, <2>7, FieldHome
<1>8. CASE GcNativeEnd
  <2>1. PopReplace(0, Nil) /\ UNCHANGED <<heap, slot, closureOf, frameCount, openUp, globals>>
    BY <1>8 DEF GcNativeEnd, FramesAside
  <2>2. frameCount > 0 /\ Operands(1)
    BY <1>8 DEF GcNativeEnd, Resumed, Core, Held, OperandsHeld, OperandCount
  <2>3. top \in Nat /\ 1 < top
    BY <2>2, HomeOperands
  <2>4. Live(stack', top', H)
    BY <2>1, <2>3, PopReplaceLive
  <2> QED BY <2>1, <2>4, StackHome
<1> QED BY <1>1, <1>2, <1>3, <1>4, <1>5, <1>6, <1>7, <1>8 DEF ArrayNext

\* The closure of the running frame.
LEMMA HomeCurrent ==
  ASSUME Core, NEW H, Home(H), frameCount > 0
  PROVE  Current \in H
<1>1. frameCount - 1 \in 0 .. frameCount - 1
  BY DEF Core, FramesOK
<1> QED BY <1>1 DEF Home, Framed, Current

\* The closure under construction.
LEMMA HomeCaptured ==
  ASSUME Core, NEW H, Home(H), phase = "resume", pend.op \in {"Capture", "NewUpvalue"}
  PROVE  /\ Peek(0) \in H
         /\ frameCount > 0
<1>1. top > 0 /\ IsKind(Peek(0), "closure") /\ frameCount > 0
  BY DEF Core, Held, OperandKinds, OperandsHeld
<1>2. Peek(0) \in H \union {Nil}
  BY <1>1, PeekLive DEF Core, Home
<1> QED BY <1>1, <1>2, HomeKind

\* What *upvalue->location reads.
LEMMA HomeHolds ==
  ASSUME Core, NEW H, Home(H), NEW u \in H, NEW v \in Value, Holds(u, v)
  PROVE  v \in H \union {Nil}
<1>1. CASE u \in openUp
  <2>1. loc[u] \in 0 .. top - 1
    BY <1>1, BoundAssumption DEF Core, UpvaluesOK, FramesOK, StackOK
  <2> QED BY <1>1, <2>1 DEF Holds, Home, Live
<1>2. CASE u \notin openUp
  <2>1. slot[u]["closed"] \subseteq H
    BY HomeField DEF Role
  <2> QED BY <1>2, <2>1 DEF Holds, Obj
<1> QED BY <1>1, <1>2

\* closeUpvalues() stores what lies on the stack.
LEMMA CloseHome ==
  ASSUME Core, NEW H, Home(H), NEW n, CloseUpvalues(n)
  PROVE  /\ openUp' \subseteq H
         /\ \A o \in H, r \in Role : slot'[o][r] \subseteq H \union {EmptyClass}
         /\ \A o \in Addr \ H : slot'[o] = slot[o]
<1>1. openUp' \subseteq H
  BY DEF CloseUpvalues, Home
<1>2. H \subseteq Addr /\ openUp \subseteq H
  BY DEF Home, Core, HeapOK, Addr
<1>3. \A o \in openUp : stack[loc[o]] \in H \union {Nil}
  <2> TAKE o \in openUp
  <2>1. loc[o] \in 0 .. top - 1
    BY BoundAssumption DEF Core, UpvaluesOK, FramesOK, StackOK
  <2> QED BY <2>1 DEF Home, Live
<1>4. \A o \in Addr : slot'[o] = IF o \in openUp /\ loc[o] >= n
                                 THEN [slot[o] EXCEPT !["closed"] = Obj(stack[loc[o]])]
                                 ELSE slot[o]
  BY DEF CloseUpvalues
<1>5. \A o \in Addr \ H : slot'[o] = slot[o]
  BY <1>2, <1>4
<1>6. ASSUME NEW o \in H, NEW r \in Role
      PROVE  slot'[o][r] \subseteq H \union {EmptyClass}
  <2>1. CASE o \in openUp /\ loc[o] >= n
    <3>1. slot[o] \in [Role -> SUBSET Addr] /\ slot'[o] = [slot[o] EXCEPT !["closed"] = Obj(stack[loc[o]])]
      BY <1>2, <1>4, <2>1 DEF Core, HeapOK
    <3>2. Obj(stack[loc[o]]) \subseteq H
      BY <1>3, <2>1 DEF Obj
    <3> QED BY <3>1, <3>2 DEF Home
  <2>2. CASE ~(o \in openUp /\ loc[o] >= n)
    BY <1>2, <1>4, <2>2 DEF Home
  <2> QED BY <2>1, <2>2
<1> QED BY <1>1, <1>5, <1>6

\* Closures and upvalues.
LEMMA ClosuresWithin ==
  ASSUME Core, NEW H, Home(H), ClosureNext
  PROVE  Within(H)
<1> /\ Nil \in Value /\ "upvalues" \in Role \ {"klass"} /\ "closed" \in Role
    /\ "closure" \in Kind /\ "upvalue" \in Kind /\ H \subseteq Objects
  BY DEF Value, Role, Kind, Home, Core, HeapOK
<1> /\ StackOK /\ openUp \subseteq H
    /\ Live(stack, top, H) /\ \A G : H \subseteq G => Live(stack, top, G)
    /\ \A r \in Role : NoRefs[r] = {}
  BY LiveGrows DEF Home, Core, NoRefs
<1>1. CASE Interpret \/ NewClosure \/ UpvalueArrayEnd
  BY <1>1, SuspendHome DEF Interpret, NewClosure, UpvalueArrayEnd
<1>2. CASE InterpretCall
  <2>1. PICK o \in Fresh("closure") : /\ Put(o, "closure", NoRefs) /\ Push(o)
                                      /\ closureOf' = [closureOf EXCEPT ![0] = o]
    BY <1>2 DEF InterpretCall
  <2>2. o \in Value
    BY FreshObjects DEF Core, ControlOK, Value
  <2> DEFINE G == H \union {o}
  <2>3. Live(stack', top', G)
    BY <2>1, <2>2, PushLive
  <2>4. /\ H \union (heap' \ heap) = G
        /\ \A w \in G, q \in Role : slot'[w][q] \subseteq G \union {EmptyClass}
        /\ \A w \in Addr \ G : slot'[w] = slot[w]
    BY <2>1, PutFields
  <2>5. Framed(closureOf', frameCount', G)
    BY <1>2, <2>1, BoundAssumption DEF InterpretCall, Framed, Core, FramesOK
  <2>6. openUp' \subseteq G /\ globals' \subseteq G
    BY <1>2 DEF InterpretCall, Home
  <2> HIDE DEF G
  <2>7. Keeps(G)
    BY <2>3, <2>4, <2>5, <2>6 DEF Keeps
  <2> QED BY <2>4, <2>7 DEF Within
<1>3. CASE NewClosurePush
  <2>1. PICK o \in Fresh("closure") : Put(o, "closure", NoRefs) /\ Push(o)
    BY <1>3 DEF NewClosurePush
  <2>2. o \in Value
    BY FreshObjects DEF Core, ControlOK, Value
  <2>3. Live(stack', top', H \union {o})
    BY <2>1, <2>2, PushLive
  <2> QED BY <1>3, <2>1, <2>3, PutHome DEF NewClosurePush, FramesAside
<1>4. CASE CaptureLocal \/ CaptureEnclosing
  <2>1. UNCHANGED <<heap, closureOf, frameCount, openUp, globals, stack, top>>
    BY <1>4 DEF CaptureLocal, CaptureEnclosing, FramesAside
  <2>2. Peek(0) \in H /\ frameCount > 0
    BY <1>4, HomeCaptured DEF CaptureLocal, CaptureEnclosing, Resumed
  <2>3. CASE slot' = slot
    BY <2>1, <2>3, StackHome
  <2>4. ASSUME NEW u \in H, AddUpvalue(u)
        PROVE  Within(H)
    <3> DEFINE S == slot[Peek(0)]["upvalues"] \union {u}
    <3>1. S \subseteq H
      BY <2>2, HomeField
    <3>2. slot' = [slot EXCEPT ![Peek(0)]["upvalues"] = S]
      BY <2>4 DEF AddUpvalue
    <3>3. Live(stack', top', H)
      BY <2>1
    <3> HIDE DEF S
    <3> QED BY <2>1, <2>2, <3>1, <3>2, <3>3, FieldHome
  <2>5. slot' = slot \/ \E u \in H : AddUpvalue(u)
    <3>1. CASE CaptureLocal
      BY <3>1 DEF CaptureLocal
    <3>2. CASE CaptureEnclosing
      <4>1. slot[Current]["upvalues"] \subseteq H
        BY <2>2, HomeCurrent, HomeField
      <4> QED BY <3>2, <4>1 DEF CaptureEnclosing
    <3> QED BY <1>4, <3>1, <3>2
  <2> QED BY <2>3, <2>4, <2>5
<1>5. CASE NewUpvalue
  <2>1. PICK u \in Fresh("upvalue") :
          /\ heap' = heap \union {u} /\ openUp' = openUp \union {u}
          /\ slot' = [slot EXCEPT ![u] = NoRefs, ![Peek(0)]["upvalues"] = @ \union {u}]
    BY <1>5 DEF NewUpvalue
  <2>2. Peek(0) \in H
    BY <1>5, HomeCaptured DEF NewUpvalue, Resumed
  <2>3. u \in Objects \ heap /\ u \in Addr /\ H \subseteq heap /\ H \subseteq Addr
    BY FreshObjects DEF Core, ControlOK, Addr, Home
  <2> DEFINE G == H \union {u}
             S == slot[Peek(0)]["upvalues"] \union {u}
  <2>4. \A w \in Addr : slot'[w] = IF w = u THEN NoRefs
                                   ELSE IF w = Peek(0) THEN [slot[w] EXCEPT !["upvalues"] = S]
                                   ELSE slot[w]
    BY <2>1, <2>2, <2>3 DEF Core, HeapOK
  <2>5. S \subseteq G
    BY <2>2, HomeField
  <2>6. \A w \in Addr \ G : slot'[w] = slot[w]
    BY <2>2, <2>4
  <2> HIDE DEF S
  <2>7. \A w \in G, q \in Role : slot'[w][q] \subseteq G \union {EmptyClass}
    <3> TAKE w \in G, q \in Role
    <3>1. CASE w = u
      BY <2>3, <2>4, <3>1
    <3>2. CASE w = Peek(0) /\ w # u
      <4>1. slot[w] \in [Role -> SUBSET Addr]
        BY <2>2, <2>3, <3>2 DEF Core, HeapOK
      <4> QED BY <2>2, <2>3, <2>4, <2>5, <3>2, <4>1 DEF Home
    <3>3. CASE w # Peek(0) /\ w # u
      BY <2>3, <2>4, <3>3 DEF Home
    <3> QED BY <3>1, <3>2, <3>3
  <2>8. H \union (heap' \ heap) = G
    BY <2>1, <2>3
  <2>9. /\ Live(stack', top', G) /\ Framed(closureOf', frameCount', G)
        /\ openUp' \subseteq G /\ globals' \subseteq G
    BY <1>5, <2>1 DEF NewUpvalue, Home, Framed
  <2> HIDE DEF G
  <2>10. Keeps(G)
    BY <2>6, <2>7, <2>9 DEF Keeps
  <2> QED BY <2>8, <2>10 DEF Within
<1>6. CASE GetUpvalue
  <2>1. PICK u \in slot[Current]["upvalues"], v \in Value : Holds(u, v) /\ Push(v)
    BY <1>6 DEF GetUpvalue
  <2>2. u \in H
    BY <1>6, <2>1, HomeCurrent, HomeField DEF GetUpvalue, Running
  <2>3. v \in H \union {Nil}
    BY <2>1, <2>2, HomeHolds
  <2>4. Live(stack', top', H)
    BY <2>1, <2>3, PushLive
  <2> QED BY <1>6, <2>4, StackHome DEF GetUpvalue, MovesOnly, gcVars
<1>7. CASE SetUpvalue
  <2>1. /\ UNCHANGED <<heap, closureOf, frameCount, openUp, globals>> /\ top' = top
        /\ frameCount > 0 /\ Operands(1)
    BY <1>7 DEF SetUpvalue, FramesAside, Running
  <2>2. PICK u \in slot[Current]["upvalues"] :
          IF u \in openUp
          THEN stack' = [stack EXCEPT ![loc[u]] = Peek(0)] /\ slot' = slot
          ELSE slot' = [slot EXCEPT ![u]["closed"] = Obj(Peek(0))] /\ stack' = stack
    BY <1>7 DEF SetUpvalue
  <2>3. u \in H /\ Peek(0) \in H \union {Nil}
    BY <2>1, <2>2, HomeOperands, HomeField
  <2>4. CASE u \in openUp
    <3>1. stack' = [stack EXCEPT ![loc[u]] = Peek(0)] /\ slot' = slot
      BY <2>2, <2>4
    <3>2. Live(stack', top', H)
      BY <2>1, <2>3, <3>1, BoundAssumption DEF StackOK, Live, Slots
    <3> QED BY <2>1, <3>1, <3>2, StackHome
  <2>5. CASE u \notin openUp
    <3>1. Obj(Peek(0)) \subseteq H
      BY <2>3 DEF Obj
    <3>2. slot' = [slot EXCEPT ![u]["closed"] = Obj(Peek(0))] /\ Live(stack', top', H)
      BY <2>1, <2>2, <2>5
    <3> QED BY <2>1, <2>3, <3>1, <3>2, FieldHome
  <2> QED BY <2>4, <2>5
<1>8. CASE CloseUpvalue
  <2>1. /\ CloseUpvalues(top - 1) /\ frameCount > 0 /\ top - 1 > Frame
        /\ stack' = Cut(stack, top - 1) /\ top' = top - 1
        /\ UNCHANGED <<heap, closureOf, frameCount, globals>>
    BY <1>8 DEF CloseUpvalue, Running
  <2>2. top > 0
    BY <2>1, BoundAssumption DEF Frame, Core, FramesOK, StackOK
  <2>3. Live(stack', top', H)
    BY <2>1, <2>2, PopLive
  <2>4. H \union (heap' \ heap) = H
    BY <2>1
  <2>5. Keeps(H)
    BY <2>1, <2>3, CloseHome DEF Home, Keeps, Framed
  <2> QED BY <2>4, <2>5 DEF Within
<1> QED BY <1>1, <1>2, <1>3, <1>4, <1>5, <1>6, <1>7, <1>8 DEF ClosureNext

\* Classes and instances.
LEMMA ClassesWithin ==
  ASSUME Core, NEW H, Home(H), ClassNext
  PROVE  Within(H)
<1> /\ Nil \in Value /\ {"methods", "fields", "initializer"} \subseteq Role \ {"klass"}
    /\ "klass" \in Role
    /\ {"class", "instance", "bound"} \subseteq Kind /\ H \subseteq Objects
  BY DEF Value, Role, Kind, Home, Core, HeapOK
<1> /\ StackOK
    /\ Live(stack, top, H) /\ \A G : H \subseteq G => Live(stack, top, G)
    /\ \A r \in Role : NoRefs[r] = {}
  BY LiveGrows DEF Home, Core, NoRefs
<1>1. CASE NewClass \/ Method \/ Inherit \/ NewObject \/ SetProperty \/ GetMethod
  BY <1>1, SuspendHome DEF NewClass, Method, Inherit, NewObject, SetProperty, GetMethod
<1>2. CASE NewClassPush
  <2>1. PICK o \in Fresh("class") : Put(o, "class", NoRefs) /\ Push(o)
    BY <1>2 DEF NewClassPush
  <2>2. o \in Value
    BY FreshObjects DEF Core, ControlOK, Value
  <2>3. Live(stack', top', H \union {o})
    BY <2>1, <2>2, PushLive
  <2> QED BY <1>2, <2>1, <2>3, PutHome DEF NewClassPush, FramesAside
<1>3. CASE NewObjectPush
  <2> DEFINE refs == [NoRefs EXCEPT !["klass"] = {EmptyClass}]
  <2>1. PICK o \in Fresh("instance") : Put(o, "instance", refs) /\ Push(o)
    BY <1>3 DEF NewObjectPush
  <2>2. o \in Value
    BY FreshObjects DEF Core, ControlOK, Value
  <2>3. Live(stack', top', H \union {o})
    BY <2>1, <2>2, PushLive
  <2>4. \A r \in Role : refs[r] \subseteq H \union {EmptyClass}
    BY DEF NoRefs
  <2> HIDE DEF refs
  <2> QED BY <1>3, <2>1, <2>3, <2>4, PutHome DEF NewObjectPush, FramesAside
<1>4. CASE MethodEnd
  <2>1. PICK old \in slot[pend.a]["methods"] \union {Nil} :
          slot' = [slot EXCEPT
                     ![pend.a]["methods"] = (@ \ {old}) \union {pend.b},
                     ![pend.a]["initializer"] = IF pend.n = 1 THEN {pend.b} ELSE @]
    BY <1>4 DEF MethodEnd
  <2>2. /\ UNCHANGED <<heap, closureOf, frameCount, openUp, globals>>
        /\ stack' = Cut(stack, top - 1) /\ top' = top - 1
        /\ frameCount > 0 /\ Operands(2)
        /\ IsKind(pend.a, "class") /\ IsKind(pend.b, "closure")
    BY <1>4 DEF MethodEnd, FramesAside, Resumed, Core, Held, OperandsHeld, OperandKinds, OperandCount
  <2>3. pend.a \in H /\ pend.b \in H
    BY <2>2, HomeLocals, HomeKind
  <2>4. top > 0
    BY <2>2, HomeOperands
  <2>5. Live(stack', top', H)
    BY <2>2, <2>4, PopLive
  <2>6. H \subseteq Addr /\ pend.a \in Addr /\ slot[pend.a] \in [Role -> SUBSET Addr]
    BY <2>3 DEF Core, HeapOK, Addr
  <2>7. \A w \in Addr \ H : slot'[w] = slot[w]
    BY <2>1, <2>3, <2>6 DEF Core, HeapOK
  <2>8. \A w \in H, q \in Role : slot'[w][q] \subseteq slot[w][q] \union {pend.b}
    <3> TAKE w \in H, q \in Role
    <3>1. CASE w # pend.a
      BY <2>1, <2>6, <3>1 DEF Core, HeapOK
    <3>2. CASE w = pend.a
      <4>1. slot'[w] = [slot[w] EXCEPT !["methods"] = (@ \ {old}) \union {pend.b},
                                       !["initializer"] = IF pend.n = 1 THEN {pend.b} ELSE @]
        BY <2>1, <2>6, <3>2 DEF Core, HeapOK
      <4> QED BY <2>6, <3>2, <4>1
    <3> QED BY <3>1, <3>2
  <2>9. H \union (heap' \ heap) = H
    BY <2>2
  <2>10. \A w \in H, q \in Role : slot'[w][q] \subseteq H \union {EmptyClass}
    BY <2>3, <2>8 DEF Home
  <2>11. Keeps(H)
    BY <2>2, <2>5, <2>7, <2>10 DEF Home, Keeps, Framed
  <2> QED BY <2>9, <2>11 DEF Within
<1>5. CASE InheritCopy \/ InheritEnd
  <2>1. /\ UNCHANGED <<heap, closureOf, frameCount, openUp, globals>>
        /\ frameCount > 0 /\ Operands(2)
        /\ IsKind(Peek(0), "class") /\ IsKind(Peek(1), "class")
    BY <1>5 DEF InheritCopy, InheritEnd, FramesAside, Resumed, Core, Held, OperandsHeld, OperandKinds,
                OperandCount
  <2>2. top > 0 /\ Peek(0) \in H /\ Peek(1) \in H
    BY <2>1, HomeOperands, HomeKind
  <2>3. CASE InheritCopy
    <3>1. PICK m \in slot[Peek(1)]["methods"] :
            slot' = [slot EXCEPT ![Peek(0)]["methods"] = @ \union {m}]
      BY <2>3 DEF InheritCopy
    <3> DEFINE S == slot[Peek(0)]["methods"] \union {m}
    <3>2. S \subseteq H
      BY <2>2, <3>1, HomeField
    <3>3. slot' = [slot EXCEPT ![Peek(0)]["methods"] = S] /\ Live(stack', top', H)
      BY <2>3, <3>1 DEF InheritCopy
    <3> HIDE DEF S
    <3> QED BY <2>1, <2>2, <3>2, <3>3, FieldHome
  <2>4. CASE InheritEnd
    <3>1. Live(stack', top', H)
      BY <2>2, <2>4, PopLive DEF InheritEnd
    <3> QED BY <2>1, <2>4, <3>1, StackHome DEF InheritEnd
  <2> QED BY <1>5, <2>3, <2>4
<1>6. CASE SetPropertyEnd
  <2>1. /\ UNCHANGED <<heap, closureOf, frameCount, openUp, globals>>
        /\ frameCount > 0 /\ Operands(2) /\ IsKind(pend.a, "instance")
        /\ PopReplace(1, IF pend.n = 1 THEN pend.b ELSE pend.a)
    BY <1>6 DEF SetPropertyEnd, FramesAside, Resumed, Core, Held, OperandsHeld, OperandKinds, OperandCount
  <2>2. PICK old \in slot[pend.a]["fields"] \union {Nil} :
          slot' = [slot EXCEPT ![pend.a]["fields"] = (@ \ {old}) \union Obj(pend.b)]
    BY <1>6 DEF SetPropertyEnd
  <2>3. /\ pend.a \in H /\ pend.b \in H \union {Nil}
        /\ pend.a \in Value /\ pend.b \in Value
    BY <2>1, HomeLocals, HomeKind DEF Core, ControlOK
  <2> DEFINE S == (slot[pend.a]["fields"] \ {old}) \union Obj(pend.b)
             v == IF pend.n = 1 THEN pend.b ELSE pend.a
  <2>4. S \subseteq H
    BY <2>3, HomeField DEF Obj
  <2>5. top \in Nat /\ 2 < top
    BY <2>1, HomeOperands
  <2>6. PopReplace(1, v) /\ v \in Value /\ v \in H \union {Nil}
    BY <2>1, <2>3
  <2>7. slot' = [slot EXCEPT ![pend.a]["fields"] = S]
    BY <2>2
  <2> HIDE DEF S, v
  <2>8. Live(stack', top', H)
    BY <2>5, <2>6, PopReplaceLive
  <2> QED BY <2>1, <2>3, <2>4, <2>7, <2>8, FieldHome
<1>7. CASE GetField
  <2>1. frameCount > 0 /\ Operands(1) /\ IsKind(Peek(0), "instance")
    BY <1>7 DEF GetField, Running
  <2>2. PICK v \in slot[Peek(0)]["fields"] \union {Nil} : PopReplace(0, v)
    BY <1>7 DEF GetField
  <2>3. top \in Nat /\ 1 < top /\ Peek(0) \in H \union {Nil}
    BY <2>1, HomeOperands
  <2>4. v \in H \union {Nil} /\ v \in Value
    BY <2>1, <2>2, <2>3, HomeKind, HomeField DEF Value
  <2>5. Live(stack', top', H)
    BY <2>2, <2>3, <2>4, PopReplaceLive
  <2> QED BY <1>7, <2>5, StackHome DEF GetField, MovesOnly, gcVars
<1>8. CASE GetSuper
  <2>1. /\ UNCHANGED <<heap, slot, closureOf, frameCount, openUp, globals>>
        /\ frameCount > 0 /\ Operands(2)
    BY <1>8 DEF GetSuper, FramesAside, Running
  <2>2. top \in Nat /\ 2 < top
    BY <2>1, HomeOperands
  <2>3. (stack' = Cut(stack, top - 1) /\ top' = top - 1) \/ PopReplace(1, Nil)
    BY <1>8 DEF GetSuper
  <2>4. Live(stack', top', H)
    BY <2>2, <2>3, PopLive, PopReplaceLive
  <2> QED BY <2>1, <2>4, StackHome
<1>9. CASE BindMethodEnd
  <2> DEFINE refs == [NoRefs EXCEPT !["receiver"] = {pend.a}, !["method"] = {pend.b}]
  <2>1. PICK o \in Fresh("bound") : Put(o, "bound", refs) /\ PopReplace(0, o)
    BY <1>9 DEF BindMethodEnd
  <2>2. o \in Value
    BY FreshObjects DEF Core, ControlOK, Value
  <2>3. /\ frameCount > 0 /\ Operands(1)
        /\ IsKind(pend.a, "instance") /\ IsKind(pend.b, "closure")
    BY <1>9 DEF BindMethodEnd, Resumed, Core, Held, OperandsHeld, OperandKinds, OperandCount
  <2>4. top \in Nat /\ 1 < top /\ pend.a \in H /\ pend.b \in H
    BY <2>3, HomeOperands, HomeLocals, HomeKind
  <2>5. Live(stack', top', H \union {o})
    BY <2>1, <2>2, <2>4, PopReplaceLive
  <2>6. \A r \in Role : refs[r] \subseteq H \union {EmptyClass}
    BY <2>4 DEF NoRefs
  <2> HIDE DEF refs
  <2> QED BY <1>9, <2>1, <2>5, <2>6, PutHome DEF BindMethodEnd, FramesAside
<1> QED BY <1>1, <1>2, <1>3, <1>4, <1>5, <1>6, <1>7, <1>8, <1>9 DEF ClassNext

\* call() of a closure on a stack of objects of H.
LEMMA EnterHome ==
  ASSUME Core, NEW H, NEW c \in H, NEW argc, NEW s, NEW t \in Nat,
         Live(s, t, H), Framed(closureOf, frameCount, H), t <= StackMax, Enter(c, argc, s, t)
  PROVE  /\ Live(stack', top', H)
         /\ Framed(closureOf', frameCount', H)
<1>1. PICK n \in 0 .. MaxPadding : t + n <= StackMax /\ top' = t + n
  BY DEF Enter
<1>2. n \in Nat
  BY <1>1, ProgramAssumption
<1>3. \A i \in 0 .. top' - 1 : stack'[i] = IF i < t THEN s[i] ELSE Nil
  BY <1>1, <1>2, BoundAssumption DEF Enter, Cut, Slots
<1>4. Live(stack', top', H)
  BY <1>1, <1>2, <1>3 DEF Live
<1>5. Framed(closureOf', frameCount', H)
  BY BoundAssumption DEF Enter, Framed, Core, FramesOK
<1> QED BY <1>4, <1>5

\* An argument of a call is replaced by a value of H.
LEMMA ReplaceLive ==
  ASSUME NEW s, s \in [Slots -> Value], NEW t \in Nat, t <= StackMax,
         NEW H, Live(s, t, H), NEW i, NEW v \in H
  PROVE  Live([s EXCEPT ![i] = v], t, H)
<1>1. \A j \in 0 .. t - 1 : j \in DOMAIN s
  BY BoundAssumption DEF Slots
<1> QED BY <1>1 DEF Live

\* callValue() of a closure or of a bound method of H.
LEMMA EnterValueHome ==
  ASSUME Core, NEW H, Home(H), NEW c \in H, NEW argc, NEW s, s \in [Slots -> Value],
         Live(s, top, H), EnterValue(c, argc, s)
  PROVE  /\ Live(stack', top', H)
         /\ Framed(closureOf', frameCount', H)
<1>1. top \in Nat /\ top <= StackMax /\ Framed(closureOf, frameCount, H)
  BY BoundAssumption DEF Core, StackOK, Home
<1>2. CASE Enter(c, argc, s, top)
  BY <1>1, <1>2, EnterHome
<1>3. ASSUME NEW r \in slot[c]["receiver"], NEW m \in slot[c]["method"],
             Enter(m, argc, [s EXCEPT ![top - 1 - argc] = r], top)
      PROVE  /\ Live(stack', top', H)
             /\ Framed(closureOf', frameCount', H)
  <2>1. r \in H /\ m \in H
    BY HomeField DEF Role
  <2> DEFINE q == [s EXCEPT ![top - 1 - argc] = r]
  <2>2. Live(q, top, H)
    BY <1>1, <2>1, ReplaceLive
  <2> HIDE DEF q
  <2>3. Enter(m, argc, q, top)
    BY <1>3 DEF q
  <2> QED BY <1>1, <2>1, <2>2, <2>3, EnterHome
<1> QED BY <1>2, <1>3 DEF EnterValue

\* Calls and returns.
LEMMA CallsWithin ==
  ASSUME Core, NEW H, Home(H), CallNext
  PROVE  Within(H)
<1> /\ Nil \in Value /\ {"methods", "fields", "initializer"} \subseteq Role \ {"klass"}
    /\ "instance" \in Kind /\ H \subseteq Objects
  BY DEF Value, Role, Kind, Home, Core, HeapOK
<1> /\ StackOK /\ StackMax \in Nat /\ top \in Nat /\ top <= StackMax
    /\ Live(stack, top, H) /\ \A G : H \subseteq G => Live(stack, top, G)
    /\ Framed(closureOf, frameCount, H) /\ openUp \subseteq H /\ globals \subseteq H
    /\ stack \in [Slots -> Value]
    /\ \A r \in Role : NoRefs[r] = {}
  BY LiveGrows, BoundAssumption DEF Home, Core, NoRefs, StackOK
<1>1. ASSUME CallOnly, Live(stack', top', H), Framed(closureOf', frameCount', H)
      PROVE  Within(H)
  <2>1. H \union (heap' \ heap) = H
    BY <1>1 DEF CallOnly, gcVars
  <2>2. Keeps(H)
    BY <1>1 DEF CallOnly, gcVars, Home, Keeps
  <2> QED BY <2>1, <2>2 DEF Within
<1>2. \A q \in H : \A k \in slot[q]["klass"] : slot[k]["methods"] \subseteq H
  <2> TAKE q \in H
  <2> TAKE k \in slot[q]["klass"]
  <2>1. CASE k = EmptyClass
    BY <2>1 DEF Core, FieldsOfKind, NoRefs, Role
  <2>2. CASE k # EmptyClass
    <3>1. k \in H
      BY <2>2 DEF Home, Role
    <3> QED BY <3>1, HomeField
  <2> QED BY <2>1, <2>2
<1>3. CASE Call
  <2>1. CallOnly /\ frameCount > 0
    BY <1>3 DEF Call, Running
  <2>2. PICK argc \in 0 .. StackMax : Operands(argc + 1) /\ EnterValue(Peek(argc), argc, stack)
    BY <1>3 DEF Call
  <2>3. argc \in Nat /\ argc + 1 \in Nat
    BY <2>2
  <2>4. Peek(argc) \in H \union {Nil}
    BY <2>1, <2>2, <2>3, HomeOperands
  <2>5. Peek(argc) \in H
    BY <2>2, <2>4, HomeKind DEF EnterValue
  <2>6. Live(stack', top', H) /\ Framed(closureOf', frameCount', H)
    BY <2>2, <2>5, EnterValueHome
  <2> QED BY <1>1, <2>1, <2>6
<1>4. CASE Invoke
  <2>1. CallOnly /\ frameCount > 0
    BY <1>4 DEF Invoke, Running
  <2>2. PICK argc \in 0 .. StackMax :
          /\ Operands(argc + 1)
          /\ IsKind(Peek(argc), "instance")
          /\ \/ \E c \in slot[Peek(argc)]["fields"] :
                 EnterValue(c, argc, [stack EXCEPT ![top - 1 - argc] = c])
             \/ \E k \in slot[Peek(argc)]["klass"] : \E m \in slot[k]["methods"] :
                 Enter(m, argc, stack, top)
    BY <1>4 DEF Invoke
  <2>3. argc \in Nat /\ argc + 1 \in Nat
    BY <2>2
  <2>4. Peek(argc) \in H
    BY <2>1, <2>2, <2>3, HomeOperands, HomeKind
  <2>5. ASSUME NEW c \in slot[Peek(argc)]["fields"],
               EnterValue(c, argc, [stack EXCEPT ![top - 1 - argc] = c])
        PROVE  Live(stack', top', H) /\ Framed(closureOf', frameCount', H)
    <3> DEFINE s == [stack EXCEPT ![top - 1 - argc] = c]
    <3>1. c \in H /\ c \in Value
      BY <2>4, HomeField DEF Value
    <3>2. s \in [Slots -> Value] /\ Live(s, top, H) /\ EnterValue(c, argc, s)
      BY <2>5, <3>1, ReplaceLive
    <3> HIDE DEF s
    <3> QED BY <3>1, <3>2, EnterValueHome
  <2>6. ASSUME NEW k \in slot[Peek(argc)]["klass"], NEW m \in slot[k]["methods"],
               Enter(m, argc, stack, top)
        PROVE  Live(stack', top', H) /\ Framed(closureOf', frameCount', H)
    <3>1. m \in H
      BY <1>2, <2>4
    <3> QED BY <2>6, <3>1, EnterHome
  <2>7. Live(stack', top', H) /\ Framed(closureOf', frameCount', H)
    BY <2>2, <2>5, <2>6
  <2> QED BY <1>1, <2>1, <2>7
<1>5. CASE SuperInvoke
  <2>1. CallOnly /\ frameCount > 0 /\ Operands(2) /\ IsKind(Peek(0), "class")
    BY <1>5 DEF SuperInvoke, Running
  <2>2. PICK argc \in 0 .. StackMax, m \in slot[Peek(0)]["methods"] : Enter(m, argc, stack, top - 1)
    BY <1>5 DEF SuperInvoke
  <2>3. Peek(0) \in H /\ 2 < top
    BY <2>1, HomeOperands, HomeKind
  <2>4. m \in H
    BY <2>2, <2>3, HomeField
  <2>5. top - 1 \in Nat /\ top - 1 <= StackMax /\ Live(stack, top - 1, H)
    BY <2>3 DEF Live
  <2>6. Live(stack', top', H) /\ Framed(closureOf', frameCount', H)
    BY <2>2, <2>4, <2>5, EnterHome
  <2> QED BY <1>1, <2>1, <2>6
<1>6. CASE CallClass
  BY <1>6, SuspendHome DEF CallClass
<1>7. CASE InvokeClass
  <2>1. UNCHANGED <<heap, slot, closureOf, frameCount, openUp, globals>> /\ top' = top /\ frameCount > 0
    BY <1>7 DEF InvokeClass, FramesAside, Running
  <2>2. PICK argc \in 0 .. StackMax :
          /\ Operands(argc + 1)
          /\ IsKind(Peek(argc), "instance")
          /\ \E c \in slot[Peek(argc)]["fields"] : stack' = [stack EXCEPT ![top - 1 - argc] = c]
    BY <1>7 DEF InvokeClass
  <2>3. argc \in Nat /\ argc + 1 \in Nat
    BY <2>2
  <2>4. Peek(argc) \in H
    BY <2>1, <2>2, <2>3, HomeOperands, HomeKind
  <2>5. PICK c \in slot[Peek(argc)]["fields"] : stack' = [stack EXCEPT ![top - 1 - argc] = c]
    BY <2>2
  <2>6. c \in H
    BY <2>4, <2>5, HomeField
  <2>7. Live([stack EXCEPT ![top - 1 - argc] = c], top, H)
    BY <2>6, ReplaceLive
  <2> QED BY <2>1, <2>5, <2>7, StackHome
<1>8. CASE CallClassEnd
  <2> DEFINE refs == [NoRefs EXCEPT !["klass"] = {pend.a}]
             s(o) == [stack EXCEPT ![top - 1 - pend.n] = o]
  <2>1. PICK o \in Fresh("instance") :
          /\ Put(o, "instance", refs)
          /\ \/ \E i \in slot[pend.a]["initializer"] : Enter(i, pend.n, s(o), top)
             \/ stack' = s(o) /\ UNCHANGED <<top, closureOf, base, frameCount>>
    BY <1>8 DEF CallClassEnd
  <2>2. IsKind(pend.a, "class")
    BY <1>8 DEF CallClassEnd, Resumed, Core, Held, OperandKinds
  <2>3. pend.a \in H
    BY <2>2, HomeLocals, HomeKind
  <2> DEFINE G == H \union {o}
  <2>4. \A r \in Role : refs[r] \subseteq H \union {EmptyClass}
    BY <2>3 DEF NoRefs
  <2>5. Live(s(o), top, G)
    <3>1. Live(stack, top, G) /\ o \in G
      OBVIOUS
    <3> QED BY <3>1, ReplaceLive
  <2> HIDE DEF refs
  <2>6. /\ H \union (heap' \ heap) = G
        /\ \A w \in G, q \in Role : slot'[w][q] \subseteq G \union {EmptyClass}
        /\ \A w \in Addr \ G : slot'[w] = slot[w]
    BY <2>1, <2>4, PutFields
  <2>7. Framed(closureOf, frameCount, G) /\ openUp \subseteq G /\ globals \subseteq G
    BY DEF Framed
  <2>8. slot[pend.a]["initializer"] \subseteq G
    BY <2>3, HomeField
  <2> HIDE DEF G, s
  <2>9. Live(stack', top', G) /\ Framed(closureOf', frameCount', G)
    <3>1. ASSUME NEW i \in slot[pend.a]["initializer"], Enter(i, pend.n, s(o), top)
          PROVE  Live(stack', top', G) /\ Framed(closureOf', frameCount', G)
      BY <2>5, <2>7, <2>8, <3>1, EnterHome
    <3>2. CASE stack' = s(o) /\ UNCHANGED <<top, closureOf, base, frameCount>>
      BY <2>5, <2>7, <3>2
    <3> QED BY <2>1, <3>1, <3>2
  <2>10. openUp' \subseteq G /\ globals' \subseteq G
    BY <1>8, <2>7 DEF CallClassEnd
  <2>11. Keeps(G)
    BY <2>6, <2>9, <2>10 DEF Keeps
  <2> QED BY <2>6, <2>11 DEF Within
<1>9. CASE Return
  <2>1. /\ frameCount > 0 /\ Operands(1) /\ CloseUpvalues(Frame)
        /\ frameCount' = frameCount - 1
        /\ top' = IF frameCount = 1 THEN 0 ELSE Frame + 1
        /\ stack' = Cut([stack EXCEPT ![Frame] = Peek(0)], top')
        /\ closureOf' = [closureOf EXCEPT ![frameCount - 1] = Nil]
        /\ UNCHANGED <<heap, globals>>
    BY <1>9 DEF Return, Running
  <2>2. Peek(0) \in H \union {Nil} /\ 1 < top /\ Frame \in Nat /\ frameCount \in Nat /\ top - 1 > Frame
    BY <2>1, HomeOperands DEF Operands
  <2>3. Live(stack', top', H)
    <3>1. CASE frameCount = 1
      BY <2>1, <3>1 DEF Live
    <3>2. CASE frameCount # 1
      <4>1. top' = Frame + 1
        BY <2>1, <3>2
      <4>2. \A i \in 0 .. top' - 1 : stack'[i] = IF i = Frame THEN Peek(0) ELSE stack[i]
        BY <2>1, <2>2, <4>1 DEF Cut, Slots
      <4> QED BY <2>2, <4>1, <4>2 DEF Live
    <3> QED BY <3>1, <3>2
  <2>4. Framed(closureOf', frameCount', H)
    BY <2>1, <2>2 DEF Framed, Core, FramesOK
  <2>5. H \union (heap' \ heap) = H
    BY <2>1
  <2>6. Keeps(H)
    BY <2>1, <2>3, <2>4, CloseHome DEF Keeps
  <2> QED BY <2>5, <2>6 DEF Within
<1> QED BY <1>3, <1>4, <1>5, <1>6, <1>7, <1>8, <1>9 DEF CallNext

\* Every handler stays within the objects the program can get hold of.
LEMMA HandlersWithin ==
  ASSUME Core, NEW H, Home(H), MutatorNext
  PROVE  Within(H)
  BY MovesWithin, ArraysWithin, ClosuresWithin, ClassesWithin, CallsWithin DEF MutatorNext

-----------------------------------------------------------------------------
(* Reachability *)

\* The objects o refers to; &vm.emptyClass, which is static, is not one.
Refs(o) == (UNION {slot[o][r] : r \in Role}) \ {EmptyClass}

Closed(S) == \A o \in S : Refs(o) \subseteq S

\* Objects reachable from the roots of the VM: Abstract!Reachable.
Reach == {o \in heap : \A S \in SUBSET heap : Roots \subseteq S /\ Closed(S) => o \in S}

\* What Inductive does not say: a free address has no
\* fields, and the collector marks nothing but reachable objects.
FreeIsEmpty == \A o \in Objects \ heap : Refs(o) = {}

MarksReachable == phase = "trace" => Marked \subseteq Reach \union {EmptyClass}

Exact == FreeIsEmpty /\ MarksReachable

\* The members of Refs(o), before and after a step.
LEMMA RefsMembers ==
  ASSUME NEW o, NEW c
  PROVE  /\ c \in Refs(o) <=> c # EmptyClass /\ \E r \in Role : c \in slot[o][r]
         /\ c \in Refs(o)' <=> c # EmptyClass /\ \E r \in Role : c \in slot'[o][r]
<1>1. \A f : c \in UNION {f[r] : r \in Role} <=> \E r \in Role : c \in f[r]
  OBVIOUS
<1>2. c \in Refs(o) <=> c # EmptyClass /\ c \in UNION {slot[o][r] : r \in Role}
  BY DEF Refs
<1>3. c \in Refs(o)' <=> c # EmptyClass /\ c \in UNION {slot'[o][r] : r \in Role}
  BY DEF Refs
<1> QED BY <1>1, <1>2, <1>3, Zenon

\* A closed set is closed field by field, and conversely.
LEMMA ClosedFields ==
  ASSUME NEW S
  PROVE  /\ Closed(S) <=> \A o \in S, r \in Role : slot[o][r] \subseteq S \union {EmptyClass}
         /\ Closed(S)' <=> \A o \in S, r \in Role : slot'[o][r] \subseteq S \union {EmptyClass}
<1>1. Closed(S) <=> \A o \in S, r \in Role : slot[o][r] \subseteq S \union {EmptyClass}
  BY RefsMembers DEF Closed
<1>2. Closed(S)' <=> \A o \in S : Refs(o)' \subseteq S
  BY DEF Closed
<1>3. Closed(S)' <=> \A o \in S, r \in Role : slot'[o][r] \subseteq S \union {EmptyClass}
  BY <1>2, RefsMembers
<1> QED BY <1>1, <1>3

\* Reachable is the least closed set of objects with the roots.
LEMMA ReachLeast ==
  /\ \A S \in SUBSET heap : Roots \subseteq S /\ Closed(S) => Reach \subseteq S
  /\ \A S \in SUBSET heap' : Roots' \subseteq S /\ Closed(S)' => Reach' \subseteq S
  BY DEF Reach

\* What a program can reach is a home of its handlers.
LEMMA ReachHome ==
  ASSUME Core
  PROVE  Home(Reach) /\ Roots \subseteq Reach /\ Closed(Reach)
<1>1. Roots \subseteq heap
  BY DEF Core, NoDangling
<1>2. Roots \subseteq Reach
  BY <1>1 DEF Reach
<1>3. \A o \in heap : Refs(o) \subseteq heap
  BY RefsMembers DEF Core, NoDangling
<1>4. Closed(Reach)
  <2> SUFFICES ASSUME NEW o \in Reach, NEW c \in Refs(o)
               PROVE  c \in Reach
    BY DEF Closed
  <2>1. c \in heap
    BY <1>3 DEF Reach
  <2>2. ASSUME NEW S \in SUBSET heap, Roots \subseteq S, Closed(S)
        PROVE  c \in S
    <3>1. o \in S
      BY <2>2 DEF Reach
    <3> QED BY <2>2, <3>1 DEF Closed
  <2> QED BY <2>1, <2>2 DEF Reach
<1>5. /\ Live(stack, top, Reach) /\ Framed(closureOf, frameCount, Reach)
      /\ openUp \subseteq Reach /\ globals \subseteq Reach
  BY <1>2, RootsLive
<1>6. Reach \subseteq heap
  BY DEF Reach
<1> QED BY <1>2, <1>4, <1>5, <1>6, ClosedFields DEF Home

-----------------------------------------------------------------------------
(* The steps of the abstract heap *)

\* The program runs: what it can reach after a step of a handler it could
\* reach before, or has just allocated; the rest is as it was.
LEMMA HandlerRuns ==
  ASSUME Core, FreeIsEmpty, MutatorNext
  PROVE  /\ heap' = heap \/ \E o \in Objects \ heap : heap' = heap \union {o}
         /\ Reach' \subseteq Reach \union (heap' \ heap)
         /\ \A o \in heap \ Reach : slot'[o] = slot[o]
         /\ FreeIsEmpty'
         /\ phase' # "trace"
<1>0. PICK G : G = Reach \union (heap' \ heap)
  OBVIOUS
<1>1. MutatorStep
  BY HandlersAreMutators DEF Core, ControlOK
<1>2. /\ heap' = heap \/ \E o \in Objects \ heap : heap' = heap \union {o}
      /\ phase' # "trace"
  BY <1>1 DEF MutatorStep, NoAllocation, Allocates, Quiet
<1>3. Keeps(G)
  BY <1>0, ReachHome, HandlersWithin DEF Within
<1>4. Reach \subseteq heap /\ heap \subseteq Objects
  BY DEF Reach, Core, HeapOK
<1>5. G \in SUBSET heap' /\ G \cap heap = Reach
  BY <1>0, <1>2, <1>4
<1>6. Roots' \subseteq G /\ Closed(G)'
  BY <1>3, RootsLive, ClosedFields DEF Keeps
<1>7. Reach' \subseteq G
  BY <1>5, <1>6, ReachLeast
<1>8. \A o \in Addr \ G : slot'[o] = slot[o]
  BY <1>3 DEF Keeps
<1>9. \A o \in heap \ Reach : slot'[o] = slot[o]
  BY <1>4, <1>5, <1>8 DEF Addr
<1>10. FreeIsEmpty'
  <2> SUFFICES ASSUME NEW o \in Objects \ heap'
               PROVE  slot'[o] = slot[o] /\ o \in Objects \ heap
    BY DEF FreeIsEmpty, Refs
  <2> QED BY <1>2, <1>5, <1>8 DEF Addr
<1> QED BY <1>0, <1>2, <1>7, <1>9, <1>10

\* Nothing happens to the graph: MarkRoots, Blacken and stuttering steps.
LEMMA SameReach ==
  ASSUME UNCHANGED <<heap, slot, rootVars>>
  PROVE  Roots' = Roots /\ Reach' = Reach /\ \A o : Refs(o)' = Refs(o)
<1>1. Roots' = Roots
  BY DEF Roots, StackRoots, FrameRoots, rootVars
<1>2. \A o : Refs(o)' = Refs(o)
  BY DEF Refs
<1>3. \A S : Closed(S)' <=> Closed(S)
  BY <1>2 DEF Closed
<1> QED BY <1>1, <1>2, <1>3 DEF Reach

\* markRoots() marks the roots; no object was marked before.
LEMMA RootsMarkReachable ==
  ASSUME Core, Marks, Exact, CollectNext, MarkRoots
  PROVE  Exact'
<1>1. /\ phase = "roots" /\ phase' = "trace" /\ gcMark' = gcMark
      /\ isMarked' = [o \in Addr |-> IF o \in Roots THEN gcMark ELSE isMarked[o]]
      /\ UNCHANGED <<heap, slot, rootVars>>
  BY DEF MarkRoots, MarkAll
<1>2. \A o \in Objects : isMarked[o] # gcMark
  BY <1>1 DEF Marks
<1>3. Marked' \subseteq Roots \union {EmptyClass}
  BY <1>1, <1>2 DEF Marked, Addr
<1>4. Marked' \subseteq Reach' \union {EmptyClass}
  BY <1>1, <1>3, SameReach, ReachHome
<1>5. FreeIsEmpty'
  BY <1>1, SameReach DEF Exact, FreeIsEmpty
<1> QED BY <1>4, <1>5 DEF Exact, MarksReachable

\* blackenObject() marks what a reachable object refers to.
LEMMA BlackenMarksReachable ==
  ASSUME Core, Marks, Exact, CollectNext, Blacken
  PROVE  Exact'
<1>1. PICK o \in gray :
        /\ phase = "trace" /\ phase' = "trace" /\ gcMark' = gcMark
        /\ isMarked' = [w \in Addr |-> IF w \in Traced(o) THEN gcMark ELSE isMarked[w]]
        /\ UNCHANGED <<heap, slot, rootVars>>
  BY DEF Blacken, MarkAll
<1>2. Marked' \subseteq Marked \union Traced(o)
  BY <1>1 DEF Marked
<1>3. Marked \subseteq Reach \union {EmptyClass} /\ o \in Marked
  BY <1>1 DEF Exact, MarksReachable, Marks, TriColour
<1>4. Traced(o) \subseteq Refs(o) \union {EmptyClass}
  <2>1. kind[o] \in Kind
    BY <1>3 DEF Core, HeapOK, Marked
  <2>2. TracedRoles(kind[o]) \subseteq Role
    BY <2>1 DEF TracedRoles, Role, Kind
  <2> QED BY <2>2, RefsMembers DEF Traced
<1>5. Refs(o) \subseteq Reach
  <2>1. CASE o \in Reach
    BY <2>1, ReachHome DEF Closed
  <2>2. CASE o = EmptyClass
    BY <2>2 DEF Refs, Core, FieldsOfKind, NoRefs
  <2> QED BY <1>3, <2>1, <2>2
<1>6. Marked' \subseteq Reach' \union {EmptyClass}
  BY <1>1, <1>2, <1>3, <1>4, <1>5, SameReach
<1>7. FreeIsEmpty'
  BY <1>1, SameReach DEF Exact, FreeIsEmpty
<1> QED BY <1>6, <1>7 DEF Exact, MarksReachable

\* sweep() leaves what is reachable, and nothing else.
LEMMA SweepCollects ==
  ASSUME Core, Marks, Exact, CollectNext, Sweep
  PROVE  /\ heap' = Reach
         /\ \A o \in Objects : Refs(o)' = IF o \in Reach THEN Refs(o) ELSE {}
         /\ Roots' = Roots
         /\ Exact'
<1>1. /\ phase = "trace" /\ gray = {} /\ phase' = "resume"
      /\ heap' = heap \intersect Marked
      /\ slot' = [o \in Addr |-> IF o \in heap \ Marked THEN NoRefs ELSE slot[o]]
      /\ UNCHANGED rootVars
  BY DEF Sweep
<1>2. /\ Roots \subseteq Marked
      /\ \A o \in Marked, r \in Role : slot[o][r] \subseteq Marked
      /\ Marked \subseteq Reach \union {EmptyClass}
  BY <1>1 DEF Marks, TriColour, Exact, MarksReachable
<1>3. heap \subseteq Objects /\ EmptyClass \notin heap /\ Roots \subseteq heap /\ Reach \subseteq heap
  BY AddressAssumption DEF Core, HeapOK, NoDangling, Reach
<1>4. heap \intersect Marked \subseteq Reach
  BY <1>2, <1>3
<1>5. Reach \subseteq heap \intersect Marked
  <2>1. Closed(heap \intersect Marked)
    BY <1>2, RefsMembers DEF Closed, Core, NoDangling
  <2> QED BY <1>2, <1>3, <2>1, ReachLeast
<1>6. heap' = Reach
  BY <1>1, <1>4, <1>5
<1>7. \A o \in Objects : Refs(o)' = IF o \in Reach THEN Refs(o) ELSE {}
  <2> TAKE o \in Objects
  <2>1. slot'[o] = IF o \in heap \ Marked THEN NoRefs ELSE slot[o]
    BY <1>1 DEF Addr
  <2>2. CASE o \in heap \ Marked
    BY <1>5, <2>1, <2>2 DEF Refs, NoRefs
  <2>3. CASE o \in heap \intersect Marked
    BY <1>4, <2>1, <2>3 DEF Refs
  <2>4. CASE o \notin heap
    <3>1. Refs(o) = {} /\ o \notin Reach
      BY <1>3, <2>4 DEF Exact, FreeIsEmpty
    <3>2. Refs(o)' = Refs(o)
      BY <2>1, <2>4 DEF Refs
    <3> QED BY <3>1, <3>2
  <2> QED BY <2>2, <2>3, <2>4
<1>8. Roots' = Roots
  BY <1>1 DEF Roots, StackRoots, FrameRoots, rootVars
<1>9. Exact'
  BY <1>1, <1>6, <1>7 DEF Exact, FreeIsEmpty, MarksReachable
<1> QED BY <1>6, <1>7, <1>8, <1>9

-----------------------------------------------------------------------------
(* The refinement *)

\* The state initVM() leaves: no object, no root, no field.
LEMMA InitExact ==
  ASSUME Init
  PROVE  Exact /\ Abstract!Init
<1>1. Roots = {}
  BY DEF Init, Roots, StackRoots, FrameRoots
<1>2. \A o \in Objects : Refs(o) = {}
  BY RefsMembers DEF Init, NoRefs, Addr
<1>3. [o \in Objects |-> (UNION {slot[o][r] : r \in Role}) \ {EmptyClass}] = [o \in Objects |-> {}]
  BY <1>2 DEF Refs
<1>4. Abstract!Init
  BY <1>1, <1>3 DEF Init, Abstract!Init
<1> QED BY <1>2, <1>4 DEF Init, Exact, FreeIsEmpty, MarksReachable

\* Each step preserves Exact.
LEMMA ExactStep == Inductive /\ Exact /\ [Next]_vars => Exact'
<1> SUFFICES ASSUME Core, Marks, Exact, [Next]_vars
             PROVE  Exact'
  BY InductiveParts
<1>1. CASE MutatorNext
  BY <1>1, HandlerRuns DEF Exact, MarksReachable
<1>2. CASE CollectNext
  BY <1>2, RootsMarkReachable, BlackenMarksReachable, SweepCollects DEF CollectNext, Collect
<1>3. CASE UNCHANGED vars
  <2>1. Reach' = Reach /\ Marked' = Marked /\ \A o : Refs(o)' = Refs(o)
    BY <1>3, SameReach DEF vars, gcVars, Marked
  <2> QED BY <1>3, <2>1 DEF Exact, FreeIsEmpty, MarksReachable, vars, gcVars
<1> QED BY <1>1, <1>2, <1>3 DEF Next, MutatorNext

\* The heap promised to the program, in terms of Reach and Refs.
LEMMA AbstractHeap ==
  /\ heap \subseteq Objects => Abstract!Reachable = Reach
  /\ heap' \subseteq Objects => Abstract!Reachable' = Reach'
<1> DEFINE refs == [o \in Objects |-> (UNION {slot[o][r] : r \in Role}) \ {EmptyClass}]
<1>1. \A o \in Objects : refs[o] = Refs(o)
  BY DEF Refs
<1>2. \A o \in Objects : refs'[o] = Refs(o)'
  BY DEF Refs
<1>3. \A S : /\ Abstract!Closed(S) <=> \A o \in S : refs[o] \subseteq S
             /\ Abstract!Closed(S)' <=> \A o \in S : refs'[o] \subseteq S
             /\ Closed(S)' <=> \A o \in S : Refs(o)' \subseteq S
  BY DEF Abstract!Closed, Closed
<1> HIDE DEF refs
<1>4. /\ \A S \in SUBSET Objects : Abstract!Closed(S) <=> Closed(S)
      /\ \A S \in SUBSET Objects : Abstract!Closed(S)' <=> Closed(S)'
  BY <1>1, <1>2, <1>3 DEF Closed
<1>5. heap \subseteq Objects => Abstract!Reachable = Reach
  BY <1>4 DEF Abstract!Reachable, Reach
<1>6. heap' \subseteq Objects => Abstract!Reachable' = Reach'
  BY <1>4 DEF Abstract!Reachable, Reach
<1> QED BY <1>5, <1>6

\* Each step is a step of the abstract heap or leaves it as it is.
LEMMA AbstractStep ==
  ASSUME Inductive, Inductive', Exact, [Next]_vars
  PROVE  [Abstract!Next]_(Abstract!vars)
<1> /\ Core /\ Marks /\ HeapOK
    /\ Abstract!Reachable = Reach /\ Abstract!Reachable' = Reach'
    /\ heap \subseteq Objects
  <2>1. Core /\ Marks /\ Core' /\ HeapOK /\ HeapOK'
    BY InductiveParts DEF Core
  <2>2. heap \subseteq Objects /\ heap' \subseteq Objects
    BY <2>1 DEF HeapOK
  <2> QED BY <2>1, <2>2, AbstractHeap
<1> DEFINE refs == [o \in Objects |-> (UNION {slot[o][r] : r \in Role}) \ {EmptyClass}]
<1>1. \A o \in Objects : refs[o] = Refs(o) /\ refs'[o] = Refs(o)'
  BY DEF Refs
<1>2. CASE MutatorNext
  <2>1. /\ heap' = heap \/ \E o \in Objects \ heap : heap' = heap \union {o}
        /\ Reach' \subseteq Reach \union (heap' \ heap)
        /\ \A o \in heap \ Reach : slot'[o] = slot[o]
    BY <1>2, HandlerRuns DEF Exact
  <2>2. \A o \in heap \ Reach : refs'[o] = refs[o]
    BY <2>1
  <2>3. Abstract!Run
    BY <2>1, <2>2 DEF Abstract!Run
  <2> QED BY <2>3 DEF Abstract!Next
<1>3. CASE CollectNext /\ (MarkRoots \/ Blacken)
  <2>1. UNCHANGED <<heap, slot, rootVars>>
    BY <1>3 DEF CollectNext, MarkRoots, Blacken
  <2> QED BY <2>1, SameReach DEF Abstract!vars
<1>4. CASE CollectNext /\ Sweep
  <2>1. /\ heap' = Reach /\ Roots' = Roots
        /\ \A o \in Objects : Refs(o)' = IF o \in Reach THEN Refs(o) ELSE {}
    BY <1>4, SweepCollects
  <2>2. refs' = [o \in Objects |-> IF o \in Reach THEN refs[o] ELSE {}]
    BY <1>1, <2>1
  <2>3. Abstract!CollectGarbage
    BY <2>1, <2>2 DEF Abstract!CollectGarbage
  <2> QED BY <2>3 DEF Abstract!Next
<1>5. CASE UNCHANGED vars
  <2>1. UNCHANGED <<heap, slot, rootVars>>
    BY <1>5 DEF vars, gcVars
  <2> QED BY <2>1, SameReach DEF Abstract!vars
<1> QED BY <1>2, <1>3, <1>4, <1>5 DEF Next, MutatorNext, CollectNext, Collect

\* The collector frees exactly what is unreachable, whatever the program and
\* the moment of the collection, and no handler makes an unreachable object
\* reachable again.
THEOREM CollectsExactly == Spec => ImplementsReachHeap
<1>1. Init => Exact /\ Abstract!Init
  BY InitExact
<1>2. Inductive /\ Exact /\ [Next]_vars => Exact'
  BY ExactStep
<1>3. Inductive /\ Inductive' /\ Exact /\ [Next]_vars => [Abstract!Next]_(Abstract!vars)
  BY AbstractStep
<1> QED BY <1>1, <1>2, <1>3, InductiveInvariant, PTL DEF Spec, ImplementsReachHeap, Abstract!Spec
=============================================================================
