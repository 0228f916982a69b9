----------------------------- MODULE TableProofs -----------------------------
(***************************************************************************)
(* Proofs about Table, for any keys, any hashes and any first capacity: a  *)
(* search ends, the slot cached in a key is the one a search finds, and    *)
(* the table is the map of LoxMap.                                         *)
(*                                                                         *)
(* The invariant is that of open addressing: no key occurs twice, and no   *)
(* hole lies between the place where a search for a key begins and the     *)
(* place where the key is. Tombstones are what keeps it so.                *)
(***************************************************************************)
EXTENDS Table, SetInduction, FiniteSetTheorems

-----------------------------------------------------------------------------
(* Arrays of entries *)

\* es is an array of entries; one without a key is a hole or a tombstone.
IsArray(es) ==
  /\ Size(es) \in Nat
  /\ es \in [0 .. Size(es) - 1 -> Entry]
  /\ \A i \in DOMAIN es : es[i].key = NoKey => es[i] \in {Hole, Tombstone}

HasHole(es) == \E i \in DOMAIN es : es[i] = Hole

\* No key occurs twice.
Unique(es) == \A i \in Live(es), j \in Live(es) : es[i].key = es[j].key => i = j

\* Slot i is the d-th that a search for k looks at, and it meets no hole before.
Reaches(es, k, d, i) ==
  /\ d \in 0 .. Size(es) - 1
  /\ Probe(es, k, d) = i
  /\ \A c \in 0 .. d - 1 : es[Probe(es, k, c)] # Hole

Searchable(es) ==
  /\ IsArray(es)
  /\ Unique(es)
  /\ \A i \in Live(es) : \E d \in Nat : Reaches(es, es[i].key, d, i)

\* The size of an array is the number of its slots.
LEMMA SizeIs ==
  ASSUME NEW n \in Nat, NEW es, DOMAIN es = 0 .. n - 1
  PROVE  Size(es) = n
  <1>1. Cardinality(0 .. n - 1) = n
    BY FS_Interval
  <1> QED BY <1>1 DEF Size

\* A search looks at slots of the array,
LEMMA ProbeIn ==
  ASSUME NEW es, IsArray(es), Size(es) # 0, NEW k \in Keys, NEW d \in Nat
  PROVE  Probe(es, k, d) \in DOMAIN es
  <1>1. Hash[k] + d \in Nat /\ Size(es) \in Nat \ {0} /\ DOMAIN es = 0 .. Size(es) - 1
    BY TableAssumption DEF IsArray
  <1>2. (Hash[k] + d) % Size(es) \in 0 .. Size(es) - 1
    BY <1>1, Remainder
  <1> QED BY <1>1, <1>2 DEF Probe

\* and, given time, at each of them.
LEMMA ProbeReaches ==
  ASSUME NEW es, IsArray(es), NEW k \in Keys, NEW h \in DOMAIN es
  PROVE  \E d \in 0 .. Size(es) - 1 : Probe(es, k, d) = h
  <1> DEFINE n == Size(es)
             a == Hash[k]
  <1>1. a \in Nat /\ n \in Nat /\ h \in 0 .. n - 1
    BY TableAssumption DEF IsArray
  <1>2. n \in Nat \ {0}
    BY <1>1
  <1>3. \E d \in 0 .. n - 1 : (a + d) % n = h
    <2> HIDE DEF n, a
    <2> QED BY <1>1, <1>2, RemainderReached
  <1>4. \A d : Probe(es, k, d) = (a + d) % n
    BY DEF Probe
  <1> HIDE DEF n, a
  <1>5. \E d \in 0 .. n - 1 : Probe(es, k, d) = h
    BY <1>3, <1>4
  <1> QED BY <1>5 DEF n

\* The least element of a set of naturals.
LEMMA FirstIs ==
  ASSUME NEW D, D \subseteq Nat, D # {}
  PROVE  First(D) \in D /\ \A c \in D : First(D) <= c
  BY LeastNat DEF First

-----------------------------------------------------------------------------
(* findEntry *)

\* A search ends, if the array has a hole: at a slot, and not before.
LEMMA StopIs ==
  ASSUME NEW es, IsArray(es), HasHole(es), NEW k \in Keys
  PROVE  /\ Stop(es, k) \in 0 .. Size(es) - 1
         /\ Stops(es, k, Stop(es, k))
         /\ \A c \in 0 .. Stop(es, k) - 1 : ~Stops(es, k, c)
         /\ Probe(es, k, Stop(es, k)) \in DOMAIN es
  <1> DEFINE D == {d \in 0 .. Size(es) - 1 : Stops(es, k, d)}
  <1>1. PICK h \in DOMAIN es : es[h] = Hole
    BY DEF HasHole
  <1>2. Size(es) \in Nat /\ Size(es) # 0
    BY <1>1 DEF IsArray
  <1>3. PICK d \in 0 .. Size(es) - 1 : Probe(es, k, d) = h
    BY ProbeReaches
  <1>4. d \in D
    BY <1>1, <1>3 DEF Stops
  <1>5. D \subseteq Nat
    BY <1>2
  <1>6. Stop(es, k) = First(D)
    BY DEF Stop
  <1>7. First(D) \in D /\ \A c \in D : First(D) <= c
    <2> HIDE DEF D
    <2> QED BY <1>4, <1>5, FirstIs
  <1>8. Stop(es, k) \in 0 .. Size(es) - 1 /\ Stops(es, k, Stop(es, k))
    BY <1>6, <1>7
  <1>9. ASSUME NEW c \in 0 .. Stop(es, k) - 1
        PROVE  ~Stops(es, k, c)
    <2>1. c \in 0 .. Size(es) - 1 /\ ~(Stop(es, k) <= c)
      BY <1>2, <1>8
    <2> QED BY <1>6, <1>7, <2>1
  <1>10. Probe(es, k, Stop(es, k)) \in DOMAIN es
    BY <1>2, <1>8, ProbeIn
  <1> QED BY <1>8, <1>9, <1>10

\* A search for a key that is there ends where the key is.
LEMMA FindPresent ==
  ASSUME NEW es, Searchable(es), HasHole(es), NEW i \in Live(es)
  PROVE  /\ es[i].key \in Keys
         /\ Probe(es, es[i].key, Stop(es, es[i].key)) = i
         /\ FindEntry(es, es[i].key) = i
  <1> DEFINE k == es[i].key
             s == Stop(es, k)
  <1>1. IsArray(es) /\ Unique(es) /\ i \in DOMAIN es /\ k # NoKey
    BY DEF Searchable, Live
  <1>2. k \in Keys
    BY <1>1 DEF IsArray, Entry
  <1>3. PICK d \in Nat : Reaches(es, k, d, i)
    BY DEF Searchable
  <1>4. /\ s \in 0 .. Size(es) - 1 /\ Stops(es, k, s)
        /\ \A c \in 0 .. s - 1 : ~Stops(es, k, c)
        /\ Probe(es, k, s) \in DOMAIN es
    BY <1>1, <1>2, StopIs
  <1> HIDE DEF s
  <1>5. s <= d
    <2>1. Stops(es, k, d)
      BY <1>3 DEF Stops, Reaches
    <2>2. d \notin 0 .. s - 1
      BY <1>4, <2>1
    <2> QED BY <1>4, <2>2
  <1>6. es[Probe(es, k, s)].key = k
    <2>1. CASE s = d
      BY <1>3, <2>1 DEF Reaches
    <2>2. CASE s < d
      <3>1. s \in 0 .. d - 1
        BY <1>4, <2>2
      <3>2. es[Probe(es, k, s)] # Hole
        BY <1>3, <3>1 DEF Reaches
      <3> QED BY <1>4, <3>2 DEF Stops
    <2> QED BY <1>4, <1>5, <2>1, <2>2
  <1>7. Probe(es, k, s) = i
    <2>1. Probe(es, k, s) \in Live(es)
      BY <1>1, <1>4, <1>6 DEF Live
    <2> QED BY <1>1, <1>6, <2>1 DEF Unique
  <1>8. es[Probe(es, k, s)] # Hole
    BY <1>1, <1>7 DEF Hole
  <1>9. FindEntry(es, k) = i
    BY <1>7, <1>8 DEF FindEntry, s
  <1> QED BY <1>2, <1>7, <1>9 DEF s

\* A search for a key that is not there finds a place for it that a search
\* reaches: the first tombstone it passed, or the hole where it ended.
LEMMA FindAbsent ==
  ASSUME NEW es, Searchable(es), HasHole(es), NEW k \in Keys,
         \A i \in Live(es) : es[i].key # k
  PROVE  /\ FindEntry(es, k) \in DOMAIN es
         /\ es[FindEntry(es, k)].key = NoKey
         /\ \E d \in Nat : Reaches(es, k, d, FindEntry(es, k))
  <1> DEFINE s == Stop(es, k)
             T == Tombs(es, k)
  <1>1. IsArray(es) /\ Size(es) \in Nat
    BY DEF Searchable, IsArray
  <1>2. /\ s \in 0 .. Size(es) - 1 /\ Stops(es, k, s)
        /\ \A c \in 0 .. s - 1 : ~Stops(es, k, c)
        /\ Probe(es, k, s) \in DOMAIN es
    BY <1>1, StopIs
  <1>3. es[Probe(es, k, s)] = Hole
    <2>1. es[Probe(es, k, s)].key # k
      BY <1>2, TableAssumption DEF Live
    <2> QED BY <1>2, <2>1 DEF Stops
  <1>4. \A c \in 0 .. s - 1 : es[Probe(es, k, c)] # Hole
    BY <1>2 DEF Stops
  <1>5. FindEntry(es, k) = Probe(es, k, IF T # {} THEN First(T) ELSE s)
    BY <1>3 DEF FindEntry
  <1>6. CASE T = {}
    <2>1. FindEntry(es, k) = Probe(es, k, s)
      BY <1>5, <1>6
    <2> QED BY <1>2, <1>3, <1>4, <2>1 DEF Reaches, Hole
  <1>7. CASE T # {}
    <2> DEFINE t == First(T)
    <2>1. T \subseteq Nat /\ T = {d \in 0 .. s : es[Probe(es, k, d)] = Tombstone}
      BY <1>2 DEF Tombs
    <2>2. t \in T
      <3> HIDE DEF T
      <3> QED BY <1>7, <2>1, FirstIs
    <2>3. t \in 0 .. s /\ es[Probe(es, k, t)] = Tombstone /\ FindEntry(es, k) = Probe(es, k, t)
      BY <1>5, <1>7, <2>1, <2>2
    <2> HIDE DEF t
    <2>4. t \in 0 .. Size(es) - 1 /\ t \in Nat /\ \A c \in 0 .. t - 1 : c \in 0 .. s - 1
      BY <1>1, <1>2, <2>3
    <2>5. Probe(es, k, t) \in DOMAIN es
      BY <1>1, <1>2, <2>4, ProbeIn
    <2> QED BY <1>4, <2>3, <2>4, <2>5 DEF Reaches, Tombstone
  <1> QED BY <1>6, <1>7

-----------------------------------------------------------------------------
(* Writing to an array *)

Wrote(es, i, e) == [es EXCEPT ![i] = e]

Used(es) == {i \in DOMAIN es : es[i] # Hole}

\* The map that an array holds.
MapOf(es) ==
  [k \in {es[i].key : i \in Live(es)} |->
     es[CHOOSE i \in Live(es) : es[i].key = k].value]

\* The map has the value of each live entry under its key.
LEMMA MapOfLive ==
  ASSUME NEW es, Unique(es), NEW i \in Live(es)
  PROVE  es[i].key \in DOMAIN MapOf(es) /\ MapOf(es)[es[i].key] = es[i].value
  <1> DEFINE k == es[i].key
             j == CHOOSE j \in Live(es) : es[j].key = k
  <1>1. j \in Live(es) /\ es[j].key = k
    OBVIOUS
  <1>2. j = i
    BY <1>1 DEF Unique
  <1>3. MapOf(es)[k] = es[j].value
    BY DEF MapOf
  <1> QED BY <1>2, <1>3 DEF MapOf

\* Writing an entry leaves an array. Holes stay where they are elsewhere.
LEMMA WriteArray ==
  ASSUME NEW es, IsArray(es), NEW i \in DOMAIN es, NEW e \in Entry,
         e.key = NoKey => e \in {Hole, Tombstone},
         NEW new, new = Wrote(es, i, e)
  PROVE  /\ IsArray(new) /\ DOMAIN new = DOMAIN es /\ Size(new) = Size(es)
         /\ new[i] = e /\ \A j \in DOMAIN es : j # i => new[j] = es[j]
         /\ \A k, d : Probe(new, k, d) = Probe(es, k, d)
  <1>1. /\ DOMAIN new = DOMAIN es /\ new[i] = e /\ \A j \in DOMAIN es : j # i => new[j] = es[j]
    BY DEF IsArray, Wrote
  <1>2. Size(new) = Size(es)
    BY <1>1 DEF Size
  <1>3. new \in [0 .. Size(es) - 1 -> Entry]
    BY DEF IsArray, Wrote
  <1>4. IsArray(new)
    BY <1>1, <1>2, <1>3 DEF IsArray
  <1> QED BY <1>1, <1>2, <1>4 DEF Probe

\* Where an entry is written that is no hole, a search reaches what it reached.
LEMMA ReachesStill ==
  ASSUME NEW es, IsArray(es), NEW i \in DOMAIN es, NEW e \in Entry, e # Hole,
         e.key = NoKey => e = Tombstone,
         NEW new, new = Wrote(es, i, e),
         NEW k \in Keys, NEW d \in Nat, NEW j, Reaches(es, k, d, j)
  PROVE  Reaches(new, k, d, j)
  <1>1. /\ IsArray(new) /\ DOMAIN new = DOMAIN es /\ Size(new) = Size(es)
        /\ new[i] = e /\ \A l \in DOMAIN es : l # i => new[l] = es[l]
        /\ \A c : Probe(new, k, c) = Probe(es, k, c)
    BY WriteArray
  <1>2. Size(es) # 0 /\ d \in 0 .. Size(es) - 1 /\ Size(es) \in Nat
    BY DEF Reaches, IsArray
  <1>3. ASSUME NEW c \in 0 .. d - 1
        PROVE  new[Probe(es, k, c)] # Hole
    <2>1. Probe(es, k, c) \in DOMAIN es
      BY <1>2, ProbeIn
    <2>2. es[Probe(es, k, c)] # Hole
      BY DEF Reaches
    <2> QED BY <1>1, <2>1, <2>2
  <1> QED BY <1>1, <1>2, <1>3 DEF Reaches

\* new is es with the entry e added in place i, which held none.
Adds(new, es, i, e) ==
  /\ Searchable(new) /\ DOMAIN new = DOMAIN es /\ Size(new) = Size(es)
  /\ i \in DOMAIN es /\ i \notin Live(es) /\ new[i] = e
  /\ \A j \in DOMAIN es : j # i => new[j] = es[j]
  /\ Live(new) = Live(es) \union {i}
  /\ Used(new) = Used(es) \union {i}

\* Where findEntry chose the place.
LEMMA Inserted ==
  ASSUME NEW es, Searchable(es), HasHole(es),
         NEW e \in Entry, e.key \in Keys, \A l \in Live(es) : es[l].key # e.key
  PROVE  Adds(Wrote(es, FindEntry(es, e.key), e), es, FindEntry(es, e.key), e)
  <1> DEFINE k == e.key
             i == FindEntry(es, k)
             new == Wrote(es, i, e)
  <1>1. IsArray(es) /\ Unique(es)
    BY DEF Searchable
  <1>2. /\ i \in DOMAIN es /\ es[i].key = NoKey /\ \E d \in Nat : Reaches(es, k, d, i)
    BY FindAbsent
  <1>3. /\ e \in Entry /\ e.key = k /\ e.key # NoKey /\ e # Hole
    <2>1. e.key # NoKey
      BY TableAssumption
    <2> QED BY <2>1 DEF Hole
  <1>12. k \in Keys
    OBVIOUS
  <1> HIDE DEF k, i, new
  <1>11. i = FindEntry(es, k) /\ new = Wrote(es, i, e)
    BY DEF i, new
  <1>4. /\ IsArray(new) /\ DOMAIN new = DOMAIN es /\ Size(new) = Size(es)
        /\ new[i] = e /\ \A j \in DOMAIN es : j # i => new[j] = es[j]
    BY <1>1, <1>2, <1>3, <1>11, WriteArray
  <1>5. Live(new) = Live(es) \union {i} /\ i \notin Live(es)
    BY <1>2, <1>3, <1>4 DEF Live
  <1>6. Used(new) = Used(es) \union {i}
    BY <1>2, <1>3, <1>4 DEF Used
  <1>7. \A j \in Live(es) : j # i /\ j \in DOMAIN es /\ new[j] = es[j]
    BY <1>4, <1>5 DEF Live
  <1>8. Unique(new)
    BY <1>1, <1>3, <1>4, <1>5, <1>7 DEF Unique
  <1>9. ASSUME NEW j \in Live(new)
        PROVE  \E d \in Nat : Reaches(new, new[j].key, d, j)
    <2>1. CASE j = i
      <3>1. PICK d \in Nat : Reaches(es, k, d, i)
        BY <1>2
      <3>2. Reaches(new, k, d, i)
        BY <1>1, <1>2, <1>3, <1>11, <1>12, <3>1, ReachesStill
      <3> QED BY <1>3, <1>4, <2>1, <3>2
    <2>2. CASE j \in Live(es)
      <3>1. new[j] = es[j] /\ es[j].key \in Keys
        BY <1>1, <1>7, <2>2 DEF IsArray, Live, Entry
      <3>2. PICK d \in Nat : Reaches(es, es[j].key, d, j)
        BY <2>2 DEF Searchable
      <3>3. Reaches(new, es[j].key, d, j)
        BY <1>1, <1>2, <1>3, <1>11, <3>1, <3>2, ReachesStill
      <3> QED BY <3>1, <3>3
    <2> QED BY <1>5, <2>1, <2>2
  <1>10. Searchable(new)
    BY <1>4, <1>8, <1>9 DEF Searchable
  <1> QED BY <1>2, <1>4, <1>5, <1>6, <1>10 DEF Adds, new, i, k

\* new is es with the live entry i replaced by e.
Replaces(new, es, i, e) ==
  /\ Searchable(new) /\ DOMAIN new = DOMAIN es /\ Size(new) = Size(es)
  /\ i \in Live(es) /\ new[i] = e
  /\ \A j \in DOMAIN es : j # i => new[j] = es[j]
  /\ Used(new) = Used(es)
  /\ Live(new) = IF e = Tombstone THEN Live(es) \ {i} ELSE Live(es)

\* By an entry with the same key, or by a tombstone.
LEMMA Overwritten ==
  ASSUME NEW es, Searchable(es), NEW i \in Live(es),
         NEW e \in Entry, e.key = es[i].key \/ e = Tombstone
  PROVE  Replaces(Wrote(es, i, e), es, i, e)
  <1> DEFINE new == Wrote(es, i, e)
  <1>11. new = Wrote(es, i, e)
    OBVIOUS
  <1> HIDE DEF new
  <1>1. /\ IsArray(es) /\ Unique(es) /\ i \in DOMAIN es /\ es[i].key # NoKey /\ es[i] # Hole
    BY DEF Searchable, Live, Hole
  <1>2. e # Hole /\ (e.key = NoKey <=> e = Tombstone)
    <2>1. Tombstone # Hole /\ Tombstone.key = NoKey /\ Hole.key = NoKey
      BY TableAssumption DEF Hole, Tombstone
    <2> QED BY <1>1, <2>1
  <1>3. /\ IsArray(new) /\ DOMAIN new = DOMAIN es /\ Size(new) = Size(es)
        /\ new[i] = e /\ \A j \in DOMAIN es : j # i => new[j] = es[j]
    BY <1>1, <1>2, <1>11, WriteArray
  <1>4. Used(new) = Used(es)
    BY <1>1, <1>2, <1>3 DEF Used
  <1>5. Live(new) = IF e = Tombstone THEN Live(es) \ {i} ELSE Live(es)
    BY <1>1, <1>2, <1>3 DEF Live
  <1>6. \A j \in Live(new) : j \in Live(es) /\ j \in DOMAIN es /\ new[j].key = es[j].key
    BY <1>1, <1>2, <1>3, <1>5 DEF Live
  <1>7. Unique(new)
    BY <1>1, <1>6 DEF Unique
  <1>8. ASSUME NEW j \in Live(new)
        PROVE  \E d \in Nat : Reaches(new, new[j].key, d, j)
    <2>1. j \in Live(es) /\ new[j].key = es[j].key /\ es[j].key \in Keys
      BY <1>1, <1>6 DEF IsArray, Live, Entry
    <2>2. PICK d \in Nat : Reaches(es, es[j].key, d, j)
      BY <2>1 DEF Searchable
    <2>3. Reaches(new, es[j].key, d, j)
      BY <1>1, <1>2, <2>1, <2>2, <1>11, ReachesStill
    <2> QED BY <2>1, <2>3
  <1>9. Searchable(new)
    BY <1>3, <1>7, <1>8 DEF Searchable
  <1> QED BY <1>3, <1>4, <1>5, <1>9 DEF Replaces, new

-----------------------------------------------------------------------------
(* adjustCapacity *)

\* The live entries among the first n.
Before(es, n) == {i \in Live(es) : i < n}

\* One entry more is among the first n + 1 if it is live.
LEMMA BeforeNext ==
  ASSUME NEW es, IsArray(es), NEW n \in Nat
  PROVE  /\ n \notin Before(es, n)
         /\ n \in Live(es) => Before(es, n + 1) = Before(es, n) \union {n}
         /\ n \notin Live(es) => Before(es, n + 1) = Before(es, n)
  <1>1. \A i \in Live(es) : i \in Nat
    BY DEF IsArray, Live
  <1>2. \A i \in Live(es) : i < n + 1 <=> i < n \/ i = n
    BY <1>1
  <1>3. ASSUME n \in Live(es) PROVE Before(es, n + 1) = Before(es, n) \union {n}
    BY <1>2, <1>3 DEF Before
  <1>4. ASSUME n \notin Live(es) PROVE Before(es, n + 1) = Before(es, n)
    BY <1>2, <1>4 DEF Before
  <1>5. n \notin Before(es, n)
    BY DEF Before
  <1> QED BY <1>3, <1>4, <1>5

\* new holds the entries of es at the places I, and nothing else.
Holds(new, es, I) ==
  /\ Searchable(new)
  /\ DOMAIN new = 0 .. GrowCapacity(Size(es)) - 1
  /\ Used(new) = Live(new)
  /\ Cardinality(Live(new)) = Cardinality(I)
  /\ \A i \in I : \E j \in Live(new) : new[j] = es[i]
  /\ \A j \in Live(new) : \E i \in I : new[j] = es[i]

\* GROW_CAPACITY answers more than it got, and at least two.
LEMMA CapacityGrows ==
  ASSUME NEW n \in Nat
  PROVE  GrowCapacity(n) \in Nat /\ n < GrowCapacity(n) /\ 1 < GrowCapacity(n)
  BY TableAssumption DEF GrowCapacity

\* Live entries are finitely many, as many as the array has slots at most.
LEMMA LiveFinite ==
  ASSUME NEW es, IsArray(es)
  PROVE  /\ IsFiniteSet(DOMAIN es) /\ Cardinality(DOMAIN es) = Size(es) /\ Size(es) \in Nat
         /\ \A S \in SUBSET DOMAIN es :
               IsFiniteSet(S) /\ Cardinality(S) \in Nat /\ Cardinality(S) <= Size(es)
  <1>1. Size(es) \in Nat /\ DOMAIN es = 0 .. Size(es) - 1
    BY DEF IsArray
  <1>2. IsFiniteSet(DOMAIN es)
    BY <1>1, FS_Interval
  <1>3. Cardinality(DOMAIN es) = Size(es)
    BY DEF Size
  <1> QED BY <1>1, <1>2, <1>3, FS_Subset, FS_CardinalityType

\* An array with fewer entries in use than slots has a hole.
LEMMA HoleLeft ==
  ASSUME NEW es, IsArray(es), Cardinality(Used(es)) < Size(es)
  PROVE  HasHole(es)
  <1>1. Used(es) # DOMAIN es
    BY LiveFinite
  <1> QED BY <1>1 DEF Used, HasHole

\* The array adjustCapacity begins with.
LEMMA HoldsNothing ==
  ASSUME NEW es, IsArray(es),
         NEW new, new = [i \in 0 .. GrowCapacity(Size(es)) - 1 |-> Hole]
  PROVE  Holds(new, es, {})
  <1>1. GrowCapacity(Size(es)) \in Nat
    BY CapacityGrows DEF IsArray
  <1>2. DOMAIN new = 0 .. GrowCapacity(Size(es)) - 1 /\ \A i \in DOMAIN new : new[i] = Hole
    OBVIOUS
  <1>3. Size(new) = GrowCapacity(Size(es))
    BY <1>1, <1>2, SizeIs
  <1>4. Hole \in Entry /\ Hole.key = NoKey
    BY TableAssumption DEF Hole, Entry
  <1>5. IsArray(new)
    BY <1>1, <1>3, <1>4 DEF IsArray
  <1>6. Live(new) = {} /\ Used(new) = {}
    BY <1>2, <1>4 DEF Live, Used
  <1> QED BY <1>2, <1>5, <1>6 DEF Holds, Searchable, Unique

\* One entry more.
LEMMA HoldsMore ==
  ASSUME NEW es, Searchable(es), NEW n \in Nat, n < Size(es),
         NEW old, Holds(old, es, Before(es, n))
  PROVE  Holds(Moved(old, es[n]), es, Before(es, n + 1))
  <1> DEFINE e == es[n]
             new == Moved(old, e)
  <1>1. /\ IsArray(es) /\ Unique(es) /\ Size(es) \in Nat /\ n \in DOMAIN es
        /\ DOMAIN es = 0 .. Size(es) - 1 /\ e \in Entry
    BY DEF Searchable, IsArray
  <1>2. CASE e.key = NoKey
    <2>1. new = old
      BY <1>2 DEF Moved
    <2>2. Before(es, n + 1) = Before(es, n)
      <3>1. n \notin Live(es)
        BY <1>2 DEF Live
      <3> QED BY <1>1, <3>1, BeforeNext
    <2> QED BY <2>1, <2>2
  <1>3. CASE e.key # NoKey
    <2> DEFINE k == e.key
               j == FindEntry(old, k)
    <2>1. n \in Live(es) /\ k \in Keys /\ e.value \in Values \union {TRUE}
      BY <1>1, <1>3 DEF Live, Entry
    <2>2. e.key = k
      OBVIOUS
    <2>3. Before(es, n + 1) = Before(es, n) \union {n} /\ n \notin Before(es, n)
      BY <1>1, <2>1, BeforeNext
    <2>4. /\ Searchable(old) /\ IsArray(old) /\ DOMAIN old = 0 .. GrowCapacity(Size(es)) - 1
          /\ Used(old) = Live(old) /\ Cardinality(Live(old)) = Cardinality(Before(es, n))
      BY DEF Holds, Searchable
    <2>5. GrowCapacity(Size(es)) \in Nat /\ Size(es) < GrowCapacity(Size(es))
      BY <1>1, CapacityGrows
    <2>6. Size(old) = GrowCapacity(Size(es))
      BY <2>4, <2>5, SizeIs
    <2>7. HasHole(old)
      <3>1. Before(es, n) \in SUBSET DOMAIN es
        BY DEF Before, Live
      <3>2. Cardinality(Before(es, n)) \in Nat /\ Cardinality(Before(es, n)) <= Size(es)
        BY <1>1, <3>1, LiveFinite
      <3>3. Cardinality(Used(old)) < Size(old)
        BY <1>1, <2>4, <2>5, <2>6, <3>2
      <3> QED BY <2>4, <3>3, HoleLeft
    <2>8. \A l \in Live(old) : old[l].key # k
      <3> SUFFICES ASSUME NEW l \in Live(old) PROVE old[l].key # k
        OBVIOUS
      <3>1. PICK i \in Before(es, n) : old[l] = es[i]
        BY DEF Holds
      <3>2. i \in Live(es) /\ i # n
        BY <2>3, <3>1 DEF Before
      <3> QED BY <1>1, <2>1, <3>1, <3>2 DEF Unique
    <2>9. new = Wrote(old, j, e)
      BY <1>3 DEF Moved, Wrote
    <2> HIDE DEF new, j
    <2>10. j = FindEntry(old, k)
      BY DEF j
    <2>11. /\ Searchable(new) /\ DOMAIN new = DOMAIN old
           /\ j \in DOMAIN old /\ j \notin Live(old) /\ new[j] = e
           /\ \A l \in DOMAIN old : l # j => new[l] = old[l]
           /\ Live(new) = Live(old) \union {j}
           /\ Used(new) = Used(old) \union {j}
      <3> HIDE DEF e
      <3>1. Adds(Wrote(old, FindEntry(old, e.key), e), old, FindEntry(old, e.key), e)
        BY <1>1, <2>1, <2>4, <2>7, <2>8, Inserted
      <3> QED BY <2>9, <2>10, <3>1 DEF Adds
    <2>12. Cardinality(Live(new)) = Cardinality(Before(es, n + 1))
      <3>1. IsFiniteSet(Live(old))
        <4>1. Live(old) \in SUBSET DOMAIN old
          BY DEF Live
        <4> QED BY <2>4, <4>1, LiveFinite
      <3>2. IsFiniteSet(Before(es, n))
        <4>1. Before(es, n) \in SUBSET DOMAIN es
          BY DEF Before, Live
        <4> QED BY <1>1, <4>1, LiveFinite
      <3>3. Cardinality(Live(new)) = Cardinality(Live(old)) + 1
        BY <2>11, <3>1, FS_AddElement
      <3>4. Cardinality(Before(es, n + 1)) = Cardinality(Before(es, n)) + 1
        BY <2>3, <3>2, FS_AddElement
      <3> QED BY <2>4, <3>3, <3>4
    <2>13. \A l \in Live(old) : l \in Live(new) /\ new[l] = old[l]
      BY <2>11 DEF Live
    <2>14. ASSUME NEW i \in Before(es, n + 1)
           PROVE  \E l \in Live(new) : new[l] = es[i]
      <3>1. CASE i = n
        BY <2>11, <3>1
      <3>2. CASE i \in Before(es, n)
        <4>1. PICK l \in Live(old) : old[l] = es[i]
          BY <3>2 DEF Holds
        <4> QED BY <2>13, <4>1
      <3> QED BY <2>3, <3>1, <3>2
    <2>15. ASSUME NEW l \in Live(new)
           PROVE  \E i \in Before(es, n + 1) : new[l] = es[i]
      <3>1. CASE l = j
        BY <2>3, <2>11, <3>1
      <3>2. CASE l \in Live(old)
        <4>1. PICK i \in Before(es, n) : old[l] = es[i]
          BY <3>2 DEF Holds
        <4> QED BY <2>3, <2>13, <3>2, <4>1
      <3> QED BY <2>11, <3>1, <3>2
    <2>16. Used(new) = Live(new)
      BY <2>4, <2>11
    <2>17. DOMAIN new = 0 .. GrowCapacity(Size(es)) - 1
      BY <2>4, <2>11
    <2>18. Holds(new, es, Before(es, n + 1))
      BY <2>11, <2>12, <2>14, <2>15, <2>16, <2>17 DEF Holds
    <2> QED BY <2>18 DEF new
  <1> QED BY <1>2, <1>3

\* after[n] is the array with the first n entries moved, for n up to last.
MovedUpTo(after, es, last) ==
  after = [n \in 0 .. last |->
             IF n = 0 THEN [i \in 0 .. GrowCapacity(Size(es)) - 1 |-> Hole]
             ELSE Moved(after[n - 1], es[n - 1])]

\* What the function maps each number to.
LEMMA MovedEach ==
  ASSUME NEW after, NEW es, NEW last \in Nat, MovedUpTo(after, es, last)
  PROVE  \A n \in 0 .. last :
            after[n] = IF n = 0 THEN [i \in 0 .. GrowCapacity(Size(es)) - 1 |-> Hole]
                       ELSE Moved(after[n - 1], es[n - 1])
  <1> DEFINE next(n) == IF n = 0 THEN [i \in 0 .. GrowCapacity(Size(es)) - 1 |-> Hole]
                        ELSE Moved(after[n - 1], es[n - 1])
  <1>1. after = [n \in 0 .. last |-> next(n)]
    BY DEF MovedUpTo
  <1> HIDE DEF next
  <1>2. \A n \in 0 .. last : after[n] = next(n)
    BY <1>1
  <1> QED BY <1>2 DEF next

\* There is such a function for every last: the recursion of Rehash is sound.
LEMMA MovedExists ==
  ASSUME NEW es, NEW last \in Nat
  PROVE  \E after : MovedUpTo(after, es, last)
  <1> DEFINE empty == [i \in 0 .. GrowCapacity(Size(es)) - 1 |-> Hole]
             Defined == {k \in Nat : \E g : MovedUpTo(g, es, k)}
  <1>1. 0 \in Defined
    <2> DEFINE g == [n \in 0 .. 0 |-> empty]
    <2>1. MovedUpTo(g, es, 0)
      BY DEF MovedUpTo
    <2> QED BY <2>1
  <1>2. ASSUME NEW k \in Nat, k \in Defined
        PROVE  k + 1 \in Defined
    <2>1. PICK g : MovedUpTo(g, es, k)
      BY <1>2
    <2>2. \A n \in 0 .. k : g[n] = IF n = 0 THEN empty ELSE Moved(g[n - 1], es[n - 1])
      BY <2>1, MovedEach
    <2> HIDE DEF empty
    <2> DEFINE h == [n \in 0 .. k + 1 |-> IF n = k + 1 THEN Moved(g[k], es[k]) ELSE g[n]]
    <2>3. ASSUME NEW n \in 0 .. k + 1
          PROVE  h[n] = IF n = 0 THEN empty ELSE Moved(h[n - 1], es[n - 1])
      <3>1. CASE n = k + 1
        BY <3>1
      <3>2. CASE n = 0
        BY <3>2, <2>2
      <3>3. CASE n \in 1 .. k
        <4>1. h[n] = g[n] /\ h[n - 1] = g[n - 1]
          BY <3>3
        <4> QED BY <2>2, <3>3, <4>1
      <3> QED BY <3>1, <3>2, <3>3
    <2>4. h = [n \in 0 .. k + 1 |-> h[n]]
      OBVIOUS
    <2>5. MovedUpTo(h, es, k + 1)
      <3> HIDE DEF h
      <3>1. h = [n \in 0 .. k + 1 |-> IF n = 0 THEN empty ELSE Moved(h[n - 1], es[n - 1])]
        BY <2>3, <2>4
      <3> QED BY <3>1 DEF MovedUpTo, empty
    <2> HIDE DEF h
    <2> QED BY <2>5
  <1> HIDE DEF Defined
  <1>3. Nat \subseteq Defined
    BY <1>1, <1>2, NatBySteps
  <1> QED BY <1>3 DEF Defined

\* adjustCapacity: the array it answers holds the live entries of the old one.
LEMMA Rehashed ==
  ASSUME NEW es, Searchable(es)
  PROVE  Holds(Rehash(es), es, Live(es))
  <1> DEFINE after == CHOOSE after : MovedUpTo(after, es, Size(es))
  <1>1. IsArray(es) /\ Size(es) \in Nat
    BY DEF Searchable, IsArray
  <1>2. MovedUpTo(after, es, Size(es))
    BY <1>1, MovedExists
  <1>3. Rehash(es) = after[Size(es)]
    BY DEF Rehash, MovedUpTo
  <1> HIDE DEF after
  <1>4. \A n \in 0 .. Size(es) :
           after[n] = IF n = 0 THEN [i \in 0 .. GrowCapacity(Size(es)) - 1 |-> Hole]
                      ELSE Moved(after[n - 1], es[n - 1])
    BY <1>1, <1>2, MovedEach
  <1> DEFINE Good == {n \in Nat : n <= Size(es) => Holds(after[n], es, Before(es, n))}
  <1>5. 0 \in Good
    <2>1. after[0] = [i \in 0 .. GrowCapacity(Size(es)) - 1 |-> Hole]
      <3>1. 0 \in 0 .. Size(es)
        BY <1>1
      <3> QED BY <1>4, <3>1
    <2>2. Before(es, 0) = {}
      BY <1>1 DEF Before, Live, IsArray
    <2>3. Holds(after[0], es, {})
      BY <1>1, <2>1, HoldsNothing
    <2> QED BY <2>2, <2>3
  <1>6. ASSUME NEW n \in Nat, n \in Good
        PROVE  n + 1 \in Good
    <2> SUFFICES ASSUME n + 1 <= Size(es)
                 PROVE  Holds(after[n + 1], es, Before(es, n + 1))
      OBVIOUS
    <2>1. n + 1 \in 0 .. Size(es) /\ n + 1 # 0 /\ n + 1 - 1 = n /\ n < Size(es) /\ n <= Size(es)
      BY <1>1
    <2>2. after[n + 1] = Moved(after[n], es[n])
      BY <1>4, <2>1
    <2>3. Holds(after[n], es, Before(es, n))
      BY <1>6, <2>1
    <2> QED BY <2>1, <2>2, <2>3, HoldsMore
  <1>7. Size(es) \in Good
    <2> HIDE DEF Good
    <2> QED BY <1>1, <1>5, <1>6, NatBySteps
  <1>8. Before(es, Size(es)) = Live(es)
    BY <1>1 DEF Before, Live, IsArray
  <1> QED BY <1>1, <1>3, <1>7, <1>8

-----------------------------------------------------------------------------
(* The map *)

\* m with k mapped to v, and m without k.
With(m, k, v) == [x \in DOMAIN m \union {k} |-> IF x = k THEN v ELSE m[x]]
Without(m, k) == [x \in DOMAIN m \ {k} |-> m[x]]

\* What makes a function the map of an array.
LEMMA MapIs ==
  ASSUME NEW es, Unique(es), NEW f, f = [x \in DOMAIN f |-> f[x]],
         \A x : x \in DOMAIN f <=> \E i \in Live(es) : es[i].key = x,
         \A i \in Live(es) : f[es[i].key] = es[i].value
  PROVE  MapOf(es) = f
  <1>1. DOMAIN MapOf(es) = {es[i].key : i \in Live(es)}
    BY DEF MapOf
  <1>2. DOMAIN MapOf(es) = DOMAIN f
    BY <1>1
  <1>3. ASSUME NEW x \in DOMAIN f
        PROVE  MapOf(es)[x] = f[x]
    <2>1. PICK i \in Live(es) : es[i].key = x
      OBVIOUS
    <2> QED BY <2>1, MapOfLive
  <1>4. MapOf(es) = [x \in DOMAIN MapOf(es) |-> MapOf(es)[x]]
    BY DEF MapOf
  <1> QED BY <1>2, <1>3, <1>4

\* Arrays with the same entries hold the same map: growing does not show.
LEMMA SameMap ==
  ASSUME NEW es, Unique(es), NEW new, Unique(new),
         \A i \in Live(es) : \E j \in Live(new) : new[j] = es[i],
         \A j \in Live(new) : \E i \in Live(es) : new[j] = es[i]
  PROVE  MapOf(new) = MapOf(es)
  <1> DEFINE f == MapOf(es)
  <1>1. f = [x \in DOMAIN f |-> f[x]] /\ DOMAIN f = {es[i].key : i \in Live(es)}
    BY DEF MapOf
  <1>2. \A i \in Live(es) : f[es[i].key] = es[i].value
    BY MapOfLive
  <1> HIDE DEF f
  <1>3. \A x : x \in DOMAIN f <=> \E j \in Live(new) : new[j].key = x
    BY <1>1
  <1>4. \A j \in Live(new) : f[new[j].key] = new[j].value
    BY <1>2
  <1> QED BY <1>1, <1>3, <1>4, MapIs DEF f

\* Adding an entry maps its key.
LEMMA MapAdds ==
  ASSUME NEW es, Unique(es), NEW new, NEW i, NEW e, e.key # NoKey, Adds(new, es, i, e)
  PROVE  /\ e.key \notin DOMAIN MapOf(es)
         /\ MapOf(new) = With(MapOf(es), e.key, e.value)
  <1> DEFINE m == MapOf(es)
             f == With(m, e.key, e.value)
  <1>1. DOMAIN m = {es[l].key : l \in Live(es)} /\ \A l \in Live(es) : m[es[l].key] = es[l].value
    BY MapOfLive DEF MapOf
  <1>2. Unique(new) /\ Live(new) = Live(es) \union {i} /\ i \notin Live(es) /\ new[i] = e
    BY DEF Adds, Searchable
  <1>3. \A l \in Live(es) : new[l] = es[l] /\ l # i
    BY <1>2 DEF Adds, Live
  <1>4. \A l \in Live(es) : es[l].key # e.key
    BY <1>2, <1>3 DEF Unique
  <1>5. e.key \notin DOMAIN m
    BY <1>1, <1>4
  <1>6. /\ f = [x \in DOMAIN f |-> f[x]] /\ DOMAIN f = DOMAIN m \union {e.key}
        /\ f[e.key] = e.value /\ \A x \in DOMAIN m : x # e.key => f[x] = m[x]
    BY DEF With
  <1> HIDE DEF m, f
  <1>7. \A x : x \in DOMAIN f <=> \E l \in Live(new) : new[l].key = x
    BY <1>1, <1>2, <1>3, <1>6
  <1>8. \A l \in Live(new) : f[new[l].key] = new[l].value
    BY <1>1, <1>2, <1>3, <1>4, <1>6
  <1>9. MapOf(new) = f
    BY <1>2, <1>6, <1>7, <1>8, MapIs
  <1> QED BY <1>5, <1>9 DEF f, m

\* So does replacing an entry with that key.
LEMMA MapReplaces ==
  ASSUME NEW es, Unique(es), NEW new, NEW i, NEW e, e.key = es[i].key, e # Tombstone,
         Replaces(new, es, i, e)
  PROVE  /\ e.key \in DOMAIN MapOf(es)
         /\ MapOf(new) = With(MapOf(es), e.key, e.value)
  <1> DEFINE m == MapOf(es)
             f == With(m, e.key, e.value)
  <1>1. DOMAIN m = {es[l].key : l \in Live(es)} /\ \A l \in Live(es) : m[es[l].key] = es[l].value
    BY MapOfLive DEF MapOf
  <1>2. Unique(new) /\ Live(new) = Live(es) /\ i \in Live(es) /\ new[i] = e
    BY DEF Replaces, Searchable
  <1>3. \A l \in Live(es) : l # i => new[l] = es[l]
    BY <1>2 DEF Replaces, Live
  <1>4. \A l \in Live(es) : l # i => es[l].key # e.key
    BY <1>2, <1>3 DEF Unique
  <1>5. e.key \in DOMAIN m
    BY <1>1, <1>2
  <1>6. /\ f = [x \in DOMAIN f |-> f[x]] /\ DOMAIN f = DOMAIN m \union {e.key}
        /\ f[e.key] = e.value /\ \A x \in DOMAIN m : x # e.key => f[x] = m[x]
    BY DEF With
  <1> HIDE DEF m, f
  <1>7. \A x : x \in DOMAIN f <=> \E l \in Live(new) : new[l].key = x
    BY <1>1, <1>2, <1>3, <1>5, <1>6
  <1>8. \A l \in Live(new) : f[new[l].key] = new[l].value
    BY <1>1, <1>2, <1>3, <1>4, <1>6
  <1>9. MapOf(new) = f
    BY <1>2, <1>6, <1>7, <1>8, MapIs
  <1> QED BY <1>5, <1>9 DEF f, m

\* Replacing an entry by a tombstone removes its key.
LEMMA MapRemoves ==
  ASSUME NEW es, Unique(es), NEW new, NEW i, Replaces(new, es, i, Tombstone)
  PROVE  MapOf(new) = Without(MapOf(es), es[i].key)
  <1> DEFINE m == MapOf(es)
             k == es[i].key
             f == Without(m, k)
  <1>1. DOMAIN m = {es[l].key : l \in Live(es)} /\ \A l \in Live(es) : m[es[l].key] = es[l].value
    BY MapOfLive DEF MapOf
  <1>2. Unique(new) /\ Live(new) = Live(es) \ {i} /\ i \in Live(es)
    BY DEF Replaces, Searchable
  <1>3. \A l \in Live(new) : new[l] = es[l] /\ l \in Live(es) /\ es[l].key # k
    BY <1>2 DEF Replaces, Live, Unique
  <1>6. /\ f = [x \in DOMAIN f |-> f[x]] /\ DOMAIN f = DOMAIN m \ {k}
        /\ \A x \in DOMAIN m : x # k => f[x] = m[x]
    BY DEF Without
  <1>12. k = es[i].key
    OBVIOUS
  <1> HIDE DEF m, f, k
  <1>7. \A x : x \in DOMAIN f <=> \E l \in Live(new) : new[l].key = x
    BY <1>1, <1>2, <1>3, <1>6, <1>12
  <1>8. \A l \in Live(new) : f[new[l].key] = new[l].value
    BY <1>1, <1>2, <1>3, <1>6
  <1>9. MapOf(new) = f
    BY <1>2, <1>6, <1>7, <1>8, MapIs
  <1> QED BY <1>9 DEF f, m, k

\* A key mapped and removed again leaves the map.
LEMMA WithWithout ==
  ASSUME NEW es, NEW k, k \notin DOMAIN MapOf(es), NEW v
  PROVE  Without(With(MapOf(es), k, v), k) = MapOf(es)
  <1> DEFINE m == MapOf(es)
             w == With(m, k, v)
  <1>1. m = [x \in DOMAIN m |-> m[x]]
    BY DEF MapOf
  <1>2. DOMAIN w \ {k} = DOMAIN m /\ \A x \in DOMAIN m : w[x] = m[x]
    BY DEF With
  <1> HIDE DEF m, w
  <1>3. [x \in DOMAIN w \ {k} |-> w[x]] = [x \in DOMAIN m |-> m[x]]
    BY <1>2
  <1> QED BY <1>1, <1>3 DEF Without, w, m

\* A search tells whether the map has the key, and where its value is.
LEMMA HasIs ==
  ASSUME NEW es, Searchable(es), HasHole(es), NEW k \in Keys
  PROVE  /\ Has(es, k) <=> k \in DOMAIN MapOf(es)
         /\ Has(es, k) <=> FindEntry(es, k) \in Live(es)
         /\ Has(es, k) => /\ es[FindEntry(es, k)].key = k
                          /\ es[FindEntry(es, k)].value = MapOf(es)[k]
         /\ FindEntry(es, k) \in DOMAIN es
  <1>1. DOMAIN MapOf(es) = {es[i].key : i \in Live(es)}
    BY DEF MapOf
  <1>2. CASE \E i \in Live(es) : es[i].key = k
    <2>1. PICK i \in Live(es) : es[i].key = k
      BY <1>2
    <2>2. FindEntry(es, k) = i
      BY <2>1, FindPresent
    <2>3. MapOf(es)[k] = es[i].value
      BY <2>1, MapOfLive DEF Searchable
    <2> QED BY <1>1, <2>1, <2>2, <2>3 DEF Has, Live
  <1>3. CASE \A i \in Live(es) : es[i].key # k
    <2>1. FindEntry(es, k) \in DOMAIN es /\ es[FindEntry(es, k)].key = NoKey
      BY <1>3, FindAbsent
    <2>2. FindEntry(es, k) \notin Live(es) /\ es[FindEntry(es, k)].key # k
      BY <2>1, TableAssumption DEF Live
    <2> QED BY <1>1, <1>3, <2>1, <2>2 DEF Has
  <1> QED BY <1>2, <1>3

-----------------------------------------------------------------------------
(* The invariant *)

\* c counts the slots of es in use, and leaves one free.
ArrayOK(es, c) ==
  /\ Searchable(es)
  /\ c = Cardinality(Used(es))
  /\ Size(es) # 0 => c < Size(es)
  /\ Size(es) <= MaxCapacity

\* The slots cached in s are slots of es.
CacheOK(s, es) ==
  /\ s \in [Keys -> Nat \union {NoSymbol}]
  /\ \A k \in Keys : s[k] # NoSymbol => s[k] \in DOMAIN es

FlagsOK ==
  /\ isGlobal \in BOOLEAN
  /\ isFrozen \in BOOLEAN
  /\ isGlobal => ~isFrozen

Inductive ==
  /\ ArrayOK(entries, count)
  /\ CacheOK(symbol, entries)
  /\ FlagsOK

\* With a hole to end at, once there is an array; without one, no entry.
LEMMA ArrayHasHole ==
  ASSUME NEW es, NEW c, ArrayOK(es, c)
  PROVE  /\ IsArray(es) /\ Size(es) \in Nat /\ DOMAIN es = 0 .. Size(es) - 1 /\ c \in Nat
         /\ Size(es) # 0 => HasHole(es)
         /\ Size(es) = 0 => DOMAIN es = {} /\ c = 0
         /\ c = 0 => Live(es) = {}
  <1>1. IsArray(es) /\ Size(es) \in Nat /\ DOMAIN es = 0 .. Size(es) - 1
    BY DEF ArrayOK, Searchable, IsArray
  <1>2. Used(es) \in SUBSET DOMAIN es
    BY DEF Used
  <1>3. IsFiniteSet(Used(es)) /\ Cardinality(Used(es)) \in Nat /\ Cardinality(Used(es)) <= Size(es)
    BY <1>1, <1>2, LiveFinite
  <1>4. c \in Nat /\ c = Cardinality(Used(es)) /\ (Size(es) # 0 => c < Size(es))
    BY <1>3 DEF ArrayOK
  <1>5. Size(es) # 0 => HasHole(es)
    BY <1>1, <1>4, HoleLeft
  <1>6. Size(es) = 0 => DOMAIN es = {} /\ c = 0
    BY <1>1, <1>3, <1>4
  <1>7. c = 0 => Used(es) = {}
    BY <1>3, <1>4, FS_EmptySet
  <1>8. Live(es) \subseteq Used(es)
    BY DEF Live, Used, Hole
  <1> QED BY <1>1, <1>4, <1>5, <1>6, <1>7, <1>8

\* What tableSet has once it made room.
MovedCount == IF MustGrow THEN Cardinality(Live(entries)) ELSE count

RoomIsMade ==
  /\ Searchable(Room) /\ HasHole(Room)
  /\ Size(Room) \in Nat /\ DOMAIN Room = 0 .. Size(Room) - 1
  /\ MovedCount \in Nat /\ MovedCount = Cardinality(Used(Room))
  /\ MovedCount + 1 < Size(Room)
  /\ Size(Room) <= MaxCapacity
  /\ DOMAIN entries \subseteq DOMAIN Room
  /\ MapOf(Room) = MapOf(entries)

\* There is room for an entry and a hole, and the map is what it was.
LEMMA RoomMade ==
  ASSUME Inductive, Fits
  PROVE  RoomIsMade
  <1> DEFINE n == Size(entries)
  <1>1. /\ ArrayOK(entries, count) /\ IsArray(entries) /\ n \in Nat /\ count \in Nat
        /\ DOMAIN entries = 0 .. n - 1
    BY ArrayHasHole DEF Inductive
  <1>2. CASE MustGrow
    <2>1. Room = Rehash(entries) /\ MovedCount = Cardinality(Live(entries))
      BY <1>2 DEF Room, MovedCount
    <2>2. Holds(Room, entries, Live(entries))
      BY <1>1, <2>1, Rehashed DEF ArrayOK
    <2>3. /\ Searchable(Room) /\ DOMAIN Room = 0 .. GrowCapacity(n) - 1
          /\ MovedCount = Cardinality(Used(Room))
      BY <2>1, <2>2 DEF Holds
    <2>4. GrowCapacity(n) \in Nat /\ n < GrowCapacity(n) /\ 1 < GrowCapacity(n)
      BY <1>1, CapacityGrows
    <2>5. Size(Room) = GrowCapacity(n)
      BY <2>3, <2>4, SizeIs
    <2>6. MovedCount \in Nat /\ MovedCount <= count
      <3>1. Live(entries) \in SUBSET Used(entries) /\ Used(entries) \in SUBSET DOMAIN entries
        BY DEF Live, Used, Hole
      <3>2. IsFiniteSet(Used(entries)) /\ Live(entries) \in SUBSET DOMAIN entries
        BY <1>1, <3>1, LiveFinite
      <3>3. Cardinality(Live(entries)) <= Cardinality(Used(entries))
        BY <3>1, <3>2, FS_Subset
      <3>4. Cardinality(Live(entries)) \in Nat
        BY <1>1, <3>2, LiveFinite
      <3> QED BY <1>1, <2>1, <3>3, <3>4 DEF ArrayOK
    <2>7. MovedCount + 1 < GrowCapacity(n)
      <3>1. CASE n = 0
        <4>1. count = 0
          BY <1>1, <3>1, ArrayHasHole
        <4> QED BY <2>4, <2>6, <4>1
      <3>2. CASE n # 0
        <4>1. count < n
          BY <1>1, <3>2 DEF ArrayOK
        <4> QED BY <1>1, <2>4, <2>6, <4>1
      <3> QED BY <3>1, <3>2
    <2>8. HasHole(Room)
      <3>1. Cardinality(Used(Room)) < Size(Room)
        BY <2>3, <2>4, <2>5, <2>6, <2>7
      <3> QED BY <2>3, <3>1, HoleLeft DEF Searchable
    <2>9. Size(Room) <= MaxCapacity
      BY <1>2, <2>5 DEF Fits
    <2>10. DOMAIN entries \subseteq DOMAIN Room
      BY <1>1, <2>3, <2>4
    <2>11. MapOf(Room) = MapOf(entries)
      BY <1>1, <2>2, SameMap DEF ArrayOK, Holds, Searchable
    <2> QED BY <2>3, <2>4, <2>5, <2>6, <2>7, <2>8, <2>9, <2>10, <2>11 DEF RoomIsMade
  <1>3. CASE ~MustGrow
    <2>1. Room = entries /\ MovedCount = count /\ ~(count + 1 > (n * 3) \div 4)
      BY <1>3 DEF Room, MovedCount, MustGrow
    <2>2. count + 1 < n /\ n # 0
      <3> HIDE DEF n
      <3> QED BY <1>1, <2>1
    <2>3. HasHole(entries)
      BY <1>1, <2>2, ArrayHasHole
    <2> QED BY <1>1, <2>1, <2>2, <2>3 DEF RoomIsMade, ArrayOK
  <1> QED BY <1>2, <1>3

\* Where a search for k stops is a slot: it may be cached.
LEMMA CacheStop ==
  ASSUME NEW s, NEW es, CacheOK(s, es), IsArray(es), HasHole(es), NEW k \in Keys
  PROVE  CacheOK([s EXCEPT ![k] = Probe(es, k, Stop(es, k))], es)
  <1>1. Probe(es, k, Stop(es, k)) \in DOMAIN es
    BY StopIs
  <1>2. DOMAIN es \subseteq Nat
    BY DEF IsArray
  <1> QED BY <1>1, <1>2 DEF CacheOK

\* The slots that adjustCapacity caches are slots of the new array, and so are
\* those it leaves: the array only grows.
LEMMA CacheMoved ==
  ASSUME Inductive, RoomIsMade, MustGrow
  PROVE  CacheOK(RehashSymbol(entries, Room), Room)
  <1>1. IsArray(Room) /\ DOMAIN Room \subseteq Nat /\ DOMAIN entries \subseteq DOMAIN Room
    BY DEF RoomIsMade, Searchable
  <1>2. CacheOK(symbol, entries)
    BY DEF Inductive
  <1>3. \A k \in Keys : FindEntry(Room, k) \in DOMAIN Room
    BY HasIs DEF RoomIsMade
  <1>4. \A k \in Keys : RehashSymbol(entries, Room)[k] \in {FindEntry(Room, k), symbol[k]}
    BY DEF RehashSymbol
  <1>5. RehashSymbol(entries, Room) \in [Keys -> Nat \union {NoSymbol}]
    <2>1. \A k \in Keys : RehashSymbol(entries, Room)[k] \in Nat \union {NoSymbol}
      BY <1>1, <1>2, <1>3, <1>4 DEF CacheOK
    <2>2. RehashSymbol(entries, Room) = [k \in Keys |-> RehashSymbol(entries, Room)[k]]
      BY DEF RehashSymbol
    <2> HIDE DEF RehashSymbol
    <2> QED BY <2>1, <2>2
  <1> QED BY <1>1, <1>2, <1>3, <1>4, <1>5 DEF CacheOK

\* w is what tableSet(k, v) should leave.
WrittenOK(w, k, v) ==
  /\ ArrayOK(w.entries, w.count) /\ HasHole(w.entries)
  /\ CacheOK(w.symbol, w.entries)
  /\ MapOf(w.entries) = With(MapOf(entries), k, v)
  /\ w.isNew = (k \notin DOMAIN MapOf(entries))

\* It does.
LEMMA WrittenIs ==
  ASSUME Inductive, Fits, NEW k \in Keys, NEW v \in Values
  PROVE  WrittenOK(Written(k, v), k, v)
  <1> DEFINE es == Room
             i == FindEntry(es, k)
             e == [key |-> k, value |-> v]
             new == Wrote(es, i, e)
             n == MovedCount
             c == IF es[i] = Hole THEN n + 1 ELSE n
             moved == IF MustGrow THEN RehashSymbol(entries, es) ELSE symbol
             s == IF isGlobal THEN [moved EXCEPT ![k] = Probe(es, k, Stop(es, k))] ELSE symbol
             w == Written(k, v)
  <1>1. w = [entries |-> new, count |-> c, symbol |-> s, isNew |-> es[i].key = NoKey]
    BY DEF Written, Wrote, MovedCount
  <1>2. w.entries = new /\ w.count = c /\ w.symbol = s /\ w.isNew = (es[i].key = NoKey)
    <2> HIDE DEF w, new, c, s, es, i
    <2> QED BY <1>1
  <1>3. RoomIsMade
    BY RoomMade
  <1>4. e \in Entry /\ e.key = k /\ e.value = v /\ e # Tombstone /\ k # NoKey
    BY TableAssumption DEF Entry, Tombstone
  <1>5. /\ Has(es, k) <=> k \in DOMAIN MapOf(es)
        /\ Has(es, k) <=> i \in Live(es)
        /\ Has(es, k) => es[i].key = k
        /\ i \in DOMAIN es
    BY <1>3, HasIs DEF RoomIsMade
  <1>6. MapOf(es) = MapOf(entries)
    BY <1>3 DEF RoomIsMade
  <1>7. Searchable(es) /\ Unique(es) /\ HasHole(es)
    BY <1>3 DEF RoomIsMade, Searchable
  <1>8. w.isNew = (k \notin DOMAIN MapOf(entries))
    <2>1. i \notin Live(es) <=> es[i].key = NoKey
      BY <1>5 DEF Live
    <2> HIDE DEF es, i, w
    <2> QED BY <1>2, <1>5, <1>6, <2>1
  <1>9. /\ Searchable(new) /\ DOMAIN new = DOMAIN es /\ Size(new) = Size(es)
        /\ c = Cardinality(Used(new))
        /\ MapOf(new) = With(MapOf(es), k, v)
    <2> HIDE DEF es, e
    <2>1. CASE Has(es, k)
      <3>1. Replaces(new, es, i, e)
        BY <1>4, <1>5, <1>7, <2>1, Overwritten
      <3>2. es[i] # Hole
        BY <1>4, <1>5, <2>1 DEF Hole
      <3>3. MapOf(new) = With(MapOf(es), k, v)
        <4> HIDE DEF new
        <4> QED BY <1>4, <1>5, <1>7, <2>1, <3>1, MapReplaces
      <3>4. c = n /\ n = Cardinality(Used(es))
        BY <1>3, <3>2 DEF RoomIsMade, es
      <3>5. /\ Searchable(new) /\ DOMAIN new = DOMAIN es
            /\ Size(new) = Size(es) /\ Used(new) = Used(es)
        BY <3>1 DEF Replaces
      <3> QED BY <3>3, <3>4, <3>5
    <2>2. CASE ~Has(es, k)
      <3>1. \A l \in Live(es) : es[l].key # e.key
        BY <1>4, <1>5, <2>2 DEF MapOf
      <3>2. Adds(new, es, i, e)
        <4>1. Adds(Wrote(es, FindEntry(es, e.key), e), es, FindEntry(es, e.key), e)
          BY <1>4, <1>7, <3>1, Inserted
        <4> QED BY <1>4, <4>1
      <3>3. MapOf(new) = With(MapOf(es), k, v)
        <4> HIDE DEF new, i
        <4> QED BY <1>4, <1>7, <3>2, MapAdds
      <3>4. Searchable(new) /\ DOMAIN new = DOMAIN es /\ Size(new) = Size(es)
        BY <3>2 DEF Adds
      <3>5. c = Cardinality(Used(new))
        <4>1. Used(new) = Used(es) \union {i} /\ (i \in Used(es) <=> es[i] # Hole)
          BY <1>5, <3>2 DEF Adds, Used
        <4>2. n \in Nat /\ n = Cardinality(Used(es)) /\ IsFiniteSet(Used(es))
          <5>1. Used(es) \in SUBSET DOMAIN es
            BY DEF Used
          <5>2. IsFiniteSet(Used(es))
            BY <1>7, <5>1, LiveFinite DEF Searchable
          <5> QED BY <1>3, <5>2 DEF RoomIsMade, es
        <4> HIDE DEF new, i, n
        <4>3. CASE es[i] = Hole
          BY <4>1, <4>2, <4>3, FS_AddElement
        <4>4. CASE es[i] # Hole
          <5>1. Used(new) = Used(es)
            BY <4>1, <4>4
          <5> QED BY <4>2, <4>4, <5>1
        <4> QED BY <4>3, <4>4
      <3> QED BY <3>3, <3>4, <3>5
    <2> QED BY <2>1, <2>2
  <1>10. ArrayOK(new, c) /\ HasHole(new)
    <2>1. /\ n \in Nat /\ n + 1 < Size(es) /\ Size(es) <= MaxCapacity /\ Size(es) \in Nat
      BY <1>3 DEF RoomIsMade
    <2>2. c \in Nat /\ c < Size(es)
      <3> HIDE DEF n, es, i
      <3> QED BY <2>1
    <2>3. IsArray(new) /\ Cardinality(Used(new)) < Size(new)
      <3> HIDE DEF new, c, es
      <3> QED BY <1>9, <2>2 DEF Searchable
    <2> HIDE DEF new, c, es
    <2>4. HasHole(new)
      BY <2>3, HoleLeft
    <2> QED BY <1>9, <2>1, <2>2, <2>4 DEF ArrayOK
  <1>11. CacheOK(s, new)
    <2>1. CacheOK(symbol, es)
      BY <1>3 DEF Inductive, CacheOK, RoomIsMade
    <2>2. CacheOK(moved, es)
      BY <1>3, <2>1, CacheMoved
    <2>3. CacheOK(s, es)
      <3> HIDE DEF moved, es
      <3> QED BY <1>7, <2>1, <2>2, CacheStop DEF Searchable
    <2> HIDE DEF new, es, s
    <2> QED BY <1>9, <2>3 DEF CacheOK
  <1> HIDE DEF w, new, c, s, es
  <1> QED BY <1>2, <1>6, <1>8, <1>9, <1>10, <1>11 DEF WrittenOK, w

-----------------------------------------------------------------------------
(* Steps. Each keeps the invariant and is a step of the map.               *)

\* The map of the module is the map of the proofs.
LEMMA ContentsIs == Contents = MapOf(entries) /\ Contents' = MapOf(entries')
  BY DEF Contents, MapOf, Live

\* What the steps of LoxMap say of it.
LEMMA AbstractSteps ==
  ASSUME NEW k, NEW v
  PROVE  /\ Abstract!With(k, v) = With(Contents, k, v)
         /\ Abstract!Get(k) <=>
               /\ out' = IF k \in DOMAIN Contents THEN Contents[k] ELSE Missing
               /\ Contents' = Contents /\ isFrozen' = isFrozen
         /\ Abstract!Set(k, v) <=>
               /\ ~isFrozen /\ isFrozen' = isFrozen
               /\ Contents' = With(Contents, k, v)
               /\ out' = (k \notin DOMAIN Contents)
         /\ Abstract!Delete(k) <=>
               /\ ~isFrozen /\ isFrozen' = isFrozen
               /\ Contents' = Without(Contents, k)
               /\ out' = (k \in DOMAIN Contents)
         /\ Abstract!Assign(k, v) <=>
               /\ ~isFrozen /\ isFrozen' = isFrozen
               /\ Contents' = IF k \in DOMAIN Contents THEN With(Contents, k, v) ELSE Contents
               /\ out' = IF k \in DOMAIN Contents THEN v ELSE Missing
  <1>1. Abstract!With(k, v) = With(Contents, k, v)
    BY DEF Abstract!With, With
  <1>2. Abstract!Get(k) <=>
               /\ out' = IF k \in DOMAIN Contents THEN Contents[k] ELSE Missing
               /\ Contents' = Contents /\ isFrozen' = isFrozen
    BY DEF Abstract!Get
  <1>3. Abstract!Set(k, v) <=>
               /\ ~isFrozen /\ isFrozen' = isFrozen
               /\ Contents' = With(Contents, k, v)
               /\ out' = (k \notin DOMAIN Contents)
    BY <1>1 DEF Abstract!Set
  <1>4. Abstract!Delete(k) <=>
               /\ ~isFrozen /\ isFrozen' = isFrozen
               /\ Contents' = Without(Contents, k)
               /\ out' = (k \in DOMAIN Contents)
    BY DEF Abstract!Delete, Without
  <1>5. Abstract!Assign(k, v) <=>
               /\ ~isFrozen /\ isFrozen' = isFrozen
               /\ Contents' = IF k \in DOMAIN Contents THEN With(Contents, k, v) ELSE Contents
               /\ out' = IF k \in DOMAIN Contents THEN v ELSE Missing
    BY <1>1 DEF Abstract!Assign
  <1> QED BY <1>1, <1>2, <1>3, <1>4, <1>5

\* tableGet changes nothing but the cache, and answers what the map has.
LEMMA GetStep ==
  ASSUME Inductive, NEW k \in Keys, Get(k)
  PROVE  Inductive' /\ Abstract!Get(k)
  <1>1. UNCHANGED <<entries, count, isGlobal, isFrozen>>
    BY DEF Get
  <1>2. /\ ArrayOK(entries, count) /\ CacheOK(symbol, entries) /\ FlagsOK
        /\ Searchable(entries) /\ IsArray(entries)
    BY ArrayHasHole DEF Inductive, ArrayOK
  <1>3. CASE count = 0
    <2>1. symbol' = symbol /\ out' = Missing
      BY <1>3 DEF Get
    <2>2. DOMAIN MapOf(entries) = {}
      BY <1>2, <1>3, ArrayHasHole DEF MapOf
    <2>3. Inductive'
      BY <1>1, <1>2, <2>1 DEF Inductive, FlagsOK
    <2> QED BY <1>1, <2>1, <2>2, <2>3, ContentsIs, AbstractSteps
  <1>4. CASE count # 0
    <2>1. HasHole(entries)
      BY <1>2, <1>4, ArrayHasHole
    <2>2. /\ out' = IF Has(entries, k) THEN entries[FindEntry(entries, k)].value ELSE Missing
          /\ symbol' = Symbol(entries, k)
      BY <1>4 DEF Get
    <2>3. CacheOK(symbol', entries)
      BY <1>2, <2>1, <2>2, CacheStop DEF Symbol
    <2>4. Inductive'
      BY <1>1, <1>2, <2>3 DEF Inductive, FlagsOK
    <2>5. out' = IF k \in DOMAIN MapOf(entries) THEN MapOf(entries)[k] ELSE Missing
      BY <1>2, <2>1, <2>2, HasIs
    <2> QED BY <1>1, <2>4, <2>5, ContentsIs, AbstractSteps
  <1> QED BY <1>3, <1>4

\* tableSet
LEMMA SetStep ==
  ASSUME Inductive, NEW k \in Keys, NEW v \in Values, Set(k, v)
  PROVE  Inductive' /\ Abstract!Set(k, v)
  <1> DEFINE w == Written(k, v)
  <1>1. /\ ~isFrozen /\ Fits /\ entries' = w.entries /\ count' = w.count
        /\ symbol' = w.symbol /\ out' = w.isNew
        /\ UNCHANGED <<isGlobal, isFrozen>>
    BY DEF Set
  <1>2. WrittenOK(w, k, v)
    BY <1>1, WrittenIs
  <1> HIDE DEF w
  <1>3. Inductive'
    BY <1>1, <1>2 DEF Inductive, FlagsOK, WrittenOK
  <1>4. /\ MapOf(entries') = With(MapOf(entries), k, v)
        /\ out' = (k \notin DOMAIN MapOf(entries))
    BY <1>1, <1>2 DEF WrittenOK
  <1> QED BY <1>1, <1>3, <1>4, ContentsIs, AbstractSteps

\* tableDelete
LEMMA DeleteStep ==
  ASSUME Inductive, NEW k \in Keys, Delete(k)
  PROVE  Inductive' /\ Abstract!Delete(k)
  <1>1. ~isFrozen /\ UNCHANGED <<count, isGlobal, isFrozen>>
    BY DEF Delete
  <1>2. /\ ArrayOK(entries, count) /\ CacheOK(symbol, entries) /\ FlagsOK
        /\ Searchable(entries) /\ IsArray(entries) /\ Unique(entries)
        /\ count \in Nat /\ Size(entries) \in Nat
    BY ArrayHasHole DEF Inductive, ArrayOK, Searchable
  <1>5. CacheOK(symbol', entries)
    <2>1. CASE count = 0
      BY <1>2, <2>1 DEF Delete
    <2>2. CASE count # 0
      <3>1. HasHole(entries)
        BY <1>2, <2>2, ArrayHasHole
      <3> QED BY <1>2, <2>2, <3>1, CacheStop DEF Delete, Symbol
    <2> QED BY <2>1, <2>2
  <1>3. CASE count > 0 /\ Has(entries, k)
    <2> DEFINE i == FindEntry(entries, k)
    <2>1. HasHole(entries)
      BY <1>2, <1>3, ArrayHasHole
    <2>2. i \in Live(entries) /\ entries[i].key = k /\ k \in DOMAIN MapOf(entries)
      BY <1>2, <1>3, <2>1, HasIs
    <2>3. entries' = Wrote(entries, i, Tombstone) /\ out' = TRUE
      BY <1>3 DEF Delete, Wrote
    <2> HIDE DEF i
    <2>4. Tombstone \in Entry
      BY TableAssumption DEF Tombstone, Entry
    <2>5. Replaces(entries', entries, i, Tombstone)
      BY <1>2, <2>2, <2>3, <2>4, Overwritten
    <2>6. ArrayOK(entries', count) /\ CacheOK(symbol', entries')
      BY <1>2, <1>5, <2>5 DEF ArrayOK, CacheOK, Replaces
    <2>7. Inductive'
      BY <1>1, <1>2, <2>6 DEF Inductive, FlagsOK
    <2>8. MapOf(entries') = Without(MapOf(entries), k)
      BY <1>2, <2>2, <2>5, MapRemoves
    <2> QED BY <1>1, <2>2, <2>3, <2>7, <2>8, ContentsIs, AbstractSteps
  <1>4. CASE ~(count > 0 /\ Has(entries, k))
    <2>1. out' = FALSE /\ entries' = entries
      BY <1>4 DEF Delete
    <2>2. k \notin DOMAIN MapOf(entries)
      <3>1. CASE count = 0
        BY <1>2, <3>1, ArrayHasHole DEF MapOf
      <3>2. CASE count > 0
        BY <1>2, <1>4, <3>2, ArrayHasHole, HasIs
      <3> QED BY <1>2, <3>1, <3>2
    <2>3. Without(MapOf(entries), k) = MapOf(entries)
      <3> DEFINE m == MapOf(entries)
      <3>1. m = [x \in DOMAIN m |-> m[x]] /\ k \notin DOMAIN m
        BY <2>2 DEF MapOf
      <3> HIDE DEF m
      <3>2. DOMAIN m \ {k} = DOMAIN m
        BY <3>1
      <3>3. [x \in DOMAIN m \ {k} |-> m[x]] = m
        BY <3>1, <3>2
      <3> QED BY <3>3 DEF Without, m
    <2>4. Inductive'
      BY <1>1, <1>2, <1>5, <2>1 DEF Inductive, FlagsOK
    <2>5. out' = (k \in DOMAIN MapOf(entries))
      <3>1. (k \in DOMAIN MapOf(entries)) = FALSE
        BY <2>2
      <3> QED BY <2>1, <3>1, Zenon
    <2>6. MapOf(entries') = Without(MapOf(entries), k)
      BY <2>1, <2>3
    <2> QED BY <1>1, <2>4, <2>5, <2>6, ContentsIs, AbstractSteps
  <1> QED BY <1>3, <1>4

\* A cached slot with the key is where the map has it.
LEMMA CachedIs ==
  ASSUME Inductive, NEW k \in Keys, Cached(k)
  PROVE  /\ symbol[k] \in Live(entries) /\ entries[symbol[k]].key = k
         /\ k \in DOMAIN MapOf(entries) /\ MapOf(entries)[k] = entries[symbol[k]].value
  <1>1. symbol[k] \in DOMAIN entries /\ entries[symbol[k]].key = k /\ k # NoKey
    BY TableAssumption DEF Cached, Inductive, CacheOK
  <1>2. symbol[k] \in Live(entries)
    BY <1>1 DEF Live
  <1>3. Unique(entries)
    BY DEF Inductive, ArrayOK, Searchable
  <1> QED BY <1>1, <1>2, <1>3, MapOfLive

\* OP_GET_GLOBAL: the cached path answers what tableGet would.
LEMMA GetGlobalStep ==
  ASSUME Inductive, NEW k \in Keys, GetGlobal(k)
  PROVE  Inductive' /\ Abstract!Get(k)
  <1>1. CASE Cached(k) /\ out' = entries[symbol[k]].value /\ UNCHANGED <<tableVars, isGlobal, isFrozen>>
    <2>1. Inductive'
      BY <1>1 DEF Inductive, FlagsOK, tableVars
    <2> QED BY <1>1, <2>1, CachedIs, ContentsIs, AbstractSteps DEF tableVars
  <1>2. CASE Get(k)
    BY <1>2, GetStep
  <1> QED BY <1>1, <1>2 DEF GetGlobal

\* OP_SET_GLOBAL: the cached path writes where tableSet would; the other one
\* takes back a key it added.
LEMMA SetGlobalStep ==
  ASSUME Inductive, NEW k \in Keys, NEW v \in Values, SetGlobal(k, v)
  PROVE  Inductive' /\ Abstract!Assign(k, v)
  <1>1. isGlobal /\ ~isFrozen /\ UNCHANGED <<isGlobal, isFrozen>> /\ FlagsOK
    BY DEF SetGlobal, Inductive, FlagsOK
  <1>2. CASE /\ Cached(k) /\ entries' = [entries EXCEPT ![symbol[k]].value = v]
             /\ out' = v /\ UNCHANGED <<count, symbol>>
    <2> DEFINE i == symbol[k]
               e == [entries[i] EXCEPT !.value = v]
    <2>1. /\ ArrayOK(entries, count) /\ CacheOK(symbol, entries)
          /\ Searchable(entries) /\ IsArray(entries) /\ Unique(entries)
      BY ArrayHasHole DEF Inductive, ArrayOK, Searchable
    <2>2. i \in Live(entries) /\ entries[i].key = k /\ k \in DOMAIN MapOf(entries)
      BY <1>2, CachedIs
    <2>3. entries' = Wrote(entries, i, e)
      BY <1>2 DEF Wrote
    <2>4. entries[i] \in Entry
      BY <2>1, <2>2 DEF IsArray, Live
    <2>5. e \in Entry /\ e.key = k /\ e.value = v
      BY <2>2, <2>4 DEF Entry
    <2>6. e # Tombstone
      BY <2>5, TableAssumption DEF Tombstone
    <2> HIDE DEF i, e
    <2>7. Replaces(entries', entries, i, e)
      BY <2>1, <2>2, <2>3, <2>5, Overwritten
    <2>8. ArrayOK(entries', count) /\ CacheOK(symbol, entries')
      BY <2>1, <2>7 DEF ArrayOK, CacheOK, Replaces
    <2>9. Inductive'
      BY <1>1, <1>2, <2>8 DEF Inductive, FlagsOK
    <2>10. MapOf(entries') = With(MapOf(entries), k, v)
      BY <2>1, <2>2, <2>5, <2>6, <2>7, MapReplaces
    <2> QED BY <1>1, <1>2, <2>2, <2>9, <2>10, ContentsIs, AbstractSteps
  <1>3. CASE ~Cached(k)
    <2> DEFINE w == Written(k, v)
               i == FindEntry(w.entries, k)
    <2>1. /\ Fits
          /\ entries' = IF w.isNew THEN Wrote(w.entries, i, Tombstone) ELSE w.entries
          /\ count' = w.count
          /\ symbol' = IF w.isNew
                       THEN [w.symbol EXCEPT ![k] = Probe(w.entries, k, Stop(w.entries, k))]
                       ELSE w.symbol
          /\ out' = IF w.isNew THEN Missing ELSE v
      BY <1>3 DEF SetGlobal, Wrote
    <2>2. WrittenOK(w, k, v)
      BY <2>1, WrittenIs
    <2> HIDE DEF w
    <2>3. /\ ArrayOK(w.entries, w.count) /\ HasHole(w.entries) /\ CacheOK(w.symbol, w.entries)
          /\ MapOf(w.entries) = With(MapOf(entries), k, v)
          /\ w.isNew = (k \notin DOMAIN MapOf(entries))
          /\ IsArray(w.entries) /\ Searchable(w.entries) /\ Unique(w.entries)
      BY <2>2 DEF WrittenOK, ArrayOK, Searchable
    <2>4. CASE ~w.isNew
      <3>1. Inductive'
        BY <1>1, <2>1, <2>3, <2>4 DEF Inductive, FlagsOK
      <3> QED BY <1>1, <2>1, <2>3, <2>4, <3>1, ContentsIs, AbstractSteps
    <2>5. CASE w.isNew
      <3>1. i \in Live(w.entries) /\ w.entries[i].key = k
        <4>1. k \in DOMAIN MapOf(w.entries)
          BY <2>3 DEF With
        <4> QED BY <2>3, <4>1, HasIs
      <3> HIDE DEF i
      <3>2. Tombstone \in Entry
        BY TableAssumption DEF Tombstone, Entry
      <3>3. Replaces(entries', w.entries, i, Tombstone)
        BY <2>1, <2>3, <2>5, <3>1, <3>2, Overwritten
      <3>4. CacheOK(symbol', w.entries)
        BY <2>1, <2>3, <2>5, CacheStop
      <3>5. ArrayOK(entries', count') /\ CacheOK(symbol', entries')
        BY <2>1, <2>3, <3>3, <3>4 DEF ArrayOK, CacheOK, Replaces
      <3>6. Inductive'
        BY <1>1, <3>5 DEF Inductive, FlagsOK
      <3>7. MapOf(entries') = Without(With(MapOf(entries), k, v), k)
        BY <2>3, <3>1, <3>3, MapRemoves
      <3>8. MapOf(entries') = MapOf(entries) /\ k \notin DOMAIN MapOf(entries)
        BY <2>3, <2>5, <3>7, WithWithout
      <3> QED BY <1>1, <2>1, <2>5, <3>6, <3>8, ContentsIs, AbstractSteps
    <2> QED BY <2>4, <2>5
  <1> QED BY <1>2, <1>3 DEF SetGlobal

\* Every step of the program keeps the invariant and is one of the map's, or
\* none.
LEMMA NextStep ==
  ASSUME Inductive, [Next]_vars
  PROVE  Inductive' /\ [Abstract!Next]_(Abstract!vars)
  <1>1. ASSUME NEW k \in Keys, Get(k) \/ Delete(k) \/ GetGlobal(k)
        PROVE  Inductive' /\ Abstract!Next
    <2>1. CASE Get(k)
      BY <2>1, GetStep DEF Abstract!Next
    <2>2. CASE Delete(k)
      BY <2>2, DeleteStep DEF Abstract!Next
    <2>3. CASE GetGlobal(k)
      BY <2>3, GetGlobalStep DEF Abstract!Next
    <2> QED BY <1>1, <2>1, <2>2, <2>3
  <1>2. ASSUME NEW k \in Keys, NEW v \in Values, Set(k, v) \/ SetGlobal(k, v)
        PROVE  Inductive' /\ Abstract!Next
    <2>1. CASE Set(k, v)
      BY <2>1, SetStep DEF Abstract!Next
    <2>2. CASE SetGlobal(k, v)
      BY <2>2, SetGlobalStep DEF Abstract!Next
    <2> QED BY <1>2, <2>1, <2>2
  <1>3. CASE Refuse
    <2>1. Inductive'
      BY <1>3 DEF Refuse, tableVars, Inductive, FlagsOK
    <2>2. Contents' = Contents
      BY <1>3, ContentsIs DEF Refuse, tableVars
    <2>3. Abstract!Refuse
      BY <1>3, <2>2 DEF Refuse, Abstract!Refuse
    <2> QED BY <2>1, <2>3 DEF Abstract!Next
  <1>4. CASE Freeze
    <2>1. Inductive'
      BY <1>4 DEF Freeze, tableVars, Inductive, FlagsOK
    <2>2. Contents' = Contents
      BY <1>4, ContentsIs DEF Freeze, tableVars
    <2>3. Abstract!Freeze
      BY <1>4, <2>2 DEF Freeze, Abstract!Freeze
    <2> QED BY <2>1, <2>3 DEF Abstract!Next
  <1>5. CASE UNCHANGED vars
    <2>1. Inductive'
      BY <1>5 DEF vars, Inductive, FlagsOK
    <2>2. Contents' = Contents
      BY <1>5, ContentsIs DEF vars
    <2>3. UNCHANGED Abstract!vars
      BY <1>5, <2>2 DEF vars, Abstract!vars
    <2> QED BY <2>1, <2>3
  <1> QED BY <1>1, <1>2, <1>3, <1>4, <1>5 DEF Next

\* An empty table: no array, no entry, no cached slot.
LEMMA InitHolds ==
  ASSUME Init
  PROVE  Inductive /\ Abstract!Init
  <1>1. DOMAIN entries = {} /\ count = 0 /\ symbol = [k \in Keys |-> NoSymbol]
    BY DEF Init
  <1>2. Size(entries) = 0
    BY <1>1, FS_EmptySet DEF Size
  <1>3. entries \in [0 .. Size(entries) - 1 -> Entry]
    <2>1. 0 .. 0 - 1 = {}
      OBVIOUS
    <2> QED BY <1>2, <2>1 DEF Init
  <1>4. Live(entries) = {} /\ Used(entries) = {}
    BY <1>1 DEF Live, Used
  <1>5. ArrayOK(entries, count)
    <2>1. IsArray(entries)
      BY <1>1, <1>2, <1>3 DEF IsArray
    <2>2. Cardinality(Used(entries)) = 0
      BY <1>4, FS_EmptySet
    <2>3. Searchable(entries)
      BY <1>4, <2>1 DEF Searchable, Unique
    <2>4. Size(entries) <= MaxCapacity
      BY <1>2, TableAssumption
    <2> QED BY <1>1, <1>2, <2>2, <2>3, <2>4 DEF ArrayOK
  <1>6. CacheOK(symbol, entries)
    BY <1>1 DEF CacheOK
  <1>7. FlagsOK
    BY DEF Init, FlagsOK
  <1>8. MapOf(entries) = [k \in {} |-> Missing]
    <2>1. DOMAIN MapOf(entries) = {}
      BY <1>4 DEF MapOf
    <2> QED BY <2>1 DEF MapOf
  <1>9. Abstract!Init
    BY <1>8, ContentsIs DEF Init, Abstract!Init
  <1> QED BY <1>5, <1>6, <1>7, <1>9 DEF Inductive

\* The invariant of open addressing holds in every reachable state: no key
\* twice, no hole before a key, a hole somewhere, the cache inside the array.
THEOREM TableInvariant == Spec => []Inductive
  <1>1. Init => Inductive
    BY InitHolds
  <1>2. Inductive /\ [Next]_vars => Inductive'
    BY NextStep
  <1> QED BY <1>1, <1>2, PTL DEF Spec

\* Entries, count, cached slots and flags have the types of their fields.
THEOREM TableTypes == Spec => []TypeOK
  <1>1. Inductive => TypeOK
    <2> SUFFICES ASSUME Inductive PROVE TypeOK
      OBVIOUS
    <2>1. /\ IsArray(entries) /\ Size(entries) \in Nat /\ count \in Nat
          /\ Size(entries) = 0 => count = 0
      BY ArrayHasHole DEF Inductive
    <2>2. count \in 0 .. MaxCapacity
      BY <2>1, TableAssumption DEF Inductive, ArrayOK
    <2> QED BY <2>1, <2>2 DEF IsArray, Inductive, CacheOK, FlagsOK, TypeOK
  <1> QED BY <1>1, TableInvariant, PTL

\* Whatever was inserted and deleted, a search for any key ends: the array
\* keeps a hole, since the load factor counts tombstones (table.c:111-114).
THEOREM SearchesEnd == Spec => []SearchEnds
  <1>1. Inductive => SearchEnds
    <2> SUFFICES ASSUME Inductive, entries # [i \in {} |-> Hole]
                 PROVE  /\ \E i \in DOMAIN entries : entries[i] = Hole
                        /\ count = Cardinality({i \in DOMAIN entries : entries[i] # Hole})
      BY DEF SearchEnds
    <2>1. /\ IsArray(entries) /\ count = Cardinality(Used(entries))
          /\ Size(entries) = 0 => DOMAIN entries = {}
          /\ Size(entries) # 0 => HasHole(entries)
      BY ArrayHasHole DEF Inductive, ArrayOK
    <2>2. DOMAIN entries # {}
      <3>1. entries = [i \in DOMAIN entries |-> entries[i]]
        BY <2>1 DEF IsArray
      <3> QED BY <3>1
    <2>3. HasHole(entries)
      BY <2>1, <2>2
    <2> QED BY <2>1, <2>3 DEF HasHole, Used
  <1> QED BY <1>1, TableInvariant, PTL

\* The slot cached in a key, through growth, deletion and reinsertion, is
\* either not the key's any more, which its entry shows, or the one a search
\* finds (vm.c:1272-1318).
THEOREM CacheIsRight == Spec => []CacheAgrees
  <1>1. Inductive => CacheAgrees
    <2> SUFFICES ASSUME Inductive, NEW k \in Keys, symbol[k] # NoSymbol
                 PROVE  /\ symbol[k] \in DOMAIN entries
                        /\ entries[symbol[k]].key = k => FindEntry(entries, k) = symbol[k]
      BY DEF CacheAgrees
    <2>1. symbol[k] \in DOMAIN entries /\ Searchable(entries)
      BY DEF Inductive, CacheOK, ArrayOK
    <2>2. HasHole(entries)
      BY <2>1, ArrayHasHole DEF Inductive
    <2>3. ASSUME entries[symbol[k]].key = k PROVE FindEntry(entries, k) = symbol[k]
      <3>1. symbol[k] \in Live(entries)
        BY <2>1, <2>3, TableAssumption DEF Live
      <3> QED BY <2>1, <2>2, <2>3, <3>1, FindPresent
    <2> QED BY <2>1, <2>3
  <1> QED BY <1>1, TableInvariant, PTL

\* Collisions, tombstones, growth, the cache and the undoing of an assignment
\* to an undefined variable do not show: the table is the map of LoxMap.
THEOREM TableIsMap == Spec => ImplementsMap
  <1>1. Init => Abstract!Init
    BY InitHolds
  <1>2. Inductive /\ [Next]_vars => [Abstract!Next]_(Abstract!vars)
    BY NextStep
  <1> QED BY <1>1, <1>2, TableInvariant, PTL DEF Spec, ImplementsMap, Abstract!Spec
=============================================================================
