-------------------------------- MODULE Table --------------------------------
(***************************************************************************)
(* The hash table of table.c: open addressing with linear probing,         *)
(* tombstones, a load factor of 3/4 that counts them, and the slot cache   *)
(* of global variables (ObjString.symbol; vm.c:1272-1318).                 *)
(*                                                                         *)
(* Keys are interned, so that comparing pointers compares strings; their   *)
(* hashes are the constant Hash.                                           *)
(***************************************************************************)
EXTENDS Naturals, FiniteSets

CONSTANTS
  Keys,         \* interned strings
  Hash,         \* ObjString.hash
  Values,       \* values stored, Nil among them
  Nil,
  NoKey,        \* NULL
  Missing,      \* the callers' "not found"
  NoSymbol,     \* INVALID_OBJ_STRING_SYMBOL
  MinCapacity,  \* capacity of the first allocation (16 in memory.h)
  MaxCapacity   \* bound: a table that would outgrow it is not written to

ASSUME TableAssumption ==
  /\ Hash \in [Keys -> Nat]
  /\ Nil \in Values /\ Nil # TRUE
  /\ NoKey \notin Keys
  /\ MinCapacity \in Nat \ {0, 1}
  /\ MaxCapacity \in Nat

VARIABLES
  entries,    \* entries[i], i < capacity
  count,      \* used entries, tombstones included
  symbol,     \* ObjString.symbol of each key
  isGlobal,   \* the table of global variables: it maintains symbol
  isFrozen,
  out         \* what the last operation told its caller

tableVars == <<entries, count, symbol>>
vars == <<entries, count, symbol, isGlobal, isFrozen, out>>

Hole == [key |-> NoKey, value |-> Nil]
Tombstone == [key |-> NoKey, value |-> TRUE]

Size(es) == Cardinality(DOMAIN es)

Init ==
  /\ entries = [i \in {} |-> Hole]
  /\ count = 0
  /\ symbol = [k \in Keys |-> NoSymbol]
  /\ isGlobal \in BOOLEAN
  /\ isFrozen = FALSE
  /\ out = Missing

-----------------------------------------------------------------------------
(* findEntry *)

First(D) == CHOOSE d \in D : \A c \in D : d <= c

\* The d-th entry that a search for k looks at.
Probe(es, k, d) == (Hash[k] + d) % Size(es)

Stops(es, k, d) ==
  LET e == es[Probe(es, k, d)] IN e.key = k \/ e = Hole

\* The probe that ends the search for k.
Stop(es, k) == First({d \in 0 .. Size(es) - 1 : Stops(es, k, d)})

\* The probes of a search that pass a tombstone.
Tombs(es, k) == {d \in 0 .. Stop(es, k) : es[Probe(es, k, d)] = Tombstone}

\* Mutation of FindEntry: a tombstone is taken before k is looked for.
FindEntryEager(es, k) ==
  Probe(es, k, IF Tombs(es, k) # {} THEN First(Tombs(es, k)) ELSE Stop(es, k))

\* The entry of k, or the one a new entry for k should take.
FindEntry(es, k) ==
  LET d == Stop(es, k) IN
  Probe(es, k, IF es[Probe(es, k, d)] = Hole /\ Tombs(es, k) # {}
               THEN First(Tombs(es, k)) ELSE d)

Has(es, k) == es[FindEntry(es, k)].key = k

\* The search leaves where it stopped in the key: not where a tombstone was.
Symbol(es, k) ==
  IF isGlobal THEN [symbol EXCEPT ![k] = Probe(es, k, Stop(es, k))] ELSE symbol

-----------------------------------------------------------------------------
(* tableGet, tableSet, tableDelete *)

GrowCapacity(c) == IF c < MinCapacity THEN MinCapacity ELSE 2 * c

Live(es) == {i \in DOMAIN es : es[i].key # NoKey}

\* The new array once entry e of the old one is moved.
Moved(new, e) ==
  IF e.key = NoKey THEN new ELSE [new EXCEPT ![FindEntry(new, e.key)] = e]

\* The live entries of es from left to right, inserted into an empty array.
Rehash(es) ==
  LET after[n \in 0 .. Size(es)] ==   \* the first n entries are done
        IF n = 0 THEN [i \in 0 .. GrowCapacity(Size(es)) - 1 |-> Hole]
        ELSE Moved(after[n - 1], es[n - 1])
  IN after[Size(es)]

\* adjustCapacity finds each key in the array under construction: its slot
\* there is where it stays.
RehashSymbol(es, new) ==
  [k \in Keys |-> IF isGlobal /\ \E i \in Live(es) : es[i].key = k
                  THEN FindEntry(new, k) ELSE symbol[k]]

\* Mutation of MustGrow: only live entries are counted.
MustGrowLive == Cardinality(Live(entries)) + 1 > (Size(entries) * 3) \div 4

MustGrow == count + 1 > (Size(entries) * 3) \div 4

\* The array tableSet inserts into.
Room == IF MustGrow THEN Rehash(entries) ELSE entries

Get(k) ==   \* tableGet
  /\ IF count = 0 THEN out' = Missing /\ UNCHANGED symbol
     ELSE /\ out' = IF Has(entries, k) THEN entries[FindEntry(entries, k)].value ELSE Missing
          /\ symbol' = Symbol(entries, k)
  /\ UNCHANGED <<entries, count, isGlobal, isFrozen>>

\* The effect of tableSet(k, v) on the array, the count and the cache.
Written(k, v) ==
  LET es == Room
      i == FindEntry(es, k)
      n == IF MustGrow THEN Cardinality(Live(entries)) ELSE count
      moved == IF MustGrow THEN RehashSymbol(entries, es) ELSE symbol
  IN [entries |-> [es EXCEPT ![i] = [key |-> k, value |-> v]],
      count   |-> IF es[i] = Hole THEN n + 1 ELSE n,
      symbol  |-> IF isGlobal THEN [moved EXCEPT ![k] = Probe(es, k, Stop(es, k))] ELSE symbol,
      isNew   |-> es[i].key = NoKey]

Fits == MustGrow => GrowCapacity(Size(entries)) <= MaxCapacity

Set(k, v) ==   \* tableSet
  /\ ~isFrozen /\ Fits
  /\ LET w == Written(k, v) IN
       /\ entries' = w.entries
       /\ count' = w.count
       /\ symbol' = w.symbol
       /\ out' = w.isNew
  /\ UNCHANGED <<isGlobal, isFrozen>>

\* tableDelete: the search leaves its slot in the key, there or not.
Delete(k) ==
  /\ ~isFrozen
  /\ symbol' = IF count = 0 THEN symbol ELSE Symbol(entries, k)
  /\ IF count > 0 /\ Has(entries, k)
     THEN entries' = [entries EXCEPT ![FindEntry(entries, k)] = Tombstone] /\ out' = TRUE
     ELSE out' = FALSE /\ UNCHANGED entries
  /\ UNCHANGED <<count, isGlobal, isFrozen>>

\* A frozen table, a builtin module, refuses to be written.
Refuse == isFrozen /\ out' = FALSE /\ UNCHANGED <<tableVars, isGlobal, isFrozen>>

\* vm.c:278, once a builtin module is filled.
Freeze ==
  /\ ~isGlobal /\ ~isFrozen
  /\ isFrozen' = TRUE
  /\ UNCHANGED <<tableVars, isGlobal, out>>

-----------------------------------------------------------------------------
(* OP_GET_GLOBAL and OP_SET_GLOBAL. Globals are also the properties of     *)
(* @object.getGlobal(), which may be read, set and deleted.                *)

\* Mutation of Cached: the key of the cached entry is not compared.
CachedUnchecked(k) == symbol[k] # NoSymbol

Cached(k) == symbol[k] # NoSymbol /\ entries[symbol[k]].key = k

GetGlobal(k) ==
  /\ isGlobal
  /\ \/ /\ Cached(k)
        /\ out' = entries[symbol[k]].value
        /\ UNCHANGED <<tableVars, isGlobal, isFrozen>>
     \/ ~Cached(k) /\ Get(k)

\* An undefined variable is set, found to be new, and deleted again.
SetGlobal(k, v) ==
  /\ isGlobal
  /\ \/ /\ Cached(k)
        /\ entries' = [entries EXCEPT ![symbol[k]].value = v]
        /\ out' = v
        /\ UNCHANGED <<count, symbol>>
     \/ /\ ~Cached(k) /\ Fits
        /\ LET w == Written(k, v) IN
             /\ entries' = IF w.isNew
                           THEN [w.entries EXCEPT ![FindEntry(w.entries, k)] = Tombstone]
                           ELSE w.entries
             /\ count' = w.count
             /\ symbol' = IF w.isNew
                          THEN [w.symbol EXCEPT ![k] = Probe(w.entries, k, Stop(w.entries, k))]
                          ELSE w.symbol
             /\ out' = IF w.isNew THEN Missing ELSE v
  /\ UNCHANGED <<isGlobal, isFrozen>>

Next ==
  \/ \E k \in Keys : Get(k) \/ Delete(k) \/ GetGlobal(k)
  \/ \E k \in Keys, v \in Values : Set(k, v) \/ SetGlobal(k, v)
  \/ Refuse \/ Freeze

Spec == Init /\ [][Next]_vars

-----------------------------------------------------------------------------
(* Properties *)

Entry == [key : Keys \union {NoKey}, value : Values \union {TRUE}]

TypeOK ==
  /\ entries \in [0 .. Size(entries) - 1 -> Entry]
  /\ count \in 0 .. MaxCapacity
  /\ symbol \in [Keys -> Nat \union {NoSymbol}]
  /\ isGlobal \in BOOLEAN
  /\ isFrozen \in BOOLEAN

\* A search ends: whatever was inserted and deleted, the array keeps a hole,
\* because the load factor counts tombstones (table.c:111-114).
SearchEnds ==
  entries # [i \in {} |-> Hole] =>
    /\ \E i \in DOMAIN entries : entries[i] = Hole
    /\ count = Cardinality({i \in DOMAIN entries : entries[i] # Hole})

\* The slot cached in a key lies inside the array, though the array was
\* replaced meanwhile; and if the key is there, a search finds it there, so
\* that the two paths of OP_GET_GLOBAL and OP_SET_GLOBAL agree.
CacheAgrees ==
  \A k \in Keys : symbol[k] # NoSymbol =>
    /\ symbol[k] \in DOMAIN entries
    /\ entries[symbol[k]].key = k => FindEntry(entries, k) = symbol[k]

Contents ==
  [k \in {entries[i].key : i \in Live(entries)} |->
     entries[CHOOSE i \in Live(entries) : entries[i].key = k].value]

Abstract == INSTANCE LoxMap WITH map <- Contents, frozen <- isFrozen

\* Collisions, tombstones, growth and the cache do not show: the table is a
\* map.
ImplementsMap == Abstract!Spec
=============================================================================
