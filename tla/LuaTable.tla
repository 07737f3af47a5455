------------------------------ MODULE LuaTable ------------------------------
(***************************************************************************)
(* A Lua table (ltable.c): an array part for the first integers and a node *)
(* part for all other keys, a chained scatter table with Brent's variation *)
(* that is rebuilt, with both parts of a new size, when no node is free.   *)
(* Around it those who use a table in several steps: a traversal with      *)
(* luaH_next whose body clears and changes fields, the cached absence of   *)
(* a metamethod in the flags (ltm.c), and the collector (lgc.c), which     *)
(* marks the keys of empty nodes dead.                                     *)
(*                                                                         *)
(* Positions are numbered from 1, 0 is no position, and dummynode is a     *)
(* node part without nodes.  The value a program stores under a key is the *)
(* key itself, so that the value of one key is told from that of another.  *)
(* A memory error in the middle of a resize is not modelled.               *)
(***************************************************************************)
EXTENDS Naturals, FiniteSets, SequencesExt

CONSTANTS
    MaxInt,         \* bound: the integer keys are 1..MaxInt
    Strings,        \* keys hashed by content
    Objects,        \* keys hashed by address
    TagMethod,      \* the string that names the metamethod, __newindex
    Nil,
    Hashes,         \* hash functions to check
    MaxNodes,       \* bound: the nodes of a table
    Watched         \* bound: the entries whose visits by a traversal are counted

Ints == 1..MaxInt
Collectable == Strings \cup Objects
Keys == Ints \cup Collectable

ASSUME TableAssumption ==
    /\ MaxInt \in Nat /\ MaxNodes \in Nat
    /\ TagMethod \in Strings /\ Nil \notin Keys
    /\ Collectable \cap Nat = {} /\ Strings \cap Objects = {}
    /\ Hashes \subseteq [Keys -> Nat] /\ Watched \subseteq Keys

VARIABLES
    hash,       \* the hash of each key
    t,          \* the table: its array, nodes and free pointer
    absent,     \* its flags: the metamethod is known to be absent
    fresh,      \* its constructor is running
    iter,       \* a traversal: the key it is at, and what became of one entry
    asked       \* history: the keys the last step was asked to store under, with the values

vars == <<hash, t, absent, fresh, iter, asked>>

\* The first powers of two, which the sizes of both parts are.
Powers(n) == LET twoto[i \in 0..n] == IF i = 0 THEN 1 ELSE 2 * twoto[i - 1] IN {twoto[i] : i \in 0..n}
Ceil2(n) == IF n = 0 THEN 0 ELSE Min({p \in Powers(n) : p >= n})

\* A node whose key and value are nil.
FreeNode == [key |-> Nil, dead |-> FALSE, val |-> Nil, next |-> 0]

\* A table with an array of n values and an empty node part.
NewTable(array, n) ==
    [array |-> array, node |-> [i \in 1..Ceil2(n) |-> FreeNode], lastfree |-> Ceil2(n), nested |-> FALSE]

\* Strings are hashed modulo the number of nodes, other keys modulo an odd number.
MainPosition(h, k) ==
    LET n == Len(h.node)
    IN  (IF k \in Strings THEN hash[k] % n ELSE hash[k] % (IF n > 1 THEN n - 1 ELSE 1)) + 1

\* The positions from p along the chain, 0 after its end.
Chain(h, p) ==
    LET gnext(q) == IF q = 0 THEN 0 ELSE h.node[q].next
        at[i \in 0..Len(h.node)] == IF i = 0 THEN p ELSE gnext(at[i - 1])
    IN  at

InArray(h, k) == k \in 1..Len(h.array)

\* Where a search along the chain meets k first, or 0; only findindex takes a dead key.
Find(h, k, dead) ==
    LET search[p \in 0..Len(h.node)] ==
            IF p = 0 \/ (h.node[p].key = k /\ (dead \/ ~h.node[p].dead)) THEN p
            ELSE search[h.node[p].next]
    IN  IF h.node = << >> THEN 0 ELSE search[MainPosition(h, k)]

Has(h, k) == InArray(h, k) \/ Find(h, k, FALSE) # 0

Get(h, k) ==
    IF InArray(h, k) THEN h.array[k]
    ELSE LET p == Find(h, k, FALSE) IN IF p = 0 THEN Nil ELSE h.node[p].val

Put(h, k, v) ==
    IF InArray(h, k) THEN [h EXCEPT !.array[k] = v] ELSE [h EXCEPT !.node[Find(h, k, FALSE)].val = v]

-----------------------------------------------------------------------------
(* The node part *)

\* The highest free position below the free pointer, or 0.
FreePos(h) ==
    LET free == {p \in 1..h.lastfree : h.node[p].key = Nil}
    IN  IF free = {} THEN 0 ELSE Max(free)

\* The node at the main position of k can be used as it is.
MainIsEmpty(h, k) == h.node # << >> /\ h.node[MainPosition(h, k)].val = Nil

CanPlace(h, k) == MainIsEmpty(h, k) \/ FreePos(h) # 0

\* Mutant: the node that follows the main position is not kept in the chain.
PlaceUnchained(h, k) ==
    LET mp == MainPosition(h, k)
        n == FreePos(h)
        mine(next) == [key |-> k, dead |-> FALSE, val |-> Nil, next |-> next]
    IN  IF MainIsEmpty(h, k) THEN [h EXCEPT !.node[mp] = mine(h.node[mp].next)]
        ELSE [h EXCEPT !.lastfree = n - 1, !.node = [@ EXCEPT ![n] = mine(0), ![mp].next = n]]

\* newkey when there is room: k gets a node with no value.
Place(h, k) ==
    LET mp == MainPosition(h, k)
        n == FreePos(h)
        mine(next) == [key |-> k, dead |-> FALSE, val |-> Nil, next |-> next]
        othern == MainPosition(h, h.node[mp].key)
        previous == CHOOSE p \in Range(Chain(h, othern)) \ {0} : h.node[p].next = mp
        moved == [h.node EXCEPT ![previous].next = n, ![n] = h.node[mp], ![mp] = mine(0)]
        chained == [h.node EXCEPT ![n] = mine(h.node[mp].next), ![mp].next = n]
    IN  IF MainIsEmpty(h, k) THEN [h EXCEPT !.node[mp] = mine(h.node[mp].next)]
        ELSE [h EXCEPT !.lastfree = n - 1, !.node = IF othern # mp THEN moved ELSE chained]

-----------------------------------------------------------------------------
(* Rebuilding the table *)

\* luaH_set in a table that was made large enough for k: it rebuilds nothing.
Ensure(h, k) ==
    IF Has(h, k) THEN h ELSE IF CanPlace(h, k) THEN Place(h, k) ELSE [h EXCEPT !.nested = TRUE]

Reinsert(h, e) == IF e.val = Nil THEN h ELSE Put(Ensure(h, e.key), e.key, e.val)

\* The n entries are stored again, one after the other.
Refill(h, n, entries) ==
    LET filled[i \in 0..n] == IF i = 0 THEN h ELSE Reinsert(filled[i - 1], entries[i])
    IN  filled[n]

ResizedArray(h, nasize) == [i \in 1..nasize |-> IF i <= Len(h.array) THEN h.array[i] ELSE Nil]

\* Mutant: the vanishing slice of the array is forgotten.
ResizeForgetsSlice(h, nasize, nhsize) ==
    LET nodes == Len(h.node)
    IN  Refill(NewTable(ResizedArray(h, nasize), nhsize), nodes, [i \in 1..nodes |-> h.node[nodes + 1 - i]])

\* resize: the vanishing slice of the array goes to the nodes, then the old nodes, the last one first.
Resize(h, nasize, nhsize) ==
    LET size == Len(h.array)
        nodes == Len(h.node)
        slice(i) == [key |-> i, val |-> IF i > nasize THEN h.array[i] ELSE Nil]
        entries == [i \in 1..size + nodes |-> IF i <= size THEN slice(i) ELSE h.node[size + nodes + 1 - i]]
    IN  Refill(NewTable(ResizedArray(h, nasize), nhsize), size + nodes, entries)

UsedKeys(h) == {i \in 1..Len(h.array) : h.array[i] # Nil} \cup {n.key : n \in {m \in ToSet(h.node) : m.val # Nil}}

\* computesizes: the largest power of two more than half of which the integers would use.
ArraySize(keys) ==
    LET good == {p \in Powers(MaxInt) : Cardinality(keys \cap 1..p) > p \div 2}
    IN  IF good = {} THEN 0 ELSE Max(good)

Rehash(h, k) ==
    LET keys == UsedKeys(h) \cup {k}
        nasize == ArraySize(keys \cap Ints)
    IN  Resize(h, nasize, Cardinality(keys \ 1..nasize))

MustRehash(h, k) == ~Has(h, k) /\ ~CanPlace(h, k)

\* luaH_set and luaH_setnum.
SetKey(h, k) == Ensure(IF MustRehash(h, k) THEN Rehash(h, k) ELSE h, k)

Store(h, k, v) == Put(SetKey(h, k), k, v)

-----------------------------------------------------------------------------
(* Length: luaH_getn and unbound_search *)

\* luaH_getnum finds a value; integers beyond the bound have none.
Present(h, i) == (InArray(h, i) \/ i \in Ints) /\ Get(h, i) # Nil

\* Halve between a present (or 0) i and an absent j.
Between(h, from, to) ==
    LET search[s \in (from..to) \X (from..to)] ==
            LET i == s[1]
                j == s[2]
                m == (i + j) \div 2
            IN  IF j - i <= 1 THEN i ELSE search[IF Present(h, m) THEN <<m, j>> ELSE <<i, m>>]
    IN  search[<<from, to>>]

\* Mutant: the last integer found by doubling is taken for a border.
GetnDoubling(h) ==
    LET size == Len(h.array)
        unbound[i \in 0..MaxInt] ==
            LET j == IF i = size THEN i + 1 ELSE 2 * i
            IN  IF Present(h, j) THEN unbound[j] ELSE i
    IN  IF size > 0 /\ ~Present(h, size) THEN Between(h, 0, size)
        ELSE IF h.node = << >> THEN size
        ELSE unbound[size]

Getn(h) ==
    LET size == Len(h.array)
        \* Double from the end of the array until an absent integer.
        unbound[i \in 0..MaxInt] ==
            LET j == IF i = size THEN i + 1 ELSE 2 * i
            IN  IF Present(h, j) THEN unbound[j] ELSE Between(h, i, j)
    IN  IF size > 0 /\ ~Present(h, size) THEN Between(h, 0, size)
        ELSE IF h.node = << >> THEN size
        ELSE unbound[size]

-----------------------------------------------------------------------------
(* Traversal: luaH_next *)

\* The entries in the order of a traversal, the array part first.
Entry(h, i) ==
    LET size == Len(h.array)
    IN  IF i <= size THEN [key |-> i, val |-> h.array[i]] ELSE h.node[i - size]

\* Mutant: a dead key is not found.
FindIndexAlive(h, k) ==
    IF k = Nil THEN {0}
    ELSE IF InArray(h, k) THEN {k}
    ELSE LET p == Find(h, k, FALSE) IN IF p = 0 THEN {} ELSE {Len(h.array) + p}

\* The index of the key a traversal is at; 0 is its start, and no index an invalid key.
FindIndex(h, k) ==
    IF k = Nil THEN {0}
    ELSE IF InArray(h, k) THEN {k}
    ELSE LET p == Find(h, k, TRUE) IN IF p = 0 THEN {} ELSE {Len(h.array) + p}

\* The keys that follow index i: of these luaH_next returns the first.
NextIndex(h, i) ==
    LET later == {j \in i + 1 .. Len(h.array) + Len(h.node) : Entry(h, j).val # Nil}
    IN  IF later = {} THEN 0 ELSE Min(later)

Idle == [on |-> FALSE, key |-> Nil, watched |-> Nil, seen |-> 0, invalid |-> FALSE]

\* The operation stores v under k, or nothing under any key.
Asked(k, v) == [x \in {k} |-> v]
Nothing == << >>

\* The traversal after a store of v under k: one that lets a new field in is undefined from there.
Disturbed(k, v) ==
    IF ~iter.on \/ Get(t, k) = Nil THEN Idle
    ELSE IF v = Nil /\ k = iter.watched THEN [iter EXCEPT !.watched = Nil, !.seen = 0]
    ELSE iter

-----------------------------------------------------------------------------
Init ==
    /\ hash \in Hashes
    /\ \E narray \in 0..MaxInt, nhash \in 0..MaxNodes : t = NewTable([i \in 1..narray |-> Nil], nhash)
    /\ absent = TRUE /\ fresh = TRUE
    /\ iter = Idle /\ asked = Nothing

\* lua_rawset, or an assignment to a table without a metatable.
RawSet(k, v) ==
    /\ k \in Collectable
    /\ t' = Store(t, k, v) /\ Len(t'.node) <= MaxNodes
    /\ absent' = FALSE
    /\ iter' = Disturbed(k, v) /\ asked' = Asked(k, v)
    /\ UNCHANGED <<hash, fresh>>

\* lua_rawseti goes to luaH_setnum, which leaves the flags unless the table is rebuilt;
\* lua_rawset with an integer stores the same and clears them.
RawSetI(k, v) ==
    /\ k \in Ints
    /\ t' = Store(t, k, v) /\ Len(t'.node) <= MaxNodes
    /\ absent' = (absent /\ ~MustRehash(t, k))
    /\ iter' = Disturbed(k, v) /\ asked' = Asked(k, v)
    /\ UNCHANGED <<hash, fresh>>

\* Mutant: the flag is not cleared after the store.
SetTableCached(k, v) ==
    LET set == SetKey(t, k)
        known == Get(set, TagMethod) # Nil
    IN  /\ ~fresh /\ Get(t, k) = Nil
        /\ t' = IF known THEN set ELSE Put(set, k, v)
        /\ Len(t'.node) <= MaxNodes
        /\ absent' = ~known
        /\ iter' = IF known /\ Has(t, k) THEN iter ELSE Disturbed(k, v)
        /\ asked' = IF known THEN Nothing ELSE Asked(k, v)
        /\ UNCHANGED <<hash, fresh>>

\* luaV_settable on a table that is its own metatable, for a field without a value (with one
\* it is an assignment like those above): fasttm may set the flag again between luaH_set and
\* the store, and a metamethod leaves an empty field behind.
SetTable(k, v) ==
    LET set == SetKey(t, k)
        known == Get(set, TagMethod) # Nil
    IN  /\ ~fresh /\ Get(t, k) = Nil
        /\ t' = IF known THEN set ELSE Put(set, k, v)
        /\ Len(t'.node) <= MaxNodes
        /\ absent' = FALSE
        /\ iter' = IF known /\ Has(t, k) THEN iter ELSE Disturbed(k, v)
        /\ asked' = IF known THEN Nothing ELSE Asked(k, v)
        /\ UNCHANGED <<hash, fresh>>

\* fasttm, for an object with this metatable.
FastTM ==
    /\ ~fresh
    /\ absent' = (absent \/ Get(t, TagMethod) = Nil)
    /\ asked' = Nothing
    /\ UNCHANGED <<hash, t, fresh, iter>>

\* OP_SETLIST, in a constructor: the last value is stored first.
SetList(list) ==
    LET n == Len(list)
        grows == n > Len(t.array)
        h == IF grows THEN Resize(t, n, Len(t.node)) ELSE t
        stored[i \in 0..n] == IF i = 0 THEN h ELSE Store(stored[i - 1], n + 1 - i, list[n + 1 - i])
    IN  /\ fresh /\ n > 0
        /\ t' = stored[n]
        /\ Len(t'.node) <= MaxNodes
        /\ absent' = (absent /\ ~(grows /\ \E m \in ToSet(t.node) : m.val # Nil))
        /\ asked' = list
        /\ UNCHANGED <<hash, fresh, iter>>

\* The constructor ends; only then other code has the table.
Constructed ==
    /\ fresh /\ fresh' = FALSE /\ asked' = Nothing
    /\ UNCHANGED <<hash, t, absent, iter>>

\* traversetable: removeentry on every empty node.
Traverse ==
    /\ t' = [t EXCEPT !.node = [p \in DOMAIN t.node |->
                [t.node[p] EXCEPT !.dead = @ \/ (t.node[p].val = Nil /\ t.node[p].key \in Collectable)]]]
    /\ asked' = Nothing
    /\ UNCHANGED <<hash, absent, fresh, iter>>

\* cleartable: a weak table loses an entry whose value was collected, with its key if it can.
ClearWeak(k) ==
    /\ ~fresh /\ Get(t, k) # Nil
    /\ t' = IF InArray(t, k) THEN Put(t, k, Nil)
            ELSE [t EXCEPT !.node[Find(t, k, FALSE)].val = Nil,
                           !.node[Find(t, k, FALSE)].dead = k \in Collectable]
    /\ iter' = Disturbed(k, Nil) /\ asked' = Asked(k, Nil)
    /\ UNCHANGED <<hash, absent, fresh>>

\* LuaTable.ForEach and the like start with a nil key; the visits of one entry, or of none,
\* are counted.
ForEach(k) ==
    /\ ~fresh /\ ~iter.on
    /\ k # Nil => k \in Watched /\ Get(t, k) # Nil
    /\ iter' = [Idle EXCEPT !.on = TRUE, !.watched = k] /\ asked' = Nothing
    /\ UNCHANGED <<hash, t, absent, fresh>>

\* luaH_next: an error for an invalid key, else the next entry or the end of the traversal.
NextEntry ==
    LET found == FindIndex(t, iter.key)
        i == NextIndex(t, CHOOSE j \in found : TRUE)
    IN  /\ iter.on /\ ~iter.invalid
        /\ iter' = IF found = {} THEN [iter EXCEPT !.invalid = TRUE]
                   ELSE IF i = 0 THEN Idle
                   ELSE LET k == Entry(t, i).key
                        IN  [iter EXCEPT !.key = k, !.seen = @ + IF k = iter.watched THEN 1 ELSE 0]
        /\ asked' = Nothing
        /\ UNCHANGED <<hash, t, absent, fresh>>

Next ==
    \/ \E k \in Keys, v \in BOOLEAN :
          LET value == IF v THEN k ELSE Nil
          IN  RawSet(k, value) \/ RawSetI(k, value) \/ SetTable(k, value)
    \/ \E n \in 1..MaxInt : \E S \in SUBSET (1..n) : SetList([i \in 1..n |-> IF i \in S THEN i ELSE Nil])
    \/ FastTM \/ Constructed \/ Traverse \/ NextEntry
    \/ \E k \in Keys : ClearWeak(k)
    \/ \E k \in Watched \cup {Nil} : ForEach(k)

Spec == Init /\ [][Next]_vars

-----------------------------------------------------------------------------
(* Properties *)

\* Type correctness of the table, its flags and its traversal.
TypeOK ==
    /\ hash \in Hashes /\ absent \in BOOLEAN /\ fresh \in BOOLEAN
    /\ \A i \in DOMAIN t.array : t.array[i] \in {i, Nil}
    /\ \A n \in ToSet(t.node) :
           n.key \in Keys \cup {Nil} /\ n.val \in {n.key, Nil} /\ n.next \in 0..Len(t.node)
           /\ n.dead => n.val = Nil /\ n.key \in Collectable
    /\ Len(t.node) \in Powers(Len(t.node)) \cup {0} /\ t.lastfree \in 0..Len(t.node)
    /\ iter.key \in Keys \cup {Nil} /\ iter.watched \in Watched \cup {Nil}

\* The main invariant of ltable.c: an element out of its main position collides with one in
\* its own, from which it is reached by a chain that ends; no key is found in two places;
\* the free pointer has passed no free node; and rebuilding a table makes it large enough,
\* so that no re-insertion starts another rehash.
NodesSound ==
    /\ TypeOK
    /\ ~t.nested
    /\ \A p \in t.lastfree + 1 .. Len(t.node) : t.node[p].key # Nil
    /\ \A p \in DOMAIN t.node : Chain(t, p)[Len(t.node)] = 0
    /\ \A p \in DOMAIN t.node : LET n == t.node[p] IN n.val # Nil =>
          LET mp == MainPosition(t, n.key)
          IN  /\ MainPosition(t, t.node[mp].key) = mp /\ p \in Range(Chain(t, mp))
              /\ ~InArray(t, n.key)
    /\ \A p, q \in DOMAIN t.node :
          t.node[p].key = t.node[q].key /\ t.node[p].key # Nil /\ ~t.node[p].dead /\ ~t.node[q].dead => p = q

\* A traversal that only changes and clears fields, with the collector at work between its
\* steps, never fails with "invalid key to 'next'", returns no entry twice, and at its end
\* has returned each entry that kept a value throughout (LuaTable.ForEach, Count, Clear).
TraversalVisits ==
    [][/\ ~iter'.invalid /\ iter'.seen <= 1
       /\ (~iter'.on /\ iter.watched # Nil /\ NextEntry) => iter.seen = 1]_vars

\* lua_objlen is a border: the last of some integers that have values, with none after it,
\* whatever mixture of array and nodes holds the integers.
LengthIsBorder ==
    LET n == Getn(t) IN (n = 0 \/ Get(t, n) # Nil) /\ (n + 1 \in Keys => Get(t, n + 1) = Nil)

\* A metamethod recorded as absent is absent, even when the table is its own metatable.
CachedAbsence == absent => Get(t, TagMethod) = Nil

Map == INSTANCE LuaMap WITH Values <- Keys, Lengths <- Ints, map <- [k \in Keys |-> Get(t, k)]

\* A table is a map: a store gives its own key its value, the list of a constructor the
\* integers it has values for, a collector empties the entry it clears.  Rehashes, moves of
\* colliding nodes, the passage of integers between the two parts and dead keys change
\* nothing else meanwhile, and lookups, traversals and the mark phase nothing at all.
ImplementsMap == Map!Spec
=============================================================================
