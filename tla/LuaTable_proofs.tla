-------------------------- MODULE LuaTable_proofs --------------------------
(***************************************************************************)
(* Proofs about LuaTable, for any keys, any hash functions, any sizes and  *)
(* any order of stores, rehashes, traversals and collections: the nodes    *)
(* are sound, a table is a map, a traversal visits each entry once, the    *)
(* length is a border, and what is cached as absent is absent.             *)
(*                                                                         *)
(* The chains of the node part are a function on its positions.  All that  *)
(* is needed of them is said with sets of positions: those closed under    *)
(* that function tell what can be reached, and that every set is left by   *)
(* it tells that chains end.                                               *)
(***************************************************************************)
EXTENDS LuaTable, Integers, FiniteSetTheorems, SequenceTheorems, WellFoundedInduction, TLAPS

(* f gives the next position, or 0.                                        *)
Closed(f, S) == \A q \in S : f[q] # 0 => f[q] \in S
Joined(f, p, q) == \A S \in SUBSET DOMAIN f : p \in S /\ Closed(f, S) => q \in S
Ending(f) == \A S \in SUBSET DOMAIN f : S # {} => \E q \in S : f[q] \notin S
Single(f) == \A p, q \in DOMAIN f : f[p] # 0 /\ f[p] = f[q] => p = q

Nodes == [key : Keys \cup {Nil}, dead : BOOLEAN, val : Keys \cup {Nil}, next : Nat]
Tables == [array : Seq(Keys \cup {Nil}), node : Seq(Nodes), lastfree : Nat, nested : BOOLEAN]
Nexts(h) == [p \in 1..Len(h.node) |-> h.node[p].next]

(* The values and the sizes. *)
Shaped(h) ==
    /\ h \in Tables
    /\ \A i \in 1..Len(h.array) : h.array[i] \in {i, Nil}
    /\ \A p \in 1..Len(h.node) :
          LET n == h.node[p]
          IN  /\ n.val \in {n.key, Nil} /\ n.next \in 0..Len(h.node)
              /\ n.dead => n.val = Nil /\ n.key \in Collectable
    /\ h.lastfree <= Len(h.node)
    /\ Len(h.node) \in Powers(Len(h.node)) \cup {0}

(* The nodes that were never used are in no chain.                         *)
Unused(h) ==
    \A p \in 1..Len(h.node) :
        /\ h.node[p].key = Nil => p <= h.lastfree /\ h.node[p].next = 0
        /\ h.node[p].next # 0 => h.node[h.node[p].next].key # Nil

(* Every key, with a value or without, is in the chain from its main       *)
(* position, which is that of the key in it.                               *)
Home(h, p) ==
    LET mp == MainPosition(h, h.node[p].key)
    IN  /\ ~InArray(h, h.node[p].key)
        /\ h.node[mp].key # Nil /\ MainPosition(h, h.node[mp].key) = mp
        /\ Joined(Nexts(h), mp, p)

(* A live key is found before its dead ones.                               *)
First(h, p) ==
    \A q \in 1..Len(h.node) :
        h.node[q].key = h.node[p].key => (h.node[q].dead \/ q = p) /\ Joined(Nexts(h), p, q)

Sound(h) ==
    /\ Shaped(h) /\ Unused(h)
    /\ Ending(Nexts(h)) /\ Single(Nexts(h))
    /\ \A p \in 1..Len(h.node) : h.node[p].key # Nil =>
          Home(h, p) /\ (h.node[p].dead \/ First(h, p))

(* Where a traversal is, and what it has counted.                          *)
Index(h, k) == CHOOSE j \in FindIndex(h, k) : TRUE
Traversals ==
    [on : BOOLEAN, key : Keys \cup {Nil}, watched : Watched \cup {Nil}, seen : Nat, invalid : BOOLEAN]
Counted(h, it) ==
    /\ it \in Traversals /\ ~it.invalid
    /\ it.on =>
          /\ FindIndex(h, it.key) # {}
          /\ it.watched # Nil =>
                /\ Get(h, it.watched) # Nil
                /\ it.seen = IF Index(h, it.watched) <= Index(h, it.key) THEN 1 ELSE 0
          /\ it.watched = Nil => it.seen = 0
    /\ ~it.on => it = Idle

IInv ==
    /\ hash \in Hashes /\ absent \in BOOLEAN /\ fresh \in BOOLEAN
    /\ Sound(t) /\ ~t.nested
    /\ absent => Get(t, TagMethod) = Nil
    /\ fresh => ~iter.on
    /\ Counted(t, iter)

-----------------------------------------------------------------------------
(* What can be reached along a function of positions. *)

LEMMA JoinedSelf ==
    ASSUME NEW f, NEW p
    PROVE  Joined(f, p, p)
BY DEF Joined

LEMMA JoinedOn ==
    ASSUME NEW f, NEW p, NEW q, NEW r, Joined(f, p, q), Joined(f, q, r)
    PROVE  Joined(f, p, r)
BY DEF Joined

LEMMA JoinedInside ==
    ASSUME NEW N \in Nat, NEW f \in [1 .. N -> 0 .. N], NEW p \in 1 .. N, NEW q, Joined(f, p, q)
    PROVE  q \in 1 .. N
<1>1. Closed(f, 1 .. N)
  BY DEF Closed
<1>2. DOMAIN f = 1 .. N
  OBVIOUS
<1>3. 1 .. N \in SUBSET DOMAIN f
  BY <1>2
<1> QED BY <1>1, <1>3 DEF Joined

LEMMA JoinedNext ==
    ASSUME NEW N \in Nat, NEW f \in [1 .. N -> 0 .. N], NEW p, NEW q \in 1 .. N,
           Joined(f, p, q), f[q] # 0
    PROVE  Joined(f, p, f[q])
BY DEF Joined, Closed

LEMMA JoinedFrom ==
    ASSUME NEW N \in Nat, NEW f \in [1 .. N -> 0 .. N], NEW p \in 1 .. N, NEW q,
           Joined(f, p, q), p # q
    PROVE  f[p] # 0 /\ Joined(f, f[p], q)
<1>0. DOMAIN f = 1 .. N
  OBVIOUS
<1>1. f[p] # 0
  <2>1. SUFFICES ASSUME f[p] = 0 PROVE FALSE
    OBVIOUS
  <2>2. Closed(f, {p}) /\ {p} \in SUBSET DOMAIN f
    BY <1>0, <2>1 DEF Closed
  <2> QED BY <2>2 DEF Joined
<1>2. ASSUME NEW S \in SUBSET DOMAIN f, f[p] \in S, Closed(f, S) PROVE q \in S
  <2>1. Closed(f, S \cup {p}) /\ S \cup {p} \in SUBSET DOMAIN f
    BY <1>0, <1>2 DEF Closed
  <2>2. q \in S \cup {p}
    BY <2>1 DEF Joined
  <2> QED BY <2>2
<1> QED BY <1>1, <1>2 DEF Joined

(* No chain comes back. *)
LEMMA JoinedOnce ==
    ASSUME NEW N \in Nat, NEW f \in [1 .. N -> 0 .. N], Ending(f), NEW p \in 1 .. N, NEW q \in 1 .. N,
           Joined(f, p, q), Joined(f, q, p)
    PROVE  p = q
<1> DEFINE S == {x \in 1 .. N : Joined(f, x, p) /\ Joined(f, p, x)}
<1>1. SUFFICES ASSUME p # q PROVE FALSE
  OBVIOUS
<1>2. S \in SUBSET DOMAIN f /\ p \in S
  BY JoinedSelf
<1>3. PICK x \in S : f[x] \notin S
  <2> HIDE DEF S
  <2> QED BY <1>2 DEF Ending
<1>4. f[x] # 0 /\ Joined(f, f[x], p)
  <2>1. CASE x = p
    <3>1. f[p] # 0 /\ Joined(f, f[p], q)
      BY <1>1, JoinedFrom
    <3> QED BY <2>1, <3>1, JoinedOn
  <2>2. CASE x # p
    BY <2>2, JoinedFrom
  <2> QED BY <2>1, <2>2
<1>5. Joined(f, p, f[x])
  BY <1>4, JoinedNext
<1>6. f[x] \in 1 .. N
  BY <1>4
<1> QED BY <1>3, <1>4, <1>5, <1>6

(* The first of some positions that a chain meets. *)
Meets(f, M, p, q) == q \in M /\ Joined(f, p, q) /\ \A r \in M : Joined(f, p, r) => Joined(f, q, r)

LEMMA OneIsMet ==
    ASSUME NEW N \in Nat, NEW f \in [1 .. N -> 0 .. N], Ending(f), NEW M \in SUBSET (1 .. N),
           NEW p \in 1 .. N, NEW r \in M, Joined(f, p, r)
    PROVE  \E q \in M : Meets(f, M, p, q)
<1> DEFINE S == {x \in 1 .. N : Joined(f, p, x) /\ \A s \in M : Joined(f, p, s) => Joined(f, x, s)}
<1>1. S \in SUBSET DOMAIN f /\ p \in S
  BY JoinedSelf
<1>2. PICK x \in S : f[x] \notin S
  <2> HIDE DEF S
  <2> QED BY <1>1 DEF Ending
<1>3. SUFFICES ASSUME x \notin M PROVE FALSE
  BY <1>2 DEF Meets
<1>4. ASSUME NEW s \in M, Joined(f, p, s) PROVE f[x] # 0 /\ Joined(f, f[x], s)
  <2>1. Joined(f, x, s) /\ x # s
    BY <1>3, <1>4
  <2> QED BY <2>1, JoinedFrom
<1>5. f[x] # 0
  BY <1>4
<1>6. Joined(f, p, f[x])
  BY <1>5, JoinedNext
<1> QED BY <1>2, <1>4, <1>5, <1>6

Search(f, M) == LET s[p \in DOMAIN f \cup {0}] == IF p = 0 \/ p \in M THEN p ELSE s[f[p]] IN s

LEMMA SearchMeets ==
    ASSUME NEW N \in Nat, NEW f \in [1 .. N -> 0 .. N], Ending(f), NEW M \in SUBSET (1 .. N),
           NEW p \in 1 .. N
    PROVE  /\ Search(f, M)[p] = 0 => \A r \in M : ~Joined(f, p, r)
           /\ Search(f, M)[p] # 0 => Meets(f, M, p, Search(f, M)[p])
<1> DEFINE D == DOMAIN f \cup {0}
           Step(s, x) == IF x = 0 \/ x \in M THEN x ELSE s[f[x]]
           Rec(s) == s = [x \in D |-> Step(s, x)]
           met == [x \in D |-> IF x # 0 /\ \E q \in M : Meets(f, M, x, q) THEN CHOOSE q \in M : Meets(f, M, x, q) ELSE 0]
           found == CHOOSE s : Rec(s)
<1>1. Search(f, M) = found
  BY Zenon DEF Search
<1>2. D = 0 .. N
  OBVIOUS
<1>3. \A x \in 1 .. N, q1 \in M, q2 \in M : Meets(f, M, x, q1) /\ Meets(f, M, x, q2) => q1 = q2
  BY JoinedOnce DEF Meets
<1>4. \A x \in 1 .. N, q \in M : Meets(f, M, x, q) => met[x] = q
  <2>1. SUFFICES ASSUME NEW x \in 1 .. N, NEW q \in M, Meets(f, M, x, q) PROVE met[x] = q
    OBVIOUS
  <2>2. (CHOOSE e \in M : Meets(f, M, x, e)) \in M /\ Meets(f, M, x, CHOOSE e \in M : Meets(f, M, x, e))
    BY <2>1
  <2> DEFINE c == CHOOSE e \in M : Meets(f, M, x, e)
  <2>3. c \in M /\ Meets(f, M, x, c)
    BY <2>2
  <2>4. met[x] = c
    BY <2>1, <1>2
  <2> HIDE DEF c, met
  <2> QED BY <1>3, <2>1, <2>3, <2>4
<1>5. \A x \in 1 .. N : (\A q \in M : ~Meets(f, M, x, q)) => met[x] = 0
  BY <1>2
<1>6. \A x \in D : met[x] = Step(met, x)
  <2>1. met[0] = 0
    BY <1>2
  <2> HIDE DEF met
  <2>2. SUFFICES ASSUME NEW x \in 1 .. N PROVE met[x] = Step(met, x)
    BY <1>2, <2>1
  <2>3. CASE x \in M
    <3>1. Meets(f, M, x, x)
      BY <2>3, JoinedSelf DEF Meets
    <3> QED BY <1>4, <2>3, <3>1
  <2>4. CASE x \notin M /\ f[x] = 0
    <3>1. \A q \in M : ~Meets(f, M, x, q)
      BY <2>4, JoinedFrom DEF Meets
    <3> QED BY <1>5, <2>1, <2>4, <3>1
  <2>5. CASE x \notin M /\ f[x] # 0
    <3>1. \A r \in M : Joined(f, x, r) => Joined(f, f[x], r)
      BY <2>5, JoinedFrom
    <3>2. Joined(f, x, f[x]) /\ f[x] \in 1 .. N
      <4>1. Joined(f, x, x) /\ f[x] \in 1 .. N
        BY <2>5, JoinedSelf
      <4> QED BY <2>5, <4>1, JoinedNext
    <3>3. \A r \in M : Joined(f, f[x], r) => Joined(f, x, r)
      BY <3>2, JoinedOn
    <3>4. \A q \in M : Meets(f, M, x, q) <=> Meets(f, M, f[x], q)
      BY <3>1, <3>3 DEF Meets
    <3>5. met[x] = met[f[x]]
      <4>1. CASE \E q \in M : Meets(f, M, x, q)
        BY <1>4, <3>2, <3>4, <4>1
      <4>2. CASE \A q \in M : ~Meets(f, M, x, q)
        BY <1>5, <3>2, <3>4, <4>2
      <4> QED BY <4>1, <4>2
    <3> QED BY <2>5, <3>5
  <2> QED BY <2>3, <2>4, <2>5
<1>7. Rec(met)
  <2>1. met = [x \in D |-> met[x]]
    OBVIOUS
  <2> HIDE DEF met, Step
  <2> QED BY <1>6, <2>1
<1>8. Rec(found)
  <2> HIDE DEF met, Rec
  <2> QED BY <1>7
<1> HIDE DEF found
<1>9. \A x \in D : found[x] = Step(found, x)
  <2> HIDE DEF Step
  <2> QED BY <1>8
<1>10. \A x \in 1 .. N : found[x] = met[x]
  <2> DEFINE S == {x \in 1 .. N : found[x] # met[x]}
  <2>1. SUFFICES ASSUME S # {} PROVE FALSE
    OBVIOUS
  <2>2. S \in SUBSET DOMAIN f
    OBVIOUS
  <2>3. PICK x \in S : f[x] \notin S
    <3> HIDE DEF S
    <3> QED BY <2>1, <2>2 DEF Ending
  <2>4. x \in D /\ f[x] \in D /\ (f[x] = 0 \/ f[x] \in 1 .. N)
    BY <1>2
  <2>5. found[0] = 0 /\ met[0] = 0
    BY <1>2, <1>9
  <2>6. found[f[x]] = met[f[x]]
    BY <2>3, <2>4, <2>5
  <2> HIDE DEF met
  <2>7. found[x] = Step(found, x) /\ met[x] = Step(met, x)
    BY <1>6, <1>9, <2>4
  <2> QED BY <2>6, <2>7
<1>11. met[p] = 0 => \A r \in M : ~Joined(f, p, r)
  <2>1. SUFFICES ASSUME NEW r \in M, Joined(f, p, r) PROVE met[p] # 0
    OBVIOUS
  <2>2. PICK q \in M : Meets(f, M, p, q)
    BY <2>1, OneIsMet
  <2> HIDE DEF met
  <2> QED BY <1>4, <2>2
<1>12. met[p] # 0 => Meets(f, M, p, met[p])
  <2> HIDE DEF met
  <2> QED BY <1>4, <1>5
<1> HIDE DEF met
<1> QED BY <1>1, <1>10, <1>11, <1>12

-----------------------------------------------------------------------------
(* The two ways in which newkey changes the chains. *)

Chained(N, f, m, n, g) ==
    /\ N \in Nat /\ f \in [1 .. N -> 0 .. N] /\ Ending(f) /\ Single(f)
    /\ m \in 1 .. N /\ n \in 1 .. N /\ m # n /\ f[n] = 0 /\ (\A x \in 1 .. N : f[x] # n)
    /\ g \in [1 .. N -> 0 .. N] /\ g[n] = f[m] /\ g[m] = n
    /\ \A x \in 1 .. N : x # m /\ x # n => g[x] = f[x]

LEMMA ChainedNexts ==
    ASSUME NEW N, NEW f, NEW m, NEW n, NEW g, Chained(N, f, m, n, g)
    PROVE  /\ Ending(g) /\ Single(g)
           /\ \A p \in 1 .. N : \A q : Joined(f, p, q) => Joined(g, p, q)
           /\ \A q : Joined(f, m, q) /\ q # m => Joined(g, n, q)
           /\ Joined(g, m, n)
<1>0. /\ N \in Nat /\ f \in [1 .. N -> 0 .. N] /\ Ending(f) /\ Single(f)
      /\ m \in 1 .. N /\ n \in 1 .. N /\ m # n /\ f[n] = 0 /\ (\A x \in 1 .. N : f[x] # n)
      /\ g \in [1 .. N -> 0 .. N] /\ g[n] = f[m] /\ g[m] = n
      /\ \A x \in 1 .. N : x # m /\ x # n => g[x] = f[x]
  BY DEF Chained
<1> USE <1>0
<1>1. g \in [1 .. N -> 0 .. N] /\ DOMAIN g = 1 .. N /\ DOMAIN f = 1 .. N
  OBVIOUS
<1>2. g[n] = f[m] /\ g[m] = n /\ \A x \in 1 .. N : x # m /\ x # n => g[x] = f[x]
  OBVIOUS
<1>3. ASSUME NEW S \in SUBSET DOMAIN g, Closed(g, S) PROVE Closed(f, S)
  <2>1. SUFFICES ASSUME NEW q \in S, f[q] # 0 PROVE f[q] \in S
    BY DEF Closed
  <2>2. \A x \in S : g[x] # 0 => g[x] \in S
    BY <1>3 DEF Closed
  <2>3. CASE q = m
    BY <1>2, <2>1, <2>2, <2>3
  <2>4. CASE q # m
    BY <1>1, <1>2, <2>1, <2>2, <2>4
  <2> QED BY <2>3, <2>4
<1>4. \A p \in 1 .. N : \A q : Joined(f, p, q) => Joined(g, p, q)
  BY <1>1, <1>3 DEF Joined
<1>5. Joined(g, m, n)
  <2>1. Joined(g, m, m) /\ g[m] # 0
    BY <1>2, JoinedSelf
  <2> QED BY <1>1, <1>2, <2>1, JoinedNext
<1>6. ASSUME NEW q, Joined(f, m, q), q # m PROVE Joined(g, n, q)
  <2>1. f[m] # 0 /\ Joined(f, f[m], q)
    BY <1>6, JoinedFrom
  <2>2. Joined(g, f[m], q)
    <3>1. f[m] \in 1 .. N
      BY <2>1
    <3> QED BY <1>4, <2>1, <3>1
  <2>3. Joined(g, n, g[n])
    <3>1. Joined(g, n, n) /\ g[n] # 0
      BY <1>2, <2>1, JoinedSelf
    <3> QED BY <1>1, <3>1, JoinedNext
  <2> QED BY <1>2, <2>2, <2>3, JoinedOn
<1>7. Ending(g)
  <2>1. SUFFICES ASSUME NEW S \in SUBSET DOMAIN g, S # {}, \A q \in S : g[q] \in S PROVE FALSE
    BY DEF Ending
  <2> DEFINE T == S \ {n}
  <2>2. T # {}
    <3>1. SUFFICES ASSUME S = {n} PROVE FALSE
      BY <2>1
    <3>2. g[n] = n
      BY <2>1, <3>1
    <3> QED BY <1>2, <3>2
  <2>3. T \in SUBSET DOMAIN f
    BY <1>1
  <2>4. PICK q \in T : f[q] \notin T
    <3> HIDE DEF T
    <3> QED BY <2>2, <2>3 DEF Ending
  <2>5. CASE q = m
    <3>1. n \in S
      BY <1>2, <2>1, <2>4, <2>5
    <3>2. g[n] \in S
      BY <2>1, <3>1
    <3> QED BY <1>2, <2>4, <2>5, <3>2
  <2>6. CASE q # m
    <3>1. q \in 1 .. N /\ q # n /\ q \in S
      BY <1>1, <2>4
    <3>2. g[q] = f[q] /\ g[q] \in S
      BY <1>2, <2>1, <2>6, <3>1
    <3> QED BY <2>4, <3>1, <3>2
  <2> QED BY <2>5, <2>6
<1>8. Single(g)
  <2>1. SUFFICES ASSUME NEW p \in 1 .. N, NEW q \in 1 .. N, g[p] # 0, g[p] = g[q], p # q PROVE FALSE
    BY <1>1 DEF Single
  <2>2. \A x, y \in 1 .. N : f[x] # 0 /\ f[x] = f[y] => x = y
    BY <1>1 DEF Single
  <2>3. \A x \in 1 .. N : g[x] = IF x = m THEN n ELSE IF x = n THEN f[m] ELSE f[x]
    BY <1>2
  <2>4. g[p] = IF p = m THEN n ELSE IF p = n THEN f[m] ELSE f[p]
    BY <2>3
  <2>5. g[q] = IF q = m THEN n ELSE IF q = n THEN f[m] ELSE f[q]
    BY <2>3
  <2> HIDE DEF Single
  <2> QED BY <2>1, <2>2, <2>4, <2>5
<1> QED BY <1>1, <1>4, <1>5, <1>6, <1>7, <1>8

Moved(N, f, b, m, n, g) ==
    /\ N \in Nat /\ f \in [1 .. N -> 0 .. N] /\ Ending(f) /\ Single(f)
    /\ b \in 1 .. N /\ m \in 1 .. N /\ n \in 1 .. N /\ m # n /\ f[b] = m
    /\ f[n] = 0 /\ (\A x \in 1 .. N : f[x] # n)
    /\ g \in [1 .. N -> 0 .. N] /\ g[b] = n /\ g[n] = f[m] /\ g[m] = 0
    /\ \A x \in 1 .. N : x # b /\ x # m /\ x # n => g[x] = f[x]

LEMMA MovedNexts ==
    ASSUME NEW N, NEW f, NEW b, NEW m, NEW n, NEW g, Moved(N, f, b, m, n, g)
    PROVE  /\ Ending(g) /\ Single(g)
           /\ \A p, q \in 1 .. N :
                 Joined(f, p, q) => Joined(g, IF p = m THEN n ELSE p, IF q = m THEN n ELSE q)
<1> DEFINE To(x) == IF x = m THEN n ELSE x
<1>0. /\ N \in Nat /\ f \in [1 .. N -> 0 .. N] /\ Ending(f) /\ Single(f)
      /\ b \in 1 .. N /\ m \in 1 .. N /\ n \in 1 .. N /\ m # n /\ f[b] = m
      /\ f[n] = 0 /\ (\A x \in 1 .. N : f[x] # n)
      /\ g \in [1 .. N -> 0 .. N] /\ g[b] = n /\ g[n] = f[m] /\ g[m] = 0
      /\ \A x \in 1 .. N : x # b /\ x # m /\ x # n => g[x] = f[x]
  BY DEF Moved
<1> USE <1>0
<1>1. g \in [1 .. N -> 0 .. N] /\ DOMAIN g = 1 .. N /\ DOMAIN f = 1 .. N
  OBVIOUS
<1>2. f[m] # m /\ b # m /\ b # n
  <2>1. f[m] # m
    <3>1. SUFFICES ASSUME f[m] = m PROVE FALSE
      OBVIOUS
    <3>2. {m} \in SUBSET DOMAIN f /\ {m} # {}
      BY <1>1
    <3>3. \E q \in {m} : f[q] \notin {m}
      BY <3>2 DEF Ending
    <3> QED BY <3>1, <3>3
  <2> QED BY <2>1
<1>3. g[b] = n /\ g[n] = f[m] /\ g[m] = 0 /\ \A x \in 1 .. N : x # b /\ x # m /\ x # n => g[x] = f[x]
  OBVIOUS
<1>4. \A x \in 1 .. N : x # b => f[x] # m
  BY <1>1 DEF Single
<1>5. ASSUME NEW S \in SUBSET (1 .. N), \A q \in S : g[q] # 0 => g[q] \in S,
             NEW q \in 1 .. N, To(q) \in S, f[q] # 0
      PROVE  f[q] \in 1 .. N /\ To(f[q]) \in S
  <2>1. f[q] \in 1 .. N /\ q # n /\ f[q] # n
    BY <1>5
  <2>2. CASE q = b
    BY <1>2, <1>3, <1>5, <2>1, <2>2
  <2>3. CASE q = m
    BY <1>2, <1>3, <1>5, <2>1, <2>3
  <2>4. CASE q # b /\ q # m
    <3>1. q \in S /\ g[q] = f[q]
      BY <1>3, <1>5, <2>1, <2>4
    <3>2. f[q] \in S
      BY <1>5, <3>1
    <3> QED BY <1>4, <2>1, <2>4, <3>2
  <2> QED BY <2>2, <2>3, <2>4
<1> HIDE DEF To
<1>6. ASSUME NEW p \in 1 .. N, NEW q \in 1 .. N, Joined(f, p, q) PROVE Joined(g, To(p), To(q))
  <2>1. SUFFICES ASSUME NEW S \in SUBSET (1 .. N), To(p) \in S, Closed(g, S) PROVE To(q) \in S
    BY <1>1 DEF Joined
  <2> DEFINE T == {x \in 1 .. N : To(x) \in S}
  <2>2. T \in SUBSET DOMAIN f /\ p \in T
    BY <1>1, <2>1
  <2>3. \A x \in S : g[x] # 0 => g[x] \in S
    BY <2>1 DEF Closed
  <2>4. \A x \in T : f[x] # 0 => f[x] \in T
    BY <1>5, <2>3
  <2>5. Closed(f, T)
    <3> HIDE DEF T
    <3> QED BY <2>4 DEF Closed
  <2>6. q \in T
    <3> HIDE DEF T
    <3> QED BY <1>6, <2>2, <2>5 DEF Joined
  <2> QED BY <2>6
<1>7. Ending(g)
  <2>1. SUFFICES ASSUME NEW S \in SUBSET (1 .. N), S # {}, \A q \in S : g[q] \in S PROVE FALSE
    BY <1>1 DEF Ending
  <2>2. \A q \in S : g[q] # 0 /\ q # m
    BY <1>3, <2>1
  <2> DEFINE T == {x \in (1 .. N) \ {n} : To(x) \in S}
  <2>3. T \in SUBSET DOMAIN f
    BY <1>1
  <2>4. T # {}
    <3>1. PICK x \in S : TRUE
      BY <2>1
    <3>2. CASE x = n
      BY <3>1, <3>2 DEF To
    <3>3. CASE x # n
      BY <2>2, <3>1, <3>3 DEF To
    <3> QED BY <3>2, <3>3
  <2>5. PICK q \in T : f[q] \notin T
    <3> HIDE DEF T
    <3> QED BY <2>3, <2>4 DEF Ending
  <2>6. f[q] # 0
    <3>1. CASE q = m
      BY <1>3, <2>2, <2>5, <3>1 DEF To
    <3>2. CASE q = b
      BY <3>2
    <3>3. CASE q # m /\ q # b
      BY <1>3, <2>2, <2>5, <3>3 DEF To
    <3> QED BY <3>1, <3>2, <3>3
  <2>7. f[q] \in 1 .. N /\ To(f[q]) \in S
    BY <1>5, <2>1, <2>5, <2>6
  <2> QED BY <2>5, <2>7
<1>8. Single(g)
  <2>1. SUFFICES ASSUME NEW p \in 1 .. N, NEW q \in 1 .. N, g[p] # 0, g[p] = g[q], p # q PROVE FALSE
    BY <1>1 DEF Single
  <2>2. \A x, y \in 1 .. N : f[x] # 0 /\ f[x] = f[y] => x = y
    BY <1>1 DEF Single
  <2>3. \A x \in 1 .. N : g[x] = IF x = b THEN n ELSE IF x = n THEN f[m] ELSE IF x = m THEN 0 ELSE f[x]
    BY <1>2, <1>3
  <2>4. g[p] = IF p = b THEN n ELSE IF p = n THEN f[m] ELSE IF p = m THEN 0 ELSE f[p]
    BY <2>3
  <2>5. g[q] = IF q = b THEN n ELSE IF q = n THEN f[m] ELSE IF q = m THEN 0 ELSE f[q]
    BY <2>3
  <2> HIDE DEF Single
  <2> QED BY <2>1, <2>2, <2>4, <2>5
<1> QED BY <1>1, <1>6, <1>7, <1>8 DEF To

-----------------------------------------------------------------------------
(* Induction, and the least and the greatest of some numbers. *)

LEMMA Least ==
    ASSUME NEW I \in SUBSET Nat, I # {}
    PROVE  Min(I) \in I /\ \A j \in I : Min(I) <= j
<1> DEFINE less == OpToRel(<, Nat)
<1>1. IsWellFoundedOn(less, Nat)
  BY NatLessThanWellFounded
<1> HIDE DEF less
<1>2. PICK m \in I : \A j \in I : ~(<<j, m>> \in less)
  BY <1>1, WFMin
<1>3. \A j \in I : ~(j < m)
  BY <1>2 DEF less, OpToRel
<1>4. \A j \in I : m <= j
  BY <1>3
<1> QED BY <1>4 DEF Min

LEMMA Greatest ==
    ASSUME NEW n \in Nat, NEW I \in SUBSET (0 .. n), I # {}
    PROVE  Max(I) \in I /\ \A j \in I : Max(I) >= j
<1> DEFINE J == {i \in Nat : n - i \in I}
           m == Min(J)
<1>1. J # {} /\ J \in SUBSET Nat
  <2>1. PICK i \in I : TRUE
    OBVIOUS
  <2>2. n - i \in Nat /\ n - (n - i) = i
    BY <2>1
  <2> QED BY <2>1, <2>2
<1>2. m \in J /\ \A j \in J : m <= j
  BY <1>1, Least
<1> HIDE DEF m
<1>3. \A j \in I : n - j \in J
  <2>1. \A j \in I : n - j \in Nat /\ n - (n - j) = j
    OBVIOUS
  <2> QED BY <2>1
<1>4. \A j \in I : n - m >= j
  <2>1. SUFFICES ASSUME NEW j \in I PROVE n - m >= j
    OBVIOUS
  <2>2. m <= n - j
    <3> HIDE DEF J
    <3> QED BY <1>2, <1>3
  <2>3. m \in Nat /\ j \in Nat
    BY <1>2
  <2> QED BY <2>2, <2>3
<1> QED BY <1>2, <1>4 DEF Max

LEMMA Induction ==
    ASSUME NEW S, 0 \in S, \A n \in Nat : n \in S => n + 1 \in S
    PROVE  \A n \in Nat : n \in S
<1> DEFINE I == {n \in Nat : n \notin S}
           m == Min(I)
<1> SUFFICES ASSUME I # {} PROVE FALSE
  OBVIOUS
<1>1. I \in SUBSET Nat
  OBVIOUS
<1>2. m \in I /\ \A j \in I : m <= j
  <2> HIDE DEF I
  <2> QED BY <1>1, Least
<1> HIDE DEF m
<1>3. m - 1 \in Nat /\ m - 1 \notin I /\ m - 1 + 1 = m
  BY <1>2
<1> QED BY <1>2, <1>3

-----------------------------------------------------------------------------
(* The sizes of both parts. *)

LEMMA PowersAre ==
    ASSUME NEW n \in Nat
    PROVE  \E f \in [0 .. n -> Nat] :
              /\ f[0] = 1 /\ \A i \in 1 .. n : f[i] = 2 * f[i - 1]
              /\ Powers(n) = {f[i] : i \in 0 .. n}
<1> DEFINE Step(f, i) == IF i = 0 THEN 1 ELSE 2 * f[i - 1]
           Rec(f, N) == f = [i \in 0 .. N |-> Step(f, i)]
           S == {N \in Nat : \E f : Rec(f, N)}
           twoto == CHOOSE f : Rec(f, n)
<1>1. Powers(n) = {twoto[i] : i \in 0 .. n}
  BY Zenon DEF Powers
<1>2. 0 \in S
  <2> DEFINE f == [i \in 0 .. 0 |-> 1]
  <2>1. Rec(f, 0)
    OBVIOUS
  <2> QED BY <2>1
<1>3. ASSUME NEW N \in Nat, N \in S PROVE N + 1 \in S
  <2>1. PICK f : Rec(f, N)
    BY <1>3
  <2> DEFINE g == [i \in 0 .. N + 1 |-> IF i = N + 1 THEN Step(f, i) ELSE f[i]]
  <2>2. \A i \in 0 .. N + 1 : i # 0 => g[i - 1] = f[i - 1]
    OBVIOUS
  <2>3. \A i \in 0 .. N + 1 : Step(g, i) = Step(f, i)
    BY <2>2
  <2>4. \A i \in 0 .. N : f[i] = Step(f, i)
    <3> HIDE DEF Step
    <3> QED BY <2>1
  <2>5. \A i \in 0 .. N + 1 : g[i] = Step(g, i)
    <3>1. SUFFICES ASSUME NEW i \in 0 .. N + 1 PROVE g[i] = Step(f, i)
      BY <2>3
    <3> HIDE DEF Step
    <3> QED BY <2>4
  <2>6. Rec(g, N + 1)
    <3>1. g = [i \in 0 .. N + 1 |-> g[i]]
      OBVIOUS
    <3> HIDE DEF g, Step
    <3> QED BY <2>5, <3>1
  <2>7. \E e : Rec(e, N + 1)
    <3> HIDE DEF g, Rec
    <3> QED BY <2>6
  <2> HIDE DEF Rec
  <2> QED BY <2>7
<1> HIDE DEF Rec
<1>4. n \in S
  <2> HIDE DEF S
  <2> QED BY <1>2, <1>3, Induction
<1>5. Rec(twoto, n)
  BY <1>4
<1> HIDE DEF twoto
<1>6. DOMAIN twoto = 0 .. n /\ \A i \in 0 .. n : twoto[i] = Step(twoto, i)
  <2> HIDE DEF Step
  <2> QED BY <1>5 DEF Rec
<1>7. twoto[0] = 1 /\ \A i \in 1 .. n : twoto[i] = 2 * twoto[i - 1]
  BY <1>6
<1> DEFINE T == {i \in Nat : i <= n => twoto[i] \in Nat}
<1>8. \A i \in Nat : i \in T
  <2>1. 0 \in T
    BY <1>7
  <2>2. ASSUME NEW i \in Nat, i \in T PROVE i + 1 \in T
    <3>1. SUFFICES ASSUME i + 1 <= n PROVE twoto[i + 1] \in Nat
      OBVIOUS
    <3>2. i + 1 \in 1 .. n /\ i + 1 - 1 = i /\ twoto[i] \in Nat
      BY <2>2, <3>1
    <3>3. twoto[i + 1] = 2 * twoto[i]
      BY <1>7, <3>2
    <3> QED BY <3>2, <3>3
  <2> HIDE DEF T
  <2> QED BY <2>1, <2>2, Induction
<1>9. twoto \in [0 .. n -> Nat]
  <2>1. twoto = [i \in 0 .. n |-> twoto[i]]
    <3> HIDE DEF Step
    <3> QED BY <1>5 DEF Rec
  <2>2. \A i \in 0 .. n : twoto[i] \in Nat
    BY <1>8
  <2> QED BY <2>1, <2>2
<1> QED BY <1>1, <1>7, <1>9

LEMMA PowersGrow ==
    ASSUME NEW n \in Nat, NEW f \in [0 .. n -> Nat], f[0] = 1, \A i \in 1 .. n : f[i] = 2 * f[i - 1]
    PROVE  /\ \A i \in 0 .. n : f[i] > i
           /\ \A i, j \in 0 .. n : i <= j => f[i] <= f[j]
<1> DEFINE S == {i \in Nat : i <= n => f[i] > i}
<1>1. \A i \in Nat : i \in S
  <2>1. 0 \in S
    OBVIOUS
  <2>2. ASSUME NEW i \in Nat, i \in S PROVE i + 1 \in S
    <3>1. SUFFICES ASSUME i + 1 <= n PROVE f[i + 1] > i + 1
      OBVIOUS
    <3>2. i + 1 \in 1 .. n /\ i + 1 - 1 = i /\ f[i] > i /\ f[i] \in Nat
      BY <2>2, <3>1
    <3>3. f[i + 1] = 2 * f[i]
      BY <3>2
    <3> QED BY <3>2, <3>3
  <2> HIDE DEF S
  <2> QED BY <2>1, <2>2, Induction
<1>2. ASSUME NEW i \in 0 .. n, NEW j \in 0 .. n, i <= j PROVE f[i] <= f[j]
  <2> DEFINE T == {d \in Nat : i + d <= n => f[i] <= f[i + d]}
  <2>1. 0 \in T
    BY <1>2
  <2>2. ASSUME NEW d \in Nat, d \in T PROVE d + 1 \in T
    <3>1. SUFFICES ASSUME i + (d + 1) <= n PROVE f[i] <= f[i + (d + 1)]
      OBVIOUS
    <3>2. i + (d + 1) \in 1 .. n /\ i + (d + 1) - 1 = i + d /\ i + d \in 0 .. n
      BY <3>1
    <3>3. f[i + (d + 1)] = 2 * f[i + d] /\ f[i + d] \in Nat /\ f[i] \in Nat /\ f[i] <= f[i + d]
      BY <2>2, <3>2
    <3> QED BY <3>3
  <2>3. j - i \in Nat /\ i + (j - i) = j
    BY <1>2
  <2>4. j - i \in T
    <3> HIDE DEF T
    <3> QED BY <2>1, <2>2, <2>3, Induction
  <2> QED BY <2>3, <2>4
<1> QED BY <1>1, <1>2

LEMMA Ceil2Is ==
    ASSUME NEW n \in Nat
    PROVE  /\ Ceil2(n) \in Nat /\ Ceil2(n) >= n
           /\ Ceil2(n) \in Powers(Ceil2(n)) \cup {0}
<1>1. CASE n = 0
  BY <1>1 DEF Ceil2
<1>2. CASE n # 0
  <2>1. PICK f \in [0 .. n -> Nat] :
           /\ f[0] = 1 /\ \A i \in 1 .. n : f[i] = 2 * f[i - 1]
           /\ Powers(n) = {f[i] : i \in 0 .. n}
    BY PowersAre
  <2>2. \A i \in 0 .. n : f[i] > i
    BY <2>1, PowersGrow
  <2> DEFINE I == {p \in Powers(n) : p >= n}
             c == Min(I)
  <2>3. I \in SUBSET Nat /\ f[n] \in I
    BY <2>1, <2>2
  <2>4. c \in I
    <3> HIDE DEF I
    <3> QED BY <2>3, Least
  <2> HIDE DEF c
  <2>5. PICK m \in 0 .. n : c = f[m]
    BY <2>1, <2>4
  <2>6. c \in Nat /\ m < c
    BY <2>2, <2>5
  <2>7. PICK g \in [0 .. c -> Nat] :
           /\ g[0] = 1 /\ \A i \in 1 .. c : g[i] = 2 * g[i - 1]
           /\ Powers(c) = {g[i] : i \in 0 .. c}
    BY <2>6, PowersAre
  <2> DEFINE S == {i \in Nat : i <= m => f[i] = g[i]}
  <2>8. \A i \in Nat : i \in S
    <3>1. 0 \in S
      BY <2>1, <2>7
    <3>2. ASSUME NEW i \in Nat, i \in S PROVE i + 1 \in S
      <4>1. SUFFICES ASSUME i + 1 <= m PROVE f[i + 1] = g[i + 1]
        OBVIOUS
      <4>2. i + 1 \in 1 .. n /\ i + 1 \in 1 .. c /\ i + 1 - 1 = i /\ f[i] = g[i]
        BY <2>6, <3>2, <4>1
      <4>3. f[i + 1] = 2 * f[i] /\ g[i + 1] = 2 * g[i]
        BY <2>1, <2>7, <4>2
      <4> QED BY <4>2, <4>3
    <3> HIDE DEF S
    <3> QED BY <3>1, <3>2, Induction
  <2>9. c = g[m] /\ m \in 0 .. c
    BY <2>5, <2>6, <2>8
  <2>10. c \in Powers(c)
    BY <2>7, <2>9
  <2>11. Ceil2(n) = c
    BY <1>2 DEF Ceil2, c
  <2> QED BY <2>4, <2>6, <2>10, <2>11
<1> QED BY <1>1, <1>2

LEMMA ArraySizeIs ==
    ASSUME NEW keys, MaxInt \in Nat
    PROVE  ArraySize(keys) \in Nat
<1>1. PICK f \in [0 .. MaxInt -> Nat] :
         /\ f[0] = 1 /\ \A i \in 1 .. MaxInt : f[i] = 2 * f[i - 1]
         /\ Powers(MaxInt) = {f[i] : i \in 0 .. MaxInt}
  BY PowersAre
<1>2. \A i, j \in 0 .. MaxInt : i <= j => f[i] <= f[j]
  BY <1>1, PowersGrow
<1> DEFINE good == {p \in Powers(MaxInt) : Cardinality(keys \cap 1 .. p) > p \div 2}
<1>3. ASSUME NEW p \in good PROVE p \in 0 .. f[MaxInt]
  <2>1. PICK i \in 0 .. MaxInt : p = f[i]
    BY <1>1
  <2>2. MaxInt \in 0 .. MaxInt /\ i <= MaxInt
    OBVIOUS
  <2>3. p <= f[MaxInt] /\ p \in Nat /\ f[MaxInt] \in Nat
    BY <1>2, <2>1, <2>2
  <2> QED BY <2>3
<1>4. f[MaxInt] \in Nat
  OBVIOUS
<1>5. good # {} => Max(good) \in Nat
  <2>1. good \in SUBSET (0 .. f[MaxInt])
    BY <1>3
  <2> HIDE DEF good
  <2>2. good # {} => Max(good) \in good
    BY <1>4, <2>1, Greatest
  <2>3. \A p \in good : p \in Nat
    BY <1>4, <2>1
  <2> QED BY <2>2, <2>3
<1> QED BY <1>5 DEF ArraySize

-----------------------------------------------------------------------------
(* Tables as records of sequences. *)

LEMMA ShapedFacts ==
    ASSUME NEW h, Shaped(h)
    PROVE  /\ Len(h.array) \in Nat /\ h.array \in Seq(Keys \cup {Nil}) /\ DOMAIN h.array = 1 .. Len(h.array)
           /\ \A i \in 1 .. Len(h.array) : h.array[i] \in {i, Nil} /\ h.array[i] \in Keys \cup {Nil}
           /\ Len(h.node) \in Nat /\ h.node \in Seq(Nodes) /\ DOMAIN h.node = 1 .. Len(h.node)
           /\ h.node = << >> <=> Len(h.node) = 0
           /\ \A p \in 1 .. Len(h.node) :
                 /\ h.node[p] \in Nodes /\ h.node[p].key \in Keys \cup {Nil} /\ h.node[p].dead \in BOOLEAN
                 /\ h.node[p].val \in {h.node[p].key, Nil} /\ h.node[p].next \in 0 .. Len(h.node)
                 /\ h.node[p].dead => h.node[p].val = Nil /\ h.node[p].key \in Collectable
           /\ h.lastfree \in 0 .. Len(h.node) /\ h.nested \in BOOLEAN
           /\ Nexts(h) \in [1 .. Len(h.node) -> 0 .. Len(h.node)]
           /\ \A p \in 1 .. Len(h.node) : Nexts(h)[p] = h.node[p].next
<1>1. /\ h.array \in Seq(Keys \cup {Nil}) /\ h.node \in Seq(Nodes)
      /\ h.lastfree \in Nat /\ h.nested \in BOOLEAN
  BY DEF Shaped, Tables
<1>2. Len(h.array) \in Nat /\ DOMAIN h.array = 1 .. Len(h.array) /\ Len(h.node) \in Nat /\ DOMAIN h.node = 1 .. Len(h.node)
  BY <1>1, LenProperties
<1>3. h.node = << >> <=> Len(h.node) = 0
  BY <1>1, EmptySeq
<1>4. \A i \in 1 .. Len(h.array) : h.array[i] \in {i, Nil} /\ h.array[i] \in Keys \cup {Nil}
  BY <1>1, ElementOfSeq DEF Shaped
<1>5. \A p \in 1 .. Len(h.node) : h.node[p] \in Nodes
  BY <1>1, ElementOfSeq
<1>6. \A p \in 1 .. Len(h.node) : h.node[p].key \in Keys \cup {Nil} /\ h.node[p].dead \in BOOLEAN
  BY <1>5 DEF Nodes
<1>7. \A p \in 1 .. Len(h.node) :
         /\ h.node[p].val \in {h.node[p].key, Nil} /\ h.node[p].next \in 0 .. Len(h.node)
         /\ h.node[p].dead => h.node[p].val = Nil /\ h.node[p].key \in Collectable
  BY DEF Shaped
<1>8. h.lastfree <= Len(h.node)
  BY DEF Shaped
<1>9. Nexts(h) \in [1 .. Len(h.node) -> 0 .. Len(h.node)] /\ \A p \in 1 .. Len(h.node) : Nexts(h)[p] = h.node[p].next
  BY <1>7 DEF Nexts
<1>10. h.lastfree \in 0 .. Len(h.node)
  BY <1>1, <1>2, <1>8
<1> QED BY <1>1, <1>2, <1>3, <1>4, <1>5, <1>6, <1>7, <1>9, <1>10

LEMMA KeyFacts ==
    /\ Nil \notin Keys /\ \A i \in Nat : i \in Keys => i \in Ints
    /\ \A k \in Keys : k \in Collectable \/ k \in Ints
    /\ \A k \in Collectable : k \notin Nat
    /\ TagMethod \in Keys /\ TagMethod \in Collectable /\ MaxInt \in Nat
BY TableAssumption DEF Keys, Collectable, Ints

(* Where a key belongs depends on the number of nodes only. *)
LEMMA MainPositionIn ==
    ASSUME NEW h, Len(h.node) \in Nat \ {0}, NEW k \in Keys, hash \in [Keys -> Nat]
    PROVE  MainPosition(h, k) \in 1 .. Len(h.node)
<1>1. ASSUME NEW x \in Nat, NEW n \in Nat \ {0} PROVE x % n \in 0 .. n - 1
  OBVIOUS
<1> DEFINE N == Len(h.node)
           o == IF N > 1 THEN N - 1 ELSE 1
<1>2. hash[k] \in Nat /\ N \in Nat \ {0} /\ o \in Nat \ {0} /\ o <= N
  <2>1. N \in Nat \ {0}
    OBVIOUS
  <2> HIDE DEF N
  <2>2. o \in Nat \ {0} /\ o <= N
    BY <2>1
  <2>3. hash[k] \in Nat
    OBVIOUS
  <2> QED BY <2>1, <2>2, <2>3
<1>3. MainPosition(h, k) = (IF k \in Strings THEN hash[k] % N ELSE hash[k] % o) + 1
  BY Zenon DEF MainPosition
<1> HIDE DEF N, o
<1>4. hash[k] % N \in 0 .. N - 1 /\ hash[k] % o \in 0 .. o - 1
  BY <1>1, <1>2
<1>5. MainPosition(h, k) \in 1 .. N
  BY <1>2, <1>3, <1>4
<1> QED BY <1>5 DEF N

LEMMA MainPositionSame ==
    ASSUME NEW h, NEW g, Len(g.node) = Len(h.node), NEW k
    PROVE  MainPosition(g, k) = MainPosition(h, k)
BY DEF MainPosition

-----------------------------------------------------------------------------
(* What a search finds. *)
Matching(h, k, dead) == {p \in 1 .. Len(h.node) : h.node[p].key = k /\ (dead \/ ~h.node[p].dead)}

LEMMA FindIs ==
    ASSUME NEW h, Shaped(h), NEW k, NEW dead
    PROVE  Find(h, k, dead) =
              IF Len(h.node) = 0 THEN 0 ELSE Search(Nexts(h), Matching(h, k, dead))[MainPosition(h, k)]
<1> DEFINE N == Len(h.node)
           M == Matching(h, k, dead)
           Match(p) == h.node[p].key = k /\ (dead \/ ~h.node[p].dead)
           R1(s) == s = [p \in 0 .. N |-> IF p = 0 \/ Match(p) THEN p ELSE s[h.node[p].next]]
           R2(s) == s = [p \in DOMAIN Nexts(h) \cup {0} |-> IF p = 0 \/ p \in M THEN p ELSE s[Nexts(h)[p]]]
<1>1. Find(h, k, dead) = IF h.node = << >> THEN 0 ELSE (CHOOSE s : R1(s))[MainPosition(h, k)]
  BY Zenon DEF Find
<1>2. Search(Nexts(h), M) = CHOOSE s : R2(s)
  BY Zenon DEF Search
<1>3. N \in Nat /\ DOMAIN Nexts(h) \cup {0} = 0 .. N /\ \A p \in 1 .. N : Nexts(h)[p] = h.node[p].next
  BY ShapedFacts
<1>4. \A p \in 1 .. N : p \in M <=> Match(p)
  BY DEF Matching
<1>5. ASSUME NEW s PROVE R1(s) <=> R2(s)
  <2> DEFINE A(p) == IF p = 0 \/ Match(p) THEN p ELSE s[h.node[p].next]
             B(p) == IF p = 0 \/ p \in M THEN p ELSE s[Nexts(h)[p]]
  <2>1. \A p \in 1 .. N : A(p) = B(p)
    <3> HIDE DEF M, Match
    <3> QED BY <1>3, <1>4
  <2>2. A(0) = B(0)
    OBVIOUS
  <2>3. \A p \in 0 .. N : A(p) = B(p)
    <3> HIDE DEF A, B
    <3> QED BY <1>3, <2>1, <2>2
  <2>4. [p \in 0 .. N |-> A(p)] = [p \in DOMAIN Nexts(h) \cup {0} |-> B(p)]
    <3> HIDE DEF A, B
    <3> QED BY <1>3, <2>3
  <2> QED BY <2>4
<1>6. (CHOOSE s : R1(s)) = (CHOOSE s : R2(s))
  <2> HIDE DEF R1, R2
  <2> QED BY <1>5
<1> HIDE DEF R1, R2
<1> QED BY <1>1, <1>2, <1>6, ShapedFacts

LEMMA FindFirst ==
    ASSUME NEW h, Shaped(h), Ending(Nexts(h)), hash \in [Keys -> Nat], NEW k \in Keys, NEW dead,
           Len(h.node) # 0,
           NEW M, M = Matching(h, k, dead), NEW m, m = MainPosition(h, k)
    PROVE  /\ m \in 1 .. Len(h.node)
           /\ Find(h, k, dead) = 0 => \A r \in M : ~Joined(Nexts(h), m, r)
           /\ Find(h, k, dead) # 0 => Meets(Nexts(h), M, m, Find(h, k, dead))
<1> DEFINE N == Len(h.node)
           f == Nexts(h)
<1>1. N \in Nat \ {0} /\ f \in [1 .. N -> 0 .. N]
  BY ShapedFacts
<1>2. m \in 1 .. N
  BY <1>1, MainPositionIn
<1>3. M \in SUBSET (1 .. N)
  BY DEF Matching
<1>4. Find(h, k, dead) = Search(f, M)[m]
  BY <1>1, FindIs
<1> HIDE DEF N, f
<1>5. /\ Search(f, M)[m] = 0 => \A r \in M : ~Joined(f, m, r)
      /\ Search(f, M)[m] # 0 => Meets(f, M, m, Search(f, M)[m])
  BY <1>1, <1>2, <1>3, SearchMeets DEF f
<1> QED BY <1>2, <1>4, <1>5 DEF N, f

LEMMA SoundFacts ==
    ASSUME NEW h, Sound(h)
    PROVE  /\ Shaped(h) /\ Unused(h) /\ Ending(Nexts(h)) /\ Single(Nexts(h))
           /\ \A p \in 1 .. Len(h.node) : h.node[p].key # Nil => Home(h, p) /\ (h.node[p].dead \/ First(h, p))
BY DEF Sound

(* A live key is found, and a dead one only if it is asked for. *)
LEMMA FindLive ==
    ASSUME NEW h, Sound(h), hash \in [Keys -> Nat], NEW k \in Keys, NEW p, p = Find(h, k, FALSE)
    PROVE  /\ p = 0 => \A q \in 1 .. Len(h.node) : h.node[q].key = k => h.node[q].dead
           /\ p # 0 => /\ p \in 1 .. Len(h.node) /\ h.node[p].key = k /\ ~h.node[p].dead
                       /\ \A q \in 1 .. Len(h.node) : h.node[q].key = k /\ ~h.node[q].dead => q = p
<1> DEFINE M == Matching(h, k, FALSE)
           m == MainPosition(h, k)
<1>1. \A q : q \in M <=> q \in 1 .. Len(h.node) /\ h.node[q].key = k /\ ~h.node[q].dead
  BY DEF Matching
<1>2. k # Nil
  BY KeyFacts
<1>3. CASE Len(h.node) = 0
  <2>1. Shaped(h) /\ 1 .. Len(h.node) = {}
    BY <1>3, SoundFacts
  <2>2. p = 0
    BY <1>3, <2>1, FindIs
  <2> QED BY <2>1, <2>2
<1>4. CASE Len(h.node) # 0
  <2> HIDE DEF M, m
  <2>1. /\ p = 0 => \A r \in M : ~Joined(Nexts(h), m, r)
        /\ p # 0 => p \in M
    BY <1>4, FindFirst, SoundFacts DEF M, m, Meets
  <2>2. \A q \in 1 .. Len(h.node) : h.node[q].key = k => Joined(Nexts(h), m, q)
    BY <1>2, SoundFacts DEF Home, m
  <2>3. p = 0 => \A q \in 1 .. Len(h.node) : h.node[q].key = k => h.node[q].dead
    BY <1>1, <2>1, <2>2
  <2>4. p # 0 => p \in 1 .. Len(h.node) /\ h.node[p].key = k /\ ~h.node[p].dead
    BY <1>1, <2>1
  <2>5. ASSUME p # 0, NEW q \in 1 .. Len(h.node), h.node[q].key = k, ~h.node[q].dead PROVE q = p
    <3>1. First(h, p)
      BY <1>2, <2>4, <2>5, SoundFacts
    <3> QED BY <2>4, <2>5, <3>1 DEF First
  <2> QED BY <2>3, <2>4, <2>5
<1> QED BY <1>3, <1>4

LEMMA FindAny ==
    ASSUME NEW h, Sound(h), hash \in [Keys -> Nat], NEW k \in Keys, NEW p, p = Find(h, k, TRUE)
    PROVE  /\ p = 0 => \A q \in 1 .. Len(h.node) : h.node[q].key # k
           /\ p # 0 => /\ p \in 1 .. Len(h.node) /\ h.node[p].key = k
                       /\ \A q \in 1 .. Len(h.node) : h.node[q].key = k /\ ~h.node[q].dead => q = p
<1> DEFINE M == Matching(h, k, TRUE)
           m == MainPosition(h, k)
<1>1. \A q : q \in M <=> q \in 1 .. Len(h.node) /\ h.node[q].key = k
  BY DEF Matching
<1>2. k # Nil
  BY KeyFacts
<1>3. CASE Len(h.node) = 0
  <2>1. Shaped(h) /\ 1 .. Len(h.node) = {}
    BY <1>3, SoundFacts
  <2>2. p = 0
    BY <1>3, <2>1, FindIs
  <2> QED BY <2>1, <2>2
<1>4. CASE Len(h.node) # 0
  <2> HIDE DEF M, m
  <2>1. /\ p = 0 => \A r \in M : ~Joined(Nexts(h), m, r)
        /\ p # 0 => Meets(Nexts(h), M, m, p)
    BY <1>4, FindFirst, SoundFacts DEF M, m
  <2>2. \A q \in 1 .. Len(h.node) : h.node[q].key = k => Joined(Nexts(h), m, q)
    BY <1>2, SoundFacts DEF Home, m
  <2>3. p = 0 => \A q \in 1 .. Len(h.node) : h.node[q].key # k
    BY <1>1, <2>1, <2>2
  <2>4. p # 0 => p \in 1 .. Len(h.node) /\ h.node[p].key = k
    BY <1>1, <2>1 DEF Meets
  <2>5. ASSUME p # 0, NEW q \in 1 .. Len(h.node), h.node[q].key = k, ~h.node[q].dead PROVE q = p
    <3>1. First(h, q)
      BY <1>2, <2>5, SoundFacts
    <3>2. Joined(Nexts(h), q, p)
      BY <2>4, <2>5, <3>1 DEF First
    <3>3. Joined(Nexts(h), p, q)
      BY <1>1, <2>1, <2>2, <2>5 DEF Meets
    <3>4. Len(h.node) \in Nat /\ Nexts(h) \in [1 .. Len(h.node) -> 0 .. Len(h.node)] /\ Ending(Nexts(h))
      BY ShapedFacts, SoundFacts
    <3> QED BY <2>4, <2>5, <3>2, <3>3, <3>4, JoinedOnce
  <2> QED BY <2>3, <2>4, <2>5
<1> QED BY <1>3, <1>4

LEMMA UsedKeysAre ==
    ASSUME NEW h, Shaped(h), NEW k
    PROVE  /\ k \in UsedKeys(h) <=>
                 \/ k \in 1 .. Len(h.array) /\ h.array[k] # Nil
                 \/ \E p \in 1 .. Len(h.node) : h.node[p].key = k /\ h.node[p].val # Nil
           /\ k \in UsedKeys(h) => k \in Keys
<1>1. ToSet(h.node) = {h.node[p] : p \in 1 .. Len(h.node)}
  BY ShapedFacts DEF ToSet
<1>2. k \in {n.key : n \in {m \in ToSet(h.node) : m.val # Nil}} <=>
         \E p \in 1 .. Len(h.node) : h.node[p].key = k /\ h.node[p].val # Nil
  BY <1>1
<1>3. k \in UsedKeys(h) <=>
         \/ k \in 1 .. Len(h.array) /\ h.array[k] # Nil
         \/ \E p \in 1 .. Len(h.node) : h.node[p].key = k /\ h.node[p].val # Nil
  BY <1>2 DEF UsedKeys
<1>4. k \in 1 .. Len(h.array) /\ h.array[k] # Nil => k \in Keys
  <2>1. k \in 1 .. Len(h.array) => h.array[k] \in {k, Nil} /\ h.array[k] \in Keys \cup {Nil}
    BY ShapedFacts
  <2> QED BY <2>1
<1>5. ASSUME NEW p \in 1 .. Len(h.node), h.node[p].key = k, h.node[p].val # Nil PROVE k \in Keys
  <2>1. h.node[p].val \in {h.node[p].key, Nil} /\ h.node[p].key \in Keys \cup {Nil}
    BY ShapedFacts
  <2> QED BY <1>5, <2>1
<1> QED BY <1>3, <1>4, <1>5

LEMMA HasIs ==
    ASSUME NEW h, Sound(h), hash \in [Keys -> Nat], NEW k \in Keys
    PROVE  Has(h, k) <=>
              InArray(h, k) \/ \E p \in 1 .. Len(h.node) : h.node[p].key = k /\ ~h.node[p].dead
<1> DEFINE p == Find(h, k, FALSE)
<1>1. /\ p = 0 => \A q \in 1 .. Len(h.node) : h.node[q].key = k => h.node[q].dead
      /\ p # 0 => /\ p \in 1 .. Len(h.node) /\ h.node[p].key = k /\ ~h.node[p].dead
                  /\ \A q \in 1 .. Len(h.node) : h.node[q].key = k /\ ~h.node[q].dead => q = p
  BY FindLive
<1>2. Has(h, k) <=> InArray(h, k) \/ p # 0
  BY DEF Has
<1> HIDE DEF p
<1> QED BY <1>1, <1>2

LEMMA GetIs ==
    ASSUME NEW h, Sound(h), hash \in [Keys -> Nat], NEW k \in Keys
    PROVE  /\ Get(h, k) = IF k \in UsedKeys(h) THEN k ELSE Nil
           /\ Get(h, k) # Nil <=> k \in UsedKeys(h)
           /\ k \in UsedKeys(h) => Has(h, k)
<1> DEFINE p == Find(h, k, FALSE)
<1>0. Shaped(h) /\ k # Nil
  BY KeyFacts, SoundFacts
<1>1. /\ p = 0 => \A q \in 1 .. Len(h.node) : h.node[q].key = k => h.node[q].dead
      /\ p # 0 => /\ p \in 1 .. Len(h.node) /\ h.node[p].key = k /\ ~h.node[p].dead
                  /\ \A q \in 1 .. Len(h.node) : h.node[q].key = k /\ ~h.node[q].dead => q = p
  BY FindLive
<1>2. Get(h, k) = IF InArray(h, k) THEN h.array[k] ELSE IF p = 0 THEN Nil ELSE h.node[p].val
  BY DEF Get
<1>3. k \in UsedKeys(h) <=>
         \/ k \in 1 .. Len(h.array) /\ h.array[k] # Nil
         \/ \E q \in 1 .. Len(h.node) : h.node[q].key = k /\ h.node[q].val # Nil
  BY <1>0, UsedKeysAre
<1>4. InArray(h, k) <=> k \in 1 .. Len(h.array)
  BY DEF InArray
<1>5. \A q \in 1 .. Len(h.node) : h.node[q].val # Nil => ~h.node[q].dead /\ h.node[q].val = h.node[q].key
  BY <1>0, ShapedFacts
<1>6. \A q \in 1 .. Len(h.node) : h.node[q].key = k => ~InArray(h, k)
  BY <1>0, SoundFacts DEF Home
<1>7. k \in 1 .. Len(h.array) => h.array[k] \in {k, Nil}
  BY <1>0, ShapedFacts
<1> HIDE DEF p
<1>8. CASE InArray(h, k)
  BY <1>0, <1>2, <1>3, <1>4, <1>6, <1>7, <1>8 DEF Has
<1>9. CASE ~InArray(h, k) /\ p = 0
  BY <1>0, <1>1, <1>2, <1>3, <1>4, <1>5, <1>9
<1>10. CASE ~InArray(h, k) /\ p # 0
  <2>1. Has(h, k)
    BY <1>10 DEF Has, p
  <2>2. k \in UsedKeys(h) <=> h.node[p].val # Nil
    BY <1>1, <1>3, <1>4, <1>5, <1>10
  <2>3. h.node[p].val \in {k, Nil}
    BY <1>0, <1>1, <1>10, ShapedFacts
  <2> QED BY <1>0, <1>2, <1>10, <2>1, <2>2, <2>3
<1> QED BY <1>8, <1>9, <1>10

-----------------------------------------------------------------------------
(* Changing the nodes of a table. *)

LEMMA NodesEdited ==
    ASSUME NEW h \in Tables, NEW nodes \in Seq(Nodes), NEW g, g = [h EXCEPT !.node = nodes]
    PROVE  /\ g \in Tables /\ g.array = h.array /\ g.node = nodes
           /\ g.lastfree = h.lastfree /\ g.nested = h.nested
BY DEF Tables

Mine(k, next) == [key |-> k, dead |-> FALSE, val |-> Nil, next |-> next]

LEMMA MineIsNode ==
    ASSUME NEW k \in Keys, NEW next \in Nat
    PROVE  Mine(k, next) \in Nodes
BY DEF Mine, Nodes

LEMMA FreePosIs ==
    ASSUME NEW h, Shaped(h), Unused(h), FreePos(h) # 0
    PROVE  /\ FreePos(h) \in 1 .. Len(h.node) /\ FreePos(h) <= h.lastfree /\ h.node[FreePos(h)].key = Nil
           /\ \A p \in 1 .. Len(h.node) : h.node[p].key = Nil => p <= FreePos(h)
<1> DEFINE free == {p \in 1 .. h.lastfree : h.node[p].key = Nil}
<1>1. FreePos(h) = IF free = {} THEN 0 ELSE Max(free)
  BY DEF FreePos
<1>2. h.lastfree \in 0 .. Len(h.node) /\ Len(h.node) \in Nat
  BY ShapedFacts
<1>3. free \in SUBSET (0 .. h.lastfree) /\ free # {}
  BY <1>1
<1>4. FreePos(h) \in free /\ \A p \in free : FreePos(h) >= p
  <2>1. h.lastfree \in Nat
    BY <1>2
  <2> HIDE DEF free
  <2> QED BY <1>1, <1>3, <2>1, Greatest
<1>5. \A p \in 1 .. Len(h.node) : h.node[p].key = Nil => p \in free
  BY <1>2 DEF Unused
<1>6. FreePos(h) \in 1 .. Len(h.node) /\ FreePos(h) <= h.lastfree /\ h.node[FreePos(h)].key = Nil
  BY <1>2, <1>4
<1>7. \A p \in 1 .. Len(h.node) : h.node[p].key = Nil => p <= FreePos(h)
  <2> HIDE DEF free
  <2>1. ASSUME NEW p \in 1 .. Len(h.node), h.node[p].key = Nil PROVE p <= FreePos(h)
    <3>1. FreePos(h) >= p
      BY <1>4, <1>5, <2>1
    <3> QED BY <1>2, <1>6, <3>1
  <2> QED BY <2>1
<1> QED BY <1>6, <1>7

LEMMA PlaceEmpty ==
    ASSUME NEW h, Sound(h), hash \in [Keys -> Nat], NEW k \in Keys, MainIsEmpty(h, k),
           NEW m, m = MainPosition(h, k), NEW g, g = Place(h, k)
    PROVE  /\ m \in 1 .. Len(h.node) /\ h.node[m].val = Nil
           /\ g \in Tables /\ g.array = h.array /\ g.nested = h.nested /\ g.lastfree = h.lastfree
           /\ Len(g.node) = Len(h.node)
           /\ \A p \in 1 .. Len(h.node) : g.node[p] = IF p = m THEN Mine(k, h.node[m].next) ELSE h.node[p]
<1>1. Shaped(h) /\ h \in Tables
  BY SoundFacts DEF Shaped
<1>2. Len(h.node) \in Nat \ {0} /\ h.node \in Seq(Nodes) /\ h.node[m].val = Nil
  BY <1>1, ShapedFacts DEF MainIsEmpty
<1>3. m \in 1 .. Len(h.node)
  BY <1>2, MainPositionIn
<1> DEFINE e == Mine(k, h.node[m].next)
           nodes == [h.node EXCEPT ![m] = e]
<1>4. e \in Nodes
  <2>1. h.node[m].next \in Nat
    BY <1>1, <1>3, ShapedFacts
  <2> QED BY <2>1, MineIsNode
<1>5. g = [h EXCEPT !.node = nodes]
  BY DEF Place, Mine
<1> HIDE DEF e
<1>6. nodes \in Seq(Nodes) /\ Len(nodes) = Len(h.node) /\ \A p \in 1 .. Len(h.node) : nodes[p] = IF p = m THEN e ELSE h.node[p]
  BY <1>2, <1>3, <1>4, ExceptSeq
<1> HIDE DEF nodes
<1>7. g \in Tables /\ g.array = h.array /\ g.node = nodes /\ g.nested = h.nested /\ g.lastfree = h.lastfree
  BY <1>1, <1>5, <1>6, NodesEdited
<1> QED BY <1>2, <1>3, <1>6, <1>7 DEF e

LEMMA PlaceBusy ==
    ASSUME NEW h, Sound(h), hash \in [Keys -> Nat], NEW k \in Keys, ~MainIsEmpty(h, k), CanPlace(h, k),
           NEW m, m = MainPosition(h, k), NEW n, n = FreePos(h)
    PROVE  /\ m \in 1 .. Len(h.node) /\ n \in 1 .. Len(h.node) /\ m # n
           /\ h.node[m].val # Nil /\ h.node[m].key # Nil /\ ~h.node[m].dead
           /\ h.node[n].key = Nil /\ h.node[n].next = 0 /\ \A p \in 1 .. Len(h.node) : h.node[p].next # n
           /\ \A p \in 1 .. Len(h.node) : h.node[p].key = Nil => p <= n
           /\ n - 1 \in 0 .. Len(h.node)
<1>1. Shaped(h) /\ Unused(h) /\ n # 0
  BY SoundFacts DEF CanPlace
<1>2. n \in 1 .. Len(h.node) /\ h.node[n].key = Nil /\ \A p \in 1 .. Len(h.node) : h.node[p].key = Nil => p <= n
  BY <1>1, FreePosIs
<1>3. Len(h.node) \in Nat \ {0} /\ h.node # << >>
  BY <1>1, <1>2, ShapedFacts
<1>4. m \in 1 .. Len(h.node) /\ h.node[m].val # Nil
  BY <1>3, MainPositionIn DEF MainIsEmpty
<1>5. h.node[m].key # Nil /\ ~h.node[m].dead
  BY <1>1, <1>4, ShapedFacts
<1>6. h.node[n].next = 0 /\ \A p \in 1 .. Len(h.node) : h.node[p].next # n
  BY <1>1, <1>2 DEF Unused
<1>7. n - 1 \in 0 .. Len(h.node)
  BY <1>2, <1>3
<1> QED BY <1>2, <1>4, <1>5, <1>6, <1>7

LEMMA PlaceChained ==
    ASSUME NEW h, Sound(h), hash \in [Keys -> Nat], NEW k \in Keys, ~MainIsEmpty(h, k), CanPlace(h, k),
           NEW m, m = MainPosition(h, k), NEW n, n = FreePos(h), MainPosition(h, h.node[m].key) = m,
           NEW g, g = Place(h, k)
    PROVE  /\ g \in Tables /\ g.array = h.array /\ g.nested = h.nested /\ g.lastfree = n - 1
           /\ Len(g.node) = Len(h.node)
           /\ \A p \in 1 .. Len(h.node) :
                 g.node[p] = IF p = m THEN [h.node[m] EXCEPT !.next = n]
                             ELSE IF p = n THEN Mine(k, h.node[m].next) ELSE h.node[p]
<1>1. Shaped(h) /\ h \in Tables
  BY SoundFacts DEF Shaped
<1>2. m \in 1 .. Len(h.node) /\ n \in 1 .. Len(h.node) /\ m # n /\ n - 1 \in Nat
  BY <1>1, PlaceBusy, ShapedFacts
<1>3. h.node \in Seq(Nodes) /\ h.node[m] \in Nodes /\ h.node[m].next \in Nat /\ Len(h.node) \in Nat
  BY <1>1, <1>2, ShapedFacts
<1> DEFINE e == Mine(k, h.node[m].next)
           c == [h.node[m] EXCEPT !.next = n]
           one == [h.node EXCEPT ![n] = e]
           two == [one EXCEPT ![m] = c]
<1>4. e \in Nodes /\ c \in Nodes
  <2>1. c \in Nodes
    <3>1. n \in Nat
      BY <1>2
    <3>2. \A x \in Nodes : [x EXCEPT !.next = n] \in Nodes
      BY <3>1 DEF Nodes
    <3> QED BY <1>3, <3>2
  <2> QED BY <1>3, <2>1, MineIsNode
<1>5. g = [h EXCEPT !.lastfree = n - 1, !.node = [h.node EXCEPT ![n] = e, ![m].next = n]]
  BY DEF Place, Mine
<1>6. [h.node EXCEPT ![n] = e, ![m].next = n] = two
  BY <1>2
<1> HIDE DEF e, c
<1>7. one \in Seq(Nodes) /\ Len(one) = Len(h.node) /\ \A p \in 1 .. Len(h.node) : one[p] = IF p = n THEN e ELSE h.node[p]
  BY <1>2, <1>3, <1>4, ExceptSeq
<1> HIDE DEF one
<1>8. two \in Seq(Nodes) /\ Len(two) = Len(h.node) /\ \A p \in 1 .. Len(h.node) : two[p] = IF p = m THEN c ELSE one[p]
  BY <1>2, <1>4, <1>7, ExceptSeq
<1> HIDE DEF two
<1>9. g \in Tables /\ g.array = h.array /\ g.node = two /\ g.nested = h.nested /\ g.lastfree = n - 1
  <2> DEFINE l == n - 1
  <2>1. g = [h EXCEPT !.lastfree = l, !.node = two]
    BY <1>5, <1>6
  <2>2. l \in Nat /\ two \in Seq(Nodes) /\ h \in Tables
    BY <1>1, <1>2, <1>8
  <2> HIDE DEF l
  <2>3. g \in Tables /\ g.array = h.array /\ g.node = two /\ g.nested = h.nested /\ g.lastfree = l
    BY <2>1, <2>2 DEF Tables
  <2> QED BY <2>3 DEF l
<1>10. \A p \in 1 .. Len(h.node) : two[p] = IF p = m THEN c ELSE IF p = n THEN e ELSE h.node[p]
  BY <1>7, <1>8
<1> QED BY <1>8, <1>9, <1>10 DEF e, c

(* The chain of a node out of its main position has a node before it.      *)
LEMMA ChainIs ==
    ASSUME NEW h, Shaped(h), NEW p
    PROVE  /\ DOMAIN Chain(h, p) = 0 .. Len(h.node) /\ Chain(h, p)[0] = p
           /\ \A i \in 1 .. Len(h.node) :
                 Chain(h, p)[i] = IF Chain(h, p)[i - 1] = 0 THEN 0 ELSE h.node[Chain(h, p)[i - 1]].next
<1> DEFINE gnext(q) == IF q = 0 THEN 0 ELSE h.node[q].next
           Step(f, i) == IF i = 0 THEN p ELSE gnext(f[i - 1])
           Rec(f, N) == f = [i \in 0 .. N |-> Step(f, i)]
           S == {N \in Nat : \E f : Rec(f, N)}
           at == CHOOSE f : Rec(f, Len(h.node))
<1>1. Chain(h, p) = at
  BY Zenon DEF Chain
<1> HIDE DEF gnext
<1>2. 0 \in S
  <2> DEFINE f == [i \in 0 .. 0 |-> p]
  <2>1. Rec(f, 0)
    OBVIOUS
  <2> QED BY <2>1
<1>3. ASSUME NEW N \in Nat, N \in S PROVE N + 1 \in S
  <2>1. PICK f : Rec(f, N)
    BY <1>3
  <2> DEFINE g == [i \in 0 .. N + 1 |-> IF i = N + 1 THEN Step(f, i) ELSE f[i]]
  <2>2. \A i \in 0 .. N + 1 : i # 0 => g[i - 1] = f[i - 1]
    OBVIOUS
  <2>3. \A i \in 0 .. N + 1 : Step(g, i) = Step(f, i)
    BY <2>2
  <2>4. \A i \in 0 .. N : f[i] = Step(f, i)
    <3> HIDE DEF Step
    <3> QED BY <2>1
  <2>5. \A i \in 0 .. N + 1 : g[i] = Step(g, i)
    <3>1. SUFFICES ASSUME NEW i \in 0 .. N + 1 PROVE g[i] = Step(f, i)
      BY <2>3
    <3> HIDE DEF Step
    <3> QED BY <2>4
  <2>6. Rec(g, N + 1)
    <3>1. g = [i \in 0 .. N + 1 |-> g[i]]
      OBVIOUS
    <3> HIDE DEF g, Step
    <3> QED BY <2>5, <3>1
  <2>7. \E e : Rec(e, N + 1)
    <3> HIDE DEF g, Rec
    <3> QED BY <2>6
  <2> HIDE DEF Rec
  <2> QED BY <2>7
<1>4. Len(h.node) \in Nat
  BY ShapedFacts
<1> HIDE DEF Rec
<1>5. Len(h.node) \in S
  <2> HIDE DEF S
  <2> QED BY <1>2, <1>3, <1>4, Induction
<1>6. Rec(at, Len(h.node))
  BY <1>5
<1> HIDE DEF at
<1>7. DOMAIN at = 0 .. Len(h.node) /\ \A i \in 0 .. Len(h.node) : at[i] = Step(at, i)
  <2> HIDE DEF Step
  <2> QED BY <1>6 DEF Rec
<1>8. at[0] = p /\ \A i \in 1 .. Len(h.node) : at[i] = gnext(at[i - 1])
  BY <1>4, <1>7
<1> QED BY <1>1, <1>7, <1>8 DEF gnext

LEMMA ChainEnds ==
    ASSUME NEW h, Shaped(h), Ending(Nexts(h)), NEW p \in 1 .. Len(h.node)
    PROVE  /\ Chain(h, p)[Len(h.node)] = 0
           /\ Range(Chain(h, p)) \subseteq 0 .. Len(h.node)
           /\ \A q : Joined(Nexts(h), p, q) => q \in Range(Chain(h, p))
<1> DEFINE N == Len(h.node)
           f == Nexts(h)
           at == Chain(h, p)
<1>1. N \in Nat /\ f \in [1 .. N -> 0 .. N] /\ p \in 1 .. N /\ \A x \in 1 .. N : f[x] = h.node[x].next
  BY ShapedFacts
<1>2. /\ DOMAIN at = 0 .. N /\ at[0] = p
      /\ \A i \in 1 .. N : at[i] = IF at[i - 1] = 0 THEN 0 ELSE h.node[at[i - 1]].next
  BY ChainIs
<1>3. Ending(f)
  OBVIOUS
<1> HIDE DEF N, f, at
<1> DEFINE T == {i \in Nat : i <= N => at[i] \in 0 .. N /\ (i < N /\ at[i] # 0 => at[i + 1] = f[at[i]])}
<1>4. \A i \in Nat : i \in T
  <2>1. \A i \in Nat : i < N => i + 1 \in 1 .. N /\ i + 1 - 1 = i
    BY <1>1
  <2>2. \A i \in Nat : i < N => at[i + 1] = IF at[i] = 0 THEN 0 ELSE h.node[at[i]].next
    BY <1>2, <2>1
  <2>3. 0 \in T
    <3>1. at[0] \in 0 .. N /\ at[0] \in 1 .. N
      BY <1>1, <1>2
    <3>2. 0 < N => at[0 + 1] = f[at[0]]
      <4>1. 0 < N => at[0 + 1] = IF at[0] = 0 THEN 0 ELSE h.node[at[0]].next
        BY <2>2
      <4>2. at[0] # 0 /\ f[at[0]] = h.node[at[0]].next
        BY <1>1, <3>1
      <4> QED BY <4>1, <4>2
    <3> QED BY <3>1, <3>2
  <2>4. ASSUME NEW i \in Nat, i \in T PROVE i + 1 \in T
    <3>1. SUFFICES ASSUME i + 1 <= N
                   PROVE  at[i + 1] \in 0 .. N /\ (i + 1 < N /\ at[i + 1] # 0 => at[i + 1 + 1] = f[at[i + 1]])
      OBVIOUS
    <3>2. i < N /\ at[i] \in 0 .. N
      BY <1>1, <2>4, <3>1
    <3>3. at[i + 1] \in 0 .. N
      <4>1. at[i] = 0 => at[i + 1] = 0
        BY <2>2, <3>2
      <4>2. ASSUME at[i] # 0 PROVE at[i] \in 1 .. N /\ at[i + 1] = f[at[i]]
        <5>1. at[i] \in 1 .. N
          BY <1>1, <3>2, <4>2
        <5>2. at[i + 1] = h.node[at[i]].next
          BY <2>2, <3>2, <4>2
        <5> QED BY <1>1, <5>1, <5>2
      <4> QED BY <1>1, <4>1, <4>2
    <3>4. ASSUME i + 1 < N, at[i + 1] # 0 PROVE at[i + 1 + 1] = f[at[i + 1]]
      <4>1. at[i + 1] \in 1 .. N
        BY <1>1, <3>3, <3>4
      <4>2. at[i + 1 + 1] = h.node[at[i + 1]].next
        BY <2>2, <3>4
      <4> QED BY <1>1, <4>1, <4>2
    <3> QED BY <3>3, <3>4
  <2> HIDE DEF T
  <2> QED BY <2>3, <2>4, Induction
<1>5. \A i \in 0 .. N : at[i] \in 0 .. N
  BY <1>1, <1>4
<1>6. \A i \in 0 .. N : i < N /\ at[i] # 0 => at[i + 1] = f[at[i]]
  BY <1>1, <1>4
<1>7. at[N] = 0
  <2>1. SUFFICES ASSUME at[N] # 0 PROVE FALSE
    OBVIOUS
  <2> DEFINE U == {d \in Nat : d <= N => at[N - d] # 0}
  <2>2. \A d \in Nat : d \in U
    <3>1. 0 \in U
      BY <1>1, <2>1
    <3>2. ASSUME NEW d \in Nat, d \in U PROVE d + 1 \in U
      <4>1. SUFFICES ASSUME d + 1 <= N, at[N - (d + 1)] = 0 PROVE FALSE
        OBVIOUS
      <4>2. N - d \in 1 .. N /\ N - d - 1 = N - (d + 1) /\ at[N - d] # 0
        BY <1>1, <3>2, <4>1
      <4>3. at[N - d] = 0
        BY <1>2, <4>1, <4>2
      <4> QED BY <4>2, <4>3
    <3> HIDE DEF U
    <3> QED BY <3>1, <3>2, Induction
  <2>3. \A i \in 0 .. N : at[i] \in 1 .. N
    <3>1. SUFFICES ASSUME NEW i \in 0 .. N PROVE at[i] # 0
      BY <1>1, <1>5
    <3>2. N - i \in Nat /\ N - i <= N /\ N - (N - i) = i
      BY <1>1
    <3> QED BY <2>2, <3>2
  <2> DEFINE g == [i \in 0 .. N |-> at[i]]
  <2>4. \E i, j \in 0 .. N : i # j /\ g[i] = g[j]
    <3>1. IsFiniteSet(0 .. N) /\ Cardinality(0 .. N) = N + 1 /\ IsFiniteSet(1 .. N) /\ Cardinality(1 .. N) = N
      BY <1>1, FS_Interval
    <3>2. g \in [0 .. N -> 1 .. N]
      BY <2>3
    <3>3. Cardinality(1 .. N) < Cardinality(0 .. N)
      BY <1>1, <3>1
    <3> HIDE DEF g
    <3> QED BY <3>1, <3>2, <3>3, FS_PigeonHole
  <2>5. PICK i \in 0 .. N, j \in 0 .. N : i < j /\ at[i] = at[j]
    BY <2>4
  <2> DEFINE S == {at[x] : x \in i .. j - 1}
  <2>6. S \in SUBSET DOMAIN f
    BY <1>1, <2>3
  <2>7. S # {}
    <3>1. i \in i .. j - 1
      BY <2>5
    <3> QED BY <3>1
  <2>8. PICK s \in S : f[s] \notin S
    <3> HIDE DEF S
    <3> QED BY <1>3, <2>6, <2>7 DEF Ending
  <2>9. PICK x \in i .. j - 1 : s = at[x]
    BY <2>8
  <2>10. x \in 0 .. N /\ x < N /\ at[x] # 0
    <3>1. x \in 0 .. N /\ x < N
      BY <1>1, <2>5, <2>9
    <3>2. at[x] \in 1 .. N
      BY <2>3, <3>1
    <3> QED BY <1>1, <3>1, <3>2
  <2>11. f[s] = at[x + 1]
    BY <1>6, <2>9, <2>10
  <2>12. CASE x + 1 = j
    <3>1. f[s] = at[i] /\ i \in i .. j - 1
      BY <2>5, <2>11, <2>12
    <3> QED BY <2>8, <3>1
  <2>13. CASE x + 1 # j
    <3>1. x + 1 \in i .. j - 1
      BY <2>9, <2>10, <2>13
    <3> QED BY <2>8, <2>11, <3>1
  <2> QED BY <2>12, <2>13
<1>8. Range(at) = {at[i] : i \in 0 .. N}
  BY <1>2 DEF Range
<1>9. Range(at) \subseteq 0 .. N
  BY <1>5, <1>8
<1>10. ASSUME NEW q, Joined(f, p, q) PROVE q \in Range(at)
  <2> DEFINE S == Range(at) \cap (1 .. N)
  <2>1. S \in SUBSET DOMAIN f
    BY <1>1
  <2>2. p \in S
    BY <1>1, <1>2, <1>8
  <2>3. \A s \in S : f[s] # 0 => f[s] \in S
    <3>1. SUFFICES ASSUME NEW s \in S, f[s] # 0 PROVE f[s] \in S
      OBVIOUS
    <3>2. PICK i \in 0 .. N : s = at[i] /\ at[i] \in 1 .. N
      BY <1>8
    <3>3. i < N /\ at[i] # 0
      BY <1>1, <1>7, <3>2
    <3>4. f[s] = at[i + 1] /\ i + 1 \in 0 .. N
      BY <1>1, <1>6, <3>2, <3>3
    <3>5. f[s] \in 1 .. N
      BY <1>1, <3>1, <3>2
    <3> QED BY <1>8, <3>4, <3>5
  <2>4. Closed(f, S)
    <3> HIDE DEF S
    <3> QED BY <2>3 DEF Closed
  <2>5. q \in S
    <3> HIDE DEF S
    <3> QED BY <1>10, <2>1, <2>2, <2>4 DEF Joined
  <2> QED BY <2>5
<1> QED BY <1>7, <1>9, <1>10 DEF N, f, at

LEMMA BeforeIt ==
    ASSUME NEW h, Sound(h), hash \in [Keys -> Nat], NEW m \in 1 .. Len(h.node), h.node[m].key # Nil,
           NEW o, o = MainPosition(h, h.node[m].key), o # m,
           NEW b, b = CHOOSE p \in Range(Chain(h, o)) \ {0} : h.node[p].next = m
    PROVE  o \in 1 .. Len(h.node) /\ b \in 1 .. Len(h.node) /\ h.node[b].next = m
<1> DEFINE N == Len(h.node)
           f == Nexts(h)
           R == Range(Chain(h, o))
<1>1. N \in Nat \ {0} /\ f \in [1 .. N -> 0 .. N] /\ \A x \in 1 .. N : f[x] = h.node[x].next
  BY SoundFacts, ShapedFacts
<1>2. o \in 1 .. N /\ Joined(f, o, m)
  <2>1. h.node[m].key \in Keys
    BY SoundFacts, ShapedFacts
  <2>2. Home(h, m)
    BY SoundFacts
  <2> QED BY <1>1, <2>1, <2>2, MainPositionIn DEF Home
<1>3. R \subseteq 0 .. N /\ \A q : Joined(f, o, q) => q \in R
  BY <1>2, SoundFacts, ChainEnds
<1>4. \E p \in R \ {0} : h.node[p].next = m
  <2>1. SUFFICES ASSUME \A p \in R \ {0} : h.node[p].next # m PROVE FALSE
    OBVIOUS
  <2> HIDE DEF R, N, f
  <2> DEFINE S == {x \in 1 .. N : Joined(f, o, x) /\ x # m}
  <2>2. S \in SUBSET DOMAIN f /\ o \in S
    BY <1>1, <1>2, JoinedSelf
  <2>3. \A s \in S : f[s] # 0 => f[s] \in S
    <3>1. SUFFICES ASSUME NEW s \in S, f[s] # 0 PROVE f[s] \in S
      OBVIOUS
    <3>2. Joined(f, o, f[s])
      BY <1>1, <3>1, JoinedNext
    <3>3. s \in R \ {0} /\ f[s] = h.node[s].next
      BY <1>1, <1>3, <3>1
    <3>4. f[s] \in 1 .. N
      BY <1>1, <3>1
    <3> QED BY <2>1, <3>2, <3>3, <3>4
  <2>4. Closed(f, S)
    <3> HIDE DEF S
    <3> QED BY <2>3 DEF Closed
  <2>5. m \in S
    <3> HIDE DEF S
    <3> QED BY <1>2, <2>2, <2>4 DEF Joined
  <2> QED BY <2>5
<1>5. b \in R \ {0} /\ h.node[b].next = m
  <2> HIDE DEF R
  <2> QED BY <1>4 DEF R
<1>6. N \in Nat /\ b \in 0 .. N /\ b # 0
  <2> HIDE DEF R, N, f
  <2> QED BY <1>1, <1>3, <1>5
<1>7. b \in 1 .. N
  <2> HIDE DEF R, N, f
  <2> QED BY <1>6
<1> QED BY <1>2, <1>5, <1>7

LEMMA PlaceMoved ==
    ASSUME NEW h, Sound(h), hash \in [Keys -> Nat], NEW k \in Keys, ~MainIsEmpty(h, k), CanPlace(h, k),
           NEW m, m = MainPosition(h, k), NEW n, n = FreePos(h), MainPosition(h, h.node[m].key) # m,
           NEW g, g = Place(h, k)
    PROVE  /\ g \in Tables /\ g.array = h.array /\ g.nested = h.nested /\ g.lastfree = n - 1
           /\ Len(g.node) = Len(h.node)
           /\ \E b \in 1 .. Len(h.node) :
                 /\ b # m /\ b # n /\ h.node[b].next = m
                 /\ \A p \in 1 .. Len(h.node) :
                       g.node[p] = IF p = m THEN Mine(k, 0) ELSE IF p = n THEN h.node[m]
                                   ELSE IF p = b THEN [h.node[b] EXCEPT !.next = n] ELSE h.node[p]
<1>1. Shaped(h) /\ h \in Tables
  BY SoundFacts DEF Shaped
<1>2. /\ m \in 1 .. Len(h.node) /\ n \in 1 .. Len(h.node) /\ m # n /\ n - 1 \in Nat
      /\ h.node[n].next = 0 /\ h.node[m].key # Nil
  BY <1>1, PlaceBusy, ShapedFacts
<1>3. h.node \in Seq(Nodes) /\ h.node[m] \in Nodes /\ Len(h.node) \in Nat
  BY <1>1, <1>2, ShapedFacts
<1> DEFINE o == MainPosition(h, h.node[m].key)
           b == CHOOSE p \in Range(Chain(h, o)) \ {0} : h.node[p].next = m
           e == Mine(k, 0)
           c == [h.node[b] EXCEPT !.next = n]
           d == h.node[m]
           one == [h.node EXCEPT ![b] = c]
           two == [one EXCEPT ![n] = d]
           three == [two EXCEPT ![m] = e]
<1>4. b \in 1 .. Len(h.node) /\ h.node[b].next = m
  BY <1>2, BeforeIt
<1>5. b # n /\ b # m
  <2>1. b # n
    <3> HIDE DEF b
    <3> QED BY <1>2, <1>4
  <2>2. b # m
    <3> HIDE DEF b
    <3>1. SUFFICES ASSUME h.node[m].next = m PROVE FALSE
      BY <1>4
    <3>2. Nexts(h)[m] = m /\ Nexts(h) \in [1 .. Len(h.node) -> 0 .. Len(h.node)]
      BY <1>1, <1>2, <3>1, ShapedFacts
    <3>3. {m} \in SUBSET DOMAIN Nexts(h) /\ {m} # {}
      BY <1>2, <3>2
    <3>4. \E q \in {m} : Nexts(h)[q] \notin {m}
      BY <3>3, SoundFacts DEF Ending
    <3> QED BY <3>2, <3>4
  <2> QED BY <2>1, <2>2
<1>6. g = [h EXCEPT !.lastfree = n - 1, !.node = [h.node EXCEPT ![b].next = n, ![n] = h.node[m], ![m] = e]]
  BY DEF Place, Mine
<1> HIDE DEF b
<1>7. [h.node EXCEPT ![b].next = n, ![n] = h.node[m], ![m] = e] = three
  OBVIOUS
<1>8. e \in Nodes /\ c \in Nodes /\ d \in Nodes
  <2>1. c \in Nodes
    <3>1. n \in Nat /\ h.node[b] \in Nodes
      BY <1>1, <1>2, <1>4, ShapedFacts
    <3>2. \A x \in Nodes : [x EXCEPT !.next = n] \in Nodes
      BY <3>1 DEF Nodes
    <3> QED BY <3>1, <3>2
  <2> QED BY <1>3, <2>1, MineIsNode
<1> HIDE DEF e, c, d
<1>9. one \in Seq(Nodes) /\ Len(one) = Len(h.node) /\ \A p \in 1 .. Len(h.node) : one[p] = IF p = b THEN c ELSE h.node[p]
  BY <1>3, <1>4, <1>8, ExceptSeq
<1> HIDE DEF one
<1>10. two \in Seq(Nodes) /\ Len(two) = Len(h.node) /\ \A p \in 1 .. Len(h.node) : two[p] = IF p = n THEN d ELSE one[p]
  BY <1>2, <1>8, <1>9, ExceptSeq
<1> HIDE DEF two
<1>11. three \in Seq(Nodes) /\ Len(three) = Len(h.node) /\ \A p \in 1 .. Len(h.node) : three[p] = IF p = m THEN e ELSE two[p]
  BY <1>2, <1>8, <1>10, ExceptSeq
<1> HIDE DEF three
<1>12. g \in Tables /\ g.array = h.array /\ g.node = three /\ g.nested = h.nested /\ g.lastfree = n - 1
  <2> DEFINE l == n - 1
  <2>1. g = [h EXCEPT !.lastfree = l, !.node = three]
    BY <1>6, <1>7
  <2>2. l \in Nat /\ three \in Seq(Nodes) /\ h \in Tables
    BY <1>1, <1>2, <1>11
  <2> HIDE DEF l
  <2>3. g \in Tables /\ g.array = h.array /\ g.node = three /\ g.nested = h.nested /\ g.lastfree = l
    BY <2>1, <2>2 DEF Tables
  <2> QED BY <2>3 DEF l
<1>13. \A p \in 1 .. Len(h.node) :
          three[p] = IF p = m THEN e ELSE IF p = n THEN d ELSE IF p = b THEN c ELSE h.node[p]
  BY <1>9, <1>10, <1>11
<1> QED BY <1>4, <1>5, <1>11, <1>12, <1>13 DEF e, c, d

(* What newkey makes of a table. *)
Placed(h, k, g) ==
    /\ Sound(g) /\ g.array = h.array /\ g.nested = h.nested /\ Len(g.node) = Len(h.node)
    /\ UsedKeys(g) = UsedKeys(h)
    /\ \E p \in 1 .. Len(h.node) : g.node[p].key = k /\ ~g.node[p].dead
    /\ \A p \in 1 .. Len(h.node) :
          \/ g.node[p].key \in {k, Nil} /\ ~g.node[p].dead
          \/ \E q \in 1 .. Len(h.node) : g.node[p].key = h.node[q].key /\ g.node[p].dead = h.node[q].dead

Holds(h, g) ==
    \A p \in 1 .. Len(h.node) : h.node[p].val # Nil =>
        \E q \in 1 .. Len(g.node) : g.node[q].key = h.node[p].key /\ g.node[q].val # Nil

LEMMA SameUsedKeys ==
    ASSUME NEW h, Shaped(h), NEW g, Shaped(g), g.array = h.array, Holds(h, g), Holds(g, h)
    PROVE  UsedKeys(g) = UsedKeys(h)
<1>1. ASSUME NEW k PROVE k \in UsedKeys(g) <=> k \in UsedKeys(h)
  <2>1. k \in UsedKeys(h) <=>
           \/ k \in 1 .. Len(h.array) /\ h.array[k] # Nil
           \/ \E p \in 1 .. Len(h.node) : h.node[p].key = k /\ h.node[p].val # Nil
    BY UsedKeysAre
  <2>2. k \in UsedKeys(g) <=>
           \/ k \in 1 .. Len(h.array) /\ h.array[k] # Nil
           \/ \E p \in 1 .. Len(g.node) : g.node[p].key = k /\ g.node[p].val # Nil
    BY UsedKeysAre
  <2>3. ASSUME NEW p \in 1 .. Len(h.node), h.node[p].key = k, h.node[p].val # Nil PROVE k \in UsedKeys(g)
    <3>1. PICK q \in 1 .. Len(g.node) : g.node[q].key = k /\ g.node[q].val # Nil
      BY <2>3 DEF Holds
    <3> QED BY <2>2, <3>1
  <2>4. ASSUME NEW p \in 1 .. Len(g.node), g.node[p].key = k, g.node[p].val # Nil PROVE k \in UsedKeys(h)
    <3>1. PICK q \in 1 .. Len(h.node) : h.node[q].key = k /\ h.node[q].val # Nil
      BY <2>4 DEF Holds
    <3> QED BY <2>1, <3>1
  <2> QED BY <2>1, <2>2, <2>3, <2>4
<1> QED BY <1>1

LEMMA NoLiveKey ==
    ASSUME NEW h, Sound(h), hash \in [Keys -> Nat], NEW k \in Keys, ~Has(h, k)
    PROVE  /\ ~InArray(h, k) /\ k \notin UsedKeys(h)
           /\ \A p \in 1 .. Len(h.node) : h.node[p].key = k => h.node[p].dead
BY HasIs, GetIs

LEMMA PlaceEmptySound ==
    ASSUME NEW h, Sound(h), hash \in [Keys -> Nat], NEW k \in Keys, ~Has(h, k), MainIsEmpty(h, k),
           NEW g, g = Place(h, k)
    PROVE  Placed(h, k, g)
<1> DEFINE m == MainPosition(h, k)
           N == Len(h.node)
           f == Nexts(h)
           e == Mine(k, h.node[m].next)
<1>1. /\ m \in 1 .. N /\ h.node[m].val = Nil
      /\ g \in Tables /\ g.array = h.array /\ g.nested = h.nested /\ g.lastfree = h.lastfree
      /\ Len(g.node) = N
      /\ \A p \in 1 .. N : g.node[p] = IF p = m THEN e ELSE h.node[p]
  BY PlaceEmpty
<1>2. Shaped(h) /\ Unused(h) /\ Ending(f) /\ Single(f)
  BY SoundFacts
<1>3. e.key = k /\ e.dead = FALSE /\ e.val = Nil /\ e.next = h.node[m].next
  BY DEF Mine
<1>4. ~InArray(h, k) /\ \A p \in 1 .. N : h.node[p].key = k => h.node[p].dead
  BY NoLiveKey
<1>5. k # Nil
  BY KeyFacts
<1>6. \A x : MainPosition(g, x) = MainPosition(h, x) /\ (InArray(g, x) <=> InArray(h, x))
  BY <1>1, MainPositionSame DEF InArray
<1>7. m = MainPosition(h, k)
  OBVIOUS
<1> HIDE DEF m, e
<1>8. N \in Nat /\ f \in [1 .. N -> 0 .. N] /\ \A p \in 1 .. N : f[p] = h.node[p].next /\ h.node[p].next \in 0 .. N
  BY <1>2, ShapedFacts
<1>9. Nexts(g) = f
  <2>1. \A p \in 1 .. N : g.node[p].next = h.node[p].next
    BY <1>1, <1>3
  <2> QED BY <1>1, <2>1 DEF Nexts
<1>10. Shaped(g)
  <2>1. \A i \in 1 .. Len(g.array) : g.array[i] \in {i, Nil}
    BY <1>1, <1>2 DEF Shaped
  <2>2. \A p \in 1 .. N :
          LET n == g.node[p]
          IN  /\ n.val \in {n.key, Nil} /\ n.next \in 0 .. N
              /\ n.dead => n.val = Nil /\ n.key \in Collectable
    BY <1>1, <1>2, <1>3, <1>8, ShapedFacts
  <2> QED BY <1>1, <1>2, <2>1, <2>2 DEF Shaped
<1>11. \A p \in 1 .. N : p # m => g.node[p] = h.node[p]
  BY <1>1
<1>12. g.node[m].key = k /\ ~g.node[m].dead /\ g.node[m].val = Nil
  BY <1>1, <1>3
<1>13. Unused(g)
  <2>1. ASSUME NEW p \in 1 .. N, g.node[p].key = Nil PROVE p <= g.lastfree /\ g.node[p].next = 0
    <3>1. p # m
      BY <1>5, <1>12, <2>1
    <3> QED BY <1>1, <1>2, <2>1, <3>1 DEF Unused
  <2>2. ASSUME NEW p \in 1 .. N, g.node[p].next # 0 PROVE g.node[g.node[p].next].key # Nil
    <3>1. g.node[p].next = h.node[p].next /\ h.node[p].next \in 1 .. N
      BY <1>1, <1>3, <1>8, <2>2
    <3>2. h.node[h.node[p].next].key # Nil
      BY <1>2, <2>2, <3>1 DEF Unused
    <3> QED BY <1>5, <1>11, <1>12, <3>1, <3>2
  <2> QED BY <1>1, <2>1, <2>2 DEF Unused
<1>14. ASSUME NEW p \in 1 .. N, h.node[p].key # Nil
       PROVE  LET a == MainPosition(h, h.node[p].key)
              IN  /\ ~InArray(h, h.node[p].key) /\ a \in 1 .. N
                  /\ g.node[a].key # Nil /\ MainPosition(h, g.node[a].key) = a
                  /\ Joined(f, a, p)
  <2> DEFINE a == MainPosition(h, h.node[p].key)
  <2>1. Home(h, p)
    BY <1>14, SoundFacts
  <2>2. ~InArray(h, h.node[p].key) /\ h.node[a].key # Nil /\ MainPosition(h, h.node[a].key) = a /\ Joined(f, a, p)
    BY <2>1 DEF Home
  <2>3. a \in 1 .. N
    <3>1. N \in Nat \ {0} /\ h.node[p].key \in Keys
      BY <1>2, <1>8, <1>14, ShapedFacts
    <3> QED BY <3>1, MainPositionIn
  <2> HIDE DEF a
  <2>4. g.node[a].key # Nil /\ MainPosition(h, g.node[a].key) = a
    BY <1>5, <1>7, <1>11, <1>12, <2>2, <2>3
  <2> QED BY <2>2, <2>3, <2>4 DEF a
<1>15. ASSUME NEW p \in 1 .. N, g.node[p].key # Nil PROVE Home(g, p)
  <2>1. CASE p = m
    <3>1. Joined(f, m, m) /\ g.node[p].key = k
      BY <1>12, <2>1, JoinedSelf
    <3> QED BY <1>4, <1>5, <1>6, <1>7, <1>9, <1>12, <2>1, <3>1 DEF Home
  <2>2. CASE p # m
    <3>1. g.node[p] = h.node[p] /\ h.node[p].key # Nil
      BY <1>11, <1>15, <2>2
    <3>2. MainPosition(g, g.node[p].key) = MainPosition(h, h.node[p].key)
      BY <1>6, <3>1
    <3> QED BY <1>6, <1>9, <1>14, <3>1, <3>2 DEF Home
  <2> QED BY <2>1, <2>2
<1>16. ASSUME NEW p \in 1 .. N, g.node[p].key # Nil PROVE g.node[p].dead \/ First(g, p)
  <2>1. CASE p = m
    <3>1. SUFFICES ASSUME NEW q \in 1 .. N, g.node[q].key = k PROVE (g.node[q].dead \/ q = m) /\ Joined(f, m, q)
      BY <1>1, <1>9, <1>12, <2>1 DEF First
    <3>2. CASE q = m
      BY <3>2, JoinedSelf
    <3>3. CASE q # m
      <4>1. g.node[q] = h.node[q] /\ h.node[q].key = k
        BY <1>11, <3>1, <3>3
      <4> QED BY <1>4, <1>5, <1>7, <1>14, <4>1
    <3> QED BY <3>2, <3>3
  <2>2. CASE p # m /\ ~g.node[p].dead
    <3>1. g.node[p] = h.node[p] /\ h.node[p].key # Nil /\ ~h.node[p].dead /\ h.node[p].key # k
      BY <1>4, <1>11, <1>16, <2>2
    <3>2. First(h, p)
      BY <3>1, SoundFacts
    <3>3. SUFFICES ASSUME NEW q \in 1 .. N, g.node[q].key = h.node[p].key PROVE (g.node[q].dead \/ q = p) /\ Joined(f, p, q)
      BY <1>1, <1>9, <3>1 DEF First
    <3>4. g.node[q] = h.node[q]
      BY <1>11, <1>12, <3>1, <3>3
    <3> QED BY <3>2, <3>3, <3>4 DEF First
  <2> QED BY <2>1, <2>2
<1>17. Sound(g)
  BY <1>1, <1>2, <1>9, <1>10, <1>13, <1>15, <1>16 DEF Sound
<1>18. UsedKeys(g) = UsedKeys(h)
  <2>1. \A p \in 1 .. N : h.node[p].val # Nil => g.node[p].key = h.node[p].key /\ g.node[p].val # Nil
    BY <1>1, <1>11
  <2>2. \A p \in 1 .. N : g.node[p].val # Nil => h.node[p].key = g.node[p].key /\ h.node[p].val # Nil
    BY <1>11, <1>12
  <2>3. Holds(h, g)
    BY <1>1, <2>1 DEF Holds
  <2>4. Holds(g, h)
    BY <1>1, <2>2 DEF Holds
  <2> QED BY <1>1, <1>2, <1>10, <2>3, <2>4, SameUsedKeys
<1>19. \A p \in 1 .. N :
          \/ g.node[p].key \in {k, Nil} /\ ~g.node[p].dead
          \/ \E q \in 1 .. N : g.node[p].key = h.node[q].key /\ g.node[p].dead = h.node[q].dead
  BY <1>11, <1>12
<1> QED BY <1>1, <1>12, <1>17, <1>18, <1>19 DEF Placed

LEMMA HomeIs ==
    ASSUME NEW h, Sound(h), hash \in [Keys -> Nat], NEW p \in 1 .. Len(h.node), h.node[p].key # Nil,
           NEW a, a = MainPosition(h, h.node[p].key)
    PROVE  /\ ~InArray(h, h.node[p].key) /\ h.node[p].key \in Keys /\ a \in 1 .. Len(h.node)
           /\ h.node[a].key # Nil /\ MainPosition(h, h.node[a].key) = a
           /\ Joined(Nexts(h), a, p)
<1>1. Home(h, p) /\ Shaped(h)
  BY SoundFacts
<1>2. Len(h.node) \in Nat \ {0} /\ h.node[p].key \in Keys
  BY <1>1, ShapedFacts
<1>3. a \in 1 .. Len(h.node)
  BY <1>2, MainPositionIn
<1> QED BY <1>1, <1>2, <1>3 DEF Home

LEMMA PlaceChainedSound ==
    ASSUME NEW h, Sound(h), hash \in [Keys -> Nat], NEW k \in Keys, ~Has(h, k),
           ~MainIsEmpty(h, k), CanPlace(h, k),
           NEW m, m = MainPosition(h, k), MainPosition(h, h.node[m].key) = m,
           NEW g, g = Place(h, k)
    PROVE  Placed(h, k, g)
<1> DEFINE n == FreePos(h)
           N == Len(h.node)
           f == Nexts(h)
           e == Mine(k, h.node[m].next)
           c == [h.node[m] EXCEPT !.next = n]
<1>1. /\ g \in Tables /\ g.array = h.array /\ g.nested = h.nested /\ g.lastfree = n - 1
      /\ Len(g.node) = N
      /\ \A p \in 1 .. N : g.node[p] = IF p = m THEN c ELSE IF p = n THEN e ELSE h.node[p]
  BY PlaceChained
<1>2. Shaped(h) /\ Unused(h) /\ Ending(f) /\ Single(f)
  BY SoundFacts
<1>3. /\ m \in 1 .. N /\ n \in 1 .. N /\ m # n
      /\ h.node[m].val # Nil /\ h.node[m].key # Nil /\ ~h.node[m].dead
      /\ h.node[n].key = Nil /\ h.node[n].next = 0 /\ \A p \in 1 .. N : h.node[p].next # n
      /\ \A p \in 1 .. N : h.node[p].key = Nil => p <= n
      /\ n - 1 \in 0 .. N
  BY PlaceBusy
<1>4. ~InArray(h, k) /\ \A p \in 1 .. N : h.node[p].key = k => h.node[p].dead
  BY NoLiveKey
<1>5. k # Nil
  BY KeyFacts
<1>6. \A x : MainPosition(g, x) = MainPosition(h, x) /\ (InArray(g, x) <=> InArray(h, x))
  BY <1>1, MainPositionSame DEF InArray
<1>7. e.key = k /\ e.dead = FALSE /\ e.val = Nil /\ e.next = h.node[m].next
  BY DEF Mine
<1>8. N \in Nat /\ f \in [1 .. N -> 0 .. N] /\ \A p \in 1 .. N : f[p] = h.node[p].next /\ h.node[p].next \in 0 .. N
  BY <1>2, ShapedFacts
<1>9. c.key = h.node[m].key /\ c.dead = h.node[m].dead /\ c.val = h.node[m].val /\ c.next = n
  <2>1. h.node[m] \in Nodes
    BY <1>2, <1>3, ShapedFacts
  <2> QED BY <2>1 DEF Nodes
<1> HIDE DEF n, e, c
<1>10. g.node[m] = c /\ g.node[n] = e /\ \A p \in 1 .. N : p # m /\ p # n => g.node[p] = h.node[p]
  BY <1>1, <1>3
<1>11. \A p \in 1 .. N : p # n => g.node[p].key = h.node[p].key /\ g.node[p].dead = h.node[p].dead /\ g.node[p].val = h.node[p].val
  BY <1>9, <1>10
<1>12. g.node[n].key = k /\ ~g.node[n].dead /\ g.node[n].val = Nil
  BY <1>7, <1>10
<1>13. Shaped(g)
  <2>1. \A i \in 1 .. Len(g.array) : g.array[i] \in {i, Nil}
    BY <1>1, <1>2 DEF Shaped
  <2>2. ASSUME NEW p \in 1 .. N
        PROVE  /\ g.node[p].val \in {g.node[p].key, Nil} /\ g.node[p].next \in 0 .. N
               /\ g.node[p].dead => g.node[p].val = Nil /\ g.node[p].key \in Collectable
    <3>1. CASE p = n
      BY <1>3, <1>7, <1>8, <1>10, <1>12, <3>1
    <3>2. CASE p # n
      <4>1. g.node[p].next \in 0 .. N
        <5>1. n \in 0 .. N
          BY <1>3, <1>8
        <5>2. CASE p = m
          BY <1>9, <1>10, <5>1, <5>2
        <5>3. CASE p # m
          BY <1>8, <1>10, <3>2, <5>3
        <5> QED BY <5>2, <5>3
      <4> QED BY <1>2, <1>11, <3>2, <4>1, ShapedFacts
    <3> QED BY <3>1, <3>2
  <2>3. g.lastfree <= N
    BY <1>1, <1>3, <1>8
  <2> QED BY <1>1, <1>2, <2>1, <2>2, <2>3 DEF Shaped
<1> DEFINE fg == Nexts(g)
<1>14. fg \in [1 .. N -> 0 .. N] /\ \A p \in 1 .. N : fg[p] = g.node[p].next
  BY <1>1, <1>13, ShapedFacts
<1> HIDE DEF fg, f, N
<1>14n. fg[n] = f[m]
  <2>1. g.node[n].next = h.node[m].next
    BY <1>7, <1>10
  <2> QED BY <1>3, <1>8, <1>14, <2>1
<1>14m. fg[m] = n
  <2>1. g.node[m].next = n
    BY <1>9, <1>10
  <2> QED BY <1>3, <1>14, <2>1
<1>14x. \A x \in 1 .. N : x # m /\ x # n => fg[x] = f[x]
  BY <1>8, <1>10, <1>14
<1>2n. f[n] = 0 /\ \A x \in 1 .. N : f[x] # n
  BY <1>3, <1>8
<1>15. /\ Ending(fg) /\ Single(fg)
       /\ \A p \in 1 .. N : \A q : Joined(f, p, q) => Joined(fg, p, q)
       /\ \A q : Joined(f, m, q) /\ q # m => Joined(fg, n, q)
       /\ Joined(fg, m, n)
  <2>1. N \in Nat
    BY <1>8
  <2>2. f \in [1 .. N -> 0 .. N]
    BY <1>8
  <2>3. Ending(f)
    BY <1>2
  <2>4. Single(f)
    BY <1>2
  <2>5. m \in 1 .. N
    BY <1>3
  <2>6. n \in 1 .. N
    BY <1>3
  <2>7. m # n
    BY <1>3
  <2>8. fg \in [1 .. N -> 0 .. N]
    BY <1>14
  <2>9. Chained(N, f, m, n, fg)
    BY <1>14n, <1>14m, <1>14x, <1>2n, <2>1, <2>2, <2>3, <2>4, <2>5, <2>6, <2>7, <2>8 DEF Chained
  <2> QED BY <2>9, ChainedNexts
<1> USE DEF fg, f, N
<1>16. Unused(g)
  <2>1. ASSUME NEW p \in 1 .. N, g.node[p].key = Nil PROVE p <= g.lastfree /\ g.node[p].next = 0
    <3>1. p # n /\ p # m /\ h.node[p].key = Nil
      BY <1>3, <1>5, <1>11, <1>12, <2>1
    <3>2. p <= n /\ h.node[p].next = 0
      BY <1>2, <1>3, <3>1 DEF Unused
    <3> QED BY <1>1, <1>3, <1>8, <1>10, <3>1, <3>2
  <2>2. ASSUME NEW p \in 1 .. N, g.node[p].next # 0 PROVE g.node[g.node[p].next].key # Nil
    <3>1. CASE p = m
      BY <1>5, <1>9, <1>10, <1>12, <3>1
    <3>2. CASE p # m
      <4>1. \E x \in 1 .. N : g.node[p].next = h.node[x].next
        BY <1>3, <1>7, <1>10, <3>2
      <4>2. PICK x \in 1 .. N : g.node[p].next = h.node[x].next
        BY <4>1
      <4>3. h.node[x].next \in 1 .. N /\ h.node[h.node[x].next].key # Nil
        BY <1>2, <1>8, <2>2, <4>2 DEF Unused
      <4>4. h.node[x].next # n
        BY <1>3
      <4> QED BY <1>11, <4>2, <4>3, <4>4
    <3> QED BY <3>1, <3>2
  <2> QED BY <1>1, <2>1, <2>2 DEF Unused
<1>17. ASSUME NEW p \in 1 .. N, g.node[p].key # Nil PROVE Home(g, p)
  <2>1. CASE p = n
    <3>1. m = MainPosition(g, g.node[p].key) /\ ~InArray(g, g.node[p].key)
      BY <1>4, <1>6, <1>12, <2>1
    <3>2. g.node[m].key = h.node[m].key
      BY <1>3, <1>11
    <3>3. MainPosition(g, g.node[m].key) = m
      BY <1>6, <3>2
    <3> QED BY <1>3, <1>15, <2>1, <3>1, <3>2, <3>3 DEF Home
  <2>2. CASE p # n
    <3> DEFINE a == MainPosition(h, h.node[p].key)
    <3>1. h.node[p].key # Nil /\ g.node[p].key = h.node[p].key
      BY <1>11, <1>17, <2>2
    <3>2. /\ ~InArray(h, h.node[p].key) /\ a \in 1 .. N
          /\ h.node[a].key # Nil /\ MainPosition(h, h.node[a].key) = a /\ Joined(f, a, p)
      BY <3>1, HomeIs
    <3>3. MainPosition(g, g.node[p].key) = a /\ ~InArray(g, g.node[p].key)
      BY <1>6, <3>1, <3>2
    <3> HIDE DEF a
    <3>4. g.node[a].key = h.node[a].key
      BY <1>3, <1>11, <3>2
    <3>5. MainPosition(g, g.node[a].key) = a /\ Joined(fg, a, p)
      BY <1>6, <1>15, <3>2, <3>4
    <3> QED BY <3>2, <3>3, <3>4, <3>5 DEF Home
  <2> QED BY <2>1, <2>2
<1>18. ASSUME NEW p \in 1 .. N, g.node[p].key # Nil PROVE g.node[p].dead \/ First(g, p)
  <2>1. CASE p = n
    <3>1. SUFFICES ASSUME NEW q \in 1 .. N, g.node[q].key = k PROVE (g.node[q].dead \/ q = n) /\ Joined(fg, n, q)
      BY <1>1, <1>12, <2>1 DEF First
    <3>2. CASE q = n
      BY <3>2, JoinedSelf
    <3>3. CASE q # n
      <4>1. h.node[q].key = k /\ h.node[q].dead /\ g.node[q].dead
        BY <1>4, <1>11, <3>1, <3>3
      <4>2. Joined(f, m, q)
        BY <1>5, <4>1, HomeIs
      <4>3. q # m
        BY <1>3, <4>1
      <4> QED BY <1>15, <4>1, <4>2, <4>3
    <3> QED BY <3>2, <3>3
  <2>2. CASE p # n /\ ~g.node[p].dead
    <3>1. g.node[p].key = h.node[p].key /\ h.node[p].key # Nil /\ ~h.node[p].dead /\ h.node[p].key # k
      BY <1>4, <1>11, <1>18, <2>2
    <3>2. First(h, p)
      BY <3>1, SoundFacts
    <3>3. SUFFICES ASSUME NEW q \in 1 .. N, g.node[q].key = h.node[p].key PROVE (g.node[q].dead \/ q = p) /\ Joined(fg, p, q)
      BY <1>1, <3>1 DEF First
    <3>4. g.node[q].key = h.node[q].key /\ g.node[q].dead = h.node[q].dead
      BY <1>11, <1>12, <3>1, <3>3
    <3>5. (h.node[q].dead \/ q = p) /\ Joined(f, p, q)
      BY <3>2, <3>3, <3>4 DEF First
    <3> QED BY <1>15, <3>4, <3>5
  <2> QED BY <2>1, <2>2
<1>19. Sound(g)
  BY <1>1, <1>15, <1>13, <1>16, <1>17, <1>18 DEF Sound
<1>20. UsedKeys(g) = UsedKeys(h)
  <2>1. \A p \in 1 .. N : h.node[p].val # Nil => g.node[p].key = h.node[p].key /\ g.node[p].val # Nil
    <3>1. h.node[n].val = Nil
      BY <1>2, <1>3, ShapedFacts
    <3> QED BY <1>11, <3>1
  <2>2. \A p \in 1 .. N : g.node[p].val # Nil => h.node[p].key = g.node[p].key /\ h.node[p].val # Nil
    BY <1>11, <1>12
  <2>3. Holds(h, g)
    BY <1>1, <2>1 DEF Holds
  <2>4. Holds(g, h)
    BY <1>1, <2>2 DEF Holds
  <2> QED BY <1>1, <1>2, <1>13, <2>3, <2>4, SameUsedKeys
<1>21. \A p \in 1 .. N :
          \/ g.node[p].key \in {k, Nil} /\ ~g.node[p].dead
          \/ \E q \in 1 .. N : g.node[p].key = h.node[q].key /\ g.node[p].dead = h.node[q].dead
  BY <1>11, <1>12
<1> QED BY <1>1, <1>3, <1>12, <1>19, <1>20, <1>21 DEF Placed

LEMMA PlaceMovedSound ==
    ASSUME NEW h, Sound(h), hash \in [Keys -> Nat], NEW k \in Keys, ~Has(h, k),
           ~MainIsEmpty(h, k), CanPlace(h, k),
           NEW m, m = MainPosition(h, k), MainPosition(h, h.node[m].key) # m,
           NEW g, g = Place(h, k)
    PROVE  Placed(h, k, g)
<1> DEFINE n == FreePos(h)
           N == Len(h.node)
           f == Nexts(h)
           To(p) == IF p = m THEN n ELSE p
           e == Mine(k, 0)
<1>1. /\ g \in Tables /\ g.array = h.array /\ g.nested = h.nested /\ g.lastfree = n - 1
      /\ Len(g.node) = N
      /\ \E b \in 1 .. N :
            /\ b # m /\ b # n /\ h.node[b].next = m
            /\ \A p \in 1 .. N :
                  g.node[p] = IF p = m THEN e ELSE IF p = n THEN h.node[m]
                              ELSE IF p = b THEN [h.node[b] EXCEPT !.next = n] ELSE h.node[p]
  BY PlaceMoved
<1>2. Shaped(h) /\ Unused(h) /\ Ending(f) /\ Single(f)
  BY SoundFacts
<1>3. /\ m \in 1 .. N /\ n \in 1 .. N /\ m # n
      /\ h.node[m].val # Nil /\ h.node[m].key # Nil /\ ~h.node[m].dead
      /\ h.node[n].key = Nil /\ h.node[n].next = 0 /\ \A p \in 1 .. N : h.node[p].next # n
      /\ \A p \in 1 .. N : h.node[p].key = Nil => p <= n
      /\ n - 1 \in 0 .. N
  BY PlaceBusy
<1>4. ~InArray(h, k) /\ \A p \in 1 .. N : h.node[p].key = k => h.node[p].dead
  BY NoLiveKey
<1>5. k # Nil
  BY KeyFacts
<1>6. \A x : MainPosition(g, x) = MainPosition(h, x) /\ (InArray(g, x) <=> InArray(h, x))
  BY <1>1, MainPositionSame DEF InArray
<1>7. e.key = k /\ e.dead = FALSE /\ e.val = Nil /\ e.next = 0
  BY DEF Mine
<1>8. N \in Nat /\ f \in [1 .. N -> 0 .. N] /\ \A p \in 1 .. N : f[p] = h.node[p].next /\ h.node[p].next \in 0 .. N
  BY <1>2, ShapedFacts
<1> HIDE DEF n, e
<1>9. PICK b \in 1 .. N :
         /\ b # m /\ b # n /\ h.node[b].next = m
         /\ \A p \in 1 .. N :
               g.node[p] = IF p = m THEN e ELSE IF p = n THEN h.node[m]
                           ELSE IF p = b THEN [h.node[b] EXCEPT !.next = n] ELSE h.node[p]
  BY <1>1
<1> DEFINE c == [h.node[b] EXCEPT !.next = n]
<1>10. c.key = h.node[b].key /\ c.dead = h.node[b].dead /\ c.val = h.node[b].val /\ c.next = n
  <2>1. h.node[b] \in Nodes
    BY <1>2, <1>9, ShapedFacts
  <2> QED BY <2>1 DEF Nodes
<1>11. g.node[m] = e /\ g.node[n] = h.node[m] /\ g.node[b] = c /\ \A p \in 1 .. N : p # m /\ p # n /\ p # b => g.node[p] = h.node[p]
  BY <1>3, <1>9
<1> HIDE DEF c
<1>12. \A p \in 1 .. N : p # n => To(p) \in 1 .. N /\ To(p) # m /\ g.node[To(p)].key = h.node[p].key
                                  /\ g.node[To(p)].dead = h.node[p].dead /\ g.node[To(p)].val = h.node[p].val
  BY <1>3, <1>10, <1>11
<1>13. \A q \in 1 .. N : q # m => \E p \in 1 .. N : p # n /\ q = To(p)
  BY <1>3
<1>14. g.node[m].key = k /\ ~g.node[m].dead /\ g.node[m].val = Nil
  BY <1>7, <1>11
<1> HIDE DEF To
<1>15. Shaped(g)
  <2>1. \A i \in 1 .. Len(g.array) : g.array[i] \in {i, Nil}
    BY <1>1, <1>2 DEF Shaped
  <2>2. ASSUME NEW q \in 1 .. N
        PROVE  /\ g.node[q].val \in {g.node[q].key, Nil} /\ g.node[q].next \in 0 .. N
               /\ g.node[q].dead => g.node[q].val = Nil /\ g.node[q].key \in Collectable
    <3>0. g.node[q].next \in 0 .. N
      <4>1. n \in 0 .. N /\ 0 \in 0 .. N
        BY <1>3, <1>8
      <4>2. CASE q = m
        BY <1>7, <1>11, <4>1, <4>2
      <4>3. CASE q = n
        BY <1>3, <1>8, <1>11, <4>3
      <4>4. CASE q = b
        BY <1>10, <1>11, <4>1, <4>4
      <4>5. CASE q # m /\ q # n /\ q # b
        BY <1>8, <1>11, <4>5
      <4> QED BY <4>2, <4>3, <4>4, <4>5
    <3>1. CASE q = m
      BY <1>14, <3>0, <3>1
    <3>2. CASE q # m
      <4>1. PICK p \in 1 .. N : p # n /\ q = To(p)
        BY <1>13, <3>2
      <4>2. g.node[q].key = h.node[p].key /\ g.node[q].dead = h.node[p].dead /\ g.node[q].val = h.node[p].val
        BY <1>12, <4>1
      <4> QED BY <1>2, <3>0, <4>2, ShapedFacts
    <3> QED BY <3>1, <3>2
  <2>3. g.lastfree <= N
    BY <1>1, <1>3, <1>8
  <2> QED BY <1>1, <1>2, <2>1, <2>2, <2>3 DEF Shaped
<1> DEFINE fg == Nexts(g)
<1>16. fg \in [1 .. N -> 0 .. N] /\ \A p \in 1 .. N : fg[p] = g.node[p].next
  BY <1>1, <1>15, ShapedFacts
<1> HIDE DEF fg, f, N
<1>16b. fg[b] = n
  <2>1. g.node[b].next = n
    BY <1>10, <1>11
  <2> QED BY <1>9, <1>16, <2>1
<1>16n. fg[n] = f[m]
  <2>1. g.node[n].next = h.node[m].next
    BY <1>11
  <2> QED BY <1>3, <1>8, <1>16, <2>1
<1>16m. fg[m] = 0
  <2>1. g.node[m].next = 0
    BY <1>7, <1>11
  <2> QED BY <1>3, <1>16, <2>1
<1>16x. \A x \in 1 .. N : x # b /\ x # m /\ x # n => fg[x] = f[x]
  BY <1>8, <1>11, <1>16
<1>2n. f[n] = 0 /\ \A x \in 1 .. N : f[x] # n
  BY <1>3, <1>8
<1>2b. f[b] = m
  BY <1>8, <1>9
<1>17. /\ Ending(fg) /\ Single(fg)
       /\ \A p, q \in 1 .. N : Joined(f, p, q) => Joined(fg, To(p), To(q))
  <2>1. N \in Nat
    BY <1>8
  <2>2. f \in [1 .. N -> 0 .. N]
    BY <1>8
  <2>3. Ending(f)
    BY <1>2
  <2>4. Single(f)
    BY <1>2
  <2>5. m \in 1 .. N
    BY <1>3
  <2>6. n \in 1 .. N
    BY <1>3
  <2>7. m # n
    BY <1>3
  <2>8. fg \in [1 .. N -> 0 .. N]
    BY <1>16
  <2>9. Moved(N, f, b, m, n, fg)
    BY <1>16b, <1>16n, <1>16m, <1>16x, <1>2n, <1>2b, <2>1, <2>2, <2>3, <2>4, <2>5, <2>6, <2>7, <2>8 DEF Moved
  <2> QED BY <2>9, MovedNexts DEF To
<1> USE DEF fg, f, N
<1>18. Unused(g)
  <2>1. ASSUME NEW p \in 1 .. N, g.node[p].key = Nil PROVE p <= g.lastfree /\ g.node[p].next = 0
    <3>1. p # n /\ p # m
      BY <1>3, <1>5, <1>11, <1>14, <2>1
    <3>2. h.node[p].key = Nil
      BY <1>10, <1>11, <2>1, <3>1
    <3>3. p <= n /\ h.node[p].next = 0
      BY <1>2, <1>3, <3>2 DEF Unused
    <3>4. p # b
      BY <1>2, <1>3, <1>9, <3>3
    <3>5. p <= n - 1
      BY <1>3, <1>8, <3>1, <3>3
    <3>6. g.node[p] = h.node[p]
      BY <1>11, <3>1, <3>4
    <3> QED BY <1>1, <3>3, <3>5, <3>6
  <2>2. ASSUME NEW p \in 1 .. N, g.node[p].next # 0 PROVE g.node[g.node[p].next].key # Nil
    <3>1. CASE p = b
      BY <1>3, <1>9, <1>10, <1>11, <3>1
    <3>2. CASE p # b
      <4>1. \E x \in 1 .. N : g.node[p].next = h.node[x].next
        BY <1>3, <1>7, <1>11, <2>2, <3>2
      <4>2. PICK x \in 1 .. N : g.node[p].next = h.node[x].next
        BY <4>1
      <4>3. h.node[x].next \in 1 .. N /\ h.node[h.node[x].next].key # Nil /\ h.node[x].next # n
        BY <1>2, <1>3, <1>8, <2>2, <4>2 DEF Unused
      <4> DEFINE y == h.node[x].next
      <4>4. g.node[y].key # Nil
        <5> HIDE DEF y
        <5>1. y \in 1 .. N /\ h.node[y].key # Nil /\ y # n
          BY <4>3 DEF y
        <5> QED BY <1>5, <1>10, <1>11, <1>14, <5>1
      <4> QED BY <4>2, <4>4
    <3> QED BY <3>1, <3>2
  <2> QED BY <1>1, <2>1, <2>2 DEF Unused
<1>19. ASSUME NEW p \in 1 .. N, h.node[p].key # Nil, p # n PROVE Home(g, To(p))
  <2> DEFINE a == MainPosition(h, h.node[p].key)
  <2>1. /\ ~InArray(h, h.node[p].key) /\ a \in 1 .. N
        /\ h.node[a].key # Nil /\ MainPosition(h, h.node[a].key) = a /\ Joined(f, a, p)
    BY <1>19, HomeIs
  <2>2. MainPosition(g, h.node[p].key) = a /\ ~InArray(g, h.node[p].key)
    BY <1>6, <2>1
  <2> HIDE DEF a
  <2>3. a # m /\ a # n
    BY <1>3, <2>1
  <2>4. To(a) = a
    BY <2>3 DEF To
  <2>5. g.node[a].key = h.node[a].key
    BY <1>12, <2>1, <2>3, <2>4
  <2>6. Joined(fg, a, To(p))
    BY <1>17, <2>1, <2>4
  <2>7. MainPosition(g, g.node[a].key) = a
    BY <1>6, <2>1, <2>5
  <2>8. g.node[To(p)].key = h.node[p].key
    BY <1>12, <1>19
  <2> HIDE DEF fg
  <2> QED BY <2>1, <2>2, <2>5, <2>6, <2>7, <2>8 DEF Home, fg
<1>20. ASSUME NEW q \in 1 .. N, g.node[q].key # Nil PROVE Home(g, q)
  <2>1. CASE q = m
    <3>1. MainPosition(g, g.node[m].key) = m /\ ~InArray(g, g.node[m].key)
      BY <1>4, <1>6, <1>14
    <3> QED BY <1>20, <2>1, <3>1, JoinedSelf DEF Home
  <2>2. CASE q # m
    <3>1. PICK p \in 1 .. N : p # n /\ q = To(p)
      BY <1>13, <2>2
    <3>2. h.node[p].key # Nil
      BY <1>12, <1>20, <3>1
    <3> QED BY <1>19, <3>1, <3>2
  <2> QED BY <2>1, <2>2
<1>21. ASSUME NEW p \in 1 .. N, h.node[p].key = k PROVE FALSE
  <2>1. /\ m = MainPosition(h, h.node[p].key)
        /\ h.node[p].key # Nil
    BY <1>5, <1>21
  <2>2. MainPosition(h, h.node[m].key) = m
    BY <2>1, HomeIs
  <2> QED BY <2>2
<1>22. ASSUME NEW r \in 1 .. N, g.node[r].key # Nil, ~g.node[r].dead PROVE First(g, r)
  <2>1. CASE r = m
    <3>1. SUFFICES ASSUME NEW q \in 1 .. N, g.node[q].key = k PROVE (g.node[q].dead \/ q = m) /\ Joined(fg, m, q)
      BY <1>1, <1>14, <2>1 DEF First
    <3>2. CASE q = m
      BY <3>2, JoinedSelf
    <3>3. CASE q # m
      <4>1. PICK p \in 1 .. N : p # n /\ q = To(p)
        BY <1>13, <3>3
      <4>2. h.node[p].key = k
        BY <1>12, <3>1, <4>1
      <4> QED BY <1>21, <4>2
    <3> QED BY <3>2, <3>3
  <2>2. CASE r # m
    <3>1. PICK p \in 1 .. N : p # n /\ r = To(p)
      BY <1>13, <2>2
    <3>2. g.node[r].key = h.node[p].key /\ h.node[p].key # Nil /\ ~h.node[p].dead /\ h.node[p].key # k
      BY <1>12, <1>21, <1>22, <3>1
    <3>3. First(h, p)
      BY <3>2, SoundFacts
    <3>4. SUFFICES ASSUME NEW q \in 1 .. N, g.node[q].key = h.node[p].key PROVE (g.node[q].dead \/ q = r) /\ Joined(fg, r, q)
      BY <1>1, <3>2 DEF First
    <3>5. q # m
      BY <1>14, <3>2, <3>4
    <3>6. PICK s \in 1 .. N : s # n /\ q = To(s)
      BY <1>13, <3>5
    <3>7. h.node[s].key = h.node[p].key /\ g.node[q].dead = h.node[s].dead
      BY <1>12, <3>4, <3>6
    <3>8. (h.node[s].dead \/ s = p) /\ Joined(f, p, s)
      BY <3>3, <3>7 DEF First
    <3> QED BY <1>17, <3>1, <3>6, <3>7, <3>8
  <2> QED BY <2>1, <2>2
<1>23. Sound(g)
  BY <1>1, <1>17, <1>15, <1>18, <1>20, <1>22 DEF Sound
<1>24. UsedKeys(g) = UsedKeys(h)
  <2>1. ASSUME NEW p \in 1 .. N, h.node[p].val # Nil
        PROVE  \E q \in 1 .. N : g.node[q].key = h.node[p].key /\ g.node[q].val # Nil
    <3>1. p # n
      BY <1>2, <1>3, <2>1, ShapedFacts
    <3>2. To(p) \in 1 .. N /\ g.node[To(p)].key = h.node[p].key /\ g.node[To(p)].val = h.node[p].val
      BY <1>12, <3>1
    <3> QED BY <2>1, <3>2
  <2>2. ASSUME NEW q \in 1 .. N, g.node[q].val # Nil
        PROVE  \E p \in 1 .. N : h.node[p].key = g.node[q].key /\ h.node[p].val # Nil
    <3>1. q # m
      BY <1>14, <2>2
    <3>2. PICK p \in 1 .. N : p # n /\ q = To(p)
      BY <1>13, <3>1
    <3>3. g.node[q].key = h.node[p].key /\ g.node[q].val = h.node[p].val
      BY <1>12, <3>2
    <3>4. h.node[p].key = g.node[q].key /\ h.node[p].val # Nil
      BY <2>2, <3>3
    <3> QED BY <3>4
  <2>3. g.array = h.array /\ Len(g.node) = Len(h.node) /\ Shaped(g) /\ Shaped(h)
    BY <1>1, <1>2, <1>15
  <2>4. Holds(h, g)
    BY <1>1, <2>1 DEF Holds
  <2>5. Holds(g, h)
    BY <1>1, <2>2 DEF Holds
  <2> QED BY <2>3, <2>4, <2>5, SameUsedKeys
<1>25. ASSUME NEW q \in 1 .. N
       PROVE  \/ g.node[q].key \in {k, Nil} /\ ~g.node[q].dead
              \/ \E p \in 1 .. N : g.node[q].key = h.node[p].key /\ g.node[q].dead = h.node[p].dead
  <2>1. CASE q = m
    BY <1>14, <2>1
  <2>2. CASE q # m
    <3>1. PICK p \in 1 .. N : p # n /\ q = To(p)
      BY <1>13, <2>2
    <3> QED BY <1>12, <3>1
  <2> QED BY <2>1, <2>2
<1> QED BY <1>1, <1>3, <1>14, <1>23, <1>24, <1>25 DEF Placed

LEMMA PlaceSound ==
    ASSUME NEW h, Sound(h), hash \in [Keys -> Nat], NEW k \in Keys, ~Has(h, k), CanPlace(h, k)
    PROVE  Placed(h, k, Place(h, k))
BY PlaceEmptySound, PlaceChainedSound, PlaceMovedSound

-----------------------------------------------------------------------------
(* Only values and dead marks change: every key stays where it is.         *)
Unmoved(h, g) ==
    /\ Len(g.array) = Len(h.array) /\ Len(g.node) = Len(h.node) /\ g.nested = h.nested
    /\ \A p \in 1 .. Len(h.node) : g.node[p].key = h.node[p].key

LEMMA UnmovedFind ==
    ASSUME NEW h, Shaped(h), NEW g, Shaped(g), Len(g.node) = Len(h.node), Nexts(g) = Nexts(h),
           \A p \in 1 .. Len(h.node) : g.node[p].key = h.node[p].key
    PROVE  /\ \A k : Find(g, k, TRUE) = Find(h, k, TRUE)
           /\ (\A p \in 1 .. Len(h.node) : g.node[p].dead = h.node[p].dead)
                 => \A k : Find(g, k, FALSE) = Find(h, k, FALSE)
<1>1. ASSUME NEW k PROVE Find(g, k, TRUE) = Find(h, k, TRUE)
  <2>1. Matching(g, k, TRUE) = Matching(h, k, TRUE)
    BY DEF Matching
  <2>2. MainPosition(g, k) = MainPosition(h, k)
    BY MainPositionSame
  <2> QED BY <2>1, <2>2, FindIs
<1>2. ASSUME NEW k, \A p \in 1 .. Len(h.node) : g.node[p].dead = h.node[p].dead
      PROVE  Find(g, k, FALSE) = Find(h, k, FALSE)
  <2>1. Matching(g, k, FALSE) = Matching(h, k, FALSE)
    BY <1>2 DEF Matching
  <2>2. MainPosition(g, k) = MainPosition(h, k)
    BY MainPositionSame
  <2> QED BY <2>1, <2>2, FindIs
<1> QED BY <1>1, <1>2

LEMMA UnmovedSound ==
    ASSUME NEW h, Sound(h), hash \in [Keys -> Nat], NEW g, g \in Tables, Unmoved(h, g), g.lastfree = h.lastfree,
           \A i \in 1 .. Len(h.array) : g.array[i] \in {i, Nil},
           \A p \in 1 .. Len(h.node) :
              /\ g.node[p].next = h.node[p].next /\ g.node[p].val \in {h.node[p].key, Nil}
              /\ h.node[p].dead => g.node[p].dead
              /\ g.node[p].dead => g.node[p].val = Nil /\ h.node[p].key \in Collectable
    PROVE  Sound(g) /\ \A k : FindIndex(g, k) = FindIndex(h, k)
<1> DEFINE N == Len(h.node)
<1>1. /\ Len(g.array) = Len(h.array) /\ Len(g.node) = N
      /\ \A p \in 1 .. N : g.node[p].key = h.node[p].key
  BY DEF Unmoved
<1>2. Shaped(h) /\ Unused(h) /\ Ending(Nexts(h)) /\ Single(Nexts(h))
  BY SoundFacts
<1>3. Shaped(g)
  BY <1>1, <1>2 DEF Shaped
<1>4. Nexts(g) = Nexts(h)
  BY <1>1 DEF Nexts
<1>5. \A k : MainPosition(g, k) = MainPosition(h, k) /\ (InArray(g, k) <=> InArray(h, k))
  BY <1>1, MainPositionSame DEF InArray
<1>6. Unused(g)
  <2>1. N \in Nat /\ \A p \in 1 .. N : h.node[p].next \in 0 .. N
    BY <1>2, ShapedFacts
  <2>2. ASSUME NEW p \in 1 .. N, g.node[p].next # 0 PROVE g.node[g.node[p].next].key # Nil
    <3>1. h.node[p].next \in 1 .. N /\ h.node[h.node[p].next].key # Nil
      BY <1>2, <2>1, <2>2 DEF Unused
    <3> QED BY <1>1, <2>2, <3>1
  <2> QED BY <1>1, <1>2, <2>2 DEF Unused
<1>7. ASSUME NEW p \in 1 .. N, g.node[p].key # Nil PROVE Home(g, p) /\ (g.node[p].dead \/ First(g, p))
  <2> DEFINE a == MainPosition(h, h.node[p].key)
  <2>1. /\ ~InArray(h, h.node[p].key) /\ a \in 1 .. N
        /\ h.node[a].key # Nil /\ MainPosition(h, h.node[a].key) = a /\ Joined(Nexts(h), a, p)
    BY <1>1, <1>7, HomeIs
  <2>2. MainPosition(g, g.node[p].key) = a /\ ~InArray(g, g.node[p].key)
    BY <1>1, <1>5, <2>1
  <2> HIDE DEF a
  <2>3. g.node[a].key = h.node[a].key
    BY <1>1, <2>1
  <2>4. MainPosition(g, g.node[a].key) = a
    BY <1>5, <2>1, <2>3
  <2>5. Home(g, p)
    BY <1>4, <2>1, <2>2, <2>3, <2>4 DEF Home
  <2>6. ASSUME ~g.node[p].dead PROVE First(g, p)
    <3>1. First(h, p)
      BY <1>1, <1>7, <2>6, SoundFacts
    <3> QED BY <1>1, <1>4, <3>1 DEF First
  <2> QED BY <2>5, <2>6
<1>8. Sound(g)
  BY <1>1, <1>2, <1>3, <1>4, <1>6, <1>7 DEF Sound
<1>9. \A k : Find(g, k, TRUE) = Find(h, k, TRUE)
  BY <1>1, <1>2, <1>3, <1>4, UnmovedFind
<1>10. ASSUME NEW k PROVE FindIndex(g, k) = FindIndex(h, k)
  <2>1. InArray(g, k) <=> InArray(h, k)
    BY <1>5
  <2>2. Find(g, k, TRUE) = Find(h, k, TRUE)
    BY <1>9
  <2> QED BY <1>1, <2>1, <2>2 DEF FindIndex
<1> QED BY <1>8, <1>10

LEMMA PutSound ==
    ASSUME NEW h, Sound(h), hash \in [Keys -> Nat], NEW k \in Keys, Has(h, k), NEW v \in {k, Nil},
           NEW g, g = Put(h, k, v)
    PROVE  /\ Sound(g) /\ Unmoved(h, g)
           /\ UsedKeys(g) = IF v = Nil THEN UsedKeys(h) \ {k} ELSE UsedKeys(h) \cup {k}
           /\ \A p \in 1 .. Len(h.node) : g.node[p].dead = h.node[p].dead
           /\ \A x : FindIndex(g, x) = FindIndex(h, x)
<1> DEFINE N == Len(h.node)
           n == Find(h, k, FALSE)
<1>1. Shaped(h) /\ h \in Tables /\ k # Nil
  BY SoundFacts, KeyFacts DEF Shaped
<1>2. /\ Len(h.array) \in Nat /\ h.array \in Seq(Keys \cup {Nil}) /\ N \in Nat /\ h.node \in Seq(Nodes)
      /\ \A i \in 1 .. Len(h.array) : h.array[i] \in {i, Nil}
  BY <1>1, ShapedFacts
<1>3. \A p \in 1 .. N : h.node[p].key = k => ~InArray(h, k)
  BY <1>1, SoundFacts DEF Home
<1>4. CASE InArray(h, k)
  <2>1. k \in 1 .. Len(h.array) /\ v \in Keys \cup {Nil}
    BY <1>4 DEF InArray
  <2> DEFINE a == [h.array EXCEPT ![k] = v]
  <2>2. a \in Seq(Keys \cup {Nil}) /\ Len(a) = Len(h.array) /\ \A i \in 1 .. Len(h.array) : a[i] = IF i = k THEN v ELSE h.array[i]
    BY <1>2, <2>1, ExceptSeq
  <2>3. g = [h EXCEPT !.array = a]
    BY <1>4 DEF Put
  <2> HIDE DEF a
  <2>4. g \in Tables /\ g.array = a /\ g.node = h.node /\ g.lastfree = h.lastfree /\ g.nested = h.nested
    BY <1>1, <2>2, <2>3 DEF Tables
  <2>5. Unmoved(h, g)
    BY <2>2, <2>4 DEF Unmoved
  <2>6. \A i \in 1 .. Len(h.array) : g.array[i] \in {i, Nil}
    BY <1>2, <2>2, <2>4
  <2>7. \A p \in 1 .. N :
            /\ g.node[p].next = h.node[p].next /\ g.node[p].val \in {h.node[p].key, Nil}
            /\ h.node[p].dead => g.node[p].dead
            /\ g.node[p].dead => g.node[p].val = Nil /\ h.node[p].key \in Collectable
    BY <1>1, <2>4, ShapedFacts
  <2>8. Sound(g) /\ \A x : FindIndex(g, x) = FindIndex(h, x)
    BY <2>4, <2>5, <2>6, <2>7, UnmovedSound
  <2>9. ASSUME NEW x PROVE x \in UsedKeys(g) <=> IF x = k THEN v # Nil ELSE x \in UsedKeys(h)
    <3>1. x \in UsedKeys(h) <=>
            \/ x \in 1 .. Len(h.array) /\ h.array[x] # Nil
            \/ \E p \in 1 .. N : h.node[p].key = x /\ h.node[p].val # Nil
      BY <1>1, UsedKeysAre
    <3>2. x \in UsedKeys(g) <=>
            \/ x \in 1 .. Len(g.array) /\ g.array[x] # Nil
            \/ \E p \in 1 .. Len(g.node) : g.node[p].key = x /\ g.node[p].val # Nil
      <4>1. Shaped(g)
        BY <2>8, SoundFacts
      <4> QED BY <4>1, UsedKeysAre
    <3>3. x = k => ~\E p \in 1 .. N : h.node[p].key = x /\ h.node[p].val # Nil
      BY <1>3, <1>4
    <3> QED BY <2>1, <2>2, <2>4, <3>1, <3>2, <3>3
  <2>10. UsedKeys(g) = IF v = Nil THEN UsedKeys(h) \ {k} ELSE UsedKeys(h) \cup {k}
    BY <2>9
  <2> QED BY <2>4, <2>5, <2>8, <2>10
<1>5. CASE ~InArray(h, k)
  <2>1. n \in 1 .. N /\ h.node[n].key = k /\ ~h.node[n].dead
        /\ \A q \in 1 .. N : h.node[q].key = k /\ ~h.node[q].dead => q = n
    <3>1. n # 0
      BY <1>5 DEF Has
    <3> QED BY <3>1, FindLive
  <2> HIDE DEF n
  <2> DEFINE e == [h.node[n] EXCEPT !.val = v]
             nodes == [h.node EXCEPT ![n] = e]
  <2>2. e \in Nodes /\ e.key = k /\ e.dead = h.node[n].dead /\ e.val = v /\ e.next = h.node[n].next
    <3>1. h.node[n] \in Nodes /\ v \in Keys \cup {Nil}
      BY <1>1, <2>1, ShapedFacts
    <3>2. \A x \in Nodes : /\ [x EXCEPT !.val = v] \in Nodes /\ [x EXCEPT !.val = v].key = x.key
                           /\ [x EXCEPT !.val = v].dead = x.dead /\ [x EXCEPT !.val = v].val = v
                           /\ [x EXCEPT !.val = v].next = x.next
      BY <3>1 DEF Nodes
    <3> QED BY <2>1, <3>1, <3>2
  <2>3. g = [h EXCEPT !.node = nodes]
    BY <1>5 DEF Put, n
  <2> HIDE DEF e
  <2>4. nodes \in Seq(Nodes) /\ Len(nodes) = N /\ \A p \in 1 .. N : nodes[p] = IF p = n THEN e ELSE h.node[p]
    BY <1>2, <2>1, <2>2, ExceptSeq
  <2> HIDE DEF nodes
  <2>5. g \in Tables /\ g.array = h.array /\ g.node = nodes /\ g.lastfree = h.lastfree /\ g.nested = h.nested
    BY <1>1, <2>3, <2>4, NodesEdited
  <2>6. \A p \in 1 .. N :
            /\ g.node[p].next = h.node[p].next /\ g.node[p].key = h.node[p].key
            /\ g.node[p].dead = h.node[p].dead
            /\ g.node[p].val = IF p = n THEN v ELSE h.node[p].val
    BY <2>1, <2>2, <2>4, <2>5
  <2>7. Unmoved(h, g)
    BY <2>4, <2>5, <2>6 DEF Unmoved
  <2>8. \A p \in 1 .. N :
            /\ g.node[p].val \in {h.node[p].key, Nil}
            /\ g.node[p].dead => g.node[p].val = Nil /\ h.node[p].key \in Collectable
    <3>1. \A p \in 1 .. N :
             /\ h.node[p].val \in {h.node[p].key, Nil}
             /\ h.node[p].dead => h.node[p].val = Nil /\ h.node[p].key \in Collectable
      BY <1>1, ShapedFacts
    <3> QED BY <2>1, <2>6, <3>1
  <2>9. Sound(g) /\ \A x : FindIndex(g, x) = FindIndex(h, x)
    BY <1>2, <2>5, <2>6, <2>7, <2>8, UnmovedSound
  <2>10. ASSUME NEW x PROVE x \in UsedKeys(g) <=> IF x = k THEN v # Nil ELSE x \in UsedKeys(h)
    <3>1. x \in UsedKeys(h) <=>
            \/ x \in 1 .. Len(h.array) /\ h.array[x] # Nil
            \/ \E p \in 1 .. N : h.node[p].key = x /\ h.node[p].val # Nil
      BY <1>1, UsedKeysAre
    <3>2. x \in UsedKeys(g) <=>
            \/ x \in 1 .. Len(h.array) /\ h.array[x] # Nil
            \/ \E p \in 1 .. N : g.node[p].key = x /\ g.node[p].val # Nil
      <4>1. Shaped(g)
        BY <2>9, SoundFacts
      <4>2. g.array = h.array /\ Len(g.node) = N
        BY <2>4, <2>5
      <4>3. x \in UsedKeys(g) <=>
              \/ x \in 1 .. Len(g.array) /\ g.array[x] # Nil
              \/ \E p \in 1 .. Len(g.node) : g.node[p].key = x /\ g.node[p].val # Nil
        BY <4>1, UsedKeysAre
      <4> QED BY <4>2, <4>3
    <3>3. CASE x # k
      <4>1. \A p \in 1 .. N : h.node[p].key = x => g.node[p].key = x /\ g.node[p].val = h.node[p].val
        BY <2>1, <2>6, <3>3
      <4>2. \A p \in 1 .. N : g.node[p].key = x => h.node[p].key = x
        BY <2>6
      <4> QED BY <3>1, <3>2, <3>3, <4>1, <4>2
    <3>4. CASE x = k
      <4>1. ~(x \in 1 .. Len(h.array))
        BY <1>5, <3>4 DEF InArray
      <4>2. \A p \in 1 .. N : g.node[p].key = k /\ g.node[p].val # Nil => p = n
        <5>1. SUFFICES ASSUME NEW p \in 1 .. N, g.node[p].key = k, g.node[p].val # Nil PROVE p = n
          OBVIOUS
        <5>2. h.node[p].key = k /\ (p # n => h.node[p].val # Nil)
          BY <2>6, <5>1
        <5>3. p # n => ~h.node[p].dead
          BY <1>1, <5>2, ShapedFacts
        <5> QED BY <2>1, <5>2, <5>3
      <4>3. g.node[n].key = k /\ g.node[n].val = v
        BY <2>1, <2>6
      <4> QED BY <2>1, <3>2, <3>4, <4>1, <4>2, <4>3
    <3> QED BY <3>3, <3>4
  <2>11. UsedKeys(g) = IF v = Nil THEN UsedKeys(h) \ {k} ELSE UsedKeys(h) \cup {k}
    BY <2>10
  <2> QED BY <2>6, <2>7, <2>9, <2>11
<1> QED BY <1>4, <1>5

-----------------------------------------------------------------------------
(* Filling a table. *)

(* A table that is being filled with keys of W, of which there are not     *)
(* more than it has nodes.                                                 *)
Roomy(g, W, N, n) ==
    /\ Sound(g) /\ ~g.nested /\ Len(g.node) = N /\ Len(g.array) = n
    /\ W \subseteq Keys /\ IsFiniteSet(W) /\ Cardinality(W) <= N
    /\ \A p \in 1 .. N : ~g.node[p].dead /\ g.node[p].key \in W \cup {Nil}

LEMMA Room ==
    ASSUME NEW g, NEW W, NEW N, NEW n, Roomy(g, W, N, n), hash \in [Keys -> Nat], NEW k \in W, ~Has(g, k)
    PROVE  CanPlace(g, k)
<1>1. Sound(g) /\ Shaped(g) /\ Unused(g) /\ Len(g.node) = N /\ N \in Nat /\ g.lastfree \in 0 .. N
  <2>1. Shaped(g)
    BY SoundFacts DEF Roomy
  <2> QED BY <2>1, SoundFacts, ShapedFacts DEF Roomy
<1>2. W \subseteq Keys /\ IsFiniteSet(W) /\ Cardinality(W) <= N
      /\ \A p \in 1 .. N : ~g.node[p].dead /\ g.node[p].key \in W \cup {Nil}
  BY DEF Roomy
<1>3. SUFFICES ASSUME FreePos(g) = 0 PROVE FALSE
  BY DEF CanPlace
<1> DEFINE free == {p \in 1 .. g.lastfree : g.node[p].key = Nil}
<1>4. free = {}
  <2>1. SUFFICES ASSUME free # {} PROVE FALSE
    OBVIOUS
  <2>2. g.lastfree \in Nat /\ free \in SUBSET (0 .. g.lastfree)
    BY <1>1
  <2>3. Max(free) \in free
    <3> HIDE DEF free
    <3> QED BY <2>1, <2>2, Greatest
  <2>4. FreePos(g) = Max(free)
    BY <2>1 DEF FreePos
  <2>5. Max(free) # 0
    BY <1>1, <2>3
  <2> QED BY <1>3, <2>4, <2>5
<1>5. \A p \in 1 .. N : g.node[p].key # Nil
  BY <1>1, <1>4 DEF Unused
<1> DEFINE f == [p \in 1 .. N |-> g.node[p].key]
<1>6. f \in [1 .. N -> W \ {k}]
  <2>1. k \in Keys
    BY <1>2
  <2>2. \A p \in 1 .. N : g.node[p].key # k
    BY <1>1, <1>2, <2>1, HasIs
  <2> QED BY <1>2, <1>5, <2>2
<1>7. IsFiniteSet(1 .. N) /\ Cardinality(1 .. N) = N
  BY <1>1, FS_Interval
<1>8. IsFiniteSet(W \ {k}) /\ Cardinality(W \ {k}) < N
  <2>1. IsFiniteSet(W \ {k}) /\ Cardinality(W \ {k}) = Cardinality(W) - 1 /\ Cardinality(W) \in Nat
    BY <1>2, FS_RemoveElement, FS_CardinalityType
  <2> QED BY <1>1, <1>2, <2>1
<1>9. \E p, q \in 1 .. N : p # q /\ f[p] = f[q]
  <2> HIDE DEF f
  <2> QED BY <1>6, <1>7, <1>8, FS_PigeonHole
<1>10. PICK p \in 1 .. N, q \in 1 .. N : p # q /\ g.node[p].key = g.node[q].key
  BY <1>9
<1>11. First(g, p)
  BY <1>1, <1>2, <1>5, <1>10, SoundFacts
<1>12. g.node[q].dead \/ q = p
  BY <1>1, <1>10, <1>11 DEF First
<1> QED BY <1>2, <1>10, <1>12

(* An entry that is stored again. *)
Fits(e, W, n) == e.val \in {e.key, Nil} /\ (e.val # Nil => e.key \in Keys /\ e.key \in W \cup 1 .. n)

LEMMA PlacedRoomy ==
    ASSUME NEW g, NEW W, NEW N, NEW n, Roomy(g, W, N, n), NEW k \in W, NEW s, Placed(g, k, s)
    PROVE  Roomy(s, W, N, n) /\ UsedKeys(s) = UsedKeys(g)
<1>1. /\ Sound(s) /\ ~s.nested /\ Len(s.node) = N /\ Len(s.array) = n
      /\ UsedKeys(s) = UsedKeys(g) /\ Len(g.node) = N
  BY DEF Roomy, Placed
<1>2. ASSUME NEW p \in 1 .. N PROVE ~s.node[p].dead /\ s.node[p].key \in W \cup {Nil}
  <2>1. \/ s.node[p].key \in {k, Nil} /\ ~s.node[p].dead
        \/ \E q \in 1 .. N : s.node[p].key = g.node[q].key /\ s.node[p].dead = g.node[q].dead
    BY <1>1 DEF Placed
  <2>2. \A q \in 1 .. N : ~g.node[q].dead /\ g.node[q].key \in W \cup {Nil}
    BY DEF Roomy
  <2> QED BY <2>1, <2>2
<1> QED BY <1>1, <1>2 DEF Roomy

LEMMA ReinsertIs ==
    ASSUME NEW g, NEW W, NEW N, NEW n, Roomy(g, W, N, n), hash \in [Keys -> Nat], NEW e, Fits(e, W, n)
    PROVE  /\ Roomy(Reinsert(g, e), W, N, n)
           /\ \A x : x \in UsedKeys(Reinsert(g, e)) <=> x \in UsedKeys(g) \/ (x = e.key /\ e.val # Nil)
<1>1. CASE e.val = Nil
  BY <1>1 DEF Reinsert
<1>2. CASE e.val # Nil
  <2> DEFINE k == e.key
             s == Ensure(g, k)
  <2>1. k \in Keys /\ e.val = k /\ k # Nil /\ k \in W \cup 1 .. n
    BY <1>2 DEF Fits
  <2>2. Reinsert(g, e) = Put(s, k, k)
    BY <1>2, <2>1 DEF Reinsert
  <2> HIDE DEF k
  <2>3. Roomy(s, W, N, n) /\ UsedKeys(s) = UsedKeys(g) /\ Has(s, k)
    <3>1. CASE Has(g, k)
      BY <3>1 DEF Ensure
    <3>2. CASE ~Has(g, k)
      <4>1. ~InArray(g, k) /\ Len(g.array) = n
        BY <3>2 DEF Has, Roomy
      <4>2. k \in W
        BY <2>1, <4>1 DEF InArray
      <4>3. CanPlace(g, k)
        BY <3>2, <4>2, Room
      <4>4. Sound(g)
        BY DEF Roomy
      <4>5. s = Place(g, k)
        BY <3>2, <4>3 DEF Ensure
      <4> HIDE DEF s
      <4>6. Placed(g, k, s)
        BY <2>1, <3>2, <4>3, <4>4, <4>5, PlaceSound
      <4>7. Roomy(s, W, N, n) /\ UsedKeys(s) = UsedKeys(g)
        BY <4>2, <4>6, PlacedRoomy
      <4>8. Sound(s) /\ Len(s.node) = Len(g.node) /\ \E p \in 1 .. Len(g.node) : s.node[p].key = k /\ ~s.node[p].dead
        BY <4>6 DEF Placed
      <4>9. Has(s, k)
        BY <2>1, <4>8, HasIs
      <4> QED BY <4>7, <4>9
    <3> QED BY <3>1, <3>2
  <2> HIDE DEF s
  <2> DEFINE r == Put(s, k, k)
  <2>4. Sound(s)
    BY <2>3 DEF Roomy
  <2> HIDE DEF r
  <2>5. /\ Sound(r) /\ Unmoved(s, r)
        /\ UsedKeys(r) = IF k = Nil THEN UsedKeys(s) \ {k} ELSE UsedKeys(s) \cup {k}
        /\ \A p \in 1 .. Len(s.node) : r.node[p].dead = s.node[p].dead
        /\ \A x : FindIndex(r, x) = FindIndex(s, x)
    BY <2>1, <2>3, <2>4, PutSound DEF r
  <2>6. Roomy(r, W, N, n)
    BY <2>3, <2>5 DEF Roomy, Unmoved
  <2>7. \A x : x \in UsedKeys(r) <=> x \in UsedKeys(g) \/ x = k
    BY <2>1, <2>3, <2>5
  <2>8. Reinsert(g, e) = r
    BY <2>2 DEF r
  <2> QED BY <1>2, <2>6, <2>7, <2>8 DEF k
<1> QED BY <1>1, <1>2

LEMMA RefillIs ==
    ASSUME NEW h, NEW n \in Nat, NEW entries
    PROVE  \E f : /\ f[0] = h /\ (\A i \in 1 .. n : f[i] = Reinsert(f[i - 1], entries[i]))
                  /\ Refill(h, n, entries) = f[n]
<1> DEFINE Step(f, i) == IF i = 0 THEN h ELSE Reinsert(f[i - 1], entries[i])
           Rec(f, N) == f = [i \in 0 .. N |-> Step(f, i)]
           S == {N \in Nat : \E f : Rec(f, N)}
           filled == CHOOSE f : Rec(f, n)
<1>1. Refill(h, n, entries) = filled[n]
  BY Zenon DEF Refill
<1>2. 0 \in S
  <2> DEFINE f == [i \in 0 .. 0 |-> h]
  <2>1. Rec(f, 0)
    OBVIOUS
  <2> QED BY <2>1
<1>3. ASSUME NEW N \in Nat, N \in S PROVE N + 1 \in S
  <2>1. PICK f : Rec(f, N)
    BY <1>3
  <2> DEFINE g == [i \in 0 .. N + 1 |-> IF i = N + 1 THEN Step(f, i) ELSE f[i]]
  <2>2. \A i \in 0 .. N + 1 : i # 0 => g[i - 1] = f[i - 1]
    OBVIOUS
  <2>3. \A i \in 0 .. N + 1 : Step(g, i) = Step(f, i)
    BY <2>2
  <2>4. \A i \in 0 .. N : f[i] = Step(f, i)
    <3> HIDE DEF Step
    <3> QED BY <2>1
  <2>5. \A i \in 0 .. N + 1 : g[i] = Step(g, i)
    <3>1. SUFFICES ASSUME NEW i \in 0 .. N + 1 PROVE g[i] = Step(f, i)
      BY <2>3
    <3> HIDE DEF Step
    <3> QED BY <2>4
  <2>6. Rec(g, N + 1)
    <3>1. g = [i \in 0 .. N + 1 |-> g[i]]
      OBVIOUS
    <3> HIDE DEF g, Step
    <3> QED BY <2>5, <3>1
  <2>7. \E e : Rec(e, N + 1)
    <3> HIDE DEF g, Rec
    <3> QED BY <2>6
  <2> HIDE DEF Rec
  <2> QED BY <2>7
<1> HIDE DEF Rec
<1>4. n \in S
  <2> HIDE DEF S
  <2> QED BY <1>2, <1>3, Induction
<1>5. Rec(filled, n)
  BY <1>4
<1> HIDE DEF filled
<1>6. \A i \in 0 .. n : filled[i] = Step(filled, i)
  <2> HIDE DEF Step
  <2> QED BY <1>5 DEF Rec
<1>7. filled[0] = h /\ \A i \in 1 .. n : filled[i] = Reinsert(filled[i - 1], entries[i])
  BY <1>6
<1> QED BY <1>1, <1>7

LEMMA RefillSound ==
    ASSUME NEW h, NEW W, NEW N, NEW s, Roomy(h, W, N, s), hash \in [Keys -> Nat],
           NEW n \in Nat, NEW entries, \A i \in 1 .. n : Fits(entries[i], W, s)
    PROVE  /\ Roomy(Refill(h, n, entries), W, N, s)
           /\ \A x : x \in UsedKeys(Refill(h, n, entries)) <=>
                 \/ x \in UsedKeys(h)
                 \/ \E i \in 1 .. n : x = entries[i].key /\ entries[i].val # Nil
<1>1. PICK f : /\ f[0] = h /\ (\A i \in 1 .. n : f[i] = Reinsert(f[i - 1], entries[i]))
               /\ Refill(h, n, entries) = f[n]
  BY RefillIs
<1> DEFINE Done(i) == /\ Roomy(f[i], W, N, s)
                      /\ \A x : x \in UsedKeys(f[i]) <=>
                            \/ x \in UsedKeys(h)
                            \/ \E j \in 1 .. i : x = entries[j].key /\ entries[j].val # Nil
           S == {i \in Nat : i <= n => Done(i)}
<1>2. 0 \in S
  BY <1>1
<1>3. ASSUME NEW i \in Nat, i \in S PROVE i + 1 \in S
  <2>1. SUFFICES ASSUME i + 1 <= n PROVE Done(i + 1)
    OBVIOUS
  <2>2. Done(i)
    BY <1>3, <2>1
  <2>3. i + 1 \in 1 .. n /\ i + 1 - 1 = i
    BY <2>1
  <2>4. f[i + 1] = Reinsert(f[i], entries[i + 1]) /\ Fits(entries[i + 1], W, s)
    BY <1>1, <2>3
  <2> DEFINE e == entries[i + 1]
             g == f[i]
  <2>5. Roomy(g, W, N, s) /\ Fits(e, W, s)
    BY <2>2, <2>4
  <2>6. /\ Roomy(Reinsert(g, e), W, N, s)
        /\ \A x : x \in UsedKeys(Reinsert(g, e)) <=> x \in UsedKeys(g) \/ (x = e.key /\ e.val # Nil)
    <3> HIDE DEF e, g
    <3> QED BY <2>5, ReinsertIs
  <2>7. ASSUME NEW x
        PROVE  x \in UsedKeys(f[i + 1]) <=>
                  \/ x \in UsedKeys(h)
                  \/ \E j \in 1 .. i + 1 : x = entries[j].key /\ entries[j].val # Nil
    <3>1. x \in UsedKeys(f[i + 1]) <=> x \in UsedKeys(f[i]) \/ (x = entries[i + 1].key /\ entries[i + 1].val # Nil)
      BY <2>4, <2>6
    <3>2. x \in UsedKeys(f[i]) <=> x \in UsedKeys(h) \/ \E j \in 1 .. i : x = entries[j].key /\ entries[j].val # Nil
      BY <2>2
    <3>3. \A j \in 1 .. i + 1 : j \in 1 .. i \/ j = i + 1
      OBVIOUS
    <3>4. 1 .. i \subseteq 1 .. i + 1 /\ i + 1 \in 1 .. i + 1
      OBVIOUS
    <3> QED BY <3>1, <3>2, <3>3, <3>4
  <2> QED BY <2>4, <2>6, <2>7
<1>4. n \in S
  <2> HIDE DEF S
  <2> QED BY <1>2, <1>3, Induction
<1>5. Done(n)
  BY <1>4
<1> QED BY <1>1, <1>5

LEMMA NewTableSound ==
    ASSUME NEW array \in Seq(Keys \cup {Nil}), \A i \in 1 .. Len(array) : array[i] \in {i, Nil},
           NEW n \in Nat, NEW h, h = NewTable(array, n)
    PROVE  /\ Sound(h) /\ ~h.nested /\ Len(h.node) = Ceil2(n) /\ h.array = array
           /\ \A p \in 1 .. Ceil2(n) : h.node[p] = FreeNode
           /\ \A x : x \in UsedKeys(h) <=> x \in 1 .. Len(array) /\ array[x] # Nil
<1> DEFINE N == Ceil2(n)
           nodes == [i \in 1 .. N |-> FreeNode]
<1>1. N \in Nat /\ N \in Powers(N) \cup {0}
  BY Ceil2Is
<1>2. /\ h.array = array /\ h.node = nodes /\ h.lastfree = N /\ h.nested = FALSE
      /\ h = [array |-> array, node |-> nodes, lastfree |-> N, nested |-> FALSE]
  BY DEF NewTable
<1> HIDE DEF N
<1>3. FreeNode \in Nodes /\ FreeNode.key = Nil /\ FreeNode.dead = FALSE /\ FreeNode.val = Nil /\ FreeNode.next = 0
  BY DEF FreeNode, Nodes
<1>4. nodes \in Seq(Nodes) /\ Len(nodes) = N /\ \A p \in 1 .. N : nodes[p] = FreeNode
  BY <1>1, <1>3
<1> HIDE DEF nodes
<1>5. h \in Tables
  BY <1>1, <1>2, <1>4 DEF Tables
<1>6. Shaped(h)
  BY <1>1, <1>2, <1>3, <1>4, <1>5 DEF Shaped
<1>7. Unused(h)
  BY <1>1, <1>2, <1>3, <1>4 DEF Unused
<1>8. DOMAIN Nexts(h) = 1 .. N /\ \A p \in 1 .. N : Nexts(h)[p] = 0
  BY <1>2, <1>3, <1>4 DEF Nexts
<1>9. Ending(Nexts(h))
  <2>1. SUFFICES ASSUME NEW S \in SUBSET (1 .. N), S # {} PROVE \E q \in S : Nexts(h)[q] \notin S
    BY <1>8 DEF Ending
  <2>2. PICK q \in S : TRUE
    BY <2>1
  <2>3. Nexts(h)[q] = 0 /\ 0 \notin S
    BY <1>8
  <2> QED BY <2>3
<1>10. Single(Nexts(h))
  BY <1>8 DEF Single
<1>11. Sound(h)
  BY <1>2, <1>3, <1>4, <1>6, <1>7, <1>9, <1>10 DEF Sound
<1>12. ASSUME NEW x PROVE x \in UsedKeys(h) <=> x \in 1 .. Len(array) /\ array[x] # Nil
  BY <1>2, <1>3, <1>4, <1>6, UsedKeysAre
<1> QED BY <1>2, <1>4, <1>11, <1>12 DEF N

LEMMA ResizedArrayIs ==
    ASSUME NEW h, Shaped(h), NEW n \in Nat, NEW array, array = ResizedArray(h, n)
    PROVE  /\ array \in Seq(Keys \cup {Nil}) /\ Len(array) = n
           /\ \A i \in 1 .. n : array[i] = IF i <= Len(h.array) THEN h.array[i] ELSE Nil
           /\ \A i \in 1 .. n : array[i] \in {i, Nil}
<1>1. Len(h.array) \in Nat /\ \A i \in 1 .. Len(h.array) : h.array[i] \in {i, Nil} /\ h.array[i] \in Keys \cup {Nil}
  BY ShapedFacts
<1>2. \A i \in 1 .. n : array[i] = IF i <= Len(h.array) THEN h.array[i] ELSE Nil
  BY DEF ResizedArray
<1>3. \A i \in 1 .. n : array[i] \in {i, Nil} /\ array[i] \in Keys \cup {Nil}
  BY <1>1, <1>2
<1>4. DOMAIN array = 1 .. n /\ array = [i \in 1 .. n |-> array[i]]
  BY DEF ResizedArray
<1>5. array \in Seq(Keys \cup {Nil}) /\ Len(array) = n
  BY <1>3, <1>4
<1> QED BY <1>2, <1>3, <1>5

(* What a table of another size has room for. *)
LEMMA ResizeSound ==
    ASSUME NEW h, Sound(h), hash \in [Keys -> Nat], NEW n \in Nat, NEW nhsize \in Nat,
           NEW W, W \subseteq Keys, IsFiniteSet(W), Cardinality(W) <= Ceil2(nhsize),
           UsedKeys(h) \subseteq W \cup 1 .. n
    PROVE  Roomy(Resize(h, n, nhsize), W, Ceil2(nhsize), n) /\ UsedKeys(Resize(h, n, nhsize)) = UsedKeys(h)
<1> DEFINE size == Len(h.array)
           nodes == Len(h.node)
           N == Ceil2(nhsize)
           array == ResizedArray(h, n)
           g == NewTable(array, nhsize)
           slice(i) == [key |-> i, val |-> IF i > n THEN h.array[i] ELSE Nil]
           entries == [i \in 1 .. size + nodes |-> IF i <= size THEN slice(i) ELSE h.node[size + nodes + 1 - i]]
           r == Refill(g, size + nodes, entries)
<1>1. Resize(h, n, nhsize) = r
  BY DEF Resize
<1>2. /\ Shaped(h) /\ size \in Nat /\ nodes \in Nat
      /\ \A i \in 1 .. size : h.array[i] \in {i, Nil}
      /\ \A p \in 1 .. nodes : h.node[p].val \in {h.node[p].key, Nil} /\ h.node[p].key \in Keys \cup {Nil}
  <2>1. Shaped(h)
    BY SoundFacts
  <2> QED BY <2>1, ShapedFacts
<1>3. /\ array \in Seq(Keys \cup {Nil}) /\ Len(array) = n
      /\ \A i \in 1 .. n : array[i] = IF i <= size THEN h.array[i] ELSE Nil
      /\ \A i \in 1 .. n : array[i] \in {i, Nil}
  BY <1>2, ResizedArrayIs
<1> HIDE DEF array
<1>4. /\ Sound(g) /\ ~g.nested /\ Len(g.node) = N /\ g.array = array
      /\ \A p \in 1 .. N : g.node[p] = FreeNode
      /\ \A x : x \in UsedKeys(g) <=> x \in 1 .. n /\ array[x] # Nil
  BY <1>3, NewTableSound
<1> HIDE DEF g, N
<1>5. Roomy(g, W, N, n)
  BY <1>3, <1>4 DEF Roomy, FreeNode, N
<1>6. \A x : x \in UsedKeys(h) <=>
        \/ x \in 1 .. size /\ h.array[x] # Nil
        \/ \E p \in 1 .. nodes : h.node[p].key = x /\ h.node[p].val # Nil
  BY <1>2, UsedKeysAre
<1>7. \A x \in UsedKeys(h) : x \in Keys
  BY <1>2, UsedKeysAre
<1> HIDE DEF size, nodes
<1>8. size + nodes \in Nat
  BY <1>2
<1>9. \A i \in 1 .. size : entries[i].key = i /\ entries[i].val = IF i > n THEN h.array[i] ELSE Nil
  BY <1>2
<1>10. ASSUME NEW i \in 1 .. size + nodes, i > size
       PROVE  entries[i] = h.node[size + nodes + 1 - i] /\ size + nodes + 1 - i \in 1 .. nodes
  <2>1. ~(i <= size) /\ i \in Nat
    BY <1>2, <1>10
  <2>2. entries[i] = h.node[size + nodes + 1 - i]
    BY <2>1
  <2>3. size + nodes + 1 - i \in 1 .. nodes
    BY <1>2, <1>10
  <2> QED BY <2>2, <2>3
<1> HIDE DEF entries, r
<1>11. ASSUME NEW i \in 1 .. size + nodes
       PROVE  entries[i].val \in {entries[i].key, Nil} /\ (entries[i].val # Nil => entries[i].key \in UsedKeys(h))
  <2>1. CASE i <= size
    <3>1. i \in 1 .. size
      BY <1>2, <2>1
    <3> QED BY <1>2, <1>6, <1>9, <3>1
  <2>2. CASE i > size
    <3> DEFINE p == size + nodes + 1 - i
    <3>1. entries[i] = h.node[p] /\ p \in 1 .. nodes
      BY <1>10, <2>2
    <3> HIDE DEF p
    <3> QED BY <1>2, <1>6, <3>1
  <2> QED BY <1>2, <2>1, <2>2
<1>12. \A i \in 1 .. size + nodes : Fits(entries[i], W, n)
  BY <1>7, <1>11 DEF Fits
<1>13. /\ Roomy(r, W, N, n)
       /\ \A x : x \in UsedKeys(r) <=>
             \/ x \in UsedKeys(g)
             \/ \E i \in 1 .. size + nodes : x = entries[i].key /\ entries[i].val # Nil
  <2> DEFINE m == size + nodes
  <2>1. m \in Nat /\ \A i \in 1 .. m : Fits(entries[i], W, n)
    BY <1>8, <1>12
  <2>2. r = Refill(g, m, entries)
    BY DEF r
  <2> HIDE DEF m
  <2>3. /\ Roomy(Refill(g, m, entries), W, N, n)
        /\ \A x : x \in UsedKeys(Refill(g, m, entries)) <=>
             \/ x \in UsedKeys(g)
             \/ \E i \in 1 .. m : x = entries[i].key /\ entries[i].val # Nil
    BY <1>5, <2>1, RefillSound
  <2> QED BY <2>2, <2>3 DEF m
<1>14. ASSUME NEW x, x \in UsedKeys(r) PROVE x \in UsedKeys(h)
  <2>1. CASE x \in UsedKeys(g)
    <3>1. x \in 1 .. n /\ array[x] # Nil
      BY <1>4, <2>1
    <3>2. x <= size /\ h.array[x] # Nil
      BY <1>3, <3>1
    <3>3. x \in 1 .. size
      BY <1>2, <3>1, <3>2
    <3> QED BY <1>6, <3>2, <3>3
  <2>2. CASE \E i \in 1 .. size + nodes : x = entries[i].key /\ entries[i].val # Nil
    BY <1>11, <2>2
  <2> QED BY <1>13, <1>14, <2>1, <2>2
<1>15. ASSUME NEW x, x \in UsedKeys(h) PROVE x \in UsedKeys(r)
  <2>1. CASE x \in 1 .. size /\ h.array[x] # Nil
    <3>1. CASE x > n
      <4>1. x \in 1 .. size + nodes /\ x = entries[x].key /\ entries[x].val # Nil
        BY <1>2, <1>9, <2>1, <3>1
      <4> QED BY <1>13, <4>1
    <3>2. CASE x <= n
      <4>1. x \in 1 .. n /\ array[x] = h.array[x]
        BY <1>2, <1>3, <2>1, <3>2
      <4> QED BY <1>4, <1>13, <2>1, <4>1
    <3> QED BY <1>2, <2>1, <3>1, <3>2
  <2>2. CASE \E p \in 1 .. nodes : h.node[p].key = x /\ h.node[p].val # Nil
    <3>1. PICK p \in 1 .. nodes : h.node[p].key = x /\ h.node[p].val # Nil
      BY <2>2
    <3> DEFINE i == size + nodes + 1 - p
    <3>2. i \in 1 .. size + nodes /\ i > size /\ size + nodes + 1 - i = p
      BY <1>2
    <3> HIDE DEF i
    <3>3. entries[i] = h.node[p]
      BY <1>10, <3>2
    <3> QED BY <1>13, <3>1, <3>2, <3>3
  <2> QED BY <1>6, <1>15, <2>1, <2>2
<1>16. UsedKeys(r) = UsedKeys(h)
  BY <1>14, <1>15
<1> QED BY <1>1, <1>13, <1>16 DEF N

LEMMA UsedKeysFinite ==
    ASSUME NEW h, Shaped(h)
    PROVE  /\ IsFiniteSet(UsedKeys(h)) /\ UsedKeys(h) \subseteq Keys
           /\ \A n \in Nat : n >= Len(h.array) =>
                 IsFiniteSet(UsedKeys(h) \ 1 .. n) /\ Cardinality(UsedKeys(h) \ 1 .. n) <= Len(h.node)
<1> DEFINE A == {i \in 1 .. Len(h.array) : h.array[i] # Nil}
           V == {p \in 1 .. Len(h.node) : h.node[p].val # Nil}
           B == {h.node[p].key : p \in V}
           f == [p \in V |-> h.node[p].key]
<1>1. Len(h.array) \in Nat /\ Len(h.node) \in Nat
  BY ShapedFacts
<1>2. UsedKeys(h) = A \cup B
  <2>1. \A x : x \in UsedKeys(h) <=>
        \/ x \in 1 .. Len(h.array) /\ h.array[x] # Nil
        \/ \E p \in 1 .. Len(h.node) : h.node[p].key = x /\ h.node[p].val # Nil
    BY UsedKeysAre
  <2>2. \A x : x \in B <=> \E p \in 1 .. Len(h.node) : h.node[p].key = x /\ h.node[p].val # Nil
    OBVIOUS
  <2>3. \A x : x \in A <=> x \in 1 .. Len(h.array) /\ h.array[x] # Nil
    OBVIOUS
  <2> HIDE DEF A, B
  <2> QED BY <2>1, <2>2, <2>3
<1>3. IsFiniteSet(A)
  <2>0. IsFiniteSet(1 .. Len(h.array))
    BY <1>1, FS_Interval
  <2>1. IsFiniteSet(1 .. Len(h.array)) /\ A \in SUBSET (1 .. Len(h.array))
    BY <2>0
  <2> HIDE DEF A
  <2> QED BY <2>1, FS_Subset
<1>4. IsFiniteSet(V) /\ Cardinality(V) <= Len(h.node)
  <2> DEFINE N == Len(h.node)
  <2>0. IsFiniteSet(1 .. N) /\ Cardinality(1 .. N) = N
    <3>1. N \in Nat
      BY <1>1
    <3> HIDE DEF N
    <3> QED BY <3>1, FS_Interval
  <2>1. IsFiniteSet(1 .. Len(h.node)) /\ V \in SUBSET (1 .. Len(h.node)) /\ Cardinality(1 .. Len(h.node)) = Len(h.node)
    BY <2>0
  <2> HIDE DEF V
  <2> QED BY <2>1, FS_Subset
<1>5. IsFiniteSet(B) /\ Cardinality(B) <= Len(h.node)
  <2>1. f \in Surjection(V, B)
    BY DEF Surjection
  <2>2. IsFiniteSet(B) /\ Cardinality(B) <= Cardinality(V)
    <3> HIDE DEF f, V, B
    <3> QED BY <1>4, <2>1, FS_Surjection
  <2>3. Cardinality(B) \in Nat /\ Cardinality(V) \in Nat
    <3> HIDE DEF V, B
    <3> QED BY <1>4, <2>2, FS_CardinalityType
  <2> HIDE DEF V, B
  <2> QED BY <1>1, <1>4, <2>2, <2>3
<1>6. IsFiniteSet(UsedKeys(h))
  <2> HIDE DEF A, B
  <2> QED BY <1>2, <1>3, <1>5, FS_Union
<1>7. UsedKeys(h) \subseteq Keys
  BY UsedKeysAre
<1>8. ASSUME NEW n \in Nat, n >= Len(h.array)
      PROVE  IsFiniteSet(UsedKeys(h) \ 1 .. n) /\ Cardinality(UsedKeys(h) \ 1 .. n) <= Len(h.node)
  <2> DEFINE R == UsedKeys(h) \ 1 .. n
  <2>1. A \subseteq 1 .. n
    BY <1>1, <1>8
  <2> HIDE DEF A, B
  <2>2. R \in SUBSET B
    BY <1>2, <2>1
  <2> HIDE DEF R
  <2>3. IsFiniteSet(R) /\ Cardinality(R) <= Cardinality(B)
    BY <1>5, <2>2, FS_Subset
  <2>4. Cardinality(R) \in Nat /\ Cardinality(B) \in Nat
    BY <1>5, <2>3, FS_CardinalityType
  <2>5. Cardinality(R) <= Len(h.node)
    BY <1>1, <1>5, <2>3, <2>4
  <2> QED BY <2>3, <2>5 DEF R
<1> QED BY <1>6, <1>7, <1>8

LEMMA RehashSound ==
    ASSUME NEW h, Sound(h), hash \in [Keys -> Nat], NEW k \in Keys
    PROVE  /\ Sound(Rehash(h, k)) /\ ~Rehash(h, k).nested
           /\ UsedKeys(Rehash(h, k)) = UsedKeys(h)
           /\ Has(Rehash(h, k), k) \/ CanPlace(Rehash(h, k), k)
<1> DEFINE keys == UsedKeys(h) \cup {k}
           n == ArraySize(keys \cap Ints)
           W == keys \ 1 .. n
           nhsize == Cardinality(W)
           r == Rehash(h, k)
<1>1. IsFiniteSet(UsedKeys(h)) /\ UsedKeys(h) \subseteq Keys
  BY SoundFacts, UsedKeysFinite
<1>2. n \in Nat
  BY KeyFacts, ArraySizeIs
<1>3. r = Resize(h, n, nhsize)
  BY DEF Rehash
<1>4. IsFiniteSet(keys) /\ keys \subseteq Keys
  BY <1>1, FS_AddElement
<1> HIDE DEF keys, n
<1>5. IsFiniteSet(W) /\ W \subseteq Keys /\ nhsize \in Nat
  <2>1. IsFiniteSet(W)
    BY <1>4, FS_Difference
  <2> QED BY <1>4, <2>1, FS_CardinalityType
<1>6. Cardinality(W) <= Ceil2(nhsize)
  <2>1. Ceil2(nhsize) \in Nat /\ Ceil2(nhsize) >= nhsize
    <3> HIDE DEF nhsize
    <3> QED BY <1>5, Ceil2Is
  <2> QED BY <1>5, <2>1
<1>7. UsedKeys(h) \subseteq W \cup 1 .. n
  BY DEF keys
<1> HIDE DEF W, nhsize, r
<1>8. Roomy(r, W, Ceil2(nhsize), n) /\ UsedKeys(r) = UsedKeys(h)
  BY <1>2, <1>3, <1>5, <1>6, <1>7, ResizeSound
<1>9. ASSUME ~Has(r, k) PROVE CanPlace(r, k)
  <2>1. ~InArray(r, k) /\ Len(r.array) = n
    BY <1>8, <1>9 DEF Has, Roomy
  <2>2. k \in W
    BY <2>1 DEF InArray, W, keys
  <2> QED BY <1>8, <1>9, <2>2, Room
<1>10. Sound(r) /\ ~r.nested
  BY <1>8 DEF Roomy
<1> QED BY <1>8, <1>9, <1>10 DEF r

(* Storing. *)
LEMMA SetKeyIs ==
    ASSUME NEW h, Sound(h), ~h.nested, hash \in [Keys -> Nat], NEW k \in Keys
    PROVE  /\ Sound(SetKey(h, k)) /\ ~SetKey(h, k).nested /\ Has(SetKey(h, k), k)
           /\ UsedKeys(SetKey(h, k)) = UsedKeys(h)
           /\ Has(h, k) => SetKey(h, k) = h
<1> DEFINE g == IF MustRehash(h, k) THEN Rehash(h, k) ELSE h
           s == Ensure(g, k)
<1>1. SetKey(h, k) = s
  BY DEF SetKey
<1>2. Sound(g) /\ ~g.nested /\ UsedKeys(g) = UsedKeys(h) /\ (Has(g, k) \/ CanPlace(g, k))
  <2>1. CASE MustRehash(h, k)
    BY <2>1, RehashSound
  <2>2. CASE ~MustRehash(h, k)
    BY <2>2 DEF MustRehash
  <2> QED BY <2>1, <2>2
<1>3. Has(h, k) => g = h
  BY DEF MustRehash
<1> HIDE DEF g
<1>4. CASE Has(g, k)
  BY <1>1, <1>2, <1>3, <1>4 DEF Ensure
<1>5. CASE ~Has(g, k)
  <2>1. s = Place(g, k)
    BY <1>2, <1>5 DEF Ensure
  <2> HIDE DEF s
  <2>2. Placed(g, k, s)
    BY <1>2, <1>5, <2>1, PlaceSound
  <2>3. Sound(s) /\ ~s.nested /\ UsedKeys(s) = UsedKeys(g) /\ Len(s.node) = Len(g.node)
        /\ \E p \in 1 .. Len(g.node) : s.node[p].key = k /\ ~s.node[p].dead
    BY <1>2, <2>2 DEF Placed
  <2>4. Has(s, k)
    BY <2>3, HasIs
  <2> QED BY <1>1, <1>2, <1>3, <1>5, <2>3, <2>4
<1> QED BY <1>4, <1>5

LEMMA StoreIs ==
    ASSUME NEW h, Sound(h), ~h.nested, hash \in [Keys -> Nat], NEW k \in Keys, NEW v \in {k, Nil},
           NEW g, g = Store(h, k, v)
    PROVE  /\ Sound(g) /\ ~g.nested
           /\ UsedKeys(g) = IF v = Nil THEN UsedKeys(h) \ {k} ELSE UsedKeys(h) \cup {k}
           /\ Has(h, k) => Len(g.array) = Len(h.array) /\ \A x : FindIndex(g, x) = FindIndex(h, x)
<1> DEFINE s == SetKey(h, k)
<1>1. Sound(s) /\ ~s.nested /\ Has(s, k) /\ UsedKeys(s) = UsedKeys(h) /\ (Has(h, k) => s = h)
  BY SetKeyIs
<1>2. g = Put(s, k, v)
  BY DEF Store
<1> HIDE DEF s
<1>3. /\ Sound(g) /\ Unmoved(s, g)
      /\ UsedKeys(g) = IF v = Nil THEN UsedKeys(s) \ {k} ELSE UsedKeys(s) \cup {k}
      /\ \A p \in 1 .. Len(s.node) : g.node[p].dead = s.node[p].dead
      /\ \A x : FindIndex(g, x) = FindIndex(s, x)
  BY <1>1, <1>2, PutSound
<1>4. ~g.nested /\ Len(g.array) = Len(s.array)
  BY <1>1, <1>3 DEF Unmoved
<1> QED BY <1>1, <1>3, <1>4

(* The list of a constructor, for which the array has been made large      *)
(* enough.                                                                 *)
Stored(h, n, list) ==
    LET stored[i \in 0 .. n] == IF i = 0 THEN h ELSE Store(stored[i - 1], n + 1 - i, list[n + 1 - i]) IN stored[n]

Storing(f, h, n, list) ==
    f[0] = h /\ \A i \in 1 .. n : f[i] = Store(f[i - 1], n + 1 - i, list[n + 1 - i])

LEMMA StoredIs ==
    ASSUME NEW h, NEW n \in Nat, NEW list
    PROVE  \E f : Storing(f, h, n, list) /\ Stored(h, n, list) = f[n]
<1> DEFINE Step(f, i) == IF i = 0 THEN h ELSE Store(f[i - 1], n + 1 - i, list[n + 1 - i])
           Rec(f, N) == f = [i \in 0 .. N |-> Step(f, i)]
           S == {N \in Nat : \E f : Rec(f, N)}
           stored == CHOOSE f : Rec(f, n)
<1>1. Stored(h, n, list) = stored[n]
  BY Zenon DEF Stored
<1>2. 0 \in S
  <2> DEFINE f == [i \in 0 .. 0 |-> h]
  <2>1. Rec(f, 0)
    OBVIOUS
  <2> QED BY <2>1
<1>3. ASSUME NEW N \in Nat, N \in S PROVE N + 1 \in S
  <2>1. PICK f : Rec(f, N)
    BY <1>3
  <2> DEFINE g == [i \in 0 .. N + 1 |-> IF i = N + 1 THEN Step(f, i) ELSE f[i]]
  <2>2. \A i \in 0 .. N + 1 : i # 0 => g[i - 1] = f[i - 1]
    OBVIOUS
  <2>3. \A i \in 0 .. N + 1 : Step(g, i) = Step(f, i)
    BY <2>2
  <2>4. \A i \in 0 .. N : f[i] = Step(f, i)
    <3> HIDE DEF Step
    <3> QED BY <2>1
  <2>5. \A i \in 0 .. N + 1 : g[i] = Step(g, i)
    <3>1. SUFFICES ASSUME NEW i \in 0 .. N + 1 PROVE g[i] = Step(f, i)
      BY <2>3
    <3> HIDE DEF Step
    <3> QED BY <2>4
  <2>6. Rec(g, N + 1)
    <3>1. g = [i \in 0 .. N + 1 |-> g[i]]
      OBVIOUS
    <3> HIDE DEF g, Step
    <3> QED BY <2>5, <3>1
  <2>7. \E e : Rec(e, N + 1)
    <3> HIDE DEF g, Rec
    <3> QED BY <2>6
  <2> HIDE DEF Rec
  <2> QED BY <2>7
<1> HIDE DEF Rec
<1>4. n \in S
  <2> HIDE DEF S
  <2> QED BY <1>2, <1>3, Induction
<1>5. Rec(stored, n)
  BY <1>4
<1> HIDE DEF stored
<1>6. \A i \in 0 .. n : stored[i] = Step(stored, i)
  <2> HIDE DEF Step
  <2> QED BY <1>5 DEF Rec
<1>7. stored[0] = h /\ \A i \in 1 .. n : stored[i] = Store(stored[i - 1], n + 1 - i, list[n + 1 - i])
  BY <1>6
<1> QED BY <1>1, <1>7 DEF Storing

LEMMA StoredSound ==
    ASSUME NEW h, Sound(h), ~h.nested, hash \in [Keys -> Nat], NEW n \in Nat, n <= Len(h.array), n <= MaxInt,
           NEW list, \A i \in 1 .. n : list[i] \in {i, Nil}
    PROVE  /\ Sound(Stored(h, n, list)) /\ ~Stored(h, n, list).nested
           /\ \A x : x \notin 1 .. n => (x \in UsedKeys(Stored(h, n, list)) <=> x \in UsedKeys(h))
           /\ \A x \in 1 .. n : x \in UsedKeys(Stored(h, n, list)) <=> list[x] # Nil
<1>0. PICK f : Storing(f, h, n, list) /\ Stored(h, n, list) = f[n]
  BY StoredIs
<1>1. /\ f[0] = h /\ \A i \in 1 .. n : f[i] = Store(f[i - 1], n + 1 - i, list[n + 1 - i])
      /\ Stored(h, n, list) = f[n]
  BY <1>0 DEF Storing
<1> DEFINE Done(g, i) == /\ Sound(g) /\ ~g.nested /\ Len(g.array) = Len(h.array)
                         /\ \A x : x \notin 1 .. n => (x \in UsedKeys(g) <=> x \in UsedKeys(h))
                         /\ \A x \in n + 1 - i .. n : x \in UsedKeys(g) <=> list[x] # Nil
           S == {i \in Nat : i <= n => Done(f[i], i)}
<1>2. 0 \in S
  BY <1>1
<1>3. ASSUME NEW i \in Nat, i \in S PROVE i + 1 \in S
  <2>1. SUFFICES ASSUME i + 1 <= n PROVE Done(f[i + 1], i + 1)
    OBVIOUS
  <2> DEFINE g == f[i]
             k == n - i
             r == f[i + 1]
  <2>2. Done(g, i)
    BY <1>3, <2>1
  <2>3. i + 1 \in 1 .. n /\ i + 1 - 1 = i /\ n + 1 - (i + 1) = k /\ k \in 1 .. n
    BY <2>1
  <2>4. r = Store(g, k, list[k]) /\ list[k] \in {k, Nil}
    <3>1. f[i + 1] = Store(f[i + 1 - 1], n + 1 - (i + 1), list[n + 1 - (i + 1)])
      BY <1>1, <2>3
    <3> QED BY <2>3, <3>1
  <2>5. k \in Keys /\ Len(h.array) \in Nat
    <3>1. Len(h.array) \in Nat
      BY SoundFacts, ShapedFacts
    <3>2. k \in Ints
      BY <2>3, KeyFacts DEF Ints
    <3> QED BY <3>1, <3>2 DEF Keys
  <2> HIDE DEF g, k, r
  <2>6. Has(g, k)
    <3>1. k \in 1 .. Len(g.array)
      BY <2>2, <2>3, <2>5
    <3> QED BY <3>1 DEF Has, InArray
  <2>7. Sound(g) /\ ~g.nested
    BY <2>2
  <2> DEFINE v == list[k]
  <2>8. v \in {k, Nil} /\ r = Store(g, k, v)
    BY <2>4
  <2> HIDE DEF v
  <2>9. /\ Sound(r) /\ ~r.nested
        /\ UsedKeys(r) = IF v = Nil THEN UsedKeys(g) \ {k} ELSE UsedKeys(g) \cup {k}
        /\ Has(g, k) => Len(r.array) = Len(g.array) /\ \A x : FindIndex(r, x) = FindIndex(g, x)
    BY <2>5, <2>7, <2>8, StoreIs
  <2>10. \A x : x \notin 1 .. n => (x \in UsedKeys(r) <=> x \in UsedKeys(g))
    BY <2>3, <2>9
  <2>11. \A x \in n + 1 - (i + 1) .. n : x = k \/ (x # k /\ x \in n + 1 - i .. n)
    BY <1>3 DEF k
  <2>12. k \in UsedKeys(r) <=> v # Nil
    BY <2>9
  <2>13. \A x \in n + 1 - (i + 1) .. n : x \in UsedKeys(r) <=> list[x] # Nil
    BY <2>2, <2>9, <2>11, <2>12 DEF v
  <2>14. Done(r, i + 1)
    BY <2>2, <2>6, <2>9, <2>10, <2>13
  <2> QED BY <2>14 DEF r
<1> HIDE DEF Done
<1>4. n \in S
  <2> HIDE DEF S
  <2> QED BY <1>2, <1>3, Induction
<1>5. Done(f[n], n)
  BY <1>4
<1>6. n + 1 - n = 1
  OBVIOUS
<1> QED BY <1>1, <1>5, <1>6 DEF Done

LEMMA SetListIs ==
    ASSUME NEW h, Sound(h), ~h.nested, hash \in [Keys -> Nat], NEW n \in 1 .. MaxInt,
           NEW list, \A i \in 1 .. n : list[i] \in {i, Nil},
           NEW g, g = IF n > Len(h.array) THEN Resize(h, n, Len(h.node)) ELSE h,
           NEW r, r = Stored(g, n, list)
    PROVE  /\ Sound(r) /\ ~r.nested /\ \A x : x \notin 1 .. n => (x \in UsedKeys(r) <=> x \in UsedKeys(h))
           /\ \A x \in 1 .. n : x \in UsedKeys(r) <=> list[x] # Nil
<1>1. MaxInt \in Nat /\ n \in Nat /\ n <= MaxInt
  BY KeyFacts
<1>2. Shaped(h) /\ Len(h.array) \in Nat /\ Len(h.node) \in Nat
  <2>1. Shaped(h)
    BY SoundFacts
  <2> QED BY <2>1, ShapedFacts
<1>3. Sound(g) /\ ~g.nested /\ n <= Len(g.array) /\ UsedKeys(g) = UsedKeys(h)
  <2>1. CASE n > Len(h.array)
    <3> DEFINE W == UsedKeys(h) \ 1 .. n
               N == Len(h.node)
    <3>1. W \subseteq Keys /\ IsFiniteSet(W) /\ Cardinality(W) <= N
      <4>1. n >= Len(h.array)
        BY <1>1, <1>2, <2>1
      <4> QED BY <1>1, <1>2, <4>1, UsedKeysFinite
    <3>2. UsedKeys(h) \subseteq W \cup 1 .. n
      OBVIOUS
    <3>3. N \in Nat
      BY <1>2
    <3>4. g = Resize(h, n, N)
      BY <2>1
    <3> HIDE DEF W, N
    <3>5. Ceil2(N) \in Nat /\ Ceil2(N) >= N
      BY <3>3, Ceil2Is
    <3>6. Cardinality(W) \in Nat
      BY <3>1, FS_CardinalityType
    <3>7. Cardinality(W) <= Ceil2(N)
      BY <3>1, <3>3, <3>5, <3>6
    <3>8. Roomy(g, W, Ceil2(N), n) /\ UsedKeys(g) = UsedKeys(h)
      BY <1>1, <3>1, <3>2, <3>3, <3>4, <3>7, ResizeSound
    <3> QED BY <1>1, <3>8 DEF Roomy
  <2>2. CASE ~(n > Len(h.array))
    BY <1>1, <1>2, <2>2
  <2> QED BY <2>1, <2>2
<1>4. /\ Sound(r) /\ ~r.nested /\ \A x : x \notin 1 .. n => (x \in UsedKeys(r) <=> x \in UsedKeys(g))
      /\ \A x \in 1 .. n : x \in UsedKeys(r) <=> list[x] # Nil
  BY <1>1, <1>3, StoredSound
<1> QED BY <1>3, <1>4

-----------------------------------------------------------------------------
(* Traversals. *)

LEMMA EntryIs ==
    ASSUME NEW h, Sound(h), hash \in [Keys -> Nat],
           NEW j \in 1 .. Len(h.array) + Len(h.node), Entry(h, j).val # Nil
    PROVE  /\ Entry(h, j).key \in Keys /\ Entry(h, j).key \in UsedKeys(h)
           /\ FindIndex(h, Entry(h, j).key) = {j}
<1> DEFINE size == Len(h.array)
           N == Len(h.node)
<1>1. /\ Shaped(h) /\ size \in Nat /\ N \in Nat
      /\ \A i \in 1 .. size : h.array[i] \in {i, Nil} /\ h.array[i] \in Keys \cup {Nil}
  <2>1. Shaped(h)
    BY SoundFacts
  <2> QED BY <2>1, ShapedFacts
<1>2. Nil \notin Keys
  BY KeyFacts
<1>3. \A x : x \in UsedKeys(h) <=>
        \/ x \in 1 .. size /\ h.array[x] # Nil
        \/ \E p \in 1 .. N : h.node[p].key = x /\ h.node[p].val # Nil
  BY <1>1, UsedKeysAre
<1> HIDE DEF size, N
<1>4. CASE j <= size
  <2>1. j \in 1 .. size /\ Entry(h, j).key = j /\ h.array[j] # Nil
    BY <1>1, <1>3, <1>4 DEF Entry, size
  <2>2. j \in Keys /\ j # Nil
    BY <1>1, <1>2, <2>1
  <2>3. FindIndex(h, j) = {j}
    BY <2>1, <2>2 DEF FindIndex, InArray, size
  <2> QED BY <1>3, <2>1, <2>2, <2>3
<1>5. CASE ~(j <= size)
  <2> DEFINE p == j - size
             k == h.node[p].key
  <2>0. j \in 1 .. size + N
    BY DEF size, N
  <2>1. p \in 1 .. N /\ size + p = j /\ Entry(h, j) = h.node[p]
    BY <1>1, <1>5, <2>0 DEF Entry, size
  <2> HIDE DEF p
  <2>2. k \in Keys /\ k # Nil /\ ~h.node[p].dead /\ h.node[p].val # Nil
    BY <1>1, <2>1, ShapedFacts DEF N
  <2>3. ~InArray(h, k)
    BY <2>1, <2>2, SoundFacts DEF Home, N
  <2> DEFINE q == Find(h, k, TRUE)
  <2>4. q = p
    <3>1. q = 0 => \A s \in 1 .. N : h.node[s].key # k
      <4> HIDE DEF k
      <4> QED BY <2>2, FindAny DEF N
    <3>2. q # 0 => \A s \in 1 .. N : h.node[s].key = k /\ ~h.node[s].dead => s = q
      <4> HIDE DEF k
      <4> QED BY <2>2, FindAny DEF N
    <3> QED BY <2>1, <2>2, <3>1, <3>2
  <2>5. FindIndex(h, k) = {size + q}
    <3> HIDE DEF q
    <3>1. q # 0
      BY <1>1, <2>1, <2>4
    <3> QED BY <2>2, <2>3, <3>1 DEF FindIndex, q, size
  <2>6. k \in UsedKeys(h)
    BY <1>3, <2>1, <2>2
  <2> QED BY <2>1, <2>2, <2>4, <2>5, <2>6
<1> QED BY <1>4, <1>5

LEMMA IndexOfUsed ==
    ASSUME NEW h, Sound(h), hash \in [Keys -> Nat], NEW k \in UsedKeys(h)
    PROVE  \E j \in 1 .. Len(h.array) + Len(h.node) :
              FindIndex(h, k) = {j} /\ Entry(h, j).key = k /\ Entry(h, j).val # Nil
<1> DEFINE size == Len(h.array)
           N == Len(h.node)
<1>1. Shaped(h) /\ size \in Nat /\ N \in Nat
  <2>1. Shaped(h)
    BY SoundFacts
  <2> QED BY <2>1, ShapedFacts
<1>2. \/ k \in 1 .. size /\ h.array[k] # Nil
      \/ \E p \in 1 .. N : h.node[p].key = k /\ h.node[p].val # Nil
  BY <1>1, UsedKeysAre
<1> HIDE DEF size, N
<1>3. \E j \in 1 .. size + N : Entry(h, j).key = k /\ Entry(h, j).val # Nil
  <2>1. CASE k \in 1 .. size /\ h.array[k] # Nil
    <3>1. k \in 1 .. size + N /\ k <= size
      BY <1>1, <2>1
    <3> QED BY <2>1, <3>1 DEF Entry, size
  <2>2. CASE \E p \in 1 .. N : h.node[p].key = k /\ h.node[p].val # Nil
    <3>1. PICK p \in 1 .. N : h.node[p].key = k /\ h.node[p].val # Nil
      BY <2>2
    <3> DEFINE j == size + p
    <3>2. j \in 1 .. size + N /\ ~(j <= size) /\ j - size = p
      BY <1>1
    <3> HIDE DEF j
    <3>3. Entry(h, j) = h.node[p]
      BY <3>2 DEF Entry, size
    <3> QED BY <3>1, <3>2, <3>3
  <2> QED BY <1>2, <2>1, <2>2
<1>4. PICK j \in 1 .. size + N : Entry(h, j).key = k /\ Entry(h, j).val # Nil
  BY <1>3
<1>5. FindIndex(h, k) = {j}
  BY <1>4, EntryIs DEF size, N
<1> QED BY <1>4, <1>5 DEF size, N

LEMMA IndexIs ==
    ASSUME NEW h, Sound(h), hash \in [Keys -> Nat], NEW k \in Keys \cup {Nil}, FindIndex(h, k) # {}
    PROVE  /\ Index(h, k) \in 0 .. Len(h.array) + Len(h.node)
           /\ FindIndex(h, k) = {Index(h, k)}
           /\ k = Nil => Index(h, k) = 0
<1> DEFINE size == Len(h.array)
           N == Len(h.node)
<1>1. size \in Nat /\ N \in Nat
  <2>1. Shaped(h)
    BY SoundFacts
  <2> QED BY <2>1, ShapedFacts
<1> HIDE DEF size, N
<1>2. \E j \in 0 .. size + N : FindIndex(h, k) = {j} /\ (k = Nil => j = 0)
  <2>1. CASE k = Nil
    BY <1>1, <2>1 DEF FindIndex
  <2>2. CASE k # Nil /\ InArray(h, k)
    <3>0. k \in 1 .. size
      BY <2>2 DEF InArray, size
    <3>1. k \in 0 .. size + N
      BY <1>1, <3>0
    <3> QED BY <2>2, <3>1 DEF FindIndex
  <2>3. CASE k # Nil /\ ~InArray(h, k)
    <3> DEFINE p == Find(h, k, TRUE)
    <3>1. p # 0 /\ FindIndex(h, k) = {size + p}
      BY <2>3 DEF FindIndex, size
    <3>2. k \in Keys
      BY <2>3
    <3>3. p \in 1 .. N
      BY <3>1, <3>2, FindAny DEF N
    <3> HIDE DEF p
    <3>4. size + p \in 0 .. size + N
      BY <1>1, <3>3
    <3> QED BY <2>3, <3>1, <3>4
  <2> QED BY <2>1, <2>2, <2>3
<1>3. PICK j \in 0 .. size + N : FindIndex(h, k) = {j} /\ (k = Nil => j = 0)
  BY <1>2
<1>4. Index(h, k) = j
  BY <1>3 DEF Index
<1> QED BY <1>3, <1>4 DEF size, N

(* A table in which every key keeps its index, and the watched entry its   *)
(* value.                                                                  *)
LEMMA CountedKept ==
    ASSUME NEW h, Sound(h), NEW g, Sound(g), hash \in [Keys -> Nat], NEW it, Counted(h, it),
           it.on => \A x : FindIndex(g, x) = FindIndex(h, x),
           it.on /\ it.watched # Nil => it.watched \in UsedKeys(g)
    PROVE  Counted(g, it)
<1>1. CASE ~it.on
  BY <1>1 DEF Counted
<1>2. CASE it.on
  <2>1. it \in Traversals /\ ~it.invalid /\ FindIndex(h, it.key) # {} /\ (it.watched = Nil => it.seen = 0)
    BY <1>2 DEF Counted
  <2>2. FindIndex(g, it.key) # {}
    BY <1>2, <2>1
  <2>3. \A x : Index(g, x) = Index(h, x)
    BY <1>2 DEF Index
  <2>4. ASSUME it.watched # Nil
        PROVE  /\ Get(g, it.watched) # Nil
               /\ it.seen = IF Index(g, it.watched) <= Index(g, it.key) THEN 1 ELSE 0
    <3>1. it.watched \in Keys
      <4>1. Shaped(g) /\ it.watched \in UsedKeys(g)
        BY <1>2, <2>4, SoundFacts
      <4> QED BY <4>1, UsedKeysAre
    <3>2. Get(g, it.watched) # Nil
      BY <1>2, <2>4, <3>1, GetIs
    <3>3. it.seen = IF Index(h, it.watched) <= Index(h, it.key) THEN 1 ELSE 0
      BY <1>2, <2>4 DEF Counted
    <3> QED BY <2>3, <3>2, <3>3
  <2> QED BY <1>2, <2>1, <2>2, <2>4 DEF Counted
<1> QED BY <1>1, <1>2

LEMMA IdleCounted ==
    ASSUME NEW h
    PROVE  Counted(h, Idle)
BY DEF Counted, Idle, Traversals

(* A store of v under k, or the loss of an entry.                          *)
LEMMA DisturbedCounted ==
    ASSUME Sound(t), hash \in [Keys -> Nat], Counted(t, iter), NEW k \in Keys, NEW v \in {k, Nil},
           NEW g, Sound(g),
           UsedKeys(g) = IF v = Nil THEN UsedKeys(t) \ {k} ELSE UsedKeys(t) \cup {k},
           Has(t, k) => \A x : FindIndex(g, x) = FindIndex(t, x)
    PROVE  /\ Counted(g, Disturbed(k, v))
           /\ ~iter.on => Disturbed(k, v) = Idle
<1>0. ~iter.on => Disturbed(k, v) = Idle
  BY DEF Disturbed
<1>1. CASE ~iter.on \/ Get(t, k) = Nil
  BY <1>0, <1>1, IdleCounted DEF Disturbed
<1>2. CASE iter.on /\ Get(t, k) # Nil
  <2>1. \A x : FindIndex(g, x) = FindIndex(t, x)
    BY <1>2, GetIs
  <2>2. CASE v = Nil /\ k = iter.watched
    <3> DEFINE it == [iter EXCEPT !.watched = Nil, !.seen = 0]
    <3>1. Disturbed(k, v) = it
      BY <1>2, <2>2 DEF Disturbed
    <3>2. iter \in Traversals /\ ~iter.invalid /\ FindIndex(t, iter.key) # {}
      BY <1>2 DEF Counted
    <3>3. it \in Traversals /\ ~it.invalid /\ it.key = iter.key /\ it.watched = Nil /\ it.seen = 0 /\ it.on = iter.on
      BY <3>2 DEF Traversals
    <3> HIDE DEF it
    <3>4. FindIndex(g, it.key) # {}
      BY <2>1, <3>2, <3>3
    <3>5. Counted(g, it)
      BY <1>2, <3>3, <3>4 DEF Counted
    <3> QED BY <1>0, <3>1, <3>5
  <2>3. CASE ~(v = Nil /\ k = iter.watched)
    <3>1. Disturbed(k, v) = iter
      BY <1>2, <2>3 DEF Disturbed
    <3>2. ASSUME iter.watched # Nil PROVE iter.watched \in UsedKeys(g)
      <4>1. Get(t, iter.watched) # Nil /\ iter \in Traversals
        BY <1>2, <3>2 DEF Counted
      <4>2. iter.watched \in Keys
        BY <3>2, <4>1, TableAssumption DEF Traversals
      <4>3. iter.watched \in UsedKeys(t)
        BY <4>1, <4>2, GetIs
      <4> QED BY <2>3, <4>3
    <3>3. Counted(g, iter)
      BY <2>1, <3>2, CountedKept
    <3> QED BY <1>0, <3>1, <3>3
  <2> QED BY <2>2, <2>3
<1> QED BY <1>1, <1>2

LEMMA NextIndexIs ==
    ASSUME NEW h, Sound(h), NEW j \in Nat, NEW i, i = NextIndex(h, j)
    PROVE  /\ i = 0 => \A x \in 1 .. Len(h.array) + Len(h.node) : Entry(h, x).val # Nil => x <= j
           /\ i # 0 => /\ i \in 1 .. Len(h.array) + Len(h.node) /\ i > j /\ Entry(h, i).val # Nil
                       /\ \A x \in 1 .. Len(h.array) + Len(h.node) : Entry(h, x).val # Nil => x <= j \/ i <= x
<1> DEFINE m == Len(h.array) + Len(h.node)
           later == {x \in j + 1 .. m : Entry(h, x).val # Nil}
<1>1. m \in Nat
  <2>1. Shaped(h)
    BY SoundFacts
  <2>2. Len(h.array) \in Nat /\ Len(h.node) \in Nat
    BY <2>1, ShapedFacts
  <2>3. \A x, y \in Nat : x + y \in Nat
    OBVIOUS
  <2> QED BY <2>2, <2>3
<1>2. i = IF later = {} THEN 0 ELSE Min(later)
  BY DEF NextIndex
<1> HIDE DEF m
<1>3. later \in SUBSET Nat /\ 0 \notin later
  BY <1>1
<1>4. later # {} => Min(later) \in later /\ \A x \in later : Min(later) <= x
  <2> HIDE DEF later
  <2> QED BY <1>3, Least
<1>5. \A x \in 1 .. m : x \in later <=> x > j /\ Entry(h, x).val # Nil
  BY <1>1
<1>6. later \subseteq 1 .. m
  BY <1>1
<1> HIDE DEF later
<1>7. ASSUME i = 0, NEW x \in 1 .. m, Entry(h, x).val # Nil PROVE x <= j
  <2>1. later = {}
    BY <1>2, <1>3, <1>4, <1>7
  <2> QED BY <1>5, <1>7, <2>1
<1>8. ASSUME i # 0
      PROVE  /\ i \in 1 .. m /\ i > j /\ Entry(h, i).val # Nil
             /\ \A x \in 1 .. m : Entry(h, x).val # Nil => x <= j \/ i <= x
  <2>1. i \in later /\ \A x \in later : i <= x
    BY <1>2, <1>4, <1>8
  <2>2. i \in 1 .. m
    BY <1>6, <2>1
  <2> QED BY <1>5, <2>1, <2>2
<1> QED BY <1>7, <1>8 DEF m

(* One step of a traversal. *)
LEMMA NextEntryCounted ==
    ASSUME Sound(t), hash \in [Keys -> Nat], Counted(t, iter), NextEntry
    PROVE  /\ Counted(t, iter')
           /\ ~iter'.on /\ iter.watched # Nil => iter.seen = 1
<1> DEFINE m == Len(t.array) + Len(t.node)
           j == Index(t, iter.key)
           i == NextIndex(t, j)
           w == Index(t, iter.watched)
<1>1. /\ iter.on /\ iter \in Traversals /\ ~iter.invalid
      /\ FindIndex(t, iter.key) # {} /\ (iter.watched = Nil => iter.seen = 0)
  BY DEF NextEntry, Counted
<1>2. m \in Nat
  <2>1. Shaped(t)
    BY SoundFacts
  <2>2. Len(t.array) \in Nat /\ Len(t.node) \in Nat
    BY <2>1, ShapedFacts
  <2>3. \A x, y \in Nat : x + y \in Nat
    OBVIOUS
  <2> QED BY <2>2, <2>3
<1>3. iter.key \in Keys \cup {Nil} /\ iter.watched \in Keys \cup {Nil} /\ Nil \notin Keys /\ iter.seen \in Nat
  BY <1>1, KeyFacts, TableAssumption DEF Traversals
<1>4. j \in 0 .. m /\ j \in Nat
  <2>1. j \in 0 .. m
    BY <1>1, <1>3, IndexIs
  <2> HIDE DEF j, m
  <2> QED BY <1>2, <2>1
<1>5. iter' = IF i = 0 THEN Idle
              ELSE [iter EXCEPT !.key = Entry(t, i).key,
                                !.seen = @ + IF Entry(t, i).key = iter.watched THEN 1 ELSE 0]
  <2>1. j = CHOOSE x \in FindIndex(t, iter.key) : TRUE
    BY DEF Index
  <2> QED BY <1>1, <2>1 DEF NextEntry
<1> HIDE DEF j, i
<1>6. /\ i = 0 => \A x \in 1 .. m : Entry(t, x).val # Nil => x <= j
      /\ i # 0 => /\ i \in 1 .. m /\ i > j /\ Entry(t, i).val # Nil
                  /\ \A x \in 1 .. m : Entry(t, x).val # Nil => x <= j \/ i <= x
  BY <1>4, NextIndexIs DEF i
<1>7. ASSUME iter.watched # Nil
      PROVE  /\ w \in 1 .. m /\ Entry(t, w).key = iter.watched /\ Entry(t, w).val # Nil
             /\ FindIndex(t, iter.watched) = {w}
             /\ iter.seen = IF w <= j THEN 1 ELSE 0
             /\ Get(t, iter.watched) # Nil
  <2>1. Get(t, iter.watched) # Nil /\ iter.seen = IF w <= j THEN 1 ELSE 0
    BY <1>1, <1>7 DEF Counted, j
  <2>2. iter.watched \in UsedKeys(t)
    BY <1>3, <1>7, <2>1, GetIs
  <2>3. PICK x \in 1 .. m : FindIndex(t, iter.watched) = {x} /\ Entry(t, x).key = iter.watched /\ Entry(t, x).val # Nil
    BY <2>2, IndexOfUsed
  <2>4. w = x
    BY <2>3 DEF Index
  <2> HIDE DEF w
  <2> QED BY <2>1, <2>3, <2>4
<1> HIDE DEF w, m
<1>8. CASE i = 0
  <2>1. iter' = Idle
    BY <1>5, <1>8
  <2>2. iter.watched # Nil => iter.seen = 1
    BY <1>6, <1>7, <1>8
  <2> QED BY <2>1, <2>2, IdleCounted
<1>9. CASE i # 0
  <2> DEFINE k == Entry(t, i).key
             it == [iter EXCEPT !.key = k, !.seen = @ + IF k = iter.watched THEN 1 ELSE 0]
  <2>1. iter' = it
    BY <1>5, <1>9
  <2>2. k \in Keys /\ FindIndex(t, k) = {i}
    BY <1>6, <1>9, EntryIs DEF m
  <2> HIDE DEF k
  <2>3. /\ it \in Traversals /\ ~it.invalid /\ it.on /\ it.key = k /\ it.watched = iter.watched
        /\ it.seen = iter.seen + IF k = iter.watched THEN 1 ELSE 0
    <3> DEFINE s == IF k = iter.watched THEN 1 ELSE 0
    <3>1. s \in Nat
      OBVIOUS
    <3>2. it = [iter EXCEPT !.key = k, !.seen = iter.seen + s] /\ iter.seen + s \in Nat
      BY <1>3, <3>1
    <3> DEFINE x == iter.seen + s
    <3>3. it = [iter EXCEPT !.key = k, !.seen = x] /\ x \in Nat
      BY <3>2
    <3> HIDE DEF x, it
    <3>4. it \in Traversals /\ ~it.invalid /\ it.on /\ it.key = k /\ it.watched = iter.watched /\ it.seen = x
      BY <1>1, <2>2, <3>3 DEF Traversals
    <3> QED BY <3>4 DEF x
  <2> HIDE DEF it
  <2>4. Index(t, k) = i
    BY <2>2 DEF Index
  <2>5. ASSUME iter.watched # Nil PROVE it.seen = IF w <= i THEN 1 ELSE 0
    <3>0. i \in Nat /\ w \in Nat
      BY <1>2, <1>6, <1>7, <1>9, <2>5
    <3>1. CASE k = iter.watched
      <4>1. w = i
        BY <1>7, <2>2, <2>5, <3>1
      <4> QED BY <1>4, <1>6, <1>7, <1>9, <2>3, <2>5, <3>0, <3>1, <4>1
    <3>2. CASE k # iter.watched
      <4>1. w # i
        BY <1>7, <2>5, <3>2 DEF k
      <4>2. it.seen = iter.seen
        BY <1>3, <2>3, <3>2
      <4>3. w <= j \/ i <= w
        BY <1>6, <1>7, <1>9, <2>5
      <4> QED BY <1>4, <1>6, <1>7, <1>9, <2>5, <3>0, <4>1, <4>2, <4>3
    <3> QED BY <3>1, <3>2
  <2>6. ASSUME iter.watched = Nil PROVE it.seen = 0
    <3>1. k # Nil
      BY <1>3, <2>2
    <3> QED BY <1>1, <2>3, <2>6, <3>1
  <2>7. FindIndex(t, it.key) # {}
    BY <2>2, <2>3
  <2>8. it.watched # Nil => Get(t, it.watched) # Nil /\ it.seen = IF Index(t, it.watched) <= Index(t, it.key) THEN 1 ELSE 0
    BY <1>7, <2>3, <2>4, <2>5 DEF w
  <2>9. Counted(t, it)
    BY <2>3, <2>6, <2>7, <2>8 DEF Counted
  <2> QED BY <2>1, <2>3, <2>9
<1> QED BY <1>8, <1>9

-----------------------------------------------------------------------------
(* Lengths. *)

LEMMA PresentIs ==
    ASSUME NEW h, Sound(h), hash \in [Keys -> Nat], NEW i \in Nat
    PROVE  /\ Present(h, i) => i \in Ints /\ Get(h, i) # Nil
           /\ ~Present(h, i) /\ i \in Keys => Get(h, i) = Nil
           /\ i > Len(h.array) /\ h.node = << >> => ~Present(h, i)
<1>1. /\ Shaped(h) /\ Len(h.array) \in Nat
      /\ \A x \in 1 .. Len(h.array) : h.array[x] \in {x, Nil} /\ h.array[x] \in Keys \cup {Nil}
  <2>1. Shaped(h)
    BY SoundFacts
  <2> QED BY <2>1, ShapedFacts
<1>2. ASSUME Present(h, i) PROVE i \in Ints
  <2>1. CASE InArray(h, i)
    <3>1. h.array[i] # Nil /\ i \in 1 .. Len(h.array)
      BY <1>2, <2>1 DEF Present, Get, InArray
    <3>2. i \in Keys
      BY <1>1, <3>1
    <3> QED BY <3>2, KeyFacts
  <2>2. CASE ~InArray(h, i)
    BY <1>2, <2>2 DEF Present
  <2> QED BY <2>1, <2>2
<1>3. ASSUME ~Present(h, i), i \in Keys PROVE Get(h, i) = Nil
  <2>1. i \in Ints
    BY <1>3, KeyFacts
  <2> QED BY <1>3, <2>1 DEF Present
<1>4. ASSUME i > Len(h.array), h.node = << >> PROVE ~Present(h, i)
  <2>1. ~InArray(h, i)
    BY <1>1, <1>4 DEF InArray
  <2>2. Get(h, i) = Nil
    BY <1>4, <2>1 DEF Get, Find
  <2> QED BY <2>2 DEF Present
<1> QED BY <1>2, <1>3, <1>4 DEF Present

Border(h, n) == n \in Nat /\ (n = 0 \/ Present(h, n)) /\ ~Present(h, n + 1)

(* The binary search: what it does with an interval.                       *)
Halve(h, f, s) ==
    LET i == s[1]
        j == s[2]
        m == (i + j) \div 2
    IN  IF j - i <= 1 THEN i ELSE f[IF Present(h, m) THEN <<m, j>> ELSE <<i, m>>]

LEMMA BetweenIs ==
    ASSUME NEW h, NEW from \in Nat, NEW to \in Nat
    PROVE  \E f : /\ \A i, j \in from .. to : f[<<i, j>>] = Halve(h, f, <<i, j>>)
                  /\ Between(h, from, to) = f[<<from, to>>]
<1> DEFINE A == from .. to
           D == A \X A
           Rec(f) == f = [s \in D |-> Halve(h, f, s)]
           search == CHOOSE f : Rec(f)
           Within(d, s) == s[2] - s[1] <= d
           Upto(f, d) == \A s \in D : Within(d, s) => f[s] = Halve(h, f, s)
           S == {d \in Nat : \E f : Upto(f, d)}
<1>1. Between(h, from, to) = search[<<from, to>>]
  BY Zenon DEF Between, Halve
<1>2. \A s \in D : s[1] \in A /\ s[2] \in A /\ s = <<s[1], s[2]>>
  OBVIOUS
<1>3. 0 \in S
  <2> DEFINE f == [s \in D |-> s[1]]
  <2>1. ASSUME NEW s \in D, Within(0, s) PROVE f[s] = Halve(h, f, s)
    <3>1. s[2] - s[1] <= 1
      BY <1>2, <2>1
    <3> QED BY <3>1 DEF Halve
  <2>2. Upto(f, 0)
    BY <2>1
  <2> QED BY <2>2
(* What a smaller interval gives is all that matters. *)
<1>4. ASSUME NEW d \in Nat, NEW f, NEW g, NEW s \in D, Within(d + 1, s),
             \A x \in D : Within(d, x) => f[x] = g[x]
      PROVE  Halve(h, f, s) = Halve(h, g, s)
  <2> DEFINE i == s[1]
             j == s[2]
             m == (i + j) \div 2
             x == IF Present(h, m) THEN <<m, j>> ELSE <<i, m>>
  <2>1. i \in Nat /\ j \in Nat /\ i \in A /\ j \in A /\ j - i <= d + 1
    BY <1>2, <1>4
  <2>2. CASE j - i <= 1
    BY <2>2 DEF Halve
  <2>3. CASE ~(j - i <= 1)
    <3>1. m \in Nat /\ i < m /\ m < j
      BY <2>1, <2>3
    <3>2. m \in A
      BY <2>1, <3>1
    <3> HIDE DEF m
    <3>3. j - m <= d /\ m - i <= d
      BY <2>1, <3>1
    <3> HIDE DEF i, j
    <3>4. x \in D /\ Within(d, x)
      BY <2>1, <3>2, <3>3
    <3>5. f[x] = g[x]
      <4> HIDE DEF x, D, Within
      <4> QED BY <1>4, <3>4
    <3>6. Halve(h, f, s) = f[x] /\ Halve(h, g, s) = g[x]
      BY <2>3 DEF Halve, i, j, m
    <3> QED BY <3>5, <3>6
  <2> QED BY <2>2, <2>3
<1> HIDE DEF Within
<1>5. ASSUME NEW d \in Nat, d \in S PROVE d + 1 \in S
  <2>1. PICK f : Upto(f, d)
    BY <1>5
  <2> DEFINE g == [s \in D |-> Halve(h, f, s)]
  <2>2. \A s \in D : g[s] = Halve(h, f, s)
    OBVIOUS
  <2> HIDE DEF g, D
  <2>3. \A s \in D : Within(d, s) => f[s] = g[s]
    BY <2>1, <2>2
  <2>4. Upto(g, d + 1)
    BY <1>4, <2>2, <2>3
  <2> QED BY <2>4
<1>6. \A d \in Nat : d \in S
  <2> HIDE DEF S
  <2> QED BY <1>3, <1>5, Induction
<1>7. \A s \in D : Within(to, s)
  BY <1>2 DEF Within
<1> HIDE DEF D
<1>8. PICK f : \A s \in D : f[s] = Halve(h, f, s)
  BY <1>6, <1>7
<1> DEFINE g == [s \in D |-> f[s]]
<1>9. \A d \in Nat, s \in D : Within(d + 1, s) => Halve(h, f, s) = Halve(h, g, s)
  BY <1>4
<1>10. \A s \in D : Within(to + 1, s)
  BY <1>2 DEF Within, D
<1>11. \A s \in D : g[s] = Halve(h, g, s)
  BY <1>8, <1>9, <1>10
<1>12. Rec(g)
  <2>1. g = [s \in D |-> g[s]]
    OBVIOUS
  <2> HIDE DEF g
  <2> QED BY <1>11, <2>1
<1>13. Rec(search)
  <2> HIDE DEF g, Rec
  <2> QED BY <1>12
<1> HIDE DEF search
<1>14. \A s \in D : search[s] = Halve(h, search, s)
  BY <1>13
<1>15. \A i, j \in from .. to : <<i, j>> \in D
  BY DEF D
<1> QED BY <1>1, <1>14, <1>15

LEMMA BetweenBorder ==
    ASSUME NEW h, NEW from \in Nat, NEW to \in Nat, from < to,
           from = 0 \/ Present(h, from), ~Present(h, to)
    PROVE  Border(h, Between(h, from, to))
<1>1. PICK f : /\ \A i, j \in from .. to : f[<<i, j>>] = Halve(h, f, <<i, j>>)
               /\ Between(h, from, to) = f[<<from, to>>]
  BY BetweenIs
<1> DEFINE Ends(i, j) == i < j /\ (i = 0 \/ Present(h, i)) /\ ~Present(h, j)
           Good(i, j) == Ends(i, j) => Border(h, f[<<i, j>>])
           S == {d \in Nat : \A i, j \in from .. to : j - i <= d + 1 => Good(i, j)}
<1>2. ASSUME NEW i \in from .. to, NEW j \in from .. to
      PROVE  /\ j - i <= 1 => f[<<i, j>>] = i
             /\ j - i > 1 => /\ (i + j) \div 2 \in from .. to
                             /\ i < (i + j) \div 2 /\ (i + j) \div 2 < j
                             /\ f[<<i, j>>] = IF Present(h, (i + j) \div 2) THEN f[<<(i + j) \div 2, j>>] ELSE f[<<i, (i + j) \div 2>>]
  <2> DEFINE m == (i + j) \div 2
  <2>1. f[<<i, j>>] = IF j - i <= 1 THEN i ELSE f[IF Present(h, m) THEN <<m, j>> ELSE <<i, m>>]
    BY <1>1 DEF Halve
  <2>2. j - i > 1 => m \in from .. to /\ i < m /\ m < j
    OBVIOUS
  <2>3. i \in Nat /\ j \in Nat
    OBVIOUS
  <2> HIDE DEF m
  <2>4. j - i > 1 => ~(j - i <= 1)
    BY <2>3
  <2>5. j - i > 1 => f[<<i, j>>] = IF Present(h, m) THEN f[<<m, j>>] ELSE f[<<i, m>>]
    BY <2>1, <2>4
  <2>6. j - i <= 1 => f[<<i, j>>] = i
    BY <2>1
  <2> QED BY <2>2, <2>5, <2>6 DEF m
<1>3. 0 \in S
  <2>1. SUFFICES ASSUME NEW i \in from .. to, NEW j \in from .. to, j - i <= 1, Ends(i, j) PROVE Border(h, f[<<i, j>>])
    OBVIOUS
  <2>2. f[<<i, j>>] = i /\ j = i + 1 /\ i \in Nat
    <3>1. f[<<i, j>>] = i
      BY <1>2, <2>1
    <3>2. i < j /\ i \in Nat /\ j \in Nat
      BY <2>1
    <3> QED BY <2>1, <3>1, <3>2
  <2> QED BY <2>1, <2>2 DEF Border
<1>4. ASSUME NEW d \in Nat, d \in S PROVE d + 1 \in S
  <2>1. SUFFICES ASSUME NEW i \in from .. to, NEW j \in from .. to, j - i <= d + 1 + 1, Ends(i, j)
                 PROVE  Border(h, f[<<i, j>>])
    OBVIOUS
  <2>2. \A a, b \in from .. to : b - a <= d + 1 => Good(a, b)
    BY <1>4
  <2>3. CASE j - i <= 1
    <3>1. j - i <= d + 1
      BY <2>3
    <3> HIDE DEF Ends
    <3> QED BY <2>1, <2>2, <3>1
  <2>4. CASE j - i > 1
    <3> DEFINE m == (i + j) \div 2
    <3>1. /\ m \in from .. to /\ i < m /\ m < j
          /\ f[<<i, j>>] = IF Present(h, m) THEN f[<<m, j>>] ELSE f[<<i, m>>]
      BY <1>2, <2>4
    <3> HIDE DEF m
    <3>2. j - m <= d + 1 /\ m - i <= d + 1
      BY <2>1, <3>1
    <3>3. CASE Present(h, m)
      <4>1. Ends(m, j)
        BY <2>1, <3>1, <3>3
      <4>2. Border(h, f[<<m, j>>])
        <5> HIDE DEF Ends
        <5> QED BY <2>2, <3>1, <3>2, <4>1
      <4> QED BY <3>1, <3>3, <4>2
    <3>4. CASE ~Present(h, m)
      <4>1. Ends(i, m)
        BY <2>1, <3>1, <3>4
      <4>2. Border(h, f[<<i, m>>])
        <5> HIDE DEF Ends
        <5> QED BY <2>2, <3>1, <3>2, <4>1
      <4> QED BY <3>1, <3>4, <4>2
    <3> QED BY <3>3, <3>4
  <2> QED BY <2>3, <2>4
<1>5. \A d \in Nat : d \in S
  <2> HIDE DEF S
  <2> QED BY <1>3, <1>4, Induction
<1>6. from \in from .. to /\ to \in from .. to /\ to - from <= to + 1 /\ Ends(from, to)
  OBVIOUS
<1>7. Good(from, to)
  <2> HIDE DEF Good, Ends
  <2> QED BY <1>5, <1>6
<1> QED BY <1>1, <1>6, <1>7

(* The doubling that looks for an interval.                                *)
Further(h, i) == IF i = Len(h.array) THEN i + 1 ELSE 2 * i
Double(h, f, i) == IF Present(h, Further(h, i)) THEN f[Further(h, i)] ELSE Between(h, i, Further(h, i))

LEMMA FurtherIs ==
    ASSUME NEW h, Sound(h), hash \in [Keys -> Nat], NEW i \in 0 .. MaxInt
    PROVE  /\ Further(h, i) \in Nat
           /\ Present(h, Further(h, i)) => Further(h, i) \in 0 .. MaxInt /\ i < Further(h, i)
           /\ i >= Len(h.array) => i < Further(h, i)
<1>1. MaxInt \in Nat /\ Len(h.array) \in Nat
  <2>1. Shaped(h)
    BY SoundFacts
  <2> QED BY <2>1, ShapedFacts, KeyFacts
<1> DEFINE n == Len(h.array)
           j == Further(h, i)
<1>2. j = IF i = n THEN i + 1 ELSE 2 * i
  BY DEF Further
<1>3. i \in Nat /\ n \in Nat
  BY <1>1
<1> HIDE DEF n, j
<1>4. j \in Nat /\ (i >= n => i < j)
  BY <1>2, <1>3
<1>5. ASSUME Present(h, j) PROVE j \in 0 .. MaxInt /\ i < j
  <2>1. j \in Ints
    BY <1>4, <1>5, PresentIs
  <2>2. j \in 1 .. MaxInt
    BY <2>1 DEF Ints
  <2> QED BY <1>1, <1>2, <1>3, <2>2
<1> QED BY <1>4, <1>5 DEF n, j

Unbound(h, n) ==
    LET unbound[i \in 0 .. MaxInt] == Double(h, unbound, i) IN unbound[n]

LEMMA UnboundIs ==
    ASSUME NEW h, Sound(h), hash \in [Keys -> Nat]
    PROVE  \E f : /\ \A i \in 0 .. MaxInt : f[i] = Double(h, f, i)
                  /\ \A n : Unbound(h, n) = f[n]
<1> DEFINE D == 0 .. MaxInt
           Rec(f) == f = [i \in D |-> Double(h, f, i)]
           unbound == CHOOSE f : Rec(f)
           Within(d, i) == MaxInt - i <= d
           Upto(f, d) == \A i \in D : Within(d, i) => f[i] = Double(h, f, i)
           S == {d \in Nat : \E f : Upto(f, d)}
<1>1. \A n : Unbound(h, n) = unbound[n]
  BY Zenon DEF Unbound
<1>2. MaxInt \in Nat
  BY KeyFacts
(* What larger integers give is all that matters. *)
<1>3. ASSUME NEW d \in Nat, NEW f, NEW g, NEW i \in D, Within(d + 1, i),
             \A x \in D : Within(d, x) => f[x] = g[x]
      PROVE  Double(h, f, i) = Double(h, g, i)
  <2> DEFINE j == Further(h, i)
  <2>1. CASE Present(h, j)
    <3>1. j \in D /\ i < j
      BY <2>1, FurtherIs
    <3> HIDE DEF j
    <3>2. Within(d, j)
      BY <1>2, <1>3, <3>1
    <3>3. f[j] = g[j]
      <4> HIDE DEF Within
      <4> QED BY <1>3, <3>1, <3>2
    <3> QED BY <2>1, <3>3 DEF Double, j
  <2>2. CASE ~Present(h, j)
    BY <2>2 DEF Double
  <2> QED BY <2>1, <2>2
<1>4. 0 \in S
  <2> DEFINE f == [i \in D |-> Between(h, i, Further(h, i))]
  <2>1. ASSUME NEW i \in D, Within(0, i) PROVE f[i] = Double(h, f, i)
    <3>1. ~Present(h, Further(h, i))
      <4>1. i = MaxInt
        BY <1>2, <2>1
      <4>2. Present(h, Further(h, i)) => Further(h, i) \in 0 .. MaxInt /\ i < Further(h, i)
        BY FurtherIs
      <4> QED BY <1>2, <4>1, <4>2
    <3> QED BY <3>1 DEF Double
  <2>2. Upto(f, 0)
    BY <2>1
  <2> QED BY <2>2
<1> HIDE DEF Within
<1>5. ASSUME NEW d \in Nat, d \in S PROVE d + 1 \in S
  <2>1. PICK f : Upto(f, d)
    BY <1>5
  <2> DEFINE g == [i \in D |-> Double(h, f, i)]
  <2>2. \A i \in D : g[i] = Double(h, f, i)
    OBVIOUS
  <2> HIDE DEF g, D
  <2>3. \A i \in D : Within(d, i) => f[i] = g[i]
    BY <2>1, <2>2
  <2>4. Upto(g, d + 1)
    BY <1>3, <2>2, <2>3
  <2> QED BY <2>4
<1>6. \A d \in Nat : d \in S
  <2> HIDE DEF S
  <2> QED BY <1>4, <1>5, Induction
<1>7. \A i \in D : Within(MaxInt, i) /\ Within(MaxInt + 1, i)
  BY <1>2 DEF Within
<1> HIDE DEF D
<1>8. PICK f : \A i \in D : f[i] = Double(h, f, i)
  BY <1>2, <1>6, <1>7
<1> DEFINE g == [i \in D |-> f[i]]
<1>9. \A i \in D : Double(h, f, i) = Double(h, g, i)
  <2>1. \A i \in D : f[i] = g[i]
    OBVIOUS
  <2> HIDE DEF g
  <2> QED BY <1>2, <1>3, <1>7, <2>1
<1>10. \A i \in D : g[i] = Double(h, g, i)
  BY <1>8, <1>9
<1>11. Rec(g)
  <2>1. g = [i \in D |-> g[i]]
    OBVIOUS
  <2> HIDE DEF g
  <2> QED BY <1>10, <2>1
<1>12. Rec(unbound)
  <2> HIDE DEF g, Rec
  <2> QED BY <1>11
<1> HIDE DEF unbound
<1>13. \A i \in D : unbound[i] = Double(h, unbound, i)
  BY <1>12
<1> QED BY <1>1, <1>13 DEF D

LEMMA UnboundBorder ==
    ASSUME NEW h, Sound(h), hash \in [Keys -> Nat], NEW n \in 0 .. MaxInt, n >= Len(h.array),
           n = 0 \/ Present(h, n)
    PROVE  Border(h, Unbound(h, n))
<1>1. PICK f : /\ \A i \in 0 .. MaxInt : f[i] = Double(h, f, i)
               /\ \A i : Unbound(h, i) = f[i]
  BY UnboundIs
<1>2. MaxInt \in Nat /\ Len(h.array) \in Nat
  <2>1. Shaped(h)
    BY SoundFacts
  <2> QED BY <2>1, ShapedFacts, KeyFacts
<1> DEFINE Good(i) == i >= Len(h.array) /\ (i = 0 \/ Present(h, i)) => Border(h, f[i])
           S == {d \in Nat : \A i \in 0 .. MaxInt : MaxInt - i <= d => Good(i)}
<1>3. ASSUME NEW i \in 0 .. MaxInt, i >= Len(h.array), i = 0 \/ Present(h, i),
             Present(h, Further(h, i)) => Good(Further(h, i))
      PROVE  Border(h, f[i])
  <2> DEFINE j == Further(h, i)
  <2>1. j \in Nat /\ i < j /\ (Present(h, j) => j \in 0 .. MaxInt)
    BY <1>3, FurtherIs
  <2>2. f[i] = IF Present(h, j) THEN f[j] ELSE Between(h, i, j)
    BY <1>1 DEF Double
  <2>3. Present(h, j) => Good(j)
    BY <1>3
  <2> HIDE DEF j
  <2>4. CASE Present(h, j)
    BY <1>2, <1>3, <2>1, <2>2, <2>3, <2>4
  <2>5. CASE ~Present(h, j)
    <3>1. i \in Nat
      OBVIOUS
    <3>2. Border(h, Between(h, i, j))
      BY <1>3, <2>1, <2>5, <3>1, BetweenBorder
    <3> QED BY <2>2, <2>5, <3>2
  <2> QED BY <2>4, <2>5
<1> HIDE DEF Good
<1>4. \A i \in 0 .. MaxInt : Present(h, Further(h, i)) => Further(h, i) \in 0 .. MaxInt /\ i < Further(h, i)
  BY FurtherIs
<1>5. 0 \in S
  <2>1. SUFFICES ASSUME NEW i \in 0 .. MaxInt, MaxInt - i <= 0 PROVE Good(i)
    OBVIOUS
  <2>2. ~Present(h, Further(h, i))
    BY <1>2, <1>4, <2>1
  <2> QED BY <1>3, <2>2 DEF Good
<1>6. ASSUME NEW d \in Nat, d \in S PROVE d + 1 \in S
  <2>1. SUFFICES ASSUME NEW i \in 0 .. MaxInt, MaxInt - i <= d + 1 PROVE Good(i)
    OBVIOUS
  <2>2. ASSUME Present(h, Further(h, i)) PROVE Good(Further(h, i))
    <3>1. Further(h, i) \in 0 .. MaxInt /\ i < Further(h, i)
      BY <1>4, <2>2
    <3>2. MaxInt - Further(h, i) <= d
      BY <1>2, <2>1, <3>1
    <3> QED BY <1>6, <3>1, <3>2
  <2> QED BY <1>3, <2>2 DEF Good
<1>7. \A d \in Nat : d \in S
  <2> HIDE DEF S
  <2> QED BY <1>5, <1>6, Induction
<1>8. Good(n)
  <2>1. MaxInt - n <= MaxInt
    BY <1>2
  <2> QED BY <1>2, <1>7, <2>1
<1> QED BY <1>1, <1>8 DEF Good

LEMMA GetnIsBorder ==
    ASSUME NEW h, Sound(h), hash \in [Keys -> Nat]
    PROVE  LET n == Getn(h) IN (n = 0 \/ Get(h, n) # Nil) /\ (n + 1 \in Keys => Get(h, n + 1) = Nil)
<1> DEFINE size == Len(h.array)
           n == Getn(h)
<1>1. size \in Nat
  <2>1. Shaped(h)
    BY SoundFacts
  <2> QED BY <2>1, ShapedFacts
<1>2. n = IF size > 0 /\ ~Present(h, size) THEN Between(h, 0, size)
          ELSE IF h.node = << >> THEN size ELSE Unbound(h, size)
  BY DEF Getn, Unbound, Double, Further
<1> HIDE DEF n, size
<1>3. CASE size > 0 /\ ~Present(h, size)
  <2>1. 0 \in Nat /\ 0 < size /\ 0 = 0
    BY <1>3
  <2>2. Border(h, Between(h, 0, size))
    BY <1>1, <1>3, <2>1, BetweenBorder
  <2>3. Border(h, n)
    BY <1>2, <1>3, <2>2
  <2> QED BY <2>3, PresentIs DEF Border, n
<1>4. CASE ~(size > 0 /\ ~Present(h, size)) /\ h.node = << >>
  <2>1. n = size /\ (size = 0 \/ Present(h, size))
    BY <1>1, <1>2, <1>4
  <2>2. ~Present(h, size + 1)
    <3>1. size + 1 \in Nat /\ size + 1 > size
      BY <1>1
    <3> QED BY <1>4, <3>1, PresentIs DEF size
  <2>3. Border(h, n)
    BY <1>1, <2>1, <2>2 DEF Border
  <2> QED BY <2>3, PresentIs DEF Border, n
<1>5. CASE ~(size > 0 /\ ~Present(h, size)) /\ h.node # << >>
  <2>1. n = Unbound(h, size) /\ (size = 0 \/ Present(h, size))
    BY <1>1, <1>2, <1>5
  <2>2. size \in 0 .. MaxInt
    <3>1. MaxInt \in Nat
      BY KeyFacts
    <3>2. Present(h, size) => size \in Ints
      BY <1>1, PresentIs
    <3> QED BY <1>1, <2>1, <3>1, <3>2 DEF Ints
  <2>3. size >= Len(h.array)
    BY <1>1 DEF size
  <2>4. Border(h, n)
    BY <2>1, <2>2, <2>3, UnboundBorder
  <2> QED BY <2>4, PresentIs DEF Border, n
<1> QED BY <1>3, <1>4, <1>5

-----------------------------------------------------------------------------
(* The invariant. *)

(* The hash of a key never changes. *)
LEMMA HashKept ==
    ASSUME hash' = hash
    PROVE  /\ \A h : Sound(h)' <=> Sound(h)
           /\ \A h, k : Get(h, k)' = Get(h, k)
           /\ \A h, k : FindIndex(h, k)' = FindIndex(h, k)
<1>1. \A h, k : MainPosition(h, k)' = MainPosition(h, k)
  BY DEF MainPosition
<1>2. \A h : Sound(h)' <=> Sound(h)
  BY DEF Sound, Home, First, MainPosition, Joined, Closed, InArray, Nexts, Ending, Single, Shaped, Unused
<1>3. \A h, k : Get(h, k)' = Get(h, k)
  BY DEF Get, Find, MainPosition, InArray
<1>4. \A h, k : FindIndex(h, k)' = FindIndex(h, k)
  BY DEF FindIndex, Find, MainPosition, InArray
<1> QED BY <1>2, <1>3, <1>4

(* g is what h becomes when the keys that are given get their values and   *)
(* no other key changes.                                                   *)
Meant(g, h, given) ==
    /\ given = Map!Nothing \/ Map!IsStore(given) \/ Map!IsSetList(given)
    /\ \A x \in DOMAIN given : given[x] \in {x, Nil}
    /\ \A x \in Keys : x \in UsedKeys(g) <=> IF x \in DOMAIN given THEN given[x] # Nil ELSE x \in UsedKeys(h)

LEMMA MeantNothing ==
    ASSUME NEW g, NEW h, UsedKeys(g) = UsedKeys(h)
    PROVE  Meant(g, h, Nothing)
<1>1. Nothing = Map!Nothing /\ \A x : x \notin DOMAIN Nothing
  BY DEF Nothing, Map!Nothing
<1> QED BY <1>1 DEF Meant

LEMMA MeantStore ==
    ASSUME NEW g, NEW h, NEW k \in Keys, NEW v \in {k, Nil},
           UsedKeys(g) = IF v = Nil THEN UsedKeys(h) \ {k} ELSE UsedKeys(h) \cup {k}
    PROVE  Meant(g, h, Asked(k, v))
<1> DEFINE given == Asked(k, v)
<1>1. DOMAIN given = {k} /\ given[k] = v /\ given \in [{k} -> Keys \cup {Nil}]
  BY DEF Asked
<1> HIDE DEF given
<1>2. Map!IsStore(given)
  BY <1>1 DEF Map!IsStore
<1>3. Meant(g, h, given)
  BY <1>1, <1>2 DEF Meant
<1> QED BY <1>3 DEF given

(* What a step makes of the table and of all that depends on it. *)
Stepped ==
    /\ hash' = hash /\ absent' \in BOOLEAN /\ fresh' \in BOOLEAN
    /\ Sound(t') /\ ~t'.nested
    /\ absent' => TagMethod \notin UsedKeys(t')
    /\ fresh' => ~iter'.on
    /\ Counted(t', iter')
    /\ (t' = t /\ asked' = asked) \/ Meant(t', t, asked')

LEMMA IInvFacts ==
    ASSUME IInv
    PROVE  /\ hash \in Hashes /\ hash \in [Keys -> Nat] /\ absent \in BOOLEAN /\ fresh \in BOOLEAN
           /\ Sound(t) /\ ~t.nested /\ Counted(t, iter)
           /\ absent => TagMethod \notin UsedKeys(t)
           /\ fresh => ~iter.on
           /\ iter \in Traversals /\ (~iter.on => iter = Idle)
<1>1. hash \in [Keys -> Nat]
  BY TableAssumption DEF IInv
<1>2. Sound(t) /\ (absent => Get(t, TagMethod) = Nil)
  BY DEF IInv
<1>3. absent => TagMethod \notin UsedKeys(t)
  BY <1>1, <1>2, KeyFacts, GetIs
<1> QED BY <1>1, <1>3 DEF IInv, Counted

LEMMA SteppedIInv ==
    ASSUME IInv, Stepped
    PROVE  IInv'
<1>1. hash' = hash
  BY DEF Stepped
<1>2. hash \in [Keys -> Nat] /\ hash \in Hashes
  BY IInvFacts
<1>3. Sound(t)'
  BY <1>1, HashKept DEF Stepped
<1>4. absent' => Get(t, TagMethod)' = Nil
  <2>1. TagMethod \in Keys
    BY KeyFacts
  <2>2. Sound(t')
    BY DEF Stepped
  <2>3. absent' => Get(t', TagMethod) = Nil
    BY <1>2, <2>1, <2>2, GetIs DEF Stepped
  <2> QED BY <1>1, <2>3, HashKept
<1>5. Counted(t, iter)'
  <2>1. Counted(t', iter')
    BY DEF Stepped
  <2>2. \A k : FindIndex(t, k)' = FindIndex(t', k) /\ Get(t, k)' = Get(t', k)
    BY <1>1, HashKept
  <2>3. FindIndex(t, iter.key)' = FindIndex(t', iter'.key)
    BY <1>1, HashKept
  <2>4. Get(t, iter.watched)' = Get(t', iter'.watched)
    BY <1>1, HashKept
  <2>5. Index(t, iter.key)' = Index(t', iter'.key)
    BY <2>3 DEF Index
  <2>6. Index(t, iter.watched)' = Index(t', iter'.watched)
    <3>1. FindIndex(t, iter.watched)' = FindIndex(t', iter'.watched)
      BY <1>1, HashKept
    <3> QED BY <3>1 DEF Index
  <2> QED BY <2>1, <2>3, <2>4, <2>5, <2>6 DEF Counted
<1> QED BY <1>1, <1>2, <1>3, <1>4, <1>5 DEF Stepped, IInv

LEMMA InitIInv == Init => IInv
<1> SUFFICES ASSUME Init PROVE IInv
  OBVIOUS
<1>1. hash \in Hashes /\ absent = TRUE /\ fresh = TRUE /\ iter = Idle
  BY DEF Init
<1>2. PICK narray \in 0 .. MaxInt, nhash \in 0 .. MaxNodes : t = NewTable([i \in 1 .. narray |-> Nil], nhash)
  BY DEF Init
<1> DEFINE a == [i \in 1 .. narray |-> Nil]
<1>3. narray \in Nat /\ nhash \in Nat
  BY TableAssumption
<1>4. a \in Seq(Keys \cup {Nil}) /\ Len(a) = narray /\ \A i \in 1 .. narray : a[i] = Nil
  BY <1>3
<1>5. t = NewTable(a, nhash)
  BY <1>2
<1> HIDE DEF a
<1>6. \A i \in 1 .. Len(a) : a[i] \in {i, Nil}
  BY <1>4
<1>7. Sound(t) /\ ~t.nested /\ \A x : x \in UsedKeys(t) <=> x \in 1 .. Len(a) /\ a[x] # Nil
  BY <1>3, <1>4, <1>5, <1>6, NewTableSound
<1>8. hash \in [Keys -> Nat] /\ TagMethod \in Keys
  BY <1>1, KeyFacts, TableAssumption
<1>9. Get(t, TagMethod) = Nil
  BY <1>4, <1>7, <1>8, GetIs
<1> QED BY <1>1, <1>7, <1>9, IdleCounted DEF IInv, Idle

(* A step that leaves the table as it is. *)
LEMMA SameTable == Meant(t, t, Nothing)
BY MeantNothing

(* A store of v under k. *)
LEMMA StoreStepped ==
    ASSUME IInv, NEW k \in Keys, NEW v \in {k, Nil}, t' = Store(t, k, v), UNCHANGED <<hash, fresh>>,
           iter' = Disturbed(k, v), asked' = Asked(k, v), absent' \in BOOLEAN, absent' => absent /\ k # TagMethod
    PROVE  Stepped
<1>1. hash \in [Keys -> Nat] /\ Sound(t) /\ ~t.nested /\ Counted(t, iter)
  BY IInvFacts
<1>2. /\ Sound(t') /\ ~t'.nested
      /\ UsedKeys(t') = IF v = Nil THEN UsedKeys(t) \ {k} ELSE UsedKeys(t) \cup {k}
      /\ Has(t, k) => Len(t'.array) = Len(t.array) /\ \A x : FindIndex(t', x) = FindIndex(t, x)
  BY <1>1, StoreIs
<1>3. Counted(t', Disturbed(k, v)) /\ (~iter.on => Disturbed(k, v) = Idle)
  BY <1>1, <1>2, DisturbedCounted
<1>4. Meant(t', t, asked')
  BY <1>2, MeantStore
<1>5. absent' => TagMethod \notin UsedKeys(t')
  BY <1>2, IInvFacts
<1>6. fresh' => ~iter'.on
  BY <1>3, IInvFacts DEF Idle
<1>7. fresh' \in BOOLEAN
  BY IInvFacts
<1> QED BY <1>2, <1>3, <1>4, <1>5, <1>6, <1>7 DEF Stepped

LEMMA RawSetStep ==
    ASSUME IInv, NEW k \in Keys, NEW v \in {k, Nil}, RawSet(k, v) \/ RawSetI(k, v)
    PROVE  Stepped
<1>1. t' = Store(t, k, v) /\ iter' = Disturbed(k, v) /\ asked' = Asked(k, v) /\ UNCHANGED <<hash, fresh>>
  BY DEF RawSet, RawSetI
<1>2. CASE RawSet(k, v)
  <2>1. absent' = FALSE
    BY <1>2 DEF RawSet
  <2> QED BY <1>1, <2>1, StoreStepped
<1>3. CASE RawSetI(k, v)
  <2>1. k \in Ints /\ absent' = (absent /\ ~MustRehash(t, k))
    BY <1>3 DEF RawSetI
  <2>2. k # TagMethod
    BY <2>1, KeyFacts DEF Ints
  <2>3. absent' \in BOOLEAN /\ (absent' => absent)
    BY <2>1
  <2> QED BY <1>1, <2>2, <2>3, StoreStepped
<1> QED BY <1>2, <1>3

LEMMA SetTableStep ==
    ASSUME IInv, NEW k \in Keys, NEW v \in {k, Nil}, SetTable(k, v)
    PROVE  Stepped
<1> DEFINE set == SetKey(t, k)
           known == Get(set, TagMethod) # Nil
<1>1. hash \in [Keys -> Nat] /\ Sound(t) /\ ~t.nested /\ Counted(t, iter)
  BY IInvFacts
<1>2. /\ ~fresh /\ Get(t, k) = Nil /\ t' = (IF known THEN set ELSE Put(set, k, v)) /\ absent' = FALSE
      /\ iter' = (IF known /\ Has(t, k) THEN iter ELSE Disturbed(k, v))
      /\ asked' = (IF known THEN Nothing ELSE Asked(k, v)) /\ UNCHANGED <<hash, fresh>>
  BY DEF SetTable
<1>3. CASE ~known
  <2>1. t' = Store(t, k, v) /\ iter' = Disturbed(k, v) /\ asked' = Asked(k, v)
    BY <1>2, <1>3 DEF Store
  <2> QED BY <1>2, <2>1, StoreStepped
<1>4. CASE known
  <2>1. /\ Sound(set) /\ ~set.nested /\ UsedKeys(set) = UsedKeys(t) /\ (Has(t, k) => set = t)
    BY <1>1, SetKeyIs
  <2>2. t' = set
    BY <1>2, <1>4
  <2> HIDE DEF set
  <2>3. Counted(t', iter') /\ (~iter.on => ~iter'.on)
    <3>1. CASE Has(t, k)
      BY <1>1, <1>2, <1>4, <2>1, <2>2, <3>1
    <3>2. CASE ~Has(t, k)
      <4>1. iter' = Idle
        BY <1>2, <3>2 DEF Disturbed
      <4> QED BY <4>1, IdleCounted DEF Idle
    <3> QED BY <3>1, <3>2
  <2>4. Meant(t', t, asked')
    <3>1. asked' = Nothing
      BY <1>2, <1>4
    <3> QED BY <2>1, <2>2, <3>1, MeantNothing
  <2> HIDE DEF known
  <2> QED BY <1>2, <2>1, <2>2, <2>3, <2>4, IInvFacts DEF Stepped
<1> QED BY <1>3, <1>4

LEMMA FlagStep ==
    ASSUME IInv, FastTM \/ Constructed
    PROVE  Stepped
<1>1. hash \in [Keys -> Nat] /\ Sound(t) /\ ~t.nested /\ Counted(t, iter) /\ (absent => TagMethod \notin UsedKeys(t))
  BY IInvFacts
<1>2. t' = t /\ iter' = iter /\ hash' = hash /\ asked' = Nothing
  BY DEF FastTM, Constructed
<1>3. CASE FastTM
  <2>1. absent' = (absent \/ Get(t, TagMethod) = Nil) /\ fresh' = fresh
    BY <1>3 DEF FastTM
  <2>2. absent' => TagMethod \notin UsedKeys(t)
    BY <1>1, <2>1, KeyFacts, GetIs
  <2> QED BY <1>1, <1>2, <2>1, <2>2, SameTable, IInvFacts DEF Stepped
<1>4. CASE Constructed
  <2>1. absent' = absent /\ fresh' = FALSE
    BY <1>4 DEF Constructed
  <2> QED BY <1>1, <1>2, <2>1, SameTable, IInvFacts DEF Stepped
<1> QED BY <1>3, <1>4

LEMMA ForEachStep ==
    ASSUME IInv, NEW k \in Watched \cup {Nil}, ForEach(k)
    PROVE  Stepped
<1>1. hash \in [Keys -> Nat] /\ Sound(t) /\ ~t.nested /\ (absent => TagMethod \notin UsedKeys(t))
  BY IInvFacts
<1>2. /\ ~fresh /\ (k # Nil => Get(t, k) # Nil) /\ iter' = [Idle EXCEPT !.on = TRUE, !.watched = k]
      /\ asked' = Nothing /\ UNCHANGED <<hash, t, absent, fresh>>
  BY DEF ForEach
<1>3. iter' = [on |-> TRUE, key |-> Nil, watched |-> k, seen |-> 0, invalid |-> FALSE]
  BY <1>2 DEF Idle
<1>4. iter' \in Traversals /\ iter'.on /\ iter'.key = Nil /\ iter'.watched = k /\ iter'.seen = 0 /\ ~iter'.invalid
  BY <1>3 DEF Traversals
<1>5. FindIndex(t, Nil) = {0} /\ Index(t, Nil) = 0
  BY DEF FindIndex, Index
<1>6. ASSUME k # Nil PROVE ~(Index(t, k) <= 0)
  <2>1. k \in Keys
    BY <1>6, TableAssumption
  <2>2. k \in UsedKeys(t)
    BY <1>1, <1>2, <1>6, <2>1, GetIs
  <2>3. PICK j \in 1 .. Len(t.array) + Len(t.node) :
            FindIndex(t, k) = {j} /\ Entry(t, j).key = k /\ Entry(t, j).val # Nil
    BY <1>1, <2>2, IndexOfUsed
  <2>4. Index(t, k) = j
    BY <2>3 DEF Index
  <2>5. j >= 1 /\ j \in Int
    OBVIOUS
  <2> QED BY <2>4, <2>5
<1>7. Counted(t, iter')
  BY <1>2, <1>4, <1>5, <1>6 DEF Counted
<1> QED BY <1>1, <1>2, <1>7, SameTable, IInvFacts DEF Stepped

LEMMA NextEntryStep ==
    ASSUME IInv, NextEntry
    PROVE  Stepped
<1>1. hash \in [Keys -> Nat] /\ Sound(t) /\ ~t.nested /\ Counted(t, iter) /\ (absent => TagMethod \notin UsedKeys(t))
  BY IInvFacts
<1>2. UNCHANGED <<hash, t, absent, fresh>> /\ iter.on /\ asked' = Nothing
  BY DEF NextEntry
<1>3. Counted(t, iter')
  BY <1>1, NextEntryCounted
<1>4. ~fresh
  BY <1>2, IInvFacts
<1> QED BY <1>1, <1>2, <1>3, <1>4, SameTable, IInvFacts DEF Stepped

LEMMA SetListStep ==
    ASSUME IInv, NEW n \in 1 .. MaxInt, NEW S \in SUBSET (1 .. n),
           SetList([i \in 1 .. n |-> IF i \in S THEN i ELSE Nil])
    PROVE  Stepped
<1> DEFINE list == [i \in 1 .. n |-> IF i \in S THEN i ELSE Nil]
           h == IF n > Len(t.array) THEN Resize(t, n, Len(t.node)) ELSE t
<1>0. hash \in [Keys -> Nat] /\ Sound(t) /\ ~t.nested /\ (absent => TagMethod \notin UsedKeys(t)) /\ (fresh => ~iter.on)
      /\ (~iter.on => iter = Idle) /\ absent \in BOOLEAN
  BY IInvFacts
<1>1. n \in Nat
  BY KeyFacts
<1>2. Len(list) = n /\ DOMAIN list = 1 .. n /\ \A i \in 1 .. n : list[i] \in {i, Nil}
  BY <1>1
<1>3. SetList(list)
  OBVIOUS
<1>10. n \in Ints /\ 1 .. n \subseteq Ints
  BY <1>1, KeyFacts DEF Ints
<1>11. list \in [1 .. n -> Keys \cup {Nil}]
  BY <1>10 DEF Keys
<1> HIDE DEF list
<1>4. fresh /\ t' = Stored(h, n, list) /\ asked' = list /\ UNCHANGED <<hash, fresh, iter>>
  BY <1>2, <1>3 DEF SetList, Stored
<1>5. absent' \in BOOLEAN /\ (absent' => absent)
  BY <1>0, <1>3 DEF SetList
<1> HIDE DEF h
<1>6. /\ Sound(t') /\ ~t'.nested /\ \A x : x \notin 1 .. n => (x \in UsedKeys(t') <=> x \in UsedKeys(t))
      /\ \A x \in 1 .. n : x \in UsedKeys(t') <=> list[x] # Nil
  BY <1>0, <1>2, <1>4, SetListIs DEF h
<1>7. Meant(t', t, asked')
  <2>1. Map!IsSetList(list)
    BY <1>10, <1>11 DEF Map!IsSetList
  <2> QED BY <1>2, <1>4, <1>6, <2>1 DEF Meant
<1>8. TagMethod \notin 1 .. n
  BY KeyFacts
<1>9. Counted(t', iter')
  BY <1>0, <1>4, IdleCounted
<1> QED BY <1>0, <1>4, <1>5, <1>6, <1>7, <1>8, <1>9, IInvFacts DEF Stepped

LEMMA TraverseStep ==
    ASSUME IInv, Traverse
    PROVE  Stepped
<1> DEFINE N == Len(t.node)
           mark(p) == [t.node[p] EXCEPT !.dead = @ \/ (t.node[p].val = Nil /\ t.node[p].key \in Collectable)]
           nodes == [p \in DOMAIN t.node |-> mark(p)]
<1>1. hash \in [Keys -> Nat] /\ Sound(t) /\ ~t.nested /\ Counted(t, iter) /\ (absent => TagMethod \notin UsedKeys(t))
  BY IInvFacts
<1>2. UNCHANGED <<hash, absent, fresh, iter>> /\ asked' = Nothing /\ t' = [t EXCEPT !.node = nodes]
  BY DEF Traverse
<1>3. /\ Shaped(t) /\ t \in Tables /\ N \in Nat /\ DOMAIN t.node = 1 .. N
      /\ \A p \in 1 .. N : t.node[p] \in Nodes
  <2>1. Shaped(t)
    BY <1>1, SoundFacts
  <2>2. t \in Tables
    BY <2>1 DEF Shaped
  <2> QED BY <2>1, <2>2, ShapedFacts
<1>4. ASSUME NEW p \in 1 .. N
      PROVE  /\ mark(p) \in Nodes /\ mark(p).key = t.node[p].key /\ mark(p).val = t.node[p].val
             /\ mark(p).next = t.node[p].next
             /\ mark(p).dead = (t.node[p].dead \/ (t.node[p].val = Nil /\ t.node[p].key \in Collectable))
  <2> DEFINE n == t.node[p]
             d == n.dead \/ (n.val = Nil /\ n.key \in Collectable)
  <2>1. n \in Nodes
    BY <1>3
  <2>2. d \in BOOLEAN
    BY <2>1 DEF Nodes
  <2>3. mark(p) = [n EXCEPT !.dead = d]
    OBVIOUS
  <2> HIDE DEF mark, n, d
  <2>4. mark(p) \in Nodes /\ mark(p).key = n.key /\ mark(p).val = n.val /\ mark(p).next = n.next /\ mark(p).dead = d
    BY <2>1, <2>2, <2>3 DEF Nodes
  <2> QED BY <2>4 DEF n, d
<1> HIDE DEF mark
<1>5. nodes \in Seq(Nodes) /\ Len(nodes) = N /\ \A p \in 1 .. N : nodes[p] = mark(p)
  BY <1>3, <1>4
<1> HIDE DEF nodes
<1>6. t' \in Tables /\ t'.array = t.array /\ t'.node = nodes /\ t'.lastfree = t.lastfree /\ t'.nested = t.nested
  BY <1>2, <1>3, <1>5, NodesEdited
<1>7. Unmoved(t, t')
  BY <1>4, <1>5, <1>6 DEF Unmoved
<1>8. \A i \in 1 .. Len(t.array) : t'.array[i] \in {i, Nil}
  BY <1>3, <1>6, ShapedFacts
<1>9. \A p \in 1 .. Len(t.node) :
          /\ t'.node[p].next = t.node[p].next /\ t'.node[p].val \in {t.node[p].key, Nil}
          /\ t.node[p].dead => t'.node[p].dead
          /\ t'.node[p].dead => t'.node[p].val = Nil /\ t.node[p].key \in Collectable
  <2>1. \A p \in 1 .. N : /\ t.node[p].val \in {t.node[p].key, Nil}
                          /\ t.node[p].dead => t.node[p].val = Nil /\ t.node[p].key \in Collectable
    BY <1>3, ShapedFacts
  <2> QED BY <1>4, <1>5, <1>6, <2>1
<1>10. Sound(t') /\ \A k : FindIndex(t', k) = FindIndex(t, k)
  BY <1>1, <1>6, <1>7, <1>8, <1>9, UnmovedSound
<1>11. UsedKeys(t') = UsedKeys(t)
  <2>1. Shaped(t')
    BY <1>10, SoundFacts
  <2>2. \A p \in 1 .. N : t'.node[p].key = t.node[p].key /\ t'.node[p].val = t.node[p].val
    BY <1>4, <1>5, <1>6
  <2>3. Holds(t, t') /\ Holds(t', t)
    BY <1>5, <1>6, <2>2 DEF Holds
  <2> QED BY <1>3, <1>6, <2>1, <2>3, SameUsedKeys
<1>12. Counted(t', iter')
  <2>1. iter.on /\ iter.watched # Nil => iter.watched \in UsedKeys(t')
    <3>1. iter \in Traversals
      BY IInvFacts
    <3>2. iter.watched # Nil => iter.watched \in Keys
      BY <3>1, TableAssumption DEF Traversals
    <3>3. iter.on /\ iter.watched # Nil => Get(t, iter.watched) # Nil
      BY <1>1 DEF Counted
    <3> QED BY <1>1, <1>11, <3>2, <3>3, GetIs
  <2>2. Counted(t', iter)
    BY <1>1, <1>10, <2>1, CountedKept
  <2> QED BY <1>2, <2>2
<1>13. Meant(t', t, asked')
  BY <1>2, <1>11, MeantNothing
<1> QED BY <1>1, <1>2, <1>6, <1>10, <1>11, <1>12, <1>13, SameTable, IInvFacts DEF Stepped

LEMMA ClearWeakStep ==
    ASSUME IInv, NEW k \in Keys, ClearWeak(k)
    PROVE  Stepped
<1> DEFINE N == Len(t.node)
           n == Find(t, k, FALSE)
<1>1. /\ hash \in [Keys -> Nat] /\ Sound(t) /\ ~t.nested /\ Counted(t, iter)
      /\ (absent => TagMethod \notin UsedKeys(t)) /\ absent \in BOOLEAN
  BY IInvFacts
<1>2. /\ ~fresh /\ Get(t, k) # Nil /\ iter' = Disturbed(k, Nil) /\ asked' = Asked(k, Nil)
      /\ UNCHANGED <<hash, absent, fresh>>
      /\ t' = IF InArray(t, k) THEN Put(t, k, Nil)
              ELSE [t EXCEPT !.node[n].val = Nil, !.node[n].dead = k \in Collectable]
  BY DEF ClearWeak
<1>3. k \in UsedKeys(t) /\ Has(t, k)
  BY <1>1, <1>2, GetIs
<1> DEFINE r == Put(t, k, Nil)
<1>4. /\ Sound(r) /\ Unmoved(t, r) /\ UsedKeys(r) = UsedKeys(t) \ {k}
      /\ \A p \in 1 .. N : r.node[p].dead = t.node[p].dead
      /\ \A x : FindIndex(r, x) = FindIndex(t, x)
  BY <1>1, <1>3, PutSound
<1>5. Sound(t') /\ ~t'.nested /\ UsedKeys(t') = UsedKeys(t) \ {k} /\ \A x : FindIndex(t', x) = FindIndex(t, x)
  <2>1. CASE InArray(t, k)
    <3>1. t' = r
      BY <1>2, <2>1
    <3> HIDE DEF r
    <3> QED BY <1>1, <1>4, <3>1 DEF Unmoved
  <2>2. CASE ~InArray(t, k)
    <3> DEFINE d == k \in Collectable
               e == [r.node[n] EXCEPT !.dead = d]
               nodes == [r.node EXCEPT ![n] = e]
    <3>1. t' = [r EXCEPT !.node = nodes]
      BY <1>2, <2>2 DEF Put
    <3> HIDE DEF r
    <3>2. Shaped(t) /\ Shaped(r) /\ r \in Tables /\ k # Nil
      BY <1>1, <1>4, SoundFacts, KeyFacts DEF Shaped
    <3>3. Len(r.node) = N /\ Len(r.array) = Len(t.array) /\ ~r.nested /\ \A p \in 1 .. N : r.node[p].key = t.node[p].key
      BY <1>1, <1>4 DEF Unmoved
    <3>4. n \in 1 .. N /\ t.node[n].key = k /\ ~t.node[n].dead
      <4>1. n # 0
        BY <1>3, <2>2 DEF Has
      <4>2. n # 0 => /\ n \in 1 .. N /\ t.node[n].key = k /\ ~t.node[n].dead
                     /\ \A q \in 1 .. N : t.node[q].key = k /\ ~t.node[q].dead => q = n
        BY <1>1, FindLive
      <4> QED BY <4>1, <4>2
    <3> HIDE DEF n
    <3>5. r.node[n] \in Nodes /\ r.node \in Seq(Nodes) /\ r.node[n].key = k
      BY <3>2, <3>3, <3>4, ShapedFacts
    <3>6. r.node[n].val = Nil
      <4>1. k \notin UsedKeys(r)
        BY <1>4
      <4> QED BY <3>2, <3>3, <3>4, <3>5, <4>1, UsedKeysAre
    <3>7. e \in Nodes /\ e.key = k /\ e.dead = d /\ e.val = Nil /\ e.next = r.node[n].next
      <4>1. d \in BOOLEAN
        OBVIOUS
      <4> HIDE DEF d
      <4> QED BY <3>5, <3>6, <4>1 DEF Nodes
    <3> HIDE DEF e
    <3>8. nodes \in Seq(Nodes) /\ Len(nodes) = N /\ \A p \in 1 .. N : nodes[p] = IF p = n THEN e ELSE r.node[p]
      BY <3>3, <3>4, <3>5, <3>7, ExceptSeq
    <3> HIDE DEF nodes
    <3>9. t' \in Tables /\ t'.array = r.array /\ t'.node = nodes /\ t'.lastfree = r.lastfree /\ t'.nested = r.nested
      BY <3>1, <3>2, <3>8, NodesEdited
    <3>10. \A p \in 1 .. N :
              /\ t'.node[p].key = r.node[p].key /\ t'.node[p].val = r.node[p].val
              /\ t'.node[p].next = r.node[p].next
              /\ t'.node[p].dead = IF p = n THEN d ELSE r.node[p].dead
      BY <3>5, <3>6, <3>7, <3>8, <3>9
    <3>11. Unmoved(r, t')
      BY <3>3, <3>8, <3>9, <3>10 DEF Unmoved
    <3>12. \A i \in 1 .. Len(r.array) : t'.array[i] \in {i, Nil}
      BY <3>2, <3>9, ShapedFacts
    <3>13. ~r.node[n].dead
      BY <1>4, <3>4
    <3>14. \A p \in 1 .. Len(r.node) :
              /\ t'.node[p].next = r.node[p].next /\ t'.node[p].val \in {r.node[p].key, Nil}
              /\ r.node[p].dead => t'.node[p].dead
              /\ t'.node[p].dead => t'.node[p].val = Nil /\ r.node[p].key \in Collectable
      <4>1. \A p \in 1 .. N : /\ r.node[p].val \in {r.node[p].key, Nil}
                              /\ r.node[p].dead => r.node[p].val = Nil /\ r.node[p].key \in Collectable
        BY <3>2, <3>3, ShapedFacts
      <4> QED BY <3>3, <3>5, <3>6, <3>10, <3>13, <4>1
    <3>15. Sound(t') /\ \A x : FindIndex(t', x) = FindIndex(r, x)
      BY <1>1, <1>4, <3>9, <3>11, <3>12, <3>14, UnmovedSound
    <3>16. UsedKeys(t') = UsedKeys(r)
      <4>1. Shaped(t')
        BY <3>15, SoundFacts
      <4>2. Holds(r, t') /\ Holds(t', r)
        BY <3>3, <3>8, <3>9, <3>10 DEF Holds
      <4> QED BY <3>2, <3>9, <4>1, <4>2, SameUsedKeys
    <3> QED BY <1>4, <3>3, <3>9, <3>15, <3>16
  <2> QED BY <2>1, <2>2
<1> HIDE DEF r
<1>6. Counted(t', iter') /\ (~iter.on => ~iter'.on)
  <2>1. Nil \in {k, Nil} /\ UsedKeys(t') = IF Nil = Nil THEN UsedKeys(t) \ {k} ELSE UsedKeys(t) \cup {k}
    BY <1>5
  <2>2. Counted(t', Disturbed(k, Nil)) /\ (~iter.on => Disturbed(k, Nil) = Idle)
    BY <1>1, <1>5, <2>1, DisturbedCounted
  <2> QED BY <1>2, <2>2 DEF Idle
<1>7. Meant(t', t, asked')
  <2>1. Nil \in {k, Nil} /\ UsedKeys(t') = IF Nil = Nil THEN UsedKeys(t) \ {k} ELSE UsedKeys(t) \cup {k}
    BY <1>5
  <2>2. Meant(t', t, Asked(k, Nil))
    BY <2>1, MeantStore
  <2> QED BY <1>2, <2>2
<1>8. absent' => TagMethod \notin UsedKeys(t')
  BY <1>1, <1>2, <1>5
<1> QED BY <1>1, <1>2, <1>5, <1>6, <1>7, <1>8, IInvFacts DEF Stepped


LEMMA NextStepped ==
    ASSUME IInv, Next
    PROVE  Stepped
<1>1. CASE \E k \in Keys, v \in BOOLEAN :
              LET value == IF v THEN k ELSE Nil
              IN  RawSet(k, value) \/ RawSetI(k, value) \/ SetTable(k, value)
  <2>1. PICK k \in Keys, v \in BOOLEAN :
            \/ RawSet(k, IF v THEN k ELSE Nil) \/ RawSetI(k, IF v THEN k ELSE Nil)
            \/ SetTable(k, IF v THEN k ELSE Nil)
    BY <1>1
  <2> DEFINE value == IF v THEN k ELSE Nil
  <2>2. value \in {k, Nil}
    OBVIOUS
  <2>3. RawSet(k, value) \/ RawSetI(k, value) \/ SetTable(k, value)
    BY <2>1
  <2> HIDE DEF value
  <2> QED BY <2>2, <2>3, RawSetStep, SetTableStep
<1>2. CASE \E n \in 1 .. MaxInt : \E S \in SUBSET (1 .. n) : SetList([i \in 1 .. n |-> IF i \in S THEN i ELSE Nil])
  BY <1>2, SetListStep
<1>3. CASE FastTM \/ Constructed
  BY <1>3, FlagStep
<1>4. CASE Traverse
  BY <1>4, TraverseStep
<1>5. CASE NextEntry
  BY <1>5, NextEntryStep
<1>6. CASE \E k \in Keys : ClearWeak(k)
  BY <1>6, ClearWeakStep
<1>7. CASE \E k \in Watched \cup {Nil} : ForEach(k)
  BY <1>7, ForEachStep
<1> QED BY <1>1, <1>2, <1>3, <1>4, <1>5, <1>6, <1>7 DEF Next

LEMMA StutterStepped ==
    ASSUME IInv, UNCHANGED vars
    PROVE  Stepped
<1>1. hash' = hash /\ t' = t /\ absent' = absent /\ fresh' = fresh /\ iter' = iter /\ asked' = asked
  BY DEF vars
<1> QED BY <1>1, IInvFacts DEF Stepped

LEMMA IInvAlways == Spec => []IInv
<1>1. Init => IInv
  BY InitIInv
<1>2. IInv /\ [Next]_vars => IInv'
  <2>1. SUFFICES ASSUME IInv, [Next]_vars PROVE IInv'
    OBVIOUS
  <2>2. Stepped
    BY <2>1, NextStepped, StutterStepped
  <2> QED BY <2>1, <2>2, SteppedIInv
<1> QED BY <1>1, <1>2, PTL DEF Spec

-----------------------------------------------------------------------------
(* The properties. *)

LEMMA IInvTypeOK ==
    ASSUME IInv
    PROVE  TypeOK
<1>1. /\ hash \in Hashes /\ absent \in BOOLEAN /\ fresh \in BOOLEAN
      /\ Shaped(t) /\ iter \in Traversals
  BY IInvFacts, SoundFacts
<1>2. \A i \in DOMAIN t.array : t.array[i] \in {i, Nil}
  BY <1>1, ShapedFacts
<1>3. ASSUME NEW n \in ToSet(t.node)
      PROVE  /\ n.key \in Keys \cup {Nil} /\ n.val \in {n.key, Nil} /\ n.next \in 0 .. Len(t.node)
             /\ n.dead => n.val = Nil /\ n.key \in Collectable
  <2>1. PICK p \in DOMAIN t.node : n = t.node[p]
    BY DEF ToSet
  <2>2. p \in 1 .. Len(t.node)
    BY <1>1, <2>1, ShapedFacts
  <2> QED BY <1>1, <2>1, <2>2, ShapedFacts
<1>4. Len(t.node) \in Powers(Len(t.node)) \cup {0}
  BY <1>1 DEF Shaped
<1>5. t.lastfree \in 0 .. Len(t.node)
  BY <1>1, ShapedFacts
<1>6. iter.key \in Keys \cup {Nil} /\ iter.watched \in Watched \cup {Nil}
  BY <1>1 DEF Traversals
<1> QED BY <1>1, <1>2, <1>3, <1>4, <1>5, <1>6 DEF TypeOK

LEMMA IInvNodesSound ==
    ASSUME IInv
    PROVE  NodesSound
<1>1. /\ Sound(t) /\ ~t.nested /\ hash \in [Keys -> Nat] /\ Shaped(t) /\ Unused(t)
      /\ Ending(Nexts(t)) /\ DOMAIN t.node = 1 .. Len(t.node) /\ Len(t.node) \in Nat /\ t.lastfree \in 0 .. Len(t.node)
  <2>1. Sound(t) /\ ~t.nested /\ hash \in [Keys -> Nat]
    BY IInvFacts
  <2>2. Shaped(t) /\ Unused(t) /\ Ending(Nexts(t))
    BY <2>1, SoundFacts
  <2> QED BY <2>1, <2>2, ShapedFacts
<1>2. ASSUME NEW p \in t.lastfree + 1 .. Len(t.node) PROVE t.node[p].key # Nil
  <2>1. p \in 1 .. Len(t.node) /\ ~(p <= t.lastfree)
    BY <1>1
  <2> QED BY <1>1, <2>1 DEF Unused
<1>3. ASSUME NEW p \in DOMAIN t.node PROVE Chain(t, p)[Len(t.node)] = 0
  BY <1>1, <1>3, ChainEnds
<1>4. ASSUME NEW p \in DOMAIN t.node, t.node[p].val # Nil, NEW mp, mp = MainPosition(t, t.node[p].key)
      PROVE  /\ MainPosition(t, t.node[mp].key) = mp /\ p \in Range(Chain(t, mp))
             /\ ~InArray(t, t.node[p].key)
  <2>1. p \in 1 .. Len(t.node) /\ t.node[p].key # Nil
    BY <1>1, <1>4, ShapedFacts
  <2>2. /\ ~InArray(t, t.node[p].key) /\ t.node[p].key \in Keys /\ mp \in 1 .. Len(t.node)
        /\ t.node[mp].key # Nil /\ MainPosition(t, t.node[mp].key) = mp
        /\ Joined(Nexts(t), mp, p)
    BY <1>1, <1>4, <2>1, HomeIs
  <2>3. p \in Range(Chain(t, mp))
    BY <1>1, <2>2, ChainEnds
  <2> QED BY <2>2, <2>3
<1>5. ASSUME NEW p \in DOMAIN t.node, NEW q \in DOMAIN t.node,
             t.node[p].key = t.node[q].key, t.node[p].key # Nil, ~t.node[p].dead, ~t.node[q].dead
      PROVE  p = q
  <2>1. First(t, p)
    BY <1>1, <1>5, SoundFacts
  <2> QED BY <1>1, <1>5, <2>1 DEF First
<1>6. TypeOK
  BY IInvTypeOK
<1> QED BY <1>1, <1>2, <1>3, <1>4, <1>5, <1>6 DEF NodesSound

(* The node part is sound in every reachable state: each element out of    *)
(* its main position collides with one in its own, whose chain leads to it *)
(* and ends; no key is live in two places; and a rehash makes the table so *)
(* large that storing its entries again never rehashes it again            *)
(* (ltable.c: newkey, resize, numusehash, computesizes).                   *)
THEOREM NodesAreSound == Spec => []NodesSound
<1>1. IInv => NodesSound
  BY IInvNodesSound
<1> QED BY <1>1, IInvAlways, PTL

(* The length of a table is a border in every reachable state, however its *)
(* integers are spread over both parts (luaH_getn, unbound_search).        *)
THEOREM LengthsAreBorders == Spec => []LengthIsBorder
<1>1. IInv => LengthIsBorder
  <2>1. SUFFICES ASSUME IInv PROVE LengthIsBorder
    OBVIOUS
  <2>2. Sound(t) /\ hash \in [Keys -> Nat]
    BY <2>1, IInvFacts
  <2> QED BY <2>2, GetnIsBorder DEF LengthIsBorder
<1> QED BY <1>1, IInvAlways, PTL

(* A metamethod cached as absent is absent, also when the table that loses *)
(* or gains it is its own metatable (the flags of ltm.c and ltable.c).     *)
THEOREM AbsenceIsCached == Spec => []CachedAbsence
<1>1. IInv => CachedAbsence
  BY DEF IInv, CachedAbsence
<1> QED BY <1>1, IInvAlways, PTL

LEMMA NextVisits ==
    ASSUME IInv, [Next]_vars
    PROVE  /\ ~iter'.invalid /\ iter'.seen <= 1
           /\ (~iter'.on /\ iter.watched # Nil /\ NextEntry) => iter.seen = 1
<1>1. Counted(t', iter')
  BY NextStepped, StutterStepped DEF Stepped
<1>2. ~iter'.invalid /\ iter'.seen <= 1
  <2>1. ~iter'.on => iter'.seen = 0
    BY <1>1 DEF Counted, Idle
  <2>2. iter'.on => iter'.seen \in {0, 1}
    BY <1>1 DEF Counted
  <2>3. ~iter'.invalid
    BY <1>1 DEF Counted
  <2> QED BY <2>1, <2>2, <2>3
<1>3. ASSUME ~iter'.on, iter.watched # Nil, NextEntry PROVE iter.seen = 1
  BY <1>3, IInvFacts, NextEntryCounted
<1> QED BY <1>2, <1>3

(* A traversal that only clears and changes fields never fails on its key, *)
(* returns no entry twice, and when it ends it has returned each entry     *)
(* that had a value throughout (luaH_next; LuaTable.ForEach).              *)
THEOREM TraversalsVisit == Spec => TraversalVisits
<1>1. IInv /\ [Next]_vars =>
         [/\ ~iter'.invalid /\ iter'.seen <= 1
          /\ (~iter'.on /\ iter.watched # Nil /\ NextEntry) => iter.seen = 1]_vars
  BY NextVisits
<1> QED BY <1>1, IInvAlways, PTL DEF Spec, TraversalVisits

-----------------------------------------------------------------------------
(* A table is a map. *)

LEMMA InitMaps ==
    ASSUME Init
    PROVE  Map!Init
<1>1. IInv
  BY InitIInv
<1>2. PICK narray \in 0 .. MaxInt, nhash \in 0 .. MaxNodes : t = NewTable([i \in 1 .. narray |-> Nil], nhash)
  BY DEF Init
<1> DEFINE a == [i \in 1 .. narray |-> Nil]
<1>3. narray \in Nat /\ nhash \in Nat
  BY TableAssumption
<1>4. a \in Seq(Keys \cup {Nil}) /\ Len(a) = narray /\ \A i \in 1 .. narray : a[i] = Nil
  BY <1>3
<1>5. t = NewTable(a, nhash)
  BY <1>2
<1> HIDE DEF a
<1>6. \A i \in 1 .. Len(a) : a[i] \in {i, Nil}
  BY <1>4
<1>7. \A x : x \in UsedKeys(t) <=> x \in 1 .. Len(a) /\ a[x] # Nil
  BY <1>3, <1>4, <1>5, <1>6, NewTableSound
<1>8. \A k \in Keys : Get(t, k) = Nil
  BY <1>1, <1>4, <1>7, IInvFacts, GetIs
<1>9. asked = Map!Nothing
  BY DEF Init, Nothing, Map!Nothing
<1> QED BY <1>8, <1>9 DEF Map!Init

LEMMA NextMaps ==
    ASSUME IInv, [Next]_vars
    PROVE  [Map!Next]_<<[k \in Keys |-> Get(t, k)], asked>>
<1> DEFINE old == [k \in Keys |-> Get(t, k)]
           new == [k \in Keys |-> Get(t', k)]
<1>1. Stepped
  BY NextStepped, StutterStepped
<1>2. hash' = hash /\ hash \in [Keys -> Nat] /\ Sound(t) /\ Sound(t')
  BY <1>1, IInvFacts DEF Stepped
<1>3. ([k \in Keys |-> Get(t, k)])' = new
  <2>1. \A k : Get(t, k)' = Get(t', k)
    BY <1>2, HashKept
  <2> QED BY <2>1
<1>4. \A k \in Keys : /\ Get(t, k) = IF k \in UsedKeys(t) THEN k ELSE Nil
                      /\ Get(t', k) = IF k \in UsedKeys(t') THEN k ELSE Nil
  BY <1>2, GetIs
<1>5. CASE t' = t /\ asked' = asked
  BY <1>3, <1>5
<1>6. CASE Meant(t', t, asked')
  <2>1. asked' = Map!Nothing \/ Map!IsStore(asked') \/ Map!IsSetList(asked')
    BY <1>6 DEF Meant
  <2>2. ASSUME NEW k \in Keys
        PROVE  Get(t', k) = IF k \in DOMAIN asked' THEN asked'[k] ELSE Get(t, k)
    <3>1. /\ k \in DOMAIN asked' => asked'[k] \in {k, Nil}
          /\ k \in UsedKeys(t') <=> IF k \in DOMAIN asked' THEN asked'[k] # Nil ELSE k \in UsedKeys(t)
      BY <1>6 DEF Meant
    <3>2. k # Nil
      BY KeyFacts
    <3>3. CASE k \in DOMAIN asked'
      BY <1>4, <3>1, <3>2, <3>3
    <3>4. CASE k \notin DOMAIN asked'
      BY <1>4, <3>1, <3>4
    <3> QED BY <3>3, <3>4
  <2>3. new = Map!After(old, asked')
    BY <2>2 DEF Map!After
  <2> HIDE DEF new, old
  <2>4. Map!Next
    BY <1>3, <2>1, <2>3 DEF Map!Next, old
  <2> QED BY <2>4
<1> QED BY <1>1, <1>5, <1>6 DEF Stepped

(* A table implements the map that those who index it see: a store gives   *)
(* its own key its value, the list of a constructor the first integers,    *)
(* and a collector empties the entry it clears.  What the table does for   *)
(* it (a rehash, a move of a colliding node, the passage of an integer     *)
(* between the parts, a dead key) changes nothing under any other key, and *)
(* lookups, traversals and the mark phase nothing at all (ltable.c).       *)
THEOREM TableImplementsMap == Spec => ImplementsMap
<1>1. Init => Map!Init
  BY InitMaps
<1>2. IInv /\ [Next]_vars => [Map!Next]_<<[k \in Keys |-> Get(t, k)], asked>>
  BY NextMaps
<1> QED BY <1>1, <1>2, IInvAlways, PTL DEF Spec, ImplementsMap, Map!Spec
=============================================================================
