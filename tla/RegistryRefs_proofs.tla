------------------------- MODULE RegistryRefs_proofs -------------------------
(***************************************************************************)
(* Proofs about RegistryRefs: the list of free slots stays sound through   *)
(* every call and every memory error, no reference in use is overwritten,  *)
(* and the table implements a pool of references.                          *)
(***************************************************************************)
EXTENDS RegistryRefs, FiniteSetTheorems, TLAPS

(* The inductive invariant.  SlotIntegrity alone is not inductive: that    *)
(* the slot luaL_ref takes is free rests on the shape of the whole list.   *)
Shape ==
    \E n \in 0 .. MaxRef : \E s \in [1 .. n -> Slots \ held] :
        IsFreeList(n, s) /\ (~failed => IsDense(n, s))

IInv ==
    /\ TypeOK
    /\ \A r \in held : reg[r] \in Objects
    /\ Shape

(* A list that meets no slot twice is no longer than the table. *)
LEMMA FreeListFits ==
    ASSUME NEW n \in Nat, NEW s \in [1 .. n -> Slots],
           \A i, j \in 1 .. n : s[i] = s[j] => i = j
    PROVE  n <= MaxRef
<1>1. /\ IsFiniteSet(1 .. n) /\ Cardinality(1 .. n) = n
      /\ IsFiniteSet(Slots) /\ Cardinality(Slots) = MaxRef
  <2>1. n \in Int /\ 1 \in Int /\ MaxRef \in Int
    BY MaxRefAssumption
  <2> QED BY <2>1, MaxRefAssumption, FS_Interval DEF Slots
<1>2. SUFFICES ASSUME MaxRef < n PROVE FALSE
  BY MaxRefAssumption
<1>3. \E i, j \in 1 .. n : i # j /\ s[i] = s[j]
  BY <1>1, <1>2, FS_PigeonHole
<1> QED BY <1>3

(* In a sound table, the index luaL_ref takes is free, whichever border    *)
(* lua_objlen returns.                                                     *)
LEMMA ChoiceIsFree ==
    ASSUME IInv
    PROVE  \A r \in RefChoices(reg) : r \in Nat /\ r > 0 /\ r \notin held
<1> SUFFICES ASSUME NEW r \in RefChoices(reg)
             PROVE  r \in Nat /\ r > 0 /\ r \notin held
  OBVIOUS
<1>1. PICK n \in 0 .. MaxRef : \E s \in [1 .. n -> Slots \ held] : IsFreeList(n, s)
  BY DEF IInv, Shape
<1>2. PICK s \in [1 .. n -> Slots \ held] : IsFreeList(n, s)
  BY <1>1
<1>3. CASE FirstFree(reg) # 0
  <2>1. r = ToInteger(reg[0])
    BY <1>3 DEF RefChoices, FirstFree, FREELIST_REF
  <2>2. n # 0
    BY <1>2, <1>3, ObjectsAssumption DEF IsFreeList, FirstFree, ToInteger, FREELIST_REF
  <2>3. reg[0] = s[1] /\ 1 \in 1 .. n
    BY <1>2, <2>2, MaxRefAssumption DEF IsFreeList, FREELIST_REF
  <2>4. s[1] \in Slots \ held
    BY <2>3
  <2> QED BY <2>1, <2>3, <2>4, MaxRefAssumption DEF ToInteger, Slots
<1>4. CASE FirstFree(reg) = 0
  <2>1. PICK b \in Borders(reg) : r = b + 1
    BY <1>4 DEF RefChoices
  <2>2. b \in 0 .. MaxRef /\ (b = MaxRef \/ reg[b + 1] = Nil)
    BY <2>1 DEF Borders
  <2>3. held \subseteq 1 .. MaxRef /\ \A q \in held : reg[q] # Nil
    BY ObjectsAssumption DEF IInv, TypeOK, Slots
  <2> QED BY <2>1, <2>2, <2>3, MaxRefAssumption
<1> QED BY <1>3, <1>4

-----------------------------------------------------------------------------
(* What each step of luaL_ref and luaL_unref does to the list. *)

LEMMA InitIInv == Init => IInv
<1> SUFFICES ASSUME Init PROVE IInv
  OBVIOUS
<1>1. TypeOK
  BY MaxRefAssumption DEF Init, TypeOK, Value, Slots
<1>2. \A r \in held : reg[r] \in Objects
  BY DEF Init
<1>3. Shape
  <2> DEFINE s == [i \in 1 .. 0 |-> 1]
  <2>1. s \in [1 .. 0 -> Slots \ held]
    OBVIOUS
  <2>2. IsFreeList(0, s)
    BY MaxRefAssumption DEF Init, IsFreeList, FREELIST_REF, Slots
  <2>3. 0 \in 0 .. MaxRef
    BY MaxRefAssumption
  <2>4. IsDense(0, s)
    <3>1. held \cup {s[i] : i \in 1 .. 0} = 1 .. 0
      BY DEF Init
    <3> HIDE DEF s
    <3> QED BY <3>1, <2>3 DEF IsDense
  <2> HIDE DEF s
  <2> QED BY <2>1, <2>2, <2>3, <2>4 DEF Shape
<1> QED BY <1>1, <1>2, <1>3 DEF IInv

(* The slot that leaves the list, when the list is not empty. *)
LEMMA HeadOfList ==
    ASSUME TypeOK, NEW n \in 0 .. MaxRef, NEW s \in [1 .. n -> Slots \ held],
           IsFreeList(n, s), NEW r \in RefChoices(reg), FirstFree(reg) # 0
    PROVE  /\ n # 0 /\ n - 1 \in 0 .. MaxRef
           /\ 1 \in 1 .. n /\ r = s[1] /\ reg[0] = r
           /\ r \in Slots \ held
<1>1. n # 0
  BY ObjectsAssumption DEF IsFreeList, FirstFree, ToInteger, FREELIST_REF
<1>2. reg[0] = s[1] /\ 1 \in 1 .. n /\ n - 1 \in 0 .. MaxRef
  BY <1>1, MaxRefAssumption DEF IsFreeList, FREELIST_REF
<1>3. s[1] \in Slots \ held /\ s[1] \in Int
  BY <1>2, MaxRefAssumption DEF Slots
<1>4. r = s[1]
  BY <1>2, <1>3 DEF RefChoices, FirstFree, ToInteger, FREELIST_REF
<1> QED BY <1>1, <1>2, <1>3, <1>4

LEMMA EmptyList ==
    ASSUME NEW n \in 0 .. MaxRef, NEW s \in [1 .. n -> Slots \ held],
           IsFreeList(n, s), FirstFree(reg) = 0
    PROVE  n = 0 /\ reg[0] = Nil /\ \A r \in Slots \ held : reg[r] = Nil
<1>1. SUFFICES n = 0
  BY MaxRefAssumption DEF IsFreeList, FREELIST_REF
<1>2. SUFFICES ASSUME n # 0 PROVE FALSE
  OBVIOUS
<1>3. reg[0] = s[1] /\ 1 \in 1 .. n
  BY <1>2, MaxRefAssumption DEF IsFreeList, FREELIST_REF
<1>4. s[1] \in Int /\ s[1] > 0
  BY <1>3, MaxRefAssumption DEF Slots
<1> QED BY <1>3, <1>4 DEF FirstFree, ToInteger, FREELIST_REF

(* luaL_ref takes the head off the list, or the first slot above a border. *)
LEMMA RefIInv ==
    ASSUME IInv, NEW o \in Objects, Ref(o)
    PROVE  IInv'
<1>1. PICK r \in RefChoices(reg) \cap Slots :
          /\ reg' = AfterRef(reg, r, o)
          /\ held' = held \cup {r}
          /\ failed' = failed
  BY DEF Ref
<1>0. PICK n \in 0 .. MaxRef : \E s \in [1 .. n -> Slots \ held] :
          IsFreeList(n, s) /\ (~failed => IsDense(n, s))
  BY DEF IInv, Shape
<1>2. PICK s \in [1 .. n -> Slots \ held] :
          IsFreeList(n, s) /\ (~failed => IsDense(n, s))
  BY <1>0
<1>3. r \in Slots \ held /\ r # 0 /\ r \in 0 .. MaxRef /\ 0 \in 0 .. MaxRef /\ 0 \notin Slots
  BY <1>1, ChoiceIsFree, MaxRefAssumption DEF Slots
<1>4. reg \in [0 .. MaxRef -> Value] /\ held \subseteq Slots /\ Slots \subseteq 0 .. MaxRef
  BY MaxRefAssumption DEF IInv, TypeOK, Slots
<1>5. CASE FirstFree(reg) # 0
  <2>1. n # 0 /\ n - 1 \in 0 .. MaxRef /\ 1 \in 1 .. n /\ r = s[1] /\ reg[0] = r
    BY <1>1, <1>2, <1>5, HeadOfList DEF IInv
  <2>2. reg' = [[reg EXCEPT ![0] = reg[r]] EXCEPT ![r] = o]
    BY <1>1, <1>5 DEF AfterRef, Unlinked, FREELIST_REF
  <2>3. /\ reg'[0] = reg[r] /\ reg'[r] = o
        /\ \A i \in 0 .. MaxRef : i # 0 /\ i # r => reg'[i] = reg[i]
        /\ reg' \in [0 .. MaxRef -> Value]
    BY <2>2, <1>3, <1>4 DEF Value
  <2>4. TypeOK'
    BY <2>3, <1>1, <1>3, <1>4 DEF TypeOK, IInv
  <2>5. \A q \in held' : reg'[q] \in Objects
    BY <2>3, <1>1, <1>3, <1>4 DEF IInv
  <2>6. Shape'
    <3> DEFINE m == n - 1
               u == [i \in 1 .. m |-> s[i + 1]]
    <3>1. \A i \in 1 .. m : i + 1 \in 1 .. n /\ i + 1 # 1
      BY <2>1, MaxRefAssumption
    <3>2. \A i \in 1 .. m : s[i + 1] \in Slots \ held /\ s[i + 1] # r
      BY <3>1, <2>1, <1>2 DEF IsFreeList
    <3>3. u \in [1 .. m -> Slots \ held']
      BY <3>2, <1>1
    <3>4. \A i, j \in 1 .. m : u[i] = u[j] => i = j
      <4> SUFFICES ASSUME NEW i \in 1 .. m, NEW j \in 1 .. m, u[i] = u[j] PROVE i = j
        OBVIOUS
      <4>1. i + 1 \in 1 .. n /\ j + 1 \in 1 .. n /\ s[i + 1] = s[j + 1]
        BY <3>1
      <4>2. i + 1 = j + 1
        BY <4>1, <1>2 DEF IsFreeList
      <4> QED BY <4>2
    <3>5. reg'[0] = IF m = 0 THEN Nil ELSE u[1]
      <4>1. reg'[0] = IF n = 1 THEN Nil ELSE s[1 + 1]
        BY <2>1, <2>3, <1>2 DEF IsFreeList
      <4>2. m # 0 => 1 \in 1 .. m /\ u[1] = s[1 + 1]
        BY <2>1, MaxRefAssumption
      <4> QED BY <4>1, <4>2, <2>1
    <3>6. \A i \in 1 .. m : reg'[u[i]] = IF i = m THEN Nil ELSE u[i + 1]
      <4> SUFFICES ASSUME NEW i \in 1 .. m
                   PROVE  reg'[u[i]] = IF i = m THEN Nil ELSE u[i + 1]
        OBVIOUS
      <4>1. u[i] = s[i + 1] /\ u[i] # 0 /\ u[i] # r /\ u[i] \in 0 .. MaxRef
        BY <3>2, <1>3, <1>4
      <4>2. reg'[u[i]] = IF i + 1 = n THEN Nil ELSE s[(i + 1) + 1]
        BY <4>1, <2>3, <3>1, <1>2 DEF IsFreeList
      <4>3. i # m => i + 1 \in 1 .. m /\ u[i + 1] = s[(i + 1) + 1]
        BY <2>1, MaxRefAssumption
      <4> QED BY <4>2, <4>3
    <3>7. \A q \in Slots \ held' : (\A i \in 1 .. m : q # u[i]) => reg'[q] = Nil
      <4> SUFFICES ASSUME NEW q \in Slots \ held', \A i \in 1 .. m : q # u[i]
                   PROVE  reg'[q] = Nil
        OBVIOUS
      <4>1. q \in Slots \ held /\ q # r /\ q # 0 /\ q \in 0 .. MaxRef
        BY <1>1, <1>3, <1>4
      <4>2. \A i \in 1 .. n : q # s[i]
        <5> SUFFICES ASSUME NEW i \in 1 .. n PROVE q # s[i]
          OBVIOUS
        <5>1. i # 1 => i - 1 \in 1 .. m /\ u[i - 1] = s[i]
          BY <2>1, MaxRefAssumption
        <5> QED BY <5>1, <4>1, <2>1
      <4> QED BY <4>1, <4>2, <2>3, <1>2 DEF IsFreeList
    <3>8. IsFreeList(m, u)'
      BY <3>4, <3>5, <3>6, <3>7 DEF IsFreeList, FREELIST_REF
    <3>9. m \in 0 .. MaxRef
      BY <2>1
    <3>10. held' \cup {u[i] : i \in 1 .. m} = held \cup {s[i] : i \in 1 .. n}
      <4>1. \A i \in 1 .. n : i # 1 => i - 1 \in 1 .. m /\ u[i - 1] = s[i]
        BY <2>1, MaxRefAssumption
      <4>2. \A i \in 1 .. n : s[i] = r \/ s[i] \in {u[j] : j \in 1 .. m}
        <5> SUFFICES ASSUME NEW i \in 1 .. n, i # 1 PROVE s[i] \in {u[j] : j \in 1 .. m}
          BY <2>1
        <5>1. i - 1 \in 1 .. m /\ u[i - 1] = s[i]
          BY <4>1
        <5> HIDE DEF m, u
        <5> QED BY <5>1
      <4>3. \A q : q \in {u[i] : i \in 1 .. m} => q \in {s[i] : i \in 1 .. n}
        BY <3>1
      <4>4. r \in {s[i] : i \in 1 .. n}
        BY <2>1
      <4> HIDE DEF m, u
      <4> QED BY <4>2, <4>3, <4>4, <1>1
    <3> HIDE DEF m, u
    <3>11. ~failed' => IsDense(m, u)'
      BY <3>10, <1>1, <1>2 DEF IsDense
    <3> QED BY <3>3, <3>8, <3>9, <3>11 DEF Shape
  <2> QED BY <2>4, <2>5, <2>6 DEF IInv
<1>6. CASE FirstFree(reg) = 0
  <2>1. n = 0 /\ reg[0] = Nil /\ \A q \in Slots \ held : reg[q] = Nil
    BY <1>2, <1>6, EmptyList
  <2>2. reg' = [reg EXCEPT ![r] = o]
    BY <1>1, <1>6 DEF AfterRef, Unlinked
  <2>3. /\ reg'[r] = o
        /\ \A i \in 0 .. MaxRef : i # r => reg'[i] = reg[i]
        /\ reg' \in [0 .. MaxRef -> Value]
    BY <2>2, <1>3, <1>4 DEF Value
  <2>4. TypeOK'
    BY <2>3, <1>1, <1>3, <1>4 DEF TypeOK, IInv
  <2>5. \A q \in held' : reg'[q] \in Objects
    BY <2>3, <1>1, <1>3, <1>4 DEF IInv
  <2>6. s \in [1 .. n -> Slots \ held']
    BY <2>1
  <2>7. IsFreeList(n, s)'
    BY <2>1, <2>3, <1>1, <1>3, <1>4 DEF IsFreeList, FREELIST_REF
  <2>8. ASSUME ~failed PROVE IsDense(n, s)'
    <3>1. PICK k \in 0 .. MaxRef : held \cup {s[i] : i \in 1 .. n} = 1 .. k
      BY <2>8, <1>2 DEF IsDense
    <3>2. held = 1 .. k
      <4>1. 1 .. n = {}
        BY <2>1
      <4>2. {s[i] : i \in 1 .. n} = {}
        BY <4>1
      <4> QED BY <4>2, <3>1
    <3>3. PICK b \in Borders(reg) : r = b + 1
      BY <1>1, <1>6 DEF RefChoices
    <3>4. b \in 0 .. MaxRef /\ (b = 0 \/ reg[b] # Nil)
      BY <3>3 DEF Borders
    <3>5. b <= k
      <4>1. b = 0 \/ b \in held
        BY <3>4, <2>1, MaxRefAssumption DEF Slots
      <4> QED BY <4>1, <3>2, <3>4, MaxRefAssumption
    <3>6. b = k /\ k + 1 \in 0 .. MaxRef
      BY <3>2, <3>3, <3>4, <3>5, <1>3, MaxRefAssumption
    <3>7. held' = 1 .. (k + 1)
      BY <3>2, <3>3, <3>6, <1>1, MaxRefAssumption
    <3>8. held' \cup {s[i] : i \in 1 .. n} = 1 .. (k + 1)
      BY <3>7, <2>1
    <3> QED BY <3>6, <3>8 DEF IsDense
  <2> QED BY <2>4, <2>5, <2>6, <2>7, <2>8, <1>1 DEF IInv, Shape
<1> QED BY <1>5, <1>6

(* luaL_unref puts the slot in front of the list. *)
LEMMA UnrefIInv ==
    ASSUME IInv, NEW r \in held, Unref(r)
    PROVE  IInv'
<1>0. PICK n \in 0 .. MaxRef : \E s \in [1 .. n -> Slots \ held] :
          IsFreeList(n, s) /\ (~failed => IsDense(n, s))
  BY DEF IInv, Shape
<1>1. PICK s \in [1 .. n -> Slots \ held] :
          IsFreeList(n, s) /\ (~failed => IsDense(n, s))
  BY <1>0
<1>2. /\ reg \in [0 .. MaxRef -> Value] /\ held \subseteq Slots /\ Slots \subseteq 0 .. MaxRef
      /\ r \in Slots /\ r # 0 /\ 0 \in 0 .. MaxRef /\ 0 \notin Slots
  BY MaxRefAssumption DEF IInv, TypeOK, Slots
<1>3. /\ reg' = [[reg EXCEPT ![r] = reg[0]] EXCEPT ![0] = r]
      /\ held' = held \ {r}
      /\ failed' = failed
  BY DEF Unref, AfterUnref, FREELIST_REF
<1>4. /\ reg'[0] = r /\ reg'[r] = reg[0]
      /\ \A i \in 0 .. MaxRef : i # 0 /\ i # r => reg'[i] = reg[i]
      /\ reg' \in [0 .. MaxRef -> Value]
  BY <1>2, <1>3 DEF Value
<1>5. TypeOK'
  BY <1>2, <1>3, <1>4 DEF TypeOK, IInv
<1>6. \A q \in held' : reg'[q] \in Objects
  BY <1>2, <1>3, <1>4 DEF IInv
<1>7. Shape'
  <2> DEFINE m == n + 1
             u == [i \in 1 .. m |-> IF i = 1 THEN r ELSE s[i - 1]]
  <2>0. n \in Nat /\ m \in Nat /\ 1 \in 1 .. m
    BY MaxRefAssumption
  <2>1. \A i \in 1 .. m : i # 1 => i - 1 \in 1 .. n
    BY <2>0
  <2>2. \A i \in 1 .. m : i # 1 => u[i] = s[i - 1] /\ u[i] \in Slots \ held
    BY <2>1
  <2>3. u[1] = r
    BY <2>0
  <2>4. u \in [1 .. m -> Slots \ held']
    BY <2>2, <1>2, <1>3
  <2>5. \A i, j \in 1 .. m : u[i] = u[j] => i = j
    <3> SUFFICES ASSUME NEW i \in 1 .. m, NEW j \in 1 .. m, u[i] = u[j] PROVE i = j
      OBVIOUS
    <3>1. CASE i = 1 \/ j = 1
      BY <3>1, <2>2, <2>3
    <3>2. CASE i # 1 /\ j # 1
      <4>1. i - 1 \in 1 .. n /\ j - 1 \in 1 .. n /\ s[i - 1] = s[j - 1]
        BY <3>2, <2>1, <2>2
      <4>2. i - 1 = j - 1
        BY <4>1, <1>1 DEF IsFreeList
      <4> QED BY <4>2
    <3> QED BY <3>1, <3>2
  <2>6. m \in 0 .. MaxRef
    <3>1. u \in [1 .. m -> Slots]
      BY <2>4
    <3> HIDE DEF m, u
    <3>2. m <= MaxRef
      BY <2>0, <2>5, <3>1, FreeListFits
    <3> QED BY <2>0, <3>2, MaxRefAssumption
  <2>7. reg'[0] = IF m = 0 THEN Nil ELSE u[1]
    BY <1>4, <2>0, <2>3
  <2>8. \A i \in 1 .. m : reg'[u[i]] = IF i = m THEN Nil ELSE u[i + 1]
    <3> SUFFICES ASSUME NEW i \in 1 .. m
                 PROVE  reg'[u[i]] = IF i = m THEN Nil ELSE u[i + 1]
      OBVIOUS
    <3>1. i # m => i + 1 \in 1 .. m /\ u[i + 1] = s[i]
      BY <2>0
    <3>2. CASE i = 1
      <4>1. reg'[u[i]] = IF n = 0 THEN Nil ELSE s[1]
        BY <3>2, <2>3, <1>4, <1>1 DEF IsFreeList, FREELIST_REF
      <4> QED BY <4>1, <3>1, <3>2, <2>0
    <3>3. CASE i # 1
      <4>1. /\ i - 1 \in 1 .. n /\ u[i] = s[i - 1]
            /\ u[i] # r /\ u[i] # 0 /\ u[i] \in 0 .. MaxRef
        BY <3>3, <2>1, <2>2, <1>2
      <4>2. reg'[u[i]] = IF i - 1 = n THEN Nil ELSE s[(i - 1) + 1]
        BY <4>1, <1>4, <1>1 DEF IsFreeList
      <4> QED BY <4>2, <3>1, <2>0
    <3> QED BY <3>2, <3>3
  <2>9. \A q \in Slots \ held' : (\A i \in 1 .. m : q # u[i]) => reg'[q] = Nil
    <3> SUFFICES ASSUME NEW q \in Slots \ held', \A i \in 1 .. m : q # u[i]
                 PROVE  reg'[q] = Nil
      OBVIOUS
    <3>1. q # r /\ q \in Slots \ held /\ q # 0 /\ q \in 0 .. MaxRef
      BY <1>2, <1>3, <2>0, <2>3
    <3>2. \A i \in 1 .. n : i + 1 \in 1 .. m /\ u[i + 1] = s[i]
      BY <2>0
    <3>3. \A i \in 1 .. n : q # s[i]
      BY <3>2
    <3> QED BY <3>1, <3>3, <1>1, <1>4 DEF IsFreeList
  <2>10. IsFreeList(m, u)'
    BY <2>5, <2>7, <2>8, <2>9 DEF IsFreeList, FREELIST_REF
  <2>11. held' \cup {u[i] : i \in 1 .. m} = held \cup {s[i] : i \in 1 .. n}
    <3>1. \A i \in 1 .. n : i + 1 \in 1 .. m /\ u[i + 1] = s[i]
      BY <2>0
    <3>2. \A q : q \in {s[i] : i \in 1 .. n} => q \in {u[i] : i \in 1 .. m}
      BY <3>1
    <3>3. \A q : q \in {u[i] : i \in 1 .. m} => q = r \/ q \in {s[i] : i \in 1 .. n}
      BY <2>1, <2>2, <2>3
    <3>4. r \in {u[i] : i \in 1 .. m}
      BY <2>0, <2>3
    <3> HIDE DEF m, u
    <3> QED BY <3>2, <3>3, <3>4, <1>3
  <2> HIDE DEF m, u
  <2>12. ~failed' => IsDense(m, u)'
    BY <2>11, <1>1, <1>3 DEF IsDense
  <2> QED BY <2>4, <2>6, <2>10, <2>12 DEF Shape
<1> QED BY <1>5, <1>6, <1>7 DEF IInv

(* A luaL_ref that fails leaves the slot it took off the list empty. *)
LEMMA RefFailsIInv ==
    ASSUME IInv, RefFails
    PROVE  IInv'
<1>1. PICK r \in RefChoices(reg) \cap Slots :
          /\ reg[r] = Nil
          /\ reg' = Unlinked(reg, r)
          /\ held' = held /\ failed' = TRUE
  BY DEF RefFails, MayLackKey
<1>0. PICK n \in 0 .. MaxRef : \E s \in [1 .. n -> Slots \ held] :
          IsFreeList(n, s) /\ (~failed => IsDense(n, s))
  BY DEF IInv, Shape
<1>2. PICK s \in [1 .. n -> Slots \ held] :
          IsFreeList(n, s) /\ (~failed => IsDense(n, s))
  BY <1>0
<1>3. reg \in [0 .. MaxRef -> Value] /\ Slots \subseteq 0 .. MaxRef /\ 0 \in 0 .. MaxRef /\ 0 \notin Slots
  BY MaxRefAssumption DEF IInv, TypeOK, Slots
<1>4. CASE FirstFree(reg) = 0
  <2>1. reg' = reg /\ held' = held /\ failed' = TRUE
    BY <1>1, <1>4 DEF Unlinked
  <2>2. IsFreeList(n, s)'
    BY <2>1, <1>2 DEF IsFreeList
  <2>3. Shape'
    BY <2>1, <2>2 DEF Shape
  <2> QED BY <2>1, <2>3 DEF IInv, TypeOK
<1>5. CASE FirstFree(reg) # 0
  <2>1. n # 0 /\ 1 \in 1 .. n /\ r = s[1] /\ reg[0] = r
    BY <1>1, <1>2, <1>5, HeadOfList DEF IInv
  <2>2. reg' = [reg EXCEPT ![0] = Nil]
    BY <1>1, <1>5 DEF Unlinked, FREELIST_REF
  <2>3. /\ reg'[0] = Nil /\ \A i \in 0 .. MaxRef : i # 0 => reg'[i] = reg[i]
        /\ reg' \in [0 .. MaxRef -> Value]
    BY <2>2, <1>3 DEF Value
  <2>4. n = 1
    <3>1. 1 = n \/ (s[1 + 1] \in Slots /\ reg[r] = s[1 + 1])
      BY <2>1, <1>2, MaxRefAssumption DEF IsFreeList
    <3> QED BY <3>1, <1>1, ObjectsAssumption, MaxRefAssumption DEF Slots
  <2>5. \A q \in Slots \ held : reg[q] = Nil
    BY <2>1, <2>4, <1>1, <1>2 DEF IsFreeList
  <2>6. \A q \in Slots \ held' : reg'[q] = Nil
    BY <2>3, <2>5, <1>1, <1>3
  <2>7. Shape'
    <3> DEFINE u == [i \in 1 .. 0 |-> 1]
    <3>1. u \in [1 .. 0 -> Slots \ held']
      OBVIOUS
    <3>2. IsFreeList(0, u)'
      BY <2>3, <2>6 DEF IsFreeList, FREELIST_REF
    <3>3. 0 \in 0 .. MaxRef
      BY MaxRefAssumption
    <3> HIDE DEF u
    <3> QED BY <3>1, <3>2, <3>3, <1>1 DEF Shape
  <2>8. TypeOK' /\ \A q \in held' : reg'[q] \in Objects
    BY <2>3, <1>1, <1>3 DEF IInv, TypeOK
  <2> QED BY <2>7, <2>8 DEF IInv
<1> QED BY <1>4, <1>5

(* A luaL_unref that fails empties the slot; the list was empty already. *)
LEMMA UnrefFailsIInv ==
    ASSUME IInv, NEW r \in held, UnrefFails(r)
    PROVE  IInv'
<1>1. /\ reg[0] = Nil /\ reg' = [reg EXCEPT ![r] = Nil]
      /\ held' = held \ {r} /\ failed' = TRUE
  BY DEF UnrefFails, MayLackKey, AfterFailedUnref, FREELIST_REF
<1>0. PICK n \in 0 .. MaxRef : \E s \in [1 .. n -> Slots \ held] :
          IsFreeList(n, s) /\ (~failed => IsDense(n, s))
  BY DEF IInv, Shape
<1>2. PICK s \in [1 .. n -> Slots \ held] :
          IsFreeList(n, s) /\ (~failed => IsDense(n, s))
  BY <1>0
<1>3. /\ reg \in [0 .. MaxRef -> Value] /\ Slots \subseteq 0 .. MaxRef /\ held \subseteq Slots
      /\ 0 \in 0 .. MaxRef /\ r # 0 /\ r \in 0 .. MaxRef
  BY MaxRefAssumption DEF IInv, TypeOK, Slots
<1>4. n = 0 /\ \A q \in Slots \ held : reg[q] = Nil
  <2>1. FirstFree(reg) = 0
    BY <1>1, ObjectsAssumption DEF FirstFree, ToInteger, FREELIST_REF
  <2> QED BY <2>1, <1>2, EmptyList
<1>5. /\ reg'[r] = Nil /\ \A i \in 0 .. MaxRef : i # r => reg'[i] = reg[i]
      /\ reg' \in [0 .. MaxRef -> Value]
  BY <1>1, <1>3 DEF Value
<1>6. IsFreeList(n, s)'
  BY <1>1, <1>3, <1>4, <1>5 DEF IsFreeList, FREELIST_REF
<1>7. s \in [1 .. n -> Slots \ held']
  BY <1>4
<1>8. TypeOK' /\ \A q \in held' : reg'[q] \in Objects
  BY <1>1, <1>3, <1>5 DEF IInv, TypeOK
<1> QED BY <1>1, <1>6, <1>7, <1>8 DEF IInv, Shape

LEMMA NextIInv == IInv /\ [Next]_vars => IInv'
<1> SUFFICES ASSUME IInv, [Next]_vars PROVE IInv'
  OBVIOUS
<1>1. CASE \E o \in Objects : Ref(o)
  BY <1>1, RefIInv
<1>2. CASE RefFails
  BY <1>2, RefFailsIInv
<1>3. CASE \E r \in held : Unref(r) \/ UnrefFails(r)
  BY <1>3, UnrefIInv, UnrefFailsIInv
<1>4. CASE UNCHANGED vars
  BY <1>4 DEF vars, IInv, TypeOK, Shape, IsFreeList, IsDense
<1> QED BY <1>1, <1>2, <1>3, <1>4 DEF Next

-----------------------------------------------------------------------------
(* The theorems about every behaviour of the registry. *)

THEOREM Invariance == Spec => []IInv
BY InitIInv, NextIInv, PTL DEF Spec

(* The table holds nothing but objects, references and nil, and only       *)
(* references that exist are given to callers.                             *)
THEOREM TypeCorrect == Spec => []TypeOK
<1>1. IInv => TypeOK
  BY DEF IInv
<1> QED BY <1>1, Invariance, PTL

(* The free list luaL_unref threads through the table ends, meets no slot  *)
(* in use and loses none that holds a value, whatever allocation fails.    *)
THEOREM ListIsSound == Spec => []FreeListSound
<1>1. IInv => FreeListSound
  BY DEF IInv, Shape, FreeListSound
<1> QED BY <1>1, Invariance, PTL

(* As long as no allocation fails, luaL_ref and luaL_unref together never  *)
(* waste a slot: the table is no longer than the references it ever held   *)
(* at once.                                                                *)
THEOREM TableIsCompact == Spec => []Compact
<1>1. IInv => Compact
  BY DEF IInv, Shape, Compact
<1> QED BY <1>1, Invariance, PTL

(* No call of luaL_ref, luaL_unref by another holder or memory error makes *)
(* a reference in use lose its object, nor is its slot chosen again.       *)
THEOREM SlotsKeepTheirObjects == Spec => []SlotIntegrity
<1>1. IInv => SlotIntegrity
  BY ChoiceIsFree DEF IInv, SlotIntegrity
<1> QED BY <1>1, Invariance, PTL

-----------------------------------------------------------------------------
(* The refinement: a step of the registry is a step of the pool. *)

LEMMA InitMapsToPool == Init => Pool!Init
<1> SUFFICES ASSUME Init PROVE [r \in held |-> reg[r]] = << >>
  BY DEF Pool!Init
<1>1. held = {}
  BY DEF Init
<1> QED BY <1>1

LEMMA NextMapsToPool ==
    ASSUME IInv, [Next]_vars
    PROVE  [Pool!Next]_([r \in held |-> reg[r]])
<1> DEFINE live == [r \in held |-> reg[r]]
<1>0. reg \in [0 .. MaxRef -> Value] /\ held \subseteq Slots /\ Slots \subseteq 0 .. MaxRef /\ 0 \notin Slots /\ 0 \in 0 .. MaxRef
  BY MaxRefAssumption DEF IInv, TypeOK, Slots
<1>1. ASSUME NEW o \in Objects, Ref(o) PROVE Pool!Next
  <2>1. PICK r \in RefChoices(reg) \cap Slots :
            /\ reg' = AfterRef(reg, r, o)
            /\ held' = held \cup {r}
    BY <1>1 DEF Ref
  <2>2. r \in Slots /\ r \notin held /\ r # 0 /\ DOMAIN live = held
    BY <2>1, <1>0, ChoiceIsFree
  <2>3. reg'[r] = o /\ \A q \in held : reg'[q] = reg[q]
    <3>1. Unlinked(reg, r) \in [0 .. MaxRef -> Value \cup {reg[r]}] /\ \A q \in held : Unlinked(reg, r)[q] = reg[q]
      BY <1>0 DEF Unlinked, FREELIST_REF
    <3> QED BY <3>1, <2>1, <2>2, <1>0 DEF AfterRef
  <2>4. live' = [x \in DOMAIN live \cup {r} |-> IF x = r THEN o ELSE live[x]]
    BY <2>1, <2>2, <2>3
  <2>5. r \in Pool!Refs \ DOMAIN live
    BY <2>2 DEF Pool!Refs, Slots
  <2>6. Pool!Acquire(o)
    BY <2>4, <2>5 DEF Pool!Acquire
  <2> QED BY <2>6 DEF Pool!Next
<1>2. ASSUME RefFails PROVE UNCHANGED live
  <2>1. PICK r \in RefChoices(reg) \cap Slots : reg' = Unlinked(reg, r) /\ held' = held
    BY <1>2 DEF RefFails
  <2>2. \A q \in held : reg'[q] = reg[q]
    BY <2>1, <1>0 DEF Unlinked, FREELIST_REF
  <2> QED BY <2>1, <2>2
<1>3. ASSUME NEW r \in held, Unref(r) \/ UnrefFails(r) PROVE Pool!Next
  <2>1. held' = held \ {r}
    BY <1>3 DEF Unref, UnrefFails
  <2>2. \A q \in held' : reg'[q] = reg[q]
    BY <1>3, <2>1, <1>0 DEF Unref, UnrefFails, AfterUnref, AfterFailedUnref, FREELIST_REF
  <2>3. live' = [x \in DOMAIN live \ {r} |-> live[x]]
    BY <2>1, <2>2
  <2>4. Pool!Release(r) /\ r \in DOMAIN live
    BY <2>3 DEF Pool!Release
  <2> QED BY <2>4 DEF Pool!Next
<1>4. CASE UNCHANGED vars
  BY <1>4 DEF vars
<1> QED BY <1>1, <1>2, <1>3, <1>4 DEF Next

(* luaL_ref and luaL_unref implement the pool of references: a reference   *)
(* handed out is fresh, and giving one back disturbs no other.             *)
THEOREM RegistryImplementsPool == Spec => ImplementsPool
<1>1. Init => Pool!Init
  BY InitMapsToPool
<1>2. IInv /\ [Next]_vars => [Pool!Next]_([r \in held |-> reg[r]])
  BY NextMapsToPool
<1> QED BY <1>1, <1>2, Invariance, PTL DEF Spec, ImplementsPool, Pool!Spec
==============================================================================
