-------------------------- MODULE LuaBuffer_proofs --------------------------
(***************************************************************************)
(* Proofs about LuaBuffer: a buffer of the auxiliary library holds what    *)
(* was added to it, in order, in few pieces, for any sizes of its array    *)
(* and of the stack and for any operations.                                *)
(***************************************************************************)
EXTENDS LuaBuffer, Integers, SequenceTheorems, WellFoundedInduction, TLAPS

Strings == Seq(Characters)
Buffers == [p : Strings, lvl : Nat, stack : Seq(Strings)]

-----------------------------------------------------------------------------
(* Induction, and the concatenation of a sequence of strings.              *)

LEMMA Least ==
    ASSUME NEW S \in SUBSET Nat, S # {}
    PROVE  \E m \in S : \A n \in S : m <= n
<1> DEFINE less == OpToRel(<, Nat)
<1>1. IsWellFoundedOn(less, Nat)
  BY NatLessThanWellFounded
<1> HIDE DEF less
<1>2. PICK m \in S : \A n \in S : ~(<<n, m>> \in less)
  BY <1>1, WFMin
<1>3. \A n \in S : ~(n < m)
  BY <1>2 DEF less, OpToRel
<1> QED BY <1>3

LEMMA Induction ==
    ASSUME NEW S, 0 \in S, \A n \in Nat : n \in S => n + 1 \in S
    PROVE  \A n \in Nat : n \in S
<1> DEFINE I == {n \in Nat : n \notin S}
<1> SUFFICES ASSUME I # {} PROVE FALSE
  OBVIOUS
<1>1. PICK m \in I : \A n \in I : m <= n
  <2>1. I \in SUBSET Nat
    OBVIOUS
  <2> HIDE DEF I
  <2> QED BY <2>1, Least
<1>2. m - 1 \in Nat /\ m - 1 \notin I /\ m - 1 + 1 = m
  BY <1>1
<1> QED BY <1>1, <1>2

(* The function of FlattenSeq. *)
FlattenUpto(s, f) == \A i \in 1 .. Len(s) : f[i] = IF i = 1 THEN s[i] ELSE f[i - 1] \o s[i]

LEMMA FlattenExists ==
    ASSUME NEW T, NEW s \in Seq(T), s # << >>
    PROVE  \E f : FlattenUpto(s, f) /\ FlattenSeq(s) = f[Len(s)]
<1> DEFINE Step(f, i) == IF i = 1 THEN s[i] ELSE f[i - 1] \o s[i]
           Rec(f, N) == f = [i \in 1 .. N |-> Step(f, i)]
           S == {N \in Nat : \E f : Rec(f, N)}
           flatten == CHOOSE f : Rec(f, Len(s))
<1>1. Len(s) \in Nat \ {0}
  BY EmptySeq
<1>2. FlattenSeq(s) = flatten[Len(s)]
  <2>1. Len(s) # 0
    BY <1>1
  <2> QED BY <2>1, Zenon DEF FlattenSeq
<1>3. 0 \in S
  <2> DEFINE f == [i \in 1 .. 0 |-> 0]
  <2>1. f = [i \in 1 .. 0 |-> Step(f, i)]
    OBVIOUS
  <2> HIDE DEF f
  <2> QED BY <2>1
<1>4. ASSUME NEW N \in Nat, N \in S PROVE N + 1 \in S
  <2>1. PICK f : Rec(f, N)
    BY <1>4
  <2> DEFINE g == [i \in 1 .. N + 1 |-> IF i = N + 1 THEN Step(f, i) ELSE f[i]]
  <2>2. \A i \in 1 .. N + 1 : i # 1 => g[i - 1] = f[i - 1]
    OBVIOUS
  <2>3. \A i \in 1 .. N + 1 : Step(g, i) = Step(f, i)
    BY <2>2
  <2>4. \A i \in 1 .. N : f[i] = Step(f, i)
    <3> HIDE DEF Step
    <3> QED BY <2>1
  <2>5. \A i \in 1 .. N + 1 : g[i] = Step(g, i)
    <3>1. SUFFICES ASSUME NEW i \in 1 .. N + 1 PROVE g[i] = Step(f, i)
      BY <2>3
    <3> HIDE DEF Step
    <3> QED BY <2>4
  <2>6. Rec(g, N + 1)
    <3>1. g = [i \in 1 .. N + 1 |-> g[i]]
      OBVIOUS
    <3> HIDE DEF g, Step
    <3> QED BY <2>5, <3>1
  <2>7. \E e : Rec(e, N + 1)
    <3> HIDE DEF g, Rec
    <3> QED BY <2>6
  <2> HIDE DEF Rec
  <2> QED BY <2>7
<1> HIDE DEF Rec
<1>5. Len(s) \in S
  <2> HIDE DEF S
  <2> QED BY <1>1, <1>3, <1>4, Induction
<1>6. Rec(flatten, Len(s))
  BY <1>5
<1> HIDE DEF flatten
<1>7. \A i \in 1 .. Len(s) : flatten[i] = Step(flatten, i)
  <2> HIDE DEF Step
  <2> QED BY <1>6 DEF Rec
<1>8. FlattenUpto(s, flatten)
  BY <1>7 DEF FlattenUpto
<1> QED BY <1>2, <1>8

LEMMA FlattenNone == FlattenSeq(<< >>) = << >>
BY DEF FlattenSeq

LEMMA FlattenAppend ==
    ASSUME NEW s \in Seq(Strings), NEW x \in Strings
    PROVE  FlattenSeq(Append(s, x)) = IF s = << >> THEN x ELSE FlattenSeq(s) \o x
<1> DEFINE a == Append(s, x)
           n == Len(s)
<1>1. /\ a \in Seq(Strings) /\ a # << >> /\ n \in Nat /\ Len(a) = n + 1
      /\ \A i \in 1 .. n : a[i] = s[i]
      /\ a[n + 1] = x
  BY AppendProperties
<1> HIDE DEF a
<1>2. PICK g : FlattenUpto(a, g) /\ FlattenSeq(a) = g[n + 1]
  <2>1. PICK g : FlattenUpto(a, g) /\ FlattenSeq(a) = g[Len(a)]
    BY <1>1, FlattenExists
  <2> QED BY <1>1, <2>1
<1>3. CASE s = << >>
  <2>1. n = 0 /\ 1 \in 1 .. Len(a)
    BY <1>1, <1>3
  <2>2. g[1] = a[1]
    BY <1>2, <2>1 DEF FlattenUpto
  <2> QED BY <1>1, <1>2, <1>3, <2>1, <2>2 DEF a
<1>4. CASE s # << >>
  <2>1. PICK f : FlattenUpto(s, f) /\ FlattenSeq(s) = f[n]
    BY <1>4, FlattenExists
  <2>2. n \in Nat \ {0}
    BY <1>1, <1>4, EmptySeq
  <2> DEFINE S == {i \in Nat : i \in 1 .. n => g[i] = f[i]}
  <2>3. 0 \in S
    OBVIOUS
  <2>4. ASSUME NEW i \in Nat, i \in S PROVE i + 1 \in S
    <3> SUFFICES ASSUME i + 1 \in 1 .. n PROVE g[i + 1] = f[i + 1]
      OBVIOUS
    <3> DEFINE j == i + 1
    <3>1. j \in 1 .. n /\ j \in 1 .. Len(a) /\ j - 1 = i /\ a[j] = s[j] /\ (j # 1 => i \in 1 .. n)
      BY <1>1, <2>2
    <3>2. g[j] = IF j = 1 THEN a[j] ELSE g[j - 1] \o a[j]
      BY <1>2, <3>1 DEF FlattenUpto
    <3>3. f[j] = IF j = 1 THEN s[j] ELSE f[j - 1] \o s[j]
      BY <2>1, <3>1 DEF FlattenUpto
    <3> HIDE DEF j
    <3>4. j # 1 => g[i] = f[i]
      BY <2>4, <3>1
    <3>5. g[j] = f[j]
      BY <3>1, <3>2, <3>3, <3>4
    <3> QED BY <3>5 DEF j
  <2>5. \A i \in Nat : i \in S
    <3> HIDE DEF S
    <3> QED BY <2>3, <2>4, Induction
  <2>6. g[n] = f[n]
    BY <2>2, <2>5
  <2>7. g[n + 1] = g[n] \o x
    <3>1. n + 1 \in 1 .. Len(a) /\ n + 1 # 1 /\ n + 1 - 1 = n
      BY <1>1, <2>2
    <3> DEFINE j == n + 1
    <3>2. j \in 1 .. Len(a) /\ j # 1 /\ j - 1 = n /\ a[j] = x
      BY <1>1, <3>1
    <3>3. g[j] = IF j = 1 THEN a[j] ELSE g[j - 1] \o a[j]
      <4> HIDE DEF j
      <4> QED BY <1>2, <3>2 DEF FlattenUpto
    <3> HIDE DEF j
    <3>4. g[j] = g[n] \o x
      BY <3>2, <3>3
    <3> QED BY <3>4 DEF j
  <2> QED BY <1>2, <1>4, <2>1, <2>6, <2>7 DEF a
<1> QED BY <1>3, <1>4

LEMMA Joining ==
    /\ << >> \in Strings
    /\ \A x \in Strings : x \o << >> = x /\ << >> \o x = x /\ Len(x) \in Nat
    /\ \A x, y \in Strings : x \o y \in Strings /\ Len(x \o y) = Len(x) + Len(y)
    /\ \A x, y, z \in Strings : (x \o y) \o z = x \o (y \o z)
<1>1. << >> \in Strings /\ \A x \in Strings : x \o << >> = x /\ << >> \o x = x /\ Len(x) \in Nat
  BY ConcatEmptySeq DEF Strings
<1>2. \A x, y \in Strings : x \o y \in Strings /\ Len(x \o y) = Len(x) + Len(y)
  BY ConcatProperties DEF Strings
<1>3. \A x, y, z \in Strings : (x \o y) \o z = x \o (y \o z)
  BY ConcatAssociative DEF Strings
<1> QED BY <1>1, <1>2, <1>3

LEMMA FlattenIsString == \A s \in Seq(Strings) : FlattenSeq(s) \in Strings
<1> DEFINE S == {n \in Nat : \A s \in Seq(Strings) : Len(s) = n => FlattenSeq(s) \in Strings}
<1>1. 0 \in S
  <2>1. \A s \in Seq(Strings) : Len(s) = 0 => s = << >>
    BY EmptySeq
  <2> QED BY <2>1, FlattenNone, Joining
<1>2. ASSUME NEW n \in Nat, n \in S PROVE n + 1 \in S
  <2> SUFFICES ASSUME NEW s \in Seq(Strings), Len(s) = n + 1 PROVE FlattenSeq(s) \in Strings
    OBVIOUS
  <2>1. PICK t \in Seq(Strings), x \in Strings : s = Append(t, x)
    <3>1. s # << >>
      BY EmptySeq
    <3> QED BY <3>1, SequenceEmptyOrAppend
  <2>2. Len(t) = n
    <3>1. Len(Append(t, x)) = Len(t) + 1 /\ Len(t) \in Nat
      BY AppendProperties
    <3> QED BY <2>1, <3>1
  <2>3. FlattenSeq(t) \in Strings
    BY <1>2, <2>2
  <2>4. FlattenSeq(s) = IF t = << >> THEN x ELSE FlattenSeq(t) \o x
    BY <2>1, FlattenAppend
  <2> QED BY <2>3, <2>4, Joining
<1>3. \A n \in Nat : n \in S
  <2> HIDE DEF S
  <2> QED BY <1>1, <1>2, Induction
<1>4. \A s \in Seq(Strings) : Len(s) \in Nat
  OBVIOUS
<1> QED BY <1>3, <1>4

LEMMA FlattenOneMore ==
    ASSUME NEW s \in Seq(Strings), NEW x \in Strings
    PROVE  FlattenSeq(Append(s, x)) = FlattenSeq(s) \o x
<1>1. FlattenSeq(Append(s, x)) = IF s = << >> THEN x ELSE FlattenSeq(s) \o x
  BY FlattenAppend
<1>2. << >> \o x = x
  BY Joining
<1> QED BY <1>1, <1>2, FlattenNone

LEMMA FlattenConcat ==
    ASSUME NEW a \in Seq(Strings)
    PROVE  \A b \in Seq(Strings) : FlattenSeq(a \o b) = FlattenSeq(a) \o FlattenSeq(b)
<1> DEFINE S == {n \in Nat : \A b \in Seq(Strings) : Len(b) = n => FlattenSeq(a \o b) = FlattenSeq(a) \o FlattenSeq(b)}
<1>0. FlattenSeq(a) \in Strings
  BY FlattenIsString
<1>1. 0 \in S
  <2>1. \A b \in Seq(Strings) : Len(b) = 0 => b = << >>
    BY EmptySeq
  <2>2. a \o << >> = a /\ FlattenSeq(a) \o << >> = FlattenSeq(a)
    BY <1>0, ConcatEmptySeq, Joining
  <2> QED BY <2>1, <2>2, FlattenNone
<1>2. ASSUME NEW n \in Nat, n \in S PROVE n + 1 \in S
  <2> SUFFICES ASSUME NEW b \in Seq(Strings), Len(b) = n + 1
               PROVE  FlattenSeq(a \o b) = FlattenSeq(a) \o FlattenSeq(b)
    OBVIOUS
  <2>1. PICK t \in Seq(Strings), x \in Strings : b = Append(t, x)
    <3>1. b # << >>
      BY EmptySeq
    <3> QED BY <3>1, SequenceEmptyOrAppend
  <2>2. Len(t) = n
    <3>1. Len(Append(t, x)) = Len(t) + 1 /\ Len(t) \in Nat
      BY AppendProperties
    <3> QED BY <2>1, <3>1
  <2>3. a \o b = Append(a \o t, x) /\ a \o t \in Seq(Strings)
    <3>1. b = t \o <<x>> /\ <<x>> \in Seq(Strings)
      BY <2>1, AppendIsConcat
    <3>2. a \o t \in Seq(Strings)
      BY ConcatProperties
    <3>3. Append(a \o t, x) = (a \o t) \o <<x>>
      BY <3>2, AppendIsConcat
    <3>4. (a \o t) \o <<x>> = a \o (t \o <<x>>)
      BY <3>1, ConcatAssociative
    <3> QED BY <3>1, <3>2, <3>3, <3>4
  <2>4. FlattenSeq(a \o t) = FlattenSeq(a) \o FlattenSeq(t)
    BY <1>2, <2>2
  <2>5. FlattenSeq(a \o b) = FlattenSeq(a \o t) \o x /\ FlattenSeq(b) = FlattenSeq(t) \o x
    BY <2>1, <2>3, FlattenOneMore
  <2>6. FlattenSeq(t) \in Strings
    BY FlattenIsString
  <2>7. (FlattenSeq(a) \o FlattenSeq(t)) \o x = FlattenSeq(a) \o (FlattenSeq(t) \o x)
    BY <1>0, <2>6, Joining
  <2> QED BY <2>4, <2>5, <2>7
<1>3. \A n \in Nat : n \in S
  <2> HIDE DEF S
  <2> QED BY <1>1, <1>2, Induction
<1>4. \A s \in Seq(Strings) : Len(s) \in Nat
  OBVIOUS
<1> QED BY <1>3, <1>4

(* lua_concat puts one string in the place of the last n.                  *)
LEMMA ConcatIs ==
    ASSUME NEW s \in Seq(Strings), NEW n \in Nat, n <= Len(s)
    PROVE  /\ lua_concat(s, n) \in Seq(Strings) /\ Len(lua_concat(s, n)) = Len(s) - n + 1
           /\ FlattenSeq(lua_concat(s, n)) = FlattenSeq(s)
<1>1. CASE n = 1
  BY <1>1 DEF lua_concat
<1>2. CASE n # 1
  <2> DEFINE a == Pop(s, n)
             b == Top(s, n)
             x == FlattenSeq(b)
  <2>0. Len(s) \in Nat /\ Len(s) - n \in 0 .. Len(s)
    OBVIOUS
  <2>1. a \in Seq(Strings) /\ Len(a) = Len(s) - n
    <3>1. \A i \in 1 .. Len(s) - n : s[i] \in Strings
      BY <2>0
    <3>2. SubSeq(s, 1, Len(s) - n) \in Seq(Strings)
      BY <2>0, <3>1, SubSeqProperties
    <3>3. Len(SubSeq(s, 1, Len(s) - n)) = IF 1 <= Len(s) - n THEN Len(s) - n - 1 + 1 ELSE 0
      BY <2>0, <3>1, SubSeqProperties
    <3> QED BY <2>0, <3>2, <3>3 DEF Pop
  <2>2. b \in Seq(Strings)
    <3>1. \A i \in Len(s) - n + 1 .. Len(s) : s[i] \in Strings
      BY <2>0
    <3> QED BY <2>0, <3>1, SubSeqProperties DEF Top
  <2>3. a \o b = s
    <3>1. SubSeq(s, 1, Len(s) - n) \o SubSeq(s, Len(s) - n + 1, Len(s)) = SubSeq(s, 1, Len(s))
      <4> DEFINE k == Len(s) - n
      <4>1. 1 \in 1 .. Len(s) + 1 /\ k \in 1 - 1 .. Len(s) /\ Len(s) \in k .. Len(s)
        BY <2>0
      <4> HIDE DEF k
      <4>2. SubSeq(s, 1, k) \o SubSeq(s, k + 1, Len(s)) = SubSeq(s, 1, Len(s))
        BY <4>1, ConcatAdjacentSubSeq
      <4> QED BY <4>2 DEF k
    <3> QED BY <3>1, SubSeqFull DEF Pop, Top
  <2>4. lua_concat(s, n) = Append(a, x)
    BY <1>2 DEF lua_concat
  <2> HIDE DEF a, b
  <2>5. x \in Strings /\ FlattenSeq(s) = FlattenSeq(a) \o x
    BY <2>1, <2>2, <2>3, FlattenIsString, FlattenConcat
  <2> HIDE DEF x
  <2>6. Append(a, x) \in Seq(Strings) /\ Len(Append(a, x)) = Len(a) + 1 /\ FlattenSeq(Append(a, x)) = FlattenSeq(a) \o x
    BY <2>1, <2>5, FlattenOneMore, AppendProperties
  <2> QED BY <2>1, <2>4, <2>5, <2>6
<1> QED BY <1>1, <1>2

-----------------------------------------------------------------------------
(* The operations: the buffer b holds text, in pieces.                     *)
Holds(b, text) ==
    /\ b \in Buffers /\ b.lvl = Len(b.stack) /\ Len(b.p) <= LUAL_BUFFERSIZE
    /\ FlattenSeq(b.stack) \o b.p = text
Few(b) == b.lvl <= 1 \/ b.lvl < LIMIT

LEMMA Empty ==
    ASSUME NEW text, NEW b, Holds(b, text), NEW e, e = emptybuffer(b)
    PROVE  Holds(e, text) /\ e.p = << >> /\ (b.p = << >> => e = b) /\ e.lvl <= b.lvl + 1 /\ text \in Strings
<1>1. /\ b \in Buffers /\ b.p \in Strings /\ b.stack \in Seq(Strings) /\ b.lvl \in Nat /\ b.lvl = Len(b.stack)
      /\ FlattenSeq(b.stack) \o b.p = text
  BY DEF Holds, Buffers
<1>2. FlattenSeq(b.stack) \in Strings /\ text \in Strings
  BY <1>1, FlattenIsString, Joining
<1>3. CASE b.p = << >>
  BY <1>1, <1>2, <1>3 DEF emptybuffer
<1>4. CASE b.p # << >>
  <2> DEFINE s == Append(b.stack, b.p)
  <2>1. s \in Seq(Strings) /\ Len(s) = b.lvl + 1 /\ FlattenSeq(s) = text
    <3>1. s \in Seq(Strings) /\ Len(s) = Len(b.stack) + 1
      BY <1>1, AppendProperties
    <3>2. FlattenSeq(s) = FlattenSeq(b.stack) \o b.p
      BY <1>1, FlattenOneMore
    <3> HIDE DEF s
    <3> QED BY <1>1, <3>1, <3>2
  <2>2. e = [p |-> << >>, lvl |-> b.lvl + 1, stack |-> s]
    BY <1>4 DEF emptybuffer
  <2> HIDE DEF s
  <2>3. e \in Buffers /\ e.p = << >> /\ e.lvl = b.lvl + 1 /\ e.stack = s
    BY <1>1, <2>1, <2>2, Joining DEF Buffers
  <2>4. Len(<< >>) = 0 /\ LUAL_BUFFERSIZE \in Nat /\ text \o << >> = text
    BY <1>2, Joining, BufferAssumption
  <2>5. Holds(e, text)
    BY <2>1, <2>3, <2>4 DEF Holds
  <2> QED BY <1>1, <1>2, <1>4, <2>3, <2>5
<1> QED BY <1>3, <1>4

(* adjuststack finds how many pieces to concatenate, and leaves few.       *)
LEMMA Adjusted ==
    ASSUME NEW text, NEW b, Holds(b, text), NEW e, e = adjuststack(b)
    PROVE  Holds(e, text) /\ Few(e) /\ e.p = b.p
<1>1. /\ b \in Buffers /\ b.stack \in Seq(Strings) /\ b.lvl \in Nat /\ b.lvl = Len(b.stack)
  BY DEF Holds, Buffers
<1>2. CASE b.lvl <= 1
  BY <1>2 DEF adjuststack, Few
<1>3. CASE ~(b.lvl <= 1)
  <2> DEFINE last(n) == b.lvl - n + 1 < LIMIT /\ Len(FlattenSeq(Top(b.stack, n))) <= Len2(b.stack, n + 1)
             Enough(n) == (n = b.lvl \/ last(n)) /\ \A m \in 1 .. n - 1 : ~last(m)
             toget == Concatenated(b)
             S == {n \in 1 .. b.lvl : n = b.lvl \/ last(n)}
             s == lua_concat(b.stack, toget)
             l == b.lvl - toget + 1
  <2>1. toget = CHOOSE n \in 1 .. b.lvl : Enough(n)
    BY DEF Concatenated
  <2> HIDE DEF last
  <2>2. \E n \in 1 .. b.lvl : Enough(n)
    <3>1. S \in SUBSET Nat /\ b.lvl \in S
      BY <1>1, <1>3
    <3>2. PICK n \in S : \A m \in S : n <= m
      BY <3>1, Least
    <3>3. ASSUME NEW m \in 1 .. n - 1 PROVE ~last(m)
      <4>1. m \in 1 .. b.lvl /\ m < n
        BY <1>1
      <4>2. m \notin S
        BY <3>1, <3>2, <4>1
      <4> QED BY <4>1, <4>2
    <3>4. n \in 1 .. b.lvl /\ Enough(n)
      BY <3>3
    <3> QED BY <3>4
  <2> HIDE DEF Enough, toget
  <2>3. toget \in 1 .. b.lvl /\ Enough(toget)
    BY <2>1, <2>2
  <2>4. toget = b.lvl \/ b.lvl - toget + 1 < LIMIT
    BY <2>3 DEF Enough, last
  <2>5. s \in Seq(Strings) /\ Len(s) = l /\ FlattenSeq(s) = FlattenSeq(b.stack) /\ l \in Nat
    BY <1>1, <2>3, ConcatIs
  <2>6. e = [b EXCEPT !.stack = s, !.lvl = l]
    BY <1>3 DEF adjuststack, toget
  <2>7. l <= 1 \/ l < LIMIT
    BY <1>1, <2>3, <2>4
  <2> HIDE DEF s, l
  <2>8. e \in Buffers /\ e.stack = s /\ e.lvl = l /\ e.p = b.p
    BY <1>1, <2>5, <2>6 DEF Buffers
  <2> QED BY <2>5, <2>7, <2>8 DEF Holds, Few
<1> QED BY <1>2, <1>3

LEMMA Prepared ==
    ASSUME NEW text, NEW b, Holds(b, text), Few(b), NEW e, e = luaL_prepbuffer(b)
    PROVE  Holds(e, text) /\ Few(e) /\ e.p = << >>
<1>1. CASE b.p = << >>
  BY <1>1 DEF luaL_prepbuffer
<1>2. CASE b.p # << >>
  <2> DEFINE f == emptybuffer(b)
  <2>1. Holds(f, text) /\ f.p = << >>
    BY Empty
  <2>2. e = adjuststack(f)
    BY <1>2 DEF luaL_prepbuffer
  <2> HIDE DEF f
  <2> QED BY <2>1, <2>2, Adjusted
<1> QED BY <1>1, <1>2

(* More characters in the array, if there is room. *)
LEMMA Extended ==
    ASSUME NEW text, NEW b, Holds(b, text), Few(b), NEW v \in Strings, Len(b.p) + Len(v) <= LUAL_BUFFERSIZE,
           NEW e, e = [b EXCEPT !.p = b.p \o v]
    PROVE  Holds(e, text \o v) /\ Few(e)
<1> DEFINE q == b.p \o v
<1>1. /\ b \in Buffers /\ b.p \in Strings /\ b.stack \in Seq(Strings) /\ b.lvl = Len(b.stack)
      /\ FlattenSeq(b.stack) \o b.p = text
  BY DEF Holds, Buffers
<1>2. q \in Strings /\ Len(q) = Len(b.p) + Len(v)
  BY <1>1, Joining
<1>3. (FlattenSeq(b.stack) \o b.p) \o v = FlattenSeq(b.stack) \o (b.p \o v)
  <2>1. FlattenSeq(b.stack) \in Strings
    BY <1>1, FlattenIsString
  <2> QED BY <1>1, <2>1, Joining
<1>4. text \o v = FlattenSeq(b.stack) \o q
  BY <1>1, <1>3
<1>5. Len(q) <= LUAL_BUFFERSIZE
  BY <1>2
<1>6. e = [b EXCEPT !.p = q]
  OBVIOUS
<1> HIDE DEF q
<1>7. e \in Buffers /\ e.p = q /\ e.stack = b.stack /\ e.lvl = b.lvl
  BY <1>1, <1>2, <1>6 DEF Buffers
<1> QED BY <1>1, <1>4, <1>5, <1>7 DEF Holds, Few

LEMMA CharAdded ==
    ASSUME NEW text, NEW b, Holds(b, text), Few(b), NEW c \in Characters, NEW e, e = luaL_addchar(b, c)
    PROVE  Holds(e, Append(text, c)) /\ Few(e)
<1> DEFINE room == IF Len(b.p) < LUAL_BUFFERSIZE THEN b ELSE luaL_prepbuffer(b)
           v == <<c>>
<1>1. Holds(room, text) /\ Few(room) /\ Len(room.p) < LUAL_BUFFERSIZE
  <2>1. CASE Len(b.p) < LUAL_BUFFERSIZE
    BY <2>1
  <2>2. CASE ~(Len(b.p) < LUAL_BUFFERSIZE)
    <3>1. room = luaL_prepbuffer(b)
      BY <2>2
    <3> HIDE DEF room
    <3>2. Holds(room, text) /\ Few(room) /\ room.p = << >>
      BY <3>1, Prepared
    <3>3. Len(<< >>) = 0 /\ 0 < LUAL_BUFFERSIZE
      BY BufferAssumption
    <3> QED BY <3>2, <3>3
  <2> QED BY <2>1, <2>2
<1>2. e = [room EXCEPT !.p = Append(room.p, c)]
  BY DEF luaL_addchar
<1> HIDE DEF room
<1>3. room.p \in Strings /\ Len(room.p) \in Nat /\ LUAL_BUFFERSIZE \in Nat
  BY <1>1, Joining, BufferAssumption DEF Holds, Buffers
<1>4. v \in Strings /\ Len(v) = 1
  BY DEF Strings
<1>5. text \in Strings
  BY <1>1, Empty
<1>6. Append(room.p, c) = room.p \o v /\ Append(text, c) = text \o v
  BY <1>3, <1>5, AppendIsConcat DEF Strings
<1> HIDE DEF v
<1>7. Len(room.p) + Len(v) <= LUAL_BUFFERSIZE
  BY <1>1, <1>3, <1>4
<1>8. Holds(e, text \o v) /\ Few(e)
  BY <1>1, <1>2, <1>4, <1>6, <1>7, Extended
<1> QED BY <1>6, <1>8

LEMMA ValueAdded ==
    ASSUME NEW text, NEW b, Holds(b, text), Few(b), NEW v \in Strings,
           NEW e, e = luaL_addvalue([b EXCEPT !.stack = Append(@, v)])
    PROVE  Holds(e, text \o v) /\ Few(e)
<1> DEFINE s == Append(b.stack, v)
           a == [b EXCEPT !.stack = s]
           f == emptybuffer(b)
           g == [f EXCEPT !.stack = Append(f.stack, v), !.lvl = f.lvl + 1]
<1>1. /\ b \in Buffers /\ b.p \in Strings /\ b.stack \in Seq(Strings) /\ b.lvl = Len(b.stack)
  BY DEF Holds, Buffers
<1>2. Last(s) = v /\ Front(s) = b.stack /\ s \in Seq(Strings)
  <2>1. s \in Seq(Strings) /\ Len(s) = Len(b.stack) + 1 /\ s[Len(b.stack) + 1] = v
        /\ Len(b.stack) \in Nat /\ \A i \in 1 .. Len(b.stack) : s[i] = b.stack[i]
    BY <1>1, AppendProperties
  <2> HIDE DEF s
  <2>2. Last(s) = v
    BY <2>1 DEF Last
  <2>3. Len(s) - 1 = Len(b.stack) /\ \A i \in 1 .. Len(b.stack) : s[i] \in Strings
    BY <1>1, <2>1
  <2>4. Front(s) = SubSeq(s, 1, Len(b.stack))
    BY <2>3 DEF Front
  <2>5. SubSeq(s, 1, Len(b.stack)) = b.stack
    <3> DEFINE n == Len(b.stack)
    <3>1. n \in Nat /\ \A i \in 1 .. n : s[i] \in Strings
      BY <2>1, <2>3
    <3> HIDE DEF n
    <3>2. /\ SubSeq(s, 1, n) \in Seq(Strings)
          /\ Len(SubSeq(s, 1, n)) = IF 1 <= n THEN n - 1 + 1 ELSE 0
          /\ \A i \in 1 .. n - 1 + 1 : SubSeq(s, 1, n)[i] = s[1 + i - 1]
      BY <3>1, SubSeqProperties
    <3>3. Len(SubSeq(s, 1, n)) = n
      BY <3>1, <3>2
    <3>4. \A i \in 1 .. n : SubSeq(s, 1, n)[i] = s[i]
      BY <3>1, <3>2
    <3>5. Len(b.stack) = n /\ \A i \in 1 .. n : s[i] = b.stack[i]
      BY <2>1 DEF n
    <3>6. SubSeq(s, 1, n) = b.stack
      BY <1>1, <3>2, <3>3, <3>4, <3>5, SeqEqual
    <3> QED BY <3>6 DEF n
  <2> QED BY <2>1, <2>2, <2>4, <2>5
<1>3. e = luaL_addvalue(a)
  OBVIOUS
<1> HIDE DEF s
<1>4. a.p = b.p /\ a.stack = s /\ [a EXCEPT !.stack = b.stack] = b
  BY <1>1, <1>2 DEF Buffers
<1> HIDE DEF a
<1>5. e = IF Len(v) <= LUAL_BUFFERSIZE - Len(b.p) THEN [b EXCEPT !.p = b.p \o v] ELSE adjuststack(g)
  BY <1>2, <1>3, <1>4 DEF luaL_addvalue
<1>6. Len(b.p) \in Nat /\ Len(v) \in Nat /\ LUAL_BUFFERSIZE \in Nat
  BY <1>1, Joining, BufferAssumption
<1>7. CASE Len(v) <= LUAL_BUFFERSIZE - Len(b.p)
  <2>1. Len(b.p) + Len(v) <= LUAL_BUFFERSIZE
    BY <1>6, <1>7
  <2>2. e = [b EXCEPT !.p = b.p \o v]
    BY <1>5, <1>7
  <2> QED BY <2>1, <2>2, Extended
<1>8. CASE ~(Len(v) <= LUAL_BUFFERSIZE - Len(b.p))
  <2>1. Holds(f, text) /\ f.p = << >> /\ text \in Strings
    BY Empty
  <2> DEFINE t == Append(f.stack, v)
             l == f.lvl + 1
  <2>2. g = [f EXCEPT !.stack = t, !.lvl = l]
    OBVIOUS
  <2>3. e = adjuststack(g)
    BY <1>5, <1>8
  <2> HIDE DEF f, g
  <2>4. f \in Buffers /\ f.stack \in Seq(Strings) /\ f.lvl \in Nat /\ f.lvl = Len(f.stack)
        /\ FlattenSeq(f.stack) = text
    <3>1. f \in Buffers /\ f.stack \in Seq(Strings) /\ f.lvl \in Nat /\ f.lvl = Len(f.stack)
          /\ FlattenSeq(f.stack) \o << >> = text
      BY <2>1 DEF Holds, Buffers
    <3>2. FlattenSeq(f.stack) \in Strings
      BY <3>1, FlattenIsString
    <3> QED BY <3>1, <3>2, Joining
  <2>5. t \in Seq(Strings) /\ Len(t) = l /\ FlattenSeq(t) = text \o v /\ l \in Nat
    <3>1. t \in Seq(Strings) /\ Len(t) = Len(f.stack) + 1
      BY <2>4, AppendProperties
    <3>2. FlattenSeq(t) = FlattenSeq(f.stack) \o v
      BY <2>4, FlattenOneMore
    <3> QED BY <2>4, <3>1, <3>2
  <2> HIDE DEF t, l
  <2>6. g \in Buffers /\ g.stack = t /\ g.lvl = l /\ g.p = << >>
    BY <2>1, <2>2, <2>4, <2>5 DEF Buffers
  <2>7. Len(<< >>) = 0 /\ (text \o v) \o << >> = text \o v
    BY <2>1, Joining
  <2>8. Holds(g, text \o v)
    <3> DEFINE u == text \o v
    <3>1. FlattenSeq(t) = u /\ u \o << >> = u
      BY <2>5, <2>7
    <3> HIDE DEF u
    <3>2. FlattenSeq(g.stack) \o g.p = u
      BY <2>6, <3>1
    <3>3. g.lvl = Len(g.stack) /\ Len(g.p) <= LUAL_BUFFERSIZE
      BY <1>6, <2>5, <2>6, <2>7
    <3>4. Holds(g, u)
      BY <2>6, <3>2, <3>3 DEF Holds
    <3> QED BY <3>4 DEF u
  <2> QED BY <2>3, <2>8, Adjusted
<1> QED BY <1>7, <1>8

LEMMA SizeAdded ==
    ASSUME NEW text, NEW b, Holds(b, text), Few(b), NEW v \in Strings, Len(v) <= LUAL_BUFFERSIZE,
           NEW e, e = [luaL_prepbuffer(b) EXCEPT !.p = v]
    PROVE  Holds(e, text \o v) /\ Few(e)
<1> DEFINE f == luaL_prepbuffer(b)
<1>1. Holds(f, text) /\ Few(f) /\ f.p = << >>
  BY Prepared
<1>2. e = [f EXCEPT !.p = v]
  OBVIOUS
<1> HIDE DEF f
<1>3. << >> \o v = v /\ Len(<< >>) = 0 /\ Len(v) \in Nat
  BY Joining
<1>4. e = [f EXCEPT !.p = f.p \o v] /\ Len(f.p) + Len(v) <= LUAL_BUFFERSIZE
  <2>1. f.p \o v = v /\ Len(f.p) = 0
    BY <1>1, <1>3
  <2>2. e = [f EXCEPT !.p = f.p \o v]
    <3> DEFINE x == f.p \o v
    <3>1. x = v
      BY <2>1
    <3> HIDE DEF x
    <3>2. e = [f EXCEPT !.p = x]
      BY <1>2, <3>1
    <3> QED BY <3>2 DEF x
  <2>3. Len(f.p) + Len(v) <= LUAL_BUFFERSIZE
    BY <1>3, <2>1
  <2> QED BY <2>2, <2>3, Zenon
<1> QED BY <1>1, <1>4, Extended

LEMMA ResultPushed ==
    ASSUME NEW text, NEW b, Holds(b, text), NEW e, e = luaL_pushresult(b)
    PROVE  Holds(e, text) /\ Few(e)
<1> DEFINE f == emptybuffer(b)
           s == lua_concat(f.stack, f.lvl)
<1>1. Holds(f, text)
  BY Empty
<1>2. e = [f EXCEPT !.stack = s, !.lvl = 1]
  BY DEF luaL_pushresult
<1> HIDE DEF f
<1>3. f \in Buffers /\ f.stack \in Seq(Strings) /\ f.lvl \in Nat /\ f.lvl = Len(f.stack)
  BY <1>1 DEF Holds, Buffers
<1>4. s \in Seq(Strings) /\ Len(s) = 1 /\ FlattenSeq(s) = FlattenSeq(f.stack)
  <2> DEFINE z == f.stack
             n == f.lvl
  <2>1. z \in Seq(Strings) /\ n \in Nat /\ n = Len(z) /\ n <= Len(z) /\ s = lua_concat(z, n)
    BY <1>3
  <2> HIDE DEF z, n, s
  <2>2. /\ lua_concat(z, n) \in Seq(Strings) /\ Len(lua_concat(z, n)) = Len(z) - n + 1
        /\ FlattenSeq(lua_concat(z, n)) = FlattenSeq(z)
    BY <2>1, ConcatIs
  <2> QED BY <2>1, <2>2 DEF z
<1> HIDE DEF s
<1>5. e \in Buffers /\ e.stack = s /\ e.lvl = 1 /\ e.p = f.p
  <2>1. f \in [p : Strings, lvl : Nat, stack : Seq(Strings)] /\ 1 \in Nat
    BY <1>3 DEF Buffers
  <2> QED BY <1>2, <1>4, <2>1 DEF Buffers
<1>6. FlattenSeq(e.stack) \o e.p = text
  BY <1>1, <1>4, <1>5 DEF Holds
<1>7. Len(e.p) <= LUAL_BUFFERSIZE
  BY <1>1, <1>5 DEF Holds
<1>8. e.lvl = Len(e.stack) /\ e.lvl <= 1
  BY <1>4, <1>5
<1> QED BY <1>5, <1>6, <1>7, <1>8, Zenon DEF Holds, Few

-----------------------------------------------------------------------------
(* Whatever the operations.                                                *)
BufferInv == Holds(B, added) /\ Few(B)

LEMMA InitHolds == BufferInit => BufferInv
<1>1. << >> \in Seq(Strings) /\ << >> \in Strings /\ Len(<< >>) = 0 /\ << >> \o << >> = << >>
      /\ LUAL_BUFFERSIZE \in Nat
  BY Joining, BufferAssumption
<1> QED BY <1>1, FlattenNone DEF BufferInit, BufferInv, luaL_buffinit, Holds, Few, Buffers

LEMMA StepHolds ==
    ASSUME BufferInv, [BufferNext]_bufferVars
    PROVE  BufferInv'
<1>0. Holds(B, added) /\ Few(B) /\ \A v \in Additions : v \in Strings
  BY AdditionsAssumption DEF BufferInv, Strings
<1>1. CASE AddChar
  <2>1. PICK c \in Characters : B' = luaL_addchar(B, c) /\ added' = Append(added, c)
    BY <1>1 DEF AddChar
  <2>2. Holds(B', added') /\ Few(B')
    BY <1>0, <2>1, CharAdded
  <2> QED BY <2>2 DEF BufferInv, Holds, Few
<1>2. CASE AddValue
  <2>1. PICK v \in Strings : B' = luaL_addvalue([B EXCEPT !.stack = Append(@, v)]) /\ added' = added \o v
    BY <1>0, <1>2 DEF AddValue
  <2>2. Holds(B', added') /\ Few(B')
    BY <1>0, <2>1, ValueAdded
  <2> QED BY <2>2 DEF BufferInv, Holds, Few
<1>3. CASE AddSize
  <2>1. PICK v \in Strings : Len(v) <= LUAL_BUFFERSIZE /\ B' = [luaL_prepbuffer(B) EXCEPT !.p = v] /\ added' = added \o v
    BY <1>0, <1>3 DEF AddSize
  <2>2. Holds(B', added') /\ Few(B')
    BY <1>0, <2>1, SizeAdded
  <2> QED BY <2>2 DEF BufferInv, Holds, Few
<1>4. CASE PushResult
  <2>1. B' = luaL_pushresult(B) /\ added' = added
    BY <1>4 DEF PushResult
  <2>2. Holds(B', added') /\ Few(B')
    BY <1>0, <2>1, ResultPushed
  <2> QED BY <2>2 DEF BufferInv, Holds, Few
<1>5. CASE UNCHANGED bufferVars
  BY <1>5 DEF bufferVars, BufferInv, Holds, Few
<1> QED BY <1>1, <1>2, <1>3, <1>4, <1>5 DEF BufferNext

(* luaL_addchar, luaL_addvalue, luaL_addsize and luaL_pushresult: whatever *)
(* is added, in whatever order, the pieces and the array are the text, the *)
(* array does not overflow, and adjuststack keeps the pieces below half of *)
(* the stack that a C function has.                                        *)
THEOREM BufferKeepsText == BufferSpec => [](BufferHolds /\ BufferFits)
<1>1. BufferInv => BufferHolds /\ BufferFits
  BY DEF BufferInv, Holds, Few, BufferHolds, BufferFits
<1>2. BufferInv /\ [BufferNext]_bufferVars => BufferInv'
  BY StepHolds
<1> QED BY InitHolds, <1>1, <1>2, PTL DEF BufferSpec
=============================================================================
