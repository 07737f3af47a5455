------------------------- MODULE MethodCalls_proofs -------------------------
(***************************************************************************)
(* Proofs about MethodCalls: whatever the overloads of a method, however   *)
(* its calls are nested and wherever one interrupts another, and whenever  *)
(* filters change, no overload runs that the filters refused, the array    *)
(* kept in the cache gives a method the arguments of its own call, and a   *)
(* call leaves its own results, but for what other calls overwrote.        *)
(***************************************************************************)
EXTENDS MethodCalls, SequenceTheorems, WellFoundedInduction, TLAPS

-----------------------------------------------------------------------------
(* What matchParameters gives. *)

LEMMA Induction ==
    ASSUME NEW S, 0 \in S, \A n \in Nat : n \in S => n + 1 \in S
    PROVE  \A n \in Nat : n \in S
<1> DEFINE I == {n \in Nat : n \notin S}
<1> SUFFICES ASSUME I # {} PROVE FALSE
  OBVIOUS
<1>1. PICK m \in I : \A y \in I : m <= y
  <2>1. I \in SUBSET Nat
    OBVIOUS
  <2> HIDE DEF I
  <2> DEFINE less == OpToRel(<, Nat)
  <2>2. IsWellFoundedOn(less, Nat)
    BY NatLessThanWellFounded
  <2> HIDE DEF less
  <2>3. PICK m \in I : \A j \in I : ~(<<j, m>> \in less)
    BY <2>1, <2>2, WFMin
  <2>4. \A j \in I : ~(j < m)
    BY <2>1, <2>3 DEF less, OpToRel
  <2> QED BY <2>1, <2>4
<1>2. m - 1 \in Nat /\ m - 1 \notin I /\ m - 1 + 1 = m
  BY <1>1
<1> QED BY <1>1, <1>2

LEMMA ArgsAre ==
    ASSUME NEW given \in Args
    PROVE  /\ given \in Seq(LuaValues) /\ Len(given) \in Nat /\ Len(given) <= MaxArgs
           /\ DOMAIN given = 1 .. Len(given) /\ \A k \in 1 .. Len(given) : given[k] \in LuaValues
<1>1. PICK n \in 0 .. MaxArgs : given \in [1 .. n -> LuaValues]
  BY DEF Args
<1>2. n \in Nat /\ n <= MaxArgs
  BY BoundsAssumption
<1>3. given \in Seq(LuaValues) /\ Len(given) = n
  BY <1>1, <1>2
<1> QED BY <1>1, <1>2, <1>3

Contents ==
    LuaValues \cup {"one", "big", "digits", "text", "byte", "wrapped", "number as text", "table", "ref", "null", "default",
                    "array", "array of zero", "array of one"}
Casters == STRING \cup {"table", "byte", "null"}
ArgTypes == [index : Nat, isParamsArray : BOOLEAN, extract : Casters]
States == [ok : BOOLEAN, cur : Nat, args : Seq(Contents), argTypes : Seq(ArgTypes), outList : Seq(Nat)]
Parameters == [type : STRING, mode : STRING]

(* The parameters that leave a value to Lua. *)
Leaves(p) == p.mode \in {"ref", "out"}

(* Every parameter so far has its argument: one given, converted as        *)
(* remembered, or its default value.                                       *)
ConvertedAs(args, T, params, given, n) ==
    \A k \in 1 .. Len(T) :
        T[k].index \in 1 .. n /\ params[T[k].index].mode # "out" /\ args[T[k].index] = Extracted(T[k], given[k])
Distinct(T) == \A k, l \in 1 .. Len(T) : T[k].index = T[l].index => k = l
Defaults(args, T, params, n) ==
    \A i \in 1 .. n : params[i].mode # "out" =>
        (\E k \in 1 .. Len(T) : T[k].index = i) \/ (params[i].mode = "optional" /\ args[i] = "default")
Fitting(s, params, given, n) ==
    /\ Len(s.args) = n /\ s.cur = Len(s.argTypes) + 1 /\ s.cur <= Len(given) + 1
    /\ ConvertedAs(s.args, s.argTypes, params, given, n)
    /\ Distinct(s.argTypes)
    /\ Defaults(s.args, s.argTypes, params, n)

LEMMA ConvertedIs ==
    ASSUME NEW v, NEW t
    PROVE  Extracted(t, v) \in Contents
<1>1. \A type : Converted(type, v) \in Contents
  BY DEF Converted, Contents
<1>2. \A x : TableToArray(x) \in Contents
  BY DEF TableToArray, Contents
<1> QED BY <1>1, <1>2 DEF Extracted

LEMMA Appending ==
    ASSUME NEW S, NEW s \in Seq(S), NEW x \in S
    PROVE  /\ Append(s, x) \in Seq(S) /\ Len(s) \in Nat /\ Len(Append(s, x)) = Len(s) + 1
           /\ \A i \in 1 .. Len(s) : Append(s, x)[i] = s[i]
           /\ Append(s, x)[Len(s) + 1] = x
BY AppendProperties

(* One more argument for one more parameter. *)
Taken(s, p, t, v, r) ==
    /\ r \in States /\ r.ok = s.ok /\ r.cur = s.cur + 1
    /\ t \in ArgTypes /\ t.index = Len(s.args) + 1
    /\ r.args = Append(s.args, Extracted(t, v)) /\ r.argTypes = Append(s.argTypes, t)
    /\ r.outList = IF p.mode = "ref" THEN Append(s.outList, Len(s.args) + 1) ELSE s.outList

LEMMA TakesIs ==
    ASSUME NEW s \in States, NEW p \in Parameters, NEW v \in LuaValues, NEW isArray \in BOOLEAN, NEW caster \in Casters,
           NEW t, t = ArgType(s, isArray, caster), NEW r, r = Takes(s, p, t, v)
    PROVE  Taken(s, p, t, v, r)
<1>1. /\ s.ok \in BOOLEAN /\ s.cur \in Nat /\ s.args \in Seq(Contents) /\ s.argTypes \in Seq(ArgTypes) /\ s.outList \in Seq(Nat)
      /\ Len(s.args) + 1 \in Nat
  BY DEF States
<1>2. t \in ArgTypes /\ t.index = Len(s.args) + 1
  BY <1>1 DEF ArgType, ArgTypes
<1>3. Extracted(t, v) \in Contents
  BY ConvertedIs
<1> DEFINE outs == IF p.mode = "ref" THEN Append(s.outList, Len(s.args) + 1) ELSE s.outList
           x == Append(s.args, Extracted(t, v))
           y == Append(s.argTypes, t)
           c == s.cur + 1
<1>4. outs \in Seq(Nat) /\ x \in Seq(Contents) /\ y \in Seq(ArgTypes) /\ c \in Nat
  BY <1>1, <1>2, <1>3
<1>5. r = [s EXCEPT !.args = x, !.cur = c, !.argTypes = y, !.outList = outs]
  BY <1>2 DEF Takes, Added, States
<1> HIDE DEF outs, x, y, c
<1>6. /\ r \in States /\ r.ok = s.ok /\ r.cur = c /\ r.args = x /\ r.argTypes = y /\ r.outList = outs
  BY <1>4, <1>5 DEF States
<1> QED BY <1>2, <1>6 DEF outs, x, y, c, Taken

LEMMA TakesFits ==
    ASSUME NEW s \in States, NEW params \in Seq(Parameters), NEW given \in Args, NEW n \in 1 .. Len(params),
           Fitting(s, params, given, n - 1), s.cur <= Len(given), params[n].mode # "out",
           NEW isArray \in BOOLEAN, NEW caster \in Casters,
           NEW t, t = ArgType(s, isArray, caster), NEW r, r = Takes(s, params[n], t, given[s.cur])
    PROVE  /\ r \in States /\ r.ok = s.ok /\ Fitting(r, params, given, n)
           /\ r.outList = IF Leaves(params[n]) THEN Append(s.outList, n) ELSE s.outList
<1> DEFINE p == params[n]
           v == given[s.cur]
           x == Extracted(t, v)
           T == s.argTypes
           c == Len(T)
           U == r.argTypes
<1>1. /\ n \in Nat /\ n - 1 \in Nat /\ n \in 1 .. n /\ p \in Parameters
      /\ s.cur \in Nat /\ s.args \in Seq(Contents) /\ T \in Seq(ArgTypes) /\ s.outList \in Seq(Nat) /\ c \in Nat
  BY DEF States
<1>2. /\ Len(s.args) = n - 1 /\ s.cur = c + 1
      /\ ConvertedAs(s.args, T, params, given, n - 1) /\ Distinct(T) /\ Defaults(s.args, T, params, n - 1)
  BY DEF Fitting
<1>3. v \in LuaValues /\ Len(given) \in Nat
  <2>1. s.cur \in 1 .. Len(given)
    BY <1>1, <1>2, ArgsAre
  <2> QED BY <2>1, ArgsAre
<1>4. r = Takes(s, p, t, v)
  OBVIOUS
<1>5. Len(s.args) + 1 = n
  BY <1>1, <1>2
<1> HIDE DEF v, p
<1>6. /\ r \in States /\ r.ok = s.ok /\ r.cur = s.cur + 1
      /\ t \in ArgTypes /\ t.index = Len(s.args) + 1
      /\ r.args = Append(s.args, x) /\ U = Append(T, t)
      /\ r.outList = IF p.mode = "ref" THEN Append(s.outList, Len(s.args) + 1) ELSE s.outList
  <2>1. p \in Parameters /\ v \in LuaValues
    BY <1>1, <1>3
  <2>2. Taken(s, p, t, v, r)
    BY <1>4, <2>1, TakesIs
  <2> QED BY <2>2 DEF Taken
<1>7. x \in Contents /\ x = Extracted(t, given[c + 1])
  BY <1>2, <1>3, ConvertedIs DEF v
<1> HIDE DEF x, T, U
<1>8. /\ Len(r.args) = n /\ r.args[n] = x /\ \A i \in 1 .. n - 1 : r.args[i] = s.args[i]
  <2>1. r.args = Append(s.args, x) /\ s.args \in Seq(Contents) /\ x \in Contents
    BY <1>1, <1>6, <1>7
  <2>2. /\ Len(r.args) = Len(s.args) + 1
        /\ \A i \in 1 .. Len(s.args) : r.args[i] = s.args[i]
        /\ r.args[Len(s.args) + 1] = x
    BY <2>1, Appending
  <2> QED BY <1>2, <1>5, <2>2
<1>9. /\ Len(U) = c + 1 /\ U[c + 1] = t /\ \A k \in 1 .. c : U[k] = T[k]
  BY <1>1, <1>6, Appending
<1>10. \A k \in 1 .. c + 1 : k = c + 1 \/ k \in 1 .. c
  BY <1>1
<1>11. \A i \in 1 .. n : i = n \/ i \in 1 .. n - 1
  BY <1>1
<1>12. ConvertedAs(r.args, U, params, given, n)
  <2>1. ASSUME NEW k \in 1 .. c
        PROVE  /\ U[k].index \in 1 .. n /\ params[U[k].index].mode # "out"
               /\ r.args[U[k].index] = Extracted(U[k], given[k])
    <3>1. /\ T[k].index \in 1 .. n - 1 /\ params[T[k].index].mode # "out"
          /\ s.args[T[k].index] = Extracted(T[k], given[k])
      BY <1>2 DEF ConvertedAs
    <3>2. T[k].index \in 1 .. n
      BY <1>1, <3>1
    <3> QED BY <1>8, <1>9, <3>1, <3>2
  <2>2. /\ U[c + 1].index \in 1 .. n /\ params[U[c + 1].index].mode # "out"
        /\ r.args[U[c + 1].index] = Extracted(U[c + 1], given[c + 1])
    BY <1>1, <1>5, <1>6, <1>7, <1>8, <1>9
  <2> QED BY <1>9, <1>10, <2>1, <2>2 DEF ConvertedAs
<1>13. Distinct(U)
  <2>1. ASSUME NEW j \in 1 .. c PROVE U[j].index # n
    <3>1. U[j].index \in 1 .. n - 1
      BY <1>2, <1>9 DEF ConvertedAs
    <3> QED BY <1>1, <3>1
  <2>2. U[c + 1].index = n
    BY <1>5, <1>6, <1>9
  <2>3. \A k, l \in 1 .. c : U[k].index = U[l].index => k = l
    BY <1>2, <1>9 DEF Distinct
  <2>4. \A k, l \in 1 .. c + 1 : U[k].index = U[l].index => k = l
    BY <1>10, <2>1, <2>2, <2>3
  <2> QED BY <1>9, <2>4 DEF Distinct
<1>14. Defaults(r.args, U, params, n)
  <2>1. 1 .. c \subseteq 1 .. c + 1 /\ c + 1 \in 1 .. c + 1
    BY <1>1
  <2>2. ASSUME NEW i \in 1 .. n - 1, params[i].mode # "out"
        PROVE  (\E k \in 1 .. c + 1 : U[k].index = i) \/ (params[i].mode = "optional" /\ r.args[i] = "default")
    <3>1. (\E k \in 1 .. c : T[k].index = i) \/ (params[i].mode = "optional" /\ s.args[i] = "default")
      BY <1>2, <2>2 DEF Defaults, c
    <3> QED BY <1>8, <1>9, <2>1, <3>1
  <2>3. U[c + 1].index = n
    BY <1>5, <1>6, <1>9
  <2> QED BY <1>9, <1>11, <2>1, <2>2, <2>3 DEF Defaults
<1>15. r.cur = Len(U) + 1 /\ r.cur <= Len(given) + 1
  BY <1>1, <1>2, <1>3, <1>6, <1>9
<1>16. Fitting(r, params, given, n)
  BY <1>8, <1>12, <1>13, <1>14, <1>15 DEF Fitting, U
<1>17. Leaves(p) <=> p.mode = "ref"
  BY DEF Leaves, p
<1> QED BY <1>5, <1>6, <1>16, <1>17 DEF p

(* An argument that is not one of Lua: an out value, or a default. *)
LEMMA AddedFits ==
    ASSUME NEW s \in States, NEW params \in Seq(Parameters), NEW given \in Args, NEW n \in 1 .. Len(params),
           Fitting(s, params, given, n - 1), NEW x \in Contents,
           params[n].mode = "out" \/ (params[n].mode = "optional" /\ x = "default"),
           NEW r \in States, r.args = Append(s.args, x), r.argTypes = s.argTypes, r.cur = s.cur
    PROVE  Fitting(r, params, given, n)
<1> DEFINE T == s.argTypes
<1>1. n \in Nat /\ n - 1 \in Nat /\ s.args \in Seq(Contents) /\ T \in Seq(ArgTypes)
  BY DEF States
<1>2. /\ Len(s.args) = n - 1 /\ s.cur = Len(T) + 1 /\ s.cur <= Len(given) + 1
      /\ ConvertedAs(s.args, T, params, given, n - 1) /\ Distinct(T) /\ Defaults(s.args, T, params, n - 1)
  BY DEF Fitting
<1>3. r.argTypes = T
  OBVIOUS
<1> HIDE DEF T
<1>4. /\ Len(r.args) = n /\ r.args[n] = x /\ \A i \in 1 .. n - 1 : r.args[i] = s.args[i]
  <2>1. Len(s.args) + 1 = n
    BY <1>1, <1>2
  <2> QED BY <1>1, <1>2, <2>1, Appending
<1>5. ConvertedAs(r.args, T, params, given, n)
  <2>1. 1 .. n - 1 \subseteq 1 .. n
    BY <1>1
  <2> QED BY <1>2, <1>4, <2>1 DEF ConvertedAs
<1>6. Defaults(r.args, T, params, n)
  <2>1. \A i \in 1 .. n : i = n \/ i \in 1 .. n - 1
    BY <1>1
  <2> QED BY <1>2, <1>4, <2>1 DEF Defaults
<1> QED BY <1>2, <1>3, <1>4, <1>5, <1>6 DEF Fitting

(* What matchParameters has after n parameters, o being their out values.  *)
Upto(s, params, given, n, o) == s \in States /\ (s.ok => Fitting(s, params, given, n) /\ s.outList = o)

NextOut(params, n, o) == IF Leaves(params[n]) THEN Append(o, n) ELSE o

LEMMA ParameterFits ==
    ASSUME NEW params \in Seq(Parameters), NEW given \in Args, NEW n \in 1 .. Len(params), NEW s, NEW o,
           Upto(s, params, given, n - 1, o), NEW r, r = Parameter(s, params[n], given)
    PROVE  Upto(r, params, given, n, NextOut(params, n, o))
<1> DEFINE p == params[n]
           v == given[s.cur]
<1>1. s \in States /\ p \in Parameters /\ n \in Nat
  BY DEF Upto
<1>2. /\ s.ok \in BOOLEAN /\ s.cur \in Nat /\ s.args \in Seq(Contents) /\ s.argTypes \in Seq(ArgTypes) /\ s.outList \in Seq(Nat)
  BY <1>1 DEF States
<1>3. p.type \in Casters /\ \A x : ElementCaster(x) \in Casters
  BY <1>1 DEF Parameters, Casters, ElementCaster
<1>4. r = Parameter(s, p, given)
  OBVIOUS
<1>5. CASE ~s.ok
  BY <1>1, <1>4, <1>5 DEF Parameter, Upto
<1>6. CASE s.ok
  <2>1. Fitting(s, params, given, n - 1) /\ s.outList = o
    BY <1>6 DEF Upto
  <2>2. ASSUME NEW x \in Contents, NEW outs \in Seq(Nat), r = [s EXCEPT !.args = Append(s.args, x), !.outList = outs],
               p.mode = "out" \/ (p.mode = "optional" /\ x = "default"), outs = NextOut(params, n, o)
        PROVE  Upto(r, params, given, n, NextOut(params, n, o))
    <3> DEFINE a == Append(s.args, x)
    <3>1. a \in Seq(Contents)
      BY <1>2, <2>2
    <3>2. r = [s EXCEPT !.args = a, !.outList = outs]
      BY <2>2
    <3> HIDE DEF a
    <3>3. r \in States /\ r.args = a /\ r.argTypes = s.argTypes /\ r.cur = s.cur /\ r.outList = outs
      BY <1>1, <2>2, <3>1, <3>2 DEF States
    <3>4. Fitting(r, params, given, n)
      BY <1>1, <2>1, <2>2, <3>3, AddedFits DEF a
    <3> QED BY <2>2, <3>3, <3>4 DEF Upto
  <2>3. ASSUME s.cur <= Len(given), NEW isArray \in BOOLEAN, NEW caster \in Casters, p.mode # "out",
               r = Takes(s, p, ArgType(s, isArray, caster), v)
        PROVE  Upto(r, params, given, n, NextOut(params, n, o))
    <3> DEFINE t == ArgType(s, isArray, caster)
    <3>1. r = Takes(s, params[n], t, given[s.cur])
      BY <2>3
    <3>2. t = ArgType(s, isArray, caster)
      OBVIOUS
    <3> HIDE DEF t
    <3>3. /\ r \in States /\ r.ok = s.ok /\ Fitting(r, params, given, n)
          /\ r.outList = IF Leaves(params[n]) THEN Append(s.outList, n) ELSE s.outList
      BY <1>1, <2>1, <2>3, <3>1, <3>2, TakesFits
    <3> QED BY <2>1, <3>3 DEF Upto, NextOut
  <2>4. CASE p.mode = "out"
    <3>1. Len(s.args) + 1 = n
      BY <1>1, <2>1 DEF Fitting
    <3>2. r = [s EXCEPT !.args = Append(s.args, "null"), !.outList = Append(s.outList, n)]
      <4> DEFINE a == Append(s.args, "null")
                 b == Append(s.outList, n)
      <4>1. r = [[s EXCEPT !.args = a] EXCEPT !.outList = Append(@, n)]
        BY <1>4, <1>6, <2>4, <3>1 DEF Parameter, Added
      <4>2. [s EXCEPT !.args = a].outList = s.outList
        BY <1>1 DEF States
      <4>3. r = [[s EXCEPT !.args = a] EXCEPT !.outList = b]
        BY <4>1, <4>2
      <4> HIDE DEF a, b
      <4>4. r = [s EXCEPT !.args = a, !.outList = b]
        BY <1>1, <4>3 DEF States
      <4> QED BY <4>4 DEF a, b
    <3>3. Append(s.outList, n) \in Seq(Nat) /\ Append(s.outList, n) = NextOut(params, n, o) /\ "null" \in Contents
      <4>1. Leaves(params[n])
        BY <2>4 DEF Leaves
      <4>2. "null" \in Contents
        BY DEF Contents
      <4> QED BY <1>1, <1>2, <2>1, <4>1, <4>2, AppendProperties DEF NextOut
    <3> QED BY <2>2, <2>4, <3>2, <3>3
  <2>5. CASE p.mode # "out" /\ s.cur <= Len(given) /\ Accepts(p.type, v)
    <3>1. r = Takes(s, p, ArgType(s, FALSE, p.type), v)
      BY <1>4, <1>6, <2>5 DEF Parameter
    <3> QED BY <1>3, <2>3, <2>5, <3>1
  <2>6. CASE p.mode # "out" /\ ~(s.cur <= Len(given) /\ Accepts(p.type, v)) /\ s.cur <= Len(given) /\ ParamsArray(p, v)
    <3>1. r = Takes(s, p, ArgType(s, TRUE, ElementCaster(v)), v)
      BY <1>4, <1>6, <2>6 DEF Parameter
    <3> QED BY <1>3, <2>3, <2>6, <3>1
  <2>7. CASE /\ p.mode # "out" /\ ~(s.cur <= Len(given) /\ Accepts(p.type, v)) /\ ~(s.cur <= Len(given) /\ ParamsArray(p, v))
             /\ p.mode = "optional"
    <3>1. r = Added(s, "default")
      BY <1>4, <1>6, <2>7 DEF Parameter
    <3>2. r = [s EXCEPT !.args = Append(s.args, "default"), !.outList = s.outList]
      BY <1>1, <3>1 DEF Added, States
    <3>3. s.outList = NextOut(params, n, o) /\ "default" \in Contents
      BY <2>1, <2>7 DEF NextOut, Leaves, Contents
    <3> QED BY <1>2, <2>2, <2>7, <3>2, <3>3
  <2>8. CASE /\ p.mode # "out" /\ ~(s.cur <= Len(given) /\ Accepts(p.type, v)) /\ ~(s.cur <= Len(given) /\ ParamsArray(p, v))
             /\ p.mode # "optional"
    <3>1. r = [s EXCEPT !.ok = FALSE]
      BY <1>4, <1>6, <2>8 DEF Parameter
    <3>2. r \in States /\ ~r.ok
      BY <1>1, <3>1 DEF States
    <3> QED BY <3>2 DEF Upto
  <2> QED BY <2>4, <2>5, <2>6, <2>7, <2>8
<1> QED BY <1>2, <1>5, <1>6

LEMMA UnmatchedFits ==
    ASSUME NEW params, NEW given \in Args
    PROVE  Upto(Unmatched, params, given, 0, << >>)
<1>1. /\ << >> \in Seq(Contents) /\ << >> \in Seq(ArgTypes) /\ << >> \in Seq(Nat) /\ Len(<< >>) = 0
  OBVIOUS
<1>2. Unmatched \in States
  BY <1>1 DEF Unmatched, States
<1>3. /\ Unmatched.args = << >> /\ Unmatched.argTypes = << >> /\ Unmatched.outList = << >> /\ Unmatched.cur = 1
  BY DEF Unmatched
<1>4. Len(given) \in Nat /\ 1 .. 0 = {}
  BY ArgsAre
<1>5. Fitting(Unmatched, params, given, 0)
  BY <1>1, <1>3, <1>4 DEF Fitting, ConvertedAs, Distinct, Defaults
<1> QED BY <1>2, <1>3, <1>5 DEF Upto

(* The recursive functions of Outs and Matched are what they say. *)
OutsUpto(params, f) == f[0] = << >> /\ \A n \in 1 .. Len(params) : f[n] = NextOut(params, n, f[n - 1])
MatchUpto(params, given, g) ==
    g[0] = Unmatched /\ \A n \in 1 .. Len(params) : g[n] = Parameter(g[n - 1], params[n], given)

LEMMA OutsExist ==
    ASSUME NEW i, NEW params \in Seq(Parameters), members[i].params = params
    PROVE  \E f : OutsUpto(params, f) /\ Outs(i) = f[Len(params)]
<1> DEFINE Step(f, n) == IF n = 0 THEN << >> ELSE NextOut(params, n, f[n - 1])
           Rec(f, N) == f = [n \in 0 .. N |-> Step(f, n)]
           S == {N \in Nat : \E f : Rec(f, N)}
           outs == CHOOSE f : Rec(f, Len(params))
<1>1. Outs(i) = outs[Len(params)]
  BY Zenon DEF Outs, NextOut, Leaves
<1>2. 0 \in S
  <2> DEFINE f == [n \in 0 .. 0 |-> << >>]
  <2>1. Rec(f, 0)
    OBVIOUS
  <2> QED BY <2>1
<1>3. ASSUME NEW N \in Nat, N \in S PROVE N + 1 \in S
  <2>1. PICK f : Rec(f, N)
    BY <1>3
  <2> DEFINE g == [n \in 0 .. N + 1 |-> IF n = N + 1 THEN Step(f, n) ELSE f[n]]
  <2>2. \A n \in 0 .. N + 1 : n # 0 => g[n - 1] = f[n - 1]
    OBVIOUS
  <2>3. \A n \in 0 .. N + 1 : Step(g, n) = Step(f, n)
    BY <2>2
  <2>4. \A n \in 0 .. N : f[n] = Step(f, n)
    <3> HIDE DEF Step
    <3> QED BY <2>1
  <2>5. \A n \in 0 .. N + 1 : g[n] = Step(g, n)
    <3>1. SUFFICES ASSUME NEW n \in 0 .. N + 1 PROVE g[n] = Step(f, n)
      BY <2>3
    <3> HIDE DEF Step
    <3> QED BY <2>4
  <2>6. Rec(g, N + 1)
    <3>1. g = [n \in 0 .. N + 1 |-> g[n]]
      OBVIOUS
    <3> HIDE DEF g, Step
    <3> QED BY <2>5, <3>1
  <2>7. \E e : Rec(e, N + 1)
    <3> HIDE DEF g, Rec
    <3> QED BY <2>6
  <2> HIDE DEF Rec
  <2> QED BY <2>7
<1>4. Len(params) \in Nat
  OBVIOUS
<1> HIDE DEF Rec
<1>5. Len(params) \in S
  <2> HIDE DEF S
  <2> QED BY <1>2, <1>3, <1>4, Induction
<1>6. Rec(outs, Len(params))
  BY <1>5
<1> HIDE DEF outs
<1>7. \A n \in 0 .. Len(params) : outs[n] = Step(outs, n)
  <2> HIDE DEF Step
  <2> QED BY <1>6 DEF Rec
<1>8. OutsUpto(params, outs)
  BY <1>4, <1>7 DEF OutsUpto
<1> QED BY <1>1, <1>8

LEMMA MatchedExist ==
    ASSUME NEW params \in Seq(Parameters), NEW given
    PROVE  \E g : /\ MatchUpto(params, given, g)
                  /\ LET end == g[Len(params)] IN
                     Matched(params, given) = [end EXCEPT !.ok = @ /\ end.cur = Len(given) + 1]
<1> DEFINE Step(f, n) == IF n = 0 THEN Unmatched ELSE Parameter(f[n - 1], params[n], given)
           Rec(f, N) == f = [n \in 0 .. N |-> Step(f, n)]
           S == {N \in Nat : \E f : Rec(f, N)}
           after == CHOOSE f : Rec(f, Len(params))
<1>1. LET end == after[Len(params)] IN
      Matched(params, given) = [end EXCEPT !.ok = @ /\ end.cur = Len(given) + 1]
  BY Zenon DEF Matched
<1>2. 0 \in S
  <2> DEFINE f == [n \in 0 .. 0 |-> Unmatched]
  <2>1. Rec(f, 0)
    OBVIOUS
  <2> QED BY <2>1
<1>3. ASSUME NEW N \in Nat, N \in S PROVE N + 1 \in S
  <2>1. PICK f : Rec(f, N)
    BY <1>3
  <2> DEFINE g == [n \in 0 .. N + 1 |-> IF n = N + 1 THEN Step(f, n) ELSE f[n]]
  <2>2. \A n \in 0 .. N + 1 : n # 0 => g[n - 1] = f[n - 1]
    OBVIOUS
  <2>3. \A n \in 0 .. N + 1 : Step(g, n) = Step(f, n)
    BY <2>2
  <2>4. \A n \in 0 .. N : f[n] = Step(f, n)
    <3> HIDE DEF Step
    <3> QED BY <2>1
  <2>5. \A n \in 0 .. N + 1 : g[n] = Step(g, n)
    <3>1. SUFFICES ASSUME NEW n \in 0 .. N + 1 PROVE g[n] = Step(f, n)
      BY <2>3
    <3> HIDE DEF Step
    <3> QED BY <2>4
  <2>6. Rec(g, N + 1)
    <3>1. g = [n \in 0 .. N + 1 |-> g[n]]
      OBVIOUS
    <3> HIDE DEF g, Step
    <3> QED BY <2>5, <3>1
  <2>7. \E e : Rec(e, N + 1)
    <3> HIDE DEF g, Rec
    <3> QED BY <2>6
  <2> HIDE DEF Rec
  <2> QED BY <2>7
<1>4. Len(params) \in Nat
  OBVIOUS
<1> HIDE DEF Rec
<1>5. Len(params) \in S
  <2> HIDE DEF S
  <2> QED BY <1>2, <1>3, <1>4, Induction
<1>6. Rec(after, Len(params))
  BY <1>5
<1> HIDE DEF after
<1>7. \A n \in 0 .. Len(params) : after[n] = Step(after, n)
  <2> HIDE DEF Step
  <2> QED BY <1>6 DEF Rec
<1>8. MatchUpto(params, given, after)
  BY <1>4, <1>7 DEF MatchUpto
<1> QED BY <1>1, <1>8

(* The out values are those of ref and out parameters. *)
Outward(o, params, n) == o \in Seq(Nat) /\ \A k \in 1 .. Len(o) : o[k] \in 1 .. n /\ Leaves(params[o[k]])

LEMMA OutsAreOutward ==
    ASSUME NEW params \in Seq(Parameters), NEW f, OutsUpto(params, f)
    PROVE  \A n \in 0 .. Len(params) : Outward(f[n], params, n)
<1> DEFINE S == {n \in Nat : n <= Len(params) => Outward(f[n], params, n)}
<1>1. 0 \in S
  <2>1. f[0] = << >> /\ << >> \in Seq(Nat) /\ Len(<< >>) = 0 /\ 1 .. 0 = {}
    BY DEF OutsUpto
  <2> QED BY <2>1 DEF Outward
<1>2. ASSUME NEW n \in Nat, n \in S PROVE n + 1 \in S
  <2> SUFFICES ASSUME n + 1 <= Len(params) PROVE Outward(f[n + 1], params, n + 1)
    OBVIOUS
  <2>1. f[n + 1] = NextOut(params, n + 1, f[n]) /\ Outward(f[n], params, n)
    <3>1. n + 1 \in 1 .. Len(params) /\ n + 1 - 1 = n /\ n <= Len(params)
      OBVIOUS
    <3> QED BY <1>2, <3>1 DEF OutsUpto
  <2>2. CASE ~Leaves(params[n + 1])
    <3>1. 1 .. n \subseteq 1 .. n + 1
      OBVIOUS
    <3> QED BY <2>1, <2>2, <3>1 DEF NextOut, Outward
  <2>3. CASE Leaves(params[n + 1])
    <3> DEFINE o == f[n]
               b == Append(o, n + 1)
    <3>1. o \in Seq(Nat) /\ \A k \in 1 .. Len(o) : o[k] \in 1 .. n /\ Leaves(params[o[k]])
      BY <2>1 DEF Outward
    <3>2. f[n + 1] = b
      BY <2>1, <2>3 DEF NextOut
    <3> HIDE DEF o
    <3>3. /\ b \in Seq(Nat) /\ Len(o) \in Nat /\ Len(b) = Len(o) + 1
          /\ \A k \in 1 .. Len(o) : b[k] = o[k]
          /\ b[Len(o) + 1] = n + 1
      BY <3>1, Appending
    <3> HIDE DEF b
    <3>4. \A k \in 1 .. Len(b) : k \in 1 .. Len(o) \/ k = Len(o) + 1
      BY <3>3
    <3>5. 1 .. n \subseteq 1 .. n + 1 /\ n + 1 \in 1 .. n + 1
      OBVIOUS
    <3> QED BY <2>3, <3>1, <3>2, <3>3, <3>4, <3>5 DEF Outward
  <2> QED BY <2>2, <2>3
<1>3. \A n \in Nat : n \in S
  <2> HIDE DEF S
  <2> QED BY <1>1, <1>2, Induction
<1> QED BY <1>3

(* What matchParameters accepts fits, and leaves the out values of Outs. *)
LEMMA MatchedFits ==
    ASSUME NEW i, NEW params \in Seq(Parameters), members[i].params = params, NEW given \in Args,
           NEW m, m = Matched(params, given), m.ok
    PROVE  m \in States /\ m.cur = Len(given) + 1 /\ m.outList = Outs(i) /\ Fitting(m, params, given, Len(params))
<1>1. PICK f : OutsUpto(params, f) /\ Outs(i) = f[Len(params)]
  BY OutsExist
<1>2. PICK g : /\ MatchUpto(params, given, g)
               /\ LET end == g[Len(params)] IN
                  Matched(params, given) = [end EXCEPT !.ok = @ /\ end.cur = Len(given) + 1]
  BY MatchedExist
<1> DEFINE S == {n \in Nat : n <= Len(params) => Upto(g[n], params, given, n, f[n])}
<1>3. 0 \in S
  BY <1>1, <1>2, UnmatchedFits DEF OutsUpto, MatchUpto
<1>4. ASSUME NEW n \in Nat, n \in S PROVE n + 1 \in S
  <2> SUFFICES ASSUME n + 1 <= Len(params) PROVE Upto(g[n + 1], params, given, n + 1, f[n + 1])
    OBVIOUS
  <2>1. n + 1 \in 1 .. Len(params) /\ n + 1 - 1 = n /\ n <= Len(params)
    OBVIOUS
  <2>2. Upto(g[n], params, given, n, f[n])
    BY <1>4, <2>1
  <2>3. f[n + 1] = NextOut(params, n + 1, f[n]) /\ g[n + 1] = Parameter(g[n], params[n + 1], given)
    BY <1>1, <1>2, <2>1 DEF OutsUpto, MatchUpto
  <2> QED BY <2>1, <2>2, <2>3, ParameterFits
<1>5. Len(params) \in Nat /\ \A n \in Nat : n \in S
  <2> HIDE DEF S
  <2> QED BY <1>3, <1>4, Induction
<1> DEFINE end == g[Len(params)]
<1>6. Upto(end, params, given, Len(params), f[Len(params)])
  BY <1>5
<1>7. m = [end EXCEPT !.ok = @ /\ end.cur = Len(given) + 1]
  BY <1>2
<1> HIDE DEF end
<1>8. end \in States
  BY <1>6 DEF Upto
<1>9. /\ m \in States /\ m.ok = (end.ok /\ end.cur = Len(given) + 1)
      /\ m.cur = end.cur /\ m.args = end.args /\ m.argTypes = end.argTypes /\ m.outList = end.outList
  BY <1>7, <1>8 DEF States
<1>10. end.ok /\ end.cur = Len(given) + 1
  BY <1>9
<1> QED BY <1>1, <1>6, <1>9, <1>10 DEF Upto, Fitting

-----------------------------------------------------------------------------
(* The invariant: what the cache holds is what matchParameters left for    *)
(* its overload, but for the arguments of calls.  A call whose array is    *)
(* that of the cache is of its overload; what the call has stored in the   *)
(* array, or Invoke for it, is there but for what others have overwritten. *)

Values == Contents \cup {"nil"} \cup {Made(d, i) : d \in Nat, i \in Nat}

Frames ==
    [at : {"search", "fill", "run", "push", "out"}, given : Args, method : Nat, cached : BOOLEAN, array : Nat,
     n : Nat, type : ArgTypes, outs : Seq(Nat), left : Seq(Values), lost : SUBSET Nat]

Remembered(c, args, params, void, o) ==
    /\ c.void = void /\ c.outList = o /\ c.argTypes \in Seq(ArgTypes)
    /\ DOMAIN args = 1 .. Len(params)
    /\ \A k \in 1 .. Len(c.argTypes) :
          c.argTypes[k].index \in 1 .. Len(params) /\ params[c.argTypes[k].index].mode # "out"
    /\ Distinct(c.argTypes)
    /\ Defaults(args, c.argTypes, params, Len(params))

CacheOK(c, A) ==
    /\ c.method \in Nat
    /\ c.method = 0 => c.args = 0
    /\ c.method # 0 =>
          /\ c.method \in 1 .. Len(members) /\ c.args \in 1 .. MaxDepth
          /\ Remembered(c, A[c.args], members[c.method].params, members[c.method].void, Outs(c.method))

(* The first n arguments have been stored. *)
Stored(f, T, a, n) == \A j \in 1 .. n : T[j].index \notin f.lost => a[T[j].index] = Extracted(T[j], f.given[j])

Filling(f, T, a) ==
    f.n \in 1 .. Len(T) /\ f.type = T[f.n] /\ Len(f.given) = Len(T) /\ Stored(f, T, a, f.n - 1)

(* The result and some of the out values o have been pushed by call k. *)
Leaving(f, k, o, a) ==
    /\ \A j \in 1 .. Len(o) : o[j] \notin f.lost => a[o[j]] = Made(k, o[j])
    /\ Len(f.left) >= 1 /\ f.left[1] = Result(f.method, k)
    /\ f.at = "push" => Len(f.left) = 1
    /\ f.at = "out" =>
          /\ f.outs = o /\ Len(f.left) \in 2 .. Len(o) + 1
          /\ \A j \in 1 .. Len(f.left) - 1 : o[j] \notin f.lost => f.left[j + 1] = Made(k, o[j])

Kept(f, k, c, a) ==
    /\ f.method = c.method
    /\ f.at = "fill" => Filling(f, c.argTypes, a)
    /\ f.at \in {"push", "out"} => Leaving(f, k, c.outList, a)

FrameOK(f, k, c, A) ==
    /\ f.method \in 1 .. Len(members)
    /\ f.at = "search" => f.array = 0 /\ ~f.cached
    /\ f.at # "search" => f.array \in 1 .. MaxDepth /\ c.method # 0
    /\ f.at = "fill" => f.cached
    /\ f.at # "search" /\ f.array = c.args => Kept(f, k, c, A[c.args])

Good(c, A, C) ==
    /\ CacheOK(c, A) /\ A \in [1 .. MaxDepth -> Seq(Values)]
    /\ C \in Seq(Frames) /\ Len(C) <= MaxDepth
    /\ \A k \in 1 .. Len(C) : FrameOK(C[k], k, c, A)

Inv ==
    /\ members \in Families /\ byName \in BOOLEAN /\ refused \in Filters
    /\ Good(cache, arrays, calls)

LEMMA MembersAre ==
    ASSUME members \in Families
    PROVE  /\ Len(members) \in Nat /\ DOMAIN members = 1 .. Len(members)
           /\ \A i \in 1 .. Len(members) :
                 /\ members[i].params \in Seq(Parameters) /\ members[i].void \in BOOLEAN
                 /\ Len(members[i].params) \in Nat
                 /\ DOMAIN members[i].params = 1 .. Len(members[i].params)
<1> DEFINE M == [params : Seq(Parameters), void : BOOLEAN]
<1>1. members \in Seq(M)
  BY FamiliesAssumption DEF Parameters
<1>2. \A x \in M : x.params \in Seq(Parameters) /\ x.void \in BOOLEAN
  OBVIOUS
<1> HIDE DEF M
<1>3. Len(members) \in Nat /\ DOMAIN members = 1 .. Len(members) /\ \A i \in 1 .. Len(members) : members[i] \in M
  BY <1>1
<1>4. \A s \in Seq(Parameters) : Len(s) \in Nat /\ DOMAIN s = 1 .. Len(s)
  OBVIOUS
<1> QED BY <1>2, <1>3, <1>4

LEMMA OutsOutward ==
    ASSUME members \in Families, NEW i \in 1 .. Len(members)
    PROVE  Outward(Outs(i), members[i].params, Len(members[i].params))
<1> DEFINE params == members[i].params
<1>1. params \in Seq(Parameters) /\ Len(params) \in Nat
  BY MembersAre
<1>2. members[i].params = params
  OBVIOUS
<1> HIDE DEF params
<1>3. PICK f : OutsUpto(params, f) /\ Outs(i) = f[Len(params)]
  BY <1>1, <1>2, OutsExist
<1>4. Len(params) \in 0 .. Len(params)
  BY <1>1
<1> QED BY <1>1, <1>2, <1>3, <1>4, OutsAreOutward


(* What a search finds. *)
LEMMA FoundIsRemembered ==
    ASSUME members \in Families, NEW i \in 1 .. Len(members), NEW given \in Args, NEW id \in 1 .. MaxDepth,
           NEW m, m = Matched(members[i].params, given), m.ok,
           NEW A, A[id] = m.args
    PROVE  /\ Found(i, m, id).method = i /\ Found(i, m, id).args = id
           /\ CacheOK(Found(i, m, id), A) /\ m.args \in Seq(Contents)
<1> DEFINE params == members[i].params
           c == Found(i, m, id)
<1>1. params \in Seq(Parameters) /\ Len(params) \in Nat
  BY MembersAre
<1>2. m \in States /\ m.outList = Outs(i) /\ Fitting(m, params, given, Len(params))
  BY <1>1, MatchedFits
<1>3. /\ c.method = i /\ c.args = id /\ c.argTypes = m.argTypes /\ c.outList = m.outList /\ c.void = members[i].void
  BY DEF Found
<1>4. members[i].params = params /\ i # 0 /\ i \in Nat
  OBVIOUS
<1> HIDE DEF c, params
<1>5. m.args \in Seq(Contents) /\ m.argTypes \in Seq(ArgTypes)
  BY <1>2 DEF States
<1>6. DOMAIN m.args = 1 .. Len(params)
  BY <1>2, <1>5 DEF Fitting
<1>7. Remembered(c, A[id], params, members[i].void, Outs(i))
  BY <1>2, <1>3, <1>5, <1>6 DEF Remembered, Fitting, ConvertedAs
<1>8. CacheOK(c, A)
  BY <1>3, <1>4, <1>7 DEF CacheOK
<1> QED BY <1>3, <1>5, <1>8 DEF c

(* What is remembered stays so when an argument or an out value is stored. *)
Storable(c, params, j) == (\E k \in 1 .. Len(c.argTypes) : c.argTypes[k].index = j) \/ Leaves(params[j])

LEMMA StoringKeeps ==
    ASSUME NEW c, NEW a, NEW params, NEW void, NEW o, Remembered(c, a, params, void, o),
           NEW b, DOMAIN b = DOMAIN a, NEW X, \A j \in DOMAIN a : j \notin X => b[j] = a[j],
           \A j \in X : Storable(c, params, j)
    PROVE  Remembered(c, b, params, void, o)
<1>1. DOMAIN a = 1 .. Len(params) /\ Defaults(a, c.argTypes, params, Len(params))
  BY DEF Remembered
<1>2. ASSUME NEW j \in 1 .. Len(params), params[j].mode # "out"
      PROVE  (\E k \in 1 .. Len(c.argTypes) : c.argTypes[k].index = j)
             \/ (params[j].mode = "optional" /\ b[j] = "default")
  <2>1. (\E k \in 1 .. Len(c.argTypes) : c.argTypes[k].index = j)
        \/ (params[j].mode = "optional" /\ a[j] = "default")
    BY <1>1, <1>2 DEF Defaults
  <2>2. CASE \E k \in 1 .. Len(c.argTypes) : c.argTypes[k].index = j
    BY <2>2
  <2>3. CASE ~\E k \in 1 .. Len(c.argTypes) : c.argTypes[k].index = j
    <3>1. params[j].mode = "optional" /\ a[j] = "default"
      BY <2>1, <2>3
    <3>2. j \notin X
      BY <2>3, <3>1 DEF Storable, Leaves
    <3> QED BY <1>1, <3>1, <3>2
  <2> QED BY <2>2, <2>3
<1>3. Defaults(b, c.argTypes, params, Len(params))
  BY <1>2 DEF Defaults
<1> QED BY <1>3 DEF Remembered

-----------------------------------------------------------------------------
(* The calls that run. *)

LEMMA FrontOfCalls ==
    ASSUME NEW C \in Seq(Frames), C # << >>
    PROVE  /\ Front(C) \in Seq(Frames) /\ Len(C) \in Nat \ {0} /\ Len(Front(C)) = Len(C) - 1
           /\ C[Len(C)] \in Frames
           /\ \A k \in 1 .. Len(C) - 1 : Front(C)[k] = C[k]
<1>1. Len(C) \in Nat \ {0} /\ \A k \in 1 .. Len(C) : C[k] \in Frames
  BY EmptySeq, ElementOfSeq
<1>2. Len(C) - 1 \in Int /\ 1 \in Int /\ \A k \in 1 .. Len(C) - 1 : C[k] \in Frames
  BY <1>1
<1>3. SubSeq(C, 1, Len(C) - 1) \in Seq(Frames)
  BY <1>2, SubSeqProperties
<1>4. Len(SubSeq(C, 1, Len(C) - 1)) = IF 1 <= Len(C) - 1 THEN Len(C) - 1 - 1 + 1 ELSE 0
  BY <1>2, SubSeqProperties
<1>5. \A n \in Nat \ {0} : (IF 1 <= n - 1 THEN n - 1 - 1 + 1 ELSE 0) = n - 1
  OBVIOUS
<1>6. Front(C) = SubSeq(C, 1, Len(C) - 1)
  BY DEF Front
<1>7. Len(Front(C)) = Len(C) - 1
  BY <1>1, <1>4, <1>5, <1>6
<1>8. C[Len(C)] \in Frames
  BY <1>1
<1>9. \A k \in 1 .. Len(C) - 1 : Front(C)[k] = C[k]
  BY <1>1, <1>6
<1> QED BY <1>1, <1>3, <1>6, <1>7, <1>8, <1>9

LEMMA Appended ==
    ASSUME NEW C \in Seq(Frames), NEW f \in Frames
    PROVE  /\ Append(C, f) \in Seq(Frames) /\ Last(Append(C, f)) = f
           /\ Len(C) \in Nat /\ Len(Append(C, f)) = Len(C) + 1
           /\ \A k \in 1 .. Len(C) : Append(C, f)[k] = C[k]
           /\ Append(C, f)[Len(C) + 1] = f
BY Appending DEF Last

LEMMA GoingIsGood ==
    ASSUME NEW c, NEW A, NEW C, Good(c, A, C), Len(C) < MaxDepth,
           NEW f \in Frames, FrameOK(f, Len(C) + 1, c, A)
    PROVE  /\ Good(c, A, Append(C, f)) /\ Last(Append(C, f)) = f
           /\ Len(C) \in Nat /\ Len(Append(C, f)) = Len(C) + 1
<1>1. C \in Seq(Frames) /\ \A k \in 1 .. Len(C) : FrameOK(C[k], k, c, A)
  BY DEF Good
<1> DEFINE D == Append(C, f)
<1>2. /\ D \in Seq(Frames) /\ Last(D) = f /\ Len(C) \in Nat /\ Len(D) = Len(C) + 1
      /\ \A k \in 1 .. Len(C) : D[k] = C[k]
      /\ D[Len(C) + 1] = f
  BY <1>1, Appended
<1> HIDE DEF D
<1>3. \A k \in 1 .. Len(D) : k \in 1 .. Len(C) \/ k = Len(C) + 1
  BY <1>2
<1>4. \A k \in 1 .. Len(D) : FrameOK(D[k], k, c, A)
  BY <1>1, <1>2, <1>3
<1>5. Len(D) <= MaxDepth
  BY <1>2, BoundsAssumption
<1>6. Good(c, A, D)
  BY <1>2, <1>4, <1>5 DEF Good
<1> QED BY <1>2, <1>6 DEF D

LEMMA OuterIsGood ==
    ASSUME NEW c, NEW A, NEW C, Good(c, A, C), C # << >>
    PROVE  /\ Good(c, A, Front(C)) /\ Len(C) \in Nat \ {0} /\ Len(Front(C)) = Len(C) - 1
           /\ Len(Front(C)) < MaxDepth /\ Len(C) <= MaxDepth
           /\ C[Len(C)] \in Frames /\ FrameOK(C[Len(C)], Len(C), c, A)
<1>1. C \in Seq(Frames) /\ Len(C) <= MaxDepth /\ \A k \in 1 .. Len(C) : FrameOK(C[k], k, c, A)
  BY DEF Good
<1>2. /\ Front(C) \in Seq(Frames) /\ Len(C) \in Nat \ {0} /\ Len(Front(C)) = Len(C) - 1
      /\ C[Len(C)] \in Frames
      /\ \A k \in 1 .. Len(C) - 1 : Front(C)[k] = C[k]
  BY <1>1, FrontOfCalls
<1>3. Len(Front(C)) < MaxDepth /\ Len(Front(C)) <= MaxDepth
  BY <1>1, <1>2, BoundsAssumption
<1>4. 1 .. Len(C) - 1 \subseteq 1 .. Len(C) /\ Len(C) \in 1 .. Len(C)
  BY <1>2
<1>5. \A k \in 1 .. Len(Front(C)) : FrameOK(Front(C)[k], k, c, A)
  BY <1>1, <1>2, <1>4
<1>6. Good(c, A, Front(C))
  BY <1>2, <1>3, <1>5 DEF Good
<1> QED BY <1>1, <1>2, <1>3, <1>4, <1>6

(* The entries that the conversions, and the out values, are for. *)
LEMMA Entries ==
    ASSUME members \in Families, NEW c, NEW A, CacheOK(c, A), c.method # 0
    PROVE  /\ c.method \in 1 .. Len(members) /\ c.args \in 1 .. MaxDepth
           /\ c.argTypes \in Seq(ArgTypes) /\ c.outList \in Seq(Nat)
           /\ c.outList = Outs(c.method) /\ c.void = members[c.method].void
           /\ DOMAIN A[c.args] = 1 .. Len(members[c.method].params)
           /\ \A k \in 1 .. Len(c.argTypes) :
                 /\ c.argTypes[k] \in ArgTypes /\ c.argTypes[k].index \in DOMAIN A[c.args]
                 /\ members[c.method].params[c.argTypes[k].index].mode # "out"
           /\ \A k \in 1 .. Len(c.outList) :
                 c.outList[k] \in DOMAIN A[c.args] /\ Leaves(members[c.method].params[c.outList[k]])
<1> DEFINE params == members[c.method].params
           o == Outs(c.method)
<1>1. /\ c.method \in 1 .. Len(members) /\ c.args \in 1 .. MaxDepth
      /\ Remembered(c, A[c.args], params, members[c.method].void, o)
  BY DEF CacheOK
<1>2. Outward(o, params, Len(params))
  BY <1>1, OutsOutward
<1> HIDE DEF params, o
<1>3. \A T \in Seq(ArgTypes) : \A k \in 1 .. Len(T) : T[k] \in ArgTypes
  OBVIOUS
<1>4. /\ c.argTypes \in Seq(ArgTypes) /\ c.outList = o /\ c.void = members[c.method].void
      /\ DOMAIN A[c.args] = 1 .. Len(params)
      /\ \A k \in 1 .. Len(c.argTypes) :
            /\ c.argTypes[k].index \in DOMAIN A[c.args] /\ params[c.argTypes[k].index].mode # "out"
  BY <1>1 DEF Remembered
<1>5. o \in Seq(Nat) /\ \A k \in 1 .. Len(o) : o[k] \in DOMAIN A[c.args] /\ Leaves(params[o[k]])
  BY <1>2, <1>4 DEF Outward
<1> QED BY <1>1, <1>3, <1>4, <1>5 DEF params, o

(* Others see their entries X overwritten. *)
Lose(f, X) == [f EXCEPT !.lost = f.lost \cup X]

LEMMA LoseIs ==
    ASSUME NEW f \in Frames, NEW X \in SUBSET Nat, NEW g, g = Lose(f, X)
    PROVE  /\ g \in Frames
           /\ g.at = f.at /\ g.given = f.given /\ g.method = f.method /\ g.cached = f.cached /\ g.array = f.array
           /\ g.n = f.n /\ g.type = f.type /\ g.outs = f.outs /\ g.left = f.left /\ g.lost = f.lost \cup X
<1>1. g = [f EXCEPT !.lost = f.lost \cup X]
  BY DEF Lose
<1> HIDE DEF Lose
<1>2. f.lost \cup X \in SUBSET Nat
  BY DEF Frames
<1> QED BY <1>1, <1>2 DEF Frames

LEMMA LosingIsOK ==
    ASSUME members \in Families, NEW c, NEW A, CacheOK(c, A), NEW f \in Frames, NEW k, FrameOK(f, k, c, A),
           f.at # "search", f.array = c.args,
           NEW X \in SUBSET Nat, NEW b, \A j \in DOMAIN A[c.args] : j \notin X => b[j] = A[c.args][j],
           NEW g, g = Lose(f, X)
    PROVE  Kept(g, k, c, b)
<1> DEFINE a == A[c.args]
           T == c.argTypes
           o == c.outList
<1>1. c.method # 0 /\ Kept(f, k, c, a)
  BY DEF FrameOK
<1>2. /\ \A j \in 1 .. Len(T) : T[j].index \in DOMAIN a
      /\ \A j \in 1 .. Len(o) : o[j] \in DOMAIN a
      /\ T \in Seq(ArgTypes)
  BY <1>1, Entries
<1>3. \A j \in DOMAIN a : j \notin X => b[j] = a[j]
  OBVIOUS
<1>4. /\ g.at = f.at /\ g.given = f.given /\ g.method = f.method
      /\ g.n = f.n /\ g.type = f.type /\ g.outs = f.outs /\ g.left = f.left /\ g.lost = f.lost \cup X
  BY LoseIs
<1> HIDE DEF a, T, o
<1>5. Filling(f, T, a) => Filling(g, T, b)
  <2> SUFFICES ASSUME Filling(f, T, a) PROVE Filling(g, T, b)
    OBVIOUS
  <2>1. /\ f.n \in 1 .. Len(T) /\ f.type = T[f.n] /\ Len(f.given) = Len(T)
        /\ \A j \in 1 .. f.n - 1 : T[j].index \notin f.lost => a[T[j].index] = Extracted(T[j], f.given[j])
    BY DEF Filling, Stored
  <2>2. Len(T) \in Nat /\ 1 .. f.n - 1 \subseteq 1 .. Len(T)
    BY <1>2, <2>1
  <2>3. \A j \in 1 .. f.n - 1 : T[j].index \notin g.lost => b[T[j].index] = Extracted(T[j], f.given[j])
    BY <1>2, <1>3, <1>4, <2>1, <2>2
  <2> QED BY <1>4, <2>1, <2>3 DEF Filling, Stored
<1>6. Leaving(f, k, o, a) => Leaving(g, k, o, b)
  <2> SUFFICES ASSUME Leaving(f, k, o, a) PROVE Leaving(g, k, o, b)
    OBVIOUS
  <2>1. \A j \in 1 .. Len(o) : o[j] \notin g.lost => b[o[j]] = Made(k, o[j])
    BY <1>2, <1>3, <1>4 DEF Leaving
  <2>2. Len(g.left) >= 1 /\ g.left[1] = Result(g.method, k) /\ (g.at = "push" => Len(g.left) = 1)
    BY <1>4 DEF Leaving
  <2>3. g.at = "out" =>
          /\ g.outs = o /\ Len(g.left) \in 2 .. Len(o) + 1
          /\ \A j \in 1 .. Len(g.left) - 1 : o[j] \notin g.lost => g.left[j + 1] = Made(k, o[j])
    BY <1>4 DEF Leaving
  <2> QED BY <2>1, <2>2, <2>3 DEF Leaving
<1>7. /\ f.method = c.method /\ (f.at = "fill" => Filling(f, T, a))
      /\ (f.at \in {"push", "out"} => Leaving(f, k, o, a))
  BY <1>1 DEF Kept, T, o, a
<1> QED BY <1>4, <1>5, <1>6, <1>7 DEF Kept, T, o

(* The entries X of array a are written. *)
Writes(c, A, a, b, X) ==
    /\ a \in 1 .. MaxDepth /\ b \in Seq(Values) /\ DOMAIN b = DOMAIN A[a] /\ X \in SUBSET Nat
    /\ \A j \in DOMAIN A[a] : j \notin X => b[j] = A[a][j]
    /\ c.method # 0 /\ c.args = a => \A j \in X : Storable(c, members[c.method].params, j)
Put(A, a, b) == [A EXCEPT ![a] = b]

LEMMA WritingIsGood ==
    ASSUME members \in Families, NEW c, NEW A, NEW C, Good(c, A, C),
           NEW a, NEW b, NEW X, Writes(c, A, a, b, X), NEW B, B = Put(A, a, b)
    PROVE  Good(c, B, Overwritten(C, a, X)) /\ Len(Overwritten(C, a, X)) = Len(C)
<1>0. /\ a \in 1 .. MaxDepth /\ b \in Seq(Values) /\ DOMAIN b = DOMAIN A[a] /\ X \in SUBSET Nat
      /\ \A j \in DOMAIN A[a] : j \notin X => b[j] = A[a][j]
      /\ c.method # 0 /\ c.args = a => \A j \in X : Storable(c, members[c.method].params, j)
  BY DEF Writes
<1> DEFINE D == Overwritten(C, a, X)
<1>1. /\ CacheOK(c, A) /\ A \in [1 .. MaxDepth -> Seq(Values)] /\ C \in Seq(Frames) /\ Len(C) <= MaxDepth
      /\ \A k \in 1 .. Len(C) : FrameOK(C[k], k, c, A)
  BY DEF Good
<1>2. B \in [1 .. MaxDepth -> Seq(Values)] /\ B[a] = b /\ \A id \in 1 .. MaxDepth : id # a => B[id] = A[id]
  BY <1>0, <1>1 DEF Put
<1>3. CacheOK(c, B)
  <2>1. CASE c.method = 0
    BY <1>1, <2>1 DEF CacheOK
  <2>2. CASE c.method # 0 /\ c.args # a
    BY <1>1, <1>2, <2>2 DEF CacheOK
  <2>3. CASE c.method # 0 /\ c.args = a
    <3> DEFINE params == members[c.method].params
    <3>1. Remembered(c, A[a], params, members[c.method].void, Outs(c.method))
      BY <1>1, <2>3 DEF CacheOK
    <3>2. \A j \in X : Storable(c, params, j)
      BY <1>0, <2>3
    <3> HIDE DEF params
    <3>3. Remembered(c, b, params, members[c.method].void, Outs(c.method))
      BY <1>0, <3>1, <3>2, StoringKeeps
    <3> QED BY <1>0, <1>1, <1>2, <2>3, <3>3 DEF CacheOK, params
  <2> QED BY <2>1, <2>2, <2>3
<1>4. Len(C) \in Nat /\ DOMAIN C = 1 .. Len(C) /\ \A k \in 1 .. Len(C) : C[k] \in Frames
  BY <1>1
<1>5. D = [k \in 1 .. Len(C) |-> IF C[k].array = a THEN Lose(C[k], X) ELSE C[k]]
  BY <1>4 DEF Overwritten, Lose
<1> HIDE DEF D
<1>6. \A k \in 1 .. Len(C) : D[k] = IF C[k].array = a THEN Lose(C[k], X) ELSE C[k]
  BY <1>5
<1>7. \A k \in 1 .. Len(C) : D[k] \in Frames
  BY <1>0, <1>4, <1>6, LoseIs
<1>8. D \in Seq(Frames) /\ Len(D) = Len(C)
  BY <1>4, <1>5, <1>7
<1>9. ASSUME NEW k \in 1 .. Len(C) PROVE FrameOK(D[k], k, c, B)
  <2> DEFINE f == C[k]
  <2>1. FrameOK(f, k, c, A) /\ f \in Frames
    BY <1>1, <1>4
  <2>2. CASE f.array # a
    <3>1. D[k] = f
      BY <1>6, <2>2
    <3>2. f.at # "search" /\ f.array = c.args => Kept(f, k, c, B[c.args])
      BY <1>2, <2>1, <2>2 DEF FrameOK
    <3> HIDE DEF f
    <3> QED BY <2>1, <3>1, <3>2 DEF FrameOK
  <2>3. CASE f.array = a
    <3> DEFINE g == Lose(f, X)
    <3>1. D[k] = g
      BY <1>6, <2>3
    <3>2. g = Lose(f, X)
      OBVIOUS
    <3> HIDE DEF f, g
    <3>3. /\ g.at = f.at /\ g.method = f.method /\ g.cached = f.cached /\ g.array = f.array
      BY <1>0, <2>1, <3>2, LoseIs
    <3>4. f.at # "search" /\ f.array = c.args => Kept(g, k, c, B[c.args])
      <4> SUFFICES ASSUME f.at # "search", c.args = a PROVE Kept(g, k, c, b)
        BY <1>0, <1>2, <2>3
      <4>1. \A j \in DOMAIN A[c.args] : j \notin X => b[j] = A[c.args][j]
        BY <1>0
      <4> QED BY <1>0, <1>1, <2>1, <2>3, <3>2, <4>1, LosingIsOK
    <3> QED BY <2>1, <3>1, <3>3, <3>4 DEF FrameOK
  <2> QED BY <2>2, <2>3
<1>10. Good(c, B, D)
  BY <1>1, <1>2, <1>3, <1>8, <1>9 DEF Good
<1> QED BY <1>8, <1>10 DEF D

(* A search puts an array into the cache that no call uses. *)
LEMMA NewCacheIsGood ==
    ASSUME NEW c, NEW A, NEW C, Good(c, A, C), NEW id \in 1 .. MaxDepth, \A k \in 1 .. Len(C) : C[k].array # id,
           NEW a \in Seq(Values), NEW B, B = [A EXCEPT ![id] = a],
           NEW d, d.method # 0, d.args = id, CacheOK(d, B)
    PROVE  Good(d, B, C)
<1>1. /\ A \in [1 .. MaxDepth -> Seq(Values)] /\ C \in Seq(Frames) /\ Len(C) <= MaxDepth
      /\ \A k \in 1 .. Len(C) : FrameOK(C[k], k, c, A)
  BY DEF Good
<1>2. B \in [1 .. MaxDepth -> Seq(Values)]
  BY <1>1
<1>3. \A k \in 1 .. Len(C) : FrameOK(C[k], k, d, B)
  BY <1>1 DEF FrameOK
<1> QED BY <1>1, <1>2, <1>3 DEF Good

-----------------------------------------------------------------------------
(* What a step has to show: a call that goes on is one of the invariant,   *)
(* and if it runs its method, by the cache, with arguments of its own, or  *)
(* is allowed to.                                                          *)

Own(f, c, args) ==
    LET params == members[f.method].params
        m == Matched(params, f.given)
        T == c.argTypes
    IN  \A i \in DOMAIN params : params[i].mode # "out" /\ i \notin f.lost =>
            /\ \/ \E k \in DOMAIN T : T[k].index = i /\ args[i] = Extracted(T[k], f.given[k])
               \/ params[i].mode = "optional" /\ args[i] = "default"
            /\ m.ok /\ T = m.argTypes => args[i] = m.args[i]

OwnStep == Good(cache', arrays', calls') /\ OwnArguments /\ OwnResults /\ AllowedRun

LEMMA GoesIsOwn ==
    ASSUME Len(calls) \in Nat, NEW C, Good(cache', arrays', C), Len(C) < MaxDepth, Len(calls) <= Len(C) + 1,
           NEW f \in Frames, FrameOK(f, Len(C) + 1, cache', arrays'), Goes(C, f),
           f.at = "run" /\ f.cached /\ cache.args = f.array => Own(f, cache, arrays'[f.array]),
           f.cached /\ Len(C) + 1 > Len(calls) => f.method \notin refused,
           f.cached /\ Len(C) + 1 = Len(calls) => Inner.cached /\ f.method = Inner.method,
           ~f.cached /\ f.at = "run" => f.method \notin refused
    PROVE  OwnStep
<1>1. calls' = Append(C, f)
  BY DEF Goes
<1>2. Good(cache', arrays', calls') /\ Last(calls') = f /\ Len(calls') = Len(C) + 1 /\ Len(C) \in Nat
  BY <1>1, GoingIsGood
<1>3. OwnArguments
  BY <1>2 DEF OwnArguments, Started, Own
<1>4. OwnResults
  BY <1>2 DEF OwnResults
<1>5. AllowedRun
  BY <1>2 DEF AllowedRun
<1> QED BY <1>2, <1>3, <1>4, <1>5 DEF OwnStep

LEMMA FailsIsOwn ==
    ASSUME Len(calls) \in Nat, NEW C, Good(cache', arrays', C), C = calls \/ Len(C) = Len(calls) - 1, Fails(C)
    PROVE  OwnStep
<1>1. calls' = C /\ results' = Failed
  BY DEF Fails, Ends
<1>2. calls' = calls \/ Len(calls') = Len(calls) - 1
  BY <1>1
<1>3. OwnArguments /\ AllowedRun
  BY <1>2 DEF OwnArguments, Started, AllowedRun
<1>4. OwnResults
  BY <1>1 DEF OwnResults
<1> QED BY <1>1, <1>3, <1>4 DEF OwnStep

LEMMA CallIsFrame ==
    ASSUME NEW given \in Args
    PROVE  /\ Call(given) \in Frames /\ Call(given).at = "search" /\ Call(given).given = given
           /\ Call(given).method = 1 /\ Call(given).cached = FALSE /\ Call(given).array = 0
           /\ NoType \in ArgTypes
<1>1. NoType \in ArgTypes
  BY DEF NoType, ArgTypes, Casters
<1>2. << >> \in Seq(Nat) /\ << >> \in Seq(Values) /\ {} \in SUBSET Nat
  OBVIOUS
<1>3. Call(given) \in Frames
  BY <1>1, <1>2 DEF Call, Frames
<1> QED BY <1>1, <1>3 DEF Call

LEMMA CallIsOK ==
    ASSUME members \in Families, NEW given \in Args, NEW k, NEW c, NEW A
    PROVE  FrameOK(Call(given), k, c, A)
<1>1. 1 \in 1 .. Len(members)
  <2>1. members # << >> /\ members \in Seq([params : Seq([type : STRING, mode : STRING]), void : BOOLEAN])
    BY FamiliesAssumption
  <2> QED BY <2>1, EmptySeq, MembersAre
<1> QED BY <1>1, CallIsFrame DEF FrameOK

(* An exception ends the call, or has it search. *)
LEMMA ThrownIsOwn ==
    ASSUME members \in Families, Len(calls) \in Nat, NEW C, Good(cache', arrays', C), Len(C) < MaxDepth,
           C = calls \/ Len(C) = Len(calls) - 1,
           NEW f, f.given \in Args, Thrown(C, f)
    PROVE  OwnStep
<1>1. CASE Fails(C)
  BY <1>1, FailsIsOwn
<1>2. CASE Goes(C, Call(f.given))
  <2> DEFINE g == Call(f.given)
  <2>1. g \in Frames /\ g.at = "search" /\ g.cached = FALSE /\ FrameOK(g, Len(C) + 1, cache', arrays')
    BY CallIsFrame, CallIsOK
  <2>2. Goes(C, g)
    BY <1>2
  <2> HIDE DEF g
  <2>3. Len(calls) <= Len(C) + 1
    OBVIOUS
  <2> QED BY <2>1, <2>2, <2>3, GoesIsOwn
<1> QED BY <1>1, <1>2 DEF Thrown

-----------------------------------------------------------------------------
(* The way that uses the cache. *)

(* All arguments are stored: those of the call, and defaults as before. *)
LEMMA StoredIsOwn ==
    ASSUME members \in Families, NEW c, NEW A, CacheOK(c, A), c.method # 0,
           NEW f \in Frames, f.method = c.method, Len(f.given) = Len(c.argTypes),
           Stored(f, c.argTypes, A[c.args], Len(c.argTypes))
    PROVE  Own(f, c, A[c.args])
<1> DEFINE params == members[c.method].params
           T == c.argTypes
           a == A[c.args]
           m == Matched(params, f.given)
<1>1. c.method \in 1 .. Len(members) /\ Remembered(c, a, params, members[c.method].void, Outs(c.method))
  BY DEF CacheOK
<1>2. params \in Seq(Parameters) /\ Len(params) \in Nat /\ DOMAIN params = 1 .. Len(params)
  BY <1>1, MembersAre
<1>3. T \in Seq(ArgTypes) /\ Len(T) \in Nat /\ DOMAIN T = 1 .. Len(T) /\ Defaults(a, T, params, Len(params))
  BY <1>1 DEF Remembered
<1>4. f.given \in Args
  BY DEF Frames
<1>5. \A k \in 1 .. Len(T) : T[k].index \notin f.lost => a[T[k].index] = Extracted(T[k], f.given[k])
  BY DEF Stored
<1>6. m.ok => Fitting(m, params, f.given, Len(params))
  BY <1>2, <1>4, MatchedFits
<1>7. Own(f, c, a) <=> \A i \in DOMAIN params : params[i].mode # "out" /\ i \notin f.lost =>
                          /\ \/ \E k \in DOMAIN T : T[k].index = i /\ a[i] = Extracted(T[k], f.given[k])
                             \/ params[i].mode = "optional" /\ a[i] = "default"
                          /\ m.ok /\ T = m.argTypes => a[i] = m.args[i]
  BY DEF Own
<1> HIDE DEF params, T, a, m
<1>8. ASSUME NEW i \in DOMAIN params, params[i].mode # "out", i \notin f.lost
      PROVE  /\ \/ \E k \in DOMAIN T : T[k].index = i /\ a[i] = Extracted(T[k], f.given[k])
                \/ params[i].mode = "optional" /\ a[i] = "default"
             /\ m.ok /\ T = m.argTypes => a[i] = m.args[i]
  <2>1. m.ok /\ T = m.argTypes => ConvertedAs(m.args, T, params, f.given, Len(params)) /\ Defaults(m.args, T, params, Len(params))
    BY <1>6 DEF Fitting
  <2>2. CASE \E k \in 1 .. Len(T) : T[k].index = i
    <3>1. PICK k \in 1 .. Len(T) : T[k].index = i
      BY <2>2
    <3>2. a[i] = Extracted(T[k], f.given[k])
      BY <1>5, <1>8, <3>1
    <3>3. m.ok /\ T = m.argTypes => m.args[i] = Extracted(T[k], f.given[k])
      BY <2>1, <3>1 DEF ConvertedAs
    <3> QED BY <1>3, <3>1, <3>2, <3>3
  <2>3. CASE ~\E k \in 1 .. Len(T) : T[k].index = i
    <3>1. params[i].mode = "optional" /\ a[i] = "default"
      BY <1>2, <1>3, <1>8, <2>3 DEF Defaults
    <3>2. m.ok /\ T = m.argTypes => m.args[i] = "default"
      BY <1>2, <1>8, <2>1, <2>3 DEF Defaults
    <3> QED BY <3>1, <3>2
  <2> QED BY <2>2, <2>3
<1> QED BY <1>7, <1>8 DEF a

(* A call goes on at another point. *)
At(f, at, n, type) == [f EXCEPT !.at = at, !.n = n, !.type = type]

(* The call has stored all arguments before n. *)
Filled(f, n) ==
    f.array = cache.args =>
        /\ f.method = cache.method /\ Len(f.given) = Len(cache.argTypes)
        /\ n <= Len(cache.argTypes) + 1
        /\ Stored(f, cache.argTypes, arrays'[cache.args], n - 1)

Ongoing(C, f) ==
    /\ f \in Frames /\ f.cached /\ f.method \in 1 .. Len(members) /\ f.array \in 1 .. MaxDepth
    /\ C = calls => f.method \notin refused
    /\ C # calls => Len(C) = Len(calls) - 1 /\ Inner.cached /\ f.method = Inner.method

LEMMA ConvertIsOwn ==
    ASSUME members \in Families, Len(calls) \in Nat, cache' = cache, cache.method # 0,
           NEW C, Good(cache, arrays', C), Len(C) < MaxDepth,
           NEW f, Ongoing(C, f), NEW n \in Nat \ {0}, Filled(f, n), Convert(C, f, n)
    PROVE  OwnStep
<1> DEFINE T == cache.argTypes
           a == arrays'[cache.args]
<1>1. CacheOK(cache, arrays') /\ T \in Seq(ArgTypes) /\ Len(T) \in Nat /\ \A k \in 1 .. Len(T) : T[k] \in ArgTypes
  <2>1. CacheOK(cache, arrays')
    BY DEF Good
  <2> QED BY <2>1, Entries
<1>2. /\ f \in Frames /\ f.cached /\ f.method \in 1 .. Len(members) /\ f.array \in 1 .. MaxDepth /\ f.given \in Args
      /\ C = calls \/ Len(C) = Len(calls) - 1
  BY DEF Ongoing, Frames
<1>3. Len(C) \in Nat
  BY DEF Good
<1>4. ASSUME NEW g \in Frames, g.cached = f.cached, g.method = f.method, FrameOK(g, Len(C) + 1, cache, arrays'), Goes(C, g),
             g.at = "run" /\ cache.args = g.array => Own(g, cache, arrays'[g.array])
      PROVE  OwnStep
  <2>1. Good(cache', arrays', C) /\ FrameOK(g, Len(C) + 1, cache', arrays')
    BY <1>4
  <2>2. Len(calls) <= Len(C) + 1
    BY <1>2, <1>3
  <2>3. (Len(C) + 1 > Len(calls) => g.method \notin refused) /\ (Len(C) + 1 = Len(calls) => Inner.cached /\ g.method = Inner.method)
    BY <1>2, <1>3, <1>4 DEF Ongoing
  <2> QED BY <1>2, <1>4, <2>1, <2>2, <2>3, GoesIsOwn
<1>5. CASE n <= Len(T)
  <2> DEFINE g == At(f, "fill", n, T[n])
  <2>1. Goes(C, g)
    BY <1>5 DEF Convert, At
  <2>2. g = At(f, "fill", n, T[n]) /\ T[n] \in ArgTypes /\ n \in 1 .. Len(T)
    BY <1>1, <1>5
  <2> HIDE DEF g, T
  <2>3. /\ g \in Frames /\ g.at = "fill" /\ g.n = n /\ g.type = T[n]
        /\ g.given = f.given /\ g.method = f.method /\ g.cached = f.cached /\ g.array = f.array /\ g.lost = f.lost
    <3>1. "fill" \in {"fill", "run"} /\ n \in Nat
      OBVIOUS
    <3> DEFINE t == T[n]
    <3>2. t \in ArgTypes /\ g = At(f, "fill", n, t)
      BY <2>2
    <3> HIDE DEF t
    <3>3. /\ g \in Frames /\ g.at = "fill" /\ g.n = n /\ g.type = t
          /\ g.given = f.given /\ g.method = f.method /\ g.cached = f.cached /\ g.array = f.array /\ g.lost = f.lost
      BY <1>2, <3>1, <3>2 DEF At, Frames
    <3> QED BY <3>3 DEF t
  <2>4. g.array = cache.args => Kept(g, Len(C) + 1, cache, a)
    <3> SUFFICES ASSUME g.array = cache.args PROVE Kept(g, Len(C) + 1, cache, a)
      OBVIOUS
    <3>1. f.method = cache.method /\ Len(f.given) = Len(T) /\ Stored(f, T, a, n - 1)
      BY <2>3 DEF Filled, T
    <3>2. Filling(g, T, a)
      BY <2>2, <2>3, <3>1 DEF Filling, Stored
    <3> QED BY <2>3, <3>1, <3>2 DEF Kept, T
  <2>5. FrameOK(g, Len(C) + 1, cache, arrays')
    BY <1>2, <2>3, <2>4 DEF FrameOK
  <2> QED BY <1>4, <2>1, <2>3, <2>5
<1>6. CASE n > Len(T) /\ Thrown(C, f)
  BY <1>2, <1>6, ThrownIsOwn
<1>7. CASE n > Len(T) /\ ~Thrown(C, f)
  <2> DEFINE g == At(f, "run", 0, NoType)
  <2>1. Goes(C, g)
    BY <1>1, <1>7 DEF Convert, Invoke, At
  <2>2. g = At(f, "run", 0, NoType) /\ NoType \in ArgTypes
    BY <1>2, CallIsFrame
  <2> HIDE DEF g
  <2>3. /\ g \in Frames /\ g.at = "run"
        /\ g.given = f.given /\ g.method = f.method /\ g.cached = f.cached /\ g.array = f.array /\ g.lost = f.lost
    <3>1. "run" \in {"fill", "run"} /\ 0 \in Nat
      OBVIOUS
    <3> QED BY <1>2, <2>2, <3>1 DEF At, Frames
  <2>4. g.array = cache.args => g.method = cache.method /\ Len(g.given) = Len(T) /\ Stored(g, T, a, Len(T))
    <3> SUFFICES ASSUME g.array = cache.args PROVE g.method = cache.method /\ Len(g.given) = Len(T) /\ Stored(g, T, a, Len(T))
      OBVIOUS
    <3>1. f.method = cache.method /\ Len(f.given) = Len(T) /\ n <= Len(T) + 1 /\ Stored(f, T, a, n - 1)
      BY <2>3 DEF Filled
    <3>2. n - 1 = Len(T)
      BY <1>1, <1>7, <3>1
    <3> HIDE DEF T, a
    <3> QED BY <2>3, <3>1, <3>2 DEF Stored
  <2>5. g.array = cache.args => Own(g, cache, arrays'[g.array])
    BY <1>1, <2>3, <2>4, StoredIsOwn
  <2>6. FrameOK(g, Len(C) + 1, cache, arrays')
    BY <1>2, <2>3, <2>4 DEF FrameOK, Kept
  <2> QED BY <1>4, <2>1, <2>3, <2>5, <2>6
<1> QED BY <1>1, <1>5, <1>6, <1>7

(* What the invariant gives every action. *)
LEMMA Facts ==
    ASSUME Inv
    PROVE  /\ members \in Families /\ Good(cache, arrays, calls) /\ CacheOK(cache, arrays) /\ Len(calls) \in Nat
           /\ arrays \in [1 .. MaxDepth -> Seq(Values)]
           /\ calls # << >> =>
                 /\ Good(cache, arrays, Outer) /\ Len(Outer) = Len(calls) - 1 /\ Len(Outer) < MaxDepth
                 /\ Inner \in Frames /\ FrameOK(Inner, Len(calls), cache, arrays)
                 /\ Len(calls) \in Nat \ {0} /\ Len(calls) <= MaxDepth
<1>1. members \in Families /\ Good(cache, arrays, calls)
  BY DEF Inv
<1>2. CacheOK(cache, arrays) /\ arrays \in [1 .. MaxDepth -> Seq(Values)] /\ Len(calls) \in Nat
  BY <1>1 DEF Good
<1>3. calls # << >> =>
         /\ Good(cache, arrays, Outer) /\ Len(Outer) = Len(calls) - 1 /\ Len(Outer) < MaxDepth
         /\ Inner \in Frames /\ FrameOK(Inner, Len(calls), cache, arrays)
         /\ Len(calls) \in Nat \ {0} /\ Len(calls) <= MaxDepth
  BY <1>1, OuterIsGood DEF Outer, Inner
<1> QED BY <1>1, <1>2, <1>3

LEMMA CallIsOwn ==
    ASSUME Inv, NEW given \in Args, CallMethod(given)
    PROVE  OwnStep
<1>1. /\ members \in Families /\ Good(cache, arrays, calls) /\ CacheOK(cache, arrays) /\ Len(calls) \in Nat
  BY Facts
<1>2. /\ Len(calls) < MaxDepth /\ cache' = cache /\ arrays' = arrays
      /\ Good(cache', arrays', calls) /\ Good(cache, arrays', calls)
  BY <1>1 DEF CallMethod, InLua
<1>3. CASE CacheUsable(given)
  <2> DEFINE f == [Call(given) EXCEPT !.cached = TRUE, !.method = cache.method, !.array = cache.args]
  <2>1. Convert(calls, f, 1)
    BY <1>3 DEF CallMethod
  <2>2. cache.method # 0 /\ cache.method \notin refused /\ Len(given) = Len(cache.argTypes)
    BY <1>3 DEF CacheUsable, Allowed
  <2>3. cache.method \in 1 .. Len(members) /\ cache.method \in Nat /\ cache.args \in 1 .. MaxDepth /\ Len(cache.argTypes) \in Nat
    BY <1>1, <2>2, MembersAre, Entries
  <2>4. cache.args \in Nat
    BY <2>3, BoundsAssumption
  <2>5. /\ f \in Frames /\ f.cached /\ f.method = cache.method /\ f.array = cache.args /\ f.given = given
    <3> DEFINE h == Call(given)
               i == cache.method
               a == cache.args
    <3>1. h \in Frames /\ h.given = given /\ i \in Nat /\ a \in Nat
      BY <2>3, <2>4, CallIsFrame
    <3>2. f = [h EXCEPT !.cached = TRUE, !.method = i, !.array = a]
      OBVIOUS
    <3> HIDE DEF f, h, i, a
    <3>3. /\ f \in Frames /\ f.cached /\ f.method = i /\ f.array = a /\ f.given = given
      BY <3>1, <3>2 DEF Frames
    <3> QED BY <3>3 DEF i, a
  <2> HIDE DEF f
  <2>6. Ongoing(calls, f)
    BY <2>2, <2>3, <2>5 DEF Ongoing
  <2>7. Filled(f, 1)
    <3>1. 1 <= Len(cache.argTypes) + 1 /\ 1 .. 1 - 1 = {}
      BY <2>3
    <3> QED BY <2>2, <2>5, <3>1 DEF Filled, Stored
  <2>8. 1 \in Nat \ {0}
    OBVIOUS
  <2> QED BY <1>1, <1>2, <2>1, <2>2, <2>6, <2>7, <2>8, ConvertIsOwn
<1>4. CASE Goes(calls, Call(given))
  <2> DEFINE g == Call(given)
  <2>1. g \in Frames /\ g.at = "search" /\ g.cached = FALSE /\ FrameOK(g, Len(calls) + 1, cache', arrays')
    BY <1>1, CallIsFrame, CallIsOK
  <2>2. Goes(calls, g) /\ Len(calls) <= Len(calls) + 1
    BY <1>1, <1>4
  <2> HIDE DEF g
  <2> QED BY <1>1, <1>2, <2>1, <2>2, GoesIsOwn
<1>5. CASE Fails(calls)
  BY <1>1, <1>2, <1>5, FailsIsOwn
<1> QED BY <1>3, <1>4, <1>5 DEF CallMethod

LEMMA StoreIsOwn ==
    ASSUME Inv, StoreArgument
    PROVE  OwnStep
<1> DEFINE f == Inner
           a == f.array
           i == Position(f)
           v == IF f.n <= Len(f.given) THEN f.given[f.n] ELSE "none"
           isArray == cache.argTypes[f.n].isParamsArray
           x == Extracted([f.type EXCEPT !.isParamsArray = isArray], v)
           C == Overwritten(Outer, a, {i})
           g == [f EXCEPT !.lost = @ \ {i}]
           T == cache.argTypes
<1>1. calls # << >> /\ f.at = "fill" /\ cache' = cache
  BY DEF StoreArgument
<1>2. /\ members \in Families /\ Good(cache, arrays, Outer) /\ CacheOK(cache, arrays)
      /\ Len(calls) \in Nat \ {0} /\ Len(Outer) = Len(calls) - 1 /\ Len(Outer) < MaxDepth
      /\ arrays \in [1 .. MaxDepth -> Seq(Values)]
      /\ f \in Frames /\ FrameOK(f, Len(calls), cache, arrays)
  BY <1>1, Facts
<1>3. /\ f.cached /\ a \in 1 .. MaxDepth /\ cache.method # 0 /\ f.method \in 1 .. Len(members)
      /\ a = cache.args => f.method = cache.method /\ Filling(f, T, arrays[a])
  BY <1>1, <1>2 DEF FrameOK, Kept
<1>4. f.given \in Args /\ f.type \in ArgTypes /\ i \in Nat /\ f.lost \in SUBSET Nat /\ f.n \in Nat
  BY <1>2 DEF Frames, ArgTypes, Position
<1>5. CASE Thrown(Outer, f) /\ UNCHANGED arrays
  BY <1>1, <1>2, <1>4, <1>5, ThrownIsOwn
<1>6. ASSUME f.n <= Len(T), i \in DOMAIN arrays[a], arrays' = [arrays EXCEPT ![a] = [@ EXCEPT ![i] = x]],
             Thrown(C, f) \/ Convert(C, g, f.n + 1)
      PROVE  OwnStep
  <2> DEFINE b == [arrays[a] EXCEPT ![i] = x]
  <2>1. x \in Values
    BY ConvertedIs DEF Values
  <2>2. arrays[a] \in Seq(Values)
    BY <1>2, <1>3
  <2> HIDE DEF x, f
  <2>3. /\ b \in Seq(Values) /\ DOMAIN b = DOMAIN arrays[a] /\ b[i] = x
        /\ \A j \in DOMAIN arrays[a] : j \notin {i} => b[j] = arrays[a][j]
    BY <1>6, <2>1, <2>2
  <2>4. arrays' = [arrays EXCEPT ![a] = b] /\ arrays' = Put(arrays, a, b)
    BY <1>6 DEF Put
  <2> HIDE DEF b
  <2>5. cache.method # 0 /\ cache.args = a => \A j \in {i} : Storable(cache, members[cache.method].params, j)
    BY <1>3 DEF Filling, Storable, Position
  <2>6. {i} \in SUBSET Nat
    BY <1>4
  <2> HIDE DEF a, i
  <2>7. Good(cache, arrays', C) /\ Len(C) = Len(Outer)
    <3> DEFINE X == {i}
    <3>1. Writes(cache, arrays, a, b, X)
      BY <1>3, <2>3, <2>5, <2>6 DEF Writes, a
    <3>2. C = Overwritten(Outer, a, X)
      OBVIOUS
    <3> HIDE DEF X, C
    <3>3. Good(cache, arrays', Overwritten(Outer, a, X)) /\ Len(Overwritten(Outer, a, X)) = Len(Outer)
      <4>1. members \in Families /\ Good(cache, arrays, Outer)
        BY <1>2
      <4>2. arrays' = Put(arrays, a, b)
        BY <2>4
      <4> HIDE DEF isArray, v, g, T
      <4> QED BY <4>1, <4>2, <3>1, WritingIsGood
    <3> QED BY <3>2, <3>3
  <2> HIDE DEF C
  <2>8. Len(C) = Len(calls) - 1 /\ Len(C) < MaxDepth /\ C # calls
    BY <1>2, <2>7
  <2>9. CASE Thrown(C, f)
    BY <1>1, <1>2, <1>4, <2>7, <2>8, <2>9, ThrownIsOwn
  <2>10. CASE Convert(C, g, f.n + 1)
    <3> DEFINE n == f.n + 1
    <3>1. /\ g \in Frames /\ g.cached = f.cached /\ g.method = f.method /\ g.array = f.array /\ g.given = f.given
          /\ g.lost = f.lost \ {i} /\ g.type = f.type
      BY <1>2, <1>4 DEF Frames
    <3> HIDE DEF g
    <3>2. Ongoing(C, g)
      BY <1>3, <2>8, <3>1 DEF Ongoing, f, a
    <3>3. Filled(g, n)
      <4> SUFFICES ASSUME a = cache.args
                   PROVE  /\ f.method = cache.method /\ Len(f.given) = Len(T) /\ n <= Len(T) + 1
                          /\ Stored(g, T, b, n - 1)
        <5>1. arrays'[a] = b
          BY <1>2, <1>3, <2>4
        <5> QED BY <3>1, <5>1 DEF Filled, a
      <4>1. f.method = cache.method /\ f.n \in 1 .. Len(T) /\ f.type = T[f.n] /\ Len(f.given) = Len(T)
            /\ Stored(f, T, arrays[a], f.n - 1)
        BY <1>3 DEF Filling
      <4>2. T \in Seq(ArgTypes) /\ Len(T) \in Nat /\ Distinct(T) /\ \A k \in 1 .. Len(T) : T[k] \in ArgTypes /\ T[k].index \in DOMAIN arrays[a]
        <5>1. Distinct(T)
          BY <1>2, <1>3 DEF CacheOK, Remembered
        <5>2. /\ T \in Seq(ArgTypes)
              /\ \A k \in 1 .. Len(T) : T[k] \in ArgTypes /\ T[k].index \in DOMAIN arrays[cache.args]
          BY <1>2, <1>3, Entries
        <5> HIDE DEF T
        <5> QED BY <5>1, <5>2
      <4>3. n <= Len(T) + 1 /\ n - 1 = f.n /\ \A k \in 1 .. f.n : k \in 1 .. Len(T) /\ (k = f.n \/ k \in 1 .. f.n - 1)
        BY <4>1, <4>2
      <4>4. T[f.n].index = i /\ x = Extracted(T[f.n], f.given[f.n])
        <5>1. T[f.n].index = i
          BY <4>1 DEF i, Position
        <5>2. v = f.given[f.n]
          BY <4>1
        <5>3. [f.type EXCEPT !.isParamsArray = isArray] = T[f.n]
          BY <1>4, <4>1 DEF ArgTypes
        <5> QED BY <5>1, <5>2, <5>3 DEF x
      <4> HIDE DEF T, n
      <4>5. ASSUME NEW k \in 1 .. f.n, T[k].index \notin g.lost PROVE b[T[k].index] = Extracted(T[k], f.given[k])
        <5>1. CASE k = f.n
          BY <2>3, <4>4, <5>1
        <5>2. CASE k # f.n
          <6>1. T[k].index # i /\ k \in 1 .. f.n - 1
            BY <4>1, <4>2, <4>3, <4>4, <5>2 DEF Distinct
          <6>2. T[k].index \notin f.lost
            BY <3>1, <4>5, <6>1
          <6>3. arrays[a][T[k].index] = Extracted(T[k], f.given[k])
            BY <4>1, <6>1, <6>2 DEF Stored
          <6>4. T[k].index \in DOMAIN arrays[a]
            BY <4>2, <4>3
          <6> QED BY <2>3, <6>1, <6>3, <6>4
        <5> QED BY <5>1, <5>2
      <4>6. Stored(g, T, b, f.n)
        BY <3>1, <4>5 DEF Stored
      <4> QED BY <4>1, <4>3, <4>6
    <3>4. n \in Nat \ {0} /\ Convert(C, g, n)
      BY <1>4, <2>10
    <3> HIDE DEF n
    <3> QED BY <1>1, <1>2, <1>3, <2>7, <2>8, <3>2, <3>3, <3>4, ConvertIsOwn
  <2> QED BY <1>6, <2>9, <2>10
<1>7. \/ Thrown(Outer, f) /\ UNCHANGED arrays
      \/ /\ f.n <= Len(T) /\ i \in DOMAIN arrays[a] /\ arrays' = [arrays EXCEPT ![a] = [@ EXCEPT ![i] = x]]
         /\ Thrown(C, f) \/ Convert(C, g, f.n + 1)
  BY Zenon DEF StoreArgument
<1> QED BY <1>5, <1>6, <1>7

-----------------------------------------------------------------------------
(* The search. *)

LEMMA NextIsOwn ==
    ASSUME Inv, calls # << >>, Inner.at = "search", Good(cache', arrays', Outer), NextMember(Inner)
    PROVE  OwnStep
<1>1. /\ members \in Families /\ Len(calls) \in Nat /\ Len(Outer) = Len(calls) - 1 /\ Len(Outer) < MaxDepth
      /\ Inner \in Frames /\ FrameOK(Inner, Len(calls), cache, arrays)
  BY Facts
<1>2. Inner.array = 0 /\ Inner.cached = FALSE /\ Inner.method \in 1 .. Len(members)
  BY <1>1 DEF FrameOK, Frames
<1>3. CASE Fails(Outer)
  BY <1>1, <1>3, FailsIsOwn
<1>4. CASE Inner.method < Len(members) /\ Goes(Outer, [Inner EXCEPT !.method = @ + 1])
  <2> DEFINE i == Inner.method + 1
             g == [Inner EXCEPT !.method = i]
  <2>1. i \in Nat /\ i \in 1 .. Len(members) /\ Goes(Outer, g)
    BY <1>1, <1>2, <1>4, MembersAre
  <2>2. g = [Inner EXCEPT !.method = i]
    OBVIOUS
  <2> HIDE DEF g, i
  <2>3. g \in Frames /\ g.at = "search" /\ g.array = 0 /\ g.cached = FALSE /\ g.method = i
    BY <1>1, <1>2, <2>1, <2>2 DEF Frames
  <2>4. FrameOK(g, Len(Outer) + 1, cache', arrays')
    BY <2>1, <2>3 DEF FrameOK
  <2>5. Len(calls) <= Len(Outer) + 1
    BY <1>1
  <2> QED BY <1>1, <2>1, <2>3, <2>4, <2>5, GoesIsOwn
<1> QED BY <1>3, <1>4 DEF NextMember

LEMMA TryIsOwn ==
    ASSUME Inv, TryMember
    PROVE  OwnStep
<1> DEFINE f == Inner
           i == f.method
           m == Matched(members[i].params, f.given)
<1>1. calls # << >> /\ f.at = "search"
  BY DEF TryMember
<1>2. /\ members \in Families /\ Good(cache, arrays, Outer) /\ arrays \in [1 .. MaxDepth -> Seq(Values)]
      /\ Len(calls) \in Nat \ {0} /\ Len(Outer) = Len(calls) - 1 /\ Len(Outer) < MaxDepth /\ Len(calls) <= MaxDepth
      /\ f \in Frames /\ FrameOK(f, Len(calls), cache, arrays)
  BY <1>1, Facts
<1>3. i \in 1 .. Len(members) /\ f.given \in Args /\ i \in Nat
  BY <1>2 DEF FrameOK, Frames
<1>4. CASE NextMember(f) /\ UNCHANGED <<cache, arrays>>
  BY <1>1, <1>2, <1>4, NextIsOwn
<1>5. ASSUME m.ok, NEW id \in Unused(Outer), cache' = Found(i, m, id), arrays' = [arrays EXCEPT ![id] = m.args],
             IF Allowed(i) THEN Invoke(Outer, [Call(<< >>) EXCEPT !.method = i, !.array = id]) ELSE NextMember(f)
      PROVE  OwnStep
  <2>1. id \in 1 .. MaxDepth /\ id \in Nat /\ \A k \in 1 .. Len(Outer) : Outer[k].array # id
    <3>1. id \in 1 .. Len(Outer) + 1 /\ \A k \in DOMAIN Outer : Outer[k].array # id
      BY <1>5 DEF Unused
    <3>2. Outer \in Seq(Frames)
      BY <1>2 DEF Good
    <3>3. DOMAIN Outer = 1 .. Len(Outer) /\ 1 .. Len(Outer) + 1 \subseteq 1 .. MaxDepth
      BY <1>2, <3>2, BoundsAssumption
    <3> QED BY <3>1, <3>3
  <2>2. arrays'[id] = m.args
    BY <1>2, <1>5, <2>1
  <2>3. /\ Found(i, m, id).method = i /\ Found(i, m, id).args = id
        /\ CacheOK(Found(i, m, id), arrays') /\ m.args \in Seq(Contents)
    <3> HIDE DEF f, i
    <3>1. m = Matched(members[i].params, f.given)
      OBVIOUS
    <3> HIDE DEF m
    <3>2. members \in Families /\ i \in 1 .. Len(members) /\ f.given \in Args /\ id \in 1 .. MaxDepth /\ m.ok
      BY <1>2, <1>3, <1>5, <2>1
    <3> DEFINE A == arrays'
               v == f.given
    <3>3. A[id] = m.args /\ m = Matched(members[i].params, v) /\ v \in Args
      BY <2>2, <3>1, <3>2
    <3> HIDE DEF A, v
    <3>4. /\ Found(i, m, id).method = i /\ Found(i, m, id).args = id
          /\ CacheOK(Found(i, m, id), A) /\ m.args \in Seq(Contents)
      BY <3>2, <3>3, FoundIsRemembered
    <3> QED BY <3>4 DEF A
  <2> DEFINE d == Found(i, m, id)
  <2>4. m.args \in Seq(Values)
    <3>1. \A s \in Seq(Contents) : s \in Seq(Values)
      <4>1. Contents \subseteq Values
        BY DEF Values
      <4> QED BY <4>1
    <3> HIDE DEF m
    <3> QED BY <2>3, <3>1
  <2>5. cache' = d /\ d.method = i /\ d.method # 0 /\ d.args = id /\ CacheOK(d, arrays')
    BY <1>3, <1>5, <2>3
  <2> HIDE DEF d, i, m
  <2>6. Good(cache', arrays', Outer)
    <3> DEFINE b == m.args
    <3>1. arrays' = [arrays EXCEPT ![id] = b] /\ b \in Seq(Values)
      BY <1>5, <2>4
    <3> HIDE DEF b
    <3> QED BY <1>2, <2>1, <2>5, <3>1, NewCacheIsGood
  <2>7. CASE ~Allowed(i)
    BY <1>1, <1>5, <2>6, <2>7, NextIsOwn
  <2>8. CASE Allowed(i)
    <3> DEFINE h == [Call(<< >>) EXCEPT !.method = i, !.array = id]
               g == [h EXCEPT !.at = "run", !.n = 0, !.type = NoType]
               e == Call(<< >>)
    <3>1. << >> \in Args
      <4>1. << >> \in [1 .. 0 -> LuaValues] /\ 0 \in 0 .. MaxArgs
        BY BoundsAssumption
      <4> QED BY <4>1 DEF Args
    <3>2. e \in Frames /\ e.cached = FALSE /\ NoType \in ArgTypes
      BY <3>1, CallIsFrame
    <3>3. h = [e EXCEPT !.method = i, !.array = id] /\ g = [h EXCEPT !.at = "run", !.n = 0, !.type = NoType]
      OBVIOUS
    <3>4. Goes(Outer, g) \/ Thrown(Outer, h)
      BY <1>5, <2>8 DEF Invoke
    <3> HIDE DEF e, h, g
    <3>5. h \in Frames /\ h.cached = FALSE /\ h.method = i /\ h.array = id
      BY <1>3, <2>1, <3>2, <3>3 DEF Frames, i
    <3>6. g \in Frames /\ g.at = "run" /\ g.cached = FALSE /\ g.method = i /\ g.array = id
      BY <3>2, <3>3, <3>5 DEF Frames
    <3>7. CASE Thrown(Outer, h)
      BY <1>2, <2>6, <3>5, <3>7, FailsIsOwn DEF Thrown
    <3>8. CASE Goes(Outer, g)
      <4>1. FrameOK(g, Len(Outer) + 1, cache', arrays')
        BY <1>3, <2>1, <2>5, <3>6 DEF FrameOK, Kept, i
      <4>2. g.method \notin refused
        BY <2>8, <3>6 DEF Allowed
      <4>3. Len(calls) <= Len(Outer) + 1
        BY <1>2
      <4> QED BY <1>2, <2>6, <3>6, <3>8, <4>1, <4>2, <4>3, GoesIsOwn
    <3> QED BY <3>4, <3>7, <3>8
  <2> QED BY <2>7, <2>8
<1>6. \/ NextMember(f) /\ UNCHANGED <<cache, arrays>>
      \/ /\ m.ok
         /\ \E id \in Unused(Outer) :
               /\ cache' = Found(i, m, id) /\ arrays' = [arrays EXCEPT ![id] = m.args]
               /\ IF Allowed(i) THEN Invoke(Outer, [Call(<< >>) EXCEPT !.method = i, !.array = id]) ELSE NextMember(f)
  BY Zenon DEF TryMember
<1> QED BY <1>4, <1>5, <1>6

-----------------------------------------------------------------------------
(* What is left to Lua. *)

LEMMA ReturnIsOwn ==
    ASSUME Inv, MethodReturns
    PROVE  OwnStep
<1> DEFINE f == Inner
           a == f.array
           d == Len(calls)
           X == ToSet(Outs(f.method))
           C == Overwritten(Outer, a, X)
           b == [i \in DOMAIN arrays[a] |-> IF i \in X THEN Made(d, i) ELSE arrays[a][i]]
           r == Result(f.method, d)
           g == [f EXCEPT !.at = "push", !.left = <<r>>, !.lost = {}]
<1>1. calls # << >> /\ f.at = "run" /\ cache' = cache /\ Goes(C, g)
      /\ arrays' = [arrays EXCEPT ![a] = [i \in DOMAIN @ |-> IF i \in X THEN Made(d, i) ELSE @[i]]]
  BY DEF MethodReturns
<1>2. /\ members \in Families /\ Good(cache, arrays, Outer) /\ CacheOK(cache, arrays)
      /\ d \in Nat \ {0} /\ Len(Outer) = d - 1 /\ Len(Outer) < MaxDepth
      /\ arrays \in [1 .. MaxDepth -> Seq(Values)]
      /\ f \in Frames /\ FrameOK(f, d, cache, arrays)
  BY <1>1, Facts
<1>3. /\ a \in 1 .. MaxDepth /\ cache.method # 0 /\ f.method \in 1 .. Len(members)
      /\ a = cache.args => f.method = cache.method
  BY <1>1, <1>2 DEF FrameOK, Kept
<1>4. /\ X \in SUBSET Nat
      /\ \A j \in X : Leaves(members[f.method].params[j])
      /\ \A j \in 1 .. Len(Outs(f.method)) : Outs(f.method)[j] \in X
  <2> DEFINE o == Outs(f.method)
             params == members[f.method].params
  <2>1. Outward(o, params, Len(params))
    BY <1>2, <1>3, OutsOutward
  <2>2. o \in Seq(Nat) /\ \A k \in 1 .. Len(o) : o[k] \in 1 .. Len(params) /\ Leaves(params[o[k]])
    BY <2>1 DEF Outward
  <2>3. X = {o[k] : k \in DOMAIN o}
    BY DEF ToSet
  <2> HIDE DEF o, params, X
  <2>4. DOMAIN o = 1 .. Len(o) /\ \A k \in 1 .. Len(o) : o[k] \in Nat
    BY <2>2
  <2>5. X \in SUBSET Nat /\ (\A j \in X : Leaves(params[j])) /\ \A j \in 1 .. Len(o) : o[j] \in X
    BY <2>2, <2>3, <2>4
  <2> QED BY <2>5 DEF o, params
<1>5. r \in Values
  <2>1. Made(d, 0) \in Values /\ "nil" \in Values
    BY <1>2 DEF Values
  <2> QED BY <2>1 DEF Result
<1>6. \A x : <<x>>[1] = x /\ Len(<<x>>) = 1
  OBVIOUS
<1>7. <<r>> \in Seq(Values)
  <2> HIDE DEF r
  <2> QED BY <1>5
<1> HIDE DEF f, r, X, d
<1>8. /\ g \in Frames /\ g.at = "push" /\ g.left = <<r>> /\ g.lost = {}
      /\ g.method = f.method /\ g.cached = f.cached /\ g.array = a
  <2> DEFINE l == <<r>>
  <2>1. l \in Seq(Values) /\ {} \in SUBSET Nat /\ g = [f EXCEPT !.at = "push", !.left = l, !.lost = {}]
    BY <1>7
  <2> HIDE DEF l, g
  <2>2. /\ g \in Frames /\ g.at = "push" /\ g.left = l /\ g.lost = {}
        /\ g.method = f.method /\ g.cached = f.cached /\ g.array = f.array
    BY <1>2, <2>1 DEF Frames
  <2> QED BY <2>2 DEF l
<1>9. arrays[a] \in Seq(Values)
  BY <1>2, <1>3
<1> HIDE DEF g
<1>10. arrays' = [arrays EXCEPT ![a] = b]
  BY <1>1, <1>2, <1>3
<1>11. /\ DOMAIN b = DOMAIN arrays[a] /\ (\A j \in DOMAIN arrays[a] : j \notin X => b[j] = arrays[a][j])
       /\ \A j \in DOMAIN b : j \in X => b[j] = Made(d, j)
  OBVIOUS
<1>12. b \in Seq(Values)
  <2>1. DOMAIN arrays[a] = 1 .. Len(arrays[a]) /\ Len(arrays[a]) \in Nat
        /\ \A j \in 1 .. Len(arrays[a]) : arrays[a][j] \in Values
    BY <1>9
  <2>2. \A j \in Nat : Made(d, j) \in Values
    BY <1>2 DEF Values
  <2>3. b = [i \in 1 .. Len(arrays[a]) |-> IF i \in X THEN Made(d, i) ELSE arrays[a][i]]
    BY <2>1
  <2>4. \A j \in 1 .. Len(arrays[a]) : (IF j \in X THEN Made(d, j) ELSE arrays[a][j]) \in Values
    BY <2>1, <2>2
  <2> HIDE DEF a, b
  <2> QED BY <2>1, <2>3, <2>4
<1> HIDE DEF a, b
<1>13. Writes(cache, arrays, a, b, X)
  BY <1>3, <1>4, <1>11, <1>12 DEF Writes, Storable
<1>14. arrays' = Put(arrays, a, b)
  BY <1>10 DEF Put
<1>15. Good(cache', arrays', C) /\ Len(C) = Len(Outer)
  <2>1. members \in Families /\ Good(cache, arrays, Outer)
    BY <1>2
  <2>2. Good(cache, arrays', C) /\ Len(C) = Len(Outer)
    BY <1>13, <1>14, <2>1, WritingIsGood
  <2> QED BY <1>1, <2>2
<1> HIDE DEF C
<1>16. a = cache.args => Leaving(g, d, cache.outList, b)
  <2> SUFFICES ASSUME a = cache.args PROVE Leaving(g, d, cache.outList, b)
    OBVIOUS
  <2> DEFINE o == cache.outList
  <2>1. o = Outs(f.method) /\ \A j \in 1 .. Len(o) : o[j] \in DOMAIN arrays[cache.args]
    BY <1>2, <1>3, Entries
  <2>2. \A j \in 1 .. Len(o) : o[j] \in X /\ o[j] \in DOMAIN b
    BY <1>4, <1>11, <2>1
  <2>3. \A j \in 1 .. Len(o) : b[o[j]] = Made(d, o[j])
    BY <1>11, <2>2
  <2>4. Len(g.left) = 1 /\ g.left[1] = Result(g.method, d)
    BY <1>6, <1>8 DEF r
  <2> QED BY <1>8, <2>3, <2>4 DEF Leaving
<1>17. FrameOK(g, Len(C) + 1, cache', arrays')
  <2>1. Len(C) + 1 = d
    BY <1>2, <1>15
  <2>2. a = cache.args => Kept(g, d, cache, arrays'[cache.args])
    <3>1. a = cache.args => arrays'[cache.args] = b
      BY <1>2, <1>3, <1>10
    <3> QED BY <1>3, <1>8, <1>16, <3>1 DEF Kept
  <2> QED BY <1>1, <1>3, <1>8, <2>1, <2>2 DEF FrameOK
<1>18. Len(calls) \in Nat /\ Len(C) < MaxDepth /\ Len(C) + 1 = Len(calls) /\ Len(calls) <= Len(C) + 1
  BY <1>2, <1>15 DEF d
<1>19. /\ g \in Frames /\ g.at # "run" /\ Goes(C, g)
       /\ g.cached => Inner.cached /\ g.method = Inner.method
  BY <1>1, <1>8 DEF f
<1>20. Good(cache', arrays', C)
  BY <1>15
<1> QED BY <1>17, <1>18, <1>19, <1>20, GoesIsOwn

(* The values left to Lua, with the last of them pushed. *)
LEMMA LeftIsOwn ==
    ASSUME Inv, calls # << >>, Inner.at \in {"push", "out"},
           NEW outs, outs = (IF Inner.at = "push" THEN cache.outList ELSE Inner.outs),
           Len(Inner.left) > Len(outs), Ends(Outer, LeftToLua(cache.void, Inner.left)),
           UNCHANGED <<cache, arrays>>
    PROVE  OwnStep
<1> DEFINE f == Inner
           left == Inner.left
           d == Len(calls)
           i == Inner.method
           o == Outs(i)
           void == members[i].void
           first == IF o # << >> /\ void THEN 0 ELSE 1
<1>1. /\ members \in Families /\ Good(cache, arrays, Outer) /\ CacheOK(cache, arrays)
      /\ d \in Nat \ {0} /\ Len(Outer) = d - 1
      /\ f \in Frames /\ FrameOK(f, d, cache, arrays)
  BY Facts
<1>2. calls' = Outer /\ results' = LeftToLua(cache.void, left) /\ Good(cache', arrays', calls')
  BY <1>1 DEF Ends
<1>3. Len(calls') = Len(calls) - 1 /\ Len(calls) \in Nat
  BY <1>1, <1>2
<1>4. OwnArguments /\ AllowedRun
  BY <1>3 DEF OwnArguments, Started, AllowedRun
<1>5. left \in Seq(Values)
  BY <1>1 DEF Frames
<1>6. ASSUME cache.args = f.array
      PROVE  /\ Len(results') = Len(o) + first
             /\ first = 1 => results'[1] = Result(i, d)
             /\ \A k \in DOMAIN o : o[k] \notin f.lost => results'[k + first] = Made(d, o[k])
  <2>1. cache.method # 0 /\ f.method = cache.method /\ Leaving(f, d, cache.outList, arrays[cache.args])
    BY <1>1, <1>6 DEF FrameOK, Kept
  <2>2. cache.outList = o /\ o \in Seq(Nat) /\ cache.void = void /\ void \in BOOLEAN
    <3>1. cache.outList = Outs(cache.method) /\ cache.outList \in Seq(Nat)
          /\ cache.void = members[cache.method].void /\ cache.method \in 1 .. Len(members)
      BY <1>1, <2>1, Entries
    <3> QED BY <1>1, <2>1, <3>1, MembersAre
  <2> HIDE DEF o, void
  <2>3. /\ outs = o /\ Len(left) > Len(o) /\ left[1] = Result(i, d)
        /\ f.at = "push" => Len(left) = 1
        /\ f.at = "out" => /\ Len(left) \in 2 .. Len(o) + 1
                           /\ \A j \in 1 .. Len(left) - 1 : o[j] \notin f.lost => left[j + 1] = Made(d, o[j])
    BY <2>1, <2>2 DEF Leaving
  <2>4. Len(o) \in Nat /\ Len(left) \in Nat /\ DOMAIN o = 1 .. Len(o) /\ (o = << >> <=> Len(o) = 0)
    BY <1>5, <2>2, EmptySeq
  <2>5. Len(left) = Len(o) + 1
    <3> DEFINE n == Len(left)
               l == Len(o)
    <3>1. n > l /\ (n = 1 \/ n \in 2 .. l + 1) /\ n \in Nat /\ l \in Nat
      BY <2>3, <2>4
    <3> HIDE DEF n, l
    <3>2. n = l + 1
      BY <3>1
    <3> QED BY <3>2 DEF n, l
  <2>6. \A j \in 1 .. Len(o) : o[j] \notin f.lost => left[j + 1] = Made(d, o[j])
    BY <2>3, <2>4, <2>5
  <2>7. CASE first = 1
    <3>1. results' = left
      BY <1>2, <2>2, <2>4, <2>5, <2>7 DEF LeftToLua
    <3> QED BY <2>3, <2>4, <2>5, <2>6, <2>7, <3>1
  <2>8. CASE first = 0
    <3>1. o # << >> /\ void
      BY <2>8
    <3>2. results' = Tail(left)
      BY <1>2, <2>2, <2>4, <2>5, <3>1 DEF LeftToLua
    <3>3. Len(Tail(left)) = Len(left) - 1 /\ \A k \in 1 .. Len(left) - 1 : Tail(left)[k] = left[k + 1]
      <4> HIDE DEF left
      <4>1. left # << >>
        BY <2>4, <2>5, EmptySeq
      <4> QED BY <1>5, <4>1, HeadTailProperties
    <3>4. Len(results') = Len(o) + 0 /\ \A k \in DOMAIN o : o[k] \notin f.lost => results'[k + 0] = Made(d, o[k])
      <4> HIDE DEF left
      <4> QED BY <2>4, <2>5, <2>6, <3>2, <3>3
    <3> QED BY <2>8, <3>4
  <2> QED BY <2>7, <2>8
<1>7. OwnResults
  BY <1>6 DEF OwnResults
<1> QED BY <1>2, <1>4, <1>7 DEF OwnStep

LEMMA PushIsOwn ==
    ASSUME Inv, Pushed
    PROVE  OwnStep
<1> DEFINE f == Inner
           d == Len(calls)
           outs == IF f.at = "push" THEN cache.outList ELSE f.outs
           now == arrays[cache.args]
           n == Len(f.left)
           x == now[outs[n]]
           l == Append(f.left, x)
           g == [f EXCEPT !.at = "out", !.outs = outs, !.left = Append(@, x)]
<1>1. calls # << >> /\ f.at \in {"push", "out"} /\ cache' = cache /\ arrays' = arrays
  BY DEF Pushed
<1>2. /\ members \in Families /\ Good(cache, arrays, Outer) /\ CacheOK(cache, arrays)
      /\ d \in Nat \ {0} /\ Len(Outer) = d - 1 /\ Len(Outer) < MaxDepth
      /\ arrays \in [1 .. MaxDepth -> Seq(Values)]
      /\ f \in Frames /\ FrameOK(f, d, cache, arrays)
  BY <1>1, Facts
<1>3. f.array \in 1 .. MaxDepth /\ cache.method # 0 /\ f.method \in 1 .. Len(members)
  BY <1>1, <1>2 DEF FrameOK
<1>4. cache.args \in 1 .. MaxDepth /\ cache.outList \in Seq(Nat)
  BY <1>2, <1>3, Entries
<1>5. outs \in Seq(Nat) /\ now \in Seq(Values) /\ f.left \in Seq(Values)
  BY <1>2, <1>4 DEF Frames
<1>6. CASE n > Len(outs) /\ Ends(Outer, LeftToLua(cache.void, f.left))
  BY <1>1, <1>6, LeftIsOwn
<1>7. CASE Fails(Outer)
  BY <1>1, <1>2, <1>7, FailsIsOwn
<1>8. CASE n <= Len(outs) /\ outs[n] \in DOMAIN now /\ Goes(Outer, g)
  <2>1. x \in Values
    BY <1>5, <1>8
  <2> HIDE DEF x
  <2>2. /\ l \in Seq(Values) /\ n \in Nat /\ Len(l) = n + 1 /\ l[n + 1] = x
        /\ \A j \in 1 .. n : l[j] = f.left[j]
    BY <1>5, <2>1, Appending
  <2>3. g = [f EXCEPT !.at = "out", !.outs = outs, !.left = l]
    BY <1>2 DEF Frames
  <2> HIDE DEF f, l, outs, g
  <2>4. /\ g \in Frames /\ g.at = "out" /\ g.outs = outs /\ g.left = l
        /\ g.method = f.method /\ g.cached = f.cached /\ g.array = f.array /\ g.lost = f.lost
    BY <1>2, <1>5, <2>2, <2>3 DEF Frames
  <2>5. f.array = cache.args => f.method = cache.method /\ Leaving(f, d, cache.outList, now)
    BY <1>1, <1>2 DEF FrameOK, Kept
  <2>6. ASSUME f.array = cache.args PROVE Leaving(g, d, cache.outList, now)
    <3> DEFINE o == cache.outList
    <3>1. /\ \A j \in 1 .. Len(o) : o[j] \notin f.lost => now[o[j]] = Made(d, o[j])
          /\ n >= 1 /\ f.left[1] = Result(f.method, d)
          /\ f.at = "push" => n = 1
          /\ f.at = "out" => /\ f.outs = o
                             /\ \A j \in 1 .. n - 1 : o[j] \notin f.lost => f.left[j + 1] = Made(d, o[j])
      BY <2>5, <2>6 DEF Leaving
    <3>2. outs = o
      BY <1>1, <3>1 DEF outs
    <3> HIDE DEF o, now
    <3>3. Len(o) \in Nat /\ n \in 1 .. Len(o)
      BY <1>5, <1>8, <2>2, <3>1, <3>2
    <3>4. \A j \in 1 .. n - 1 : o[j] \notin f.lost => f.left[j + 1] = Made(d, o[j])
      BY <1>1, <3>1, <3>3
    <3>5. o[n] \notin f.lost => x = Made(d, o[n])
      BY <3>1, <3>2, <3>3 DEF x
    <3>6. \A j \in 1 .. n : o[j] \notin f.lost => l[j + 1] = Made(d, o[j])
      <4>1. \A j \in 1 .. n : j = n \/ (j \in 1 .. n - 1 /\ j + 1 \in 1 .. n)
        BY <2>2
      <4> QED BY <2>2, <3>4, <3>5, <4>1
    <3>7. l[1] = Result(g.method, d) /\ Len(l) - 1 = n /\ Len(l) >= 1 /\ Len(l) \in 2 .. Len(o) + 1
      BY <2>2, <2>4, <3>1, <3>3
    <3>8. /\ \A j \in 1 .. Len(o) : o[j] \notin g.lost => now[o[j]] = Made(d, o[j])
          /\ \A j \in 1 .. Len(l) - 1 : o[j] \notin g.lost => l[j + 1] = Made(d, o[j])
      BY <2>4, <3>1, <3>6, <3>7
    <3>9. Leaving(g, d, o, now)
      BY <2>4, <3>2, <3>7, <3>8 DEF Leaving
    <3> QED BY <3>9 DEF o
  <2>7. FrameOK(g, Len(Outer) + 1, cache', arrays')
    <3>1. Len(Outer) + 1 = d
      BY <1>2
    <3>2. g.array = cache.args => Kept(g, d, cache, now)
      BY <2>4, <2>5, <2>6 DEF Kept
    <3> QED BY <1>1, <1>3, <2>4, <3>1, <3>2 DEF FrameOK
  <2>8. Len(calls) \in Nat /\ Len(Outer) + 1 = Len(calls) /\ Len(calls) <= Len(Outer) + 1 /\ Good(cache', arrays', Outer)
    BY <1>1, <1>2
  <2>9. /\ g \in Frames /\ g.at # "run" /\ Goes(Outer, g) /\ Len(Outer) < MaxDepth
        /\ g.cached => Inner.cached /\ g.method = Inner.method
    BY <1>2, <1>8, <2>4 DEF f
  <2> QED BY <2>7, <2>8, <2>9, GoesIsOwn
<1>9. n \in Nat /\ Len(outs) \in Nat
  BY <1>5
<1>10. \/ n > Len(outs) /\ Ends(Outer, LeftToLua(cache.void, f.left))
       \/ ~(n > Len(outs)) /\ outs[n] \in DOMAIN now /\ Goes(Outer, g)
       \/ Fails(Outer)
  BY Zenon DEF Pushed
<1> QED BY <1>6, <1>7, <1>8, <1>9, <1>10

-----------------------------------------------------------------------------
(* Every step keeps the invariant, and is one of the properties. *)

LEMMA EndIsOwn ==
    ASSUME Inv, Throws \/ Raises
    PROVE  OwnStep
<1>1. calls # << >> /\ cache' = cache /\ arrays' = arrays
  BY DEF Throws, Raises
<1>2. /\ members \in Families /\ Good(cache', arrays', Outer) /\ Len(calls) \in Nat /\ Len(Outer) = Len(calls) - 1
      /\ Len(Outer) < MaxDepth /\ Inner \in Frames
  BY <1>1, Facts
<1>3. CASE Throws
  <2>1. Inner.given \in Args /\ Thrown(Outer, Inner)
    BY <1>2, <1>3 DEF Frames, Throws
  <2> QED BY <1>2, <2>1, ThrownIsOwn
<1>4. CASE Raises
  BY <1>2, <1>4, FailsIsOwn DEF Raises
<1> QED BY <1>3, <1>4

LEMMA InitInv == Init => Inv
<1> SUFFICES ASSUME Init PROVE Inv
  OBVIOUS
<1>1. /\ members \in Families /\ byName \in BOOLEAN /\ refused \in Filters /\ cache = Empty /\ calls = << >>
      /\ arrays = [id \in 1 .. MaxDepth |-> << >>]
  BY BoundsAssumption DEF Init
<1>2. arrays \in [1 .. MaxDepth -> Seq(Values)]
  <2>1. << >> \in Seq(Values)
    OBVIOUS
  <2> QED BY <1>1, <2>1
<1>3. Good(Empty, arrays, << >>)
  <2>1. << >> \in Seq(Frames) /\ Len(<< >>) = 0 /\ 1 .. 0 = {}
    OBVIOUS
  <2>2. CacheOK(Empty, arrays)
    BY DEF Empty, CacheOK
  <2> QED BY <1>2, <2>1, <2>2, BoundsAssumption DEF Good
<1> QED BY <1>1, <1>3 DEF Inv

(* The overloads never change, and filters refuse some of them.            *)
LEMMA StepIsOwn ==
    ASSUME Inv, [Next]_vars
    PROVE  Inv' /\ [OwnArguments]_vars /\ [OwnResults]_vars /\ [AllowedRun]_vars
<1>1. ASSUME OwnStep, UNCHANGED <<members, byName, refused>>
      PROVE  Inv' /\ [OwnArguments]_vars /\ [OwnResults]_vars /\ [AllowedRun]_vars
  <2>1. Good(cache', arrays', calls') /\ members' = members /\ OwnArguments /\ OwnResults /\ AllowedRun
    BY <1>1 DEF OwnStep
  <2>2. Good(cache, arrays, calls)'
    <3>1. \A i : Outs(i)' = Outs(i)
      BY <2>1 DEF Outs
    <3>2. \A i, d : Result(i, d)' = Result(i, d)
      BY <2>1 DEF Result
    <3> QED BY <2>1, <3>1, <3>2 DEF Good, CacheOK, FrameOK, Kept, Leaving
  <2> QED BY <1>1, <2>1, <2>2 DEF Inv
<1>2. ASSUME NEW given \in Args, CallMethod(given)
      PROVE  Inv' /\ [OwnArguments]_vars /\ [OwnResults]_vars /\ [AllowedRun]_vars
  BY <1>1, <1>2, CallIsOwn DEF CallMethod
<1>3. CASE StoreArgument
  BY <1>1, <1>3, StoreIsOwn DEF StoreArgument
<1>4. CASE TryMember
  BY <1>1, <1>4, TryIsOwn DEF TryMember
<1>5. CASE MethodReturns
  BY <1>1, <1>5, ReturnIsOwn DEF MethodReturns
<1>6. CASE Pushed
  BY <1>1, <1>6, PushIsOwn DEF Pushed
<1>7. CASE Throws \/ Raises
  BY <1>1, <1>7, EndIsOwn DEF Throws, Raises
<1>8. UNCHANGED <<members, cache, arrays, calls>> => OwnArguments /\ OwnResults /\ AllowedRun
  <2>1. Len(calls) \in Nat
    BY Facts
  <2> QED BY <2>1 DEF OwnArguments, OwnResults, AllowedRun, Started
<1>9. UNCHANGED <<members, cache, arrays, calls>> => Good(cache, arrays, calls)'
  <2> SUFFICES ASSUME UNCHANGED <<members, cache, arrays, calls>> PROVE Good(cache, arrays, calls)'
    OBVIOUS
  <2>1. Good(cache, arrays, calls)
    BY DEF Inv
  <2>2. \A i : Outs(i)' = Outs(i)
    BY DEF Outs
  <2>3. \A i, d : Result(i, d)' = Result(i, d)
    BY DEF Result
  <2> QED BY <2>1, <2>2, <2>3 DEF Good, CacheOK, FrameOK, Kept, Leaving
<1>10. ASSUME NEW R \in Filters, Filter(R)
       PROVE  Inv' /\ [OwnArguments]_vars /\ [OwnResults]_vars /\ [AllowedRun]_vars
  BY <1>8, <1>9, <1>10 DEF Filter, Inv
<1>11. CASE UNCHANGED vars
  BY <1>8, <1>9, <1>11 DEF vars, Inv
<1> QED BY <1>2, <1>3, <1>4, <1>5, <1>6, <1>7, <1>10, <1>11 DEF Next

LEMMA InvTypeOK == Inv => TypeOK
<1> SUFFICES ASSUME Inv PROVE TypeOK
  OBVIOUS
<1>1. /\ members \in Families /\ DOMAIN members = 1 .. Len(members) /\ Len(members) \in Nat
  BY MembersAre DEF Inv
<1>2. /\ DOMAIN arrays = 1 .. MaxDepth /\ CacheOK(cache, arrays) /\ Len(calls) <= MaxDepth
      /\ DOMAIN calls = 1 .. Len(calls) /\ \A k \in 1 .. Len(calls) : FrameOK(calls[k], k, cache, arrays)
  BY DEF Inv, Good
<1>3. cache.method \in 0 .. Len(members) /\ (cache.method # 0 => cache.args \in DOMAIN arrays)
  BY <1>1, <1>2 DEF CacheOK
<1>4. \A k \in DOMAIN calls :
         calls[k].method \in DOMAIN members /\ (calls[k].at # "search" => calls[k].array \in DOMAIN arrays)
  BY <1>1, <1>2 DEF FrameOK
<1> QED BY <1>1, <1>2, <1>3, <1>4 DEF TypeOK, Inv

LEMMA InvAlways == Spec => []Inv
<1>1. Inv /\ [Next]_vars => Inv'
  BY StepIsOwn
<1> QED BY InitInv, <1>1, PTL DEF Spec

(* LuaMethodWrapper.call: the array is kept from call to call, and every   *)
(* entry that matchParameters takes from Lua is written again, one at a    *)
(* time; what it leaves to a default stays one, since Invoke writes only   *)
(* ref and out.  A call that Lua makes in between takes what it writes.    *)
THEOREM ArgumentsAreOfTheCall == Spec => ArgumentsOfTheCall
<1>1. Inv /\ [Next]_vars => [OwnArguments]_vars
  BY StepIsOwn
<1>2. Inv' => TypeOK'
  BY InvTypeOK, PTL
<1>3. Inv /\ Inv' /\ [Next]_vars => [OwnArguments /\ TypeOK']_vars
  BY <1>1, <1>2
<1> QED BY InvAlways, <1>3, PTL DEF Spec, ArgumentsOfTheCall

(* While the array in the cache is the one that Invoke was given, outList  *)
(* and IsReturnVoid are those of the method that returns, and an out value *)
(* that is pushed is the one it wrote but for calls of the same array      *)
(* since.                                                                  *)
THEOREM ResultsAreOfTheCall == Spec => ResultsOfTheCall
<1>1. Inv /\ [Next]_vars => [OwnResults]_vars
  BY StepIsOwn
<1> QED BY InvAlways, <1>1, PTL DEF Spec, ResultsOfTheCall

(* memberIsAllowed is asked before the cache is used and, for an overload  *)
(* that a search finds, before it is called.                               *)
THEOREM OnlyAllowedRun == Spec => RunsAllowed
<1>1. Inv /\ [Next]_vars => [AllowedRun]_vars
  BY StepIsOwn
<1> QED BY InvAlways, <1>1, PTL DEF Spec, RunsAllowed
=============================================================================
