---------------------------- MODULE LuaTableLib ----------------------------
(***************************************************************************)
(* The functions of the table library (ltablib.c) that move elements.      *)
(* table.sort is a quicksort that calls the order function, Lua code, once *)
(* in each step: what it holds on the Lua stack and in the table between   *)
(* two of these calls is the state.  insert, remove and concat call        *)
(* nothing and are one step.                                               *)
(*                                                                         *)
(* The table holds numbers at 0..Places, nil where it holds none.  The     *)
(* length of a table with holes is any of its borders (LuaTable), so the   *)
(* functions are called on tables without.  The order function compares    *)
(* the numbers, or answers anything; it may raise an error, and does when  *)
(* it compares nil.                                                        *)
(***************************************************************************)
EXTENDS Integers, FiniteSetsExt, SequencesExt, LuaBuffer

CONSTANTS
    Places,         \* bound: the last index the table uses
    Arrays,         \* initial tables, each with its order function, "less" or "any", and a bound on the calls of
                    \* insert, remove and concat
    Inserted        \* values to insert

NoValue == 0        \* nil; the numbers are positive

VARIABLES
    t,          \* the table
    order,      \* the order function
    pc,         \* the comparison auxsort makes next, or what the library is doing
    l, u,       \* the range it sorts
    i, j,       \* its indices
    stack,      \* its values on the Lua stack
    frames,     \* the ranges of the calls of auxsort below
    edits,      \* calls of insert, remove and concat left
    list,       \* the elements, as a sequence, that calls so far should have left
    text        \* what concat returned last

tableVars == <<t, order, pc, l, u, i, j, stack, frames, edits, list, text>>
sortVars == <<l, u, i, j, stack, frames>>

Indices == 0..Places

TableOf(s) == [k \in Indices |-> IF k \in DOMAIN s THEN s[k] ELSE NoValue]
Elements == {k \in Indices : t[k] # NoValue}
\* lua_objlen
getn == Max({k \in Indices : \A m \in 1..k : t[m] # NoValue})
Intact == Elements = 1..getn

TableInit ==
    /\ \E a \in Arrays : t = TableOf(a.s) /\ list = a.s /\ order = a.order /\ edits = a.edits
    /\ pc = "idle" /\ l = 0 /\ u = 0 /\ i = 0 /\ j = 0
    /\ stack = <<>> /\ frames = <<>> /\ text = <<>>

-----------------------------------------------------------------------------
(* insert, remove, concat. *)

Moved(a, first, last, by) ==
    [k \in Indices |-> IF k \in first..last THEN a[k + by] ELSE a[k]]

tinsert == \E pos \in Indices, v \in Inserted :
    /\ pc = "idle" /\ Intact /\ edits > 0 /\ getn + 1 < Places
    /\ t' = [Moved(t, pos + 1, getn + 1, -1) EXCEPT ![pos] = v]
    /\ list' = IF pos \in 1..getn + 1 THEN InsertAt(list, pos, v) ELSE Append(list, v)
    /\ edits' = edits - 1 /\ text' = <<>>
    /\ UNCHANGED <<order, pc, sortVars>>

tremove == \E pos \in Indices :
    /\ pc = "idle" /\ Intact /\ edits > 0
    /\ IF pos \in 1..getn
       THEN /\ t' = [Moved(t, pos, getn - 1, 1) EXCEPT ![getn] = NoValue]
            /\ list' = RemoveAt(list, pos)
       ELSE UNCHANGED <<t, list>>
    /\ edits' = edits - 1 /\ text' = <<>>
    /\ UNCHANGED <<order, pc, sortVars>>

addfield(b, k) == luaL_addvalue([b EXCEPT !.stack = Append(@, <<t[k]>>)])

\* t[first] .. t[last] with a separator between them; nil is no string.
tconcat == \E first, last \in Indices, sep \in {<<>>, <<0>>} :
    /\ pc = "idle" /\ Intact /\ edits > 0
    /\ LET b[k \in first - 1..last] ==
               IF k = first - 1 THEN luaL_buffinit(<<>>)
               ELSE luaL_addlstring(addfield(b[k - 1], k), IF k < last THEN sep ELSE <<>>)
           all == IF first > last THEN luaL_buffinit(<<>>) ELSE b[last]
           error == \E k \in first..last : t[k] = NoValue
       IN  text' = <<[first |-> first, last |-> last, sep |-> sep, error |-> error,
                     result |-> IF error THEN <<>> ELSE Last(luaL_pushresult(all).stack)]>>
    /\ edits' = edits - 1
    /\ UNCHANGED <<t, order, pc, sortVars, list>>

-----------------------------------------------------------------------------
(* sort.  The pair of values to compare is on the stack when the order function is called. *)

Where(low, high, x, y) == l' = low /\ u' = high /\ i' = x /\ j' = y

\* Whether the answer of the order function to a < b may be yes; comparing nil with < raises an error.
MayAnswer(yes, a, b) ==
    \/ order = "any"
    \/ a # NoValue /\ b # NoValue /\ yes = (a < b)

\* The two values on the top go to t[x], the top one, and t[y].
set2(x, y) == [t EXCEPT ![x] = Last(stack), ![y] = stack[Len(stack) - 1]]

\* A loop of auxsort on the range from low to high of the table a begins; fr are the ranges of the calls below.
\* A range of less than two elements ends the call, and then the calls below whose larger part is as short.
Begin(a, low, high, fr) ==
    LET open == {k \in DOMAIN fr : fr[k][1] < fr[k][2]}
        below == IF open = {} THEN <<>> ELSE fr[Max(open)]
    IN  IF low < high
        THEN /\ pc' = "u < l" /\ stack' = <<a[low], a[high]>> /\ Where(low, high, i, j) /\ frames' = fr
        ELSE IF open = {}
        THEN pc' = "sorted" /\ stack' = <<>> /\ Where(low, high, i, j) /\ frames' = <<>>
        ELSE /\ pc' = "u < l" /\ stack' = <<a[below[1]], a[below[2]]>> /\ Where(below[1], below[2], i, j)
             /\ frames' = SubSeq(fr, 1, Max(open) - 1)

\* A break leaves the loop of the call, which returns.
Leave(a) == Begin(a, 1, 1, frames)

sort ==
    /\ pc = "idle" /\ Intact
    /\ Begin(t, 1, getn, <<>>)
    /\ text' = <<>>
    /\ UNCHANGED <<t, order, edits, list>>

\* t[u] < t[l]?
UpperLower(yes) ==
    /\ pc = "u < l" /\ MayAnswer(yes, stack[2], stack[1])
    /\ t' = IF yes THEN set2(l, u) ELSE t
    /\ LET middle == (l + u) \div 2
       IN  IF u - l = 1 THEN Leave(t')
           ELSE pc' = "i < l" /\ Where(l, u, middle, j) /\ stack' = <<t'[middle], t'[l]>> /\ UNCHANGED frames

\* After the median of three: a range of three is sorted, a longer one is partitioned around t[i], put at u - 1.
Partition(a) ==
    IF u - l = 2 THEN t' = a /\ Leave(a)
    ELSE /\ t' = [a EXCEPT ![i] = a[u - 1], ![u - 1] = a[i]]
         /\ Where(l, u, l + 1, u - 1)
         /\ stack' = <<a[i], t'[l + 1]>>
         /\ pc' = "i < P" /\ UNCHANGED frames

\* t[i] < t[l]?
MiddleLower(yes) ==
    /\ pc = "i < l" /\ MayAnswer(yes, stack[1], stack[2])
    /\ IF yes THEN Partition(set2(i, l))
       ELSE pc' = "u < i" /\ stack' = <<stack[1], t[u]>> /\ Where(l, u, i, j) /\ UNCHANGED <<t, frames>>

\* The median is taken of t[l] and t[i] only.
MedianOfTwo(yes) ==
    /\ pc = "u < i" /\ MayAnswer(yes, stack[2], stack[1])
    /\ Partition(t)

\* t[u] < t[i]?
UpperMiddle(yes) ==
    /\ pc = "u < i" /\ MayAnswer(yes, stack[2], stack[1])
    /\ Partition(IF yes THEN set2(i, u) ELSE t)

Invalid ==
    pc' = "invalid order function for sorting" /\ stack' = <<>> /\ frames' = <<>> /\ UNCHANGED <<t, l, u, i, j>>

\* t[i] < P?  The next i, or the scan for j begins.
ScanUp(yes) ==
    /\ pc = "i < P" /\ MayAnswer(yes, stack[2], stack[1])
    /\ IF yes /\ i > u THEN Invalid
       ELSE /\ UNCHANGED <<t, frames>>
            /\ IF yes
               THEN Where(l, u, i + 1, j) /\ stack' = <<stack[1], t[i + 1]>> /\ UNCHANGED pc
               ELSE Where(l, u, i, j - 1) /\ stack' = Append(stack, t[j - 1]) /\ pc' = "P < j"

\* The pivot goes to i, and auxsort is called for the smaller part and continues with the larger.
Split ==
    LET a == [t EXCEPT ![u - 1] = t[i], ![i] = t[u - 1]]
    IN  /\ t' = a
        /\ IF i - l < u - i
           THEN Begin(a, l, i - 1, Append(frames, <<i + 1, u>>))
           ELSE Begin(a, i + 1, u, Append(frames, <<l, i - 1>>))

\* P < t[j]?  The next j, an exchange, or the end of the partition.
ScanDown(yes) ==
    /\ pc = "P < j" /\ MayAnswer(yes, stack[1], stack[3])
    /\ IF yes /\ j < l THEN Invalid
       ELSE IF yes
       THEN Where(l, u, i, j - 1) /\ stack' = <<stack[1], stack[2], t[j - 1]>> /\ UNCHANGED <<t, pc, frames>>
       ELSE IF j < i THEN Split
       ELSE /\ t' = set2(i, j)
            /\ Where(l, u, i + 1, j) /\ stack' = <<stack[1], t'[i + 1]>> /\ pc' = "i < P" /\ UNCHANGED frames

Comparing == pc \in {"u < l", "i < l", "u < i", "i < P", "P < j"}

\* The order function raises an error, as < does on nil.
OrderFails ==
    /\ Comparing /\ (order = "any" \/ NoValue \in Range(stack))
    /\ pc' = "error" /\ stack' = <<>> /\ frames' = <<>> /\ UNCHANGED <<t, l, u, i, j>>

Compare ==
    /\ UNCHANGED <<order, edits, list, text>>
    /\ \/ \E yes \in BOOLEAN :
            \/ UpperLower(yes) \/ MiddleLower(yes) \/ UpperMiddle(yes)
            \/ ScanUp(yes) \/ ScanDown(yes)
       \/ OrderFails

TableNext == tinsert \/ tremove \/ (tconcat /\ UNCHANGED bufferVars) \/ sort \/ Compare
=============================================================================
