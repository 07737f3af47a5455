---------------------------- MODULE MethodCalls ----------------------------
(***************************************************************************)
(* The calls Lua makes to the methods of CLR objects (MethodWrapper.cs): a *)
(* wrapper looks for the overload whose parameters accept the arguments    *)
(* (ObjectTranslator.matchParameters, CheckType.cs) and remembers it, with *)
(* its array of arguments, for the next call.  One wrapper serves all      *)
(* calls of a method name, those included that Lua makes while an earlier  *)
(* one runs: the method may call Lua, a translator may when it pushes a    *)
(* value, and whatever allocates in Lua, also the conversion of an         *)
(* argument, may run the __gc of any object.  So a call takes a step from  *)
(* one such point to the next, and others may come in between.  Access     *)
(* filters may be added in the meantime.                                   *)
(*                                                                         *)
(* Lua values and CLR values are stood for by strings.  The receiver of an *)
(* instance method is left out: a call with the wrong one is refused by    *)
(* Invoke.  So are generic methods, and filters that call Lua.             *)
(***************************************************************************)
EXTENDS Naturals, Sequences, FiniteSets, SequencesExt

CONSTANTS
    Families,   \* lists of overloads, in the order of reflection
    LuaValues,  \* what Lua passes
    Made(_, _), \* what the call at a depth returns, 0, or writes to a parameter
    MaxArgs,    \* bound: arguments of a call
    MaxDepth,   \* bound: calls of the wrapper inside one another
    Filters     \* bound: which overloads the filters may refuse at a time

ASSUME BoundsAssumption == MaxArgs \in Nat /\ MaxDepth \in Nat \ {0} /\ {} \in Filters
ASSUME FamiliesAssumption == \A F \in Families : F \in Seq([params : Seq([type : STRING, mode : STRING]), void : BOOLEAN]) \ {<< >>}
ASSUME ValuesAssumption == LuaValues \subseteq {"nil", "one", "big", "digits", "text", "list", "ref"}

VARIABLES
    members,    \* _Members
    byName,     \* made for a name of a type, or for a MethodBase
    refused,    \* the overloads that memberIsAllowed refuses
    cache,      \* _LastCalledMethod; args names its array
    arrays,     \* the arrays of arguments, those of the cache and of the calls
    calls,      \* the calls that run, the innermost last
    results     \* what the call that has just ended left to Lua

vars == <<members, byName, refused, cache, arrays, calls, results>>

Args == UNION {[1 .. n -> LuaValues] : n \in 0 .. MaxArgs}
Failed == <<"error">>

-----------------------------------------------------------------------------
(* CheckType: the values each type accepts, and what its caster makes of   *)
(* any value, "null" if it can make nothing.  Numbers outside the range of *)
(* the type are cast all the same.                                         *)
Accepts(type, v) ==
    CASE type = "byte"   -> v \in {"one", "digits"}
      [] type = "string" -> v \in {"nil", "text", "digits"}
      [] type = "table"  -> v \in {"nil", "list"}
      [] type = "bytes"  -> v = "nil"
      [] type = "object" -> TRUE

Converted(type, v) ==
    CASE type = "byte"   /\ v \in {"one", "digits"}  -> "byte"
      [] type = "byte"   /\ v = "big"                -> "wrapped"
      [] type = "string" /\ v \in {"text", "digits"} -> v
      [] type = "string" /\ v \in {"one", "big"}     -> "number as text"
      [] type \in {"table", "object"} /\ v = "list"  -> "table"
      [] type \in {"bytes", "object"} /\ v = "ref"   -> "ref"
      [] type = "object" /\ v \in {"one", "big", "text", "digits"} -> v
      [] OTHER -> "null"

(* TableToArray: the elements of a table, or an array of the one value,    *)
(* zero for none.                                                          *)
TableToArray(x) ==
    IF x = "table" THEN "array" ELSE IF x = "null" THEN "array of zero" ELSE "array of one"

(* _IsParamsArray, and the type whose caster it gives. *)
ParamsArray(p, v) == p.mode = "params" /\ (v = "list" \/ Accepts("byte", v))
ElementCaster(v) == IF v = "list" THEN "table" ELSE "byte"

(* What the conversion remembered in an argTypes entry makes of v. *)
Extracted(t, v) ==
    IF t.isParamsArray THEN TableToArray(Converted(t.extract, v)) ELSE Converted(t.extract, v)

(* matchParameters: what one more parameter makes of the arguments, the    *)
(* conversions and the out values that those before it left in s.          *)
Added(s, x) == [s EXCEPT !.args = Append(@, x)]

ArgType(s, isArray, caster) == [index |-> Len(s.args) + 1, isParamsArray |-> isArray, extract |-> caster]

Takes(s, p, t, v) ==
    [Added(s, Extracted(t, v)) EXCEPT
        !.cur = @ + 1,
        !.argTypes = Append(@, t),
        !.outList = IF p.mode = "ref" THEN Append(@, t.index) ELSE @]

Parameter(s, p, given) ==
    IF ~s.ok THEN s
    ELSE IF p.mode = "out" THEN [Added(s, "null") EXCEPT !.outList = Append(@, Len(s.args) + 1)]
    ELSE IF s.cur <= Len(given) /\ Accepts(p.type, given[s.cur])
    THEN Takes(s, p, ArgType(s, FALSE, p.type), given[s.cur])
    ELSE IF s.cur <= Len(given) /\ ParamsArray(p, given[s.cur])
    THEN Takes(s, p, ArgType(s, TRUE, ElementCaster(given[s.cur])), given[s.cur])
    ELSE IF p.mode = "optional" THEN Added(s, "default")
    ELSE [s EXCEPT !.ok = FALSE]

Unmatched == [ok |-> TRUE, cur |-> 1, args |-> << >>, argTypes |-> << >>, outList |-> << >>]

(* matchParameters: parameter by parameter, the arguments in turn. *)
Matched(params, given) ==
    LET after[n \in 0 .. Len(params)] ==
            IF n = 0 THEN Unmatched ELSE Parameter(after[n - 1], params[n], given)
        end == after[Len(params)]
    IN  [end EXCEPT !.ok = @ /\ end.cur = Len(given) + 1]

-----------------------------------------------------------------------------
Empty == [method |-> 0, args |-> 0, argTypes |-> << >>, outList |-> << >>, void |-> FALSE]
NoType == [index |-> 0, isParamsArray |-> FALSE, extract |-> "null"]

Init ==
    /\ members \in Families
    /\ byName \in {TRUE} \cup {Len(members) # 1}
    /\ refused = {}
    /\ cache = Empty /\ arrays = [id \in 1 .. MaxDepth |-> << >>]
    /\ calls = << >> /\ results = << >>

Allowed(i) == i \notin refused

(* A call, about to try the first of the members.  It is at the search for *)
(* an overload, the conversion of an argument, the method, or the push of  *)
(* its result or of an out value.  A history, lost, has the entries of its *)
(* array that other calls have overwritten.                                *)
Call(given) ==
    [at |-> "search", given |-> given, method |-> 1, cached |-> FALSE, array |-> 0,
     n |-> 0, type |-> NoType, outs |-> << >>, left |-> << >>, lost |-> {}]

(* Above the calls C one goes on as f, or ends, or fails. *)
Goes(C, f) == calls' = Append(C, f) /\ results' = << >>
Ends(C, values) == calls' = C /\ results' = values
Fails(C) == Ends(C, Failed)

(* An exception in the way that uses the cache: the overloads are searched *)
(* if there are several.                                                   *)
Thrown(C, f) ==
    IF f.cached /\ Len(members) > 1 THEN Goes(C, Call(f.given)) ELSE Fails(C)

(* Invoke, which may refuse the arguments. *)
Invoke(C, f) == Goes(C, [f EXCEPT !.at = "run", !.n = 0, !.type = NoType]) \/ Thrown(C, f)

(* Others see their entry X of the array overwritten. *)
Overwritten(C, a, X) ==
    [k \in DOMAIN C |-> IF C[k].array = a THEN [C[k] EXCEPT !.lost = @ \cup X] ELSE C[k]]

-----------------------------------------------------------------------------
(* The way that uses the cache. *)

(* Mutant: the filters are asked when an overload is chosen only. *)
CacheUsableUnasked(given) ==
    byName /\ cache.method # 0 /\ Len(given) = Len(cache.argTypes)

CacheUsable(given) ==
    byName /\ cache.method # 0 /\ Allowed(cache.method) /\ Len(given) = Len(cache.argTypes)

(* The loop over the arguments, at the head of which it reads how many and *)
(* of what type from whatever is in the cache then.                        *)
Convert(C, f, n) ==
    IF n <= Len(cache.argTypes)
    THEN Goes(C, [f EXCEPT !.at = "fill", !.n = n, !.type = cache.argTypes[n]])
    ELSE Invoke(C, f)

InLua == Len(calls) < MaxDepth

CallMethod(given) ==
    /\ InLua
    /\ IF CacheUsable(given)
       THEN Convert(calls, [Call(given) EXCEPT !.cached = TRUE, !.method = cache.method, !.array = cache.args], 1)
       ELSE IF byName \/ Allowed(1) THEN Goes(calls, Call(given)) ELSE Fails(calls)
    /\ UNCHANGED <<members, byName, refused, cache, arrays>>

(* The innermost call, and those it is nested in. *)
Inner == calls[Len(calls)]
Outer == Front(calls)

(* Mutant: the arguments are taken for the first parameters. *)
PositionInOrder(f) == f.n

(* The entry of the array that the argument is for. *)
Position(f) == f.type.index

(* Argument n is converted and stored in the array the call found in the   *)
(* cache.  While it was converted other calls may have changed the cache,  *)
(* of which isParamsArray is read once more.                               *)
StoreArgument ==
    /\ calls # << >> /\ Inner.at = "fill"
    /\ LET f == Inner
           a == f.array
           i == Position(f)
           v == IF f.n <= Len(f.given) THEN f.given[f.n] ELSE "none"
           isArray == cache.argTypes[f.n].isParamsArray
           x == Extracted([f.type EXCEPT !.isParamsArray = isArray], v)
       IN  IF /\ f.n <= Len(cache.argTypes) /\ i \in DOMAIN arrays[a]
              /\ isArray => f.type.isParamsArray      \* else there is no type for the elements
           THEN /\ arrays' = [arrays EXCEPT ![a] = [@ EXCEPT ![i] = x]]
                /\ IF x = "null" /\ v # "nil"
                   THEN Thrown(Overwritten(Outer, a, {i}), f)
                   ELSE Convert(Overwritten(Outer, a, {i}), [f EXCEPT !.lost = @ \ {i}], f.n + 1)
           ELSE Thrown(Outer, f) /\ UNCHANGED arrays
    /\ UNCHANGED <<members, byName, refused, cache>>

-----------------------------------------------------------------------------
(* The search: matchParameters for one member after the other. *)

(* The cache once matchParameters has accepted the arguments for overload i. *)
Found(i, m, id) ==
    [method |-> i, args |-> id, argTypes |-> m.argTypes, outList |-> m.outList, void |-> members[i].void]

(* A new array is none of those that calls still use. *)
Unused(C) == {id \in 1 .. Len(C) + 1 : \A k \in DOMAIN C : C[k].array # id}

NextMember(f) ==
    IF f.method < Len(members) THEN Goes(Outer, [f EXCEPT !.method = @ + 1]) ELSE Fails(Outer)

(* What matches is kept in the cache, also when it is not allowed. *)
TryMember ==
    /\ calls # << >> /\ Inner.at = "search"
    /\ LET f == Inner
           i == f.method
           m == Matched(members[i].params, f.given)
       IN  IF m.ok
           THEN \E id \in Unused(Outer) :
                   /\ \A x \in Unused(Outer) : id <= x
                   /\ cache' = Found(i, m, id) /\ arrays' = [arrays EXCEPT ![id] = m.args]
                   /\ IF Allowed(i)
                      THEN Invoke(Outer, [Call(<< >>) EXCEPT !.method = i, !.array = id])
                      ELSE NextMember(f)
           ELSE NextMember(f) /\ UNCHANGED <<cache, arrays>>
    /\ UNCHANGED <<members, byName, refused>>

-----------------------------------------------------------------------------
(* The method runs, and its values are left to Lua. *)

Outs(i) ==
    LET params == members[i].params
        outs[n \in 0 .. Len(params)] ==
            IF n = 0 THEN << >>
            ELSE IF params[n].mode \in {"ref", "out"} THEN Append(outs[n - 1], n) ELSE outs[n - 1]
    IN  outs[Len(params)]
Result(i, d) == IF members[i].void THEN "nil" ELSE Made(d, 0)

(* Invoke writes the ref and out parameters back into its array. *)
MethodReturns ==
    /\ calls # << >> /\ Inner.at = "run"
    /\ LET f == Inner
           a == f.array
           d == Len(calls)
           X == ToSet(Outs(f.method))
       IN  /\ arrays' = [arrays EXCEPT ![a] = [i \in DOMAIN @ |-> IF i \in X THEN Made(d, i) ELSE @[i]]]
           /\ Goes(Overwritten(Outer, a, X),
                   [f EXCEPT !.at = "push", !.left = <<Result(f.method, d)>>, !.lost = {}])
    /\ UNCHANGED <<members, byName, refused, cache>>

(* Mutant: the result is not counted. *)
LeftUncounted(void, left) == IF Len(left) > 1 THEN Tail(left) ELSE left

(* What is left to Lua of a result and out values: the result of a void    *)
(* method, nil, only if there is nothing else.                             *)
LeftToLua(void, left) == IF Len(left) > 1 /\ void THEN Tail(left) ELSE left

(* A value is pushed.  Of the cache as it is then the next one is read,    *)
(* and at the end whether the result counts.                               *)
Pushed ==
    /\ calls # << >> /\ Inner.at \in {"push", "out"}
    /\ LET f == Inner
           outs == IF f.at = "push" THEN cache.outList ELSE f.outs
           now == arrays[cache.args]
       IN  IF Len(f.left) > Len(outs) THEN Ends(Outer, LeftToLua(cache.void, f.left))
           ELSE IF outs[Len(f.left)] \in DOMAIN now
           THEN Goes(Outer, [f EXCEPT !.at = "out", !.outs = outs, !.left = Append(@, now[outs[Len(f.left)]])])
           ELSE Fails(Outer)
    /\ UNCHANGED <<members, byName, refused, cache, arrays>>

(* An exception of a conversion, or of a translator that pushes the result. *)
Throws ==
    /\ calls # << >> /\ Inner.at \in {"fill", "push"}
    /\ Thrown(Outer, Inner)
    /\ UNCHANGED <<members, byName, refused, cache, arrays>>

(* An error of Lua on the way, or an exception that is not caught here or  *)
(* becomes one: the TargetInvocationException of a method that throws.     *)
Raises ==
    /\ calls # << >>
    /\ Fails(Outer)
    /\ UNCHANGED <<members, byName, refused, cache, arrays>>

(* A filter is added or removed. *)
Filter(R) ==
    /\ R # refused
    /\ refused' = R /\ results' = << >>
    /\ UNCHANGED <<members, byName, cache, arrays, calls>>

Next ==
    \/ \E given \in Args : CallMethod(given)
    \/ StoreArgument \/ TryMember
    \/ MethodReturns \/ Pushed \/ Throws \/ Raises
    \/ \E R \in Filters : Filter(R)

Spec == Init /\ [][Next]_vars

-----------------------------------------------------------------------------
TypeOK ==
    /\ members \in Families /\ byName \in BOOLEAN
    /\ refused \in Filters
    /\ cache.method \in 0 .. Len(members)
    /\ cache.method # 0 => cache.args \in DOMAIN arrays
    /\ Len(calls) <= MaxDepth
    /\ \A k \in DOMAIN calls :
          /\ calls[k].method \in DOMAIN members
          /\ calls[k].at # "search" => calls[k].array \in DOMAIN arrays

(* A method starts to run. *)
Started == calls' # calls /\ Len(calls') >= Len(calls) /\ Last(calls').at = "run"

(* A method called by the cache gets the arguments of its own call: each   *)
(* entry is an argument of the call, by the conversion remembered for it,  *)
(* or a default value, whatever the array held before and whatever calls   *)
(* Lua made between two conversions.  Where matchParameters would choose   *)
(* the same conversions, it is the value matchParameters would find.  Not  *)
(* so for the entries that such a call has overwritten, nor when it put    *)
(* another overload or array into the cache.                               *)
OwnArguments ==
    Started /\ Last(calls').cached /\ cache.args = Last(calls').array =>
        LET f == Last(calls')
            params == members[f.method].params
            m == Matched(params, f.given)
            T == cache.argTypes
            args == arrays'[f.array]
        IN  \A i \in DOMAIN params : params[i].mode # "out" /\ i \notin f.lost =>
                /\ \/ \E k \in DOMAIN T : T[k].index = i /\ args[i] = Extracted(T[k], f.given[k])
                   \/ params[i].mode = "optional" /\ args[i] = "default"
                /\ m.ok /\ T = m.argTypes => args[i] = m.args[i]
ArgumentsOfTheCall == [][OwnArguments /\ TypeOK']_vars

(* A call leaves its own result and out values to Lua, also when the       *)
(* method, a translator or a finalizer called Lua and Lua the wrapper      *)
(* again, but for the out values that such a call has overwritten, unless  *)
(* one put another array into the cache.                                   *)
OwnResults ==
    Len(calls') < Len(calls) /\ results' # Failed /\ cache.args = Inner.array =>
        LET d == Len(calls)
            i == Inner.method
            o == Outs(i)
            first == IF o # << >> /\ members[i].void THEN 0 ELSE 1
        IN  /\ Len(results') = Len(o) + first
            /\ first = 1 => results'[1] = Result(i, d)
            /\ \A k \in DOMAIN o : o[k] \notin Inner.lost => results'[k + first] = Made(d, o[k])
ResultsOfTheCall == [][OwnResults]_vars

(* No method runs that the filters refused when its call asked them: one   *)
(* found by a search is asked about as it is called, and one called by the *)
(* cache is the one that was asked about when the call began, whatever     *)
(* other calls have put into the cache since.                              *)
AllowedRun ==
    Len(calls') >= Len(calls) /\ calls' # calls =>
        LET f == Last(calls')
        IN  /\ f.cached /\ Len(calls') > Len(calls) => f.method \notin refused
            /\ f.cached /\ Len(calls') = Len(calls) => Inner.cached /\ f.method = Inner.method
            /\ ~f.cached /\ f.at = "run" => f.method \notin refused
RunsAllowed == [][AllowedRun]_vars
=============================================================================
