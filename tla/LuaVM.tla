------------------------------- MODULE LuaVM -------------------------------
(***************************************************************************)
(* The virtual machine, lua-5.1.5/src/lvm.c, with the parts of ldo.c,      *)
(* lfunc.c and ltm.c its instructions use.  One action per instruction.    *)
(*                                                                         *)
(* L is the running thread and what it reaches:                            *)
(*   stack, top  the Lua stack; a register is a position above a base      *)
(*   ci          the CallInfos, the running one last                       *)
(*   after       what is left to do of an instruction that called a        *)
(*               function itself (luaD_call), once the call has returned   *)
(*   funs, upvals, tabs, globals     the heap                              *)
(*   trace       what the program has shown through the C function `emit'  *)
(*   results     what the main function returned                           *)
(* main is the Proto of the main function; a closure names its Proto by    *)
(* the path to it through the lists p.                                     *)
(*                                                                         *)
(* A table is a map with a metatable; LuaTable models its inside.  Errors, *)
(* hooks and coroutines are in CallState, collections in LuaGC: the        *)
(* programs run here raise no error, and memory does not run out.          *)
(***************************************************************************)
EXTENDS LuaCode, TLC

CONSTANTS StackSize

VARIABLES main, L

Registers == 0..(StackSize - 1)
NoTable == << >>                              \* the map of an empty table
Idle == [kind |-> "none"]

IsFun(v) == v[1] \in {"fun", "cfun"}
IsTab(v) == v[1] = "tab"

\* The values of a sequence, then nils.
Nth(vals, n) == IF n \in DOMAIN vals THEN vals[n] ELSE NilV

-----------------------------------------------------------------------------
\* The running function.

RECURSIVE ProtoAt(_, _)
ProtoAt(p, path) == IF path = << >> THEN p ELSE ProtoAt(p.p[Head(path) + 1], Tail(path))

Frame == Last(L.ci)
Closure == L.funs[Frame.fun]
Proto == ProtoAt(main, Closure.path)
I == Proto.code[Frame.pc]

Reg(r) == L.stack[Frame.base + r]
RK(x) == IF IsK(x) THEN Proto.k[IndexK(x) + 1] ELSE Reg(x)

Running == L.ci # << >> /\ L.after = Idle
At(op) == Running /\ I.op = op

\* Updates of a thread record.
Advance(m, n) == [m EXCEPT !.ci[Len(m.ci)].pc = @ + n]
SetReg(m, r, v) == [m EXCEPT !.stack[Last(m.ci).base + r] = v]
SetRegs(m, r, vals) ==
  LET from == Last(m.ci).base + r
  IN  [m EXCEPT !.stack = [j \in Registers |->
         IF j - from + 1 \in DOMAIN vals THEN vals[j - from + 1] ELSE @[j]]]
\* The instruction gives the value v to register A.
Gives(v) == L' = Advance(SetReg(L, I.a, v), 1)

-----------------------------------------------------------------------------
\* Upvalues (lfunc.c): open ones point into the stack.

\* luaF_findupval: returns the thread and the upvalue.
FindUpval(m, at) ==
  LET open == {u \in DOMAIN m.upvals : m.upvals[u].open /\ m.upvals[u].at = at}
  IN  IF open # {} THEN [m |-> m, u |-> Max(open)]
      ELSE [m |-> [m EXCEPT !.upvals = Append(@, [open |-> TRUE, at |-> at, v |-> NilV])],
            u |-> Len(m.upvals) + 1]

\* luaF_close
CloseUpvals(m, level) ==
  [m EXCEPT !.upvals = [u \in DOMAIN @ |->
     IF @[u].open /\ @[u].at >= level
     THEN [open |-> FALSE, at |-> 0, v |-> m.stack[@[u].at]] ELSE @[u]]]

-----------------------------------------------------------------------------
\* Calls (ldo.c).

Meta(m, v, event) ==                                    \* luaT_gettmbyobj
  LET mt == IF IsTab(v) THEN m.tabs[v[2]].meta ELSE 0
  IN  IF mt # 0 /\ StrV(event) \in DOMAIN m.tabs[mt].map THEN m.tabs[mt].map[StrV(event)]
      ELSE NilV

\* luaD_poscall: the values replace the function and its arguments.
PosCall(m, func, vals, wanted) ==
  LET n == IF wanted = MultRet THEN Len(vals) ELSE wanted
  IN  [m EXCEPT !.stack = [j \in Registers |->
                             IF j \in func..(func + n - 1) THEN Nth(vals, j - func + 1) ELSE @[j]],
                !.top = func + n]

\* The C functions of the host: each with its results and its effect.
\* emit shows its arguments (a table or a function only by its type).
Shown(v) == IF v[1] \in {"fun", "cfun", "tab"} THEN <<v[1], 0>> ELSE v
Results(name, args) ==
  CASE name = "two" -> <<NumV(1), NumV(2)>>
    [] name = "iter" -> IF args[2][2] < args[1][2] THEN <<NumV(args[2][2] + 1), NumV(7)>> ELSE <<NilV>>
    [] name = "setmetatable" -> <<args[1]>>
    [] OTHER -> << >>
Effect(m, name, args) ==
  CASE name = "emit" -> [m EXCEPT !.trace = Append(@, [i \in DOMAIN args |-> Shown(args[i])])]
    [] name = "setmetatable" -> [m EXCEPT !.tabs[args[1][2]].meta = args[2][2]]
    [] OTHER -> m

\* A call that has returned: to the instruction OP_CALL, or to the rest of
\* the instruction that made it.
Returned(m, func, vals, nresults, after) ==
  LET p == PosCall(m, func, vals, nresults)
  IN  IF after # Idle THEN [p EXCEPT !.after = after]
      ELSE Advance(IF nresults = MultRet THEN p ELSE [p EXCEPT !.top = Last(p.ci).top], 1)

\* luaD_precall for a Lua function: a new frame, its parameters in place
\* and its other registers nil.
EnterLua(m, func, nresults, after) ==
  LET p == ProtoAt(main, m.funs[m.stack[func][2]].path)
      args == SubSeq([j \in 1..StackSize |-> m.stack[j - 1]], func + 2, m.top)
      n == p.numparams
      vararg == "ISVARARG" \in p.is_vararg
      extra == SubSeq(args, n + 1, Len(args))
      base == IF vararg THEN func + 1 + (IF Len(args) > n THEN Len(args) ELSE n) ELSE func + 1
      needsArg == "NEEDSARG" \in p.is_vararg
      \* the table `arg' of old programs
      argTable == [map |-> [j \in {NumV(i) : i \in DOMAIN extra} \cup {StrV("n")} |->
                              IF j = StrV("n") THEN NumV(Len(extra)) ELSE extra[j[2]]],
                   meta |-> 0]
      params == [i \in 1..n |-> Nth(args, i)]
                \o (IF needsArg THEN <<<<"tab", Len(m.tabs) + 1>>>> ELSE << >>)
  IN  [m EXCEPT !.stack = [j \in Registers |->
                             CASE j \in base..(base + p.maxstacksize - 1) -> Nth(params, j - base + 1)
                               [] vararg /\ j \in (func + 1)..(func + n) -> NilV
                               [] OTHER -> @[j]],
                !.tabs = IF needsArg THEN Append(@, argTable) ELSE @,
                !.top = base + p.maxstacksize,
                !.after = Idle,
                !.ci = Append(@, [fun |-> m.stack[func][2], func |-> func, base |-> base,
                                  top |-> base + p.maxstacksize, pc |-> 1,
                                  nresults |-> nresults, after |-> after])]

\* luaD_precall: a table may be called through __call (tryfuncTM), which
\* takes it as first argument.
Precall(m0, func, nresults, after) ==
  LET f0 == m0.stack[func]
      m == IF IsFun(f0) THEN m0
           ELSE [m0 EXCEPT !.stack = [j \in Registers |->
                                        CASE j = func -> Meta(m0, f0, "__call")
                                          [] j \in (func + 1)..m0.top -> @[j - 1]
                                          [] OTHER -> @[j]],
                           !.top = @ + 1]
      f == m.stack[func]
      args == SubSeq([j \in 1..StackSize |-> m.stack[j - 1]], func + 2, m.top)
  IN  IF f[1] = "fun" THEN EnterLua(m, func, nresults, after)
      ELSE Returned(Effect(m, f[2], args), func, Results(f[2], args), nresults, after)

\* callTM, callTMres: the function and its arguments above the stack.
CallTM(m, f, args, nresults, after) ==
  LET all == <<f>> \o args
  IN  Precall([m EXCEPT !.stack = [j \in Registers |->
                                     IF j - m.top + 1 \in DOMAIN all THEN all[j - m.top + 1] ELSE @[j]],
                        !.top = @ + Len(all)],
              m.top, nresults, after)

\* After a metamethod: its result goes to a register, or decides a test.
ResultTo(r) == [kind |-> "result", r |-> r]
Decides(negated) == [kind |-> "test", negated |-> negated]
NothingLeft == [kind |-> "done"]

-----------------------------------------------------------------------------
\* Tables.

RawGet(m, t, key) == LET map == m.tabs[t[2]].map IN IF key \in DOMAIN map THEN map[key] ELSE NilV
RawSet(m, t, key, v) ==
  [m EXCEPT !.tabs[t[2]].map =
     [x \in IF v = NilV THEN DOMAIN @ \ {key} ELSE DOMAIN @ \cup {key} |-> IF x = key THEN v ELSE @[x]]]

\* luaV_gettable and luaV_settable: the object at the end of the chain of
\* __index or __newindex, where the access is raw or calls a function.
RECURSIVE AccessEnd(_, _, _)
AccessEnd(t, key, event) ==
  LET tm == Meta(L, t, event)
  IN  IF RawGet(L, t, key) # NilV \/ tm = NilV \/ IsFun(tm) THEN t ELSE AccessEnd(tm, key, event)

\* The value of t[key] goes to register r.
GetTableTo(m, t, key, r) ==
  LET h == AccessEnd(t, key, "__index")
      tm == Meta(L, h, "__index")
  IN  IF RawGet(L, h, key) # NilV \/ tm = NilV
      THEN Advance(SetReg(m, r, RawGet(L, h, key)), 1)
      ELSE CallTM(m, tm, <<h, key>>, 1, ResultTo(r))

-----------------------------------------------------------------------------
\* Instructions that move values.

Move == At("MOVE") /\ Gives(Reg(I.b)) /\ UNCHANGED main
LoadK == At("LOADK") /\ Gives(Proto.k[I.b + 1]) /\ UNCHANGED main
LoadBool ==
  /\ At("LOADBOOL")
  /\ L' = Advance(SetReg(L, I.a, BoolV(I.b)), IF I.c # 0 THEN 2 ELSE 1)
  /\ UNCHANGED main
LoadNilRegs ==
  /\ At("LOADNIL")
  /\ L' = Advance(SetRegs(L, I.a, [j \in 1..(I.b - I.a + 1) |-> NilV]), 1)
  /\ UNCHANGED main
GetUpval ==
  /\ At("GETUPVAL")
  /\ LET u == L.upvals[Closure.upvals[I.b + 1]]
     IN  Gives(IF u.open THEN L.stack[u.at] ELSE u.v)
  /\ UNCHANGED main
SetUpval ==
  /\ At("SETUPVAL")
  /\ LET n == Closure.upvals[I.b + 1]
         u == L.upvals[n]
     IN  L' = Advance(IF u.open THEN [L EXCEPT !.stack[u.at] = Reg(I.a)]
                      ELSE [L EXCEPT !.upvals[n].v = Reg(I.a)], 1)
  /\ UNCHANGED main
GetGlobal == At("GETGLOBAL") /\ Gives(Nth(L.globals, Proto.k[I.b + 1][2])) /\ UNCHANGED main
SetGlobal ==
  /\ At("SETGLOBAL")
  /\ L' = Advance([L EXCEPT !.globals = (Proto.k[I.b + 1][2] :> Reg(I.a)) @@ @], 1)
  /\ UNCHANGED main

\* Instructions on tables.
NewTable ==
  /\ At("NEWTABLE")
  /\ L' = Advance(SetReg([L EXCEPT !.tabs = Append(@, [map |-> NoTable, meta |-> 0])],
                         I.a, <<"tab", Len(L.tabs) + 1>>), 1)
  /\ UNCHANGED main
GetTable == At("GETTABLE") /\ L' = GetTableTo(L, Reg(I.b), RK(I.c), I.a) /\ UNCHANGED main
SelfOp ==
  /\ At("SELF")
  /\ L' = GetTableTo(SetReg(L, I.a + 1, Reg(I.b)), Reg(I.b), RK(I.c), I.a)
  /\ UNCHANGED main
SetTable ==
  /\ At("SETTABLE")
  /\ LET h == AccessEnd(Reg(I.a), RK(I.b), "__newindex")
         tm == Meta(L, h, "__newindex")
     IN  L' = IF RawGet(L, h, RK(I.b)) # NilV \/ tm = NilV
              THEN Advance(RawSet(L, h, RK(I.b), RK(I.c)), 1)
              ELSE CallTM(L, tm, <<h, RK(I.b), RK(I.c)>>, 0, NothingLeft)
  /\ UNCHANGED main
\* Mutant: the top stays where the open call left it.
SetListKeepsTop ==
  /\ At("SETLIST")
  /\ LET n == IF I.b = 0 THEN L.top - (Frame.base + I.a) - 1 ELSE I.b
         c == IF I.c = 0 THEN Proto.code[Frame.pc + 1].a ELSE I.c
         store(m, j) == RawSet(m, Reg(I.a), NumV((c - 1) * FieldsPerFlush + j), Reg(I.a + j))
     IN  L' = Advance(FoldLeft(store, L, [j \in 1..n |-> j]), IF I.c = 0 THEN 2 ELSE 1)
  /\ UNCHANGED main
\* OP_SETLIST: b values, or all up to the top, into block c of the array.
SetList ==
  /\ At("SETLIST")
  /\ LET n == IF I.b = 0 THEN L.top - (Frame.base + I.a) - 1 ELSE I.b
         c == IF I.c = 0 THEN Proto.code[Frame.pc + 1].a ELSE I.c
         start == (c - 1) * FieldsPerFlush
         store(m, j) == RawSet(m, Reg(I.a), NumV(start + j), Reg(I.a + j))
         m1 == IF I.b = 0 THEN [L EXCEPT !.top = Frame.top] ELSE L
     IN  L' = Advance(FoldLeft(store, m1, [j \in 1..n |-> j]), IF I.c = 0 THEN 2 ELSE 1)
  /\ UNCHANGED main

-----------------------------------------------------------------------------
\* Arithmetic, strings and comparisons.

\* luaV_tonumber and luaV_tostring: numerals and numbers are exchangeable.
IsNumber(v) == v[1] = "num" \/ (v[1] = "str" /\ \E n \in 0..99 : ToString(n) = v[2])
ToNumber(v) == IF v[1] = "num" THEN v[2] ELSE CHOOSE n \in 0..99 : ToString(n) = v[2]
IsString(v) == v[1] \in {"str", "num"}
ToStr(v) == IF v[1] = "str" THEN v[2] ELSE ToString(v[2])

TMOf == [op \in ArithOps \cup {"UNM", "LEN"} |->
  CASE op = "ADD" -> "__add" [] op = "SUB" -> "__sub" [] op = "MUL" -> "__mul"
    [] op = "DIV" -> "__div" [] op = "MOD" -> "__mod" [] op = "POW" -> "__pow"
    [] op = "UNM" -> "__unm" [] op = "LEN" -> "__len"]

\* call_binTM
BinTM(x, y, event) == IF Meta(L, x, event) # NilV THEN Meta(L, x, event) ELSE Meta(L, y, event)

Arith ==
  /\ Running /\ I.op \in ArithOps
  /\ LET x == RK(I.b)
         y == RK(I.c)
     IN  IF IsNumber(x) /\ IsNumber(y) THEN Gives(NumV(Calc(I.op, ToNumber(x), ToNumber(y))))
         ELSE L' = CallTM(L, BinTM(x, y, TMOf[I.op]), <<x, y>>, 1, ResultTo(I.a))
  /\ UNCHANGED main
Unm ==
  /\ At("UNM")
  /\ LET x == Reg(I.b)
     IN  IF IsNumber(x) THEN Gives(NumV(-ToNumber(x)))
         ELSE L' = CallTM(L, BinTM(x, x, "__unm"), <<x, x>>, 1, ResultTo(I.a))
  /\ UNCHANGED main
Not == At("NOT") /\ Gives(BoolV(IF IsFalse(Reg(I.b)) THEN 1 ELSE 0)) /\ UNCHANGED main
\* OP_LEN: a table has one border here, its programs leave no holes.
LenOp ==
  /\ At("LEN")
  /\ LET x == Reg(I.b)
     IN  Gives(NumV(IF IsTab(x)
                    THEN CHOOSE n \in 0..Cardinality(DOMAIN L.tabs[x[2]].map) :
                           /\ RawGet(L, x, NumV(n + 1)) = NilV
                           /\ n = 0 \/ RawGet(L, x, NumV(n)) # NilV
                    ELSE Len(x[2])))
  /\ UNCHANGED main

\* luaV_concat: the registers from last - total + 1 to last become one
\* string, from the right, as many at a time as are strings; a pair that is
\* not calls __concat.
ConcatFrom(m, total, last, a, b) ==
  LET reg(r) == m.stack[Last(m.ci).base + r]
      x == reg(last - 1)
      y == reg(last)
      strings == {n \in 2..total : \A j \in 0..(n - 1) : IsString(reg(last - j))}
      n == Max(strings)
      joined == FoldLeft(LAMBDA s, j : s \o ToStr(reg(last - n + j)), "", [j \in 1..n |-> j])
      one == SetReg(m, last - n + 1, StrV(joined))
      rest == [kind |-> "concat", total |-> total - n + 1, last |-> last - n + 1, a |-> a, b |-> b]
  IN  IF total = 1 THEN Advance(SetReg([m EXCEPT !.after = Idle], a, reg(b)), 1)
      ELSE IF strings # {} THEN [one EXCEPT !.after = rest]
      ELSE CallTM(m, BinTM(x, y, "__concat"), <<x, y>>, 1,
                  [kind |-> "concatTM", total |-> total - 1, last |-> last - 1, a |-> a, b |-> b])
ConcatOp ==
  /\ At("CONCAT")
  /\ L' = ConcatFrom(L, I.c - I.b + 1, I.c, I.a, I.b)
  /\ UNCHANGED main
ConcatMore ==
  /\ L.after.kind \in {"concat", "concatTM"}
  /\ LET k == L.after
         m == IF k.kind = "concat" THEN L
              ELSE SetReg([L EXCEPT !.top = @ - 1], k.last, L.stack[L.top - 1])
     IN  L' = ConcatFrom(m, k.total, k.last, k.a, k.b)
  /\ UNCHANGED main

Jmp == At("JMP") /\ L' = Advance(L, 1 + I.b) /\ UNCHANGED main

\* The OP_JMP after a test is part of it.
Decide(m, taken) == Advance(m, IF taken THEN 2 + Proto.code[Frame.pc + 1].b ELSE 2)

\* get_compTM: the metamethod, when both operands have the same one.
CompTM(x, y, event) == IF Meta(L, x, event) = Meta(L, y, event) THEN Meta(L, x, event) ELSE NilV

\* luaV_equalval: only two tables can be equal without being the same.
Eq ==
  /\ At("EQ")
  /\ LET x == RK(I.b)
         y == RK(I.c)
         tm == CompTM(x, y, "__eq")
     IN  L' = IF x # y /\ IsTab(x) /\ IsTab(y) /\ tm # NilV
              THEN CallTM(L, tm, <<x, y>>, 1, Decides(FALSE))
              ELSE Decide(L, (x = y) = (I.a = 1))
  /\ UNCHANGED main
\* luaV_lessthan and lessequal: numbers, or call_orderTM; without __le,
\* x <= y is not y < x.
Order ==
  /\ Running /\ I.op \in {"LT", "LE"}
  /\ LET x == RK(I.b)
         y == RK(I.c)
         lt == CompTM(x, y, "__lt")
         le == CompTM(x, y, "__le")
     IN  L' = CASE x[1] = "num" ->
                     Decide(L, (IF I.op = "LT" THEN x[2] < y[2] ELSE x[2] <= y[2]) = (I.a = 1))
                [] IsTab(x) /\ I.op = "LT" -> CallTM(L, lt, <<x, y>>, 1, Decides(FALSE))
                [] IsTab(x) /\ I.op = "LE" /\ le # NilV ->
                     CallTM(L, le, <<x, y>>, 1, Decides(FALSE))
                [] IsTab(x) /\ I.op = "LE" /\ le = NilV ->
                     CallTM(L, lt, <<y, x>>, 1, Decides(TRUE))
  /\ UNCHANGED main
Test == At("TEST") /\ L' = Decide(L, IsFalse(Reg(I.a)) # (I.c = 1)) /\ UNCHANGED main
TestSet ==
  /\ At("TESTSET")
  /\ LET taken == IsFalse(Reg(I.b)) # (I.c = 1)
     IN  L' = Decide(IF taken THEN SetReg(L, I.a, Reg(I.b)) ELSE L, taken)
  /\ UNCHANGED main

\* callTMres and callTM have returned.
FinishTM ==
  /\ L.after.kind \in {"result", "test", "done"}
  /\ LET popped == [L EXCEPT !.top = @ - 1, !.after = Idle]
         v == L.stack[L.top - 1]
     IN  L' = CASE L.after.kind = "result" -> Advance(SetReg(popped, L.after.r, v), 1)
                [] L.after.kind = "test" ->
                     Decide(popped, (IsFalse(v) = L.after.negated) = (I.a = 1))
                [] L.after.kind = "done" -> Advance([L EXCEPT !.after = Idle], 1)
  /\ UNCHANGED main

-----------------------------------------------------------------------------
\* Calls and closures.

SetTop(b) == IF b # 0 THEN [L EXCEPT !.top = Frame.base + I.a + b] ELSE L

Call ==
  /\ At("CALL")
  /\ L' = Precall(SetTop(I.b), Frame.base + I.a, I.c - 1, Idle)
  /\ UNCHANGED main
\* OP_TAILCALL: a Lua function takes the place of the frame that calls it.
TailCall ==
  /\ At("TAILCALL")
  /\ LET ra == Frame.base + I.a
         called == Precall(SetTop(I.b), ra, MultRet, Idle)
         new == Last(called.ci)
         shift == new.func - Frame.func
         closed == CloseUpvals(called, Frame.base)
     IN  L' = IF Len(called.ci) = Len(L.ci) THEN called     \* a C function, which has returned
              ELSE [closed EXCEPT
                      !.stack = [j \in Registers |->
                                   IF j \in Frame.func..(called.top - shift - 1)
                                   THEN closed.stack[j + shift] ELSE @[j]],
                      !.top = @ - shift,
                      !.ci = Append(Front(L.ci),
                               [new EXCEPT !.func = @ - shift, !.base = @ - shift, !.top = @ - shift,
                                           !.nresults = Frame.nresults, !.after = Frame.after])]
  /\ UNCHANGED main
Return ==
  /\ At("RETURN")
  /\ LET m == CloseUpvals(L, Frame.base)
         ra == Frame.base + I.a
         last == IF I.b # 0 THEN ra + I.b - 1 ELSE L.top
         vals == [j \in 1..(last - ra) |-> m.stack[ra + j - 1]]
     IN  L' = IF Len(L.ci) = 1 THEN [m EXCEPT !.ci = << >>, !.results = vals]
              ELSE Returned([m EXCEPT !.ci = Front(@)], Frame.func, vals,
                            Frame.nresults, Frame.after)
  /\ UNCHANGED main

\* OP_CLOSURE: each upvalue is a register of this frame or an upvalue of it.
ClosureOp ==
  /\ At("CLOSURE")
  /\ LET nups == Proto.p[I.b + 1].nups
         capture(r, j) ==
           LET pseudo == Proto.code[Frame.pc + j]
               f == FindUpval(r.m, Frame.base + pseudo.b)
           IN  IF pseudo.op = "GETUPVAL" THEN [r EXCEPT !.ups = Append(@, Closure.upvals[pseudo.b + 1])]
               ELSE [m |-> f.m, ups |-> Append(r.ups, f.u)]
         c == FoldLeft(capture, [m |-> L, ups |-> << >>], [j \in 1..nups |-> j])
         new == [path |-> Append(Closure.path, I.b), upvals |-> c.ups]
     IN  L' = Advance(SetReg([c.m EXCEPT !.funs = Append(@, new)],
                             I.a, <<"fun", Len(L.funs) + 1>>), 1 + nups)
  /\ UNCHANGED main
Close == At("CLOSE") /\ L' = Advance(CloseUpvals(L, Frame.base + I.a), 1) /\ UNCHANGED main
\* OP_VARARG: the extra arguments lie under the base of the frame.
Vararg ==
  /\ At("VARARG")
  /\ LET n == Frame.base - Frame.func - Proto.numparams - 1
         wanted == IF I.b = 0 THEN n ELSE I.b - 1
         vals == [j \in 1..wanted |-> IF j <= n THEN L.stack[Frame.base - n + j - 1] ELSE NilV]
         m == IF I.b = 0 THEN [L EXCEPT !.top = Frame.base + I.a + n] ELSE L
     IN  L' = Advance(SetRegs(m, I.a, vals), 1)
  /\ UNCHANGED main

-----------------------------------------------------------------------------
\* Loops.

ForPrep ==
  /\ At("FORPREP")
  /\ LET init == ToNumber(Reg(I.a)) - ToNumber(Reg(I.a + 2))
     IN  L' = Advance(SetRegs(L, I.a, <<NumV(init), NumV(ToNumber(Reg(I.a + 1))),
                                        NumV(ToNumber(Reg(I.a + 2)))>>), 1 + I.b)
  /\ UNCHANGED main
ForLoop ==
  /\ At("FORLOOP")
  /\ LET step == Reg(I.a + 2)[2]
         idx == Reg(I.a)[2] + step
         limit == Reg(I.a + 1)[2]
         more == IF 0 < step THEN idx <= limit ELSE limit <= idx
     IN  L' = IF more THEN Advance(SetReg(SetReg(L, I.a, NumV(idx)), I.a + 3, NumV(idx)), 1 + I.b)
              ELSE Advance(L, 1)
  /\ UNCHANGED main
TForLoop ==
  /\ At("TFORLOOP")
  /\ LET m == SetRegs(L, I.a + 3, <<Reg(I.a), Reg(I.a + 1), Reg(I.a + 2)>>)
         cb == Frame.base + I.a + 3
     IN  L' = Precall([m EXCEPT !.top = cb + 3], cb, I.c, [kind |-> "for"])
  /\ UNCHANGED main
FinishTFor ==
  /\ L.after.kind = "for"
  /\ LET m == [L EXCEPT !.top = Frame.top, !.after = Idle]
         control == Reg(I.a + 3)
     IN  L' = IF control # NilV THEN Decide(SetReg(m, I.a + 2, control), TRUE) ELSE Decide(m, FALSE)
  /\ UNCHANGED main

Execute ==
  \/ Move \/ LoadK \/ LoadBool \/ LoadNilRegs \/ GetUpval \/ SetUpval
  \/ GetGlobal \/ SetGlobal \/ NewTable \/ GetTable \/ SelfOp \/ SetTable
  \/ SetList \/ Arith \/ Unm \/ Not \/ LenOp \/ ConcatOp \/ ConcatMore
  \/ Jmp \/ Eq \/ Order \/ Test \/ TestSet \/ FinishTM
  \/ Call \/ TailCall \/ Return \/ ClosureOp \/ Close \/ Vararg
  \/ ForPrep \/ ForLoop \/ TForLoop \/ FinishTFor
=============================================================================
