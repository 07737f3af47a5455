--------------------------- MODULE MCLuaCompiler ---------------------------
(***************************************************************************)
(* Families of programs for LuaCompiler: every expression of a family in   *)
(* every context, every list of values, every way to leave a loop, every   *)
(* combination of assignment targets, and programs for the rest.           *)
(***************************************************************************)
EXTENDS LuaCompiler

\* Syntax trees (see LuaSemantics).
Nil == [k |-> "nil"]
True == [k |-> "true"]
False == [k |-> "false"]
Dots == [k |-> "dots"]
N(n) == [k |-> "num", n |-> n]
Str(s) == [k |-> "str", s |-> s]
V(name) == [k |-> "var", name |-> name]
Un(op, e) == [k |-> "un", op |-> op, e |-> e]
Bin(op, l, r) == [k |-> "bin", op |-> op, l |-> l, r |-> r]
Paren(e) == [k |-> "paren", e |-> e]
Item(v) == [key |-> << >>, v |-> v]
Keyed(key, v) == [key |-> <<key>>, v |-> v]
Tab(items) == [k |-> "table", items |-> items]
Get(t, key) == [k |-> "index", t |-> t, key |-> key]
Calls(f, args) == [k |-> "call", f |-> f, args |-> args]
Method(o, name, args) == [k |-> "method", o |-> o, name |-> name, args |-> args]
Fun(params, body) ==
  [k |-> "fun", params |-> params, dots |-> FALSE, usesDots |-> FALSE, body |-> body]
FunDots(params, uses, body) ==
  [k |-> "fun", params |-> params, dots |-> TRUE, usesDots |-> uses, body |-> body]
Local(names, exprs) == [k |-> "local", names |-> names, exprs |-> exprs]
Set(targets, exprs) == [k |-> "set", targets |-> targets, exprs |-> exprs]
Do(e) == [k |-> "do", e |-> e]
Scope(body) == [k |-> "block", body |-> body]
While(c, body) == [k |-> "while", c |-> c, body |-> body]
Repeat(body, c) == [k |-> "repeat", body |-> body, c |-> c]
Arm(c, body) == [c |-> c, body |-> body]
If(arms, orelse) == [k |-> "if", arms |-> arms, orelse |-> orelse]
ForRange(name, limits, body) == [k |-> "fornum", name |-> name, limits |-> limits, body |-> body]
ForIn(names, exprs, body) == [k |-> "forin", names |-> names, exprs |-> exprs, body |-> body]
LocalFun(name, f) == [k |-> "localfun", name |-> name, f |-> f]
Function(path, method, f) == [k |-> "function", path |-> path, method |-> method, f |-> f]
Returns(exprs) == [k |-> "return", exprs |-> exprs]
Break == [k |-> "break"]

emit(args) == Do(Calls(V("emit"), args))
a == V("a")
b == V("b")
c == V("c")
n == V("n")
f == V("f")
o == V("o")
t == V("t")
Two == Calls(V("two"), << >>)

-----------------------------------------------------------------------------
\* Conditions: what jumps, and which register gets which value.

Atoms == {Nil, True, N(1), a, b}
Simple == {a, b, Nil, N(1), Un("not", a), Bin("==", a, b), Bin("==", a, N(1)), Bin("~=", b, Nil), Two,
           Bin("<", N(1), N(2))}
Conditions ==
  {Bin(op, x, y) : op \in {"and", "or"}, x \in Atoms \cup Simple, y \in Atoms \cup Simple}
  \cup {Bin(op1, Bin(op2, x, y), z) :
          op1 \in {"and", "or"}, op2 \in {"and", "or"},
          x \in {a, Bin("==", a, b), Un("not", b)}, y \in Simple, z \in {b, False, Un("not", a), Bin("==", a, b)}}
  \cup {Bin(op1, x, Bin(op2, y, z)) :
          op1 \in {"and", "or"}, op2 \in {"and", "or"},
          x \in {b, Bin("==", a, b)}, y \in {a, Nil, Bin("==", b, a)}, z \in {b, N(1), Un("not", a)}}
  \cup {Un("not", Bin(op, x, y)) : op \in {"and", "or"}, x \in {a, Bin("==", a, b)}, y \in Simple}
  \cup {Un("not", Un("not", x)) : x \in Simple}

InEveryContext(e) ==
  <<Local(<<"a", "b">>, <<Dots>>),
    Local(<<"c">>, <<e>>),
    emit(<<c, e>>),
    Local(<<"t">>, <<Tab(<<Item(e), Keyed(Str("k"), e), Item(N(2))>>)>>),
    emit(<<Get(t, N(1)), Get(t, Str("k"))>>),
    Set(<<V("g"), c>>, <<e, e>>),
    If(<<Arm(e, <<emit(<<N(1)>>)>>)>>, <<emit(<<N(2)>>)>>),
    While(e, <<emit(<<N(3)>>), Break>>),
    Repeat(<<Local(<<"d">>, <<V("g")>>), Set(<<V("g")>>, <<True>>), emit(<<V("d")>>)>>, Bin("or", e, V("d"))),
    emit(<<Bin("==", e, c), Un("not", e)>>),
    Local(<<"f">>, <<Fun(<< >>, <<Set(<<c>>, <<e>>), Returns(<<e>>)>>)>>),
    emit(<<Calls(V("f"), << >>), c>>),
    Returns(<<e>>)>>

ConditionPrograms ==
  {[body |-> InEveryContext(e), args |-> v] :
     e \in Conditions, v \in {<<NilV, NumV(1)>>, <<NumV(1), BoolV(0)>>}}

-----------------------------------------------------------------------------
\* Operators: precedence, constants, folding, chains of `..'.

Operands == {<<N(7), N(2), N(3)>>, <<a, N(2), b>>, <<N(7), b, Str("3")>>, <<Un("-", N(7)), b, a>>}
Binary == {"+", "-", "*", "%", "^", ".."}
\* No arithmetic on the text of a negative number: only digits are read back.
Readable(op, x) == op = ".." => x[1].k # "un"
Operations ==
  UNION {{Bin(op1, Bin(op2, x[1], x[2]), x[3]) : op1 \in Binary \ {"^"}, x \in {y \in Operands : Readable(op2, y)}} :
           op2 \in Binary \ {"^"}}
  \cup {Bin(op1, x[1], Bin(op2, x[2], x[3])) :
          op1 \in {"+", "-", "*", ".."}, op2 \in Binary, x \in Operands}
  \cup {Bin(op1, Un("-", Bin("^", x[1], x[2])), x[3]) : op1 \in {"+", "*"}, x \in Operands}
  \cup {Bin(op1, Bin(op2, x[2], x[3]), Bin("+", x[1], N(1))) :
          op1 \in {"<", "<=", ">", ">=", "==", "~="}, op2 \in {"+", "*"}, x \in Operands}
  \cup {Bin("..", Bin("+", a, N(1)), Bin("..", b, Bin("..", N(1), Un("#", Str("xy"))))),
        Bin("..", a, Bin("..", Str("x"), b)), Bin("/", N(6), N(2)), Bin("/", Un("-", b), N(2)),
        Bin("and", False, Bin("%", N(1), N(0))), Bin("^", N(2), Bin("^", a, N(2))),
        Bin("^", Bin("^", N(2), a), N(2))}
OperationPrograms ==
  {[body |-> <<Local(<<"a", "b">>, <<N(3), Un("-", Un("-", N(2)))>>),
               emit(<<e>>),
               Local(<<"c">>, <<Bin("==", e, N(5))>>),
               Set(<<a>>, <<e>>),
               Returns(<<a, c>>)>>,
    args |-> << >>] : e \in Operations}

-----------------------------------------------------------------------------
\* Lists of values where some number of values is wanted.

Items == {N(1), Two, Dots, Paren(Two), Calls(V("none"), << >>), Calls(V("id"), <<Dots>>)}
Lists == {<<x>> : x \in Items} \cup {<<x, y>> : x \in Items, y \in Items}
         \cup {<<x, y, z>> : x \in {N(1), Two}, y \in Items, z \in Items}
InEveryList(list) ==
  <<LocalFun("none", Fun(<< >>, << >>)),
    LocalFun("id", FunDots(<< >>, TRUE, <<Returns(<<Dots>>)>>)),
    LocalFun("old", FunDots(<<"p">>, FALSE,
                            <<Returns(<<V("p"), Get(V("arg"), Str("n")), Get(V("arg"), N(1))>>)>>)),
    Local(<<"a", "b">>, list),
    emit(<<a, b>>),
    Set(<<b, V("g"), a>>, list),
    emit(<<a, b, V("g")>>),
    emit(list),
    Local(<<"t">>, <<Tab([i \in DOMAIN list |-> Item(list[i])])>>),
    emit(<<Get(t, N(1)), Get(t, N(2)), Get(t, N(3)), Get(t, N(4)), Get(t, N(5))>>),
    emit(<<Calls(V("old"), list)>>),
    emit(<<Paren(Calls(V("id"), list)), Calls(Fun(<<"x">>, <<Returns(<<V("x")>>)>>), list)>>),
    If(<<Arm(a, <<Returns(<<Calls(V("id"), list)>>)>>)>>, << >>),
    Returns(list)>>
ListPrograms ==
  {[body |-> InEveryList(list), args |-> v] : list \in Lists, v \in {<< >>, <<NumV(4), NumV(5)>>}}

-----------------------------------------------------------------------------
\* Ways to leave a loop, with and without variables captured by closures.

Counter(var) == Fun(<< >>, <<Set(<<V(var)>>, <<Bin("+", V(var), N(1))>>), Returns(<<V(var)>>)>>)
Inner(captured, exit) ==
  <<Local(<<"w">>, <<n>>)>>
  \o (IF captured THEN <<Set(<<Get(t, Str("w"))>>, <<Counter("w")>>)>> ELSE << >>)
  \o (CASE exit = "break" -> <<Break>>
        [] exit = "return" -> <<Returns(<<V("w"), Un("-", n)>>)>>
        [] OTHER -> <<emit(<<V("w")>>)>>)
LoopBody(captured, inner, exit) ==
  <<Local(<<"v">>, <<n>>),
    Set(<<n>>, <<Bin("+", n, N(1))>>),
    Set(<<Get(t, n)>>, <<IF captured THEN Counter("v") ELSE Two>>),
    If(<<Arm(Bin("==", n, N(2)), Inner(inner, exit))>>, <<emit(<<V("v")>>)>>)>>
Loop(kind, body) ==
  CASE kind = "while" -> While(Bin("<", n, N(3)), body)
    [] kind = "repeat" -> Repeat(body, Bin(">=", V("v"), N(2)))
    [] kind = "for" -> ForRange("i", <<N(3), N(1), Un("-", N(1))>>,
                                Append(body, Set(<<Get(t, Str("i"))>>, <<Counter("i")>>)))
    [] kind = "in" -> ForIn(<<"i", "j">>, <<V("iter"), N(3), N(0)>>,
                            Append(body, Set(<<Get(t, Str("i"))>>, <<Counter("j")>>)))
LoopProgram(kind, captured, inner, exit) ==
  <<Local(<<"t", "n">>, <<Tab(<< >>), N(0)>>),
    LocalFun("f", Fun(<< >>, <<
      Loop(kind, LoopBody(captured, inner, exit)),
      Local(<<"q", "r">>, <<N(50), N(60)>>),
      emit(<<n, V("q"), V("r")>>)>>)),
    emit(<<Calls(V("f"), << >>)>>)>>
  \o (IF captured
      THEN <<emit(<<Calls(Get(t, N(1)), << >>), Calls(Get(t, N(1)), << >>), Calls(Get(t, N(2)), << >>)>>)>>
      ELSE << >>)
  \o (IF inner THEN <<emit(<<Calls(Get(t, Str("w")), << >>), Calls(Get(t, Str("w")), << >>)>>)>> ELSE << >>)
  \o (IF kind \in {"for", "in"} THEN <<emit(<<Calls(Get(t, Str("i")), << >>)>>)>> ELSE << >>)
LoopPrograms ==
  {[body |-> LoopProgram(kind, captured, inner, exit), args |-> << >>] :
     kind \in {"while", "repeat", "for", "in"}, captured \in BOOLEAN, inner \in BOOLEAN,
     exit \in {"none", "break", "return"}}

-----------------------------------------------------------------------------
\* Assignments: variables, upvalues, globals and fields, in one statement.

Targets == {a, t, V("up"), V("g"), Get(t, Str("x")), Get(t, a), Get(V("s"), a)}
Values == {<<N(6), N(7), N(8)>>, <<a, Two>>, <<V("g"), V("up"), a, Two>>}
AssignProgram(targets, values) ==
  <<Local(<<"up">>, <<N(1)>>),
    LocalFun("f", Fun(<<"t", "a">>, <<
      Local(<<"s">>, <<t>>),
      Set(targets, values),
      emit(<<a, V("up"), V("g"), Get(V("s"), Str("x")), Get(V("s"), N(2)), Get(V("s"), N(6)),
             Bin("==", t, V("s"))>>)>>)),
    Do(Calls(V("f"), <<Tab(<< >>), N(2)>>))>>
AssignPrograms ==
  {[body |-> AssignProgram(targets, values), args |-> << >>] :
     targets \in {<<x, y>> : x \in Targets, y \in Targets}
                 \cup {<<x, y, z>> : x \in {Get(t, a), Get(t, Str("x"))}, y \in Targets, z \in Targets},
     values \in Values}

-----------------------------------------------------------------------------
\* Programs for the rest, each after its text.

(* Upvalues through several levels:
   local a, b = 1, 2
   local function f(c)
     return function(n)
       a = a + n
       return function() b = b + c; c = c + 1; return a, b, c, n end
     end
   end
   local o = f(3)
   local t = o(10)
   emit(t()); emit(t()); emit(o(5)())
   emit(a, b) *)
Counters ==
  <<Local(<<"a", "b">>, <<N(1), N(2)>>),
     LocalFun("f",
        Fun(<<"c">>,
           <<
              Returns(
                 <<
                    Fun(<<"n">>,
                       <<Set(<<a>>, <<Bin("+", a, n)>>),
                          Returns(
                             <<
                                Fun(<< >>,
                                   <<Set(<<b>>, <<Bin("+", b, c)>>),
                                      Set(<<c>>, <<Bin("+", c, N(1))>>), Returns(<<a, b, c, n>>)>>)>>)>>)>>)>>)),
     Local(<<"o">>, <<Calls(f, <<N(3)>>)>>), Local(<<"t">>, <<Calls(o, <<N(10)>>)>>),
     emit(<<Calls(t, << >>)>>), emit(<<Calls(t, << >>)>>),
     emit(<<Calls(Calls(o, <<N(5)>>), << >>)>>), emit(<<a, b>>)>>

(* Recursion, tail calls of Lua functions, C functions and tables:
   function count(n, ...) if n > 0 then return count(n - 1, n, ...) end return ... end
   emit(count(3))
   local function f(n) if n <= 1 then return 1 end return n * f(n - 1) end
   emit(f(4))
   local t = setmetatable({}, {__call = function(o, n) local c = function() return n end; return c(), two() end})
   local function o(n) local c = function() return n end; return t(c()) end
   emit(o(3)); emit(t(1), t(2)); emit((function() return two() end)())
   for n, c in setmetatable({}, {__call = function(o, a, b) return iter(a, b) end}), 2, 0 do emit(n, c) end *)
Tails ==
  <<
     Function(<<"count">>, "",
        FunDots(<<"n">>, TRUE,
           <<
              If(
                 <<
                    Arm(Bin(">", n, N(0)),
                       <<Returns(<<Calls(V("count"), <<Bin("-", n, N(1)), n, Dots>>)>>)>>)>>,
                 << >>),
              Returns(<<Dots>>)>>)),
     emit(<<Calls(V("count"), <<N(3)>>)>>),
     LocalFun("f",
        Fun(<<"n">>,
           <<If(<<Arm(Bin("<=", n, N(1)), <<Returns(<<N(1)>>)>>)>>, << >>),
              Returns(<<Bin("*", n, Calls(f, <<Bin("-", n, N(1))>>))>>)>>)),
     emit(<<Calls(f, <<N(4)>>)>>),
     Local(<<"t">>,
        <<
           Calls(V("setmetatable"),
              <<Tab(<< >>),
                 Tab(
                    <<
                       Keyed(Str("__call"),
                          Fun(<<"o", "n">>,
                             <<Local(<<"c">>, <<Fun(<< >>, <<Returns(<<n>>)>>)>>),
                                Returns(<<Calls(c, << >>), Calls(V("two"), << >>)>>)>>))>>)>>)>>),
     LocalFun("o",
        Fun(<<"n">>,
           <<Local(<<"c">>, <<Fun(<< >>, <<Returns(<<n>>)>>)>>),
              Returns(<<Calls(t, <<Calls(c, << >>)>>)>>)>>)),
     emit(<<Calls(o, <<N(3)>>)>>), emit(<<Calls(t, <<N(1)>>), Calls(t, <<N(2)>>)>>),
     emit(<<Calls(Paren(Fun(<< >>, <<Returns(<<Calls(V("two"), << >>)>>)>>)), << >>)>>),
     ForIn(<<"n", "c">>,
        <<
           Calls(V("setmetatable"),
              <<Tab(<< >>),
                 Tab(
                    <<
                       Keyed(Str("__call"),
                          Fun(<<"o", "a", "b">>, <<Returns(<<Calls(V("iter"), <<a, b>>)>>)>>))>>)>>),
           N(2), N(0)>>,
         <<emit(<<n, c>>)>>)>>

(* Constructors:
   local a, t = 3, {x = 1, 2, ["y"] = 3, 4; [9] = 5, {6, {7}}, two()}
   emit(#t, t.x, t.y, t[9], t[4], t[3][2][1])
   t = {a, {a}, function() return a end, 4, 5, 6, 7}
   emit(#t, t[2][1], t[3](), #{}, #{nil}, t[7])
   local o = {[1 + 1] = a and 2, [a] = not a, a = a == 3, b = a ~= 3 or t}
   emit(o[2], o[3], o.a, o.b) *)
Constructors ==
  <<
     Local(<<"a", "t">>,
        <<N(3),
           Tab(
              <<Keyed(Str("x"), N(1)), Item(N(2)), Keyed(Str("y"), N(3)), Item(N(4)),
                 Keyed(N(9), N(5)), Item(Tab(<<Item(N(6)), Item(Tab(<<Item(N(7))>>))>>)),
                 Item(Calls(V("two"), << >>))>>)>>),
     emit(
        <<Un("#", t), Get(t, Str("x")), Get(t, Str("y")), Get(t, N(9)), Get(t, N(4)),
           Get(Get(Get(t, N(3)), N(2)), N(1))>>),
     Set(<<t>>,
        <<
           Tab(
              <<Item(a), Item(Tab(<<Item(a)>>)), Item(Fun(<< >>, <<Returns(<<a>>)>>)), Item(N(4)),
                 Item(N(5)), Item(N(6)), Item(N(7))>>)>>),
     emit(
        <<Un("#", t), Get(Get(t, N(2)), N(1)), Calls(Get(t, N(3)), << >>), Un("#", Tab(<< >>)),
           Un("#", Tab(<<Item(Nil)>>)), Get(t, N(7))>>),
     Local(<<"o">>,
        <<
           Tab(
              <<Keyed(Bin("+", N(1), N(1)), Bin("and", a, N(2))), Keyed(a, Un("not", a)),
                 Keyed(Str("a"), Bin("==", a, N(3))),
                 Keyed(Str("b"), Bin("or", Bin("~=", a, N(3)), t))>>)>>),
     emit(<<Get(o, N(2)), Get(o, N(3)), Get(o, Str("a")), Get(o, Str("b"))>>)>>

(* Methods:
   local o = {n = 1}
   function o:inc(a) self.n = self.n + a; return self end
   function o.get(a) return a.n end
   emit(o:inc(2):inc(3):get(), o.n, o.get{n = 7}, (o:inc(1)).n)
   local t = {f = {v = o}}
   function t.f.v.w(a) return a, 1 end
   function t.f:m() return self.v.n end
   emit(t.f.v.w "x"); emit(t.f:m()) *)
Methods ==
  <<Local(<<"o">>, <<Tab(<<Keyed(Str("n"), N(1))>>)>>),
     Function(<<"o">>, "inc",
        Fun(<<"a">>,
           <<Set(<<Get(V("self"), Str("n"))>>, <<Bin("+", Get(V("self"), Str("n")), a)>>),
              Returns(<<V("self")>>)>>)),
     Function(<<"o", "get">>, "", Fun(<<"a">>, <<Returns(<<Get(a, Str("n"))>>)>>)),
     emit(
        <<Method(Method(Method(o, "inc", <<N(2)>>), "inc", <<N(3)>>), "get", << >>),
           Get(o, Str("n")), Calls(Get(o, Str("get")), <<Tab(<<Keyed(Str("n"), N(7))>>)>>),
           Get(Paren(Method(o, "inc", <<N(1)>>)), Str("n"))>>),
     Local(<<"t">>, <<Tab(<<Keyed(Str("f"), Tab(<<Keyed(Str("v"), o)>>))>>)>>),
     Function(<<"t", "f", "v", "w">>, "", Fun(<<"a">>, <<Returns(<<a, N(1)>>)>>)),
     Function(<<"t", "f">>, "m",
        Fun(<< >>, <<Returns(<<Get(Get(V("self"), Str("v")), Str("n"))>>)>>)),
     emit(<<Calls(Get(Get(Get(t, Str("f")), Str("v")), Str("w")), <<Str("x")>>)>>),
     emit(<<Method(Get(t, Str("f")), "m", << >>)>>)>>

(* Metamethods for indexing:
   local t = {}
   local o = setmetatable({a = 1}, {__index = function(a, b) return b, 2 end, __newindex = function(a, b, c) t[b] = c end})
   o.b = 5; o.a = 6
   emit(o.a, o.b, o.c, t.b)
   local c = setmetatable({}, {__index = o, __newindex = o})
   c.a = 7; c.d = 8
   emit(c.a, c.e, o.a, t.d, #c.f)
   function c:m() return self == c end
   emit(t.m(c))
   local n = setmetatable({m = t.m}, {__index = t})
   emit(n:m(), n:m(1), n.b) *)
IndexEvents ==
  <<Local(<<"t">>, <<Tab(<< >>)>>),
     Local(<<"o">>,
        <<
           Calls(V("setmetatable"),
              <<Tab(<<Keyed(Str("a"), N(1))>>),
                 Tab(
                    <<Keyed(Str("__index"), Fun(<<"a", "b">>, <<Returns(<<b, N(2)>>)>>)),
                       Keyed(Str("__newindex"),
                          Fun(<<"a", "b", "c">>, <<Set(<<Get(t, b)>>, <<c>>)>>))>>)>>)>>),
     Set(<<Get(o, Str("b"))>>, <<N(5)>>), Set(<<Get(o, Str("a"))>>, <<N(6)>>),
     emit(<<Get(o, Str("a")), Get(o, Str("b")), Get(o, Str("c")), Get(t, Str("b"))>>),
     Local(<<"c">>,
        <<
           Calls(V("setmetatable"),
              <<Tab(<< >>), Tab(<<Keyed(Str("__index"), o), Keyed(Str("__newindex"), o)>>)>>)>>),
     Set(<<Get(c, Str("a"))>>, <<N(7)>>), Set(<<Get(c, Str("d"))>>, <<N(8)>>),
     emit(
        <<Get(c, Str("a")), Get(c, Str("e")), Get(o, Str("a")), Get(t, Str("d")),
           Un("#", Get(c, Str("f")))>>),
     Function(<<"c">>, "m", Fun(<< >>, <<Returns(<<Bin("==", V("self"), c)>>)>>)),
     emit(<<Calls(Get(t, Str("m")), <<c>>)>>),
     Local(<<"n">>,
        <<
           Calls(V("setmetatable"),
              <<Tab(<<Keyed(Str("m"), Get(t, Str("m")))>>), Tab(<<Keyed(Str("__index"), t)>>)>>)>>),
     emit(<<Method(n, "m", << >>), Method(n, "m", <<N(1)>>), Get(n, Str("b"))>>)>>

(* Metamethods of operators:
   local t = {__add = function(a, b) return 1 end, __concat = function(a, b) return "c" end,
              __eq = function(a, b) return 1 end, __lt = function(a, b) return nil end,
              __unm = function(a) return 4 end, __sub = function(a, b) return a, b end}
   local a, b = setmetatable({}, t), setmetatable({}, t)
   emit(a + 1, 2 + b, 0 - a, -a, a - 3)
   emit(a == b, a ~= b, a < b, a <= b, a > b, a >= b, a == 1)
   emit(a .. 1, 1 .. a, "a" .. "b" .. a, a .. "a" .. "b", 1 .. 2 .. a .. 3 .. 4)
   if a == b then emit(1) end
   if not (a <= b) then emit(2) else emit(3) end
   t.__le = function(a, b) return true end
   emit(a <= b, a >= b, a < b or 5) *)
OperatorEvents ==
  <<
     Local(<<"t">>,
        <<
           Tab(
              <<Keyed(Str("__add"), Fun(<<"a", "b">>, <<Returns(<<N(1)>>)>>)),
                 Keyed(Str("__concat"), Fun(<<"a", "b">>, <<Returns(<<Str("c")>>)>>)),
                 Keyed(Str("__eq"), Fun(<<"a", "b">>, <<Returns(<<N(1)>>)>>)),
                 Keyed(Str("__lt"), Fun(<<"a", "b">>, <<Returns(<<Nil>>)>>)),
                 Keyed(Str("__unm"), Fun(<<"a">>, <<Returns(<<N(4)>>)>>)),
                 Keyed(Str("__sub"), Fun(<<"a", "b">>, <<Returns(<<a, b>>)>>))>>)>>),
     Local(<<"a", "b">>,
        <<Calls(V("setmetatable"), <<Tab(<< >>), t>>), Calls(V("setmetatable"), <<Tab(<< >>), t>>)>>),
     emit(
        <<Bin("+", a, N(1)), Bin("+", N(2), b), Bin("-", N(0), a), Un("-", a), Bin("-", a, N(3))>>),
     emit(
        <<Bin("==", a, b), Bin("~=", a, b), Bin("<", a, b), Bin("<=", a, b), Bin(">", a, b),
           Bin(">=", a, b), Bin("==", a, N(1))>>),
     emit(
        <<Bin("..", a, N(1)), Bin("..", N(1), a), Bin("..", Str("a"), Bin("..", Str("b"), a)),
           Bin("..", a, Bin("..", Str("a"), Str("b"))),
           Bin("..", N(1), Bin("..", N(2), Bin("..", a, Bin("..", N(3), N(4)))))>>),
     If(<<Arm(Bin("==", a, b), <<emit(<<N(1)>>)>>)>>, << >>),
     If(<<Arm(Un("not", Paren(Bin("<=", a, b))), <<emit(<<N(2)>>)>>)>>, <<emit(<<N(3)>>)>>),
     Set(<<Get(t, Str("__le"))>>, <<Fun(<<"a", "b">>, <<Returns(<<True>>)>>)>>),
     emit(<<Bin("<=", a, b), Bin(">=", a, b), Bin("or", Bin("<", a, b), N(5))>>)>>

(* Registers that are nil without an instruction:
   local a, b
   emit(a, b)
   local function f(n) local a, b; n = nil; return n, a, b end
   emit(f(1))
   local function f() local a, b = nil, nil; local c = nil; return a, b, c end
   emit(f())
   do local n, o = 2, 3; emit(n, o) end
   local n, o
   a = 5
   local t = a and nil
   local c = nil
   emit(n, o, t, c)
   while a < 7 do local t; if t then emit(0) end; t = a; a = a + 1 end
   for n = 1, 2 do local o; emit(o); o = n; for o = n, 2 do emit(n, o); if o == n then break end end end *)
NilRegisters ==
  <<Local(<<"a", "b">>, << >>), emit(<<a, b>>),
     LocalFun("f",
        Fun(<<"n">>, <<Local(<<"a", "b">>, << >>), Set(<<n>>, <<Nil>>), Returns(<<n, a, b>>)>>)),
     emit(<<Calls(f, <<N(1)>>)>>),
     LocalFun("f",
        Fun(<< >>,
           <<Local(<<"a", "b">>, <<Nil, Nil>>), Local(<<"c">>, <<Nil>>), Returns(<<a, b, c>>)>>)),
     emit(<<Calls(f, << >>)>>), Scope(<<Local(<<"n", "o">>, <<N(2), N(3)>>), emit(<<n, o>>)>>),
     Local(<<"n", "o">>, << >>), Set(<<a>>, <<N(5)>>), Local(<<"t">>, <<Bin("and", a, Nil)>>),
     Local(<<"c">>, <<Nil>>), emit(<<n, o, t, c>>),
     While(Bin("<", a, N(7)),
        <<Local(<<"t">>, << >>), If(<<Arm(t, <<emit(<<N(0)>>)>>)>>, << >>), Set(<<t>>, <<a>>),
           Set(<<a>>, <<Bin("+", a, N(1))>>)>>),
     ForRange("n", <<N(1), N(2)>>,
        <<Local(<<"o">>, << >>), emit(<<o>>), Set(<<o>>, <<n>>),
           ForRange("o", <<n, N(2)>>,
              <<emit(<<n, o>>), If(<<Arm(Bin("==", o, n), <<Break>>)>>, << >>)>>)>>)>>

(* Branches:
   local n, a, b = 0
   while true do
     n = n + 1
     if n == 1 and not b then emit("one")
     elseif n == 2 then
       repeat n = n + 1; if n == 3 then break end until false
     elseif n == 5 or a then
       local a = n
       do local f = function() return a end; if f() == 5 then break end end
     else emit(n) end
   end
   emit(n)
   if nil then emit(6) elseif false then emit(7) elseif 1 < 2 then emit(8) else emit(9) end
   do return n, (function(o) for t = 1, 3 do local f = function() t = t + 1; return t end; if t == o then return f(), t end end end)(2) end *)
Branches ==
  <<Local(<<"n", "a", "b">>, <<N(0)>>),
     While(True,
        <<Set(<<n>>, <<Bin("+", n, N(1))>>),
           If(
              <<Arm(Bin("and", Bin("==", n, N(1)), Un("not", b)), <<emit(<<Str("one")>>)>>),
                 Arm(Bin("==", n, N(2)),
                    <<
                       Repeat(
                          <<Set(<<n>>, <<Bin("+", n, N(1))>>),
                             If(<<Arm(Bin("==", n, N(3)), <<Break>>)>>, << >>)>>,
                           False)>>),
                 Arm(Bin("or", Bin("==", n, N(5)), a),
                    <<Local(<<"a">>, <<n>>),
                       Scope(
                          <<Local(<<"f">>, <<Fun(<< >>, <<Returns(<<a>>)>>)>>),
                             If(<<Arm(Bin("==", Calls(f, << >>), N(5)), <<Break>>)>>, << >>)>>)>>)>>,
              <<emit(<<n>>)>>)>>),
     emit(<<n>>),
     If(
        <<Arm(Nil, <<emit(<<N(6)>>)>>), Arm(False, <<emit(<<N(7)>>)>>),
           Arm(Bin("<", N(1), N(2)), <<emit(<<N(8)>>)>>)>>,
        <<emit(<<N(9)>>)>>),
     Scope(
        <<
           Returns(
              <<n,
                 Calls(
                    Paren(
                       Fun(<<"o">>,
                          <<
                             ForRange("t", <<N(1), N(3)>>,
                                <<
                                   Local(<<"f">>,
                                      <<
                                         Fun(<< >>,
                                            <<Set(<<t>>, <<Bin("+", t, N(1))>>), Returns(<<t>>)>>)>>),
                                   If(
                                      <<Arm(Bin("==", t, o), <<Returns(<<Calls(f, << >>), t>>)>>)>>,
                                      << >>)>>)>>)),
                     <<N(2)>>)>>)>>)>>

(* Shadowed names, globals, calls for every part of an assignment:
   x = 1
   local x = x + 1
   do local x = x + 1; emit(x); x = 9 end
   function inc() g = g + x; return g end
   emit(inc(), inc(), g)
   local function x() return x end
   emit(x == x())
   local t = {}
   local function f(n) emit(n); return n end
   t[f("a")], t[f("b")] = f(1), f(2)
   t.a, t.b = t.b, t.a
   emit(t.a, t.b)
   for n = "1", "2" do emit(n, "") end *)
Shadows ==
  <<Set(<<V("x")>>, <<N(1)>>), Local(<<"x">>, <<Bin("+", V("x"), N(1))>>),
     Scope(
        <<Local(<<"x">>, <<Bin("+", V("x"), N(1))>>), emit(<<V("x")>>), Set(<<V("x")>>, <<N(9)>>)>>),
     Function(<<"inc">>, "",
        Fun(<< >>, <<Set(<<V("g")>>, <<Bin("+", V("g"), V("x"))>>), Returns(<<V("g")>>)>>)),
     emit(<<Calls(V("inc"), << >>), Calls(V("inc"), << >>), V("g")>>),
     LocalFun("x", Fun(<< >>, <<Returns(<<V("x")>>)>>)),
     emit(<<Bin("==", V("x"), Calls(V("x"), << >>))>>), Local(<<"t">>, <<Tab(<< >>)>>),
     LocalFun("f", Fun(<<"n">>, <<emit(<<n>>), Returns(<<n>>)>>)),
     Set(<<Get(t, Calls(f, <<Str("a")>>)), Get(t, Calls(f, <<Str("b")>>))>>,
        <<Calls(f, <<N(1)>>), Calls(f, <<N(2)>>)>>),
     Set(<<Get(t, Str("a")), Get(t, Str("b"))>>, <<Get(t, Str("b")), Get(t, Str("a"))>>),
     emit(<<Get(t, Str("a")), Get(t, Str("b"))>>),
     ForRange("n", <<Str("1"), Str("2")>>, <<emit(<<n, Str("")>>)>>)>>

OtherPrograms ==
  {[body |-> body, args |-> << >>] :
     body \in {Counters, Tails, Constructors, Methods, IndexEvents,
               OperatorEvents, NilRegisters, Branches, Shadows}}

MCPrograms ==
  ConditionPrograms \cup OperationPrograms \cup ListPrograms \cup LoopPrograms
  \cup AssignPrograms \cup OtherPrograms
MCCompiler(p) == LET compiled == Compiled(p) IN compiled
MCReloader(f0) == LET reloaded == Reloaded(f0) IN reloaded
MCGlobalVars == [x \in {"g"} |-> NumV(3)]
=============================================================================
