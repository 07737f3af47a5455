---------------------------- MODULE LuaSemantics ----------------------------
(***************************************************************************)
(* What a Lua program means, from the reference manual rather than from    *)
(* the implementation: the programs as syntax trees, how a tree is written *)
(* down, and an evaluator.                                                 *)
(*                                                                         *)
(* A tree is a record with its kind in field k.  Expressions: nil, true,   *)
(* false, dots; num [n]; str [s]; var [name]; un [op, e]; bin [op, l, r];  *)
(* paren [e]; index [t, key]; call [f, args]; method [o, name, args]; fun  *)
(* [params, dots, usesDots, body]; table [items], where an item is [key,   *)
(* v] with a key of length at most 1.  Statements: local [names, exprs];   *)
(* set [targets, exprs]; do [e] (a call); block [body]; while [c, body];   *)
(* repeat [body, c]; if [arms, orelse]; fornum [name, limits, body]; forin *)
(* [names, exprs, body]; localfun [name, f]; function [path, method, f]    *)
(* ("" for no method); return [exprs]; break.  usesDots tells whether      *)
(* `...' occurs in the body of a function.                                 *)
(*                                                                         *)
(* Where the manual leaves an order open, the evaluator takes the one of   *)
(* the code: operands and arguments from left to right, the assignments of *)
(* one statement from right to left.                                       *)
(***************************************************************************)
EXTENDS Integers, Sequences, SequencesExt, TLC

FlattenAll(seqs) == FoldLeft(LAMBDA a, b : a \o b, << >>, seqs)
Separated(seqs, sep) ==
  FlattenAll([i \in DOMAIN seqs |-> IF i = 1 THEN seqs[i] ELSE <<sep>> \o seqs[i]])

-----------------------------------------------------------------------------
\* Writing a program down, with no more parentheses than the precedence of
\* the operators asks for (manual, 2.5.6).

Level(op) ==
  CASE op = "or" -> 1
    [] op = "and" -> 2
    [] op \in {"<", ">", "<=", ">=", "~=", "=="} -> 3
    [] op = ".." -> 4
    [] op \in {"+", "-"} -> 5
    [] op \in {"*", "/", "%"} -> 6
    [] op = "^" -> 8
UnaryLevel == 7
RightAssociative == {"..", "^"}

Names(names) == Separated([i \in DOMAIN names |-> << <<"NAME", names[i]>> >>], <<",">>)

RECURSIVE Text(_), TextAt(_, _, _), BodyText(_), StatText(_)

\* Operand e of an operator of a level; tight when one of that very level
\* would go to the other side.
TextAt(e, level, tight) ==
  LET own == IF e.k = "bin" THEN Level(e.op) ELSE IF e.k = "un" THEN UnaryLevel ELSE 9
  IN  IF own < level \/ (own = level /\ tight) THEN << <<"(">> >> \o Text(e) \o << <<")">> >>
      ELSE Text(e)

Texts(es) == Separated([i \in DOMAIN es |-> Text(es[i])], <<",">>)
Args(es) == << <<"(">> >> \o Texts(es) \o << <<")">> >>
PrefixText(e) ==
  IF e.k \in {"var", "index", "call", "method", "paren"} THEN Text(e)
  ELSE << <<"(">> >> \o Text(e) \o << <<")">> >>
FunText(f) ==
  << <<"(">> >> \o Names(f.params)
  \o (IF f.dots THEN (IF f.params = << >> THEN << >> ELSE << <<",">> >>) \o << <<"...">> >> ELSE << >>)
  \o << <<")">> >> \o BodyText(f.body) \o << <<"end">> >>
IsName(e) == e.k = "str"
ItemText(i) ==
  IF i.key = << >> THEN Text(i.v)
  ELSE (IF IsName(i.key[1]) THEN << <<"NAME", i.key[1].s>> >>
        ELSE << <<"[">> >> \o Text(i.key[1]) \o << <<"]">> >>) \o << <<"=">> >> \o Text(i.v)

Text(e) ==
  CASE e.k \in {"nil", "true", "false"} -> << <<e.k>> >>
    [] e.k = "dots" -> << <<"...">> >>
    [] e.k = "num" -> << <<"NUMBER", e.n>> >>
    [] e.k = "str" -> << <<"STRING", e.s>> >>
    [] e.k = "var" -> << <<"NAME", e.name>> >>
    [] e.k = "un" -> << <<e.op>> >> \o TextAt(e.e, UnaryLevel, FALSE)
    [] e.k = "bin" ->
         TextAt(e.l, Level(e.op), e.op \in RightAssociative) \o << <<e.op>> >>
         \o (IF e.r.k = "un" THEN Text(e.r)
             ELSE TextAt(e.r, Level(e.op), e.op \notin RightAssociative))
    [] e.k = "paren" -> << <<"(">> >> \o Text(e.e) \o << <<")">> >>
    [] e.k = "index" ->
         PrefixText(e.t) \o (IF IsName(e.key) THEN << <<".">>, <<"NAME", e.key.s>> >>
                             ELSE << <<"[">> >> \o Text(e.key) \o << <<"]">> >>)
    [] e.k = "call" ->
         PrefixText(e.f) \o (IF Len(e.args) = 1 /\ e.args[1].k \in {"str", "table"}
                             THEN Text(e.args[1]) ELSE Args(e.args))
    [] e.k = "method" ->
         PrefixText(e.o) \o << <<":">>, <<"NAME", e.name>> >> \o Args(e.args)
    [] e.k = "fun" -> << <<"function">> >> \o FunText(e)
    [] e.k = "table" ->
         << <<"{">> >> \o Separated([i \in DOMAIN e.items |-> ItemText(e.items[i])], <<",">>)
         \o << <<"}">> >>

StatText(s) ==
  CASE s.k = "local" ->
         << <<"local">> >> \o Names(s.names)
         \o (IF s.exprs = << >> THEN << >> ELSE << <<"=">> >> \o Texts(s.exprs)) \o << <<";">> >>
    [] s.k = "set" -> Texts(s.targets) \o << <<"=">> >> \o Texts(s.exprs) \o << <<";">> >>
    [] s.k = "do" -> Text(s.e) \o << <<";">> >>
    [] s.k = "block" -> << <<"do">> >> \o BodyText(s.body) \o << <<"end">> >>
    [] s.k = "while" ->
         << <<"while">> >> \o Text(s.c) \o << <<"do">> >> \o BodyText(s.body) \o << <<"end">> >>
    [] s.k = "repeat" -> << <<"repeat">> >> \o BodyText(s.body) \o << <<"until">> >> \o Text(s.c)
    [] s.k = "if" ->
         FlattenAll([i \in DOMAIN s.arms |->
            << <<IF i = 1 THEN "if" ELSE "elseif">> >> \o Text(s.arms[i].c) \o << <<"then">> >>
            \o BodyText(s.arms[i].body)])
         \o (IF s.orelse = << >> THEN << >> ELSE << <<"else">> >> \o BodyText(s.orelse))
         \o << <<"end">> >>
    [] s.k = "fornum" ->
         << <<"for">>, <<"NAME", s.name>>, <<"=">> >> \o Texts(s.limits)
         \o << <<"do">> >> \o BodyText(s.body) \o << <<"end">> >>
    [] s.k = "forin" ->
         << <<"for">> >> \o Names(s.names) \o << <<"in">> >> \o Texts(s.exprs)
         \o << <<"do">> >> \o BodyText(s.body) \o << <<"end">> >>
    [] s.k = "localfun" ->
         << <<"local">>, <<"function">>, <<"NAME", s.name>> >> \o FunText(s.f)
    [] s.k = "function" ->
         << <<"function">> >>
         \o Separated([i \in DOMAIN s.path |-> << <<"NAME", s.path[i]>> >>], <<".">>)
         \o (IF s.method = "" THEN << >> ELSE << <<":">>, <<"NAME", s.method>> >>) \o FunText(s.f)
    [] s.k = "return" -> << <<"return">> >> \o Texts(s.exprs)
    [] s.k = "break" -> << <<"break">> >>

BodyText(body) == FlattenAll([i \in DOMAIN body |-> StatText(body[i])])

ProgramText(body) == BodyText(body) \o << <<"EOS">> >>

-----------------------------------------------------------------------------
\* Meaning.  The store st holds the variables (cells), the closures, the
\* tables, the globals and the trace; env gives the cell of each local
\* variable in scope and the extra arguments.  Expressions return the store
\* and the list vs of their values.

Nil == <<"nil", 0>>
Bool(b) == <<"bool", IF b THEN 1 ELSE 0>>
Num(n) == <<"num", n>>
Str(s) == <<"str", s>>
Truth(v) == v \notin {Nil, Bool(FALSE)}
Table(v) == v[1] = "tab"
First(vs) == IF vs = << >> THEN Nil ELSE vs[1]
Value(vs, i) == IF i \in DOMAIN vs THEN vs[i] ELSE Nil

Declare(env, st, names, vs) ==     \* new local variables
  LET n == Len(names)
  IN  [env |-> [env EXCEPT !.vars =
                  [x \in DOMAIN @ \cup ToSet(names) |->
                     IF x \in ToSet(names) THEN Len(st.cells) + Max({i \in 1..n : names[i] = x})
                     ELSE @[x]]],
       st |-> [st EXCEPT !.cells = @ \o [i \in 1..n |-> Value(vs, i)]]]

Handler(st, v, event) ==
  LET mt == IF Table(v) THEN st.tabs[v[2]].meta ELSE 0
  IN  IF mt = 0 THEN Nil
      ELSE IF Str(event) \in DOMAIN st.tabs[mt].map THEN st.tabs[mt].map[Str(event)] ELSE Nil
IsFunction(v) == v[1] \in {"fun", "cfun"}

IsNumeralStr(v) == v[1] = "str" /\ \E n \in 0..99 : ToString(n) = v[2]
Numeric(v) == v[1] = "num" \/ IsNumeralStr(v)
AsNum(v) == IF v[1] = "num" THEN v[2] ELSE CHOOSE n \in 0..99 : ToString(n) = v[2]
AsStr(v) == IF v[1] = "num" THEN ToString(v[2]) ELSE v[2]

Event(op) ==
  CASE op = "+" -> "__add" [] op = "-" -> "__sub" [] op = "*" -> "__mul" [] op = "/" -> "__div"
    [] op = "%" -> "__mod" [] op = "^" -> "__pow" [] op = ".." -> "__concat"
Compute(op, x, y) ==
  CASE op = "+" -> x + y [] op = "-" -> x - y [] op = "*" -> x * y [] op = "/" -> x \div y
    [] op = "%" -> x % y [] op = "^" -> x ^ y

Ret1(st, v) == [st |-> st, vs |-> <<v>>]

RECURSIVE Eval(_, _, _), EvalList(_, _, _), Apply(_, _, _), Index(_, _, _), Assign(_, _, _, _),
          Binary(_, _, _, _), Run(_, _, _), RunStat(_, _, _), RunLoop(_, _, _),
          EvalItems(_, _, _, _, _), RunFor(_, _, _, _, _, _), RunForIn(_, _, _, _, _, _)

\* Calls: host functions, closures, and values with __call.
HostCall(st, name, args) ==
  CASE name = "emit" ->
         [st |-> [st EXCEPT !.trace = Append(@, [i \in DOMAIN args |->
                    IF args[i][1] \in {"fun", "cfun", "tab"} THEN <<args[i][1], 0>> ELSE args[i]])],
          vs |-> << >>]
    [] name = "two" -> [st |-> st, vs |-> <<Num(1), Num(2)>>]
    [] name = "iter" ->
         [st |-> st, vs |-> IF args[2][2] < args[1][2] THEN <<Num(args[2][2] + 1), Num(7)>> ELSE <<Nil>>]
    [] name = "setmetatable" ->
         [st |-> [st EXCEPT !.tabs[args[1][2]].meta = args[2][2]], vs |-> <<args[1]>>]
Apply(st, f, args) ==
  LET c == st.funs[f[2]]
      extra == SubSeq(args, Len(c.f.params) + 1, Len(args))
      \* a vararg function that does not use `...' has the table arg
      argTab == [map |-> [x \in {Num(i) : i \in DOMAIN extra} \cup {Str("n")} |->
                            IF x = Str("n") THEN Num(Len(extra)) ELSE extra[x[2]]], meta |-> 0]
      oldStyle == c.f.dots /\ ~c.f.usesDots
      st1 == IF oldStyle THEN [st EXCEPT !.tabs = Append(@, argTab)] ELSE st
      d == Declare([c.env EXCEPT !.va = IF c.f.dots THEN extra ELSE << >>], st1,
                   c.f.params \o (IF oldStyle THEN <<"arg">> ELSE << >>),
                   [i \in DOMAIN c.f.params |-> Value(args, i)]
                   \o (IF oldStyle THEN <<<<"tab", Len(st1.tabs)>>>> ELSE << >>))
      r == Run(c.f.body, d.env, d.st)
  IN  CASE f[1] = "cfun" -> HostCall(st, f[2], args)
        [] f[1] = "fun" -> [st |-> r.st, vs |-> r.vs]
        [] OTHER -> Apply(st, Handler(st, f, "__call"), <<f>> \o args)
Apply1(st, f, args) == LET r == Apply(st, f, args) IN Ret1(r.st, First(r.vs))

Index(st, t, key) ==
  LET map == st.tabs[t[2]].map
      h == Handler(st, t, "__index")
  IN  IF key \in DOMAIN map THEN Ret1(st, map[key])
      ELSE IF h = Nil THEN Ret1(st, Nil)
      ELSE IF IsFunction(h) THEN Apply1(st, h, <<t, key>>)
      ELSE Index(st, h, key)
Assign(st, t, key, v) ==
  LET map == st.tabs[t[2]].map
      h == Handler(st, t, "__newindex")
      keys == IF v = Nil THEN DOMAIN map \ {key} ELSE DOMAIN map \cup {key}
  IN  IF key \in DOMAIN map \/ h = Nil
      THEN [st EXCEPT !.tabs[t[2]].map = [x \in keys |-> IF x = key THEN v ELSE map[x]]]
      ELSE IF IsFunction(h) THEN Apply(st, h, <<t, key, v>>).st
      ELSE Assign(st, h, key, v)

\* Operators (manual, 2.5 and 2.8).
Either(st, x, y, event) == IF Handler(st, x, event) # Nil THEN Handler(st, x, event) ELSE Handler(st, y, event)
Binary(st, op, x, y) ==
  LET eq == Handler(st, x, "__eq")
      called == Apply1(st, eq, <<x, y>>)
      lt == Apply1(st, Handler(st, x, "__lt"), <<x, y>>)
      le == Apply1(st, Handler(st, x, "__le"), <<x, y>>)
      gt == Apply1(st, Handler(st, y, "__lt"), <<y, x>>)
  IN  CASE op \in {"+", "-", "*", "/", "%", "^"} ->
             IF Numeric(x) /\ Numeric(y) THEN Ret1(st, Num(Compute(op, AsNum(x), AsNum(y))))
             ELSE Apply1(st, Either(st, x, y, Event(op)), <<x, y>>)
        [] op = ".." -> IF {x[1], y[1]} \subseteq {"num", "str"} THEN Ret1(st, Str(AsStr(x) \o AsStr(y)))
                        ELSE Apply1(st, Either(st, x, y, "__concat"), <<x, y>>)
        [] op = "==" -> IF x # y /\ Table(x) /\ Table(y) /\ eq # Nil /\ eq = Handler(st, y, "__eq")
                        THEN Ret1(called.st, Bool(Truth(First(called.vs)))) ELSE Ret1(st, Bool(x = y))
        [] op = "~=" -> LET r == Binary(st, "==", x, y) IN Ret1(r.st, Bool(~Truth(First(r.vs))))
        [] op = "<" -> IF ~Table(x) THEN Ret1(st, Bool(x[2] < y[2]))
                       ELSE Ret1(lt.st, Bool(Truth(First(lt.vs))))
        [] op = "<=" -> IF ~Table(x) THEN Ret1(st, Bool(x[2] <= y[2]))
                        ELSE IF Handler(st, x, "__le") # Nil THEN Ret1(le.st, Bool(Truth(First(le.vs))))
                        ELSE Ret1(gt.st, Bool(~Truth(First(gt.vs))))
        [] op = ">" -> Binary(st, "<", y, x)
        [] op = ">=" -> Binary(st, "<=", y, x)

Unary(st, op, x) ==
  CASE op = "not" -> Ret1(st, Bool(~Truth(x)))
    [] op = "-" -> IF Numeric(x) THEN Ret1(st, Num(-AsNum(x)))
                   ELSE Apply1(st, Handler(st, x, "__unm"), <<x, x>>)
    [] op = "#" -> IF Table(x)
                   THEN Ret1(st, Num(CHOOSE n \in 0..Cardinality(DOMAIN st.tabs[x[2]].map) :
                               /\ Num(n + 1) \notin DOMAIN st.tabs[x[2]].map
                               /\ \A i \in 1..n : Num(i) \in DOMAIN st.tabs[x[2]].map))
                   ELSE Ret1(st, Num(Len(x[2])))

\* The items of a constructor; n counts those without a key.
EvalItems(items, env, st, tab, n) ==
  LET i == Head(items)
      key == Eval(i.key[1], env, st)
      keyed == Eval(i.v, env, key.st)
      put(s, k, v) == Assign(s, tab, k, v)
      v == Eval(i.v, env, st)
      vs == IF Tail(items) = << >> THEN v.vs ELSE <<First(v.vs)>>
  IN  IF items = << >> THEN st
      ELSE IF i.key # << >>
      THEN EvalItems(Tail(items), env, put(keyed.st, First(key.vs), First(keyed.vs)), tab, n)
      ELSE EvalItems(Tail(items), env,
                     FoldLeft(LAMBDA s, j : put(s, Num(n + j), vs[j]), v.st, [j \in DOMAIN vs |-> j]),
                     tab, n + Len(vs))

EvalList(es, env, st) ==
  LET r == Eval(Head(es), env, st)
      rest == EvalList(Tail(es), env, r.st)
  IN  IF es = << >> THEN [st |-> st, vs |-> << >>]
      ELSE IF Tail(es) = << >> THEN r
      ELSE [st |-> rest.st, vs |-> <<First(r.vs)>> \o rest.vs]

Eval(e, env, st) ==
  LET l == Eval(e.l, env, st)
      r == Eval(e.r, env, l.st)
      one == Eval(e.e, env, st)
      t == Eval(e.t, env, st)
      key == Eval(e.key, env, t.st)
      f == Eval(e.f, env, st)
      args == EvalList(e.args, env, f.st)
      o == Eval(e.o, env, st)
      m == Index(o.st, First(o.vs), Str(e.name))
      margs == EvalList(e.args, env, m.st)
  IN  CASE e.k = "nil" -> Ret1(st, Nil)
        [] e.k = "true" -> Ret1(st, Bool(TRUE))
        [] e.k = "false" -> Ret1(st, Bool(FALSE))
        [] e.k = "num" -> Ret1(st, Num(e.n))
        [] e.k = "str" -> Ret1(st, Str(e.s))
        [] e.k = "dots" -> [st |-> st, vs |-> env.va]
        [] e.k = "var" -> Ret1(st, IF e.name \in DOMAIN env.vars THEN st.cells[env.vars[e.name]]
                                   ELSE IF e.name \in DOMAIN st.globals THEN st.globals[e.name] ELSE Nil)
        [] e.k = "paren" -> Ret1(one.st, First(one.vs))
        [] e.k = "un" -> Unary(one.st, e.op, First(one.vs))
        [] e.k = "bin" /\ e.op \in {"and", "or"} ->
             IF Truth(First(l.vs)) = (e.op = "and") THEN Ret1(r.st, First(r.vs))
             ELSE Ret1(l.st, First(l.vs))
        [] e.k = "bin" /\ e.op \notin {"and", "or"} -> Binary(r.st, e.op, First(l.vs), First(r.vs))
        [] e.k = "index" -> Index(key.st, First(t.vs), First(key.vs))
        [] e.k = "call" -> Apply(args.st, First(f.vs), args.vs)
        [] e.k = "method" -> Apply(margs.st, First(m.vs), <<First(o.vs)>> \o margs.vs)
        [] e.k = "fun" -> Ret1([st EXCEPT !.funs = Append(@, [f |-> e, env |-> env])],
                               <<"fun", Len(st.funs) + 1>>)
        [] e.k = "table" ->
             LET new == [st EXCEPT !.tabs = Append(@, [map |-> << >>, meta |-> 0])]
                 tab == <<"tab", Len(new.tabs)>>
             IN  Ret1(EvalItems(e.items, env, new, tab, 0), tab)

-----------------------------------------------------------------------------
\* Statements return how they end (sig: go, break or return), the store, the
\* values returned and the environment of the statements after them.

Went(st, env) == [sig |-> "go", st |-> st, vs |-> << >>, env |-> env]

Run(body, env, st) ==
  LET r == RunStat(Head(body), env, st)
  IN  IF body = << >> THEN Went(st, env)
      ELSE IF r.sig # "go" THEN r ELSE Run(Tail(body), r.env, r.st)

Scope(r, env) == [r EXCEPT !.env = env]           \* the names declared inside are gone
AfterLoop(r, env) == [r EXCEPT !.sig = IF @ = "break" THEN "go" ELSE @, !.env = env]

\* while and repeat: c is evaluated before or after the body, in whose scope
\* the condition of repeat is.
RunLoop(s, env, st) ==
  LET c == Eval(s.c, env, st)
      b == Run(s.body, env, IF s.k = "while" THEN c.st ELSE st)
      until == Eval(s.c, b.env, b.st)
  IN  IF s.k = "while" /\ ~Truth(First(c.vs)) THEN Went(c.st, env)
      ELSE IF b.sig # "go" THEN AfterLoop(b, env)
      ELSE IF s.k = "while" THEN RunLoop(s, env, b.st)
      ELSE IF Truth(First(until.vs)) THEN Went(until.st, env) ELSE RunLoop(s, env, until.st)

RunFor(s, env, st, i, limit, step) ==
  LET d == Declare(env, st, <<s.name>>, <<Num(i)>>)
      b == Run(s.body, d.env, d.st)
  IN  IF IF step > 0 THEN i > limit ELSE i < limit THEN Went(st, env)
      ELSE IF b.sig # "go" THEN AfterLoop(b, env)
      ELSE RunFor(s, env, b.st, i + step, limit, step)

RunForIn(s, env, st, f, state, control) ==
  LET r == Apply(st, f, <<state, control>>)
      d == Declare(env, r.st, s.names, r.vs)
      b == Run(s.body, d.env, d.st)
  IN  IF First(r.vs) = Nil THEN Went(r.st, env)
      ELSE IF b.sig # "go" THEN AfterLoop(b, env)
      ELSE RunForIn(s, env, b.st, f, state, First(r.vs))

\* A target of an assignment: a variable, or a table and a key.
EvalTarget(e, env, st) ==
  LET t == Eval(e.t, env, st)
      key == Eval(e.key, env, t.st)
  IN  IF e.k = "var" THEN [st |-> st, t |-> Nil, key |-> Nil]
      ELSE [st |-> key.st, t |-> First(t.vs), key |-> First(key.vs)]
AssignTo(e, place, env, st, v) ==
  IF e.k = "index" THEN Assign(st, place.t, place.key, v)
  ELSE IF e.name \in DOMAIN env.vars THEN [st EXCEPT !.cells[env.vars[e.name]] = v]
  ELSE [st EXCEPT !.globals = (e.name :> v) @@ @]

RunSet(s, env, st) ==
  LET places == FoldLeft(LAMBDA r, e : LET p == EvalTarget(e, env, r.st)
                                       IN [st |-> p.st, ps |-> Append(r.ps, p)],
                         [st |-> st, ps |-> << >>], s.targets)
      list == EvalList(s.exprs, env, places.st)
      n == Len(s.targets)
  IN  FoldLeft(LAMBDA st1, i : AssignTo(s.targets[i], places.ps[i], env, st1, Value(list.vs, i)),
               list.st, [j \in 1..n |-> n + 1 - j])

RECURSIVE RunArms(_, _, _, _)
RunArms(arms, orelse, env, st) ==
  LET c == Eval(Head(arms).c, env, st)
  IN  IF arms = << >> THEN Scope(Run(orelse, env, st), env)
      ELSE IF Truth(First(c.vs)) THEN Scope(Run(Head(arms).body, env, c.st), env)
      ELSE RunArms(Tail(arms), orelse, env, c.st)

RunStat(s, env, st) ==
  LET list == EvalList(s.exprs, env, st)
      lims == EvalList(s.limits, env, st)
      d == Declare(env, list.st, s.names, list.vs)
      own == Declare(env, st, <<s.name>>, << >>)
      made == Eval(s.f, own.env, own.st)
      self == [s.f EXCEPT !.params = IF s.method = "" THEN @ ELSE <<"self">> \o @]
      f == Eval(self, env, st)
      last == [k |-> "str", s |-> IF s.method = "" THEN Last(s.path) ELSE s.method]
      owner == IF s.method = "" THEN Front(s.path) ELSE s.path
      object == FoldLeft(LAMBDA e, n : [k |-> "index", t |-> e, key |-> [k |-> "str", s |-> n]],
                         [k |-> "var", name |-> Head(owner)], Tail(owner))
      target == IF owner = << >> THEN [k |-> "var", name |-> last.s]
                ELSE [k |-> "index", t |-> object, key |-> last]
  IN  CASE s.k = "local" -> Went(d.st, d.env)
        [] s.k = "set" -> Went(RunSet(s, env, st), env)
        [] s.k = "do" -> Went(Eval(s.e, env, st).st, env)
        [] s.k = "block" -> Scope(Run(s.body, env, st), env)
        [] s.k \in {"while", "repeat"} -> RunLoop(s, env, st)
        [] s.k = "if" -> RunArms(s.arms, s.orelse, env, st)
        [] s.k = "fornum" ->
             RunFor(s, env, lims.st, AsNum(lims.vs[1]), AsNum(lims.vs[2]),
                    IF Len(lims.vs) = 3 THEN AsNum(lims.vs[3]) ELSE 1)
        [] s.k = "forin" ->
             RunForIn(s, env, list.st, Value(list.vs, 1), Value(list.vs, 2), Value(list.vs, 3))
        [] s.k = "localfun" ->
             Went([made.st EXCEPT !.cells[own.env.vars[s.name]] = First(made.vs)], own.env)
        [] s.k = "function" ->
             LET place == EvalTarget(target, env, f.st)
             IN  Went(AssignTo(target, place, env, place.st, First(f.vs)), env)
        [] s.k = "return" -> [sig |-> "return", st |-> list.st, vs |-> list.vs, env |-> env]
        [] s.k = "break" -> [sig |-> "break", st |-> st, vs |-> << >>, env |-> env]

\* What the main function, called with args, shows and returns.
Meaning(body, args, globals) ==
  LET r == Run(body, [vars |-> << >>, va |-> args],
               [cells |-> << >>, funs |-> << >>, tabs |-> << >>, globals |-> globals, trace |-> << >>])
  IN  [trace |-> r.st.trace, results |-> r.vs]
=============================================================================
