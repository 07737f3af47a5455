----------------------------- MODULE LuaParser -----------------------------
(***************************************************************************)
(* The parser of Lua, lua-5.1.5/src/lparser.c: one operator per production,*)
(* which reads tokens and emits code with the operators of LuaCode.        *)
(*                                                                         *)
(* fs is the FuncState of the innermost function, with its Proto, the      *)
(* input that is left (fs->ls) in fs.in and the enclosing FuncState in     *)
(* fs.prev (empty for the main function).  A token is a tuple: its type    *)
(* and, for NAME, NUMBER and STRING, its value.  Statements take fs and    *)
(* return it; expressions return the pair [fs, e] of LuaCode.              *)
(*                                                                         *)
(* Line numbers are left out, and so are syntax errors: only programs that *)
(* follow the grammar are compiled, and a token that is not the one the    *)
(* production expects clears fs.ok.                                        *)
(***************************************************************************)
EXTENDS LuaCode

Tok(fs) == Head(fs.in)[1]
TokValue(fs) == Head(fs.in)[2]
NextTok(fs) == [fs EXCEPT !.in = Tail(@)]
CheckNext(fs, tok) == NextTok(Asserted(fs, Tok(fs) = tok))

-----------------------------------------------------------------------------
\* Local variables and upvalues.

\* new_localvar: the n-th of the variables that are about to become active.
NewLocalVar(fs, name, n) ==
  [fs EXCEPT !.locvars = Append(@, [name |-> name, startpc |-> 0, endpc |-> 0]),
             !.actvar = Append(SubSeq(@, 1, fs.nactvar + n), Len(fs.locvars) + 1)]

AdjustLocalVars(fs, nvars) ==
  LET new == {fs.actvar[i] : i \in (fs.nactvar + 1)..(fs.nactvar + nvars)}
  IN  [fs EXCEPT !.nactvar = @ + nvars,
                 !.locvars = [i \in DOMAIN @ |-> IF i \in new THEN [@[i] EXCEPT !.startpc = Pc(fs)]
                                                              ELSE @[i]]]

RemoveVars(fs, tolevel) ==
  LET old == {fs.actvar[i] : i \in (tolevel + 1)..fs.nactvar}
  IN  [fs EXCEPT !.nactvar = tolevel,
                 !.locvars = [i \in DOMAIN @ |-> IF i \in old THEN [@[i] EXCEPT !.endpc = Pc(fs)]
                                                              ELSE @[i]]]

\* searchvar: the innermost variable of that name, or -1.
SearchVar(fs, n) ==
  LET found == {i \in 0..(fs.nactvar - 1) : fs.locvars[fs.actvar[i + 1]].name = n}
  IN  IF found = {} THEN -1 ELSE Max(found)

\* Mutant: the innermost block is marked.
MarkUpvalInnermost(fs, level) ==
  IF fs.bl = << >> THEN fs ELSE [fs EXCEPT !.bl[Len(fs.bl)].upval = TRUE]
\* markupval: the block that declares the variable needs an OP_CLOSE.
MarkUpval(fs, level) ==
  LET inside == {b \in DOMAIN fs.bl : fs.bl[b].nactvar <= level}
  IN  IF inside = {} THEN fs ELSE [fs EXCEPT !.bl[Max(inside)].upval = TRUE]

\* indexupvalue: returns fs and the index.
IndexUpvalue(fs, e) ==
  LET u == [k |-> e.k, info |-> e.info]
  IN  IF u \in ToSet(fs.upvalues)
      THEN [fs |-> fs, i |-> (CHOOSE j \in DOMAIN fs.upvalues : fs.upvalues[j] = u) - 1]
      ELSE [fs |-> [fs EXCEPT !.upvalues = Append(@, u)], i |-> Len(fs.upvalues)]

RECURSIVE SingleVarAux(_, _, _)
SingleVarAux(fs, n, base) ==
  LET v == SearchVar(fs, n)
      up == SingleVarAux(fs.prev[1], n, FALSE)
      here == [fs EXCEPT !.prev = <<up.fs>>]
      i == IndexUpvalue(here, up.e)
  IN  IF v >= 0
      THEN [fs |-> IF base THEN fs ELSE MarkUpval(fs, v), e |-> Exp("VLOCAL", v)]
      ELSE IF fs.prev = << >> THEN [fs |-> fs, e |-> Exp("VGLOBAL", NoReg)]
      ELSE IF up.e.k = "VGLOBAL" THEN [fs |-> here, e |-> up.e]
      ELSE [fs |-> i.fs, e |-> Exp("VUPVAL", i.i)]

CodeString(fs, s) == LET a == AddK(fs, StrV(s)) IN [fs |-> a.fs, e |-> Exp("VK", a.i)]

\* checkname, which reads the name as a string
CheckName(fs) == CodeString(NextTok(Asserted(fs, Tok(fs) = "NAME")), TokValue(fs))

SingleVar(fs) ==
  LET v == SingleVarAux(NextTok(Asserted(fs, Tok(fs) = "NAME")), TokValue(fs), TRUE)
      a == AddK(v.fs, StrV(TokValue(fs)))
  IN  IF v.e.k = "VGLOBAL" THEN [fs |-> a.fs, e |-> Exp("VGLOBAL", a.i)] ELSE v

\* adjust_assign: nexps values for nvars variables; e is the last one.
AdjustAssign(fs, nvars, nexps, e) ==
  LET r == [fs |-> fs, e |-> e]
      extra == nvars - nexps
      wanted == IF extra + 1 < 0 THEN 0 ELSE extra + 1
      open == SetReturns(r, wanted).fs
      closed == IF e.k # "VVOID" THEN Exp2NextReg(r).fs ELSE fs
  IN  CASE HasMultRet(e.k) -> IF wanted > 1 THEN ReserveRegs(open, wanted - 1) ELSE open
        [] ~HasMultRet(e.k) /\ extra > 0 ->
             LoadNil(ReserveRegs(closed, extra), closed.freereg, extra)
        [] OTHER -> closed

-----------------------------------------------------------------------------
\* Blocks.

EnterBlock(fs, isbreakable) ==
  [Asserted(fs, fs.freereg = fs.nactvar) EXCEPT
     !.bl = Append(@, [breaklist |-> NoJump, isbreakable |-> isbreakable,
                       nactvar |-> fs.nactvar, upval |-> FALSE])]

LeaveBlock(fs) ==
  LET bl == Last(fs.bl)
      out == RemoveVars([fs EXCEPT !.bl = Front(@)], bl.nactvar)
      closed == IF bl.upval THEN CodeABC(out, "CLOSE", bl.nactvar, 0, 0) ELSE out
      freed == [Asserted(closed, ~bl.isbreakable \/ ~bl.upval) EXCEPT !.freereg = closed.nactvar]
  IN  PatchToHere(freed, bl.breaklist)

-----------------------------------------------------------------------------
\* Functions.

OpenFunc(in, prev) ==
  [code |-> << >>, k |-> << >>, p |-> << >>, jpc |-> NoJump, lasttarget |-> 0,
   freereg |-> 0, nactvar |-> 0, actvar |-> << >>, locvars |-> << >>,
   upvalues |-> << >>, bl |-> << >>, maxstacksize |-> 2, is_vararg |-> {},
   numparams |-> 0, ok |-> TRUE, in |-> in, prev |-> prev]

\* close_func: the Proto.
ProtoOf(fs) ==
  LET f == Ret(RemoveVars(fs, 0), 0, 0)
  IN  [code |-> f.code, k |-> f.k, p |-> f.p, nups |-> Len(f.upvalues),
       numparams |-> f.numparams, is_vararg |-> f.is_vararg,
       maxstacksize |-> f.maxstacksize, locvars |-> f.locvars]

\* pushclosure: the pseudo-instructions after OP_CLOSURE say where each
\* upvalue comes from.
PushClosure(fs, func) ==
  LET c == CodeABx([fs EXCEPT !.p = Append(@, ProtoOf(func))], "CLOSURE", 0, Len(fs.p))
      capture(f, u) ==
        CodeABC(f, IF u.k = "VLOCAL" THEN "MOVE" ELSE "GETUPVAL", 0, u.info, 0)
  IN  [fs |-> FoldLeft(capture, c, func.upvalues), e |-> Exp("VRELOCABLE", Len(c.code))]

RECURSIVE ParList(_, _)
ParList(fs, nparams) ==
  LET named == NewLocalVar(NextTok(fs), TokValue(fs), nparams)
      dots == [NewLocalVar(NextTok(fs), "arg", nparams) EXCEPT
                 !.is_vararg = {"HASARG", "NEEDSARG", "ISVARARG"}]
      full == AdjustLocalVars(fs, nparams)
  IN  CASE Tok(fs) = "NAME" -> ParList(named, nparams + 1)
        [] Tok(fs) = "," -> ParList(NextTok(fs), nparams)
        [] Tok(fs) = "..." -> ParList(dots, nparams + 1)
        [] OTHER -> ReserveRegs([full EXCEPT !.numparams =
                                   full.nactvar - (IF "HASARG" \in full.is_vararg THEN 1 ELSE 0)],
                                full.nactvar)

-----------------------------------------------------------------------------
\* Expressions.

Priority(op) ==    \* left and right priorities of the binary operators
  CASE op \in {"+", "-"} -> <<6, 6>>
    [] op \in {"*", "/", "%"} -> <<7, 7>>
    [] op = "^" -> <<10, 9>>
    [] op = ".." -> <<5, 4>>
    [] op \in {"==", "~=", "<", "<=", ">", ">="} -> <<3, 3>>
    [] op = "and" -> <<2, 2>>
    [] op = "or" -> <<1, 1>>
    [] OTHER -> <<0, 0>>       \* not a binary operator
UnaryPriority == 8
UnaryOps == {"not", "-", "#"}

BlockFollow == {"else", "elseif", "end", "until", "EOS"}

RECURSIVE Chunk(_), Body(_, _), SubExpr(_, _), SubExprRest(_, _), ConsItems(_, _),
          PrimaryRest(_), ExpList(_, _)

Expr(fs) == SubExpr(fs, 0)

\* explist1: the values but the last in registers; n counts them.
ExpList(r, n) ==
  LET e == Expr(NextTok(Exp2NextReg(r).fs))
  IN  IF Tok(r.fs) = "," THEN ExpList(e, n + 1) ELSE [fs |-> r.fs, e |-> r.e, n |-> n]
ExpList1(fs) == ExpList(Expr(fs), 1)

\* field: `.' NAME or `:' NAME after v.
Field(r) ==
  LET any == Exp2AnyReg(r)
      key == CheckName(NextTok(any.fs))
  IN  Indexed([fs |-> key.fs, e |-> any.e], key.e)

\* yindex: `[' expr `]'.
YIndex(fs) ==
  LET v == Exp2Val(Expr(NextTok(fs))) IN [v EXCEPT !.fs = CheckNext(@, "]")]

\* cc: the constructor under way (struct ConsControl); t is its register.
RecField(fs, cc) ==
  LET key == IF Tok(fs) = "NAME" THEN CheckName(fs) ELSE YIndex(fs)
      rkkey == Exp2RK([key EXCEPT !.fs = CheckNext(@, "=")])
      val == Exp2RK(Expr(rkkey.fs))
  IN  [fs |-> [CodeABC(val.fs, "SETTABLE", cc.t, rkkey.rk, val.rk) EXCEPT !.freereg = fs.freereg],
       cc |-> [cc EXCEPT !.nh = @ + 1]]

CloseListField(fs, cc) ==
  LET next == Exp2NextReg([fs |-> fs, e |-> cc.v]).fs
      full == cc.tostore = FieldsPerFlush
  IN  IF cc.v.k = "VVOID" THEN [fs |-> fs, cc |-> cc]
      ELSE [fs |-> IF full THEN SetListCode(next, cc.t, cc.na, cc.tostore) ELSE next,
            cc |-> [cc EXCEPT !.v = VoidExp, !.tostore = IF full THEN 0 ELSE @]]

LastListField(fs, cc) ==
  LET r == [fs |-> fs, e |-> cc.v]
      last == IF cc.v.k = "VVOID" THEN fs ELSE Exp2NextReg(r).fs
  IN  IF cc.tostore = 0 THEN fs
      ELSE IF HasMultRet(cc.v.k) THEN SetListCode(SetMultRet(r).fs, cc.t, cc.na, MultRet)
      ELSE SetListCode(last, cc.t, cc.na, cc.tostore)

ListField(fs, cc) ==
  LET v == Expr(fs)
  IN  [fs |-> v.fs, cc |-> [cc EXCEPT !.v = v.e, !.na = @ + 1, !.tostore = @ + 1]]

ConsItems(fs, cc) ==
  LET c == CloseListField(Asserted(fs, cc.v.k = "VVOID" \/ cc.tostore > 0), cc)
      isRec == Tok(fs) = "[" \/ (Tok(fs) = "NAME" /\ fs.in[2][1] = "=")
      item == IF isRec THEN RecField(c.fs, c.cc) ELSE ListField(c.fs, c.cc)
  IN  IF Tok(fs) = "}" THEN [fs |-> NextTok(fs), cc |-> cc]
      ELSE IF Tok(item.fs) \in {",", ";"} THEN ConsItems(NextTok(item.fs), item.cc)
      ELSE [fs |-> CheckNext(item.fs, "}"), cc |-> item.cc]

Constructor(fs) ==
  LET new == CodeABC(fs, "NEWTABLE", 0, 0, 0)
      t == Exp2NextReg([fs |-> new, e |-> Exp("VRELOCABLE", Len(new.code))])
      items == ConsItems(CheckNext(t.fs, "{"),
                         [v |-> VoidExp, t |-> t.e.info, nh |-> 0, na |-> 0, tostore |-> 0])
      \* the array part is sized for na items, the last open call not counted
      open == items.cc.tostore > 0 /\ HasMultRet(items.cc.v.k)
  IN  [fs |-> [LastListField(items.fs, items.cc) EXCEPT
                 !.code[Len(new.code)].b = items.cc.na - (IF open THEN 1 ELSE 0),
                 !.code[Len(new.code)].c = items.cc.nh],
       e |-> t.e]

\* body: a function after its name.
Body(fs, needself) ==
  LET new == OpenFunc(CheckNext(fs, "(").in, <<CheckNext(fs, "(")>>)
      self == IF needself THEN AdjustLocalVars(NewLocalVar(new, "self", 0), 1) ELSE new
      func == CheckNext(Chunk(CheckNext(ParList(self, 0), ")")), "end")
      outer == [func.prev[1] EXCEPT !.in = func.in, !.ok = @ /\ func.ok /\ func.bl = << >>]
  IN  PushClosure(outer, func)

FuncArgs(r) ==
  LET fs == r.fs
      list == ExpList1(NextTok(fs))
      args == CASE Tok(fs) = "(" /\ fs.in[2][1] = ")" ->
                     [fs |-> NextTok(NextTok(fs)), e |-> VoidExp]
                [] Tok(fs) = "(" /\ fs.in[2][1] # ")" ->
                     SetMultRet([fs |-> CheckNext(list.fs, ")"), e |-> list.e])
                [] Tok(fs) = "{" -> Constructor(fs)
                [] Tok(fs) = "STRING" -> CodeString(NextTok(fs), TokValue(fs))
      base == r.e.info
      last == IF HasMultRet(args.e.k) \/ args.e.k = "VVOID" THEN args.fs ELSE Exp2NextReg(args).fs
      nparams == IF HasMultRet(args.e.k) THEN MultRet ELSE last.freereg - (base + 1)
      call == CodeABC(Asserted(last, r.e.k = "VNONRELOC"), "CALL", base, nparams + 1, 2)
  IN  [fs |-> [call EXCEPT !.freereg = base + 1], e |-> Exp("VCALL", Len(call.code))]

PrefixExp(fs) ==
  LET inner == Expr(NextTok(fs))
  IN  IF Tok(fs) = "(" THEN DischargeVars([inner EXCEPT !.fs = CheckNext(@, ")")])
      ELSE SingleVar(fs)

PrimaryRest(r) ==
  LET any == Exp2AnyReg(r)
      key == YIndex(any.fs)
      name == CheckName(NextTok(r.fs))
  IN  CASE Tok(r.fs) = "." -> PrimaryRest(Field(r))
        [] Tok(r.fs) = "[" -> PrimaryRest(Indexed([fs |-> key.fs, e |-> any.e], key.e))
        [] Tok(r.fs) = ":" -> PrimaryRest(FuncArgs(Self([fs |-> name.fs, e |-> r.e], name.e)))
        [] Tok(r.fs) \in {"(", "STRING", "{"} -> PrimaryRest(FuncArgs(Exp2NextReg(r)))
        [] OTHER -> r
PrimaryExp(fs) == PrimaryRest(PrefixExp(fs))

SimpleExp(fs) ==
  LET next == NextTok(fs)
      dots == CodeABC([next EXCEPT !.is_vararg = @ \ {"NEEDSARG"}], "VARARG", 0, 1, 0)
  IN  CASE Tok(fs) = "NUMBER" -> [fs |-> next, e |-> [Exp("VKNUM", 0) EXCEPT !.nval = TokValue(fs)]]
        [] Tok(fs) = "STRING" -> CodeString(next, TokValue(fs))
        [] Tok(fs) = "nil" -> [fs |-> next, e |-> Exp("VNIL", 0)]
        [] Tok(fs) = "true" -> [fs |-> next, e |-> Exp("VTRUE", 0)]
        [] Tok(fs) = "false" -> [fs |-> next, e |-> Exp("VFALSE", 0)]
        [] Tok(fs) = "..." -> [fs |-> dots, e |-> Exp("VVARARG", Len(dots.code))]
        [] Tok(fs) = "{" -> Constructor(fs)
        [] Tok(fs) = "function" -> Body(next, FALSE)
        [] OTHER -> PrimaryExp(fs)

\* subexpr: one operand and every operator after it that binds tighter than limit.
SubExprRest(r, limit) ==
  LET op == Tok(r.fs)
      v == Infix(op, [r EXCEPT !.fs = NextTok(@)])
      v2 == SubExpr(v.fs, Priority(op)[2])
  IN  IF Priority(op)[1] > limit THEN SubExprRest(Posfix(op, v2.fs, v.e, v2.e), limit) ELSE r

SubExpr(fs, limit) ==
  SubExprRest(IF Tok(fs) \in UnaryOps THEN Prefix(Tok(fs), SubExpr(NextTok(fs), UnaryPriority))
              ELSE SimpleExp(fs),
              limit)

-----------------------------------------------------------------------------
\* Statements.

Block(fs) ==
  LET in == Chunk(EnterBlock(fs, FALSE))
  IN  LeaveBlock(Asserted(in, Last(in.bl).breaklist = NoJump))

\* Mutant: only the table of an indexed variable is copied, not the key.
CheckConflictTable(fs, lhs, v) ==
  LET uses(l) == l.k = "VINDEXED" /\ v.info = l.info
      copied == ReserveRegs(CodeABC(fs, "MOVE", fs.freereg, v.info, 0), 1)
  IN  [fs |-> IF \E i \in DOMAIN lhs : uses(lhs[i]) THEN copied ELSE fs,
       lhs |-> [i \in DOMAIN lhs |-> IF uses(lhs[i]) THEN [lhs[i] EXCEPT !.info = fs.freereg]
                                    ELSE lhs[i]]]

\* check_conflict: variables to the left that index with the local v will
\* use a copy of it.
CheckConflict(fs, lhs, v) ==
  LET uses(l) == l.k = "VINDEXED" /\ v.info \in {l.info, l.aux}
      safe(l) == IF ~uses(l) THEN l
                 ELSE [l EXCEPT !.info = IF @ = v.info THEN fs.freereg ELSE @,
                                !.aux = IF @ = v.info THEN fs.freereg ELSE @]
      copied == ReserveRegs(CodeABC(fs, "MOVE", fs.freereg, v.info, 0), 1)
  IN  [fs |-> IF \E i \in DOMAIN lhs : uses(lhs[i]) THEN copied ELSE fs,
       lhs |-> [i \in DOMAIN lhs |-> safe(lhs[i])]]

\* assignment: the variables from left to right, the values, then the
\* stores from right to left.
RECURSIVE Assignment(_, _)
Assignment(fs, lhs) ==
  LET nv == PrimaryExp(NextTok(fs))
      safe == IF nv.e.k = "VLOCAL" THEN CheckConflict(nv.fs, lhs, nv.e)
              ELSE [fs |-> nv.fs, lhs |-> lhs]
      list == ExpList1(CheckNext(fs, "="))
      nvars == Len(lhs)
      one == SetOneRet([fs |-> list.fs, e |-> list.e])
      adjusted == AdjustAssign(list.fs, nvars, list.n, list.e)
      trimmed == IF list.n > nvars THEN [adjusted EXCEPT !.freereg = @ - (list.n - nvars)]
                 ELSE adjusted
      store(f, v) == StoreVar(f, v, Exp("VNONRELOC", f.freereg - 1))
  IN  CASE Tok(fs) = "," -> Assignment(safe.fs, Append(safe.lhs, nv.e))
        [] Tok(fs) # "," /\ list.n = nvars ->
             FoldLeft(store, StoreVar(one.fs, Last(lhs), one.e), Reverse(Front(lhs)))
        [] OTHER -> FoldLeft(store, trimmed, Reverse(lhs))

ExprStat(fs) ==
  LET v == PrimaryExp(fs)
  IN  IF v.e.k = "VCALL" THEN [v.fs EXCEPT !.code[v.e.info].c = 1]
      ELSE Assignment(v.fs, <<v.e>>)

\* cond: returns fs and the list of the jumps taken when it is false.
Cond(fs) ==
  LET v == Expr(fs)
      g == GoIfTrue([v EXCEPT !.e.k = IF @ = "VNIL" THEN "VFALSE" ELSE @])
  IN  [fs |-> g.fs, list |-> g.e.f]

\* breakstat
BreakStat(fs) ==
  LET loop == Max({b \in DOMAIN fs.bl : fs.bl[b].isbreakable})
      upval == \E b \in (loop + 1)..Len(fs.bl) : fs.bl[b].upval
      closed == IF upval THEN CodeABC(fs, "CLOSE", fs.bl[loop].nactvar, 0, 0) ELSE fs
      j == Jump(closed)
      c == Concat(j.fs, fs.bl[loop].breaklist, j.list)
  IN  [c.fs EXCEPT !.bl[loop].breaklist = c.list]

WhileStat(fs) ==
  LET start == GetLabel(NextTok(fs))
      c == Cond(start)
      j == Jump(Block(CheckNext(EnterBlock(c.fs, TRUE), "do")))
  IN  PatchToHere(LeaveBlock(CheckNext(PatchList(j.fs, j.list, Pc(start)), "end")), c.list)

RepeatStat(fs) ==
  LET start == EnterBlock(EnterBlock(GetLabel(fs), TRUE), FALSE)
      c == Cond(CheckNext(Chunk(NextTok(start)), "until"))
      upval == Last(c.fs.bl).upval
      again == Jump(LeaveBlock(PatchToHere(BreakStat(c.fs), c.list)))
      fin == IF ~upval THEN PatchList(LeaveBlock(c.fs), c.list, Pc(fs))
             ELSE PatchList(again.fs, again.list, Pc(fs))
  IN  LeaveBlock(fin)

\* forbody
ForBody(fs0, base, nvars, isnum) ==
  LET fs == CheckNext(AdjustLocalVars(fs0, 3), "do")
      j == Jump(fs)
      prep == IF isnum THEN CodeABx(fs, "FORPREP", base, -1) ELSE j.fs
      prepAt == IF isnum THEN Len(prep.code) ELSE j.list
      in == ReserveRegs(AdjustLocalVars(EnterBlock(prep, FALSE), nvars), nvars)
      out == PatchToHere(LeaveBlock(Block(in)), prepAt)
      loop == IF isnum THEN CodeABx(out, "FORLOOP", base, -1)
              ELSE Jump(CodeABC(out, "TFORLOOP", base, 0, nvars)).fs
  IN  PatchList(loop, Len(loop.code), prepAt + 1)

Exp1(fs) == Exp2NextReg(Expr(fs)).fs

ForNum(fs, name) ==
  LET v == NewLocalVar(NewLocalVar(NewLocalVar(NewLocalVar(fs,
             "(for index)", 0), "(for limit)", 1), "(for step)", 2), name, 3)
      limit == Exp1(CheckNext(Exp1(CheckNext(v, "=")), ","))
      one == AddK(limit, NumV(1))
      step == IF Tok(limit) = "," THEN Exp1(NextTok(limit))
              ELSE ReserveRegs(CodeABx(one.fs, "LOADK", limit.freereg, one.i), 1)
  IN  ForBody(step, fs.freereg, 1, TRUE)

RECURSIVE ForNames(_, _)
ForNames(fs, n) ==       \* the declared variables but the first
  IF Tok(fs) = "," THEN ForNames(NewLocalVar(NextTok(NextTok(fs)), fs.in[2][2], n), n + 1)
  ELSE [fs |-> fs, n |-> n]

ForList(fs, name) ==
  LET v == ForNames(NewLocalVar(NewLocalVar(NewLocalVar(NewLocalVar(fs,
             "(for generator)", 0), "(for state)", 1), "(for control)", 2), name, 3), 4)
      list == ExpList1(CheckNext(v.fs, "in"))
      ready == CheckStack(AdjustAssign(list.fs, 3, list.n, list.e), 3)
  IN  ForBody(ready, fs.freereg, v.n - 3, FALSE)

ForStat(fs) ==
  LET in == NextTok(EnterBlock(fs, TRUE))
      loop == IF in.in[2][1] = "=" THEN ForNum(NextTok(in), TokValue(in))
              ELSE ForList(NextTok(in), TokValue(in))
  IN  LeaveBlock(CheckNext(loop, "end"))

\* test_then_block and the rest of an if: flist is where a false condition
\* jumps, escape the list of the jumps to the end.
RECURSIVE IfRest(_, _, _)
TestThenBlock(fs) ==
  LET c == Cond(NextTok(fs)) IN [fs |-> Block(CheckNext(c.fs, "then")), list |-> c.list]
IfRest(fs, flist, escape) ==
  LET j == Jump(fs)
      e == Concat(j.fs, escape, j.list)
      next == PatchToHere(e.fs, flist)
      t == TestThenBlock(next)
      only == Concat(fs, escape, flist)
  IN  CASE Tok(fs) = "elseif" -> IfRest(t.fs, t.list, e.list)
        [] Tok(fs) = "else" -> PatchToHere(Block(NextTok(next)), e.list)
        [] OTHER -> PatchToHere(only.fs, only.list)
IfStat(fs) ==
  LET t == TestThenBlock(fs) IN CheckNext(IfRest(t.fs, t.list, NoJump), "end")

\* localfunc, after `local function'
LocalFunc(fs) ==
  LET v == NewLocalVar(NextTok(fs), TokValue(fs), 0)
      b == Body(AdjustLocalVars(ReserveRegs(v, 1), 1), FALSE)
      s == StoreVar(b.fs, Exp("VLOCAL", fs.freereg), b.e)
  IN  [s EXCEPT !.locvars[Last(s.actvar)].startpc = Pc(s)]

RECURSIVE LocalNames(_, _)
LocalNames(fs, n) ==
  LET v == NewLocalVar(NextTok(fs), TokValue(fs), n)
  IN  IF Tok(v) = "," THEN LocalNames(NextTok(v), n + 1) ELSE [fs |-> v, n |-> n + 1]

LocalStat(fs) ==
  LET v == LocalNames(fs, 0)
      list == IF Tok(v.fs) = "=" THEN ExpList1(NextTok(v.fs))
              ELSE [fs |-> v.fs, e |-> VoidExp, n |-> 0]
  IN  AdjustLocalVars(AdjustAssign(list.fs, v.n, list.n, list.e), v.n)

\* funcstat
RECURSIVE FuncName(_)
FuncName(r) == IF Tok(r.fs) \in {".", ":"} THEN FuncName(Field(r)) ELSE r
FuncStat(fs) ==
  LET v == FuncName(SingleVar(NextTok(fs)))
      method == \E i \in DOMAIN fs.in : /\ fs.in[i][1] = ":"
                                        /\ \A j \in 1..i : fs.in[j][1] # "("
      b == Body(v.fs, method)
  IN  StoreVar(b.fs, v.e, b.e)

RetStat(fs) ==
  LET next == NextTok(fs)
      list == ExpList1(next)
      r == [fs |-> list.fs, e |-> list.e]
      open == SetMultRet(r)
      tail == IF list.e.k = "VCALL" /\ list.n = 1
              THEN [Asserted(open.fs, open.fs.code[list.e.info].a = fs.nactvar) EXCEPT
                      !.code[list.e.info].op = "TAILCALL"]
              ELSE open.fs
      one == Exp2AnyReg(r)
      all == Exp2NextReg(r).fs
  IN  IF Tok(next) \in BlockFollow \cup {";"} THEN Ret(next, 0, 0)
      ELSE IF HasMultRet(list.e.k) THEN Ret(tail, fs.nactvar, MultRet)
      ELSE IF list.n = 1 THEN Ret(one.fs, one.e.info, 1)
      ELSE Ret(Asserted(all, list.n = all.freereg - fs.nactvar), fs.nactvar, list.n)

Statement(fs) ==
  LET next == NextTok(fs)
  IN  CASE Tok(fs) = "if" -> IfStat(fs)
        [] Tok(fs) = "while" -> WhileStat(fs)
        [] Tok(fs) = "do" -> CheckNext(Block(next), "end")
        [] Tok(fs) = "for" -> ForStat(fs)
        [] Tok(fs) = "repeat" -> RepeatStat(fs)
        [] Tok(fs) = "function" -> FuncStat(fs)
        [] Tok(fs) = "local" -> IF Tok(next) = "function" THEN LocalFunc(NextTok(next))
                                ELSE LocalStat(next)
        [] Tok(fs) = "return" -> RetStat(fs)
        [] Tok(fs) = "break" -> BreakStat(next)
        [] OTHER -> ExprStat(fs)

Chunk(fs) ==
  LET done == Statement(fs)
      next == IF Tok(done) = ";" THEN NextTok(done) ELSE done
      freed == [Asserted(next, /\ next.maxstacksize >= next.freereg
                               /\ next.freereg >= next.nactvar)
                EXCEPT !.freereg = next.nactvar]
  IN  IF Tok(fs) \in BlockFollow THEN fs
      ELSE IF Tok(fs) \in {"return", "break"} THEN freed
      ELSE Chunk(freed)

\* luaY_parser: the main function and whether every assertion held.
Parser(tokens) ==
  LET main == Chunk([OpenFunc(tokens, << >>) EXCEPT !.is_vararg = {"ISVARARG"}])
  IN  [main |-> ProtoOf(main), ok |-> main.ok /\ Tok(main) = "EOS" /\ main.upvalues = << >>]
=============================================================================
