------------------------------ MODULE LuaCode ------------------------------
(***************************************************************************)
(* The code generator of Lua, lua-5.1.5/src/lcode.c: operators on the      *)
(* state of the function being compiled (FuncState) and on expression      *)
(* descriptors (expdesc).                                                  *)
(*                                                                         *)
(* fs is the FuncState with its Proto.  An operator that also changes a    *)
(* descriptor takes and returns the pair r = [fs, e].  Registers, indexes  *)
(* of constants and of upvalues start at 0 as in C; a pc is the position   *)
(* of an instruction in the sequence fs.code, so that it starts at 1 and   *)
(* NoJump is 0.  A jump keeps its sBx, which is relative, in field b; -1   *)
(* (a jump to itself) ends a list.                                         *)
(*                                                                         *)
(* fs.ok is the conjunction of every lua_assert met so far.  The limits on *)
(* the number of registers, constants and instructions, whose errors refuse*)
(* the chunk, are not reached by the programs that are compiled here.      *)
(***************************************************************************)
EXTENDS Integers, Sequences, SequencesExt

CONSTANTS
  MaxIndexRK,       \* the last constant an RK operand can name (MAXINDEXRK)
  FieldsPerFlush,   \* list items per OP_SETLIST (LFIELDS_PER_FLUSH)
  MaxArgC           \* the largest block number in OP_SETLIST (MAXARG_C)

ASSUME LimitsAssumption ==
  MaxIndexRK \in Nat /\ FieldsPerFlush \in Nat \ {0} /\ MaxArgC \in Nat \ {0}

NoJump == 0
NoReg == 255
MultRet == -1
BitRK == 256        \* the bit that tells a constant from a register

IsK(x) == x >= BitRK
IndexK(x) == x - BitRK
RKAsK(i) == i + BitRK

Instr(op, a, b, c) == [op |-> op, a |-> a, b |-> b, c |-> c]
Pc(fs) == Len(fs.code) + 1

\* Values: a tag and what it tags.
NilV == <<"nil", 0>>
BoolV(b) == <<"bool", b>>
NumV(n) == <<"num", n>>
StrV(s) == <<"str", s>>
IsFalse(v) == v \in {NilV, BoolV(0)}

Asserted(fs, cond) == [fs EXCEPT !.ok = @ /\ cond]

-----------------------------------------------------------------------------
\* The instruction set.

\* Instructions that skip the next one or let it jump (testTMode); the
\* next one is an OP_JMP.
TestOps == {"EQ", "LT", "LE", "TEST", "TESTSET", "TFORLOOP"}

ArithOps == {"ADD", "SUB", "MUL", "DIV", "MOD", "POW"}

-----------------------------------------------------------------------------
\* Expression descriptors.

Exp(k, info) ==
  [k |-> k, info |-> info, aux |-> 0, nval |-> 0, t |-> NoJump, f |-> NoJump]
VoidExp == Exp("VVOID", 0)
HasJumps(e) == e.t # e.f
IsNumeral(e) == e.k = "VKNUM" /\ e.t = NoJump /\ e.f = NoJump
HasMultRet(k) == k \in {"VCALL", "VVARARG"}

-----------------------------------------------------------------------------
\* Jumps that wait for their target: lists threaded through the jumps.

GetJump(code, pc) ==
  IF code[pc].b = -1 THEN NoJump ELSE pc + 1 + code[pc].b

\* The jumps of a list, first to last.
JumpsOf(code, list) ==
  LET from[pc \in 0..Len(code)] ==
        IF pc = NoJump THEN << >> ELSE <<pc>> \o from[GetJump(code, pc)]
  IN  from[list]

FixJump(code, pc, dest) == [code EXCEPT ![pc].b = dest - (pc + 1)]

\* The instruction that decides whether the jump is taken.
GetJumpControl(code, pc) ==
  IF pc > 1 /\ code[pc - 1].op \in TestOps THEN pc - 1 ELSE pc

IsTestSet(code, pc) == code[GetJumpControl(code, pc)].op = "TESTSET"

NeedValue(fs, list) ==
  \E pc \in ToSet(JumpsOf(fs.code, list)) : ~IsTestSet(fs.code, pc)

\* The TESTSET of a jump either writes reg or, when no register wants the
\* value or reg has it already, becomes a TEST.
PatchTestReg(code, pc, reg) ==
  LET c == GetJumpControl(code, pc)
      i == code[c]
  IN  CASE ~IsTestSet(code, pc) -> code
        [] IsTestSet(code, pc) /\ reg # NoReg /\ reg # i.b -> [code EXCEPT ![c].a = reg]
        [] OTHER -> [code EXCEPT ![c] = Instr("TEST", i.b, 0, i.c)]

RemoveValues(fs, list) ==
  [fs EXCEPT !.code =
     FoldLeft(LAMBDA code, pc : PatchTestReg(code, pc, NoReg), @, JumpsOf(@, list))]

PatchListAux(fs, list, vtarget, reg, dtarget) ==
  LET patch(code, pc) ==
        FixJump(PatchTestReg(code, pc, reg), pc,
                IF IsTestSet(code, pc) THEN vtarget ELSE dtarget)
  IN  [fs EXCEPT !.code = FoldLeft(patch, @, JumpsOf(@, list))]

DischargeJpc(fs) ==
  [PatchListAux(fs, fs.jpc, Pc(fs), NoReg, Pc(fs)) EXCEPT !.jpc = NoJump]

\* luaK_code: what waits for the next instruction gets its address.
Code(fs, i) == LET d == DischargeJpc(fs) IN [d EXCEPT !.code = Append(@, i)]

CodeABC(fs, op, a, b, c) == Code(fs, Instr(op, a, b, c))
CodeABx(fs, op, a, bx) == Code(fs, Instr(op, a, bx, 0))

\* luaK_concat: list l2 after list l1; returns fs and the joined list.
Concat(fs, l1, l2) ==
  LET jumps == JumpsOf(fs.code, l1)
  IN  IF l2 = NoJump THEN [fs |-> fs, list |-> l1]
      ELSE IF l1 = NoJump THEN [fs |-> fs, list |-> l2]
      ELSE [fs |-> [fs EXCEPT !.code = FixJump(@, Last(jumps), l2)], list |-> l1]

GetLabel(fs) == [fs EXCEPT !.lasttarget = Pc(fs)]

PatchToHere(fs, list) ==
  LET c == Concat(GetLabel(fs), fs.jpc, list) IN [c.fs EXCEPT !.jpc = c.list]

PatchList(fs, list, target) ==
  IF target = Pc(fs) THEN PatchToHere(fs, list)
  ELSE PatchListAux(Asserted(fs, target < Pc(fs)), list, target, NoReg, target)

\* luaK_jump: the jumps that wait for this position go where this one goes.
\* Returns fs and the new list.
Jump(fs) ==
  LET j == CodeABx([fs EXCEPT !.jpc = NoJump], "JMP", 0, -1)
  IN  Concat(j, Len(j.code), fs.jpc)

CondJump(fs, op, a, b, c) == Jump(CodeABC(fs, op, a, b, c))

-----------------------------------------------------------------------------
\* Registers and constants.

\* Mutant: the registers about to be reserved are not counted.
CheckStackBefore(fs, n) ==
  [fs EXCEPT !.maxstacksize = IF fs.freereg > @ THEN fs.freereg ELSE @]
CheckStack(fs, n) ==
  [fs EXCEPT !.maxstacksize = IF fs.freereg + n > @ THEN fs.freereg + n ELSE @]

ReserveRegs(fs, n) == [CheckStack(fs, n) EXCEPT !.freereg = @ + n]

FreeReg(fs, reg) ==
  IF IsK(reg) \/ reg < fs.nactvar THEN fs
  ELSE Asserted([fs EXCEPT !.freereg = @ - 1], reg = fs.freereg - 1)

FreeExp(fs, e) == IF e.k = "VNONRELOC" THEN FreeReg(fs, e.info) ELSE fs

\* addk: returns fs and the index of the constant.
AddK(fs, v) ==
  IF v \in ToSet(fs.k)
  THEN [fs |-> fs, i |-> (CHOOSE j \in DOMAIN fs.k : fs.k[j] = v) - 1]
  ELSE [fs |-> [fs EXCEPT !.k = Append(@, v)], i |-> Len(fs.k)]

\* luaK_nil: n registers from `from' become nil.  No instruction is needed
\* where the registers of a new call still are nil, and a LOADNIL just
\* before, which no jump goes past, can do it.
LoadNil(fs, from, n) ==
  LET straight == Pc(fs) > fs.lasttarget
      previous == Last(fs.code)
  IN  IF straight /\ fs.code = << >> /\ from >= fs.nactvar THEN fs
      ELSE IF /\ straight /\ fs.code # << >>
              /\ previous.op = "LOADNIL" /\ previous.a <= from /\ from <= previous.b + 1
           THEN [fs EXCEPT !.code[Len(fs.code)].b =
                             IF from + n - 1 > @ THEN from + n - 1 ELSE @]
           ELSE CodeABC(fs, "LOADNIL", from, from + n - 1, 0)

-----------------------------------------------------------------------------
\* Values of expressions.

SetReturns(r, nresults) ==
  CASE r.e.k = "VCALL" ->
         [r EXCEPT !.fs.code[r.e.info].c = nresults + 1]
    [] r.e.k = "VVARARG" ->
         [r EXCEPT !.fs = ReserveRegs([@ EXCEPT !.code[r.e.info].b = nresults + 1,
                                                !.code[r.e.info].a = r.fs.freereg], 1)]
    [] OTHER -> r

SetMultRet(r) == SetReturns(r, MultRet)

SetOneRet(r) ==
  CASE r.e.k = "VCALL" ->
         [r EXCEPT !.e.k = "VNONRELOC", !.e.info = r.fs.code[r.e.info].a]
    [] r.e.k = "VVARARG" ->
         [r EXCEPT !.fs.code[r.e.info].b = 2, !.e.k = "VRELOCABLE"]
    [] OTHER -> r

\* A descriptor whose value the instruction just coded leaves in a register
\* still to be chosen.
Relocable(r, fs) ==
  [fs |-> fs, e |-> [r.e EXCEPT !.k = "VRELOCABLE", !.info = Len(fs.code)]]

DischargeVars(r) ==
  CASE r.e.k = "VLOCAL" -> [r EXCEPT !.e.k = "VNONRELOC"]
    [] r.e.k = "VUPVAL" -> Relocable(r, CodeABC(r.fs, "GETUPVAL", 0, r.e.info, 0))
    [] r.e.k = "VGLOBAL" -> Relocable(r, CodeABx(r.fs, "GETGLOBAL", 0, r.e.info))
    [] r.e.k = "VINDEXED" ->
         Relocable(r, CodeABC(FreeReg(FreeReg(r.fs, r.e.aux), r.e.info),
                              "GETTABLE", 0, r.e.info, r.e.aux))
    [] OTHER -> SetOneRet(r)

CodeLabel(fs, a, b, jump) == CodeABC(GetLabel(fs), "LOADBOOL", a, b, jump)

Discharge2Reg(r0, reg) ==
  LET r == DischargeVars(r0)
      fs == r.fs
      in(f) == [fs |-> f, e |-> [r.e EXCEPT !.k = "VNONRELOC", !.info = reg]]
  IN  CASE r.e.k = "VNIL" -> in(LoadNil(fs, reg, 1))
        [] r.e.k \in {"VFALSE", "VTRUE"} ->
             in(CodeABC(fs, "LOADBOOL", reg, IF r.e.k = "VTRUE" THEN 1 ELSE 0, 0))
        [] r.e.k = "VK" -> in(CodeABx(fs, "LOADK", reg, r.e.info))
        [] r.e.k = "VKNUM" ->
             LET a == AddK(fs, NumV(r.e.nval)) IN in(CodeABx(a.fs, "LOADK", reg, a.i))
        [] r.e.k = "VRELOCABLE" -> in([fs EXCEPT !.code[r.e.info].a = reg])
        [] r.e.k = "VNONRELOC" ->
             in(IF reg # r.e.info THEN CodeABC(fs, "MOVE", reg, r.e.info, 0) ELSE fs)
        [] OTHER -> [r EXCEPT !.fs = Asserted(@, r.e.k \in {"VVOID", "VJMP"})]

Discharge2AnyReg(r) ==
  IF r.e.k = "VNONRELOC" THEN r
  ELSE Discharge2Reg([r EXCEPT !.fs = ReserveRegs(@, 1)], r.fs.freereg)

\* exp2reg: the value is in reg on every path: what falls through, the jumps
\* that carry a value, and the others, which go through a LOADBOOL.
Exp2Reg(r0, reg) ==
  LET r == Discharge2Reg(r0, reg)
      isJump == r.e.k = "VJMP"
      ct == IF isJump THEN Concat(r.fs, r.e.t, r.e.info) ELSE [fs |-> r.fs, list |-> r.e.t]
      e == [r.e EXCEPT !.t = ct.list]
      needs == NeedValue(ct.fs, e.t) \/ NeedValue(ct.fs, e.f)
      fj == IF needs /\ ~isJump THEN Jump(ct.fs) ELSE [fs |-> ct.fs, list |-> NoJump]
      p_f == IF needs THEN Len(CodeLabel(fj.fs, reg, 0, 1).code) ELSE NoJump
      p_t == IF needs THEN p_f + 1 ELSE NoJump
      loaded == IF needs
                THEN PatchToHere(CodeLabel(CodeLabel(fj.fs, reg, 0, 1), reg, 1, 0), fj.list)
                ELSE fj.fs
      final == Pc(loaded)
      fs == IF HasJumps(e)
            THEN PatchListAux(PatchListAux(GetLabel(loaded), e.f, final, reg, p_f),
                              e.t, final, reg, p_t)
            ELSE ct.fs
  IN  [fs |-> fs, e |-> Exp("VNONRELOC", reg)]

Exp2NextReg(r0) ==
  LET r == DischargeVars(r0)
      fs == ReserveRegs(FreeExp(r.fs, r.e), 1)
  IN  Exp2Reg([r EXCEPT !.fs = fs], fs.freereg - 1)

\* luaK_exp2anyreg: the register is r.e.info of the result.
Exp2AnyReg(r0) ==
  LET r == DischargeVars(r0)
  IN  IF r.e.k = "VNONRELOC" /\ ~HasJumps(r.e) THEN r
      ELSE IF r.e.k = "VNONRELOC" /\ r.e.info >= r.fs.nactvar THEN Exp2Reg(r, r.e.info)
      ELSE Exp2NextReg(r)

Exp2Val(r) == IF HasJumps(r.e) THEN Exp2AnyReg(r) ELSE DischargeVars(r)

\* luaK_exp2RK: adds the operand, rk, to the pair.
Exp2RK(r0) ==
  LET r == Exp2Val(r0)
      inReg == LET a == Exp2AnyReg(r) IN [fs |-> a.fs, e |-> a.e, rk |-> a.e.info]
      v == CASE r.e.k = "VNIL" -> NilV
             [] r.e.k = "VKNUM" -> NumV(r.e.nval)
             [] OTHER -> BoolV(IF r.e.k = "VTRUE" THEN 1 ELSE 0)
      a == AddK(r.fs, v)
  IN  CASE r.e.k \in {"VKNUM", "VTRUE", "VFALSE", "VNIL"} /\ Len(r.fs.k) <= MaxIndexRK ->
             [fs |-> a.fs, e |-> [r.e EXCEPT !.k = "VK", !.info = a.i], rk |-> RKAsK(a.i)]
        [] r.e.k = "VK" /\ r.e.info <= MaxIndexRK ->
             [fs |-> r.fs, e |-> r.e, rk |-> RKAsK(r.e.info)]
        [] OTHER -> inReg

\* luaK_storevar
StoreVar(fs, var, ex) ==
  LET r == [fs |-> fs, e |-> ex]
      any == Exp2AnyReg(r)
      rk == Exp2RK(r)
  IN  CASE var.k = "VLOCAL" -> Exp2Reg([r EXCEPT !.fs = FreeExp(fs, ex)], var.info).fs
        [] var.k = "VUPVAL" ->
             FreeExp(CodeABC(any.fs, "SETUPVAL", any.e.info, var.info, 0), any.e)
        [] var.k = "VGLOBAL" ->
             FreeExp(CodeABx(any.fs, "SETGLOBAL", any.e.info, var.info), any.e)
        [] var.k = "VINDEXED" ->
             FreeExp(CodeABC(rk.fs, "SETTABLE", var.info, var.aux, rk.rk), rk.e)
        [] OTHER -> Asserted(fs, FALSE)

\* luaK_self: the method and the object, in two new registers.
Self(r0, key) ==
  LET r == Exp2AnyReg(r0)
      freed == FreeExp(r.fs, r.e)
      func == freed.freereg
      rk == Exp2RK([fs |-> ReserveRegs(freed, 2), e |-> key])
      fs == CodeABC(rk.fs, "SELF", func, r.e.info, rk.rk)
  IN  [fs |-> FreeExp(fs, rk.e), e |-> Exp("VNONRELOC", func)]

Indexed(r, key) ==
  LET rk == Exp2RK([fs |-> r.fs, e |-> key])
  IN  [fs |-> rk.fs, e |-> [r.e EXCEPT !.k = "VINDEXED", !.aux = rk.rk]]

-----------------------------------------------------------------------------
\* Conditions.

InvertJump(r) ==
  LET c == GetJumpControl(r.fs.code, r.e.info)
  IN  [r EXCEPT !.fs = Asserted([@ EXCEPT !.code[c].a = 1 - @],
                              r.fs.code[c].op \in TestOps \ {"TEST", "TESTSET"})]

\* A jump when the value is `cond'; returns the pair and the list of the jump.
JumpOnCond(r, cond) ==
  LET ie == r.fs.code[r.e.info]
      removed == [r.fs EXCEPT !.code = Front(@)]
      d == Discharge2AnyReg(r)
      j == IF r.e.k = "VRELOCABLE" /\ ie.op = "NOT"
           THEN CondJump(removed, "TEST", ie.b, 0, 1 - cond)
           ELSE CondJump(FreeExp(d.fs, d.e), "TESTSET", NoReg, d.e.info, cond)
  IN  [fs |-> j.fs, e |-> IF r.e.k = "VRELOCABLE" /\ ie.op = "NOT" THEN r.e ELSE d.e,
       list |-> j.list]

GoIfTrue(r0) ==
  LET r == DischargeVars(r0)
      i == InvertJump(r)
      j == CASE r.e.k \in {"VK", "VKNUM", "VTRUE"} -> [fs |-> r.fs, e |-> r.e, list |-> NoJump]
             [] r.e.k = "VJMP" -> [fs |-> i.fs, e |-> r.e, list |-> r.e.info]
             [] OTHER -> JumpOnCond(r, 0)
      c == Concat(j.fs, j.e.f, j.list)
  IN  [fs |-> PatchToHere(c.fs, j.e.t), e |-> [j.e EXCEPT !.f = c.list, !.t = NoJump]]

GoIfFalse(r0) ==
  LET r == DischargeVars(r0)
      j == CASE r.e.k \in {"VNIL", "VFALSE"} -> [fs |-> r.fs, e |-> r.e, list |-> NoJump]
             [] r.e.k = "VJMP" -> [fs |-> r.fs, e |-> r.e, list |-> r.e.info]
             [] OTHER -> JumpOnCond(r, 1)
      c == Concat(j.fs, j.e.t, j.list)
  IN  [fs |-> PatchToHere(c.fs, j.e.f), e |-> [j.e EXCEPT !.t = c.list, !.f = NoJump]]

CodeNot(r0) ==
  LET r == DischargeVars(r0)
      d == Discharge2AnyReg(r)
      n == CASE r.e.k \in {"VNIL", "VFALSE"} -> [r EXCEPT !.e.k = "VTRUE"]
             [] r.e.k \in {"VK", "VKNUM", "VTRUE"} -> [r EXCEPT !.e.k = "VFALSE"]
             [] r.e.k = "VJMP" -> InvertJump(r)
             [] OTHER -> Relocable(d, CodeABC(FreeExp(d.fs, d.e), "NOT", 0, d.e.info, 0))
      e == [n.e EXCEPT !.f = n.e.t, !.t = n.e.f]
  IN  [fs |-> RemoveValues(RemoveValues(n.fs, e.f), e.t), e |-> e]

-----------------------------------------------------------------------------
\* Operators.

Calc(op, x, y) ==
  CASE op = "ADD" -> x + y
    [] op = "SUB" -> x - y
    [] op = "MUL" -> x * y
    [] op = "DIV" -> x \div y
    [] op = "MOD" -> x % y
    [] op = "POW" -> x ^ y
    [] OTHER -> -x

\* constfolding: what can be computed now; not a division by zero.
Foldable(op, e1, e2) ==
  /\ IsNumeral(e1) /\ IsNumeral(e2)
  /\ op \in ArithOps \cup {"UNM"}
  /\ op \in {"DIV", "MOD"} => e2.nval # 0

CodeArith(fs, op, e1, e2) ==
  LET unary == op \in {"UNM", "LEN"}
      r2 == IF unary THEN [fs |-> fs, e |-> e2, rk |-> 0] ELSE Exp2RK([fs |-> fs, e |-> e2])
      r1 == Exp2RK([fs |-> r2.fs, e |-> e1])
      freed == IF r1.rk > r2.rk THEN FreeExp(FreeExp(r1.fs, r1.e), r2.e)
               ELSE FreeExp(FreeExp(r1.fs, r2.e), r1.e)
  IN  IF Foldable(op, e1, e2)
      THEN [fs |-> fs, e |-> [e1 EXCEPT !.nval = Calc(op, e1.nval, e2.nval)]]
      ELSE Relocable(r1, CodeABC(freed, op, 0, r1.rk, r2.rk))

CodeComp(fs, op, cond, e1, e2) ==
  LET r1 == Exp2RK([fs |-> fs, e |-> e1])
      r2 == Exp2RK([fs |-> r1.fs, e |-> e2])
      freed == FreeExp(FreeExp(r2.fs, r2.e), r1.e)
      swap == cond = 0 /\ op # "EQ"
      j == IF swap THEN CondJump(freed, op, 1, r2.rk, r1.rk)
           ELSE CondJump(freed, op, cond, r1.rk, r2.rk)
  IN  [fs |-> j.fs, e |-> [r1.e EXCEPT !.k = "VJMP", !.info = j.list]]

\* luaK_prefix
Prefix(op, r) ==
  LET zero == Exp("VKNUM", 0)
      any == Exp2AnyReg(r)
      n == IF IsNumeral(r.e) THEN r ELSE any
  IN  CASE op = "not" -> CodeNot(r)
        [] op = "-" -> CodeArith(n.fs, "UNM", n.e, zero)
        [] op = "#" -> CodeArith(any.fs, "LEN", any.e, zero)

OpOf == [x \in {"+", "-", "*", "/", "%", "^"} |->
           CASE x = "+" -> "ADD" [] x = "-" -> "SUB" [] x = "*" -> "MUL"
             [] x = "/" -> "DIV" [] x = "%" -> "MOD" [] x = "^" -> "POW"]

\* luaK_infix: after the first operand has been read.
Infix(op, r) ==
  LET rk == Exp2RK(r)
  IN  CASE op = "and" -> GoIfTrue(r)
        [] op = "or" -> GoIfFalse(r)
        [] op = ".." -> Exp2NextReg(r)
        [] op \in DOMAIN OpOf /\ IsNumeral(r.e) -> r
        [] OTHER -> [fs |-> rk.fs, e |-> rk.e]

\* luaK_posfix: after both have been read.
Posfix(op, fs0, e1, e2) ==
  LET d == DischargeVars([fs |-> Asserted(fs0, IF op = "and" THEN e1.t = NoJump
                                             ELSE op = "or" => e1.f = NoJump),
                          e |-> e2])
      joinF == Concat(d.fs, d.e.f, e1.f)
      joinT == Concat(d.fs, d.e.t, e1.t)
      v == Exp2Val([fs |-> fs0, e |-> e2])
      chained == v.e.k = "VRELOCABLE" /\ v.fs.code[v.e.info].op = "CONCAT"
      next == Exp2NextReg(v)
  IN  CASE op = "and" -> [fs |-> joinF.fs, e |-> [d.e EXCEPT !.f = joinF.list]]
        [] op = "or" -> [fs |-> joinT.fs, e |-> [d.e EXCEPT !.t = joinT.list]]
        [] op = ".." /\ chained ->
             LET fs == Asserted(v.fs, e1.info = v.fs.code[v.e.info].b - 1)
             IN  [fs |-> [FreeExp(fs, e1) EXCEPT !.code[v.e.info].b = e1.info],
                  e |-> [e1 EXCEPT !.k = "VRELOCABLE", !.info = v.e.info]]
        [] op = ".." /\ ~chained -> CodeArith(next.fs, "CONCAT", e1, next.e)
        [] op \in DOMAIN OpOf -> CodeArith(fs0, OpOf[op], e1, e2)
        [] op = "==" -> CodeComp(fs0, "EQ", 1, e1, e2)
        [] op = "~=" -> CodeComp(fs0, "EQ", 0, e1, e2)
        [] op = "<" -> CodeComp(fs0, "LT", 1, e1, e2)
        [] op = "<=" -> CodeComp(fs0, "LE", 1, e1, e2)
        [] op = ">" -> CodeComp(fs0, "LT", 0, e1, e2)
        [] op = ">=" -> CodeComp(fs0, "LE", 0, e1, e2)

-----------------------------------------------------------------------------
\* luaK_setlist: the registers after base go into the table in base.  A
\* block number too large for C goes into the next word of the code.
SetListCode(fs, base, nelems, tostore) ==
  LET c == ((nelems - 1) \div FieldsPerFlush) + 1
      b == IF tostore = MultRet THEN 0 ELSE tostore
      coded == IF c <= MaxArgC THEN CodeABC(fs, "SETLIST", base, b, c)
               ELSE Code(CodeABC(fs, "SETLIST", base, b, 0), Instr("word", c, 0, 0))
  IN  [Asserted(coded, tostore # 0) EXCEPT !.freereg = base + 1]

Ret(fs, first, nret) == CodeABC(fs, "RETURN", first, nret + 1, 0)
=============================================================================
