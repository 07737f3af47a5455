------------------------------ MODULE LuaCheck ------------------------------
(***************************************************************************)
(* The code checker, luaG_checkcode in lua-5.1.5/src/ldebug.c: what the    *)
(* virtual machine takes for granted of the code of a function.  close_func*)
(* asserts it of every function that is compiled.                          *)
(*                                                                         *)
(* symbexec walks through all instructions without tracing a register      *)
(* (NO_REG), so that each check is a condition on one instruction and its  *)
(* neighbours.                                                             *)
(***************************************************************************)
EXTENDS LuaCode

\* luaP_opmodes: the operands B and C of each instruction.
RegB == {"MOVE", "LOADNIL", "GETTABLE", "SELF", "UNM", "NOT", "LEN", "CONCAT", "TEST", "TESTSET"}
ConstB == {"SETTABLE", "EQ", "LT", "LE"} \cup ArithOps
UnusedB == {"TFORLOOP", "CLOSE"}
RegC == {"CONCAT"}
ConstC == {"GETTABLE", "SELF", "SETTABLE", "EQ", "LT", "LE"} \cup ArithOps
UnusedC == {"MOVE", "LOADNIL", "GETUPVAL", "SETUPVAL", "UNM", "NOT", "LEN", "RETURN", "CLOSE", "VARARG"}
BxConst == {"LOADK", "GETGLOBAL", "SETGLOBAL"}
Jumps == {"JMP", "FORLOOP", "FORPREP"}
OpCodes == RegB \cup ConstB \cup UnusedB \cup BxConst \cup Jumps \cup
           {"LOADBOOL", "GETUPVAL", "SETUPVAL", "NEWTABLE", "CALL", "TAILCALL", "RETURN",
            "SETLIST", "CLOSURE", "VARARG"}

PreCheck(pt) ==
  /\ pt.numparams + (IF "HASARG" \in pt.is_vararg THEN 1 ELSE 0) <= pt.maxstacksize
  /\ "NEEDSARG" \in pt.is_vararg => "HASARG" \in pt.is_vararg
  /\ pt.code # << >> /\ Last(pt.code).op = "RETURN"

\* luaG_checkopenop: what may follow an instruction that leaves an unknown
\* number of values on the stack.
CheckOpenOp(i) == i.op \in {"CALL", "TAILCALL", "RETURN", "SETLIST"} /\ i.b = 0

\* The words of the code that are no instructions.
IsWord(pt, pc) == pc > 1 /\ pt.code[pc - 1].op = "SETLIST" /\ pt.code[pc - 1].c = 0

CheckInstruction(pt, pc) ==
  LET i == pt.code[pc]
      size == Len(pt.code)
      checkreg(r) == r < pt.maxstacksize
      checkRK(x) == IF IsK(x) THEN IndexK(x) < Len(pt.k) ELSE checkreg(x)
      dest == pc + 1 + i.b
  IN  /\ i.op \in OpCodes
      /\ checkreg(i.a)
      /\ i.op \in RegB => checkreg(i.b)
      /\ i.op \in ConstB => checkRK(i.b)
      /\ i.op \in UnusedB => i.b = 0
      /\ i.op \in RegC => checkreg(i.c)
      /\ i.op \in ConstC => checkRK(i.c)
      /\ i.op \in UnusedC => i.c = 0
      /\ i.op \in BxConst => i.b < Len(pt.k)
      /\ i.op \in Jumps => dest \in 1..size /\ ~IsWord(pt, dest)
      /\ i.op \in TestOps => pc + 2 <= size /\ pt.code[pc + 1].op = "JMP"
      /\ i.op = "LOADBOOL" /\ i.c = 1 =>
           pc + 2 <= size /\ ~(pt.code[pc + 1].op = "SETLIST" /\ pt.code[pc + 1].c = 0)
      /\ i.op \in {"GETUPVAL", "SETUPVAL"} => i.b < pt.nups
      /\ i.op \in {"GETGLOBAL", "SETGLOBAL"} => pt.k[i.b + 1][1] = "str"
      /\ i.op = "SELF" => checkreg(i.a + 1)
      /\ i.op = "CONCAT" => i.b < i.c
      /\ i.op = "TFORLOOP" => i.c >= 1 /\ checkreg(i.a + 2 + i.c)
      /\ i.op \in {"FORLOOP", "FORPREP"} => checkreg(i.a + 3)
      /\ i.op \in {"CALL", "TAILCALL"} =>
           /\ i.b # 0 => checkreg(i.a + i.b - 1)
           /\ i.c = 0 => CheckOpenOp(pt.code[pc + 1])
           /\ i.c > 1 => checkreg(i.a + i.c - 2)
      /\ i.op = "RETURN" /\ i.b > 1 => checkreg(i.a + i.b - 2)
      /\ i.op = "SETLIST" =>
           /\ i.b > 0 => checkreg(i.a + i.b)
           /\ i.c = 0 => pc + 1 < size
      /\ i.op = "CLOSURE" =>
           LET nup == pt.p[i.b + 1].nups
           IN  /\ i.b < Len(pt.p) /\ pc + nup < size
               /\ \A j \in 1..nup : pt.code[pc + j].op \in {"GETUPVAL", "MOVE"}
      /\ i.op = "VARARG" =>
           /\ "ISVARARG" \in pt.is_vararg /\ "NEEDSARG" \notin pt.is_vararg
           /\ IF i.b = 0 THEN CheckOpenOp(pt.code[pc + 1]) ELSE checkreg(i.a + i.b - 2)

\* luaG_checkcode
CheckCode(pt) ==
  PreCheck(pt) /\ \A pc \in DOMAIN pt.code : IsWord(pt, pc) \/ CheckInstruction(pt, pc)
=============================================================================
