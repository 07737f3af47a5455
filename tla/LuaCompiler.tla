---------------------------- MODULE LuaCompiler ----------------------------
(***************************************************************************)
(* From the text of a program to its effect: the parser and the code       *)
(* generator (LuaParser, LuaCode), the code checker (LuaCheck), dumping    *)
(* and loading (LuaPrecompiled) and the virtual machine (LuaVM), against   *)
(* the meaning of the program (LuaSemantics).                              *)
(*                                                                         *)
(* A behaviour takes one program, compiles it in one step and runs it one  *)
(* instruction at a time.  Globals are the C functions of the host and the *)
(* variables of GlobalVars.                                                *)
(***************************************************************************)
EXTENDS LuaParser, LuaPrecompiled, LuaVM

CONSTANTS
  Programs,      \* records [body, args]: a main function and its arguments
  GlobalVars,    \* a function: the values of some global variables
  Compiler(_),   \* Compiled, below, or what stands in for it
  Reloader(_)    \* Reloaded, below, likewise

VARIABLES
  program,
  phase,         \* "source", then "loaded", then "running"
  ok,            \* every assertion of the parser held
  expected       \* the meaning of the program

Manual == INSTANCE LuaSemantics

vars == <<program, phase, ok, expected, main, L>>

HostFunctions == {"emit", "two", "iter", "setmetatable"}
InitialGlobals == [f \in HostFunctions |-> <<"cfun", f>>] @@ GlobalVars

\* luaY_parser, and the meaning the program should have.
Compiled(p) ==
  [chunk |-> Parser(Manual!ProgramText(p.body)),
   expected |-> Manual!Meaning(p.body, p.args, InitialGlobals)]

Reloaded(f) == Undump(Dump(f))

NoProto == << >>
NoMeaning == << >>
Done == phase = "running" /\ L.ci = << >>

\* A new thread with a closure of the main function and its arguments.
NewThread(args) ==
  [stack |-> [j \in Registers |->
                IF j = 0 THEN <<"fun", 1>> ELSE IF j \in DOMAIN args THEN args[j] ELSE NilV],
   top |-> Len(args) + 1, ci |-> << >>, after |-> Idle,
   funs |-> <<[path |-> << >>, upvals |-> << >>]>>, upvals |-> << >>,
   tabs |-> << >>, globals |-> InitialGlobals, trace |-> << >>, results |-> << >>]

Init ==
  /\ program \in Programs
  /\ phase = "source"
  /\ ok = TRUE /\ main = NoProto
  /\ expected = NoMeaning
  /\ L = NewThread(program.args)

\* f_parser: the parser, then a closure of the main function.
Compile ==
  /\ phase = "source"
  /\ phase' = "loaded"
  /\ \E c \in {Compiler(program)} :
       main' = c.chunk.main /\ ok' = c.chunk.ok /\ expected' = c.expected
  /\ UNCHANGED <<program, L>>

\* string.dump of the loaded function, and loadstring of what it wrote.
Reload ==
  /\ phase = "loaded"
  /\ \E c \in {Reloader(main)} : main' = c.main /\ ok' = (ok /\ c.ok)
  /\ UNCHANGED <<program, phase, expected, L>>

\* luaD_call of the main function with its arguments.
Enter ==
  /\ phase = "loaded"
  /\ phase' = "running"
  /\ L' = EnterLua(L, 0, MultRet, Idle)
  /\ UNCHANGED <<program, ok, expected, main>>

Instruction ==
  /\ phase = "running" /\ L.ci # << >>
  /\ Execute
  /\ UNCHANGED <<program, phase, ok, expected>>

Finished == Done /\ UNCHANGED vars

Next == Compile \/ Reload \/ Enter \/ Instruction \/ Finished

Spec == Init /\ [][Next]_vars

-----------------------------------------------------------------------------
\* The Lua frames and their instructions.

FrameAt(i) == L.ci[i]
ProtoOfFrame(i) == ProtoAt(main, L.funs[FrameAt(i).fun].path)

\* luaF_getlocalname: the local variables at an instruction, in the order
\* of their registers.
LocalsAt(p, pc) ==
  SelectSeq(p.locvars, LAMBDA v : v.startpc <= pc /\ pc < v.endpc)

\* The check of close_func, for a function and all those in it.
RECURSIVE AllChecked(_)
AllChecked(p) == CheckCode(p) /\ \A j \in DOMAIN p.p : AllChecked(p.p[j])

\* Every program shows and returns what the manual says it does, whatever
\* jumps, registers and constants the code generator chose, also when the
\* function has been dumped and loaded again.
RunsAsWritten ==
  /\ phase = "running" => IsPrefix(L.trace, expected.trace)
  /\ Done => /\ L.trace = expected.trace
             /\ [i \in DOMAIN L.results |-> Shown(L.results[i])]
                = [i \in DOMAIN expected.results |-> Shown(expected.results[i])]

\* No assertion of the parser and the code generator fails: registers are
\* freed in the order they were reserved, a tail call starts at the first
\* free register, the last item of a list is the one that stays open ...
\* and the functions they emit, before and after they are dumped and loaded
\* again, pass the checker of close_func and luaU_undump.
CodeIsSound == phase = "loaded" => ok /\ AllChecked(main)

\* The machine's own assertions (lvm.c, the head of luaV_execute): the top is
\* that of the frame unless the instruction takes an open list of values,
\* and each frame lies above the registers its caller still needs.
StackSound ==
  /\ Running => L.top = Frame.top \/ CheckOpenOp(I)
  /\ \A i \in DOMAIN L.ci :
       /\ FrameAt(i).func < FrameAt(i).base /\ FrameAt(i).top < StackSize
       /\ FrameAt(i).top = FrameAt(i).base + ProtoOfFrame(i).maxstacksize
       /\ i > 1 => FrameAt(i).func >= FrameAt(i - 1).base
  /\ L.top \in Registers

\* An upvalue that is still open belongs to a local variable in scope in
\* the frame whose register it is, or to one that the next instruction
\* closes, OP_CLOSE or the OP_RETURN at the end of the function: a block or
\* a loop that is left closes what its closures captured.
OpenUpvaluesInScope ==
  \A u \in DOMAIN L.upvals : L.upvals[u].open =>
    \E i \in DOMAIN L.ci :
      LET r == L.upvals[u].at - FrameAt(i).base
          p == ProtoOfFrame(i)
          next == p.code[FrameAt(i).pc]
      IN  /\ r \in 0..(p.maxstacksize - 1)
          /\ i < Len(L.ci) => L.upvals[u].at < FrameAt(i + 1).func
          /\ \/ r < Len(LocalsAt(p, FrameAt(i).pc))
             \/ next.op = "CLOSE" /\ next.a <= r
             \/ next.op = "RETURN"
=============================================================================
