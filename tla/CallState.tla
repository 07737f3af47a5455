----------------------------- MODULE CallState -----------------------------
(***************************************************************************)
(* Calls, errors and coroutines: the one host stack on which the frames of *)
(* ldo.c, of luaV_execute and of C functions lie, whichever lua_State they *)
(* run on, and the fields of each lua_State that must agree with it.       *)
(* Errors are CLR exceptions (luaclr_settrythrowf): luaD_throw throws one, *)
(* and the innermost ftry on the host stack catches it, while the state    *)
(* keeps a chain of handlers of its own in errorJmp.  Managed C functions  *)
(* keep Lua._L at the lua_State that runs (luanet.entercfunction).         *)
(*                                                                         *)
(* Values, results and error objects are left out, and so is the yield     *)
(* from a debug hook.                                                      *)
(***************************************************************************)
EXTENDS Naturals, FiniteSets, Sequences, SequencesExt, FiniteSetsExt

CONSTANTS
    Main,           \* the main thread
    Coroutines,     \* the other threads
    None,           \* no lua_State
    Kinds,          \* bound: the functions called, of "lua", "native", "managed"
    MaxCCalls,      \* LUAI_MAXCCALLS
    ExtraCCalls,    \* what luaD_call allows above it: LUAI_MAXCCALLS >> 3
    MaxFrames,      \* bound: frames on the host stack
    MaxCalls        \* bound: CallInfos of a thread

ASSUME ThreadsAssumption == Main \notin Coroutines /\ None \notin Coroutines \cup {Main}
ASSUME KindsAssumption == Kinds \subseteq {"lua", "native", "managed"}
ASSUME BoundsAssumption == {MaxCCalls, ExtraCCalls, MaxFrames, MaxCalls} \subseteq Nat \ {0}

VARIABLES
    host,       \* the host stack
    th,         \* the fields of each lua_State
    interp,     \* Lua._L
    process     \* it "runs", has "exited", or an exception has left Lua code "torn"

vars == <<host, th, interp, process>>

Threads == Coroutines \cup {Main}

(* The frames of the host stack.  A frame that is called was entered       *)
(* through luaD_call, which counts it in nCcalls and returns with it.      *)
Program == [k |-> "program", L |-> Main]                    \* the host program
Exec(L, n, called) ==                                       \* luaV_execute, nexeccalls
    [k |-> "exec", L |-> L, n |-> n, called |-> called]
CFunc(L, old, called) ==                                    \* a C function
    [k |-> "c", L |-> L, saved |-> old, called |-> called]
Pcall(L, r, e) ==                                           \* luaD_pcall
    [k |-> "pcall", L |-> L, ef |-> e, errf |-> r.errf, jmp |-> r.jmp, nC |-> r.nC,
     ci |-> Len(r.ci), allow |-> r.allow, thrown |-> FALSE]
Resume(L, r) ==                                             \* lua_resume
    [k |-> "resume", L |-> L, jmp |-> r.jmp, thrown |-> FALSE]
Error(L, done, called) ==                                   \* luaG_errormsg
    [k |-> "error", L |-> L, handled |-> done, called |-> called]
NoHook(L, r, w) ==                                          \* luaD_callhook, GCTM
    [k |-> "nohook", L |-> L, what |-> w, old |-> r.allow]

Top == Last(host)
Running == Top.L
IsTry(f) == f.k \in {"pcall", "resume"}
IsManaged(f) == f.k = "c" /\ f.saved # None
Called(f) == f.k \in {"exec", "c", "error"} /\ f.called
Counts(f) == f.k = "resume" \/ Called(f)

ThreadState ==
    [status : {"ok", "yield", "error"}, ci : Seq({"lua", "c"}), nC : Nat, base : Nat,
     allow : BOOLEAN, errf : BOOLEAN, jmp : 0 .. Len(host), body : BOOLEAN]

TypeOK ==
    /\ host # << >> /\ host[1] = Program
    /\ \A i \in 2 .. Len(host) :
          /\ host[i].k \in {"exec", "c", "pcall", "resume", "error", "nohook"}
          /\ host[i].L \in Threads
          /\ host[i].k = "exec" => host[i].n \in Nat \ {0}
    /\ th \in [Threads -> ThreadState]
    /\ interp \in Threads
    /\ process \in {"runs", "exited", "torn"}

(* preinit_state; a coroutine has its body on its stack. *)
New(L) == [status |-> "ok", ci |-> << >>, nC |-> 0, base |-> 0,
           allow |-> TRUE, errf |-> FALSE, jmp |-> 0, body |-> L # Main]

Init ==
    /\ host = <<Program>>
    /\ th = [L \in Threads |-> New(L)]
    /\ interp = Main
    /\ process = "runs"

-----------------------------------------------------------------------------
(* Errors.  h is the host stack and t the threads when they are raised.    *)

Innermost(h) == LET I == {i \in DOMAIN h : IsTry(h[i])} IN IF I = {} THEN 0 ELSE Max(I)

(* Mutant: entercfunction without using or finally. *)
DisposedNever(h, i) == interp

(* The using statements of the managed functions an exception leaves. *)
Disposed(h, i) ==
    LET M == {j \in i + 1 .. Len(h) : IsManaged(h[j])}
    IN  IF M = {} THEN interp ELSE h[Min(M)].saved

(* Mutant of the error path of luaD_pcall. *)
PcallFailedKeepsHooks(r, f) ==
    [r EXCEPT !.nC = f.nC, !.ci = SubSeq(@, 1, f.ci), !.errf = f.errf, !.jmp = f.jmp]

PcallFailed(r, f) ==
    [r EXCEPT !.nC = f.nC, !.ci = SubSeq(@, 1, f.ci), !.allow = f.allow, !.errf = f.errf, !.jmp = f.jmp]

(* A thread after its last error: a coroutine that nobody resumes again, or *)
(* the main thread after a panic, whose status stays.                      *)
Dead == [status |-> "error", ci |-> << >>, nC |-> 0, base |-> 0,
         allow |-> TRUE, errf |-> FALSE, jmp |-> 0, body |-> FALSE]

(* Mutant: luaD_rawrunprotected leaves its handler after an error. *)
ResumeFailedKeepsHandler(r, f) == [Dead EXCEPT !.jmp = r.jmp]

ResumeFailed(r, f) == [Dead EXCEPT !.jmp = f.jmp]

(* The exception arrives at the ftry of frame i and luaD_rawrunprotected   *)
(* returns a status; without a frame it arrives in the host program.       *)
Caught(h, t, i) ==
    /\ host' = IF i = 0 THEN <<Program>> ELSE SubSeq(h, 1, i - 1)
    /\ th' = IF i = 0 THEN t
             ELSE [t EXCEPT ![h[i].L] = IF h[i].k = "pcall" THEN PcallFailed(@, h[i])
                                        ELSE ResumeFailed(@, h[i])]
    /\ interp' = Disposed(h, i)

(* luaD_throw leaves the error code with the handler of L and throws; when *)
(* L has none, resetstack leaves a thread that is dead, and panic throws.  *)
Throw(h, t, L) ==
    IF t[L].jmp # 0
    THEN Caught([h EXCEPT ![t[L].jmp].thrown = TRUE], t, Innermost(h))
    ELSE Caught(h, [t EXCEPT ![L] = Dead], Innermost(h))

-----------------------------------------------------------------------------
(* Calls. *)

CallInfo(kind) == IF kind = "lua" THEN "lua" ELSE "c"

(* luaD_precall; a managed C function enters with entercfunction. *)
Precall(h, t, L, kind, called) ==
    /\ host' = Append(h, IF kind = "lua" THEN Exec(L, 1, called)
                         ELSE CFunc(L, IF kind = "managed" THEN interp ELSE None, called))
    /\ th' = [t EXCEPT ![L].ci = Append(@, CallInfo(kind))]
    /\ interp' = IF kind = "managed" THEN L ELSE interp

(* luaD_call *)
DoCall(h, t, L, kind) ==
    LET n == t[L].nC + 1
        u == [t EXCEPT ![L].nC = n]
    IN  IF n = MaxCCalls
        THEN host' = Append(h, Error(L, FALSE, TRUE)) /\ th' = u /\ UNCHANGED interp
        ELSE IF n >= MaxCCalls + ExtraCCalls
        THEN Throw(h, u, L)
        ELSE Precall(h, u, L, kind, TRUE)

InC == Top.k \in {"program", "c"} \/ (Top.k = "nohook" /\ Top.what = "hook")
InLua == Top.k = "exec" /\ th[Running].status # "yield"
Room(n) == Len(host) + n <= MaxFrames

(* A frame of thread r ends, and its luaD_call with it. *)
Left(r, f) == [r EXCEPT !.nC = IF Called(f) THEN @ - 1 ELSE @]

(* lua_call by a C function, or a metamethod by Lua code. *)
CallFunction(kind) ==
    /\ InC \/ InLua
    /\ Room(1)
    /\ DoCall(host, th, Running, kind)
    /\ UNCHANGED process

(* lua_pcall and lua_cpcall *)
ProtectedCall(kind, e) ==
    /\ InC /\ Room(2)
    /\ LET L == Running
           t == [th EXCEPT ![L].errf = e, ![L].jmp = Len(host) + 1]
       IN  DoCall(Append(host, Pcall(L, th[L], e)), t, L, kind)
    /\ UNCHANGED process

(* OP_CALL: a Lua function is run by the same luaV_execute; luaD_precall   *)
(* runs a C function.                                                      *)
OpCallLua ==
    /\ InLua /\ Len(th[Running].ci) < MaxCalls
    /\ host' = [host EXCEPT ![Len(host)].n = @ + 1]
    /\ th' = [th EXCEPT ![Running].ci = Append(@, "lua")]
    /\ UNCHANGED <<interp, process>>

OpCallC(kind) ==
    /\ InLua /\ Room(1)
    /\ Precall(host, th, Running, kind, FALSE)
    /\ UNCHANGED process

OpReturn ==
    /\ InLua
    /\ IF Top.n > 1
       THEN /\ host' = [host EXCEPT ![Len(host)].n = @ - 1]
            /\ th' = [th EXCEPT ![Running].ci = Front(@)]
       ELSE /\ host' = Front(host)
            /\ th' = [th EXCEPT ![Running] = Left([th[Running] EXCEPT !.ci = Front(@)], Top)]
    /\ UNCHANGED <<interp, process>>

CReturns ==
    /\ Top.k = "c"
    /\ host' = Front(host)
    /\ th' = [th EXCEPT ![Running] = Left([th[Running] EXCEPT !.ci = Front(@)], Top)]
    /\ interp' = IF IsManaged(Top) THEN Top.saved ELSE interp
    /\ UNCHANGED process

(* luaD_rawrunprotected exits when the function returns although an error  *)
(* was thrown at this frame.                                               *)
Survives(f) == IF f.thrown THEN "exited" ELSE "runs"

PcallReturns ==
    /\ Top.k = "pcall"
    /\ host' = Front(host)
    /\ th' = [th EXCEPT ![Running].errf = Top.errf, ![Running].jmp = Top.jmp]
    /\ process' = Survives(Top)
    /\ UNCHANGED interp

-----------------------------------------------------------------------------
(* Raising errors. *)

(* lua_error by C code, luaG_runerror by Lua code. *)
RaiseError ==
    /\ InC \/ InLua
    /\ host' = Append(host, Error(Running, FALSE, FALSE))
    /\ UNCHANGED <<th, interp, process>>

(* luaG_errormsg calls the message handler, if there is one, and throws. *)
ErrorMessage(kind) ==
    /\ Top.k = "error" /\ ~Top.handled
    /\ IF th[Running].errf
       THEN DoCall(Append(Front(host), [Top EXCEPT !.handled = TRUE]), th, Running, kind)
       ELSE Throw(host, th, Running)
    /\ UNCHANGED process

HandlerReturns ==
    /\ Top.k = "error" /\ Top.handled
    /\ Throw(host, th, Running)
    /\ UNCHANGED process

(* A memory error goes past the message handler. *)
MemoryError ==
    /\ InC \/ InLua
    /\ Throw(host, th, Running)
    /\ UNCHANGED process

(* An exception that no managed function has turned into a Lua error. *)
ClrException ==
    /\ IsManaged(Top)
    /\ Caught(host, th, Innermost(host))
    /\ process' = IF Innermost(host) = 0 THEN "torn" ELSE "runs"

-----------------------------------------------------------------------------
(* Coroutines. *)

(* costatus, as luaB_coresume and LuaThread.Resume look at it. *)
Suspended(co) ==
    \/ th[co].status = "yield"
    \/ th[co].status = "ok" /\ th[co].ci = << >> /\ th[co].body

(* The CallInfos resume leaves to luaV_execute: those of the Lua functions *)
(* that wait, without the C function that yielded.                         *)
Resumed(r) ==
    IF r.status = "ok" THEN <<"lua">>
    ELSE IF Last(r.ci) = "c" THEN Front(r.ci) ELSE r.ci

(* Mutant: luaV_execute returns after the first function. *)
NexeccallsOne(r) == 1

(* resume hands all of them to one luaV_execute. *)
Nexeccalls(r) == Len(Resumed(r))

(* Mutant: lua_setlevel is not called. *)
LevelOwn(L, co) == th[co].nC

(* lua_setlevel *)
Level(L, co) == th[L].nC

(* resume_error takes what is on the stack of the coroutine. *)
ResumeError(r, n) == [r EXCEPT !.nC = n, !.body = @ /\ r.status = "yield"]

(* lua_resume up to luaV_execute. *)
Started(r, n) ==
    [r EXCEPT !.status = "ok", !.ci = Resumed(r), !.nC = n + 1, !.base = n + 1,
              !.jmp = Len(host) + 1, !.body = FALSE]

(* auxresume and LuaThread.Resume *)
ResumeThread(co) ==
    /\ InC /\ Room(2)
    /\ co # Running /\ Suspended(co)
    /\ LET n == Level(Running, co) IN
       IF n >= MaxCCalls
       THEN th' = [th EXCEPT ![co] = ResumeError(@, n)] /\ UNCHANGED host
       ELSE /\ th' = [th EXCEPT ![co] = Started(@, n)]
            /\ host' = host \o <<Resume(co, th[co]), Exec(co, Nexeccalls(th[co]), FALSE)>>
    /\ UNCHANGED <<interp, process>>

(* lua_checkstack(co, narg) runs out of memory: luaD_throw on a thread     *)
(* that does not run.                                                      *)
ResumeNoMemory(co) ==
    /\ InC
    /\ co # Running
    /\ Throw(host, th, co)
    /\ process' = IF Innermost(host) = 0 /\ Top # Program THEN "torn" ELSE "runs"

(* Mutant: lua_yield does not look at nCcalls. *)
YieldAnywhere ==
    /\ Top.k = "c"
    /\ Running # Main
    /\ th' = [th EXCEPT ![Running].status = "yield"]
    /\ host' = Front(host)
    /\ interp' = IF IsManaged(Top) THEN Top.saved ELSE interp
    /\ UNCHANGED process

(* A C function returns lua_yield(L, n). *)
Yield ==
    /\ Top.k = "c"
    /\ IF th[Running].nC > th[Running].base
       THEN host' = Append(host, Error(Running, FALSE, FALSE)) /\ UNCHANGED <<th, interp>>
       ELSE /\ th' = [th EXCEPT ![Running].status = "yield"]
            /\ host' = Front(host)
            /\ interp' = IF IsManaged(Top) THEN Top.saved ELSE interp
    /\ UNCHANGED process

(* luaV_execute leaves with PCRYIELD. *)
ExecYields ==
    /\ Top.k = "exec" /\ th[Running].status = "yield"
    /\ host' = Front(host)
    /\ UNCHANGED <<th, interp, process>>

ResumeReturns ==
    /\ Top.k = "resume"
    /\ host' = Front(host)
    /\ th' = [th EXCEPT ![Running].nC = @ - 1, ![Running].jmp = Top.jmp]
    /\ process' = Survives(Top)
    /\ UNCHANGED interp

-----------------------------------------------------------------------------
(* luaD_callhook, and GCTM for the __gc of a userdata. *)

CallHook ==
    /\ InLua \/ Top.k = "c"
    /\ Room(1) /\ th[Running].allow
    /\ host' = Append(host, NoHook(Running, th[Running], "hook"))
    /\ th' = [th EXCEPT ![Running].allow = FALSE]
    /\ UNCHANGED <<interp, process>>

CallGCTM(kind) ==
    /\ InC \/ InLua
    /\ Room(2)
    /\ DoCall(Append(host, NoHook(Running, th[Running], "gc")),
              [th EXCEPT ![Running].allow = FALSE], Running, kind)
    /\ UNCHANGED process

NoHookReturns ==
    /\ Top.k = "nohook"
    /\ host' = Front(host)
    /\ th' = [th EXCEPT ![Running].allow = Top.old]
    /\ UNCHANGED <<interp, process>>

-----------------------------------------------------------------------------
Next ==
    /\ process = "runs"
    /\ \/ \E kind \in Kinds :
             \/ CallFunction(kind) \/ ErrorMessage(kind) \/ CallGCTM(kind)
             \/ \E e \in BOOLEAN : ProtectedCall(kind, e)
       \/ \E kind \in Kinds \ {"lua"} : OpCallC(kind)
       \/ OpCallLua \/ OpReturn \/ CReturns \/ PcallReturns
       \/ RaiseError \/ HandlerReturns \/ MemoryError \/ ClrException
       \/ \E co \in Coroutines : ResumeThread(co) \/ ResumeNoMemory(co)
       \/ Yield \/ ExecYields \/ ResumeReturns
       \/ CallHook \/ NoHookReturns

Spec == Init /\ [][Next]_vars

-----------------------------------------------------------------------------
(* The properties are those of a process that runs.                        *)

Active(L) == \E i \in DOMAIN host : host[i].L = L

(* The protected calls of L, and the last of them before frame n. *)
Tries(L) == {i \in DOMAIN host : IsTry(host[i]) /\ host[i].L = L}
LastTry(L, n) == LET I == {i \in Tries(L) : i < n} IN IF I = {} THEN 0 ELSE Max(I)

(* The functions of L on the host stack. *)
Functions(L) ==
    LET from[i \in 0 .. Len(host)] ==
            IF i = 0 THEN << >>
            ELSE IF host[i].L # L THEN from[i - 1]
            ELSE CASE host[i].k = "exec" -> from[i - 1] \o [j \in 1 .. host[i].n |-> "lua"]
                   [] host[i].k = "c" -> Append(from[i - 1], "c")
                   [] OTHER -> from[i - 1]
    IN  from[Len(host)]

(* An error reaches the handler it was thrown at: the chain through        *)
(* errorJmp holds the protected calls of the thread in the order of the    *)
(* host stack, and the handler of the running thread is the innermost one  *)
(* of all threads, where the exception is caught.                          *)
HandlersMatch ==
    process = "runs" =>
        /\ th[Running].jmp = Innermost(host)
        /\ \A L \in Threads :
              /\ th[L].jmp = LastTry(L, Len(host) + 1)
              /\ \A i \in Tries(L) : host[i].jmp = LastTry(L, i)

(* nCcalls counts the C calls below a thread, those of the threads that    *)
(* resumed it included and after every error, so the host stack stays      *)
(* bounded whoever calls whom and whatever message handlers do.            *)
LevelsCounted ==
    process = "runs" =>
        LET Levels(n) == Cardinality({i \in 1 .. n : Counts(host[i])}) IN
        /\ th[Running].nC = Levels(Len(host))
        /\ \A i \in DOMAIN host : host[i].k = "resume" => th[host[i - 1].L].nC = Levels(i - 1)
        /\ th[Running].nC < MaxCCalls + ExtraCCalls

(* The CallInfos of a thread are its functions on the host stack: each     *)
(* luaV_execute returns after as many Lua functions as it runs.            *)
FramesMatch ==
    /\ TypeOK
    /\ process = "runs" =>
        \A L \in Threads : Active(L) /\ th[L].status # "yield" =>
            th[L].ci = Functions(L)

(* A yield crosses no C function and no protected call: what is left of    *)
(* the coroutine is one luaV_execute and the lua_resume that gets it.      *)
YieldsDirectly ==
    process = "runs" =>
        \A co \in Coroutines : th[co].status = "yield" =>
            /\ \A i \in 1 .. Len(th[co].ci) - 1 : th[co].ci[i] = "lua"
            /\ \A i \in DOMAIN host : host[i].L = co => host[i].k \in {"resume", "exec"}
            /\ Active(co) => co = Running

(* Lua._L is the thread of the managed function that runs, or that called  *)
(* into Lua last, after every return, error and yield.                     *)
CurrentThread ==
    process = "runs" =>
        interp = host[Max({i \in DOMAIN host : host[i] = Program \/ IsManaged(host[i])})].L

(* Hooks are off just while a hook or a __gc of the thread runs, and its   *)
(* message handler is the one of its innermost protected call.             *)
HooksAndHandlers ==
    process = "runs" =>
        \A L \in Threads :
            LET i == th[L].jmp IN
            /\ th[L].allow <=> \A j \in DOMAIN host : host[j].k = "nohook" => host[j].L # L
            /\ th[L].errf = (i # 0 /\ host[i].k = "pcall" /\ host[i].ef)

(* A protected call whose function returns was thrown no error.            *)
NeverExits == process # "exited"
=============================================================================
