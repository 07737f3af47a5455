------------------------------- MODULE LuaGC -------------------------------
(***************************************************************************)
(* The incremental collector of Lua (lgc.c) against the program that runs  *)
(* between its steps: tri-colour marking with two whites, the barriers     *)
(* behind every store, the atomic end of the mark phase, weak tables,      *)
(* upvalues (lfunc.c), strings found again in the string table, userdata   *)
(* with a __gc, the sweep, and full collections that interrupt all that.   *)
(*                                                                         *)
(* A value is an object of the heap.  The fields of an object and the      *)
(* slots of a stack are a set of them; the lists of gray objects and those *)
(* of userdata are sets as well: the collector may take them in any order. *)
(* The loops of the atomic step are actions of their own between which no  *)
(* program runs.                                                           *)
(***************************************************************************)
EXTENDS Naturals, FiniteSets

CONSTANTS
    Threads, Tables, Closures, Upvals, Userdata, Strings,  \* memory for objects
    MainThread, Registry,   \* the roots
    WeakTables,             \* tables with weak values, and __mode "v"
    Heaps,                  \* bound: sets of objects the heap may hold at once
    MaxStack,               \* bound: values the program keeps on a stack
    MaxFields               \* bound: values it keeps in another object

ASSUME RootsAssumption == MainThread \in Threads /\ Registry \in Tables \ WeakTables
ASSUME WeakAssumption == WeakTables \subseteq Tables
Objects == Threads \cup Tables \cup Closures \cup Upvals \cup Userdata \cup Strings
ASSUME MemoryAssumption == IsFiniteSet(Objects)

(* An object is of one kind. *)
ASSUME KindsAssumption ==
    /\ Threads \cap (Tables \cup Closures \cup Upvals \cup Userdata \cup Strings) = {}
    /\ Tables \cap (Closures \cup Upvals \cup Userdata \cup Strings) = {}
    /\ Closures \cap (Upvals \cup Userdata \cup Strings) = {}
    /\ Upvals \cap (Userdata \cup Strings) = {}
    /\ Userdata \cap Strings = {}

ASSUME HeapsAssumption == \A H \in Heaps : H \subseteq Objects
ASSUME BoundsAssumption == MaxStack \in Nat /\ MaxFields \in Nat

Values == Objects \ Upvals
Roots == {MainThread, Registry}

VARIABLES
    alloc,          \* the objects allocated
    refs,           \* the fields of each object, the stack of a thread, the value of an upvalue
    open,           \* the open upvalues, and the thread whose stack holds the value of each
    colour,         \* the mark of each object
    finalized,      \* userdata with FINALIZEDBIT
    called,         \* history: those whose __gc was called
    missed,         \* history: those whose __gc GCTM could not call
    gcstate,        \* where the collector is
    gray, grayagain, weak,  \* the lists of objects to traverse
    udlist,         \* the userdata after the main thread in rootgc
    tmudata,        \* the userdata whose __gc is due
    tosweep,        \* what the sweep has not visited
    full            \* luaC_fullgc: "no", finishing a "sweep", or in its own cycle, "mark"

heap == <<alloc, refs, open>>
lists == <<gray, grayagain, weak>>
udata == <<finalized, called, missed, udlist, tmudata>>
vars == <<heap, colour, udata, gcstate, lists, tosweep, full>>

(* The two whites by the part they play: "white" is that of new objects,   *)
(* currentwhite, and "dead" is otherwhite.                                 *)
Whites == {"white", "dead"}
White(x) == colour[x] \in Whites
Black(x) == colour[x] = "black"
Dead(x) == colour[x] = "dead"
AtomicStages == {"remark", "reweak", "regray", "preserve"}

(* The userdata that GCTM has taken for their __gc. *)
Taken == called \cup missed

TypeOK ==
    /\ Roots \subseteq alloc /\ alloc \subseteq Objects
    /\ refs \in [Objects -> SUBSET Objects]
    /\ DOMAIN open \subseteq Upvals \cap alloc
    /\ \A v \in DOMAIN open : open[v] \in Threads
    /\ colour \in [Objects -> Whites \cup {"gray", "black"}]
    /\ Taken \subseteq finalized /\ finalized \subseteq Userdata
    /\ gcstate \in {"pause", "propagate", "sweepstring", "sweep", "finalize"} \cup AtomicStages
    /\ gray \cup grayagain \cup weak \subseteq Objects
    /\ udlist \cap tmudata = {} /\ udlist \cup tmudata = Userdata \cap alloc
    /\ tosweep \subseteq Objects
    /\ full \in {"no", "sweep", "mark"}

Init ==
    /\ alloc = Roots
    /\ refs = [x \in Objects |-> {}]
    /\ open = << >>
    /\ colour = [x \in Objects |-> "white"]
    /\ finalized = {} /\ called = {} /\ missed = {}
    /\ gcstate = "pause"
    /\ gray = {} /\ grayagain = {} /\ weak = {}
    /\ udlist = {} /\ tmudata = {}
    /\ tosweep = {} /\ full = "no"

-----------------------------------------------------------------------------
(* Marking. *)

(* What traversing x marks.  The stack of a thread holds the values of its *)
(* open upvalues; a table with weak values marks none of them.             *)
Stack(t) == refs[t] \cup UNION {refs[v] : v \in {u \in DOMAIN open : open[u] = t}}
Children(x) ==
    CASE x \in WeakTables -> {}
      [] x \in Threads    -> Stack(x)
      [] OTHER            -> refs[x]

(* reallymarkobject for what is white in X: it goes on to the value of an  *)
(* upvalue and to the tables of a userdata at once.                        *)
MarkedFrom(X, col) ==
    LET whites(Y) == {y \in Y : col[y] \in Whites}
        given  == whites(X)
        values == given \cup whites(UNION {refs[v] : v \in given \cap Upvals})
    IN  values \cup whites(UNION {refs[u] : u \in values \cap Userdata})

(* Their new marks: userdata are never gray, open upvalues never black. *)
Painted(M, col) ==
    [x \in Objects |->
        IF x \notin M THEN col[x]
        ELSE IF x \in Userdata \cup (Upvals \ DOMAIN open) THEN "black" ELSE "gray"]

(* Those that reallymarkobject links into the gray list. *)
Queued(M) == M \cap (Tables \cup Closures \cup Threads)

(* propagatemark on x. *)
Traverse(x) ==
    LET M == MarkedFrom(Children(x), colour) IN
    /\ colour' = [Painted(M, colour) EXCEPT
                    ![x] = IF x \in WeakTables \cup Threads THEN "gray" ELSE "black"]
    /\ gray' = (gray \ {x}) \cup Queued(M)
    /\ weak' = IF x \in WeakTables THEN weak \cup {x} ELSE weak
    /\ grayagain' = IF x \in Threads THEN grayagain \cup {x} ELSE grayagain

MarkRoot ==
    LET M == MarkedFrom(Roots, colour) IN
    /\ colour' = Painted(M, colour)
    /\ gray' = Queued(M) /\ grayagain' = {} /\ weak' = {}
    /\ gcstate' = "propagate"

(* GCSpause. *)
Start ==
    /\ gcstate = "pause"
    /\ MarkRoot
    /\ UNCHANGED <<heap, udata, tosweep, full>>

(* GCSpropagate, and the calls of propagateall in the atomic step. *)
Propagate ==
    /\ \/ gcstate = "propagate" /\ \E x \in gray : Traverse(x)
       \/ gcstate \in AtomicStages /\ gray # {} /\ Traverse(CHOOSE x \in gray : TRUE)
    /\ UNCHANGED <<heap, udata, gcstate, tosweep, full>>

(* Mutant: remarkupvals is left out. *)
RemarkUpvalsMissing ==
    /\ gcstate = "propagate" /\ gray = {}
    /\ gcstate' = "remark"
    /\ UNCHANGED <<heap, udata, colour, lists, tosweep, full>>

(* The atomic step begins: remarkupvals.  An open upvalue may be reachable *)
(* when the thread that holds its value is not.                            *)
RemarkUpvals ==
    LET M == MarkedFrom(UNION {refs[v] : v \in {u \in DOMAIN open : colour[u] = "gray"}}, colour) IN
    /\ gcstate = "propagate" /\ gray = {}
    /\ gcstate' = "remark"
    /\ colour' = Painted(M, colour)
    /\ gray' = Queued(M)
    /\ UNCHANGED <<heap, udata, grayagain, weak, tosweep, full>>

(* The weak tables are traversed again, and the running thread marked. *)
RunningThreads == {MainThread} \cup (Stack(MainThread) \cap Threads)
RemarkWeak ==
    /\ gcstate = "remark" /\ gray = {}
    /\ gcstate' = "reweak"
    /\ \E L \in RunningThreads :
          LET M == MarkedFrom({L}, colour) IN
          /\ colour' = Painted(M, colour)
          /\ gray' = weak \cup Queued(M)
    /\ weak' = {}
    /\ UNCHANGED <<heap, udata, grayagain, tosweep, full>>

(* So are the threads and the tables stored into meanwhile. *)
RemarkGrayAgain ==
    /\ gcstate = "reweak" /\ gray = {}
    /\ gcstate' = "regray"
    /\ gray' = grayagain /\ grayagain' = {}
    /\ UNCHANGED <<heap, udata, colour, weak, tosweep, full>>

(* Mutant: FINALIZEDBIT is not looked at. *)
DueAgain(u) == White(u)
Due(u) == White(u) /\ u \notin finalized

(* luaC_separateudata(L, 0) and marktmu: the userdata found dead move to   *)
(* tmudata and are kept for their __gc.                                    *)
SeparateUdata ==
    /\ gcstate = "regray" /\ gray = {}
    /\ gcstate' = "preserve"
    /\ LET dead    == {u \in udlist : Due(u)}
           later   == tmudata \cup dead
           remade  == [x \in Objects |-> IF x \in later THEN "white" ELSE colour[x]]
           M       == MarkedFrom(later, remade)
       IN  /\ udlist' = udlist \ dead
           /\ tmudata' = later
           /\ finalized' = finalized \cup dead
           /\ colour' = Painted(M, remade)
           /\ gray' = Queued(M)
    /\ UNCHANGED <<heap, called, missed, grayagain, weak, tosweep, full>>

(* iscleared, of a value: strings are never weak, and userdata leave the   *)
(* tables before they are finalized.                                       *)
Cleared(y) == y \notin Strings /\ (White(y) \/ y \in finalized)

(* The flip of currentwhite: the whites change their parts. *)
Flipped(col) ==
    [x \in Objects |-> IF x \notin alloc \/ col[x] \notin Whites THEN col[x]
                       ELSE IF col[x] = "white" THEN "dead" ELSE "white"]

(* Mutant: the strings in weak tables are not marked. *)
FinishAtomicUnmarked ==
    /\ gcstate = "preserve" /\ gray = {}
    /\ gcstate' = "sweepstring"
    /\ refs' = [h \in Objects |-> IF h \in weak THEN {y \in refs[h] : ~Cleared(y)} ELSE refs[h]]
    /\ colour' = Flipped(colour)
    /\ tosweep' = alloc \ (DOMAIN open \cup tmudata)
    /\ UNCHANGED <<alloc, open, udata, lists, full>>

(* Mutant: the sweep starts at the main thread, where userdata begin. *)
FinishAtomicUdata ==
    /\ gcstate = "preserve" /\ gray = {}
    /\ gcstate' = "sweepstring"
    /\ refs' = [h \in Objects |-> IF h \in weak THEN {y \in refs[h] : ~Cleared(y)} ELSE refs[h]]
    /\ colour' = Flipped(Painted({s \in Strings \cap UNION {refs[h] : h \in weak} : White(s)}, colour))
    /\ tosweep' = Roots \cup udlist
    /\ UNCHANGED <<alloc, open, udata, lists, full>>

(* cleartable, and the whites change their roles. *)
FinishAtomic ==
    /\ gcstate = "preserve" /\ gray = {}
    /\ gcstate' = "sweepstring"
    /\ refs' = [h \in Objects |-> IF h \in weak THEN {y \in refs[h] : ~Cleared(y)} ELSE refs[h]]
    /\ colour' = Flipped(Painted({s \in Strings \cap UNION {refs[h] : h \in weak} : White(s)}, colour))
    /\ tosweep' = alloc \ (DOMAIN open \cup tmudata)
    /\ UNCHANGED <<alloc, open, udata, lists, full>>

-----------------------------------------------------------------------------
(* Sweeping and finalizing. *)

Whitened(X) == [y \in Objects |-> IF y \in X THEN "white" ELSE colour[y]]

(* sweeplist on x; the open upvalues of a thread are swept with it, and    *)
(* when it is freed the rest of them are closed.  The value of a dead open *)
(* upvalue remains on the stack.                                           *)
SweepObject(x) ==
    LET upvals == {v \in DOMAIN open : open[v] = x}
        freed  == {y \in upvals \cup {x} : Dead(y)}
        closed == IF x \in freed THEN upvals ELSE upvals \cap freed
    IN  /\ alloc' = alloc \ freed
        /\ refs' = [y \in Objects |->
                      IF y \in freed THEN {}
                      ELSE IF y = x /\ x \in Threads THEN refs[x] \cup UNION {refs[v] : v \in freed \cap upvals}
                      ELSE refs[y]]
        /\ open' = [v \in DOMAIN open \ closed |-> open[v]]
        /\ colour' = Whitened(upvals \cup {x})
        /\ udlist' = udlist \ freed
        /\ finalized' = finalized \ freed
        /\ called' = called \ freed
        /\ missed' = missed \ freed
        /\ tosweep' = tosweep \ {x}

(* GCSsweepstring: a list of the string table holds one string. *)
SweepString ==
    /\ gcstate = "sweepstring"
    /\ IF tosweep \cap Strings = {}
       THEN /\ gcstate' = "sweep"
            /\ UNCHANGED <<heap, colour, udata, tosweep>>
       ELSE /\ \E s \in tosweep \cap Strings : SweepObject(s)
            /\ UNCHANGED <<gcstate, tmudata>>
    /\ UNCHANGED <<lists, full>>

(* GCSsweep: GCSWEEPMAX is 1, so the program may run after every object. *)
Sweep ==
    /\ gcstate = "sweep"
    /\ \E x \in tosweep : SweepObject(x)
    /\ gcstate' = IF tosweep' = {} THEN "finalize" ELSE "sweep"
    /\ UNCHANGED <<tmudata, lists, full>>

(* GCSfinalize: GCTM puts one of tmudata back into its list and calls its  *)
(* __gc, with the userdata as argument on the stack of the running thread. *)
(* An error in the __gc leaves luaC_fullgc.                                *)
TakeDue(u) ==
    /\ gcstate = "finalize" /\ full # "sweep"
    /\ tmudata' = tmudata \ {u}
    /\ udlist' = udlist \cup {u}
    /\ colour' = [colour EXCEPT ![u] = "white"]
    /\ full' \in {full, "no"}
    /\ UNCHANGED <<alloc, open, finalized, gcstate, lists, tosweep>>

CallGCTM ==
    \E u \in tmudata :
        /\ TakeDue(u)
        /\ called' = called \cup {u}
        /\ \E L \in RunningThreads : refs' = [refs EXCEPT ![L] = @ \cup {u}]
        /\ UNCHANGED missed

(* luaD_call raises before it enters the __gc (C stack overflow, no memory *)
(* for the stack or the CallInfo), or the metatable has lost the __gc.     *)
CallGCTMFails ==
    \E u \in tmudata :
        /\ TakeDue(u)
        /\ missed' = missed \cup {u}
        /\ UNCHANGED <<refs, called>>

EndCycle ==
    /\ gcstate = "finalize" /\ tmudata = {} /\ full # "sweep"
    /\ gcstate' = "pause" /\ full' = "no"
    /\ UNCHANGED <<heap, colour, udata, lists, tosweep>>

(* luaC_fullgc starts its own cycle once the sweep under way is finished. *)
FullRestart ==
    /\ full = "sweep" /\ gcstate = "finalize"
    /\ MarkRoot
    /\ full' = "mark"
    /\ UNCHANGED <<heap, udata, tosweep>>

Collector ==
    \/ Start \/ Propagate
    \/ RemarkUpvals \/ RemarkWeak \/ RemarkGrayAgain \/ SeparateUdata \/ FinishAtomic
    \/ SweepString \/ Sweep \/ CallGCTM \/ CallGCTMFails \/ EndCycle \/ FullRestart

-----------------------------------------------------------------------------
(* The program.  It runs between two steps of the collector and in a __gc. *)
ProgramRuns ==
    \/ full = "no" /\ gcstate \notin AtomicStages
    \/ full = "mark" /\ gcstate = "finalize"

collector == <<finalized, called, missed, tmudata, gcstate, weak, tosweep, full>>

(* luaC_fullgc: a mark phase under way is given up, its marks are swept    *)
(* away.                                                                   *)
FullGC ==
    /\ ProgramRuns
    /\ full' = "sweep"
    /\ IF gcstate \in {"pause", "propagate"}
       THEN /\ gcstate' = "sweepstring"
            /\ tosweep' = alloc \ (DOMAIN open \cup tmudata)
            /\ gray' = {} /\ grayagain' = {} /\ weak' = {}
       ELSE UNCHANGED <<gcstate, tosweep, lists>>
    /\ UNCHANGED <<heap, colour, udata>>

(* Stacks are never black and need no barrier. *)
Pushed(L, y) == [refs EXCEPT ![L] = @ \cup {y}]
Fits(X) == \E H \in Heaps : alloc \cup X \subseteq H \cup Roots
Room(L, y) == y \in Stack(L) \/ Cardinality(refs[L]) < MaxStack

(* A new table, closure without upvalues, userdata or coroutine. *)
NewObject(L, x) ==
    /\ ProgramRuns /\ Room(L, x) /\ Fits({x})
    /\ alloc' = alloc \cup {x}
    /\ colour' = [colour EXCEPT ![x] = "white"]
    /\ refs' = Pushed(L, x)
    /\ udlist' = IF x \in Userdata THEN udlist \cup {x} ELSE udlist
    /\ UNCHANGED <<open, gray, grayagain, collector>>

(* luaS_newlstr: a string still in the table is used again, dead or not. *)
NewString(L, s) ==
    /\ ProgramRuns /\ Room(L, s) /\ Fits({s})
    /\ alloc' = alloc \cup {s}
    /\ colour' = IF s \notin alloc \/ Dead(s) THEN [colour EXCEPT ![s] = "white"] ELSE colour
    /\ refs' = Pushed(L, s)
    /\ UNCHANGED <<open, udlist, gray, grayagain, collector>>

(* OP_CLOSURE with an upvalue of the closure that runs. *)
NewClosureSharing(L, f, v) ==
    /\ ProgramRuns /\ Room(L, f) /\ Fits({f})
    /\ alloc' = alloc \cup {f}
    /\ colour' = [colour EXCEPT ![f] = "white"]
    /\ refs' = [Pushed(L, f) EXCEPT ![f] = {v}]
    /\ UNCHANGED <<open, udlist, gray, grayagain, collector>>

(* OP_CLOSURE with a variable of the running function: luaF_findupval      *)
(* finds the open upvalue of its slot, dead or not, or makes one.          *)
NewClosureOver(L, f, v, X) ==
    /\ ProgramRuns /\ Room(L, f) /\ Fits({f, v})
    /\ v \in alloc => X = refs[v]
    /\ alloc' = alloc \cup {f, v}
    /\ open' = [u \in DOMAIN open \cup {v} |-> IF u = v THEN L ELSE open[u]]
    /\ colour' = [colour EXCEPT ![f] = "white",
                                ![v] = IF v \notin alloc \/ Dead(v) THEN "white" ELSE @]
    /\ refs' = [Pushed(L, f) EXCEPT ![f] = {v}, ![v] = X]
    /\ UNCHANGED <<udlist, gray, grayagain, collector>>

(* Mutant: no barrier. *)
BarrierBackMissing(t, y) == UNCHANGED <<colour, gray, grayagain>>

(* luaC_barrierback: a table is traversed again. *)
BarrierBack(t, y) ==
    /\ IF White(y) /\ Black(t)
       THEN /\ colour' = [colour EXCEPT ![t] = "gray"]
            /\ grayagain' = grayagain \cup {t}
       ELSE UNCHANGED <<colour, grayagain>>
    /\ UNCHANGED gray

(* luaC_barrierf: the value is marked, or, when the marks are of no use    *)
(* any more, the object unmarked.                                          *)
BarrierForward(o, y) ==
    /\ IF White(y) /\ Black(o)
       THEN LET M == MarkedFrom({y}, colour) IN
            IF gcstate = "propagate"
            THEN colour' = Painted(M, colour) /\ gray' = gray \cup Queued(M)
            ELSE colour' = [colour EXCEPT ![o] = "white"] /\ UNCHANGED gray
       ELSE UNCHANGED <<colour, gray>>
    /\ UNCHANGED grayagain

(* What the program reads without keeping it: its stack, the registry and  *)
(* the fields of the registry, its global variables.                       *)
Readable(x) == (refs[x] \ Upvals) \cup UNION {refs[v] : v \in refs[x] \cap Upvals}
AtHand(L) == Stack(L) \cup {Registry} \cup Readable(Registry)

(* Assignments to a field of a table, to an upvalue of a C function, to    *)
(* the environment or the metatable of a userdata.                         *)
Store(L, x, y) ==
    /\ ProgramRuns
    /\ x \in Tables \cup Closures \cup Userdata
    /\ x \in Userdata => y \in Tables
    /\ y \notin refs[x] /\ Cardinality(refs[x]) < MaxFields
    /\ refs' = [refs EXCEPT ![x] = @ \cup {y}]
    /\ IF x \in Tables THEN BarrierBack(x, y) ELSE BarrierForward(x, y)
    /\ UNCHANGED <<alloc, open, udlist, collector>>

(* The field is assigned nil. *)
Clear(L, x, y) ==
    /\ ProgramRuns
    /\ x \notin Threads /\ y \notin Upvals
    /\ refs' = [refs EXCEPT ![x] = @ \ {y}]
    /\ UNCHANGED <<alloc, open, udlist, colour, gray, grayagain, collector>>

(* OP_SETUPVAL of the closure f; an open upvalue is never black. *)
SetUpval(v, y) ==
    /\ ProgramRuns
    /\ refs' = [refs EXCEPT ![v] = {y}]
    /\ BarrierForward(v, y)
    /\ UNCHANGED <<alloc, open, udlist, collector>>

(* The function assigns to its variable itself. *)
SetLocal(v, X) ==
    /\ ProgramRuns
    /\ refs' = [refs EXCEPT ![v] = X]
    /\ UNCHANGED <<alloc, open, udlist, colour, gray, grayagain, collector>>

(* A field, the value of an upvalue or a value of another stack is read. *)
Load(L, x, y) ==
    /\ ProgramRuns /\ Room(L, y)
    /\ refs' = Pushed(L, y)
    /\ UNCHANGED <<alloc, open, udlist, colour, gray, grayagain, collector>>

(* lua_xmove, or the arguments of lua_resume. *)
XMove(L, c, y) ==
    /\ ProgramRuns /\ Room(c, y)
    /\ refs' = Pushed(c, y)
    /\ UNCHANGED <<alloc, open, udlist, colour, gray, grayagain, collector>>

Pop(L, y) ==
    /\ ProgramRuns
    /\ refs' = [refs EXCEPT ![L] = @ \ {y}]
    /\ UNCHANGED <<alloc, open, udlist, colour, gray, grayagain, collector>>

(* luaF_close for the upvalues V of the slots that go: the dead ones are   *)
(* freed, the others take their value with them, and one that was marked   *)
(* becomes black behind a barrier (luaC_linkupval).                        *)
CloseUpvals(L, V) ==
    LET freed  == {v \in V : Dead(v)}
        marked == {v \in V : colour[v] = "gray"}
        M      == IF gcstate = "propagate"
                  THEN MarkedFrom(UNION {refs[v] : v \in marked}, colour) ELSE {}
    IN  /\ ProgramRuns
        /\ V # {}
        /\ alloc' = alloc \ freed
        /\ open' = [v \in DOMAIN open \ V |-> open[v]]
        /\ refs' = [x \in Objects |-> IF x \in freed THEN {} ELSE refs[x]]
        /\ colour' = [x \in Objects |->
                        IF x \in freed THEN "white"
                        ELSE IF x \in marked THEN (IF gcstate = "propagate" THEN "black" ELSE "white")
                        ELSE Painted(M, colour)[x]]
        /\ gray' = gray \cup Queued(M)
        /\ UNCHANGED <<udlist, grayagain, collector>>

(* The running closures are on the stack.  A variable holds a value or nil. *)
Locals(L) == {{}} \cup {{y} : y \in Stack(L)}
UpvalsOf(f) == refs[f] \cap Upvals
OpenIn(L) == {v \in DOMAIN open : open[v] = L}

Program ==
    \/ FullGC
    \/ \E L \in RunningThreads :
          \/ \E x \in Values \ (alloc \cup Strings) : NewObject(L, x)
          \/ \E s \in Strings : NewString(L, s)
          \/ \E f \in Closures \ alloc :
                \/ \E g \in Stack(L) \cap Closures : \E v \in UpvalsOf(g) : NewClosureSharing(L, f, v)
                \/ \E v \in OpenIn(L) \cup (Upvals \ alloc), X \in Locals(L) : NewClosureOver(L, f, v, X)
          \/ \E f \in Stack(L) \cap Closures :
                \E v \in UpvalsOf(f), y \in Stack(L) : SetUpval(v, y)
          \/ \E v \in OpenIn(L), X \in Locals(L) : SetLocal(v, X)
          \/ \E x \in AtHand(L) :
                \/ \E y \in Stack(L) : Store(L, x, y)
                \/ \E y \in refs[x] : Clear(L, x, y)
                \/ \E y \in Readable(x) : Load(L, x, y)
          \/ \E c \in Stack(L) \cap Threads, y \in Stack(L) : XMove(L, c, y)
          \/ \E y \in refs[L] : Pop(L, y)
          \/ \E V \in SUBSET OpenIn(L) : CloseUpvals(L, V)

Next == Collector \/ Program

(* The program allocates, so the collector is run. *)
Spec == Init /\ [][Next]_vars
FairSpec == Spec /\ WF_vars(Collector)

-----------------------------------------------------------------------------
(* The properties. *)

(* What the program can reach, and what finalizers will.  Strings are not  *)
(* weak, they stay in the weak tables.                                     *)
Holds(x) == Children(x) \cup (refs[x] \cap Strings)
Reachable ==
    LET reach[R \in SUBSET Objects] ==
            LET S == R \cup UNION {Holds(x) : x \in R}
            IN  IF S = R THEN R ELSE reach[S]
    IN  reach[Roots \cup tmudata]

(* An object is in one of the lists linked through its gclist, and in none *)
(* once it is freed, although the lists keep their objects in the sweep.   *)
ListsAreSound ==
    /\ gray \cup grayagain \cup weak \subseteq alloc
    /\ gray \cap grayagain = {} /\ gray \cap weak = {} /\ grayagain \cap weak = {}
    /\ \A x \in gray : colour[x] = "gray"

(* Memory is safe: what is not known dead holds no pointer to freed        *)
(* memory, weak tables included, and neither do the roots and the lists.   *)
NoDangling ==
    /\ TypeOK
    /\ ListsAreSound
    /\ \A x \in alloc : ~Dead(x) => refs[x] \subseteq alloc

(* During the mark phase nothing black points to anything white, but for   *)
(* the userdata that wait in tmudata since an earlier cycle.               *)
TriColour ==
    gcstate \in {"propagate", "remark", "reweak", "regray"} =>
        \A x \in alloc : Black(x) /\ x \notin tmudata => \A y \in Children(x) : ~White(y)

(* What the collector is to free is not reachable, and outside a sweep     *)
(* nothing is dead: a full collection may give up a mark phase and sweep   *)
(* everything without freeing anything.                                    *)
OnlyGarbageIsDead ==
    /\ \A x \in Reachable : ~Dead(x)
    /\ gcstate \notin {"sweepstring", "sweep"} => \A x \in alloc : ~Dead(x)

(* A userdata with a __gc is not freed before GCTM has taken it for its    *)
(* __gc, and is taken once: a __gc that was called is not called again,    *)
(* and one that an error kept from being called never is.                  *)
FinalizedBeforeFreed ==
    [][/\ \A u \in Userdata : u \in alloc \ alloc' => u \in Taken
       /\ Taken \cap tmudata = {}]_vars

(* Garbage is freed in the end, or a finalizer or the string table brings  *)
(* it back: nothing is garbage for ever.                                   *)
GarbageIsFreed ==
    \A x \in Objects \ Roots : []<>(x \notin alloc \/ x \in Reachable)
=============================================================================
