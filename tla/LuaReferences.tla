--------------------------- MODULE LuaReferences ---------------------------
(***************************************************************************)
(* The references LuaInterface keeps into the Lua registry: LuaBase        *)
(* objects (tables, functions, threads, ...) created, used and disposed by *)
(* the thread that runs Lua, finalized by the thread of the .NET garbage   *)
(* collector when the program forgot them, and Lua.Leaked/Lua.CleanLeaks,  *)
(* which carry the references of forgotten objects from the one thread to  *)
(* the other.                                                              *)
(*                                                                         *)
(* The source has two builds of Leaked and CleanLeaks: with NET_4 defined  *)
(* they share a concurrent queue, without it a list under a lock.  The     *)
(* module models both.                                                     *)
(***************************************************************************)
EXTENDS Integers, Sequences, SequencesExt

CONSTANTS
    Wrappers,   \* the LuaBase objects of the program
    Objects,    \* the Lua values they refer to
    Nil,        \* the value of an empty registry slot
    MaxRef,     \* bound: no reference above it is ever created
    MaxErrors,  \* bound: how many allocations inside Lua fail
    Builds      \* the values of the symbol NET_4 to look at

ASSUME BuildsAssumption == Builds \subseteq BOOLEAN
ASSUME MaxErrorsAssumption == MaxErrors \in Nat
ASSUME MaxRefAssumption == MaxRef \in Nat
ASSUME ObjectsAssumption == Nil \notin Objects /\ (Objects \cup {Nil}) \cap Int = {}

VARIABLES
    NET_4,      \* the build: this never changes
    reg,        \* the integer keys of the Lua registry
    wrap,       \* each LuaBase: its state, its Reference, the value it was made for
    rooted,     \* those the program can still reach
    registered, \* those the garbage collector will finalize once unreachable
    open,       \* Lua._L is not null
    leaked,     \* Lua._leaked_refs
    hasLeaked,  \* Lua._has_leaked_refs
    lock,       \* the thread inside the lock of _leaked_refs
    errors,     \* how many allocations have failed
    main,       \* where the thread that runs Lua is in CleanLeaks
    fin         \* where the finalizer thread is in ~LuaBase, and for whom

vars == <<NET_4, reg, wrap, rooted, registered, open, leaked, hasLeaked, lock, errors, main, fin>>

Registry ==
    INSTANCE RegistryRefs WITH
        held <- {r \in 1 .. MaxRef : reg[r] \in Objects}, failed <- errors > 0

Slots == 1 .. MaxRef
NoRef == 0
Unused == [state |-> "unused", ref |-> NoRef, obj |-> Nil]
Live(w) == wrap[w].state = "live"
Idle == [at |-> "idle"]
Finalizing(w) == fin # Idle /\ fin.w = w

TypeOK ==
    /\ NET_4 \in Builds
    /\ reg \in [0 .. MaxRef -> Objects \cup Slots \cup {Nil}]
    /\ wrap \in [Wrappers -> [state : {"unused", "live", "disposed"},
                              ref : {NoRef} \cup Slots, obj : Objects \cup {Nil}]]
    /\ rooted \subseteq Wrappers
    /\ registered \subseteq Wrappers
    /\ open \in BOOLEAN
    /\ leaked \in Seq(Slots)
    /\ hasLeaked \in BOOLEAN
    /\ lock \in {"none", "main", "finalizer"}
    /\ errors \in 0 .. MaxErrors
    /\ main \in {Idle} \cup [at : {"dequeue", "lock"}]
                \cup [at : {"unref"}, ref : Slots]
                \cup [at : {"foreach"}, next : Nat]
    /\ fin \in {Idle} \cup [at : {"isnull", "add", "tryenter", "owner"}, w : Wrappers]

Init ==
    /\ NET_4 \in Builds
    /\ reg = [i \in 0 .. MaxRef |-> Nil]
    /\ wrap = [w \in Wrappers |-> Unused]
    /\ rooted = {} /\ registered = {}
    /\ open = TRUE
    /\ leaked = << >> /\ hasLeaked = FALSE
    /\ lock = "none"
    /\ errors = 0
    /\ main = Idle /\ fin = Idle

-----------------------------------------------------------------------------
(* A store into slot i runs out of memory. *)
StoreFails(i) ==
    /\ errors < MaxErrors
    /\ Registry!MayLackKey(reg, i)
    /\ errors' = errors + 1

-----------------------------------------------------------------------------
(* The thread that runs Lua. *)

(* A new LuaBase for the value o: its constructor calls luaL.ref.  The     *)
(* memory of one the collector is done with is free for another.           *)
Create(w, o) ==
    /\ main = Idle /\ open
    /\ ~Live(w) /\ w \notin rooted \cup registered
    /\ ~Finalizing(w)
    /\ \E r \in Registry!RefChoices(reg) \cap Slots :
          /\ reg' = Registry!AfterRef(reg, r, o)
          /\ wrap' = [wrap EXCEPT ![w] = [state |-> "live", ref |-> r, obj |-> o]]
    /\ rooted' = rooted \cup {w}
    /\ registered' = registered \cup {w}
    /\ UNCHANGED <<NET_4, errors, open, leaked, hasLeaked, lock, main, fin>>

(* luaL.ref throws out of the constructor: no Owner was set, so nothing is *)
(* left to release.                                                        *)
CreateFails ==
    /\ main = Idle /\ open
    /\ \E r \in Registry!RefChoices(reg) \cap Slots :
          /\ StoreFails(r)
          /\ reg' = Registry!Unlinked(reg, r)
    /\ UNCHANGED <<NET_4, wrap, rooted, registered, open, leaked, hasLeaked, lock, main, fin>>

(* Mutants of Dispose: it does not look whether it ran before; it forgets  *)
(* to give the reference back.                                             *)
DisposeTwice(w) ==
    /\ main = Idle /\ w \in rooted
    /\ reg' = IF wrap[w].ref # NoRef /\ open THEN Registry!AfterUnref(reg, wrap[w].ref) ELSE reg
    /\ wrap' = [wrap EXCEPT ![w].state = "disposed"]
    /\ registered' = registered \ {w}
    /\ UNCHANGED <<NET_4, errors, rooted, open, leaked, hasLeaked, lock, main, fin>>

DisposeKeeps(w) ==
    /\ main = Idle /\ w \in rooted
    /\ wrap' = [wrap EXCEPT ![w].state = "disposed"]
    /\ registered' = registered \ {w}
    /\ UNCHANGED <<NET_4, errors, reg, rooted, open, leaked, hasLeaked, lock, main, fin>>

(* LuaBase.Dispose(): the reference is given back unless the Lua it is in  *)
(* is closed, and the finalizer will not run.                              *)
Dispose(w) ==
    /\ main = Idle /\ w \in rooted
    /\ reg' = IF Live(w) /\ open THEN Registry!AfterUnref(reg, wrap[w].ref) ELSE reg
    /\ wrap' = [wrap EXCEPT ![w].state = "disposed"]
    /\ registered' = registered \ {w}
    /\ UNCHANGED <<NET_4, errors, rooted, open, leaked, hasLeaked, lock, main, fin>>

(* luaL.unref throws out of Dispose before Owner is cleared. *)
DisposeFails(w) ==
    /\ main = Idle /\ w \in rooted
    /\ Live(w) /\ open
    /\ StoreFails(0)
    /\ reg' = Registry!AfterFailedUnref(reg, wrap[w].ref)
    /\ UNCHANGED <<NET_4, wrap, rooted, registered, open, leaked, hasLeaked, lock, main, fin>>

(* The program loses its last reference to the LuaBase. *)
Forget(w) ==
    /\ main = Idle /\ w \in rooted
    /\ rooted' = rooted \ {w}
    /\ UNCHANGED <<NET_4, errors, reg, wrap, registered, open, leaked, hasLeaked, lock, main, fin>>

(* Lua.Dispose(): lua_close, and _L is null from then on. *)
DisposeLua ==
    /\ main = Idle /\ open
    /\ open' = FALSE
    /\ UNCHANGED <<NET_4, errors, reg, wrap, rooted, registered, leaked, hasLeaked, lock, main, fin>>

(* CleanLeaks is called: the locking build looks at the flag first. *)
CleanBegin ==
    /\ main = Idle /\ open
    /\ NET_4 \/ hasLeaked
    /\ main' = [at |-> IF NET_4 THEN "dequeue" ELSE "lock"]
    /\ UNCHANGED <<NET_4, errors, reg, wrap, rooted, registered, open, leaked, hasLeaked, lock, fin>>

(* Mutant: the reference is read and left in the queue (TryPeek). *)
CleanPeek ==
    /\ main.at = "dequeue"
    /\ main' = IF leaked = << >> THEN Idle ELSE [at |-> "unref", ref |-> Head(leaked)]
    /\ UNCHANGED <<NET_4, errors, reg, wrap, rooted, registered, open, leaked, hasLeaked, lock, fin>>

(* NET_4: one turn of the loop over ConcurrentQueue.TryDequeue. *)
CleanDequeue ==
    /\ main.at = "dequeue"
    /\ IF leaked = << >>
       THEN main' = Idle /\ UNCHANGED leaked
       ELSE /\ main' = [at |-> "unref", ref |-> Head(leaked)]
            /\ leaked' = Tail(leaked)
    /\ UNCHANGED <<NET_4, errors, reg, wrap, rooted, registered, open, hasLeaked, lock, fin>>

CleanUnref ==
    /\ main.at = "unref"
    /\ \/ /\ reg' = Registry!AfterUnref(reg, main.ref)
          /\ main' = [at |-> "dequeue"]
          /\ UNCHANGED errors
       \/ /\ StoreFails(0)
          /\ reg' = Registry!AfterFailedUnref(reg, main.ref)
          /\ main' = Idle
    /\ UNCHANGED <<NET_4, wrap, rooted, registered, open, leaked, hasLeaked, lock, fin>>

(* The other build: lock (refs) waits for the finalizer to leave. *)
CleanLock ==
    /\ main.at = "lock"
    /\ lock = "none"
    /\ lock' = "main"
    /\ main' = [at |-> "foreach", next |-> 1]
    /\ UNCHANGED <<NET_4, errors, reg, wrap, rooted, registered, open, leaked, hasLeaked, fin>>

(* One turn of the loop over the list; an exception leaves the lock with   *)
(* the list and the flag as they were.                                     *)
CleanEach ==
    /\ main.at = "foreach"
    /\ main.next <= Len(leaked)
    /\ \/ /\ reg' = Registry!AfterUnref(reg, leaked[main.next])
          /\ main' = [main EXCEPT !.next = @ + 1]
          /\ UNCHANGED <<errors, lock>>
       \/ /\ StoreFails(0)
          /\ reg' = Registry!AfterFailedUnref(reg, leaked[main.next])
          /\ main' = Idle
          /\ lock' = "none"
    /\ UNCHANGED <<NET_4, wrap, rooted, registered, open, leaked, hasLeaked, fin>>

(* Mutant: the flag is not reset. *)
CleanEndKeepsFlag ==
    /\ main.at = "foreach"
    /\ main.next > Len(leaked)
    /\ leaked' = << >>
    /\ lock' = "none"
    /\ main' = Idle
    /\ UNCHANGED <<NET_4, errors, reg, wrap, rooted, registered, open, hasLeaked, fin>>

CleanEnd ==
    /\ main.at = "foreach"
    /\ main.next > Len(leaked)
    /\ leaked' = << >>
    /\ hasLeaked' = FALSE
    /\ lock' = "none"
    /\ main' = Idle
    /\ UNCHANGED <<NET_4, errors, reg, wrap, rooted, registered, open, fin>>

CleanStep == CleanDequeue \/ CleanUnref \/ CleanLock \/ CleanEach \/ CleanEnd

-----------------------------------------------------------------------------
(* The finalizer thread, in ~LuaBase. *)

(* The collector finds w unreachable.  A disposed LuaBase returns at once. *)
Finalize(w) ==
    /\ fin = Idle
    /\ w \in registered \ rooted
    /\ registered' = registered \ {w}
    /\ fin' = IF Live(w) THEN [at |-> "isnull", w |-> w] ELSE Idle
    /\ UNCHANGED <<NET_4, errors, reg, wrap, rooted, open, leaked, hasLeaked, lock, main>>

(* Mutant: the test of _L is the wrong way round. *)
FinIsNullInverted ==
    /\ fin.at = "isnull"
    /\ fin' = [fin EXCEPT !.at = IF open THEN "owner" ELSE IF NET_4 THEN "add" ELSE "tryenter"]
    /\ UNCHANGED <<NET_4, errors, reg, wrap, rooted, registered, open, leaked, hasLeaked, lock, main>>

(* Leaked looks whether the Lua is still there. *)
FinIsNull ==
    /\ fin.at = "isnull"
    /\ fin' = [fin EXCEPT !.at = IF ~open THEN "owner" ELSE IF NET_4 THEN "add" ELSE "tryenter"]
    /\ UNCHANGED <<NET_4, errors, reg, wrap, rooted, registered, open, leaked, hasLeaked, lock, main>>

(* Mutant: Monitor.Enter, which waits for the lock. *)
FinEnter ==
    /\ fin.at = "tryenter"
    /\ lock = "none"
    /\ lock' = "finalizer"
    /\ fin' = [fin EXCEPT !.at = "add"]
    /\ UNCHANGED <<NET_4, errors, reg, wrap, rooted, registered, open, leaked, hasLeaked, main>>

(* Monitor.TryEnter: Leaked gives up when the lock is taken, and Dispose   *)
(* asks for the finalizer to be run again.                                 *)
FinTryEnter ==
    /\ fin.at = "tryenter"
    /\ IF lock = "none"
       THEN /\ lock' = "finalizer"
            /\ fin' = [fin EXCEPT !.at = "add"]
            /\ UNCHANGED registered
       ELSE /\ registered' = registered \cup {fin.w}
            /\ fin' = [fin EXCEPT !.at = "owner"]
            /\ UNCHANGED lock
    /\ UNCHANGED <<NET_4, errors, reg, wrap, rooted, open, leaked, hasLeaked, main>>

(* The reference goes to the list, or to the queue. *)
FinAdd ==
    /\ fin.at = "add"
    /\ leaked' = Append(leaked, wrap[fin.w].ref)
    /\ hasLeaked' = ~NET_4
    /\ lock' = IF NET_4 THEN lock ELSE "none"
    /\ fin' = [fin EXCEPT !.at = "owner"]
    /\ UNCHANGED <<NET_4, errors, reg, wrap, rooted, registered, open, main>>

(* Dispose ends with Owner = null, whatever Leaked answered. *)
FinOwner ==
    /\ fin.at = "owner"
    /\ wrap' = [wrap EXCEPT ![fin.w].state = "disposed"]
    /\ fin' = Idle
    /\ UNCHANGED <<NET_4, errors, reg, rooted, registered, open, leaked, hasLeaked, lock, main>>

FinStep == FinIsNull \/ FinTryEnter \/ FinAdd \/ FinOwner

-----------------------------------------------------------------------------
Next ==
    \/ \E w \in Wrappers, o \in Objects : Create(w, o)
    \/ CreateFails
    \/ \E w \in Wrappers : Dispose(w) \/ DisposeFails(w) \/ Forget(w) \/ Finalize(w)
    \/ DisposeLua
    \/ CleanBegin \/ CleanStep
    \/ FinStep

(* The finalizer thread is scheduled; the thread that runs Lua owes        *)
(* nothing, not even to leave the lock: it may be suspended for ever.      *)
FinalizerFairness == WF_vars(FinStep)

(* The host program calls CleanLeaks now and then, its thread runs, and    *)
(* the collector finalizes what is unreachable in the order it finds it.   *)
HostFairness ==
    /\ FinalizerFairness
    /\ WF_vars(CleanBegin) /\ WF_vars(CleanStep)
    /\ \A w \in Wrappers : SF_vars(Finalize(w))

Spec == Init /\ [][Next]_vars /\ FinalizerFairness

-----------------------------------------------------------------------------
(* A LuaBase is responsible for its reference until the finalizer has      *)
(* passed it on; when Leaked refuses it, it stays with the LuaBase, which  *)
(* the collector is to finalize again.                                     *)
Owns(w) == Live(w) /\ ~(Finalizing(w) /\ fin.at = "owner" /\ w \notin registered)

(* The references passed on that CleanLeaks has not given back yet. *)
Pending ==
    CASE main.at = "unref"   -> <<main.ref>> \o leaked
      [] main.at = "foreach" -> SubSeq(leaked, main.next, Len(leaked))
      [] OTHER               -> leaked

(* The properties of the registry end with the first memory error: what    *)
(* luaL.unref leaves then is another story.                                *)
Usable == open /\ errors = 0

(* LuaBase.push: as long as the Lua is open, a LuaBase finds the value it  *)
(* was made for under its reference, whatever the finalizer thread and     *)
(* CleanLeaks do with the references of others meanwhile.                  *)
WrappersResolve ==
    /\ TypeOK
    /\ Usable => \A w \in Wrappers : Owns(w) => reg[wrap[w].ref] = wrap[w].obj

(* No reference is about to be given back twice: those of LuaBases in use  *)
(* and those that wait for CleanLeaks are all different, and each of them  *)
(* still keeps a value, which is what RegistryRefs asks of its callers.    *)
ReleasedOnce ==
    Usable => /\ \A v, w \in Wrappers : Owns(v) /\ Owns(w) /\ wrap[v].ref = wrap[w].ref => v = w
              /\ IsInjective(Pending)
              /\ \A i \in DOMAIN Pending :
                    /\ reg[Pending[i]] \in Objects
                    /\ \A w \in Wrappers : Owns(w) => wrap[w].ref # Pending[i]

(* No reference is lost: while the Lua is open, every value in the         *)
(* registry belongs to a LuaBase or waits for CleanLeaks.                  *)
NoLostReference ==
    Usable => \A r \in Slots : reg[r] \in Objects =>
               \/ \E w \in Wrappers : Owns(w) /\ wrap[w].ref = r
               \/ \E i \in DOMAIN Pending : Pending[i] = r

(* The same of the build with the queue, where Leaked never refuses. *)
QueueLosesNothing == NET_4 => NoLostReference

(* The flag CleanLeaks reads without the lock never hides a reference from *)
(* it: when no thread is inside the lock, the flag tells whether the list  *)
(* has any.                                                                *)
FlagCovers ==
    ~NET_4 /\ lock = "none" => (hasLeaked <=> leaked # << >>)

(* No thread waits for the other for ever.  A finalizer ends even when the *)
(* thread that runs Lua is suspended inside the lock, and CleanLeaks ends  *)
(* however many finalizers run meanwhile.                                  *)
FinalizerNeverWaits == fin # Idle ~> fin = Idle
CleanLeaksReturns == HostFairness => (main # Idle ~> main = Idle)
NoThreadWaits == FinalizerNeverWaits /\ CleanLeaksReturns

(* What the program forgot without Dispose is released in the build with   *)
(* the queue: a value in the registry that no reachable LuaBase stands for *)
(* leaves it in the end, or the Lua is closed.                             *)
ForgottenIsReleased ==
    HostFairness =>
        \A r \in Slots :
            NET_4 /\ reg[r] \in Objects /\ (\A w \in rooted : Owns(w) => wrap[w].ref # r)
                ~> reg[r] \notin Objects \/ ~Usable
=============================================================================
