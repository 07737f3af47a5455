----------------------------- MODULE ClrHandles -----------------------------
(***************************************************************************)
(* How Lua keeps CLR objects alive: luaclr.newref allocates a GCHandle and *)
(* puts it in a userdata, a metatable made by luaclr.newrefmeta gives the  *)
(* userdata its __gc, and __gc frees the handle when the Lua collector or  *)
(* lua_close finalizes the userdata.  Lua.Init makes such a userdata for   *)
(* the Lua object itself and leaves it in the registry.                    *)
(*                                                                         *)
(* The userdata pass through the states of the Lua collector: "bare" after *)
(* newref, "ready" with its metatable, "condemned" in the list tmudata of  *)
(* those whose __gc is due, "finalized" after it, "gone" when the memory   *)
(* is free.                                                                *)
(***************************************************************************)
EXTENDS Naturals, FiniteSets

CONSTANTS
    Userdata,       \* blocks of Lua memory a userdata may take
    Marker,         \* the userdata of the registry's LuaInterface marker
    Things,         \* the CLR objects
    Self,           \* the LuaInterface.Lua object
    MaxHandle       \* bound: GCHandle values

ASSUME SelfAssumption == Self \in Things /\ Marker \in Userdata
ASSUME BoundsAssumption == MaxHandle \in Nat \ {0}

VARIABLES
    handles,    \* the GCHandle table: each allocated handle and its target
    ud,         \* each userdata: its state, its contents, the object it was made for
    inLua,      \* the userdata Lua can reach
    roots,      \* the CLR objects the managed program can reach
    alive,      \* the CLR objects the .NET collector has not taken
    lua,        \* the lua_State: "open", "closing" or "closed"
    revived,    \* history: the userdata a __gc brought back
    lost        \* history: the handles no __gc will free, for one of three failures

vars == <<handles, ud, inLua, roots, alive, lua, revived, lost>>

NoHandle == 0
Gone == [state |-> "gone", contents |-> NoHandle, obj |-> Self]
Targets == {handles[h] : h \in DOMAIN handles}

TypeOK ==
    /\ DOMAIN handles \subseteq 1 .. MaxHandle
    /\ Targets \subseteq Things
    /\ ud \in [Userdata -> [state : {"gone", "bare", "ready", "condemned", "finalized"},
                            contents : 0 .. MaxHandle, obj : Things]]
    /\ inLua \subseteq {u \in Userdata : ud[u].state # "gone"}
    /\ roots \subseteq alive /\ alive \subseteq Things
    /\ lua \in {"open", "closing", "closed"}
    /\ revived \subseteq Userdata
    /\ lost \subseteq DOMAIN handles

(* A Lua object just made: Init has pushed it and stored it for good. *)
Init ==
    /\ handles = [h \in {1} |-> Self]
    /\ ud = [u \in Userdata |->
                IF u = Marker THEN [state |-> "ready", contents |-> 1, obj |-> Self] ELSE Gone]
    /\ inLua = {Marker}
    /\ roots = Things /\ alive = Things
    /\ lua = "open" /\ revived = {} /\ lost = {}

-----------------------------------------------------------------------------
(* luaclr.newref and the setmetatable that follows it in pushObject,       *)
(* pushType and inheritsFrom.  What a __gc pushes during lua_close comes   *)
(* after luaC_separateudata: its own __gc is never called.                 *)

NewRef(u, t) ==
    /\ lua # "closed"
    /\ ud[u].state = "gone"
    /\ t \in roots
    /\ \E h \in 1 .. MaxHandle \ DOMAIN handles :
          /\ handles' = [x \in DOMAIN handles \cup {h} |-> IF x = h THEN t ELSE handles[x]]
          /\ ud' = [ud EXCEPT ![u] = [state |-> "bare", contents |-> h, obj |-> t]]
          /\ lost' = IF lua = "closing" THEN lost \cup {h} ELSE lost
    /\ inLua' = inLua \cup {u}
    /\ UNCHANGED <<roots, alive, lua, revived>>

SetRefMeta(u) ==
    /\ lua # "closed"
    /\ ud[u].state = "bare" /\ u \in inLua
    /\ ud' = [ud EXCEPT ![u].state = "ready"]
    /\ UNCHANGED <<handles, inLua, roots, alive, lua, revived, lost>>

(* newrefmeta or BuildObjectMetatable raises an error: the userdata goes   *)
(* with the stack.                                                         *)
PushFails(u) ==
    /\ lua # "closed"
    /\ ud[u].state = "bare" /\ u \in inLua
    /\ inLua' = inLua \ {u}
    /\ lost' = lost \cup {ud[u].contents}
    /\ UNCHANGED <<handles, ud, roots, alive, lua, revived>>

(* luaclr.getref hands the object back to managed code. *)
GetRef(u) ==
    /\ lua # "closed" /\ u \in inLua
    /\ ud[u].contents # NoHandle
    /\ roots' = roots \cup {handles[ud[u].contents]}
    /\ UNCHANGED <<handles, ud, inLua, alive, lua, revived, lost>>

-----------------------------------------------------------------------------
(* The Lua side. *)

Unlink(u) ==
    /\ lua # "closed" /\ u \in inLua \ {Marker}
    /\ ud[u].state # "bare"
    /\ inLua' = inLua \ {u}
    /\ UNCHANGED <<handles, ud, roots, alive, lua, revived, lost>>

(* A __gc written in Lua (newproxy) finds a userdata that was condemned    *)
(* together with its proxy, and stores it somewhere.                       *)
Revive(u) ==
    /\ lua # "closed"
    /\ ud[u].state \in {"condemned", "finalized"}
    /\ inLua' = inLua \cup {u}
    /\ revived' = revived \cup {u}
    /\ UNCHANGED <<handles, ud, roots, alive, lua, lost>>

(* Mutant: the mark of the userdata is not looked at. *)
SeparateReachable(u) ==
    /\ lua = "open"
    /\ ud[u].state = "ready" /\ u # Marker
    /\ ud' = [ud EXCEPT ![u].state = "condemned"]
    /\ UNCHANGED <<handles, inLua, roots, alive, lua, revived, lost>>

(* luaC_separateudata in the atomic step of a collection. *)
Separate(u) ==
    /\ lua = "open"
    /\ ud[u].state = "ready" /\ u \notin inLua
    /\ ud' = [ud EXCEPT ![u].state = "condemned"]
    /\ UNCHANGED <<handles, inLua, roots, alive, lua, revived, lost>>

(* Mutant of freeref: the contents are kept. *)
FreedKeepingContents(u) == [ud EXCEPT ![u].state = "finalized"]

(* luaclr.freeref: the contents are cleared with the handle. *)
Freed(u) == [ud EXCEPT ![u].state = "finalized", ![u].contents = NoHandle]

(* Mutant: __gc takes the userdata for something else (isref). *)
CallGcSkips(u) ==
    /\ lua # "closed"
    /\ ud[u].state = "condemned"
    /\ ud' = [ud EXCEPT ![u].state = "finalized"]
    /\ UNCHANGED <<handles, inLua, roots, alive, lua, revived, lost>>

(* GCTM calls __gc, which calls isref and freeref. *)
CallGc(u) ==
    /\ lua # "closed"
    /\ ud[u].state = "condemned"
    /\ handles' = [h \in DOMAIN handles \ {ud[u].contents} |-> handles[h]]
    /\ ud' = Freed(u)
    /\ UNCHANGED <<inLua, roots, alive, lua, revived, lost>>

(* An error before freeref: luaD_call raises before it enters __gc (C      *)
(* stack overflow, no memory for the stack or the CallInfo), or isref      *)
(* does.  GCTM has put the userdata back as finalized by then, so its      *)
(* __gc is not called again; lua_close goes on with the others.            *)
CallGcFails(u) ==
    /\ lua # "closed"
    /\ ud[u].state = "condemned"
    /\ ud' = [ud EXCEPT ![u].state = "finalized"]
    /\ lost' = lost \cup {ud[u].contents}
    /\ UNCHANGED <<handles, inLua, roots, alive, lua, revived>>

(* The sweep frees what has no __gc or had it called. *)
Sweep(u) ==
    /\ lua = "open"
    /\ ud[u].state \in {"bare", "finalized"} /\ u \notin inLua
    /\ ud' = [ud EXCEPT ![u] = Gone]
    /\ revived' = revived \ {u}
    /\ UNCHANGED <<handles, inLua, roots, alive, lua, lost>>

(* Mutant: luaC_separateudata(L, 0), which passes over what is reachable. *)
CloseBeginUnreachable ==
    /\ lua = "open"
    /\ Self \in roots \cup (Things \ alive)
    /\ \A u \in inLua : ud[u].state # "bare"
    /\ ud' = [u \in Userdata |->
                IF ud[u].state = "ready" /\ u \notin inLua
                THEN [ud[u] EXCEPT !.state = "condemned"] ELSE ud[u]]
    /\ lua' = "closing"
    /\ UNCHANGED <<handles, inLua, roots, alive, revived, lost>>

(* Lua.Dispose by the program, or by ~Lua once the object is collected:    *)
(* lua_close condemns every userdata that has a __gc, reachable or not.    *)
CloseBegin ==
    /\ lua = "open"
    /\ Self \in roots \cup (Things \ alive)
    /\ \A u \in inLua : ud[u].state # "bare"
    /\ ud' = [u \in Userdata |->
                IF ud[u].state = "ready" THEN [ud[u] EXCEPT !.state = "condemned"] ELSE ud[u]]
    /\ lua' = "closing"
    /\ UNCHANGED <<handles, inLua, roots, alive, revived, lost>>

(* luaC_callGCTM has emptied tmudata; close_state frees all memory. *)
CloseEnd ==
    /\ lua = "closing"
    /\ \A u \in Userdata : ud[u].state # "condemned"
    /\ \A u \in inLua : ud[u].state # "bare"
    /\ ud' = [u \in Userdata |-> Gone]
    /\ inLua' = {}
    /\ lua' = "closed"
    /\ UNCHANGED <<handles, roots, alive, revived, lost>>

-----------------------------------------------------------------------------
(* The managed side. *)

Forget(t) ==
    /\ t \in roots
    /\ roots' = roots \ {t}
    /\ UNCHANGED <<handles, ud, inLua, alive, lua, revived, lost>>

(* The .NET collector takes what neither the program nor a handle reaches. *)
Collect(t) ==
    /\ t \in alive \ (roots \cup Targets)
    /\ alive' = alive \ {t}
    /\ UNCHANGED <<handles, ud, inLua, roots, lua, revived, lost>>

Next ==
    \/ \E u \in Userdata, t \in Things : NewRef(u, t)
    \/ \E u \in Userdata : \/ SetRefMeta(u) \/ PushFails(u) \/ GetRef(u)
                           \/ Unlink(u) \/ Revive(u)
                           \/ Separate(u) \/ CallGc(u) \/ CallGcFails(u) \/ Sweep(u)
    \/ CloseBegin \/ CloseEnd
    \/ \E t \in Things : Forget(t) \/ Collect(t)

(* Both collectors run; a push that has begun ends; lua_close, once        *)
(* called, gets through its list (each __gc is called, or fails for good). *)
Fairness ==
    /\ \A u \in Userdata : WF_vars(SetRefMeta(u)) /\ WF_vars(Separate(u)) /\ WF_vars(CallGc(u))
    /\ WF_vars(CloseBegin /\ Self \notin alive)
    /\ WF_vars(CloseEnd)
    /\ \A t \in Things : WF_vars(Collect(t))

Spec == Init /\ [][Next]_vars
FairSpec == Spec /\ Fairness

-----------------------------------------------------------------------------
(* getref dereferences no stale handle: while a userdata has contents,     *)
(* they are an allocated handle, the handle is of the object the userdata  *)
(* was made for, and no other userdata has it.  The runtime hands a freed  *)
(* handle value out again, so a userdata that kept one would come to name  *)
(* a foreign object.                                                       *)
HandlesMatch ==
    /\ TypeOK
    /\ \A u \in Userdata : ud[u].contents # NoHandle =>
          /\ ud[u].contents \in DOMAIN handles
          /\ handles[ud[u].contents] = ud[u].obj
    /\ \A u, v \in Userdata :
          ud[u].contents = ud[v].contents /\ ud[u].contents # NoHandle => u = v

(* A CLR object Lua can reach is usable: the .NET collector has not taken  *)
(* it and its userdata still names it.  lua_close finalizes what is        *)
(* reachable as well, and a __gc may bring back what was finalized.        *)
ReachableIsUsable ==
    \A u \in inLua :
        \/ ud[u].contents # NoHandle /\ ud[u].obj \in alive
        \/ lua = "closing" \/ u \in revived

(* Every GCHandle is in the contents of a userdata whose __gc is still to  *)
(* come, so the end of the userdata ends the handle: none is left behind,  *)
(* not even by lua_close, but those of a push that an error cut short, of  *)
(* a push during lua_close, and of a __gc that failed before freeref.      *)
NoHandleLeak ==
    \A h \in DOMAIN handles \ lost :
        \E u \in Userdata : /\ ud[u].contents = h
                            /\ ud[u].state \in {"bare", "ready", "condemned"}

(* An object pushed to Lua does not outlive its use: once Lua cannot reach *)
(* the userdata, its handle is freed, even if a finalizer brings it back.  *)
(* (Or lost: its own __gc failed, or a __gc pushed it during lua_close.)   *)
UnlinkedIsFreed ==
    \A u \in Userdata, h \in 1 .. MaxHandle :
        ud[u].state = "ready" /\ u \notin inLua /\ ud[u].contents = h
            ~> h \notin DOMAIN handles \/ h \in lost

(* A Lua object the program forgot is finalized and closes its state.      *)
ForgottenLuaCloses == [](Self \notin roots) ~> lua = "closed"
=============================================================================
