------------------------- MODULE ClrHandles_proofs -------------------------
(***************************************************************************)
(* Proofs about ClrHandles, for any number of userdata, CLR objects and    *)
(* GCHandle values, and any order of the two collectors, of __gc functions *)
(* and of errors: no userdata names a foreign or freed handle, what Lua    *)
(* reaches is usable, and every handle has the userdata that will free it. *)
(***************************************************************************)
EXTENDS ClrHandles, TLAPS

(* A userdata has contents from newref until its __gc frees the handle. *)
Holding == {"bare", "ready", "condemned"}
ContentsOK ==
    \A u \in Userdata : /\ ud[u].state \in Holding => ud[u].contents # NoHandle
                        /\ ud[u].state = "gone" => ud[u].contents = NoHandle

HandlesOK ==
    \A u \in Userdata : ud[u].contents # NoHandle =>
        ud[u].contents \in DOMAIN handles /\ handles[ud[u].contents] = ud[u].obj
Unshared ==
    \A u, v \in Userdata : ud[u].contents = ud[v].contents /\ ud[u].contents # NoHandle => u = v

(* A handle is a root of the .NET collector. *)
TargetsAlive == \A h \in DOMAIN handles : handles[h] \in alive

(* What Lua reaches is condemned or finalized only if a __gc brought it    *)
(* back or lua_close runs.                                                 *)
ReachOK ==
    /\ lua = "open" => \A u \in inLua : ud[u].state \in {"bare", "ready"} \/ u \in revived
    /\ lua = "closed" => inLua = {}

(* A userdata loses a handle that is not lost only to its own __gc: one    *)
(* whose push is under way is on the stack, a finalized one has lost it,   *)
(* and lua_close has condemned all there are.  No __gc frees a lost handle *)
(* a second time: the userdata is not condemned (again).                   *)
PushOK ==
    \A u \in Userdata :
        /\ ud[u].contents # NoHandle /\ ud[u].contents \notin lost =>
              /\ ud[u].state \in Holding
              /\ ud[u].state = "bare" => u \in inLua
              /\ lua = "closing" => ud[u].state = "condemned"
        /\ ud[u].state = "condemned" => ud[u].contents \notin lost
        /\ ud[u].state = "ready" /\ lua = "open" => ud[u].contents \notin lost
        /\ ud[u].state = "bare" /\ u \in inLua /\ lua = "open" => ud[u].contents \notin lost

IInv ==
    /\ TypeOK
    /\ ContentsOK /\ HandlesOK /\ Unshared
    /\ TargetsAlive
    /\ ReachOK /\ PushOK
    /\ NoHandleLeak

UdType == [state : {"gone", "bare", "ready", "condemned", "finalized"}, contents : 0 .. MaxHandle, obj : Things]

LEMMA InitIInv == Init => IInv
<1> SUFFICES ASSUME Init PROVE IInv
  OBVIOUS
<1>1. /\ handles = [h \in {1} |-> Self] /\ DOMAIN handles = {1} /\ handles[1] = Self
      /\ ud[Marker] = [state |-> "ready", contents |-> 1, obj |-> Self]
      /\ \A u \in Userdata \ {Marker} : ud[u] = Gone
  BY SelfAssumption DEF Init
<1>2. TypeOK
  BY <1>1, SelfAssumption, BoundsAssumption DEF Init, TypeOK, Targets, Gone, NoHandle
<1>3. ContentsOK /\ HandlesOK /\ Unshared
  BY <1>1 DEF ContentsOK, HandlesOK, Unshared, Holding, Gone, NoHandle
<1>4. TargetsAlive
  BY <1>1, SelfAssumption DEF Init, TargetsAlive
<1>5. ReachOK /\ PushOK /\ NoHandleLeak
  BY <1>1, SelfAssumption DEF Init, ReachOK, PushOK, NoHandleLeak, Holding, Gone, NoHandle
<1> QED BY <1>2, <1>3, <1>4, <1>5 DEF IInv

(* luaclr.newref: the new handle is nobody's contents yet. *)
LEMMA NewRefIInv ==
    ASSUME IInv, NEW u \in Userdata, NEW t \in Things, NewRef(u, t)
    PROVE  IInv'
<1>1. PICK h \in 1 .. MaxHandle \ DOMAIN handles :
         /\ handles' = [x \in DOMAIN handles \cup {h} |-> IF x = h THEN t ELSE handles[x]]
         /\ ud' = [ud EXCEPT ![u] = [state |-> "bare", contents |-> h, obj |-> t]]
         /\ lost' = IF lua = "closing" THEN lost \cup {h} ELSE lost
  BY DEF NewRef
<1>2. /\ DOMAIN handles' = DOMAIN handles \cup {h} /\ handles'[h] = t
      /\ \A x \in DOMAIN handles : handles'[x] = handles[x]
      /\ h # NoHandle /\ h \in 0 .. MaxHandle
  BY <1>1, BoundsAssumption DEF NoHandle
<1>3. /\ ud'[u].state = "bare" /\ ud'[u].contents = h /\ ud'[u].obj = t
      /\ \A v \in Userdata \ {u} : ud'[v] = ud[v]
      /\ ud' \in [Userdata -> UdType]
  BY <1>1, <1>2 DEF IInv, TypeOK, UdType
<1>4. lua # "closed" /\ ud[u].state = "gone" /\ t \in roots /\ t \in alive
      /\ inLua' = inLua \cup {u} /\ roots' = roots /\ alive' = alive /\ lua' = lua /\ revived' = revived
  BY DEF NewRef, IInv, TypeOK
<1>5. TypeOK'
  <2>1. lost' \subseteq DOMAIN handles'
    BY <1>1, <1>2 DEF IInv, TypeOK
  <2>2. Targets' \subseteq Things /\ DOMAIN handles' \subseteq 1 .. MaxHandle
    BY <1>2 DEF IInv, TypeOK, Targets
  <2>3. inLua' \subseteq {v \in Userdata : ud'[v].state # "gone"}
    BY <1>3, <1>4 DEF IInv, TypeOK
  <2> QED BY <1>3, <1>4, <2>1, <2>2, <2>3 DEF IInv, TypeOK, UdType
<1>6. \A v \in Userdata : ud[v].contents # h
  BY <1>1, <1>2 DEF IInv, HandlesOK
<1>7. ContentsOK' /\ HandlesOK' /\ Unshared'
  BY <1>2, <1>3, <1>6 DEF IInv, ContentsOK, HandlesOK, Unshared, Holding
<1>8. TargetsAlive'
  BY <1>2, <1>4 DEF IInv, TargetsAlive
<1>9. ReachOK' /\ PushOK'
  <2>1. inLua \subseteq Userdata
    BY DEF IInv, TypeOK
  <2>2. ReachOK'
    BY <1>3, <1>4, <2>1 DEF IInv, ReachOK
  <2>3. /\ h \notin lost /\ (lua = "closing" => h \in lost') /\ (lua = "open" => h \notin lost')
        /\ \A x \in 0 .. MaxHandle : x # h => (x \in lost' <=> x \in lost)
    BY <1>1 DEF IInv, TypeOK
  <2>4. \A v \in Userdata : ud[v].contents \in 0 .. MaxHandle
    BY DEF IInv, TypeOK
  <2>5. lua \in {"open", "closing", "closed"}
    BY DEF IInv, TypeOK
  <2>6. PushOK'
    <3> SUFFICES ASSUME NEW v \in Userdata
                 PROVE  /\ ud'[v].contents # NoHandle /\ ud'[v].contents \notin lost' =>
                              /\ ud'[v].state \in Holding
                              /\ ud'[v].state = "bare" => v \in inLua'
                              /\ lua' = "closing" => ud'[v].state = "condemned"
                        /\ ud'[v].state = "condemned" => ud'[v].contents \notin lost'
                        /\ ud'[v].state = "ready" /\ lua' = "open" => ud'[v].contents \notin lost'
                        /\ ud'[v].state = "bare" /\ v \in inLua' /\ lua' = "open" => ud'[v].contents \notin lost'
      BY DEF PushOK
    <3>1. CASE v = u
      BY <1>3, <1>4, <2>3, <3>1 DEF Holding
    <3>2. CASE v # u
      <4>1. ud'[v] = ud[v] /\ (ud[v].contents \in lost' <=> ud[v].contents \in lost)
        BY <1>3, <1>6, <2>3, <2>4, <3>2
      <4> QED BY <1>4, <4>1 DEF IInv, PushOK
    <3> QED BY <3>1, <3>2
  <2> QED BY <2>2, <2>6
<1>10. NoHandleLeak'
  <2>1. ud[u].contents = NoHandle
    BY <1>4 DEF IInv, ContentsOK, Holding
  <2>2. NoHandle \notin DOMAIN handles
    BY BoundsAssumption DEF IInv, TypeOK, NoHandle
  <2>3. lost \subseteq lost'
    BY <1>1
  <2> SUFFICES ASSUME NEW x \in DOMAIN handles' \ lost'
               PROVE  \E v \in Userdata : ud'[v].contents = x /\ ud'[v].state \in {"bare", "ready", "condemned"}
    BY DEF NoHandleLeak
  <2>4. CASE x = h
    BY <1>3, <2>4
  <2>5. CASE x # h
    <3>1. x \in DOMAIN handles \ lost
      BY <1>2, <2>3, <2>5
    <3>2. PICK v \in Userdata : ud[v].contents = x /\ ud[v].state \in {"bare", "ready", "condemned"}
      BY <3>1 DEF IInv, NoHandleLeak
    <3> QED BY <1>3, <2>1, <2>2, <3>1, <3>2
  <2> QED BY <2>4, <2>5
<1> QED BY <1>5, <1>7, <1>8, <1>9, <1>10 DEF IInv

(* The steps that change at most the state of one userdata, not between    *)
(* those with contents and those without.                                  *)
LEMMA StateStep ==
    ASSUME IInv, NEW u \in Userdata,
           SetRefMeta(u) \/ PushFails(u) \/ GetRef(u) \/ Unlink(u) \/ Revive(u) \/ Separate(u)
    PROVE  IInv'
<1>1. /\ handles' = handles /\ alive' = alive /\ lua' = lua
      /\ lost' = lost \/ PushFails(u)
  BY DEF SetRefMeta, PushFails, GetRef, Unlink, Revive, Separate
<1>2. /\ ud' \in [Userdata -> UdType]
      /\ \A v \in Userdata : ud'[v].contents = ud[v].contents /\ ud'[v].obj = ud[v].obj
      /\ \A v \in Userdata \ {u} : ud'[v] = ud[v]
      /\ ud'[u].state \in Holding <=> ud[u].state \in Holding
      /\ ud'[u].state = "gone" <=> ud[u].state = "gone"
  BY DEF SetRefMeta, PushFails, GetRef, Unlink, Revive, Separate, IInv, TypeOK, Holding, UdType
<1>3. roots' \subseteq alive' /\ inLua' \subseteq {v \in Userdata : ud'[v].state # "gone"}
      /\ revived' \subseteq Userdata
  BY <1>1, <1>2 DEF SetRefMeta, PushFails, GetRef, Unlink, Revive, Separate, IInv, TypeOK, HandlesOK, TargetsAlive
<1>4. /\ lost \subseteq lost' /\ lost' \subseteq DOMAIN handles'
      /\ \A v \in Userdata \ {u} : ud[v].contents \in lost' => ud[v].contents \in lost
  <2>1. CASE PushFails(u)
    BY <1>1, <2>1 DEF PushFails, IInv, TypeOK, ContentsOK, HandlesOK, Unshared, Holding
  <2>2. CASE lost' = lost
    BY <1>1, <2>2 DEF IInv, TypeOK
  <2> QED BY <1>1, <2>1, <2>2
<1>5. TypeOK'
  BY <1>1, <1>2, <1>3, <1>4 DEF IInv, TypeOK, Targets, UdType
<1>8. ContentsOK' /\ HandlesOK' /\ Unshared' /\ TargetsAlive'
  BY <1>1, <1>2 DEF IInv, ContentsOK, HandlesOK, Unshared, TargetsAlive
<1>9. NoHandleLeak'
  BY <1>1, <1>2, <1>4 DEF IInv, NoHandleLeak, Holding
<1>6. ReachOK'
  BY <1>1, <1>2 DEF SetRefMeta, PushFails, GetRef, Unlink, Revive, Separate, IInv, TypeOK, ReachOK
<1>7. PushOK'
  <2> SUFFICES ASSUME NEW v \in Userdata
               PROVE  /\ ud'[v].contents # NoHandle /\ ud'[v].contents \notin lost' =>
                            /\ ud'[v].state \in Holding
                            /\ ud'[v].state = "bare" => v \in inLua'
                            /\ lua' = "closing" => ud'[v].state = "condemned"
                      /\ ud'[v].state = "condemned" => ud'[v].contents \notin lost'
                      /\ ud'[v].state = "ready" /\ lua' = "open" => ud'[v].contents \notin lost'
                      /\ ud'[v].state = "bare" /\ v \in inLua' /\ lua' = "open" => ud'[v].contents \notin lost'
    BY DEF PushOK
  <2>1. CASE v # u
    <3>1. v \in inLua' <=> v \in inLua
      BY <2>1 DEF SetRefMeta, PushFails, GetRef, Unlink, Revive, Separate
    <3> QED BY <1>1, <1>2, <1>4, <2>1, <3>1 DEF IInv, PushOK
  <2>2. CASE v = u /\ PushFails(u)
    BY <2>2, <1>1 DEF PushFails, IInv, PushOK
  <2>3. CASE v = u /\ SetRefMeta(u)
    BY <2>3, <1>1, <1>2 DEF SetRefMeta, IInv, TypeOK, PushOK, Holding
  <2>4. CASE v = u /\ GetRef(u)
    BY <2>4, <1>1, <1>2 DEF GetRef, IInv, PushOK
  <2>5. CASE v = u /\ Unlink(u)
    BY <2>5, <1>1, <1>2 DEF Unlink, IInv, PushOK
  <2>6. CASE v = u /\ Revive(u)
    BY <2>6, <1>1, <1>2 DEF Revive, IInv, PushOK
  <2>7. CASE v = u /\ Separate(u)
    BY <2>7, <1>1, <1>2 DEF Separate, IInv, TypeOK, PushOK, Holding
  <2> QED BY <2>1, <2>2, <2>3, <2>4, <2>5, <2>6, <2>7
<1> QED BY <1>5, <1>6, <1>7, <1>8, <1>9 DEF IInv

(* __gc frees the handle and clears the contents: no other userdata has    *)
(* that handle.                                                            *)
LEMMA CallGcIInv ==
    ASSUME IInv, NEW u \in Userdata, CallGc(u)
    PROVE  IInv'
<1>1. /\ ud'[u].state = "finalized" /\ ud'[u].contents = NoHandle
      /\ \A v \in Userdata \ {u} : ud'[v] = ud[v]
      /\ ud' \in [Userdata -> UdType]
  <2>1. ud \in [Userdata -> UdType] /\ NoHandle \in 0 .. MaxHandle
    BY BoundsAssumption DEF IInv, TypeOK, UdType, NoHandle
  <2>2. ud' = [ud EXCEPT ![u] = [[ud[u] EXCEPT !.state = "finalized"] EXCEPT !.contents = NoHandle]]
    BY <2>1 DEF CallGc, Freed
  <2>3. [[ud[u] EXCEPT !.state = "finalized"] EXCEPT !.contents = NoHandle]
            = [state |-> "finalized", contents |-> NoHandle, obj |-> ud[u].obj]
    <3>1. ud[u] \in UdType
      BY <2>1
    <3>2. [ud[u] EXCEPT !.state = "finalized"]
              = [state |-> "finalized", contents |-> ud[u].contents, obj |-> ud[u].obj]
      BY <3>1 DEF UdType
    <3>3. [[state |-> "finalized", contents |-> ud[u].contents, obj |-> ud[u].obj] EXCEPT !.contents = NoHandle]
              = [state |-> "finalized", contents |-> NoHandle, obj |-> ud[u].obj]
      OBVIOUS
    <3> QED BY <3>2, <3>3, Zenon
  <2>4. [state |-> "finalized", contents |-> NoHandle, obj |-> ud[u].obj] \in UdType
    BY <2>1 DEF UdType
  <2> QED BY <2>1, <2>2, <2>3, <2>4
<1>2. /\ DOMAIN handles' = DOMAIN handles \ {ud[u].contents}
      /\ \A h \in DOMAIN handles' : handles'[h] = handles[h]
  BY DEF CallGc
<1>3. ud[u].state = "condemned" /\ ud[u].contents # NoHandle /\ lua # "closed"
      /\ UNCHANGED <<inLua, roots, alive, lua, revived, lost>>
  BY DEF CallGc, IInv, ContentsOK, Holding
<1>10. ud[u].contents \notin lost
  BY <1>3 DEF IInv, PushOK
<1>4. TypeOK'
  BY <1>1, <1>2, <1>3, <1>10 DEF IInv, TypeOK, Targets, UdType
<1>5. \A v \in Userdata \ {u} : ud[v].contents # ud[u].contents
  BY <1>3 DEF IInv, Unshared
<1>6. ContentsOK' /\ HandlesOK' /\ Unshared'
  BY <1>1, <1>2, <1>3, <1>5 DEF IInv, ContentsOK, HandlesOK, Unshared, Holding
<1>7. TargetsAlive'
  BY <1>2, <1>3 DEF IInv, TargetsAlive
<1>8. ReachOK' /\ PushOK'
  <2>1. inLua \subseteq Userdata
    BY DEF IInv, TypeOK
  <2>2. ReachOK'
    BY <1>1, <1>3, <2>1 DEF IInv, ReachOK
  <2>3. PushOK'
    BY <1>1, <1>3 DEF IInv, PushOK
  <2> QED BY <2>2, <2>3
<1>9. NoHandleLeak'
  BY <1>1, <1>2, <1>3 DEF IInv, NoHandleLeak
<1> QED BY <1>4, <1>6, <1>7, <1>8, <1>9 DEF IInv

(* __gc fails before freeref: the userdata keeps its contents and the      *)
(* handle is lost, and it is no other userdata's.                          *)
LEMMA CallGcFailsIInv ==
    ASSUME IInv, NEW u \in Userdata, CallGcFails(u)
    PROVE  IInv'
<1>1. /\ ud' \in [Userdata -> UdType]
      /\ ud'[u].state = "finalized"
      /\ \A v \in Userdata : ud'[v].contents = ud[v].contents /\ ud'[v].obj = ud[v].obj
      /\ \A v \in Userdata \ {u} : ud'[v] = ud[v]
  BY DEF CallGcFails, IInv, TypeOK, UdType
<1>2. /\ lua # "closed" /\ ud[u].state = "condemned" /\ ud[u].contents # NoHandle
      /\ lost' = lost \cup {ud[u].contents}
      /\ UNCHANGED <<handles, inLua, roots, alive, lua, revived>>
  BY DEF CallGcFails, IInv, ContentsOK, Holding
<1>3. /\ ud[u].contents \in DOMAIN handles
      /\ \A v \in Userdata \ {u} : ud[v].contents # ud[u].contents
  BY <1>2 DEF IInv, HandlesOK, Unshared
<1>4. TypeOK'
  BY <1>1, <1>2, <1>3 DEF IInv, TypeOK, Targets, UdType
<1>5. ContentsOK' /\ HandlesOK' /\ Unshared' /\ TargetsAlive'
  BY <1>1, <1>2 DEF IInv, ContentsOK, HandlesOK, Unshared, TargetsAlive, Holding
<1>6. ReachOK'
  BY <1>1, <1>2 DEF IInv, TypeOK, ReachOK
<1>7. PushOK'
  BY <1>1, <1>2, <1>3 DEF IInv, PushOK
<1>8. NoHandleLeak'
  BY <1>1, <1>2, <1>3 DEF IInv, NoHandleLeak
<1> QED BY <1>4, <1>5, <1>6, <1>7, <1>8 DEF IInv

(* The sweep frees a userdata without contents or with a lost handle.      *)
LEMMA SweepIInv ==
    ASSUME IInv, NEW u \in Userdata, Sweep(u)
    PROVE  IInv'
<1>1. /\ ud'[u] = Gone
      /\ \A v \in Userdata \ {u} : ud'[v] = ud[v]
      /\ ud' \in [Userdata -> UdType]
  BY SelfAssumption, BoundsAssumption DEF Sweep, IInv, TypeOK, UdType, Gone, NoHandle
<1>2. /\ ud[u].state \in {"bare", "finalized"} /\ u \notin inLua /\ lua = "open"
      /\ revived' = revived \ {u} /\ UNCHANGED <<handles, inLua, roots, alive, lua, lost>>
  BY DEF Sweep
<1>3. TypeOK'
  BY <1>1, <1>2 DEF IInv, TypeOK, Targets, UdType
<1>4. ContentsOK' /\ HandlesOK' /\ Unshared' /\ TargetsAlive'
  BY <1>1, <1>2 DEF IInv, ContentsOK, HandlesOK, Unshared, TargetsAlive, Holding, Gone
<1>5. ReachOK' /\ PushOK'
  <2>1. inLua \subseteq Userdata
    BY DEF IInv, TypeOK
  <2>2. ReachOK'
    BY <1>1, <1>2, <2>1 DEF IInv, ReachOK
  <2>3. PushOK'
    BY <1>1, <1>2 DEF IInv, PushOK, Gone
  <2> QED BY <2>2, <2>3
<1>6. NoHandleLeak'
  <2>1. ud[u].contents = NoHandle \/ ud[u].contents \in lost
    BY <1>2 DEF IInv, PushOK, Holding
  <2>2. NoHandle \notin DOMAIN handles
    BY BoundsAssumption DEF IInv, TypeOK, NoHandle
  <2> QED BY <1>1, <1>2, <2>1, <2>2 DEF IInv, NoHandleLeak
<1> QED BY <1>3, <1>4, <1>5, <1>6 DEF IInv

(* lua_close condemns all; then it frees the memory. *)
LEMMA CloseIInv ==
    ASSUME IInv, CloseBegin \/ CloseEnd
    PROVE  IInv'
<1>1. CASE CloseBegin
  <2>1. /\ ud' \in [Userdata -> UdType]
        /\ \A v \in Userdata : /\ ud'[v].contents = ud[v].contents /\ ud'[v].obj = ud[v].obj
                               /\ ud'[v].state = IF ud[v].state = "ready" THEN "condemned" ELSE ud[v].state
    BY <1>1 DEF CloseBegin, IInv, TypeOK, UdType
  <2>2. /\ lua' = "closing" /\ UNCHANGED <<handles, inLua, roots, alive, revived, lost>>
        /\ \A u \in inLua : ud[u].state # "bare"
    BY <1>1 DEF CloseBegin
  <2>3. TypeOK'
    BY <2>1, <2>2 DEF IInv, TypeOK, Targets, UdType
  <2>4. ContentsOK' /\ HandlesOK' /\ Unshared' /\ TargetsAlive' /\ NoHandleLeak'
    BY <2>1, <2>2 DEF IInv, ContentsOK, HandlesOK, Unshared, TargetsAlive, NoHandleLeak, Holding
  <2>5. ReachOK'
    BY <2>1, <2>2 DEF IInv, ReachOK
  <2>6. PushOK'
    <3>1. lua = "open"
      BY <1>1 DEF CloseBegin
    <3>2. inLua' = inLua /\ lost' = lost /\ lua' = "closing"
      BY <2>2
    <3> QED BY <2>1, <2>2, <3>1, <3>2 DEF IInv, PushOK, Holding
  <2> QED BY <2>3, <2>4, <2>5, <2>6 DEF IInv
<1>2. CASE CloseEnd
  <2>1. /\ ud' = [u \in Userdata |-> Gone] /\ inLua' = {} /\ lua' = "closed" /\ lua = "closing"
        /\ \A u \in Userdata : ud[u].state # "condemned"
        /\ UNCHANGED <<handles, roots, alive, revived, lost>>
    BY <1>2 DEF CloseEnd
  <2>2. TypeOK'
    BY <2>1, SelfAssumption, BoundsAssumption DEF IInv, TypeOK, Targets, Gone, NoHandle
  <2>3. ContentsOK' /\ HandlesOK' /\ Unshared' /\ TargetsAlive'
    BY <2>1 DEF IInv, ContentsOK, HandlesOK, Unshared, TargetsAlive, Holding, Gone
  <2>4. ReachOK' /\ PushOK'
    BY <2>1 DEF ReachOK, PushOK, Gone, Holding
  <2>5. NoHandleLeak'
    <3>1. SUFFICES DOMAIN handles \ lost = {}
      BY <2>1 DEF NoHandleLeak
    <3>2. \A u \in Userdata : ud[u].contents = NoHandle \/ ud[u].contents \in lost
      BY <2>1 DEF IInv, PushOK
    <3>3. NoHandle \notin DOMAIN handles
      BY BoundsAssumption DEF IInv, TypeOK, NoHandle
    <3> QED BY <3>2, <3>3 DEF IInv, NoHandleLeak
  <2> QED BY <2>2, <2>3, <2>4, <2>5 DEF IInv
<1> QED BY <1>1, <1>2

(* The program, and the .NET collector, which takes no target of a handle. *)
LEMMA ManagedIInv ==
    ASSUME IInv, NEW t \in Things, Forget(t) \/ Collect(t)
    PROVE  IInv'
<1>1. UNCHANGED <<handles, ud, inLua, lua, revived, lost>>
  BY DEF Forget, Collect
<1>2. TypeOK'
  BY <1>1 DEF Forget, Collect, IInv, TypeOK, Targets
<1>3. TargetsAlive'
  BY <1>1 DEF Forget, Collect, IInv, TargetsAlive, Targets
<1>4. ContentsOK' /\ HandlesOK' /\ Unshared' /\ ReachOK' /\ PushOK' /\ NoHandleLeak'
  BY <1>1 DEF IInv, ContentsOK, HandlesOK, Unshared, ReachOK, PushOK, NoHandleLeak
<1> QED BY <1>2, <1>3, <1>4 DEF IInv

LEMMA NextIInv == IInv /\ [Next]_vars => IInv'
<1> SUFFICES ASSUME IInv, [Next]_vars PROVE IInv'
  OBVIOUS
<1>1. CASE Next
  BY <1>1, NewRefIInv, StateStep, CallGcIInv, CallGcFailsIInv, SweepIInv, CloseIInv, ManagedIInv DEF Next
<1>2. CASE UNCHANGED vars
  BY <1>2 DEF vars, IInv, TypeOK, Targets, ContentsOK, HandlesOK, Unshared, TargetsAlive, ReachOK, PushOK, NoHandleLeak
<1> QED BY <1>1, <1>2

THEOREM Invariance == Spec => []IInv
BY InitIInv, NextIInv, PTL DEF Spec

(* getref never follows a handle that was freed or is another userdata's,  *)
(* however often the runtime hands the same value out.                     *)
THEOREM NoStaleHandle == Spec => []HandlesMatch
<1>1. IInv => HandlesMatch
  BY DEF IInv, HandlesOK, Unshared, HandlesMatch
<1> QED BY <1>1, Invariance, PTL

(* A CLR object Lua can reach has not been collected, and its userdata     *)
(* still names it, whatever the two collectors do.                         *)
THEOREM ReachableStaysUsable == Spec => []ReachableIsUsable
<1>1. ASSUME IInv PROVE ReachableIsUsable
  <2> SUFFICES ASSUME NEW u \in inLua, lua # "closing", u \notin revived
               PROVE  ud[u].contents # NoHandle /\ ud[u].obj \in alive
    BY DEF ReachableIsUsable
  <2>1. u \in Userdata /\ ud[u].state \in {"bare", "ready"}
    BY <1>1 DEF IInv, TypeOK, ReachOK
  <2> QED BY <1>1, <2>1 DEF IInv, ContentsOK, Holding, HandlesOK, TargetsAlive
<1> QED BY <1>1, Invariance, PTL

(* Every GCHandle has a userdata whose __gc is still to come, up to and    *)
(* including lua_close, but those lost to an error in a push or before     *)
(* freeref in a __gc, or pushed by a __gc during lua_close.                *)
THEOREM EveryHandleIsFreed == Spec => []NoHandleLeak
<1>1. IInv => NoHandleLeak
  BY DEF IInv
<1> QED BY <1>1, Invariance, PTL
=============================================================================
