------------------------ MODULE LuaReferences_proofs ------------------------
(***************************************************************************)
(* Proofs about LuaReferences, for any number of LuaBases, values and      *)
(* slots, any pattern of memory errors and both builds: as long as no      *)
(* store has failed, every LuaBase in use finds its value, no reference is *)
(* given back twice, and the queue loses none; the flag CleanLeaks reads   *)
(* without the lock tells the truth.                                       *)
(*                                                                         *)
(* What luaL_ref and luaL_unref do to the free list is taken from the      *)
(* theorems about RegistryRefs, with the slots that hold a value as the    *)
(* references handed out.                                                  *)
(***************************************************************************)
EXTENDS LuaReferences, SequenceTheorems, TLAPS

Held == {r \in 1 .. MaxRef : reg[r] \in Objects}
List == INSTANCE RegistryRefs_proofs WITH held <- Held, failed <- errors > 0

(* Where the two threads are, and what that says of the lock, the flag and *)
(* the LuaBase that is being finalized.                                    *)
LiveOK == \A w \in Wrappers : Live(w) => wrap[w].ref \in Slots /\ wrap[w].obj \in Objects
FinOK ==
    /\ fin # Idle => Live(fin.w) /\ fin.w \notin rooted
    /\ fin.at \in {"isnull", "add", "tryenter"} => fin.w \notin registered
    /\ NET_4 /\ open /\ fin.at = "owner" => fin.w \notin registered
BuildOK ==
    /\ main.at \in {"dequeue", "unref"} => NET_4
    /\ main.at \in {"lock", "foreach"} => ~NET_4
    /\ fin.at = "tryenter" => ~NET_4
LockOK ==
    /\ lock = "main" <=> main.at = "foreach"
    /\ lock = "finalizer" <=> fin.at = "add" /\ ~NET_4
ListOK ==
    /\ main.at = "foreach" => main.next \in 1 .. Len(leaked) + 1
    /\ ~NET_4 => (hasLeaked <=> leaked # << >>)

Control == TypeOK /\ LiveOK /\ FinOK /\ BuildOK /\ LockOK /\ ListOK

LEMMA InitControl == Init => Control
<1> SUFFICES ASSUME Init PROVE Control
  OBVIOUS
<1>1. TypeOK
  BY MaxErrorsAssumption, MaxRefAssumption DEF Init, TypeOK, Unused, NoRef
<1>2. LiveOK
  BY DEF Init, LiveOK, Live, Unused
<1>3. main.at = "idle" /\ fin.at = "idle"
  BY DEF Init, Idle
<1>4. FinOK /\ BuildOK /\ LockOK
  BY <1>3 DEF Init, FinOK, BuildOK, LockOK
<1>5. ListOK
  BY <1>3 DEF Init, ListOK
<1> QED BY <1>1, <1>2, <1>4, <1>5 DEF Control

(* What the registry functions return for a table of the right type. *)
LEMMA RegistryTypes ==
    ASSUME NEW t \in [0 .. MaxRef -> Objects \cup Slots \cup {Nil}], NEW r \in Slots
    PROVE  /\ \A o \in Objects : Registry!AfterRef(t, r, o) \in [0 .. MaxRef -> Objects \cup Slots \cup {Nil}]
           /\ Registry!Unlinked(t, r) \in [0 .. MaxRef -> Objects \cup Slots \cup {Nil}]
           /\ Registry!AfterUnref(t, r) \in [0 .. MaxRef -> Objects \cup Slots \cup {Nil}]
           /\ Registry!AfterFailedUnref(t, r) \in [0 .. MaxRef -> Objects \cup Slots \cup {Nil}]
BY MaxRefAssumption
   DEF Slots, Registry!AfterRef, Registry!Unlinked, Registry!AfterUnref, Registry!AfterFailedUnref,
       Registry!FirstFree, Registry!FREELIST_REF

Places == {Idle} \cup [at : {"dequeue", "lock"}] \cup [at : {"unref"}, ref : Slots] \cup [at : {"foreach"}, next : Nat]
Finalizations == [at : {"isnull", "add", "tryenter", "owner"}, w : Wrappers]

LEMMA PlaceOfMain ==
    ASSUME NEW p \in Places
    PROVE  /\ p.at \in {"idle", "dequeue", "lock", "unref", "foreach"}
           /\ p.at = "unref" => p.ref \in Slots
           /\ p.at = "foreach" => p.next \in Nat /\ [p EXCEPT !.next = @ + 1] \in Places
                                  /\ [p EXCEPT !.next = @ + 1].next = p.next + 1
                                  /\ [p EXCEPT !.next = @ + 1].at = "foreach"
<1>1. CASE p = Idle
  BY <1>1 DEF Idle
<1>2. CASE p \in [at : {"dequeue", "lock"}]
  BY <1>2
<1>3. CASE p \in [at : {"unref"}, ref : Slots]
  BY <1>3
<1>4. CASE p \in [at : {"foreach"}, next : Nat]
  <2>1. p.at = "foreach" /\ p.next \in Nat
    BY <1>4
  <2>2. [p EXCEPT !.next = @ + 1] \in [at : {"foreach"}, next : Nat]
    BY <1>4
  <2>3. [p EXCEPT !.next = @ + 1] \in Places
    BY <2>2 DEF Places
  <2>4. [p EXCEPT !.next = @ + 1].next = p.next + 1 /\ [p EXCEPT !.next = @ + 1].at = "foreach"
    BY <1>4
  <2> QED BY <2>1, <2>3, <2>4
<1> QED BY <1>1, <1>2, <1>3, <1>4 DEF Places

LEMMA PlaceOfFin ==
    ASSUME NEW p \in {Idle} \cup Finalizations
    PROVE  /\ p = Idle <=> p.at = "idle"
           /\ p # Idle =>
                 /\ p.at \in {"isnull", "add", "tryenter", "owner"} /\ p.w \in Wrappers
                 /\ \A a \in {"isnull", "add", "tryenter", "owner"} :
                       /\ [p EXCEPT !.at = a] \in Finalizations
                       /\ [p EXCEPT !.at = a].at = a /\ [p EXCEPT !.at = a].w = p.w
<1>1. CASE p = Idle
  BY <1>1 DEF Idle
<1>2. CASE p \in Finalizations
  <2>1. p.at \in {"isnull", "add", "tryenter", "owner"} /\ p.w \in Wrappers
    BY <1>2 DEF Finalizations
  <2>2. ASSUME NEW a \in {"isnull", "add", "tryenter", "owner"}
        PROVE  /\ [p EXCEPT !.at = a] \in Finalizations
               /\ [p EXCEPT !.at = a].at = a /\ [p EXCEPT !.at = a].w = p.w
    BY <1>2 DEF Finalizations
  <2>3. Idle.at = "idle"
    BY DEF Idle
  <2> QED BY <2>1, <2>2, <2>3
<1> QED BY <1>1, <1>2

(* A store leaves a table of the right type, and so does an error in it. *)
LEMMA TypeStep ==
    ASSUME Control, Next
    PROVE  TypeOK'
<1> USE DEF Control
<1>1. ASSUME NEW w \in Wrappers, NEW o \in Objects, Create(w, o) PROVE TypeOK'
  BY <1>1, RegistryTypes DEF Create, TypeOK
<1>2. CASE CreateFails
  BY <1>2, RegistryTypes, MaxErrorsAssumption DEF CreateFails, StoreFails, TypeOK
<1>3. ASSUME NEW w \in Wrappers, Dispose(w) PROVE TypeOK'
  BY <1>3, RegistryTypes DEF Dispose, TypeOK, LiveOK
<1>4. ASSUME NEW w \in Wrappers, DisposeFails(w) PROVE TypeOK'
  BY <1>4, RegistryTypes, MaxErrorsAssumption DEF DisposeFails, StoreFails, TypeOK, LiveOK
<1>5. ASSUME NEW w \in Wrappers, Forget(w) PROVE TypeOK'
  BY <1>5 DEF Forget, TypeOK
<1>6. ASSUME NEW w \in Wrappers, Finalize(w) PROVE TypeOK'
  BY <1>6 DEF Finalize, TypeOK
<1>7. CASE DisposeLua
  BY <1>7 DEF DisposeLua, TypeOK
<1>8. CASE CleanBegin
  BY <1>8 DEF CleanBegin, TypeOK
<1>0. main \in Places /\ fin \in {Idle} \cup Finalizations
  BY DEF TypeOK, Places, Finalizations
<1>9. CASE CleanDequeue
  <2>1. CASE leaked = << >>
    BY <1>9, <2>1 DEF CleanDequeue, TypeOK
  <2>2. CASE leaked # << >>
    <3>1. Head(leaked) \in Slots /\ Tail(leaked) \in Seq(Slots)
      BY <2>2 DEF TypeOK
    <3>2. [at |-> "unref", ref |-> Head(leaked)] \in Places
      BY <3>1 DEF Places
    <3> QED BY <1>9, <2>2, <3>1, <3>2 DEF CleanDequeue, TypeOK, Places
  <2> QED BY <2>1, <2>2
<1>10. CASE CleanUnref
  <2>1. main' \in Places
    BY <1>10 DEF CleanUnref, Places
  <2>2. main.ref \in Slots
    BY <1>0, <1>10, PlaceOfMain DEF CleanUnref
  <2>3. reg' \in [0 .. MaxRef -> Objects \cup Slots \cup {Nil}] /\ errors' \in 0 .. MaxErrors
    BY <1>10, <2>2, RegistryTypes, MaxErrorsAssumption DEF CleanUnref, StoreFails, TypeOK
  <2> QED BY <1>10, <2>1, <2>3 DEF CleanUnref, TypeOK, Places
<1>11. CASE CleanLock
  BY <1>11 DEF CleanLock, TypeOK
<1>12. CASE CleanEach
  <2>1. main.next \in 1 .. Len(leaked) /\ leaked[main.next] \in Slots
    BY <1>12 DEF CleanEach, TypeOK, ListOK
  <2>2. main' \in Places
    BY <1>0, <1>12, PlaceOfMain DEF CleanEach, Places
  <2>3. reg' \in [0 .. MaxRef -> Objects \cup Slots \cup {Nil}] /\ errors' \in 0 .. MaxErrors
    BY <1>12, <2>1, RegistryTypes, MaxErrorsAssumption DEF CleanEach, StoreFails, TypeOK
  <2>4. lock' \in {"none", "main", "finalizer"}
    BY <1>12 DEF CleanEach, TypeOK
  <2> QED BY <1>12, <2>2, <2>3, <2>4 DEF CleanEach, TypeOK, Places
<1>13. CASE CleanEnd
  <2>1. main' \in Places
    BY <1>13 DEF CleanEnd, Places
  <2>2. leaked' \in Seq(Slots) /\ hasLeaked' \in BOOLEAN /\ lock' \in {"none", "main", "finalizer"}
    <3>1. << >> \in Seq(Slots)
      OBVIOUS
    <3> QED BY <1>13, <3>1 DEF CleanEnd
  <2> QED BY <1>13, <2>1, <2>2 DEF CleanEnd, TypeOK, Places
<1>14. CASE FinIsNull
  <2>1. fin # Idle
    BY <1>0, <1>14, PlaceOfFin DEF FinIsNull
  <2>2. fin' \in Finalizations
    BY <1>0, <1>14, <2>1, PlaceOfFin DEF FinIsNull
  <2> QED BY <1>14, <2>2 DEF FinIsNull, TypeOK, Finalizations
<1>15. CASE FinTryEnter
  <2>1. fin # Idle
    BY <1>0, <1>15, PlaceOfFin DEF FinTryEnter
  <2>2. [fin EXCEPT !.at = "add"] \in Finalizations /\ [fin EXCEPT !.at = "owner"] \in Finalizations
    BY <1>0, <2>1, PlaceOfFin
  <2>3. fin.w \in Wrappers
    BY <1>0, <2>1, PlaceOfFin
  <2>4. fin' = [fin EXCEPT !.at = "add"] \/ fin' = [fin EXCEPT !.at = "owner"]
    BY <1>15 DEF FinTryEnter
  <2> QED BY <1>15, <2>2, <2>3, <2>4 DEF FinTryEnter, TypeOK, Finalizations
<1>16. CASE FinAdd
  <2>1. fin # Idle
    BY <1>0, <1>16, PlaceOfFin DEF FinAdd
  <2>2. fin' \in Finalizations /\ fin.w \in Wrappers
    BY <1>0, <1>16, <2>1, PlaceOfFin DEF FinAdd
  <2>3. wrap[fin.w].ref \in Slots
    BY <2>1, <2>2 DEF LiveOK, FinOK
  <2>4. leaked' \in Seq(Slots)
    BY <1>16, <2>3 DEF FinAdd, TypeOK
  <2>5. lock' \in {"none", "main", "finalizer"} /\ hasLeaked' \in BOOLEAN
    BY <1>16 DEF FinAdd, TypeOK
  <2> QED BY <1>16, <2>2, <2>4, <2>5 DEF FinAdd, TypeOK, Finalizations
<1>17. CASE FinOwner
  BY <1>17 DEF FinOwner, TypeOK
<1> QED BY <1>1, <1>2, <1>3, <1>4, <1>5, <1>6, <1>7, <1>8, <1>9, <1>10, <1>11, <1>12, <1>13,
           <1>14, <1>15, <1>16, <1>17 DEF Next, CleanStep, FinStep

(* The lock is held by the thread that is inside it, the flag follows the  *)
(* list, and nobody but the finalizer thread changes the LuaBase it is at. *)
LEMMA ControlStep ==
    ASSUME Control, Next
    PROVE  Control'
<1> DEFINE Rest == LiveOK /\ FinOK /\ BuildOK /\ LockOK /\ ListOK
<1> USE DEF Control
<1>0. main \in Places /\ fin \in {Idle} \cup Finalizations
  BY DEF TypeOK, Places, Finalizations
<1>00. /\ Idle.at = "idle" /\ (fin = Idle <=> fin.at = "idle") /\ (fin # Idle => fin.w \in Wrappers)
       /\ main = Idle => main.at = "idle"
  BY <1>0, PlaceOfFin DEF Idle
<1> USE <1>00 DEF Rest
<1>1. ASSUME NEW w \in Wrappers, NEW o \in Objects, Create(w, o) PROVE Rest'
  <2>1. ~Live(w) /\ (fin # Idle => fin.w # w)
    BY <1>1 DEF Create, Finalizing
  <2>2. LiveOK'
    BY <1>1 DEF Create, TypeOK, LiveOK, Live
  <2>3. FinOK'
    BY <1>1, <2>1 DEF Create, TypeOK, FinOK, Live
  <2> QED BY <1>1, <2>2, <2>3 DEF Create, BuildOK, LockOK, ListOK
<1>2. ASSUME CreateFails PROVE Rest'
  BY <1>2 DEF CreateFails, LiveOK, Live, FinOK, BuildOK, LockOK, ListOK
<1>3. ASSUME NEW w \in Wrappers, Dispose(w) PROVE Rest'
  <2>1. fin # Idle => fin.w # w
    BY <1>3 DEF Dispose, FinOK
  <2>2. LiveOK'
    BY <1>3 DEF Dispose, TypeOK, LiveOK, Live
  <2>3. FinOK'
    BY <1>3, <2>1 DEF Dispose, TypeOK, FinOK, Live
  <2> QED BY <1>3, <2>2, <2>3 DEF Dispose, BuildOK, LockOK, ListOK
<1>4. ASSUME NEW w \in Wrappers, DisposeFails(w) PROVE Rest'
  BY <1>4 DEF DisposeFails, LiveOK, Live, FinOK, BuildOK, LockOK, ListOK
<1>5. ASSUME NEW w \in Wrappers, Forget(w) PROVE Rest'
  BY <1>5 DEF Forget, LiveOK, Live, FinOK, BuildOK, LockOK, ListOK
<1>6. ASSUME NEW w \in Wrappers, Finalize(w) PROVE Rest'
  <2>1. CASE Live(w)
    <3>1. fin'.at = "isnull" /\ fin'.w = w /\ w \notin rooted' /\ w \notin registered'
      BY <1>6, <2>1 DEF Finalize
    <3> QED BY <1>6, <2>1, <3>1 DEF Finalize, LiveOK, Live, FinOK, BuildOK, LockOK, ListOK
  <2>2. CASE ~Live(w)
    BY <1>6, <2>2 DEF Finalize, LiveOK, Live, FinOK, BuildOK, LockOK, ListOK
  <2> QED BY <2>1, <2>2
<1>7. ASSUME DisposeLua PROVE Rest'
  BY <1>7 DEF DisposeLua, LiveOK, Live, FinOK, BuildOK, LockOK, ListOK
<1>8. ASSUME CleanBegin PROVE Rest'
  BY <1>8 DEF CleanBegin, LiveOK, Live, FinOK, BuildOK, LockOK, ListOK
<1>9. ASSUME CleanDequeue PROVE Rest'
  BY <1>9 DEF CleanDequeue, LiveOK, Live, FinOK, BuildOK, LockOK, ListOK
<1>10. ASSUME CleanUnref PROVE Rest'
  BY <1>10 DEF CleanUnref, LiveOK, Live, FinOK, BuildOK, LockOK, ListOK
<1>11. ASSUME CleanLock PROVE Rest'
  BY <1>11 DEF CleanLock, TypeOK, LiveOK, Live, FinOK, BuildOK, LockOK, ListOK
<1>12. ASSUME CleanEach PROVE Rest'
  <2>1. CASE main' = [main EXCEPT !.next = @ + 1] /\ UNCHANGED <<errors, lock>>
    <3>1. main'.at = "foreach" /\ main'.next = main.next + 1 /\ main.at = "foreach"
      BY <1>0, <1>12, <2>1, PlaceOfMain DEF CleanEach
    <3>2. main'.next \in 1 .. Len(leaked) + 1
      BY <1>12, <3>1 DEF CleanEach, ListOK, TypeOK
    <3> QED BY <1>12, <2>1, <3>1, <3>2 DEF CleanEach, LiveOK, Live, FinOK, BuildOK, LockOK, ListOK
  <2>2. CASE main' = Idle /\ lock' = "none"
    BY <1>12, <2>2 DEF CleanEach, LiveOK, Live, FinOK, BuildOK, LockOK, ListOK
  <2> QED BY <1>12, <2>1, <2>2 DEF CleanEach
<1>13. ASSUME CleanEnd PROVE Rest'
  BY <1>13 DEF CleanEnd, LiveOK, Live, FinOK, BuildOK, LockOK, ListOK
<1>14. ASSUME FinIsNull PROVE Rest'
  <2>1. fin # Idle
    BY <1>14 DEF FinIsNull
  <2>2. /\ fin'.w = fin.w
        /\ fin'.at = IF ~open THEN "owner" ELSE IF NET_4 THEN "add" ELSE "tryenter"
    BY <1>0, <1>14, <2>1, PlaceOfFin DEF FinIsNull
  <2> QED BY <1>14, <2>1, <2>2 DEF FinIsNull, LiveOK, Live, FinOK, BuildOK, LockOK, ListOK
<1>15. ASSUME FinTryEnter PROVE Rest'
  <2>1. fin # Idle
    BY <1>15 DEF FinTryEnter
  <2>2. /\ fin'.w = fin.w
        /\ fin'.at = IF lock = "none" THEN "add" ELSE "owner"
    <3>1. /\ [fin EXCEPT !.at = "add"].at = "add" /\ [fin EXCEPT !.at = "add"].w = fin.w
          /\ [fin EXCEPT !.at = "owner"].at = "owner" /\ [fin EXCEPT !.at = "owner"].w = fin.w
      BY <1>0, <2>1, PlaceOfFin
    <3>2. fin' = IF lock = "none" THEN [fin EXCEPT !.at = "add"] ELSE [fin EXCEPT !.at = "owner"]
      BY <1>15 DEF FinTryEnter
    <3> QED BY <3>1, <3>2
  <2> QED BY <1>15, <2>1, <2>2 DEF FinTryEnter, LiveOK, Live, FinOK, BuildOK, LockOK, ListOK
<1>16. ASSUME FinAdd PROVE Rest'
  <2>1. fin # Idle
    BY <1>16 DEF FinAdd
  <2>2. fin'.w = fin.w /\ fin'.at = "owner"
    BY <1>0, <1>16, <2>1, PlaceOfFin DEF FinAdd
  <2>3. leaked' # << >> /\ Len(leaked') = Len(leaked) + 1
    BY <1>16 DEF FinAdd, TypeOK
  <2>4. main.at # "foreach"
    BY <1>16 DEF FinAdd, BuildOK, LockOK
  <2>5. ListOK'
    BY <1>16, <2>3, <2>4 DEF FinAdd, ListOK
  <2>6. LockOK'
    BY <1>16, <2>2, <2>4 DEF FinAdd, LockOK
  <2> QED BY <1>16, <2>1, <2>2, <2>5, <2>6 DEF FinAdd, LiveOK, Live, FinOK, BuildOK
<1>17. ASSUME FinOwner PROVE Rest'
  BY <1>17 DEF FinOwner, TypeOK, LiveOK, Live, FinOK, BuildOK, LockOK, ListOK
<1> QED BY TypeStep, <1>1, <1>2, <1>3, <1>4, <1>5, <1>6, <1>7, <1>8, <1>9, <1>10, <1>11, <1>12, <1>13,
           <1>14, <1>15, <1>16, <1>17 DEF Next, CleanStep, FinStep

LEMMA ControlAlways == Spec => []Control
<1>1. Control /\ [Next]_vars => Control'
  <2>1. CASE Next
    BY <2>1, ControlStep
  <2>2. CASE UNCHANGED vars
    BY <2>2 DEF vars, Control, TypeOK, LiveOK, Live, FinOK, BuildOK, LockOK, ListOK
  <2> QED BY <2>1, <2>2
<1> QED BY <1>1, InitControl, PTL DEF Spec

(* When no thread is inside the lock, the flag CleanLeaks reads without it *)
(* tells whether a reference waits in the list.                            *)
THEOREM FlagTellsTheTruth == Spec => []FlagCovers
<1>1. Control => FlagCovers
  BY DEF Control, ListOK, FlagCovers
<1> QED BY <1>1, ControlAlways, PTL

-----------------------------------------------------------------------------
(* Who is responsible for which reference. *)

Owners == {w \in Wrappers : Owns(w)}
RefsResolve == \A w \in Owners : reg[wrap[w].ref] = wrap[w].obj
OwnersDiffer == \A v, w \in Owners : wrap[v].ref = wrap[w].ref => v = w
PendingOK ==
    /\ \A i, j \in 1 .. Len(Pending) : Pending[i] = Pending[j] => i = j
    /\ \A i \in 1 .. Len(Pending) :
          /\ Pending[i] \in Held
          /\ \A w \in Owners : wrap[w].ref # Pending[i]
Lossless ==
    NET_4 => \A r \in Held : \/ \E w \in Owners : wrap[w].ref = r
                             \/ \E i \in 1 .. Len(Pending) : Pending[i] = r

(* The inductive invariant: next to what the properties say, the free list *)
(* is sound, or the next reference could be one that is in use.            *)
Ownership == List!IInv /\ RefsResolve /\ OwnersDiffer /\ PendingOK /\ Lossless

LEMMA PendingType ==
    ASSUME Control
    PROVE  /\ Pending \in Seq(Slots)
           /\ main.at = "unref" => Pending = <<main.ref>> \o leaked /\ main.ref \in Slots
           /\ main.at = "foreach" => Pending = SubSeq(leaked, main.next, Len(leaked))
           /\ main.at \notin {"unref", "foreach"} => Pending = leaked
<1>0. main \in Places /\ leaked \in Seq(Slots)
  BY DEF Control, TypeOK, Places
<1>1. CASE main.at = "unref"
  <2>1. main.ref \in Slots
    BY <1>0, <1>1, PlaceOfMain
  <2> QED BY <1>0, <1>1, <2>1 DEF Pending
<1>2. CASE main.at = "foreach"
  <2>1. main.next \in Int /\ Len(leaked) \in Int /\ \A i \in main.next .. Len(leaked) : leaked[i] \in Slots
    BY <1>0, <1>2 DEF Control, ListOK
  <2>2. SubSeq(leaked, main.next, Len(leaked)) \in Seq(Slots)
    BY <2>1, SubSeqProperties
  <2> QED BY <1>2, <2>2 DEF Pending
<1>3. CASE main.at \notin {"unref", "foreach"}
  BY <1>0, <1>3 DEF Pending
<1> QED BY <1>1, <1>2, <1>3

(* A LuaBase gets, or gives back, a reference: the theorems about the      *)
(* registry say what becomes of the others.                                *)
LEMMA TakesSlot ==
    ASSUME Control, List!IInv, NEW o \in Objects, NEW r \in Registry!RefChoices(reg) \cap Slots,
           reg' = Registry!AfterRef(reg, r, o), errors' = errors
    PROVE  /\ List!IInv' /\ r \notin Held /\ Held' = Held \cup {r}
           /\ reg'[r] = o /\ \A q \in Held : reg'[q] = reg[q]
<1>1. List!MaxRefAssumption
  BY MaxRefAssumption DEF List!MaxRefAssumption
<1>2. List!ObjectsAssumption
  BY ObjectsAssumption DEF List!ObjectsAssumption
<1>3. r \in List!RefChoices(reg) /\ r \in Slots /\ Slots = List!Slots
  BY DEF Registry!RefChoices, List!RefChoices, Registry!FirstFree, List!FirstFree, Registry!ToInteger,
         List!ToInteger, Registry!Borders, List!Borders, Registry!FREELIST_REF, List!FREELIST_REF, Slots, List!Slots
<1>4. r \notin Held
  BY <1>1, <1>2, <1>3, List!ChoiceIsFree
<1>5. reg' = List!AfterRef(reg, r, o)
  BY DEF Registry!AfterRef, List!AfterRef, Registry!Unlinked, List!Unlinked, Registry!FirstFree, List!FirstFree,
         Registry!ToInteger, List!ToInteger, Registry!FREELIST_REF, List!FREELIST_REF
<1>6. reg'[r] = o /\ \A q \in Slots \ {r} : reg'[q] = reg[q]
  BY <1>3, MaxRefAssumption DEF Control, TypeOK, Slots, Registry!AfterRef, Registry!Unlinked, Registry!FREELIST_REF
<1>7. Held' = Held \cup {r}
  BY <1>3, <1>6 DEF Held, Slots
<1>8. List!Ref(o)
  BY <1>3, <1>5, <1>7 DEF List!Ref
<1> QED BY <1>1, <1>2, <1>4, <1>6, <1>7, <1>8, List!RefIInv DEF Held, Slots

LEMMA FreesSlot ==
    ASSUME Control, List!IInv, NEW r \in Held, reg' = Registry!AfterUnref(reg, r), errors' = errors
    PROVE  /\ List!IInv' /\ Held' = Held \ {r}
           /\ \A q \in Held \ {r} : reg'[q] = reg[q]
<1>1. List!MaxRefAssumption
  BY MaxRefAssumption DEF List!MaxRefAssumption
<1>2. List!ObjectsAssumption
  BY ObjectsAssumption DEF List!ObjectsAssumption
<1>3. reg[0] \notin Objects
  <2>1. \E n \in 0 .. MaxRef : \E s \in [1 .. n -> Slots \ Held] : reg[0] = IF n = 0 THEN Nil ELSE s[1]
    BY DEF List!IInv, List!Shape, List!IsFreeList, List!FREELIST_REF, List!Slots, Slots
  <2>2. \A n \in 0 .. MaxRef : n # 0 => 1 \in 1 .. n
    BY MaxRefAssumption
  <2> QED BY <2>1, <2>2, ObjectsAssumption DEF Slots
<1>4. reg' = List!AfterUnref(reg, r)
  BY DEF Registry!AfterUnref, List!AfterUnref, Registry!FREELIST_REF, List!FREELIST_REF
<1>5. reg'[r] = reg[0] /\ \A q \in Slots \ {r} : reg'[q] = reg[q]
  <2>1. r \in 0 .. MaxRef /\ r # 0 /\ 0 \in 0 .. MaxRef /\ Slots \subseteq 0 .. MaxRef /\ 0 \notin Slots
    BY MaxRefAssumption DEF Held, Slots
  <2>2. reg' = [reg EXCEPT ![r] = reg[0], ![0] = r] /\ DOMAIN reg = 0 .. MaxRef
    BY DEF Control, TypeOK, Registry!AfterUnref, Registry!FREELIST_REF
  <2> QED BY <2>1, <2>2
<1>6. Held' = Held \ {r}
  BY <1>3, <1>5 DEF Held, Slots
<1>7. List!Unref(r)
  BY <1>4, <1>6 DEF List!Unref
<1> QED BY <1>1, <1>2, <1>5, <1>6, <1>7, List!UnrefIInv DEF Held, Slots

-----------------------------------------------------------------------------
(* The five things a step can do to the references; Kept says that those   *)
(* who stay responsible keep their reference.                              *)

Kept ==
    /\ errors' = errors /\ NET_4' = NET_4
    /\ \A w \in Owners \cap Owners' : wrap'[w].ref = wrap[w].ref /\ wrap'[w].obj = wrap[w].obj

LEMMA ListUnchanged ==
    ASSUME List!IInv, reg' = reg, errors' = errors
    PROVE  List!IInv' /\ Held' = Held
<1>1. Held' = Held
  BY DEF Held
<1> QED BY <1>1 DEF List!IInv, List!TypeOK, List!Shape, List!IsFreeList, List!IsDense

(* Nothing; or a LuaBase of the locking build gives up its reference.      *)
LEMMA Quiet ==
    ASSUME Ownership, Kept, reg' = reg, Pending' = Pending,
           Owners' \subseteq Owners, NET_4 => Owners' = Owners
    PROVE  Ownership'
<1>1. List!IInv' /\ Held' = Held
  BY ListUnchanged DEF Ownership, Kept
<1>2. RefsResolve' /\ OwnersDiffer'
  BY DEF Ownership, Kept, RefsResolve, OwnersDiffer
<1>3. PendingOK' /\ Lossless'
  BY <1>1 DEF Ownership, Kept, PendingOK, Lossless
<1> QED BY <1>1, <1>2, <1>3 DEF Ownership

(* A new LuaBase. *)
LEMMA Gains ==
    ASSUME Control, Ownership, Kept, Pending' = Pending,
           NEW w \in Wrappers, w \notin Owners, Owners' = Owners \cup {w},
           NEW o \in Objects, NEW r \in Registry!RefChoices(reg) \cap Slots,
           reg' = Registry!AfterRef(reg, r, o), wrap'[w].ref = r, wrap'[w].obj = o
    PROVE  Ownership'
<1>1. /\ List!IInv' /\ r \notin Held /\ Held' = Held \cup {r}
      /\ reg'[r] = o /\ \A q \in Held : reg'[q] = reg[q]
  BY TakesSlot DEF Ownership, Kept
<1>2. \A v \in Owners : wrap[v].ref \in Held
  BY DEF Ownership, RefsResolve, Owners, Owns, Held, Control, LiveOK, Slots
<1>3. RefsResolve' /\ OwnersDiffer'
  BY <1>1, <1>2 DEF Ownership, Kept, RefsResolve, OwnersDiffer
<1>4. PendingOK'
  BY <1>1 DEF Ownership, Kept, PendingOK
<1>5. Lossless'
  BY <1>1 DEF Ownership, Kept, Lossless
<1> QED BY <1>1, <1>3, <1>4, <1>5 DEF Ownership

(* A LuaBase is disposed. *)
LEMMA GivesBack ==
    ASSUME Control, Ownership, Kept, Pending' = Pending,
           NEW w \in Owners, Owners' = Owners \ {w},
           reg' = Registry!AfterUnref(reg, wrap[w].ref)
    PROVE  Ownership'
<1>2. \A v \in Owners : wrap[v].ref \in Held
  BY DEF Ownership, RefsResolve, Owners, Owns, Held, Control, LiveOK, Slots
<1>1. /\ List!IInv' /\ Held' = Held \ {wrap[w].ref}
      /\ \A q \in Held \ {wrap[w].ref} : reg'[q] = reg[q]
  BY <1>2, FreesSlot DEF Ownership, Kept
<1>3. \A v \in Owners \ {w} : wrap[v].ref \in Held \ {wrap[w].ref}
  BY <1>2 DEF Ownership, OwnersDiffer
<1>4. RefsResolve' /\ OwnersDiffer'
  BY <1>1, <1>3 DEF Ownership, Kept, RefsResolve, OwnersDiffer
<1>5. PendingOK'
  BY <1>1 DEF Ownership, Kept, PendingOK
<1>6. Lossless'
  BY <1>1 DEF Ownership, Kept, Lossless
<1> QED BY <1>1, <1>4, <1>5, <1>6 DEF Ownership

(* The finalizer passes a reference on. *)
LEMMA PassesOn ==
    ASSUME Control, Ownership, Kept, reg' = reg,
           NEW w \in Owners, Owners' = Owners \ {w}, Pending' = Append(Pending, wrap[w].ref)
    PROVE  Ownership'
<1>1. List!IInv' /\ Held' = Held
  BY ListUnchanged DEF Ownership, Kept
<1>2. wrap[w].ref \in Held /\ wrap[w].ref \in Slots
  BY DEF Ownership, RefsResolve, Owners, Owns, Held, Control, LiveOK, Slots
<1>3. /\ Len(Pending') = Len(Pending) + 1 /\ Len(Pending) \in Nat
      /\ \A i \in 1 .. Len(Pending) : Pending'[i] = Pending[i]
      /\ Pending'[Len(Pending) + 1] = wrap[w].ref
  BY <1>2, PendingType, AppendProperties
<1>4. \A i \in 1 .. Len(Pending') : i \in 1 .. Len(Pending) \/ i = Len(Pending) + 1
  BY <1>3
<1>5. RefsResolve' /\ OwnersDiffer'
  BY DEF Ownership, Kept, RefsResolve, OwnersDiffer
<1>6. PendingOK'
  BY <1>1, <1>2, <1>3, <1>4 DEF Ownership, Kept, PendingOK, OwnersDiffer
<1>7. Lossless'
  BY <1>1, <1>3 DEF Ownership, Kept, Lossless
<1> QED BY <1>1, <1>5, <1>6, <1>7 DEF Ownership

(* CleanLeaks gives the first of the waiting references back. *)
LEMMA Releases ==
    ASSUME Control, Ownership, Kept, Owners' = Owners,
           Pending # << >>, Pending' = Tail(Pending),
           reg' = Registry!AfterUnref(reg, Pending[1])
    PROVE  Ownership'
<1>1. /\ Len(Pending') = Len(Pending) - 1 /\ Len(Pending) \in Nat /\ Len(Pending) > 0
      /\ \A i \in 1 .. Len(Pending') : Pending'[i] = Pending[i + 1]
  BY PendingType, HeadTailProperties, EmptySeq
<1>2. Pending[1] \in Held
  BY <1>1 DEF Ownership, PendingOK
<1>3. /\ List!IInv' /\ Held' = Held \ {Pending[1]}
      /\ \A q \in Held \ {Pending[1]} : reg'[q] = reg[q]
  BY <1>2, FreesSlot DEF Ownership, Kept
<1>4. \A v \in Owners : wrap[v].ref \in Held \ {Pending[1]}
  BY <1>1 DEF Ownership, PendingOK, RefsResolve, Owners, Owns, Held, Control, LiveOK, Slots
<1>5. RefsResolve' /\ OwnersDiffer'
  BY <1>3, <1>4 DEF Ownership, Kept, RefsResolve, OwnersDiffer
<1>6. \A i \in 1 .. Len(Pending') : i + 1 \in 1 .. Len(Pending) /\ i + 1 # 1 /\ 1 \in 1 .. Len(Pending)
  BY <1>1
<1>7. PendingOK'
  BY <1>1, <1>3, <1>6 DEF Ownership, Kept, PendingOK
<1>8. Lossless'
  <2>1. \A i \in 1 .. Len(Pending) : i = 1 \/ (i - 1 \in 1 .. Len(Pending') /\ Pending'[i - 1] = Pending[i])
    BY <1>1
  <2>2. ASSUME NET_4, NEW q \in Held, q # Pending[1]
        PROVE  (\E w \in Owners : wrap[w].ref = q) \/ \E i \in 1 .. Len(Pending') : Pending'[i] = q
    BY <2>1, <2>2 DEF Ownership, Lossless
  <2> QED BY <1>3, <2>2 DEF Kept, Lossless
<1> QED BY <1>3, <1>5, <1>7, <1>8 DEF Ownership

-----------------------------------------------------------------------------
(* Which of the five each step of the two threads is. *)

LEMMA OwnershipStep ==
    ASSUME Control, Control', Next, Usable', Usable => Ownership
    PROVE  Ownership'
<1>0. /\ main \in Places /\ fin \in {Idle} \cup Finalizations /\ leaked \in Seq(Slots)
      /\ errors \in Nat /\ wrap \in [Wrappers -> [state : {"unused", "live", "disposed"},
                                                  ref : {NoRef} \cup Slots, obj : Objects \cup {Nil}]]
  BY MaxErrorsAssumption DEF Control, TypeOK, Places, Finalizations
<1>00. /\ Idle.at = "idle" /\ (fin = Idle <=> fin.at = "idle") /\ (fin # Idle => fin.w \in Wrappers)
       /\ main = Idle => main.at = "idle"
  BY <1>0, PlaceOfFin DEF Idle
<1>u. open' /\ errors' = 0
  BY DEF Usable
<1>n. \A n \in Nat : n + 1 # 0
  OBVIOUS
<1> USE <1>00 DEF Kept
<1>p. ASSUME main' = main, leaked' = leaked PROVE Pending' = Pending
  BY <1>p DEF Pending
<1>1. ASSUME NEW w \in Wrappers, NEW o \in Objects, Create(w, o) PROVE Ownership'
  <2>1. Usable /\ Ownership
    BY <1>1, <1>u DEF Create, Usable
  <2>2. PICK r \in Registry!RefChoices(reg) \cap Slots :
           /\ reg' = Registry!AfterRef(reg, r, o)
           /\ wrap' = [wrap EXCEPT ![w] = [state |-> "live", ref |-> r, obj |-> o]]
    BY <1>1 DEF Create
  <2>3. wrap'[w].ref = r /\ wrap'[w].obj = o /\ wrap'[w].state = "live" /\ \A v \in Wrappers \ {w} : wrap'[v] = wrap[v]
    BY <1>0, <2>2
  <2>4. w \notin Owners /\ Owners' = Owners \cup {w}
    BY <1>1, <2>3 DEF Create, Owners, Owns, Live, Finalizing
  <2>5. Kept /\ Pending' = Pending
    BY <1>1, <1>p, <2>3, <2>4 DEF Create, Owners
  <2> QED BY <2>1, <2>2, <2>3, <2>4, <2>5, Gains
<1>2. ASSUME CreateFails PROVE FALSE
  BY <1>0, <1>u, <1>2, <1>n DEF CreateFails, StoreFails
<1>3. ASSUME NEW w \in Wrappers, Dispose(w) PROVE Ownership'
  <2>1. Usable /\ Ownership
    BY <1>3, <1>u DEF Dispose, Usable
  <2>2. /\ wrap'[w].state = "disposed"
        /\ \A v \in Wrappers \ {w} : wrap'[v] = wrap[v]
    BY <1>0, <1>3 DEF Dispose
  <2>3. fin # Idle => fin.w # w
    BY <1>3 DEF Dispose, Control, FinOK
  <2>4. Owners' = Owners \ {w} /\ (Live(w) <=> w \in Owners)
    BY <1>3, <2>2, <2>3 DEF Dispose, Owners, Owns, Live, Finalizing
  <2>5. Kept /\ Pending' = Pending
    BY <1>3, <1>p, <2>2, <2>4 DEF Dispose, Owners
  <2>6. CASE Live(w)
    BY <1>3, <1>u, <2>1, <2>4, <2>5, <2>6, GivesBack DEF Dispose
  <2>7. CASE ~Live(w)
    <3>1. reg' = reg /\ Owners' = Owners
      BY <1>3, <2>4, <2>7 DEF Dispose
    <3> QED BY <2>1, <2>5, <3>1, Quiet
  <2> QED BY <2>6, <2>7
<1>4. ASSUME NEW w \in Wrappers, DisposeFails(w) PROVE FALSE
  BY <1>0, <1>u, <1>4, <1>n DEF DisposeFails, StoreFails
<1>5. ASSUME NEW w \in Wrappers, Forget(w) PROVE Ownership'
  <2>1. Usable /\ Ownership
    BY <1>5, <1>u DEF Forget, Usable
  <2>2. Owners' = Owners
    BY <1>5 DEF Forget, Owners, Owns, Live, Finalizing
  <2> QED BY <1>5, <1>p, <2>1, <2>2, Quiet DEF Forget
<1>6. ASSUME NEW w \in Wrappers, Finalize(w) PROVE Ownership'
  <2>1. Usable /\ Ownership
    BY <1>6, <1>u DEF Finalize, Usable
  <2>2. fin = Idle /\ fin'.at # "owner"
    BY <1>6 DEF Finalize
  <2>3. Owners' = Owners
    BY <1>6, <2>2 DEF Finalize, Owners, Owns, Live, Finalizing
  <2> QED BY <1>6, <1>p, <2>1, <2>3, Quiet DEF Finalize
<1>7. ASSUME DisposeLua PROVE FALSE
  BY <1>u, <1>7 DEF DisposeLua
<1>8. ASSUME CleanBegin \/ CleanLock \/ CleanEnd \/ CleanDequeue PROVE Ownership'
  <2>1. /\ Usable /\ Ownership /\ Owners' = Owners /\ reg' = reg /\ Kept
    BY <1>8, <1>u DEF CleanBegin, CleanLock, CleanEnd, CleanDequeue, Usable, Owners, Owns, Live, Finalizing
  <2>2. Pending' = Pending
    <3>1. CASE CleanBegin
      <4>1. main.at = "idle" /\ main'.at \in {"dequeue", "lock"} /\ leaked' = leaked
        BY <3>1 DEF CleanBegin
      <4> QED BY <4>1 DEF Pending
    <3>2. CASE CleanLock
      <4>1. Pending = leaked /\ Pending' = SubSeq(leaked, 1, Len(leaked))
        BY <3>2 DEF CleanLock, Pending
      <4> QED BY <1>0, <4>1, SubSeqFull
    <3>3. CASE CleanEnd
      <4>1. main.next \in Int /\ Len(leaked) \in Int /\ Len(leaked) < main.next
        BY <1>0, <3>3 DEF CleanEnd, Control, ListOK
      <4>2. Pending = SubSeq(leaked, main.next, Len(leaked)) /\ Pending' = << >>
        BY <3>3 DEF CleanEnd, Pending
      <4> QED BY <4>1, <4>2, SubSeqEmpty
    <3>4. CASE CleanDequeue
      <4>1. CASE leaked = << >>
        BY <3>4, <4>1 DEF CleanDequeue, Pending
      <4>2. CASE leaked # << >>
        <5>0. main.at = "dequeue" /\ leaked' = Tail(leaked) /\ main' = [at |-> "unref", ref |-> Head(leaked)]
          BY <3>4, <4>2 DEF CleanDequeue
        <5>1. Pending = leaked /\ Pending' = <<Head(leaked)>> \o Tail(leaked)
          BY <5>0 DEF Pending
        <5>2. leaked = <<Head(leaked)>> \o Tail(leaked)
          BY <1>0, <4>2
        <5> QED BY <5>1, <5>2
      <4> QED BY <4>1, <4>2
    <3> QED BY <1>8, <3>1, <3>2, <3>3, <3>4
  <2> QED BY <2>1, <2>2, Quiet
<1>9. ASSUME CleanUnref PROVE Ownership'
  <2>1. errors' = errors /\ reg' = Registry!AfterUnref(reg, main.ref) /\ main' = [at |-> "dequeue"]
    BY <1>0, <1>u, <1>9, <1>n DEF CleanUnref, StoreFails
  <2>2. Usable /\ Ownership /\ Owners' = Owners /\ Kept
    BY <1>9, <1>u, <2>1 DEF CleanUnref, Usable, Owners, Owns, Live, Finalizing
  <2>3. Pending = <<main.ref>> \o leaked /\ main.ref \in Slots /\ Pending' = leaked
    BY <1>9, <2>1, PendingType DEF CleanUnref, Pending
  <2>4. Pending # << >> /\ Pending[1] = main.ref /\ Tail(Pending) = leaked
    BY <1>0, <2>3
  <2> QED BY <2>1, <2>2, <2>3, <2>4, Releases
<1>10. ASSUME CleanEach PROVE Ownership'
  <2>1. /\ errors' = errors /\ reg' = Registry!AfterUnref(reg, leaked[main.next])
        /\ main' = [main EXCEPT !.next = @ + 1] /\ main.at = "foreach"
    BY <1>0, <1>u, <1>10, <1>n DEF CleanEach, StoreFails
  <2>2. Usable /\ Ownership /\ Owners' = Owners /\ Kept
    BY <1>10, <1>u, <2>1 DEF CleanEach, Usable, Owners, Owns, Live, Finalizing
  <2>3. main.next \in 1 .. Len(leaked) /\ Len(leaked) \in main.next .. Len(leaked)
    BY <1>0, <1>10 DEF CleanEach, Control, ListOK
  <2>4. main'.at = "foreach" /\ main'.next = main.next + 1
    BY <1>0, <2>1, PlaceOfMain
  <2>5. Pending = SubSeq(leaked, main.next, Len(leaked)) /\ Pending' = SubSeq(leaked, main.next + 1, Len(leaked))
    BY <1>10, <2>1, <2>4 DEF CleanEach, Pending
  <2>6. Head(Pending) = leaked[main.next] /\ Tail(Pending) = Pending'
    BY <1>0, <2>3, <2>5, HeadTailOfSubSeq
  <2>7. Pending # << >> /\ Pending[1] = leaked[main.next]
    <3>1. main.next \in Int /\ Len(leaked) \in Int /\ main.next <= Len(leaked)
          /\ \A i \in main.next .. Len(leaked) : leaked[i] \in Slots
      BY <1>0, <2>3
    <3>2. Len(Pending) = Len(leaked) - main.next + 1
      BY <2>5, <3>1, SubSeqProperties
    <3>3. Pending # << >>
      BY <3>1, <3>2
    <3> QED BY <2>6, <3>3
  <2> QED BY <2>1, <2>2, <2>6, <2>7, Releases
<1>11. ASSUME FinIsNull PROVE Ownership'
  <2>0. fin # Idle /\ open
    BY <1>11, <1>u DEF FinIsNull
  <2>1. fin # Idle /\ fin'.w = fin.w /\ fin'.at # "owner" /\ fin' # Idle
    <3>1. /\ [fin EXCEPT !.at = "add"].at = "add" /\ [fin EXCEPT !.at = "add"].w = fin.w
          /\ [fin EXCEPT !.at = "tryenter"].at = "tryenter" /\ [fin EXCEPT !.at = "tryenter"].w = fin.w
      BY <1>0, <2>0, PlaceOfFin
    <3>2. fin' = [fin EXCEPT !.at = "add"] \/ fin' = [fin EXCEPT !.at = "tryenter"]
      BY <1>11, <2>0 DEF FinIsNull
    <3> QED BY <2>0, <3>1, <3>2
  <2>2. Usable /\ Ownership /\ Owners' = Owners /\ Kept
    BY <1>11, <1>u, <2>1 DEF FinIsNull, Usable, Owners, Owns, Live, Finalizing
  <2> QED BY <1>11, <1>p, <2>2, Quiet DEF FinIsNull
<1>12. ASSUME FinTryEnter PROVE Ownership'
  <2>0. fin # Idle
    BY <1>12 DEF FinTryEnter
  <2>1. /\ fin'.w = fin.w /\ fin'.at \in {"add", "owner"}
        /\ fin'.at = "add" => registered' = registered
        /\ fin'.at = "owner" => registered' = registered \cup {fin.w}
    <3>1. /\ [fin EXCEPT !.at = "add"].at = "add" /\ [fin EXCEPT !.at = "add"].w = fin.w
          /\ [fin EXCEPT !.at = "owner"].at = "owner" /\ [fin EXCEPT !.at = "owner"].w = fin.w
      BY <1>0, <2>0, PlaceOfFin
    <3> QED BY <1>12, <3>1 DEF FinTryEnter
  <2>2. Usable /\ Ownership /\ Kept
    BY <1>12, <1>u DEF FinTryEnter, Usable, Owners, Owns, Live, Finalizing
  <2>3. Owners' = Owners
    BY <1>12, <2>0, <2>1 DEF FinTryEnter, Owners, Owns, Live, Finalizing
  <2> QED BY <1>12, <1>p, <2>2, <2>3, Quiet DEF FinTryEnter
<1>13. ASSUME FinAdd PROVE Ownership'
  <2>1. /\ fin # Idle /\ fin'.w = fin.w /\ fin'.at = "owner" /\ fin' # Idle
        /\ fin.w \in Wrappers /\ Live(fin.w) /\ fin.w \notin registered
    BY <1>0, <1>13, PlaceOfFin DEF FinAdd, Control, FinOK
  <2>2. Usable /\ Ownership
    BY <1>13, <1>u DEF FinAdd, Usable
  <2>3. fin.w \in Owners /\ Owners' = Owners \ {fin.w} /\ Kept
    BY <1>13, <2>1 DEF FinAdd, Owners, Owns, Live, Finalizing
  <2>4. Pending' = Append(Pending, wrap[fin.w].ref)
    <3>0. wrap[fin.w].ref \in Slots
      BY <2>1 DEF Control, LiveOK
    <3>1. main.at # "foreach"
      BY <1>13 DEF FinAdd, Control, BuildOK, LockOK
    <3>2. CASE main.at = "unref"
      <4>1. Pending = <<main.ref>> \o leaked /\ main.ref \in Slots /\ Pending' = <<main.ref>> \o Append(leaked, wrap[fin.w].ref)
        BY <1>13, <3>2, PendingType DEF FinAdd, Pending
      <4> QED BY <1>0, <3>0, <4>1
    <3>3. CASE main.at # "unref"
      BY <1>13, <3>1, <3>3 DEF FinAdd, Pending
    <3> QED BY <3>2, <3>3
  <2> QED BY <1>13, <2>2, <2>3, <2>4, PassesOn DEF FinAdd
<1>14. ASSUME FinOwner PROVE Ownership'
  <2>1. fin # Idle /\ fin.w \in Wrappers /\ fin' = Idle
    BY <1>14 DEF FinOwner
  <2>2. wrap'[fin.w].state = "disposed" /\ \A v \in Wrappers \ {fin.w} : wrap'[v] = wrap[v]
    BY <1>0, <1>14, <2>1 DEF FinOwner
  <2>3. Usable /\ Ownership
    BY <1>14, <1>u DEF FinOwner, Usable
  <2>4. Owners' = Owners \ {fin.w} /\ (NET_4 => fin.w \notin Owners)
    BY <1>14, <2>1, <2>2, <2>3 DEF FinOwner, Owners, Owns, Live, Finalizing, Control, FinOK, Usable
  <2>5. Kept /\ reg' = reg
    BY <1>14, <2>2, <2>4 DEF FinOwner, Owners
  <2> QED BY <1>14, <1>p, <2>3, <2>4, <2>5, Quiet DEF FinOwner
<1> QED BY <1>1, <1>2, <1>3, <1>4, <1>5, <1>6, <1>7, <1>8, <1>9, <1>10, <1>11, <1>12, <1>13, <1>14
        DEF Next, CleanStep, FinStep

LEMMA InitOwnership == Init => Ownership
<1> SUFFICES ASSUME Init PROVE Ownership
  OBVIOUS
<1>1. List!MaxRefAssumption
  BY MaxRefAssumption DEF List!MaxRefAssumption
<1>2. List!ObjectsAssumption
  BY ObjectsAssumption DEF List!ObjectsAssumption
<1>3. Held = {} /\ Owners = {} /\ Pending = << >>
  BY ObjectsAssumption, MaxRefAssumption DEF Init, Held, Owners, Owns, Live, Unused, Pending, Idle
<1>4. List!Init
  BY <1>3 DEF Init, List!Init
<1>5. List!IInv
  BY <1>1, <1>2, <1>4, List!InitIInv
<1> QED BY <1>3, <1>5 DEF Ownership, RefsResolve, OwnersDiffer, PendingOK, Lossless

THEOREM Invariance == Spec => [](Control /\ (Usable => Ownership))
<1>1. Init => (Usable => Ownership)
  BY InitOwnership
<1>2. Control /\ Control' /\ (Usable => Ownership) /\ [Next]_vars => (Usable' => Ownership')
  <2>1. CASE Next
    BY <2>1, OwnershipStep
  <2>2. CASE UNCHANGED vars
    <3>1. Pending' = Pending /\ Owners' = Owners /\ reg' = reg /\ (Usable' => Usable)
      BY <2>2 DEF vars, Pending, Owners, Owns, Live, Finalizing, Usable
    <3>2. Kept
      BY <2>2, <3>1 DEF vars, Kept
    <3> QED BY <3>1, <3>2, Quiet
  <2> QED BY <2>1, <2>2
<1> QED BY <1>1, <1>2, ControlAlways, PTL DEF Spec

(* As long as no store ran out of memory, a LuaBase finds the value it was *)
(* made for, whatever the finalizer thread and CleanLeaks do meanwhile.    *)
THEOREM ValuesAreKept == Spec => []WrappersResolve
<1>1. Control /\ (Usable => Ownership) => WrappersResolve
  BY DEF Control, Ownership, RefsResolve, Owners, WrappersResolve
<1> QED BY <1>1, Invariance, PTL

(* No reference is given back twice: LuaBase, the finalizer thread and     *)
(* CleanLeaks never hold the same one.                                     *)
THEOREM NothingReleasedTwice == Spec => []ReleasedOnce
<1>1. ASSUME Control, Usable => Ownership PROVE ReleasedOnce
  <2> SUFFICES ASSUME Usable PROVE ReleasedOnce
    BY DEF ReleasedOnce
  <2>1. Ownership /\ DOMAIN Pending = 1 .. Len(Pending)
    BY <1>1, PendingType
  <2> QED BY <2>1 DEF Ownership, OwnersDiffer, PendingOK, Owners, Held, ReleasedOnce, IsInjective
<1> QED BY <1>1, Invariance, PTL

(* In the build with the queue, every value in the registry belongs to a   *)
(* LuaBase or waits for CleanLeaks.                                        *)
THEOREM QueueKeepsAll == Spec => []QueueLosesNothing
<1>1. ASSUME Control, Usable => Ownership PROVE QueueLosesNothing
  <2> SUFFICES ASSUME Usable, NET_4 PROVE NoLostReference
    BY DEF QueueLosesNothing, NoLostReference
  <2>1. Ownership /\ DOMAIN Pending = 1 .. Len(Pending)
    BY <1>1, PendingType
  <2> QED BY <2>1 DEF Ownership, Lossless, Owners, Held, Slots, NoLostReference
<1> QED BY <1>1, Invariance, PTL
=============================================================================
