---------------------------- MODULE RegistryRefs ----------------------------
(***************************************************************************)
(* luaL_ref and luaL_unref of lauxlib.c over the Lua registry.  The table  *)
(* keeps the free references in a list threaded through the table itself:  *)
(* index 0 holds the first free reference, a free slot holds the next one, *)
(* and the end of the list is a slot that holds nothing, because the first *)
(* reference ever freed copies the still empty index 0.                    *)
(*                                                                         *)
(* A slot whose value is nil may have lost its key when the table was      *)
(* rehashed, so storing into it may need memory: those are the only stores *)
(* of the two functions that can raise a memory error.                     *)
(*                                                                         *)
(* A nil argument makes luaL_ref return LUA_REFNIL, and a negative         *)
(* reference makes luaL_unref return, without a look at the table: both    *)
(* are stuttering steps.                                                   *)
(***************************************************************************)
EXTENDS Integers, FiniteSets

CONSTANTS
    Objects,    \* the Lua values the callers of luaL_ref keep
    Nil,        \* the value of an empty slot
    MaxRef      \* bound: no reference above it is ever created

ASSUME ObjectsAssumption == Nil \notin Objects /\ (Objects \cup {Nil}) \cap Int = {}
ASSUME MaxRefAssumption == MaxRef \in Nat

VARIABLES
    reg,        \* the integer keys of the table
    held,       \* the references handed out and not given back
    failed      \* whether an allocation has failed so far

vars == <<reg, held, failed>>

FREELIST_REF == 0
Slots == 1 .. MaxRef
Value == Objects \cup Slots \cup {Nil}

TypeOK ==
    /\ reg \in [0 .. MaxRef -> Value]
    /\ held \in SUBSET Slots
    /\ failed \in BOOLEAN

(* lua_tointeger: what is not a number reads as 0. *)
ToInteger(v) == IF v \in Int THEN v ELSE 0

FirstFree(t) == ToInteger(t[FREELIST_REF])

(* lua_objlen returns any border: the last non-nil slot of a run. *)
Borders(t) ==
    {b \in 0 .. MaxRef : /\ b = 0 \/ t[b] # Nil
                         /\ b = MaxRef \/ t[b + 1] = Nil}

(* The indices luaL_ref may store into. *)
RefChoices(t) ==
    IF FirstFree(t) # 0 THEN {FirstFree(t)} ELSE {b + 1 : b \in Borders(t)}

(* Mutant: the slot stays the head of the list. *)
UnlinkedKeepsHead(t, r) == t

(* The list without its first slot, when luaL_ref takes that one. *)
Unlinked(t, r) ==
    IF FirstFree(t) # 0 THEN [t EXCEPT ![FREELIST_REF] = t[r]] ELSE t

AfterRef(t, r, o) == [Unlinked(t, r) EXCEPT ![r] = o]

(* Mutants: the slot is never linked; the two stores are swapped, so that  *)
(* the slot leads to itself.                                               *)
AfterUnrefUnlinked(t, r) == [t EXCEPT ![r] = Nil]
AfterUnrefSwapped(t, r) == [t EXCEPT ![r] = r, ![FREELIST_REF] = r]

AfterUnref(t, r) == [t EXCEPT ![r] = t[FREELIST_REF], ![FREELIST_REF] = r]

(* What luaL_unref leaves when its second store raises a memory error. *)
AfterFailedUnref(t, r) == [t EXCEPT ![r] = t[FREELIST_REF]]

MayLackKey(t, i) == t[i] = Nil

-----------------------------------------------------------------------------
Init ==
    /\ reg = [i \in 0 .. MaxRef |-> Nil]
    /\ held = {}
    /\ failed = FALSE

Ref(o) ==
    \E r \in RefChoices(reg) \cap Slots :
        /\ reg' = AfterRef(reg, r, o)
        /\ held' = held \cup {r}
        /\ UNCHANGED failed

(* The last store of luaL_ref fails: the slot has left the list already. *)
RefFails ==
    \E r \in RefChoices(reg) \cap Slots :
        /\ MayLackKey(reg, r)
        /\ reg' = Unlinked(reg, r)
        /\ failed' = TRUE
        /\ UNCHANGED held

Unref(r) ==
    /\ reg' = AfterUnref(reg, r)
    /\ held' = held \ {r}
    /\ UNCHANGED failed

(* The slot is emptied and never linked: the caller has lost its object. *)
UnrefFails(r) ==
    /\ MayLackKey(reg, FREELIST_REF)
    /\ reg' = AfterFailedUnref(reg, r)
    /\ held' = held \ {r}
    /\ failed' = TRUE

Next ==
    \/ \E o \in Objects : Ref(o)
    \/ RefFails
    \/ \E r \in held : Unref(r) \/ UnrefFails(r)

Spec == Init /\ [][Next]_vars

-----------------------------------------------------------------------------
(* s is the free list, of n slots: index 0 leads to the first one, each to *)
(* the next, the last one to nothing, and no other free slot holds a value.*)
IsFreeList(n, s) ==
    /\ \A i, j \in 1 .. n : s[i] = s[j] => i = j
    /\ reg[FREELIST_REF] = IF n = 0 THEN Nil ELSE s[1]
    /\ \A i \in 1 .. n : reg[s[i]] = IF i = n THEN Nil ELSE s[i + 1]
    /\ \A r \in Slots \ held : (\A i \in 1 .. n : r # s[i]) => reg[r] = Nil

(* The slots in use and those of s are the first ones of the table. *)
IsDense(n, s) ==
    \E k \in 0 .. MaxRef : held \cup {s[i] : i \in 1 .. n} = 1 .. k

(* The list threaded through the table is sound: it ends, it meets no slot *)
(* twice and none in use, and every free slot that holds a value is on it, *)
(* even after an allocation failed half way through luaL_ref or luaL_unref.*)
FreeListSound ==
    /\ TypeOK
    /\ \E n \in 0 .. MaxRef : \E s \in [1 .. n -> Slots \ held] : IsFreeList(n, s)

(* Every reference handed out still finds an object in its slot, and the   *)
(* next reference created is none of them: luaL_ref never overwrites a     *)
(* value somebody keeps, even after an allocation failed.                  *)
SlotIntegrity ==
    /\ \A r \in held : reg[r] \in Objects
    /\ RefChoices(reg) \cap held = {}

(* While no allocation has failed, luaL_unref loses no slot: those in use  *)
(* and those on the list are exactly the first k, so the table is as long  *)
(* as the largest number of references that were ever held at once.        *)
Compact ==
    ~failed =>
        \E n \in 0 .. MaxRef : \E s \in [1 .. n -> Slots \ held] :
            /\ IsFreeList(n, s)
            /\ IsDense(n, s)

-----------------------------------------------------------------------------
(* The refinement mapping: what the references handed out resolve to. *)
Pool == INSTANCE RefPool WITH live <- [r \in held |-> reg[r]]

(* luaL_ref and luaL_unref implement a pool of references: a new reference *)
(* is one nobody holds, and no step changes what another one stands for.   *)
ImplementsPool == Pool!Spec
=============================================================================
