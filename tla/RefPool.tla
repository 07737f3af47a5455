------------------------------ MODULE RefPool ------------------------------
(***************************************************************************)
(* What luaL_ref and luaL_unref promise their callers, whatever the table  *)
(* behind them looks like: a pool of integer references, each of which     *)
(* keeps one Lua object until the reference is given back.                 *)
(***************************************************************************)
EXTENDS Naturals

CONSTANTS
    Objects,    \* the Lua values a reference can stand for
    MaxRef      \* the largest reference the pool hands out

VARIABLE
    live        \* the references handed out, each with the object it keeps

Refs == 1 .. MaxRef

Init == live = << >>

(* A reference nobody holds now stands for o. *)
Acquire(o) ==
    \E r \in Refs \ DOMAIN live :
        live' = [x \in DOMAIN live \cup {r} |-> IF x = r THEN o ELSE live[x]]

(* The reference r is given back; every other one keeps its object. *)
Release(r) ==
    live' = [x \in DOMAIN live \ {r} |-> live[x]]

Next ==
    \/ \E o \in Objects : Acquire(o)
    \/ \E r \in DOMAIN live : Release(r)

Spec == Init /\ [][Next]_live
=============================================================================
