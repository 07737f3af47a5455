------------------------------- MODULE LuaMap -------------------------------
(***************************************************************************)
(* What a table promises to those who index it: a map from keys to values, *)
(* in which a key without a value has nil.  An operation names the keys it *)
(* is for and their values: a store one key, the list at the end of a      *)
(* constructor the first integers, a collector one key that loses its      *)
(* value, everything else no key.  The map changes in just that, whatever  *)
(* the table does inside to make room.                                     *)
(***************************************************************************)
EXTENDS Naturals

CONSTANTS Keys, Values, Nil,
    Lengths     \* lengths of the lists in constructors

VARIABLES
    map,    \* the value of each key
    asked   \* what the last operation gave: its keys with their new values

Nothing == << >>

IsStore(given)   == \E k \in Keys : given \in [{k} -> Values \cup {Nil}]
IsSetList(given) == \E n \in Lengths : given \in [1..n -> Values \cup {Nil}]

Init == map = [k \in Keys |-> Nil] /\ asked = Nothing

After(old, given) == [k \in Keys |-> IF k \in DOMAIN given THEN given[k] ELSE old[k]]

\* The values are bound before they are used: a mapping computes them once.
Next ==
    \E old \in {map}, new \in {map'}, given \in {asked'} :
        /\ given = Nothing \/ IsStore(given) \/ IsSetList(given)
        /\ new = After(old, given)

Spec == Init /\ [][Next]_<<map, asked>>
=============================================================================
