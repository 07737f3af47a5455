----------------------------- MODULE MCLuaTable -----------------------------
(* LuaTable with three integers, a string and an object as keys. *)
EXTENDS LuaTable

CONSTANTS o, newindex

\* The hashes Lua computes for the integers, modulo 3.  The object collides with 1 and 3, and the string has
\* the highest position, to which the colliding key goes.
MCHashes == {[k \in Keys |-> IF k \in Ints THEN <<0, 1, 0>>[k] ELSE IF k = o THEN 3 ELSE 7]}

\* An integer that may be in either part, and the object.
MCWatched == {3, o}

\* What the last step was asked for tells no two states apart: no action reads it.
View == <<hash, t, absent, fresh, iter>>
=============================================================================
