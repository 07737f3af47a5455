------------------------------ MODULE MCLuaGC ------------------------------
(* LuaGC with a small heap. *)
EXTENDS LuaGC
=============================================================================
