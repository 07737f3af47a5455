-------------------------- MODULE MCLuaReferences --------------------------
(* LuaReferences with a few LuaBases and a registry that they can fill. *)
EXTENDS LuaReferences
=============================================================================
