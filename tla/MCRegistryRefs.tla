--------------------------- MODULE MCRegistryRefs ---------------------------
(* RegistryRefs on a registry of a few slots. *)
EXTENDS RegistryRefs
=============================================================================
