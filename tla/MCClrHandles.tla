---------------------------- MODULE MCClrHandles ----------------------------
(* ClrHandles with the marker, two more userdata and two CLR objects. *)
EXTENDS ClrHandles
=============================================================================
