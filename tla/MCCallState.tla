---------------------------- MODULE MCCallState ----------------------------
(* CallState with small limits; coroutines are interchangeable. *)
EXTENDS CallState, TLC

CoroutineSymmetry == Permutations(Coroutines)
=============================================================================
