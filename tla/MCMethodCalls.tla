--------------------------- MODULE MCMethodCalls ---------------------------
(* MethodCalls with overloads that share their number of arguments. *)
EXTENDS MethodCalls

In(type)  == [type |-> type, mode |-> "in"]
Ref(type) == [type |-> type, mode |-> "ref"]
Out(type) == [type |-> type, mode |-> "out"]
Optional(type) == [type |-> type, mode |-> "optional"]
Params == [type |-> "bytes", mode |-> "params"]
Overload(void, params) == [params |-> params, void |-> void]

MCMade(d, i) == << <<"r1", "a1", "b1", "c1">>, <<"r2", "a2", "b2", "c2">> >>[d][i + 1]

MCFamilies ==
    { << Overload(FALSE, <<In("string"), Out("byte"), Out("byte")>>),
         Overload(TRUE,  <<Out("byte"), In("object")>>) >>,
      << Overload(FALSE, <<In("table"), Ref("byte")>>),
         Overload(TRUE,  <<In("object"), In("string")>>) >>,
      << Overload(FALSE, <<Optional("object"), Optional("string")>>),
         Overload(TRUE,  <<Ref("table")>>) >>,
      << Overload(FALSE, <<Params>>) >>,
      << Overload(FALSE, <<In("byte"), Params>>),
         Overload(TRUE,  <<In("byte"), In("object")>>) >> }

\* What is never read again: an array that neither the cache nor a call uses, the arguments
\* of a call that can no longer search for another overload, and the results.
View ==
    LET used == {cache.args} \cup {calls[k].array : k \in DOMAIN calls}
        searches(f) == f.at \in {"search", "fill"} \/ (f.at # "out" /\ f.cached /\ Len(members) > 1)
    IN  <<members, byName, refused, cache,
          [id \in DOMAIN arrays |-> IF id \in used THEN arrays[id] ELSE << >>],
          [k \in DOMAIN calls |-> IF searches(calls[k]) THEN calls[k] ELSE [calls[k] EXCEPT !.given = << >>]]>>
=============================================================================
