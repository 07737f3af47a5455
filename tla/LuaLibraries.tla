---------------------------- MODULE LuaLibraries ----------------------------
(***************************************************************************)
(* The string library, the table library and the string buffers they use,  *)
(* together: a behaviour is one call of the string library, a series of    *)
(* calls on one table, or a series of operations on one buffer.            *)
(***************************************************************************)
EXTENDS LuaStringLib, LuaTableLib, LuaMatches

VARIABLE task       \* the library that is called

vars == <<task, stringVars, tableVars, bufferVars>>

NoCall == [f |-> "none"]

StringIdle ==
    /\ call = NoCall
    /\ phase = "done" /\ at = 1 /\ n = 0 /\ waiting = NULL /\ told = <<>> /\ results = <<>>

TableIdle ==
    /\ t = TableOf(<<>>) /\ list = <<>> /\ order = "less" /\ pc = "none"
    /\ l = 0 /\ u = 0 /\ i = 0 /\ j = 0 /\ stack = <<>> /\ frames = <<>> /\ edits = 0 /\ text = <<>>

Init ==
    /\ BufferInit
    /\ \/ task = "string" /\ StringInit /\ TableIdle
       \/ task = "table" /\ TableInit /\ StringIdle
       \/ task = "buffer" /\ StringIdle /\ TableIdle

StringStep == task = "string" /\ StringNext /\ UNCHANGED <<task, tableVars>>
TableStep == task = "table" /\ TableNext /\ UNCHANGED <<task, stringVars, bufferVars>>
BufferStep == task = "buffer" /\ BufferNext /\ UNCHANGED <<task, stringVars, tableVars>>

\* A string function has returned, or no comparison is outstanding.
Stopped ==
    \/ task = "string" /\ phase = "done"
    \/ task = "table" /\ ~Comparing

Next ==
    \/ StringStep \/ TableStep \/ BufferStep
    \/ Stopped /\ UNCHANGED vars

Spec == Init /\ [][Next]_vars

-----------------------------------------------------------------------------
(* Reference results of the string functions. *)

\* The characters at the positions i to j, negative ones counted from the end.
Between(s, from, to) ==
    LET Place(p) == IF p < 0 THEN Len(s) + 1 + p ELSE p
    IN  {k \in 1..Len(s) : Place(from) <= k /\ k <= Place(to)}

Selected(s, set) == SubSeq(s, Min(set \cup {Len(s) + 1}), Max(set \cup {0}))

Captured(s, m) ==
    [x \in DOMAIN m.caps |->
        IF m.caps[x].to = -1 THEN Number(m.caps[x].from) ELSE SubSeq(s, m.caps[x].from, m.caps[x].to - 1)]
Values(s, m) == IF m.caps = <<>> THEN <<Whole(s, m)>> ELSE Captured(s, m)

\* The text of a replacement string for a match, its parts being characters and captures, or ERROR.
Text(s, m, parts) ==
    LET part(x) == IF x.n = -1 THEN <<x.char>>
                   ELSE IF x.n = 0 THEN Whole(s, m)
                   ELSE IF x.n \in DOMAIN Values(s, m) THEN Values(s, m)[x.n] ELSE ERROR
        all == [x \in DOMAIN parts |-> part(parts[x])]
    IN  IF ERROR \in Range(all) THEN ERROR ELSE FlattenSeq(all)

\* What replaces each of the matches; nil keeps its text.
Replacing(matches) ==
    [x \in DOMAIN matches |->
        CASE call.repl.type = "string" -> Text(call.s, matches[x], call.repl.parts)
          [] call.repl.type = "table" -> Replacement(Values(call.s, matches[x])[1])
          [] call.repl.type = "function" -> IF x \in DOMAIN told THEN told[x] ELSE Nil]

Substituted(matches) ==
    LET s == call.s
        new == Replacing(matches)
        texts == [x \in DOMAIN new |-> IF new[x] \in {Nil, False} THEN Whole(s, matches[x]) ELSE new[x]]
    IN  IF {ERROR, Table} \cap Range(new) # {} THEN <<ERROR>>
        ELSE <<Replaced(s, 1, matches, texts), Number(Len(matches))>>

Expected ==
    LET s == call.s
        init == Min(Between(s, call.i, Len(s)) \cup {Len(s) + 1})
        matches == IF call.anchor THEN Anchored(s, call.items, init) ELSE Matches(s, call.items, init)
        chars == Selected(s, Between(s, call.i, call.j))
        search(values) == <<IF matches = <<>> THEN <<Nil>> ELSE values>>
    IN  CASE call.f = "find" -> search(<<Number(matches[1].from), Number(matches[1].to - 1)>> \o Captured(s, matches[1]))
          [] call.f = "match" -> search(Values(s, matches[1]))
          [] call.f = "gmatch" -> [x \in DOMAIN matches |-> Values(s, matches[x])]
          [] call.f = "gsub" -> <<Substituted(SubSeq(matches, 1, Min({Len(matches), call.max_s})))>>
          [] call.f = "sub" -> <<<<chars>>>>
          [] call.f = "byte" -> <<chars>>
          [] call.f = "rep" -> <<<<FlattenSeq([k \in 1..call.n |-> s])>>>>
          [] call.f = "reverse" -> <<<<[k \in DOMAIN s |-> s[Len(s) - k + 1]]>>>>

-----------------------------------------------------------------------------

\* A call of find, match, gmatch or gsub (str_find_aux, gmatch_aux, str_gsub) returns the first match in the order of
\* preference with its captures, all matches from left to right, or the subject with each of them replaced by what
\* the replacement gives, and nothing more while it runs; sub, byte, rep and reverse return their characters.  A
\* capture that a failed attempt leaves, or an empty match that is found again and again, breaks it.
MatchesReference ==
    task = "string" =>
        LET expected == IF call.malformed THEN <<<<ERROR>>>> ELSE Expected
        IN  IF phase = "done" THEN results = expected ELSE IsPrefix(results, expected)

\* A buffer (lauxlib.c) holds what was added, in order, whatever mix of characters, values and filled arrays it was;
\* its array does not overflow, its pieces are those on the stack, and with the two that one more
\* operation pushes they leave the function almost half of the slots it may use without asking.
BufferSound ==
    /\ task = "buffer" => BufferHolds
    /\ BufferFits

Count(s, v) == Cardinality({k \in DOMAIN s : s[k] = v})

\* The ranges auxsort has still to sort.
Pending == IF pc = "sorted" THEN {} ELSE {<<l, u>>} \cup Range(frames)

\* The functions of ltablib.c lose and repeat nothing: at each call of the order function, even if its answers are
\* not those of an order or it raises an error, the table holds each element once, and on a sequence insert, remove
\* and concat do what their names say.  With an order, sort never compares nil, what is outside of the ranges it has
\* yet to sort is in its final place, the ranges do not overlap, and the calls nest to a depth logarithmic in the
\* length, as the check of the C stack in sort assumes.
TableSound ==
    task = "table" =>
        /\ \A v \in (Range(list) \cup Range(t)) \ {NoValue} : Count(t, v) = Count(list, v)
        /\ pc = "idle" /\ Intact => t = TableOf(list)
        /\ \A c \in Range(text) :
            LET places == c.first..c.last
            IN  /\ c.error = \E k \in places : k \notin DOMAIN list
                /\ ~c.error => c.result = FlattenSeq([k \in 1..Cardinality(places) |->
                        (IF k = 1 THEN <<>> ELSE c.sep) \o <<list[c.first + k - 1]>>])
        /\ order = "less" /\ (Comparing \/ pc = "sorted") =>
            /\ NoValue \notin Range(stack)
            /\ \A k, m \in DOMAIN list :
                k < m /\ (\A r \in Pending : ~(r[1] <= k /\ m <= r[2])) => t[k] <= t[m]
            /\ \A r, r2 \in Pending : r = r2 \/ r[2] < r2[1] \/ r2[2] < r[1] \/ r[1] > r[2] \/ r2[1] > r2[2]
            /\ 2^Len(frames) <= Max({Len(list), 1})
=============================================================================
