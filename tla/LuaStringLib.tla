---------------------------- MODULE LuaStringLib ----------------------------
(***************************************************************************)
(* The functions of the string library (lstrlib.c) that work on positions  *)
(* and patterns.  One call of the library is made, with arguments of       *)
(* Calls.  A call of gmatch is the loop that calls its iterator, and gsub  *)
(* is one step for each place it tries, with the step in which it waits    *)
(* for the function that gives a replacement; its result grows in a        *)
(* LuaBuffer.                                                              *)
(*                                                                         *)
(* A string is a sequence of characters, and a number that a function      *)
(* returns or captures is the string of its digits.                        *)
(***************************************************************************)
EXTENDS LuaPattern, LuaBuffer

CONSTANTS
    Matcher(_, _, _),   \* match, of LuaPattern
    Calls,          \* the calls to check: function and arguments
    Returned,       \* what a replacement function may return
    Replacement(_)  \* what a replacement table holds at a key

VARIABLES
    call,           \* the call
    phase,          \* where it is
    at,             \* the position in the subject it continues at
    n,              \* substitutions made
    waiting,        \* the end of the match the replacement function was called for
    told,           \* what replacement functions returned, in order
    results         \* what was returned: a sequence of strings for each call or iteration

stringVars == <<call, phase, at, n, waiting, told, results>>

\* Values that are not strings.
Nil == <<"nil">>
False == <<"false">>
Table == <<"table">>
ERROR == <<"error">>
NoBuffer == [luaL_buffinit(<<>>) EXCEPT !.lvl = -1]     \* what an error leaves of a buffer

Number(k) == Chars(ToString(k))

-----------------------------------------------------------------------------
(* Positions. *)

\* A negative position counts from the end.
posrelat(pos, len) == LET p == IF pos < 0 THEN pos + len + 1 ELSE pos IN IF p >= 0 THEN p ELSE 0

str_sub(s, i, j) ==
    LET start == Max({posrelat(i, Len(s)), 1})
        end == Min({posrelat(j, Len(s)), Len(s)})
    IN  IF start <= end THEN SubSeq(s, start, end) ELSE <<>>

str_byte(s, i, j) ==
    LET posi == Max({posrelat(i, Len(s)), 1})
        pose == Min({posrelat(j, Len(s)), Len(s)})
    IN  IF posi > pose THEN <<>> ELSE [k \in 1..pose - posi + 1 |-> s[posi + k - 1]]

str_rep(s, times) ==
    LET after[k \in 0..times] == IF k = 0 THEN luaL_buffinit(<<>>) ELSE luaL_addlstring(after[k - 1], s)
    IN  Last(luaL_pushresult(after[times]).stack)

str_reverse(s) == Last(luaL_pushresult(luaL_addlstring(luaL_buffinit(<<>>), Reverse(s))).stack)

-----------------------------------------------------------------------------
(* Searches. *)

\* The i-th capture, from 0: the whole match when the pattern has none.
push_onecapture(ms, i, s, e) ==
    IF i >= ms.level THEN IF i = 0 THEN SubSeq(ms.src, s, e - 1) ELSE ERROR
    ELSE LET c == ms.capture[i]
         IN  CASE c.len = CAP_UNFINISHED -> ERROR
               [] c.len = CAP_POSITION -> Number(c.init)
               [] OTHER -> SubSeq(ms.src, c.init, c.init + c.len - 1)

push_captures(ms, s, e) ==
    LET nlevels == IF ms.level = 0 /\ s # NULL THEN 1 ELSE ms.level
        values == [i \in 1..nlevels |-> push_onecapture(ms, i - 1, s, e)]
    IN  IF ERROR \in Range(values) THEN <<ERROR>> ELSE values

\* s2 in the l1 places of s from s1 on where it may begin.
RECURSIVE Find(_, _, _, _)
Find(s, s1, l1, s2) ==
    LET init == Min({k \in s1..s1 + l1 - 1 : s[k] = s2[1]}) + 1
    IN  IF \A k \in s1..s1 + l1 - 1 : s[k] # s2[1] THEN NULL
        ELSE IF SubSeq(s, init, init + Len(s2) - 2) = Tail(s2) THEN init - 1
        ELSE Find(s, init, l1 - (init - s1), s2)

lmemfind(s, s1, s2) ==
    LET l1 == Len(s) - s1 + 1
    IN  IF s2 = <<>> THEN s1
        ELSE IF Len(s2) > l1 THEN NULL
        ELSE Find(s, s1, l1 - (Len(s2) - 1), s2)

\* The first position from s1 on where p matches.  Each is tried with nothing captured; what a failed attempt leaves
\* behind the level is unset here, so that no attempt reads it.
Search(ms, s1, p, anchor) ==
    LET attempt[k \in s1..SrcEnd(ms)] ==
            LET r == Matcher(ms, k, p)
            IN  IF r.e = NULL /\ k < SrcEnd(ms) /\ ~anchor THEN attempt[k + 1]
                ELSE [from |-> k, to |-> r.e, ms |-> r.ms]
    IN  attempt[s1]

SPECIALS == {"^", "$", "*", "+", "?", ".", "(", "[", "%", "-"}

Anchor(p) == p # <<>> /\ p[1] = "^"
First(p) == IF Anchor(p) THEN 2 ELSE 1

str_find_aux(c, find) ==
    LET init == Min({Max({posrelat(c.i, Len(c.s)) - 1, 0}), Len(c.s)})
        plain == find /\ (c.plain \/ Range(c.p) \cap SPECIALS = {})
        s2 == lmemfind(c.s, init + 1, c.p)
        r == Search(NewMatch(c.s, c.p), init + 1, First(c.p), Anchor(c.p))
        captures == IF find THEN push_captures(r.ms, NULL, 0) ELSE push_captures(r.ms, r.from, r.to)
    IN  IF plain THEN IF s2 = NULL THEN <<Nil>> ELSE <<Number(s2), Number(s2 + Len(c.p) - 1)>>
        ELSE IF r.to = NULL THEN <<Nil>>
        ELSE IF r.to = RAISED \/ captures = <<ERROR>> THEN <<ERROR>>
        ELSE (IF find THEN <<Number(r.from), Number(r.to - 1)>> ELSE <<>>) \o captures

-----------------------------------------------------------------------------

StringInit ==
    /\ call \in Calls
    /\ phase = "call" /\ at = 1 /\ n = 0 /\ waiting = NULL /\ told = <<>> /\ results = <<>>

Return(values) ==
    /\ phase' = "done"
    /\ results' = Append(results, values)
    /\ UNCHANGED <<call, at, n, waiting, told>>

Positions ==
    /\ phase = "call" /\ UNCHANGED bufferVars
    /\ \/ call.f = "sub" /\ Return(<<str_sub(call.s, call.i, call.j)>>)
       \/ call.f = "byte" /\ Return(str_byte(call.s, call.i, call.j))
       \/ call.f = "rep" /\ Return(<<str_rep(call.s, call.n)>>)
       \/ call.f = "reverse" /\ Return(<<str_reverse(call.s)>>)

FindOrMatch ==
    /\ phase = "call" /\ call.f \in {"find", "match"}
    /\ Return(str_find_aux(call, call.f = "find")) /\ UNCHANGED bufferVars

\* The iterator of gmatch: its third upvalue is where it continues.
gmatch_aux ==
    /\ phase = "call" /\ call.f = "gmatch" /\ UNCHANGED <<bufferVars, call, n, waiting, told>>
    /\ LET r == Search(NewMatch(call.s, call.p), at, 1, FALSE)
           values == push_captures(r.ms, r.from, r.to)
       IN  IF at > Len(call.s) + 1 \/ r.to = NULL
           THEN phase' = "done" /\ UNCHANGED <<at, results>>
           ELSE IF r.to = RAISED \/ values = <<ERROR>>
           THEN phase' = "done" /\ results' = Append(results, <<ERROR>>) /\ UNCHANGED at
           ELSE /\ at' = IF r.to = r.from THEN r.to + 1 ELSE r.to
                /\ results' = Append(results, values)
                /\ UNCHANGED phase

\* The replacement string with the captures its escapes name.
RECURSIVE add_s(_, _, _, _, _)
add_s(ms, news, b, s, e) ==
    LET c == At(news, 2)
        value == push_onecapture(ms, Code[c] - Code["1"], s, e)
        rest == SubSeq(news, 3, Len(news))
    IN  IF news = <<>> THEN b
        ELSE IF news[1] # "%" THEN add_s(ms, Tail(news), luaL_addchar(b, news[1]), s, e)
        ELSE IF c \notin Digit THEN add_s(ms, rest, luaL_addchar(b, c), s, e)
        ELSE IF c = "0" THEN add_s(ms, rest, luaL_addlstring(b, SubSeq(ms.src, s, e - 1)), s, e)
        ELSE IF value = ERROR THEN NoBuffer
        ELSE add_s(ms, rest, luaL_addvalue([b EXCEPT !.stack = Append(@, value)]), s, e)

\* A value in place of the match from s to e: nil and false keep the original text.
add_value(b, v, s, e) ==
    LET text == IF v \in {Nil, False} THEN SubSeq(call.s, s, e - 1) ELSE v
    IN  IF v = Table THEN NoBuffer ELSE luaL_addvalue([b EXCEPT !.stack = Append(@, text)])

Fails == phase' = "done" /\ results' = <<<<ERROR>>>> /\ UNCHANGED <<B, at>>

\* The rest of an iteration at s, with the match that ended at e or NULL, and b the buffer.
Advance(b, s, e) ==
    IF b = NoBuffer THEN Fails
    ELSE /\ UNCHANGED results
         /\ \/ /\ e # NULL /\ e > s
               /\ at' = e /\ B' = b /\ phase' = IF Anchor(call.p) THEN "end" ELSE "loop"
            \/ /\ ~(e # NULL /\ e > s) /\ s <= Len(call.s)
               /\ at' = s + 1 /\ B' = luaL_addchar(b, call.s[s])
               /\ phase' = IF Anchor(call.p) THEN "end" ELSE "loop"
            \/ /\ ~(e # NULL /\ e > s) /\ s > Len(call.s)
               /\ B' = b /\ phase' = "end" /\ UNCHANGED at

GsubBegins ==
    /\ phase = "call" /\ call.f = "gsub"
    /\ B' = luaL_buffinit(<<>>) /\ phase' = "loop"
    /\ UNCHANGED <<added, call, at, n, waiting, told, results>>

\* The pattern is tried at the position, and a replacement string or table gives the text of a match.
GsubTries ==
    /\ phase = "loop" /\ n < call.max_s
    /\ LET r == Matcher(NewMatch(call.s, call.p), at, First(call.p))
           args == push_captures(r.ms, at, r.e)
           value == push_onecapture(r.ms, 0, at, r.e)
       IN  CASE r.e = RAISED -> Fails /\ UNCHANGED <<n, waiting>>
             [] r.e = NULL -> Advance(B, at, NULL) /\ UNCHANGED <<n, waiting>>
             [] r.e > 0 /\ call.repl.type = "string" ->
                    /\ Advance(add_s(r.ms, call.repl.text, B, at, r.e), at, r.e)
                    /\ n' = n + 1 /\ UNCHANGED waiting
             [] r.e > 0 /\ call.repl.type = "table" ->
                    /\ IF value = ERROR THEN Fails
                       ELSE Advance(add_value(B, Replacement(value), at, r.e), at, r.e)
                    /\ n' = n + 1 /\ UNCHANGED waiting
             [] r.e > 0 /\ call.repl.type = "function" ->
                    /\ n' = n + 1
                    /\ IF args = <<ERROR>> THEN Fails /\ UNCHANGED waiting
                       ELSE phase' = "replacing" /\ waiting' = r.e /\ UNCHANGED <<at, B, results>>
    /\ UNCHANGED <<added, call, told>>

\* The replacement function returns, with the buffer's pieces still on the stack below its result.
GsubReplaces == \E v \in Returned :
    /\ phase = "replacing"
    /\ Advance(add_value(B, v, at, waiting), at, waiting)
    /\ told' = Append(told, v) /\ waiting' = NULL
    /\ UNCHANGED <<added, call, n>>

GsubEnds ==
    /\ phase = "end" \/ (phase = "loop" /\ n >= call.max_s)
    /\ B' = luaL_pushresult(luaL_addlstring(B, SubSeq(call.s, at, Len(call.s))))
    /\ results' = <<<<Last(B'.stack), Number(n)>>>>
    /\ phase' = "done"
    /\ UNCHANGED <<added, call, at, n, waiting, told>>

StringNext ==
    \/ Positions \/ FindOrMatch \/ gmatch_aux
    \/ GsubBegins \/ GsubTries \/ GsubReplaces \/ GsubEnds
=============================================================================
