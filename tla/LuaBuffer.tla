----------------------------- MODULE LuaBuffer -----------------------------
(***************************************************************************)
(* The string buffers of the auxiliary library (lauxlib.c): characters are *)
(* collected in a fixed array, full arrays and long values become pieces   *)
(* on the Lua stack, and the pieces are concatenated so that there are     *)
(* never many of them.  A string is a sequence of characters.              *)
(*                                                                         *)
(* A buffer is used in any order of the operations of lauxlib.h; gsub      *)
(* (LuaStringLib) and concat (LuaTableLib) use the same operators.         *)
(***************************************************************************)
EXTENDS Naturals, SequencesExt

CONSTANTS
    LUAL_BUFFERSIZE,    \* characters in the array
    LUA_MINSTACK,       \* stack slots a C function has without asking
    Characters,         \* characters and values that are added
    Additions,
    MaxAdded            \* bound: characters added to one buffer

ASSUME BufferAssumption == LUAL_BUFFERSIZE \in Nat \ {0} /\ LUA_MINSTACK \in Nat /\ LUA_MINSTACK >= 4
ASSUME AdditionsAssumption == Additions \subseteq Seq(Characters)

VARIABLES
    B,          \* the buffer: its characters p, the number lvl of its pieces, and the Lua stack
    added       \* everything added to it, in order

bufferVars == <<B, added>>

LIMIT == LUA_MINSTACK \div 2

Len2(s, n) == Len(s[Len(s) - n + 1])
Top(s, n) == SubSeq(s, Len(s) - n + 1, Len(s))
Pop(s, n) == SubSeq(s, 1, Len(s) - n)

\* The n values at the top of the stack become their concatenation.
lua_concat(s, n) == IF n = 1 THEN s ELSE Append(Pop(s, n), FlattenSeq(Top(s, n)))

luaL_buffinit(stack) == [p |-> <<>>, lvl |-> 0, stack |-> stack]

emptybuffer(b) ==
    IF b.p = <<>> THEN b ELSE [p |-> <<>>, lvl |-> b.lvl + 1, stack |-> Append(b.stack, b.p)]

\* The loop stops at the first piece that is not shorter than all above it together, unless there would be too
\* many pieces.
Concatenated(b) ==
    LET toplen(n) == Len(FlattenSeq(Top(b.stack, n)))
        last(n) == /\ b.lvl - n + 1 < LIMIT
                   /\ toplen(n) <= Len2(b.stack, n + 1)
    IN  CHOOSE n \in 1..b.lvl : /\ n = b.lvl \/ last(n)
                                /\ \A m \in 1..n - 1 : ~last(m)

adjuststack(b) ==
    IF b.lvl <= 1 THEN b
    ELSE LET toget == Concatenated(b)
         IN  [b EXCEPT !.stack = lua_concat(@, toget), !.lvl = @ - toget + 1]

luaL_prepbuffer(b) == IF b.p = <<>> THEN b ELSE adjuststack(emptybuffer(b))

luaL_addchar(b, c) ==
    LET room == IF Len(b.p) < LUAL_BUFFERSIZE THEN b ELSE luaL_prepbuffer(b)
    IN  [room EXCEPT !.p = Append(@, c)]

luaL_addlstring(b, s) ==
    LET after[n \in 0..Len(s)] == IF n = 0 THEN b ELSE luaL_addchar(after[n - 1], s[n])
    IN  after[Len(s)]

\* The array's characters are pushed above the value they come before.
AddBelow(b) ==
    LET v == Last(b.stack)
        below == [b EXCEPT !.stack = Front(@)]
    IN  IF Len(v) <= LUAL_BUFFERSIZE - Len(b.p)
        THEN [below EXCEPT !.p = @ \o v]
        ELSE adjuststack([emptybuffer(b) EXCEPT !.lvl = @ + 1])

\* The value on the top of the stack: copied to the array, or a new piece above the array's characters.
luaL_addvalue(b) ==
    LET v == Last(b.stack)
        below == [b EXCEPT !.stack = Front(@)]
        empty == emptybuffer(below)
    IN  IF Len(v) <= LUAL_BUFFERSIZE - Len(b.p)
        THEN [below EXCEPT !.p = @ \o v]
        ELSE adjuststack([empty EXCEPT !.stack = Append(@, v), !.lvl = @ + 1])

\* The whole contents on the top of the stack.
luaL_pushresult(b) ==
    LET e == emptybuffer(b) IN [e EXCEPT !.stack = lua_concat(@, e.lvl), !.lvl = 1]

-----------------------------------------------------------------------------

BufferInit == B = luaL_buffinit(<<>>) /\ added = <<>>

\* A caller adds a character, a value it has pushed, or fills the array itself (luaL_addsize).
AddChar == \E c \in Characters :
    /\ Len(added) < MaxAdded
    /\ B' = luaL_addchar(B, c)
    /\ added' = Append(added, c)

AddValue == \E v \in Additions :
    /\ Len(added) + Len(v) <= MaxAdded
    /\ B' = luaL_addvalue([B EXCEPT !.stack = Append(@, v)])
    /\ added' = added \o v

AddSize == \E v \in Additions :
    /\ Len(added) + Len(v) <= MaxAdded
    /\ Len(v) <= LUAL_BUFFERSIZE
    /\ B' = [luaL_prepbuffer(B) EXCEPT !.p = v]
    /\ added' = added \o v

PushResult ==
    /\ B' = luaL_pushresult(B)
    /\ UNCHANGED added

BufferNext == AddChar \/ AddValue \/ AddSize \/ PushResult

BufferSpec == BufferInit /\ [][BufferNext]_bufferVars

\* What was added is in the pieces and the array.
BufferHolds == FlattenSeq(B.stack) \o B.p = added

\* The array does not overflow, the pieces are on the stack, and there are few.
BufferFits ==
    /\ Len(B.p) <= LUAL_BUFFERSIZE
    /\ B.lvl = Len(B.stack)
    /\ B.lvl <= 1 \/ B.lvl < LIMIT
=============================================================================
