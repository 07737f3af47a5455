--------------------------- MODULE LuaPrecompiled ---------------------------
(***************************************************************************)
(* Precompiled chunks: lua-5.1.5/src/ldump.c writes a function as a stream *)
(* of values and lundump.c reads it back.                                  *)
(*                                                                         *)
(* A stream is a sequence of pairs: how wide the value is written (char,   *)
(* int, size_t, number, block) and the value.  The loader reads what it    *)
(* expects next; a value of another width, or none, clears ok, as does     *)
(* each error of the loader.  Line numbers, the names of upvalues and of   *)
(* the source are left out; string.dump does not strip.                    *)
(***************************************************************************)
EXTENDS LuaCheck

DumpChar(x) == << <<"char", x>> >>
DumpInt(x) == << <<"int", x>> >>
Flattened(seqs) == FoldLeft(LAMBDA x, y : x \o y, << >>, seqs)
Header == << <<"block", "header of this build">> >>

\* The size counts the byte 0 at the end; a size of 0 is no string.
DumpString(s) == << <<"size", Len(s) + 1>>, <<"block", s>> >>
DumpCode(items) == DumpInt(Len(items)) \o [i \in DOMAIN items |-> <<"word", items[i]>>]

DumpConstant(v) ==
  CASE v[1] = "nil" -> DumpChar("nil")
    [] v[1] = "bool" -> DumpChar("bool") \o DumpChar(v[2])
    [] v[1] = "num" -> DumpChar("num") \o << <<"number", v[2]>> >>
    [] v[1] = "str" -> DumpChar("str") \o DumpString(v[2])

DumpDebug(f) ==
  DumpInt(Len(f.locvars))
  \o Flattened([i \in DOMAIN f.locvars |->
                  DumpString(f.locvars[i].name) \o DumpInt(f.locvars[i].startpc) \o DumpInt(f.locvars[i].endpc)])

RECURSIVE DumpFunction(_)
DumpConstants(f) ==
  DumpInt(Len(f.k)) \o Flattened([i \in DOMAIN f.k |-> DumpConstant(f.k[i])])
  \o DumpInt(Len(f.p)) \o Flattened([i \in DOMAIN f.p |-> DumpFunction(f.p[i])])
DumpFunction(f) ==
  DumpChar(f.nups) \o DumpChar(f.numparams) \o DumpChar(f.is_vararg) \o DumpChar(f.maxstacksize)
  \o DumpCode(f.code) \o DumpConstants(f) \o DumpDebug(f)

\* luaU_dump
Dump(f) == Header \o DumpFunction(f)

-----------------------------------------------------------------------------
\* The loader.  s is the stream with the place of the next value and ok; a
\* Load operator returns s and what it has read, v.

LoadBlock(s, width) ==
  IF s.at \in DOMAIN s.in /\ s.in[s.at][1] = width
  THEN [s |-> [s EXCEPT !.at = @ + 1], v |-> s.in[s.at][2]]
  ELSE [s |-> [s EXCEPT !.ok = FALSE], v |-> 0]
LoadInt(s) ==
  LET x == LoadBlock(s, "int") IN [x EXCEPT !.s.ok = @ /\ x.v >= 0]
LoadString(s) ==
  LET size == LoadBlock(s, "size")
  IN  IF size.v = 0 THEN size ELSE LoadBlock(size.s, "block")

LoadConstant(s) ==
  LET t == LoadBlock(s, "char")
      b == LoadBlock(t.s, "char")
      n == LoadBlock(t.s, "number")
      str == LoadString(t.s)
  IN  CASE t.v = "nil" -> [s |-> t.s, v |-> NilV]
        [] t.v = "bool" -> [s |-> b.s, v |-> BoolV(IF b.v # 0 THEN 1 ELSE 0)]
        [] t.v = "num" -> [s |-> n.s, v |-> NumV(n.v)]
        [] t.v = "str" -> [s |-> str.s, v |-> StrV(str.v)]
        [] OTHER -> [s |-> [t.s EXCEPT !.ok = FALSE], v |-> NilV]

LoadLocVar(s) ==
  LET name == LoadString(s)
      startpc == LoadInt(name.s)
      endpc == LoadInt(startpc.s)
  IN  [s |-> endpc.s, v |-> [name |-> name.v, startpc |-> startpc.v, endpc |-> endpc.v]]

\* LoadCode: an int and as many words, which are read at once.
LoadCode(s) ==
  LET n == LoadInt(s)
      words == SubSeq(s.in, n.s.at, n.s.at + n.v - 1)
  IN  IF Len(words) = n.v /\ \A i \in DOMAIN words : words[i][1] = "word"
      THEN [s |-> [n.s EXCEPT !.at = @ + n.v], v |-> [i \in DOMAIN words |-> words[i][2]]]
      ELSE [s |-> [n.s EXCEPT !.ok = FALSE], v |-> << >>]

\* An int and as many items of a kind.
RECURSIVE LoadFunction(_)
LoadItem(s, kind) ==
  CASE kind = "constant" -> LoadConstant(s)
    [] kind = "locvar" -> LoadLocVar(s)
    [] kind = "function" -> LoadFunction(s)
LoadVector(s, kind) ==
  LET n == LoadInt(s)
      next(r, i) == LET x == LoadItem(r.s, kind) IN [s |-> x.s, v |-> Append(r.v, x.v)]
  IN  FoldLeft(next, [s |-> n.s, v |-> << >>], [i \in 1..n.v |-> i])

LoadFunction(s) ==
  LET nups == LoadBlock(s, "char")
      numparams == LoadBlock(nups.s, "char")
      is_vararg == LoadBlock(numparams.s, "char")
      maxstacksize == LoadBlock(is_vararg.s, "char")
      code == LoadCode(maxstacksize.s)
      k == LoadVector(code.s, "constant")
      p == LoadVector(k.s, "function")
      locvars == LoadVector(p.s, "locvar")
      f == [code |-> code.v, k |-> k.v, p |-> p.v, nups |-> nups.v, numparams |-> numparams.v,
            is_vararg |-> is_vararg.v, maxstacksize |-> maxstacksize.v, locvars |-> locvars.v]
  IN  [s |-> [locvars.s EXCEPT !.ok = @ /\ CheckCode(f)], v |-> f]

\* luaU_undump: the function and whether it was accepted.
Undump(in) ==
  LET header == LoadBlock([in |-> in, at |-> 1, ok |-> TRUE], "block")
      f == LoadFunction(header.s)
  IN  [main |-> f.v, ok |-> f.s.ok /\ Header = << <<"block", header.v>> >>]
=============================================================================
