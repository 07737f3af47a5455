--------------------------- MODULE MCLuaLibraries ---------------------------
(* LuaLibraries with calls on short subjects, all tables of a few numbers, and a small buffer. *)
EXTENDS LuaLibraries

MCMatcher(ms, s, p) == LET result == match(ms, s, p) IN result

Alphabet == {"a", "b", " ", "(", ")"}
Strings(set, len) == UNION {[1..k -> set] : k \in 0..len}

Base == [f |-> "match", s |-> <<>>, items |-> <<>>, anchor |-> FALSE, p |-> <<>>, plain |-> FALSE, malformed |-> FALSE,
         i |-> 1, j |-> -1, n |-> 0, max_s |-> 9, repl |-> [type |-> "none"]]

PatternText(items, anchor) ==
    (IF anchor THEN <<"^">> ELSE <<>>) \o FlattenSeq([k \in DOMAIN items |-> Chars(items[k].text)])
With(c, items) == [c EXCEPT !.items = items, !.p = PatternText(items, c.anchor)]

Reps == {"", "?", "*", "+", "-"}
A(rep) == One("a", {"a"}, rep)
Dot(rep) == One(".", Alphabet, rep)
NotA(rep) == One("[^a]", Alphabet \ {"a"}, rep)
Letter(rep) == One("%a", {"a", "b"}, rep)
NoLetter(rep) == One("%A", Alphabet \ {"a", "b"}, rep)
Within(rep) == One("[%sb-z]", {" ", "b"}, rep)

\* Every pair of repetitions, and one after the other.
Pairs == {<<x, y>> : x \in {A(r) : r \in Reps} \cup {Dot(r) : r \in Reps}, y \in {NotA(r) : r \in Reps}}
Captures ==
    {<<Open, Dot(x), Close, Letter(y), Again("%1", 1)>> : x, y \in Reps}
    \cup {<<Open, A(x), Open, Dot(y), Close, Close, NotA("+")>> : x, y \in Reps}
    \cup {<<Position, A(x), Position, Dot(y), End>> : x, y \in Reps}
    \cup {<<Open, A(x), Close, Open, Dot(y), Close, Again("%2", 2), End>> : x, y \in Reps}
Others ==
    {<<Balanced("%b()", "(", ")")>>, <<Dot("-"), Balanced("%b()", "(", ")"), End>>,
     <<Border("%f[%a]", {"a", "b"}), Open, Letter("+"), Close>>, <<Border("%f[^b]", (Alphabet \ {"b"}) \cup {Nul}), NotA("?")>>,
     <<NoLetter("*"), Open, Within("-"), Close, One("[]%(]", {"]", "("}, "")>>, <<One("$", {}, ""), A("")>>}

Searches ==
    {With([Base EXCEPT !.f = f, !.s = s], p) :
        f \in {"find", "match", "gmatch"}, s \in Strings({"a", "b"}, 3), p \in Pairs}
    \cup {With([Base EXCEPT !.s = s], p) : s \in Strings({"a", "b"}, 4), p \in Captures}
    \cup {With([Base EXCEPT !.f = f, !.s = s], p) :
            f \in {"find", "gmatch"}, s \in Strings({"a", "(", ")"}, 4) \cup Strings({"a", "b", " "}, 3), p \in Others}
    \cup {With([Base EXCEPT !.f = f, !.s = s, !.i = k, !.anchor = anchor], <<A("-"), Letter("")>>) :
            f \in {"find", "match"}, s \in Strings({"a", "b"}, 2), k \in -4..4, anchor \in BOOLEAN}
    \cup {With([Base EXCEPT !.f = "find", !.s = s, !.i = k, !.plain = TRUE], p) :
            s \in Strings({"a", "("}, 4), k \in {-2, 1, 3},
            p \in {<<>>, <<A("")>>, <<A(""), A("")>>, <<A(""), One("(", {"("}, ""), A("")>>}}
    \cup {With([Base EXCEPT !.f = "find", !.s = s], p) : s \in Strings({"a", "b"}, 4), p \in {<<A(""), Letter("")>>}}

\* Patterns and replacements that are errors once they are reached.
Malformed ==
    {[Base EXCEPT !.f = f, !.s = <<"a", "b">>, !.p = Chars(p), !.malformed = TRUE] :
        f \in {"find", "match"}, p \in {"(a", "%", "[a", "[^", "(%1)", "a%2", "%f", "%b(", "b%0", "(()(()", "(a))", "a%f["}}
    \cup {[Base EXCEPT !.f = "gsub", !.s = <<"a", "b">>, !.p = Chars("b[a"), !.malformed = TRUE,
                       !.repl = [type |-> "string", text |-> <<>>, parts |-> <<>>]],
          [Base EXCEPT !.f = "gmatch", !.s = <<"b">>, !.p = Chars("b("), !.malformed = TRUE]}

Literal(s, char) == [text |-> s, n |-> -1, char |-> char]
Capture(k) == [text |-> "%" \o ToString(k), n |-> k, char |-> ""]
StringRepl(parts) ==
    [type |-> "string", parts |-> parts, text |-> FlattenSeq([k \in DOMAIN parts |-> Chars(parts[k].text)])]

Repls ==
    {StringRepl(parts) : parts \in
        {<<>>, <<Capture(0), Literal("b", "b"), Literal("%%", "%")>>, <<Capture(1), Capture(1)>>, <<Literal("a", "a"), Capture(2)>>,
         <<Literal("%", Nul)>>}}
    \cup {[type |-> "table"], [type |-> "function"]}

Substitutions ==
    {With([Base EXCEPT !.f = "gsub", !.s = s, !.repl = repl, !.max_s = max, !.anchor = anchor], p) :
        s \in Strings({"a", "b"}, 3), repl \in Repls, max \in {0, 1, 9}, anchor \in BOOLEAN,
        p \in {<<A("*")>>, <<Letter("-")>>, <<Open, Dot("?"), Close, NotA("*")>>, <<Position, NotA("+")>>,
               <<Open, Letter(""), Close, Open, A("*"), Close>>}}

OfPositions ==
    {[Base EXCEPT !.f = f, !.s = s, !.i = x, !.j = y] :
        f \in {"sub", "byte"}, s \in {<<>>, <<"a">>, <<"a", "b", " ">>}, x, y \in -5..5}
    \cup {[Base EXCEPT !.f = f, !.s = s, !.n = k] : f \in {"rep", "reverse"}, s \in Strings({"a", "b"}, 3), k \in 0..4}

MCCalls == Searches \cup Malformed \cup Substitutions \cup OfPositions

MCReturned == {Nil, False, <<"b", "a">>, <<>>, <<"b", "b", "a", "a", "b">>, Table}
MCReplacement(key) ==
    CASE key = <<"a">> -> <<"b", "b", "b", "b">> [] key = <<"b">> -> False [] key = <<"a", "a">> -> Table [] OTHER -> Nil

Counting(m) == [k \in 1..m |-> k]
MCArrays ==
    [s : UNION {[1..k -> 1..3] : k \in 0..5}, order : {"less"}, edits : {0}]
    \cup [s : {Counting(m) : m \in 1..5}, order : {"any"}, edits : {0}]
    \cup [s : {Counting(m) : m \in 0..3}, order : {"less"}, edits : {2}]

MCAdditions == {<<>>, <<"a">>, <<"a", "b">>, <<"a", "b", "a">>, <<"b", "b", "a", "b", "a">>}
=============================================================================
