----------------------------- MODULE LuaMatches -----------------------------
(***************************************************************************)
(* What a pattern matches, without a search: a pattern is a sequence of    *)
(* items, and Ways lists every way to match them from a position, the      *)
(* preferred one first (a repetition prefers more characters, or fewer     *)
(* with -).  The captures are a value of each way and nothing is undone.   *)
(* The matcher of LuaPattern is compared with the first way.               *)
(***************************************************************************)
EXTENDS Integers, FiniteSetsExt, SequencesExt

\* Items, each with its text in the pattern: one character of a set with its repetition, the ends of a capture,
\* a position capture, the text of the n-th capture, balanced text, a frontier (around the
\* subject are NULs), and the end of the subject.
One(text, set, rep) == [kind |-> "one", text |-> text \o rep, set |-> set, rep |-> rep]
Open == [kind |-> "open", text |-> "("]
Close == [kind |-> "close", text |-> ")"]
Position == [kind |-> "position", text |-> "()"]
Again(text, n) == [kind |-> "again", text |-> text, n |-> n]
Balanced(text, b, e) == [kind |-> "balanced", text |-> text, b |-> b, e |-> e]
Border(text, set) == [kind |-> "border", text |-> text, set |-> set]
End == [kind |-> "end", text |-> "$"]

\* Numbers of characters to try, of at most n.
Counts(rep, n) ==
    CASE rep = "" -> IF n >= 1 THEN <<1>> ELSE <<>>
      [] rep = "?" -> IF n >= 1 THEN <<1, 0>> ELSE <<0>>
      [] rep = "*" -> [x \in 1..n + 1 |-> n + 1 - x]
      [] rep = "+" -> [x \in 1..n |-> n + 1 - x]
      [] rep = "-" -> [x \in 1..n + 1 |-> x - 1]

RECURSIVE Ways(_, _, _, _)
Ways(s, pattern, k, caps) ==
    LET i == Head(pattern)
        Then(next, now) == Ways(s, Tail(pattern), next, now)
        If(holds, next) == IF holds THEN Then(next, caps) ELSE <<>>
        run == Max({n \in 0..Len(s) - k + 1 : \A x \in k..k + n - 1 : s[x] \in i.set})
        counts == Counts(i.rep, run)
        text == SubSeq(s, caps[i.n].from, caps[i.n].to - 1)
        occurs(c, x) == Cardinality({y \in k..x : s[y] = c})
        closing == {x \in k..Len(s) : s[k] = i.b /\ occurs(i.b, x) = occurs(i.e, x)}
        in(x) == (IF x \in 1..Len(s) THEN s[x] ELSE "nul") \in i.set
    IN  IF pattern = <<>> THEN <<[to |-> k, caps |-> caps]>>
        ELSE CASE i.kind = "one" -> FlattenSeq([x \in DOMAIN counts |-> Then(k + counts[x], caps)])
               [] i.kind = "open" -> Then(k, Append(caps, [from |-> k, to |-> 0]))
               [] i.kind = "close" -> Then(k, [caps EXCEPT ![Max({l \in DOMAIN caps : caps[l].to = 0})].to = k])
               [] i.kind = "position" -> Then(k, Append(caps, [from |-> k, to |-> -1]))
               [] i.kind = "again" -> If(SubSeq(s, k, Min({k + Len(text) - 1, Len(s)})) = text, k + Len(text))
               [] i.kind = "balanced" -> IF closing = {} THEN <<>> ELSE Then(Min(closing) + 1, caps)
               [] i.kind = "border" -> If(in(k) /\ ~in(k - 1), k)
               [] i.kind = "end" -> If(k = Len(s) + 1, k)

\* The matches of a pattern in s from position k on, from left to right: after a match comes the first that starts
\* behind it, an empty match counting as one character.
RECURSIVE Matches(_, _, _)
Matches(s, pattern, k) ==
    LET starts == {x \in k..Len(s) + 1 : Ways(s, pattern, x, <<>>) # <<>>}
        first == Min(starts)
        way == Head(Ways(s, pattern, first, <<>>))
    IN  IF starts = {} THEN <<>>
        ELSE <<[from |-> first, to |-> way.to, caps |-> way.caps]>>
             \o Matches(s, pattern, IF way.to = first THEN first + 1 ELSE way.to)

\* The matches of a pattern that is anchored at position k.
Anchored(s, pattern, k) ==
    LET ways == Ways(s, pattern, k, <<>>)
    IN  IF ways = <<>> THEN <<>> ELSE <<[from |-> k, to |-> Head(ways).to, caps |-> Head(ways).caps]>>

Whole(s, m) == SubSeq(s, m.from, m.to - 1)

\* s with the n-th match replaced by the n-th text.
RECURSIVE Replaced(_, _, _, _)
Replaced(s, k, matches, texts) ==
    IF matches = <<>> THEN SubSeq(s, k, Len(s))
    ELSE SubSeq(s, k, Head(matches).from - 1) \o Head(texts)
         \o Replaced(s, Head(matches).to, Tail(matches), Tail(texts))
=============================================================================
